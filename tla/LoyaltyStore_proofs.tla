------------------------ MODULE LoyaltyStore_proofs ------------------------
(***************************************************************************)
(* For any number of calls, customers, prizes and seeds, and any width of  *)
(* an int: the types, that no Customer object serves two accounts, that    *)
(* only a deposit moves a balance somebody was given, that the store       *)
(* implements the bank, what a call that arrives after the seeding finds,  *)
(* and that nothing a command did is lost.                                 *)
(***************************************************************************)
EXTENDS LoyaltyStore, FiniteSetTheorems, TLAPS

Waiting == {"idle", "starting", "seeding"}

\* The command of the call has run and has returned something.
Answering == {"reply", "asking", "prizes", "answered"}

\* A call reaches its phases with an engine in hand, and with what the phase
\* reads; an engine nobody has started is empty, and nobody holds it.
InPhase ==
  \A c \in Calls :
    /\ calls[c].pc # "idle" => calls[c].op \in Operations
    /\ calls[c].pc \in {"idle", "starting"} =>
         /\ calls[c].seeded = 0 /\ calls[c].inserted = {}
         /\ \A id \in Customers : db[c].customers[id] = Nobody
    /\ calls[c].pc \notin Waiting => calls[c].engine \in Calls
    /\ calls[c].pc \notin {"idle", "starting"} => field # NoEngine
    /\ calls[c].pc \notin Answering => calls[c].refs = <<>> /\ calls[c].shown = <<>>
    /\ calls[c].pc = "reply" => Len(calls[c].shown) < Len(calls[c].refs)
    /\ calls[c].pc = "asking" => Len(calls[c].refs) > 0
    /\ calls[c].engine # NoEngine => calls[calls[c].engine].pc \notin {"idle", "starting"}

\* The field holds an engine that was started.
FieldStarted ==
  field # NoEngine => /\ calls[field].pc \notin {"idle", "starting"}
                      /\ calls[field].pc = "seeding" \/ calls[field].seeded > 0

Typed == TypeOK /\ InPhase /\ FieldStarted

Records == [pc : Phases, op : Operations \cup {Nobody},
            engine : Calls \cup {NoEngine},
            seeded : 0 .. Len(Seeds), inserted : SUBSET Prizes,
            refs : Seq(Objects), wrote : Seq(Int),
            shown : Seq(Int), limit : Int,
            prizes : SUBSET Prizes, late : BOOLEAN]

Others(c) == \A d \in Calls \ {c} : calls'[d] = calls[d]

\* What the step of a call leaves alone of its record.
KeepsSeeding(c) == UNCHANGED <<calls[c].seeded, calls[c].inserted>>
KeepsAnswer(c) == UNCHANGED <<calls[c].refs, calls[c].wrote, calls[c].shown,
                              calls[c].limit, calls[c].prizes>>
KeepsRequest(c) == UNCHANGED <<calls[c].op, calls[c].late>>

\* Nothing of an engine changes but the prizes.
KeepsCustomers ==
  \A e \in Calls, id \in Customers : db'[e].customers[id] = db[e].customers[id]

-----------------------------------------------------------------------------
(***************************************************************************)
(* What each action does, field by field.                                  *)
(***************************************************************************)
LEMMA RecordReplaced ==
  ASSUME TypeOK, NEW c \in Calls, NEW r \in Records, calls' = [calls EXCEPT ![c] = r]
  PROVE  Others(c) /\ calls'[c] = r /\ calls' \in [Calls -> Records]
BY DEF TypeOK, Records, Others

LEMMA RecordTyped ==
  ASSUME TypeOK, NEW c \in Calls
  PROVE  calls[c] \in Records /\ calls \in [Calls -> Records]
         /\ field \in Calls \cup {NoEngine}
BY DEF TypeOK, Records

LEMMA EnterEffect ==
  ASSUME TypeOK, NEW c \in Calls, Enter(c)
  PROVE  /\ calls[c].pc = "idle" /\ UNCHANGED <<field, db, balance>>
         /\ Others(c) /\ KeepsSeeding(c) /\ KeepsAnswer(c)
         /\ calls'[c].op \in Operations
         /\ calls'[c].late = EngineReady /\ calls'[c].engine = field
         /\ calls'[c].pc = IF field = NoEngine THEN "starting" ELSE "execute"
         /\ TypeOK'
<1>1. PICK op \in Operations :
         calls' = [calls EXCEPT ![c].op = op,
                                ![c].late = EngineReady,
                                ![c].engine = field,
                                ![c].pc = IF field = NoEngine
                                          THEN "starting" ELSE "execute"]
  BY DEF Enter
<1> DEFINE r == [calls[c] EXCEPT !.op = op, !.late = EngineReady, !.engine = field,
                                 !.pc = IF field = NoEngine THEN "starting" ELSE "execute"]
<1>2. calls' = [calls EXCEPT ![c] = r]
  BY <1>1, RecordTyped
<1>3. EngineReady \in BOOLEAN
  BY Zenon DEF EngineReady
<1>4. r \in Records
  BY <1>3, RecordTyped DEF Records, Phases
<1>5. Others(c) /\ calls'[c] = r /\ calls' \in [Calls -> Records]
  BY <1>2, <1>4, RecordReplaced
<1>6. calls[c].pc = "idle" /\ UNCHANGED <<field, db, balance>>
  BY DEF Enter
<1>7. TypeOK'
  BY <1>5, <1>6 DEF TypeOK, Records
<1> QED BY <1>5, <1>6, <1>7, RecordTyped DEF Records, KeepsSeeding, KeepsAnswer

LEMMA StartedEffect ==
  ASSUME TypeOK, NEW c \in Calls, Started(c)
  PROVE  /\ calls[c].pc = "starting" /\ UNCHANGED <<db, balance>>
         /\ Others(c) /\ KeepsSeeding(c) /\ KeepsAnswer(c) /\ KeepsRequest(c)
         /\ calls'[c].engine = calls[c].engine
         /\ calls'[c].pc = "seeding" /\ field' = c
         /\ TypeOK'
<1> DEFINE r == [calls[c] EXCEPT !.pc = "seeding"]
<1>1. r \in Records /\ calls' = [calls EXCEPT ![c] = r]
  BY RecordTyped DEF Started, Records, Phases
<1>2. Others(c) /\ calls'[c] = r /\ calls' \in [Calls -> Records]
  BY <1>1, RecordReplaced
<1>3. calls[c].pc = "starting" /\ UNCHANGED <<db, balance>> /\ field' = c
  BY DEF Started
<1>4. TypeOK'
  BY <1>2, <1>3 DEF TypeOK, Records
<1> QED BY <1>2, <1>3, <1>4, RecordTyped DEF Records, KeepsSeeding, KeepsAnswer, KeepsRequest

LEMMA SeedPrizeEffect ==
  ASSUME Typed, NEW c \in Calls, SeedPrize(c)
  PROVE  /\ calls[c].pc = "seeding" /\ UNCHANGED <<field, balance>>
         /\ Others(c) /\ KeepsAnswer(c) /\ KeepsRequest(c)
         /\ UNCHANGED <<calls[c].engine, calls[c].pc, calls[c].seeded>>
         /\ field \in Calls
         /\ \E p \in Prizes : /\ calls'[c].inserted = calls[c].inserted \cup {p}
                              /\ db'[field].prizes = db[field].prizes \cup {p}
         /\ KeepsCustomers
         /\ TypeOK'
<1>1. field \in Calls /\ TypeOK /\ calls[c].pc = "seeding"
  BY DEF Typed, TypeOK, InPhase, SeedPrize
<1>2. PICK p \in Prizes : /\ db' = [db EXCEPT ![field].prizes = @ \cup {p}]
                          /\ calls' = [calls EXCEPT ![c].inserted = @ \cup {p}]
  BY DEF SeedPrize
<1> DEFINE r == [calls[c] EXCEPT !.inserted = @ \cup {p}]
<1>3. r \in Records /\ calls' = [calls EXCEPT ![c] = r]
  BY <1>1, <1>2, RecordTyped DEF Records
<1>4. Others(c) /\ calls'[c] = r /\ calls' \in [Calls -> Records]
  BY <1>1, <1>3, RecordReplaced
<1>5. /\ db' \in [Calls -> [customers : [Customers -> Objects \cup {Nobody}],
                            prizes : SUBSET Prizes]]
      /\ db'[field].prizes = db[field].prizes \cup {p}
      /\ KeepsCustomers
  BY <1>1, <1>2 DEF TypeOK, KeepsCustomers
<1>6. UNCHANGED <<field, balance>>
  BY DEF SeedPrize
<1>7. TypeOK'
  BY <1>1, <1>4, <1>5, <1>6 DEF TypeOK, Records
<1> QED BY <1>1, <1>4, <1>5, <1>6, <1>7, RecordTyped DEF Records, KeepsAnswer, KeepsRequest

LEMMA EngineReturnedEffect ==
  ASSUME TypeOK, NEW c \in Calls, EngineReturned(c)
  PROVE  /\ calls[c].pc = "seeding" /\ UNCHANGED <<field, db, balance>>
         /\ calls[c].seeded = Len(Seeds) /\ calls[c].inserted = Prizes
         /\ Others(c) /\ KeepsSeeding(c) /\ KeepsAnswer(c) /\ KeepsRequest(c)
         /\ calls'[c].pc = "execute" /\ calls'[c].engine = field
         /\ TypeOK'
<1> DEFINE r == [calls[c] EXCEPT !.pc = "execute", !.engine = field]
<1>0. r \in Records
  BY RecordTyped DEF Records, Phases
<1>1. r \in Records /\ calls' = [calls EXCEPT ![c] = r]
  BY <1>0, RecordTyped DEF EngineReturned
<1>2. Others(c) /\ calls'[c] = r /\ calls' \in [Calls -> Records]
  BY <1>1, RecordReplaced
<1>3. /\ calls[c].pc = "seeding" /\ UNCHANGED <<field, db, balance>>
      /\ calls[c].seeded = Len(Seeds) /\ calls[c].inserted = Prizes
  BY DEF EngineReturned
<1>4. TypeOK'
  BY <1>2, <1>3 DEF TypeOK, Records
<1> QED BY <1>2, <1>3, <1>4, RecordTyped DEF Records, KeepsSeeding, KeepsAnswer, KeepsRequest

LEMMA ThrowEffect ==
  ASSUME TypeOK, NEW c \in Calls, Throw(c)
  PROVE  /\ calls[c].pc = "execute" /\ UNCHANGED <<field, db, balance>>
         /\ Others(c) /\ KeepsSeeding(c) /\ KeepsAnswer(c) /\ KeepsRequest(c)
         /\ calls'[c].pc = "failed" /\ calls'[c].engine = calls[c].engine
         /\ TypeOK'
<1> DEFINE r == [calls[c] EXCEPT !.pc = "failed"]
<1>1. r \in Records /\ calls' = [calls EXCEPT ![c] = r]
  BY RecordTyped DEF Throw, Records, Phases
<1>2. Others(c) /\ calls'[c] = r /\ calls' \in [Calls -> Records]
  BY <1>1, RecordReplaced
<1>3. calls[c].pc = "execute" /\ UNCHANGED <<field, db, balance>>
  BY DEF Throw
<1>4. TypeOK'
  BY <1>2, <1>3 DEF TypeOK, Records
<1> QED BY <1>2, <1>3, <1>4, RecordTyped DEF Records, KeepsSeeding, KeepsAnswer, KeepsRequest

-----------------------------------------------------------------------------
(***************************************************************************)
(* Arithmetic on int, and the commands.                                    *)
(***************************************************************************)
LEMMA IntsAreInts == Bank!Ints \subseteq Int /\ Half \in Int /\ Half > 0 /\ 0 \in Bank!Ints
BY StoreAssumption DEF Bank!Ints

LEMMA Wraps ==
  ASSUME NEW n \in Int PROVE Bank!Int32(n) \in Bank!Ints
<1>1. Half \in Nat /\ Half > 0
  BY StoreAssumption
<1>2. (n + Half) % (2 * Half) \in 0 .. (2 * Half - 1)
  BY <1>1
<1> DEFINE m == (n + Half) % (2 * Half)
<1>3. m \in 0 .. (2 * Half - 1)
  BY <1>2
<1> HIDE DEF m
<1>4. m - Half \in -Half .. Half - 1
  BY <1>1, <1>3
<1> QED BY <1>4 DEF m, Bank!Int32, Bank!Ints

LEMMA InRange ==
  ASSUME NEW n \in Bank!Ints PROVE Bank!Int32(n) = n
<1>1. Half \in Nat /\ Half > 0 /\ n \in Int /\ -Half <= n /\ n < Half
  BY StoreAssumption DEF Bank!Ints
<1>2. n + Half \in 0 .. 2 * Half - 1
  BY <1>1
<1>3. ASSUME NEW a \in Nat, NEW b \in Nat, a < b PROVE a % b = a
  BY <1>3
<1>4. (n + Half) % (2 * Half) = n + Half
  BY <1>1, <1>2, <1>3
<1> QED BY <1>1, <1>4 DEF Bank!Int32

LEMMA ReturnedEffect ==
  ASSUME TypeOK, NEW c \in Calls, NEW refs \in Seq(Objects), Returned(c, refs),
         balance' \in [Objects -> Bank!Ints]
  PROVE  /\ Others(c) /\ KeepsSeeding(c) /\ KeepsRequest(c)
         /\ UNCHANGED <<calls[c].engine, calls[c].shown>>
         /\ calls'[c].pc = "reply" /\ calls'[c].refs = refs
         /\ calls' \in [Calls -> Records]
<1> DEFINE w == [i \in DOMAIN refs |-> balance'[refs[i]]]
           r == [calls[c] EXCEPT !.pc = "reply", !.refs = refs, !.wrote = w]
<1>1. w \in Seq(Int)
  <2>1. Len(refs) \in Nat /\ DOMAIN refs = 1 .. Len(refs)
    OBVIOUS
  <2>2. \A i \in DOMAIN refs : refs[i] \in Objects
    BY <2>1
  <2>3. \A i \in 1 .. Len(refs) : w[i] \in Int
    BY <2>1, <2>2, IntsAreInts
  <2> QED BY <2>1, <2>3
<1>2. calls' = [calls EXCEPT ![c].pc = "reply", ![c].refs = refs, ![c].wrote = w]
  BY DEF Returned
<1> HIDE DEF w
<1>3. r \in Records
  BY <1>1, RecordTyped DEF Records, Phases
<1>4. calls' = [calls EXCEPT ![c] = r]
  BY <1>2, RecordTyped
<1>5. Others(c) /\ calls'[c] = r /\ calls' \in [Calls -> Records]
  BY <1>3, <1>4, RecordReplaced
<1> QED BY <1>5, RecordTyped DEF Records, KeepsSeeding, KeepsRequest

\* An upsert puts one object under the customer, the one that was there or o,
\* and touches no other balance.
LEMMA UpsertEffect ==
  ASSUME TypeOK, NEW e \in Calls, NEW id \in Customers, NEW points \in Bank!Ints,
         NEW o \in Objects, Upsert(e, id, points, o)
  PROVE  LET x == UpsertedObject(e, id, o) IN
         /\ x \in Objects
         /\ db' \in [Calls -> [customers : [Customers -> Objects \cup {Nobody}],
                               prizes : SUBSET Prizes]]
         /\ balance' \in [Objects -> Bank!Ints]
         /\ db'[e].customers[id] = x
         /\ \A f \in Calls, jd \in Customers :
              (f # e \/ jd # id) => db'[f].customers[jd] = db[f].customers[jd]
         /\ \A f \in Calls : db'[f].prizes = db[f].prizes
         /\ \A y \in Objects : y # x => balance'[y] = balance[y]
         /\ \/ /\ db[e].customers[id] = x
               /\ balance'[x] = Bank!Int32(balance[x] + points)
            \/ /\ db[e].customers[id] = Nobody /\ x = o
               /\ balance'[x] = points
<1>1. /\ db \in [Calls -> [customers : [Customers -> Objects \cup {Nobody}],
                           prizes : SUBSET Prizes]]
      /\ balance \in [Objects -> Bank!Ints]
  BY DEF TypeOK
<1> DEFINE x == UpsertedObject(e, id, o)
<1>2. CASE db[e].customers[id] # Nobody
  <2>1. x = db[e].customers[id] /\ x \in Objects
    BY <1>1, <1>2 DEF UpsertedObject
  <2>2. balance' = [balance EXCEPT ![x] = Bank!Int32(@ + points)] /\ db' = db
    BY <1>2, <2>1 DEF Upsert
  <2> HIDE DEF x
  <2>3. balance[x] + points \in Int
    <3>1. balance[x] \in Bank!Ints
      BY <1>1, <2>1
    <3>2. balance[x] \in Int /\ points \in Int
      BY <3>1, IntsAreInts
    <3> QED BY <3>2
  <2>4. Bank!Int32(balance[x] + points) \in Bank!Ints
    BY <2>3, Wraps
  <2> QED BY <1>1, <2>1, <2>2, <2>4 DEF x
<1>3. CASE db[e].customers[id] = Nobody
  <2>1. x = o
    BY <1>3 DEF UpsertedObject
  <2>2. /\ balance' = [balance EXCEPT ![o] = points]
        /\ db' = [db EXCEPT ![e].customers[id] = o]
    BY <1>3 DEF Upsert
  <2>3. balance' \in [Objects -> Bank!Ints] /\ balance'[o] = points
        /\ \A y \in Objects : y # o => balance'[y] = balance[y]
    BY <1>1, <2>2
  <2>4. db' \in [Calls -> [customers : [Customers -> Objects \cup {Nobody}],
                          prizes : SUBSET Prizes]]
    BY <1>1, <2>2
  <2>5. /\ db'[e].customers[id] = o
        /\ \A f \in Calls, jd \in Customers :
              (f # e \/ jd # id) => db'[f].customers[jd] = db[f].customers[jd]
        /\ \A f \in Calls : db'[f].prizes = db[f].prizes
    BY <1>1, <2>2
  <2> QED BY <1>3, <2>1, <2>3, <2>4, <2>5
<1> QED BY <1>2, <1>3

LEMMA SeedTyped ==
  ASSUME NEW i \in 1 .. Len(Seeds)
  PROVE  Seeds[i].id \in Customers /\ Seeds[i].points \in Bank!Ints
<1> DEFINE S == [id : Customers, points : Bank!Ints]
<1>1. Seeds \in Seq(S)
  BY SeedsAssumption DEF Bank!Ints
<1> HIDE DEF S
<1>2. Seeds[i] \in S
  BY <1>1
<1> QED BY <1>2 DEF S

LEMMA SeedCustomerEffect ==
  ASSUME Typed, NEW c \in Calls, SeedCustomer(c)
  PROVE  LET i == calls[c].seeded + 1 IN
         /\ calls[c].pc = "seeding" /\ UNCHANGED field /\ field \in Calls
         /\ i \in DOMAIN Seeds /\ calls'[c].seeded = i
         /\ Seeds[i].id \in Customers /\ Seeds[i].points \in Bank!Ints
         /\ <<c, Seeds[i].id>> \in Objects
         /\ Upsert(field, Seeds[i].id, Seeds[i].points, <<c, Seeds[i].id>>)
         /\ Others(c) /\ KeepsAnswer(c) /\ KeepsRequest(c)
         /\ UNCHANGED <<calls[c].engine, calls[c].pc, calls[c].inserted>>
         /\ TypeOK'
<1> DEFINE i == calls[c].seeded + 1
           r == [calls[c] EXCEPT !.seeded = i]
<1>1. field \in Calls /\ TypeOK /\ calls[c].pc = "seeding" /\ UNCHANGED field
  BY DEF Typed, TypeOK, InPhase, SeedCustomer
<1>2. Len(Seeds) \in Nat /\ DOMAIN Seeds = 1 .. Len(Seeds)
  BY SeedsAssumption
<1>3. calls[c].seeded \in 0 .. Len(Seeds) /\ calls[c].seeded < Len(Seeds)
  BY <1>1, RecordTyped DEF Records, SeedCustomer
<1>4. i \in 1 .. Len(Seeds) /\ i \in 0 .. Len(Seeds)
  BY <1>2, <1>3
<1>5. calls' = [calls EXCEPT ![c] = r]
  BY <1>1, RecordTyped DEF SeedCustomer
<1>6. Upsert(field, Seeds[i].id, Seeds[i].points, <<c, Seeds[i].id>>)
  BY DEF SeedCustomer
<1> HIDE DEF i
<1>8. Seeds[i].id \in Customers /\ Seeds[i].points \in Bank!Ints
      /\ <<c, Seeds[i].id>> \in Objects
  BY <1>4, SeedTyped DEF Objects
<1>9. r \in Records
  BY <1>1, <1>4, RecordTyped DEF Records
<1>10. Others(c) /\ calls'[c] = r /\ calls' \in [Calls -> Records]
  BY <1>1, <1>5, <1>9, RecordReplaced
<1>11. /\ db' \in [Calls -> [customers : [Customers -> Objects \cup {Nobody}],
                            prizes : SUBSET Prizes]]
       /\ balance' \in [Objects -> Bank!Ints]
  BY <1>1, <1>6, <1>8, UpsertEffect
<1>12. TypeOK'
  BY <1>1, <1>10, <1>11 DEF TypeOK, Records
<1>13. Others(c) /\ KeepsAnswer(c) /\ KeepsRequest(c) /\ calls'[c].seeded = i
       /\ UNCHANGED <<calls[c].engine, calls[c].pc, calls[c].inserted>>
  BY <1>1, <1>10, RecordTyped DEF Records, KeepsAnswer, KeepsRequest
<1> QED BY <1>1, <1>2, <1>4, <1>6, <1>8, <1>12, <1>13 DEF i

\* What a call about to run its command has in hand.
LEMMA ExecutingHas ==
  ASSUME Typed, NEW c \in Calls, calls[c].pc = "execute"
  PROVE  /\ TypeOK /\ calls[c].engine \in Calls /\ calls[c].op \in Operations
         /\ calls[c].op.id \in Customers
         /\ calls[c].op.kind \in {"customer", "debit", "loyaltyPointsTransfer"} =>
              calls[c].op.points \in Bank!Ints
         /\ calls[c].op.kind \in {"customer", "debit", "customerLoyalty",
                                  "loyaltyPointsTransfer"}
         /\ calls[c].op.kind = "loyaltyPointsTransfer" => calls[c].op.to \in Customers
         /\ \A role \in Roles : <<c, role>> \in Objects /\ role \notin Customers
         /\ calls[c].refs = <<>> /\ calls[c].shown = <<>>
<1>1. TypeOK /\ calls[c].engine \in Calls /\ calls[c].op \in Operations
      /\ calls[c].refs = <<>> /\ calls[c].shown = <<>>
  BY DEF Typed, InPhase, Waiting, Answering
<1>2. Amounts \subseteq Bank!Ints
  BY StoreAssumption DEF Bank!Ints
<1>3. \A role \in Roles : <<c, role>> \in Objects /\ role \notin Customers
  BY NamesAssumption DEF Objects
<1> DEFINE op == calls[c].op
<1>4. op \in Operations
  BY <1>1
<1> HIDE DEF op
<1>5. /\ op.id \in Customers
      /\ op.kind \in {"customer", "debit", "loyaltyPointsTransfer"} => op.points \in Bank!Ints
      /\ op.kind \in {"customer", "debit", "customerLoyalty", "loyaltyPointsTransfer"}
      /\ op.kind = "loyaltyPointsTransfer" => op.to \in Customers
  BY <1>2, <1>4 DEF Operations
<1> QED BY <1>1, <1>3, <1>5 DEF op

LEMMA DepositEffect ==
  ASSUME Typed, NEW c \in Calls, Deposit(c)
  PROVE  LET e == calls[c].engine
             id == calls[c].op.id IN
         /\ calls[c].pc = "execute" /\ calls[c].op.kind = "customer" /\ UNCHANGED field
         /\ calls[c].op.points \in Bank!Ints
         /\ Upsert(e, id, calls[c].op.points, <<c, "own">>)
         /\ Others(c) /\ KeepsSeeding(c) /\ KeepsRequest(c)
         /\ UNCHANGED <<calls[c].engine, calls[c].shown>>
         /\ calls'[c].pc = "reply"
         /\ calls'[c].refs = <<UpsertedObject(e, id, <<c, "own">>)>>
         /\ TypeOK'
<1> DEFINE e == calls[c].engine
           id == calls[c].op.id
           points == calls[c].op.points
           x == UpsertedObject(e, id, <<c, "own">>)
<1>1. /\ calls[c].pc = "execute" /\ calls[c].op.kind = "customer" /\ UNCHANGED field
      /\ Upsert(e, id, points, <<c, "own">>) /\ Returned(c, <<x>>)
  BY DEF Deposit, Executing
<1>2. TypeOK /\ e \in Calls /\ id \in Customers /\ points \in Bank!Ints
      /\ <<c, "own">> \in Objects
  BY <1>1, ExecutingHas DEF Roles
<1>3. /\ x \in Objects
      /\ db' \in [Calls -> [customers : [Customers -> Objects \cup {Nobody}],
                            prizes : SUBSET Prizes]]
      /\ balance' \in [Objects -> Bank!Ints]
  BY <1>1, <1>2, UpsertEffect
<1> HIDE DEF e, id, points, x
<1>4. <<x>> \in Seq(Objects)
  BY <1>3
<1>5. /\ Others(c) /\ KeepsSeeding(c) /\ KeepsRequest(c)
      /\ UNCHANGED <<calls[c].engine, calls[c].shown>>
      /\ calls'[c].pc = "reply" /\ calls'[c].refs = <<x>>
      /\ calls' \in [Calls -> Records]
  BY <1>1, <1>2, <1>3, <1>4, ReturnedEffect
<1>6. TypeOK'
  BY <1>1, <1>2, <1>3, <1>5 DEF TypeOK, Records
<1> QED BY <1>1, <1>2, <1>5, <1>6 DEF e, id, points, x

LEMMA DebitEffect ==
  ASSUME Typed, NEW c \in Calls, Debit(c)
  PROVE  LET e == calls[c].engine
             id == calls[c].op.id
             o == <<c, "own">> IN
         /\ calls[c].pc = "execute" /\ calls[c].op.kind = "debit" /\ UNCHANGED field
         /\ db[e].customers[id] \in Objects /\ o \in Objects
         /\ balance'[o] = Bank!Int32(balance[db[e].customers[id]] - calls[c].op.points)
         /\ \A y \in Objects : y # o => balance'[y] = balance[y]
         /\ db'[e].customers[id] = o
         /\ \A f \in Calls, jd \in Customers :
              (f # e \/ jd # id) => db'[f].customers[jd] = db[f].customers[jd]
         /\ \A f \in Calls : db'[f].prizes = db[f].prizes
         /\ Others(c) /\ KeepsSeeding(c) /\ KeepsRequest(c)
         /\ UNCHANGED <<calls[c].engine, calls[c].shown>>
         /\ calls'[c].pc = "reply" /\ calls'[c].refs = <<o>>
         /\ TypeOK'
<1> DEFINE e == calls[c].engine
           id == calls[c].op.id
           points == calls[c].op.points
           o == <<c, "own">>
           n == Bank!Int32(balance[db[e].customers[id]] - points)
<1>1. /\ calls[c].pc = "execute" /\ calls[c].op.kind = "debit" /\ UNCHANGED field
      /\ db[e].customers[id] # Nobody
      /\ balance' = [balance EXCEPT ![o] = n]
      /\ db' = [db EXCEPT ![e].customers[id] = o]
      /\ Returned(c, <<o>>)
  BY DEF Debit, Executing, Holds, BalanceOf
<1>2. TypeOK /\ e \in Calls /\ id \in Customers /\ points \in Bank!Ints /\ o \in Objects
  BY <1>1, ExecutingHas DEF Roles
<1> HIDE DEF e, id, points, o
<1>3. /\ db \in [Calls -> [customers : [Customers -> Objects \cup {Nobody}],
                           prizes : SUBSET Prizes]]
      /\ balance \in [Objects -> Bank!Ints]
  BY <1>2 DEF TypeOK
<1>4. db[e].customers[id] \in Objects
  BY <1>1, <1>2, <1>3
<1>5. n \in Bank!Ints
  <2>1. balance[db[e].customers[id]] \in Bank!Ints
    BY <1>3, <1>4
  <2>2. balance[db[e].customers[id]] \in Int /\ points \in Int
    BY <1>2, <2>1, IntsAreInts
  <2>3. balance[db[e].customers[id]] - points \in Int
    BY <2>2
  <2> QED BY <2>3, Wraps
<1> HIDE DEF n
<1>6. /\ balance' \in [Objects -> Bank!Ints] /\ balance'[o] = n
      /\ \A y \in Objects : y # o => balance'[y] = balance[y]
  BY <1>1, <1>2, <1>3, <1>5
<1>7. db' \in [Calls -> [customers : [Customers -> Objects \cup {Nobody}],
                        prizes : SUBSET Prizes]]
  BY <1>1, <1>2, <1>3
<1>8. /\ db'[e].customers[id] = o
      /\ \A f \in Calls, jd \in Customers :
           (f # e \/ jd # id) => db'[f].customers[jd] = db[f].customers[jd]
      /\ \A f \in Calls : db'[f].prizes = db[f].prizes
  BY <1>1, <1>2, <1>3
<1>9. <<o>> \in Seq(Objects)
  BY <1>2
<1>10. /\ Others(c) /\ KeepsSeeding(c) /\ KeepsRequest(c)
       /\ UNCHANGED <<calls[c].engine, calls[c].shown>>
       /\ calls'[c].pc = "reply" /\ calls'[c].refs = <<o>>
       /\ calls' \in [Calls -> Records]
  BY <1>1, <1>2, <1>6, <1>9, ReturnedEffect
<1>11. TypeOK'
  BY <1>1, <1>2, <1>6, <1>7, <1>10 DEF TypeOK, Records
<1> QED BY <1>1, <1>2, <1>4, <1>6, <1>8, <1>10, <1>11 DEF e, id, points, o, n

\* The receiver's object is stored last: a transfer to oneself leaves it alone.
LEMMA TransferEffect ==
  ASSUME Typed, NEW c \in Calls, Transfer(c)
  PROVE  LET e == calls[c].engine
             from == calls[c].op.id
             to == calls[c].op.to
             s == <<c, "sender">>
             r == <<c, "receiver">> IN
         /\ calls[c].pc = "execute" /\ calls[c].op.kind = "loyaltyPointsTransfer"
         /\ UNCHANGED field /\ s \in Objects /\ r \in Objects
         /\ db[e].customers[from] \in Objects /\ db[e].customers[to] \in Objects
         /\ balance'[s] = Bank!Int32(balance[db[e].customers[from]] - calls[c].op.points)
         /\ balance'[r] = Bank!Int32(balance[db[e].customers[to]] + calls[c].op.points)
         /\ \A y \in Objects : (y # s /\ y # r) => balance'[y] = balance[y]
         /\ db'[e].customers[to] = r
         /\ from # to => db'[e].customers[from] = s
         /\ \A f \in Calls, jd \in Customers :
              (f # e \/ (jd # from /\ jd # to)) =>
                 db'[f].customers[jd] = db[f].customers[jd]
         /\ \A f \in Calls : db'[f].prizes = db[f].prizes
         /\ Others(c) /\ KeepsSeeding(c) /\ KeepsRequest(c)
         /\ UNCHANGED <<calls[c].engine, calls[c].shown>>
         /\ calls'[c].pc = "reply" /\ calls'[c].refs = <<s, r>>
         /\ TypeOK'
<1> DEFINE e == calls[c].engine
           from == calls[c].op.id
           to == calls[c].op.to
           points == calls[c].op.points
           s == <<c, "sender">>
           r == <<c, "receiver">>
           m == Bank!Int32(balance[db[e].customers[from]] - points)
           n == Bank!Int32(balance[db[e].customers[to]] + points)
<1>1. /\ calls[c].pc = "execute" /\ calls[c].op.kind = "loyaltyPointsTransfer"
      /\ UNCHANGED field
      /\ db[e].customers[from] # Nobody /\ db[e].customers[to] # Nobody
      /\ balance' = [balance EXCEPT ![s] = m, ![r] = n]
      /\ db' = [db EXCEPT ![e].customers = [@ EXCEPT ![from] = s, ![to] = r]]
      /\ Returned(c, <<s, r>>)
  BY DEF Transfer, Executing, Holds, BalanceOf
<1>2. /\ TypeOK /\ e \in Calls /\ from \in Customers /\ to \in Customers
      /\ points \in Bank!Ints /\ s \in Objects /\ r \in Objects
  BY <1>1, ExecutingHas DEF Roles
<1>3. s # r
  OBVIOUS
<1> HIDE DEF e, from, to, points, s, r
<1>4. /\ db \in [Calls -> [customers : [Customers -> Objects \cup {Nobody}],
                           prizes : SUBSET Prizes]]
      /\ balance \in [Objects -> Bank!Ints]
  BY <1>2 DEF TypeOK
<1>5. db[e].customers[from] \in Objects /\ db[e].customers[to] \in Objects
  BY <1>1, <1>2, <1>4
<1>6. m \in Bank!Ints /\ n \in Bank!Ints
  <2>1. /\ balance[db[e].customers[from]] \in Bank!Ints
        /\ balance[db[e].customers[to]] \in Bank!Ints
    BY <1>4, <1>5
  <2>2. /\ balance[db[e].customers[from]] \in Int /\ points \in Int
        /\ balance[db[e].customers[to]] \in Int
    BY <1>2, <2>1, IntsAreInts
  <2>3. /\ balance[db[e].customers[from]] - points \in Int
        /\ balance[db[e].customers[to]] + points \in Int
    BY <2>2
  <2> QED BY <2>3, Wraps
<1> HIDE DEF m, n
<1>7. /\ balance' \in [Objects -> Bank!Ints] /\ balance'[s] = m /\ balance'[r] = n
      /\ \A y \in Objects : (y # s /\ y # r) => balance'[y] = balance[y]
  BY <1>1, <1>2, <1>3, <1>4, <1>6
<1>8. db' \in [Calls -> [customers : [Customers -> Objects \cup {Nobody}],
                        prizes : SUBSET Prizes]]
  BY <1>1, <1>2, <1>4
<1>9. /\ db'[e].customers[to] = r
      /\ from # to => db'[e].customers[from] = s
      /\ \A f \in Calls, jd \in Customers :
           (f # e \/ (jd # from /\ jd # to)) =>
              db'[f].customers[jd] = db[f].customers[jd]
      /\ \A f \in Calls : db'[f].prizes = db[f].prizes
  BY <1>1, <1>2, <1>4
<1>10. <<s, r>> \in Seq(Objects)
  BY <1>2
<1>11. /\ Others(c) /\ KeepsSeeding(c) /\ KeepsRequest(c)
       /\ UNCHANGED <<calls[c].engine, calls[c].shown>>
       /\ calls'[c].pc = "reply" /\ calls'[c].refs = <<s, r>>
       /\ calls' \in [Calls -> Records]
  BY <1>1, <1>2, <1>7, <1>10, ReturnedEffect
<1>12. TypeOK'
  BY <1>1, <1>2, <1>7, <1>8, <1>11 DEF TypeOK, Records
<1> QED BY <1>1, <1>2, <1>5, <1>7, <1>9, <1>11, <1>12 DEF e, from, to, points, s, r, m, n

LEMMA GetCustomerEffect ==
  ASSUME Typed, NEW c \in Calls, GetCustomer(c)
  PROVE  LET o == db[calls[c].engine].customers[calls[c].op.id] IN
         /\ calls[c].pc = "execute" /\ UNCHANGED <<field, db, balance>>
         /\ o \in Objects /\ o # Nobody
         /\ Others(c) /\ KeepsSeeding(c) /\ KeepsRequest(c)
         /\ UNCHANGED <<calls[c].engine, calls[c].shown>>
         /\ calls'[c].pc = "reply" /\ calls'[c].refs = <<o>>
         /\ TypeOK'
<1> DEFINE o == db[calls[c].engine].customers[calls[c].op.id]
<1>1. calls[c].pc = "execute" /\ UNCHANGED <<field, db, balance>> /\ o # Nobody
      /\ Returned(c, <<o>>)
  BY DEF GetCustomer, Executing, Holds
<1>2. TypeOK /\ calls[c].engine \in Calls /\ calls[c].op.id \in Customers
  BY <1>1, ExecutingHas
<1>3. o \in Objects /\ balance' \in [Objects -> Bank!Ints]
  BY <1>1, <1>2 DEF TypeOK
<1> HIDE DEF o
<1>4. <<o>> \in Seq(Objects)
  BY <1>3
<1>5. /\ Others(c) /\ KeepsSeeding(c) /\ KeepsRequest(c)
      /\ UNCHANGED <<calls[c].engine, calls[c].shown>>
      /\ calls'[c].pc = "reply" /\ calls'[c].refs = <<o>>
      /\ calls' \in [Calls -> Records]
  BY <1>1, <1>2, <1>3, <1>4, ReturnedEffect
<1>6. TypeOK'
  BY <1>1, <1>2, <1>5 DEF TypeOK, Records
<1> QED BY <1>1, <1>3, <1>5, <1>6 DEF o

LEMMA ReadEffect ==
  ASSUME Typed, NEW c \in Calls, Read(c)
  PROVE  /\ calls[c].pc = "reply" /\ UNCHANGED <<field, db, balance>>
         /\ Others(c) /\ KeepsSeeding(c) /\ KeepsRequest(c)
         /\ UNCHANGED <<calls[c].engine, calls[c].refs>>
         /\ calls'[c].pc \in Answering \ {"prizes"}
         /\ calls'[c].pc = "answered" => ~WantsPrizes(c)
         /\ calls'[c].pc = "reply" => Len(calls'[c].shown) < Len(calls'[c].refs)
         /\ Len(calls[c].refs) > 0
         /\ TypeOK'
<1>1. TypeOK /\ calls[c].pc = "reply" /\ Len(calls[c].shown) < Len(calls[c].refs)
  BY DEF Typed, InPhase, Read
<1> DEFINE k == Len(calls[c].shown) + 1
           shown == Append(calls[c].shown, balance[calls[c].refs[k]])
           pc == IF Len(shown) < Len(calls[c].refs) THEN "reply"
                 ELSE IF WantsPrizes(c) THEN "asking" ELSE "answered"
           r == [calls[c] EXCEPT !.shown = shown, !.pc = pc]
<1>2. calls[c].shown \in Seq(Int) /\ calls[c].refs \in Seq(Objects)
  BY <1>1, RecordTyped DEF Records
<1>3. k \in 1 .. Len(calls[c].refs) /\ Len(calls[c].refs) > 0
  BY <1>1, <1>2
<1>4. calls[c].refs[k] \in Objects
  BY <1>2, <1>3
<1>5. balance[calls[c].refs[k]] \in Int
  BY <1>1, <1>4, IntsAreInts DEF TypeOK
<1>6. shown \in Seq(Int)
  BY <1>2, <1>5
<1>7. calls' = [calls EXCEPT ![c].shown = shown, ![c].pc = pc]
  BY DEF Read
<1>8. pc \in Answering \ {"prizes"} /\ (pc = "answered" => ~WantsPrizes(c))
      /\ (pc = "reply" => Len(shown) < Len(calls[c].refs))
  BY DEF Answering
<1> HIDE DEF shown, pc
<1>9. r \in Records
  BY <1>1, <1>6, <1>8, RecordTyped DEF Records, Phases, Answering
<1>10. calls' = [calls EXCEPT ![c] = r]
  BY <1>1, <1>7, RecordTyped
<1>11. Others(c) /\ calls'[c] = r /\ calls' \in [Calls -> Records]
  BY <1>1, <1>9, <1>10, RecordReplaced
<1>12. UNCHANGED <<field, db, balance>>
  BY DEF Read
<1>13. TypeOK'
  BY <1>1, <1>11, <1>12 DEF TypeOK, Records
<1>14. /\ KeepsSeeding(c) /\ KeepsRequest(c)
       /\ UNCHANGED <<calls[c].engine, calls[c].refs>>
       /\ calls'[c].pc = pc /\ calls'[c].shown = shown
  BY <1>1, <1>11, RecordTyped DEF Records, KeepsSeeding, KeepsRequest
<1> QED BY <1>1, <1>3, <1>8, <1>11, <1>12, <1>13, <1>14

LEMMA AskPrizesEffect ==
  ASSUME Typed, NEW c \in Calls, AskPrizes(c)
  PROVE  /\ calls[c].pc = "asking" /\ UNCHANGED <<field, db, balance>>
         /\ Others(c) /\ KeepsSeeding(c) /\ KeepsRequest(c)
         /\ UNCHANGED <<calls[c].refs, calls[c].shown>>
         /\ calls'[c].pc = "prizes" /\ calls'[c].engine = field
         /\ TypeOK'
<1>1. TypeOK /\ calls[c].pc = "asking" /\ Len(calls[c].refs) > 0
  BY DEF Typed, InPhase, AskPrizes
<1>2. calls[c].refs \in Seq(Objects)
  BY <1>1, RecordTyped DEF Records
<1>3. calls[c].refs[1] \in Objects
  BY <1>1, <1>2
<1>4. balance[calls[c].refs[1]] \in Int
  BY <1>1, <1>3, IntsAreInts DEF TypeOK
<1> DEFINE n == balance[calls[c].refs[1]]
           r == [calls[c] EXCEPT !.limit = n, !.engine = field, !.pc = "prizes"]
<1>5. calls' = [calls EXCEPT ![c].limit = n, ![c].engine = field, ![c].pc = "prizes"]
  BY DEF AskPrizes
<1> HIDE DEF n
<1>6. r \in Records
  BY <1>1, <1>4, RecordTyped DEF n, Records, Phases
<1>7. calls' = [calls EXCEPT ![c] = r]
  BY <1>1, <1>5, RecordTyped
<1>8. Others(c) /\ calls'[c] = r /\ calls' \in [Calls -> Records]
  BY <1>1, <1>6, <1>7, RecordReplaced
<1>9. UNCHANGED <<field, db, balance>>
  BY DEF AskPrizes
<1>10. TypeOK'
  BY <1>1, <1>8, <1>9 DEF TypeOK, Records
<1> QED BY <1>1, <1>8, <1>9, <1>10, RecordTyped DEF Records, KeepsSeeding, KeepsRequest

LEMMA GetAvailablePrizesEffect ==
  ASSUME Typed, NEW c \in Calls, GetAvailablePrizes(c)
  PROVE  /\ calls[c].pc = "prizes" /\ UNCHANGED <<field, db, balance>>
         /\ Others(c) /\ KeepsSeeding(c) /\ KeepsRequest(c)
         /\ UNCHANGED <<calls[c].refs, calls[c].shown, calls[c].engine, calls[c].limit>>
         /\ calls'[c].pc = "answered"
         /\ calls'[c].prizes = Affordable(db[calls[c].engine].prizes, calls[c].limit)
         /\ TypeOK'
<1>1. TypeOK /\ calls[c].pc = "prizes" /\ calls[c].engine \in Calls
  BY DEF Typed, InPhase, GetAvailablePrizes, Waiting
<1> DEFINE p == Affordable(db[calls[c].engine].prizes, calls[c].limit)
           r == [calls[c] EXCEPT !.pc = "answered", !.prizes = p]
<1>2. p \subseteq Prizes
  BY <1>1 DEF Affordable, TypeOK
<1>3. calls' = [calls EXCEPT ![c].pc = "answered", ![c].prizes = p]
  BY DEF GetAvailablePrizes
<1> HIDE DEF p
<1>4. r \in Records
  BY <1>1, <1>2, RecordTyped DEF Records, Phases
<1>5. calls' = [calls EXCEPT ![c] = r]
  BY <1>1, <1>3, RecordTyped
<1>6. Others(c) /\ calls'[c] = r /\ calls' \in [Calls -> Records]
  BY <1>1, <1>4, <1>5, RecordReplaced
<1>7. UNCHANGED <<field, db, balance>>
  BY DEF GetAvailablePrizes
<1>8. TypeOK'
  BY <1>1, <1>6, <1>7 DEF TypeOK, Records
<1> QED BY <1>1, <1>6, <1>7, <1>8, RecordTyped DEF p, Records, KeepsSeeding, KeepsRequest

-----------------------------------------------------------------------------
(***************************************************************************)
(* Every call has what its phase needs.                                    *)
(***************************************************************************)
\* One disjunct of the step of a call.
Acts(c) ==
  \/ Enter(c) \/ Started(c) \/ SeedCustomer(c) \/ SeedPrize(c) \/ EngineReturned(c)
  \/ Deposit(c) \/ Debit(c) \/ Transfer(c) \/ GetCustomer(c) \/ Throw(c)
  \/ Read(c) \/ AskPrizes(c) \/ GetAvailablePrizes(c)

LEMMA NextActs == [Next]_vars => UNCHANGED vars \/ \E c \in Calls : Acts(c)
BY DEF Next, Step, Acts, Quiet

\* Of one step of c: it has what its new phase needs, the field moves only to
\* the engine c has just started, and of the engines only one that was started
\* can change.
Moves(c) ==
  /\ Others(c)
  /\ calls'[c].pc # "idle" /\ calls'[c].op \in Operations
  /\ calls'[c].pc = "starting" => calls[c].pc = "idle" /\ KeepsSeeding(c)
  /\ calls'[c].engine = calls[c].engine \/ calls'[c].engine = field
  /\ calls'[c].pc \notin Waiting => calls'[c].engine \in Calls
  /\ calls'[c].pc \notin {"idle", "starting"} => field' # NoEngine
  /\ calls'[c].pc \notin Answering => calls'[c].refs = <<>> /\ calls'[c].shown = <<>>
  /\ calls'[c].pc = "reply" => Len(calls'[c].shown) < Len(calls'[c].refs)
  /\ calls'[c].pc = "asking" => Len(calls'[c].refs) > 0
  /\ \/ UNCHANGED field
     \/ calls[c].pc = "starting" /\ field' = c /\ calls'[c].pc = "seeding"
  /\ calls[c].pc = "starting" => calls'[c].pc = "seeding"
  /\ calls[c].pc = "seeding" =>
       \/ calls'[c].pc = "seeding"
       \/ /\ calls'[c].pc = "execute" /\ KeepsSeeding(c)
          /\ calls[c].seeded = Len(Seeds) /\ calls[c].inserted = Prizes
  /\ calls[c].pc \notin Waiting => calls'[c].pc \notin Waiting /\ KeepsSeeding(c)
  /\ calls'[c].seeded \in {calls[c].seeded, calls[c].seeded + 1}
  /\ \A e \in Calls, id \in Customers :
       db'[e].customers[id] = db[e].customers[id] \/ e = calls[c].engine \/ e = field

LEMMA EnterMoves == ASSUME Typed, NEW c \in Calls, Enter(c) PROVE Moves(c)
<1>1. TypeOK /\ calls[c].pc = "idle"
  BY DEF Typed, Enter
<1>2. calls[c].refs = <<>> /\ calls[c].shown = <<>>
  BY <1>1 DEF Typed, InPhase, Answering
<1> QED BY <1>1, <1>2, EnterEffect, RecordTyped
    DEF Moves, Waiting, Answering, KeepsSeeding, KeepsAnswer

LEMMA StartedMoves == ASSUME Typed, NEW c \in Calls, Started(c) PROVE Moves(c)
<1>1. TypeOK /\ calls[c].pc = "starting"
  BY DEF Typed, Started
<1>2. calls[c].refs = <<>> /\ calls[c].shown = <<>> /\ calls[c].op \in Operations
  BY <1>1 DEF Typed, InPhase, Answering
<1> QED BY <1>1, <1>2, StartedEffect, StoreAssumption
    DEF Moves, Waiting, Answering, KeepsSeeding, KeepsAnswer, KeepsRequest

\* The three statements of the seeding.
LEMMA SeedingMoves ==
  ASSUME Typed, NEW c \in Calls, SeedCustomer(c) \/ SeedPrize(c) \/ EngineReturned(c)
  PROVE  Moves(c)
<1>1. TypeOK /\ calls[c].pc = "seeding"
  BY DEF Typed, SeedCustomer, SeedPrize, EngineReturned
<1>2. /\ calls[c].refs = <<>> /\ calls[c].shown = <<>> /\ calls[c].op \in Operations
      /\ field \in Calls
  BY <1>1, RecordTyped DEF Typed, InPhase, Answering
<1>3. CASE SeedCustomer(c)
  <2> DEFINE i == calls[c].seeded + 1
             id == Seeds[i].id
             points == Seeds[i].points
             o == <<c, id>>
  <2>1. /\ field' = field /\ field \in Calls /\ calls'[c].seeded = i
        /\ id \in Customers /\ points \in Bank!Ints /\ o \in Objects
        /\ Upsert(field, id, points, o)
        /\ Others(c) /\ KeepsAnswer(c) /\ KeepsRequest(c)
        /\ UNCHANGED <<calls[c].engine, calls[c].pc, calls[c].inserted>>
    BY <1>3, SeedCustomerEffect
  <2> HIDE DEF id, points, o
  <2>2. \A f \in Calls, jd \in Customers :
          (f # field \/ jd # id) => db'[f].customers[jd] = db[f].customers[jd]
    BY <1>1, <2>1, UpsertEffect
  <2> HIDE DEF i
  <2>3. calls'[c].seeded \in {calls[c].seeded, calls[c].seeded + 1}
    BY <2>1 DEF i
  <2> QED BY <1>1, <1>2, <2>1, <2>2, <2>3, StoreAssumption
      DEF Moves, Waiting, Answering, KeepsAnswer, KeepsRequest
<1>4. CASE SeedPrize(c)
  BY <1>1, <1>2, <1>4, SeedPrizeEffect, StoreAssumption
  DEF Moves, Waiting, Answering, KeepsAnswer, KeepsRequest, KeepsCustomers
<1>5. CASE EngineReturned(c)
  BY <1>1, <1>2, <1>5, EngineReturnedEffect, StoreAssumption
  DEF Moves, Waiting, Answering, KeepsSeeding, KeepsAnswer, KeepsRequest
<1> QED BY <1>3, <1>4, <1>5

LEMMA Lengths == \A x, y : Len(<<x>>) = 1 /\ Len(<<x, y>>) = 2
OBVIOUS

LEMMA ReturnedMoves ==
  ASSUME Typed, NEW c \in Calls, calls[c].pc = "execute",
         UNCHANGED field, Others(c), KeepsSeeding(c), KeepsRequest(c),
         UNCHANGED <<calls[c].engine, calls[c].shown>>, calls'[c].pc = "reply",
         Len(calls'[c].refs) > 0,
         \A f \in Calls, jd \in Customers :
            f # calls[c].engine => db'[f].customers[jd] = db[f].customers[jd]
  PROVE  Moves(c)
<1>1. /\ calls[c].engine \in Calls /\ calls[c].op \in Operations /\ calls[c].shown = <<>>
      /\ field # NoEngine
  BY ExecutingHas DEF Typed, InPhase
<1>2. Len(calls'[c].shown) = 0
  BY <1>1
<1> QED BY <1>1, <1>2 DEF Moves, Waiting, Answering, KeepsSeeding, KeepsRequest

\* A command, or its failure.
LEMMA CommandMoves ==
  ASSUME Typed, NEW c \in Calls,
         Deposit(c) \/ Debit(c) \/ Transfer(c) \/ GetCustomer(c) \/ Throw(c)
  PROVE  Moves(c)
<1>1. calls[c].pc = "execute"
  BY DEF Deposit, Debit, Transfer, GetCustomer, Throw, Executing
<1>2. /\ TypeOK /\ calls[c].engine \in Calls /\ calls[c].op \in Operations
      /\ calls[c].op.id \in Customers /\ calls[c].shown = <<>> /\ calls[c].refs = <<>>
      /\ field # NoEngine
  BY <1>1, ExecutingHas DEF Typed, InPhase
<1>3. CASE Deposit(c)
  <2> DEFINE id == calls[c].op.id
             points == calls[c].op.points
             o == <<c, "own">>
  <2>1. o \in Objects
    BY <1>1, ExecutingHas DEF Roles
  <2>2. /\ points \in Bank!Ints /\ Upsert(calls[c].engine, id, points, o)
        /\ UNCHANGED field /\ Others(c) /\ KeepsSeeding(c) /\ KeepsRequest(c)
        /\ UNCHANGED <<calls[c].engine, calls[c].shown>> /\ calls'[c].pc = "reply"
        /\ calls'[c].refs = <<UpsertedObject(calls[c].engine, id, o)>>
    BY <1>3, DepositEffect
  <2> HIDE DEF id, points, o
  <2>3. \A f \in Calls, jd \in Customers :
          f # calls[c].engine => db'[f].customers[jd] = db[f].customers[jd]
    BY <1>2, <2>1, <2>2, UpsertEffect DEF id
  <2>4. Len(calls'[c].refs) > 0
    BY <2>2, Lengths
  <2> QED BY <1>1, <2>2, <2>3, <2>4, ReturnedMoves
<1>4. CASE Debit(c)
  <2>1. /\ UNCHANGED field /\ Others(c) /\ KeepsSeeding(c) /\ KeepsRequest(c)
        /\ UNCHANGED <<calls[c].engine, calls[c].shown>> /\ calls'[c].pc = "reply"
        /\ calls'[c].refs = <<<<c, "own">>>>
        /\ \A f \in Calls, jd \in Customers :
             f # calls[c].engine => db'[f].customers[jd] = db[f].customers[jd]
    BY <1>4, DebitEffect
  <2>2. Len(calls'[c].refs) > 0
    BY <2>1, Lengths
  <2> QED BY <1>1, <2>1, <2>2, ReturnedMoves
<1>5. CASE Transfer(c)
  <2>1. /\ UNCHANGED field /\ Others(c) /\ KeepsSeeding(c) /\ KeepsRequest(c)
        /\ UNCHANGED <<calls[c].engine, calls[c].shown>> /\ calls'[c].pc = "reply"
        /\ calls'[c].refs = <<<<c, "sender">>, <<c, "receiver">>>>
    BY <1>5, TransferEffect
  <2>2. \A f \in Calls, jd \in Customers :
          (f # calls[c].engine \/ (jd # calls[c].op.id /\ jd # calls[c].op.to)) =>
             db'[f].customers[jd] = db[f].customers[jd]
    BY <1>5, TransferEffect
  <2>3. Len(calls'[c].refs) > 0
    BY <2>1, Lengths
  <2> QED BY <1>1, <2>1, <2>2, <2>3, ReturnedMoves
<1>6. CASE GetCustomer(c)
  <2> DEFINE o == db[calls[c].engine].customers[calls[c].op.id]
  <2>1. /\ UNCHANGED field /\ Others(c) /\ KeepsSeeding(c) /\ KeepsRequest(c)
        /\ UNCHANGED <<calls[c].engine, calls[c].shown>> /\ calls'[c].pc = "reply"
        /\ calls'[c].refs = <<o>> /\ UNCHANGED db
    BY <1>6, GetCustomerEffect
  <2> HIDE DEF o
  <2>2. Len(calls'[c].refs) > 0
    BY <2>1, Lengths
  <2> QED BY <1>1, <2>1, <2>2, ReturnedMoves
<1>7. CASE Throw(c)
  BY <1>1, <1>2, <1>7, ThrowEffect
  DEF Moves, Waiting, Answering, KeepsSeeding, KeepsAnswer, KeepsRequest
<1> QED BY <1>3, <1>4, <1>5, <1>6, <1>7

LEMMA AnswerMoves ==
  ASSUME Typed, NEW c \in Calls, Read(c) \/ AskPrizes(c) \/ GetAvailablePrizes(c)
  PROVE  Moves(c)
<1>1. TypeOK /\ calls[c].pc \in {"reply", "asking", "prizes"}
  BY DEF Typed, Read, AskPrizes, GetAvailablePrizes
<1>2. /\ calls[c].engine \in Calls /\ calls[c].op \in Operations
      /\ field # NoEngine /\ field \in Calls
  BY <1>1, RecordTyped DEF Typed, InPhase, Waiting
<1>3. CASE Read(c)
  BY <1>1, <1>2, <1>3, ReadEffect
  DEF Moves, Waiting, Answering, KeepsSeeding, KeepsRequest
<1>4. CASE AskPrizes(c)
  BY <1>1, <1>2, <1>4, AskPrizesEffect
  DEF Moves, Waiting, Answering, KeepsSeeding, KeepsRequest
<1>5. CASE GetAvailablePrizes(c)
  BY <1>1, <1>2, <1>5, GetAvailablePrizesEffect
  DEF Moves, Waiting, Answering, KeepsSeeding, KeepsRequest
<1> QED BY <1>3, <1>4, <1>5

LEMMA EveryActionMoves == ASSUME Typed, NEW c \in Calls, Acts(c) PROVE Moves(c) /\ TypeOK'
<1>1. Moves(c)
  BY EnterMoves, StartedMoves, SeedingMoves, CommandMoves, AnswerMoves DEF Acts
<1>2. TypeOK
  BY DEF Typed
<1>3. TypeOK'
  BY <1>2, EnterEffect, StartedEffect, SeedCustomerEffect, SeedPrizeEffect,
     EngineReturnedEffect, DepositEffect, DebitEffect, TransferEffect,
     GetCustomerEffect, ThrowEffect, ReadEffect, AskPrizesEffect,
     GetAvailablePrizesEffect DEF Acts
<1> QED BY <1>1, <1>3

LEMMA MovesKeepsPhases ==
  ASSUME Typed, NEW c \in Calls, Moves(c), TypeOK'
  PROVE  Typed'
<1>1. TypeOK /\ \A d \in Calls : d # c => calls'[d] = calls[d]
  BY DEF Typed, Moves, Others
<1>2. calls'[c].pc \notin {"idle", "starting"} \/ calls[c].pc = "idle"
  BY DEF Moves
<1>3. /\ \A d \in Calls : calls[d].seeded \in Nat
      /\ Len(Seeds) \in Nat /\ Len(Seeds) > 0
  BY <1>1, SeedsAssumption, RecordTyped DEF Records
<1>4. field \in Calls \cup {NoEngine} /\ \A d \in Calls : calls[d].engine \in Calls \cup {NoEngine}
  BY <1>1, RecordTyped DEF Records
<1>5. ASSUME NEW d \in Calls, calls[d].pc \notin {"idle", "starting"}
      PROVE  calls'[d].pc \notin {"idle", "starting"}
  BY <1>1, <1>2, <1>5
<1>6. field' # NoEngine => calls'[field'].pc \notin {"idle", "starting"}
  <2>1. CASE UNCHANGED field
    BY <1>4, <1>5, <2>1 DEF Typed, FieldStarted
  <2>2. CASE field' = c /\ calls'[c].pc = "seeding"
    BY <2>2
  <2> QED BY <2>1, <2>2 DEF Moves
<1>7. field # NoEngine => field' # NoEngine
  BY StoreAssumption DEF Moves
<1>8. \A d \in Calls : calls'[d].pc \in {"idle", "starting"} =>
        \A id \in Customers : db'[d].customers[id] = db[d].customers[id]
  <2>1. ASSUME NEW d \in Calls, calls'[d].pc \in {"idle", "starting"}
        PROVE  d # calls[c].engine /\ d # field
    BY <1>5, <2>1, StoreAssumption DEF Typed, FieldStarted, InPhase
  <2> QED BY <2>1 DEF Moves
<1>9. ASSUME NEW d \in Calls, d # c
      PROVE  InPhase!(d)'
  BY <1>1, <1>4, <1>5, <1>7, <1>8, <1>9 DEF Typed, InPhase
<1>10. InPhase!(c)'
  <2>1. calls'[c].engine # NoEngine => calls'[calls'[c].engine].pc \notin {"idle", "starting"}
    BY <1>4, <1>5 DEF Moves, Typed, InPhase, FieldStarted
  <2>2. calls'[c].pc \in {"idle", "starting"} =>
          /\ calls'[c].seeded = 0 /\ calls'[c].inserted = {}
          /\ \A id \in Customers : db'[c].customers[id] = Nobody
    BY <1>8 DEF Moves, Typed, InPhase, KeepsSeeding
  <2> QED BY <2>1, <2>2 DEF Moves
<1>11. InPhase'
  BY <1>9, <1>10 DEF InPhase
<1>12. FieldStarted'
  <2>1. ASSUME field' # NoEngine
        PROVE  calls'[field'].pc = "seeding" \/ calls'[field'].seeded > 0
    <3>1. CASE field' = c /\ calls'[c].pc = "seeding"
      BY <3>1
    <3>2. CASE UNCHANGED field /\ field = c
      <4>1. calls[c].pc = "seeding" \/ calls[c].seeded > 0
        BY <2>1, <3>2 DEF Typed, FieldStarted
      <4>2. /\ calls[c].pc = "seeding" => calls'[c].pc = "seeding" \/ calls[c].seeded = Len(Seeds)
            /\ calls'[c].seeded \in {calls[c].seeded, calls[c].seeded + 1}
        BY DEF Moves
      <4> QED BY <1>3, <3>2, <4>1, <4>2
    <3>3. CASE UNCHANGED field /\ field # c
      BY <1>1, <1>4, <2>1, <3>3 DEF Typed, FieldStarted
    <3> QED BY <3>1, <3>2, <3>3 DEF Moves
  <2> QED BY <1>6, <2>1 DEF FieldStarted
<1> QED BY <1>11, <1>12 DEF Typed

LEMMA InitTyped == Init => Typed
<1> SUFFICES ASSUME Init PROVE Typed
  OBVIOUS
<1>1. Len(Seeds) \in Nat /\ 0 \in 0 .. Len(Seeds) /\ 0 \in Bank!Ints
  BY SeedsAssumption, IntsAreInts
<1>2. Fresh \in Records
  BY <1>1 DEF Fresh, Records, Phases
<1>3. TypeOK
  BY <1>1, <1>2 DEF Init, TypeOK, Records
<1>4. InPhase /\ FieldStarted
  BY DEF Init, Fresh, InPhase, FieldStarted, Waiting, Answering
<1> QED BY <1>3, <1>4 DEF Typed

LEMMA NextTyped == Typed /\ [Next]_vars => Typed'
<1> SUFFICES ASSUME Typed, [Next]_vars PROVE Typed'
  OBVIOUS
<1>1. CASE UNCHANGED vars
  BY <1>1 DEF vars, Typed, TypeOK, InPhase, FieldStarted
<1>2. ASSUME NEW c \in Calls, Acts(c) PROVE Typed'
  BY <1>2, EveryActionMoves, MovesKeepsPhases
<1> QED BY <1>1, <1>2, NextActs

LEMMA AlwaysTyped == Spec => []Typed
BY InitTyped, NextTyped, PTL DEF Spec

\* The types, for any number of calls: in particular every balance is an int
\* after whatever deposits, debits and transfers (UpsertCustomer.cs,
\* DebitPoints.cs, TransferPoints.cs).
THEOREM StoreTyped == Spec => []TypeOK
<1>1. Typed => TypeOK
  BY DEF Typed
<1> QED BY <1>1, AlwaysTyped, PTL

-----------------------------------------------------------------------------
(***************************************************************************)
(* Customer objects.  A seed object is used up when its call has passed    *)
(* that seed, the other objects of a call when its command has run; an     *)
(* engine, or the answer of a call, holds used objects only, so that the   *)
(* object a command creates is in nobody's hands.                          *)
(***************************************************************************)
Used(progress, o) ==
  IF o[2] \in Customers
  THEN \E i \in 1 .. progress[o[1]].seeded : Seeds[i].id = o[2]
  ELSE progress[o[1]].pc \in Answering

HeldAreUsed ==
  \A e \in Calls, id \in Customers :
     db[e].customers[id] # Nobody => Used(calls, db[e].customers[id])

ReturnedAreUsed ==
  \A c \in Calls : \A i \in DOMAIN calls[c].refs : Used(calls, calls[c].refs[i])

Apart == Typed /\ HeldAreUsed /\ ReturnedAreUsed /\ ObjectsAreNotShared

\* A used object stays used.
LEMMA UsedForEver ==
  ASSUME Typed, NEW c \in Calls, Moves(c), NEW o \in Objects, Used(calls, o),
         calls[c].pc \in Answering => calls'[c].pc \in Answering
  PROVE  Used(calls', o)
<1>1. o[1] \in Calls
  BY DEF Objects
<1>2. TypeOK /\ \A d \in Calls : d # c => calls'[d] = calls[d]
  BY DEF Typed, Moves, Others
<1>3. calls[c].seeded \in Nat /\ calls[o[1]].seeded \in Nat
  BY <1>1, <1>2, SeedsAssumption, RecordTyped DEF Records
<1>4. 1 .. calls[c].seeded \subseteq 1 .. calls'[c].seeded
  BY <1>3 DEF Moves
<1>5. CASE o[2] \in Customers
  <2>1. PICK i \in 1 .. calls[o[1]].seeded : Seeds[i].id = o[2]
    BY <1>5 DEF Used
  <2>2. i \in 1 .. calls'[o[1]].seeded
    BY <1>1, <1>2, <1>4, <2>1
  <2> QED BY <1>5, <2>1, <2>2 DEF Used
<1>6. CASE o[2] \notin Customers
  BY <1>1, <1>2, <1>6 DEF Used
<1> QED BY <1>5, <1>6

\* The step of a call keeps objects apart when what it puts under a customer is
\* an object of its own that nobody used, each under one customer only.
LEMMA StaysApart ==
  ASSUME Apart, NEW c \in Calls, Typed',
         \A o \in Objects : Used(calls, o) => Used(calls', o),
         \A e \in Calls, id \in Customers :
            \/ db'[e].customers[id] = db[e].customers[id]
            \/ /\ ~Used(calls, db'[e].customers[id]) /\ Used(calls', db'[e].customers[id])
               /\ \A f \in Calls, jd \in Customers :
                     db'[f].customers[jd] = db'[e].customers[id] => f = e /\ jd = id,
         \A d \in Calls : d # c => calls'[d] = calls[d],
         \A i \in DOMAIN calls'[c].refs : Used(calls', calls'[c].refs[i])
  PROVE  Apart'
<1>1. /\ db \in [Calls -> [customers : [Customers -> Objects \cup {Nobody}],
                           prizes : SUBSET Prizes]]
      /\ TypeOK
  BY DEF Apart, Typed, TypeOK
<1>2. HeldAreUsed'
  <2> SUFFICES ASSUME NEW e \in Calls, NEW id \in Customers, db'[e].customers[id] # Nobody
               PROVE  Used(calls', db'[e].customers[id])
    BY DEF HeldAreUsed
  <2>1. CASE db'[e].customers[id] = db[e].customers[id]
    <3>1. db[e].customers[id] \in Objects /\ Used(calls, db[e].customers[id])
      BY <1>1, <2>1 DEF HeldAreUsed, Apart
    <3> QED BY <2>1, <3>1
  <2> QED BY <2>1
<1>3. ReturnedAreUsed'
  <2> SUFFICES ASSUME NEW d \in Calls, NEW i \in DOMAIN calls'[d].refs
               PROVE  Used(calls', calls'[d].refs[i])
    BY DEF ReturnedAreUsed
  <2>1. CASE d = c
    BY <2>1
  <2>2. CASE d # c
    <3>1. calls'[d] = calls[d] /\ Used(calls, calls[d].refs[i])
      BY <2>2 DEF Apart, ReturnedAreUsed
    <3>2. calls[d].refs \in Seq(Objects)
      BY <1>1, RecordTyped DEF Records
    <3>3. calls[d].refs[i] \in Objects
      BY <3>1, <3>2
    <3> QED BY <3>1, <3>3
  <2> QED BY <2>1, <2>2
<1>4. ObjectsAreNotShared'
  <2> SUFFICES ASSUME NEW e \in Calls, NEW f \in Calls, NEW id \in Customers, NEW jd \in Customers,
                      db'[e].customers[id] = db'[f].customers[jd],
                      db'[e].customers[id] # Nobody
               PROVE  e = f /\ id = jd
    BY DEF ObjectsAreNotShared
  <2>1. CASE /\ db'[e].customers[id] = db[e].customers[id]
             /\ db'[f].customers[jd] = db[f].customers[jd]
    <3>1. (db[e].customers[id] = db[f].customers[jd] /\ db[e].customers[id] # Nobody)
             => e = f /\ id = jd
      BY DEF Apart, ObjectsAreNotShared
    <3> QED BY <2>1, <3>1
  <2> QED BY <2>1
<1> QED BY <1>2, <1>3, <1>4 DEF Apart

\* The objects a command may create are unused until it has run.
LEMMA NewObjects ==
  ASSUME Apart, NEW c \in Calls, NEW role \in Roles, calls[c].pc = "execute"
  PROVE  /\ <<c, role>> \in Objects /\ ~Used(calls, <<c, role>>)
         /\ calls'[c].pc = "reply" => Used(calls', <<c, role>>)
         /\ \A e \in Calls, id \in Customers : db[e].customers[id] # <<c, role>>
<1>1. <<c, role>> \in Objects /\ role \notin Customers
  BY ExecutingHas DEF Apart
<1>2. ~Used(calls, <<c, role>>)
  BY <1>1 DEF Used, Answering
<1>3. calls'[c].pc = "reply" => Used(calls', <<c, role>>)
  BY <1>1 DEF Used, Answering
<1>4. <<c, role>> # Nobody
  BY <1>1, NamesAssumption
<1>5. \A e \in Calls, id \in Customers : db[e].customers[id] # <<c, role>>
  BY <1>2, <1>4 DEF Apart, HeldAreUsed
<1> QED BY <1>1, <1>2, <1>3, <1>5

LEMMA NewSeedObject ==
  ASSUME Apart, NEW c \in Calls, calls[c].seeded + 1 \in DOMAIN Seeds,
         calls'[c].seeded = calls[c].seeded + 1
  PROVE  LET o == <<c, Seeds[calls[c].seeded + 1].id>> IN
         /\ o \in Objects /\ ~Used(calls, o) /\ Used(calls', o)
         /\ \A e \in Calls, id \in Customers : db[e].customers[id] # o
<1> DEFINE k == calls[c].seeded
           i == k + 1
           id == Seeds[i].id
           o == <<c, id>>
<1>1. k \in Nat /\ i \in 1 .. i /\ calls'[c].seeded = i /\ i \in DOMAIN Seeds
  BY SeedsAssumption, RecordTyped DEF Records, Apart, Typed
<1>2. DOMAIN Seeds = 1 .. Len(Seeds) /\ Len(Seeds) \in Nat
  BY SeedsAssumption
<1>3. id \in Customers
  BY <1>1, <1>2, SeedTyped
<1>4. \A j \in 1 .. k : Seeds[j].id # id
  <2> SUFFICES ASSUME NEW j \in 1 .. k PROVE Seeds[j].id # id
    OBVIOUS
  <2>1. j \in DOMAIN Seeds /\ j # i
    BY <1>1, <1>2
  <2> QED BY <1>1, <2>1, SeedsAssumption
<1> HIDE DEF id
<1>5. ~Used(calls, o)
  BY <1>3, <1>4 DEF Used
<1>6. Used(calls', o)
  BY <1>1, <1>3 DEF Used, id
<1>7. o \in Objects
  BY <1>3 DEF Objects
<1>8. \A e \in Calls, jd \in Customers : db[e].customers[jd] # o
  BY <1>5, <1>7, NamesAssumption DEF Apart, HeldAreUsed
<1> QED BY <1>5, <1>6, <1>7, <1>8 DEF id

\* An upsert puts the object that was there, or one nobody used.
LEMMA UpsertApart ==
  ASSUME Apart, NEW c \in Calls, Typed', Moves(c),
         calls[c].pc \in Answering => calls'[c].pc \in Answering,
         NEW e \in Calls, NEW id \in Customers, NEW points \in Bank!Ints, NEW o \in Objects,
         Upsert(e, id, points, o), ~Used(calls, o), Used(calls', o),
         \A f \in Calls, jd \in Customers : db[f].customers[jd] # o,
         \/ calls'[c].refs = calls[c].refs
         \/ calls'[c].refs = <<UpsertedObject(e, id, o)>>
  PROVE  Apart'
<1> DEFINE x == UpsertedObject(e, id, o)
<1>1. TypeOK /\ Typed
  BY DEF Apart, Typed
<1>2. \A y \in Objects : Used(calls, y) => Used(calls', y)
  BY <1>1, UsedForEver
<1>3. /\ x \in Objects /\ db'[e].customers[id] = x
      /\ \A f \in Calls, jd \in Customers :
           (f # e \/ jd # id) => db'[f].customers[jd] = db[f].customers[jd]
      /\ db[e].customers[id] = x \/ x = o
  BY <1>1, UpsertEffect
<1>4. Used(calls', x)
  <2>1. CASE x = o
    BY <2>1
  <2>2. CASE db[e].customers[id] = x
    <3>1. x # Nobody
      BY <1>3, NamesAssumption
    <3> QED BY <1>2, <1>3, <2>2, <3>1 DEF Apart, HeldAreUsed
  <2> QED BY <1>3, <2>1, <2>2
<1> HIDE DEF x
<1>5. \A d \in Calls : d # c => calls'[d] = calls[d]
  BY DEF Moves, Others
<1>6. \A i \in DOMAIN calls'[c].refs : Used(calls', calls'[c].refs[i])
  <2>1. CASE calls'[c].refs = calls[c].refs
    <3> SUFFICES ASSUME NEW i \in DOMAIN calls[c].refs
                 PROVE  Used(calls', calls[c].refs[i])
      BY <2>1
    <3>1. calls[c].refs \in Seq(Objects)
      BY <1>1, RecordTyped DEF Records
    <3>2. calls[c].refs[i] \in Objects
      BY <3>1
    <3> QED BY <1>2, <3>2 DEF Apart, ReturnedAreUsed
  <2>2. CASE calls'[c].refs = <<x>>
    BY <1>4, <2>2
  <2> QED BY <2>1, <2>2 DEF x
<1>7. ASSUME NEW f \in Calls, NEW jd \in Customers
      PROVE  \/ db'[f].customers[jd] = db[f].customers[jd]
             \/ /\ ~Used(calls, db'[f].customers[jd]) /\ Used(calls', db'[f].customers[jd])
                /\ \A g \in Calls, kd \in Customers :
                      db'[g].customers[kd] = db'[f].customers[jd] => g = f /\ kd = jd
  <2>1. CASE f # e \/ jd # id
    BY <1>3, <2>1
  <2>2. CASE f = e /\ jd = id /\ db[e].customers[id] = x
    BY <1>3, <2>2
  <2>3. CASE f = e /\ jd = id /\ x = o
    BY <1>3, <2>3
  <2> QED BY <1>3, <2>1, <2>2, <2>3
<1> QED BY <1>2, <1>5, <1>6, <1>7, StaysApart

\* So do the steps that put nothing anywhere and return what was there.
LEMMA QuietApart ==
  ASSUME Apart, NEW c \in Calls, Typed', Moves(c), KeepsCustomers,
         calls[c].pc \in Answering => calls'[c].pc \in Answering,
         \/ calls'[c].refs = calls[c].refs
         \/ \E e \in Calls, id \in Customers :
               calls'[c].refs = <<db[e].customers[id]>> /\ db[e].customers[id] # Nobody
  PROVE  Apart'
<1>1. TypeOK /\ Typed
  BY DEF Apart, Typed
<1>2. \A y \in Objects : Used(calls, y) => Used(calls', y)
  BY <1>1, UsedForEver
<1>3. \A d \in Calls : d # c => calls'[d] = calls[d]
  BY DEF Moves, Others
<1>4. \A i \in DOMAIN calls'[c].refs : Used(calls', calls'[c].refs[i])
  <2>1. CASE calls'[c].refs = calls[c].refs
    <3> SUFFICES ASSUME NEW i \in DOMAIN calls[c].refs
                 PROVE  Used(calls', calls[c].refs[i])
      BY <2>1
    <3>1. calls[c].refs \in Seq(Objects)
      BY <1>1, RecordTyped DEF Records
    <3>2. calls[c].refs[i] \in Objects
      BY <3>1
    <3> QED BY <1>2, <3>2 DEF Apart, ReturnedAreUsed
  <2>2. ASSUME NEW e \in Calls, NEW id \in Customers,
               calls'[c].refs = <<db[e].customers[id]>>, db[e].customers[id] # Nobody
        PROVE  \A i \in DOMAIN calls'[c].refs : Used(calls', calls'[c].refs[i])
    <3>1. db[e].customers[id] \in Objects
      BY <1>1, <2>2 DEF TypeOK
    <3>2. Used(calls', db[e].customers[id])
      BY <1>2, <2>2, <3>1 DEF Apart, HeldAreUsed
    <3> QED BY <2>2, <3>2
  <2> QED BY <2>1, <2>2
<1> QED BY <1>2, <1>3, <1>4, StaysApart DEF KeepsCustomers

LEMMA DebitApart == ASSUME Apart, NEW c \in Calls, Typed', Moves(c), Debit(c) PROVE Apart'
<1> DEFINE e == calls[c].engine
           id == calls[c].op.id
           o == <<c, "own">>
<1>1. /\ Typed /\ calls[c].pc = "execute" /\ calls'[c].pc = "reply"
      /\ calls'[c].refs = <<o>> /\ db'[e].customers[id] = o
      /\ \A f \in Calls, jd \in Customers :
           (f # e \/ jd # id) => db'[f].customers[jd] = db[f].customers[jd]
  BY DebitEffect DEF Apart
<1>2. /\ ~Used(calls, o) /\ Used(calls', o)
      /\ \A f \in Calls, jd \in Customers : db[f].customers[jd] # o
  BY <1>1, NewObjects DEF Roles
<1> HIDE DEF e, id, o
<1>3. \A y \in Objects : Used(calls, y) => Used(calls', y)
  BY <1>1, UsedForEver DEF Answering
<1>4. \A d \in Calls : d # c => calls'[d] = calls[d]
  BY DEF Moves, Others
<1>5. \A i \in DOMAIN calls'[c].refs : Used(calls', calls'[c].refs[i])
  BY <1>1, <1>2
<1>6. ASSUME NEW f \in Calls, NEW jd \in Customers
      PROVE  \/ db'[f].customers[jd] = db[f].customers[jd]
             \/ /\ ~Used(calls, db'[f].customers[jd]) /\ Used(calls', db'[f].customers[jd])
                /\ \A g \in Calls, kd \in Customers :
                      db'[g].customers[kd] = db'[f].customers[jd] => g = f /\ kd = jd
  <2>1. CASE f # e \/ jd # id
    BY <1>1, <2>1
  <2>2. CASE f = e /\ jd = id
    BY <1>1, <1>2, <2>2
  <2> QED BY <2>1, <2>2
<1> QED BY <1>3, <1>4, <1>5, <1>6, StaysApart

LEMMA TransferApart ==
  ASSUME Apart, NEW c \in Calls, Typed', Moves(c), Transfer(c) PROVE Apart'
<1> DEFINE e == calls[c].engine
           from == calls[c].op.id
           to == calls[c].op.to
           s == <<c, "sender">>
           r == <<c, "receiver">>
<1>1. /\ Typed /\ calls[c].pc = "execute" /\ calls'[c].pc = "reply"
      /\ calls'[c].refs = <<s, r>> /\ db'[e].customers[to] = r
      /\ from # to => db'[e].customers[from] = s
      /\ \A f \in Calls, jd \in Customers :
           (f # e \/ (jd # from /\ jd # to)) =>
              db'[f].customers[jd] = db[f].customers[jd]
  BY TransferEffect DEF Apart
<1>2. /\ ~Used(calls, s) /\ Used(calls', s)
      /\ \A f \in Calls, jd \in Customers : db[f].customers[jd] # s
  BY <1>1, NewObjects DEF Roles
<1>3. /\ ~Used(calls, r) /\ Used(calls', r)
      /\ \A f \in Calls, jd \in Customers : db[f].customers[jd] # r
  BY <1>1, NewObjects DEF Roles
<1>4. s # r
  OBVIOUS
<1> HIDE DEF e, from, to, s, r
<1>5. \A y \in Objects : Used(calls, y) => Used(calls', y)
  BY <1>1, UsedForEver DEF Answering
<1>6. \A d \in Calls : d # c => calls'[d] = calls[d]
  BY DEF Moves, Others
<1>7. \A i \in DOMAIN calls'[c].refs : Used(calls', calls'[c].refs[i])
  BY <1>1, <1>2, <1>3
<1>8. ASSUME NEW f \in Calls, NEW jd \in Customers
      PROVE  \/ db'[f].customers[jd] = db[f].customers[jd]
             \/ /\ ~Used(calls, db'[f].customers[jd]) /\ Used(calls', db'[f].customers[jd])
                /\ \A g \in Calls, kd \in Customers :
                      db'[g].customers[kd] = db'[f].customers[jd] => g = f /\ kd = jd
  <2>1. CASE f # e \/ (jd # from /\ jd # to)
    BY <1>1, <2>1
  <2>2. CASE f = e /\ jd = to
    BY <1>1, <1>3, <1>4, <2>2
  <2>3. CASE f = e /\ jd = from /\ jd # to
    BY <1>1, <1>2, <1>4, <2>3
  <2> QED BY <2>1, <2>2, <2>3
<1> QED BY <1>5, <1>6, <1>7, <1>8, StaysApart

LEMMA NextApart == Apart /\ [Next]_vars => Apart'
<1> SUFFICES ASSUME Apart, [Next]_vars PROVE Apart'
  OBVIOUS
<1>1. CASE UNCHANGED vars
  BY <1>1, NextTyped DEF vars, Apart, HeldAreUsed, ReturnedAreUsed, ObjectsAreNotShared
<1>2. ASSUME NEW c \in Calls, Acts(c) PROVE Apart'
  <2>1. Typed /\ TypeOK /\ Typed' /\ Moves(c)
    BY <1>2, EveryActionMoves, MovesKeepsPhases DEF Apart, Typed
  <2>2. ASSUME calls[c].pc \notin Answering, calls'[c].refs = calls[c].refs, KeepsCustomers
        PROVE  Apart'
    BY <2>1, <2>2, QuietApart
  <2>3. CASE Enter(c) \/ Started(c) \/ EngineReturned(c) \/ Throw(c) \/ SeedPrize(c)
    <3>1. calls'[c].refs = calls[c].refs /\ calls[c].pc \notin Answering
      BY <2>1, <2>3, EnterEffect, StartedEffect, EngineReturnedEffect, ThrowEffect,
         SeedPrizeEffect DEF KeepsAnswer, Answering
    <3>2. KeepsCustomers
      BY <2>1, <2>3, EnterEffect, StartedEffect, EngineReturnedEffect, ThrowEffect,
         SeedPrizeEffect DEF KeepsCustomers
    <3> QED BY <2>2, <3>1, <3>2
  <2>4. CASE Read(c) \/ AskPrizes(c) \/ GetAvailablePrizes(c)
    <3>1. calls'[c].refs = calls[c].refs /\ calls'[c].pc \in Answering
      BY <2>1, <2>4, ReadEffect, AskPrizesEffect, GetAvailablePrizesEffect DEF Answering
    <3>2. KeepsCustomers
      BY <2>4 DEF KeepsCustomers, Read, AskPrizes, GetAvailablePrizes
    <3> QED BY <2>1, <3>1, <3>2, QuietApart
  <2>5. CASE GetCustomer(c)
    <3>1. calls'[c].pc = "reply" /\ calls[c].pc = "execute" /\ KeepsCustomers
      BY <2>1, <2>5, GetCustomerEffect DEF KeepsCustomers
    <3>2. calls[c].engine \in Calls /\ calls[c].op.id \in Customers
      BY <2>1, <3>1, ExecutingHas
    <3>3. \E e \in Calls, id \in Customers :
            calls'[c].refs = <<db[e].customers[id]>> /\ db[e].customers[id] # Nobody
      BY <2>1, <2>5, <3>2, GetCustomerEffect
    <3> QED BY <2>1, <3>1, <3>3, QuietApart DEF Answering
  <2>6. CASE SeedCustomer(c)
    <3> DEFINE i == calls[c].seeded + 1
               id == Seeds[i].id
               points == Seeds[i].points
               o == <<c, id>>
    <3>1. /\ field \in Calls /\ id \in Customers /\ points \in Bank!Ints
          /\ Upsert(field, id, points, o) /\ calls'[c].refs = calls[c].refs
          /\ calls[c].pc = "seeding"
      BY <2>1, <2>6, SeedCustomerEffect DEF KeepsAnswer
    <3>2. /\ o \in Objects /\ ~Used(calls, o) /\ Used(calls', o)
          /\ \A e \in Calls, jd \in Customers : db[e].customers[jd] # o
      BY <2>1, <2>6, SeedCustomerEffect, NewSeedObject
    <3> HIDE DEF id, points, o
    <3> QED BY <2>1, <3>1, <3>2, UpsertApart DEF Answering
  <2>7. CASE Deposit(c)
    <3> DEFINE e == calls[c].engine
               id == calls[c].op.id
               points == calls[c].op.points
               o == <<c, "own">>
    <3>1. /\ points \in Bank!Ints /\ Upsert(e, id, points, o)
          /\ calls'[c].refs = <<UpsertedObject(e, id, o)>>
          /\ calls[c].pc = "execute" /\ calls'[c].pc = "reply"
      BY <2>1, <2>7, DepositEffect
    <3>2. e \in Calls /\ id \in Customers
      BY <2>1, <3>1, ExecutingHas
    <3>3. /\ o \in Objects /\ ~Used(calls, o) /\ Used(calls', o)
          /\ \A f \in Calls, jd \in Customers : db[f].customers[jd] # o
      BY <3>1, NewObjects DEF Roles
    <3> HIDE DEF e, id, points, o
    <3> QED BY <2>1, <3>1, <3>2, <3>3, UpsertApart DEF Answering
  <2> QED BY <1>2, <2>1, <2>3, <2>4, <2>5, <2>6, <2>7, DebitApart, TransferApart DEF Acts
<1> QED BY <1>1, <1>2, NextActs

LEMMA AlwaysApart == Spec => []Apart
<1>1. Init => Apart
  BY InitTyped DEF Init, Fresh, Apart, HeldAreUsed, ReturnedAreUsed, ObjectsAreNotShared
<1> QED BY <1>1, NextApart, PTL DEF Spec

\* No Customer object stands for two customers or belongs to two engines,
\* however many calls start engines and whatever they transfer.
THEOREM NoObjectIsShared == Spec => []ObjectsAreNotShared
<1>1. Apart => ObjectsAreNotShared
  BY DEF Apart
<1> QED BY <1>1, AlwaysApart, PTL

-----------------------------------------------------------------------------
(***************************************************************************)
(* What moves a balance.                                                   *)
(***************************************************************************)
LEMMA BalanceMoves ==
  ASSUME Apart, NEW c \in Calls, Acts(c), NEW o \in Objects, balance'[o] # balance[o]
  PROVE  \/ ~Used(calls, o)
         \/ Deposit(c) /\ calls'[c].refs = <<o>>
         \/ SeedCustomer(c)
<1>1. Typed /\ TypeOK
  BY DEF Apart, Typed
<1>2. CASE Debit(c)
  <2>1. calls[c].pc = "execute" /\ o = <<c, "own">>
    BY <1>1, <1>2, DebitEffect
  <2> QED BY <2>1, NewObjects DEF Roles
<1>3. CASE Transfer(c)
  <2>1. calls[c].pc = "execute" /\ (o = <<c, "sender">> \/ o = <<c, "receiver">>)
    BY <1>1, <1>3, TransferEffect
  <2> QED BY <2>1, NewObjects DEF Roles
<1>4. CASE Deposit(c)
  <2> DEFINE e == calls[c].engine
             id == calls[c].op.id
             points == calls[c].op.points
             p == <<c, "own">>
  <2>1. /\ points \in Bank!Ints /\ Upsert(e, id, points, p)
        /\ calls'[c].refs = <<UpsertedObject(e, id, p)>> /\ calls[c].pc = "execute"
    BY <1>1, <1>4, DepositEffect
  <2>2. e \in Calls /\ id \in Customers /\ p \in Objects
    BY <1>1, <2>1, ExecutingHas DEF Roles
  <2> HIDE DEF e, id, points, p
  <2>3. o = UpsertedObject(e, id, p)
    BY <1>1, <2>1, <2>2, UpsertEffect
  <2> QED BY <1>4, <2>1, <2>3
<1>5. CASE SeedCustomer(c)
  BY <1>5
<1>6. CASE \/ Enter(c) \/ Started(c) \/ SeedPrize(c) \/ EngineReturned(c) \/ GetCustomer(c)
           \/ Throw(c) \/ Read(c) \/ AskPrizes(c) \/ GetAvailablePrizes(c)
  BY <1>6 DEF Enter, Started, SeedPrize, EngineReturned, GetCustomer, Throw, Read, AskPrizes,
              GetAvailablePrizes
<1> QED BY <1>2, <1>3, <1>4, <1>5, <1>6 DEF Acts

\* A balance somebody was given moves only through a deposit to that customer,
\* by a field (CustomerMutation.cs) or by the seeding of an engine: debits and
\* transfers build new objects (DebitPoints.cs, TransferPoints.cs).
THEOREM OldObjectsAreLeftAlone == Spec => OnlyDepositsReachOldObjects
<1> DEFINE Reached(o) ==
      \E d \in Calls : \/ calls[d].op.kind = "customer" /\ calls'[d].pc = "reply"
                          /\ calls[d].pc = "execute" /\ calls'[d].refs = <<o>>
                       \/ calls'[d].seeded # calls[d].seeded
           Old == \A c \in Calls : \A i \in DOMAIN calls[c].refs :
                    LET o == calls[c].refs[i] IN balance'[o] # balance[o] => Reached(o)
<1>1. Apart /\ [Next]_vars => [Old]_vars
  <2> SUFFICES ASSUME Apart, Next, NEW c \in Calls, NEW i \in DOMAIN calls[c].refs,
                      balance'[calls[c].refs[i]] # balance[calls[c].refs[i]]
               PROVE  Reached(calls[c].refs[i])
    OBVIOUS
  <2> DEFINE o == calls[c].refs[i]
  <2>1. Typed /\ TypeOK
    BY DEF Apart, Typed
  <2>2. calls[c].refs \in Seq(Objects)
    BY <2>1, RecordTyped DEF Records
  <2>3. o \in Objects /\ Used(calls, o)
    BY <2>2 DEF Apart, ReturnedAreUsed
  <2> HIDE DEF o
  <2>4. balance'[o] # balance[o]
    BY DEF o
  <2>5. PICK d \in Calls : Acts(d)
    BY <2>4, NextActs DEF vars
  <2>6. CASE Deposit(d) /\ calls'[d].refs = <<o>>
    BY <2>1, <2>6, DepositEffect DEF o
  <2>7. CASE SeedCustomer(d)
    <3>1. calls[d].seeded \in Nat
      BY <2>1, SeedsAssumption, RecordTyped DEF Records
    <3>2. calls'[d].seeded = calls[d].seeded + 1
      BY <2>1, <2>7, SeedCustomerEffect
    <3> QED BY <3>1, <3>2
  <2> QED BY <2>3, <2>4, <2>5, <2>6, <2>7, BalanceMoves
<1> QED BY <1>1, AlwaysApart, PTL DEF Spec, OnlyDepositsReachOldObjects

-----------------------------------------------------------------------------
(***************************************************************************)
(* The store is the bank: every step of a call is a step of the bank on    *)
(* the accounts of the engine in the field, or leaves them alone.          *)
(***************************************************************************)
Held(id) == db[field].customers[id]

LEMMA AccountsAre ==
  ASSUME TypeOK, field # NoEngine
  PROVE  /\ field \in Calls
         /\ Accounts = [id \in Customers |-> IF Held(id) = Nobody THEN NoAccount
                                             ELSE balance[Held(id)]]
         /\ \A id \in Customers : Held(id) # Nobody =>
              Held(id) \in Objects /\ balance[Held(id)] \in Bank!Ints
                 /\ balance[Held(id)] # NoAccount
<1>1. NoAccount \notin Bank!Ints
  BY StoreAssumption, IntsAreInts
<1> QED BY <1>1 DEF TypeOK, Accounts, Held

\* Nothing is seen of a step that leaves the field, and what its engine holds.
LEMMA Unseen ==
  ASSUME UNCHANGED field,
         field # NoEngine =>
            \A id \in Customers : db'[field].customers[id] = Held(id)
               /\ (Held(id) # Nobody => balance'[Held(id)] = balance[Held(id)])
  PROVE  UNCHANGED Accounts
BY DEF Accounts, Held

LEMMA UpsertIsADeposit ==
  ASSUME Apart, TypeOK', UNCHANGED field, field \in Calls,
         NEW e \in Calls, NEW id \in Customers, NEW points \in Bank!Ints, NEW o \in Objects,
         Upsert(e, id, points, o),
         \A f \in Calls, jd \in Customers : db[f].customers[jd] # o
  PROVE  IF e = field THEN Bank!Deposit(id, points) ELSE UNCHANGED Accounts
<1> DEFINE x == UpsertedObject(e, id, o)
<1>1. TypeOK /\ field # NoEngine /\ field' # NoEngine
  BY StoreAssumption DEF Apart, Typed
<1>2. /\ x \in Objects /\ db'[e].customers[id] = x
      /\ \A f \in Calls, jd \in Customers :
           (f # e \/ jd # id) => db'[f].customers[jd] = db[f].customers[jd]
      /\ \A y \in Objects : y # x => balance'[y] = balance[y]
      /\ \/ /\ db[e].customers[id] = x
            /\ balance'[x] = Bank!Int32(balance[x] + points)
         \/ /\ db[e].customers[id] = Nobody /\ x = o
            /\ balance'[x] = points
  BY <1>1, UpsertEffect
<1> HIDE DEF x
<1>3. x # Nobody
  BY <1>2, NamesAssumption
<1>4. ASSUME NEW jd \in Customers, field # e \/ jd # id
      PROVE  /\ db'[field].customers[jd] = Held(jd)
             /\ Held(jd) # Nobody => balance'[Held(jd)] = balance[Held(jd)]
  <2>1. db'[field].customers[jd] = Held(jd)
    BY <1>2, <1>4 DEF Held
  <2>2. ASSUME Held(jd) # Nobody PROVE balance'[Held(jd)] = balance[Held(jd)]
    <3>1. Held(jd) # x
      <4>1. CASE db[e].customers[id] = x
        <5>1. db[field].customers[jd] = db[e].customers[id] /\ x # Nobody => field = e /\ jd = id
          BY <4>1, <1>3 DEF Apart, ObjectsAreNotShared
        <5> QED BY <1>3, <1>4, <4>1, <5>1 DEF Held
      <4>2. CASE x = o
        BY <4>2 DEF Held
      <4> QED BY <1>2, <4>1, <4>2
    <3> QED BY <1>1, <1>2, <2>2, <3>1, AccountsAre
  <2> QED BY <2>1, <2>2
<1>5. CASE e # field
  BY <1>4, <1>5, Unseen
<1>6. CASE e = field
  <2>1. db'[field].customers[id] = x /\ balance'[x] # NoAccount
    BY <1>1, <1>2, <1>3, <1>6, AccountsAre, StoreAssumption, IntsAreInts DEF Held, TypeOK
  <2>2. Accounts' = [jd \in Customers |-> IF db'[field].customers[jd] = Nobody THEN NoAccount
                                          ELSE balance'[db'[field].customers[jd]]]
    BY <1>1 DEF Accounts
  <2>3. /\ Accounts = [jd \in Customers |-> IF Held(jd) = Nobody THEN NoAccount
                                           ELSE balance[Held(jd)]]
        /\ Held(id) # Nobody => balance[Held(id)] # NoAccount
    BY <1>1, AccountsAre
  <2>4. Accounts'[id] = Bank!Int32((IF Accounts[id] = NoAccount THEN 0 ELSE Accounts[id]) + points)
    <3>1. Accounts'[id] = balance'[x]
      BY <1>3, <2>1, <2>2
    <3>2. CASE db[e].customers[id] = x /\ balance'[x] = Bank!Int32(balance[x] + points)
      <4>1. Held(id) = x
        BY <1>6, <3>2 DEF Held
      <4> QED BY <1>3, <2>3, <3>1, <3>2, <4>1
    <3>3. CASE db[e].customers[id] = Nobody /\ balance'[x] = points
      <4>1. Accounts[id] = NoAccount
        BY <1>6, <2>3, <3>3 DEF Held
      <4>2. 0 + points = points
        BY IntsAreInts
      <4>3. Bank!Int32(0 + points) = points
        BY <4>2, InRange
      <4> QED BY <3>1, <3>3, <4>1, <4>3
    <3> QED BY <1>2, <3>2, <3>3
  <2>5. ASSUME NEW jd \in Customers, jd # id PROVE Accounts'[jd] = Accounts[jd]
    BY <1>4, <2>2, <2>3, <2>5
  <2>6. Bank!Deposit(id, points)
    BY <2>2, <2>3, <2>4, <2>5 DEF Bank!Deposit
  <2> QED BY <1>6, <2>6
<1> QED BY <1>5, <1>6

LEMMA StartIsARestart ==
  ASSUME Apart, NEW c \in Calls, Started(c), TypeOK' PROVE Bank!Restart
<1>1. TypeOK /\ calls[c].pc = "starting"
  BY DEF Apart, Typed, Started
<1>2. field' = c /\ UNCHANGED db /\ field' # NoEngine
  BY StoreAssumption DEF Started
<1>3. \A id \in Customers : db[c].customers[id] = Nobody
  BY <1>1 DEF Apart, Typed, InPhase
<1> QED BY <1>2, <1>3 DEF Bank!Restart, Accounts

LEMMA DebitIsADebit ==
  ASSUME Apart, NEW c \in Calls, Debit(c), TypeOK'
  PROVE  IF calls[c].engine = field THEN Bank!Debit(calls[c].op.id, calls[c].op.points)
         ELSE UNCHANGED Accounts
<1> DEFINE e == calls[c].engine
           id == calls[c].op.id
           points == calls[c].op.points
           o == <<c, "own">>
<1>1. /\ TypeOK /\ Typed /\ calls[c].pc = "execute" /\ UNCHANGED field
      /\ db[e].customers[id] \in Objects /\ o \in Objects
      /\ balance'[o] = Bank!Int32(balance[db[e].customers[id]] - points)
      /\ \A y \in Objects : y # o => balance'[y] = balance[y]
      /\ db'[e].customers[id] = o
      /\ \A f \in Calls, jd \in Customers :
           (f # e \/ jd # id) => db'[f].customers[jd] = db[f].customers[jd]
  BY DebitEffect DEF Apart, Typed
<1>2. e \in Calls /\ id \in Customers /\ field # NoEngine /\ field' # NoEngine
  BY <1>1, ExecutingHas DEF Typed, InPhase
<1>3. \A f \in Calls, jd \in Customers : db[f].customers[jd] # o
  BY <1>1, NewObjects DEF Roles
<1> HIDE DEF e, id, points, o
<1>4. /\ field \in Calls
      /\ Accounts = [jd \in Customers |-> IF Held(jd) = Nobody THEN NoAccount
                                         ELSE balance[Held(jd)]]
      /\ \A jd \in Customers : Held(jd) # Nobody =>
           Held(jd) \in Objects /\ balance[Held(jd)] # NoAccount
  BY <1>1, <1>2, AccountsAre
<1>5. ASSUME NEW jd \in Customers, field # e \/ jd # id
      PROVE  /\ db'[field].customers[jd] = Held(jd)
             /\ Held(jd) # Nobody => balance'[Held(jd)] = balance[Held(jd)]
  BY <1>1, <1>3, <1>4, <1>5 DEF Held
<1>6. CASE e # field
  BY <1>1, <1>5, <1>6, Unseen DEF e
<1>7. CASE e = field
  <2>1. db'[field].customers[id] = o /\ o # Nobody /\ Held(id) = db[e].customers[id] /\ Held(id) # Nobody
    BY <1>1, <1>7, NamesAssumption DEF Held
  <2>2. Accounts' = [jd \in Customers |-> IF db'[field].customers[jd] = Nobody THEN NoAccount
                                          ELSE balance'[db'[field].customers[jd]]]
    BY <1>1, <1>2 DEF Accounts
  <2>3. Accounts[id] = balance[db[e].customers[id]] /\ Accounts[id] # NoAccount
    BY <1>2, <1>4, <2>1
  <2>4. Accounts'[id] = Bank!Int32(Accounts[id] - points)
    BY <1>1, <1>2, <2>1, <2>2, <2>3
  <2>5. ASSUME NEW jd \in Customers, jd # id PROVE Accounts'[jd] = Accounts[jd]
    BY <1>4, <1>5, <2>2, <2>5
  <2>6. Accounts' = [Accounts EXCEPT ![id] = Bank!Int32(@ - points)]
    BY <1>4, <2>2, <2>4, <2>5
  <2> QED BY <1>7, <2>3, <2>6 DEF Bank!Debit, e, id, points
<1> QED BY <1>6, <1>7 DEF e

LEMMA TransferIsATransfer ==
  ASSUME Apart, NEW c \in Calls, Transfer(c), TypeOK'
  PROVE  IF calls[c].engine # field THEN UNCHANGED Accounts
         ELSE IF calls[c].op.id = calls[c].op.to
         THEN Bank!Deposit(calls[c].op.to, calls[c].op.points)
         ELSE Bank!Transfer(calls[c].op.id, calls[c].op.to, calls[c].op.points)
<1> DEFINE e == calls[c].engine
           from == calls[c].op.id
           to == calls[c].op.to
           points == calls[c].op.points
           s == <<c, "sender">>
           r == <<c, "receiver">>
<1>1. /\ TypeOK /\ Typed /\ calls[c].pc = "execute" /\ UNCHANGED field
      /\ calls[c].op.kind = "loyaltyPointsTransfer"
      /\ db[e].customers[from] \in Objects /\ db[e].customers[to] \in Objects
      /\ s \in Objects /\ r \in Objects
      /\ balance'[s] = Bank!Int32(balance[db[e].customers[from]] - points)
      /\ balance'[r] = Bank!Int32(balance[db[e].customers[to]] + points)
      /\ \A y \in Objects : (y # s /\ y # r) => balance'[y] = balance[y]
      /\ db'[e].customers[to] = r
      /\ from # to => db'[e].customers[from] = s
      /\ \A f \in Calls, jd \in Customers :
           (f # e \/ (jd # from /\ jd # to)) =>
              db'[f].customers[jd] = db[f].customers[jd]
  BY TransferEffect DEF Apart, Typed
<1>2. e \in Calls /\ from \in Customers /\ to \in Customers /\ field # NoEngine /\ field' # NoEngine
  BY <1>1, ExecutingHas DEF Typed, InPhase
<1>3. \A f \in Calls, jd \in Customers : db[f].customers[jd] # s /\ db[f].customers[jd] # r
  BY <1>1, NewObjects DEF Roles
<1> HIDE DEF e, from, to, points, s, r
<1>4. /\ field \in Calls
      /\ Accounts = [jd \in Customers |-> IF Held(jd) = Nobody THEN NoAccount
                                         ELSE balance[Held(jd)]]
      /\ \A jd \in Customers : Held(jd) # Nobody =>
           Held(jd) \in Objects /\ balance[Held(jd)] # NoAccount
  BY <1>1, <1>2, AccountsAre
<1>5. ASSUME NEW jd \in Customers, field # e \/ (jd # from /\ jd # to)
      PROVE  /\ db'[field].customers[jd] = Held(jd)
             /\ Held(jd) # Nobody => balance'[Held(jd)] = balance[Held(jd)]
  BY <1>1, <1>3, <1>4, <1>5 DEF Held
<1>6. CASE e # field
  BY <1>1, <1>5, <1>6, Unseen DEF e
<1>7. CASE e = field
  <2>1. /\ db'[field].customers[to] = r /\ r # Nobody /\ s # Nobody
        /\ from # to => db'[field].customers[from] = s
        /\ Held(to) = db[e].customers[to] /\ Held(to) # Nobody
        /\ Held(from) = db[e].customers[from] /\ Held(from) # Nobody
    BY <1>1, <1>7, NamesAssumption DEF Held
  <2>2. Accounts' = [jd \in Customers |-> IF db'[field].customers[jd] = Nobody THEN NoAccount
                                          ELSE balance'[db'[field].customers[jd]]]
    BY <1>1, <1>2 DEF Accounts
  <2>3. /\ Accounts[to] = balance[db[e].customers[to]] /\ Accounts[to] # NoAccount
        /\ Accounts[from] = balance[db[e].customers[from]] /\ Accounts[from] # NoAccount
    BY <1>2, <1>4, <2>1
  <2>4. /\ Accounts'[to] = Bank!Int32(Accounts[to] + points)
        /\ from # to => Accounts'[from] = Bank!Int32(Accounts[from] - points)
    BY <1>1, <1>2, <2>1, <2>2, <2>3
  <2>5. ASSUME NEW jd \in Customers, jd # from, jd # to PROVE Accounts'[jd] = Accounts[jd]
    BY <1>4, <1>5, <2>2, <2>5
  <2>6. CASE from = to
    <3>1. Accounts' = [Accounts EXCEPT ![to] = Bank!Int32((IF @ = NoAccount THEN 0 ELSE @) + points)]
      BY <1>4, <2>2, <2>3, <2>4, <2>5, <2>6
    <3> QED BY <1>7, <2>6, <3>1 DEF Bank!Deposit, e, from, to, points
  <2>7. CASE from # to
    <3>1. Accounts' = [Accounts EXCEPT ![from] = Bank!Int32(@ - points),
                                       ![to] = Bank!Int32(@ + points)]
      BY <1>4, <2>2, <2>4, <2>5, <2>7
    <3> QED BY <1>7, <2>3, <2>7, <3>1 DEF Bank!Transfer, e, from, to, points
  <2> QED BY <2>6, <2>7
<1> QED BY <1>6, <1>7 DEF e

LEMMA StepsOfTheBank == Apart /\ [Next]_vars => [Bank!Next]_Accounts
<1> SUFFICES ASSUME Apart, [Next]_vars PROVE [Bank!Next]_Accounts
  OBVIOUS
<1>0. Typed /\ TypeOK
  BY DEF Apart, Typed
<1>1. CASE UNCHANGED vars
  BY <1>1 DEF vars, Accounts
<1>2. ASSUME NEW c \in Calls, Acts(c) PROVE [Bank!Next]_Accounts
  <2>1. TypeOK'
    BY <1>0, <1>2, EveryActionMoves
  <2>2. CASE Started(c)
    BY <2>1, <2>2, StartIsARestart DEF Bank!Next
  <2>3. CASE SeedCustomer(c)
    <3> DEFINE i == calls[c].seeded + 1
               id == Seeds[i].id
               points == Seeds[i].points
               o == <<c, id>>
    <3>1. /\ field \in Calls /\ id \in Customers /\ points \in Bank!Ints /\ UNCHANGED field
          /\ Upsert(field, id, points, o) /\ o \in Objects
      BY <1>0, <2>3, SeedCustomerEffect
    <3>2. \A e \in Calls, jd \in Customers : db[e].customers[jd] # o
      BY <1>0, <2>3, SeedCustomerEffect, NewSeedObject
    <3> HIDE DEF id, points, o
    <3>3. Bank!Deposit(id, points)
      BY <2>1, <3>1, <3>2, UpsertIsADeposit
    <3> QED BY <3>1, <3>3 DEF Bank!Next
  <2>4. CASE Deposit(c)
    <3> DEFINE e == calls[c].engine
               id == calls[c].op.id
               points == calls[c].op.points
               o == <<c, "own">>
    <3>1. /\ points \in Bank!Ints /\ UNCHANGED field
          /\ Upsert(e, id, points, o) /\ calls[c].pc = "execute"
      BY <1>0, <2>4, DepositEffect
    <3>2. e \in Calls /\ id \in Customers /\ o \in Objects /\ field \in Calls
      BY <1>0, <3>1, ExecutingHas, RecordTyped DEF Roles, Typed, InPhase
    <3>3. \A f \in Calls, jd \in Customers : db[f].customers[jd] # o
      BY <3>1, NewObjects DEF Roles
    <3> HIDE DEF e, id, points, o
    <3>4. Bank!Deposit(id, points) \/ UNCHANGED Accounts
      BY <2>1, <3>1, <3>2, <3>3, UpsertIsADeposit
    <3> QED BY <3>1, <3>2, <3>4 DEF Bank!Next
  <2>5. CASE Debit(c)
    <3>1. calls[c].op.id \in Customers /\ calls[c].op.points \in Bank!Ints
      BY <1>0, <2>5, ExecutingHas DEF Debit, Executing
    <3> QED BY <2>1, <2>5, <3>1, DebitIsADebit DEF Bank!Next
  <2>6. CASE Transfer(c)
    <3>1. calls[c].op.id \in Customers /\ calls[c].op.to \in Customers
          /\ calls[c].op.points \in Bank!Ints
      BY <1>0, <2>6, ExecutingHas DEF Transfer, Executing
    <3> QED BY <2>1, <2>6, <3>1, TransferIsATransfer DEF Bank!Next
  <2>7. CASE SeedPrize(c)
    <3>1. UNCHANGED <<field, balance>> /\ KeepsCustomers /\ field \in Calls
      BY <1>0, <2>7, SeedPrizeEffect
    <3> QED BY <3>1, Unseen DEF KeepsCustomers, Held
  <2>8. CASE \/ Enter(c) \/ EngineReturned(c) \/ GetCustomer(c) \/ Throw(c)
             \/ Read(c) \/ AskPrizes(c) \/ GetAvailablePrizes(c)
    <3>1. UNCHANGED <<field, db, balance>>
      BY <2>8 DEF Enter, EngineReturned, GetCustomer, Throw, Read, AskPrizes, GetAvailablePrizes
    <3> QED BY <3>1 DEF Accounts
  <2> QED BY <1>2, <2>2, <2>3, <2>4, <2>5, <2>6, <2>7, <2>8 DEF Acts
<1> QED BY <1>1, <1>2, NextActs

\* The store implements the bank: the accounts of the engine in the field move
\* as if every command took effect at once, whatever engines other calls still
\* hold and however objects are shared with callers.
THEOREM StoreIsABank == Spec => ImplementsBank
<1>1. Init => Bank!Init
  BY DEF Init, Bank!Init, Accounts
<1> QED BY <1>1, StepsOfTheBank, AlwaysApart, PTL DEF Spec, ImplementsBank, Bank!Spec

-----------------------------------------------------------------------------
(***************************************************************************)
(* What a call finds that arrives after the seeding.  While one call only  *)
(* has started an engine, that is the engine in the field; it holds every  *)
(* seed its call has passed, and a call past the seeding has passed them   *)
(* all.                                                                    *)
(***************************************************************************)
Starts(c) == calls[c].pc \in {"starting", "seeding"} \/ calls[c].seeded > 0

SeededThrough ==
  \A c \in Calls : (calls[c].pc \notin Waiting /\ calls[c].seeded > 0) =>
    calls[c].seeded = Len(Seeds) /\ calls[c].inserted = Prizes

SeedsHeld ==
  (OneEngine /\ field # NoEngine) =>
    /\ \A i \in 1 .. calls[field].seeded : db[field].customers[Seeds[i].id] # Nobody
    /\ calls[field].inserted \subseteq db[field].prizes

LateInHand ==
  \A c \in Calls : calls[c].late =>
    /\ EngineReady /\ calls[c].pc \notin Waiting
    /\ OneEngine => calls[c].engine = field

Settled == Typed /\ SeededThrough /\ SeedsHeld /\ LateInHand /\ LateCallsSeeTheSettings

LEMMA SeedsLong == Len(Seeds) \in Nat /\ Len(Seeds) > 0 /\ DOMAIN Seeds = 1 .. Len(Seeds)
BY SeedsAssumption

LEMMA SeededTyped ==
  ASSUME TypeOK, NEW c \in Calls
  PROVE  calls[c].seeded \in Nat /\ calls[c].seeded \in 0 .. Len(Seeds)
         /\ calls[c].inserted \subseteq Prizes
BY SeedsLong, RecordTyped DEF Records

\* A call that has started an engine is never taken for one that has not.
LEMMA StartsForEver ==
  ASSUME Typed, NEW c \in Calls, Moves(c), NEW d \in Calls, Starts(d)
  PROVE  Starts(d)'
<1>1. TypeOK /\ \A x \in Calls : x # c => calls'[x] = calls[x]
  BY DEF Typed, Moves, Others
<1>2. calls[c].seeded \in Nat /\ Len(Seeds) \in Nat /\ Len(Seeds) > 0
  BY <1>1, SeededTyped, SeedsLong
<1>3. /\ calls'[c].seeded \in {calls[c].seeded, calls[c].seeded + 1}
      /\ calls[c].pc = "starting" => calls'[c].pc = "seeding"
  BY DEF Moves
<1>4. calls[c].pc = "seeding" => calls'[c].pc = "seeding" \/ calls'[c].seeded > 0
  BY <1>2 DEF Moves, KeepsSeeding
<1>5. CASE d = c
  <2>1. calls[c].seeded > 0 => calls'[c].seeded > 0
    BY <1>2, <1>3
  <2> QED BY <1>3, <1>4, <1>5, <2>1 DEF Starts
<1>6. CASE d # c
  BY <1>1, <1>6 DEF Starts
<1> QED BY <1>5, <1>6

LEMMA OneEngineBefore ==
  ASSUME Typed, NEW c \in Calls, Moves(c), OneEngine' PROVE OneEngine
<1>1. OneEngine <=> \A d, e \in Calls : Starts(d) /\ Starts(e) => d = e
  BY DEF OneEngine, Starts
<1>2. OneEngine' => \A d, e \in Calls : Starts(d)' /\ Starts(e)' => d = e
  BY DEF OneEngine, Starts
<1> QED BY <1>1, <1>2, StartsForEver

\* What was asked is never asked again.
LEMMA RequestKept ==
  ASSUME Typed, NEW c \in Calls, Acts(c), ~Enter(c) PROVE KeepsRequest(c)
<1>1. TypeOK
  BY DEF Typed
<1>2. Started(c) \/ EngineReturned(c) \/ Throw(c) => KeepsRequest(c)
  BY <1>1, StartedEffect, EngineReturnedEffect, ThrowEffect
<1>3. SeedCustomer(c) => KeepsRequest(c)
  BY SeedCustomerEffect
<1>4. SeedPrize(c) => KeepsRequest(c)
  BY SeedPrizeEffect
<1>5. Deposit(c) => KeepsRequest(c)
  BY DepositEffect
<1>6. Debit(c) => KeepsRequest(c)
  BY DebitEffect
<1>7. Transfer(c) => KeepsRequest(c)
  BY TransferEffect
<1>8. GetCustomer(c) => KeepsRequest(c)
  BY GetCustomerEffect
<1>9. Read(c) \/ AskPrizes(c) \/ GetAvailablePrizes(c) => KeepsRequest(c)
  BY ReadEffect, AskPrizesEffect, GetAvailablePrizesEffect
<1> QED BY <1>2, <1>3, <1>4, <1>5, <1>6, <1>7, <1>8, <1>9 DEF Acts

\* A call ends by failing, by its last look at what it was given, or with its prizes.
LEMMA EndsOnlyThere ==
  ASSUME Typed, NEW c \in Calls, Acts(c)
  PROVE  \/ calls'[c].pc \notin {"failed", "answered"}
         \/ Throw(c) \/ Read(c) \/ GetAvailablePrizes(c)
<1>1. TypeOK
  BY DEF Typed
<1>2. Enter(c) => calls'[c].pc \notin {"failed", "answered"}
  BY <1>1, EnterEffect
<1>3. Started(c) \/ EngineReturned(c) => calls'[c].pc \notin {"failed", "answered"}
  BY <1>1, StartedEffect, EngineReturnedEffect
<1>4. SeedCustomer(c) => calls'[c].pc = "seeding"
  BY SeedCustomerEffect
<1>5. SeedPrize(c) => calls'[c].pc = "seeding"
  BY SeedPrizeEffect
<1>6. Deposit(c) => calls'[c].pc = "reply"
  BY DepositEffect
<1>7. Debit(c) => calls'[c].pc = "reply"
  BY DebitEffect
<1>8. Transfer(c) => calls'[c].pc = "reply"
  BY TransferEffect
<1>9. GetCustomer(c) => calls'[c].pc = "reply"
  BY GetCustomerEffect
<1>10. AskPrizes(c) => calls'[c].pc = "prizes"
  BY AskPrizesEffect
<1> QED BY <1>2, <1>3, <1>4, <1>5, <1>6, <1>7, <1>8, <1>9, <1>10 DEF Acts

\* The engine of the one call that started one is in the field.
LEMMA TheOneEngine ==
  ASSUME Typed, OneEngine, field # NoEngine, NEW d \in Calls, Starts(d)
  PROVE  d = field /\ field \in Calls /\ calls[d].pc # "starting"
<1>1. field \in Calls /\ calls[field].pc # "starting"
  BY RecordTyped DEF Typed, FieldStarted
<1>2. Starts(field)
  BY DEF Typed, FieldStarted, Starts
<1>3. OneEngine <=> \A x, y \in Calls : Starts(x) /\ Starts(y) => x = y
  BY DEF OneEngine, Starts
<1> QED BY <1>1, <1>2, <1>3

LEMMA Complete ==
  ASSUME Settled, EngineReady, OneEngine
  PROVE  /\ field # NoEngine /\ field \in Calls
         /\ \A i \in DOMAIN Seeds : db[field].customers[Seeds[i].id] # Nobody
         /\ db[field].prizes = Prizes
<1>1. PICK d \in Calls : /\ calls[d].pc \notin Waiting /\ calls[d].seeded = Len(Seeds)
                         /\ calls[d].inserted = Prizes
  BY DEF EngineReady, Waiting
<1>2. Typed /\ TypeOK /\ field # NoEngine
  BY <1>1 DEF Settled, Typed, InPhase, Waiting
<1>3. Starts(d)
  BY <1>1, SeedsLong DEF Starts
<1>4. d = field /\ field \in Calls
  BY <1>2, <1>3, TheOneEngine
<1>5. db[field].prizes \subseteq Prizes
  BY <1>2, <1>4 DEF TypeOK
<1> QED BY <1>1, <1>2, <1>4, <1>5, SeedsLong DEF Settled, SeedsHeld

LEMMA ReadyForEver ==
  ASSUME Typed, NEW c \in Calls, Moves(c), EngineReady PROVE EngineReady'
<1>1. PICK d \in Calls : /\ calls[d].pc \notin Waiting /\ calls[d].seeded = Len(Seeds)
                         /\ calls[d].inserted = Prizes
  BY DEF EngineReady, Waiting
<1>2. /\ calls'[d].pc \notin Waiting /\ calls'[d].seeded = Len(Seeds)
      /\ calls'[d].inserted = Prizes
  BY <1>1 DEF Moves, Others, KeepsSeeding
<1> QED BY <1>2 DEF EngineReady, Waiting

\* An engine loses no customer and no prize, and a seed that was passed is held.
LEMMA EnginesGrow ==
  ASSUME Typed, NEW c \in Calls, Acts(c)
  PROVE  /\ \A e \in Calls, id \in Customers :
              db[e].customers[id] # Nobody => db'[e].customers[id] # Nobody
         /\ \A e \in Calls : db[e].prizes \subseteq db'[e].prizes
         /\ \/ KeepsSeeding(c)
            \/ /\ SeedCustomer(c) /\ UNCHANGED <<field, calls[c].inserted>>
               /\ calls'[c].seeded = calls[c].seeded + 1
               /\ db'[field].customers[Seeds[calls[c].seeded + 1].id] # Nobody
            \/ /\ SeedPrize(c) /\ UNCHANGED <<field, calls[c].seeded>>
               /\ \E p \in Prizes : /\ calls'[c].inserted = calls[c].inserted \cup {p}
                                    /\ p \in db'[field].prizes
<1>1. /\ TypeOK /\ Nobody \notin Objects
      /\ db \in [Calls -> [customers : [Customers -> Objects \cup {Nobody}],
                           prizes : SUBSET Prizes]]
  BY NamesAssumption DEF Typed, TypeOK
<1>2. CASE SeedCustomer(c)
  <2> DEFINE i == calls[c].seeded + 1
             id == Seeds[i].id
             points == Seeds[i].points
             o == <<c, id>>
             x == UpsertedObject(field, id, o)
  <2>1. /\ field \in Calls /\ id \in Customers /\ points \in Bank!Ints /\ UNCHANGED field
        /\ Upsert(field, id, points, o) /\ o \in Objects
        /\ calls'[c].seeded = i /\ UNCHANGED calls[c].inserted
    BY <1>2, SeedCustomerEffect
  <2> HIDE DEF id, points, o
  <2>2. /\ x \in Objects /\ db'[field].customers[id] = x
        /\ \A f \in Calls, jd \in Customers :
              (f # field \/ jd # id) => db'[f].customers[jd] = db[f].customers[jd]
        /\ \A f \in Calls : db'[f].prizes = db[f].prizes
    BY <1>1, <2>1, UpsertEffect
  <2> HIDE DEF x
  <2>3. \A e \in Calls, jd \in Customers :
          db[e].customers[jd] # Nobody => db'[e].customers[jd] # Nobody
    BY <1>1, <2>2
  <2> QED BY <1>1, <1>2, <2>1, <2>2, <2>3 DEF id
<1>3. CASE Deposit(c)
  <2> DEFINE e == calls[c].engine
             id == calls[c].op.id
             points == calls[c].op.points
             o == <<c, "own">>
             x == UpsertedObject(e, id, o)
  <2>1. /\ points \in Bank!Ints /\ KeepsSeeding(c)
        /\ Upsert(e, id, points, o) /\ calls[c].pc = "execute"
    BY <1>3, DepositEffect
  <2>2. e \in Calls /\ id \in Customers /\ o \in Objects
    BY <2>1, ExecutingHas DEF Roles
  <2> HIDE DEF e, id, points, o
  <2>3. /\ x \in Objects /\ db'[e].customers[id] = x
        /\ \A f \in Calls, jd \in Customers :
              (f # e \/ jd # id) => db'[f].customers[jd] = db[f].customers[jd]
        /\ \A f \in Calls : db'[f].prizes = db[f].prizes
    BY <1>1, <2>1, <2>2, UpsertEffect
  <2> QED BY <1>1, <2>1, <2>3
<1>4. CASE Debit(c)
  <2> DEFINE e == calls[c].engine
             id == calls[c].op.id
             o == <<c, "own">>
  <2>1. /\ o \in Objects /\ KeepsSeeding(c) /\ db'[e].customers[id] = o
        /\ \A f \in Calls, jd \in Customers :
              (f # e \/ jd # id) => db'[f].customers[jd] = db[f].customers[jd]
        /\ \A f \in Calls : db'[f].prizes = db[f].prizes
    BY <1>4, DebitEffect
  <2> HIDE DEF e, id, o
  <2> QED BY <1>1, <2>1
<1>5. CASE Transfer(c)
  <2> DEFINE e == calls[c].engine
             from == calls[c].op.id
             to == calls[c].op.to
             s == <<c, "sender">>
             r == <<c, "receiver">>
  <2>1. /\ s \in Objects /\ r \in Objects /\ KeepsSeeding(c) /\ db'[e].customers[to] = r
        /\ from # to => db'[e].customers[from] = s
        /\ \A f \in Calls, jd \in Customers :
              (f # e \/ (jd # from /\ jd # to)) =>
                 db'[f].customers[jd] = db[f].customers[jd]
        /\ \A f \in Calls : db'[f].prizes = db[f].prizes
    BY <1>5, TransferEffect
  <2> HIDE DEF e, from, to, s, r
  <2> QED BY <1>1, <2>1
<1>6. CASE SeedPrize(c)
  <2>1. /\ UNCHANGED <<field, calls[c].seeded>> /\ KeepsCustomers /\ field \in Calls
        /\ \A e \in Calls : db[e].prizes \subseteq db'[e].prizes
    BY <1>1, <1>6, SeedPrizeEffect DEF SeedPrize
  <2>2. PICK p \in Prizes : /\ calls'[c].inserted = calls[c].inserted \cup {p}
                            /\ db'[field].prizes = db[field].prizes \cup {p}
    BY <1>6, SeedPrizeEffect
  <2> QED BY <1>6, <2>1, <2>2 DEF KeepsCustomers
<1>7. CASE \/ Enter(c) \/ Started(c) \/ EngineReturned(c) \/ GetCustomer(c) \/ Throw(c)
           \/ Read(c) \/ AskPrizes(c) \/ GetAvailablePrizes(c)
  <2>1. UNCHANGED db
    BY <1>7 DEF Enter, Started, EngineReturned, GetCustomer, Throw, Read, AskPrizes,
                GetAvailablePrizes
  <2>2. KeepsSeeding(c)
    BY <1>1, <1>7, EnterEffect, StartedEffect, EngineReturnedEffect, GetCustomerEffect,
       ThrowEffect, ReadEffect, AskPrizesEffect, GetAvailablePrizesEffect
  <2> QED BY <2>1, <2>2
<1> QED BY <1>2, <1>3, <1>4, <1>5, <1>6, <1>7 DEF Acts

LEMMA NextSeeded ==
  ASSUME Settled, NEW c \in Calls, Acts(c), Moves(c), Typed'
  PROVE  SeededThrough' /\ SeedsHeld'
<1>1. Typed /\ TypeOK /\ \A d \in Calls : d # c => calls'[d] = calls[d]
  BY DEF Settled, Typed, Moves, Others
<1>2. SeededThrough'
  <2>1. ASSUME calls'[c].pc \notin Waiting, calls'[c].seeded > 0
        PROVE  calls'[c].seeded = Len(Seeds) /\ calls'[c].inserted = Prizes
    <3>1. CASE calls[c].pc \notin Waiting
      BY <2>1, <3>1 DEF Moves, KeepsSeeding, Settled, SeededThrough
    <3>2. CASE calls[c].pc = "seeding"
      BY <2>1, <3>2 DEF Moves, KeepsSeeding, Waiting
    <3>3. CASE calls[c].pc = "starting"
      BY <2>1, <3>3 DEF Moves, Waiting
    <3>4. CASE calls[c].pc = "idle"
      <4>1. Enter(c)
        BY <3>4 DEF Acts, Started, SeedCustomer, SeedPrize, EngineReturned, Deposit, Debit,
           Transfer, GetCustomer, Throw, Read, AskPrizes, GetAvailablePrizes, Executing
      <4>2. calls'[c].seeded = 0
        BY <1>1, <3>4, <4>1, EnterEffect DEF KeepsSeeding, Typed, InPhase
      <4> QED BY <2>1, <4>2
    <3> QED BY <3>1, <3>2, <3>3, <3>4 DEF Waiting
  <2> QED BY <1>1, <2>1 DEF Settled, SeededThrough
<1>3. ASSUME OneEngine', field' # NoEngine
      PROVE  /\ \A i \in 1 .. calls'[field'].seeded : db'[field'].customers[Seeds[i].id] # Nobody
             /\ calls'[field'].inserted \subseteq db'[field'].prizes
  <2>1. OneEngine
    BY <1>1, <1>3, OneEngineBefore
  <2>2. CASE calls[c].pc = "starting" /\ field' = c
    <3>1. Started(c)
      BY <2>2 DEF Acts, Enter, SeedCustomer, SeedPrize, EngineReturned, Deposit, Debit,
         Transfer, GetCustomer, Throw, Read, AskPrizes, GetAvailablePrizes, Executing
    <3>2. calls'[c].seeded = 0 /\ calls'[c].inserted = {}
      BY <1>1, <2>2, <3>1, StartedEffect DEF KeepsSeeding, Typed, InPhase
    <3> QED BY <2>2, <3>2
  <2>3. CASE UNCHANGED field
    <3>1. /\ field \in Calls
          /\ \A i \in 1 .. calls[field].seeded : db[field].customers[Seeds[i].id] # Nobody
          /\ calls[field].inserted \subseteq db[field].prizes
      BY <1>1, <1>3, <2>1, <2>3, RecordTyped DEF Settled, SeedsHeld
    <3>2. /\ calls[field].seeded \in 0 .. Len(Seeds)
          /\ \A i \in 1 .. calls[field].seeded : Seeds[i].id \in Customers
      BY <1>1, <3>1, SeededTyped, SeedTyped, SeedsLong
    <3>3. /\ \A i \in 1 .. calls[field].seeded : db'[field].customers[Seeds[i].id] # Nobody
          /\ calls[field].inserted \subseteq db'[field].prizes
      BY <1>1, <3>1, <3>2, EnginesGrow
    <3>4. CASE KeepsSeeding(c) \/ field # c
      <4>1. calls'[field].seeded = calls[field].seeded
            /\ calls'[field].inserted = calls[field].inserted
        BY <1>1, <3>1, <3>4 DEF KeepsSeeding
      <4> QED BY <2>3, <3>3, <4>1
    <3>5. CASE /\ field = c /\ UNCHANGED calls[c].inserted
               /\ calls'[c].seeded = calls[c].seeded + 1
               /\ db'[field].customers[Seeds[calls[c].seeded + 1].id] # Nobody
      <4>1. \A i \in 1 .. calls'[c].seeded : i \in 1 .. calls[c].seeded \/ i = calls[c].seeded + 1
        BY <3>2, <3>5, SeedsLong
      <4> QED BY <2>3, <3>3, <3>5, <4>1
    <3>6. CASE /\ field = c /\ UNCHANGED calls[c].seeded
               /\ \E p \in Prizes : /\ calls'[c].inserted = calls[c].inserted \cup {p}
                                    /\ p \in db'[field].prizes
      BY <2>3, <3>3, <3>6
    <3> QED BY <1>1, <3>4, <3>5, <3>6, EnginesGrow
  <2> QED BY <2>2, <2>3 DEF Moves
<1>4. SeedsHeld'
  BY <1>3 DEF SeedsHeld
<1> QED BY <1>2, <1>4

LEMMA LateKept ==
  ASSUME Settled, NEW c \in Calls, Acts(c), Moves(c), Typed', SeededThrough', SeedsHeld'
  PROVE  LateInHand'
<1>1. Typed /\ TypeOK /\ \A d \in Calls : d # c => calls'[d] = calls[d]
  BY DEF Settled, Typed, Moves, Others
<1>2. ASSUME EngineReady, OneEngine' PROVE UNCHANGED field /\ OneEngine
  <2>1. OneEngine
    BY <1>1, <1>2, OneEngineBefore
  <2>2. field # NoEngine
    BY <1>2, <2>1, Complete
  <2>3. calls[c].pc # "starting"
    BY <1>1, <2>1, <2>2, TheOneEngine DEF Starts
  <2> QED BY <2>1, <2>3 DEF Moves
<1>3. ASSUME NEW d \in Calls, d # c, calls'[d].late
      PROVE  /\ EngineReady' /\ calls'[d].pc \notin Waiting
             /\ OneEngine' => calls'[d].engine = field'
  <2>1. /\ EngineReady /\ calls[d].pc \notin Waiting /\ calls'[d] = calls[d]
        /\ OneEngine => calls[d].engine = field
    BY <1>1, <1>3 DEF Settled, LateInHand
  <2>2. EngineReady'
    BY <1>1, <2>1, ReadyForEver
  <2> QED BY <1>2, <2>1, <2>2
<1>4. ASSUME calls'[c].late
      PROVE  /\ EngineReady' /\ calls'[c].pc \notin Waiting
             /\ OneEngine' => calls'[c].engine = field'
  <2>1. CASE Enter(c)
    <3>1. EngineReady /\ calls'[c].engine = field /\ UNCHANGED field
          /\ calls'[c].pc = IF field = NoEngine THEN "starting" ELSE "execute"
      BY <1>1, <1>4, <2>1, EnterEffect
    <3>2. field # NoEngine
      BY <1>1, <3>1 DEF EngineReady, Typed, InPhase
    <3>3. EngineReady'
      BY <1>1, <3>1, ReadyForEver
    <3> QED BY <3>1, <3>2, <3>3 DEF Waiting
  <2>2. CASE ~Enter(c)
    <3>1. calls'[c].late = calls[c].late
      BY <1>1, <2>2, RequestKept DEF KeepsRequest
    <3>2. /\ EngineReady /\ calls[c].pc \notin Waiting
          /\ OneEngine => calls[c].engine = field
      BY <1>4, <3>1 DEF Settled, LateInHand
    <3>3. EngineReady' /\ calls'[c].pc \notin Waiting
      BY <1>1, <3>2, ReadyForEver DEF Moves
    <3>4. calls'[c].engine = calls[c].engine \/ calls'[c].engine = field
      BY DEF Moves
    <3> QED BY <1>2, <3>2, <3>3, <3>4
  <2> QED BY <2>1, <2>2
<1> QED BY <1>3, <1>4 DEF LateInHand

\* The customers a call asks for.
Asked(op) == {op.id} \cup (IF op.kind = "loyaltyPointsTransfer" THEN {op.to} ELSE {})

LEMMA LateCallsKept ==
  ASSUME Settled, NEW c \in Calls, Acts(c), Moves(c), Typed', LateInHand'
  PROVE  LateCallsSeeTheSettings'
<1>1. Typed /\ TypeOK /\ \A d \in Calls : d # c => calls'[d] = calls[d]
  BY DEF Settled, Typed, Moves, Others
<1>2. LateCallsSeeTheSettings <=>
        \A d \in Calls : (calls[d].late /\ OneEngine) =>
          /\ (calls[d].pc = "failed") =>
               \E id \in Asked(calls[d].op) : \A i \in DOMAIN Seeds : Seeds[i].id # id
          /\ (calls[d].pc = "answered" /\ WantsPrizes(d)) =>
               calls[d].prizes = Affordable(Prizes, calls[d].limit)
  BY DEF LateCallsSeeTheSettings, Asked
<1>3. LateCallsSeeTheSettings' <=>
        \A d \in Calls : (calls'[d].late /\ OneEngine') =>
          /\ (calls'[d].pc = "failed") =>
               \E id \in Asked(calls'[d].op) : \A i \in DOMAIN Seeds : Seeds[i].id # id
          /\ (calls'[d].pc = "answered" /\ WantsPrizes(d)') =>
               calls'[d].prizes = Affordable(Prizes, calls'[d].limit)
  BY DEF LateCallsSeeTheSettings, Asked
<1>4. OneEngine' => OneEngine
  BY <1>1, OneEngineBefore
<1>5. ASSUME calls'[c].late, OneEngine', calls'[c].pc \in {"failed", "answered"}
      PROVE  /\ (calls'[c].pc = "failed") =>
                  \E id \in Asked(calls'[c].op) : \A i \in DOMAIN Seeds : Seeds[i].id # id
             /\ (calls'[c].pc = "answered" /\ WantsPrizes(c)') =>
                  calls'[c].prizes = Affordable(Prizes, calls'[c].limit)
  <2>1. Throw(c) \/ Read(c) \/ GetAvailablePrizes(c)
    BY <1>1, <1>5, EndsOnlyThere
  <2>2. UNCHANGED calls[c].op /\ calls[c].late
    BY <1>1, <1>5, <2>1, ThrowEffect, ReadEffect, GetAvailablePrizesEffect DEF KeepsRequest
  <2>3. EngineReady /\ calls[c].engine = field
    BY <1>4, <1>5, <2>2 DEF Settled, LateInHand
  <2>4. /\ \A i \in DOMAIN Seeds : db[field].customers[Seeds[i].id] # Nobody
        /\ db[field].prizes = Prizes
    BY <1>4, <1>5, <2>3, Complete
  <2>5. CASE Throw(c)
    <3>1. calls'[c].pc = "failed"
      BY <1>1, <2>5, ThrowEffect
    <3>2. \E id \in Asked(calls[c].op) : ~Holds(c, id)
      BY <2>5 DEF Throw, Asked
    <3>3. \A id : ~Holds(c, id) => \A i \in DOMAIN Seeds : Seeds[i].id # id
      BY <2>3, <2>4 DEF Holds
    <3> QED BY <2>2, <3>1, <3>2, <3>3
  <2>6. CASE Read(c)
    <3>1. ~WantsPrizes(c)' /\ calls'[c].pc # "failed"
      BY <1>1, <1>5, <2>2, <2>6, ReadEffect DEF WantsPrizes, Answering
    <3> QED BY <3>1
  <2>7. CASE GetAvailablePrizes(c)
    <3>1. /\ calls'[c].pc = "answered" /\ UNCHANGED calls[c].limit
          /\ calls'[c].prizes = Affordable(db[field].prizes, calls[c].limit)
      BY <1>1, <2>3, <2>7, GetAvailablePrizesEffect
    <3> QED BY <2>4, <3>1
  <2> QED BY <2>1, <2>5, <2>6, <2>7
<1>6. ASSUME NEW d \in Calls, d # c
      PROVE  calls'[d] = calls[d] /\ (WantsPrizes(d)' <=> WantsPrizes(d))
  BY <1>1, <1>6 DEF WantsPrizes
<1> QED BY <1>2, <1>3, <1>4, <1>5, <1>6 DEF Settled

LEMMA NextSettled == Settled /\ [Next]_vars => Settled'
<1> SUFFICES ASSUME Settled, [Next]_vars PROVE Settled'
  OBVIOUS
<1>1. CASE UNCHANGED vars
  <2>1. Typed'
    BY NextTyped DEF Settled
  <2>2. SeededThrough' /\ SeedsHeld' /\ LateInHand'
    BY <1>1 DEF vars, Settled, SeededThrough, SeedsHeld, LateInHand, OneEngine, EngineReady
  <2>3. LateCallsSeeTheSettings'
    BY <1>1 DEF vars, Settled, LateCallsSeeTheSettings, OneEngine, WantsPrizes
  <2> QED BY <2>1, <2>2, <2>3 DEF Settled
<1>2. ASSUME NEW c \in Calls, Acts(c) PROVE Settled'
  <2>1. Moves(c) /\ Typed'
    BY <1>2, EveryActionMoves, MovesKeepsPhases DEF Settled
  <2> QED BY <1>2, <2>1, NextSeeded, LateKept, LateCallsKept DEF Settled
<1> QED BY <1>1, <1>2, NextActs

\* Unless several calls started an engine, a call that arrives after the seeding
\* (GetCustomerLoyaltyDBEngineAsync) fails for a customer outside the settings
\* only, and lists every prize within its limit.
THEOREM LateCallsFindTheSettings == Spec => []LateCallsSeeTheSettings
<1>1. Init => Settled
  BY InitTyped DEF Init, Fresh, Settled, SeededThrough, SeedsHeld, LateInHand,
     LateCallsSeeTheSettings
<1>2. Settled => LateCallsSeeTheSettings
  BY DEF Settled
<1> QED BY <1>1, <1>2, NextSettled, PTL DEF Spec

-----------------------------------------------------------------------------
(***************************************************************************)
(* Sums.  A sum over a finite set is a recursive function of its subsets;  *)
(* what is needed of it is proved by looking at a smallest subset where it *)
(* would fail.                                                             *)
(***************************************************************************)
Pick(s) == CHOOSE x \in s : TRUE

\* g adds up F over every subset of T.
Adds(g, F, T) ==
  g = [s \in SUBSET T |-> IF s = {} THEN 0 ELSE F[Pick(s)] + g[s \ {Pick(s)}]]

Total(F, S) == (CHOOSE g : Adds(g, F, S))[S]

LEMMA Picked == \A s : s # {} => Pick(s) \in s
BY DEF Pick

LEMMA Smallest ==
  ASSUME NEW S, IsFiniteSet(S), NEW B \in SUBSET SUBSET S, B # {}
  PROVE  \E T \in B : \A U \in B : U \subseteq T => U = T
<1> DEFINE R == StrictSubsetOrdering(S)
<1>1. IsWellFoundedOn(R, SUBSET S)
  BY FS_StrictSubsetOrderingWellFounded, FS_FiniteSubsetsOfFinite
<1>2. \E T \in B : \A U \in B : ~(<<U, T>> \in R)
  BY <1>1, WFMin
<1> QED BY <1>2 DEF StrictSubsetOrdering

LEMMA AddsOnce ==
  ASSUME NEW S, IsFiniteSet(S), NEW F, NEW T \in SUBSET S, NEW U \in SUBSET S,
         NEW g, NEW h, Adds(g, F, T), Adds(h, F, U), NEW s \in SUBSET (T \cap U)
  PROVE  g[s] = h[s]
<1> DEFINE B == {t \in SUBSET (T \cap U) : g[t] # h[t]}
<1> SUFFICES B = {}
  OBVIOUS
<1> SUFFICES ASSUME B # {} PROVE FALSE
  OBVIOUS
<1>1. B \in SUBSET SUBSET S
  OBVIOUS
<1>2. PICK t \in B : \A u \in B : u \subseteq t => u = t
  <2> HIDE DEF B
  <2> QED BY <1>1, Smallest
<1>3. t \in SUBSET T /\ t \in SUBSET U /\ g[t] # h[t]
  OBVIOUS
<1>4. /\ g[t] = IF t = {} THEN 0 ELSE F[Pick(t)] + g[t \ {Pick(t)}]
      /\ h[t] = IF t = {} THEN 0 ELSE F[Pick(t)] + h[t \ {Pick(t)}]
  BY <1>3 DEF Adds
<1>5. t # {} /\ Pick(t) \in t
  BY <1>3, <1>4, Picked
<1>6. g[t \ {Pick(t)}] = h[t \ {Pick(t)}]
  BY <1>2, <1>5
<1> QED BY <1>3, <1>4, <1>5, <1>6

LEMMA AddsExists ==
  ASSUME NEW S, IsFiniteSet(S), NEW F
  PROVE  \E g : Adds(g, F, S)
<1> DEFINE B == {T \in SUBSET S : ~ \E g : Adds(g, F, T)}
<1> SUFFICES B = {}
  OBVIOUS
<1> SUFFICES ASSUME B # {} PROVE FALSE
  OBVIOUS
<1>1. PICK T \in B : \A U \in B : U \subseteq T => U = T
  <2>1. B \in SUBSET SUBSET S
    OBVIOUS
  <2> HIDE DEF B
  <2> QED BY <2>1, Smallest
<1>2. T \in SUBSET S /\ ~ \E g : Adds(g, F, T)
  OBVIOUS
<1> DEFINE G(U) == CHOOSE g : Adds(g, F, U)
           rest(s) == s \ {Pick(s)}
           h == [s \in SUBSET T |-> IF s = {} THEN 0 ELSE F[Pick(s)] + G(rest(s))[rest(s)]]
<1>3. ASSUME NEW U \in SUBSET T, U # T PROVE Adds(G(U), F, U)
  <2>1. U \in SUBSET S /\ U \notin B
    BY <1>1, <1>2, <1>3
  <2>2. \E g : Adds(g, F, U)
    BY <2>1
  <2> QED BY <2>2
<1>4. ASSUME NEW s \in SUBSET T, s # {} PROVE h[rest(s)] = G(rest(s))[rest(s)]
  <2> DEFINE u == rest(s)
  <2>1. Pick(s) \in s /\ u \in SUBSET T /\ u # T
    BY <1>4, Picked
  <2>2. Adds(G(u), F, u)
    BY <1>3, <2>1
  <2>3. G(u)[u] = IF u = {} THEN 0 ELSE F[Pick(u)] + G(u)[rest(u)]
    <3> HIDE DEF u, G
    <3> QED BY <2>2 DEF Adds
  <2>4. CASE u = {}
    BY <2>1, <2>3, <2>4
  <2>5. CASE u # {}
    <3>1. Pick(u) \in u /\ rest(u) \in SUBSET T /\ rest(u) # T
      BY <2>1, <2>5, Picked
    <3>2. Adds(G(rest(u)), F, rest(u))
      BY <1>3, <3>1
    <3>3. rest(u) \in SUBSET (u \cap rest(u)) /\ u \in SUBSET S /\ rest(u) \in SUBSET S
      BY <1>2, <2>1, <3>1
    <3>4. G(u)[rest(u)] = G(rest(u))[rest(u)]
      <4> HIDE DEF u, G, rest
      <4> QED BY <2>2, <3>2, <3>3, AddsOnce
    <3>5. h[u] = F[Pick(u)] + G(rest(u))[rest(u)]
      <4> HIDE DEF u, G, rest
      <4> QED BY <2>1, <2>5
    <3> QED BY <2>3, <2>5, <3>4, <3>5
  <2> QED BY <2>4, <2>5
<1>5. h = [s \in SUBSET T |-> IF s = {} THEN 0 ELSE F[Pick(s)] + h[rest(s)]]
  <2>1. \A s \in SUBSET T : s # {} => h[rest(s)] = G(rest(s))[rest(s)]
    BY <1>4
  <2> HIDE DEF G, rest
  <2>2. ASSUME NEW s \in SUBSET T
        PROVE  h[s] = IF s = {} THEN 0 ELSE F[Pick(s)] + h[rest(s)]
    BY <2>1
  <2> HIDE DEF h
  <2>3. h = [s \in SUBSET T |-> h[s]]
    BY DEF h
  <2> QED BY <2>2, <2>3
<1> HIDE DEF h, G
<1>6. Adds(h, F, T)
  BY <1>5 DEF Adds
<1> QED BY <1>2, <1>6

LEMMA SumChanges ==
  ASSUME NEW S, IsFiniteSet(S), NEW F \in [S -> Int], NEW E \in [S -> Int], NEW c \in S,
         \A x \in S : x # c => E[x] = F[x],
         NEW g, NEW h, Adds(g, F, S), Adds(h, E, S), NEW s \in SUBSET S
  PROVE  g[s] \in Int /\ h[s] = g[s] + (IF c \in s THEN E[c] - F[c] ELSE 0)
<1> DEFINE Good(t) == g[t] \in Int /\ h[t] = g[t] + (IF c \in t THEN E[c] - F[c] ELSE 0)
           B == {t \in SUBSET S : ~Good(t)}
<1> SUFFICES B = {}
  OBVIOUS
<1> SUFFICES ASSUME B # {} PROVE FALSE
  OBVIOUS
<1>1. PICK t \in B : \A u \in B : u \subseteq t => u = t
  <2>1. B \in SUBSET SUBSET S
    OBVIOUS
  <2> HIDE DEF B
  <2> QED BY <2>1, Smallest
<1> DEFINE p == Pick(t)
           u == t \ {p}
<1>2. t \in SUBSET S /\ ~Good(t)
  OBVIOUS
<1>3. /\ g[t] = IF t = {} THEN 0 ELSE F[p] + g[u]
      /\ h[t] = IF t = {} THEN 0 ELSE E[p] + h[u]
  BY <1>2 DEF Adds
<1>4. t # {}
  BY <1>2, <1>3
<1>5. p \in t /\ p \in S /\ u \in SUBSET S /\ u # t
  BY <1>2, <1>4, Picked
<1>6. Good(u)
  <2>1. u \notin B
    BY <1>1, <1>5
  <2> QED BY <1>5, <2>1
<1>7. F[p] \in Int /\ E[p] \in Int /\ F[c] \in Int /\ E[c] \in Int
  BY <1>5
<1>8. (c \in t <=> c \in u \/ p = c) /\ p \notin u
  BY <1>5
<1> HIDE DEF p, u
<1> QED BY <1>2, <1>3, <1>4, <1>5, <1>6, <1>7, <1>8

LEMMA TotalChanges ==
  ASSUME NEW S, IsFiniteSet(S), NEW F \in [S -> Int], NEW E \in [S -> Int], NEW c \in S,
         \A x \in S : x # c => E[x] = F[x]
  PROVE  Total(F, S) \in Int /\ Total(E, S) = Total(F, S) + (E[c] - F[c])
<1> DEFINE g == CHOOSE g : Adds(g, F, S)
           h == CHOOSE h : Adds(h, E, S)
<1>1. Adds(g, F, S) /\ Adds(h, E, S)
  BY AddsExists
<1>2. Total(F, S) = g[S] /\ Total(E, S) = h[S]
  BY DEF Total
<1> HIDE DEF g, h
<1>3. g[S] \in Int /\ h[S] = g[S] + (IF c \in S THEN E[c] - F[c] ELSE 0)
  BY <1>1, SumChanges
<1> QED BY <1>2, <1>3

LEMMA SumOfZeros ==
  ASSUME NEW S, IsFiniteSet(S), NEW F, \A x \in S : F[x] = 0
  PROVE  Total(F, S) = 0
<1> DEFINE g == CHOOSE g : Adds(g, F, S)
           B == {t \in SUBSET S : g[t] # 0}
<1>1. Adds(g, F, S) /\ Total(F, S) = g[S]
  BY AddsExists DEF Total
<1> HIDE DEF g
<1> SUFFICES B = {}
  BY <1>1
<1> SUFFICES ASSUME B # {} PROVE FALSE
  OBVIOUS
<1>2. PICK t \in B : \A u \in B : u \subseteq t => u = t
  <2>1. B \in SUBSET SUBSET S
    OBVIOUS
  <2> HIDE DEF B
  <2> QED BY <2>1, Smallest
<1>3. t \in SUBSET S /\ g[t] # 0
  OBVIOUS
<1>4. g[t] = IF t = {} THEN 0 ELSE F[Pick(t)] + g[t \ {Pick(t)}]
  BY <1>1, <1>3 DEF Adds
<1>5. Pick(t) \in t
  BY <1>3, <1>4, Picked
<1>6. g[t \ {Pick(t)}] = 0 /\ F[Pick(t)] = 0
  BY <1>2, <1>3, <1>5
<1> QED BY <1>3, <1>4, <1>6

-----------------------------------------------------------------------------
(***************************************************************************)
(* Nothing is lost.  While one call only has started an engine, every      *)
(* account holds, wrapped to an int, the seeds its call has passed and the *)
(* effect of every command that has run.                                   *)
(***************************************************************************)
Effects(id) == [c \in Calls |-> Effect(c, id)]

Passed(id) ==
  IF \E i \in 1 .. calls[field].seeded : Seeds[i].id = id THEN SeedOf(id) ELSE 0

Books(id) == Passed(id) + Total(Effects(id), Calls)

\* An account nobody opened has nothing booked; an open one is what was booked.
Matches(account, n) ==
  IF account = NoAccount THEN n = 0 ELSE account = Bank!Int32(n)

Balanced ==
  OneEngine =>
    /\ \A c \in Calls : calls[c].engine \in {NoEngine, field}
    /\ field # NoEngine => \A id \in Customers : Matches(Accounts[id], Books(id))

InBalance == Apart /\ Settled /\ Balanced

LEMMA Divides ==
  ASSUME NEW n \in Int, NEW m \in Nat, m > 0
  PROVE  n \div m \in Int /\ n % m \in 0 .. m - 1 /\ n = m * (n \div m) + (n % m)
OBVIOUS

LEMMA AtLeastOnce ==
  ASSUME NEW m \in Nat, NEW j \in Int, m > 0
  PROVE  (j >= 1 => m * j >= m) /\ (j < 0 => m * j <= -m)
OBVIOUS

\* Two numbers a whole number of times m apart leave the same rest.
LEMMA SameRest ==
  ASSUME NEW b \in Int, NEW k \in Int, NEW m \in Nat, m > 0
  PROVE  (b + m * k) % m = b % m
<1> DEFINE a == b + m * k
           x == a \div m
           y == b \div m
           r == a % m
           s == b % m
           j == (x - y) - k
<1>1. x \in Int /\ y \in Int /\ r \in 0 .. m - 1 /\ s \in 0 .. m - 1
      /\ a = m * x + r /\ b = m * y + s
  <2>1. a \in Int
    OBVIOUS
  <2> HIDE DEF a
  <2> QED BY <2>1, Divides
<1>2. m * x + r = (m * y + s) + m * k
  BY <1>1
<1> HIDE DEF a, x, y, r, s
<1>3. m * j = ((m * x) - (m * y)) - (m * k)
  BY <1>1
<1>4. m * x \in Int /\ m * y \in Int /\ m * k \in Int /\ j \in Int
  BY <1>1
<1>5. m * j = s - r
  BY <1>1, <1>2, <1>3, <1>4
<1> HIDE DEF j
<1>6. m * j < m /\ m * j > -m
  BY <1>1, <1>5
<1>7. j = 0
  BY <1>4, <1>6, AtLeastOnce
<1> QED BY <1>1, <1>5, <1>7 DEF a, r, s

LEMMA WrapsOnce ==
  ASSUME NEW n \in Int, NEW d \in Int
  PROVE  Bank!Int32(Bank!Int32(n) + d) = Bank!Int32(n + d)
<1> DEFINE m == 2 * Half
           q == (n + Half) \div m
           r == (n + Half) % m
<1>1. Half \in Nat /\ m \in Nat /\ m > 0
  BY StoreAssumption
<1>2. q \in Int /\ r \in Int /\ n + Half = m * q + r
  <2> HIDE DEF m
  <2> QED BY <1>1, Divides
<1>3. Bank!Int32(n) = r - Half
  BY DEF Bank!Int32
<1> HIDE DEF q, r
<1>4. (n + d) + Half = ((r - Half) + d) + Half + m * q
  BY <1>1, <1>2
<1>5. ((n + d) + Half) % m = (((r - Half) + d) + Half) % m
  <2> HIDE DEF m
  <2> DEFINE a == (n + d) + Half
             b == ((r - Half) + d) + Half
  <2>1. a \in Int /\ b \in Int /\ a = b + m * q
    BY <1>1, <1>2, <1>4
  <2> HIDE DEF a, b
  <2>2. a % m = b % m
    <3>1. b \in Int /\ q \in Int /\ m \in Nat /\ m > 0 /\ a = b + m * q
      BY <1>1, <1>2, <2>1
    <3>2. (b + m * q) % m = b % m
      BY <3>1, SameRest
    <3> QED BY <3>1, <3>2
  <2> QED BY <2>2 DEF a, b
<1> QED BY <1>3, <1>5 DEF Bank!Int32

\* A step that adds d to an account and books d keeps the two together.
LEMMA Booked ==
  ASSUME NEW a \in Bank!Ints \cup {NoAccount}, NEW n \in Int, NEW d \in Int, Matches(a, n)
  PROVE  Matches(Bank!Int32((IF a = NoAccount THEN 0 ELSE a) + d), n + d)
<1>1. NoAccount \notin Int /\ Bank!Int32(n + d) \in Bank!Ints /\ Bank!Ints \subseteq Int
  BY Wraps, StoreAssumption, IntsAreInts
<1>2. CASE a = NoAccount
  <2>1. n + d = 0 + d
    BY <1>2 DEF Matches
  <2> QED BY <1>1, <1>2, <2>1 DEF Matches
<1>3. CASE a # NoAccount
  <2>1. a = Bank!Int32(n)
    BY <1>3 DEF Matches
  <2>2. Bank!Int32(a + d) = Bank!Int32(n + d)
    BY <2>1, WrapsOnce
  <2> QED BY <1>1, <1>3, <2>2 DEF Matches
<1> QED BY <1>2, <1>3

\* The phases in which a command has done nothing.
Idling == {"idle", "starting", "seeding", "execute", "failed"}

\* The effect of a call, read off its record.
Wanted(op, id) ==
  CASE op.kind = "customerLoyalty" -> 0
    [] op.kind = "customer" -> IF id = op.id THEN op.points ELSE 0
    [] op.kind = "debit" -> IF id = op.id THEN 0 - op.points ELSE 0
    [] op.kind = "loyaltyPointsTransfer" ->
         IF id = op.to THEN op.points
         ELSE IF id = op.id THEN 0 - op.points ELSE 0

EffectOf(call, id) == IF call.pc \in Idling THEN 0 ELSE Wanted(call.op, id)

LEMMA EffectIs == \A c, id : Effect(c, id) = EffectOf(calls[c], id)
BY DEF Effect, EffectOf, Wanted, Idling

LEMMA NextEffectIs == (\A c, id : Effect(c, id) = EffectOf(calls[c], id))'
BY EffectIs, PTL

LEMMA OperationHas ==
  ASSUME NEW op \in Operations
  PROVE  /\ op.kind \in {"customer", "debit", "customerLoyalty", "loyaltyPointsTransfer"}
         /\ op.kind # "customerLoyalty" => op.points \in Int
<1>1. Amounts \subseteq Int
  BY StoreAssumption
<1>2. CASE op \in [kind : {"customer", "debit"}, id : Customers, points : Amounts]
  BY <1>1, <1>2
<1>3. CASE op \in [kind : {"loyaltyPointsTransfer"}, id : Customers,
                   to : Customers, points : Amounts]
  BY <1>1, <1>3
<1>4. CASE op \in [kind : {"customerLoyalty"}, id : Customers, prizes : BOOLEAN]
  BY <1>4
<1> QED BY <1>2, <1>3, <1>4 DEF Operations

LEMMA EffectOfIsANumber ==
  ASSUME NEW call, call.pc \notin Idling => call.op \in Operations, NEW id
  PROVE  EffectOf(call, id) \in Int
<1>1. CASE call.pc \in Idling
  BY <1>1 DEF EffectOf
<1>2. CASE call.pc \notin Idling
  <2> DEFINE op == call.op
  <2>2. /\ op.kind \in {"customer", "debit", "customerLoyalty", "loyaltyPointsTransfer"}
        /\ op.kind # "customerLoyalty" => op.points \in Int
    BY <1>2, OperationHas
  <2>3. op.kind # "customerLoyalty" => 0 - op.points \in Int
    BY <2>2
  <2> QED BY <1>2, <2>2, <2>3 DEF EffectOf, Wanted
<1> QED BY <1>1, <1>2

Numbers == \A c \in Calls, id \in Customers : Effect(c, id) \in Int

LEMMA EffectsAreNumbers == Typed => Numbers
BY EffectIs, EffectOfIsANumber DEF Typed, InPhase, Idling, Numbers

LEMMA BooksAreNumbers ==
  ASSUME Typed, NEW id \in Customers
  PROVE  /\ Effects(id) \in [Calls -> Int]
         /\ Calls # {} => Total(Effects(id), Calls) \in Int
         /\ Passed(id) \in Int
<1>1. Effects(id) \in [Calls -> Int]
  BY EffectsAreNumbers DEF Effects, Numbers
<1>2. ASSUME Calls # {} PROVE Total(Effects(id), Calls) \in Int
  <2>1. PICK c \in Calls : TRUE
    BY <1>2
  <2> QED BY <1>1, StoreAssumption, TotalChanges
<1>3. Passed(id) \in Int
  <2>1. SeedOf(id) \in Int
    <3>1. \A i \in DOMAIN Seeds : Seeds[i].points \in Int
      BY SeedTyped, SeedsLong, IntsAreInts
    <3> QED BY <3>1 DEF SeedOf
  <2> QED BY <2>1 DEF Passed
<1> QED BY <1>1, <1>2, <1>3

\* The books after a step of c that passes no seed: what c's command did.
LEMMA StepBooked ==
  ASSUME Typed, Typed', NEW c \in Calls, Others(c), KeepsSeeding(c), UNCHANGED field,
         field \in Calls, NEW id \in Customers
  PROVE  Books(id) \in Int /\ Books(id)' = Books(id) + (Effect(c, id)' - Effect(c, id))
<1>1. Passed(id)' = Passed(id) /\ Passed(id) \in Int
  <2>1. calls'[field].seeded = calls[field].seeded
    BY DEF Others, KeepsSeeding
  <2> QED BY <2>1, BooksAreNumbers DEF Passed
<1> DEFINE F == Effects(id)
           E == Effects(id)'
<1>2. F \in [Calls -> Int] /\ E \in [Calls -> Int]
  <2>1. \A d \in Calls : Effect(d, id) \in Int
    BY EffectsAreNumbers DEF Numbers
  <2>2. Numbers'
    BY EffectsAreNumbers, PTL
  <2> QED BY <2>1, <2>2 DEF Effects, Numbers
<1>3. \A d \in Calls : d # c => E[d] = F[d]
  <2>1. \A d \in Calls : d # c => Effect(d, id)' = Effect(d, id)
    BY EffectIs, NextEffectIs DEF Others
  <2> QED BY <2>1 DEF Effects
<1>4. F[c] = Effect(c, id) /\ E[c] = Effect(c, id)'
  BY DEF Effects
<1>5. Books(id) = Passed(id) + Total(F, Calls) /\ Books(id)' = Passed(id)' + Total(E, Calls)
  BY DEF Books
<1>6. F[c] \in Int /\ E[c] \in Int
  BY <1>2
<1> HIDE DEF F, E
<1>7. Total(F, Calls) \in Int /\ Total(E, Calls) = Total(F, Calls) + (E[c] - F[c])
  BY <1>2, <1>3, StoreAssumption, TotalChanges
<1> QED BY <1>1, <1>4, <1>5, <1>6, <1>7

\* What happens to the account happens to the books.
LEMMA StaysMatched ==
  ASSUME InBalance, OneEngine, field \in Calls, UNCHANGED field, NEW id \in Customers,
         NEW d \in Int, Books(id) \in Int, Books(id)' = Books(id) + d,
         \/ d = 0 /\ Accounts'[id] = Accounts[id]
         \/ Accounts'[id] =
              Bank!Int32((IF Accounts[id] = NoAccount THEN 0 ELSE Accounts[id]) + d)
  PROVE  Matches(Accounts'[id], Books(id)')
<1>1. Matches(Accounts[id], Books(id)) /\ field # NoEngine
  BY StoreAssumption DEF InBalance, Balanced
<1>2. Accounts[id] \in Bank!Ints \cup {NoAccount}
  BY <1>1, AccountsAre DEF InBalance, Apart, Typed
<1> DEFINE a == Accounts[id]
           n == Books(id)
<1>3. CASE d = 0 /\ Accounts'[id] = a
  BY <1>1, <1>3
<1>4. CASE Accounts'[id] = Bank!Int32((IF a = NoAccount THEN 0 ELSE a) + d)
  <2>1. Matches(a, n) /\ n \in Int /\ a \in Bank!Ints \cup {NoAccount}
    BY <1>1, <1>2
  <2> HIDE DEF a, n
  <2>2. Matches(Bank!Int32((IF a = NoAccount THEN 0 ELSE a) + d), n + d)
    BY <2>1, Booked
  <2> QED BY <1>4, <2>2 DEF a, n
<1> QED BY <1>3, <1>4

\* Seeds, reads and fetches move no command's effect.
LEMMA NothingBooked ==
  ASSUME InBalance, OneEngine, Typed', NEW c \in Calls, Others(c), KeepsSeeding(c), UNCHANGED field,
         field \in Calls, UNCHANGED Accounts, NEW id \in Customers,
         Effect(c, id)' = Effect(c, id)
  PROVE  Matches(Accounts'[id], Books(id)')
<1>1. Typed
  BY DEF InBalance, Apart
<1>2. Books(id) \in Int /\ Books(id)' = Books(id) + (Effect(c, id)' - Effect(c, id))
  BY <1>1, StepBooked
<1>3. Effect(c, id) \in Int
  BY <1>1, EffectsAreNumbers DEF Numbers
<1>4. Books(id)' = Books(id) + 0
  BY <1>2, <1>3
<1> QED BY <1>2, <1>4, StaysMatched

\* A command books its effect.
LEMMA CommandBooked ==
  ASSUME InBalance, OneEngine, Typed', NEW c \in Calls, Others(c), KeepsSeeding(c),
         UNCHANGED field, field \in Calls, calls[c].pc = "execute", NEW id \in Customers,
         NEW d \in Int, Effect(c, id)' = d,
         \/ d = 0 /\ Accounts'[id] = Accounts[id]
         \/ Accounts'[id] =
              Bank!Int32((IF Accounts[id] = NoAccount THEN 0 ELSE Accounts[id]) + d)
  PROVE  Matches(Accounts'[id], Books(id)')
<1>1. Typed
  BY DEF InBalance, Apart
<1>2. Books(id) \in Int /\ Books(id)' = Books(id) + (Effect(c, id)' - Effect(c, id))
  BY <1>1, StepBooked
<1>3. Effect(c, id) = 0
  BY DEF Effect
<1>4. Books(id)' = Books(id) + d
  BY <1>2, <1>3
<1> QED BY <1>2, <1>4, StaysMatched

LEMMA DepositBooked ==
  ASSUME InBalance, OneEngine, Typed', NEW c \in Calls, Deposit(c), NEW id \in Customers
  PROVE  Matches(Accounts'[id], Books(id)')
<1>0. Typed /\ TypeOK /\ TypeOK'
  BY DEF InBalance, Apart, Typed
<1> DEFINE e == calls[c].engine
           jd == calls[c].op.id
           points == calls[c].op.points
           o == <<c, "own">>
           d == IF id = jd THEN points ELSE 0
<1>1. /\ points \in Bank!Ints /\ UNCHANGED field
      /\ Upsert(e, jd, points, o) /\ calls[c].pc = "execute" /\ calls[c].op.kind = "customer"
      /\ Others(c) /\ KeepsSeeding(c) /\ KeepsRequest(c) /\ calls'[c].pc = "reply"
  BY <1>0, DepositEffect
<1>2. e \in Calls /\ jd \in Customers /\ o \in Objects /\ field \in Calls
  BY <1>0, <1>1, ExecutingHas, RecordTyped DEF Roles, Typed, InPhase
<1>3. e = field
  BY <1>2, StoreAssumption DEF InBalance, Balanced
<1>4. \A f \in Calls, x \in Customers : db[f].customers[x] # o
  BY <1>1, NewObjects DEF Roles, InBalance
<1>5. Bank!Deposit(jd, points)
  <2> HIDE DEF e, jd, points, o
  <2> QED BY <1>0, <1>1, <1>2, <1>3, <1>4, UpsertIsADeposit DEF InBalance
<1>6. Effect(c, id)' = d
  BY <1>1, NextEffectIs DEF EffectOf, Wanted, Idling, KeepsRequest
<1>7. d \in Int
  BY <1>1, IntsAreInts
<1>8. \/ d = 0 /\ Accounts'[id] = Accounts[id]
      \/ Accounts'[id] =
           Bank!Int32((IF Accounts[id] = NoAccount THEN 0 ELSE Accounts[id]) + d)
  <2>1. Accounts = [x \in Customers |-> Accounts[x]]
    BY DEF Accounts
  <2> QED BY <1>2, <1>5, <2>1 DEF Bank!Deposit
<1> HIDE DEF d
<1> QED BY <1>1, <1>2, <1>6, <1>7, <1>8, CommandBooked

LEMMA DebitBooked ==
  ASSUME InBalance, OneEngine, Typed', NEW c \in Calls, Debit(c), NEW id \in Customers
  PROVE  Matches(Accounts'[id], Books(id)')
<1>0. Typed /\ TypeOK /\ TypeOK'
  BY DEF InBalance, Apart, Typed
<1> DEFINE jd == calls[c].op.id
           points == calls[c].op.points
           d == IF id = jd THEN 0 - points ELSE 0
<1>1. /\ UNCHANGED field /\ calls[c].pc = "execute" /\ calls[c].op.kind = "debit"
      /\ Others(c) /\ KeepsSeeding(c) /\ KeepsRequest(c) /\ calls'[c].pc = "reply"
  BY <1>0, DebitEffect
<1>2. /\ calls[c].engine \in Calls /\ jd \in Customers /\ field \in Calls
      /\ points \in Int
  BY <1>0, <1>1, ExecutingHas, RecordTyped, IntsAreInts DEF Typed, InPhase
<1>3. calls[c].engine = field
  BY <1>2, StoreAssumption DEF InBalance, Balanced
<1>5. Bank!Debit(jd, points)
  BY <1>0, <1>3, DebitIsADebit DEF InBalance
<1>6. Effect(c, id)' = d
  BY <1>1, NextEffectIs DEF EffectOf, Wanted, Idling, KeepsRequest
<1>7. d \in Int
  BY <1>2
<1>8. \/ d = 0 /\ Accounts'[id] = Accounts[id]
      \/ Accounts'[id] =
           Bank!Int32((IF Accounts[id] = NoAccount THEN 0 ELSE Accounts[id]) + d)
  <2>1. Accounts = [x \in Customers |-> Accounts[x]]
    BY DEF Accounts
  <2>2. Accounts[jd] # NoAccount /\ Accounts' = [Accounts EXCEPT ![jd] = Bank!Int32(@ - points)]
    BY <1>5 DEF Bank!Debit
  <2>3. CASE id = jd
    <3>1. Accounts[jd] \in Int
      <4>1. Accounts[jd] \in Bank!Ints
        BY <1>0, <1>2, <2>2, AccountsAre, StoreAssumption
      <4> QED BY <4>1, IntsAreInts
    <3>2. Accounts[jd] - points = Accounts[jd] + d
      BY <1>2, <2>3, <3>1
    <3> QED BY <2>1, <2>2, <2>3, <3>2
  <2>4. CASE id # jd
    BY <2>1, <2>2, <2>4
  <2> QED BY <2>3, <2>4
<1> HIDE DEF d
<1> QED BY <1>1, <1>2, <1>6, <1>7, <1>8, CommandBooked

LEMMA TransferBooked ==
  ASSUME InBalance, OneEngine, Typed', NEW c \in Calls, Transfer(c), NEW id \in Customers
  PROVE  Matches(Accounts'[id], Books(id)')
<1>0. Typed /\ TypeOK /\ TypeOK'
  BY DEF InBalance, Apart, Typed
<1> DEFINE from == calls[c].op.id
           to == calls[c].op.to
           points == calls[c].op.points
           d == IF id = to THEN points ELSE IF id = from THEN 0 - points ELSE 0
<1>1. /\ UNCHANGED field /\ calls[c].pc = "execute"
      /\ calls[c].op.kind = "loyaltyPointsTransfer"
      /\ Others(c) /\ KeepsSeeding(c) /\ KeepsRequest(c) /\ calls'[c].pc = "reply"
  BY <1>0, TransferEffect
<1>2. /\ calls[c].engine \in Calls /\ from \in Customers /\ to \in Customers /\ field \in Calls
      /\ points \in Int
  BY <1>0, <1>1, ExecutingHas, RecordTyped, IntsAreInts DEF Typed, InPhase
<1>3. calls[c].engine = field
  BY <1>2, StoreAssumption DEF InBalance, Balanced
<1>5. IF from = to THEN Bank!Deposit(to, points) ELSE Bank!Transfer(from, to, points)
  BY <1>0, <1>3, TransferIsATransfer DEF InBalance
<1>6. Effect(c, id)' = d
  BY <1>1, NextEffectIs DEF EffectOf, Wanted, Idling, KeepsRequest
<1>7. d \in Int
  BY <1>2
<1>8. \/ d = 0 /\ Accounts'[id] = Accounts[id]
      \/ Accounts'[id] =
           Bank!Int32((IF Accounts[id] = NoAccount THEN 0 ELSE Accounts[id]) + d)
  <2>1. Accounts = [x \in Customers |-> Accounts[x]]
    BY DEF Accounts
  <2>2. CASE from = to
    BY <1>2, <1>5, <2>1, <2>2 DEF Bank!Deposit
  <2>3. CASE from # to
    <3>1. /\ Accounts[from] # NoAccount /\ Accounts[to] # NoAccount
          /\ Accounts' = [Accounts EXCEPT ![from] = Bank!Int32(@ - points),
                                          ![to] = Bank!Int32(@ + points)]
      BY <1>5, <2>3 DEF Bank!Transfer
    <3>2. Accounts[from] \in Int
      <4>1. Accounts[from] \in Bank!Ints
        BY <1>0, <1>2, <3>1, AccountsAre, StoreAssumption
      <4> QED BY <4>1, IntsAreInts
    <3>3. Accounts[from] - points = Accounts[from] + (0 - points)
      BY <1>2, <3>2
    <3> HIDE DEF from, to, points
    <3>4. CASE id = to
      BY <2>1, <2>3, <3>1, <3>4
    <3>5. CASE id = from
      BY <2>1, <2>3, <3>1, <3>3, <3>5
    <3>6. CASE id # to /\ id # from
      BY <2>1, <2>3, <3>1, <3>6
    <3> QED BY <3>4, <3>5, <3>6
  <2> QED BY <2>2, <2>3
<1> HIDE DEF d
<1> QED BY <1>1, <1>2, <1>6, <1>7, <1>8, CommandBooked

\* A seed is passed once, and books its points.
LEMMA SeedPassed ==
  ASSUME Typed, NEW c \in Calls, SeedCustomer(c), field = c, NEW id \in Customers
  PROVE  LET i == calls[c].seeded + 1 IN
         Passed(id)' = Passed(id) + (IF Seeds[i].id = id THEN Seeds[i].points ELSE 0)
<1> DEFINE i == calls[c].seeded + 1
<1>1. /\ i \in DOMAIN Seeds /\ calls'[c].seeded = i /\ UNCHANGED field
      /\ calls[c].seeded \in Nat
  BY SeedCustomerEffect, SeededTyped DEF Typed
<1>2. Passed(id)' = IF \E k \in 1 .. i : Seeds[k].id = id THEN SeedOf(id) ELSE 0
  BY <1>1 DEF Passed
<1>3. Passed(id) = IF \E k \in 1 .. calls[c].seeded : Seeds[k].id = id THEN SeedOf(id) ELSE 0
  BY DEF Passed
<1>4. i \in Nat /\ 1 .. i = (1 .. calls[c].seeded) \cup {i} /\ i \notin 1 .. calls[c].seeded
      /\ 1 .. i \subseteq DOMAIN Seeds
  BY <1>1, SeedsLong
<1>5. \A k \in DOMAIN Seeds : Seeds[k].points \in Int
  BY SeedTyped, SeedsLong, IntsAreInts
<1>6. SeedOf(id) \in Int
  BY <1>5 DEF SeedOf
<1>7. CASE Seeds[i].id = id
  <2>1. \A k \in DOMAIN Seeds : Seeds[k].id = id => k = i
    BY <1>1, <1>7, SeedsAssumption
  <2>2. SeedOf(id) = Seeds[i].points
    BY <1>1, <1>7, <2>1 DEF SeedOf
  <2>3. Passed(id)' = SeedOf(id) /\ Passed(id) = 0
    BY <1>2, <1>3, <1>4, <1>7, <2>1
  <2> QED BY <1>6, <1>7, <2>2, <2>3
<1>8. CASE Seeds[i].id # id
  <2>1. Passed(id)' = Passed(id) /\ Passed(id) \in Int
    BY <1>2, <1>3, <1>4, <1>6, <1>8
  <2> QED BY <1>8, <2>1
<1> QED BY <1>7, <1>8

LEMMA SeedBooked ==
  ASSUME InBalance, OneEngine, Typed', NEW c \in Calls, SeedCustomer(c), NEW id \in Customers
  PROVE  Matches(Accounts'[id], Books(id)')
<1>0. Typed /\ TypeOK /\ TypeOK'
  BY DEF InBalance, Apart, Typed
<1> DEFINE i == calls[c].seeded + 1
           jd == Seeds[i].id
           points == Seeds[i].points
           o == <<c, jd>>
           d == IF jd = id THEN points ELSE 0
<1>1. /\ field \in Calls /\ jd \in Customers /\ points \in Bank!Ints /\ UNCHANGED field
      /\ Upsert(field, jd, points, o) /\ o \in Objects
      /\ calls[c].pc = "seeding" /\ Others(c) /\ UNCHANGED calls[c].pc
  BY <1>0, SeedCustomerEffect
<1>2. field = c
  BY <1>0, <1>1, TheOneEngine, StoreAssumption DEF Starts
<1>3. \A e \in Calls, x \in Customers : db[e].customers[x] # o
  BY <1>0, SeedCustomerEffect, NewSeedObject DEF InBalance
<1>4. Passed(id)' = Passed(id) + d
  BY <1>0, <1>2, SeedPassed
<1>5. Effects(id)' = Effects(id)
  <2>1. ASSUME NEW x \in Calls PROVE Effect(x, id)' = Effect(x, id)
    <3>1. CASE x = c
      BY <1>1, <3>1, EffectIs, NextEffectIs DEF EffectOf, Idling
    <3>2. CASE x # c
      BY <1>1, <3>2, EffectIs, NextEffectIs DEF Others
    <3> QED BY <3>1, <3>2
  <2> QED BY <2>1 DEF Effects
<1>6. Bank!Deposit(jd, points)
  <2> HIDE DEF jd, points, o
  <2> QED BY <1>0, <1>1, <1>3, UpsertIsADeposit DEF InBalance
<1>7. d \in Int
  BY <1>1, IntsAreInts
<1>8. \/ d = 0 /\ Accounts'[id] = Accounts[id]
      \/ Accounts'[id] =
           Bank!Int32((IF Accounts[id] = NoAccount THEN 0 ELSE Accounts[id]) + d)
  <2>1. Accounts = [x \in Customers |-> Accounts[x]]
    BY DEF Accounts
  <2> HIDE DEF jd, points
  <2> QED BY <1>1, <1>6, <2>1 DEF Bank!Deposit
<1>9. Books(id) \in Int /\ Books(id)' = Books(id) + d
  <2>1. Passed(id) \in Int /\ Total(Effects(id), Calls) \in Int
    BY <1>0, BooksAreNumbers
  <2>2. Books(id)' = Passed(id)' + Total(Effects(id)', Calls)
    BY DEF Books
  <2> HIDE DEF d
  <2> QED BY <1>4, <1>5, <1>7, <2>1, <2>2 DEF Books
<1> HIDE DEF d
<1> QED BY <1>1, <1>7, <1>8, <1>9, StaysMatched

\* The one engine starts empty, before any command has run.
LEMMA StartBooked ==
  ASSUME InBalance, Typed', NEW c \in Calls, Started(c), field = NoEngine, NEW id \in Customers
  PROVE  Matches(Accounts'[id], Books(id)')
<1>0. Typed /\ TypeOK /\ TypeOK'
  BY DEF InBalance, Apart, Typed
<1>1. Accounts' = [x \in Customers |-> NoAccount]
  BY <1>0, StartIsARestart DEF InBalance, Bank!Restart
<1>2. field' = c /\ calls'[c].pc = "seeding" /\ calls'[c].seeded = 0 /\ Others(c)
  BY <1>0, StartedEffect DEF Typed, InPhase, KeepsSeeding
<1>3. Passed(id)' = 0
  BY <1>2 DEF Passed
<1>4. \A d \in Calls : calls'[d].pc \in Idling
  BY <1>0, <1>2 DEF Typed, InPhase, Idling, Others
<1>5. \A d \in Calls : Effect(d, id)' = 0
  BY <1>4, NextEffectIs DEF EffectOf
<1> DEFINE E == Effects(id)'
<1>6. \A d \in Calls : E[d] = 0
  BY <1>5 DEF Effects
<1>7. Books(id)' = Passed(id)' + Total(E, Calls)
  BY DEF Books
<1> HIDE DEF E
<1>8. Total(E, Calls) = 0
  BY <1>6, StoreAssumption, SumOfZeros
<1> QED BY <1>1, <1>3, <1>7, <1>8 DEF Matches

LEMMA NextBalanced == InBalance /\ [Next]_vars => Balanced'
<1> SUFFICES ASSUME InBalance, [Next]_vars PROVE Balanced'
  OBVIOUS
<1>0. Typed /\ TypeOK /\ Typed'
  BY NextTyped DEF InBalance, Apart, Typed
<1>1. CASE UNCHANGED vars
  <2>1. \A id \in Customers : Books(id)' = Books(id)
    BY <1>1 DEF vars, Books, Effects, Effect, Passed
  <2> QED BY <1>1, <2>1 DEF InBalance, Balanced, OneEngine, vars, Accounts
<1>2. ASSUME NEW c \in Calls, Acts(c) PROVE Balanced'
  <2> SUFFICES ASSUME OneEngine'
               PROVE  /\ \A d \in Calls : calls'[d].engine \in {NoEngine, field'}
                      /\ field' # NoEngine =>
                           \A id \in Customers : Matches(Accounts'[id], Books(id)')
    BY DEF Balanced
  <2>1. Moves(c)
    BY <1>0, <1>2, EveryActionMoves
  <2>2. OneEngine
    BY <1>0, <2>1, OneEngineBefore
  <2>3. \A d \in Calls : calls[d].engine \in {NoEngine, field}
    BY <2>2 DEF InBalance, Balanced
  <2>4. Started(c) => field = NoEngine
    BY <1>0, <2>2, TheOneEngine DEF Started, Starts
  <2>5. ~Started(c) => UNCHANGED field
    BY <1>2 DEF Acts, Enter, SeedCustomer, SeedPrize, EngineReturned, Deposit, Debit, Transfer,
       GetCustomer, Throw, Read, AskPrizes, GetAvailablePrizes
  <2>6. \A d \in Calls : calls'[d].engine \in {NoEngine, field'}
    BY <2>1, <2>3, <2>4, <2>5 DEF Moves, Others
  <2>7. ASSUME field' # NoEngine, NEW id \in Customers
        PROVE  Matches(Accounts'[id], Books(id)')
    <3>1. CASE Started(c)
      BY <1>0, <2>4, <3>1, StartBooked
    <3>2. CASE SeedCustomer(c)
      BY <1>0, <2>2, <3>2, SeedBooked
    <3>3. CASE Deposit(c)
      BY <1>0, <2>2, <3>3, DepositBooked
    <3>4. CASE Debit(c)
      BY <1>0, <2>2, <3>4, DebitBooked
    <3>5. CASE Transfer(c)
      BY <1>0, <2>2, <3>5, TransferBooked
    <3>6. CASE SeedPrize(c)
      <4>1. /\ UNCHANGED <<field, balance>> /\ KeepsCustomers /\ field \in Calls
            /\ Others(c) /\ UNCHANGED <<calls[c].pc, calls[c].seeded>> /\ calls[c].pc = "seeding"
        BY <1>0, <3>6, SeedPrizeEffect
      <4>2. UNCHANGED Accounts
        BY <4>1, Unseen DEF KeepsCustomers, Held
      <4>3. Effects(id)' = Effects(id)
        <5>1. ASSUME NEW x \in Calls PROVE Effect(x, id)' = Effect(x, id)
          <6>1. CASE x = c
            BY <4>1, <6>1, EffectIs, NextEffectIs DEF EffectOf, Idling
          <6>2. CASE x # c
            BY <4>1, <6>2, EffectIs, NextEffectIs DEF Others
          <6> QED BY <6>1, <6>2
        <5> QED BY <5>1 DEF Effects
      <4>4. Passed(id)' = Passed(id)
        BY <4>1 DEF Passed, Others
      <4>5. Books(id)' = Books(id)
        BY <4>3, <4>4 DEF Books
      <4> QED BY <2>2, <4>1, <4>2, <4>5, StoreAssumption DEF InBalance, Balanced
    <3>7. CASE \/ Enter(c) \/ EngineReturned(c) \/ GetCustomer(c) \/ Throw(c)
               \/ Read(c) \/ AskPrizes(c) \/ GetAvailablePrizes(c)
      <4>1. UNCHANGED <<field, db, balance>>
        BY <3>7 DEF Enter, EngineReturned, GetCustomer, Throw, Read, AskPrizes, GetAvailablePrizes
      <4>2. UNCHANGED Accounts /\ field \in Calls
        BY <1>0, <2>7, <4>1 DEF Accounts, TypeOK
      <4>3. Others(c) /\ KeepsSeeding(c)
        BY <1>0, <3>7, EnterEffect, EngineReturnedEffect, ThrowEffect, GetCustomerEffect,
           ReadEffect, AskPrizesEffect, GetAvailablePrizesEffect
      <4>4. Effect(c, id)' = Effect(c, id)
        <5>1. CASE Enter(c) \/ EngineReturned(c) \/ Throw(c)
          <6>1. calls[c].pc \in Idling /\ calls'[c].pc \in Idling
            BY <1>0, <5>1, EnterEffect, EngineReturnedEffect, ThrowEffect DEF Idling
          <6> QED BY <6>1, EffectIs, NextEffectIs DEF EffectOf
        <5>2. CASE GetCustomer(c)
          <6>1. /\ calls[c].pc \in Idling /\ calls'[c].pc = "reply"
                /\ calls[c].op.kind = "customerLoyalty" /\ KeepsRequest(c)
            BY <1>0, <5>2, GetCustomerEffect DEF Idling, GetCustomer, Executing
          <6> QED BY <6>1, EffectIs, NextEffectIs DEF EffectOf, Wanted, Idling, KeepsRequest
        <5>3. CASE Read(c) \/ AskPrizes(c) \/ GetAvailablePrizes(c)
          <6>1. calls[c].pc \notin Idling /\ calls'[c].pc \notin Idling /\ KeepsRequest(c)
            BY <1>0, <5>3, ReadEffect, AskPrizesEffect, GetAvailablePrizesEffect
               DEF Idling, Answering
          <6> QED BY <6>1, EffectIs, NextEffectIs DEF EffectOf, KeepsRequest
        <5> QED BY <3>7, <5>1, <5>2, <5>3
      <4> QED BY <1>0, <2>2, <4>1, <4>2, <4>3, <4>4, NothingBooked
    <3> QED BY <1>2, <3>1, <3>2, <3>3, <3>4, <3>5, <3>6, <3>7 DEF Acts
  <2> QED BY <2>6, <2>7
<1> QED BY <1>1, <1>2, NextActs

\* The sum of NothingLost is this total.
LEMMA SumIsTotal ==
  ASSUME NEW id \in Customers
  PROVE  MapThenSumSet(LAMBDA c : Effect(c, id), Calls) = Total(Effects(id), Calls)
<1> DEFINE E == Effects(id)
           R(g) == g = [s \in SUBSET Calls |->
                          IF s = {} THEN 0
                          ELSE LET x == CHOOSE x \in s : TRUE IN Effect(x, id) + g[s \ {x}]]
           it == CHOOSE g : R(g)
<1>1. MapThenSumSet(LAMBDA c : Effect(c, id), Calls) = it[Calls]
  BY DEF MapThenSumSet, MapThenFoldSet
<1>2. \A g : R(g) <=> Adds(g, E, Calls)
  <2> SUFFICES ASSUME NEW g PROVE R(g) <=> Adds(g, E, Calls)
    OBVIOUS
  <2>1. \A s \in SUBSET Calls : s # {} => E[Pick(s)] = Effect(Pick(s), id)
    <3>1. \A s \in SUBSET Calls : s # {} => Pick(s) \in Calls
      BY Picked
    <3> QED BY <3>1 DEF Effects
  <2> HIDE DEF E
  <2>2. [s \in SUBSET Calls |->
          IF s = {} THEN 0
          ELSE LET x == CHOOSE x \in s : TRUE IN Effect(x, id) + g[s \ {x}]]
        = [s \in SUBSET Calls |-> IF s = {} THEN 0 ELSE E[Pick(s)] + g[s \ {Pick(s)}]]
    BY <2>1 DEF Pick
  <2> QED BY <2>2 DEF Adds
<1>3. \E g : Adds(g, E, Calls)
  BY AddsExists, StoreAssumption
<1> DEFINE h == CHOOSE g : Adds(g, E, Calls)
<1>4. Adds(h, E, Calls) /\ Total(E, Calls) = h[Calls]
  BY <1>3 DEF Total
<1> HIDE DEF E, h
<1>5. Adds(it, E, Calls)
  <2>1. \E g : R(g)
    <3> HIDE DEF R
    <3> QED BY <1>2, <1>3
  <2>2. R(it)
    <3> HIDE DEF R
    <3> QED BY <2>1
  <2> HIDE DEF it, R
  <2> QED BY <1>2, <2>2
<1> HIDE DEF it
<1>6. it[Calls] = h[Calls]
  BY <1>4, <1>5, AddsOnce, StoreAssumption
<1> QED BY <1>1, <1>4, <1>6 DEF E

LEMMA QuietBooks ==
  ASSUME InBalance PROVE NothingLost
<1> SUFFICES ASSUME OneEngine, EngineReady, NEW id \in Customers
             PROVE  LET effects == SeedOf(id)
                                   + MapThenSumSet(LAMBDA c : Effect(c, id), Calls)
                    IN  IF Accounts[id] = NoAccount THEN effects = 0
                        ELSE Accounts[id] = Bank!Int32(effects)
  BY DEF NothingLost
<1>1. PICK d \in Calls : calls[d].seeded = Len(Seeds)
  BY DEF EngineReady
<1>2. Typed /\ field # NoEngine
  BY Complete DEF InBalance, Settled
<1>3. calls[field].seeded = Len(Seeds)
  BY <1>1, <1>2, TheOneEngine, SeedsLong DEF Starts
<1>4. Passed(id) = SeedOf(id)
  BY <1>3, SeedsLong DEF Passed, SeedOf
<1>5. Matches(Accounts[id], Books(id))
  BY <1>2 DEF InBalance, Balanced
<1>6. Books(id) = SeedOf(id) + MapThenSumSet(LAMBDA c : Effect(c, id), Calls)
  BY <1>4, SumIsTotal DEF Books
<1> QED BY <1>5, <1>6 DEF Matches

\* Nothing is lost, for any number of calls and any width of an int: unless
\* several calls started an engine, the balance of a quiet store is the seed
\* plus the effect of every command that ran, wrapped to an int.
THEOREM NothingIsLost == Spec => []NothingLost
<1>1. Init => Balanced
  BY DEF Init, Fresh, Balanced
<1>2. Init => Settled
  BY InitTyped DEF Init, Fresh, Settled, SeededThrough, SeedsHeld, LateInHand,
     LateCallsSeeTheSettings
<1>3. Settled /\ [Next]_vars => Settled'
  BY NextSettled
<1>4. InBalance /\ [Next]_vars => Balanced'
  BY NextBalanced
<1>5. InBalance <=> Apart /\ Settled /\ Balanced
  BY DEF InBalance
<1>6. InBalance => NothingLost
  BY QuietBooks
<1> QED BY <1>1, <1>2, <1>3, <1>4, <1>5, <1>6, AlwaysApart, PTL DEF Spec
=============================================================================

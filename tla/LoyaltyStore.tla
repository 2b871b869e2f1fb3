---------------------------- MODULE LoyaltyStore ----------------------------
(***************************************************************************)
(* CustomerLoyaltyStore and the GraphQL fields that call it.  The store is *)
(* a singleton over an in-memory Memstate engine that the first call       *)
(* starts and seeds from the settings.  Commands run one at a time inside  *)
(* the engine, but what they return are the engine's own Customer objects, *)
(* which the callers read later, on their own threads.                     *)
(*                                                                         *)
(* External: the engine itself.  It starts empty, executes each command    *)
(* atomically and answers; its journal is not read back (no restart).      *)
(***************************************************************************)
EXTENDS Integers, FiniteSets, SequencesExt

CONSTANTS
    Calls,          \* GraphQL fields being resolved
    Customers,      \* customer ids
    Prizes,         \* prize ids
    Seeds,          \* settings: sequence of [id, points], one per customer
    Cost,           \* settings: LoyaltyPointsCost of each prize
    Amounts,        \* points an argument may carry
    NoEngine, Nobody, NoAccount,
    Half            \* 2^31 in the program

ASSUME SeedsAssumption ==
    /\ Len(Seeds) > 0
    /\ Seeds \in Seq([id : Customers, points : -Half .. Half - 1])
    /\ \A i, j \in DOMAIN Seeds : Seeds[i].id = Seeds[j].id => i = j
ASSUME StoreAssumption ==
    /\ Half \in Nat \ {0}
    /\ NoAccount \notin Int
    /\ Cost \in [Prizes -> Int]
    /\ IsFiniteSet(Prizes)
    /\ Amounts \subseteq -Half .. Half - 1
    /\ NoEngine \notin Calls
    /\ IsFiniteSet(Calls)

VARIABLES
    field,          \* _customerLoyaltyDBEngine
    db,             \* db[c]: the LoyaltyDB of the engine call c started
    balance,        \* LoyaltyPointBalance of every Customer object
    calls           \* the progress of every call

vars == <<field, db, balance, calls>>

(***************************************************************************)
(* A Customer object is named after the call and the statement that        *)
(* creates it: the i-th seed, or the own, sender or receiver object of a   *)
(* command.                                                                *)
(***************************************************************************)
Roles == {"own", "sender", "receiver"}
Objects == Calls \X (Customers \cup Roles)

\* `customer', `loyaltyPointsTransfer' and `customerLoyalty' are GraphQL
\* fields; `debit' is the store's operation no field calls.
Operations ==
    [kind : {"customer", "debit"}, id : Customers, points : Amounts]
    \cup [kind : {"loyaltyPointsTransfer"}, id : Customers,
          to : Customers, points : Amounts]
    \cup [kind : {"customerLoyalty"}, id : Customers, prizes : BOOLEAN]

ASSUME NamesAssumption ==
    /\ Customers \cap Roles = {}
    /\ Nobody \notin Objects \cup Operations

Fresh == [pc |-> "idle", op |-> Nobody, engine |-> NoEngine, seeded |-> 0,
          inserted |-> {}, refs |-> <<>>, wrote |-> <<>>, shown |-> <<>>,
          limit |-> 0, prizes |-> {}, late |-> FALSE]

Init ==
    /\ field = NoEngine
    /\ db = [c \in Calls |-> [customers |-> [id \in Customers |-> Nobody],
                              prizes |-> {}]]
    /\ balance = [o \in Objects |-> 0]
    /\ calls = [c \in Calls |-> Fresh]

\* The bank a caller of the store believes in: the accounts of the engine
\* the field holds.
Accounts ==
    [id \in Customers |->
        IF field = NoEngine THEN NoAccount
        ELSE IF db[field].customers[id] = Nobody THEN NoAccount
        ELSE balance[db[field].customers[id]]]

Bank == INSTANCE LoyaltyBank WITH accounts <- Accounts

\* Some call has got through the whole of GetCustomerLoyaltyDBEngineAsync.
EngineReady ==
    \E c \in Calls : calls[c].pc \notin {"idle", "starting", "seeding"}
                     /\ calls[c].seeded = Len(Seeds)
                     /\ calls[c].inserted = Prizes

\* Only one call found the field empty.
OneEngine ==
    \A c, d \in Calls :
        (/\ calls[c].pc \in {"starting", "seeding"} \/ calls[c].seeded > 0
         /\ calls[d].pc \in {"starting", "seeding"} \/ calls[d].seeded > 0) => c = d

(***************************************************************************)
(* GetCustomerLoyaltyDBEngineAsync.  The field is tested before the await  *)
(* and assigned after it, so that several calls may start an engine; it is *)
(* read again for every seed and for the return value.                     *)
(***************************************************************************)
Enter(c) ==
    /\ calls[c].pc = "idle"
    /\ \E op \in Operations :
         calls' = [calls EXCEPT ![c].op = op,
                                ![c].late = EngineReady,
                                ![c].engine = field,
                                ![c].pc = IF field = NoEngine
                                          THEN "starting" ELSE "execute"]
    /\ UNCHANGED <<field, db, balance>>

Started(c) ==
    /\ calls[c].pc = "starting"
    /\ field' = c
    /\ calls' = [calls EXCEPT ![c].pc = "seeding"]
    /\ UNCHANGED <<db, balance>>

\* Mutant: the points of an upsert replace the balance.
UpsertReplaces(e, id, points, o) ==
    /\ balance' = [balance EXCEPT ![o] = points]
    /\ db' = [db EXCEPT ![e].customers[id] = o]

\* Mutant: the sum is not brought back into an int.
UpsertWide(e, id, points, o) ==
    LET found == db[e].customers[id]
    IN  IF found # Nobody
        THEN balance' = [balance EXCEPT ![found] = @ + points] /\ UNCHANGED db
        ELSE /\ balance' = [balance EXCEPT ![o] = points]
             /\ db' = [db EXCEPT ![e].customers[id] = o]

\* UpsertCustomer.Execute: an existing customer is changed in place, so that
\* every holder of the object sees it; o is the object made otherwise.
Upsert(e, id, points, o) ==
    LET found == db[e].customers[id]
    IN  IF found # Nobody
        THEN /\ balance' = [balance EXCEPT ![found] = Bank!Int32(@ + points)]
             /\ UNCHANGED db
        ELSE /\ balance' = [balance EXCEPT ![o] = points]
             /\ db' = [db EXCEPT ![e].customers[id] = o]

UpsertedObject(e, id, o) ==
    IF db[e].customers[id] # Nobody THEN db[e].customers[id] ELSE o

SeedCustomer(c) ==
    /\ calls[c].pc = "seeding"
    /\ calls[c].seeded < Len(Seeds)
    /\ LET seed == Seeds[calls[c].seeded + 1]
       IN  Upsert(field, seed.id, seed.points, <<c, seed.id>>)
    /\ calls' = [calls EXCEPT ![c].seeded = @ + 1]
    /\ UNCHANGED field

\* InsertPrize.Execute: the first one stays.
SeedPrize(c) ==
    /\ calls[c].pc = "seeding"
    /\ calls[c].seeded = Len(Seeds)
    /\ \E p \in Prizes \ calls[c].inserted :
         /\ db' = [db EXCEPT ![field].prizes = @ \cup {p}]
         /\ calls' = [calls EXCEPT ![c].inserted = @ \cup {p}]
    /\ UNCHANGED <<field, balance>>

\* Mutant: a call insists on the engine it started.
ReturnsOwnEngine(c) ==
    /\ calls[c].pc = "seeding"
    /\ calls[c].seeded = Len(Seeds)
    /\ calls[c].inserted = Prizes
    /\ field = c
    /\ calls' = [calls EXCEPT ![c].pc = "execute", ![c].engine = field]
    /\ UNCHANGED <<field, db, balance>>

EngineReturned(c) ==
    /\ calls[c].pc = "seeding"
    /\ calls[c].seeded = Len(Seeds)
    /\ calls[c].inserted = Prizes
    /\ calls' = [calls EXCEPT ![c].pc = "execute", ![c].engine = field]
    /\ UNCHANGED <<field, db, balance>>

-----------------------------------------------------------------------------
(***************************************************************************)
(* The commands, each one atomic step of the engine.  `wrote' is a history *)
(* of the balances a command left in the objects it returned.              *)
(***************************************************************************)
Executing(c, kind) == calls[c].pc = "execute" /\ calls[c].op.kind = kind

Returned(c, refs) ==
    calls' = [calls EXCEPT ![c].pc = "reply", ![c].refs = refs,
                           ![c].wrote = [i \in DOMAIN refs |-> balance'[refs[i]]]]

Deposit(c) ==
    /\ Executing(c, "customer")
    /\ LET e == calls[c].engine
           id == calls[c].op.id
       IN  /\ Upsert(e, id, calls[c].op.points, <<c, "own">>)
           /\ Returned(c, <<UpsertedObject(e, id, <<c, "own">>)>>)
    /\ UNCHANGED field

Holds(c, id) == db[calls[c].engine].customers[id] # Nobody
BalanceOf(c, id) == balance[db[calls[c].engine].customers[id]]

\* Mutant: a debit changes the object in place, as a deposit does.
DebitInPlace(c) ==
    /\ Executing(c, "debit")
    /\ Holds(c, calls[c].op.id)
    /\ LET o == db[calls[c].engine].customers[calls[c].op.id]
       IN  /\ balance' = [balance EXCEPT ![o] = Bank!Int32(@ - calls[c].op.points)]
           /\ Returned(c, <<o>>)
    /\ UNCHANGED <<field, db>>

\* DebitPoints.Execute puts a new object in place of the old one.
Debit(c) ==
    /\ Executing(c, "debit")
    /\ Holds(c, calls[c].op.id)
    /\ LET id == calls[c].op.id
       IN  /\ balance' = [balance EXCEPT ![<<c, "own">>] =
                              Bank!Int32(BalanceOf(c, id) - calls[c].op.points)]
           /\ db' = [db EXCEPT ![calls[c].engine].customers[id] = <<c, "own">>]
           /\ Returned(c, <<<<c, "own">>>>)
    /\ UNCHANGED field

\* Mutant: the sender's new object is stored under both ids.
TransferStoresTwice(c) ==
    /\ Executing(c, "loyaltyPointsTransfer")
    /\ Holds(c, calls[c].op.id)
    /\ Holds(c, calls[c].op.to)
    /\ balance' = [balance EXCEPT ![<<c, "sender">>] =
           Bank!Int32(BalanceOf(c, calls[c].op.id) - calls[c].op.points)]
    /\ db' = [db EXCEPT ![calls[c].engine].customers =
           [@ EXCEPT ![calls[c].op.id] = <<c, "sender">>,
                     ![calls[c].op.to] = <<c, "sender">>]]
    /\ Returned(c, <<<<c, "sender">>, <<c, "sender">>>>)
    /\ UNCHANGED field

\* TransferPoints.Execute reads both balances first and stores the receiver
\* last: a transfer to oneself keeps the receiver's object and adds points.
Transfer(c) ==
    /\ Executing(c, "loyaltyPointsTransfer")
    /\ Holds(c, calls[c].op.id)
    /\ Holds(c, calls[c].op.to)
    /\ LET from == calls[c].op.id
           to == calls[c].op.to
           points == calls[c].op.points
       IN  /\ balance' = [balance EXCEPT
                  ![<<c, "sender">>] = Bank!Int32(BalanceOf(c, from) - points),
                  ![<<c, "receiver">>] = Bank!Int32(BalanceOf(c, to) + points)]
           /\ db' = [db EXCEPT ![calls[c].engine].customers =
                  [@ EXCEPT ![from] = <<c, "sender">>, ![to] = <<c, "receiver">>]]
           /\ Returned(c, <<<<c, "sender">>, <<c, "receiver">>>>)
    /\ UNCHANGED field

GetCustomer(c) ==
    /\ Executing(c, "customerLoyalty")
    /\ Holds(c, calls[c].op.id)
    /\ UNCHANGED <<field, db, balance>>
    /\ Returned(c, <<db[calls[c].engine].customers[calls[c].op.id]>>)

\* A command's dictionary look-up throws on an unknown customer; the query
\* field dereferences the null the store returned.
Throw(c) ==
    /\ calls[c].pc = "execute"
    /\ \/ /\ calls[c].op.kind \in {"debit", "customerLoyalty"}
          /\ ~Holds(c, calls[c].op.id)
       \/ /\ calls[c].op.kind = "loyaltyPointsTransfer"
          /\ ~(Holds(c, calls[c].op.id) /\ Holds(c, calls[c].op.to))
    /\ calls' = [calls EXCEPT ![c].pc = "failed"]
    /\ UNCHANGED <<field, db, balance>>

(***************************************************************************)
(* The caller reads the objects it was given, one after the other, while   *)
(* the engine's thread may be running another command.                     *)
(***************************************************************************)
WantsPrizes(c) ==
    calls[c].op.kind = "customerLoyalty" /\ calls[c].op.prizes

Read(c) ==
    /\ calls[c].pc = "reply"
    /\ LET shown == Append(calls[c].shown,
                           balance[calls[c].refs[Len(calls[c].shown) + 1]])
       IN  calls' = [calls EXCEPT ![c].shown = shown,
                       ![c].pc = IF Len(shown) < Len(calls[c].refs) THEN "reply"
                                 ELSE IF WantsPrizes(c) THEN "asking"
                                 ELSE "answered"]
    /\ UNCHANGED <<field, db, balance>>

\* The balance is read once more for the argument, and the engine is fetched
\* once more.
AskPrizes(c) ==
    /\ calls[c].pc = "asking"
    /\ calls' = [calls EXCEPT ![c].limit = balance[calls[c].refs[1]],
                              ![c].engine = field,
                              ![c].pc = "prizes"]
    /\ UNCHANGED <<field, db, balance>>

Affordable(prizes, points) == {p \in prizes : Cost[p] <= points}

\* Mutant: a prize that costs exactly the balance is left out.
GetCheaperPrizes(c) ==
    /\ calls[c].pc = "prizes"
    /\ calls' = [calls EXCEPT ![c].pc = "answered",
                   ![c].prizes = {p \in db[calls[c].engine].prizes :
                                     Cost[p] < calls[c].limit}]
    /\ UNCHANGED <<field, db, balance>>

GetAvailablePrizes(c) ==
    /\ calls[c].pc = "prizes"
    /\ calls' = [calls EXCEPT ![c].pc = "answered",
                   ![c].prizes = Affordable(db[calls[c].engine].prizes,
                                            calls[c].limit)]
    /\ UNCHANGED <<field, db, balance>>

Ended(c) == calls[c].pc \in {"answered", "failed"}

Step(c) ==
    \/ Started(c) \/ SeedCustomer(c) \/ SeedPrize(c) \/ EngineReturned(c)
    \/ Deposit(c) \/ Debit(c) \/ Transfer(c) \/ GetCustomer(c) \/ Throw(c)
    \/ Read(c) \/ AskPrizes(c) \/ GetAvailablePrizes(c)

Quiet == (\A c \in Calls : Ended(c)) /\ UNCHANGED vars

Next == (\E c \in Calls : Enter(c) \/ Step(c)) \/ Quiet

\* Awaited tasks complete and continuations run; nothing makes a call arrive.
Fairness == \A c \in Calls : WF_vars(Step(c))

Spec == Init /\ [][Next]_vars /\ Fairness

-----------------------------------------------------------------------------
Phases == {"idle", "starting", "seeding", "execute", "reply", "asking",
           "prizes", "answered", "failed"}

TypeOK ==
    /\ field \in Calls \cup {NoEngine}
    /\ db \in [Calls -> [customers : [Customers -> Objects \cup {Nobody}],
                         prizes : SUBSET Prizes]]
    /\ balance \in [Objects -> Bank!Ints]
    /\ calls \in [Calls -> [pc : Phases, op : Operations \cup {Nobody},
                            engine : Calls \cup {NoEngine},
                            seeded : 0 .. Len(Seeds), inserted : SUBSET Prizes,
                            refs : Seq(Objects), wrote : Seq(Int),
                            shown : Seq(Int), limit : Int,
                            prizes : SUBSET Prizes, late : BOOLEAN]]

\* What a call that ran did to the balance of id, by its own reckoning.  A
\* transfer to oneself adds its points (TransferPoints.cs stores the receiver
\* last).
Effect(c, id) ==
    LET op == calls[c].op IN
    IF calls[c].pc \in {"idle", "starting", "seeding", "execute", "failed"} THEN 0
    ELSE CASE op.kind = "customerLoyalty" -> 0
           [] op.kind = "customer" -> IF id = op.id THEN op.points ELSE 0
           [] op.kind = "debit" -> IF id = op.id THEN 0 - op.points ELSE 0
           [] op.kind = "loyaltyPointsTransfer" ->
                IF id = op.to THEN op.points
                ELSE IF id = op.id THEN 0 - op.points ELSE 0

SeedOf(id) ==
    IF \E i \in DOMAIN Seeds : Seeds[i].id = id
    THEN Seeds[CHOOSE i \in DOMAIN Seeds : Seeds[i].id = id].points
    ELSE 0

\* Nothing is lost: unless several calls started an engine, once the store is
\* quiet every balance is the seed of the settings plus the effect of every call
\* that ran, even of those that ran before the seeding was through.
NothingLost ==
    (OneEngine /\ EngineReady /\ \A c \in Calls : calls[c].pc = "idle" \/ Ended(c)) =>
        \A id \in Customers :
            LET effects == SeedOf(id)
                           + MapThenSumSet(LAMBDA c : Effect(c, id), Calls)
            IN  IF Accounts[id] = NoAccount THEN effects = 0
                ELSE Accounts[id] = Bank!Int32(effects)

\* The store implements the bank: whoever looks at the engine in the field
\* sees deposits, debits and two-sided transfers that take effect at once (a
\* transfer to oneself being a deposit), until a late start empties it.
ImplementsBank == Bank!Spec

\* Unless several calls started an engine, a call that arrives after it was
\* seeded finds every customer of the
\* settings, and lists exactly the prizes its limit reaches; only a call that
\* overtakes the seeding can miss some.
LateCallsSeeTheSettings ==
    \A c \in Calls : (calls[c].late /\ OneEngine) =>
        /\ (calls[c].pc = "failed") =>
             \E id \in {calls[c].op.id}
                       \cup (IF calls[c].op.kind = "loyaltyPointsTransfer"
                             THEN {calls[c].op.to} ELSE {}) :
                 \A i \in DOMAIN Seeds : Seeds[i].id # id
        /\ (calls[c].pc = "answered" /\ WantsPrizes(c)) =>
             calls[c].prizes = Affordable(Prizes, calls[c].limit)

\* No Customer object stands for two customers or belongs to two engines: a
\* deposit, which changes the object in place, touches one account.
ObjectsAreNotShared ==
    \A e, f \in Calls : \A id, jd \in Customers :
        (db[e].customers[id] = db[f].customers[jd] /\ db[e].customers[id] # Nobody)
            => e = f /\ id = jd

\* A balance somebody was given moves only through a deposit to that customer
\* in the engine that still holds the object: debits and transfers leave the
\* objects of earlier answers alone.
OnlyDepositsReachOldObjects ==
    [][\A c \in Calls : \A i \in DOMAIN calls[c].refs :
         LET o == calls[c].refs[i] IN
         balance'[o] # balance[o] =>
            \E d \in Calls : \/ calls[d].op.kind = "customer" /\ calls'[d].pc = "reply"
                                /\ calls[d].pc = "execute" /\ calls'[d].refs = <<o>>
                             \/ calls'[d].seeded # calls[d].seeded]_vars

\* Every call that arrived is answered or fails.
EveryCallEnds == \A c \in Calls : calls[c].pc # "idle" ~> Ended(c)

\* Claimed by the comments on the commands (it is safe to return a live object
\* because Customer is immutable): a call shows the balance its own command
\* left, whatever runs before it is read.
LiveObjectsAreSafe ==
    \A c \in Calls : \A i \in DOMAIN calls[c].shown :
        calls[c].shown[i] = calls[c].wrote[i]
=============================================================================

-------------------------- MODULE FieldAuth_proofs --------------------------
(***************************************************************************)
(* For any field authority, any caller and documents of any size: the      *)
(* types, that an operation before the first fragment is checked in full,  *)
(* and that the rule refuses a plain document exactly when the executer    *)
(* would reach something the caller may not have.                          *)
(***************************************************************************)
EXTENDS FieldAuth, TLAPS

\* The initial state and every step keep the types.
LEMMA InitTypeOK == Init => TypeOK
BY DEF Init, TypeOK, OperationTypes, Homes

LEMMA StepTypeOK == TypeOK /\ [Next]_vars => TypeOK'
<1> SUFFICES ASSUME TypeOK, [Next]_vars PROVE TypeOK'
  OBVIOUS
<1> USE DEF TypeOK
<1>1. ASSUME NEW t \in OperationTypes, EnterOperation(t) PROVE TypeOK'
  <2>1. home' \in Homes
    BY <1>1, BoundsAssumption DEF EnterOperation, Reading, Homes
  <2>2. [kind |-> "operation", home |-> home', type |-> t, path |-> <<>>] \in Nodes
    BY <2>1 DEF Nodes
  <2>3. nodes' \in Seq(Nodes)
    BY <1>1, <2>2 DEF EnterOperation, Reads
  <2>4. <<t, <<>>>> \in OperationTypes \X Seq(Names)
    <3>1. <<>> \in Seq(Names)
      OBVIOUS
    <3>2. \A p \in Seq(Names) : <<t, p>> \in OperationTypes \X Seq(Names)
      OBVIOUS
    <3> QED BY ONLY <3>1, <3>2, Zenon
  <2>5. errors' = errors \/ errors' = errors \cup {<<t, <<>>>>}
    BY <1>1 DEF EnterOperation
  <2>6. errors' \subseteq OperationTypes \X Seq(Names)
    BY <2>4, <2>5
  <2> QED BY <1>1, <2>1, <2>3, <2>6 DEF EnterOperation
<1>2. ASSUME NEW name \in Names, EnterField(name) PROVE TypeOK'
  <2>1. open' \in Seq(Names) /\ running' \in Seq(Names)
    BY <1>2 DEF EnterField
  <2>2. [kind |-> "field", home |-> home, type |-> type, path |-> open'] \in Nodes
    BY <2>1 DEF Nodes
  <2>3. nodes' \in Seq(Nodes)
    BY <1>2, <2>2 DEF EnterField, Reads
  <2>4. CurrentFieldPath(running') \in Seq(Names)
    BY <2>1 DEF CurrentFieldPath
  <2>5. errors' \subseteq OperationTypes \X Seq(Names)
    BY <1>2, <2>4 DEF EnterField
  <2> QED BY <1>2, <2>1, <2>3, <2>5 DEF EnterField
<1>3. ASSUME LeaveField PROVE TypeOK'
  <2>1. open' \in Seq(Names)
    BY <1>3 DEF LeaveField, Front
  <2>2. running' \in Seq(Names)
    BY <1>3 DEF LeaveField, Front
  <2> QED BY <1>3, <2>1, <2>2 DEF LeaveField
<1>4. ASSUME NEW f \in Fragments, EnterSpread(f) PROVE TypeOK'
  <2>1. [kind |-> "spread", home |-> home, type |-> f, path |-> open] \in Nodes
    BY DEF Nodes
  <2>2. nodes' \in Seq(Nodes)
    BY <1>4, <2>1 DEF EnterSpread, Reads
  <2>3. Append(fragmentMap[f], running) \in Seq(Seq(Names))
    OBVIOUS
  <2>4. fragmentMap' \in [Fragments -> Seq(Seq(Names))]
    BY <1>4, <2>3 DEF EnterSpread
  <2> QED BY <1>4, <2>2, <2>4 DEF EnterSpread
<1>5. ASSUME NEW f \in Fragments, EnterFragment(f) PROVE TypeOK'
  <2>1. f \in Homes
    BY DEF Homes
  <2>2. [kind |-> "fragment", home |-> f, type |-> f, path |-> <<>>] \in Nodes
    BY <2>1 DEF Nodes
  <2>3. nodes' \in Seq(Nodes)
    BY <1>5, <2>2 DEF EnterFragment, Reads
  <2>4. CASE fragmentMap[f] = <<>>
    BY <1>5, <2>1, <2>3, <2>4 DEF EnterFragment
  <2>5. CASE fragmentMap[f] # <<>>
    <3>1. Last(fragmentMap[f]) \in Seq(Names)
      BY <2>5 DEF Last
    <3>2. <<>> \in Seq(Seq(Names)) /\ fragmentMap' = [fragmentMap EXCEPT ![f] = <<>>]
      BY <1>5, <2>5 DEF EnterFragment
    <3> QED BY <1>5, <2>1, <2>3, <2>5, <3>1, <3>2 DEF EnterFragment
  <2> QED BY <2>4, <2>5
<1>6. ASSUME Execute PROVE TypeOK'
  BY <1>6 DEF Execute
<1>7. CASE UNCHANGED vars
  BY <1>7 DEF vars
<1> QED BY <1>1, <1>2, <1>3, <1>4, <1>5, <1>6, <1>7 DEF Next, Done

(***************************************************************************)
(* Until a fragment is entered the sink has no root and the listener's     *)
(* path is the document's; as long as nothing was reported, a mutation in  *)
(* progress has a caller who is logged in, and every node read so far that *)
(* leads the fragments is allowed.                                         *)
(***************************************************************************)
NoFragment == \A j \in DOMAIN nodes : nodes[j].kind # "fragment"

Sound ==
    /\ NoFragment => root = NoOne /\ running = open
    /\ NoFragment /\ home # NoOne /\ errors = {} =>
           (type = "mutation" => caller.authenticated)
    /\ errors = {} => \A i \in DOMAIN nodes : Leading(i) => AllowedAt(i)
    /\ verdict = "run" => errors = {}

\* What the rule looks up is what the settings ask for.
LEMMA AccessIsAllowance ==
    ASSUME NEW t, NEW path, CanAccess(t, path),
           t = "mutation" => caller.authenticated
    PROVE  Allowed(t, path)
<1> SUFFICES ASSUME NEW i \in DOMAIN Records,
                    Records[i].type = t, Records[i].path = path
             PROVE  caller.authenticated /\ Records[i].claims \subseteq caller.claims
  BY DEF Allowed
<1>1. i \in Matching(t, path)
  BY DEF Matching
<1>2. caller.authenticated
  BY <1>1 DEF CanAccess, Found
<1>3. Records[i].claims \subseteq caller.claims
  BY <1>1 DEF CanAccess, RequiredClaims
<1> QED BY <1>2, <1>3

\* A node read behind the others changes nothing for them.
LEMMA Appended ==
    ASSUME TypeOK, TypeOK', NEW node \in Nodes, Reads(node), UNCHANGED caller,
           NEW last \in Nat, last = Len(nodes) + 1
    PROVE  /\ \A i \in DOMAIN nodes' : i = last \/ i \in DOMAIN nodes
           /\ last \in DOMAIN nodes' /\ nodes'[last] = node
           /\ NoFragment' => NoFragment /\ node.kind # "fragment"
           /\ \A i \in DOMAIN nodes : Leading(i)' => Leading(i)
           /\ \A i \in DOMAIN nodes : AllowedAt(i) => AllowedAt(i)'
           /\ Leading(last)' => NoFragment'
<1>1. /\ DOMAIN nodes = 1 .. Len(nodes)
      /\ DOMAIN nodes' = 1 .. last
      /\ nodes'[last] = node
      /\ \A i \in DOMAIN nodes : nodes'[i] = nodes[i]
      /\ Len(nodes) \in Nat
  BY DEF TypeOK, Reads
<1>2. NoFragment' => NoFragment /\ node.kind # "fragment"
  BY <1>1 DEF NoFragment
<1>3. \A i \in DOMAIN nodes : Leading(i)' => Leading(i)
  BY <1>1 DEF Leading, Of
<1>4. \A i \in DOMAIN nodes : AllowedAt(i) => AllowedAt(i)'
  BY <1>1 DEF AllowedAt, Allowed
<1>5. Leading(last)' => NoFragment'
  BY <1>1 DEF Leading, Of, NoFragment
<1>6. \A i \in DOMAIN nodes' : i = last \/ i \in DOMAIN nodes
  BY <1>1
<1> QED BY <1>1, <1>2, <1>3, <1>4, <1>5, <1>6

\* When the last node is allowed and nothing was reported before, all are.
LEMMA AppendedAllowed ==
    ASSUME TypeOK, TypeOK', NEW node \in Nodes, Reads(node), UNCHANGED caller,
           NEW last \in Nat, last = Len(nodes) + 1,
           Leading(last)' => AllowedAt(last)',
           \A i \in DOMAIN nodes : Leading(i) => AllowedAt(i)
    PROVE  \A i \in DOMAIN nodes' : Leading(i)' => AllowedAt(i)'
BY Appended

LEMMA InitSound == Init => Sound
BY DEF Init, Sound

LEMMA StepSound == TypeOK /\ TypeOK' /\ Sound /\ [Next]_vars => Sound'
<1> SUFFICES ASSUME TypeOK, TypeOK', Sound, [Next]_vars PROVE Sound'
  OBVIOUS
<1>0. PICK last \in Nat : last = Len(nodes) + 1
  BY DEF TypeOK
<1>1. ASSUME NEW t \in OperationTypes, EnterOperation(t) PROVE Sound'
  <2> DEFINE node == [kind |-> "operation", home |-> home', type |-> t, path |-> <<>>]
  <2>1. node \in Nodes /\ Reads(node) /\ UNCHANGED caller
    BY <1>1 DEF EnterOperation, Nodes, TypeOK
  <2>2. (NoFragment => root = NoOne /\ running = open)'
    BY <1>1, <1>0, <2>1, Appended DEF EnterOperation, Sound
  <2>3. errors' = {} => errors = {} /\ (t = "mutation" => caller.authenticated)
    BY <1>1 DEF EnterOperation
  <2>4. AllowedAt(last)' <=> (t = "mutation" => caller.authenticated)
    BY <1>0, <2>1, Appended DEF AllowedAt
  <2>5. errors' = {} => \A i \in DOMAIN nodes' : Leading(i)' => AllowedAt(i)'
    BY <1>0, <2>1, <2>3, <2>4, AppendedAllowed DEF Sound
  <2>6. verdict' # "run"
    BY <1>1 DEF EnterOperation, Reading
  <2>7. type' = t /\ caller' = caller
    BY <1>1 DEF EnterOperation
  <2> QED BY <2>2, <2>3, <2>5, <2>6, <2>7 DEF Sound
<1>2. ASSUME NEW name \in Names, EnterField(name) PROVE Sound'
  <2> DEFINE node == [kind |-> "field", home |-> home, type |-> type, path |-> open']
  <2>1. node \in Nodes /\ Reads(node) /\ UNCHANGED <<caller, type, root, home>>
    BY <1>2 DEF EnterField, Nodes, TypeOK
  <2>2. NoFragment' => NoFragment /\ root = NoOne /\ running' = open'
    BY <1>2, <1>0, <2>1, Appended DEF EnterField, Sound
  <2>3. errors' = {} => errors = {} /\ CanAccess(type, CurrentFieldPath(running'))
    BY <1>2 DEF EnterField
  <2>4. home # NoOne /\ verdict' # "run"
    BY <1>2 DEF EnterField, Reading
  <2>5. ASSUME errors' = {}, Leading(last)' PROVE AllowedAt(last)'
    <3>1. NoFragment' /\ NoFragment
      BY <1>0, <2>1, <2>2, <2>5, Appended
    <3>2. PICK t, path : t = type /\ path = open'
      OBVIOUS
    <3>3. CanAccess(t, path)
      BY <2>2, <2>3, <2>5, <3>1, <3>2 DEF CurrentFieldPath
    <3>4. t = "mutation" => caller.authenticated
      BY <2>3, <2>4, <2>5, <3>1, <3>2 DEF Sound
    <3>5. Allowed(t, path)
      BY <3>3, <3>4, AccessIsAllowance
    <3>6. nodes'[last] = node
      BY <1>0, <2>1, Appended
    <3> QED BY <2>1, <3>2, <3>5, <3>6 DEF AllowedAt, Allowed
  <2>6. errors' = {} => \A i \in DOMAIN nodes' : Leading(i)' => AllowedAt(i)'
    BY <1>0, <2>1, <2>3, <2>5, AppendedAllowed DEF Sound
  <2> QED BY <2>1, <2>2, <2>3, <2>4, <2>6 DEF Sound
<1>3. ASSUME LeaveField PROVE Sound'
  BY <1>3 DEF LeaveField, Sound, NoFragment, Leading, Of, AllowedAt, Allowed
<1>4. ASSUME NEW f \in Fragments, EnterSpread(f) PROVE Sound'
  <2> DEFINE node == [kind |-> "spread", home |-> home, type |-> f, path |-> open]
  <2>1. /\ node \in Nodes /\ Reads(node) /\ verdict' # "run"
        /\ UNCHANGED <<caller, type, root, home, running, open, errors>>
    BY <1>4 DEF EnterSpread, Nodes, TypeOK, Reading
  <2>2. AllowedAt(last)'
    BY <1>0, <2>1, Appended DEF AllowedAt
  <2>3. errors' = {} => \A i \in DOMAIN nodes' : Leading(i)' => AllowedAt(i)'
    BY <1>0, <2>1, <2>2, AppendedAllowed DEF Sound
  <2>4. NoFragment' => NoFragment
    BY <1>0, <2>1, Appended
  <2> QED BY <2>1, <2>3, <2>4 DEF Sound
<1>5. ASSUME NEW f \in Fragments, EnterFragment(f) PROVE Sound'
  <2> DEFINE node == [kind |-> "fragment", home |-> f, type |-> f, path |-> <<>>]
  <2>1. /\ node \in Nodes /\ Reads(node) /\ verdict' # "run"
        /\ UNCHANGED <<caller, errors>>
    BY <1>5 DEF EnterFragment, Nodes, TypeOK, Reading, Homes
  <2>2. ~NoFragment' /\ AllowedAt(last)'
    BY <1>0, <2>1, Appended DEF AllowedAt
  <2>3. errors' = {} => \A i \in DOMAIN nodes' : Leading(i)' => AllowedAt(i)'
    BY <1>0, <2>1, <2>2, AppendedAllowed DEF Sound
  <2> QED BY <2>1, <2>2, <2>3 DEF Sound
<1>6. ASSUME Execute PROVE Sound'
  BY <1>6 DEF Execute, Sound, NoFragment, Leading, Of, AllowedAt, Allowed
<1>7. CASE UNCHANGED vars
  BY <1>7 DEF vars, Sound, NoFragment, Leading, Of, AllowedAt, Allowed
<1> QED BY <1>1, <1>2, <1>3, <1>4, <1>5, <1>6, <1>7 DEF Next, Done

-----------------------------------------------------------------------------
\* Every reachable state of the walk is well typed.
THEOREM WalkTypeCorrect == Spec => []TypeOK
<1>1. Init => TypeOK
  BY InitTypeOK
<1>2. TypeOK /\ [Next]_vars => TypeOK'
  BY StepTypeOK
<1> QED BY <1>1, <1>2, PTL DEF Spec

\* A document that runs was checked in full up to its first fragment, however
\* deep its fields and whatever follows.
THEOREM LeadingOperations == Spec => []LeadingOperationsAreAllowed
<1>1. Init => Sound
  BY InitSound
<1>2. TypeOK /\ TypeOK' /\ Sound /\ [Next]_vars => Sound'
  BY StepSound
<1>3. Sound => LeadingOperationsAreAllowed
  BY DEF Sound, LeadingOperationsAreAllowed
<1> QED BY <1>1, <1>2, <1>3, WalkTypeCorrect, PTL DEF Spec

-----------------------------------------------------------------------------
(***************************************************************************)
(* Plain documents.  The containers of the nodes, for any document: an     *)
(* operation is named by its place and every other container is a fragment *)
(* that was entered.                                                       *)
(***************************************************************************)
Homed ==
    /\ running = open
    /\ home = NoOne => nodes = <<>>
    /\ home \notin Fragments \cup {NoOne} =>
         /\ home \in Of("operation") /\ nodes[home].type = type
         /\ \A j \in Of("fragment") : j < home
    /\ home \in Fragments => \E j \in Of("fragment") : nodes[j].home = home
    /\ \A i \in DOMAIN nodes :
         /\ nodes[i].kind = "operation" => nodes[i].home = i
         /\ nodes[i].kind = "fragment" => nodes[i].home \in Fragments
         /\ nodes[i].kind = "spread" => nodes[i].type \in Fragments
         /\ nodes[i].home \notin Fragments =>
              /\ nodes[i].home \in Of("operation")
              /\ nodes[i].kind = "field" => nodes[i].type = nodes[nodes[i].home].type
         /\ nodes[i].home \in Fragments =>
              \E j \in Of("fragment") : nodes[j].home = nodes[i].home

\* One node more than before.
Grew(node, last) ==
    /\ last \in Nat /\ last \notin DOMAIN nodes
    /\ DOMAIN nodes' = DOMAIN nodes \cup {last}
    /\ \A i \in DOMAIN nodes : i \in Nat /\ i < last /\ nodes'[i] = nodes[i]
    /\ nodes'[last] = node

LEMMA NodeRead ==
    ASSUME TypeOK, NEW node \in Nodes, Reads(node)
    PROVE  Grew(node, Len(nodes) + 1)
<1>1. nodes \in Seq(Nodes) /\ nodes' = Append(nodes, node)
  BY DEF TypeOK, Reads
<1> QED BY <1>1 DEF Grew

LEMMA KindsGrow ==
    ASSUME NEW node, NEW last, Grew(node, last), NEW kind
    PROVE  /\ Of(kind) \subseteq DOMAIN nodes
           /\ node.kind = kind => Of(kind)' = Of(kind) \cup {last}
           /\ node.kind # kind => Of(kind)' = Of(kind)
BY DEF Grew, Of

\* Every node is in a container that was entered, the last one included.
LEMMA HomedAgain ==
    ASSUME Homed, NEW node, NEW last, Grew(node, last), running' = open',
           home' # NoOne, node.home = home',
           home' \notin Fragments =>
             /\ home' \in Of("operation")' /\ nodes'[home'].type = type'
             /\ \A j \in Of("fragment")' : j < home'
             /\ node.kind = "field" => node.type = type',
           home' \in Fragments => \E j \in Of("fragment")' : nodes'[j].home = home',
           node.kind = "operation" => home' = last,
           node.kind = "fragment" => home' \in Fragments,
           node.kind = "spread" => node.type \in Fragments
    PROVE  Homed'
<1>1. /\ Of("operation") \subseteq Of("operation")' /\ Of("operation") \subseteq DOMAIN nodes
      /\ Of("fragment") \subseteq Of("fragment")' /\ Of("fragment") \subseteq DOMAIN nodes
  BY KindsGrow
<1>2. ASSUME NEW i \in DOMAIN nodes
      PROVE  /\ nodes'[i].kind = "operation" => nodes'[i].home = i
             /\ nodes'[i].kind = "fragment" => nodes'[i].home \in Fragments
             /\ nodes'[i].kind = "spread" => nodes'[i].type \in Fragments
             /\ nodes'[i].home \notin Fragments =>
                  /\ nodes'[i].home \in Of("operation")'
                  /\ nodes'[i].kind = "field" => nodes'[i].type = nodes'[nodes'[i].home].type
             /\ nodes'[i].home \in Fragments =>
                  \E j \in Of("fragment")' : nodes'[j].home = nodes'[i].home
  <2>1. nodes'[i] = nodes[i]
    BY DEF Grew
  <2>2. CASE nodes[i].home \notin Fragments
    <3>1. nodes[i].home \in Of("operation") /\ nodes'[nodes[i].home] = nodes[nodes[i].home]
      BY <1>1, <2>2 DEF Homed, Grew
    <3> QED BY <1>1, <2>1, <2>2, <3>1 DEF Homed
  <2>3. CASE nodes[i].home \in Fragments
    <3>1. PICK j \in Of("fragment") : nodes[j].home = nodes[i].home
      BY <2>3 DEF Homed
    <3>2. j \in Of("fragment")' /\ nodes'[j] = nodes[j]
      BY <1>1 DEF Grew
    <3> QED BY <2>1, <2>3, <3>1, <3>2 DEF Homed
  <2> QED BY <2>2, <2>3
<1>3. ASSUME NEW i \in DOMAIN nodes'
      PROVE  /\ nodes'[i].kind = "operation" => nodes'[i].home = i
             /\ nodes'[i].kind = "fragment" => nodes'[i].home \in Fragments
             /\ nodes'[i].kind = "spread" => nodes'[i].type \in Fragments
             /\ nodes'[i].home \notin Fragments =>
                  /\ nodes'[i].home \in Of("operation")'
                  /\ nodes'[i].kind = "field" => nodes'[i].type = nodes'[nodes'[i].home].type
             /\ nodes'[i].home \in Fragments =>
                  \E j \in Of("fragment")' : nodes'[j].home = nodes'[i].home
  <2>1. CASE i \in DOMAIN nodes
    BY <1>2, <2>1
  <2>2. CASE i = last
    BY <2>2 DEF Grew
  <2> QED BY <2>1, <2>2 DEF Grew
<1> QED BY <1>3 DEF Homed

LEMMA NextHomed == TypeOK /\ Homed /\ [Next]_vars => Homed'
<1> SUFFICES ASSUME TypeOK, Homed, [Next]_vars PROVE Homed'
  OBVIOUS
<1> DEFINE last == Len(nodes) + 1
<1>1. ASSUME NEW t \in OperationTypes, EnterOperation(t) PROVE Homed'
  <2> DEFINE node == [kind |-> "operation", home |-> home', type |-> t, path |-> <<>>]
  <2>1. home' \in Homes /\ home' = last /\ last \in Nat
    BY <1>1, BoundsAssumption DEF EnterOperation, Reading, Homes, TypeOK
  <2>2. node \in Nodes
    BY <2>1 DEF Nodes
  <2>3. Grew(node, last)
    BY <1>1, <2>2, NodeRead DEF EnterOperation
  <2>4. /\ Of("operation")' = Of("operation") \cup {last} /\ Of("fragment")' = Of("fragment")
        /\ Of("fragment") \subseteq DOMAIN nodes
    BY <2>3, KindsGrow
  <2>5. running' = open' /\ type' = t /\ last # NoOne /\ last \notin Fragments
    BY <1>1, <2>1, NamesAssumption DEF EnterOperation
  <2>6. nodes'[last].type = t /\ \A j \in Of("fragment")' : j < last
    BY <2>3, <2>4 DEF Grew
  <2> HIDE DEF last
  <2>7. node.home = home' /\ node.kind = "operation"
    OBVIOUS
  <2> HIDE DEF node
  <2> QED BY <2>1, <2>3, <2>4, <2>5, <2>6, <2>7, HomedAgain
<1>2. ASSUME NEW name \in Names, EnterField(name) PROVE Homed'
  <2> DEFINE node == [kind |-> "field", home |-> home, type |-> type, path |-> open']
  <2>1. node \in Nodes /\ Reads(node) /\ UNCHANGED <<type, home>> /\ home # NoOne
        /\ running' = open'
    BY <1>2 DEF EnterField, Nodes, TypeOK, Homed
  <2>2. Grew(node, last)
    BY <2>1, NodeRead
  <2>3. node.kind = "field" /\ node.home = home /\ node.type = type
    OBVIOUS
  <2> HIDE DEF node, last
  <2>4. /\ Of("operation")' = Of("operation") /\ Of("fragment")' = Of("fragment")
        /\ Of("operation") \subseteq DOMAIN nodes /\ Of("fragment") \subseteq DOMAIN nodes
    BY <2>2, <2>3, KindsGrow
  <2>5. home \notin Fragments =>
          /\ home \in Of("operation")' /\ nodes'[home].type = type
          /\ \A j \in Of("fragment")' : j < home
    BY <2>1, <2>2, <2>4 DEF Homed, Grew
  <2>6. home \in Fragments => \E j \in Of("fragment")' : nodes'[j].home = home
    BY <2>2, <2>4 DEF Homed, Grew
  <2> QED BY <2>1, <2>2, <2>3, <2>5, <2>6, HomedAgain
<1>3. ASSUME LeaveField PROVE Homed'
  BY <1>3 DEF LeaveField, Homed, Of
<1>4. ASSUME NEW f \in Fragments, EnterSpread(f) PROVE Homed'
  <2> DEFINE node == [kind |-> "spread", home |-> home, type |-> f, path |-> open]
  <2>1. node \in Nodes /\ Reads(node) /\ UNCHANGED <<type, home>> /\ home # NoOne
        /\ running' = open'
    BY <1>4 DEF EnterSpread, Nodes, TypeOK, Homed
  <2>2. Grew(node, last)
    BY <2>1, NodeRead
  <2>3. node.kind = "spread" /\ node.home = home /\ node.type \in Fragments
    OBVIOUS
  <2> HIDE DEF node, last
  <2>4. /\ Of("operation")' = Of("operation") /\ Of("fragment")' = Of("fragment")
        /\ Of("operation") \subseteq DOMAIN nodes /\ Of("fragment") \subseteq DOMAIN nodes
    BY <2>2, <2>3, KindsGrow
  <2>5. home \notin Fragments =>
          /\ home \in Of("operation")' /\ nodes'[home].type = type
          /\ \A j \in Of("fragment")' : j < home
    BY <2>1, <2>2, <2>4 DEF Homed, Grew
  <2>6. home \in Fragments => \E j \in Of("fragment")' : nodes'[j].home = home
    BY <2>2, <2>4 DEF Homed, Grew
  <2> QED BY <2>1, <2>2, <2>3, <2>5, <2>6, HomedAgain
<1>5. ASSUME NEW f \in Fragments, EnterFragment(f) PROVE Homed'
  <2> DEFINE node == [kind |-> "fragment", home |-> f, type |-> f, path |-> <<>>]
  <2>1. /\ node \in Nodes /\ Reads(node) /\ UNCHANGED type /\ home' = f /\ f # NoOne
        /\ running' = open'
    BY <1>5, NamesAssumption DEF EnterFragment, Nodes, TypeOK, Homes, Homed
  <2>2. Grew(node, last)
    BY <2>1, NodeRead
  <2>3. node.kind = "fragment" /\ node.home = f
    OBVIOUS
  <2> HIDE DEF node, last
  <2>4. last \in Of("fragment")' /\ nodes'[last].home = f
    BY <2>2, <2>3, KindsGrow DEF Grew
  <2> QED BY <2>1, <2>2, <2>3, <2>4, HomedAgain
<1>6. ASSUME Execute PROVE Homed'
  BY <1>6 DEF Execute, Homed, Of
<1>7. CASE UNCHANGED vars
  BY <1>7 DEF vars, Homed, Of
<1> QED BY <1>1, <1>2, <1>3, <1>4, <1>5, <1>6, <1>7 DEF Next, Done

(***************************************************************************)
(* What a document that is plain after a node was before it.               *)
(***************************************************************************)
LEMMA PlainBefore ==
    ASSUME TypeOK, Homed, NEW node, NEW last, Grew(node, last), Plain',
           node.kind \in {"field", "spread"} =>
             UNCHANGED home /\ home # NoOne /\ node.home = home
    PROVE  /\ Plain
           /\ node.kind = "operation" =>
                /\ Of("fragment") = {} /\ home \notin Fragments
                /\ \A i \in Of("operation") : nodes[i].type = node.type
           /\ node.kind = "spread" =>
                /\ Of("fragment") = {} /\ home \notin Fragments
                /\ \A s \in Of("spread") : nodes[s].type # node.type
           /\ node.kind = "fragment" =>
                \E s \in Of("spread") : nodes[s].type = node.home
<1>1. /\ \A kind : Of(kind) \subseteq Of(kind)' /\ Of(kind) \subseteq DOMAIN nodes
      /\ \A kind : node.kind = kind => Of(kind)' = Of(kind) \cup {last}
      /\ \A kind : node.kind # kind => Of(kind)' = Of(kind)
  BY KindsGrow
<1>2. /\ \A i, j \in Of("operation")' : nodes'[i].type = nodes'[j].type
      /\ \A i \in Of("operation")', j \in Of("fragment")' : i < j
      /\ \A i \in Of("spread")' : nodes'[i].home \notin Fragments
      /\ \A i, j \in Of("spread")' : nodes'[i].type = nodes'[j].type => i = j
      /\ \A i \in Of("fragment")' : \E j \in Of("spread")' : nodes'[j].type = nodes'[i].home
  BY DEF Plain
<1>3. /\ \A i \in DOMAIN nodes : i \in Nat /\ i < last /\ nodes'[i] = nodes[i]
      /\ nodes'[last] = node /\ last \in Nat /\ last \notin DOMAIN nodes
  BY DEF Grew
<1>4. /\ \A i, j \in Of("operation") : nodes[i].type = nodes[j].type
      /\ \A i \in Of("operation"), j \in Of("fragment") : i < j
      /\ \A i \in Of("spread") : nodes[i].home \notin Fragments
      /\ \A i, j \in Of("spread") : nodes[i].type = nodes[j].type => i = j
  BY <1>1, <1>2, <1>3
<1>5. ASSUME node.kind = "operation"
      PROVE  /\ Of("fragment") = {} /\ home \notin Fragments
             /\ \A i \in Of("operation") : nodes[i].type = node.type
  <2>1. last \in Of("operation")'
    BY <1>1, <1>5
  <2>2. ASSUME NEW j \in Of("fragment") PROVE FALSE
    BY <1>1, <1>2, <1>3, <2>1, <2>2
  <2> QED BY <1>1, <1>2, <1>3, <2>1, <2>2 DEF Homed
<1>6. ASSUME node.kind = "spread"
      PROVE  /\ Of("fragment") = {} /\ home \notin Fragments
             /\ \A s \in Of("spread") : nodes[s].type # node.type
  <2>1. last \in Of("spread")' /\ home \notin Fragments /\ home # NoOne
    BY <1>1, <1>2, <1>3, <1>6
  <2>2. home \in Of("operation") /\ \A j \in Of("fragment") : j < home
    BY <2>1 DEF Homed
  <2>3. ASSUME NEW j \in Of("fragment") PROVE FALSE
    BY <1>1, <1>2, <1>3, <2>2, <2>3
  <2> QED BY <1>1, <1>2, <1>3, <2>1, <2>3
<1>7. node.kind = "fragment" => \E s \in Of("spread") : nodes[s].type = node.home
  <2> SUFFICES ASSUME node.kind = "fragment"
               PROVE  \E s \in Of("spread") : nodes[s].type = node.home
    OBVIOUS
  <2>1. last \in Of("fragment")' /\ Of("spread")' = Of("spread")
    BY <1>1
  <2>2. PICK s \in Of("spread")' : nodes'[s].type = nodes'[last].home
    BY <1>2, <2>1
  <2> QED BY <1>1, <1>3, <2>1, <2>2
<1>8. ASSUME NEW i \in Of("fragment") PROVE \E j \in Of("spread") : nodes[j].type = nodes[i].home
  <2>1. PICK j \in Of("spread")' : nodes'[j].type = nodes'[i].home
    BY <1>1, <1>2
  <2>2. j \in Of("spread")
    <3>1. CASE node.kind = "spread"
      BY <1>6, <1>8, <3>1
    <3>2. CASE node.kind # "spread"
      BY <1>1, <2>1, <3>2
    <3> QED BY <3>1, <3>2
  <2> QED BY <1>1, <1>3, <2>1, <2>2
<1>9. Plain
  BY <1>4, <1>8 DEF Plain
<1> QED BY <1>5, <1>6, <1>7, <1>9

(***************************************************************************)
(* What the executer reaches, node by node.                                *)
(***************************************************************************)
OwnPlace(i) == <<nodes[i].type, nodes[i].path>>
SpreadPlace(s, i) == <<nodes[nodes[s].home].type, nodes[s].path \o nodes[i].path>>

ReachedIs ==
    \A r : r \in Reached <=>
        \/ \E i \in Of("field") : nodes[i].home \notin Fragments /\ r = OwnPlace(i)
        \/ \E s \in Of("spread"), i \in Of("field") :
             nodes[i].home = nodes[s].type /\ r = SpreadPlace(s, i)

LEMMA ReachedNow == ReachedIs /\ ReachedIs'
<1>1. Reached = {OwnPlace(i) : i \in {k \in Of("field") : nodes[k].home \notin Fragments}}
                \cup UNION {{SpreadPlace(s, i) : i \in FieldsOf(nodes[s].type)} : s \in Of("spread")}
  BY DEF Reached, OwnPlace, SpreadPlace
<1>2. Reached' = {OwnPlace(i)' : i \in {k \in Of("field")' : nodes'[k].home \notin Fragments}}
                 \cup UNION {{SpreadPlace(s, i)' : i \in FieldsOf(nodes[s].type)'} :
                              s \in Of("spread")'}
  BY DEF Reached, OwnPlace, SpreadPlace
<1>3. ReachedIs
  BY <1>1 DEF ReachedIs, FieldsOf
<1>4. ReachedIs'
  BY <1>2 DEF ReachedIs, FieldsOf
<1> QED BY <1>3, <1>4

\* A node more does not move the places of the others.
LEMMA PlacesStay ==
    ASSUME Homed, Plain, NEW node, NEW last, Grew(node, last)
    PROVE  /\ \A i \in Of("field") : OwnPlace(i)' = OwnPlace(i)
           /\ \A s \in Of("spread"), i \in Of("field") : SpreadPlace(s, i)' = SpreadPlace(s, i)
<1>1. \A i \in DOMAIN nodes : nodes'[i] = nodes[i]
  BY DEF Grew
<1>2. \A kind : Of(kind) \subseteq DOMAIN nodes
  BY DEF Of
<1>3. \A s \in Of("spread") : nodes[s].home \in DOMAIN nodes
  BY <1>2 DEF Homed, Plain
<1>4. ASSUME NEW i \in Of("field") PROVE OwnPlace(i)' = OwnPlace(i)
  <2>1. nodes'[i] = nodes[i]
    BY <1>1, <1>2
  <2> QED BY <2>1 DEF OwnPlace
<1>5. ASSUME NEW s \in Of("spread"), NEW i \in Of("field")
      PROVE  SpreadPlace(s, i)' = SpreadPlace(s, i)
  <2>1. /\ nodes'[i] = nodes[i] /\ nodes'[s] = nodes[s]
        /\ nodes'[nodes[s].home] = nodes[nodes[s].home]
    BY <1>1, <1>2, <1>3
  <2> QED BY <2>1 DEF SpreadPlace
<1> QED BY <1>4, <1>5

LEMMA ReachedStays ==
    ASSUME Homed, Plain, NEW node, NEW last, Grew(node, last), node.kind # "field",
           node.kind = "spread" => \A i \in Of("field") : nodes[i].home # node.type
    PROVE  Reached' = Reached
<1>1. /\ Of("field")' = Of("field") /\ Of("field") \subseteq DOMAIN nodes
      /\ Of("spread") \subseteq Of("spread")' /\ Of("spread")' \subseteq Of("spread") \cup {last}
      /\ last \in Of("spread")' => last \in Of("spread") \/ node.kind = "spread"
      /\ Of("spread") \subseteq DOMAIN nodes
  BY KindsGrow
<1>2. (\A i \in DOMAIN nodes : nodes'[i] = nodes[i]) /\ nodes'[last] = node
  BY DEF Grew
<1>3. /\ \A i \in Of("field") : OwnPlace(i)' = OwnPlace(i)
      /\ \A s \in Of("spread"), i \in Of("field") : SpreadPlace(s, i)' = SpreadPlace(s, i)
  BY PlacesStay
<1>4. ASSUME NEW r PROVE r \in Reached' <=> r \in Reached
  <2>1. r \in Reached' <=>
          \/ \E i \in Of("field")' : nodes'[i].home \notin Fragments /\ r = OwnPlace(i)'
          \/ \E s \in Of("spread")', i \in Of("field")' :
               nodes'[i].home = nodes'[s].type /\ r = SpreadPlace(s, i)'
    BY ReachedNow DEF ReachedIs
  <2>2. r \in Reached <=>
          \/ \E i \in Of("field") : nodes[i].home \notin Fragments /\ r = OwnPlace(i)
          \/ \E s \in Of("spread"), i \in Of("field") :
               nodes[i].home = nodes[s].type /\ r = SpreadPlace(s, i)
    BY ReachedNow DEF ReachedIs
  <2>3. \A s \in Of("spread")', i \in Of("field") : nodes'[i].home = nodes'[s].type => s \in Of("spread")
    BY <1>1, <1>2
  <2> QED BY <1>1, <1>2, <1>3, <2>1, <2>2, <2>3
<1> QED BY <1>4

LEMMA ReachedByOperation ==
    ASSUME Homed, Plain, NEW node, NEW last, Grew(node, last), node.kind = "field",
           node.home \notin Fragments
    PROVE  Reached' = Reached \cup {<<node.type, node.path>>}
<1>1. /\ Of("field")' = Of("field") \cup {last} /\ Of("field") \subseteq DOMAIN nodes
      /\ Of("spread")' = Of("spread") /\ Of("spread") \subseteq DOMAIN nodes
  BY KindsGrow
<1>2. (\A i \in DOMAIN nodes : nodes'[i] = nodes[i]) /\ nodes'[last] = node
  BY DEF Grew
<1>3. /\ \A i \in Of("field") : OwnPlace(i)' = OwnPlace(i)
      /\ \A s \in Of("spread"), i \in Of("field") : SpreadPlace(s, i)' = SpreadPlace(s, i)
      /\ OwnPlace(last)' = <<node.type, node.path>>
  BY <1>2, PlacesStay DEF OwnPlace
<1>4. ASSUME NEW r PROVE r \in Reached' <=> r \in Reached \/ r = <<node.type, node.path>>
  <2>1. r \in Reached' <=>
          \/ \E i \in Of("field")' : nodes'[i].home \notin Fragments /\ r = OwnPlace(i)'
          \/ \E s \in Of("spread")', i \in Of("field")' :
               nodes'[i].home = nodes'[s].type /\ r = SpreadPlace(s, i)'
    BY ReachedNow DEF ReachedIs
  <2>2. r \in Reached <=>
          \/ \E i \in Of("field") : nodes[i].home \notin Fragments /\ r = OwnPlace(i)
          \/ \E s \in Of("spread"), i \in Of("field") :
               nodes[i].home = nodes[s].type /\ r = SpreadPlace(s, i)
    BY ReachedNow DEF ReachedIs
  <2>3. \A s \in Of("spread") : nodes[s].type # node.home
    BY <1>1 DEF Homed, Of
  <2>4. \A s \in Of("spread")', i \in Of("field")' : nodes'[i].home = nodes'[s].type => i \in Of("field")
    BY <1>1, <1>2, <2>3
  <2> QED BY <1>1, <1>2, <1>3, <2>1, <2>2, <2>4
<1> QED BY <1>4

LEMMA ReachedByFragment ==
    ASSUME Homed, Plain, NEW node, NEW last, Grew(node, last), node.kind = "field",
           node.home \in Fragments, NEW s \in Of("spread"), nodes[s].type = node.home
    PROVE  Reached' = Reached \cup
               {<<nodes[nodes[s].home].type, nodes[s].path \o node.path>>}
<1> DEFINE place == <<nodes[nodes[s].home].type, nodes[s].path \o node.path>>
<1>1. /\ Of("field")' = Of("field") \cup {last} /\ Of("field") \subseteq DOMAIN nodes
      /\ Of("spread")' = Of("spread") /\ Of("spread") \subseteq DOMAIN nodes
  BY KindsGrow
<1>2. (\A i \in DOMAIN nodes : nodes'[i] = nodes[i]) /\ nodes'[last] = node
  BY DEF Grew
<1>3. nodes[s].home \in DOMAIN nodes
  BY <1>1 DEF Homed, Plain, Of
<1>4. /\ \A i \in Of("field") : OwnPlace(i)' = OwnPlace(i)
      /\ \A q \in Of("spread"), i \in Of("field") : SpreadPlace(q, i)' = SpreadPlace(q, i)
      /\ SpreadPlace(s, last)' = place
  BY <1>1, <1>2, <1>3, PlacesStay DEF SpreadPlace
<1>5. \A q \in Of("spread") : nodes[q].type = node.home => q = s
  BY DEF Plain
<1>6. ASSUME NEW r PROVE r \in Reached' <=> r \in Reached \/ r = place
  <2> HIDE DEF place
  <2>1. r \in Reached' <=>
          \/ \E i \in Of("field")' : nodes'[i].home \notin Fragments /\ r = OwnPlace(i)'
          \/ \E q \in Of("spread")', i \in Of("field")' :
               nodes'[i].home = nodes'[q].type /\ r = SpreadPlace(q, i)'
    BY ReachedNow DEF ReachedIs
  <2>2. r \in Reached <=>
          \/ \E i \in Of("field") : nodes[i].home \notin Fragments /\ r = OwnPlace(i)
          \/ \E q \in Of("spread"), i \in Of("field") :
               nodes[i].home = nodes[q].type /\ r = SpreadPlace(q, i)
    BY ReachedNow DEF ReachedIs
  <2>3. \A i \in Of("field")' : nodes'[i].home \notin Fragments => i \in Of("field")
    BY <1>1, <1>2
  <2>4. \A q \in Of("spread")', i \in Of("field")' :
          nodes'[i].home = nodes'[q].type => i \in Of("field") \/ (i = last /\ q = s)
    BY <1>1, <1>2, <1>5
  <2> QED BY <1>1, <1>2, <1>4, <2>1, <2>2, <2>3, <2>4
<1> QED BY <1>6

(***************************************************************************)
(* The rule, exactly: of a plain document it reports the places the        *)
(* executer reaches and the authority denies, and the mutation of a caller *)
(* who is not logged in, and nothing else.                                 *)
(***************************************************************************)
AnonymousMutation ==
    ~caller.authenticated /\ \E i \in Of("operation") : nodes[i].type = "mutation"

Denied ==
    {r \in Reached : ~CanAccess(r[1], r[2])}
    \cup (IF AnonymousMutation THEN {<<"mutation", <<>>>>} ELSE {})

\* In a fragment the root is where the fragment is spread.
Rooted ==
    /\ home \notin Fragments => root = NoOne
    /\ home \in Fragments =>
         \A s \in Of("spread") : nodes[s].type = home => root = nodes[s].path

\* The map has the spread of every fragment that is still to come.
Mapped ==
    \A f \in Fragments : (\A i \in DOMAIN nodes : nodes[i].home # f) =>
        /\ \A s \in Of("spread") : nodes[s].type = f => fragmentMap[f] = <<nodes[s].path>>
        /\ (\A s \in Of("spread") : nodes[s].type # f) => fragmentMap[f] = <<>>

OneType == \A i \in Of("operation") : nodes[i].type = type

Followed ==
    Plain => verdict # "threw" /\ errors = Denied /\ OneType /\ Rooted /\ Mapped

LEMMA AccessStays ==
    ASSUME UNCHANGED caller, NEW t, NEW path
    PROVE  CanAccess(t, path)' <=> CanAccess(t, path)
BY DEF CanAccess, Found, RequiredClaims, Matching

\* Nothing new is reached and no operation is new.
LEMMA DeniedStays ==
    ASSUME UNCHANGED caller, Reached' = Reached, AnonymousMutation' = AnonymousMutation
    PROVE  Denied' = Denied
<1>1. \A r : CanAccess(r[1], r[2])' <=> CanAccess(r[1], r[2])
  BY AccessStays
<1> QED BY <1>1 DEF Denied

LEMMA DeniedGrows ==
    ASSUME UNCHANGED caller, NEW t, NEW path, Reached' = Reached \cup {<<t, path>>},
           AnonymousMutation' = AnonymousMutation
    PROVE  Denied' = IF CanAccess(t, path) THEN Denied ELSE Denied \cup {<<t, path>>}
<1>1. \A r : CanAccess(r[1], r[2])' <=> CanAccess(r[1], r[2])
  BY AccessStays
<1>2. {r \in Reached' : ~CanAccess(r[1], r[2])'} =
        {r \in Reached : ~CanAccess(r[1], r[2])}
        \cup (IF CanAccess(t, path) THEN {} ELSE {<<t, path>>})
  BY <1>1
<1> DEFINE m == IF AnonymousMutation THEN {<<"mutation", <<>>>>} ELSE {}
<1>3. /\ Denied = {r \in Reached : ~CanAccess(r[1], r[2])} \cup m
      /\ Denied' = {r \in Reached' : ~CanAccess(r[1], r[2])'} \cup m
  BY DEF Denied
<1> HIDE DEF m
<1> QED BY <1>2, <1>3

\* A node that is not an operation leaves the operations' part alone.
LEMMA OperationsStay ==
    ASSUME UNCHANGED <<caller, type>>, NEW node, NEW last, Grew(node, last),
           node.kind # "operation", OneType
    PROVE  AnonymousMutation' = AnonymousMutation /\ OneType'
<1>1. /\ Of("operation")' = Of("operation") /\ Of("operation") \subseteq DOMAIN nodes
      /\ \A i \in DOMAIN nodes : nodes'[i] = nodes[i]
  BY KindsGrow DEF Grew
<1> QED BY <1>1 DEF AnonymousMutation, OneType

\* Nor does one that is no spread, in no new fragment, touch the map.
LEMMA MapStays ==
    ASSUME UNCHANGED fragmentMap, NEW node, NEW last, Grew(node, last),
           node.kind # "spread", Mapped
    PROVE  Mapped'
<1>1. /\ Of("spread")' = Of("spread") /\ Of("spread") \subseteq DOMAIN nodes
      /\ \A i \in DOMAIN nodes : nodes'[i] = nodes[i] /\ i \in DOMAIN nodes'
  BY KindsGrow DEF Grew
<1> QED BY <1>1 DEF Mapped

\* Nobody is in a fragment before the first fragment.
LEMMA NobodyInside ==
    ASSUME Homed, Of("fragment") = {} PROVE \A i \in DOMAIN nodes : nodes[i].home \notin Fragments
BY DEF Homed

LEMMA OperationFollowed ==
    ASSUME TypeOK, Homed, Followed, NEW t \in OperationTypes, EnterOperation(t), Plain'
    PROVE  verdict' # "threw" /\ errors' = Denied' /\ OneType' /\ Rooted' /\ Mapped'
<1> DEFINE node == [kind |-> "operation", home |-> home', type |-> t, path |-> <<>>]
           last == Len(nodes) + 1
<1>1. home' \in Homes /\ home' = last /\ last \in Nat
  BY BoundsAssumption DEF EnterOperation, Reading, Homes, TypeOK
<1>2. Grew(node, last)
  <2>1. node \in Nodes
    BY <1>1 DEF Nodes
  <2> QED BY <2>1, NodeRead DEF EnterOperation
<1>3. /\ node.kind = "operation" /\ node.type = t /\ type' = t /\ UNCHANGED <<caller, fragmentMap, root>>
      /\ verdict' = "reading"
      /\ home' \notin Fragments
  BY <1>1, NamesAssumption DEF EnterOperation, Reading
<1> HIDE DEF node, last
<1>4. /\ Plain /\ Of("fragment") = {} /\ home \notin Fragments
      /\ \A i \in Of("operation") : nodes[i].type = t
  BY <1>2, <1>3, PlainBefore
<1>5. errors = Denied /\ Rooted /\ Mapped
  BY <1>4 DEF Followed
<1>6. Reached' = Reached /\ Mapped'
  BY <1>2, <1>3, <1>4, <1>5, ReachedStays, MapStays
<1>7. /\ Of("operation")' = Of("operation") \cup {last} /\ nodes'[last].type = t
      /\ Of("operation") \subseteq DOMAIN nodes
      /\ \A i \in DOMAIN nodes : nodes'[i] = nodes[i]
  BY <1>2, <1>3, KindsGrow DEF Grew
<1>8. OneType'
  BY <1>3, <1>4, <1>7 DEF OneType
<1>9. Rooted'
  BY <1>3, <1>4, <1>5 DEF Rooted
<1>10. AnonymousMutation' <=> ~caller.authenticated /\ t = "mutation"
  BY <1>3, <1>4, <1>7 DEF AnonymousMutation
<1>11. AnonymousMutation => ~caller.authenticated /\ t = "mutation"
  BY <1>4 DEF AnonymousMutation
<1>12. errors' = Denied'
  <2> DEFINE m == <<"mutation", <<>>>>
             out == {r \in Reached : ~CanAccess(r[1], r[2])}
  <2>1. errors' = IF t = "mutation" /\ ~caller.authenticated THEN errors \cup {m} ELSE errors
    <3>1. t = "mutation" => <<t, <<>>>> = m
      OBVIOUS
    <3> QED BY <3>1 DEF EnterOperation
  <2>2. Denied = out \cup (IF AnonymousMutation THEN {m} ELSE {})
    BY DEF Denied
  <2>3. Denied' = out \cup (IF AnonymousMutation' THEN {m} ELSE {})
    <3>1. \A r : CanAccess(r[1], r[2])' <=> CanAccess(r[1], r[2])
      BY <1>3, AccessStays
    <3>2. {r \in Reached' : ~CanAccess(r[1], r[2])'} = out
      BY <1>6, <3>1
    <3> QED BY <3>2 DEF Denied
  <2> HIDE DEF m, out
  <2> QED BY <1>5, <1>10, <1>11, <2>1, <2>2, <2>3
<1> QED BY <1>3, <1>6, <1>8, <1>9, <1>12

LEMMA FieldFollowed ==
    ASSUME TypeOK, Homed, Followed, NEW name \in Names, EnterField(name), Plain'
    PROVE  verdict' # "threw" /\ errors' = Denied' /\ OneType' /\ Rooted' /\ Mapped'
<1> DEFINE node == [kind |-> "field", home |-> home, type |-> type, path |-> open']
           last == Len(nodes) + 1
           path == CurrentFieldPath(running')
<1>1. /\ node \in Nodes /\ Reads(node) /\ UNCHANGED <<caller, type, home, fragmentMap, root>>
      /\ home # NoOne /\ running' = open' /\ verdict' = "reading"
  BY DEF EnterField, Reading, Nodes, TypeOK, Homed
<1>2. Grew(node, last)
  BY <1>1, NodeRead
<1>3. node.kind = "field" /\ node.home = home /\ node.type = type /\ node.path = open'
  OBVIOUS
<1>4. errors' = IF CanAccess(type, path) THEN errors ELSE errors \cup {<<type, path>>}
  BY DEF EnterField
<1> HIDE DEF node, last
<1>5. Plain
  BY <1>1, <1>2, <1>3, PlainBefore
<1>6. errors = Denied /\ OneType /\ Rooted /\ Mapped
  BY <1>5 DEF Followed
<1>7. OneType' /\ Mapped' /\ AnonymousMutation' = AnonymousMutation
  BY <1>1, <1>2, <1>3, <1>6, OperationsStay, MapStays
<1>8. Of("spread")' = Of("spread") /\ \A i \in Of("spread") : nodes'[i] = nodes[i]
  BY <1>2, <1>3, KindsGrow DEF Grew
<1>9. Rooted'
  BY <1>1, <1>6, <1>8 DEF Rooted
<1>10. Reached' = Reached \cup {<<type, path>>}
  <2>1. CASE home \notin Fragments
    <3>1. path = open'
      BY <1>1, <1>6, <2>1 DEF Rooted, CurrentFieldPath
    <3> QED BY <1>2, <1>3, <1>5, <2>1, <3>1, ReachedByOperation
  <2>2. CASE home \in Fragments
    <3>1. PICK j \in Of("fragment") : nodes[j].home = home
      BY <2>2 DEF Homed
    <3>2. PICK s \in Of("spread") : nodes[s].type = home
      BY <1>5, <3>1 DEF Plain
    <3>3. root = nodes[s].path /\ nodes[s] \in Nodes
      BY <1>6, <2>2, <3>2 DEF Rooted, Of, TypeOK
    <3>4. root \in Seq(Names)
      BY <3>3 DEF Nodes
    <3>5. path = nodes[s].path \o open'
      BY <1>1, <3>3, <3>4, NamesAssumption DEF CurrentFieldPath
    <3>6. nodes[s].home \in Of("operation")
      BY <1>5, <3>2 DEF Homed, Plain, Of
    <3>7. nodes[nodes[s].home].type = type
      BY <1>6, <3>6 DEF OneType
    <3> QED BY <1>2, <1>3, <1>5, <2>2, <3>2, <3>5, <3>7, ReachedByFragment
  <2> QED BY <2>1, <2>2
<1> HIDE DEF path
<1>11. errors' = Denied'
  BY <1>1, <1>4, <1>6, <1>7, <1>10, DeniedGrows
<1> QED BY <1>1, <1>7, <1>9, <1>11

LEMMA SpreadFollowed ==
    ASSUME TypeOK, Homed, Followed, NEW f \in Fragments, EnterSpread(f), Plain'
    PROVE  verdict' # "threw" /\ errors' = Denied' /\ OneType' /\ Rooted' /\ Mapped'
<1> DEFINE node == [kind |-> "spread", home |-> home, type |-> f, path |-> open]
           last == Len(nodes) + 1
<1>1. /\ node \in Nodes /\ Reads(node) /\ UNCHANGED <<caller, type, home, root, errors>>
      /\ home # NoOne /\ running = open /\ verdict' = "reading"
      /\ fragmentMap' = [fragmentMap EXCEPT ![f] = Append(fragmentMap[f], open)]
  BY DEF EnterSpread, Reading, Nodes, TypeOK, Homed
<1>2. Grew(node, last)
  BY <1>1, NodeRead
<1>3. node.kind = "spread" /\ node.home = home /\ node.type = f /\ node.path = open
  OBVIOUS
<1> HIDE DEF node, last
<1>4. /\ Plain /\ Of("fragment") = {} /\ home \notin Fragments
      /\ \A s \in Of("spread") : nodes[s].type # f
  BY <1>1, <1>2, <1>3, PlainBefore
<1>5. errors = Denied /\ OneType /\ Rooted /\ Mapped
  BY <1>4 DEF Followed
<1>6. \A i \in DOMAIN nodes : nodes[i].home \notin Fragments
  BY <1>4, NobodyInside
<1>7. Reached' = Reached
  <2>1. \A i \in Of("field") : nodes[i].home # f
    BY <1>6 DEF Of
  <2> QED BY <1>2, <1>3, <1>4, <2>1, ReachedStays
<1>8. OneType' /\ AnonymousMutation' = AnonymousMutation
  BY <1>1, <1>2, <1>3, <1>5, OperationsStay
<1>9. errors' = Denied'
  BY <1>1, <1>5, <1>7, <1>8, DeniedStays
<1>10. Rooted'
  BY <1>1, <1>4, <1>5 DEF Rooted
<1>11. /\ Of("spread")' = Of("spread") \cup {last} /\ Of("spread") \subseteq DOMAIN nodes
       /\ \A i \in DOMAIN nodes : nodes'[i] = nodes[i] /\ i \in DOMAIN nodes'
       /\ nodes'[last].type = f /\ nodes'[last].path = open
  BY <1>2, <1>3, KindsGrow DEF Grew
<1>12. Mapped'
  <2>1. fragmentMap[f] = <<>>
    BY <1>4, <1>5, <1>6 DEF Mapped
  <2>2. fragmentMap'[f] = <<open>> /\ \A g \in Fragments \ {f} : fragmentMap'[g] = fragmentMap[g]
    BY <1>1, <2>1 DEF TypeOK
  <2>3. ASSUME NEW g \in Fragments, \A i \in DOMAIN nodes' : nodes'[i].home # g
        PROVE  /\ \A s \in Of("spread")' : nodes'[s].type = g => fragmentMap'[g] = <<nodes'[s].path>>
               /\ (\A s \in Of("spread")' : nodes'[s].type # g) => fragmentMap'[g] = <<>>
    <3>1. CASE g = f
      BY <1>4, <1>11, <2>2, <3>1
    <3>2. CASE g # f
      <4>1. \A i \in DOMAIN nodes : nodes[i].home # g
        BY <1>11, <2>3
      <4> QED BY <1>5, <1>11, <2>2, <3>2, <4>1 DEF Mapped
    <3> QED BY <3>1, <3>2
  <2> QED BY <2>3 DEF Mapped
<1> QED BY <1>1, <1>8, <1>9, <1>10, <1>12

LEMMA FragmentFollowed ==
    ASSUME TypeOK, Homed, Followed, NEW f \in Fragments, EnterFragment(f), Plain'
    PROVE  verdict' # "threw" /\ errors' = Denied' /\ OneType' /\ Rooted' /\ Mapped'
<1> DEFINE node == [kind |-> "fragment", home |-> f, type |-> f, path |-> <<>>]
           last == Len(nodes) + 1
<1>1. /\ node \in Nodes /\ Reads(node) /\ UNCHANGED <<caller, type, errors>> /\ home' = f
      /\ \A i \in DOMAIN nodes : nodes[i].home # f
      /\ verdict = "reading"
  BY DEF EnterFragment, Reading, Nodes, TypeOK, Homes
<1>2. Grew(node, last)
  BY <1>1, NodeRead
<1>3. node.kind = "fragment" /\ node.home = f
  OBVIOUS
<1> HIDE DEF node, last
<1>4. Plain /\ \E s \in Of("spread") : nodes[s].type = f
  BY <1>1, <1>2, <1>3, PlainBefore
<1>5. errors = Denied /\ OneType /\ Rooted /\ Mapped
  BY <1>4 DEF Followed
<1>6. PICK s \in Of("spread") : nodes[s].type = f
  BY <1>4
<1>7. fragmentMap[f] = <<nodes[s].path>>
  BY <1>1, <1>5, <1>6 DEF Mapped
<1>8. /\ root' = nodes[s].path /\ fragmentMap' = [fragmentMap EXCEPT ![f] = <<>>]
      /\ verdict' = "reading"
  BY <1>1, <1>7 DEF EnterFragment, Last
<1>9. Reached' = Reached /\ OneType' /\ AnonymousMutation' = AnonymousMutation
  BY <1>1, <1>2, <1>3, <1>4, <1>5, ReachedStays, OperationsStay
<1>10. errors' = Denied'
  BY <1>1, <1>5, <1>9, DeniedStays
<1>11. /\ Of("spread")' = Of("spread") /\ Of("spread") \subseteq DOMAIN nodes
       /\ \A i \in DOMAIN nodes : nodes'[i] = nodes[i] /\ i \in DOMAIN nodes'
       /\ last \in DOMAIN nodes' /\ nodes'[last].home = f
  BY <1>2, <1>3, KindsGrow DEF Grew
<1>12. Rooted'
  <2>1. \A q \in Of("spread") : nodes[q].type = f => q = s
    BY <1>4, <1>6 DEF Plain
  <2> QED BY <1>1, <1>8, <1>11, <2>1 DEF Rooted
<1>13. Mapped'
  <2>1. \A g \in Fragments \ {f} : fragmentMap'[g] = fragmentMap[g]
    BY <1>8 DEF TypeOK
  <2>2. ASSUME NEW g \in Fragments, \A i \in DOMAIN nodes' : nodes'[i].home # g
        PROVE  /\ \A q \in Of("spread")' : nodes'[q].type = g => fragmentMap'[g] = <<nodes'[q].path>>
               /\ (\A q \in Of("spread")' : nodes'[q].type # g) => fragmentMap'[g] = <<>>
    <3>1. g # f /\ \A i \in DOMAIN nodes : nodes[i].home # g
      BY <1>11, <2>2
    <3> QED BY <1>5, <1>11, <2>1, <3>1 DEF Mapped
  <2> QED BY <2>2 DEF Mapped
<1> QED BY <1>8, <1>9, <1>10, <1>12, <1>13

\* The verdict speaks for the errors.
Ended ==
    /\ verdict = "run" => errors = {}
    /\ verdict = "refused" => errors # {}

LEMMA NextFollowed == TypeOK /\ Homed /\ Followed /\ [Next]_vars => Followed'
<1> SUFFICES ASSUME TypeOK, Homed, Followed, [Next]_vars, Plain'
             PROVE  verdict' # "threw" /\ errors' = Denied' /\ OneType' /\ Rooted' /\ Mapped'
  BY DEF Followed
<1>1. ASSUME UNCHANGED <<caller, type, root, fragmentMap, errors, home, nodes>>,
             verdict' # verdict => verdict' \in {"run", "refused"}
      PROVE  verdict' # "threw" /\ errors' = Denied' /\ OneType' /\ Rooted' /\ Mapped'
  <2>1. \A kind : Of(kind)' = Of(kind)
    BY <1>1 DEF Of
  <2>2. Plain
    BY <1>1, <2>1 DEF Plain
  <2>3. Reached' = Reached
    BY <1>1 DEF Reached, FieldsOf, Of
  <2>4. AnonymousMutation' = AnonymousMutation
    BY <1>1, <2>1 DEF AnonymousMutation
  <2>5. Denied' = Denied
    BY <1>1, <2>3, <2>4, DeniedStays
  <2> QED BY <1>1, <2>1, <2>2, <2>5 DEF Followed, OneType, Rooted, Mapped
<1>2. CASE LeaveField
  BY <1>1, <1>2 DEF LeaveField
<1>3. CASE Execute
  BY <1>1, <1>3 DEF Execute
<1>4. CASE UNCHANGED vars
  BY <1>1, <1>4 DEF vars
<1> QED BY <1>2, <1>3, <1>4, OperationFollowed, FieldFollowed, SpreadFollowed, FragmentFollowed
        DEF Next, Done

LEMMA NextEnded == Ended /\ [Next]_vars => Ended'
<1> SUFFICES ASSUME Ended, [Next]_vars PROVE Ended'
  OBVIOUS
<1>1. CASE Execute
  BY <1>1 DEF Execute, Ended
<1>2. CASE UNCHANGED vars
  BY <1>2 DEF vars, Ended
<1>3. CASE verdict' \notin {"run", "refused"}
  BY <1>3 DEF Ended
<1>4. CASE LeaveField
  BY <1>4 DEF LeaveField, Ended
<1>5. ASSUME NEW t \in OperationTypes, EnterOperation(t) PROVE Ended'
  BY <1>5 DEF EnterOperation, Reading, Ended
<1>6. ASSUME NEW name \in Names, EnterField(name) PROVE Ended'
  BY <1>6 DEF EnterField, Reading, Ended
<1>7. ASSUME NEW f \in Fragments, EnterSpread(f) \/ EnterFragment(f) PROVE Ended'
  BY <1>7 DEF EnterSpread, EnterFragment, Reading, Ended
<1> QED BY <1>1, <1>2, <1>4, <1>5, <1>6, <1>7 DEF Next, Done

LEMMA InitFollowed == Init => Homed /\ Followed /\ Ended
<1> SUFFICES ASSUME Init PROVE Homed /\ Followed /\ Ended
  OBVIOUS
<1>1. /\ nodes = <<>> /\ DOMAIN nodes = {} /\ home = NoOne /\ root = NoOne /\ errors = {}
      /\ running = open /\ verdict = "reading" /\ home \notin Fragments
      /\ \A f \in Fragments : fragmentMap[f] = <<>>
  BY NamesAssumption DEF Init
<1>2. \A kind : Of(kind) = {}
  BY <1>1 DEF Of
<1>3. Homed
  BY <1>1 DEF Homed
<1>4. OneType /\ Rooted /\ Mapped /\ ~AnonymousMutation
  BY <1>1, <1>2 DEF OneType, Rooted, Mapped, AnonymousMutation
<1>5. Reached = {}
  BY <1>2 DEF Reached
<1>6. Denied = {}
  BY <1>4, <1>5 DEF Denied
<1>7. Followed
  BY <1>1, <1>4, <1>6 DEF Followed
<1> QED BY <1>1, <1>3, <1>7 DEF Ended

LEMMA AlwaysFollowed == Spec => [](TypeOK /\ Homed /\ Followed /\ Ended)
BY InitFollowed, NextHomed, NextFollowed, NextEnded, WalkTypeCorrect, PTL DEF Spec

\* A place that is reached has the type of an operation of the document.
LEMMA ReachedHasOperation ==
    ASSUME Homed, Plain, NEW r \in Reached
    PROVE  \E i \in Of("operation") : r[1] = nodes[i].type
<1>1. CASE \E i \in Of("field") : nodes[i].home \notin Fragments /\ r = OwnPlace(i)
  <2>1. PICK i \in Of("field") : nodes[i].home \notin Fragments /\ r = OwnPlace(i)
    BY <1>1
  <2>2. nodes[i].home \in Of("operation") /\ nodes[i].type = nodes[nodes[i].home].type
    BY <2>1 DEF Homed, Of
  <2>3. r[1] = nodes[i].type
    BY <2>1 DEF OwnPlace
  <2> QED BY <2>2, <2>3
<1>2. CASE \E s \in Of("spread"), i \in Of("field") :
             nodes[i].home = nodes[s].type /\ r = SpreadPlace(s, i)
  <2>1. PICK s \in Of("spread"), i \in Of("field") :
          nodes[i].home = nodes[s].type /\ r = SpreadPlace(s, i)
    BY <1>2
  <2>2. nodes[s].home \in Of("operation")
    BY DEF Homed, Plain, Of
  <2>3. r[1] = nodes[nodes[s].home].type
    BY <2>1 DEF SpreadPlace
  <2> QED BY <2>2, <2>3
<1> QED BY <1>1, <1>2, ReachedNow DEF ReachedIs

\* What the settings ask for, the rule looks up.
LEMMA AllowanceIsAccess ==
    ASSUME NEW t, NEW path, Allowed(t, path) PROVE CanAccess(t, path)
<1>1. \A i \in Matching(t, path) : caller.authenticated /\ Records[i].claims \subseteq caller.claims
  BY DEF Matching, Allowed
<1> QED BY <1>1 DEF CanAccess, Found, RequiredClaims

\* A plain document that runs reaches no field the caller may not have, at the
\* place where it reaches it, however fragments are spread over its operations.
THEOREM ReachedFieldsAreAllowed == Spec => []EveryReachedFieldIsAllowed
<1>1. Homed /\ Followed /\ Ended => EveryReachedFieldIsAllowed
  <2> SUFFICES ASSUME Homed, Followed, Ended, verdict = "run", Plain, NEW r \in Reached
               PROVE  Allowed(r[1], r[2])
    BY DEF EveryReachedFieldIsAllowed
  <2>1. Denied = {}
    BY DEF Followed, Ended
  <2>2. CanAccess(r[1], r[2]) /\ ~AnonymousMutation
    BY <2>1 DEF Denied
  <2>3. r[1] = "mutation" => caller.authenticated
    BY <2>2, ReachedHasOperation DEF AnonymousMutation
  <2> QED BY <2>2, <2>3, AccessIsAllowance
<1> QED BY <1>1, AlwaysFollowed, PTL

\* The rule never throws on a plain document, and one it refuses has a field or
\* an operation the caller may not have.
THEOREM RefusalsAreDeserved == Spec => []OnlyForbiddenFieldsAreRefused
<1>1. Followed /\ Ended => OnlyForbiddenFieldsAreRefused
  <2> SUFFICES ASSUME Followed, Ended, Plain
               PROVE  /\ verdict # "threw"
                      /\ verdict = "refused" =>
                           \/ \E r \in Reached : ~Allowed(r[1], r[2])
                           \/ \E i \in Of("operation") :
                                nodes[i].type = "mutation" /\ ~caller.authenticated
    BY DEF OnlyForbiddenFieldsAreRefused
  <2>1. verdict # "threw" /\ errors = Denied
    BY DEF Followed
  <2>2. ASSUME verdict = "refused"
        PROVE  \/ \E r \in Reached : ~Allowed(r[1], r[2])
               \/ \E i \in Of("operation") :
                    nodes[i].type = "mutation" /\ ~caller.authenticated
    <3>1. Denied # {}
      BY <2>1, <2>2 DEF Ended
    <3>2. CASE AnonymousMutation
      BY <3>2 DEF AnonymousMutation
    <3>3. CASE ~AnonymousMutation
      <4>1. PICK r \in Reached : ~CanAccess(r[1], r[2])
        BY <3>1, <3>3 DEF Denied
      <4> QED BY <4>1, AllowanceIsAccess
    <3> QED BY <3>2, <3>3
  <2> QED BY <2>1, <2>2
<1> QED BY <1>1, AlwaysFollowed, PTL
=============================================================================

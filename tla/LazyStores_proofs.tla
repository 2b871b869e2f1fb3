-------------------------- MODULE LazyStores_proofs --------------------------
(***************************************************************************)
(* For any number of requests, and settings of any length: the types, that *)
(* a store is complete when the last of its first requests is over, and    *)
(* that no request that begins after that is failed.                       *)
(***************************************************************************)
EXTENDS LazyStores, Integers, TLAPS

\* What a first request fills its collection from.
Settings(s) == IF s = "authorities" THEN Authorities ELSE Endpoints

\* Of the settings, the first that a first request has yet to add.
Position(r) == Len(Settings(Store(r))) - Len(todo[r]) + 1

\* A request has a collection in hand only between two steps of its own, and
\* the field is never null again.
InHand ==
  \A r \in Requests :
    /\ stage[r] \in {"fill", "add", "contains", "index"} => field[Store(r)] # Nobody
    /\ stage[r] \in {"fill", "add"} => Store(r) # "database"
    /\ stage[r] = "add" => ref[r] # Nobody
    /\ stage[r] \in {"idle", "create", "fill", "done"} => ref[r] = Nobody

\* What is left to add is the end of the settings.
InOrder ==
  \A r \in Requests : stage[r] \in {"fill", "add"} =>
    /\ Len(todo[r]) <= Len(Settings(Store(r)))
    /\ \A k \in 1 .. Len(todo[r]) : todo[r][k] = Settings(Store(r))[Position(r) + k - 1]

Typed == TypeOK /\ InHand /\ InOrder

LEMMA StoreNames ==
  ASSUME NEW a \in Asked
  PROVE  /\ Singleton(a.operation) \in Singletons
         /\ Singleton(a.operation) = "authorities" <=> a.operation = "Get"
         /\ Singleton(a.operation) = "endpoints" <=> a.operation = "GetGraphQLEndpoints"
         /\ a.operation = "Get" => a.scheme \in ToSet(Authorities)
         /\ a.operation \in {"PublishState", "GetPublishState"} => a.client \in Clients
         /\ a.operation = "PublishState" => a.state \in States
         /\ Uses(a.operation) \in {"contains", "index"}
BY DEF Asked, Singleton, Singletons, Uses

LEMMA SettingsAreSequences ==
  /\ Authorities \in Seq(ToSet(Authorities)) /\ Endpoints \in Seq(ToSet(Endpoints))
  /\ Len(Authorities) \in Nat /\ Len(Endpoints) \in Nat
  /\ <<>> \in Seq(ToSet(Authorities)) /\ <<>> \in Seq(ToSet(Endpoints))
  /\ \A s : Settings(s) \in Seq(ToSet(Authorities)) \cup Seq(ToSet(Endpoints))
<1>1. Authorities \in Seq(ToSet(Authorities)) /\ Endpoints \in Seq(ToSet(Endpoints))
  BY AuthoritiesAssumption, EndpointsAssumption
<1> QED BY <1>1 DEF Settings

LEMMA InitTyped == Init => Typed
<1> SUFFICES ASSUME Init PROVE Typed
  OBVIOUS
<1>1. NoQuestion \in Asked
  BY DEF NoQuestion, Asked
<1>2. TypeOK
  BY <1>1, SettingsAreSequences DEF Init, TypeOK, Stages, Outcomes
<1>3. InHand /\ InOrder
  BY DEF Init, InHand, InOrder
<1> QED BY <1>2, <1>3 DEF Typed

\* What is left to add after the first of it.
LEMMA TailInOrder ==
  ASSUME NEW S, NEW t \in Seq(S), t # <<>>, NEW n \in Nat, NEW s, Len(t) <= n,
         \A k \in 1 .. Len(t) : t[k] = s[n - Len(t) + k]
  PROVE  /\ Tail(t) \in Seq(S) /\ Head(t) \in S
         /\ Len(t) \in Nat /\ Len(t) > 0 /\ Len(Tail(t)) = Len(t) - 1
         /\ Head(t) = s[n - Len(t) + 1]
         /\ \A k \in 1 .. Len(Tail(t)) : Tail(t)[k] = s[n - Len(Tail(t)) + k]
<1>1. Len(t) \in Nat /\ Len(t) > 0 /\ Len(Tail(t)) = Len(t) - 1 /\ Tail(t) \in Seq(S)
  OBVIOUS
<1>2. Head(t) = t[1] /\ t[1] \in S
  OBVIOUS
<1>3. Head(t) = s[n - Len(t) + 1]
  BY <1>1, <1>2
<1>4. ASSUME NEW k \in 1 .. Len(Tail(t)) PROVE Tail(t)[k] = s[n - Len(Tail(t)) + k]
  <2>1. Tail(t)[k] = t[k + 1] /\ k + 1 \in 1 .. Len(t)
    BY <1>1
  <2>2. n - Len(t) + (k + 1) = n - Len(Tail(t)) + k
    BY <1>1
  <2> QED BY <2>1, <2>2
<1> QED BY <1>1, <1>2, <1>3, <1>4

\* A first request that is about to add something.
LEMMA Adding ==
  ASSUME Typed, NEW r \in Requests, stage[r] = "add", todo[r] # <<>>
  PROVE  /\ ref[r] \in Requests /\ Len(todo[r]) \in Nat /\ Len(Tail(todo[r])) = Len(todo[r]) - 1
         /\ Position(r) \in 1 .. Len(Settings(Store(r)))
         /\ Head(todo[r]) = Settings(Store(r))[Position(r)]
         /\ Tail(todo[r]) \in Seq(ToSet(Authorities)) \cup Seq(ToSet(Endpoints))
         /\ Len(Tail(todo[r])) <= Len(Settings(Store(r)))
         /\ \A k \in 1 .. Len(Tail(todo[r])) :
              Tail(todo[r])[k] = Settings(Store(r))[Len(Settings(Store(r))) - Len(Tail(todo[r])) + k]
<1> DEFINE s == Settings(Store(r))
           n == Len(s)
           t == todo[r]
<1>1. n \in Nat /\ Len(t) \in Nat
  BY SettingsAreSequences DEF Typed, TypeOK
<1>2. Len(t) <= n /\ \A k \in 1 .. Len(t) : t[k] = s[Position(r) + k - 1]
  BY DEF Typed, InOrder
<1>3. Position(r) = n - Len(t) + 1
  BY DEF Position
<1>4. ASSUME NEW k \in 1 .. Len(t) PROVE t[k] = s[n - Len(t) + k]
  <2>1. t[k] = s[Position(r) + k - 1]
    BY <1>2
  <2> HIDE DEF s, n, t
  <2>2. Position(r) + k - 1 = n - Len(t) + k
    BY <1>1, <1>3
  <2> QED BY <2>1, <2>2
<1>5. PICK S : (S = ToSet(Authorities) \/ S = ToSet(Endpoints)) /\ t \in Seq(S)
  BY DEF Typed, TypeOK
<1>6. t # <<>>
  OBVIOUS
<1>7. ref[r] \in Requests
  BY DEF Typed, TypeOK, InHand
<1> HIDE DEF s, n, t
<1>8. /\ Tail(t) \in Seq(S) /\ Len(t) > 0 /\ Len(Tail(t)) = Len(t) - 1
      /\ Head(t) = s[n - Len(t) + 1]
      /\ \A k \in 1 .. Len(Tail(t)) : Tail(t)[k] = s[n - Len(Tail(t)) + k]
  BY <1>1, <1>2, <1>4, <1>5, <1>6, TailInOrder
<1>9. Position(r) \in 1 .. n /\ Len(Tail(t)) <= n /\ Len(Tail(t)) = Len(t) - 1
  <2>1. Len(t) <= n /\ Len(t) > 0 /\ Len(Tail(t)) = Len(t) - 1
    BY <1>2, <1>8
  <2>2. Len(Tail(t)) <= n
    BY <1>1, <2>1
  <2>3. n - Len(t) + 1 \in 1 .. n
    BY <1>1, <2>1
  <2> QED BY <1>3, <2>1, <2>2, <2>3
<1>10. Head(t) = s[Position(r)]
  BY <1>3, <1>8
<1>11. Tail(t) \in Seq(ToSet(Authorities)) \cup Seq(ToSet(Endpoints))
  BY <1>5, <1>8
<1> QED BY <1>1, <1>7, <1>8, <1>9, <1>10, <1>11 DEF s, n, t

\* A step that adds nothing and begins nothing keeps what is left in order.
LEMMA OrderKept ==
  ASSUME InOrder, UNCHANGED <<asks, todo>>,
         \A r \in Requests : stage'[r] \in {"fill", "add"} => stage[r] \in {"fill", "add"}
  PROVE  InOrder'
BY DEF InOrder, Position, Store

LEMMA LookTyped ==
  ASSUME Typed, NEW r \in Requests, NEW a \in Asked, Look(r, a) PROVE Typed'
<1> USE DEF Typed
<1>1. asks' \in [Requests -> Asked]
  BY DEF TypeOK, Look
<1>2. late' \in [Requests -> BOOLEAN]
  BY Zenon DEF TypeOK, Look, Settled
<1>3. stage' = [stage EXCEPT ![r] = "create"] \/ /\ stage' = [stage EXCEPT ![r] = Uses(a.operation)]
                                                 /\ field[Singleton(a.operation)] # Nobody
  BY DEF Look, Goes
<1>4. Uses(a.operation) \in {"contains", "index"}
  BY StoreNames
<1>5. stage' \in [Requests -> Stages]
  BY <1>3, <1>4 DEF TypeOK, Stages
<1>6. TypeOK'
  BY <1>1, <1>2, <1>5 DEF TypeOK, Look, collections
<1>7. stage[r] = "idle" /\ asks' = [asks EXCEPT ![r] = a] /\ UNCHANGED <<collections, ref, todo>>
  BY DEF Look
<1>8. ASSUME NEW q \in Requests, q # r
      PROVE  stage'[q] = stage[q] /\ asks'[q] = asks[q]
  BY <1>3, <1>7, <1>8 DEF TypeOK
<1>9. stage'[r] \in {"create", "contains", "index"} /\ asks'[r] = a
      /\ (stage'[r] # "create" => field[Singleton(a.operation)] # Nobody)
  BY <1>3, <1>4, <1>7 DEF TypeOK
<1>10. InHand'
  <2> SUFFICES ASSUME NEW q \in Requests
               PROVE  /\ stage'[q] \in {"fill", "add", "contains", "index"} => field[Store(q)'] # Nobody
                      /\ stage'[q] \in {"fill", "add"} => Store(q)' # "database"
                      /\ stage'[q] = "add" => ref[q] # Nobody
                      /\ stage'[q] \in {"idle", "create", "fill", "done"} => ref[q] = Nobody
    BY <1>7 DEF InHand, collections
  <2>1. CASE q = r
    BY <1>7, <1>9, <2>1 DEF InHand, Store
  <2>2. CASE q # r
    BY <1>8, <2>2 DEF InHand, Store
  <2> QED BY <2>1, <2>2
<1>11. InOrder'
  <2> SUFFICES ASSUME NEW q \in Requests, stage'[q] \in {"fill", "add"}
               PROVE  /\ Len(todo[q]) <= Len(Settings(Store(q)'))
                      /\ \A k \in 1 .. Len(todo[q]) :
                           todo[q][k] = Settings(Store(q)')[Position(q)' + k - 1]
    BY <1>7 DEF InOrder
  <2>1. q # r /\ stage[q] \in {"fill", "add"} /\ asks'[q] = asks[q] /\ todo' = todo
    BY <1>7, <1>8, <1>9
  <2>2. Store(q)' = Store(q) /\ Position(q)' = Position(q)
    BY <2>1 DEF Store, Position
  <2> QED BY <2>1, <2>2 DEF InOrder
<1> QED BY <1>6, <1>10, <1>11

LEMMA CreateTyped ==
  ASSUME Typed, NEW r \in Requests, Create(r) PROVE Typed'
<1> USE DEF Typed
<1>1. /\ stage[r] = "create" /\ field' = [field EXCEPT ![Store(r)] = r]
      /\ UNCHANGED <<asks, ref, outcome, late, kept>>
  BY DEF Create
<1>2. Store(r) \in Singletons /\ Uses(asks[r].operation) \in {"contains", "index"}
  BY StoreNames DEF TypeOK, Store
<1>3. field' \in [Singletons -> Requests \cup {Nobody}]
      /\ \A s \in Singletons : s = Store(r) \/ field[s] # Nobody => field'[s] # Nobody
  BY <1>1, <1>2, NobodyAssumption DEF TypeOK
<1>4. CASE Store(r) # "database"
  <2>1. todo' = [todo EXCEPT ![r] = Settings(Store(r))] /\ stage' = [stage EXCEPT ![r] = "fill"]
    BY <1>2, <1>4 DEF Create, Singletons, Goes, Settings
  <2>2. containers' \in [Requests -> SUBSET ToSet(Authorities)] /\ database' = database
    BY <1>2, <1>4 DEF TypeOK, Create, Singletons
  <2>3. listed' \in [Requests -> Seq(ToSet(Endpoints))]
    BY <1>2, <1>4, SettingsAreSequences DEF TypeOK, Create, Singletons
  <2>4. todo' \in [Requests -> Seq(ToSet(Authorities)) \cup Seq(ToSet(Endpoints))]
    BY <2>1, SettingsAreSequences DEF TypeOK
  <2>5. stage' \in [Requests -> Stages]
    BY <2>1 DEF TypeOK, Stages
  <2>6. TypeOK'
    BY <1>1, <1>3, <2>2, <2>3, <2>4, <2>5 DEF TypeOK
  <2>7. InHand'
    BY <1>1, <1>3, <1>4, <2>1 DEF InHand, TypeOK, Store
  <2>8. ASSUME NEW q \in Requests, stage'[q] \in {"fill", "add"}
        PROVE  /\ Len(todo'[q]) <= Len(Settings(Store(q)))
               /\ \A k \in 1 .. Len(todo'[q]) :
                    todo'[q][k] = Settings(Store(q))[Position(q)' + k - 1]
    <3>1. Store(q)' = Store(q)
      BY <1>1 DEF Store
    <3>2. CASE q = r
      <4>1. todo'[q] = Settings(Store(q)) /\ Len(Settings(Store(q))) \in Nat
        BY <2>1, <3>2, SettingsAreSequences DEF TypeOK
      <4>2. Position(q)' = 1
        BY <3>1, <4>1 DEF Position
      <4> QED BY <4>1, <4>2
    <3>3. CASE q # r
      <4>1. todo'[q] = todo[q] /\ stage[q] \in {"fill", "add"}
        BY <2>1, <2>8, <3>3 DEF TypeOK
      <4>2. Position(q)' = Position(q)
        BY <3>1, <4>1 DEF Position
      <4> QED BY <4>1, <4>2 DEF InOrder
    <3> QED BY <3>2, <3>3
  <2>9. InOrder'
    BY <1>1, <2>8 DEF InOrder, Store
  <2> QED BY <2>6, <2>7, <2>9
<1>5. CASE Store(r) = "database"
  <2>1. /\ stage' = [stage EXCEPT ![r] = Uses(asks[r].operation)]
        /\ database' = [database EXCEPT ![r] = [c \in Clients |-> NoState]]
        /\ UNCHANGED <<containers, listed, todo>>
    BY <1>5 DEF Create, Goes
  <2>2. stage' \in [Requests -> Stages]
    BY <1>2, <2>1 DEF TypeOK, Stages
  <2>3. TypeOK'
    BY <1>1, <1>3, <2>1, <2>2 DEF TypeOK
  <2>4. InHand'
    BY <1>1, <1>2, <1>3, <2>1 DEF InHand, TypeOK, Store
  <2>5. InOrder'
    BY <1>1, <1>2, <2>1, OrderKept DEF TypeOK
  <2> QED BY <2>3, <2>4, <2>5
<1> QED BY <1>4, <1>5

\* The first of what is left is added, or dies of it.
LEMMA AddTyped ==
  ASSUME Typed, NEW r \in Requests, AddContainer(r) \/ BindEndpoint(r) PROVE Typed'
<1> USE DEF Typed
<1>1. /\ stage[r] = "add" /\ todo[r] # <<>> /\ ref[r] \in Requests
      /\ UNCHANGED <<field, database, asks, late, kept>>
  BY Adding DEF AddContainer, BindEndpoint
<1>2. /\ todo' \in [Requests -> Seq(ToSet(Authorities)) \cup Seq(ToSet(Endpoints))]
      /\ UNCHANGED todo \/ todo' = [todo EXCEPT ![r] = Tail(todo[r])]
  <2>1. UNCHANGED todo \/ todo' = [todo EXCEPT ![r] = Tail(todo[r])]
    BY DEF AddContainer, BindEndpoint
  <2> QED BY <1>1, <2>1, Adding DEF TypeOK
<1>3. /\ stage' \in [Requests -> Stages] /\ outcome' \in [Requests -> Outcomes]
      /\ ref' \in [Requests -> Requests \cup {Nobody}]
  BY DEF TypeOK, AddContainer, BindEndpoint, Ends, Goes, Leaves, Stages, Outcomes
<1>4. containers' \in [Requests -> SUBSET ToSet(Authorities)] /\ listed' \in [Requests -> Seq(ToSet(Endpoints))]
  <2>1. CASE AddContainer(r)
    <3>1. Head(todo[r]) \in ToSet(Authorities)
      <4>1. Settings(Store(r)) = Authorities
        BY <2>1 DEF AddContainer, Settings
      <4>2. Position(r) \in 1 .. Len(Authorities) /\ Head(todo[r]) = Authorities[Position(r)]
        BY <1>1, <4>1, Adding
      <4> QED BY <4>2, SettingsAreSequences
    <3>2. \/ UNCHANGED containers
          \/ containers' = [containers EXCEPT ![ref[r]] = containers[ref[r]] \cup {Head(todo[r])}]
      BY <2>1 DEF AddContainer
    <3>3. listed' = listed
      BY <2>1 DEF AddContainer
    <3>4. containers[ref[r]] \cup {Head(todo[r])} \in SUBSET ToSet(Authorities)
      BY <1>1, <3>1 DEF TypeOK
    <3>5. containers' \in [Requests -> SUBSET ToSet(Authorities)]
      BY <3>2, <3>4 DEF TypeOK
    <3> QED BY <3>3, <3>5 DEF TypeOK
  <2>2. CASE BindEndpoint(r)
    <3>1. Head(todo[r]) \in ToSet(Endpoints)
      <4>1. Settings(Store(r)) = Endpoints
        BY <2>2 DEF BindEndpoint, Settings
      <4>2. Position(r) \in 1 .. Len(Endpoints) /\ Head(todo[r]) = Endpoints[Position(r)]
        BY <1>1, <4>1, Adding
      <4> QED BY <4>2, SettingsAreSequences
    <3> QED BY <1>1, <2>2, <3>1 DEF TypeOK, BindEndpoint
  <2> QED BY <2>1, <2>2
<1>5. TypeOK'
  BY <1>1, <1>2, <1>3, <1>4 DEF TypeOK
<1>6. \/ stage' = [stage EXCEPT ![r] = "done"] /\ ref' = [ref EXCEPT ![r] = Nobody]
      \/ stage' = [stage EXCEPT ![r] = "fill"] /\ ref' = [ref EXCEPT ![r] = Nobody]
      \/ UNCHANGED <<stage, ref>>
  BY DEF AddContainer, BindEndpoint, Ends, Goes, Leaves
<1>7. InHand'
  BY <1>1, <1>6 DEF InHand, TypeOK, Store
<1>8. ASSUME NEW q \in Requests, stage'[q] \in {"fill", "add"}
      PROVE  /\ Len(todo'[q]) <= Len(Settings(Store(q)))
             /\ \A k \in 1 .. Len(todo'[q]) :
                  todo'[q][k] = Settings(Store(q))[Position(q)' + k - 1]
  <2>1. Store(q)' = Store(q) /\ stage[q] \in {"fill", "add"}
    BY <1>1, <1>6, <1>8 DEF Store, TypeOK
  <2>2. CASE todo'[q] = todo[q]
    <3>1. Position(q)' = Position(q)
      BY <2>1, <2>2 DEF Position
    <3> QED BY <2>1, <2>2, <3>1 DEF InOrder
  <2>3. CASE q = r /\ todo'[q] = Tail(todo[q])
    <3> DEFINE n == Len(Settings(Store(q)))
               t == Tail(todo[q])
    <3>1. /\ Len(t) <= n /\ Len(t) \in Nat /\ n \in Nat
          /\ \A k \in 1 .. Len(t) : t[k] = Settings(Store(q))[n - Len(t) + k]
      <4>1. stage[q] = "add" /\ todo[q] # <<>> /\ n \in Nat
        BY <1>1, <2>3, SettingsAreSequences
      <4>2. Len(t) = Len(todo[q]) - 1 /\ Len(todo[q]) \in Nat /\ todo[q] # <<>>
        BY <4>1, Adding
      <4>3. Len(t) \in Nat
        BY <4>1, <4>2
      <4> QED BY <4>1, <4>3, Adding
    <3>2. Position(q)' = n - Len(t) + 1
      BY <2>1, <2>3 DEF Position
    <3> HIDE DEF n, t
    <3>3. ASSUME NEW k \in 1 .. Len(t) PROVE Position(q)' + k - 1 = n - Len(t) + k
      BY <3>1, <3>2
    <3>4. todo'[q] = t
      BY <2>3 DEF t
    <3> QED BY <3>1, <3>3, <3>4 DEF n
  <2> QED BY <1>2, <2>2, <2>3 DEF TypeOK
<1>9. InOrder'
  BY <1>1, <1>8 DEF InOrder, Store
<1> QED BY <1>5, <1>7, <1>9

\* A request that uses a collection, or puts it down.
LEMMA UseTyped ==
  ASSUME Typed, NEW r \in Requests,
         Take(r) \/ Filled(r) \/ ContainsKey(r) \/ Index(r) \/ ListEndpoints(r) \/ Publish(r)
  PROVE  Typed'
<1> USE DEF Typed
<1>1. UNCHANGED <<field, containers, listed, asks, todo, late>>
  BY DEF Take, Filled, ContainsKey, Index, ListEndpoints, Publish, collections
<1>2. /\ Store(r) \in Singletons /\ Uses(asks[r].operation) \in {"contains", "index"}
      /\ stage[r] \in {"fill", "add", "contains", "index"} /\ field[Store(r)] # Nobody
  <2>1. Store(r) \in Singletons /\ Uses(asks[r].operation) \in {"contains", "index"}
    BY StoreNames DEF TypeOK, Store
  <2>2. stage[r] \in {"fill", "add", "contains", "index"}
    BY DEF Take, Filled, ContainsKey, Index, ListEndpoints, Publish
  <2> QED BY <2>1, <2>2 DEF InHand
<1>3. \/ Take(r) /\ ref' = [ref EXCEPT ![r] = field[Store(r)]]
                 /\ \/ stage[r] = "fill" /\ stage' = [stage EXCEPT ![r] = "add"]
                    \/ stage[r] # "fill" /\ UNCHANGED stage
      \/ ref' = [ref EXCEPT ![r] = Nobody] /\ \E to \in {"contains", "index", "done"} : Goes(r, to)
  BY <1>2 DEF Take, Filled, ContainsKey, Index, ListEndpoints, Publish, Ends, Goes, Leaves
<1>4. stage' \in [Requests -> Stages] /\ ref' \in [Requests -> Requests \cup {Nobody}]
  BY <1>2, <1>3 DEF TypeOK, Goes, Stages
<1>5. outcome' \in [Requests -> Outcomes]
  BY DEF TypeOK, Take, Filled, ContainsKey, Index, ListEndpoints, Publish, Ends, Outcomes
<1>6. /\ database' \in [Requests -> [Clients -> States \cup {NoState}]]
      /\ kept' \in [Clients -> States \cup {NoState}]
  <2>1. CASE Publish(r)
    <3>1. asks[r].state \in States
      BY <2>1, StoreNames DEF TypeOK, Publish
    <3> QED BY <2>1, <3>1 DEF TypeOK, Publish
  <2>2. CASE UNCHANGED <<database, kept>>
    BY <2>2 DEF TypeOK
  <2> QED BY <2>1, <2>2 DEF Take, Filled, ContainsKey, Index, ListEndpoints, collections
<1>7. TypeOK'
  BY <1>1, <1>4, <1>5, <1>6 DEF TypeOK
<1>8. InHand'
  BY <1>1, <1>2, <1>3 DEF InHand, TypeOK, Store, Goes
<1>9. InOrder'
  <2>1. \A q \in Requests : stage'[q] \in {"fill", "add"} => stage[q] \in {"fill", "add"}
    BY <1>3 DEF TypeOK, Goes
  <2> QED BY <1>1, <2>1, OrderKept
<1> QED BY <1>7, <1>8, <1>9

LEMMA ReturnTyped ==
  ASSUME Typed, NEW r \in Requests, Return(r) PROVE Typed'
<1> USE DEF Typed
<1>1. NoQuestion \in Asked
  BY DEF NoQuestion, Asked
<1>2. TypeOK'
  BY <1>1, SettingsAreSequences DEF TypeOK, Return, Goes, collections, Stages, Outcomes
<1>3. ASSUME NEW q \in Requests
      PROVE  \/ q = r /\ stage'[q] = "idle" /\ ref'[q] = Nobody
             \/ /\ stage'[q] = stage[q] /\ ref'[q] = ref[q] /\ Store(q)' = Store(q)
                /\ todo'[q] = todo[q] /\ Position(q)' = Position(q)
  <2>1. CASE q = r
    BY <2>1 DEF Return, Goes, TypeOK, InHand
  <2>2. CASE q # r
    <3>1. asks'[q] = asks[q] /\ todo'[q] = todo[q] /\ stage'[q] = stage[q] /\ ref'[q] = ref[q]
      BY <2>2 DEF Return, Goes, TypeOK
    <3> QED BY <3>1 DEF Store, Position
  <2> QED BY <2>1, <2>2
<1>4. field' = field
  BY DEF Return, collections
<1>5. InHand' /\ InOrder'
  BY <1>3, <1>4 DEF InHand, InOrder
<1> QED BY <1>2, <1>5

LEMMA StepTyped == Typed /\ [Next]_vars => Typed'
<1> SUFFICES ASSUME Typed, [Next]_vars PROVE Typed'
  OBVIOUS
<1>1. CASE UNCHANGED vars
  BY <1>1 DEF vars, collections, locals, Typed, TypeOK, InHand, InOrder, Position, Store
<1>2. ASSUME NEW r \in Requests, NEW a \in Asked, Look(r, a) PROVE Typed'
  BY <1>2, LookTyped
<1> QED BY <1>1, <1>2, CreateTyped, AddTyped, UseTyped, ReturnTyped DEF Next

(* The types, for any requests, settings, clients and states.               *)
THEOREM LazyTypeCorrect == Spec => []TypeOK
<1>1. Typed => TypeOK
  BY DEF Typed
<1> QED BY <1>1, InitTyped, StepTyped, PTL DEF Spec

-----------------------------------------------------------------------------
(* Once the last first request of a singleton is over, there is never one   *)
(* again, and its field keeps its collection.                               *)
LEMMA SettledStays ==
  ASSUME Typed, [Next]_vars, NEW s \in Singletons, Settled(s)
  PROVE  Settled(s)' /\ field'[s] = field[s]
<1> USE DEF Typed
<1>1. ASSUME NEW r \in Requests, NEW a \in Asked, Look(r, a) PROVE Settled(s)' /\ field'[s] = field[s]
  <2>1. field' = field
    BY <1>1 DEF Look, collections
  <2>2. ASSUME NEW q \in Requests, Store(q)' = s, stage'[q] \in {"create", "fill", "add"} PROVE FALSE
    <3>1. CASE q = r
      <4>1. Singleton(a.operation) = s
        BY <1>1, <2>2, <3>1 DEF Look, Store, TypeOK
      <4>2. stage'[r] = Uses(a.operation)
        BY <1>1, <4>1 DEF Look, Goes, Settled, TypeOK
      <4> QED BY <2>2, <3>1, <4>2, StoreNames
    <3>2. CASE q # r
      <4>1. Store(q) = s /\ stage[q] = stage'[q]
        BY <1>1, <2>2, <3>2 DEF Look, Goes, Store, TypeOK
      <4> QED BY <2>2, <4>1 DEF Settled, Starting
    <3> QED BY <3>1, <3>2
  <2> QED BY <2>1, <2>2 DEF Settled, Starting
<1>2. ASSUME NEW r \in Requests, Create(r) PROVE Settled(s)' /\ field'[s] = field[s]
  <2>1. Store(r) # s
    BY <1>2 DEF Create, Settled, Starting
  <2>2. asks' = asks /\ field'[s] = field[s]
    BY <1>2, <2>1 DEF Create, TypeOK
  <2>3. \A q \in Requests : q # r => stage'[q] = stage[q]
    BY <1>2 DEF Create, Goes, TypeOK
  <2> QED BY <2>1, <2>2, <2>3 DEF Settled, Starting, Store
<1>3. ASSUME UNCHANGED <<field, asks>>,
             \A q \in Requests : stage'[q] \in {"create", "fill", "add"} =>
                                 stage[q] \in {"create", "fill", "add"}
      PROVE  Settled(s)' /\ field'[s] = field[s]
  BY <1>3 DEF Settled, Starting, Store
<1>4. ASSUME NEW r \in Requests, AddContainer(r) \/ BindEndpoint(r)
      PROVE  Settled(s)' /\ field'[s] = field[s]
  BY <1>3, <1>4 DEF AddContainer, BindEndpoint, Ends, Goes, TypeOK
<1>5. ASSUME NEW r \in Requests,
             Take(r) \/ Filled(r) \/ ContainsKey(r) \/ Index(r) \/ ListEndpoints(r) \/ Publish(r)
      PROVE  Settled(s)' /\ field'[s] = field[s]
  <2>1. UNCHANGED <<field, asks>>
    BY <1>5 DEF Take, Filled, ContainsKey, Index, ListEndpoints, Publish, collections
  <2>2. Uses(asks[r].operation) \in {"contains", "index"}
    BY StoreNames DEF TypeOK
  <2>3. \/ stage[r] = "fill" /\ Goes(r, "add")
        \/ UNCHANGED stage
        \/ \E to \in {"contains", "index", "done"} : Goes(r, to)
    BY <1>5, <2>2 DEF Take, Filled, ContainsKey, Index, ListEndpoints, Publish, Ends, Goes
  <2> QED BY <1>3, <2>1, <2>3 DEF Goes, TypeOK
<1>6. ASSUME NEW r \in Requests, Return(r) PROVE Settled(s)' /\ field'[s] = field[s]
  <2>1. field' = field
    BY <1>6 DEF Return, collections
  <2>2. \A q \in Requests : stage'[q] = "idle" \/ (stage'[q] = stage[q] /\ asks'[q] = asks[q])
    BY <1>6 DEF Return, Goes, TypeOK
  <2> QED BY <2>1, <2>2 DEF Settled, Starting, Store
<1>7. CASE UNCHANGED vars
  BY <1>7 DEF vars, collections, locals, Settled, Starting, Store
<1> QED BY <1>1, <1>2, <1>4, <1>5, <1>6, <1>7 DEF Next

-----------------------------------------------------------------------------
(* Whatever the collection in the field still lacks is on its way.          *)

\* r fills the collection in the field.
Filling(r, s) ==
  Store(r) = s /\ (stage[r] = "fill" \/ (stage[r] = "add" /\ ref[r] = field[s]))

\* r will add the i-th authority, and no duplicate key before it ends r.
AuthorityComes(r, i) ==
  /\ Filling(r, "authorities") /\ Position(r) <= i
  /\ \A k \in Position(r) .. i : Authorities[k] \notin containers[field["authorities"]]

AuthoritiesCome ==
  field["authorities"] # Nobody =>
    \A i \in 1 .. Len(Authorities) :
      \/ Authorities[i] \in containers[field["authorities"]]
      \/ \E r \in Requests : AuthorityComes(r, i)

\* An endpoint that is listed twice does no harm.
EndpointComes(r, i) == Filling(r, "endpoints") /\ Position(r) <= i

EndpointsCome ==
  field["endpoints"] # Nobody =>
    \A i \in 1 .. Len(Endpoints) :
      \/ Endpoints[i] \in ToSet(listed[field["endpoints"]])
      \/ \E r \in Requests : EndpointComes(r, i)

LEMMA InitCome == Init => AuthoritiesCome /\ EndpointsCome
BY DEF Init, AuthoritiesCome, EndpointsCome, Singletons

\* What one request does leaves the others where they are.
Steps(r) ==
  \/ \E a \in Asked : Look(r, a)
  \/ Create(r) \/ Take(r) \/ AddContainer(r) \/ BindEndpoint(r) \/ Filled(r)
  \/ ContainsKey(r) \/ Index(r) \/ ListEndpoints(r) \/ Publish(r) \/ Return(r)

LEMMA Bystanders ==
  ASSUME Typed, NEW r \in Requests, Steps(r), NEW q \in Requests, q # r
  PROVE  /\ asks'[q] = asks[q] /\ todo'[q] = todo[q] /\ stage'[q] = stage[q] /\ ref'[q] = ref[q]
         /\ outcome'[q] = outcome[q] /\ late'[q] = late[q]
<1> USE DEF Typed, TypeOK
<1>1. ASSUME NEW a \in Asked, Look(r, a)
      PROVE  /\ asks'[q] = asks[q] /\ todo'[q] = todo[q] /\ stage'[q] = stage[q] /\ ref'[q] = ref[q]
             /\ outcome'[q] = outcome[q] /\ late'[q] = late[q]
  BY <1>1 DEF Look, Goes
<1>2. asks'[q] = asks[q] /\ late'[q] = late[q]
  BY <1>1 DEF Steps, Create, Take, AddContainer, BindEndpoint, Filled, ContainsKey, Index,
              ListEndpoints, Publish, Return
<1>3. todo'[q] = todo[q]
  BY <1>1 DEF Steps, Create, Take, AddContainer, BindEndpoint, Filled, ContainsKey, Index,
              ListEndpoints, Publish, Return
<1>4. stage'[q] = stage[q] /\ outcome'[q] = outcome[q]
  BY <1>1 DEF Steps, Create, Take, AddContainer, BindEndpoint, Filled, ContainsKey, Index,
              ListEndpoints, Publish, Return, Ends, Goes
<1>5. ref'[q] = ref[q]
  BY <1>1 DEF Steps, Create, Take, AddContainer, BindEndpoint, Filled, ContainsKey, Index,
              ListEndpoints, Publish, Return, Leaves
<1> QED BY <1>2, <1>3, <1>4, <1>5

\* Whoever fills the collection in the field goes on filling it, while others
\* do not touch it.
LEMMA FillingOn ==
  ASSUME NEW q \in Requests, NEW s, Filling(q, s), field'[s] = field[s],
         asks'[q] = asks[q], todo'[q] = todo[q],
         \/ stage'[q] = stage[q] /\ ref'[q] = ref[q]
         \/ stage[q] = "fill" /\ stage'[q] = "add" /\ ref'[q] = field[s]
  PROVE  Filling(q, s)' /\ Position(q)' = Position(q)
<1>1. Store(q)' = Store(q) /\ Position(q)' = Position(q)
  BY DEF Store, Position
<1> QED BY <1>1 DEF Filling

\* A step that neither adds nor ends a request that fills keeps what is coming.
LEMMA ComeKept ==
  ASSUME Typed, AuthoritiesCome, EndpointsCome, NEW r \in Requests, Steps(r),
         UNCHANGED <<field, containers, listed>>,
         \A s \in {"authorities", "endpoints"} :
           Filling(r, s) => \/ Position(r) > Len(Settings(s))
                            \/ Filling(r, s)' /\ Position(r)' = Position(r)
  PROVE  AuthoritiesCome' /\ EndpointsCome'
<1>1. ASSUME NEW q \in Requests, NEW s \in {"authorities", "endpoints"}, Filling(q, s)
      PROVE  \/ Position(q) > Len(Settings(s))
             \/ Filling(q, s)' /\ Position(q)' = Position(q)
  <2>1. CASE q # r
    BY <1>1, <2>1, Bystanders, FillingOn
  <2> QED BY <1>1, <2>1
<1>2. Settings("authorities") = Authorities /\ Settings("endpoints") = Endpoints
  BY DEF Settings
<1>3. \A q \in Requests : Position(q) \in Int
  BY SettingsAreSequences DEF Position, Typed, TypeOK
<1>4. ASSUME NEW q \in Requests, NEW i \in 1 .. Len(Authorities), AuthorityComes(q, i)
      PROVE  AuthorityComes(q, i)'
  <2>1. Filling(q, "authorities")' /\ Position(q)' = Position(q)
    BY <1>1, <1>2, <1>3, <1>4, SettingsAreSequences DEF AuthorityComes
  <2> QED BY <1>4, <2>1 DEF AuthorityComes
<1>5. ASSUME NEW q \in Requests, NEW i \in 1 .. Len(Endpoints), EndpointComes(q, i)
      PROVE  EndpointComes(q, i)'
  <2>1. Filling(q, "endpoints")' /\ Position(q)' = Position(q)
    BY <1>1, <1>2, <1>3, <1>5, SettingsAreSequences DEF EndpointComes
  <2> QED BY <1>5, <2>1 DEF EndpointComes
<1> QED BY <1>4, <1>5 DEF AuthoritiesCome, EndpointsCome

LEMMA CreateComes ==
  ASSUME Typed, AuthoritiesCome, EndpointsCome, NEW r \in Requests, Create(r)
  PROVE  AuthoritiesCome' /\ EndpointsCome'
<1> USE DEF Typed
<1>1. /\ stage[r] = "create" /\ field' = [field EXCEPT ![Store(r)] = r] /\ asks' = asks
      /\ Store(r) \in Singletons
  BY StoreNames DEF Create, TypeOK, Store
<1>2. ASSUME NEW s \in {"authorities", "endpoints"}, s # Store(r), NEW q \in Requests, Filling(q, s)
      PROVE  Filling(q, s)' /\ Position(q)' = Position(q)
  <2>1. q # r
    BY <1>1, <1>2 DEF Filling
  <2>2. field'[s] = field[s]
    BY <1>1, <1>2 DEF TypeOK, Singletons
  <2> QED BY <1>2, <2>1, <2>2, Bystanders, FillingOn DEF Steps
<1>3. ASSUME NEW s \in {"authorities", "endpoints"}, Store(r) = s
      PROVE  Filling(r, s)' /\ Position(r)' = 1
  <2>1. todo' = [todo EXCEPT ![r] = Settings(Store(r))] /\ stage' = [stage EXCEPT ![r] = "fill"]
    BY <1>3 DEF Create, Goes, Settings
  <2>2. Store(r)' = Store(r) /\ Len(Settings(Store(r))) \in Nat
    BY <1>1, SettingsAreSequences DEF Store
  <2>3. Position(r)' = 1
    BY <2>1, <2>2 DEF Position, TypeOK
  <2> QED BY <1>3, <2>1, <2>2, <2>3 DEF Filling, TypeOK
<1>4. AuthoritiesCome'
  <2>1. CASE Store(r) = "authorities"
    <3>1. field'["authorities"] = r /\ containers'[r] = {}
      BY <1>1, <2>1 DEF TypeOK, Create
    <3>2. Filling(r, "authorities")' /\ Position(r)' = 1
      BY <1>3, <2>1
    <3>3. \A i \in 1 .. Len(Authorities) : AuthorityComes(r, i)'
      BY <3>1, <3>2, SettingsAreSequences DEF AuthorityComes
    <3> QED BY <3>3 DEF AuthoritiesCome
  <2>2. CASE Store(r) # "authorities"
    <3>1. containers' = containers /\ field'["authorities"] = field["authorities"]
      BY <1>1, <2>2 DEF TypeOK, Create, Singletons
    <3>2. \A q \in Requests, i \in 1 .. Len(Authorities) : AuthorityComes(q, i) => AuthorityComes(q, i)'
      BY <1>2, <2>2, <3>1 DEF AuthorityComes
    <3> QED BY <3>1, <3>2 DEF AuthoritiesCome
  <2> QED BY <2>1, <2>2
<1>5. EndpointsCome'
  <2>1. CASE Store(r) = "endpoints"
    <3>1. \A i \in 1 .. Len(Endpoints) : EndpointComes(r, i)'
      BY <1>3, <2>1, SettingsAreSequences DEF EndpointComes
    <3> QED BY <3>1 DEF EndpointsCome
  <2>2. CASE Store(r) # "endpoints"
    <3>1. listed' = listed /\ field'["endpoints"] = field["endpoints"]
      BY <1>1, <2>2 DEF TypeOK, Create, Singletons
    <3>2. \A q \in Requests, i \in 1 .. Len(Endpoints) : EndpointComes(q, i) => EndpointComes(q, i)'
      BY <1>2, <2>2 DEF EndpointComes
    <3> QED BY <3>1, <3>2 DEF EndpointsCome
  <2> QED BY <2>1, <2>2
<1> QED BY <1>4, <1>5

\* Filling goes on after something was added.
LEMMA AddedOn ==
  ASSUME Typed, NEW r \in Requests, stage[r] = "add", todo[r] # <<>>, asks' = asks,
         todo' = [todo EXCEPT ![r] = Tail(todo[r])]
  PROVE  Position(r)' = Position(r) + 1 /\ Store(r)' = Store(r)
<1>1. todo'[r] = Tail(todo[r]) /\ Store(r)' = Store(r)
  BY DEF Typed, TypeOK, Store
<1>2. Len(Tail(todo[r])) = Len(todo[r]) - 1 /\ Len(todo[r]) \in Nat
  BY Adding
<1> DEFINE n == Len(Settings(Store(r)))
           m == Len(todo[r])
<1>3. n \in Nat
  BY SettingsAreSequences
<1>4. Position(r) = n - m + 1 /\ Position(r)' = n - (m - 1) + 1 /\ m \in Nat
  BY <1>1, <1>2 DEF Position
<1> HIDE DEF n, m
<1> QED BY <1>1, <1>3, <1>4

LEMMA AddContainerComes ==
  ASSUME Typed, AuthoritiesCome, EndpointsCome, NEW r \in Requests, AddContainer(r)
  PROVE  AuthoritiesCome' /\ EndpointsCome'
<1> DEFINE f == field["authorities"]
           p == Position(r)
<1> USE DEF Typed
<1>1. /\ stage[r] = "add" /\ Store(r) = "authorities" /\ todo[r] # <<>>
      /\ UNCHANGED <<field, listed, asks>>
  BY DEF AddContainer
<1>2. Settings("authorities") = Authorities
  BY DEF Settings
<1>3. p \in 1 .. Len(Authorities) /\ Head(todo[r]) = Authorities[p] /\ ref[r] \in Requests
  BY <1>1, <1>2, Adding
<1>4. ASSUME NEW q \in Requests, NEW s \in {"authorities", "endpoints"}, q # r, Filling(q, s)
      PROVE  Filling(q, s)' /\ Position(q)' = Position(q)
  BY <1>1, <1>4, Bystanders, FillingOn DEF Steps
<1>5. EndpointsCome'
  <2>1. \A q \in Requests, i \in 1 .. Len(Endpoints) : EndpointComes(q, i) => EndpointComes(q, i)'
    BY <1>1, <1>4 DEF EndpointComes, Filling
  <2> QED BY <1>1, <2>1 DEF EndpointsCome
<1>6. CASE containers'[f] = containers[f] /\ ~ \E i \in 1 .. Len(Authorities) : AuthorityComes(r, i)
  <2>1. \A q \in Requests, i \in 1 .. Len(Authorities) : AuthorityComes(q, i) => AuthorityComes(q, i)'
    BY <1>1, <1>4, <1>6 DEF AuthorityComes
  <2> QED BY <1>1, <1>5, <1>6, <2>1 DEF AuthoritiesCome
<1>7. CASE Authorities[p] \in containers[ref[r]]
  <2>1. containers' = containers
    BY <1>3, <1>7 DEF AddContainer
  <2>2. ASSUME NEW i \in 1 .. Len(Authorities), AuthorityComes(r, i) PROVE FALSE
    <3>1. ref[r] = f /\ p \in p .. i
      BY <1>1, <1>3, <2>2 DEF AuthorityComes, Filling
    <3> QED BY <1>7, <2>2, <3>1 DEF AuthorityComes
  <2> QED BY <1>6, <2>1, <2>2
<1>8. CASE Authorities[p] \notin containers[ref[r]]
  <2>1. /\ containers' = [containers EXCEPT ![ref[r]] = containers[ref[r]] \cup {Authorities[p]}]
        /\ todo' = [todo EXCEPT ![r] = Tail(todo[r])] /\ stage' = [stage EXCEPT ![r] = "fill"]
    BY <1>3, <1>8 DEF AddContainer, Goes
  <2>2. CASE ref[r] # f
    BY <1>1, <1>6, <2>1, <2>2 DEF AuthorityComes, Filling, TypeOK
  <2>3. CASE ref[r] = f
    <3>1. containers'[f] = containers[f] \cup {Authorities[p]}
      BY <1>3, <2>1, <2>3 DEF TypeOK
    <3>2. Filling(r, "authorities")' /\ Position(r)' = p + 1
      BY <1>1, <2>1, AddedOn DEF Filling, TypeOK
    <3>3. \A k \in 1 .. Len(Authorities) : k # p => Authorities[k] # Authorities[p]
      BY <1>3, AuthoritiesAssumption, SettingsAreSequences DEF IsInjective
    <3>4. ASSUME NEW i \in 1 .. Len(Authorities), Authorities[i] \notin containers'[f],
                 NEW w \in Requests, AuthorityComes(w, i)
          PROVE  AuthorityComes(r, i)' \/ AuthorityComes(w, i)'
      <4>1. i # p /\ Position(w) \in Int /\ Position(w) >= 1
        <5>1. Len(todo[w]) \in Nat /\ Len(todo[w]) <= Len(Authorities)
          BY <1>2, <3>4 DEF AuthorityComes, Filling, InOrder, TypeOK
        <5>2. Position(w) = Len(Authorities) - Len(todo[w]) + 1
          BY <1>2, <3>4 DEF AuthorityComes, Filling, Position
        <5> QED BY <3>1, <3>4, <5>1, <5>2, SettingsAreSequences
      <4>2. CASE Position(w) <= p /\ p <= i
        <5>1. p + 1 <= i /\ \A k \in p + 1 .. i : k \in Position(w) .. i /\ k # p /\ k \in 1 .. Len(Authorities)
          BY <1>3, <3>4, <4>1, <4>2, SettingsAreSequences
        <5>2. \A k \in p + 1 .. i : Authorities[k] \notin containers'[f]
          BY <3>1, <3>3, <3>4, <5>1 DEF AuthorityComes
        <5> QED BY <1>1, <3>2, <5>1, <5>2 DEF AuthorityComes
      <4>3. CASE ~(Position(w) <= p /\ p <= i)
        <5>1. w # r /\ Position(w) <= i
          BY <1>3, <3>4, <4>1, <4>3, SettingsAreSequences DEF AuthorityComes
        <5>2. Filling(w, "authorities")' /\ Position(w)' = Position(w)
          BY <1>4, <3>4, <5>1 DEF AuthorityComes
        <5>3. \A k \in Position(w) .. i : k # p /\ k \in 1 .. Len(Authorities)
          BY <1>3, <3>4, <4>1, <4>3, <5>1, SettingsAreSequences
        <5>4. \A k \in Position(w) .. i : Authorities[k] \notin containers'[f]
          BY <3>1, <3>3, <3>4, <5>3 DEF AuthorityComes
        <5> QED BY <1>1, <5>1, <5>2, <5>4 DEF AuthorityComes
      <4> QED BY <4>2, <4>3
    <3>5. AuthoritiesCome'
      BY <1>1, <3>1, <3>4 DEF AuthoritiesCome
    <3> QED BY <1>5, <3>5
  <2> QED BY <2>2, <2>3
<1> QED BY <1>7, <1>8

LEMMA AppendToSet ==
  ASSUME NEW S, NEW t \in Seq(S), NEW x
  PROVE  ToSet(t) \cup {x} \subseteq ToSet(Append(t, x))
<1>1. \A i \in 1 .. Len(t) : i \in 1 .. Len(Append(t, x)) /\ Append(t, x)[i] = t[i]
  OBVIOUS
<1>2. Len(t) + 1 \in 1 .. Len(Append(t, x)) /\ Append(t, x)[Len(t) + 1] = x
  OBVIOUS
<1>3. DOMAIN t = 1 .. Len(t) /\ DOMAIN Append(t, x) = 1 .. Len(Append(t, x))
  OBVIOUS
<1> QED BY <1>1, <1>2, <1>3 DEF ToSet

LEMMA BindEndpointComes ==
  ASSUME Typed, AuthoritiesCome, EndpointsCome, NEW r \in Requests, BindEndpoint(r)
  PROVE  AuthoritiesCome' /\ EndpointsCome'
<1> DEFINE f == field["endpoints"]
           p == Position(r)
<1> USE DEF Typed
<1>1. /\ stage[r] = "add" /\ Store(r) = "endpoints" /\ todo[r] # <<>>
      /\ UNCHANGED <<field, containers, asks, stage, ref>>
      /\ todo' = [todo EXCEPT ![r] = Tail(todo[r])]
  BY DEF BindEndpoint
<1>2. Settings("endpoints") = Endpoints
  BY DEF Settings
<1>3. p \in 1 .. Len(Endpoints) /\ Head(todo[r]) = Endpoints[p] /\ ref[r] \in Requests
  BY <1>1, <1>2, Adding
<1>4. ASSUME NEW q \in Requests, NEW s \in {"authorities", "endpoints"}, q # r, Filling(q, s)
      PROVE  Filling(q, s)' /\ Position(q)' = Position(q)
  BY <1>1, <1>4, Bystanders, FillingOn DEF Steps
<1>5. AuthoritiesCome'
  <2>1. \A q \in Requests, i \in 1 .. Len(Authorities) : AuthorityComes(q, i) => AuthorityComes(q, i)'
    BY <1>1, <1>4 DEF AuthorityComes, Filling
  <2> QED BY <1>1, <2>1 DEF AuthoritiesCome
<1>6. listed' = [listed EXCEPT ![ref[r]] = Append(listed[ref[r]], Endpoints[p])]
  BY <1>3 DEF BindEndpoint
<1>7. CASE ref[r] # f
  <2>1. field["endpoints"] # Nobody => listed'[f] = listed[f]
    BY <1>3, <1>6, <1>7 DEF TypeOK, Singletons
  <2>2. \A q \in Requests, i \in 1 .. Len(Endpoints) : EndpointComes(q, i) => EndpointComes(q, i)'
    BY <1>1, <1>4, <1>7 DEF EndpointComes, Filling
  <2> QED BY <1>1, <1>5, <2>1, <2>2 DEF EndpointsCome
<1>8. CASE ref[r] = f
  <2>1. ToSet(listed[f]) \cup {Endpoints[p]} \subseteq ToSet(listed'[f])
    BY <1>3, <1>6, <1>8, AppendToSet DEF TypeOK
  <2>2. Filling(r, "endpoints")' /\ Position(r)' = p + 1
    BY <1>1, <1>8, AddedOn DEF Filling
  <2>3. ASSUME NEW i \in 1 .. Len(Endpoints), Endpoints[i] \notin ToSet(listed'[f]),
               NEW w \in Requests, EndpointComes(w, i)
        PROVE  EndpointComes(w, i)'
    <3>1. CASE w = r
      <4>1. i # p /\ p <= i
        BY <2>1, <2>3, <3>1 DEF EndpointComes
      <4>2. p + 1 <= i
        BY <1>3, <4>1, SettingsAreSequences
      <4> QED BY <2>2, <3>1, <4>2 DEF EndpointComes
    <3>2. CASE w # r
      BY <1>4, <2>3, <3>2 DEF EndpointComes
    <3> QED BY <3>1, <3>2
  <2>4. EndpointsCome'
    BY <1>1, <2>1, <2>3 DEF EndpointsCome
  <2> QED BY <1>5, <2>4
<1> QED BY <1>7, <1>8

\* A step that adds nothing.
LEMMA OthersCome ==
  ASSUME Typed, AuthoritiesCome, EndpointsCome, NEW r \in Requests, Steps(r),
         ~Create(r), ~AddContainer(r), ~BindEndpoint(r)
  PROVE  AuthoritiesCome' /\ EndpointsCome'
<1> USE DEF Typed
<1>1. UNCHANGED <<field, containers, listed>>
  BY DEF Steps, Look, Take, Filled, ContainsKey, Index, ListEndpoints, Publish, Return, collections
<1>2. ASSUME NEW s \in {"authorities", "endpoints"}, Filling(r, s)
      PROVE  Position(r) > Len(Settings(s)) \/ (Filling(r, s)' /\ Position(r)' = Position(r))
  <2>1. (Take(r) /\ stage[r] = "fill") \/ Filled(r)
    BY <1>2 DEF Filling, Steps, Look, Take, ContainsKey, Index, ListEndpoints, Publish, Return
  <2>2. CASE Filled(r)
    <3> DEFINE n == Len(Settings(s))
    <3>1. Store(r) = s /\ todo[r] = <<>> /\ n \in Nat
      BY <1>2, <2>2, SettingsAreSequences DEF Filling, Filled
    <3>2. Position(r) = n - 0 + 1
      BY <3>1 DEF Position
    <3> HIDE DEF n
    <3>3. Position(r) > n
      BY <3>1, <3>2
    <3> QED BY <3>3 DEF n
  <2>3. CASE Take(r) /\ stage[r] = "fill"
    <3>1. /\ asks'[r] = asks[r] /\ todo'[r] = todo[r] /\ field'[s] = field[s]
          /\ stage'[r] = "add" /\ ref'[r] = field[s]
      BY <1>2, <2>3 DEF Take, Goes, collections, Filling, TypeOK
    <3> QED BY <1>2, <2>3, <3>1, FillingOn
  <2> QED BY <2>1, <2>2, <2>3
<1> QED BY <1>1, <1>2, ComeKept

LEMMA StepCome ==
  Typed /\ AuthoritiesCome /\ EndpointsCome /\ [Next]_vars => AuthoritiesCome' /\ EndpointsCome'
<1> SUFFICES ASSUME Typed, AuthoritiesCome, EndpointsCome, [Next]_vars
             PROVE  AuthoritiesCome' /\ EndpointsCome'
  OBVIOUS
<1>1. CASE UNCHANGED vars
  BY <1>1 DEF vars, collections, locals, AuthoritiesCome, EndpointsCome, AuthorityComes, EndpointComes,
              Filling, Position, Store
<1>2. ASSUME NEW r \in Requests, Steps(r) PROVE AuthoritiesCome' /\ EndpointsCome'
  BY <1>2, CreateComes, AddContainerComes, BindEndpointComes, OthersCome
<1> QED BY <1>1, <1>2 DEF Next, Steps

\* When nobody fills any more, nothing is on its way.
LEMMA ComeIsFilled == Typed /\ AuthoritiesCome /\ EndpointsCome => FilledOnceQuiet
<1> SUFFICES ASSUME Typed, AuthoritiesCome, EndpointsCome PROVE FilledOnceQuiet
  OBVIOUS
<1>1. ASSUME Settled("authorities")
      PROVE  containers[field["authorities"]] = ToSet(Authorities)
  <2>1. \A r \in Requests : ~Filling(r, "authorities")
    BY <1>1 DEF Settled, Starting, Filling
  <2>2. \A i \in 1 .. Len(Authorities) : Authorities[i] \in containers[field["authorities"]]
    BY <1>1, <2>1 DEF AuthoritiesCome, AuthorityComes, Settled
  <2>3. DOMAIN Authorities = 1 .. Len(Authorities)
    BY SettingsAreSequences
  <2>4. ToSet(Authorities) \subseteq containers[field["authorities"]]
    BY <2>2, <2>3 DEF ToSet
  <2>5. field["authorities"] \in Requests
    BY <1>1 DEF Settled, Typed, TypeOK, Singletons
  <2> QED BY <2>4, <2>5 DEF Typed, TypeOK
<1>2. ASSUME Settled("endpoints")
      PROVE  ToSet(listed[field["endpoints"]]) = ToSet(Endpoints)
  <2>1. \A r \in Requests : ~Filling(r, "endpoints")
    BY <1>2 DEF Settled, Starting, Filling
  <2>2. \A i \in 1 .. Len(Endpoints) : Endpoints[i] \in ToSet(listed[field["endpoints"]])
    BY <1>2, <2>1 DEF EndpointsCome, EndpointComes, Settled
  <2>3. DOMAIN Endpoints = 1 .. Len(Endpoints)
    BY SettingsAreSequences
  <2>4. ToSet(Endpoints) \subseteq ToSet(listed[field["endpoints"]])
    BY <2>2, <2>3 DEF ToSet
  <2>5. field["endpoints"] \in Requests
    BY <1>2 DEF Settled, Typed, TypeOK, Singletons
  <2>6. listed[field["endpoints"]] \in Seq(ToSet(Endpoints))
    BY <2>5 DEF Typed, TypeOK
  <2>7. ToSet(listed[field["endpoints"]]) \subseteq ToSet(Endpoints)
    <3> DEFINE t == listed[field["endpoints"]]
    <3>1. DOMAIN t = 1 .. Len(t) /\ \A i \in 1 .. Len(t) : t[i] \in ToSet(Endpoints)
      BY <2>6
    <3>2. ASSUME NEW x \in ToSet(t) PROVE x \in ToSet(Endpoints)
      <4>1. PICK i \in DOMAIN t : x = t[i]
        BY <3>2 DEF ToSet
      <4> QED BY <3>1, <4>1
    <3> QED BY <3>2
  <2> QED BY <2>4, <2>7
<1> QED BY <1>1, <1>2 DEF FilledOnceQuiet

-----------------------------------------------------------------------------
(* What clients published once the database was in place.                   *)
Published == \A c \in Clients : kept[c] # NoState => Settled("database")

LEMMA StepPublished ==
  ASSUME Typed, Published, PublicationsAreKept, [Next]_vars,
         \A r \in Requests : late[r] => Settled(Store(r))
  PROVE  Published' /\ PublicationsAreKept'
<1> USE DEF Typed
<1>1. ASSUME Settled("database")
      PROVE  Settled("database")' /\ field'["database"] = field["database"]
             /\ field["database"] # Nobody /\ field["database"] \in Requests
  BY <1>1, SettledStays DEF Singletons, Settled, TypeOK
<1>2. ASSUME NEW c \in Clients, kept'[c] = kept[c],
             \A q \in Requests : database'[q] = database[q]
                                 \/ q # field["database"] \/ ~Settled("database")
      PROVE  kept'[c] # NoState => /\ Settled("database")' /\ field'["database"] # Nobody
                                   /\ database'[field'["database"]][c] = kept'[c]
  BY <1>1, <1>2 DEF Published, PublicationsAreKept
<1>3. ASSUME UNCHANGED kept,
             \A q \in Requests : database'[q] = database[q]
                                 \/ q # field["database"] \/ ~Settled("database")
      PROVE  Published' /\ PublicationsAreKept'
  BY <1>2, <1>3 DEF Published, PublicationsAreKept
<1>4. ASSUME NEW r \in Requests, Create(r) PROVE Published' /\ PublicationsAreKept'
  <2>1. CASE Store(r) = "database"
    BY <1>3, <1>4, <2>1 DEF Create, Settled, Starting
  <2>2. CASE Store(r) # "database"
    <3>1. database' = database
      BY <1>4, <2>2, StoreNames DEF Create, TypeOK, Store, Singletons
    <3> QED BY <1>3, <1>4, <3>1 DEF Create
  <2> QED BY <2>1, <2>2
<1>5. ASSUME NEW r \in Requests, Publish(r) PROVE Published' /\ PublicationsAreKept'
  <2>1. /\ asks[r].client \in Clients /\ asks[r].state \in States /\ asks[r].state # NoState
        /\ asks[r].operation = "PublishState" /\ Store(r) = "database" /\ ref[r] \in Requests
        /\ field' = field
    BY <1>5, StoreNames, NoStateAssumption DEF Publish, TypeOK, Store, Singleton
  <2>2. database' = [database EXCEPT ![ref[r]][asks[r].client] = asks[r].state]
    BY <1>5 DEF Publish
  <2>3. CASE ref[r] # field["database"]
    BY <1>3, <1>5, <2>2, <2>3 DEF Publish, TypeOK
  <2>4. CASE ref[r] = field["database"]
    <3>1. ASSUME NEW c \in Clients
          PROVE  kept'[c] # NoState => /\ Settled("database")' /\ field'["database"] # Nobody
                                       /\ database'[field'["database"]][c] = kept'[c]
      <4>1. CASE kept'[c] = kept[c] /\ c # asks[r].client
        BY <1>1, <2>1, <2>2, <2>4, <4>1 DEF Published, PublicationsAreKept, TypeOK
      <4>2. CASE kept'[c] = asks[r].state /\ c = asks[r].client /\ (late[r] \/ kept[c] # NoState)
        <5>1. Settled("database")
          BY <2>1, <4>2 DEF Published
        <5>2. database'[ref[r]][c] = kept'[c]
          BY <2>1, <2>2, <4>2 DEF TypeOK
        <5> QED BY <1>1, <2>1, <2>4, <5>1, <5>2
      <4>3. CASE kept'[c] = NoState
        BY <4>3
      <4> QED BY <1>5, <2>1, <2>4, <4>1, <4>2, <4>3 DEF Publish, TypeOK
    <3> QED BY <3>1 DEF Published, PublicationsAreKept
  <2> QED BY <2>3, <2>4
<1>6. ASSUME NEW r \in Requests, Steps(r), ~Create(r), ~Publish(r)
      PROVE  UNCHANGED <<database, kept>>
  BY <1>6 DEF Steps, Look, Take, AddContainer, BindEndpoint, Filled, ContainsKey, Index,
              ListEndpoints, Return, collections
<1>7. CASE UNCHANGED vars
  BY <1>3, <1>7 DEF vars, collections
<1> QED BY <1>3, <1>4, <1>5, <1>6, <1>7 DEF Next, Steps

-----------------------------------------------------------------------------
(* What a late request, and only a late one, may rely on.                   *)
LateAt(r) ==
  late[r] => /\ Settled(Store(r)) /\ stage[r] # "idle"
             /\ ref[r] # Nobody => ref[r] = field[Store(r)]
             /\ stage[r] = "index" /\ asks[r].operation = "GetPublishState" =>
                  database[field["database"]][asks[r].client] # NoState
             /\ stage[r] = "done" => outcome[r] = "served"

Sound ==
  /\ Typed /\ AuthoritiesCome /\ EndpointsCome
  /\ Published /\ PublicationsAreKept
  /\ \A r \in Requests : LateAt(r)

\* What a client published can be replaced, but not withdrawn.
LEMMA DatabaseGrows ==
  ASSUME Typed, [Next]_vars, Settled("database"), NEW c \in Clients,
         database[field["database"]][c] # NoState
  PROVE  database'[field'["database"]][c] # NoState
<1>1. field'["database"] = field["database"] /\ field["database"] \in Requests
  BY SettledStays DEF Singletons, Settled, Typed, TypeOK
<1>2. ASSUME NEW r \in Requests, Create(r) PROVE database' = database
  <2>1. Store(r) # "database"
    BY <1>2 DEF Create, Settled, Starting
  <2> QED BY <1>2, <2>1, StoreNames DEF Create, Typed, TypeOK, Store, Singletons
<1>3. ASSUME NEW r \in Requests, Publish(r) PROVE database'[field["database"]][c] # NoState
  <2>1. asks[r].state # NoState
    BY <1>3, StoreNames, NoStateAssumption DEF Publish, Typed, TypeOK
  <2> QED BY <1>1, <1>3, <2>1 DEF Publish, Typed, TypeOK
<1>4. ASSUME NEW r \in Requests, Steps(r), ~Create(r), ~Publish(r) PROVE database' = database
  BY <1>4 DEF Steps, Look, Take, AddContainer, BindEndpoint, Filled, ContainsKey, Index,
              ListEndpoints, Return, collections
<1>5. CASE UNCHANGED vars
  BY <1>1, <1>5 DEF vars, collections
<1> QED BY <1>1, <1>2, <1>3, <1>4, <1>5 DEF Next, Steps

\* A request that does nothing meanwhile.
LEMMA WaitsLate ==
  ASSUME Typed, [Next]_vars, NEW q \in Requests, LateAt(q),
         asks'[q] = asks[q], stage'[q] = stage[q], ref'[q] = ref[q], outcome'[q] = outcome[q],
         late'[q] = late[q]
  PROVE  LateAt(q)'
<1> SUFFICES ASSUME late[q] PROVE LateAt(q)'
  BY DEF LateAt
<1>1. Store(q)' = Store(q) /\ Store(q) \in Singletons
  BY StoreNames DEF Store, Typed, TypeOK
<1>2. Settled(Store(q))' /\ field'[Store(q)] = field[Store(q)]
  <2>1. Settled(Store(q))
    BY DEF LateAt
  <2>2. ASSUME NEW s \in Singletons, s = Store(q) PROVE Settled(s)' /\ field'[s] = field[s]
    BY <2>1, <2>2, SettledStays
  <2> QED BY <1>1, <2>2
<1>3. ASSUME stage[q] = "index", asks[q].operation = "GetPublishState"
      PROVE  database'[field'["database"]][asks[q].client] # NoState
  <2>1. Store(q) = "database" /\ asks[q].client \in Clients
    BY <1>3, StoreNames DEF Store, Singleton, Typed, TypeOK
  <2> QED BY <1>3, <2>1, DatabaseGrows DEF LateAt
<1> QED BY <1>1, <1>2, <1>3 DEF LateAt

\* A request that is served.
LEMMA ActsLate ==
  ASSUME Typed, FilledOnceQuiet, NEW r \in Requests, Steps(r), LateAt(r)
  PROVE  LateAt(r)'
<1> USE DEF Typed, TypeOK
<1> SUFFICES ASSUME late'[r] PROVE LateAt(r)'
  BY DEF LateAt
<1>1. [Next]_vars
  BY DEF Next, Steps
<1>2. Store(r) \in Singletons
  BY StoreNames DEF Store
<1>3. ASSUME NEW a \in Asked, Look(r, a) PROVE LateAt(r)'
  <2>1. late'[r] = Settled(Singleton(a.operation))
    BY <1>3 DEF Look
  <2>2. Settled(Singleton(a.operation)) /\ Singleton(a.operation) \in Singletons
    BY <2>1, StoreNames
  <2>3. asks'[r] = a /\ Store(r)' = Singleton(a.operation)
    BY <1>3 DEF Look, Store
  <2>4. ASSUME NEW s \in Singletons, s = Singleton(a.operation) PROVE Settled(s)'
    BY <1>1, <2>2, <2>4, SettledStays
  <2>5. stage'[r] = Uses(a.operation) /\ stage[r] = "idle" /\ ref'[r] = ref[r]
    BY <1>3, <2>2 DEF Look, Goes, Settled
  <2>6. ref'[r] = Nobody
    BY <2>5 DEF InHand
  <2>7. stage'[r] \in {"contains", "index"}
        /\ (a.operation = "GetPublishState" => stage'[r] = "contains")
    BY <2>5 DEF Uses
  <2>8. Settled(Store(r))'
    BY <2>2, <2>3, <2>4
  <2> QED BY <2>3, <2>6, <2>7, <2>8 DEF LateAt
<1>4. ASSUME \A a \in Asked : ~Look(r, a) PROVE LateAt(r)'
  <2>1. late[r] /\ asks'[r] = asks[r]
    BY <1>4 DEF Steps, Create, Take, AddContainer, BindEndpoint, Filled, ContainsKey, Index,
                ListEndpoints, Publish, Return
  <2>2. Settled(Store(r)) /\ Store(r)' = Store(r) /\ (ref[r] # Nobody => ref[r] = field[Store(r)])
    BY <2>1 DEF LateAt, Store
  <2>3. Settled(Store(r))' /\ field'[Store(r)] = field[Store(r)]
    <3>1. ASSUME NEW s \in Singletons, s = Store(r) PROVE Settled(s)' /\ field'[s] = field[s]
      BY <1>1, <2>2, <3>1, SettledStays
    <3> QED BY <1>2, <2>2, <3>1
  <2>4. stage[r] \notin {"create", "fill", "add"}
    BY <2>2 DEF Settled, Starting
  <2>5. CASE Take(r)
    <3>1. ref'[r] = field'[Store(r)] /\ stage'[r] = stage[r] /\ database' = database
          /\ outcome' = outcome /\ field' = field
      BY <2>3, <2>4, <2>5 DEF Take, collections
    <3> QED BY <2>1, <2>2, <2>3, <3>1 DEF LateAt
  <2>6. CASE ContainsKey(r)
    <3>1. ref[r] = field[Store(r)] /\ ref'[r] = Nobody /\ UNCHANGED <<database, field>>
      BY <2>2, <2>6 DEF ContainsKey, Leaves, collections
    <3>2. CASE Holds(r)
      <4>1. stage'[r] = "index"
        BY <2>6, <3>2 DEF ContainsKey, Goes
      <4>2. asks[r].operation = "GetPublishState" => database[field["database"]][asks[r].client] # NoState
        BY <3>1, <3>2 DEF Holds, Store, Singleton
      <4> QED BY <2>1, <2>2, <2>3, <3>1, <4>1, <4>2 DEF LateAt
    <3>3. CASE ~Holds(r)
      <4>1. asks[r].operation # "Get"
        BY <2>2, <3>1, <3>3, StoreNames DEF Holds, FilledOnceQuiet, Store
      <4>2. stage'[r] = "done" /\ outcome'[r] = "served"
        BY <2>6, <3>3, <4>1 DEF ContainsKey, Ends, Goes
      <4> QED BY <2>2, <2>3, <3>1, <4>2 DEF LateAt
    <3> QED BY <3>2, <3>3
  <2>7. ASSUME ref'[r] = Nobody, stage'[r] = "done", outcome'[r] = "served" PROVE LateAt(r)'
    BY <2>2, <2>3, <2>7 DEF LateAt
  <2>8. CASE Index(r)
    <3>1. ref[r] = field[Store(r)]
      BY <2>2, <2>8 DEF Index
    <3>2. Holds(r)
      <4>1. CASE asks[r].operation = "Get"
        BY <2>2, <3>1, <4>1, StoreNames DEF Holds, FilledOnceQuiet, Store
      <4>2. CASE asks[r].operation = "GetPublishState"
        BY <2>1, <2>8, <3>1, <4>2 DEF Holds, Index, LateAt, Store, Singleton
      <4> QED BY <2>8, <4>1, <4>2 DEF Index
    <3> QED BY <2>7, <2>8, <3>2 DEF Index, Ends, Goes, Leaves
  <2>9. CASE ListEndpoints(r)
    <3>1. ref[r] = field["endpoints"] /\ Store(r) = "endpoints"
      BY <2>2, <2>9 DEF ListEndpoints, Store, Singleton
    <3>2. ToSet(listed[ref[r]]) = ToSet(Endpoints)
      BY <2>2, <3>1 DEF FilledOnceQuiet
    <3> QED BY <2>7, <2>9, <3>2 DEF ListEndpoints, Ends, Goes, Leaves
  <2>10. CASE Publish(r)
    BY <2>7, <2>10 DEF Publish, Ends, Goes, Leaves
  <2>11. ~Return(r)
    BY DEF Return
  <2> QED BY <1>4, <2>4, <2>5, <2>6, <2>8, <2>9, <2>10, <2>11
          DEF Steps, Create, AddContainer, BindEndpoint, Filled
<1> QED BY <1>3, <1>4

LEMMA StepLate ==
  ASSUME Typed, FilledOnceQuiet, \A r \in Requests : LateAt(r), [Next]_vars,
         NEW q \in Requests
  PROVE  LateAt(q)'
<1>1. CASE UNCHANGED vars
  BY <1>1, WaitsLate DEF vars, locals
<1>2. ASSUME NEW r \in Requests, Steps(r) PROVE LateAt(q)'
  <2>1. CASE q = r
    BY <1>2, <2>1, ActsLate
  <2>2. CASE q # r
    BY <1>2, <2>2, Bystanders, WaitsLate
  <2> QED BY <2>1, <2>2
<1> QED BY <1>1, <1>2 DEF Next, Steps

-----------------------------------------------------------------------------
LEMMA InitSound == Init => Sound
<1> SUFFICES ASSUME Init PROVE Sound
  OBVIOUS
<1>1. Published /\ PublicationsAreKept /\ \A r \in Requests : LateAt(r)
  BY DEF Init, Published, PublicationsAreKept, LateAt
<1> QED BY <1>1, InitTyped, InitCome DEF Sound

LEMMA StepSound == Sound /\ [Next]_vars => Sound'
<1> SUFFICES ASSUME Sound, [Next]_vars PROVE Sound'
  OBVIOUS
<1>1. Published' /\ PublicationsAreKept'
  BY StepPublished DEF Sound, LateAt
<1>2. \A r \in Requests : LateAt(r)'
  BY ComeIsFilled, StepLate DEF Sound
<1> QED BY <1>1, <1>2, StepTyped, StepCome DEF Sound

(* However many first requests race, and however long the settings are:     *)
(* what is left when the last of them is over is complete, and keeps what   *)
(* is published from then on.                                               *)
THEOREM StoresComeToRest == Spec => []StoresSettle
<1>1. Sound => StoresSettle
  BY ComeIsFilled DEF Sound, StoresSettle
<1> QED BY <1>1, InitSound, StepSound, PTL DEF Spec

(* A request that begins after that is served.                              *)
THEOREM LateComersAreServed == Spec => []LateRequestsAreServed
<1>1. Sound => LateRequestsAreServed
  BY DEF Sound, LateAt, LateRequestsAreServed
<1> QED BY <1>1, InitSound, StepSound, PTL DEF Spec
=============================================================================

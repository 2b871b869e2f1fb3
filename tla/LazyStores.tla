----------------------------- MODULE LazyStores -----------------------------
(***************************************************************************)
(* The three singletons that fill a field on first use, without a lock:    *)
(* the discovery containers of the authorities                             *)
(* (DiscoverCacheContainerFactory), the endpoints of the discovery hub     *)
(* (InMemoryDiscoveryHubStore) and the states that B2B clients publish     *)
(* (InMemoryB2BPlublisherStore).                                           *)
(*                                                                         *)
(* All three test the field for null, put an empty collection into it and  *)
(* fill that through the field, where another first request may have put   *)
(* its own collection by then.  A collection is named by the request that  *)
(* created it; an action ends where the code reads the field again.        *)
(***************************************************************************)
EXTENDS Naturals, SequencesExt

CONSTANTS
  Requests,     \* requests in flight, on threads of their own
  Authorities,  \* GetWellknownAuthoritiesAsync: the schemes, in their order
  Endpoints,    \* graphQLDiscoveryHub:endpoints, in their order
  Clients,      \* (ClientId, ClientNamespace) of B2B callers
  States,       \* PublishStateModel
  NoState,      \* a client that has not published
  Nobody        \* null: no request has created a collection yet

ASSUME AuthoritiesAssumption == /\ Authorities \in Seq(ToSet(Authorities))
                                /\ IsInjective(Authorities)
ASSUME EndpointsAssumption   == Endpoints \in Seq(ToSet(Endpoints))
ASSUME NoStateAssumption     == NoState \notin States
ASSUME NobodyAssumption      == Nobody \notin Requests

Operations == {"Get", "GetGraphQLEndpoints", "PublishState", "GetPublishState"}
Singletons == {"authorities", "endpoints", "database"}

Singleton(operation) ==
  CASE operation = "Get"                 -> "authorities"
    [] operation = "GetGraphQLEndpoints" -> "endpoints"
    [] OTHER                             -> "database"

(* What a request asks: a scheme, a client with its state, or nothing more. *)
Asked ==
  [operation: {"Get"}, scheme: ToSet(Authorities)]
    \cup [operation: {"GetGraphQLEndpoints"}]
    \cup [operation: {"PublishState"}, client: Clients, state: States]
    \cup [operation: {"GetPublishState"}, client: Clients]

NoQuestion == [operation |-> "GetGraphQLEndpoints"]

Stages   == {"idle", "create", "fill", "add", "contains", "index", "done"}
Outcomes == {"open", "served", "unsupported", "threw"}

VARIABLES
  field,       \* singleton -> whose collection its field holds
  containers,  \* request -> schemes in the dictionary it created
  listed,      \* request -> endpoints in the list it created
  database,    \* request -> what clients published into the dictionary it created
  asks,        \* request -> what it asks
  stage,       \* request -> where it is
  ref,         \* request -> the collection it took from the field
  todo,        \* request -> what it has yet to add
  outcome,     \* request -> how it ended
  late,        \* history: it began after the singleton had settled
  kept         \* history: client -> what it last published after that

collections == <<field, containers, listed, database>>
locals      == <<asks, stage, ref, todo, outcome>>
vars        == <<collections, locals, late, kept>>

Store(r) == Singleton(asks[r].operation)

(* A first request that has yet to create its collection, or to fill it.    *)
Starting(s)  == {r \in Requests : Store(r) = s /\ stage[r] \in {"create", "fill", "add"}}
Settled(s)   == field[s] # Nobody /\ Starting(s) = {}

TypeOK ==
  /\ field \in [Singletons -> Requests \cup {Nobody}]
  /\ containers \in [Requests -> SUBSET ToSet(Authorities)]
  /\ listed \in [Requests -> Seq(ToSet(Endpoints))]
  /\ database \in [Requests -> [Clients -> States \cup {NoState}]]
  /\ asks \in [Requests -> Asked]
  /\ stage \in [Requests -> Stages]
  /\ ref \in [Requests -> Requests \cup {Nobody}]
  /\ todo \in [Requests -> Seq(ToSet(Authorities)) \cup Seq(ToSet(Endpoints))]
  /\ outcome \in [Requests -> Outcomes]
  /\ late \in [Requests -> BOOLEAN]
  /\ kept \in [Clients -> States \cup {NoState}]

Init ==
  /\ field = [s \in Singletons |-> Nobody]
  /\ containers = [r \in Requests |-> {}]
  /\ listed = [r \in Requests |-> <<>>]
  /\ database = [r \in Requests |-> [c \in Clients |-> NoState]]
  /\ asks = [r \in Requests |-> NoQuestion]
  /\ stage = [r \in Requests |-> "idle"]
  /\ ref = [r \in Requests |-> Nobody]
  /\ todo = [r \in Requests |-> <<>>]
  /\ outcome = [r \in Requests |-> "open"]
  /\ late = [r \in Requests |-> FALSE]
  /\ kept = [c \in Clients |-> NoState]

-----------------------------------------------------------------------------
Goes(r, to)   == stage' = [stage EXCEPT ![r] = to]
Ends(r, how)  == Goes(r, "done") /\ outcome' = [outcome EXCEPT ![r] = how]
Leaves(r)     == ref' = [ref EXCEPT ![r] = Nobody]

(* What a request does with the collection once the getter has returned.    *)
Uses(operation) ==
  IF operation \in {"Get", "GetPublishState"} THEN "contains" ELSE "index"

(* A getter that forgot the test.                                           *)
LookAlwaysCreates(r, a) ==
  /\ stage[r] = "idle"
  /\ asks' = [asks EXCEPT ![r] = a]
  /\ late' = [late EXCEPT ![r] = Settled(Singleton(a.operation))]
  /\ Goes(r, "create")
  /\ UNCHANGED <<collections, ref, todo, outcome, kept>>

(* The getter's test for null.                                              *)
Look(r, a) ==
  /\ stage[r] = "idle"
  /\ asks' = [asks EXCEPT ![r] = a]
  /\ late' = [late EXCEPT ![r] = Settled(Singleton(a.operation))]
  /\ IF field[Singleton(a.operation)] = Nobody
     THEN Goes(r, "create")
     ELSE Goes(r, Uses(a.operation))
  /\ UNCHANGED <<collections, ref, todo, outcome, kept>>

(* A new, empty collection is assigned to the field before it is filled.    *)
(* The authorities are read from a configuration store that answers at once.*)
Create(r) ==
  /\ stage[r] = "create"
  /\ field' = [field EXCEPT ![Store(r)] = r]
  /\ CASE Store(r) = "authorities" ->
            /\ containers' = [containers EXCEPT ![r] = {}]
            /\ todo' = [todo EXCEPT ![r] = Authorities]
            /\ Goes(r, "fill") /\ UNCHANGED <<listed, database>>
       [] Store(r) = "endpoints" ->
            /\ listed' = [listed EXCEPT ![r] = <<>>]
            /\ todo' = [todo EXCEPT ![r] = Endpoints]
            /\ Goes(r, "fill") /\ UNCHANGED <<containers, database>>
       [] OTHER ->
            /\ database' = [database EXCEPT ![r] = [c \in Clients |-> NoState]]
            /\ Goes(r, Uses(asks[r].operation)) /\ UNCHANGED <<containers, listed, todo>>
  /\ UNCHANGED <<asks, ref, outcome, late, kept>>

(* The code reads the field, again for every statement, to call a method.   *)
Take(r) ==
  /\ stage[r] \in {"fill", "contains", "index"} /\ ref[r] = Nobody
  /\ ref' = [ref EXCEPT ![r] = field[Store(r)]]
  /\ IF stage[r] = "fill" THEN Goes(r, "add") ELSE UNCHANGED stage
  /\ UNCHANGED <<collections, asks, todo, outcome, late, kept>>

(* foreach (var record in authorities) _containers.Add(record.Scheme, ...): *)
(* Add throws for a key that another first request has put there.           *)
AddContainer(r) ==
  /\ stage[r] = "add" /\ Store(r) = "authorities" /\ todo[r] # <<>>
  /\ IF Head(todo[r]) \in containers[ref[r]]
     THEN /\ Ends(r, "threw")
          /\ UNCHANGED <<containers, todo>>
     ELSE /\ containers' = [containers EXCEPT ![ref[r]] = @ \cup {Head(todo[r])}]
          /\ todo' = [todo EXCEPT ![r] = Tail(@)]
          /\ Goes(r, "fill")
          /\ UNCHANGED outcome
  /\ Leaves(r)
  /\ UNCHANGED <<field, listed, database, asks, late, kept>>

(* Binding that mistakes the section for one entry.                         *)
BindSection(r) ==
  /\ stage[r] = "add" /\ Store(r) = "endpoints" /\ todo[r] # <<>>
  /\ listed' = [listed EXCEPT ![ref[r]] = Append(@, todo[r])]
  /\ todo' = [todo EXCEPT ![r] = <<>>]
  /\ UNCHANGED <<field, containers, database, asks, stage, ref, outcome, late, kept>>

(* section.Bind(_graphQLEndpoints) takes the list once and appends to it.   *)
BindEndpoint(r) ==
  /\ stage[r] = "add" /\ Store(r) = "endpoints" /\ todo[r] # <<>>
  /\ listed' = [listed EXCEPT ![ref[r]] = Append(@, Head(todo[r]))]
  /\ todo' = [todo EXCEPT ![r] = Tail(@)]
  /\ UNCHANGED <<field, containers, database, asks, stage, ref, outcome, late, kept>>

(* A loop that stops one short of the end.                                  *)
FilledEarly(r) ==
  /\ stage[r] \in {"fill", "add"} /\ Len(todo[r]) <= 1
  /\ Goes(r, Uses(asks[r].operation))
  /\ Leaves(r)
  /\ todo' = [todo EXCEPT ![r] = <<>>]
  /\ UNCHANGED <<collections, asks, outcome, late, kept>>

(* The loop is over: the getter returns what the field holds.               *)
Filled(r) ==
  /\ stage[r] \in {"fill", "add"} /\ todo[r] = <<>>
  /\ Goes(r, Uses(asks[r].operation))
  /\ Leaves(r)
  /\ UNCHANGED <<collections, asks, todo, outcome, late, kept>>

Holds(r) ==
  IF asks[r].operation = "Get" THEN asks[r].scheme \in containers[ref[r]]
                               ELSE database[ref[r]][asks[r].client] # NoState

(* ContainsKey.  Without the key Get answers null, which its callers turn   *)
(* into "not supported", and GetPublishStateAsync answers null.             *)
ContainsKey(r) ==
  /\ stage[r] = "contains" /\ ref[r] # Nobody
  /\ IF Holds(r) THEN Goes(r, "index") /\ UNCHANGED outcome
     ELSE Ends(r, IF asks[r].operation = "Get" THEN "unsupported" ELSE "served")
  /\ Leaves(r)
  /\ UNCHANGED <<collections, asks, todo, late, kept>>

(* The indexer, on the collection the field holds by now: it throws for a   *)
(* key that was only in an earlier one.                                     *)
Index(r) ==
  /\ stage[r] = "index" /\ ref[r] # Nobody
  /\ asks[r].operation \in {"Get", "GetPublishState"}
  /\ Ends(r, IF Holds(r) THEN "served" ELSE "threw")
  /\ Leaves(r)
  /\ UNCHANGED <<collections, asks, todo, late, kept>>

(* The field resolver copies the list it was handed.                        *)
ListEndpoints(r) ==
  /\ stage[r] = "index" /\ ref[r] # Nobody /\ asks[r].operation = "GetGraphQLEndpoints"
  /\ Ends(r, IF ToSet(Endpoints) \subseteq ToSet(listed[ref[r]]) THEN "served" ELSE "unsupported")
  /\ Leaves(r)
  /\ UNCHANGED <<collections, asks, todo, late, kept>>

(* Database[key] = state, answered with PublishStatus.Accepted.             *)
Publish(r) ==
  LET c == asks[r].client
      s == asks[r].state
  IN /\ stage[r] = "index" /\ ref[r] # Nobody /\ asks[r].operation = "PublishState"
     /\ database' = [database EXCEPT ![ref[r]][c] = s]
     /\ kept' = IF ref[r] = field["database"] /\ (late[r] \/ kept[c] # NoState)
                THEN [kept EXCEPT ![c] = s] ELSE kept
     /\ Ends(r, "served")
     /\ Leaves(r)
     /\ UNCHANGED <<field, containers, listed, asks, todo, late>>

(* The thread is free for another request.                                  *)
Return(r) ==
  /\ stage[r] = "done"
  /\ Goes(r, "idle")
  /\ asks' = [asks EXCEPT ![r] = NoQuestion]
  /\ todo' = [todo EXCEPT ![r] = <<>>]
  /\ outcome' = [outcome EXCEPT ![r] = "open"]
  /\ late' = [late EXCEPT ![r] = FALSE]
  /\ UNCHANGED <<collections, ref, kept>>

Next ==
  \E r \in Requests :
    \/ \E a \in Asked : Look(r, a)
    \/ Create(r) \/ Take(r) \/ AddContainer(r) \/ BindEndpoint(r) \/ Filled(r)
    \/ ContainsKey(r) \/ Index(r) \/ ListEndpoints(r) \/ Publish(r) \/ Return(r)

Spec == Init /\ [][Next]_vars

-----------------------------------------------------------------------------
(* However many first requests race, and although all but one of those that *)
(* fill the same dictionary die of a duplicate key: when none of them is    *)
(* creating or filling any more, the collection in the field has every      *)
(* authority, or every endpoint, of the settings.                           *)
FilledOnceQuiet ==
  /\ Settled("authorities") =>
       containers[field["authorities"]] = ToSet(Authorities)
  /\ Settled("endpoints") =>
       ToSet(listed[field["endpoints"]]) = ToSet(Endpoints)

(* And what a client published after that, if Accepted, is there until it   *)
(* publishes again.                                                         *)
PublicationsAreKept ==
  \A c \in Clients :
    kept[c] # NoState => /\ field["database"] # Nobody
                         /\ database[field["database"]][c] = kept[c]

StoresSettle == FilledOnceQuiet /\ PublicationsAreKept

(* A request that began once the collection was in place is served: its     *)
(* scheme is supported, the list it gets is complete, and no look-up throws *)
(* because the collection was exchanged between ContainsKey and the indexer.*)
(* Only requests that overlap a first one can fail.                         *)
LateRequestsAreServed ==
  \A r \in Requests : late[r] /\ stage[r] = "done" => outcome[r] = "served"
=============================================================================

------------------------ MODULE OidcPipeline_proofs ------------------------
(***************************************************************************)
(* For any number of tabs, users, logins and repeated answers: the types,  *)
(* that an answer is accepted again only by a post that had begun by then, *)
(* that no scratch user stays, and, as long as requests were served one at *)
(* a time, that a request is answered once, by a token that goes out once  *)
(* and that fits its nonce unless a later request took its place, and that *)
(* the home page shows the user's token.                                   *)
(***************************************************************************)
EXTENDS OidcPipeline, FiniteSetTheorems, TLAPS

Places == Serving \cup {"new", "landed", "choosing", "atProvider",
                        "returning", "redirected", "home", "done"}
ScratchUsers == [by : Tabs, sub : Subjects]
TabRecords ==
  [pc : Places, tries : 0 .. MaxTries, replays : 0 .. MaxReplays,
   seen : 0 .. Cardinality(Tabs), nonce : Nonces \cup {None},
   token : Tokens \cup {None}, session : Sessions,
   cookies : Jars \cup {None}, found : ScratchUsers \cup {None}]

\* A callback that has read its cookies and found a token there.
Callbacks == {"leftover", "creating", "finding", "claiming", "removing"}

\* Tabs that have parked their request, or never will.
Arrived == {t \in Tabs : tab[t].pc \notin {"new", "authorizing"}}

\* A tab reaches its place with what the place reads.
Placed ==
  /\ \A t \in Tabs :
       /\ InServer(t) => tab[t].cookies \in Jars
       /\ tab[t].pc \in Callbacks => tab[t].cookies.external \in Tokens
       /\ At(t, "atProvider") => tab[t].tries > 0 /\ tab[t].nonce \in Nonces
  /\ parked <= Cardinality(Arrived)

Typed == TypeOK /\ Placed

-----------------------------------------------------------------------------
(***************************************************************************)
(* How a tab moves.                                                        *)
(***************************************************************************)
Others(t) == \A u \in Tabs \ {t} : tab'[u] = tab[u]

\* What the tab keeps of its logins when a request of the server is about
\* something else.
Logins(t) == <<tab[t].tries, tab[t].seen, tab[t].nonce, tab[t].token>>

Leaves(t, pc) ==
  /\ Others(t) /\ UNCHANGED Logins(t) /\ tab'[t].pc = pc
  /\ tab'[t].session = EmptySession /\ tab'[t].cookies = None
  /\ tab' \in [Tabs -> TabRecords]

Loads(t, pc) ==
  /\ Others(t) /\ UNCHANGED Logins(t) /\ tab'[t].pc = pc
  /\ tab'[t].session = session /\ tab'[t].cookies = jar
  /\ tab' \in [Tabs -> TabRecords]

Goes(t, pc) ==
  /\ Others(t) /\ UNCHANGED Logins(t) /\ tab'[t].pc = pc
  /\ UNCHANGED <<tab[t].session, tab[t].cookies>>
  /\ tab' \in [Tabs -> TabRecords]

LEMMA RecordTyped ==
  ASSUME TypeOK, NEW t \in Tabs
  PROVE  tab[t] \in TabRecords /\ tab \in [Tabs -> TabRecords]
BY DEF TypeOK, TabRecords, Places, ScratchUsers

LEMMA RecordReplaced ==
  ASSUME TypeOK, NEW t \in Tabs, NEW r \in TabRecords, tab' = [tab EXCEPT ![t] = r]
  PROVE  Others(t) /\ tab'[t] = r /\ tab' \in [Tabs -> TabRecords]
BY RecordTyped DEF Others

LEMMA EmptyTyped == EmptySession \in Sessions
BY DEF EmptySession, Sessions

LEMMA EndEffect ==
  ASSUME TypeOK, NEW t \in Tabs, NEW pc \in Places, End(t, pc)
  PROVE  Leaves(t, pc)
<1> DEFINE r == [tab[t] EXCEPT !.pc = pc, !.session = EmptySession, !.cookies = None,
                               !.found = None]
<1>1. r \in TabRecords /\ tab' = [tab EXCEPT ![t] = r]
  BY RecordTyped, EmptyTyped DEF End, TabRecords
<1>2. Others(t) /\ tab'[t] = r /\ tab' \in [Tabs -> TabRecords]
  BY <1>1, RecordReplaced
<1> QED BY <1>2, RecordTyped DEF Leaves, Logins, TabRecords

LEMMA BeginEffect ==
  ASSUME TypeOK, NEW t \in Tabs, NEW from, NEW to \in Places, Begin(t, from, to)
  PROVE  /\ At(t, from) /\ Loads(t, to)
         /\ overlapped' = (overlapped \/ \E u \in Tabs : InServer(u))
         /\ UNCHANGED <<session, jar, users, parked, delivered>>
<1> DEFINE r == [tab[t] EXCEPT !.pc = to, !.session = session, !.cookies = jar]
<1>1. r \in TabRecords /\ tab' = [tab EXCEPT ![t] = r]
  <2>1. session \in Sessions /\ jar \in Jars
    BY DEF TypeOK
  <2> QED BY <2>1, RecordTyped DEF Begin, TabRecords
<1>2. Others(t) /\ tab'[t] = r /\ tab' \in [Tabs -> TabRecords]
  BY <1>1, RecordReplaced
<1>3. Loads(t, to)
  BY <1>2, RecordTyped DEF Loads, Logins, TabRecords
<1> QED BY <1>3 DEF Begin

LEMMA GoesOn ==
  ASSUME TypeOK, NEW t \in Tabs, NEW pc \in Places, NEW found \in ScratchUsers \cup {None},
         \/ tab' = [tab EXCEPT ![t].pc = pc]
         \/ tab' = [tab EXCEPT ![t].pc = pc, ![t].found = found]
  PROVE  Goes(t, pc)
<1>1. CASE tab' = [tab EXCEPT ![t].pc = pc]
  <2> DEFINE r == [tab[t] EXCEPT !.pc = pc]
  <2>1. r \in TabRecords /\ tab' = [tab EXCEPT ![t] = r]
    BY <1>1, RecordTyped DEF TabRecords
  <2>2. Others(t) /\ tab'[t] = r /\ tab' \in [Tabs -> TabRecords]
    BY <2>1, RecordReplaced
  <2> QED BY <2>2, RecordTyped DEF Goes, Logins, TabRecords
<1>2. CASE tab' = [tab EXCEPT ![t].pc = pc, ![t].found = found]
  <2> DEFINE r == [tab[t] EXCEPT !.pc = pc, !.found = found]
  <2>1. r \in TabRecords /\ tab' = [tab EXCEPT ![t] = r]
    BY <1>2, RecordTyped DEF TabRecords
  <2>2. Others(t) /\ tab'[t] = r /\ tab' \in [Tabs -> TabRecords]
    BY <2>1, RecordReplaced
  <2> QED BY <2>2, RecordTyped DEF Goes, Logins, TabRecords
<1> QED BY <1>1, <1>2

LEMMA TypeAgain ==
  ASSUME tab' \in [Tabs -> TabRecords], session' \in Sessions, jar' \in Jars,
         users' \subseteq ScratchUsers, overlapped' \in BOOLEAN,
         parked' \in 0 .. Cardinality(Tabs),
         delivered' \in Seq([to : Originals, token : Tokens])
  PROVE  TypeOK'
BY DEF TypeOK, TabRecords, Places, ScratchUsers

\* The types of everything but the tabs.
LEMMA StateTyped ==
  ASSUME TypeOK
  PROVE  /\ session \in Sessions /\ jar \in Jars /\ users \subseteq ScratchUsers
         /\ overlapped \in BOOLEAN /\ parked \in 0 .. Cardinality(Tabs) /\ parked \in Nat
         /\ delivered \in Seq([to : Originals, token : Tokens])
BY DEF TypeOK, ScratchUsers

LEMMA SignedOutIs ==
  ASSUME TypeOK
  PROVE  /\ SignedOut \in Jars /\ SignedOut.app = None /\ SignedOut.external = None
         /\ SignedOut.correlations = jar.correlations /\ SignedOut.accepted = jar.accepted
BY StateTyped DEF SignedOut, Jars

\* A session in which the request or the token was replaced.
LEMMA RequestReplaced ==
  ASSUME NEW s \in Sessions, NEW o \in Originals \cup {None}
  PROVE  /\ [s EXCEPT !.original = o] \in Sessions
         /\ [s EXCEPT !.original = o].original = o
         /\ [s EXCEPT !.original = o].downstream = s.downstream
BY DEF Sessions

LEMMA TokenReplaced ==
  ASSUME NEW s \in Sessions, NEW d \in Tokens \cup {None}
  PROVE  /\ [s EXCEPT !.downstream = d] \in Sessions
         /\ [s EXCEPT !.downstream = d].original = s.original
         /\ [s EXCEPT !.downstream = d].downstream = d
BY DEF Sessions

LEMMA OriginalTyped ==
  ASSUME NEW t \in Tabs, NEW nonce \in {RpNonce(t), None}, NEW mode \in Modes,
         NEW n \in 1 .. Cardinality(Tabs)
  PROVE  [by |-> t, nonce |-> nonce, mode |-> mode, order |-> n] \in Originals
<1>1. nonce \in Nonces \cup {None} /\ mode \in ResponseModes
  BY PipelineAssumption DEF Nonces
<1> QED BY <1>1 DEF Originals

\* The request is counted, so there is room for its number.
LEMMA RoomForAnother ==
  ASSUME Typed, NEW t \in Tabs, At(t, "authorizing")
  PROVE  parked + 1 \in 1 .. Cardinality(Tabs)
<1>1. IsFiniteSet(Tabs) /\ IsFiniteSet(Arrived) /\ Arrived \subseteq Tabs /\ t \notin Arrived
  BY PipelineAssumption, FS_Subset DEF Arrived, At
<1>2. /\ Cardinality(Arrived \cup {t}) = Cardinality(Arrived) + 1
      /\ Cardinality(Arrived \cup {t}) <= Cardinality(Tabs)
      /\ Cardinality(Tabs) \in Nat /\ Cardinality(Arrived) \in Nat
  BY <1>1, FS_AddElement, FS_Subset, FS_CardinalityType
<1>3. parked \in Nat /\ parked <= Cardinality(Arrived)
  BY StateTyped DEF Typed, Placed
<1> QED BY <1>2, <1>3

LEMMA AuthorizeEndEffect ==
  ASSUME Typed, NEW t \in Tabs, AuthorizeEnd(t)
  PROVE  /\ At(t, "authorizing") /\ Leaves(t, "landed")
         /\ UNCHANGED <<users, delivered, overlapped>> /\ parked' = parked + 1
         /\ session' \in Sessions /\ session'.original \in Originals
         /\ session'.original.order = parked + 1
         /\ session'.downstream = tab[t].session.downstream
         /\ jar' \in {jar, SignedOut} /\ TypeOK'
<1>0. TypeOK /\ At(t, "authorizing") /\ UNCHANGED <<users, delivered, overlapped>>
      /\ parked' = parked + 1 /\ jar' \in {jar, SignedOut}
  BY DEF Typed, AuthorizeEnd
<1>1. PICK nonce \in {RpNonce(t), None}, mode \in Modes :
         session' = [tab[t].session EXCEPT
             !.original = [by |-> t, nonce |-> nonce, mode |-> mode, order |-> parked + 1]]
  BY DEF AuthorizeEnd
<1> DEFINE o == [by |-> t, nonce |-> nonce, mode |-> mode, order |-> parked + 1]
<1>2. parked + 1 \in 1 .. Cardinality(Tabs)
  BY <1>0, RoomForAnother
<1>3. o \in Originals /\ o.order = parked + 1
  BY <1>2, OriginalTyped
<1>4. tab[t].session \in Sessions
  BY <1>0, RecordTyped DEF TabRecords
<1> HIDE DEF o
<1>5. session' \in Sessions /\ session'.original = o
      /\ session'.downstream = tab[t].session.downstream
  <2>1. session' = [tab[t].session EXCEPT !.original = o]
    BY <1>1 DEF o
  <2> QED BY <1>3, <1>4, <2>1, RequestReplaced
<1>6. Leaves(t, "landed")
  BY <1>0, EndEffect DEF AuthorizeEnd, Places
<1>7. parked' \in 0 .. Cardinality(Tabs)
  BY <1>0, <1>2
<1>8. jar' \in Jars
  BY <1>0, SignedOutIs, StateTyped
<1>9. TypeOK'
  BY <1>0, <1>5, <1>6, <1>7, <1>8, StateTyped, TypeAgain DEF Leaves
<1> QED BY <1>0, <1>3, <1>5, <1>6, <1>9

LEMMA LoginPageEndEffect ==
  ASSUME Typed, NEW t \in Tabs, LoginPageEnd(t)
  PROVE  /\ At(t, "paging") /\ Leaves(t, "choosing")
         /\ UNCHANGED <<users, parked, delivered, overlapped>>
         /\ \/ session' = session
            \/ session'.original = tab[t].session.original
               /\ session'.downstream = tab[t].session.downstream
         /\ jar'.app = jar.app /\ jar'.external = None
         /\ jar'.correlations = jar.correlations /\ jar'.accepted = jar.accepted /\ TypeOK'
<1>0. TypeOK /\ At(t, "paging") /\ UNCHANGED <<users, parked, delivered, overlapped>>
  BY DEF Typed, LoginPageEnd
<1>1. Leaves(t, "choosing")
  BY <1>0, EndEffect DEF LoginPageEnd, Places
<1>2. tab[t].session \in Sessions /\ session \in Sessions /\ jar \in Jars
  BY <1>0, RecordTyped, StateTyped DEF TabRecords
<1>3. /\ session' \in Sessions
      /\ \/ session' = session
         \/ session'.original = tab[t].session.original
            /\ session'.downstream = tab[t].session.downstream
  BY <1>2 DEF LoginPageEnd, Sessions
<1>4. /\ jar' \in Jars /\ jar'.app = jar.app /\ jar'.external = None
      /\ jar'.correlations = jar.correlations /\ jar'.accepted = jar.accepted
  BY <1>2 DEF LoginPageEnd, Jars
<1>5. TypeOK'
  BY <1>0, <1>1, <1>3, <1>4, StateTyped, TypeAgain DEF Leaves
<1> QED BY <1>0, <1>1, <1>3, <1>4, <1>5

LEMMA UncorrelatedIs ==
  ASSUME TypeOK, NEW t \in Tabs
  PROVE  /\ Uncorrelated(t) \in Jars
         /\ Uncorrelated(t).app = jar.app /\ Uncorrelated(t).external = jar.external
         /\ Uncorrelated(t).correlations = jar.correlations \ {Answered(t)}
         /\ Uncorrelated(t).accepted = jar.accepted
BY StateTyped DEF Uncorrelated, Jars

LEMMA NonceDropped ==
  ASSUME NEW j \in Jars, NEW c
  PROVE  /\ [j EXCEPT !.nonces = @ \ {c}] \in Jars
         /\ [j EXCEPT !.nonces = @ \ {c}].app = j.app
         /\ [j EXCEPT !.nonces = @ \ {c}].external = j.external
         /\ [j EXCEPT !.nonces = @ \ {c}].correlations = j.correlations
         /\ [j EXCEPT !.nonces = @ \ {c}].accepted = j.accepted
BY DEF Jars

LEMMA SigninRefusedEffect ==
  ASSUME Typed, NEW t \in Tabs, SigninRefused(t)
  PROVE  /\ At(t, "signing") /\ Leaves(t, "landed")
         /\ UNCHANGED <<session, users, parked, delivered, overlapped>>
         /\ jar'.app = jar.app /\ jar'.external = jar.external
         /\ jar'.correlations \in {jar.correlations, jar.correlations \ {Answered(t)}}
         /\ jar'.accepted = jar.accepted /\ TypeOK'
<1>0. TypeOK /\ At(t, "signing") /\ UNCHANGED <<session, users, parked, delivered, overlapped>>
  BY DEF Typed, SigninRefused
<1>1. Leaves(t, "landed")
  BY <1>0, EndEffect DEF SigninRefused, Places
<1>2. tab[t].token \in Tokens \cup {None}
  BY <1>0, RecordTyped DEF TabRecords
<1>3. /\ jar' \in Jars /\ jar'.app = jar.app /\ jar'.external = jar.external
      /\ jar'.correlations \in {jar.correlations, jar.correlations \ {Answered(t)}}
      /\ jar'.accepted = jar.accepted
  <2>1. CASE UNCHANGED jar
    BY <1>0, <2>1, StateTyped
  <2>2. CASE jar' = Uncorrelated(t)
    BY <1>0, <2>2, UncorrelatedIs
  <2>3. ASSUME tab[t].token # None, NEW c \in Matching(t),
               jar' = [Uncorrelated(t) EXCEPT !.nonces = @ \ {c}]
        PROVE  /\ jar' \in Jars /\ jar'.app = jar.app /\ jar'.external = jar.external
               /\ jar'.correlations = jar.correlations \ {Answered(t)}
               /\ jar'.accepted = jar.accepted
    <3> DEFINE j == Uncorrelated(t)
    <3>1. j \in Jars /\ jar' = [j EXCEPT !.nonces = @ \ {c}]
      BY <1>0, <2>3, UncorrelatedIs
    <3> HIDE DEF j
    <3>2. jar' \in Jars /\ jar'.app = j.app /\ jar'.external = j.external
          /\ jar'.correlations = j.correlations /\ jar'.accepted = j.accepted
      BY <3>1, NonceDropped
    <3> QED BY <1>0, <3>2, UncorrelatedIs DEF j
  <2> QED BY <2>1, <2>2, <2>3 DEF SigninRefused
<1>4. TypeOK'
  BY <1>0, <1>1, <1>3, StateTyped, TypeAgain DEF Leaves
<1> QED BY <1>0, <1>1, <1>3, <1>4

LEMMA SigninAcceptedEffect ==
  ASSUME Typed, NEW t \in Tabs, SigninAccepted(t)
  PROVE  /\ At(t, "signing") /\ Correlated(t) /\ Leaves(t, "redirected")
         /\ tab[t].token # None /\ tab[t].token \in Tokens
         /\ UNCHANGED <<session, users, parked, delivered, overlapped>>
         /\ jar'.app = jar.app /\ jar'.external = tab[t].token
         /\ jar'.correlations = jar.correlations \ {Answered(t)}
         /\ jar'.accepted = jar.accepted \cup {Answered(t)} /\ TypeOK'
<1>0. TypeOK /\ At(t, "signing") /\ UNCHANGED <<session, users, parked, delivered, overlapped>>
      /\ Correlated(t) /\ tab[t].token # None
  BY DEF Typed, SigninAccepted
<1>1. Leaves(t, "redirected")
  BY <1>0, EndEffect DEF SigninAccepted, Places
<1>2. tab[t].token \in Tokens /\ Answered(t) \in Tabs \X (1 .. MaxTries)
  <2>1. tab[t].token \in Tokens
    BY <1>0, RecordTyped DEF TabRecords
  <2> QED BY <1>0, <2>1 DEF Answered, Tokens
<1>3. /\ jar' \in Jars /\ jar'.app = jar.app /\ jar'.external = tab[t].token
      /\ jar'.correlations = jar.correlations \ {Answered(t)}
      /\ jar'.accepted = jar.accepted \cup {Answered(t)}
  <2>1. PICK c \in Matching(t) :
          jar' = [Uncorrelated(t) EXCEPT !.nonces = @ \ {c},
                                         !.accepted = @ \cup {Answered(t)},
                                         !.external = tab[t].token]
    BY DEF SigninAccepted
  <2> DEFINE j == Uncorrelated(t)
             x == tab[t].token
             l == Answered(t)
  <2>2. /\ j \in Jars /\ x \in Tokens /\ l \in Tabs \X (1 .. MaxTries)
        /\ jar' = [j EXCEPT !.nonces = @ \ {c}, !.accepted = @ \cup {l}, !.external = x]
    BY <1>0, <1>2, <2>1, UncorrelatedIs
  <2> HIDE DEF j, x, l
  <2>3. jar' \in Jars /\ jar'.app = j.app /\ jar'.external = x
        /\ jar'.correlations = j.correlations /\ jar'.accepted = j.accepted \cup {l}
    BY <2>2 DEF Jars
  <2> QED BY <1>0, <2>3, UncorrelatedIs DEF j, x, l
<1>4. TypeOK'
  BY <1>0, <1>1, <1>3, StateTyped, TypeAgain DEF Leaves
<1> QED BY <1>0, <1>1, <1>2, <1>3, <1>4

LEMMA NoExternalLoginEffect ==
  ASSUME Typed, NEW t \in Tabs, NoExternalLogin(t)
  PROVE  /\ At(t, "callback") /\ Leaves(t, "landed")
         /\ UNCHANGED <<jar, users, parked, delivered, overlapped>>
         /\ session'.original = tab[t].session.original
         /\ session'.downstream = tab[t].session.downstream /\ TypeOK'
<1>0. TypeOK /\ At(t, "callback") /\ UNCHANGED <<jar, users, parked, delivered, overlapped>>
  BY DEF Typed, NoExternalLogin
<1>1. Leaves(t, "landed")
  BY <1>0, EndEffect DEF NoExternalLogin, Places
<1>2. tab[t].session \in Sessions
  BY <1>0, RecordTyped DEF TabRecords
<1>3. /\ session' \in Sessions /\ session'.original = tab[t].session.original
      /\ session'.downstream = tab[t].session.downstream
  BY <1>2 DEF NoExternalLogin, Sessions
<1>4. TypeOK'
  BY <1>0, <1>1, <1>3, StateTyped, TypeAgain DEF Leaves
<1> QED BY <1>0, <1>1, <1>3, <1>4

\* What a callback has in hand.
LEMMA CallbackHas ==
  ASSUME Typed, NEW t \in Tabs, tab[t].pc \in Callbacks
  PROVE  /\ tab[t].cookies.external \in Tokens /\ Scratch(t) \in ScratchUsers
         /\ CallbackSession(t) \in Sessions
         /\ CallbackSession(t).original = tab[t].session.original
         /\ CallbackSession(t).downstream = tab[t].cookies.external
<1>1. tab[t].cookies.external \in Tokens /\ TypeOK
  BY DEF Typed, Placed
<1>2. tab[t].session \in Sessions
  BY <1>1, RecordTyped DEF TabRecords
<1>3. Scratch(t) \in ScratchUsers
  BY <1>1 DEF Scratch, Sub, ScratchUsers, Tokens
<1> DEFINE d == tab[t].cookies.external
           s == tab[t].session
<1>4. CallbackSession(t) = [s EXCEPT !.downstream = d] /\ d \in Tokens \cup {None}
  BY <1>1 DEF CallbackSession
<1> HIDE DEF d, s
<1>5. /\ CallbackSession(t) \in Sessions /\ CallbackSession(t).original = s.original
      /\ CallbackSession(t).downstream = d
  BY <1>2, <1>4 DEF Sessions, s
<1> QED BY <1>1, <1>3, <1>5 DEF s, d

Fails(t) ==
  /\ Leaves(t, "landed") /\ UNCHANGED <<jar, users, parked, delivered, overlapped>>
  /\ session'.original = tab[t].session.original
  /\ session'.downstream = tab[t].cookies.external

LEMMA ThrowEffect ==
  ASSUME Typed, NEW t \in Tabs, tab[t].pc \in Callbacks, Throw(t)
  PROVE  Fails(t) /\ TypeOK'
<1>0. TypeOK /\ session' = CallbackSession(t)
      /\ UNCHANGED <<jar, users, parked, delivered, overlapped>>
  BY DEF Typed, Throw
<1>1. Leaves(t, "landed")
  BY <1>0, EndEffect DEF Throw, Places
<1>2. TypeOK'
  BY <1>0, <1>1, CallbackHas, StateTyped, TypeAgain DEF Leaves
<1> QED BY <1>0, <1>1, <1>2, CallbackHas DEF Fails

LEMMA FindLeftoverEffect ==
  ASSUME Typed, NEW t \in Tabs, FindLeftover(t)
  PROVE  /\ At(t, "callback") /\ tab[t].cookies.external \in Tokens
         /\ UNCHANGED <<session, jar, users, parked, delivered, overlapped>>
         /\ Goes(t, "creating") \/ (Goes(t, "leftover") /\ users # {})
         /\ TypeOK'
<1>0. TypeOK /\ At(t, "callback") /\ UNCHANGED <<session, jar, users, parked, delivered, overlapped>>
  BY DEF Typed, FindLeftover
<1>1. tab[t].cookies.external \in Tokens
  <2>1. tab[t].cookies \in Jars /\ tab[t].cookies.external # None
    BY <1>0 DEF Typed, Placed, InServer, Serving, At, FindLeftover
  <2> QED BY <2>1 DEF Jars
<1>2. Goes(t, "creating") \/ (Goes(t, "leftover") /\ users # {})
  <2>1. CASE tab' = [tab EXCEPT ![t].pc = "creating"]
    BY <1>0, <2>1, GoesOn DEF Places, Serving
  <2>2. ASSUME NEW u \in users, tab' = [tab EXCEPT ![t].pc = "leftover", ![t].found = u]
        PROVE  Goes(t, "leftover") /\ users # {}
    <3>1. u \in ScratchUsers \cup {None}
      BY <1>0, StateTyped
    <3> QED BY <1>0, <2>2, <3>1, GoesOn DEF Places, Serving
  <2> QED BY <2>1, <2>2 DEF FindLeftover
<1>3. tab' \in [Tabs -> TabRecords]
  BY <1>2 DEF Goes
<1>4. TypeOK'
  BY <1>0, <1>3, StateTyped, TypeAgain
<1> QED BY <1>0, <1>1, <1>2, <1>4

LEMMA DeleteLeftoverEffect ==
  ASSUME Typed, NEW t \in Tabs, DeleteLeftover(t)
  PROVE  /\ At(t, "leftover") /\ TypeOK'
         /\ \/ /\ Goes(t, "creating") /\ users' \subseteq users
               /\ UNCHANGED <<session, jar, parked, delivered, overlapped>>
            \/ Fails(t)
<1>0. TypeOK /\ At(t, "leftover") /\ tab[t].pc \in Callbacks
  BY DEF Typed, DeleteLeftover, At, Callbacks
<1>1. CASE Throw(t)
  BY <1>0, <1>1, ThrowEffect
<1>2. CASE /\ users' = users \ {tab[t].found}
           /\ tab' = [tab EXCEPT ![t].pc = "creating", ![t].found = None]
           /\ UNCHANGED <<session, jar, parked, delivered, overlapped>>
  <2>1. Goes(t, "creating")
    BY <1>0, <1>2, GoesOn DEF Places, Serving
  <2>2. tab' \in [Tabs -> TabRecords]
    BY <2>1 DEF Goes
  <2>3. TypeOK'
    BY <1>0, <1>2, <2>2, StateTyped, TypeAgain
  <2> QED BY <1>0, <1>2, <2>1, <2>3
<1> QED BY <1>1, <1>2 DEF DeleteLeftover

LEMMA CreateScratchEffect ==
  ASSUME Typed, NEW t \in Tabs, CreateScratch(t)
  PROVE  /\ At(t, "creating") /\ TypeOK'
         /\ \/ /\ Goes(t, "finding") /\ users' = users \cup {Scratch(t)}
               /\ UNCHANGED <<session, jar, parked, delivered, overlapped>>
            \/ Fails(t) /\ users # {}
<1>0. TypeOK /\ At(t, "creating") /\ tab[t].pc \in Callbacks
  BY DEF Typed, CreateScratch, At, Callbacks
<1>1. CASE Throw(t) /\ users # {}
  BY <1>0, <1>1, ThrowEffect
<1>2. CASE /\ users' = users \cup {Scratch(t)}
           /\ tab' = [tab EXCEPT ![t].pc = "finding"]
           /\ UNCHANGED <<session, jar, parked, delivered, overlapped>>
  <2>1. Goes(t, "finding")
    BY <1>0, <1>2, GoesOn DEF Places, Serving
  <2>2. tab' \in [Tabs -> TabRecords]
    BY <2>1 DEF Goes
  <2>3. TypeOK'
    BY <1>0, <1>2, <2>2, StateTyped, CallbackHas, TypeAgain
  <2> QED BY <1>0, <1>2, <2>1, <2>3
<1> QED BY <1>1, <1>2 DEF CreateScratch

LEMMA FindScratchEffect ==
  ASSUME Typed, NEW t \in Tabs, FindScratch(t)
  PROVE  /\ At(t, "finding") /\ TypeOK'
         /\ \/ /\ Goes(t, "claiming") /\ Scratch(t) \in users
               /\ UNCHANGED <<session, jar, users, parked, delivered, overlapped>>
            \/ Fails(t) /\ Scratch(t) \notin users
<1>0. TypeOK /\ At(t, "finding") /\ tab[t].pc \in Callbacks
  BY DEF Typed, FindScratch, At, Callbacks
<1>1. CASE Throw(t) /\ Scratch(t) \notin users
  BY <1>0, <1>1, ThrowEffect
<1>2. CASE /\ Scratch(t) \in users
           /\ tab' = [tab EXCEPT ![t].pc = "claiming"]
           /\ UNCHANGED <<session, jar, users, parked, delivered, overlapped>>
  <2>1. Goes(t, "claiming")
    BY <1>0, <1>2, GoesOn DEF Places, Serving
  <2>2. tab' \in [Tabs -> TabRecords]
    BY <2>1 DEF Goes
  <2>3. TypeOK'
    BY <1>0, <1>2, <2>2, StateTyped, TypeAgain
  <2> QED BY <1>0, <1>2, <2>1, <2>3
<1> QED BY <1>1, <1>2 DEF FindScratch

LEMMA AddClaimsEffect ==
  ASSUME Typed, NEW t \in Tabs, AddClaims(t)
  PROVE  /\ At(t, "claiming") /\ TypeOK' /\ Goes(t, "removing")
         /\ users' \in {users, users \cup {Scratch(t)}}
         /\ UNCHANGED <<session, jar, parked, delivered, overlapped>>
<1>0. TypeOK /\ At(t, "claiming") /\ tab[t].pc \in Callbacks
      /\ users' \in {users, users \cup {Scratch(t)}}
      /\ tab' = [tab EXCEPT ![t].pc = "removing"]
      /\ UNCHANGED <<session, jar, parked, delivered, overlapped>>
  BY DEF Typed, AddClaims, At, Callbacks
<1>1. Goes(t, "removing")
  BY <1>0, GoesOn DEF Places, Serving
<1>2. tab' \in [Tabs -> TabRecords]
  BY <1>1 DEF Goes
<1>3. TypeOK'
  BY <1>0, <1>2, StateTyped, CallbackHas, TypeAgain
<1> QED BY <1>0, <1>1, <1>3

LEMMA SignInAndRemoveEffect ==
  ASSUME Typed, NEW t \in Tabs, SignInAndRemove(t)
  PROVE  /\ At(t, "removing") /\ TypeOK'
         /\ \/ /\ Leaves(t, "home") /\ Scratch(t) \in users /\ users' = users \ {Scratch(t)}
               /\ session'.original = tab[t].session.original
               /\ session'.downstream = tab[t].cookies.external
               /\ jar'.app = session'.downstream.sub
               /\ jar'.external = jar.external /\ jar'.accepted = jar.accepted
               /\ jar'.correlations = jar.correlations
               /\ UNCHANGED <<parked, delivered, overlapped>>
            \/ Fails(t) /\ Scratch(t) \notin users
<1>0. TypeOK /\ At(t, "removing") /\ tab[t].pc \in Callbacks
  BY DEF Typed, SignInAndRemove, At, Callbacks
<1>1. CASE Throw(t) /\ Scratch(t) \notin users
  BY <1>0, <1>1, ThrowEffect
<1>2. CASE /\ Scratch(t) \in users
           /\ users' = users \ {Scratch(t)}
           /\ session' = CallbackSession(t)
           /\ jar' = [jar EXCEPT !.app = Sub(t)]
           /\ End(t, "home")
           /\ UNCHANGED <<parked, delivered, overlapped>>
  <2>1. Leaves(t, "home")
    BY <1>0, <1>2, EndEffect DEF Places
  <2>2. /\ session' \in Sessions
        /\ session'.original = tab[t].session.original
        /\ session'.downstream = tab[t].cookies.external
    BY <1>0, <1>2, CallbackHas
  <2>3. Sub(t) = session'.downstream.sub /\ Sub(t) \in Subjects
    BY <1>0, <2>2, CallbackHas DEF Sub, Tokens
  <2>4. /\ jar' \in Jars /\ jar'.app = Sub(t)
        /\ jar'.external = jar.external /\ jar'.accepted = jar.accepted
        /\ jar'.correlations = jar.correlations
    BY <1>0, <1>2, <2>3, StateTyped DEF Jars
  <2>5. TypeOK'
    BY <1>0, <1>2, <2>1, <2>2, <2>4, StateTyped, TypeAgain DEF Leaves
  <2> QED BY <1>0, <1>2, <2>1, <2>2, <2>3, <2>4, <2>5
<1> QED BY <1>1, <1>2 DEF SignInAndRemove

LEMMA Way2NothingParkedEffect ==
  ASSUME Typed, NEW t \in Tabs, Way2NothingParked(t)
  PROVE  /\ At(t, "answering") /\ Leaves(t, "landed") /\ TypeOK'
         /\ UNCHANGED <<session, jar, users, parked, delivered, overlapped>>
<1>0. TypeOK /\ At(t, "answering")
      /\ UNCHANGED <<session, jar, users, parked, delivered, overlapped>>
  BY DEF Typed, Way2NothingParked
<1>1. Leaves(t, "landed")
  BY <1>0, EndEffect DEF Way2NothingParked, Places
<1>2. TypeOK'
  BY <1>0, <1>1, StateTyped, TypeAgain DEF Leaves
<1> QED BY <1>0, <1>1, <1>2

\* The answer of the last post.
Answer(t) == [to |-> tab[t].session.original, token |-> tab[t].session.downstream]

LEMMA Way2AnswerEffect ==
  ASSUME Typed, NEW t \in Tabs, Way2Answer(t)
  PROVE  /\ At(t, "answering") /\ TypeOK'
         /\ tab[t].session.original # None /\ tab[t].session.downstream # None
         /\ tab[t].session.original \in Originals /\ tab[t].session.downstream \in Tokens
         /\ session'.original = None /\ session'.downstream = None
         /\ UNCHANGED <<users, parked, overlapped>>
         /\ \/ Leaves(t, "done") /\ jar' = SignedOut /\ delivered' = Append(delivered, Answer(t))
            \/ Leaves(t, "landed") /\ UNCHANGED <<jar, delivered>>
<1>0. /\ TypeOK /\ At(t, "answering") /\ UNCHANGED <<users, parked, overlapped>>
      /\ tab[t].session.original # None /\ tab[t].session.downstream # None
      /\ session' = [tab[t].session EXCEPT !.original = None, !.downstream = None]
  BY DEF Typed, Way2Answer
<1>1. tab[t].session \in Sessions
  BY <1>0, RecordTyped DEF TabRecords
<1>2. tab[t].session.original \in Originals /\ tab[t].session.downstream \in Tokens
  BY <1>0, <1>1 DEF Sessions
<1>3. session' \in Sessions /\ session'.original = None /\ session'.downstream = None
  BY <1>0, <1>1 DEF Sessions
<1>4. CASE End(t, "done") /\ jar' = SignedOut /\ delivered' = Append(delivered, Answer(t))
  <2>1. Leaves(t, "done")
    BY <1>0, <1>4, EndEffect DEF Places
  <2>2. Answer(t) \in [to : Originals, token : Tokens]
    BY <1>2 DEF Answer
  <2>3. delivered' \in Seq([to : Originals, token : Tokens])
    <3> DEFINE S == [to : Originals, token : Tokens]
    <3>1. delivered \in Seq(S) /\ Answer(t) \in S
      BY <1>0, <2>2, StateTyped
    <3> HIDE DEF S
    <3>2. Append(delivered, Answer(t)) \in Seq(S)
      BY <3>1
    <3> QED BY <1>4, <3>2 DEF S
  <2>4. jar' \in Jars
    BY <1>0, <1>4, SignedOutIs
  <2>5. TypeOK'
    BY <1>0, <1>3, <2>1, <2>3, <2>4, StateTyped, TypeAgain DEF Leaves
  <2> QED BY <1>0, <1>2, <1>3, <1>4, <2>1, <2>5
<1>5. CASE End(t, "landed") /\ UNCHANGED <<jar, delivered>>
  <2>1. Leaves(t, "landed")
    BY <1>0, <1>5, EndEffect DEF Places
  <2>2. TypeOK'
    BY <1>0, <1>3, <1>5, <2>1, StateTyped, TypeAgain DEF Leaves
  <2> QED BY <1>0, <1>2, <1>3, <1>5, <2>1, <2>2
<1> QED BY <1>4, <1>5 DEF Way2Answer, Answer

\* A request that begins reads what is stored.
Opening(t) ==
  AuthorizeBegin(t) \/ LoginPageBegin(t) \/ SigninBegin(t) \/ CallbackBegin(t) \/ Way2Begin(t)

LEMMA OpeningEffect ==
  ASSUME Typed, NEW t \in Tabs, Opening(t)
  PROVE  \E to \in {"authorizing", "paging", "signing", "callback", "answering"} :
           /\ Loads(t, to) /\ TypeOK'
           /\ tab[t].pc \in {"new", "landed", "returning", "redirected", "home"}
           /\ tab[t].pc = "new" <=> to = "authorizing"
           /\ overlapped' = (overlapped \/ \E u \in Tabs : InServer(u))
           /\ UNCHANGED <<session, jar, users, parked, delivered>>
<1>1. \E to \in {"authorizing", "paging", "signing", "callback", "answering"} :
        /\ Loads(t, to)
        /\ tab[t].pc \in {"new", "landed", "returning", "redirected", "home"}
        /\ tab[t].pc = "new" <=> to = "authorizing"
        /\ overlapped' = (overlapped \/ \E u \in Tabs : InServer(u))
        /\ UNCHANGED <<session, jar, users, parked, delivered>>
  <2>0. TypeOK
    BY DEF Typed
  <2>1. CASE AuthorizeBegin(t)
    BY <2>0, <2>1, BeginEffect DEF AuthorizeBegin, Places, Serving, At
  <2>2. CASE LoginPageBegin(t)
    BY <2>0, <2>2, BeginEffect DEF LoginPageBegin, Places, Serving, At
  <2>3. CASE SigninBegin(t)
    BY <2>0, <2>3, BeginEffect DEF SigninBegin, Places, Serving, At
  <2>4. CASE CallbackBegin(t)
    BY <2>0, <2>4, BeginEffect DEF CallbackBegin, Places, Serving, At
  <2>5. CASE Way2Begin(t)
    BY <2>0, <2>5, BeginEffect DEF Way2Begin, Places, Serving, At
  <2> QED BY <2>1, <2>2, <2>3, <2>4, <2>5 DEF Opening
<1>2. TypeOK'
  <2>1. overlapped' \in BOOLEAN
    BY <1>1
  <2>2. tab' \in [Tabs -> TabRecords]
    BY <1>1 DEF Loads
  <2> QED BY <1>1, <2>1, <2>2, StateTyped, TypeAgain DEF Typed
<1> QED BY <1>1, <1>2

\* What the browser does between two requests.
Walking(t) == Visit(t) \/ HomePage(t) \/ Logout(t)

LEMMA WalkingEffect ==
  ASSUME Typed, NEW t \in Tabs, Walking(t)
  PROVE  /\ tab[t].pc \in {"new", "landed", "home"} /\ TypeOK'
         /\ Leaves(t, "landed") \/ Leaves(t, "home")
         /\ jar' \in {jar, SignedOut}
         /\ UNCHANGED <<session, users, parked, delivered, overlapped>>
<1>0. /\ TypeOK /\ tab[t].pc \in {"new", "landed", "home"} /\ jar' \in {jar, SignedOut}
      /\ UNCHANGED <<session, users, parked, delivered, overlapped>>
  BY DEF Typed, Walking, Visit, HomePage, Logout, At
<1>1. Leaves(t, "landed") \/ Leaves(t, "home")
  BY <1>0, EndEffect DEF Walking, Visit, HomePage, Logout, Places
<1>2. TypeOK'
  BY <1>0, <1>1, StateTyped, SignedOutIs, TypeAgain DEF Leaves
<1> QED BY <1>0, <1>1, <1>2

LEMMA ChallengeEffect ==
  ASSUME Typed, NEW t \in Tabs, Challenge(t)
  PROVE  LET k == tab[t].tries + 1 IN
         /\ At(t, "choosing") /\ TypeOK' /\ Others(t)
         /\ tab'[t].pc = "atProvider" /\ tab'[t].tries = k /\ k \in 1 .. MaxTries
         /\ tab'[t].nonce \in Nonces /\ tab'[t].seen = parked
         /\ (session.original # None /\ session.original.nonce # None) =>
              tab'[t].nonce = session.original.nonce
         /\ UNCHANGED <<tab[t].token, tab[t].session, tab[t].cookies>>
         /\ jar'.app = jar.app /\ jar'.external = jar.external
         /\ jar'.correlations = jar.correlations \cup {<<t, k>>}
         /\ jar'.accepted = jar.accepted
         /\ overlapped' = (overlapped \/ \E u \in Tabs : InServer(u))
         /\ UNCHANGED <<session, users, parked, delivered>>
<1> DEFINE k == tab[t].tries + 1
           nonce == IF session.original # None /\ session.original.nonce # None
                    THEN session.original.nonce ELSE OwnNonce(t, k)
<1>0. /\ TypeOK /\ At(t, "choosing") /\ tab[t].tries < MaxTries
      /\ overlapped' = (overlapped \/ \E u \in Tabs : InServer(u))
      /\ UNCHANGED <<session, users, parked, delivered>>
      /\ jar' = [jar EXCEPT !.nonces = @ \cup {<<nonce, <<t, k>>>>},
                            !.correlations = @ \cup {<<t, k>>}]
      /\ tab' = [tab EXCEPT ![t].pc = "atProvider", ![t].tries = k,
                            ![t].nonce = nonce, ![t].seen = parked]
  BY DEF Typed, Challenge
<1>1. k \in 1 .. MaxTries
  <2>1. tab[t].tries \in 0 .. MaxTries
    BY <1>0, RecordTyped DEF TabRecords
  <2> QED BY <1>0, <2>1, PipelineAssumption
<1>2. nonce \in Nonces
  <2>1. session.original \in Originals \cup {None}
    BY <1>0, StateTyped DEF Sessions
  <2>2. OwnNonce(t, k) \in Nonces
    BY <1>1 DEF Nonces
  <2> QED BY <2>1, <2>2 DEF Originals
<1>3. (session.original # None /\ session.original.nonce # None) => nonce = session.original.nonce
  OBVIOUS
<1> HIDE DEF nonce, k
<1>4. /\ jar' \in Jars /\ jar'.app = jar.app /\ jar'.external = jar.external
      /\ jar'.correlations = jar.correlations \cup {<<t, k>>} /\ jar'.accepted = jar.accepted
  <2>1. <<t, k>> \in Tabs \X (1 .. MaxTries)
    BY <1>1
  <2>2. <<nonce, <<t, k>>>> \in Nonces \X (Tabs \X (1 .. MaxTries))
    BY <1>2, <2>1
  <2> QED BY <1>0, <2>1, <2>2, StateTyped DEF Jars
<1> DEFINE r == [tab[t] EXCEPT !.pc = "atProvider", !.tries = k, !.nonce = nonce, !.seen = parked]
<1>5. r \in TabRecords /\ tab' = [tab EXCEPT ![t] = r]
  <2>1. k \in 0 .. MaxTries
    BY <1>1
  <2> QED BY <1>0, <1>2, <2>1, RecordTyped, StateTyped DEF TabRecords, Places
<1>6. Others(t) /\ tab'[t] = r /\ tab' \in [Tabs -> TabRecords]
  BY <1>0, <1>5, RecordReplaced
<1>7. /\ tab'[t].pc = "atProvider" /\ tab'[t].tries = k /\ tab'[t].nonce = nonce
      /\ tab'[t].seen = parked
      /\ UNCHANGED <<tab[t].token, tab[t].session, tab[t].cookies>>
  BY <1>0, <1>6, RecordTyped DEF TabRecords
<1>8. TypeOK'
  <2>1. overlapped' \in BOOLEAN
    BY <1>0, StateTyped
  <2> QED BY <1>0, <1>4, <1>6, <2>1, StateTyped, TypeAgain
<1> QED BY <1>0, <1>1, <1>2, <1>3, <1>4, <1>6, <1>7, <1>8 DEF k

LEMMA ProviderAnswersEffect ==
  ASSUME Typed, NEW t \in Tabs, ProviderAnswers(t)
  PROVE  /\ At(t, "atProvider") /\ TypeOK' /\ Others(t) /\ tab'[t].pc = "returning"
         /\ UNCHANGED <<tab[t].tries, tab[t].session, tab[t].cookies>>
         /\ \/ tab'[t].token = None
            \/ /\ tab'[t].token.login = Login(t) /\ tab'[t].token.nonce = tab[t].nonce
               /\ tab'[t].token.seen = tab[t].seen
         /\ UNCHANGED <<session, jar, users, parked, delivered, overlapped>>
<1>0. /\ TypeOK /\ At(t, "atProvider")
      /\ UNCHANGED <<session, jar, users, parked, delivered, overlapped>>
  BY DEF Typed, ProviderAnswers
<1>0a. PICK sub \in Subjects :
         \E answer \in {[nonce |-> tab[t].nonce, sub |-> sub, login |-> Login(t),
                         seen |-> tab[t].seen], None} :
           tab' = [tab EXCEPT ![t].pc = "returning", ![t].token = answer]
  BY DEF ProviderAnswers
<1>1. PICK answer \in {[nonce |-> tab[t].nonce, sub |-> sub, login |-> Login(t),
                        seen |-> tab[t].seen], None} :
        tab' = [tab EXCEPT ![t].pc = "returning", ![t].token = answer]
  BY <1>0a
<1>2. answer \in Tokens \cup {None}
  <2>1. tab[t].nonce \in Nonces /\ tab[t].tries > 0
    BY <1>0 DEF Typed, Placed
  <2>2. tab[t].tries \in 0 .. MaxTries /\ tab[t].seen \in 0 .. Cardinality(Tabs)
    BY <1>0, RecordTyped DEF TabRecords
  <2>3. tab[t].tries \in 1 .. MaxTries
    BY <2>1, <2>2
  <2>4. Login(t) \in Tabs \X (1 .. MaxTries)
    BY <2>3 DEF Login
  <2> QED BY <2>1, <2>2, <2>4 DEF Tokens
<1>3. \/ answer = None
      \/ answer.login = Login(t) /\ answer.nonce = tab[t].nonce /\ answer.seen = tab[t].seen
  OBVIOUS
<1> DEFINE r == [tab[t] EXCEPT !.pc = "returning", !.token = answer]
<1>4. r \in TabRecords /\ tab' = [tab EXCEPT ![t] = r]
  BY <1>0, <1>1, <1>2, RecordTyped DEF TabRecords, Places
<1>5. Others(t) /\ tab'[t] = r /\ tab' \in [Tabs -> TabRecords]
  BY <1>0, <1>4, RecordReplaced
<1>6. TypeOK'
  BY <1>0, <1>5, StateTyped, TypeAgain
<1>7. tab'[t].pc = "returning" /\ tab'[t].token = answer
      /\ UNCHANGED <<tab[t].tries, tab[t].session, tab[t].cookies>>
  BY <1>0, <1>5, RecordTyped DEF TabRecords
<1> QED BY <1>0, <1>3, <1>5, <1>6, <1>7

LEMMA ReplayEffect ==
  ASSUME Typed, NEW t \in Tabs, Replay(t)
  PROVE  /\ tab[t].pc \in {"redirected", "landed", "home"} /\ tab'[t].pc = "returning"
         /\ TypeOK' /\ Others(t)
         /\ UNCHANGED <<tab[t].tries, tab[t].seen, tab[t].nonce>>
         /\ \E u \in Tabs : tab[u].token # None /\ tab'[t].token = tab[u].token
         /\ UNCHANGED <<tab[t].session, tab[t].cookies>>
         /\ UNCHANGED <<session, jar, users, parked, delivered, overlapped>>
<1>0. /\ TypeOK /\ tab[t].pc \in {"redirected", "landed", "home"}
      /\ UNCHANGED <<session, jar, users, parked, delivered, overlapped>>
      /\ tab[t].replays < MaxReplays
  BY DEF Typed, Replay
<1>1. PICK u \in Tabs :
        /\ tab[u].token # None
        /\ tab' = [tab EXCEPT ![t].pc = "returning", ![t].replays = @ + 1,
                              ![t].token = tab[u].token]
  BY DEF Replay
<1>2. tab[t].replays + 1 \in 0 .. MaxReplays
  <2>1. tab[t].replays \in 0 .. MaxReplays
    BY <1>0, RecordTyped DEF TabRecords
  <2> QED BY <1>0, <2>1, PipelineAssumption
<1> DEFINE x == tab[u].token
           r == [tab[t] EXCEPT !.pc = "returning", !.replays = tab[t].replays + 1, !.token = x]
<1>3. x \in Tokens \cup {None}
  BY <1>0, RecordTyped DEF TabRecords
<1>4. r \in TabRecords /\ tab' = [tab EXCEPT ![t] = r]
  BY <1>0, <1>1, <1>2, <1>3, RecordTyped DEF TabRecords, Places
<1>5. Others(t) /\ tab'[t] = r /\ tab' \in [Tabs -> TabRecords]
  BY <1>0, <1>4, RecordReplaced
<1>6. TypeOK'
  BY <1>0, <1>5, StateTyped, TypeAgain
<1>7. /\ tab'[t].pc = "returning" /\ tab'[t].token = tab[u].token
      /\ UNCHANGED <<tab[t].tries, tab[t].seen, tab[t].nonce, tab[t].session, tab[t].cookies>>
  BY <1>0, <1>5, RecordTyped DEF TabRecords
<1> QED BY <1>0, <1>1, <1>5, <1>6, <1>7

-----------------------------------------------------------------------------
(***************************************************************************)
(* Types.  A step of a tab takes it out of the server, into the server     *)
(* with what is stored, or from one operation of a callback to the next.   *)
(***************************************************************************)
Acts(t) ==
  \/ AuthorizeEnd(t) \/ LoginPageEnd(t) \/ SigninRefused(t) \/ SigninAccepted(t)
  \/ NoExternalLogin(t) \/ FindLeftover(t) \/ DeleteLeftover(t) \/ CreateScratch(t)
  \/ FindScratch(t) \/ AddClaims(t) \/ SignInAndRemove(t) \/ Way2NothingParked(t)
  \/ Way2Answer(t) \/ Opening(t) \/ Walking(t) \/ Challenge(t) \/ ProviderAnswers(t)
  \/ Replay(t)

LEMMA NextActs ==
  [Next]_vars => UNCHANGED vars \/ SessionExpires \/ \E t \in Tabs : Acts(t)
BY DEF Next, Serve, Use, Acts, Opening, Walking

Outside(t) == tab'[t].pc \notin Serving

Enters(t) ==
  /\ tab[t].pc \notin Serving
  /\ \E to \in {"authorizing", "paging", "signing", "callback", "answering"} :
       /\ Loads(t, to)
       /\ tab[t].pc = "new" <=> to = "authorizing"
  /\ overlapped' = (overlapped \/ \E u \in Tabs : InServer(u))
  /\ UNCHANGED <<session, jar, users, parked, delivered>>

GoesOnInside(t) ==
  /\ tab[t].pc \in Callbacks \cup {"callback"}
  /\ tab[t].cookies.external \in Tokens
  /\ \E pc \in Callbacks : Goes(t, pc)
  /\ UNCHANGED <<session, jar, parked, delivered, overlapped>>

Shape(t) ==
  /\ Others(t)
  /\ Outside(t) \/ Enters(t) \/ GoesOnInside(t)
  /\ tab'[t].pc = "atProvider" => Challenge(t)
  /\ tab'[t].pc \in {"new", "authorizing"} => tab[t].pc = "new"
  /\ UNCHANGED parked \/ AuthorizeEnd(t)
  /\ TypeOK'

LEMMA LeavesShape ==
  ASSUME NEW t \in Tabs, NEW pc \in {"landed", "choosing", "redirected", "home", "done"},
         Leaves(t, pc), UNCHANGED parked \/ AuthorizeEnd(t), TypeOK'
  PROVE  Shape(t)
BY DEF Leaves, Shape, Outside, Serving

LEMMA ActsShape ==
  ASSUME Typed, NEW t \in Tabs, Acts(t) PROVE Shape(t)
<1>1. CASE AuthorizeEnd(t)
  BY <1>1, AuthorizeEndEffect, LeavesShape
<1>2. CASE LoginPageEnd(t)
  BY <1>2, LoginPageEndEffect, LeavesShape
<1>3. CASE SigninRefused(t)
  BY <1>3, SigninRefusedEffect, LeavesShape
<1>4. CASE SigninAccepted(t)
  BY <1>4, SigninAcceptedEffect, LeavesShape
<1>5. CASE NoExternalLogin(t)
  BY <1>5, NoExternalLoginEffect, LeavesShape
<1> DEFINE Inside(pc) == /\ Goes(t, pc) /\ tab[t].pc \in Callbacks \cup {"callback"}
                         /\ tab[t].cookies.external \in Tokens /\ TypeOK'
                         /\ UNCHANGED <<session, jar, parked, delivered, overlapped>>
<1>6. ASSUME NEW pc \in Callbacks, Inside(pc) PROVE Shape(t)
  <2>1. GoesOnInside(t)
    BY <1>6 DEF GoesOnInside
  <2>2. Others(t) /\ tab'[t].pc = pc /\ TypeOK' /\ UNCHANGED parked
    BY <1>6 DEF Goes
  <2> QED BY <2>1, <2>2 DEF Shape, Callbacks
<1>7. ASSUME Fails(t), TypeOK' PROVE Shape(t)
  BY <1>7, LeavesShape DEF Fails
<1>8. tab[t].pc \in Callbacks => tab[t].cookies.external \in Tokens
  BY CallbackHas
<1> HIDE DEF Inside
<1>9. CASE FindLeftover(t)
  <2>1. Inside("creating") \/ Inside("leftover")
    BY <1>9, FindLeftoverEffect DEF Inside, At
  <2> QED BY <1>6, <2>1 DEF Callbacks
<1>10. CASE DeleteLeftover(t)
  <2>1. Inside("creating") \/ (Fails(t) /\ TypeOK')
    BY <1>8, <1>10, DeleteLeftoverEffect DEF Inside, At, Callbacks
  <2> QED BY <1>6, <1>7, <2>1 DEF Callbacks
<1>11. CASE CreateScratch(t)
  <2>1. Inside("finding") \/ (Fails(t) /\ TypeOK')
    BY <1>8, <1>11, CreateScratchEffect DEF Inside, At, Callbacks
  <2> QED BY <1>6, <1>7, <2>1 DEF Callbacks
<1>12. CASE FindScratch(t)
  <2>1. Inside("claiming") \/ (Fails(t) /\ TypeOK')
    BY <1>8, <1>12, FindScratchEffect DEF Inside, At, Callbacks
  <2> QED BY <1>6, <1>7, <2>1 DEF Callbacks
<1>13. CASE AddClaims(t)
  <2>1. Inside("removing")
    BY <1>8, <1>13, AddClaimsEffect DEF Inside, At, Callbacks
  <2> QED BY <1>6, <2>1 DEF Callbacks
<1>14. CASE SignInAndRemove(t)
  BY <1>7, <1>14, SignInAndRemoveEffect, LeavesShape
<1>15. CASE Way2NothingParked(t)
  BY <1>15, Way2NothingParkedEffect, LeavesShape
<1>16. CASE Way2Answer(t)
  BY <1>16, Way2AnswerEffect, LeavesShape
<1>17. CASE Opening(t)
  <2>1. PICK to \in {"authorizing", "paging", "signing", "callback", "answering"} :
           /\ Loads(t, to) /\ TypeOK'
           /\ tab[t].pc \in {"new", "landed", "returning", "redirected", "home"}
           /\ tab[t].pc = "new" <=> to = "authorizing"
           /\ overlapped' = (overlapped \/ \E u \in Tabs : InServer(u))
           /\ UNCHANGED <<session, jar, users, parked, delivered>>
    BY <1>17, OpeningEffect
  <2>2. Enters(t)
    BY <2>1 DEF Enters, Serving
  <2> QED BY <2>1, <2>2 DEF Shape, Loads
<1>18. CASE Walking(t)
  BY <1>18, WalkingEffect, LeavesShape
<1>19. CASE Challenge(t)
  BY <1>19, ChallengeEffect DEF Shape, Outside, Serving
<1>20. CASE ProviderAnswers(t)
  BY <1>20, ProviderAnswersEffect DEF Shape, Outside, Serving
<1>21. CASE Replay(t)
  BY <1>21, ReplayEffect DEF Shape, Outside, Serving
<1> QED BY <1>1, <1>2, <1>3, <1>4, <1>5, <1>9, <1>10, <1>11, <1>12, <1>13, <1>14, <1>15,
           <1>16, <1>17, <1>18, <1>19, <1>20, <1>21 DEF Acts

LEMMA ExpiresEffect ==
  ASSUME TypeOK, SessionExpires
  PROVE  /\ UNCHANGED <<jar, users, tab, parked, delivered, overlapped>>
         /\ session'.original = None /\ session'.downstream = None
         /\ \A t \in Tabs : ~InServer(t)
         /\ TypeOK'
<1>1. session' = EmptySession /\ UNCHANGED <<jar, users, tab, parked, delivered, overlapped>>
      /\ \A t \in Tabs : ~InServer(t)
  BY DEF SessionExpires
<1>2. session' \in Sessions /\ session'.original = None /\ session'.downstream = None
  BY <1>1, EmptyTyped DEF EmptySession
<1> QED BY <1>1, <1>2 DEF TypeOK

LEMMA ArrivedGrows ==
  ASSUME Typed, NEW t \in Tabs, Acts(t) PROVE parked' <= Cardinality(Arrived')
<1>1. Shape(t) /\ TypeOK /\ parked <= Cardinality(Arrived)
  BY ActsShape DEF Typed, Placed
<1>2. /\ IsFiniteSet(Tabs) /\ Arrived \subseteq Tabs /\ Arrived' \subseteq Tabs
      /\ IsFiniteSet(Arrived) /\ IsFiniteSet(Arrived')
  BY PipelineAssumption, FS_Subset DEF Arrived
<1>3. Arrived \subseteq Arrived'
  BY <1>1 DEF Arrived, Shape, Others
<1>4. /\ Cardinality(Arrived) \in Nat /\ Cardinality(Arrived') \in Nat /\ parked \in Nat
      /\ Cardinality(Arrived) <= Cardinality(Arrived')
  BY <1>1, <1>2, <1>3, FS_Subset, FS_CardinalityType, StateTyped
<1>5. CASE UNCHANGED parked
  BY <1>1, <1>4, <1>5
<1>6. CASE AuthorizeEnd(t)
  <2>1. /\ tab[t].pc = "authorizing" /\ tab'[t].pc = "landed" /\ parked' = parked + 1
    BY <1>6, AuthorizeEndEffect DEF At, Leaves
  <2>2. t \notin Arrived /\ Arrived \cup {t} \subseteq Arrived'
    BY <1>3, <2>1 DEF Arrived
  <2>3. /\ Cardinality(Arrived \cup {t}) = Cardinality(Arrived) + 1
        /\ Cardinality(Arrived \cup {t}) <= Cardinality(Arrived')
    BY <1>2, <2>2, FS_AddElement, FS_Subset
  <2> QED BY <1>1, <1>4, <2>1, <2>3
<1> QED BY <1>1, <1>5, <1>6 DEF Shape

LEMMA InitTyped == Init => Typed
<1> SUFFICES ASSUME Init PROVE Typed
  OBVIOUS
<1>1. IsFiniteSet(Tabs) /\ Cardinality(Tabs) \in Nat
  BY PipelineAssumption, FS_CardinalityType
<1>2. Idle \in TabRecords
  BY <1>1, PipelineAssumption, EmptyTyped DEF Idle, TabRecords, Places
<1>3. tab \in [Tabs -> TabRecords] /\ \A t \in Tabs : tab[t].pc = "new"
  BY <1>2 DEF Init, Idle
<1>4. TypeOK
  <2>1. jar \in Jars
    BY DEF Init, Jars
  <2>2. delivered \in Seq([to : Originals, token : Tokens]) /\ users \subseteq ScratchUsers
    BY DEF Init
  <2>3. session \in Sessions
    BY EmptyTyped DEF Init
  <2>4. overlapped \in BOOLEAN /\ parked = 0
    BY DEF Init
  <2>5. parked \in 0 .. Cardinality(Tabs)
    BY <1>1, <2>4
  <2> QED BY <1>3, <2>1, <2>2, <2>3, <2>4, <2>5 DEF TypeOK, TabRecords, Places, ScratchUsers
<1>5. parked <= Cardinality(Arrived)
  <2>1. Arrived = {} /\ parked = 0
    BY <1>3 DEF Arrived, Init
  <2> QED BY <2>1, FS_EmptySet
<1> QED BY <1>3, <1>4, <1>5 DEF Typed, Placed, InServer, Serving, At, Callbacks

LEMMA NextTyped == Typed /\ [Next]_vars => Typed'
<1> SUFFICES ASSUME Typed, [Next]_vars PROVE Typed'
  OBVIOUS
<1>1. CASE UNCHANGED vars
  BY <1>1 DEF vars, Typed, TypeOK, Placed, Arrived, InServer, At
<1>2. CASE SessionExpires
  BY <1>2, ExpiresEffect DEF Typed, Placed, Arrived, InServer, At
<1>3. ASSUME NEW t \in Tabs, Acts(t) PROVE Typed'
  <2>1. Shape(t) /\ TypeOK'
    BY <1>3, ActsShape DEF Shape
  <2>2. /\ tab'[t].pc \in Serving => tab'[t].cookies \in Jars
        /\ tab'[t].pc \in Callbacks => tab'[t].cookies.external \in Tokens
        /\ tab'[t].pc = "atProvider" => tab'[t].tries > 0 /\ tab'[t].nonce \in Nonces
    <3>1. CASE Outside(t)
      <4>1. Callbacks \subseteq Serving
        BY DEF Callbacks, Serving
      <4>2. Challenge(t) => tab'[t].tries > 0 /\ tab'[t].nonce \in Nonces
        <5>1. ASSUME Challenge(t) PROVE tab'[t].tries \in 1 .. MaxTries /\ tab'[t].nonce \in Nonces
          BY <5>1, ChallengeEffect
        <5> QED BY <5>1, PipelineAssumption
      <4> QED BY <2>1, <3>1, <4>1, <4>2 DEF Outside, Shape
    <3>2. CASE Enters(t)
      BY <3>2, StateTyped DEF Enters, Loads, Callbacks, Typed
    <3>3. CASE GoesOnInside(t)
      <4>1. tab[t].cookies \in Jars
        BY <3>3 DEF GoesOnInside, Typed, Placed, InServer, Serving, Callbacks
      <4>2. tab'[t].pc # "atProvider"
        BY <3>3 DEF GoesOnInside, Goes, Callbacks
      <4> QED BY <3>3, <4>1, <4>2 DEF GoesOnInside, Goes
    <3> QED BY <2>1, <3>1, <3>2, <3>3 DEF Shape
  <2>3. parked' <= Cardinality(Arrived')
    BY <1>3, ArrivedGrows
  <2>4. ASSUME NEW u \in Tabs
        PROVE  /\ tab'[u].pc \in Serving => tab'[u].cookies \in Jars
               /\ tab'[u].pc \in Callbacks => tab'[u].cookies.external \in Tokens
               /\ tab'[u].pc = "atProvider" => tab'[u].tries > 0 /\ tab'[u].nonce \in Nonces
    BY <2>1, <2>2 DEF Shape, Others, Typed, Placed, InServer, At
  <2> QED BY <2>1, <2>3, <2>4 DEF Typed, Placed, InServer, At
<1> QED BY <1>1, <1>2, <1>3, NextActs

LEMMA AlwaysTyped == Spec => []Typed
BY InitTyped, NextTyped, PTL DEF Spec

\* The types, and that no more requests are counted than there are tabs.
THEOREM PipelineTyped == Spec => []TypeOK
<1>1. Typed => TypeOK
  BY DEF Typed
<1> QED BY <1>1, AlwaysTyped, PTL

-----------------------------------------------------------------------------
(***************************************************************************)
(* Scratch users.  Whoever is in the store was created by a callback that  *)
(* is between its CreateAsync and its DeleteAsync.                         *)
(***************************************************************************)
Creators == {"finding", "claiming", "removing"}

Owned == \A u \in users : tab[u.by].pc \in Creators /\ u = Scratch(u.by)

LEMMA OthersKeepTheirs ==
  ASSUME Typed, Owned, NEW t \in Tabs, Others(t), NEW u \in users, u.by # t
  PROVE  tab'[u.by].pc \in Creators /\ u = Scratch(u.by)'
<1>1. u.by \in Tabs
  BY StateTyped DEF Typed, ScratchUsers
<1>2. tab'[u.by] = tab[u.by]
  BY <1>1 DEF Others
<1> QED BY <1>2 DEF Owned, Scratch, Sub

\* A callback that is not yet, or no longer, between the two has nobody there.
LEMMA NobodyOf ==
  ASSUME Owned, NEW t \in Tabs, tab[t].pc \notin Creators \/ Scratch(t) \notin users,
         NEW u \in users
  PROVE  u.by # t
BY DEF Owned

LEMMA OwnedWithout ==
  ASSUME Typed, Owned, NEW t \in Tabs, Others(t), users' \subseteq users,
         \A u \in users' : u.by # t
  PROVE  Owned'
BY OthersKeepTheirs DEF Owned

LEMMA OwnedWith ==
  ASSUME Typed, Owned, NEW t \in Tabs, NEW pc \in Creators, Goes(t, pc),
         users' \subseteq users \cup {Scratch(t)}
  PROVE  Owned'
<1> SUFFICES ASSUME NEW u \in users' PROVE tab'[u.by].pc \in Creators /\ u = Scratch(u.by)'
  BY DEF Owned
<1>1. Scratch(t)' = Scratch(t) /\ Scratch(t).by = t /\ tab'[t].pc = pc /\ Others(t)
  BY DEF Goes, Scratch, Sub
<1>2. CASE u.by = t
  <2>1. u = Scratch(t)
    BY <1>2 DEF Owned
  <2> QED BY <1>1, <1>2, <2>1
<1>3. CASE u.by # t
  <2>1. u \in users
    BY <1>1, <1>3
  <2> QED BY <1>1, <1>3, <2>1, OthersKeepTheirs
<1> QED BY <1>2, <1>3

LEMMA NextOwned == Typed /\ Owned /\ [Next]_vars => Owned'
<1> SUFFICES ASSUME Typed, Owned, [Next]_vars PROVE Owned'
  OBVIOUS
<1>1. CASE UNCHANGED vars
  BY <1>1 DEF vars, Owned, Scratch, Sub
<1>2. CASE SessionExpires
  BY <1>2, ExpiresEffect DEF Typed, Owned, Scratch, Sub
<1>3. ASSUME NEW t \in Tabs, Acts(t) PROVE Owned'
  <2>0. Others(t)
    BY <1>3, ActsShape DEF Shape
  <2>1. CASE users' \subseteq users /\ tab[t].pc \notin Creators
    BY <2>0, <2>1, NobodyOf, OwnedWithout
  <2>2. CASE users' \subseteq users \ {Scratch(t)}
    BY <2>0, <2>2, OwnedWithout DEF Owned
  <2>3. CASE \E pc \in Creators : Goes(t, pc) /\ users' \subseteq users \cup {Scratch(t)}
    BY <2>3, OwnedWith
  <2>4. CASE \/ AuthorizeEnd(t) \/ LoginPageEnd(t) \/ SigninRefused(t) \/ SigninAccepted(t)
             \/ NoExternalLogin(t) \/ Way2NothingParked(t) \/ Way2Answer(t)
    <3>1. UNCHANGED users /\ tab[t].pc \notin Creators
      BY <2>4 DEF AuthorizeEnd, LoginPageEnd, SigninRefused, SigninAccepted, NoExternalLogin,
         Way2NothingParked, Way2Answer, At, Creators
    <3> QED BY <2>1, <3>1
  <2>5. CASE Opening(t) \/ Walking(t)
    <3>1. UNCHANGED users /\ tab[t].pc \notin Creators
      BY <2>5, OpeningEffect, WalkingEffect DEF Creators
    <3> QED BY <2>1, <3>1
  <2>6. CASE Challenge(t) \/ ProviderAnswers(t) \/ Replay(t) \/ FindLeftover(t)
    <3>1. UNCHANGED users /\ tab[t].pc \notin Creators
      BY <2>6 DEF Challenge, ProviderAnswers, Replay, FindLeftover, At, Creators
    <3> QED BY <2>1, <3>1
  <2>7. CASE DeleteLeftover(t)
    <3>1. users' \subseteq users /\ tab[t].pc \notin Creators
      BY <2>7, DeleteLeftoverEffect DEF Fails, At, Creators
    <3> QED BY <2>1, <3>1
  <2>8. CASE CreateScratch(t)
    BY <2>1, <2>3, <2>8, CreateScratchEffect DEF Fails, At, Creators
  <2>9. CASE FindScratch(t)
    BY <2>2, <2>3, <2>9, FindScratchEffect DEF Fails, Creators
  <2>10. CASE AddClaims(t)
    BY <2>3, <2>10, AddClaimsEffect DEF Creators
  <2>11. CASE SignInAndRemove(t)
    BY <2>2, <2>11, SignInAndRemoveEffect DEF Fails
  <2> QED BY <1>3, <2>4, <2>5, <2>6, <2>7, <2>8, <2>9, <2>10, <2>11 DEF Acts
<1> QED BY <1>1, <1>2, <1>3, NextActs

\* The scratch users are temporary: whatever the callbacks of any number of
\* tabs do to each other in the user store, nobody stays when they have ended.
THEOREM ScratchUsersGo == Spec => []ScratchUsersAreTemporary
<1>1. Init => Owned
  BY DEF Init, Owned
<1>2. Typed /\ Owned => ScratchUsersAreTemporary
  <2> SUFFICES ASSUME Typed, Owned, \A t \in Tabs : ~InServer(t), NEW u \in users PROVE FALSE
    BY DEF ScratchUsersAreTemporary
  <2>1. u.by \in Tabs
    BY StateTyped DEF Typed, ScratchUsers
  <2> QED BY <2>1 DEF Owned, InServer, Serving, Creators
<1> QED BY <1>1, <1>2, NextOwned, AlwaysTyped, PTL DEF Spec

-----------------------------------------------------------------------------
(***************************************************************************)
(* Logins.  Correlations and tokens are of logins that have begun, and a   *)
(* step adds a correlation only for a new one.                             *)
(***************************************************************************)
Traced ==
  /\ \A l \in jar.correlations : l[2] <= tab[l[1]].tries
  /\ \A t \in Tabs : tab[t].token # None =>
       tab[t].token.login[2] <= tab[tab[t].token.login[1]].tries

\* No step takes back a login, a correlation goes only when an answer is looked
\* at, one comes only with a new login, and a token comes from the provider or
\* from a tab that has it.
LoginMoves(t) ==
  /\ tab[t].tries <= tab'[t].tries
  /\ jar.correlations \ jar'.correlations \subseteq
       (IF At(t, "signing") /\ tab'[t].pc # "signing" THEN {Answered(t)} ELSE {})
  /\ \A l \in jar'.correlations \ jar.correlations :
       Challenge(t) /\ l = <<t, tab[t].tries + 1>> /\ tab'[t].tries = tab[t].tries + 1
  /\ jar'.accepted = jar.accepted
       \/ (SigninAccepted(t) /\ jar'.accepted = jar.accepted \cup {Answered(t)})
  /\ \/ tab'[t].token = None
     \/ \E u \in Tabs : tab'[t].token = tab[u].token
     \/ tab[t].tries > 0 /\ ProviderAnswers(t) /\ tab'[t].token.login = <<t, tab[t].tries>>

LEMMA TriesTyped ==
  ASSUME TypeOK, NEW t \in Tabs PROVE tab[t].tries \in Nat /\ tab[t].tries \in 0 .. MaxTries
BY RecordTyped, PipelineAssumption DEF TabRecords

LEMMA ActsLogin ==
  ASSUME Typed, NEW t \in Tabs, Acts(t) PROVE LoginMoves(t)
<1>0. TypeOK /\ tab[t].tries \in Nat
  BY TriesTyped DEF Typed
<1>1. ASSUME UNCHANGED Logins(t), jar'.correlations = jar.correlations,
             jar'.accepted = jar.accepted
      PROVE  LoginMoves(t)
  BY <1>0, <1>1 DEF LoginMoves, Logins
<1>2. ASSUME NEW pc, Leaves(t, pc), jar'.correlations = jar.correlations,
             jar'.accepted = jar.accepted
      PROVE  LoginMoves(t)
  BY <1>1, <1>2 DEF Leaves
<1>3. Fails(t) => LoginMoves(t)
  BY <1>2 DEF Fails
<1>4. (\E pc : Goes(t, pc) /\ UNCHANGED jar) => LoginMoves(t)
  BY <1>1 DEF Goes
<1>5. \A j : j \in {jar, SignedOut} =>
        j.correlations = jar.correlations /\ j.accepted = jar.accepted
  BY <1>0, SignedOutIs
<1>6. AuthorizeEnd(t) \/ LoginPageEnd(t) => LoginMoves(t)
  BY <1>2, <1>5, AuthorizeEndEffect, LoginPageEndEffect
<1>7. CASE SigninRefused(t) \/ SigninAccepted(t)
  <2>1. /\ UNCHANGED Logins(t) /\ tab'[t].pc # "signing" /\ At(t, "signing")
        /\ jar'.correlations \in {jar.correlations, jar.correlations \ {Answered(t)}}
        /\ jar'.accepted = jar.accepted
             \/ (SigninAccepted(t) /\ jar'.accepted = jar.accepted \cup {Answered(t)})
    BY <1>7, SigninRefusedEffect, SigninAcceptedEffect DEF Leaves
  <2> QED BY <1>0, <2>1 DEF LoginMoves, Logins
<1>8. NoExternalLogin(t) \/ Way2NothingParked(t) => LoginMoves(t)
  BY <1>2, NoExternalLoginEffect, Way2NothingParkedEffect
<1>9. FindLeftover(t) \/ DeleteLeftover(t) \/ CreateScratch(t) => LoginMoves(t)
  BY <1>3, <1>4, FindLeftoverEffect, DeleteLeftoverEffect, CreateScratchEffect
<1>10. FindScratch(t) \/ AddClaims(t) => LoginMoves(t)
  BY <1>3, <1>4, FindScratchEffect, AddClaimsEffect
<1>11. SignInAndRemove(t) => LoginMoves(t)
  BY <1>2, <1>3, SignInAndRemoveEffect
<1>12. Way2Answer(t) => LoginMoves(t)
  BY <1>2, <1>5, Way2AnswerEffect
<1>13. Opening(t) => LoginMoves(t)
  BY <1>1, OpeningEffect DEF Loads
<1>14. Walking(t) => LoginMoves(t)
  BY <1>2, <1>5, WalkingEffect
<1>15. Challenge(t) => LoginMoves(t)
  <2> SUFFICES ASSUME Challenge(t) PROVE LoginMoves(t)
    OBVIOUS
  <2>1. /\ tab'[t].tries = tab[t].tries + 1 /\ UNCHANGED tab[t].token
        /\ jar'.correlations = jar.correlations \cup {<<t, tab[t].tries + 1>>}
        /\ jar'.accepted = jar.accepted
    BY ChallengeEffect
  <2> QED BY <1>0, <2>1 DEF LoginMoves
<1>16. ProviderAnswers(t) => LoginMoves(t)
  <2> SUFFICES ASSUME ProviderAnswers(t) PROVE LoginMoves(t)
    OBVIOUS
  <2>1. /\ UNCHANGED <<tab[t].tries, jar>> /\ At(t, "atProvider")
        /\ tab'[t].token = None \/ tab'[t].token.login = Login(t)
    BY ProviderAnswersEffect
  <2>2. tab[t].tries > 0
    BY <2>1 DEF Typed, Placed
  <2> QED BY <1>0, <2>1, <2>2 DEF LoginMoves, Login
<1>17. Replay(t) => LoginMoves(t)
  <2> SUFFICES ASSUME Replay(t) PROVE LoginMoves(t)
    OBVIOUS
  <2>1. UNCHANGED <<tab[t].tries, jar>> /\ \E u \in Tabs : tab'[t].token = tab[u].token
    BY ReplayEffect
  <2> QED BY <1>0, <2>1 DEF LoginMoves
<1> QED BY <1>6, <1>7, <1>8, <1>9, <1>10, <1>11, <1>12, <1>13, <1>14, <1>15, <1>16, <1>17 DEF Acts

LEMMA NextTraced == Typed /\ Traced /\ [Next]_vars => Traced'
<1> SUFFICES ASSUME Typed, Traced, [Next]_vars PROVE Traced'
  OBVIOUS
<1>1. CASE UNCHANGED vars
  BY <1>1 DEF vars, Traced
<1>2. CASE SessionExpires
  BY <1>2, ExpiresEffect DEF Typed, Traced
<1>3. ASSUME NEW t \in Tabs, Acts(t) PROVE Traced'
  <2>0. LoginMoves(t) /\ Shape(t) /\ Others(t) /\ TypeOK /\ TypeOK'
    BY <1>3, ActsLogin, ActsShape DEF Shape, Typed
  <2>a. \A u \in Tabs : tab[u].tries \in Nat /\ tab'[u].tries \in Nat /\ tab[u].tries <= tab'[u].tries
    <3>1. tab'[t].tries \in Nat
      <4>1. tab'[t].tries \in 0 .. MaxTries
        BY <2>0 DEF TypeOK
      <4> QED BY <4>1, PipelineAssumption
    <3> QED BY <2>0, <3>1, TriesTyped DEF LoginMoves, Others
  <2>1. ASSUME NEW l \in jar'.correlations PROVE l[2] <= tab'[l[1]].tries
    <3>1. l \in Tabs \X (1 .. MaxTries)
      BY <2>0 DEF TypeOK, Jars
    <3>2. CASE l \in jar.correlations
      <4>1. l[2] <= tab[l[1]].tries /\ l[1] \in Tabs /\ l[2] \in Nat
        BY <3>1, <3>2, PipelineAssumption DEF Traced
      <4> QED BY <2>a, <4>1
    <3>3. CASE l \notin jar.correlations
      <4>1. l = <<t, tab[t].tries + 1>> /\ tab'[t].tries = tab[t].tries + 1
        BY <2>0, <3>3 DEF LoginMoves
      <4> QED BY <2>a, <4>1
    <3> QED BY <3>2, <3>3
  <2>2. ASSUME NEW u \in Tabs, tab'[u].token # None
        PROVE  tab'[u].token.login[2] <= tab'[tab'[u].token.login[1]].tries
    <3>1. ASSUME NEW v \in Tabs, tab'[u].token = tab[v].token
          PROVE  tab'[u].token.login[2] <= tab'[tab'[u].token.login[1]].tries
      <4>1. tab[v].token \in Tokens /\ tab[v].token # None
        BY <2>0, <2>2, <3>1, RecordTyped DEF TabRecords
      <4>2. tab[v].token.login[1] \in Tabs /\ tab[v].token.login[2] \in Nat
        BY <4>1, PipelineAssumption DEF Tokens
      <4> QED BY <2>a, <3>1, <4>1, <4>2 DEF Traced
    <3>2. CASE \A v \in Tabs : tab'[u].token # tab[v].token
      <4>1. u = t /\ tab'[t].token.login = <<t, tab[t].tries>>
        BY <2>0, <2>2, <3>2 DEF LoginMoves, Others
      <4> QED BY <2>a, <4>1
    <3> QED BY <3>1, <3>2
  <2> QED BY <2>1, <2>2 DEF Traced
<1> QED BY <1>1, <1>2, <1>3, NextActs

LEMMA AlwaysTraced == Spec => [](Typed /\ Traced)
<1>1. Init => Traced
  <2> SUFFICES ASSUME Init PROVE Traced
    OBVIOUS
  <2>1. jar.correlations = {} /\ \A t \in Tabs : tab[t].token = None
    BY DEF Init, Idle
  <2> QED BY <2>1 DEF Traced
<1> QED BY <1>1, InitTyped, NextTyped, NextTraced, PTL DEF Spec

-----------------------------------------------------------------------------
(***************************************************************************)
(* Where tokens are.  What a step stores comes from what its request read, *)
(* and a token is put into a cookie only when its login is accepted; from  *)
(* then on its correlation is spent.                                       *)
(***************************************************************************)
Inside == {t \in Tabs : InServer(t)}

Held ==
  {jar.external, session.downstream} \cup {tab[t].session.downstream : t \in Tabs}
    \cup {tab[t].cookies.external : t \in Inside}

Sent == {delivered[i].token : i \in DOMAIN delivered}

Spent ==
  \A x \in (Held \cup Sent) \ {None} :
    x.login \notin jar.correlations /\ x.login[2] <= tab[x.login[1]].tries

StoreMoves(t) ==
  /\ \/ UNCHANGED session
     \/ /\ InServer(t) /\ Outside(t)
        /\ session'.downstream \in {None, tab[t].session.downstream, tab[t].cookies.external}
        /\ session'.original \in {None, tab[t].session.original} \/ AuthorizeEnd(t)
  /\ jar'.external \in {None, jar.external}
       \/ (SigninAccepted(t) /\ jar'.external = tab[t].token)
  /\ UNCHANGED delivered
       \/ (Way2Answer(t) /\ delivered' = Append(delivered, Answer(t)))
  /\ tab'[t].session \in {tab[t].session, session, EmptySession}
  /\ users \subseteq users' \/ InServer(t)
  /\ \/ UNCHANGED overlapped /\ ~Challenge(t)
     \/ overlapped' = (overlapped \/ \E u \in Tabs : InServer(u))

LEMMA ActsStore ==
  ASSUME Typed, NEW t \in Tabs, Acts(t) PROVE StoreMoves(t)
<1>0. TypeOK
  BY DEF Typed
<1>1. \A j : j \in {jar, SignedOut} => j.external \in {None, jar.external}
  BY <1>0, SignedOutIs
<1>2. tab[t].pc \in Callbacks => InServer(t)
  BY DEF Callbacks, InServer, Serving
<1>3. Challenge(t) => At(t, "choosing")
  BY DEF Challenge
<1>4. ASSUME NEW pc \in {"landed", "choosing", "redirected", "home", "done"}, Leaves(t, pc)
      PROVE  Outside(t) /\ tab'[t].session = EmptySession
  BY <1>4 DEF Leaves, Outside, Serving
<1>5. ASSUME UNCHANGED <<session, jar, users, delivered, overlapped>>, ~Challenge(t),
             tab'[t].session \in {tab[t].session, session, EmptySession}
      PROVE  StoreMoves(t)
  BY <1>5 DEF StoreMoves
<1>6. ASSUME Fails(t), tab[t].pc \in Callbacks PROVE StoreMoves(t)
  BY <1>2, <1>3, <1>4, <1>6 DEF Fails, StoreMoves, At, Callbacks
<1>7. ASSUME \E pc : Goes(t, pc), UNCHANGED <<session, jar, delivered, overlapped>>,
             tab[t].pc \in Callbacks
      PROVE  StoreMoves(t)
  BY <1>2, <1>3, <1>7 DEF Goes, StoreMoves, At, Callbacks
<1>8. CASE AuthorizeEnd(t)
  BY <1>1, <1>3, <1>4, <1>8, AuthorizeEndEffect DEF StoreMoves, At, InServer, Serving
<1>9. CASE LoginPageEnd(t)
  BY <1>3, <1>4, <1>9, LoginPageEndEffect DEF StoreMoves, At, InServer, Serving
<1>10. CASE SigninRefused(t)
  BY <1>3, <1>4, <1>10, SigninRefusedEffect DEF StoreMoves, At
<1>11. CASE SigninAccepted(t)
  BY <1>3, <1>4, <1>11, SigninAcceptedEffect DEF StoreMoves, At
<1>12. CASE NoExternalLogin(t)
  BY <1>3, <1>4, <1>12, NoExternalLoginEffect DEF StoreMoves, At, InServer, Serving
<1>13. CASE FindLeftover(t)
  BY <1>3, <1>5, <1>13, FindLeftoverEffect DEF Goes, At
<1>14. CASE DeleteLeftover(t)
  BY <1>6, <1>7, <1>14, DeleteLeftoverEffect DEF At, Callbacks
<1>15. CASE CreateScratch(t)
  BY <1>6, <1>7, <1>15, CreateScratchEffect DEF At, Callbacks
<1>16. CASE FindScratch(t)
  BY <1>6, <1>7, <1>16, FindScratchEffect DEF At, Callbacks
<1>17. CASE AddClaims(t)
  BY <1>6, <1>7, <1>17, AddClaimsEffect DEF At, Callbacks
<1>18. CASE SignInAndRemove(t)
  <2>1. At(t, "removing") /\ tab[t].pc \in Callbacks
    BY <1>18, SignInAndRemoveEffect DEF At, Callbacks
  <2> QED BY <1>2, <1>3, <1>4, <1>6, <1>18, <2>1, SignInAndRemoveEffect DEF StoreMoves, At
<1>19. CASE Way2NothingParked(t)
  BY <1>3, <1>4, <1>5, <1>19, Way2NothingParkedEffect DEF At
<1>20. CASE Way2Answer(t)
  BY <1>1, <1>3, <1>4, <1>20, Way2AnswerEffect DEF StoreMoves, At, InServer, Serving
<1>21. CASE Opening(t)
  BY <1>3, <1>21, OpeningEffect DEF StoreMoves, Loads
<1>22. CASE Walking(t)
  BY <1>1, <1>3, <1>4, <1>22, WalkingEffect DEF StoreMoves, At
<1>23. CASE Challenge(t)
  BY <1>23, ChallengeEffect DEF StoreMoves
<1>24. CASE ProviderAnswers(t)
  BY <1>3, <1>5, <1>24, ProviderAnswersEffect DEF At
<1>25. CASE Replay(t)
  BY <1>3, <1>5, <1>25, ReplayEffect DEF At
<1> QED BY <1>8, <1>9, <1>10, <1>11, <1>12, <1>13, <1>14, <1>15, <1>16, <1>17, <1>18, <1>19,
           <1>20, <1>21, <1>22, <1>23, <1>24, <1>25 DEF Acts

\* The cookies of a request in progress are those the browser had, or has.
LEMMA CookiesMove ==
  ASSUME NEW t \in Tabs, Shape(t)
  PROVE  /\ Inside' \subseteq Inside \cup {t}
         /\ t \in Inside' =>
              tab'[t].cookies = jar \/ (t \in Inside /\ tab'[t].cookies = tab[t].cookies)
<1>1. Others(t) /\ (Outside(t) \/ Enters(t) \/ GoesOnInside(t))
  BY DEF Shape
<1>2. Inside' \subseteq Inside \cup {t}
  BY <1>1 DEF Inside, InServer, Others
<1>3. ASSUME t \in Inside'
      PROVE  tab'[t].cookies = jar \/ (t \in Inside /\ tab'[t].cookies = tab[t].cookies)
  <2>1. ~Outside(t)
    BY <1>3 DEF Inside, InServer, Outside
  <2> QED BY <1>1, <2>1 DEF Enters, Loads, GoesOnInside, Goes, Inside, InServer, Serving, Callbacks
<1> QED BY <1>2, <1>3

LEMMA TokensMove ==
  ASSUME Typed, NEW t \in Tabs, Acts(t)
  PROVE  /\ Held' \subseteq Held \cup {None} \cup (IF SigninAccepted(t) THEN {tab[t].token} ELSE {})
         /\ Sent' \subseteq Sent \cup Held
<1>1. StoreMoves(t) /\ Shape(t) /\ Others(t)
  BY ActsStore, ActsShape DEF Shape
<1> DEFINE New == Held \cup {None} \cup (IF SigninAccepted(t) THEN {tab[t].token} ELSE {})
<1>2. jar'.external \in New
  BY <1>1 DEF StoreMoves, Held
<1>3. session'.downstream \in New
  <2>1. InServer(t) => tab[t].cookies.external \in Held
    BY DEF Held, Inside
  <2> QED BY <1>1, <2>1 DEF StoreMoves, Held
<1>4. ASSUME NEW u \in Tabs PROVE tab'[u].session.downstream \in New
  <2>1. CASE u = t
    BY <1>1, <2>1 DEF StoreMoves, Held, EmptySession
  <2>2. CASE u # t
    BY <1>1, <2>2 DEF Others, Held
  <2> QED BY <2>1, <2>2
<1>5. ASSUME NEW u \in Inside' PROVE tab'[u].cookies.external \in New
  <2>1. CASE u = t
    BY <1>1, <1>5, <2>1, CookiesMove DEF Held
  <2>2. CASE u # t
    <3>1. u \in Inside /\ tab'[u] = tab[u]
      BY <1>1, <1>5, <2>2, CookiesMove DEF Others, Inside
    <3> QED BY <3>1 DEF Held
  <2> QED BY <2>1, <2>2
<1>6. Held' \subseteq New
  <2> HIDE DEF New
  <2> QED BY <1>2, <1>3, <1>4, <1>5 DEF Held
<1>7. Sent' \subseteq Sent \cup Held
  <2>1. CASE UNCHANGED delivered
    BY <2>1 DEF Sent
  <2>2. CASE delivered' = Append(delivered, Answer(t))
    <3> DEFINE S == [to : Originals, token : Tokens]
    <3>1. delivered \in Seq(S) /\ Answer(t).token \in Held
      BY StateTyped DEF Typed, Answer, Held
    <3> HIDE DEF S
    <3>2. ASSUME NEW i \in DOMAIN delivered' PROVE delivered'[i].token \in Sent \cup Held
      <4>1. (i \in DOMAIN delivered /\ delivered'[i] = delivered[i]) \/ delivered'[i] = Answer(t)
        BY <2>2, <3>1, <3>2
      <4> QED BY <3>1, <4>1 DEF Sent
    <3> QED BY <3>2 DEF Sent
  <2> QED BY <1>1, <2>1, <2>2 DEF StoreMoves
<1> QED BY <1>6, <1>7

\* Tokens are tokens.
LEMMA HeldTyped ==
  ASSUME Typed, NEW x \in (Held \cup Sent) \ {None}
  PROVE  x \in Tokens /\ x.login \in Tabs \X (1 .. MaxTries) /\ x.login[1] \in Tabs
         /\ x.login[2] \in Nat
<1>0. TypeOK
  BY DEF Typed
<1>1. CASE x \in Held
  <2>1. jar.external \in Tokens \cup {None} /\ session.downstream \in Tokens \cup {None}
    BY <1>0, StateTyped DEF Jars, Sessions
  <2>2. \A t \in Tabs : tab[t].session.downstream \in Tokens \cup {None}
    BY <1>0, RecordTyped DEF TabRecords, Sessions
  <2>3. \A t \in Inside : tab[t].cookies.external \in Tokens \cup {None}
    <3>1. \A t \in Inside : tab[t].cookies \in Jars
      BY DEF Typed, Placed, Inside
    <3> QED BY <3>1 DEF Jars
  <2>4. x \in Tokens
    BY <1>1, <2>1, <2>2, <2>3 DEF Held
  <2> QED BY <2>4, PipelineAssumption DEF Tokens
<1>2. CASE x \in Sent
  <2>1. PICK i \in DOMAIN delivered : x = delivered[i].token
    BY <1>2 DEF Sent
  <2> DEFINE S == [to : Originals, token : Tokens]
  <2>2. delivered \in Seq(S)
    BY <1>0, StateTyped
  <2> HIDE DEF S
  <2>3. delivered[i] \in S
    BY <2>2
  <2>4. x \in Tokens
    BY <2>1, <2>3 DEF S
  <2> QED BY <2>4, PipelineAssumption DEF Tokens
<1> QED BY <1>1, <1>2

LEMMA NextSpent == Typed /\ Traced /\ Spent /\ [Next]_vars => Spent'
<1> SUFFICES ASSUME Typed, Traced, Spent, [Next]_vars PROVE Spent'
  OBVIOUS
<1>1. CASE UNCHANGED vars
  BY <1>1 DEF vars, Spent, Held, Sent, Inside, InServer
<1>2. CASE SessionExpires
  <2>1. UNCHANGED <<jar, tab, delivered>> /\ session'.downstream = None
    BY <1>2, ExpiresEffect DEF Typed
  <2>2. Held' \subseteq Held \cup {None} /\ Sent' = Sent
    BY <2>1 DEF Held, Sent, Inside, InServer
  <2> QED BY <2>1, <2>2 DEF Spent
<1>3. ASSUME NEW t \in Tabs, Acts(t) PROVE Spent'
  <2>0. LoginMoves(t) /\ Others(t) /\ TypeOK
    BY <1>3, ActsLogin, ActsShape DEF Shape, Typed
  <2> SUFFICES ASSUME NEW x \in (Held' \cup Sent') \ {None}
               PROVE  x.login \notin jar'.correlations /\ x.login[2] <= tab'[x.login[1]].tries
    BY DEF Spent
  <2>a. \A u \in Tabs : tab[u].tries \in Nat /\ tab'[u].tries \in Int /\ tab[u].tries <= tab'[u].tries
    <3>1. tab'[t].tries \in Int
      <4>1. TypeOK'
        BY <1>3, ActsShape DEF Shape
      <4>2. tab'[t].tries \in 0 .. MaxTries
        BY <4>1 DEF TypeOK
      <4> QED BY <4>2, PipelineAssumption
    <3> QED BY <2>0, <3>1, TriesTyped DEF LoginMoves, Others
  <2>1. CASE x \in Held \cup Sent
    <3>1. /\ x.login \in Tabs \X (1 .. MaxTries) /\ x.login[1] \in Tabs /\ x.login[2] \in Nat
          /\ x.login \notin jar.correlations /\ x.login[2] <= tab[x.login[1]].tries
      BY <2>1, HeldTyped DEF Spent
    <3>2. x.login # <<t, tab[t].tries + 1>>
      BY <2>a, <3>1
    <3>3. x.login \notin jar'.correlations
      BY <2>0, <3>1, <3>2 DEF LoginMoves
    <3> QED BY <2>a, <3>1, <3>3
  <2>2. CASE SigninAccepted(t) /\ x = tab[t].token
    <3>1. /\ tab[t].token \in Tokens /\ tab[t].token # None
          /\ jar'.correlations = jar.correlations \ {Answered(t)}
      BY <2>2, SigninAcceptedEffect
    <3>2. /\ x.login = Answered(t) /\ x.login[1] \in Tabs /\ x.login[2] \in Nat
          /\ x.login[2] <= tab[x.login[1]].tries
      BY <2>2, <3>1, PipelineAssumption DEF Answered, Traced, Tokens
    <3> QED BY <2>a, <3>1, <3>2
  <2> QED BY <1>3, <2>1, <2>2, TokensMove
<1> QED BY <1>1, <1>2, <1>3, NextActs

-----------------------------------------------------------------------------
(***************************************************************************)
(* Accepted answers.  An answer's correlation is gone when it is accepted, *)
(* and what a request carries was the jar when it began: whoever carries   *)
(* both the correlation and the mark began before the first acceptance.    *)
(***************************************************************************)
Marked ==
  /\ \A l \in jar.accepted : l \notin jar.correlations /\ l[2] <= tab[l[1]].tries
  /\ \A t \in Inside : tab[t].cookies.accepted \cap tab[t].cookies.correlations = {}

LEMMA NextMarked == Typed /\ Traced /\ Marked /\ [Next]_vars => Marked'
<1> SUFFICES ASSUME Typed, Traced, Marked, [Next]_vars PROVE Marked'
  OBVIOUS
<1>1. CASE UNCHANGED vars
  BY <1>1 DEF vars, Marked, Inside, InServer
<1>2. CASE SessionExpires
  BY <1>2, ExpiresEffect DEF Typed, Marked, Inside, InServer
<1>3. ASSUME NEW t \in Tabs, Acts(t) PROVE Marked'
  <2>0. LoginMoves(t) /\ Shape(t) /\ Others(t) /\ TypeOK /\ TypeOK'
    BY <1>3, ActsLogin, ActsShape DEF Shape, Typed
  <2>a. \A u \in Tabs : tab[u].tries \in Nat /\ tab'[u].tries \in Int /\ tab[u].tries <= tab'[u].tries
    <3>1. tab'[t].tries \in Int
      <4>1. tab'[t].tries \in 0 .. MaxTries
        BY <2>0 DEF TypeOK
      <4> QED BY <4>1, PipelineAssumption
    <3> QED BY <2>0, <3>1, TriesTyped DEF LoginMoves, Others
  <2>1. ASSUME NEW l \in jar'.accepted
        PROVE  l \notin jar'.correlations /\ l[2] <= tab'[l[1]].tries
    <3>0. l[1] \in Tabs /\ l[2] \in Nat
      <4>1. l \in Tabs \X (1 .. MaxTries)
        BY <2>0 DEF TypeOK, Jars
      <4> QED BY <4>1, PipelineAssumption
    <3>1. CASE l \in jar.accepted
      <4>1. l \notin jar.correlations /\ l[2] <= tab[l[1]].tries
        BY <3>1 DEF Marked
      <4>2. l # <<t, tab[t].tries + 1>>
        BY <2>a, <3>0, <4>1
      <4> QED BY <2>0, <2>a, <3>0, <4>1, <4>2 DEF LoginMoves
    <3>2. CASE SigninAccepted(t) /\ l = Answered(t)
      <4>1. /\ tab[t].token # None /\ jar'.correlations = jar.correlations \ {Answered(t)}
        BY <3>2, SigninAcceptedEffect
      <4>2. l[2] <= tab[l[1]].tries
        BY <3>2, <4>1 DEF Answered, Traced
      <4> QED BY <2>a, <3>0, <3>2, <4>1, <4>2
    <3> QED BY <2>0, <2>1, <3>1, <3>2 DEF LoginMoves
  <2>2. ASSUME NEW u \in Inside' PROVE tab'[u].cookies.accepted \cap tab'[u].cookies.correlations = {}
    <3>1. CASE u = t
      BY <2>0, <2>2, <3>1, CookiesMove DEF Marked
    <3>2. CASE u # t
      <4>1. u \in Inside /\ tab'[u] = tab[u]
        BY <2>0, <2>2, <3>2, CookiesMove DEF Others, Inside
      <4> QED BY <4>1 DEF Marked
    <3> QED BY <3>1, <3>2
  <2> QED BY <2>1, <2>2 DEF Marked
<1> QED BY <1>1, <1>2, <1>3, NextActs

\* A provider's answer that was accepted is accepted again only by a post that had
\* begun by then, in however many tabs it is repeated: a later post carries no
\* correlation for it, whatever nonce cookies other logins have left.
THEOREM LoginsOnce == Spec => AcceptedOnce
<1>1. Init => Marked
  <2> SUFFICES ASSUME Init PROVE Marked
    OBVIOUS
  <2>1. jar.accepted = {} /\ \A t \in Tabs : tab[t].pc = "new"
    BY DEF Init, Idle
  <2> QED BY <2>1 DEF Marked, Inside, InServer, Serving
<1>2. Typed /\ Marked /\ [Next]_vars =>
        [\A t \in Tabs : (At(t, "signing") /\ tab'[t].pc = "redirected")
                            => Answered(t) \notin tab[t].cookies.accepted]_vars
  <2> SUFFICES ASSUME Typed, Marked, [Next]_vars, NEW u \in Tabs, tab[u].pc = "signing",
                      tab'[u].pc = "redirected"
               PROVE  Answered(u) \notin tab[u].cookies.accepted
    BY DEF At
  <2>1. ~UNCHANGED vars
    BY DEF vars
  <2>2. ~SessionExpires
    BY DEF SessionExpires
  <2>3. PICK t \in Tabs : Acts(t)
    BY <2>1, <2>2, NextActs
  <2>4. u = t
    BY <2>3, ActsShape DEF Shape, Others
  <2>5. SigninRefused(u) \/ SigninAccepted(u)
    <3>1. ~Opening(u)
      BY OpeningEffect
    <3>2. ~Walking(u)
      BY WalkingEffect
    <3> QED BY <2>3, <2>4, <3>1, <3>2 DEF Acts, AuthorizeEnd, LoginPageEnd, NoExternalLogin,
       FindLeftover, DeleteLeftover, CreateScratch, FindScratch, AddClaims, SignInAndRemove,
       Way2NothingParked, Way2Answer, Challenge, ProviderAnswers, Replay, At
  <2>6. SigninAccepted(u)
    BY <2>5, SigninRefusedEffect DEF Leaves
  <2>7. Answered(u) \in tab[u].cookies.correlations
    BY <2>6 DEF SigninAccepted, Correlated
  <2> QED BY <2>7 DEF Marked, Inside, InServer, Serving
<1> QED BY <1>1, <1>2, NextMarked, AlwaysTraced, PTL DEF Spec, AcceptedOnce

-----------------------------------------------------------------------------
(***************************************************************************)
(* One at a time.  As long as no two requests overlapped, what a request   *)
(* read is what is stored, and no operation of a callback fails: nobody    *)
(* left a scratch user behind and nobody took the callback's own away.     *)
(***************************************************************************)
Serial ==
  ~overlapped =>
    /\ \A t, u \in Tabs : InServer(t) /\ InServer(u) => t = u
    /\ \A t \in Tabs : InServer(t) => tab[t].session = session
    /\ \A t \in Tabs : At(t, "signing") => tab[t].cookies.correlations \subseteq jar.correlations
    /\ \A t \in Tabs : /\ ~At(t, "leftover")
                       /\ tab[t].pc \in Creators => Scratch(t) \in users

\* A step after which requests still have not overlapped.
LEMMA StillSerial ==
  ASSUME Typed, Serial, NEW t \in Tabs, Acts(t), ~overlapped'
  PROVE  /\ ~overlapped /\ StoreMoves(t) /\ Shape(t)
         /\ Enters(t) => \A u \in Tabs : ~InServer(u)
         /\ Challenge(t) => \A u \in Tabs : ~InServer(u)
         /\ InServer(t) => /\ tab[t].session = session
                           /\ \A u \in Tabs \ {t} : ~InServer(u)
<1>1. StoreMoves(t) /\ Shape(t)
  BY ActsStore, ActsShape
<1>2. ~overlapped /\ (Challenge(t) => \A u \in Tabs : ~InServer(u))
  <2>1. CASE UNCHANGED overlapped /\ ~Challenge(t)
    BY <2>1
  <2>2. CASE overlapped' = (overlapped \/ \E u \in Tabs : InServer(u))
    BY <2>2
  <2> QED BY <1>1, <2>1, <2>2 DEF StoreMoves
<1>3. Enters(t) => \A u \in Tabs : ~InServer(u)
  BY <1>2, StateTyped DEF Enters, Typed
<1> QED BY <1>1, <1>2, <1>3 DEF Serial

\* Alone in the server, nobody is in the store but the one a callback created.
LEMMA AloneInTheStore ==
  ASSUME Typed, Owned, NEW t \in Tabs, \A u \in Tabs \ {t} : ~InServer(u), users # {}
  PROVE  tab[t].pc \in Creators
<1>1. PICK u \in users : TRUE
  OBVIOUS
<1>2. u.by \in Tabs /\ tab[u.by].pc \in Creators
  BY StateTyped DEF Typed, ScratchUsers, Owned
<1>3. u.by = t
  BY <1>2 DEF InServer, Serving, Creators
<1> QED BY <1>2, <1>3

LEMMA SerialSucceeds ==
  ASSUME Typed, Owned, Serial, NEW t \in Tabs, Acts(t), ~overlapped'
  PROVE  /\ ~DeleteLeftover(t)
         /\ CreateScratch(t) => Goes(t, "finding") /\ users' = users \cup {Scratch(t)}
         /\ FindScratch(t) => Goes(t, "claiming") /\ UNCHANGED users
         /\ SignInAndRemove(t) => ~Fails(t)
         /\ FindLeftover(t) => Goes(t, "creating")
<1>1. ~overlapped /\ (InServer(t) => \A u \in Tabs \ {t} : ~InServer(u))
  BY StillSerial
<1>2. ~DeleteLeftover(t)
  BY <1>1 DEF DeleteLeftover, Serial
<1>3. tab[t].pc \in {"callback", "creating"} => users = {}
  BY <1>1, AloneInTheStore DEF InServer, Serving, Creators
<1>4. tab[t].pc \in Creators => Scratch(t) \in users
  BY <1>1 DEF Serial
<1>5. CreateScratch(t) => Goes(t, "finding") /\ users' = users \cup {Scratch(t)}
  BY <1>3, CreateScratchEffect DEF At
<1>6. FindScratch(t) => Goes(t, "claiming") /\ UNCHANGED users
  BY <1>4, FindScratchEffect DEF At, Creators
<1>7. SignInAndRemove(t) => ~Fails(t)
  BY <1>4, SignInAndRemoveEffect DEF At, Creators, Leaves, Fails
<1>8. FindLeftover(t) => Goes(t, "creating")
  BY <1>3, FindLeftoverEffect DEF At
<1> QED BY <1>2, <1>5, <1>6, <1>7, <1>8

\* The steps of a callback before its last.
LEMMA InsideActs ==
  ASSUME Typed, NEW t \in Tabs, Acts(t), GoesOnInside(t)
  PROVE  FindLeftover(t) \/ DeleteLeftover(t) \/ CreateScratch(t) \/ FindScratch(t) \/ AddClaims(t)
<1>1. tab[t].pc \in {"callback", "leftover", "creating", "finding", "claiming", "removing"}
      /\ tab'[t].pc \in Callbacks
  BY DEF GoesOnInside, Goes, Callbacks
<1>2. /\ ~Opening(t) /\ ~Walking(t) /\ ~Challenge(t) /\ ~ProviderAnswers(t) /\ ~Replay(t)
      /\ ~AuthorizeEnd(t) /\ ~LoginPageEnd(t) /\ ~SigninRefused(t) /\ ~SigninAccepted(t)
      /\ ~Way2NothingParked(t) /\ ~Way2Answer(t)
  BY <1>1, OpeningEffect, WalkingEffect DEF Challenge, ProviderAnswers, Replay, AuthorizeEnd,
     LoginPageEnd, SigninRefused, SigninAccepted, Way2NothingParked, Way2Answer, At
<1>3. ~NoExternalLogin(t)
  BY <1>1, NoExternalLoginEffect DEF Leaves, Callbacks
<1>4. ~SignInAndRemove(t)
  BY <1>1, SignInAndRemoveEffect DEF Leaves, Fails, Callbacks
<1> QED BY <1>2, <1>3, <1>4 DEF Acts

LEMMA NextSerial == Typed /\ Owned /\ Serial /\ [Next]_vars => Serial'
<1> SUFFICES ASSUME Typed, Owned, Serial, [Next]_vars, ~overlapped' PROVE Serial'
  BY DEF Serial
<1>1. CASE UNCHANGED vars
  BY <1>1 DEF vars, Serial, InServer, At, Scratch, Sub
<1>2. CASE SessionExpires
  BY <1>2, ExpiresEffect DEF Typed, Serial, InServer, At, Scratch, Sub
<1>3. ASSUME NEW t \in Tabs, Acts(t) PROVE Serial'
  <2>0. /\ ~overlapped /\ StoreMoves(t) /\ Shape(t) /\ Others(t)
        /\ Enters(t) => \A u \in Tabs : ~InServer(u)
        /\ InServer(t) => \A u \in Tabs \ {t} : ~InServer(u)
    BY <1>3, StillSerial DEF Shape
  <2>1. ASSUME NEW u \in Tabs, tab'[u].pc \in Serving, u # t
        PROVE  ~InServer(t) /\ InServer(u) /\ ~Enters(t) /\ ~GoesOnInside(t) /\ tab'[u] = tab[u]
    BY <2>0, <2>1 DEF Others, InServer, GoesOnInside, Callbacks, Serving
  <2>2. ASSUME NEW u \in Tabs, NEW v \in Tabs, tab'[u].pc \in Serving, tab'[v].pc \in Serving
        PROVE  u = v
    <3>1. CASE u # t /\ v # t
      BY <2>0, <2>1, <2>2, <3>1 DEF Serial
    <3>2. ASSUME NEW w \in Tabs, w # t, tab'[w].pc \in Serving, tab'[t].pc \in Serving PROVE FALSE
      BY <2>0, <2>1, <3>2 DEF Shape, Outside
    <3> QED BY <2>2, <3>1, <3>2
  <2>3. ASSUME NEW u \in Tabs, tab'[u].pc \in Serving PROVE tab'[u].session = session'
    <3>1. CASE u # t
      <4>1. UNCHANGED session
        BY <2>0, <2>1, <2>3, <3>1 DEF StoreMoves
      <4> QED BY <2>0, <2>1, <2>3, <3>1, <4>1 DEF Serial
    <3>2. CASE u = t
      <4>1. CASE Enters(t)
        BY <3>2, <4>1 DEF Enters, Loads
      <4>2. CASE GoesOnInside(t)
        <5>1. InServer(t)
          BY <4>2 DEF GoesOnInside, InServer, Callbacks, Serving
        <5> QED BY <2>0, <3>2, <4>2, <5>1 DEF GoesOnInside, Goes, Serial
      <4> QED BY <2>0, <2>3, <3>2, <4>1, <4>2 DEF Shape, Outside
    <3> QED BY <3>1, <3>2
  <2>4. ASSUME NEW u \in Tabs
        PROVE  /\ tab'[u].pc # "leftover"
               /\ tab'[u].pc \in Creators => Scratch(u)' \in users'
    <3>1. CASE u # t
      <4>1. tab'[u] = tab[u] /\ Scratch(u)' = Scratch(u)
        BY <2>0, <3>1 DEF Others, Scratch, Sub
      <4>2. tab[u].pc \in Creators => users \subseteq users'
        BY <2>0, <2>1, <3>1, <4>1 DEF StoreMoves, Creators, Serving
      <4> QED BY <2>0, <4>1, <4>2 DEF Serial, At
    <3>2. CASE u = t
      <4>1. CASE Outside(t)
        BY <3>2, <4>1 DEF Outside, Serving, Creators
      <4>2. CASE Enters(t)
        BY <3>2, <4>2 DEF Enters, Loads, Creators
      <4>3. CASE GoesOnInside(t)
        <5>1. Scratch(t)' = Scratch(t)
          BY <4>3 DEF GoesOnInside, Goes, Scratch, Sub
        <5>2. CASE FindLeftover(t)
          BY <1>3, <3>2, <5>2, SerialSucceeds DEF Goes, Creators
        <5>3. CASE CreateScratch(t)
          BY <1>3, <3>2, <5>1, <5>3, SerialSucceeds DEF Goes
        <5>4. CASE FindScratch(t)
          BY <1>3, <2>0, <3>2, <5>1, <5>4, FindScratchEffect, SerialSucceeds DEF Goes, Serial, At, Creators
        <5>5. CASE AddClaims(t)
          BY <2>0, <3>2, <5>1, <5>5, AddClaimsEffect DEF Goes, Serial, At, Creators
        <5> QED BY <1>3, <4>3, <5>2, <5>3, <5>4, <5>5, InsideActs, SerialSucceeds
      <4> QED BY <2>0, <4>1, <4>2, <4>3 DEF Shape
    <3> QED BY <3>1, <3>2
  <2>5. ASSUME NEW u \in Tabs, tab'[u].pc = "signing"
        PROVE  tab'[u].cookies.correlations \subseteq jar'.correlations
    <3>1. CASE u # t
      <4>1. ~InServer(t) /\ tab'[u] = tab[u]
        BY <2>1, <2>5, <3>1 DEF Serving
      <4>2. tab[u].cookies.correlations \subseteq jar.correlations
        BY <2>0, <2>5, <4>1 DEF Serial, At
      <4>3. jar.correlations \subseteq jar'.correlations
        BY <1>3, <4>1, ActsLogin DEF LoginMoves, At, InServer, Serving
      <4> QED BY <4>1, <4>2, <4>3
    <3>2. CASE u = t
      <4>1. Enters(t)
        BY <2>0, <2>5, <3>2 DEF Shape, Outside, Serving, GoesOnInside, Goes, Callbacks
      <4> QED BY <3>2, <4>1 DEF Enters, Loads
    <3> QED BY <3>1, <3>2
  <2> QED BY <2>2, <2>3, <2>4, <2>5 DEF Serial, InServer, At
<1> QED BY <1>1, <1>2, <1>3, NextActs

-----------------------------------------------------------------------------
(***************************************************************************)
(* Answers.  One at a time, the request that is parked is the last one, a  *)
(* delivery takes request and token away from where they are stored, and a *)
(* token whose correlation is spent does not come back.                    *)
(***************************************************************************)
Live == {jar.external, session.downstream} \cup {tab[t].cookies.external : t \in Inside}

Once ==
  ~overlapped =>
    /\ session.original # None => session.original.order = parked
    /\ \A i \in DOMAIN delivered :
         /\ delivered[i].to.order <= parked
         /\ session.original # None => delivered[i].to.order # parked
    /\ None \notin Sent /\ Live \cap Sent = {}
    /\ \A i, j \in DOMAIN delivered :
         i # j => /\ delivered[i].to.order # delivered[j].to.order
                  /\ delivered[i].token # delivered[j].token

Delivers(t) == Way2Answer(t) /\ delivered' = Append(delivered, Answer(t))

LEMMA LiveMoves ==
  ASSUME Typed, Serial, NEW t \in Tabs, Acts(t), ~overlapped'
  PROVE  /\ Live' \subseteq Live \cup {None}
              \cup (IF SigninAccepted(t) THEN {tab[t].token} ELSE {})
         /\ session'.original \in {None, session.original} \/ AuthorizeEnd(t)
<1>1. /\ ~overlapped /\ StoreMoves(t) /\ Shape(t) /\ Others(t)
      /\ InServer(t) => tab[t].session = session
  BY StillSerial DEF Shape
<1> DEFINE New == Live \cup {None} \cup (IF SigninAccepted(t) THEN {tab[t].token} ELSE {})
<1>2. jar'.external \in New
  BY <1>1 DEF StoreMoves, Live
<1>3. session'.downstream \in New
  <2>1. InServer(t) => tab[t].cookies.external \in Live
    BY DEF Live, Inside
  <2> QED BY <1>1, <2>1 DEF StoreMoves, Live
<1>4. ASSUME NEW u \in Inside' PROVE tab'[u].cookies.external \in New
  <2>1. CASE u = t
    BY <1>1, <1>4, <2>1, CookiesMove DEF Live
  <2>2. CASE u # t
    <3>1. u \in Inside /\ tab'[u] = tab[u]
      BY <1>1, <1>4, <2>2, CookiesMove DEF Others, Inside
    <3> QED BY <3>1 DEF Live
  <2> QED BY <2>1, <2>2
<1>5. Live' \subseteq New
  <2> HIDE DEF New
  <2> QED BY <1>2, <1>3, <1>4 DEF Live
<1>6. session'.original \in {None, session.original} \/ AuthorizeEnd(t)
  BY <1>1 DEF StoreMoves
<1> QED BY <1>5, <1>6

\* What is delivered is what is stored, and then is stored no more.
LEMMA DeliveryTakes ==
  ASSUME Typed, Serial, NEW t \in Tabs, Acts(t), ~overlapped', Delivers(t)
  PROVE  /\ Answer(t) = [to |-> session.original, token |-> session.downstream]
         /\ session.original # None /\ session.downstream # None
         /\ session.original \in Originals /\ session.downstream \in Tokens
         /\ session'.original = None /\ Live' \subseteq {None} /\ UNCHANGED parked
<1>1. /\ ~overlapped /\ Shape(t) /\ Others(t) /\ At(t, "answering")
      /\ InServer(t) => /\ tab[t].session = session
                        /\ \A u \in Tabs \ {t} : ~InServer(u)
  BY StillSerial, Way2AnswerEffect DEF Shape, Delivers
<1>2. InServer(t)
  BY <1>1 DEF At, InServer, Serving
<1>3. /\ session.original # None /\ session.downstream # None
      /\ session.original \in Originals /\ session.downstream \in Tokens
      /\ session'.original = None /\ session'.downstream = None /\ UNCHANGED parked
  BY <1>1, <1>2, Way2AnswerEffect DEF Delivers
<1>4. Answer(t) = [to |-> session.original, token |-> session.downstream]
  BY <1>1, <1>2 DEF Answer
<1>5. Len(delivered) \in Nat /\ delivered' # delivered
  <2> DEFINE S == [to : Originals, token : Tokens]
  <2>1. delivered \in Seq(S) /\ Answer(t) \in S
    BY <1>3, <1>4, StateTyped DEF Typed
  <2> HIDE DEF S
  <2>2. Len(delivered) \in Nat /\ Len(delivered') = Len(delivered) + 1
    BY <2>1 DEF Delivers
  <2> QED BY <2>2
<1>6. Leaves(t, "done") /\ jar' = SignedOut
  BY <1>5, Way2AnswerEffect DEF Delivers
<1>7. jar'.external = None
  BY <1>6, SignedOutIs DEF Typed
<1>8. Inside' = {}
  BY <1>1, <1>2, <1>6 DEF Inside, InServer, Others, Leaves, Serving
<1>9. Live' \subseteq {None}
  BY <1>3, <1>7, <1>8 DEF Live
<1> QED BY <1>3, <1>4, <1>9

LEMMA DeliveredTyped ==
  ASSUME TypeOK, NEW i \in DOMAIN delivered
  PROVE  /\ delivered[i].to \in Originals /\ delivered[i].token \in Tokens
         /\ delivered[i].to.order \in Nat
<1> DEFINE S == [to : Originals, token : Tokens]
<1>1. delivered \in Seq(S)
  BY StateTyped
<1> HIDE DEF S
<1>2. delivered[i] \in S
  BY <1>1
<1>3. delivered[i].to \in Originals /\ delivered[i].token \in Tokens
  BY <1>2 DEF S
<1>4. delivered[i].to.order \in 1 .. Cardinality(Tabs)
  BY <1>3 DEF Originals
<1>5. Cardinality(Tabs) \in Nat
  BY PipelineAssumption, FS_CardinalityType
<1> QED BY <1>3, <1>4, <1>5

LEMMA DeliveryAdds ==
  ASSUME TypeOK, NEW t \in Tabs, Delivers(t), Answer(t) \in [to : Originals, token : Tokens]
  PROVE  /\ DOMAIN delivered' = DOMAIN delivered \cup {Len(delivered) + 1}
         /\ Len(delivered) + 1 \notin DOMAIN delivered
         /\ delivered'[Len(delivered) + 1] = Answer(t)
         /\ \A i \in DOMAIN delivered : delivered'[i] = delivered[i]
<1> DEFINE S == [to : Originals, token : Tokens]
<1>1. delivered \in Seq(S) /\ Answer(t) \in S
  BY StateTyped
<1> HIDE DEF S
<1> QED BY <1>1 DEF Delivers

LEMMA NextOnce == Typed /\ Traced /\ Spent /\ Serial /\ Once /\ [Next]_vars => Once'
<1> SUFFICES ASSUME Typed, Traced, Spent, Serial, Once, [Next]_vars, ~overlapped' PROVE Once'
  BY DEF Once
<1>0. TypeOK /\ parked \in Nat
  BY StateTyped DEF Typed
<1>1. CASE UNCHANGED vars
  BY <1>1 DEF vars, Once, Sent, Live, Inside, InServer
<1>2. CASE SessionExpires
  <2>1. /\ UNCHANGED <<jar, tab, parked, delivered, overlapped>>
        /\ session'.original = None /\ session'.downstream = None
    BY <1>0, <1>2, ExpiresEffect
  <2>2. Live' \subseteq Live \cup {None} /\ Sent' = Sent
    BY <2>1 DEF Live, Sent, Inside, InServer
  <2>3. None \notin Sent' /\ Live' \cap Sent' = {}
    BY <2>1, <2>2 DEF Once
  <2> QED BY <2>1, <2>3 DEF Once
<1>3. ASSUME NEW t \in Tabs, Acts(t) PROVE Once'
  <2>0. /\ ~overlapped /\ StoreMoves(t) /\ Shape(t)
    BY <1>3, StillSerial
  <2>1. CASE ~Delivers(t)
    <3>1. UNCHANGED delivered /\ Sent' = Sent
      BY <2>0, <2>1 DEF StoreMoves, Delivers, Sent
    <3>2. None \notin Sent' /\ Live' \cap Sent' = {}
      <4>1. SigninAccepted(t) => tab[t].token \notin Sent
        <5> SUFFICES ASSUME SigninAccepted(t), tab[t].token \in Sent PROVE FALSE
          OBVIOUS
        <5>1. tab[t].token # None /\ Correlated(t) /\ At(t, "signing")
          BY SigninAcceptedEffect
        <5>2. Answered(t) = tab[t].token.login
          BY <5>1 DEF Answered
        <5>3. Answered(t) \in jar.correlations
          BY <2>0, <5>1 DEF Correlated, Serial
        <5> QED BY <5>1, <5>2, <5>3 DEF Spent
      <4> QED BY <1>3, <2>0, <3>1, <4>1, LiveMoves DEF Once
    <3>3. CASE AuthorizeEnd(t)
      <4>1. parked' = parked + 1 /\ session'.original.order = parked'
        BY <3>3, AuthorizeEndEffect
      <4>2. \A i \in DOMAIN delivered : delivered[i].to.order <= parked /\ delivered[i].to.order \in Nat
        BY <1>0, <2>0, DeliveredTyped DEF Once
      <4>3. \A i \in DOMAIN delivered' : delivered'[i].to.order <= parked' /\ delivered'[i].to.order # parked'
        BY <1>0, <3>1, <4>1, <4>2
      <4> QED BY <2>0, <3>1, <3>2, <4>1, <4>3 DEF Once
    <3>4. CASE ~AuthorizeEnd(t)
      <4>1. UNCHANGED parked /\ session'.original \in {None, session.original}
        BY <1>3, <2>0, <3>4, LiveMoves DEF Shape
      <4> QED BY <2>0, <3>1, <3>2, <4>1 DEF Once
    <3> QED BY <3>3, <3>4
  <2>2. CASE Delivers(t)
    <3> DEFINE n == Len(delivered) + 1
    <3>1. /\ Answer(t).to = session.original /\ Answer(t).token = session.downstream
          /\ session.original # None /\ session.downstream # None
          /\ session'.original = None /\ Live' \subseteq {None} /\ UNCHANGED parked
          /\ Answer(t) \in [to : Originals, token : Tokens]
      BY <1>3, <2>2, DeliveryTakes
    <3>2. /\ DOMAIN delivered' = DOMAIN delivered \cup {n} /\ n \notin DOMAIN delivered
          /\ delivered'[n] = Answer(t)
          /\ \A i \in DOMAIN delivered : delivered'[i] = delivered[i]
      BY <1>0, <2>2, <3>1, DeliveryAdds
    <3> HIDE DEF n
    <3>3. Sent' = Sent \cup {session.downstream}
      BY <3>1, <3>2 DEF Sent
    <3>4. None \notin Sent' /\ Live' \cap Sent' = {}
      BY <2>0, <3>1, <3>3 DEF Once
    <3>5. session.original.order = parked
      BY <2>0, <3>1 DEF Once
    <3>6. \A i \in DOMAIN delivered :
            /\ delivered[i].to.order <= parked /\ delivered[i].to.order # session.original.order
            /\ delivered[i].token # session.downstream
      <4>1. session.downstream \notin Sent
        BY <2>0 DEF Once, Live
      <4> QED BY <2>0, <3>1, <3>5, <4>1 DEF Once, Sent
    <3>7. \A i \in DOMAIN delivered' : delivered'[i].to.order <= parked'
      BY <1>0, <3>1, <3>2, <3>5, <3>6
    <3>8. \A i, j \in DOMAIN delivered' :
            i # j => /\ delivered'[i].to.order # delivered'[j].to.order
                     /\ delivered'[i].token # delivered'[j].token
      BY <2>0, <3>1, <3>2, <3>6 DEF Once
    <3> QED BY <3>1, <3>4, <3>7, <3>8 DEF Once
  <2> QED BY <2>1, <2>2
<1> QED BY <1>1, <1>2, <1>3, NextActs

-----------------------------------------------------------------------------
(***************************************************************************)
(* Nonces.  A token fits the parked request unless that request was parked *)
(* after the token's login had begun: then the counts tell them apart.     *)
(***************************************************************************)
Fits(n, s) ==
  /\ s <= parked
  /\ (session.original # None /\ session.original.nonce # None /\ session.original.order <= s)
       => session.original.nonce = n

Fitting ==
  ~overlapped =>
    /\ \A t \in Tabs : At(t, "atProvider") => Fits(tab[t].nonce, tab[t].seen)
    /\ \A t \in Tabs : tab[t].token # None => Fits(tab[t].token.nonce, tab[t].token.seen)
    /\ \A x \in Live \ {None} : Fits(x.nonce, x.seen)

\* The same after a step, of values that need not be those before it.
FitsAfter(n, s) ==
  /\ s <= parked'
  /\ (session'.original # None /\ session'.original.nonce # None
         /\ session'.original.order <= s)
       => session'.original.nonce = n

LEMMA FittingAfter ==
  ASSUME \A t \in Tabs : tab'[t].pc = "atProvider" => FitsAfter(tab'[t].nonce, tab'[t].seen),
         \A t \in Tabs : tab'[t].token # None =>
           FitsAfter(tab'[t].token.nonce, tab'[t].token.seen),
         \A x \in Live' \ {None} : FitsAfter(x.nonce, x.seen)
  PROVE  Fitting'
BY DEF Fitting, Fits, FitsAfter, At

\* Parking a request only asks less of the nonces that were given out before it.
LEMMA StillFits ==
  ASSUME Typed, Serial, NEW t \in Tabs, Acts(t), ~overlapped', NEW n, NEW s \in Nat, Fits(n, s)
  PROVE  FitsAfter(n, s)
<1>1. parked \in Nat /\ Shape(t)
  BY StillSerial, StateTyped DEF Typed
<1>2. CASE AuthorizeEnd(t)
  <2>1. parked' = parked + 1 /\ session'.original.order = parked + 1
    BY <1>2, AuthorizeEndEffect
  <2>2. ~(session'.original.order <= s) /\ s <= parked'
    BY <1>1, <2>1 DEF Fits
  <2> QED BY <2>2 DEF FitsAfter
<1>3. CASE ~AuthorizeEnd(t)
  <2>1. UNCHANGED parked /\ session'.original \in {None, session.original}
    BY <1>1, <1>3, LiveMoves DEF Shape
  <2> QED BY <2>1 DEF Fits, FitsAfter
<1> QED BY <1>2, <1>3

LEMMA SeenTyped ==
  ASSUME TypeOK, NEW t \in Tabs
  PROVE  /\ tab[t].seen \in Nat
         /\ tab[t].token # None => tab[t].token.seen \in Nat
<1>1. Cardinality(Tabs) \in Nat
  BY PipelineAssumption, FS_CardinalityType
<1>2. tab[t].seen \in 0 .. Cardinality(Tabs) /\ tab[t].token \in Tokens \cup {None}
  BY RecordTyped DEF TabRecords
<1> QED BY <1>1, <1>2 DEF Tokens

LEMMA LiveTyped ==
  ASSUME Typed, NEW x \in Live \ {None} PROVE x \in Tokens /\ x.seen \in Nat
<1>1. x \in (Held \cup Sent) \ {None}
  BY DEF Live, Held
<1>2. x \in Tokens /\ Cardinality(Tabs) \in Nat
  BY <1>1, HeldTyped, PipelineAssumption, FS_CardinalityType
<1> QED BY <1>2 DEF Tokens

LEMMA NextFitting == Typed /\ Serial /\ Fitting /\ [Next]_vars => Fitting'
<1> SUFFICES ASSUME Typed, Serial, Fitting, [Next]_vars, ~overlapped' PROVE Fitting'
  BY DEF Fitting
<1>0. TypeOK /\ parked \in Nat
  BY StateTyped DEF Typed
<1>1. CASE UNCHANGED vars
  BY <1>1 DEF vars, Fitting, Fits, Live, Inside, InServer, At
<1>2. CASE SessionExpires
  <2>1. /\ UNCHANGED <<jar, tab, parked, delivered, overlapped>>
        /\ session'.original = None /\ session'.downstream = None
    BY <1>0, <1>2, ExpiresEffect
  <2>2. Live' \subseteq Live \cup {None}
    BY <2>1 DEF Live, Inside, InServer
  <2>3. \A n, s : Fits(n, s) => FitsAfter(n, s)
    BY <2>1 DEF Fits, FitsAfter
  <2>4. \A x \in Live' \ {None} : FitsAfter(x.nonce, x.seen)
    BY <2>1, <2>2, <2>3 DEF Fitting
  <2> QED BY <2>1, <2>3, <2>4, FittingAfter DEF Fitting, At
<1>3. ASSUME NEW t \in Tabs, Acts(t) PROVE Fitting'
  <2>0. /\ ~overlapped /\ StoreMoves(t) /\ Shape(t) /\ Others(t) /\ TypeOK'
    BY <1>3, StillSerial DEF Shape
  <2>a. \A u \in Tabs : tab[u].seen \in Nat /\ (tab[u].token # None => tab[u].token.seen \in Nat)
    BY <1>0, SeenTyped
  <2>b. \A n : \A s \in Nat : Fits(n, s) => FitsAfter(n, s)
    BY <1>3, StillFits
  <2>c. LoginMoves(t)
    BY <1>3, ActsLogin
  <2>1. ASSUME NEW u \in Tabs, tab'[u].pc = "atProvider"
        PROVE  FitsAfter(tab'[u].nonce, tab'[u].seen)
    <3>1. CASE u = t
      <4>1. Challenge(t)
        BY <2>0, <2>1, <3>1 DEF Shape
      <4>2. /\ tab'[t].seen = parked /\ UNCHANGED <<session, parked>>
            /\ (session.original # None /\ session.original.nonce # None) =>
                 tab'[t].nonce = session.original.nonce
        BY <4>1, ChallengeEffect
      <4> QED BY <1>0, <3>1, <4>2 DEF FitsAfter
    <3>2. CASE u # t
      BY <2>0, <2>1, <2>a, <2>b, <3>2 DEF Others, Fitting, At
    <3> QED BY <3>1, <3>2
  <2>2. ASSUME NEW u \in Tabs, tab'[u].token # None
        PROVE  FitsAfter(tab'[u].token.nonce, tab'[u].token.seen)
    <3>1. CASE \E v \in Tabs : tab'[u].token = tab[v].token
      BY <2>0, <2>2, <2>a, <2>b, <3>1 DEF Fitting
    <3>2. CASE \A v \in Tabs : tab'[u].token # tab[v].token
      <4>1. u = t /\ ProviderAnswers(t)
        BY <2>0, <2>2, <2>c, <3>2 DEF LoginMoves, Others
      <4>2. /\ tab'[t].token.nonce = tab[t].nonce /\ tab'[t].token.seen = tab[t].seen
            /\ At(t, "atProvider")
        BY <2>2, <4>1, ProviderAnswersEffect
      <4>3. FitsAfter(tab[t].nonce, tab[t].seen)
        BY <2>0, <2>a, <2>b, <4>2 DEF Fitting
      <4> QED BY <4>1, <4>2, <4>3
    <3> QED BY <3>1, <3>2
  <2>3. ASSUME NEW x \in Live' \ {None} PROVE FitsAfter(x.nonce, x.seen)
    <3>1. CASE x \in Live
      <4>1. Fits(x.nonce, x.seen) /\ x.seen \in Nat
        BY <2>0, <2>3, <3>1, LiveTyped DEF Fitting
      <4> QED BY <2>b, <4>1
    <3>2. CASE SigninAccepted(t) /\ x = tab[t].token
      <4>1. Fits(x.nonce, x.seen) /\ x.seen \in Nat
        BY <2>0, <2>3, <2>a, <3>2 DEF Fitting
      <4> QED BY <2>b, <4>1
    <3> QED BY <1>3, <2>3, <3>1, <3>2, LiveMoves
  <2> QED BY <2>1, <2>2, <2>3, FittingAfter
<1> QED BY <1>1, <1>2, <1>3, NextActs

LEMMA NextAnswersFit ==
  Typed /\ Serial /\ Fitting /\ WrongNonceNeedsALaterRequest /\ [Next]_vars
    => WrongNonceNeedsALaterRequest'
<1> DEFINE Right(to, token) ==
             (to.nonce # None /\ token.nonce # to.nonce) => to.order > token.seen
<1> SUFFICES ASSUME Typed, Serial, Fitting, WrongNonceNeedsALaterRequest, [Next]_vars,
                    ~overlapped'
             PROVE  \A i \in DOMAIN delivered' : Right(delivered'[i].to, delivered'[i].token)
  BY DEF WrongNonceNeedsALaterRequest
<1>0. TypeOK
  BY DEF Typed
<1>a. ~overlapped => \A i \in DOMAIN delivered : Right(delivered[i].to, delivered[i].token)
  BY DEF WrongNonceNeedsALaterRequest
<1>1. CASE UNCHANGED vars
  BY <1>1, <1>a DEF vars
<1>2. CASE SessionExpires
  <2>1. UNCHANGED <<delivered, overlapped>>
    BY <1>0, <1>2, ExpiresEffect
  <2> QED BY <1>a, <2>1
<1>3. ASSUME NEW t \in Tabs, Acts(t)
      PROVE  \A i \in DOMAIN delivered' : Right(delivered'[i].to, delivered'[i].token)
  <2>0. ~overlapped /\ StoreMoves(t)
    BY <1>3, StillSerial
  <2>1. CASE ~Delivers(t)
    <3>1. UNCHANGED delivered
      BY <2>0, <2>1 DEF StoreMoves, Delivers
    <3> QED BY <1>a, <2>0, <3>1
  <2>2. CASE Delivers(t)
    <3>1. /\ Answer(t).to = session.original /\ Answer(t).token = session.downstream
          /\ session.original # None /\ session.downstream # None
          /\ Answer(t) \in [to : Originals, token : Tokens]
          /\ session.original \in Originals
      BY <1>3, <2>2, DeliveryTakes
    <3>2. /\ DOMAIN delivered' = DOMAIN delivered \cup {Len(delivered) + 1}
          /\ delivered'[Len(delivered) + 1] = Answer(t)
          /\ \A i \in DOMAIN delivered : delivered'[i] = delivered[i]
      BY <1>0, <2>2, <3>1, DeliveryAdds
    <3>3. session.downstream \in Live \ {None}
      BY <3>1 DEF Live
    <3>4. /\ Fits(session.downstream.nonce, session.downstream.seen)
          /\ session.downstream.seen \in Nat
      BY <2>0, <3>3, LiveTyped DEF Fitting
    <3>5. session.original.order \in Nat
      <4>1. session.original.order \in 1 .. Cardinality(Tabs) /\ Cardinality(Tabs) \in Nat
        BY <3>1, PipelineAssumption, FS_CardinalityType DEF Originals
      <4> QED BY <4>1
    <3>6. Right(Answer(t).to, Answer(t).token)
      BY <3>1, <3>4, <3>5 DEF Fits
    <3> HIDE DEF Right
    <3> QED BY <1>a, <2>0, <3>2, <3>6
  <2> QED BY <2>1, <2>2
<1> QED BY <1>1, <1>2, <1>3, NextActs

-----------------------------------------------------------------------------
(***************************************************************************)
(* The token on the home page.  The callback that signs a user in is the   *)
(* one that parks his token; a step changes one without the other only to  *)
(* take it away.                                                           *)
(***************************************************************************)
Shows(t) ==
  \/ jar'.app = None \/ session'.downstream = None
  \/ jar'.app = jar.app /\ session'.downstream = session.downstream
  \/ jar'.app = session'.downstream.sub

LEMMA ActsShow ==
  ASSUME Typed, Owned, Serial, NEW t \in Tabs, Acts(t), ~overlapped' PROVE Shows(t)
<1>0. TypeOK /\ ~overlapped /\ (InServer(t) => tab[t].session = session)
  BY StillSerial DEF Typed
<1>1. \A j : j \in {jar, SignedOut} => j.app \in {None, jar.app}
  BY <1>0, SignedOutIs
<1>2. UNCHANGED <<session, jar>> => Shows(t)
  BY DEF Shows
<1>3. CASE AuthorizeEnd(t)
  BY <1>0, <1>1, <1>3, AuthorizeEndEffect DEF Shows, At, InServer, Serving
<1>4. CASE LoginPageEnd(t)
  BY <1>0, <1>4, LoginPageEndEffect DEF Shows, At, InServer, Serving
<1>5. CASE SigninRefused(t) \/ SigninAccepted(t)
  BY <1>5, SigninRefusedEffect, SigninAcceptedEffect DEF Shows
<1>6. CASE NoExternalLogin(t)
  BY <1>0, <1>6, NoExternalLoginEffect DEF Shows, At, InServer, Serving
<1>7. CASE FindLeftover(t) \/ AddClaims(t)
  BY <1>2, <1>7, FindLeftoverEffect, AddClaimsEffect
<1>8. CASE CreateScratch(t)
  <2>1. ~Leaves(t, "landed")
    BY <1>8, SerialSucceeds DEF Leaves, Goes
  <2> QED BY <1>2, <1>8, <2>1, CreateScratchEffect DEF Fails
<1>9. CASE FindScratch(t)
  <2>1. ~Leaves(t, "landed")
    BY <1>9, SerialSucceeds DEF Leaves, Goes
  <2> QED BY <1>2, <1>9, <2>1, FindScratchEffect DEF Fails
<1>10. CASE SignInAndRemove(t)
  BY <1>10, SerialSucceeds, SignInAndRemoveEffect DEF Shows
<1>11. CASE Way2NothingParked(t) \/ Way2Answer(t)
  BY <1>2, <1>11, Way2NothingParkedEffect, Way2AnswerEffect DEF Shows
<1>12. CASE Opening(t) \/ Walking(t)
  BY <1>1, <1>2, <1>12, OpeningEffect, WalkingEffect DEF Shows
<1>13. CASE Challenge(t)
  BY <1>13, ChallengeEffect DEF Shows
<1>14. CASE ProviderAnswers(t) \/ Replay(t)
  BY <1>2, <1>14, ProviderAnswersEffect, ReplayEffect
<1> QED BY <1>3, <1>4, <1>5, <1>6, <1>7, <1>8, <1>9, <1>10, <1>11, <1>12, <1>13, <1>14,
           SerialSucceeds DEF Acts

LEMMA NextShown ==
  Typed /\ Owned /\ Serial /\ ShownTokenIsTheUsers /\ [Next]_vars => ShownTokenIsTheUsers'
<1> SUFFICES ASSUME Typed, Owned, Serial, ShownTokenIsTheUsers, [Next]_vars, ~overlapped'
             PROVE  ShownTokenIsTheUsers'
  BY DEF ShownTokenIsTheUsers
<1>1. CASE UNCHANGED vars
  BY <1>1 DEF vars, ShownTokenIsTheUsers
<1>2. CASE SessionExpires
  BY <1>2, ExpiresEffect DEF Typed, ShownTokenIsTheUsers
<1>3. ASSUME NEW t \in Tabs, Acts(t) PROVE ShownTokenIsTheUsers'
  <2>1. Shows(t) /\ ~overlapped
    BY <1>3, ActsShow, StillSerial
  <2> QED BY <2>1 DEF Shows, ShownTokenIsTheUsers
<1> QED BY <1>1, <1>2, <1>3, NextActs

-----------------------------------------------------------------------------
LEMMA InitSerial ==
  Init => /\ Owned /\ Spent /\ Serial /\ Once /\ Fitting
          /\ WrongNonceNeedsALaterRequest /\ ShownTokenIsTheUsers
<1> SUFFICES ASSUME Init
             PROVE  /\ Owned /\ Spent /\ Serial /\ Once /\ Fitting
                    /\ WrongNonceNeedsALaterRequest /\ ShownTokenIsTheUsers
  OBVIOUS
<1>1. /\ \A t \in Tabs : /\ tab[t].pc = "new" /\ tab[t].token = None
                         /\ tab[t].session.downstream = None
      /\ jar.external = None /\ jar.app = None /\ jar.correlations = {}
      /\ session.original = None /\ session.downstream = None
      /\ users = {} /\ delivered = <<>> /\ DOMAIN delivered = {}
  BY DEF Init, Idle, EmptySession
<1>2. Sent = {} /\ Live \subseteq {None} /\ Held \subseteq {None}
  <2>1. Inside = {}
    BY <1>1 DEF Inside, InServer, Serving
  <2> QED BY <1>1, <2>1 DEF Sent, Live, Held
<1>3. Owned /\ Serial
  BY <1>1 DEF Owned, Serial, InServer, Serving, At, Creators
<1>4. Spent /\ Once /\ WrongNonceNeedsALaterRequest /\ ShownTokenIsTheUsers
  BY <1>1, <1>2 DEF Spent, Once, WrongNonceNeedsALaterRequest, ShownTokenIsTheUsers
<1>5. Fitting
  BY <1>1, <1>2 DEF Fitting, At
<1> QED BY <1>3, <1>4, <1>5

LEMMA AlwaysSerial ==
  Spec => [](Typed /\ Traced /\ Owned /\ Spent /\ Serial)
BY InitSerial, NextOwned, NextSpent, NextSerial, AlwaysTraced, PTL DEF Spec

\* As long as requests were served one at a time, an authorize request is
\* answered once and a token goes out once, however many tabs the user opens,
\* however often he posts an answer again and whatever expires in between.
THEOREM AnswersGoOutOnce == Spec => []AnsweredOnce
<1>1. Typed /\ Once => AnsweredOnce
  <2> SUFFICES ASSUME Typed, Once, ~overlapped, NEW i \in DOMAIN delivered,
                      NEW j \in DOMAIN delivered, i # j
               PROVE  /\ delivered[i].to # delivered[j].to
                      /\ delivered[i].token # delivered[j].token
    BY DEF AnsweredOnce
  <2> QED BY DEF Once
<1> QED BY <1>1, InitSerial, NextOnce, AlwaysSerial, PTL DEF Spec

\* As long as requests were served one at a time, a token with somebody else's
\* nonce reaches a relying party only when its request was parked after the
\* token's login had begun.
THEOREM AnswersFit == Spec => []WrongNonceNeedsALaterRequest
BY InitSerial, NextFitting, NextAnswersFit, AlwaysSerial, PTL DEF Spec

\* As long as requests were served one at a time, the token on the home page is
\* that of the user who is signed in.
THEOREM ShownTokenBelongs == Spec => []ShownTokenIsTheUsers
BY InitSerial, NextShown, AlwaysSerial, PTL DEF Spec
=============================================================================

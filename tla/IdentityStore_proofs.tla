----------------------- MODULE IdentityStore_proofs ------------------------
(***************************************************************************)
(* For any number of requests, users, logins and roles, as long as no call *)
(* wrote what another relied on: recovery codes pass once, and the         *)
(* dictionaries agree with the users' own lists.                           *)
(***************************************************************************)
EXTENDS IdentityStore, TLAPS

\* A call of each kind is a call.
LEMMA CallNames ==
  ASSUME NEW u \in Users, NEW k \in CallsOf(u)
  PROVE  /\ k \in Calls
         /\ k # NoCall
         /\ k.user = u
         /\ k.name \in {"AddLogin", "RemoveLogin", "AddToRole", "RemoveFromRole",
                        "RedeemCode", "GenerateCodes", "SetProperty", "Delete"}
         /\ k.name \in {"AddLogin", "RemoveLogin"} => k.login \in Logins
         /\ k.name \in {"AddToRole", "RemoveFromRole"} => k.role \in Roles
         /\ k.name = "RedeemCode" => k.code \in Codes \cup {Blank}
<1>1. k \in Calls
  BY DEF Calls
<1>2. CASE k \in [name : {"AddLogin", "RemoveLogin"}, user : {u}, login : Logins]
  BY <1>1, <1>2 DEF NoCall
<1>3. CASE k \in [name : {"AddToRole", "RemoveFromRole"}, user : {u}, role : Roles]
  BY <1>1, <1>3 DEF NoCall
<1>4. CASE k \in [name : {"RedeemCode"}, user : {u}, code : Codes \cup {Blank}]
  BY <1>1, <1>4 DEF NoCall
<1>5. CASE k \in [name : {"GenerateCodes", "SetProperty", "Delete"}, user : {u}]
  BY <1>1, <1>5 DEF NoCall
<1> QED BY <1>2, <1>3, <1>4, <1>5 DEF CallsOf

\* Whoever is in the middle of a call of some kind has a user, and a login, a
\* role or a code if that is what the call is about.
LEMMA CallKinds ==
  ASSUME NEW k \in Calls
  PROVE  \/ k = NoCall /\ k.name = "none"
         \/ k.user \in Users /\ k \in CallsOf(k.user)
<1>1. CASE k = NoCall
  BY <1>1 DEF NoCall
<1>2. CASE k # NoCall
  <2>1. PICK u \in Users : k \in CallsOf(u)
    BY <1>2 DEF Calls
  <2> QED BY <2>1, CallNames
<1> QED BY <1>1, <1>2

\* What a call is about is a topic.
LEMMA AboutTopics ==
  ASSUME NEW k \in Calls PROVE About(k) \subseteq Topics
<1>1. CASE k = NoCall
  BY <1>1 DEF NoCall, About
<1>2. CASE k.user \in Users /\ k \in CallsOf(k.user)
  BY <1>2, CallNames DEF About, Topics
<1> QED BY <1>1, <1>2, CallKinds

\* What caller c changes under others is a set of topics.
LEMMA OverlappedTopics ==
  ASSUME TypeOK, NEW c \in Callers
  PROVE  Overlapped(c) \subseteq Topics
<1>1. About(call[c]) \subseteq Topics
  BY AboutTopics DEF TypeOK
<1> QED BY <1>1 DEF Overlapped

\* Whoever is not idle has a call, a removal of a login begins without a check,
\* and only calls about logins change a dictionary of logins.  The types need
\* the first: an update adds the user of the call.
Underway ==
  \A c \in Callers :
    /\ stage[c] # "idle" => call[c] # NoCall
    /\ stage[c] = "check" => call[c].name # "RemoveLogin"
    /\ stage[c] = "point" => call[c].name \in {"AddLogin", "RemoveLogin"}

Typed == TypeOK /\ Underway

\* The user of a caller that is not idle.
LEMMA HasUser ==
  ASSUME Typed, NEW c \in Callers, stage[c] # "idle"
  PROVE  call[c].user \in Users /\ call[c] \in CallsOf(call[c].user)
BY CallKinds DEF Typed, TypeOK, Underway

LEMMA InitTyped == Init => Typed
<1> SUFFICES ASSUME Init PROVE Typed
  OBVIOUS
<1>1. 0 \in 0 .. Copies /\ 0 \in 0 .. Issues
  BY CopiesAssumption, IssuesAssumption
<1>2. Underway
  BY DEF Init, Underway
<1> QED BY <1>1, <1>2 DEF Init, Typed, TypeOK, Calls, Stages

\* The call that ends leaves a caller without one; a call that goes on keeps
\* its user.
LEMMA ReturnsTyped ==
  ASSUME Typed, NEW c \in Callers, Returns(c)
  PROVE  /\ call' \in [Callers -> Calls]
         /\ stage' \in [Callers -> Stages]
         /\ read' \in [Callers -> SUBSET Codes]
         /\ Underway'
BY DEF Typed, TypeOK, Returns, Goes, Calls, Stages, Underway

LEMMA GoesTyped ==
  ASSUME Typed, NEW c \in Callers, NEW to \in {"change", "point", "update"}, stage[c] # "idle",
         to = "point" => call[c].name \in {"AddLogin", "RemoveLogin"},
         Goes(c, to), UNCHANGED call
  PROVE  /\ stage' \in [Callers -> Stages]
         /\ Underway'
BY DEF Typed, TypeOK, Goes, Underway, Stages

LEMMA StepTyped == Typed /\ [Next]_vars => Typed'
<1> SUFFICES ASSUME Typed, [Next]_vars PROVE Typed'
  OBVIOUS
<1> USE DEF Typed
<1>w. ASSUME NEW c \in Callers, Writes(c) PROVE contended' \subseteq Topics
  BY <1>w, OverlappedTopics DEF Writes, TypeOK
<1>1. ASSUME NEW u \in Users, Create(u) PROVE Typed'
  BY <1>1 DEF TypeOK, Underway, Create, callVars, history
<1>2. ASSUME NEW r \in Roles, CreateRole(r) PROVE Typed'
  BY <1>2 DEF TypeOK, Underway, CreateRole, callVars, history
<1>3. ASSUME NEW r \in Roles, DeleteRole(r) PROVE Typed'
  BY <1>3 DEF TypeOK, Underway, DeleteRole, callVars
<1>4. ASSUME NEW c \in Callers, NEW u \in Users, NEW k \in CallsOf(u), Begin(c, k)
      PROVE  Typed'
  <2>1. k \in Calls /\ k # NoCall
    BY CallNames
  <2>2. call' \in [Callers -> Calls]
    BY <1>4, <2>1 DEF TypeOK, Begin
  <2>3. stage' \in [Callers -> Stages]
    BY <1>4 DEF TypeOK, Begin, Goes, Stages
  <2>4. Underway'
    BY <1>4, <2>1 DEF TypeOK, Underway, Begin, Goes
  <2> QED BY <1>4, <2>2, <2>3, <2>4 DEF TypeOK, Begin, store, history
<1>5. ASSUME NEW c \in Callers, Check(c) PROVE Typed'
  <2>1. CASE MayProceed(call[c])
    <3>1. stage' \in [Callers -> Stages] /\ Underway'
      BY <1>5, <2>1, GoesTyped DEF Check
    <3>2. call[c].user \in Users
      BY <1>5, HasUser DEF Check
    <3>3. (IF call[c].name = "RedeemCode" THEN codes[call[c].user] ELSE {}) \in SUBSET Codes
      BY <3>2 DEF TypeOK
    <3>4. read' \in [Callers -> SUBSET Codes]
      BY <1>5, <2>1, <3>3 DEF TypeOK, Check
    <3> QED BY <1>5, <2>1, <3>1, <3>4 DEF TypeOK, Check, store, history
  <2>2. CASE ~MayProceed(call[c])
    BY <1>5, <2>2, ReturnsTyped DEF TypeOK, Check, store, history
  <2> QED BY <2>1, <2>2
<1>6. ASSUME NEW c \in Callers, Update(c) PROVE Typed'
  <2>1. call[c].user \in Users
    BY <1>6, HasUser DEF Update
  <2> QED BY <1>6, <2>1, ReturnsTyped DEF TypeOK, Update, history
<1>7. ASSUME NEW c \in Callers, NEW u \in Users, NEW l \in Logins, AddLogin(c, u, l)
      PROVE  Typed'
  <2>1. linked[u][l] + 1 \in 0 .. Copies
    BY <1>7, CopiesAssumption DEF TypeOK, AddLogin
  <2>2. linked' \in [Users -> [Logins -> 0 .. Copies]]
    BY <1>7, <2>1 DEF TypeOK, AddLogin
  <2>3. stage' \in [Callers -> Stages] /\ Underway'
    BY <1>7, GoesTyped DEF AddLogin
  <2> QED BY <1>7, <1>w, <2>2, <2>3 DEF TypeOK, AddLogin
<1>8. ASSUME NEW c \in Callers, NEW u \in Users, NEW l \in Logins, RemoveLogin(c, u, l)
      PROVE  Typed'
  <2>1. CASE linked[u][l] > 1
    BY <1>8, <2>1, ReturnsTyped DEF TypeOK, RemoveLogin
  <2>2. CASE ~(linked[u][l] > 1)
    <3>1. 0 \in 0 .. Copies
      BY CopiesAssumption
    <3>a. linked' = [linked EXCEPT ![u][l] = 0]
      BY <1>8, <2>2 DEF RemoveLogin
    <3>2. linked' \in [Users -> [Logins -> 0 .. Copies]]
      BY <3>1, <3>a DEF TypeOK
    <3>3. stage' \in [Callers -> Stages] /\ Underway'
      BY <1>8, <2>2, GoesTyped DEF RemoveLogin
    <3> QED BY <1>8, <1>w, <2>2, <3>2, <3>3 DEF TypeOK, RemoveLogin
  <2> QED BY <2>1, <2>2
<1>p. ASSUME NEW c \in Callers, NEW u \in Users, NEW l \in Logins, Point(c, u, l)
      PROVE  Typed'
  <2>1. logins' \in [Logins -> Users \cup {Nobody}]
    BY <1>p DEF TypeOK, Point
  <2>2. stage' \in [Callers -> Stages] /\ Underway'
    BY <1>p, GoesTyped DEF Point
  <2> QED BY <1>p, <1>w, <2>1, <2>2 DEF TypeOK, Point
<1>9. ASSUME NEW c \in Callers, NEW u \in Users, NEW r \in Roles, AddToRole(c, u, r)
      PROVE  Typed'
  <2>1. member[u][r] + 1 \in 0 .. Copies
    BY <1>9, CopiesAssumption DEF TypeOK, AddToRole
  <2>2. member' \in [Users -> [Roles -> 0 .. Copies]]
    BY <1>9, <2>1 DEF TypeOK, AddToRole
  <2>3. stage' \in [Callers -> Stages] /\ Underway'
    BY <1>9, GoesTyped DEF AddToRole
  <2> QED BY <1>9, <1>w, <2>2, <2>3 DEF TypeOK, AddToRole
<1>10. ASSUME NEW c \in Callers, NEW u \in Users, NEW r \in Roles, RemoveFromRole(c, u, r)
      PROVE  Typed'
  <2>1. CASE r \notin roles \/ member[u][r] > 1
    BY <1>10, <2>1, ReturnsTyped DEF TypeOK, RemoveFromRole, history
  <2>2. CASE ~(r \notin roles \/ member[u][r] > 1)
    <3>1. 0 \in 0 .. Copies
      BY CopiesAssumption
    <3>a. member' = [member EXCEPT ![u][r] = 0]
      BY <1>10, <2>2 DEF RemoveFromRole
    <3>2. member' \in [Users -> [Roles -> 0 .. Copies]]
      BY <3>1, <3>a DEF TypeOK
    <3>3. stage' \in [Callers -> Stages] /\ Underway'
      BY <1>10, <2>2, GoesTyped DEF RemoveFromRole
    <3> QED BY <1>10, <2>2, <3>2, <3>3 DEF TypeOK, RemoveFromRole, history
  <2> QED BY <2>1, <2>2
<1>11. ASSUME NEW c \in Callers, NEW u \in Users, RedeemCode(c, u) PROVE Typed'
  <2>1. stage' \in [Callers -> Stages] /\ Underway'
    BY <1>11, GoesTyped DEF RedeemCode
  <2> QED BY <1>11, <1>w, <2>1 DEF TypeOK, RedeemCode
<1>12. ASSUME NEW c \in Callers, NEW u \in Users, GenerateCodes(c, u) PROVE Typed'
  <2>1. stage' \in [Callers -> Stages] /\ Underway'
    BY <1>12, GoesTyped DEF GenerateCodes
  <2>2. issued[u] + 1 \in 1 .. Issues /\ issued[u] + 1 \in 0 .. Issues
    BY <1>12, IssuesAssumption DEF TypeOK, GenerateCodes
  <2>3. Issue(issued[u] + 1) \in SUBSET Codes
    BY <2>2 DEF Issue, Codes
  <2> QED BY <1>12, <1>w, <2>1, <2>2, <2>3 DEF TypeOK, GenerateCodes
<1>13. ASSUME NEW c \in Callers, NEW u \in Users, SetProperty(c, u) PROVE Typed'
  <2>1. stage' \in [Callers -> Stages] /\ Underway'
    BY <1>13, GoesTyped DEF SetProperty
  <2> QED BY <1>13, <2>1 DEF TypeOK, SetProperty, store, history
<1>14. ASSUME NEW c \in Callers, NEW u \in Users, Delete(c, u) PROVE Typed'
  <2>1. departed' \subseteq Users /\ deleted' \subseteq Users \cup Roles
    BY <1>14 DEF TypeOK, Delete
  <2> QED BY <1>14, <2>1, ReturnsTyped DEF TypeOK, Delete
<1>15. CASE UNCHANGED vars
  BY <1>15 DEF TypeOK, Underway, vars, store, callVars, history
<1> QED BY <1>1, <1>2, <1>3, <1>4, <1>5, <1>6, <1>7, <1>8, <1>p, <1>9, <1>10, <1>11, <1>12,
           <1>13, <1>14, <1>15 DEF Next

(* Users, logins, roles, codes and calls keep their types, whatever the     *)
(* requests do to the store.                                                *)
THEOREM StoreTypeCorrect == Spec => []TypeOK
<1>1. Typed => TypeOK
  BY DEF Typed
<1> QED BY <1>1, InitTyped, StepTyped, PTL DEF Spec

-----------------------------------------------------------------------------
(* The codes.                                                               *)

\* Calls about a user's codes, and no others, are about <<"codes", u>>.
LEMMA AboutCodes ==
  ASSUME NEW k \in Calls, NEW u \in Users
  PROVE  <<"codes", u>> \in About(k)
           <=> k.name \in {"RedeemCode", "GenerateCodes"} /\ k.user = u
<1>1. CASE k = NoCall
  BY <1>1 DEF NoCall, About
<1>2. CASE k \in CallsOf(k.user) /\ k.user \in Users
  BY <1>2, CallNames DEF About
<1> QED BY <1>1, <1>2, CallKinds

\* What a call that redeems a code has read is what is there, unless another
\* call wrote it since; and the code is one of what it has read.
ReadingHolds ==
  \A c \in Callers :
    stage[c] = "change" /\ call[c].name = "RedeemCode" =>
      /\ Quiet(<<"codes", call[c].user>>) => read[c] = codes[call[c].user]
      /\ \A k \in read[c] : 1 <= k[1] /\ k[1] <= issued[call[c].user]
      /\ call[c].code \in Split(read[c])

CodesKept ==
  \A u \in Users :
    /\ Quiet(<<"codes", u>>) => codes[u] = unspent[u]
    /\ \A k \in codes[u] : 1 <= k[1] /\ k[1] <= issued[u]

CodesSound == Typed /\ ReadingHolds /\ CodesKept

LEMMA SpentOnce == CodesSound => CodesAreSpentOnce
<1> SUFFICES ASSUME CodesSound PROVE CodesAreSpentOnce
  OBVIOUS
<1>1. ASSUME NEW c \in Callers, stage[c] = "change", call[c].name = "RedeemCode",
             Quiet(<<"codes", call[c].user>>)
      PROVE  call[c].code \in Split(unspent[call[c].user])
  <2>1. call[c].user \in Users
    BY <1>1, HasUser DEF CodesSound
  <2> QED BY <1>1, <2>1 DEF CodesSound, ReadingHolds, CodesKept
<1> QED BY <1>1 DEF CodesSound, CodesKept, CodesAreSpentOnce

LEMMA InitCodes == Init => CodesSound
<1> SUFFICES ASSUME Init PROVE CodesSound
  OBVIOUS
<1>1. Typed
  BY InitTyped
<1>2. ReadingHolds /\ CodesKept
  BY DEF Init, ReadingHolds, CodesKept
<1> QED BY <1>1, <1>2 DEF CodesSound

\* What was contended for stays so.
LEMMA ContendedGrows == Typed /\ [Next]_vars => contended \subseteq contended'
<1> SUFFICES ASSUME Typed, [Next]_vars PROVE contended \subseteq contended'
  OBVIOUS
<1>1. ASSUME NEW c \in Callers, Writes(c) PROVE contended \subseteq contended'
  BY <1>1 DEF Writes
<1>2. ASSUME NEW u \in Users, Create(u) PROVE contended \subseteq contended'
  BY <1>2 DEF Create, history
<1>3. ASSUME NEW r \in Roles, CreateRole(r) \/ DeleteRole(r) PROVE contended \subseteq contended'
  BY <1>3 DEF CreateRole, DeleteRole, history
<1>4. ASSUME NEW c \in Callers, NEW u \in Users, NEW k \in CallsOf(u), Begin(c, k)
      PROVE  contended \subseteq contended'
  BY <1>4 DEF Begin, history
<1>5. ASSUME NEW c \in Callers, Check(c) \/ Update(c) PROVE contended \subseteq contended'
  BY <1>5 DEF Check, Update, history
<1>6. ASSUME NEW c \in Callers, NEW u \in Users, NEW l \in Logins,
             AddLogin(c, u, l) \/ RemoveLogin(c, u, l) \/ Point(c, u, l)
      PROVE  contended \subseteq contended'
  BY <1>1, <1>6 DEF AddLogin, RemoveLogin, Point
<1>7. ASSUME NEW c \in Callers, NEW u \in Users, NEW r \in Roles,
             AddToRole(c, u, r) \/ RemoveFromRole(c, u, r)
      PROVE  contended \subseteq contended'
  BY <1>1, <1>7 DEF AddToRole, RemoveFromRole, history
<1>8. ASSUME NEW c \in Callers, NEW u \in Users,
             RedeemCode(c, u) \/ GenerateCodes(c, u) \/ SetProperty(c, u) \/ Delete(c, u)
      PROVE  contended \subseteq contended'
  BY <1>1, <1>8 DEF RedeemCode, GenerateCodes, SetProperty, Delete, history
<1>9. CASE UNCHANGED vars
  BY <1>9 DEF vars, history
<1> QED BY <1>2, <1>3, <1>4, <1>5, <1>6, <1>7, <1>8, <1>9 DEF Next

\* A step that leaves the codes alone, and no call to redeem one that was not
\* there before, keeps what was read and what is unspent.
LEMMA CodesUntouched ==
  ASSUME CodesSound, contended \subseteq contended', UNCHANGED <<codes, issued, unspent>>,
         \A c \in Callers : stage'[c] = "change" /\ call'[c].name = "RedeemCode" =>
           stage[c] = "change" /\ call'[c] = call[c] /\ read'[c] = read[c]
  PROVE  ReadingHolds' /\ CodesKept'
<1>1. \A u \in Users : Quiet(<<"codes", u>>)' => Quiet(<<"codes", u>>)
  BY DEF Quiet
<1>2. CodesKept'
  BY <1>1 DEF CodesSound, CodesKept
<1>3. ASSUME NEW c \in Callers, stage'[c] = "change", call'[c].name = "RedeemCode"
      PROVE  /\ Quiet(<<"codes", call[c].user>>)' => read'[c] = codes'[call'[c].user]
             /\ \A k \in read'[c] : 1 <= k[1] /\ k[1] <= issued'[call'[c].user]
             /\ call'[c].code \in Split(read'[c])
  BY <1>3 DEF CodesSound, ReadingHolds, Quiet
<1>4. ReadingHolds'
  BY <1>3 DEF ReadingHolds, Quiet
<1> QED BY <1>2, <1>4

\* A call about a user's codes changes them for no other call that may rely on
\* them, and for no other user.
LEMMA CodesWritten ==
  ASSUME CodesSound, NEW c \in Callers, NEW u \in Users,
         call[c].name \in {"RedeemCode", "GenerateCodes"}, call[c].user = u,
         Goes(c, "update"), Writes(c), UNCHANGED <<call, read>>,
         issued'[u] \in Nat, issued[u] <= issued'[u],
         \A v \in Users \ {u} : /\ codes'[v] = codes[v] /\ unspent'[v] = unspent[v]
                                /\ issued'[v] = issued[v],
         Quiet(<<"codes", u>>) => codes'[u] = unspent'[u],
         \A k \in codes'[u] : 1 <= k[1] /\ k[1] <= issued'[u]
  PROVE  ReadingHolds' /\ CodesKept'
<1>0. \A t : Quiet(t)' => Quiet(t)
  BY DEF Writes, Quiet
<1>1. CodesKept'
  BY <1>0 DEF CodesSound, CodesKept
<1>2. ASSUME NEW d \in Callers, stage'[d] = "change", call'[d].name = "RedeemCode"
      PROVE  /\ Quiet(<<"codes", call[d].user>>)' => read'[d] = codes'[call'[d].user]
             /\ \A k \in read'[d] : 1 <= k[1] /\ k[1] <= issued'[call'[d].user]
             /\ call'[d].code \in Split(read'[d])
  <2>1. stage[d] = "change" /\ d # c /\ call'[d] = call[d] /\ read'[d] = read[d]
    BY <1>2 DEF Goes, CodesSound, Typed, TypeOK
  <2>2. call[d].user \in Users /\ call[d] \in Calls
    BY <2>1, HasUser DEF CodesSound, Typed, TypeOK
  <2>c. call[d].code \in Split(read[d])
    BY <1>2, <2>1 DEF CodesSound, ReadingHolds
  <2>3. CASE call[d].user = u
    <3>1. <<"codes", u>> \in About(call[c]) \cap About(call[d])
      BY <1>2, <2>1, <2>2, <2>3, AboutCodes DEF CodesSound, Typed, TypeOK
    <3>2. Relying(d) /\ Upsets(call[c], call[d])
      BY <1>2, <2>1 DEF Relying, Upsets
    <3>3. <<"codes", u>> \in Overlapped(c)
      BY <2>1, <3>1, <3>2 DEF Overlapped
    <3>4. ~Quiet(<<"codes", u>>)'
      BY <3>3 DEF Writes, Quiet
    <3>5. ASSUME NEW k \in read[d] PROVE 1 <= k[1] /\ k[1] <= issued'[u]
      <4>1. 1 <= k[1] /\ k[1] <= issued[u]
        BY <1>2, <2>1, <2>3 DEF CodesSound, ReadingHolds
      <4>2. k[1] \in Nat /\ issued[u] \in Nat
        BY IssuesAssumption DEF CodesSound, Typed, TypeOK, Codes
      <4> QED BY <4>1, <4>2
    <3> QED BY <2>1, <2>3, <2>c, <3>4, <3>5
  <2>4. CASE call[d].user # u
    BY <1>0, <1>2, <2>1, <2>2, <2>4, <2>c DEF CodesSound, ReadingHolds
  <2> QED BY <2>3, <2>4
<1>3. ReadingHolds'
  BY <1>2 DEF ReadingHolds, Quiet
<1> QED BY <1>1, <1>3

LEMMA StepCodes == CodesSound /\ [Next]_vars => ReadingHolds' /\ CodesKept'
<1> SUFFICES ASSUME CodesSound, [Next]_vars PROVE ReadingHolds' /\ CodesKept'
  OBVIOUS
<1> DEFINE Goal == ReadingHolds' /\ CodesKept'
<1>t. Typed /\ TypeOK
  BY DEF CodesSound, Typed
<1>g. contended \subseteq contended'
  BY <1>t, ContendedGrows
<1>1. ASSUME NEW u \in Users, Create(u) PROVE Goal
  BY <1>1, CodesUntouched DEF Create, callVars, history
<1>2. ASSUME NEW r \in Roles, CreateRole(r) \/ DeleteRole(r) PROVE Goal
  BY <1>2, CodesUntouched DEF CreateRole, DeleteRole, callVars, history
<1>3. ASSUME NEW c \in Callers, NEW u \in Users, NEW k \in CallsOf(u), Begin(c, k)
      PROVE  Goal
  <2>1. stage'[c] = "change" => call'[c].name # "RedeemCode"
    BY <1>3, <1>t DEF Begin, Goes, TypeOK
  <2>2. \A d \in Callers \ {c} :
          stage'[d] = stage[d] /\ call'[d] = call[d] /\ read'[d] = read[d]
    BY <1>3, <1>t DEF Begin, Goes, TypeOK
  <2> QED BY <1>3, <2>1, <2>2, CodesUntouched DEF Begin, store, history
<1>4. ASSUME NEW c \in Callers, Check(c) PROVE Goal
  <2>1. \A d \in Callers \ {c} :
          stage'[d] = stage[d] /\ call'[d] = call[d] /\ read'[d] = read[d]
    BY <1>4, <1>t DEF Check, Returns, Goes, TypeOK
  <2>2. CASE ~MayProceed(call[c])
    <3>1. stage'[c] = "idle"
      BY <1>4, <1>t, <2>2 DEF Check, Returns, Goes, TypeOK
    <3> QED BY <1>4, <2>1, <3>1, CodesUntouched DEF Check, store, history
  <2>3. CASE MayProceed(call[c])
    <3>1. call[c].user \in Users
      BY <1>4, <1>t, HasUser DEF Check
    <3>2. /\ call'[c] = call[c] /\ UNCHANGED <<codes, issued, unspent, contended>>
          /\ read'[c] = IF call[c].name = "RedeemCode" THEN codes[call[c].user] ELSE {}
      BY <1>4, <1>t, <2>3 DEF Check, store, history, TypeOK
    <3>3. CodesKept'
      BY <3>2 DEF CodesSound, CodesKept, Quiet
    <3>4. ASSUME NEW d \in Callers, stage'[d] = "change", call'[d].name = "RedeemCode"
          PROVE  /\ read'[d] = codes'[call'[d].user] \/ ~Quiet(<<"codes", call[d].user>>)'
                 /\ call'[d] = call[d]
                 /\ call'[d].code \in Split(read'[d])
                 /\ \A k \in read'[d] : 1 <= k[1] /\ k[1] <= issued'[call'[d].user]
      <4>1. CASE d = c
        <5>1. call[c].code \in Split(codes[call[c].user])
          BY <2>3, <3>2, <3>4, <4>1 DEF MayProceed, Accepted
        <5> QED BY <3>1, <3>2, <3>4, <4>1, <5>1 DEF CodesSound, CodesKept
      <4>2. CASE d # c
        BY <2>1, <3>2, <3>4, <4>2 DEF CodesSound, ReadingHolds, Quiet
      <4> QED BY <4>1, <4>2
    <3>5. ReadingHolds'
      BY <3>4 DEF ReadingHolds, Quiet
    <3> QED BY <3>3, <3>5
  <2> QED BY <2>2, <2>3
<1>5. ASSUME NEW c \in Callers, Returns(c),
             UNCHANGED <<codes, issued, unspent>>, contended \subseteq contended'
      PROVE  Goal
  <2>1. stage'[c] = "idle"
    BY <1>5, <1>t DEF Returns, Goes, TypeOK
  <2>2. \A d \in Callers \ {c} :
          stage'[d] = stage[d] /\ call'[d] = call[d] /\ read'[d] = read[d]
    BY <1>5, <1>t DEF Returns, Goes, TypeOK
  <2> QED BY <1>5, <2>1, <2>2, CodesUntouched
<1>6. ASSUME NEW c \in Callers, NEW to \in {"point", "update"}, Goes(c, to),
             UNCHANGED <<codes, issued, unspent, call, read>>, contended \subseteq contended'
      PROVE  Goal
  <2>1. \A d \in Callers : stage'[d] = "change" => stage[d] = "change"
    BY <1>6, <1>t DEF Goes, TypeOK
  <2> QED BY <1>6, <2>1, CodesUntouched
<1>7. ASSUME NEW c \in Callers, Update(c) PROVE Goal
  BY <1>7, <1>5 DEF Update, history
<1>8. ASSUME NEW c \in Callers, NEW u \in Users, NEW l \in Logins,
             AddLogin(c, u, l) \/ RemoveLogin(c, u, l) \/ Point(c, u, l)
      PROVE  Goal
  BY <1>8, <1>g, <1>5, <1>6 DEF AddLogin, RemoveLogin, Point
<1>9. ASSUME NEW c \in Callers, NEW u \in Users, NEW r \in Roles,
             AddToRole(c, u, r) \/ RemoveFromRole(c, u, r)
      PROVE  Goal
  BY <1>9, <1>g, <1>5, <1>6 DEF AddToRole, RemoveFromRole, history
<1>10. ASSUME NEW c \in Callers, NEW u \in Users, SetProperty(c, u) \/ Delete(c, u)
       PROVE  Goal
  BY <1>10, <1>5, <1>6 DEF SetProperty, Delete, store, history
<1>11. ASSUME NEW c \in Callers, NEW u \in Users, RedeemCode(c, u) PROVE Goal
  <2>1. /\ codes' = [codes EXCEPT ![u] = read[c] \ {call[c].code}]
        /\ unspent' = [unspent EXCEPT ![u] = @ \ {call[c].code}]
        /\ call[c].name = "RedeemCode" /\ call[c].user = u /\ stage[c] = "change"
        /\ Goes(c, "update") /\ Writes(c) /\ UNCHANGED <<call, read, issued>>
    BY <1>11 DEF RedeemCode
  <2>2. /\ codes'[u] = read[c] \ {call[c].code}
        /\ unspent'[u] = unspent[u] \ {call[c].code}
        /\ \A v \in Users \ {u} : codes'[v] = codes[v] /\ unspent'[v] = unspent[v]
    BY <1>t, <2>1 DEF TypeOK
  <2>3. issued[u] \in Nat
    BY <1>t, IssuesAssumption DEF TypeOK
  <2>4. /\ Quiet(<<"codes", u>>) => read[c] = codes[u] /\ codes[u] = unspent[u]
        /\ \A k \in read[c] : 1 <= k[1] /\ k[1] <= issued[u]
    BY <2>1 DEF CodesSound, ReadingHolds, CodesKept
  <2>5. /\ issued'[u] \in Nat /\ issued[u] <= issued'[u]
        /\ \A v \in Users \ {u} : issued'[v] = issued[v]
    BY <2>1, <2>3
  <2>6. Quiet(<<"codes", u>>) => codes'[u] = unspent'[u]
    BY <2>2, <2>4
  <2>7. \A k \in codes'[u] : 1 <= k[1] /\ k[1] <= issued'[u]
    BY <2>1, <2>2, <2>4
  <2>8. call[c].name \in {"RedeemCode", "GenerateCodes"}
    BY <2>1
  <2> QED BY <2>1, <2>2, <2>5, <2>6, <2>7, <2>8, CodesWritten
<1>12. ASSUME NEW c \in Callers, NEW u \in Users, GenerateCodes(c, u) PROVE Goal
  <2>1. /\ codes' = [codes EXCEPT ![u] = Issue(issued[u] + 1)]
        /\ unspent' = [unspent EXCEPT ![u] = Issue(issued[u] + 1)]
        /\ issued' = [issued EXCEPT ![u] = @ + 1]
        /\ call[c] = [name |-> "GenerateCodes", user |-> u]
        /\ Goes(c, "update") /\ Writes(c) /\ UNCHANGED <<call, read>>
    BY <1>12 DEF GenerateCodes
  <2>2. /\ codes'[u] = Issue(issued[u] + 1) /\ unspent'[u] = Issue(issued[u] + 1)
        /\ issued'[u] = issued[u] + 1
        /\ \A v \in Users \ {u} : /\ codes'[v] = codes[v] /\ unspent'[v] = unspent[v]
                                  /\ issued'[v] = issued[v]
    BY <1>t, <2>1 DEF TypeOK
  <2>3. issued[u] \in Nat
    BY <1>t, IssuesAssumption DEF TypeOK
  <2>4. \A k \in codes'[u] : 1 <= k[1] /\ k[1] <= issued'[u]
    BY <2>2, <2>3 DEF Issue
  <2>5. call[c].name \in {"RedeemCode", "GenerateCodes"} /\ call[c].user = u
    BY <2>1
  <2>6. issued'[u] \in Nat /\ issued[u] <= issued'[u]
    BY <2>2, <2>3
  <2>7. codes'[u] = unspent'[u]
    BY <2>2
  <2> QED BY <2>1, <2>2, <2>4, <2>5, <2>6, <2>7, CodesWritten
<1>13. CASE UNCHANGED vars
  BY <1>13, CodesUntouched DEF vars, store, callVars, history
<1> QED BY <1>1, <1>2, <1>3, <1>4, <1>7, <1>8, <1>9, <1>10, <1>11, <1>12, <1>13 DEF Next

(* However many requests there are: as long as no call wrote a user's codes *)
(* under a redemption that had read them, RedeemCodeAsync accepts each code *)
(* that was issued once, and the blank code when, and only when, none is    *)
(* left.                                                                    *)
THEOREM CodesOnce == Spec => []CodesAreSpentOnce
<1>1. CodesSound /\ [Next]_vars => CodesSound'
  BY StepTyped, StepCodes DEF CodesSound
<1> QED BY <1>1, SpentOnce, InitCodes, PTL DEF Spec

-----------------------------------------------------------------------------
(* The logins.                                                              *)

Changing(c, u, l) == call[c].user = u /\ call[c].login = l

\* On a login nobody contended for: one that has it in its list has it once, and
\* the dictionary leads to nobody else.  A call that is adding it has found it
\* free; a call that has written its own list, or is removing the login, is the
\* only one that can have it.
ListsAgree ==
  \A u \in Users, l \in Logins : Quiet(<<"login", l>>) =>
    /\ ~Halfway(u, l) => linked[u][l] = (IF logins[l] = u THEN 1 ELSE 0)
    /\ linked[u][l] > 0 => linked[u][l] = 1 /\ logins[l] \in {u, Nobody}

OnlyOne(u, l) ==
  /\ logins[l] \in {u, Nobody}
  /\ \A v \in Users \ {u} : linked[v][l] = 0

FindingsHold ==
  \A c \in Callers, u \in Users, l \in Logins :
    Changing(c, u, l) /\ Quiet(<<"login", l>>) =>
      /\ call[c].name = "AddLogin" /\ Relying(c) => logins[l] = Nobody
      /\ call[c].name = "AddLogin" /\ stage[c] = "point" => OnlyOne(u, l) /\ linked[u][l] = 1
      /\ call[c].name = "RemoveLogin" /\ Relying(c) => OnlyOne(u, l)
      /\ call[c].name = "RemoveLogin" /\ stage[c] = "point" => linked[u][l] = 0

LoginsSound == ListsAgree /\ FindingsHold

\* Calls about a login, and no others, are about <<"login", l>>.
LEMMA AboutLogin ==
  ASSUME NEW k \in Calls, NEW l \in Logins
  PROVE  <<"login", l>> \in About(k)
           <=> k.name \in {"AddLogin", "RemoveLogin"} /\ k.login = l
<1>1. CASE k = NoCall
  BY <1>1 DEF NoCall, About
<1>2. CASE k \in CallsOf(k.user) /\ k.user \in Users
  BY <1>2, CallNames DEF About
<1> QED BY <1>1, <1>2, CallKinds

LEMMA InitLogins == Init => LoginsSound
BY NobodyAssumption DEF Init, LoginsSound, ListsAgree, FindingsHold, Relying

\* A call about a login that another call is working on contends with it, if
\* either adds the login.
LEMMA Disturbs ==
  ASSUME Typed, NEW c \in Callers, NEW d \in Callers, c # d, NEW l \in Logins,
         call[c].name \in {"AddLogin", "RemoveLogin"}, call[c].login = l,
         call[d].name \in {"AddLogin", "RemoveLogin"}, call[d].login = l, Relying(d),
         Writes(c), Quiet(<<"login", l>>)'
  PROVE  call[c].name = "RemoveLogin" /\ call[d].name = "RemoveLogin"
<1>1. <<"login", l>> \in About(call[c]) \cap About(call[d])
  BY AboutLogin DEF Typed, TypeOK
<1>2. CASE Upsets(call[c], call[d])
  <2>1. <<"login", l>> \in Overlapped(c)
    BY <1>1, <1>2 DEF Overlapped
  <2> QED BY <2>1 DEF Writes, Quiet
<1>3. CASE ~Upsets(call[c], call[d])
  BY <1>3 DEF Upsets
<1> QED BY <1>2, <1>3

\* A step that leaves the logins alone, and no call about to change one that was
\* not there before or was further.
LEMMA LoginsUntouched ==
  ASSUME LoginsSound, contended \subseteq contended', UNCHANGED <<logins, linked>>,
         \A c \in Callers :
           /\ stage'[c] = "point" <=> stage[c] = "point"
           /\ stage'[c] = "point" => call'[c] = call[c]
           /\ stage'[c] = "change" /\ call'[c].name \in {"AddLogin", "RemoveLogin"} =>
                stage[c] = "change" /\ call'[c] = call[c]
  PROVE  LoginsSound'
<1>1. \A l \in Logins : Quiet(<<"login", l>>)' => Quiet(<<"login", l>>)
  BY DEF Quiet
<1>2. \A u \in Users, l \in Logins : Halfway(u, l)' <=> Halfway(u, l)
  BY DEF Halfway
<1>3. ListsAgree'
  BY <1>1, <1>2 DEF LoginsSound, ListsAgree
<1>4. FindingsHold'
  <2> SUFFICES ASSUME NEW c \in Callers, NEW u \in Users, NEW l \in Logins,
                      Changing(c, u, l)', Quiet(<<"login", l>>)', Relying(c)',
                      call'[c].name \in {"AddLogin", "RemoveLogin"}
               PROVE  /\ call'[c].name = "AddLogin" => logins[l] = Nobody
                      /\ call'[c].name = "AddLogin" /\ stage'[c] = "point" =>
                           OnlyOne(u, l) /\ linked[u][l] = 1
                      /\ call'[c].name = "RemoveLogin" => OnlyOne(u, l)
                      /\ call'[c].name = "RemoveLogin" /\ stage'[c] = "point" => linked[u][l] = 0
    BY DEF FindingsHold, OnlyOne, Relying
  <2>1. call'[c] = call[c] /\ stage'[c] = stage[c]
    BY DEF Relying
  <2> QED BY <1>1, <2>1 DEF LoginsSound, FindingsHold, Changing, Relying
<1> QED BY <1>3, <1>4 DEF LoginsSound

\* Nobody has a login that nobody has half changed and that leads nowhere.
LEMMA Free ==
  ASSUME Typed, LoginsSound, NEW l \in Logins, Quiet(<<"login", l>>), logins[l] = Nobody,
         \A d \in Callers : stage[d] = "point" => call[d].login # l
  PROVE  \A v \in Users : linked[v][l] = 0
BY NobodyAssumption DEF LoginsSound, ListsAgree, Halfway

\* A user that has a login is the only one.
LEMMA Sole ==
  ASSUME Typed, LoginsSound, NEW u \in Users, NEW l \in Logins, Quiet(<<"login", l>>),
         linked[u][l] > 0
  PROVE  OnlyOne(u, l)
<1>1. linked[u][l] = 1 /\ logins[l] \in {u, Nobody}
  BY DEF LoginsSound, ListsAgree
<1>2. ASSUME NEW v \in Users \ {u} PROVE linked[v][l] = 0
  <2>1. CASE Halfway(v, l)
    <3>1. PICK c \in Callers : stage[c] = "point" /\ Changing(c, v, l)
      BY <2>1 DEF Halfway, Changing
    <3>2. call[c].name \in {"AddLogin", "RemoveLogin"} /\ Relying(c)
      BY <3>1 DEF Typed, Underway, Relying
    <3>3. OnlyOne(v, l)
      BY <3>1, <3>2 DEF LoginsSound, FindingsHold
    <3> QED BY <1>1, <3>3 DEF OnlyOne
  <2>2. CASE ~Halfway(v, l)
    BY <1>1, <2>2, NobodyAssumption DEF LoginsSound, ListsAgree
  <2> QED BY <2>1, <2>2
<1> QED BY <1>1, <1>2 DEF OnlyOne

\* The write of a call about one login says nothing of the others.
LEMMA OtherLogins ==
  ASSUME Typed, LoginsSound, NEW c \in Callers, NEW l \in Logins, NEW m \in Logins, m # l,
         call[c].login = l, UNCHANGED call, contended \subseteq contended',
         NEW to \in {"point", "update"}, Goes(c, to),
         logins'[m] = logins[m], \A v \in Users : linked'[v][m] = linked[v][m],
         Quiet(<<"login", m>>)', NEW u \in Users
  PROVE  /\ ~Halfway(u, m)' => linked'[u][m] = (IF logins'[m] = u THEN 1 ELSE 0)
         /\ linked'[u][m] > 0 => linked'[u][m] = 1 /\ logins'[m] \in {u, Nobody}
         /\ \A d \in Callers : Changing(d, u, m) =>
              /\ call[d].name = "AddLogin" /\ Relying(d)' => logins'[m] = Nobody
              /\ call[d].name = "AddLogin" /\ stage'[d] = "point" =>
                   OnlyOne(u, m)' /\ linked'[u][m] = 1
              /\ call[d].name = "RemoveLogin" /\ Relying(d)' => OnlyOne(u, m)'
              /\ call[d].name = "RemoveLogin" /\ stage'[d] = "point" => linked'[u][m] = 0
<1>1. Quiet(<<"login", m>>)
  BY DEF Quiet
<1>2. \A d \in Callers \ {c} : stage'[d] = stage[d]
  BY DEF Goes, Typed, TypeOK
<1>3. Halfway(u, m)' <=> Halfway(u, m)
  BY <1>2 DEF Halfway
<1>4. OnlyOne(u, m) => OnlyOne(u, m)'
  BY DEF OnlyOne
<1>5. ASSUME NEW d \in Callers, Changing(d, u, m)
      PROVE  /\ call[d].name = "AddLogin" /\ Relying(d)' => logins'[m] = Nobody
             /\ call[d].name = "AddLogin" /\ stage'[d] = "point" =>
                  OnlyOne(u, m)' /\ linked'[u][m] = 1
             /\ call[d].name = "RemoveLogin" /\ Relying(d)' => OnlyOne(u, m)'
             /\ call[d].name = "RemoveLogin" /\ stage'[d] = "point" => linked'[u][m] = 0
  <2>1. d # c /\ stage'[d] = stage[d]
    BY <1>2, <1>5 DEF Changing
  <2> QED BY <1>1, <1>4, <1>5, <2>1 DEF LoginsSound, FindingsHold, Relying
<1> QED BY <1>1, <1>3, <1>5 DEF LoginsSound, ListsAgree

LEMMA StepLogins == Typed /\ LoginsSound /\ [Next]_vars => LoginsSound'
<1> SUFFICES ASSUME Typed, LoginsSound, [Next]_vars PROVE LoginsSound'
  OBVIOUS
<1>t. TypeOK
  BY DEF Typed
<1>g. contended \subseteq contended'
  BY ContendedGrows
<1>1. ASSUME NEW u \in Users, Create(u) PROVE LoginsSound'
  BY <1>1, LoginsUntouched DEF Create, callVars, history
<1>2. ASSUME NEW r \in Roles, CreateRole(r) \/ DeleteRole(r) PROVE LoginsSound'
  BY <1>2, LoginsUntouched DEF CreateRole, DeleteRole, callVars, history
<1>5. ASSUME NEW c \in Callers, Returns(c), UNCHANGED <<logins, linked>>,
             stage[c] # "point"
      PROVE  LoginsSound'
  <2>1. /\ stage'[c] = "idle"
        /\ \A d \in Callers \ {c} : stage'[d] = stage[d] /\ call'[d] = call[d]
    BY <1>5, <1>t DEF Returns, Goes, TypeOK
  <2> QED BY <1>5, <1>g, <2>1, LoginsUntouched
<1>6. ASSUME NEW c \in Callers, Goes(c, "update"), stage[c] # "point",
             UNCHANGED <<logins, linked, call>>
      PROVE  LoginsSound'
  <2>1. /\ stage'[c] = "update"
        /\ \A d \in Callers \ {c} : stage'[d] = stage[d]
    BY <1>6, <1>t DEF Goes, TypeOK
  <2> QED BY <1>6, <1>g, <2>1, LoginsUntouched
<1>3. ASSUME NEW c \in Callers, NEW u \in Users, NEW k \in CallsOf(u), Begin(c, k)
      PROVE  LoginsSound'
  <2>1. \A d \in Callers \ {c} : stage'[d] = stage[d] /\ call'[d] = call[d]
    BY <1>3, <1>t DEF Begin, Goes, TypeOK
  <2>2. /\ call'[c] = k /\ stage'[c] \in {"check", "change"}
        /\ k.name = "AddLogin" => stage'[c] = "check"
    BY <1>3, <1>t DEF Begin, Goes, TypeOK
  <2>3. UNCHANGED <<logins, linked, contended>> /\ stage[c] = "idle"
    BY <1>3 DEF Begin, store, history
  <2>4. \A v \in Users, l \in Logins : Halfway(v, l)' <=> Halfway(v, l)
    BY <2>1, <2>2, <2>3 DEF Halfway
  <2>5. ListsAgree'
    BY <2>3, <2>4 DEF LoginsSound, ListsAgree, Quiet
  <2>6. k.name = "RemoveLogin" => linked[k.user][k.login] > 0
    BY <1>3 DEF Begin, Sensible
  <2>7. FindingsHold'
    <3> SUFFICES ASSUME NEW d \in Callers, NEW v \in Users, NEW l \in Logins,
                        Changing(d, v, l)', Quiet(<<"login", l>>), Relying(d)',
                        call'[d].name \in {"AddLogin", "RemoveLogin"}
                 PROVE  /\ call'[d].name = "AddLogin" => logins[l] = Nobody
                        /\ call'[d].name = "AddLogin" /\ stage'[d] = "point" =>
                             OnlyOne(v, l) /\ linked[v][l] = 1
                        /\ call'[d].name = "RemoveLogin" => OnlyOne(v, l)
                        /\ call'[d].name = "RemoveLogin" /\ stage'[d] = "point" => linked[v][l] = 0
      BY <2>3 DEF FindingsHold, OnlyOne, Relying, Quiet
    <3>1. CASE d # c
      BY <2>1, <3>1 DEF LoginsSound, FindingsHold, Changing, Relying
    <3>2. CASE d = c
      <4>1. k.name = "RemoveLogin" /\ stage'[c] = "change" /\ k.user = v /\ k.login = l
        BY <2>2, <3>2 DEF Changing, Relying
      <4>2. OnlyOne(v, l)
        BY <2>6, <4>1, Sole
      <4> QED BY <2>2, <3>2, <4>1, <4>2
    <3> QED BY <3>1, <3>2
  <2> QED BY <2>5, <2>7 DEF LoginsSound
<1>4. ASSUME NEW c \in Callers, Check(c) PROVE LoginsSound'
  <2>1. /\ \A d \in Callers \ {c} : stage'[d] = stage[d] /\ call'[d] = call[d]
        /\ UNCHANGED <<logins, linked, contended>> /\ stage[c] = "check"
    BY <1>4, <1>t DEF Check, Returns, Goes, store, history, TypeOK
  <2>2. CASE ~MayProceed(call[c])
    BY <1>4, <1>5, <2>1, <2>2 DEF Check
  <2>3. CASE MayProceed(call[c])
    <3>1. call'[c] = call[c] /\ stage'[c] = "change"
      BY <1>4, <1>t, <2>3 DEF Check, Goes, TypeOK
    <3>2. call[c].name # "RemoveLogin"
      BY <2>1 DEF Typed, Underway
    <3>3. call[c].name = "AddLogin" => logins[call[c].login] = Nobody
      BY <2>3 DEF MayProceed
    <3>4. \A v \in Users, l \in Logins : Halfway(v, l)' <=> Halfway(v, l)
      BY <2>1, <3>1 DEF Halfway
    <3>5. ListsAgree'
      BY <2>1, <3>4 DEF LoginsSound, ListsAgree, Quiet
    <3>6. ASSUME NEW d \in Callers, NEW v \in Users, NEW l \in Logins,
                 Changing(d, v, l)', Quiet(<<"login", l>>), Relying(d)',
                 call'[d].name \in {"AddLogin", "RemoveLogin"}
          PROVE  /\ call'[d].name = "AddLogin" => logins[l] = Nobody
                 /\ call'[d].name = "AddLogin" /\ stage'[d] = "point" =>
                      OnlyOne(v, l) /\ linked[v][l] = 1
                 /\ call'[d].name = "RemoveLogin" => OnlyOne(v, l)
                 /\ call'[d].name = "RemoveLogin" /\ stage'[d] = "point" => linked[v][l] = 0
      <4>1. CASE d # c
        BY <2>1, <3>6, <4>1 DEF LoginsSound, FindingsHold, Changing, Relying
      <4>2. CASE d = c
        BY <3>1, <3>2, <3>3, <3>6, <4>2 DEF Changing
      <4> QED BY <4>1, <4>2
    <3>7. FindingsHold'
      BY <2>1, <3>6 DEF FindingsHold, OnlyOne, Relying, Quiet
    <3> QED BY <3>5, <3>7 DEF LoginsSound
  <2> QED BY <2>2, <2>3
<1>7. ASSUME NEW c \in Callers, NEW u \in Users, NEW l \in Logins, AddLogin(c, u, l)
      PROVE  LoginsSound'
  <2>1. /\ stage[c] = "change" /\ call[c].name = "AddLogin"
        /\ Changing(c, u, l) /\ call[c].login = l
        /\ linked' = [linked EXCEPT ![u][l] = @ + 1] /\ logins' = logins
        /\ Goes(c, "point") /\ Writes(c) /\ UNCHANGED call
    BY <1>7 DEF AddLogin, Changing
  <2>2. /\ linked'[u][l] = linked[u][l] + 1
        /\ \A v \in Users, m \in Logins : v # u \/ m # l => linked'[v][m] = linked[v][m]
        /\ stage'[c] = "point" /\ \A d \in Callers \ {c} : stage'[d] = stage[d]
    BY <1>t, <2>1 DEF TypeOK, Goes
  <2>3. ASSUME Quiet(<<"login", l>>)'
        PROVE  /\ \A d \in Callers \ {c} : Relying(d)
                    /\ call[d].name \in {"AddLogin", "RemoveLogin"} => call[d].login # l
               /\ logins[l] = Nobody /\ \A v \in Users : linked[v][l] = 0
    <3>1. \A d \in Callers \ {c} : Relying(d)
            /\ call[d].name \in {"AddLogin", "RemoveLogin"} => call[d].login # l
      BY <2>1, <2>3, Disturbs
    <3>2. Quiet(<<"login", l>>)
      BY <1>g, <2>3 DEF Quiet
    <3>3. logins[l] = Nobody
      BY <2>1, <3>2 DEF LoginsSound, FindingsHold, Relying
    <3>4. \A d \in Callers : stage[d] = "point" => call[d].login # l
      BY <2>1, <3>1 DEF Relying, Typed, Underway
    <3> QED BY <3>1, <3>2, <3>3, <3>4, Free
  <2>4. Halfway(u, l)'
    BY <2>1, <2>2 DEF Halfway, Changing
  <2>5. ASSUME NEW v \in Users, Quiet(<<"login", l>>)'
        PROVE  /\ ~Halfway(v, l)' => linked'[v][l] = (IF logins'[l] = v THEN 1 ELSE 0)
               /\ linked'[v][l] > 0 => linked'[v][l] = 1 /\ logins'[l] \in {v, Nobody}
    BY <2>1, <2>2, <2>3, <2>4, <2>5, NobodyAssumption
  <2>6. ListsAgree'
    <3> SUFFICES ASSUME NEW v \in Users, NEW m \in Logins, Quiet(<<"login", m>>)'
                 PROVE  /\ ~Halfway(v, m)' => linked'[v][m] = (IF logins'[m] = v THEN 1 ELSE 0)
                        /\ linked'[v][m] > 0 => linked'[v][m] = 1 /\ logins'[m] \in {v, Nobody}
      BY DEF ListsAgree
    <3>1. CASE m = l
      BY <2>5, <3>1
    <3>2. CASE m # l
      BY <1>g, <2>1, <2>2, <3>2, OtherLogins
    <3> QED BY <3>1, <3>2
  <2>7. FindingsHold'
    <3> SUFFICES ASSUME NEW d \in Callers, NEW v \in Users, NEW m \in Logins,
                        Changing(d, v, m), Quiet(<<"login", m>>)'
                 PROVE  /\ call[d].name = "AddLogin" /\ Relying(d)' => logins'[m] = Nobody
                        /\ call[d].name = "AddLogin" /\ stage'[d] = "point" =>
                             OnlyOne(v, m)' /\ linked'[v][m] = 1
                        /\ call[d].name = "RemoveLogin" /\ Relying(d)' => OnlyOne(v, m)'
                        /\ call[d].name = "RemoveLogin" /\ stage'[d] = "point" => linked'[v][m] = 0
      BY <2>1 DEF FindingsHold, Changing
    <3>1. CASE m # l
      BY <1>g, <2>1, <2>2, <3>1, OtherLogins
    <3>2. CASE m = l /\ d # c
      BY <2>2, <2>3, <3>2 DEF Changing, Relying
    <3>3. CASE m = l /\ d = c
      BY <2>1, <2>2, <2>3, <3>3 DEF Changing, OnlyOne
    <3> QED BY <3>1, <3>2, <3>3
  <2> QED BY <2>6, <2>7 DEF LoginsSound
<1>8. ASSUME NEW c \in Callers, NEW u \in Users, NEW l \in Logins, RemoveLogin(c, u, l)
      PROVE  LoginsSound'
  <2>1. CASE linked[u][l] > 1
    BY <1>5, <1>8, <2>1 DEF RemoveLogin
  <2>2. CASE ~(linked[u][l] > 1)
    <3>1. /\ stage[c] = "change" /\ call[c].name = "RemoveLogin"
          /\ Changing(c, u, l) /\ call[c].login = l
          /\ linked' = [linked EXCEPT ![u][l] = 0] /\ logins' = logins
          /\ Goes(c, "point") /\ Writes(c) /\ UNCHANGED call
      BY <1>8, <2>2 DEF RemoveLogin, Changing
    <3>2. /\ linked'[u][l] = 0
          /\ \A v \in Users, m \in Logins : v # u \/ m # l => linked'[v][m] = linked[v][m]
          /\ stage'[c] = "point" /\ \A d \in Callers \ {c} : stage'[d] = stage[d]
      BY <1>t, <3>1 DEF TypeOK, Goes
    <3>3. ASSUME Quiet(<<"login", l>>)'
          PROVE  /\ \A d \in Callers : Relying(d) /\ call[d].login = l
                      => call[d].name # "AddLogin"
                 /\ logins[l] \in {u, Nobody} /\ \A v \in Users : linked'[v][l] = 0
      <4>1. \A d \in Callers : Relying(d) /\ call[d].login = l => call[d].name # "AddLogin"
        BY <3>1, <3>3, Disturbs
      <4>2. OnlyOne(u, l)
        BY <1>g, <3>1, <3>3 DEF Quiet, LoginsSound, FindingsHold, Relying
      <4> QED BY <3>2, <4>1, <4>2 DEF OnlyOne
    <3>4. Halfway(u, l)'
      BY <3>1, <3>2 DEF Halfway, Changing
    <3>5. ListsAgree'
      <4> SUFFICES ASSUME NEW v \in Users, NEW m \in Logins, Quiet(<<"login", m>>)'
                   PROVE  /\ ~Halfway(v, m)' => linked'[v][m] = (IF logins'[m] = v THEN 1 ELSE 0)
                          /\ linked'[v][m] > 0 => linked'[v][m] = 1 /\ logins'[m] \in {v, Nobody}
        BY DEF ListsAgree
      <4>1. CASE m = l
        BY <3>1, <3>3, <3>4, <4>1, NobodyAssumption
      <4>2. CASE m # l
        BY <1>g, <3>1, <3>2, <4>2, OtherLogins
      <4> QED BY <4>1, <4>2
    <3>6. FindingsHold'
      <4> SUFFICES ASSUME NEW d \in Callers, NEW v \in Users, NEW m \in Logins,
                          Changing(d, v, m), Quiet(<<"login", m>>)'
                   PROVE  /\ call[d].name = "AddLogin" /\ Relying(d)' => logins'[m] = Nobody
                          /\ call[d].name = "AddLogin" /\ stage'[d] = "point" =>
                               OnlyOne(v, m)' /\ linked'[v][m] = 1
                          /\ call[d].name = "RemoveLogin" /\ Relying(d)' => OnlyOne(v, m)'
                          /\ call[d].name = "RemoveLogin" /\ stage'[d] = "point" => linked'[v][m] = 0
        BY <3>1 DEF FindingsHold, Changing
      <4>1. CASE m # l
        BY <1>g, <3>1, <3>2, <4>1, OtherLogins
      <4>2. CASE m = l /\ d # c
        <5>1. Relying(d)' => Relying(d) /\ call[d].name # "AddLogin"
          BY <3>2, <3>3, <4>2 DEF Changing, Relying
        <5>2. call[d].name = "RemoveLogin" /\ Relying(d) => logins[l] \in {v, Nobody}
          BY <1>g, <4>2 DEF Quiet, LoginsSound, FindingsHold, OnlyOne
        <5> QED BY <3>1, <3>3, <4>2, <5>1, <5>2 DEF OnlyOne, Relying
      <4>3. CASE m = l /\ d = c
        BY <3>1, <3>3, <4>3 DEF Changing, OnlyOne
      <4> QED BY <4>1, <4>2, <4>3
    <3> QED BY <3>5, <3>6 DEF LoginsSound
  <2> QED BY <2>1, <2>2
<1>p. ASSUME NEW c \in Callers, NEW u \in Users, NEW l \in Logins, Point(c, u, l)
      PROVE  LoginsSound'
  <2>1. /\ stage[c] = "point" /\ call[c].name \in {"AddLogin", "RemoveLogin"}
        /\ Changing(c, u, l) /\ call[c].login = l /\ linked' = linked
        /\ logins' = [logins EXCEPT ![l] = IF call[c].name = "AddLogin" THEN u ELSE Nobody]
        /\ Goes(c, "update") /\ Writes(c) /\ UNCHANGED call
    BY <1>p DEF Point, Changing, Typed, Underway
  <2>2. /\ logins'[l] = (IF call[c].name = "AddLogin" THEN u ELSE Nobody)
        /\ \A m \in Logins \ {l} : logins'[m] = logins[m]
        /\ stage'[c] = "update" /\ \A d \in Callers \ {c} : stage'[d] = stage[d]
    BY <1>t, <2>1 DEF TypeOK, Goes
  <2>3. ASSUME Quiet(<<"login", l>>)'
        PROVE  /\ \A d \in Callers \ {c} : Relying(d) /\ call[d].login = l
                      /\ call[d].name \in {"AddLogin", "RemoveLogin"} =>
                    call[c].name = "RemoveLogin" /\ call[d].name = "RemoveLogin"
               /\ \A v \in Users : linked[v][l] = IF logins'[l] = v THEN 1 ELSE 0
    <3>1. \A d \in Callers \ {c} : Relying(d) /\ call[d].login = l
                      /\ call[d].name \in {"AddLogin", "RemoveLogin"} =>
                    call[c].name = "RemoveLogin" /\ call[d].name = "RemoveLogin"
      BY <2>1, <2>3, Disturbs
    <3>2. OnlyOne(u, l) /\ (call[c].name = "AddLogin" => linked[u][l] = 1)
            /\ (call[c].name = "RemoveLogin" => linked[u][l] = 0)
      BY <1>g, <2>1, <2>3 DEF Quiet, LoginsSound, FindingsHold, Relying
    <3> QED BY <2>1, <2>2, <3>1, <3>2, NobodyAssumption DEF OnlyOne
  <2>4. ListsAgree'
    <3> SUFFICES ASSUME NEW v \in Users, NEW m \in Logins, Quiet(<<"login", m>>)'
                 PROVE  /\ ~Halfway(v, m)' => linked'[v][m] = (IF logins'[m] = v THEN 1 ELSE 0)
                        /\ linked'[v][m] > 0 => linked'[v][m] = 1 /\ logins'[m] \in {v, Nobody}
      BY DEF ListsAgree
    <3>1. CASE m = l
      BY <2>1, <2>3, <3>1
    <3>2. CASE m # l
      BY <1>g, <2>1, <2>2, <3>2, OtherLogins
    <3> QED BY <3>1, <3>2
  <2>5. FindingsHold'
    <3> SUFFICES ASSUME NEW d \in Callers, NEW v \in Users, NEW m \in Logins,
                        Changing(d, v, m), Quiet(<<"login", m>>)'
                 PROVE  /\ call[d].name = "AddLogin" /\ Relying(d)' => logins'[m] = Nobody
                        /\ call[d].name = "AddLogin" /\ stage'[d] = "point" =>
                             OnlyOne(v, m)' /\ linked'[v][m] = 1
                        /\ call[d].name = "RemoveLogin" /\ Relying(d)' => OnlyOne(v, m)'
                        /\ call[d].name = "RemoveLogin" /\ stage'[d] = "point" => linked'[v][m] = 0
      BY <2>1 DEF FindingsHold, Changing
    <3>1. CASE m # l
      BY <1>g, <2>1, <2>2, <3>1, OtherLogins
    <3>2. CASE m = l /\ d = c
      BY <2>2, <3>2 DEF Relying
    <3>3. CASE m = l /\ d # c /\ call[d].name \in {"AddLogin", "RemoveLogin"} /\ Relying(d)
      <4>1. call[c].name = "RemoveLogin" /\ call[d].name = "RemoveLogin" /\ logins'[l] = Nobody
        BY <2>2, <2>3, <3>3 DEF Changing
      <4>2. \A w \in Users : linked'[w][l] = 0
        BY <2>1, <2>3, <3>3, <4>1, NobodyAssumption
      <4> QED BY <3>3, <4>1, <4>2 DEF OnlyOne
    <3>4. CASE m = l /\ d # c /\ ~(call[d].name \in {"AddLogin", "RemoveLogin"} /\ Relying(d))
      BY <2>2, <3>4 DEF Relying
    <3> QED BY <3>1, <3>2, <3>3, <3>4
  <2> QED BY <2>4, <2>5 DEF LoginsSound
<1>9. ASSUME NEW c \in Callers, NEW u \in Users, NEW r \in Roles,
             AddToRole(c, u, r) \/ RemoveFromRole(c, u, r)
      PROVE  LoginsSound'
  BY <1>5, <1>6, <1>9 DEF AddToRole, RemoveFromRole
<1>10. ASSUME NEW c \in Callers, NEW u \in Users,
              RedeemCode(c, u) \/ GenerateCodes(c, u) \/ SetProperty(c, u) \/ Delete(c, u)
       PROVE  LoginsSound'
  BY <1>5, <1>6, <1>10 DEF RedeemCode, GenerateCodes, SetProperty, Delete, store
<1>11. ASSUME NEW c \in Callers, Update(c) PROVE LoginsSound'
  BY <1>5, <1>11 DEF Update
<1>12. CASE UNCHANGED vars
  BY <1>12, LoginsUntouched DEF vars, store, callVars, history
<1> QED BY <1>1, <1>2, <1>3, <1>4, <1>7, <1>8, <1>p, <1>9, <1>10, <1>11, <1>12 DEF Next

-----------------------------------------------------------------------------
(* The roles, and the users that were deleted.                              *)

\* Whoever has a role in its list, has one that exists or was deleted, and so
\* will not be created again.
RolesKnown == \A u \in Users, r \in Roles : member[u][r] > 0 => r \in roles \cup deleted

\* A call that is about to add a role still adds the first entry, if any, unless
\* another call was about the same role of the user.
AddsFirst ==
  \A c \in Callers :
    stage[c] = "change" /\ call[c].name = "AddToRole"
      /\ Quiet(<<"role", <<call[c].user, call[c].role>>>>) =>
        \/ member[call[c].user][call[c].role] = 0
        \/ call[c].role \in deleted \ roles

RolesSound == RolesKnown /\ AddsFirst /\ RolesCanBeRemoved

\* Calls about a user's role, and no others, are about <<"role", <<u, r>>>>.
LEMMA AboutRole ==
  ASSUME NEW k \in Calls, NEW u \in Users, NEW r \in Roles
  PROVE  <<"role", <<u, r>>>> \in About(k)
           <=> k.name \in {"AddToRole", "RemoveFromRole"} /\ k.user = u /\ k.role = r
<1>1. CASE k = NoCall
  BY <1>1 DEF NoCall, About
<1>2. CASE k \in CallsOf(k.user) /\ k.user \in Users
  BY <1>2, CallNames DEF About
<1> QED BY <1>1, <1>2, CallKinds

LEMMA InitRoles == Init => RolesSound
BY DEF Init, RolesSound, RolesKnown, AddsFirst, RolesCanBeRemoved

\* A step that changes no user's roles, brings no deleted role back and no call
\* that is about to add one.
LEMMA RolesUntouched ==
  ASSUME RolesSound, contended \subseteq contended', UNCHANGED member,
         deleted \subseteq deleted', roles \subseteq roles' \cup deleted',
         roles' \cap deleted \subseteq roles,
         \A c \in Callers : stage'[c] = "change" /\ call'[c].name = "AddToRole" =>
           stage[c] = "change" /\ call'[c] = call[c]
  PROVE  RolesSound'
<1>1. RolesKnown' /\ RolesCanBeRemoved'
  BY DEF RolesSound, RolesKnown, RolesCanBeRemoved, Quiet
<1>2. AddsFirst'
  BY DEF RolesSound, AddsFirst, Quiet
<1> QED BY <1>1, <1>2 DEF RolesSound

LEMMA StepRoles == Typed /\ RolesSound /\ [Next]_vars => RolesSound'
<1> SUFFICES ASSUME Typed, RolesSound, [Next]_vars PROVE RolesSound'
  OBVIOUS
<1>t. TypeOK
  BY DEF Typed
<1>g. contended \subseteq contended'
  BY ContendedGrows
<1>1. ASSUME NEW u \in Users, Create(u) PROVE RolesSound'
  BY <1>1, RolesUntouched DEF Create, callVars, history
<1>2. ASSUME NEW r \in Roles, CreateRole(r) \/ DeleteRole(r) PROVE RolesSound'
  BY <1>2, RolesUntouched DEF CreateRole, DeleteRole, callVars, history
<1>3. ASSUME NEW c \in Callers, NEW u \in Users, NEW k \in CallsOf(u), Begin(c, k)
      PROVE  RolesSound'
  <2>1. \A d \in Callers \ {c} : stage'[d] = stage[d] /\ call'[d] = call[d]
    BY <1>3, <1>t DEF Begin, Goes, TypeOK
  <2>2. call'[c] = k /\ (k.name = "AddToRole" => stage'[c] = "check")
    BY <1>3, <1>t DEF Begin, Goes, TypeOK
  <2> QED BY <1>3, <2>1, <2>2, RolesUntouched DEF Begin, store, history
<1>4. ASSUME NEW c \in Callers, Check(c) PROVE RolesSound'
  <2>1. /\ \A d \in Callers \ {c} : stage'[d] = stage[d] /\ call'[d] = call[d]
        /\ UNCHANGED <<member, roles, deleted, contended>>
    BY <1>4, <1>t DEF Check, Returns, Goes, store, history, TypeOK
  <2>2. CASE ~MayProceed(call[c])
    <3>1. stage'[c] = "idle"
      BY <1>4, <1>t, <2>2 DEF Check, Returns, Goes, TypeOK
    <3> QED BY <2>1, <3>1, RolesUntouched
  <2>3. CASE MayProceed(call[c])
    <3>1. call'[c] = call[c] /\ call[c].user \in Users /\ call[c] \in CallsOf(call[c].user)
      BY <1>4, <2>3, HasUser DEF Check
    <3>2. ASSUME call[c].name = "AddToRole"
          PROVE  \/ member[call[c].user][call[c].role] = 0
                 \/ call[c].role \in deleted \ roles
      <4>1. call[c].role \in Roles
        BY <3>1, <3>2, CallNames
      <4>2. ~IsInRole(call[c].user, call[c].role)
        BY <2>3, <3>2 DEF MayProceed
      <4>3. member[call[c].user][call[c].role] \in Nat
        BY <1>t, <3>1, <4>1, CopiesAssumption DEF TypeOK
      <4> QED BY <3>1, <4>1, <4>2, <4>3 DEF IsInRole, RolesSound, RolesKnown
    <3>3. AddsFirst'
      BY <2>1, <3>1, <3>2 DEF RolesSound, AddsFirst, Quiet
    <3>4. RolesKnown' /\ RolesCanBeRemoved'
      BY <2>1 DEF RolesSound, RolesKnown, RolesCanBeRemoved, Quiet
    <3> QED BY <3>3, <3>4 DEF RolesSound
  <2> QED BY <2>2, <2>3
<1>5. ASSUME NEW c \in Callers, Returns(c), UNCHANGED <<member, roles>>,
             deleted \subseteq deleted'
      PROVE  RolesSound'
  <2>1. /\ stage'[c] = "idle"
        /\ \A d \in Callers \ {c} : stage'[d] = stage[d] /\ call'[d] = call[d]
    BY <1>5, <1>t DEF Returns, Goes, TypeOK
  <2> QED BY <1>5, <1>g, <2>1, RolesUntouched
<1>6. ASSUME NEW c \in Callers, NEW to \in {"point", "update"}, Goes(c, to),
             UNCHANGED <<member, roles, deleted, call>>
      PROVE  RolesSound'
  <2>1. \A d \in Callers : stage'[d] = "change" => stage[d] = "change"
    BY <1>6, <1>t DEF Goes, TypeOK
  <2> QED BY <1>6, <1>g, <2>1, RolesUntouched
<1>7. ASSUME NEW c \in Callers, NEW u \in Users, NEW r \in Roles, stage[c] = "change",
             call[c].user = u, call[c].role = r, Goes(c, "update"),
             UNCHANGED <<roles, deleted, call>>, NEW n \in Nat,
             member' = [member EXCEPT ![u][r] = n],
             n = 0 \/ (r \in roles /\ call[c].name = "AddToRole" /\ Writes(c)),
             Quiet(<<"role", <<u, r>>>>) => n <= 1
      PROVE  RolesSound'
  <2>1. /\ member'[u][r] = n
        /\ \A v \in Users, q \in Roles : v # u \/ q # r => member'[v][q] = member[v][q]
    BY <1>t, <1>7 DEF TypeOK
  <2>a. RolesKnown'
    BY <1>7, <2>1 DEF RolesSound, RolesKnown
  <2>b. RolesCanBeRemoved'
    BY <1>7, <1>g, <2>1 DEF RolesSound, RolesCanBeRemoved, Quiet
  <2>2. RolesKnown' /\ RolesCanBeRemoved'
    BY <2>a, <2>b
  <2>3. ASSUME NEW d \in Callers, stage'[d] = "change", call[d].name = "AddToRole",
               <<"role", <<call[d].user, call[d].role>>>> \notin contended'
        PROVE  \/ member'[call[d].user][call[d].role] = 0
               \/ call[d].role \in deleted \ roles
    <3>1. stage[d] = "change" /\ d # c
      BY <1>7, <1>t, <2>3 DEF Goes, TypeOK
    <3>2. call[d] \in Calls /\ call[c] \in Calls /\ call[d].user \in Users
      BY <1>t, <3>1, HasUser DEF TypeOK
    <3>3. call[d].role \in Roles
      BY <2>3, <3>1, HasUser, CallNames
    <3>4. CASE call[d].user = u /\ call[d].role = r /\ n # 0
      <4>1. <<"role", <<u, r>>>> \in About(call[c]) \cap About(call[d])
        BY <1>7, <2>3, <3>2, <3>4, AboutRole
      <4>2. Relying(d) /\ Upsets(call[c], call[d])
        BY <1>7, <2>3, <3>1, <3>4 DEF Relying, Upsets
      <4>3. <<"role", <<u, r>>>> \in Overlapped(c)
        BY <3>1, <4>1, <4>2 DEF Overlapped
      <4> QED BY <1>7, <2>3, <3>4, <4>3 DEF Writes
    <3>5. CASE ~(call[d].user = u /\ call[d].role = r)
      BY <1>g, <2>1, <2>3, <3>1, <3>2, <3>3, <3>5 DEF RolesSound, AddsFirst, Quiet
    <3>6. CASE call[d].user = u /\ call[d].role = r /\ n = 0
      BY <2>1, <3>6
    <3> QED BY <3>4, <3>5, <3>6
  <2>4. AddsFirst'
    BY <1>7, <2>3 DEF AddsFirst, Quiet
  <2> QED BY <2>2, <2>4 DEF RolesSound
<1>8. ASSUME NEW c \in Callers, NEW u \in Users, NEW r \in Roles, AddToRole(c, u, r)
      PROVE  RolesSound'
  <2>1. /\ stage[c] = "change" /\ call[c].name = "AddToRole"
        /\ call[c].user = u /\ call[c].role = r /\ Goes(c, "update") /\ Writes(c)
        /\ UNCHANGED <<roles, deleted, call>>
    BY <1>8 DEF AddToRole
  <2>2. CASE r \notin roles
    BY <1>6, <1>8, <2>1, <2>2 DEF AddToRole
  <2>3. CASE r \in roles
    <3>1. member[u][r] + 1 \in Nat
      BY <1>t, CopiesAssumption DEF TypeOK
    <3>2. member' = [member EXCEPT ![u][r] = member[u][r] + 1]
      BY <1>8, <2>3 DEF AddToRole
    <3>3. Quiet(<<"role", <<u, r>>>>) => member[u][r] + 1 <= 1
      BY <2>1, <2>3 DEF RolesSound, AddsFirst
    <3> QED BY <1>7, <2>1, <2>3, <3>1, <3>2, <3>3
  <2> QED BY <2>2, <2>3
<1>9. ASSUME NEW c \in Callers, NEW u \in Users, NEW r \in Roles, RemoveFromRole(c, u, r)
      PROVE  RolesSound'
  <2>1. CASE r \notin roles \/ member[u][r] > 1
    BY <1>5, <1>9, <2>1 DEF RemoveFromRole, history
  <2>2. CASE ~(r \notin roles \/ member[u][r] > 1)
    <3>1. /\ stage[c] = "change" /\ call[c].name = "RemoveFromRole"
          /\ call[c].user = u /\ call[c].role = r /\ Goes(c, "update")
          /\ UNCHANGED <<roles, deleted, call>>
          /\ member' = [member EXCEPT ![u][r] = 0]
      BY <1>9, <2>2 DEF RemoveFromRole, history
    <3>2. 0 \in Nat /\ 0 <= 1
      OBVIOUS
    <3>3. \/ 0 = 0
          \/ r \in roles /\ call[c].name = "AddToRole" /\ Writes(c)
      OBVIOUS
    <3> QED BY <1>7, <3>1, <3>2, <3>3
  <2> QED BY <2>1, <2>2
<1>10. ASSUME NEW c \in Callers, NEW u \in Users, NEW l \in Logins,
              AddLogin(c, u, l) \/ RemoveLogin(c, u, l) \/ Point(c, u, l)
       PROVE  RolesSound'
  BY <1>5, <1>6, <1>10 DEF AddLogin, RemoveLogin, Point, history
<1>11. ASSUME NEW c \in Callers, NEW u \in Users,
              RedeemCode(c, u) \/ GenerateCodes(c, u) \/ SetProperty(c, u) \/ Delete(c, u)
       PROVE  RolesSound'
  BY <1>5, <1>6, <1>11 DEF RedeemCode, GenerateCodes, SetProperty, Delete, store, history
<1>12. ASSUME NEW c \in Callers, Update(c) PROVE RolesSound'
  BY <1>5, <1>12 DEF Update, history
<1>13. CASE UNCHANGED vars
  BY <1>13, RolesUntouched DEF vars, store, callVars, history
<1> QED BY <1>1, <1>2, <1>3, <1>4, <1>8, <1>9, <1>10, <1>11, <1>12, <1>13 DEF Next

\* A user that departed is in the dictionary no more, no login leads to it and
\* no call holds it.
Gone ==
  \A u \in departed :
    /\ u \in deleted \ users
    /\ \A l \in Logins : linked[u][l] = 0 /\ logins[l] # u
    /\ \A c \in Callers : call[c] = NoCall \/ call[c].user # u

LEMMA InitGone == Init => Gone
BY DEF Init, Gone

\* A step that deletes nobody departs nobody: it adds no user but the one a call
\* holds or a new one, gives a login only to the user a call holds, and begins a
\* call only for a user that can be found.
LEMMA GoneStays ==
  ASSUME Gone, UNCHANGED departed, deleted \subseteq deleted',
         \A u \in departed : /\ u \notin users'
                             /\ \A l \in Logins : linked'[u][l] = 0 /\ logins'[l] # u
                             /\ \A c \in Callers : call'[c] = NoCall \/ call'[c].user # u
  PROVE  Gone'
BY DEF Gone

LEMMA StepGone == Typed /\ LoginsSound /\ Gone /\ [Next]_vars => Gone'
<1> SUFFICES ASSUME Typed, LoginsSound, Gone, [Next]_vars PROVE Gone'
  OBVIOUS
<1>t. TypeOK
  BY DEF Typed
<1>n. \A c \in Callers : stage[c] # "idle" => call[c].user \notin departed
  BY DEF Gone, Typed, Underway
<1>1. ASSUME NEW u \in Users, Create(u) PROVE Gone'
  BY <1>1 DEF Gone, Create, callVars, history
<1>2. ASSUME NEW r \in Roles, CreateRole(r) \/ DeleteRole(r) PROVE Gone'
  BY <1>2 DEF Gone, CreateRole, DeleteRole, callVars, history
<1>3. ASSUME NEW c \in Callers, NEW u \in Users, NEW k \in CallsOf(u), Begin(c, k)
      PROVE  Gone'
  <2>1. k.user = u
    BY CallNames
  <2>2. u \notin departed
    BY <1>3, <2>1, <1>t DEF Begin, Findable, Gone, TypeOK
  <2>3. \A d \in Callers : call'[d] = IF d = c THEN k ELSE call[d]
    BY <1>3, <1>t DEF Begin, TypeOK
  <2> QED BY <1>3, <2>1, <2>2, <2>3, GoneStays DEF Gone, Begin, store, history
<1>4. ASSUME NEW c \in Callers, Returns(c), UNCHANGED <<users, logins, linked, departed>>,
             deleted \subseteq deleted'
      PROVE  Gone'
  <2>1. \A d \in Callers : call'[d] = IF d = c THEN NoCall ELSE call[d]
    BY <1>4, <1>t DEF Returns, TypeOK
  <2> QED BY <1>4, <2>1, GoneStays DEF Gone
<1>5. ASSUME NEW c \in Callers, UNCHANGED <<users, logins, linked, departed, deleted, call>>
      PROVE  Gone'
  BY <1>5 DEF Gone
<1>6. ASSUME NEW c \in Callers, Check(c) PROVE Gone'
  BY <1>4, <1>5, <1>6 DEF Check, store, history
<1>7. ASSUME NEW c \in Callers, Update(c) PROVE Gone'
  <2>1. call[c].user \notin departed
    BY <1>7, <1>n DEF Update
  <2>2. \A d \in Callers : call'[d] = IF d = c THEN NoCall ELSE call[d]
    BY <1>7, <1>t DEF Update, Returns, TypeOK
  <2>3. /\ users' = users \cup {call[c].user}
        /\ UNCHANGED <<logins, linked, deleted, departed>>
    BY <1>7 DEF Update, history
  <2> QED BY <2>1, <2>2, <2>3, GoneStays DEF Gone
<1>8. ASSUME NEW c \in Callers, NEW u \in Users, NEW l \in Logins, AddLogin(c, u, l)
      PROVE  Gone'
  <2>1. u \notin departed
    BY <1>8, <1>n DEF AddLogin
  <2>2. \A v \in Users \ {u} : linked'[v] = linked[v]
    BY <1>8, <1>t DEF AddLogin, TypeOK
  <2> QED BY <1>8, <2>1, <2>2, <1>t DEF Gone, AddLogin, TypeOK
<1>9. ASSUME NEW c \in Callers, NEW u \in Users, NEW l \in Logins, RemoveLogin(c, u, l)
      PROVE  Gone'
  <2>1. CASE linked[u][l] > 1
    BY <1>4, <1>9, <2>1 DEF RemoveLogin
  <2>2. CASE ~(linked[u][l] > 1)
    <3>1. /\ linked' = [linked EXCEPT ![u][l] = 0]
          /\ UNCHANGED <<users, logins, call, deleted, departed>>
      BY <1>9, <2>2 DEF RemoveLogin
    <3>2. \A v \in Users, m \in Logins : linked'[v][m] = linked[v][m] \/ linked'[v][m] = 0
      BY <1>t, <3>1 DEF TypeOK
    <3> QED BY <1>t, <3>1, <3>2 DEF Gone, TypeOK
  <2> QED BY <2>1, <2>2
<1>p. ASSUME NEW c \in Callers, NEW u \in Users, NEW l \in Logins, Point(c, u, l)
      PROVE  Gone'
  <2>1. u \notin departed
    BY <1>p, <1>n DEF Point
  <2>2. \A m \in Logins : logins'[m] \in {logins[m], u, Nobody}
    BY <1>p, <1>t DEF Point, TypeOK
  <2> QED BY <1>p, <2>1, <2>2, <1>t, NobodyAssumption DEF Gone, Point, TypeOK
<1>10. ASSUME NEW c \in Callers, NEW u \in Users, NEW r \in Roles,
              AddToRole(c, u, r) \/ RemoveFromRole(c, u, r)
       PROVE  Gone'
  BY <1>4, <1>5, <1>10 DEF AddToRole, RemoveFromRole, history
<1>11. ASSUME NEW c \in Callers, NEW u \in Users,
              RedeemCode(c, u) \/ GenerateCodes(c, u) \/ SetProperty(c, u)
       PROVE  Gone'
  BY <1>5, <1>11 DEF RedeemCode, GenerateCodes, SetProperty, store, history
<1>12. ASSUME NEW c \in Callers, NEW u \in Users, Delete(c, u) PROVE Gone'
  <2>1. \A d \in Callers : call'[d] = IF d = c THEN NoCall ELSE call[d]
    BY <1>12, <1>t DEF Delete, Returns, TypeOK
  <2>2. /\ users' = users \ {u} /\ linked' = linked /\ logins' = logins
        /\ deleted \subseteq deleted' /\ (u \in users => u \in deleted')
    BY <1>12 DEF Delete
  <2>3. CASE departed' = departed
    BY <2>1, <2>2, <2>3 DEF Gone
  <2>4. CASE departed' # departed
    <3>1. /\ u \in users /\ ~HeldByAnother(c, u)
          /\ \A l \in Logins : linked[u][l] = 0 /\ Quiet(<<"login", l>>)
          /\ departed' = departed \cup {u}
      BY <1>12, <2>4 DEF Delete
    <3>2. \A d \in Callers : call'[d] = NoCall \/ call'[d].user # u
      BY <2>1, <3>1 DEF HeldByAnother
    <3>l. ASSUME NEW l \in Logins PROVE logins[l] # u
      <4>1. ~Halfway(u, l)
        BY <1>12, <3>1 DEF Halfway, HeldByAnother, Delete, Typed, Underway
      <4>2. linked[u][l] = (IF logins[l] = u THEN 1 ELSE 0)
        BY <3>1, <4>1 DEF LoginsSound, ListsAgree
      <4>3. linked[u][l] = 0
        BY <3>1
      <4> QED BY <4>2, <4>3
    <3>3. ASSUME NEW v \in departed PROVE /\ v \in deleted' \ users'
                                          /\ \A l \in Logins : linked'[v][l] = 0 /\ logins'[l] # v
                                          /\ \A d \in Callers : call'[d] = NoCall \/ call'[d].user # v
      BY <2>1, <2>2 DEF Gone
    <3> QED BY <2>2, <3>1, <3>2, <3>l, <3>3 DEF Gone
  <2> QED BY <2>3, <2>4
<1>13. CASE UNCHANGED vars
  BY <1>13 DEF Gone, vars, store, callVars, history
<1> QED BY <1>1, <1>2, <1>3, <1>6, <1>7, <1>8, <1>9, <1>p, <1>10, <1>11, <1>12, <1>13 DEF Next

(* However many requests there are: lists and dictionary agree on a login,  *)
(* and no role is there twice, as far as no call changed it under another   *)
(* that relied on it; and a user that departed stays away.                  *)
THEOREM LinksStayInStep == Spec => []LinksAgree
<1> DEFINE Sound == Typed /\ LoginsSound /\ RolesSound /\ Gone
<1>1. Init => Sound
  BY InitTyped, InitLogins, InitRoles, InitGone
<1>2. Sound /\ [Next]_vars => Sound'
  BY StepTyped, StepLogins, StepRoles, StepGone
<1>3. Sound => LinksAgree
  BY DEF LinksAgree, LoginsAgree, RolesCanBeRemoved, DeletedUsersStayAway,
         LoginsSound, ListsAgree, RolesSound, Gone
<1> QED BY <1>1, <1>2, <1>3, PTL DEF Spec
=============================================================================

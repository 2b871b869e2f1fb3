--------------------------- MODULE IdentityStore ----------------------------
(***************************************************************************)
(* The in-memory store of ASP.NET Identity (InMemoryStore): a singleton    *)
(* with a dictionary of users, one of logins and one of roles, and live    *)
(* user objects that carry their own lists of logins, roles and recovery   *)
(* codes.                                                                  *)
(*                                                                         *)
(* The UserManager, which is ASP.NET's, turns a call into several calls of *)
(* the store: a check, the change, and UpdateAsync, which puts the user    *)
(* into the dictionary.  Requests run on threads of their own and nothing  *)
(* is locked, so a step here is one change of one shared collection: a     *)
(* login goes into the user's list in one step and into the dictionary in  *)
(* another, and other requests run in between.                             *)
(***************************************************************************)
EXTENDS Naturals, FiniteSets

CONSTANTS
  Callers,    \* requests in flight
  Users,      \* user objects; each has an Id of its own
  Logins,     \* (loginProvider, providerKey)
  Roles,      \* role objects; each has an Id of its own
  Copies,     \* bound: entries for one login or role in a user's list
  Issues,     \* bound: how often a user's recovery codes are replaced
  Nobody      \* null

ASSUME CopiesAssumption == Copies \in Nat \ {0}
ASSUME IssuesAssumption == Issues \in Nat
ASSUME NobodyAssumption == Nobody \notin Users

(* The codes of an issue: two, none of which has been used before.  Blank   *)
(* is the empty string, which a caller may hand in as a code.               *)
Codes    == (1 .. Issues) \X {1, 2}
Issue(n) == {n} \X {1, 2}
Blank    == <<0, 0>>

(* The token holds the codes as one string.  Split, a string with no codes  *)
(* in it, or a missing one, is a list of one empty code; joined again, what *)
(* is left of that list is the empty string.                                *)
Split(token) == IF token = {} THEN {Blank} ELSE token

(* What a call is about.                                                    *)
Topics ==
  ({"login"} \X Logins) \cup ({"codes"} \X Users)
    \cup ({"role"} \X (Users \X Roles))

CallsOf(u) ==
  [name : {"AddLogin", "RemoveLogin"}, user : {u}, login : Logins]
    \cup [name : {"AddToRole", "RemoveFromRole"}, user : {u}, role : Roles]
    \cup [name : {"RedeemCode"}, user : {u}, code : Codes \cup {Blank}]
    \cup [name : {"GenerateCodes", "SetProperty", "Delete"}, user : {u}]

NoCall == [name |-> "none"]
Calls  == (UNION {CallsOf(u) : u \in Users}) \cup {NoCall}
Stages == {"idle", "check", "change", "point", "update"}

VARIABLES
  users,      \* _users: the objects in the dictionary
  logins,     \* _logins: login -> its user, or null
  roles,      \* _roles: the roles in the dictionary
  linked,     \* user -> login -> entries in user.Logins
  member,     \* user -> role -> entries in user.Roles
  codes,      \* user -> recovery codes in its token
  call,       \* caller -> its call
  stage,      \* caller -> where it is
  read,       \* caller -> the codes it has read
  issued,     \* history: user -> issues of codes so far
  unspent,    \* history: user -> codes issued last and not accepted since
  deleted,    \* history: users and roles that were deleted
  departed,   \* history: users deleted while they had no login and no call held them
  contended   \* history: topics a call changed under another that relied on them

store    == <<users, logins, roles, linked, member, codes>>
callVars == <<call, stage, read>>
history  == <<issued, unspent, deleted, departed, contended>>
vars     == <<store, callVars, history>>

TypeOK ==
  /\ users \subseteq Users
  /\ logins \in [Logins -> Users \cup {Nobody}]
  /\ roles \subseteq Roles
  /\ linked \in [Users -> [Logins -> 0 .. Copies]]
  /\ member \in [Users -> [Roles -> 0 .. Copies]]
  /\ codes \in [Users -> SUBSET Codes]
  /\ call \in [Callers -> Calls]
  /\ stage \in [Callers -> Stages]
  /\ read \in [Callers -> SUBSET Codes]
  /\ issued \in [Users -> 0 .. Issues]
  /\ unspent \in [Users -> SUBSET Codes]
  /\ deleted \subseteq Users \cup Roles
  /\ departed \subseteq Users
  /\ contended \subseteq Topics

Init ==
  /\ users = {}
  /\ logins = [l \in Logins |-> Nobody]
  /\ roles = {}
  /\ linked = [u \in Users |-> [l \in Logins |-> 0]]
  /\ member = [u \in Users |-> [r \in Roles |-> 0]]
  /\ codes = [u \in Users |-> {}]
  /\ call = [c \in Callers |-> NoCall]
  /\ stage = [c \in Callers |-> "idle"]
  /\ read = [c \in Callers |-> {}]
  /\ issued = [u \in Users |-> 0]
  /\ unspent = [u \in Users |-> {}]
  /\ deleted = {}
  /\ departed = {}
  /\ contended = {}

-----------------------------------------------------------------------------
Goes(c, to) == stage' = [stage EXCEPT ![c] = to]

(* The call is over, with a result or an exception.                         *)
Returns(c) ==
  /\ Goes(c, "idle")
  /\ call' = [call EXCEPT ![c] = NoCall]
  /\ read' = [read EXCEPT ![c] = {}]

About(k) ==
  CASE k.name \in {"AddLogin", "RemoveLogin"} ->
         {<<"login", k.login>>}
    [] k.name \in {"AddToRole", "RemoveFromRole"} ->
         {<<"role", <<k.user, k.role>>>>}
    [] k.name \in {"RedeemCode", "GenerateCodes"} ->
         {<<"codes", k.user>>}
    [] OTHER -> {}

(* A write of call j about the same thing may undo what call k relies on: a *)
(* redemption on the codes it has read, an addition on the absence of an    *)
(* entry, a removal of a login on nobody adding it again.                   *)
Upsets(j, k) ==
  \/ k.name = "RedeemCode"
  \/ k.name \in {"AddLogin", "AddToRole"} /\ j.name = k.name
  \/ {j.name, k.name} = {"AddLogin", "RemoveLogin"}

(* A call relies on what it has seen until its own writes are done.         *)
Relying(c) == stage[c] \in {"change", "point"}

(* What caller c, which writes, changes under others.                       *)
Overlapped(c) ==
  UNION {About(call[c]) \cap About(call[d]) :
           d \in {e \in Callers \ {c} : Relying(e) /\ Upsets(call[c], call[e])}}

Writes(c) == contended' = contended \cup Overlapped(c)

-----------------------------------------------------------------------------
(* CreateAsync puts a new user into the dictionary.                         *)
Create(u) ==
  /\ u \notin users \cup deleted
  /\ users' = users \cup {u}
  /\ UNCHANGED <<logins, roles, linked, member, codes, callVars, history>>

CreateRole(r) ==
  /\ r \notin roles \cup deleted
  /\ roles' = roles \cup {r}
  /\ UNCHANGED <<users, logins, linked, member, codes, callVars, history>>

(* DeleteAsync(role) leaves the users' entries for it behind.               *)
DeleteRole(r) ==
  /\ r \in roles
  /\ roles' = roles \ {r}
  /\ deleted' = deleted \cup {r}
  /\ UNCHANGED <<users, logins, linked, member, codes, callVars,
                 issued, unspent, departed, contended>>

(* A caller has its user from FindByIdAsync, or from FindByLoginAsync,      *)
(* which still knows the users that were deleted.                           *)
Findable(u) == u \in users \/ \E l \in Logins : logins[l] = u

(* It removes a login it has seen in GetLoginsAsync.                        *)
Sensible(k) == k.name = "RemoveLogin" => linked[k.user][k.login] > 0

Begin(c, k) ==
  /\ stage[c] = "idle" /\ Findable(k.user) /\ Sensible(k)
  /\ call' = [call EXCEPT ![c] = k]
  /\ Goes(c, IF k.name \in {"AddLogin", "AddToRole", "RemoveFromRole", "RedeemCode"}
             THEN "check" ELSE "change")
  /\ UNCHANGED <<store, read, history>>

IsInRole(u, r) == r \in roles /\ member[u][r] > 0

(* The code is in the user's token.                                         *)
Accepted(k) == k.code \in Split(codes[k.user])

(* A check that asks the user's own list and not the dictionary.            *)
MayProceedByList(k) ==
  CASE k.name = "AddLogin"       -> linked[k.user][k.login] = 0
    [] k.name = "AddToRole"      -> ~IsInRole(k.user, k.role)
    [] k.name = "RemoveFromRole" -> IsInRole(k.user, k.role)
    [] OTHER                     -> Accepted(k)

(* The manager asks the store before it changes anything: the login is not  *)
(* taken, the user is not, or is, in the role.  RedeemCodeAsync begins by   *)
(* reading the user's codes.                                                *)
MayProceed(k) ==
  CASE k.name = "AddLogin"       -> logins[k.login] = Nobody
    [] k.name = "AddToRole"      -> ~IsInRole(k.user, k.role)
    [] k.name = "RemoveFromRole" -> IsInRole(k.user, k.role)
    [] OTHER                     -> Accepted(k)

Check(c) ==
  /\ stage[c] = "check"
  /\ IF MayProceed(call[c])
     THEN /\ Goes(c, "change")
          /\ read' = [read EXCEPT ![c] =
                        IF call[c].name = "RedeemCode" THEN codes[call[c].user] ELSE {}]
          /\ UNCHANGED call
     ELSE Returns(c)
  /\ UNCHANGED <<store, history>>

(* AddLoginAsync puts an entry into the user's list.                        *)
AddLogin(c, u, l) ==
  /\ stage[c] = "change" /\ call[c] = [name |-> "AddLogin", user |-> u, login |-> l]
  /\ linked[u][l] < Copies
  /\ linked' = [linked EXCEPT ![u][l] = @ + 1]
  /\ Goes(c, "point") /\ Writes(c)
  /\ UNCHANGED <<users, logins, roles, member, codes, call, read,
                 issued, unspent, deleted, departed>>

(* Removal without the test for a missing entry, or for two.                *)
RemoveLoginUntested(c, u, l) ==
  /\ stage[c] = "change" /\ call[c] = [name |-> "RemoveLogin", user |-> u, login |-> l]
  /\ linked' = [linked EXCEPT ![u][l] = @ - 1]
  /\ Goes(c, "point") /\ Writes(c)
  /\ UNCHANGED <<users, logins, roles, member, codes, call, read,
                 issued, unspent, deleted, departed>>

(* RemoveLoginAsync takes the entry out of the list, if it is still there.  *)
(* SingleOrDefault throws if the list has two.                              *)
RemoveLogin(c, u, l) ==
  /\ stage[c] = "change" /\ call[c] = [name |-> "RemoveLogin", user |-> u, login |-> l]
  /\ IF linked[u][l] > 1 THEN Returns(c) /\ UNCHANGED <<linked, contended>>
     ELSE /\ linked' = [linked EXCEPT ![u][l] = 0]
          /\ Goes(c, "point") /\ Writes(c) /\ UNCHANGED <<call, read>>
  /\ UNCHANGED <<users, logins, roles, member, codes, issued, unspent, deleted, departed>>

(* The dictionary's entry: AddLoginAsync sets it to the user,               *)
(* RemoveLoginAsync to null, whosever it is by now.                         *)
Point(c, u, l) ==
  /\ stage[c] = "point" /\ call[c].user = u /\ call[c].login = l
  /\ logins' = [logins EXCEPT ![l] = IF call[c].name = "AddLogin" THEN u ELSE Nobody]
  /\ Goes(c, "update") /\ Writes(c)
  /\ UNCHANGED <<users, roles, linked, member, codes, call, read,
                 issued, unspent, deleted, departed>>

(* AddToRoleAsync does nothing for a role that does not exist.              *)
AddToRole(c, u, r) ==
  /\ stage[c] = "change" /\ call[c] = [name |-> "AddToRole", user |-> u, role |-> r]
  /\ member[u][r] < Copies
  /\ member' = IF r \in roles THEN [member EXCEPT ![u][r] = @ + 1] ELSE member
  /\ Goes(c, "update") /\ Writes(c)
  /\ UNCHANGED <<users, logins, roles, linked, codes, call, read,
                 issued, unspent, deleted, departed>>

(* RemoveFromRoleAsync throws for a role that does not exist any more, and  *)
(* when the list has two entries.                                           *)
RemoveFromRole(c, u, r) ==
  /\ stage[c] = "change" /\ call[c] = [name |-> "RemoveFromRole", user |-> u, role |-> r]
  /\ IF r \notin roles \/ member[u][r] > 1 THEN Returns(c) /\ UNCHANGED member
     ELSE /\ member' = [member EXCEPT ![u][r] = 0]
          /\ Goes(c, "update") /\ UNCHANGED <<call, read>>
  /\ UNCHANGED <<users, logins, roles, linked, codes, history>>

(* The code is accepted and the list is written back as it was read.        *)
RedeemCodeKept(c, u) ==
  /\ stage[c] = "change" /\ call[c].name = "RedeemCode" /\ call[c].user = u
  /\ codes' = [codes EXCEPT ![u] = read[c]]
  /\ unspent' = [unspent EXCEPT ![u] = @ \ {call[c].code}]
  /\ Goes(c, "update") /\ Writes(c)
  /\ UNCHANGED <<users, logins, roles, linked, member, call, read,
                 issued, deleted, departed>>

(* ReplaceCodesAsync with what was read, less the code; the code is         *)
(* accepted.  Without the blank code, nothing is left of an empty token.    *)
RedeemCode(c, u) ==
  /\ stage[c] = "change" /\ call[c].name = "RedeemCode" /\ call[c].user = u
  /\ codes' = [codes EXCEPT ![u] = read[c] \ {call[c].code}]
  /\ unspent' = [unspent EXCEPT ![u] = @ \ {call[c].code}]
  /\ Goes(c, "update") /\ Writes(c)
  /\ UNCHANGED <<users, logins, roles, linked, member, call, read,
                 issued, deleted, departed>>

(* ReplaceCodesAsync with new ones.                                         *)
GenerateCodes(c, u) ==
  /\ stage[c] = "change" /\ call[c] = [name |-> "GenerateCodes", user |-> u]
  /\ issued[u] < Issues
  /\ issued' = [issued EXCEPT ![u] = @ + 1]
  /\ codes' = [codes EXCEPT ![u] = Issue(issued[u] + 1)]
  /\ unspent' = [unspent EXCEPT ![u] = Issue(issued[u] + 1)]
  /\ Goes(c, "update") /\ Writes(c)
  /\ UNCHANGED <<users, logins, roles, linked, member, call, read,
                 deleted, departed>>

(* SetTokenAsync and the setters change the object alone.                   *)
SetProperty(c, u) ==
  /\ stage[c] = "change" /\ call[c] = [name |-> "SetProperty", user |-> u]
  /\ Goes(c, "update")
  /\ UNCHANGED <<store, call, read, history>>

Quiet(topic) == topic \notin contended

HeldByAnother(c, u) == \E d \in Callers \ {c} : call[d] # NoCall /\ call[d].user = u

(* DeleteAsync throws for a user that is not in the dictionary, and leaves  *)
(* its logins behind.                                                       *)
Delete(c, u) ==
  /\ stage[c] = "change" /\ call[c] = [name |-> "Delete", user |-> u]
  /\ users' = users \ {u}
  /\ deleted' = IF u \in users THEN deleted \cup {u} ELSE deleted
  /\ departed' = IF u \in users /\ ~HeldByAnother(c, u)
                      /\ \A l \in Logins : linked[u][l] = 0 /\ Quiet(<<"login", l>>)
                 THEN departed \cup {u} ELSE departed
  /\ Returns(c)
  /\ UNCHANGED <<logins, roles, linked, member, codes, issued, unspent, contended>>

(* UpdateAsync puts the user into the dictionary, be it there or not.       *)
Update(c) ==
  /\ stage[c] = "update"
  /\ users' = users \cup {call[c].user}
  /\ Returns(c)
  /\ UNCHANGED <<logins, roles, linked, member, codes, history>>

Next ==
  \/ \E u \in Users : Create(u)
  \/ \E r \in Roles : CreateRole(r) \/ DeleteRole(r)
  \/ \E c \in Callers :
       \/ \E u \in Users : \E k \in CallsOf(u) : Begin(c, k)
       \/ Check(c) \/ Update(c)
       \/ \E u \in Users :
            \/ \E l \in Logins : AddLogin(c, u, l) \/ RemoveLogin(c, u, l) \/ Point(c, u, l)
            \/ \E r \in Roles : AddToRole(c, u, r) \/ RemoveFromRole(c, u, r)
            \/ RedeemCode(c, u) \/ GenerateCodes(c, u)
            \/ SetProperty(c, u) \/ Delete(c, u)

Spec == Init /\ [][Next]_vars

-----------------------------------------------------------------------------
(* A call of the user's has changed its list and not yet the dictionary.    *)
Halfway(u, l) ==
  \E c \in Callers : stage[c] = "point" /\ call[c].user = u /\ call[c].login = l

(* As long as no call changed a login under another that relied on it, at   *)
(* most one user has it, once, the dictionary leads to nobody else, and     *)
(* between the two writes of a call the list and the dictionary agree.      *)
LoginsAgree ==
  \A u \in Users, l \in Logins : Quiet(<<"login", l>>) =>
    /\ ~Halfway(u, l) => linked[u][l] = (IF logins[l] = u THEN 1 ELSE 0)
    /\ linked[u][l] > 0 => linked[u][l] = 1 /\ logins[l] \in {u, Nobody}

(* As long as no two additions of a role to a user overlapped, the user has *)
(* it at most once, so that it can be taken away again.                     *)
RolesCanBeRemoved ==
  \A u \in Users, r \in Roles :
    Quiet(<<"role", <<u, r>>>>) => member[u][r] <= 1

(* A user that was deleted while it had no login in its list, no login had  *)
(* been contended for and no other call held the object, never comes back.  *)
DeletedUsersStayAway == users \cap departed = {}

LinksAgree == LoginsAgree /\ RolesCanBeRemoved /\ DeletedUsersStayAway

(* Recovery codes.  As long as no call wrote a user's codes under a         *)
(* redemption that had read them, the token holds the codes of the last     *)
(* issue that have not been accepted, and a redemption that is about to be  *)
(* accepted is of one of these, or of the blank code when none is left (or  *)
(* none was ever issued), which the store accepts every time.  In any case  *)
(* the token holds only codes that were issued to the user.                 *)
CodesAreSpentOnce ==
  /\ \A u \in Users :
       /\ Quiet(<<"codes", u>>) => codes[u] = unspent[u]
       /\ \A k \in codes[u] : 1 <= k[1] /\ k[1] <= issued[u]
  /\ \A c \in Callers :
       stage[c] = "change" /\ call[c].name = "RedeemCode"
         /\ Quiet(<<"codes", call[c].user>>) =>
           call[c].code \in Split(unspent[call[c].user])
=============================================================================

---------------------------- MODULE AppIdentity -----------------------------
(***************************************************************************)
(* Application identities: appIdentityCreate issues a token to whoever     *)
(* asks, with a subject of the caller's choice for a caller that may       *)
(* choose; appIdentityRefresh issues a new token for an old one that the   *)
(* SelfValidator still accepts.  Other fields validate tokens meanwhile,   *)
(* with the same caches.                                                   *)
(***************************************************************************)
EXTENDS KeyCaches, Sequences

CONSTANTS
  Subjects,   \* subjects a caller may ask for; a Guid is written as a number
  NoSubject,  \* a token without "sub", or an input without a subject
  Apps,       \* appId and machineId, both within their maximal lengths
  NoApp,      \* a token without one of them, or an input out of range
  Strangers,  \* other tokens a caller may hold: of an authority, or of this server
              \* by another grant or exchange, with a subject and claims of its own
  MaxIssued   \* bound: identities issued

ASSUME SubjectsAssumption == /\ NoSubject \notin Subjects \cup Nat
                             /\ Subjects \cap Nat = {}
ASSUME AppsAssumption     == NoApp \notin Apps

(* Whom ASP.NET has found behind the request: nobody, a user, or one with   *)
(* the claim scope=appIdentity.                                             *)
Users == {"anonymous", "user", "scoped"}

IdTokens  == [subject : Subjects \cup Nat \cup {NoSubject}, app : Apps \cup {NoApp},
              signer : Schemes, generation : Generations]
Origins   == Users \cup {"refresh"}
Identity  == [subject : Subjects \cup Nat, app : Apps,
              generation : Generations, origin : Origins]

ASSUME StrangersAssumption == Strangers \subseteq IdTokens

VARIABLES
  issued,  \* the identities issued so far, in their order
  input    \* caller -> <<the id_token to refresh>>, or <<>> for another field

appVars == <<issued, input>>
allVars == <<vars, appVars>>

AppTypeOK ==
  /\ TypeOK
  /\ issued \in Seq(Identity)
  /\ input \in [Callers -> Seq(IdTokens)]

AppInit == Init /\ issued = <<>> /\ input = [c \in Callers |-> <<>>]

-----------------------------------------------------------------------------
(* The server signs with its newest key.                                    *)
SigningGeneration ==
  CHOOSE g \in published[Self] : \A h \in published[Self] : h <= g

Mint(subject, app, origin) ==
  issued' = Append(issued, [subject |-> subject, app |-> app,
                            generation |-> SigningGeneration, origin |-> origin])

(* !IsAuthenticated || !HasClaim("scope", "appIdentity") is an error.       *)
MayChooseSubject(user) == user = "scoped"

(* What is out of range is an error before anything is issued.              *)
InRange(subject, app) == subject \in Subjects \cup {NoSubject} /\ app # NoApp

(* appIdentityCreate: the input has to be within its ranges, a subject of   *)
(* one's own needs authorization, and without one it is a new Guid.         *)
Create(user, subject, app) ==
  /\ Len(issued) < MaxIssued
  /\ InRange(subject, app)
  /\ subject # NoSubject => MayChooseSubject(user)
  /\ Mint(IF subject = NoSubject THEN Len(issued) ELSE subject, app, user)
  /\ UNCHANGED <<vars, input>>

(* The encoded form of an identity.                                         *)
IdToken(i) == [subject |-> i.subject, app |-> i.app,
               signer |-> Self, generation |-> i.generation]

(* A token that is read but not verified.                                   *)
SeenAsRead(t) ==
  [scheme |-> Self, named |-> TRUE, signer |-> Self, generation |-> t.generation]

(* What the validator sees of an id_token; it looks at no issuer.           *)
Seen(t) ==
  [scheme |-> Self, named |-> TRUE, signer |-> t.signer, generation |-> t.generation]

(* appIdentityRefresh validates the id_token under the scheme "self"; no    *)
(* audience, client or purpose is asked for.                                *)
Refresh(c, t) ==
  /\ ValidateToken(c, Seen(t))
  /\ input' = [input EXCEPT ![c] = <<t>>]
  /\ UNCHANGED issued

(* A refresh that does without the subject.                                 *)
RefreshedAnySubject(c) ==
  /\ input[c] # <<>> /\ Return(c)
  /\ LET t == input[c][1]
     IN IF Accepted(c) /\ t.app # NoApp
        THEN \/ Len(issued) < MaxIssued /\ Mint(t.subject, t.app, "refresh")
             \/ UNCHANGED issued
        ELSE UNCHANGED issued
  /\ input' = [input EXCEPT ![c] = <<>>]

(* With a principal that has a subject and both claims a new token is       *)
(* minted for the same three, unless minting fails.  Without a principal    *)
(* the field dies of a null reference, without the others it is an error.   *)
Refreshed(c) ==
  /\ input[c] # <<>> /\ Return(c)
  /\ LET t == input[c][1]
     IN IF Accepted(c) /\ t.subject # NoSubject /\ t.app # NoApp
        THEN \/ Len(issued) < MaxIssued /\ Mint(t.subject, t.app, "refresh")
             \/ UNCHANGED issued
        ELSE UNCHANGED issued
  /\ input' = [input EXCEPT ![c] = <<>>]

Refreshable ==
  {IdToken(issued[i]) : i \in DOMAIN issued}
    \cup {t \in Strangers : Possible(Seen(t))}

AppNext ==
  \/ Environment /\ UNCHANGED appVars
  \/ \E user \in Users, subject \in Subjects \cup {NoSubject}, app \in Apps \cup {NoApp} :
       Create(user, subject, app)
  \/ \E c \in Callers :
       \/ \E t \in Tokens : Possible(t) /\ ValidateToken(c, t) /\ UNCHANGED appVars
       \/ \E t \in Refreshable : Refresh(c, t)
       \/ Inside(c) /\ UNCHANGED appVars
       \/ Refreshed(c)
       \/ input[c] = <<>> /\ Return(c) /\ UNCHANGED appVars

AppSpec == AppInit /\ [][AppNext]_allVars

-----------------------------------------------------------------------------
(* An identity that somebody created with this subject, appId and           *)
(* machineId: with a subject that is not a Guid, an authorized caller.      *)
Creation(o, i) ==
  /\ o.origin # "refresh" /\ o.subject = i.subject /\ o.app = i.app
  /\ i.subject \in Subjects => o.origin = "scoped"

(* A token that the server itself has signed, for another purpose, with     *)
(* this subject and these two claims.                                       *)
SignedHere(t, i) == t.signer = Self /\ t.subject = i.subject /\ t.app = i.app

(* Every identity goes back, over any number of refreshes and key           *)
(* rotations, to a creation or to another token of this server that carried *)
(* the same subject, appId and machineId: no refresh changes any of them,   *)
(* and no authority's token is ever turned into an identity.                *)
IdentitiesAreTraceable ==
  \A i \in DOMAIN issued :
    \/ \E j \in 1 .. i : Creation(issued[j], issued[i])
    \/ \E t \in Strangers : SignedHere(t, issued[i])
=============================================================================

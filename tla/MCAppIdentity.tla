--------------------------- MODULE MCAppIdentity ----------------------------
(* Two validations at once, on one of the two halves that share no state:   *)
(* tokens of two authorities, or tokens of the server itself; one scheme    *)
(* replaces its key.                                                        *)
EXTENDS AppIdentity, FiniteSets, TLC

CONSTANTS daffy, donald, acme

(* A client's token, an exchanged user's, one that an exchange has minted   *)
(* with a subject and the two claims of a partner's choice, and the         *)
(* authorities' tokens.                                                     *)
MCStrangers ==
  {[subject |-> NoSubject, app |-> acme,  signer |-> Self, generation |-> 0],
   [subject |-> daffy,     app |-> NoApp, signer |-> Self, generation |-> 0],
   [subject |-> donald,    app |-> acme,  signer |-> Self, generation |-> 0]}
    \cup [subject : {daffy}, app : {acme}, signer : Authorities, generation : {0}]

Busy    == {c \in Callers : stage[c] # "idle"}
Rotated == {s \in Schemes : Introduced(s, 1)}
Foreign == {token[c].signer : c \in {d \in Busy : token[d].scheme # Self}} \cup Rotated
UsesOthers == \/ Foreign \cap Authorities # {}
              \/ \E a \in Authorities : discovery[a].left > 0
              \/ \E c \in Busy : token[c].scheme # Self
UsesSelf   == \/ issued # <<>> \/ selfKeys.left > 0 \/ Self \in Rotated
              \/ \E c \in Busy : token[c].scheme = Self

OneHalf == Cardinality(Rotated) <= 1 /\ ~(UsesOthers /\ UsesSelf)

(* One identity is created, not as donald, and then one caller at a time    *)
(* refreshes it or a stranger: the callers that race for the keys of the    *)
(* server have no identity yet.                                             *)
OneFamily ==
  /\ \A i \in DOMAIN issued :
       i > 1 \/ issued[i].subject = donald => issued[i].origin = "refresh"
  /\ issued # <<>> => Cardinality(Busy) <= 1

(* Of two calls at once one has a token of its scheme.  A token that does   *)
(* not name the issuer of its OIDC scheme is refused in any case and comes  *)
(* alone; any other is an authority's, or presented under "self".           *)
Own(t)      == t.signer = t.scheme /\ t.named
Misnamed(t) == t.scheme # Self /\ ~t.named

OneStranger ==
  LET strange == {c \in Busy : ~Own(token[c])}
  IN /\ Cardinality(strange) <= 1
     /\ \A c \in strange :
          CASE token[c].scheme = Self -> token[c].named
            [] Misnamed(token[c])     -> Busy = strange
            [] OTHER                  -> token[c].signer # Self

Bounded == OneStranger /\ OneFamily /\ OneHalf

MCSpec == AppInit /\ [][AppNext /\ Bounded']_allVars

Interchangeable == Permutations(Callers) \cup Permutations(Authorities)
=============================================================================

-------------------------- MODULE MCIdentityStore ---------------------------
(* Two requests and two users.  Logins, roles and recovery codes share no   *)
(* state, so each behaviour uses one of them, beside deletions and updates. *)
EXTENDS IdentityStore, TLC

UsesLogins == \/ \E l \in Logins : logins[l] # Nobody
              \/ \E c \in Callers : call[c].name \in {"AddLogin", "RemoveLogin"}
              \/ \E u \in Users, l \in Logins : linked[u][l] > 0
UsesRoles  == \/ roles # {} \/ Roles \cap deleted # {}
              \/ \E c \in Callers : call[c].name \in {"AddToRole", "RemoveFromRole"}
UsesCodes  == \/ \E u \in Users : issued[u] > 0
              \/ \E c \in Callers : call[c].name \in {"RedeemCode", "GenerateCodes"}

OneOfThree ==
  /\ ~(UsesLogins /\ UsesRoles)
  /\ ~(UsesLogins /\ UsesCodes)
  /\ ~(UsesRoles /\ UsesCodes)

(* One thing is contended for at most: what holds of the others is seen     *)
(* beside it.                                                               *)
OneContention == Cardinality(contended) <= 1

Interchangeable == Permutations(Callers) \cup Permutations(Users)
                     \cup Permutations(Logins)
=============================================================================

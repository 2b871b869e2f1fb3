---------------------------- MODULE MCLazyStores ----------------------------
(* Three requests: two first ones that race, and one that may come late.    *)
(* The singletons have no state in common, so each behaviour uses one.      *)
EXTENDS LazyStores, FiniteSets, TLC

CONSTANTS p7identityserver4, google, orders, loyalty

MCAuthorities == <<p7identityserver4, google>>
MCEndpoints   == <<orders, loyalty>>

Used == {Store(r) : r \in {q \in Requests : stage[q] # "idle"}}
          \cup {s \in Singletons : field[s] # Nobody}
OneSingleton == Cardinality(Used) <= 1

Interchangeable == Permutations(Requests) \cup Permutations(States)
=============================================================================

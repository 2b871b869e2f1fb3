--------------------------- MODULE MCOidcPipeline ---------------------------
(* Two tabs; two users of the provider that share a display name.          *)
EXTENDS OidcPipeline, TLC
MCDisplayName == [s \in Subjects |-> "John Doe"]
Symmetry == Permutations(Tabs) \cup Permutations(Subjects)
=============================================================================

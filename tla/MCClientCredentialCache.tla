----------------------- MODULE MCClientCredentialCache -----------------------
(* Two requests, two external exchanges; a token outlives two windows.      *)
EXTENDS ClientCredentialCache
=============================================================================

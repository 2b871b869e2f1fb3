--------------------------- MODULE MCTokenExchange ---------------------------
(* Pipelines and external exchanges in the shape of the application's       *)
(* appsettings.Development.TokenExchange.json, with the orders and names    *)
(* that file could hold as well.                                            *)
EXTENDS TokenExchange

CONSTANTS alice, bob, rabbit

MCSubjects == {alice, bob, rabbit}

MCPipelines ==
  "validating"   :> [preprocessors |-> <<"validate-strip-signature">>, finalExchange |-> "briar_rabbit"] @@
  "plain"        :> [preprocessors |-> <<>>, finalExchange |-> "partner_test"] @@
  "strip_first"  :> [preprocessors |-> <<"strip-signature", "validate-strip-signature">>, finalExchange |-> "briar_rabbit"] @@
  "strip_last"   :> [preprocessors |-> <<"validate-strip-signature", "strip-signature">>, finalExchange |-> "briar_rabbit"] @@
  "misspelt"     :> [preprocessors |-> <<"validate-signature">>, finalExchange |-> "briar_rabbit"] @@
  "unregistered" :> [preprocessors |-> <<>>, finalExchange |-> "nobody"]

MCExchanges   == {"briar_rabbit", "partner_test"}
MCPassThrough == {"partner_test"}
MCPlans       == {<<>>, <<"custom", "identity", "access", "access">>}

Token(scheme, sub, state) == [scheme |-> scheme, sub |-> sub, state |-> state]
Input(exchange, list)     == [exchange |-> exchange, tokens |-> list, extras |-> TRUE]

OidcAlice == Token("google", alice, "good")
SelfBob   == Token("self", bob, "good")

MCRequests ==
  {Input("validating", <<OidcAlice, SelfBob>>),
   Input("validating", <<Token("self", bob, "malformed")>>),
   Input("plain", <<OidcAlice>>),
   Input("self", <<OidcAlice, SelfBob>>)}

MCRoutes ==
  {Input("strip_first", <<OidcAlice>>), Input("strip_first", <<SelfBob>>),
   Input("strip_last", <<OidcAlice>>),
   Input("misspelt", <<SelfBob>>), Input("unregistered", <<SelfBob>>),
   Input("nowhere", <<SelfBob>>), Input("validating", <<>>),
   Input("validating", <<Token("acme", bob, "good")>>),
   Input("briar-rabbit-inproc", <<SelfBob, OidcAlice>>),
   Input("google-my-custom", <<OidcAlice, Token("self", NoSubject, "good")>>),
   Input("alien-exchange", <<SelfBob>>),
   [exchange |-> "self", tokens |-> <<SelfBob>>, extras |-> FALSE],
   Input("validating", <<SelfBob>>), Input("plain", <<SelfBob>>)}

DocumentSymmetry == Permutations(Documents)
=============================================================================

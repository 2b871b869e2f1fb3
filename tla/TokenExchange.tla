---------------------------- MODULE TokenExchange ----------------------------
(***************************************************************************)
(* The tokenExchange query, from the GraphQL field to the HTTP status:     *)
(* TokenExchangeQuery, TokenExchangeHandlerRouter, the in-process          *)
(* handlers, PipelineTokenExchangeHandler with its pre-processors, and     *)
(* ExternalExchangeTokenExchangeHandler with the partner it posts to and   *)
(* the minting service it calls for every instruction of the partner.      *)
(*                                                                         *)
(* An actor is one tokenExchange field of one GraphQL document.  Fields of *)
(* a document start in document order and then interleave at their awaits; *)
(* documents interleave freely.  Fields of one document share the scoped   *)
(* summary log, which is a Dictionary, so adding a key twice throws; all   *)
(* fields share the client-credentials cache of ClientCredentialCache.     *)
(***************************************************************************)
EXTENDS Integers, FiniteSets, SequencesExt

CONSTANTS
  Documents,          \* GraphQL documents posted, each with its request scope
  MaxFields,          \* tokenExchange fields (aliases) in a document
  Requests,           \* inputs a field may carry: exchange, tokens, extras
  Pipelines,          \* pipelineExchanges: name -> preprocessors, finalExchange
  Exchanges,          \* names of the externalExchanges
  PassThrough,        \* those whose mintType is passThroughHandler
  OidcSchemes,        \* token schemes served by an OIDCTokenValidator
  PartnerPlans,       \* what partners may ask for: kinds of tokens, in order
  Subjects,           \* subjects that tokens name
  PartnerSubject,     \* subject the partner asks tokens for
  NoSubject,          \* a token names no subject
  NoPost,             \* nothing was sent to the partner
  SlidingExpiration, TokenLifetime, NoEntry

Field == Documents \X (1 .. MaxFields)
Doc(f) == f[1]
Siblings(d) == {f \in Field : Doc(f) = d}

TokenStates    == {"good", "expired", "malformed"}
MintableKinds  == {"custom", "identity", "access"}

ASSUME MaxFieldsAssumption == MaxFields \in Nat
ASSUME RequestsAssumption ==
  Requests \subseteq
    [exchange: STRING, extras: BOOLEAN,
     tokens: Seq([scheme: STRING, sub: Subjects \cup {NoSubject}, state: TokenStates])]
ASSUME PipelinesAssumption ==
  \A name \in DOMAIN Pipelines :
    Pipelines[name] \in [preprocessors: Seq(STRING), finalExchange: STRING]
ASSUME PartnerAssumption ==
  PartnerPlans \subseteq Seq(MintableKinds) /\ PartnerSubject \in Subjects

(* Names the handlers return, and the scheme of SelfOIDCTokenValidator.     *)
CheckingHandlers  == {"self", "google-my-custom", "briar-rabbit-inproc"}
SelfScheme        == "self"
PreProcessors     == {"validate-strip-signature", "strip-signature"}
Validating        == {"validate-strip-signature"}

VARIABLES
  req,        \* the input of each field
  pc,         \* where its resolver is
  tokens,     \* TokenExchangeRequest.Tokens: the pre-processors rewrite them
  todo,       \* pre-processors still to run
  posted,     \* tokens and bearer sent to the partner
  plan,       \* what is to be produced, in order
  response,   \* TokenExchangeResponses collected so far
  minted,     \* tokens the minting service issued for the field
  outcome,    \* how the resolver ended
  summary,    \* scoped summary log of each document: the keys present
  http,       \* status the controller answered each document with
  cache, call, answer, authorityUp     \* ClientCredentialCache

Cache == INSTANCE ClientCredentialCache WITH Callers <- Field

ASSUME CacheAssumption ==
  /\ Exchanges # {} /\ NoEntry \notin Cache!Entry
  /\ SlidingExpiration \in Nat \ {0} /\ TokenLifetime \in Nat \ {0}

fieldVars == <<req, pc, tokens, todo, posted, plan, response, minted, outcome,
               summary, http>>
cacheVars == <<cache, call, answer, authorityUp>>
vars == <<fieldVars, cacheVars>>

(* Two validators of one scheme do not fit into TokenValidator's dictionary. *)
ASSUME SchemesAssumption == SelfScheme \notin OidcSchemes

(* A token as it reached us, plus whether a validator ever accepted it.     *)
Received(t) == [scheme |-> t.scheme, sub |-> t.sub, state |-> t.state,
                signed |-> TRUE, checked |-> FALSE]

Init ==
  /\ req \in [Field -> Requests]
  /\ pc = [f \in Field |-> "start"]
  /\ tokens = [f \in Field |-> [i \in DOMAIN req[f].tokens |->
                                  Received(req[f].tokens[i])]]
  /\ todo = [f \in Field |-> <<>>]
  /\ posted = [f \in Field |-> NoPost]
  /\ plan = [f \in Field |-> <<>>]
  /\ response = [f \in Field |-> <<>>]
  /\ minted = [f \in Field |-> <<>>]
  /\ outcome = [f \in Field |-> "open"]
  /\ summary = [d \in Documents |-> {}]
  /\ http = [d \in Documents |-> "open"]
  /\ Cache!Init

-----------------------------------------------------------------------------
(* ITokenValidator.ValidateTokenAsync.  An OIDC validator throws when the   *)
(* token is not valid; the self validator catches and returns null.         *)
Supported(t) == t.scheme \in OidcSchemes \cup {SelfScheme}
Valid(t)     == Supported(t) /\ t.state = "good" /\ t.signed
Throws(t)    == ~Supported(t) \/ (~Valid(t) /\ t.scheme # SelfScheme)

(* The catch block of the resolver: log, add an error, return null.         *)
Fail(f, keys) ==
  /\ pc' = [pc EXCEPT ![f] = "done"]
  /\ outcome' = [outcome EXCEPT ![f] = "error"]
  /\ summary' = [summary EXCEPT ![Doc(f)] = @ \cup keys \cup {"exception"}]
  /\ UNCHANGED <<req, tokens, todo, posted, plan, response, minted, http>>

Finish(f, result, keys) ==
  /\ pc' = [pc EXCEPT ![f] = "done"]
  /\ outcome' = [outcome EXCEPT ![f] = result]
  /\ summary' = [summary EXCEPT ![Doc(f)] = @ \cup keys]

Starting(f) ==
  /\ pc[f] = "start"
  /\ \A g \in Siblings(Doc(f)) : g[2] < f[2] => pc[g] # "start"

(* A summary log that overwrites a key instead of refusing it.              *)
AnyInScope(f) == TRUE

FirstInScope(f) == "query" \notin summary[Doc(f)]
EntryKeys == {"query", "requestedFields"}
Accepted(f) == Starting(f) /\ FirstInScope(f) /\ req[f].tokens # <<>>

IsPipeline(f) == req[f].exchange \in DOMAIN Pipelines
Final(f)      == Pipelines[req[f].exchange].finalExchange
Mapped(f)     == IsPipeline(f) \/ req[f].exchange \in CheckingHandlers \cup {"alien-exchange"}

-----------------------------------------------------------------------------
(* summaryLogger.Add("query", ...) throws when a sibling added it before.   *)
RejectSecondField(f) ==
  /\ Starting(f) /\ ~FirstInScope(f)
  /\ Fail(f, {})
  /\ UNCHANGED cacheVars

RejectNoTokens(f) ==
  /\ Starting(f) /\ FirstInScope(f) /\ req[f].tokens = <<>>
  /\ Fail(f, {"query"})
  /\ UNCHANGED cacheVars

(* The router has no handler of that name, a pipeline names an external     *)
(* exchange nobody registered, or an in-process handler misses its extras.  *)
RejectUnroutable(f) ==
  /\ Accepted(f)
  /\ \/ ~Mapped(f)
     \/ IsPipeline(f) /\ Final(f) \notin Exchanges
     \/ ~IsPipeline(f) /\ ~req[f].extras
  /\ Fail(f, EntryKeys \cup IF IsPipeline(f) THEN {"pipelineExchange"} ELSE {})
  /\ UNCHANGED cacheVars

EnterPipeline(f) ==
  /\ Accepted(f) /\ IsPipeline(f) /\ Final(f) \in Exchanges
  /\ pc' = [pc EXCEPT ![f] = "preprocess"]
  /\ todo' = [todo EXCEPT ![f] = Pipelines[req[f].exchange].preprocessors]
  /\ summary' = [summary EXCEPT ![Doc(f)] = @ \cup EntryKeys]
  /\ UNCHANGED <<req, tokens, posted, plan, response, minted, outcome, http>>
  /\ UNCHANGED cacheVars

EnterCheckingHandler(f) ==
  /\ Accepted(f) /\ req[f].exchange \in CheckingHandlers /\ req[f].extras
  /\ pc' = [pc EXCEPT ![f] = "check"]
  /\ summary' = [summary EXCEPT ![Doc(f)] = @ \cup EntryKeys]
  /\ UNCHANGED <<req, tokens, todo, posted, plan, response, minted, outcome, http>>
  /\ UNCHANGED cacheVars

(* The alien handler answers by itself and looks at no token.               *)
AnswerAlien(f) ==
  /\ Accepted(f) /\ req[f].exchange = "alien-exchange" /\ req[f].extras
  /\ response' = [response EXCEPT ![f] = <<"alien", "alien">>]
  /\ Finish(f, "payload", EntryKeys)
  /\ UNCHANGED <<req, tokens, todo, posted, plan, minted, http>>
  /\ UNCHANGED cacheVars

-----------------------------------------------------------------------------
(* In-process handlers: every token must validate and name a subject; a     *)
(* null principal is dereferenced, which throws like a failed validation.   *)
InProcPlan(x) ==
  IF x = "briar-rabbit-inproc" THEN <<"access", "identity">> ELSE <<"access">>
InProcResponse(x) ==
  IF x = "briar-rabbit-inproc" THEN <<"custom", "identity", "access">> ELSE <<"access">>

Acceptable(t) == Valid(t) /\ t.sub # NoSubject

(* A loop that is left after its first round.                               *)
CheckFirstToken(f) ==
  /\ pc[f] = "check"
  /\ Acceptable(tokens[f][1])
  /\ tokens' = [tokens EXCEPT ![f][1].checked = TRUE]
  /\ plan' = [plan EXCEPT ![f] = InProcPlan(req[f].exchange)]
  /\ pc' = [pc EXCEPT ![f] = "mint"]
  /\ UNCHANGED <<req, todo, posted, response, minted, outcome, summary, http>>
  /\ UNCHANGED cacheVars

CheckTokens(f) ==
  /\ pc[f] = "check"
  /\ \A i \in DOMAIN tokens[f] : Acceptable(tokens[f][i])
  /\ tokens' = [tokens EXCEPT ![f] = [i \in DOMAIN @ |-> [@[i] EXCEPT !.checked = TRUE]]]
  /\ plan' = [plan EXCEPT ![f] = InProcPlan(req[f].exchange)]
  /\ pc' = [pc EXCEPT ![f] = "mint"]
  /\ UNCHANGED <<req, todo, posted, response, minted, outcome, summary, http>>
  /\ UNCHANGED cacheVars

RejectTokens(f) ==
  /\ pc[f] = "check"
  /\ \E i \in DOMAIN tokens[f] :
       /\ ~Acceptable(tokens[f][i])
       /\ \A j \in 1 .. i - 1 : Acceptable(tokens[f][j])
       /\ Fail(f, IF Valid(tokens[f][i]) THEN {"subject"} ELSE {})
  /\ UNCHANGED cacheVars

-----------------------------------------------------------------------------
(* A pre-processor goes through the tokens in order.  Reading a token that  *)
(* is no JWT throws; validate-strip-signature also throws when the          *)
(* validator throws, but takes no notice of a null principal.               *)
ChokesOnSyntaxOnly(p, t) == t.state = "malformed"
Chokes(p, t) == t.state = "malformed" \/ (p \in Validating /\ Throws(t))

(* A pre-processor that writes the token back as it was.                    *)
ProcessedSigned(p, t) ==
  [t EXCEPT !.checked = @ \/ (p \in Validating /\ Valid(t))]

Processed(p, t) ==
  [t EXCEPT !.signed = FALSE,
            !.checked = @ \/ (p \in Validating /\ Valid(t))]

PreProcess(f) ==
  /\ pc[f] = "preprocess" /\ todo[f] # <<>>
  /\ LET p == Head(todo[f]) IN
       /\ p \in PreProcessors
       /\ \A i \in DOMAIN tokens[f] : ~Chokes(p, tokens[f][i])
       /\ tokens' = [tokens EXCEPT ![f] = [i \in DOMAIN @ |-> Processed(p, @[i])]]
  /\ todo' = [todo EXCEPT ![f] = Tail(@)]
  /\ UNCHANGED <<req, pc, posted, plan, response, minted, outcome, summary, http>>
  /\ UNCHANGED cacheVars

(* The name is tested for null instead of the handler, so an unknown        *)
(* pre-processor is a null dereference: an exception like the others.       *)
PreProcessFails(f) ==
  /\ pc[f] = "preprocess" /\ todo[f] # <<>>
  /\ LET p == Head(todo[f]) IN
       \/ p \notin PreProcessors
       \/ \E i \in DOMAIN tokens[f] : Chokes(p, tokens[f][i])
  /\ Fail(f, {})
  /\ UNCHANGED cacheVars

(* ProcessFinalPipelineExchangeAsync: first the client-credentials token.   *)
Forwarding(f) == pc[f] = "preprocess" /\ todo[f] = <<>>

GetToken(f) ==
  /\ Forwarding(f)
  /\ Cache!Hit(f, Final(f)) \/ Cache!Miss(f, Final(f))
  /\ UNCHANGED fieldVars

(* The caller that fetched an error response logs it, one that found it in  *)
(* the cache does not.                                                      *)
AwaitToken(f) ==
  /\ Cache!Progress(f)
  /\ summary' = IF call[f].at = "received" /\ ~answer[f].ok
                THEN [summary EXCEPT ![Doc(f)] = @ \cup {"client_credentials_error"}]
                ELSE summary
  /\ UNCHANGED <<req, pc, tokens, todo, posted, plan, response, minted, outcome, http>>

(* It was returned: whatever happens next, the local variable is done with. *)
HasToken(f) == Forwarding(f) /\ call[f].at = "returned"

NoToken(f) ==
  /\ HasToken(f) /\ ~answer[f].ok
  /\ Fail(f, {})
  /\ Cache!Release(f)

(* An exchange that does not look at what GetTokenAsync returned.           *)
PostingAnyway(f) ==
  /\ HasToken(f)
  /\ posted' = [posted EXCEPT ![f] = [tokens |-> tokens[f], bearer |-> answer[f]]]

Posting(f) ==
  /\ HasToken(f) /\ answer[f].ok
  /\ posted' = [posted EXCEPT ![f] = [tokens |-> tokens[f], bearer |-> answer[f]]]

-----------------------------------------------------------------------------
(* 200 OK: a pass-through answer is handed on as it is, any other is a list *)
(* of instructions.  An instruction may ask for a custom, an identity and   *)
(* an access token, which the handler takes one after the other: as good as *)
(* one instruction for each, so a plan is a list of kinds.                  *)
PartnerInstructs(f) ==
  /\ Posting(f) /\ ~Cache!Expired(answer[f])
  /\ Final(f) \notin PassThrough
  /\ \E kinds \in PartnerPlans : plan' = [plan EXCEPT ![f] = kinds]
  /\ pc' = [pc EXCEPT ![f] = "mint"]
  /\ UNCHANGED <<req, tokens, todo, response, minted, outcome, summary, http>>
  /\ Cache!Release(f)

PartnerPassesThrough(f) ==
  /\ Posting(f) /\ ~Cache!Expired(answer[f])
  /\ Final(f) \in PassThrough
  /\ response' = [response EXCEPT ![f] = <<"passed-through">>]
  /\ Finish(f, "payload", {"pipelineExchange"})
  /\ UNCHANGED <<req, tokens, todo, plan, minted, http>>
  /\ Cache!Release(f)

(* Any other status, 401 for an expired bearer included: the handler        *)
(* returns null, which no caller takes for an error.                        *)
PartnerRefuses(f) ==
  /\ Posting(f)
  /\ Finish(f, "null", {"pipelineExchange"})
  /\ UNCHANGED <<req, tokens, todo, plan, response, minted, http>>
  /\ Cache!Release(f)

(* The call itself fails, before the tokens have left or after: SendAsync   *)
(* throws, or what came back cannot be read.                                *)
PartnerUnreachable(f) ==
  /\ Posting(f) \/ (HasToken(f) /\ answer[f].ok /\ UNCHANGED posted)
  /\ Finish(f, "error", {"exception"})
  /\ UNCHANGED <<req, tokens, todo, plan, response, minted, http>>
  /\ Cache!Release(f)

-----------------------------------------------------------------------------
Minting(f)  == pc[f] = "mint" /\ Len(response[f]) < Len(plan[f])
NextKind(f) == plan[f][Len(response[f]) + 1]
Collect(f)  == response' = [response EXCEPT ![f] = Append(@, NextKind(f))]
MintSubject(f) == IF IsPipeline(f) THEN PartnerSubject ELSE tokens[f][1].sub

(* A custom token is copied from the instruction.                           *)
AddCustom(f) ==
  /\ Minting(f) /\ NextKind(f) = "custom"
  /\ Collect(f)
  /\ UNCHANGED <<req, pc, tokens, todo, posted, plan, minted, outcome, summary, http>>
  /\ UNCHANGED cacheVars

(* An identity or access token is issued by the minting service.            *)
Mint(f) ==
  /\ Minting(f) /\ NextKind(f) # "custom"
  /\ minted' = [minted EXCEPT ![f] = Append(@, [kind |-> NextKind(f), sub |-> MintSubject(f)])]
  /\ Collect(f)
  /\ UNCHANGED <<req, pc, tokens, todo, posted, plan, outcome, summary, http>>
  /\ UNCHANGED cacheVars

(* IsError: the whole exchange fails, tokens minted so far are not revoked. *)
MintFails(f) ==
  /\ Minting(f) /\ NextKind(f) # "custom"
  /\ Fail(f, {})
  /\ UNCHANGED cacheVars

(* A return inside the loop over the instructions.                          *)
DeliverEarly(f) ==
  /\ pc[f] = "mint"
  /\ Finish(f, "payload", IF IsPipeline(f) THEN {"pipelineExchange"} ELSE {})
  /\ UNCHANGED <<req, tokens, todo, posted, plan, response, minted, http>>
  /\ UNCHANGED cacheVars

Deliver(f) ==
  /\ pc[f] = "mint" /\ Len(response[f]) = Len(plan[f])
  /\ response' = [response EXCEPT ![f] =
                    IF IsPipeline(f) THEN @ ELSE InProcResponse(req[f].exchange)]
  /\ Finish(f, "payload", IF IsPipeline(f) THEN {"pipelineExchange"} ELSE {})
  /\ UNCHANGED <<req, tokens, todo, posted, plan, minted, http>>
  /\ UNCHANGED cacheVars

-----------------------------------------------------------------------------
(* A controller that looks for a payload instead of for errors; and one     *)
(* that waits for payloads.                                                 *)
ReplyByPayload(d) ==
  /\ http[d] = "open"
  /\ \A f \in Siblings(d) : pc[f] = "done"
  /\ http' = [http EXCEPT ![d] =
       IF \E f \in Siblings(d) : outcome[f] = "payload" THEN "ok" ELSE "bad request"]
  /\ UNCHANGED <<req, pc, tokens, todo, posted, plan, response, minted, outcome, summary>>
  /\ UNCHANGED cacheVars
ReplyToPayloads(d) ==
  /\ http[d] = "open"
  /\ \A f \in Siblings(d) : outcome[f] = "payload"
  /\ http' = [http EXCEPT ![d] = "ok"]
  /\ UNCHANGED <<req, pc, tokens, todo, posted, plan, response, minted, outcome, summary>>
  /\ UNCHANGED cacheVars

(* ProcessQueryAsync: any execution error makes the reply a 400; when the   *)
(* result cannot be written, the catch block makes it a 404.                *)
Reply(d) ==
  /\ http[d] = "open"
  /\ \A f \in Siblings(d) : pc[f] = "done"
  /\ \E status \in
         {IF \E f \in Siblings(d) : outcome[f] = "error" THEN "bad request" ELSE "ok",
          "not found"} :
       http' = [http EXCEPT ![d] = status]
  /\ UNCHANGED <<req, pc, tokens, todo, posted, plan, response, minted, outcome, summary>>
  /\ UNCHANGED cacheVars

(* The clock may pass a token's expiry between two looks at it.             *)
TokenExpires(f) ==
  /\ pc[f] # "done"
  /\ \E i \in DOMAIN tokens[f] :
       /\ tokens[f][i].state = "good"
       /\ tokens' = [tokens EXCEPT ![f][i].state = "expired"]
  /\ UNCHANGED <<req, pc, todo, posted, plan, response, minted, outcome, summary, http>>
  /\ UNCHANGED cacheVars

Passage == (Cache!Tick \/ Cache!AuthorityToggles) /\ UNCHANGED fieldVars

Resolve(f) ==
  \/ RejectSecondField(f) \/ RejectNoTokens(f) \/ RejectUnroutable(f)
  \/ EnterPipeline(f) \/ EnterCheckingHandler(f) \/ AnswerAlien(f)
  \/ CheckTokens(f) \/ RejectTokens(f)
  \/ PreProcess(f) \/ PreProcessFails(f)
  \/ GetToken(f) \/ AwaitToken(f) \/ NoToken(f)
  \/ PartnerInstructs(f) \/ PartnerPassesThrough(f) \/ PartnerRefuses(f)
  \/ PartnerUnreachable(f)
  \/ AddCustom(f) \/ Mint(f) \/ MintFails(f) \/ Deliver(f)

Next ==
  \/ \E f \in Field : Resolve(f) \/ TokenExpires(f)
  \/ \E d \in Documents : Reply(d)
  \/ Passage

Spec == Init /\ [][Next]_vars

(* Every await of a resolver completes or throws, and the controller        *)
(* answers when all fields are resolved.                                    *)
Fairness ==
  /\ \A f \in Field : WF_vars(Resolve(f))
  /\ \A d \in Documents : WF_vars(Reply(d))

FairSpec == Spec /\ Fairness

-----------------------------------------------------------------------------
TokenType == [scheme: STRING, sub: Subjects \cup {NoSubject}, state: TokenStates,
              signed: BOOLEAN, checked: BOOLEAN]
Kinds == MintableKinds \cup {"alien", "passed-through"}
MintType == [kind: MintableKinds, sub: Subjects \cup {NoSubject}]
Keys  == EntryKeys \cup {"subject", "exception", "pipelineExchange", "client_credentials_error"}

Stages   == {"start", "preprocess", "check", "mint", "done"}
Outcomes == {"open", "payload", "null", "error"}
Statuses == {"open", "ok", "bad request", "not found"}

FieldsTypeOK ==
  /\ req \in [Field -> Requests]
  /\ pc \in [Field -> Stages]
  /\ tokens \in [Field -> Seq(TokenType)]
  /\ todo \in [Field -> Seq(STRING)]
  /\ posted \in [Field -> [tokens: Seq(TokenType), bearer: Cache!Response] \cup {NoPost}]
  /\ plan \in [Field -> Seq(MintableKinds)]
  /\ response \in [Field -> Seq(Kinds)]
  /\ minted \in [Field -> Seq(MintType)]
  /\ outcome \in [Field -> Outcomes]
  /\ summary \in [Documents -> SUBSET Keys]
  /\ http \in [Documents -> Statuses]

TypeOK == FieldsTypeOK /\ Cache!TypeOK

(* Of all tokenExchange fields of one document at most one gets anything    *)
(* done: the others fail on the shared summary log, so no sibling ever      *)
(* posts, mints or answers beside it.                                       *)
Served(f) == posted[f] # NoPost \/ minted[f] # <<>> \/ outcome[f] \in {"payload", "null"}
OneFieldServed ==
  \A f, g \in Field : Doc(f) = Doc(g) /\ Served(f) /\ Served(g) => f = g

(* A pipeline with a pre-processor never sends a partner a token that still *)
(* carries its signature.                                                   *)
Preprocessors(f) == Pipelines[req[f].exchange].preprocessors
Posted(f) == posted[f] # NoPost
StrippedBeforePosting ==
  \A f \in Field : Posted(f) /\ Preprocessors(f) # <<>> =>
    \A i \in DOMAIN posted[f].tokens : ~posted[f].tokens[i].signed

(* Behind validate-strip-signature a partner only sees tokens that an OIDC  *)
(* validator accepted, wherever that pre-processor stands in the list.      *)
HasValidation(f) == \E i \in DOMAIN Preprocessors(f) : Preprocessors(f)[i] \in Validating
CheckedBeforePosting(schemes) ==
  \A f \in Field : Posted(f) /\ HasValidation(f) =>
    \A i \in DOMAIN posted[f].tokens :
      posted[f].tokens[i].scheme \in schemes => posted[f].tokens[i].checked
OidcCheckedBeforePosting == CheckedBeforePosting(OidcSchemes)

(* The document's claim for every scheme (Authorization-Service.MD:93): the *)
(* pre-processor validates the token before it strips it.                   *)
AllCheckedBeforePosting == CheckedBeforePosting(OidcSchemes \cup {SelfScheme})

(* A partner is called with an access token fetched for the very exchange   *)
(* that is being finished, never with an error response or with a token     *)
(* another request fetched for another exchange.                            *)
BearerOfFinalExchange ==
  \A f \in Field : Posted(f) =>
    posted[f].bearer.ok /\ posted[f].bearer.exchange = Final(f)

(* An in-process handler has nothing minted before every token of the       *)
(* request was accepted, and then only for the subject of the first.        *)
MintedForCheckedSubject ==
  \A f \in Field : minted[f] # <<>> /\ ~IsPipeline(f) =>
    /\ \A i \in DOMAIN tokens[f] : tokens[f][i].checked
    /\ \A j \in DOMAIN minted[f] : minted[f][j].sub = req[f].tokens[1].sub
    /\ req[f].tokens[1].sub # NoSubject

(* The minting service issues exactly what was instructed, in order: while  *)
(* the exchange runs or if it fails, what the first n instructions ask for; *)
(* when it delivers, what all of them ask for, each token once and each in  *)
(* the response.  Instruction i is served by the token whose number is how  *)
(* many instructions up to i need the minting service.                      *)
ToIssue(s, n) == Cardinality({i \in 1 .. n : s[i] # "custom"})
IssuedFor(f, n) ==
  /\ Len(minted[f]) = ToIssue(plan[f], n)
  /\ \A i \in 1 .. n : plan[f][i] # "custom" =>
       minted[f][ToIssue(plan[f], i)].kind = plan[f][i]
AllInResponse(f) ==
  {response[f][i] : i \in DOMAIN response[f]} \ {"custom"}
    = {plan[f][i] : i \in DOMAIN plan[f]} \ {"custom"}
MintsFollowPlan ==
  \A f \in Field :
    /\ \E n \in 0 .. Len(plan[f]) : IssuedFor(f, n)
    /\ outcome[f] = "payload" /\ plan[f] # <<>> =>
         IssuedFor(f, Len(plan[f])) /\ AllInResponse(f)

(* "Given a proper list of OAuth2 Tokens, returns an authorization payload  *)
(* for downstream authorized calls" (TokenExchangeQuery.cs:36), for     *)
(* fields that failed before anything was to be minted.                     *)
ProperTokens(f) ==
  /\ req[f].exchange \in CheckingHandlers /\ req[f].extras
  /\ req[f].tokens # <<>>
  /\ \A i \in DOMAIN tokens[f] : Acceptable([tokens[f][i] EXCEPT !.signed = TRUE])
ProperTokensGetPayload ==
  \A f \in Field : ProperTokens(f) /\ pc[f] = "done" /\ plan[f] = <<>>
                     => outcome[f] # "error"

(* The exchange keeps the contract of TokenExchangeContract: whatever the   *)
(* handlers, pre-processors, partners and the minting service do, a field   *)
(* is settled once, only one of a document succeeds, a reply of 200 hides   *)
(* no error and one of 400 reports one.                                     *)
Contract == INSTANCE TokenExchangeContract
KeepsContract == Contract!Spec

(* Every document is answered in the end, whatever fails on the way.        *)
EveryDocumentAnswered == \A d \in Documents : <>(http[d] # "open")
=============================================================================

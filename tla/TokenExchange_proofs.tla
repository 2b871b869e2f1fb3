------------------------- MODULE TokenExchange_proofs -------------------------
(***************************************************************************)
(* What holds of the token exchange for any documents, requests, pipelines *)
(* and partners: the inductive invariant Sound, then the safety properties *)
(* that rest on it and the contract of TokenExchangeContract.              *)
(***************************************************************************)
EXTENDS TokenExchange, FiniteSetTheorems, TLAPS

CP == INSTANCE ClientCredentialCache_proofs WITH Callers <- Field

-----------------------------------------------------------------------------
(* Types.                                                                   *)
LEMMA FieldPair ==
  ASSUME NEW f \in Field PROVE Doc(f) \in Documents
BY DEF Field, Doc

LEMMA RequestFields ==
  ASSUME NEW r \in Requests
  PROVE  /\ r.exchange \in STRING /\ r.extras \in BOOLEAN
         /\ r.tokens \in Seq([scheme: STRING, sub: Subjects \cup {NoSubject}, state: TokenStates])
BY RequestsAssumption

LEMMA ReceivedType ==
  ASSUME NEW t \in [scheme: STRING, sub: Subjects \cup {NoSubject}, state: TokenStates]
  PROVE  Received(t) \in TokenType
BY DEF Received, TokenType

(* A loop over the tokens gives a list of as many tokens.                   *)
LEMMA MapTokens ==
  ASSUME NEW S, NEW T, NEW s \in Seq(S), NEW t, t = [i \in DOMAIN s |-> t[i]],
         \A i \in DOMAIN s : t[i] \in T
  PROVE  t \in Seq(T) /\ DOMAIN t = DOMAIN s
<1>1. PICK n \in Nat : DOMAIN s = 1 .. n
  <2>1. Len(s) \in Nat /\ DOMAIN s = 1 .. Len(s)
    OBVIOUS
  <2> QED BY <2>1
<1>2. t \in [1 .. n -> T]
  BY <1>1
<1>3. [1 .. n -> T] \subseteq Seq(T)
  OBVIOUS
<1> QED BY <1>1, <1>2, <1>3

LEMMA ElementOf ==
  ASSUME NEW S, NEW s \in Seq(S), NEW i \in DOMAIN s
  PROVE  s[i] \in S
<1>1. Len(s) \in Nat /\ DOMAIN s = 1 .. Len(s)
  OBVIOUS
<1> QED BY <1>1

LEMMA InitFields == Init => FieldsTypeOK
<1> SUFFICES ASSUME Init PROVE FieldsTypeOK
  OBVIOUS
<1>1. req \in [Field -> Requests]
  BY DEF Init
<1>2. ASSUME NEW f \in Field PROVE tokens[f] \in Seq(TokenType)
  <2>1. req[f].tokens \in Seq([scheme: STRING, sub: Subjects \cup {NoSubject}, state: TokenStates])
    BY <1>1, RequestFields
  <2>2. tokens[f] = [i \in DOMAIN req[f].tokens |-> Received(req[f].tokens[i])]
    BY DEF Init
  <2>3. \A i \in DOMAIN req[f].tokens : Received(req[f].tokens[i]) \in TokenType
    <3> TAKE i \in DOMAIN req[f].tokens
    <3>1. req[f].tokens[i] \in [scheme: STRING, sub: Subjects \cup {NoSubject}, state: TokenStates]
      BY <2>1, ElementOf
    <3> QED BY <3>1, ReceivedType
  <2> QED BY <2>1, <2>2, <2>3, MapTokens
<1>3. tokens \in [Field -> Seq(TokenType)]
  BY <1>2 DEF Init
<1> QED BY <1>1, <1>3 DEF Init, FieldsTypeOK, Stages, Outcomes, Statuses

(* A resolver that is past its entry has tokens; they only change in place. *)
Entered ==
  \A f \in Field :
    /\ DOMAIN tokens[f] = DOMAIN req[f].tokens
    /\ pc[f] \in {"preprocess", "check", "mint"} => DOMAIN tokens[f] # {}

LEMMA FailTypes ==
  ASSUME TypeOK, NEW f \in Field, NEW keys \in SUBSET Keys, Fail(f, keys)
  PROVE  FieldsTypeOK'
BY FieldPair DEF Fail, TypeOK, FieldsTypeOK, Stages, Outcomes, Keys

LEMMA StepFields == TypeOK /\ Entered /\ [Next]_vars => FieldsTypeOK'
<1> SUFFICES ASSUME TypeOK, Entered, [Next]_vars PROVE FieldsTypeOK'
  OBVIOUS
<1>0. FieldsTypeOK /\ Cache!TypeOK
  BY DEF TypeOK
<1>1. ASSUME NEW f \in Field, Resolve(f) PROVE FieldsTypeOK'
  <2>0. Doc(f) \in Documents
    BY FieldPair
  <2>24. tokens[f] \in Seq(TokenType)
    BY <1>0 DEF FieldsTypeOK
  <2>1. CASE RejectSecondField(f)
    BY <2>1, FailTypes DEF RejectSecondField
  <2>2. CASE RejectNoTokens(f)
    BY <2>2, FailTypes DEF RejectNoTokens, Keys, EntryKeys
  <2>3. CASE RejectUnroutable(f)
    BY <2>3, FailTypes DEF RejectUnroutable, Keys, EntryKeys
  <2>4. CASE EnterPipeline(f)
    <3>1. Pipelines[req[f].exchange].preprocessors \in Seq(STRING)
      BY <2>4, PipelinesAssumption DEF EnterPipeline, IsPipeline
    <3> QED BY <2>4, <2>0, <1>0, <3>1 DEF EnterPipeline, FieldsTypeOK, Stages, Keys
  <2>5. CASE EnterCheckingHandler(f)
    BY <2>5, <2>0, <1>0 DEF EnterCheckingHandler, FieldsTypeOK, Stages, Keys
  <2>6. CASE AnswerAlien(f)
    BY <2>6, <2>0, <1>0 DEF AnswerAlien, Finish, FieldsTypeOK, Stages, Outcomes, Keys, Kinds
  <2>7. CASE CheckTokens(f)
    <3>1. tokens'[f] = [i \in DOMAIN tokens[f] |-> [tokens[f][i] EXCEPT !.checked = TRUE]]
      BY <2>7, <1>0 DEF CheckTokens, FieldsTypeOK
    <3>2. ASSUME NEW i \in DOMAIN tokens[f] PROVE tokens'[f][i] \in TokenType
      <4>1. tokens[f][i] \in TokenType
        BY <2>24, ElementOf
      <4> QED BY <3>1, <4>1 DEF TokenType
    <3>7. tokens'[f] = [i \in DOMAIN tokens[f] |-> tokens'[f][i]]
      BY <3>1
    <3>3. tokens'[f] \in Seq(TokenType)
      BY <3>7, <3>2, <2>24, MapTokens
    <3>4. tokens' \in [Field -> Seq(TokenType)]
      BY <2>7, <3>3, <1>0 DEF CheckTokens, FieldsTypeOK
    <3>5. <<"access", "identity">> \in Seq(MintableKinds) /\ <<"access">> \in Seq(MintableKinds)
      BY DEF MintableKinds
    <3>6. InProcPlan(req[f].exchange) \in Seq(MintableKinds)
      BY <3>5 DEF InProcPlan
    <3> QED BY <2>7, <3>4, <3>6, <1>0 DEF CheckTokens, FieldsTypeOK, Stages
  <2>8. CASE RejectTokens(f)
    BY <2>8, FailTypes DEF RejectTokens, Keys
  <2>9. CASE PreProcess(f)
    <3>1. tokens'[f] = [i \in DOMAIN tokens[f] |-> Processed(Head(todo[f]), tokens[f][i])]
      BY <2>9, <1>0 DEF PreProcess, FieldsTypeOK
    <3>2. ASSUME NEW i \in DOMAIN tokens[f] PROVE tokens'[f][i] \in TokenType
      <4>1. tokens[f][i] \in TokenType
        BY <2>24, ElementOf
      <4> QED BY <3>1, <4>1 DEF TokenType, Processed, Valid, Supported
    <3>7. tokens'[f] = [i \in DOMAIN tokens[f] |-> tokens'[f][i]]
      BY <3>1
    <3>3. tokens'[f] \in Seq(TokenType)
      BY <3>7, <3>2, <2>24, MapTokens
    <3>4. tokens' \in [Field -> Seq(TokenType)]
      BY <2>9, <3>3, <1>0 DEF PreProcess, FieldsTypeOK
    <3> QED BY <2>9, <3>4, <1>0 DEF PreProcess, FieldsTypeOK
  <2>10. CASE PreProcessFails(f)
    BY <2>10, FailTypes DEF PreProcessFails
  <2>11. CASE GetToken(f)
    BY <2>11, <1>0 DEF GetToken, fieldVars, FieldsTypeOK
  <2>12. CASE AwaitToken(f)
    BY <2>12, <2>0, <1>0 DEF AwaitToken, FieldsTypeOK, Keys
  <2>13. CASE NoToken(f)
    BY <2>13, FailTypes DEF NoToken
  <2>14. ASSUME Posting(f) PROVE posted' \in [Field -> [tokens: Seq(TokenType), bearer: Cache!Response] \cup {NoPost}]
    <3>1. [tokens |-> tokens[f], bearer |-> answer[f]] \in [tokens: Seq(TokenType), bearer: Cache!Response]
      BY <1>0 DEF FieldsTypeOK, Cache!TypeOK
    <3> QED BY <3>1, <2>14, <1>0 DEF Posting, FieldsTypeOK
  <2>15. CASE PartnerInstructs(f)
    BY <2>15, <2>14, <1>0, PartnerAssumption DEF PartnerInstructs, FieldsTypeOK, Stages
  <2>16. CASE PartnerPassesThrough(f)
    BY <2>16, <2>14, <2>0, <1>0 DEF PartnerPassesThrough, Finish, FieldsTypeOK, Stages, Outcomes, Keys, Kinds
  <2>17. CASE PartnerRefuses(f)
    BY <2>17, <2>14, <2>0, <1>0 DEF PartnerRefuses, Finish, FieldsTypeOK, Stages, Outcomes, Keys
  <2>18. CASE PartnerUnreachable(f)
    BY <2>18, <2>14, <2>0, <1>0 DEF PartnerUnreachable, Finish, FieldsTypeOK, Stages, Outcomes, Keys
  <2>19. ASSUME Minting(f) PROVE NextKind(f) \in MintableKinds
    BY <2>19, <1>0 DEF Minting, NextKind, FieldsTypeOK
  <2>20. CASE AddCustom(f)
    BY <2>20, <2>19, <1>0 DEF AddCustom, Collect, FieldsTypeOK, Kinds
  <2>21. CASE Mint(f)
    <3>1. MintSubject(f) \in Subjects \cup {NoSubject}
      <4>1. Len(tokens[f]) # 0
        BY <2>21, <2>24, <1>0 DEF Mint, Minting, Entered, FieldsTypeOK
      <4>2. tokens[f][1] \in TokenType
        BY <4>1, <1>0 DEF FieldsTypeOK
      <4> QED BY <4>2, PartnerAssumption DEF MintSubject, TokenType
    <3>2. [kind |-> NextKind(f), sub |-> MintSubject(f)] \in MintType
      BY <2>21, <2>19, <3>1 DEF Mint, MintType
    <3> QED BY <2>21, <2>19, <3>2, <1>0 DEF Mint, Collect, FieldsTypeOK, Kinds
  <2>22. CASE MintFails(f)
    BY <2>22, FailTypes DEF MintFails
  <2>23. CASE Deliver(f)
    <3>4. <<"custom", "identity", "access">> \in Seq(Kinds) /\ <<"access">> \in Seq(Kinds)
      BY DEF Kinds, MintableKinds
    <3>1. InProcResponse(req[f].exchange) \in Seq(Kinds)
      BY <3>4 DEF InProcResponse
    <3>2. response' \in [Field -> Seq(Kinds)]
      BY <2>23, <3>1, <1>0 DEF Deliver, FieldsTypeOK
    <3>3. summary' \in [Documents -> SUBSET Keys]
      BY <2>23, <2>0, <1>0 DEF Deliver, Finish, FieldsTypeOK, Keys
    <3> QED BY <2>23, <3>2, <3>3, <1>0 DEF Deliver, Finish, FieldsTypeOK, Stages, Outcomes
  <2> QED BY <1>1, <2>1, <2>2, <2>3, <2>4, <2>5, <2>6, <2>7, <2>8, <2>9, <2>10, <2>11, <2>12, <2>13,
             <2>15, <2>16, <2>17, <2>18, <2>20, <2>21, <2>22, <2>23 DEF Resolve
<1>2. ASSUME NEW f \in Field, TokenExpires(f) PROVE FieldsTypeOK'
  <2>1. PICK i \in DOMAIN tokens[f] : tokens' = [tokens EXCEPT ![f][i].state = "expired"]
    BY <1>2 DEF TokenExpires
  <2>5. tokens[f] \in Seq(TokenType)
    BY <1>0 DEF FieldsTypeOK
  <2>2. [tokens[f][i] EXCEPT !.state = "expired"] \in TokenType
    <3>1. tokens[f][i] \in TokenType
      BY <2>5, ElementOf
    <3> QED BY <3>1 DEF TokenType, TokenStates
  <2>3. [tokens[f] EXCEPT ![i] = [@ EXCEPT !.state = "expired"]] \in Seq(TokenType)
    BY <2>2, <1>0 DEF FieldsTypeOK
  <2>4. tokens' \in [Field -> Seq(TokenType)]
    BY <2>1, <2>3, <1>0 DEF FieldsTypeOK
  <2> QED BY <1>2, <2>4, <1>0 DEF TokenExpires, FieldsTypeOK
<1>3. ASSUME NEW d \in Documents, Reply(d) PROVE FieldsTypeOK'
  BY <1>3, <1>0 DEF Reply, FieldsTypeOK, Statuses
<1>4. CASE Passage
  BY <1>4, <1>0 DEF Passage, fieldVars, FieldsTypeOK
<1>5. CASE UNCHANGED vars
  BY <1>5, <1>0 DEF vars, fieldVars, FieldsTypeOK
<1> QED BY <1>1, <1>2, <1>3, <1>4, <1>5 DEF Next

(* A step of one resolver leaves all other fields alone, and takes nothing  *)
(* out of a summary log.                                                    *)
OthersUntouched(f) ==
  /\ req' = req /\ http' = http
  /\ \A d \in Documents : summary[d] \subseteq summary'[d]
  /\ \A g \in Field : g # f =>
       /\ pc'[g] = pc[g] /\ tokens'[g] = tokens[g] /\ todo'[g] = todo[g]
       /\ posted'[g] = posted[g] /\ plan'[g] = plan[g] /\ minted'[g] = minted[g]
       /\ response'[g] = response[g] /\ outcome'[g] = outcome[g]

LEMMA Frame ==
  ASSUME FieldsTypeOK, NEW f \in Field, Resolve(f)
  PROVE  OthersUntouched(f)
<1> USE FieldPair DEF FieldsTypeOK, OthersUntouched
<1>1. ASSUME NEW keys, Fail(f, keys) PROVE OthersUntouched(f)
  BY <1>1 DEF Fail
<1>2. CASE RejectSecondField(f) \/ RejectNoTokens(f) \/ RejectUnroutable(f) \/ RejectTokens(f)
  BY <1>1, <1>2 DEF RejectSecondField, RejectNoTokens, RejectUnroutable, RejectTokens
<1>3. CASE PreProcessFails(f) \/ NoToken(f) \/ MintFails(f)
  BY <1>1, <1>3 DEF PreProcessFails, NoToken, MintFails
<1>4. CASE EnterPipeline(f) \/ EnterCheckingHandler(f)
  BY <1>4 DEF EnterPipeline, EnterCheckingHandler
<1>5. CASE AnswerAlien(f)
  BY <1>5 DEF AnswerAlien, Finish
<1>6. CASE CheckTokens(f) \/ PreProcess(f)
  BY <1>6 DEF CheckTokens, PreProcess
<1>7. CASE GetToken(f) \/ AwaitToken(f)
  BY <1>7 DEF GetToken, AwaitToken, fieldVars
<1>8. CASE PartnerInstructs(f)
  BY <1>8 DEF PartnerInstructs, Posting
<1>9. CASE PartnerPassesThrough(f)
  BY <1>9 DEF PartnerPassesThrough, Posting, Finish
<1>10. CASE PartnerRefuses(f)
  BY <1>10 DEF PartnerRefuses, Posting, Finish
<1>13. CASE PartnerUnreachable(f)
  <2>1. CASE UNCHANGED posted
    BY <1>13, <2>1 DEF PartnerUnreachable, Finish
  <2>2. CASE Posting(f)
    BY <1>13, <2>2 DEF PartnerUnreachable, Posting, Finish
  <2> QED BY <1>13, <2>1, <2>2 DEF PartnerUnreachable
<1>11. CASE AddCustom(f) \/ Mint(f)
  BY <1>11 DEF AddCustom, Mint, Collect
<1>12. CASE Deliver(f)
  BY <1>12 DEF Deliver, Finish
<1> QED BY <1>2, <1>3, <1>4, <1>5, <1>6, <1>7, <1>8, <1>9, <1>10, <1>11, <1>12, <1>13 DEF Resolve

(* A step of no resolver changes at most a status or the expiry of a token. *)
Idle ==
  /\ req' = req /\ pc' = pc /\ todo' = todo /\ posted' = posted
  /\ plan' = plan /\ response' = response /\ minted' = minted /\ outcome' = outcome
  /\ summary' = summary /\ call' = call

LEMMA StepCases ==
  ASSUME [Next]_vars
  PROVE  (\E f \in Field : Resolve(f)) \/ Idle
BY DEF Next, TokenExpires, Reply, Passage, vars, fieldVars, cacheVars, Cache!Tick,
       Cache!AuthorityToggles, Idle

(* How the tokens of a field may change in a step: the loops keep them in   *)
(* place.                                                                   *)
LEMMA TokensInPlace ==
  ASSUME FieldsTypeOK, [Next]_vars, NEW f \in Field
  PROVE  DOMAIN tokens'[f] = DOMAIN tokens[f]
<1> USE DEF FieldsTypeOK
<1>1. ASSUME NEW g \in Field, Resolve(g) PROVE DOMAIN tokens'[f] = DOMAIN tokens[f]
  <2>1. CASE g # f
    BY <2>1, <1>1, Frame DEF OthersUntouched
  <2>2. CASE g = f /\ (CheckTokens(g) \/ PreProcess(g))
    <3>1. CASE CheckTokens(f)
      <4>1. tokens'[f] = [i \in DOMAIN tokens[f] |-> [tokens[f][i] EXCEPT !.checked = TRUE]]
        BY <3>1 DEF CheckTokens
      <4> QED BY <4>1
    <3>2. CASE PreProcess(f)
      <4>1. tokens'[f] = [i \in DOMAIN tokens[f] |-> Processed(Head(todo[f]), tokens[f][i])]
        BY <3>2 DEF PreProcess
      <4> QED BY <4>1
    <3> QED BY <2>2, <3>1, <3>2
  <2>3. CASE tokens' = tokens
    BY <2>3
  <2>4. ~CheckTokens(g) /\ ~PreProcess(g) => tokens' = tokens
    BY <1>1 DEF Resolve, RejectSecondField, RejectNoTokens, RejectUnroutable, RejectTokens,
         PreProcessFails, NoToken, PartnerUnreachable, MintFails, Fail, EnterPipeline,
         EnterCheckingHandler, AnswerAlien, GetToken, AwaitToken, fieldVars, PartnerInstructs,
         PartnerPassesThrough, PartnerRefuses, AddCustom, Mint, Deliver
  <2> QED BY <2>1, <2>2, <2>3, <2>4
<1>2. ASSUME NEW g \in Field, TokenExpires(g) PROVE DOMAIN tokens'[f] = DOMAIN tokens[f]
  BY <1>2 DEF TokenExpires
<1>3. ASSUME NEW d \in Documents, Reply(d) PROVE DOMAIN tokens'[f] = DOMAIN tokens[f]
  BY <1>3 DEF Reply
<1>4. CASE Passage \/ UNCHANGED vars
  BY <1>4 DEF Passage, vars, fieldVars
<1> QED BY <1>1, <1>2, <1>3, <1>4 DEF Next

LEMMA InitEntered == Init => Entered
BY DEF Init, Entered

LEMMA StepEntered == FieldsTypeOK /\ Entered /\ [Next]_vars => Entered'
<1> SUFFICES ASSUME FieldsTypeOK, Entered, [Next]_vars, NEW f \in Field
             PROVE  /\ DOMAIN tokens'[f] = DOMAIN req'[f].tokens
                    /\ pc'[f] \in {"preprocess", "check", "mint"} => DOMAIN tokens'[f] # {}
  BY DEF Entered
<1>1. DOMAIN tokens'[f] = DOMAIN tokens[f] /\ req' = req
  BY TokensInPlace, StepCases, Frame DEF OthersUntouched, Idle
<1>2. ASSUME pc[f] \notin {"preprocess", "check", "mint"}, pc'[f] \in {"preprocess", "check", "mint"}
      PROVE  req[f].tokens # <<>>
  <2>1. Resolve(f)
    BY <1>2, StepCases, Frame DEF OthersUntouched, Idle
  <2>2. EnterPipeline(f) \/ EnterCheckingHandler(f)
    BY <1>2, <2>1 DEF FieldsTypeOK, Resolve, RejectSecondField, RejectNoTokens, RejectUnroutable,
         RejectTokens, PreProcess, PreProcessFails, GetToken, AwaitToken, NoToken, HasToken,
         Forwarding, PartnerUnreachable, Posting, MintFails, Minting, Fail, Finish, AnswerAlien,
         CheckTokens, fieldVars, PartnerInstructs, PartnerPassesThrough, PartnerRefuses,
         AddCustom, Mint, Deliver
  <2> QED BY <2>2 DEF EnterPipeline, EnterCheckingHandler, Accepted
<1>3. req[f].tokens # <<>> => DOMAIN req[f].tokens # {}
  <2>1. req[f].tokens \in Seq([scheme: STRING, sub: Subjects \cup {NoSubject}, state: TokenStates])
    BY RequestFields DEF FieldsTypeOK
  <2>2. req[f].tokens # <<>> => Len(req[f].tokens) # 0
    BY <2>1
  <2>3. DOMAIN req[f].tokens = 1 .. Len(req[f].tokens) /\ Len(req[f].tokens) \in Nat
    BY <2>1
  <2>4. Len(req[f].tokens) # 0 => 1 \in DOMAIN req[f].tokens
    BY <2>3
  <2> QED BY <2>2, <2>4
<1> QED BY <1>1, <1>2, <1>3 DEF Entered

-----------------------------------------------------------------------------
(* The exchange uses the client-credentials cache the way its module says.  *)

(* A pipeline that runs has a registered final exchange, and a resolver is  *)
(* inside GetTokenAsync only for it.                                        *)
CallFits(f) ==
  /\ pc[f] = "preprocess" => IsPipeline(f) /\ Final(f) \in Exchanges
  /\ call[f].at # "idle" => Forwarding(f) /\ call[f].exchange = Final(f)
CallForFinal == \A f \in Field : CallFits(f)

LEMMA StepCache == FieldsTypeOK /\ CallForFinal /\ [Next]_vars => [Cache!Next]_cacheVars
<1> SUFFICES ASSUME FieldsTypeOK, CallForFinal, [Next]_vars PROVE [Cache!Next]_cacheVars
  OBVIOUS
<1>1. ASSUME NEW f \in Field, Resolve(f) PROVE [Cache!Next]_cacheVars
  <2>1. CASE GetToken(f)
    <3>1. Final(f) \in Exchanges
      BY <2>1 DEF GetToken, Forwarding, CallForFinal, CallFits
    <3> QED BY <2>1, <3>1 DEF GetToken, Cache!Next
  <2>2. CASE AwaitToken(f)
    BY <2>2 DEF AwaitToken, Cache!Next
  <2>3. CASE Cache!Release(f)
    BY <2>3 DEF Cache!Next
  <2>4. CASE UNCHANGED cacheVars
    BY <2>4
  <2> QED BY <1>1, <2>1, <2>2, <2>3, <2>4
        DEF Resolve, RejectSecondField, RejectNoTokens, RejectUnroutable, RejectTokens, PreProcess,
            PreProcessFails, NoToken, PartnerUnreachable, MintFails, EnterPipeline,
            EnterCheckingHandler, AnswerAlien, CheckTokens, PartnerInstructs,
            PartnerPassesThrough, PartnerRefuses, AddCustom, Mint, Deliver
<1>2. CASE Passage
  BY <1>2 DEF Passage, Cache!Next
<1> QED BY <1>1, <1>2 DEF Next, TokenExpires, Reply, vars

(* Nobody but its resolver moves a field's call of GetTokenAsync.           *)
LEMMA CallFrame ==
  ASSUME TypeOK, NEW f \in Field, Resolve(f), NEW g \in Field, g # f
  PROVE  call'[g] = call[g] /\ answer'[g] = answer[g]
<1> USE DEF TypeOK, Cache!TypeOK
<1>1. CASE GetToken(f)
  BY <1>1 DEF GetToken, Cache!Hit, Cache!Miss
<1>2. CASE AwaitToken(f)
  BY <1>2 DEF AwaitToken, Cache!Progress, Cache!Receive, Cache!Store
<1>3. CASE Cache!Release(f)
  BY <1>3 DEF Cache!Release
<1>4. CASE UNCHANGED cacheVars
  BY <1>4 DEF cacheVars
<1> QED BY <1>1, <1>2, <1>3, <1>4
      DEF Resolve, RejectSecondField, RejectNoTokens, RejectUnroutable, RejectTokens, PreProcess,
          PreProcessFails, NoToken, PartnerUnreachable, MintFails, EnterPipeline,
          EnterCheckingHandler, AnswerAlien, CheckTokens, PartnerInstructs,
          PartnerPassesThrough, PartnerRefuses, AddCustom, Mint, Deliver

LEMMA StepCallForFinal == TypeOK /\ CallForFinal /\ [Next]_vars => CallForFinal'
<1> SUFFICES ASSUME TypeOK, CallForFinal, [Next]_vars, NEW f \in Field
             PROVE  CallFits(f)'
  BY DEF CallForFinal
<1>0. FieldsTypeOK /\ Cache!TypeOK /\ CallFits(f)
  BY DEF TypeOK, CallForFinal
<1>1. req' = req
  BY <1>0, StepCases, Frame DEF OthersUntouched, Idle
<1>2. (IsPipeline(f)' <=> IsPipeline(f)) /\ Final(f)' = Final(f)
  BY <1>1 DEF IsPipeline, Final
<1>3. CASE Resolve(f)
  <2>1. CASE EnterPipeline(f)
    BY <2>1, <1>0, <1>2 DEF EnterPipeline, Accepted, Starting, CallFits, Forwarding,
         FieldsTypeOK, cacheVars
  <2>2. CASE PreProcess(f)
    BY <2>2, <1>0, <1>2 DEF PreProcess, CallFits, Forwarding, FieldsTypeOK, cacheVars
  <2>3. CASE GetToken(f)
    BY <2>3, <1>0, <1>2 DEF GetToken, CallFits, Forwarding, fieldVars, Cache!Hit, Cache!Miss,
         Cache!TypeOK
  <2>4. CASE AwaitToken(f)
    BY <2>4, <1>0, <1>2 DEF AwaitToken, CallFits, Forwarding, Cache!Progress, Cache!Receive,
         Cache!Store, Cache!TypeOK
  <2>5. ASSUME Cache!Release(f), pc'[f] # "preprocess" PROVE CallFits(f)'
    BY <2>5, <1>0 DEF Cache!Release, Cache!TypeOK, CallFits
  <2>6. CASE NoToken(f) \/ PartnerUnreachable(f)
    BY <2>5, <2>6, <1>0 DEF NoToken, PartnerUnreachable, Fail, Finish, FieldsTypeOK
  <2>7. CASE PartnerInstructs(f) \/ PartnerPassesThrough(f) \/ PartnerRefuses(f)
    BY <2>5, <2>7, <1>0 DEF PartnerInstructs, PartnerPassesThrough, PartnerRefuses, Finish,
         FieldsTypeOK
  <2>8. ASSUME UNCHANGED cacheVars, ~Forwarding(f), pc'[f] # "preprocess" PROVE CallFits(f)'
    BY <2>8, <1>0 DEF cacheVars, CallFits
  <2>9. CASE RejectSecondField(f) \/ RejectNoTokens(f) \/ RejectUnroutable(f) \/ RejectTokens(f)
             \/ PreProcessFails(f) \/ MintFails(f)
    BY <2>8, <2>9, <1>0 DEF RejectSecondField, RejectNoTokens, RejectUnroutable, RejectTokens,
         PreProcessFails, MintFails, Minting, Accepted, Starting, Fail, Forwarding, FieldsTypeOK
  <2>10. CASE EnterCheckingHandler(f) \/ AnswerAlien(f) \/ CheckTokens(f) \/ AddCustom(f)
              \/ Mint(f) \/ Deliver(f)
    BY <2>8, <2>10, <1>0 DEF EnterCheckingHandler, AnswerAlien, CheckTokens, AddCustom, Mint,
         Deliver, Minting, Accepted, Starting, Finish, Forwarding, FieldsTypeOK
  <2> QED BY <1>3, <2>1, <2>2, <2>3, <2>4, <2>6, <2>7, <2>9, <2>10 DEF Resolve
<1>4. ASSUME NEW g \in Field, g # f, Resolve(g) PROVE CallFits(f)'
  <2>1. pc'[f] = pc[f] /\ todo'[f] = todo[f] /\ call'[f] = call[f]
    BY <1>4, <1>0, Frame, CallFrame DEF OthersUntouched
  <2> QED BY <2>1, <1>0, <1>2 DEF CallFits, Forwarding
<1>5. CASE Idle
  BY <1>5, <1>0, <1>2 DEF Idle, CallFits, Forwarding
<1> QED BY <1>3, <1>4, <1>5, StepCases

(* The two instances of the cache module mean the same.                     *)
LEMMA SameCache ==
  /\ (CP!TypeOK <=> Cache!TypeOK) /\ (CP!TypeOK' <=> Cache!TypeOK')
  /\ (CP!OwnToken <=> Cache!OwnToken) /\ (CP!OwnToken' <=> Cache!OwnToken')
  /\ ([CP!Next]_CP!vars <=> [Cache!Next]_cacheVars)
  /\ (CP!Init <=> Cache!Init)
BY DEF CP!TypeOK, Cache!TypeOK, CP!OwnToken, Cache!OwnToken, CP!Cached, Cache!Cached,
       CP!CacheKey, Cache!CacheKey, CP!Stages, Cache!Stages, CP!Entry, Cache!Entry,
       CP!Response, Cache!Response, CP!Next, Cache!Next, CP!vars, cacheVars, CP!Hit, Cache!Hit,
       CP!Miss, Cache!Miss, CP!Progress, Cache!Progress, CP!Receive, Cache!Receive, CP!Store,
       Cache!Store, CP!Release, Cache!Release, CP!Tick, Cache!Tick, CP!AfterTick,
       Cache!AfterTick, CP!Older, Cache!Older, CP!AuthorityToggles, Cache!AuthorityToggles,
       CP!Init, Cache!Init, CP!Blank, Cache!Blank, CP!Nowhere, Cache!Nowhere

LEMMA CacheHypotheses ==
  /\ Exchanges # {} /\ SlidingExpiration \in Nat \ {0} /\ TokenLifetime \in Nat \ {0}
  /\ NoEntry \notin CP!Entry
BY CacheAssumption DEF CP!Entry, Cache!Entry, CP!Response, Cache!Response

(* The inductive invariant everything below builds on.                      *)
Sound == TypeOK /\ Entered /\ CallForFinal /\ Cache!OwnToken

LEMMA InitSound == Init => Sound
<1> SUFFICES ASSUME Init PROVE Sound
  OBVIOUS
<1>1. Cache!TypeOK /\ Cache!OwnToken
  BY SameCache, CacheHypotheses, CP!InitTypeOK, CP!InitOwnToken DEF Init
<1>2. CallForFinal
  BY DEF Init, Cache!Init, CallForFinal, CallFits
<1> QED BY <1>1, <1>2, InitFields, InitEntered DEF Sound, TypeOK

LEMMA StepSound == Sound /\ [Next]_vars => Sound'
<1> SUFFICES ASSUME Sound, [Next]_vars PROVE Sound'
  OBVIOUS
<1>0. TypeOK /\ FieldsTypeOK /\ Entered /\ CallForFinal /\ Cache!TypeOK /\ Cache!OwnToken
  BY DEF Sound, TypeOK
<1>1. [Cache!Next]_cacheVars
  BY <1>0, StepCache
<1>2. Cache!TypeOK' /\ Cache!OwnToken'
  BY <1>0, <1>1, SameCache, CacheHypotheses, CP!StepTypeOK, CP!StepOwnToken
<1>3. FieldsTypeOK' /\ Entered' /\ CallForFinal'
  BY <1>0, StepFields, StepEntered, StepCallForFinal
<1> QED BY <1>2, <1>3 DEF Sound, TypeOK

LEMMA AlwaysSound == Spec => []Sound
BY InitSound, StepSound, PTL DEF Spec

(* Every reachable state of the token exchange is well typed.               *)
THEOREM ExchangeTypeCorrect == Spec => []TypeOK
<1>1. Sound => TypeOK
  BY DEF Sound
<1> QED BY <1>1, AlwaysSound, PTL

(* The token exchange, with one caller for each field, implements the       *)
(* client-credentials cache: whatever is true of the cache alone is true of *)
(* it inside the exchange.                                                  *)
THEOREM ExchangeImplementsCache == Spec => Cache!Spec
<1>1. Sound /\ [Next]_vars => [Cache!Next]_(Cache!vars)
  BY StepCache DEF Sound, TypeOK, Cache!vars, cacheVars
<1>2. Init => Cache!Init
  BY DEF Init
<1> QED BY <1>1, <1>2, AlwaysSound, PTL DEF Spec, Cache!Spec

-----------------------------------------------------------------------------
(* One field of a document is served.  Served alone is not inductive: what  *)
(* keeps a second field out is that a busy field has logged its query.      *)
Busy(f) == pc[f] \in {"preprocess", "check", "mint"} \/ Served(f)
Logged  == \A f \in Field : Busy(f) => "query" \in summary[Doc(f)]
Alone   == \A f, g \in Field : Doc(f) = Doc(g) /\ Busy(f) /\ Busy(g) => f = g
Settled == \A f \in Field : pc[f] = "done" <=> outcome[f] # "open"

(* A field gets busy only by being the first of its document to log.        *)
LEMMA GettingBusy ==
  ASSUME FieldsTypeOK, NEW f \in Field, Resolve(f), Busy(f)', ~Busy(f)
  PROVE  FirstInScope(f) /\ "query" \in summary'[Doc(f)]
<1>0. Doc(f) \in Documents
  BY FieldPair
<1>1. EnterPipeline(f) \/ EnterCheckingHandler(f) \/ AnswerAlien(f)
  BY DEF Resolve, Busy, Served, FieldsTypeOK, RejectSecondField, RejectNoTokens, RejectUnroutable,
       RejectTokens, PreProcess, PreProcessFails, GetToken, AwaitToken, NoToken, HasToken,
       Forwarding, PartnerUnreachable, Posting, MintFails, Minting, Fail, Finish, CheckTokens,
       fieldVars, PartnerInstructs, PartnerPassesThrough, PartnerRefuses, AddCustom, Mint,
       Deliver
<1>2. FirstInScope(f)
  BY <1>1 DEF EnterPipeline, EnterCheckingHandler, AnswerAlien, Accepted
<1>3. "query" \in summary'[Doc(f)]
  BY <1>0, <1>1 DEF EnterPipeline, EnterCheckingHandler, AnswerAlien, Finish, EntryKeys,
       FieldsTypeOK
<1> QED BY <1>2, <1>3

LEMMA OthersStayBusy ==
  ASSUME FieldsTypeOK, NEW f \in Field, Resolve(f), NEW g \in Field, g # f
  PROVE  Busy(g)' <=> Busy(g)
BY Frame DEF OthersUntouched, Busy, Served

LEMMA InitAlone == Init => Logged /\ Alone /\ Settled
BY DEF Init, Logged, Alone, Settled, Busy, Served

LEMMA StepAlone == FieldsTypeOK /\ Logged /\ Alone /\ [Next]_vars => Logged' /\ Alone'
<1> SUFFICES ASSUME FieldsTypeOK, Logged, Alone, [Next]_vars PROVE Logged' /\ Alone'
  OBVIOUS
<1>1. ASSUME NEW h \in Field, Resolve(h) PROVE Logged' /\ Alone'
  <2>1. \A d \in Documents : summary[d] \subseteq summary'[d]
    BY <1>1, Frame DEF OthersUntouched
  <2>2. ASSUME NEW f \in Field, Busy(f)' PROVE "query" \in summary'[Doc(f)]
    <3>1. CASE Busy(f)
      BY <3>1, <2>1, FieldPair DEF Logged
    <3>2. CASE ~Busy(f)
      BY <3>2, <2>2, <1>1, OthersStayBusy, GettingBusy
    <3> QED BY <3>1, <3>2
  <2>3. ASSUME NEW f \in Field, NEW g \in Field, Doc(f) = Doc(g), Busy(f)', Busy(g)' PROVE f = g
    <3>1. CASE Busy(f) /\ Busy(g)
      BY <3>1, <2>3 DEF Alone
    <3>2. CASE ~Busy(f)
      <4>1. f = h /\ FirstInScope(f)
        BY <3>2, <2>3, <1>1, OthersStayBusy, GettingBusy
      <4>2. ~Busy(g)
        BY <4>1, <2>3 DEF FirstInScope, Logged
      <4> QED BY <4>1, <4>2, <2>3, <1>1, OthersStayBusy
    <3>3. CASE ~Busy(g)
      <4>1. g = h /\ FirstInScope(g)
        BY <3>3, <2>3, <1>1, OthersStayBusy, GettingBusy
      <4>2. ~Busy(f)
        BY <4>1, <2>3 DEF FirstInScope, Logged
      <4> QED BY <4>1, <4>2, <2>3, <1>1, OthersStayBusy
    <3> QED BY <3>1, <3>2, <3>3
  <2> QED BY <2>2, <2>3 DEF Logged, Alone, Doc
<1>2. CASE Idle
  BY <1>2 DEF Idle, Logged, Alone, Busy, Served
<1> QED BY <1>1, <1>2, StepCases

LEMMA AlwaysAlone == Spec => [](Sound /\ Logged /\ Alone)
<1>1. Sound => FieldsTypeOK
  BY DEF Sound, TypeOK
<1>2. Sound /\ Logged /\ Alone /\ [Next]_vars => (Sound /\ Logged /\ Alone)'
  BY <1>1, StepSound, StepAlone
<1> QED BY <1>2, InitSound, InitAlone, PTL DEF Spec

(* Whatever fields a document holds, at most one is served.                 *)
THEOREM OneFieldOfADocument == Spec => []OneFieldServed
<1>1. Alone => OneFieldServed
  BY DEF Alone, Busy, OneFieldServed
<1> QED BY <1>1, AlwaysAlone, PTL

-----------------------------------------------------------------------------
(* The contract: a step of a resolver settles its field or is invisible.    *)
LEMMA HowSettled ==
  ASSUME FieldsTypeOK, CallForFinal, NEW f \in Field, Resolve(f)
  PROVE  \/ pc'[f] # "done" /\ pc[f] # "done" /\ outcome' = outcome
         \/ /\ pc'[f] = "done" /\ pc[f] # "done"
            /\ \E result \in {"payload", "null", "error"} :
                 outcome' = [outcome EXCEPT ![f] = result]
<1> DEFINE Ends == /\ pc'[f] = "done"
                   /\ \E result \in {"payload", "null", "error"} :
                        outcome' = [outcome EXCEPT ![f] = result]
<1> USE DEF FieldsTypeOK
<1>1. ASSUME NEW keys, Fail(f, keys) PROVE Ends
  BY <1>1 DEF Fail
<1>2. ASSUME NEW keys, NEW result \in {"payload", "null", "error"}, Finish(f, result, keys) PROVE Ends
  BY <1>2 DEF Finish
<1>3. CASE RejectSecondField(f) \/ RejectNoTokens(f) \/ RejectUnroutable(f) \/ RejectTokens(f)
  BY <1>1, <1>3 DEF RejectSecondField, RejectNoTokens, RejectUnroutable, RejectTokens, Accepted,
       Starting
<1>4. CASE PreProcessFails(f) \/ NoToken(f) \/ MintFails(f)
  BY <1>1, <1>4 DEF PreProcessFails, NoToken, MintFails, HasToken, Forwarding, Minting
<1>5. CASE AnswerAlien(f) \/ Deliver(f) \/ PartnerPassesThrough(f) \/ PartnerRefuses(f)
          \/ PartnerUnreachable(f)
  BY <1>2, <1>5 DEF AnswerAlien, Accepted, Starting, Deliver, PartnerPassesThrough, PartnerRefuses,
       PartnerUnreachable, Posting, HasToken, Forwarding
<1>6. CASE EnterPipeline(f) \/ EnterCheckingHandler(f) \/ CheckTokens(f) \/ PartnerInstructs(f)
  BY <1>6 DEF EnterPipeline, EnterCheckingHandler, CheckTokens, PartnerInstructs, Posting,
       Accepted, Starting, HasToken, Forwarding
<1>7. CASE PreProcess(f) \/ GetToken(f) \/ AddCustom(f) \/ Mint(f)
  BY <1>7 DEF PreProcess, GetToken, AddCustom, Mint, Minting, Forwarding, fieldVars
<1>8. CASE AwaitToken(f)
  <2>1. call[f].at # "idle"
    BY <1>8 DEF AwaitToken, Cache!Progress, Cache!Receive, Cache!Store
  <2>2. pc[f] = "preprocess"
    BY <2>1 DEF CallForFinal, CallFits, Forwarding
  <2> QED BY <1>8, <2>2 DEF AwaitToken
<1> QED BY <1>3, <1>4, <1>5, <1>6, <1>7, <1>8 DEF Resolve

LEMMA StepSettled == FieldsTypeOK /\ CallForFinal /\ Settled /\ [Next]_vars => Settled'
<1> SUFFICES ASSUME FieldsTypeOK, CallForFinal, Settled, [Next]_vars, NEW f \in Field
             PROVE  pc'[f] = "done" <=> outcome'[f] # "open"
  BY DEF Settled
<1>0. pc[f] = "done" <=> outcome[f] # "open"
  BY DEF Settled
<1>1. CASE Resolve(f)
  BY <1>0, <1>1, HowSettled DEF FieldsTypeOK
<1>2. ASSUME NEW g \in Field, g # f, Resolve(g) PROVE pc'[f] = "done" <=> outcome'[f] # "open"
  BY <1>0, <1>2, Frame DEF OthersUntouched
<1>3. CASE Idle
  BY <1>0, <1>3 DEF Idle
<1> QED BY <1>1, <1>2, <1>3, StepCases

(* Each step of the exchange is a step of its contract or changes nothing   *)
(* the contract speaks of.                                                  *)
LEMMA StepContract ==
  Sound /\ Alone /\ Logged /\ Settled /\ [Next]_vars /\ Alone' => [Contract!Next]_(Contract!vars)
<1> SUFFICES ASSUME Sound, Alone, Logged, Settled, [Next]_vars, Alone'
             PROVE  [Contract!Next]_(Contract!vars)
  OBVIOUS
<1>0. FieldsTypeOK /\ CallForFinal
  BY DEF Sound, TypeOK
<1>1. ASSUME NEW f \in Field, Resolve(f) PROVE [Contract!Next]_(Contract!vars)
  <2>0. f \in Contract!Field /\ UNCHANGED http
    BY <1>0, <1>1, Frame DEF Field, Contract!Field, OthersUntouched
  <2>1. CASE outcome' = outcome
    BY <2>0, <2>1 DEF Contract!vars
  <2>2. CASE outcome' # outcome
    <3>1. outcome[f] = "open"
      BY <1>0, <1>1, <2>2, HowSettled DEF Settled
    <3>2. PICK result \in {"payload", "null", "error"} : outcome' = [outcome EXCEPT ![f] = result]
      BY <1>0, <1>1, <2>2, HowSettled
    <3>3. CASE result = "error"
      BY <3>1, <3>2, <3>3, <2>0 DEF Contract!GoWrong, Contract!Next
    <3>4. CASE result \in {"payload", "null"}
      <4>1. Busy(f)'
        BY <3>2, <3>4, <1>0 DEF Busy, Served, FieldsTypeOK
      <4>2. ASSUME NEW g \in Contract!Siblings(f) PROVE outcome[g] \in {"open", "error"}
        <5>1. g \in Field /\ g # f /\ Doc(g) = Doc(f)
          BY DEF Contract!Siblings, Contract!Field, Field, Doc
        <5>2. ~Busy(g)'
          BY <4>1, <5>1 DEF Alone, Doc
        <5>3. ~Served(g)
          BY <5>1, <5>2, <1>0, <1>1, OthersStayBusy DEF Busy
        <5> QED BY <5>1, <5>3, <1>0 DEF Served, FieldsTypeOK, Outcomes
      <4>3. Contract!Succeed(f)
        BY <3>1, <3>2, <3>4, <4>2, <2>0 DEF Contract!Succeed
      <4> QED BY <4>3, <2>0 DEF Contract!Next
    <3> QED BY <3>3, <3>4
  <2> QED BY <2>1, <2>2
<1>2. ASSUME NEW d \in Documents, Reply(d) PROVE [Contract!Next]_(Contract!vars)
  <2>1. \A f \in Contract!Field : f[1] = d <=> f \in Siblings(d)
    BY DEF Contract!Field, Field, Siblings, Doc
  <2>2. Siblings(d) \subseteq Contract!Field
    BY DEF Contract!Field, Field, Siblings
  <2>3. \A f \in Contract!Field : f[1] = d => outcome[f] # "open"
    BY <1>2, <2>1 DEF Reply, Settled, Siblings
  <2>4. (\E f \in Siblings(d) : outcome[f] = "error")
          <=> \E f \in Contract!Field : f[1] = d /\ outcome[f] = "error"
    BY <2>1, <2>2
  <2>5. Contract!Answer(d)
    <3>1. CASE \E f \in Siblings(d) : outcome[f] = "error"
      BY <1>2, <2>3, <2>4, <3>1 DEF Reply, Contract!Answer
    <3>2. CASE ~ \E f \in Siblings(d) : outcome[f] = "error"
      BY <1>2, <2>3, <2>4, <3>2 DEF Reply, Contract!Answer
    <3> QED BY <3>1, <3>2
  <2> QED BY <2>5 DEF Contract!Next
<1>3. ASSUME NEW f \in Field, TokenExpires(f) PROVE [Contract!Next]_(Contract!vars)
  BY <1>3 DEF TokenExpires, Contract!vars
<1>4. CASE Passage \/ UNCHANGED vars
  BY <1>4 DEF Passage, vars, fieldVars, Contract!vars
<1> QED BY <1>1, <1>2, <1>3, <1>4 DEF Next

(* The exchange implements its contract: fields are settled once, one of a  *)
(* document succeeds at most, and the status tells of every error.          *)
THEOREM ExchangeKeepsContract == Spec => KeepsContract
<1>1. Init => Contract!Init
  BY DEF Init, Contract!Init, Field, Contract!Field
<1>2. Sound /\ Alone /\ Logged /\ Settled /\ [Next]_vars => (Sound /\ Alone /\ Logged /\ Settled)'
  BY StepSound, StepAlone, StepSettled DEF Sound, TypeOK
<1> QED BY <1>1, <1>2, InitSound, InitAlone, StepContract, PTL DEF Spec, KeepsContract, Contract!Spec

-----------------------------------------------------------------------------
(* What a partner gets.                                                     *)

(* Only a resolver that has its access token posts, and it posts the tokens *)
(* it holds.                                                                *)
LEMMA HowPosted ==
  ASSUME FieldsTypeOK, [Next]_vars, NEW f \in Field, posted'[f] # posted[f]
  PROVE  /\ HasToken(f) /\ answer[f].ok /\ pc'[f] # "preprocess"
         /\ posted'[f] = [tokens |-> tokens[f], bearer |-> answer[f]]
<1>1. Resolve(f)
  BY StepCases, Frame DEF OthersUntouched, Idle
<1>2. \/ PartnerInstructs(f) \/ PartnerPassesThrough(f) \/ PartnerRefuses(f)
      \/ PartnerUnreachable(f) /\ Posting(f)
  BY <1>1 DEF Resolve, RejectSecondField, RejectNoTokens, RejectUnroutable, RejectTokens,
       PreProcess, PreProcessFails, GetToken, AwaitToken, NoToken, PartnerUnreachable, MintFails,
       Fail, CheckTokens, fieldVars, EnterPipeline, EnterCheckingHandler, AnswerAlien,
       AddCustom, Mint, Deliver
<1> QED BY <1>2 DEF PartnerInstructs, PartnerPassesThrough, PartnerRefuses, PartnerUnreachable,
         Posting, Finish, FieldsTypeOK

LEMMA SameRequest ==
  ASSUME FieldsTypeOK, [Next]_vars
  PROVE  req' = req
BY StepCases, Frame DEF OthersUntouched, Idle

(* The access token is the one GetTokenAsync returned for this exchange.    *)
LEMMA StepBearer == Sound /\ BearerOfFinalExchange /\ [Next]_vars => BearerOfFinalExchange'
<1> SUFFICES ASSUME Sound, BearerOfFinalExchange, [Next]_vars, NEW f \in Field, Posted(f)'
             PROVE  posted'[f].bearer.ok /\ posted'[f].bearer.exchange = Final(f)'
  BY DEF BearerOfFinalExchange
<1>0. FieldsTypeOK /\ CallForFinal /\ Cache!OwnToken
  BY DEF Sound, TypeOK
<1>1. Final(f)' = Final(f)
  BY <1>0, SameRequest DEF Final
<1>2. CASE posted'[f] = posted[f]
  BY <1>1, <1>2 DEF BearerOfFinalExchange, Posted
<1>3. CASE posted'[f] # posted[f]
  <2>1. call[f].at = "returned" /\ answer[f].ok /\ posted'[f].bearer = answer[f]
    <3>1. HasToken(f) /\ answer[f].ok
      BY <1>0, <1>3, HowPosted
    <3>2. posted'[f] = [tokens |-> tokens[f], bearer |-> answer[f]]
      BY <1>0, <1>3, HowPosted
    <3> QED BY <3>1, <3>2 DEF HasToken
  <2>2. answer[f].exchange = call[f].exchange /\ call[f].exchange = Final(f)
    BY <2>1, <1>0 DEF Cache!OwnToken, CallForFinal, CallFits
  <2> QED BY <2>1, <2>2, <1>1
<1> QED BY <1>2, <1>3

(* No request, whatever others leave in the shared cache, calls its partner *)
(* with an error response or with another exchange's access token.          *)
THEOREM RightBearer == Spec => []BearerOfFinalExchange
<1>1. Init => BearerOfFinalExchange
  BY DEF Init, BearerOfFinalExchange, Posted
<1> QED BY <1>1, StepBearer, AlwaysSound, PTL DEF Spec

(* The tokens a resolver holds: signatures only go, acceptance only comes.  *)
LEMMA TokensEvolve ==
  ASSUME Sound, [Next]_vars, NEW f \in Field, NEW i \in DOMAIN tokens[f]
  PROVE  /\ tokens'[f][i].scheme = tokens[f][i].scheme
         /\ tokens'[f][i].sub = tokens[f][i].sub
         /\ tokens[f][i].checked => tokens'[f][i].checked
         /\ tokens'[f][i].signed => tokens[f][i].signed
<1>0. FieldsTypeOK /\ tokens[f] \in Seq(TokenType)
  BY DEF Sound, TypeOK, FieldsTypeOK
<1>1. tokens[f][i] \in TokenType
  BY <1>0, ElementOf
<1>2. CASE tokens'[f] = tokens[f]
  BY <1>2
<1>3. CASE CheckTokens(f)
  <2>1. tokens'[f][i] = [tokens[f][i] EXCEPT !.checked = TRUE]
    BY <1>0, <1>3 DEF CheckTokens, FieldsTypeOK
  <2> QED BY <2>1, <1>1 DEF TokenType
<1>4. CASE PreProcess(f)
  <2>1. tokens'[f][i] = Processed(Head(todo[f]), tokens[f][i])
    BY <1>0, <1>4 DEF PreProcess, FieldsTypeOK
  <2> QED BY <2>1, <1>1 DEF TokenType, Processed
<1>5. CASE TokenExpires(f)
  <2>1. PICK j \in DOMAIN tokens[f] : tokens' = [tokens EXCEPT ![f][j].state = "expired"]
    BY <1>5 DEF TokenExpires
  <2>2. tokens'[f][i] = IF i = j THEN [tokens[f][i] EXCEPT !.state = "expired"] ELSE tokens[f][i]
    BY <2>1, <1>0 DEF FieldsTypeOK
  <2> QED BY <2>2, <1>1 DEF TokenType
<1>6. ASSUME NEW g \in Field, Resolve(g), ~(g = f /\ (CheckTokens(f) \/ PreProcess(f)))
      PROVE  tokens'[f] = tokens[f]
  <2>1. CASE g # f
    BY <2>1, <1>0, <1>6, Frame DEF OthersUntouched
  <2>2. CASE g = f
    BY <2>2, <1>6 DEF Resolve, RejectSecondField, RejectNoTokens, RejectUnroutable, RejectTokens,
         PreProcessFails, NoToken, PartnerUnreachable, MintFails, Fail, EnterPipeline,
         EnterCheckingHandler, AnswerAlien, GetToken, AwaitToken, fieldVars, PartnerInstructs,
         PartnerPassesThrough, PartnerRefuses, AddCustom, Mint, Deliver
  <2> QED BY <2>1, <2>2
<1>7. ASSUME NEW g \in Field, TokenExpires(g), g # f PROVE tokens'[f] = tokens[f]
  BY <1>0, <1>7 DEF TokenExpires, FieldsTypeOK
<1>8. ASSUME NEW d \in Documents, Reply(d) PROVE tokens'[f] = tokens[f]
  BY <1>8 DEF Reply
<1>9. CASE Passage \/ UNCHANGED vars
  BY <1>9 DEF Passage, vars, fieldVars
<1> QED BY <1>2, <1>3, <1>4, <1>5, <1>6, <1>7, <1>8, <1>9 DEF Next

(* The loop over the pre-processors: as soon as one of them is through, no  *)
(* token is signed any more.                                                *)
Unsigned(list) == \A i \in DOMAIN list : ~list[i].signed

Stripping(f) ==
  /\ pc[f] = "preprocess" => todo[f] = Preprocessors(f) \/ Unsigned(tokens[f])
  /\ Posted(f) /\ Preprocessors(f) # <<>> => Unsigned(posted[f].tokens)
Stripped == \A f \in Field : Stripping(f)

(* What the resolver's position in the loop says is kept by every step that *)
(* is neither the entry into the loop nor a round of it.                    *)
LEMMA LoopPosition ==
  ASSUME Sound, [Next]_vars, NEW f \in Field, pc'[f] = "preprocess"
  PROVE  \/ EnterPipeline(f)
         \/ PreProcess(f)
         \/ pc[f] = "preprocess" /\ todo'[f] = todo[f] /\ (Unsigned(tokens[f]) => Unsigned(tokens'[f]))
<1>0. FieldsTypeOK /\ CallForFinal
  BY DEF Sound, TypeOK
<1>1. ASSUME Resolve(f), ~EnterPipeline(f), ~PreProcess(f)
      PROVE  pc[f] = "preprocess" /\ todo'[f] = todo[f]
  BY <1>0, <1>1 DEF Resolve, RejectSecondField, RejectNoTokens, RejectUnroutable, RejectTokens,
       PreProcessFails, GetToken, AwaitToken, NoToken, PartnerUnreachable, MintFails, Fail, Finish,
       CheckTokens, fieldVars, EnterCheckingHandler, AnswerAlien, PartnerInstructs,
       PartnerPassesThrough, PartnerRefuses, AddCustom, Mint, Minting, Deliver, FieldsTypeOK
<1>2. ASSUME NEW g \in Field, Resolve(g), g # f PROVE pc[f] = "preprocess" /\ todo'[f] = todo[f]
  BY <1>0, <1>2, Frame DEF OthersUntouched
<1>3. ASSUME Idle PROVE pc[f] = "preprocess" /\ todo'[f] = todo[f]
  BY <1>3 DEF Idle
<1>4. Unsigned(tokens[f]) => Unsigned(tokens'[f])
  BY <1>0, TokensEvolve, TokensInPlace DEF Unsigned
<1> QED BY <1>1, <1>2, <1>3, <1>4, StepCases

LEMMA StepStripped == Sound /\ Stripped /\ [Next]_vars => Stripped'
<1> SUFFICES ASSUME Sound, Stripped, [Next]_vars, NEW f \in Field PROVE Stripping(f)'
  BY DEF Stripped
<1>0. FieldsTypeOK /\ CallForFinal /\ Stripping(f)
  BY DEF Sound, TypeOK, Stripped
<1>1. Preprocessors(f)' = Preprocessors(f)
  BY <1>0, SameRequest DEF Preprocessors
<1>2. ASSUME pc'[f] = "preprocess" PROVE todo'[f] = Preprocessors(f) \/ Unsigned(tokens'[f])
  <2>1. CASE EnterPipeline(f)
    BY <2>1, <1>0 DEF EnterPipeline, Preprocessors, FieldsTypeOK
  <2>2. CASE PreProcess(f)
    <3>1. tokens'[f] = [i \in DOMAIN tokens[f] |-> Processed(Head(todo[f]), tokens[f][i])]
      BY <2>2, <1>0 DEF PreProcess, FieldsTypeOK
    <3>2. ASSUME NEW i \in DOMAIN tokens[f] PROVE ~tokens'[f][i].signed
      <4>1. tokens[f][i] \in TokenType
        BY <1>0, ElementOf DEF FieldsTypeOK
      <4>2. tokens'[f][i] = Processed(Head(todo[f]), tokens[f][i])
        BY <3>1
      <4>3. \A p, t : t \in TokenType => ~Processed(p, t).signed
        BY DEF Processed, TokenType
      <4> QED BY <4>1, <4>2, <4>3
    <3> QED BY <3>1, <3>2 DEF Unsigned
  <2> QED BY <1>0, <1>2, <2>1, <2>2, LoopPosition DEF Stripping
<1>3. ASSUME Posted(f)', Preprocessors(f) # <<>> PROVE Unsigned(posted'[f].tokens)
  <2>1. CASE posted'[f] = posted[f]
    BY <1>0, <1>3, <2>1 DEF Stripping, Posted
  <2>2. CASE posted'[f] # posted[f]
    <3>1. HasToken(f) /\ posted'[f] = [tokens |-> tokens[f], bearer |-> answer[f]]
      BY <1>0, <2>2, HowPosted
    <3>2. posted'[f].tokens = tokens[f]
      BY <3>1
    <3> QED BY <1>0, <1>3, <3>1, <3>2 DEF HasToken, Forwarding, Stripping
  <2> QED BY <2>1, <2>2
<1> QED BY <1>1, <1>2, <1>3 DEF Stripping

(* A partner behind any pre-processor never gets a signed token.            *)
THEOREM SignaturesStayHere == Spec => []StrippedBeforePosting
<1>1. Init => Stripped
  BY DEF Init, Stripped, Stripping, Posted
<1>2. Stripped => StrippedBeforePosting
  BY DEF Stripped, Stripping, StrippedBeforePosting, Unsigned
<1> QED BY <1>1, <1>2, StepStripped, AlwaysSound, PTL DEF Spec

(* The same loop for validation: until the validating pre-processor has had *)
(* its round it is still to come.  An OIDC token it lets pass was accepted. *)
Cleared(list) == \A i \in DOMAIN list : list[i].scheme \in OidcSchemes => list[i].checked
ToCome(list)  == \E i \in DOMAIN list : list[i] \in Validating

Clearing(f) ==
  /\ pc[f] = "preprocess" /\ HasValidation(f) => ToCome(todo[f]) \/ Cleared(tokens[f])
  /\ Posted(f) /\ HasValidation(f) => Cleared(posted[f].tokens)
AllCleared == \A f \in Field : Clearing(f)

LEMMA StepCleared == Sound /\ AllCleared /\ [Next]_vars => AllCleared'
<1> SUFFICES ASSUME Sound, AllCleared, [Next]_vars, NEW f \in Field PROVE Clearing(f)'
  BY DEF AllCleared
<1>0. FieldsTypeOK /\ CallForFinal /\ Clearing(f)
  BY DEF Sound, TypeOK, AllCleared
<1>1. HasValidation(f)' <=> HasValidation(f)
  BY <1>0, SameRequest DEF HasValidation, Preprocessors
<1>2. Cleared(tokens[f]) => Cleared(tokens'[f])
  BY <1>0, TokensEvolve, TokensInPlace DEF Cleared
<1>3. ASSUME pc'[f] = "preprocess", HasValidation(f) PROVE ToCome(todo'[f]) \/ Cleared(tokens'[f])
  <2>1. CASE EnterPipeline(f)
    BY <2>1, <1>3, <1>0 DEF EnterPipeline, HasValidation, Preprocessors, ToCome, FieldsTypeOK
  <2>2. CASE PreProcess(f)
    <3>0. pc[f] = "preprocess" /\ todo[f] # <<>> /\ todo[f] \in Seq(STRING) /\ todo'[f] = Tail(todo[f])
      BY <2>2, <1>0 DEF PreProcess, FieldsTypeOK
    <3>1. CASE Head(todo[f]) \in Validating
      <4>1. tokens'[f] = [i \in DOMAIN tokens[f] |-> Processed(Head(todo[f]), tokens[f][i])]
        BY <2>2, <1>0 DEF PreProcess, FieldsTypeOK
      <4>2. ASSUME NEW i \in DOMAIN tokens[f], tokens'[f][i].scheme \in OidcSchemes
            PROVE  tokens'[f][i].checked
        <5>1. tokens[f][i] \in TokenType
          BY <1>0, ElementOf DEF FieldsTypeOK
        <5>2. ~Throws(tokens[f][i]) /\ tokens[f][i].scheme \in OidcSchemes
          <6>1. ~Chokes(Head(todo[f]), tokens[f][i])
            BY <2>2 DEF PreProcess
          <6>2. tokens'[f][i].scheme = tokens[f][i].scheme
            BY <4>1, <5>1 DEF Processed, TokenType
          <6> QED BY <3>1, <4>2, <6>1, <6>2 DEF Chokes
        <5>3. Valid(tokens[f][i])
          BY <5>2, SchemesAssumption DEF Throws
        <5> QED BY <3>1, <4>1, <5>1, <5>3 DEF Processed, TokenType
      <4> QED BY <4>1, <4>2 DEF Cleared
    <3>2. CASE Head(todo[f]) \notin Validating
      <4>1. CASE ToCome(todo[f])
        <5>1. PICK i \in DOMAIN todo[f] : todo[f][i] \in Validating
          BY <4>1 DEF ToCome
        <5>2. i # 1 /\ i \in 1 .. Len(todo[f])
          BY <3>0, <3>2, <5>1
        <5>3. i - 1 \in DOMAIN Tail(todo[f]) /\ Tail(todo[f])[i - 1] = todo[f][i]
          BY <3>0, <5>2
        <5> QED BY <3>0, <5>1, <5>3 DEF ToCome
      <4>2. CASE Cleared(tokens[f])
        BY <4>2, <1>2
      <4> QED BY <3>0, <4>1, <4>2, <1>0, <1>3 DEF Clearing
    <3> QED BY <3>1, <3>2
  <2>3. CASE pc[f] = "preprocess" /\ todo'[f] = todo[f]
    BY <2>3, <1>0, <1>2, <1>3 DEF Clearing
  <2> QED BY <1>3, <2>1, <2>2, <2>3, LoopPosition
<1>4. ASSUME Posted(f)', HasValidation(f) PROVE Cleared(posted'[f].tokens)
  <2>1. CASE posted'[f] = posted[f]
    BY <1>0, <1>4, <2>1 DEF Clearing, Posted
  <2>2. CASE posted'[f] # posted[f]
    <3>1. HasToken(f) /\ posted'[f] = [tokens |-> tokens[f], bearer |-> answer[f]]
      BY <1>0, <2>2, HowPosted
    <3>2. posted'[f].tokens = tokens[f]
      BY <3>1
    <3>3. ~ToCome(todo[f]) /\ pc[f] = "preprocess"
      BY <3>1 DEF HasToken, Forwarding, ToCome
    <3> QED BY <1>0, <1>4, <3>2, <3>3 DEF Clearing
  <2> QED BY <2>1, <2>2
<1> QED BY <1>1, <1>3, <1>4 DEF Clearing

(* Wherever validation stands among the pre-processors, every OIDC token    *)
(* that reaches a partner behind it was accepted by its validator.          *)
THEOREM OidcTokensAreChecked == Spec => []OidcCheckedBeforePosting
<1>1. Init => AllCleared
  BY DEF Init, AllCleared, Clearing, Posted
<1>2. AllCleared => OidcCheckedBeforePosting
  BY DEF AllCleared, Clearing, OidcCheckedBeforePosting, CheckedBeforePosting, Cleared
<1> QED BY <1>1, <1>2, StepCleared, AlwaysSound, PTL DEF Spec

-----------------------------------------------------------------------------
(* In-process handlers mint after all tokens were accepted, for the first.  *)
Accepting(f) ==
  /\ \A i \in DOMAIN tokens[f] : tokens[f][i].sub = req[f].tokens[i].sub
  /\ (pc[f] = "mint" \/ minted[f] # <<>>) /\ ~IsPipeline(f) =>
       /\ \A i \in DOMAIN tokens[f] : tokens[f][i].checked
       /\ req[f].tokens[1].sub # NoSubject
  /\ ~IsPipeline(f) =>
       \A j \in DOMAIN minted[f] : minted[f][j].sub = req[f].tokens[1].sub
AllAccepting == \A f \in Field : Accepting(f)

LEMMA HowMinted ==
  ASSUME Sound, [Next]_vars, NEW f \in Field, ~IsPipeline(f),
         pc'[f] = "mint" \/ minted'[f] # <<>>
  PROVE  \/ CheckTokens(f) /\ minted'[f] = minted[f]
         \/ /\ pc[f] = "mint" \/ minted[f] # <<>>
            /\ \/ minted'[f] = minted[f]
               \/ /\ pc[f] = "mint"
                  /\ minted'[f] = Append(minted[f], [kind |-> NextKind(f), sub |-> MintSubject(f)])
<1>0. FieldsTypeOK /\ CallForFinal
  BY DEF Sound, TypeOK
<1>1. CASE Resolve(f)
  <2>1. CASE Mint(f)
    BY <2>1, <1>0 DEF Mint, Minting, FieldsTypeOK
  <2>2. CASE PartnerInstructs(f)
    BY <2>2 DEF PartnerInstructs, Posting, HasToken, Forwarding, CallForFinal, CallFits, Sound
  <2>3. ASSUME ~Mint(f) PROVE minted'[f] = minted[f]
    BY <1>1, <2>3 DEF Resolve, RejectSecondField, RejectNoTokens, RejectUnroutable, RejectTokens,
       PreProcess, PreProcessFails, GetToken, AwaitToken, NoToken, PartnerUnreachable, MintFails,
       Fail, CheckTokens, fieldVars, EnterPipeline, EnterCheckingHandler, AnswerAlien,
       PartnerInstructs, PartnerPassesThrough, PartnerRefuses, AddCustom, Deliver
  <2>4. ASSUME ~Mint(f), ~PartnerInstructs(f), ~CheckTokens(f), pc'[f] = "mint" PROVE pc[f] = "mint"
    BY <1>0, <1>1, <2>4 DEF Resolve, RejectSecondField, RejectNoTokens, RejectUnroutable,
       RejectTokens, PreProcess, PreProcessFails, GetToken, AwaitToken, NoToken,
       PartnerUnreachable, MintFails, Fail, Finish, fieldVars, EnterPipeline,
       EnterCheckingHandler, AnswerAlien, PartnerPassesThrough, PartnerRefuses, AddCustom,
       Minting, Deliver, FieldsTypeOK
  <2> QED BY <2>1, <2>2, <2>3, <2>4
<1>2. ASSUME NEW g \in Field, g # f, Resolve(g) PROVE pc'[f] = pc[f] /\ minted'[f] = minted[f]
  BY <1>0, <1>2, Frame DEF OthersUntouched
<1>3. Idle => pc'[f] = pc[f] /\ minted'[f] = minted[f]
  BY DEF Idle
<1> QED BY <1>1, <1>2, <1>3, StepCases

LEMMA InitAccepting == Init => AllAccepting
BY DEF Init, AllAccepting, Accepting, Received

LEMMA StepAccepting == Sound /\ AllAccepting /\ [Next]_vars => AllAccepting'
<1> SUFFICES ASSUME Sound, AllAccepting, [Next]_vars, NEW f \in Field PROVE Accepting(f)'
  BY DEF AllAccepting
<1>0. FieldsTypeOK /\ Entered /\ Accepting(f) /\ req' = req /\ (IsPipeline(f)' <=> IsPipeline(f))
  BY SameRequest DEF Sound, TypeOK, AllAccepting, IsPipeline
<1>1. DOMAIN tokens'[f] = DOMAIN tokens[f]
  BY <1>0, TokensInPlace
<1>2. \A i \in DOMAIN tokens'[f] : tokens'[f][i].sub = req'[f].tokens[i].sub
  BY <1>0, <1>1, TokensEvolve DEF Accepting
<1>3. (\A i \in DOMAIN tokens[f] : tokens[f][i].checked)
        => \A i \in DOMAIN tokens'[f] : tokens'[f][i].checked
  BY <1>1, TokensEvolve
<1>4. ASSUME ~IsPipeline(f), pc'[f] = "mint" \/ minted'[f] # <<>>
      PROVE  /\ \A i \in DOMAIN tokens'[f] : tokens'[f][i].checked
             /\ req[f].tokens[1].sub # NoSubject
  <2>1. CASE CheckTokens(f)
    <3>0. tokens'[f] = [i \in DOMAIN tokens[f] |-> [tokens[f][i] EXCEPT !.checked = TRUE]]
      BY <1>0, <2>1 DEF CheckTokens, FieldsTypeOK
    <3>1. ASSUME NEW i \in DOMAIN tokens'[f] PROVE tokens'[f][i].checked
      <4>1. tokens[f][i] \in TokenType
        BY <1>0, <1>1, ElementOf DEF FieldsTypeOK
      <4> QED BY <3>0, <1>1, <4>1 DEF TokenType
    <3>2. 1 \in DOMAIN tokens[f]
      <4>1. DOMAIN tokens[f] # {} /\ tokens[f] \in Seq(TokenType)
        BY <1>0, <2>1 DEF CheckTokens, Entered, FieldsTypeOK
      <4>2. Len(tokens[f]) \in Nat /\ DOMAIN tokens[f] = 1 .. Len(tokens[f])
        BY <4>1
      <4> QED BY <4>1, <4>2
    <3>3. tokens[f][1].sub # NoSubject /\ tokens[f][1].sub = req[f].tokens[1].sub
      BY <1>0, <2>1, <3>2 DEF CheckTokens, Acceptable, Accepting
    <3> QED BY <3>1, <3>3
  <2>2. CASE pc[f] = "mint" \/ minted[f] # <<>>
    BY <2>2, <1>0, <1>3, <1>4 DEF Accepting
  <2> QED BY <1>4, <2>1, <2>2, HowMinted
<1>5. ASSUME ~IsPipeline(f), NEW j \in DOMAIN minted'[f]
      PROVE  minted'[f][j].sub = req[f].tokens[1].sub
  <2>1. CASE minted'[f] = minted[f]
    BY <2>1, <1>0, <1>5 DEF Accepting
  <2>2. CASE minted'[f] # minted[f]
    <3>0. minted[f] \in Seq(MintType)
      BY <1>0 DEF FieldsTypeOK
    <3>1. minted'[f] # <<>>
      BY <1>5
    <3>2. pc[f] = "mint"
          /\ minted'[f] = Append(minted[f], [kind |-> NextKind(f), sub |-> MintSubject(f)])
      BY <1>5, <2>2, <3>1, HowMinted
    <3>3. 1 \in DOMAIN tokens[f]
      <4>1. DOMAIN tokens[f] # {} /\ tokens[f] \in Seq(TokenType)
        BY <1>0, <3>2 DEF Entered, FieldsTypeOK
      <4>2. Len(tokens[f]) \in Nat /\ DOMAIN tokens[f] = 1 .. Len(tokens[f])
        BY <4>1
      <4> QED BY <4>1, <4>2
    <3>4. MintSubject(f) = req[f].tokens[1].sub
      BY <1>0, <1>5, <3>3 DEF MintSubject, Accepting
    <3>5. CASE j = Len(minted[f]) + 1
      BY <3>0, <3>2, <3>4, <3>5
    <3>6. CASE j # Len(minted[f]) + 1
      <4>1. j \in DOMAIN minted[f] /\ minted'[f][j] = minted[f][j]
        BY <3>0, <3>2, <3>6, <1>5
      <4> QED BY <4>1, <1>0, <1>5 DEF Accepting
    <3> QED BY <3>5, <3>6
  <2> QED BY <2>1, <2>2
<1> QED BY <1>0, <1>2, <1>4, <1>5 DEF Accepting

(* No in-process handler has anything minted before every token of its      *)
(* request was accepted, nor for anyone but the subject of the first.       *)
THEOREM MintsForCheckedSubject == Spec => []MintedForCheckedSubject
<1>1. AllAccepting => MintedForCheckedSubject
  BY DEF AllAccepting, Accepting, MintedForCheckedSubject
<1> QED BY <1>1, InitAccepting, StepAccepting, AlwaysSound, PTL DEF Spec

-----------------------------------------------------------------------------
(* What is issued follows the plan.  A handler that has not reached its     *)
(* plan has nothing; one that mints has worked off the instructions its     *)
(* response holds, and those only.                                          *)
Worked(f) ==
  /\ Len(response[f]) <= Len(plan[f])
  /\ \A i \in 1 .. Len(response[f]) : response[f][i] = plan[f][i]
  /\ IssuedFor(f, Len(response[f]))
  /\ ~IsPipeline(f) => plan[f] = InProcPlan(req[f].exchange)
Following(f) ==
  /\ \E n \in 0 .. Len(plan[f]) : IssuedFor(f, n)
  /\ outcome[f] = "payload" /\ plan[f] # <<>> =>
       IssuedFor(f, Len(plan[f])) /\ AllInResponse(f)
Phase(f) ==
  /\ pc[f] \in {"start", "preprocess", "check"} =>
       plan[f] = <<>> /\ response[f] = <<>> /\ minted[f] = <<>> /\ outcome[f] = "open"
  /\ pc[f] = "mint" => Worked(f) /\ outcome[f] = "open"
  /\ pc[f] = "done" => Following(f)
AllPhased == \A f \in Field : Phase(f)

(* Numbering the tokens of a plan: the instruction after the first n gets a *)
(* number of its own if it needs the minting service, and numbers only grow. *)
LEMMA IssueNumbers ==
  ASSUME NEW s, NEW n \in Nat
  PROVE  /\ ToIssue(s, n) \in Nat
         /\ ToIssue(s, 0) = 0
         /\ s[n + 1] # "custom" => ToIssue(s, n + 1) = ToIssue(s, n) + 1
         /\ s[n + 1] = "custom" => ToIssue(s, n + 1) = ToIssue(s, n)
         /\ \A i \in 1 .. n : s[i] # "custom" => ToIssue(s, i) \in 1 .. ToIssue(s, n)
<1> DEFINE Real(m) == {i \in 1 .. m : s[i] # "custom"}
<1>1. ASSUME NEW m \in Nat PROVE IsFiniteSet(Real(m)) /\ Cardinality(Real(m)) \in Nat
  <2>1. IsFiniteSet(1 .. m)
    BY FS_Interval
  <2>2. IsFiniteSet(Real(m))
    BY <2>1, FS_Subset
  <2> QED BY <2>2, FS_CardinalityType
<1>2. ToIssue(s, 0) = 0
  <2>1. Real(0) = {}
    OBVIOUS
  <2> QED BY <2>1, FS_EmptySet DEF ToIssue
<1>3. s[n + 1] # "custom" => ToIssue(s, n + 1) = ToIssue(s, n) + 1
  <2>1. s[n + 1] # "custom" => Real(n + 1) = Real(n) \cup {n + 1} /\ n + 1 \notin Real(n)
    OBVIOUS
  <2>2. Cardinality(Real(n) \cup {n + 1})
          = IF n + 1 \in Real(n) THEN Cardinality(Real(n)) ELSE Cardinality(Real(n)) + 1
    BY <1>1, FS_AddElement
  <2> QED BY <2>1, <2>2 DEF ToIssue
<1>4. s[n + 1] = "custom" => ToIssue(s, n + 1) = ToIssue(s, n)
  <2>1. s[n + 1] = "custom" => Real(n + 1) = Real(n)
    OBVIOUS
  <2> QED BY <2>1 DEF ToIssue
<1>5. ASSUME NEW i \in 1 .. n, s[i] # "custom" PROVE ToIssue(s, i) \in 1 .. ToIssue(s, n)
  <2>1. Real(i) \subseteq Real(n) /\ i \in Real(i)
    BY <1>5
  <2>2. Cardinality(Real(i)) <= Cardinality(Real(n))
    BY <2>1, <1>1, FS_Subset
  <2>3. Cardinality(Real(i)) # 0
    BY <2>1, <1>1, FS_EmptySet
  <2>4. Cardinality(Real(i)) \in Nat /\ Cardinality(Real(n)) \in Nat
    BY <1>1
  <2> QED BY <2>2, <2>3, <2>4 DEF ToIssue
<1> QED BY <1>1, <1>2, <1>3, <1>4, <1>5 DEF ToIssue

LEMMA NothingIssued ==
  ASSUME NEW f \in Field, plan[f] = <<>>, minted[f] = <<>>
  PROVE  Following(f) /\ IssuedFor(f, 0)
<1>1. IssuedFor(f, 0)
  BY IssueNumbers DEF IssuedFor
<1> QED BY <1>1 DEF Following

LEMMA InitPhased == Init => AllPhased
BY DEF Init, AllPhased, Phase

(* A field whose plan, response, tokens and end stay as they are.           *)
Steady(f) ==
  /\ req' = req /\ plan'[f] = plan[f] /\ response'[f] = response[f]
  /\ minted'[f] = minted[f] /\ outcome'[f] = outcome[f]

LEMMA SteadyPhase ==
  ASSUME NEW f \in Field, Phase(f), Steady(f),
         \/ pc'[f] = pc[f]
         \/ pc[f] \in {"start", "preprocess", "check"} /\ pc'[f] \in {"start", "preprocess", "check"}
  PROVE  Phase(f)'
<1>1. \A n : IssuedFor(f, n)' <=> IssuedFor(f, n)
  BY DEF Steady, IssuedFor
<1>2. (Worked(f)' <=> Worked(f)) /\ (AllInResponse(f)' <=> AllInResponse(f))
  BY <1>1 DEF Steady, Worked, AllInResponse, IsPipeline
<1>3. Following(f)' <=> Following(f)
  BY <1>1, <1>2 DEF Steady, Following
<1> QED BY <1>2, <1>3 DEF Phase, Steady

(* A field that fails keeps what it had: nothing, or what was issued for    *)
(* the instructions worked off so far.                                      *)
LEMMA EndedPhase ==
  ASSUME FieldsTypeOK, NEW f \in Field, Phase(f), pc[f] # "done", req' = req,
         plan'[f] = plan[f], minted'[f] = minted[f], pc'[f] = "done",
         outcome'[f] # "payload" \/ plan[f] = <<>>
  PROVE  Phase(f)'
<1>1. \E n \in 0 .. Len(plan[f]) : IssuedFor(f, n)
  <2>1. CASE pc[f] = "mint"
    <3>1. Worked(f) /\ Len(response[f]) \in 0 .. Len(plan[f])
      BY <2>1 DEF Phase, Worked, FieldsTypeOK
    <3> QED BY <3>1 DEF Worked
  <2>2. CASE pc[f] # "mint"
    BY <2>2, NothingIssued DEF Phase, FieldsTypeOK, Stages, Following
  <2> QED BY <2>1, <2>2
<1>2. (\E n \in 0 .. Len(plan[f]) : IssuedFor(f, n))'
  BY <1>1 DEF IssuedFor
<1> QED BY <1>2 DEF Phase, Following

(* Reaching a plan: it is there, and nothing is worked off.                 *)
LEMMA PlannedPhase ==
  ASSUME FieldsTypeOK, FieldsTypeOK', NEW f \in Field, Phase(f),
         pc[f] \in {"preprocess", "check"}, pc'[f] = "mint", req' = req,
         response'[f] = response[f], minted'[f] = minted[f], outcome'[f] = outcome[f],
         ~IsPipeline(f) => plan'[f] = InProcPlan(req[f].exchange)
  PROVE  Phase(f)'
<1>1. response'[f] = <<>> /\ minted'[f] = <<>> /\ outcome'[f] = "open"
  BY DEF Phase
<1>2. IssuedFor(f, 0)'
  BY <1>1, IssueNumbers DEF IssuedFor
<1>3. Worked(f)'
  BY <1>1, <1>2 DEF Worked, IsPipeline, FieldsTypeOK
<1> QED BY <1>1, <1>3 DEF Phase

(* One more instruction worked off.                                         *)
LEMMA MintingPhase ==
  ASSUME FieldsTypeOK, NEW f \in Field, Phase(f), AddCustom(f) \/ Mint(f)
  PROVE  Phase(f)'
<1> DEFINE n == Len(response[f])
<1>0. /\ plan[f] \in Seq(MintableKinds) /\ response[f] \in Seq(Kinds)
      /\ minted[f] \in Seq(MintType) /\ n \in Nat /\ Len(plan[f]) \in Nat /\ n < Len(plan[f])
      /\ pc[f] = "mint" /\ Worked(f) /\ outcome[f] = "open"
  BY DEF FieldsTypeOK, AddCustom, Mint, Minting, Phase
<1>1. /\ plan' = plan /\ req' = req /\ pc' = pc /\ outcome' = outcome
      /\ response'[f] = Append(response[f], plan[f][n + 1])
  BY DEF FieldsTypeOK, AddCustom, Mint, Collect, NextKind
<1>2. Len(response'[f]) = n + 1
      /\ \A i \in 1 .. n + 1 : response'[f][i] = plan[f][i]
  <2>1. ASSUME NEW i \in 1 .. n PROVE response'[f][i] = plan[f][i]
    BY <1>0, <1>1 DEF Worked
  <2>2. Len(response'[f]) = n + 1 /\ response'[f][n + 1] = plan[f][n + 1]
    BY <1>0, <1>1
  <2> QED BY <1>0, <2>1, <2>2
<1>3. /\ Len(minted'[f]) = ToIssue(plan[f], n + 1)
      /\ \A i \in 1 .. n + 1 : plan[f][i] # "custom" =>
           minted'[f][ToIssue(plan[f], i)].kind = plan[f][i]
  <2>1. /\ Len(minted[f]) = ToIssue(plan[f], n)
        /\ \A i \in 1 .. n : plan[f][i] # "custom" =>
             minted[f][ToIssue(plan[f], i)].kind = plan[f][i]
    BY <1>0 DEF Worked, IssuedFor
  <2>2. CASE AddCustom(f)
    <3>1. plan[f][n + 1] = "custom" /\ minted' = minted
      BY <2>2 DEF AddCustom, NextKind
    <3>2. ToIssue(plan[f], n + 1) = ToIssue(plan[f], n)
      BY <3>1, <1>0, IssueNumbers
    <3> QED BY <1>0, <2>1, <3>1, <3>2
  <2>3. CASE Mint(f)
    <3> DEFINE t == [kind |-> plan[f][n + 1], sub |-> MintSubject(f)]
    <3>1. minted'[f] = Append(minted[f], t)
      BY <2>3 DEF Mint, NextKind, FieldsTypeOK
    <3>2. plan[f][n + 1] # "custom"
      BY <2>3 DEF Mint, NextKind
    <3>3. ToIssue(plan[f], n + 1) = ToIssue(plan[f], n) + 1 /\ ToIssue(plan[f], n) \in Nat
      BY <3>2, <1>0, IssueNumbers
    <3>4. Len(minted'[f]) = ToIssue(plan[f], n + 1)
      BY <1>0, <2>1, <3>1, <3>3
    <3>5. minted'[f][ToIssue(plan[f], n + 1)] = t
      BY <1>0, <2>1, <3>1, <3>3
    <3>6. ASSUME NEW i \in 1 .. n, plan[f][i] # "custom"
          PROVE  minted'[f][ToIssue(plan[f], i)].kind = plan[f][i]
      <4>1. ToIssue(plan[f], i) \in 1 .. Len(minted[f])
        BY <1>0, <2>1, <3>6, IssueNumbers
      <4>2. minted'[f][ToIssue(plan[f], i)] = minted[f][ToIssue(plan[f], i)]
        BY <1>0, <3>1, <4>1
      <4> QED BY <2>1, <3>6, <4>2
    <3>7. minted'[f][ToIssue(plan[f], n + 1)].kind = plan[f][n + 1]
      BY <3>5
    <3>8. \A i \in 1 .. n + 1 : i \in 1 .. n \/ i = n + 1
      BY <1>0
    <3> HIDE DEF t
    <3> QED BY <3>4, <3>6, <3>7, <3>8
  <2> QED BY <2>2, <2>3
<1>4. Worked(f)'
  BY <1>0, <1>1, <1>2, <1>3 DEF Worked, IssuedFor, IsPipeline
<1> QED BY <1>0, <1>1, <1>4 DEF Phase

LEMMA DeliveredPhase ==
  ASSUME FieldsTypeOK, NEW f \in Field, Phase(f), Deliver(f)
  PROVE  Phase(f)'
<1>0. /\ plan[f] \in Seq(MintableKinds) /\ response[f] \in Seq(Kinds)
      /\ Len(plan[f]) \in Nat /\ Len(response[f]) = Len(plan[f])
      /\ pc[f] = "mint" /\ Worked(f)
  BY DEF FieldsTypeOK, Deliver, Phase
<1>1. /\ plan' = plan /\ minted' = minted /\ pc'[f] = "done"
      /\ response'[f] = IF IsPipeline(f) THEN response[f] ELSE InProcResponse(req[f].exchange)
  BY DEF Deliver, Finish, FieldsTypeOK
<1>2. IssuedFor(f, Len(plan[f]))'
  BY <1>0, <1>1 DEF Worked, IssuedFor
<1>3. AllInResponse(f)'
  <2>1. CASE IsPipeline(f)
    <3>1. DOMAIN response[f] = DOMAIN plan[f]
          /\ \A i \in DOMAIN plan[f] : response[f][i] = plan[f][i]
      BY <1>0 DEF Worked
    <3> QED BY <2>1, <3>1, <1>1 DEF AllInResponse
  <2>2. CASE ~IsPipeline(f)
    <3>1. plan'[f] = InProcPlan(req[f].exchange) /\ response'[f] = InProcResponse(req[f].exchange)
      BY <2>2, <1>0, <1>1 DEF Worked
    <3>2. CASE req[f].exchange = "briar-rabbit-inproc"
      <4>1. response'[f] = <<"custom", "identity", "access">> /\ plan'[f] = <<"access", "identity">>
        BY <3>1, <3>2 DEF InProcResponse, InProcPlan
      <4> QED BY <4>1 DEF AllInResponse
    <3>3. CASE req[f].exchange # "briar-rabbit-inproc"
      <4>1. response'[f] = <<"access">> /\ plan'[f] = <<"access">>
        BY <3>1, <3>3 DEF InProcResponse, InProcPlan
      <4> QED BY <4>1 DEF AllInResponse
    <3> QED BY <3>2, <3>3
  <2> QED BY <2>1, <2>2
<1>4. Len(plan'[f]) \in 0 .. Len(plan'[f])
  BY <1>0, <1>1
<1> QED BY <1>1, <1>2, <1>3, <1>4 DEF Phase, Following

LEMMA StepPhased == Sound /\ AllPhased /\ [Next]_vars => AllPhased'
<1> SUFFICES ASSUME Sound, AllPhased, [Next]_vars, NEW f \in Field PROVE Phase(f)'
  BY DEF AllPhased
<1>0. FieldsTypeOK /\ FieldsTypeOK' /\ Phase(f) /\ CallFits(f) /\ req' = req
  BY StepFields, SameRequest DEF Sound, TypeOK, AllPhased, CallForFinal
<1>1. CASE Resolve(f)
  <2>0. ASSUME NEW keys, Fail(f, keys), pc[f] # "done" PROVE Phase(f)'
    BY <2>0, <1>0, EndedPhase DEF Fail, FieldsTypeOK
  <2>1. CASE RejectSecondField(f) \/ RejectNoTokens(f) \/ RejectUnroutable(f) \/ RejectTokens(f)
             \/ PreProcessFails(f) \/ MintFails(f)
    BY <2>0, <2>1 DEF RejectSecondField, RejectNoTokens, RejectUnroutable, RejectTokens,
         PreProcessFails, MintFails, Minting, Accepted, Starting
  <2>2. CASE NoToken(f)
    BY <2>0, <2>2 DEF NoToken, HasToken, Forwarding
  <2>3. CASE EnterPipeline(f) \/ EnterCheckingHandler(f)
    BY <2>3, <1>0, SteadyPhase DEF EnterPipeline, EnterCheckingHandler, Accepted, Starting,
         Steady, FieldsTypeOK
  <2>4. CASE PreProcess(f) \/ GetToken(f) \/ AwaitToken(f)
    BY <2>4, <1>0, SteadyPhase DEF PreProcess, GetToken, AwaitToken, fieldVars, Steady
  <2>5. CASE AnswerAlien(f)
    <3>1. pc[f] = "start" /\ pc'[f] = "done" /\ plan' = plan /\ minted' = minted
      BY <2>5, <1>0 DEF AnswerAlien, Accepted, Starting, Finish, FieldsTypeOK
    <3> QED BY <3>1, <1>0, EndedPhase DEF Phase
  <2>6. CASE CheckTokens(f)
    BY <2>6, <1>0, PlannedPhase DEF CheckTokens, FieldsTypeOK
  <2>7. CASE PartnerInstructs(f)
    BY <2>7, <1>0, PlannedPhase DEF PartnerInstructs, Posting, HasToken, Forwarding, CallFits,
         FieldsTypeOK
  <2>8. CASE PartnerPassesThrough(f) \/ PartnerRefuses(f) \/ PartnerUnreachable(f)
    <3>1. pc[f] = "preprocess" /\ pc'[f] = "done" /\ plan' = plan /\ minted' = minted
      BY <2>8, <1>0 DEF PartnerPassesThrough, PartnerRefuses, PartnerUnreachable, Posting,
           HasToken, Forwarding, Finish, FieldsTypeOK
    <3> QED BY <3>1, <1>0, EndedPhase DEF Phase
  <2>9. CASE AddCustom(f) \/ Mint(f)
    BY <2>9, <1>0, MintingPhase
  <2>10. CASE Deliver(f)
    BY <2>10, <1>0, DeliveredPhase
  <2> QED BY <1>1, <2>1, <2>2, <2>3, <2>4, <2>5, <2>6, <2>7, <2>8, <2>9, <2>10 DEF Resolve
<1>2. ASSUME NEW g \in Field, g # f, Resolve(g) PROVE Phase(f)'
  BY <1>0, <1>2, Frame, SteadyPhase DEF OthersUntouched, Steady
<1>3. CASE Idle
  BY <1>0, <1>3, SteadyPhase DEF Idle, Steady
<1> QED BY <1>1, <1>2, <1>3, StepCases

(* What the minting service issued for a field is, at every moment, what    *)
(* some first instructions of its plan ask for, in their order and each     *)
(* once; if the field delivers, it is all of them, and each is answered.    *)
THEOREM MintsArePlanned == Spec => []MintsFollowPlan
<1>1. AllPhased /\ FieldsTypeOK => MintsFollowPlan
  <2> SUFFICES ASSUME AllPhased, FieldsTypeOK, NEW f \in Field PROVE Following(f)
    BY DEF MintsFollowPlan, Following
  <2>0. Phase(f) /\ plan[f] \in Seq(MintableKinds) /\ response[f] \in Seq(Kinds)
    BY DEF AllPhased, FieldsTypeOK
  <2>1. CASE pc[f] \in {"start", "preprocess", "check"}
    BY <2>0, <2>1, NothingIssued DEF Phase
  <2>2. CASE pc[f] = "mint"
    <3>1. Worked(f) /\ outcome[f] = "open" /\ Len(response[f]) \in 0 .. Len(plan[f])
      BY <2>0, <2>2 DEF Phase, Worked
    <3> QED BY <3>1 DEF Worked, Following
  <2>3. CASE pc[f] = "done"
    BY <2>0, <2>3 DEF Phase
  <2> QED BY <2>1, <2>2, <2>3 DEF FieldsTypeOK, Stages
<1>2. Sound => FieldsTypeOK
  BY DEF Sound, TypeOK
<1> QED BY <1>1, <1>2, InitPhased, StepPhased, AlwaysSound, PTL DEF Spec
=============================================================================

--------------------- MODULE ClientCredentialCache_proofs ---------------------
(***************************************************************************)
(* For any callers, exchanges and lifetimes: the types of the cache and of *)
(* its callers, and that no caller is ever answered with a token that was  *)
(* fetched for another exchange.                                           *)
(***************************************************************************)
EXTENDS ClientCredentialCache, TLAPS

(* An entry or a response that ages stays an entry or a response, and keeps *)
(* the exchange it was fetched for (what a Tick does to the cache).         *)
LEMMA OlderResponse ==
  ASSUME NEW r \in Response
  PROVE  Older(r) \in Response /\ Older(r).exchange = r.exchange
BY LifetimeAssumption DEF Older, Response

LEMMA OlderEntry ==
  ASSUME NEW e \in Entry \cup {NoEntry}
  PROVE  /\ AfterTick(e) \in Entry \cup {NoEntry}
         /\ AfterTick(e) # NoEntry => /\ e \in Entry
                                      /\ AfterTick(e).response.exchange = e.response.exchange
<1>1. CASE e = NoEntry \/ e.idle + 1 = SlidingExpiration
  BY <1>1, NoEntryAssumption DEF AfterTick
<1>2. CASE ~(e = NoEntry \/ e.idle + 1 = SlidingExpiration)
  <2>1. e \in Entry /\ e.response \in Response /\ e.idle \in 0 .. SlidingExpiration - 1
    BY <1>2 DEF Entry
  <2>2. Older(e.response) \in Response /\ Older(e.response).exchange = e.response.exchange
    BY <2>1, OlderResponse
  <2>3. e.idle + 1 \in 0 .. SlidingExpiration - 1
    BY <1>2, <2>1, SlidingAssumption
  <2>4. AfterTick(e) = [response |-> Older(e.response), idle |-> e.idle + 1]
    BY <1>2 DEF AfterTick
  <2> QED BY <2>1, <2>2, <2>3, <2>4 DEF Entry
<1> QED BY <1>1, <1>2

(* A blank answer is a response: Init and Release set it.                   *)
LEMMA BlankResponse == Nowhere \in Exchanges /\ Blank \in Response
BY ExchangesAssumption, LifetimeAssumption DEF Nowhere, Blank, Response

(* The types hold initially and are kept by every step.                     *)
LEMMA InitTypeOK == Init => TypeOK
BY BlankResponse DEF Init, TypeOK, Stages

LEMMA StepTypeOK == TypeOK /\ [Next]_vars => TypeOK'
<1> SUFFICES ASSUME TypeOK, [Next]_vars PROVE TypeOK'
  OBVIOUS
<1> USE DEF TypeOK, Stages
<1>1. ASSUME NEW c \in Callers, NEW x \in Exchanges, Hit(c, x) PROVE TypeOK'
  <2>1. cache[x] \in Entry
    BY <1>1 DEF Hit, CacheKey
  <2>2. cache[x].response \in Response /\ [cache[x] EXCEPT !.idle = 0] \in Entry
    BY <2>1, SlidingAssumption DEF Entry
  <2>3. cache' \in [Exchanges -> Entry \cup {NoEntry}]
    BY <1>1, <2>2 DEF Hit, CacheKey
  <2>4. answer' \in [Callers -> Response] /\ call' \in [Callers -> [at: Stages, exchange: Exchanges]]
    BY <1>1, <2>2 DEF Hit, CacheKey
  <2> QED BY <1>1, <2>3, <2>4 DEF Hit
<1>2. ASSUME NEW c \in Callers, NEW x \in Exchanges, Miss(c, x) PROVE TypeOK'
  BY <1>2 DEF Miss
<1>3. ASSUME NEW c \in Callers, Receive(c) PROVE TypeOK'
  <2>1. [exchange |-> call[c].exchange, ok |-> authorityUp, age |-> 0] \in Response
    BY LifetimeAssumption DEF Response
  <2> QED BY <1>3, <2>1 DEF Receive
<1>4. ASSUME NEW c \in Callers, Store(c) PROVE TypeOK'
  <2>1. [response |-> answer[c], idle |-> 0] \in Entry
    BY SlidingAssumption DEF Entry
  <2> QED BY <1>4, <2>1 DEF Store, CacheKey
<1>5. ASSUME NEW c \in Callers, Release(c) PROVE TypeOK'
  BY <1>5, BlankResponse DEF Release
<1>6. CASE Tick
  <2>1. cache' \in [Exchanges -> Entry \cup {NoEntry}]
    BY <1>6, OlderEntry DEF Tick
  <2>2. answer' \in [Callers -> Response]
    BY <1>6, OlderResponse DEF Tick
  <2> QED BY <1>6, <2>1, <2>2 DEF Tick
<1>7. CASE AuthorityToggles
  BY <1>7 DEF AuthorityToggles
<1>8. CASE UNCHANGED vars
  BY <1>8 DEF vars
<1> QED BY <1>1, <1>2, <1>3, <1>4, <1>5, <1>6, <1>7, <1>8 DEF Next, Progress

(* Every reachable state of the cache and its callers is well typed.        *)
THEOREM CacheTypeCorrect == Spec => []TypeOK
BY InitTypeOK, StepTypeOK, PTL DEF Spec

-----------------------------------------------------------------------------
(* OwnToken is inductive together with the types: what enters the cache is  *)
(* what the storing caller was given for the exchange it asked for, and     *)
(* what a caller reads was put there under that exchange's key.             *)
LEMMA InitOwnToken == Init => OwnToken
BY DEF Init, OwnToken, Cached, CacheKey

LEMMA StepOwnToken == TypeOK /\ OwnToken /\ [Next]_vars => OwnToken'
<1> SUFFICES ASSUME TypeOK, OwnToken, [Next]_vars PROVE OwnToken'
  OBVIOUS
<1> USE DEF TypeOK, OwnToken, Cached, CacheKey, Stages
<1>1. ASSUME NEW c \in Callers, NEW x \in Exchanges, Hit(c, x) PROVE OwnToken'
  <2>1. cache[x] \in Entry /\ cache[x].response.exchange = x
    BY <1>1 DEF Hit
  <2>2. cache'[x].response = cache[x].response
    BY <1>1, <2>1 DEF Hit, Entry
  <2>3. \A y \in Exchanges : y # x => cache'[y] = cache[y]
    BY <1>1 DEF Hit
  <2>4. answer'[c].exchange = call'[c].exchange
    BY <1>1, <2>1 DEF Hit
  <2>5. \A d \in Callers : d # c => answer'[d] = answer[d] /\ call'[d] = call[d]
    BY <1>1 DEF Hit
  <2> QED BY <2>1, <2>2, <2>3, <2>4, <2>5
<1>2. ASSUME NEW c \in Callers, NEW x \in Exchanges, Miss(c, x) PROVE OwnToken'
  BY <1>2 DEF Miss
<1>3. ASSUME NEW c \in Callers, Receive(c) PROVE OwnToken'
  BY <1>3 DEF Receive
<1>4. ASSUME NEW c \in Callers, Store(c) PROVE OwnToken'
  BY <1>4 DEF Store
<1>5. ASSUME NEW c \in Callers, Release(c) PROVE OwnToken'
  BY <1>5 DEF Release
<1>6. CASE Tick
  <2>1. \A x \in Exchanges : cache'[x] # NoEntry =>
          cache[x] # NoEntry /\ cache'[x].response.exchange = cache[x].response.exchange
    BY <1>6, OlderEntry, NoEntryAssumption DEF Tick
  <2>2. \A d \in Callers : answer'[d].exchange = answer[d].exchange
    BY <1>6, OlderResponse DEF Tick
  <2> QED BY <1>6, <2>1, <2>2 DEF Tick
<1>7. CASE AuthorityToggles
  BY <1>7 DEF AuthorityToggles
<1>8. CASE UNCHANGED vars
  BY <1>8 DEF vars
<1> QED BY <1>1, <1>2, <1>3, <1>4, <1>5, <1>6, <1>7, <1>8 DEF Next, Progress

(* However many requests race for the shared cache, an external exchange is *)
(* only ever given the token that was fetched for it.                       *)
THEOREM CacheKeepsTokensApart == Spec => []OwnToken
<1>1. Init => TypeOK /\ OwnToken
  BY InitTypeOK, InitOwnToken
<1>2. TypeOK /\ OwnToken /\ [Next]_vars => (TypeOK /\ OwnToken)'
  BY StepTypeOK, StepOwnToken
<1> QED BY <1>1, <1>2, PTL DEF Spec
=============================================================================

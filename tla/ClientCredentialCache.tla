------------------------ MODULE ClientCredentialCache ------------------------
(***************************************************************************)
(* The client-credentials access token that an external exchange needs to  *)
(* call its partner, and the shared IMemoryCache entry it is kept in:      *)
(* ExternalExchangeTokenExchangeHandler.GetTokenAsync.                     *)
(*                                                                         *)
(* Handlers are transient, the cache is a process-wide singleton: every    *)
(* GraphQL request in flight is a caller, and callers meet only in the     *)
(* cache.  GetTokenAsync is not atomic.  It looks the cache up, awaits the *)
(* authority when it misses, and then writes whatever came back, an error  *)
(* response included, over whatever is there by then.                      *)
(*                                                                         *)
(* Time is counted in ticks.  A response carries the age of its access     *)
(* token, so no token needs a name and no counter grows without bound.     *)
(***************************************************************************)
EXTENDS Naturals

CONSTANTS
  Callers,            \* requests that may be inside GetTokenAsync
  Exchanges,          \* ExchangeName of every configured external exchange
  SlidingExpiration,  \* ticks without access after which an entry is evicted
  TokenLifetime,      \* ticks after which an access token is expired
  NoEntry             \* the cache holds nothing under a key

ASSUME ExchangesAssumption == Exchanges # {}
ASSUME SlidingAssumption   == SlidingExpiration \in Nat \ {0}
ASSUME LifetimeAssumption  == TokenLifetime \in Nat \ {0}

(* TokenResponse: IsError responses carry no access token (ok = FALSE).     *)
Response == [exchange: Exchanges, ok: BOOLEAN, age: 0 .. TokenLifetime]
Entry    == [response: Response, idle: 0 .. SlidingExpiration - 1]

ASSUME NoEntryAssumption == NoEntry \notin Entry

VARIABLES
  cache,        \* IMemoryCache: cache key -> entry or NoEntry
  call,         \* where each caller is inside GetTokenAsync, for which exchange
  answer,       \* the TokenResponse a caller holds in its local variable
  authorityUp   \* whether the authority answers discovery and token requests

vars == <<cache, call, answer, authorityUp>>

Stages == {"idle", "requesting", "received", "returned"}

(* A handler that forgot to add its exchange's name to the key.             *)
SharedCacheKey(x) == CHOOSE y \in Exchanges : TRUE

(* Configure prefixes the handler's key with the exchange's name.           *)
CacheKey(x) == x

(* A caller that is not asking: which exchange is of no consequence.        *)
Nowhere == CHOOSE x \in Exchanges : TRUE
Blank   == [exchange |-> Nowhere, ok |-> FALSE, age |-> 0]

TypeOK ==
  /\ cache \in [Exchanges -> Entry \cup {NoEntry}]
  /\ call \in [Callers -> [at: Stages, exchange: Exchanges]]
  /\ answer \in [Callers -> Response]
  /\ authorityUp \in BOOLEAN

Init ==
  /\ cache = [x \in Exchanges |-> NoEntry]
  /\ call = [c \in Callers |-> [at |-> "idle", exchange |-> Nowhere]]
  /\ answer = [c \in Callers |-> Blank]
  /\ authorityUp = TRUE

-----------------------------------------------------------------------------
(* TryGetValue finds an entry: its sliding window starts again.             *)
Hit(c, x) ==
  /\ call[c].at = "idle"
  /\ cache[CacheKey(x)] # NoEntry
  /\ cache'  = [cache EXCEPT ![CacheKey(x)].idle = 0]
  /\ call'   = [call EXCEPT ![c] = [at |-> "returned", exchange |-> x]]
  /\ answer' = [answer EXCEPT ![c] = cache[CacheKey(x)].response]
  /\ UNCHANGED authorityUp

(* TryGetValue misses: the caller awaits discovery and the token endpoint.  *)
Miss(c, x) ==
  /\ call[c].at = "idle"
  /\ cache[CacheKey(x)] = NoEntry
  /\ call' = [call EXCEPT ![c] = [at |-> "requesting", exchange |-> x]]
  /\ UNCHANGED <<cache, answer, authorityUp>>

(* RequestClientCredentialsTokenAsync completes.  It never throws: a failed *)
(* discovery or token request comes back as a response with IsError.        *)
Receive(c) ==
  /\ call[c].at = "requesting"
  /\ call'   = [call EXCEPT ![c].at = "received"]
  /\ answer' = [answer EXCEPT ![c] =
                  [exchange |-> call[c].exchange, ok |-> authorityUp, age |-> 0]]
  /\ UNCHANGED <<cache, authorityUp>>

(* GetTokenAsync that waits for a good response instead of caching a bad one. *)
StoreGoodOnly(c) ==
  /\ call[c].at = "received" /\ answer[c].ok
  /\ cache' = [cache EXCEPT ![CacheKey(call[c].exchange)] =
                 [response |-> answer[c], idle |-> 0]]
  /\ call'  = [call EXCEPT ![c].at = "returned"]
  /\ UNCHANGED <<answer, authorityUp>>

(* The response, good or bad, is cached before IsError is looked at.        *)
Store(c) ==
  /\ call[c].at = "received"
  /\ cache' = [cache EXCEPT ![CacheKey(call[c].exchange)] =
                 [response |-> answer[c], idle |-> 0]]
  /\ call'  = [call EXCEPT ![c].at = "returned"]
  /\ UNCHANGED <<answer, authorityUp>>

(* The caller is done with the token; its next request starts afresh.       *)
Release(c) ==
  /\ call[c].at = "returned"
  /\ call'   = [call EXCEPT ![c] = [at |-> "idle", exchange |-> Nowhere]]
  /\ answer' = [answer EXCEPT ![c] = Blank]
  /\ UNCHANGED <<cache, authorityUp>>

Older(r) ==
  IF r.ok /\ r.age < TokenLifetime THEN [r EXCEPT !.age = @ + 1] ELSE r

(* Cache options without an expiration; and an expiry off by one.           *)
NeverEvicted(e) ==
  IF e = NoEntry THEN NoEntry ELSE [e EXCEPT !.response = Older(@)]
EvictedLate(e) ==
  IF e = NoEntry \/ e.idle = SlidingExpiration
  THEN NoEntry
  ELSE [response |-> Older(e.response), idle |-> e.idle + 1]

(* An entry that was not read for SlidingExpiration ticks is gone.          *)
AfterTick(e) ==
  IF e = NoEntry \/ e.idle + 1 = SlidingExpiration
  THEN NoEntry
  ELSE [response |-> Older(e.response), idle |-> e.idle + 1]

Tick ==
  /\ cache'  = [x \in Exchanges |-> AfterTick(cache[x])]
  /\ answer' = [c \in Callers |-> Older(answer[c])]
  /\ UNCHANGED <<call, authorityUp>>

(* The authority is another process: it comes and goes.                     *)
AuthorityToggles ==
  /\ authorityUp' = ~authorityUp
  /\ UNCHANGED <<cache, call, answer>>

-----------------------------------------------------------------------------
Progress(c) == Receive(c) \/ Store(c)

Next ==
  \/ \E c \in Callers, x \in Exchanges : Hit(c, x) \/ Miss(c, x)
  \/ \E c \in Callers : Progress(c) \/ Release(c)
  \/ Tick
  \/ AuthorityToggles

Spec == Init /\ [][Next]_vars

(* A caller that asked is answered (HttpClient times out, and a timeout is  *)
(* an error response), and time passes.  Nothing forces callers to come or  *)
(* the authority to be up.                                                  *)
Fairness == WF_vars(Tick) /\ \A c \in Callers : WF_vars(Progress(c))

FairSpec == Spec /\ Fairness

-----------------------------------------------------------------------------
Cached(x)   == cache[CacheKey(x)] # NoEntry
Expired(r)  == r.ok /\ r.age = TokenLifetime
Useless(r)  == ~r.ok \/ Expired(r)
Poisoned(x) == Cached(x) /\ Useless(cache[CacheKey(x)].response)

(* A caller only ever holds, and the cache only ever keeps under an         *)
(* exchange's key, a response that the authority gave for that exchange.    *)
OwnToken ==
  /\ \A x \in Exchanges : Cached(x) => cache[CacheKey(x)].response.exchange = x
  /\ \A c \in Callers : answer[c].exchange = call[c].exchange
                        \/ call[c].at \in {"idle", "requesting"}

(* A cached error or expired token outlives its sliding window only under   *)
(* traffic: either the exchange is read from the cache again and again, or  *)
(* again and again the cache holds nothing useless for it.  (Line 94 logs   *)
(* the error but leaves it in the cache.)                                   *)
PoisonNeedsTraffic ==
  \A x \in Exchanges :
    \/ []<><<\E c \in Callers : Hit(c, x)>>_vars
    \/ []<>~Poisoned(x)

(* Every call of GetTokenAsync returns, whatever the other callers and the  *)
(* authority do meanwhile.                                                  *)
EveryCallReturns ==
  \A c \in Callers : call[c].at = "requesting" ~> call[c].at = "returned"
=============================================================================

----------------------------- MODULE KeyCaches ------------------------------
(***************************************************************************)
(* How long the server trusts the keys a token is checked with.            *)
(*                                                                         *)
(* A token of an OIDC scheme is checked by a ProviderValidator with keys   *)
(* that have gone through two caches: the discovery cache of its authority *)
(* and the one entry "certs" of the shared memory cache, which all         *)
(* authorities use.  A token of the server itself is checked by the        *)
(* SelfValidator with keys it reads from the local key store and keeps.    *)
(*                                                                         *)
(* Keys are numbered by generation.  Time passes in ticks of which no call *)
(* lives through more than one; a cached value is good for Day ticks.      *)
(***************************************************************************)
EXTENDS Naturals

CONSTANTS
  Callers,      \* validations in flight
  Authorities,  \* the OIDC schemes
  Self,         \* the scheme "self"
  Day,          \* DiscoveryCache.CacheDuration (its default), AddDays(1)
  Rotations,    \* bound: how often a scheme replaces its keys
  Nobody        \* no scheme

ASSUME DayAssumption       == Day \in Nat \ {0}
ASSUME RotationsAssumption == Rotations \in Nat
ASSUME SelfAssumption      == Self \notin Authorities
ASSUME NobodyAssumption    == Nobody \notin Authorities \cup {Self}

Schemes     == Authorities \cup {Self}
Generations == 0 .. Rotations

(* After its key was withdrawn, a token may pass for this many ticks: one   *)
(* that a call lives through, and what is left of a Day in each cache.      *)
Window(s) == IF s = Self THEN Day ELSE 2 * Day - 1

Horizon == 2 * Day + 1  \* ages are not told apart beyond this

(* The scheme a token is presented under, whether it names the issuer of    *)
(* that scheme, and who has signed it with which key: a signer may name any *)
(* issuer.                                                                  *)
Tokens   == [scheme : Schemes, named : BOOLEAN, signer : Schemes,
             generation : Generations]
Keys     == [of : Schemes \cup {Nobody}, generations : SUBSET Generations]
NoKeys   == [of |-> Nobody, generations |-> {}]
NoToken  == [scheme |-> Self, named |-> TRUE, signer |-> Self, generation |-> 0]
Stages   == {"idle", "fetch", "look", "set", "done"}
Verdicts == {"open", "principal", "null", "threw"}

VARIABLES
  published,  \* scheme -> generations of keys it publishes
  fresh,      \* scheme -> generation -> ticks since it was introduced
  gone,       \* scheme -> generation -> ticks since it was withdrawn
  discovery,  \* authority -> the keys of its document and the ticks they are good for
  certs,      \* the cache entry "certs", and the ticks it is good for
  selfKeys,   \* the SelfValidator's entry, likewise
  stage,      \* caller -> where it is
  token,      \* caller -> what it has validated
  doc,        \* caller -> keys it holds: _discoveryResponse, or read from the store
  ticked,     \* caller -> a tick has passed since it began
  used,       \* caller -> the keys its token was checked with
  verdict     \* caller -> how the validation ended

keyVars   == <<published, fresh, gone>>
cacheVars == <<discovery, certs, selfKeys>>
callVars  == <<stage, token, doc, ticked, used, verdict>>
vars      == <<keyVars, cacheVars, callVars>>

Ages       == 0 .. Horizon
CachedKeys == [keys : Keys, left : 0 .. Day]
Empty      == [keys |-> NoKeys, left |-> 0]
Fresh(k)   == [keys |-> k, left |-> Day]

TypeOK ==
  /\ published \in [Schemes -> SUBSET Generations]
  /\ fresh \in [Schemes -> [Generations -> Ages]]
  /\ gone \in [Schemes -> [Generations -> Ages]]
  /\ discovery \in [Authorities -> CachedKeys]
  /\ certs \in CachedKeys
  /\ selfKeys \in CachedKeys
  /\ stage \in [Callers -> Stages]
  /\ token \in [Callers -> Tokens]
  /\ doc \in [Callers -> Keys]
  /\ ticked \in [Callers -> BOOLEAN]
  /\ used \in [Callers -> Keys]
  /\ verdict \in [Callers -> Verdicts]

(* The first keys have been there for long; the others are yet to come.     *)
Init ==
  /\ published = [s \in Schemes |-> {0}]
  /\ fresh = [s \in Schemes |-> [g \in Generations |-> IF g = 0 THEN Horizon ELSE 0]]
  /\ gone = [s \in Schemes |-> [g \in Generations |-> 0]]
  /\ discovery = [a \in Authorities |-> Empty]
  /\ certs = Empty
  /\ selfKeys = Empty
  /\ stage = [c \in Callers |-> "idle"]
  /\ token = [c \in Callers |-> NoToken]
  /\ doc = [c \in Callers |-> NoKeys]
  /\ ticked = [c \in Callers |-> FALSE]
  /\ used = [c \in Callers |-> NoKeys]
  /\ verdict = [c \in Callers |-> "open"]

-----------------------------------------------------------------------------
(* The authorities and the server's key store.                              *)

PublishedKeys(s) == [of |-> s, generations |-> published[s]]
Introduced(s, g) == fresh[s][g] > 0 \/ g \in published[s]

(* A new key takes over, at least a tick after the one before; the old ones *)
(* stay published or are withdrawn.                                         *)
Rotate(s, g) ==
  /\ ~Introduced(s, g) /\ g > 0 /\ fresh[s][g - 1] > 0
  /\ \E kept \in {{}, published[s]} :
       published' = [published EXCEPT ![s] = kept \cup {g}]
  /\ UNCHANGED <<fresh, gone, cacheVars, callVars>>

Older(n)   == IF n = Horizon THEN n ELSE n + 1
Expires(e) == CASE e.left > 1 -> [e EXCEPT !.left = @ - 1] [] OTHER -> Empty

(* Time passes for everybody.  A finished validation is taken up at once,   *)
(* and none lasts longer than from one tick to the next but one.            *)
Tick ==
  /\ \A c \in Callers : stage[c] # "idle" => stage[c] # "done" /\ ~ticked[c]
  /\ ticked' = [c \in Callers |-> stage[c] # "idle"]
  /\ fresh' = [s \in Schemes |-> [g \in Generations |->
                 IF Introduced(s, g) THEN Older(fresh[s][g]) ELSE 0]]
  /\ gone' = [s \in Schemes |-> [g \in Generations |->
                IF Introduced(s, g) /\ g \notin published[s]
                THEN Older(gone[s][g]) ELSE 0]]
  /\ discovery' = [a \in Authorities |-> Expires(discovery[a])]
  /\ certs' = Expires(certs)
  /\ selfKeys' = Expires(selfKeys)
  /\ UNCHANGED <<published, stage, token, doc, used, verdict>>

-----------------------------------------------------------------------------
(* The validators.                                                          *)

Goes(c, to) == stage' = [stage EXCEPT ![c] = to]

Ends(c, how, keys) ==
  /\ Goes(c, "done")
  /\ verdict' = [verdict EXCEPT ![c] = how]
  /\ used' = [used EXCEPT ![c] = keys]

(* How a validator says no.                                                 *)
Refusal(t) == IF t.scheme = Self THEN "null" ELSE "threw"

(* The signature has to fit one of the keys.  An OIDC token has to name the *)
(* issuer of the scheme's own document as well, whoever the keys are of.    *)
Accepts(t, keys) ==
  /\ t.signer = keys.of /\ t.generation \in keys.generations
  /\ t.scheme # Self => t.named

Judge(c, t, keys) == Ends(c, IF Accepts(t, keys) THEN "principal" ELSE Refusal(t), keys)

(* TokenValidator picks the validator by the token's scheme.  The           *)
(* SelfValidator looks for its keys; a ProviderValidator, new for each      *)
(* token, asks the authority's discovery cache for the document.            *)
ValidateToken(c, t) ==
  /\ stage[c] = "idle"
  /\ token' = [token EXCEPT ![c] = t]
  /\ IF t.scheme = Self
     THEN IF selfKeys.left > 0
          THEN Judge(c, t, selfKeys.keys) /\ UNCHANGED doc
          ELSE Goes(c, "fetch") /\ UNCHANGED <<doc, used, verdict>>
     ELSE IF discovery[t.scheme].left > 0
          THEN /\ doc' = [doc EXCEPT ![c] = discovery[t.scheme].keys]
               /\ Goes(c, "look") /\ UNCHANGED <<used, verdict>>
          ELSE Goes(c, "fetch") /\ UNCHANGED <<doc, used, verdict>>
  /\ UNCHANGED <<keyVars, cacheVars, ticked>>

(* The authority answers and its document is kept for a Day; the key store, *)
(* which is local, always answers.                                          *)
Answered(c) ==
  LET s == token[c].scheme
  IN /\ stage[c] = "fetch"
     /\ doc' = [doc EXCEPT ![c] = PublishedKeys(s)]
     /\ IF s = Self THEN Goes(c, "set") /\ UNCHANGED discovery
        ELSE /\ discovery' = [discovery EXCEPT ![s] = Fresh(PublishedKeys(s))]
             /\ Goes(c, "look")
     /\ UNCHANGED <<keyVars, certs, selfKeys, token, ticked, used, verdict>>

(* The authority cannot be reached: GetAsync throws and nothing is kept.    *)
Unreachable(c) ==
  /\ stage[c] = "fetch" /\ token[c].scheme # Self
  /\ Ends(c, Refusal(token[c]), NoKeys)
  /\ UNCHANGED <<keyVars, cacheVars, token, doc, ticked>>

(* FetchCertificates with an expiration that slides.                        *)
FetchCertificatesSliding(c) ==
  /\ stage[c] = "look"
  /\ IF certs.left > 0
     THEN Judge(c, token[c], certs.keys) /\ certs' = [certs EXCEPT !.left = Day]
     ELSE Goes(c, "set") /\ UNCHANGED <<used, verdict, certs>>
  /\ UNCHANGED <<keyVars, discovery, selfKeys, token, doc, ticked>>

(* FetchCertificates looks for "certs": with a hit, the keys are whosever   *)
(* they are.                                                                *)
FetchCertificates(c) ==
  /\ stage[c] = "look"
  /\ IF certs.left > 0 THEN Judge(c, token[c], certs.keys)
     ELSE Goes(c, "set") /\ UNCHANGED <<used, verdict>>
  /\ UNCHANGED <<keyVars, cacheVars, token, doc, ticked>>

(* After a miss the keys the call holds become the entry, over another      *)
(* call's if there is one by now.                                           *)
SetEntry(c) ==
  /\ stage[c] = "set"
  /\ IF token[c].scheme = Self
     THEN selfKeys' = Fresh(doc[c]) /\ UNCHANGED certs
     ELSE certs' = Fresh(doc[c]) /\ UNCHANGED selfKeys
  /\ Judge(c, token[c], doc[c])
  /\ UNCHANGED <<keyVars, discovery, token, doc, ticked>>

(* The caller has its principal, its null or its exception.                 *)
Return(c) ==
  /\ stage[c] = "done"
  /\ Goes(c, "idle")
  /\ token' = [token EXCEPT ![c] = NoToken]
  /\ doc' = [doc EXCEPT ![c] = NoKeys]
  /\ ticked' = [ticked EXCEPT ![c] = FALSE]
  /\ used' = [used EXCEPT ![c] = NoKeys]
  /\ verdict' = [verdict EXCEPT ![c] = "open"]
  /\ UNCHANGED <<keyVars, cacheVars>>

(* A token may come from anywhere, but an unsigned one needs no cache to be *)
(* refused: its key is one that its signer has, or has had.                 *)
Possible(t) == Introduced(t.signer, t.generation)

Inside(c) == Answered(c) \/ Unreachable(c) \/ FetchCertificates(c) \/ SetEntry(c)

Environment == Tick \/ \E s \in Schemes, g \in Generations : Rotate(s, g)

Next ==
  \/ Environment
  \/ \E c \in Callers :
       \/ \E t \in Tokens : Possible(t) /\ ValidateToken(c, t)
       \/ Inside(c) \/ Return(c)

Spec == Init /\ [][Next]_vars

-----------------------------------------------------------------------------
Accepted(c) == stage[c] = "done" /\ verdict[c] = "principal"
Refused(c)  == stage[c] = "done" /\ verdict[c] # "principal"

(* Whose signature passes: under "self" the server's own, whatever issuer   *)
(* the token names; under an OIDC scheme that of any of the authorities,    *)
(* because they share "certs", as long as the token names the issuer of the *)
(* scheme.                                                                  *)
Trusted(t) ==
  IF t.scheme = Self THEN t.signer = Self
  ELSE t.named /\ t.signer \in Authorities

(* Although two caches in a row hold the keys, two calls may fill an entry  *)
(* at once and "certs" may be filled for one authority and read for         *)
(* another, a token that is accepted is Trusted, and its key was withdrawn  *)
(* no longer ago than the Window.                                           *)
AcceptedKeysAreRecent ==
  \A c \in Callers : Accepted(c) =>
    LET t == token[c]
    IN /\ Trusted(t)
       /\ \/ t.generation \in published[t.signer]
          \/ gone[t.signer][t.generation] <= Window(t.scheme)

(* A scheme's own token whose key has been published for the Window is      *)
(* refused only for the two reasons an OIDC scheme has: its authority       *)
(* cannot be reached, or "certs" holds the keys of another one.             *)
GoodTokensPass ==
  \A c \in Callers :
    LET t == token[c]
        good == /\ t.signer = t.scheme /\ (t.scheme = Self \/ t.named)
                /\ t.generation \in published[t.scheme]
                /\ fresh[t.scheme][t.generation] > Window(t.scheme)
    IN Refused(c) /\ good =>
         t.scheme # Self /\ (doc[c] = NoKeys \/ used[c].of # t.scheme)

VerdictsAreRecent == AcceptedKeysAreRecent /\ GoodTokensPass
=============================================================================

------------------------- MODULE AppIdentity_proofs -------------------------
(***************************************************************************)
(* For any number of callers, authorities, rotations and identities: the   *)
(* types, how long a key is trusted after it was withdrawn and how soon a  *)
(* new one is, and that every identity goes back to an authorized creation *)
(* or to a token that this server signed with the same subject and claims. *)
(***************************************************************************)
EXTENDS AppIdentity, Integers, TLAPS

\* A step of the validators and their surroundings, whoever the token is from.
KeyStep ==
  \/ Environment
  \/ \E c \in Callers : \/ \E t \in Tokens : ValidateToken(c, t)
                        \/ Inside(c) \/ Return(c)
  \/ UNCHANGED vars

\* Ages, and what is left of an entry.
LEMMA Horizons == Horizon \in Nat /\ 0 \in Ages /\ Horizon \in Ages /\ 0 \in 0 .. Day
                  /\ Day \in 0 .. Day
BY DayAssumption DEF Horizon, Ages

LEMMA OlderAge == ASSUME NEW n \in Ages PROVE Older(n) \in Ages /\ Older(n) <= n + 1
BY Horizons DEF Older, Ages

LEMMA ExpiresEntry ==
  ASSUME NEW e \in CachedKeys
  PROVE  /\ Expires(e) \in CachedKeys
         /\ Expires(e).left > 0 => /\ e.left > 1 /\ Expires(e).left = e.left - 1
                                   /\ Expires(e).keys = e.keys
<1>1. NoKeys \in Keys
  BY DEF NoKeys, Keys
<1>2. Empty \in CachedKeys /\ Empty.left = 0
  BY <1>1, Horizons DEF Empty, CachedKeys
<1>3. CASE e.left > 1
  <2>1. Expires(e) = [e EXCEPT !.left = e.left - 1]
    BY <1>3 DEF Expires
  <2>2. e.left - 1 \in 0 .. Day
    BY <1>3, DayAssumption DEF CachedKeys
  <2> QED BY <1>3, <2>1, <2>2 DEF CachedKeys
<1>4. CASE ~(e.left > 1)
  BY <1>2, <1>4 DEF Expires
<1> QED BY <1>3, <1>4

LEMMA FreshEntry == ASSUME NEW k \in Keys PROVE Fresh(k) \in CachedKeys
BY Horizons DEF Fresh, CachedKeys

LEMMA Constants ==
  /\ NoKeys \in Keys /\ NoToken \in Tokens /\ Empty \in CachedKeys
  /\ 0 \in Generations /\ Self \in Schemes /\ Authorities \subseteq Schemes
<1>1. 0 \in Generations
  BY RotationsAssumption DEF Generations
<1> QED BY <1>1, Horizons DEF NoKeys, Keys, NoToken, Tokens, Schemes, Empty, CachedKeys

LEMMA PublishedType == ASSUME TypeOK, NEW s \in Schemes PROVE PublishedKeys(s) \in Keys
BY DEF TypeOK, PublishedKeys, Keys

LEMMA InitKeyTypes == Init => TypeOK
<1> SUFFICES ASSUME Init PROVE TypeOK
  OBVIOUS
<1>1. {0} \in SUBSET Generations
  BY Constants
<1>2. (\A g \in Generations : (IF g = 0 THEN Horizon ELSE 0) \in Ages) /\ 0 \in Ages
  BY Horizons
<1>3. fresh \in [Schemes -> [Generations -> Ages]] /\ gone \in [Schemes -> [Generations -> Ages]]
  BY <1>2 DEF Init
<1> QED BY <1>1, <1>3, Constants DEF Init, TypeOK, Stages, Verdicts

\* A validation that ends, with keys of either kind.
LEMMA JudgeType ==
  ASSUME TypeOK, NEW c \in Callers, NEW t, NEW k \in Keys, Judge(c, t, k)
  PROVE  /\ stage' \in [Callers -> Stages] /\ verdict' \in [Callers -> Verdicts]
         /\ used' \in [Callers -> Keys]
BY DEF TypeOK, Judge, Ends, Goes, Stages, Verdicts, Refusal

LEMMA StepKeyTypes == TypeOK /\ KeyStep => TypeOK'
<1> SUFFICES ASSUME TypeOK, KeyStep PROVE TypeOK'
  OBVIOUS
<1> USE DEF TypeOK
<1>1. ASSUME Tick PROVE TypeOK'
  <2>1. \A s \in Schemes, g \in Generations : Older(fresh[s][g]) \in Ages /\ Older(gone[s][g]) \in Ages
    BY OlderAge
  <2>2. fresh' \in [Schemes -> [Generations -> Ages]] /\ gone' \in [Schemes -> [Generations -> Ages]]
    BY <1>1, <2>1, Horizons DEF Tick
  <2>3. /\ discovery' \in [Authorities -> CachedKeys]
        /\ certs' \in CachedKeys /\ selfKeys' \in CachedKeys
    BY <1>1, ExpiresEntry DEF Tick
  <2> QED BY <1>1, <2>2, <2>3 DEF Tick
<1>2. ASSUME NEW s \in Schemes, NEW g \in Generations, Rotate(s, g) PROVE TypeOK'
  <2>1. published' \in [Schemes -> SUBSET Generations]
    BY <1>2 DEF Rotate
  <2> QED BY <1>2, <2>1 DEF Rotate, cacheVars, callVars
<1>3. ASSUME NEW c \in Callers, NEW t \in Tokens, ValidateToken(c, t) PROVE TypeOK'
  <2>1. CASE t.scheme = Self
    <3>1. selfKeys.keys \in Keys
      BY DEF CachedKeys
    <3>2. /\ stage' \in [Callers -> Stages] /\ verdict' \in [Callers -> Verdicts]
          /\ used' \in [Callers -> Keys] /\ doc' = doc
      BY <1>3, <2>1, <3>1, JudgeType DEF ValidateToken, Goes, Stages
    <3> QED BY <1>3, <3>2 DEF ValidateToken, keyVars, cacheVars
  <2>2. CASE t.scheme # Self
    <3>1. discovery[t.scheme].keys \in Keys
      BY <2>2 DEF Tokens, Schemes, CachedKeys
    <3>2. /\ stage' \in [Callers -> Stages] /\ doc' \in [Callers -> Keys]
          /\ UNCHANGED <<used, verdict>>
      BY <1>3, <2>2, <3>1 DEF ValidateToken, Goes, Stages
    <3> QED BY <1>3, <3>2 DEF ValidateToken, keyVars, cacheVars
  <2> QED BY <2>1, <2>2
<1>4. ASSUME NEW c \in Callers, Answered(c) PROVE TypeOK'
  <2>1. PublishedKeys(token[c].scheme) \in Keys /\ token[c].scheme \in Schemes
    BY PublishedType DEF Tokens
  <2>2. Fresh(PublishedKeys(token[c].scheme)) \in CachedKeys
    BY <2>1, FreshEntry
  <2>3. stage' \in [Callers -> Stages] /\ discovery' \in [Authorities -> CachedKeys]
    BY <1>4, <2>1, <2>2 DEF Answered, Goes, Stages, Schemes
  <2> QED BY <1>4, <2>1, <2>3 DEF Answered, keyVars
<1>5. ASSUME NEW c \in Callers, Unreachable(c) PROVE TypeOK'
  BY <1>5, Constants DEF Unreachable, Ends, Goes, Stages, Verdicts, Refusal, keyVars, cacheVars
<1>6. ASSUME NEW c \in Callers, FetchCertificates(c) PROVE TypeOK'
  <2>1. certs.keys \in Keys
    BY DEF CachedKeys
  <2>2. /\ stage' \in [Callers -> Stages] /\ verdict' \in [Callers -> Verdicts]
        /\ used' \in [Callers -> Keys]
    BY <1>6, <2>1, JudgeType DEF FetchCertificates, Goes, Stages
  <2> QED BY <1>6, <2>2 DEF FetchCertificates, keyVars, cacheVars
<1>7. ASSUME NEW c \in Callers, SetEntry(c) PROVE TypeOK'
  <2>1. doc[c] \in Keys /\ Fresh(doc[c]) \in CachedKeys
    BY FreshEntry
  <2>2. certs' \in CachedKeys /\ selfKeys' \in CachedKeys
    BY <1>7, <2>1 DEF SetEntry
  <2> QED BY <1>7, <2>1, <2>2, JudgeType DEF SetEntry, keyVars
<1>8. ASSUME NEW c \in Callers, Return(c) PROVE TypeOK'
  BY <1>8, Constants DEF Return, Goes, Stages, Verdicts, keyVars, cacheVars
<1>9. CASE UNCHANGED vars
  BY <1>9 DEF vars, keyVars, cacheVars, callVars
<1> QED BY <1>1, <1>2, <1>3, <1>4, <1>5, <1>6, <1>7, <1>8, <1>9 DEF KeyStep, Environment, Inside

-----------------------------------------------------------------------------
(* What is known of keys that were read some ticks ago: one of them that is *)
(* no longer published was withdrawn since, and one that is published now   *)
(* and not among them was introduced since.                                 *)
UpToDate(k, n) ==
  /\ k.of \in Schemes
  /\ \A g \in Generations :
       /\ g \in k.generations => g \in published[k.of] \/ gone[k.of][g] <= n
       /\ g \in published[k.of] => g \in k.generations \/ fresh[k.of][g] <= n

\* A key that is published, or was never, has not been gone for any time.
OnlyOldKeysAreGone ==
  \A s \in Schemes, g \in Generations :
    g \in published[s] \/ fresh[s][g] = 0 => gone[s][g] = 0

\* Ticks that the keys a call holds have seen at most.
Held(c) == (IF token[c].scheme = Self THEN 0 ELSE Day - 1) + (IF ticked[c] THEN 1 ELSE 0)

CachesAreRecent ==
  /\ \A a \in Authorities :
       discovery[a].left > 0 => /\ discovery[a].keys.of = a
                                /\ UpToDate(discovery[a].keys, Day - discovery[a].left)
  /\ certs.left > 0 => /\ certs.keys.of \in Authorities
                       /\ UpToDate(certs.keys, 2 * Day - certs.left)
  /\ selfKeys.left > 0 => /\ selfKeys.keys.of = Self
                          /\ UpToDate(selfKeys.keys, 1 + Day - selfKeys.left)

CallsAreRecent ==
  \A c \in Callers :
    /\ stage[c] = "look" => token[c].scheme # Self
    /\ stage[c] \in {"look", "set"} =>
         doc[c].of = token[c].scheme /\ UpToDate(doc[c], Held(c))

KeysSound ==
  TypeOK /\ OnlyOldKeysAreGone /\ CachesAreRecent /\ CallsAreRecent /\ VerdictsAreRecent

LEMMA UpToDateLonger ==
  ASSUME TypeOK, NEW k \in Keys, NEW m \in Int, NEW n \in Int, m <= n, UpToDate(k, m)
  PROVE  UpToDate(k, n)
<1>1. \A g \in Generations : fresh[k.of][g] \in Int /\ gone[k.of][g] \in Int
  BY Horizons DEF UpToDate, TypeOK, Ages
<1> QED BY <1>1 DEF UpToDate

LEMMA PublishedUpToDate ==
  ASSUME NEW s \in Schemes PROVE UpToDate(PublishedKeys(s), 0) /\ PublishedKeys(s).of = s
BY DEF UpToDate, PublishedKeys

\* What is left unchanged stays as recent as it was.
LEMMA UpToDateKept ==
  ASSUME UNCHANGED keyVars, NEW k, NEW n, UpToDate(k, n) PROVE UpToDate(k, n)'
BY DEF UpToDate, keyVars

LEMMA UpToDateTick ==
  ASSUME TypeOK, Tick, NEW k \in Keys, NEW n \in Nat, UpToDate(k, n)
  PROVE  UpToDate(k, n + 1)'
<1> SUFFICES ASSUME NEW g \in Generations
             PROVE  /\ g \in k.generations => g \in published[k.of] \/ gone'[k.of][g] <= n + 1
                    /\ g \in published[k.of] => g \in k.generations \/ fresh'[k.of][g] <= n + 1
  BY DEF UpToDate, Tick
<1>1. k.of \in Schemes /\ fresh[k.of][g] \in Ages /\ gone[k.of][g] \in Ages
  BY DEF UpToDate, TypeOK
<1>2. gone'[k.of][g] = (IF Introduced(k.of, g) /\ g \notin published[k.of]
                        THEN Older(gone[k.of][g]) ELSE 0)
  BY <1>1 DEF Tick
<1>3. fresh'[k.of][g] = (IF Introduced(k.of, g) THEN Older(fresh[k.of][g]) ELSE 0)
  BY <1>1 DEF Tick
<1>4. /\ Older(gone[k.of][g]) \in Int /\ Older(gone[k.of][g]) <= gone[k.of][g] + 1
      /\ Older(fresh[k.of][g]) \in Int /\ Older(fresh[k.of][g]) <= fresh[k.of][g] + 1
      /\ gone[k.of][g] \in Int /\ fresh[k.of][g] \in Int
  BY <1>1, OlderAge, Horizons DEF Ages
<1>5. ASSUME g \in k.generations, g \notin published[k.of] PROVE gone'[k.of][g] <= n + 1
  <2>1. gone[k.of][g] <= n
    BY <1>5 DEF UpToDate
  <2> QED BY <1>2, <1>4, <2>1
<1>6. ASSUME g \in published[k.of], g \notin k.generations PROVE fresh'[k.of][g] <= n + 1
  <2>1. fresh[k.of][g] <= n
    BY <1>6 DEF UpToDate
  <2> QED BY <1>3, <1>4, <2>1
<1> QED BY <1>5, <1>6

LEMMA UpToDateRotate ==
  ASSUME TypeOK, OnlyOldKeysAreGone, NEW s \in Schemes, NEW g \in Generations, Rotate(s, g),
         NEW k, NEW n \in Nat, UpToDate(k, n)
  PROVE  UpToDate(k, n)'
<1>1. PICK kept \in {{}, published[s]} : published' = [published EXCEPT ![s] = kept \cup {g}]
  BY DEF Rotate
<1>2. UNCHANGED <<fresh, gone>>
  BY DEF Rotate
<1>3. fresh[s][g] = 0
  BY Horizons DEF Rotate, Introduced, TypeOK, Ages
<1> SUFFICES ASSUME NEW h \in Generations
             PROVE  /\ h \in k.generations => h \in published'[k.of] \/ gone[k.of][h] <= n
                    /\ h \in published'[k.of] => h \in k.generations \/ fresh[k.of][h] <= n
  BY <1>2 DEF UpToDate
<1>4. k.of \in Schemes
  BY DEF UpToDate
<1>5. CASE k.of # s
  BY <1>1, <1>4, <1>5 DEF UpToDate, TypeOK
<1>6. CASE k.of = s
  <2>1. published'[s] \subseteq published[s] \cup {g} /\ g \in published'[s]
    BY <1>1 DEF TypeOK
  <2>2. h \in published[s] => gone[s][h] = 0
    BY DEF OnlyOldKeysAreGone
  <2> QED BY <1>3, <1>6, <2>1, <2>2 DEF UpToDate
<1> QED BY <1>5, <1>6

LEMMA StepGoneKeys == TypeOK /\ OnlyOldKeysAreGone /\ KeyStep => OnlyOldKeysAreGone'
<1> SUFFICES ASSUME TypeOK, OnlyOldKeysAreGone, KeyStep PROVE OnlyOldKeysAreGone'
  OBVIOUS
<1>1. CASE Tick
  <2> SUFFICES ASSUME NEW s \in Schemes, NEW g \in Generations,
                      g \in published'[s] \/ fresh'[s][g] = 0
               PROVE  gone'[s][g] = 0
    BY DEF OnlyOldKeysAreGone
  <2>1. gone'[s][g] = (IF Introduced(s, g) /\ g \notin published[s] THEN Older(gone[s][g]) ELSE 0)
    BY <1>1 DEF Tick
  <2>2. fresh'[s][g] = (IF Introduced(s, g) THEN Older(fresh[s][g]) ELSE 0)
    BY <1>1 DEF Tick
  <2>3. published' = published
    BY <1>1 DEF Tick
  <2>4. fresh[s][g] \in Ages /\ Horizon > 0
    BY DayAssumption DEF TypeOK, Horizon
  <2>5. Older(fresh[s][g]) > 0
    BY <2>4, Horizons DEF Older, Ages
  <2> QED BY <2>1, <2>2, <2>3, <2>5
<1>2. ASSUME NEW s \in Schemes, NEW g \in Generations, Rotate(s, g) PROVE OnlyOldKeysAreGone'
  <2>1. fresh[s][g] = 0
    BY <1>2, Horizons DEF Rotate, Introduced, TypeOK, Ages
  <2>2. \A r \in Schemes, h \in Generations :
          h \in published'[r] => h \in published[r] \/ (r = s /\ h = g)
    BY <1>2 DEF Rotate, TypeOK
  <2>3. UNCHANGED <<fresh, gone>>
    BY <1>2 DEF Rotate
  <2> QED BY <2>1, <2>2, <2>3 DEF OnlyOldKeysAreGone
<1>3. CASE UNCHANGED keyVars
  BY <1>3 DEF keyVars, OnlyOldKeysAreGone
<1> QED BY <1>1, <1>2, <1>3 DEF KeyStep, Environment, Inside, ValidateToken, Answered, Unreachable,
           FetchCertificates, SetEntry, Return, vars

\* The verdict of one caller.
JudgedWell(c) ==
  LET t == token[c]
  IN /\ Accepted(c) => /\ Trusted(t)
                       /\ \/ t.generation \in published[t.signer]
                          \/ gone[t.signer][t.generation] <= Window(t.scheme)
     /\ /\ Refused(c) /\ t.signer = t.scheme /\ (t.scheme = Self \/ t.named)
        /\ t.generation \in published[t.scheme]
        /\ fresh[t.scheme][t.generation] > Window(t.scheme)
        => t.scheme # Self /\ (doc[c] = NoKeys \/ used[c].of # t.scheme)

LEMMA VerdictsAreJudgedWell == VerdictsAreRecent <=> \A c \in Callers : JudgedWell(c)
BY DEF VerdictsAreRecent, AcceptedKeysAreRecent, GoodTokensPass, JudgedWell

\* A validation that is open has not been judged.
LEMMA OpenIsWell == ASSUME NEW c \in Callers, stage[c] # "done" PROVE JudgedWell(c)
BY DEF JudgedWell, Accepted, Refused

LEMMA WindowIsNat ==
  ASSUME NEW s \in Schemes PROVE Window(s) \in Nat /\ Window(s) > 0 /\ Window(s) >= Day
BY DayAssumption DEF Window

\* Keys that are no older than the window give a good verdict: under "self" if they
\* are the server's, and under an OIDC scheme if they are an authority's.
LEMMA JudgeIsWell ==
  ASSUME TypeOK, TypeOK', NEW c \in Callers, NEW t \in Tokens, NEW k \in Keys,
         Judge(c, t, k), token'[c] = t, UNCHANGED keyVars,
         UpToDate(k, Window(t.scheme)),
         IF t.scheme = Self THEN k.of = Self ELSE k.of \in Authorities
  PROVE  JudgedWell(c)'
<1>1. /\ stage'[c] = "done" /\ used'[c] = k
      /\ verdict'[c] = (IF Accepts(t, k) THEN "principal" ELSE Refusal(t))
  BY DEF Judge, Ends, Goes, TypeOK
<1>2. Refusal(t) # "principal"
  BY DEF Refusal
<1>3. t.scheme \in Schemes /\ t.generation \in Generations
  BY DEF Tokens
<1>4. CASE Accepts(t, k)
  <2>1. t.signer = k.of /\ t.generation \in k.generations /\ Trusted(t)
    BY <1>4 DEF Accepts, Trusted
  <2>2. t.generation \in published[t.signer] \/ gone[t.signer][t.generation] <= Window(t.scheme)
    BY <1>3, <2>1 DEF UpToDate
  <2> QED BY <1>1, <1>4, <2>1, <2>2 DEF JudgedWell, Accepted, Refused, Trusted, keyVars, Window
<1>5. CASE ~Accepts(t, k)
  <2> SUFFICES ASSUME t.signer = t.scheme, t.scheme = Self \/ t.named,
                      t.generation \in published[t.scheme],
                      fresh[t.scheme][t.generation] > Window(t.scheme)
               PROVE  t.scheme # Self /\ k.of # t.scheme
    BY <1>1, <1>2, <1>5 DEF JudgedWell, Accepted, Refused, keyVars, Window
  <2>1. fresh[t.scheme][t.generation] \in Nat /\ Window(t.scheme) \in Nat
    BY <1>3, WindowIsNat, Horizons DEF TypeOK, Ages
  <2>2. k.of = t.scheme => t.generation \in k.generations
    BY <1>3, <2>1 DEF UpToDate
  <2>3. k.of # t.scheme
    BY <1>5, <2>2 DEF Accepts
  <2> QED BY <2>3
<1> QED BY <1>4, <1>5

\* A caller's step leaves the others' verdicts alone.
LEMMA OthersKeepVerdicts ==
  ASSUME VerdictsAreRecent, NEW c \in Callers, UNCHANGED keyVars, JudgedWell(c)',
         \A d \in Callers \ {c} :
           /\ stage'[d] = stage[d] /\ token'[d] = token[d] /\ doc'[d] = doc[d]
           /\ used'[d] = used[d] /\ verdict'[d] = verdict[d]
  PROVE  VerdictsAreRecent'
<1>1. \A d \in Callers \ {c} : JudgedWell(d)'
  BY VerdictsAreJudgedWell DEF JudgedWell, Accepted, Refused, keyVars, Window
<1>2. \A d \in Callers : JudgedWell(d)'
  BY <1>1
<1> QED BY <1>2 DEF VerdictsAreRecent, AcceptedKeysAreRecent, GoodTokensPass, JudgedWell

\* What one caller changes of the calls.
LEMMA OneCallChanges ==
  ASSUME TypeOK, NEW c \in Callers,
         \/ \E t \in Tokens : ValidateToken(c, t)
         \/ Inside(c) \/ Return(c)
  PROVE  /\ UNCHANGED keyVars
         /\ \A d \in Callers \ {c} :
              /\ stage'[d] = stage[d] /\ token'[d] = token[d] /\ doc'[d] = doc[d]
              /\ used'[d] = used[d] /\ verdict'[d] = verdict[d] /\ ticked'[d] = ticked[d]
<1> USE DEF TypeOK, Goes, Ends, Judge
<1>1. ASSUME NEW t \in Tokens, ValidateToken(c, t)
      PROVE  /\ UNCHANGED keyVars
             /\ \A d \in Callers \ {c} :
                  /\ stage'[d] = stage[d] /\ token'[d] = token[d] /\ doc'[d] = doc[d]
                  /\ used'[d] = used[d] /\ verdict'[d] = verdict[d] /\ ticked'[d] = ticked[d]
  BY <1>1 DEF ValidateToken
<1>2. CASE Inside(c) \/ Return(c)
  BY <1>2 DEF Inside, Answered, Unreachable, FetchCertificates, SetEntry, Return
<1> QED BY <1>1, <1>2

\* What a call holds was read this many ticks ago, at most.
LEMMA HeldIsNat ==
  ASSUME TypeOK, NEW c \in Callers
  PROVE  /\ Held(c) \in Nat /\ Held(c) <= Day
         /\ token[c].scheme = Self => Held(c) <= 1
BY DayAssumption DEF Held, TypeOK

\* Time: what is kept, and what a call holds, has been read a tick longer ago.
LEMMA TickSound == KeysSound /\ Tick => CachesAreRecent' /\ CallsAreRecent' /\ VerdictsAreRecent'
<1> SUFFICES ASSUME KeysSound, Tick
             PROVE  CachesAreRecent' /\ CallsAreRecent' /\ VerdictsAreRecent'
  OBVIOUS
<1>t. TypeOK
  BY DEF KeysSound
<1>1. ASSUME NEW e \in CachedKeys, NEW n \in Nat, Expires(e).left > 0,
             e.left > 0 => UpToDate(e.keys, n + Day - e.left)
      PROVE  UpToDate(Expires(e).keys, n + Day - Expires(e).left)' /\ Expires(e).keys = e.keys
             /\ e.left > 0
  <2>1. e.left > 0 /\ Expires(e).left = e.left - 1 /\ Expires(e).keys = e.keys
    BY <1>1, ExpiresEntry DEF CachedKeys
  <2>2. e.left \in 0 .. Day /\ e.keys \in Keys
    BY DEF CachedKeys
  <2>3. n + Day - e.left \in Nat
    BY <2>2, DayAssumption
  <2>4. UpToDate(e.keys, (n + Day - e.left) + 1)'
    BY <1>1, <1>t, <2>1, <2>2, <2>3, UpToDateTick
  <2>5. (n + Day - e.left) + 1 = n + Day - Expires(e).left
    BY <2>1, <2>2, DayAssumption
  <2> QED BY <2>1, <2>4, <2>5
<1>2. ASSUME NEW a \in Authorities, discovery'[a].left > 0
      PROVE  discovery'[a].keys.of = a /\ UpToDate(discovery[a].keys, Day - discovery[a].left)'
  <2>1. PICK e \in CachedKeys : e = discovery[a]
    BY <1>t DEF TypeOK
  <2>2. 0 \in Nat /\ \A m \in 0 .. Day : 0 + Day - m = Day - m
    BY DayAssumption
  <2>3. e.left \in 0 .. Day /\ Expires(e).left \in 0 .. Day
    BY ExpiresEntry DEF CachedKeys
  <2>4. e.left > 0 => e.keys.of = a /\ UpToDate(e.keys, 0 + Day - e.left)
    BY <2>1, <2>2, <2>3 DEF KeysSound, CachesAreRecent
  <2>5. discovery'[a] = Expires(e) /\ Expires(e).left > 0
    BY <1>2, <2>1 DEF Tick
  <2>6. /\ UpToDate(Expires(e).keys, 0 + Day - Expires(e).left)'
        /\ Expires(e).keys = e.keys /\ e.left > 0
    BY <1>1, <2>2, <2>4, <2>5
  <2> QED BY <2>2, <2>3, <2>4, <2>5, <2>6 DEF UpToDate
<1>3. ASSUME certs'.left > 0
      PROVE  certs'.keys.of \in Authorities /\ UpToDate(certs.keys, 2 * Day - certs.left)'
  <2>1. PICK e \in CachedKeys : e = certs
    BY <1>t DEF TypeOK
  <2>2. Day \in Nat /\ \A m \in 0 .. Day : Day + Day - m = 2 * Day - m
    BY DayAssumption
  <2>3. e.left \in 0 .. Day /\ Expires(e).left \in 0 .. Day
    BY ExpiresEntry DEF CachedKeys
  <2>4. e.left > 0 => e.keys.of \in Authorities /\ UpToDate(e.keys, Day + Day - e.left)
    BY <2>1, <2>2, <2>3 DEF KeysSound, CachesAreRecent
  <2>5. certs' = Expires(e) /\ Expires(e).left > 0
    BY <1>3, <2>1 DEF Tick
  <2>6. /\ UpToDate(Expires(e).keys, Day + Day - Expires(e).left)'
        /\ Expires(e).keys = e.keys /\ e.left > 0
    BY <1>1, <2>2, <2>4, <2>5
  <2> QED BY <2>2, <2>3, <2>4, <2>5, <2>6 DEF UpToDate
<1>4. ASSUME selfKeys'.left > 0
      PROVE  selfKeys'.keys.of = Self /\ UpToDate(selfKeys.keys, 1 + Day - selfKeys.left)'
  <2>1. PICK e \in CachedKeys : e = selfKeys
    BY <1>t DEF TypeOK
  <2>2. e.left > 0 => e.keys.of = Self /\ UpToDate(e.keys, 1 + Day - e.left)
    BY <2>1 DEF KeysSound, CachesAreRecent
  <2>3. selfKeys' = Expires(e) /\ Expires(e).left > 0
    BY <1>4, <2>1 DEF Tick
  <2>4. /\ UpToDate(Expires(e).keys, 1 + Day - Expires(e).left)'
        /\ Expires(e).keys = e.keys /\ e.left > 0
    BY <1>1, <2>2, <2>3
  <2> QED BY <2>2, <2>3, <2>4 DEF UpToDate
<1>5. CachesAreRecent'
  BY <1>2, <1>3, <1>4 DEF CachesAreRecent
<1>6. UNCHANGED <<stage, token, doc, used, verdict>>
  BY DEF Tick
<1>7. ASSUME NEW c \in Callers, stage[c] \in {"look", "set"}
      PROVE  doc[c].of = token[c].scheme /\ UpToDate(doc[c], Held(c))'
  <2>1. ~ticked[c] /\ ticked'[c]
    BY <1>7 DEF Tick
  <2>2. PICK k \in Keys, n \in Nat : k = doc[c] /\ n = Held(c)
    BY <1>t, HeldIsNat DEF TypeOK
  <2>3. k.of = token[c].scheme /\ UpToDate(k, n)
    BY <1>7, <2>2 DEF KeysSound, CallsAreRecent
  <2>4. Held(c)' = n + 1 /\ doc'[c] = k
    BY <1>t, <1>6, <2>1, <2>2, HeldIsNat, DayAssumption DEF Held
  <2>5. UpToDate(k, n + 1)'
    BY <1>t, <2>3, UpToDateTick
  <2> QED BY <2>2, <2>3, <2>4, <2>5 DEF UpToDate
<1>8. CallsAreRecent'
  BY <1>6, <1>7 DEF KeysSound, CallsAreRecent
<1>9. \A c \in Callers : stage'[c] # "done"
  BY <1>6 DEF Tick
<1>10. VerdictsAreRecent'
  BY <1>9 DEF VerdictsAreRecent, AcceptedKeysAreRecent, GoodTokensPass, Accepted, Refused
<1> QED BY <1>5, <1>8, <1>10

\* A new key makes nothing that is kept older, and turns no verdict.
LEMMA RotateSound ==
  ASSUME KeysSound, NEW s \in Schemes, NEW g \in Generations, Rotate(s, g)
  PROVE  CachesAreRecent' /\ CallsAreRecent' /\ VerdictsAreRecent'
<1>t. TypeOK /\ OnlyOldKeysAreGone
  BY DEF KeysSound
<1>1. UNCHANGED <<fresh, gone, cacheVars, callVars>>
  BY DEF Rotate
<1>2. \A n \in Nat : \A k : UpToDate(k, n) => UpToDate(k, n)'
  BY <1>t, UpToDateRotate
<1>3. /\ \A a \in Authorities : Day - discovery[a].left \in Nat
      /\ 2 * Day - certs.left \in Nat /\ 1 + Day - selfKeys.left \in Nat
  <2>1. \A m \in 0 .. Day : Day - m \in Nat /\ 2 * Day - m \in Nat /\ 1 + Day - m \in Nat
    BY DayAssumption
  <2> QED BY <1>t, <2>1 DEF TypeOK, CachedKeys
<1>4. CachesAreRecent'
  BY <1>1, <1>2, <1>3 DEF KeysSound, CachesAreRecent, cacheVars
<1>5. \A c \in Callers : Held(c)' = Held(c) /\ Held(c) \in Nat
  BY <1>t, <1>1, HeldIsNat DEF Held, callVars
<1>6. CallsAreRecent'
  BY <1>1, <1>2, <1>5 DEF KeysSound, CallsAreRecent, callVars
<1>7. ASSUME NEW c \in Callers PROVE JudgedWell(c)'
  <2> DEFINE t == token[c]
  <2>1. /\ t.scheme \in Schemes /\ t.signer \in Schemes /\ t.generation \in Generations
        /\ JudgedWell(c)
    BY <1>t, VerdictsAreJudgedWell DEF KeysSound, TypeOK, Tokens
  <2>2. /\ t.generation \in published[t.signer] => gone[t.signer][t.generation] = 0
        /\ Window(t.scheme) \in Nat /\ Window(t.scheme) > 0
    BY <1>t, <2>1, WindowIsNat DEF OnlyOldKeysAreGone
  <2>3. t.generation \in published'[t.scheme] =>
          t.generation \in published[t.scheme] \/ fresh[t.scheme][t.generation] = 0
    BY <1>t, <2>1, Horizons DEF Rotate, Introduced, TypeOK, Ages
  <2>4. Accepted(c) => /\ Trusted(t)
                       /\ \/ t.generation \in published'[t.signer]
                          \/ gone[t.signer][t.generation] <= Window(t.scheme)
    BY <2>1, <2>2 DEF JudgedWell
  <2>5. /\ Refused(c) /\ t.signer = t.scheme /\ (t.scheme = Self \/ t.named)
        /\ t.generation \in published'[t.scheme]
        /\ fresh[t.scheme][t.generation] > Window(t.scheme)
        => t.scheme # Self /\ (doc[c] = NoKeys \/ used[c].of # t.scheme)
    BY <2>1, <2>2, <2>3 DEF JudgedWell
  <2> QED BY <1>1, <2>4, <2>5 DEF JudgedWell, Accepted, Refused, Trusted, callVars, Window
<1>8. VerdictsAreRecent'
  BY <1>7 DEF VerdictsAreRecent, AcceptedKeysAreRecent, GoodTokensPass, JudgedWell
<1> QED BY <1>4, <1>6, <1>8

\* What the others hold stays as it is while one caller goes on.
LEMMA OthersKeepKeys ==
  ASSUME KeysSound, NEW c \in Callers, UNCHANGED keyVars,
         \A d \in Callers \ {c} :
           /\ stage'[d] = stage[d] /\ token'[d] = token[d] /\ doc'[d] = doc[d]
           /\ ticked'[d] = ticked[d],
         stage'[c] = "look" => token'[c].scheme # Self,
         stage'[c] \in {"look", "set"} =>
           doc'[c].of = token'[c].scheme /\ UpToDate(doc[c], Held(c))'
  PROVE  CallsAreRecent'
<1> SUFFICES ASSUME NEW d \in Callers \ {c}, stage[d] \in {"look", "set"}
             PROVE  doc'[d].of = token'[d].scheme /\ UpToDate(doc[d], Held(d))'
  BY DEF KeysSound, CallsAreRecent
<1>1. doc[d].of = token[d].scheme /\ UpToDate(doc[d], Held(d))
  BY DEF KeysSound, CallsAreRecent
<1>2. Held(d)' = Held(d) /\ doc'[d] = doc[d]
  BY DEF Held
<1> QED BY <1>1, <1>2 DEF UpToDate, keyVars

\* What the caches hold stays as it is while nobody reads an authority's keys.
LEMMA CachesKept ==
  ASSUME KeysSound, UNCHANGED <<keyVars, cacheVars>> PROVE CachesAreRecent'
BY DEF KeysSound, CachesAreRecent, UpToDate, keyVars, cacheVars

LEMMA ValidateSound ==
  ASSUME KeysSound, TypeOK', NEW c \in Callers, NEW t \in Tokens, ValidateToken(c, t)
  PROVE  CachesAreRecent' /\ CallsAreRecent' /\ VerdictsAreRecent'
<1>t. TypeOK
  BY DEF KeysSound
<1>1. /\ UNCHANGED <<keyVars, cacheVars, ticked>> /\ token'[c] = t
      /\ \A d \in Callers \ {c} :
           /\ stage'[d] = stage[d] /\ token'[d] = token[d] /\ doc'[d] = doc[d]
           /\ used'[d] = used[d] /\ verdict'[d] = verdict[d] /\ ticked'[d] = ticked[d]
  BY <1>t, OneCallChanges DEF ValidateToken, TypeOK
<1>2. CachesAreRecent'
  BY <1>1, CachesKept
<1>3. CASE stage'[c] = "fetch"
  <2>1. JudgedWell(c)'
    BY <1>3 DEF JudgedWell, Accepted, Refused
  <2>2. VerdictsAreRecent'
    BY <1>1, <2>1, OthersKeepVerdicts DEF KeysSound
  <2>3. CallsAreRecent'
    BY <1>1, <1>3, OthersKeepKeys
  <2> QED BY <1>2, <2>2, <2>3
<1>4. CASE t.scheme = Self /\ selfKeys.left > 0
  <2>1. Judge(c, t, selfKeys.keys) /\ stage'[c] = "done"
    BY <1>4, <1>t DEF ValidateToken, Judge, Ends, Goes, TypeOK
  <2>2. /\ selfKeys.keys \in Keys /\ selfKeys.keys.of = Self
        /\ UpToDate(selfKeys.keys, 1 + Day - selfKeys.left)
    BY <1>4, <1>t DEF KeysSound, CachesAreRecent, TypeOK, CachedKeys
  <2>3. /\ 1 + Day - selfKeys.left \in Int /\ Window(t.scheme) \in Int
        /\ 1 + Day - selfKeys.left <= Window(t.scheme)
    BY <1>4, <1>t, DayAssumption DEF TypeOK, CachedKeys, Window
  <2>4. UpToDate(selfKeys.keys, Window(t.scheme))
    BY <1>t, <2>2, <2>3, UpToDateLonger
  <2>5. JudgedWell(c)'
    BY <1>1, <1>4, <1>t, <2>1, <2>2, <2>4, JudgeIsWell
  <2>6. VerdictsAreRecent'
    BY <1>1, <2>5, OthersKeepVerdicts DEF KeysSound
  <2>7. CallsAreRecent'
    BY <1>1, <2>1, OthersKeepKeys
  <2> QED BY <1>2, <2>6, <2>7
<1>5. CASE t.scheme # Self /\ discovery[t.scheme].left > 0
  <2>1. t.scheme \in Authorities
    BY <1>5 DEF Tokens, Schemes
  <2>2. stage'[c] = "look" /\ doc'[c] = discovery[t.scheme].keys
    BY <1>5, <1>t DEF ValidateToken, Goes, TypeOK
  <2>3. /\ discovery[t.scheme].keys.of = t.scheme /\ discovery[t.scheme].keys \in Keys
        /\ UpToDate(discovery[t.scheme].keys, Day - discovery[t.scheme].left)
    BY <1>5, <1>t, <2>1 DEF KeysSound, CachesAreRecent, TypeOK, CachedKeys
  <2>4. /\ Held(c)' = (Day - 1) + (IF ticked[c] THEN 1 ELSE 0)
        /\ Day - discovery[t.scheme].left \in Int
        /\ Held(c)' \in Int /\ Day - discovery[t.scheme].left <= Held(c)'
    BY <1>1, <1>5, <1>t, <2>1, DayAssumption DEF Held, TypeOK, CachedKeys
  <2>5. UpToDate(discovery[t.scheme].keys, (Day - 1) + (IF ticked[c] THEN 1 ELSE 0))
    BY <1>t, <2>3, <2>4, UpToDateLonger
  <2>6. UpToDate(doc[c], Held(c))'
    BY <1>1, <2>2, <2>4, <2>5 DEF UpToDate, keyVars
  <2>7. CallsAreRecent'
    BY <1>1, <1>5, <2>2, <2>3, <2>6, OthersKeepKeys
  <2>8. JudgedWell(c)'
    BY <2>2 DEF JudgedWell, Accepted, Refused
  <2>9. VerdictsAreRecent'
    BY <1>1, <2>8, OthersKeepVerdicts DEF KeysSound
  <2> QED BY <1>2, <2>7, <2>9
<1>6. stage'[c] = "fetch" \/ (t.scheme = Self /\ selfKeys.left > 0)
        \/ (t.scheme # Self /\ discovery[t.scheme].left > 0)
  BY <1>t DEF ValidateToken, Goes, TypeOK
<1> QED BY <1>3, <1>4, <1>5, <1>6

LEMMA AnsweredSound ==
  ASSUME KeysSound, TypeOK', NEW c \in Callers, Answered(c)
  PROVE  CachesAreRecent' /\ CallsAreRecent' /\ VerdictsAreRecent'
<1>t. TypeOK
  BY DEF KeysSound
<1> DEFINE s == token[c].scheme
<1>1. /\ UNCHANGED <<keyVars, certs, selfKeys, ticked, token, used, verdict>>
      /\ doc'[c] = PublishedKeys(s) /\ stage'[c] \in {"look", "set"}
      /\ stage'[c] = "look" => s # Self
      /\ \A d \in Callers \ {c} :
           /\ stage'[d] = stage[d] /\ token'[d] = token[d] /\ doc'[d] = doc[d]
           /\ used'[d] = used[d] /\ verdict'[d] = verdict[d] /\ ticked'[d] = ticked[d]
  BY <1>t DEF Answered, Goes, TypeOK
<1>2. s \in Schemes /\ UpToDate(PublishedKeys(s), 0) /\ PublishedKeys(s).of = s
      /\ PublishedKeys(s) \in Keys
  BY <1>t, PublishedUpToDate, PublishedType DEF TypeOK, Tokens
<1>3. UpToDate(PublishedKeys(s), Held(c))
  BY <1>t, <1>2, HeldIsNat, UpToDateLonger
<1>4. UpToDate(doc[c], Held(c))'
  BY <1>1, <1>3 DEF UpToDate, keyVars, Held
<1>5. CallsAreRecent'
  BY <1>1, <1>2, <1>4, OthersKeepKeys
<1>6. VerdictsAreRecent'
  <2>1. JudgedWell(c)'
    BY <1>1 DEF JudgedWell, Accepted, Refused
  <2> QED BY <1>1, <2>1, OthersKeepVerdicts DEF KeysSound
<1>7. ASSUME NEW a \in Authorities, discovery'[a].left > 0
      PROVE  discovery'[a].keys.of = a /\ UpToDate(discovery[a].keys, Day - discovery[a].left)'
  <2>1. CASE s # Self /\ a = s
    <3>1. discovery'[a] = Fresh(PublishedKeys(s))
      BY <1>t, <2>1 DEF Answered, TypeOK
    <3>2. discovery'[a].keys = PublishedKeys(s) /\ Day - discovery'[a].left = 0
      BY <3>1, DayAssumption DEF Fresh
    <3> QED BY <1>1, <1>2, <2>1, <3>2 DEF UpToDate, keyVars
  <2>2. CASE ~(s # Self /\ a = s)
    <3>1. discovery'[a] = discovery[a]
      BY <1>t, <2>2 DEF Answered, TypeOK
    <3> QED BY <1>1, <1>7, <3>1 DEF KeysSound, CachesAreRecent, UpToDate, keyVars
  <2> QED BY <2>1, <2>2
<1>8. CachesAreRecent'
  BY <1>1, <1>7 DEF KeysSound, CachesAreRecent, UpToDate, keyVars
<1> QED BY <1>5, <1>6, <1>8

\* Nobody is reached, or the caller leaves with its result.
LEMMA EndsSound ==
  ASSUME KeysSound, TypeOK', NEW c \in Callers, Unreachable(c) \/ Return(c)
  PROVE  CachesAreRecent' /\ CallsAreRecent' /\ VerdictsAreRecent'
<1>t. TypeOK
  BY DEF KeysSound
<1>1. /\ UNCHANGED <<keyVars, cacheVars>> /\ stage'[c] \in {"done", "idle"}
      /\ \A d \in Callers \ {c} :
           /\ stage'[d] = stage[d] /\ token'[d] = token[d] /\ doc'[d] = doc[d]
           /\ used'[d] = used[d] /\ verdict'[d] = verdict[d] /\ ticked'[d] = ticked[d]
  BY <1>t, OneCallChanges DEF Unreachable, Return, Ends, Goes, TypeOK, Inside
<1>2. CachesAreRecent' /\ CallsAreRecent'
  BY <1>1, CachesKept, OthersKeepKeys
<1>3. JudgedWell(c)'
  <2>1. CASE Return(c)
    <3>1. stage'[c] = "idle"
      BY <1>t, <2>1 DEF Return, Goes, TypeOK
    <3> QED BY <3>1 DEF JudgedWell, Accepted, Refused
  <2>2. CASE Unreachable(c)
    <3>1. /\ verdict'[c] = "threw" /\ used'[c] = NoKeys
          /\ token'[c] = token[c] /\ token[c].scheme # Self
      BY <1>t, <2>2 DEF Unreachable, Ends, Refusal, TypeOK
    <3>2. NoKeys.of # token[c].scheme
      BY <1>t, NobodyAssumption DEF NoKeys, TypeOK, Tokens, Schemes
    <3> QED BY <3>1, <3>2 DEF JudgedWell, Accepted, Refused
  <2> QED BY <2>1, <2>2
<1>4. VerdictsAreRecent'
  BY <1>1, <1>3, OthersKeepVerdicts DEF KeysSound
<1> QED BY <1>2, <1>4

LEMMA FetchSound ==
  ASSUME KeysSound, TypeOK', NEW c \in Callers, FetchCertificates(c)
  PROVE  CachesAreRecent' /\ CallsAreRecent' /\ VerdictsAreRecent'
<1>t. TypeOK
  BY DEF KeysSound
<1>1. /\ UNCHANGED <<keyVars, cacheVars, token, doc, ticked>> /\ stage[c] = "look"
      /\ \A d \in Callers \ {c} :
           /\ stage'[d] = stage[d] /\ token'[d] = token[d] /\ doc'[d] = doc[d]
           /\ used'[d] = used[d] /\ verdict'[d] = verdict[d] /\ ticked'[d] = ticked[d]
  BY <1>t, OneCallChanges DEF FetchCertificates, Inside
<1>2. CachesAreRecent'
  BY <1>1, CachesKept
<1>3. token[c] \in Tokens /\ token[c].scheme # Self /\ token[c].scheme \in Schemes
  BY <1>t, <1>1 DEF KeysSound, CallsAreRecent, TypeOK, Tokens
<1>4. CASE certs.left > 0
  <2>1. Judge(c, token[c], certs.keys) /\ stage'[c] = "done"
    BY <1>4, <1>t DEF FetchCertificates, Judge, Ends, Goes, TypeOK
  <2>2. /\ certs.keys \in Keys /\ certs.keys.of \in Authorities
        /\ UpToDate(certs.keys, 2 * Day - certs.left)
    BY <1>4, <1>t DEF KeysSound, CachesAreRecent, TypeOK, CachedKeys
  <2>3. /\ 2 * Day - certs.left \in Int /\ Window(token[c].scheme) \in Int
        /\ 2 * Day - certs.left <= Window(token[c].scheme)
    BY <1>3, <1>4, <1>t, DayAssumption DEF TypeOK, CachedKeys, Window
  <2>4. UpToDate(certs.keys, Window(token[c].scheme))
    BY <1>t, <2>2, <2>3, UpToDateLonger
  <2>5. PICK t \in Tokens : t = token[c]
    BY <1>3
  <2>6. JudgedWell(c)'
    BY <1>1, <1>3, <1>t, <2>1, <2>2, <2>4, <2>5, JudgeIsWell
  <2>7. VerdictsAreRecent'
    BY <1>1, <2>6, OthersKeepVerdicts DEF KeysSound
  <2>8. CallsAreRecent'
    BY <1>1, <2>1, OthersKeepKeys
  <2> QED BY <1>2, <2>7, <2>8
<1>5. CASE ~(certs.left > 0)
  <2>1. stage'[c] = "set"
    BY <1>5, <1>t DEF FetchCertificates, Goes, TypeOK
  <2>2. doc[c].of = token[c].scheme /\ UpToDate(doc[c], Held(c))
    BY <1>1 DEF KeysSound, CallsAreRecent
  <2>3. UpToDate(doc[c], Held(c))'
    BY <1>1, <2>2 DEF UpToDate, Held, keyVars
  <2>4. CallsAreRecent'
    BY <1>1, <2>1, <2>2, <2>3, OthersKeepKeys
  <2>5. JudgedWell(c)'
    BY <2>1 DEF JudgedWell, Accepted, Refused
  <2>6. VerdictsAreRecent'
    BY <1>1, <2>5, OthersKeepVerdicts DEF KeysSound
  <2> QED BY <1>2, <2>4, <2>6
<1> QED BY <1>4, <1>5

LEMMA SetSound ==
  ASSUME KeysSound, TypeOK', NEW c \in Callers, SetEntry(c)
  PROVE  CachesAreRecent' /\ CallsAreRecent' /\ VerdictsAreRecent'
<1>t. TypeOK
  BY DEF KeysSound
<1>1. /\ UNCHANGED <<keyVars, discovery, token, doc, ticked>> /\ stage[c] = "set"
      /\ \A d \in Callers \ {c} :
           /\ stage'[d] = stage[d] /\ token'[d] = token[d] /\ doc'[d] = doc[d]
           /\ used'[d] = used[d] /\ verdict'[d] = verdict[d] /\ ticked'[d] = ticked[d]
  BY <1>t, OneCallChanges DEF SetEntry, Inside
<1>2. PICK t \in Tokens, k \in Keys : t = token[c] /\ k = doc[c]
  BY <1>t DEF TypeOK
<1>3. /\ Judge(c, t, k) /\ stage'[c] = "done" /\ token'[c] = t
      /\ k.of = t.scheme /\ UpToDate(k, Held(c)) /\ t.scheme \in Schemes
  BY <1>1, <1>2, <1>t DEF SetEntry, Judge, Ends, Goes, TypeOK, KeysSound, CallsAreRecent, Tokens
<1>4. CallsAreRecent'
  BY <1>1, <1>3, OthersKeepKeys
<1>5. /\ Held(c) \in Int /\ Held(c) <= Day
      /\ Window(t.scheme) \in Int /\ Day <= Window(t.scheme)
  BY <1>3, <1>t, HeldIsNat, WindowIsNat
<1>6. UpToDate(k, Window(t.scheme)) /\ UpToDate(k, Day)
  BY <1>3, <1>5, <1>t, DayAssumption, UpToDateLonger
<1>7. JudgedWell(c)'
  BY <1>1, <1>3, <1>6, <1>t, JudgeIsWell DEF Schemes
<1>8. VerdictsAreRecent'
  BY <1>1, <1>7, OthersKeepVerdicts DEF KeysSound
<1>9. Fresh(k).keys = k /\ Fresh(k).left = Day
  BY DEF Fresh
<1>10. CASE t.scheme = Self
  <2>1. selfKeys' = Fresh(k) /\ certs' = certs
    BY <1>2, <1>10 DEF SetEntry
  <2>2. UpToDate(k, 1) /\ 1 + Day - Day = 1
    BY <1>2, <1>3, <1>5, <1>10, <1>t, DayAssumption, HeldIsNat, UpToDateLonger
  <2>3. selfKeys'.keys.of = Self /\ UpToDate(selfKeys.keys, 1 + Day - selfKeys.left)'
    BY <1>1, <1>3, <1>9, <1>10, <2>1, <2>2 DEF UpToDate, keyVars
  <2>4. CachesAreRecent'
    BY <1>1, <2>1, <2>3 DEF KeysSound, CachesAreRecent, UpToDate, keyVars
  <2> QED BY <1>4, <1>8, <2>4
<1>11. CASE t.scheme # Self
  <2>1. certs' = Fresh(k) /\ selfKeys' = selfKeys
    BY <1>2, <1>11 DEF SetEntry
  <2>2. 2 * Day - Day = Day
    BY DayAssumption
  <2>3. certs'.keys.of \in Authorities /\ UpToDate(certs.keys, 2 * Day - certs.left)'
    BY <1>1, <1>3, <1>6, <1>9, <1>11, <2>1, <2>2 DEF UpToDate, keyVars, Schemes
  <2>4. CachesAreRecent'
    BY <1>1, <2>1, <2>3 DEF KeysSound, CachesAreRecent, UpToDate, keyVars
  <2> QED BY <1>4, <1>8, <2>4
<1> QED BY <1>10, <1>11

LEMMA InitKeysSound == Init => KeysSound
<1> SUFFICES ASSUME Init PROVE KeysSound
  OBVIOUS
<1>1. TypeOK
  BY InitKeyTypes
<1>2. OnlyOldKeysAreGone /\ CachesAreRecent /\ CallsAreRecent
  BY DEF Init, OnlyOldKeysAreGone, CachesAreRecent, CallsAreRecent, Empty
<1>3. VerdictsAreRecent
  BY DEF Init, VerdictsAreRecent, AcceptedKeysAreRecent, GoodTokensPass, Accepted, Refused
<1> QED BY <1>1, <1>2, <1>3 DEF KeysSound

LEMMA StepKeysSound == KeysSound /\ KeyStep => KeysSound'
<1> SUFFICES ASSUME KeysSound, KeyStep PROVE KeysSound'
  OBVIOUS
<1>1. TypeOK' /\ OnlyOldKeysAreGone'
  BY StepKeyTypes, StepGoneKeys DEF KeysSound
<1> SUFFICES CachesAreRecent' /\ CallsAreRecent' /\ VerdictsAreRecent'
  BY <1>1 DEF KeysSound
<1>2. CASE Environment
  BY <1>2, TickSound, RotateSound DEF Environment
<1>3. ASSUME NEW c \in Callers, NEW t \in Tokens, ValidateToken(c, t)
      PROVE  CachesAreRecent' /\ CallsAreRecent' /\ VerdictsAreRecent'
  BY <1>1, <1>3, ValidateSound
<1>4. ASSUME NEW c \in Callers, Inside(c) \/ Return(c)
      PROVE  CachesAreRecent' /\ CallsAreRecent' /\ VerdictsAreRecent'
  BY <1>1, <1>4, AnsweredSound, EndsSound, FetchSound, SetSound DEF Inside
<1>5. CASE UNCHANGED vars
  <2>1. CachesAreRecent'
    BY <1>5, CachesKept DEF vars
  <2>2. CallsAreRecent'
    BY <1>5 DEF KeysSound, CallsAreRecent, UpToDate, Held, vars, keyVars, callVars
  <2>3. VerdictsAreRecent'
    BY <1>5 DEF KeysSound, VerdictsAreRecent, AcceptedKeysAreRecent, GoodTokensPass,
                Accepted, Refused, Window, vars, keyVars, callVars
  <2> QED BY <2>1, <2>2, <2>3
<1> QED BY <1>2, <1>3, <1>4, <1>5 DEF KeyStep

-----------------------------------------------------------------------------
(* The server signs with the newest of its keys: those before it have been  *)
(* there for a tick at least, and it is published.                          *)
NewestIsPublished ==
  \A s \in Schemes :
    /\ \A g, h \in Generations : Introduced(s, h) /\ g < h => fresh[s][g] > 0
    /\ \E g \in published[s] : \A h \in Generations : Introduced(s, h) => h <= g

LEMMA InitNewest == Init => NewestIsPublished
<1> SUFFICES ASSUME Init, NEW s \in Schemes
             PROVE  /\ \A g, h \in Generations : Introduced(s, h) /\ g < h => fresh[s][g] > 0
                    /\ \E g \in published[s] : \A h \in Generations : Introduced(s, h) => h <= g
  BY DEF NewestIsPublished
<1>1. \A g \in Generations : Introduced(s, g) <=> g = 0
  BY DayAssumption DEF Init, Introduced, Horizon
<1>2. Generations \subseteq Nat /\ 0 \in published[s]
  BY DEF Generations, Init
<1> QED BY <1>1, <1>2

LEMMA StepNewest == TypeOK /\ NewestIsPublished /\ KeyStep => NewestIsPublished'
<1> SUFFICES ASSUME TypeOK, NewestIsPublished, KeyStep PROVE NewestIsPublished'
  OBVIOUS
<1>1. Generations \subseteq Nat
  BY DEF Generations
<1>2. CASE Tick
  <2>1. \A s \in Schemes, g \in Generations :
          /\ Introduced(s, g)' <=> Introduced(s, g)
          /\ fresh[s][g] > 0 => fresh'[s][g] > 0
    <3> SUFFICES ASSUME NEW s \in Schemes, NEW g \in Generations
                 PROVE  /\ Introduced(s, g)' <=> Introduced(s, g)
                        /\ fresh[s][g] > 0 => fresh'[s][g] > 0
      OBVIOUS
    <3>1. fresh'[s][g] = (IF Introduced(s, g) THEN Older(fresh[s][g]) ELSE 0)
      BY <1>2 DEF Tick
    <3>2. fresh[s][g] \in Ages /\ published' = published
      BY <1>2 DEF Tick, TypeOK
    <3>3. Older(fresh[s][g]) > 0
      BY <3>2, Horizons, DayAssumption DEF Older, Ages, Horizon
    <3> QED BY <3>1, <3>2, <3>3 DEF Introduced
  <2>2. published' = published
    BY <1>2 DEF Tick
  <2> QED BY <2>1, <2>2 DEF NewestIsPublished
<1>3. ASSUME NEW s \in Schemes, NEW g \in Generations, Rotate(s, g) PROVE NewestIsPublished'
  <2>1. PICK kept \in {{}, published[s]} : published' = [published EXCEPT ![s] = kept \cup {g}]
    BY <1>3 DEF Rotate
  <2>2. \A r \in Schemes \ {s} : published'[r] = published[r]
    BY <2>1 DEF TypeOK
  <2>3. g \in published'[s] /\ published'[s] \subseteq published[s] \cup {g} /\ fresh' = fresh
    BY <1>3, <2>1 DEF Rotate, TypeOK
  <2>4. g > 0 /\ g - 1 \in Generations /\ fresh[s][g - 1] > 0 /\ ~Introduced(s, g)
    BY <1>3, RotationsAssumption DEF Rotate, Generations
  <2>5. \A h \in Generations : h < g => fresh[s][h] > 0
    BY <1>1, <2>4 DEF NewestIsPublished, Introduced
  <2>6. \A h \in Generations : h > g => ~Introduced(s, h)
    BY <2>4 DEF NewestIsPublished, Introduced
  <2>7. \A h \in Generations : Introduced(s, h)' => h <= g
    BY <1>1, <2>3, <2>6 DEF Introduced
  <2>8. /\ \A h, m \in Generations : Introduced(s, m)' /\ h < m => fresh'[s][h] > 0
        /\ \E m \in published'[s] : \A h \in Generations : Introduced(s, h)' => h <= m
    BY <1>1, <2>3, <2>5, <2>7
  <2>9. ASSUME NEW r \in Schemes, r # s
        PROVE  /\ \A h, m \in Generations : Introduced(r, m)' /\ h < m => fresh'[r][h] > 0
               /\ \E m \in published'[r] : \A h \in Generations : Introduced(r, h)' => h <= m
    <3>1. \A h \in Generations : Introduced(r, h)' <=> Introduced(r, h)
      BY <2>2, <2>3, <2>9 DEF Introduced
    <3> QED BY <2>2, <2>3, <2>9, <3>1 DEF NewestIsPublished
  <2> QED BY <2>8, <2>9 DEF NewestIsPublished
<1>4. CASE UNCHANGED keyVars
  BY <1>4 DEF keyVars, NewestIsPublished, Introduced
<1> QED BY <1>2, <1>3, <1>4 DEF KeyStep, Environment, Inside, ValidateToken, Answered, Unreachable,
           FetchCertificates, SetEntry, Return, vars

-----------------------------------------------------------------------------
(* The identities.  Whoever refreshes one presents it or a stranger, and    *)
(* has it validated as a token of this server.                              *)
Presented(c) ==
  /\ Len(input[c]) = 1 /\ stage[c] # "idle"
  /\ input[c][1] \in Refreshable \cup Strangers
  /\ token[c] = Seen(input[c][1])

InputsArePresented == \A c \in Callers : input[c] # <<>> => Presented(c)

AppSound ==
  AppTypeOK /\ KeysSound /\ NewestIsPublished /\ InputsArePresented /\ IdentitiesAreTraceable

\* What can be refreshed has the form of an id_token.
LEMMA IdTokenType ==
  ASSUME AppTypeOK
  PROVE  /\ \A i \in DOMAIN issued : IdToken(issued[i]) \in IdTokens
         /\ Refreshable \cup Strangers \subseteq IdTokens
         /\ \A t \in IdTokens : Seen(t) \in Tokens
<1>1. ASSUME NEW i \in DOMAIN issued PROVE IdToken(issued[i]) \in IdTokens
  <2>1. issued[i] \in Identity
    BY DEF AppTypeOK
  <2> QED BY <2>1 DEF IdToken, IdTokens, Identity, Schemes
<1>2. Refreshable \cup Strangers \subseteq IdTokens
  BY <1>1, StrangersAssumption DEF Refreshable
<1>3. \A t \in IdTokens : Seen(t) \in Tokens
  BY DEF Seen, IdTokens, Tokens, Schemes
<1> QED BY <1>1, <1>2, <1>3

\* The steps of the identities are steps of the validators.
LEMMA AppStepIsKeyStep == AppTypeOK /\ [AppNext]_allVars => KeyStep
<1> SUFFICES ASSUME AppTypeOK, [AppNext]_allVars PROVE KeyStep
  OBVIOUS
<1>1. ASSUME NEW c \in Callers, NEW t \in Refreshable, Refresh(c, t) PROVE KeyStep
  <2>1. PICK v \in Tokens : v = Seen(t)
    BY IdTokenType
  <2> QED BY <1>1, <2>1 DEF Refresh, KeyStep
<1>2. ASSUME NEW c \in Callers, Refreshed(c) PROVE KeyStep
  BY <1>2 DEF Refreshed, KeyStep
<1>3. ASSUME NEW u \in Users, NEW s \in Subjects \cup {NoSubject}, NEW a \in Apps \cup {NoApp},
             Create(u, s, a)
      PROVE  KeyStep
  BY <1>3 DEF Create, KeyStep
<1>4. CASE UNCHANGED allVars
  BY <1>4 DEF allVars, KeyStep
<1> QED BY <1>1, <1>2, <1>3, <1>4 DEF AppNext, KeyStep

\* There is a newest key to sign with.
LEMMA SigningType ==
  ASSUME TypeOK, NewestIsPublished PROVE SigningGeneration \in Generations
<1>1. \E g \in published[Self] : \A h \in published[Self] : h <= g
  BY Constants DEF NewestIsPublished, Introduced, TypeOK
<1>2. SigningGeneration \in published[Self]
  BY <1>1 DEF SigningGeneration
<1> QED BY <1>2, Constants DEF TypeOK

\* An identity more keeps the types, what was presented, and the traces of the
\* others.
LEMMA MintSound ==
  ASSUME AppSound, NEW subject \in Subjects \cup Nat, NEW app \in Apps, NEW origin \in Origins,
         Mint(subject, app, origin),
         \/ origin # "refresh" /\ (subject \in Subjects => origin = "scoped")
         \/ \E i \in DOMAIN issued : issued[i].subject = subject /\ issued[i].app = app
         \/ \E t \in Strangers : t.signer = Self /\ t.subject = subject /\ t.app = app
  PROVE  /\ issued' \in Seq(Identity) /\ IdentitiesAreTraceable'
         /\ \A i \in DOMAIN issued : i \in DOMAIN issued' /\ issued'[i] = issued[i]
<1>1. issued \in Seq(Identity) /\ SigningGeneration \in Generations
  BY SigningType DEF AppSound, AppTypeOK, KeysSound
<1>2. PICK n \in Identity : /\ issued' = Append(issued, n)
                            /\ n.subject = subject /\ n.app = app /\ n.origin = origin
  BY <1>1 DEF Mint, Identity
<1>3. /\ issued' \in Seq(Identity) /\ Len(issued') = Len(issued) + 1
      /\ issued'[Len(issued) + 1] = n
      /\ \A i \in DOMAIN issued : i \in DOMAIN issued' /\ issued'[i] = issued[i]
  BY <1>1, <1>2
<1>4. ASSUME NEW i \in DOMAIN issued'
      PROVE  \/ \E j \in 1 .. i : Creation(issued'[j], issued'[i])
             \/ \E t \in Strangers : SignedHere(t, issued'[i])
  <2>0. DOMAIN issued = 1 .. Len(issued) /\ DOMAIN issued' = 1 .. Len(issued) + 1
        /\ Len(issued) \in Nat
    BY <1>1, <1>3
  <2>1. ASSUME NEW m \in DOMAIN issued
        PROVE  \/ \E j \in 1 .. m : Creation(issued'[j], issued[m])
               \/ \E t \in Strangers : SignedHere(t, issued[m])
    <3>1. \A j \in 1 .. m : issued'[j] = issued[j]
      BY <1>3, <2>0
    <3> QED BY <3>1 DEF AppSound, IdentitiesAreTraceable
  <2>2. CASE i \in DOMAIN issued
    BY <1>3, <2>1, <2>2
  <2>3. CASE i = Len(issued) + 1
    <3>1. CASE origin # "refresh" /\ (subject \in Subjects => origin = "scoped")
      <4>1. i \in 1 .. i
        BY <2>0, <2>3
      <4> QED BY <1>2, <1>3, <2>3, <3>1, <4>1 DEF Creation
    <3>2. CASE \E m \in DOMAIN issued : issued[m].subject = subject /\ issued[m].app = app
      <4>1. PICK m \in DOMAIN issued : issued[m].subject = subject /\ issued[m].app = app
        BY <3>2
      <4>2. \A j \in 1 .. m : j \in 1 .. i
        BY <2>0, <2>3
      <4> QED BY <1>2, <1>3, <2>1, <2>3, <4>1, <4>2 DEF Creation, SignedHere
    <3>3. CASE \E t \in Strangers : t.signer = Self /\ t.subject = subject /\ t.app = app
      BY <1>2, <1>3, <2>3, <3>3 DEF SignedHere
    <3> QED BY <3>1, <3>2, <3>3
  <2> QED BY <2>0, <2>2, <2>3
<1> QED BY <1>3, <1>4 DEF IdentitiesAreTraceable

\* What is presented stays so while the identities grow.
LEMMA PresentedKept ==
  ASSUME AppSound, NEW c \in Callers, Presented(c),
         \A i \in DOMAIN issued : i \in DOMAIN issued' /\ issued'[i] = issued[i],
         input'[c] = input[c], token'[c] = token[c], stage'[c] # "idle"
  PROVE  Presented(c)'
<1>1. CASE input[c][1] \in Strangers
  BY <1>1 DEF Presented, Seen
<1>2. CASE input[c][1] \notin Strangers
  <2>1. PICK i \in DOMAIN issued : input[c][1] = IdToken(issued[i])
    BY <1>2 DEF Presented, Refreshable
  <2>2. input'[c][1] = IdToken(issued'[i]) /\ i \in DOMAIN issued'
    BY <2>1
  <2> QED BY <2>2 DEF Presented, Refreshable, Seen, IdToken
<1> QED BY <1>1, <1>2

LEMMA InitAppSound == AppInit => AppSound
<1> SUFFICES ASSUME AppInit PROVE AppSound
  OBVIOUS
<1>1. KeysSound /\ NewestIsPublished
  BY InitKeysSound, InitNewest DEF AppInit
<1>2. AppTypeOK
  BY <1>1 DEF AppInit, AppTypeOK, KeysSound
<1>3. InputsArePresented /\ IdentitiesAreTraceable
  BY DEF AppInit, InputsArePresented, IdentitiesAreTraceable
<1> QED BY <1>1, <1>2, <1>3 DEF AppSound

LEMMA StepAppSound == AppSound /\ [AppNext]_allVars => AppSound'
<1> SUFFICES ASSUME AppSound, [AppNext]_allVars PROVE AppSound'
  OBVIOUS
<1> DEFINE Goal == AppTypeOK' /\ InputsArePresented' /\ IdentitiesAreTraceable'
<1>t. AppTypeOK /\ TypeOK
  BY DEF AppSound, AppTypeOK
<1>1. KeyStep
  BY <1>t, AppStepIsKeyStep
<1>2. KeysSound' /\ NewestIsPublished' /\ TypeOK'
  BY <1>1, StepKeysSound, StepNewest DEF AppSound, KeysSound
<1>3. ASSUME UNCHANGED appVars,
             \A c \in Callers : input[c] # <<>> => token'[c] = token[c] /\ stage'[c] # "idle"
      PROVE  Goal
  <2>1. AppTypeOK' /\ IdentitiesAreTraceable'
    BY <1>2, <1>3 DEF AppSound, AppTypeOK, IdentitiesAreTraceable, appVars
  <2>2. InputsArePresented'
    BY <1>3 DEF AppSound, InputsArePresented, Presented, Refreshable, Possible, Introduced,
                appVars, Seen, IdToken
  <2> QED BY <2>1, <2>2
<1>4. ASSUME Environment, UNCHANGED appVars PROVE Goal
  <2>1. UNCHANGED <<stage, token>>
    BY <1>4 DEF Environment, Tick, Rotate, callVars
  <2>2. \A c \in Callers : input[c] # <<>> => token'[c] = token[c] /\ stage'[c] # "idle"
    BY <2>1 DEF AppSound, InputsArePresented, Presented
  <2> QED BY <1>3, <1>4, <2>2
<1>5. ASSUME NEW u \in Users, NEW s \in Subjects \cup {NoSubject}, NEW a \in Apps \cup {NoApp},
             Create(u, s, a)
      PROVE  Goal
  <2> DEFINE subject == IF s = NoSubject THEN Len(issued) ELSE s
  <2>1. /\ subject \in Subjects \cup Nat /\ a \in Apps /\ u \in Origins
        /\ Mint(subject, a, u) /\ UNCHANGED <<vars, input>>
    BY <1>5, <1>t DEF Create, InRange, Origins, AppTypeOK
  <2>2. subject \in Subjects => u = "scoped"
    BY <1>5, <1>t, SubjectsAssumption DEF Create, MayChooseSubject, AppTypeOK
  <2>3. u # "refresh"
    BY DEF Users
  <2>4. /\ issued' \in Seq(Identity) /\ IdentitiesAreTraceable'
        /\ \A i \in DOMAIN issued : i \in DOMAIN issued' /\ issued'[i] = issued[i]
    BY <2>1, <2>2, <2>3, MintSound
  <2>5. InputsArePresented'
    BY <2>1, <2>4, PresentedKept DEF AppSound, InputsArePresented, Presented, vars, keyVars, callVars
  <2> QED BY <1>2, <1>t, <2>1, <2>4, <2>5 DEF AppTypeOK
<1>6. ASSUME NEW c \in Callers, NEW t \in Tokens, ValidateToken(c, t), UNCHANGED appVars
      PROVE  Goal
  <2>1. input[c] = <<>>
    BY <1>6 DEF ValidateToken, AppSound, InputsArePresented, Presented
  <2>2. \A d \in Callers \ {c} : stage'[d] = stage[d] /\ token'[d] = token[d]
    BY <1>6, <1>t, OneCallChanges
  <2> QED BY <1>3, <1>6, <2>1, <2>2 DEF AppSound, InputsArePresented, Presented
<1>7. ASSUME NEW c \in Callers, NEW t \in Refreshable, Refresh(c, t) PROVE Goal
  <2>1. t \in IdTokens /\ Seen(t) \in Tokens
    BY <1>t, IdTokenType
  <2>2. /\ input' = [input EXCEPT ![c] = <<t>>] /\ UNCHANGED <<issued, published, fresh>>
        /\ token'[c] = Seen(t) /\ stage'[c] # "idle" /\ stage[c] = "idle"
    BY <1>7, <1>t DEF Refresh, ValidateToken, Goes, Ends, Judge, keyVars, TypeOK
  <2>3. \A d \in Callers \ {c} : stage'[d] = stage[d] /\ token'[d] = token[d]
    BY <1>7, <1>t, <2>1, OneCallChanges DEF Refresh
  <2>4. input'[c] = <<t>> /\ \A d \in Callers \ {c} : input'[d] = input[d]
    BY <1>t, <2>2 DEF AppTypeOK
  <2>5. Presented(c)'
    <3>1. t \in {IdToken(issued[i]) : i \in DOMAIN issued} \cup Strangers
      BY DEF Refreshable
    <3>2. (t \in Refreshable \cup Strangers)'
      BY <2>2, <3>1 DEF Refreshable
    <3>3. Len(input'[c]) = 1 /\ input'[c][1] = t
      BY <2>4
    <3> QED BY <2>2, <3>2, <3>3 DEF Presented
  <2>6. \A d \in Callers \ {c} : input'[d] # <<>> => Presented(d)'
    BY <2>2, <2>3, <2>4, PresentedKept DEF AppSound, InputsArePresented, Presented
  <2>7. <<t>> \in Seq(IdTokens)
    BY <2>1
  <2>8. AppTypeOK'
    BY <1>2, <1>t, <2>2, <2>7 DEF AppTypeOK
  <2>9. InputsArePresented'
    BY <2>5, <2>6 DEF InputsArePresented
  <2> QED BY <2>2, <2>8, <2>9 DEF AppSound, IdentitiesAreTraceable
<1>8. ASSUME NEW c \in Callers, Inside(c), UNCHANGED appVars PROVE Goal
  <2>1. \A d \in Callers \ {c} : stage'[d] = stage[d] /\ token'[d] = token[d]
    BY <1>8, <1>t, OneCallChanges
  <2>2. token'[c] = token[c] /\ stage'[c] # "idle"
    BY <1>8, <1>t DEF Inside, Answered, Unreachable, FetchCertificates, SetEntry, Goes, Ends,
                      Judge, TypeOK
  <2> QED BY <1>3, <1>8, <2>1, <2>2 DEF AppSound, InputsArePresented, Presented
<1>9. ASSUME NEW c \in Callers, input[c] = <<>>, Return(c), UNCHANGED appVars PROVE Goal
  <2>1. \A d \in Callers \ {c} : stage'[d] = stage[d] /\ token'[d] = token[d]
    BY <1>9, <1>t, OneCallChanges
  <2> QED BY <1>3, <1>9, <2>1 DEF AppSound, InputsArePresented, Presented
<1>10. ASSUME NEW c \in Callers, Refreshed(c) PROVE Goal
  <2> DEFINE t == input[c][1]
  <2>1. /\ \A d \in Callers \ {c} : stage'[d] = stage[d] /\ token'[d] = token[d]
        /\ UNCHANGED <<published, fresh>>
    BY <1>10, <1>t, OneCallChanges DEF Refreshed, keyVars
  <2>2. /\ input'[c] = <<>> /\ \A d \in Callers \ {c} : input'[d] = input[d]
        /\ input' \in [Callers -> Seq(IdTokens)]
    BY <1>10, <1>t DEF Refreshed, AppTypeOK
  <2>3. ASSUME issued' \in Seq(Identity), IdentitiesAreTraceable',
               \A i \in DOMAIN issued : i \in DOMAIN issued' /\ issued'[i] = issued[i]
        PROVE  Goal
    <3>1. \A d \in Callers \ {c} : input'[d] # <<>> => Presented(d)'
      BY <2>1, <2>2, <2>3, PresentedKept DEF AppSound, InputsArePresented, Presented
    <3>2. InputsArePresented'
      BY <2>2, <3>1 DEF InputsArePresented
    <3> QED BY <1>2, <2>2, <2>3, <3>2 DEF AppTypeOK
  <2>4. CASE UNCHANGED issued
    BY <1>t, <2>3, <2>4 DEF AppSound, AppTypeOK, IdentitiesAreTraceable
  <2>5. CASE /\ Accepted(c) /\ t.subject # NoSubject /\ t.app # NoApp
             /\ Mint(t.subject, t.app, "refresh")
    <3>1. Presented(c) /\ t \in IdTokens
      BY <1>10, <1>t, IdTokenType DEF Refreshed, AppSound, InputsArePresented, Presented
    <3>2. t.signer = Self
      BY <2>5, <3>1 DEF AppSound, KeysSound, VerdictsAreRecent, AcceptedKeysAreRecent,
                        Presented, Seen, Trusted
    <3>3. t \notin Strangers =>
            \E i \in DOMAIN issued : issued[i].subject = t.subject /\ issued[i].app = t.app
      BY <3>1 DEF Presented, Refreshable, IdToken
    <3>4. t.subject \in Subjects \cup Nat /\ t.app \in Apps /\ "refresh" \in Origins
      BY <2>5, <3>1 DEF IdTokens, Origins
    <3> QED BY <2>3, <2>5, <3>2, <3>3, <3>4, MintSound
  <2> QED BY <1>10, <2>4, <2>5 DEF Refreshed
<1>11. ASSUME UNCHANGED allVars PROVE Goal
  <2>1. UNCHANGED <<stage, token, appVars>>
    BY <1>11 DEF allVars, vars, callVars
  <2>2. \A c \in Callers : input[c] # <<>> => token'[c] = token[c] /\ stage'[c] # "idle"
    BY <2>1 DEF AppSound, InputsArePresented, Presented
  <2> QED BY <1>3, <2>1, <2>2
<1>12. Goal
  <2>1. CASE AppNext
    BY <1>4, <1>5, <1>6, <1>7, <1>8, <1>9, <1>10, <2>1 DEF AppNext
  <2> QED BY <1>11, <2>1
<1> QED BY <1>2, <1>12 DEF AppSound

(* The types, whoever calls and however often keys are replaced.            *)
THEOREM AppTypeCorrect == AppSpec => []AppTypeOK
<1>1. AppSound => AppTypeOK
  BY DEF AppSound
<1> QED BY <1>1, InitAppSound, StepAppSound, PTL DEF AppSpec

(* For every length of the day and any number of authorities, rotations and *)
(* validations at once: whoever signed a token that is accepted is trusted  *)
(* under its scheme, and his key was withdrawn no longer ago than the       *)
(* window; a scheme's own token whose key has been published for the window *)
(* is refused for the known reasons only.                                   *)
THEOREM KeysAreRecent == AppSpec => []VerdictsAreRecent
<1>1. AppSound => VerdictsAreRecent
  BY DEF AppSound, KeysSound
<1> QED BY <1>1, InitAppSound, StepAppSound, PTL DEF AppSpec

(* Over any number of refreshes and whatever other tokens there are, every  *)
(* identity goes back to one that was created, by a caller that was         *)
(* authorized to choose its subject, or to a token that this server signed  *)
(* with the same subject, appId and machineId.                              *)
THEOREM IdentitiesGoBack == AppSpec => []IdentitiesAreTraceable
<1>1. AppSound => IdentitiesAreTraceable
  BY DEF AppSound
<1> QED BY <1>1, InitAppSound, StepAppSound, PTL DEF AppSpec
=============================================================================

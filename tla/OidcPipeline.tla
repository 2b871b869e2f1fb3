---------------------------- MODULE OidcPipeline ----------------------------
(***************************************************************************)
(* OIDCWebApp: an OpenID provider in front of another one.  A relying      *)
(* party sends the user's browser to connect/authorize; the request is     *)
(* parked in the user's session, the user logs in at an external provider  *)
(* with the relying party's own nonce, the token that comes back is parked *)
(* beside the request, and a last post (Way 2) sends the token on to the   *)
(* redirect_uri of the request.  One browser, several tabs: they share the *)
(* cookies and the one session, which each request loads when it begins    *)
(* and, when it changed it, stores whole when it ends.                     *)
(*                                                                         *)
(* External: the provider, the session middleware, the correlation cookie  *)
(* and the sign-in cookies of ASP.NET Core.                                *)
(***************************************************************************)
EXTENDS Integers, FiniteSets, Sequences

CONSTANTS
    Tabs,           \* tabs of one browser, each with one relying party's request
    Subjects,       \* users of the external provider
    DisplayName,    \* the name claim of each of them
    MaxTries,       \* bound: logins started per tab
    MaxReplays,     \* bound: no answer is sent again once a tab has done so this often
    Modes,          \* response modes the relying parties ask for
    None

ResponseModes == {"form_post", "unknown", "missing"}

ASSUME PipelineAssumption ==
    /\ None \notin Tabs
    /\ IsFiniteSet(Tabs)
    /\ DOMAIN DisplayName = Subjects
    /\ MaxTries \in Nat
    /\ MaxReplays \in Nat
    /\ Modes \subseteq ResponseModes

VARIABLES
    session,        \* the stored session
    jar,            \* the browser's cookies
    users,          \* the in-memory user store: scratch users, one per callback
    tab,            \* where each tab is, and what its request in progress read
    overlapped,     \* history: requests of two tabs have overlapped in the server
    parked,         \* history: number of requests parked so far
    delivered       \* history: what was sent to the relying parties

vars == <<session, jar, users, tab, overlapped, parked, delivered>>

(***************************************************************************)
(* Nonces: the relying party's, or one this program generates.             *)
(***************************************************************************)
RpNonce(t) == <<"rp", t, 0>>
OwnNonce(t, k) == <<"own", t, k>>
Nonces == {RpNonce(t) : t \in Tabs} \cup {OwnNonce(t, k) : t \in Tabs, k \in 1 .. MaxTries}

\* IdTokenAuthorizationRequest: whose it is (its state and redirect_uri), its
\* nonce and its response_mode.  `order' is a history: the requests are counted
\* as they are parked.
Originals == [by : Tabs, nonce : Nonces \cup {None}, mode : ResponseModes,
              order : 1 .. Cardinality(Tabs)]

\* RenderAuthorizeResponseAsync knows the mode; a request that names none passes
\* AuthorizeRequestValidator, whose verdict nobody looks at anyway.
Renderable(original) == original.mode = "form_post"

\* An id_token: the nonce asked for, the user, the login it answers and, as a
\* history, how many requests had been parked when that login began.
Tokens == [nonce : Nonces, sub : Subjects, login : Tabs \X (1 .. MaxTries),
           seen : 0 .. Cardinality(Tabs)]

Sessions == [original : Originals \cup {None}, downstream : Tokens \cup {None},
             message : BOOLEAN]
EmptySession == [original |-> None, downstream |-> None, message |-> FALSE]

\* The nonce cookies (their names are protected afresh, so that two logins
\* with one nonce leave two), the correlation cookies, the external cookie
\* with the tokens, and the application cookie; `accepted' is a history: the
\* logins whose answer the server has accepted.
Jars == [nonces : SUBSET (Nonces \X (Tabs \X (1 .. MaxTries))),
         correlations : SUBSET (Tabs \X (1 .. MaxTries)),
         accepted : SUBSET (Tabs \X (1 .. MaxTries)),
         external : Tokens \cup {None},
         app : Subjects \cup {None}]

Idle == [pc |-> "new", tries |-> 0, replays |-> 0, seen |-> 0, nonce |-> None,
         token |-> None, session |-> EmptySession, cookies |-> None,
         found |-> None]

Init ==
    /\ session = EmptySession
    /\ jar = [nonces |-> {}, correlations |-> {}, accepted |-> {},
              external |-> None, app |-> None]
    /\ users = {}
    /\ tab = [t \in Tabs |-> Idle]
    /\ overlapped = FALSE
    /\ parked = 0
    /\ delivered = <<>>

Serving == {"authorizing", "paging", "signing", "callback", "leftover",
            "creating", "finding", "claiming", "removing", "answering"}
InServer(t) == tab[t].pc \in Serving
At(t, pc) == tab[t].pc = pc
Login(t) == <<t, tab[t].tries>>
SignedOut == [jar EXCEPT !.app = None, !.external = None]

\* A request begins: it carries the cookies and loads the session.
Begin(t, from, to) ==
    /\ At(t, from)
    /\ overlapped' = (overlapped \/ \E u \in Tabs : InServer(u))
    /\ tab' = [tab EXCEPT ![t].pc = to, ![t].session = session,
                          ![t].cookies = jar]
    /\ UNCHANGED <<session, jar, users, parked, delivered>>

\* The tab's request ends and leaves it at pc; what it loaded is forgotten.
End(t, pc) ==
    tab' = [tab EXCEPT ![t].pc = pc, ![t].session = EmptySession,
                       ![t].cookies = None, ![t].found = None]

-----------------------------------------------------------------------------
(***************************************************************************)
(* OIDCController.PostConnectAuthorizeAsync: the verdict of the validator  *)
(* is not looked at, the request is parked, whoever is signed in is signed *)
(* out.  A user may also come to the site without a relying party.         *)
(***************************************************************************)
AuthorizeBegin(t) == Begin(t, "new", "authorizing")

AuthorizeEnd(t) ==
    /\ At(t, "authorizing")
    /\ \E nonce \in {RpNonce(t), None}, mode \in Modes :
         session' = [tab[t].session EXCEPT
             !.original = [by |-> t, nonce |-> nonce, mode |-> mode,
                           order |-> parked + 1]]
    /\ jar' = IF tab[t].cookies.app # None THEN SignedOut ELSE jar
    /\ parked' = parked + 1
    /\ End(t, "landed")
    /\ UNCHANGED <<users, delivered, overlapped>>

Visit(t) ==
    /\ At(t, "new")
    /\ End(t, "landed")
    /\ UNCHANGED <<session, jar, users, parked, delivered, overlapped>>

\* IndexModel.OnGet: the home page of a user who is signed in has the button of
\* the last post.
HomePage(t) ==
    /\ At(t, "landed")
    /\ jar.app # None
    /\ End(t, "home")
    /\ UNCHANGED <<session, jar, users, parked, delivered, overlapped>>

\* Login.OnGetAsync: shows and forgets the message of a failed login, and
\* drops the external cookie.
LoginPageBegin(t) == Begin(t, "landed", "paging")

LoginPageEnd(t) ==
    /\ At(t, "paging")
    /\ session' = IF tab[t].session.message
                  THEN [tab[t].session EXCEPT !.message = FALSE] ELSE session
    /\ jar' = [jar EXCEPT !.external = None]
    /\ End(t, "choosing")
    /\ UNCHANGED <<users, parked, delivered, overlapped>>

\* Mutant: the nonce is always generated here.
ChallengeOwnNonce(t) ==
    /\ At(t, "choosing")
    /\ tab[t].tries < MaxTries
    /\ LET k == tab[t].tries + 1
       IN  /\ jar' = [jar EXCEPT !.nonces = @ \cup {<<OwnNonce(t, k), <<t, k>>>>},
                                 !.correlations = @ \cup {<<t, k>>}]
           /\ tab' = [tab EXCEPT ![t].pc = "atProvider", ![t].tries = k,
                                 ![t].nonce = OwnNonce(t, k), ![t].seen = parked]
    /\ overlapped' = (overlapped \/ \E u \in Tabs : InServer(u))
    /\ UNCHANGED <<session, users, parked, delivered>>

\* ExternalLogin.OnPost and HandleChallengeAsync with GenerateNonce: the
\* parked request's nonce is used when it has one.
Challenge(t) ==
    /\ At(t, "choosing")
    /\ tab[t].tries < MaxTries
    /\ overlapped' = (overlapped \/ \E u \in Tabs : InServer(u))
    /\ LET k == tab[t].tries + 1
           nonce == IF session.original # None /\ session.original.nonce # None
                    THEN session.original.nonce ELSE OwnNonce(t, k)
       IN  /\ jar' = [jar EXCEPT !.nonces = @ \cup {<<nonce, <<t, k>>>>},
                                 !.correlations = @ \cup {<<t, k>>}]
           /\ tab' = [tab EXCEPT ![t].pc = "atProvider", ![t].tries = k,
                                 ![t].nonce = nonce, ![t].seen = parked]
    /\ UNCHANGED <<session, users, parked, delivered>>

\* External: the provider answers with a token, or with an error.
ProviderAnswers(t) ==
    /\ At(t, "atProvider")
    /\ \E sub \in Subjects :
         LET token == [nonce |-> tab[t].nonce, sub |-> sub, login |-> Login(t),
                       seen |-> tab[t].seen]
         IN  \E answer \in {token, None} :
               tab' = [tab EXCEPT ![t].pc = "returning", ![t].token = answer]
    /\ UNCHANGED <<session, jar, users, parked, delivered, overlapped>>

(***************************************************************************)
(* HandleRemoteAuthenticateAsync.  Correlation is checked first, by the    *)
(* cookies the request carries (the response drops the one that fits),     *)
(* then the provider's error; a nonce cookie that matches the token is     *)
(* dropped, and without one the answer is refused.  Redeeming a code may   *)
(* fail before or after the nonce was looked up.  Every refusal redirects  *)
(* to the home page (OnRemoteFailure).                                     *)
(***************************************************************************)
SigninBegin(t) == Begin(t, "returning", "signing")

\* Mutant: correlation is not checked, the nonce cookie being thought enough.
NoCorrelation(t) == TRUE

\* The login the answer's state names.
Answered(t) == IF tab[t].token = None THEN Login(t) ELSE tab[t].token.login
Correlated(t) == Answered(t) \in tab[t].cookies.correlations
Matching(t) == {c \in tab[t].cookies.nonces : c[1] = tab[t].token.nonce}
Uncorrelated(t) == [jar EXCEPT !.correlations = @ \ {Answered(t)}]

SigninRefused(t) ==
    /\ At(t, "signing")
    /\ \/ ~Correlated(t) /\ UNCHANGED jar
       \/ Correlated(t) /\ jar' = Uncorrelated(t)
       \/ /\ Correlated(t)
          /\ tab[t].token # None
          /\ \E c \in Matching(t) :
                 jar' = [Uncorrelated(t) EXCEPT !.nonces = @ \ {c}]
    /\ End(t, "landed")
    /\ UNCHANGED <<session, users, parked, delivered, overlapped>>

SigninAccepted(t) ==
    /\ At(t, "signing")
    /\ Correlated(t)
    /\ tab[t].token # None
    /\ \E c \in Matching(t) :
         jar' = [Uncorrelated(t) EXCEPT !.nonces = @ \ {c},
                                        !.accepted = @ \cup {Answered(t)},
                                        !.external = tab[t].token]
    /\ End(t, "redirected")
    /\ UNCHANGED <<session, users, parked, delivered, overlapped>>

\* The browser posts a provider's answer once more: in its own tab (refresh, back
\* button), or in a duplicate of it, and then perhaps while the first post is
\* still being served.
Replay(t) ==
    /\ tab[t].pc \in {"redirected", "landed", "home"}
    /\ \A u \in Tabs : tab[u].replays < MaxReplays
    /\ \E u \in Tabs :
         /\ tab[u].token # None
         /\ tab' = [tab EXCEPT ![t].pc = "returning", ![t].replays = @ + 1,
                               ![t].token = tab[u].token]
    /\ UNCHANGED <<session, jar, users, parked, delivered, overlapped>>

-----------------------------------------------------------------------------
(***************************************************************************)
(* ExternalLogin.OnGetCallbackAsync.  The token of the external cookie is  *)
(* parked beside the request; then the user is created in the store, signed*)
(* in and removed again, one store operation after the other.  An exception*)
(* still stores the session, but the error page carries no cookies.        *)
(***************************************************************************)
CallbackBegin(t) == Begin(t, "redirected", "callback")

NoExternalLogin(t) ==
    /\ At(t, "callback")
    /\ tab[t].cookies.external = None
    /\ session' = [tab[t].session EXCEPT !.message = TRUE]
    /\ End(t, "landed")
    /\ UNCHANGED <<jar, users, parked, delivered, overlapped>>

\* The callback's user, its scratch user, and the session it will store.
Sub(t) == tab[t].cookies.external.sub
Scratch(t) == [by |-> t, sub |-> Sub(t)]
\* Mutant: a token parked earlier stays.
FirstTokenStays(t) ==
    IF tab[t].session.downstream # None THEN tab[t].session
    ELSE [tab[t].session EXCEPT !.downstream = tab[t].cookies.external]

CallbackSession(t) ==
    [tab[t].session EXCEPT !.downstream = tab[t].cookies.external]

Throw(t) ==
    /\ session' = CallbackSession(t)
    /\ End(t, "landed")
    /\ UNCHANGED <<jar, users, parked, delivered, overlapped>>

\* FindByEmailAsync: a leftover with the same display name.
FindLeftover(t) ==
    /\ At(t, "callback")
    /\ tab[t].cookies.external # None
    /\ LET same == {u \in users : DisplayName[u.sub] = DisplayName[Sub(t)]}
       IN  \/ /\ same = {}
             /\ tab' = [tab EXCEPT ![t].pc = "creating"]
          \/ \E u \in same :
               tab' = [tab EXCEPT ![t].pc = "leftover", ![t].found = u]
    /\ UNCHANGED <<session, jar, users, parked, delivered, overlapped>>

\* DeleteAsync of the leftover throws when somebody else removed it.
DeleteLeftover(t) ==
    /\ At(t, "leftover")
    /\ IF tab[t].found \in users
       THEN /\ users' = users \ {tab[t].found}
            /\ tab' = [tab EXCEPT ![t].pc = "creating", ![t].found = None]
            /\ UNCHANGED <<session, jar, parked, delivered, overlapped>>
       ELSE Throw(t)

\* CreateAsync refuses a user name that is taken; the user is then sent to the
\* login page.
CreateScratch(t) ==
    /\ At(t, "creating")
    /\ IF \E u \in users : u.sub = Sub(t)
       THEN Throw(t)
       ELSE /\ users' = users \cup {Scratch(t)}
            /\ tab' = [tab EXCEPT ![t].pc = "finding"]
            /\ UNCHANGED <<session, jar, parked, delivered, overlapped>>

\* FindByIdAsync; AddClaimsAsync(null, ..) throws.
FindScratch(t) ==
    /\ At(t, "finding")
    /\ IF Scratch(t) \in users
       THEN /\ tab' = [tab EXCEPT ![t].pc = "claiming"]
            /\ UNCHANGED <<session, jar, users, parked, delivered, overlapped>>
       ELSE Throw(t)

\* Mutant: the leftover, not the new user, is updated.
AddClaimsToLeftover(t) ==
    /\ At(t, "claiming")
    /\ users' = users \cup {tab[t].found}
    /\ tab' = [tab EXCEPT ![t].pc = "removing"]
    /\ UNCHANGED <<session, jar, parked, delivered, overlapped>>

\* AddClaimsAsync updates the user, which puts a removed one back, unless its
\* name was taken meanwhile (a result the code does not look at).
AddClaims(t) ==
    /\ At(t, "claiming")
    /\ users' = IF \E u \in users \ {Scratch(t)} : u.sub = Sub(t)
                THEN users ELSE users \cup {Scratch(t)}
    /\ tab' = [tab EXCEPT ![t].pc = "removing"]
    /\ UNCHANGED <<session, jar, parked, delivered, overlapped>>

\* Mutant: the scratch user is left in the store after the sign-in.
SignInAndKeep(t) ==
    /\ At(t, "removing")
    /\ session' = CallbackSession(t)
    /\ jar' = [jar EXCEPT !.app = Sub(t)]
    /\ End(t, "home")
    /\ UNCHANGED <<users, parked, delivered, overlapped>>

\* SignInAsync and DeleteAsync; the latter throws when the user is gone, and
\* the application cookie is lost with the response.
SignInAndRemove(t) ==
    /\ At(t, "removing")
    /\ IF Scratch(t) \in users
       THEN /\ users' = users \ {Scratch(t)}
            /\ session' = CallbackSession(t)
            /\ jar' = [jar EXCEPT !.app = Sub(t)]
            /\ End(t, "home")
            /\ UNCHANGED <<parked, delivered, overlapped>>
       ELSE Throw(t)

-----------------------------------------------------------------------------
(***************************************************************************)
(* IndexModel.OnPostWay2 and OIDCResponseGenerator: both parked values are *)
(* read (neither may be missing), deleted, and the user is signed out.  A  *)
(* response mode that cannot be rendered throws after all that, and the    *)
(* error page keeps the user signed in.                                    *)
(***************************************************************************)
Way2Begin(t) == Begin(t, "home", "answering")

Way2NothingParked(t) ==
    /\ At(t, "answering")
    /\ tab[t].session.original = None \/ tab[t].session.downstream = None
    /\ End(t, "landed")
    /\ UNCHANGED <<session, jar, users, parked, delivered, overlapped>>

\* Mutant: what was answered stays parked.
Way2Keeps(t) ==
    /\ At(t, "answering")
    /\ tab[t].session.original # None
    /\ tab[t].session.downstream # None
    /\ Renderable(tab[t].session.original)
    /\ jar' = SignedOut
    /\ delivered' = Append(delivered,
           [to |-> tab[t].session.original, token |-> tab[t].session.downstream])
    /\ End(t, "done")
    /\ UNCHANGED <<session, users, parked, overlapped>>

Way2Answer(t) ==
    /\ At(t, "answering")
    /\ tab[t].session.original # None
    /\ tab[t].session.downstream # None
    /\ session' = [tab[t].session EXCEPT !.original = None, !.downstream = None]
    /\ IF Renderable(tab[t].session.original)
       THEN /\ jar' = SignedOut
            /\ delivered' = Append(delivered,
                   [to |-> tab[t].session.original, token |-> tab[t].session.downstream])
            /\ End(t, "done")
       ELSE /\ End(t, "landed")
            /\ UNCHANGED <<jar, delivered>>
    /\ UNCHANGED <<users, parked, overlapped>>

\* LogoutModel.OnPost.
Logout(t) ==
    /\ At(t, "home")
    /\ jar' = SignedOut
    /\ End(t, "landed")
    /\ UNCHANGED <<session, users, parked, delivered, overlapped>>

\* External: an idle session is dropped.
SessionExpires ==
    /\ session # EmptySession
    /\ \A t \in Tabs : ~InServer(t)
    /\ session' = EmptySession
    /\ UNCHANGED <<jar, users, tab, parked, delivered, overlapped>>

\* What the server does of its own once a request has begun.
Serve(t) ==
    \/ AuthorizeEnd(t) \/ LoginPageEnd(t) \/ SigninRefused(t)
    \/ SigninAccepted(t) \/ NoExternalLogin(t) \/ FindLeftover(t)
    \/ DeleteLeftover(t) \/ CreateScratch(t) \/ FindScratch(t) \/ AddClaims(t)
    \/ SignInAndRemove(t) \/ Way2NothingParked(t) \/ Way2Answer(t)

\* What the user, the browser and the provider do.
Use(t) ==
    \/ AuthorizeBegin(t) \/ Visit(t) \/ HomePage(t) \/ LoginPageBegin(t) \/ Challenge(t)
    \/ ProviderAnswers(t) \/ SigninBegin(t) \/ Replay(t) \/ CallbackBegin(t)
    \/ Way2Begin(t) \/ Logout(t)

Next == (\E t \in Tabs : Serve(t) \/ Use(t)) \/ SessionExpires

Spec == Init /\ [][Next]_vars

-----------------------------------------------------------------------------
TypeOK ==
    /\ session \in Sessions
    /\ jar \in Jars
    /\ users \subseteq [by : Tabs, sub : Subjects]
    /\ tab \in [Tabs ->
           [pc : Serving \cup {"new", "landed", "choosing", "atProvider",
                               "returning", "redirected", "home", "done"},
            tries : 0 .. MaxTries, replays : 0 .. MaxReplays,
            seen : 0 .. Cardinality(Tabs), nonce : Nonces \cup {None},
            token : Tokens \cup {None}, session : Sessions,
            cookies : Jars \cup {None},
            found : [by : Tabs, sub : Subjects] \cup {None}]]
    /\ overlapped \in BOOLEAN
    /\ parked \in 0 .. Cardinality(Tabs)
    /\ delivered \in Seq([to : Originals, token : Tokens])

\* A provider's answer that was accepted is accepted again only by a post that had
\* begun by then: however many tabs repeat it, and although another login may have
\* left a nonce cookie with the same nonce, no later post signs anybody in.
AcceptedOnce ==
    [][\A t \in Tabs : (At(t, "signing") /\ tab'[t].pc = "redirected")
                           => Answered(t) \notin tab[t].cookies.accepted]_vars

\* The scratch users are temporary: whatever callbacks of several tabs do to
\* each other in the user store, nobody is left in it once they have ended.
ScratchUsersAreTemporary ==
    (\A t \in Tabs : ~InServer(t)) => users = {}

\* As long as requests were served one at a time, an authorize request is
\* answered once, and a token goes out once.
AnsweredOnce ==
    ~overlapped => \A i, j \in DOMAIN delivered :
        i # j => /\ delivered[i].to # delivered[j].to
                 /\ delivered[i].token # delivered[j].token

\* As long as requests were served one at a time, a relying party gets a token
\* with a nonce other than its own only if its request was parked after the
\* login of that token had begun (a second tab took over the one session slot).
WrongNonceNeedsALaterRequest ==
    ~overlapped => \A i \in DOMAIN delivered :
        LET to == delivered[i].to
            token == delivered[i].token
        IN  (to.nonce # None /\ token.nonce # to.nonce) => to.order > token.seen

\* As long as requests were served one at a time, the token the home page shows is that
\* of the user who is signed in.
ShownTokenIsTheUsers ==
    (~overlapped /\ jar.app # None /\ session.downstream # None) =>
        session.downstream.sub = jar.app
=============================================================================

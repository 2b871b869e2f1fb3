# Verification of GraphQL.Play

TLA+ specifications of the core of this repository, the TLC configurations that
check them on small instances, and theorems about them that TLAPS proves for
every instance. Paths below are relative to the repository; `src/src` is its
source tree and `src/docs` its documentation.

Contents: [the system](#the-system), [plan](#plan), [how to read the
modules](#how-to-read-the-modules), one section per modelled part
([token exchange](#token-exchange), [loyalty](#customer-loyalty), [OIDC
pipeline](#oidc-pipeline), [field authorization](#field-authorization), [keys and
application identities](#keys-and-application-identities), [identity
store](#identity-store), [stores filled on first use](#stores-filled-on-first-use)),
[findings](#findings), [proofs](#proofs), [what is not modelled](#what-is-not-modelled).

## The system

GraphQL.Play is a set of ASP.NET Core 2.2 applications around one GraphQL
endpoint, and a web application that signs users in for others. Nothing in it is
a distributed protocol of its own; what is hard is many requests in one process,
each a chain of `await`s, around a few shared objects.

| Component | State it keeps | Operations | Meets others through | Hard behaviour | Correct when |
| --- | --- | --- | --- | --- | --- |
| Token exchange (`IdentityTokenExchange.GraphQL`, `TokenExchange.Contracts`, `BriarRabbitTokenExchange`) | per request: tokens rewritten in place, the scoped summary log | resolve a `tokenExchange` field: route, validate, pre-process, post, mint | summary log, cache, partner, minting service | sibling fields interleave at awaits; failure half way | partners see only stripped, checked tokens under their own bearer; minting follows validation; the reply tells of every error |
| Client-credentials cache (`ExternalExchangeTokenExchangeHandler.GetTokenAsync`) | one `IMemoryCache` entry per exchange, process-wide | look up, fetch, store, evict | every request that uses an external exchange | look-up and store are not atomic; errors and expired tokens are cached | a caller gets a response fetched for its own exchange; a bad entry does not outlive quiet |
| Token validation (`TokenValidator`, `SelfValidator`, `OIDCTokenValidator`) | caches of keys | validate a token of a scheme | exchange handlers, application identity | failure is an exception or a null, by scheme | nothing invalid passes for valid |
| Token minting (`InProcTokenMintingService`, `MicroTokenMintingService`) | none | mint identity and access tokens | exchange handlers | the second of several mints fails | exactly what was asked for, in order |
| GraphQL controller and field authorization (`P7Core.GraphQLCore*`) | required claims per field path; per document: listener, sink | validate a document, execute, reply | every field | one walk over a document whose fragments come later than their uses | what runs was allowed, what is refused was forbidden |
| Loyalty store and fields (`CustomerLoyaltyStore`, `CustomerLoyalyStore.GraphQL`) | an in-memory engine with customers and prizes, started by the first call | deposit, debit, transfer, read, list prizes | shared `Customer` objects | lazy start and seeding overtaken by calls; live objects read after an await; 32-bit points | a bank: every call takes effect once and at once |
| OIDC pipeline (`OIDCPipeline.Core`, `OIDCWebApp`) | session: parked request and token; cookies; scratch users | authorize, log in, callback, send on (Way 2), log out | one browser's session and cookies, the user store | several tabs, stale sessions, repeated posts, expiry | a request is answered once, with its own user's token and nonce |
| OpenID Connect handler (`P7Core.Microsoft.AspNetCore.Authentication.OpenIdConnect`, a fork) | nonce and correlation cookies | challenge, check the answer, sign out | the pipeline, the provider | answers twice or in another tab | an accepted answer signs nobody in again later |
| In-memory identity store (`Identity.Contrib.InMemoryStore`) | dictionaries of users, logins, roles | ASP.NET Identity's store interfaces | all callbacks | two collections changed one after the other, read-modify-write over awaits, dangling logins | users, logins and roles agree |
| Discovery and key caches (`GraphQLPlay.IdentityModelExtras`, `Self.Validator`) | discovery documents, signing keys | fetch, cache, validate | every validation | one entry for all authorities, two caches in a row, rotation | a withdrawn key soon stops working, a published one soon works |
| Application identity (`AppIdentity`) | none; what was issued lives in tokens | create, refresh | the self validator, minting | who may choose a subject, over refreshes and rotations | every identity goes back to an authorized creation, or to another token of this server |
| Discovery containers, hub endpoints, B2B states (`GraphQLPlay.IdentityModelExtras`, `DiscoveryHub`, `B2BPublisher.GraphQL`) | one collection each, filled on first use | look up, list, publish | every request that needs them | published before they are filled, first requests race | whoever comes after the start is served |
| Multi-authority tokens | none | choose the scheme of a bearer token | every request | - | [not modelled](#what-is-not-modelled) |
| AuthServer quickstart, GraphQL client, orders example, start-up code | as their libraries keep it | pages, posts, subscriptions | - | consent and device flows; a receive loop | [not modelled](#what-is-not-modelled) |

`PROJECT.json` lists every component with its files and what is modelled of it,
and under `hazards` the places where this code is hard to test, each with the
properties that would notice it going wrong. Where the code does go wrong there, or a
property leaves the case out by its own condition, the entry says so.

## Plan

| Order | Modules | State |
| --- | --- | --- |
| 1 | `ClientCredentialCache`, `TokenExchange` (composes it, one caller per field), abstract `TokenExchangeContract` | checked, proved |
| 2 | `LoyaltyStore`, abstract `LoyaltyBank` | checked, proved |
| 3 | `OidcPipeline` | checked, proved; an abstract provider is not stated: with overlapping requests the pipeline implements none, and without them the invariants say what it would |
| 4 | `FieldAuth` | checked, proved |
| 5 | `IdentityStore` | checked, proved |
| 6 | `KeyCaches`, on it `AppIdentity` | checked, proved |
| 7 | `LazyStores` | checked, proved |

Each component has a passing run over the smallest instance in which its hazards
occur: two callers, two objects, one rotation or one failure. Its proofs go to a
module `<Component>_proofs`. What is left is liveness, which stays with TLC
([why](#proofs)).

## How to read the modules

An action is what happens between two points where other code can run: up to an
`await` that may suspend, a call to another machine, or the end of a request.
Operations on a shared object that the code does in one synchronous call are one
step. Actions and state carry the source's names where TLA+ allows it;
`PROJECT.json` ("map") gives the lines of each definition. Definitions marked
*Mutant* in a comment, or introduced as the operator below them with a mistake
("a getter that forgot the test", "`FetchCertificates` with an expiration that
slides"), are
deliberately wrong variants of the operator below them; no action uses them. They
serve to see that each property notices the mistake it is about.

An `MC...` module gives a specification its instance; the `.cfg` of a run gives
the bounds. A run is started with, for example,

    tlc -config MCLoyaltyStore.cfg MCLoyaltyStore.tla
    tlapm TokenExchange_proofs.tla

| Run | Instance | Distinct states | Shows |
| --- | --- | --- | --- |
| `token_cache` | 2 callers, 2 exchanges, window 2, lifetime 3 | 24 568 | types, `OwnToken`, `PoisonNeedsTraffic`, `EveryCallReturns` |
| `exchange_document` | 1 document, 2 fields, 14 inputs | 96 162 | `OneFieldServed`, `MintedForCheckedSubject`, `StrippedBeforePosting`, `OidcCheckedBeforePosting`, refinement of the contract, `EveryDocumentAnswered` |
| `exchange_shared` | 2 documents that share the cache, window longer than lifetime | 1 130 468 | `BearerOfFinalExchange`, `MintsFollowPlan` |
| `exchange_aliases`, `exchange_selftoken` | 1 document | violated | two [findings](#findings) |
| `loyalty` | 2 calls, 2 customers (1 in the settings), 1 prize, 3-bit points | 53 837 | refinement of `LoyaltyBank`, `NothingLost`, `LateCallsSeeTheSettings`, object ownership, `EveryCallEnds` |
| `loyalty_live` | the same | violated | a [finding](#findings) |
| `pipeline` | 2 tabs, 2 users with one display name, 1 login each, each answer repeated in either tab | 4 120 584 | `AnsweredOnce`, `WrongNonceNeedsALaterRequest`, `ShownTokenIsTheUsers`, `ScratchUsersAreTemporary`, `AcceptedOnce` |
| `field_auth` | documents of 6 nodes, 2 names, 2 fragments, 4 records, every caller | 944 515 | `EveryReachedFieldIsAllowed`, `OnlyForbiddenFieldsAreRefused`, `LeadingOperationsAreAllowed` |
| `app_identity` | 2 callers, 2 authorities, keys good for 2 ticks, 1 rotation, 3 identities, 5 other tokens | 587 459 | `VerdictsAreRecent`, `IdentitiesAreTraceable` |
| `identity_store` | 2 callers, 2 users, 2 logins, 1 role, 2 issues of codes | 1 803 137 | `LinksAgree`, `CodesAreSpentOnce` |
| `lazy_stores` | 3 requests, 2 authorities, 2 endpoints, 1 client, 2 states | 411 986 | `StoresSettle`, `LateRequestsAreServed` |

## Token exchange

**`ClientCredentialCache`** is `GetTokenAsync`. A caller is `idle`, awaits the
authority (`requesting`), holds a response (`received`) or has one to use
(`returned`); `Hit`/`Miss` is `TryGetValue`, `Receive` the end of the await,
`Store` is `_memoryCache.Set`, `Release` the caller's last use. The cache holds
one entry per key, with the ticks since it was last read (`SetSlidingExpiration`).
Time is `Tick`; a response carries the age of its token up to `TokenLifetime`,
so no counter grows. The authority may be up or down at any time. An error
response is stored like a good one, as in the code (line 93 precedes the test of
`IsError`).

**`TokenExchange`** follows each field of each document from `start` to `done`:
the summary log's `Add` (`RejectSecondField`), routing, then either an in-process
handler (`check`, `mint`) or a pipeline (`preprocess`, the cache's actions, the
partner, `mint`), then `Reply` of the controller. It instantiates the cache with
`Callers <- Field`. Remarks on faithfulness:

- Sibling fields start in document order and interleave afterwards. The keys of the
  summary log are kept because adding one twice throws; their values are not.
- `CheckTokens`, `RejectTokens` and `PreProcess` treat all tokens in one step,
  although each validation is awaited: the tokens belong to one field and nobody
  else reads them. That a token may expire between two looks is kept
  (`TokenExpires`).
- An instruction of the partner may name a custom, an identity and an access token;
  the handler takes them one after the other, so a plan is a list of kinds.
- A 200 whose body cannot be read throws like a call that fails; both are
  `PartnerUnreachable`, and the tokens may have left by then or not. Any other status makes the handler return null, which the
  field delivers as null without an error (`PartnerRefuses`).
- `AwaitToken` adds `client_credentials_error` only for the caller that fetched.
- The catch block's own `Add("exception", ...)` throws as well when a sibling
  added it before; the field ends in an error either way.
- `Reply` may answer 404 whatever the fields came to: that is the controller's catch
  block (`GraphQLControllerBase.cs:105-110`), for a result that cannot be written.
- An unknown pre-processor: `PipelineTokenExchangeHandler.cs:56` tests the name for
  null and then dereferences the handler; an exception like the others.
- The scheme `self` is never also an OIDC scheme (`SchemesAssumption`):
  `TokenValidator.cs:22` adds both to one dictionary, which refuses duplicates.

**`TokenExchangeContract`** is what a client can rely on: a field is settled once,
one field of a document at most succeeds, and the status tells of errors, unless the reply
could not be written. The
refinement mapping is the identity on `outcome` and `http`.

Bounds: two fields or two documents are where sharing begins; a third meets the same
two shared objects in the same ways. The window is once shorter and once longer than a
token's lifetime, so that the cache both evicts good tokens and keeps expired
ones. The inputs are the routes of `appsettings.Development.TokenExchange.json`
with the mistakes a configuration can hold (unknown pre-processor, unregistered final
exchange). The order of pre-processors matters, because each works on what the one
before left: the validating one stands alone, first and last in its list
(`validating`, `strip_last`, `strip_first`), all in `exchange_document`, where what is
posted is checked.

Fairness (`FairSpec`): a resolver that can go on does (every await completes
or throws: HTTP clients time out), the controller answers when all fields are
settled, and time passes. Nothing obliges callers to come or the authority to be up.

## Customer loyalty

**`LoyaltyBank`** is the abstract store: accounts that a deposit, a debit or a
two-sided transfer changes at once, with 32-bit wrap-around (`Half` is 2^31 in the
program, 4 in the run), and `Restart`, the empty engine a late start puts in place.

**`LoyaltyStore`** is the code: each call goes through
`GetCustomerLoyaltyDBEngineAsync` (find or start an engine; the field is set before
the seeding; `SeedCustomer` and `SeedPrize` are one `Execute` each), runs its command
in the engine and then reads what it was handed (`Read`), which is the engine's
own `Customer` object. Objects are named by the call and statement that creates
them, so that aliasing is visible. `customerLoyalty` reads the balance once to show it
and once as the limit of the prizes (`AskPrizes`).

`NothingLost` and `LateCallsSeeTheSettings` are conditional on `OneEngine`: when two
first calls both find no engine, each starts one, and deposits are lost or seeds
applied twice; TLC finds that at once if the condition is dropped.
`ImplementsBank` has no condition. The fairness is that awaited tasks complete.
Bounds: two calls are enough for a first and a late call, and for a reader with a
writer between its steps; one customer is in the settings and one is not; points of 2
with 3-bit integers overflow after two deposits. The engine is external: it starts
empty, runs one command at a time and answers.

Two things the module keeps because the code does them, and a reader might not
expect: a transfer to oneself adds the points (`TransferPoints.cs:28-29`, the
receiver is stored last), and no command checks that a balance suffices.

## OIDC pipeline

**`OidcPipeline`** is `OIDCWebApp` in front of an external provider: tabs of one
browser, each with a relying party's request. A request begins by loading cookies and
session (`Begin`) and ends by committing the session whole if it changed it, which is what
the session middleware does; between them the action(s) of the page run. `AuthorizeBegin`/`End` park
the request; `LoginPage...`, `Challenge`, `ProviderAnswers` and `Signin...` are the
login page and the handler's challenge and callback path, with nonce and correlation
cookies; `FindLeftover` to `SignInAndRemove` is
`ExternalLoginModel.OnGetCallbackAsync`, one action per call of the user manager;
`Way2...` sends the token on. `Replay` posts a provider's answer again, in its own tab
or in a duplicate of it, and there perhaps while the first post is being served;
`SessionExpires` drops the session.

The three properties about the session hold as long as no two requests overlapped in the
server (`overlapped`, a history variable). With overlap each fails, since a
request that loaded the session earlier and commits later undoes what the other one
did; TLC confirms all three. `ScratchUsersAreTemporary` and `AcceptedOnce` have no
condition on overlap. The handler knows a login that was answered by its
correlation cookie alone, and looks at the cookie its own request came with
(`OpenIdConnectHandler.cs:515`): of two posts of one answer that are served at the same time,
both may be accepted, and in the model they are. `AcceptedOnce` says what does hold: an
accepted answer (the history `accepted` in the cookie jar) is accepted again only by a
post that had begun by the first acceptance, whatever other logins and nonces the jar
holds. There is no fairness and no liveness here: users and browsers owe nothing, and the
run allows the system to stop (`CHECK_DEADLOCK FALSE`).
Bounds: two tabs compete for the one session slot; one login each; an answer may be
posted again, in either tab, until some tab has done so once (`MaxReplays`), which
allows one post to overlap the first and one to come after it; two users with one
display name meet in the user store.

Kept from the code, and worth knowing: the verdict of `AuthorizeRequestValidator`
is computed and not used (`OIDCController.cs:97`), so a request with an unknown
response mode is parked and fails when it is rendered, after both parked values were
deleted; the branch "re login from the same user" (`ExternalLogin.cshtml.cs:129`)
compares with a claim `.nameIdentifier` that no code issues, so that it is never taken.

## Field authorization

**`FieldAuth`** walks a document node by node, as GraphQL's validator does:
`EnterOperation`, `EnterField`, `LeaveField`, `EnterSpread`, `EnterFragment`, then
`Execute`. `running` is the listener's path, `open` the document's (the two are kept
apart so that a listener that loses its place is noticed); `fragmentMap` and `root`
are the sink's; `Records` the settings. The document is not given: TLC reads every
document up to six nodes.

`Reached` is the reference: the full paths at which the executer meets a field,
computed from the nodes alone, and `Allowed` is what the settings ask for.
`EveryReachedFieldIsAllowed` and `OnlyForbiddenFieldsAreRefused` compare the rule with
it for *plain* documents: operations of one type, before the fragments, each
fragment spread once, by an operation. The rule cannot follow others, because it
corrects the paths of a fragment for one spread and never goes back to none.
`LeadingOperationsAreAllowed` holds for every document. Six nodes suffice for an operation with a field, two
spreads and both definitions, or for three levels with siblings.

## Keys and application identities

**`KeyCaches`** is a token's validation by `TokenValidator`. An OIDC token meets a
`ProviderValidator`, created for this one token: it asks the authority's discovery
cache for the document (`ValidateToken`, `Answered`, `Unreachable`), looks for the
entry `certs` of the shared memory cache (`FetchCertificates`) and fills it after a miss
(`SetEntry`). A token of the server itself meets the `SelfValidator`, whose keys come
from the local key store. Keys are numbered by generation: `Rotate` introduces one
and keeps or withdraws those before it. `fresh` and `gone` count the ticks since
then, up to a horizon beyond which ages no longer matter.

Two things the module keeps because the code does them. The entry `certs` is one for
all authorities (`ProviderValidator.cs:42`), so that while it lasts, tokens of any
other authority are refused. Issuer and signature are checked separately
(`ProviderValidator.cs:75-76`), so a token says who issued it and who signed it
independently (`named`, `signer`): under an OIDC scheme one passes that names the
scheme's issuer and is signed by whichever authority `certs` holds the keys of; under
`self` the issuer is not looked at. `Trusted` says just that, and no more passes. And keys come through two caches in a
row, each good for a day: a withdrawn key can work for almost two days. `Window` is that bound, for each
kind of scheme; TLC refutes `VerdictsAreRecent` for any smaller one.
`GoodTokensPass` names the only two reasons for which a token with an
established key is refused.

Time is the ticks of a clock whose day has `Day` of them; a call lives through one
at most (HTTP clients time out long before), and that is why the window of an OIDC
scheme is `2 * Day - 1` and not `2 * Day`. The discovery cache is IdentityModel's, and
external: an answer replaces the document it keeps, an error keeps nothing. The
entries of the memory cache do not slide.

**`AppIdentity`** adds `appIdentityCreate` and `appIdentityRefresh` to these actions,
so that a refresh is a validation among others. An identity is what ends up in
a token: subject, `appId` with `machineId`, and, as a history, how it was issued.
`IdentitiesAreTraceable` follows a subject over refreshes and rotations to the
caller who chose it. Strangers are tokens of other origin that a caller may
present: an authority's, or the server's own for other purposes, with any subject and
claims. The exchange handler mints such tokens with what a partner asks for
(`ExternalExchangeTokenExchangeHandler.cs:200-210`), and a refresh asks for no client,
audience or purpose: if one has a subject and both claims, it is refreshed like an
identity. The property therefore names two origins, an authorized creation and a token
that this server has signed with the same subject, appId and machineId; that a refresh
changes none of the three, and that no authority's token becomes an identity, holds in
any case. What a refresh answers as expiry is left out.

Bounds: two calls suffice to fill one entry twice or to meet an entry of the other
authority; two ticks to a day distinguish an age within, at and past it. The run
restricts behaviours to one half of the caches (OIDC or self, which share no state), to
one identity with its refreshes, and to one token at a time that is not of the
scheme it names.

## Identity store

**`IdentityStore`** is `Identity.Contrib.InMemoryStore` under ASP.NET's
`UserManager`. The manager turns a call into several store calls: it asks (`Check`),
changes (`AddLogin`, `RemoveLogin`, `AddToRole`, ...) and puts the user into the
dictionary (`Update`). One action is one change of one shared collection, and other
requests run between any two. The manager is external: which store calls it makes, in
which order, is how this code is used. Logins are kept twice, in the user's list
(`linked`, which counts entries, because two of them make `SingleOrDefault` throw) and in
the dictionary `logins`; a store call changes the list first (`AddLogin`,
`RemoveLogin`) and the dictionary in a second step (`Point`), without a lock
(`InMemoryStore.cs:168/175`, `189/191`). Roles are `member`. Finding an entry in one list
and removing it is one step, since another caller's change between the two leaves the list
as some order of whole steps would.

The recovery codes are one string of the user, rewritten whole. A set of codes stands for
it, with the one conversion that matters: a string without codes, or none, splits into
one empty code (`Split`). So an empty code (`Blank`) is accepted of a user whose codes
are used up or were never issued, and leaves the string as it was: it is accepted
every time (`InMemoryStore.cs:581-587`). No page of this repository redeems codes; ASP.NET's
`UserManager` and `SignInManager` offer it over this store.

The properties say what holds of a thing until one call changes it under another that
relies on it (`Quiet`, over the history `contended`), and what holds anyway. A call
relies on what it has seen until its own writes are done: an addition of a login or a
role on finding it absent, a removal of a login on nobody adding it, a redemption on the
codes it has read (`Upsets`). Calls that overlap otherwise are covered, with
their halves in any order. The rest does break, and TLC shows it when the condition is
dropped: two requests can add one login to two users, or one adds what another is
taking out, after which list and dictionary disagree; a role added twice can
never be removed, because every attempt throws; a recovery code redeemed by two requests is
accepted twice. `LoginsAgree` compares list and dictionary unless a call is between its two
writes (`Halfway`), and says of that moment too that nobody else has the login.
`CodesAreSpentOnce` says which codes can be accepted: those of the last issue that
were not accepted before, and the empty one when there is none of them. `DeleteAsync` leaves the logins in the dictionary, so that
`FindByLoginAsync` still finds the deleted user, and the next update brings it back:
`DeletedUsersStayAway` says when this cannot happen. The invariants hold at every point
between two changes, not only at the end of a manager's call.

Bounds: one role and one login suffice for each conflict, a second login and a second
user for the question whose it is; two issues of two codes show a code of an earlier
issue come back. Logins, roles and codes share no state, so a behaviour uses one of
them (`OneOfThree`); a behaviour stops growing when a second thing is contended for
(`OneContention`). The system may stop: once every user of the bounded set is deleted
there is nothing left to do.

## Stores filled on first use

**`LazyStores`** has the three singletons that create a collection on first use
without a lock: the discovery containers of the authorities
(`DiscoverCacheContainerFactory`), the endpoints of the discovery hub and the states that
B2B clients publish. Each assigns an empty collection to its field (`Create`) and
fills it by way of the field (`Take`, `AddContainer`, `BindEndpoint`), which may be another
request's by then; a collection is named by the request that made it. Every
read of the field is a step of its own.

What is lost in the race stays lost, and the module keeps it: a first request may die of a
duplicate key, find no authority, get a list that is short or twice as long, or have
a publication answered with `Accepted` disappear. `StoresSettle` says that this is
over when the last of them is: the collection that is left is complete (a list may have
its endpoints twice), and publications are kept. `LateRequestsAreServed` says
that a request which begins after that never notices. Three requests are two that race and one that
comes late; two elements are enough for a collection that is half full.
Additions to one dictionary are single steps; that they are not in the program is
listed among the [limits](#what-is-not-modelled).

The specifications of these three sections state no fairness: nothing in them has
to happen that is not a single request's own progress.

## Findings

| Run | The repository says | The code does |
| --- | --- | --- |
| `exchange_aliases` | `TokenExchangeQuery.cs:36`: given proper tokens, the field returns an authorization payload | a second `tokenExchange` field of the same document fails on the request-scoped summary log (line 45) before its tokens are looked at |
| `exchange_selftoken` | `src/docs/Authorization-Service.MD:93`: `validate-strip-signature` validates the token before it strips it | for the scheme `self` the validator answers an invalid token with null, which the pre-processor does not look at |
| `loyalty_live` | `UpsertCustomer.cs:18-20`: safe to return a live object because `Customer` is immutable | `UpsertCustomer.cs:27` changes it in place: a call may show the balance a later deposit left |

## Proofs

All theorems hold for every value of the constants that satisfies the named
assumptions of the modules. Those are: a positive window, lifetime, day and width of an
int; a non-empty set of exchanges; sentinels outside the sets they complete; the shapes of
settings and inputs; names of one kind that are not names of another (a fragment is
neither `NoOne` nor a number, a customer is not the role of an object); and finitely many
calls, prizes and tabs where a property counts or sums over them (`StoreAssumption`,
`PipelineAssumption`). TLC evaluates all of them in the runs.

Every invariant and every action property that a passing run checks is a theorem:

| Module | Theorem | Statement |
| --- | --- | --- |
| `ClientCredentialCache_proofs` | `CacheTypeCorrect`, `CacheKeepsTokensApart` | `TypeOK`, `OwnToken` |
| `TokenExchange_proofs` | `ExchangeTypeCorrect`, `ExchangeImplementsCache` | `TypeOK`; every step is a step of the cache or leaves it alone |
| | `OneFieldOfADocument`, `ExchangeKeepsContract` | `OneFieldServed`, refinement of `TokenExchangeContract` |
| | `RightBearer`, `SignaturesStayHere`, `OidcTokensAreChecked` | `BearerOfFinalExchange`, `StrippedBeforePosting`, `OidcCheckedBeforePosting` |
| | `MintsForCheckedSubject`, `MintsArePlanned` | `MintedForCheckedSubject`, `MintsFollowPlan` |
| `LoyaltyStore_proofs` | `StoreTyped`, `NoObjectIsShared`, `OldObjectsAreLeftAlone` | `TypeOK`, `ObjectsAreNotShared`, `OnlyDepositsReachOldObjects` |
| | `StoreIsABank`, `LateCallsFindTheSettings`, `NothingIsLost` | refinement of `LoyaltyBank`, `LateCallsSeeTheSettings`, `NothingLost` |
| `OidcPipeline_proofs` | `PipelineTyped`, `ScratchUsersGo`, `LoginsOnce` | `TypeOK`, `ScratchUsersAreTemporary`, `AcceptedOnce` |
| | `AnswersGoOutOnce`, `AnswersFit`, `ShownTokenBelongs` | `AnsweredOnce`, `WrongNonceNeedsALaterRequest`, `ShownTokenIsTheUsers` |
| `FieldAuth_proofs` | `WalkTypeCorrect`, `LeadingOperations` | `TypeOK`, `LeadingOperationsAreAllowed` |
| | `ReachedFieldsAreAllowed`, `RefusalsAreDeserved` | `EveryReachedFieldIsAllowed`, `OnlyForbiddenFieldsAreRefused` |
| `IdentityStore_proofs` | `StoreTypeCorrect`, `CodesOnce`, `LinksStayInStep` | `TypeOK`, `CodesAreSpentOnce`, `LinksAgree` |
| `LazyStores_proofs` | `LazyTypeCorrect`, `StoresComeToRest`, `LateComersAreServed` | `TypeOK`, `StoresSettle`, `LateRequestsAreServed` |
| `AppIdentity_proofs` | `AppTypeCorrect`, `KeysAreRecent`, `IdentitiesGoBack` | `AppTypeOK`, `VerdictsAreRecent`, `IdentitiesAreTraceable` |

*Cache.* `OwnToken` is inductive with the types: a response never changes the
exchange it was fetched for, which `OlderResponse` and `OlderEntry` state of a tick.

*Exchange.* None of its properties is inductive. The invariant `Sound` adds to the types
that a field past its entry has tokens, as many as it was given (`Entered`); that a call of
the cache is in progress only while a field forwards, and for its final exchange
(`CallForFinal`), so that the cache's own `OwnToken` speaks of the right exchange. On it
rest, one per theorem: `Logged` and `Alone` (whoever is served has logged its document's
query, and is the only such field); `Stripping` (from the first pre-processor on, no token
carries a signature); `Clearing` (the validating pre-processor is still to come, or every
OIDC token was accepted); `Accepting` (an in-process handler mints only once every token
was accepted, and for the first one's subject); `Phase` (a field that has reached no plan
has nothing issued; one that mints has worked off exactly the instructions its response
holds). `IssueNumbers` is the arithmetic of the last: the token of an instruction has the
number of instructions up to it that need the minting service, so one more instruction
takes the next number or none. Each step lemma has one case per action;
lemmas such as `LoopPosition` dispatch the actions that touch neither the field nor its tokens.

*Loyalty.* A `Customer` object is named by the call and the statement that creates it.
The invariant `Apart` says that engines and answers hold *used* objects only: a seed is
used once its call has passed that seed, a command's objects once it has run
(`HeldAreUsed`, `ReturnedAreUsed`). So what a command creates is in nobody's
hands, two accounts never share an object, and a step changes the accounts only as one
command does: that gives `StoreIsABank` (each step maps to a step of the bank or to a
stutter; the empty engine of a second starter is the bank's `Restart`) without any
condition on how many engines were started. For late calls, `SeedsHeld` says that,
while only one call has started an engine, the one in the field has every seed its call has
passed, and `SeededThrough` that whoever is past the seeding has passed all.
`NothingIsLost` needs a sum over the calls, which is a recursive function of a
finite set. No induction is at hand for it; instead, what is needed of a sum
(it exists, splits off any element, and agrees for equal summands) is proved by taking a
smallest subset for which it fails. `Balanced` then says of every account that it is, wrapped to an
int, the seeds passed plus the effects of the commands that have run: a command adds one
summand, and wrapping commutes with addition.

*OIDC pipeline.* Two properties hold however requests overlap. `Owned`: whoever is in
the user store was put there by a callback that has still to delete it. `Marked`: an
accepted answer's correlation is gone from the jar, nor does a later login bring it back
(`Traced`: a correlation belongs to a login its tab has begun), and a request carries the
jar as it was when it began; so whoever still carries the correlation has not seen the
acceptance, and `AcceptedOnce` follows for posts that overlap in any way. The other three
hold until requests overlap, and need to know where tokens are. `Spent` says that a token
that is stored or was sent has no correlation left, so none comes back. `Serial`: one
request at a time is in the server, it has read what is stored, the correlations it carries
are still in the jar, and its scratch user is there. Given these, `Once` says that the
parked request is the last one and that what was sent is no longer stored; `Fitting`
says that a token has the parked request's nonce unless that request was parked after the
login had begun; and `Shows` that the user in the cookie and the token parked with
him change together.

*Field authorization.* For any document: the invariant `Sound` says that until
a fragment is entered the sink has no root and the listener's path is the
document's, and that while nothing was reported everything read so far is allowed.
For plain documents more is true, and is what had to be found: the rule's errors are
*exactly* the places the executer reaches and the caller may not have (`Followed`:
`errors = Denied`). It is inductive with `Rooted` (inside a fragment the sink's root is the
place of its spread), `Mapped` (the map knows the spread of each fragment to come) and
`Homed` (every node belongs to an operation or to a fragment that was entered).
The step lemmas say what a node adds to `Reached`: a field in an operation adds its
place, a field in a fragment the place of the spread followed by its own, and a spread
nothing, because its fragment comes later. `AccessIsAllowance` relates the rule's look-up to
the settings.

*Identity store.* `LinksAgree` and `CodesAreSpentOnce` speak of the state between any two
changes; what makes them inductive is what a call in progress may rely on, as long as no
other has written under it: the codes a redemption has read are the user's, and its code
is one of them (`ReadingHolds`); the login a call adds leads to nobody, and in the
middle of an addition or a removal no other user has it (`FindingsHold`); the role a call
adds is not there (`AddsFirst`). The step lemmas show that a write which would spoil one of
these enters its topic into `contended` (`Disturbs`). `Gone` says that no call holds the
object of a departed user.

*Keys.* A cached key set is at most as old as its entry: `UpToDate(k, n)` says that keys read
`n` ticks ago lack only those that are younger and hold only those that were there then, and
`KeysSound` says it of the discovery caches, `certs`, the server's own entry and
every call's copies, with the ages that add up along the way to `Window`.
`NewestIsPublished` says that there is always a key to sign with. For `IdentitiesAreTraceable`
`InputsArePresented` ties the token that is validated to the one that will be refreshed,
which is an issued identity or a stranger; a stranger that passes was signed with the
server's key, and what is minted has its subject, appId and machineId. Nothing is assumed
of the strangers but their form.

*Stores filled on first use.* What the collection in the field lacks is on its way:
`AuthoritiesCome` has, for each missing authority, a request that fills this very collection
and meets no duplicate key before it gets there; when another request adds something
first, it takes over what the one that will die of it was to add. `EndpointsCome` is simpler,
because a list has no duplicate keys. Nobody fills once a store has settled
(`SettledStays`), so nothing is missing; what a late request took from the field is then
what the field holds until the request is over (`LateAt`).

Only model-checked are the four liveness properties `EveryCallReturns`,
`PoisonNeedsTraffic`, `EveryDocumentAnswered` and `EveryCallEnds`: a proof from weak fairness
has to reason about `ENABLED`, which TLAPS does not do here. The properties of the three
runs that end in a violation are false, and there is nothing to prove about them but
TLC's counterexamples.

## What is not modelled

- Contents of tokens, documents, pages and logs, beyond what a property distinguishes;
  cryptography is "valid or not".
- ASP.NET Core, IdentityServer4, GraphQL.NET, Memstate and the providers: modelled
  by what this code can observe of them, and marked external.
- Torn reads and writes of plain `Dictionary` objects that several threads use (the summary
  log, the in-memory user store): operations are single steps.
- Memstate's journal: the engine starts empty.
- Claims, lockout counters and look-ups by name of the identity store: single calls on
  one object, as `SetProperty` has them; `OidcPipeline` has the claims it uses.
- Multi-authority access tokens: the choice of a scheme by a header, then ASP.NET's own
  handler; nothing changes after start-up.
- Remote sign-out and the sign-out callback of the OpenID Connect handler, which drop
  cookies; redeeming a code, which is the success or the refusal of a sign-in.
- AuthServer's pages, which are IdentityServer4's quickstart; the subscription loop of
  `GraphQL.Client`, a library that only tests here use; the orders example, which is
  graphql-dotnet's.
- Schema registration, start-up code, demonstrations, the duplicate `TestAuthWeb`: no
  state changes after start-up or no state at all.

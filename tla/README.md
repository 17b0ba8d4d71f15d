# OAuth 2.0 / OpenID Connect server: verification project

TLA+ models of the authorization server in `src/` (Go, `internal/` and
`cmd/server`), the TLC configurations that check them, and proofs checked by
TLAPS.  Every module is translated from the Go code; where the documentation
disagrees, the code is what is modelled and the disagreement is a run of its own.

## The system

One process serves HTTP with gin.  Every request runs in a goroutine of its own.
All state is in memory: nothing survives a restart, so a restart is the initial
state again.

| Component (source) | State | Operations | Interacts with |
|---|---|---|---|
| Token stores (`internal/server/store.go`) | `AuthCodeStore.codes`, `TokenStore.accessTokens`, `TokenStore.refreshTokens`: three `sync.Map`s | create/store, get (deletes the entry if expired), delete, two cleanup goroutines | called by every handler below |
| Scope strings (`store.go:233-318`) | none | split, membership, validation against the registration, narrowing | grants, authorization, UserInfo |
| Authorization endpoint (`server/authorize.go`, `pkce.go`) | none | validate, create a code | code store, session |
| Token grants (`server/grant.go`) | locals of the handler between store calls | `authorization_code`, `password`, `client_credentials`, `refresh_token` | stores, generator |
| Revocation (`server/server.go`, `handler/revoke.go`) | none | client authentication, `RevokeToken` with three kinds of hint | stores |
| Token generator (`server/token.go`) | RSA key | access token (JWT, whole seconds), refresh token and code (random), ID token | grants |
| Bearer validation, UserInfo (`server.go:86-102`, `userinfo_service.go`, `handler/userinfo.go`) | none | JWT test, then store lookup; the user's claims | stores, users |
| Token endpoint (`handler/token.go`) | none | Basic or body credentials, dispatch, JSON | grants |
| Login, consent, logout (`handler/{login,auth,authorize,revoke}.go`, `auth_service.go`, `web/src/pages`) | the session: user, `AuthTime`, `ReturnURI` | login, consent, deny, logout | authorization endpoint, browser |
| Rate limiter (`middleware.go:65-114`) | per-address window under a mutex | allow, cleanup | token endpoint |
| CORS, session and logging middleware; discovery; users and configuration; generated API docs | static | — | — |

What is hard about it:

* **Interleaving.** The stores are concurrent maps, so each operation on one key
  is atomic, but the handlers are sequences of them with nothing held in
  between: look up, check, delete, generate, store, store.
* **Order and partial failure.** The old credential is deleted before the new
  pair is generated; access tokens are stored before the refresh token that can
  revoke them.
* **Time.** JWT times are whole seconds and stores keep the full resolution;
  an access token has no unique claim, so two tokens of one client, user and
  scope in one second are the *same string* and share one store entry.
* **Stale reads.** A lookup that finds an entry expired, and a sweep with its clock
  of before the walk, delete by key: whatever is there by then.
* **Sequences.** Scope travels through a chain of refreshes, each of which may
  omit or name it, into two endpoints that make claims of it; a login, its user and
  time set one after the other, travels through session and code into an ID token.

What makes each component correct: a code or refresh token is accepted once; a
replacement never works beside what it replaced; a revocation revokes; no access
token outlives the refresh token that could revoke it; scope and identity never
grow; a good token is never refused and a withdrawn one never by a stranger; expired
entries leave; the limiter's window bounds requests; a consent decision is
respected; a logout holds and a login comes to the end of the request that waits for it;
an ID token says when its user logged in.

## Modules

| Module | Models | Role |
|---|---|---|
| `Scopes` | `store.go:233-318` | scope strings as sets of names |
| `Grants` | `store.go`, `grant.go`, `authorize.go`, `server.go`, `token.go`, `pkce.go` | the stores and the handlers over them, one action per store call |
| `CredentialLedger` | — | abstract specification: what is promised about codes and refresh tokens |
| `GrantsProperties` | — | the properties, and the refinement mappings to the ledger and to `TokenLife` |
| `ScopeStrings` | `store.go:233-318` | the same functions on strings of characters: how these split into the names `Scopes` takes them for, and what is decided of them |
| `ClientAuth` | `handler/{token,revoke,handler}.go`, `server.go:45-52` | Basic and body credentials |
| `Bearer` | `store.go:135-200`, `server.go:86-147`, `token.go`, `handler/{revoke,userinfo}.go` | access tokens from issue to end, with each lookup and sweep in its steps; EXTENDS `ClientAuth` |
| `TokenLife` | — | abstract specification: what is promised of access tokens; `Bearer` and `Grants` both implement it |
| `RateLimiter` | `middleware.go:65-114`, `241-256` | the token endpoint's limiter, and its properties |
| `FixedWindow` | — | abstract specification: what a limiter with windows promises |
| `Sessions` | `handler/{authorize,login,auth,revoke}.go`, `auth_service.go`, the pages of `web/` | one browser's session through login, consent and logout, and its properties |
| `IDTokens` | `grant.go`, `token.go:56-84`, `userinfo_service.go` | what a client is told about a user; composes `Sessions` with the grants that start from its codes |
| `MCGrants`, `MCSerial`, `MCBearer`, `MCRateLimiter`, `MCSessions`, `MCIDTokens` + `.cfg` | — | small instances for TLC |
| `GrantsProofs`, `ScopeProofs`, `LedgerProofs`, `BearerProofs`, `RateLimiterProofs`, `SessionsProofs`, `IDTokensProofs`, `ScopeStringsProofs` | — | TLAPS proofs |

How they fit together.  The limiter sits in front of the token endpoint
and either lets a request through unchanged or stops it, so `Grants` holds with
it and without it.  `Sessions` ends where a code is issued (`Issue`), which is
where `Authorize` of `Grants` begins; `IDTokens` joins the two and follows the
user, the login time and the scope from the browser to the client.  `Bearer` looks
into the single step that `Grants` makes of a lookup or a sweep of the access token
map; `ScopeStrings` into the set that `Scopes` makes of a string.  Theorems tie
the views together: `Bearer` and `Grants` both implement `TokenLife`, and `SetsForStrings`
justifies the sets.

### How `Grants` corresponds to the code

A *worker* is a request slot: one goroutine at a time, serving one request after
another.  `pc[w]` names its next store call; `req[w]` holds the request's
parameters and `pair[w]` the tokens generated and not yet answered.

| Action | Code |
|---|---|
| `Authorize` | `Server.Authorize` for a logged-in user: checks, then one `Create` |
| `ReceiveExchange` … `ReceiveRevoke` | the handler up to its first store call, with the checks made there as guards |
| `GetCode`, `DeleteCode` | `grant.go:107`, `112` with the checks that follow |
| `GetRefresh`, `DeleteRefresh`, `DeleteAccess` | `grant.go:226-249`; `server.go:113-119`, `137-141` |
| `GetAccess` | `server.go:121-136` |
| `GenerateAccessOnly`, `GeneratePair`, `GenerateFails` | `grant.go:62-71`, `198-201`, `token.go` |
| `StoreAccess`, `StoreRefresh` | `grant.go:73-90` |
| `Respond` | the handler's answer |
| `CollectCode`, `CollectAccess`, `CollectRefresh` | one deletion by a cleanup loop |
| `Tick` | the wall clock |

Abstractions, and why they lose nothing the properties see:

* **A get is one step.** `Get` loads, compares the expiry and perhaps deletes.
  Code and refresh records are never changed or stored twice, and an expired
  record stays expired, so the load and the delete commute with everything in
  between.  An access-token entry may be stored again in the second of its issue;
  that no lookup then deletes a good entry is what `Bearer` checks, with the steps
  apart.
* **A sweep deletes one entry per step** and reads the clock then, not once
  before the walk: what is expired for the older reading is expired for the newer
  (again, `Bearer` has the walk as it is).
* **Records outlive their keys.** Records are immutable, so `codeInfo` and
  `refreshInfo` keep them for ever (as a goroutine's pointer does) and `codes`,
  `refreshTokens` say which keys are in the maps.
* **One clock reading per generation.** `GenerateAccessToken` and
  `issueTokenPair` call `time.Now` a few instructions apart; the model reads once.
* **Requests that fail before any store call** change nothing and are not steps.
* **Clients present what they were sent.** Random strings are not guessed;
  refresh requests draw from `handedOut`.  A code is presented from the moment it
  exists.  Unknown strings behave as expired or deleted ones do.
* **Scope strings are sets.** Order and repetition of names are dropped, which
  matters only for the identity of access tokens: clients are taken to spell one
  scope one way.  `""` (`NoScope`) and a string of blanks (`{}`) stay distinct,
  as they are in the code.
* **Hints** other than the two defined behave as no hint (`server.go:129`).
* `handedOut` and `lineage` are history variables: no code action reads
  `lineage`, and `handedOut` only limits what clients send.

### How `Bearer` and `ClientAuth` correspond to the code

`entry` is `TokenStore.accessTokens`.  `task[w]` is the request a worker serves: its
next step, the token it is about, the expiry it has signed or loaded, and the client
it has authenticated as.

| Action | Code |
|---|---|
| `Sign`, `StoreToken` | `grant.go:62`, `73` and `198`, `203`: a token is signed, then stored |
| `Present`, `ValidateJWT` | `handler/userinfo.go:23`, `handler/revoke.go:26`; `server.go:90` |
| `Revoke`, `RevokeThroughRefresh` | `handler/revoke.go:108-150`; the deletion of the access token at `server.go:119`, `141` and `grant.go:249` |
| `Load`, `Compare`, `Drop` | `store.go:186`, `191`, `192`; then what the caller does with the result (`server.go:95-101`, `121-136`) |
| `Delete`, `Answer` | `server.go:127`, `133`; the answer of the endpoint |
| `StartSweep`, `SweepVisit`, `SweepDelete`, `EndSweep` | `store.go:155`, `156-158`, `159`, `162` |

* The walk of `sync.Map.Range` comes once to each key that stays in the map; one that is
  stored while the walk is under way, and was not there before, it may come to or miss
  (`StoredMeanwhile`).  The sweep of the refresh tokens that follows touches another map.
* `AuthenticatedAs` is the block that `Handler.Token` and `Handler.Revoke` share:
  conflicting identifiers are refused, the header takes precedence, then the
  secret is compared.  A header that does not decode is one without
  identifier.
* A rotation or revocation of a refresh token has checked that token's client, which
  is the access token's own (`issueTokenPair` stores the same client in both);
  `RevokeThroughRefresh` starts behind that check.
* `handedOut`, `withdrawn`, `excused`, the `proved` of a task and the `late` of a sweep
  are history.

### How `IDTokens` and `ScopeStrings` correspond to the code

| Definition | Code |
|---|---|
| `Exchange`, `Password`, `ClientCredentials`, `Refresh` | the four grants (`grant.go:101-265`), with the scope they resolve and the ID token they answer with |
| `IDToken`, `UserClaims` | `ShouldIncludeIDToken` and `GenerateIDToken` (`store.go:276`, `token.go:56-78`) |
| `UserInfo` | `GetUserInfo` (`userinfo_service.go:19-46`) behind a valid token |
| `fieldSplit`, `Scan`, `Visit` | `fieldSplit` (`store.go:257-274`), its loop and one turn of it |
| `Join`, `Joined` | `strings.Join` in `ValidateClientScope`, and what it is for the first names |
| `Parts`, `StringContains`, `StringPermitted`, `StringResolved`, `StringNarrowed` | `splitSpaces`, `ContainsScope`, the two results of `ValidateClientScope`, `isScopeNarrowed`, each on strings |

* Every grant is one step: what it answers depends on the code or the tokens it is
  given and on nothing that changes meanwhile.  Single use, expiry and revocation
  are left out, which only allows more; see the header of the module.
* A user record is what its claims are made of: whether it has a name and an email.
* `told` is the latest answer and `origin` the grant the tokens began with; both are
  history.  `nonce`, `aud` and `iss` are copied by one assignment and left out.  If
  signing the ID token fails, the answer lacks it (`grant.go:138`): that says less.
* `SplitsIntoNames` (in `MCSerial`) compares the two views on short strings: no scope that a request
  carries or a code holds has a spelling which falls into other words than a reader
  sees in it (`Misread`), and no registration is joined to a string that does
  (`Misjoined`).

### How `RateLimiter` corresponds to the code

`visitors` is the map.  Both entries to it hold the mutex throughout and read the
clock with it held, so each call is one step.

| Action | Code |
|---|---|
| `OpenWindow` | `allow`, a missing or finished window: sweep if full, then a new entry |
| `CountRequest` | `allow`, a live window: count, admit or refuse |
| `cleanup` | one turn of the cleanup goroutine |
| `Tick` | the wall clock |

How long the goroutine sleeps is left open, which allows every timing of the
sweep.  `Limit` is at least 1 (`router.go:23`: 10); with 0 the code would still
admit the request that opens a window.  `served` and `refused` are history.

### How `Sessions` corresponds to the code

| Action | Code |
|---|---|
| `Open`, `SubmitLogin` | the person visits an authorization URL, a page or `/logout`, or types a password |
| `StartAuthorize`, `SaveReturn`, `Issue`, `Refuse` | `Handler.Authorize`: read the user; the login gate; read `AuthTime` and issue the code; or what `Server.Authorize` refuses |
| `StartLogin`, `StampLogin`, `AnswerLogin` | `Handler.Login`: set the user; set `AuthTime` and save; answer with the `ReturnURI` |
| `Allow`, `Deny` | `Handler.Auth` with a decision, and the page following the answer |
| `StartLogout`, `SaveLogout` | `Handler.Logout`: delete the user; delete `ReturnURI`, save, and go to the login page or a registered `post_logout_redirect_uri` |

* **The session library is not part of the repository.** Two requests of one session may
  work on the same values (each `Set` is seen at once) or each on a copy that `Save`
  writes back whole.  `sharing` says which; `Init` leaves it open and no step changes it,
  so every run and every theorem is about both.  `LogoutHolds`, `LoginReachesClient` and
  `DisclosedAsGranted` hold both ways.  The exception to `LoginReachesClient`, a login gate
  with a copy from before the login, which writes back a session without it, is part of its
  premise (`LoginStands`).  That an ID token names a user with that user's own login time is
  a claim of the documentation, which shared values break: see `claim_auth_time`.
* **What `Server.Authorize` makes of a request** is `VerdictOf` it: a code, an error at the
  client's redirect URI (scope, PKCE, `response_type`), or an error on the spot (unknown
  client or redirect URI).  The login gate remembers the URL before any of that is
  looked at, so the end of a login may be a refusal.  A generator that fails refuses a
  request that would have been granted.
* The browser has its session cookie already: the first request of a browser, which
  creates the session, is not distinguished.
* Steps that touch only the handler's own copy or read what the next step reads
  are joined with their neighbour.
* The username is never read and not modelled, nor is the session's expiry after
  an hour, nor the `return_to` parameter of the login page (nothing in the server
  sends it).  A wrong password changes nothing and is not a step.
* `Tick` stands for the seconds `AuthTime` tells apart.
* `code` and `logins` are history.

## Runs

All constants are in the `.cfg` files.  `main.go` registers only clients with
scopes and all grant types; `"any"` is added to exercise `store.go`'s branch for
clients registered without scopes.

| Run | Question | Bounds |
|---|---|---|
| `grants_races` | Can a request slot redeem a credential twice; does an attempt take its code out of the store; does a replacement ever work beside what it replaced; do the stores implement the ledger; who can end an access token? | 2 workers, 2 clients (symmetric) presenting each other's credentials, 1 code, 2 verifiers, 3 refresh tokens (so a rotated token is rotated again), one second: that time ends a token as `TokenLife` says is checked in `bearer` and proved for both |
| `grants_expiry` | Are access tokens orphaned, lost or left by a revocation across expiry? | 2 workers, 2 refresh tokens, half-second ticks to past both expiries |
| `grants_serial` | One request at a time: are credentials single-use, and can any chain of grants widen a scope? Does a scope string split into the names it is taken for? | 1 worker, every scope string over two names, a chain of two refreshes, both kinds of client, all in one second, which begins when a code can already have expired in its map (`LateInit`: what `Authorize` and a few `Tick`s lead to); strings of up to 6 characters over a blank and two letters |
| `bearer` | Can a lookup or sweep with an old entry cost a good token its own; who can withdraw a token; can a walk pass over what had expired; is every expired entry collected? | `FairSpec`; 2 workers and the sweep, 2 clients with all pairs of credentials, one grant, tokens of one second at half-second ticks to past their expiry |
| `limiter` | How much can one span of a window's length see; who is refused; does forgetting addresses ever change an answer; what is in a map that outgrew its capacity? | 2 addresses, room for 1, limit 2, windows of 1 tick, 6 requests each over 4 ticks |
| `sessions` | Can a handler that started earlier undo a logout? Does a login with a request waiting come to that request's end? Is a client ever told more than was granted? | 2 tabs, 2 users, a request that is granted and one that is refused at the client, shared values and copies, `BrowserFirstSpec` (below); 2 clients, every grant, scope strings over three names |
| `claim_*` (6) | The findings below | smallest instance that shows them |

Why the bounds are enough: each property relates at most two credentials, their
replacement and two requests.  Two workers give every race of two; a third
refresh token gives a rotation of a rotated token; half-second ticks separate
the truncated JWT time from the stored one.  In `bearer` two requests and the sweep are
all that can be between a load and its delete, and tokens of one second, issued in the
first and the second half of it, make two entries of one string.  Six characters hold
three names with blanks before, between and after them.  For the limiter, six requests fill two windows and enter a third, and two addresses
for one place make insertions sweep.  For the session, two handlers are all
that overlap on one key, and two users all that a session can confuse.  `BrowserFirstSpec` lets
the browser act first, with the clock stopped, and the client once every tab has come to
it with a code, which the person then leaves alone: neither writes what the other reads but
for the code, and none of the three properties reads a login's time.  `claim_auth_time`, whose
property does, has no such order.  What these bounds cannot show is
what the proofs are for.

**Fairness.** `Bearer`: weak fairness of the sweep (`Clean`), because the ticker keeps
firing, nothing stops the loop but `Close`, and a walk over a finite map ends.  `Sessions`
and `IDTokens`: weak fairness of each tab's `Serve` step, because handlers hold no lock,
wait for nobody, and browsers follow redirects.  No fairness of clients, of the
person at the browser or of the clock: nobody has to send a request, and the
properties need no future time.  `LoginReachesClient` allows for logouts: one in between
sends the tab to the login page, as it should.
That every request is answered is not stated: each handler is a finite sequence of
steps, none of which waits.

### Findings

* `claim_code_single_use` — two exchanges that both look a code up before either
  deletes it each get a pair (`grant.go:107-112`); `README.md:724` says single-use.
* `claim_refresh_single_use` — two rotations that both look a refresh token up before either
  deletes it each get a pair (`grant.go:226-248`); `skill/SKILL.md:656` says a used one is
  invalid at once.
* `claim_rotation_revokes` — a rotation within the second of issue signs the very
  string it deleted and stores it again (`token.go:37-44`); `README.md:96` says the
  old access token is deleted.
* `claim_answered_revoked` — a refresh token sent with the hint `access_token` is
  answered with 200 and stays live (`server.go:121-128`); `handler/revoke.go:105`
  documents 200 as "Token revoked or not found".
* `claim_denial_respected` — the consent page follows the URL a denial answers with
  (`auth-page.tsx:52`) to the authorization endpoint, which issues a code;
  `skill/SKILL.md:315` has the frontend detect the error in the URL.
* `claim_auth_time` — `auth_time` is not always when the user logged in, which is what
  `skill/SKILL.md:490` says.  User and `AuthTime` are two `Set`s of a login
  (`login.go:61-63`) and two `Get`s before a code (`handler.go:78`, `85`).  Where requests
  share the session's values, a code issued in between names the user with the time of
  nobody's or somebody else's login; the run ends with `auth_time` 0.  A handler on a copy
  reads both from one session, but either way a refresh in a later second signs its own
  time (`grant.go:258`).

Also seen while modelling, without a run of its own:

* After a login with a request waiting the browser goes straight to the endpoint
  that issues the code (`login.go:67`, `authorize.go:42-63`); `README.md:338` has the
  consent page in between.
* Logout leaves `AuthTime` in the session (`auth_service.go:100`);
  `skill/SKILL.md:686` says it is cleared.  A later user's login replaces it, but with
  shared values not before that user is in the session (`claim_auth_time`).
* Requests at the end of one window and in the next can exceed the limit within a
  minute (`middleware.go:105`); `README.md:728` says 10 requests a minute.
  `AtMostTwiceTheLimit` is what does hold.
* A token request whose random generation fails is answered with 400 `invalid_request`
  (`token_service.go:50-55`, `auth_service.go:149`); `handler/token.go:34` documents 500.
* UserInfo without `openid` is answered with `invalid_token` (`handler/userinfo.go:36`);
  `skill/SKILL.md:473` says `invalid_scope`.

What does hold in spite of the races of the first two: the damage is bounded by the number of
requests in flight (`OncePerWorker`, and the ledger with `MaxHeirs` = number of
workers), and with one worker both promises hold (`grants_serial`), so it takes two requests
at once.

`GrantNeverWidens` has one exception, as the code does: a client registered
without scopes may hold a grant with the empty scope string, which limits
nothing (`store.go:305`).

## Proofs

`GrantsProofs` proves, for every number of workers, clients, users, codes, refresh
tokens and every clock, from `ScopesAssumption` and `GrantsAssumption` (the
constants have their types, codes, refresh tokens and access tokens are
distinct) and, for the last row only, `ExpiryAssumption` (refresh tokens are
configured to live longer than access tokens, `NewTokenGenerator`: 24 hours
against 2):

| Theorem | States |
|---|---|
| `TypeCorrect` | `TypeOK` |
| `OncePerWorkerHolds`, `ReplacedIsGoneHolds`, `AttemptSpendsCodeHolds`, `RevocationEffectiveHolds` | the properties of those names |
| `SerialSingleUse` | with a single worker, codes and refresh tokens are single-use |
| `NoOrphanAccessHolds`, `ValidMeansStoredHolds` | the properties of those names |

The argument has three layers, each inductive relative to those before it.

1. **`TypeInv` = `TypeOK` + `Shape`.** Types alone are not inductive: which fields a
   request has depends on its kind, and `codeInfo`, `refreshInfo` are partial.
   `Shape` ties the label of a worker to the kind of its request and says that
   what a request or a pair names has a record.
2. **`SpentInv`.** For each worker: what it is about to trade in has not been traded
   by this worker before (`NotYetMinted`), and is out of the stores from the
   deletion on (`Spending`); a refresh token not yet stored is known to its request
   alone (`Unseen`) and to no second request (`PairsDistinct`); sources of minted
   tokens are gone (`SourcesGone`).  Without `Unseen`, a token could be deleted
   before it is stored and come back afterwards.
3. **`BackedInv` = `Timing` + `AllBacked`.** Each access token has a stored refresh token
   that names it, or a request that is about to store one or to delete it.  That
   refresh token must also live as long: requests of one second overwrite each
   other's entry, but never by a full second (`Timing`), and the refresh lifetime
   exceeds the access lifetime by at least one, so it makes no difference which
   of them wrote last (`RefreshOutlivesAccess`).

`ScopeProofs` adds `GrantNeverWidensHolds` and `ScopeWithinRegistrationHolds`.  Neither
property is inductive, because a scope passes from record to request to record: `ScopeInv`
says that every record and every request past its checks has a scope its client may have
(`RecordsWithin`, `Granted`), and that a stored access token with `openid` has a user.
Then the empty scope string is only ever held by a client registered without scopes
(`Within`), and a refresh can widen nothing else.

`LedgerProofs` proves `LedgerImplemented`: for any finite set of workers, every step of
`Grants` is a step of `CredentialLedger` or a stutter.  All but one are a retirement, a
stutter (`RetireOrStutter`) or the issue of a code.  `StoreRefresh` is the step that gives a
credential an heir, and the ledger allows `MaxHeirs` of them: by `OncePerWorker` the map
from heirs to the slots that minted them is injective, and the slot that stores has
minted none of this credential yet, so there is room for one more (`RoomForHeir`).

It also proves `TokenLifeImplemented`: the three stores with all handlers implement
`TokenLife`, with as `leaving` only the deletions whose request is the token's own client's.
So it needs that there are no others.  `Owned` says so: from the check of a record to the
deletion two or three store calls later, what a request is about to delete belongs to its
client, also when the access token is named by the refresh token's record and its own record
is never looked at (`server.go:119`, `141`; `grant.go:249`), since `issueTokenPair` gives both
to one client.  For lookups and sweeps, `RemovedHasLapsed`: by `ValidMeansStored` an
entry found expired is of a string past its claim.  That tokens do not exist at the start
uses that `AccessExpiry` is not 0.

`BearerProofs` proves, from `ClientAuthAssumption`, `BearerAssumption` and
`NoTokenAssumption`, for any clients, requests, clock and lifetime:

| Theorem | States |
|---|---|
| `TypeCorrect` | `TypeOK` |
| `RefusedForAReasonHolds`, `OnlyOwnersWithdrawHolds` | the properties of those names |
| `LifeImplemented` | `Bearer` implements `TokenLife` |
| `WalkMissesNothingHolds` | the property of that name, which needs no more than types to be inductive |

Everything rests on one bound: whoever stores a string, and whenever, the entry expires no
earlier than the string's own `exp` (`EntriesBounded`, `Bounded`).  So whoever has found
any entry of a string expired knows that the string is past its claim, and deleting the
present entry costs nothing that still works (`Accounted`: a token handed out has its
entry, or a good reason not to).  `Entitled` carries what the client proved at the door to
the deletion.

`RateLimiterProofs` proves, from `LimiterAssumption` alone, for every number of
addresses, limit, window and capacity:

| Theorem | States |
|---|---|
| `AtMostTwiceTheLimitHolds`, `RefusedOnlyWhenSpentHolds`, `OutgrownOnlyByLiveHolds` | the properties of those names |
| `WindowsImplemented` | `RateLimiter` implements `FixedWindow` |

Its invariant ties the history of an address to its entry (`History`).  `Ordered`: the
admissions of one address, taken `Limit` apart, belong to windows that do not
overlap.  `InWindow`: the open window's count is the number of admissions that
ended it up to now.  Without the last conjunct, that all windows of an address
without a live entry are over, forgetting an address could reopen one: this
is where `Over` must agree between `allow` and the sweep.

`SessionsProofs` proves, from `SessionsAssumption`, for any tabs, users and requests and for
either reading of the session library:

| Theorem | States |
|---|---|
| `LogoutHoldsAlways` | `LogoutHolds`: the session takes on a user only by that user's own login |

With shared values every step writes the session it sees.  With copies it is not obvious: a
handler may save what it read long ago.  The invariant (`InFlight`) says what the copy of one
under way may hold: no user, at the login gate or in a logout; in a login, the user whose
password was typed.  So a save brings back nobody but the one who logs in.

`IDTokensProofs` proves, from `SessionsAssumption`, `ScopesAssumption` and
`IDTokensAssumption`, `DisclosedAsGrantedHolds`.  Its invariant adds that the tokens' scope
lies within that of their origin (`Within`), that the empty scope string belongs to a
client registered without scopes (`Known`), and that a code is of a request that
`Server.Authorize` grants (`CodeGranted`).

`ScopeStringsProofs` proves, from `ScopesAssumption` and `ScopeStringsAssumption` (names are
spelled with letters, differently), for strings of any length over any characters:

| Theorem | States |
|---|---|
| `SplitsEveryString` | `fieldSplit` gives the maximal runs of letters, all of them, each once and in order |
| `SplitsWhatIsJoined` | a registration joined with blanks splits into its names |
| `SetsForStrings` | on strings made of names, `ContainsScope`, `ValidateClientScope` and `isScopeNarrowed` answer what their counterparts in `Scopes` answer on sets |
| `SplitsIntoNamesHolds` | the property of `grants_serial`, for every bound on the strings |

The induction over the characters is over the numbers of turns of the loop.  The library's
theorem for it takes a predicate, which the provers cannot instantiate, so it is stated over
sets and rests on `LeastElement`: a set of turns that holds the first, and with each the
next, holds all (`Induction`).  `Reading` is the invariant of the loop: behind character i,
the parts are the words that end before `start`, and from `start` to i there are only
letters.  `SplitBehind` says what a blank does to the rest of a string, which is what undoes
`Join`.  `SetsForStrings` is what makes the other modules' use of sets sound; a string that
is not made of names is refused or its unknown words ignored.

Only model-checked: liveness (`ExpiredEntriesCollected`, `LoginReachesClient`), which is out of
the prover's reach.  Of the former, `WalkMissesNothing` is the safety core, and proved: a
walk that ends leaves nothing behind.

## Plan

Done: the stores and everything that writes them (`Scopes`, `Grants`) with the
`CredentialLedger`; the limiter with its `FixedWindow`; the session; access tokens step
by step with their `TokenLife` (`Bearer`, `ClientAuth`); what a client is told
(`IDTokens`); scope strings as strings; and the proofs of every safety property and
refinement above.  What could follow:

1. The refresh token map with load, compare and delete apart, as `Bearer` has the access
   token map.  Refresh tokens are never stored twice, so nothing new is expected of it.
2. The consent page's own parameters against the session's `ReturnURI`
   (`handler/auth.go:47`), once the server puts them into the page's URL.

## Not modelled

* **Restarts.** Nothing is persisted, so a crash is followed by `Init`; tokens signed
  before it are not in the store and, with an ephemeral key, do not verify.
* **Discovery, JWKS, CORS, logging.** No state that other parts read; pure functions of the
  configuration and of the request.
* **Users, configuration, key loading.** Tables and values read once at start: constants.
  Passwords are right or wrong.
* **Error formats**, status codes and wording, but for the findings above.
* **RSA and SHA-256**: injective by assumption.  A string that was never signed is refused
  by `ValidateAccessToken` and is not presented.
* **The expiry of a browser session** after an hour, and a `Save` that fails: the session
  library is not part of the repository.
* **The generated API documentation** (`docs/docs.go`).

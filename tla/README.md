# A model of the Locktivity remote adapter

`epack-remote-locktivity` is a process that epack starts to push evidence packs to the
Locktivity registry, pull them, and sync run ledgers. It reads one JSON request per line
from stdin and writes one JSON answer per line to stdout. This directory holds TLA+
specifications of its stateful parts, the TLC configurations that check them on small
instances, and proofs that TLAPS checks for every value of the constants. Line numbers
refer to the repository; `handler.go` is `internal/remote/handler.go`, `oauth.go` and
`keychain.go` are in `internal/auth`, `client.go` in `internal/locktivity`, `main.go` in
`cmd/epack-remote-locktivity`.

Running it:

    tlc -workers 2 -config FTConfirm.cfg MCFinalizeTokens.tla    # one run
    tlapm FinalizeTokens_proofs.tla                              # one proof module

## 1. The system

| part | state it keeps | operations | talks to |
|---|---|---|---|
| adapter process (`main.go`) | the request being served; end of input or a kill loses everything | read a line, check `protocol_version`, dispatch, answer | the handler |
| handler (`handler.go`) | `tokenKey` (derived once in `NewHandler`), `usedNonces`, the rate limiter's last times | the requests below | token source, API client |
| finalize tokens | none outside the token: signed payload with digest, intent id, expiry, nonce | push.prepare, push.finalize, pull.prepare, pull.finalize | two processes, through epack |
| release retry | `attempt`, `rateLimitAttempts`, `retryInterval` of one call | the loop in push.finalize, `parseRetryAfter` | server |
| token sources (`oauth.go`, `mode.go`) | the environment | `GetToken`: access token, client credentials, OIDC token, stored session | keychain, server |
| stored session (`keychain.go`) | four keychain entries: access token, refresh token, client id, expiry | get and set one entry | every process of the user |
| browser sign-in | a session that travels through epack; its result in the keychain | auth.login, auth.complete | server, keychain |
| runs.sync | one request's runs, outputs, uploads, confirmations | collect, sync, upload, confirm | files, server |
| signing keys | none | key.register, key.list (paged), key.revoke, key.retire | server |
| single calls | none | lock.report, run.progress, credentials.resolve, config.pull, auth.whoami | server |
| endpoints, error mapping, wire types | none | pure functions | |

How they interact. A prepare request and its finalize request are as a rule served by
different processes (`oauth.go:398`). All they share is the token itself, carried by
epack, and the auth material from which each derives the signing key: a credential in
the environment or the session in the OS keychain. The keychain is shared without a lock
or a transaction by all processes of a user, and `getClient`, called by nearly every
request, may renew or cache a token in it. The server consumes a finalize intent, issues
tokens and answers 202 or 429 whenever it likes; answers may be lost.

What is hard in it, and where the properties come from:

* the same token presented twice, in one process or in two, around the second of its
  expiry, with the clock moving between the check and the recording of the nonce;
* a signing key that must come out the same in a later process, while sign-ins,
  refreshes and client-credentials commands change the keychain and its Gets may fail;
* an intent consumed on the server whose answer is lost, and the retry after it;
* a loop with two kinds of "try again" that share a budget;
* four entries written one after another, some of them with their errors ignored, by
  commands that each write only some of them, while other commands read them;
* a sign-in that is started by one process and completed by another, beside machines that
  share its keychain and sessions of other endpoints;
* answers matched to outputs by position, files that are gone between measuring and
  upload, uploads and confirmations that fail half way;
* pages of a list that grows while it is read;
* lines that no handler sees, and errors told apart by words in their text.

`PROJECT.json` lists every hazard at its line with the properties that cover it.

## 2. Modules

| module | models | checked by | proved in |
|---|---|---|---|
| `FinalizeTokens` | prepare and finalize across processes, `consumeFinalizeNonce`, `generateTokenKey` one Get at a time, what authenticating does to the session | FTConfirm, FTKeys, FTReplayAtExpiry | `FinalizeTokens_proofs` |
| `DownloadConfirmation` | abstract: what pull.prepare and pull.finalize promise of a download | FTConfirm (`ConfirmsAsPromised`) | `FinalizeTokens_proofs` (`ImplementsDownloads`) |
| `ReleaseRetry` | the loop of push.finalize, `parseRetryAfter`, `sleepFor` | RRLoop, RRNilRelease | `ReleaseRetry_proofs` |
| `StoredSession` | `oauth.go` on the keychain, one access per step | SSSerial, SSFaults, SSRace | `StoredSession_proofs` |
| `SessionCommands` | abstract: what commands on the stored session come to while they take turns | SSSerial (`CommandsTakeOneStep`) | `SessionCommands_proofs` (`ImplementsCommands`) |
| `RunsSync` | one runs.sync request, one file access or call per step | RSSync | `RunsSync_proofs` |
| `OutputDelivery` | abstract: what runs.sync owes its caller for each output | RSSync (`DeliversAsPromised`) | `RunsSync_proofs` (`ImplementsDelivery`) |
| `Endpoints` | endpoint resolution, allowed auth endpoints, `keyNamespace` | BSSignIn | pure |
| `TokenSources` | `EffectiveAuthMode`, `GetToken`, `AuthWhoami`: who a command acts as | BSSignIn | pure |
| `BrowserSignIn` | auth.login and auth.complete beside other commands; extends the two above | BSSignIn | `BrowserSignIn_proofs` |
| `ErrorMapping` | from a reply of the API to a code of the protocol | APLoop | `AdapterProcess_proofs` (`StatusAlwaysReaches`) |
| `AdapterProcess` | the loop over stdin, dispatch, rate limiter, single calls; extends `ErrorMapping` | APLoop | `AdapterProcess_proofs` |
| `SigningKeys` | key.list page by page, key.register, key.revoke, key.retire | SKList | `SigningKeys_proofs` |
| `MC...` | finite sets and symmetry for TLC | | |

### FinalizeTokens

A process is in one of the places its code can be interrupted at: `new`, `deriving`
between the two keychain Gets its signing key may take, `idle` between two lines,
`prepare` between `getClient` and the signing of the token, and for a finalize
`check` (before `decodeSignedToken` and the expiry test), `consume` (before
`consumeFinalizeNonce`, which reads the clock again), `client` (before pull.finalize's
`getClient`), `call` (before the server's answer), `gone`.

| actions | code |
|---|---|
| `StartWithEnv`, `StartWithKeychain`, `DeriveFromAccess` | `NewHandler` derives the key (44-61, 133-182): from the environment, else from the refresh token, else from the access token, else at random |
| `Exit` | end of input, crash, kill |
| `PrepareAuth`, `PushPrepare`, `PullPrepare`, `PrepareFails` | 293-360, 572-633 |
| `PushFinalize`, `PullFinalize` | the start of each handler: push authenticates first (366-369), pull after the nonce (686) |
| `RefuseToken`, `AdmitToken` | signature and expiry, 371-377, 670-675 |
| `RejectReplay`, `AcceptPush`, `AcceptPull` | `consumeFinalizeNonce` 237-267; pull's digest and token checks follow it (676-684) |
| `PullClient`, `PullClientFails`, `PushAnswered`, `PullAnswered` | the rest of the handlers |
| `Tick`, `SignIn` | the clock; a sign-in in a process of its own |

A finalize presents any token signed so far. The payloads of push and pull tokens share
their field names, so either handler decodes either token; the model lets it. A key is
a record of the source it was derived from and a serial; equal keys mean equal HMACs.
A random nonce is unique. Histories (`accepts`, `confirmed`, `born`, `astray`, `epoch`,
and `file` and `by` in a ticket) are read by properties only.

A Get of the keychain may fail whenever it is made, and `tokenKeyMaterial` takes an error
for an empty entry (173-179): with the refresh token unread the key is the access token's,
with neither read it is random. Between the two Gets another process may replace the
session. A process whose key may for one of these reasons not be its session's is `astray`:
it signs and admits tokens all the same, but other processes may not verify its tokens,
nor it theirs.

Abstractions: a change of the keychain is one step here and several in `StoredSession`;
the retry loop of push.finalize is one step here and `ReleaseRetry`'s subject; the wall
clock does not go back; the server consumes an intent at most once (this is how the code
uses it, and the server is not in the repository).

### DownloadConfirmation

Three variables: tokens offered, intents consumed, confirmations reported. An intent is
consumed once, and a confirmation is reported by the very step that consumes its intent,
or never (`Waste`: the answer was lost). `FinalizeTokens` is mapped onto it with
`offered` the signed pull tokens and `consumed` the server's `redeemed`. Keys, processes,
memory and clock disappear in the mapping, so any way in which they could make the
adapter confirm a download twice, late or without a consumed intent is a violation.

### ReleaseRetry

One step is one iteration of `for attempt := 0; attempt <= maxRetries`, with one action
per branch of the switch on the answer. `Wrap` is the signed arithmetic of
`time.Duration`, `SleepFor` the sleep, and `FallThrough` what the code does when the
loop runs out without `break` or `return`: `releaseResp` is nil at line 447.

### StoredSession

`GetToken` for client credentials (`getUsableStoredTokenForClient`, grant,
`cacheTokenWithClientID`), `GetToken` with the stored session (`getUsableStoredToken`,
`refreshStoredToken`, `storeRefreshedToken`) and the end of a sign-in
(`storeSignInToken`), one Get, Set or request per step, in the order of the code. Each
`Put` says where the code goes when the Set fails: some failures end the operation, some
are printed, some are ignored. `Faults` switches on crashes, refused Sets and failed
Gets; `Serial` lets a command start only when no other is running. A token is a record of
its owner, a serial number and whether its response had `expires_in`; the expiry entry is
the serial of the token it was computed for, which is what tells a stale entry from a
right one. `Expire` lets any token's lifetime run out at any time. A grant that succeeds
yields a token: that the client credentials' code would cache an empty one too
(`oauth.go:174-180`) is left out.

### SessionCommands

The keychain is one token and the fact that it can be renewed or not, and a command that
succeeds is one step: `Reuse` hands out the stored token, `Renew`, `Obtain` and `SignIn`
put a new one in its place and hand out that. A client is given its own token only; a
token is replaced only when it is `Doubtful` or another's. In the mapping a command takes
effect when it reads a usable token or the server grants one: while it writes the entries
one by one, the token in its hand counts as stored (`TheToken`), and what it is about to
leave as renewable (`Renewable`). At its last write the entries must have caught up, so a
write that is missing, goes to a wrong entry or is judged by a stale expiry is a violation.
Commands that overlap do not implement it, nor do crashes or refused Sets. A Get that
fails does, as all it does is make a usable token look absent, or a token that has run out
look usable (`GetsMayFail`).

### RunsSync and OutputDelivery

`RunsSync` is the handler from `getClient` to its answer (`handler.go:704-960`), and the
upload of `client.go`. Every access of a file (result.json, `Stat`, the checksum, the open
for the upload) may fail whatever the one before it did, as files may change or vanish in
between. `sent` and `queue` are `runInfo.Outputs` and `outputPaths`, `resp` the answer,
`cloud` what the server and its storage hold for each output.

| actions | code |
|---|---|
| `Authenticate` | `getClient` |
| `ReadResult`, `RefuseOutput`, `MeasureOutput`, `Collected` | result.json, the path check, the hash, the append to `outputPaths` |
| `SyncAnswered`, `SyncRateLimited`, `SyncGivesUp`, `SyncFails` | the loop around `SyncRuns` |
| `SkipOutput`, `OpenFails`, `Upload`, `UploadFails`, `Confirm`, `ConfirmFails` | one turn of the loop over `outputPaths`, with each of its `continue`s |
| `Answer`, `Crash` | the end |

An answer may lack a run, or the last outputs of a run: the code compares lengths before
it indexes, so it is ready for either. It may not reorder outputs. What is inside a file is
left out: the code sends the digest and size of result.json unchecked, beside a checksum of
its own (832-838), so that a file is what its description says is nothing the code
establishes, and no property claims it. Whether the bytes uploaded minutes later still have
the checksum is for the storage to compare; in the model it takes or refuses any upload.

`OutputDelivery` has one variable per output, its fate, and one flag. `Fate` in `RunsSync`
maps onto it: what is confirmed, failed, or was never asked for, computed from the answer
and the place in the queue.

### Endpoints, TokenSources, BrowserSignIn

A URL is a record of the parts the decisions read. `GetToken` and `Whoami` return the set
of outcomes of a command: who it acts as (a sign-in's person, the machine, nobody), and the
session it leaves.

`GetToken` makes several keychain accesses, between which other processes make theirs;
`StoredSession` has them one by one. Here a part of the keychain is the owner of its access
token and everyone whose tokens have ever been in it (`kept`), and a command may come to
act as any of these: it read the token before another took its place, or refreshes with a
token it read then or that stayed behind, or finds a token under a label that was not
written for it. So `FromKeychain`, `StoredToken` and `ClientToken` contain what overlapping
commands, failed Gets and refused Sets can lead to (SSRace's trace among them), and more.

`BrowserSignIn` starts a process per request, each in one of the `Environments`. `Command`
and `AuthWhoami` are one step, at their `SetToken` or their end, that stands for all their
accesses by what `kept` holds; `AuthLogin` and `LoginRefused` touch no keychain.
auth.complete goes step by step, as what it finds at the end depends on who stored what
since: `AuthComplete` (`openBrowserSession`), `Exchange` or `ExchangeFails`, `StoreRefresh`,
`StoreToken` (`StoreFails` when a Set that matters is refused), and `LookUp`, or
`LookUpUnread` when the Get of the token fails: `AuthWhoami` ignores that error and asks
with whatever `GetToken` gives (`handler.go:1387-1394`). `since` and `missed` record for the
properties whose tokens others stored after a sign-in's own, and whether that Get failed.
epack may hand any session over with any browser's answer, to any process. A verifier, state
and challenge of a sign-in are its name; the server takes a code once, with its own
verifier, at the endpoint it was issued at.

### ErrorMapping and AdapterProcess

A text is the set of protocol codes whose words occur in it, so `ErrorText` is what
`handleErrorResponse` and `doJSON` make of a reply, and `FirstCode` the order in which
`toRemoteError` searches. A code of the API's own that has none of these words ("unknown")
keeps the status from supplying one and comes out as server_error.

`AdapterProcess` reads `input`, a list of kinds of lines: those no handler sees, the two
rate-limited requests, and three groups of calls that differ in how they map their errors.
`ReadLine`, `SkipEmpty`, `StopAtLongLine` and `EndOfInput` are the scanner;
`AnswerBroken`, `AnswerInvalid`, `Admit`, `Refuse` and `Serve` are `processRequest` and
the first checks of the handlers; `Authenticated`, `NotAuthenticated`, `Called` and
`NoDownload` their one call. `Die` is a panic or a kill at any point.

### SigningKeys

The API's list is newest first and keeps revoked keys. `KeyList`, `NextPage` and `Finish`
are `ListSigningKeys`, whose bound (`LastPage`) is read again from every page. `paged`
says whether the API pages at all: when the answer has no page count the code stops after
the first. `KeyRegister`, `KeyRevoke`, `KeyRetire` and a person's `Approve` happen
between any two pages.

## 3. Runs

| run | question | bounds |
|---|---|---|
| FTConfirm | when can a nonce be accepted again, and what is confirmed when processes, retries and lost answers meet? `TypeOK`, `NoReplayBeforeExpiry`, `ThirdUseNeedsStall`, `ConfirmedFileDigest`, `ConfirmsAsPromised` | 2 processes, 1 token, 2 digests and the empty one, TTL 1, clock to 3 |
| FTKeys | which later process can verify a token? `PreparedTokenVerifies` | 2 processes, all four environments, Gets that fail, 3 created tokens, refreshes that keep the refresh token |
| FTReplayAtExpiry | violated: `SingleUseInProcess` | 1 process, 1 token |
| RRLoop | can the loop give up early, sleep too long, or not end? `TypeOK`, `WaitBudget`, `TimeoutMeansPatience`, `WaitWithinCap`, `EveryCallCounts` | the constants of the code: 30, 5, 1 s, 5 s, 2 s, 60 s |
| RRNilRelease | violated: `NoNilRelease` | the same |
| SSSerial | do commands that take turns keep sessions apart, and is each as good as one step? `TypeOK`, `ClientIsolation`, `EarlierSessionGone`, `EntriesAgree`, `NoExpiredReuse`, `CommandsTakeOneStep` | 1 process at a time, 2 clients, 6 tokens |
| SSFaults | does a client keep to its own tokens under all faults? `ClientIsolation` | 1 client, no refresh tokens, 5 tokens |
| SSRace | violated: `ClientIsolation` when commands overlap | 2 processes, 1 client, 3 tokens |
| RSSync | does every upload go where it belongs, is every output accounted for, does the request end? `TypeOK`, `AddressedToItself`, `ConfirmedIsUploaded`, `UploadsFollowAnswer`, `DeliversAsPromised`, `RequestEnds` | runs of 2 and 1 outputs, 5 retries |
| BSSignIn | who does a command act as, where is a session used, which code is spent? `TypeOK`, `MachineStaysMachine`, `SessionStaysWithSite`, `SignInNamesPerson`, `AdvertisedLoginWorks`, `NoCodeWasted` | 2 processes at a time, 2 sign-ins, 8 environments at 3 auth endpoints, one of which does not start, lifetime 1, clock to 1 |
| APLoop | does epack read one answer per line with the right code, and does the limiter refuse only what it must? `TypeOK`, `AnswersMatchLines`, `LimiterExact`, `StatusReaches`, `EveryLineServed` | 3 lines of 11 kinds, 14 replies, intervals 2 and 1, clock to 2 |
| SKList | is a listing complete and in order, and are its repeats accounted for, although keys come and change? `TypeOK`, `EveryKeyListed`, `NewestFirst`, `RepeatsExplained`, `ListingEnds` | 3 keys, 1 to a page |

Why the bounds are enough to be interesting. With TTL 1 and a clock to 3 a token is
issued, expires, has its nonce forgotten, is accepted at its expiry and remembered for a
further TTL, and that memory runs out too: every comparison in `consumeFinalizeNonce`
is met on both sides. Two processes are what it takes for a token to be signed in one and presented in
another, or presented in both; one token suffices for the confirmation properties, which
relate acceptances of the same token. Three created tokens allow a random key, or a sign-in, and a
refresh after it. RRLoop needs no scaling; its three Retry-After values stand for an
unusable header, a short wait and one above the cap. Six tokens are two clients'
fetches, two sign-ins and a refresh of each. A run with two outputs is what it takes for a
refused output to shift the place of the next, and a second run for an answer to lose the
first. Two sign-ins can be mixed up, and two processes can complete at once. Three lines
are one admission, one refusal and one admission again, within intervals of which
one spans two ticks. One key to a page makes every registration shift the list across
a page boundary; three keys are one more page than there was at the start, twice.
A bound only ever stops the creation of tokens, lines, keys or
time: everything in flight can still finish.

Fairness. The three liveness properties, `RequestEnds`, `EveryLineServed` and
`ListingEnds`, assume weak fairness of the process's own steps and nothing of the clock,
the server's choice of answer or other processes. The code justifies it: requests are
served by one goroutine that holds no lock while it waits, every call ends with the
HTTP client's timeout of 30 s, an error included, every wait is a timer of bounded length. That the
loop of push.finalize ends follows from safety alone: every iteration uses an attempt or
ends it (`EveryCallCounts`), the attempts are bounded (`TypeOK`), each sleep is
(`WaitWithinCap`).

Deadlock is checked in SKList only. The others may stop: a request that was answered, a
process that ended, or a bounded clock or supply of tokens has no next step.

`PROJECT.json` names for every property a plausible slip in the code (a comparison off
by one, a key derived in another order, a missing write) with which the run finds it
violated. The slips are the operators marked "A mistake" in the modules; no
specification uses them.

## 4. What the checks show

Holds:

* Before a token's expiry one process accepts it at most once; from that second on, a
  third acceptance takes a process that stalled for a whole TTL between two lines.
* As the server consumes an intent once, a download is confirmed at most once over all
  processes, by the call that consumed the intent, for the digest the server named; a lost
  answer never turns into a confirmation.
* A token signed by one process verifies in every other with the same environment: always
  if the environment has the credentials, and otherwise if both derived their keys from the
  same session, however often it was refreshed since, without a failed Get, and not from a
  refresh token that the server exchanges for others.
* One push.finalize sleeps at most 30 x 5 s + 5 x 60 s = 450 s, half of a token's
  lifetime; it reports a timeout only after at least 25 polls.
* When commands take turns and nothing fails, a client gets its own tokens only, a
  sign-in ends the earlier session for good, and the four entries belong together, for
  responses with and without `expires_in` and refresh tokens; each command is as good as
  one step on one token. With a single client and no refresh tokens the isolation survives
  crashes, refused writes and failed reads.
* In runs.sync, as long as the answer has the runs of the request at their places, every
  upload goes to the URL of its own output, whatever was refused or skipped before it.
  Whatever the answer looks like, no output is confirmed without an upload, none that was
  refused while collecting is stored, and every output the server asked for is delivered or
  among the failed ones when the request ends, which it does.
* An access token or an OIDC token in the environment, or `client_credentials_only` without
  a client, keeps a command from acting as a person. Client credentials do not when commands
  overlap, as SSRace shows; and auth.whoami is another exception, below.
* A person's session is used at the endpoint of its sign-in only; a code is never spent by
  the wrong or a late session; an advertised sign-in is not refused, but for a trailing
  slash. auth.complete names the person who signed in, nobody, or one whose token another
  process stored after it. Only if its Get of the token fails does it name the
  environment's machine, or somebody else with tokens in the same part of the keychain.
* Every line that is read and not empty gets one answer, under its own id unless it is no
  JSON; a process that ends with status 0 has answered all of them. Refusals and the other
  operation never postpone an admission by the limiter. For the requests whose errors
  `toRemoteError` maps, a 429 reaches epack as rate_limited, and the status supplies a
  missing code; runs.sync is not among them and answers server_error (`main.go:343`).
* key.list answers every key registered when it began, those in order, and ends although
  keys come while it runs. A key comes twice only if others were registered meanwhile, and
  then its later entry has not the older status.

Does not hold, although a comment or the documentation says so (the findings):

* FTReplayAtExpiry. A token is refused when `now > exp` (`handler.go:375`, `673`), its
  nonce forgotten when `exp <= now` (`252`): in the second `now = exp` one process
  accepts it twice. README.md:169 promises single use.
* RRNilRelease. A 429 within its budget on the last attempt leaves the loop without a
  release, and line 447 dereferences nil.
* SSRace. The client id and the token are read separately. A sign-in that completes in
  between hands the person's token to the client's command.

Further things the models make visible, for which no run is kept:

* Finalize tokens. Two processes accept the same token, as each remembers its own nonces.
  When the server rotates refresh tokens, the refresh inside a prepare replaces what the key
  was derived from, and no later process can verify the token; a failed Get while the key
  is derived (`handler.go:173-179` takes it for an absent entry) has the same effect, with no
  warning at the prepare. `PreparedTokenVerifies` makes room for both (`FromSession`). A
  Retry-After above 9223372036 overflows the duration and is slept not at all, which is
  why `WaitWithinCap` needs `HeadersFit`.
* Stored session. A sign-in that cannot replace the old refresh token warns and succeeds;
  once its own token has expired, the old refresh token renews the old session (SSSerial
  with `Faults = {"set"}` violates `EarlierSessionGone`). A crash, or the ignored failure
  of a write, between `SetToken` and `SetClientID` (`oauth.go:189-200`) leaves a token under
  another client's id. A refresh in flight during a sign-in stores its result over the new
  session. A response without `expires_in` leaves the expiry of the token before it, by
  which the new one is then judged.
* runs.sync. The handler collects failed outputs "to report back" (`handler.go:728`), and
  `main.go:346-353` leaves them out of the answer epack reads. A run missing from the
  answer shifts the ones after it: their outputs are skipped, or sent to another output's
  URL, and only the storage's comparison of the checksum could refuse them. A confirmation answered with 202, or whose
  answer is lost, counts as failed although the server has it. Failing to authenticate comes
  out as server_error.
* Sign-in. auth.whoami, and the lookup in auth.complete, use the stored token first, even
  when expired and in the mode that "refuses stored sessions" (README.md:159 against
  `handler.go:1387`). When that Get fails, its error is ignored, and with credentials in
  the environment auth.complete reports the machine for a person. Of two sign-ins that
  complete at once one may report the other's identity. An auth endpoint configured with a
  trailing slash is refused for sign-in, as `NewOAuth` cuts the slash off before the comparison. Endpoints that differ in their path
  only share a session.
* Errors. The words of an earlier code in a message win over the API's own code, and a
  body that is not JSON loses the code its status stands for.
* key.list. A key registered while the list is read may be missing, or come after older
  ones, and an older one may come twice: the answer as a whole is newest first only when
  nothing was registered meanwhile.

## 5. Proofs

Each modelled component has a module of proofs: `FinalizeTokens_proofs`,
`ReleaseRetry_proofs`, `RunsSync_proofs`, `AdapterProcess_proofs`, `SigningKeys_proofs`,
`StoredSession_proofs` and `BrowserSignIn_proofs`; `SessionCommands_proofs` has the
refinement of the stored session. They are for any sets of processes,
nonces and digests, any TTL, any budgets and headers, any runs with any outputs, any input
and intervals, any finite set of keys and length of page, any clients and number of tokens,
any sign-ins and environments. The assumptions are those the modules state about their
constants (`ConstantsAssumption`, `RetryAssumption`, `ShapeAssumption`,
`NothingAssumption`, `AdapterAssumption`, `KeysAssumption`, `SessionAssumption`,
`NoTokenAssumption`, `BuildAssumption`, `OwnersAssumption`, `SignInAssumption`): that a
number is a number, and that "nothing" is not a value.

| theorem | property | argument |
|---|---|---|
| `TypeCorrect` | `TypeOK` and `RequestOK` | `TypeInv`: a process inside a finalize holds a request for a token that was signed, so its payload is defined |
| `ReplayExcluded` | `NoReplayBeforeExpiry` | `ReplayInv`: a nonce accepted and not yet expired is in the process's memory with an expiry no earlier than the token's; acceptance numbers two and three push that expiry on |
| `ThirdUseBounded` | `ThirdUseNeedsStall` | the same invariant |
| `KeySettled` | `PreparedTokenVerifies`, whether refreshes rotate or not | `KeyInv`: until a sign-in or a client's token replaces it, the session keeps the entry that a key derived without a failed Get came from, unless that is a refresh token that rotates; a token carries its signer's key |
| `OneConfirmation`, `ConfirmationNamesFile` | `ConfirmedOnce` (no run has it: `ConfirmsAsPromised` implies it), `ConfirmedFileDigest` | `ConfirmInv`: a confirmed intent is consumed, so nothing confirms it again; a process past the digest check holds the token's digest |
| `ImplementsDownloads` | `ConfirmsAsPromised` | step simulation: a prepare of a pull is `Offer`, an answer is `Confirm`, `Waste` or a stutter, everything else a stutter |
| `RetryTypeCorrect` | `TypeOK` | `RetryInv` |
| `SleepBounded` | `WaitBudget` | `RetryInv`: attempts not spent on polls were 429s within their budget, and the time slept is at most the cap of each |
| `PatienceKept` | `TimeoutMeansPatience` | `RetryInv` |
| `WaitsCapped` | `WaitWithinCap`, if `HeadersFit` | durations that fit do not wrap |
| `IterationsCount`, `BackoffNeverShrinks` | `EveryCallCounts`, `BackoffMonotone` | each action in turn |
| `NilReleaseCause`, `NoRetriesNoNilRelease`, `OnlyRateLimitsPassTheLast` | where the finding of RRNilRelease comes from: 429s within their budget, and nothing else, lead past the last attempt | `RetryInv` |
| `RunsTypeCorrect`, `AnswerComesFirst` | `TypeOK`, `UploadsFollowAnswer` of `RunsSync` | `AnswerInv` |
| `UploadsFindTheirPlace` | `AddressedToItself` | `QueueInv`: every queue entry names the place where its output was described; `AnswerInv`: an answer has those outputs at those places of a run |
| `ConfirmedAfterUpload` | `ConfirmedIsUploaded` | `QueueInv`: the queue has described outputs only; `AnswerInv`: between an upload and its confirmation the place in the queue and the answer stay |
| `ImplementsDelivery` | `DeliversAsPromised` | `DeliveryInv`: what is behind the loop and did not fail is where it was asked for; then every step is `Decide` for one output (all those not asked for, when the answer comes), `Answer` or a stutter |
| `EveryStepCounts` | the safety half of `RequestEnds` | every step of the request lowers phases, runs, and what is left in the run, the attempts or the queue, in lexicographic order |
| `AdapterTypeCorrect`, `OneAnswerPerLine` | `TypeOK`, `AnswersMatchLines` of `AdapterProcess` | `LoopInv`: while a line is served it is the one read last, and the only one without its answer |
| `LimiterIsExact` | `LimiterExact` | `LimiterInv`: what the limiter remembers is the time of the last admission of that operation |
| `StatusAlwaysReaches` | `StatusReaches` | the mapping, reply by reply |
| `EveryStepServes` | the safety half of `EveryLineServed` | five for each line not read, and the stages left to the line in hand; only a written line adds to it |
| `KeysTypeCorrect`, `NoKeyMissed` | `TypeOK`, `EveryKeyListed` of `SigningKeys` | `StoreInv`: every registered key has one place; `ListInv`: the keys the listing began with that lie before the page it asks for are collected, and registrations push keys back only |
| `OrderKept`, `RepeatsAreExplained` | `NewestFirst`, `RepeatsExplained` | `ListInv`: a page repeats no more keys than registrations pushed onto it (`FewRepeats`); `StoreInv`: no key's status goes back, so an entry read later is not behind (`InOrder`) |
| `ListingComesToAnEnd` | the safety half of `ListingEnds` | the pages all keys can fill, less those read |
| `SessionTypeCorrect` | `TypeOK` of `StoredSession` | `TypeInv`: at each step a command has the token, owner and refresh token that step uses; with any overlap and any faults |
| `ClientsIsolated`, `EntriesBelongTogether` | `ClientIsolation`, `EntriesAgree`, if commands take turns and only Gets fail | `SerialInv`: one command runs at a time; the entries agree whenever it has not begun to write, and in the middle of its writes it has written so much and no more |
| `ExpiredNeverReused` | `NoExpiredReuse`, if moreover nothing fails | the same: a token with a lifetime has its own expiry beside it |
| `EarlierSessionsGone` | `EarlierSessionGone`, if commands take turns and Sets are not refused or there are no refresh tokens | `SessionInv`: no entry and no command has anything of a session before the last sign-in; crashes and failed Gets included |
| `LoneClientIsolated`, `LoneEntriesAgree` | `ClientIsolation`, `EntriesAgree`, if commands take turns, there is one client and no refresh token; any faults | `LoneInv`: at every single write a label names the owner of the token, or there is none |
| `ImplementsCommands` | `CommandsTakeOneStep`, if commands take turns and only Gets fail | `ReasonInv` beside `SerialInv`: a command asks the server only for a token that is in doubt or another's, and a client's token is never without its label; then every step is one of `SessionCommands` or a stutter |
| `SignInTypeCorrect`, `CodesNotWasted` | `TypeOK`, `NoCodeWasted` of `BrowserSignIn` | `SignInInv`: a process about to exchange a code opened the session of that code in time |
| `SessionsStayWithSites`, `MachinesStayMachines` | `SessionStaysWithSite`, `MachineStaysMachine` | `SignInInv`: a person's session lies in the part of the keychain of their endpoint; a token source gives someone whose tokens have been in that part, or a machine; `MachineBound`: the sources of the environment give the machine or nobody |
| `SignInsNameTheirPerson` | `SignInNamesPerson` | `SignInInv`: from its `SetToken` on, the access token stored is the sign-in's own or of one in `since`; `NamesRight`: what a lookup can then come to, with and without a failed Get |
| `AdvertisedLoginsWork` | `AdvertisedLoginWorks` | what resolves and loses no slash is allowed |

None of the properties is inductive by itself: that a nonce is not accepted twice says
nothing about what the process remembers, and that a sleep total is within its budget
nothing about how many attempts are left. The invariants add that. `KeySettled`,
`WaitsCapped` and those about the stored session state their conditions because the code
fails without them: a failed Get or a refresh that rotates, the overflow, and, for the stored session,
commands that overlap (SSRace). Which faults each of the latter bears was found with TLC:
a failed Get of the expiry hands out a token that has run out, so `ExpiredNeverReused`
bears none; a crash or a refused Set between a token and its label hands it to another
client, so `ClientsIsolated` bears failed Gets only and `LoneClientIsolated` has one
client; a refresh token that a sign-in could not replace renews the earlier session, so
`EarlierSessionsGone` bears refused Sets only where there are no refresh tokens.

Only model-checked: the three liveness properties. Liveness under fairness and `ENABLED`
are out of reach of the prover; what is proved is that every step of the process in
question lowers a measure in the natural numbers, which is all of the argument but the
fairness. The properties of the runs that find a violation are not theorems; what is proved
beside them is the conditions under which they hold. Out of reach also: what a recursive
definition computes for all inputs (induction needs theorems with operator parameters);
modules with RECURSIVE operators. None of the modules proved about uses recursion.

## 6. Not modelled, and the plan

What a next step would prove: that the outcomes `TokenSources` gives a command contain
those of `StoredSession`'s single accesses, mapped by owner, which so far is argued in its
comments; and the liveness properties once the prover has fairness.

Left out, and why:

* lock.report, run.progress, credentials.resolve and config.pull are single calls without
  state. Their control (refuse, authenticate, call, map the error) is `AdapterProcess`'s
  group `"call"`; how they copy fields from one record to another is not modelled.
* Of the API client, headers, machine names, user agents and JSON shapes.
* Of capabilities and version, everything but whether sign-in is advertised: constants.
* The audit and policy wrappers: they pass arguments to a library.
* The test doubles, which no build contains.
* A malformed session or redirect address in a sign-in, refused before anything happens;
  an error of writing to stdout, which the code prints and ignores.
* A wall clock that goes back: the memory of nonces cannot survive it by design.

# Formal models of the central auth server

TLA+ models of `wpa_auth_api`, the TypeScript server (Express, Prisma on PostgreSQL, Redis) that
signs users in for a family of applications, keeps their sessions, sends their messages and
deletes their accounts. `PROJECT.json` lists the components, the TLC runs, the mutants, the map
from definitions to source lines, the hazards and the theorems.

## The system

One HTTP process, or several, serves all endpoints; three worker processes (communication,
deletion, presence) run next to it. They share PostgreSQL and Redis and nothing else. What makes
the code hard is that almost every handler reads a row, awaits, decides, awaits and writes: between
any two awaits another handler, another instance or a worker may run. A `prisma.$transaction` is
atomic and so is one statement; a handler is not. Redis sequences are atomic only where `MULTI` or a
single command makes them so.

| component | state | operations | correct when |
|---|---|---|---|
| sessions and refresh tokens (`auth.service`, `oauth.service`, `otp.service`, `admin.service`) | `LoginSession`, `RefreshToken` rows linked by `familyId` | login, code exchange, refresh at `/auth` and at `/oauth`, reuse detection, logout, revocations, account events | a revoked session or token stays revoked and yields nothing; a replay ends its family |
| deletion requests (`deletion.service`, `deletion.worker`) | `DeletionRequest` rows, the accounts | create (account, public form, Meta callback), cancel, approve, reject, retry, process | nothing deleted before its grace period, every due request ends, a completed one has been carried out, a closed one stays closed |
| social sign-in (`social.service`, `social.routes`, `mobileAuthCode.service`) | transactions in Redis, `MobileAuthorizationCode` rows | start, callback, mobile exchange | one sign-in gives one session |
| consent and authorization codes (`oauth.service`) | consent tickets in Redis, `AuthorizationCode` rows | authorize, decide, exchange | tickets and codes are used once |
| communication queue (`communicationQueue`, `communication.worker`) | four Redis lists and sets, deduplication keys, job states | enqueue, reserve, acknowledge, retry, dead letter, promote, recover | each job is in one place, ends, and is not sent twice |
| delivery log and retries (`communication.service`) | `CommunicationDeliveryLog` rows | dispatch, delivery, claim of due retries, manual retry, cancellation | two processes never send one row at once or one after the other, unless an error struck after it was accepted, what was sent or cancelled stays so, retries end |
| provider routing and health (`communication.service`) | providers, credentials, routing rules | resolve a rule, rank candidates, attempt, judge, test, administration | the most specific rule decides, deleted providers are not asked, a provider goes down for its failures, a replaced credential leaves no gap |
| external events (`events.service`) | idempotency rows | receive, process | a channel gets one message of an event, a row at work is attended |
| one-time login codes (`otp.service`) | a Redis record per recipient | request, verify | bounded attempts, one use |
| identifier changes (`auth.service`) | verification and reset tokens, the user row | request, confirm | a token takes effect once, a verified address was proved |
| identities (`identityLogin.service`, `social.service`) | `OAuthAccount` rows | sign in, match by e-mail, link, unlink, deauthorize | an identity keeps its owner, an account keeps a way to sign in |
| social providers (`admin.service`, `providerTestState`) | `SocialIdentityProviderConfig` rows, test states in Redis | configure, test, switch | a provider that is on passed its own test |
| administration (`admin.service`) | users, roles, permissions, invitations | create, assign, remove, suspend, invite, accept | a super administrator remains, an invitation ends once |
| presence (`presence`, `presence.worker`) | Redis keys and a dirty set | heartbeat, flush | the last heartbeat reaches the database |
| limits (`rateLimit`, `antiAbuse`) | Redis counters, risk scores, blocks | count, block, clear | windows end, limits are not exceeded |
| keys (`signingKeys`, `keyRotation.service`) | key rows | select, publish, re-encrypt | a token's key is published while it lives |

They interact through rows. An account event (suspension, deletion, password reset) in one module
changes what a session may do in another; a deletion revokes sessions and deletes codes; every
module enqueues messages. Where the code composes components over the same rows, so do the models:
`Accounts` puts codes, identities, providers and administration on one table of users, and
`ExternalEvents` runs behind the counters of `AbuseLimits`. The other modules meet by name:
`RevokeAndAnonymizeAccount` and `EraseAccount` of `SessionTokens`, `DeleteCodesOf` of
`SignInTickets` and `EraseAccount` of `Accounts` are parts of the function that `RunProcessing` of
`DeletionRequests` calls; a set of waiting messages in `Deliveries` stands for `CommunicationQueue`,
and the number of its candidates for `ProviderRouting`.

## Modules

All models have the same shape. A handler in flight is a slot; its `at` field names the next
await, its other fields are the local variables it will still use. One action is what runs between
two awaits: the read or write, the conditions after it, the choice of the next await. A handler
with one write after its guards is a single action. A handler that rejects its caller without
writing is a stuttering step and has no action.

### `SessionTokens`

`session` and `token` are the two tables, `account` the status that `canAuthenticateAccount`
tests, `req` the handlers in flight. `LoginUser`, `CreateSession` and `CreateFirstToken` are
`loginUser` (and the one-time-code and identity logins, which make the same two inserts);
`RefreshTokens` up to `RefreshRotate` are `refreshTokens`; `ExchangeRefreshToken` and the `OAuth...`
actions are `exchangeRefreshToken`; `MarkReused`, `RevokeFamilyTokens` and `RevokeFamilySession` are
reuse detection and `revokeSessionFamily`. `doomed` is a history variable: the handlers that started
after the session of their token was revoked. Crashes drop a handler between two awaits.

Not modelled: credentials, scopes, audiences, expiry (an expired token is rejected like a revoked
one that was not rotated), audit rows, notifications, anti-abuse.

### `DeletionRequests`

`request` is the table, with the deadline reduced to none, running or over; `handler` holds the
HTTP handlers and the worker; `batch` is the rest of the worker's scan; `erased` and `disconnected`
are what processing does. Reviewing operations are two actions, the check (`ApproveDeletionRequest`)
and the unconditional write (`CommitApprove`). Processing is eight: read, claim, start, run (the
transaction that deletes identities), erase (the update that anonymises an account), complete,
event, fail. A scan lists at most `BatchSize` requests; which of the due ones is left open, where the
code takes those due for longest. `Faults` lets a database call throw, `Crashes` lets a process die.

### `SingleUse` and `SignInTickets`

`SingleUse` is the abstract promise: a ticket is absent, open or spent, is spent by one use and
never opens again. `SignInTickets` has the four tickets of a sign-in, each with the way its code
consumes it: `GETDEL` (transactions), `GET` then `DEL` (consent tickets), a conditional update
(mobile codes), a check and an unconditional update (authorization codes). It is related to
`SingleUse` by one refinement mapping per kind of ticket. `grants` is a history variable.

### `CommunicationQueue`

`queue`, `processing`, `delayed` and `dlq` are the Redis lists and sets, `dedupe`, `record` and
`stale` the keys; `worker[w].at` names the next Redis command. A list entry is a job with its
failed attempts, the parts of the stored text that change. `scheduledFor`, which is in the stored
text of a delayed entry too, is left out: with one worker a job has one entry, so nothing collapses;
with two, copies of a job delayed after as many attempts are one entry of the model and two of
Redis. Every command is an action; the `MULTI` of a promotion is one, of at most `BatchSize` due
entries. `Faults` lets commands throw where the code catches the error,
`KeysExpire` lets keys and states end their 24 hours.

### `Deliveries`

`message` is what has become of each message, `log` the delivery rows, `process` what workers and
HTTP handlers are doing, `scan` the due rows of a worker's last listing. A request dispatches
(`DispatchEmail`, `DispatchSms`), a worker takes a message and offers it to one candidate after another, and one
settling write ends the row; `ProcessDueRetries`, the claim and the retry are the worker's scan, and
the same retry with mode `manual` is the administrator's, who reads the row before claiming it. The
retry policy is the function `ResolveRetryPolicy` over the code's two tables.

Workers die (`MaxCrashes`) and calls throw (`MaxFaults`) at every await: a read, a provider, a write
that does nothing (`Throw`), the audit row after a write that was made (`AuditThrows`), the claim of
the scan or the update in its catch (`ScanThrows`). A first delivery then fails as a job, an
administrator's retry is gone, and the catch of `processDueRetries` gives a row back that is still
RETRYING (`ReleaseAfterError`). That catch does not know whether the provider had accepted
(`updateProviderHealth` and the update to SENT come after it), nor does it look at `lockedBy`. The
history variable `late` counts such errors per row, `accepted` the retries a provider accepted; the
properties allow one more sending, and one more holder, for each late error and for nothing else.
The comment of `processDueRetries` (communication.service.ts:1894-1896) says that two worker
instances can never send the same row twice; after a late error they can.

### `AbuseLimits` and `ExternalEvents`

`counter` and `block` are the Redis keys; a request goes through the windows of its guard command by
command, so `INCR` and `EXPIRE` are two steps, a command may throw (each guard does then what its
code does: `rateLimit` and the event limits refuse, a block that could not be read is taken for
none by the enterprise limits, which go on to count, and the enterprise and communication limits let
the request pass, `FailsOpen`) and a request may die between them. `ExternalEvents` extends it: a
request that its guard let pass looks for the idempotency row, creates it, dispatches to each channel
and saves the outcome. `admitted` and `sends` are history: `admitted` counts, where the guard lets a
request through (`Admit`), the windows it passed: those that counted it and are still open (`counted`), or, when a
command threw, all windows of its guard. Without Redis, or for local addresses in development, the
code lets everything pass; that is a matter of configuration and not in the model.

### `ProviderRouting`

`provider`, `credential` and `rule` are the tables. `ResolveMostSpecificRule` is the code's search
through four tiers, compared by `MostSpecificRuleDecides` with what the tiers are for;
`Candidates` and `Ranked` choose and order the providers. A delivery is an attempt per candidate with the health write after each,
two statements for a failure (count, then judge). Administrators run next to it: transactions of
several reads and one commit, patches, deletions, tests.

### `Accounts` and its parts

`AccountRows` has the user rows, the slots of the requests and the history shared by the others.
`VerificationCodes` adds the tokens and one-time codes, `SocialProviders` the provider rows and
their tests, `LinkedIdentities` (on top of it) the identities, `AdminAccess` roles, permissions and
invitations. `Accounts` composes them, adds the erasure of an account and the death of a request, and has the specification. Each part defines its
next-state relation and the properties about its own tables. What two requests do to each other is
recorded in history (`shared`, `stale`, `stripped`, `revived`, `overwritten`, `slack`), so that a
property can say exactly which overlap it excepts: the exceptions are what the code lets happen.

### MC modules and proof modules

A module `MC<name>` adds the model values, the symmetry sets and the initial tables of an instance;
the configurations of `CommunicationQueue` need none and name the module itself. A module
`<name>_proofs` holds the theorems about `<name>`. Definitions whose comment begins with "Variant"
are mutated forms used to test the properties; no specification contains them.

## Runs

Run them with `tlc -config <cfg> <module>`.

| run | configuration | shows |
|---|---|---|
| `session_serial` | `MCSessionTokens_serial` | requests do not overlap: rotation keeps a successor in its family and a family holds tokens of one account (`FamiliesAreClosed`); one live token in a family (`OneLiveTokenPerFamily`); a replay leaves none (`ReplayEndsFamily`) |
| `session_concurrent` | `MCSessionTokens_concurrent` | two handlers, crashes: a refresh that started after the revocation of its session never issues a token (`RevokedSessionMintsNothing`); nothing revoked becomes live, no replay is forgotten (`RevocationIsFinal`) |
| `deletion_serial` | `MCDeletionRequests_serial` | handlers do not overlap, with faults and crashes: `ClosedStaysClosed`, `AccountsWaitTheirGrace` |
| `deletion_live` | `MCDeletionRequests_live` | two handlers and the worker: a request is completed only if its identities are deleted and, for an account, its row is erased (`CompletedMeansDeleted`); a due request is processed (`DueRequestsAreProcessed`) |
| `tickets_concurrent` | `MCSignInTickets_concurrent` | two handlers, crashes: a code of either table is used again only by exchanges that were in flight together (`CodeUsesOverlap`); a social sign-in hands out one session (`OneSessionPerSocialSignIn`); mobile codes and transactions implement `SingleUse` (`MobileCodesAreSingleUse`, `TransactionsAreSingleUse`) |
| `queue_steady` | `CommunicationQueue_steady` | one worker that does not fail, keys that expire: `SentOnceOrDead`, `DedupedMeansInFlight`, and every accepted job is sent or dead in the end (`AcceptedJobsEnd`) |
| `queue_crashes` | `CommunicationQueue_crashes` | one worker that dies once, commands that throw: a job has one entry (`OneCopyOfAJob`); a dead worker's entry is recovered (`StalledJobsAreRecovered`) |
| `queue_workers` | `CommunicationQueue_workers` | two workers, commands that throw, keys that expire: a job is a dead letter only after all its attempts (`DeadLettersWereTried`) |
| `deliveries` | `MCDeliveries_rows` | two workers that keep running though one of them dies, an administrator, a call that throws anywhere: a row is claimed by one process (`ClaimsExclude`) and a retry of it is accepted once (`RowsAreResentOnce`), and once more for each late error; what was sent or cancelled stays so (`ClosedRowsStayClosed`); scheduled retries end, unless the claim was abandoned (`ScheduledRetriesEnd`) |
| `limits` | `MCExternalEvents_limits` | overlapping requests, commands that throw, requests that die: no window lets more through than its limit and one for each command that threw (`LimitsHold`); a counter has a TTL unless somebody is about to set it or something failed (`OpenWindowsEnd`); a channel gets an event once (`EventsRunOnce`); a row at work has a request working on it (`EventsAreAttended`) |
| `routing` | `MCProviderRouting_routing` | deliveries and administrators overlap: `MostSpecificRuleDecides`, `DeletedProvidersAreNotAsked`, `DownMeansFailures`, `CredentialsAreReplacedAtOnce` |
| `accounts` | `MCAccounts_accounts` | two requests about one account overlap, one dies: a verified address was proved (`VerifiedMeansProved`); a code takes effect once (`CodesAreUsedOnce`); an identity linked unasked belongs to who proved the address (`AutoLinkedMeansProved`), keeps its owner, and an account keeps a way to sign in (`IdentitiesStay`); an erased account stays empty (`ErasedStaysErased`); a provider that is on passed its own test (`ProvidersPassTheirOwnTest`) and was switched on last (`SwitchedOffStaysOff`); a super administrator remains (`SuperAdminsStay`); an invitation ends once (`InvitationsEndOnce`); each but for the overlaps it names |

### Bounds

Identifiers are the bound everywhere: a row or a job once used is not used again, so each run is
finite. Two handlers reach every race the code has, for each is a check of one handler made stale by
a write of another; where a third must look at the result (the replay), a handler may end and start
again.

- Sessions: two accounts and two sessions from different addresses in the serial run, one session
  in the other; three tokens make a chain of two rotations, hence a replay of the first while the
  third lives; one token of the serial run predates families. `SpareTokens` keeps a handler from
  starting when it could run out of identifiers halfway.
- Queue: two attempts are the smallest number for which a job is both delayed and given up.
  `MaxCrashes` bounds crashes, `MaxTries` ends the spontaneous ageing of job states, without which
  two workers could recover each other's jobs for ever; the run with two workers has one job, whose
  copies are what the workers race for.
- Deliveries: one message of two kinds (one that must not be resent, one that may), one row, for
  rows do not influence each other (a second row multiplies the states and adds no race), two
  workers and an administrator who want it, two attempts and two retries, one candidate, one manual
  retry, one fault and one crash.
- Batches hold one request, entry or row (the code: 20, 50 and 20), so that the limit bites wherever
  there are two. The liveness run of the deletions has one request: the model does not keep the
  order of the deadlines, which is what brings the code to each of many.
- Limits: the guards with one window, two windows, a block on refusal and an event behind them;
  limits of 1, so that a second request exceeds them; three requests, two of them at once, and two
  troubles. `middleware` and `send` are guards of the module too; they share their windows' actions.
- Routing: two providers, credentials and rules, two handlers, two scopes; a behaviour begins with
  providers set up and at most one rule, has two changes and two failures, and a provider goes down
  at three failures by the code's count of one ahead.
- Accounts: three users (one with a password and a verified address, one with two identities, a free
  row), two handlers, four requests, one crash, two tokens, one invitation, three provider rows,
  three roles. `Duties` names the pairs of operations a behaviour mixes; each pair has rows in
  common. A race of three different operations is out of the run's reach.

Symmetry is used in safety runs only (and never with a temporal property other than an action
property), over identifiers the model compares and never orders.

`CHECK_DEADLOCK FALSE` stands where identifiers, changes or requests may be used up and nothing is
left to do: the runs of `DeletionRequests`, `SignInTickets`, `Deliveries`, `ExternalEvents`,
`ProviderRouting` and `Accounts`.

### Fairness

`FairSpec` of `DeletionRequests`: a handler is resumed when its await settles (weak fairness of
`Continue(p)`), the worker loops (`while (running)` with a sleep) and time passes, so a grace period
ends. It does not say that any request arrives. `FairSpec` of `CommunicationQueue`: the worker's
loop, whose blocking read has a timeout, always goes on; a request that has set its key goes on to
push; delays elapse and states age. `FairSpec` of `Deliveries`: awaits settle, the worker scans and
takes waiting messages, a retry becomes due. No action that depends on a user, an administrator, a
provider's answer, a fault or a crash is fair.

## Proofs

`tlapm` checks every theorem below for all values of the constants that the modules' assumptions
allow. Each rests on an invariant that is stronger than the property, with one step of the proof per
action.

`SessionTokens_proofs`: `IInv` is type correctness, that unused rows are blank, that a handler past
its first insert holds the rows it inserted (`HandlersHoldTheirRows`), `FamiliesAreClosed`, and that
a doomed handler still sees a revoked session (`DoomedHandlersSeeIt`). `FamiliesAreClosed` alone is
not inductive: `RefreshRotate` writes rows its handler read three awaits ago, so the proof needs
what the slot remembers to be true of the table. `TypeCorrect`, `FamiliesStayClosed`,
`NoMintAfterRevocation` follow, and `RevocationStaysFinal` is an action property proved from the
same invariant. `FamiliesHaveOneLiveToken` and `ReplayedFamiliesStayEnded` assume one request at a
time and no crash (`OneHandlerAtATime`, as in the serial run): two refreshes of one token, or one
that dies between its insert and its revocation, leave two live tokens. `SerialInv` says what the
request in flight owes: two live tokens of a family are the one it rotates and the one it made, a
replayed family has a live token only while its revocation is on its way, and a rotation began on
the only live token of its family.

`SignInTickets_proofs`: what is proved of codes rests on `OneReleasePending` (between the update that
consumes a code and the release of its session, one handler holds it and nothing was released),
what is proved of transactions on `OneCreationPending` and `OneCodePerTransaction` (a consumed
transaction has one handler about to create its code, or one code); `HandlersKnowTheirCode` and
`OriginsAreKnown` say that what a slot remembers is true of the tables. From them follow
`OneSession` and two refinements: `MobileCodesImplementSingleUse`,
`TransactionsImplementSingleUse`. `CodeUsesAlwaysOverlap` has an invariant of its own: the uses of a
code and the handlers about to use it are together no more than the handlers (`UsesFit`), and a code
that was used is marked (`UsesFollowMarks`). It is assumed there that the handlers are finitely many.

`CommunicationQueue_proofs`: `TriesCoverAttempts` says of each copy of an entry, in a list, in a
worker's listing or in its hands, that its job was tried at least as often as the entry has failed
attempts. It is inductive with the types, whatever is duplicated, lost or recovered, and
`DeadLettersAreExhausted` (`DeadLettersWereTried`) follows for any number of workers. The other
three theorems are about the only worker (`Workers = {w}`), for with two each may recover what the
other is sending. `JobsHaveOneCopy` lets it die and its commands throw: by `SoleInv` every job is in
one place (the queue, the processing list, the delayed entries, the dead letters, or a command between
two of them), what the worker has listed or reserved is still there (`HandInv`), and nobody has
touched a job that was not pushed.
`JobsAreSentOnceOrDead` and `DedupedJobsAreInFlight` assume besides that nothing fails (`NoFaults`:
a worker that dies after it sent sends again, and a key outlives a job lost on its way): by
`SteadyInv` the processing list has nothing but the worker's own reservation, and a job that was
sent is nowhere else; by `KeysInv` a key has a job that is on its way.

`ExternalEvents_proofs`: a request takes its place in a window when it is counted, long before its
guard decides, and other requests, an end of the window or another counter of the guard may come in
between. `WindowsCount` says of those let through and those whose guard has yet to decide (`Load`)
that they are together no more than the window counted, nor than its limit, but for one for each
command that threw; `LimitsAlwaysHold` follows. One request at most is about to send an event, and only under a row that
says so (`OneSender`), from which `EventsAlwaysRunOnce` and `EventsAreAlwaysAttended`.
`OpenWindowsAlwaysEnd` needs the guards to count in the order of the code (`GuardsCountInOrder`, in
`ExpiryInv`), so that what a request owes an end (`Owed`) is what it raised and nothing else: a step
leaves no counter open but one that its request owes its end.

`Deliveries_proofs`: `ClaimInv` keeps a balance for each row (`Balanced`): the times it was accepted,
those who may still have it sent, and one if it is open for a claim, are together one more than its
late errors at most. A claim follows a listing or a read that may be old, so exclusion cannot rest on
what was read: a claim turns the open row into a sender by the status in its own condition, a write
ends a sender, and only a late error pays for a row that is open again. `ClaimsAlwaysExclude`,
`RowsAreAlwaysResentOnce` and `ClosedRowsAlwaysStayClosed` follow.

`DeletionRequests_proofs`: `IInv` adds to the types what each handler remembers of its row
(`HandlersAreSound`: past the deletion, what the request asks for has been carried out) and that a
batch holds open requests; `CompletedAlwaysMeansDeleted` follows for handlers that overlap.
`ClosedAlwaysStaysClosed` and `AccountsAlwaysWaitTheirGrace` assume that no two handlers overlap
(`Handlers \subseteq {Worker}`), as the runs do: with two handlers both are false. `SerialInv` adds
that what the slot checked is still so (`StatusIsKnown`).

`ProviderRouting_proofs`: `MostSpecificRuleAlwaysDecides` needs the tiers to cover the rules that
apply and to be ranked as the property ranks rules (`TiersAreCovering`, `TiersAreRanked`), and that
a nonempty set of numbers has a least one. `CredentialsAreAlwaysReplacedAtOnce` rests on
`CredentialInv`: what a transaction found active when it deactivated is what its commit replaces.
`DownAlwaysMeansFailures` and `DeletedProvidersAreNeverAsked` rest on `RoutingInv`: a request has a
sequence of providers that are there and were not deleted when it read the table, a failure count
never falls, and whoever is about to judge a provider has seen no more failures than it has.

`Accounts_proofs`: the composition, for any number of users, rows and requests. The steps of each
part are shown to leave the requests of the others where they are (`Elsewhere`, `Moves`, `Keep`: a
request waits at places of its own part before and after), so that each table needs an invariant
about itself and its own requests:

- `ProviderInv`: a row that is on passed a test and is wanted on, a begun test was asked for by its
  row, and what a request between its read and its write remembers may still be written (`Knows`); a
  row's identifier is not used again, so a deleted row is not taken for the one that follows it.
  `ProvidersAlwaysPassTheirOwnTest` and `SwitchedOffAlwaysStaysOff` follow.
- `InvitationInv`: a request that has an invitation found it pending, and unless it is shared it is
  the only one and nothing has ended it; hence `InvitationsAlwaysEndOnce`.
- `SoundInv`: the rows are well-formed, tokens, records of codes, identities and invitations belong
  to users and addresses that are there, and a request has at each place what it works on there
  (`Holds`): a token that is its user's and was sent to its address, and, before an identity is
  linked unasked, an address that was proved (`Vouched`). `VerifiedAlwaysMeansProved` and
  `AutoLinkedAlwaysMeansProved` are parts of it; what is proved below uses it.
- `SuperInv`: while none of the excepted steps was taken (`slack`), a request that is to take the
  role from a user leaves another super administrator, one such request is in flight at a time, and
  the role has its permissions; hence `SuperAdminsAlwaysStay`.
- `UnlinkInv`: a request that counted the methods of an account and is to delete one leaves another,
  and two of one account are not both on their way unless the account is `stripped`; hence
  `IdentitiesAlwaysStay`, an action property.
- `ErasedInv`: an erased account is out of reach (`Faded`). Nothing is left in its row, no identity
  is its own, its links are closed, and no request that could write to it is in flight; none can
  come in, because a request finds an account by what it can sign in with (`Reachable`). Hence
  `ErasedAlwaysStaysErased`.
- `CodesInv`: of a token that no two requests had at one time, the one that has it knows that it has
  not taken effect (`KnowsUnused`), it took effect only if it is marked or about to be, and a login
  code only if its record is gone; the wrong guesses at a telephone code that were counted and those
  in flight are together fewer than those allowed and the requests. Hence `CodesAreAlwaysUsedOnce`.

`StartAssumption` says of the rows a behaviour begins with what the seed and the code establish:
none is on that was not tested, identities belong to rows that are there, and the seeded role has a
super administrator.

Assumed: the assumption each module names (identifiers of different kinds are distinct, flags are
Booleans, bounds are numbers; users, requests, identities, permissions, providers, handlers and workers are
finitely many, because the models count or sort them; a provider can be written with some content),
what is said above, and nothing else.

Only model-checked: liveness (`DueRequestsAreProcessed`, `AcceptedJobsEnd`,
`StalledJobsAreRecovered`, `ScheduledRetriesEnd`), which is out of the prover's reach. Every other
property of a run is a theorem; where a run bounds the interleaving (one worker, one handler), so
does its theorem.

## Where the code does less than it says

Met while modelling; the models do what the code does, and the properties except exactly these
cases. Paths are those of `src/`, line numbers those of the code.

Statements of the documents, comments and tests that the code does not keep:

- Sessions. `docs/security.md:18` has a family invalidated instantly: a rotation
  (`auth.service.ts:836`) that read its token before the reuse detection adds a live one afterwards.
  `docs/oauth-flow.md:290` has the old token revoked atomically: `exchangeRefreshToken`
  (`oauth.service.ts:594`) lets two refreshes of one token both rotate it. A password reset
  announces that all sessions have been revoked (`auth.service.ts:1679`) and ends only the refresh
  tokens. `docs/github-pr-central-auth-phase-3-hardening.md:28` has reuse escalate to the session
  family: the OAuth endpoint leaves the login session (`oauth.service.ts:538`). Revoking one token
  leaves its family live.
- Codes. `docs/oauth-flow.md:287` has authorization codes single-use: two exchanges both find the
  code unused (`oauth.service.ts:450`). Two decisions both read a consent ticket that
  `oauth.service.ts:277` calls one-time.
- Deletion. A comment (`deletion.service.ts:1129`) has a failing request marked FAILED: an error
  between the claim (`:1049`) and the `try` leaves `PROCESSING` for ever. A test
  (`facebookMeta.unit.test.ts:370`) has an unknown Facebook user handled safely: the duplicate
  search (`deletion.service.ts:411`, `:164`) then has no person to filter by and finds somebody
  else's request.
- Queue. A worker that dies between `LREM` and the next push (`communicationQueue.ts:177`) loses a
  job that the lists of `docs/phase-3-3-queue-worker-communication.md:25` are said to preserve.
- Deliveries. A comment (`communication.service.ts:1894-1896`) has the claim of the scan rule out
  that a row is sent twice: an error after the provider accepted, in the health counters (`:1821`) or
  the update to SENT (`:1835`), lets the catch (`:1922`) schedule the row again. The catch looks at
  the status and not at `lockedBy`, so it may also give away what another process has claimed since.
  `isRetryable` never changes, says the schema (`schema.prisma:796-799`);
  `blockExistingRetryLog` sets it to false.
- Routing. With `fallbackEnabled` false only the explicit chain is tried (`schema.prisma:739-742`);
  an empty chain falls back to the whole pool.
- Accounts. A profile update never replaces a verified identifier (`auth.service.ts:1084-1089`): one
  that overlaps a confirmation does. Unlinking never leaves an account without a way to sign in
  (`identityLogin.service.ts:274-277`): two that overlap do. The guard of the last super
  administrator is authoritative (`admin.routes.ts:189-191`): it counts before the write, counts
  holders whose accounts are suspended or deleted (`admin.service.ts:1185`), is void once the role
  has another name, and is not asked by an erasure or a self-deactivation.

Other behaviour a reader may not expect:

- Deliveries: a manual retry reads its row before it claims it and writes the retry count it read;
  one that throws or dies leaves `RETRYING` behind, which nothing takes back; a delivery that failed
  is retried both as a queue job and as a log row; a claimant's write overwrites `BLOCKED`; the
  queue's payload drops environment, sender and reply address; `communication_retry` jobs are
  handled and never enqueued.
- Events: a `FAILED` or abandoned event answers its duplicates with ALREADY_ACCEPTED and is never
  taken up again.
- Limits: `rateLimit` fails closed, the others open; an `INCR` whose `EXPIRE` failed leaves a counter
  without end, except behind the enterprise limits, which look at the TTL; `blockScope` is ignored.
- Routing: failures are counted one ahead and never reset; two judgements that overlap can put
  DEGRADED over DOWN; credentials stored at the same time, or for a provider other than the one they
  were found under, leave two active ones or none; a PATCH merges into what it read earlier; the
  explicit chain ignores status and health; deleting a provider looks for it in rules but not in
  their fallbacks; a deleted provider may still be tested.
- Addresses: `updateMyAccount` (`admin.service.ts:1613`) changes a telephone number and keeps its
  mark; `oidcLoginOrCreate` marks an address verified where there is none; a confirmation sets the
  account ACTIVE whatever its status, hence may revive one that was erased meanwhile; codes for
  telephone numbers survive an erasure; a wrong guess writes back a login code that was used or
  replaced meanwhile.
- Identities: administrators, `disconnectProviderData` and deauthorization take identities without a
  guard; a link begun before an erasure is completed by its callback; a social sign-in that dies
  half-way, or loses the race for the unique identity, leaves an account without one.
- Administration: assigning to an existing user deletes roles before it grants the new one; an empty
  `permissionIds` empties the super administrators' role; accepting overwrites REVOKED, and a failure
  half-way leaves PENDING next to the new account.
- Social providers: new credentials keep the time of the last successful test; an update can make an
  active provider incomplete, and one that overlaps a switch turns a disabled provider on again; two
  callbacks may share one test. `upsertProviderConfig`, `setProviderStatus` and `deleteProvider` of
  `social.service` are not called.
- Keys: the re-encryption (`keyRotation.service.ts:55`) overwrites secrets stored since it read them.

## What is not modelled

- Presence: heartbeats and the flush of last-seen times are advisory. No decision reads them and the
  next heartbeat repairs a lost one.
- Signing keys and JWKS: keys are read for each use; only a script run by hand stores one.
- Re-encryption of credentials and retention pruning: batch jobs run by hand. Pruning deletes what
  ended before a retention period of days; the secrets are not kept by the models.
- Introspection and client credentials, which change no row that the models keep. The revocation
  endpoint is `RevokeToken` of `SessionTokens`.
- The anti-abuse checks before a login are in `AbuseLimits`, not in front of the logins of
  `SessionTokens`; expiry of access tokens, scopes, audiences and PKCE are left out.
- Templates, mail transport, formatting, validation schemas, logging, metrics, audit rows, list
  endpoints, statistics, settings, start-up and scripts, which keep no protocol state. The schema is
  the type of the rows that the modules keep.

## Plan

In order of what would add most:

1. An abstract session, live until revoked, that `LoginSession` and `RefreshToken` implement, and a
   queue whose jobs are pending, sent or dead, each with its refinement as a theorem.
2. `Accounts`: larger sets in `Duties`.
3. Presence and the pruning of rows that other components still read.

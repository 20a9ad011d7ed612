# Bunet video security: models, checks and proofs

TLA+ modules that model the parts of this repository that keep state and are
worked on concurrently, TLC configurations that check them on small instances,
and theorems that TLAPS proves for every instance. Every definition is
translated from the code under `src/`; `PROJECT.json` maps each one to its
lines. Comments in the modules name the method that a definition stands for.

## 1. The system

An ASP.NET Core server (one process, SQLite) guards videos: it stores
who may see which video, hands out short playback sessions, watches them by
heartbeats and events, and revokes them. A video is played either from Bunny
Stream in an iframe, or as **Secure WebRTC**: an FFmpeg process per session
publishes a protected file to a media server (MediaMTX, over WHIP), and the page
receives it over WHEP, with no URL of the file in the browser.

| Component | State | Operations | What is hard |
|---|---|---|---|
| Secure media worker (`FfmpegSecureMediaWorker`) | dictionary session → process, the processes | StartAsync, SeekAsync, StopAsync, Dispose, one drain per process | singleton without a lock; every operation is several steps on a concurrent dictionary |
| Playback sessions (`PlaybackSessionService`, `SecurityEventService`, `ExpiredSessionCleanupService`, seek and close of `SecurePlaybackController`, the admin controllers) | rows of PlaybackSessions, the workers | create, heartbeat, security event, seek, close, revoke, revoke all, cleanup | load, await, save without a concurrency token; workers are stopped in one step, rows saved in another; failures between |
| Access grants and entitlement (`VideoEntitlementService`, `AdminController.Grant`, `RevokeUserAccess`) | VideoAccessGrants | grant, revoke, expiry, entitlement check | checked once, used for the rest of a request |
| Public playback (`EmbedController`, `DemoController`, `PublicPlaybackBootstrapStore`, `EmbedCodesController`) | memory cache of bootstraps, temporary grants, heartbeat token | embed link, page, bootstrap | page and bootstrap are two requests; cache look-up and removal are two steps; two saves write one token |
| Video catalogue and webhooks (`BunnyWebhookController`, `AdminVideosController`, `AdminController` sync, `FileSystemProtectedMediaStorage`) | Videos, WebhookEvents, receipts, files | webhook, create, refresh, sync, upload, delete | duplicate and overlapping deliveries, failing saves, status written from several sides |
| Bunny runtime options (`BunnyOptionsProvider`, `BunnySettingsController`) | one row, one cached value, a lock | read, save, settings form | a read that primes the cache overlaps a save |
| Browser player (`player.js`, `watch-page.js`, `embed-init.js`) | the peer and its base position, overlay, observers, timers, debouncer | start, seek, heartbeat, events, unload; tamper guard | answers that are lost, promises that stay pending, observers that see their own changes, posts nobody waits for |
| Watch progress (`RecordHeartbeatAsync`, `SecurityEventService`) | VideoProgress, RiskScore | heartbeat, event | the first heartbeat inserts, one save for risk and progress |
| Upload page (`admin-upload.js`) | one upload each submission, chunks at Bunny | submit, send, retry | retries of what may have arrived, answers that are lost, failures the page does not catch |
| Policies (`PoliciesController`, `VideoSecurityPolicyService`) | a row per tier, a 30 s cache per video | edit, read | a fill of the cache overlaps an edit |
| Roles (`RolesController`, `IdentitySeeder`) | AspNetUserRoles | grant, revoke, seed | count and removal are two steps |
| Key rotation records (`KeyRotationController`) | SigningKeyVersions | rotate | retire, count and insert in one transaction |
| Login audit (`AdminLoginAuditMiddleware`, `AuditLogService`) | memory cache of tickets, AuditLogs | sign in, write a row | requests of one sign-in overlap; the key is set before the row is written |
| Signers, persistence, read-only pages, metrics, host | none of their own | | not modelled: pure functions, mappings, views, wiring |

Calls between them: the session service asks entitlement and policy, saves a
row, starts the worker. Heartbeats and events raise a risk score, and at the
threshold the session is revoked. Cleanup revokes what has expired or gone
silent. The player's guard heals the overlay and reports a `WatermarkTamper`
event, which is such an event; the heartbeat says whether the overlay is
visible. Every judgement on a session asks the policy cache. The upload page
calls the catalogue and then Bunny, which tells the catalogue by webhooks.

For each component the properties that make it correct are in section 3, and
the hazards they are about, each with its line, in `PROJECT.json`.

## 2. Modules

| Module | Models | Checked by | Proofs |
|---|---|---|---|
| `WorkerRegistry` | abstract: at most one live process per session | | |
| `MediaWorker` | `FfmpegSecureMediaWorker.cs` | `MCMediaWorker` | `MediaWorkerProofs` |
| `SessionSlots` | abstract: a user's active sessions are limited, the oldest go first, and creations that overlap exceed that by one each | | |
| `PlaybackSessions` | session handlers and cleanup | `MCPlaybackSessions` | `PlaybackSessionsProofs` |
| `PublicPlayback` | grants, public pages, heartbeat token | `MCPublicPlayback` | `PublicPlaybackProofs` |
| `VideoCatalog` | webhooks, admin operations, files, receipts | `MCVideoCatalog` | `VideoCatalogProofs` |
| `CatalogHistory` | `VideoCatalog`, with the history of which events have taken effect | `MCCatalogHistory` | `VideoCatalogProofs` |
| `UploadPage` | the upload form over `VideoCatalog`, which it extends | `MCUploadPage` | `VideoCatalogProofs` |
| `BunnyOptionsCache` | options cache and form | `MCBunnyOptionsCache` | `BunnyOptionsCacheProofs` |
| `SecurePlayer` | one page with its offer, seek, close calls | `MCSecurePlayer` | `SecurePlayerProofs` |
| `WatermarkGuard` | the overlay and its guard | `MCWatermarkGuard` | `PlayerPageProofs` |
| `PlayerSignals` | heartbeats and events of one page, their handlers, watch progress | `MCPlayerSignals` | `PlayerPageProofs` |
| `Administration` | policies, roles, key versions, login audit | `MCAdministration` | `AdministrationProofs` |

The same detail is not modelled twice. `PlaybackSessions`, `PublicPlayback` and
`SecurePlayer` take stopping and starting a worker as single steps;
`MediaWorker` shows what they consist of and `WorkerRegistry` what they promise.
`SecurePlayer` has one session and lets "somebody" end it; `PlaybackSessions`
is about who. In `PublicPlayback` the status of the video and the key change at
any time; `VideoCatalog` and `BunnyOptionsCache` are about how.
`PlayerSignals` says only whether a session's score has left zero; how it adds
up and revokes is in `PlaybackSessions`, whose policy is a constant: how an
edited policy reaches it is in `Administration`.

### How state and steps correspond to the code

A handler's `await` is where others get in, so a handler is one action per
stretch between the awaits that touch shared state. What it loaded is kept per
request (EF Core's tracked entities): `mark`, `todo`, `score` in
`PlaybackSessions`, `loaded` in `PublicPlayback`, `seen` and `want` in
`VideoCatalog`, `had` in `BunnyOptionsCache`. `SaveChangesAsync` writes only the
columns that the handler changed, in one transaction, which is SQLite's; it
fails as a whole (`Abort`) and on a unique index.

*MediaWorker.* `TryGetValue`, `HasExited`, `ProcessStart`, `TryAdd`,
`TryRemove`, `KillRemoved`, `DisposeRemoved` are the single operations of
`StartProcessAsync` and `StopProcess`; `DrainRemoves`, `DrainFindsOther`,
`DrainDisposes` the end of `DrainAsync`; `Dispose`, `NextKey` the loop over the
snapshot of keys. A thread runs on between two of them whenever it likes. `late`
(the calls that were inside when Dispose began) and `missed` (what such a call
has registered since) are history.

*PlaybackSessions.* `older` is the order of `CreatedAt`. `expired` and `stale`
stand for the two time conditions, set by `Expire` and `GoStale` at any time.
`risk` is RiskScore in the row, `score` a handler's copy of it, `reason` the
RevocationReason, told apart by who gives it. `tokens` are the rows with a
HeartbeatTokenHash: those of a Secure WebRTC video from their first save, those
of public viewers (`PublicUser`) from the save of `Bootstrap`, a step of its own.
Cleanup asks for it before it calls a session silent. The cleanup service is an actor `Cleaner` that repeats its
pass: expired rows, then stale rows, each at most `BatchSize`. `raced` is
history: sessions whose worker a seek or the creation has started again,
`revived` those that cleanup has marked and that a heartbeat has then saved.

*PublicPlayback.* `cache` is the memory cache, `expiredPages` those past
`ExpiresAt` though perhaps still cached. `hash[s]` says whether
`HeartbeatTokenHash` is of `CreateAsync`'s token or of Bootstrap's. `seen` and
`raced` are history variables and guard nothing.

*VideoCatalog.* `status`, `provider` and `source` are columns of Videos,
`events` and `receipts` are tables, `bunny` is the state at Bunny, `complete`
and `started` tell a whole file from a partial one; `accepted` and `unknown`
are what Bunny has had an answer for. `clash` marks a DbContext that tracks a
row it cannot insert. `PruneReceipts` is the part of the cleanup service that
deletes old receipts. Ranks and mappings of statuses are those of
`MapStatus`, `StatusRank`, `AllowsTransition`, `MapBunnyStatus`. In
`CatalogHistory`, `effective` are the events whose video has had, at some moment
since they happened, a status as advanced as they say.

*BunnyOptionsCache.* `current` is the cached value, `row` the table, `form` what
an administrator has posted for each setting: a value, "keep" or "clear". The
lock covers what it covers in the code, and the read before it is outside.
`ReadRow` is `FromSettings` with `Unprotect`: any of the secrets may fail to be
decrypted, and is then blank. `SaveChangesAsync` writes the columns that differ
from the row that was loaded, and each secret that is not blank. `saved`,
`overtaken` and `old` are history.

*SecurePlayer.* `phase` says which promise `startPlayer` or a click awaits;
`held`, `base` and `heldOpen` are `secureState`; `newOpen`, `newBase` and
`newProcess` what `startSecureWebRtc` has in its hands. A call the page no
longer awaits continues at the server. `start[n]` is where FFmpeg process n was
started. Positions are in steps of ten seconds, those of the buttons.

*WatermarkGuard.* Observers run as microtasks: timers need `NoMicrotask`. A
mutation leaves only a record that something changed (`pendingContainer`,
`pendingShell`), and the observer looks at the document as it is by then.
`fading`, `faded` and `appearing` are the course of the 1.2 s transition of
`player.css`, because `isSpanHidden` looks at the computed opacity.
`BeforeUnload` stops the guard and leaves the other timers.

*PlayerSignals.* A post is fired and forgotten: `PostEvent` puts it on its way
or loses it, `Fails` loses it later. `remembered` is the map of the debouncer; how
long ago is nondeterminism. `had` is FurthestPositionSeconds as a heartbeat's
handler has loaded it. `phase` is "back" when the document is shown again after
`beforeunload`, with its listeners but without its interval.

*UploadPage.* It extends `VideoCatalog`: `Submit` and `Answered` are steps of the
form and of the handler it calls, `Elsewhere` is everything else that happens to
the catalogue. `received` counts the chunks Bunny has; `stage` is what the log of
the page ends with, "silent" when a rejected fetch or a closed page leaves it as
it is. Bunny finishes a video only when it has all of it.

*Administration.* The four parts share requests and SQLite's single writer:
`lock` is held by a rotation, which is the only one with a transaction of its
own, and a save waits for it. `current` are the requests whose copy of a user
still has the ConcurrencyStamp of the row. A policy is the number of edits
made before it, `replaced[n]` its age since the next one, in ticks of which
`PolicyTtl` make 30 s. `overlap`, `presented`, `lost` and `twice` are history.

## 3. Runs

| Run | Question | Bounds | Distinct states |
|---|---|---|---|
| `worker` | is every live process owned, removed only to be killed, what does Dispose leave; does the worker implement the registry; does a stop end the process, is every handle released | 1 session, 2 calls, 2 processes | 38 thousand |
| `sessions` | where can a worker that outlives its session come from; does the threshold revoke; is revocation final; what may cleanup take for silent | 1 session, of a user or of a public viewer, 3 requests and the cleaner, failing saves, restarts | 665 thousand |
| `sessions_limit` | by how much can overlapping creations exceed the limit, does each session end | 3 sessions of one user, limit 1, 2 creations at a time, the cleaner with a batch of 1, failing saves, restarts | 56 thousand |
| `catalog` | is an accepted event processed, a processed one applied, is a Ready protected video playable | a video at Bunny, which an upload may make protected, and a local one, an event that says finished, 2 requests (both may be webhooks), 1 file | 1.5 million |
| `upload` | is complete what the page calls complete, and Ready what is whole; does the effect of a processed event stay, is every event answered, does a submission settle | a Bunny and a local video, 1 submission, 3 chunks, 2 retries, 1 webhook at a time, a failed and a finished event, an administrator who creates | 16 thousand |
| `options` | are the options in force served, and none that never were | a required and an optional secret, 2 values, 2 administrators who are readers, too | 1.1 million |
| `public_playback` | was every session permitted, does a bootstrap buy one, does the client's token work | 1 page, 1 viewer, 2 requests, 2 sessions, 2 grants | 888 thousand |
| `secure_player` | one peer, right position, buttons come back | 2 calls, 3 processes, film of 3 positions, 2 attempts | 709 thousand |
| `watermark` | healed and reported before the next timer, no false reports, restored | 2 spans, 5 changes | 27 thousand |
| `signals` | is progress kept, is a hidden page noticed | 2 posts under way, 2 event types beside visibility, positions to 2 | 419 thousand |
| `administration` | is an Admin left, one version active, a sign-in recorded once, an edit in effect | 2 users, 2 roles, 3 requests, 3 versions, 2 edits, entries of 2 ticks and fills of 1, 2 sign-ins of one user | 49 thousand |
| `auto_revoke_worker` | does an automatic revocation stop the worker (expected violation) | 1 session, 1 request | |

Why the bounds are enough. In `MediaWorker` sessions share nothing but Dispose's
loop, which visits one key at a time; two calls give a start beside a start, a
seek or a stop, and two processes a drain that is late. The theorems are about
any number, and a run with three calls and three processes (423 thousand states)
showed no more. In `PlaybackSessions` the handlers share one row at a time;
three handlers and the cleaner give every pair with a third to interfere. What
needs several sessions, the limit and the cleanup's batch, is in
`sessions_limit`: with a limit of one, three sessions and two creations that
overlap reach the one session too many and no second one, and a batch of one
makes rows wait. Three things are left to the theorems, which are about any
number: a worker that survives the eviction of its session
(`WorkerAccountedHolds`; a run with two sessions, 118 thousand states, showed no
other), the order of eviction when more than one session is left
(`ImplementsSlotsHolds`; a run with one creation at a time and limit 2, 453
thousand states, agreed), and the cleanup of a public session at Bunny
(`CleanupSparesLiveHolds`; a run with a public viewer and a user, 83 thousand
states, agreed). In `VideoCatalog` a video has a row of its
own and a request other than a sync is about one, so one video of each kind and
two requests give every overlap; SyncAll's save of several rows at once is the
reason that `SaveAll` undoes all or nothing. One file is one upload that is
copied, cut short or overtaken; with two files, for uploads that overlap, the
run showed no more (3.6 million states), and `ReadyHasSourceHolds` is about any
number. One event is enough for `ProcessedTookEffect`: what writes the status
back is a refresh with an older answer; with two webhooks that say Failed and
Ready the run showed no more (2.1 million states, without uploads).
`upload` has a second event to come out of order. Three chunks and two
retries tell a retry in the middle from one after the end, and counting anew
after a chunk from giving up.
In `BunnyOptionsCache` a setting is a column, and columns mix when there are two;
a setting that is displayed differs from a secret in that it can be neither kept
nor blank, and a run with one (244 thousand states, one administrator) showed no
more. In `PublicPlayback` two requests are what overlapping bootstraps and an
administrator beside a request need; rows, sessions and requests are symmetric.
`SecurePlayer` needs two calls for one that was given up beside a new one (or
beside close), three processes for two seeks, two attempts for a retry, a film
of three positions for a clamp at both ends. Five changes to the overlay are
enough to remove the container and the grid, and to strip or hide the new
container and both of its spans. Two posts give every pair of heartbeats and
events of `PlayerSignals` in either order; a row that exists already, at the end
or nowhere, stands for a second tab or an earlier visit. In `Administration` the
parts share only the lock, so each behaviour of the run is of one part; three
requests are two that overlap and one to interfere, and the tickets of one user
are needed to tell a key by ticket from one by user. `CHECK_DEADLOCK FALSE` is
set where a system may come to rest: all calls returned, all bounds used up, all
sessions ended.

The counters that the code leaves open are bounded in guards: `MaxProcess`,
`MaxPos` (`SecurePlayer`, `PlayerSignals`), `MaxChanges` (`WatermarkGuard`),
`MaxVersion`, `MaxEdits` and `Slowest` (`Administration`); elsewhere the sets
of sessions, processes, files and rows are the bound.

### What the properties say

* **MediaWorker** `NoOrphan`: an FFmpeg process that nobody has killed is in the
  dictionary or in the hands of a call that will register or kill it.
  `DisposedIsDead`: no disposed handle is in the dictionary. `RemovedToBeKilled`:
  a process leaves the dictionary alive only to be killed. `DisposeStopsAll`: after
  Dispose a process runs only in the hands of a call that outlived it, or
  because such a call has registered it since, one each at most. `ImplementsRegistry`:
  seen from outside a session has at most one live process, and each step
  launches one that never ran, or ends one. `StopEndsProcess`, `HandlesReleased`: liveness.
* **PlaybackSessions** `WorkerAccounted`: a worker of a revoked session has one of
  the known causes (eviction by the limit, a security event, an overlapping start
  or seek) and no other; a heartbeat that revokes leaves none. `RiskRevokes`: a stored score at the threshold means a
  revoked session, whatever overlaps. `RevocationFinal`: nobody brings a session
  back. `CleanupSparesLive`: cleanup revokes for silence only a session that has
  a token, has gone silent and has not been heard of since its query.
  `ImplementsSlots`: of n creations that may overlap, one leaves its user at most
  n - 1 sessions above the limit, and at most n - 1 older than one that it ends.
  `EverySessionEnds`.
* **VideoCatalog** `ReadyHasSource`: a protected video is Ready only with a
  whole file. `AcceptedProcessed`, `EveryEventAnswered`: an event Bunny need not
  send again has been processed, and each is answered in the end.
  `ProcessedTookEffect`: an event is marked as processed only after the video has
  had its status or a more advanced one, whatever overlaps. `ProcessedApplied`:
  with a webhook at a time and no refresh, the video has it still.
* **UploadPage** `CompleteIsWhole`: what the page calls complete Bunny has in
  full, and the row names it. `ReadyIsWhole`: a late or repeated webhook of an
  attempt that failed makes no half video at Bunny Ready. `SubmitSettles`: each
  submission ends with a message, or the page is gone or silent.
* **BunnyOptionsCache** `ServedInForce`: with no save between its commit and the
  cache, what is served is in force, or is a secret that could not be decrypted;
  what a request has cached that a save had overtaken is excepted.
  `ServedWasSaved`: without that exception, each setting served has been in force
  at some time, or is such a blank.
* **PublicPlayback** `PermittedDuringRequest`: the video was ready, the user
  entitled and the demo allowed at some moment of the request that created the
  session. `OneSessionPerPage`. `AnsweredTokenWorks`.
* **SecurePlayer** `OnePeer`; `BaseMatchesStream`: the position the page counts
  from is where the stream it shows was started; `SeekSettles`: after a click the
  buttons come back.
* **WatermarkGuard** `HealedBeforeTimers`, `ReportedBeforeTimers`,
  `ReportsDamage`, `OverlayRestored`: what others damage is back before any timer
  could see it, is reported once, nothing else is reported, and once they stop
  the overlay stays, as long as the guard runs.
* **PlayerSignals** `FurthestKept`: a heartbeat that arrives late never takes back
  how far the viewer has come, unless another overtook its copy. `HiddenNoticed`:
  a page that stays hidden raises the risk, although its event may be swallowed,
  lost or anonymous.
* **Administration** `LastAdminKept`, `OneActiveVersion`, `PolicyTakesEffect`: no
  judgement uses a policy that was replaced longer ago than an entry lives plus
  the time a fill takes. `SignInRecorded`, `SignInOnce`: a sign-in has one row.

Each property of each passing run has a mutant in `PROJECT.json`: an operator in
the module, next to the definition it changes, that a plausible mistake in the
code would amount to (a kill that is dropped, a removal by key instead of by
pair, a save before a check), and under which TLC finds the property violated.

## 4. Fairness

* `MediaWorker`: weak fairness of each thread's steps and of each drain (threads
  of the pool run on), and of the death of a process that has been killed. None
  for a process to exit by itself, and none to be called.
* `PlaybackSessions`: time passes (a session expires) and the cleaner starts a
  pass each `Interval`. Each step of a pass is strongly fair because
  `ExecuteAsync` catches what a pass throws and goes on with the next: a step
  that fails now and then does not fail for ever. Request handlers get no
  fairness; a client may go away at any time.
* `VideoCatalog`: Bunny delivers an awaited event again until it is accepted;
  requests that hang are given up; saves do not fail for ever.
* `SecurePlayer`: the browser runs continuations of what has settled, the
  server its handlers. Not fair: a click, a heartbeat, `play()` of a stream that
  has died, a lost answer.
* `UploadPage`: as `VideoCatalog`, and the TUS client goes on while its page is
  open.
* `PlayerSignals`: the interval goes on while the page is open, a post ends some
  time, and not every heartbeat is lost at the same stage. Events get none.
* `WatermarkGuard`: microtasks run; interval timers come due again and again
  (strong fairness: they run between microtasks); transitions end. Others stop
  changing the page only because `MaxChanges` is finite.

## 5. Where documents and code disagree

One violation is a run:

* `auto_revoke_worker`: `PRD.md:66` "Risk auto-revocation stops the secure
  worker." A heartbeat's does; `SecurityEventService.ApplyRiskAsync` has no
  worker to stop, and cleanup skips rows already revoked.

Others met while modelling are excepted in the properties that would fail, or
have no property, and are listed so that nobody reads more into a passing run
than it says:

* `README.md:44`: "Two semi-transparent spans drift across the player every
  ~3.5s". The closure of the timer at `player.js:230` holds the first container;
  once the guard has made another in its place (`player.js:309`) the visible
  spans stand still. Where spans are is not in the model.
* Two overlapping creations of one user both count before either inserts, and
  exceed `MaxConcurrentSessions` (`PlaybackSessionService.cs:110`, "Enforce
  concurrent-session limit per (user, video)"). `ImplementsSlots` says by how much.
* A seek validated before an admin revocation or a close starts a worker after
  it (`PRD.md:46`). `WorkerAccounted` counts it as a known cause.
* Cleanup revokes a session whose heartbeat was saved after its query
  (`README.md:204`). `CleanupSparesLive` excepts it (`revived`).
* Heartbeat and security event overwrite each other's increase of RiskScore.
* Two overlapping webhooks can take a status back (`README.md:45`, "blocks status
  downgrades"): the transition is judged by what the request has loaded.
  `ProcessedTookEffect` says what is left of it.
* A refresh that asked Bunny before a deletion writes over `Deleted`
  (`README.md:116`). No property is about it.
* Of two concurrent deliveries of one body, the loser answers 500: the receipt
  stays in its context and is inserted again by the next save.
* A reader that primes the options cache during a save leaves the old value
  there until the next save (`BunnySettingsController.cs:80`, "New API calls,
  uploads, webhooks, and playback tokens will use them immediately").
  `ServedInForce` excepts it (`old`), `ServedWasSaved` does not.
* A secret that cannot be decrypted, as after a restart with a lost key ring, is
  served as blank (`BunnyOptionsProvider.cs:163-171`), and both properties except
  it. A blank field of the settings form writes back the value read at the start
  of the request (`Views/BunnySettings/Index.cshtml:48`, "Leave a field blank to
  keep the current value"): one that another administrator may have changed
  since, or such a blank, which clears an optional secret.
* Two concurrent bootstraps with one id may both find it before either removes
  it (`PublicPlaybackBootstrapStore.cs:41`); `OneSessionPerPage` excepts exactly
  this (`raced`).
* After a lost answer the next seek overlaps the one given up; `SeekAsync` then
  leaves the other's process alone, and page and stream may disagree about the
  position. `BaseMatchesStream` excepts it (`overlapped`).
* A stream that dies between the answer and its first picture leaves `play()`
  pending and the buttons disabled; `SeekSettles` names this state.
* After a failed reconnection `secureState` is null and the next seek starts
  from position 0.
* The guard never clears the `hidden` attribute, and a span faded out by a
  transition counts as visible until the next timer or mutation;
  `HealedBeforeTimers` and `OverlayRestored` name both.
* `beforeunload` stops heartbeats and guard. When the page is shown again after
  it, because the navigation came to nothing or from the browser's cache,
  neither is started again, and the session goes silent. The properties except
  the time after it.
* Two heartbeats that overlap store the maximum of what each has loaded:
  FurthestPositionSeconds may go back. `FurthestKept` excepts it. Of two first
  ones the second fails on the index and loses the risk it carried; a later one
  makes up for it.
* Revocations of two different Admins that overlap leave none
  (`RolesController.cs:111`, "refuse to revoke the last Admin user"). The
  ConcurrencyStamp of a user protects only against revocations of the same one.
  `LastAdminKept` excepts it (`overlap`) until the seeded account is restored.
* Two requests of one sign-in may look its key up before either sets it, which
  makes two rows (`AdminLoginAuditMiddleware.cs:13`, "writes a single AdminLogin
  row"); and the key is set before the row is written, so that a failed write is
  not repeated. `SignInOnce` and `SignInRecorded` except them (`twice`, `lost`).
* The upload page catches no rejected fetch and says nothing more
  (`admin-upload.js:34`, `:55`); `SubmitSettles` counts it as an end.

## 6. Proofs

Eight modules hold theorems, for any sets of sessions, threads, processes,
requests, videos, users and spans, and any limits, thresholds, lifetimes and
bounds. They assume what the modules' ASSUMEs say: that `None` or "none" is no
process, session, call, viewer or page; that sets from which a default is
chosen are not empty; that the cleaner is no request, limits are naturals and
the threshold and the lifetime of a cache entry positive; that there are
finitely many users and finitely many creations at a time. TLC evaluates them in
each run. No theorem assumes more: all are about every behaviour of the modules.

*MediaWorker.* The inductive invariant is `IInv`. `NoOrphan` alone is not
inductive: nothing in it keeps two calls from holding one process, so that one
could kill what the other is about to register, nor a drain from disposing a
handle that is still registered. `IInv` adds who owns a process. `HeldOK` and
`HolderUnique`: what a call has started or taken out is in no entry of the
dictionary and in no other call's hands, and still has its handle.
`RegisteredOK`: what is registered has not been killed or disposed, is not being
disposed by its drain, and was started for that session. `ProcOK`: a drain
disposes only what has exited. `CallsOK` says which locals are set at which
label. Each step moves one process from one place to the next, and each action
has a lemma that it preserves `IInv`, with a step for each conjunct. From `IInv`
follow `TypeCorrect`, `NoOrphanHolds`, `DisposedIsDeadHolds` and
`RemovedToBeKilledHolds`. `DisposeStopsAllHolds` adds `ShutdownOK`: of the calls that did not outlive the
shutdown only the one that disposes is left; each entry is still to be visited,
or is the one it removes, or was registered since by a call that outlived it; and
such a call registers once, after which it is done. For `WorkerImplementsRegistry` the live
process of a session is the one registered while it runs, and a process has
ended for the registry once a call holds it to kill it; each step maps to a step
of `WorkerRegistry` or to a stutter, mostly to a stutter (`SilentSteps`).

*PlaybackSessions.* `RiskRevokes` needs, in `HandlersOK`, that a handler whose
copy of the score has reached the threshold has marked its session to be revoked
in the same save. `WorkerAccounted` needs `StoppedOK`: a session that a handler
has marked and has stopped has no process, unless one was started again. And it
needs `CreatorOK`: until a creation has answered, nobody seeks its session and
no process runs for it. `RevocationFinal` is a property of steps: only a
creation writes a row that is not revoked, and it writes one that did not exist.
`CleanupSparesLive` follows from what the query put on the cleaner's list and
from `revived`, which holds every session heard of since.

`ImplementsSlots` needs three facts more (`SlotInv`). `AgeOK`: `older` orders
the sessions that were ever created, in the order in which their creations began.
`RowsOK`: what has ended, or is about to, is a row. `RoomOK` is about a creation
that waits for its save. What it has not counted was saved meanwhile by a
creation ahead of it, of which there were at most n - 1; so the sessions it keeps
(`Kept`) and the creations still ahead of it (`Ahead`) are together at most
n - 1 more than there is room for, and likewise the sessions it spares that are
older than one it ends (`Spared`). A creation's save moves its session from
`Ahead` to `Kept` of those behind it; those ahead have no room to lose, since
the one behind has counted them. Then a step is `Quiet`, and at most ends
sessions, or begins a creation, which changes no row, or saves one, which is an
`Open` of `SessionSlots`.

*VideoCatalog.* A handler's `want` and `about` are the strengthening
(`HandlerOK`): who is about to write Ready for a protected video holds the path
of a file that is whole, and `SourceOK` says that a local video has nothing at
Bunny. Then `ReadyHasSource`, `AcceptedProcessed` and `ProcessedFinal` (a
processed event stays so) hold for any overlap and any failure.
`ProcessedTookEffect` adds `EffectInv`: an event whose status a webhook has seen
reached or passed has taken effect, and so has one that it is about to mark,
because it has just written its status.

*UploadPage.* `UploadSpec => Spec`: each step of the page is one of the
catalogue behind it, so the theorems above hold there, too
(`PageImplementsCatalog`). `ReadyIsWhole` needs `WholeInv`: an event that says
finished, an answer of Bunny that does, and what a handler is about to write
because of either, are about a whole video. `CompleteIsWhole` needs
`SubmissionOK`: the request of a submission is its own, for its video, and no
further than what the page has heard. Both hold for any number of submissions,
webhooks and administrators.

*Administration.* One part of the invariant for each of the four subjects, and a
lemma that a step of one leaves the others alone. `LastAdminKept`: without
`overlap`, all who have counted are about one Admin, and as long as that user is
as they have loaded it there is another (`OneRevoked`). `OneActiveVersion`: who
holds the lock has read what is still there. `PolicyTakesEffect`: what a fill
holds was replaced no longer ago than the fill has taken, and what is cached no
longer than its age plus `Slowest`. `SignInRecorded`, `SignInOnce`: unless two
looks have overlapped a ticket has one request about it or one row, and cannot
come again while fresh without its key.

*SecurePlayer.* `PeersOK`: a new peer is open only in the phases in which the old
one is closed. `Aligned`, as long as no two seeks were in flight together: a page
that connects is alone with its stream, which was started where the page thinks,
and a seek about to be answered has the position of the last process.

*BunnyOptionsCache.* `Kept`: each setting that is stored, that a save has loaded,
or that a request is about to cache or to publish, has been in force or is a blank
secret. `Fresh`: what a request holds that no save has overtaken is the row as
it is, unreadable secrets aside.

*WatermarkGuard.* Each kind of damage leaves a pending record at the observer
that repairs it (`ShellMinded`, `ContainerMinded`), and an event that is owed
leaves a record together with damage its observer will find (`OwedMinded`).

*PlayerSignals.* The types are inductive by themselves: a position that a post,
a handler or the row holds is one that `lastPos` has counted. `FurthestKept`
follows: only a heartbeat's save lowers the row, and only when what its handler
has loaded is less than what the row holds by then.

*PublicPlayback.* What a request has checked holds at some moment since it began
(`seen`). `Ticket`: a bootstrap is in the cache, or with one request, or in one
session. `Written`: a request writes a session of its own, whose token is of the
save that came last.

The theorems are listed in `PROJECT.json`. All of them were model-checked
first, the invariants as invariants of a run.

*Only model-checked*: liveness (`StopEndsProcess`, `HandlesReleased`,
`EverySessionEnds`, `EveryEventAnswered`, `SubmitSettles`, `SeekSettles`,
`OverlayRestored`, `HiddenNoticed`), which rests on fairness and with ENABLED is
beyond what TLAPS does here, and `ProcessedApplied`: it holds of one webhook at a
time, which the run has by its bounds and the code does not see to, so that for
all constants only `ProcessedTookEffect` is true. Every other invariant, action
property and refinement that a passing run checks is a theorem. Nothing rests on recursive definitions,
about which an induction over data would be needed.

## 7. Abstractions that matter

* Time is nondeterminism: a deadline may pass at any moment and is then passed.
  Nothing is said about durations. The boundary where a heartbeat is
  still accepted at the very instant `ExpiresAt` is not told apart.
* Hashes, signatures and random ids are opaque and never collide. A request
  with a wrong signature or token is not modelled: it changes nothing.
* One server process, as deployed; a restart loses the memory of all handlers,
  the cache, the dictionary and, because FFmpeg runs in its container, the
  processes.
* Bunny's TUS server says truthfully where an upload has got to; the client is
  vendored and modelled by how the page configures it.
* Authorisation is not modelled. It comes from the cookie: a revoked
  administrator keeps its role until the cookie is renewed.
* Rows that nothing reads (security events, audit rows other than of a sign-in)
  are left out.
* `Process.Kill` succeeds or the process is gone.
* FFmpeg's command line, MediaMTX, WHEP bodies and ICE are external: the media
  server answers an offer only while a worker publishes.
* Changes to the overlay in `WatermarkGuard` stand for style, class, hidden
  attribute and removal; the grid is only removed, since the guard does not look
  at its style (`player.js:301-305`) and would let a hidden one be. Rules of a style sheet, a covered overlay or a stopped
  script are out of the guard's sight and of the model's.

## 8. How to run

    tlc -config MCMediaWorker.cfg MCMediaWorker
    tlapm MediaWorkerProofs.tla

and likewise for the others; which configuration belongs to which module, and
what it shows, is in `PROJECT.json`.

## 9. Not modelled, and plan

Not modelled: the signers (pure functions that unit tests pin), EF Core's
mapping (its indexes and saves are part of each module), pages that only read,
metrics and health checks, wiring, rate limits and response headers, the play,
mute and full-screen buttons and the masking of the display text.

Done, in this order, the riskiest first: the worker and its registry; the
sessions with their slots; the catalogue; the options; grants and public
playback; the player; the overlay; the page's signals and watch progress; the
upload page over the catalogue; policies, roles, keys and login audit; a
theorem for each safety property that a run checks, but for `ProcessedApplied`.

Next:

1. A composition of `PlaybackSessions` with `WorkerRegistry`: the session
   handlers over the abstract worker, in place of their single worker flag.
2. A composition of `Administration`'s policy cache with `PlaybackSessions`: the
   threshold that a heartbeat judges by as a value that may be old.

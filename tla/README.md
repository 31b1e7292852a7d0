# TLA+ models of ark-mcp

ark-mcp is an MCP server in front of the BytePlus media services: tools that
generate images, video, 3D models and speech, that transcode, transcribe and
understand media, and that manage what was generated and uploaded. Most of its
tools translate one request into one provider call. What is hard about it is what
surrounds those calls: money that is reserved before and settled after them, limits
on how many run, requests that are repeated, tasks that outlive the request that
created them, outputs that expire at the provider and are copied, jobs that a queue
may deliver more than once, files of several servers in one directory, and
cancellation, which asyncio can deliver at any `await`. This directory models that
in TLA+, checks it with TLC on small instances and proves the central results with
TLAPS for all instances.

Paths below are relative to `src/src/ark_mcp/` unless they start with `docs/` or
`specs/`, which are below `src/`.

* [Inventory](#inventory) – the parts of the system and what makes them correct
* [Modules](#modules) – what is modelled, and how it corresponds to the code
* [Runs](#runs) – what TLC checks, with which bounds, and why they are enough
* [Divergences](#divergences) – where the code and its own words differ
* [Proofs](#proofs) – what holds for every value of the constants, and why
* [What is not modelled](#what-is-not-modelled)
* [Plan](#plan)

## Inventory

The server is one process with one asyncio event loop (`server.py`,
`__main__.py`). `runtime.build_lifespan` opens the state stores, each a SQLite
database with its own `asyncio.Lock`, starts a sweeper, and hands a
`RuntimeServices` object to all tools. SQL runs in worker threads
(`_offload`, `_run_locked`): the coroutine holds the store's lock while it
awaits the thread, but cancelling the coroutine gives the lock back and does not
stop the thread. Several servers may use one artifact directory and one provider
account.

| Part | State | Operations | What is hard | Correct means | Module |
|---|---|---|---|---|---|
| Budget ledger and `billed_provider_slot` (`runtime.py`) | rows `budget_reservations`, ledger lock, coroutine position of each call | reserve, commit, release, prune; enter and leave the slot | two-statement reservation, cancellation in every await, threads that run on, repeated requests, crash, midnight, retention | daily limit never exceeded; every call settled once; estimate kept exactly when the provider may have acted | `BilledCall`, `BudgetSpec` |
| `ProviderLimiters` (`runtime.py`) | a semaphore per provider, one per remote principal in a TTL cache | acquire, release | two semaphores held together, expiry of a semaphore in use | no slot leaks, nobody waits for ever, the limit is exceeded by a known amount at most | `BilledCall`, `PrincipalSlots` |
| Retry and error normalisation (`providers/retry.py`, `base.py`, `domain/errors.py`) | attempt counter | `call_with_retry`, `normalize_*` | what may be repeated safely | nothing the provider has acted on is repeated or called unbilled | in each caller |
| Artifact persistence (`TaskArtifactPersistenceLocks`, `SQLiteTaskArtifactCache`, the persist loops of three tool families) | single-flight entries with memo, cache rows, artifacts | poll with `persist_output`, sweep | overlapping polls, cancellation of a waiter or owner, two stores without a transaction, two expiry clocks | one copy per output, no reference to a deleted artifact, nothing leaks | `TaskArtifacts` |
| Artifact stores, downloads, export (`artifacts/*`, `security/safe_downloader.py`, `output_paths.py`, `seed_media_*`) | data and metadata files or objects, the user's file | put, copy from URL, get, export, sweep | two writes, two unlinks, crash between them, several servers | to readers an artifact comes and goes in one step; expired files go | `ArtifactStore`, `StoreSpec` |
| Background jobs (`background_jobs.py`, `tools/background_jobs.py`, `security/tasks.py`) | rows of namespaces `mcp` and `mcp-execution`, the queue | submit, claim, verify, get, cancel, execute | at-least-once delivery, enqueue before claim, prune, crash | a billed handler begins at most once, only the owner reaches a job, every job ends | `BackgroundJobs` |
| Parallel variations (`tools/_parallel.py`, `_seedream_shared.py`, `_seedance_shared.py`, `seed_audio_generate.py`, `_persistence.py`) | a task, a phase and a partial result per variation | run, deadline, cancel, summarise | deadline against late answers, errors after the provider acted | an error that invites a repeat is true; paid results are returned; the batch ends | `VariationBatch` |
| Generation tasks and ownership (`SQLiteTaskOwnershipStore`, `gen_task_*`) | ownership rows; the provider's tasks | record, require_owner, list, prune; get, list, cancel, delete | paging while rows come and go, status that changes after the check, unrecorded tasks | principals are separated, listings exact, destructive calls hit what was meant | `GenerationTasks` |
| Image and video requests, Draft flow (`seedance_create_task.py`, `seedream_generate_image.py`, `_seedance_shared.py`, `_capability_checks.py`, `model_capabilities.py`) | the provider's Draft, the call that renders it | validate, resolve, check, load the Draft, send | defaults filled in between validators and checks; a Draft that changes while its render waits | every body fits its model; a render names the caller's own finished Draft | `GenerationRequests` |
| VOD AI MediaKit and OmniHuman (`providers/vod_mediakit`, `vision_cv`, their tools) | provider tasks, ownership rows, artifacts | create, poll by operation, cancel | create answers that are lost or unreadable; a poll that names the wrong operation | no created task is denied; only its creator reaches it | `MediaTasks`, `MediaKitRequests` |
| Asset groups and assets (`ark_asset_*`, `_asset_shared.py`) | the provider's groups and assets, a lock per subject | ensure, create, delete, update, list, verify, preflight | look-then-create, look-then-delete, half-done creates, requests carried out after they were given up, several servers | one group per subject and server, requests aside that were given up; deletes take only what was not there to be seen; nothing created is hidden | `AssetLibrary` |
| Object keys, uploads, presigned URLs (`media_upload`, `media_presign`) | rows of object keys | upload, presign, require, prune | objects without rows, use against retention, cancellation of a batch | only the uploader gets URLs; a key in use stays usable | `UploadedKeys` |
| Understanding (`seed_understand`, `seed_audio_understand`, `_understanding_shared.py`) | one call: uploads, attempts, reservations | upload, wait, ask, check, ask again, save, delete | several billed attempts, fallback, failure and cancellation at each | charges add up; uploads are deleted; billed answers are returned | `Understanding` |
| Transcription (`speech_to_text.py`, `asr*.py`) | one call, the provider's task | submit, query | the whole of submit and query is repeated | one provider task per reservation | `Transcription` |
| HTTP rate limiter (`security/http_middleware.py`) | a token bucket per client address | admit, evict | buckets forgotten at a bound | no client exceeds burst and rate | `HttpGate` |
| Schema migration (`_ensure_schema` of two stores) | old, legacy and new table | migrate at start | DDL commits at once, DML does not; crash between | no row is lost | `StateMigration` |
| Pricing, media policy, domain models, settings, logging | none that changes | functions, constants, logs | boundaries | – | – |

How they interact: a generation tool runs in the background worker (task mode
`required`), passes the replay guard, reserves budget, takes two slots, calls
the provider through `call_with_retry`, settles, and records who owns the new
task. Later calls check that ownership, read the provider's state and, when
asked to, copy outputs through the single-flight lock and the cache into the
artifact store. The sweeper (`_state_sweeper`, every hour) prunes ledger,
ownership rows, cache and artifacts under all of them. The parts share state only
through those stores, so each has a module in which the others appear as what
they can do at the shared boundary.

## Modules

| Module | Models | State |
|---|---|---|
| `Spending` | sums of estimates as cardinalities | – |
| `BudgetSpec` | the abstract daily budget: book atomically, settle once, forget | `status`, `bookedOn` |
| `BilledCall` | ledger, limiters, retry, billed slot; refines `BudgetSpec` | 12 variables |
| `TaskArtifacts` | single flight, cache, store, three persist loops | 16 variables |
| `StoreSpec` | the abstract store: an artifact comes in one step, goes in one step, and is given to its owner | 4 variables |
| `ArtifactStore` | the two artifact stores, downloads, reads and exports, file by file; refines `StoreSpec` | 10 variables |
| `BackgroundJobs` | submission, ownership, replay guard, get/cancel | 11 variables |
| `VariationBatch` | `run_variation_batch` and its three factories | 10 variables |
| `GenerationTasks` | ownership store, list, get, cancel/delete of tasks | 15 variables |
| `GenerationRequests` | what a Seedance or Seedream call sends; the Draft flow | 3 variables |
| `MediaKitRequests` | the rules of both validations of the VOD requests | functions |
| `MediaTasks` | VOD and OmniHuman: create, poll, cancel | 4 variables |
| `AssetLibrary` | the asset tools on a shared account | 5 variables |
| `UploadedKeys` | uploads, presigning, key ownership | 7 variables |
| `Understanding` | the understanding loop of one call | 5 variables |
| `Transcription` | one transcription | 3 variables |
| `PrincipalSlots` | the TTL cache of principals' semaphores | 4 variables |
| `HttpGate` | the rate limiter's buckets | 3 variables |
| `StateMigration` | `_ensure_schema` with crashes | 5 variables |
| `MC*` | the instances for TLC; `MCServices` composes nine modules | – |
| `BilledCall_proofs`, `TaskArtifacts_proofs`, `BackgroundJobs_proofs`, `VariationBatch_proofs`, `GenerationTasks_proofs`, `ArtifactStore_proofs` | theorems about the module of that name | – |
| `Ownership_proofs` | theorems about `MediaTasks`, `UploadedKeys`, `AssetLibrary`, `GenerationRequests` | – |
| `Limits_proofs` | theorems about `Transcription`, `PrincipalSlots`, `HttpGate`, `Understanding`, `StateMigration` | – |

Definitions whose comment begins with *Mutant of* or *Variant* are deliberately
wrong forms of the definition that follows. They are used by nothing: replacing the
real one by them must make a property fail, which shows that the property depends on
that line of the code.

### BilledCall

`pc[c]` is the await in which the coroutine of call `c` is suspended:
`reserve` and the settlements `else`, `except`, `shield` are ledger jobs,
`provider` and `principal` the semaphores, `inflight` a request, `backoff` the
sleep of `call_with_retry`. A ledger job is separate from its coroutine
(`op`, `at`, `lock`): it queues for the lock, then its thread executes SELECT, INSERT
or UPDATE. `AbandonJob` is what `_run_locked` does under cancellation: the lock is
free although the thread is at `select`, so that thread's statements
interleave with those of the next lock holder. `Respond` classifies the outcome as the
gateways do and decides with `CanRetry` and `Settlement`; `accepted[c]` is a
history variable of the requests the provider acted on. `Cancel` distinguishes
where the cancellation arrives: before the `try` (`CancelReserve`), while waiting for
slots, in the body (the shielded settlement of `runtime.py:1010-1016`), in a
settlement. `Prune`, `NextDay` and `Crash` are the environment.

Abstractions: amounts are whole units; the queue order of `asyncio.Lock` and
`Semaphore` is replaced by strong fairness; the TTL of a principal's semaphore is in
`PrincipalSlots` instead; the use of `cursor.lastrowid` after a thread was abandoned is
left out (row ids are per call here). The calls are creations: their timeouts are
ambiguous and never repeated. Understanding calls, with unambiguous timeouts and a
policy of their own, are in `Understanding`. `NextDay` assumes that no call stays
inside the ledger for a day.

### TaskArtifacts and ArtifactStore

A poll is a get-task call with `persist_output` that found its task finished.
`Register`, `Enter` and `Leave` are the three parts of
`TaskArtifactPersistenceLocks.acquire`; the bodies under the registry lock have
no await, so each is one step. `handler[t]` chooses the family, and with it how
memo and cache are used: `persist_task_outputs` consults the memo first and writes the
cache once at the end; `persist_vod_outputs` writes after each output and
keeps what is already there; OmniHuman uses cache and lock without memo.
`LateWrite` is a cache write of a cancelled poll whose thread runs on. A copy is
one step, and the order in which outputs of one task are copied is left open.

`ArtifactStore` opens that step. A put writes the data file and then the
metadata (`WriteData`, `WriteMeta`), a sweep removes data and then metadata
(`UnlinkData`, `UnlinkMeta`), both in a directory that several servers may sweep at
once; `Crash` may fall between any two. `Hop` is one request of the safe downloader with
its redirects and repetitions. With `backend = "objects"` nothing is swept and every
request may fail. Files are written under a temporary name and renamed, so no reader
sees half of one. `Promise` maps all that to `StoreSpec`: an artifact is kept from its
second write to the first of its unlinks, and a worker is given one when it has looked, checked
the owner and read.

`Export` writes the user's file by one of two writers, which the platform decides
(`writer`). Both compare digests first (`Digest`, `DigestPortable`); where there are
directory descriptors `Publish` renames the new file over the target or, without
`overwrite`, links it, which fails when the name is taken; elsewhere `PublishPortable` renames
in any case. `UserActs` writes, links or removes the target in between.

### BackgroundJobs

Submission is `Enqueue`, `ClaimOwner`, `VerifyOwner`, in this order and with every
failure the code distinguishes; the native path (`intercept_tool_call`) is the same
with no cancellation at the end. An execution goes `claiming` → `won` →
`handling`; a second delivery that finds the claim row fails the job without calling
the handler. The Docket queue is external: it delivers to any free slot, again after
a loss and while an earlier delivery still runs, until `DeliverySpan` is over.
A request is checked with `require_owner` and answered in two steps. The unit of
`Tick` is days.

### VariationBatch

`at[v]` is the await of variation `v`, `phase[v]` what the factory wrote into
`VariationProgress`, `acted[v]` whether the provider generated. `Deadline` dooms all
that are not done; a doomed task is cancelled at its next step, as asyncio does it,
and may still return when it was already past its last await. The classification
of unfinished variations (`DeadlineResult`) reads `phase` and `partial`, as
`_deadline_error` does. Ledger and limiters are awaits that end, fail or hang.

### GenerationTasks

One session per behaviour (a listing from first to last cursor, a poll, or a
cancel/delete) among tasks that are created, recorded, run, end, vanish, and rows that are
pruned. The listing follows `_list_owned`: `ReadSlice` is `list_owned_tasks` with
`since`, keyset cursor and limit; `FetchSlice` is the provider request of that slice and
the walk over its answer, which may fill the page in the middle. `Position` keeps
the key of a row, not the row, so a cursor survives its row. `LocalPage` is the
page-number path of the local transport. `Check` and `Delete` are two requests, with the
repetitions `call_with_retry` allows. `steady` and `calm` are history variables that
say what a listing owed its caller. A slice takes one provider request
(`OWNED_SLICE_SIZE` is the provider's page size). A model behaviour ends with its
session.

### GenerationRequests

A request is a record in which an optional field is the set of its value, so
"omitted" is `{}` and defaults are visible steps: `VideoInput` is the input model with
its validators (`DurationFloor`, `DraftMode`, `InputsPresent`,
`TaskTypeConstraints`), `ResolveExact` the choice of the model, `CheckVideoRequest`
the capability checks, `VideoBody` what is sent; `ImageInput`, `CheckImageRequest`,
`ImageBody` are the same for images; an input image is an inline PNG, an inline JPEG or a
link (`form`), since only an inline image that is no PNG is refused for a transparent edit. `RenderDraft` reads the Draft back
(`LoadDraftTask`), fills in its model and the final resolution, and waits in `looked`
while `TaskEnds`, `TaskRemoved` and `DayPasses` change what it read; `SendFinal` sends.

### MediaTasks and MediaKitRequests

One action per tool call up to its first await, then `Acquire` (the provider
slot), `Submitted` with one of the gateway's answers (`Replies`), and `Record`. The
`...Ambiguous` operators are the five adapters' classifications, each read from its own
except clauses. A VOD poll names an operation, possibly not the task's; `Fetched` and the
`...View` operators say what that operation's parser makes of the answer. The
operators of `MediaKitRequests` hold the tool's validation and the adapter's beside each
other: a request the second refuses after the first accepted it is an uncaught error
that leaves no task. `Owns` is `require_owner` with its exception: a principal of the local
profile (`Local`) reaches a task that has no row, as one has between the provider's answer and
`Record`, or for good when `RecordFails`; `unrecorded` remembers that a poll or a cancel
was admitted so.

### AssetLibrary and UploadedKeys

`AssetLibrary` has several servers with a lock per subject each (`Enter`, `Leave`),
calls that list, create, add, wait, look and delete one request at a time, and
the other servers' calls in between. A request that changes the library is sent once. When
its answer is lost (a timeout, a broken connection, a 5xx, a cancellation) the lock is given back at
once and the request is carried out before that, later or never (`GivesUp`): `late` holds the
requests of the second kind, and `Lands` carries one out at any time, the end of the call or
the next call's listing included. What a call cannot know it counts in `doubts`, and its
error says so. A JSON success without an ID ("nameless") is a success to the gateway; for an asset
it ends the call in the `ValueError` of `asset_uri("")`, answer `crashed`. IDs of removed groups and
assets come back, which the provider's do not: that only adds behaviours.

`UploadedKeys` runs the items of a batch concurrently: `PutObject`, `PresignItem`,
`RecordItem` for each, with failure at each and cancellation of all. `OwnsKey` is
`require_owner`, with the touch that renews the row (`Touched`) as part of the same
action. `PresignKey` stands for `media_presign` and the `object_key` sources of
`ark_asset_create`.

### Understanding, Transcription

One call is followed through each; what other calls do to it is that a reservation may
be refused. In `Understanding` the attempts of `json_retry`, the repetitions of
`call_with_retry` within an attempt, the fallback from files to direct audio, saving and
`Clean` are separate steps; `billed` counts what the provider charged, and any reply of
`Unclear` may have been charged. `Repeats` follows the code: throttling and connections that failed or
broke are repeated, a 5xx is not (a completion counts as a mutation, so it is ambiguous), nor a
timeout (`retry_timeouts=False`). `Discard` deletes the file of an unreadable upload.
`CancelQuery` is a cancellation at any other await, `CancelDeletes` one that arrives while files
are being deleted, when `gather` cancels deletes that were not sent. In
`Transcription` the retry wraps submit and queries together, as the code does, so an
error of a query submits again: the id is made once per call (`IdOfCall`).

### PrincipalSlots, HttpGate, StateMigration

`PrincipalSlots` numbers the semaphores that are made for a principal; a call keeps the
one it looked up before it waited. `HttpGate` counts tokens in units of the refill
per tick, and evicts refilled buckets when there are too many; `admitted` is a history
variable that counts, for every tick, the requests of a client let through until then. `StateMigration`
takes `_ensure_schema` one statement at a time; `Statement` commits at once unless an
INSERT has opened a transaction (`pending`), as Python's sqlite3 does; `OldServer`
lets a release of the old schema run after a crash and record rows of its own.

### MCServices

Nine of the modules share neither state nor calls. `MCServices` is their sum:
one part is chosen and runs from its own initial states while the others stay
in theirs. Its states are therefore the sum of the parts' states, not the product, and
nothing is claimed about interleavings of two parts.

## Runs

A "violation" run checks one statement that documentation, a specification or a comment
makes and that the code does not keep; see [Divergences](#divergences). Each passing
property also has a mutant in `PROJECT.json` that breaks it.

| Run | Instance | Properties |
|---|---|---|
| `billed_safety` | 3 calls of 2 principals (one local), limit 2, estimates 2, 1 and 1, one slot, 2 attempts, SQLite errors, crash | `BilledWithinLimit`, `AtMostOneAccepted`, `SlotsConserved`, `ImplementsBudget` |
| `billed_days` | 2 calls of one principal, 3 days, retention 1 day, one slot; fairness | `SettledOnce`, `EveryCallEnds`, `CancelledIsSettled` |
| `billed_dangling` | violation | `NoDanglingReservation` |
| `artifacts_calm` | 3 polls of one task, 2 outputs, each family; cache TTL 1, artifact TTL 5, time 6 | `NoEarlyDuplicate`, `ReturnedRefsExist` |
| `artifacts_faults` | 3 polls of 2 tasks, room for one row; cancellation, SQLite errors, crash; fairness | `EntriesMatchPolls`, `OncePerFlight`, `EveryPollEnds` |
| `jobs_guard` | 1 job, 2 slots, a request by either principal, retention 2, time 4, a crash, SQLite errors; fairness | `NoReplay`, `OnlyOwnerReaches`, `EveryJobEnds` |
| `jobs_claim` | violation | `FailedClaimCancels` |
| `batch_deadline` | 3 variations, 2 at a time, each factory, with and without persistence, SQLite errors; fairness | `SafeToRepeat`, `ReceivedIsReturned`, `BatchEnds` |
| `tasks_safe` | 3 tasks, 2 remote principals and a local one, pages of 1, slices of 2, 1 slice per page, 2 attempts, retention 0 | `ReturnedIsOwned`, `NothingForeign`, `ListingExact`, `PollAnswersAll`, `DeletesAsExpected` |
| `store_shared` | 2 workers, 1 artifact, 2 principals, TTL 1, time 2, 2 attempts, 1 redirect, 1 crash, both backends and both writers; fairness | `OrphansAreCutPuts`, `ImplementsStore`, `ExpiredIsSwept` |
| `services_safe` | the nine parts of `MCServices`, one at a time | `FinalsRenderOwnDrafts`, `BodiesFitTheirModel`, `LostTasksAreFlagged`, `OnlyCreatorsReach`, `OneGroupPerServer`, `NothingHidden`, `DeletesOnlyUnseen`, `KeysStayWithUploaders`, `CallAddsUp`, `OneTaskPerReservation`, `AtMostTwicePrincipalLimit`, `RateHolds`, `NoRowLost` |
| `answers_kept` | violation | `BilledAnswersAreKept` |

Why these bounds are enough.

* *Calls*: the ledger's races are between the thread of one abandoned reservation and
  another call of the same principal; a third call of somebody else makes the slots
  contended. Estimates 2 and 1 against a limit of 2 conflict in every
  order. One provider slot makes a leaked one starve the other call.
* *Polls*: a lock with a holder, a waiter and a newcomer; two tasks and one row make
  eviction happen. The two TTLs differ so much that a row can age while its artifact lives.
* *Jobs*: jobs do not interact, so one job with two slots has all its races; time 4
  against a retention of 2 lets everything be pruned before the end.
* *Variations*: one running, one waiting for the semaphore and one beyond.
* *Tasks*: two of one owner share a day (tie) or not, the third is foreign; page 1 and
  slice 2 cut a slice in the middle and at its end; one slice per page makes empty
  pages with a cursor. With retention 0 a row may be pruned as soon as a day has passed, and
  one day passes. `MaxChanges` counts the changes tasks make by themselves and lost
  records, per session.
* *Artifacts*: two workers are a put, read or export against a sweep, or two
  sweeps, on one pair of files; ids are random, so two ids do not meet. One redirect and two
  attempts take every branch of the downloader's loop.
* *Services*: media tasks: two calls of a remote and a local principal, two tasks, one slot:
  a create that waits, one whose task is reached before or without its row by somebody
  else's poll, and two whose tasks compete. Assets: two servers, two calls, one subject, two groups and
  one asset: two servers, or a call and a request that was given up, make a group each; a call with two
  sources may make the asset again after it was removed. Keys: two keys of a batch, one
  uploader, and a last day behind the retention. Understanding: two files, three
  requests with repetitions. Semaphores: three calls and a TTL of 2 against calls of length 1, so that
  a call may hold a forgotten semaphore. Rate: room for one bucket and two clients.
  Migration: two rows, two values, three starts. Requests: media at and beyond each family's
  limits, durations −1, 3 and 16, counts 0, 1 and 11; of the models one for each set of
  capabilities.

`MaxDay`, `MaxTime`, `MaxNow`, `MaxCrashes`, `MaxChanges`, `EndOfTime`, `LastDay`,
`LastHour`, `LastTick`, `MaxRestarts`, `MaxRounds` and `MaxPolls` bound counters; no property
is stated about the last value of a bound. Where `artifacts_calm` and `services_safe`
declare a symmetry, the permuted values occur in no other constant (in `services_safe` they are the
calls, servers and groups of the asset library), and no liveness is checked there.

`CHECK_DEADLOCK FALSE` is set where the modelled activity really ends: all jobs over,
batch summarised, session over, call answered, time out. `BilledCall` and `TaskArtifacts` have an explicit
`Terminated` step instead, so there a deadlock would be reported.

Left out of passing runs on purpose: the outcomes `transport_error` and
`invalid_response` of `BilledCall` and the answers `transport` and `malformed` of
`VariationBatch`. The gateways call them unambiguous although the provider may have
acted, so `AtMostOneAccepted`, `BilledWithinLimit` and `SafeToRepeat` fail with them;
the theorems carry the same condition. `SafeToRepeat` leaves out
`UNEXPECTED_ERROR`, for the reason given under [Divergences](#divergences). `GATHER_ERROR` of
`_parallel.py` cannot occur, since every factory catches `Exception`. `Durable` = FALSE
and `Local` = TRUE are in `BackgroundJobs` and in its proofs, but not in a run.

### Fairness

* `BilledCall`: weak fairness of everything a call does by itself – the event loop runs
  ready tasks, threads finish, httpx timeouts end requests, sleeps end – and strong
  fairness of lock and semaphore grants, because asyncio serves waiters in
  order. None for cancellation, crash, midnight.
* `TaskArtifacts`: weak fairness of a poll's own steps (downloads have a deadline,
  threads end), strong fairness of entering the lock.
* `BackgroundJobs`: the worker takes a queued job and finishes it; the queue delivers
  again when no execution is left. That is at-least-once delivery, the assumption under which
  `EveryJobEnds` is meant.
* `VariationBatch`: only the deadline timer, the runner and steps that wait for
  threads. Slots, provider calls and downloads may hang for ever, since the deadline is
  there for them.
* `ArtifactStore`: weak fairness of time and of the steps of an operation that has begun (file
  operations return, downloads have a timeout); strong fairness of beginning a sweep,
  because the lifespan's timer comes back every hour, whatever else the workers do between.
* `GenerationTasks` and the modules of `MCServices` state no liveness. That a followed listing
  arrives at its end with everything it owed is the safety property `ListingExact`.

## Divergences

| Run | The code | The words |
|---|---|---|
| `billed_dangling` | `reserve()` is awaited before the `try` of `billed_provider_slot` (`runtime.py:996`), so a call cancelled during it leaves a row `reserved` | `docs/runtime.md:325-327`: "a cancelled call never leaves a dangling reservation" |
| `jobs_claim` | only a `PermissionError` of the claim cancels the enqueued job (`tools/background_jobs.py:133`) | `specs/SPEC_BACKGROUND_JOBS.md:123`: "If the claim fails, the new job is cancelled" |
| `answers_kept` | the handler catches `ProviderError` only (`tools/_understanding_shared.py:331`); a second attempt that the budget refuses raises `BudgetExceededError`, and the first, billed answer is lost | the comment at lines 347-348: "the previous attempt was billed and produced an answer: keep it" |

Further ones that have no run of their own:

* Where there are no directory descriptors, `write_output_file` ends in
  `os.replace(tmp, target)` whatever `overwrite` says (`security/output_paths.py:319`), so a file
  that the user writes after the checks of lines 305-312 is replaced; `docs/security.md:324` says
  "**No silent overwrite.** Publishing is exclusive unless `overwrite=true`". `PublishPortable` is that
  writer; the other one, `Publish`, is exclusive by a single link(2).
* The lock of a subject is given back when the creation of its group times out or is cancelled
  (`tools/_asset_shared.py:145`), and the provider may carry it out after the next call has listed
  the groups; the docstring of `tools/ark_asset_group_ensure.py:22` says "Creation is serialized per server
  process". `OneGroupPerServer` says what is left of that: one of the two was given up.
* An asset that comes back without an ID ends the whole `ark_asset_create` in a `ValueError`
  (`domain/assets.py:35-42`, called at `tools/ark_asset_create.py:105`), which hides it, the
  items before it and a new group; line 5 says "Per-source failures are reported inline".
  `NothingHidden` names it as its exception.
* When the ownership store raises after a VOD or OmniHuman task was accepted, the task's ID is
  lost with the exception. `LostTasksAreFlagged` names it as its second exception.
* A connection that breaks after the request was sent is retryable and not ambiguous
  (`providers/base.py:168`): it is repeated and in the end the reservation is released.
  `domain/errors.py:49` describes `ambiguous_completion` as "True if a mutation failed
  after dispatch". `BilledCall` has the outcome (`transport_error`), and with it
  `AtMostOneAccepted` fails.
* An error of the ledger or the ownership store after a generation becomes
  `UNEXPECTED_ERROR` with `ambiguous_completion=False` (`tools/_seedream_shared.py:213`);
  `domain/models.py:194-196` describes the field as "Whether the provider may have
  partially completed despite the error".
* The status a cancel expects is checked in one request and the DELETE sent in another
  (`tools/gen_task_cancel_or_delete.py:148`), so a cancel may delete a task that ended
  in between; its docstring (line 93) says "refused unless expected_status matches the
  task's actual status". `DeletesAsExpected` is the part that does hold: a *delete* is
  safe, since a deletable status never changes to another one.
* A 2xx answer that cannot be read is called unambiguous by the creates of Seedance
  (`providers/modelark/seedance.py:30`) and by three VOD adapters (enhance, transcode,
  separate audio), although the task may exist. `LostTasksAreFlagged` names the three as its first exception.
* A call that waits for its principal's semaphore already holds a slot of the provider, so one
  principal with many calls can hold up the others; `docs/runtime.md:64-66` says of the
  bound that "distinct tenants must not starve each other".

## Proofs

All theorems are `Spec => []P` or `Spec => [][A]_vars`, or the refinement of one
specification by another, for the specification without
fairness, for any values of the constants that meet the named assumptions of the
modules: `SpendingAssumption`, `BilledCallAssumption`, `BackgroundJobsAssumption`,
`RetentionAssumption`, `TaskArtifactsAssumption`, `StoreAssumption`,
`VariationBatchAssumption`, `GenerationTasksAssumption`, `RequestAssumption`,
`MediaTasksAssumption`, `AssetAssumption`, `KeysAssumption`, `UnderstandingAssumption`,
`SpeechAssumption`, `SlotsAssumption`, `GateAssumption`, `MigrationAssumption`. They say that
sets are finite, owners are among the principals, limits are positive, and markers
(`Nobody`, `NoRow`, `NoCursor`, `Absent`, ...) are no values. Three say more than that:
`RetentionAssumption` (see below), the bound `LongestCall <= Ttl` in
`SlotsAssumption` (no call outlives the TTL of its principal's semaphore, a day in
the code; calls end after minutes), and `MaxJsonRetry \in 0..2` in
`UnderstandingAssumption`, which is the field's own bound. Theorems about what
the provider acted on exclude, as their own `ASSUME`, the outcomes listed above that
the gateways misjudge.

Every safety property and action property of a passing run is proved.

**BilledCall_proofs.** `TypeCorrect`, `SlotsNeverLeak`, `DailyLimitHolds`,
`OneRequestPerReservation`, `MoneyWithinLimit`, `SettlementIsFinal`,
`LedgerImplementsBudget`, after lemmas about sums. `JobInv` relates the
await a call is in, its ledger job, the lock and its row: without it an UPDATE might come from
a call that holds nothing. `SlotsConserved` is inductive beside it. `Headroom` is what makes
SELECT-then-INSERT safe: the thread that still *holds* the lock and has passed the check
has room for its estimate. A thread that lost the lock by cancellation may insert without
room; its row then belongs to no call (`holding` is false), which is why the theorem
is about the reservations calls work under, and why the sum the code selects, which
counts the orphan too, only errs on the safe side. `AcceptInv` says what was accepted in each await
and settlement: nothing while a repetition is possible, at most one request afterwards, and then
the settlement is not a release. With `WithinLimit` it gives `BilledWithinLimit`. The refinement maps each step to a booking
(the INSERT of a `reserve()` whose caller still waits for it), a settlement, a pruning or a stutter.

**BackgroundJobs_proofs.** `TypeCorrect`, `AtMostOneExecution` (`NoReplay`),
`OnlyOwner`. A claim row may be pruned, so `GuardInv` says: once an execution has won,
either the row is there, or the time of deliveries is over and no execution waits for
its claim. The step of `Prune` is where `RetentionAssumption` is used:
deliveries must not outlast the rows (`docs/security.md`). `OwnerInv` says whose row
and whose admission a request has.

**GenerationTasks_proofs.** `AnsweredIsOwned` (`RowInv`: a row names the
author and is there from the answer until it has aged), `PrincipalsSeparated`
(`ReachInv`: everything a session holds – slice, page, poll, the task to be deleted –
came from rows of its own principal; each step adds only own rows), `DeletesHitExpected`
(`KillInv`: between check and last repetition the task has the expected status or is gone),
`PollsAnswerAll` and `ListingsExact`.

`PollInv`, for the poll: from the list on, the tasks asked about are the found, the failed
and the ones still being fetched, an error is neither of the others, and a status that was
found terminal is still terminal or the task was removed, since no step leads out of those.

`ListInv`, for listings, has a part for each transport. By cursor: everything returned is *not
after* the cursor and has a key that never changes again (`OnceInv`); every task that stayed
listable is returned, on the page, in the slice or after the slice's cursor – or, while the
answer for a slice is awaited, older than a *full* slice (`AllInv`). A cursor is made of the
oldest row of a slice or page, and that such a row exists and that the first `n` rows are `n`,
unless there are fewer, is a fact about orders on finite sets. It is proved by counting instead
of by induction: the position of an element is the number of elements before it
(`Ordered`, `Positions`), positions differ, so by the pigeonhole principle every number
below the size of the set is one (`PositionsOnto`, `PositionsBelow`). By page number
(`LocalInv`): what is not yet returned lies on a page that is still to come, because
as long as nothing leaves the list the tasks before it only become more; a page that is not full is
the last (`ShortPageLast`). This is where `calm` is needed, and only for the local transport.

**TaskArtifacts_proofs.** `EntriesAgree` and `StoredOncePerFlight`. `TypeInv` comes first:
which copies a memo, a row and a poll may hold. `LockInv` relates phases, users and holder: the
holder of a task's lock is the one poll in a phase behind it, its users are the polls that have
registered, and an entry without users has no memo. From it follows `EntriesMatchPolls`. `MemoInv` says that the memo
of an entry in use has every copy of its flight and that the holder works with what the memo has,
so the next holder copies nothing again; it is stated for the two families that have a
memo.

`ReturnedExist` (`ReturnedRefsExist`) holds through cancellations, SQLite errors and crashes, under
`ArtifactTTL > Span(Cardinality(Outputs))` with `Span(n) == n * (CacheTTL + 1)`: a row is
rewritten with the references it had and one more, so a reference can be older
than its row by a cache TTL (and the tick a flight may take) for every output added later. `AgeInv`
carries that bound through memos, polls, rows and writes whose thread runs on. The defaults are an
artifact TTL of seven days and a cache TTL of one day, and a task has one output or two.
`NoDuplicates` (`NoEarlyDuplicate`) is about `Calm` instances – no cancellation, no
SQLite error, no restart, room for a row per task – as the property is in the run: `CoverInv` finds every copy
younger than the cache TTL in the row of its task or in the hands of the poll that is about to
write it, and `CountInv` numbers the copies. With a fault between store and cache
a second copy is possible and `OncePerFlight` is what remains.

**ArtifactStore_proofs.** `OrphansKnown`, `StoreImplements` (`ImplementsStore`) and
`RefsReadable`, that a reference reads its own artifact until it expires; it rests on the same
invariant and follows from none of the checked properties. `StoreInv` has four parts: types;
`FilesInv`, that a data file has its own artifact and metadata are those of the reference handed
out; `PutInv`, that a put in progress is alone with its id, which has no metadata and, between the two
writes, its data; `SweepInv`, that a sweep only removes what has expired, and removes metadata after
the data. Two sweeps of one directory may be at the same artifact, and a put that was cut
leaves data that no sweep finds: `OrphansKnown` says that nothing else does. The refinement adds
`ReadInv`, that a reader past the owner check reads for the owner, and that what it
holds was its own; without it the step that reads the data would not be one that gives the
artifact to whom it belongs. `StepImplements` maps each step: the second write to `Keep`, the first
unlink to `Expire`, the read to `Give`, the end of a call to `LetGo`, all else to a stutter.

**VariationBatch_proofs.** `RepeatsPayOnce` (`SafeToRepeat`) and `PaidImagesReturn`
(`ReceivedIsReturned`). `BatchInv` has `Known(v)` for every variation: while its phase
is `queued` the provider has not acted; an answer that invites a repeat means it has not
either; and neither does a result that does. `KeptInv` adds that a Seedream variation which is
storing an image has its URL in the partial result. The
deadline reads phase and partial result without waiting, so both must hold in every state,
not only at the awaits.

**Ownership_proofs.** Four modules, each with an invariant of its own.
`LostTasks` and `CreatorsReach` rest on `MediaInv`: a task that exists was made by a call
which is about to record it, or has ended with something other than a clean failure
(`Creator`), its row, if there is one, names that call's principal (`TaskInv`), and a call past the
ownership check works on a task of its own principal, or is local and found no row (`ReachInv`).
`KeysStay` rests on `KeyInv`: a key belongs to one file of one batch, the row, the
object and the URLs of a key have one user, and the row is as young as the last use.
`GroupsAreUnique`, `CreatesAreAccounted` and the action
property `DeletesSpareSeen` rest on `AssetInv`. `SectionInv`: a call that lists or makes holds the
lock of its subject, and while it is about to make a group, every group of that name which its
server has made came late. `LateInv`: of two groups of one name and server one is late, and the
calls of late groups, and of creates still to land, have ended in doubt or cancelled – this is what
makes the exception of `OneGroupPerServer` inductive, since a request may land in any state.
`LookInv`: a delete after its look, or one still to land, meets only files that were added since
(`after`). `MadeInv`: what a call made, or may still make, is in its list or among its doubts.
`FinalRendersAreOwn` rests on `RequestInv`, which
says of a render that waits, and of the body being sent, that it names a task of its
caller and of its model which has succeeded, or has since been removed, and was seen as a
Draft young enough (`FitsDraft`); a succeeded task can only age or
vanish, so nothing that happens while the render waits breaks this. `BodiesFit` follows the
defaults through validators, choice of model and capability checks: whatever a request
omits, the body that passes them has a duration, a count and media its model takes.

**Limits_proofs.** `OneTask`: everything submitted carries the one id of the call.
`TwiceAtMost`: `SlotInv` says that the calls in progress hold one of the
last two semaphores made for their principal, since a third is made only when the
second is older than any call (`LongestCall <= Ttl`), and that each is held by at most its
limit. `RateIsKept`: by `CreditInv`, the requests since any tick and those the bucket would still
admit at once are together at most the burst and the refill since that tick; a
bucket that is evicted has refilled completely, so forgetting it gives nothing away.
`CallsAddUp`: charges, answers, attempts and broken connections count
in step wherever the call stands (`Counted`); the files whose ids were told have been asked to be deleted
wherever the call is past its deletes, unless these were cut (`Asked`); and an answer is in
its file or in the result once it is saved (`Delivered`).
`MigrationLosesNothing`: `Merged` is what a migration
from here would make of the tables, and the invariant says that it is at all times what
was recorded: for the committed tables (`Sound`, which a crash falls back to) and
for what the open transaction sees (`Stage`, by the statement that comes next).

Only model-checked: the liveness properties (`EveryCallEnds`, `CancelledIsSettled`,
`EveryPollEnds`, `EveryJobEnds`, `BatchEnds`, `ExpiredIsSwept`), since liveness under
fairness needs `ENABLED`, which is beyond TLAPS here; and the three statements of
[Divergences](#divergences), which TLC refutes.

## What is not modelled

* Requests and responses of 3D generation, the parsers of provider answers, the queue
  estimate of Seedance, request signing: conversions of one value each. Answers appear as
  classes, as the gateways' except clauses tell them apart.
* The media policy, URL and address checks, size limits of downloads, allowed output
  paths: predicates on one input, without state.
* Pricing: arithmetic on one request; an estimate is a number in `BilledCall`.
* The other HTTP middlewares and token verification: they look at one request at a time, and
  tokens are a library's.
* The SDK clients of TOS and S3, SQLite, asyncio and the Docket queue are external; they are modelled from how
  the code uses them.
* Settings are read once at start and are the constants of the models. Logging, metrics
  and redaction are read by nothing in the system.

## Plan

Done: all modules above, the runs, and proofs of every safety and action property that a passing run
checks.

Left:

1. `TaskArtifacts` over `StoreSpec`, which `ArtifactStore` is proved to implement, instead of
   copies that appear in one step.
2. 3D requests in `GenerationRequests`; limits and address checks of the downloader
   as operators of `ArtifactStore`.
3. Estimates as functions against a reference over bounded inputs.

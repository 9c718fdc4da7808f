# A verification project for ReconBanker

ReconBanker watches bank accounts through a browser, stores the movements it
sees, and either reports each one to a webhook (*passthrough* accounts) or
matches it with an order of the customer's ERP (*reconcile* accounts). This
directory holds TLA+ models of its backend (`src/src/`) and of the pages of its
web client (`src/client/src/`) that change something, the TLC runs that check
them on small instances, and TLAPS proofs of their main safety properties for
instances of any size.

Paths below are relative to `src/src/` unless they start with `client/`, `docs/`
or are the repository's `README.md`. `PROJECT.json` maps every definition to the
lines it translates.

    tlc -workers 2 -config ConciliationRaces.cfg MCConciliation
    tlapm Conciliation_proofs.tla

1. [The system](#1-the-system)
2. [The models](#2-the-models)
3. [The runs](#3-the-runs)
4. [Fairness](#4-fairness)
5. [The proofs](#5-the-proofs)
6. [What the code does not keep](#6-what-the-code-does-not-keep)
7. [What is only checked, and what is not modelled](#7-what-is-only-checked-and-what-is-not-modelled)
8. [Plan](#8-plan)

## 1. The system

One Node.js process runs everything: HTTP API, BullMQ workers (Redis), a timer
(`Scheduler`), the browsers and an in-memory event bus. PostgreSQL holds the
tables. A step of JavaScript runs from one `await` to the next; the real
concurrency is between those steps, between PostgreSQL transactions, and with
the operator, the bank, the customer's endpoint and the browser tab.

    ERP --poll--> conciliation_requests ---+
                                           +--> engine --> conciliated_transactions --> webhook
    bank --session--> bank_transactions ---+
            |                 |
            |                 +-- passthrough account --> webhook --> (dead letter, re-drive)
            +-- code requests, run rows, alerts --> Redis --> open pages, chat

| Component | State | Operations | What is hard | What makes it correct |
|---|---|---|---|---|
| **Conciliation use cases** `contexts/conciliation/application` | orders, attempts, pairs, `excluded_at`; queues `conciliation`, `tx-conciliation`, `webhook` | run an order, process a payment, poll, expire, feed | two matching directions with opposite lock orders; unlocked reads; events after the commit; retries | a payment settles one order; the rows agree; decisions stay; nothing untrue is announced; nothing waits for ever |
| **Match engine** `contexts/conciliation/domain` | none | evaluate one order against candidates | ties, absent or contained names, direction of the comparison | the verdict is a function of the payments that fit (the documented rule is another, section 6); both directions score alike |
| **Session manager** `contexts/banking/infrastructure/SessionManager.ts` | `live`, `starting`, `bank_sessions`, scrape jobs | ensure, end, kill, reactivate, stop all, boot | launches that overlap, late writes of old sessions, database errors in handlers and in the boot, crashes | one browser per profile; rows agree with sessions; slots are freed; accounts come back |
| **Webhook delivery** `NotifyBankMovementUseCase`, `NotifyWebhookUseCase`, `shared/infrastructure/webhooks` | `notified_at`, `is_notified`, dead letters, jobs | claim, post, log, release, dead-letter, re-notify | crash between claim and post; a delivery reported as failed; detached handlers; job ids that block | deliveries are bounded by the claim; flags are true; letters stay open; what is asked for arrives or dies visibly |
| **One-shot script and ingestion** `scripts/mi-dinero`, `IngestTransactionsUseCase` | captured answers, the batch, `bank_transactions` | log in, select the card, capture, pair, open details, ingest | answers of another account or of an older moment; positions that shift; partial batches | what is stored under a reference is that payment's data, while the account stays as it was; no payment is skipped in silence |
| **Session monitor** `runMonitor.ts`, `scripts/bancopichincha` | `seen` set, deadlines, pages captured | wait, poll, fetch details, ingest, keep alive | ids marked before they are saved; a list that moves while its pages load; day rollover; calls without a time limit | no movement of the day that has an id is skipped while the session goes on |
| **OTP assistance** `OtpAssistanceCoordinator` | pending row per account, Redis stream per request | open, wait, resend, submit, cancel | old and new sessions share the row; a killed session goes on waiting; a live one may listen on a closed row | a pending request has somebody to end it; an accepted code is not lost |
| **Scrape runs and alerts** | runs, steps, streaks and alert marks | open and close stages, judge, notify, mark orphans, prune | zombie runners, best-effort writes, the reset at boot against live runs, bookkeeping in several statements | a closed run tells what ended it; verdicts stand; an alert goes out when due, and once |
| **Users, two-factor, API keys** `contexts/user` | one row, backup codes, keys, history | enrol, confirm, verify, disable, change mode, revoke | every use case saves the whole row it read; the wipe of a mode change is several statements | codes exist exactly with the second factor; a change of mode takes all there was when it began, or nothing |
| **Accounts and configuration** `contexts/account` | accounts, configuration, credentials | create, configure, delete | masks resolved against what is stored now; two statements | a confirmed save is what the page shows next |
| **Script lifecycle** `contexts/script-engine` | `bank_scripts` | publish, promote, deprecate, load | snapshots, stale copies, partial indexes | one active script per scope; a script gives way only to one as close |
| **Realtime bus and gateway** | Redis channels, open sockets | publish, route, drop a slow consumer | events lost while a page hydrates | the page's alerts agree with the table |
| **Web client** `client/src` | query cache, forms, socket | the pages that change something | answers that arrive after what overtook them; caches | (in the rows above) |
| **Queues and scheduler** | Redis jobs, timers | add, retry, fail, tick | job ids de-duplicate, failed jobs included | no tick is lost for good |
| **Chat notifier, order source, read models, CLI, infrastructure** | none of their own | I/O | | section 7 |

How they meet: the use cases share PostgreSQL rows (locks, unique indexes) and
start each other through queue jobs that the event bus adds after a commit; the
session manager is driven by jobs, by the health-check tick and by the operator,
and its sessions run the monitor loop, ask for codes and write run rows; webhooks
are driven by jobs only; the pages talk to the API and listen to the socket. The
modules compose accordingly:

    Ledger        <== Conciliation (refines)
    Lease         <== SessionManager (refines)
    Assistance    <-- Dashboard           the page over the code requests
    Alerts        <-- ScrapeRuns          runs call the failure notifier
    Requests      <-- Users    <-- SettingsPages
    Requests      <-- Accounts <-- Catalog <-- AccountPages
    Lists         <-- Bank <-- PollLoop, MiDinero    the account's list and the stored rows
    Matching      <-- MatchEngine         payments that arrive, one order
    Matching      <-- MCConciliation      the engine says who fits whom in the runs
    Webhooks                              stands alone

## 2. The models

A step of a model is one SQL statement, one queue operation or one stretch of
code between two awaits, whichever is the finest that another actor could see.

### `Conciliation` (with `Ledger`)

One reconcile account. `run[w]` and `tx[w]` are the executions of the two
workers with their program counters; locks are not stored but derived from them
(`RunHolds`, `TxHolds`, `ReqLocked`), and so are the uncommitted entries of the unique
index (`RunClaims`, `TxClaims`). A statement that PostgreSQL would make wait is
disabled. Committed tables are `status`, `retries`, `attempts`, `ingested`,
`excluded` and `primary`; jobs are the attempts they have left.

| Code | Actions |
|---|---|
| `RunConciliationUseCase` | `RunLock`/`RunSkip` (`FOR UPDATE SKIP LOCKED`), `RunFindsOne`/`RunFindsNoOne` (unlocked candidates, engine), `RunInsert`/`RunLoses` (index), `RunExclude`, `RunCommitsPair`/`RunCommitsMiss`, `RunPublish`, `RunCompletes`, `RunAttemptTaken` |
| `POST /:requestId/run` | `ManualRun` |
| `ProcessIncomingTransactionUseCase` | `TxLock`/`TxSkip`, `TxFindsWinner`/`TxFindsNone`, `TxDrop`/`TxKeep`, `TxInsert`, `TxCommit`, `TxPublish` |
| `IngestTransactionsUseCase` with `OnTransactionIngestedUseCase` | `FeedSave`, `FeedCheck`, `FeedEnqueue`, `FeedExclude` |
| `PollPendingOrdersUseCase` | `PollFetch`, `PollCreate`, `PollEnqueue`, `PollCancel` |
| `ExpireStaleRequestsUseCase` | `ExpireScan`, `ExpireLoad`, `ExpireSave`, `ExpireNotify` |
| PostgreSQL's deadlock detector | `DeadlockAborts` |
| faults | a queue that refuses (`...Fails`), `Crash` |

Abstractions: the engine is the relation `Fits` (constant, any relation); one batch
of the feed is one payment at a time; `PollCancel`'s update of several rows is one
atomic step, taken when no row it wants is locked; the poll's guards on mode and
configuration and the restriction to one account are left out, because the model is
one configured account; time is abstract, so `ExpireScan` may pick any open order; a
manual run asked for while a job of the order is queued or in hand is merged with it,
and it spends the bound of the faults.

`Ledger` is the promise in two actions: settle an unsettled order with an
unspent payment, retire a payment. `ImplementsLedger` says that every commit of the
detailed model is one of them under `paid <- primary`, `retired <- excluded`.

### `Matching` and `MatchEngine`

`Matching` has `Evaluate` and what it is built from: `ExactAmountRule`, `DateWindowRule`, `FuzzySenderHeuristic`
(word sets, Jaccard, containment). `normalizeName` is the constant table
`Normal` from names to sequences of characters, so that any normalisation is
covered; words are computed from those sequences. A score is counted in sixtieths:
0.8 is 48, and Jaccard quotients are exact for up to six words in the union. The order
of candidates with equal scores does not reach the verdict and is left out. `MatchEngine`
lets payments arrive one at a time for one order (`EngineSpec`). Module `MCConciliation` takes
its relation `Fits` from the engine: its orders and payments have names, and the assumption
`EngineFitsAll` says that each payment matches alone.

### `SessionManager` (with `Lease`)

`sess[s].stage` is where the launch, or the handlers of a handle's `done`, stand;
`live` and `starting` are the two maps; `row` is `bank_sessions.status`; `job`
and `worker` are the queued scrape job and what its execution awaits; `light` is
the last lifecycle event of the dashboard. `WorkerLaunches`, `WorkerJoins`,
`WorkerFindsLive` and `Reactivate` are the callers of `ensureRunning`; `Opens`, `OpenFails`,
`RefusalRecorded`, `RefusalLost`, `Marked` and `MarkFails` go through it; `Authenticates`,
`SessionLost`, `SessionStops`, `BrowserCloses`, `DoneResolves` and `DoneRejects` are the
session's own; `EndRecorded`, `EndWriteFails` and `CrashWriteFails` are `handleEnd` and the
`.then/.catch/.finally` around it; `ResetOrphans`, `SchedulerStarts`, `BootFails`, `StopAll` and `Restart` are the process.

Abstractions: `startFn` is one awaited step that gives a handle or rejects;
`assistedPersistent` is chosen when it gives one, which is when the code stamps it; the
health check's read of the row and its enqueue are one step; a browser dies
with the process; `max_runtime` is left out because nothing configures it. The workers
run from the first instant (`index.ts:55`) and the reset of orphans comes later
(`:72`): `phase = "boot"` is the time between. Then the scheduler makes its first round
(`"starting"`) and sets its timers (`"up"`). Both are awaited without a handler: one that
rejects (`BootFails`) leaves the process up and `"unscheduled"`.

`Lease` is the promise without handles, handlers, jobs or verdicts: the profile of an account
belongs to one holder, from the call of `startFn` to the write of the end, and
the account's row is written by the holder when its launch settles and when it
gives the lease back, or by the boot. `ImplementsLease` maps `holder` to the launch that
the maps name (`Holder`) and `settled` to the accounts that are past their launch
(`PastLaunch`). It is proved (section 5); TLC agrees on the instance of `Sessions`,
where it can be added to the PROPERTIES of `Sessions.cfg`.

### `Webhooks`

`job[x]` is where the job of a subject (a movement or an order) stands and the
attempts it has left; the stages `claim`, `post`, `log`, `audit`, `release` and `mark` are
the awaits of the two use cases and of `LoggingWebhookSender`. A movement is
claimed before it is sent and released after a failure; an order is marked after
it is sent. `events[x]` are the detached `completed` and `failed` handlers that keep
the dead letters. Both re-notification routes are actions (the movement's, which
frees the claim and the job id, and `RequestRenotified`, the order's). `delivered`,
`misheard`, `redriven` and `owed` are history variables: they record what the
endpoint saw and what the operator is owed.

Abstractions: the configuration is fixed in a behaviour; movements and orders
belong to accounts of different modes and share only that configuration and the
process, so having both at once allows more than the code; a read that fails before
the claim is `ClaimFails`, and one before an order's post counts as a refusal, with the
same outcome; a movement has one re-notification in progress at a time; an order's
repeated notification has a job of its own in the code, the model has one job of an order
at a time and asks when none is queued or in hand; the second job id of an expired order
and the dead letters of the conciliation queues, which no route re-drives, are left out.
`Queue.remove` of BullMQ leaves an active job alone; the number of times BullMQ hands out
a stalled job is not bounded.

### `Lists` and `Bank`

What both bank scripts share. `Only` is `Array.prototype.filter`, said through the positions
that are kept, which is what lets the proofs do without induction over lists. `Feed` is the
account's movements in the order they arrive; `Listing(k)` is the list, newest first, when `k`
of them had; `posted` is how many have, and `db` is `bank_transactions`.

### `MiDinero`

The one-shot scripts `extract_transactions.v2.0.0` to `v2.0.2` run by a job, and the
ingestion of what they return. `page` is the browser (card selected, clicks, answers
captured), `script` the running script and its batch; `steady` is history, whether the account stayed as it
was from the click on *Ingresos* until the table was read. `given` is history, the payments a scrape
gave up: a detail it skipped, the rest of the list after a failure, and, where a row was stored with
another payment's data, everything from that row down. The last is what the code does, and
more than the row itself: the mixed reference is in the table, so the next scrape
that meets it may stop there, and what lies below is not looked at again.

| Code | Actions |
|---|---|
| job, login | `StartScrape`, `Navigate`, `FillLoginForm`, `SubmitLogin` |
| the response listener | `CaptureMovements` |
| selection of the card and of *Ingresos* | `ClickEmpresasCard`, `SelectEmpresasCard`, `ClickIngresos` |
| the wait, the choice of an answer and its pairing with the table | `AwaitMovements`, `FilterMovements`, `ReadRows` |
| the loop over details, its `catch` and the return | `OpenDetail`, `ExtractionFails`, `ScriptDone` |
| `IngestTransactionsUseCase` | `StoreNext`, `StoreFails`, `ScrapeEnds` |
| the bank | `PaymentArrives` |

Abstractions: DOM probing (points, rectangles, snapshots) is a click that selects the
card or does not; minutes stand for a movement's time; version 1.0.0, which the later ones
replace, is left out.

### `PollLoop`

`runMonitor` around the poll of Banco Pichincha (versions 1.0.0 to 1.0.2) and the
ingestion of what is fresh, over the same `Bank`. `monitor` is the loop (step, `seen`, current day), `poll` the
poll in hand (tries, pages captured and merged, batch), `day` the calendar day.

| Code | Actions |
|---|---|
| launch and end | `Launch`, `Login`, `Authenticate`, `SessionEnds`, `SessionEnded` |
| the loop | `LoopTop`, `CheckSession`, `KeepAlive`, `Sleep`, `NoteFailure` |
| the script's poll | `OpenMovements`, `LoadPages`/`EndPages`, `FetchDetail`, `BuildBatch`, `PollFails` |
| fresh ids and their ingestion | `TakeFresh`, `IngestNext`, `IngestFails`, `IngestDone` |
| the bank and the clock | `MovementArrives`, `Midnight` |

A movement may have no `transactionId` (`numbered`): pages merge it again each time they
show it, and the poll does not hand it over. `Limited` are the steps that a time limit
or the loop itself brings about, `Unlimited` those that wait for a call without one.

Abstractions: as in `MiDinero`; the page cap, the retries and the days are bounds of the
configuration; the session-lifetime timer, which nothing configures, is left out; after its last
day the model's clock stands still.

### `Assistance` and `Dashboard`

One assisted account. `row` is the status of each request, `stream` the Redis stream of
a request with its group and unread codes, `sess` what the sessions' scripts wait for,
`submit` the submission in progress, `wire` the events published. A session that ends
while its script waits leaves the waiting promise behind; it goes on reading, resending
and re-opening.

| Code | Actions |
|---|---|
| launcher and script | `Launch`, `NoOtp`, `SessionEnds`, `Forgotten` |
| `OtpAssistanceCoordinator` | `OpenRequest`, `OpenWaiter`, `OpenFails`, `TakeCode`, `Resend`, `ResendAnnounced`, `WaitFails`, `MarkFulfilled`, `CloseWaiter` |
| cancel on `done` | `CancelFind`, `CancelClose`, `CancelFails` |
| `SubmitAssistanceCodeUseCase` | `SubmitFind`, `SubmitAdd` |
| process | `Crash` |
| `RealtimeGateway`, `client/.../useRealtime.ts` | `Connect`, `Disconnect`, `Route`, `DropConsumer`, `EventLost`, `Hydrate`, `HydrateArrives`, `Reload`, `ServerDies` |
| the modal, or a client of the API | `PanelSubmits`, `ApiSubmits`, `CodeAdded`, `PostArrives` |

Abstractions: events are routed before anything else happens; the session light is
`SessionManager`'s; `orphan`, `stray`, `owed`, `untrue` and `doubt` are history. `orphan` are the requests
that a session opened after its end, or that a failure or a crash cut off; `stray` those that the
resend of a live session opened because a late cancel had closed its own. A page is *in doubt*
once an answer under way was overtaken by an event, or an event was lost; nothing
is claimed of it until it is reloaded (constraint `Undoubted`; section 6 has what
can happen then).

### `ScrapeRuns` and `Alerts`

An execution has two threads: the runner, which goes through the stages of
`PlaywrightRunner` or of `PersistentPlaywrightRunner` and `runMonitor`, and the verdict, which
closes the row when the runner settles or is cut off. A runner that was cut off goes on
and records stages under a run already judged.

| Code | Actions |
|---|---|
| executions and stages | `Start`, `StartAgain`, `OpenStage`, `StageSucceeds`, `StageFails`, `ScriptEnds` |
| what ends them | `AuthTimesOut`, `BrowserClosed`, `FirstPoll`, `MonitorGivesUp`, `MonitorEnds`, `CutSession`, `RunTimeout` |
| `RunBankScrapeUseCase`, `PlaywrightRunner`'s recorder | `Ingest`, `Judge`, `Mark` |
| `RealtimeScrapeFailureNotifier` | `NotifyFailure`, `AlertOnce`, `EnqueueAlert`, `NotifySuccess`, `EnqueueRecovery`, `NotifyFails` over `CountFailure`, `IsDue`, `MarkAlerted`, `Tell`, `Clear` of `Alerts` |
| maintenance and process | `Prune`, `Crash`, `Restart`, `MarkOrphaned`, `OrphansStay` |

Abstractions: texts and the trail of log lines (`TrailBuffer`) are left out; the runs
are of one account; the consumer of the notify stream is not modelled; the recorder's
`closed` guard is never reached twice. `cause`, `cut`, `unmarked`, `torn`, `told` and `missed` are
history. `torn` marks an alert whose bookkeeping a fault or another execution
interrupted: afterwards nothing is claimed of alerts.

### `Requests`, `Users` and `SettingsPages`

`Requests` has requests as handlers execute them: one of the tab that is modelled and
one of anybody else (`Ask`, `Take`, `Answered`, `RequestFails`), each holding what it read.
`Users` adds the user's row, codes, keys and history, and one action per statement
of `LoadUser`, `Login`, `StartEnrollment`, `ConfirmEnrollment`, `ConsumeBackupCode`/`RefuseCode`,
`VerifyLogin`, `DisableTotp`, `CreateApiKey`, `RevokeKey` and `RecordStep`. A change of mode is a transaction
of several steps under READ COMMITTED: `WipePairs`, `WipeOrders` and `WipeMovements` delete what their
own snapshot shows, `ChangeOperationMode` saves and commits, and `Rollback` is a foreign key or a
failure that refuses it. `Record` makes orders, movements and pairs, at any moment, also between
those statements. `wipe` is what a transaction deleted, and as history what there was when it began. `SettingsPages` is the login page and the settings
dialog with the cached answer of `GET /me` (`FetchMe`) and the interceptor that ends
the session on a 401.

Abstractions: passwords, hashes, tokens and TOTP time steps are left out, a code counts
for the secret it was computed from; `GET /me` is atomic, its staleness is in the
cache; the tab has one request at a time; the phone holds the last secret it scanned; the dead
letters and the notices that the wipe deletes first stand for nothing else and are left out.
`torn` is history: a copy overtaken by another save was saved. Nothing is
claimed afterwards (constraint `Untorn`; section 6 has what happens then).

### `Accounts`, `Catalog` and `AccountPages`

`Accounts`: `CreateAccount`, `DeleteAccount` and the configuration's save in its steps
(`PutChecks` with `Malformed` and `Refused`, `PutResolves`, `PutConfig`, `PutCredentials`), `HasCredentials`, and the user's
`ModeChanges`. `Catalog`: `ReadScript`, `MakeOfficial` (publication from the command line),
`ClearScope` and `CommitPromotion` (the snapshot and the commit of a promotion, under the partial
unique indexes), `SaveDeprecated` (a stale copy), `Cascade`, and `Loaded`, the loader's
choice. `AccountPages`: the account list with its create dialog, the configuration page
(`Visit`, `FetchLists`, `Configure`, `FetchConfig`, `Edit`, `Save`, the delete dialog) and the page of
scripts (`Promote`; only other callers deprecate), with `Outcome` and `Handle` as what `onSuccess` and `onError` do.

Abstractions: `Texts` are all the values a field or a column may hold, of which the run types
a few per field (proper, of no value, refused); `NoText` is the empty string;
error texts, the active tab and scroll are left out; the page's cache is dropped when it is
left and fetched when it is mounted; another caller changes only transport and notify
token, which have the hard cases; the mode's change counts as a request of the other;
`delete`'s find and delete are one step. `foreign`, `kept`, `shown` and `fresh` are history.
Constraint `OneStory`: a behaviour of the run is about forms or about scripts, since
the two share nothing but the account's deletion.

## 3. The runs

State counts are distinct states.

| Run | Instance | What it shows |
|---|---|---|
| `ConciliationRaces` | 2 orders, 2 payments, one worker of each kind, 1 attempt, no fault; 745 990 states | one-to-one pairs, rows in agreement, locks, decisions, no deadlock that lasts (and who waits, by guards alone, is who cannot step), refinement of `Ledger`, in every interleaving |
| `ConciliationFaults` | 1 order, 2 payments, 2 attempts, 2 faults, fair; 190 372 states | attempt numbers, truth of the webhooks and parking of ambiguous orders survive crashes and refused jobs; jobs end, pairs are announced, payments are settled |
| `Sessions` | 1 account, 2 handles, 2 attempts, 2 restarts, 2 failed statements, fair; 175 729 states | one browser, truthful rows and alerts, freed slots; relaunch, unless the boot of the process failed |
| `Webhooks` | 1 movement, 1 order, 2 attempts, 2 re-notifications of the movement and 1 of the order, 1 fault, fair; 581 106 states | claim, flags, letters, outcome of every send and of every re-notification |
| `MiDinero` | 5 movements, 3 script versions, 2 clicks, 2 selection rounds, 2 answers a round; 4 683 104 states | while the account stays as it was, what is stored under a reference is that payment; a payment is passed over only where a scrape gave it up |
| `PollLoop` | 6 movements on 3 days, one without a `transactionId` and one without a detail, pages of 1, 2 scrolls, 2 faults, fair; 154 126 states | nothing is marked as seen and lost; a poll that passed today has all of today; unless the session stays for ever in a call nothing limits, every payment with an id is stored, its day is over or the page cap hides it |
| `Dashboard` | 2 sessions, 2 requests, 1 code, 1 resend, 2 attempts of the script, 1 fault; 5 084 728 states | a pending request has somebody to end it, an accepted code is kept, the page's alert agrees with the table |
| `ScrapeRuns` | 2 runs of both kinds, threshold 2, 1 fault; 509 239 states | the failing stage is the one that ended the run, a running row is under way, verdicts stand, alerts are due |
| `SettingsPages` | 1 user, 2 requests of the tab and 1 of another, 2 secrets, 2 orders, 1 movement, 1 fault; 3 022 495 states | codes exist exactly with the second factor; a change of mode takes all there was when it began, or nothing |
| `AccountPages` | 1 account, 2 scripts, 1 request of the tab and 1 of another, 3 edits, 1 fault; 2 343 490 states | a confirmed save is what the page shows; a script gives way only to one as close |
| `MatchedIsFinal` | as small as the counterexample allows; violated | a match can be overwritten by the expiry (section 6) |
| `BestScoreDecides` | 4 orders, any of 11 payments; violated | the documented matching rule is not the code's (section 6) |

Why the bounds are enough to be interesting.

* *Conciliation.* Two orders and two payments that all fit each other are the
  smallest instance with every race: a lost race needs two orders for a payment, an
  ambiguous verdict two payments for an order, and the deadlock one execution of each
  use case. `ConciliationFaults` gives up the second order for faults and
  retries: the lock cycle cannot arise there and is in `ConciliationRaces`, where
  `WorkGoesOn` says that it is always broken. The workers of the two conciliation queues
  take one job at a time (BullMQ's default concurrency, which the code leaves alone),
  so one worker of each kind is a backend process; the proofs give the safety
  properties for any number of workers, which is any number of processes. Two attempts
  tell a retry from a final failure, two faults allow a fault in the recovery from
  another. The payments are interchangeable in `ConciliationRaces`, so symmetry is used
  there; the orders are not, since their numbers are their creation order.
* *Sessions, Webhooks.* Two handles are an old and a new session of an account, and
  handles are used again when they are forgotten. Two re-notifications let the second
  meet the first one's job. One fault is enough in `Webhooks`: its liveness is
  claimed for behaviours without one, and its safety is proved for any number.
* *BestScoreDecides* (`MatchEngine.cfg`). Names cover the equal, shouted, swapped, shortened, initial-only,
  foreign and absent spelling, besides payments of another amount, currency or date.
* *MiDinero, PollLoop.* The movements are chosen so that a detail is dated minutes
  after its list entry, three payments of one day lie within the half hour the script
  tolerates (a mix then shifts onto a third one, which two payments cannot show), others
  do not, an exchange or an outgoing movement sits between them, and one is of
  another day. A page of one movement makes the list move under every page. Day 1 of `PollLoop`
  has four movements and a poll sees three, the first page and two scrolls, so that the
  cap cuts. Scripts 1.0.1 and
  1.0.2 of Banco Pichincha poll alike, so two values stand for three.
* *Dashboard.* The second session is the new one beside a zombie, the second request
  the one re-opened. The sessions are symmetric.
* *ScrapeRuns.* Threshold 2 tells a first failure from the one that alerts. Constraint `Apart`
  (in `MCScrapeRuns`) drops only states whose successors repeat others: an execution
  beside one that is over behaves as it does alone once that row is pruned.
* *SettingsPages, AccountPages.* Two requests of the tab are an enrolment and its
  confirmation, or a code used after another; one request of somebody else is what
  overtakes a copy. Two orders, of which one may be paired, and a movement are enough for a row that is made
  between two of the wipe's statements, before or after the one that would delete it, and for the foreign
  key that refuses the rest; rows are made only while a wipe is under way and no request but
  switches of the mode is (no other use case reads or writes them), and once some were made only switches
  are asked for (`MadeMeanwhile` in `MCSettingsPages`); the first rows are in the initial history. No use case tells one mode from the other, so
  modes are symmetric. Three edits change transport, one of its fields and a secret.

Deadlock checking is off where a behaviour ends because its bounds are spent: `BestScoreDecides`,
`Webhooks`, `Dashboard`, `ScrapeRuns`, `SettingsPages`, `AccountPages`.

Each property of a passing run has a mutant in `PROJECT.json`: one mapped definition changed the way a
plausible bug would change it, under which TLC finds the property violated. The mutated bodies are
operators next to the ones they replace, marked *Mutation*; no specification uses them.

## 4. Fairness

* `Conciliation`: weak fairness of each worker, of taking a queued job, of the
  deadlock detector and of the started poll, feed and expiry. BullMQ polls its queues
  for ever, a started transaction goes on, and PostgreSQL breaks a cycle after
  `deadlock_timeout`. Starting a poll, saving a payment, asking for a run or expiring an
  order is not fair: the ERP, the bank, the operator and the clock owe nothing.
* `SessionManager`: weak fairness of the health check (a `setInterval`), of the worker
  taking a job, of its time limit (`withTimeout`), of the handlers of a handle and of
  the boot (each statement of it is answered or rejected). `startFn`, login and sessions have none: they may hang, and then
  nothing is claimed for the account, nor for a process whose boot failed. `StopAll` leads to an exit because the
  handler of SIGTERM ends in `process.exit`.
* `Webhooks`: weak fairness of a job's own steps, of the detached handlers and of a
  re-notification under way. The endpoint may refuse every time: the answers
  are alternatives of one fair step. The operator owes nothing.
* `PollLoop`: weak fairness of the steps that have a time limit (`Limited`): `isAuthenticated`, `poll` and
  `keepAlive` run under the watchdog, pages and details under the script's own limits, and
  the loop goes on by itself. `hooks.login` (`runMonitor.ts:108`), the wait for a code
  (`OtpAssistanceCoordinator.ts:43`), the rows of the recorder, `onTransactions` (`runMonitor.ts:239`), the
  closing of the browser and the next launch have none: they may hang, with no fairness, and `PaymentsReach`
  then claims nothing (`Waits`). The bank, midnight and faults owe nothing either.

The other modules claim safety only. Faults are never fair, and liveness is stated for
behaviours without a fault where a fault makes it false (section 6 says where that is).

## 5. The proofs

All proofs hold for every value of the constants that satisfies the named
assumption of the module (the types of the bounds, distinct sentinels).

* **`Conciliation_proofs`**: `TypesCorrect`. `TypeInv` is `TypeOK` and what the
  program counters imply about the fields of an execution: who is past the engine holds
  a payment that fits its order, who is idle holds nothing.
  `Safe` is inductive. `OnePayment` and `PairsAgree` are not
  inductive alone: that a commit writes the *first* pair of its order and of its
  payment depends on what the transaction holds. `Safe` adds `Locks` (an
  order under lock is undecided, and held by one transaction), `Claims` (an
  uncommitted index entry is the only one of its payment, and no committed pair has it) and
  `Created` (a job exists only for an order in the table). From it follow
  `PaymentsPairedOnce`, `PairsAndOrdersAgree`, `LocksProtect`, the action property
  `DecisionsStay`, and `ConciliationImplementsLedger`: only three actions write
  `primary` or `excluded` together (`OnlyTheseWrite`), each a `Settle` or a `Retire`, and the
  rest stutter. `Numbered` (the attempts of an order are 1 to n, and n is its retries
  or one more, by its status) gives `AttemptsAreSequential` and `AmbiguousStaysParked`;
  `Publishable` (who is about to publish has its pair committed, and only an expired order
  is announced as expired) gives `AnnouncementsAreTrue`.
  *Deadlock*: `OneCycleOnly`, for any number of executions on both sides. A run waits at the index
  entry of its payment or at the payment's row, a payment's job at the index entry only; who has
  the entry or the row goes on, or waits for the one who waits for it. The theorem is about
  guards (`RunCanStep`, `TxCanStep`); that a step is `ENABLED` exactly when its guard holds is
  the part of `WorkGoesOn` that TLC checks.
  *Nothing is forgotten*: `NothingIsForgotten` is the safety that `PairsAnnounced` and
  `PaymentsSettled` rest on. While no fault has happened, a committed pair is announced or
  somebody is about to, and a saved payment is off the market, with the ingestion, in its
  queue or claimed by a run. `Hand` makes it inductive: a job in hand stays in its
  queue and has one worker (`RunJobsHeld`, `TxJobsHeld`: otherwise the end of one execution takes the job
  of another), an ambiguous order is not run again, so that no commit rolls back over its attempt
  number (`AmbiguousHasNoJob`), and a payment's job decides only what it found open (`LockedIsOpen`).
  Its last part is the engine: `EngineDecidesByFit` (`FittingDecides`) for any table of names and any set of
  payments whose ids differ: one that fits is matched, several are ambiguous, whatever they score. The engine looks at the best score; that a best one
  exists is the well-foundedness of `<` on the distance to 60. `NamesCompareAlike` is the
  symmetry of the score, for which both directions of matching may use it.
* **`SessionManager_proofs`**: the invariant says that the two maps and the handles
  tell the same story (`Slots`), that a browser exists only in a stage that holds the
  slot (`Browsers`), that a worker holds a job with an attempt left (`Jobs`),
  and that an assisted session whose loss is being recorded has already lit
  the alert (`Lights`). One browser per profile,
  truthful rows and the two action properties follow.
  `NothingIsStranded` is the safety that `WatchedFreesSlot` and `Relaunched` rest on: a held slot
  is being launched, alive, or has a step due that takes its end further, unless
  the write that marks its row failed; a job that waits, waits for a launch under way. It
  needs that a browser goes with its verdict and never before (`EndsInOrder`) and
  that a worker awaits what the map of starting sessions names (`WaitsInMap`).
  `ManagerImplementsLease` takes every step to one of `Lease` or to none: a launch takes a free
  profile because neither map has the account, and whoever writes a row holds the account in one of them.
* **`Webhooks_proofs`**: a movement is worth one more delivery while its row is free to
  be claimed or an attempt holds a claim, and only the operator and a delivery taken for
  a failure add to that worth (`Budget`, `Heard`). Besides, a job in hand belongs to an account
  with a url (`Wanted`), a job past its post was delivered (`Posted`), and without a
  fault a `completed` job was (`Letters`), which is why its handler closes no letter too early.
  `NoSubjectIsDropped` and `NoRequestIsDropped` are the safety that `Settled` and `RedriveServed` rest on.
  Without a fault, what has to be sent was delivered, is a dead letter or is in hand; what the operator is
  owed has a job that has not posted in vain, or the request is still under way. Two facts
  make them inductive: a failed job has left its mark (`FailuresShow`), and what is owed finds the row free or
  in a claim that is going to be given back, and no failed job in its way (`WayIsFree`).
* **`Assistance_proofs`** (over `Dashboard`, whose steps the sessions share): live sessions and
  pending rows come one at a time (`OneAtATime`), who closes a request holds it
  (`Closing`), and what is owed is in a stream that exists (`NothingLost`); an id
  not yet given out owes nothing. `RequestsAreHeard` and `CodesAreKept` follow. They rest
  on the order of two steps: the waiter's stream is deleted whoever else reads it, and
  after a code this loses nothing because the row is closed by then; after a
  failure the codes of the request are given up. `AlertsAgree` is about the page: unless it is in
  doubt, an alert that is shown means a pending row, and a pending row without an alert has an
  announcement, an unread code or the report of one still to come (`PageTrue`), and an event on its
  way says what the table says (`WireTrue`).
* **`ScrapeRuns_proofs`**: `VerdictInv` follows a row along its verdict's thread, so that a row says
  running exactly while its verdict is out; `RunningHasExecution` and `VerdictIsFinal` follow. While the
  bookkeeping is not torn, one execution at a time tells (`Alone`) and what was told
  follows the streak: `AlertsAreDue`, for any threshold.
  `FailureIsNamed` speaks of failed runs that nothing cut off, with all their step writes stored and an error that
  names a stage, and leaves out a script that did not load in a browser that does not close. It
  rests on `TrailInv`: of a run that nothing cut off and whose steps were all
  written (`Whole`), the stage under way is the last step, and what the runner settled
  with either has noted the stage already or will when it is judged. The last
  failed step is a position of the trail, so that no induction over its length is needed.
* **`Scripts_proofs`** (`PollLoop` and `MiDinero`). A poll: its pages are captured while the list
  moves, and `PagesCover` says that what was merged goes from the newest movement of the
  start of the poll down to some movement without a hole, and that the next page begins
  there or above. As days come in order, `PassingMeansAll` follows; `SeenStaysSaved` needs
  that the batch still holds what was marked. A scrape: `RowsAreStoredAsPaid` has two halves. What
  the detail loop compares bounds the mixture, for entries stored and entries built. While the account stays
  as it was (`steady`), the list that was chosen shows the same incoming payments as the table (`SteadyLists`),
  row by row (`SteadyPairs`), and the two heads of the loop advance together (`HeadsAlign`), so
  that there is no mixture.
  `GapsAreKnown` needs most: every turn of the loop built its movement or gave it up
  (`Handled`), and once a row and a movement are the same payment so are all that follow,
  since both lists then show the same incoming payments (`Aligned`; script 2.0.0, which keeps
  exchanges, skips nothing instead). Trying to
  prove it showed that an earlier `given`, which exempted only the mixed row, was too
  narrow: with three payments within the tolerance the stop hides the third.
* **`SettingsPages_proofs`**: types of user, requests and pages; `RecoveryGoesWithTwoFactor` is
  inductive because a use case that did not save a stale copy saved a change of the
  row as it is. `ModeSwitchWipes` needs that what a wipe under way found when it began is deleted
  already, in the transaction that is about to commit, or still there for the statement that is
  to come, through commits of others between the two.
* **`AccountPages_proofs`**: `ScriptsGiveWay`, for what an account loads. A promotion works on copies and on a snapshot, all
  older than its commit; `ScopesLast` says that they keep the scope of the rows, except those of a
  deleted account, whose rows are gone: a commit then leaves an active script in the scope where it takes
  one away. `SavesAreHonest` rests on `PageKnows` (a mask in the
  form stands for a secret of the page's last answer) and on `SaveFollowed`, which takes the
  save through the handler: as long as nobody else writes, the row that the masks are
  resolved against is the row there was when the save was sent.

What the assumptions say, and why the code justifies them:

* the bounds are numbers (`ConstantsAssumption`, `EngineAssumption`, `SessionAssumption`,
  `WebhookAssumption`, `AssistanceBounds`, `TwoKinds`, `AccountsAreRows`, `ScopesDiffer`), a threshold, a page
  and an attempt at least one (`ThresholdPositive`, `PagesArePositive`, `BoundsArePositive`);
* sentinels are no values, and the two callers, the kinds of runs and the scopes above the
  accounts' are different (`NullIsNoValue`, `SourcesDiffer`, `TwoKinds`, `ScopesDiffer`);
* the scripts are those of the repository (`VersionsAreKnown`); minutes are whole
  (`PaymentsAreDated`);
* what a field, a column or a form holds is text and a method is GET or POST, as the route's schema
  and the picker have it; a person does not type the mask, a string the server reserves
  (`AccountsAreRows`, `FieldsAreTyped`);
* of the bank, the list is finite (`FeedIsAList`), a reference belongs to one payment, which the personal
  account does not list, and the movements of today came after those of other days
  (`ReferencesAreUnique`, `PaymentsAreDated`): the table's unique index on the reference and the scripts'
  own stop at the last one presuppose it.

## 6. What the code does not keep

Two statements of the repository are refuted by runs.

* `MatchedIsFinal`: *"no-ops on terminal requests"* (a test of `ConciliationRequest`). The expiry
  decides on an unlocked copy and saves it over a match that committed meanwhile. All
  other writers keep decisions (`DecidedStays`, proved).
* `BestScoreDecides`: *"One candidate with best score → matched"*, *"Multiple candidates with equal top
  score → ambiguous"* (`docs/architecture.md:65-66`; the repository's `README.md:32` agrees). With two payments above
  zero the code is ambiguous, however far apart their scores are (`ConciliationEngine.ts:36-37`). What
  it does decide by is `FittingDecides` (`EngineDecidesByFit`, proved).

The models also have the following behaviours, in which a comment or a document and the
code part. No run is spent on them: either the reading of the code is enough, or
a property above exempts them by name.

Conciliation and webhooks

* A run that loses the race for a payment is not run again (`RunConciliationUseCase.ts:97` says
  *"a later run re-evaluates the request"*; nothing enqueues one).
* A manual run (`docs/api-reference.md:337`) of an ambiguous order gives no verdict: its
  attempt number is taken and the job fails each time.
* A crash between the claim and the post leaves a movement notified that was never sent
  (migration 034 calls the column *the source of truth*).
* A match whose event fails to publish is never announced; a re-notification that
  arrives while its delivered job writes the log is answered with *queued* and lost; a
  `failed` handler slower than the retry can leave a letter open after the delivery.

Bank scripts

* Script 2.0.2 allows half an hour between list entry and detail *"sin abrir falsos positivos"*
  (`extract_transactions.v2.0.2.js:121-123`). When a payment arrives while the list is paired with the table, or an
  answer of an earlier moment is taken, one payment's reference is stored with the amount of another
  within that half hour: the second disjunct of `StoredAsPaid`. Version 2.0.0, which keeps exchanges,
  shifts by one below an exchange and mixes payments within its five minutes without any arrival.
* A movement of Banco Pichincha without a `transactionId` is not handed over (`skip_no_transactionId`,
  `extract_transactions.v1.0.2.js:406`), and one that more than `MAX_PAGES` pages hide, or behind a page that
  comes late, waits for a later poll that reaches it or is left out: `PassedMeansAll` speaks of movements with an id and
  of polls that passed today, `PaymentsReach` exempts what the cap hides (`BeyondCap`).
* A session that hangs in a login, in the wait for a code, in a recorder's row, in `onTransactions` or in the closing of its
  browser has no time limit there: no payment of the account is stored until a restart (`Waits`).

Sessions, codes and runs

* If `markRunning` rejects, the handle is registered and nobody listens to its end
  (`SessionManager.ts:31`: *"the slot is freed"* when `done` settles). A launch that hangs blocks
  its account until the process restarts. A session launched before the reset
  of orphans reads *stopped* while it runs.
* An account parked for a human is relaunched by the health check like any other, which is what
  `Relaunched` says and `docs/architecture.md:124` too. Against it: *"instead of being silently relaunched by the
  scheduler"* (`SessionManager.ts:18-19`), *"assisted ones stay off until manually started"*
  (`SessionManager.ts:91-92`), *"until an operator reactivates it"* (the repository's `README.md:46`).
* If the reset of orphaned sessions (`index.ts:72`) or the first round of the scheduler (`index.ts:81`) is
  rejected, nothing handles it: the process goes on serving, and no timer polls, relaunches or expires
  anything until the next restart. `Relaunched` exempts that process (`unscheduled`).
* A killed session's loop does not learn of it (`PersistentPlaywrightRunner.ts:125` closes the
  browser and sets no flag), and one that waits for a code re-opens the request after its
  cancel: *"Clear the pending assistance request on session end so the dashboard alert never dangles"*
  (`bankingModule.ts:172`). `PendingIsHeard` exempts what a session opened after its end, and what
  a failure or a crash cut off (`orphan`).
* Without any fault, the late cancel of an old session closes the row of the new one, which goes on
  listening on the closed id. Its resend calls `open`, *"re-open the pending row instead of duplicating on a
  resend"* (`AssistanceRequestRepository.ts:40`), finds nothing pending and makes a second row, whose id it
  does not look at (`OtpAssistanceCoordinator.ts:56`). A code sent to that row is
  answered with 202 and nobody reads it. `PendingIsHeard` says of such a row (`stray`) only that the session which
  made it lives, or that a cancel is to come.
* A hydration that arrives after the event that overtook it shows a cleared entry again
  (against the comment at `client/src/shared/realtime/useRealtime.ts:82`).
* The last failed step is not always *the one that ended it* (`ScrapeFailureReadModel.ts:51`): the two
  exempt cases are in the comment of `NamedFailureShown`. `markSuccess` leaves
  `failure_type` at *orphaned*; pruning by age deletes the row of a long-lived running session.
* The consumer of the notify stream acknowledges after the handler (repeats), creates
  its group at `$` (what was queued before is not read), and a rejected read ends its loop.

Users, accounts and pages

* A stale whole-row save brings an old mode back after the wipe, or, if it was read before the
  second factor was turned on or off, leaves codes without two-factor login or the reverse
  (`UserRepository.ts:42`): the last disjunct of `SwitchIsWhole` and the `torn` behaviours of `Users`. A
  change to the same mode wipes, too.
* An order or a movement that is committed after the `DELETE` of its table and before the switch commits
  survives it, and so do those of jobs that are still under way after it, although *"carrying records across modes
  is not allowed"* (`UserDataCleanerAdapter.ts:4-8`) and the use case *"wipes ... atomically"*
  (`ChangeOperationModeUseCase.ts:13-17`). A pair made of an order that came
  after the orders were deleted makes the `DELETE` of the movements fail on its foreign key (migration 008; earlier pairs
  go by cascade with their order): the switch is refused with 500, and nothing is gone.
  `SwitchIsWhole` speaks of what there was when the switch began.
* After an enrolment the refetch of the user hides the backup codes, which are
  *returned once* (`ConfirmTotpEnrollmentUseCase.ts:15`): `TwoFactorSection.tsx:65` looks at the cached
  flag before its own stage.
* A wrong code while a key is revoked signs out (the interceptor in `client.ts:46` takes
  every 401 for an expired session); the section means to stay (`ApiKeysSection.tsx:69`). Signing
  out keeps the query cache.
* A user name without a password is not stored, and the page says that it was saved; a mask
  stands for the secret stored when the save arrives, which may be newer than the
  one the page showed (comment at `UpsertAccountConfigUseCase.ts:41`). A request body that is
  no object is dropped (`AccountConfig.tsx:180`). These are the sets `Dropped` and `foreign` of `SaveIsHonest`.
* A stale promotion revives a deprecated script; a script published for another bank's
  code has no bank and is never loaded. Deleting an account leaves its session running.

## 7. What is only checked, and what is not modelled

Only model-checked:

* liveness (`JobsFinish`, `PairsAnnounced`, `PaymentsSettled`, `WatchedFreesSlot`,
  `Relaunched`, `Settled`, `RedriveServed`, `PaymentsReach`): it depends on fairness, which is out of
  TLAPS's reach. Of all but `PaymentsReach` a safety part is proved: whatever is claimed to
  happen, somebody who will do it is there until it has (`OneCycleOnly` for the executions of
  `JobsFinish`, `NothingIsForgotten`, `NothingIsStranded`, `NoSubjectIsDropped`, `NoRequestIsDropped`). What
  TLC adds is that the steps which are due are taken in the end, and do not go round in circles;
* `WorkGoesOn`, which speaks of `ENABLED`: what its guards say is `OneCycleOnly`, that they are the guards is not proved.

Every safety invariant and every action property of the runs but `WorkGoesOn` is stated by a theorem.

Type invariants are the other way round: they are proved, and no run repeats them (the
eight modules of section 5 have them).

Not modelled: the consumer of the notify stream and the chat adapters (their state is Redis's
own; a model of it would be one of Redis streams); the order source (an HTTP
client whose answers `PollFetch` leaves open); read models, charts and read-only lists; the
command line except the publication of scripts; cryptography, migrations as such,
configuration, logging and the trail of log lines; validation schemas, rate limits and tickets; how a
script finds things in a page; script version 1.0.0 of Mi Dinero. `PROJECT.json` has a status and a
reason for each component, and a note for each hazard that no property covers.

## 8. Plan

Done: `Conciliation` refining `Ledger`, `Matching` with `MatchEngine`, `SessionManager` refining `Lease`, `Webhooks`, `Assistance` with `Dashboard`,
`ScrapeRuns` with `Alerts`, `PollLoop`, `MiDinero`, `Users` with `SettingsPages`, `Accounts` and `Catalog` with `AccountPages`.

Proved: all their safety properties but `WorkGoesOn`, the refinements of `Ledger` and `Lease`, the
absence of any deadlock but the one that the database breaks, and the safety parts of the liveness properties.

Left, most useful first:

1. An abstract mailbox with one reader, which `Assistance` refines as long as nobody
   was killed, with the refinement proved step by step.
2. A composition of `SessionManager` and `Assistance` over the shared end of a session, for
   the zombie's part in both.
3. The consumer of the notify stream as a bag of messages that are handled at least once.

---------------------------- MODULE Conciliation ----------------------------
(***************************************************************************)
(* The conciliation core of one account: orders polled from the customer's *)
(* ERP (conciliation_requests), payments scraped from the bank             *)
(* (bank_transactions), and the pairs between them                         *)
(* (conciliated_transactions), under every interleaving of                 *)
(*                                                                         *)
(*   - the `conciliation' workers      RunConciliationUseCase              *)
(*   - the `tx-conciliation' workers   ProcessIncomingTransactionUseCase   *)
(*   - the ingestion of a bank batch   OnTransactionIngestedUseCase        *)
(*   - the poll of pending orders      PollPendingOrdersUseCase            *)
(*   - the hourly expiry               ExpireStaleRequestsUseCase          *)
(*   - a crash of the process, a queue that refuses a job, and the runs    *)
(*     an operator asks for.                                               *)
(*                                                                         *)
(* The two use cases that match run in a Postgres transaction at READ      *)
(* COMMITTED.  A step below is one SQL statement: it sees what is          *)
(* committed when it runs, its own writes become visible at the commit     *)
(* step, and it waits (is disabled) while another transaction holds the    *)
(* row or the index entry it needs.  Locks are not stored: a transaction   *)
(* holds what its program counter says it has acquired.                    *)
(*                                                                         *)
(* The engine's verdict depends on one relation only, Fits: which          *)
(* payments pass the rules and score above zero for which order (module    *)
(* MatchEngine shows this of the algorithm itself).                        *)
(***************************************************************************)
EXTENDS Integers, FiniteSets

CONSTANTS
  Requests,      \* orders, numbered in the order in which they are created
  Txs,           \* bank transactions
  Fits,          \* pairs <<order, payment>> the engine scores above zero
  RunWorkers,    \* executions of the conciliation worker
  TxWorkers,     \* executions of the tx-conciliation worker
  None,          \* no order, no payment
  MaxTries,      \* attempts of a queued job (defaultJobOptions.attempts)
  MaxFaults,     \* bound: crashes, refused jobs and manual runs in a behaviour
  NotifyExpired  \* account_config.notify_on_expired

ASSUME ConstantsAssumption ==
  /\ Requests \subseteq Nat
  /\ Fits \subseteq Requests \X Txs
  /\ None \notin Requests \cup Txs
  /\ MaxTries \in Nat \ {0}
  /\ MaxFaults \in Nat
  /\ NotifyExpired \in BOOLEAN

VARIABLES
  status,     \* conciliation_requests.status, "absent" before the insert
  retries,    \* conciliation_requests.retry_count
  attempts,   \* conciliation_attempts: pairs <<order, attempt_number>>
  ingested,   \* rows of bank_transactions
  excluded,   \* those whose excluded_at is set
  primary,    \* conciliated_transactions: pairs <<order, payment>>
  runJob,     \* tries left of the job conciliation_<order>, 0 when none
  txJob,      \* tries left of the job tx_conciliation_<payment>, 0 when none
  webhooks,   \* webhook jobs added: pairs <<event, order>>
  run,        \* the execution each conciliation worker is in
  tx,         \* the execution each tx-conciliation worker is in
  feed,       \* the ingestion of a batch, one payment at a time
  poll,       \* the poll of pending orders
  expire,     \* the expiry of stale orders
  faults      \* crashes, refused jobs and manual runs so far

dbVars    == <<status, retries, attempts, ingested, excluded, primary>>
queueVars == <<runJob, txJob, webhooks>>
vars == <<status, retries, attempts, ingested, excluded, primary, runJob, txJob,
          webhooks, run, tx, feed, poll, expire, faults>>

(* The committed statuses.  "processing" is overwritten before the save,   *)
(* and no use case calls markFailed, so neither reaches the table.         *)
Open       == {"pending", "not_found"}
Terminal   == {"matched", "cancelled", "expired"}
Statuses   == {"absent", "ambiguous"} \cup Open \cup Terminal
(* Mutation: cancelMissing without its filter on the status. *)
Unfiltered == Statuses \ {"absent"}

(* The statuses cancelMissing may overwrite, and those of an order a       *)
(* transaction is still working on.                                        *)
Cancelable == Open \cup {"ambiguous"}

RunIdle    == [pc |-> "idle", r |-> None, t |-> None, verdict |-> "none"]
TxIdle     == [pc |-> "idle", t |-> None, r |-> None, locked |-> {}]
FeedIdle   == [pc |-> "idle", t |-> None]
PollIdle   == [pc |-> "idle", orders |-> {}, todo |-> {}, r |-> None]
ExpireIdle == [pc |-> "idle", todo |-> {}, r |-> None, retries |-> 0]

Init ==
  /\ status = [r \in Requests |-> "absent"]
  /\ retries = [r \in Requests |-> 0]
  /\ attempts = {}
  /\ ingested = {}
  /\ excluded = {}
  /\ primary = {}
  /\ runJob = [r \in Requests |-> 0]
  /\ txJob = [t \in Txs |-> 0]
  /\ webhooks = {}
  /\ run = [w \in RunWorkers |-> RunIdle]
  /\ tx = [w \in TxWorkers |-> TxIdle]
  /\ feed = FeedIdle
  /\ poll = PollIdle
  /\ expire = ExpireIdle
  /\ faults = 0

-----------------------------------------------------------------------------
(* Locks, as the open transactions hold them. *)

(* A conciliation worker keeps its order locked from FOR UPDATE to COMMIT. *)
RunHolds(w, r) == /\ run[w].r = r
                  /\ run[w].pc \in {"evaluate", "insert", "exclude", "commit"}

(* Mutation: findPendingByAccount reads the orders without FOR UPDATE. *)
OnlyRunsLock(r) == \E w \in RunWorkers : RunHolds(w, r)

(* The row locks on orders that a transaction holds; SKIP LOCKED skips them *)
(* and a plain UPDATE waits for them.                                       *)
ReqLocked(r) == \/ \E w \in RunWorkers : RunHolds(w, r)
                \/ \E w \in TxWorkers : r \in tx[w].locked

(* The uncommitted entries of the unique index on bank_transaction_id. *)
RunClaims(w, t) == run[w].pc \in {"exclude", "commit"} /\ run[w].t = t
TxClaims(w, t)  == tx[w].pc = "commit" /\ tx[w].t = t
Claimed(t) == \/ \E w \in RunWorkers : RunClaims(w, t)
              \/ \E w \in TxWorkers : TxClaims(w, t)

(* The row locks on payments: FOR UPDATE of a tx-conciliation worker, and  *)
(* the exclusion a conciliation worker has not committed yet.              *)
TxHolds(w, t) == tx[w].pc \in {"scan", "drop", "insert", "commit"} /\ tx[w].t = t
TxLocked(t) == \/ \E w \in TxWorkers : TxHolds(w, t)
               \/ \E w \in RunWorkers : run[w].pc = "commit" /\ run[w].t = t

(* Mutation: a database without the index of migration 043. *)
NoIndex(t) == FALSE

(* The payment has a committed primary pair. *)
Conciliated(t) == \E r \in Requests : <<r, t>> \in primary

(* BullMQ gives a job to one worker at a time. *)
RunActive(r) == \E w \in RunWorkers : run[w].r = r
TxActive(t)  == \E w \in TxWorkers : tx[w].t = t

(* The end of a job: it is removed when it completes and when its last try *)
(* fails, and tried again otherwise.                                       *)
Completed(jobs, j) == [jobs EXCEPT ![j] = 0]
Failed(jobs, j)    == [jobs EXCEPT ![j] = IF @ > 0 THEN @ - 1 ELSE 0]

-----------------------------------------------------------------------------
(* RunConciliationUseCase: one order against all the payments on offer. *)

Candidates(r) == {t \in ingested \ excluded : <<r, t>> \in Fits}

RunGoesIdle(w) == run' = [run EXCEPT ![w] = RunIdle]

(* The job ends without touching the table: the row is locked by another   *)
(* transaction (SKIP LOCKED returns no row) or its status is terminal.     *)
RunSkip(w, r) ==
  /\ run[w].pc = "idle" /\ runJob[r] > 0 /\ ~RunActive(r)
  /\ ReqLocked(r) \/ status[r] \in Terminal
  /\ runJob' = Completed(runJob, r)
  /\ UNCHANGED <<dbVars, txJob, webhooks, run, tx, feed, poll, expire, faults>>

RunLock(w, r) ==
  /\ run[w].pc = "idle" /\ runJob[r] > 0 /\ ~RunActive(r)
  /\ ~ReqLocked(r) /\ status[r] \notin Terminal
  /\ run' = [run EXCEPT ![w] = [RunIdle EXCEPT !.pc = "evaluate", !.r = r]]
  /\ UNCHANGED <<dbVars, queueVars, tx, feed, poll, expire, faults>>

(* The candidates are read without locking them and the verdict is given   *)
(* on that snapshot: exactly one fitting payment is a match.               *)
RunFindsOne(w, t) ==
  /\ run[w].pc = "evaluate" /\ Candidates(run[w].r) = {t}
  /\ run' = [run EXCEPT ![w] = [@ EXCEPT !.pc = "insert", !.t = t, !.verdict = "matched"]]
  /\ UNCHANGED <<dbVars, queueVars, tx, feed, poll, expire, faults>>

RunFindsNoOne(w, verdict) ==
  LET fit == Candidates(run[w].r) IN
  /\ run[w].pc = "evaluate"
  /\ \/ verdict = "not_found" /\ fit = {}
     \/ verdict = "ambiguous" /\ \E t, u \in fit : t # u
  /\ run' = [run EXCEPT ![w] = [@ EXCEPT !.pc = "commit", !.verdict = verdict]]
  /\ UNCHANGED <<dbVars, queueVars, tx, feed, poll, expire, faults>>

(* INSERT of the pair.  It waits for another uncommitted pair of the same  *)
(* payment; uq_conciliated_bank_tx_primary then rejects it if that one (or *)
(* an earlier one) committed, and the use case gives up quietly.           *)
RunInsert(w) ==
  /\ run[w].pc = "insert" /\ ~Claimed(run[w].t) /\ ~Conciliated(run[w].t)
  /\ run' = [run EXCEPT ![w].pc = "exclude"]
  /\ UNCHANGED <<dbVars, queueVars, tx, feed, poll, expire, faults>>

RunLoses(w) ==
  /\ run[w].pc = "insert" /\ ~Claimed(run[w].t) /\ Conciliated(run[w].t)
  /\ RunGoesIdle(w)
  /\ runJob' = Completed(runJob, run[w].r)
  /\ UNCHANGED <<dbVars, txJob, webhooks, tx, feed, poll, expire, faults>>

(* Mutation: the event is published inside the transaction. *)
RunExcludeAnnouncing(w) ==
  /\ run[w].pc = "exclude" /\ ~TxLocked(run[w].t)
  /\ run' = [run EXCEPT ![w].pc = "commit"]
  /\ webhooks' = webhooks \cup {<<"matched", run[w].r>>}
  /\ UNCHANGED <<dbVars, runJob, txJob, tx, feed, poll, expire, faults>>

(* The foreign key of the pair and markExcluded need the payment's row. *)
RunExclude(w) ==
  /\ run[w].pc = "exclude" /\ ~TxLocked(run[w].t)
  /\ run' = [run EXCEPT ![w].pc = "commit"]
  /\ UNCHANGED <<dbVars, queueVars, tx, feed, poll, expire, faults>>

(* Mutations: the number is retry_count itself, or the rows counted anew. *)
AttemptFromZero(r) == <<r, retries[r]>>
AttemptCounted(r)  == <<r, Cardinality({a \in attempts : a[1] = r}) + 1>>

(* attemptNumber = retryCount + 1. *)
AttemptOf(r) == <<r, retries[r] + 1>>

(* INSERT of the attempt, save of the order, COMMIT. *)
RunCommitsPair(w) ==
  LET r == run[w].r
      t == run[w].t
  IN
  /\ run[w].pc = "commit" /\ run[w].verdict = "matched" /\ AttemptOf(r) \notin attempts
  /\ attempts' = attempts \cup {AttemptOf(r)}
  /\ status' = [status EXCEPT ![r] = "matched"]
  /\ primary' = primary \cup {<<r, t>>}
  /\ excluded' = excluded \cup {t}
  /\ run' = [run EXCEPT ![w] = [RunIdle EXCEPT !.pc = "publish", !.r = r]]
  /\ UNCHANGED <<retries, ingested, queueVars, tx, feed, poll, expire, faults>>

(* markNotFound counts a retry, markAmbiguous does not. *)
RunCommitsMiss(w) ==
  LET r == run[w].r IN
  /\ run[w].pc = "commit" /\ run[w].verdict # "matched" /\ AttemptOf(r) \notin attempts
  /\ attempts' = attempts \cup {AttemptOf(r)}
  /\ status' = [status EXCEPT ![r] = run[w].verdict]
  /\ retries' = [retries EXCEPT ![r] = IF run[w].verdict = "not_found" THEN @ + 1 ELSE @]
  /\ run' = [run EXCEPT ![w] = [RunIdle EXCEPT !.pc = "complete", !.r = r]]
  /\ UNCHANGED <<ingested, excluded, primary, queueVars, tx, feed, poll, expire, faults>>

(* ConciliationFailed is published, but nobody subscribes to it. *)
RunCompletes(w) ==
  /\ run[w].pc = "complete"
  /\ RunGoesIdle(w)
  /\ runJob' = Completed(runJob, run[w].r)
  /\ UNCHANGED <<dbVars, txJob, webhooks, tx, feed, poll, expire, faults>>

(* Mutation: inside the transaction the insert is repeated until it works. *)
RunRepeatsInsert(w) ==
  /\ run[w].pc = "commit" /\ AttemptOf(run[w].r) \in attempts
  /\ UNCHANGED <<dbVars, queueVars, run, tx, feed, poll, expire, faults>>

(* A number that is taken violates uq_conciliation_attempt_number: rolled  *)
(* back and rethrown.  It happens when an ambiguous order is run again: by *)
(* the operator, or after a crash between the commit of that verdict and   *)
(* the end of its job.                                                     *)
RunAttemptTaken(w) ==
  /\ run[w].pc = "commit" /\ AttemptOf(run[w].r) \in attempts
  /\ RunGoesIdle(w)
  /\ runJob' = Failed(runJob, run[w].r)
  /\ UNCHANGED <<dbVars, txJob, webhooks, tx, feed, poll, expire, faults>>

(* ConciliationMatched is published after the commit; its only subscriber  *)
(* adds the webhook job.                                                   *)
RunPublish(w) ==
  /\ run[w].pc = "publish"
  /\ webhooks' = webhooks \cup {<<"matched", run[w].r>>}
  /\ RunGoesIdle(w)
  /\ runJob' = Completed(runJob, run[w].r)
  /\ UNCHANGED <<dbVars, txJob, tx, feed, poll, expire, faults>>

(* The queue refuses the webhook job: the bus rethrows, the try fails. *)
RunPublishFails(w) ==
  /\ run[w].pc = "publish" /\ faults < MaxFaults
  /\ faults' = faults + 1
  /\ RunGoesIdle(w)
  /\ runJob' = Failed(runJob, run[w].r)
  /\ UNCHANGED <<dbVars, txJob, webhooks, tx, feed, poll, expire>>

-----------------------------------------------------------------------------
(* ProcessIncomingTransactionUseCase: one payment against the open orders. *)

TxGoesIdle(w) == tx' = [tx EXCEPT ![w] = TxIdle]

(* FOR UPDATE on the payment, waiting for its lock; an excluded payment    *)
(* ends the job.                                                           *)
TxTakes(w, t) == tx[w].pc = "idle" /\ txJob[t] > 0 /\ ~TxActive(t) /\ ~TxLocked(t)

TxLock(w, t) ==
  /\ TxTakes(w, t) /\ t \notin excluded
  /\ tx' = [tx EXCEPT ![w] = [TxIdle EXCEPT !.pc = "scan", !.t = t]]
  /\ UNCHANGED <<dbVars, queueVars, run, feed, poll, expire, faults>>

TxSkip(w, t) ==
  /\ TxTakes(w, t) /\ t \in excluded
  /\ txJob' = Completed(txJob, t)
  /\ UNCHANGED <<dbVars, runJob, webhooks, run, tx, feed, poll, expire, faults>>

(* ORDER BY created_at: the orders are numbered by age. *)
Oldest(S) == {r \in S : \A s \in S : r <= s}

(* All open orders that nobody else has locked are locked, oldest first,   *)
(* and the first one the engine matches with this payment wins.            *)
Available == {r \in Requests : status[r] \in Open /\ ~ReqLocked(r)}
Wanting(t) == {r \in Available : <<r, t>> \in Fits}

TxFindsWinner(w, r) ==
  /\ tx[w].pc = "scan" /\ r \in Oldest(Wanting(tx[w].t))
  /\ tx' = [tx EXCEPT ![w] = [@ EXCEPT !.pc = "insert", !.locked = Available, !.r = r]]
  /\ UNCHANGED <<dbVars, queueVars, run, feed, poll, expire, faults>>

TxFindsNone(w) ==
  /\ tx[w].pc = "scan" /\ Wanting(tx[w].t) = {}
  /\ tx' = [tx EXCEPT ![w] = [@ EXCEPT !.pc = "drop", !.locked = Available]]
  /\ UNCHANGED <<dbVars, queueVars, run, feed, poll, expire, faults>>

(* Mutation: a payment without a winner is left on the market. *)
TxKeep(w) ==
  /\ tx[w].pc = "drop"
  /\ TxGoesIdle(w)
  /\ txJob' = Completed(txJob, tx[w].t)
  /\ UNCHANGED <<dbVars, runJob, webhooks, run, feed, poll, expire, faults>>

(* No winner: the payment is excluded for good, and committed. *)
TxDrop(w) ==
  /\ tx[w].pc = "drop"
  /\ excluded' = excluded \cup {tx[w].t}
  /\ TxGoesIdle(w)
  /\ txJob' = Completed(txJob, tx[w].t)
  /\ UNCHANGED <<status, retries, attempts, ingested, primary, runJob, webhooks,
                 run, feed, poll, expire, faults>>

TxInsert(w) ==
  /\ tx[w].pc = "insert" /\ ~Claimed(tx[w].t)
  /\ IF Conciliated(tx[w].t)
       THEN /\ TxGoesIdle(w)
            /\ txJob' = Completed(txJob, tx[w].t)
       ELSE /\ tx' = [tx EXCEPT ![w].pc = "commit"]
            /\ UNCHANGED txJob
  /\ UNCHANGED <<dbVars, runJob, webhooks, run, feed, poll, expire, faults>>

(* INSERT of the attempt, save of the winner, markExcluded, COMMIT. *)
TxCommit(w) ==
  LET r == tx[w].r
      t == tx[w].t
  IN
  /\ tx[w].pc = "commit"
  /\ IF AttemptOf(r) \in attempts
       THEN /\ TxGoesIdle(w)
            /\ txJob' = Failed(txJob, t)
            /\ UNCHANGED <<attempts, status, primary, excluded>>
       ELSE /\ attempts' = attempts \cup {AttemptOf(r)}
            /\ status' = [status EXCEPT ![r] = "matched"]
            /\ primary' = primary \cup {<<r, t>>}
            /\ excluded' = excluded \cup {t}
            /\ tx' = [tx EXCEPT ![w] = [@ EXCEPT !.pc = "publish", !.locked = {}]]
            /\ UNCHANGED txJob
  /\ UNCHANGED <<retries, ingested, runJob, webhooks, run, feed, poll, expire, faults>>

(* Mutation: the events of the winner are never published. *)
TxForgetToPublish(w) ==
  /\ tx[w].pc = "publish"
  /\ TxGoesIdle(w)
  /\ txJob' = Completed(txJob, tx[w].t)
  /\ UNCHANGED <<dbVars, runJob, webhooks, run, feed, poll, expire, faults>>

(* The events of the winner are published after the commit. *)
TxPublish(w) ==
  /\ tx[w].pc = "publish"
  /\ webhooks' = webhooks \cup {<<"matched", tx[w].r>>}
  /\ TxGoesIdle(w)
  /\ txJob' = Completed(txJob, tx[w].t)
  /\ UNCHANGED <<dbVars, runJob, run, feed, poll, expire, faults>>

TxPublishFails(w) ==
  /\ tx[w].pc = "publish" /\ faults < MaxFaults
  /\ faults' = faults + 1
  /\ TxGoesIdle(w)
  /\ txJob' = Failed(txJob, tx[w].t)
  /\ UNCHANGED <<dbVars, runJob, webhooks, run, feed, poll, expire>>

-----------------------------------------------------------------------------
(* Mutation: nobody looks for the cycle. *)
NoDetector(w, v) == FALSE

(* The two use cases take the payment's row and its index entry in         *)
(* opposite orders.  Postgres finds the cycle and aborts one of the two    *)
(* (either one); the error is not the unique violation, so the try fails.  *)
Deadlocked(w, v) == /\ run[w].pc = "exclude" /\ TxHolds(v, run[w].t)
                    /\ tx[v].pc = "insert"

DeadlockAborts(w, v) ==
  /\ Deadlocked(w, v)
  /\ \/ /\ RunGoesIdle(w)
        /\ runJob' = Failed(runJob, run[w].r)
        /\ UNCHANGED <<tx, txJob>>
     \/ /\ TxGoesIdle(v)
        /\ txJob' = Failed(txJob, tx[v].t)
        /\ UNCHANGED <<run, runJob>>
  /\ UNCHANGED <<dbVars, webhooks, feed, poll, expire, faults>>

-----------------------------------------------------------------------------
(* Ingestion: each new payment is inserted, then TransactionIngested is    *)
(* handled before the next payment of the batch.                           *)
FeedSave(t) ==
  /\ feed.pc = "idle" /\ t \notin ingested
  /\ ingested' = ingested \cup {t}
  /\ feed' = [pc |-> "check", t |-> t]
  /\ UNCHANGED <<status, retries, attempts, excluded, primary, queueVars, run, tx,
                 poll, expire, faults>>

(* hasActiveRequests, read outside any transaction. *)
FeedCheck ==
  /\ feed.pc = "check"
  /\ \/ /\ \E r \in Requests : status[r] \in Open
        /\ feed' = [feed EXCEPT !.pc = "enqueue"]
     \/ /\ \A r \in Requests : status[r] \notin Open
        /\ feed' = [feed EXCEPT !.pc = "exclude"]
  /\ UNCHANGED <<dbVars, queueVars, run, tx, poll, expire, faults>>

FeedExclude ==
  /\ feed.pc = "exclude" /\ ~TxLocked(feed.t)
  /\ excluded' = excluded \cup {feed.t}
  /\ feed' = FeedIdle
  /\ UNCHANGED <<status, retries, attempts, ingested, primary, queueVars, run, tx,
                 poll, expire, faults>>

FeedEnqueue ==
  /\ feed.pc = "enqueue"
  /\ txJob' = [txJob EXCEPT ![feed.t] = MaxTries]
  /\ feed' = FeedIdle
  /\ UNCHANGED <<dbVars, runJob, webhooks, run, tx, poll, expire, faults>>

(* The queue refuses the job.  The batch fails; its retry finds the row    *)
(* already there and publishes nothing.                                    *)
FeedEnqueueFails ==
  /\ feed.pc = "enqueue" /\ faults < MaxFaults
  /\ faults' = faults + 1
  /\ feed' = FeedIdle
  /\ UNCHANGED <<dbVars, queueVars, run, tx, poll, expire>>

-----------------------------------------------------------------------------
(* PollPendingOrdersUseCase.  The ERP may answer with any set of orders;   *)
(* those seen for the first time are numbered as they come.                *)
PollFetch(orders) ==
  LET existing == {r \in Requests : status[r] \notin {"absent", "cancelled", "expired"}} IN
  /\ poll.pc = "idle"
  /\ \A r \in orders, s \in Requests : s < r => s \in orders \/ status[s] # "absent"
  /\ poll' = [pc |-> "create", orders |-> orders, todo |-> orders \ existing, r |-> None]
  /\ UNCHANGED <<dbVars, queueVars, run, tx, feed, expire, faults>>

(* createIfAbsent: ON CONFLICT (account_id, external_id) DO NOTHING.  An   *)
(* order that is in the table, cancelled or expired, stays as it is.       *)
PollCreate == \E r \in Oldest(poll.todo) :
  /\ poll.pc = "create"
  /\ \/ /\ status[r] = "absent"
        /\ status' = [status EXCEPT ![r] = "pending"]
        /\ poll' = [poll EXCEPT !.pc = "enqueue", !.todo = @ \ {r}, !.r = r]
     \/ /\ status[r] # "absent"
        /\ poll' = [poll EXCEPT !.todo = @ \ {r}]
        /\ UNCHANGED status
  /\ UNCHANGED <<retries, attempts, ingested, excluded, primary, queueVars, run, tx,
                 feed, expire, faults>>

PollEnqueue ==
  /\ poll.pc = "enqueue"
  /\ runJob' = [runJob EXCEPT ![poll.r] = MaxTries]
  /\ poll' = [poll EXCEPT !.pc = "create", !.r = None]
  /\ UNCHANGED <<dbVars, txJob, webhooks, run, tx, feed, expire, faults>>

PollEnqueueFails ==
  /\ poll.pc = "enqueue" /\ faults < MaxFaults
  /\ faults' = faults + 1
  /\ poll' = PollIdle
  /\ UNCHANGED <<dbVars, queueVars, run, tx, feed, expire>>

(* cancelMissing: one UPDATE over the orders the ERP no longer lists.  It  *)
(* waits for locked rows and looks at their status again after the wait.   *)
PollCancel ==
  LET missing == {r \in Requests \ poll.orders : status[r] \in Cancelable} IN
  /\ poll.pc = "create" /\ poll.todo = {}
  /\ \A r \in missing : ~ReqLocked(r)
  /\ status' = [r \in Requests |-> IF r \in missing THEN "cancelled" ELSE status[r]]
  /\ poll' = PollIdle
  /\ UNCHANGED <<retries, attempts, ingested, excluded, primary, queueVars, run, tx,
                 feed, expire, faults>>

-----------------------------------------------------------------------------
(* ExpireStaleRequestsUseCase.  Whatever is older than five days was       *)
(* created before whatever is not, so the stale orders are the open ones   *)
(* up to some order r.                                                     *)
ExpireNext(todo) == [ExpireIdle EXCEPT !.pc = IF todo = {} THEN "idle" ELSE "load",
                                       !.todo = todo]

ExpireScan(r) ==
  LET stale == {s \in Requests : s <= r /\ status[s] \in Open} IN
  /\ expire.pc = "idle" /\ stale # {}
  /\ expire' = ExpireNext(stale)
  /\ UNCHANGED <<dbVars, queueVars, run, tx, feed, poll, faults>>

(* findById and markExpired: a plain read, outside any transaction. *)
ExpireLoad(r) ==
  /\ expire.pc = "load" /\ r \in expire.todo
  /\ \/ /\ status[r] \in Terminal
        /\ expire' = ExpireNext(expire.todo \ {r})
     \/ /\ status[r] \notin Terminal
        /\ expire' = [pc |-> "save", todo |-> expire.todo \ {r}, r |-> r,
                      retries |-> retries[r]]
  /\ UNCHANGED <<dbVars, queueVars, run, tx, feed, poll, faults>>

(* save: an upsert by id that overwrites status and retry_count. *)
ExpireSave ==
  LET r == expire.r IN
  /\ expire.pc = "save" /\ ~ReqLocked(r)
  /\ status' = [status EXCEPT ![r] = "expired"]
  /\ retries' = [retries EXCEPT ![r] = expire.retries]
  /\ expire' = IF NotifyExpired THEN [expire EXCEPT !.pc = "notify"]
                                ELSE ExpireNext(expire.todo)
  /\ UNCHANGED <<attempts, ingested, excluded, primary, queueVars, run, tx, feed, poll,
                 faults>>

ExpireNotify ==
  /\ expire.pc = "notify"
  /\ webhooks' = webhooks \cup {<<"expired", expire.r>>}
  /\ expire' = ExpireNext(expire.todo)
  /\ UNCHANGED <<dbVars, runJob, txJob, run, tx, feed, poll, faults>>

(* The queue refuses the job: the rest of the batch waits for the next hour. *)
ExpireNotifyFails ==
  /\ expire.pc = "notify" /\ faults < MaxFaults
  /\ faults' = faults + 1
  /\ expire' = ExpireIdle
  /\ UNCHANGED <<dbVars, queueVars, run, tx, feed, poll>>

(* POST /:requestId/run: the operator asks for another run of an order.    *)
(* One asked for while a job of the order is about is taken with that job. *)
ManualRun(r) ==
  /\ status[r] # "absent" /\ runJob[r] = 0 /\ ~RunActive(r)
  /\ faults < MaxFaults
  /\ faults' = faults + 1
  /\ runJob' = [runJob EXCEPT ![r] = MaxTries]
  /\ UNCHANGED <<dbVars, txJob, webhooks, run, tx, feed, poll, expire>>

-----------------------------------------------------------------------------
(* The process dies and is restarted: open transactions roll back, jobs in *)
(* hand return to their queue, whatever was between two steps is gone.     *)
Crash ==
  /\ faults < MaxFaults
  /\ faults' = faults + 1
  /\ run' = [w \in RunWorkers |-> RunIdle]
  /\ tx' = [w \in TxWorkers |-> TxIdle]
  /\ feed' = FeedIdle
  /\ poll' = PollIdle
  /\ expire' = ExpireIdle
  /\ UNCHANGED <<dbVars, queueVars>>

(* The steps of a started execution. *)
RunStep(w) == \/ \E t \in Txs : RunFindsOne(w, t)
              \/ \E verdict \in {"not_found", "ambiguous"} : RunFindsNoOne(w, verdict)
              \/ RunInsert(w) \/ RunLoses(w) \/ RunExclude(w)
              \/ RunCommitsPair(w) \/ RunCommitsMiss(w) \/ RunAttemptTaken(w)
              \/ RunPublish(w) \/ RunCompletes(w)
TxStep(w)  == \/ \E r \in Requests : TxFindsWinner(w, r)
              \/ TxFindsNone(w) \/ TxDrop(w) \/ TxInsert(w) \/ TxCommit(w) \/ TxPublish(w)
FeedStep   == FeedCheck \/ FeedExclude \/ FeedEnqueue
PollStep   == PollCreate \/ PollEnqueue \/ PollCancel
ExpireStep == (\E r \in Requests : ExpireLoad(r)) \/ ExpireSave \/ ExpireNotify

Fault == \/ \E w \in RunWorkers : RunPublishFails(w)
         \/ \E w \in TxWorkers : TxPublishFails(w)
         \/ FeedEnqueueFails
         \/ PollEnqueueFails
         \/ ExpireNotifyFails
         \/ \E r \in Requests : ManualRun(r)
         \/ Crash

Next ==
  \/ \E w \in RunWorkers : RunStep(w) \/ \E r \in Requests : RunSkip(w, r) \/ RunLock(w, r)
  \/ \E w \in TxWorkers : TxStep(w) \/ \E t \in Txs : TxLock(w, t) \/ TxSkip(w, t)
  \/ \E w \in RunWorkers, v \in TxWorkers : DeadlockAborts(w, v)
  \/ FeedStep \/ \E t \in Txs : FeedSave(t)
  \/ PollStep \/ \E orders \in SUBSET Requests : PollFetch(orders)
  \/ ExpireStep \/ \E r \in Requests : ExpireScan(r)
  \/ Fault

Spec == Init /\ [][Next]_vars

(* Workers take queued jobs and what is started is finished; the ERP, the  *)
(* bank, the clock and the operator owe nothing.                           *)
Fairness ==
  /\ \A w \in RunWorkers : WF_vars(RunStep(w))
  /\ \A w \in TxWorkers : WF_vars(TxStep(w))
  /\ \A r \in Requests : WF_vars(\E w \in RunWorkers : RunSkip(w, r) \/ RunLock(w, r))
  /\ \A t \in Txs : WF_vars(\E w \in TxWorkers : TxLock(w, t) \/ TxSkip(w, t))
  /\ WF_vars(\E w \in RunWorkers, v \in TxWorkers : DeadlockAborts(w, v))
  /\ WF_vars(FeedStep) /\ WF_vars(PollStep) /\ WF_vars(ExpireStep)

FairSpec == Spec /\ Fairness

-----------------------------------------------------------------------------
(* Properties *)

RunStates ==
  [pc : {"idle", "evaluate", "insert", "exclude", "commit", "publish", "complete"},
   r : Requests \cup {None}, t : Txs \cup {None},
   verdict : {"none", "matched", "not_found", "ambiguous"}]
TxStates ==
  [pc : {"idle", "scan", "drop", "insert", "commit", "publish"},
   t : Txs \cup {None}, r : Requests \cup {None}, locked : SUBSET Requests]
FeedStates == [pc : {"idle", "check", "enqueue", "exclude"}, t : Txs \cup {None}]
PollStates == [pc : {"idle", "create", "enqueue"}, orders : SUBSET Requests,
               todo : SUBSET Requests, r : Requests \cup {None}]
ExpireStates == [pc : {"idle", "load", "save", "notify"}, todo : SUBSET Requests,
                 r : Requests \cup {None}, retries : Nat]

(* Types of the rows, the queues and the executions in hand. *)
TypeOK ==
  /\ status \in [Requests -> Statuses]
  /\ retries \in [Requests -> Nat]
  /\ attempts \subseteq Requests \X Nat
  /\ ingested \subseteq Txs
  /\ excluded \subseteq ingested
  /\ primary \subseteq Requests \X Txs
  /\ runJob \in [Requests -> 0..MaxTries]
  /\ txJob \in [Txs -> 0..MaxTries]
  /\ webhooks \subseteq {"matched", "expired"} \X Requests
  /\ run \in [RunWorkers -> RunStates]
  /\ tx \in [TxWorkers -> TxStates]
  /\ feed \in FeedStates
  /\ poll \in PollStates
  /\ expire \in ExpireStates
  /\ faults \in 0..MaxFaults

(* A payment settles at most one order and an order takes at most one      *)
(* payment, whoever races whom.  The candidates of RunConciliation are     *)
(* read without a lock, so only the index of migration 043 stands between  *)
(* a stale candidate and a payment conciliated twice.                      *)
OnePayment ==
  \A p, q \in primary : p[1] = q[1] \/ p[2] = q[2] => p = q

(* Orders and pairs tell the same story: an order that reads matched has   *)
(* its pair, a paired order is matched or was overwritten by the expiry    *)
(* (never open again, never cancelled), a paired payment fits its order    *)
(* and is off the market.                                                  *)
PairsAgree ==
  /\ \A r \in Requests : status[r] = "matched" => \E t \in Txs : <<r, t>> \in primary
  /\ \A p \in primary : /\ status[p[1]] \in {"matched", "expired"}
                        /\ p \in Fits
                        /\ p[2] \in excluded

(* No two open transactions work on one order, and the order they work on  *)
(* stays undecided until they commit: neither the poll nor the expiry      *)
(* writes under a lock.                                                    *)
LockedMeansUndecided ==
  /\ \A w, v \in RunWorkers, r \in Requests : RunHolds(w, r) /\ RunHolds(v, r) => w = v
  /\ \A w \in RunWorkers, v \in TxWorkers, r \in Requests :
       ~(RunHolds(w, r) /\ r \in tx[v].locked)
  /\ \A w, v \in TxWorkers : tx[w].locked \cap tx[v].locked # {} => w = v
  /\ \A r \in Requests : ReqLocked(r) => status[r] \in Cancelable

(* The attempts of an order are numbered 1, 2, ... without a gap, and      *)
(* retry_count counts the misses among them, as long as the expiry has     *)
(* not written back the count it had read.                                 *)
AttemptsSequential ==
  \A r \in Requests :
    LET numbers == {a[2] : a \in {b \in attempts : b[1] = r}} IN
    /\ numbers = 1..Cardinality(numbers)
    /\ status[r] \in Open => Cardinality(numbers) = retries[r]
    /\ status[r] \in {"ambiguous", "matched"} => Cardinality(numbers) = retries[r] + 1

(* A customer is told nothing that did not happen: "matched" is queued     *)
(* only once the pair is committed, "expired" only once the order is.      *)
WebhooksAreTrue ==
  /\ \A r \in Requests : <<"matched", r>> \in webhooks => \E t \in Txs : <<r, t>> \in primary
  /\ \A r \in Requests : <<"expired", r>> \in webhooks => status[r] = "expired"

(* What was decided stays decided, but for the one overwrite the expiry    *)
(* can make: a terminal order can only turn expired.                       *)
DecidedStays ==
  [][\A r \in Requests : status[r] \in Terminal => status'[r] \in {status[r], "expired"}]_vars

(* An order judged ambiguous is out of the engine's hands: no step makes   *)
(* it matched, not_found or expired again unless the expiry had read it    *)
(* before, not even a run the operator asks for, whose attempt number is   *)
(* taken; only the ERP, by dropping it, ends it.                           *)
AmbiguousIsParked ==
  [][\A r \in Requests : status[r] = "ambiguous" /\ expire.r # r
       => status'[r] \in {"ambiguous", "cancelled"}]_vars

(* Conciliation implements the ledger: every commit writes at most one     *)
(* pair, of an unsettled order and an unspent payment, and nothing undoes  *)
(* one.                                                                    *)
LedgerView == INSTANCE Ledger WITH paid <- primary, retired <- excluded
ImplementsLedger == LedgerView!Spec

(* Which executions can go on, by the guards of their steps alone. *)
RunCanStep(w) ==
  \/ run[w].pc = "evaluate" /\ \/ Candidates(run[w].r) = {}
                               \/ \E t \in Txs : Candidates(run[w].r) = {t}
                               \/ \E t, u \in Candidates(run[w].r) : t # u
  \/ run[w].pc = "insert" /\ ~Claimed(run[w].t)
  \/ run[w].pc = "exclude" /\ ~TxLocked(run[w].t)
  \/ /\ run[w].pc = "commit"
     /\ run[w].verdict \in {"matched", "not_found", "ambiguous"}
  \/ run[w].pc \in {"publish", "complete"}

TxCanStep(v) ==
  \/ tx[v].pc = "scan" /\ \/ Wanting(tx[v].t) = {}
                          \/ \E r \in Requests : r \in Oldest(Wanting(tx[v].t))
  \/ tx[v].pc = "insert" /\ ~Claimed(tx[v].t)
  \/ tx[v].pc \in {"drop", "commit", "publish"}

(* The two use cases take a payment's row, its index entry and the orders' *)
(* rows in different orders, so they can wait for each other: of the       *)
(* executions in hand one can always go on, with the cycle that is broken  *)
(* by the database the only one there is.  The guards alone say who waits, *)
(* so that the same can be proved without ENABLED.                         *)
Working == \/ \E w \in RunWorkers : run[w].pc # "idle"
           \/ \E w \in TxWorkers : tx[w].pc # "idle"
WorkStep == \/ \E w \in RunWorkers : RunStep(w)
            \/ \E w \in TxWorkers : TxStep(w)
            \/ \E w \in RunWorkers, v \in TxWorkers : DeadlockAborts(w, v)
WorkGoesOn == /\ Working => ENABLED WorkStep
              /\ \A w \in RunWorkers : ENABLED RunStep(w) <=> RunCanStep(w)
              /\ \A v \in TxWorkers : ENABLED TxStep(v) <=> TxCanStep(v)

(* Each execution ends: none waits for ever and none repeats what cannot   *)
(* succeed, such as an attempt number that a crash left taken.             *)
JobsFinish ==
  /\ \A w \in RunWorkers : run[w].pc # "idle" ~> run[w].pc = "idle"
  /\ \A w \in TxWorkers : tx[w].pc # "idle" ~> tx[w].pc = "idle"

(* While the queue takes every job and the process lives, each pair is     *)
(* announced to the customer.                                              *)
PairsAnnounced ==
  \A r \in Requests :
    (\E t \in Txs : <<r, t>> \in primary) ~> <<"matched", r>> \in webhooks \/ faults > 0

(* While the queue takes every job and the process lives, each payment is  *)
(* settled: taken by an order or excluded.                                 *)
PaymentsSettled == \A t \in Txs : t \in ingested ~> t \in excluded \/ faults > 0

-----------------------------------------------------------------------------
(* A claim of the repository that the code does not keep. *)

(* ConciliationRequest.test.ts: "markExpired/markCancelled are no-ops on   *)
(* terminal requests", so a matched order stays matched.                   *)
MatchedIsFinal ==
  [][\A r \in Requests : status[r] = "matched" => status'[r] = "matched"]_vars

=============================================================================

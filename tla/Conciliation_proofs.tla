------------------------ MODULE Conciliation_proofs ------------------------
(***************************************************************************)
(* The types and the safety of Conciliation for every number of orders,    *)
(* payments and workers, every Fits and every number of faults.            *)
(*                                                                         *)
(* TypeOK alone is not inductive: a worker that finds no payment leaves t  *)
(* at None, so committing a pair keeps the tables well typed only because  *)
(* the executions that reach the commit have filled their fields in.       *)
(* TypeInv adds what each program counter says about them.                 *)
(*                                                                         *)
(* OnePayment and PairsAgree are not inductive: that a commit writes the   *)
(* first pair of its payment and of its order follows from what the        *)
(* transaction holds.  Safe adds that.  An order under lock is undecided   *)
(* (Locks), an uncommitted index entry is the only one of its payment and  *)
(* no committed pair has it (Claims), and a job is only ever added for an  *)
(* order that is in the table (Created).                                   *)
(*                                                                         *)
(* OneCycleOnly: among any number of executions one can go on, or two of   *)
(* them are in the cycle that the database breaks.                         *)
(*                                                                         *)
(* NothingIsForgotten: without a fault, what is committed or saved is in   *)
(* somebody's hands until it is announced or set aside.  Hand adds what    *)
(* makes that inductive: a job in hand stays in its queue and has one      *)
(* worker, and no order is run again whose attempt number is taken.        *)
(*                                                                         *)
(* At the end, the engine that both use cases ask: its verdict is settled  *)
(* by the payments that match alone, for any orders, payments, spellings   *)
(* and window, which is why Conciliation needs no more of it than Fits.    *)
(* The engine sorts before it looks at the scores, so the argument needs   *)
(* that a best payment exists: scores are numbers from 0 to 60, and the    *)
(* well-foundedness of < gives the one with the least distance to 60.      *)
(***************************************************************************)
EXTENDS Conciliation, MatchEngine, FiniteSetTheorems, WellFoundedInduction, TLAPS

(* A conciliation execution: which fields are filled when, and the payment *)
(* it chose is a saved one that fits its order.                            *)
RunOK(s) ==
  /\ s.pc # "idle" => s.r \in Requests
  /\ s.pc \in {"idle", "evaluate", "publish", "complete"} => s.verdict = "none"
  /\ s.pc \in {"insert", "exclude"} => s.verdict = "matched"
  /\ s.pc = "commit" => s.verdict # "none"
  /\ IF s.verdict = "matched" THEN s.t \in ingested /\ <<s.r, s.t>> \in Fits
                              ELSE s.t = None

(* A tx-conciliation execution: it works on a saved payment, its winner is *)
(* an order it has locked and the payment fits, and it holds locks only    *)
(* between the scan and the commit.                                        *)
TxOK(s) ==
  /\ s.pc # "idle" => s.t \in ingested
  /\ s.pc \in {"insert", "commit"} => s.r \in s.locked /\ <<s.r, s.t>> \in Fits
  /\ s.pc = "publish" => s.r \in Requests
  /\ s.pc \in {"idle", "scan", "publish"} => s.locked = {}

(* TypeOK by parts, each with what its own records add to it. *)
RowsTyped ==
  /\ status \in [Requests -> Statuses]
  /\ retries \in [Requests -> Nat]
  /\ attempts \subseteq Requests \X Nat
  /\ ingested \subseteq Txs
  /\ excluded \subseteq ingested
  /\ primary \subseteq Requests \X Txs
  /\ faults \in 0..MaxFaults

QueuesTyped ==
  /\ runJob \in [Requests -> 0..MaxTries]
  /\ txJob \in [Txs -> 0..MaxTries]
  /\ webhooks \subseteq {"matched", "expired"} \X Requests
  /\ \A t \in Txs : txJob[t] > 0 => t \in ingested

RunsTyped == run \in [RunWorkers -> RunStates] /\ \A w \in RunWorkers : RunOK(run[w])
TxsTyped  == tx \in [TxWorkers -> TxStates] /\ \A w \in TxWorkers : TxOK(tx[w])
ServicesTyped ==
  /\ feed \in FeedStates /\ (feed.pc # "idle" => feed.t \in ingested)
  /\ poll \in PollStates /\ (poll.pc = "enqueue" => poll.r \in Requests)
  /\ expire \in ExpireStates /\ (expire.pc \in {"save", "notify"} => expire.r \in Requests)

TypeInv == RowsTyped /\ QueuesTyped /\ RunsTyped /\ TxsTyped /\ ServicesTyped

(* The idle records are well formed. *)
LEMMA IdleTyped == /\ RunIdle \in RunStates /\ TxIdle \in TxStates
                   /\ FeedIdle \in FeedStates /\ PollIdle \in PollStates
                   /\ ExpireIdle \in ExpireStates
                   /\ RunOK(RunIdle) /\ TxOK(TxIdle)
                   /\ FeedIdle.pc = "idle" /\ PollIdle.pc = "idle" /\ ExpireIdle.pc = "idle"
  BY
  DEF RunIdle, RunStates, TxIdle, TxStates, FeedIdle, FeedStates, PollIdle,
      PollStates,
         ExpireIdle, ExpireStates, RunOK, TxOK

(* Ending a try leaves a queue of jobs a queue of jobs. *)
LEMMA JobsTyped ==
  ASSUME NEW S, NEW jobs \in [S -> 0..MaxTries], NEW j \in S
  PROVE  /\ Completed(jobs, j) \in [S -> 0..MaxTries] /\ Failed(jobs, j) \in [S -> 0..MaxTries]
         /\ \A i \in S : Completed(jobs, j)[i] > 0 \/ Failed(jobs, j)[i] > 0 => jobs[i] > 0
  BY ConstantsAssumption DEF Completed, Failed

(* The tables are empty and nothing runs. *)
LEMMA TypeInit == Init => TypeInv
  BY ConstantsAssumption, IdleTyped
  DEF Init, TypeInv, RowsTyped, QueuesTyped, RunsTyped, TxsTyped, ServicesTyped,
      RunIdle, TxIdle, FeedIdle, PollIdle, ExpireIdle, Statuses, Open, Terminal, RunOK, TxOK

(* Writing one well-formed record keeps all of them well formed. *)
LEMMA RunUpdated ==
  ASSUME RunsTyped, NEW w \in RunWorkers, NEW s \in RunStates, RunOK(s),
         run' = [run EXCEPT ![w] = s], UNCHANGED ingested
  PROVE  RunsTyped'
  BY DEF RunsTyped, RunOK

(* The same of the tx-conciliation executions. *)
LEMMA TxUpdated ==
  ASSUME TxsTyped, NEW w \in TxWorkers, NEW s \in TxStates, TxOK(s),
         tx' = [tx EXCEPT ![w] = s], UNCHANGED ingested
  PROVE  TxsTyped'
  BY DEF TxsTyped, TxOK

(* What TypeInv says of the fields a started conciliation works with. *)
LEMMA RunFields ==
  ASSUME RunsTyped, RowsTyped, NEW w \in RunWorkers, run[w].pc # "idle"
  PROVE  /\ run[w].r \in Requests
         /\ run[w].pc = "commit" => run[w].verdict \in {"matched", "not_found", "ambiguous"}
         /\ run[w].pc \in {"insert", "exclude"} => run[w].verdict = "matched"
         /\ run[w].verdict = "matched" =>
              run[w].t \in ingested /\ run[w].t \in Txs /\ <<run[w].r, run[w].t>> \in Fits
  BY DEF RunsTyped, RunOK, RunStates, RowsTyped

(* What TypeInv says of the fields a started tx-conciliation works with. *)
LEMMA TxFields ==
  ASSUME TxsTyped, RowsTyped, NEW w \in TxWorkers, tx[w].pc # "idle"
  PROVE  /\ tx[w].t \in ingested /\ tx[w].t \in Txs
         /\ tx[w].pc \in {"insert", "commit", "publish"} => tx[w].r \in Requests
         /\ tx[w].pc \in {"insert", "commit"} => <<tx[w].r, tx[w].t>> \in Fits
  BY DEF TxsTyped, TxOK, TxStates, RowsTyped

(* An attempt is an order and a number. *)
LEMMA AttemptTyped ==
  ASSUME RowsTyped, NEW r \in Requests
  PROVE  retries[r] \in Nat /\ retries[r] + 1 \in Nat /\ AttemptOf(r) \in Requests \X Nat
  BY DEF RowsTyped, AttemptOf

(* The expiry goes on with the rest of the batch, or stops. *)
LEMMA NextTyped ==
  ASSUME NEW todo \in SUBSET Requests
  PROVE  /\ ExpireNext(todo) \in ExpireStates
         /\ ExpireNext(todo).pc \in {"idle", "load"}
  BY DEF ExpireNext, ExpireIdle, ExpireStates

(* Every action keeps the tables, the queues and the executions in hand    *)
(* well typed.                                                             *)
LEMMA TypeStep == TypeInv /\ [Next]_vars => TypeInv'
  <1> SUFFICES ASSUME TypeInv, [Next]_vars PROVE TypeInv'
    OBVIOUS
  <1> USE ConstantsAssumption DEF TypeInv, dbVars, queueVars
  <1>RunSkip. ASSUME NEW w \in RunWorkers, NEW r \in Requests, RunSkip(w, r)
    PROVE TypeInv'
    <2>1. runJob' \in [Requests -> 0..MaxTries]
      BY <1>RunSkip, JobsTyped DEF RunSkip, QueuesTyped
    <2> QED
      BY <1>RunSkip, <2>1
      DEF RunSkip, RowsTyped, QueuesTyped, RunsTyped, RunOK, TxsTyped, TxOK,
          ServicesTyped
  <1>RunLock. ASSUME NEW w \in RunWorkers, NEW r \in Requests, RunLock(w, r)
    PROVE TypeInv'
    <2> DEFINE s == [RunIdle EXCEPT !.pc = "evaluate", !.r = r]
    <2>1. s \in RunStates /\ RunOK(s)
      BY <1>RunLock, IdleTyped
      DEF RunLock, RunIdle, RunStates, RunOK, RunsTyped, RowsTyped
    <2>2. RunsTyped'
      BY <1>RunLock, <2>1, RunUpdated DEF RunLock, RunIdle
    <2>3. UNCHANGED <<dbVars, queueVars, tx, feed, poll, expire, faults>>
      BY <1>RunLock DEF RunLock
    <2>4. RowsTyped'
      BY <2>3 DEF RowsTyped, dbVars
    <2>5. QueuesTyped'
      BY <2>3 DEF QueuesTyped, queueVars
    <2>6. TxsTyped'
      BY <2>3 DEF TxsTyped, TxOK, dbVars
    <2>7. ServicesTyped'
      BY <2>3 DEF ServicesTyped
    <2> QED BY <2>2, <2>4, <2>5, <2>6, <2>7
  <1>RunFindsOne. ASSUME NEW w \in RunWorkers, NEW t \in Txs, RunFindsOne(w, t)
    PROVE TypeInv'
    <2> DEFINE s == [run[w] EXCEPT !.pc = "insert", !.t = t,
                           !.verdict = "matched"]
    <2>a. /\ run[w].pc = "evaluate" /\ run[w] \in RunStates /\ RunOK(run[w])
          /\ t \in ingested /\ <<run[w].r, t>> \in Fits
      BY <1>RunFindsOne DEF RunFindsOne, Candidates, RunsTyped
    <2>1. s \in RunStates /\ RunOK(s)
      BY <2>a DEF RunStates, RunOK
    <2>2. RunsTyped'
      BY <1>RunFindsOne, <2>1, RunUpdated DEF RunFindsOne
    <2> QED
      BY <1>RunFindsOne, <2>2
      DEF RunFindsOne, RowsTyped, QueuesTyped, TxsTyped, TxOK, ServicesTyped
  <1>RunFindsNoOne. ASSUME NEW w \in RunWorkers, NEW verdict \in {"not_found", "ambiguous"},
                           RunFindsNoOne(w, verdict)
                    PROVE  TypeInv'
    <2> DEFINE s == [run[w] EXCEPT !.pc = "commit", !.verdict = verdict]
    <2>1. s \in RunStates /\ RunOK(s)
      BY <1>RunFindsNoOne DEF RunFindsNoOne, RunStates, RunOK, RunsTyped, RowsTyped
    <2>2. RunsTyped'
      BY <1>RunFindsNoOne, <2>1, RunUpdated DEF RunFindsNoOne
    <2> QED
      BY <1>RunFindsNoOne, <2>2
      DEF RunFindsNoOne, RowsTyped, QueuesTyped, TxsTyped, TxOK, ServicesTyped
  <1>RunInsert. ASSUME NEW w \in RunWorkers, RunInsert(w) PROVE TypeInv'
    <2> DEFINE s == [run[w] EXCEPT !.pc = "exclude"]
    <2>1. s \in RunStates /\ RunOK(s)
      BY <1>RunInsert DEF RunInsert, RunStates, RunOK, RunsTyped, RowsTyped
    <2>2. RunsTyped'
      BY <1>RunInsert, <2>1, RunUpdated DEF RunInsert
    <2> QED
      BY <1>RunInsert, <2>2
      DEF RunInsert, RowsTyped, QueuesTyped, TxsTyped, TxOK, ServicesTyped
  <1>RunLoses. ASSUME NEW w \in RunWorkers, RunLoses(w) PROVE TypeInv'
    <2>1. RunsTyped'
      BY <1>RunLoses, IdleTyped, RunUpdated DEF RunLoses, RunGoesIdle
    <2>2. run[w].r \in Requests
      BY <1>RunLoses, RunFields DEF RunLoses
    <2>3. runJob' \in [Requests -> 0..MaxTries]
      BY <1>RunLoses, <2>2, JobsTyped DEF RunLoses, QueuesTyped
    <2> QED
      BY <1>RunLoses, <2>1, <2>3
      DEF RunLoses, RowsTyped, QueuesTyped, TxsTyped, TxOK, ServicesTyped
  <1>RunExclude. ASSUME NEW w \in RunWorkers, RunExclude(w) PROVE TypeInv'
    <2> DEFINE s == [run[w] EXCEPT !.pc = "commit"]
    <2>1. s \in RunStates /\ RunOK(s)
      BY <1>RunExclude DEF RunExclude, RunStates, RunOK, RunsTyped, RowsTyped
    <2>2. RunsTyped'
      BY <1>RunExclude, <2>1, RunUpdated DEF RunExclude
    <2> QED
      BY <1>RunExclude, <2>2
      DEF RunExclude, RowsTyped, QueuesTyped, TxsTyped, TxOK, ServicesTyped
  <1>RunCommitsPair. ASSUME NEW w \in RunWorkers, RunCommitsPair(w) PROVE TypeInv'
    <2> DEFINE s == [RunIdle EXCEPT !.pc = "publish", !.r = run[w].r]
    <2>1. s \in RunStates /\ RunOK(s)
      BY <1>RunCommitsPair, IdleTyped
      DEF RunCommitsPair, RunIdle, RunStates, RunOK, RunsTyped, RowsTyped
    <2>2. RunsTyped'
      BY <1>RunCommitsPair, <2>1, RunUpdated DEF RunCommitsPair, RunIdle
    <2>3. run[w].r \in Requests /\ run[w].t \in ingested /\ run[w].t \in Txs
      BY <1>RunCommitsPair, RunFields DEF RunCommitsPair
    <2>4. attempts' \subseteq Requests \X Nat
      BY <1>RunCommitsPair, <2>3 DEF RunCommitsPair, RowsTyped, AttemptOf
    <2>5. status' \in [Requests -> Statuses]
      BY <1>RunCommitsPair, <2>3 DEF RunCommitsPair, RowsTyped, Statuses, Terminal
    <2>6. primary' \subseteq Requests \X Txs
      BY <1>RunCommitsPair, <2>3 DEF RunCommitsPair, RowsTyped
    <2>7. excluded' \subseteq ingested'
      BY <1>RunCommitsPair, <2>3 DEF RunCommitsPair, RowsTyped
    <2> QED
      BY <1>RunCommitsPair, <2>2, <2>4, <2>5, <2>6, <2>7
      DEF RunCommitsPair, RowsTyped, QueuesTyped, TxsTyped, TxOK, ServicesTyped
  <1>RunCommitsMiss. ASSUME NEW w \in RunWorkers, RunCommitsMiss(w) PROVE TypeInv'
    <2> DEFINE r == run[w].r
               n == IF run[w].verdict = "not_found" THEN retries[r] + 1 ELSE retries[r]
    <2>1. r \in Requests /\ run[w].verdict \in {"not_found", "ambiguous"}
      BY <1>RunCommitsMiss, RunFields DEF RunCommitsMiss
    <2>2. AttemptOf(r) \in Requests \X Nat
      BY <2>1, AttemptTyped
    <2>3. attempts' \subseteq Requests \X Nat
      <3>1. attempts' = attempts \cup {AttemptOf(r)}
        BY <1>RunCommitsMiss DEF RunCommitsMiss
      <3> QED BY <2>2, <3>1 DEF RowsTyped
    <2>4. status' \in [Requests -> Statuses]
      BY <1>RunCommitsMiss, <2>1 DEF RunCommitsMiss, RowsTyped, Statuses, Open
    <2>5. retries' \in [Requests -> Nat]
      <3>1. retries' = [retries EXCEPT ![r] = n]
        BY <1>RunCommitsMiss, <2>1 DEF RunCommitsMiss, RowsTyped
      <3>2. n \in Nat
        BY <2>1, AttemptTyped
      <3> QED BY <3>1, <3>2 DEF RowsTyped
    <2>6. RunsTyped'
      <3> DEFINE s == [RunIdle EXCEPT !.pc = "complete", !.r = r]
      <3>1. s \in RunStates /\ RunOK(s)
        BY <2>1 DEF RunIdle, RunStates, RunOK
      <3> QED
        BY <1>RunCommitsMiss, <3>1, RunUpdated DEF RunCommitsMiss, RunIdle
    <2> QED
      BY <1>RunCommitsMiss, <2>3, <2>4, <2>5, <2>6
      DEF RunCommitsMiss, RowsTyped, QueuesTyped, TxsTyped, TxOK, ServicesTyped
  <1>RunCompletes. ASSUME NEW w \in RunWorkers, RunCompletes(w) PROVE TypeInv'
    <2>1. RunsTyped'
      BY <1>RunCompletes, IdleTyped, RunUpdated DEF RunCompletes, RunGoesIdle
    <2>2. run[w].r \in Requests
      BY <1>RunCompletes, RunFields DEF RunCompletes
    <2>3. runJob' \in [Requests -> 0..MaxTries]
      BY <1>RunCompletes, <2>2, JobsTyped DEF RunCompletes, QueuesTyped
    <2> QED
      BY <1>RunCompletes, <2>1, <2>3
      DEF RunCompletes, RowsTyped, QueuesTyped, TxsTyped, TxOK, ServicesTyped
  <1>RunAttemptTaken. ASSUME NEW w \in RunWorkers, RunAttemptTaken(w) PROVE TypeInv'
    <2>1. RunsTyped'
      BY <1>RunAttemptTaken, IdleTyped, RunUpdated DEF RunAttemptTaken, RunGoesIdle
    <2>2. run[w].r \in Requests
      BY <1>RunAttemptTaken, RunFields DEF RunAttemptTaken
    <2>3. runJob' \in [Requests -> 0..MaxTries]
      BY <1>RunAttemptTaken, <2>2, JobsTyped DEF RunAttemptTaken, QueuesTyped
    <2> QED
      BY <1>RunAttemptTaken, <2>1, <2>3
      DEF RunAttemptTaken, RowsTyped, QueuesTyped, TxsTyped, TxOK, ServicesTyped
  <1>RunPublish. ASSUME NEW w \in RunWorkers, RunPublish(w) PROVE TypeInv'
    <2>1. RunsTyped'
      BY <1>RunPublish, IdleTyped, RunUpdated DEF RunPublish, RunGoesIdle
    <2>2. run[w].r \in Requests
      BY <1>RunPublish, RunFields DEF RunPublish
    <2>3. runJob' \in [Requests -> 0..MaxTries]
      BY <1>RunPublish, <2>2, JobsTyped DEF RunPublish, QueuesTyped
    <2>4. webhooks' \subseteq {"matched", "expired"} \X Requests
      BY <1>RunPublish, <2>2 DEF RunPublish, QueuesTyped
    <2> QED
      BY <1>RunPublish, <2>1, <2>3, <2>4
      DEF RunPublish, RowsTyped, QueuesTyped, TxsTyped, TxOK, ServicesTyped
  <1>RunPublishFails. ASSUME NEW w \in RunWorkers, RunPublishFails(w) PROVE TypeInv'
    <2>1. RunsTyped'
      BY <1>RunPublishFails, IdleTyped, RunUpdated DEF RunPublishFails, RunGoesIdle
    <2>2. run[w].r \in Requests
      BY <1>RunPublishFails, RunFields DEF RunPublishFails
    <2>3. faults' \in 0..MaxFaults
      BY <1>RunPublishFails DEF RunPublishFails, RowsTyped
    <2>4. runJob' \in [Requests -> 0..MaxTries]
      BY <1>RunPublishFails, <2>2, JobsTyped DEF RunPublishFails, QueuesTyped
    <2> QED
      BY <1>RunPublishFails, <2>1, <2>3, <2>4
      DEF RunPublishFails, RowsTyped, QueuesTyped, TxsTyped, TxOK, ServicesTyped
  <1>TxLock. ASSUME NEW w \in TxWorkers, NEW t \in Txs, TxLock(w, t) PROVE TypeInv'
    <2> DEFINE s == [TxIdle EXCEPT !.pc = "scan", !.t = t]
    <2>1. s \in TxStates /\ TxOK(s)
      BY <1>TxLock, IdleTyped
      DEF TxLock, TxIdle, TxTakes, QueuesTyped, TxStates, TxOK, TxsTyped, RowsTyped
    <2>2. TxsTyped'
      BY <1>TxLock, <2>1, TxUpdated DEF TxLock, TxIdle, TxTakes, QueuesTyped
    <2> QED
      BY <1>TxLock, <2>2
      DEF TxLock, RowsTyped, QueuesTyped, RunsTyped, RunOK, ServicesTyped
  <1>TxSkip. ASSUME NEW w \in TxWorkers, NEW t \in Txs, TxSkip(w, t) PROVE TypeInv'
    <2>1. txJob' \in [Txs -> 0..MaxTries] /\ \A u \in Txs : txJob'[u] > 0 => u \in ingested'
      BY <1>TxSkip, JobsTyped DEF TxSkip, QueuesTyped, TxTakes
    <2> QED
      BY <1>TxSkip, <2>1
      DEF TxSkip, RowsTyped, QueuesTyped, RunsTyped, RunOK, TxsTyped, TxOK,
          ServicesTyped
  <1>TxFindsWinner. ASSUME NEW w \in TxWorkers, NEW r \in Requests, TxFindsWinner(w, r)
    PROVE TypeInv'
    <2> DEFINE s == [tx[w] EXCEPT !.pc = "insert", !.locked = Available, !.r = r]
    <2>1. s \in TxStates /\ TxOK(s)
      <3>1. tx[w] \in TxStates /\ TxOK(tx[w]) /\ tx[w].pc = "scan"
        BY <1>TxFindsWinner DEF TxFindsWinner, TxsTyped
      <3>2. r \in Available /\ <<r, tx[w].t>> \in Fits
        BY <1>TxFindsWinner DEF TxFindsWinner, Oldest, Wanting
      <3>3. Available \in SUBSET Requests
        BY DEF Available
      <3> HIDE DEF TypeInv
      <3> QED BY <3>1, <3>2, <3>3 DEF TxStates, TxOK
    <2>2. TxsTyped'
      BY <1>TxFindsWinner, <2>1, TxUpdated DEF TxFindsWinner
    <2> QED
      BY <1>TxFindsWinner, <2>2
      DEF TxFindsWinner, RowsTyped, QueuesTyped, RunsTyped, RunOK, ServicesTyped
  <1>TxFindsNone. ASSUME NEW w \in TxWorkers, TxFindsNone(w) PROVE TypeInv'
    <2> DEFINE s == [tx[w] EXCEPT !.pc = "drop", !.locked = Available]
    <2>1. s \in TxStates /\ TxOK(s)
      BY <1>TxFindsNone DEF TxFindsNone, Available, TxStates, TxOK, TxsTyped, RowsTyped
    <2>2. TxsTyped'
      BY <1>TxFindsNone, <2>1, TxUpdated DEF TxFindsNone
    <2> QED
      BY <1>TxFindsNone, <2>2
      DEF TxFindsNone, RowsTyped, QueuesTyped, RunsTyped, RunOK, ServicesTyped
  <1>TxDrop. ASSUME NEW w \in TxWorkers, TxDrop(w) PROVE TypeInv'
    <2>1. TxsTyped'
      BY <1>TxDrop, IdleTyped, TxUpdated DEF TxDrop, TxGoesIdle
    <2>2. tx[w].t \in ingested /\ tx[w].t \in Txs
      BY <1>TxDrop, TxFields DEF TxDrop
    <2>3. excluded' \subseteq ingested'
      BY <1>TxDrop, <2>2 DEF TxDrop, RowsTyped
    <2>4. txJob' \in [Txs -> 0..MaxTries] /\ \A u \in Txs : txJob'[u] > 0 => u \in ingested'
      BY <1>TxDrop, <2>2, JobsTyped DEF TxDrop, QueuesTyped
    <2> QED
      BY <1>TxDrop, <2>1, <2>3, <2>4
      DEF TxDrop, RowsTyped, QueuesTyped, RunsTyped, RunOK, ServicesTyped
  <1>TxInsert. ASSUME NEW w \in TxWorkers, TxInsert(w) PROVE TypeInv'
    <2>1. CASE Conciliated(tx[w].t)
      <3>1. TxsTyped'
        BY <1>TxInsert, <2>1, IdleTyped, TxUpdated DEF TxInsert, TxGoesIdle
      <3>2. tx[w].t \in Txs
        BY <1>TxInsert, TxFields DEF TxInsert
      <3>3. txJob' \in [Txs -> 0..MaxTries] /\ \A u \in Txs : txJob'[u] > 0 => u \in ingested'
        BY <1>TxInsert, <2>1, <3>2, JobsTyped DEF TxInsert, QueuesTyped
      <3> QED
        BY <1>TxInsert, <3>1, <3>3
        DEF TxInsert, RowsTyped, QueuesTyped, RunsTyped, RunOK, ServicesTyped
    <2>2. CASE ~Conciliated(tx[w].t)
      <3> DEFINE s == [tx[w] EXCEPT !.pc = "commit"]
      <3>1. s \in TxStates /\ TxOK(s)
        BY <1>TxInsert DEF TxInsert, TxStates, TxOK, TxsTyped
      <3>2. TxsTyped'
        BY <1>TxInsert, <2>2, <3>1, TxUpdated DEF TxInsert
      <3> QED
        BY <1>TxInsert, <2>2, <3>2
        DEF TxInsert, RowsTyped, QueuesTyped, RunsTyped, RunOK, ServicesTyped
    <2> QED BY <2>1, <2>2
  <1>TxCommit. ASSUME NEW w \in TxWorkers, TxCommit(w) PROVE TypeInv'
    <2> DEFINE r == tx[w].r
               t == tx[w].t
    <2>1. r \in Requests /\ t \in ingested /\ t \in Txs
      BY <1>TxCommit, TxFields DEF TxCommit
    <2>2. CASE AttemptOf(r) \in attempts
      <3>1. TxsTyped'
        BY <1>TxCommit, <2>2, IdleTyped, TxUpdated DEF TxCommit, TxGoesIdle
      <3>2. txJob' \in [Txs -> 0..MaxTries] /\ \A u \in Txs : txJob'[u] > 0 => u \in ingested'
        BY <1>TxCommit, <2>1, <2>2, JobsTyped DEF TxCommit, QueuesTyped
      <3> QED
        BY <1>TxCommit, <2>2, <3>1, <3>2
        DEF TxCommit, RowsTyped, QueuesTyped, RunsTyped, RunOK, ServicesTyped
    <2>3. CASE AttemptOf(r) \notin attempts
      <3> DEFINE s == [tx[w] EXCEPT !.pc = "publish", !.locked = {}]
      <3>1. s \in TxStates /\ TxOK(s)
        BY <1>TxCommit, <2>1 DEF TxCommit, TxStates, TxOK, TxsTyped
      <3>2. TxsTyped'
        <4>1. tx' = [tx EXCEPT ![w] = s] /\ UNCHANGED ingested
          BY <1>TxCommit, <2>3 DEF TxCommit
        <4> QED BY <3>1, <4>1, TxUpdated
      <3>3. attempts' \subseteq Requests \X Nat
        BY <1>TxCommit, <2>1, <2>3 DEF TxCommit, RowsTyped, AttemptOf
      <3>4. status' \in [Requests -> Statuses]
        BY <1>TxCommit, <2>1, <2>3 DEF TxCommit, RowsTyped, Statuses, Terminal
      <3>5. primary' \subseteq Requests \X Txs
        BY <1>TxCommit, <2>1, <2>3 DEF TxCommit, RowsTyped
      <3>6. excluded' \subseteq ingested'
        BY <1>TxCommit, <2>1, <2>3 DEF TxCommit, RowsTyped
      <3> QED
        BY <1>TxCommit, <2>3, <3>2, <3>3, <3>4, <3>5, <3>6
        DEF TxCommit, RowsTyped, QueuesTyped, RunsTyped, RunOK, ServicesTyped
    <2> QED BY <2>2, <2>3
  <1>TxPublish. ASSUME NEW w \in TxWorkers, TxPublish(w) PROVE TypeInv'
    <2>1. TxsTyped'
      BY <1>TxPublish, IdleTyped, TxUpdated DEF TxPublish, TxGoesIdle
    <2>2. tx[w].t \in Txs /\ tx[w].r \in Requests
      BY <1>TxPublish, TxFields DEF TxPublish
    <2>3. txJob' \in [Txs -> 0..MaxTries] /\ \A u \in Txs : txJob'[u] > 0 => u \in ingested'
      BY <1>TxPublish, <2>2, JobsTyped DEF TxPublish, QueuesTyped
    <2>4. webhooks' \subseteq {"matched", "expired"} \X Requests
      BY <1>TxPublish, <2>2 DEF TxPublish, QueuesTyped
    <2> QED
      BY <1>TxPublish, <2>1, <2>3, <2>4
      DEF TxPublish, RowsTyped, QueuesTyped, RunsTyped, RunOK, ServicesTyped
  <1>TxPublishFails. ASSUME NEW w \in TxWorkers, TxPublishFails(w) PROVE TypeInv'
    <2>1. TxsTyped'
      BY <1>TxPublishFails, IdleTyped, TxUpdated DEF TxPublishFails, TxGoesIdle
    <2>2. tx[w].t \in Txs
      BY <1>TxPublishFails, TxFields DEF TxPublishFails
    <2>3. faults' \in 0..MaxFaults
      BY <1>TxPublishFails DEF TxPublishFails, RowsTyped
    <2>4. txJob' \in [Txs -> 0..MaxTries] /\ \A u \in Txs : txJob'[u] > 0 => u \in ingested'
      BY <1>TxPublishFails, <2>2, JobsTyped DEF TxPublishFails, QueuesTyped
    <2> QED
      BY <1>TxPublishFails, <2>1, <2>3, <2>4
      DEF TxPublishFails, RowsTyped, QueuesTyped, RunsTyped, RunOK, ServicesTyped
  <1>DeadlockAborts. ASSUME NEW w \in RunWorkers, NEW v \in TxWorkers, DeadlockAborts(w, v)
    PROVE TypeInv'
    <2>1. run[w].r \in Requests /\ tx[v].t \in Txs
      BY <1>DeadlockAborts, RunFields, TxFields DEF DeadlockAborts, Deadlocked
    <2>2. CASE RunGoesIdle(w) /\ runJob' = Failed(runJob, run[w].r) /\ UNCHANGED <<tx, txJob>>
      <3>1. RunsTyped'
        BY <1>DeadlockAborts, <2>2, IdleTyped, RunUpdated
        DEF DeadlockAborts, RunGoesIdle
      <3>2. runJob' \in [Requests -> 0..MaxTries]
        BY <2>1, <2>2, JobsTyped DEF QueuesTyped
      <3> QED
        BY <1>DeadlockAborts, <2>2, <3>1, <3>2
        DEF DeadlockAborts, RowsTyped, QueuesTyped, TxsTyped, TxOK, ServicesTyped
    <2>3. CASE TxGoesIdle(v) /\ txJob' = Failed(txJob, tx[v].t) /\ UNCHANGED <<run, runJob>>
      <3>1. TxsTyped'
        BY <1>DeadlockAborts, <2>3, IdleTyped, TxUpdated DEF DeadlockAborts, TxGoesIdle
      <3>2. txJob' \in [Txs -> 0..MaxTries] /\ \A u \in Txs : txJob'[u] > 0 => u \in ingested'
        BY <1>DeadlockAborts, <2>1, <2>3, JobsTyped DEF QueuesTyped, DeadlockAborts
      <3> QED
        BY <1>DeadlockAborts, <2>3, <3>1, <3>2
        DEF DeadlockAborts, RowsTyped, QueuesTyped, RunsTyped, RunOK, ServicesTyped
    <2> QED BY <1>DeadlockAborts, <2>2, <2>3 DEF DeadlockAborts
  <1>FeedSave. ASSUME NEW t \in Txs, FeedSave(t) PROVE TypeInv'
    <2>1. ServicesTyped'
      BY <1>FeedSave DEF FeedSave, ServicesTyped, FeedStates
    <2> QED
      BY <1>FeedSave, <2>1
      DEF FeedSave, RowsTyped, QueuesTyped, RunsTyped, RunOK, TxsTyped, TxOK
  <1>FeedCheck. ASSUME FeedCheck PROVE TypeInv'
    <2> DEFINE s(pc) == [feed EXCEPT !.pc = pc]
    <2>1. s("enqueue") \in FeedStates /\ s("exclude") \in FeedStates
      BY DEF ServicesTyped, FeedStates
    <2>2. ServicesTyped'
      <3>1. CASE feed' = s("enqueue")
        BY <1>FeedCheck, <2>1, <3>1 DEF FeedCheck, ServicesTyped, FeedStates
      <3>2. CASE feed' = s("exclude")
        BY <1>FeedCheck, <2>1, <3>2 DEF FeedCheck, ServicesTyped, FeedStates
      <3> QED BY <1>FeedCheck, <3>1, <3>2 DEF FeedCheck
    <2> QED
      BY <1>FeedCheck, <2>2
      DEF FeedCheck, RowsTyped, QueuesTyped, RunsTyped, RunOK, TxsTyped, TxOK
  <1>FeedExclude. ASSUME FeedExclude PROVE TypeInv'
    BY <1>FeedExclude, IdleTyped
    DEF FeedExclude, RowsTyped, QueuesTyped, RunsTyped, RunOK, TxsTyped, TxOK,
        ServicesTyped
  <1>FeedEnqueue. ASSUME FeedEnqueue PROVE TypeInv'
    <2>1. txJob' \in [Txs -> 0..MaxTries] /\ \A u \in Txs : txJob'[u] > 0 => u \in ingested'
      BY <1>FeedEnqueue
      DEF FeedEnqueue, QueuesTyped, ServicesTyped, FeedStates, RowsTyped
    <2> QED
      BY <1>FeedEnqueue, <2>1, IdleTyped
      DEF FeedEnqueue, RowsTyped, QueuesTyped, RunsTyped, RunOK, TxsTyped, TxOK,
          ServicesTyped
  <1>FeedEnqueueFails. ASSUME FeedEnqueueFails PROVE TypeInv'
    BY <1>FeedEnqueueFails, IdleTyped
    DEF FeedEnqueueFails, RowsTyped, QueuesTyped, RunsTyped, RunOK, TxsTyped, TxOK,
        ServicesTyped
  <1>PollFetch. ASSUME NEW orders \in SUBSET Requests, PollFetch(orders) PROVE TypeInv'
    <2>1. ServicesTyped'
      BY <1>PollFetch DEF PollFetch, ServicesTyped, PollStates
    <2> QED
      BY <1>PollFetch, <2>1
      DEF PollFetch, RowsTyped, QueuesTyped, RunsTyped, RunOK, TxsTyped, TxOK
  <1>PollCreate. ASSUME PollCreate PROVE TypeInv'
    <2>1. PICK r \in Oldest(poll.todo) : PollCreate!(r)
      BY <1>PollCreate DEF PollCreate
    <2>2. r \in Requests
      BY <2>1 DEF Oldest, ServicesTyped, PollStates
    <2> DEFINE s == [poll EXCEPT !.pc = "enqueue", !.todo = @ \ {r}, !.r = r]
               u == [poll EXCEPT !.todo = @ \ {r}]
    <2>3. s \in PollStates /\ u \in PollStates
      BY <2>2 DEF ServicesTyped, PollStates
    <2>4. CASE status[r] = "absent"
      <3>1. status' \in [Requests -> Statuses]
        BY <2>1, <2>2, <2>4 DEF RowsTyped, Statuses, Open
      <3>2. poll' = s
        BY <2>1, <2>4
      <3>3. ServicesTyped'
        BY <2>1, <2>2, <2>3, <3>2 DEF ServicesTyped
      <3> QED
        BY <2>1, <3>1, <3>3 DEF RowsTyped, QueuesTyped, RunsTyped, RunOK, TxsTyped, TxOK
    <2>5. CASE status[r] # "absent"
      <3>1. poll' = u /\ UNCHANGED status
        BY <2>1, <2>5
      <3>2. ServicesTyped'
        BY <2>1, <2>2, <2>3, <3>1 DEF ServicesTyped, PollStates
      <3> QED
        BY <2>1, <3>1, <3>2 DEF RowsTyped, QueuesTyped, RunsTyped, RunOK, TxsTyped, TxOK
    <2> QED BY <2>4, <2>5
  <1>PollEnqueue. ASSUME PollEnqueue PROVE TypeInv'
    <2>1. runJob' \in [Requests -> 0..MaxTries]
      BY <1>PollEnqueue DEF PollEnqueue, QueuesTyped, ServicesTyped
    <2>2. ServicesTyped'
      BY <1>PollEnqueue DEF PollEnqueue, ServicesTyped, PollStates
    <2> QED
      BY <1>PollEnqueue, <2>1, <2>2
      DEF PollEnqueue, RowsTyped, QueuesTyped, RunsTyped, RunOK, TxsTyped, TxOK
  <1>PollEnqueueFails. ASSUME PollEnqueueFails PROVE TypeInv'
    BY <1>PollEnqueueFails, IdleTyped
    DEF PollEnqueueFails, RowsTyped, QueuesTyped, RunsTyped, RunOK, TxsTyped, TxOK,
        ServicesTyped
  <1>PollCancel. ASSUME PollCancel PROVE TypeInv'
    BY <1>PollCancel, IdleTyped
    DEF PollCancel, RowsTyped, QueuesTyped, RunsTyped, RunOK, TxsTyped, TxOK,
        ServicesTyped,
        Statuses, Terminal
  <1>ExpireScan. ASSUME NEW r \in Requests, ExpireScan(r) PROVE TypeInv'
    <2>1. ServicesTyped'
      BY <1>ExpireScan, NextTyped DEF ExpireScan, ServicesTyped
    <2> QED
      BY <1>ExpireScan, <2>1
      DEF ExpireScan, RowsTyped, QueuesTyped, RunsTyped, RunOK, TxsTyped, TxOK
  <1>ExpireLoad. ASSUME NEW r \in Requests, ExpireLoad(r) PROVE TypeInv'
    <2>1. expire.todo \ {r} \in SUBSET Requests
      BY DEF ServicesTyped, ExpireStates
    <2>2. ServicesTyped'
      <3>1. CASE expire' = ExpireNext(expire.todo \ {r})
        BY <1>ExpireLoad, <2>1, <3>1, NextTyped DEF ExpireLoad, ServicesTyped
      <3>2. CASE expire' = [pc |-> "save", todo |-> expire.todo \ {r}, r |-> r,
                            retries |-> retries[r]]
        BY <1>ExpireLoad, <2>1, <3>2
        DEF ExpireLoad, ServicesTyped, ExpireStates, RowsTyped
      <3> QED BY <1>ExpireLoad, <3>1, <3>2 DEF ExpireLoad
    <2> QED
      BY <1>ExpireLoad, <2>2
      DEF ExpireLoad, RowsTyped, QueuesTyped, RunsTyped, RunOK, TxsTyped, TxOK
  <1>ExpireSave. ASSUME ExpireSave PROVE TypeInv'
    <2>1. expire.r \in Requests /\ expire.retries \in Nat /\ expire.todo \in SUBSET Requests
      BY <1>ExpireSave DEF ExpireSave, ServicesTyped, ExpireStates
    <2>2. status' \in [Requests -> Statuses]
      BY <1>ExpireSave, <2>1 DEF ExpireSave, RowsTyped, Statuses, Terminal
    <2>3. retries' \in [Requests -> Nat]
      BY <1>ExpireSave, <2>1 DEF ExpireSave, RowsTyped
    <2>4. ServicesTyped'
      <3>1. CASE NotifyExpired
        <4> DEFINE s == [expire EXCEPT !.pc = "notify"]
        <4>1. s \in ExpireStates /\ s.r \in Requests
          BY <2>1 DEF ServicesTyped, ExpireStates
        <4> QED BY <1>ExpireSave, <3>1, <4>1 DEF ExpireSave, ServicesTyped
      <3>2. CASE ~NotifyExpired
        BY <1>ExpireSave, <2>1, <3>2, NextTyped DEF ExpireSave, ServicesTyped
      <3> QED BY <3>1, <3>2
    <2> QED
      BY <1>ExpireSave, <2>2, <2>3, <2>4
      DEF ExpireSave, RowsTyped, QueuesTyped, RunsTyped, RunOK, TxsTyped, TxOK
  <1>ExpireNotify. ASSUME ExpireNotify PROVE TypeInv'
    <2>1. expire.r \in Requests /\ expire.todo \in SUBSET Requests
      BY <1>ExpireNotify DEF ExpireNotify, ServicesTyped, ExpireStates
    <2>2. webhooks' \subseteq {"matched", "expired"} \X Requests
      BY <1>ExpireNotify, <2>1 DEF ExpireNotify, QueuesTyped
    <2>3. ServicesTyped'
      BY <1>ExpireNotify, <2>1, NextTyped DEF ExpireNotify, ServicesTyped
    <2> QED
      BY <1>ExpireNotify, <2>2, <2>3
      DEF ExpireNotify, RowsTyped, QueuesTyped, RunsTyped, RunOK, TxsTyped, TxOK
  <1>ExpireNotifyFails. ASSUME ExpireNotifyFails PROVE TypeInv'
    BY <1>ExpireNotifyFails, IdleTyped
    DEF ExpireNotifyFails, RowsTyped, QueuesTyped, RunsTyped, RunOK, TxsTyped, TxOK,
        ServicesTyped
  <1>ManualRun. ASSUME NEW r \in Requests, ManualRun(r) PROVE TypeInv'
    <2>1. runJob' \in [Requests -> 0..MaxTries]
      BY <1>ManualRun, ConstantsAssumption DEF ManualRun, QueuesTyped
    <2>2. faults' \in 0..MaxFaults
      BY <1>ManualRun, ConstantsAssumption DEF ManualRun, RowsTyped
    <2> QED
      BY <1>ManualRun, <2>1, <2>2
      DEF ManualRun, RowsTyped, QueuesTyped, RunsTyped, RunOK, TxsTyped, TxOK, ServicesTyped
  <1>Crash. ASSUME Crash PROVE TypeInv'
    <2>1. RunsTyped'
      BY <1>Crash, IdleTyped DEF Crash, RunsTyped, RunOK, RunIdle
    <2>2. TxsTyped'
      BY <1>Crash, IdleTyped DEF Crash, TxsTyped, TxOK, TxIdle
    <2> QED
      BY <1>Crash, <2>1, <2>2, IdleTyped
      DEF Crash, RowsTyped, QueuesTyped, ServicesTyped
  <1>Stutter. CASE UNCHANGED vars
    BY <1>Stutter
    DEF vars, RowsTyped, QueuesTyped, RunsTyped, RunOK, TxsTyped, TxOK, ServicesTyped
  <1> QED
    BY <1>RunSkip, <1>RunLock, <1>RunFindsOne, <1>RunFindsNoOne, <1>RunInsert,
       <1>RunLoses, <1>RunExclude, <1>RunCommitsPair, <1>RunCommitsMiss, <1>RunCompletes,
       <1>RunAttemptTaken, <1>RunPublish, <1>RunPublishFails, <1>TxLock, <1>TxSkip,
       <1>TxFindsWinner, <1>TxFindsNone, <1>TxDrop, <1>TxInsert, <1>TxCommit,
       <1>TxPublish, <1>TxPublishFails, <1>DeadlockAborts, <1>FeedSave, <1>FeedCheck,
       <1>FeedExclude, <1>FeedEnqueue, <1>FeedEnqueueFails, <1>PollFetch,
       <1>PollCreate, <1>PollEnqueue, <1>PollEnqueueFails, <1>PollCancel,
       <1>ExpireScan, <1>ExpireLoad, <1>ExpireSave, <1>ExpireNotify,
       <1>ExpireNotifyFails, <1>ManualRun, <1>Crash, <1>Stutter
    DEF Next, RunStep, TxStep, FeedStep, PollStep, ExpireStep, Fault

(* TypeInv contains TypeOK. *)
LEMMA TypeInvTypes == TypeInv => TypeOK
  BY DEF TypeInv, TypeOK, RowsTyped, QueuesTyped, RunsTyped, TxsTyped, ServicesTyped

(* Every behaviour keeps the records of every execution well formed. *)
THEOREM AlwaysWellFormed == Spec => []TypeInv
  BY TypeInit, TypeStep, PTL DEF Spec

(* The types of the tables, the queues and the executions in hand hold in  *)
(* every reachable state, for any number of orders, payments and workers.  *)
THEOREM TypesCorrect == Spec => []TypeOK
  BY AlwaysWellFormed, TypeInvTypes, PTL

-----------------------------------------------------------------------------
(* The locks half of the invariant. *)
Locks == LockedMeansUndecided

(* No payment has two uncommitted pairs, and none beside a committed one:  *)
(* what the unique index of migration 043 does while transactions run.     *)
Claims ==
  /\ \A w, v \in RunWorkers, t \in Txs : RunClaims(w, t) /\ RunClaims(v, t) => w = v
  /\ \A w \in RunWorkers, v \in TxWorkers, t \in Txs : ~(RunClaims(w, t) /\ TxClaims(v, t))
  /\ \A w, v \in TxWorkers, t \in Txs : TxClaims(w, t) /\ TxClaims(v, t) => w = v
  /\ \A t \in Txs : Claimed(t) => ~Conciliated(t)

(* A queued order is in the table, so the worker that locks it finds one   *)
(* of the statuses the engine may overwrite.                               *)
Created ==
  /\ \A r \in Requests : runJob[r] > 0 => status[r] # "absent"
  /\ poll.pc = "enqueue" => status[poll.r] # "absent"

(* The inductive invariant. *)
Safe == TypeInv /\ Locks /\ Claims /\ Created /\ OnePayment /\ PairsAgree

(* A step that takes no lock, and writes no decision under one, keeps the  *)
(* locks exclusive (RunConciliationUseCase and                             *)
(* ProcessIncomingTransactionUseCase, their SELECT ... FOR UPDATE).        *)
LEMMA LocksKept ==
  ASSUME Locks,
         \A w \in RunWorkers, r \in Requests : RunHolds(w, r)' => RunHolds(w, r),
         \A v \in TxWorkers : tx'[v].locked \subseteq tx[v].locked,
         \A r \in Requests : ReqLocked(r)' => status'[r] \in Cancelable
  PROVE  Locks'
  BY DEF Locks, LockedMeansUndecided

(* A step that adds no index entry, and commits no pair of a payment that  *)
(* another transaction has claimed, keeps the claims exclusive.            *)
LEMMA ClaimsKept ==
  ASSUME Claims,
         \A w \in RunWorkers, t \in Txs : RunClaims(w, t)' => RunClaims(w, t),
         \A v \in TxWorkers, t \in Txs : TxClaims(v, t)' => TxClaims(v, t),
         \A t \in Txs : Claimed(t)' => ~Conciliated(t)'
  PROVE  Claims'
  BY DEF Claims

(* A conciliation worker that goes on, or gives up, without taking a lock  *)
(* or an index entry keeps both parts.                                     *)
LEMMA RunMoves ==
  ASSUME Safe, NEW w \in RunWorkers, NEW s \in RunStates, run' = [run EXCEPT ![w] = s],
         s.pc \in {"evaluate", "insert", "exclude", "commit"} =>
           run[w].pc \in {"evaluate", "insert", "exclude", "commit"} /\ s.r = run[w].r,
         s.pc \in {"exclude", "commit"} /\ s.t \in Txs =>
           run[w].pc \in {"exclude", "commit"} /\ s.t = run[w].t,
         UNCHANGED <<status, tx, primary>>
  PROVE  Locks' /\ Claims'
  <1>1. ASSUME NEW v \in RunWorkers
        PROVE  /\ \A r \in Requests : RunHolds(v, r)' => RunHolds(v, r)
               /\ \A t \in Txs : RunClaims(v, t)' => RunClaims(v, t)
    BY DEF Safe, TypeInv, RunsTyped, RunHolds, RunClaims
  <1>2. Locks'
    BY <1>1, LocksKept DEF Safe, Locks, LockedMeansUndecided, ReqLocked
  <1>3. Claims'
    BY <1>1, ClaimsKept DEF Safe, Claims, Claimed, Conciliated, TxClaims
  <1> QED BY <1>2, <1>3

(* A step that adds no pair, brings no excluded payment back and neither   *)
(* decides nor reopens an order leaves the pairs as they were.             *)
LEMMA PairsKept ==
  ASSUME TypeInv, OnePayment, PairsAgree, primary' = primary, excluded \subseteq excluded',
         \A r \in Requests : /\ status'[r] = "matched" => status[r] = "matched"
                             /\ status[r] \in {"matched", "expired"}
                                  => status'[r] \in {"matched", "expired"}
  PROVE  OnePayment' /\ PairsAgree'
  BY DEF OnePayment, PairsAgree, TypeInv, RowsTyped

(* A commit that pairs an undecided order with an unspent payment that     *)
(* fits: each still has one pair, and the order and the payment say so.    *)
LEMMA PairAdded ==
  ASSUME TypeInv, OnePayment, PairsAgree, NEW r \in Requests, NEW t \in Txs,
         <<r, t>> \in Fits,
         status[r] \in Cancelable, ~Conciliated(t),
         status' = [status EXCEPT ![r] = "matched"], primary' = primary \cup {<<r, t>>},
         excluded' = excluded \cup {t}
  PROVE  OnePayment' /\ PairsAgree' /\ \A u \in Txs : <<r, u>> \notin primary
  <1>1. \A u \in Txs : <<r, u>> \notin primary
    BY DEF PairsAgree, Cancelable, Open
  <1>2. ASSUME NEW p \in primary PROVE p[1] # r /\ p[2] # t
    <2>1. PICK q \in Requests, u \in Txs : p = <<q, u>>
      BY DEF TypeInv, RowsTyped
    <2> QED BY <1>1, <2>1 DEF Conciliated
  <1>3. OnePayment'
    <2> SUFFICES ASSUME NEW p \in primary', NEW q \in primary', p[1] = q[1] \/ p[2] = q[2]
                 PROVE p = q
      BY DEF OnePayment
    <2>1. CASE p \in primary /\ q \in primary
      BY <2>1 DEF OnePayment
    <2>2. CASE p = <<r, t>> /\ q = <<r, t>>
      BY <2>2
    <2>3. CASE p = <<r, t>> /\ q \in primary
      BY <2>3, <1>2
    <2>4. CASE p \in primary /\ q = <<r, t>>
      BY <2>4, <1>2
    <2> QED BY <2>1, <2>2, <2>3, <2>4
  <1>4. PairsAgree'
    <2>1. ASSUME NEW q \in Requests, status'[q] = "matched"
          PROVE  \E u \in Txs : <<q, u>> \in primary'
      BY <2>1 DEF PairsAgree, TypeInv, RowsTyped
    <2>2. ASSUME NEW p \in primary
          PROVE  status'[p[1]] \in {"matched", "expired"} /\ p \in Fits /\ p[2] \in excluded'
      BY <1>2, <2>2 DEF PairsAgree, TypeInv, RowsTyped
    <2>3. status'[r] = "matched" /\ t \in excluded'
      BY DEF TypeInv, RowsTyped
    <2> QED BY <2>1, <2>2, <2>3 DEF PairsAgree
  <1> QED BY <1>1, <1>3, <1>4

(* SELECT ... FOR UPDATE SKIP LOCKED of RunConciliationUseCase takes a row  *)
(* nobody holds, of an order that is still undecided.                      *)
LEMMA RunLockSafe ==
  ASSUME Safe, NEW w \in RunWorkers, NEW q \in Requests, RunLock(w, q)
  PROVE  Locks' /\ Claims'
  <1>1. ASSUME NEW v \in RunWorkers, v # w
        PROVE  /\ \A r \in Requests : RunHolds(v, r)' = RunHolds(v, r)
               /\ \A t \in Txs : RunClaims(v, t)' = RunClaims(v, t)
    BY <1>1 DEF Safe, TypeInv, RunsTyped, RunLock, RunHolds, RunClaims
  <1>2. /\ \A r \in Requests : RunHolds(w, r)' => r = q
        /\ \A t \in Txs : ~RunClaims(w, t)'
    BY DEF Safe, TypeInv, RunsTyped, RunLock, RunIdle, RunHolds, RunClaims
  <1>3. status[q] \in Cancelable /\ ~ReqLocked(q)
    BY ConstantsAssumption
    DEF Safe, RunLock, Created, TypeInv, RowsTyped, Statuses, Terminal, Open, Cancelable
  <1>4. UNCHANGED <<status, tx, primary>>
    BY DEF RunLock, dbVars
  <1>5. ASSUME NEW r \in Requests
        PROVE /\ ReqLocked(r)' => ReqLocked(r) \/ r = q
              /\ \A v \in RunWorkers : RunHolds(v, r)' => RunHolds(v, r) \/ (v = w /\ r = q)
    BY <1>1, <1>2, <1>4 DEF ReqLocked
  <1>6. Locks'
    BY <1>3, <1>4, <1>5 DEF Safe, Locks, LockedMeansUndecided, ReqLocked
  <1>7. Claims'
    BY <1>1, <1>2, <1>4, ClaimsKept DEF Safe, Claims, Claimed, Conciliated, TxClaims
  <1> QED BY <1>6, <1>7

(* A tx-conciliation worker that rolls back or has nothing more to do      *)
(* frees what it held and takes nothing.                                   *)
LEMMA TxGivesUp ==
  ASSUME Safe, NEW w \in TxWorkers, TxGoesIdle(w), UNCHANGED <<status, run, primary>>
  PROVE  Locks' /\ Claims'
  <1>1. ASSUME NEW v \in TxWorkers
        PROVE  /\ tx'[v].locked \subseteq tx[v].locked
               /\ \A t \in Txs : TxClaims(v, t)' => TxClaims(v, t)
    BY DEF Safe, TypeInv, TxsTyped, TxGoesIdle, TxIdle, TxClaims
  <1>2. Locks'
    BY <1>1, LocksKept DEF Safe, Locks, LockedMeansUndecided, ReqLocked, RunHolds
  <1>3. Claims'
    BY <1>1, ClaimsKept DEF Safe, Claims, Claimed, Conciliated, RunClaims
  <1> QED BY <1>2, <1>3

(* findPendingByAccount of ProcessIncomingTransactionUseCase locks open    *)
(* orders nobody holds, all of them in one step.                           *)
LEMMA TxScanned ==
  ASSUME Safe, NEW w \in TxWorkers, NEW s \in TxStates, tx[w].pc = "scan",
         tx' = [tx EXCEPT ![w] = s], s.pc \in {"insert", "drop"}, s.locked = Available,
         UNCHANGED <<status, run, primary>>
  PROVE  Locks' /\ Claims'
  <1>1. ASSUME NEW v \in TxWorkers, v # w
        PROVE  tx'[v] = tx[v]
    BY <1>1 DEF Safe, TypeInv, TxsTyped
  <1>2. tx'[w].locked = Available /\ \A t \in Txs : ~TxClaims(w, t)'
    BY DEF Safe, TypeInv, TxsTyped, TxClaims
  <1>3. \A r \in Available : ~ReqLocked(r) /\ status[r] \in Cancelable
    BY DEF Available, Cancelable
  <1>4. \A v \in RunWorkers, r \in Requests : RunHolds(v, r)' = RunHolds(v, r)
    BY DEF RunHolds
  <1>5. Locks'
    BY <1>1, <1>2, <1>3, <1>4 DEF Safe, Locks, LockedMeansUndecided, ReqLocked
  <1>6. Claims'
    BY <1>1, <1>2, ClaimsKept
    DEF Safe, Claims, Claimed, Conciliated, TxClaims, RunClaims
  <1> QED BY <1>5, <1>6

(* The INSERT of a pair by ProcessIncomingTransactionUseCase claims a      *)
(* payment that has no pair, committed or not.                             *)
LEMMA TxInsertSafe ==
  ASSUME Safe, NEW w \in TxWorkers, TxInsert(w), ~Conciliated(tx[w].t)
  PROVE  Locks' /\ Claims'
  <1>1. tx' = [tx EXCEPT ![w].pc = "commit"] /\ UNCHANGED <<status, run, primary>>
    BY DEF TxInsert, dbVars
  <1>2. ASSUME NEW v \in TxWorkers
        PROVE  /\ tx'[v].locked = tx[v].locked
               /\ v # w => \A t \in Txs : TxClaims(v, t)' = TxClaims(v, t)
    BY <1>1 DEF Safe, TypeInv, TxsTyped, TxStates, TxClaims
  <1>3. \A t \in Txs : TxClaims(w, t)' => ~Claimed(t) /\ ~Conciliated(t)
    BY <1>1 DEF Safe, TypeInv, TxsTyped, TxStates, TxInsert, TxClaims
  <1>4. Locks'
    BY <1>1, <1>2, LocksKept DEF Safe, Locks, LockedMeansUndecided, ReqLocked, RunHolds
  <1>5. Claims'
    BY <1>1, <1>2, <1>3 DEF Safe, Claims, Claimed, Conciliated, RunClaims
  <1> QED BY <1>4, <1>5

(* The COMMIT of ProcessIncomingTransactionUseCase writes the first pair   *)
(* of its order and of its payment, and frees its locks.                   *)
LEMMA TxCommitSafe ==
  ASSUME Safe, NEW w \in TxWorkers, TxCommit(w), AttemptOf(tx[w].r) \notin attempts
  PROVE  Locks' /\ Claims' /\ OnePayment' /\ PairsAgree'
  <1> DEFINE r == tx[w].r
             t == tx[w].t
  <1>1. r \in Requests /\ t \in Txs /\ <<r, t>> \in Fits /\ r \in tx[w].locked /\ TxClaims(w, t)
    BY TxFields DEF TxCommit, Safe, TypeInv, TxClaims, TxsTyped, TxOK
  <1>2. /\ status' = [status EXCEPT ![r] = "matched"]
        /\ primary' = primary \cup {<<r, t>>}
        /\ excluded' = excluded \cup {t}
        /\ tx' = [tx EXCEPT ![w] = [@ EXCEPT !.pc = "publish", !.locked = {}]]
        /\ run' = run
    BY DEF TxCommit
  <1>3. status[r] \in Cancelable /\ ~Conciliated(t)
    BY <1>1 DEF Safe, Locks, LockedMeansUndecided, ReqLocked, Claims, Claimed
  <1>4. ASSUME NEW v \in TxWorkers
        PROVE  /\ tx'[v].locked \subseteq tx[v].locked
               /\ tx'[v].locked # {} => v # w
               /\ \A u \in Txs : TxClaims(v, u)' => TxClaims(v, u) /\ v # w
    BY <1>2 DEF Safe, TypeInv, TxsTyped, TxStates, TxClaims
  <1>5. \A v \in RunWorkers : /\ \A q \in Requests : RunHolds(v, q)' = RunHolds(v, q)
                              /\ \A u \in Txs : RunClaims(v, u)' = RunClaims(v, u)
    BY <1>2 DEF RunHolds, RunClaims
  <1>6. Locks'
    <2>1. ASSUME NEW q \in Requests, ReqLocked(q)' PROVE ReqLocked(q) /\ q # r
      BY <2>1, <1>1, <1>4, <1>5 DEF ReqLocked, Safe, Locks, LockedMeansUndecided
    <2>2. ASSUME NEW q \in Requests, ReqLocked(q)' PROVE status'[q] \in Cancelable
      BY <2>1, <2>2, <1>2 DEF Safe, Locks, LockedMeansUndecided, TypeInv, RowsTyped
    <2> QED BY <1>4, <1>5, <2>2, LocksKept DEF Safe
  <1>7. Claims'
    <2>1. ASSUME NEW u \in Txs, Claimed(u)' PROVE Claimed(u) /\ u # t
      BY <2>1, <1>1, <1>4, <1>5 DEF Claimed, Safe, Claims
    <2>2. ASSUME NEW u \in Txs, Claimed(u)' PROVE ~Conciliated(u)'
      BY <2>1, <2>2, <1>2 DEF Conciliated, Safe, Claims
    <2> QED BY <1>4, <1>5, <2>2, ClaimsKept DEF Safe
  <1> QED BY <1>1, <1>2, <1>3, <1>6, <1>7, PairAdded DEF Safe

(* A status written outside the matching transactions (poll, expiry) is    *)
(* never that of a locked order.                                           *)
LEMMA StatusWritten ==
  ASSUME Safe, UNCHANGED <<run, tx, primary>>,
         \A r \in Requests : ReqLocked(r) => status'[r] = status[r]
  PROVE  Locks' /\ Claims'
  <1>1. \A r \in Requests : ReqLocked(r)' = ReqLocked(r)
    BY DEF ReqLocked, RunHolds
  <1>2. Locks'
    BY <1>1, LocksKept DEF Safe, Locks, LockedMeansUndecided, RunHolds
  <1>3. Claims'
    BY ClaimsKept DEF Safe, Claims, Claimed, RunClaims, TxClaims, Conciliated
  <1> QED BY <1>2, <1>3

(* The INSERT of a pair by RunConciliationUseCase claims a payment that    *)
(* has no pair, committed or not, however old its candidates were.         *)
LEMMA RunInsertSafe ==
  ASSUME Safe, NEW w \in RunWorkers, RunInsert(w)
  PROVE  Locks' /\ Claims'
  <1>1. ASSUME NEW v \in RunWorkers
        PROVE  /\ \A r \in Requests : RunHolds(v, r)' = RunHolds(v, r)
               /\ v # w => \A t \in Txs : RunClaims(v, t)' = RunClaims(v, t)
    BY <1>1 DEF Safe, TypeInv, RunsTyped, RunStates, RunInsert, RunHolds, RunClaims
  <1>2. \A t \in Txs : RunClaims(w, t)' => ~Claimed(t) /\ ~Conciliated(t)
    BY DEF Safe, TypeInv, RunsTyped, RunStates, RunInsert, RunClaims
  <1>3. Locks'
    BY <1>1, LocksKept
    DEF RunInsert, dbVars, Safe, Locks, LockedMeansUndecided, ReqLocked
  <1>4. Claims'
    BY <1>1, <1>2 DEF RunInsert, dbVars, Safe, Claims, Claimed, Conciliated, TxClaims
  <1> QED BY <1>3, <1>4

(* The COMMIT of a match by RunConciliationUseCase writes the first pair   *)
(* of its order and of its payment, and frees its locks.                   *)
LEMMA RunCommitsPairSafe ==
  ASSUME Safe, NEW w \in RunWorkers, RunCommitsPair(w)
  PROVE  Locks' /\ Claims' /\ OnePayment' /\ PairsAgree'
  <1> DEFINE r == run[w].r
             t == run[w].t
  <1>1. r \in Requests /\ t \in Txs /\ <<r, t>> \in Fits /\ RunHolds(w, r) /\ RunClaims(w, t)
    BY RunFields DEF RunCommitsPair, Safe, TypeInv, RunHolds, RunClaims
  <1>2. /\ status' = [status EXCEPT ![r] = "matched"]
        /\ primary' = primary \cup {<<r, t>>}
        /\ excluded' = excluded \cup {t}
        /\ run' = [run EXCEPT ![w] = [RunIdle EXCEPT !.pc = "publish", !.r = r]]
        /\ UNCHANGED tx
    BY DEF RunCommitsPair
  <1>3. ASSUME NEW v \in RunWorkers
        PROVE  /\ \A q \in Requests : RunHolds(v, q)' => RunHolds(v, q) /\ v # w
               /\ \A u \in Txs : RunClaims(v, u)' => RunClaims(v, u) /\ v # w
    BY <1>2 DEF Safe, TypeInv, RunsTyped, RunIdle, RunHolds, RunClaims
  <1>4. status[r] \in Cancelable /\ ~Conciliated(t)
    BY <1>1 DEF Safe, Locks, LockedMeansUndecided, ReqLocked, Claims, Claimed
  <1>5. Locks'
    <2>1. ASSUME NEW q \in Requests, ReqLocked(q)' PROVE ReqLocked(q) /\ q # r
      BY <1>3, <2>1, <1>1, <1>2 DEF ReqLocked, Safe, Locks, LockedMeansUndecided
    <2>2. ASSUME NEW q \in Requests, ReqLocked(q)' PROVE status'[q] \in Cancelable
      BY <2>1, <2>2, <1>2 DEF Safe, Locks, LockedMeansUndecided, TypeInv, RowsTyped
    <2> QED BY <1>2, <1>3, <2>2, LocksKept DEF Safe
  <1>6. Claims'
    <2>1. ASSUME NEW u \in Txs, Claimed(u)' PROVE Claimed(u) /\ u # t
      BY <1>3, <2>1, <1>1, <1>2 DEF Claimed, Safe, Claims, TxClaims
    <2>2. ASSUME NEW u \in Txs, Claimed(u)' PROVE ~Conciliated(u)'
      BY <2>1, <2>2, <1>2 DEF Conciliated, Safe, Claims
    <2>3. \A v \in TxWorkers, u \in Txs : TxClaims(v, u)' => TxClaims(v, u)
      BY <1>2 DEF TxClaims
    <2> QED BY <1>3, <2>2, <2>3, ClaimsKept DEF Safe
  <1> QED BY <1>1, <1>2, <1>4, <1>5, <1>6, PairAdded DEF Safe

(* The COMMIT of a miss by RunConciliationUseCase rewrites an undecided    *)
(* order that only it holds.                                               *)
LEMMA RunCommitsMissSafe ==
  ASSUME Safe, NEW w \in RunWorkers, RunCommitsMiss(w)
  PROVE  Locks' /\ Claims'
  <1> DEFINE r == run[w].r
             s == [RunIdle EXCEPT !.pc = "complete", !.r = r]
  <1>1. /\ status' = [status EXCEPT ![r] = run[w].verdict] /\ primary' = primary
        /\ run' = [run EXCEPT ![w] = s] /\ UNCHANGED tx
    BY DEF RunCommitsMiss
  <1>2. r \in Requests /\ RunHolds(w, r)
    BY RunFields DEF RunCommitsMiss, Safe, TypeInv, RunHolds
  <1>3. ASSUME NEW v \in RunWorkers
        PROVE  /\ \A q \in Requests : RunHolds(v, q)' => RunHolds(v, q) /\ v # w
               /\ \A u \in Txs : RunClaims(v, u)' => RunClaims(v, u)
    BY <1>1 DEF Safe, TypeInv, RunsTyped, RunIdle, RunHolds, RunClaims
  <1>4. Locks'
    <2>1. ASSUME NEW q \in Requests, ReqLocked(q)' PROVE ReqLocked(q) /\ q # r
      BY <1>3, <2>1, <1>2, <1>1 DEF ReqLocked, Safe, Locks, LockedMeansUndecided
    <2>2. ASSUME NEW q \in Requests, ReqLocked(q)' PROVE status'[q] \in Cancelable
      BY <2>1, <2>2, <1>1 DEF Safe, Locks, LockedMeansUndecided, TypeInv, RowsTyped
    <2> QED BY <1>1, <1>3, <2>2, LocksKept DEF Safe
  <1>5. Claims'
    BY <1>1, <1>3, ClaimsKept DEF Safe, Claims, Claimed, Conciliated, TxClaims
  <1> QED BY <1>4, <1>5

(* No step but those that add a run job (PollPendingOrdersUseCase) can     *)
(* queue an order that is not in the table, since no row is ever deleted.  *)
LEMMA CreatedKept ==
  ASSUME Created, TypeInv,
         \A r \in Requests : status[r] # "absent" => status'[r] # "absent",
         \A r \in Requests : runJob'[r] > 0 => runJob[r] > 0,
         poll'.pc = "enqueue" => poll' = poll
  PROVE  Created'
  BY DEF Created, TypeInv, ServicesTyped, PollStates

(* The end of a run job, however it ends, adds no job. *)
LEMMA JobEnds ==
  ASSUME TypeInv, NEW j \in Requests,
         runJob' = Completed(runJob, j) \/ runJob' = Failed(runJob, j)
  PROVE  \A r \in Requests : runJob'[r] > 0 => runJob[r] > 0
  BY JobsTyped DEF TypeInv, QueuesTyped

(* Every step keeps queued orders in the table. *)
LEMMA CreatedStep == TypeInv /\ Created /\ Locks /\ [Next]_vars => Created'
  <1> SUFFICES ASSUME TypeInv, Created, Locks, [Next]_vars PROVE Created'
    OBVIOUS
  <1> USE DEF dbVars, queueVars
  <1>RunSkip. ASSUME NEW w \in RunWorkers, NEW r \in Requests, RunSkip(w, r)
    PROVE Created'
    BY <1>RunSkip, CreatedKept, JobEnds DEF RunSkip
  <1>RunLock. ASSUME NEW w \in RunWorkers, NEW r \in Requests, RunLock(w, r)
    PROVE Created'
    BY <1>RunLock, CreatedKept DEF RunLock
  <1>RunFindsOne. ASSUME NEW w \in RunWorkers, NEW t \in Txs, RunFindsOne(w, t)
    PROVE Created'
    BY <1>RunFindsOne, CreatedKept DEF RunFindsOne
  <1>RunFindsNoOne. ASSUME NEW w \in RunWorkers, NEW verdict \in {"not_found", "ambiguous"},
                         RunFindsNoOne(w, verdict)
    PROVE Created'
    BY <1>RunFindsNoOne, CreatedKept DEF RunFindsNoOne
  <1>RunInsert. ASSUME NEW w \in RunWorkers, RunInsert(w) PROVE Created'
    BY <1>RunInsert, CreatedKept DEF RunInsert
  <1>RunLoses. ASSUME NEW w \in RunWorkers, RunLoses(w) PROVE Created'
    BY <1>RunLoses, CreatedKept, JobEnds, RunFields DEF RunLoses, TypeInv
  <1>RunExclude. ASSUME NEW w \in RunWorkers, RunExclude(w) PROVE Created'
    BY <1>RunExclude, CreatedKept DEF RunExclude
  <1>RunCommitsPair. ASSUME NEW w \in RunWorkers, RunCommitsPair(w) PROVE Created'
    BY <1>RunCommitsPair, CreatedKept DEF RunCommitsPair, TypeInv, RowsTyped
  <1>RunCommitsMiss. ASSUME NEW w \in RunWorkers, RunCommitsMiss(w) PROVE Created'
    BY <1>RunCommitsMiss, CreatedKept, RunFields DEF RunCommitsMiss, TypeInv, RowsTyped
  <1>RunCompletes. ASSUME NEW w \in RunWorkers, RunCompletes(w) PROVE Created'
    BY <1>RunCompletes, CreatedKept, JobEnds, RunFields DEF RunCompletes, TypeInv
  <1>RunAttemptTaken. ASSUME NEW w \in RunWorkers, RunAttemptTaken(w) PROVE Created'
    BY <1>RunAttemptTaken, CreatedKept, JobEnds, RunFields DEF RunAttemptTaken, TypeInv
  <1>RunPublish. ASSUME NEW w \in RunWorkers, RunPublish(w) PROVE Created'
    BY <1>RunPublish, CreatedKept, JobEnds, RunFields DEF RunPublish, TypeInv
  <1>RunPublishFails. ASSUME NEW w \in RunWorkers, RunPublishFails(w) PROVE Created'
    BY <1>RunPublishFails, CreatedKept, JobEnds, RunFields DEF RunPublishFails, TypeInv
  <1>TxLock. ASSUME NEW w \in TxWorkers, NEW t \in Txs, TxLock(w, t) PROVE Created'
    BY <1>TxLock, CreatedKept DEF TxLock
  <1>TxSkip. ASSUME NEW w \in TxWorkers, NEW t \in Txs, TxSkip(w, t) PROVE Created'
    BY <1>TxSkip, CreatedKept DEF TxSkip
  <1>TxFindsWinner. ASSUME NEW w \in TxWorkers, NEW r \in Requests, TxFindsWinner(w, r)
    PROVE Created'
    BY <1>TxFindsWinner, CreatedKept DEF TxFindsWinner
  <1>TxFindsNone. ASSUME NEW w \in TxWorkers, TxFindsNone(w) PROVE Created'
    BY <1>TxFindsNone, CreatedKept DEF TxFindsNone
  <1>TxDrop. ASSUME NEW w \in TxWorkers, TxDrop(w) PROVE Created'
    BY <1>TxDrop, CreatedKept DEF TxDrop
  <1>TxInsert. ASSUME NEW w \in TxWorkers, TxInsert(w) PROVE Created'
    BY <1>TxInsert, CreatedKept DEF TxInsert
  <1>TxCommit. ASSUME NEW w \in TxWorkers, TxCommit(w) PROVE Created'
    BY <1>TxCommit, CreatedKept DEF TxCommit, TypeInv, RowsTyped
  <1>TxPublish. ASSUME NEW w \in TxWorkers, TxPublish(w) PROVE Created'
    BY <1>TxPublish, CreatedKept DEF TxPublish
  <1>TxPublishFails. ASSUME NEW w \in TxWorkers, TxPublishFails(w) PROVE Created'
    BY <1>TxPublishFails, CreatedKept DEF TxPublishFails
  <1>DeadlockAborts. ASSUME NEW w \in RunWorkers, NEW v \in TxWorkers, DeadlockAborts(w, v)
    PROVE Created'
    BY <1>DeadlockAborts, CreatedKept, RunFields, JobEnds
    DEF DeadlockAborts, Deadlocked, TypeInv
  <1>FeedSave. ASSUME NEW t \in Txs, FeedSave(t) PROVE Created'
    BY <1>FeedSave, CreatedKept DEF FeedSave
  <1>FeedCheck. ASSUME FeedCheck PROVE Created'
    BY <1>FeedCheck, CreatedKept DEF FeedCheck
  <1>FeedExclude. ASSUME FeedExclude PROVE Created'
    BY <1>FeedExclude, CreatedKept DEF FeedExclude
  <1>FeedEnqueue. ASSUME FeedEnqueue PROVE Created'
    BY <1>FeedEnqueue, CreatedKept DEF FeedEnqueue
  <1>FeedEnqueueFails. ASSUME FeedEnqueueFails PROVE Created'
    BY <1>FeedEnqueueFails, CreatedKept DEF FeedEnqueueFails
  <1>PollFetch. ASSUME NEW orders \in SUBSET Requests, PollFetch(orders) PROVE Created'
    BY <1>PollFetch, CreatedKept DEF PollFetch
  <1>PollCreate. ASSUME PollCreate PROVE Created'
    BY <1>PollCreate
    DEF PollCreate, Oldest, Created, TypeInv, ServicesTyped, PollStates, RowsTyped
  <1>PollEnqueue. ASSUME PollEnqueue PROVE Created'
    BY <1>PollEnqueue DEF PollEnqueue, Created, TypeInv, ServicesTyped, QueuesTyped
  <1>PollEnqueueFails. ASSUME PollEnqueueFails PROVE Created'
    BY <1>PollEnqueueFails, CreatedKept DEF PollEnqueueFails, PollIdle
  <1>PollCancel. ASSUME PollCancel PROVE Created'
    BY <1>PollCancel, CreatedKept DEF PollCancel, PollIdle
  <1>ExpireScan. ASSUME NEW r \in Requests, ExpireScan(r) PROVE Created'
    BY <1>ExpireScan, CreatedKept DEF ExpireScan
  <1>ExpireLoad. ASSUME NEW r \in Requests, ExpireLoad(r) PROVE Created'
    BY <1>ExpireLoad, CreatedKept DEF ExpireLoad
  <1>ExpireSave. ASSUME ExpireSave PROVE Created'
    BY <1>ExpireSave, CreatedKept DEF ExpireSave, TypeInv, RowsTyped
  <1>ExpireNotify. ASSUME ExpireNotify PROVE Created'
    BY <1>ExpireNotify, CreatedKept DEF ExpireNotify
  <1>ExpireNotifyFails. ASSUME ExpireNotifyFails PROVE Created'
    BY <1>ExpireNotifyFails, CreatedKept DEF ExpireNotifyFails
  <1>ManualRun. ASSUME NEW r \in Requests, ManualRun(r) PROVE Created'
    BY <1>ManualRun DEF ManualRun, Created, TypeInv, QueuesTyped
  <1>Crash. ASSUME Crash PROVE Created'
    BY <1>Crash, CreatedKept DEF Crash, PollIdle
  <1>Stutter. CASE UNCHANGED vars
    BY <1>Stutter, CreatedKept DEF vars
  <1> QED
    BY <1>RunSkip, <1>RunLock, <1>RunFindsOne, <1>RunFindsNoOne, <1>RunInsert,
       <1>RunLoses, <1>RunExclude, <1>RunCommitsPair, <1>RunCommitsMiss,
       <1>RunCompletes, <1>RunAttemptTaken, <1>RunPublish, <1>RunPublishFails,
       <1>TxLock, <1>TxSkip, <1>TxFindsWinner, <1>TxFindsNone, <1>TxDrop, <1>TxInsert,
       <1>TxCommit, <1>TxPublish, <1>TxPublishFails, <1>DeadlockAborts, <1>FeedSave,
       <1>FeedCheck, <1>FeedExclude, <1>FeedEnqueue, <1>FeedEnqueueFails,
       <1>PollFetch, <1>PollCreate, <1>PollEnqueue, <1>PollEnqueueFails,
       <1>PollCancel, <1>ExpireScan, <1>ExpireLoad, <1>ExpireSave, <1>ExpireNotify,
       <1>ExpireNotifyFails, <1>ManualRun, <1>Crash, <1>Stutter
    DEF Next, RunStep, TxStep, FeedStep, PollStep, ExpireStep, Fault

(* The part of Safe that depends on locks and pairs. *)
Kept == Locks /\ Claims /\ OnePayment /\ PairsAgree

(* Every step keeps locks, claims and pairs sound: the matching workers by *)
(* the lemmas above, the others because they write no locked order.        *)
LEMMA SafeStep == Safe /\ [Next]_vars => Kept'
  <1> SUFFICES ASSUME Safe, [Next]_vars PROVE Kept'
    OBVIOUS
  <1> USE DEF dbVars, queueVars, Kept
  <1>RunSkip. ASSUME NEW w \in RunWorkers, NEW r \in Requests, RunSkip(w, r) PROVE Kept'
    BY <1>RunSkip, StatusWritten, PairsKept DEF RunSkip, Safe
  <1>RunLock. ASSUME NEW w \in RunWorkers, NEW r \in Requests, RunLock(w, r) PROVE Kept'
    BY <1>RunLock, RunLockSafe, PairsKept DEF RunLock, Safe
  <1>RunFindsOne. ASSUME NEW w \in RunWorkers, NEW t \in Txs, RunFindsOne(w, t)
    PROVE Kept'
    <2> DEFINE s == [run[w] EXCEPT !.pc = "insert", !.t = t, !.verdict = "matched"]
    <2>1. s \in RunStates /\ s.r = run[w].r /\ s.pc = "insert"
      BY <1>RunFindsOne DEF RunFindsOne, Safe, TypeInv, RunsTyped, RunStates, RunOK
    <2>2. run' = [run EXCEPT ![w] = s] /\ UNCHANGED <<status, tx, primary, excluded>>
      BY <1>RunFindsOne DEF RunFindsOne
    <2>3. Locks' /\ Claims'
      BY <1>RunFindsOne, <2>1, <2>2, RunMoves, ConstantsAssumption DEF RunFindsOne
    <2> QED BY <2>2, <2>3, PairsKept DEF Safe
  <1>RunFindsNoOne. ASSUME NEW w \in RunWorkers, NEW verdict \in {"not_found", "ambiguous"},
                         RunFindsNoOne(w, verdict)
    PROVE Kept'
    <2> DEFINE s == [run[w] EXCEPT !.pc = "commit", !.verdict = verdict]
    <2>1. s \in RunStates /\ s.r = run[w].r /\ s.pc = "commit" /\ s.t \notin Txs
      BY <1>RunFindsNoOne, ConstantsAssumption
      DEF RunFindsNoOne, Safe, TypeInv, RunsTyped, RunStates, RunOK
    <2>2. run' = [run EXCEPT ![w] = s] /\ UNCHANGED <<status, tx, primary, excluded>>
      BY <1>RunFindsNoOne DEF RunFindsNoOne
    <2>3. Locks' /\ Claims'
      BY <1>RunFindsNoOne, <2>1, <2>2, RunMoves, ConstantsAssumption DEF RunFindsNoOne
    <2> QED BY <2>2, <2>3, PairsKept DEF Safe
  <1>RunInsert. ASSUME NEW w \in RunWorkers, RunInsert(w) PROVE Kept'
    BY <1>RunInsert, RunInsertSafe, PairsKept DEF RunInsert, Safe
  <1>RunLoses. ASSUME NEW w \in RunWorkers, RunLoses(w) PROVE Kept'
    BY <1>RunLoses, RunMoves, IdleTyped, PairsKept
    DEF RunLoses, Safe, RunGoesIdle, RunIdle
  <1>RunExclude. ASSUME NEW w \in RunWorkers, RunExclude(w) PROVE Kept'
    <2> DEFINE s == [run[w] EXCEPT !.pc = "commit"]
    <2>1. s \in RunStates /\ s.r = run[w].r /\ s.pc = "commit" /\ s.t = run[w].t
      BY <1>RunExclude DEF RunExclude, Safe, TypeInv, RunsTyped, RunStates, RunOK
    <2>2. run' = [run EXCEPT ![w] = s] /\ UNCHANGED <<status, tx, primary, excluded>>
      BY <1>RunExclude DEF RunExclude
    <2>3. Locks' /\ Claims'
      BY <1>RunExclude, <2>1, <2>2, RunMoves, ConstantsAssumption DEF RunExclude
    <2> QED BY <2>2, <2>3, PairsKept DEF Safe
  <1>RunCommitsPair. ASSUME NEW w \in RunWorkers, RunCommitsPair(w) PROVE Kept'
    BY <1>RunCommitsPair, RunCommitsPairSafe
  <1>RunCommitsMiss. ASSUME NEW w \in RunWorkers, RunCommitsMiss(w) PROVE Kept'
    <2>1. run[w].r \in Requests /\ run[w].verdict \in {"not_found", "ambiguous"} /\ RunHolds(w, run[w].r)
      BY <1>RunCommitsMiss, RunFields DEF RunCommitsMiss, Safe, TypeInv, RunHolds
    <2>2. status[run[w].r] \in Cancelable
      BY <2>1 DEF Safe, Locks, LockedMeansUndecided, ReqLocked
    <2>3. OnePayment' /\ PairsAgree'
      BY <1>RunCommitsMiss, <2>1, <2>2, PairsKept
      DEF RunCommitsMiss, Safe, TypeInv, RowsTyped, Cancelable, Open
    <2> QED BY <1>RunCommitsMiss, <2>3, RunCommitsMissSafe
  <1>RunCompletes. ASSUME NEW w \in RunWorkers, RunCompletes(w) PROVE Kept'
    BY <1>RunCompletes, RunMoves, IdleTyped, PairsKept
    DEF RunCompletes, Safe, RunGoesIdle, RunIdle
  <1>RunAttemptTaken. ASSUME NEW w \in RunWorkers, RunAttemptTaken(w) PROVE Kept'
    BY <1>RunAttemptTaken, RunMoves, IdleTyped, PairsKept
    DEF RunAttemptTaken, Safe, RunGoesIdle, RunIdle
  <1>RunPublish. ASSUME NEW w \in RunWorkers, RunPublish(w) PROVE Kept'
    BY <1>RunPublish, RunMoves, IdleTyped, PairsKept
    DEF RunPublish, Safe, RunGoesIdle, RunIdle
  <1>RunPublishFails. ASSUME NEW w \in RunWorkers, RunPublishFails(w) PROVE Kept'
    BY <1>RunPublishFails, RunMoves, IdleTyped, PairsKept
    DEF RunPublishFails, Safe, RunGoesIdle, RunIdle
  <1>TxLock. ASSUME NEW w \in TxWorkers, NEW t \in Txs, TxLock(w, t) PROVE Kept'
    <2>1. tx[w].pc = "idle" /\ tx[w].locked = {}
      BY <1>TxLock DEF TxLock, TxTakes, Safe, TypeInv, TxsTyped, TxOK
    <2> DEFINE s == [TxIdle EXCEPT !.pc = "scan", !.t = t]
    <2>2. ASSUME NEW v \in TxWorkers
          PROVE  tx'[v].locked = tx[v].locked /\ \A u \in Txs : TxClaims(v, u)' => TxClaims(v, u)
      BY <1>TxLock, <2>1 DEF TxLock, TxIdle, Safe, TypeInv, TxsTyped, TxClaims
    <2>3. Locks'
      BY <1>TxLock, <2>2, LocksKept
      DEF TxLock, Safe, Locks, LockedMeansUndecided, ReqLocked, RunHolds
    <2>4. Claims'
      BY <1>TxLock, <2>2, ClaimsKept
      DEF TxLock, Safe, Claims, Claimed, Conciliated, RunClaims
    <2> QED BY <1>TxLock, <2>3, <2>4, PairsKept DEF TxLock, Safe
  <1>TxSkip. ASSUME NEW w \in TxWorkers, NEW t \in Txs, TxSkip(w, t) PROVE Kept'
    BY <1>TxSkip, StatusWritten, PairsKept DEF TxSkip, Safe
  <1>TxFindsWinner. ASSUME NEW w \in TxWorkers, NEW r \in Requests, TxFindsWinner(w, r)
    PROVE Kept'
    <2> DEFINE s == [tx[w] EXCEPT !.pc = "insert", !.locked = Available, !.r = r]
    <2>1. s \in TxStates /\ s.pc \in {"insert", "drop"} /\ s.locked = Available
      BY <1>TxFindsWinner
      DEF TxFindsWinner, Safe, TypeInv, TxsTyped, TxStates, Available
    <2>2. Locks' /\ Claims'
      BY <1>TxFindsWinner, <2>1, TxScanned DEF TxFindsWinner
    <2> QED BY <1>TxFindsWinner, <2>2, PairsKept DEF TxFindsWinner, Safe
  <1>TxFindsNone. ASSUME NEW w \in TxWorkers, TxFindsNone(w) PROVE Kept'
    <2> DEFINE s == [tx[w] EXCEPT !.pc = "drop", !.locked = Available]
    <2>1. s \in TxStates /\ s.pc \in {"insert", "drop"} /\ s.locked = Available
      BY <1>TxFindsNone DEF TxFindsNone, Safe, TypeInv, TxsTyped, TxStates, Available
    <2>2. Locks' /\ Claims'
      BY <1>TxFindsNone, <2>1, TxScanned DEF TxFindsNone
    <2> QED BY <1>TxFindsNone, <2>2, PairsKept DEF TxFindsNone, Safe
  <1>TxDrop. ASSUME NEW w \in TxWorkers, TxDrop(w) PROVE Kept'
    BY <1>TxDrop, TxGivesUp, PairsKept DEF TxDrop, Safe
  <1>TxInsert. ASSUME NEW w \in TxWorkers, TxInsert(w) PROVE Kept'
    <2>1. CASE Conciliated(tx[w].t)
      BY <1>TxInsert, <2>1, TxGivesUp, PairsKept DEF TxInsert, Safe
    <2>2. CASE ~Conciliated(tx[w].t)
      BY <1>TxInsert, <2>2, TxInsertSafe, PairsKept DEF TxInsert, Safe
    <2> QED BY <2>1, <2>2
  <1>TxCommit. ASSUME NEW w \in TxWorkers, TxCommit(w) PROVE Kept'
    <2>1. CASE AttemptOf(tx[w].r) \in attempts
      BY <1>TxCommit, <2>1, TxGivesUp, PairsKept DEF TxCommit, Safe
    <2>2. CASE AttemptOf(tx[w].r) \notin attempts
      BY <1>TxCommit, <2>2, TxCommitSafe
    <2> QED BY <2>1, <2>2
  <1>TxPublish. ASSUME NEW w \in TxWorkers, TxPublish(w) PROVE Kept'
    BY <1>TxPublish, TxGivesUp, PairsKept DEF TxPublish, Safe
  <1>TxPublishFails. ASSUME NEW w \in TxWorkers, TxPublishFails(w) PROVE Kept'
    BY <1>TxPublishFails, TxGivesUp, PairsKept DEF TxPublishFails, Safe
  <1>DeadlockAborts. ASSUME NEW w \in RunWorkers, NEW v \in TxWorkers, DeadlockAborts(w, v)
    PROVE Kept'
    <2>1. CASE RunGoesIdle(w) /\ UNCHANGED tx
      BY <1>DeadlockAborts, <2>1, RunMoves, IdleTyped, PairsKept
      DEF DeadlockAborts, Safe, RunGoesIdle, RunIdle
    <2>2. CASE TxGoesIdle(v) /\ UNCHANGED run
      BY <1>DeadlockAborts, <2>2, TxGivesUp, PairsKept DEF DeadlockAborts, Safe
    <2> QED BY <1>DeadlockAborts, <2>1, <2>2 DEF DeadlockAborts
  <1>FeedSave. ASSUME NEW t \in Txs, FeedSave(t) PROVE Kept'
    BY <1>FeedSave, StatusWritten, PairsKept DEF FeedSave, Safe
  <1>FeedCheck. ASSUME FeedCheck PROVE Kept'
    BY <1>FeedCheck, StatusWritten, PairsKept DEF FeedCheck, Safe
  <1>FeedExclude. ASSUME FeedExclude PROVE Kept'
    BY <1>FeedExclude, StatusWritten, PairsKept DEF FeedExclude, Safe
  <1>FeedEnqueue. ASSUME FeedEnqueue PROVE Kept'
    BY <1>FeedEnqueue, StatusWritten, PairsKept DEF FeedEnqueue, Safe
  <1>FeedEnqueueFails. ASSUME FeedEnqueueFails PROVE Kept'
    BY <1>FeedEnqueueFails, StatusWritten, PairsKept DEF FeedEnqueueFails, Safe
  <1>PollFetch. ASSUME NEW orders \in SUBSET Requests, PollFetch(orders) PROVE Kept'
    BY <1>PollFetch, StatusWritten, PairsKept DEF PollFetch, Safe
  <1>PollCreate. ASSUME PollCreate PROVE Kept'
    <2>1. PICK r \in Oldest(poll.todo) : PollCreate!(r)
      BY <1>PollCreate DEF PollCreate
    <2>2. r \in Requests
      BY <2>1 DEF Oldest, Safe, TypeInv, ServicesTyped, PollStates
    <2>3. CASE status[r] = "absent"
      <3>1. ASSUME NEW q \in Requests PROVE q = r \/ status'[q] = status[q]
        BY <2>1, <2>2, <2>3 DEF Safe, TypeInv, RowsTyped
      <3>2. ~ReqLocked(r) /\ status'[r] = "pending"
        BY <2>1, <2>2, <2>3
        DEF Safe, Locks, LockedMeansUndecided, Cancelable, Open, TypeInv, RowsTyped
      <3> QED BY <2>1, <2>3, <3>1, <3>2, StatusWritten, PairsKept DEF Safe
    <2>4. CASE status[r] # "absent"
      BY <2>1, <2>4, StatusWritten, PairsKept DEF Safe
    <2> QED BY <2>3, <2>4
  <1>PollEnqueue. ASSUME PollEnqueue PROVE Kept'
    BY <1>PollEnqueue, StatusWritten, PairsKept DEF PollEnqueue, Safe
  <1>PollEnqueueFails. ASSUME PollEnqueueFails PROVE Kept'
    BY <1>PollEnqueueFails, StatusWritten, PairsKept DEF PollEnqueueFails, Safe
  <1>PollCancel. ASSUME PollCancel PROVE Kept'
    <2>1. \A r \in Requests : status'[r] # status[r] =>
            status[r] \in Cancelable /\ status'[r] = "cancelled" /\ ~ReqLocked(r)
      BY <1>PollCancel DEF PollCancel
    <2>2. Locks' /\ Claims'
      BY <1>PollCancel, <2>1, StatusWritten DEF PollCancel
    <2>3. OnePayment' /\ PairsAgree'
      BY <1>PollCancel, <2>1, PairsKept DEF PollCancel, Safe, Cancelable, Open
    <2> QED BY <2>2, <2>3
  <1>ExpireScan. ASSUME NEW r \in Requests, ExpireScan(r) PROVE Kept'
    BY <1>ExpireScan, StatusWritten, PairsKept DEF ExpireScan, Safe
  <1>ExpireLoad. ASSUME NEW r \in Requests, ExpireLoad(r) PROVE Kept'
    BY <1>ExpireLoad, StatusWritten, PairsKept DEF ExpireLoad, Safe
  <1>ExpireSave. ASSUME ExpireSave PROVE Kept'
    <2>1. \A r \in Requests : status'[r] # status[r] => status'[r] = "expired" /\ ~ReqLocked(r)
      BY <1>ExpireSave DEF ExpireSave, Safe, TypeInv, RowsTyped
    <2>2. Locks' /\ Claims'
      BY <1>ExpireSave, <2>1, StatusWritten DEF ExpireSave
    <2>3. OnePayment' /\ PairsAgree'
      BY <1>ExpireSave, <2>1, PairsKept DEF ExpireSave, Safe
    <2> QED BY <2>2, <2>3
  <1>ExpireNotify. ASSUME ExpireNotify PROVE Kept'
    BY <1>ExpireNotify, StatusWritten, PairsKept DEF ExpireNotify, Safe
  <1>ExpireNotifyFails. ASSUME ExpireNotifyFails PROVE Kept'
    BY <1>ExpireNotifyFails, StatusWritten, PairsKept DEF ExpireNotifyFails, Safe
  <1>ManualRun. ASSUME NEW r \in Requests, ManualRun(r) PROVE Kept'
    BY <1>ManualRun, StatusWritten, PairsKept DEF ManualRun, Safe
  <1>Crash. ASSUME Crash PROVE Kept'
    <2>1. /\ \A v \in RunWorkers, r \in Requests : ~RunHolds(v, r)'
          /\ \A v \in RunWorkers, t \in Txs : ~RunClaims(v, t)'
          /\ \A v \in TxWorkers : tx'[v].locked = {} /\ \A t \in Txs : ~TxClaims(v, t)'
      BY <1>Crash DEF Crash, RunIdle, TxIdle, RunHolds, RunClaims, TxClaims
    <2>2. Locks' /\ Claims'
      BY <2>1 DEF Locks, LockedMeansUndecided, ReqLocked, Claims, Claimed
    <2> QED BY <1>Crash, <2>2, PairsKept DEF Crash, Safe
  <1>Stutter. CASE UNCHANGED vars
    BY <1>Stutter, StatusWritten, PairsKept DEF vars, Safe
  <1> QED
    BY <1>RunSkip, <1>RunLock, <1>RunFindsOne, <1>RunFindsNoOne, <1>RunInsert,
       <1>RunLoses, <1>RunExclude, <1>RunCommitsPair, <1>RunCommitsMiss,
       <1>RunCompletes, <1>RunAttemptTaken, <1>RunPublish, <1>RunPublishFails,
       <1>TxLock, <1>TxSkip, <1>TxFindsWinner, <1>TxFindsNone, <1>TxDrop, <1>TxInsert,
       <1>TxCommit, <1>TxPublish, <1>TxPublishFails, <1>DeadlockAborts, <1>FeedSave,
       <1>FeedCheck, <1>FeedExclude, <1>FeedEnqueue, <1>FeedEnqueueFails,
       <1>PollFetch, <1>PollCreate, <1>PollEnqueue, <1>PollEnqueueFails,
       <1>PollCancel, <1>ExpireScan, <1>ExpireLoad, <1>ExpireSave, <1>ExpireNotify,
       <1>ExpireNotifyFails, <1>ManualRun, <1>Crash, <1>Stutter
    DEF Next, RunStep, TxStep, FeedStep, PollStep, ExpireStep, Fault

(* The steps that write an order, an attempt, a pair or an exclusion. *)
Writes == \/ \E w \in RunWorkers : RunCommitsPair(w) \/ RunCommitsMiss(w)
          \/ \E w \in TxWorkers : TxCommit(w) \/ TxDrop(w)
          \/ FeedExclude \/ PollCreate \/ PollCancel \/ ExpireSave

(* No other step touches these tables. *)
LEMMA OnlyTheseWrite == [Next]_vars => Writes \/ UNCHANGED <<status, retries, attempts, primary, excluded>>
  <1> USE DEF dbVars
  <1>1. ASSUME NEW w \in RunWorkers,
               \/ RunStep(w) \/ RunPublishFails(w)
               \/ \E r \in Requests : RunSkip(w, r) \/ RunLock(w, r)
        PROVE  Writes \/ UNCHANGED <<status, retries, attempts, primary, excluded>>
    BY <1>1
    DEF Writes, RunStep, RunSkip, RunLock, RunFindsOne, RunFindsNoOne, RunInsert,
        RunLoses, RunExclude, RunCompletes, RunAttemptTaken, RunPublish,
        RunPublishFails
  <1>2. ASSUME NEW w \in TxWorkers,
               \/ TxStep(w) \/ TxPublishFails(w)
               \/ \E t \in Txs : TxLock(w, t) \/ TxSkip(w, t)
        PROVE  Writes \/ UNCHANGED <<status, retries, attempts, primary, excluded>>
    BY <1>2
    DEF Writes, TxStep, TxLock, TxSkip, TxFindsWinner, TxFindsNone, TxInsert,
        TxPublish, TxPublishFails
  <1>3. ASSUME FeedStep \/ FeedEnqueueFails \/ \E t \in Txs : FeedSave(t)
        PROVE  Writes \/ UNCHANGED <<status, retries, attempts, primary, excluded>>
    BY <1>3 DEF Writes, FeedStep, FeedSave, FeedCheck, FeedEnqueue, FeedEnqueueFails
  <1>4. ASSUME \/ PollStep \/ PollEnqueueFails
               \/ \E orders \in SUBSET Requests : PollFetch(orders)
        PROVE  Writes \/ UNCHANGED <<status, retries, attempts, primary, excluded>>
    BY <1>4 DEF Writes, PollStep, PollFetch, PollEnqueue, PollEnqueueFails
  <1>5. ASSUME ExpireStep \/ ExpireNotifyFails \/ \E r \in Requests : ExpireScan(r)
        PROVE  Writes \/ UNCHANGED <<status, retries, attempts, primary, excluded>>
    BY <1>5
    DEF Writes, ExpireStep, ExpireScan, ExpireLoad, ExpireNotify, ExpireNotifyFails
  <1>6. ASSUME \/ Crash \/ UNCHANGED vars \/ \E r \in Requests : ManualRun(r)
               \/ \E w \in RunWorkers, v \in TxWorkers : DeadlockAborts(w, v)
        PROVE  UNCHANGED <<status, retries, attempts, primary, excluded>>
    BY <1>6 DEF Crash, DeadlockAborts, ManualRun, vars
  <1> QED BY <1>1, <1>2, <1>3, <1>4, <1>5, <1>6 DEF Next, Fault

(* A step that settles an undecided order with a payment. *)
SettlesOpen(r, t) == /\ LedgerView!Settle(r, t)
                     /\ r \in Requests /\ t \in Txs
                     /\ status[r] \in Cancelable

(* A commit of a match is the ledger's Settle, of an undecided order. *)
LEMMA PairsWritten ==
  ASSUME Safe
  PROVE  /\ \A w \in RunWorkers : RunCommitsPair(w) =>
              SettlesOpen(run[w].r, run[w].t)
         /\ \A w \in TxWorkers : TxCommit(w) /\ AttemptOf(tx[w].r) \notin attempts =>
              SettlesOpen(tx[w].r, tx[w].t)
  <1>1. ASSUME NEW w \in RunWorkers, RunCommitsPair(w)
        PROVE  SettlesOpen(run[w].r, run[w].t)
    <2> DEFINE r == run[w].r
               t == run[w].t
    <2>1. r \in Requests /\ t \in Txs /\ RunHolds(w, r) /\ RunClaims(w, t)
      BY <1>1, RunFields DEF RunCommitsPair, Safe, TypeInv, RunHolds, RunClaims
    <2>2. status[r] \in Cancelable /\ ~Conciliated(t)
      BY <2>1 DEF Safe, Locks, LockedMeansUndecided, ReqLocked, Claims, Claimed
    <2>3. \A u \in Txs : <<r, u>> \notin primary
      BY <2>1, <2>2 DEF Safe, PairsAgree, Cancelable, Open
    <2> QED
      BY <1>1, <2>1, <2>2, <2>3
      DEF SettlesOpen, RunCommitsPair, LedgerView!Settle, LedgerView!Settled, LedgerView!Spent,
          Conciliated
  <1>2. ASSUME NEW w \in TxWorkers, TxCommit(w), AttemptOf(tx[w].r) \notin attempts
        PROVE  SettlesOpen(tx[w].r, tx[w].t)
    <2> DEFINE r == tx[w].r
               t == tx[w].t
    <2>1. r \in Requests /\ t \in Txs /\ r \in tx[w].locked /\ TxClaims(w, t)
      BY <1>2, TxFields DEF TxCommit, Safe, TypeInv, TxClaims, TxsTyped, TxOK
    <2>2. status[r] \in Cancelable /\ ~Conciliated(t)
      BY <2>1 DEF Safe, Locks, LockedMeansUndecided, ReqLocked, Claims, Claimed
    <2>3. \A u \in Txs : <<r, u>> \notin primary
      BY <2>1, <2>2 DEF Safe, PairsAgree, Cancelable, Open
    <2> QED
      BY <1>2, <2>1, <2>2, <2>3
      DEF SettlesOpen, TxCommit, LedgerView!Settle, LedgerView!Settled, LedgerView!Spent, Conciliated
  <1> QED BY <1>1, <1>2

(* Every step is a step of the ledger or leaves it alone. *)
LEMMA LedgerStep == Safe /\ [Next]_vars => [LedgerView!Next]_<<primary, excluded>>
  <1> SUFFICES ASSUME Safe, [Next]_vars PROVE [LedgerView!Next]_<<primary, excluded>>
    OBVIOUS
  <1> USE DEF LedgerView!Next
  <1>1. ASSUME NEW w \in RunWorkers, RunCommitsPair(w) PROVE LedgerView!Next
    BY <1>1, PairsWritten DEF SettlesOpen
  <1>2. ASSUME NEW w \in TxWorkers, TxCommit(w)
    PROVE [LedgerView!Next]_<<primary, excluded>>
    <2>1. CASE AttemptOf(tx[w].r) \in attempts
      BY <1>2, <2>1 DEF TxCommit
    <2>2. CASE AttemptOf(tx[w].r) \notin attempts
      BY <1>2, <2>2, PairsWritten DEF SettlesOpen
    <2> QED BY <2>1, <2>2
  <1>3. ASSUME NEW w \in TxWorkers, TxDrop(w) PROVE LedgerView!Next
    BY <1>3, TxFields DEF TxDrop, Safe, TypeInv, LedgerView!Retire
  <1>4. ASSUME FeedExclude PROVE LedgerView!Next
    BY <1>4 DEF FeedExclude, Safe, TypeInv, ServicesTyped, RowsTyped, LedgerView!Retire
  <1>5. ASSUME (\E w \in RunWorkers : RunCommitsMiss(w)) \/ PollCreate \/ PollCancel \/ ExpireSave
        PROVE  UNCHANGED <<primary, excluded>>
    BY <1>5 DEF RunCommitsMiss, PollCreate, PollCancel, ExpireSave
  <1> QED BY <1>1, <1>2, <1>3, <1>4, <1>5, OnlyTheseWrite DEF Writes

(* No step turns a terminal order into anything but expired. *)
LEMMA DecidedStep ==
  Safe /\ [Next]_vars =>
    \A r \in Requests : status[r] \in Terminal => status'[r] \in {status[r], "expired"}
  <1> SUFFICES ASSUME Safe, [Next]_vars, NEW r \in Requests, status[r] \in Terminal
               PROVE  status'[r] \in {status[r], "expired"}
    OBVIOUS
  <1> USE DEF Cancelable, Open, Terminal
  <1>1. ASSUME NEW w \in RunWorkers, RunCommitsPair(w) PROVE status'[r] = status[r]
    BY <1>1, PairsWritten DEF SettlesOpen, RunCommitsPair, Safe, TypeInv, RowsTyped
  <1>2. ASSUME NEW w \in RunWorkers, RunCommitsMiss(w) PROVE status'[r] = status[r]
    <2>1. run[w].r \in Requests /\ RunHolds(w, run[w].r)
      BY <1>2, RunFields DEF RunCommitsMiss, Safe, TypeInv, RunHolds
    <2>2. status[run[w].r] \in Cancelable
      BY <2>1 DEF Safe, Locks, LockedMeansUndecided, ReqLocked
    <2> QED BY <1>2, <2>1, <2>2 DEF RunCommitsMiss, Safe, TypeInv, RowsTyped
  <1>3. ASSUME NEW w \in TxWorkers, TxCommit(w) PROVE status'[r] = status[r]
    <2>1. CASE AttemptOf(tx[w].r) \in attempts
      BY <1>3, <2>1 DEF TxCommit
    <2>2. CASE AttemptOf(tx[w].r) \notin attempts
      BY <1>3, <2>2, PairsWritten DEF SettlesOpen, TxCommit, Safe, TypeInv, RowsTyped
    <2> QED BY <2>1, <2>2
  <1>4. ASSUME (\E w \in TxWorkers : TxDrop(w)) \/ FeedExclude
    PROVE status'[r] = status[r]
    BY <1>4 DEF TxDrop, FeedExclude
  <1>5. ASSUME PollCreate PROVE status'[r] = status[r]
    BY <1>5 DEF PollCreate, Oldest, Safe, TypeInv, RowsTyped, ServicesTyped, PollStates
  <1>6. ASSUME PollCancel PROVE status'[r] = status[r]
    BY <1>6 DEF PollCancel
  <1>7. ASSUME ExpireSave PROVE status'[r] \in {status[r], "expired"}
    BY <1>7 DEF ExpireSave, Safe, TypeInv, RowsTyped
  <1> QED BY <1>1, <1>2, <1>3, <1>4, <1>5, <1>6, <1>7, OnlyTheseWrite DEF Writes

(* The invariant holds of empty tables and idle workers. *)
LEMMA SafeInit == Init => Safe
  <1> SUFFICES ASSUME Init PROVE Safe
    OBVIOUS
  <1>1. TypeInv
    BY TypeInit
  <1>2. /\ \A w \in RunWorkers, r \in Requests : ~RunHolds(w, r)
        /\ \A w \in RunWorkers, t \in Txs : ~RunClaims(w, t)
    BY DEF Init, RunIdle, RunHolds, RunClaims
  <1>3. \A w \in TxWorkers : tx[w].locked = {} /\ \A t \in Txs : ~TxClaims(w, t)
    BY DEF Init, TxIdle, TxClaims
  <1>4. Locks /\ Claims
    BY <1>2, <1>3 DEF Locks, LockedMeansUndecided, ReqLocked, Claims, Claimed
  <1> QED
    BY <1>1, <1>4 DEF Init, Safe, Created, OnePayment, PairsAgree, PollIdle

(* The invariant holds throughout. *)
THEOREM AlwaysSafe == Spec => []Safe
  <1>1. Safe /\ [Next]_vars => Safe'
    BY TypeStep, CreatedStep, SafeStep DEF Safe, Kept
  <1> QED BY SafeInit, <1>1, PTL DEF Spec

(* A payment settles one order and an order takes one payment, for any     *)
(* number of concurrent RunConciliationUseCase and                         *)
(* ProcessIncomingTransactionUseCase.                                      *)
THEOREM PaymentsPairedOnce == Spec => []OnePayment
  BY AlwaysSafe, PTL DEF Safe

(* conciliation_requests and conciliated_transactions never contradict     *)
(* each other: matched orders are paired, paired orders are never open or  *)
(* cancelled, paired payments fit and are excluded from later runs.        *)
THEOREM PairsAndOrdersAgree == Spec => []PairsAgree
  BY AlwaysSafe, PTL DEF Safe

(* The row locks of the two use cases are exclusive, and an order under    *)
(* one is undecided until its transaction commits.                         *)
THEOREM LocksProtect == Spec => []LockedMeansUndecided
  BY AlwaysSafe, PTL DEF Safe, Locks

(* A matched, cancelled or expired order is never decided again, but for   *)
(* the overwrite to expired of ExpireStaleRequestsUseCase.                 *)
THEOREM DecisionsStay == Spec => DecidedStays
  <1>1. Safe /\ [Next]_vars =>
          [\A r \in Requests : status[r] \in Terminal => status'[r] \in {status[r], "expired"}]_vars
    BY DecidedStep
  <1> QED BY AlwaysSafe, <1>1, PTL DEF Spec, DecidedStays

(* Whatever the workers, the poll, the expiry and the faults do, the pairs *)
(* and exclusions evolve as the ledger's do.                               *)
THEOREM ConciliationImplementsLedger == Spec => ImplementsLedger
  <1>1. Init => LedgerView!Init
    BY DEF Init, LedgerView!Init
  <1> QED
      BY <1>1, AlwaysSafe, LedgerStep, PTL
      DEF Spec, ImplementsLedger, LedgerView!Spec, LedgerView!ledgerVars

-----------------------------------------------------------------------------
(* Among the executions in hand one can go on, or the database has the     *)
(* cycle of DeadlockAborts to break: no other set of transactions of the   *)
(* two use cases waits in a ring.                                          *)
OnlyOneDeadlock ==
  Working => \/ \E w \in RunWorkers : RunCanStep(w)
             \/ \E v \in TxWorkers : TxCanStep(v)
             \/ \E w \in RunWorkers, v \in TxWorkers : Deadlocked(w, v)

(* A set of numbered orders has an oldest one. *)
LEMMA OldestExists ==
  ASSUME NEW S \in SUBSET Requests, S # {}
  PROVE  \E r \in S : r \in Oldest(S)
  <1>1. S \subseteq Nat
    BY ConstantsAssumption
  <1>2. PICK r \in S : \A s \in S : ~(<<s, r>> \in OpToRel(<, Nat))
    BY <1>1, NatLessThanWellFounded, WFMin
  <1>3. ASSUME NEW s \in S PROVE r <= s
    <2>1. ~(s < r)
      BY <1>1, <1>2 DEF OpToRel
    <2> QED BY <1>1, <2>1
  <1> QED BY <1>3 DEF Oldest

(* A conciliation waits for another transaction in two places only: at the *)
(* index entry of its payment and at the payment's row.                    *)
LEMMA RunWaits ==
  ASSUME Safe, NEW w \in RunWorkers, run[w].pc # "idle", ~RunCanStep(w)
  PROVE  \/ run[w].pc = "insert" /\ Claimed(run[w].t)
         \/ run[w].pc = "exclude" /\ TxLocked(run[w].t)
  <1>1. run[w] \in RunStates /\ run[w].r \in Requests
    BY RunFields DEF Safe, TypeInv, RunsTyped
  <1>2. run[w].pc = "commit" => run[w].verdict \in {"matched", "not_found", "ambiguous"}
    BY RunFields DEF Safe, TypeInv
  <1>3. Candidates(run[w].r) \subseteq Txs
    BY DEF Candidates, Safe, TypeInv, RowsTyped
  <1>4. run[w].pc # "evaluate"
    <2>1. \/ Candidates(run[w].r) = {}
          \/ \E t \in Txs : Candidates(run[w].r) = {t}
          \/ \E t, u \in Candidates(run[w].r) : t # u
      BY <1>3
    <2> QED BY <2>1 DEF RunCanStep
  <1>5. run[w].pc \in {"idle", "evaluate", "insert", "exclude", "commit", "publish", "complete"}
    BY <1>1 DEF RunStates
  <1> QED BY <1>2, <1>4, <1>5 DEF RunCanStep

(* A tx-conciliation waits at the index entry of its payment only. *)
LEMMA TxWaits ==
  ASSUME Safe, NEW v \in TxWorkers, tx[v].pc # "idle", ~TxCanStep(v)
  PROVE  tx[v].pc = "insert" /\ Claimed(tx[v].t)
  <1>1. tx[v].pc \in {"idle", "scan", "drop", "insert", "commit", "publish"}
    BY DEF Safe, TypeInv, TxsTyped, TxStates
  <1>2. Wanting(tx[v].t) \subseteq Requests
    BY DEF Wanting, Available
  <1>3. Wanting(tx[v].t) = {} \/ \E r \in Requests : r \in Oldest(Wanting(tx[v].t))
    BY <1>2, OldestExists
  <1> QED BY <1>1, <1>3 DEF TxCanStep

(* Who holds an index entry goes on, unless it is a conciliation that      *)
(* meets the payment's row locked: the holder of that row then waits for   *)
(* this very entry, or goes on.                                            *)
LEMMA ClaimerMoves ==
  ASSUME Safe, NEW t \in Txs, Claimed(t)
  PROVE  \/ \E w \in RunWorkers : RunCanStep(w)
         \/ \E v \in TxWorkers : TxCanStep(v)
         \/ \E w \in RunWorkers, v \in TxWorkers : Deadlocked(w, v)
  <1>1. CASE \E v \in TxWorkers : TxClaims(v, t)
    BY <1>1 DEF TxClaims, TxCanStep
  <1>2. ASSUME NEW w \in RunWorkers, RunClaims(w, t), ~RunCanStep(w)
        PROVE  \E v \in TxWorkers : TxCanStep(v) \/ Deadlocked(w, v)
    <2>1. run[w].pc = "exclude" /\ run[w].t = t /\ TxLocked(t)
      BY <1>2, RunWaits DEF RunClaims
    <2>2. ~ \E u \in RunWorkers : run[u].pc = "commit" /\ run[u].t = t
      <3>1. ASSUME NEW u \in RunWorkers, run[u].pc = "commit", run[u].t = t PROVE FALSE
        <4>1. RunClaims(u, t)
          BY <3>1 DEF RunClaims
        <4>2. u = w
          BY <1>2, <4>1 DEF Safe, Claims
        <4> QED BY <2>1, <3>1, <4>2
      <3> QED BY <3>1
    <2>3. PICK v \in TxWorkers : TxHolds(v, t)
      BY <2>1, <2>2 DEF TxLocked
    <2>4. CASE TxCanStep(v)
      BY <2>4
    <2>5. CASE ~TxCanStep(v)
      <3>1. tx[v].pc = "insert"
        BY <2>3, <2>5, TxWaits DEF TxHolds
      <3> QED BY <2>1, <2>3, <3>1 DEF Deadlocked
    <2> QED BY <2>4, <2>5
  <1> QED BY <1>1, <1>2 DEF Claimed

(* Row locks and index entries are taken in different orders by            *)
(* RunConciliationUseCase and ProcessIncomingTransactionUseCase; yet for   *)
(* any number of executions of both, either one goes on or a pair of them  *)
(* is in the one cycle that Postgres aborts.                               *)
THEOREM OneCycleOnly == Spec => []OnlyOneDeadlock
  <1>1. ASSUME Safe PROVE OnlyOneDeadlock
    <2> SUFFICES ASSUME Working,
                        \A w \in RunWorkers : ~RunCanStep(w),
                        \A v \in TxWorkers : ~TxCanStep(v)
                 PROVE  \E w \in RunWorkers, v \in TxWorkers : Deadlocked(w, v)
      BY DEF OnlyOneDeadlock
    <2>1. ASSUME NEW w \in RunWorkers, run[w].pc # "idle"
          PROVE  \E t \in Txs : Claimed(t)
      <3>1. run[w].pc \in {"insert", "exclude"} /\ (run[w].pc = "insert" => Claimed(run[w].t))
        BY <1>1, <2>1, RunWaits
      <3>2. run[w].t \in Txs
        BY <1>1, <2>1, <3>1, RunFields DEF Safe, TypeInv
      <3>3. run[w].pc = "exclude" => Claimed(run[w].t)
        BY DEF Claimed, RunClaims
      <3> QED BY <3>1, <3>2, <3>3
    <2>2. ASSUME NEW v \in TxWorkers, tx[v].pc # "idle"
          PROVE  \E t \in Txs : Claimed(t)
      <3>1. Claimed(tx[v].t)
        BY <1>1, <2>2, TxWaits
      <3>2. tx[v].t \in Txs
        BY <1>1, <2>2, TxFields DEF Safe, TypeInv
      <3> QED BY <3>1, <3>2
    <2>3. PICK t \in Txs : Claimed(t)
      BY <2>1, <2>2 DEF Working
    <2> QED BY <1>1, <2>3, ClaimerMoves
  <1>2. Safe => OnlyOneDeadlock
    BY <1>1
  <1> QED BY <1>2, AlwaysSafe, PTL

-----------------------------------------------------------------------------
(* The numbers of an order's attempts are 1 .. n, with n as the count of   *)
(* misses and the status say.  Of an order that is terminal but not        *)
(* matched the expiry may have spoiled the count.                          *)
Counted(r, n) ==
  /\ \A k \in Nat : <<r, k>> \in attempts <=> k \in 1..n
  /\ status[r] \in Open \cup {"absent"} => n = retries[r]
  /\ status[r] \in {"ambiguous", "matched"} => n = retries[r] + 1

Numbered == \A r \in Requests : \E n \in Nat : Counted(r, n)

(* An order whose row and attempts a step leaves alone is counted still.   *)
LEMMA CountKept ==
  ASSUME NEW r \in Requests, NEW n \in Nat, Counted(r, n),
         \A k \in Nat : <<r, k>> \in attempts' <=> <<r, k>> \in attempts,
         \/ status'[r] = status[r] /\ retries'[r] = retries[r]
         \/ status[r] = "absent" /\ status'[r] = "pending" /\ retries'[r] = retries[r]
         \/ status'[r] \in {"cancelled", "expired"}
  PROVE  Counted(r, n)'
  BY DEF Counted, Open

(* INSERT of an attempt that violates no index, of an order under lock:    *)
(* the order was open, since an ambiguous one has the next number already. *)
LEMMA AttemptAdded ==
  ASSUME TypeInv, Numbered, NEW r \in Requests, status[r] \in Cancelable,
         AttemptOf(r) \notin attempts, attempts' = attempts \cup {AttemptOf(r)},
         NEW v \in {"matched", "ambiguous", "not_found"},
         status' = [status EXCEPT ![r] = v],
         retries' = [retries EXCEPT ![r] = IF v = "not_found" THEN retries[r] + 1 ELSE retries[r]]
  PROVE  Numbered'
  <1> USE DEF TypeInv, RowsTyped
  <1>1. PICK n \in Nat : Counted(r, n) BY DEF Numbered
  <1>2. n = retries[r] /\ AttemptOf(r) = <<r, n + 1>>
    BY <1>1 DEF Counted, AttemptOf, Cancelable, Open
  <1>3. Counted(r, n + 1)'
    <2>1. \A k \in Nat : <<r, k>> \in attempts' <=> k \in 1..(n + 1)
      BY <1>1, <1>2 DEF Counted
    <2>2. status'[r] = v /\ retries'[r] = IF v = "not_found" THEN n + 1 ELSE n
      BY <1>2
    <2> QED BY <2>1, <2>2 DEF Counted, Open
  <1>4. ASSUME NEW q \in Requests, q # r PROVE \E m \in Nat : Counted(q, m)'
    <2>1. PICK m \in Nat : Counted(q, m) BY DEF Numbered
    <2>2. status'[q] = status[q] /\ retries'[q] = retries[q] BY <1>4
    <2>3. \A k \in Nat : <<q, k>> \in attempts' <=> <<q, k>> \in attempts BY <1>2, <1>4
    <2> QED BY <2>1, <2>2, <2>3, CountKept
  <1> QED BY <1>3, <1>4 DEF Numbered

(* Every step numbers on: the commits by the lemma above, the others write *)
(* no attempt and close or create what they write.                         *)
LEMMA NumberedStep == Safe /\ Numbered /\ [Next]_vars => Numbered'
  <1> SUFFICES ASSUME Safe, Numbered, [Next]_vars PROVE Numbered'
    OBVIOUS
  <1> USE DEF Safe
  <1>1. ASSUME attempts' = attempts,
               \A r \in Requests :
                 \/ status'[r] = status[r] /\ retries'[r] = retries[r]
                 \/ status[r] = "absent" /\ status'[r] = "pending" /\ retries'[r] = retries[r]
                 \/ status'[r] \in {"cancelled", "expired"}
        PROVE  Numbered'
    BY <1>1, CountKept DEF Numbered
  <1>2. ASSUME NEW w \in RunWorkers, RunCommitsPair(w) PROVE Numbered'
    <2>1. run[w].r \in Requests /\ status[run[w].r] \in Cancelable
      BY <1>2, PairsWritten DEF SettlesOpen
    <2>2. retries' = [retries EXCEPT ![run[w].r] = retries[run[w].r]]
      BY <1>2 DEF RunCommitsPair, TypeInv, RowsTyped
    <2> QED BY <1>2, <2>1, <2>2, AttemptAdded DEF RunCommitsPair
  <1>3. ASSUME NEW w \in RunWorkers, RunCommitsMiss(w) PROVE Numbered'
    <2>1. run[w].r \in Requests /\ RunHolds(w, run[w].r)
          /\ run[w].verdict \in {"not_found", "ambiguous"}
      BY <1>3, RunFields DEF RunCommitsMiss, TypeInv, RunHolds
    <2>2. status[run[w].r] \in Cancelable
      BY <2>1 DEF Locks, LockedMeansUndecided, ReqLocked
    <2> QED BY <1>3, <2>1, <2>2, AttemptAdded DEF RunCommitsMiss
  <1>4. ASSUME NEW w \in TxWorkers, TxCommit(w) PROVE Numbered'
    <2>1. CASE AttemptOf(tx[w].r) \in attempts
      BY <1>4, <2>1, <1>1 DEF TxCommit
    <2>2. CASE AttemptOf(tx[w].r) \notin attempts
      <3>1. tx[w].r \in Requests /\ status[tx[w].r] \in Cancelable
        BY <1>4, <2>2, PairsWritten DEF SettlesOpen
      <3>2. retries' = [retries EXCEPT ![tx[w].r] = retries[tx[w].r]]
        BY <1>4 DEF TxCommit, TypeInv, RowsTyped
      <3> QED BY <1>4, <2>2, <3>1, <3>2, AttemptAdded DEF TxCommit
    <2> QED BY <2>1, <2>2
  <1>5. ASSUME (\E w \in TxWorkers : TxDrop(w)) \/ FeedExclude
        PROVE  Numbered'
    BY <1>1, <1>5 DEF TxDrop, FeedExclude
  <1>6. ASSUME PollCreate PROVE Numbered'
    BY <1>1, <1>6 DEF PollCreate, Oldest, TypeInv, RowsTyped, ServicesTyped, PollStates
  <1>7. ASSUME PollCancel PROVE Numbered'
    BY <1>1, <1>7 DEF PollCancel
  <1>8. ASSUME ExpireSave PROVE Numbered'
    BY <1>1, <1>8 DEF ExpireSave, TypeInv, RowsTyped
  <1> QED BY <1>1, <1>2, <1>3, <1>4, <1>5, <1>6, <1>7, <1>8, OnlyTheseWrite DEF Writes

(* What Numbered says in the words of the property.                        *)
LEMMA NumberedIsSequential == Safe /\ Numbered => AttemptsSequential
  <1> SUFFICES ASSUME Safe, Numbered, NEW r \in Requests
               PROVE  LET numbers == {a[2] : a \in {b \in attempts : b[1] = r}} IN
                      /\ numbers = 1..Cardinality(numbers)
                      /\ status[r] \in Open => Cardinality(numbers) = retries[r]
                      /\ status[r] \in {"ambiguous", "matched"} => Cardinality(numbers) = retries[r] + 1
    BY DEF AttemptsSequential
  <1> DEFINE numbers == {a[2] : a \in {b \in attempts : b[1] = r}}
  <1>1. PICK n \in Nat : Counted(r, n) BY DEF Numbered
  <1>2. attempts \subseteq Requests \X Nat BY DEF Safe, TypeInv, RowsTyped
  <1>3. ASSUME NEW k PROVE k \in numbers <=> k \in 1..n
    <2>1. ASSUME k \in numbers PROVE k \in 1..n
      <3>1. PICK a \in attempts : a[1] = r /\ k = a[2] BY <2>1
      <3>2. k \in Nat /\ a = <<r, k>> BY <1>2, <3>1
      <3> QED BY <1>1, <3>1, <3>2 DEF Counted
    <2>2. ASSUME k \in 1..n PROVE k \in numbers
      <3>1. <<r, k>> \in attempts BY <1>1, <2>2 DEF Counted
      <3> QED BY <3>1
    <2> QED BY <2>1, <2>2
  <1>4. numbers = 1..n BY <1>3
  <1>5. Cardinality(numbers) = n
    <2>1. Cardinality(1..n) = n BY FS_Interval
    <2> QED BY <1>4, <2>1
  <1>6. /\ numbers = 1..Cardinality(numbers)
        /\ status[r] \in Open => Cardinality(numbers) = retries[r]
        /\ status[r] \in {"ambiguous", "matched"} => Cardinality(numbers) = retries[r] + 1
    <2> HIDE DEF numbers
    <2> QED BY <1>1, <1>4, <1>5 DEF Counted
  <1> QED BY <1>6

(* An ambiguous order has the attempt of its next number already, so no     *)
(* commit can write it; the poll cancels it, the expiry saves its copy.    *)
LEMMA ParkedStep ==
  Safe /\ Numbered /\ [Next]_vars =>
    \A r \in Requests : status[r] = "ambiguous" /\ expire.r # r
                          => status'[r] \in {"ambiguous", "cancelled"}
  <1> SUFFICES ASSUME Safe, Numbered, [Next]_vars, NEW r \in Requests,
                      status[r] = "ambiguous", expire.r # r
               PROVE  status'[r] \in {"ambiguous", "cancelled"}
    OBVIOUS
  <1> USE DEF Safe, TypeInv, RowsTyped
  <1>1. AttemptOf(r) \in attempts
    <2>1. PICK n \in Nat : Counted(r, n) BY DEF Numbered
    <2> QED BY <2>1 DEF Counted, AttemptOf
  <1>2. ASSUME NEW w \in RunWorkers, RunCommitsPair(w) \/ RunCommitsMiss(w)
        PROVE  status'[r] = status[r]
    BY <1>1, <1>2, RunFields DEF RunCommitsPair, RunCommitsMiss
  <1>3. ASSUME NEW w \in TxWorkers, TxCommit(w) PROVE status'[r] = status[r]
    BY <1>1, <1>3 DEF TxCommit
  <1>4. ASSUME (\E w \in TxWorkers : TxDrop(w)) \/ FeedExclude \/ PollCreate
        PROVE  status'[r] = status[r]
    BY <1>4 DEF TxDrop, FeedExclude, PollCreate, Oldest, ServicesTyped, PollStates
  <1>5. ASSUME PollCancel PROVE status'[r] \in {"ambiguous", "cancelled"}
    BY <1>5 DEF PollCancel
  <1>6. ASSUME ExpireSave PROVE status'[r] = status[r]
    BY <1>6 DEF ExpireSave
  <1> QED BY <1>2, <1>3, <1>4, <1>5, <1>6, OnlyTheseWrite DEF Writes

-----------------------------------------------------------------------------
(* Whoever is about to publish a match has committed it, and whoever is    *)
(* about to publish an expiry has saved it.                                *)
Publishable ==
  /\ \A w \in RunWorkers : run[w].pc = "publish" => \E t \in Txs : <<run[w].r, t>> \in primary
  /\ \A w \in TxWorkers : tx[w].pc = "publish" => \E t \in Txs : <<tx[w].r, t>> \in primary
  /\ expire.pc = "notify" => status[expire.r] = "expired"

(* No pair is ever deleted. *)
LEMMA PairsStay == [Next]_vars => primary \subseteq primary'
  BY OnlyTheseWrite
  DEF Writes, RunCommitsPair, RunCommitsMiss, TxCommit, TxDrop, FeedExclude, PollCreate,
      PollCancel, ExpireSave

(* A conciliation execution reaches its publication only by its commit.    *)
LEMMA RunReachesPublish ==
  ASSUME Safe, [Next]_vars, NEW v \in RunWorkers, run'[v].pc = "publish", run'[v] # run[v]
  PROVE  \E t \in Txs : <<run'[v].r, t>> \in primary'
  <1> USE DEF dbVars, queueVars, Safe, TypeInv, RunsTyped, RunStates
  <1>1. ASSUME NEW w \in RunWorkers, RunCommitsPair(w)
        PROVE  \E t \in Txs : <<run'[v].r, t>> \in primary'
    <2>1. v = w BY <1>1 DEF RunCommitsPair
    <2>2. run'[w].r = run[w].r /\ primary' = primary \cup {<<run[w].r, run[w].t>>}
      BY <1>1 DEF RunCommitsPair, RunIdle
    <2>3. run[w].t \in Txs BY <1>1, PairsWritten DEF SettlesOpen
    <2> QED BY <2>1, <2>2, <2>3
  <1>2. ASSUME NEW w \in RunWorkers,
               \/ RunLoses(w) \/ RunPublish(w) \/ RunPublishFails(w) \/ RunCompletes(w)
               \/ RunAttemptTaken(w) \/ RunCommitsMiss(w)
               \/ \E r \in Requests : RunSkip(w, r) \/ RunLock(w, r)
        PROVE  FALSE
    <2>1. run' = run \/ \E s : s.pc # "publish" /\ run' = [run EXCEPT ![w] = s]
      <3>1. /\ RunIdle.pc # "publish" /\ [RunIdle EXCEPT !.pc = "complete", !.r = run[w].r].pc # "publish"
            /\ \A r : [RunIdle EXCEPT !.pc = "evaluate", !.r = r].pc # "publish"
        BY DEF RunIdle
      <3> QED
        BY <1>2, <3>1
        DEF RunLoses, RunPublish, RunPublishFails, RunCompletes, RunAttemptTaken, RunCommitsMiss,
            RunSkip, RunLock, RunGoesIdle
    <2> QED BY <2>1
  <1>3. ASSUME NEW w \in RunWorkers,
               \/ \E t \in Txs : RunFindsOne(w, t)
               \/ \E verdict \in {"not_found", "ambiguous"} : RunFindsNoOne(w, verdict)
               \/ RunInsert(w) \/ RunExclude(w)
        PROVE  FALSE
    BY <1>3 DEF RunFindsOne, RunFindsNoOne, RunInsert, RunExclude
  <1>4. ASSUME NEW w \in TxWorkers,
               \/ TxStep(w) \/ TxPublishFails(w) \/ \E t \in Txs : TxLock(w, t) \/ TxSkip(w, t)
        PROVE  run' = run
    BY <1>4 DEF TxStep, TxLock, TxSkip, TxFindsWinner, TxFindsNone, TxDrop, TxInsert, TxCommit,
        TxPublish, TxPublishFails
  <1>5. ASSUME \/ FeedStep \/ FeedEnqueueFails \/ \E t \in Txs : FeedSave(t)
               \/ PollStep \/ PollEnqueueFails \/ \E orders \in SUBSET Requests : PollFetch(orders)
               \/ ExpireStep \/ ExpireNotifyFails \/ \E r \in Requests : ExpireScan(r) \/ ManualRun(r)
               \/ UNCHANGED vars
        PROVE  run' = run
    BY <1>5
    DEF FeedStep, FeedSave, FeedCheck, FeedEnqueue, FeedExclude, FeedEnqueueFails, PollStep, PollFetch,
        PollCreate, PollEnqueue, PollCancel, PollEnqueueFails, ExpireStep, ExpireScan, ExpireLoad,
        ExpireSave, ExpireNotify, ExpireNotifyFails, ManualRun, vars
  <1>6. ASSUME Crash \/ \E w \in RunWorkers, u \in TxWorkers : DeadlockAborts(w, u)
        PROVE  FALSE
    BY <1>6 DEF Crash, DeadlockAborts, RunGoesIdle, RunIdle
  <1> QED BY <1>1, <1>2, <1>3, <1>4, <1>5, <1>6 DEF Next, RunStep, Fault

(* A tx-conciliation execution reaches its publication only by its commit. *)
LEMMA TxReachesPublish ==
  ASSUME Safe, [Next]_vars, NEW v \in TxWorkers, tx'[v].pc = "publish", tx'[v] # tx[v]
  PROVE  \E t \in Txs : <<tx'[v].r, t>> \in primary'
  <1> USE DEF dbVars, queueVars, Safe, TypeInv, TxsTyped, TxStates
  <1>1. ASSUME NEW w \in TxWorkers, TxCommit(w)
        PROVE  \E t \in Txs : <<tx'[v].r, t>> \in primary'
    <2>1. CASE AttemptOf(tx[w].r) \in attempts BY <1>1, <2>1 DEF TxCommit, TxGoesIdle, TxIdle
    <2>2. CASE AttemptOf(tx[w].r) \notin attempts
      <3>1. v = w BY <1>1, <2>2 DEF TxCommit
      <3>2. tx'[w].r = tx[w].r /\ primary' = primary \cup {<<tx[w].r, tx[w].t>>}
        BY <1>1, <2>2 DEF TxCommit
      <3>3. tx[w].t \in Txs BY <1>1, <2>2, PairsWritten DEF SettlesOpen
      <3> QED BY <3>1, <3>2, <3>3
    <2> QED BY <2>1, <2>2
  <1>2. ASSUME NEW w \in TxWorkers,
               \/ \E r \in Requests : TxFindsWinner(w, r)
               \/ TxFindsNone(w) \/ TxInsert(w)
        PROVE  FALSE
    <2>1. ASSUME NEW r \in Requests, TxFindsWinner(w, r) PROVE FALSE
      BY <2>1 DEF TxFindsWinner
    <2>2. CASE TxFindsNone(w) BY <2>2 DEF TxFindsNone
    <2>3. CASE TxInsert(w) BY <2>3 DEF TxInsert, TxGoesIdle, TxIdle
    <2> QED BY <1>2, <2>1, <2>2, <2>3
  <1>3. ASSUME NEW w \in TxWorkers,
               \/ TxDrop(w) \/ TxPublish(w) \/ TxPublishFails(w)
               \/ \E t \in Txs : TxLock(w, t) \/ TxSkip(w, t)
        PROVE  FALSE
    <2>1. tx' = tx \/ \E s : s.pc # "publish" /\ tx' = [tx EXCEPT ![w] = s]
      <3>1. TxIdle.pc # "publish" /\ \A t : [TxIdle EXCEPT !.pc = "scan", !.t = t].pc # "publish"
        BY DEF TxIdle
      <3> QED BY <1>3, <3>1 DEF TxDrop, TxPublish, TxPublishFails, TxLock, TxSkip, TxGoesIdle
    <2> QED BY <2>1
  <1>4. ASSUME NEW w \in RunWorkers,
               \/ RunStep(w) \/ RunPublishFails(w)
               \/ \E r \in Requests : RunSkip(w, r) \/ RunLock(w, r)
        PROVE  tx' = tx
    BY <1>4
    DEF RunStep, RunSkip, RunLock, RunFindsOne, RunFindsNoOne, RunInsert, RunLoses, RunExclude,
        RunCommitsPair, RunCommitsMiss, RunCompletes, RunAttemptTaken, RunPublish, RunPublishFails
  <1>5. ASSUME \/ FeedStep \/ FeedEnqueueFails \/ \E t \in Txs : FeedSave(t)
               \/ PollStep \/ PollEnqueueFails \/ \E orders \in SUBSET Requests : PollFetch(orders)
               \/ ExpireStep \/ ExpireNotifyFails \/ \E r \in Requests : ExpireScan(r) \/ ManualRun(r)
               \/ UNCHANGED vars
        PROVE  tx' = tx
    BY <1>5
    DEF FeedStep, FeedSave, FeedCheck, FeedEnqueue, FeedExclude, FeedEnqueueFails, PollStep, PollFetch,
        PollCreate, PollEnqueue, PollCancel, PollEnqueueFails, ExpireStep, ExpireScan, ExpireLoad,
        ExpireSave, ExpireNotify, ExpireNotifyFails, ManualRun, vars
  <1>6. ASSUME Crash \/ \E w \in RunWorkers, u \in TxWorkers : DeadlockAborts(w, u)
        PROVE  FALSE
    BY <1>6 DEF Crash, DeadlockAborts, TxGoesIdle, TxIdle
  <1> QED BY <1>1, <1>2, <1>3, <1>4, <1>5, <1>6 DEF Next, TxStep, Fault

(* Only three steps queue a webhook, and the expiry's position changes     *)
(* only with its own steps.                                                *)
LEMMA OnlyTheseAnnounce ==
  ASSUME [Next]_vars
  PROVE  /\ \/ webhooks' = webhooks
            \/ \E w \in RunWorkers : RunPublish(w)
            \/ \E w \in TxWorkers : TxPublish(w)
            \/ ExpireNotify
         /\ expire' = expire \/ ExpireSave \/ expire'.pc # "notify"
  <1> USE DEF dbVars, queueVars
  <1>1. ASSUME NEW w \in RunWorkers,
               \/ RunStep(w) \/ RunPublishFails(w)
               \/ \E r \in Requests : RunSkip(w, r) \/ RunLock(w, r)
        PROVE  (webhooks' = webhooks \/ RunPublish(w)) /\ expire' = expire
    BY <1>1
    DEF RunStep, RunSkip, RunLock, RunFindsOne, RunFindsNoOne, RunInsert, RunLoses, RunExclude,
        RunCommitsPair, RunCommitsMiss, RunCompletes, RunAttemptTaken, RunPublish, RunPublishFails
  <1>2. ASSUME NEW w \in TxWorkers,
               \/ TxStep(w) \/ TxPublishFails(w) \/ \E t \in Txs : TxLock(w, t) \/ TxSkip(w, t)
        PROVE  (webhooks' = webhooks \/ TxPublish(w)) /\ expire' = expire
    BY <1>2
    DEF TxStep, TxLock, TxSkip, TxFindsWinner, TxFindsNone, TxDrop, TxInsert, TxCommit,
        TxPublish, TxPublishFails
  <1>3. ASSUME \/ FeedStep \/ FeedEnqueueFails \/ \E t \in Txs : FeedSave(t)
               \/ PollStep \/ PollEnqueueFails \/ \E orders \in SUBSET Requests : PollFetch(orders)
               \/ UNCHANGED vars \/ \E r \in Requests : ManualRun(r)
               \/ \E w \in RunWorkers, u \in TxWorkers : DeadlockAborts(w, u)
        PROVE  webhooks' = webhooks /\ expire' = expire
    BY <1>3
    DEF FeedStep, FeedSave, FeedCheck, FeedEnqueue, FeedExclude, FeedEnqueueFails, PollStep, PollFetch,
        PollCreate, PollEnqueue, PollCancel, PollEnqueueFails, DeadlockAborts, ManualRun, vars
  <1>4. ASSUME Crash \/ ExpireNotifyFails
        PROVE  webhooks' = webhooks /\ expire'.pc # "notify"
    BY <1>4 DEF Crash, ExpireNotifyFails, ExpireIdle
  <1>5. \A todo : ExpireNext(todo).pc # "notify"
    BY DEF ExpireNext, ExpireIdle
  <1>6. ASSUME (\E r \in Requests : ExpireScan(r) \/ ExpireLoad(r)) \/ ExpireSave \/ ExpireNotify
        PROVE  /\ webhooks' = webhooks \/ ExpireNotify
               /\ ExpireSave \/ expire'.pc # "notify"
    <2>1. ASSUME NEW r \in Requests, ExpireScan(r)
          PROVE  webhooks' = webhooks /\ expire'.pc # "notify"
      BY <1>5, <2>1 DEF ExpireScan
    <2>2. ASSUME NEW r \in Requests, ExpireLoad(r)
          PROVE  webhooks' = webhooks /\ expire'.pc # "notify"
      BY <1>5, <2>2 DEF ExpireLoad
    <2>3. CASE ExpireSave BY <2>3 DEF ExpireSave
    <2>4. CASE ExpireNotify BY <1>5, <2>4 DEF ExpireNotify
    <2> QED BY <1>6, <2>1, <2>2, <2>3, <2>4
  <1> QED BY <1>1, <1>2, <1>3, <1>4, <1>6 DEF Next, ExpireStep, Fault

LEMMA TruthStep ==
  Safe /\ Publishable /\ WebhooksAreTrue /\ [Next]_vars => Publishable' /\ WebhooksAreTrue'
  <1> SUFFICES ASSUME Safe, Publishable, WebhooksAreTrue, [Next]_vars
               PROVE  Publishable' /\ WebhooksAreTrue'
    OBVIOUS
  <1>1. primary \subseteq primary' BY PairsStay
  <1>2. \A r \in Requests : status[r] = "expired" => status'[r] = "expired"
    BY DecidedStep DEF Terminal
  <1>3. ASSUME ExpireSave
        PROVE  expire'.pc = "notify" => expire'.r = expire.r /\ status'[expire.r] = "expired"
    <2>1. expire.r \in Requests /\ expire.todo \in SUBSET Requests
      BY <1>3 DEF ExpireSave, Safe, TypeInv, ServicesTyped, ExpireStates
    <2>2. status'[expire.r] = "expired" BY <1>3, <2>1 DEF ExpireSave, Safe, TypeInv, RowsTyped
    <2>3. expire' = ExpireNext(expire.todo) \/ expire' = [expire EXCEPT !.pc = "notify"]
      BY <1>3 DEF ExpireSave
    <2>4. ExpireNext(expire.todo).pc # "notify" BY <2>1, NextTyped
    <2> QED BY <2>2, <2>3, <2>4 DEF Safe, TypeInv, ServicesTyped, ExpireStates
  <1>4. expire.pc = "notify" => expire.r \in Requests
    BY DEF Safe, TypeInv, ServicesTyped
  <1>5. Publishable'
    <2>1. ASSUME NEW w \in RunWorkers, run'[w].pc = "publish"
          PROVE  \E t \in Txs : <<run'[w].r, t>> \in primary'
      BY <1>1, <2>1, RunReachesPublish DEF Publishable
    <2>2. ASSUME NEW w \in TxWorkers, tx'[w].pc = "publish"
          PROVE  \E t \in Txs : <<tx'[w].r, t>> \in primary'
      BY <1>1, <2>2, TxReachesPublish DEF Publishable
    <2>3. expire'.pc = "notify" => status'[expire'.r] = "expired"
      BY <1>2, <1>3, <1>4, OnlyTheseAnnounce DEF Publishable
    <2> QED BY <2>1, <2>2, <2>3 DEF Publishable
  <1>6. WebhooksAreTrue'
    <2>1. CASE webhooks' = webhooks BY <1>1, <1>2, <2>1 DEF WebhooksAreTrue
    <2>2. ASSUME NEW r \in Requests, webhooks' = webhooks \cup {<<"matched", r>>},
                 \E t \in Txs : <<r, t>> \in primary
          PROVE  WebhooksAreTrue'
      BY <1>1, <1>2, <2>2 DEF WebhooksAreTrue
    <2>3. ASSUME NEW w \in RunWorkers, RunPublish(w) PROVE WebhooksAreTrue'
      BY <2>2, <2>3, RunFields DEF RunPublish, Publishable, Safe, TypeInv
    <2>4. ASSUME NEW w \in TxWorkers, TxPublish(w) PROVE WebhooksAreTrue'
      BY <2>2, <2>4, TxFields DEF TxPublish, Publishable, Safe, TypeInv
    <2>5. ASSUME ExpireNotify PROVE WebhooksAreTrue'
      BY <1>1, <1>2, <1>4, <2>5 DEF ExpireNotify, Publishable, WebhooksAreTrue
    <2> QED BY <2>1, <2>3, <2>4, <2>5, OnlyTheseAnnounce
  <1> QED BY <1>5, <1>6

LEMMA AlwaysNumbered == Spec => []Numbered
  <1>1. Init => Numbered
    <2> SUFFICES ASSUME Init, NEW r \in Requests PROVE Counted(r, 0)
      BY DEF Numbered
    <2> QED BY DEF Init, Counted, Open
  <1>2. Safe /\ Numbered /\ [Next]_vars => Numbered'
    BY NumberedStep
  <1> QED BY <1>1, <1>2, AlwaysSafe, PTL DEF Spec

(* The attempts of an order are numbered 1, 2, ... and retry_count counts  *)
(* the misses among them, whatever crashes between the commit of a         *)
(* RunConciliationUseCase and the end of its job.                          *)
THEOREM AttemptsAreSequential == Spec => []AttemptsSequential
  BY AlwaysNumbered, AlwaysSafe, NumberedIsSequential, PTL

(* An ambiguous order stays with the human: neither matching direction, on *)
(* a new run, a retry or a new payment, decides it again; the ERP cancels  *)
(* it, or the expiry saves the copy it read before.                        *)
THEOREM AmbiguousStaysParked == Spec => AmbiguousIsParked
  <1>1. Safe /\ Numbered /\ [Next]_vars =>
          [\A r \in Requests : status[r] = "ambiguous" /\ expire.r # r
             => status'[r] \in {"ambiguous", "cancelled"}]_vars
    BY ParkedStep
  <1> QED BY AlwaysSafe, AlwaysNumbered, <1>1, PTL DEF Spec, AmbiguousIsParked

(* No customer is told of a match that is not committed or of an expiry    *)
(* that is not saved, though both are published after their transactions.  *)
THEOREM AnnouncementsAreTrue == Spec => []WebhooksAreTrue
  <1>1. Init => Publishable /\ WebhooksAreTrue
    BY DEF Init, Publishable, WebhooksAreTrue, RunIdle, TxIdle, ExpireIdle
  <1>2. Safe /\ Publishable /\ WebhooksAreTrue /\ [Next]_vars
          => (Publishable /\ WebhooksAreTrue)'
    BY TruthStep
  <1> QED BY <1>1, <1>2, AlwaysSafe, PTL DEF Spec

-----------------------------------------------------------------------------
(* Nothing is forgotten.  While no fault has happened, every committed     *)
(* pair is announced or in the hands of whoever will announce it, and      *)
(* every saved payment is off the market, still with the ingestion, has a  *)
(* job, or is claimed by a conciliation: the safety that PairsAnnounced    *)
(* and PaymentsSettled rest on.                                            *)
Announcing(r) == \/ \E w \in RunWorkers : run[w].pc = "publish" /\ run[w].r = r
                 \/ \E v \in TxWorkers : tx[v].pc = "publish" /\ tx[v].r = r

PairsInHand ==
  \A r \in Requests : (\E t \in Txs : <<r, t>> \in primary)
                        => <<"matched", r>> \in webhooks \/ Announcing(r)

FeedHolds(t) == feed.pc # "idle" /\ feed.t = t
RunHas(t)    == \E w \in RunWorkers : RunClaims(w, t)

PaymentsInHand ==
  \A t \in ingested : t \in excluded \/ FeedHolds(t) \/ txJob[t] > 0 \/ RunHas(t)

NothingForgotten == faults = 0 => PairsInHand /\ PaymentsInHand

(* A job in hand is in its queue, and in one pair of hands.  Otherwise the *)
(* end of one execution could take the job of another.                     *)
RunJobsHeld ==
  /\ \A w \in RunWorkers : run[w].pc # "idle" => runJob[run[w].r] > 0
  /\ \A w, v \in RunWorkers :
       run[w].pc # "idle" /\ run[v].pc # "idle" /\ run[w].r = run[v].r => w = v
TxJobsHeld ==
  /\ \A v \in TxWorkers : tx[v].pc # "idle" => txJob[tx[v].t] > 0
  /\ \A v, u \in TxWorkers :
       tx[v].pc # "idle" /\ tx[u].pc # "idle" /\ tx[v].t = tx[u].t => v = u
  /\ \A v \in TxWorkers : tx[v].pc = "publish" => tx[v].t \in excluded

(* An ambiguous order is not run again, so that no attempt number is taken *)
(* and no commit rolls back: its job is about to end, or has.  What a      *)
(* payment's job has locked is open.                                       *)
AmbiguousHasNoJob ==
  /\ \A r \in Requests : status[r] = "ambiguous" =>
       runJob[r] = 0 \/ \E w \in RunWorkers : run[w].pc = "complete" /\ run[w].r = r
  /\ poll.pc = "enqueue" => runJob[poll.r] = 0 /\ status[poll.r] # "ambiguous"
LockedIsOpen == \A v \in TxWorkers : \A r \in tx[v].locked : status[r] \in Open

Hand == /\ RunJobsHeld /\ TxJobsHeld /\ AmbiguousHasNoJob /\ LockedIsOpen
        /\ PairsInHand /\ PaymentsInHand

(* An execution that goes on with its order keeps its job. *)
LEMMA RunGoesOn ==
  ASSUME RunsTyped, RunJobsHeld, NEW w \in RunWorkers, NEW s, run' = [run EXCEPT ![w] = s],
         run[w].pc # "idle", s.r = run[w].r, UNCHANGED runJob
  PROVE  RunJobsHeld'
  BY DEF RunJobsHeld, RunsTyped

(* One that ends takes its own job with it, or a try of it. *)
LEMMA RunEnds ==
  ASSUME RunsTyped, RowsTyped, QueuesTyped, RunJobsHeld, NEW w \in RunWorkers,
         run[w].pc # "idle", RunGoesIdle(w),
         runJob' = Completed(runJob, run[w].r) \/ runJob' = Failed(runJob, run[w].r)
  PROVE  RunJobsHeld'
  <1>1. \A v \in RunWorkers : run'[v].pc # "idle" => v # w /\ run'[v] = run[v]
    BY DEF RunGoesIdle, RunIdle, RunsTyped
  <1>2. \A r \in Requests : r # run[w].r => runJob'[r] = runJob[r]
    BY DEF Completed, Failed, QueuesTyped
  <1>3. \A v \in RunWorkers : run[v].pc # "idle" => run[v].r \in Requests
    BY DEF RunsTyped, RunOK
  <1> QED BY <1>1, <1>2, <1>3 DEF RunJobsHeld

(* The same two of the tx-conciliation executions. *)
LEMMA TxGoesOn ==
  ASSUME TxsTyped, TxJobsHeld, NEW v \in TxWorkers, NEW s, tx' = [tx EXCEPT ![v] = s],
         tx[v].pc # "idle", s.t = tx[v].t, s.pc = "publish" => s.t \in excluded',
         excluded \subseteq excluded', UNCHANGED txJob
  PROVE  TxJobsHeld'
  BY DEF TxJobsHeld, TxsTyped

LEMMA TxEnds ==
  ASSUME TxsTyped, RowsTyped, QueuesTyped, TxJobsHeld, NEW v \in TxWorkers,
         tx[v].pc # "idle", TxGoesIdle(v), excluded \subseteq excluded',
         txJob' = Completed(txJob, tx[v].t) \/ txJob' = Failed(txJob, tx[v].t)
  PROVE  TxJobsHeld'
  <1>1. \A u \in TxWorkers : tx'[u].pc # "idle" => u # v /\ tx'[u] = tx[u]
    BY DEF TxGoesIdle, TxIdle, TxsTyped
  <1>2. \A t \in Txs : t # tx[v].t => txJob'[t] = txJob[t]
    BY DEF Completed, Failed, QueuesTyped
  <1>3. \A u \in TxWorkers : tx[u].pc # "idle" => tx[u].t \in Txs
    BY DEF TxsTyped, TxOK, RowsTyped
  <1> QED BY <1>1, <1>2, <1>3 DEF TxJobsHeld

(* A step that judges no order ambiguous and adds no run job leaves the    *)
(* parked orders without one.                                              *)
LEMMA AmbiguousKept ==
  ASSUME AmbiguousHasNoJob,
         \A r \in Requests : status'[r] = "ambiguous" => status[r] = "ambiguous",
         \A r \in Requests : runJob[r] = 0 => runJob'[r] = 0,
         \A w \in RunWorkers : run[w].pc = "complete" => run'[w] = run[w],
         poll'.pc = "enqueue" => poll' = poll /\ poll.r \in Requests
  PROVE  AmbiguousHasNoJob'
  BY DEF AmbiguousHasNoJob

(* A step that takes no lock and judges no locked order ambiguous.  That   *)
(* nothing else happens to a locked order is LockedMeansUndecided.         *)
LEMMA LockedKept ==
  ASSUME TypeInv', Locks', LockedIsOpen,
         \A v \in TxWorkers : tx'[v].locked \subseteq tx[v].locked,
         \A r \in Requests : status'[r] = "ambiguous" =>
            status[r] = "ambiguous" \/ \A v \in TxWorkers : r \notin tx[v].locked
  PROVE  LockedIsOpen'
  <1> SUFFICES ASSUME NEW v \in TxWorkers, NEW r \in tx'[v].locked PROVE status'[r] \in Open
    BY DEF LockedIsOpen
  <1>1. r \in Requests
    BY DEF TypeInv, TxsTyped, TxStates
  <1>2. ReqLocked(r)'
    BY DEF ReqLocked
  <1>3. status'[r] \in Open \cup {"ambiguous"}
    BY <1>1, <1>2 DEF Locks, LockedMeansUndecided, Cancelable
  <1>4. status[r] \in Open
    BY DEF LockedIsOpen
  <1> QED BY <1>1, <1>3, <1>4 DEF Open

(* A step that adds no pair and lets every announcement stand. *)
LEMMA PairsStayInHand ==
  ASSUME PairsInHand, primary' = primary, webhooks \subseteq webhooks',
         \A w \in RunWorkers : run[w].pc = "publish" => run'[w] = run[w],
         \A v \in TxWorkers : tx[v].pc = "publish" => tx'[v] = tx[v]
  PROVE  PairsInHand'
  BY DEF PairsInHand, Announcing

(* A step that lets go of no payment. *)
LEMMA PaymentsStayInHand ==
  ASSUME PaymentsInHand, ingested' = ingested, excluded \subseteq excluded',
         \A t \in ingested : FeedHolds(t) => FeedHolds(t)' \/ t \in excluded' \/ txJob'[t] > 0,
         \A t \in ingested : txJob[t] > 0 => txJob'[t] > 0 \/ t \in excluded' \/ RunHas(t)',
         \A t \in ingested : RunHas(t) => RunHas(t)' \/ t \in excluded' \/ txJob'[t] > 0
  PROVE  PaymentsInHand'
  BY DEF PaymentsInHand

(* No attempt number is taken when a transaction commits. *)
LEMMA OpenHasNumber ==
  ASSUME Numbered, Safe, NEW r \in Requests, status[r] \in Open
  PROVE  AttemptOf(r) \notin attempts
  <1>1. PICK n \in Nat : Counted(r, n)
    BY DEF Numbered
  <1>2. n = retries[r]
    BY <1>1 DEF Counted, Open
  <1>3. n + 1 \in Nat /\ n + 1 \notin 1..n
    OBVIOUS
  <1> QED BY <1>1, <1>2, <1>3 DEF Counted, AttemptOf

LEMMA RunHasNumber ==
  ASSUME Numbered, Safe, RunJobsHeld, AmbiguousHasNoJob, NEW w \in RunWorkers,
         run[w].pc = "commit"
  PROVE  AttemptOf(run[w].r) \notin attempts
  <1> DEFINE r == run[w].r
  <1>1. r \in Requests /\ RunHolds(w, r) /\ runJob[r] > 0
    BY RunFields DEF Safe, TypeInv, RunHolds, RunJobsHeld
  <1>2. status[r] \in Open \cup {"ambiguous"}
    BY <1>1 DEF Safe, Locks, LockedMeansUndecided, ReqLocked, Cancelable
  <1>3. status[r] # "ambiguous"
    <2>1. ASSUME NEW v \in RunWorkers, run[v].pc = "complete", run[v].r = r PROVE FALSE
      BY <2>1 DEF RunJobsHeld
    <2> QED BY <1>1, <2>1 DEF AmbiguousHasNoJob
  <1> QED BY <1>1, <1>2, <1>3, OpenHasNumber

(* A conciliation on its way to the commit. *)
LEMMA RunMovesInHand ==
  ASSUME Safe, Safe', Hand, NEW w \in RunWorkers, NEW s \in RunStates,
         run' = [run EXCEPT ![w] = s], run[w].pc \notin {"idle", "publish", "complete"},
         s.r = run[w].r,
         run[w].pc \in {"exclude", "commit"} => s.pc \in {"exclude", "commit"} /\ s.t = run[w].t,
         UNCHANGED <<status, ingested, excluded, primary, runJob, txJob, webhooks, tx, feed, poll>>
  PROVE  Hand'
  <1> USE DEF Hand, Safe, TypeInv
  <1>1. \A v \in RunWorkers : run[v].pc \in {"publish", "complete"} => run'[v] = run[v]
    BY DEF RunsTyped
  <1>2. \A t \in Txs : RunHas(t) => RunHas(t)'
    <2>1. ASSUME NEW t \in Txs, NEW v \in RunWorkers, RunClaims(v, t) PROVE RunClaims(v, t)'
      BY <2>1 DEF RunClaims, RunsTyped
    <2> QED BY <2>1 DEF RunHas
  <1>3. poll.pc = "enqueue" => poll.r \in Requests
    BY DEF ServicesTyped
  <1>4. ingested \subseteq Txs
    BY DEF RowsTyped
  <1>5. RunJobsHeld'
    BY RunGoesOn
  <1>6. TxJobsHeld'
    BY DEF TxJobsHeld
  <1>7. AmbiguousHasNoJob'
    BY <1>1, <1>3, AmbiguousKept
  <1>8. LockedIsOpen'
    BY DEF LockedIsOpen
  <1>9. PairsInHand'
    BY <1>1, PairsStayInHand
  <1>10. PaymentsInHand'
    BY <1>2, <1>4, PaymentsStayInHand DEF FeedHolds
  <1> QED BY <1>5, <1>6, <1>7, <1>8, <1>9, <1>10

(* One that ends without a pair to announce and without a claim, or whose  *)
(* payment still has its job.                                              *)
LEMMA RunEndsInHand ==
  ASSUME Safe, Safe', Hand, NEW w \in RunWorkers,
         run[w].pc \notin {"idle", "publish", "complete"}, RunGoesIdle(w),
         runJob' = Completed(runJob, run[w].r) \/ runJob' = Failed(runJob, run[w].r),
         \A t \in Txs : RunClaims(w, t) => txJob[t] > 0,
         UNCHANGED <<status, ingested, excluded, primary, txJob, webhooks, tx, feed, poll>>
  PROVE  Hand'
  <1> USE DEF Hand, Safe, TypeInv
  <1>1. /\ \A v \in RunWorkers : v # w => run'[v] = run[v]
        /\ \A v \in RunWorkers : run[v].pc \in {"publish", "complete"} => v # w
    BY DEF RunGoesIdle, RunsTyped
  <1>2. \A t \in ingested : RunHas(t) => RunHas(t)' \/ txJob'[t] > 0
    <2>1. ASSUME NEW t \in ingested, NEW v \in RunWorkers, RunClaims(v, t), v # w
          PROVE  RunClaims(v, t)'
      BY <1>1, <2>1 DEF RunClaims
    <2>2. ingested \subseteq Txs
      BY DEF RowsTyped
    <2> QED BY <2>1, <2>2 DEF RunHas
  <1>3. poll.pc = "enqueue" => poll.r \in Requests
    BY DEF ServicesTyped
  <1>4. \A r \in Requests : runJob[r] = 0 => runJob'[r] = 0
    BY DEF Completed, Failed, QueuesTyped
  <1>5. RunJobsHeld'
    BY RunEnds
  <1>6. TxJobsHeld'
    BY DEF TxJobsHeld
  <1>7. AmbiguousHasNoJob'
    BY <1>1, <1>3, <1>4, AmbiguousKept
  <1>8. LockedIsOpen'
    BY DEF LockedIsOpen
  <1>9. PairsInHand'
    BY <1>1, PairsStayInHand
  <1>10. PaymentsInHand'
    BY <1>2, PaymentsStayInHand DEF FeedHolds
  <1> QED BY <1>5, <1>6, <1>7, <1>8, <1>9, <1>10

(* The job of an order nobody works on is taken, or ends at once. *)
LEMMA RunBeginsInHand ==
  ASSUME Safe, Safe', Hand, NEW w \in RunWorkers, NEW r \in Requests,
         RunSkip(w, r) \/ RunLock(w, r)
  PROVE  Hand'
  <1> USE DEF Hand, Safe, TypeInv
  <1>1. /\ run[w].pc = "idle" /\ runJob[r] > 0
        /\ \A v \in RunWorkers : run[v].r # r
        /\ UNCHANGED <<status, ingested, excluded, primary, txJob, webhooks, tx, feed, poll>>
    BY DEF RunSkip, RunLock, RunActive, dbVars, queueVars
  <1>2. /\ \A v \in RunWorkers : v # w => run'[v] = run[v]
        /\ \A v \in RunWorkers : run[v].pc # "idle" => run'[v] = run[v]
    BY <1>1 DEF RunSkip, RunLock, RunsTyped
  <1>3. \/ run' = run /\ runJob' = Completed(runJob, r)
        \/ run'[w].pc = "evaluate" /\ run'[w].r = r /\ runJob' = runJob
    BY DEF RunSkip, RunLock, RunIdle, queueVars, RunsTyped
  <1>4. /\ \A q \in Requests : q # r => runJob'[q] = runJob[q]
        /\ \A q \in Requests : runJob[q] = 0 => runJob'[q] = 0
    BY <1>3 DEF Completed, QueuesTyped
  <1>5. RunJobsHeld'
    <2>1. CASE run' = run
      <3>1. \A v \in RunWorkers : run[v].pc # "idle" => run[v].r \in Requests
        BY DEF RunsTyped, RunOK
      <3> QED BY <1>1, <1>4, <2>1, <3>1 DEF RunJobsHeld
    <2>2. CASE run'[w].pc = "evaluate" /\ run'[w].r = r /\ runJob' = runJob
      BY <1>1, <1>2, <2>2 DEF RunJobsHeld
    <2> QED BY <1>3, <2>1, <2>2
  <1>6. TxJobsHeld'
    BY <1>1 DEF TxJobsHeld
  <1>7. AmbiguousHasNoJob'
    BY <1>1, <1>2, <1>4, AmbiguousKept DEF ServicesTyped
  <1>8. LockedIsOpen'
    BY <1>1 DEF LockedIsOpen
  <1>9. PairsInHand'
    BY <1>1, <1>2, PairsStayInHand
  <1>10. PaymentsInHand'
    <2>1. \A t \in ingested : RunHas(t) => RunHas(t)'
      BY <1>2 DEF RunHas, RunClaims
    <2> QED BY <1>1, <2>1, PaymentsStayInHand DEF FeedHolds
  <1> QED BY <1>5, <1>6, <1>7, <1>8, <1>9, <1>10

(* COMMIT of a pair: the worker that wrote it is the one that announces    *)
(* it, and the payment is excluded.                                        *)
LEMMA RunCommitsPairInHand ==
  ASSUME Safe, Safe', Hand, NEW w \in RunWorkers, RunCommitsPair(w)
  PROVE  Hand'
  <1> USE DEF Hand, Safe, TypeInv
  <1> DEFINE r == run[w].r
             t == run[w].t
             s == [RunIdle EXCEPT !.pc = "publish", !.r = r]
  <1>1. /\ run[w].pc = "commit" /\ run' = [run EXCEPT ![w] = s]
        /\ status' = [status EXCEPT ![r] = "matched"]
        /\ primary' = primary \cup {<<r, t>>} /\ excluded' = excluded \cup {t}
        /\ UNCHANGED <<ingested, runJob, txJob, webhooks, tx, feed, poll>>
    BY DEF RunCommitsPair, queueVars
  <1>2. s.pc = "publish" /\ s.r = r
    BY DEF RunIdle
  <1>3. r \in Requests /\ t \in Txs
    BY RunFields DEF RunCommitsPair
  <1> HIDE DEF s
  <1>4. /\ run'[w] = s
        /\ \A v \in RunWorkers : v # w => run'[v] = run[v]
    BY <1>1 DEF RunsTyped
  <1>5. RunJobsHeld'
    BY <1>1, <1>2, RunGoesOn
  <1>6. TxJobsHeld'
    BY <1>1 DEF TxJobsHeld
  <1>7. \A q \in Requests : status'[q] = "ambiguous" => status[q] = "ambiguous"
    BY <1>1, <1>3 DEF RowsTyped
  <1>8. AmbiguousHasNoJob'
    BY <1>1, <1>4, <1>7, AmbiguousKept DEF ServicesTyped
  <1>9. LockedIsOpen'
    BY <1>1, <1>7, LockedKept DEF TxsTyped, TxStates
  <1>10. PairsInHand'
    <2>1. ASSUME NEW q \in Requests, q # r, \E u \in Txs : <<q, u>> \in primary'
          PROVE  <<"matched", q>> \in webhooks' \/ Announcing(q)'
      BY <1>1, <1>4, <2>1 DEF PairsInHand, Announcing
    <2>2. ASSUME NEW q \in Requests, q = r PROVE Announcing(q)'
      BY <1>2, <1>4, <2>2 DEF Announcing
    <2> HIDE DEF r
    <2> QED BY <2>1, <2>2 DEF PairsInHand
  <1>11. PaymentsInHand'
    <2>1. ASSUME NEW u \in ingested, RunHas(u) PROVE RunHas(u)' \/ u \in excluded'
      <3>1. PICK v \in RunWorkers : RunClaims(v, u)
        BY <2>1 DEF RunHas
      <3>2. CASE v = w
        BY <1>1, <3>1, <3>2 DEF RunClaims
      <3>3. CASE v # w
        BY <1>4, <3>1, <3>3 DEF RunHas, RunClaims
      <3> QED BY <3>2, <3>3
    <2> QED BY <1>1, <2>1, PaymentsStayInHand DEF FeedHolds
  <1> QED BY <1>5, <1>6, <1>8, <1>9, <1>10, <1>11

(* COMMIT of a miss: an order judged ambiguous is left with a job that is  *)
(* about to end, and no payment's transaction had it locked.               *)
LEMMA RunCommitsMissInHand ==
  ASSUME Safe, Safe', Hand, NEW w \in RunWorkers, RunCommitsMiss(w)
  PROVE  Hand'
  <1> USE DEF Hand, Safe, TypeInv
  <1> DEFINE r == run[w].r
             s == [RunIdle EXCEPT !.pc = "complete", !.r = r]
  <1>1. /\ run[w].pc = "commit" /\ run' = [run EXCEPT ![w] = s]
        /\ status' = [status EXCEPT ![r] = run[w].verdict] /\ run[w].verdict # "matched"
        /\ UNCHANGED <<ingested, excluded, primary, runJob, txJob, webhooks, tx, feed, poll>>
    BY DEF RunCommitsMiss, queueVars
  <1>2. s.pc = "complete" /\ s.r = r
    BY DEF RunIdle
  <1>3. r \in Requests /\ RunHolds(w, r) /\ runJob[r] > 0 /\ run[w].t = None
    BY <1>1, RunFields DEF RunHolds, RunJobsHeld, RunsTyped, RunOK
  <1> HIDE DEF s
  <1>4. /\ run'[w] = s
        /\ \A v \in RunWorkers : v # w => run'[v] = run[v]
    BY <1>1 DEF RunsTyped
  <1>5. RunJobsHeld'
    BY <1>1, <1>2, RunGoesOn
  <1>6. TxJobsHeld'
    BY <1>1 DEF TxJobsHeld
  <1>7. \A q \in Requests : q # r => status'[q] = status[q]
    BY <1>1 DEF RowsTyped
  <1>8. AmbiguousHasNoJob'
    <2>1. ASSUME NEW q \in Requests, status'[q] = "ambiguous"
          PROVE  runJob'[q] = 0 \/ \E v \in RunWorkers : run'[v].pc = "complete" /\ run'[v].r = q
      <3>1. CASE q = r
        BY <1>2, <1>4, <3>1
      <3>2. CASE q # r
        BY <1>1, <1>4, <1>7, <2>1, <3>2 DEF AmbiguousHasNoJob
      <3> QED BY <3>1, <3>2
    <2>2. poll.pc = "enqueue" => poll.r \in Requests /\ poll.r # r
      BY <1>3 DEF AmbiguousHasNoJob, ServicesTyped
    <2> QED BY <1>1, <1>7, <2>1, <2>2 DEF AmbiguousHasNoJob
  <1>9. LockedIsOpen'
    <2>1. \A v \in TxWorkers : r \notin tx[v].locked
      BY <1>3 DEF Locks, LockedMeansUndecided
    <2> QED BY <1>1, <1>7, <2>1, LockedKept
  <1>10. PairsInHand'
    BY <1>1, <1>4, PairsStayInHand
  <1>11. PaymentsInHand'
    <2>1. ASSUME NEW u \in ingested, RunHas(u) PROVE RunHas(u)'
      <3>1. u # None
        BY ConstantsAssumption DEF RowsTyped
      <3> QED BY <1>3, <1>4, <2>1, <3>1 DEF RunHas, RunClaims
    <2> QED BY <1>1, <2>1, PaymentsStayInHand DEF FeedHolds
  <1> QED BY <1>5, <1>6, <1>8, <1>9, <1>10, <1>11

(* The pair is announced, or there was none: the job ends. *)
LEMMA RunFinishesInHand ==
  ASSUME Safe, Safe', Hand, NEW w \in RunWorkers, RunPublish(w) \/ RunCompletes(w)
  PROVE  Hand'
  <1> USE DEF Hand, Safe, TypeInv
  <1> DEFINE r == run[w].r
  <1>1. /\ run[w].pc \in {"publish", "complete"} /\ RunGoesIdle(w)
        /\ runJob' = Completed(runJob, r)
        /\ webhooks \subseteq webhooks'
        /\ run[w].pc = "publish" => <<"matched", r>> \in webhooks'
        /\ UNCHANGED <<status, ingested, excluded, primary, txJob, tx, feed, poll>>
    BY DEF RunPublish, RunCompletes, dbVars
  <1>2. r \in Requests
    BY <1>1, RunFields
  <1>3. \A v \in RunWorkers : v # w => run'[v] = run[v]
    BY <1>1 DEF RunGoesIdle, RunsTyped
  <1>4. runJob'[r] = 0 /\ \A q \in Requests : runJob[q] = 0 => runJob'[q] = 0
    BY <1>1, <1>2 DEF Completed, QueuesTyped
  <1>5. RunJobsHeld'
    BY <1>1, RunEnds
  <1>6. TxJobsHeld'
    BY <1>1 DEF TxJobsHeld
  <1>7. AmbiguousHasNoJob'
    <2>1. ASSUME NEW q \in Requests, status'[q] = "ambiguous"
          PROVE  runJob'[q] = 0 \/ \E v \in RunWorkers : run'[v].pc = "complete" /\ run'[v].r = q
      <3>1. CASE q = r
        BY <1>4, <3>1
      <3>2. CASE q # r
        BY <1>1, <1>3, <1>4, <2>1, <3>2 DEF AmbiguousHasNoJob
      <3> QED BY <3>1, <3>2
    <2>2. poll.pc = "enqueue" => poll.r \in Requests
      BY DEF ServicesTyped
    <2> QED BY <1>1, <1>4, <2>1, <2>2 DEF AmbiguousHasNoJob
  <1>8. LockedIsOpen'
    BY <1>1 DEF LockedIsOpen
  <1>9. PairsInHand'
    <2>1. ASSUME NEW q \in Requests, Announcing(q)
          PROVE  Announcing(q)' \/ <<"matched", q>> \in webhooks'
      BY <1>1, <1>3, <2>1 DEF Announcing
    <2> QED BY <1>1, <2>1 DEF PairsInHand
  <1>10. PaymentsInHand'
    <2>1. ASSUME NEW u \in ingested, RunHas(u) PROVE RunHas(u)'
      BY <1>1, <1>3, <2>1 DEF RunHas, RunClaims
    <2> QED BY <1>1, <2>1, PaymentsStayInHand DEF FeedHolds
  <1> QED BY <1>5, <1>6, <1>7, <1>8, <1>9, <1>10

(* Every step of a conciliation, as long as the queue takes its jobs. *)
LEMMA RunStepInHand ==
  ASSUME Safe, Safe', Numbered, Hand, NEW w \in RunWorkers, RunStep(w)
  PROVE  Hand'
  <1> USE DEF dbVars, queueVars
  <1>0. run[w] \in RunStates
    BY DEF Safe, TypeInv, RunsTyped
  <1>1. ASSUME NEW t \in Txs, RunFindsOne(w, t) PROVE Hand'
    <2> DEFINE s == [run[w] EXCEPT !.pc = "insert", !.t = t, !.verdict = "matched"]
    <2>1. s \in RunStates /\ s.r = run[w].r
      BY <1>0 DEF RunStates
    <2>2. run' = [run EXCEPT ![w] = s] /\ run[w].pc = "evaluate"
      BY <1>1 DEF RunFindsOne
    <2> HIDE DEF s
    <2> QED BY <1>1, <2>1, <2>2, RunMovesInHand DEF RunFindsOne
  <1>2. ASSUME NEW verdict \in {"not_found", "ambiguous"}, RunFindsNoOne(w, verdict) PROVE Hand'
    <2> DEFINE s == [run[w] EXCEPT !.pc = "commit", !.verdict = verdict]
    <2>1. s \in RunStates /\ s.r = run[w].r
      BY <1>0 DEF RunStates
    <2>2. run' = [run EXCEPT ![w] = s] /\ run[w].pc = "evaluate"
      BY <1>2 DEF RunFindsNoOne
    <2> HIDE DEF s
    <2> QED BY <1>2, <2>1, <2>2, RunMovesInHand DEF RunFindsNoOne
  <1>3. CASE RunInsert(w)
    <2> DEFINE s == [run[w] EXCEPT !.pc = "exclude"]
    <2>1. s \in RunStates /\ s.r = run[w].r
      BY <1>0 DEF RunStates
    <2>2. run' = [run EXCEPT ![w] = s] /\ run[w].pc = "insert"
      BY <1>3 DEF RunInsert
    <2> HIDE DEF s
    <2> QED BY <1>3, <2>1, <2>2, RunMovesInHand DEF RunInsert
  <1>4. CASE RunExclude(w)
    <2> DEFINE s == [run[w] EXCEPT !.pc = "commit"]
    <2>1. s \in RunStates /\ s.r = run[w].r /\ s.pc = "commit" /\ s.t = run[w].t
      BY <1>0 DEF RunStates
    <2>2. run' = [run EXCEPT ![w] = s] /\ run[w].pc = "exclude"
      BY <1>4 DEF RunExclude
    <2> HIDE DEF s
    <2> QED BY <1>4, <2>1, <2>2, RunMovesInHand DEF RunExclude
  <1>5. CASE RunLoses(w)
    <2>1. \A t \in Txs : ~RunClaims(w, t)
      BY <1>5 DEF RunLoses, RunClaims
    <2> QED BY <1>5, <2>1, RunEndsInHand DEF RunLoses
  <1>6. ~RunAttemptTaken(w)
    BY RunHasNumber DEF RunAttemptTaken, Hand
  <1> QED
    BY <1>1, <1>2, <1>3, <1>4, <1>5, <1>6, RunCommitsPairInHand, RunCommitsMissInHand,
       RunFinishesInHand DEF RunStep

(* A tx-conciliation on its way to the commit. *)
LEMMA TxMovesInHand ==
  ASSUME Safe, Safe', Hand, NEW v \in TxWorkers, NEW s \in TxStates,
         tx' = [tx EXCEPT ![v] = s], tx[v].pc \notin {"idle", "publish"},
         s.pc # "publish", s.t = tx[v].t,
         s.locked \subseteq tx[v].locked \/ s.locked \subseteq Available,
         UNCHANGED <<status, ingested, excluded, primary, runJob, txJob, webhooks, run, feed, poll>>
  PROVE  Hand'
  <1> USE DEF Hand, Safe, TypeInv
  <1>1. /\ \A u \in TxWorkers : u # v => tx'[u] = tx[u]
        /\ \A u \in TxWorkers : tx[u].pc = "publish" => tx'[u] = tx[u]
        /\ tx'[v] = s
    BY DEF TxsTyped
  <1>2. poll.pc = "enqueue" => poll.r \in Requests
    BY DEF ServicesTyped
  <1>3. RunJobsHeld'
    BY DEF RunJobsHeld
  <1>4. TxJobsHeld'
    BY TxGoesOn
  <1>5. AmbiguousHasNoJob'
    BY <1>2, AmbiguousKept
  <1>6. LockedIsOpen'
    BY <1>1 DEF LockedIsOpen, Available
  <1>7. PairsInHand'
    BY <1>1, PairsStayInHand
  <1>8. PaymentsInHand'
    BY PaymentsStayInHand DEF FeedHolds, RunHas, RunClaims
  <1> QED BY <1>3, <1>4, <1>5, <1>6, <1>7, <1>8

(* One that ends: its payment is off the market, or claimed by a           *)
(* conciliation; what it has to announce is announced.                     *)
LEMMA TxEndsInHand ==
  ASSUME Safe, Safe', Hand, NEW v \in TxWorkers, tx[v].pc # "idle", TxGoesIdle(v),
         txJob' = Completed(txJob, tx[v].t) \/ txJob' = Failed(txJob, tx[v].t),
         tx[v].t \in excluded' \/ RunHas(tx[v].t),
         excluded \subseteq excluded', webhooks \subseteq webhooks',
         tx[v].pc = "publish" => <<"matched", tx[v].r>> \in webhooks',
         UNCHANGED <<status, ingested, primary, runJob, run, feed, poll>>
  PROVE  Hand'
  <1> USE DEF Hand, Safe, TypeInv
  <1>1. /\ \A u \in TxWorkers : u # v => tx'[u] = tx[u]
        /\ tx'[v] = TxIdle /\ TxIdle.pc = "idle" /\ TxIdle.locked = {}
    BY DEF TxGoesIdle, TxIdle, TxsTyped
  <1>2. poll.pc = "enqueue" => poll.r \in Requests
    BY DEF ServicesTyped
  <1>3. tx[v].t \in ingested /\ ingested \subseteq Txs
    BY TxFields DEF RowsTyped
  <1>4. \A t \in ingested : t # tx[v].t => txJob'[t] = txJob[t]
    BY <1>3 DEF Completed, Failed, QueuesTyped
  <1>5. RunJobsHeld'
    BY DEF RunJobsHeld
  <1>6. TxJobsHeld'
    BY TxEnds
  <1>7. AmbiguousHasNoJob'
    BY <1>2, AmbiguousKept
  <1>8. LockedIsOpen'
    BY <1>1 DEF LockedIsOpen
  <1>9. PairsInHand'
    <2>1. ASSUME NEW q \in Requests, Announcing(q)
          PROVE  Announcing(q)' \/ <<"matched", q>> \in webhooks'
      BY <1>1, <2>1 DEF Announcing
    <2> QED BY <2>1 DEF PairsInHand
  <1>10. PaymentsInHand'
    <2>1. \A t : RunHas(t)' <=> RunHas(t)
      BY DEF RunHas, RunClaims
    <2> QED BY <1>4, <2>1, PaymentsStayInHand DEF FeedHolds
  <1> QED BY <1>5, <1>6, <1>7, <1>8, <1>9, <1>10

(* The job of a payment nobody works on is taken, or ends at once because  *)
(* the payment is excluded.                                                *)
LEMMA TxBeginsInHand ==
  ASSUME Safe, Safe', Hand, NEW v \in TxWorkers, NEW t \in Txs, TxLock(v, t) \/ TxSkip(v, t)
  PROVE  Hand'
  <1> USE DEF Hand, Safe, TypeInv
  <1>1. /\ tx[v].pc = "idle" /\ txJob[t] > 0
        /\ \A u \in TxWorkers : tx[u].t # t
        /\ UNCHANGED <<status, ingested, excluded, primary, runJob, webhooks, run, feed, poll>>
    BY DEF TxLock, TxSkip, TxTakes, TxActive, dbVars, queueVars
  <1>2. \A u \in TxWorkers : u # v => tx'[u] = tx[u]
    BY <1>1 DEF TxLock, TxSkip, TxsTyped
  <1>3. \/ tx' = tx /\ txJob' = Completed(txJob, t) /\ t \in excluded
        \/ tx'[v].pc = "scan" /\ tx'[v].t = t /\ tx'[v].locked = {} /\ txJob' = txJob
    BY DEF TxLock, TxSkip, TxIdle, queueVars, TxsTyped
  <1>4. \A u \in Txs : u # t => txJob'[u] = txJob[u]
    BY <1>3 DEF Completed, QueuesTyped
  <1>5. RunJobsHeld'
    BY <1>1 DEF RunJobsHeld
  <1>6. TxJobsHeld'
    <2>1. CASE tx' = tx
      <3>1. \A u \in TxWorkers : tx[u].pc # "idle" => tx[u].t \in Txs
        BY DEF TxsTyped, TxOK, RowsTyped
      <3> QED BY <1>1, <1>4, <2>1, <3>1 DEF TxJobsHeld
    <2>2. CASE tx'[v].pc = "scan" /\ tx'[v].t = t /\ txJob' = txJob
      BY <1>1, <1>2, <2>2 DEF TxJobsHeld
    <2> QED BY <1>3, <2>1, <2>2
  <1>7. AmbiguousHasNoJob'
    BY <1>1, AmbiguousKept DEF ServicesTyped
  <1>8. LockedIsOpen'
    BY <1>1, <1>2, <1>3 DEF LockedIsOpen
  <1>9. PairsInHand'
    BY <1>1, <1>2, PairsStayInHand
  <1>10. PaymentsInHand'
    <2>1. \A u : RunHas(u)' <=> RunHas(u)
      BY <1>1 DEF RunHas, RunClaims
    <2>2. \A u \in ingested : u \in Txs
      BY DEF RowsTyped
    <2> QED BY <1>1, <1>3, <1>4, <2>1, <2>2, PaymentsStayInHand DEF FeedHolds
  <1> QED BY <1>5, <1>6, <1>7, <1>8, <1>9, <1>10

(* COMMIT of a pair by the payment's own job.                              *)
LEMMA TxCommitInHand ==
  ASSUME Safe, Safe', Numbered, Hand, NEW v \in TxWorkers, TxCommit(v)
  PROVE  Hand'
  <1> USE DEF Hand, Safe, TypeInv
  <1> DEFINE r == tx[v].r
             t == tx[v].t
             s == [tx[v] EXCEPT !.pc = "publish", !.locked = {}]
  <1>1. tx[v].pc = "commit" /\ r \in Requests /\ r \in tx[v].locked /\ t \in Txs
    BY TxFields DEF TxCommit, TxsTyped, TxOK
  <1>2. AttemptOf(r) \notin attempts
    BY <1>1, OpenHasNumber DEF LockedIsOpen
  <1>3. /\ tx' = [tx EXCEPT ![v] = s]
        /\ status' = [status EXCEPT ![r] = "matched"]
        /\ primary' = primary \cup {<<r, t>>} /\ excluded' = excluded \cup {t}
        /\ UNCHANGED <<ingested, runJob, txJob, webhooks, run, feed, poll>>
    BY <1>2 DEF TxCommit
  <1>4. s.pc = "publish" /\ s.r = r /\ s.t = t /\ s.locked = {}
    BY DEF TxsTyped, TxStates
  <1> HIDE DEF s
  <1>5. /\ tx'[v] = s
        /\ \A u \in TxWorkers : u # v => tx'[u] = tx[u]
    BY <1>3 DEF TxsTyped
  <1>6. RunJobsHeld'
    BY <1>3 DEF RunJobsHeld
  <1>7. TxJobsHeld'
    BY <1>1, <1>3, <1>4, TxGoesOn
  <1>8. \A q \in Requests : status'[q] = "ambiguous" => status[q] = "ambiguous"
    BY <1>1, <1>3 DEF RowsTyped
  <1>9. AmbiguousHasNoJob'
    BY <1>3, <1>8, AmbiguousKept DEF ServicesTyped
  <1>10. LockedIsOpen'
    BY <1>4, <1>5, <1>8, LockedKept DEF TxsTyped, TxStates
  <1>11. PairsInHand'
    <2>1. ASSUME NEW q \in Requests, q # r, \E u \in Txs : <<q, u>> \in primary'
          PROVE  <<"matched", q>> \in webhooks' \/ Announcing(q)'
      BY <1>1, <1>3, <1>5, <2>1 DEF PairsInHand, Announcing
    <2>2. ASSUME NEW q \in Requests, q = r PROVE Announcing(q)'
      BY <1>4, <1>5, <2>2 DEF Announcing
    <2> HIDE DEF r
    <2> QED BY <2>1, <2>2 DEF PairsInHand
  <1>12. PaymentsInHand'
    <2>1. \A u : RunHas(u)' <=> RunHas(u)
      BY <1>3 DEF RunHas, RunClaims
    <2> QED BY <1>3, <2>1, PaymentsStayInHand DEF FeedHolds
  <1> QED BY <1>6, <1>7, <1>9, <1>10, <1>11, <1>12

(* Every step of a tx-conciliation. *)
LEMMA TxStepInHand ==
  ASSUME Safe, Safe', Numbered, Hand, NEW v \in TxWorkers, TxStep(v)
  PROVE  Hand'
  <1> USE DEF dbVars, queueVars
  <1>0. /\ tx[v] \in TxStates /\ Available \subseteq Requests
        /\ tx[v].pc # "idle" => tx[v].t \in Txs
    BY TxFields DEF Safe, TypeInv, TxsTyped, Available
  <1>1. ASSUME NEW r \in Requests, TxFindsWinner(v, r) PROVE Hand'
    <2> DEFINE s == [tx[v] EXCEPT !.pc = "insert", !.locked = Available, !.r = r]
    <2>1. s \in TxStates /\ s.t = tx[v].t /\ s.pc # "publish" /\ s.locked = Available
      BY <1>0 DEF TxStates
    <2>2. tx' = [tx EXCEPT ![v] = s] /\ tx[v].pc = "scan"
      BY <1>1 DEF TxFindsWinner
    <2> HIDE DEF s
    <2> QED BY <1>1, <2>1, <2>2, TxMovesInHand DEF TxFindsWinner
  <1>2. CASE TxFindsNone(v)
    <2> DEFINE s == [tx[v] EXCEPT !.pc = "drop", !.locked = Available]
    <2>1. s \in TxStates /\ s.t = tx[v].t /\ s.pc # "publish" /\ s.locked = Available
      BY <1>0 DEF TxStates
    <2>2. tx' = [tx EXCEPT ![v] = s] /\ tx[v].pc = "scan"
      BY <1>2 DEF TxFindsNone
    <2> HIDE DEF s
    <2> QED BY <1>2, <2>1, <2>2, TxMovesInHand DEF TxFindsNone
  <1>3. CASE TxDrop(v)
    BY <1>3, TxEndsInHand DEF TxDrop
  <1>4. CASE TxInsert(v)
    <2>1. CASE Conciliated(tx[v].t)
      <3>1. tx[v].t \in excluded
        BY <2>1 DEF Conciliated, Safe, PairsAgree
      <3> QED BY <1>4, <2>1, <3>1, TxEndsInHand DEF TxInsert
    <2>2. CASE ~Conciliated(tx[v].t)
      <3> DEFINE s == [tx[v] EXCEPT !.pc = "commit"]
      <3>1. s \in TxStates /\ s.t = tx[v].t /\ s.pc # "publish" /\ s.locked = tx[v].locked
        BY <1>0 DEF TxStates
      <3>2. tx' = [tx EXCEPT ![v] = s] /\ tx[v].pc = "insert"
        BY <1>4, <2>2 DEF TxInsert
      <3> HIDE DEF s
      <3> QED BY <1>4, <2>2, <3>1, <3>2, TxMovesInHand DEF TxInsert
    <2> QED BY <2>1, <2>2
  <1>5. CASE TxPublish(v)
    <2>1. tx[v].t \in excluded
      BY <1>5 DEF TxPublish, Hand, TxJobsHeld
    <2> QED BY <1>5, <2>1, TxEndsInHand DEF TxPublish
  <1> QED BY <1>1, <1>2, <1>3, <1>4, <1>5, TxCommitInHand DEF TxStep

(* The database aborts one of the two in the cycle: the payment's job is   *)
(* tried again or the conciliation goes on to exclude the payment.         *)
LEMMA AbortInHand ==
  ASSUME Safe, Safe', Hand, NEW w \in RunWorkers, NEW v \in TxWorkers, DeadlockAborts(w, v)
  PROVE  Hand'
  <1> USE DEF dbVars
  <1>1. run[w].pc = "exclude" /\ tx[v].pc = "insert" /\ tx[v].t = run[w].t
    BY DEF DeadlockAborts, Deadlocked, TxHolds
  <1>2. \A t \in Txs : RunClaims(w, t) => txJob[t] > 0
    BY <1>1 DEF RunClaims, Hand, TxJobsHeld
  <1>3. CASE RunGoesIdle(w) /\ runJob' = Failed(runJob, run[w].r) /\ UNCHANGED <<tx, txJob>>
    BY <1>1, <1>2, <1>3, RunEndsInHand DEF DeadlockAborts
  <1>4. CASE TxGoesIdle(v) /\ txJob' = Failed(txJob, tx[v].t) /\ UNCHANGED <<run, runJob>>
    <2>1. RunHas(tx[v].t)
      BY <1>1 DEF RunHas, RunClaims
    <2> QED BY <1>1, <1>4, <2>1, TxEndsInHand DEF DeadlockAborts
  <1> QED BY <1>3, <1>4 DEF DeadlockAborts

(* The ingestion holds a payment until it has a job or is excluded. *)
LEMMA FeedInHand ==
  ASSUME Safe, Safe', Hand, FeedStep \/ \E t \in Txs : FeedSave(t)
  PROVE  Hand'
  <1> USE DEF Hand, Safe, TypeInv, dbVars, queueVars
  <1>1. /\ excluded \subseteq excluded'
        /\ UNCHANGED <<status, primary, runJob, webhooks, run, tx, poll>>
    BY DEF FeedStep, FeedSave, FeedCheck, FeedExclude, FeedEnqueue
  <1>2. /\ feed.pc # "idle" => feed.t \in ingested
        /\ ingested \subseteq Txs /\ feed \in FeedStates
        /\ poll.pc = "enqueue" => poll.r \in Requests
    BY DEF ServicesTyped, RowsTyped
  <1>3. \A t \in Txs : txJob[t] > 0 => txJob'[t] > 0
    <2>1. CASE FeedEnqueue
      BY <2>1, ConstantsAssumption DEF FeedEnqueue, QueuesTyped
    <2> QED BY <2>1 DEF FeedStep, FeedSave, FeedCheck, FeedExclude
  <1>4. RunJobsHeld'
    BY <1>1 DEF RunJobsHeld
  <1>5. TxJobsHeld'
    <2>1. \A u \in TxWorkers : tx[u].pc # "idle" => tx[u].t \in Txs
      BY DEF TxsTyped, TxOK, RowsTyped
    <2> QED BY <1>1, <1>3, <2>1 DEF TxJobsHeld
  <1>6. AmbiguousHasNoJob'
    BY <1>1, <1>2, AmbiguousKept
  <1>7. LockedIsOpen'
    BY <1>1 DEF LockedIsOpen
  <1>8. PairsInHand'
    BY <1>1, PairsStayInHand
  <1>9. PaymentsInHand'
    <2>1. \A t : RunHas(t)' <=> RunHas(t)
      BY <1>1 DEF RunHas, RunClaims
    <2>2. ASSUME NEW t \in Txs, FeedSave(t) PROVE PaymentsInHand'
      <3>1. FeedHolds(t)' /\ ingested' = ingested \cup {t} /\ feed.pc = "idle"
        BY <2>2 DEF FeedSave, FeedHolds
      <3> QED BY <1>1, <1>2, <1>3, <2>1, <3>1 DEF PaymentsInHand, FeedHolds
    <2>3. ASSUME FeedStep PROVE PaymentsInHand'
      <3>1. ASSUME NEW t \in ingested, FeedHolds(t)
            PROVE  FeedHolds(t)' \/ t \in excluded' \/ txJob'[t] > 0
        <4>1. CASE FeedCheck
          BY <1>2, <3>1, <4>1 DEF FeedCheck, FeedHolds, FeedStates
        <4>2. CASE FeedExclude
          BY <3>1, <4>2 DEF FeedExclude, FeedHolds
        <4>3. CASE FeedEnqueue
          BY <1>2, <3>1, <4>3, ConstantsAssumption DEF FeedEnqueue, FeedHolds, QueuesTyped
        <4> QED BY <2>3, <4>1, <4>2, <4>3 DEF FeedStep
      <3>2. ingested' = ingested
        BY <2>3 DEF FeedStep, FeedCheck, FeedExclude, FeedEnqueue
      <3> QED BY <1>1, <1>2, <1>3, <2>1, <3>1, <3>2, PaymentsStayInHand
    <2> QED BY <2>2, <2>3
  <1> QED BY <1>4, <1>5, <1>6, <1>7, <1>8, <1>9

(* The poll queues an order right after creating it, and nothing else      *)
(* could have; cancelling and expiring park nothing.                       *)
LEMMA ServicesInHand ==
  ASSUME Safe, Safe', Hand,
         \/ PollStep \/ \E orders \in SUBSET Requests : PollFetch(orders)
         \/ ExpireStep \/ \E r \in Requests : ExpireScan(r)
         \/ UNCHANGED vars
  PROVE  Hand'
  <1> USE DEF Hand, Safe, TypeInv, dbVars, queueVars
  <1>1. /\ webhooks \subseteq webhooks'
        /\ UNCHANGED <<ingested, excluded, primary, txJob, run, tx, feed>>
    BY DEF PollStep, PollFetch, PollCreate, PollEnqueue, PollCancel, ExpireStep, ExpireScan,
           ExpireLoad, ExpireSave, ExpireNotify, vars
  <1>2. poll.pc = "enqueue" => poll.r \in Requests
    BY DEF ServicesTyped
  <1>3. \A q \in Requests : status'[q] = "ambiguous" => status[q] = "ambiguous"
    <2>1. CASE PollCreate
      BY <2>1 DEF PollCreate, Oldest, RowsTyped, ServicesTyped, PollStates
    <2>2. CASE PollCancel
      BY <2>2 DEF PollCancel
    <2>3. CASE ExpireSave
      BY <2>3 DEF ExpireSave, RowsTyped
    <2>4. status' = status \/ PollCreate \/ PollCancel \/ ExpireSave
      BY DEF PollStep, PollFetch, PollEnqueue, ExpireStep, ExpireScan, ExpireLoad, ExpireNotify, vars
    <2> QED BY <2>1, <2>2, <2>3, <2>4
  <1>4. PairsInHand'
    BY <1>1, PairsStayInHand
  <1>5. PaymentsInHand'
    <2>1. \A t : RunHas(t)' <=> RunHas(t)
      BY <1>1 DEF RunHas, RunClaims
    <2> QED BY <1>1, <2>1, PaymentsStayInHand DEF FeedHolds
  <1>6. LockedIsOpen'
    BY <1>1, <1>3, LockedKept
  <1>7. TxJobsHeld'
    BY <1>1 DEF TxJobsHeld
  <1>8. RunJobsHeld'
    <2>1. \A w \in RunWorkers : run[w].pc # "idle" => run[w].r \in Requests
      BY DEF RunsTyped, RunOK
    <2>2. CASE PollEnqueue
      <3>1. \A r \in Requests : runJob[r] > 0 => runJob'[r] > 0
        BY <2>2, ConstantsAssumption DEF PollEnqueue, QueuesTyped
      <3> QED BY <1>1, <2>1, <3>1 DEF RunJobsHeld
    <2>3. CASE runJob' = runJob
      BY <1>1, <2>3 DEF RunJobsHeld
    <2>4. runJob' = runJob \/ PollEnqueue
      BY DEF PollStep, PollFetch, PollCreate, PollCancel, ExpireStep, ExpireScan, ExpireLoad,
             ExpireSave, ExpireNotify, vars
    <2> QED BY <2>2, <2>3, <2>4
  <1>9. AmbiguousHasNoJob'
    <2>1. CASE PollCreate
      <3>1. PICK r \in Requests :
              /\ runJob' = runJob
              /\ \/ /\ status[r] = "absent" /\ status' = [status EXCEPT ![r] = "pending"]
                    /\ poll'.r = r
                 \/ status' = status /\ poll'.pc = "create"
        BY <2>1 DEF PollCreate, Oldest, ServicesTyped, PollStates
      <3>2. status[r] = "absent" => runJob[r] = 0
        BY DEF Created, QueuesTyped
      <3>3. poll'.pc = "enqueue" => runJob'[poll'.r] = 0 /\ status'[poll'.r] # "ambiguous"
        BY <3>1, <3>2 DEF RowsTyped
      <3> QED BY <1>1, <1>3, <3>1, <3>3 DEF AmbiguousHasNoJob
    <2>2. CASE PollEnqueue
      <3>1. /\ status' = status /\ poll'.pc = "create" /\ status[poll.r] # "ambiguous"
            /\ \A r \in Requests : r # poll.r => runJob'[r] = runJob[r]
        BY <1>2, <2>2 DEF PollEnqueue, AmbiguousHasNoJob, QueuesTyped, ServicesTyped, PollStates
      <3> QED BY <1>1, <3>1 DEF AmbiguousHasNoJob
    <2>3. ASSUME runJob' = runJob, poll'.pc = "enqueue" => poll' = poll
          PROVE  AmbiguousHasNoJob'
      BY <1>1, <1>2, <1>3, <2>3, AmbiguousKept
    <2>4. CASE PollCancel \/ \E orders \in SUBSET Requests : PollFetch(orders)
      <3>1. runJob' = runJob /\ poll'.pc # "enqueue"
        BY <2>4 DEF PollFetch, PollCancel, PollIdle
      <3> QED BY <2>3, <3>1
    <2>5. CASE ExpireStep \/ (\E r \in Requests : ExpireScan(r)) \/ UNCHANGED vars
      <3>1. runJob' = runJob /\ poll' = poll
        BY <2>5 DEF ExpireStep, ExpireScan, ExpireLoad, ExpireSave, ExpireNotify, vars
      <3> QED BY <2>3, <3>1
    <2> QED BY <2>1, <2>2, <2>4, <2>5 DEF PollStep
  <1> QED BY <1>4, <1>5, <1>6, <1>7, <1>8, <1>9

(* A fault is counted, and the count never goes back. *)
LEMMA FaultsCount ==
  ASSUME Safe, [Next]_vars
  PROVE  faults \in Nat /\ (faults' = faults \/ (Fault /\ faults' = faults + 1))
  <1> USE DEF dbVars, queueVars
  <1>0. faults \in Nat
    BY ConstantsAssumption DEF Safe, TypeInv, RowsTyped
  <1>1. ASSUME NEW w \in RunWorkers, RunStep(w) \/ \E r \in Requests : RunSkip(w, r) \/ RunLock(w, r)
        PROVE  faults' = faults
    BY <1>1
    DEF RunStep, RunSkip, RunLock, RunFindsOne, RunFindsNoOne, RunInsert, RunLoses, RunExclude,
        RunCommitsPair, RunCommitsMiss, RunCompletes, RunAttemptTaken, RunPublish
  <1>2. ASSUME NEW v \in TxWorkers, TxStep(v) \/ \E t \in Txs : TxLock(v, t) \/ TxSkip(v, t)
        PROVE  faults' = faults
    BY <1>2
    DEF TxStep, TxLock, TxSkip, TxFindsWinner, TxFindsNone, TxDrop, TxInsert, TxCommit, TxPublish
  <1>3. ASSUME \/ FeedStep \/ \E t \in Txs : FeedSave(t)
               \/ PollStep \/ \E orders \in SUBSET Requests : PollFetch(orders)
               \/ ExpireStep \/ \E r \in Requests : ExpireScan(r)
               \/ \E w \in RunWorkers, v \in TxWorkers : DeadlockAborts(w, v)
               \/ UNCHANGED vars
        PROVE  faults' = faults
    BY <1>3
    DEF FeedStep, FeedSave, FeedCheck, FeedEnqueue, FeedExclude, PollStep, PollFetch, PollCreate,
        PollEnqueue, PollCancel, ExpireStep, ExpireScan, ExpireLoad, ExpireSave, ExpireNotify,
        DeadlockAborts, vars
  <1>4. Fault => faults' = faults + 1
    BY DEF Fault, RunPublishFails, TxPublishFails, FeedEnqueueFails, PollEnqueueFails,
           ExpireNotifyFails, ManualRun, Crash
  <1> QED BY <1>0, <1>1, <1>2, <1>3, <1>4 DEF Next

(* Every step of a behaviour without faults. *)
LEMMA HandStep ==
  Safe /\ Safe' /\ Numbered /\ (faults = 0 => Hand) /\ [Next]_vars => (faults = 0 => Hand)'
  <1> SUFFICES ASSUME Safe, Safe', Numbered, faults = 0 => Hand, [Next]_vars, faults' = 0
               PROVE  Hand'
    OBVIOUS
  <1>1. faults = 0 /\ ~Fault
    <2>1. faults + 1 # 0 /\ (Fault => faults' = faults + 1)
      BY FaultsCount DEF Fault, RunPublishFails, TxPublishFails, FeedEnqueueFails,
         PollEnqueueFails, ExpireNotifyFails, ManualRun, Crash
    <2> QED BY <2>1, FaultsCount
  <1>2. Hand
    BY <1>1
  <1> QED
    BY <1>1, <1>2, RunStepInHand, RunBeginsInHand, TxStepInHand, TxBeginsInHand, AbortInHand,
       FeedInHand, ServicesInHand DEF Next

(* Neither direction of matching forgets a pair it committed before the    *)
(* webhook job is queued, and no saved payment is left on the market       *)
(* without anybody to look for its order, as long as the queue takes every *)
(* job and the process lives: whatever the two use cases, the ingestion    *)
(* and the database do to each other.                                      *)
THEOREM NothingIsForgotten == Spec => []NothingForgotten
  <1>1. Init => (faults = 0 => Hand)
    BY DEF Init, Hand, RunJobsHeld, TxJobsHeld, AmbiguousHasNoJob, LockedIsOpen, PairsInHand,
           PaymentsInHand, RunIdle, TxIdle, PollIdle
  <1>2. (faults = 0 => Hand) => NothingForgotten
    BY DEF Hand, NothingForgotten
  <1> QED BY <1>1, <1>2, AlwaysSafe, AlwaysNumbered, HandStep, PTL DEF Spec

-----------------------------------------------------------------------------
(* The engine. *)

(* Payments are rows of a table: their ids tell them apart. *)
IdsDiffer == \A p, q \in Payments : p.id = q.id => p = q

(* The words that tokenize takes from a name are finitely many. *)
LEMMA TokensFinite ==
  ASSUME NEW name \in Seq(Chars)
  PROVE  IsFiniteSet(Tokens(name))
  <1> DEFINE n == Len(name)
             Bound(i) == i \in {0, n + 1} \/ name[i] = Space
             ends == {e \in (1..n) \X (1..n) :
                        /\ e[1] < e[2] /\ Bound(e[1] - 1) /\ Bound(e[2] + 1)
                        /\ \A i \in e[1]..e[2] : name[i] # Space}
             words == {SubSeq(name, e[1], e[2]) : e \in ends}
             f == [e \in ends |-> SubSeq(name, e[1], e[2])]
  <1>1. Tokens(name) = words
    BY DEF Tokens
  <1>2. n \in Nat
    OBVIOUS
  <1>3. IsFiniteSet(1..n)
    BY <1>2, FS_Interval
  <1>4. IsFiniteSet((1..n) \X (1..n))
    BY <1>3, FS_Product
  <1>5. ends \in SUBSET ((1..n) \X (1..n))
    OBVIOUS
  <1>6. IsFiniteSet(ends)
    BY <1>4, <1>5, FS_Subset
  <1>7. f \in Surjection(ends, words)
    <2> HIDE DEF ends
    <2> QED BY DEF Surjection
  <1> QED BY <1>1, <1>6, <1>7, FS_Surjection

(* jaccardScore is a proportion: never negative, never above one. *)
LEMMA JaccardRange ==
  ASSUME NEW a, NEW b, IsFiniteSet(a), IsFiniteSet(b)
  PROVE  Jaccard(a, b) \in 0..60
  <1>1. CASE a = {} \/ b = {}
    BY <1>1 DEF Jaccard
  <1>2. CASE a # {} /\ b # {}
    <2> DEFINE i == Cardinality(a \cap b)
               u == Cardinality(a \cup b)
    <2>1. IsFiniteSet(a \cup b)
      BY FS_Union
    <2>2. IsFiniteSet(a \cap b) /\ i <= u
      BY <2>1, FS_Subset, a \cap b \in SUBSET (a \cup b)
    <2>3. i \in Nat /\ u \in Nat /\ u # 0
      BY <1>2, <2>1, <2>2, FS_CardinalityType, FS_EmptySet
    <2>4. Jaccard(a, b) = (60 * i) \div u
      BY <1>2 DEF Jaccard
    <2> HIDE DEF i, u
    <2>5. (60 * i) \div u \in Nat /\ u * ((60 * i) \div u) <= 60 * i
      BY <2>3
    <2>6. (60 * i) \div u <= 60
      <3> DEFINE q == (60 * i) \div u
      <3>1. SUFFICES ASSUME q >= 61 PROVE FALSE
        BY <2>5
      <3>2. u * q >= u * 61
        BY <2>3, <2>5, <3>1
      <3> QED BY <2>2, <2>3, <2>5, <3>2
    <2> QED BY <2>4, <2>5, <2>6
  <1> QED BY <1>1, <1>2

(* So is every score of applyFuzzySenderHeuristic. *)
LEMMA ScoreRange ==
  ASSUME NEW o \in Orders, NEW p \in Payments
  PROVE  Score(o, p) \in 0..60
  <1> DEFINE x == Normal[o.senderName]
             y == Normal[p.senderName]
  <1>1. x \in Seq(Chars) /\ y \in Seq(Chars)
    BY EngineAssumption
  <1>2. Jaccard(Tokens(x), Tokens(y)) \in 0..60
    BY <1>1, TokensFinite, JaccardRange
  <1>3. Substring(x, y) \in 0..60
    BY DEF Substring
  <1> QED BY <1>2, <1>3 DEF Score, NameScore

(* After the sort the first payment has the highest score. *)
LEMMA TopIsBest ==
  ASSUME NEW o \in Orders, NEW ps \in SUBSET Payments, ps # {}
  PROVE  /\ Top(o, ps) \in ps
         /\ \A q \in ps : Score(o, q) <= Score(o, Top(o, ps))
  <1> DEFINE gaps == {60 - Score(o, p) : p \in ps}
  <1>1. \A p \in ps : Score(o, p) \in 0..60
    BY ScoreRange
  <1>2. gaps \subseteq Nat /\ gaps # {}
    BY <1>1
  <1>3. PICK g \in gaps : \A h \in gaps : ~(<<h, g>> \in OpToRel(<, Nat))
    BY <1>2, NatLessThanWellFounded, WFMin
  <1>4. \A h \in gaps : ~(h < g)
    BY <1>2, <1>3 DEF OpToRel
  <1>5. PICK p \in ps : g = 60 - Score(o, p)
    OBVIOUS
  <1>6. ASSUME NEW q \in ps PROVE Score(o, q) <= Score(o, p)
    <2>1. 60 - Score(o, q) \in gaps
      OBVIOUS
    <2>2. ~(60 - Score(o, q) < 60 - Score(o, p))
      BY <1>4, <1>5, <2>1
    <2> QED BY <1>1, <2>2
  <1> QED BY <1>6 DEF Top

(* The verdict on any set of payments, in terms of those that pass the     *)
(* rules and score above zero.                                             *)
LEMMA VerdictFromScores ==
  ASSUME NEW o \in Orders, NEW ps \in SUBSET Payments
  PROVE  LET some == WithScore(o, Filtered(o, ps))
             verdict == Evaluate(o, ps)
         IN /\ verdict.status = "not_found" <=> some = {}
            /\ verdict.status = "matched" <=> \E p \in some : some = {p}
            /\ \A p \in some : some = {p} => verdict.transactionId = p.id
            /\ verdict.status = "ambiguous" => verdict.candidateIds = Ids(some)
  <1> DEFINE filtered == Filtered(o, ps)
             some == WithScore(o, filtered)
             top == Top(o, filtered)
  <1>1. filtered \in SUBSET Payments /\ some \subseteq filtered
    BY DEF Filtered, WithScore
  <1>2. \A p \in filtered : Score(o, p) \in 0..60 /\ (p \in some <=> Score(o, p) # 0)
    BY <1>1, ScoreRange DEF WithScore
  <1>3. CASE filtered = {}
    BY <1>1, <1>3 DEF Evaluate, NotFound, Verdict
  <1>4. CASE filtered # {}
    <2>1. top \in filtered /\ \A q \in filtered : Score(o, q) <= Score(o, top)
      BY <1>1, <1>4, TopIsBest
    <2>2. Score(o, top) = 0 <=> some = {}
      BY <1>1, <1>2, <2>1
    <2>3. Score(o, top) # 0 => top \in some
      BY <1>2, <2>1
    <2> HIDE DEF filtered, some, top
    <2>4. Evaluate(o, ps) =
            IF filtered = {} \/ Score(o, top) = 0 THEN NotFound
            ELSE IF \E p, q \in some : p # q THEN Verdict("ambiguous", NoTransaction, Ids(some))
            ELSE Verdict("matched", top.id, Ids(filtered))
      BY DEF Evaluate, filtered, some, top
    <2> QED
      BY <1>4, <2>2, <2>3, <2>4 DEF NotFound, Verdict, some, filtered
  <1> QED BY <1>3, <1>4

(* Which payments fit is asked of the engine one payment at a time, and    *)
(* its answers are those it uses on the whole set.                         *)
LEMMA FittingIsScoring ==
  ASSUME request \in Orders, candidates \in SUBSET Payments
  PROVE  Fitting = WithScore(request, Filtered(request, candidates))
  <1> SUFFICES ASSUME NEW p \in candidates
               PROVE  Evaluate(request, {p}).status = "matched"
                        <=> p \in WithScore(request, Filtered(request, candidates))
    BY DEF Fitting, WithScore, Filtered
  <1>1. WithScore(request, Filtered(request, {p}))
          = {p} \cap WithScore(request, Filtered(request, candidates))
    BY DEF WithScore, Filtered
  <1>2. {p} \in SUBSET Payments
    OBVIOUS
  <1> DEFINE some == WithScore(request, Filtered(request, {p}))
  <1>3. Evaluate(request, {p}).status = "matched" <=> \E q \in some : some = {q}
    BY <1>2, VerdictFromScores
  <1> HIDE DEF some
  <1>4. some \subseteq {p}
    BY <1>1 DEF some
  <1> QED BY <1>1, <1>3, <1>4 DEF some

(* Offering payments adds nothing but payments. *)
LEMMA OffersTyped == EngineSpec => [](request \in Orders /\ candidates \in SUBSET Payments)
  <1> DEFINE Typed == request \in Orders /\ candidates \in SUBSET Payments
  <1>1. EngineInit => Typed
    BY DEF EngineInit
  <1>2. Typed /\ [EngineNext]_engineVars => Typed'
    BY DEF EngineNext, Offer, engineVars
  <1> QED BY <1>1, <1>2, PTL DEF EngineSpec

(* FittingDecides for every table of payments with distinct ids: what      *)
(* lets Conciliation reduce the engine to the relation Fits.               *)
THEOREM EngineDecidesByFit == IdsDiffer /\ EngineSpec => []FittingDecides
  <1>1. ASSUME IdsDiffer, request \in Orders, candidates \in SUBSET Payments
        PROVE  FittingDecides
    <2> DEFINE verdict == Evaluate(request, candidates)
    <2>1. /\ verdict.status = "not_found" <=> Fitting = {}
          /\ verdict.status = "matched" <=> \E p \in Fitting : Fitting = {p}
          /\ \A p \in Fitting : Fitting = {p} => verdict.transactionId = p.id
          /\ verdict.status = "ambiguous" => verdict.candidateIds = Ids(Fitting)
      BY <1>1, FittingIsScoring, VerdictFromScores
    <2>2. Fitting \subseteq candidates
      BY DEF Fitting
    <2> QED BY <1>1, <2>1, <2>2 DEF FittingDecides, IdsDiffer
  <1>2. IdsDiffer /\ request \in Orders /\ candidates \in SUBSET Payments => FittingDecides
    BY <1>1
  <1>3. ASSUME IdsDiffer PROVE EngineSpec => []FittingDecides
    BY <1>2, <1>3, OffersTyped, PTL
  <1> QED BY <1>3

(* applyFuzzySenderHeuristic does not care which of the two names is the   *)
(* order's.                                                                *)
THEOREM NamesCompareAlike == EngineSpec => []ScoreSymmetric
  <1>1. ScoreSymmetric
    <2>1. ASSUME NEW x, NEW y PROVE NameScore(x, y) = NameScore(y, x)
      <3>1. Tokens(x) \cap Tokens(y) = Tokens(y) \cap Tokens(x)
        OBVIOUS
      <3>2. Tokens(x) \cup Tokens(y) = Tokens(y) \cup Tokens(x)
        OBVIOUS
      <3>3. Jaccard(Tokens(x), Tokens(y)) = Jaccard(Tokens(y), Tokens(x))
        BY <3>1, <3>2 DEF Jaccard
      <3>4. Substring(x, y) = Substring(y, x)
        BY DEF Substring
      <3> QED BY <3>3, <3>4 DEF NameScore
    <2> QED BY <2>1 DEF ScoreSymmetric, Score
  <1> QED BY <1>1, PTL

=============================================================================

------------------------------ MODULE PollLoop ------------------------------
(***************************************************************************)
(* The monitor loop of a persistent session (runMonitor) around the poll   *)
(* of Banco Pichincha (scripts/bancopichincha, versions 1.0.0 to 1.0.2)    *)
(* and the ingestion of what is fresh.  A poll re-opens the movements,     *)
(* scrolls page after page until it passes today, and opens the details by *)
(* row.  Payments arrive meanwhile, pages come late, the day changes, the  *)
(* session is lost or a write fails at any step, and a login that waits    *)
(* for a code, a stage's row or an ingestion may take as long as it likes. *)
(* A movement is [id, day, incoming, numbered, hasDetail]: numbered is     *)
(* whether the bank gave it a transactionId; a row of db is [id, sender].  *)
(***************************************************************************)
EXTENDS Bank

CONSTANTS
    LastDay,    \* bound: the last day the run looks at
    PageSize,   \* movements in one answer of /transactions
    MaxPages,   \* the cap MAX_PAGES of the infinite scroll
    Scripts,    \* versions of the script
    MaxFaults   \* bound: failures, losses and late pages in one behaviour

ASSUME PagesArePositive == /\ PageSize \in Nat \ {0}
                           /\ MaxPages \in Nat \ {0}
                           /\ MaxFaults \in Nat

VARIABLES
    day,      \* the bank's day
    monitor,  \* runMonitor: step, script, seen ids, current day
    poll,     \* the poll in hand: tries, pages captured and merged, batch
    faults

vars == <<posted, day, monitor, poll, db, faults>>

(* v1.0.0 gives up when the movements do not open; later ones reload once. *)
Script100 == [attempts |-> 1]
Script101 == [attempts |-> 2]
Script102 == Script101

(* The page at an offset of the list as it is now.                         *)
PageAt(i) ==
    SubSeq(Listing(posted), i * PageSize + 1,
           IF (i + 1) * PageSize < posted THEN (i + 1) * PageSize ELSE posted)

(* mergeCapturedTransactions: in order of capture, each transactionId once; *)
(* what has none is merged again with every page that shows it.            *)
MergeCaptured(merged, page) ==
    merged \o Only(page, ToSet(page) \ {m \in ToSet(merged) : m.numbered})

Merged == poll.merged
(* Mutation: a movement of today is taken for an older one. *)
PassedTodayEarly == \E m \in ToSet(Merged) : m.day <= poll.today
PassedToday == \E m \in ToSet(Merged) : m.day < poll.today
NoGrowth == poll.scrolls > 0 /\ Len(Merged) = poll.lastCount

(* What poll() hands over: skip_no_transactionId leaves the others out.    *)
HandedOver == Only(Merged, {m \in ToSet(Merged) : m.day = poll.today /\ m.incoming /\ m.numbered})

NoPoll == [tries |-> 0, pages |-> 0, merged |-> <<>>, scrolls |-> 0, lastCount |-> -1, today |-> 0,
           entered |-> 0, ended |-> "none", batch |-> <<>>]

Down == [step |-> "down", script |-> Script102, seen |-> {}, day |-> 0]

Init ==
    /\ posted = 0
    /\ day = 0
    /\ monitor = Down
    /\ poll = NoPoll
    /\ db = {}
    /\ faults = 0

At(step) == monitor.step = step
Goto(step) == monitor' = [monitor EXCEPT !.step = step]
Fault == faults < MaxFaults /\ faults' = faults + 1

(* The monitor returns or throws, whatever the reason: its memory is gone  *)
(* and its last row and its browser are closed.                            *)
SessionEnds == monitor' = [Down EXCEPT !.step = "ending"] /\ poll' = NoPoll

SessionEnded ==
    /\ At("ending")
    /\ monitor' = Down
    /\ UNCHANGED <<posted, day, poll, db, faults>>

(* startFn reads the last external id before the session logs in.          *)
Launch ==
    /\ At("down")
    /\ \E s \in Scripts, last \in SUBSET {t.id : t \in db} :
        /\ last = {} <=> db = {}
        /\ \A a, b \in last : a = b
        /\ monitor' = [step |-> "login", script |-> s, seen |-> last, day |-> day]
    /\ UNCHANGED <<posted, day, poll, db, faults>>

(* hooks.login: no limit is set on it, and the code it may wait for has    *)
(* none either (forSession); a page that fails rejects it.                 *)
Login ==
    /\ At("login")
    /\ \/ Goto("wait") /\ UNCHANGED <<poll, faults>>
       \/ SessionEnds /\ Fault
    /\ UNCHANGED <<posted, day, db>>

(* auth_wait: isAuthenticated until it says yes or authTimeoutMs is over; a *)
(* fatal throw ends the session too.  The bank's day is read after it.     *)
Authenticate ==
    /\ At("wait")
    /\ \/ monitor' = [monitor EXCEPT !.step = "top", !.day = day] /\ UNCHANGED <<poll, faults>>
       \/ SessionEnds /\ Fault
    /\ UNCHANGED <<posted, day, db>>

(* Stop flag and deadline, then the day's rollover.                        *)
LoopTop ==
    /\ At("top")
    /\ \/ SessionEnds /\ Fault
       \/ /\ monitor' = [monitor EXCEPT !.step = "auth", !.day = day,
                             !.seen = IF day = monitor.day THEN @ ELSE {}]
          /\ UNCHANGED <<poll, faults>>
    /\ UNCHANGED <<posted, day, db>>

(* isAuthenticated: logged_out, a hang (watchdog_timeout) and a fatal throw *)
(* all end the session.                                                    *)
CheckSession ==
    /\ At("auth")
    /\ \/ SessionEnds /\ Fault
       \/ /\ Goto("open")
          /\ poll' = [NoPoll EXCEPT !.tries = 1]
          /\ UNCHANGED faults
    /\ UNCHANGED <<posted, day, db>>

(* goToMovementsFresh and waitForAnyTransactions: the first page, or a     *)
(* wedged page that is reloaded while the script has attempts left.        *)
OpenMovements ==
    /\ At("open")
    /\ \/ /\ poll' = [poll EXCEPT !.pages = 1, !.merged = PageAt(0), !.entered = posted, !.today = day]
          /\ Goto("pages")
          /\ UNCHANGED faults
       \/ /\ poll.tries < monitor.script.attempts
          /\ poll' = [poll EXCEPT !.tries = @ + 1]
          /\ Fault
          /\ UNCHANGED monitor
       \/ /\ poll.tries = monitor.script.attempts
          /\ Goto("fresh")
          /\ Fault
          /\ UNCHANGED poll
    /\ UNCHANGED <<posted, day, db>>

(* loadAllTodayPages, one turn: stop, or scroll and get the next page, or  *)
(* get nothing in time.                                                    *)
EndPages(reason) ==
    /\ poll' = [poll EXCEPT !.ended = reason]
    /\ Goto("build")
    /\ UNCHANGED faults

LoadPages ==
    /\ At("pages")
    /\ IF PassedToday THEN EndPages("passed_today")
       ELSE IF NoGrowth THEN EndPages("no_growth")
       ELSE IF poll.scrolls = MaxPages THEN EndPages("cap")
       ELSE /\ \E arrives \in BOOLEAN :
                 /\ poll' = [poll EXCEPT !.scrolls = @ + 1, !.lastCount = Len(Merged),
                        !.pages = IF arrives THEN @ + 1 ELSE @,
                        !.merged = IF arrives THEN MergeCaptured(@, PageAt(poll.pages)) ELSE @]
                 /\ IF arrives THEN UNCHANGED faults ELSE Fault
            /\ UNCHANGED monitor
    /\ UNCHANGED <<posted, day, db>>

(* fetchDetail: the row in the movement's position of the table now shown  *)
(* is clicked; a detail counts only when it is that movement's, otherwise  *)
(* the wait runs out.                                                      *)
FetchDetail(m, clickable) ==
    LET row == CHOOSE i \in DOMAIN Merged : Merged[i] = m
    IN  IF m.hasDetail /\ row \in clickable /\ row <= posted /\ Listing(posted)[row].id = m.id
        THEN Listing(posted)[row].id ELSE "description"

(* The end of poll(): one transaction for each movement it hands over.     *)
BuildBatch ==
    /\ At("build")
    /\ \E clickable \in {{}, DOMAIN Merged} :
        poll' = [poll EXCEPT !.batch =
            [i \in DOMAIN HandedOver |->
                [id |-> HandedOver[i].id, sender |-> FetchDetail(HandedOver[i], clickable)]]]
    /\ Goto("fresh")
    /\ UNCHANGED <<posted, day, db, faults>>

(* poll() throws (its failure is noted and the loop goes on) or hangs (the *)
(* watchdog ends it).                                                      *)
PollFails ==
    /\ monitor.step \in {"open", "pages", "build"}
    /\ Fault
    /\ \/ Goto("failed") /\ poll' = NoPoll
       \/ SessionEnds
    /\ UNCHANGED <<posted, day, db>>

(* The row of the first failure is awaited without a limit.                *)
NoteFailure ==
    /\ At("failed")
    /\ Goto("keep")
    /\ UNCHANGED <<posted, day, poll, db, faults>>

(* keepAlive dismisses the bank's timeout modal and moves the mouse; its   *)
(* errors do not matter, a hang does.                                      *)
KeepAlive ==
    /\ At("keep")
    /\ \/ Goto("sleep") /\ UNCHANGED <<poll, faults>>
       \/ SessionEnds /\ Fault
    /\ UNCHANGED <<posted, day, db>>

(* The fresh ones are marked as seen and handed over; nothing fresh means  *)
(* keepAlive instead.                                                      *)
TakeFresh ==
    /\ At("fresh")
    /\ LET fresh == Only(poll.batch, {t \in ToSet(poll.batch) : t.id \notin monitor.seen})
       IN  IF fresh = <<>>
           THEN Goto("keep") /\ poll' = NoPoll
           ELSE /\ monitor' = [monitor EXCEPT !.step = "ingest",
                                   !.seen = @ \cup {t.id : t \in ToSet(fresh)}]
                /\ poll' = [poll EXCEPT !.batch = fresh]
    /\ UNCHANGED <<posted, day, db, faults>>

(* IngestTransactionsUseCase: look up, insert, publish, next.              *)
IngestNext ==
    /\ At("ingest") /\ poll.batch # <<>>
    /\ LET t == Head(poll.batch)
       IN  db' = IF \E u \in db : u.id = t.id THEN db ELSE db \cup {t}
    /\ poll' = [poll EXCEPT !.batch = Tail(@)]
    /\ UNCHANGED <<posted, day, monitor, faults>>

(* Mutation: a batch that was not stored does not end the session. *)
IngestFailsQuietly ==
    /\ At("ingest") /\ poll.batch # <<>>
    /\ Goto("sleep") /\ poll' = NoPoll /\ Fault
    /\ UNCHANGED <<posted, day, db>>

(* A rejected write or publication rejects onTransactions and the monitor. *)
IngestFails ==
    /\ At("ingest") /\ poll.batch # <<>>
    /\ SessionEnds /\ Fault
    /\ UNCHANGED <<posted, day, db>>

IngestDone ==
    /\ At("ingest") /\ poll.batch = <<>>
    /\ Goto("sleep") /\ poll' = NoPoll
    /\ UNCHANGED <<posted, day, db, faults>>

Sleep ==
    /\ At("sleep")
    /\ Goto("top")
    /\ UNCHANGED <<posted, day, poll, db, faults>>

MovementArrives ==
    /\ posted < Len(Feed) /\ Feed[posted + 1].day = day
    /\ posted' = posted + 1
    /\ UNCHANGED <<day, monitor, poll, db, faults>>

Midnight ==
    /\ day < LastDay
    /\ posted < Len(Feed) => Feed[posted + 1].day > day
    /\ day' = day + 1
    /\ UNCHANGED <<posted, monitor, poll, db, faults>>

(* What a time limit or the loop itself brings about.                      *)
Limited == LoopTop \/ CheckSession \/ OpenMovements \/ LoadPages \/ BuildBatch \/ KeepAlive \/ Sleep

(* What nothing hurries: a launch, a login, an ingestion, and the awaits of *)
(* the recorder's rows between them.                                       *)
Unlimited == Launch \/ Login \/ Authenticate \/ TakeFresh \/ NoteFailure
             \/ IngestNext \/ IngestDone \/ SessionEnded

Next == Limited \/ Unlimited \/ PollFails \/ IngestFails \/ MovementArrives \/ Midnight

Spec == Init /\ [][Next]_vars /\ WF_vars(Limited)

-----------------------------------------------------------------------------
Saved == {t.id : t \in db}

(* runMonitor marks a batch as seen before it is ingested.  Outside the    *)
(* ingestion everything seen is in the database: a failed ingestion must   *)
(* end the session, or its payments would not be offered again that day.   *)
SeenIsSaved ==
    \A id \in monitor.seen :
        id \in Saved \/ (At("ingest") /\ \E t \in ToSet(poll.batch) : t.id = id)

(* A poll that stopped scrolling because it passed today has every payment *)
(* of today that the bank had when the movements were opened and gave a    *)
(* transactionId, although the list moves under the pages while they are   *)
(* loaded and grows by what has none.                                      *)
PassedMeansAll ==
    (At("fresh") /\ poll.ended = "passed_today") =>
        \A j \in 1 .. poll.entered :
            (Feed[j].incoming /\ Feed[j].numbered /\ Feed[j].day = poll.today)
                => \E t \in ToSet(poll.batch) : t.id = Feed[j].id

(* The session stays for ever in a call that nothing limits.               *)
Waits == \E step \in {"down", "login", "wait", "fresh", "failed", "ingest", "ending"} : <>[]At(step)

(* MAX_PAGES: so many movements came after it that no poll scrolls to it.  *)
BeyondCap(j) == posted - j >= (MaxPages + 1) * PageSize

(* While the account's sessions get on, a payment is registered in the end *)
(* or its day is over (a poll only looks at today) or too many movements   *)
(* came after it.  Failures, lost sessions and polls cut short only delay  *)
(* it: nothing else keeps a payment from being offered again.              *)
PaymentsReach ==
    Waits \/ \A j \in 1 .. Len(Feed) :
        (posted >= j /\ Feed[j].incoming /\ Feed[j].numbered)
            ~> (Feed[j].id \in Saved \/ day > Feed[j].day \/ BeyondCap(j))

=============================================================================

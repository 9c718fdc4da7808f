------------------------------ MODULE MiDinero ------------------------------
(***************************************************************************)
(* The one-shot scrape of Mi Dinero: scripts/mi-dinero/extract_transac-    *)
(* tions.v2.0.*.js run by a job, and IngestTransactionsUseCase on what it  *)
(* returns.  The script logs in, selects the EMPRESAS card, keeps the best *)
(* getMovements answer, and opens the detail of each payment by its        *)
(* position in the table.  Meanwhile payments go on arriving, answers come *)
(* late or belong to the personal account, and any step may fail.          *)
(*                                                                         *)
(* A movement is a record; minutes stand for its time and for the delay    *)
(* after which its detail is dated.  The list and the table are newest     *)
(* first.  DOM probing (points, rectangles, snapshots) is a click that     *)
(* selects the card or does not.                                           *)
(***************************************************************************)
EXTENDS Bank

CONSTANTS
    Personal,      \* what the personal account lists, newest first
    Versions,      \* the script versions an operator may have made active
    MaxClicks,     \* clicks on the card before the selection is given up (3)
    MaxAccountSelectionAttempts, \* rounds of select and Ingresos (3)
    MaxResponses,  \* bound: getMovements answers captured in one round
    None           \* no transaction in the database yet

(* Minutes are whole; a reference is of one payment; today's came last.    *)
ASSUME PaymentsAreDated ==
    /\ Personal \in Seq(ToSet(Personal))
    /\ \A m \in ToSet(Feed) \cup ToSet(Personal) : m.minute \in Int /\ m.delay \in Int
    /\ \A j, k \in DOMAIN Feed : j < k /\ Feed[j].today => Feed[k].today
ASSUME ReferencesAreUnique ==
    /\ \A j, k \in DOMAIN Feed : Feed[j].id = Feed[k].id => j = k
    /\ \A j \in DOMAIN Feed : Feed[j].id # None /\ Feed[j] \notin ToSet(Personal)
ASSUME BoundsArePositive == /\ MaxClicks \in Nat \ {0}
                            /\ MaxAccountSelectionAttempts \in Nat \ {0}
                            /\ MaxResponses \in Nat

VARIABLES
    page,     \* the browser: selected card, clicks, captured answers; and, as
              \* history, whether the account stayed as it was since Ingresos
    script,   \* the running script: step, version, what it has read and built
    given     \* history: payments a scrape gave up (skipped, cut by a failure,
              \* hidden by a mix); nothing of the program

scrapeVars == <<posted, page, script, db, given>>

(* What tells the versions apart: validateDetailMatchesMovement's tolerance *)
(* in minutes, whether exchanges (RECIBISTE) are left out, whether a bad    *)
(* detail is skipped, whether a failure returns what was built.             *)
Script200 == [tolerance |-> 5, dropsExchange |-> FALSE,
              skipsMismatch |-> FALSE, keepsPartial |-> FALSE]
Script201 == [Script200 EXCEPT !.dropsExchange = TRUE]
Script202 == [tolerance |-> 30, dropsExchange |-> TRUE,
              skipsMismatch |-> TRUE, keepsPartial |-> TRUE]

ASSUME VersionsAreKnown == Versions \subseteq {Script200, Script201, Script202}

(* normalised rows of the table: incoming ones carry a "+" and an icon.    *)
GetIncomingRows(table) == Only(table, {m \in ToSet(table) : m.kind = "in"})

TodayMovements(list) == Only(list, {m \in ToSet(list) : m.today})

IncomingMovements(list, v) ==
    Only(TodayMovements(list),
         {m \in ToSet(list) : m.kind = "in" \/ (m.kind = "exchange" /\ ~v.dropsExchange)})

(* reduce: the longest list, and the later of equally long ones.           *)
BestCandidate(candidates) ==
    CHOOSE i \in DOMAIN candidates :
        \A j \in DOMAIN candidates :
            \/ Len(candidates[j]) < Len(candidates[i])
            \/ Len(candidates[j]) = Len(candidates[i]) /\ j <= i

(* validateDetailMatchesMovement; a detail without a reference is one dated *)
(* out of reach.                                                           *)
DetailMatches(m, shown, v) ==
    LET delta == (shown.minute + shown.delay) - m.minute
    IN  delta <= v.tolerance /\ -delta <= v.tolerance

(* findLatestExternalId: ORDER BY received_at DESC LIMIT 1, ties anyhow.   *)
IsLatest(ref) ==
    IF db = {} THEN ref = None
    ELSE \E t \in db : t.ref = ref /\ \A u \in db : u.movement.minute <= t.movement.minute

ClosedPage == [selected |-> FALSE, clicks |-> 0, responses |-> <<>>, since |-> 0,
               steady |-> TRUE]
Idle == [step |-> "idle", version |-> Script202, last |-> None, attempt |-> 1,
         movements |-> <<>>, rows |-> <<>>, at |-> 1, built |-> <<>>]

ScrapeInit ==
    /\ posted = 0
    /\ page = ClosedPage
    /\ script = Idle
    /\ db = {}
    /\ given = {}

Proceed(step) == script' = [script EXCEPT !.step = step]

(* The script ends here: with an error, with nothing, or ingested.         *)
Stop == script' = Idle /\ page' = ClosedPage

(* RunBankScrapeUseCase's one-shot branch: last id, active script, run it. *)
StartScrape ==
    /\ script.step = "idle"
    /\ \E v \in Versions, ref \in {None} \cup {t.ref : t \in db} :
        /\ IsLatest(ref)
        /\ script' = [Idle EXCEPT !.step = "navigate", !.version = v, !.last = ref]
    /\ UNCHANGED <<posted, page, db, given>>

Navigate ==
    /\ script.step = "navigate"
    /\ \/ Proceed("fill") /\ UNCHANGED page
       \/ Stop
    /\ UNCHANGED <<posted, db, given>>

FillLoginForm ==
    /\ script.step = "fill"
    /\ \/ Proceed("submit") /\ UNCHANGED page
       \/ Stop
    /\ UNCHANGED <<posted, db, given>>

SubmitLogin ==
    /\ script.step = "submit"
    /\ \/ Proceed("select") /\ UNCHANGED page
       \/ Stop
    /\ UNCHANGED <<posted, db, given>>

(* The page's listener: an answer of either account, however old.          *)
CaptureMovements ==
    /\ script.step \in {"select", "ingresos", "wait"}
    /\ Len(page.responses) < MaxResponses
    /\ \E list \in {Personal} \cup {Listing(k) : k \in 0 .. posted} :
        page' = [page EXCEPT !.responses = Append(@, list),
                    !.steady = @ /\ (script.step = "wait" => list = Listing(posted))]
    /\ UNCHANGED <<posted, script, db, given>>

ClickEmpresasCard ==
    /\ script.step = "select" /\ ~page.selected /\ page.clicks < MaxClicks
    /\ \/ /\ \E becomes \in BOOLEAN :
              page' = [page EXCEPT !.clicks = @ + 1, !.selected = becomes]
          /\ UNCHANGED script
       \/ Stop
    /\ UNCHANGED <<posted, db, given>>

(* selectMidineroEmpresasCard returns: what was captured before is dropped. *)
SelectEmpresasCard ==
    /\ script.step = "select"
    /\ \/ /\ page.selected
          /\ page' = [page EXCEPT !.responses = <<>>, !.clicks = 0]
          /\ Proceed("ingresos")
       \/ ~page.selected /\ page.clicks = MaxClicks /\ Stop
    /\ UNCHANGED <<posted, db, given>>

(* Mutation: any answer since the selection counts, the click's or not. *)
ClickIngresosKeeps ==
    /\ script.step = "ingresos"
    /\ \/ /\ page' = [page EXCEPT !.since = 0, !.steady = TRUE]
          /\ Proceed("wait")
       \/ Stop
    /\ UNCHANGED <<posted, db, given>>

ClickIngresos ==
    /\ script.step = "ingresos"
    /\ \/ /\ page' = [page EXCEPT !.since = Len(page.responses), !.steady = TRUE]
          /\ Proceed("wait")
       \/ Stop
    /\ UNCHANGED <<posted, db, given>>

Candidates == SubSeq(page.responses, page.since + 1, Len(page.responses))
BestList == IF Candidates = <<>> THEN <<>> ELSE Candidates[BestCandidate(Candidates)]

(* Eight seconds with a list that has movements, or twenty-five without:   *)
(* then another round, or the end.                                         *)
AwaitMovements ==
    /\ script.step = "wait"
    /\ \/ /\ BestList # <<>>
          /\ script' = [script EXCEPT !.step = "filter", !.movements = BestList]
          /\ UNCHANGED page
       \/ /\ BestList = <<>> /\ script.attempt < MaxAccountSelectionAttempts
          /\ script' = [script EXCEPT !.step = "select", !.attempt = @ + 1]
          /\ UNCHANGED page
       \/ BestList = <<>> /\ script.attempt = MaxAccountSelectionAttempts /\ Stop
    /\ UNCHANGED <<posted, db, given>>

(* Today's incoming movements; none is a scrape that returns nothing.      *)
FilterMovements ==
    /\ script.step = "filter"
    /\ LET incoming == IncomingMovements(script.movements, script.version)
       IN  IF incoming = <<>> THEN Stop
           ELSE /\ script' = [script EXCEPT !.step = "rows", !.movements = incoming]
                /\ UNCHANGED page
    /\ UNCHANGED <<posted, db, given>>

(* The table of the selected card, which may be older or newer than the    *)
(* captured list; too few clickable rows abort the scrape.                 *)
ReadRows ==
    /\ script.step = "rows"
    /\ \/ \E table \in IF page.selected THEN {Listing(k) : k \in 0 .. posted} ELSE {Personal} :
            LET rows == GetIncomingRows(table)
            IN  IF Len(rows) < Len(script.movements) THEN Stop
                ELSE /\ script' = [script EXCEPT !.step = "detail", !.rows = rows]
                     /\ page' = [page EXCEPT !.steady = @ /\ table = Listing(posted)]
       \/ Stop
    /\ UNCHANGED <<posted, db, given>>

Movement == script.movements[script.at]
Shown == script.rows[script.at]
Remaining == {script.movements[j] : j \in script.at .. Len(script.movements)}

(* The payments of EMPRESAS the bank lists from p down.                    *)
DownFrom(p) == {Feed[j] : j \in {i \in 1 .. posted : \E k \in i .. posted : Feed[k] = p}}

NextRow == [script EXCEPT !.at = @ + 1]

(* The catch of the extraction: v2.0.2 returns what was built, if anything. *)
ExtractionFails ==
    IF script.version.keepsPartial /\ script.built # <<>>
    THEN /\ Proceed("ingest")
         /\ given' = given \cup Remaining
         /\ UNCHANGED page
    ELSE Stop /\ UNCHANGED given

(* One turn of the detail loop: click the icon of the row in the same      *)
(* position, check the detail, stop at the last known reference, build.    *)
OpenDetail ==
    /\ script.step = "detail" /\ script.at <= Len(script.movements)
    /\ \/ ExtractionFails
       \/ /\ ~DetailMatches(Movement, Shown, script.version)
          /\ IF script.version.skipsMismatch
             THEN /\ script' = NextRow
                  /\ given' = given \cup {Movement}
                  /\ UNCHANGED page
             ELSE ExtractionFails
       \/ /\ DetailMatches(Movement, Shown, script.version)
          /\ Shown.id = script.last
          /\ Proceed("ingest")
          /\ UNCHANGED <<page, given>>
       \/ /\ DetailMatches(Movement, Shown, script.version)
          /\ Shown.id # script.last
          /\ script' = [NextRow EXCEPT !.built =
                            Append(@, [ref |-> Shown.id, movement |-> Movement])]
          /\ given' = IF Shown = Movement THEN given ELSE given \cup {Movement} \cup DownFrom(Shown)
          /\ UNCHANGED page
    /\ UNCHANGED <<posted, db>>

ScriptDoneEarly ==
    /\ script.step = "detail" /\ script.at >= Len(script.movements)
    /\ Proceed("ingest")
    /\ UNCHANGED <<posted, page, db, given>>

ScriptDone ==
    /\ script.step = "detail" /\ script.at > Len(script.movements)
    /\ Proceed("ingest")
    /\ UNCHANGED <<posted, page, db, given>>

(* IngestTransactionsUseCase: one insert after the other, newest first;    *)
(* a known reference is left alone.                                        *)
StoreNext ==
    /\ script.step = "ingest" /\ script.built # <<>>
    /\ LET t == Head(script.built)
       IN  db' = IF \E u \in db : u.ref = t.ref THEN db ELSE db \cup {t}
    /\ script' = [script EXCEPT !.built = Tail(@)]
    /\ UNCHANGED <<posted, page, given>>

(* A crash or a refused write part-way leaves the rest unsaved.            *)
StoreFails ==
    /\ script.step = "ingest" /\ script.built # <<>>
    /\ given' = given \cup {script.built[j].movement : j \in DOMAIN script.built}
    /\ Stop
    /\ UNCHANGED <<posted, db>>

ScrapeEnds ==
    /\ script.step = "ingest" /\ script.built = <<>>
    /\ Stop
    /\ UNCHANGED <<posted, db, given>>

PaymentArrives ==
    /\ posted < Len(Feed)
    /\ posted' = posted + 1
    /\ page' = [page EXCEPT !.steady = @ /\ script.step \notin {"wait", "filter", "rows"}]
    /\ UNCHANGED <<script, db, given>>

ScrapeNext ==
    \/ StartScrape \/ Navigate \/ FillLoginForm \/ SubmitLogin
    \/ CaptureMovements \/ ClickEmpresasCard \/ SelectEmpresasCard
    \/ ClickIngresos \/ AwaitMovements \/ FilterMovements \/ ReadRows
    \/ OpenDetail \/ ScriptDone
    \/ StoreNext \/ StoreFails \/ ScrapeEnds
    \/ PaymentArrives

ScrapeSpec == ScrapeInit /\ [][ScrapeNext]_scrapeVars

-----------------------------------------------------------------------------
Payments == {Feed[j] : j \in 1 .. posted}
Registered == {t.ref : t \in db}

(* What is stored under a reference is the payment of that reference, if   *)
(* the account stayed as it was from the click on Ingresos until the table *)
(* was read: no answer of the personal account, of an earlier selection or *)
(* of an older moment is paired with the table, and no skipped row shifts  *)
(* the pairs.  If it moved, or the version lists exchanges, a payment may  *)
(* be stored with the amount of another within half an hour.               *)
StoredAsPaid ==
    [][\A t \in db' \ db : \E p \in Payments :
          /\ p.id = t.ref
          /\ \/ t.movement = p
             \/ /\ ~(page.steady /\ script.version.dropsExchange)
                /\ (p.minute + p.delay) - t.movement.minute \in -30 .. 30]_scrapeVars

(* Stopping at the last known reference assumes that everything older is   *)
(* registered (v1.0.0 says so: "los siguientes tambien lo estan").  Between*)
(* scrapes, a payment of today older than a registered one is registered   *)
(* too, unless some scrape skipped it, was cut short on it, or registered  *)
(* it or a newer one with another's data: the stop hides what a mix passed *)
(* over.                                                                   *)
NoSilentGap ==
    script.step # "ingest" =>
        \A j, k \in 1 .. posted :
            /\ j < k /\ Feed[k].id \in Registered
            /\ Feed[j].kind = "in" /\ Feed[j].today
            => Feed[j].id \in Registered \/ Feed[j] \in given

=============================================================================

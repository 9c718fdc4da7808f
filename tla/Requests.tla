------------------------------ MODULE Requests -----------------------------
(***************************************************************************)
(* HTTP requests as the API's handlers execute them: one of the browser    *)
(* tab that is modelled and one of anybody else (another tab, a client of  *)
(* the API, a command).  A handler runs in steps, one per statement of the *)
(* database or transaction, and holds what it read in between.             *)
(***************************************************************************)
EXTENDS Integers, FiniteSets

CONSTANTS Tab, Other,           \* the two sources of requests
          MaxTab, MaxOther,     \* bounds: requests of each
          MaxFaults             \* bound: requests that fail on the way

ASSUME SourcesDiffer == Tab # Other

Slots == {Tab, Other}

VARIABLES req, asked, faults

MaxAsked(s) == IF s = Tab THEN MaxTab ELSE MaxOther

Idle == [pc |-> "idle"]

RequestsInit == req = [s \in Slots |-> Idle] /\ asked = [s \in Slots |-> 0] /\ faults = 0

(* A request reaches its handler.                                          *)
Ask(s, r) ==
    /\ req[s] = Idle
    /\ asked[s] < MaxAsked(s)
    /\ asked' = [asked EXCEPT ![s] = @ + 1]
    /\ req' = [req EXCEPT ![s] = r]
    /\ UNCHANGED faults

At(s, op, pc) == req[s].pc = pc /\ req[s].op = op

Holding(s, r) == req' = [req EXCEPT ![s] = r] /\ UNCHANGED <<asked, faults>>

(* The controller answers: the tab has the answer to handle, of the others *)
(* nobody looks at it.                                                     *)
Answered(s, status) == IF s = Tab THEN [req[s] EXCEPT !.pc = "answered", !.status = status] ELSE Idle

Answer(s, status) == Holding(s, Answered(s, status))

(* The tab takes the answer, or has left the page that asked.              *)
Take == req[Tab].pc = "answered" /\ Holding(Tab, Idle)

(* A statement is refused, the process dies or the connection breaks: what *)
(* was done stays done, and the answer is an error.                        *)
RequestFails(s) ==
    /\ req[s].pc \notin {"idle", "answered"} \/ (req[s].pc = "answered" /\ req[s].status = 200)
    /\ faults < MaxFaults
    /\ faults' = faults + 1
    /\ req' = [req EXCEPT ![s] = Answered(s, 500)]
    /\ UNCHANGED asked

=============================================================================

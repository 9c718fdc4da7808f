----------------------------- MODULE Dashboard ------------------------------
(***************************************************************************)
(* The accounts page of the web client over Assistance: useRealtime's      *)
(* socket and the pending-assistance map it hydrates once, the modal that  *)
(* submits a code, and the gateway that routes events to open sockets.     *)
(* One page, one account.                                                  *)
(***************************************************************************)
EXTENDS Assistance

VARIABLE client
    \* online: the socket is open.  shown: the account is in the assistance
    \* map.  hydrate, snap: the GET for pending assistance and its answer.
    \* post: the modal's request.  doubt: an answer that is under way has been
    \* overtaken by an event, or an event was lost.

vars == <<back, client>>

Mounted == [online |-> FALSE, shown |-> FALSE, hydrate |-> "todo", snap |-> FALSE,
            post |-> "none", doubt |-> FALSE]

Init == AssistanceInit /\ client = Mounted

(* connect and onopen; what was pushed meanwhile is not asked for again.   *)
Connect ==
    /\ ~client.online
    /\ client' = [client EXCEPT !.online = TRUE]
    /\ UNCHANGED back

(* onclose: the network, a missed heartbeat, the end of the server.        *)
Disconnect ==
    /\ client.online
    /\ client' = [client EXCEPT !.online = FALSE]
    /\ UNCHANGED back

(* onmessage.                                                              *)
Handled(event) ==
    IF event = "requested"
    THEN [client EXCEPT !.shown = TRUE, !.doubt = @ \/ client.post # "none"]
    ELSE [client EXCEPT !.shown = FALSE, !.doubt = @ \/ client.snap]

Missed == [client EXCEPT !.doubt = @ \/ client.hydrate # "todo" \/ client.shown]

Rest == wire' = Tail(wire)
        /\ UNCHANGED <<row, stream, sess, submit, submitted, owed, orphan, stray, untrue>>

(* route: to the open socket, or to nobody.                                *)
Route ==
    /\ wire # <<>>
    /\ client' = IF client.online THEN Handled(Head(wire)) ELSE Missed
    /\ Rest /\ UNCHANGED faults

(* A backed-up socket is closed instead of sent to.                        *)
DropConsumer ==
    /\ wire # <<>> /\ client.online /\ Fault
    /\ client' = [Missed EXCEPT !.online = FALSE]
    /\ Rest

(* A publication or the subscriber's connection fails: sockets stay open.  *)
EventLost ==
    /\ wire # <<>> /\ client.online /\ Fault
    /\ client' = Missed
    /\ Rest

(* The hydration effect: once, when the page has its accounts.             *)
Hydrate ==
    /\ client.hydrate = "todo"
    /\ client' = [client EXCEPT !.hydrate = "asked", !.snap = Pending # {}]
    /\ UNCHANGED back

HydrateArrives ==
    /\ client.hydrate = "asked"
    /\ client' = [client EXCEPT !.hydrate = "done", !.shown = @ \/ client.snap, !.snap = FALSE,
                      !.doubt = @ \/ (client.snap /\ client.post # "none")]
    /\ UNCHANGED back

(* The modal submits, or an API client does; no pending request is a 404.  *)
PanelSubmits ==
    /\ client.shown /\ client.post = "none"
    /\ SubmitFind(TRUE)
    /\ client' = [client EXCEPT !.post = "asked"]

ApiSubmits == SubmitFind(FALSE) /\ UNCHANGED client

CodeAdded ==
    /\ SubmitAdd
    /\ client' = IF submit.panel THEN [client EXCEPT !.post = "answered"] ELSE client

(* onSubmitted: clearAccount, however late the answer comes.               *)
PostArrives ==
    /\ client.post = "answered"
    /\ client' = [client EXCEPT !.post = "none", !.shown = FALSE]
    /\ UNCHANGED back

(* The page is loaded anew, and a POST of the old one is nobody's.         *)
Reload ==
    /\ client # Mounted \/ untrue
    /\ client' = Mounted
    /\ submit' = [submit EXCEPT !.panel = FALSE]
    /\ untrue' = FALSE
    /\ UNCHANGED <<row, stream, sess, submitted, owed, orphan, stray, wire, faults>>

ServerDies ==
    /\ Crash
    /\ client' = [client EXCEPT !.online = FALSE, !.post = "none"]

(* An event is routed, or lost, before anything else happens.              *)
Next ==
    \/ Route \/ DropConsumer \/ EventLost
    \/ /\ wire = <<>>
       /\ \/ \E s \in Sessions : SessionStep(s) /\ UNCHANGED client
          \/ ServerDies
          \/ Connect \/ Disconnect \/ Hydrate \/ HydrateArrives
          \/ PanelSubmits \/ ApiSubmits \/ CodeAdded \/ PostArrives \/ Reload

Spec == Init /\ [][Next]_vars

-----------------------------------------------------------------------------
(* No code is unread, and no session is about to announce a request or to  *)
(* report on a code it read.                                               *)
Settled ==
    /\ wire = <<>> /\ client.hydrate = "done"
    /\ \A r \in Pending : stream[r].unread = <<>>
    /\ \A s \in Sessions : sess[s].pc \notin {"opened", "resent", "got"}

(* In such a moment the page shows the alert exactly when a request is     *)
(* pending, although it asks the server once and then lives on events, and *)
(* clears the alert itself when its POST is answered, however late; exempt *)
(* are answers overtaken by events, events lost while the socket was       *)
(* closed (nothing hydrates again), and events untrue when published.      *)
AlertAgrees == Settled /\ ~client.doubt /\ ~untrue => (client.shown <=> Pending # {})

=============================================================================

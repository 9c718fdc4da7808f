-------------------------------- MODULE Lease --------------------------------
(***************************************************************************)
(* What SessionManager promises, without handles, handlers, jobs or        *)
(* verdicts: the browser profile of an account is leased to one launch at  *)
(* a time, and the account's row is written by the holder of the lease, at *)
(* the end of its launch and when it gives the lease back, or by the boot. *)
(***************************************************************************)
CONSTANTS Accounts,   \* persistent accounts
          Sessions,   \* what may hold a lease
          None        \* no holder

VARIABLES holder,     \* who has the profile of each account
          settled,    \* accounts whose holder is past its launch
          row,        \* what bank_sessions says of each account
          fresh       \* the rows of the last process are still to be reset

leaseVars == <<holder, settled, row, fresh>>

Free(a) == holder[a] = None

Init == /\ holder = [a \in Accounts |-> None]
        /\ settled = {}
        /\ row = [a \in Accounts |-> "absent"]
        /\ fresh = TRUE

(* The row of one account is written, or the write is lost. *)
Writes(a, statuses) == \E st \in statuses \cup {row[a]} : row' = [row EXCEPT ![a] = st]

(* A launch takes the profile of an account, and only one. *)
Take(a, s) == /\ Free(a) /\ \A b \in Accounts : holder[b] # s
              /\ holder' = [holder EXCEPT ![a] = s]
              /\ UNCHANGED <<settled, row, fresh>>

(* The launch comes to a session. *)
Settle(a) == /\ ~Free(a) /\ a \notin settled
             /\ settled' = settled \cup {a}
             /\ Writes(a, {"running"})
             /\ UNCHANGED <<holder, fresh>>

(* The launch comes to nothing. *)
GiveUp(a) == /\ ~Free(a) /\ a \notin settled
             /\ holder' = [holder EXCEPT ![a] = None]
             /\ Writes(a, {"stopped"})
             /\ UNCHANGED <<settled, fresh>>

(* The session is over. *)
Release(a) == /\ a \in settled
              /\ holder' = [holder EXCEPT ![a] = None]
              /\ settled' = settled \ {a}
              /\ Writes(a, {"stopped", "needs_attention"})
              /\ UNCHANGED fresh

(* The boot corrects what the last process left behind, or fails to. *)
Reset == /\ fresh
         /\ fresh' = FALSE
         /\ row' \in {row, [a \in Accounts |-> IF row[a] = "running" THEN "stopped" ELSE row[a]]}
         /\ UNCHANGED <<holder, settled>>

(* The process dies with all leases. *)
Die == /\ holder' = [a \in Accounts |-> None]
       /\ settled' = {}
       /\ fresh' = TRUE
       /\ UNCHANGED row

Next == \/ \E a \in Accounts : \/ \E s \in Sessions : Take(a, s)
                               \/ Settle(a) \/ GiveUp(a) \/ Release(a)
        \/ Reset \/ Die

Spec == Init /\ [][Next]_leaseVars
=============================================================================

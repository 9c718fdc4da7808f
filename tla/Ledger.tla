------------------------------- MODULE Ledger -------------------------------
(***************************************************************************)
(* What conciliation promises, without workers, locks or queues: a ledger  *)
(* that pairs bank payments with customer orders.  An order receives at    *)
(* most one payment, a payment settles at most one order, a pair once      *)
(* written is never revised, and a payment that has been set aside never   *)
(* becomes available again.                                                *)
(***************************************************************************)
CONSTANTS Requests,   \* the customer orders
          Txs         \* the bank transactions

VARIABLES paid,       \* pairs <<order, payment>> that have been written
          retired     \* payments no longer offered to any order

ledgerVars == <<paid, retired>>

Settled(r) == \E t \in Txs : <<r, t>> \in paid
Spent(t)   == \E r \in Requests : <<r, t>> \in paid

Init == /\ paid = {}
        /\ retired = {}

(* An order is settled: the pair is written and the payment retired in one *)
(* step.  The payment may have been retired before, never spent.           *)
Settle(r, t) == /\ ~Settled(r)
                /\ ~Spent(t)
                /\ paid' = paid \cup {<<r, t>>}
                /\ retired' = retired \cup {t}

(* A payment that no order wants is set aside. *)
Retire(t) == /\ retired' = retired \cup {t}
             /\ UNCHANGED paid

Next == \/ \E r \in Requests, t \in Txs : Settle(r, t)
        \/ \E t \in Txs : Retire(t)

Spec == Init /\ [][Next]_ledgerVars
=============================================================================

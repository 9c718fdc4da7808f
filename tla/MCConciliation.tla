--------------------------- MODULE MCConciliation ---------------------------
(* Conciliation on small instances, with the engine's own verdicts: the    *)
(* orders are alike, and one payment has part of their name, the other     *)
(* none, so each suits every order.                                        *)
EXTENDS Conciliation, Matching, TLC

CONSTANTS t1, t2, a, b, sp

MCNormal == [full |-> <<a, b, sp, b, a>>, first |-> <<a, b>>, absent |-> <<>>]
MCNames == DOMAIN MCNormal

MCOrder == [expectedAmount |-> 7, currency |-> "UYU", createdAt |-> 10,
            senderName |-> "full"]
MCPayment(t) == [id |-> t, amount |-> 7, currency |-> "UYU", receivedAt |-> 12,
                 senderName |-> IF t = t1 THEN "first" ELSE "absent"]
MCOrders == {MCOrder}
MCPayments == {MCPayment(t) : t \in Txs}

AllFit == Requests \X Txs
ASSUME EngineFitsAll ==
  \A t \in Txs : Evaluate(MCOrder, {MCPayment(t)}).status = "matched"

(* With every payment suiting every order the payments are interchangeable. *)
PaymentSymmetry == Permutations(Txs)
=============================================================================

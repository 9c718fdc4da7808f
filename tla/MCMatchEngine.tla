--------------------------- MODULE MCMatchEngine ---------------------------
(* MatchEngine on four orders and eleven payments, in every combination. *)
EXTENDS MatchEngine

CONSTANTS a, b, c, sp

MCChars == {a, b, c, sp}

(* ab bc; bc ab, the words swapped; ab, one of them; ab b, with an initial; *)
(* c c, initials only; ca, which shares nothing; and two names without a    *)
(* letter.                                                                  *)
MCNormal == [
  full     |-> <<a, b, sp, b, c>>,   shouted  |-> <<a, b, sp, b, c>>,
  swapped  |-> <<b, c, sp, a, b>>,   first    |-> <<a, b>>,
  initial  |-> <<a, b, sp, b>>,      initials |-> <<c, sp, c>>,
  stranger |-> <<c, a>>,             absent   |-> <<>>]
MCNames == DOMAIN MCNormal

Order(name) == [expectedAmount |-> 7, currency |-> "UYU", createdAt |-> 10,
                senderName |-> name]
MCOrders == {Order(name) : name \in {"full", "initial", "initials", "absent"}}

Payment(id, amount, currency, at, name) ==
  [id |-> id, amount |-> amount, currency |-> currency, receivedAt |-> at,
   senderName |-> name]
MCPayments == {
  Payment(1, 7, "UYU", 10, "full"),      Payment(2, 7, "UYU", 10, "shouted"),
  Payment(3, 7, "UYU", 10, "swapped"),   Payment(4, 7, "UYU", 10, "first"),
  Payment(5, 7, "UYU", 10, "initials"),  Payment(6, 7, "UYU", 10, "stranger"),
  Payment(7, 7, "UYU", 10, "absent"),    Payment(8, 7, "UYU", 5, "full"),
  Payment(9, 7, "UYU", 16, "full"),      Payment(10, 8, "UYU", 10, "full"),
  Payment(11, 7, "USD", 10, "absent")}
=============================================================================

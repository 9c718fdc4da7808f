------------------------------ MODULE Matching ------------------------------
(***************************************************************************)
(* ConciliationEngine.evaluate: one order against the payments on offer.   *)
(* Two rules filter the payments, a fuzzy score compares the names, and    *)
(* the scores give the verdict.                                            *)
(*                                                                         *)
(* A name is known by its normalized form, a sequence of characters with   *)
(* single spaces inside; Normal says which spellings share one, and an     *)
(* absent name has the empty form.  Scores are in sixtieths, which makes   *)
(* the Jaccard quotients of up to six words exact.  The order in which     *)
(* candidates are listed carries no information and is left out.           *)
(***************************************************************************)
EXTENDS Integers, Sequences, FiniteSets

CONSTANTS
  Orders,    \* records with expectedAmount, currency, createdAt, senderName
  Payments,  \* records with id, amount, currency, receivedAt, senderName
  Names,     \* spellings of a name, absent ones included
  Chars,     \* characters of normalized names
  Space,     \* the one that separates words
  Normal,    \* the normalized form of a spelling
  Window     \* days between an order and its payment, at most

ASSUME EngineAssumption ==
  /\ Normal \in [Names -> Seq(Chars)]
  /\ Window \in Nat
  /\ \A o \in Orders : o.senderName \in Names /\ o.createdAt \in Int
  /\ \A p \in Payments : p.senderName \in Names /\ p.receivedAt \in Int

-----------------------------------------------------------------------------
(* The rules. *)
ExactAmount(o, p) == p.amount = o.expectedAmount /\ p.currency = o.currency

DateWindow(o, p) == p.receivedAt \in (o.createdAt - Window)..(o.createdAt + Window)

-----------------------------------------------------------------------------
(* The score of two normalized names. *)

(* The words of a name that have more than one character. *)
Tokens(name) ==
  LET Bound(i) == i \in {0, Len(name) + 1} \/ name[i] = Space
      ends == {e \in (1..Len(name)) \X (1..Len(name)) :
                 /\ e[1] < e[2] /\ Bound(e[1] - 1) /\ Bound(e[2] + 1)
                 /\ \A i \in e[1]..e[2] : name[i] # Space}
  IN {SubSeq(name, e[1], e[2]) : e \in ends}

Jaccard(a, b) ==
  IF a = {} \/ b = {} THEN 0
  ELSE (60 * Cardinality(a \cap b)) \div Cardinality(a \cup b)

Includes(name, part) ==
  \E i \in 0..(Len(name) - Len(part)) : SubSeq(name, i + 1, i + Len(part)) = part

Substring(a, b) == IF Includes(b, a) \/ Includes(a, b) THEN 48 ELSE 0

NameScore(a, b) ==
  LET jaccard == Jaccard(Tokens(a), Tokens(b))
      substring == Substring(a, b)
  IN IF a = <<>> \/ b = <<>> THEN 30
     ELSE IF a = b THEN 60
     ELSE IF jaccard > substring THEN jaccard ELSE substring

Score(o, p) == NameScore(Normal[o.senderName], Normal[p.senderName])

-----------------------------------------------------------------------------
(* The verdict. *)
Verdict(st, t, ids) == [status |-> st, transactionId |-> t, candidateIds |-> ids]

NoTransaction == 0

NotFound == Verdict("not_found", NoTransaction, {})

Ids(ps) == {p.id : p \in ps}

Filtered(o, ps) == {p \in ps : ExactAmount(o, p) /\ DateWindow(o, p)}

(* The first payment after sorting by score. *)
Top(o, ps) == CHOOSE p \in ps : \A q \in ps : Score(o, q) <= Score(o, p)

WithScore(o, ps) == {p \in ps : Score(o, p) > 0}

Evaluate(o, ps) ==
  LET filtered == Filtered(o, ps)
      withScore == WithScore(o, filtered)
      top == Top(o, filtered)
  IN IF filtered = {} \/ Score(o, top) = 0 THEN NotFound
     ELSE IF \E p, q \in withScore : p # q
            THEN Verdict("ambiguous", NoTransaction, Ids(withScore))
     ELSE Verdict("matched", top.id, Ids(filtered))

=============================================================================

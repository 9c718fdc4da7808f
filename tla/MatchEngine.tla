---------------------------- MODULE MatchEngine ----------------------------
(* The engine of module Matching on payments that arrive one at a time. *)
EXTENDS Matching

VARIABLES
  request,    \* the order under evaluation
  candidates  \* the payments on offer

engineVars == <<request, candidates>>

-----------------------------------------------------------------------------
EngineInit ==
  /\ request \in Orders
  /\ candidates = {}

(* A payment is ingested. *)
Offer(p) == /\ p \notin candidates
            /\ candidates' = candidates \cup {p}
            /\ UNCHANGED request

EngineNext == \E p \in Payments : Offer(p)

EngineSpec == EngineInit /\ [][EngineNext]_engineVars

-----------------------------------------------------------------------------
(* Properties *)

(* The payments the engine would match if they came alone, which is how    *)
(* ProcessIncomingTransactionUseCase asks.                                 *)
Fitting == {p \in candidates : Evaluate(request, {p}).status = "matched"}

(* The verdict on a set of payments is settled by those that match alone:  *)
(* none, that one, or an ambiguity between them.  The two use cases, which *)
(* ask the engine in opposite directions, cannot disagree on a pair, and   *)
(* module Conciliation needs to know nothing but who fits whom.            *)
FittingDecides ==
  LET verdict == Evaluate(request, candidates) IN
  /\ verdict.status = "not_found" <=> Fitting = {}
  /\ \A p \in candidates :
       verdict.status = "matched" /\ verdict.transactionId = p.id <=> Fitting = {p}
  /\ verdict.status = "ambiguous" => verdict.candidateIds = Ids(Fitting)

(* The rule of docs/architecture.md:65-66: one candidate with the best     *)
(* score is matched, however many score less, and only several with the    *)
(* same top score are ambiguous.  The code counts every candidate that     *)
(* scores above zero.                                                      *)
Best == {p \in WithScore(request, Filtered(request, candidates)) :
           \A q \in Filtered(request, candidates) : Score(request, q) <= Score(request, p)}
BestScoreDecides ==
  LET verdict == Evaluate(request, candidates) IN
  /\ \A p \in Best : Best = {p} => verdict.status = "matched" /\ verdict.transactionId = p.id
  /\ verdict.status = "ambiguous" => Cardinality(Best) > 1

(* It does not matter which side shortened the name or swapped its words:  *)
(* the score of an order's name against a payment's is that of the         *)
(* payment's against the order's.                                          *)
ScoreSymmetric ==
  \A p \in candidates :
    NameScore(Normal[p.senderName], Normal[request.senderName]) = Score(request, p)

=============================================================================

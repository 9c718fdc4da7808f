---------------------------- MODULE MCPollLoop ----------------------------
EXTENDS PollLoop

Movement(i, d, in) == [id |-> i, day |-> d, incoming |-> in, numbered |-> TRUE, hasDetail |-> TRUE]

(* More of day 1 than two pages after the first can show, one movement     *)
(* without a transactionId and one without a detail among them.            *)
MCFeed == << Movement("p0", 0, TRUE),
             Movement("p1", 1, TRUE),
             [Movement("unnumbered", 1, TRUE) EXCEPT !.numbered = FALSE],
             Movement("out", 1, FALSE),
             [Movement("p2", 1, TRUE) EXCEPT !.hasDetail = FALSE],
             Movement("p3", 2, TRUE) >>

MCScripts == {Script100, Script101}
=============================================================================

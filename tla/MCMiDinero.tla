---------------------------- MODULE MCMiDinero ----------------------------
(* An old payment and three of half an hour of today, the first two with   *)
(* details dated minutes later, with an exchange between them: near enough *)
(* for a version that lists exchanges to take each for the next one.       *)
EXTENDS MiDinero

Payment(i, t, d) == [id |-> i, kind |-> "in", today |-> TRUE, minute |-> t, delay |-> d]

MCFeed == << [Payment("p0", -600, 0) EXCEPT !.today = FALSE],
             Payment("p1", 10, 6), Payment("p2", 20, 8),
             [Payment("x", 30, 0) EXCEPT !.kind = "exchange"],
             Payment("p3", 40, 0) >>

MCPersonal == << Payment("q", 35, 0) >>

MCVersions == {Script200, Script201, Script202}
=============================================================================

-------------------------- MODULE MCSessionManager --------------------------
(* SessionManager on one account: accounts share nothing but the queue and *)
(* the process.                                                            *)
EXTENDS SessionManager

CONSTANTS a1, s1, s2
=============================================================================

-------------------------- MODULE MCSettingsPages --------------------------
(* The settings of one user on a small instance. *)
EXTENDS SettingsPages, TLC

CONSTANTS reconcile, passthrough

MCModes == {reconcile, passthrough}

(* No use case tells one mode from the other. *)
Symmetry == Permutations(MCModes)

(* Nothing is claimed of the codes once a stale factor was saved. *)
Untorn == ~torn

(* Rows are made while a switch is under way and no other request is;      *)
(* those made before it are in the initial history, and once there are     *)
(* others only switches are asked for.                                     *)
Switches == \A s \in Slots : req[s] = Idle \/ req[s].op = "mode"

MadeMeanwhile ==
    /\ history' \subseteq history \/ (Switches /\ \E s \in Slots : wipe[s] # NoWipe)
    /\ asked' # asked => history \subseteq {Order(1), Movement(1)} \/ Switches'

=============================================================================

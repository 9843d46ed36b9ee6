-------------------------- MODULE MCDaemonLifecycle --------------------------
(* Instances of DaemonLifecycle for TLC: processes of a kind are alike. *)
EXTENDS DaemonLifecycle, TLC

Symmetry == Permutations(Daemons) \cup Permutations(Commands)
=============================================================================

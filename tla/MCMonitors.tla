----------------------------- MODULE MCMonitors -----------------------------
(***************************************************************************)
(* Instances of Monitors for model checking.                               *)
(***************************************************************************)
EXTENDS Monitors

FairSpec == Spec /\ Fairness

=============================================================================

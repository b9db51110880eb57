---------------------------- MODULE MCDelivery ----------------------------
(***************************************************************************)
(* Instances of Delivery for model checking.                               *)
(***************************************************************************)
EXTENDS Delivery

=============================================================================

---------------------------- MODULE MCRemoteHub ----------------------------
(***************************************************************************)
(* Instances of RemoteHub for model checking.                              *)
(***************************************************************************)
EXTENDS RemoteHub, TLC

CONSTANTS o1, o2, h1, h2

\* Both ask for one host, one of them for the other too.
MCWants == (o1 :> {h1}) @@ (o2 :> {h1, h2})
MCDials == [browser |-> 3, agent |-> 1]

=============================================================================

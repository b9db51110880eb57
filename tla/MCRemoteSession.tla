-------------------------- MODULE MCRemoteSession --------------------------
(***************************************************************************)
(* Small instances of RemoteSession.                                       *)
(***************************************************************************)
EXTENDS RemoteSession, TLC

\* No action and no invariant tells one caller from another.
CallersAlike == Permutations(Callers)

=============================================================================

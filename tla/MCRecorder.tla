----------------------------- MODULE MCRecorder -----------------------------
(***************************************************************************)
(* Small instances of Recorder.                                            *)
(***************************************************************************)
EXTENDS Recorder

=============================================================================

--------------------------- MODULE MCFileTransfer ---------------------------
(***************************************************************************)
(* Instances of FileTransfer for model checking.  Windows and paths are    *)
(* interchangeable, so the first transfer has only one of each; it takes   *)
(* every way there is, the second one the two ways without a person.       *)
(***************************************************************************)
EXTENDS FileTransfer, TLC

CONSTANTS t1, t2, o1, p1

MCBy == (t1 :> {o1}) @@ (t2 :> Windows)
MCAs == (t1 :> {"put", "ask", "offer", "get"}) @@ (t2 :> {"put", "get"})
MCTo == (t1 :> {p1}) @@ (t2 :> Paths)

=============================================================================

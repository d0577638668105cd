--------------------------- MODULE MCMicroservice ---------------------------
(***************************************************************************)
(* Four tasks that control one service: they contend for a suspension, and *)
(* any of them starts or destroys the object.  No symmetry: the run also   *)
(* checks liveness.                                                        *)
(***************************************************************************)
EXTENDS Microservice

CONSTANTS c1, c2, c3, c4

Tasks == {c1, c2, c3, c4}
=============================================================================

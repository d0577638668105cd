--------------------------- MODULE MCIndications -----------------------------
(***************************************************************************)
(* One central at a time, as the firmware is configured, and a few packets *)
(* of it that the host task has not handled yet.                           *)
(***************************************************************************)
EXTENDS Indications
=============================================================================

------------------------------- MODULE MCHci --------------------------------
(***************************************************************************)
(* Two tasks that send commands (the host task, and the main one through   *)
(* the advertising object), two opcodes, so that an acknowledgement can be *)
(* taken for that of another command or of an earlier one of the same kind.*)
(***************************************************************************)
EXTENDS Hci
=============================================================================

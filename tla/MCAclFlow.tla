----------------------------- MODULE MCAclFlow ------------------------------
(***************************************************************************)
(* Two handles and two buffers of the controller: a packet of three        *)
(* fragments never fits, one of two does when the buffers are free.        *)
(***************************************************************************)
EXTENDS AclFlow
=============================================================================

------------------------------ MODULE MCTouch -------------------------------
(***************************************************************************)
(* A clock of seven values, so that it wraps with a press in progress and  *)
(* between two presses; a press can last one tick and be neither short nor *)
(* long, two and be short, three and be neither, four and be long.         *)
(***************************************************************************)
EXTENDS Touch

MCShortPress == 1
MCLongPress  == 3
=============================================================================

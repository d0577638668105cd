----------------------------- MODULE MCHaptics ------------------------------
(***************************************************************************)
(* Three tasks: one plays, one waits for the mutex, one comes.             *)
(***************************************************************************)
EXTENDS Haptics

CONSTANTS p1, p2, p3

MCPlayers == {p1, p2, p3}

\* The two effects of the firmware, and one that starts weak.
MCEffects == {<<100>>, <<100, 0, 100>>, <<60, 200>>}
=============================================================================

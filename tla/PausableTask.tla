---------------------------- MODULE PausableTask ----------------------------
(***************************************************************************)
(* What a Microservice promises to the code that owns it: one periodic     *)
(* operation whose runs never overlap a pause, whoever asked for it.  The  *)
(* turn is held by nobody, by the operation or by exactly one controller,  *)
(* and only its holder gives it back.                                      *)
(***************************************************************************)
CONSTANT Controllers

VARIABLES exists,  \* a service is running
          turn     \* who may act: "free", "operation" or a controller

vars == <<exists, turn>>

Init == exists = FALSE /\ turn = "free"

Create == ~exists /\ exists' = TRUE /\ turn' = "free"

Pass(from, to) == exists /\ turn = from /\ turn' = to /\ UNCHANGED exists

Begin      == Pass("free", "operation")
End        == Pass("operation", "free")
Pause(c)   == Pass("free", c)
Unpause(c) == Pass(c, "free")

\* Destruction ends the operation wherever it is, unless the service is paused.
Destroy == exists /\ exists' = FALSE /\ turn' = "free"

Next == \/ Create \/ Begin \/ End \/ Destroy
        \/ \E c \in Controllers : Pause(c) \/ Unpause(c)

Spec == Init /\ [][Next]_vars
=============================================================================

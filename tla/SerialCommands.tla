--------------------------- MODULE SerialCommands ---------------------------
(***************************************************************************)
(* What ble_hs_hci_cmd_tx promises to the tasks that call it: one command  *)
(* at a time, and a result that is the controller's word on that command   *)
(* or says that there is none.  Where the host gives a command up there is *)
(* a reset to come; and only a command given up that may yet be answered   *)
(* can bring a later one a result that is not its own.                     *)
(***************************************************************************)
CONSTANTS Tasks, NULL

VARIABLES stage,   \* of each task: "idle", "waiting", "busy" or "done"
          result,  \* what its call returns
          answer,  \* the controller's to the command in progress, or NULL
          reset,   \* the host is about to be reset
          late     \* a command was given up that may yet be answered

vars == <<stage, result, answer, reset, late>>

Verdict == [full |-> "ok", short |-> "ok", long |-> "invalid", error |-> "status"]
Malformed == {"short", "long"}

Moves(t, from, to) == stage[t] = from /\ stage' = [stage EXCEPT ![t] = to]
Returns(t, r) == Moves(t, "busy", "done") /\ result' = [result EXCEPT ![t] = r]

Init ==
    /\ stage = [t \in Tasks |-> "idle"]
    /\ result = [t \in Tasks |-> "none"]
    /\ answer = NULL
    /\ reset = FALSE
    /\ late = FALSE

Call(t) == Moves(t, "idle", "waiting") /\ UNCHANGED <<result, answer, reset, late>>

Begin(t) ==
    /\ Moves(t, "waiting", "busy")
    /\ \A u \in Tasks : stage[u] \notin {"busy", "done"}
    /\ UNCHANGED <<result, answer, reset, late>>

Reply(r) ==
    /\ \E t \in Tasks : stage[t] = "busy"
    /\ answer = NULL /\ ~late
    /\ answer' = r
    /\ UNCHANGED <<stage, result, reset, late>>

Answered(t) ==
    /\ answer # NULL
    /\ Returns(t, Verdict[answer])
    /\ reset' = (reset \/ answer \in Malformed)
    /\ UNCHANGED <<answer, late>>

Unsent(t) == answer = NULL /\ Returns(t, "unsent") /\ UNCHANGED <<answer, reset, late>>

\* The command was lost ...
Lost(t) == answer = NULL /\ Returns(t, "timeout") /\ reset' = TRUE /\ UNCHANGED <<answer, late>>

\* ... or has an answer that comes too late.
GivenUp(t) == Returns(t, "timeout") /\ reset' = TRUE /\ answer' = NULL /\ late' = TRUE

\* The answer may be another command's.
Stray(t) ==
    /\ late
    /\ \E r \in {"ok", "status", "invalid"} :
           Returns(t, r) /\ (r = "invalid" => reset')
    /\ reset' \in {reset, TRUE}
    /\ UNCHANGED <<answer, late>>

Finish(t) ==
    /\ Moves(t, "done", "idle")
    /\ result' = [result EXCEPT ![t] = "none"]
    /\ answer' = NULL
    /\ UNCHANGED <<reset, late>>

Reset == reset /\ reset' = FALSE /\ UNCHANGED <<stage, result, answer, late>>

\* The chip starts again; without a late answer it has no reason to.
Restart == late /\ Init'

Next ==
    \/ \E t \in Tasks : \/ Call(t) \/ Begin(t) \/ Answered(t) \/ Unsent(t)
                        \/ Lost(t) \/ GivenUp(t) \/ Stray(t) \/ Finish(t)
    \/ \E r \in DOMAIN Verdict : Reply(r)
    \/ Reset
    \/ Restart

Spec == Init /\ [][Next]_vars
=============================================================================

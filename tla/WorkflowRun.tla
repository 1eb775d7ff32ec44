---------------------------- MODULE WorkflowRun ----------------------------
(***************************************************************************)
(* What a session promises to whoever watches it: steps complete one at a  *)
(* time, at some point the log decides the workflow, nothing completes     *)
(* after that, and the row ends once, in a status the decision allows.     *)
(* Crashes, resumes, containers and worktrees are invisible here; the      *)
(* Engine module implements this specification.                            *)
(***************************************************************************)
EXTENDS Naturals

CONSTANT N  \* number of top-level steps

VARIABLES
    done,     \* steps with a top-level completion
    decided,  \* what the log says about the workflow: open, success, failure
    status    \* the session row

runVars == <<done, decided, status>>

RunInit == done = 0 /\ decided = "open" /\ status = "running"

CompleteStep ==
    /\ decided = "open" /\ done < N /\ status = "running"
    /\ done' = done + 1 /\ UNCHANGED <<decided, status>>

\* Success needs every step, or an agent's completion signal; either way the
\* decision is taken while the session is running, and only once.
Decide ==
    /\ decided = "open" /\ status = "running"
    /\ decided' \in {"success", "failure"}
    /\ UNCHANGED <<done, status>>

End ==
    /\ status = "running"
    /\ \/ decided = "success" /\ status' = "completed"
       \/ decided = "failure" /\ status' \in {"failed", "cancelled"}
    /\ UNCHANGED <<done, decided>>

RunNext == CompleteStep \/ Decide \/ End

RunSpec == RunInit /\ [][RunNext]_runVars
=============================================================================

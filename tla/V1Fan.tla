------------------------------- MODULE V1Fan --------------------------------
(***************************************************************************)
(* The concurrent executors of v1: the parallel step, and the map step     *)
(* with a parallel count, whose tasks share a semaphore.  Tasks of either  *)
(* take turns at the one sandbox of the run.  abort_all marks a task; its  *)
(* future goes, with the permit and the lock it holds, when it is next     *)
(* scheduled, unless it ended first.                                       *)
(***************************************************************************)
EXTENDS Integers, FiniteSets

CONSTANTS
    Fans    \* the steps to consider: sets of Fan

Fan == [kind : {"parallel", "map"}, size : Nat, permits : Nat, boxed : BOOLEAN]

ASSUME FansAssumption ==
    Fans \subseteq Fan /\ \A f \in Fans : f.kind = "map" => f.permits > 0

VARIABLES
    fan,       \* the step
    task,      \* where each task is: see TaskStates
    marked,    \* abort_all was called
    holder,    \* the tasks inside the sandbox lock
    outputs,   \* what has been joined: the task whose output each slot holds
    error,     \* the error the step will return: a task, 0 for a cancelled one, -1 for none
    fpc        \* "joining" or "returned"

fanVars == <<fan, task, marked, holder, outputs, error, fpc>>

TaskIds == 1..fan.size
Live == {"queued", "ready", "inside"}
TaskStates == Live \cup {"ok", "skip", "error", "cancelled", "joined"}
NoError == -1
In(s) == {i \in TaskIds : task[i] \in s}

FanInit ==
    /\ fan \in Fans /\ task = [i \in TaskIds |-> "queued"] /\ marked = FALSE
    /\ holder = {} /\ outputs = [i \in TaskIds |-> 0] /\ error = NoError /\ fpc = "joining"

\* Tasks that hold a permit: _permit lives to the end of the task.
Holding == In({"ready", "inside"})

\* sem.acquire; the tasks of a parallel step start at once.
Acquire(i) ==
    /\ task[i] = "queued" /\ (fan.kind = "map" => Cardinality(Holding) < fan.permits)
    /\ task' = [task EXCEPT ![i] = "ready"] /\ UNCHANGED <<fan, marked, holder, outputs, error, fpc>>

\* sb.lock().await, which host steps do not need.
EnterSandbox(i) ==
    /\ task[i] = "ready" /\ (fan.boxed => holder = {})
    /\ task' = [task EXCEPT ![i] = "inside"] /\ holder' = IF fan.boxed THEN {i} ELSE {}
    /\ UNCHANGED <<fan, marked, outputs, error, fpc>>

\* The guard goes with the task, however it ends.
Released(i, end) == holder \ {i}

\* The child's result; a gate may skip, and its other verdicts are errors here.
TaskEnd(i) ==
    /\ task[i] = "inside"
    /\ \E end \in {"ok", "error"} \cup (IF fan.kind = "parallel" THEN {"skip"} ELSE {}) :
          task' = [task EXCEPT ![i] = end] /\ holder' = Released(i, end)
    /\ UNCHANGED <<fan, marked, outputs, error, fpc>>

TaskAborted(i) ==
    /\ marked /\ task[i] \in Live /\ task' = [task EXCEPT ![i] = "cancelled"]
    /\ holder' = Released(i, "cancelled") /\ UNCHANGED <<fan, marked, outputs, error, fpc>>

-----------------------------------------------------------------------------
(* The join loop *)

\* join_next takes the task out of the set.
Joined(i) == task' = [task EXCEPT ![i] = "joined"]

\* outputs by name, results by index.
Slot(i) == i

JoinOk(i) ==
    /\ fpc = "joining" /\ task[i] \in {"ok", "skip"} /\ Joined(i)
    /\ outputs' = [outputs EXCEPT ![Slot(i)] = i] /\ UNCHANGED <<fan, marked, holder, error, fpc>>

\* map returns from inside the loop, and its JoinSet goes; parallel joins the rest.
Leaves == fan.kind = "map"

JoinError(i) ==
    /\ fpc = "joining" /\ task[i] = "error" /\ Joined(i) /\ marked' = TRUE /\ error' = i
    /\ fpc' = (IF Leaves THEN "returned" ELSE fpc) /\ UNCHANGED <<fan, holder, outputs>>

\* Variant: a cancelled task replaces the error that cancelled it.
KeepError_Last == 0

\* A cancelled task is only the error when there is no other.
KeepError == IF error = NoError THEN 0 ELSE error

JoinCancelled(i) ==
    /\ fpc = "joining" /\ task[i] = "cancelled" /\ Joined(i) /\ marked' = TRUE
    /\ error' = KeepError
    /\ fpc' = (IF Leaves THEN "returned" ELSE fpc) /\ UNCHANGED <<fan, holder, outputs>>

FanReturn ==
    /\ fpc = "joining" /\ In({"joined"}) = TaskIds
    /\ fpc' = "returned" /\ UNCHANGED <<fan, task, marked, holder, outputs, error>>

FanDone == fpc = "returned" /\ In(Live) = {} /\ UNCHANGED fanVars

FanJoin == (\E i \in TaskIds : JoinOk(i) \/ JoinError(i) \/ JoinCancelled(i)) \/ FanReturn
FanTask(i) == Acquire(i) \/ EnterSandbox(i) \/ TaskEnd(i)
FanNext == FanJoin \/ (\E i \in TaskIds : FanTask(i) \/ TaskAborted(i)) \/ FanDone
FanSpec == FanInit /\ [][FanNext]_fanVars

-----------------------------------------------------------------------------
(* Properties *)

\* Types of a fan-out; the task inside the lock is the one that has not ended.
FanTypeOK ==
    /\ fan \in Fans /\ task \in [TaskIds -> TaskStates] /\ holder \subseteq TaskIds
    /\ outputs \in [TaskIds -> 0..fan.size] /\ error \in NoError..fan.size
    /\ fan.boxed => In({"inside"}) = holder

\* A map never has more bodies at work than its parallel count, also while an abort is under way.
WithinPermits == fan.kind = "map" => Cardinality(In({"ready", "inside"})) <= fan.permits

\* Each slot of the result holds the output of the task at that place of the definition,
\* whichever ended first.
SlotOfTask == \A i \in TaskIds : outputs[i] \in {0, i}

\* The error a failed step reports is one that a task returned, never the cancellation it caused.
ErrorIsReal == error # 0

\* A parallel step returns when every task has ended.
ParallelLeavesNone == fan.kind = "parallel" /\ fpc = "returned" => In(Live) = {}

\* However the tasks of a step interleave, fail and are aborted: the bound is kept, outputs are in place, and
\* the error is the one that happened.
FanSafe == FanTypeOK /\ WithinPermits /\ SlotOfTask /\ ErrorIsReal /\ ParallelLeavesNone

\* A step returns and its tasks are gone, whatever they were waiting for.
FanReturns == (In(Live) # {}) ~> (fpc = "returned" /\ In(Live) = {})
=============================================================================

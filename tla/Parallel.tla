------------------------------ MODULE Parallel ------------------------------
(***************************************************************************)
(* run_parallel of crates/stepyard-harness/src/scope.rs: the children of a *)
(* parallel step run as tasks of one JoinSet.  Nothing is logged while     *)
(* they run.  The drain collects results as they come, the first failure,  *)
(* a cancel or a signal aborts the rest, and then the completions are      *)
(* logged by position, followed by what became of the container.           *)
(*                                                                         *)
(* An output is named by its position and by the process that made it.     *)
(***************************************************************************)
EXTENDS Integers, Sequences

CONSTANTS
    Forks,        \* the parallel steps to consider: sequences of child kinds
    MaxPCrashes   \* bound: how often the process dies

ASSUME ParallelAssumption ==
    Forks \subseteq Seq({"cmd", "agent", "chat", "gate"}) /\ MaxPCrashes \in Nat

VARIABLES
    fork,        \* the child kinds, in definition order
    plog,        \* the session log from the container's StepStarted on
    prow,        \* status of the session row
    ppc,         \* where run_parallel is
    task,        \* each child's task
    completions, \* the tasks joined with an output: their order is lost in the sort
    terminal,    \* ParallelDrain
    logged,      \* the positions the loop over the completions has come to
    pending,     \* the events it is emitting
    pinputs,     \* which of cancel and shutdown have been raised
    pcrashes

plocals == <<task, completions, terminal, logged, pending>>
parallelVars == <<fork, plog, prow, ppc, plocals, pinputs, pcrashes>>

Children == DOMAIN fork
Completed(l) == {i \in DOMAIN l : l[i].ev = "step_completed" /\ l[i].pos > 0}
Record(name, pos, era) == [ev |-> name, pos |-> pos, era |-> era]
OfContainer(name) == Record(name, 0, 0)
HasFailed(l) == \E i \in DOMAIN l : l[i].ev = "step_failed"
HasCompleted(l) == \E i \in DOMAIN l : l[i].ev = "step_completed" /\ l[i].pos = 0
PSame == UNCHANGED <<fork, pinputs, pcrashes>>
NoTasks == [c \in Children |-> "off"]

ParallelInit ==
    /\ fork \in Forks
    /\ plog = << >> /\ prow = "running" /\ ppc = "idle"
    /\ task = NoTasks /\ completions = {} /\ terminal = "completed" /\ logged = {} /\ pending = << >>
    /\ pinputs = {} /\ pcrashes = 0

-----------------------------------------------------------------------------
(* Engine::step, and run_parallel up to the spawns. *)

PDecided ==
    /\ ppc = "idle" /\ (HasFailed(plog) \/ HasCompleted(plog))
    /\ prow' = IF HasFailed(plog) /\ prow = "running" THEN "failed" ELSE prow
    /\ ppc' = "returned" /\ UNCHANGED <<plog, plocals>> /\ PSame

PStart ==
    /\ ppc = "idle" /\ ~HasFailed(plog) /\ ~HasCompleted(plog)
    /\ plog' = Append(plog, OfContainer("step_started"))
    /\ ppc' = "prepare" /\ UNCHANGED <<prow, plocals>> /\ PSame

\* Variant: only the last completion of the log is remembered.
AlreadyCompleted_LastOnly(l) ==
    {l[i].pos : i \in {j \in Completed(l) : \A k \in Completed(l) : k <= j}}

\* parallel_completed_positions.
AlreadyCompleted(l) == {l[i].pos : i \in Completed(l)}

LeaveDrain(t) == terminal' = t /\ ppc' = "close" /\ UNCHANGED <<task, completions, logged>>

EmptyFork ==
    /\ ppc = "prepare" /\ fork = << >>
    /\ LeaveDrain("completed") /\ pending' = <<Record("step_completed", 0, -1)>>
    /\ UNCHANGED <<plog, prow>> /\ PSame

\* An unknown scope, an unsupported kind, or a template, environment, key or client that is
\* missing: nothing is spawned.  A cancel before the spawns ends the step the same way.
Refuse ==
    /\ ppc = "prepare" /\ fork # << >>
    /\ \/ LeaveDrain("failed")
       \/ "cancel" \in pinputs /\ LeaveDrain("cancelled")
    /\ pending' = <<OfContainer("step_failed")>>
    /\ UNCHANGED <<plog, prow>> /\ PSame

Spawn ==
    /\ ppc = "prepare" /\ fork # << >> /\ "cancel" \notin pinputs
    /\ \A c \in Children \ AlreadyCompleted(plog) : fork[c] # "gate"
    /\ task' = [c \in Children |-> IF c \in AlreadyCompleted(plog) THEN "off" ELSE "running"]
    /\ ppc' = "drain"
    /\ UNCHANGED <<plog, prow, completions, terminal, logged, pending>> /\ PSame

-----------------------------------------------------------------------------
(* The tasks, and the drain. *)

\* A child comes to an end: parallel_task_with_timeout around its executor.
ChildEnds(c) ==
    /\ task[c] \in {"running", "aborting"}
    /\ \E r \in {"ok", "error", "timeout"} \cup (IF fork[c] = "cmd" THEN {"nonzero"} ELSE {}) :
          task' = [task EXCEPT ![c] = r]
    /\ UNCHANGED <<plog, prow, ppc, completions, terminal, logged, pending>> /\ PSame

\* The runtime drops a task that was told to abort.
ChildAborted(c) ==
    /\ task[c] = "aborting" /\ task' = [task EXCEPT ![c] = "aborted"]
    /\ UNCHANGED <<plog, prow, ppc, completions, terminal, logged, pending>> /\ PSame

Finished == {c \in Children : task[c] \in {"ok", "nonzero", "error", "timeout"}}
Unjoined == {c \in Children : task[c] \notin {"off", "joined", "kept"}}
Joined(c) == IF task[c] = "ok" THEN "kept" ELSE "joined"

\* Variant: the others are left to run on.
AbortAll_Nothing(t) == t

AbortAll(t) == [c \in Children |-> IF t[c] = "running" THEN "aborting" ELSE t[c]]

VerdictOf(r) == CASE r \in {"nonzero", "error"} -> "failed" [] r = "timeout" -> "timeout" [] OTHER -> "completed"

Outcome(c) == IF task[c] \in {"ok", "nonzero"} THEN {[pos |-> c, exit |-> task[c]]} ELSE {}

Join(c) ==
    /\ ppc = "drain" /\ c \in Finished
    /\ completions' = completions \cup Outcome(c)
    /\ terminal' = VerdictOf(task[c])
    /\ LET t == [task EXCEPT ![c] = Joined(c)] IN
       task' = IF terminal' = "completed" THEN t ELSE AbortAll(t)
    /\ ppc' = IF terminal' = "completed" THEN "drain" ELSE "collect"
    /\ UNCHANGED <<plog, prow, logged, pending>> /\ PSame

DrainInterrupted ==
    /\ ppc = "drain" /\ Unjoined # {}
    /\ \/ "cancel" \in pinputs /\ terminal' = "cancelled"
       \/ "shutdown" \in pinputs /\ terminal' = "signal"
    /\ task' = AbortAll(task) /\ ppc' = "collect"
    /\ UNCHANGED <<plog, prow, completions, logged, pending>> /\ PSame

\* The second join loop: completed tasks count, every other result is dropped.
Collect(c) ==
    /\ ppc = "collect" /\ c \in Finished \cup {x \in Children : task[x] = "aborted"}
    /\ completions' = completions \cup Outcome(c)
    /\ task' = [task EXCEPT ![c] = Joined(c)]
    /\ UNCHANGED <<plog, prow, ppc, terminal, logged, pending>> /\ PSame

-----------------------------------------------------------------------------
(* Logging what was collected. *)

Drained ==
    /\ ppc \in {"drain", "collect"} /\ Unjoined = {}
    /\ ppc' = "log" /\ UNCHANGED <<plog, prow, plocals>> /\ PSame

Unlogged == {o \in completions : o.pos \notin logged}

\* completions.sort_by_key: the loop takes them by position.
Foremost(s) == CHOOSE o \in s : \A x \in s : o.pos <= x.pos

EventsOf(o) ==
    LET started == Record("step_started", o.pos, 0)
        ended == IF o.exit = "ok" THEN Record("step_completed", o.pos, pcrashes) ELSE OfContainer("step_failed")
    IN  IF fork[o.pos] = "chat"
        THEN <<started, Record("chat_user", o.pos, 0), Record("chat_assistant", o.pos, 0), ended>>
        ELSE <<started, ended>>

LogChild ==
    /\ ppc = "log" /\ pending = << >> /\ Unlogged # {}
    /\ LET o == Foremost(Unlogged) IN pending' = EventsOf(o) /\ logged' = logged \cup {o.pos}
    /\ UNCHANGED <<plog, prow, ppc, task, completions, terminal>> /\ PSame

\* The last position's snapshot, or the one an earlier process logged (recover_logged_output).
OutputEra ==
    IF [pos |-> Len(fork), exit |-> "ok"] \in completions THEN pcrashes
    ELSE LET past == {i \in Completed(plog) : plog[i].pos = Len(fork)}
         IN  IF past = {} THEN -1 ELSE plog[CHOOSE i \in past : \A j \in past : i <= j].era

\* emit_container_success, _failure, _cancel, _signal and _timeout.
TerminalEvents ==
    CASE terminal = "completed" -> <<Record("step_completed", 0, OutputEra)>>
      [] terminal = "signal" -> <<OfContainer("signal_received"), OfContainer("step_failed")>>
      [] terminal = "timeout" -> <<OfContainer("step_timeout_fired"), OfContainer("step_failed")>>
      [] OTHER -> <<OfContainer("step_failed")>>

LogEnd ==
    /\ ppc = "log" /\ pending = << >> /\ Unlogged = {}
    /\ pending' = TerminalEvents /\ ppc' = "close"
    /\ UNCHANGED <<plog, prow, task, completions, terminal, logged>> /\ PSame

Emit ==
    /\ ppc \in {"log", "close"} /\ pending # << >>
    /\ plog' = Append(plog, Head(pending)) /\ pending' = Tail(pending)
    /\ UNCHANGED <<prow, ppc, task, completions, terminal, logged>> /\ PSame

\* finalise_fail and finalise_cancel, after the last event.
PFinalise ==
    /\ ppc = "close" /\ pending = << >>
    /\ prow' = IF terminal = "completed" \/ prow # "running" THEN prow
               ELSE IF terminal \in {"cancelled", "signal"} THEN "cancelled" ELSE "failed"
    /\ ppc' = "returned" /\ UNCHANGED <<plog, plocals>> /\ PSame

-----------------------------------------------------------------------------
ParallelRunner ==
    \/ PDecided \/ PStart \/ EmptyFork \/ Refuse \/ Spawn
    \/ \E c \in Children : Join(c) \/ Collect(c)
    \/ DrainInterrupted \/ Drained \/ LogChild \/ LogEnd \/ Emit \/ PFinalise

AbortedTasks == \E c \in Children : ChildAborted(c)

PCrash ==
    /\ ppc \notin {"dead", "returned"} /\ pcrashes < MaxPCrashes
    /\ ppc' = "dead" /\ pcrashes' = pcrashes + 1 /\ pinputs' = {}
    /\ task' = NoTasks /\ completions' = {} /\ terminal' = "completed" /\ logged' = {} /\ pending' = << >>
    /\ UNCHANGED <<fork, plog, prow>>

PLaunch ==
    /\ ppc = "dead" /\ ppc' = "idle" /\ UNCHANGED <<fork, plog, prow, plocals, pinputs, pcrashes>>

\* Bound: one interruption per process.
PRaise(input) ==
    /\ ppc \notin {"dead", "returned"} /\ pinputs = {}
    /\ pinputs' = {input}
    /\ UNCHANGED <<fork, plog, prow, ppc, plocals, pcrashes>>

ParallelDone == ppc = "returned" /\ UNCHANGED parallelVars

ParallelNext ==
    \/ ParallelRunner \/ AbortedTasks
    \/ \E c \in Children : ChildEnds(c)
    \/ PCrash \/ PLaunch
    \/ \E input \in {"cancel", "shutdown"} : PRaise(input)
    \/ ParallelDone

ParallelSpec == ParallelInit /\ [][ParallelNext]_parallelVars

-----------------------------------------------------------------------------
(* Properties *)

OnRecord == {plog[i].pos : i \in Completed(plog)}

\* Types of run_parallel's state.
ParallelTypeOK ==
    /\ fork \in Forks /\ prow \in {"running", "failed", "cancelled"}
    /\ task \in [Children -> {"off", "running", "aborting", "aborted", "ok", "nonzero", "error",
                              "timeout", "joined", "kept"}]
    /\ \A o \in completions : o.pos \in Children /\ o.exit \in {"ok", "nonzero"}
    /\ terminal \in {"completed", "failed", "cancelled", "signal", "timeout"}
    /\ pinputs \subseteq {"cancel", "shutdown"} /\ pcrashes \in 0..MaxPCrashes

\* However often the process dies between two appends, no child is completed twice
\* (the replay-skip set of parallel_completed_positions).
ChildOnce ==
    \A i, j \in Completed(plog) : plog[i].pos = plog[j].pos => i = j

\* A parallel step completes only when every child has completed, in this or in an
\* earlier process (first failure wins in the drain).
CompleteMeansAll == HasCompleted(plog) => OnRecord = Children

\* The completions one process logs are in definition order, whatever the order the
\* children finished in.
DefinitionOrder ==
    \A i, j \in Completed(plog) : i < j /\ plog[i].era = plog[j].era => plog[i].pos < plog[j].pos

\* The container's output is the one logged for the last child in definition order, also
\* when that child ran in an earlier process.
OutputOfLastChild ==
    \A i \in DOMAIN plog : plog[i].ev = "step_completed" /\ plog[i].pos = 0 /\ fork # << >> =>
        \E j \in Completed(plog) : plog[j].pos = Len(fork) /\ plog[j].era = plog[i].era

\* A child that was joined with exit 0 is on record once the step has returned, also when a
\* sibling failed or the run was cancelled meanwhile (the second join loop).
FinishedIsLogged ==
    ppc = "returned" => {c \in Children : task[c] = "kept"} \subseteq OnRecord

\* No task of a child is left running behind a container that has ended, so a resume cannot race
\* one (abort_all and the drain that follows it).  The command a task waits for dies with it on the
\* host; one that docker runs is only left by its client and may go on in the session container.
NoStrayChild == ppc \in {"log", "close", "returned"} => \A c \in Children : task[c] \in {"off", "joined", "kept"}

\* What a parallel step records is what its children did, each once and by position, over any number of
\* processes; and nothing of it runs on behind the record.
ParallelSafe ==
    /\ ParallelTypeOK /\ ChildOnce /\ CompleteMeansAll /\ DefinitionOrder
    /\ OutputOfLastChild /\ FinishedIsLogged /\ NoStrayChild

\* A cancel or a signal that reaches a running parallel step ends it, even when a child
\* never ends by itself.
InterruptEnds == pinputs # {} ~> ppc \in {"returned", "dead"}
=============================================================================

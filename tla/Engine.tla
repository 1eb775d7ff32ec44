------------------------------- MODULE Engine -------------------------------
(***************************************************************************)
(* The v2 engine of crates/stepyard-harness/src/engine.rs driving ONE      *)
(* session: Engine::step called in a loop by the CLI (or Engine::resume),  *)
(* over a session log that survives crashes.                               *)
(*                                                                         *)
(* Every await of step() that another party can observe is an action of    *)
(* its own: each append to the log, the calls on the container and on the  *)
(* git worktree, and the update of the session row.  A crash may fall      *)
(* between any two of them; Launch is then Engine::resume_existing, which  *)
(* starts from the log, the row, the container and the worktree alone.     *)
(*                                                                         *)
(* Step names are positions 1..N (the workflow validator rejects           *)
(* duplicates).  A scope step stands for call, repeat and map, whose body  *)
(* events carry a scope_context (field scoped).                            *)
(***************************************************************************)
EXTENDS Integers, Sequences, FiniteSets

CONSTANTS
    N,             \* number of top-level steps of the workflow
    StepKinds,     \* the step kinds the workflow may use
    UseContainer,  \* HarnessConfig::container_workspace is set
    Strategy,      \* BranchStrategy of the workspace manager, or "none"
    Faults,        \* what may fail around the engine: git, container, copy
    MaxLaunches,   \* bound: processes that attach to the session in turn
    MaxScoped      \* bound: scoped events in the log

AllKinds == {"cmd", "agent", "chat", "gate", "template", "script", "scope"}
PureKinds == {"gate", "template", "script"}

ASSUME NAssumption == N \in Nat \ {0}
ASSUME KindsAssumption == StepKinds \subseteq AllKinds /\ StepKinds # {}
ASSUME ModeAssumption ==
    /\ UseContainer \in BOOLEAN
    /\ Strategy \in {"none", "head", "named_branch", "merge_to_head"}
    /\ Faults \subseteq {"git", "container", "copy"}
ASSUME BoundAssumption == MaxLaunches \in Nat \ {0} /\ MaxScoped \in Nat

VARIABLES
    wf,        \* the workflow: the kind of each step
    log,       \* the session log (session_events ordered by seq)
    row,       \* status column of the session row
    box,       \* the session container: absent, created, ready (marker file)
    boxWork,   \* steps whose file changes are in the container
    hostWork,  \* steps whose file changes are in the host project
    tree,      \* the git worktree of the session: absent, present, merged
    pc,        \* where the engine is inside step()
    cur,       \* the step this step() call works on
    verdict,   \* how this step() call is going to end
    local,     \* Session::status cached by the handle
    started,   \* Engine::started_at is set
    hasBox,    \* Engine::agent_container is set
    ws,        \* Engine::workspace is set
    sync,      \* Engine::workspace_sync, printed when the run ends
    cancel,    \* CancelToken
    shutdown,  \* a shutdown broadcast is in the receiver's queue
    launches   \* processes started so far

world == <<log, row, box, boxWork, hostWork, tree>>
handles == <<local, started, hasBox, ws, sync>>
inputs == <<cancel, shutdown>>
vars == <<wf, world, pc, cur, verdict, handles, inputs, launches>>

Statuses == {"running", "completed", "failed", "cancelled"}
EventNames ==
    {"workflow_started", "workspace_prepared", "branch_created",
     "step_started", "step_completed", "step_failed", "completion_signaled",
     "chat_message_appended", "signal_received", "step_timeout_fired",
     "idle_timeout_fired", "merge_attempted", "merge_conflict",
     "workflow_completed", "workflow_cancelled"}
Events == [ev : EventNames, step : 0..N, scoped : BOOLEAN]
Event(name, s) == [ev |-> name, step |-> s, scoped |-> FALSE]
ScopedEvent(name, s) == [ev |-> name, step |-> s, scoped |-> TRUE]

Verdicts == {"none", "ok", "signaled", "failed", "bodyFailed", "timeout",
             "idle", "cancelled", "signal"}
CancelVerdicts == {"cancelled", "signal"}
SuccessVerdicts == {"ok", "signaled"}

PCs == {"idle", "begin", "wsEvent", "wsBranch", "wsPrepare", "ensure",
        "copyIn", "emitStart", "dispatch", "chatUser", "running",
        "chatReply", "emitDone", "emitSignaled", "emitCause", "emitFailed",
        "tearDown", "syncBack", "dropBox", "mergeTry", "merge",
        "emitConflict", "emitCompleted", "emitCancelled", "cancelBox",
        "finish", "emitOuter", "returned", "down"}

-----------------------------------------------------------------------------
(* Progress rebuilt from the log.                                          *)

\* A completion counts for the top-level axis unless it carries a scope_context.
TopCompleted(e) == e.ev = "step_completed" /\ ~e.scoped
Logged(l, name) == \E i \in DOMAIN l : l[i].ev = name
CompletedSteps(l) == Cardinality({i \in DOMAIN l : TopCompleted(l[i])})
\* Variant: only the last event of the log is looked at.
HasFailure_LastOnly(l) == l # << >> /\ l[Len(l)].ev = "step_failed"

HasFailure(l) == Logged(l, "step_failed")
WorkflowDone(l) == Logged(l, "workflow_completed") \/ Logged(l, "completion_signaled")

-----------------------------------------------------------------------------
(* Engine::finalise_success, finalise_cancel and finalise_fail: where each *)
(* begins, and what follows the copy back.  All three are skipped when the *)
(* cached status says that the session has already ended.                  *)

\* A body failure returns to the scope runner, which then fails the container step.
AfterFinalise(v) == IF v = "bodyFailed" THEN "emitOuter" ELSE "returned"

\* Variant: the worktree is merged whatever the outcome.
AfterSync_MergesAlways(v) ==
    IF ws /\ Strategy = "merge_to_head" THEN "mergeTry"
    ELSE IF v \in SuccessVerdicts THEN "emitCompleted" ELSE "finish"

AfterSync(v) ==
    IF v \notin SuccessVerdicts THEN "finish"
    ELSE IF ws /\ Strategy = "merge_to_head" THEN "mergeTry"
    ELSE "emitCompleted"

\* Variant: a completion signal ends the run without the copy back.
Finalise_SignalSkipsCopy(v) ==
    IF local # "running" THEN AfterFinalise(v)
    ELSE IF v \in CancelVerdicts THEN "emitCancelled"
    ELSE IF hasBox /\ v # "signaled" THEN "syncBack"
    ELSE AfterSync(v)

Finalise(v) ==
    IF local # "running" THEN AfterFinalise(v)
    ELSE IF v \in CancelVerdicts THEN "emitCancelled"
    ELSE IF hasBox THEN "syncBack"
    ELSE AfterSync(v)

\* Variant: every session that was not cancelled is marked completed.
Goal_NeverFailed(v) == IF v \in CancelVerdicts THEN "cancelled" ELSE "completed"

Goal(v) ==
    IF v \in SuccessVerdicts THEN "completed"
    ELSE IF v \in CancelVerdicts THEN "cancelled"
    ELSE "failed"

-----------------------------------------------------------------------------
Init ==
    /\ wf \in [1..N -> StepKinds]
    /\ log = << >> /\ row = "running"
    /\ box = "absent" /\ boxWork = {} /\ hostWork = {} /\ tree = "absent"
    /\ pc = "idle" /\ cur = 1 /\ verdict = "none"
    /\ local = "running" /\ started = FALSE /\ hasBox = FALSE /\ ws = FALSE /\ sync = "none"
    /\ cancel = FALSE /\ shutdown = FALSE
    /\ launches = 1

\* Engine::emit: one append to the session log.
Emit(e) ==
    /\ log' = Append(log, e)
    /\ UNCHANGED <<row, box, boxWork, hostWork, tree>>

Stay == UNCHANGED <<wf, inputs, launches>>

(* step(): the four ways past the replay of the log. *)

\* Variant: a failure on record returns without looking at the row.
StepPreviouslyFailed_NoFinalise ==
    /\ pc = "idle" /\ HasFailure(log)
    /\ verdict' = "failed" /\ pc' = "returned"
    /\ UNCHANGED <<world, cur, handles>> /\ Stay

\* A failure is on record: only the row may still have to be brought in line.
StepPreviouslyFailed ==
    /\ pc = "idle" /\ HasFailure(log)
    /\ verdict' = "failed" /\ pc' = Finalise("failed")
    /\ UNCHANGED <<world, cur, handles>> /\ Stay

StepAllCompleted ==
    /\ pc = "idle" /\ ~HasFailure(log)
    /\ WorkflowDone(log) \/ CompletedSteps(log) >= N
    /\ verdict' = "ok" /\ pc' = Finalise("ok")
    /\ UNCHANGED <<world, cur, handles>> /\ Stay

\* Variant: a recorded failure does not stop the next step.
HasNext_AfterFailure == pc = "idle" /\ ~WorkflowDone(log) /\ CompletedSteps(log) < N

HasNext == pc = "idle" /\ ~HasFailure(log) /\ ~WorkflowDone(log) /\ CompletedSteps(log) < N

\* started_at is set before WorkflowStarted is appended.
FirstStep == CompletedSteps(log) = 0 /\ ~started

\* Variant: chat steps run without a StepStarted.
BeforeStart_ChatUnlogged(s) == IF wf[s] = "chat" THEN "dispatch" ELSE "ensure"

\* Where a step goes once the workflow has begun; chat steps stay on the host.
BeforeStart(s) == IF wf[s] = "chat" THEN "emitStart" ELSE "ensure"

\* Variant: the cancel fast path comes before the count of completed steps.
StepCancelledBefore_First ==
    /\ pc = "idle" /\ ~HasFailure(log) /\ ~WorkflowDone(log) /\ cancel
    /\ cur' = CompletedSteps(log) + 1 /\ verdict' = "cancelled"
    /\ started' = (started \/ FirstStep)
    /\ pc' = IF FirstStep THEN "begin" ELSE "emitFailed"
    /\ UNCHANGED <<world, local, hasBox, ws, sync>> /\ Stay

StepCancelledBefore ==
    /\ HasNext /\ cancel
    /\ cur' = CompletedSteps(log) + 1 /\ verdict' = "cancelled"
    /\ started' = (started \/ FirstStep)
    /\ pc' = IF FirstStep THEN "begin" ELSE "emitFailed"
    /\ UNCHANGED <<world, local, hasBox, ws, sync>> /\ Stay

StepNext ==
    /\ HasNext /\ ~cancel
    /\ cur' = CompletedSteps(log) + 1 /\ verdict' = "none"
    /\ started' = (started \/ FirstStep)
    /\ pc' = IF FirstStep THEN "begin" ELSE BeforeStart(CompletedSteps(log) + 1)
    /\ UNCHANGED <<world, local, hasBox, ws, sync>> /\ Stay

EmitWorkflowStarted ==
    /\ pc = "begin" /\ Emit(Event("workflow_started", 0))
    /\ pc' = IF verdict = "cancelled" THEN "emitFailed"
             ELSE IF Strategy = "none" \/ ws THEN BeforeStart(cur) ELSE "wsEvent"
    /\ UNCHANGED <<cur, verdict, handles>> /\ Stay

(* prepare_workspace_if_configured: events first, then git worktree add.   *)

EmitWorkspacePrepared ==
    /\ pc = "wsEvent" /\ Emit(Event("workspace_prepared", 0))
    /\ pc' = IF Strategy = "head" THEN "wsPrepare" ELSE "wsBranch"
    /\ UNCHANGED <<cur, verdict, handles>> /\ Stay

EmitBranchCreated ==
    /\ pc = "wsBranch" /\ Emit(Event("branch_created", 0))
    /\ pc' = "wsPrepare"
    /\ UNCHANGED <<cur, verdict, handles>> /\ Stay

\* git worktree add; a directory that is already there is an error, and an
\* error leaves step() with the row still running.
WorkspacePrepare ==
    /\ pc = "wsPrepare"
    /\ \/ /\ tree = "absent" /\ tree' = "present" /\ ws' = TRUE
          /\ pc' = BeforeStart(cur)
       \/ /\ tree # "absent" \/ "git" \in Faults
          /\ pc' = "returned" /\ UNCHANGED <<tree, ws>>
    /\ UNCHANGED <<log, row, box, boxWork, hostWork, cur, verdict, local, started, hasBox, sync>>
    /\ Stay

(* ensure_container_workspace *)

EnsureNothing ==
    /\ pc = "ensure" /\ (hasBox \/ ~UseContainer)
    /\ pc' = "emitStart"
    /\ UNCHANGED <<world, cur, verdict, handles>> /\ Stay

\* A test of the marker that cannot run reads like a marker that is not there.
EnsureContainer ==
    /\ pc = "ensure" /\ UseContainer /\ ~hasBox
    /\ \/ /\ box' = (IF box = "absent" THEN "created" ELSE box)
          /\ \/ box = "ready" /\ hasBox' = TRUE /\ pc' = "emitStart"
             \/ (box # "ready" \/ "container" \in Faults) /\ hasBox' = FALSE /\ pc' = "copyIn"
          /\ UNCHANGED verdict
       \/ /\ "container" \in Faults
          /\ pc' = "emitFailed" /\ verdict' = "failed"
          /\ UNCHANGED <<box, hasBox>>
    /\ UNCHANGED <<log, row, boxWork, hostWork, tree, cur, local, started, ws, sync>> /\ Stay

\* The copy overwrites the work it finds, if there is any.
CopyIn ==
    /\ pc = "copyIn" /\ boxWork' \in SUBSET boxWork
    /\ \/ /\ box' = "ready" /\ hasBox' = TRUE /\ pc' = "emitStart"
          /\ UNCHANGED verdict
       \/ /\ "container" \in Faults
          /\ pc' = "emitFailed" /\ verdict' = "failed"
          /\ UNCHANGED <<box, hasBox>>
    /\ UNCHANGED <<log, row, hostWork, tree, cur, local, started, ws, sync>> /\ Stay

EmitStepStarted ==
    /\ pc = "emitStart" /\ Emit(Event("step_started", cur))
    /\ pc' = "dispatch"
    /\ UNCHANGED <<cur, verdict, handles>> /\ Stay

\* The second look at the cancel token, then the dispatch by step kind.
DispatchCancelled ==
    /\ pc = "dispatch" /\ cancel
    /\ verdict' = "cancelled" /\ pc' = "emitFailed"
    /\ UNCHANGED <<world, cur, handles>> /\ Stay

\* Environment, prompt, template or configuration errors before anything runs.
DispatchRejected ==
    /\ pc = "dispatch" /\ ~cancel
    /\ verdict' = "failed" /\ pc' = "emitFailed"
    /\ UNCHANGED <<world, cur, handles>> /\ Stay

\* The command or agent starts to change files, in the container or on the host.
Dispatch ==
    /\ pc = "dispatch" /\ ~cancel
    /\ pc' = IF wf[cur] = "chat" THEN "chatUser" ELSE "running"
    /\ LET works == wf[cur] \in {"cmd", "agent", "scope"}
       IN  /\ boxWork' = IF works /\ hasBox THEN boxWork \cup {cur} ELSE boxWork
           /\ hostWork' = IF works /\ ~hasBox THEN hostWork \cup {cur} ELSE hostWork
    /\ UNCHANGED <<log, row, box, tree, cur, verdict, handles>> /\ Stay

EmitUserTurn ==
    /\ pc = "chatUser" /\ Emit(Event("chat_message_appended", cur))
    /\ pc' = "running"
    /\ UNCHANGED <<cur, verdict, handles>> /\ Stay

\* Body steps of a scope log under the container's name with a scope_context.
ScopedProgress(name) ==
    /\ pc = "running" /\ wf[cur] = "scope"
    /\ Cardinality({i \in DOMAIN log : log[i].scoped}) < MaxScoped
    /\ Emit(ScopedEvent(name, cur))
    /\ UNCHANGED <<pc, cur, verdict, handles>> /\ Stay

\* The verdicts the select! of each step kind can reach.
Outcomes(k) ==
    {"ok", "failed"}
      \cup (IF k \in PureKinds THEN {} ELSE {"timeout"})
      \cup (IF k \notin PureKinds /\ cancel THEN {"cancelled"} ELSE {})
      \cup (IF k \notin PureKinds /\ shutdown THEN {"signal"} ELSE {})
      \cup (IF k \in {"cmd", "scope"} THEN {"idle"} ELSE {})
      \cup (IF k = "agent" THEN {"signaled"} ELSE {})
      \cup (IF k = "scope" THEN {"bodyFailed"} ELSE {})

AfterSelect(v) ==
    IF v = "ok" THEN (IF wf[cur] = "chat" THEN "chatReply" ELSE "emitDone")
    ELSE IF v = "signaled" THEN "emitSignaled"
    ELSE IF v \in {"timeout", "idle", "signal"} THEN "emitCause"
    ELSE "emitFailed"

Select ==
    /\ pc = "running"
    /\ \E v \in Outcomes(wf[cur]) : verdict' = v /\ pc' = AfterSelect(v)
    /\ UNCHANGED <<world, cur, handles>> /\ Stay

EmitReply ==
    /\ pc = "chatReply" /\ Emit(Event("chat_message_appended", cur))
    /\ pc' = "emitDone"
    /\ UNCHANGED <<cur, verdict, handles>> /\ Stay

\* Variant: the completion is logged under the zero-based step index.
EmitStepCompleted_ZeroBased ==
    /\ pc = "emitDone" /\ Emit(Event("step_completed", cur - 1))
    /\ pc' = "idle"
    /\ UNCHANGED <<cur, verdict, handles>> /\ Stay

EmitStepCompleted ==
    /\ pc = "emitDone" /\ Emit(Event("step_completed", cur))
    /\ pc' = "idle"
    /\ UNCHANGED <<cur, verdict, handles>> /\ Stay

EmitCompletionSignaled ==
    /\ pc = "emitSignaled" /\ Emit(Event("completion_signaled", cur))
    /\ pc' = Finalise(verdict)
    /\ UNCHANGED <<cur, verdict, handles>> /\ Stay

CauseOf(v) ==
    IF v = "timeout" THEN "step_timeout_fired"
    ELSE IF v = "idle" THEN "idle_timeout_fired" ELSE "signal_received"

\* Variant: a timeout removes the container before the failure is logged.
EmitCause_TearDownFirst ==
    /\ pc = "emitCause"
    /\ Emit(Event(CauseOf(verdict), cur))
    /\ pc' = IF verdict \in {"timeout", "idle"} THEN "tearDown" ELSE "emitFailed"
    /\ UNCHANGED <<cur, verdict, handles>> /\ Stay

\* What interrupted the step is logged before the failure itself.
EmitCause ==
    /\ pc = "emitCause"
    /\ Emit(Event(CauseOf(verdict), cur))
    /\ pc' = "emitFailed"
    /\ UNCHANGED <<cur, verdict, handles>> /\ Stay

\* Only a command's timeout removes the container ahead of finalise_fail.
EmitStepFailed ==
    /\ pc = "emitFailed" /\ Emit(Event("step_failed", cur))
    /\ \/ /\ verdict \in {"timeout", "idle"} /\ wf[cur] \in {"cmd", "scope"}
          /\ pc' = "tearDown"
       \/ /\ verdict \notin {"timeout", "idle"} \/ wf[cur] # "cmd"
          /\ pc' = Finalise(verdict)
    /\ UNCHANGED <<cur, verdict, handles>> /\ Stay

\* destroy_by_session; its error is ignored, so the container may stay.
DestroyBox ==
    /\ \/ box' = "absent" /\ boxWork' = {}
       \/ "container" \in Faults /\ UNCHANGED <<box, boxWork>>
    /\ UNCHANGED <<log, row, hostWork, tree>>

TearDown ==
    /\ pc = "tearDown" /\ DestroyBox
    /\ pc' = Finalise(verdict)
    /\ UNCHANGED <<cur, verdict, handles>> /\ Stay

(* sync_container_workspace_back: copy the changes out, whatever the result *)
(* remove the container.                                                   *)

SyncBack ==
    /\ pc = "syncBack"
    /\ hasBox' = FALSE /\ pc' = "dropBox"
    /\ \/ box = "ready" /\ hostWork' = hostWork \cup boxWork /\ sync' = "synced"
       \/ /\ box # "ready" \/ "copy" \in Faults
          /\ UNCHANGED hostWork /\ sync' = "failed"
    /\ UNCHANGED <<log, row, box, boxWork, tree, cur, verdict, local, started, ws>> /\ Stay

DropBox ==
    /\ pc = "dropBox" /\ DestroyBox
    /\ pc' = AfterSync(verdict)
    /\ UNCHANGED <<cur, verdict, handles>> /\ Stay

(* finalize_workspace_success_if_configured *)

EmitMergeAttempted ==
    /\ pc = "mergeTry" /\ Emit(Event("merge_attempted", 0))
    /\ pc' = "merge"
    /\ UNCHANGED <<cur, verdict, handles>> /\ Stay

Merge ==
    /\ pc = "merge"
    /\ \/ tree' = "merged" /\ pc' = "emitCompleted"
       \/ UNCHANGED tree /\ pc' = "emitConflict"
       \/ "git" \in Faults /\ tree' \in {tree, "merged"} /\ pc' = "returned"
    /\ UNCHANGED <<log, row, box, boxWork, hostWork, cur, verdict, handles>> /\ Stay

EmitMergeConflict ==
    /\ pc = "emitConflict" /\ Emit(Event("merge_conflict", 0))
    /\ pc' = "returned"
    /\ UNCHANGED <<cur, verdict, handles>> /\ Stay

EmitWorkflowCompleted ==
    /\ pc = "emitCompleted" /\ Emit(Event("workflow_completed", 0))
    /\ pc' = "finish"
    /\ UNCHANGED <<cur, verdict, handles>> /\ Stay

EmitWorkflowCancelled ==
    /\ pc = "emitCancelled" /\ Emit(Event("workflow_cancelled", 0))
    /\ pc' = "cancelBox"
    /\ UNCHANGED <<cur, verdict, handles>> /\ Stay

CancelBox ==
    /\ pc = "cancelBox" /\ DestroyBox
    /\ pc' = "finish"
    /\ UNCHANGED <<cur, verdict, handles>> /\ Stay

\* Session::finish: only a running row moves; the handle follows only then.
Finish ==
    /\ pc = "finish"
    /\ row' = IF row = "running" THEN Goal(verdict) ELSE row
    /\ local' = IF row = "running" THEN Goal(verdict) ELSE local
    /\ pc' = AfterFinalise(verdict)
    /\ UNCHANGED <<log, box, boxWork, hostWork, tree, cur, verdict, started, hasBox, ws, sync>>
    /\ Stay

\* emit_container_failure: the scope step fails after its body did.
EmitOuterFailed ==
    /\ pc = "emitOuter" /\ Emit(Event("step_failed", cur))
    /\ verdict' = "failed"
    /\ pc' = Finalise("failed")
    /\ UNCHANGED <<cur, handles>> /\ Stay

-----------------------------------------------------------------------------
(* The world around the engine. *)

Up == pc \notin {"returned", "down"}

\* CancelToken::cancel from another task.
Cancel ==
    /\ Up /\ ~cancel /\ cancel' = TRUE
    /\ UNCHANGED <<wf, world, pc, cur, verdict, handles, shutdown, launches>>

\* SIGINT or SIGTERM: the broadcast reaches the engine's receiver.
Shutdown ==
    /\ Up /\ ~shutdown /\ shutdown' = TRUE
    /\ UNCHANGED <<wf, world, pc, cur, verdict, handles, cancel, launches>>

\* The process dies, or the signal handler's grace deadline ends it.
Crash ==
    /\ Up /\ launches < MaxLaunches
    /\ pc' = "down"
    /\ UNCHANGED <<wf, world, cur, verdict, handles, inputs, launches>>

\* step() returned a terminal outcome or an error and the process exits.
Exit ==
    /\ pc = "returned" /\ pc' = "down"
    /\ UNCHANGED <<wf, world, cur, verdict, handles, inputs, launches>>

\* Engine::resume_existing: a fresh engine on the stored session.
Launch ==
    /\ pc = "down" /\ launches < MaxLaunches
    /\ launches' = launches + 1
    /\ pc' = "idle" /\ cur' = 1 /\ verdict' = "none"
    /\ local' = row /\ started' = FALSE /\ hasBox' = FALSE /\ ws' = FALSE /\ sync' = "none"
    /\ cancel' = FALSE /\ shutdown' = FALSE
    /\ UNCHANGED <<wf, world>>

Step == StepPreviouslyFailed \/ StepAllCompleted \/ StepCancelledBefore \/ StepNext
Prepare == EmitWorkflowStarted \/ EmitWorkspacePrepared \/ EmitBranchCreated
             \/ WorkspacePrepare \/ EnsureNothing \/ EnsureContainer \/ CopyIn
Execute == EmitStepStarted \/ DispatchCancelled \/ DispatchRejected \/ Dispatch
             \/ EmitUserTurn \/ Select \/ EmitReply
Conclude == EmitStepCompleted \/ EmitCompletionSignaled \/ EmitCause
             \/ EmitStepFailed \/ TearDown \/ EmitOuterFailed
Finalising == SyncBack \/ DropBox \/ EmitMergeAttempted \/ Merge \/ EmitMergeConflict
             \/ EmitWorkflowCompleted \/ EmitWorkflowCancelled \/ CancelBox \/ Finish
EngineNext == Step \/ Prepare \/ Execute \/ Conclude \/ Finalising
Body == \E name \in {"step_started", "step_completed"} : ScopedProgress(name)
\* Nobody resumes the session any more.
Stopped == pc = "down" /\ launches = MaxLaunches /\ UNCHANGED vars

Environment == Cancel \/ Shutdown \/ Crash \/ Exit \/ Launch \/ Stopped

Next == EngineNext \/ Body \/ Environment

\* The runtime keeps polling the engine, every command ends or times out, and
\* a session whose process died is resumed.
Fairness == WF_vars(EngineNext) /\ WF_vars(Exit) /\ WF_vars(Launch)

Spec == Init /\ [][Next]_vars
FairSpec == Spec /\ Fairness

-----------------------------------------------------------------------------
(* Properties. *)

\* Every variable has its type; in particular no engine thread of control is
\* ever outside the places step() has.
TypeOK ==
    /\ wf \in [1..N -> StepKinds]
    /\ log \in Seq(Events) /\ row \in Statuses
    /\ box \in {"absent", "created", "ready"}
    /\ boxWork \subseteq 1..N /\ hostWork \subseteq 1..N
    /\ tree \in {"absent", "present", "merged"}
    /\ pc \in PCs /\ cur \in 1..N /\ verdict \in Verdicts
    /\ local \in Statuses /\ started \in BOOLEAN /\ hasBox \in BOOLEAN
    /\ ws \in BOOLEAN /\ sync \in {"none", "synced", "failed"}
    /\ cancel \in BOOLEAN /\ shutdown \in BOOLEAN
    /\ launches \in 1..MaxLaunches

\* Whatever crashes and resumes there were, the k-th top-level completion in
\* the log is the completion of step k: compute_progress never makes a resumed
\* engine skip a step or count one twice, with scoped completions in between.
CompletionsInOrder ==
    \A i \in DOMAIN log :
        TopCompleted(log[i]) =>
            log[i].step = Cardinality({j \in 1..i : TopCompleted(log[j])})

\* A step_failed on the log is the end of the workflow, for this process and
\* for every later one: no step starts, completes or signals completion, and
\* the workflow is not reported complete, after it.
NothingAfterFailure ==
    \A i, j \in DOMAIN log :
        i < j /\ log[i].ev = "step_failed" =>
            log[j].ev \notin {"step_started", "step_completed",
                             "completion_signaled", "workflow_completed"}

\* A terminal row can be explained from the log alone: completed only with
\* WorkflowCompleted after every step (or a completion signal) and no failure,
\* failed only with a failed step, cancelled only with WorkflowCancelled too.
RowExplained ==
    /\ row = "completed" =>
         /\ Logged(log, "workflow_completed") /\ ~HasFailure(log)
         /\ CompletedSteps(log) = N \/ Logged(log, "completion_signaled")
    /\ row = "failed" => HasFailure(log)
    /\ row = "cancelled" => HasFailure(log) /\ Logged(log, "workflow_cancelled")

\* WorkflowStarted: a process logs it at most once, and none logs it once a step
\* has completed. (A resume before the first completion does log it again, since
\* started_at is not rebuilt from the log.)
StartedBeforeProgress ==
    LET Starts == {i \in DOMAIN log : log[i].ev = "workflow_started"} IN
    /\ Cardinality(Starts) <= launches
    /\ \A i \in Starts : \A j \in DOMAIN log : TopCompleted(log[j]) => i < j

\* Emit-before-IO for execution: while a command, agent or body runs, its
\* StepStarted is the last top-level step event of the log, it is the first
\* step without a completion, and the workflow has not been decided.
RunsOnlyPending ==
    pc \in {"chatUser", "running"} =>
        /\ cur = CompletedSteps(log) + 1
        /\ ~HasFailure(log) /\ ~WorkflowDone(log)
        /\ \E i \in DOMAIN log :
             /\ log[i] = Event("step_started", cur)
             /\ \A j \in DOMAIN log : j > i => log[j].step = cur /\ ~TopCompleted(log[j])

\* Across crashes and resumes the workflow and its steps start where the log says they do.
StartsInPlace == StartedBeforeProgress /\ RunsOnlyPending

\* Emit-before-IO for teardown: the session container is only ever removed once
\* the log decides the workflow, so a process that resumes after a crash in the
\* middle of a teardown never runs a step in a fresh, emptied container.
DestroyOnlyWhenDecided ==
    [][box # "absent" /\ box' = "absent" =>
          HasFailure(log) \/ WorkflowDone(log) \/ CompletedSteps(log) = N]_vars

\* The completed steps that changed files.
WorkOfCompleted ==
    {log[i].step : i \in {k \in DOMAIN log :
        TopCompleted(log[k]) /\ wf[log[k].step] \in {"cmd", "agent", "scope"}}}

\* In a run no process of which died, a completed workflow has the work of every
\* step that ran in the container on the host, unless the run reports that the
\* copy failed.
UninterruptedRunKeepsWork ==
    launches = 1 /\ row = "completed" /\ sync # "failed" =>
        WorkOfCompleted \subseteq hostWork

\* With merge_to_head, only a workflow that succeeded is ever merged: a failed,
\* cancelled or unfinished session's branch stays apart, across any crashes.
MergesOnlySuccess ==
    tree = "merged" =>
        ~HasFailure(log) /\ (WorkflowDone(log) \/ CompletedSteps(log) = N)

\* A cancelled run removes the container without copying changes back: no step's
\* container work ever reaches the host.
CancelCopiesNothing == UseContainer /\ row = "cancelled" => hostWork = {}

\* The host gets the work of a run that succeeded, and nothing of one that was cancelled.
HostGetsWork == UninterruptedRunKeepsWork /\ CancelCopiesNothing

\* If crashes stop, some process brings the row to a terminal status.
SessionEnds == <>(row # "running")

(* What comments and documents of the repository say, and the runs refute. *)

\* "A crash between steps loses nothing": a completed session has the work of
\* all its completed steps on the host.
CrashLosesNothing == row = "completed" => WorkOfCompleted \subseteq hostWork

\* "When the workflow ends (also when a step fails), the files that changed are
\* copied back": so are those of the steps before a failed one.
FailureKeepsWork == row = "failed" => WorkOfCompleted \subseteq hostWork

-----------------------------------------------------------------------------
(* The refinement: what an observer of the log and of the row sees. *)

Decision ==
    IF HasFailure(log) THEN "failure"
    ELSE IF WorkflowDone(log) THEN "success" ELSE "open"

Run == INSTANCE WorkflowRun WITH done <- CompletedSteps(log), decided <- Decision, status <- row

\* The engine, with its crashes and resumes, implements the promise of
\* WorkflowRun.
ImplementsRun == Run!RunSpec
=============================================================================

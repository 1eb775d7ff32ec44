------------------------------ MODULE V1Engine ------------------------------
(***************************************************************************)
(* Engine::run of the v1 engine: resume from a state file, the sandbox     *)
(* container and the API proxy around the run, the step loop with its      *)
(* async steps, the session log, the dashboard fed from the event bus, and *)
(* the session row.                                                        *)
(*                                                                         *)
(* An output is named by the launch that produced it.  Every append to the *)
(* session may fail; the process may be killed between any two steps.      *)
(***************************************************************************)
EXTENDS Integers, Sequences, FiniteSets, SequencesExt

CONSTANTS
    Flows,         \* the workflows to consider: sequences of FlowStep
    MaxLaunches,   \* bound: executions of the workflow, one after another
    Shared         \* the steps whose names another workflow has too: see OtherSaves

\* How a template of a step reads the output of another: in run, prompt or condition or elsewhere (a list of
\* items, a message, a call's arguments); as steps.NAME. with a NAME of letters, digits and underscores or in
\* any other way (from("NAME"), a bare name, a name with a hyphen); with ?, so that it may be missing, or not.
Reference == [step : Nat, field : {"scanned", "other"}, via : {"steps", "other"}, safe : BOOLEAN]
FlowStep == [kind : {"plain", "gate"}, async : BOOLEAN, reads : SUBSET Reference]

ASSUME V1Assumption == Flows \subseteq Seq(FlowStep) /\ MaxLaunches \in Nat /\ Shared \subseteq Nat

VARIABLES
    flow, boxed,   \* the workflow; whether its steps run in a container
    vpc, pos,      \* where run() is, and at which step
    launches,      \* executions so far; the current one is the last
    resume,        \* --resume: the step to start at, 0 without the flag
    loaded,        \* the state file read for a resume
    vctx,          \* Context: step outputs
    current,       \* current_state: the outputs of this execution that a save would write
    files,         \* the workflow's state files, by modification time
    foreign,       \* a state file newer than those, of a workflow whose name begins with this one's
    tasks,         \* pending_futures: how far each spawned step is
    fault,         \* run_result is an error
    vrow, vlog,    \* the session: its row and its events
    dash,          \* DashboardSubscriber
    box, proxy     \* the container and the API proxy

v1Session == <<vrow, vlog, dash>>
v1Sandbox == <<box, proxy>>
v1State == <<loaded, current, files, foreign>>
v1Run == <<flow, boxed, launches, resume>>
v1Vars == <<v1Run, v1State, v1Session, v1Sandbox, vpc, pos, vctx, tasks, fault>>

Absent == -1
Empty == 0
Foreign == -2
NoOutputs == [i \in DOMAIN flow |-> Absent]
Pending == {i \in DOMAIN flow : tasks[i] # "none"}
Goto(pc) == vpc' = pc

-----------------------------------------------------------------------------
(* The event bus and the dashboard subscriber *)

NoTracking == [steps |-> << >>, pending |-> {}, sent |-> "none"]

\* build_payload: the run failed if some tracked step did.
Status(d) == IF \E i \in DOMAIN d.steps : d.steps[i].status = "failed" THEN "failed" ELSE "success"

Tracked(d, step, status) ==
    [d EXCEPT !.pending = @ \ {step}, !.steps = Append(@, [step |-> step, status |-> status])]

OnEvent(d, e) ==
    CASE e.ev = "step_started" -> [d EXCEPT !.pending = @ \cup {e.step}]
      [] e.ev = "step_completed" -> Tracked(d, e.step, "success")
      [] e.ev = "step_failed" -> Tracked(d, e.step, "failed")
      [] e.ev = "workflow_completed" -> [d EXCEPT !.sent = Status(d)]   \* handed to a task that posts it
      [] OTHER -> d

Ev(name, step) == [ev |-> name, step |-> step]
\* emit_event: the log first, then the bus.
Emitted(e) == vlog' = Append(vlog, e) /\ dash' = OnEvent(dash, e) /\ UNCHANGED vrow

EmitLost(e) == UNCHANGED v1Session

-----------------------------------------------------------------------------
(* Launch and resume *)

V1Init ==
    /\ flow \in Flows /\ boxed \in BOOLEAN /\ vpc = "off" /\ pos = 0 /\ launches = 0 /\ resume = 0
    /\ loaded = NoOutputs /\ vctx = NoOutputs /\ current = NoOutputs /\ files = << >> /\ foreign = << >>
    /\ tasks = [i \in DOMAIN flow |-> "none"] /\ fault = FALSE
    /\ vrow = "none" /\ vlog = << >> /\ dash = NoTracking /\ box = "none" /\ proxy = "off"

\* The operator runs the workflow, perhaps from a step; the name may be unknown.
V1Launch ==
    /\ vpc \in {"off", "returned", "dead"} /\ launches < MaxLaunches
    /\ launches' = launches + 1 /\ resume' \in 0..Len(flow) + 1
    /\ pos' = 1 /\ loaded' = NoOutputs /\ vctx' = NoOutputs /\ current' = NoOutputs
    /\ tasks' = [i \in DOMAIN flow |-> "none"] /\ fault' = FALSE
    /\ vrow' = "running" /\ vlog' = << >> /\ dash' = NoTracking /\ box' = "none" /\ proxy' = "off"
    /\ Goto("setup") /\ UNCHANGED <<flow, boxed, files, foreign>>

\* Another workflow, whose name is this one's with a hyphen and more behind it, saves its state: the outputs
\* of some of its steps, which may have names of steps of this one.  Nothing reads the file before the next
\* execution, so when it is written during one does not matter.
OtherSaves ==
    /\ vpc \in {"off", "returned", "dead"} /\ launches < MaxLaunches
    /\ \/ foreign' = <<[whole |-> FALSE, steps |-> NoOutputs]>>
       \/ \E done \in SUBSET (Shared \cap DOMAIN flow) :
             foreign' = <<[whole |-> TRUE, steps |-> [i \in DOMAIN flow |-> IF i \in done THEN Foreign ELSE Absent]]>>
    /\ UNCHANGED <<v1Run, v1Session, v1Sandbox, loaded, current, files, vpc, pos, vctx, tasks, fault>>

\* find_latest: the most recently written state file whose name begins with the workflow's.
FindLatest(own, other) == IF other # << >> THEN other ELSE IF own = << >> THEN << >> ELSE <<Last(own)>>

\* Drop for DockerSandbox: a container whose id is still held is removed.
Dropped(b) == IF b = "up" THEN "none" ELSE b

\* run() returns and the engine goes: what it still owns is dropped, its proxy told to stop.
\* The runtime ends with main, and with it every spawned task.
Return(failed) ==
    /\ Goto("returned") /\ fault' = failed /\ box' = Dropped(box) /\ proxy' = "off"

Resumable == LET f == FindLatest(files, foreign) IN f # << >> /\ f[1].whole /\ resume \in DOMAIN flow

\* No state file, an unreadable one or an unknown step: the error leaves run() at once,
\* before anything marks the session.
ResumeRefused ==
    /\ vpc = "setup" /\ resume # 0 /\ ~Resumable
    /\ Return(TRUE) /\ UNCHANGED <<v1Run, v1State, v1Session, pos, vctx, tasks>>

ResumeSetup ==
    /\ vpc = "setup"
    /\ \/ resume = 0 /\ loaded' = loaded
       \/ resume # 0 /\ Resumable /\ loaded' = FindLatest(files, foreign)[1].steps
    /\ Goto(IF boxed THEN "proxy" ELSE "begin")
    /\ UNCHANGED <<v1Run, v1Session, v1Sandbox, pos, vctx, current, files, foreign, tasks, fault>>

-----------------------------------------------------------------------------
(* sandbox_up and sandbox_down *)

\* ANTHROPIC_API_KEY on the host starts the proxy; without it the container gets the
\* host's environment as it is.
StartProxy ==
    /\ vpc = "proxy" /\ proxy' \in {"off", "on"} /\ Goto("create")
    /\ UNCHANGED <<v1Run, v1State, v1Session, box, pos, vctx, tasks, fault>>

CreateContainer ==
    /\ vpc = "create" /\ box' = "up" /\ Goto("populate")
    /\ UNCHANGED <<v1Run, v1State, v1Session, proxy, pos, vctx, tasks, fault>>

\* Clone or copy_workspace, then the git configuration, whose failures are ignored.
PopulateWorkspace ==
    /\ vpc = "populate" /\ Goto("begin")
    /\ UNCHANGED <<v1Run, v1State, v1Session, v1Sandbox, pos, vctx, tasks, fault>>

\* The proxy cannot bind, docker refuses, the clone or the copy fails.
SandboxUpFails ==
    /\ vpc \in {"proxy", "create", "populate"}
    /\ Return(TRUE) /\ UNCHANGED <<v1Run, v1State, v1Session, pos, vctx, tasks>>

\* copy_results fails: sandbox_down leaves by its error, and the guard it held is dropped;
\* the proxy waits for the engine to go.
CopyBackFails ==
    /\ vpc = "down" /\ box = "up" /\ box' = Dropped(box) /\ Goto("closing")
    /\ UNCHANGED <<v1Run, v1State, v1Session, proxy, pos, vctx, tasks, fault>>

\* destroy takes the id before it runs docker rm, so one that cannot run leaves the container.
Destroy ==
    /\ vpc = "down" /\ box = "up" /\ box' \in {"none", "leaked"}
    /\ proxy' = (IF box' = "none" THEN "off" ELSE proxy) /\ Goto("closing")
    /\ UNCHANGED <<v1Run, v1State, v1Session, pos, vctx, tasks, fault>>

NoSandboxDown ==
    /\ vpc = "down" /\ box = "none" /\ Goto("closing")
    /\ UNCHANGED <<v1Run, v1State, v1Session, v1Sandbox, pos, vctx, tasks, fault>>

-----------------------------------------------------------------------------
(* The step loop *)

LoopFrame == <<v1Run, v1Sandbox, loaded, current, files, foreign>>

WorkflowStarted ==
    /\ vpc = "begin"
    /\ \/ /\ Emitted(Ev("workflow_started", 0)) /\ Goto("loop")
          /\ UNCHANGED <<v1Sandbox, fault>>
       \/ EmitLost(Ev("workflow_started", 0)) /\ Return(TRUE)
    /\ UNCHANGED <<v1Run, v1State, pos, vctx, tasks>>

Here == flow[pos]
\* The outputs a step cannot do without, and the references await_pending_deps finds.
Needs(step) == {q.step : q \in {r \in step.reads : ~r.safe}}
Scanned(step) == {q.step : q \in {r \in step.reads : r.field = "scanned" /\ r.via = "steps"}}
Skipped == resume # 0 /\ pos < resume
AtStep == vpc = "loop" /\ pos \in DOMAIN flow

\* Before the resume point a step only lends the output its state file holds.
SkipStep ==
    /\ AtStep /\ Skipped /\ vctx' = [vctx EXCEPT ![pos] = loaded[pos]] /\ pos' = pos + 1
    /\ UNCHANGED <<LoopFrame, v1Session, vpc, tasks, fault>>

SpawnAsyncStep ==
    /\ AtStep /\ ~Skipped /\ Here.async
    /\ tasks' = [tasks EXCEPT ![pos] = "running"] /\ pos' = pos + 1
    /\ UNCHANGED <<LoopFrame, v1Session, vpc, vctx, fault>>

\* A spawned step has the target alone in its context: it fails if it needs a step, and it
\* ends because its executor has a timeout.
TaskEnds(i) ==
    /\ tasks[i] = "running"
    /\ \E end \in {"ok", "failed"} :
          /\ end = "ok" => Needs(flow[i]) = {} /\ flow[i].kind # "gate"
          /\ tasks' = [tasks EXCEPT ![i] = end]
    /\ UNCHANGED <<LoopFrame, v1Session, vpc, pos, vctx, fault>>

\* Variant: a reference is awaited whether or not its step has been spawned.
Deps_Unspawned(step) == {i \in Scanned(step) : flow[i].async /\ vctx[i] = Absent}

Deps(step) == Scanned(step) \cap Pending

\* await_pending_deps, one reference after another; a failed one fails the run.
AwaitDep ==
    /\ AtStep /\ ~Skipped /\ ~Here.async
    /\ \E i \in Deps(Here) :
          /\ tasks[i] \in {"ok", "failed"} /\ tasks' = [tasks EXCEPT ![i] = "none"]
          /\ \/ /\ tasks[i] = "ok" /\ vctx' = [vctx EXCEPT ![i] = launches] /\ UNCHANGED <<vpc, fault>>
             \/ tasks[i] = "failed" /\ fault' = TRUE /\ Goto("drain") /\ UNCHANGED vctx
    /\ UNCHANGED <<LoopFrame, v1Session, pos>>

StepStarted ==
    /\ AtStep /\ ~Skipped /\ ~Here.async /\ Deps(Here) = {}
    /\ \/ Emitted(Ev("step_started", pos)) /\ Goto("exec") /\ UNCHANGED fault
       \/ EmitLost(Ev("step_started", pos)) /\ Goto("drain") /\ fault' = TRUE
    /\ UNCHANGED <<LoopFrame, pos, vctx, tasks>>

\* The executor: a template that needs a missing output fails; a gate answers by control flow.
Execute ==
    /\ vpc = "exec"
    /\ \/ Goto("failed") /\ UNCHANGED <<pos, vctx, fault>>
       \/ /\ \A i \in Needs(Here) : vctx[i] # Absent
          /\ \/ Goto("completed") /\ vctx' = [vctx EXCEPT ![pos] = launches] /\ UNCHANGED <<pos, fault>>
             \/ /\ Here.kind = "gate"
                /\ \/ Goto("loop") /\ vctx' = [vctx EXCEPT ![pos] = Empty] /\ pos' = pos + 1 /\ UNCHANGED fault
                   \/ Goto("drain") /\ fault' \in BOOLEAN /\ UNCHANGED <<pos, vctx>>
    /\ UNCHANGED <<LoopFrame, v1Session, tasks>>

\* StepCompleted that cannot be logged turns the success into a failure of the run.
StepCompleted ==
    /\ vpc = "completed"
    /\ \/ Emitted(Ev("step_completed", pos)) /\ Goto("save") /\ UNCHANGED fault
       \/ EmitLost(Ev("step_completed", pos)) /\ Goto("drain") /\ fault' = TRUE
    /\ UNCHANGED <<LoopFrame, pos, vctx, tasks>>

AfterFailure == Goto("drain") /\ fault' = TRUE /\ UNCHANGED pos

StepFailed ==
    /\ vpc = "failed"
    /\ (Emitted(Ev("step_failed", pos)) \/ EmitLost(Ev("step_failed", pos)))
    /\ AfterFailure /\ UNCHANGED <<LoopFrame, vctx, tasks>>

\* Those of other executions: a file of this one would be the last.
OlderFiles == IF files # << >> /\ Last(files).by = launches THEN Front(files) ELSE files

\* save: the file of this execution is rewritten in place; it may end up torn, or unwritten.
SaveState ==
    /\ vpc = "save" /\ current' = [current EXCEPT ![pos] = vctx[pos]]
    /\ \/ UNCHANGED <<files, foreign>>
       \/ \E w \in BOOLEAN :
             files' = Append(OlderFiles, [by |-> launches, whole |-> w, steps |-> current']) /\ foreign' = << >>
    /\ pos' = pos + 1 /\ Goto("loop")
    /\ UNCHANGED <<v1Run, v1Session, v1Sandbox, loaded, vctx, tasks, fault>>

LoopEnds ==
    /\ vpc = "loop" /\ pos > Len(flow) /\ Goto("drain")
    /\ UNCHANGED <<LoopFrame, v1Session, pos, vctx, tasks, fault>>

-----------------------------------------------------------------------------
(* After the loop *)

\* Variant: the error of the loop returns before the remaining tasks are awaited.
Undrained_UnlessFailed == IF fault THEN {} ELSE Pending

\* The handles drained from pending_futures, in the order of a hash map.
Undrained == Pending

\* A failure found here is recorded and does not change the result of the run.
DrainTask ==
    /\ vpc = "drain"
    /\ \E i \in Undrained :
          /\ tasks[i] \in {"ok", "failed"} /\ tasks' = [tasks EXCEPT ![i] = "none"]
          /\ vctx' = IF tasks[i] = "ok" THEN [vctx EXCEPT ![i] = launches] ELSE vctx
    /\ UNCHANGED <<LoopFrame, v1Session, vpc, pos, fault>>

Drained ==
    /\ vpc = "drain" /\ Undrained = {} /\ Goto("down")
    /\ UNCHANGED <<LoopFrame, v1Session, pos, vctx, tasks, fault>>

WorkflowCompleted ==
    /\ vpc = "closing"
    /\ \/ Emitted(Ev("workflow_completed", 0)) /\ Goto("session") /\ UNCHANGED <<v1Sandbox, fault>>
       \/ EmitLost(Ev("workflow_completed", 0)) /\ Return(TRUE)
    /\ UNCHANGED <<v1Run, v1State, pos, vctx, tasks>>

\* complete or fail; an error of the store is only a warning.
FinishSession ==
    /\ vpc = "session" /\ vrow' \in {"running", IF fault THEN "failed" ELSE "completed"}
    /\ Return(fault) /\ UNCHANGED <<v1Run, v1State, vlog, dash, pos, vctx, tasks>>

\* A signal: main drops the future of run(); the v1 engine has nobody listening.
V1Signal ==
    /\ vpc \notin {"off", "returned", "dead"} /\ Return(TRUE)
    /\ tasks' = [i \in DOMAIN flow |-> "none"]
    /\ UNCHANGED <<v1Run, v1State, v1Session, pos, vctx>>

V1Crash ==
    /\ vpc \notin {"off", "returned", "dead"} /\ Goto("dead")
    /\ tasks' = [i \in DOMAIN flow |-> "none"]
    /\ UNCHANGED <<v1Run, v1State, v1Session, v1Sandbox, pos, vctx, fault>>

V1Done == vpc \in {"returned", "dead"} /\ launches = MaxLaunches /\ UNCHANGED v1Vars

V1Setup == ResumeRefused \/ ResumeSetup \/ StartProxy \/ CreateContainer \/ PopulateWorkspace \/ SandboxUpFails
V1Loop ==
    \/ WorkflowStarted \/ SkipStep \/ SpawnAsyncStep \/ AwaitDep \/ StepStarted \/ Execute
    \/ StepCompleted \/ StepFailed \/ SaveState \/ LoopEnds
V1Teardown ==
    \/ DrainTask \/ Drained \/ CopyBackFails \/ Destroy \/ NoSandboxDown \/ WorkflowCompleted \/ FinishSession
V1Runner == V1Setup \/ V1Loop \/ V1Teardown
V1Tasks == \E i \in DOMAIN flow : TaskEnds(i)

V1Next == V1Launch \/ OtherSaves \/ V1Runner \/ V1Tasks \/ V1Signal \/ V1Crash \/ V1Done
V1EngineSpec == V1Init /\ [][V1Next]_v1Vars

-----------------------------------------------------------------------------
(* Properties *)

\* Types of the v1 engine's state; past the setup the resume point is a step.
V1TypeOK ==
    /\ vpc \notin {"off", "setup", "returned", "dead"} => resume = 0 \/ resume \in DOMAIN flow
    /\ flow \in Flows /\ pos \in 0..Len(flow) + 1 /\ resume \in 0..Len(flow) + 1
    /\ loaded \in [DOMAIN flow -> Foreign..MaxLaunches] /\ vctx \in [DOMAIN flow -> Foreign..MaxLaunches]
    /\ tasks \in [DOMAIN flow -> {"none", "running", "ok", "failed"}]
    /\ vrow \in {"none", "running", "completed", "failed"}
    /\ box \in {"none", "up", "leaked"} /\ proxy \in {"off", "on"}

\* The output a resumed run lends a skipped step is the newest one any earlier run of the workflow saved of
\* it, unless the newest file that matches the name is another workflow's (see OtherSaves).
NoStaleOutput ==
    \A i \in DOMAIN flow : Skipped /\ i < pos /\ vctx[i] \notin {Absent, Foreign} =>
        \A k \in DOMAIN files : files[k].whole /\ files[k].by < launches => files[k].steps[i] <= vctx[i]

\* No step runs while a step that its run, prompt or condition names as steps.NAME. is still a pending task.
\* A reference the scan does not find (see Reference) is not waited for: its step is missing to the template.
AwaitedBeforeUse == vpc = "exec" => Scanned(Here) \cap Pending = {}

\* No task of the run is still at work when the container is taken down or run() returns,
\* on the failing paths too.
NoTaskOutlivesRun == vpc \in {"down", "closing", "session", "returned"} => Pending = {}

\* A container is gone when run() has returned, by whatever path, unless docker itself
\* could not remove it.
ContainerReleased == vpc = "returned" => box # "up"

\* A run in which a step failed is never recorded as completed.
FailureNotCompleted ==
    vrow = "completed" => \A k \in DOMAIN vlog : vlog[k].ev # "step_failed"

EndsStep(e) == e.ev \in {"step_completed", "step_failed"}
EndsUpTo(s, k) == Cardinality({j \in 1..k : EndsStep(s[j])})

\* What the dashboard tracks is what the session log holds: its n-th report is of the n-th
\* step that ended in the log, and no step is reported that a replay would not show.
BusFollowsLog ==
    /\ Len(dash.steps) = EndsUpTo(vlog, Len(vlog))
    /\ \A k \in DOMAIN vlog : EndsStep(vlog[k]) =>
          /\ EndsUpTo(vlog, k) \in DOMAIN dash.steps /\ dash.steps[EndsUpTo(vlog, k)].step = vlog[k].step
          /\ dash.steps[EndsUpTo(vlog, k)].status = IF vlog[k].ev = "step_failed" THEN "failed" ELSE "success"

\* A session recorded as completed was handed to the dashboard as a success, and a run handed to it as a
\* success has no failed step in its log.  (A run that fails without a failed step, by an async step or by an
\* append that fails, is a success to the dashboard; and a POST that fails is only logged.)
DashboardAgrees ==
    /\ vrow = "completed" => dash.sent = "success"
    /\ dash.sent = "success" => \A k \in DOMAIN vlog : vlog[k].ev # "step_failed"

\* A run uses no stale output of its own and waits for the references its scan finds, leaves no task and no
\* container behind, and its log, its row and what it hands to the dashboard do not contradict each other.
V1RunSafe ==
    /\ V1TypeOK /\ NoStaleOutput /\ AwaitedBeforeUse /\ NoTaskOutlivesRun /\ ContainerReleased
    /\ FailureNotCompleted /\ BusFollowsLog /\ DashboardAgrees

\* Every execution comes to an end, whatever its steps wait for.
V1Returns == (vpc = "setup") ~> (vpc \in {"returned", "dead"})
=============================================================================

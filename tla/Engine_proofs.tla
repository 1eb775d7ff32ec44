--------------------------- MODULE Engine_proofs ---------------------------
(***************************************************************************)
(* Proofs about the Engine module, for every workflow length, every mix of *)
(* step kinds, every set of faults and any number of crashes and resumes.  *)
(*                                                                         *)
(* None of the properties is inductive by itself: what makes them hold is  *)
(* what the engine knows at each place of step() about the log it has      *)
(* replayed.  PlaceInv says it, place by place.                            *)
(***************************************************************************)
EXTENDS Engine, FiniteSetTheorems, TLAPS

-----------------------------------------------------------------------------
(* The inductive invariant. *)

\* Between the replay and the terminal event of a step.
Working == {"begin", "wsEvent", "wsBranch", "wsPrepare", "ensure", "copyIn",
            "emitStart", "dispatch", "chatUser", "running", "chatReply",
            "emitDone", "emitSignaled", "emitCause", "emitFailed"}
Merging == {"mergeTry", "merge", "emitConflict", "emitCompleted"}
Cancelling == {"emitCancelled", "cancelBox"}

Succeeded(l) == ~HasFailure(l) /\ (WorkflowDone(l) \/ CompletedSteps(l) = N)

\* The handle's cached status is the row as long as one engine owns the session,
\* and finalising is only entered while the session runs.
HandleInv ==
    /\ pc # "down" => local = row
    /\ pc \in {"tearDown", "syncBack", "dropBox", "finish"} \cup Merging \cup Cancelling
         => row = "running"

\* A step in progress is the first one the log has no result for.
WorkInv ==
    pc \in Working =>
        /\ ~HasFailure(log) /\ ~WorkflowDone(log)
        /\ cur = CompletedSteps(log) + 1

\* The verdict carried to each place agrees with what the log already says.
VerdictInv ==
    /\ pc = "emitFailed" => verdict \notin SuccessVerdicts
    /\ pc = "emitCause" => verdict \in {"timeout", "idle", "signal"}
    /\ pc = "emitSignaled" => verdict = "signaled"
    /\ pc \in {"tearDown", "emitOuter"} \cup Cancelling => HasFailure(log)
    /\ pc = "tearDown" => verdict \in {"timeout", "idle"}
    /\ pc \in Cancelling => verdict \in CancelVerdicts
    /\ pc \in {"syncBack", "dropBox"} => verdict \notin CancelVerdicts
    /\ pc \in {"syncBack", "dropBox", "finish"} =>
         IF verdict \in SuccessVerdicts THEN Succeeded(log) ELSE HasFailure(log)
    /\ pc \in Merging => verdict \in SuccessVerdicts /\ Succeeded(log)
    /\ pc = "cancelBox" => Logged(log, "workflow_cancelled")
    /\ pc = "finish" /\ verdict \in SuccessVerdicts => Logged(log, "workflow_completed")
    /\ pc = "finish" /\ verdict \in CancelVerdicts => Logged(log, "workflow_cancelled")

LogInv ==
    /\ CompletedSteps(log) <= N
    /\ Logged(log, "workflow_completed") =>
         CompletedSteps(log) = N \/ Logged(log, "completion_signaled")

\* The parts about the engine's place, its verdict and the row.
PlaceInv == HandleInv /\ WorkInv /\ VerdictInv /\ LogInv /\ RowExplained /\ MergesOnlySuccess

-----------------------------------------------------------------------------
(* What one append does to the facts the engine reads from the log. *)

\* The completions of a log are finitely many, so their count is a number.
LEMMA CompletedFinite ==
    ASSUME NEW l \in Seq(Events)
    PROVE  /\ IsFiniteSet({i \in DOMAIN l : TopCompleted(l[i])})
           /\ CompletedSteps(l) \in Nat
<1>1. IsFiniteSet(1..Len(l))
  BY FS_Interval
<1>2. {i \in DOMAIN l : TopCompleted(l[i])} \subseteq 1..Len(l)
  OBVIOUS
<1>3. IsFiniteSet({i \in DOMAIN l : TopCompleted(l[i])})
  BY <1>1, <1>2, FS_Subset
<1> QED
  BY <1>3, FS_CardinalityType DEF CompletedSteps

\* An event name is on the log after an append if it was before or is appended.
LEMMA LoggedAppend ==
    ASSUME NEW l \in Seq(Events), NEW e \in Events, NEW name
    PROVE  Logged(Append(l, e), name) <=> Logged(l, name) \/ e.ev = name
<1>1. /\ Append(l, e) \in Seq(Events)
      /\ Len(Append(l, e)) = Len(l) + 1
      /\ DOMAIN Append(l, e) = 1..(Len(l) + 1)
      /\ DOMAIN l = 1..Len(l)
      /\ \A i \in 1..Len(l) : Append(l, e)[i] = l[i]
      /\ Append(l, e)[Len(l) + 1] = e
  OBVIOUS
<1>2. ASSUME Logged(l, name) PROVE Logged(Append(l, e), name)
  <2>1. PICK i \in DOMAIN l : l[i].ev = name
    BY <1>2 DEF Logged
  <2>2. i \in DOMAIN Append(l, e) /\ Append(l, e)[i].ev = name
    BY <2>1, <1>1
  <2> QED
    BY <2>2 DEF Logged
<1>3. ASSUME e.ev = name PROVE Logged(Append(l, e), name)
  <2>1. Len(l) + 1 \in DOMAIN Append(l, e) /\ Append(l, e)[Len(l) + 1].ev = name
    BY <1>1, <1>3
  <2> QED
    BY <2>1 DEF Logged
<1>4. ASSUME Logged(Append(l, e), name), e.ev # name PROVE Logged(l, name)
  <2>1. PICK i \in DOMAIN Append(l, e) : Append(l, e)[i].ev = name
    BY <1>4 DEF Logged
  <2>2. i \in DOMAIN l /\ l[i].ev = name
    BY <2>1, <1>1, <1>4
  <2> QED
    BY <2>2 DEF Logged
<1> QED
  BY <1>2, <1>3, <1>4

\* Only a top-level completion moves the progress counter, and by one.
LEMMA CompletedAppend ==
    ASSUME NEW l \in Seq(Events), NEW e \in Events
    PROVE  CompletedSteps(Append(l, e)) =
             IF TopCompleted(e) THEN CompletedSteps(l) + 1 ELSE CompletedSteps(l)
<1> DEFINE S == {i \in DOMAIN l : TopCompleted(l[i])}
           T == {i \in DOMAIN Append(l, e) : TopCompleted(Append(l, e)[i])}
<1>1. /\ DOMAIN Append(l, e) = 1..(Len(l) + 1)
      /\ DOMAIN l = 1..Len(l) /\ Len(l) \in Nat
      /\ \A i \in 1..Len(l) : Append(l, e)[i] = l[i]
      /\ Append(l, e)[Len(l) + 1] = e
  OBVIOUS
<1>2. T = IF TopCompleted(e) THEN S \cup {Len(l) + 1} ELSE S
  BY <1>1
<1>3. Len(l) + 1 \notin S
  BY <1>1
<1>4. IsFiniteSet(S)
  BY CompletedFinite
<1>5. Cardinality(S \cup {Len(l) + 1}) = Cardinality(S) + 1
  BY <1>3, <1>4, FS_AddElement
<1>6. Cardinality(T) = IF TopCompleted(e) THEN Cardinality(S) + 1 ELSE Cardinality(S)
  BY <1>2, <1>5
<1> QED
  BY <1>6 DEF CompletedSteps

\* Everything the invariants read from the log, after Emit(e).
LEMMA EmitFacts ==
    ASSUME TypeOK, NEW e \in Events, Emit(e)
    PROVE  /\ log' \in Seq(Events)
           /\ CompletedSteps(log) \in Nat
           /\ CompletedSteps(log') =
                IF TopCompleted(e) THEN CompletedSteps(log) + 1 ELSE CompletedSteps(log)
           /\ \A name : Logged(log', name) <=> Logged(log, name) \/ e.ev = name
           /\ HasFailure(log') <=> HasFailure(log) \/ e.ev = "step_failed"
           /\ WorkflowDone(log') <=>
                WorkflowDone(log) \/ e.ev \in {"workflow_completed", "completion_signaled"}
           /\ UNCHANGED <<row, box, boxWork, hostWork, tree>>
<1>1. log \in Seq(Events) /\ log' = Append(log, e)
  BY DEF TypeOK, Emit
<1>2. log' \in Seq(Events)
  BY <1>1
<1>3. \A name : Logged(log', name) <=> Logged(log, name) \/ e.ev = name
  BY <1>1, LoggedAppend
<1> QED
  BY <1>1, <1>2, <1>3, CompletedAppend, CompletedFinite DEF HasFailure, WorkflowDone, Emit

\* The events of the engine are events.
LEMMA EventTypes ==
    ASSUME NAssumption, NEW n \in EventNames, NEW s \in 0..N
    PROVE  Event(n, s) \in Events /\ ScopedEvent(n, s) \in Events
BY DEF Event, ScopedEvent, Events

-----------------------------------------------------------------------------
(* Type correctness. *)

\* Every step of the engine and of its environment keeps the types.
LEMMA TypeStep == TypeOK /\ [Next]_vars => TypeOK'
<1> SUFFICES ASSUME TypeOK, [Next]_vars PROVE TypeOK'
  OBVIOUS
<1> USE NAssumption
<1>0. /\ cur \in 0..N /\ 0 \in 0..N /\ CompletedSteps(log) \in Nat
      /\ \A v \in Verdicts : AfterFinalise(v) \in PCs /\ AfterSync(v) \in PCs
      /\ \A v \in Verdicts : Finalise(v) \in PCs /\ Goal(v) \in Statuses
      /\ \A s \in 1..N : BeforeStart(s) \in PCs
  <2>0. log \in Seq(Events) /\ cur \in 1..N
    BY DEF TypeOK
  <2>1. cur \in 0..N /\ 0 \in 0..N
    BY <2>0
  <2>4. CompletedSteps(log) \in Nat
    BY <2>0, CompletedFinite
  <2>2. \A v \in Verdicts : AfterFinalise(v) \in PCs /\ AfterSync(v) \in PCs
    BY DEF AfterFinalise, AfterSync, PCs
  <2>3. \A v \in Verdicts : Finalise(v) \in PCs /\ Goal(v) \in Statuses
    BY <2>2 DEF Finalise, Goal, PCs, Statuses
  <2> QED
    BY <2>1, <2>2, <2>3, <2>4 DEF BeforeStart, PCs
<1>1. CASE Step
  <2>1. CASE StepPreviouslyFailed
    BY <2>1, <1>0 DEF TypeOK, StepPreviouslyFailed, Stay, Verdicts, world, handles, inputs
  <2>2. CASE StepAllCompleted
    BY <2>2, <1>0 DEF TypeOK, StepAllCompleted, Stay, Verdicts, world, handles, inputs
  <2>3. ASSUME HasNext, cur' = CompletedSteps(log) + 1, verdict' \in Verdicts, pc' \in PCs,
               started' \in BOOLEAN, UNCHANGED <<world, local, hasBox, ws, sync>>, Stay
        PROVE  TypeOK'
    <3>1. cur' \in 1..N
      BY <2>3, <1>0 DEF HasNext
    <3> QED
      BY <2>3, <3>1 DEF TypeOK, Stay, world, inputs
  <2>4. CASE StepCancelledBefore
    BY <2>3, <2>4 DEF StepCancelledBefore, Verdicts, PCs
  <2>5. CASE StepNext
    <3>1. CompletedSteps(log) + 1 \in 1..N
      BY <2>5, <1>0 DEF StepNext, HasNext
    <3>2. pc' \in PCs
      BY <3>1, <2>5, <1>0 DEF StepNext, PCs
    <3> QED
      BY <2>3, <2>5, <3>2 DEF StepNext, Verdicts
  <2> QED
    BY <1>1, <2>1, <2>2, <2>4, <2>5 DEF Step
<1>2. ASSUME NEW e \in Events, Emit(e), UNCHANGED <<wf, inputs, launches, handles>>,
             cur' \in 1..N, verdict' \in Verdicts, pc' \in PCs
      PROVE  TypeOK'
  BY <1>2, EmitFacts DEF TypeOK, inputs, handles
<1>3. CASE Prepare
  <2>1. CASE EmitWorkflowStarted
    BY <2>1, <1>0, <1>2, EventTypes DEF EmitWorkflowStarted, Stay, TypeOK, PCs, EventNames
  <2>2. CASE EmitWorkspacePrepared \/ EmitBranchCreated
    BY <2>2, <1>0, <1>2, EventTypes
    DEF EmitWorkspacePrepared, EmitBranchCreated, Stay, TypeOK, PCs, EventNames
  <2>3. CASE WorkspacePrepare
    <3>1. pc' \in PCs /\ tree' \in {"absent", "present", "merged"} /\ ws' \in BOOLEAN
      BY <2>3, <1>0 DEF WorkspacePrepare, TypeOK, PCs
    <3> QED
      BY <2>3, <3>1 DEF WorkspacePrepare, TypeOK, Stay, inputs
  <2>4. CASE EnsureNothing
    BY <2>4 DEF EnsureNothing, TypeOK, Stay, world, handles, inputs, PCs
  <2>5. CASE EnsureContainer
    <3>1. /\ pc' \in PCs /\ box' \in {"absent", "created", "ready"} /\ hasBox' \in BOOLEAN
          /\ verdict' \in Verdicts
      BY <2>5 DEF EnsureContainer, TypeOK, PCs, Verdicts
    <3> QED
      BY <2>5, <3>1 DEF EnsureContainer, TypeOK, Stay, inputs
  <2>6. CASE CopyIn
    <3>1. /\ pc' \in PCs /\ box' \in {"absent", "created", "ready"} /\ hasBox' \in BOOLEAN
          /\ verdict' \in Verdicts
      BY <2>6 DEF CopyIn, TypeOK, PCs, Verdicts
    <3> QED
      BY <2>6, <3>1 DEF CopyIn, TypeOK, Stay, inputs
  <2> QED
    BY <1>3, <2>1, <2>2, <2>3, <2>4, <2>5, <2>6 DEF Prepare
<1>4. CASE Execute
  <2>1. CASE EmitStepStarted \/ EmitUserTurn \/ EmitReply
    BY <2>1, <1>0, <1>2, EventTypes
    DEF EmitStepStarted, EmitUserTurn, EmitReply, Stay, TypeOK, PCs, EventNames
  <2>2. CASE DispatchCancelled
    BY <2>2 DEF DispatchCancelled, TypeOK, Stay, world, handles, inputs, PCs, Verdicts
  <2>5. CASE DispatchRejected
    BY <2>5 DEF DispatchRejected, TypeOK, Stay, world, handles, inputs, PCs, Verdicts
  <2>4. CASE Dispatch
    <3>1. boxWork' \subseteq 1..N /\ hostWork' \subseteq 1..N
      BY <2>4 DEF Dispatch, TypeOK
    <3> QED
      BY <2>4, <3>1 DEF Dispatch, TypeOK, Stay, handles, inputs, PCs
  <2>3. CASE Select
    BY <2>3 DEF Select, Outcomes, AfterSelect, TypeOK, Stay, world, handles, inputs,
       PCs, Verdicts
  <2> QED
    BY <1>4, <2>1, <2>2, <2>3, <2>4, <2>5 DEF Execute
<1>5. CASE Conclude
  <2>1. CASE EmitStepCompleted \/ EmitCompletionSignaled
    BY <2>1, <1>0, <1>2, EventTypes
    DEF EmitStepCompleted, EmitCompletionSignaled, Stay, TypeOK, PCs, EventNames
  <2>2. CASE EmitCause
    BY <2>2, <1>0, <1>2, EventTypes DEF EmitCause, CauseOf, Stay, TypeOK, PCs, EventNames
  <2>3. CASE EmitStepFailed \/ EmitOuterFailed
    BY <2>3, <1>0, <1>2, EventTypes
    DEF EmitStepFailed, EmitOuterFailed, Stay, TypeOK, PCs, EventNames, Verdicts
  <2>4. CASE TearDown
    BY <2>4, <1>0 DEF TearDown, DestroyBox, TypeOK, Stay, handles, inputs
  <2> QED
    BY <1>5, <2>1, <2>2, <2>3, <2>4 DEF Conclude
<1>6. CASE Finalising
  <2>1. CASE SyncBack
    <3>1. hostWork' \subseteq 1..N /\ sync' \in {"none", "synced", "failed"}
      BY <2>1 DEF SyncBack, TypeOK
    <3> QED
      BY <2>1, <3>1 DEF SyncBack, TypeOK, Stay, inputs, PCs
  <2>4. CASE DropBox
    BY <2>4, <1>0 DEF DropBox, DestroyBox, TypeOK, Stay, handles, inputs
  <2>5. CASE CancelBox
    BY <2>5 DEF CancelBox, DestroyBox, TypeOK, Stay, handles, inputs, PCs
  <2>2. CASE EmitMergeAttempted \/ EmitMergeConflict \/ EmitWorkflowCompleted
               \/ EmitWorkflowCancelled
    BY <2>2, <1>0, <1>2, EventTypes
    DEF EmitMergeAttempted, EmitMergeConflict, EmitWorkflowCompleted,
        EmitWorkflowCancelled, Stay, TypeOK, PCs, EventNames
  <2>3. CASE Merge
    <3>1. tree' \in {"absent", "present", "merged"} /\ pc' \in PCs
      BY <2>3 DEF Merge, TypeOK, PCs
    <3> QED
      BY <2>3, <3>1 DEF Merge, TypeOK, Stay, handles, inputs
  <2>6. CASE Finish
    <3>1. row' \in Statuses /\ local' \in Statuses /\ pc' \in PCs
      BY <2>6, <1>0 DEF Finish, TypeOK
    <3> QED
      BY <2>6, <3>1 DEF Finish, TypeOK, Stay, inputs
  <2> QED
    BY <1>6, <2>1, <2>2, <2>3, <2>4, <2>5, <2>6 DEF Finalising
<1>7. CASE Body
  BY <1>7, <1>0, <1>2, EventTypes DEF Body, ScopedProgress, Stay, TypeOK, EventNames
<1>8. CASE Environment
  <2>1. CASE Cancel \/ Shutdown
    BY <2>1 DEF Cancel, Shutdown, TypeOK, world, handles
  <2>2. CASE Crash
    BY <2>2 DEF Crash, TypeOK, world, handles, inputs, PCs
  <2>5. CASE Exit
    BY <2>5 DEF Exit, TypeOK, world, handles, inputs, PCs
  <2>3. CASE Launch
    <3>1. launches' \in 1..MaxLaunches /\ cur' \in 1..N
      BY <2>3, BoundAssumption DEF Launch, TypeOK
    <3> QED
      BY <2>3, <3>1 DEF Launch, TypeOK, world, PCs, Verdicts
  <2>4. CASE Stopped
    BY <2>4 DEF Stopped, vars, world, handles, inputs, TypeOK
  <2> QED
    BY <1>8, <2>1, <2>2, <2>3, <2>4, <2>5 DEF Environment
<1>9. CASE UNCHANGED vars
  BY <1>9 DEF vars, world, handles, inputs, TypeOK
<1> QED
  BY <1>1, <1>3, <1>4, <1>5, <1>6, <1>7, <1>8, <1>9 DEF Next, EngineNext

\* Every reachable state of the engine is well typed, for every workflow and
\* any number of processes.
THEOREM TypeCorrect == Spec => []TypeOK
<1>1. Init => TypeOK
  <2> SUFFICES ASSUME Init PROVE TypeOK
    OBVIOUS
  <2>1. log \in Seq(Events) /\ cur \in 1..N /\ launches \in 1..MaxLaunches
    BY NAssumption, BoundAssumption DEF Init
  <2> QED
    BY <2>1 DEF Init, TypeOK, Statuses, PCs, Verdicts
<1> QED
  BY <1>1, TypeStep, PTL DEF Spec

-----------------------------------------------------------------------------
(* The inductive invariant is preserved. *)

\* The four facts of the log that PlaceInv reads, and the progress counter,
\* after a top-level event.
LEMMA EmitEvent ==
    ASSUME TypeOK, NEW n \in EventNames, NEW s \in 0..N, Emit(Event(n, s))
    PROVE  /\ CompletedSteps(log) \in Nat
           /\ CompletedSteps(log') =
                IF n = "step_completed" THEN CompletedSteps(log) + 1 ELSE CompletedSteps(log)
           /\ \A name : Logged(log', name) <=> Logged(log, name) \/ n = name
           /\ row' = row /\ tree' = tree
<1>1. Event(n, s) \in Events
  BY NAssumption, EventTypes
<1>2. Event(n, s).ev = n /\ (TopCompleted(Event(n, s)) <=> n = "step_completed")
  BY DEF Event, TopCompleted
<1> QED
  BY <1>1, <1>2, EmitFacts

\* A step in progress: the session runs, nothing is merged, a step is left.
LEMMA WorkingFacts ==
    ASSUME TypeOK, PlaceInv, pc \in Working
    PROVE  /\ row = "running" /\ local = "running" /\ tree # "merged"
           /\ CompletedSteps(log) < N /\ CompletedSteps(log) \in Nat
           /\ ~Logged(log, "step_failed") /\ ~Logged(log, "workflow_completed")
           /\ ~Logged(log, "completion_signaled")
<1>1. log \in Seq(Events) /\ cur \in 1..N /\ row \in Statuses
  BY DEF TypeOK
<1>2. CompletedSteps(log) \in Nat
  BY <1>1, CompletedFinite
<1>3. CompletedSteps(log) < N
  BY <1>1, <1>2, NAssumption DEF PlaceInv, WorkInv
<1>4. /\ ~Logged(log, "step_failed") /\ ~Logged(log, "workflow_completed")
      /\ ~Logged(log, "completion_signaled")
  BY DEF PlaceInv, WorkInv, HasFailure, WorkflowDone
<1>5. row = "running" /\ tree # "merged"
  BY <1>1, <1>2, <1>3, <1>4
  DEF PlaceInv, RowExplained, MergesOnlySuccess, HasFailure, WorkflowDone, Statuses
<1> QED
  BY <1>2, <1>3, <1>4, <1>5 DEF PlaceInv, HandleInv, Working

\* Entering finalise_success, finalise_cancel or finalise_fail with a verdict
\* the log supports.
LEMMA EnterFinalise ==
    ASSUME NEW v \in Verdicts, local = row, pc' = Finalise(v), verdict' = v,
           row' = row, local' = local,
           IF v \in SuccessVerdicts THEN Succeeded(log') ELSE HasFailure(log')
    PROVE  HandleInv' /\ WorkInv' /\ VerdictInv'
<1> DEFINE P == {"syncBack", "finish", "mergeTry", "emitCompleted", "emitCancelled",
                 "returned", "emitOuter"}
<1>1. pc' \in P
  BY DEF Finalise, AfterFinalise, AfterSync
<1>2. /\ pc' \notin {"returned", "emitOuter"} => row = "running"
      /\ pc' = "emitOuter" => v = "bodyFailed"
      /\ pc' \in {"mergeTry", "emitCompleted"} => v \in SuccessVerdicts
      /\ pc' = "emitCancelled" <=> row = "running" /\ v \in CancelVerdicts
      /\ pc' = "finish" => v \notin SuccessVerdicts /\ v \notin CancelVerdicts
  BY DEF Finalise, AfterFinalise, AfterSync
<1>3. HandleInv'
  BY <1>1, <1>2 DEF HandleInv, Merging, Cancelling
<1>4. WorkInv'
  BY <1>1 DEF WorkInv, Working
<1>5. VerdictInv'
  BY <1>1, <1>2 DEF VerdictInv, Merging, Cancelling, SuccessVerdicts, CancelVerdicts
<1> QED
  BY <1>3, <1>4, <1>5

\* The replay of the log at the head of step() keeps the invariant.
LEMMA StepPlace == TypeOK /\ PlaceInv /\ Step => PlaceInv'
<1> SUFFICES ASSUME TypeOK, PlaceInv, Step PROVE PlaceInv'
  OBVIOUS
<1>1. log \in Seq(Events) /\ CompletedSteps(log) \in Nat /\ log' = log /\ row' = row /\ tree' = tree
      /\ local' = local /\ pc = "idle"
  <2>1. log \in Seq(Events)
    BY DEF TypeOK
  <2>2. CompletedSteps(log) \in Nat
    BY <2>1, CompletedFinite
  <2>3. log' = log /\ row' = row /\ tree' = tree /\ local' = local /\ pc = "idle"
    BY DEF Step, StepPreviouslyFailed, StepAllCompleted, StepCancelledBefore, StepNext,
       HasNext, world, handles
  <2> QED
    BY <2>1, <2>2, <2>3
<1>2. LogInv' /\ RowExplained' /\ MergesOnlySuccess' /\ local = row
  BY <1>1 DEF PlaceInv, LogInv, RowExplained, MergesOnlySuccess, HandleInv
<1>3. CASE StepPreviouslyFailed
  <2>1. HasFailure(log') /\ pc' = Finalise("failed") /\ verdict' = "failed"
    BY <1>1, <1>3 DEF StepPreviouslyFailed
  <2> QED
    BY <2>1, <1>1, <1>2, EnterFinalise DEF PlaceInv, Verdicts, SuccessVerdicts
<1>4. CASE StepAllCompleted
  <2>1. Succeeded(log') /\ pc' = Finalise("ok") /\ verdict' = "ok"
    BY <1>1, <1>4, NAssumption DEF StepAllCompleted, Succeeded, PlaceInv, LogInv
  <2> QED
    BY <2>1, <1>1, <1>2, EnterFinalise DEF PlaceInv, Verdicts, SuccessVerdicts
<1>5. CASE StepCancelledBefore \/ StepNext
  <2>1. /\ ~HasFailure(log) /\ ~WorkflowDone(log) /\ cur' = CompletedSteps(log) + 1
        /\ pc' \in {"begin", "emitFailed", "emitStart", "ensure"}
        /\ pc' = "emitFailed" => verdict' = "cancelled"
    BY <1>5 DEF StepCancelledBefore, StepNext, HasNext, BeforeStart
  <2>2. HandleInv'
    BY <2>1, <1>1, <1>2 DEF HandleInv, Merging, Cancelling
  <2>3. WorkInv'
    BY <2>1, <1>1 DEF WorkInv
  <2>4. VerdictInv'
    BY <2>1 DEF VerdictInv, Merging, Cancelling, SuccessVerdicts
  <2> QED
    BY <2>2, <2>3, <2>4, <1>2 DEF PlaceInv
<1> QED
  BY <1>3, <1>4, <1>5 DEF Step

\* A move from one place of a step in progress to another that appends nothing
\* which could decide the workflow.
LEMMA WorkingMove ==
    ASSUME TypeOK, PlaceInv, pc \in Working, pc' \in Working,
           row' = row, local' = local, tree' = tree, cur' = cur,
           CompletedSteps(log') = CompletedSteps(log),
           \A name \in {"step_failed", "workflow_completed", "completion_signaled"} :
               Logged(log', name) => Logged(log, name),
           pc' = "emitFailed" => verdict' \notin SuccessVerdicts,
           pc' = "emitCause" => verdict' \in {"timeout", "idle", "signal"},
           pc' = "emitSignaled" => verdict' = "signaled"
    PROVE  PlaceInv'
<1>1. /\ row' = "running" /\ local' = "running" /\ tree' # "merged"
      /\ CompletedSteps(log') <= N /\ cur' = CompletedSteps(log') + 1
      /\ ~Logged(log', "step_failed") /\ ~Logged(log', "workflow_completed")
      /\ ~Logged(log', "completion_signaled")
  <2>1. cur = CompletedSteps(log) + 1
    BY DEF PlaceInv, WorkInv
  <2>2. CompletedSteps(log') <= N
    BY WorkingFacts, NAssumption
  <2> QED
    BY <2>1, <2>2, WorkingFacts
<1>2. HandleInv'
  BY <1>1 DEF HandleInv
<1>3. WorkInv'
  BY <1>1 DEF WorkInv, HasFailure, WorkflowDone
<1>4. VerdictInv'
  BY <1>1 DEF VerdictInv, Working, Merging, Cancelling
<1>5. LogInv' /\ RowExplained' /\ MergesOnlySuccess'
  BY <1>1 DEF LogInv, RowExplained, MergesOnlySuccess
<1> QED
  BY <1>2, <1>3, <1>4, <1>5 DEF PlaceInv

\* A move to a place where nothing is in progress, with the log as it was.
LEMMA QuietMove ==
    ASSUME PlaceInv, pc' \in {"returned", "down", "idle"}, log' = log, row' = row,
           tree' = tree, pc' # "down" => local' = row'
    PROVE  PlaceInv'
<1>1. HandleInv' /\ WorkInv'
  BY DEF HandleInv, WorkInv, Working, Merging, Cancelling
<1>2. VerdictInv'
  BY DEF VerdictInv, Merging, Cancelling
<1>3. LogInv' /\ RowExplained' /\ MergesOnlySuccess'
  BY DEF PlaceInv, LogInv, RowExplained, MergesOnlySuccess
<1> QED
  BY <1>1, <1>2, <1>3 DEF PlaceInv

\* Preparing the worktree and the container keeps it.
LEMMA PreparePlace == TypeOK /\ PlaceInv /\ Prepare => PlaceInv'
<1> SUFFICES ASSUME TypeOK, PlaceInv, Prepare PROVE PlaceInv'
  OBVIOUS
<1>1. 0 \in 0..N /\ \A s : BeforeStart(s) \in {"emitStart", "ensure"}
  BY NAssumption DEF BeforeStart
<1>2. CASE EmitWorkflowStarted
  <2>1. /\ Emit(Event("workflow_started", 0)) /\ local' = local /\ cur' = cur /\ verdict' = verdict
        /\ pc = "begin" /\ pc' \in {"emitFailed", "emitStart", "ensure", "wsEvent"}
        /\ pc' = "emitFailed" => verdict = "cancelled"
    BY <1>1, <1>2 DEF EmitWorkflowStarted, handles
  <2> QED
    BY <2>1, <1>1, EmitEvent, WorkingMove DEF EventNames, Working, SuccessVerdicts
<1>3. CASE EmitWorkspacePrepared
  <2>1. /\ Emit(Event("workspace_prepared", 0)) /\ local' = local /\ cur' = cur
        /\ pc = "wsEvent" /\ pc' \in {"wsPrepare", "wsBranch"}
    BY <1>3 DEF EmitWorkspacePrepared, handles
  <2> QED
    BY <2>1, <1>1, EmitEvent, WorkingMove DEF EventNames, Working
<1>4. CASE EmitBranchCreated
  <2>1. /\ Emit(Event("branch_created", 0)) /\ local' = local /\ cur' = cur
        /\ pc = "wsBranch" /\ pc' = "wsPrepare"
    BY <1>4 DEF EmitBranchCreated, handles
  <2> QED
    BY <2>1, <1>1, EmitEvent, WorkingMove DEF EventNames, Working
<1>5. CASE WorkspacePrepare
  <2>1. /\ log' = log /\ row' = row /\ local' = local /\ cur' = cur /\ pc = "wsPrepare"
    BY <1>5 DEF WorkspacePrepare
  <2>2. CASE pc' = "returned" /\ tree' = tree
    BY <2>1, <2>2, QuietMove DEF PlaceInv, HandleInv
  <2>3. CASE pc' = BeforeStart(cur) /\ tree' = "present"
    <3>1. /\ pc' \in {"emitStart", "ensure"} /\ row = "running" /\ local = "running"
          /\ CompletedSteps(log) < N /\ CompletedSteps(log) \in Nat
          /\ ~Logged(log, "step_failed") /\ ~Logged(log, "workflow_completed")
          /\ ~Logged(log, "completion_signaled")
      BY <2>1, <2>3, <1>1, WorkingFacts DEF Working
    <3>2. HandleInv' /\ VerdictInv'
      BY <2>1, <3>1 DEF HandleInv, VerdictInv, Merging, Cancelling
    <3>3. WorkInv' /\ LogInv' /\ RowExplained' /\ MergesOnlySuccess'
      BY <2>1, <2>3, <3>1
      DEF PlaceInv, WorkInv, LogInv, RowExplained, MergesOnlySuccess, Working
    <3> QED
      BY <3>2, <3>3 DEF PlaceInv
  <2> QED
    BY <1>5, <2>2, <2>3 DEF WorkspacePrepare
<1>6. CASE EnsureNothing \/ EnsureContainer \/ CopyIn
  <2>1. /\ log' = log /\ row' = row /\ tree' = tree /\ local' = local /\ cur' = cur
        /\ pc \in {"ensure", "copyIn"} /\ pc' \in {"emitStart", "copyIn", "emitFailed"}
        /\ pc' = "emitFailed" => verdict' = "failed"
    BY <1>6 DEF EnsureNothing, EnsureContainer, CopyIn, world, handles
  <2> QED
    BY <2>1, WorkingMove DEF Working, SuccessVerdicts
<1> QED
  BY <1>2, <1>3, <1>4, <1>5, <1>6 DEF Prepare

\* So do StepStarted, the dispatch and the select! of a step.
LEMMA ExecutePlace == TypeOK /\ PlaceInv /\ Execute => PlaceInv'
<1> SUFFICES ASSUME TypeOK, PlaceInv, Execute PROVE PlaceInv'
  OBVIOUS
<1>1. cur \in 0..N
  BY DEF TypeOK
<1>2. CASE EmitStepStarted
  <2>1. /\ Emit(Event("step_started", cur)) /\ local' = local /\ cur' = cur
        /\ pc = "emitStart" /\ pc' = "dispatch"
    BY <1>2 DEF EmitStepStarted, handles
  <2> QED
    BY <2>1, <1>1, EmitEvent, WorkingMove DEF EventNames, Working
<1>3. CASE EmitUserTurn
  <2>1. /\ Emit(Event("chat_message_appended", cur)) /\ local' = local /\ cur' = cur
        /\ pc = "chatUser" /\ pc' = "running"
    BY <1>3 DEF EmitUserTurn, handles
  <2> QED
    BY <2>1, <1>1, EmitEvent, WorkingMove DEF EventNames, Working
<1>4. CASE EmitReply
  <2>1. /\ Emit(Event("chat_message_appended", cur)) /\ local' = local /\ cur' = cur
        /\ pc = "chatReply" /\ pc' = "emitDone"
    BY <1>4 DEF EmitReply, handles
  <2> QED
    BY <2>1, <1>1, EmitEvent, WorkingMove DEF EventNames, Working
<1>5. CASE DispatchCancelled \/ DispatchRejected \/ Dispatch
  <2>1. /\ log' = log /\ row' = row /\ tree' = tree /\ local' = local /\ cur' = cur
        /\ pc = "dispatch" /\ pc' \in {"chatUser", "running", "emitFailed"}
        /\ pc' = "emitFailed" => verdict' \in {"cancelled", "failed"}
    BY <1>5 DEF DispatchCancelled, DispatchRejected, Dispatch, world, handles
  <2> QED
    BY <2>1, WorkingMove DEF Working, SuccessVerdicts
<1>6. CASE Select
  <2>1. /\ log' = log /\ row' = row /\ tree' = tree /\ local' = local /\ cur' = cur
        /\ pc = "running" /\ pc' = AfterSelect(verdict')
    BY <1>6 DEF Select, world, handles
  <2>2. /\ pc' \in {"chatReply", "emitDone", "emitSignaled", "emitCause", "emitFailed"}
        /\ pc' = "emitFailed" => verdict' \notin SuccessVerdicts
        /\ pc' = "emitCause" => verdict' \in {"timeout", "idle", "signal"}
        /\ pc' = "emitSignaled" => verdict' = "signaled"
    BY <2>1 DEF AfterSelect, SuccessVerdicts
  <2> QED
    BY <2>1, <2>2, WorkingMove DEF Working
<1> QED
  BY <1>2, <1>3, <1>4, <1>5, <1>6 DEF Execute

\* So do the events that record how the step ended.
LEMMA ConcludePlace == TypeOK /\ PlaceInv /\ Conclude => PlaceInv'
<1> SUFFICES ASSUME TypeOK, PlaceInv, Conclude PROVE PlaceInv'
  OBVIOUS
<1>1. cur \in 0..N /\ verdict \in Verdicts
  BY DEF TypeOK
<1>2. CASE EmitStepCompleted
  <2>1. /\ Emit(Event("step_completed", cur)) /\ local' = local
        /\ pc = "emitDone" /\ pc' = "idle"
    BY <1>2 DEF EmitStepCompleted, handles
  <2>2. /\ row' = "running" /\ local' = "running" /\ tree' # "merged"
        /\ CompletedSteps(log') <= N
        /\ ~Logged(log', "step_failed") /\ ~Logged(log', "workflow_completed")
        /\ ~Logged(log', "completion_signaled")
    BY <2>1, <1>1, EmitEvent, WorkingFacts, NAssumption DEF EventNames, Working
  <2>3. HandleInv' /\ WorkInv' /\ VerdictInv'
    BY <2>1, <2>2 DEF HandleInv, WorkInv, VerdictInv, Working, Merging, Cancelling
  <2> QED
    BY <2>2, <2>3 DEF PlaceInv, LogInv, RowExplained, MergesOnlySuccess
<1>3. CASE EmitCompletionSignaled
  <2>1. /\ Emit(Event("completion_signaled", cur)) /\ local' = local /\ verdict' = verdict
        /\ pc = "emitSignaled" /\ pc' = Finalise(verdict)
    BY <1>3 DEF EmitCompletionSignaled, handles
  <2>2. /\ row = "running" /\ row' = row /\ local = "running" /\ tree' # "merged"
        /\ CompletedSteps(log') <= N
        /\ ~Logged(log', "step_failed") /\ Logged(log', "completion_signaled")
    BY <2>1, <1>1, EmitEvent, WorkingFacts, NAssumption DEF EventNames, Working
  <2>3. verdict = "signaled"
    BY <2>1 DEF PlaceInv, VerdictInv
  <2>4. HandleInv' /\ WorkInv' /\ VerdictInv'
    BY <2>1, <2>2, <2>3, <1>1, EnterFinalise
    DEF SuccessVerdicts, Succeeded, HasFailure, WorkflowDone
  <2> QED
    BY <2>2, <2>4 DEF PlaceInv, LogInv, RowExplained, MergesOnlySuccess
<1>4. CASE EmitCause
  <2>1. /\ Emit(Event(CauseOf(verdict), cur)) /\ local' = local /\ cur' = cur
        /\ verdict' = verdict /\ pc = "emitCause" /\ pc' = "emitFailed"
        /\ CauseOf(verdict) \in {"step_timeout_fired", "idle_timeout_fired", "signal_received"}
    BY <1>4 DEF EmitCause, CauseOf, handles
  <2>2. verdict \notin SuccessVerdicts
    BY <2>1 DEF PlaceInv, VerdictInv, SuccessVerdicts
  <2>3. CauseOf(verdict) \in EventNames
    BY <2>1 DEF EventNames
  <2> QED
    BY <2>1, <2>2, <2>3, <1>1, EmitEvent, WorkingMove DEF Working
<1>5. CASE EmitStepFailed
  <2>1. /\ Emit(Event("step_failed", cur)) /\ local' = local /\ verdict' = verdict
        /\ pc = "emitFailed"
        /\ \/ pc' = "tearDown" /\ verdict \in {"timeout", "idle"}
           \/ pc' = Finalise(verdict)
    BY <1>5 DEF EmitStepFailed, handles
  <2>2. /\ row = "running" /\ row' = row /\ local = "running" /\ tree' # "merged"
        /\ CompletedSteps(log') <= N
        /\ Logged(log', "step_failed") /\ ~Logged(log', "workflow_completed")
    BY <2>1, <1>1, EmitEvent, WorkingFacts, NAssumption DEF EventNames, Working
  <2>3. verdict \notin SuccessVerdicts
    BY <2>1 DEF PlaceInv, VerdictInv
  <2>4. CASE pc' = "tearDown" /\ verdict \in {"timeout", "idle"}
    BY <2>1, <2>2, <2>4
    DEF HandleInv, WorkInv, VerdictInv, Working, Merging, Cancelling, HasFailure,
        PlaceInv, LogInv, RowExplained, MergesOnlySuccess
  <2>5. CASE pc' = Finalise(verdict)
    <3>1. HandleInv' /\ WorkInv' /\ VerdictInv'
      BY <2>1, <2>2, <2>3, <2>5, <1>1, EnterFinalise DEF HasFailure
    <3> QED
      BY <2>2, <3>1 DEF PlaceInv, LogInv, RowExplained, MergesOnlySuccess
  <2> QED
    BY <2>1, <2>4, <2>5
<1>6. CASE TearDown
  <2>1. /\ log' = log /\ row' = row /\ tree' = tree /\ local' = local /\ verdict' = verdict
        /\ pc = "tearDown" /\ pc' = Finalise(verdict)
    BY <1>6 DEF TearDown, DestroyBox, handles
  <2>2. HasFailure(log') /\ verdict \notin SuccessVerdicts /\ local = row
    BY <2>1 DEF PlaceInv, VerdictInv, HandleInv, SuccessVerdicts
  <2>3. HandleInv' /\ WorkInv' /\ VerdictInv'
    BY <2>1, <2>2, <1>1, EnterFinalise
  <2> QED
    BY <2>1, <2>3 DEF PlaceInv, LogInv, RowExplained, MergesOnlySuccess
<1>7. CASE EmitOuterFailed
  <2>1. /\ Emit(Event("step_failed", cur)) /\ local' = local /\ verdict' = "failed"
        /\ pc = "emitOuter" /\ pc' = Finalise("failed")
    BY <1>7 DEF EmitOuterFailed, handles
  <2>2. /\ row' = row /\ local = row /\ tree' = tree /\ Logged(log, "step_failed")
        /\ CompletedSteps(log') = CompletedSteps(log)
        /\ \A name : Logged(log', name) <=> Logged(log, name) \/ name = "step_failed"
    BY <2>1, <1>1, EmitEvent DEF EventNames, PlaceInv, HandleInv, VerdictInv, HasFailure
  <2>3. HandleInv' /\ WorkInv' /\ VerdictInv'
    BY <2>1, <2>2, EnterFinalise DEF Verdicts, SuccessVerdicts, HasFailure
  <2> QED
    BY <2>2, <2>3 DEF PlaceInv, LogInv, RowExplained, MergesOnlySuccess, HasFailure, WorkflowDone
<1> QED
  BY <1>2, <1>3, <1>4, <1>5, <1>6, <1>7 DEF Conclude

\* So do the copy back, the merge, the teardown and the row update.
LEMMA FinalisingPlace == TypeOK /\ PlaceInv /\ Finalising => PlaceInv'
<1> SUFFICES ASSUME TypeOK, PlaceInv, Finalising PROVE PlaceInv'
  OBVIOUS
<1>1. 0 \in 0..N /\ verdict \in Verdicts
  BY NAssumption DEF TypeOK
<1>2. CASE SyncBack \/ DropBox
  <2>1. /\ log' = log /\ row' = row /\ tree' = tree /\ local' = local /\ verdict' = verdict
        /\ pc \in {"syncBack", "dropBox"}
        /\ pc' \in {"dropBox", AfterSync(verdict)}
    BY <1>2 DEF SyncBack, DropBox, DestroyBox, handles
  <2>2. /\ row = "running" /\ local = "running" /\ verdict \notin CancelVerdicts
        /\ IF verdict \in SuccessVerdicts THEN Succeeded(log) ELSE HasFailure(log)
    BY <2>1 DEF PlaceInv, HandleInv, VerdictInv
  <2>3. /\ pc' \in {"dropBox", "finish", "mergeTry", "emitCompleted"}
        /\ pc' = "finish" => verdict \notin SuccessVerdicts
        /\ pc' \in {"mergeTry", "emitCompleted"} => verdict \in SuccessVerdicts
    BY <2>1 DEF AfterSync
  <2>4. HandleInv' /\ WorkInv'
    BY <2>1, <2>2, <2>3 DEF HandleInv, WorkInv, Working
  <2>5. VerdictInv'
    BY <2>1, <2>2, <2>3 DEF VerdictInv, Merging, Cancelling
  <2> QED
    BY <2>1, <2>4, <2>5 DEF PlaceInv, LogInv, RowExplained, MergesOnlySuccess
<1>3. CASE EmitMergeAttempted
  <2>1. /\ Emit(Event("merge_attempted", 0)) /\ local' = local /\ verdict' = verdict
        /\ pc = "mergeTry" /\ pc' = "merge"
    BY <1>3 DEF EmitMergeAttempted, handles
  <2>2. /\ row' = row /\ tree' = tree /\ CompletedSteps(log') = CompletedSteps(log)
        /\ \A name : Logged(log', name) <=> Logged(log, name) \/ name = "merge_attempted"
    BY <2>1, <1>1, EmitEvent DEF EventNames
  <2>3. HandleInv' /\ WorkInv'
    BY <2>1, <2>2 DEF PlaceInv, HandleInv, WorkInv, Working, Merging
  <2>4. VerdictInv'
    BY <2>1, <2>2 DEF PlaceInv, VerdictInv, Merging, Cancelling, Succeeded, HasFailure, WorkflowDone
  <2> QED
    BY <2>2, <2>3, <2>4
    DEF PlaceInv, LogInv, RowExplained, MergesOnlySuccess, HasFailure, WorkflowDone
<1>4. CASE Merge
  <2>1. /\ log' = log /\ row' = row /\ local' = local /\ verdict' = verdict /\ pc = "merge"
        /\ pc' \in {"emitCompleted", "emitConflict", "returned"}
        /\ tree' \in {tree, "merged"}
    BY <1>4 DEF Merge, handles
  <2>2. HandleInv' /\ WorkInv'
    BY <2>1 DEF PlaceInv, HandleInv, WorkInv, Working, Merging
  <2>3. VerdictInv'
    BY <2>1 DEF PlaceInv, VerdictInv, Merging, Cancelling
  <2>4. LogInv' /\ RowExplained'
    BY <2>1 DEF PlaceInv, LogInv, RowExplained
  <2>5. MergesOnlySuccess'
    BY <2>1 DEF PlaceInv, VerdictInv, Merging, Succeeded, MergesOnlySuccess
  <2> QED
    BY <2>2, <2>3, <2>4, <2>5 DEF PlaceInv
<1>5. CASE EmitMergeConflict
  <2>1. /\ Emit(Event("merge_conflict", 0)) /\ local' = local
        /\ pc = "emitConflict" /\ pc' = "returned"
    BY <1>5 DEF EmitMergeConflict, handles
  <2>2. /\ row' = row /\ tree' = tree /\ CompletedSteps(log') = CompletedSteps(log)
        /\ \A name : Logged(log', name) <=> Logged(log, name) \/ name = "merge_conflict"
    BY <2>1, <1>1, EmitEvent DEF EventNames
  <2>3. HandleInv' /\ WorkInv' /\ VerdictInv'
    BY <2>1, <2>2 DEF PlaceInv, HandleInv, WorkInv, VerdictInv, Working, Merging, Cancelling
  <2> QED
    BY <2>2, <2>3
    DEF PlaceInv, LogInv, RowExplained, MergesOnlySuccess, HasFailure, WorkflowDone
<1>6. CASE EmitWorkflowCompleted
  <2>1. /\ Emit(Event("workflow_completed", 0)) /\ local' = local /\ verdict' = verdict
        /\ pc = "emitCompleted" /\ pc' = "finish"
    BY <1>6 DEF EmitWorkflowCompleted, handles
  <2>2. /\ row' = row /\ tree' = tree /\ CompletedSteps(log') = CompletedSteps(log)
        /\ \A name : Logged(log', name) <=> Logged(log, name) \/ name = "workflow_completed"
    BY <2>1, <1>1, EmitEvent DEF EventNames
  <2>3. /\ verdict \in SuccessVerdicts /\ ~HasFailure(log) /\ row = "running"
        /\ CompletedSteps(log) = N \/ Logged(log, "completion_signaled")
    BY <2>1 DEF PlaceInv, HandleInv, VerdictInv, LogInv, Merging, Succeeded, WorkflowDone
  <2>4. HandleInv' /\ WorkInv'
    BY <2>1, <2>2, <2>3 DEF PlaceInv, HandleInv, WorkInv, Working
  <2>5. VerdictInv'
    BY <2>1, <2>2, <2>3
    DEF VerdictInv, Merging, Cancelling, Succeeded, HasFailure, WorkflowDone,
        SuccessVerdicts, CancelVerdicts
  <2> QED
    BY <2>2, <2>3, <2>4, <2>5
    DEF PlaceInv, LogInv, RowExplained, MergesOnlySuccess, HasFailure, WorkflowDone
<1>7. CASE EmitWorkflowCancelled
  <2>1. /\ Emit(Event("workflow_cancelled", 0)) /\ local' = local /\ verdict' = verdict
        /\ pc = "emitCancelled" /\ pc' = "cancelBox"
    BY <1>7 DEF EmitWorkflowCancelled, handles
  <2>2. /\ row' = row /\ tree' = tree /\ CompletedSteps(log') = CompletedSteps(log)
        /\ \A name : Logged(log', name) <=> Logged(log, name) \/ name = "workflow_cancelled"
    BY <2>1, <1>1, EmitEvent DEF EventNames
  <2>3. verdict \in CancelVerdicts /\ HasFailure(log) /\ row = "running"
    BY <2>1 DEF PlaceInv, HandleInv, VerdictInv, Cancelling
  <2>4. HandleInv' /\ WorkInv' /\ VerdictInv'
    BY <2>1, <2>2, <2>3
    DEF PlaceInv, HandleInv, WorkInv, VerdictInv, Working, Merging, Cancelling, HasFailure
  <2> QED
    BY <2>2, <2>3, <2>4
    DEF PlaceInv, LogInv, RowExplained, MergesOnlySuccess, HasFailure, WorkflowDone
<1>8. CASE CancelBox
  <2>1. /\ log' = log /\ row' = row /\ tree' = tree /\ local' = local /\ verdict' = verdict
        /\ pc = "cancelBox" /\ pc' = "finish"
    BY <1>8 DEF CancelBox, DestroyBox, handles
  <2>2. verdict \in CancelVerdicts /\ verdict \notin SuccessVerdicts
    BY <2>1 DEF PlaceInv, VerdictInv, Cancelling, CancelVerdicts, SuccessVerdicts
  <2>3. HandleInv' /\ WorkInv'
    BY <2>1 DEF PlaceInv, HandleInv, WorkInv, Working, Cancelling
  <2> QED
    BY <2>1, <2>2, <2>3
    DEF PlaceInv, VerdictInv, Merging, Cancelling, LogInv, RowExplained, MergesOnlySuccess

<1>9. CASE Finish
  <2>1. /\ log' = log /\ tree' = tree /\ verdict' = verdict /\ pc = "finish"
        /\ pc' = AfterFinalise(verdict) /\ row = "running" /\ local = row
        /\ row' = Goal(verdict) /\ local' = Goal(verdict)
    BY <1>9 DEF Finish, PlaceInv, HandleInv
  <2>2. /\ pc' \in {"emitOuter", "returned"}
        /\ pc' = "emitOuter" => verdict \notin SuccessVerdicts
    BY <2>1 DEF AfterFinalise, SuccessVerdicts
  <2>3. /\ verdict \in SuccessVerdicts => Succeeded(log) /\ Logged(log, "workflow_completed")
        /\ verdict \notin SuccessVerdicts => HasFailure(log)
        /\ verdict \in CancelVerdicts => Logged(log, "workflow_cancelled")
    BY <2>1 DEF PlaceInv, VerdictInv
  <2>4. HandleInv' /\ WorkInv'
    BY <2>1, <2>2 DEF HandleInv, WorkInv, Working, Merging, Cancelling
  <2>5. VerdictInv'
    BY <2>1, <2>2, <2>3 DEF VerdictInv, Merging, Cancelling
  <2>6. LogInv' /\ MergesOnlySuccess'
    BY <2>1 DEF PlaceInv, LogInv, MergesOnlySuccess
  <2>7. RowExplained'
    BY <2>1, <2>3 DEF PlaceInv, LogInv, RowExplained, Goal, Succeeded
  <2> QED
    BY <2>4, <2>5, <2>6, <2>7 DEF PlaceInv
<1> QED
  BY <1>2, <1>3, <1>4, <1>5, <1>6, <1>7, <1>8, <1>9 DEF Finalising

\* So do the scoped events of a scope body.
LEMMA BodyPlace == TypeOK /\ PlaceInv /\ Body => PlaceInv'
<1> SUFFICES ASSUME TypeOK, PlaceInv, NEW n \in {"step_started", "step_completed"},
                    ScopedProgress(n)
             PROVE  PlaceInv'
  BY DEF Body
<1>1. /\ Emit(ScopedEvent(n, cur)) /\ pc = "running" /\ pc' = pc /\ cur' = cur
      /\ verdict' = verdict /\ local' = local
  BY DEF ScopedProgress, handles
<1>2. ScopedEvent(n, cur) \in Events
  <2>1. n \in EventNames /\ cur \in 0..N
    BY DEF TypeOK, EventNames
  <2> QED
    BY <2>1, NAssumption, EventTypes
<1>3. ~TopCompleted(ScopedEvent(n, cur)) /\ ScopedEvent(n, cur).ev = n
  BY DEF ScopedEvent, TopCompleted
<1>4. /\ CompletedSteps(log') = CompletedSteps(log) /\ row' = row /\ tree' = tree
      /\ \A name : Logged(log', name) <=> Logged(log, name) \/ name = n
  BY <1>1, <1>2, <1>3, EmitFacts
<1> QED
  BY <1>1, <1>4, WorkingMove DEF Working

\* So do cancels, signals, crashes and relaunches.
LEMMA EnvironmentPlace == TypeOK /\ PlaceInv /\ (Environment \/ UNCHANGED vars) => PlaceInv'
<1> SUFFICES ASSUME TypeOK, PlaceInv, Environment \/ UNCHANGED vars PROVE PlaceInv'
  OBVIOUS
<1>1. CASE Crash \/ Exit
  <2>1. log' = log /\ row' = row /\ tree' = tree /\ pc' = "down"
    BY <1>1 DEF Crash, Exit, world
  <2> QED
    BY <2>1, QuietMove
<1>2. CASE Launch
  <2>1. log' = log /\ row' = row /\ tree' = tree /\ pc' = "idle" /\ local' = row
    BY <1>2 DEF Launch, world
  <2> QED
    BY <2>1, QuietMove
<1>3. CASE Cancel \/ Shutdown \/ Stopped \/ UNCHANGED vars
  <2>1. /\ log' = log /\ row' = row /\ tree' = tree /\ pc' = pc /\ cur' = cur
        /\ verdict' = verdict /\ local' = local
    BY <1>3 DEF Cancel, Shutdown, Stopped, vars, world, handles
  <2>2. HandleInv' /\ WorkInv' /\ VerdictInv'
    BY <2>1 DEF PlaceInv, HandleInv, WorkInv, VerdictInv
  <2> QED
    BY <2>1, <2>2 DEF PlaceInv, LogInv, RowExplained, MergesOnlySuccess
<1> QED
  BY <1>1, <1>2, <1>3 DEF Environment

\* The invariant is inductive.
LEMMA PlaceStep == TypeOK /\ PlaceInv /\ [Next]_vars => PlaceInv'
BY StepPlace, PreparePlace, ExecutePlace, ConcludePlace, FinalisingPlace, BodyPlace,
   EnvironmentPlace DEF Next, EngineNext

\* PlaceInv holds in every reachable state.
THEOREM PlaceCorrect == Spec => []PlaceInv
<1>1. Init => PlaceInv
  <2> SUFFICES ASSUME Init PROVE PlaceInv
    OBVIOUS
  <2>1. /\ log = << >> /\ pc = "idle" /\ row = "running" /\ local = "running"
        /\ tree = "absent" /\ log \in Seq(Events)
    BY DEF Init
  <2>2. {i \in DOMAIN log : TopCompleted(log[i])} = {} /\ \A name : ~Logged(log, name)
    BY <2>1 DEF Logged
  <2>3. CompletedSteps(log) = 0
    BY <2>2, FS_EmptySet DEF CompletedSteps
  <2>4. LogInv
    BY <2>2, <2>3, NAssumption DEF LogInv
  <2> QED
    BY <2>1, <2>4 DEF PlaceInv, HandleInv, WorkInv, VerdictInv, RowExplained,
       MergesOnlySuccess, Working, Merging, Cancelling
<1> QED
  BY <1>1, TypeCorrect, PlaceStep, PTL DEF Spec

\* Every terminal status of the session row is explained by the log that
\* Session::finish left behind, for every workflow, whatever crashes.
THEOREM RowIsExplained == Spec => []RowExplained
<1>1. PlaceInv => RowExplained
  BY DEF PlaceInv
<1> QED
  BY <1>1, PlaceCorrect, PTL

\* finalize_workspace_success merges no failed, cancelled or unfinished session.
THEOREM OnlySuccessIsMerged == Spec => []MergesOnlySuccess
<1>1. PlaceInv => MergesOnlySuccess
  BY DEF PlaceInv
<1> QED
  BY <1>1, PlaceCorrect, PTL

-----------------------------------------------------------------------------
(* The log as a history: what may be appended, and from which place. *)

Allowed(e) ==
    /\ e.ev \in {"step_started", "step_completed", "completion_signaled"} => pc \in Working
    /\ TopCompleted(e) => e.step = cur
    /\ e.ev = "step_failed" => pc \in Working \cup {"emitOuter"}
    /\ e.ev = "workflow_completed" => pc = "emitCompleted"

\* A step leaves the log alone or appends one event its place allows; only
\* Finish touches the row.
LEMMA LogStep ==
    ASSUME TypeOK, [Next]_vars
    PROVE  \/ log' = log /\ (row' = row \/ Finish)
           \/ \E e \in Events : Emit(e) /\ Allowed(e)
<1>1. cur \in 0..N /\ 0 \in 0..N
  BY NAssumption DEF TypeOK
<1>2. ASSUME NEW n \in EventNames, NEW s \in 0..N, Emit(Event(n, s)),
             n \in {"step_started", "step_completed", "completion_signaled"} => pc \in Working,
             n = "step_completed" => s = cur,
             n = "step_failed" => pc \in Working \cup {"emitOuter"},
             n = "workflow_completed" => pc = "emitCompleted"
      PROVE  \E e \in Events : Emit(e) /\ Allowed(e)
  <2>1. Event(n, s) \in Events
    BY NAssumption, EventTypes
  <2>2. Allowed(Event(n, s))
    BY <1>2 DEF Allowed, Event, TopCompleted
  <2> QED
    BY <1>2, <2>1, <2>2
<1>3. CASE Step
  BY <1>3 DEF Step, StepPreviouslyFailed, StepAllCompleted, StepCancelledBefore, StepNext, world
<1>4. CASE Prepare
  <2>1. CASE EmitWorkflowStarted
    BY <2>1, <1>1, <1>2 DEF EmitWorkflowStarted, EventNames
  <2>2. CASE EmitWorkspacePrepared
    BY <2>2, <1>1, <1>2 DEF EmitWorkspacePrepared, EventNames
  <2>3. CASE EmitBranchCreated
    BY <2>3, <1>1, <1>2 DEF EmitBranchCreated, EventNames
  <2>4. CASE WorkspacePrepare \/ EnsureNothing \/ EnsureContainer \/ CopyIn
    BY <2>4 DEF WorkspacePrepare, EnsureNothing, EnsureContainer, CopyIn, world
  <2> QED
    BY <1>4, <2>1, <2>2, <2>3, <2>4 DEF Prepare
<1>5. CASE Execute
  <2>1. CASE EmitStepStarted
    BY <2>1, <1>1, <1>2 DEF EmitStepStarted, EventNames, Working
  <2>2. CASE EmitUserTurn
    BY <2>2, <1>1, <1>2 DEF EmitUserTurn, EventNames
  <2>3. CASE EmitReply
    BY <2>3, <1>1, <1>2 DEF EmitReply, EventNames
  <2>4. CASE DispatchCancelled \/ DispatchRejected \/ Dispatch \/ Select
    BY <2>4 DEF DispatchCancelled, DispatchRejected, Dispatch, Select, world
  <2> QED
    BY <1>5, <2>1, <2>2, <2>3, <2>4 DEF Execute
<1>6. CASE Conclude
  <2>1. CASE EmitStepCompleted
    BY <2>1, <1>1, <1>2 DEF EmitStepCompleted, EventNames, Working
  <2>2. CASE EmitCompletionSignaled
    BY <2>2, <1>1, <1>2 DEF EmitCompletionSignaled, EventNames, Working
  <2>3. CASE EmitCause
    <3>1. CauseOf(verdict) \in {"step_timeout_fired", "idle_timeout_fired", "signal_received"}
      BY DEF CauseOf
    <3>2. CauseOf(verdict) \in EventNames
      BY <3>1 DEF EventNames
    <3> QED
      BY <2>3, <1>1, <1>2, <3>1, <3>2 DEF EmitCause
  <2>4. CASE EmitStepFailed
    BY <2>4, <1>1, <1>2 DEF EmitStepFailed, EventNames, Working
  <2>5. CASE EmitOuterFailed
    BY <2>5, <1>1, <1>2 DEF EmitOuterFailed, EventNames
  <2>6. CASE TearDown
    BY <2>6 DEF TearDown, DestroyBox
  <2> QED
    BY <1>6, <2>1, <2>2, <2>3, <2>4, <2>5, <2>6 DEF Conclude
<1>7. CASE Finalising
  <2>1. CASE EmitMergeAttempted
    BY <2>1, <1>1, <1>2 DEF EmitMergeAttempted, EventNames
  <2>2. CASE EmitMergeConflict
    BY <2>2, <1>1, <1>2 DEF EmitMergeConflict, EventNames
  <2>3. CASE EmitWorkflowCompleted
    BY <2>3, <1>1, <1>2 DEF EmitWorkflowCompleted, EventNames
  <2>4. CASE EmitWorkflowCancelled
    BY <2>4, <1>1, <1>2 DEF EmitWorkflowCancelled, EventNames
  <2>5. CASE SyncBack \/ DropBox \/ Merge \/ CancelBox
    BY <2>5 DEF SyncBack, DropBox, Merge, CancelBox, DestroyBox
  <2>6. CASE Finish
    BY <2>6 DEF Finish
  <2> QED
    BY <1>7, <2>1, <2>2, <2>3, <2>4, <2>5, <2>6 DEF Finalising
<1>8. CASE Body
  <2>1. PICK n \in {"step_started", "step_completed"} : ScopedProgress(n)
    BY <1>8 DEF Body
  <2>2. ScopedEvent(n, cur) \in Events
    BY <1>1, NAssumption, EventTypes DEF EventNames
  <2>3. Emit(ScopedEvent(n, cur)) /\ pc \in Working
    BY <2>1 DEF ScopedProgress, Working
  <2>4. Allowed(ScopedEvent(n, cur))
    BY <2>3 DEF Allowed, ScopedEvent, TopCompleted
  <2> QED
    BY <2>2, <2>3, <2>4
<1>9. CASE Environment \/ UNCHANGED vars
  BY <1>9 DEF Environment, Cancel, Shutdown, Crash, Exit, Launch, Stopped, vars, world
<1> QED
  BY <1>3, <1>4, <1>5, <1>6, <1>7, <1>8, <1>9 DEF Next, EngineNext

\* No action appends progress behind a recorded failure.
LEMMA NothingAfterFailureStep ==
    ASSUME TypeOK, PlaceInv, NothingAfterFailure, [Next]_vars
    PROVE  NothingAfterFailure'
<1>1. CASE log' = log
  BY <1>1 DEF NothingAfterFailure
<1>2. CASE \E e \in Events : Emit(e) /\ Allowed(e)
  <2>1. PICK e \in Events : Emit(e) /\ Allowed(e)
    BY <1>2
  <2>2. /\ log \in Seq(Events) /\ log' = Append(log, e)
    BY <2>1 DEF TypeOK, Emit
  <2>3. /\ DOMAIN log = 1..Len(log) /\ DOMAIN log' = 1..(Len(log) + 1) /\ Len(log) \in Nat
        /\ \A i \in 1..Len(log) : log'[i] = log[i]
        /\ log'[Len(log) + 1] = e
    BY <2>2
  <2>4. HasFailure(log) =>
          e.ev \notin {"step_started", "step_completed", "completion_signaled",
                       "workflow_completed"}
    <3>1. pc \in Working => ~HasFailure(log)
      BY DEF PlaceInv, WorkInv
    <3>2. pc = "emitCompleted" => ~HasFailure(log)
      BY DEF PlaceInv, VerdictInv, Merging, Succeeded
    <3> QED
      BY <2>1, <3>1, <3>2 DEF Allowed
  <2>5. SUFFICES ASSUME NEW i \in DOMAIN log', NEW j \in DOMAIN log',
                        i < j, log'[i].ev = "step_failed"
                 PROVE  log'[j].ev \notin {"step_started", "step_completed",
                                          "completion_signaled", "workflow_completed"}
    BY DEF NothingAfterFailure
  <2>6. i \in DOMAIN log /\ log[i].ev = "step_failed"
    BY <2>3, <2>5
  <2>7. HasFailure(log)
    BY <2>6 DEF HasFailure, Logged
  <2>8. CASE j \in DOMAIN log
    BY <2>3, <2>5, <2>6, <2>8 DEF NothingAfterFailure
  <2>9. CASE j = Len(log) + 1
    BY <2>3, <2>4, <2>7, <2>9
  <2> QED
    BY <2>3, <2>8, <2>9
<1> QED
  BY <1>1, <1>2, LogStep

\* After a step_failed no process ever starts or completes a step of the
\* session, or reports the workflow complete.
THEOREM FailureIsFinal == Spec => []NothingAfterFailure
<1>1. Init => NothingAfterFailure
  BY DEF Init, NothingAfterFailure
<1> QED
  BY <1>1, TypeCorrect, PlaceCorrect, NothingAfterFailureStep, PTL DEF Spec

\* A completion is appended under the first number without one.
LEMMA CompletionsInOrderStep ==
    ASSUME TypeOK, PlaceInv, CompletionsInOrder, [Next]_vars
    PROVE  CompletionsInOrder'
<1>1. CASE log' = log
  BY <1>1 DEF CompletionsInOrder
<1>2. CASE \E e \in Events : Emit(e) /\ Allowed(e)
  <2>1. PICK e \in Events : Emit(e) /\ Allowed(e)
    BY <1>2
  <2>2. /\ log \in Seq(Events) /\ log' = Append(log, e)
    BY <2>1 DEF TypeOK, Emit
  <2>3. /\ DOMAIN log = 1..Len(log) /\ DOMAIN log' = 1..(Len(log) + 1) /\ Len(log) \in Nat
        /\ \A i \in 1..Len(log) : log'[i] = log[i]
        /\ log'[Len(log) + 1] = e
    BY <2>2
  <2>4. SUFFICES ASSUME NEW i \in DOMAIN log', TopCompleted(log'[i])
                 PROVE  log'[i].step = Cardinality({j \in 1..i : TopCompleted(log'[j])})
    BY DEF CompletionsInOrder
  <2>5. CASE i \in DOMAIN log
    <3>1. {j \in 1..i : TopCompleted(log'[j])} = {j \in 1..i : TopCompleted(log[j])}
      BY <2>3, <2>5
    <3>2. log[i].step = Cardinality({j \in 1..i : TopCompleted(log[j])})
      BY <2>3, <2>4, <2>5 DEF CompletionsInOrder
    <3> QED
      BY <2>3, <2>5, <3>1, <3>2
  <2>6. CASE i = Len(log) + 1
    <3>1. TopCompleted(e)
      BY <2>3, <2>4, <2>6
    <3>2. e.step = cur /\ pc \in Working
      BY <2>1, <3>1 DEF Allowed, TopCompleted
    <3>3. e.step = CompletedSteps(log) + 1
      BY <3>2 DEF PlaceInv, WorkInv
    <3>4. CompletedSteps(log') = CompletedSteps(log) + 1
      BY <2>2, <3>1, CompletedAppend
    <3>5. CompletedSteps(log') = Cardinality({j \in 1..i : TopCompleted(log'[j])})
      BY <2>3, <2>6 DEF CompletedSteps
    <3> QED
      BY <2>3, <2>6, <3>3, <3>4, <3>5
  <2> QED
    BY <2>3, <2>5, <2>6
<1> QED
  BY <1>1, <1>2, LogStep

\* The k-th top-level completion of the log is step k's, for workflows of any
\* length and any number of resumes in any place.
THEOREM CompletionsAreInOrder == Spec => []CompletionsInOrder
<1>1. Init => CompletionsInOrder
  BY DEF Init, CompletionsInOrder
<1> QED
  BY <1>1, TypeCorrect, PlaceCorrect, CompletionsInOrderStep, PTL DEF Spec

-----------------------------------------------------------------------------
(* The container. *)

\* The container goes only when the log has decided the workflow.
LEMMA DestroyStep ==
    ASSUME TypeOK, PlaceInv, [Next]_vars, box # "absent", box' = "absent"
    PROVE  HasFailure(log) \/ WorkflowDone(log) \/ CompletedSteps(log) = N
<1>1. TearDown \/ DropBox \/ CancelBox
  <2>1. CASE Step
    BY <2>1 DEF Step, StepPreviouslyFailed, StepAllCompleted, StepCancelledBefore, StepNext, world
  <2>2. CASE Prepare
    BY <2>2 DEF Prepare, EmitWorkflowStarted, EmitWorkspacePrepared, EmitBranchCreated,
       WorkspacePrepare, EnsureNothing, EnsureContainer, CopyIn, Emit, world
  <2>3. CASE Execute
    BY <2>3 DEF Execute, EmitStepStarted, DispatchCancelled, DispatchRejected, Dispatch,
       EmitUserTurn, Select, EmitReply, Emit, world
  <2>4. CASE Conclude
    BY <2>4 DEF Conclude, EmitStepCompleted, EmitCompletionSignaled, EmitCause,
       EmitStepFailed, EmitOuterFailed, Emit
  <2>5. CASE Finalising
    BY <2>5 DEF Finalising, SyncBack, EmitMergeAttempted, Merge, EmitMergeConflict,
       EmitWorkflowCompleted, EmitWorkflowCancelled, Finish, Emit
  <2>6. CASE Body \/ Environment \/ UNCHANGED vars
    BY <2>6 DEF Body, ScopedProgress, Emit, Environment, Cancel, Shutdown, Crash, Exit,
       Launch, Stopped, vars, world
  <2> QED
    BY <2>1, <2>2, <2>3, <2>4, <2>5, <2>6 DEF Next, EngineNext
<1>2. pc \in {"tearDown", "dropBox", "cancelBox"}
  BY <1>1 DEF TearDown, DropBox, CancelBox
<1> QED
  BY <1>2 DEF PlaceInv, VerdictInv, Cancelling, Succeeded

\* No teardown of the session container precedes the log's decision, so no
\* resumed engine runs a step in a container that was emptied under it.
THEOREM TearDownIsLogged == Spec => DestroyOnlyWhenDecided
<1>1. TypeOK /\ PlaceInv /\ [Next]_vars =>
        [box # "absent" /\ box' = "absent" =>
           HasFailure(log) \/ WorkflowDone(log) \/ CompletedSteps(log) = N]_vars
  BY DestroyStep
<1> QED
  BY <1>1, TypeCorrect, PlaceCorrect, PTL DEF Spec, DestroyOnlyWhenDecided

-----------------------------------------------------------------------------
(* Where the workflow and its steps start. *)

Starts(l) == {i \in DOMAIN l : l[i].ev = "workflow_started"}

\* A process that may still log WorkflowStarted has not used up its share, and may do so only before the
\* first completion.
StartInv ==
    /\ pc = "begin" => started /\ CompletedSteps(log) = 0
    /\ Cardinality(Starts(log)) <= launches
    /\ pc # "down" /\ (pc = "begin" \/ ~started) => Cardinality(Starts(log)) < launches

\* The starts of a log are finitely many, and an append adds its own.
LEMMA StartsAppend ==
    ASSUME NEW l \in Seq(Events), NEW e \in Events
    PROVE  /\ Cardinality(Starts(l)) \in Nat
           /\ Cardinality(Starts(Append(l, e))) =
                IF e.ev = "workflow_started" THEN Cardinality(Starts(l)) + 1 ELSE Cardinality(Starts(l))
<1>1. /\ DOMAIN Append(l, e) = 1..(Len(l) + 1) /\ DOMAIN l = 1..Len(l) /\ Len(l) \in Nat
      /\ \A i \in 1..Len(l) : Append(l, e)[i] = l[i]
      /\ Append(l, e)[Len(l) + 1] = e
  OBVIOUS
<1>2. Starts(Append(l, e)) = IF e.ev = "workflow_started" THEN Starts(l) \cup {Len(l) + 1} ELSE Starts(l)
  BY <1>1 DEF Starts
<1>3. Len(l) + 1 \notin Starts(l) /\ Starts(l) \subseteq 1..Len(l)
  BY <1>1 DEF Starts
<1>4. IsFiniteSet(Starts(l))
  <2>1. IsFiniteSet(1..Len(l))
    BY <1>1, FS_Interval
  <2> QED
    BY <1>3, <2>1, FS_Subset
<1>5. Cardinality(Starts(l)) \in Nat
  BY <1>4, FS_CardinalityType
<1> QED
  BY <1>2, <1>3, <1>4, <1>5, FS_AddElement

\* Only EmitWorkflowStarted appends WorkflowStarted.
LEMMA StartsStep ==
    ASSUME TypeOK, [Next]_vars
    PROVE  \/ EmitWorkflowStarted
           \/ log' = log
           \/ \E e \in Events : Emit(e) /\ e.ev # "workflow_started"
<1>1. cur \in 0..N /\ 0 \in 0..N
  BY NAssumption DEF TypeOK
<1>2. ASSUME NEW n \in EventNames, NEW s \in 0..N, Emit(Event(n, s)), n # "workflow_started"
      PROVE  \E e \in Events : Emit(e) /\ e.ev # "workflow_started"
  <2>1. Event(n, s) \in Events
    BY NAssumption, EventTypes
  <2>2. Event(n, s).ev # "workflow_started"
    BY <1>2 DEF Event
  <2> QED
    BY <1>2, <2>1, <2>2
<1>3. CASE Prepare
  BY <1>1, <1>2, <1>3 DEF Prepare, EmitWorkspacePrepared, EmitBranchCreated, EventNames, WorkspacePrepare,
     EnsureNothing, EnsureContainer, CopyIn, world
<1>4. CASE Execute
  BY <1>1, <1>2, <1>4 DEF Execute, EmitStepStarted, EmitUserTurn, EmitReply, EventNames, DispatchCancelled,
     DispatchRejected, Dispatch, Select, world
<1>5. CASE Conclude
  <2>1. CauseOf(verdict) \in EventNames /\ CauseOf(verdict) # "workflow_started"
    BY DEF CauseOf, EventNames
  <2> QED
    BY <1>1, <1>2, <1>5, <2>1 DEF Conclude, EmitStepCompleted, EmitCompletionSignaled, EmitCause,
       EmitStepFailed, EmitOuterFailed, TearDown, DestroyBox, EventNames
<1>6. CASE Finalising
  BY <1>1, <1>2, <1>6 DEF Finalising, EmitMergeAttempted, EmitMergeConflict, EmitWorkflowCompleted,
     EmitWorkflowCancelled, SyncBack, DropBox, Merge, CancelBox, Finish, DestroyBox, EventNames
<1>7. CASE Body
  <2>1. PICK n \in {"step_started", "step_completed"} : ScopedProgress(n)
    BY <1>7 DEF Body
  <2>2. ScopedEvent(n, cur) \in Events /\ ScopedEvent(n, cur).ev # "workflow_started"
    BY <1>1, NAssumption, EventTypes DEF EventNames, ScopedEvent
  <2> QED
    BY <2>1, <2>2 DEF ScopedProgress
<1>8. CASE Step \/ Environment \/ UNCHANGED vars
  BY <1>8 DEF Step, StepPreviouslyFailed, StepAllCompleted, StepCancelledBefore, StepNext,
     Environment, Cancel, Shutdown, Crash, Exit, Launch, Stopped, vars, world
<1> QED
  BY <1>3, <1>4, <1>5, <1>6, <1>7, <1>8 DEF Next, EngineNext

\* A process comes to "begin" once, from the replay of a log without progress, with started_at just set.
LEMMA BeginStep ==
    ASSUME TypeOK, [Next]_vars, pc' = "begin"
    PROVE  /\ log' = log
           /\ \/ pc = "begin" /\ started' = started
              \/ pc = "idle" /\ FirstStep /\ started' = TRUE
<1>1. CASE StepCancelledBefore \/ StepNext
  <2>1. pc = "idle" /\ log' = log /\ started' = (started \/ FirstStep)
    BY <1>1 DEF StepCancelledBefore, StepNext, HasNext, world
  <2>2. FirstStep
    BY <1>1 DEF StepCancelledBefore, StepNext, BeforeStart
  <2> QED
    BY <2>1, <2>2, Zenon
<1>2. CASE Cancel \/ Shutdown \/ Stopped \/ UNCHANGED vars
  BY <1>2 DEF Cancel, Shutdown, Stopped, vars, world, handles
<1>3. ~(StepPreviouslyFailed \/ StepAllCompleted)
  BY DEF StepPreviouslyFailed, StepAllCompleted, Finalise, AfterFinalise, AfterSync
<1>4. ~Prepare
  BY DEF Prepare, EmitWorkflowStarted, EmitWorkspacePrepared, EmitBranchCreated, WorkspacePrepare,
     EnsureNothing, EnsureContainer, CopyIn, BeforeStart
<1>5. ~Execute
  BY DEF Execute, EmitStepStarted, EmitUserTurn, EmitReply, DispatchCancelled, DispatchRejected, Dispatch,
     Select, AfterSelect
<1>6. ~Conclude
  BY DEF Conclude, EmitStepCompleted, EmitCompletionSignaled, EmitCause, EmitStepFailed, EmitOuterFailed,
     TearDown, Finalise, AfterFinalise, AfterSync
<1>7. ~Finalising
  BY DEF Finalising, EmitMergeAttempted, EmitMergeConflict, EmitWorkflowCompleted, EmitWorkflowCancelled,
     SyncBack, DropBox, Merge, CancelBox, Finish, AfterFinalise, AfterSync
<1>8. ~(Body \/ Crash \/ Exit \/ Launch)
  BY DEF Body, ScopedProgress, Crash, Exit, Launch
<1> QED
  BY <1>1, <1>2, <1>3, <1>4, <1>5, <1>6, <1>7, <1>8 DEF Next, EngineNext, Step, Environment

\* Only a fresh process forgets that it has logged WorkflowStarted.
LEMMA StartedStep ==
    ASSUME TypeOK, [Next]_vars
    PROVE  \/ launches' = launches /\ (pc = "down" => pc' = "down") /\ (started = TRUE => started' = TRUE)
           \/ launches' = launches + 1 /\ pc' = "idle"
<1>1. CASE StepCancelledBefore \/ StepNext
  <2>1. pc = "idle" /\ launches' = launches /\ started' = (started \/ FirstStep)
    BY <1>1 DEF StepCancelledBefore, StepNext, HasNext, Stay
  <2>2. started = TRUE => started' = TRUE
    BY <2>1, Zenon
  <2> QED
    BY <2>1, <2>2
<1>2. CASE StepPreviouslyFailed \/ StepAllCompleted
  BY <1>2 DEF StepPreviouslyFailed, StepAllCompleted, Stay, handles
<1>3. CASE Prepare
  BY <1>3 DEF Prepare, EmitWorkflowStarted, EmitWorkspacePrepared, EmitBranchCreated, WorkspacePrepare,
     EnsureNothing, EnsureContainer, CopyIn, Stay, handles
<1>4. CASE Execute
  BY <1>4 DEF Execute, EmitStepStarted, EmitUserTurn, EmitReply, DispatchCancelled, DispatchRejected,
     Dispatch,
     Select, Stay, handles
<1>5. CASE Conclude
  BY <1>5 DEF Conclude, EmitStepCompleted, EmitCompletionSignaled, EmitCause, EmitStepFailed,
     EmitOuterFailed,
     TearDown, Stay, handles
<1>6. CASE Finalising
  BY <1>6 DEF Finalising, EmitMergeAttempted, EmitMergeConflict, EmitWorkflowCompleted,
     EmitWorkflowCancelled,
     SyncBack, DropBox, Merge, CancelBox, Finish, Stay, handles
<1>7. CASE Body
  BY <1>7 DEF Body, ScopedProgress, Stay, handles
<1>8. CASE Cancel \/ Shutdown \/ Crash \/ Exit \/ Stopped \/ UNCHANGED vars
  BY <1>8 DEF Cancel, Shutdown, Crash, Exit, Stopped, Up, vars, handles
<1>9. CASE Launch
  BY <1>9 DEF Launch
<1> QED
  BY <1>1, <1>2, <1>3, <1>4, <1>5, <1>6, <1>7, <1>8, <1>9 DEF Next, EngineNext, Step, Environment

\* The share of the processes.
LEMMA StartInvStep ==
    ASSUME TypeOK, StartInv, [Next]_vars
    PROVE  StartInv'
<1>0. log \in Seq(Events) /\ launches \in Nat /\ started \in BOOLEAN /\ started' \in BOOLEAN
  BY BoundAssumption, TypeStep DEF TypeOK
<1>1. CASE EmitWorkflowStarted
  <2>1. /\ pc = "begin" /\ pc' # "begin" /\ started' = started /\ launches' = launches
        /\ log' = Append(log, Event("workflow_started", 0))
    BY <1>1 DEF EmitWorkflowStarted, Emit, BeforeStart, Stay, handles
  <2>2. Event("workflow_started", 0) \in Events /\ Event("workflow_started", 0).ev = "workflow_started"
    BY NAssumption, EventTypes DEF EventNames, Event
  <2>3. Cardinality(Starts(log')) = Cardinality(Starts(log)) + 1 /\ Cardinality(Starts(log)) \in Nat
    BY <1>0, <2>1, <2>2, StartsAppend
  <2>4. started = TRUE /\ Cardinality(Starts(log)) < launches
    BY <2>1 DEF StartInv
  <2> QED
    BY <1>0, <2>1, <2>3, <2>4 DEF StartInv
<1>2. ASSUME ~EmitWorkflowStarted PROVE StartInv'
  <2>1. Cardinality(Starts(log')) = Cardinality(Starts(log)) /\ Cardinality(Starts(log)) \in Nat
    <3>0. \E e : e \in Events
      BY NAssumption, EventTypes DEF EventNames
    <3>1. Cardinality(Starts(log)) \in Nat
      BY <1>0, <3>0, StartsAppend
    <3>2. CASE log' = log
      BY <3>1, <3>2
    <3>3. CASE \E e \in Events : Emit(e) /\ e.ev # "workflow_started"
      <4>1. PICK e \in Events : Emit(e) /\ e.ev # "workflow_started"
        BY <3>3
      <4>2. log' = Append(log, e)
        BY <4>1 DEF Emit
      <4> QED
        BY <1>0, <4>1, <4>2, <3>1, StartsAppend
    <3> QED
      BY <1>2, <3>2, <3>3, StartsStep
  <2>2. pc' = "begin" => started' = TRUE /\ CompletedSteps(log') = 0 /\ Cardinality(Starts(log)) < launches
    <3> SUFFICES ASSUME pc' = "begin"
                 PROVE  started' = TRUE /\ CompletedSteps(log') = 0 /\ Cardinality(Starts(log)) < launches
      OBVIOUS
    <3>1. CASE pc = "begin" /\ started' = started
      <4>1. started = TRUE /\ CompletedSteps(log) = 0 /\ Cardinality(Starts(log)) < launches
        BY <3>1 DEF StartInv
      <4> QED
        BY <3>1, <4>1, BeginStep
    <3>2. CASE pc = "idle" /\ FirstStep /\ started' = TRUE
      <4>1. CompletedSteps(log) = 0 /\ ~started
        BY <3>2 DEF FirstStep
      <4>2. Cardinality(Starts(log)) < launches
        BY <3>2, <4>1 DEF StartInv
      <4> QED
        BY <3>2, <4>1, <4>2, BeginStep
    <3> QED
      BY <3>1, <3>2, BeginStep
  <2>3. CASE launches' = launches /\ (pc = "down" => pc' = "down") /\ (started = TRUE => started' = TRUE)
    <3>1. pc' # "down" /\ ~started' => Cardinality(Starts(log)) < launches
      BY <1>0, <2>3 DEF StartInv
    <3> QED
      BY <1>0, <2>1, <2>2, <2>3, <3>1 DEF StartInv
  <2>4. CASE launches' = launches + 1 /\ pc' = "idle"
    BY <1>0, <2>1, <2>4 DEF StartInv
  <2> QED
    BY <2>3, <2>4, StartedStep
<1> QED
  BY <1>1, <1>2

\* A log without top-level completions is one whose progress is zero.
LEMMA NoProgress ==
    ASSUME NEW l \in Seq(Events), CompletedSteps(l) = 0
    PROVE  \A j \in DOMAIN l : ~TopCompleted(l[j])
<1>1. {i \in DOMAIN l : TopCompleted(l[i])} = {}
  BY CompletedFinite, FS_EmptySet DEF CompletedSteps
<1> QED
  BY <1>1

\* WorkflowStarted comes before every completion.
StartsFirst == \A i \in Starts(log) : \A j \in DOMAIN log : TopCompleted(log[j]) => i < j

\* An append keeps the starts in front: the one of a process precedes all progress.
LEMMA StartsFirstStep ==
    ASSUME TypeOK, StartInv, StartsFirst, [Next]_vars
    PROVE  StartsFirst'
<1>0. log \in Seq(Events)
  BY DEF TypeOK
<1>1. ASSUME NEW e \in Events, log' = Append(log, e),
             e.ev = "workflow_started" => \A j \in DOMAIN log : ~TopCompleted(log[j])
      PROVE  StartsFirst'
  <2>1. /\ DOMAIN log' = 1..(Len(log) + 1) /\ DOMAIN log = 1..Len(log) /\ Len(log) \in Nat
        /\ \A i \in 1..Len(log) : log'[i] = log[i]
        /\ log'[Len(log) + 1] = e
    BY <1>0, <1>1
  <2>2. TopCompleted(e) => e.ev # "workflow_started"
    BY DEF TopCompleted
  <2> QED
    BY <1>1, <2>1, <2>2 DEF StartsFirst, Starts
<1>2. CASE EmitWorkflowStarted
  <2>1. pc = "begin" /\ log' = Append(log, Event("workflow_started", 0))
    BY <1>2 DEF EmitWorkflowStarted, Emit
  <2>2. Event("workflow_started", 0) \in Events
    BY NAssumption, EventTypes DEF EventNames
  <2>3. \A j \in DOMAIN log : ~TopCompleted(log[j])
    BY <1>0, <2>1, NoProgress DEF StartInv
  <2> QED
    BY <1>1, <2>1, <2>2, <2>3
<1>3. CASE log' = log
  BY <1>3 DEF StartsFirst
<1> QED
  BY <1>1, <1>2, <1>3, StartsStep DEF Emit

\* The StepStarted of the step that is about to run, or runs, is on the log, and only events of that step
\* are behind it.
Announced ==
    pc \in {"dispatch", "chatUser", "running"} =>
        \E i \in DOMAIN log :
          /\ log[i] = Event("step_started", cur)
          /\ \A j \in DOMAIN log : j > i => log[j].step = cur /\ ~TopCompleted(log[j])

\* An event of the step in progress that is no completion may be appended behind its StepStarted.
LEMMA AnnouncedAppend ==
    ASSUME TypeOK, NEW e \in Events, log' = Append(log, e), cur' = cur,
           \/ e = Event("step_started", cur)
           \/ pc \in {"dispatch", "chatUser", "running"} /\ Announced /\ e.step = cur /\ ~TopCompleted(e)
    PROVE  Announced'
<1>1. /\ log \in Seq(Events) /\ DOMAIN log' = 1..(Len(log) + 1) /\ DOMAIN log = 1..Len(log) /\ Len(log) \in Nat
      /\ \A i \in 1..Len(log) : log'[i] = log[i]
      /\ log'[Len(log) + 1] = e
  BY DEF TypeOK
<1>2. CASE e = Event("step_started", cur)
  <2>1. /\ Len(log) + 1 \in DOMAIN log' /\ log'[Len(log) + 1] = Event("step_started", cur)
        /\ \A j \in DOMAIN log' : ~(j > Len(log) + 1)
    BY <1>1, <1>2
  <2> QED
    BY <2>1 DEF Announced
<1>3. CASE pc \in {"dispatch", "chatUser", "running"} /\ Announced /\ e.step = cur /\ ~TopCompleted(e)
  <2>1. PICK i \in DOMAIN log :
          /\ log[i] = Event("step_started", cur)
          /\ \A j \in DOMAIN log : j > i => log[j].step = cur /\ ~TopCompleted(log[j])
    BY <1>3 DEF Announced
  <2>2. /\ i \in DOMAIN log' /\ log'[i] = Event("step_started", cur)
        /\ \A j \in DOMAIN log' : j > i => log'[j].step = cur /\ ~TopCompleted(log'[j])
    BY <1>1, <1>3, <2>1
  <2> QED
    BY <2>2 DEF Announced
<1> QED
  BY <1>2, <1>3

\* A step runs behind its own StepStarted.
LEMMA AnnouncedStep ==
    ASSUME TypeOK, Announced, [Next]_vars
    PROVE  Announced'
<1>0. cur \in 0..N
  BY NAssumption DEF TypeOK
<1>1. CASE EmitStepStarted
  <2>1. Event("step_started", cur) \in Events
    BY <1>0, NAssumption, EventTypes DEF EventNames
  <2> QED
    BY <1>1, <2>1, AnnouncedAppend DEF EmitStepStarted, Emit
<1>2. CASE EmitUserTurn
  <2>1. /\ Event("chat_message_appended", cur) \in Events /\ Event("chat_message_appended", cur).step = cur
        /\ ~TopCompleted(Event("chat_message_appended", cur))
    BY <1>0, NAssumption, EventTypes DEF EventNames, Event, TopCompleted
  <2> QED
    BY <1>2, <2>1, AnnouncedAppend DEF EmitUserTurn, Emit
<1>3. CASE Body
  <2>1. PICK n \in {"step_started", "step_completed"} : ScopedProgress(n)
    BY <1>3 DEF Body
  <2>2. /\ ScopedEvent(n, cur) \in Events /\ ScopedEvent(n, cur).step = cur
        /\ ~TopCompleted(ScopedEvent(n, cur))
    BY <1>0, NAssumption, EventTypes DEF EventNames, ScopedEvent, TopCompleted
  <2> QED
    BY <2>1, <2>2, AnnouncedAppend DEF ScopedProgress, Emit
<1>4. CASE Dispatch \/ Cancel \/ Shutdown \/ Stopped \/ UNCHANGED vars
  <2>1. log' = log /\ cur' = cur /\ (pc' = pc \/ pc = "dispatch")
    BY <1>4 DEF Dispatch, Cancel, Shutdown, Stopped, vars, world
  <2> QED
    BY <2>1 DEF Announced
<1>5. ASSUME pc' \notin {"dispatch", "chatUser", "running"} PROVE Announced'
  BY <1>5 DEF Announced
<1>6. CASE Step
  BY <1>5, <1>6 DEF Step, StepPreviouslyFailed, StepAllCompleted, StepCancelledBefore, StepNext,
     BeforeStart,
     Finalise, AfterFinalise, AfterSync
<1>7. CASE Prepare
  BY <1>5, <1>7 DEF Prepare, EmitWorkflowStarted, EmitWorkspacePrepared, EmitBranchCreated,
     WorkspacePrepare,
     EnsureNothing, EnsureContainer, CopyIn, BeforeStart
<1>8. CASE DispatchCancelled \/ DispatchRejected \/ Select \/ EmitReply
  BY <1>5, <1>8 DEF DispatchCancelled, DispatchRejected, Select, EmitReply, AfterSelect
<1>9. CASE Conclude
  BY <1>5, <1>9 DEF Conclude, EmitStepCompleted, EmitCompletionSignaled, EmitCause, EmitStepFailed,
     EmitOuterFailed, TearDown, Finalise, AfterFinalise, AfterSync
<1>10. CASE Finalising
  BY <1>5, <1>10 DEF Finalising, EmitMergeAttempted, EmitMergeConflict, EmitWorkflowCompleted,
     EmitWorkflowCancelled, SyncBack, DropBox, Merge, CancelBox, Finish, AfterFinalise, AfterSync
<1>11. CASE Crash \/ Exit \/ Launch
  BY <1>5, <1>11 DEF Crash, Exit, Launch
<1> QED
  BY <1>1, <1>2, <1>3, <1>4, <1>6, <1>7, <1>8, <1>9, <1>10, <1>11 DEF Next, EngineNext, Execute, Environment

\* For workflows of any length and any number of resumes: a process logs WorkflowStarted at most once and
\* never behind a completion, and whatever runs is the first step without a completion, behind its own
\* StepStarted.
THEOREM StepsStartInPlace == Spec => []StartsInPlace
<1>1. Init => StartInv /\ StartsFirst /\ Announced
  <2> SUFFICES ASSUME Init PROVE StartInv /\ StartsFirst /\ Announced
    OBVIOUS
  <2>1. log = << >> /\ pc = "idle" /\ launches = 1
    BY DEF Init
  <2>2. Starts(log) = {}
    BY <2>1 DEF Starts
  <2>3. Cardinality(Starts(log)) = 0
    BY <2>2, FS_EmptySet
  <2> QED
    BY <2>1, <2>2, <2>3 DEF StartInv, StartsFirst, Announced
<1>2. TypeOK /\ StartInv /\ StartsFirst /\ Announced /\ [Next]_vars => (StartInv /\ StartsFirst /\ Announced)'
  BY StartInvStep, StartsFirstStep, AnnouncedStep
<1>3. PlaceInv /\ StartInv /\ StartsFirst /\ Announced => StartsInPlace
  <2> SUFFICES ASSUME PlaceInv, StartInv, StartsFirst, Announced PROVE StartsInPlace
    OBVIOUS
  <2>1. StartedBeforeProgress
    BY DEF StartInv, StartsFirst, Starts, StartedBeforeProgress
  <2>2. RunsOnlyPending
    BY DEF PlaceInv, WorkInv, Working, Announced, RunsOnlyPending
  <2> QED
    BY <2>1, <2>2 DEF StartsInPlace
<1> QED
  BY <1>1, <1>2, <1>3, TypeCorrect, PlaceCorrect, PTL DEF Spec

-----------------------------------------------------------------------------
(* The files of the steps. *)

Workers == {"cmd", "agent", "scope"}
Decided(l) == HasFailure(l) \/ WorkflowDone(l) \/ CompletedSteps(l) = N

\* Where the engine holds the container: every step but a chat runs in it, the copy back gives it up, and
\* no step runs after the copy back.
BoxInv ==
    /\ pc \in {"emitStart", "dispatch"} /\ UseContainer => hasBox = TRUE \/ wf[cur] = "chat"
    /\ pc = "copyIn" => hasBox = FALSE
    /\ pc = "syncBack" => hasBox = TRUE
    /\ pc \in {"dropBox"} \cup Merging => hasBox = FALSE
    /\ pc = "finish" /\ verdict \in SuccessVerdicts => hasBox = FALSE
    /\ row = "completed" => hasBox = FALSE
    /\ pc \in Working \cup {"idle"} => sync = "none"
    /\ pc = "dropBox" => sync # "none"
    /\ sync # "none" => hasBox = FALSE

\* With a container the host's files change only once the workflow is decided, and never on the way to a
\* cancelled row.
HostInv ==
    UseContainer /\ hostWork # {} =>
        /\ Decided(log) /\ row # "cancelled" /\ pc \notin Cancelling
        /\ pc = "finish" => verdict \notin CancelVerdicts

\* In the first process: the work of the completed steps is on the host or in the container the engine still
\* holds; after a copy that succeeded it is on the host.
KeepInv ==
    launches = 1 /\ ~HasFailure(log) =>
        /\ sync = "none" => WorkOfCompleted \subseteq hostWork \cup boxWork /\ (hasBox = TRUE \/ boxWork = {})
        /\ sync = "synced" => WorkOfCompleted \subseteq hostWork
        /\ pc \in {"chatUser", "running", "chatReply", "emitDone"} /\ wf[cur] \in Workers =>
             cur \in hostWork \cup boxWork

\* The places finalising is entered at, by the verdict and by whether a container is held.
LEMMA FinalisePlace ==
    ASSUME hasBox \in BOOLEAN, NEW v \in Verdicts
    PROVE  /\ Finalise(v) \in {"syncBack", "finish", "mergeTry", "emitCompleted", "emitCancelled",
                               "returned", "emitOuter"}
           /\ Finalise(v) = "syncBack" => hasBox = TRUE
           /\ Finalise(v) \in {"mergeTry", "emitCompleted"} => hasBox = FALSE
           /\ Finalise(v) = "finish" => v \notin SuccessVerdicts \cup CancelVerdicts
           /\ Finalise(v) = "emitCancelled" => v \in CancelVerdicts
<1>1. CASE hasBox = TRUE
  BY <1>1 DEF Finalise, AfterFinalise, AfterSync, SuccessVerdicts, CancelVerdicts
<1>2. CASE hasBox = FALSE
  BY <1>2 DEF Finalise, AfterFinalise, AfterSync, SuccessVerdicts, CancelVerdicts
<1> QED
  BY <1>1, <1>2

\* Entering finalising keeps BoxInv.
LEMMA FinaliseBox ==
    ASSUME TypeOK, BoxInv, NEW v \in Verdicts, pc' = Finalise(v), row' = row, hasBox' = hasBox, sync' = sync,
           verdict' = v
    PROVE  BoxInv'
<1>1. hasBox \in BOOLEAN
  BY DEF TypeOK
<1>2. /\ pc' \in {"syncBack", "finish", "mergeTry", "emitCompleted", "emitCancelled", "returned", "emitOuter"}
      /\ pc' = "syncBack" => hasBox = TRUE
      /\ pc' \in {"mergeTry", "emitCompleted"} => hasBox = FALSE
      /\ pc' = "finish" => verdict' \notin SuccessVerdicts \cup CancelVerdicts
  BY <1>1, FinalisePlace
<1> QED
  BY <1>2 DEF BoxInv, Merging, Working

\* Every action keeps BoxInv.
LEMMA BoxStep ==
    ASSUME TypeOK, PlaceInv, BoxInv, [Next]_vars
    PROVE  BoxInv'
<1>1. verdict \in Verdicts /\ "ok" \in Verdicts /\ "failed" \in Verdicts
  BY DEF TypeOK, Verdicts
<1>2. CASE StepPreviouslyFailed
  BY <1>1, <1>2, FinaliseBox DEF StepPreviouslyFailed, handles, world
<1>3. CASE StepAllCompleted
  BY <1>1, <1>3, FinaliseBox DEF StepAllCompleted, handles, world
<1>4. CASE EmitCompletionSignaled
  BY <1>1, <1>4, FinaliseBox DEF EmitCompletionSignaled, handles, Emit
<1>5. CASE EmitOuterFailed
  BY <1>1, <1>5, FinaliseBox DEF EmitOuterFailed, handles, Emit
<1>6. CASE TearDown
  BY <1>1, <1>6, FinaliseBox DEF TearDown, handles, DestroyBox
<1>7. CASE EmitStepFailed
  <2>1. CASE pc' = Finalise(verdict)
    BY <1>1, <1>7, <2>1, FinaliseBox DEF EmitStepFailed, handles, Emit
  <2>2. CASE pc' = "tearDown"
    BY <1>7, <2>2 DEF EmitStepFailed, handles, Emit, BoxInv, Working, Merging
  <2> QED
    BY <1>7, <2>1, <2>2 DEF EmitStepFailed
<1>8. CASE StepCancelledBefore \/ StepNext
  BY <1>8 DEF StepCancelledBefore, StepNext, BoxInv, Working, Merging, handles, HasNext, BeforeStart, world,
     Stay
<1>9. CASE EmitWorkflowStarted \/ EmitWorkspacePrepared \/ EmitBranchCreated \/ WorkspacePrepare
  BY <1>9 DEF EmitWorkflowStarted, EmitWorkspacePrepared, EmitBranchCreated, WorkspacePrepare, BoxInv,
     Working, Merging, handles, Emit, BeforeStart, Stay
<1>10. CASE EnsureNothing
  BY <1>10 DEF EnsureNothing, BoxInv, Working, Merging, handles, world, Stay
<1>11. CASE EnsureContainer
  BY <1>11, WorkingFacts DEF EnsureContainer, BoxInv, Working, Merging, handles, world, Stay
<1>12. CASE CopyIn
  BY <1>12, WorkingFacts DEF CopyIn, BoxInv, Working, Merging, handles, world, Stay
<1>13. CASE EmitStepStarted \/ EmitUserTurn \/ EmitReply \/ EmitStepCompleted \/ EmitCause
  BY <1>13 DEF EmitStepStarted, EmitUserTurn, EmitReply, EmitStepCompleted, EmitCause, BoxInv, Working,
     Merging, handles, Emit, Stay
<1>14. CASE DispatchCancelled \/ DispatchRejected \/ Dispatch
  BY <1>14 DEF DispatchCancelled, DispatchRejected, Dispatch, BoxInv, Working, Merging, handles, world, Stay
<1>15. CASE Select
  BY <1>15 DEF Select, BoxInv, Working, Merging, handles, world, Stay, AfterSelect
<1>16. CASE SyncBack
  BY <1>16 DEF SyncBack, BoxInv, Working, Merging, handles, Stay
<1>17. CASE DropBox
  BY <1>17 DEF DropBox, BoxInv, Working, Merging, handles, Stay, DestroyBox, AfterSync
<1>18. CASE EmitMergeAttempted \/ Merge \/ EmitMergeConflict \/ EmitWorkflowCompleted
  BY <1>18 DEF EmitMergeAttempted, Merge, EmitMergeConflict, EmitWorkflowCompleted, BoxInv, Working,
     Merging, handles, Stay, Emit
<1>19. CASE EmitWorkflowCancelled \/ CancelBox
  BY <1>19 DEF EmitWorkflowCancelled, CancelBox, BoxInv, Working, Merging, handles, Stay, Emit, DestroyBox,
     PlaceInv, VerdictInv, Cancelling, CancelVerdicts, SuccessVerdicts
<1>20. CASE Finish
  BY <1>20 DEF Finish, BoxInv, Working, Merging, handles, Stay, Goal, AfterFinalise
<1>21. CASE Body
  BY <1>21 DEF Body, BoxInv, Working, Merging, handles, ScopedProgress, Emit, Stay
<1>22. CASE Cancel \/ Shutdown \/ Crash \/ Exit
  BY <1>22 DEF Cancel, Shutdown, Crash, Exit, BoxInv, Working, Merging, handles, world
<1>23. CASE Launch
  BY <1>23 DEF Launch, BoxInv, Working, Merging, handles, world
<1>24. CASE Stopped
  BY <1>24 DEF Stopped, BoxInv, Working, Merging, handles, vars, world
<1>25. CASE UNCHANGED vars
  BY <1>25 DEF vars, world, BoxInv, Working, Merging, handles
<1> QED
  BY <1>2, <1>3, <1>4, <1>5, <1>6, <1>7, <1>8, <1>9, <1>10, <1>11, <1>12, <1>13, <1>14, <1>15, <1>16, <1>17,
     <1>18, <1>19, <1>20, <1>21, <1>22, <1>23, <1>24, <1>25 DEF Next, EngineNext, Step, Prepare, Execute,
     Conclude, Finalising, Environment

\* The actions that touch the files, the container handle or the result of the copy.
LEMMA FilesStep ==
    ASSUME [Next]_vars
    PROVE  \/ EnsureContainer \/ CopyIn \/ Dispatch \/ TearDown \/ SyncBack \/ DropBox \/ CancelBox \/ Launch
           \/ UNCHANGED <<boxWork, hostWork, hasBox, sync, launches, wf>>
<1> USE DEF Stay, handles, world
<1>1. CASE Step
  BY <1>1 DEF Step, StepPreviouslyFailed, StepAllCompleted, StepCancelledBefore, StepNext
<1>2. CASE Prepare
  BY <1>2 DEF Prepare, EmitWorkflowStarted, EmitWorkspacePrepared, EmitBranchCreated, WorkspacePrepare,
     EnsureNothing, Emit
<1>3. CASE Execute
  BY <1>3 DEF Execute, EmitStepStarted, DispatchCancelled, DispatchRejected, EmitUserTurn, Select,
     EmitReply, Emit
<1>4. CASE Conclude
  BY <1>4 DEF Conclude, EmitStepCompleted, EmitCompletionSignaled, EmitCause, EmitStepFailed,
     EmitOuterFailed, Emit
<1>5. CASE Finalising
  BY <1>5 DEF Finalising, EmitMergeAttempted, Merge, EmitMergeConflict, EmitWorkflowCompleted,
     EmitWorkflowCancelled, Finish, Emit
<1>6. CASE Body
  BY <1>6 DEF Body, ScopedProgress, Emit
<1>7. CASE Environment \/ UNCHANGED vars
  BY <1>7 DEF Environment, Cancel, Shutdown, Crash, Exit, Stopped, vars
<1> QED
  BY <1>1, <1>2, <1>3, <1>4, <1>5, <1>6, <1>7 DEF Next, EngineNext

\* A decision on the log is never taken back.
LEMMA DecidedStays ==
    ASSUME TypeOK, PlaceInv, [Next]_vars, Decided(log)
    PROVE  Decided(log')
<1>1. CASE log' = log
  BY <1>1
<1>2. CASE \E e \in Events : Emit(e) /\ Allowed(e)
  <2>1. PICK e \in Events : Emit(e) /\ Allowed(e)
    BY <1>2
  <2>2. /\ CompletedSteps(log') = IF TopCompleted(e) THEN CompletedSteps(log) + 1 ELSE CompletedSteps(log)
        /\ \A name : Logged(log, name) => Logged(log', name)
    BY <2>1, EmitFacts
  <2>3. CASE HasFailure(log) \/ WorkflowDone(log)
    BY <2>2, <2>3 DEF Decided, HasFailure, WorkflowDone
  <2>4. CASE CompletedSteps(log) = N /\ ~TopCompleted(e)
    BY <2>2, <2>4 DEF Decided
  <2>5. CASE CompletedSteps(log) = N /\ TopCompleted(e)
    <3>1. pc \in Working
      BY <2>1, <2>5 DEF Allowed, TopCompleted
    <3> QED
      BY <2>5, <3>1, WorkingFacts, NAssumption
  <2> QED
    BY <2>3, <2>4, <2>5 DEF Decided
<1> QED
  BY <1>1, <1>2, LogStep

\* The way to a cancelled row begins in a step in progress, whose workflow is not decided.
LEMMA CancelPath ==
    ASSUME TypeOK, PlaceInv, [Next]_vars, Decided(log), row # "cancelled", pc \notin Cancelling,
           pc = "finish" => verdict \notin CancelVerdicts
    PROVE  /\ row' # "cancelled" /\ pc' \notin Cancelling
           /\ pc' = "finish" => verdict' \notin CancelVerdicts
<1>1. pc \notin Working
  BY WorkingFacts, NAssumption DEF Decided, HasFailure, WorkflowDone
<1>2. verdict \in Verdicts /\ "ok" \in Verdicts /\ "failed" \in Verdicts /\ hasBox \in BOOLEAN
  BY DEF TypeOK, Verdicts
<1>3. CASE Step
  <2>1. ~HasNext
    BY CompletedFinite, NAssumption DEF HasNext, Decided, TypeOK
  <2> QED
    BY <1>2, <1>3, <2>1, FinalisePlace DEF Step, StepPreviouslyFailed, StepAllCompleted,
       StepCancelledBefore,
       StepNext, world, Cancelling, CancelVerdicts
<1>4. CASE Prepare
  BY <1>1, <1>4 DEF Prepare, EmitWorkflowStarted, EmitWorkspacePrepared, EmitBranchCreated,
     WorkspacePrepare, EnsureNothing, EnsureContainer, CopyIn, Working
<1>5. CASE Execute
  BY <1>1, <1>5 DEF Execute, EmitStepStarted, DispatchCancelled, DispatchRejected, Dispatch,
       EmitUserTurn, Select, EmitReply, Working
<1>6. CASE EmitStepCompleted \/ EmitCompletionSignaled \/ EmitCause \/ EmitStepFailed
  BY <1>1, <1>6 DEF EmitStepCompleted, EmitCompletionSignaled, EmitCause, EmitStepFailed, Working
<1>7. CASE TearDown
  <2>1. verdict \in {"timeout", "idle"}
    BY <1>7 DEF TearDown, PlaceInv, VerdictInv
  <2> QED
    BY <1>2, <1>7, <2>1, FinalisePlace DEF TearDown, DestroyBox, Cancelling, CancelVerdicts
<1>8. CASE EmitOuterFailed
  BY <1>2, <1>8, FinalisePlace DEF EmitOuterFailed, Emit, Cancelling, CancelVerdicts
<1>9. CASE DropBox
  BY <1>9 DEF DropBox, DestroyBox, AfterSync, Cancelling, PlaceInv, VerdictInv
<1>10. CASE EmitWorkflowCompleted
  BY <1>10 DEF EmitWorkflowCompleted, Emit, Cancelling, Merging, PlaceInv, VerdictInv, SuccessVerdicts,
     CancelVerdicts
<1>11. CASE Finish
  BY <1>11 DEF Finish, Goal, AfterFinalise, Cancelling, SuccessVerdicts, CancelVerdicts
<1>12. CASE SyncBack \/ EmitMergeAttempted \/ Merge \/ EmitMergeConflict \/ EmitWorkflowCancelled \/ CancelBox
  BY <1>12 DEF SyncBack, EmitMergeAttempted, Merge, EmitMergeConflict, EmitWorkflowCancelled, CancelBox,
     Emit, Cancelling
<1>13. CASE Body
  BY <1>1, <1>13 DEF Body, ScopedProgress, Working
<1>14. CASE Environment \/ UNCHANGED vars
  BY <1>14 DEF Environment, Cancel, Shutdown, Crash, Exit, Launch, Stopped, vars, world, Cancelling
<1> QED
  BY <1>3, <1>4, <1>5, <1>6, <1>7, <1>8, <1>9, <1>10, <1>11, <1>12, <1>13, <1>14
  DEF Next, EngineNext, Conclude, Finalising

\* With a container, only the copy back reaches the host.
LEMMA HostStep ==
    ASSUME TypeOK, PlaceInv, BoxInv, HostInv, [Next]_vars
    PROVE  HostInv'
<1> SUFFICES ASSUME UseContainer, hostWork' # {}
             PROVE  /\ Decided(log') /\ row' # "cancelled" /\ pc' \notin Cancelling
                    /\ pc' = "finish" => verdict' \notin CancelVerdicts
  BY DEF HostInv
<1>1. CASE hostWork # {}
  BY <1>1, DecidedStays, CancelPath DEF HostInv
<1>2. CASE hostWork = {}
  <2>1. SyncBack
    <3>1. CASE Dispatch
      BY <1>2, <3>1 DEF Dispatch, BoxInv
    <3>2. CASE EnsureContainer \/ CopyIn \/ TearDown \/ DropBox \/ CancelBox \/ Launch
      BY <1>2, <3>2 DEF EnsureContainer, CopyIn, TearDown, DropBox, CancelBox, Launch, DestroyBox, world
    <3> QED
      BY <1>2, <3>1, <3>2, FilesStep
  <2>2. pc = "syncBack" /\ pc' = "dropBox" /\ log' = log /\ row' = row
    BY <2>1 DEF SyncBack
  <2> QED
    BY <2>2 DEF PlaceInv, HandleInv, VerdictInv, Succeeded, Decided, Cancelling
<1> QED
  BY <1>1, <1>2

\* An append adds at most its own step to the completed work.
LEMMA WorkAppend ==
    ASSUME TypeOK, NEW e \in Events, log' = Append(log, e), wf' = wf
    PROVE  /\ ~TopCompleted(e) => WorkOfCompleted' = WorkOfCompleted
           /\ WorkOfCompleted' \subseteq
                WorkOfCompleted \cup (IF wf[e.step] \in Workers THEN {e.step} ELSE {})
<1>1. /\ log \in Seq(Events) /\ DOMAIN log' = 1..(Len(log) + 1) /\ DOMAIN log = 1..Len(log) /\ Len(log) \in Nat
      /\ \A i \in 1..Len(log) : log'[i] = log[i]
      /\ log'[Len(log) + 1] = e
  BY DEF TypeOK
<1>2. \A x \in WorkOfCompleted' : x \in WorkOfCompleted \/ (x = e.step /\ TopCompleted(e) /\ wf[e.step] \in Workers)
  <2> SUFFICES ASSUME NEW x \in WorkOfCompleted'
               PROVE  x \in WorkOfCompleted \/ (x = e.step /\ TopCompleted(e) /\ wf[e.step] \in Workers)
    OBVIOUS
  <2>1. PICK k \in DOMAIN log' : x = log'[k].step /\ TopCompleted(log'[k]) /\ wf[log'[k].step] \in Workers
    BY DEF WorkOfCompleted, Workers, TopCompleted
  <2>2. CASE k = Len(log) + 1
    BY <1>1, <2>1, <2>2
  <2>3. CASE k \in 1..Len(log)
    BY <1>1, <2>1, <2>3 DEF WorkOfCompleted, Workers
  <2> QED
    BY <1>1, <2>2, <2>3
<1>3. \A x \in WorkOfCompleted : x \in WorkOfCompleted'
  <2> SUFFICES ASSUME NEW x \in WorkOfCompleted PROVE x \in WorkOfCompleted'
    OBVIOUS
  <2>1. PICK k \in DOMAIN log : x = log[k].step /\ TopCompleted(log[k]) /\ wf[log[k].step] \in Workers
    BY DEF WorkOfCompleted, Workers
  <2>2. k \in DOMAIN log' /\ log'[k] = log[k]
    BY <1>1
  <2>3. x = log'[k].step /\ TopCompleted(log'[k]) /\ wf'[log'[k].step] \in Workers
    BY <2>1, <2>2
  <2> QED
    BY <2>2, <2>3 DEF WorkOfCompleted, Workers, TopCompleted
<1> QED
  BY <1>2, <1>3

Executing == {"chatUser", "running", "chatReply", "emitDone"}

\* A step executes once it was dispatched.
LEMMA ExecutingStep ==
    ASSUME [Next]_vars, pc' \in Executing, ~Dispatch
    PROVE  pc \in Executing /\ cur' = cur
<1> USE DEF Executing
<1>1. ~Step
  BY DEF Step, StepPreviouslyFailed, StepAllCompleted, StepCancelledBefore, StepNext, BeforeStart, Finalise,
     AfterFinalise, AfterSync
<1>2. ~Prepare
  BY DEF Prepare, EmitWorkflowStarted, EmitWorkspacePrepared, EmitBranchCreated, WorkspacePrepare,
     EnsureNothing, EnsureContainer, CopyIn, BeforeStart
<1>3. CASE Execute
  BY <1>3 DEF Execute, EmitStepStarted, EmitUserTurn, EmitReply, DispatchCancelled, DispatchRejected,
     Select, AfterSelect
<1>4. ~Conclude
  BY DEF Conclude, EmitStepCompleted, EmitCompletionSignaled, EmitCause, EmitStepFailed, EmitOuterFailed,
     TearDown, Finalise, AfterFinalise, AfterSync
<1>5. ~Finalising
  BY DEF Finalising, EmitMergeAttempted, EmitMergeConflict, EmitWorkflowCompleted, EmitWorkflowCancelled,
     SyncBack, DropBox, Merge, CancelBox, Finish, AfterFinalise, AfterSync
<1>6. CASE Body
  BY <1>6 DEF Body, ScopedProgress
<1>7. CASE Environment \/ UNCHANGED vars
  BY <1>7 DEF Environment, Cancel, Shutdown, Crash, Exit, Launch, Stopped, vars
<1> QED
  BY <1>1, <1>2, <1>3, <1>4, <1>5, <1>6, <1>7 DEF Next, EngineNext

\* The completion of a step is logged where the step was executed.
LEMMA CompletedWhere ==
    ASSUME TypeOK, [Next]_vars, log' # log
    PROVE  \E e \in Events : Emit(e) /\ (TopCompleted(e) => pc = "emitDone" /\ e.step = cur)
<1>1. PICK e \in Events : Emit(e) /\ Allowed(e)
  BY LogStep
<1>2. TopCompleted(e) => e.step = cur
  BY <1>1 DEF Allowed
<1>3. TopCompleted(e) => CompletedSteps(log') # CompletedSteps(log)
  <2>1. log \in Seq(Events) /\ CompletedSteps(log) \in Nat
    BY CompletedFinite DEF TypeOK
  <2> QED
    BY <1>1, <2>1, EmitFacts
<1>4. CompletedSteps(log') # CompletedSteps(log) => pc = "emitDone"
  <2>0. cur \in 0..N /\ 0 \in 0..N
    BY NAssumption DEF TypeOK
  <2>1. ASSUME NEW n \in EventNames, NEW s \in 0..N, Emit(Event(n, s)), n # "step_completed"
        PROVE  CompletedSteps(log') = CompletedSteps(log)
    BY <2>1, EmitEvent
  <2>2. CASE Prepare
    BY <2>0, <2>1, <2>2 DEF Prepare, EmitWorkflowStarted, EmitWorkspacePrepared, EmitBranchCreated,
       EventNames,
       WorkspacePrepare, EnsureNothing, EnsureContainer, CopyIn, world
  <2>3. CASE Execute
    BY <2>0, <2>1, <2>3 DEF Execute, EmitStepStarted, EmitUserTurn, EmitReply, EventNames,
       DispatchCancelled,
       DispatchRejected, Dispatch, Select, world
  <2>4. CASE Conclude
    <3>1. CauseOf(verdict) \in EventNames /\ CauseOf(verdict) # "step_completed"
      BY DEF CauseOf, EventNames
    <3> QED
      BY <2>0, <2>1, <2>4, <3>1 DEF Conclude, EmitStepCompleted, EmitCompletionSignaled, EmitCause,
         EmitStepFailed, EmitOuterFailed, TearDown, DestroyBox, EventNames
  <2>5. CASE Finalising
    BY <2>0, <2>1, <2>5 DEF Finalising, EmitMergeAttempted, EmitMergeConflict, EmitWorkflowCompleted,
       EmitWorkflowCancelled, SyncBack, DropBox, Merge, CancelBox, Finish, DestroyBox, EventNames
  <2>6. CASE Body
    <3>1. PICK n \in {"step_started", "step_completed"} : ScopedProgress(n)
      BY <2>6 DEF Body
    <3>2. ScopedEvent(n, cur) \in Events /\ ~TopCompleted(ScopedEvent(n, cur))
      BY <2>0, NAssumption, EventTypes DEF EventNames, ScopedEvent, TopCompleted
    <3> QED
      BY <3>1, <3>2, EmitFacts DEF ScopedProgress
  <2>7. CASE Step \/ Environment \/ UNCHANGED vars
    BY <2>7 DEF Step, StepPreviouslyFailed, StepAllCompleted, StepCancelledBefore, StepNext,
       Environment, Cancel, Shutdown, Crash, Exit, Launch, Stopped, vars, world
  <2> QED
    BY <2>2, <2>3, <2>4, <2>5, <2>6, <2>7 DEF Next, EngineNext
<1> QED
  BY <1>1, <1>2, <1>3, <1>4

\* The first process loses no completed work.
LEMMA KeepStep ==
    ASSUME TypeOK, PlaceInv, BoxInv, KeepInv, [Next]_vars
    PROVE  KeepInv'
<1> SUFFICES ASSUME launches' = 1, ~HasFailure(log')
             PROVE  /\ sync' = "none" => /\ WorkOfCompleted' \subseteq hostWork' \cup boxWork'
                                         /\ hasBox' = TRUE \/ boxWork' = {}
                    /\ sync' = "synced" => WorkOfCompleted' \subseteq hostWork'
                    /\ pc' \in Executing /\ wf'[cur'] \in Workers => cur' \in hostWork' \cup boxWork'
  BY DEF KeepInv, Executing
<1>1. launches \in Nat \ {0} /\ ~Launch /\ launches = 1
  <2>1. launches \in Nat /\ launches # 0
    BY BoundAssumption DEF TypeOK
  <2>2. ~Launch
    BY <2>1 DEF Launch
  <2>3. launches' = launches \/ launches' = launches + 1
    BY StartedStep
  <2> QED
    BY <2>1, <2>2, <2>3
<1>2. ~HasFailure(log)
  <2>1. CASE log' = log
    BY <2>1
  <2>2. CASE \E e \in Events : Emit(e) /\ Allowed(e)
    BY <2>2, EmitFacts DEF HasFailure
  <2> QED
    BY <2>1, <2>2, LogStep
<1>3. /\ sync = "none" => WorkOfCompleted \subseteq hostWork \cup boxWork /\ (hasBox = TRUE \/ boxWork = {})
      /\ sync = "synced" => WorkOfCompleted \subseteq hostWork
      /\ pc \in Executing /\ wf[cur] \in Workers => cur \in hostWork \cup boxWork
  BY <1>1, <1>2 DEF KeepInv, Executing
<1>4. ASSUME log' = log, wf' = wf PROVE WorkOfCompleted' = WorkOfCompleted
  BY <1>4 DEF WorkOfCompleted, TopCompleted
<1>5. CASE UNCHANGED <<boxWork, hostWork, hasBox, sync, launches, wf>> /\ ~Dispatch
  <2>1. pc' \in Executing /\ wf'[cur'] \in Workers => cur' \in hostWork' \cup boxWork'
    BY <1>3, <1>5, ExecutingStep
  <2>2. CASE log' = log
    BY <1>3, <1>4, <1>5, <2>1, <2>2
  <2>3. CASE log' # log
    <3>1. PICK e \in Events : Emit(e) /\ (TopCompleted(e) => pc = "emitDone" /\ e.step = cur)
      BY <2>3, CompletedWhere
    <3>2. log' = Append(log, e)
      BY <3>1 DEF Emit
    <3>3. CASE ~TopCompleted(e)
      <4>1. WorkOfCompleted' = WorkOfCompleted
        BY <1>5, <3>2, <3>3, WorkAppend
      <4> QED
        BY <1>3, <1>5, <2>1, <4>1
    <3>4. CASE TopCompleted(e)
      <4>1. pc = "emitDone" /\ e.step = cur /\ sync = "none"
        BY <3>1, <3>4 DEF BoxInv, Working
      <4>2. WorkOfCompleted' \subseteq WorkOfCompleted \cup (IF wf[cur] \in Workers THEN {cur} ELSE {})
        BY <1>5, <3>2, <4>1, WorkAppend
      <4>3. wf[cur] \in Workers => cur \in hostWork \cup boxWork
        BY <1>3, <4>1 DEF Executing
      <4> QED
        BY <1>3, <1>5, <2>1, <4>1, <4>2, <4>3
    <3> QED
      BY <3>3, <3>4
  <2> QED
    BY <2>2, <2>3
<1>6. CASE EnsureContainer \/ CopyIn
  <2>1. /\ UNCHANGED <<log, wf, hostWork, sync>> /\ pc' \notin Executing
        /\ hasBox' \in {TRUE, FALSE} /\ (hasBox' = TRUE \/ hasBox = FALSE \/ hasBox' = hasBox)
    BY <1>6, TypeStep DEF EnsureContainer, CopyIn, Executing, Stay, TypeOK
  <2>2. hasBox = TRUE => hasBox' = TRUE
    BY <1>6 DEF EnsureContainer, CopyIn
  <2>3. boxWork' = boxWork \/ (sync = "none" => boxWork = {} /\ boxWork' = {})
    <3>1. CASE EnsureContainer
      BY <3>1 DEF EnsureContainer
    <3>2. CASE CopyIn
      BY <1>3, <3>2 DEF CopyIn, BoxInv
    <3> QED
      BY <1>6, <3>1, <3>2
  <2> QED
    BY <1>3, <1>4, <2>1, <2>2, <2>3
<1>7. CASE Dispatch
  <2>1. UNCHANGED <<log, wf, hasBox, sync, cur>> /\ hasBox \in BOOLEAN
    BY <1>7 DEF Dispatch, Stay, handles, TypeOK
  <2>2. /\ hostWork \subseteq hostWork' /\ boxWork \subseteq boxWork'
        /\ wf[cur] \in Workers => cur \in hostWork' \cup boxWork'
        /\ hasBox = FALSE => boxWork' = boxWork
    BY <1>7, <2>1 DEF Dispatch, Workers
  <2> QED
    BY <1>3, <1>4, <2>1, <2>2
<1>8. CASE TearDown \/ CancelBox
  BY <1>2, <1>8 DEF TearDown, CancelBox, PlaceInv, VerdictInv, Cancelling
<1>9. CASE SyncBack
  <2>1. UNCHANGED <<log, wf>> /\ pc' \notin Executing /\ sync' \in {"synced", "failed"}
    BY <1>9 DEF SyncBack, Executing, Stay
  <2>2. sync = "none"
    BY <1>9 DEF SyncBack, BoxInv, TypeOK
  <2>3. sync' = "synced" => hostWork' = hostWork \cup boxWork
    BY <1>9 DEF SyncBack
  <2> QED
    BY <1>3, <1>4, <2>1, <2>2, <2>3
<1>10. CASE DropBox
  <2>1. UNCHANGED <<log, wf, hostWork, sync>> /\ pc' \notin Executing
    BY <1>10 DEF DropBox, DestroyBox, AfterSync, Executing, Stay, handles
  <2>2. sync # "none"
    BY <1>10 DEF DropBox, BoxInv
  <2> QED
    BY <1>3, <1>4, <2>1, <2>2
<1> QED
  BY <1>1, <1>5, <1>6, <1>7, <1>8, <1>9, <1>10, FilesStep

\* For workflows of any length: a run that no crash interrupted and that completed has the work of all its
\* completed steps on the host unless it reports a failed copy, and, across any crashes, nothing a cancelled
\* session did in its container reaches the host.
THEOREM HostGetsTheWork == Spec => []HostGetsWork
<1>1. Init => BoxInv /\ HostInv /\ KeepInv
  <2> SUFFICES ASSUME Init PROVE BoxInv /\ HostInv /\ KeepInv
    OBVIOUS
  <2>1. BoxInv /\ HostInv
    BY DEF Init, BoxInv, HostInv, Merging, Working
  <2>2. WorkOfCompleted = {}
    BY DEF Init, WorkOfCompleted
  <2>3. KeepInv
    BY <2>2 DEF Init, KeepInv
  <2> QED
    BY <2>1, <2>3
<1>2. TypeOK /\ PlaceInv /\ BoxInv /\ HostInv /\ KeepInv /\ [Next]_vars => (BoxInv /\ HostInv /\ KeepInv)'
  BY BoxStep, HostStep, KeepStep
<1>3. TypeOK /\ PlaceInv /\ BoxInv /\ HostInv /\ KeepInv => HostGetsWork
  <2> SUFFICES ASSUME TypeOK, PlaceInv, BoxInv, HostInv, KeepInv PROVE HostGetsWork
    OBVIOUS
  <2>1. UninterruptedRunKeepsWork
    <3> SUFFICES ASSUME launches = 1, row = "completed", sync # "failed" PROVE WorkOfCompleted \subseteq hostWork
      BY DEF UninterruptedRunKeepsWork
    <3>1. ~HasFailure(log) /\ hasBox = FALSE /\ sync \in {"none", "synced"}
      BY DEF PlaceInv, RowExplained, BoxInv, TypeOK
    <3> QED
      BY <3>1 DEF KeepInv
  <2>2. CancelCopiesNothing
    BY DEF HostInv, CancelCopiesNothing
  <2> QED
    BY <2>1, <2>2 DEF HostGetsWork
<1> QED
  BY <1>1, <1>2, <1>3, TypeCorrect, PlaceCorrect, PTL DEF Spec

-----------------------------------------------------------------------------
(* Refinement. *)

\* Every step of the engine is a step of WorkflowRun or invisible to it.
LEMMA RunStep == TypeOK /\ PlaceInv /\ [Next]_vars => [Run!RunNext]_(Run!runVars)
<1> SUFFICES ASSUME TypeOK, PlaceInv, [Next]_vars PROVE [Run!RunNext]_(Run!runVars)
  OBVIOUS
<1>1. CASE log' = log /\ row' = row
  BY <1>1 DEF Run!runVars, Decision
<1>2. CASE log' = log /\ Finish
  <2>1. /\ pc = "finish" /\ row = "running" /\ row' = Goal(verdict)
    BY <1>2 DEF Finish, PlaceInv, HandleInv
  <2>2. IF verdict \in SuccessVerdicts
        THEN row' = "completed" /\ ~HasFailure(log) /\ WorkflowDone(log)
        ELSE row' \in {"failed", "cancelled"} /\ HasFailure(log)
    BY <2>1 DEF PlaceInv, VerdictInv, Succeeded, Goal, WorkflowDone
  <2> QED
    BY <1>2, <2>1, <2>2 DEF Run!RunNext, Run!End, Decision
<1>3. CASE \E e \in Events : Emit(e) /\ Allowed(e)
  <2>1. PICK e \in Events : Emit(e) /\ Allowed(e)
    BY <1>3
  <2>2. /\ CompletedSteps(log) \in Nat /\ row' = row
        /\ CompletedSteps(log') =
             IF TopCompleted(e) THEN CompletedSteps(log) + 1 ELSE CompletedSteps(log)
        /\ HasFailure(log') <=> HasFailure(log) \/ e.ev = "step_failed"
        /\ WorkflowDone(log') <=>
             WorkflowDone(log) \/ e.ev \in {"workflow_completed", "completion_signaled"}
    BY <2>1, EmitFacts
  <2>3. pc \in Working =>
          /\ row = "running" /\ CompletedSteps(log) < N
          /\ ~HasFailure(log) /\ ~WorkflowDone(log)
    BY WorkingFacts DEF HasFailure, WorkflowDone
  <2>4. CASE TopCompleted(e)
    <3>1. pc \in Working /\ e.ev = "step_completed"
      BY <2>1, <2>4 DEF Allowed, TopCompleted
    <3> QED
      BY <3>1, <2>2, <2>3, <2>4 DEF Run!RunNext, Run!CompleteStep, Decision
  <2>5. CASE ~TopCompleted(e) /\ e.ev \in {"step_failed", "completion_signaled"} /\ pc \in Working
    BY <2>2, <2>3, <2>5 DEF Run!RunNext, Run!Decide, Decision
  <2>6. CASE e.ev = "step_failed" /\ pc = "emitOuter"
    <3>1. HasFailure(log) /\ ~TopCompleted(e)
      BY <2>6 DEF PlaceInv, VerdictInv, TopCompleted
    <3> QED
      BY <3>1, <2>2 DEF Run!runVars, Decision
  <2>7. CASE e.ev = "workflow_completed"
    <3>1. pc = "emitCompleted" /\ ~TopCompleted(e)
      BY <2>1, <2>7 DEF Allowed, TopCompleted
    <3>2. ~HasFailure(log) /\ row = "running"
      BY <3>1 DEF PlaceInv, VerdictInv, HandleInv, Merging, Succeeded
    <3>3. CASE WorkflowDone(log)
      BY <3>1, <3>2, <3>3, <2>2, <2>7 DEF Run!runVars, Decision
    <3>4. CASE ~WorkflowDone(log)
      BY <3>1, <3>2, <3>4, <2>2, <2>7 DEF Run!RunNext, Run!Decide, Decision
    <3> QED
      BY <3>3, <3>4
  <2>8. CASE /\ ~TopCompleted(e)
             /\ e.ev \notin {"step_failed", "completion_signaled", "workflow_completed"}
    BY <2>2, <2>8 DEF Run!runVars, Decision
  <2>9. ~TopCompleted(e) /\ e.ev \in {"step_failed", "completion_signaled"}
          => pc \in Working \cup {"emitOuter"} /\ (pc = "emitOuter" => e.ev = "step_failed")
    BY <2>1 DEF Allowed, Working
  <2> QED
    BY <2>4, <2>5, <2>6, <2>7, <2>8, <2>9
<1> QED
  BY <1>1, <1>2, <1>3, LogStep

\* The engine, with its crashes, resumes, containers and worktrees, implements
\* the abstract run: steps complete one by one, the log decides once, and the
\* row follows the decision.
THEOREM EngineImplementsRun == Spec => ImplementsRun
<1>1. Init => Run!RunInit
  <2> SUFFICES ASSUME Init PROVE Run!RunInit
    OBVIOUS
  <2>1. log = << >> /\ row = "running"
    BY DEF Init
  <2>2. {i \in DOMAIN log : TopCompleted(log[i])} = {} /\ \A name : ~Logged(log, name)
    BY <2>1 DEF Logged
  <2>3. CompletedSteps(log) = 0
    BY <2>2, FS_EmptySet DEF CompletedSteps
  <2> QED
    BY <2>1, <2>2, <2>3 DEF Run!RunInit, Decision, HasFailure, WorkflowDone
<1> QED
  BY <1>1, TypeCorrect, PlaceCorrect, RunStep, PTL DEF Spec, ImplementsRun, Run!RunSpec
=============================================================================

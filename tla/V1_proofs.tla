------------------------------ MODULE V1_proofs -----------------------------
(***************************************************************************)
(* Proofs about the v1 engine and its parts: the run itself, the tasks of  *)
(* parallel and map steps, the serial scopes, the API key proxy and the    *)
(* template rendering, each for every value of its constants.              *)
(***************************************************************************)
EXTENDS V1Engine, V1Fan, V1Body, V1Proxy, V1Template,
        FiniteSetTheorems, SequenceTheorems, NaturalsInduction, WellFoundedInduction, TLAPS

\* A non-empty set of numbers has a least one.
LEMMA LeastNumber ==
    ASSUME NEW S, S \subseteq Nat, S # {}
    PROVE  \E k \in S : \A j \in S : k <= j
<1>1. PICK k \in S : \A j \in S : ~(<<j, k>> \in OpToRel(<, Nat))
  BY NatLessThanWellFounded, WFMin
<1>2. \A j \in S : ~(j < k)
  BY <1>1 DEF OpToRel
<1> QED
  BY <1>2

\* A sequence with one more element.
LEMMA Appended ==
    ASSUME NEW S, NEW s \in Seq(S), NEW x \in S, NEW t, t = Append(s, x)
    PROVE  /\ Len(s) \in Nat /\ DOMAIN s = 1..Len(s)
           /\ t \in Seq(S) /\ Len(t) = Len(s) + 1 /\ DOMAIN t = 1..Len(s) + 1 /\ t[Len(s) + 1] = x
           /\ \A k \in 1..Len(s) : t[k] = s[k]
           /\ \A k \in DOMAIN t : t[k] = x \/ (k \in DOMAIN s /\ t[k] = s[k])
OBVIOUS

-----------------------------------------------------------------------------
(* V1Engine *)

\* Before the loop; from the first step on; and from the first error or the end of the loop on.
Before == {"setup", "proxy", "create", "populate", "begin"}
Stepping == {"exec", "completed", "failed", "save"}
Late == {"drain", "down", "closing", "session"}
Ended == {"off", "returned", "dead"}

Outputs == [DOMAIN flow -> Foreign..launches]
File == [by : 1..launches, whole : BOOLEAN, steps : Outputs]
Event == [ev : {"workflow_started", "step_started", "step_completed", "step_failed", "workflow_completed"}, step : Nat]
Report == [step : Nat, status : {"success", "failed"}]

\* The types, and where the loop is when run() is at each place.
PlaceTypes ==
    /\ flow \in Flows /\ boxed \in BOOLEAN /\ launches \in 0..MaxLaunches /\ resume \in 0..Len(flow) + 1
    /\ vpc \in Before \cup Stepping \cup Late \cup Ended \cup {"loop"} /\ pos \in 0..Len(flow) + 1
    /\ vpc # "off" => launches # 0
    /\ vpc \in Before => pos = 1
    /\ vpc \in Stepping => pos \in DOMAIN flow
    /\ vpc = "loop" => pos # 0
    /\ vpc \notin Ended \cup {"setup"} => resume = 0 \/ resume \in DOMAIN flow

ValueTypes ==
    /\ loaded \in Outputs /\ vctx \in Outputs /\ current \in Outputs
    /\ tasks \in [DOMAIN flow -> {"none", "running", "ok", "failed"}] /\ fault \in BOOLEAN
    /\ vrow \in {"none", "running", "completed", "failed"} /\ box \in {"none", "up", "leaked"} /\ proxy \in {"off", "on"}

\* The state files are in the order of their executions, and an output is in the file of the execution that made it.
FilesInv ==
    /\ files \in Seq(File)
    /\ \A j, k \in DOMAIN files : j < k => files[j].by < files[k].by
    /\ \A k \in DOMAIN files : \A i \in DOMAIN flow : files[k].steps[i] \in {Absent, files[k].by}
    /\ \A i \in DOMAIN flow : current[i] \in {Absent, launches}
    /\ vpc \in {"completed", "save"} => vctx[pos] = launches

\* A file of another workflow has nothing of this one's.
ForeignInv == foreign # << >> => foreign[1].steps \in [DOMAIN flow -> {Absent, Foreign}]

\* What a resume reads from a file: the newest own one, or nothing of this workflow's.
ReadOf(kept) ==
    \/ files # << >> /\ kept = Last(files).steps
    \/ kept \in [DOMAIN flow -> {Absent, Foreign}]

\* The steps before the resume point have what the file holds of them, and nothing runs before it.
SkipInv ==
    /\ vpc \in Stepping \cup Late => ~Skipped
    /\ Skipped => ReadOf(loaded) /\ \A i \in 1..pos - 1 : vctx[i] = loaded[i]

\* Tasks are at work only in the loop and the drain behind it.
TasksInv ==
    /\ vpc \in Before \cup Ended \cup (Late \ {"drain"}) => Pending = {}
    /\ AwaitedBeforeUse

\* A failed step, in the log or on the dashboard, is behind a run that goes on to fail.
FaultInv ==
    /\ (\E k \in DOMAIN vlog : vlog[k].ev = "step_failed") => fault = TRUE /\ vpc \in Late \cup Ended
    /\ (\E k \in DOMAIN dash.steps : dash.steps[k].status = "failed") => fault = TRUE /\ vpc \in Late \cup Ended
    /\ dash.sent = "failed" => fault = TRUE /\ vpc \in {"session"} \cup Ended
    /\ vrow = "completed" => vpc = "returned" /\ fault = FALSE

\* The dashboard is told the verdict of its own reports, at the end and before the row is written.
SentInv ==
    /\ dash.sent # "none" => vpc \in {"session"} \cup Ended /\ dash.sent = Status(dash)
    /\ vpc = "session" => dash.sent # "none"
    /\ vrow = "completed" => dash.sent = "success"

BusInv ==
    /\ vlog \in Seq(Event) /\ dash \in [steps : Seq(Report), pending : SUBSET Nat, sent : {"none", "success", "failed"}]
    /\ BusFollowsLog

V1Inv ==
    /\ PlaceTypes /\ ValueTypes /\ FilesInv /\ ForeignInv /\ SkipInv /\ TasksInv /\ FaultInv /\ SentInv /\ BusInv
    /\ ContainerReleased

\* The workflow is a sequence of steps.
LEMMA FlowType ==
    ASSUME flow \in Flows
    PROVE  /\ flow \in Seq(FlowStep) /\ Len(flow) \in Nat /\ DOMAIN flow = 1..Len(flow) /\ MaxLaunches \in Nat
           /\ \A i \in DOMAIN flow : flow[i] \in FlowStep
<1>1. flow \in Seq(FlowStep) /\ MaxLaunches \in Nat
  BY V1Assumption
<1> QED
  BY <1>1

\* The newest state file is one.
LEMMA NewestFile ==
    ASSUME files \in Seq(File), files # << >>
    PROVE  Last(files) \in File /\ Len(files) \in DOMAIN files /\ Last(files) = files[Len(files)]
BY DEF Last

\* Every action leaves run() at a place it has.
LEMMA PlaceStep == V1Inv /\ [V1Next]_v1Vars => PlaceTypes'
<1> SUFFICES ASSUME V1Inv, [V1Next]_v1Vars PROVE PlaceTypes'
  OBVIOUS
<1>1. Len(flow) \in Nat /\ DOMAIN flow = 1..Len(flow) /\ MaxLaunches \in Nat
  BY FlowType DEF V1Inv, PlaceTypes
<1>21. CASE V1Launch
  BY <1>1, <1>21 DEF V1Launch, Goto, NoTracking, NoOutputs, v1Run, v1State, v1Session, v1Sandbox, V1Inv,
     PlaceTypes, Before, Stepping, Late, Ended
<1>22. CASE ResumeRefused
  BY <1>1, <1>22 DEF ResumeRefused, Return, Goto, Dropped, v1Run, v1State, v1Session, v1Sandbox, V1Inv,
     PlaceTypes, Before, Stepping, Late, Ended
<1>23. CASE ResumeSetup
  BY <1>1, <1>23 DEF ResumeSetup, Goto, Resumable, FindLatest, v1Run, v1State, v1Session, v1Sandbox, V1Inv,
     PlaceTypes, Before, Stepping, Late, Ended
<1>24. CASE StartProxy
  BY <1>1, <1>24 DEF StartProxy, Goto, v1Run, v1State, v1Session, v1Sandbox, V1Inv, PlaceTypes, Before,
     Stepping, Late, Ended
<1>25. CASE CreateContainer
  BY <1>1, <1>25 DEF CreateContainer, Goto, v1Run, v1State, v1Session, v1Sandbox, V1Inv, PlaceTypes, Before,
     Stepping, Late, Ended
<1>26. CASE PopulateWorkspace
  BY <1>1, <1>26 DEF PopulateWorkspace, Goto, v1Run, v1State, v1Session, v1Sandbox, V1Inv, PlaceTypes,
     Before, Stepping, Late, Ended
<1>27. CASE SandboxUpFails
  BY <1>1, <1>27 DEF SandboxUpFails, Return, Goto, Dropped, v1Run, v1State, v1Session, v1Sandbox, V1Inv,
     PlaceTypes, Before, Stepping, Late, Ended
<1>28. CASE WorkflowStarted
  BY <1>1, <1>28 DEF WorkflowStarted, Return, Goto, Dropped, Emitted, EmitLost, v1Run, v1State, v1Session,
     v1Sandbox, V1Inv, PlaceTypes, Before, Stepping, Late, Ended
<1>29. CASE SkipStep
  BY <1>1, <1>29 DEF SkipStep, AtStep, LoopFrame, v1Run, v1State, v1Session, v1Sandbox, V1Inv, PlaceTypes,
     Before, Stepping, Late, Ended
<1>30. CASE SpawnAsyncStep
  BY <1>1, <1>30 DEF SpawnAsyncStep, AtStep, LoopFrame, v1Run, v1State, v1Session, v1Sandbox, V1Inv,
     PlaceTypes, Before, Stepping, Late, Ended
<1>31. CASE AwaitDep
  BY <1>1, <1>31 DEF AwaitDep, AtStep, LoopFrame, Goto, v1Run, v1State, v1Session, v1Sandbox, V1Inv,
     PlaceTypes, Before, Stepping, Late, Ended
<1>32. CASE StepStarted
  BY <1>1, <1>32 DEF StepStarted, AtStep, LoopFrame, Goto, Emitted, EmitLost, v1Run, v1State, v1Session,
     v1Sandbox, V1Inv, PlaceTypes, Before, Stepping, Late, Ended
<1>33. CASE Execute
  BY <1>1, <1>33 DEF Execute, LoopFrame, Goto, v1Run, v1State, v1Session, v1Sandbox, V1Inv, PlaceTypes,
     Before, Stepping, Late, Ended
<1>34. CASE StepCompleted
  BY <1>1, <1>34 DEF StepCompleted, LoopFrame, Goto, Emitted, EmitLost, v1Run, v1State, v1Session,
     v1Sandbox, V1Inv, PlaceTypes, Before, Stepping, Late, Ended
<1>35. CASE StepFailed
  BY <1>1, <1>35 DEF StepFailed, LoopFrame, Goto, Emitted, EmitLost, AfterFailure, v1Run, v1State,
     v1Session, v1Sandbox, V1Inv, PlaceTypes, Before, Stepping, Late, Ended
<1>36. CASE SaveState
  BY <1>1, <1>36 DEF SaveState, Goto, v1Run, v1State, v1Session, v1Sandbox, V1Inv, PlaceTypes, Before,
     Stepping, Late, Ended
<1>37. CASE LoopEnds
  BY <1>1, <1>37 DEF LoopEnds, LoopFrame, Goto, v1Run, v1State, v1Session, v1Sandbox, V1Inv, PlaceTypes,
     Before, Stepping, Late, Ended
<1>38. CASE DrainTask
  BY <1>1, <1>38 DEF DrainTask, LoopFrame, v1Run, v1State, v1Session, v1Sandbox, V1Inv, PlaceTypes, Before,
     Stepping, Late, Ended
<1>39. CASE Drained
  BY <1>1, <1>39 DEF Drained, LoopFrame, Goto, v1Run, v1State, v1Session, v1Sandbox, V1Inv, PlaceTypes,
     Before, Stepping, Late, Ended
<1>40. CASE CopyBackFails
  BY <1>1, <1>40 DEF CopyBackFails, Goto, Dropped, v1Run, v1State, v1Session, v1Sandbox, V1Inv, PlaceTypes,
     Before, Stepping, Late, Ended
<1>41. CASE Destroy
  BY <1>1, <1>41 DEF Destroy, Goto, v1Run, v1State, v1Session, v1Sandbox, V1Inv, PlaceTypes, Before,
     Stepping, Late, Ended
<1>42. CASE NoSandboxDown
  BY <1>1, <1>42 DEF NoSandboxDown, Goto, v1Run, v1State, v1Session, v1Sandbox, V1Inv, PlaceTypes, Before,
     Stepping, Late, Ended
<1>43. CASE WorkflowCompleted
  BY <1>1, <1>43 DEF WorkflowCompleted, Return, Goto, Dropped, Emitted, EmitLost, v1Run, v1State, v1Session,
     v1Sandbox, V1Inv, PlaceTypes, Before, Stepping, Late, Ended
<1>44. CASE FinishSession
  BY <1>1, <1>44 DEF FinishSession, Return, Goto, Dropped, v1Run, v1State, v1Session, v1Sandbox, V1Inv,
     PlaceTypes, Before, Stepping, Late, Ended
<1>45. CASE V1Tasks
  BY <1>1, <1>45 DEF V1Tasks, TaskEnds, LoopFrame, v1Run, v1State, v1Session, v1Sandbox, V1Inv, PlaceTypes,
     Before, Stepping, Late, Ended
<1>46. CASE V1Signal
  BY <1>1, <1>46 DEF V1Signal, Return, Goto, Dropped, v1Run, v1State, v1Session, v1Sandbox, V1Inv,
     PlaceTypes, Before, Stepping, Late, Ended
<1>47. CASE V1Crash
  BY <1>1, <1>47 DEF V1Crash, Goto, v1Run, v1State, v1Session, v1Sandbox, V1Inv, PlaceTypes, Before,
     Stepping, Late, Ended
<1>48. CASE V1Done
  BY <1>1, <1>48 DEF V1Done, v1Vars, v1Run, v1State, v1Session, v1Sandbox, V1Inv, PlaceTypes, Before,
     Stepping, Late, Ended
<1>49. CASE UNCHANGED v1Vars
  BY <1>1, <1>49 DEF v1Vars, v1Run, v1State, v1Session, v1Sandbox, V1Inv, PlaceTypes, Before, Stepping,
     Late, Ended
<1>50. CASE OtherSaves
  BY <1>1, <1>50 DEF OtherSaves, v1Run, v1State, v1Session, v1Sandbox, V1Inv, PlaceTypes, Before, Stepping,
     Late, Ended
<1> QED
  BY <1>21, <1>22, <1>23, <1>24, <1>25, <1>26, <1>27, <1>28, <1>29, <1>30, <1>31, <1>32, <1>33, <1>34,
     <1>35, <1>36, <1>37, <1>38, <1>39, <1>40, <1>41, <1>42, <1>43, <1>44, <1>45, <1>46, <1>47, <1>48, <1>49,
     <1>50
  DEF V1Next, V1Runner, V1Setup, V1Loop, V1Teardown

\* Every action keeps the types of what it writes.
LEMMA ValueStep == V1Inv /\ [V1Next]_v1Vars => ValueTypes'
<1> SUFFICES ASSUME V1Inv, [V1Next]_v1Vars PROVE ValueTypes'
  OBVIOUS
<1>1. Len(flow) \in Nat /\ DOMAIN flow = 1..Len(flow) /\ MaxLaunches \in Nat /\ launches \in Nat
  BY FlowType DEF V1Inv, PlaceTypes
<1>21. CASE V1Launch
  <2>1. launches' = launches + 1 /\ flow' = flow /\ UNCHANGED boxed
    BY <1>21 DEF V1Launch
  <2>2. NoOutputs \in Outputs'
    BY <1>1, <2>1 DEF NoOutputs, Outputs, Absent, Foreign
  <2>3. loaded' \in Outputs' /\ vctx' \in Outputs' /\ current' \in Outputs'
    BY <1>21, <2>2 DEF V1Launch
  <2> QED
    BY <1>21, <2>1, <2>3 DEF V1Launch, ValueTypes
<1>22. CASE ResumeRefused
  BY <1>1, <1>22 DEF ResumeRefused, Return, Goto, Dropped, v1Run, v1State, v1Session, v1Sandbox, V1Inv,
     PlaceTypes, ValueTypes, Outputs, Absent, Foreign, Empty
<1>23. CASE ResumeSetup
  <2>1. /\ UNCHANGED <<flow, launches>> /\ Outputs' = Outputs
    BY <1>23 DEF ResumeSetup, LoopFrame, v1Run, Outputs
  <2>2. loaded' \in Outputs
    <3>1. CASE loaded' = loaded
      BY <3>1 DEF V1Inv, ValueTypes
    <3>2. CASE files # << >> /\ loaded' = Last(files).steps
      <4>1. Last(files) \in File
        BY <3>2, NewestFile DEF V1Inv, FilesInv
      <4> QED
        BY <3>2, <4>1 DEF File
    <3>3. CASE foreign # << >> /\ loaded' = foreign[1].steps
      <4>1. {Absent, Foreign} \subseteq Foreign..launches
        BY <1>1 DEF Absent, Foreign
      <4> QED
        BY <3>3, <4>1 DEF V1Inv, ForeignInv, Outputs
    <3> QED
      BY <1>23, <3>1, <3>2, <3>3 DEF ResumeSetup, Resumable, FindLatest
  <2> QED
    BY <1>23, <2>1, <2>2 DEF ResumeSetup, v1Run, v1Session, v1Sandbox, V1Inv, ValueTypes
<1>24. CASE StartProxy
  BY <1>1, <1>24 DEF StartProxy, Goto, v1Run, v1State, v1Session, v1Sandbox, V1Inv, PlaceTypes, ValueTypes,
     Outputs, Absent, Foreign, Empty
<1>25. CASE CreateContainer
  BY <1>1, <1>25 DEF CreateContainer, Goto, v1Run, v1State, v1Session, v1Sandbox, V1Inv, PlaceTypes,
     ValueTypes, Outputs, Absent, Foreign, Empty
<1>26. CASE PopulateWorkspace
  BY <1>1, <1>26 DEF PopulateWorkspace, Goto, v1Run, v1State, v1Session, v1Sandbox, V1Inv, PlaceTypes,
     ValueTypes, Outputs, Absent, Foreign, Empty
<1>27. CASE SandboxUpFails
  BY <1>1, <1>27 DEF SandboxUpFails, Return, Goto, Dropped, v1Run, v1State, v1Session, v1Sandbox, V1Inv,
     PlaceTypes, ValueTypes, Outputs, Absent, Foreign, Empty
<1>28. CASE WorkflowStarted
  BY <1>1, <1>28 DEF WorkflowStarted, Return, Goto, Dropped, Emitted, EmitLost, v1Run, v1State, v1Session,
     v1Sandbox, V1Inv, PlaceTypes, ValueTypes, Outputs, Absent, Foreign, Empty
<1>29. CASE SkipStep
  BY <1>1, <1>29 DEF SkipStep, AtStep, LoopFrame, v1Run, v1State, v1Session, v1Sandbox, V1Inv, PlaceTypes,
     ValueTypes, Outputs, Absent, Foreign, Empty
<1>30. CASE SpawnAsyncStep
  BY <1>1, <1>30 DEF SpawnAsyncStep, AtStep, LoopFrame, v1Run, v1State, v1Session, v1Sandbox, V1Inv,
     PlaceTypes, ValueTypes, Outputs, Absent, Foreign, Empty
<1>31. CASE AwaitDep
  <2>1. /\ UNCHANGED <<flow, launches>> /\ Outputs' = Outputs
    BY <1>31 DEF AwaitDep, LoopFrame, v1Run, Outputs
  <2>2. vctx' \in Outputs
    <3>1. vctx \in Outputs /\ launches \in Foreign..launches
      BY <1>1 DEF V1Inv, ValueTypes, Foreign
    <3>2. PICK i \in Deps(Here) : vctx' = [vctx EXCEPT ![i] = launches] \/ vctx' = vctx
      BY <1>31 DEF AwaitDep
    <3>3. [vctx EXCEPT ![i] = launches] \in Outputs
      BY <3>1 DEF Outputs
    <3> QED
      BY <3>1, <3>2, <3>3
  <2>3. tasks' \in [DOMAIN flow -> {"none", "running", "ok", "failed"}] /\ fault' \in BOOLEAN
    BY <1>31 DEF AwaitDep, V1Inv, ValueTypes
  <2> QED
    BY <1>31, <2>1, <2>2, <2>3 DEF AwaitDep, LoopFrame, v1Run, v1Session, v1Sandbox, V1Inv, ValueTypes
<1>32. CASE StepStarted
  BY <1>1, <1>32 DEF StepStarted, AtStep, LoopFrame, Goto, Emitted, EmitLost, v1Run, v1State, v1Session,
     v1Sandbox, V1Inv, PlaceTypes, ValueTypes, Outputs, Absent, Foreign, Empty
<1>33. CASE Execute
  <2>1. /\ UNCHANGED <<flow, launches>> /\ Outputs' = Outputs
    BY <1>33 DEF Execute, LoopFrame, v1Run, Outputs
  <2>2. vctx' \in Outputs
    BY <1>33, <1>1 DEF Execute, Empty, V1Inv, ValueTypes, Outputs, Absent, Foreign
  <2>3. fault' \in BOOLEAN
    BY <1>33 DEF Execute, V1Inv, ValueTypes
  <2> QED
    BY <1>33, <2>1, <2>2, <2>3 DEF Execute, LoopFrame, v1Run, v1Session, v1Sandbox, V1Inv, ValueTypes
<1>34. CASE StepCompleted
  BY <1>1, <1>34 DEF StepCompleted, LoopFrame, Goto, Emitted, EmitLost, v1Run, v1State, v1Session,
     v1Sandbox, V1Inv, PlaceTypes, ValueTypes, Outputs, Absent, Foreign, Empty
<1>35. CASE StepFailed
  BY <1>1, <1>35 DEF StepFailed, LoopFrame, Goto, Emitted, EmitLost, AfterFailure, v1Run, v1State,
     v1Session, v1Sandbox, V1Inv, PlaceTypes, ValueTypes, Outputs, Absent, Foreign, Empty
<1>36. CASE SaveState
  BY <1>1, <1>36 DEF SaveState, Goto, v1Run, v1State, v1Session, v1Sandbox, V1Inv, PlaceTypes, ValueTypes,
     Outputs, Absent, Foreign, Empty
<1>37. CASE LoopEnds
  BY <1>1, <1>37 DEF LoopEnds, LoopFrame, Goto, v1Run, v1State, v1Session, v1Sandbox, V1Inv, PlaceTypes,
     ValueTypes, Outputs, Absent, Foreign, Empty
<1>38. CASE DrainTask
  <2>1. /\ UNCHANGED <<flow, launches>> /\ Outputs' = Outputs
    BY <1>38 DEF DrainTask, LoopFrame, v1Run, Outputs
  <2>2. vctx' \in Outputs
    <3>1. vctx \in Outputs /\ launches \in Foreign..launches
      BY <1>1 DEF V1Inv, ValueTypes, Foreign
    <3>2. PICK i \in Undrained : vctx' = IF tasks[i] = "ok" THEN [vctx EXCEPT ![i] = launches] ELSE vctx
      BY <1>38 DEF DrainTask
    <3>3. [vctx EXCEPT ![i] = launches] \in Outputs
      BY <3>1 DEF Outputs
    <3> QED
      BY <3>1, <3>2, <3>3
  <2>3. tasks' \in [DOMAIN flow -> {"none", "running", "ok", "failed"}]
    BY <1>38 DEF DrainTask, V1Inv, ValueTypes
  <2> QED
    BY <1>38, <2>1, <2>2, <2>3 DEF DrainTask, LoopFrame, v1Run, v1Session, v1Sandbox, V1Inv, ValueTypes
<1>39. CASE Drained
  BY <1>1, <1>39 DEF Drained, LoopFrame, Goto, v1Run, v1State, v1Session, v1Sandbox, V1Inv, PlaceTypes,
     ValueTypes, Outputs, Absent, Foreign, Empty
<1>40. CASE CopyBackFails
  BY <1>1, <1>40 DEF CopyBackFails, Goto, Dropped, v1Run, v1State, v1Session, v1Sandbox, V1Inv, PlaceTypes,
     ValueTypes, Outputs, Absent, Foreign, Empty
<1>41. CASE Destroy
  BY <1>1, <1>41 DEF Destroy, Goto, v1Run, v1State, v1Session, v1Sandbox, V1Inv, PlaceTypes, ValueTypes,
     Outputs, Absent, Foreign, Empty
<1>42. CASE NoSandboxDown
  BY <1>1, <1>42 DEF NoSandboxDown, Goto, v1Run, v1State, v1Session, v1Sandbox, V1Inv, PlaceTypes,
     ValueTypes, Outputs, Absent, Foreign, Empty
<1>43. CASE WorkflowCompleted
  BY <1>1, <1>43 DEF WorkflowCompleted, Return, Goto, Dropped, Emitted, EmitLost, v1Run, v1State, v1Session,
     v1Sandbox, V1Inv, PlaceTypes, ValueTypes, Outputs, Absent, Foreign, Empty
<1>44. CASE FinishSession
  BY <1>1, <1>44 DEF FinishSession, Return, Goto, Dropped, v1Run, v1State, v1Session, v1Sandbox, V1Inv,
     PlaceTypes, ValueTypes, Outputs, Absent, Foreign, Empty
<1>45. CASE V1Tasks
  BY <1>1, <1>45 DEF V1Tasks, TaskEnds, LoopFrame, v1Run, v1State, v1Session, v1Sandbox, V1Inv, PlaceTypes,
     ValueTypes, Outputs, Absent, Foreign, Empty
<1>46. CASE V1Signal
  BY <1>1, <1>46 DEF V1Signal, Return, Goto, Dropped, v1Run, v1State, v1Session, v1Sandbox, V1Inv,
     PlaceTypes, ValueTypes, Outputs, Absent, Foreign, Empty
<1>47. CASE V1Crash
  BY <1>1, <1>47 DEF V1Crash, Goto, v1Run, v1State, v1Session, v1Sandbox, V1Inv, PlaceTypes, ValueTypes,
     Outputs, Absent, Foreign, Empty
<1>48. CASE V1Done
  BY <1>1, <1>48 DEF V1Done, v1Vars, v1Run, v1State, v1Session, v1Sandbox, V1Inv, PlaceTypes, ValueTypes,
     Outputs, Absent, Foreign, Empty
<1>49. CASE UNCHANGED v1Vars
  BY <1>1, <1>49 DEF v1Vars, v1Run, v1State, v1Session, v1Sandbox, V1Inv, PlaceTypes, ValueTypes, Outputs,
     Absent, Foreign, Empty
<1>50. CASE OtherSaves
  BY <1>1, <1>50 DEF OtherSaves, v1Run, v1State, v1Session, v1Sandbox, V1Inv, PlaceTypes, ValueTypes,
     Outputs, Absent, Foreign, Empty
<1> QED
  BY <1>21, <1>22, <1>23, <1>24, <1>25, <1>26, <1>27, <1>28, <1>29, <1>30, <1>31, <1>32, <1>33, <1>34,
     <1>35, <1>36, <1>37, <1>38, <1>39, <1>40, <1>41, <1>42, <1>43, <1>44, <1>45, <1>46, <1>47, <1>48, <1>49,
     <1>50
  DEF V1Next, V1Runner, V1Setup, V1Loop, V1Teardown

\* FilesInv is about the files and what would be saved next.
LEMMA FilesFrame ==
    ASSUME V1Inv, UNCHANGED <<flow, launches, files, current>>,
           vpc' \in {"completed", "save"} => vctx'[pos'] = launches
    PROVE  FilesInv'
<1>1. File' = File
  BY DEF File, Outputs
<1> QED
  BY <1>1 DEF V1Inv, FilesInv

\* Without a file of this execution, the files are those of earlier ones, all of them kept.
LEMMA Older ==
    ASSUME V1Inv, vpc = "save"
    PROVE  /\ OlderFiles \in Seq(File) /\ Len(OlderFiles) \in Nat /\ Len(OlderFiles) <= Len(files)
           /\ \A k \in DOMAIN OlderFiles : k \in DOMAIN files /\ OlderFiles[k] = files[k] /\ files[k].by < launches
<1>1. files \in Seq(File) /\ Len(files) \in Nat /\ DOMAIN files = 1..Len(files) /\ launches \in Nat
  BY FlowType DEF V1Inv, FilesInv, PlaceTypes
<1>2. \A k \in DOMAIN files : files[k].by \in 1..launches
  <2>1. \A k \in DOMAIN files : files[k] \in File
    BY <1>1
  <2> QED
    BY <2>1 DEF File
<1>3. CASE files # << >> /\ Last(files).by = launches
  <2>1. OlderFiles = SubSeq(files, 1, Len(files) - 1) /\ Last(files) = files[Len(files)]
    BY <1>3 DEF OlderFiles, Front, Last
  <2>2. Len(files) \in 1..Len(files) /\ Len(files) - 1 \in Nat
    BY <1>1, <1>3
  <2>3. /\ OlderFiles \in Seq(File) /\ Len(OlderFiles) = Len(files) - 1
        /\ \A k \in 1..Len(files) - 1 : OlderFiles[k] = files[k]
    BY <1>1, <2>1, <2>2
  <2>4. \A k \in 1..Len(files) - 1 : k \in DOMAIN files /\ files[k].by < launches
    <3>1. \A k \in 1..Len(files) - 1 : k \in DOMAIN files /\ k < Len(files) /\ Len(files) \in DOMAIN files
      BY <1>1, <2>2
    <3> QED
      BY <1>3, <2>1, <3>1 DEF V1Inv, FilesInv
  <2>5. DOMAIN OlderFiles = 1..Len(files) - 1
    BY <2>3
  <2> QED
    BY <1>1, <2>2, <2>3, <2>4, <2>5
<1>4. CASE files = << >>
  BY <1>1, <1>4 DEF OlderFiles
<1>5. CASE files # << >> /\ Last(files).by # launches
  <2>1. OlderFiles = files
    BY <1>5 DEF OlderFiles
  <2>2. Last(files) = files[Len(files)] /\ Len(files) \in DOMAIN files
    BY <1>1, <1>5, NewestFile
  <2>3. files[Len(files)].by < launches
    BY <1>1, <1>2, <1>5, <2>2
  <2>4. ASSUME NEW k \in DOMAIN files PROVE files[k].by < launches
    <3>1. k = Len(files) \/ k < Len(files)
      BY <1>1
    <3>2. k < Len(files) => files[k].by < files[Len(files)].by
      BY <2>2 DEF V1Inv, FilesInv
    <3> QED
      BY <1>1, <1>2, <2>2, <2>3, <3>1, <3>2
  <2> QED
    BY <1>1, <2>1, <2>4
<1> QED
  BY <1>3, <1>4, <1>5

\* Every action keeps the order of the files and what is in them.
LEMMA FilesStep == V1Inv /\ [V1Next]_v1Vars => FilesInv'
<1> SUFFICES ASSUME V1Inv, [V1Next]_v1Vars PROVE FilesInv'
  OBVIOUS
<1>1. Len(flow) \in Nat /\ DOMAIN flow = 1..Len(flow) /\ launches \in Nat
  BY FlowType DEF V1Inv, PlaceTypes
<1>21. CASE V1Launch
  <2>1. launches' = launches + 1 /\ flow' = flow /\ files' = files /\ current' = NoOutputs /\ vpc' = "setup"
    BY <1>21 DEF V1Launch, Goto
  <2>2. \A k \in DOMAIN files : files[k] \in File'
    <3>1. \A k \in DOMAIN files : files[k] \in File
      BY DEF V1Inv, FilesInv
    <3>2. File \subseteq File'
      BY <1>1, <2>1 DEF File, Outputs, Absent, Foreign
    <3> QED
      BY <3>1, <3>2
  <2>3. files \in Seq(File') /\ \A i \in DOMAIN flow : NoOutputs[i] = Absent
    BY <2>2 DEF V1Inv, FilesInv, NoOutputs
  <2> QED
    BY <2>1, <2>3 DEF V1Inv, FilesInv
<1>22. CASE ResumeRefused
  <2>1. UNCHANGED <<flow, launches, files, current>> /\ vpc' \notin {"completed", "save"}
    BY <1>22 DEF ResumeRefused, Return, Goto, Dropped, v1Run, v1State, v1Session, v1Sandbox
  <2> QED
    BY <2>1, FilesFrame
<1>23. CASE ResumeSetup
  <2>1. UNCHANGED <<flow, launches, files, current>> /\ vpc' \notin {"completed", "save"}
    BY <1>23 DEF ResumeSetup, Goto, Resumable, FindLatest, v1Run, v1State, v1Session, v1Sandbox
  <2> QED
    BY <2>1, FilesFrame
<1>24. CASE StartProxy
  <2>1. UNCHANGED <<flow, launches, files, current>> /\ vpc' \notin {"completed", "save"}
    BY <1>24 DEF StartProxy, Goto, v1Run, v1State, v1Session, v1Sandbox
  <2> QED
    BY <2>1, FilesFrame
<1>25. CASE CreateContainer
  <2>1. UNCHANGED <<flow, launches, files, current>> /\ vpc' \notin {"completed", "save"}
    BY <1>25 DEF CreateContainer, Goto, v1Run, v1State, v1Session, v1Sandbox
  <2> QED
    BY <2>1, FilesFrame
<1>26. CASE PopulateWorkspace
  <2>1. UNCHANGED <<flow, launches, files, current>> /\ vpc' \notin {"completed", "save"}
    BY <1>26 DEF PopulateWorkspace, Goto, v1Run, v1State, v1Session, v1Sandbox
  <2> QED
    BY <2>1, FilesFrame
<1>27. CASE SandboxUpFails
  <2>1. UNCHANGED <<flow, launches, files, current>> /\ vpc' \notin {"completed", "save"}
    BY <1>27 DEF SandboxUpFails, Return, Goto, Dropped, v1Run, v1State, v1Session, v1Sandbox
  <2> QED
    BY <2>1, FilesFrame
<1>28. CASE WorkflowStarted
  <2>1. UNCHANGED <<flow, launches, files, current>> /\ vpc' \notin {"completed", "save"}
    BY <1>28 DEF WorkflowStarted, Return, Goto, Dropped, Emitted, EmitLost, v1Run, v1State, v1Session,
       v1Sandbox
  <2> QED
    BY <2>1, FilesFrame
<1>29. CASE SkipStep
  <2>1. UNCHANGED <<flow, launches, files, current>> /\ vpc' \notin {"completed", "save"}
    BY <1>29 DEF SkipStep, AtStep, LoopFrame, v1Run, v1State, v1Session, v1Sandbox
  <2> QED
    BY <2>1, FilesFrame
<1>30. CASE SpawnAsyncStep
  <2>1. UNCHANGED <<flow, launches, files, current>> /\ vpc' \notin {"completed", "save"}
    BY <1>30 DEF SpawnAsyncStep, AtStep, LoopFrame, v1Run, v1State, v1Session, v1Sandbox
  <2> QED
    BY <2>1, FilesFrame
<1>31. CASE AwaitDep
  <2>1. UNCHANGED <<flow, launches, files, current>> /\ vpc' \notin {"completed", "save"}
    BY <1>31 DEF AwaitDep, AtStep, LoopFrame, Goto, v1Run, v1State, v1Session, v1Sandbox
  <2> QED
    BY <2>1, FilesFrame
<1>32. CASE StepStarted
  <2>1. UNCHANGED <<flow, launches, files, current>> /\ vpc' \notin {"completed", "save"}
    BY <1>32 DEF StepStarted, AtStep, LoopFrame, Goto, Emitted, EmitLost, v1Run, v1State, v1Session,
       v1Sandbox
  <2> QED
    BY <2>1, FilesFrame
<1>33. CASE Execute
  <2>1. UNCHANGED <<flow, launches, files, current>> /\ pos \in DOMAIN flow /\ vctx \in Outputs
    BY <1>33 DEF Execute, LoopFrame, Goto, v1Run, v1State, v1Session, v1Sandbox, V1Inv, PlaceTypes,
       ValueTypes, Stepping
  <2>2. vpc' \in {"completed", "save"} => vctx' = [vctx EXCEPT ![pos] = launches] /\ pos' = pos
    BY <1>33 DEF Execute, Goto
  <2>3. vpc' \in {"completed", "save"} => vctx'[pos'] = launches
    BY <2>1, <2>2 DEF Outputs
  <2> QED
    BY <2>1, <2>3, FilesFrame
<1>34. CASE StepCompleted
  <2>1. UNCHANGED <<flow, launches, files, current, vctx, pos>> /\ vpc = "completed"
    BY <1>34 DEF StepCompleted, LoopFrame, Goto, Emitted, EmitLost, v1Run, v1State, v1Session, v1Sandbox
  <2> QED
    BY <2>1, FilesFrame DEF V1Inv, FilesInv
<1>35. CASE StepFailed
  <2>1. UNCHANGED <<flow, launches, files, current>> /\ vpc' \notin {"completed", "save"}
    BY <1>35 DEF StepFailed, LoopFrame, Goto, Emitted, EmitLost, AfterFailure, v1Run, v1State, v1Session,
       v1Sandbox
  <2> QED
    BY <2>1, FilesFrame
<1>36. CASE SaveState
  <2>1. /\ UNCHANGED <<flow, launches>> /\ vpc = "save" /\ vpc' = "loop" /\ pos \in DOMAIN flow /\ File' = File
        /\ current' = [current EXCEPT ![pos] = vctx[pos]] /\ vctx[pos] = launches /\ current \in Outputs
    BY <1>36 DEF SaveState, Goto, v1Run, V1Inv, PlaceTypes, ValueTypes, Stepping, FilesInv, File, Outputs
  <2>2. /\ current' \in Outputs /\ \A i \in DOMAIN flow : current'[i] \in {Absent, launches}
    BY <1>1, <2>1 DEF V1Inv, FilesInv, Outputs, Absent, Foreign
  <2>3. CASE files' = files
    BY <2>1, <2>2, <2>3 DEF V1Inv, FilesInv
  <2>4. ASSUME NEW w \in BOOLEAN, files' = Append(OlderFiles, [by |-> launches, whole |-> w, steps |-> current'])
        PROVE  FilesInv'
    <3> DEFINE new == [by |-> launches, whole |-> w, steps |-> current']
               n == Len(OlderFiles)
    <3>1. new \in File /\ new.by = launches /\ new.steps = current'
      <4>1. launches \in 1..launches
        BY <1>1, <2>1 DEF V1Inv, PlaceTypes
      <4> QED
        BY <2>2, <4>1 DEF File
    <3>2. n \in Nat /\ OlderFiles \in Seq(File)
      BY <2>1, Older
    <3> HIDE DEF new, n
    <3>3. /\ files' \in Seq(File) /\ DOMAIN files' = 1..n + 1 /\ files'[n + 1] = new
          /\ \A k \in 1..n : files'[k] = OlderFiles[k]
      BY <2>4, <3>1, <3>2 DEF new, n
    <3>4. \A k \in 1..n : k \in DOMAIN files /\ files'[k] = files[k] /\ files[k].by < launches
      <4>1. DOMAIN OlderFiles = 1..n
        BY <3>2 DEF n
      <4> QED
        BY <2>1, <3>3, <4>1, Older
    <3>5. \A j, k \in 1..n + 1 : j < k => files'[j].by < files'[k].by
      <4> SUFFICES ASSUME NEW j \in 1..n + 1, NEW k \in 1..n + 1, j < k PROVE files'[j].by < files'[k].by
        OBVIOUS
      <4>1. j \in 1..n /\ (k \in 1..n \/ k = n + 1)
        BY <3>2
      <4> QED
        BY <3>1, <3>3, <3>4, <4>1 DEF V1Inv, FilesInv
    <3>6. \A k \in 1..n + 1 : \A i \in DOMAIN flow : files'[k].steps[i] \in {Absent, files'[k].by}
      <4> SUFFICES ASSUME NEW k \in 1..n + 1, NEW i \in DOMAIN flow PROVE files'[k].steps[i] \in {Absent, files'[k].by}
        OBVIOUS
      <4>1. k \in 1..n \/ k = n + 1
        BY <3>2
      <4> QED
        BY <2>2, <3>1, <3>3, <3>4, <4>1 DEF V1Inv, FilesInv
    <3> QED
      BY <2>1, <2>2, <3>3, <3>5, <3>6 DEF FilesInv
  <2> QED
    BY <1>36, <2>3, <2>4 DEF SaveState
<1>37. CASE LoopEnds
  <2>1. UNCHANGED <<flow, launches, files, current>> /\ vpc' \notin {"completed", "save"}
    BY <1>37 DEF LoopEnds, LoopFrame, Goto, v1Run, v1State, v1Session, v1Sandbox
  <2> QED
    BY <2>1, FilesFrame
<1>38. CASE DrainTask
  <2>1. UNCHANGED <<flow, launches, files, current>> /\ vpc' \notin {"completed", "save"}
    BY <1>38 DEF DrainTask, LoopFrame, v1Run, v1State, v1Session, v1Sandbox
  <2> QED
    BY <2>1, FilesFrame
<1>39. CASE Drained
  <2>1. UNCHANGED <<flow, launches, files, current>> /\ vpc' \notin {"completed", "save"}
    BY <1>39 DEF Drained, LoopFrame, Goto, v1Run, v1State, v1Session, v1Sandbox
  <2> QED
    BY <2>1, FilesFrame
<1>40. CASE CopyBackFails
  <2>1. UNCHANGED <<flow, launches, files, current>> /\ vpc' \notin {"completed", "save"}
    BY <1>40 DEF CopyBackFails, Goto, Dropped, v1Run, v1State, v1Session, v1Sandbox
  <2> QED
    BY <2>1, FilesFrame
<1>41. CASE Destroy
  <2>1. UNCHANGED <<flow, launches, files, current>> /\ vpc' \notin {"completed", "save"}
    BY <1>41 DEF Destroy, Goto, v1Run, v1State, v1Session, v1Sandbox
  <2> QED
    BY <2>1, FilesFrame
<1>42. CASE NoSandboxDown
  <2>1. UNCHANGED <<flow, launches, files, current>> /\ vpc' \notin {"completed", "save"}
    BY <1>42 DEF NoSandboxDown, Goto, v1Run, v1State, v1Session, v1Sandbox
  <2> QED
    BY <2>1, FilesFrame
<1>43. CASE WorkflowCompleted
  <2>1. UNCHANGED <<flow, launches, files, current>> /\ vpc' \notin {"completed", "save"}
    BY <1>43 DEF WorkflowCompleted, Return, Goto, Dropped, Emitted, EmitLost, v1Run, v1State, v1Session,
       v1Sandbox
  <2> QED
    BY <2>1, FilesFrame
<1>44. CASE FinishSession
  <2>1. UNCHANGED <<flow, launches, files, current>> /\ vpc' \notin {"completed", "save"}
    BY <1>44 DEF FinishSession, Return, Goto, Dropped, v1Run, v1State, v1Session, v1Sandbox
  <2> QED
    BY <2>1, FilesFrame
<1>45. CASE V1Tasks
  <2>1. UNCHANGED <<flow, launches, files, current, vctx, pos, vpc>>
    BY <1>45 DEF V1Tasks, TaskEnds, LoopFrame, v1Run, v1State, v1Session, v1Sandbox
  <2> QED
    BY <2>1, FilesFrame DEF V1Inv, FilesInv
<1>46. CASE V1Signal
  <2>1. UNCHANGED <<flow, launches, files, current>> /\ vpc' \notin {"completed", "save"}
    BY <1>46 DEF V1Signal, Return, Goto, Dropped, v1Run, v1State, v1Session, v1Sandbox
  <2> QED
    BY <2>1, FilesFrame
<1>47. CASE V1Crash
  <2>1. UNCHANGED <<flow, launches, files, current>> /\ vpc' \notin {"completed", "save"}
    BY <1>47 DEF V1Crash, Goto, v1Run, v1State, v1Session, v1Sandbox
  <2> QED
    BY <2>1, FilesFrame
<1>48. CASE V1Done
  <2>1. UNCHANGED <<flow, launches, files, current, vctx, pos, vpc>>
    BY <1>48 DEF V1Done, v1Vars, v1Run, v1State, v1Session, v1Sandbox
  <2> QED
    BY <2>1, FilesFrame DEF V1Inv, FilesInv
<1>49. CASE UNCHANGED v1Vars
  <2>1. UNCHANGED <<flow, launches, files, current, vctx, pos, vpc>>
    BY <1>49 DEF v1Vars, v1Run, v1State, v1Session, v1Sandbox
  <2> QED
    BY <2>1, FilesFrame DEF V1Inv, FilesInv
<1>50. CASE OtherSaves
  <2>1. UNCHANGED <<flow, launches, files, current, vctx, pos, vpc>>
    BY <1>50 DEF OtherSaves, v1Run
  <2> QED
    BY <2>1, FilesFrame DEF V1Inv, FilesInv
<1> QED
  BY <1>21, <1>22, <1>23, <1>24, <1>25, <1>26, <1>27, <1>28, <1>29, <1>30, <1>31, <1>32, <1>33, <1>34,
     <1>35, <1>36, <1>37, <1>38, <1>39, <1>40, <1>41, <1>42, <1>43, <1>44, <1>45, <1>46, <1>47, <1>48, <1>49,
     <1>50
  DEF V1Next, V1Runner, V1Setup, V1Loop, V1Teardown

\* Only another workflow writes its file; a save of this one makes an own file the newest.
LEMMA ForeignStep == V1Inv /\ [V1Next]_v1Vars => ForeignInv'
<1> SUFFICES ASSUME V1Inv, [V1Next]_v1Vars PROVE ForeignInv'
  OBVIOUS
<1>1. ASSUME UNCHANGED <<flow, foreign>> PROVE ForeignInv'
  BY <1>1 DEF V1Inv, ForeignInv
<1>2. CASE OtherSaves
  <2>1. flow' = flow
    BY <1>2 DEF OtherSaves, v1Run
  <2>2. CASE foreign' = <<[whole |-> FALSE, steps |-> NoOutputs]>>
    BY <2>1, <2>2 DEF ForeignInv, NoOutputs
  <2>3. ASSUME NEW done, foreign' = <<[whole |-> TRUE, steps |-> [i \in DOMAIN flow |-> IF i \in done THEN Foreign ELSE Absent]]>>
        PROVE  ForeignInv'
    BY <2>1, <2>3 DEF ForeignInv
  <2> QED
    BY <1>2, <2>2, <2>3 DEF OtherSaves
<1>3. CASE SaveState
  BY <1>3 DEF SaveState, v1Run, V1Inv, ForeignInv
<1>4. CASE V1Launch \/ V1Setup \/ V1Teardown \/ V1Tasks \/ V1Signal \/ V1Crash \/ V1Done \/ UNCHANGED v1Vars
  BY <1>1, <1>4 DEF V1Launch, V1Setup, V1Teardown, V1Tasks, V1Signal, V1Crash, V1Done, ResumeRefused, ResumeSetup,
     StartProxy, CreateContainer, PopulateWorkspace, SandboxUpFails, DrainTask, Drained, CopyBackFails, Destroy,
     NoSandboxDown, WorkflowCompleted, FinishSession, TaskEnds, LoopFrame, v1Run, v1State, v1Vars
<1>5. CASE V1Loop /\ ~SaveState
  BY <1>1, <1>5 DEF V1Loop, WorkflowStarted, SkipStep, SpawnAsyncStep, AwaitDep, StepStarted, Execute, StepCompleted,
     StepFailed, LoopEnds, LoopFrame, v1Run, v1State
<1> QED
  BY <1>2, <1>3, <1>4, <1>5 DEF V1Next, V1Runner

\* A step before the resume point is skipped by SkipStep alone; everywhere else the reader's place decides.
LEMMA SkipFrame ==
    ASSUME V1Inv, UNCHANGED <<flow, pos, resume, vctx, files, loaded>>,
           vpc' \in Stepping \cup Late => ~Skipped
    PROVE  SkipInv'
BY DEF V1Inv, SkipInv, Skipped, ReadOf

\* Past the resume point nothing is skipped any more.
LEMMA PastResume ==
    ASSUME V1Inv, ~Skipped, resume' = resume, pos' \in {pos, pos + 1}
    PROVE  SkipInv'
<1>1. resume \in Nat /\ pos \in Nat
  BY FlowType DEF V1Inv, PlaceTypes
<1>2. ~Skipped'
  BY <1>1 DEF Skipped
<1> QED
  BY <1>2 DEF SkipInv

\* Every action keeps what is known of the steps before the resume point.
LEMMA SkipStepInv == V1Inv /\ [V1Next]_v1Vars => SkipInv'
<1> SUFFICES ASSUME V1Inv, [V1Next]_v1Vars PROVE SkipInv'
  OBVIOUS
<1>1. Len(flow) \in Nat /\ DOMAIN flow = 1..Len(flow)
  BY FlowType DEF V1Inv, PlaceTypes
<1>21. CASE V1Launch
  <2>1. pos' = 1 /\ vpc' = "setup" /\ loaded' = NoOutputs /\ flow' = flow
    BY <1>21 DEF V1Launch, Goto
  <2>2. NoOutputs \in [DOMAIN flow -> {Absent, Foreign}]
    BY DEF NoOutputs
  <2> QED
    BY <2>1, <2>2 DEF SkipInv, ReadOf, Before, Stepping, Late, Ended
<1>22. CASE ResumeRefused
  <2>1. UNCHANGED <<flow, pos, resume, vctx, files, loaded>> /\ vpc' \notin Stepping \cup Late
    BY <1>22 DEF ResumeRefused, Return, Goto, Dropped, v1Run, v1State, v1Session, v1Sandbox, Before,
       Stepping, Late, Ended
  <2> QED
    BY <2>1, SkipFrame
<1>23. CASE ResumeSetup
  <2>1. pos = 1 /\ UNCHANGED <<flow, pos, resume, files, vctx>> /\ vpc' \in {"proxy", "begin"}
    BY <1>23 DEF ResumeSetup, Goto, v1Run, V1Inv, PlaceTypes, Before
  <2>2. Skipped => \/ foreign # << >> /\ loaded' = foreign[1].steps
                   \/ files # << >> /\ loaded' = Last(files).steps
    BY <1>23 DEF ResumeSetup, Resumable, FindLatest, Skipped
  <2> QED
    BY <2>1, <2>2 DEF V1Inv, ForeignInv, SkipInv, ReadOf, Skipped, Stepping, Late
<1>24. CASE StartProxy
  <2>1. UNCHANGED <<flow, pos, resume, vctx, files, loaded>> /\ vpc' \notin Stepping \cup Late
    BY <1>24 DEF StartProxy, Goto, v1Run, v1State, v1Session, v1Sandbox, Before, Stepping, Late, Ended
  <2> QED
    BY <2>1, SkipFrame
<1>25. CASE CreateContainer
  <2>1. UNCHANGED <<flow, pos, resume, vctx, files, loaded>> /\ vpc' \notin Stepping \cup Late
    BY <1>25 DEF CreateContainer, Goto, v1Run, v1State, v1Session, v1Sandbox, Before, Stepping, Late, Ended
  <2> QED
    BY <2>1, SkipFrame
<1>26. CASE PopulateWorkspace
  <2>1. UNCHANGED <<flow, pos, resume, vctx, files, loaded>> /\ vpc' \notin Stepping \cup Late
    BY <1>26 DEF PopulateWorkspace, Goto, v1Run, v1State, v1Session, v1Sandbox, Before, Stepping, Late,
       Ended
  <2> QED
    BY <2>1, SkipFrame
<1>27. CASE SandboxUpFails
  <2>1. UNCHANGED <<flow, pos, resume, vctx, files, loaded>> /\ vpc' \notin Stepping \cup Late
    BY <1>27 DEF SandboxUpFails, Return, Goto, Dropped, v1Run, v1State, v1Session, v1Sandbox, Before,
       Stepping, Late, Ended
  <2> QED
    BY <2>1, SkipFrame
<1>28. CASE WorkflowStarted
  <2>1. UNCHANGED <<flow, pos, resume, vctx, files, loaded>> /\ vpc' \notin Stepping \cup Late
    BY <1>28 DEF WorkflowStarted, Return, Goto, Dropped, Emitted, EmitLost, v1Run, v1State, v1Session,
       v1Sandbox, Before, Stepping, Late, Ended
  <2> QED
    BY <2>1, SkipFrame
<1>29. CASE SkipStep
  <2>1. /\ vpc = "loop" /\ Skipped /\ pos \in DOMAIN flow /\ pos' = pos + 1 /\ vctx' = [vctx EXCEPT ![pos] = loaded[pos]]
        /\ UNCHANGED <<flow, resume, files, loaded, vpc>>
    BY <1>29 DEF SkipStep, AtStep, LoopFrame, v1Run
  <2>2. ReadOf(loaded) /\ vctx \in [DOMAIN flow -> Foreign..launches]
    BY <2>1 DEF V1Inv, SkipInv, ValueTypes, Outputs
  <2>3. pos \in 1..Len(flow)
    BY <1>1, <2>1
  <2>4. \A i \in 1..pos' - 1 : vctx'[i] = loaded[i]
    <3> SUFFICES ASSUME NEW i \in 1..pos PROVE vctx'[i] = loaded[i]
      BY <2>1, <2>3
    <3>1. CASE i = pos
      BY <2>1, <2>2, <3>1
    <3>2. CASE i # pos
      <4>1. i \in 1..pos - 1 /\ i \in DOMAIN flow
        BY <1>1, <2>3, <3>2
      <4>2. vctx[i] = loaded[i]
        BY <2>1, <4>1 DEF V1Inv, SkipInv
      <4> QED
        BY <2>1, <2>2, <3>2, <4>1, <4>2
    <3> QED
      BY <3>1, <3>2
  <2> QED
    BY <2>1, <2>2, <2>4 DEF SkipInv, ReadOf, Stepping, Late, Last
<1>30. CASE SpawnAsyncStep
  <2>1. ~Skipped /\ resume' = resume /\ pos' \in {pos, pos + 1}
    BY <1>30 DEF SpawnAsyncStep, AtStep, LoopFrame, v1Run, v1State, v1Session, v1Sandbox, V1Inv, SkipInv,
       Stepping, Late
  <2> QED
    BY <2>1, PastResume
<1>31. CASE AwaitDep
  <2>1. ~Skipped /\ resume' = resume /\ pos' \in {pos, pos + 1}
    BY <1>31 DEF AwaitDep, AtStep, LoopFrame, Goto, v1Run, v1State, v1Session, v1Sandbox, V1Inv, SkipInv,
       Stepping, Late
  <2> QED
    BY <2>1, PastResume
<1>32. CASE StepStarted
  <2>1. ~Skipped /\ resume' = resume /\ pos' \in {pos, pos + 1}
    BY <1>32 DEF StepStarted, AtStep, LoopFrame, Goto, Emitted, EmitLost, v1Run, v1State, v1Session,
       v1Sandbox, V1Inv, SkipInv, Stepping, Late
  <2> QED
    BY <2>1, PastResume
<1>33. CASE Execute
  <2>1. ~Skipped /\ resume' = resume /\ pos' \in {pos, pos + 1}
    BY <1>33 DEF Execute, LoopFrame, Goto, v1Run, v1State, v1Session, v1Sandbox, V1Inv, SkipInv, Stepping,
       Late
  <2> QED
    BY <2>1, PastResume
<1>34. CASE StepCompleted
  <2>1. ~Skipped /\ resume' = resume /\ pos' \in {pos, pos + 1}
    BY <1>34 DEF StepCompleted, LoopFrame, Goto, Emitted, EmitLost, v1Run, v1State, v1Session, v1Sandbox,
       V1Inv, SkipInv, Stepping, Late
  <2> QED
    BY <2>1, PastResume
<1>35. CASE StepFailed
  <2>1. ~Skipped /\ resume' = resume /\ pos' \in {pos, pos + 1}
    BY <1>35 DEF StepFailed, LoopFrame, Goto, Emitted, EmitLost, AfterFailure, v1Run, v1State, v1Session,
       v1Sandbox, V1Inv, SkipInv, Stepping, Late
  <2> QED
    BY <2>1, PastResume
<1>36. CASE SaveState
  <2>1. ~Skipped /\ resume' = resume /\ pos' \in {pos, pos + 1}
    BY <1>36 DEF SaveState, Goto, v1Run, v1State, v1Session, v1Sandbox, V1Inv, SkipInv, Stepping, Late
  <2> QED
    BY <2>1, PastResume
<1>37. CASE LoopEnds
  <2>1. pos > Len(flow) /\ vpc = "loop" /\ UNCHANGED <<resume, pos>>
    BY <1>37 DEF LoopEnds, LoopFrame, Goto, v1Run, v1State, v1Session, v1Sandbox
  <2>2. ~Skipped
    BY <1>1, <2>1 DEF V1Inv, PlaceTypes, Ended, Skipped
  <2> QED
    BY <2>1, <2>2, PastResume
<1>38. CASE DrainTask
  <2>1. ~Skipped /\ resume' = resume /\ pos' \in {pos, pos + 1}
    BY <1>38 DEF DrainTask, LoopFrame, v1Run, v1State, v1Session, v1Sandbox, V1Inv, SkipInv, Stepping, Late
  <2> QED
    BY <2>1, PastResume
<1>39. CASE Drained
  <2>1. UNCHANGED <<pos, resume>> /\ vpc \in Late
    BY <1>39 DEF Drained, LoopFrame, Goto, v1Run, v1State, v1Session, v1Sandbox, Late
  <2> QED
    BY <2>1, PastResume DEF V1Inv, SkipInv
<1>40. CASE CopyBackFails
  <2>1. UNCHANGED <<pos, resume>> /\ vpc \in Late
    BY <1>40 DEF CopyBackFails, Goto, Dropped, v1Run, v1State, v1Session, v1Sandbox, Late
  <2> QED
    BY <2>1, PastResume DEF V1Inv, SkipInv
<1>41. CASE Destroy
  <2>1. UNCHANGED <<pos, resume>> /\ vpc \in Late
    BY <1>41 DEF Destroy, Goto, v1Run, v1State, v1Session, v1Sandbox, Late
  <2> QED
    BY <2>1, PastResume DEF V1Inv, SkipInv
<1>42. CASE NoSandboxDown
  <2>1. UNCHANGED <<pos, resume>> /\ vpc \in Late
    BY <1>42 DEF NoSandboxDown, Goto, v1Run, v1State, v1Session, v1Sandbox, Late
  <2> QED
    BY <2>1, PastResume DEF V1Inv, SkipInv
<1>43. CASE WorkflowCompleted
  <2>1. UNCHANGED <<pos, resume>> /\ vpc \in Late
    BY <1>43 DEF WorkflowCompleted, Return, Goto, Dropped, Emitted, EmitLost, v1Run, v1State, v1Session,
       v1Sandbox, Late
  <2> QED
    BY <2>1, PastResume DEF V1Inv, SkipInv
<1>44. CASE FinishSession
  <2>1. UNCHANGED <<pos, resume>> /\ vpc \in Late
    BY <1>44 DEF FinishSession, Return, Goto, Dropped, v1Run, v1State, v1Session, v1Sandbox, Late
  <2> QED
    BY <2>1, PastResume DEF V1Inv, SkipInv
<1>45. CASE V1Tasks
  <2>1. UNCHANGED <<flow, pos, resume, vctx, files, loaded, vpc>>
    BY <1>45 DEF V1Tasks, TaskEnds, LoopFrame, v1Run, v1State, v1Session, v1Sandbox
  <2> QED
    BY <2>1, SkipFrame DEF V1Inv, SkipInv
<1>46. CASE V1Signal
  <2>1. UNCHANGED <<flow, pos, resume, vctx, files, loaded>> /\ vpc' \notin Stepping \cup Late
    BY <1>46 DEF V1Signal, Return, Goto, Dropped, v1Run, v1State, v1Session, v1Sandbox, Before, Stepping,
       Late, Ended
  <2> QED
    BY <2>1, SkipFrame
<1>47. CASE V1Crash
  <2>1. UNCHANGED <<flow, pos, resume, vctx, files, loaded>> /\ vpc' \notin Stepping \cup Late
    BY <1>47 DEF V1Crash, Goto, v1Run, v1State, v1Session, v1Sandbox, Before, Stepping, Late, Ended
  <2> QED
    BY <2>1, SkipFrame
<1>48. CASE V1Done
  <2>1. UNCHANGED <<flow, pos, resume, vctx, files, loaded, vpc>>
    BY <1>48 DEF V1Done, v1Vars, v1Run, v1State, v1Session, v1Sandbox
  <2> QED
    BY <2>1, SkipFrame DEF V1Inv, SkipInv
<1>49. CASE UNCHANGED v1Vars
  <2>1. UNCHANGED <<flow, pos, resume, vctx, files, loaded, vpc>>
    BY <1>49 DEF v1Vars, v1Run, v1State, v1Session, v1Sandbox
  <2> QED
    BY <2>1, SkipFrame DEF V1Inv, SkipInv
<1>50. CASE OtherSaves
  <2>1. UNCHANGED <<flow, pos, resume, vctx, files, loaded, vpc>>
    BY <1>50 DEF OtherSaves, v1Run
  <2> QED
    BY <2>1, SkipFrame DEF V1Inv, SkipInv
<1> QED
  BY <1>21, <1>22, <1>23, <1>24, <1>25, <1>26, <1>27, <1>28, <1>29, <1>30, <1>31, <1>32, <1>33, <1>34,
     <1>35, <1>36, <1>37, <1>38, <1>39, <1>40, <1>41, <1>42, <1>43, <1>44, <1>45, <1>46, <1>47, <1>48, <1>49,
     <1>50
  DEF V1Next, V1Runner, V1Setup, V1Loop, V1Teardown

\* Without a change of the tasks only the place of run() matters.
LEMMA TasksFrame ==
    ASSUME V1Inv, UNCHANGED <<flow, tasks>>,
           vpc' \in Before \cup Ended \cup (Late \ {"drain"}) => Pending = {},
           vpc' = "exec" => pos' = pos /\ Scanned(Here) \cap Pending = {}
    PROVE  TasksInv'
<1>1. Pending' = Pending
  BY DEF Pending
<1> QED
  BY <1>1 DEF TasksInv, AwaitedBeforeUse, Scanned, Here

\* Every action keeps the tasks within the loop and the drain.
LEMMA TasksStep == V1Inv /\ [V1Next]_v1Vars => TasksInv'
<1> SUFFICES ASSUME V1Inv, [V1Next]_v1Vars PROVE TasksInv'
  OBVIOUS
<1>21. CASE V1Launch
  <2>1. flow' = flow /\ tasks' = [i \in DOMAIN flow |-> "none"] /\ vpc' # "exec"
    BY <1>21 DEF V1Launch, Goto, NoTracking, NoOutputs, v1Run, v1State, v1Session, v1Sandbox
  <2>2. Pending' = {}
    BY <2>1 DEF Pending
  <2> QED
    BY <2>1, <2>2 DEF TasksInv, AwaitedBeforeUse
<1>22. CASE ResumeRefused
  <2>1. UNCHANGED <<flow, tasks>> /\ vpc \in Before \cup (Late \ {"drain"}) /\ vpc' # "exec"
    BY <1>22 DEF ResumeRefused, Return, Goto, Dropped, v1Run, v1State, v1Session, v1Sandbox, Before, Late
  <2> QED
    BY <2>1, TasksFrame DEF V1Inv, TasksInv
<1>23. CASE ResumeSetup
  <2>1. UNCHANGED <<flow, tasks>> /\ vpc \in Before \cup (Late \ {"drain"}) /\ vpc' # "exec"
    BY <1>23 DEF ResumeSetup, Goto, Resumable, FindLatest, v1Run, v1State, v1Session, v1Sandbox, Before,
       Late
  <2> QED
    BY <2>1, TasksFrame DEF V1Inv, TasksInv
<1>24. CASE StartProxy
  <2>1. UNCHANGED <<flow, tasks>> /\ vpc \in Before \cup (Late \ {"drain"}) /\ vpc' # "exec"
    BY <1>24 DEF StartProxy, Goto, v1Run, v1State, v1Session, v1Sandbox, Before, Late
  <2> QED
    BY <2>1, TasksFrame DEF V1Inv, TasksInv
<1>25. CASE CreateContainer
  <2>1. UNCHANGED <<flow, tasks>> /\ vpc \in Before \cup (Late \ {"drain"}) /\ vpc' # "exec"
    BY <1>25 DEF CreateContainer, Goto, v1Run, v1State, v1Session, v1Sandbox, Before, Late
  <2> QED
    BY <2>1, TasksFrame DEF V1Inv, TasksInv
<1>26. CASE PopulateWorkspace
  <2>1. UNCHANGED <<flow, tasks>> /\ vpc \in Before \cup (Late \ {"drain"}) /\ vpc' # "exec"
    BY <1>26 DEF PopulateWorkspace, Goto, v1Run, v1State, v1Session, v1Sandbox, Before, Late
  <2> QED
    BY <2>1, TasksFrame DEF V1Inv, TasksInv
<1>27. CASE SandboxUpFails
  <2>1. UNCHANGED <<flow, tasks>> /\ vpc \in Before \cup (Late \ {"drain"}) /\ vpc' # "exec"
    BY <1>27 DEF SandboxUpFails, Return, Goto, Dropped, v1Run, v1State, v1Session, v1Sandbox, Before, Late
  <2> QED
    BY <2>1, TasksFrame DEF V1Inv, TasksInv
<1>28. CASE WorkflowStarted
  <2>1. UNCHANGED <<flow, tasks>> /\ vpc \in Before \cup (Late \ {"drain"}) /\ vpc' # "exec"
    BY <1>28 DEF WorkflowStarted, Return, Goto, Dropped, Emitted, EmitLost, v1Run, v1State, v1Session,
       v1Sandbox, Before, Late
  <2> QED
    BY <2>1, TasksFrame DEF V1Inv, TasksInv
<1>29. CASE SkipStep
  <2>1. vpc' \in {"loop", "drain", "completed", "failed", "save"}
    BY <1>29 DEF SkipStep, AtStep, LoopFrame
  <2> QED
    BY <2>1 DEF Before, Late, Ended, TasksInv, AwaitedBeforeUse
<1>30. CASE SpawnAsyncStep
  <2>1. vpc' \in {"loop", "drain", "completed", "failed", "save"}
    BY <1>30 DEF SpawnAsyncStep, AtStep, LoopFrame
  <2> QED
    BY <2>1 DEF Before, Late, Ended, TasksInv, AwaitedBeforeUse
<1>31. CASE AwaitDep
  <2>1. vpc' \in {"loop", "drain", "completed", "failed", "save"}
    BY <1>31 DEF AwaitDep, AtStep, LoopFrame, Goto
  <2> QED
    BY <2>1 DEF Before, Late, Ended, TasksInv, AwaitedBeforeUse
<1>32. CASE StepStarted
  <2>1. UNCHANGED <<flow, tasks, pos>> /\ vpc' \in {"exec", "drain"} /\ Scanned(Here) \cap Pending = {}
    BY <1>32 DEF StepStarted, AtStep, LoopFrame, Goto, Emitted, EmitLost, v1Run, v1State, v1Session,
       v1Sandbox, Deps
  <2> QED
    BY <2>1, TasksFrame DEF Before, Late, Ended
<1>33. CASE Execute
  <2>1. vpc' \in {"loop", "drain", "completed", "failed", "save"}
    BY <1>33 DEF Execute, LoopFrame, Goto
  <2> QED
    BY <2>1 DEF Before, Late, Ended, TasksInv, AwaitedBeforeUse
<1>34. CASE StepCompleted
  <2>1. vpc' \in {"loop", "drain", "completed", "failed", "save"}
    BY <1>34 DEF StepCompleted, LoopFrame, Goto, Emitted, EmitLost
  <2> QED
    BY <2>1 DEF Before, Late, Ended, TasksInv, AwaitedBeforeUse
<1>35. CASE StepFailed
  <2>1. vpc' \in {"loop", "drain", "completed", "failed", "save"}
    BY <1>35 DEF StepFailed, LoopFrame, Goto, Emitted, EmitLost, AfterFailure
  <2> QED
    BY <2>1 DEF Before, Late, Ended, TasksInv, AwaitedBeforeUse
<1>36. CASE SaveState
  <2>1. vpc' \in {"loop", "drain", "completed", "failed", "save"}
    BY <1>36 DEF SaveState, Goto
  <2> QED
    BY <2>1 DEF Before, Late, Ended, TasksInv, AwaitedBeforeUse
<1>37. CASE LoopEnds
  <2>1. vpc' \in {"loop", "drain", "completed", "failed", "save"}
    BY <1>37 DEF LoopEnds, LoopFrame, Goto
  <2> QED
    BY <2>1 DEF Before, Late, Ended, TasksInv, AwaitedBeforeUse
<1>38. CASE DrainTask
  <2>1. vpc' \in {"loop", "drain", "completed", "failed", "save"}
    BY <1>38 DEF DrainTask, LoopFrame
  <2> QED
    BY <2>1 DEF Before, Late, Ended, TasksInv, AwaitedBeforeUse
<1>39. CASE Drained
  <2>1. UNCHANGED <<flow, tasks>> /\ vpc' = "down" /\ Pending = {}
    BY <1>39 DEF Drained, LoopFrame, Goto, v1Run, v1State, v1Session, v1Sandbox, Undrained
  <2> QED
    BY <2>1, TasksFrame
<1>40. CASE CopyBackFails
  <2>1. UNCHANGED <<flow, tasks>> /\ vpc \in Before \cup (Late \ {"drain"}) /\ vpc' # "exec"
    BY <1>40 DEF CopyBackFails, Goto, Dropped, v1Run, v1State, v1Session, v1Sandbox, Before, Late
  <2> QED
    BY <2>1, TasksFrame DEF V1Inv, TasksInv
<1>41. CASE Destroy
  <2>1. UNCHANGED <<flow, tasks>> /\ vpc \in Before \cup (Late \ {"drain"}) /\ vpc' # "exec"
    BY <1>41 DEF Destroy, Goto, v1Run, v1State, v1Session, v1Sandbox, Before, Late
  <2> QED
    BY <2>1, TasksFrame DEF V1Inv, TasksInv
<1>42. CASE NoSandboxDown
  <2>1. UNCHANGED <<flow, tasks>> /\ vpc \in Before \cup (Late \ {"drain"}) /\ vpc' # "exec"
    BY <1>42 DEF NoSandboxDown, Goto, v1Run, v1State, v1Session, v1Sandbox, Before, Late
  <2> QED
    BY <2>1, TasksFrame DEF V1Inv, TasksInv
<1>43. CASE WorkflowCompleted
  <2>1. UNCHANGED <<flow, tasks>> /\ vpc \in Before \cup (Late \ {"drain"}) /\ vpc' # "exec"
    BY <1>43 DEF WorkflowCompleted, Return, Goto, Dropped, Emitted, EmitLost, v1Run, v1State, v1Session,
       v1Sandbox, Before, Late
  <2> QED
    BY <2>1, TasksFrame DEF V1Inv, TasksInv
<1>44. CASE FinishSession
  <2>1. UNCHANGED <<flow, tasks>> /\ vpc \in Before \cup (Late \ {"drain"}) /\ vpc' # "exec"
    BY <1>44 DEF FinishSession, Return, Goto, Dropped, v1Run, v1State, v1Session, v1Sandbox, Before, Late
  <2> QED
    BY <2>1, TasksFrame DEF V1Inv, TasksInv
<1>45. CASE V1Tasks
  <2>1. PICK i \in DOMAIN flow : TaskEnds(i)
    BY <1>45 DEF V1Tasks
  <2>2. /\ UNCHANGED <<flow, vpc, pos>> /\ tasks[i] = "running"
        /\ \E end \in {"ok", "failed"} : tasks' = [tasks EXCEPT ![i] = end]
    BY <2>1 DEF TaskEnds, LoopFrame, v1Run
  <2>3. Pending' = Pending
    BY <2>2 DEF Pending, V1Inv, ValueTypes
  <2> QED
    BY <2>2, <2>3 DEF V1Inv, TasksInv, AwaitedBeforeUse, Scanned, Here
<1>46. CASE V1Signal
  <2>1. flow' = flow /\ tasks' = [i \in DOMAIN flow |-> "none"] /\ vpc' # "exec"
    BY <1>46 DEF V1Signal, Return, Goto, Dropped, v1Run, v1State, v1Session, v1Sandbox
  <2>2. Pending' = {}
    BY <2>1 DEF Pending
  <2> QED
    BY <2>1, <2>2 DEF TasksInv, AwaitedBeforeUse
<1>47. CASE V1Crash
  <2>1. flow' = flow /\ tasks' = [i \in DOMAIN flow |-> "none"] /\ vpc' # "exec"
    BY <1>47 DEF V1Crash, Goto, v1Run, v1State, v1Session, v1Sandbox
  <2>2. Pending' = {}
    BY <2>1 DEF Pending
  <2> QED
    BY <2>1, <2>2 DEF TasksInv, AwaitedBeforeUse
<1>48. CASE V1Done
  <2>1. UNCHANGED <<flow, tasks, pos, vpc>>
    BY <1>48 DEF V1Done, v1Vars, v1Run, v1State, v1Session, v1Sandbox
  <2> QED
    BY <2>1, TasksFrame DEF V1Inv, TasksInv, AwaitedBeforeUse
<1>49. CASE UNCHANGED v1Vars
  <2>1. UNCHANGED <<flow, tasks, pos, vpc>>
    BY <1>49 DEF v1Vars, v1Run, v1State, v1Session, v1Sandbox
  <2> QED
    BY <2>1, TasksFrame DEF V1Inv, TasksInv, AwaitedBeforeUse
<1>50. CASE OtherSaves
  <2>1. UNCHANGED <<flow, tasks, pos, vpc>>
    BY <1>50 DEF OtherSaves, v1Run
  <2> QED
    BY <2>1, TasksFrame DEF V1Inv, TasksInv, AwaitedBeforeUse
<1> QED
  BY <1>21, <1>22, <1>23, <1>24, <1>25, <1>26, <1>27, <1>28, <1>29, <1>30, <1>31, <1>32, <1>33, <1>34,
     <1>35, <1>36, <1>37, <1>38, <1>39, <1>40, <1>41, <1>42, <1>43, <1>44, <1>45, <1>46, <1>47, <1>48, <1>49,
     <1>50
  DEF V1Next, V1Runner, V1Setup, V1Loop, V1Teardown

\* What the subscriber does with each event the engine emits.
LEMMA OnEvents ==
    ASSUME BusInv, NEW p
    PROVE  /\ OnEvent(dash, Ev("workflow_started", p)) = dash
           /\ OnEvent(dash, Ev("step_started", p)) = [dash EXCEPT !.pending = @ \cup {p}]
           /\ OnEvent(dash, Ev("step_completed", p)) = Tracked(dash, p, "success")
           /\ OnEvent(dash, Ev("step_failed", p)) = Tracked(dash, p, "failed")
           /\ OnEvent(dash, Ev("workflow_completed", p)) = [dash EXCEPT !.sent = Status(dash)]
BY DEF OnEvent, Ev

\* An event in the log that is not the end of a step changes no report.
LEMMA BusOther ==
    ASSUME BusInv, NEW e \in Event, ~EndsStep(e), vlog' = Append(vlog, e), dash'.steps = dash.steps,
           dash' \in [steps : Seq(Report), pending : SUBSET Nat, sent : {"none", "success", "failed"}]
    PROVE  BusInv'
<1>1. vlog \in Seq(Event) /\ Len(vlog) \in Nat
  BY DEF BusInv
<1>2. /\ vlog' \in Seq(Event) /\ Len(vlog') = Len(vlog) + 1 /\ DOMAIN vlog' = 1..Len(vlog) + 1 /\ vlog'[Len(vlog) + 1] = e
      /\ DOMAIN vlog = 1..Len(vlog) /\ \A j \in 1..Len(vlog) : vlog'[j] = vlog[j]
  BY <1>1
<1>3. \A k \in 1..Len(vlog) : EndsUpTo(vlog', k) = EndsUpTo(vlog, k)
  <2> SUFFICES ASSUME NEW k \in 1..Len(vlog) PROVE EndsUpTo(vlog', k) = EndsUpTo(vlog, k)
    OBVIOUS
  <2>1. {j \in 1..k : EndsStep(vlog'[j])} = {j \in 1..k : EndsStep(vlog[j])}
    BY <1>1, <1>2
  <2> QED
    BY <2>1 DEF EndsUpTo, EndsStep
<1>4. EndsUpTo(vlog', Len(vlog')) = EndsUpTo(vlog, Len(vlog))
  <2>1. {j \in 1..Len(vlog) + 1 : EndsStep(vlog'[j])} = {j \in 1..Len(vlog) : EndsStep(vlog[j])}
    BY <1>1, <1>2
  <2> QED
    BY <1>2, <2>1 DEF EndsUpTo, EndsStep
<1>5. BusFollowsLog'
  <2>1. Len(dash'.steps) = EndsUpTo(vlog', Len(vlog'))
    BY <1>4 DEF BusInv, BusFollowsLog
  <2>2. ASSUME NEW k \in 1..Len(vlog) + 1, EndsStep(vlog'[k])
        PROVE  /\ EndsUpTo(vlog', k) \in DOMAIN dash'.steps /\ dash'.steps[EndsUpTo(vlog', k)].step = vlog'[k].step
               /\ dash'.steps[EndsUpTo(vlog', k)].status = IF vlog'[k].ev = "step_failed" THEN "failed" ELSE "success"
    <3>1. k \in 1..Len(vlog)
      BY <1>1, <1>2, <2>2
    <3> QED
      BY <1>2, <1>3, <2>2, <3>1 DEF BusInv, BusFollowsLog
  <2> QED
    BY <1>2, <2>1, <2>2 DEF BusFollowsLog, EndsStep
<1> QED
  BY <1>2, <1>5 DEF BusInv

\* The end of a step in the log is one more report, and the last.
LEMMA BusEnd ==
    ASSUME BusInv, NEW e \in Event, EndsStep(e), vlog' = Append(vlog, e),
           dash' = Tracked(dash, e.step, IF e.ev = "step_failed" THEN "failed" ELSE "success")
    PROVE  BusInv'
<1> DEFINE r == [step |-> e.step, status |-> IF e.ev = "step_failed" THEN "failed" ELSE "success"]
<1>1. vlog \in Seq(Event) /\ Len(vlog) \in Nat /\ dash.steps \in Seq(Report) /\ Len(dash.steps) \in Nat /\ r \in Report
  BY DEF BusInv, Event, Report
<1>2. /\ vlog' \in Seq(Event) /\ Len(vlog') = Len(vlog) + 1 /\ DOMAIN vlog' = 1..Len(vlog) + 1 /\ vlog'[Len(vlog) + 1] = e
      /\ DOMAIN vlog = 1..Len(vlog) /\ \A j \in 1..Len(vlog) : vlog'[j] = vlog[j]
  BY <1>1
<1>3. /\ dash'.steps = Append(dash.steps, r)
      /\ dash' \in [steps : Seq(Report), pending : SUBSET Nat, sent : {"none", "success", "failed"}]
  <2>1. dash' = [dash EXCEPT !.pending = @ \ {e.step}, !.steps = Append(@, r)]
    BY DEF Tracked
  <2>2. Append(dash.steps, r) \in Seq(Report)
    BY <1>1
  <2> HIDE DEF r
  <2> QED
    BY <2>1, <2>2 DEF BusInv
<1>4. /\ DOMAIN dash'.steps = 1..Len(dash.steps) + 1 /\ dash'.steps[Len(dash.steps) + 1] = r
      /\ Len(dash'.steps) = Len(dash.steps) + 1
      /\ \A j \in 1..Len(dash.steps) : dash'.steps[j] = dash.steps[j]
  <2> DEFINE after == dash'.steps
  <2>1. after = Append(dash.steps, r)
    BY <1>3
  <2> HIDE DEF r, after
  <2>2. /\ DOMAIN after = 1..Len(dash.steps) + 1 /\ after[Len(dash.steps) + 1] = r /\ Len(after) = Len(dash.steps) + 1
        /\ \A j \in 1..Len(dash.steps) : after[j] = dash.steps[j]
    BY <1>1, <2>1, Appended
  <2> QED
    BY <2>2 DEF after
<1>5. \A k \in 1..Len(vlog) : EndsUpTo(vlog', k) = EndsUpTo(vlog, k)
  <2> SUFFICES ASSUME NEW k \in 1..Len(vlog) PROVE EndsUpTo(vlog', k) = EndsUpTo(vlog, k)
    OBVIOUS
  <2>1. {j \in 1..k : EndsStep(vlog'[j])} = {j \in 1..k : EndsStep(vlog[j])}
    BY <1>1, <1>2
  <2> QED
    BY <2>1 DEF EndsUpTo, EndsStep
<1>6. EndsUpTo(vlog', Len(vlog) + 1) = EndsUpTo(vlog, Len(vlog)) + 1
  <2> DEFINE S == {j \in 1..Len(vlog) : EndsStep(vlog[j])}
             n == Len(vlog) + 1
  <2>1. {j \in 1..n : EndsStep(vlog'[j])} = S \cup {n} /\ n \notin S
    BY <1>1, <1>2
  <2>2. IsFiniteSet(S)
    <3>1. IsFiniteSet(1..Len(vlog))
      BY <1>1, FS_Interval
    <3> QED
      BY <3>1, FS_Subset
  <2>3. Cardinality(S \cup {n}) = Cardinality(S) + 1
    <3> HIDE DEF S, n
    <3> QED
      BY <2>1, <2>2, FS_AddElement
  <2>4. EndsUpTo(vlog, Len(vlog)) = Cardinality(S) /\ EndsUpTo(vlog', Len(vlog) + 1) = Cardinality({j \in 1..n : EndsStep(vlog'[j])})
    BY <1>2 DEF EndsUpTo, EndsStep
  <2> QED
    BY <2>1, <2>3, <2>4
<1>7. BusFollowsLog'
  <2>1. Len(dash'.steps) = EndsUpTo(vlog', Len(vlog'))
    BY <1>2, <1>4, <1>6 DEF BusInv, BusFollowsLog
  <2>2. ASSUME NEW k \in 1..Len(vlog) + 1, EndsStep(vlog'[k])
        PROVE  /\ EndsUpTo(vlog', k) \in DOMAIN dash'.steps /\ dash'.steps[EndsUpTo(vlog', k)].step = vlog'[k].step
               /\ dash'.steps[EndsUpTo(vlog', k)].status = IF vlog'[k].ev = "step_failed" THEN "failed" ELSE "success"
    <3>1. CASE k \in 1..Len(vlog)
      <4>1. EndsUpTo(vlog', k) = EndsUpTo(vlog, k) /\ vlog'[k] = vlog[k]
        BY <1>2, <1>5, <3>1
      <4>2. EndsUpTo(vlog, k) \in DOMAIN dash.steps
        BY <1>2, <2>2, <3>1, <4>1 DEF BusInv, BusFollowsLog
      <4>3. EndsUpTo(vlog, k) \in 1..Len(dash.steps) /\ EndsUpTo(vlog, k) \in 1..Len(dash.steps) + 1
        BY <1>1, <4>2
      <4> QED
        BY <1>2, <1>4, <2>2, <3>1, <4>1, <4>3 DEF BusInv, BusFollowsLog
    <3>2. CASE k = Len(vlog) + 1
      <4>1. EndsUpTo(vlog', k) = Len(dash.steps) + 1 /\ vlog'[k] = e
        BY <1>2, <1>6, <3>2 DEF BusInv, BusFollowsLog
      <4>2. Len(dash.steps) + 1 \in 1..Len(dash.steps) + 1
        BY <1>1
      <4> QED
        BY <1>4, <4>1, <4>2
    <3> QED
      BY <1>1, <3>1, <3>2
  <2> QED
    BY <1>2, <2>1, <2>2 DEF BusFollowsLog, EndsStep
<1> QED
  BY <1>2, <1>3, <1>7 DEF BusInv

\* Every action keeps the reports of the dashboard in step with the log.
LEMMA BusStep == V1Inv /\ [V1Next]_v1Vars => BusInv'
<1> SUFFICES ASSUME V1Inv, [V1Next]_v1Vars PROVE BusInv'
  OBVIOUS
<1>1. ASSUME UNCHANGED <<vlog, dash>> PROVE BusInv'
  BY <1>1 DEF V1Inv, BusInv, BusFollowsLog, EndsUpTo, EndsStep
<1>2. BusInv /\ pos \in Nat
  BY FlowType DEF V1Inv, PlaceTypes
<1>21. CASE V1Launch
  <2>1. vlog' = << >> /\ dash' = NoTracking
    BY <1>21 DEF V1Launch
  <2>2. EndsUpTo(vlog', 0) = 0
    <3>1. {j \in 1..0 : EndsStep(vlog'[j])} = {}
      OBVIOUS
    <3> QED
      BY <3>1, FS_EmptySet DEF EndsUpTo, EndsStep
  <2>3. BusFollowsLog'
    BY <2>1, <2>2 DEF BusFollowsLog, NoTracking
  <2> QED
    BY <2>1, <2>3 DEF BusInv, NoTracking
<1>22. CASE ResumeRefused
  <2>1. UNCHANGED <<vlog, dash>>
    BY <1>22 DEF ResumeRefused, Return, Goto, Dropped, v1Run, v1State, v1Session, v1Sandbox
  <2> QED
    BY <2>1, <1>1
<1>23. CASE ResumeSetup
  <2>1. UNCHANGED <<vlog, dash>>
    BY <1>23 DEF ResumeSetup, Goto, Resumable, FindLatest, v1Run, v1State, v1Session, v1Sandbox
  <2> QED
    BY <2>1, <1>1
<1>24. CASE StartProxy
  <2>1. UNCHANGED <<vlog, dash>>
    BY <1>24 DEF StartProxy, Goto, v1Run, v1State, v1Session, v1Sandbox
  <2> QED
    BY <2>1, <1>1
<1>25. CASE CreateContainer
  <2>1. UNCHANGED <<vlog, dash>>
    BY <1>25 DEF CreateContainer, Goto, v1Run, v1State, v1Session, v1Sandbox
  <2> QED
    BY <2>1, <1>1
<1>26. CASE PopulateWorkspace
  <2>1. UNCHANGED <<vlog, dash>>
    BY <1>26 DEF PopulateWorkspace, Goto, v1Run, v1State, v1Session, v1Sandbox
  <2> QED
    BY <2>1, <1>1
<1>27. CASE SandboxUpFails
  <2>1. UNCHANGED <<vlog, dash>>
    BY <1>27 DEF SandboxUpFails, Return, Goto, Dropped, v1Run, v1State, v1Session, v1Sandbox
  <2> QED
    BY <2>1, <1>1
<1>28. CASE WorkflowStarted
  <2>1. CASE Emitted(Ev("workflow_started", 0))
    <3> DEFINE e == Ev("workflow_started", 0)
    <3>1. vlog' = Append(vlog, e) /\ dash' = OnEvent(dash, e)
      BY <2>1 DEF Emitted
    <3>2. e \in Event /\ ~EndsStep(e)
      BY <1>2 DEF Ev, Event, EndsStep
    <3>3. /\ dash' \in [steps : Seq(Report), pending : SUBSET Nat, sent : {"none", "success", "failed"}]
          /\ dash'.steps = dash.steps
      BY <1>2, <3>1, OnEvents DEF BusInv, Status
    <3> HIDE DEF e
    <3> QED
      BY <1>2, <3>1, <3>2, <3>3, BusOther
  <2>2. CASE EmitLost(Ev("workflow_started", 0))
    BY <1>1, <2>2 DEF EmitLost, v1Session
  <2> QED
    BY <1>28, <2>1, <2>2 DEF WorkflowStarted
<1>29. CASE SkipStep
  <2>1. UNCHANGED <<vlog, dash>>
    BY <1>29 DEF SkipStep, AtStep, LoopFrame, v1Run, v1State, v1Session, v1Sandbox
  <2> QED
    BY <2>1, <1>1
<1>30. CASE SpawnAsyncStep
  <2>1. UNCHANGED <<vlog, dash>>
    BY <1>30 DEF SpawnAsyncStep, AtStep, LoopFrame, v1Run, v1State, v1Session, v1Sandbox
  <2> QED
    BY <2>1, <1>1
<1>31. CASE AwaitDep
  <2>1. UNCHANGED <<vlog, dash>>
    BY <1>31 DEF AwaitDep, AtStep, LoopFrame, Goto, v1Run, v1State, v1Session, v1Sandbox
  <2> QED
    BY <2>1, <1>1
<1>32. CASE StepStarted
  <2>1. CASE Emitted(Ev("step_started", pos))
    <3> DEFINE e == Ev("step_started", pos)
    <3>1. vlog' = Append(vlog, e) /\ dash' = OnEvent(dash, e)
      BY <2>1 DEF Emitted
    <3>2. e \in Event /\ ~EndsStep(e)
      BY <1>2 DEF Ev, Event, EndsStep
    <3>3. /\ dash' \in [steps : Seq(Report), pending : SUBSET Nat, sent : {"none", "success", "failed"}]
          /\ dash'.steps = dash.steps
      BY <1>2, <3>1, OnEvents DEF BusInv, Status
    <3> HIDE DEF e
    <3> QED
      BY <1>2, <3>1, <3>2, <3>3, BusOther
  <2>2. CASE EmitLost(Ev("step_started", pos))
    BY <1>1, <2>2 DEF EmitLost, v1Session
  <2> QED
    BY <1>32, <2>1, <2>2 DEF StepStarted
<1>33. CASE Execute
  <2>1. UNCHANGED <<vlog, dash>>
    BY <1>33 DEF Execute, LoopFrame, Goto, v1Run, v1State, v1Session, v1Sandbox
  <2> QED
    BY <2>1, <1>1
<1>34. CASE StepCompleted
  <2>1. CASE Emitted(Ev("step_completed", pos))
    <3> DEFINE e == Ev("step_completed", pos)
    <3>1. vlog' = Append(vlog, e) /\ dash' = OnEvent(dash, e)
      BY <2>1 DEF Emitted
    <3>2. e \in Event /\ EndsStep(e) /\ dash' = Tracked(dash, e.step, IF e.ev = "step_failed" THEN "failed" ELSE "success")
      BY <1>2, <3>1, OnEvents DEF Ev, Event, EndsStep
    <3> HIDE DEF e
    <3> QED
      BY <1>2, <3>1, <3>2, BusEnd
  <2>2. CASE EmitLost(Ev("step_completed", pos))
    BY <1>1, <2>2 DEF EmitLost, v1Session
  <2> QED
    BY <1>34, <2>1, <2>2 DEF StepCompleted
<1>35. CASE StepFailed
  <2>1. CASE Emitted(Ev("step_failed", pos))
    <3> DEFINE e == Ev("step_failed", pos)
    <3>1. vlog' = Append(vlog, e) /\ dash' = OnEvent(dash, e)
      BY <2>1 DEF Emitted
    <3>2. e \in Event /\ EndsStep(e) /\ dash' = Tracked(dash, e.step, IF e.ev = "step_failed" THEN "failed" ELSE "success")
      BY <1>2, <3>1, OnEvents DEF Ev, Event, EndsStep
    <3> HIDE DEF e
    <3> QED
      BY <1>2, <3>1, <3>2, BusEnd
  <2>2. CASE EmitLost(Ev("step_failed", pos))
    BY <1>1, <2>2 DEF EmitLost, v1Session
  <2> QED
    BY <1>35, <2>1, <2>2 DEF StepFailed
<1>36. CASE SaveState
  <2>1. UNCHANGED <<vlog, dash>>
    BY <1>36 DEF SaveState, Goto, v1Run, v1State, v1Session, v1Sandbox
  <2> QED
    BY <2>1, <1>1
<1>37. CASE LoopEnds
  <2>1. UNCHANGED <<vlog, dash>>
    BY <1>37 DEF LoopEnds, LoopFrame, Goto, v1Run, v1State, v1Session, v1Sandbox
  <2> QED
    BY <2>1, <1>1
<1>38. CASE DrainTask
  <2>1. UNCHANGED <<vlog, dash>>
    BY <1>38 DEF DrainTask, LoopFrame, v1Run, v1State, v1Session, v1Sandbox
  <2> QED
    BY <2>1, <1>1
<1>39. CASE Drained
  <2>1. UNCHANGED <<vlog, dash>>
    BY <1>39 DEF Drained, LoopFrame, Goto, v1Run, v1State, v1Session, v1Sandbox
  <2> QED
    BY <2>1, <1>1
<1>40. CASE CopyBackFails
  <2>1. UNCHANGED <<vlog, dash>>
    BY <1>40 DEF CopyBackFails, Goto, Dropped, v1Run, v1State, v1Session, v1Sandbox
  <2> QED
    BY <2>1, <1>1
<1>41. CASE Destroy
  <2>1. UNCHANGED <<vlog, dash>>
    BY <1>41 DEF Destroy, Goto, v1Run, v1State, v1Session, v1Sandbox
  <2> QED
    BY <2>1, <1>1
<1>42. CASE NoSandboxDown
  <2>1. UNCHANGED <<vlog, dash>>
    BY <1>42 DEF NoSandboxDown, Goto, v1Run, v1State, v1Session, v1Sandbox
  <2> QED
    BY <2>1, <1>1
<1>43. CASE WorkflowCompleted
  <2>1. CASE Emitted(Ev("workflow_completed", 0))
    <3> DEFINE e == Ev("workflow_completed", 0)
    <3>1. vlog' = Append(vlog, e) /\ dash' = OnEvent(dash, e)
      BY <2>1 DEF Emitted
    <3>2. e \in Event /\ ~EndsStep(e)
      BY <1>2 DEF Ev, Event, EndsStep
    <3>3. /\ dash' \in [steps : Seq(Report), pending : SUBSET Nat, sent : {"none", "success", "failed"}]
          /\ dash'.steps = dash.steps
      BY <1>2, <3>1, OnEvents DEF BusInv, Status
    <3> HIDE DEF e
    <3> QED
      BY <1>2, <3>1, <3>2, <3>3, BusOther
  <2>2. CASE EmitLost(Ev("workflow_completed", 0))
    BY <1>1, <2>2 DEF EmitLost, v1Session
  <2> QED
    BY <1>43, <2>1, <2>2 DEF WorkflowCompleted
<1>44. CASE FinishSession
  <2>1. UNCHANGED <<vlog, dash>>
    BY <1>44 DEF FinishSession, Return, Goto, Dropped, v1Run, v1State, v1Session, v1Sandbox
  <2> QED
    BY <2>1, <1>1
<1>45. CASE V1Tasks
  <2>1. UNCHANGED <<vlog, dash>>
    BY <1>45 DEF V1Tasks, TaskEnds, LoopFrame, v1Run, v1State, v1Session, v1Sandbox
  <2> QED
    BY <2>1, <1>1
<1>46. CASE V1Signal
  <2>1. UNCHANGED <<vlog, dash>>
    BY <1>46 DEF V1Signal, Return, Goto, Dropped, v1Run, v1State, v1Session, v1Sandbox
  <2> QED
    BY <2>1, <1>1
<1>47. CASE V1Crash
  <2>1. UNCHANGED <<vlog, dash>>
    BY <1>47 DEF V1Crash, Goto, v1Run, v1State, v1Session, v1Sandbox
  <2> QED
    BY <2>1, <1>1
<1>48. CASE V1Done
  <2>1. UNCHANGED <<vlog, dash>>
    BY <1>48 DEF V1Done, v1Vars, v1Run, v1State, v1Session, v1Sandbox
  <2> QED
    BY <2>1, <1>1
<1>49. CASE UNCHANGED v1Vars
  <2>1. UNCHANGED <<vlog, dash>>
    BY <1>49 DEF v1Vars, v1Run, v1State, v1Session, v1Sandbox
  <2> QED
    BY <2>1, <1>1
<1>50. CASE OtherSaves
  <2>1. UNCHANGED <<vlog, dash>>
    BY <1>50 DEF OtherSaves, v1Session
  <2> QED
    BY <2>1, <1>1
<1> QED
  BY <1>21, <1>22, <1>23, <1>24, <1>25, <1>26, <1>27, <1>28, <1>29, <1>30, <1>31, <1>32, <1>33, <1>34,
     <1>35, <1>36, <1>37, <1>38, <1>39, <1>40, <1>41, <1>42, <1>43, <1>44, <1>45, <1>46, <1>47, <1>48, <1>49,
     <1>50
  DEF V1Next, V1Runner, V1Setup, V1Loop, V1Teardown

\* Without an event only the place of run() and its result matter.
LEMMA FaultFrame ==
    ASSUME V1Inv, UNCHANGED <<vlog, dash, vrow>>,
           vpc \in Late \cup Ended => vpc' \in Late \cup Ended /\ (fault = TRUE => fault' = TRUE),
           vpc \in {"session"} \cup Ended => vpc' \in {"session"} \cup Ended,
           vpc = "returned" => vpc' = "returned" /\ fault' = fault
    PROVE  FaultInv'
BY DEF V1Inv, FaultInv, Late, Ended

\* Before an error nothing has failed.
LEMMA NothingFailed ==
    ASSUME V1Inv, vpc \notin Late \cup Ended
    PROVE  /\ \A k \in DOMAIN vlog : vlog[k].ev # "step_failed"
           /\ \A k \in DOMAIN dash.steps : dash.steps[k].status # "failed"
           /\ dash.sent # "failed" /\ vrow # "completed"
BY DEF V1Inv, FaultInv, Late, Ended

\* Every action keeps a failed step behind a failing run.
LEMMA FaultStep == V1Inv /\ [V1Next]_v1Vars => FaultInv'
<1> SUFFICES ASSUME V1Inv, [V1Next]_v1Vars PROVE FaultInv'
  OBVIOUS
<1>1. BusInv /\ vlog \in Seq(Event) /\ dash.steps \in Seq(Report) /\ pos \in Nat
  BY FlowType DEF V1Inv, BusInv, PlaceTypes
<1>21. CASE V1Launch
  <2>1. vlog' = << >> /\ dash' = NoTracking /\ vrow' = "running"
    BY <1>21 DEF V1Launch
  <2> QED
    BY <2>1 DEF FaultInv, NoTracking
<1>22. CASE ResumeRefused
  <2>1. UNCHANGED <<vlog, dash, vrow>> /\ vpc \notin Late \cup Ended
    BY <1>22 DEF ResumeRefused, Return, Goto, Dropped, v1Run, v1State, v1Session, v1Sandbox, Late, Ended
  <2> QED
    BY <2>1, FaultFrame DEF Late, Ended
<1>23. CASE ResumeSetup
  <2>1. UNCHANGED <<vlog, dash, vrow>> /\ vpc \notin Late \cup Ended
    BY <1>23 DEF ResumeSetup, Goto, Resumable, FindLatest, v1Run, v1State, v1Session, v1Sandbox, Late, Ended
  <2> QED
    BY <2>1, FaultFrame DEF Late, Ended
<1>24. CASE StartProxy
  <2>1. UNCHANGED <<vlog, dash, vrow>> /\ vpc \notin Late \cup Ended
    BY <1>24 DEF StartProxy, Goto, v1Run, v1State, v1Session, v1Sandbox, Late, Ended
  <2> QED
    BY <2>1, FaultFrame DEF Late, Ended
<1>25. CASE CreateContainer
  <2>1. UNCHANGED <<vlog, dash, vrow>> /\ vpc \notin Late \cup Ended
    BY <1>25 DEF CreateContainer, Goto, v1Run, v1State, v1Session, v1Sandbox, Late, Ended
  <2> QED
    BY <2>1, FaultFrame DEF Late, Ended
<1>26. CASE PopulateWorkspace
  <2>1. UNCHANGED <<vlog, dash, vrow>> /\ vpc \notin Late \cup Ended
    BY <1>26 DEF PopulateWorkspace, Goto, v1Run, v1State, v1Session, v1Sandbox, Late, Ended
  <2> QED
    BY <2>1, FaultFrame DEF Late, Ended
<1>27. CASE SandboxUpFails
  <2>1. UNCHANGED <<vlog, dash, vrow>> /\ vpc \notin Late \cup Ended
    BY <1>27 DEF SandboxUpFails, Return, Goto, Dropped, v1Run, v1State, v1Session, v1Sandbox, Late, Ended
  <2> QED
    BY <2>1, FaultFrame DEF Late, Ended
<1>28. CASE WorkflowStarted
  <2>1. vpc \notin Late \cup Ended
    BY <1>28 DEF WorkflowStarted, Return, Goto, Dropped, Emitted, EmitLost, Late, Ended
  <2>2. CASE Emitted(Ev("workflow_started", 0))
    <3>1. vlog' = Append(vlog, Ev("workflow_started", 0)) /\ dash' = OnEvent(dash, Ev("workflow_started", 0)) /\ vrow' = vrow
      BY <2>2 DEF Emitted
    <3>2. \A k \in DOMAIN vlog' : vlog'[k].ev # "step_failed"
      <4>1. Ev("workflow_started", 0) \in Event /\ Ev("workflow_started", 0).ev # "step_failed"
        BY <1>1 DEF Ev, Event
      <4> QED
        BY <1>1, <2>1, <3>1, <4>1, Appended, NothingFailed
    <3>3. (\A k \in DOMAIN dash'.steps : dash'.steps[k].status # "failed") /\ dash'.sent # "failed"
      BY <1>1, <2>1, <3>1, OnEvents, NothingFailed
    <3> QED
      BY <2>1, <3>1, <3>2, <3>3, NothingFailed DEF FaultInv
  <2>3. CASE EmitLost(Ev("workflow_started", 0))
    BY <2>1, <2>3, FaultFrame DEF EmitLost, v1Session, Ended, Late
  <2> QED
    BY <1>28, <2>2, <2>3 DEF WorkflowStarted
<1>29. CASE SkipStep
  <2>1. UNCHANGED <<vlog, dash, vrow>> /\ vpc \notin Late \cup Ended
    BY <1>29 DEF SkipStep, AtStep, LoopFrame, v1Run, v1State, v1Session, v1Sandbox, Late, Ended
  <2> QED
    BY <2>1, FaultFrame DEF Late, Ended
<1>30. CASE SpawnAsyncStep
  <2>1. UNCHANGED <<vlog, dash, vrow>> /\ vpc \notin Late \cup Ended
    BY <1>30 DEF SpawnAsyncStep, AtStep, LoopFrame, v1Run, v1State, v1Session, v1Sandbox, Late, Ended
  <2> QED
    BY <2>1, FaultFrame DEF Late, Ended
<1>31. CASE AwaitDep
  <2>1. UNCHANGED <<vlog, dash, vrow>> /\ vpc \notin Late \cup Ended
    BY <1>31 DEF AwaitDep, AtStep, LoopFrame, Goto, v1Run, v1State, v1Session, v1Sandbox, Late, Ended
  <2> QED
    BY <2>1, FaultFrame DEF Late, Ended
<1>32. CASE StepStarted
  <2>1. vpc \notin Late \cup Ended
    BY <1>32 DEF StepStarted, AtStep, LoopFrame, Goto, Emitted, EmitLost, Late, Ended
  <2>2. CASE Emitted(Ev("step_started", pos))
    <3>1. vlog' = Append(vlog, Ev("step_started", pos)) /\ dash' = OnEvent(dash, Ev("step_started", pos)) /\ vrow' = vrow
      BY <2>2 DEF Emitted
    <3>2. \A k \in DOMAIN vlog' : vlog'[k].ev # "step_failed"
      <4>1. Ev("step_started", pos) \in Event /\ Ev("step_started", pos).ev # "step_failed"
        BY <1>1 DEF Ev, Event
      <4> QED
        BY <1>1, <2>1, <3>1, <4>1, Appended, NothingFailed
    <3>3. (\A k \in DOMAIN dash'.steps : dash'.steps[k].status # "failed") /\ dash'.sent # "failed"
      BY <1>1, <2>1, <3>1, OnEvents, NothingFailed DEF BusInv
    <3> QED
      BY <2>1, <3>1, <3>2, <3>3, NothingFailed DEF FaultInv
  <2>3. CASE EmitLost(Ev("step_started", pos))
    BY <2>1, <2>3, FaultFrame DEF EmitLost, v1Session, Ended, Late
  <2> QED
    BY <1>32, <2>2, <2>3 DEF StepStarted
<1>33. CASE Execute
  <2>1. UNCHANGED <<vlog, dash, vrow>> /\ vpc \notin Late \cup Ended
    BY <1>33 DEF Execute, LoopFrame, Goto, v1Run, v1State, v1Session, v1Sandbox, Late, Ended
  <2> QED
    BY <2>1, FaultFrame DEF Late, Ended
<1>34. CASE StepCompleted
  <2>1. vpc \notin Late \cup Ended
    BY <1>34 DEF StepCompleted, LoopFrame, Goto, Emitted, EmitLost, Late, Ended
  <2>2. CASE Emitted(Ev("step_completed", pos))
    <3>1. vlog' = Append(vlog, Ev("step_completed", pos)) /\ dash' = OnEvent(dash, Ev("step_completed", pos)) /\ vrow' = vrow
      BY <2>2 DEF Emitted
    <3>2. \A k \in DOMAIN vlog' : vlog'[k].ev # "step_failed"
      <4>1. Ev("step_completed", pos) \in Event /\ Ev("step_completed", pos).ev # "step_failed"
        BY <1>1 DEF Ev, Event
      <4> QED
        BY <1>1, <2>1, <3>1, <4>1, Appended, NothingFailed
    <3>3. (\A k \in DOMAIN dash'.steps : dash'.steps[k].status # "failed") /\ dash'.sent # "failed"
      <4>1. dash'.steps = Append(dash.steps, [step |-> pos, status |-> "success"]) /\ dash'.sent = dash.sent
        <5>1. dash' = [dash EXCEPT !.pending = @ \ {pos}, !.steps = Append(@, [step |-> pos, status |-> "success"])]
          BY <1>1, <3>1, OnEvents DEF Tracked
        <5>2. Append(dash.steps, [step |-> pos, status |-> "success"]) \in Seq(Report)
          BY <1>1 DEF Report
        <5> QED
          BY <1>1, <5>1, <5>2 DEF BusInv
      <4>2. [step |-> pos, status |-> "success"] \in Report
        BY <1>1 DEF Report
      <4> QED
        BY <1>1, <2>1, <4>1, <4>2, Appended, NothingFailed
    <3> QED
      BY <2>1, <3>1, <3>2, <3>3, NothingFailed DEF FaultInv
  <2>3. CASE EmitLost(Ev("step_completed", pos))
    BY <2>1, <2>3, FaultFrame DEF EmitLost, v1Session, Ended, Late
  <2> QED
    BY <1>34, <2>2, <2>3 DEF StepCompleted
<1>35. CASE StepFailed
  <2>1. vpc \notin Late \cup Ended /\ fault' = TRUE /\ vpc' = "drain" /\ vrow' = vrow
    BY <1>35 DEF StepFailed, AfterFailure, Emitted, EmitLost, v1Session, Goto, Late, Ended
  <2>2. dash'.sent = dash.sent
    <3>1. CASE Emitted(Ev("step_failed", pos))
      BY <1>1, <3>1, OnEvents DEF Emitted, BusInv, Tracked
    <3>2. CASE EmitLost(Ev("step_failed", pos))
      BY <3>2 DEF EmitLost, v1Session
    <3> QED
      BY <1>35, <3>1, <3>2 DEF StepFailed
  <2> QED
    BY <2>1, <2>2, NothingFailed DEF FaultInv, Late
<1>36. CASE SaveState
  <2>1. UNCHANGED <<vlog, dash, vrow>> /\ vpc \notin Late \cup Ended
    BY <1>36 DEF SaveState, Goto, v1Run, v1State, v1Session, v1Sandbox, Late, Ended
  <2> QED
    BY <2>1, FaultFrame DEF Late, Ended
<1>37. CASE LoopEnds
  <2>1. UNCHANGED <<vlog, dash, vrow>> /\ vpc \notin Late \cup Ended
    BY <1>37 DEF LoopEnds, LoopFrame, Goto, v1Run, v1State, v1Session, v1Sandbox, Late, Ended
  <2> QED
    BY <2>1, FaultFrame DEF Late, Ended
<1>38. CASE DrainTask
  <2>1. UNCHANGED <<vlog, dash, vrow, fault>> /\ vpc \in Late \ {"session"} /\ vpc' \in Late
    BY <1>38 DEF DrainTask, LoopFrame, v1Run, v1State, v1Session, v1Sandbox, Late
  <2> QED
    BY <2>1, FaultFrame DEF Late, Ended
<1>39. CASE Drained
  <2>1. UNCHANGED <<vlog, dash, vrow, fault>> /\ vpc \in Late \ {"session"} /\ vpc' \in Late
    BY <1>39 DEF Drained, LoopFrame, Goto, v1Run, v1State, v1Session, v1Sandbox, Late
  <2> QED
    BY <2>1, FaultFrame DEF Late, Ended
<1>40. CASE CopyBackFails
  <2>1. UNCHANGED <<vlog, dash, vrow, fault>> /\ vpc \in Late \ {"session"} /\ vpc' \in Late
    BY <1>40 DEF CopyBackFails, Goto, Dropped, v1Run, v1State, v1Session, v1Sandbox, Late
  <2> QED
    BY <2>1, FaultFrame DEF Late, Ended
<1>41. CASE Destroy
  <2>1. UNCHANGED <<vlog, dash, vrow, fault>> /\ vpc \in Late \ {"session"} /\ vpc' \in Late
    BY <1>41 DEF Destroy, Goto, v1Run, v1State, v1Session, v1Sandbox, Late
  <2> QED
    BY <2>1, FaultFrame DEF Late, Ended
<1>42. CASE NoSandboxDown
  <2>1. UNCHANGED <<vlog, dash, vrow, fault>> /\ vpc \in Late \ {"session"} /\ vpc' \in Late
    BY <1>42 DEF NoSandboxDown, Goto, v1Run, v1State, v1Session, v1Sandbox, Late
  <2> QED
    BY <2>1, FaultFrame DEF Late, Ended
<1>43. CASE WorkflowCompleted
  <2>1. vpc = "closing" /\ vrow # "completed" /\ vrow' = vrow /\ dash.sent # "failed"
    BY <1>43 DEF WorkflowCompleted, Emitted, EmitLost, v1Session, V1Inv, FaultInv, Ended
  <2>2. CASE Emitted(Ev("workflow_completed", 0)) /\ vpc' = "session" /\ fault' = fault
    <3>1. vlog' = Append(vlog, Ev("workflow_completed", 0)) /\ dash' = [dash EXCEPT !.sent = Status(dash)]
      BY <1>1, <2>2, OnEvents DEF Emitted
    <3>2. dash'.steps = dash.steps /\ dash'.sent = Status(dash)
      BY <1>1, <3>1 DEF BusInv
    <3>3. (\E k \in DOMAIN vlog' : vlog'[k].ev = "step_failed") => \E k \in DOMAIN vlog : vlog[k].ev = "step_failed"
      <4>1. Ev("workflow_completed", 0) \in Event /\ Ev("workflow_completed", 0).ev # "step_failed"
        BY DEF Ev, Event
      <4> QED
        BY <1>1, <3>1, <4>1, Appended
    <3>4. dash'.sent = "failed" => \E k \in DOMAIN dash.steps : dash.steps[k].status = "failed"
      BY <3>2 DEF Status
    <3> QED
      BY <2>1, <2>2, <3>2, <3>3, <3>4 DEF V1Inv, FaultInv, Late
  <2>3. CASE EmitLost(Ev("workflow_completed", 0)) /\ vpc' = "returned" /\ fault' = TRUE
    BY <2>1, <2>3, FaultFrame DEF EmitLost, v1Session, Ended, Late
  <2> QED
    BY <1>43, <2>2, <2>3 DEF WorkflowCompleted, Goto, Return
<1>44. CASE FinishSession
  <2>1. vpc = "session" /\ vpc' = "returned" /\ fault' = fault /\ UNCHANGED <<vlog, dash>>
    BY <1>44 DEF FinishSession, Return, Goto
  <2>2. vrow' = "completed" => fault = FALSE
    <3>1. fault \in BOOLEAN
      BY DEF V1Inv, ValueTypes
    <3> QED
      BY <1>44, <3>1 DEF FinishSession
  <2> QED
    BY <2>1, <2>2 DEF V1Inv, FaultInv, Late, Ended
<1>45. CASE V1Tasks
  <2>1. UNCHANGED <<vlog, dash, vrow, vpc, fault>>
    BY <1>45 DEF V1Tasks, TaskEnds, LoopFrame, v1Run, v1State, v1Session, v1Sandbox
  <2> QED
    BY <2>1, FaultFrame
<1>46. CASE V1Signal
  <2>1. UNCHANGED <<vlog, dash, vrow>> /\ (fault' = TRUE \/ fault' = fault) /\ vpc \notin Ended /\ vpc' \in Ended
    BY <1>46 DEF V1Signal, Return, Goto, Dropped, v1Run, v1State, v1Session, v1Sandbox, Ended
  <2> QED
    BY <2>1, FaultFrame DEF Late, Ended
<1>47. CASE V1Crash
  <2>1. UNCHANGED <<vlog, dash, vrow>> /\ (fault' = TRUE \/ fault' = fault) /\ vpc \notin Ended /\ vpc' \in Ended
    BY <1>47 DEF V1Crash, Goto, v1Run, v1State, v1Session, v1Sandbox, Ended
  <2> QED
    BY <2>1, FaultFrame DEF Late, Ended
<1>48. CASE V1Done
  <2>1. UNCHANGED <<vlog, dash, vrow, vpc, fault>>
    BY <1>48 DEF V1Done, v1Vars, v1Run, v1State, v1Session, v1Sandbox
  <2> QED
    BY <2>1, FaultFrame
<1>49. CASE UNCHANGED v1Vars
  <2>1. UNCHANGED <<vlog, dash, vrow, vpc, fault>>
    BY <1>49 DEF v1Vars, v1Run, v1State, v1Session, v1Sandbox
  <2> QED
    BY <2>1, FaultFrame
<1>50. CASE OtherSaves
  <2>1. UNCHANGED <<vlog, dash, vrow, vpc, fault>>
    BY <1>50 DEF OtherSaves, v1Session
  <2> QED
    BY <2>1, FaultFrame
<1> QED
  BY <1>21, <1>22, <1>23, <1>24, <1>25, <1>26, <1>27, <1>28, <1>29, <1>30, <1>31, <1>32, <1>33, <1>34,
     <1>35, <1>36, <1>37, <1>38, <1>39, <1>40, <1>41, <1>42, <1>43, <1>44, <1>45, <1>46, <1>47, <1>48, <1>49,
     <1>50
  DEF V1Next, V1Runner, V1Setup, V1Loop, V1Teardown

\* Without an event only the place of run() matters to what the dashboard has been told.
LEMMA SentFrame ==
    ASSUME V1Inv, UNCHANGED <<dash, vrow>>, vpc' = "session" => vpc = "session",
           vpc \in {"session"} \cup Ended => vpc' \in {"session"} \cup Ended
    PROVE  SentInv'
BY DEF V1Inv, SentInv, Status

\* Before the end of the run the dashboard is told nothing, and an event of a step does not change that.
LEMMA NotSent ==
    ASSUME V1Inv, vpc \notin {"session"} \cup Ended, vpc' # "session", dash'.sent = dash.sent, vrow' = vrow
    PROVE  SentInv'
BY DEF V1Inv, SentInv

\* Every action keeps the verdict of the dashboard that of its reports.
LEMMA SentStep == V1Inv /\ [V1Next]_v1Vars => SentInv'
<1> SUFFICES ASSUME V1Inv, [V1Next]_v1Vars PROVE SentInv'
  OBVIOUS
<1>1. BusInv
  BY DEF V1Inv
<1>2. CASE V1Launch
  BY <1>2 DEF V1Launch, Goto, NoTracking, SentInv
<1>3. CASE OtherSaves \/ V1Tasks \/ V1Signal \/ V1Crash \/ V1Done \/ UNCHANGED v1Vars
  <2>1. UNCHANGED <<dash, vrow>> /\ (vpc' = vpc \/ vpc' \in Ended)
    BY <1>3 DEF OtherSaves, V1Tasks, V1Signal, V1Crash, V1Done, TaskEnds, Return, Goto, v1Session, v1Vars, Ended
  <2> QED
    BY <2>1, SentFrame DEF Ended
<1>4. CASE V1Setup
  <2>1. UNCHANGED <<dash, vrow>> /\ vpc \notin {"session"} \cup Ended /\ vpc' # "session"
    BY <1>4 DEF V1Setup, ResumeRefused, ResumeSetup, StartProxy, CreateContainer, PopulateWorkspace, SandboxUpFails,
       Return, Goto, v1Session, Ended
  <2> QED
    BY <2>1, SentFrame
<1>5. CASE V1Loop
  <2>1. vpc \notin {"session"} \cup Ended /\ vpc' # "session" /\ vrow' = vrow
    BY <1>5 DEF V1Loop, WorkflowStarted, SkipStep, SpawnAsyncStep, AwaitDep, StepStarted, Execute, StepCompleted,
       StepFailed, SaveState, LoopEnds, AtStep, AfterFailure, Emitted, EmitLost, Return, Goto, v1Session, Ended
  <2>2. \/ dash' = dash
        \/ \E name \in {"workflow_started", "step_started", "step_completed", "step_failed"} :
              \E p \in {0, pos} : dash' = OnEvent(dash, Ev(name, p))
    BY <1>5 DEF V1Loop, WorkflowStarted, SkipStep, SpawnAsyncStep, AwaitDep, StepStarted, Execute, StepCompleted,
       StepFailed, SaveState, LoopEnds, Emitted, EmitLost, v1Session
  <2>3. dash'.sent = dash.sent
    <3>1. ASSUME NEW p PROVE /\ OnEvent(dash, Ev("workflow_started", p)).sent = dash.sent
                             /\ OnEvent(dash, Ev("step_started", p)).sent = dash.sent
                             /\ OnEvent(dash, Ev("step_completed", p)).sent = dash.sent
                             /\ OnEvent(dash, Ev("step_failed", p)).sent = dash.sent
      BY <1>1, OnEvents DEF Tracked, BusInv
    <3> QED
      BY <2>2, <3>1
  <2> QED
    BY <2>1, <2>3, NotSent
<1>6. CASE DrainTask \/ Drained \/ CopyBackFails \/ Destroy \/ NoSandboxDown
  <2>1. UNCHANGED <<dash, vrow>> /\ vpc \notin {"session"} \cup Ended /\ vpc' # "session"
    BY <1>6 DEF DrainTask, Drained, CopyBackFails, Destroy, NoSandboxDown, Goto, v1Session, Ended
  <2> QED
    BY <2>1, SentFrame
<1>7. CASE WorkflowCompleted
  <2>1. vpc = "closing" /\ vrow' = vrow /\ vrow # "completed"
    BY <1>7 DEF WorkflowCompleted, Emitted, EmitLost, v1Session, V1Inv, FaultInv
  <2>2. CASE dash' = OnEvent(dash, Ev("workflow_completed", 0)) /\ vpc' = "session"
    <3>1. dash' = [dash EXCEPT !.sent = Status(dash)]
      BY <1>1, <2>2, OnEvents
    <3>2. dash'.steps = dash.steps /\ dash'.sent = Status(dash)
      BY <1>1, <3>1 DEF BusInv
    <3>3. Status(dash') = Status(dash) /\ Status(dash) # "none"
      BY <3>2 DEF Status
    <3> QED
      BY <2>1, <2>2, <3>2, <3>3 DEF SentInv
  <2>3. CASE dash' = dash /\ vpc' = "returned"
    BY <2>1, <2>3, SentFrame DEF Ended
  <2> QED
    BY <1>7, <2>2, <2>3 DEF WorkflowCompleted, Emitted, EmitLost, Return, Goto, v1Session
<1>8. CASE FinishSession
  <2>1. vpc = "session" /\ vpc' = "returned" /\ dash' = dash
    BY <1>8 DEF FinishSession, Return, Goto
  <2>2. dash.sent = Status(dash)
    BY <2>1 DEF V1Inv, SentInv
  <2>3. vrow' = "completed" => fault = FALSE
    <3>1. fault \in BOOLEAN
      BY DEF V1Inv, ValueTypes
    <3> QED
      BY <1>8, <3>1 DEF FinishSession
  <2>4. vrow' = "completed" => Status(dash) = "success"
    BY <2>3 DEF V1Inv, FaultInv, Status
  <2> QED
    BY <2>1, <2>2, <2>4 DEF SentInv, Ended
<1> QED
  BY <1>2, <1>3, <1>4, <1>5, <1>6, <1>7, <1>8 DEF V1Next, V1Runner, V1Teardown

\* Every return of run() drops the container it still owns.
LEMMA ContainerStep == V1Inv /\ [V1Next]_v1Vars => ContainerReleased'
<1> SUFFICES ASSUME V1Inv, [V1Next]_v1Vars PROVE ContainerReleased'
  OBVIOUS
<1>21. CASE V1Launch
  BY <1>21 DEF V1Launch, Goto, NoTracking, NoOutputs, v1Run, v1State, v1Session, v1Sandbox, V1Inv,
     ContainerReleased
<1>22. CASE ResumeRefused
  BY <1>22 DEF ResumeRefused, Return, Goto, Dropped, v1Run, v1State, v1Session, v1Sandbox, V1Inv,
     ContainerReleased
<1>23. CASE ResumeSetup
  BY <1>23 DEF ResumeSetup, Goto, Resumable, FindLatest, v1Run, v1State, v1Session, v1Sandbox, V1Inv,
     ContainerReleased
<1>24. CASE StartProxy
  BY <1>24 DEF StartProxy, Goto, v1Run, v1State, v1Session, v1Sandbox, V1Inv, ContainerReleased
<1>25. CASE CreateContainer
  BY <1>25 DEF CreateContainer, Goto, v1Run, v1State, v1Session, v1Sandbox, V1Inv, ContainerReleased
<1>26. CASE PopulateWorkspace
  BY <1>26 DEF PopulateWorkspace, Goto, v1Run, v1State, v1Session, v1Sandbox, V1Inv, ContainerReleased
<1>27. CASE SandboxUpFails
  BY <1>27 DEF SandboxUpFails, Return, Goto, Dropped, v1Run, v1State, v1Session, v1Sandbox, V1Inv,
     ContainerReleased
<1>28. CASE WorkflowStarted
  BY <1>28 DEF WorkflowStarted, Return, Goto, Dropped, Emitted, EmitLost, v1Run, v1State, v1Session,
     v1Sandbox, V1Inv, ContainerReleased
<1>29. CASE SkipStep
  BY <1>29 DEF SkipStep, AtStep, LoopFrame, v1Run, v1State, v1Session, v1Sandbox, V1Inv, ContainerReleased
<1>30. CASE SpawnAsyncStep
  BY <1>30 DEF SpawnAsyncStep, AtStep, LoopFrame, v1Run, v1State, v1Session, v1Sandbox, V1Inv,
     ContainerReleased
<1>31. CASE AwaitDep
  BY <1>31 DEF AwaitDep, AtStep, LoopFrame, Goto, v1Run, v1State, v1Session, v1Sandbox, V1Inv,
     ContainerReleased
<1>32. CASE StepStarted
  BY <1>32 DEF StepStarted, AtStep, LoopFrame, Goto, Emitted, EmitLost, v1Run, v1State, v1Session,
     v1Sandbox, V1Inv, ContainerReleased
<1>33. CASE Execute
  BY <1>33 DEF Execute, LoopFrame, Goto, v1Run, v1State, v1Session, v1Sandbox, V1Inv, ContainerReleased
<1>34. CASE StepCompleted
  BY <1>34 DEF StepCompleted, LoopFrame, Goto, Emitted, EmitLost, v1Run, v1State, v1Session, v1Sandbox,
     V1Inv, ContainerReleased
<1>35. CASE StepFailed
  BY <1>35 DEF StepFailed, LoopFrame, Goto, Emitted, EmitLost, AfterFailure, v1Run, v1State, v1Session,
     v1Sandbox, V1Inv, ContainerReleased
<1>36. CASE SaveState
  BY <1>36 DEF SaveState, Goto, v1Run, v1State, v1Session, v1Sandbox, V1Inv, ContainerReleased
<1>37. CASE LoopEnds
  BY <1>37 DEF LoopEnds, LoopFrame, Goto, v1Run, v1State, v1Session, v1Sandbox, V1Inv, ContainerReleased
<1>38. CASE DrainTask
  BY <1>38 DEF DrainTask, LoopFrame, v1Run, v1State, v1Session, v1Sandbox, V1Inv, ContainerReleased
<1>39. CASE Drained
  BY <1>39 DEF Drained, LoopFrame, Goto, v1Run, v1State, v1Session, v1Sandbox, V1Inv, ContainerReleased
<1>40. CASE CopyBackFails
  BY <1>40 DEF CopyBackFails, Goto, Dropped, v1Run, v1State, v1Session, v1Sandbox, V1Inv, ContainerReleased
<1>41. CASE Destroy
  BY <1>41 DEF Destroy, Goto, v1Run, v1State, v1Session, v1Sandbox, V1Inv, ContainerReleased
<1>42. CASE NoSandboxDown
  BY <1>42 DEF NoSandboxDown, Goto, v1Run, v1State, v1Session, v1Sandbox, V1Inv, ContainerReleased
<1>43. CASE WorkflowCompleted
  BY <1>43 DEF WorkflowCompleted, Return, Goto, Dropped, Emitted, EmitLost, v1Run, v1State, v1Session,
     v1Sandbox, V1Inv, ContainerReleased
<1>44. CASE FinishSession
  BY <1>44 DEF FinishSession, Return, Goto, Dropped, v1Run, v1State, v1Session, v1Sandbox, V1Inv,
     ContainerReleased
<1>45. CASE V1Tasks
  BY <1>45 DEF V1Tasks, TaskEnds, LoopFrame, v1Run, v1State, v1Session, v1Sandbox, V1Inv, ContainerReleased
<1>46. CASE V1Signal
  BY <1>46 DEF V1Signal, Return, Goto, Dropped, v1Run, v1State, v1Session, v1Sandbox, V1Inv,
     ContainerReleased
<1>47. CASE V1Crash
  BY <1>47 DEF V1Crash, Goto, v1Run, v1State, v1Session, v1Sandbox, V1Inv, ContainerReleased
<1>48. CASE V1Done
  BY <1>48 DEF V1Done, v1Vars, v1Run, v1State, v1Session, v1Sandbox, V1Inv, ContainerReleased
<1>49. CASE UNCHANGED v1Vars
  BY <1>49 DEF v1Vars, v1Run, v1State, v1Session, v1Sandbox, V1Inv, ContainerReleased
<1>50. CASE OtherSaves
  BY <1>50 DEF OtherSaves, v1Run, v1State, v1Session, v1Sandbox, V1Inv, ContainerReleased
<1> QED
  BY <1>21, <1>22, <1>23, <1>24, <1>25, <1>26, <1>27, <1>28, <1>29, <1>30, <1>31, <1>32, <1>33, <1>34,
     <1>35, <1>36, <1>37, <1>38, <1>39, <1>40, <1>41, <1>42, <1>43, <1>44, <1>45, <1>46, <1>47, <1>48, <1>49,
     <1>50
  DEF V1Next, V1Runner, V1Setup, V1Loop, V1Teardown

\* Everything together.
LEMMA V1Invariance == V1EngineSpec => []V1Inv
<1>1. V1Init => V1Inv
  <2> SUFFICES ASSUME V1Init PROVE V1Inv
    OBVIOUS
  <2>1. Len(flow) \in Nat /\ DOMAIN flow = 1..Len(flow) /\ MaxLaunches \in Nat
    BY FlowType DEF V1Init
  <2>2. PlaceTypes
    BY <2>1 DEF V1Init, PlaceTypes, Before, Stepping, Late, Ended
  <2>3. ValueTypes
    <3>1. NoOutputs \in Outputs
      BY DEF V1Init, NoOutputs, Outputs, Absent, Foreign
    <3> QED
      BY <3>1 DEF V1Init, ValueTypes
  <2>4. FilesInv
    BY DEF V1Init, FilesInv, NoOutputs
  <2>5. SkipInv
    BY DEF V1Init, SkipInv, Skipped
  <2>6. TasksInv
    BY DEF V1Init, TasksInv, AwaitedBeforeUse, Pending
  <2>7. BusInv
    <3>1. {j \in 1..0 : EndsStep(vlog[j])} = {}
      OBVIOUS
    <3>2. EndsUpTo(vlog, 0) = 0
      BY <3>1, FS_EmptySet DEF EndsUpTo
    <3>3. BusFollowsLog
      BY <3>2 DEF V1Init, BusFollowsLog, NoTracking
    <3> QED
      BY <3>3 DEF V1Init, BusInv, NoTracking
  <2>8. FaultInv /\ ContainerReleased /\ ForeignInv /\ SentInv
    BY DEF V1Init, FaultInv, ContainerReleased, ForeignInv, SentInv, NoTracking
  <2> QED
    BY <2>2, <2>3, <2>4, <2>5, <2>6, <2>7, <2>8 DEF V1Inv
<1>2. V1Inv /\ [V1Next]_v1Vars => V1Inv'
  BY PlaceStep, ValueStep, FilesStep, ForeignStep, SkipStepInv, TasksStep, FaultStep, SentStep, BusStep, ContainerStep
  DEF V1Inv
<1> QED
  BY <1>1, <1>2, PTL DEF V1EngineSpec

\* A step that is skipped on a resume lends the newest output there is of it: the outputs of a file are those of
\* its own execution, and the files are in the order of theirs.
LEMMA SkippedIsNewest ==
    ASSUME V1Inv PROVE NoStaleOutput
<1> SUFFICES ASSUME NEW i \in DOMAIN flow, Skipped, i < pos, vctx[i] \notin {Absent, Foreign}, NEW k \in DOMAIN files
             PROVE  files[k].steps[i] <= vctx[i]
  BY DEF NoStaleOutput
<1>1. Len(flow) \in Nat /\ DOMAIN flow = 1..Len(flow) /\ pos \in Nat /\ launches \in Nat
  BY FlowType DEF V1Inv, PlaceTypes
<1>2. pos > 1 /\ i \in 1..pos - 1
  BY <1>1
<1>3. files # << >> /\ vctx[i] = Last(files).steps[i]
  <2>1. vctx[i] = loaded[i] /\ ReadOf(loaded)
    BY <1>2 DEF V1Inv, SkipInv
  <2> QED
    BY <2>1 DEF ReadOf
<1>4. files \in Seq(File) /\ Len(files) \in DOMAIN files /\ Last(files) = files[Len(files)] /\ DOMAIN files = 1..Len(files)
  BY <1>3, NewestFile DEF V1Inv, FilesInv
<1>5. files[k] \in File /\ files[Len(files)] \in File
  BY <1>4
<1>6. files[k].by \in 1..launches /\ files[Len(files)].by \in 1..launches
  BY <1>5 DEF File
<1>7. vctx[i] = files[Len(files)].by /\ files[k].steps[i] \in {Absent, files[k].by}
  BY <1>3, <1>4 DEF V1Inv, FilesInv
<1>8. files[k].by <= files[Len(files)].by
  <2>1. CASE k = Len(files)
    BY <1>6, <2>1
  <2>2. CASE k # Len(files)
    <3>1. k < Len(files)
      BY <1>4, <2>2
    <3> QED
      BY <1>4, <1>6, <3>1 DEF V1Inv, FilesInv
  <2> QED
    BY <2>1, <2>2
<1> QED
  BY <1>1, <1>6, <1>7, <1>8 DEF Absent

\* A success at the dashboard has no failed step behind it: what failed in the log is among its reports.
LEMMA Verdict ==
    ASSUME V1Inv, dash.sent = "success", NEW k \in DOMAIN vlog
    PROVE  vlog[k].ev # "step_failed"
<1> SUFFICES ASSUME vlog[k].ev = "step_failed" PROVE FALSE
  OBVIOUS
<1>1. EndsUpTo(vlog, k) \in DOMAIN dash.steps /\ dash.steps[EndsUpTo(vlog, k)].status = "failed"
  BY DEF V1Inv, BusInv, BusFollowsLog, EndsStep
<1>2. Status(dash) = "failed"
  BY <1>1 DEF Status
<1> QED
  BY <1>2 DEF V1Inv, SentInv

\* For workflows of any length, any number of executions one after another, and however appends are lost, the
\* process killed, state files torn and other workflows' files taken for its own: a run of the v1 engine uses no
\* stale output of its own and waits for the references its scan finds, leaves no task and no container behind, and
\* its log, its row and what it hands to the dashboard do not contradict each other.
THEOREM V1RunIsSafe == V1EngineSpec => []V1RunSafe
<1>1. V1Inv => V1RunSafe
  <2> SUFFICES ASSUME V1Inv PROVE V1RunSafe
    OBVIOUS
  <2>1. V1TypeOK
    <3>1. Len(flow) \in Nat /\ MaxLaunches \in Nat /\ launches \in 0..MaxLaunches
      BY FlowType DEF V1Inv, PlaceTypes
    <3>2. Outputs \subseteq [DOMAIN flow -> Foreign..MaxLaunches]
      BY <3>1 DEF Outputs, Absent, Foreign
    <3>3. loaded \in [DOMAIN flow -> Foreign..MaxLaunches] /\ vctx \in [DOMAIN flow -> Foreign..MaxLaunches]
      BY <3>2 DEF V1Inv, ValueTypes
    <3> QED
      BY <3>3 DEF V1Inv, PlaceTypes, ValueTypes, V1TypeOK, Ended
  <2>2. NoStaleOutput
    BY SkippedIsNewest
  <2>3. AwaitedBeforeUse /\ NoTaskOutlivesRun
    BY DEF V1Inv, TasksInv, NoTaskOutlivesRun, Before, Late, Ended
  <2>4. FailureNotCompleted
    BY DEF V1Inv, FaultInv, FailureNotCompleted
  <2>5. DashboardAgrees
    BY Verdict DEF V1Inv, SentInv, DashboardAgrees
  <2> QED
    BY <2>1, <2>2, <2>3, <2>4, <2>5 DEF V1Inv, BusInv, V1RunSafe
<1> QED
  BY <1>1, V1Invariance, PTL

-----------------------------------------------------------------------------
(* V1Fan *)

\* A task is cancelled only after an abort, an abort has an error behind it, the lock is with the one task
\* inside, and a parallel step has joined all its tasks when it returns.
FanInv ==
    /\ fan \in Fans /\ task \in [TaskIds -> TaskStates] /\ holder \subseteq TaskIds
    /\ outputs \in [TaskIds -> 0..fan.size] /\ error \in NoError..fan.size /\ marked \in BOOLEAN
    /\ IF fan.boxed THEN In({"inside"}) = holder ELSE holder = {}
    /\ error # 0 /\ (marked = TRUE => error # NoError)
    /\ \A i \in TaskIds : task[i] = "cancelled" => marked = TRUE
    /\ \A i \in TaskIds : outputs[i] \in {0, i}
    /\ fan.kind = "parallel" /\ fpc = "returned" => \A i \in TaskIds : task[i] = "joined"

\* The number of tasks is a number, and a map has a permit.
LEMMA FanType ==
    ASSUME fan \in Fans
    PROVE  fan.size \in Nat /\ fan.permits \in Nat /\ fan.boxed \in BOOLEAN /\ fan.kind \in {"parallel", "map"}
BY FansAssumption DEF Fan

\* Every action of a fan-out keeps FanInv.
LEMMA FanStep == FanInv /\ [FanNext]_fanVars => FanInv'
<1> SUFFICES ASSUME FanInv, [FanNext]_fanVars PROVE FanInv'
  OBVIOUS
<1>1. /\ fan \in Fans /\ fan.size \in Nat /\ fan.boxed \in BOOLEAN /\ task \in [TaskIds -> TaskStates]
      /\ error \in NoError..fan.size /\ outputs \in [TaskIds -> 0..fan.size]
  BY FanType DEF FanInv
<1>2. ASSUME NEW i \in TaskIds, Acquire(i) PROVE FanInv'
  BY <1>1, <1>2 DEF Acquire, FanInv, TaskIds, In, TaskStates, Live
<1>3. ASSUME NEW i \in TaskIds, EnterSandbox(i) PROVE FanInv'
  <2>1. /\ UNCHANGED <<fan, marked, outputs, error, fpc>> /\ task[i] = "ready"
        /\ task' = [task EXCEPT ![i] = "inside"]
    BY <1>3 DEF EnterSandbox
  <2>2. IF fan.boxed THEN In({"inside"})' = holder' ELSE holder' = {}
    <3>1. CASE fan.boxed = TRUE
      BY <1>1, <1>3, <2>1, <3>1 DEF EnterSandbox, FanInv, In, TaskIds
    <3>2. CASE fan.boxed = FALSE
      BY <1>3, <2>1, <3>2 DEF EnterSandbox
    <3> QED
      BY <1>1, <3>1, <3>2
  <2>3. holder' \subseteq TaskIds
    BY <1>3 DEF EnterSandbox
  <2> QED
    BY <1>1, <2>1, <2>2, <2>3 DEF FanInv, TaskIds, TaskStates, Live
<1>4. ASSUME NEW i \in TaskIds, TaskEnd(i) \/ TaskAborted(i) PROVE FanInv'
  <2>1. PICK end \in {"ok", "error", "skip", "cancelled"} :
          /\ task' = [task EXCEPT ![i] = end] /\ holder' = holder \ {i} /\ task[i] \in Live
          /\ end = "cancelled" => marked = TRUE
    BY <1>4 DEF TaskEnd, TaskAborted, Released, Live, FanInv
  <2>2. UNCHANGED <<fan, marked, outputs, error, fpc>>
    BY <1>4 DEF TaskEnd, TaskAborted
  <2>3. In({"inside"})' = In({"inside"}) \ {i}
    BY <1>1, <2>1, <2>2 DEF In, TaskIds
  <2>4. IF fan.boxed THEN In({"inside"})' = holder' ELSE holder' = {}
    BY <2>1, <2>3 DEF FanInv
  <2> QED
    BY <1>1, <2>1, <2>2, <2>4 DEF FanInv, TaskIds, TaskStates, Live
<1>5. ASSUME NEW i \in TaskIds, JoinOk(i) \/ JoinError(i) \/ JoinCancelled(i) PROVE FanInv'
  <2>1. /\ task' = [task EXCEPT ![i] = "joined"] /\ task[i] \notin Live /\ UNCHANGED <<fan, holder>>
        /\ fpc = "joining" /\ (fpc' = fpc \/ fan.kind = "map")
    BY <1>5 DEF JoinOk, JoinError, JoinCancelled, Joined, Leaves, Live
  <2>2. In({"inside"})' = In({"inside"})
    BY <1>1, <2>1 DEF In, TaskIds, Live
  <2>3. /\ outputs' \in [TaskIds -> 0..fan.size] /\ \A j \in TaskIds : outputs'[j] \in {0, j}
    <3>1. i \in 0..fan.size /\ \A j \in TaskIds : outputs[j] \in {0, j}
      BY <1>1 DEF TaskIds, FanInv
    <3>2. outputs' = outputs \/ outputs' = [outputs EXCEPT ![i] = i]
      BY <1>5 DEF JoinOk, JoinError, JoinCancelled, Slot
    <3>3. TaskIds' = TaskIds
      BY <2>1 DEF TaskIds
    <3> QED
      BY <1>1, <3>1, <3>2, <3>3
  <2>4. /\ error' \in NoError..fan.size /\ error' # 0 /\ marked' \in BOOLEAN /\ (marked' = TRUE => error' # NoError)
        /\ marked = TRUE => marked' = TRUE
    <3>1. CASE JoinOk(i)
      BY <1>1, <3>1 DEF JoinOk, FanInv
    <3>2. CASE JoinError(i)
      BY <1>1, <3>2 DEF JoinError, NoError, TaskIds
    <3>3. CASE JoinCancelled(i)
      <4>1. error # NoError /\ error # 0
        BY <3>3 DEF JoinCancelled, FanInv
      <4> QED
        BY <1>1, <3>3, <4>1 DEF JoinCancelled, KeepError
    <3> QED
      BY <1>5, <3>1, <3>2, <3>3
  <2> QED
    BY <1>1, <2>1, <2>2, <2>3, <2>4 DEF FanInv, TaskIds, TaskStates, Live
<1>6. CASE FanReturn
  BY <1>1, <1>6 DEF FanReturn, FanInv, TaskIds, In
<1>7. CASE FanDone \/ UNCHANGED fanVars
  BY <1>7 DEF FanDone, fanVars, FanInv, TaskIds, In
<1> QED
  BY <1>2, <1>3, <1>4, <1>5, <1>6, <1>7 DEF FanNext, FanJoin, FanTask

\* Any subset of the tasks is finite.
LEMMA TasksFinite ==
    ASSUME fan \in Fans, NEW s
    PROVE  IsFiniteSet(In(s)) /\ Cardinality(In(s)) \in Nat
<1>1. IsFiniteSet(1..fan.size)
  BY FanType, FS_Interval
<1>2. IsFiniteSet(In(s))
  BY <1>1, FS_Subset DEF In, TaskIds
<1> QED
  BY <1>2, FS_CardinalityType

\* A task acquires its permit below the bound, and no other action adds a holder.
LEMMA PermitStep ==
    ASSUME FanInv, WithinPermits, [FanNext]_fanVars
    PROVE  WithinPermits'
<1> DEFINE H == {"ready", "inside"}
<1>1. fan' = fan /\ fan \in Fans /\ fan.permits \in Nat
  BY FanType DEF FanInv, FanNext, FanJoin, FanTask, Acquire, EnterSandbox, TaskEnd, TaskAborted, JoinOk,
     JoinError,
     JoinCancelled, FanReturn, FanDone, fanVars
<1>2. IsFiniteSet(In(H)) /\ Cardinality(In(H)) \in Nat
  BY <1>1, TasksFinite
<1>3. ASSUME NEW i \in TaskIds, Acquire(i) PROVE WithinPermits'
  <2>1. In(H)' = In(H) \cup {i} /\ i \notin In(H)
    BY <1>1, <1>3 DEF Acquire, FanInv, In, TaskIds
  <2>2. Cardinality(In(H)') = Cardinality(In(H)) + 1
    BY <1>2, <2>1, FS_AddElement
  <2> QED
    BY <1>1, <1>2, <1>3, <2>2 DEF Acquire, Holding, WithinPermits
<1>4. ASSUME In(H)' \subseteq In(H) PROVE WithinPermits'
  <2>1. Cardinality(In(H)') <= Cardinality(In(H)) /\ Cardinality(In(H)') \in Nat
    BY <1>2, <1>4, FS_Subset, FS_CardinalityType
  <2> QED
    BY <1>1, <1>2, <2>1 DEF WithinPermits
<1>5. ASSUME NEW i \in TaskIds, NEW end, task' = [task EXCEPT ![i] = end], end \in H => task[i] \in H
      PROVE  In(H)' \subseteq In(H)
  BY <1>1, <1>5 DEF In, TaskIds, FanInv
<1>6. ASSUME NEW i \in TaskIds, EnterSandbox(i) \/ TaskEnd(i) \/ TaskAborted(i) PROVE WithinPermits'
  <2>1. CASE EnterSandbox(i)
    BY <1>4, <1>5, <2>1 DEF EnterSandbox
  <2>2. CASE TaskEnd(i)
    BY <1>4, <1>5, <2>2 DEF TaskEnd
  <2>3. CASE TaskAborted(i)
    BY <1>4, <1>5, <2>3 DEF TaskAborted
  <2> QED
    BY <1>6, <2>1, <2>2, <2>3
<1>7. ASSUME NEW i \in TaskIds, JoinOk(i) \/ JoinError(i) \/ JoinCancelled(i) PROVE WithinPermits'
  BY <1>4, <1>5, <1>7 DEF JoinOk, JoinError, JoinCancelled, Joined
<1>8. CASE FanReturn \/ FanDone \/ UNCHANGED fanVars
  BY <1>1, <1>4, <1>8 DEF FanReturn, FanDone, fanVars, In, TaskIds
<1> QED
  BY <1>3, <1>6, <1>7, <1>8 DEF FanNext, FanJoin, FanTask

\* For any number of tasks and permits, and however the tasks end, fail and are aborted: a map keeps within its
\* permits, every output is in its place, the error is one a task returned, and a parallel step leaves no task.
THEOREM FanIsSafe == FanSpec => []FanSafe
<1>1. FanInit => FanInv /\ WithinPermits
  <2> SUFFICES ASSUME FanInit PROVE FanInv /\ WithinPermits
    OBVIOUS
  <2>1. fan \in Fans /\ fan.size \in Nat /\ fan.permits \in Nat
    BY FanType DEF FanInit
  <2>2. In({"ready", "inside"}) = {} /\ In({"inside"}) = {}
    BY DEF FanInit, In
  <2>3. WithinPermits
    BY <2>1, <2>2, FS_EmptySet DEF WithinPermits
  <2>4. FanInv
    <3>1. /\ fan \in Fans /\ task \in [TaskIds -> TaskStates] /\ holder \subseteq TaskIds /\ marked \in BOOLEAN
          /\ IF fan.boxed THEN In({"inside"}) = holder ELSE holder = {}
      BY <2>2 DEF FanInit, TaskStates, Live
    <3>2. /\ outputs \in [TaskIds -> 0..fan.size] /\ error \in NoError..fan.size /\ error # 0
          /\ \A i \in TaskIds : outputs[i] \in {0, i}
      BY <2>1 DEF FanInit, NoError
    <3> QED
      BY <3>1, <3>2 DEF FanInit, FanInv
  <2> QED
    BY <2>3, <2>4
<1>2. FanInv /\ WithinPermits /\ [FanNext]_fanVars => FanInv' /\ WithinPermits'
  BY FanStep, PermitStep
<1>3. FanInv /\ WithinPermits => FanSafe
  BY DEF FanInv, FanSafe, FanTypeOK, SlotOfTask, ErrorIsReal, ParallelLeavesNone, In, Live
<1> QED
  BY <1>1, <1>2, <1>3, PTL DEF FanSpec

-----------------------------------------------------------------------------
(* V1Body *)

Pairs == Nat \X Nat

\* The types, and how many iterations have got a value and made an output at each place.
BodyTypes ==
    /\ body \in Bodies /\ round \in 0..Rounds /\ at \in 0..Size + 1 /\ broke \in BOOLEAN
    /\ bpc \in {"next", "step", "round", "returned", "failed"}
    /\ bpc = "step" => at \in 1..Size + 1
    /\ bpc \in {"step", "round"} => round # 0
    /\ made \in Seq(Pairs) /\ given \in Seq(Int \X Int) /\ Len(given) = round
    /\ Len(made) = IF bpc \in {"next", "returned"} THEN round ELSE round - 1

\* What is in the context was put there in this iteration; without an output of a step there is none before it.
ContextInv ==
    /\ child \in [1..Size -> Pairs \cup {<< >>}] /\ prev \in Pairs
    /\ \A p \in 1..Size : child[p] \in {<< >>, Nothing, <<round, p>>}
    /\ root = << >> \/ \E p \in Nat : root = <<round, p>>
    /\ prev = Nothing \/ \E p \in 1..Size : prev = <<round, p>>
    /\ prev = Nothing => \A p \in 1..Size : child[p] \in {<< >>, Nothing}

\* The turns of a chat are of this iteration and come in pairs.
ChatInv ==
    /\ chats \in Seq({"user", "assistant"} \X Nat \X Nat) /\ TurnsPaired
    /\ \A i \in DOMAIN chats : chats[i][2] = round

\* The outputs are those of their iterations, and each is what the next iteration of a repeat is given.
OutputsInv ==
    /\ \A r \in DOMAIN made : made[r] = Nothing \/ made[r][1] = r
    /\ CarriesOutput

BodyInv == BodyTypes /\ ContextInv /\ ChatInv /\ OutputsInv /\ WindowFits

\* What a body is made of.
LEMMA BodyType ==
    ASSUME body \in Bodies
    PROVE  /\ Size \in Nat /\ Rounds \in Nat /\ body.cut \in Strategies
           /\ body.cut.by = "window" => body.cut.n \in Nat
<1>1. body \in Body
  BY BodiesAssumption
<1>2. body.steps \in Seq(BodyStepKinds) /\ body.rounds \in Nat /\ body.cut \in Strategies
  BY <1>1 DEF Body
<1>3. Size \in Nat /\ Rounds \in Nat
  BY <1>2 DEF Size, Rounds
<1>4. body.cut.by = "window" => body.cut.n \in Nat
  BY <1>2 DEF Strategies
<1> QED
  BY <1>2, <1>3, <1>4

\* Dropping the oldest messages ends within the budget, at the latest with none left.
LEMMA WindowWithin ==
    ASSUME NEW S, NEW s \in Seq(S), NEW limit \in Nat
    PROVE  TokensOf(Window(s, limit)) <= limit
<1> DEFINE fits == {d \in 0..Len(s) : TokensOf(SubSeq(s, d + 1, Len(s))) <= limit}
<1>1. Len(s) \in Nat /\ SubSeq(s, Len(s) + 1, Len(s)) = << >>
  OBVIOUS
<1>2. TokensOf(<< >>) = 0
  <2>1. {i \in DOMAIN << >> : << >>[i][1] # "user"} = {}
    OBVIOUS
  <2>2. Cardinality({}) = 0
    BY FS_EmptySet
  <2> QED
    BY <2>1, <2>2 DEF TokensOf
<1>3. Len(s) \in fits /\ fits \subseteq Nat
  <2>1. TokensOf(SubSeq(s, Len(s) + 1, Len(s))) <= limit /\ Len(s) \in 0..Len(s)
    <3>1. TokensOf(SubSeq(s, Len(s) + 1, Len(s))) = 0
      BY <1>1, <1>2, Zenon
    <3> QED
      BY <1>1, <3>1
  <2> QED
    BY <2>1
<1> DEFINE m == CHOOSE d \in fits : \A e \in fits : d <= e
<1>4. m \in fits
  <2> HIDE DEF fits
  <2> QED
    BY <1>3, LeastNumber
<1> QED
  BY <1>4 DEF Window

\* The two places behind an even number of messages.
LEMMA EvenOdd ==
    ASSUME NEW n \in Nat, n % 2 = 0
    PROVE  (n + 1) % 2 = 1 /\ (n + 2) % 2 = 0
OBVIOUS

\* A turn is a question and its answer, behind the messages there are.
LEMMA TurnAppended ==
    ASSUME NEW S, NEW s \in Seq(S), NEW u \in S, NEW a \in S, NEW t, t = s \o <<u, a>>
    PROVE  /\ t \in Seq(S) /\ Len(t) = Len(s) + 2 /\ t[Len(s) + 1] = u /\ t[Len(s) + 2] = a
           /\ \A i \in 1..Len(s) : t[i] = s[i]
<1>1. <<u, a>> \in Seq(S) /\ Len(<<u, a>>) = 2 /\ Len(s) \in Nat
  OBVIOUS
<1>2. /\ t \in Seq(S) /\ Len(t) = Len(s) + 2
      /\ \A i \in 1..Len(s) + 2 : t[i] = IF i <= Len(s) THEN s[i] ELSE <<u, a>>[i - Len(s)]
  BY <1>1, ConcatProperties
<1> QED
  BY <1>1, <1>2

\* A step of the scope that ends well keeps the context.
LEMMA OkStep ==
    ASSUME BodyInv, AtBodyStep, StepOk, UNCHANGED <<body, round, value, given, made>>
    PROVE  /\ BodyTypes' /\ OutputsInv'
           /\ child' \in [1..Size -> Pairs \cup {<< >>}] /\ prev' \in Pairs
           /\ \A p \in 1..Size : child'[p] \in {<< >>, Nothing, <<round, p>>}
           /\ prev' # Nothing /\ \E p \in 1..Size : prev' = <<round, p>>
<1>1. /\ body' = body /\ round' = round /\ given' = given /\ made' = made /\ broke' = broke /\ bpc' = bpc
      /\ at' = at + 1 /\ prev' = <<round, at>> /\ child' = [child EXCEPT ![at] = <<round, at>>] /\ bpc = "step"
  BY DEF StepOk, AtBodyStep
<1>2. Size \in Nat /\ Rounds \in Nat /\ round \in Nat /\ round # 0 /\ at \in 1..Size
  BY <1>1, BodyType DEF BodyInv, BodyTypes, AtBodyStep
<1>3. BodyTypes'
  BY <1>1, <1>2 DEF BodyInv, BodyTypes, Size, Rounds
<1>4. OutputsInv'
  BY <1>1 DEF BodyInv, OutputsInv, CarriesOutput
<1>5. <<round, at>> \in Pairs /\ <<round, at>> # Nothing
  BY <1>2 DEF Pairs, Nothing
<1>6. /\ child' \in [1..Size -> Pairs \cup {<< >>}]
      /\ \A p \in 1..Size : child'[p] \in {<< >>, Nothing, <<round, p>>}
  BY <1>1, <1>2, <1>5 DEF BodyInv, ContextInv
<1> QED
  BY <1>1, <1>2, <1>3, <1>4, <1>5, <1>6

\* Every action of a scope keeps BodyInv.
LEMMA BodyStep == BodyInv /\ [BodyNext]_bodyVars => BodyInv'
<1> SUFFICES ASSUME BodyInv, [BodyNext]_bodyVars PROVE BodyInv'
  OBVIOUS
<1>1. Size \in Nat /\ Rounds \in Nat /\ body \in Bodies /\ round \in 0..Rounds /\ at \in 0..Size + 1
  BY BodyType DEF BodyInv, BodyTypes
<1>2. ASSUME body' = body PROVE Size' = Size /\ Rounds' = Rounds
  BY <1>2 DEF Size, Rounds
<1>3. ASSUME UNCHANGED <<body, request>> PROVE WindowFits'
  BY <1>3 DEF BodyInv, WindowFits, TokensOf
<1>4. ASSUME UNCHANGED <<chats, round>> PROVE ChatInv'
  BY <1>4 DEF BodyInv, ChatInv, TurnsPaired
<1>5. ASSUME UNCHANGED <<body, given, made>> PROVE OutputsInv'
  BY <1>5 DEF BodyInv, OutputsInv, CarriesOutput
<1>6. ASSUME UNCHANGED <<body, round, child, prev, root>> PROVE ContextInv'
  BY <1>6, <1>2 DEF BodyInv, ContextInv
<1>7. ASSUME StepError, UNCHANGED <<body, round, value, given, made>>, AtBodyStep
      PROVE  BodyTypes' /\ OutputsInv'
  <2>1. /\ bpc' = "failed" /\ UNCHANGED <<body, round, given, made, at, broke>> /\ bpc = "step"
    BY <1>7 DEF StepError, AtBodyStep
  <2> QED
    BY <1>2, <1>5, <2>1 DEF BodyInv, BodyTypes
<1>8. ASSUME AtBodyStep, StepOk, UNCHANGED <<body, round, value, given, made>>,
             root' = << >> \/ \E p \in Nat : root' = <<round, p>>
      PROVE  ContextInv'
  <2>1. Size' = Size /\ round' = round
    BY <1>2, <1>8
  <2>2. /\ child' \in [1..Size -> Pairs \cup {<< >>}] /\ prev' \in Pairs
        /\ \A p \in 1..Size : child'[p] \in {<< >>, Nothing, <<round, p>>}
        /\ prev' # Nothing /\ \E p \in 1..Size : prev' = <<round, p>>
    BY <1>8, OkStep
  <2> QED
    BY <1>8, <2>1, <2>2 DEF ContextInv, Nothing
<1>10. CASE NextRound
  <2>1. /\ body' = body /\ round' = round + 1 /\ at' = 1 /\ child' = BlankChild /\ chats' = << >> /\ root' = << >>
        /\ prev' = Nothing /\ given' = Append(given, Value) /\ bpc' = "step" /\ broke' = broke /\ made' = made
        /\ request' = request /\ bpc = "next" /\ round < Rounds
    BY <1>10 DEF NextRound, FreshChild, MoreRounds
  <2>2. made \in Seq(Pairs) /\ given \in Seq(Int \X Int) /\ Len(made) = round /\ Len(given) = round
    BY <2>1 DEF BodyInv, BodyTypes
  <2>3. Value \in Int \X Int
    <3>1. made # << >> => Last(made) \in Pairs
      BY <2>2 DEF Last
    <3>2. Nothing \in Int \X Int /\ Item(round + 1) \in Int \X Int
      BY <1>1 DEF Nothing, Item
    <3> QED
      BY <3>1, <3>2 DEF Value, Pairs
  <2>4. /\ given' \in Seq(Int \X Int) /\ Len(given') = round + 1 /\ given'[round + 1] = Value
        /\ \A r \in 1..round : given'[r] = given[r]
    BY <1>1, <2>1, <2>2, <2>3
  <2>5. BodyTypes'
    BY <1>1, <1>2, <2>1, <2>2, <2>4 DEF BodyInv, BodyTypes
  <2>6. ContextInv'
    BY <1>2, <2>1 DEF ContextInv, BlankChild, Nothing, Pairs
  <2>7. ChatInv'
    BY <2>1 DEF ChatInv, TurnsPaired
  <2>8. OutputsInv'
    <3>1. ASSUME body.kind = "repeat", NEW r \in 2..round + 1 PROVE given'[r] = made[r - 1]
      <4>1. CASE r = round + 1
        <5>1. made # << >> /\ Last(made) = made[r - 1]
          BY <1>1, <2>2, <3>1, <4>1 DEF Last
        <5>2. Value = Last(made)
          BY <3>1, <5>1 DEF Value
        <5> QED
          BY <2>4, <4>1, <5>1, <5>2
      <4>2. CASE r \in 2..round
        BY <1>1, <2>2, <2>4, <3>1, <4>2 DEF BodyInv, OutputsInv, CarriesOutput
      <4> QED
        BY <1>1, <4>1, <4>2
    <3> QED
      BY <2>1, <2>4, <3>1 DEF BodyInv, OutputsInv, CarriesOutput
  <2> QED
    BY <1>3, <2>1, <2>5, <2>6, <2>7, <2>8 DEF BodyInv
<1>11. CASE RunCmd \/ RunOther
  <2>1. UNCHANGED <<body, round, value, given, made, chats, root, request>> /\ AtBodyStep /\ (StepOk \/ StepError)
    BY <1>11 DEF RunCmd, RunOther, Kept
  <2>2. CASE StepOk
    BY <1>3, <1>4, <1>8, <2>1, <2>2, OkStep DEF BodyInv, ContextInv
  <2>3. CASE StepError
    BY <1>3, <1>4, <1>6, <1>7, <2>1, <2>3 DEF StepError, BodyInv
  <2> QED
    BY <2>1, <2>2, <2>3
<1>12. CASE RunGate
  <2>1. UNCHANGED <<body, round, value, given, made, chats, root, request>> /\ AtBodyStep /\ bpc = "step"
    BY <1>12 DEF RunGate, Kept, AtBodyStep
  <2>2. CASE StepOk
    BY <1>3, <1>4, <1>8, <2>1, <2>2, OkStep DEF BodyInv, ContextInv
  <2>3. CASE StepError
    BY <1>3, <1>4, <1>6, <1>7, <2>1, <2>3 DEF StepError, BodyInv
  <2>4. CASE child' = [child EXCEPT ![at] = Nothing] /\ prev' = AfterSkip /\ at' = at + 1 /\ UNCHANGED <<broke, bpc>>
    <3>1. at \in 1..Size
      BY <1>1, <2>1 DEF BodyInv, BodyTypes, AtBodyStep
    <3>2. BodyTypes'
      BY <1>1, <1>2, <2>1, <2>4, <3>1 DEF BodyInv, BodyTypes
    <3>3. ContextInv'
      <4>1. Size' = Size /\ prev' = prev /\ Nothing \in Pairs
        BY <1>2, <2>1, <2>4 DEF AfterSkip, Nothing, Pairs
      <4>2. child' \in [1..Size -> Pairs \cup {<< >>}] /\ \A p \in 1..Size : child'[p] = IF p = at THEN Nothing ELSE child[p]
        BY <2>4, <3>1, <4>1 DEF BodyInv, ContextInv
      <4> QED
        BY <2>1, <4>1, <4>2 DEF BodyInv, ContextInv, Nothing
    <3> QED
      BY <1>3, <1>4, <1>5, <2>1, <3>2, <3>3 DEF BodyInv
  <2>5. CASE broke' = (body.kind # "map") /\ bpc' = "round" /\ UNCHANGED <<at, child, prev>>
    <3>1. BodyTypes'
      <4>1. broke' \in BOOLEAN
        BY <2>5
      <4> QED
        BY <1>1, <1>2, <2>1, <2>5, <4>1 DEF BodyInv, BodyTypes
    <3> QED
      BY <1>3, <1>4, <1>5, <1>6, <2>1, <2>5, <3>1 DEF BodyInv
  <2> QED
    BY <1>12, <2>2, <2>3, <2>4, <2>5 DEF RunGate
<1>13. CASE RunChat
  <2>1. UNCHANGED <<body, round, value, given, made, root>> /\ AtBodyStep /\ request' = Truncated(chats, body.cut)
    BY <1>13 DEF RunChat, Kept
  <2>2. WindowFits'
    <3>1. CASE body.cut.by = "window"
      <4>1. request' = Window(chats, body.cut.n) /\ body.cut.n \in Nat
        BY <1>1, <2>1, <3>1, BodyType DEF Truncated
      <4>2. TokensOf(Window(chats, body.cut.n)) <= body.cut.n
        BY <4>1, WindowWithin DEF BodyInv, ChatInv
      <4> QED
        BY <2>1, <4>1, <4>2 DEF WindowFits, TokensOf
    <3>2. CASE body.cut.by # "window"
      BY <2>1, <3>2 DEF WindowFits
    <3> QED
      BY <3>1, <3>2
  <2>3. CASE StepOk /\ chats' = chats \o <<<<"user", round, at>>, <<"assistant", round, at>>>>
    <3> DEFINE M == {"user", "assistant"} \X Nat \X Nat
    <3>1. /\ <<"user", round, at>> \in M /\ <<"assistant", round, at>> \in M /\ chats \in Seq(M) /\ Len(chats) % 2 = 0
      BY <1>1 DEF BodyInv, ChatInv, TurnsPaired
    <3>2. /\ chats' \in Seq(M) /\ Len(chats') = Len(chats) + 2
          /\ chats'[Len(chats) + 1] = <<"user", round, at>> /\ chats'[Len(chats) + 2] = <<"assistant", round, at>>
          /\ \A i \in 1..Len(chats) : chats'[i] = chats[i]
      <4> HIDE DEF M
      <4> QED
        BY <2>3, <3>1, TurnAppended
    <3>3. Len(chats) \in Nat /\ (Len(chats) + 1) % 2 = 1 /\ (Len(chats) + 2) % 2 = 0
      <4> HIDE DEF M
      <4>1. Len(chats) \in Nat /\ Len(chats) % 2 = 0
        BY <3>1
      <4> QED
        BY <4>1, EvenOdd
    <3>4. ChatInv'
      <4>1. ASSUME NEW i \in DOMAIN chats'
            PROVE  chats'[i][2] = round /\ chats'[i][1] = IF i % 2 = 1 THEN "user" ELSE "assistant"
        <5>1. i \in 1..Len(chats) \/ i = Len(chats) + 1 \/ i = Len(chats) + 2
          BY <3>2, <3>3
        <5>2. CASE i \in 1..Len(chats)
          <6>1. chats'[i] = chats[i] /\ i \in DOMAIN chats
            <7> HIDE DEF M
            <7>1. DOMAIN chats = 1..Len(chats)
              BY <3>1
            <7> QED
              BY <3>2, <5>2, <7>1
          <6>2. chats[i][2] = round /\ chats[i][1] = IF i % 2 = 1 THEN "user" ELSE "assistant"
            BY <6>1 DEF BodyInv, ChatInv, TurnsPaired
          <6> QED
            BY <6>1, <6>2
        <5>3. CASE i = Len(chats) + 1
          BY <3>2, <3>3, <5>3
        <5>4. CASE i = Len(chats) + 2
          BY <3>2, <3>3, <5>4
        <5> QED
          BY <5>1, <5>2, <5>3, <5>4
      <4> QED
        BY <2>1, <3>2, <3>3, <4>1 DEF ChatInv, TurnsPaired
    <3> QED
      BY <1>8, <2>1, <2>2, <2>3, <3>4, OkStep DEF BodyInv, ContextInv
  <2>4. CASE StepError /\ chats' = Unanswered
    BY <1>4, <1>6, <1>7, <2>1, <2>2, <2>4 DEF StepError, Unanswered, BodyInv
  <2> QED
    BY <1>13, <2>3, <2>4 DEF RunChat
<1>14. CASE RunAgent
  <2>1. UNCHANGED <<body, round, value, given, made, chats, request>> /\ AtBodyStep
    BY <1>14 DEF RunAgent, Kept
  <2>2. CASE StepOk /\ \E sid \in {<< >>, <<round, at>>} : root' = Captured(sid)
    <3>1. root' = << >> \/ \E p \in Nat : root' = <<round, p>>
      BY <1>1, <2>2 DEF Captured, BodyInv, ContextInv
    <3> QED
      BY <1>3, <1>4, <1>8, <2>1, <2>2, <3>1, OkStep DEF BodyInv
  <2>3. CASE StepError /\ UNCHANGED root
    BY <1>3, <1>4, <1>6, <1>7, <2>1, <2>3 DEF StepError, BodyInv
  <2> QED
    BY <1>14, <2>2, <2>3 DEF RunAgent
<1>15. CASE BodyDone
  <2>1. UNCHANGED <<body, round, given, made, at, child, chats, root, prev, broke, request>> /\ bpc = "step" /\ bpc' = "round"
    BY <1>15 DEF BodyDone, Kept
  <2>2. BodyTypes'
    BY <1>2, <2>1 DEF BodyInv, BodyTypes
  <2> QED
    BY <1>3, <1>4, <1>5, <1>6, <2>1, <2>2 DEF BodyInv
<1>16. CASE RoundDone
  <2>1. /\ UNCHANGED <<body, round, at, child, chats, root, prev, broke, given, request>> /\ bpc = "round" /\ bpc' = "next"
        /\ round \in Nat \ {0} /\ Len(made) = round - 1 /\ made \in Seq(Pairs)
    BY <1>1, <1>16 DEF RoundDone, BodyInv, BodyTypes
  <2>2. PICK out \in {prev, <<round, 0>>} : made' = Append(made, out)
    BY <1>16 DEF RoundDone
  <2>3. out \in Pairs /\ (out = Nothing \/ out[1] = round)
    BY <2>1, <2>2 DEF BodyInv, ContextInv, Pairs
  <2>4. /\ made' \in Seq(Pairs) /\ Len(made') = round /\ made'[round] = out
        /\ \A r \in 1..round - 1 : made'[r] = made[r]
    BY <2>1, <2>2, <2>3
  <2>5. BodyTypes'
    BY <1>1, <1>2, <2>1, <2>4 DEF BodyInv, BodyTypes
  <2>6. OutputsInv'
    <3>1. \A r \in DOMAIN made' : made'[r] = Nothing \/ made'[r][1] = r
      BY <2>1, <2>3, <2>4 DEF BodyInv, OutputsInv
    <3>2. CarriesOutput'
      <4>1. Len(given) = round /\ \A r \in 2..round : r - 1 \in 1..round - 1
        BY <2>1 DEF BodyInv, BodyTypes
      <4> QED
        BY <2>1, <2>4, <4>1 DEF BodyInv, OutputsInv, CarriesOutput
    <3> QED
      BY <3>1, <3>2 DEF OutputsInv
  <2> QED
    BY <1>3, <1>4, <1>6, <2>1, <2>5, <2>6 DEF BodyInv
<1>17. CASE BodyReturns
  <2>1. UNCHANGED <<body, round, at, child, chats, root, prev, broke, given, made, request>> /\ bpc = "next" /\ bpc' = "returned"
    BY <1>17 DEF BodyReturns
  <2>2. BodyTypes'
    BY <1>2, <2>1 DEF BodyInv, BodyTypes
  <2> QED
    BY <1>3, <1>4, <1>5, <1>6, <2>1, <2>2 DEF BodyInv
<1>18. CASE BodyEnded \/ UNCHANGED bodyVars
  <2>1. UNCHANGED <<body, round, at, child, chats, root, prev, broke, given, made, request, bpc>>
    BY <1>18 DEF BodyEnded, bodyVars
  <2>2. BodyTypes'
    BY <1>2, <2>1 DEF BodyInv, BodyTypes
  <2> QED
    BY <1>3, <1>4, <1>5, <1>6, <2>1, <2>2 DEF BodyInv
<1> QED
  BY <1>10, <1>11, <1>12, <1>13, <1>14, <1>15, <1>16, <1>17, <1>18 DEF BodyNext, BodyRunner

\* For scopes of any steps and any number of iterations, and however they are skipped, broken off, cut or refused:
\* an iteration sees only its own context and the one value handed on, and chat histories stay well formed.
THEOREM BodyIsSafe == BodySpec => []BodySafe
<1>1. BodyInit => BodyInv
  <2> SUFFICES ASSUME BodyInit PROVE BodyInv
    OBVIOUS
  <2>1. Size \in Nat /\ Rounds \in Nat
    BY BodyType DEF BodyInit
  <2>2. BodyTypes
    <3>1. /\ body \in Bodies /\ round = 0 /\ at = 0 /\ broke \in BOOLEAN /\ bpc = "next" /\ made = << >> /\ given = << >>
      BY DEF BodyInit
    <3>2. round \in 0..Rounds /\ at \in 0..Size + 1
      BY <2>1, <3>1
    <3> QED
      BY <3>1, <3>2 DEF BodyTypes
  <2>3. ContextInv
    BY DEF BodyInit, ContextInv, BlankChild, Nothing, Pairs
  <2>4. ChatInv
    BY DEF BodyInit, ChatInv, TurnsPaired
  <2>5. OutputsInv /\ WindowFits
    BY DEF BodyInit, OutputsInv, CarriesOutput, WindowFits
  <2> QED
    BY <2>2, <2>3, <2>4, <2>5 DEF BodyInv
<1>2. BodyInv => BodySafe
  <2> SUFFICES ASSUME BodyInv PROVE BodySafe
    OBVIOUS
  <2>1. Rounds \in Nat /\ round \in Nat
    BY BodyType DEF BodyInv, BodyTypes
  <2>2. BodyTypeOK
    BY <2>1 DEF BodyInv, BodyTypes, BodyTypeOK
  <2>3. RoundsIsolated
    BY DEF BodyInv, ContextInv, ChatInv, RoundsIsolated
  <2>4. OutputOfRound
    BY DEF BodyInv, ContextInv, OutputsInv, OutputOfRound
  <2> QED
    BY <2>2, <2>3, <2>4 DEF BodyInv, ChatInv, OutputsInv, BodySafe
<1> QED
  BY <1>1, <1>2, BodyStep, PTL DEF BodySpec
-----------------------------------------------------------------------------
(* V1Proxy *)

\* What is buffered before a request is judged is within the limit, one that is checked is whole, and what
\* was forwarded was allowed.
ProxyInv ==
    /\ proxied \in {"off", "on", "stopped"} /\ req \in Requests /\ got \in Nat /\ got <= Limit + Chunk
    /\ conn \in {"none", "reading", "checking", "upstream", "closed"}
    /\ conn \in {"none", "reading"} => got <= Limit
    /\ conn = "checking" => Complete(got)
    /\ upstream = << >> \/ (upstream = <<got>> /\ Allowed(req) /\ Complete(got) /\ conn \in {"upstream", "closed"})
    /\ KeyStaysOnHost

\* The proxy reads, judges and forwards within ProxyInv.
LEMMA ProxyStep == ProxyInv /\ [ProxyNext]_proxyVars => ProxyInv'
<1> SUFFICES ASSUME ProxyInv, [ProxyNext]_proxyVars PROVE ProxyInv'
  OBVIOUS
<1>1. /\ req \in Requests /\ req.head \in Nat /\ req.length \in Nat /\ req.size \in Nat
      /\ Chunk \in Nat /\ Limit \in Nat /\ got \in Nat
  BY ProxyAssumption DEF ProxyInv, Request
<1>2. CASE ProxyStart \/ ProxyStop
  BY <1>2 DEF ProxyStart, ProxyStop, connVars, ProxyInv, KeyStaysOnHost, Complete
<1>3. CASE CreateEnv
  <2>1. KeyStaysOnHost'
    BY <1>3 DEF CreateEnv, KeyStaysOnHost, EnvWithProxy
  <2> QED
    BY <1>3, <2>1 DEF CreateEnv, connVars, ProxyInv, Complete
<1>4. CASE Accept
  BY <1>4 DEF Accept, ProxyInv, KeyStaysOnHost, Complete
<1>5. CASE Read
  <2>1. PICK n \in 1..Chunk :
          /\ got + n <= req.size /\ got' = got + n
          /\ CASE Complete(got') -> conn' = "checking" /\ UNCHANGED reply
               [] TooLarge(got') /\ ~Complete(got') -> Close("413")
               [] OTHER -> UNCHANGED <<conn, reply>>
    BY <1>5 DEF Read
  <2>2. UNCHANGED <<proxied, req, upstream, cenv>> /\ conn = "reading" /\ got <= Limit /\ upstream = << >>
    BY <1>5 DEF Read, ProxyFrame, ProxyInv
  <2>3. got' \in Nat /\ got' <= Limit + Chunk
    BY <1>1, <2>1, <2>2
  <2>4. CASE Complete(got')
    BY <2>1, <2>2, <2>3, <2>4 DEF ProxyInv, KeyStaysOnHost, Complete
  <2>5. CASE ~Complete(got') /\ TooLarge(got')
    BY <2>1, <2>2, <2>3, <2>5 DEF ProxyInv, KeyStaysOnHost, Close
  <2>6. CASE ~Complete(got') /\ ~TooLarge(got')
    <3>1. conn' = conn /\ got' <= Limit
      BY <1>1, <2>1, <2>3, <2>6 DEF TooLarge
    <3> QED
      BY <2>2, <2>3, <3>1 DEF ProxyInv, KeyStaysOnHost
  <2> QED
    BY <2>4, <2>5, <2>6
<1>6. CASE ClientCloses \/ Refuse \/ Relay
  BY <1>6 DEF ClientCloses, Refuse, Relay, Close, ProxyFrame, ProxyInv, KeyStaysOnHost, Complete
<1>7. CASE Forward
  BY <1>7 DEF Forward, ProxyFrame, ProxyInv, KeyStaysOnHost, Complete
<1>8. CASE ProxyIdle \/ UNCHANGED proxyVars
  BY <1>8 DEF ProxyIdle, proxyVars, ProxyInv, KeyStaysOnHost, Complete
<1> QED
  BY <1>2, <1>3, <1>4, <1>5, <1>6, <1>7, <1>8 DEF ProxyNext, ProxyServe

\* For requests of any size that arrive in pieces of any size, and for every list of names: the host's API key
\* is never in the container, and what is sent upstream with it is a whole request with the session's token.
THEOREM ProxyIsSafe == ProxySpec => []ProxySafe
<1>1. ProxyInit => ProxyInv
  BY ProxyAssumption DEF ProxyInit, ProxyInv, KeyStaysOnHost
<1>2. ProxyInv => ProxySafe
  <2> SUFFICES ASSUME ProxyInv PROVE ProxySafe
    OBVIOUS
  <2>1. req.head \in Nat /\ req.length \in Nat /\ got \in Nat
    BY ProxyAssumption DEF ProxyInv, Request
  <2>2. ProxyTypeOK
    <3>1. upstream = << >> \/ upstream = <<got>>
      BY DEF ProxyInv
    <3>2. Len(upstream) <= 1
      <4>1. CASE upstream = << >>
        BY <4>1
      <4>2. CASE upstream = <<got>>
        BY <4>2
      <4> QED
        BY <3>1, <4>1, <4>2
    <3> QED
      BY <3>2 DEF ProxyInv, ProxyTypeOK
  <2>3. ForwardedWholeAndKnown
    BY <2>1 DEF ProxyInv, ForwardedWholeAndKnown, Allowed, Complete
  <2> QED
    BY <2>2, <2>3 DEF ProxyInv, ProxySafe
<1> QED
  BY <1>1, <1>2, ProxyStep, PTL DEF ProxySpec

-----------------------------------------------------------------------------
(* V1Template *)

\* What preprocessing has read of an expression it is past: a from() has its variable, only a safe accessor
\* names a missing step, and a prompt has its variable.
ReadInv ==
    \A i \in 1..next - 1 :
        /\ template[i].via = "from" =>
              /\ template[i].access # "strict" /\ injected[Var(template[i].name)] # "none"
              /\ template[i].name \notin present => template[i].access = "safe"
        /\ template[i].via = "path" /\ template[i].access = "strict" => template[i].name \in present
        /\ template[i].via = "prompt" => inlined[Var(template[i].name)] # << >>

\* w is the prompt of expression f, the first that needs variable v.
InlinedBy(f, v, w) ==
    /\ template[f].via = "prompt" /\ Var(template[f].name) = v
    /\ \A g \in 1..f - 1 : ~(template[g].via = "prompt" /\ Var(template[g].name) = v)
    /\ Found(template[f].name) # {} /\ w = <<template[f].name, FirstFound(template[f].name)>>

\* A prompt variable holds the prompt of the first expression that needs it, found in a file there is.
InlinedInv == \A v \in Vars : inlined[v] # << >> => \E f \in 1..next - 1 : InlinedBy(f, v, inlined[v])

\* A variable holds the name of a step that is there and that an expression already read names, if one does.
InjectedInv ==
    \A v \in Vars :
        IF injected[v] \in Names
        THEN \E i \in 1..next - 1 : /\ template[i].via = "from" /\ template[i].name = injected[v]
                                    /\ template[i].name \in present /\ Var(template[i].name) = v
        ELSE \A i \in 1..next - 1 : template[i].via = "from" /\ Var(template[i].name) = v =>
                                    template[i].name \notin present

\* A rendering is an error, or was made when everything had been read and Tera knew every name.
RenderingInv ==
    \/ rendering = << >> \/ rendering = <<"error">>
    \/ /\ next = Len(template) + 1 /\ \A i \in DOMAIN template : ~TeraFails(template[i])
       /\ rendering = <<"ok">> \o [i \in DOMAIN template |-> ValueOf(template[i])]

TemplateInv ==
    /\ template \in Templates /\ stack \in Stacks /\ next \in 1..Len(template) + 1
    /\ injected \in [Vars -> {"none", ""} \cup Names] /\ inlined = [v \in Vars |-> inlined[v]]
    /\ ReadInv /\ InjectedInv /\ InlinedInv /\ RenderingInv

\* A template is a sequence of expressions.
LEMMA TemplateType ==
    ASSUME template \in Templates
    PROVE  /\ template \in Seq(Expr) /\ Len(template) \in Nat /\ DOMAIN template = 1..Len(template)
           /\ \A i \in 1..Len(template) : template[i] \in Expr /\ template[i].via \in {"from", "path", "prompt"}
                                          /\ template[i].name \in Names /\ Var(template[i].name) \in Vars
                                          /\ template[i].access \in {"normal", "safe", "strict"}
<1>1. template \in Seq(Expr)
  BY TemplateAssumption
<1>2. Len(template) \in Nat /\ DOMAIN template = 1..Len(template) /\ \A i \in 1..Len(template) : template[i] \in Expr
  BY <1>1
<1> QED
  BY <1>1, <1>2 DEF Expr, Var, Vars, Names

\* The places before the next one.
LEMMA OneMore ==
    ASSUME NEW n \in Nat, NEW k \in 1..n + 1, k <= n
    PROVE  k + 1 \in 1..n + 1 /\ 1..(k + 1) - 1 = (1..k - 1) \cup {k} /\ 1..k - 1 \subseteq 1..n
OBVIOUS

\* A pair is not the empty sequence.
LEMMA PairNotEmpty == \A x, y : <<x, y>> # << >>
<1> SUFFICES ASSUME NEW x, NEW y, <<x, y>> = << >> PROVE FALSE
  OBVIOUS
<1>1. Len(<<x, y>>) = 2 /\ Len(<< >>) = 0
  OBVIOUS
<1> QED
  BY <1>1

\* The prompt variables behind the next expression: as they were, or one of them set for it.
InlineStep(inl) ==
    /\ inl = [v \in Vars |-> inl[v]]
    /\ \A v \in Vars : \/ inl[v] = inlined[v]
                       \/ /\ This.via = "prompt" /\ Var(This.name) = v /\ inlined[v] = << >>
                          /\ Found(This.name) # {} /\ inl[v] = <<This.name, FirstFound(This.name)>>

\* Reading the next expression keeps what was read before and what is read now.
LEMMA AdvanceStep ==
    ASSUME TemplateInv, Unread, NEW STATE inj, inj \in [Vars -> {"none", ""} \cup Names], NEW STATE inl, Advance(inj, inl),
           InlineStep(inl),
           \A v \in Vars : injected[v] # "none" => inj[v] # "none",
           \A v \in Vars : IF inj[v] \in Names
                           THEN inj[v] = injected[v] \/ (This.via = "from" /\ This.name = inj[v] /\ inj[v] \in present
                                                         /\ Var(This.name) = v)
                           ELSE /\ injected[v] \notin Names
                                /\ This.via = "from" /\ Var(This.name) = v => This.name \notin present,
           This.via = "from" => /\ This.access # "strict" /\ inj[Var(This.name)] # "none"
                                /\ This.name \notin present => This.access = "safe",
           This.via = "path" /\ This.access = "strict" => This.name \in present,
           This.via = "prompt" => inl[Var(This.name)] # << >>
    PROVE  TemplateInv'
<1>1. /\ template' = template /\ present' = present /\ stack' = stack /\ prompts' = prompts /\ rendering' = << >>
      /\ next' = next + 1 /\ injected' = inj /\ inlined' = inl /\ rendering = << >> /\ next <= Len(template)
  BY DEF Advance, Inputs, Unread
<1>2. /\ next \in 1..Len(template) + 1 /\ next' \in 1..Len(template) + 1 /\ Len(template) \in Nat
      /\ 1..next' - 1 = (1..next - 1) \cup {next} /\ 1..next - 1 \subseteq 1..Len(template)
  <2>1. Len(template) \in Nat /\ next \in 1..Len(template) + 1
    BY TemplateType DEF TemplateInv
  <2> QED
    BY <1>1, <2>1, OneMore
<1>3. \A i \in 1..Len(template) : Var(template[i].name) \in Vars
  BY TemplateType DEF TemplateInv
<1>4. \A n : Found(n)' = Found(n) /\ FirstFound(n)' = FirstFound(n)
  BY <1>1 DEF Found, FirstFound, Candidates
<1>10. \A v \in Vars : inlined[v] # << >> => inl[v] = inlined[v]
  BY DEF InlineStep
<1>5. ReadInv'
  <2> SUFFICES ASSUME NEW i \in (1..next - 1) \cup {next}
        PROVE  /\ template[i].via = "from" =>
                    /\ template[i].access # "strict" /\ inj[Var(template[i].name)] # "none"
                    /\ template[i].name \notin present => template[i].access = "safe"
               /\ template[i].via = "path" /\ template[i].access = "strict" => template[i].name \in present
               /\ template[i].via = "prompt" => inl[Var(template[i].name)] # << >>
    BY <1>1, <1>2 DEF ReadInv, Var
  <2>1. CASE i = next
    BY <2>1 DEF This
  <2>2. CASE i \in 1..next - 1
    BY <1>2, <1>3, <1>10, <2>2 DEF TemplateInv, ReadInv
  <2> QED
    BY <2>1, <2>2
<1>6. InjectedInv'
  <2> SUFFICES ASSUME NEW v \in Vars
        PROVE  IF inj[v] \in Names
               THEN \E i \in 1..next' - 1 : /\ template[i].via = "from" /\ template[i].name = inj[v]
                                            /\ template[i].name \in present /\ Var(template[i].name) = v
               ELSE \A i \in 1..next' - 1 : template[i].via = "from" /\ Var(template[i].name) = v =>
                                            template[i].name \notin present
    BY <1>1 DEF InjectedInv, Var
  <2>1. CASE inj[v] \in Names
    <3>1. CASE inj[v] = injected[v]
      BY <1>2, <2>1, <3>1 DEF TemplateInv, InjectedInv
    <3>2. CASE This.via = "from" /\ This.name = inj[v] /\ inj[v] \in present /\ Var(This.name) = v
      BY <1>2, <2>1, <3>2 DEF This
    <3> QED
      BY <2>1, <3>1, <3>2
  <2>2. CASE inj[v] \notin Names
    BY <1>2, <2>2 DEF TemplateInv, InjectedInv, This
  <2> QED
    BY <2>1, <2>2
<1>7. InlinedInv'
  <2>3. \A f, v, w : InlinedBy(f, v, w)' <=> InlinedBy(f, v, w)
    BY <1>1, <1>4 DEF InlinedBy, Var
  <2> SUFFICES ASSUME NEW v \in Vars, inl[v] # << >>
        PROVE  \E f \in (1..next - 1) \cup {next} : InlinedBy(f, v, inl[v])
    BY <1>1, <1>2, <2>3 DEF InlinedInv
  <2>1. CASE inl[v] = inlined[v]
    BY <2>1 DEF TemplateInv, InlinedInv
  <2>2. CASE /\ This.via = "prompt" /\ Var(This.name) = v /\ inlined[v] = << >>
             /\ Found(This.name) # {} /\ inl[v] = <<This.name, FirstFound(This.name)>>
    <3>1. \A g \in 1..next - 1 : ~(template[g].via = "prompt" /\ Var(template[g].name) = v)
      BY <2>2 DEF TemplateInv, ReadInv
    <3>2. InlinedBy(next, v, inl[v])
      BY <2>2, <3>1 DEF This, InlinedBy
    <3> QED
      BY <3>2
  <2> QED
    BY <2>1, <2>2 DEF InlineStep
<1>8. inlined' = [v \in Vars |-> inlined[v]]'
  BY <1>1 DEF InlineStep
<1> QED
  BY <1>1, <1>2, <1>5, <1>6, <1>7, <1>8 DEF TemplateInv, RenderingInv

\* ReadInv, InjectedInv and InlinedInv are about the inputs and the reader's place, not about the rendering.
LEMMA ReadFrame ==
    ASSUME UNCHANGED <<template, present, stack, prompts, next, injected, inlined>>, ReadInv, InjectedInv, InlinedInv
    PROVE  ReadInv' /\ InjectedInv' /\ InlinedInv'
<1>1. Candidates' = Candidates
  BY DEF Candidates
<1>2. \A n : Found(n)' = Found(n) /\ FirstFound(n)' = FirstFound(n)
  BY <1>1 DEF Found, FirstFound
<1>3. ReadInv'
  BY DEF ReadInv, Var
<1>4. InjectedInv'
  BY DEF InjectedInv, Var
<1>5. InlinedInv'
  <2>1. \A f, v, w : InlinedBy(f, v, w)' <=> InlinedBy(f, v, w)
    BY <1>2 DEF InlinedBy, Var
  <2> QED
    BY <2>1 DEF InlinedInv
<1> QED
  BY <1>3, <1>4, <1>5

\* Every action keeps TemplateInv.
LEMMA TemplateStep == TemplateInv /\ [TemplateNext]_templateVars => TemplateInv'
<1> SUFFICES ASSUME TemplateInv, [TemplateNext]_templateVars PROVE TemplateInv'
  OBVIOUS
<1>1. /\ template \in Templates /\ injected \in [Vars -> {"none", ""} \cup Names]
      /\ \A v \in Vars : injected[v] \in {"none", ""} \cup Names
  BY DEF TemplateInv
<1>2. Unread => This \in Expr /\ Var(This.name) \in Vars /\ This.name \in Names /\ This.via \in {"from", "path", "prompt"}
  <2>1. Len(template) \in Nat /\ next \in 1..Len(template) + 1
    BY <1>1, TemplateType DEF TemplateInv
  <2>2. Unread => next \in 1..Len(template)
    BY <2>1 DEF Unread
  <2> QED
    BY <1>1, <2>2, TemplateType DEF This
<1>3. CASE Fails /\ rendering = << >>
  <2>1. UNCHANGED <<template, present, stack, prompts, next, injected, inlined>> /\ rendering' = <<"error">>
    BY <1>3 DEF Fails, Inputs
  <2>2. ReadInv' /\ InjectedInv' /\ InlinedInv'
    BY <2>1, ReadFrame DEF TemplateInv
  <2> QED
    BY <2>1, <2>2 DEF TemplateInv, RenderingInv
<1>4. "none" \notin Names /\ "" \notin Names
  BY DEF Names
<1>11. InlineStep(inlined)
  BY DEF InlineStep, TemplateInv
<1>5. CASE FromCall
  <2> DEFINE v == Var(This.name)
  <2>1. Unread /\ This.via = "from" /\ This.access # "strict" /\ rendering = << >>
    BY <1>5 DEF FromCall, Unread
  <2>2. CASE This.name \in present
    <3> DEFINE inj == [injected EXCEPT ![Var(This.name)] = This.name]
    <3>1. Advance(inj, inlined) /\ inj \in [Vars -> {"none", ""} \cup Names]
      BY <1>1, <1>2, <1>5, <2>1, <2>2 DEF FromCall
    <3>2. \A u \in Vars : inj[u] = IF u = Var(This.name) THEN This.name ELSE injected[u]
      BY <1>1
    <3> HIDE DEF inj
    <3> QED
      BY <1>2, <1>4, <1>11, <2>1, <2>2, <3>1, <3>2, AdvanceStep
  <2>3. CASE This.name \notin present /\ This.access = "safe"
    <3> DEFINE inj == Sentinel(Var(This.name))
    <3>1. Advance(inj, inlined) /\ inj \in [Vars -> {"none", ""} \cup Names]
      BY <1>1, <1>2, <1>5, <2>1, <2>3 DEF FromCall, Sentinel
    <3>2. \A u \in Vars : inj[u] = IF u = Var(This.name) /\ injected[u] = "none" THEN "" ELSE injected[u]
      BY <1>1 DEF Sentinel
    <3> HIDE DEF inj
    <3> QED
      BY <1>2, <1>4, <1>11, <2>1, <2>3, <3>1, <3>2, AdvanceStep
  <2>4. CASE This.name \notin present /\ This.access # "safe"
    BY <1>3, <1>5, <2>1, <2>4 DEF FromCall
  <2> QED
    BY <2>2, <2>3, <2>4
<1>6. CASE StrictFrom
  BY <1>3, <1>6 DEF StrictFrom, Unread
<1>7. CASE PathExpr
  <2>1. CASE This.access = "strict" /\ This.name \notin present
    BY <1>3, <1>7, <2>1 DEF PathExpr, Unread
  <2>2. CASE ~(This.access = "strict" /\ This.name \notin present)
    <3>1. Unread /\ This.via = "path" /\ Advance(injected, inlined)
      BY <1>7, <2>2 DEF PathExpr
    <3> QED
      BY <1>1, <1>11, <2>2, <3>1, AdvanceStep
  <2> QED
    BY <2>1, <2>2
<1>8. CASE PromptExpr
  <2>1. CASE inlined[Var(This.name)] # << >>
    <3>1. Unread /\ This.via = "prompt" /\ Advance(injected, inlined)
      BY <1>8, <2>1 DEF PromptExpr
    <3> QED
      BY <1>1, <1>11, <2>1, <3>1, AdvanceStep
  <2>2. CASE inlined[Var(This.name)] = << >> /\ (stack = << >> \/ Found(This.name) = {})
    BY <1>3, <1>8, <2>2 DEF PromptExpr, Unread
  <2>3. CASE inlined[Var(This.name)] = << >> /\ ~(stack = << >> \/ Found(This.name) = {})
    <3> DEFINE inl == [inlined EXCEPT ![Var(This.name)] = <<This.name, FirstFound(This.name)>>]
    <3>1. Unread /\ This.via = "prompt" /\ Advance(injected, inl)
      BY <1>8, <2>3 DEF PromptExpr
    <3>2. \A u \in Vars : inl[u] = IF u = Var(This.name) THEN <<This.name, FirstFound(This.name)>> ELSE inlined[u]
      BY DEF TemplateInv
    <3> HIDE DEF inl
    <3>3. InlineStep(inl)
      <4>1. inl = [v \in Vars |-> inl[v]]
        BY DEF inl, TemplateInv
      <4> QED
        BY <2>3, <3>1, <3>2, <4>1 DEF InlineStep
    <3>4. inl[Var(This.name)] # << >>
      BY <1>2, <3>1, <3>2, PairNotEmpty
    <3> QED
      BY <1>1, <3>1, <3>3, <3>4, AdvanceStep
  <2> QED
    BY <2>1, <2>2, <2>3
<1>9. CASE Render
  <2>1. UNCHANGED <<template, present, stack, prompts, next, injected, inlined>> /\ next > Len(template)
    BY <1>9 DEF Render, Inputs
  <2>2. next = Len(template) + 1
    <3>1. Len(template) \in Nat /\ next \in 1..Len(template) + 1
      BY <1>1, TemplateType DEF TemplateInv
    <3> QED
      BY <2>1, <3>1
  <2>3. RenderingInv'
    <3>1. CASE \E i \in DOMAIN template : TeraFails(template[i])
      BY <1>9, <3>1 DEF Render, RenderingInv
    <3>2. CASE ~\E i \in DOMAIN template : TeraFails(template[i])
      <4>1. rendering' = <<"ok">> \o [i \in DOMAIN template |-> ValueOf(template[i])]
        BY <1>9, <3>2 DEF Render
      <4>2. \A i \in DOMAIN template : ValueOf(template[i])' = ValueOf(template[i])
        BY <2>1 DEF ValueOf, Var
      <4>3. [i \in DOMAIN template |-> ValueOf(template[i])]' = [i \in DOMAIN template |-> ValueOf(template[i])]
        BY <2>1, <4>2
      <4>4. \A i \in DOMAIN template' : ~TeraFails(template[i])'
        BY <2>1, <3>2 DEF TeraFails
      <4> QED
        BY <2>1, <2>2, <4>1, <4>3, <4>4 DEF RenderingInv
    <3> QED
      BY <3>1, <3>2
  <2> QED
    BY <2>1, <2>3, ReadFrame DEF TemplateInv
<1>10. CASE Rendered \/ UNCHANGED templateVars
  <2>1. UNCHANGED templateVars
    BY <1>10 DEF Rendered
  <2>2. UNCHANGED <<template, present, stack, prompts, next, injected, inlined, rendering>>
    BY <2>1 DEF templateVars
  <2>3. ReadInv' /\ InjectedInv' /\ InlinedInv'
    BY <2>2, ReadFrame DEF TemplateInv
  <2>4. \A i \in DOMAIN template : ValueOf(template[i])' = ValueOf(template[i])
    BY <2>2 DEF ValueOf, Var
  <2>5. [i \in DOMAIN template |-> ValueOf(template[i])]' = [i \in DOMAIN template |-> ValueOf(template[i])]
    BY <2>2, <2>4
  <2>6. RenderingInv'
    BY <2>2, <2>5 DEF TemplateInv, RenderingInv, TeraFails
  <2> QED
    BY <2>2, <2>3, <2>6 DEF TemplateInv
<1> QED
  BY <1>5, <1>6, <1>7, <1>8, <1>9, <1>10 DEF TemplateNext

\* A prompt is rendered from the first candidate that has a file: no stack before it has one.
LEMMA FirstIsFound ==
    ASSUME stack \in Stacks, NEW n, Found(n) # {}
    PROVE  /\ FirstFound(n) \in {Candidates[k] : k \in DOMAIN Candidates}
           /\ \A k \in DOMAIN stack : <<n, stack[k]>> \in prompts => \E j \in 1..k : FirstFound(n) = stack[j]
<1>1. stack \in Seq(STRING)
  BY TemplateAssumption
<1>2. Len(stack) \in Nat /\ DOMAIN stack = 1..Len(stack) /\ DOMAIN Candidates = 1..Len(stack) + 1
  BY <1>1 DEF Candidates
<1>3. \A j \in DOMAIN stack : Candidates[j] = stack[j]
  BY <1>1, <1>2 DEF Candidates
<1> DEFINE m == CHOOSE i \in Found(n) : \A j \in Found(n) : i <= j
<1>4. Found(n) \subseteq Nat
  BY <1>2 DEF Found
<1>5. m \in Found(n) /\ \A j \in Found(n) : m <= j
  BY <1>4, LeastNumber
<1>6. FirstFound(n) = Candidates[m] /\ m \in 1..Len(stack) + 1
  BY <1>2, <1>5 DEF FirstFound, Found
<1> HIDE DEF m
<1>7. ASSUME NEW k \in DOMAIN stack, <<n, stack[k]>> \in prompts PROVE \E j \in 1..k : FirstFound(n) = stack[j]
  <2>1. k \in Found(n)
    BY <1>2, <1>3, <1>7 DEF Found
  <2>2. m \in 1..k /\ m \in DOMAIN stack
    BY <1>2, <1>5, <1>6, <2>1
  <2> QED
    BY <1>3, <1>6, <2>2
<1> QED
  BY <1>2, <1>6, <1>7

\* For any template, any set of steps and any stacks and prompt files: what a template renders is what its
\* expressions name, and two prompts that share a variable render the one that comes first.
THEOREM TemplateIsSafe == TemplateSpec => []TemplateSafe
<1>1. TemplateInit => TemplateInv
  <2> SUFFICES ASSUME TemplateInit PROVE TemplateInv
    OBVIOUS
  <2>1. Len(template) \in Nat
    BY TemplateType DEF TemplateInit
  <2>2. next \in 1..Len(template) + 1 /\ 1..next - 1 = {}
    BY <2>1 DEF TemplateInit
  <2>3. \A v \in Vars : injected[v] = "none" /\ injected[v] \notin Names
    BY DEF TemplateInit, Names
  <2> QED
    BY <2>2, <2>3 DEF TemplateInit, TemplateInv, ReadInv, InjectedInv, InlinedInv, RenderingInv
<1>2. TemplateInv => TemplateSafe
  <2> SUFFICES ASSUME TemplateInv, Ok PROVE TemplateSafe
    BY DEF TemplateSafe, EachItsOwn, MissingIsSafe, MostSpecificPrompt
  <2> DEFINE vals == [i \in DOMAIN template |-> ValueOf(template[i])]
  <2>1. /\ next = Len(template) + 1 /\ \A i \in DOMAIN template : ~TeraFails(template[i])
        /\ rendering = <<"ok">> \o vals
    <3>1. rendering # << >> /\ rendering # <<"error">>
      BY DEF Ok
    <3> QED
      BY <3>1 DEF TemplateInv, RenderingInv
  <2>2. Len(template) \in Nat /\ DOMAIN template = 1..Len(template) /\ 1..next - 1 = DOMAIN template
    <3>1. Len(template) \in Nat /\ DOMAIN template = 1..Len(template)
      BY TemplateType DEF TemplateInv
    <3> QED
      BY <2>1, <3>1
  <2>3. \A i \in DOMAIN template : rendering[i + 1] = ValueOf(template[i])
    <3>1. \A i \in DOMAIN template : vals[i] = ValueOf(template[i])
      OBVIOUS
    <3> DEFINE V == {ValueOf(template[i]) : i \in DOMAIN template} \cup {"ok"}
    <3>2. vals \in Seq(V) /\ Len(vals) = Len(template) /\ <<"ok">> \in Seq(V) /\ Len(<<"ok">>) = 1
      BY <2>2
    <3> HIDE DEF vals, V
    <3> SUFFICES ASSUME NEW i \in DOMAIN template PROVE rendering[i + 1] = vals[i]
      BY <3>1
    <3>3. i \in 1..Len(vals) /\ i + 1 \in 1..Len(<<"ok">>) + Len(vals) /\ i + 1 > Len(<<"ok">>) /\ (i + 1) - 1 = i
      BY <2>2, <3>2
    <3>4. (<<"ok">> \o vals)[i + 1] = vals[(i + 1) - Len(<<"ok">>)]
      BY <3>2, <3>3, ConcatProperties
    <3> QED
      BY <2>1, <3>2, <3>3, <3>4
  <2>4. \A i \in DOMAIN template : /\ template[i].via \in {"from", "path", "prompt"} /\ template[i].name \in Names
                                   /\ Var(template[i].name) \in Vars
                                   /\ template[i].access \in {"normal", "safe", "strict"}
    BY <2>2, TemplateType DEF TemplateInv
  <2>5. ASSUME NEW i \in DOMAIN template, template[i].via # "prompt", ~Shadowed(template[i])
        PROVE  rendering[i + 1] = IF template[i].name \in present THEN template[i].name ELSE ""
    <3>1. CASE template[i].via = "path"
      BY <2>3, <3>1 DEF ValueOf
    <3>2. CASE template[i].via = "from"
      <4> DEFINE v == Var(template[i].name)
      <4>1. rendering[i + 1] = injected[v] /\ v \in Vars /\ injected[v] \in {"", "none"} \cup Names /\ injected[v] # "none"
        BY <2>2, <2>3, <2>4, <3>2 DEF ValueOf, TemplateInv, ReadInv
      <4>2. CASE injected[v] \in Names
        BY <2>2, <2>5, <3>2, <4>1, <4>2 DEF TemplateInv, InjectedInv, Shadowed
      <4>3. CASE injected[v] \notin Names
        BY <2>2, <2>5, <3>2, <4>1, <4>3 DEF TemplateInv, InjectedInv
      <4> QED
        BY <4>2, <4>3
    <3> QED
      BY <2>4, <2>5, <3>1, <3>2
  <2>6. ASSUME NEW i \in DOMAIN template, template[i].via # "prompt", template[i].name \notin present
        PROVE  template[i].access = "safe"
    BY <2>1, <2>2, <2>4, <2>6 DEF TemplateInv, ReadInv, TeraFails
  <2>7. ASSUME NEW i \in DOMAIN template, template[i].via = "prompt"
        PROVE  \E f \in 1..i, s \in {Candidates[k] : k \in DOMAIN Candidates} :
                   /\ Opens(f, template[i]) /\ rendering[i + 1] = <<template[f].name, s>>
                   /\ \A k \in DOMAIN stack : <<template[f].name, stack[k]>> \in prompts => \E j \in 1..k : s = stack[j]
    <3> DEFINE v == Var(template[i].name)
    <3>1. rendering[i + 1] = inlined[v] /\ v \in Vars /\ inlined[v] # << >>
      BY <2>2, <2>3, <2>4, <2>7 DEF ValueOf, TemplateInv, ReadInv
    <3>6. PICK f \in DOMAIN template : InlinedBy(f, v, inlined[v])
      BY <2>2, <3>1 DEF TemplateInv, InlinedInv
    <3>2. /\ template[f].via = "prompt" /\ Var(template[f].name) = v
          /\ \A g \in 1..f - 1 : ~(template[g].via = "prompt" /\ Var(template[g].name) = v)
          /\ Found(template[f].name) # {} /\ inlined[v] = <<template[f].name, FirstFound(template[f].name)>>
      BY <3>6 DEF InlinedBy
    <3>3. f \in 1..i
      BY <2>2, <2>7, <3>2
    <3>4. Opens(f, template[i])
      BY <3>2 DEF Opens
    <3>5. /\ FirstFound(template[f].name) \in {Candidates[k] : k \in DOMAIN Candidates}
          /\ \A k \in DOMAIN stack : <<template[f].name, stack[k]>> \in prompts =>
                 \E j \in 1..k : FirstFound(template[f].name) = stack[j]
      BY <3>2, FirstIsFound DEF TemplateInv
    <3> QED
      BY <3>1, <3>2, <3>3, <3>4, <3>5
  <2> QED
    BY <2>5, <2>6, <2>7 DEF TemplateSafe, EachItsOwn, MissingIsSafe, MostSpecificPrompt
<1> QED
  BY <1>1, <1>2, TemplateStep, PTL DEF TemplateSpec
=============================================================================

------------------------------- MODULE Scope --------------------------------
(***************************************************************************)
(* The scope runner of crates/stepyard-harness/src/scope.rs: one call,     *)
(* repeat or map step whose body is walked once per iteration.             *)
(*                                                                         *)
(* Nothing is kept between two processes but the log: run_call, run_repeat *)
(* and run_map rebuild the position inside the loop, the outputs and the   *)
(* value handed to the next iteration from the scoped completions.  Every  *)
(* append is an action, and a crash may fall between any two.              *)
(*                                                                         *)
(* An output is named by the <<iteration, position>> that produced it, and *)
(* an optional output is a sequence of at most one of them.  What is       *)
(* joined from several (the array of a map, the outputs a template refers  *)
(* to) is their sequence, with Top where there is none.  Iterations and    *)
(* positions count from 0, as in the code.                                 *)
(***************************************************************************)
EXTENDS Integers, Sequences

CONSTANTS
    Shapes,      \* the container steps to consider: [kind, body, rounds, override]
    MaxCrashes   \* bound: how often the process dies

BodyKinds == {"cmd", "agent", "chat", "gate", "nested", "other"}

ASSUME ScopeAssumption ==
    /\ \A s \in Shapes :
         /\ s.kind \in {"call", "repeat", "map"} /\ s.body \in Seq(BodyKinds)
         /\ s.rounds \in Nat /\ s.override \in BOOLEAN
         /\ s.kind = "call" => s.rounds = 1
    /\ MaxCrashes \in Nat

VARIABLES
    shape,     \* the container: its kind, body, max_iterations or item count, outputs: template
    slog,      \* the session log from the container's StepStarted on
    srow,      \* status of the session row
    spc,       \* the await the runner is at
    st,        \* ContainerReplayState: next iteration, furthest step, broke, outputs
    at,        \* the iteration and position of run_scope_body
    value,     \* scope.value of the iteration
    bodyOut,   \* last_output of run_scope_body
    final,     \* last_output of run_call, last_output_final of run_repeat
    verdict,   \* how the body step or the container is going to end
    gate,      \* what a gate decided
    inputs,    \* which of cancel and shutdown have been raised
    crashes

locals == <<st, at, value, bodyOut, final, verdict, gate>>
scopeVars == <<shape, slog, srow, spc, locals, inputs, crashes>>

\* Where an event without a scope_context is.
Top == <<-1, -1>>
Entry(name, where, out, g) == [ev |-> name, at |-> where, out |-> out, gate |-> g]
Plain(name) == Entry(name, Top, << >>, "none")
Kind == shape.body[at[2] + 1]
OrElse(a, b) == IF a # << >> THEN a ELSE b
Least(s) == CHOOSE x \in s : \A y \in s : x <= y
Greatest(s) == CHOOSE x \in s : \A y \in s : y <= x

-----------------------------------------------------------------------------
(* What is read from the log. *)

\* The places of the completed body steps.
Scoped(l) == {k \in DOMAIN l : l[k].ev = "step_completed" /\ l[k].at # Top}
Round(l, i) == {k \in Scoped(l) : l[k].at[1] = i}
Iterations(l) == {l[k].at[1] : k \in Scoped(l)}
Positions(l, i) == {l[k].at[2] : k \in Round(l, i)}
GatesOf(l, i) == {l[k].gate : k \in Round(l, i)}
Before(a, b) == a[1] < b[1] \/ (a[1] = b[1] /\ a[2] <= b[2])

WithOutput(l, places) == {k \in places : l[k].out # << >>}
LastOf(l, places) ==
    IF WithOutput(l, places) = {} THEN << >> ELSE l[Greatest(WithOutput(l, places))].out

\* The last output logged for an iteration, of whatever kind of step.
LastOutput(l, i) == LastOf(l, Round(l, i))

\* recover_logged_output: the snapshot of one completed body step.
LoggedOutput(l, where) ==
    LET outs == WithOutput(l, {k \in Scoped(l) : l[k].at = where})
    IN  IF outs = {} THEN << >> ELSE l[Least(outs)].out

\* in_iteration_outputs: the steps.* a template of the iteration can refer to.
InIteration(l, i, before) == [p \in 1..before |-> OrElse(LoggedOutput(l, <<i, p - 1>>), <<Top>>)[1]]

\* Variant: an iteration that a gate skipped is not over until all its positions are.
RoundOver_SkipOpen(l, i) == Positions(l, i) = 0..(Len(shape.body) - 1)

RoundOver(l, i) == Positions(l, i) = 0..(Len(shape.body) - 1) \/ "skip" \in GatesOf(l, i)

\* ContainerReplayState::rebuild.
Rebuild(l) ==
    LET iters == Iterations(l)
        breaks == {i \in iters : "break" \in GatesOf(l, i)}
        stops == {i \in iters : i \in breaks \/ ~RoundOver(l, i)}
        coords == {l[k].at : k \in Scoped(l)}
    IN  [next |-> IF stops # {} THEN Least(stops)
                  ELSE IF iters = {} THEN 0 ELSE Greatest(iters) + 1,
         last |-> IF coords = {} THEN << >>
                  ELSE <<CHOOSE c \in coords : \A d \in coords : Before(d, c)>>,
         broke |-> breaks # {},
         outs |-> [i \in 0..shape.rounds |-> LastOutput(l, i)]]

Failed(l) == \E k \in DOMAIN l : l[k].ev = "step_failed"
ContainerDone(l) == \E k \in DOMAIN l : l[k].ev = "step_completed" /\ l[k].at = Top

-----------------------------------------------------------------------------
Fresh ==
    [st |-> [next |-> 0, last |-> << >>, broke |-> FALSE,
             outs |-> [i \in 0..shape.rounds |-> << >>]],
     at |-> <<0, 0>>]

ScopeInit ==
    /\ shape \in Shapes
    /\ slog = << >> /\ srow = "running" /\ spc = "idle"
    /\ st = Fresh.st /\ at = Fresh.at /\ value = << >> /\ bodyOut = << >> /\ final = << >>
    /\ verdict = "none" /\ gate = "none"
    /\ inputs = {} /\ crashes = 0

Append1(e) == slog' = Append(slog, e)
Same == UNCHANGED <<shape, inputs, crashes>>

(* Engine::step around the container. *)

StepDecided ==
    /\ spc = "idle" /\ (Failed(slog) \/ ContainerDone(slog))
    /\ srow' = IF Failed(slog) /\ srow = "running" THEN "failed" ELSE srow
    /\ spc' = "returned" /\ UNCHANGED <<slog, locals>> /\ Same

\* The fast path of a cancel that came before the step.
StepCancelled ==
    /\ spc = "idle" /\ ~Failed(slog) /\ ~ContainerDone(slog) /\ "cancel" \in inputs
    /\ spc' = "outer" /\ verdict' = "cancelled"
    /\ UNCHANGED <<slog, srow, st, at, value, bodyOut, final, gate>> /\ Same

StepContainer ==
    /\ spc = "idle" /\ ~Failed(slog) /\ ~ContainerDone(slog) /\ "cancel" \notin inputs
    /\ Append1(Plain("step_started"))
    /\ spc' = "enter" /\ UNCHANGED <<srow, locals>> /\ Same

(* run_call, run_repeat and run_map up to the first body step. *)

\* A missing or unknown scope, or items that cannot be rendered.
Reject == spc' = "outer" /\ verdict' = "failed" /\ UNCHANGED <<st, at, value, bodyOut, final, gate>>

StartPosition(s, i) ==
    IF s.last # << >> /\ s.last[1][1] = i THEN s.last[1][2] + 1 ELSE 0

\* Variant: the walk restarts without the outputs of the steps it passes over.
Recovered_Nothing(i, from) == << >>

\* Outputs of the positions that are passed over on a resume: commands only.
Recovered(i, from) ==
    LET known == {p \in 0..(from - 1) : shape.body[p + 1] = "cmd" /\ LoggedOutput(slog, <<i, p>>) # << >>}
    IN  IF known = {} THEN << >> ELSE LoggedOutput(slog, <<i, Greatest(known)>>)

Seed(s, i) == IF shape.kind = "repeat" /\ i > 0 THEN s.outs[i - 1] ELSE << >>

BeginIteration(s, i) ==
    /\ at' = <<i, StartPosition(s, i)>>
    /\ bodyOut' = Recovered(i, StartPosition(s, i))
    /\ value' = Seed(s, i)
    /\ spc' = "body"

EnterCall ==
    /\ spc = "enter" /\ shape.kind = "call"
    /\ \/ Reject
       \/ LET s == Rebuild(slog) IN
          /\ st' = s
          /\ \/ /\ s.next = 0 /\ ~s.broke
                /\ BeginIteration(s, 0) /\ UNCHANGED final
             \/ /\ s.next # 0 \/ s.broke
                /\ final' = s.outs[0] /\ spc' = "synth" /\ UNCHANGED <<at, bodyOut, value>>
          /\ UNCHANGED <<verdict, gate>>
    /\ UNCHANGED <<slog, srow>> /\ Same

EnterRepeat ==
    /\ spc = "enter" /\ shape.kind = "repeat"
    /\ \/ Reject
       \/ LET s == Rebuild(slog)
              prev == IF s.next = 0 THEN 0 ELSE s.next - 1
          IN  /\ st' = s
              /\ final' = IF s.broke THEN OrElse(s.outs[s.next], IF s.next = 0 THEN << >> ELSE s.outs[prev])
                          ELSE s.outs[prev]
              /\ spc' = "loop" /\ UNCHANGED <<at, bodyOut, value, verdict, gate>>
    /\ UNCHANGED <<slog, srow>> /\ Same

EnterMap ==
    /\ spc = "enter" /\ shape.kind = "map"
    /\ \/ Reject
       \/ /\ st' = Rebuild(slog) /\ spc' = "loop"
          /\ UNCHANGED <<at, bodyOut, value, final, verdict, gate>>
    /\ UNCHANGED <<slog, srow>> /\ Same

LoopCancelled ==
    /\ spc' = "outer" /\ verdict' = "cancelled"
    /\ UNCHANGED <<st, at, value, bodyOut, final, gate>>

LoopEnds == spc' = "synth" /\ UNCHANGED locals

\* The bound of both loops: max_iterations of a repeat, the items of a map.
Remaining(i) == i < shape.rounds

LoopRepeat ==
    /\ spc = "loop" /\ shape.kind = "repeat"
    /\ \/ st.broke /\ LoopEnds
       \/ ~st.broke /\ "cancel" \in inputs /\ LoopCancelled
       \/ ~st.broke /\ "cancel" \notin inputs /\ ~Remaining(st.next) /\ LoopEnds
       \/ /\ ~st.broke /\ "cancel" \notin inputs /\ Remaining(st.next)
          /\ BeginIteration(st, st.next) /\ UNCHANGED <<st, final, verdict, gate>>
    /\ UNCHANGED <<slog, srow>> /\ Same

LoopMap ==
    /\ spc = "loop" /\ shape.kind = "map"
    /\ LET more == ~st.broke /\ Remaining(st.next) IN
       \/ ~more /\ LoopEnds
       \/ more /\ "cancel" \in inputs /\ LoopCancelled
       \/ /\ more /\ "cancel" \notin inputs
          /\ BeginIteration(st, st.next) /\ UNCHANGED <<st, final, verdict, gate>>
    /\ UNCHANGED <<slog, srow>> /\ Same

-----------------------------------------------------------------------------
(* run_scope_body and what its caller does with the end of an iteration. *)

\* A completed iteration: the loops store its output and move on.
IterationCompleted(out) ==
    IF shape.kind = "call"
    THEN final' = out /\ spc' = "synth" /\ UNCHANGED st
    ELSE /\ st' = [st EXCEPT !.outs[at[1]] = OrElse(out, @), !.next = @ + 1,
                             !.last = <<<<at[1], IF shape.body = << >> THEN 0 ELSE Len(shape.body) - 1>>>>]
         /\ final' = IF shape.kind = "repeat" THEN OrElse(out, final) ELSE final
         /\ spc' = "loop"

\* A break: the iteration counter stays where it is.
IterationBroken(out) ==
    IF shape.kind = "call"
    THEN final' = out /\ spc' = "synth" /\ UNCHANGED st
    ELSE /\ st' = [st EXCEPT !.broke = TRUE,
                             !.outs[at[1]] = IF shape.kind = "map" THEN OrElse(out, @) ELSE @]
         /\ final' = IF shape.kind = "repeat" THEN OrElse(out, final) ELSE final
         /\ spc' = "loop"

BodyEnd ==
    /\ spc = "body" /\ at[2] >= Len(shape.body)
    /\ IterationCompleted(bodyOut)
    /\ UNCHANGED <<slog, srow, at, value, bodyOut, verdict, gate>> /\ Same

Ending(v, pc) == verdict' = v /\ spc' = pc

BodyCancelled ==
    /\ spc = "body" /\ at[2] < Len(shape.body) /\ "cancel" \in inputs
    /\ Ending("cancelled", "failBody")
    /\ UNCHANGED <<slog, srow, st, at, value, bodyOut, final, gate>> /\ Same

\* A container inside a scope: the failure is the outer container's.
BodyNested ==
    /\ spc = "body" /\ at[2] < Len(shape.body) /\ "cancel" \notin inputs /\ Kind = "nested"
    /\ Append1(Plain("step_failed")) /\ Ending("failed", "finBody")
    /\ UNCHANGED <<srow, st, at, value, bodyOut, final, gate>> /\ Same

\* emit_scope_started, the first thing each run_scope_body_* does.
BodyStart ==
    /\ spc = "body" /\ at[2] < Len(shape.body) /\ "cancel" \notin inputs /\ Kind # "nested"
    /\ Append1(Entry("step_started", at, << >>, "none"))
    /\ spc' = "exec" /\ UNCHANGED <<srow, locals>> /\ Same

\* The races every select of a body step can lose: a cause event precedes the failure.
Interrupted ==
    \/ "cancel" \in inputs /\ Ending("cancelled", "failBody")
    \/ "shutdown" \in inputs /\ Ending("signal", "cause")
    \/ Ending("timeout", "cause")

Broken == Ending("failed", "failBody")

ExecCmd ==
    /\ spc = "exec" /\ Kind = "cmd"
    /\ \/ spc' = "emit" /\ UNCHANGED verdict
       \/ Broken \/ Interrupted
       \/ Ending("idle", "cause")
    /\ UNCHANGED <<slog, srow, st, at, value, bodyOut, final, gate>> /\ Same

ExecAgent ==
    /\ spc = "exec" /\ Kind = "agent"
    /\ \/ spc' = "emit" /\ UNCHANGED verdict
       \/ Broken \/ Interrupted
    /\ UNCHANGED <<slog, srow, st, at, value, bodyOut, final, gate>> /\ Same

\* A chat refuses a bad environment, prompt or key before its user turn is logged.
ExecChat ==
    /\ spc = "exec" /\ Kind = "chat"
    /\ \/ /\ Append1(Plain("chat_user")) /\ spc' = "chatCall" /\ UNCHANGED verdict
       \/ Broken /\ UNCHANGED slog
    /\ UNCHANGED <<srow, st, at, value, bodyOut, final, gate>> /\ Same

ChatCall ==
    /\ spc = "chatCall"
    /\ \/ Append1(Plain("chat_assistant")) /\ spc' = "emit" /\ UNCHANGED verdict
       \/ (Broken \/ Interrupted) /\ UNCHANGED slog
    /\ UNCHANGED <<srow, st, at, value, bodyOut, final, gate>> /\ Same

ExecGate ==
    /\ spc = "exec" /\ Kind = "gate"
    /\ \/ gate' \in {"continue", "skip", "break"} /\ spc' = "emit" /\ UNCHANGED verdict
       \/ Broken /\ UNCHANGED gate
    /\ UNCHANGED <<slog, srow, st, at, value, bodyOut, final>> /\ Same

ExecOther ==
    /\ spc = "exec" /\ Kind = "other"
    /\ Broken /\ UNCHANGED <<slog, srow, st, at, value, bodyOut, final, gate>> /\ Same

\* The scoped step_completed, and run_scope_body's match on what it means.
EmitBodyCompleted ==
    /\ spc = "emit"
    /\ LET out == IF Kind = "gate" THEN << >> ELSE <<at>>
           decided == IF Kind = "gate" THEN gate ELSE "none"
       IN  /\ Append1(Entry("step_completed", at, out, decided))
           /\ CASE decided = "skip" -> IterationCompleted(bodyOut) /\ UNCHANGED <<at, bodyOut>>
                [] decided = "break" -> IterationBroken(bodyOut) /\ UNCHANGED <<at, bodyOut>>
                [] OTHER -> /\ bodyOut' = OrElse(out, bodyOut)
                            /\ at' = <<at[1], at[2] + 1>>
                            /\ spc' = "body" /\ UNCHANGED <<st, final>>
    /\ gate' = "none" /\ UNCHANGED <<srow, value, verdict>> /\ Same

-----------------------------------------------------------------------------
(* How a body step, and then its container, fails. *)

CauseOf == [signal |-> "signal_received", timeout |-> "step_timeout_fired", idle |-> "idle_timeout_fired"]

EmitCause ==
    /\ spc = "cause"
    /\ Append1(Plain(CauseOf[verdict]))
    /\ spc' = "failBody" /\ UNCHANGED <<srow, locals>> /\ Same

\* emit_scope_body_failure and emit_scope_gate_failure: a StepFailed carries no scope_context.
EmitBodyFailed ==
    /\ spc = "failBody"
    /\ Append1(Plain("step_failed"))
    /\ spc' = "finBody" /\ UNCHANGED <<srow, locals>> /\ Same

Finalised(row) ==
    IF row # "running" THEN row
    ELSE IF verdict \in {"cancelled", "signal"} THEN "cancelled" ELSE "failed"

\* finalise_cancel or finalise_fail; only an ordinary failure is repeated for the container.
FinaliseBody ==
    /\ spc = "finBody"
    /\ srow' = Finalised(srow)
    /\ spc' = IF verdict = "failed" THEN "outer" ELSE "returned"
    /\ UNCHANGED <<slog, locals>> /\ Same

\* emit_container_failure and emit_container_cancel.
EmitContainerFailed ==
    /\ spc = "outer"
    /\ Append1(Plain("step_failed"))
    /\ spc' = "finOuter" /\ UNCHANGED <<srow, locals>> /\ Same

FinaliseContainer ==
    /\ spc = "finOuter"
    /\ srow' = Finalised(srow) /\ spc' = "returned"
    /\ UNCHANGED <<slog, locals>> /\ Same

-----------------------------------------------------------------------------
(* The container's own completion. *)

\* The iteration that an outputs: template is rendered against.
LastIteration == IF shape.kind = "call" \/ st.next = 0 THEN 0 ELSE st.next - 1

\* run_map's array: a skipped item is an empty slot, a break truncates.
MapArray ==
    LET reached == {i \in 0..(shape.rounds - 1) : st.outs[i] # << >> \/ i < st.next}
        stop == Least((0..shape.rounds) \ reached)
    IN  [k \in 1..stop |-> OrElse(st.outs[k - 1], <<Top>>)[1]]

\* synthesise_container_output; an outputs: template that fails to render is ignored.
Synthesised == IF shape.kind = "map" THEN MapArray ELSE final
Overridden == InIteration(slog, LastIteration, Len(shape.body))

EmitContainerCompleted ==
    /\ spc = "synth"
    /\ \/ Append1(Entry("step_completed", Top, Synthesised, "none"))
       \/ shape.override /\ shape.kind # "map" /\ Append1(Entry("step_completed", Top, Overridden, "none"))
    /\ spc' = "returned" /\ UNCHANGED <<srow, locals>> /\ Same

-----------------------------------------------------------------------------
(* The process and its environment. *)

Runner ==
    \/ StepDecided \/ StepCancelled \/ StepContainer
    \/ EnterCall \/ EnterRepeat \/ EnterMap \/ LoopRepeat \/ LoopMap
    \/ BodyEnd \/ BodyCancelled \/ BodyNested \/ BodyStart
    \/ ExecCmd \/ ExecAgent \/ ExecChat \/ ChatCall \/ ExecGate \/ ExecOther
    \/ EmitBodyCompleted \/ EmitCause \/ EmitBodyFailed \/ FinaliseBody
    \/ EmitContainerFailed \/ FinaliseContainer \/ EmitContainerCompleted

\* The process dies: everything but the log and the row is lost.
SCrash ==
    /\ spc \notin {"dead", "returned"} /\ crashes < MaxCrashes
    /\ spc' = "dead" /\ crashes' = crashes + 1 /\ inputs' = {}
    /\ st' = Fresh.st /\ at' = Fresh.at /\ value' = << >> /\ bodyOut' = << >> /\ final' = << >>
    /\ verdict' = "none" /\ gate' = "none"
    /\ UNCHANGED <<shape, slog, srow>>

\* Engine::resume in a new process.
SLaunch ==
    /\ spc = "dead" /\ spc' = "idle" /\ UNCHANGED <<shape, slog, srow, locals, inputs, crashes>>

\* Bound: one interruption per process.
Raise(input) ==
    /\ spc \notin {"dead", "returned"} /\ inputs = {}
    /\ inputs' = {input}
    /\ UNCHANGED <<shape, slog, srow, spc, locals, crashes>>

ScopeDone == spc = "returned" /\ UNCHANGED scopeVars

ScopeNext ==
    \/ Runner \/ SCrash \/ SLaunch
    \/ \E input \in {"cancel", "shutdown"} : Raise(input)
    \/ ScopeDone

ScopeSpec == ScopeInit /\ [][ScopeNext]_scopeVars

-----------------------------------------------------------------------------
(* Properties *)

Coordinates == (0..(IF shape.rounds = 0 THEN 0 ELSE shape.rounds - 1)) \X (0..Len(shape.body))

\* Types of the runner's state; a resume point never lies beyond the loop's bound.
ScopeTypeOK ==
    /\ shape \in Shapes /\ srow \in {"running", "failed", "cancelled"}
    /\ st.next \in 0..shape.rounds /\ at \in Coordinates
    /\ \A o \in {value, bodyOut, final} : Len(o) <= 1 /\ \A k \in DOMAIN o : o[k] \in Coordinates
    /\ verdict \in {"none", "failed", "cancelled", "signal", "timeout", "idle"}
    /\ gate \in {"none", "continue", "skip", "break"}
    /\ inputs \subseteq {"cancel", "shutdown"} /\ crashes \in 0..MaxCrashes

Promise == INSTANCE ScopeRun WITH
    done <- [k \in Scoped(slog) |-> [at |-> slog[k].at, gate |-> slog[k].gate]],
    outcome <- IF Failed(slog) THEN "failed" ELSE IF ContainerDone(slog) THEN "completed" ELSE "open"

\* Whatever crashes fall between the appends, the log of a container reads like an
\* uninterrupted run: each body step once, in order, a skip ending its iteration, a break
\* the container (run_call, run_repeat and run_map over ContainerReplayState::rebuild).
ImplementsScopeRun == Promise!ScopeRunSpec

\* A body step runs only after every earlier position of its iteration is on record, so its
\* templates find the steps.* they name (run_scope_body's start position on a resume).
PriorPositionsLogged ==
    spc \in {"exec", "chatCall", "emit"} => Positions(slog, at[1]) = 0..(at[2] - 1)

\* Bodies whose outputs a resume can find again: it looks up commands only, and
\* a repeat looks no further back than one iteration.
Recoverable ==
    /\ \A p \in DOMAIN shape.body : p < Len(shape.body) => shape.body[p] \notin {"agent", "chat"}
    /\ shape.kind = "repeat" => shape.body # << >> /\ shape.body[1] = "cmd"

\* The output a reader of the log expects of the container.
OutputOf(l) ==
    LET broken == {i \in Iterations(l) : "break" \in GatesOf(l, i)}
        items == IF broken # {} THEN Least(broken) + (IF LastOutput(l, Least(broken)) = << >> THEN 0 ELSE 1)
                 ELSE shape.rounds
    IN  IF shape.kind = "map" THEN [k \in 1..items |-> OrElse(LastOutput(l, k - 1), <<Top>>)[1]]
        ELSE LastOf(l, Scoped(l))

CompletedWith(l) == {l[k].out : k \in {x \in DOMAIN l : l[x].ev = "step_completed" /\ l[x].at = Top}}

\* A container that finishes reports what its log says: the last output logged, or for a map
\* one slot per item with the skipped ones empty (last_output and MapArray after a resume).
OutputOfLog ==
    (crashes = 0 \/ Recoverable) /\ ~(shape.override /\ shape.kind # "map")
        => \A out \in CompletedWith(slog) : out = OutputOf(slog)

\* scope.value of a repeat's iteration is the last output the log holds of the iteration
\* before, also when that iteration ran in a process that is gone.
ValueOfLog ==
    /\ spc \in {"body", "exec", "chatCall", "emit"} /\ shape.kind = "repeat" /\ at[1] > 0
    /\ crashes = 0 \/ Recoverable
    => value = LastOutput(slog, at[1] - 1)

\* A container that is resumed goes on with what its log holds: position, outputs and value.
ScopeSafe == ScopeTypeOK /\ PriorPositionsLogged /\ OutputOfLog /\ ValueOfLog

\* What scope.rs says of itself: a crash anywhere inside a body is fully recoverable.
CrashRecoverable ==
    ~shape.override => \A out \in CompletedWith(slog) : out = OutputOf(slog)

\* The run of a container returns, and a failure on record reaches the session row however
\* often the process died in between (finalise_fail at the head of Engine::step).
ScopeEnds == spc # "idle" ~> spc = "returned" /\ (Failed(slog) => srow # "running")
=============================================================================

------------------------------ MODULE Command -------------------------------
(***************************************************************************)
(* The process around a v2 run: main races the command against the signal  *)
(* handler, execute chooses the sandbox and opens the session, execute_v2  *)
(* drives the engine one step at a time, and a poller feeds the progress   *)
(* view from the session log.                                              *)
(*                                                                         *)
(* The engine itself is Engine; here a step is what the loop sees of it.   *)
(* The command and the handler are polled by one task: a step that does    *)
(* not await (gate, template, script: "pure") holds the handler up too.    *)
(***************************************************************************)
EXTENDS Integers, Sequences, FiniteSets

CONSTANTS
    Invocations,   \* [engine, runtime, noSandbox, env, mode, key, steps]
    MaxScoped      \* events a container step logs while it runs

\* "odd" is a runtime in the environment that does not exist; "pure" a step that does not await.
ASSUME CommandAssumption ==
    /\ MaxScoped \in Nat
    /\ Invocations \subseteq
          [engine : {"v1", "v2"}, runtime : {"none", "docker", "podman", "local"}, noSandbox : BOOLEAN,
           env : {"none", "docker", "podman", "local", "odd"}, mode : {"disabled", "full", "devbox", "agent"},
           key : BOOLEAN, steps : Seq({"cmd", "box", "pure", "other"})]

VARIABLES
    inv,           \* the command line, the environment and the workflow
    cpc,           \* where execute is
    sandbox,       \* <<runtime, mode>> once resolved
    proxied,       \* the API proxy runs and the engine has its port and token
    row, log,      \* the session: its status, and <<kind, iteration or step>> per event
    at,            \* the step the loop is at
    fired, sent,   \* the handler: the signal it took, and whether a receiver holds it
    late,          \* the grace deadline has passed
    receivers,     \* shutdown_tx.receiver_count()
    exit,          \* the process's exit code
    snap, watch, changed,        \* the poller's last replay and the watch channel
    lastSeq, iteration, pending, \* ScopeProgressView
    screen, missed               \* what was printed; whether a replay after a step failed

cmdVars == <<inv, cpc, sandbox, proxied, row, log, at, fired, sent, late, receivers, exit,
             snap, watch, changed, lastSeq, iteration, pending, screen, missed>>
viewVars == <<lastSeq, iteration, pending, screen, missed>>
pollVars == <<snap, watch, changed>>
sigVars == <<fired, sent, late>>
setupVars == <<inv, sandbox, proxied>>

Alive == exit = "none"

CommandInit ==
    /\ inv \in Invocations /\ cpc = "resolve" /\ sandbox = <<"none", "disabled">> /\ proxied = FALSE
    /\ row = "none" /\ log = << >> /\ at = 1
    /\ fired = "none" /\ sent = FALSE /\ late = FALSE /\ receivers = 0 /\ exit = "none"
    /\ snap = 0 /\ watch = 0 /\ changed = FALSE
    /\ lastSeq = 0 /\ iteration = 0 /\ pending = 0 /\ screen = << >> /\ missed = FALSE

-----------------------------------------------------------------------------
(* execute: which sandbox *)

\* resolve_runtime: the flag, the environment, --no-sandbox, the build's default.
Runtime ==
    IF inv.runtime # "none" THEN inv.runtime
    ELSE IF inv.env # "none" THEN inv.env
    ELSE IF inv.noSandbox THEN "local" ELSE "docker"

\* resolve_mode: sandboxed unless told otherwise; then what the configuration says.
Mode == IF ~inv.noSandbox THEN "full" ELSE inv.mode

EffectiveMode ==
    IF Runtime = "local" THEN "disabled"
    ELSE IF inv.noSandbox /\ inv.runtime # "none" THEN "full" ELSE Mode

InContainer == sandbox[2] # "disabled" /\ sandbox[1] \in {"docker", "podman"}

Returned(code) == exit' = code /\ UNCHANGED <<cpc, sandbox>>
Setup(from, to) == Alive /\ cpc = from /\ cpc' = to /\ UNCHANGED <<exit, sandbox>>
SetupRest == UNCHANGED <<inv, log, at, sigVars, pollVars, viewVars>>

\* execute up to the choice of the engine.  A runtime that is not there, and a failed
\* pre-flight check, end the command.
Resolve ==
    /\ Alive /\ cpc = "resolve"
    /\ \/ Runtime = "odd" /\ Returned("1")
       \/ inv.engine = "v1" /\ Runtime = "podman" /\ Returned("1")
       \/ /\ Runtime # "odd" /\ ~(inv.engine = "v1" /\ Runtime = "podman")
          /\ sandbox' = <<Runtime, EffectiveMode>> /\ cpc' = "checks" /\ UNCHANGED exit
    /\ UNCHANGED <<proxied, row, receivers>> /\ SetupRest

\* require_runtime: the docker or podman command, when there is to be a container.
RequireRuntime ==
    /\ \/ Setup("checks", "preflight")
       \/ Alive /\ cpc = "checks" /\ sandbox[2] # "disabled" /\ Returned("1")
    /\ UNCHANGED <<proxied, row, receivers>> /\ SetupRest

\* validate_environment: keys, tools and the image may be missing; then the engine of --engine.
ValidateEnvironment ==
    /\ \/ Setup("preflight", IF inv.engine = "v2" THEN "adapt" ELSE "v1")
       \/ Alive /\ cpc = "preflight" /\ Returned("1")
    /\ UNCHANGED <<proxied, row, receivers>> /\ SetupRest

\* execute_v2 up to the session: adapt, validate, connect, reconcile.
Prepare ==
    /\ \/ Setup("adapt", "session")
       \/ Alive /\ cpc = "adapt" /\ Returned("1")
    /\ UNCHANGED <<proxied, row, receivers>> /\ SetupRest

OpenSession ==
    /\ Setup("session", "proxy") /\ row' = "running"
    /\ UNCHANGED <<proxied, receivers>> /\ SetupRest

WantsProxy == InContainer /\ inv.key

\* The proxy, the defaults' env map, Engine::new with its receiver.
NewEngine ==
    /\ Alive /\ cpc = "proxy"
    /\ \/ cpc' = "between" /\ proxied' = WantsProxy /\ receivers' = 1 /\ UNCHANGED <<exit, sandbox>>
       \/ Returned("1") /\ UNCHANGED <<proxied, receivers>>
    /\ UNCHANGED row /\ SetupRest

-----------------------------------------------------------------------------
(* The run loop *)

LoopRest == UNCHANGED <<setupVars, sigVars, pollVars>>
Kind == inv.steps[at]

\* Engine::step: the next step starts, or every step is done and the run is finalised.
Step ==
    /\ Alive /\ cpc = "between"
    /\ IF at <= Len(inv.steps)
       THEN /\ log' = Append(log, <<"started", at>>) /\ UNCHANGED row
            /\ cpc' = (IF Kind = "pure" THEN "pure" ELSE "running")
       ELSE log' = Append(log, <<"completed", 0>>) /\ row' = "completed" /\ cpc' = "finished"
    /\ UNCHANGED <<at, receivers, exit, viewVars>> /\ LoopRest

\* A container step logs the steps of its body.
Scoped ==
    /\ Alive /\ cpc = "running" /\ Kind = "box"
    /\ Cardinality({k \in DOMAIN log : log[k][1] = "scoped"}) < MaxScoped
    /\ \E i \in 1..2 : log' = Append(log, <<"scoped", i>>)
    /\ UNCHANGED <<cpc, row, at, receivers, exit, viewVars>> /\ LoopRest

\* The step ends; a failure is finalised before step returns.
StepEnds ==
    /\ Alive /\ cpc \in {"running", "pure"}
    /\ \/ log' = Append(log, <<"done", at>>) /\ cpc' = "ok" /\ UNCHANGED row
       \/ log' = Append(log, <<"failed", at>>) /\ cpc' = "failed" /\ row' = "failed"
    /\ UNCHANGED <<at, receivers, exit, viewVars>> /\ LoopRest

\* The shutdown arm of the step's select; finalise_cancel comes after the two events.
ShutdownArm ==
    /\ Alive /\ cpc = "running" /\ sent
    /\ log' = log \o <<<<"signal", at>>, <<"failed", at>>>> /\ cpc' = "cancelling"
    /\ UNCHANGED <<row, at, receivers, exit, viewVars>> /\ LoopRest

FinaliseCancel ==
    /\ Alive /\ cpc = "cancelling" /\ row' = "cancelled" /\ cpc' = "signalled"
    /\ UNCHANGED <<log, at, receivers, exit, viewVars>> /\ LoopRest

\* drop(engine), then wait for the handler to end the process.
Park ==
    /\ Alive /\ cpc = "signalled" /\ receivers' = 0 /\ cpc' = "parked" /\ UNCHANGED exit

Parked == Park /\ UNCHANGED <<row, log, at, viewVars>> /\ LoopRest

\* Any other error of step() is the command's.
StepErrs ==
    /\ Alive /\ cpc \in {"running", "pure", "between", "cancelling"} /\ exit' = "1"
    /\ UNCHANGED <<cpc, row, log, at, receivers, viewVars>> /\ LoopRest

-----------------------------------------------------------------------------
(* The progress view *)

Header(v, i) ==
    IF v.iteration = i THEN v ELSE [v EXCEPT !.iteration = i, !.screen = Append(@, <<"iteration", i>>)]

\* What one event of the log does to the view.
Show(v, k) ==
    CASE log[k][1] = "scoped" ->
            LET h == Header(v, log[k][2]) IN [h EXCEPT !.screen = Append(@, <<"scoped", k>>)]
      [] log[k][1] = "done" ->
            [v EXCEPT !.iteration = 0, !.pending = IF inv.steps[log[k][2]] = "cmd" THEN k ELSE @]
      [] OTHER -> v

\* The view after the n events that follow the first ones.
ShownFrom(v, first, n) ==
    LET view[j \in 0..n] == IF j = 0 THEN v ELSE Show(view[j - 1], first + j) IN view[n]

Seen(n) == IF n > lastSeq THEN n ELSE lastSeq

\* render_new: the events of a snapshot that were not seen yet.
RenderNew(n) ==
    ShownFrom([iteration |-> iteration, pending |-> pending, screen |-> screen], lastSeq, Seen(n) - lastSeq)

\* The watch channel woke the loop while the step runs.
RenderLive ==
    /\ Alive /\ cpc = "running" /\ changed /\ changed' = FALSE
    /\ LET v == RenderNew(watch)
       IN  iteration' = v.iteration /\ pending' = v.pending /\ screen' = v.screen
    /\ lastSeq' = Seen(watch)
    /\ UNCHANGED <<setupVars, cpc, row, log, at, sigVars, receivers, exit, snap, watch, missed>>

\* flush_top_level_output takes what is pending.
Flushed(v) == [v EXCEPT !.pending = 0]

\* After a step the loop replays the log itself; a replay that fails is passed over.  The
\* line of the step and its own output follow.  A failed step ends the process.
AfterStep ==
    /\ Alive /\ cpc \in {"ok", "failed"}
    /\ \E read \in BOOLEAN :
          LET n == IF read THEN Len(log) ELSE lastSeq
              v == RenderNew(n)
              w == Append(v.screen, <<"step", at>>)
          IN  /\ iteration' = v.iteration /\ lastSeq' = Seen(n) /\ missed' = (missed \/ ~read)
              /\ pending' = Flushed(v).pending
              /\ screen' = (IF v.pending = 0 THEN w ELSE Append(w, <<"output", v.pending>>))
    /\ IF cpc = "ok" THEN cpc' = "between" /\ at' = at + 1 /\ UNCHANGED exit
       ELSE exit' = "1" /\ UNCHANGED <<cpc, at>>
    /\ UNCHANGED <<row, log, receivers>> /\ LoopRest

\* WorkflowCompleted: the proxy is stopped and the command returns.
Finish ==
    /\ Alive /\ cpc = "finished" /\ exit' = "0" /\ receivers' = 0 /\ proxied' = FALSE
    /\ UNCHANGED <<inv, sandbox, cpc, row, log, at, viewVars, sigVars, pollVars>>

\* The poller: a replay, and later the channel if the log grew.
Polling == Alive /\ cpc \in {"between", "running", "pure", "ok", "failed", "cancelling", "signalled", "finished"}
PollRest == UNCHANGED <<setupVars, cpc, row, log, at, sigVars, receivers, exit, viewVars>>
PollRead == Polling /\ snap # Len(log) /\ snap' = Len(log) /\ UNCHANGED <<watch, changed>> /\ PollRest
PollSend == Polling /\ watch # snap /\ watch' = snap /\ changed' = TRUE /\ UNCHANGED snap /\ PollRest

-----------------------------------------------------------------------------
(* The signal handler *)

Polled == Alive /\ cpc # "pure"
HandlerRest == UNCHANGED <<setupVars, cpc, row, log, at, pollVars, viewVars>>

\* The first signal: the name is set and the broadcast sent to the receivers there are.
OnSignal ==
    /\ Polled /\ fired = "none" /\ fired' \in {"sigint", "sigterm"} /\ sent' = (receivers > 0)
    /\ UNCHANGED <<late, receivers, exit>> /\ HandlerRest

Deadline == Polled /\ fired # "none" /\ ~late /\ late' = TRUE /\ UNCHANGED <<fired, sent, receivers, exit>> /\ HandlerRest

ExitCode == IF fired = "sigint" THEN "130" ELSE "143"

\* Variant: the handler waits for the engines however long they take.
GraceOver_Drained == receivers = 0

\* Variant: the arm a step takes gives its receiver back at once.
GraceOver_ArmTaken == receivers = 0 \/ cpc = "cancelling" \/ late

GraceOver == receivers = 0 \/ late

\* The handler returns and main with it.
GraceExit ==
    /\ Polled /\ fired # "none" /\ GraceOver /\ exit' = ExitCode
    /\ UNCHANGED <<fired, sent, late, receivers>> /\ HandlerRest

CommandEnded == (~Alive \/ cpc = "v1") /\ UNCHANGED cmdVars

CommandNext ==
    \/ Resolve \/ RequireRuntime \/ ValidateEnvironment \/ Prepare \/ OpenSession \/ NewEngine
    \/ Step \/ Scoped \/ StepEnds \/ ShutdownArm \/ FinaliseCancel \/ Parked \/ StepErrs \/ RenderLive \/ AfterStep
    \/ Finish \/ PollRead \/ PollSend \/ OnSignal \/ Deadline \/ GraceExit \/ CommandEnded

\* The handler's timer fires and its task is polled, but for a step that does not await; such
\* a step ends (Rhai stops after its maximum of operations).  Nothing else need ever end.
Handler == Deadline \/ GraceExit
PureEnds == cpc = "pure" /\ StepEnds

CommandSpec == CommandInit /\ [][CommandNext]_cmdVars

-----------------------------------------------------------------------------
(* Properties *)

\* Types of the process; the view never runs ahead of the poller, nor the poller of the log.
CommandTypeOK ==
    /\ inv \in Invocations /\ sandbox[2] \in {"disabled", "full", "devbox", "agent"} /\ proxied \in BOOLEAN
    /\ row \in {"none", "running", "completed", "failed", "cancelled"} /\ exit \in {"none", "0", "1", "130", "143"}
    /\ receivers \in 0..1 /\ at \in 1..Len(inv.steps) + 1
    /\ watch <= snap /\ snap <= Len(log) /\ lastSeq <= Len(log) /\ pending <= Len(log)

\* A container that was asked for by name is used, whatever --no-sandbox says; one that was
\* not is used only with the sandbox on or configured; and the local runtime is never one.
SandboxAsAsked ==
    cpc # "resolve" =>
        /\ inv.runtime \in {"docker", "podman"} => InContainer
        /\ inv.noSandbox /\ inv.runtime = "none" /\ InContainer => inv.mode # "disabled"

\* The real key stays with the proxy in every run in a container, on either runtime.
ContainerHasProxy == receivers = 1 /\ InContainer /\ inv.key => proxied

\* A run that was stopped by a signal ends with the code of that signal, never with the
\* error the engine's step returned.
CanonicalExit ==
    exit # "none" /\ row = "cancelled" => exit = ExitCode

\* When the handler ends the process before its deadline and an engine was running, the
\* session has been settled: the receivers only drain after finalise_cancel.
DrainedIsSettled ==
    exit \in {"130", "143"} /\ ~late /\ (\E k \in DOMAIN log : log[k][1] = "started") => row # "running"

Line(l) == l[1] \in {"iteration", "scoped"}
\* The lines of a screen that show events.
LinesOf(s) ==
    LET lines[j \in 0..Len(s)] ==
            IF j = 0 THEN << >> ELSE IF Line(s[j]) THEN Append(lines[j - 1], s[j]) ELSE lines[j - 1]
    IN  lines[Len(s)]
\* What is on the screen does not depend on how the poller cut the log: it is the one
\* rendering of the events seen, in order and each once, with the steps' own lines.
ViewOfLog ==
    LinesOf(screen) = ShownFrom([iteration |-> 0, pending |-> 0, screen |-> << >>], 0, lastSeq).screen

\* An output is printed under the step it belongs to, and no step that ended is left behind
\* unless the replay after it failed.
OutputUnderItsStep ==
    ~missed =>
        /\ \A i \in DOMAIN screen : screen[i][1] = "output" => screen[i - 1] = <<"step", log[screen[i][2]][2]>>
        /\ cpc = "between" => lastSeq = Len(log)

\* The process around a run: the sandbox that was asked for, a settled session and the right code at the
\* exit, and a screen that shows the log.
CommandSafe ==
    /\ CommandTypeOK /\ SandboxAsAsked /\ ContainerHasProxy /\ CanonicalExit /\ DrainedIsSettled
    /\ ViewOfLog /\ OutputUnderItsStep

\* After a signal the process ends, even if the step it hit never does.
ExitsAfterSignal == fired # "none" ~> exit # "none"
=============================================================================

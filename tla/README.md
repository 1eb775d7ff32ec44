# Verification of stepyard

TLA+ models of the parts of stepyard that must survive crashes, concurrent
processes and failing tools; TLC configurations that check them on small
instances; TLAPS proofs of the central properties for every instance.

    tlc -config EngineLog.cfg Engine        # one run; PROJECT.json lists them all
    tlapm Engine_proofs.tla                 # one proof module

## 1. The system

stepyard runs a YAML workflow: a list of steps (`cmd`, `agent`, `chat`, `gate`,
`template`, `script`, and the scopes `call`, `repeat`, `map`, `parallel`).

| Component | State it keeps | Operations | What is hard, and what makes it correct |
|---|---|---|---|
| v2 engine (`stepyard-harness/engine.rs`) | nothing that matters: progress is rebuilt from the log before every step; in memory only the handle's cached status, `started_at`, the container handle, the worktree handle | `step`, `resume`, `resume_existing`, `cancel`, the three finalisers | a crash between any two awaits; a resume must skip nothing, repeat nothing that completed, and end the row as the log says |
| scope runner (`scope.rs`) | iteration position and body outputs, rebuilt from scoped events | `run_call`, `run_repeat`, `run_map`, `run_parallel` | replay in the middle of an iteration; parallel children that finish before one fails |
| session store (`stepyard-session`) | `sessions`, `session_events`, the jsonl mirror file | `create`, `append`, `replay`, `finish` | concurrent appenders, failing statements, commit and mirror as two steps |
| startup reconcile (`startup.rs`) | none; reads the tables, `docker ps`, `git worktree list` | three phases | runs while other processes live; stale reads; dies half way |
| workspace manager (`workspace.rs`) | worktrees and branches of a repository | `prepare`, `finalize`, `prune` | survives the process that made it; prune races prepare |
| sandbox lifecycles (`docker.rs`, `podman.rs`, `local.rs`) | one container per session | `reuse_or_create`, `exec`, `destroy_by_session` | idempotence; somebody else destroys the container |
| container copy (`container.rs`, `container_workspace.rs`) | files in the container and on the host | `copy_in`, `changed_paths`, `copy_out` | a failed copy before the removal |
| signal handling (`signal.rs`, `main.rs`) | the shutdown broadcast, the signal name | `install_handlers` | the grace deadline against the engine's own cancel path |
| executors (`agent_exec.rs`, `chat_exec.rs`, `gate.rs`, ...) | none | one per step kind | timeouts, cancels and signals in one `select!` |
| rendering, env cascade, durations | none | pure functions | precedence, boundaries |
| parser, validator, v1-to-v2 adapter | none | pure functions | which workflows reach the engine |
| v1 engine, steps, sandbox, proxy, event bus | context store, state file, container, pending async steps | `run`, one executor per step kind, `emit_event`, the proxy's handler | bounded parallelism, resume from a file, tasks that outlive a failing run |
| CLI (`commands.rs`) | the progress view | choose the sandbox, start the proxy, reconcile, open a session, step loop, exit codes | who wins the race to exit; a view fed by snapshots of the log |
| chat client (`chat_client.rs`, `chat_exec.rs`) | none | one provider call | rate limits and waits inside a timeout |
| remote (`remote.rs`), slack (`slack/mod.rs`) | none | dispatch, log stream; events, runs, posts | chunks, redelivery, lost replies |
| configuration, prompts | files | layered lookups | precedence |
| plugins | loaded libraries | load | mostly the operating system |
| dashboard (`packages/`) | its own tables | ingest, queries, pages | mostly input and output |

Interaction: `execute_v2` first runs the reconcile on the shared tables, then
creates a session and calls `Engine::step` until it returns a terminal outcome.
The engine talks to the store (append, replay, finish), to the container and to
git. A signal handler broadcasts to the engine and ends the process after a grace
time. Other processes do the same on the same database, Docker daemon and
repository.

## 2. Modules

| Module | Models | Abstracts |
|---|---|---|
| `WorkflowRun` | what a session promises to an observer of log and row | everything else |
| `Engine` | `Engine::step` and what it calls, for one session and a succession of processes | payloads, output, step names (positions 1..N) |
| `Engine_proofs` | theorems about `Engine` | |
| `EventLog` | what a session store promises | |
| `SessionStore` | `PgEventStore::append` statement by statement behind `FileLogMirror`, with engines and reconcilers as clients | payloads to three classes |
| `SessionStore_proofs` | theorems about `SessionStore` | |
| `Startup` | several `execute_v2` processes: the three reconcile phases against live sessions | a session to what a reconcile can see |
| `Startup_proofs` | theorems about `Startup` | |
| `SessionContainer` | the project in the session container, file by file: archive in, baseline commit, marker, steps, `git status`, copy back | contents to who wrote the file last |
| `SessionContainer_proofs` | theorems about `SessionContainer` | |
| `MCStartup` | `Startup` or `SessionContainer`, symmetry and projects for TLC | |
| `ScopeRun` | what a container step promises of the completions of its body | |
| `Scope` | `run_call`, `run_repeat`, `run_map` and their replay | outputs to the `<<iteration, position>>` that made them |
| `Parallel` | `run_parallel`: tasks, drain, abort, ordered completions, replay | outputs to position and process |
| `Conversation` | chat turns, agent sessions and result lines in the log and what steps make of them; the agent's process group | texts to who spoke in which attempt |
| `SqliteStore` | `SqliteEventStore` with its pool of one connection, locks and busy timeouts | payloads |
| `SqliteStore_proofs` | theorems about `SqliteStore` | |
| `MCHarness` | one of the four, chosen by `part` | |
| `Harness_proofs` | theorems about `Scope`, `Parallel` and `Conversation` | |
| `V1Engine` | `Engine::run` of v1: state file and resume, async steps, container and proxy lifecycle, session, bus and dashboard | outputs to the launch that made them |
| `V1Fan`, `V1Body` | the concurrent (`parallel`, `map` with a count) and the serial executors (`repeat`, `map`, `call`, chat and agent contexts) | outputs to task, or round and position |
| `V1Proxy` | environment of the container, reading, checking and forwarding of a request | bytes to counts |
| `V1Template` | `preprocess_template`, Tera's verdict on the result, prompt candidates | text to a sequence of expressions |
| `MCV1` | one of the five, chosen by `v1part` | |
| `V1_proofs` | theorems about the five | |
| `Load` | configuration layers, validator, adapter, and the checks the engine makes at a step | values to the layer that set them |
| `Command` | `main`'s race, `execute`, `execute_v2`, the signal handler, the poller and the progress view | the engine to what the loop sees of a step |
| `ChatCall` | one provider call: key, trimming, retries, timeout | turns to their number of words |
| `SlackBot` | deliveries, verification, routing, the task of a run and its posts | messages to the commands they contain |
| `RemoteLogs` | dispatch, and the SSE stream in chunks | bytes to line ends, fields and halves of characters |
| `Durations` | the three duration parsers and the canonical form | text to `<<number, unit>>` parts |
| `MCHost` | one of the six, chosen by `hostpart`, and their inputs | |
| `Host_proofs` | theorems about the six | |

The MC modules put components side by side that do not interact within one run of
TLC; what they share, they share through the log and the row, and each has these as
its own variables. Compositions that do interact are inside a module: engine,
container and git in `Engine`; processes, database, Docker and repository in
`Startup`; engine, poller and file in `SqliteStore`; command, handler and poller in
`Command`.

### Engine

The variables up to `tree` are the world that survives a crash: the log, the row,
the container and what is in it, the host project, the worktree. `local`,
`started`, `hasBox`, `ws`, `sync` are fields of the `Engine` and `Session` structs
and are lost. `pc` names the await that `step()` is at. Each action is the code
from one await that others can observe to the next: an append, a call on the
container, a call on git, the row update. `Crash` may fall between any two;
`Launch` is `resume_existing`, with the same configuration and workspace manager.
The step kinds differ in what their `select!` can return (`Outcomes`), in whether
they touch files, and in what follows a timeout. A scope is one kind: its body
writes scoped events, and a failing body first fails the session and then the
scope step, as `scope.rs` does. Errors of the database leave `step()` at once and
are the same as a crash at that place.

### SessionStore

`append` is begin, advisory lock, snapshot of `MAX(seq)`, insert, commit. The
snapshot and the insert are separate actions, so the lock is not assumed to work:
without it TLC finds the conflict. The unique index and the end of the lock with
the transaction are PostgreSQL's and marked external. A reconciler appends through
the bare store and so past the mirror.

### Startup

A process names its session, container and worktree. Reads (`SELECT`, `docker ps`,
`git worktree list`, the directory scan) are actions of their own and their results
are kept in `todo` and `keep`, where they go stale. `dead0` is a history variable.
`Age` lets a worktree pass the retention time, except one that was added during a
prune: a prune is shorter than 24 hours.

### SessionContainer

`bpc` follows `ensure_container_workspace` (find, create, test the marker, copy in),
the steps, and `sync_container_workspace_back` (list, copy path by path, drop). The
archive is extracted file by file, so a crash leaves a part of it. `inside` has the
files, the commit and the index under `/workspace`; `git status` is computed from the
three, with its two letters. Mishaps are a crash with a resume, the removal by another process's reconcile, a daemon restart, and the user editing a file meanwhile (two
edits count as one content). A process started by `docker exec` goes on (`stray`) when
its client is killed. The test of the marker may fail to run and then reads as "not
ready" (`misread`): the project is copied over what is there.

### Scope, Parallel, Conversation

Each starts at the `StepStarted` of its step and ends when the runner returns, with
the process dying and resuming in between. `Scope` keeps the replay state (`st`), the
position, the output variables of the loop and the two inputs (cancel, shutdown);
every append is an action. It reads the log through the places of its scoped
completions (`Scoped`), which is how `Rebuild` finds the position and the outputs
after a crash; `ScopeRun` keeps the same places with what is completed at each.
`Parallel` has a task per child with the states of a tokio task: an abort only marks
it, and it goes when it is next scheduled, or ends first. What was joined is a set;
the sort before the loop over the completions is that the loop takes the foremost one
(`Foremost`) and notes it in `logged`, one append an action. In `Conversation`
`Progress` is the part of `compute_progress` that folds turns and session ids out of
the log, a recursive function of the events read; steps read it and append to it.

### SqliteStore

A call takes the connection of its process, begins a deferred transaction, reads,
writes (which takes the lock of the file) and commits when no reader is in the way; a
statement that waits too long fails and rolls back. The commit and the return of the
number are one action. The numbering is inside the
`INSERT`, which is what makes it safe without an advisory lock.

### The v1 modules

`V1Engine` names outputs by the launch that produced them, so that a resume that lends
an old one is visible. A reference of a step to another has a field and a form: only those
that `await_pending_deps` finds (`Scanned`) are waited for, and Tera fails on a missing
one that is not safe (`Needs`). `OtherSaves` is the state file of a workflow whose name
begins with this one's and a hyphen, which `FindLatest` takes when it is the newest;
`Shared` are the steps whose names both have. `EmitLost` is an append that failed: the run ends there.
`V1Fan` separates an abort (marking) from the end of the task, with the permit and
the sandbox lock it holds until then. `V1Body` runs a scope in its child context
round by round. In `V1Template` expressions whose names differ only in punctuation share
a variable, of `from()` (`injected`) and of `prompts.` (`inlined`); the first prompt to
need it fills it.

### The host modules

`Load` carries one definition through the layers, the validator and the adapter to
the engine's own checks. In `Command` the CLI future and the handler are one task:
`main`'s `select!` polls both, so a step that does not await holds up the handler.
The handler takes a signal, broadcasts, and ends the process when the receivers are
gone or the deadline has passed. The other modules follow one call each. A task of the
Slack bot may panic where it quotes the tail of an output (`panicked`); a chat reply may be
a 200 whose body cannot be read.

In `Load` the name of the hidden scope that `adapt_parallel` makes is a constant for
each position (`ParallelNames`, in the code `__parallel_<index>`), different for
different positions; it may be the name of a scope of the file, which the adapter then
refuses. `RemoteLogs` reads the stream as `drain_sse_events` does, one token at a time
(`ScanStep`): CR LF becomes LF, a blank line ends a frame, a frame without data is
dropped, and what is left of the normalised text is the next buffer. The connection
may break at any point (`StreamBreaks`).

## 3. Runs

Passing runs:

| Run | Instance | Shows |
|---|---|---|
| `engine_log` | 2 steps of 5 kinds, `merge_to_head` with failing git, 3 processes, 2 scoped events | `CompletionsInOrder`, `NothingAfterFailure`, `RowExplained`, `StartsInPlace`, `MergesOnlySuccess`; `Engine` implements `WorkflowRun` |
| `engine_container` | 2 steps, container with failing calls, 2 processes, fair specification | what reaches the host, when the container may go; every session ends |
| `store` | 1 engine, 2 reconcilers, 4 events, all faults, fair specification | no conflict, the file follows the log, `SessionStore` implements `EventLog`, no append waits for ever |
| `startup` | 3 processes without worktrees, 2 with; 5 projects of 3 files with 2 operations and 2 mishaps | dead sessions are reaped, rows are explained, prune spares live worktrees; untouched files stay, work reaches the host, a resume copies over work only when its test of the marker could not run |
| `harness` | 21 container steps with 2 crashes; 4 parallel steps with a crash; 4 conversations with 2 crashes; 2 processes on a sqlite file | a resumed container continues from its log and implements `ScopeRun`; parallel records are exact; histories are the committed turns; sqlite implements `EventLog`; runs end |
| `v1` | 4 workflows with 3 launches, one step named as in another workflow; 7 fan-outs; bodies with all truncations; requests in pieces; all templates of 2 expressions | outputs are current, or of another workflow's file; what the scan finds is awaited; nothing outlives the run; log, row and what the dashboard is handed do not contradict each other; executors, proxy and templates keep their promises; runs end |
| `host` | workflows with every field missing or odd, layer combinations; invocations with signals; replies, chunks and deliveries in any order; durations | accepted workflows run; exit codes, settled sessions and the view; calls, threads and streams; runs end after a signal and chat calls with their timeout |

Most modules have one invariant for TLC (`ScopeSafe`, `FanSafe`, ...), the conjunction
of a type invariant and of named parts; each part is stated and explained where it is
defined.

Runs that refute a statement of the repository (each is a finding in
`PROJECT.json`, with the statement quoted):

| Run | The trace TLC finds |
|---|---|
| `engine_crash_loses` | crash after the last completion: the resume completes the session and leaves the work in the container |
| `engine_timeout_loses` | a command times out: the container goes before the earlier steps' files are copied |
| `engine_worktree_stuck` | crash after `git worktree add`: every resume fails, the row stays running |
| `startup_live` | a starting process fails the session of a live one |
| `harness_resume` | a crash behind an agent step in the body of a `call`: the resumed call completes with the output of the command before it |

Two findings are about properties that passing runs check:

- `WorkKept` (run `startup`): engine.rs:368-370 says that a resumed process finds the
  marker "and does not copy again, so changes made by earlier steps are kept", and
  docs/DOCKER-SANDBOX.md:114-115 that the marker "prevents a second copy". A test of the
  marker that fails for any reason reads as "not ready" (engine.rs:396), and the project
  is copied over the work. The property excepts that case by name; without the exception
  TLC finds it violated. `Engine` has the case too: `CopyIn` may lose the work of steps.
- `BodySafe` (run `v1`): its part `RoundsIsolated` says that no round sees the chat turns
  or the agent session of another, because each round, and each call, has a
  fresh `Context::new` (repeat.rs:70, map.rs:413, call.rs:59). context.rs:22, 33 and 35
  say that both stores are shared with child contexts, docs/STEP-TYPES.md:40 that
  `session: shared` reuses the first captured session "across all agent steps", and
  docs/YAML-SPEC.md:80 that `{{ session_id }}` is the first "for the workflow run".

Further places where the modelled code and a comment or document differ; the
models have these behaviours, no run is kept for them:

- `WorkflowStarted` "exactly once per session" (engine.rs:689): a resume before the
  first completion logs it again. `StartedBeforeProgress` states what does hold.
- One `StepStarted` for every result (ARCHITECTURE.md:103): a cancel between two
  steps, or a container that cannot be started, logs `StepFailed` alone.
- The container goes "only after its changes are on the host" (engine.rs:494): it
  also goes when the copy failed.
- A cancel is recoverable from the log (engine.rs:2313): after a crash behind
  `WorkflowCancelled` the resume marks the session failed.
- `merge_to_head` merges back (workspace.rs:26): a resumed session completes
  without a merge, having no worktree handle.
- `FileLogWriteFailed` "once per affected session" (event.rs:193): once per process.
- The jsonl file has every event (README.md:155): a crash between commit and mirror
  leaves a hole.
- Reconcile spares the containers of running sessions (startup.rs:11): not one
  created between the query and `docker ps`; the engine that lost it then runs its
  next step in a fresh container without the project.
- Reconcile logs no duplicate `crash_recovery` (tests/startup_reconcile.rs:15): it
  does when an earlier one died between the event and the row update.
- A file that git tracks under an excluded directory (container_workspace.rs:43), or
  one tar cannot read (container.rs:153, "The caller verifies the result"), is missing
  in the container; `git status` calls it deleted and the copy back removes it on the
  host. `UntouchedStay` excepts it (`Missing`).
- A file that was dirty before the run is always copied back, also over an edit the
  user made during the run (`EditedTwice`).
- A commit made inside the container leaves `git status` clean: nothing is copied.
- Killing the docker client after an idle timeout (docker.rs:326) leaves the process
  in the container running, and it may write while the changes are copied.
- A container that stopped (daemon restart) is not found by `docker ps -q`
  (docker.rs:68): its name is taken, so the resumed run fails and no reconcile
  removes it.
- Children of a parallel step that end with an error or a timeout leave nothing in
  the log; after a crash before the step's own failure they run again. Completions are
  in definition order for each process, not over all.
- The output of an async step "is awaited when first referenced (lazily)"
  (docs/STEP-TYPES.md:190-191): only when the reference is in `run`, `prompt` or
  `condition` and reads `steps.NAME.` with no hyphen in the name (v1, engine/mod.rs:1326).
  `AwaitedBeforeUse` is about those references.
- `find_latest` is to find the newest file "for a workflow" (v1, state.rs:34): it matches
  the name as a prefix, so `fix` resumes from a file of `fix-issue` when that is newer, and
  takes its outputs for steps of the same name. `NoStaleOutput` has this case (`Foreign`).
- A v1 run that fails without a failed step, through an async step or an append that
  fails, is a success to the dashboard (subscribers.rs:183); a POST that fails is only
  logged. `DashboardAgrees` says what does hold.
- `from()` names that differ only in punctuation share one variable, and so do names of
  prompts (v1, template.rs:91-95): `prompts.a-b` behind `prompts.a_b` renders the latter.
- `config.agent` may set `permissions` (docs/CONFIG.md:28-30): v2 does not inherit it
  (harness_adapter.rs:388-390); `PermissionsExplicit` states that.
- The Slack bot "posts the result in the thread" (docs/SLACK.md:25): a long output whose
  last 1500 bytes, or 1000 of stderr, begin inside a character panics its task
  (slack/mod.rs:332, 344), and nothing more is posted. Neither the child nor the posts have
  a timeout, so that a run is ever reported is no property here.
- A signed request whose timestamp is no number passes the age check (slack/mod.rs:229);
  `OnlyGenuine` asks only that the timestamp does not say it is old.
- A command that docker runs is not killed with its client (docker.rs:242), and an agent in
  the session container is not in the process group of the guard (agent_exec.rs:364-373).
  `NoStrayChild` and `NoOrphans` are about tasks and about processes of the host.
- A character cut by a chunk of the log stream is shown as replacement characters
  (remote.rs:348).
- `drain_sse_events` normalises what it kept in the buffer again (remote.rs:374): a CR
  CR LF that ends a chunk would become CR LF and, with the next chunk, LF, where in one
  piece it stays CR LF. The server writes no CR in front of another, so `FramesWhole`
  is checked and proved for such streams (`RemoteAssumption`).

Bounds. `MaxLaunches` 2 or 3: one crash puts any stale state in the log, a second
one tests the recovery itself. N = 2: a completed step, a current one, and a
boundary between them. `MaxScoped` 2: a scoped start and a scoped completion beside
top-level events. `MaxEvents` 4: each of three tasks appends, and one appends again.
Three processes: a dead one, a reconciler, and one that runs or reconciles beside
it; with worktrees (`MaxStarted`) a pruning one and a pruned one. `MaxOps` 2 and
`MaxMishaps` 2: a file is staged and then deleted, a crash is followed by a removal.
`MaxCrashes`, `MaxCCrashes` 2: a crash in the recovery of a crash; `MaxPCrashes` 1,
since a parallel step reads nothing but the set of completed positions. Bodies of up
to three steps and two or three rounds have a first, a middle and a last. `MaxLite`
2: two appends by two processes meet at every pair of statements. `MaxDeliveries` 2:
a redelivery. `Shared` {1}: another workflow's file has an output for the first step or
none, and is whole or torn. `Chunk` 3 and `Limit` 7 stand for 8 KB and 10 MB: requests below, at
and above both. `MaxMs` 7 300 000 stands for 2^64 - 1, above two hours, so that every
unit occurs on both sides of it. The runs without deadlock checking are those in
which processes really end.

Fairness. The tokio runtime keeps polling an engine that can go on, commands end or
time out, an engine that returned exits, and a session whose process died is
resumed (bounded by `MaxLaunches`, so crashes stop). Cancels, signals and crashes
are never required. In the store every statement returns (weak fairness) and the
server queues the waiters of an advisory lock (strong fairness of `Lock`). In
`harness` the executor polls a runner until it returns and drops aborted tasks, and
the operator resumes a dead run; children of a parallel step need not end. In `v1`
run() and its tasks are polled, and a step's work ends or times out. In `host` the
handler is polled, a step that does not await ends (scripts are bounded by
`MAX_OPERATIONS`), and the timeout of a chat call elapses (the adapter always sets one,
120 s by default); a command or an agent need not end, neither providers nor servers need
answer, and nothing is assumed of the tasks of the Slack bot.

## 4. Proofs

Each `*_proofs` module has the inductive invariant of the modules it extends, one
lemma per part of it that a step can disturb, and the theorems. All hold for every
value of the constants that the ASSUMEs allow: no bound of section 3 is used but as
an arbitrary natural number.

### Engine_proofs: any N, step kinds, configuration and number of resumes

- `TypeCorrect`; `PlaceCorrect`, the inductive invariant `PlaceInv`;
- `RowIsExplained`, `OnlySuccessIsMerged`, `FailureIsFinal`,
  `CompletionsAreInOrder`, `TearDownIsLogged`, `StepsStartInPlace`,
  `HostGetsTheWork`: the safety properties of the runs;
- `EngineImplementsRun`: every step of `Engine` is a step of `WorkflowRun` or
  leaves log progress, decision and row alone.

The properties alone are not inductive: whether the row update after a finaliser is
justified depends on what the finaliser's caller has already logged. `PlaceInv`
records that for every place: while a step is worked on the log is undecided and
`cur` is the first step without a completion (`WorkInv`, `LogInv`); inside a
finaliser the verdict agrees with what is on the log (`VerdictInv`); the cached
status is `running` where the code has tested it (`HandleInv`). Where steps start
needs besides that a process that may still log `WorkflowStarted` has its share left
(`StartInv`) and that only events of a running step are behind its `StepStarted`
(`Announced`). What the host gets needs where the container handle is (`BoxInv`),
that nothing reaches the host of an undecided or a cancelled workflow (`HostInv`),
and, for a first process, that completed work is on the host or in the container the
engine holds (`KeepInv`).

### SessionStore_proofs, SqliteStore_proofs: any sessions, processes, reconcilers

- `StoreTypeCorrect`, `AppendsNeverConflict`, `FileIsOrdered`, `StoreImplementsLog`;
- `LiteNumbersExact`, `SqliteImplementsLog`: both stores implement one `EventLog`.

`StoreInv` adds that a task past the lock statement holds the lock of its session
(`LockInv`), so the number it computed is still the next one (`SeqInv`) and the
table has no gaps (`RowsInv`); and that an event about to be mirrored is newer than
every line of the file (`MirrorInv`). In sqlite the write lock of the file takes that
place: from the `INSERT` to the commit the task is the writer and its number the next
one (`HoldInv`), and append returned the positions of the rows (`RowsInv`). That
`EventLog` stays within its bound is a count of the calls under way (`BoundInv`),
which is why the set of processes is assumed finite.

### Startup_proofs: any number of processes

- `RowsExplained`, `ReconcileReaps`, `PruneIsSafe`.

What a process read goes stale while others run, so `StartupInv` says what survives:
whoever is about to end a session has logged why (`CauseInv`); a session found dead
stays dead, and until it is reaped it is in what the loop over the stale result has
left (`ReapInv`); a live worktree old enough to be pruned is one that `git worktree
list` told of (`TreeInv`).

### SessionContainer_proofs: any project

- `ContainerIsSafe`, `ResumeKeepsWork`.

`ProtectedInv` follows one path through archive, container, `git status` and copy
back: at every place the container has the user's content of a file no step touched,
or does not have the file and does not report it. `OutInv`: a change not yet on the
host is among what the copy back has left, and the one that would undo it is not the
last. `PlaceInv`: there is no copy in over a marker, unless it was misread.

### Harness_proofs: any container step, any number of crashes

- `ParallelIsSafe`. `LoopInv`, `PendingInv`: what the loop over the completions has
  come to is on record or about to be, and lies before what it has not; `TasksInv`: a
  child that is left out is on record, and none is dropped unless something ended the
  step. `RestInv`: what is on record before the loop is of earlier processes.
- `ConversationIsSafe`. `PlanInv`: the step worked on has not completed and is of the
  kind its place is for; `StageInv`: the stage of the running chat holds the turns this
  attempt has logged and no other's; `HistInv`: the history the scan rebuilds is that
  of the completed chats; `AgentInv`: where an agent's processes and its error are.
  The scans of the log are recursive functions; that a scan of a longer log is
  the scan of the shorter and one event more is proved by a least counterexample.
- `ScopeIsSafe`, `ScopeImplementsRun`. `WalkInv`: the completions of the log are an
  orderly walk, with nothing passed over and nothing behind a break. `NextAt` is the
  body step such a log asks for next, and `PlaceInv` says the runner is there; so the
  position `Rebuild` computes after a crash is that of the process that died (lemma
  `Rebuilt`), and the abstract container only stutters. `OutputInv`, `ValueOfLog` and
  `OutputOfLog` say the same of the outputs, for the bodies in which a resume can look
  them up (`Recoverable`) or as long as nothing has crashed; `harness_resume` shows
  that this condition is needed.

### V1_proofs: any workflow, fan-out, body, request, template

- `V1RunIsSafe`. `FilesInv`: state files are in the order of their executions and hold
  outputs of their own; `SkipInv`: the steps before the resume point have what the
  file read for the resume holds (`ReadOf`): the newest own one, or one of another workflow,
  which has nothing of this one's (`ForeignInv`); `TasksInv`: tasks are at work only in the loop and the drain;
  `FaultInv`: whatever says "failed" is behind a run that goes on to fail; `SentInv`: the
  dashboard is handed the verdict of its own reports, before the row is written.
- `FanIsSafe`: a cancelled task has an abort behind it, an abort an error, and the lock
  is with the one task inside (`FanInv`).
- `BodyIsSafe`: what is in the context was put there in this round (`ContextInv`,
  `ChatInv`), and each output is what the next round is given (`OutputsInv`).
- `ProxyIsSafe`: what is buffered is within the limit and what is checked is whole.
- `TemplateIsSafe`: a variable holds the step of an expression already read that is
  there, if one is (`InjectedInv`), or the prompt of the first expression that needed it
  (`InlinedInv`).

### Host_proofs: any workflow, command line, conversation, stream, duration

- `LoadIsSafe`. `LoadInv`: the chain is the layers read so far put over each other
  (`ChainAt`); every adapted step is one that no check of the engine refuses
  (`TopFine`, `BodyDone`) and has its settings from where it may (`StepSound`:
  `ComesFrom`, `Bound`, `OwnPermissions`); the scopes are those of the file and one for
  each parallel step adapted. The adapter fills the fallbacks of a parallel child in
  twice, so `BodyDone` has to survive that (`BodyStays`). That `has_cycle` is exact: it
  answers yes for a scope exactly when the scope is in a set each of whose members names
  another member (`Trap`), by the least number of scopes not yet on the way for which
  it would not; and in a finite such set some scope reaches itself.
- `CommandIsSafe`. `CmdInv`: what each place of `execute` says of the session, the
  handler and the receivers; `ViewInv`: the screen is the rendering of the events up to
  `lastSeq` with the steps' own lines between (`Follows`), and, unless a replay failed,
  outputs are in place and none is pending between renderings (`ViewKept`). The poller and the loop render pieces of the log, so
  the proof is that rendering a log in pieces is rendering it whole.
- `ChatCallIsSafe`. `ChatInv`: replies and waits go together one by one (`Waited`), and
  what is sent is the trimmed history. The window needs that the tokens of a suffix are
  the difference of two running sums.
- `SlackIsSafe`. `RoutedInv`: every run is of the command the message is routed to;
  `StoryInv`: what each run has told at each place, one that panicked only its start.
- `RemoteIsSafe`. `RemoteInv`: the events taken are those of the whole text that has
  arrived, and the buffer is what its scan leaves, up to characters that were cut
  (`Arrived`, `SameText`). It rests on two facts of the scan: it can be taken up where
  it stopped, and scanning what it left again changes nothing, which is where the
  assumption on CR is needed.
- `DurationIsSafe`. `DurationInv`: the sum so far is that of the parts read, which are
  in falling units.

The recursive functions of the models (`ShownFrom`, `Scanned`, `Dropping`, `Sums`)
are shown to exist by `RecExists` and compared by `RecAgree`, from the least
counterexample rather than by the library's induction rules.

The assumptions are the ASSUMEs of the modules: bounds are naturals, the sets of
names are disjoint, configuration values are the ones the code knows, the processes
on a sqlite file are finitely many, stacks of prompts are sequences of names. For the
host modules they are the types of the inputs, and: a file has finitely many scopes,
each layer's values carry its name, the scopes made for parallel steps have different
names, as they have the step's index in theirs, and no CR follows another in a log stream.

Only model-checked: every liveness property (`SessionEnds`, `AppendEnds`,
`HarnessEnds`, `V1Ends`, `HostEnds`). Liveness under fairness is outside what the
prover's backends do. Every invariant, action property and refinement of a passing run
is stated by a theorem.

## 5. Not modelled, and the plan

Not modelled, with the reason:

- the text of prompts and outputs, the terminal's rendering, JSON reports, the
  templates `init` writes, the interactive `setup`: layout, which no property is about;
- what Tera, Rhai and YAML compute: library code;
- the loading of plugins: the operating system's;
- the podman lifecycle on its own: its control is that of docker, call by
  call; and the mock lifecycle, a test double;
- the classification of docker's error texts: a table of strings;
- the dashboard API and pages: a separate TypeScript service. Its ingest is one
  transaction that refuses an older `event_version`; its clients are modelled;
- `xtask`: an audit of the source text for an event before each sandbox call; the models
  state the same of the running engine (`RunsOnlyPending`, `DestroyOnlyWhenDecided`).

Git, Docker, PostgreSQL, SQLite, Slack, the chat providers, the dashboard's server and
child processes are modelled from how the code uses them. `Cancelled` as an outcome
of a step is in `Engine`; no code path of the command line raises the token, so it
does not occur in `Command`.

What could follow: the copy of files that git tracks under an excluded directory, for
which no property holds as the code stands; the podman lifecycle, should its control
come to differ from docker's; and the dashboard's ingest as a module of its own.

------------------------------ MODULE Startup -------------------------------
(***************************************************************************)
(* Several stepyard processes on one database, one Docker daemon and one   *)
(* repository.  Each runs execute_v2 of src/cli/commands.rs: first the     *)
(* three-phase reconcile of crates/stepyard-harness/src/startup.rs, then a *)
(* session of its own, which the Engine module describes in detail and     *)
(* which is kept here to what a reconcile can see or disturb.              *)
(*                                                                         *)
(* Every query, docker call and git call is an action, so the reconcile of *)
(* one process interleaves with the sessions and reconciles of the others. *)
(* A process names its session, its container and its worktree.            *)
(***************************************************************************)
EXTENDS Integers, Sequences, FiniteSets

CONSTANTS
    Procs,      \* processes, each with one session
    Modes,      \* whether a workspace manager is configured: the cases to consider
    MaxStarted  \* bound, for each mode: processes that start

ASSUME ModeAssumption == Modes \subseteq BOOLEAN /\ \A m \in Modes : MaxStarted[m] \in Nat

VARIABLES
    manager, \* a workspace manager is configured
    row,     \* the sessions table: "none" until the session is created
    log,     \* the events of each session that decide its fate
    box,     \* the container stepyard-session-<uuid>: absent, up with a copy of
             \* the project, or up and empty
    tree,    \* the session's worktree directory and its git entry
    old,     \* worktrees untouched for longer than the retention time
    at,      \* where each process is
    todo,    \* what is left of the loop the process is in
    cur,     \* the session that phase 1 is working on
    keep,    \* what the process read: running_set, later the listed worktrees
    warned,  \* processes whose docker ps or docker rm failed
    out,     \* how the engine of the process is going to end
    hasBox,  \* engines whose agent_container is set
    dead0    \* processes that were dead when this one queried the sessions

world == <<row, log, box, tree, old>>
vars == <<manager, world, at, todo, cur, keep, warned, out, hasBox, dead0>>

Outcomes == {"completed", "failed", "cancelled"}
Causes == {"recovered", "workflow_completed", "step_failed", "workflow_cancelled"}
Places == {"new", "recover", "append", "fail", "requery", "ps", "destroy",
           "list", "readDir", "prune", "open", "tree", "work", "close",
           "report", "finish", "returned", "dead"}

Init ==
    /\ manager \in Modes
    /\ row = [p \in Procs |-> "none"] /\ log = [p \in Procs |-> << >>]
    /\ box = [p \in Procs |-> "absent"] /\ tree = [p \in Procs |-> "absent"] /\ old = {}
    /\ at = [p \in Procs |-> "new"] /\ todo = [p \in Procs |-> {}]
    /\ cur = [p \in Procs |-> p] /\ keep = [p \in Procs |-> {}]
    /\ warned = {} /\ hasBox = {} /\ out = [p \in Procs |-> "failed"]
    /\ dead0 = [p \in Procs |-> {}]

\* The memory of the process goes with it.
Forget(p) ==
    /\ todo' = [todo EXCEPT ![p] = {}] /\ keep' = [keep EXCEPT ![p] = {}]
    /\ cur' = [cur EXCEPT ![p] = p] /\ dead0' = [dead0 EXCEPT ![p] = {}]
    /\ out' = [out EXCEPT ![p] = "failed"]
    /\ warned' = warned \ {p} /\ hasBox' = hasBox \ {p}

Go(p, place) == at' = [at EXCEPT ![p] = place]
Running == {q \in Procs : row[q] = "running"}
Dead == {q \in Procs : at[q] = "dead"}
\* The engine of the process is at work on its session.
Live(q) == at[q] \in {"tree", "work", "close", "report", "finish"}
Alive(q) == at[q] \notin {"new", "returned", "dead"}

-----------------------------------------------------------------------------
(* Phase 1: every session that is still running is failed. *)

\* SELECT id FROM sessions WHERE status = 'running'.
SelectRunning(p) ==
    /\ at[p] = "new" /\ Cardinality({q \in Procs : at[q] # "new"}) < MaxStarted[manager]
    /\ todo' = [todo EXCEPT ![p] = Running]
    /\ dead0' = [dead0 EXCEPT ![p] = Dead]
    /\ Go(p, "recover") /\ UNCHANGED <<world, cur, keep, warned, out, hasBox>>

LoadSession(p) ==
    /\ at[p] = "recover"
    /\ \E q \in todo[p] :
         cur' = [cur EXCEPT ![p] = q] /\ todo' = [todo EXCEPT ![p] = @ \ {q}]
    /\ Go(p, "append") /\ UNCHANGED <<world, keep, warned, out, hasBox, dead0>>

AppendCrashRecovery(p) ==
    /\ at[p] = "append"
    /\ log' = [log EXCEPT ![cur[p]] = Append(@, "recovered")]
    /\ Go(p, "fail") /\ UNCHANGED <<row, box, tree, old, todo, cur, keep, warned, out, hasBox, dead0>>

\* UPDATE ... WHERE status = 'running'
FinishRow(q, st) == row' = [row EXCEPT ![q] = IF @ = "running" THEN st ELSE @]

\* Variant: the row is marked completed so that it is not reported as an error.
FailSession_Completes(p) ==
    /\ at[p] = "fail" /\ FinishRow(cur[p], "completed")
    /\ Go(p, "recover") /\ UNCHANGED <<log, box, tree, old, todo, cur, keep, warned, out, hasBox, dead0>>

FailSession(p) ==
    /\ at[p] = "fail" /\ FinishRow(cur[p], "failed")
    /\ Go(p, "recover") /\ UNCHANGED <<log, box, tree, old, todo, cur, keep, warned, out, hasBox, dead0>>

-----------------------------------------------------------------------------
(* Phase 2: containers without a running session are destroyed. *)

\* Variant: the set of phase 1 is used again instead of a second query.
Requery_Stale(p) ==
    /\ at[p] = "recover" /\ todo[p] = {}
    /\ keep' = [keep EXCEPT ![p] = Running \cup dead0[p]] /\ cur' = [cur EXCEPT ![p] = p]
    /\ Go(p, "ps") /\ UNCHANGED <<world, todo, warned, out, hasBox, dead0>>

Requery(p) ==
    /\ at[p] = "recover" /\ todo[p] = {}
    /\ keep' = [keep EXCEPT ![p] = Running] /\ cur' = [cur EXCEPT ![p] = p]
    /\ Go(p, "ps") /\ UNCHANGED <<world, todo, warned, out, hasBox, dead0>>

\* docker ps lists the containers; without docker the phase is skipped.
DockerPs(p) ==
    /\ at[p] = "ps"
    /\ \/ /\ todo' = [todo EXCEPT ![p] = {q \in Procs : box[q] # "absent"} \ keep[p]]
          /\ Go(p, "destroy") /\ UNCHANGED warned
       \/ /\ warned' = warned \cup {p} /\ Go(p, "list") /\ UNCHANGED todo
    /\ keep' = [keep EXCEPT ![p] = {}] /\ UNCHANGED <<world, cur, out, hasBox, dead0>>

\* docker rm -f; a failure is logged and the loop goes on.
DestroyBySession(p) ==
    /\ at[p] = "destroy"
    /\ \E q \in todo[p] :
         /\ todo' = [todo EXCEPT ![p] = @ \ {q}]
         /\ \/ box' = [box EXCEPT ![q] = "absent"] /\ UNCHANGED warned
            \/ warned' = warned \cup {p} /\ UNCHANGED box
    /\ UNCHANGED <<row, log, tree, old, at, cur, keep, out, hasBox, dead0>>

ContainersDone(p) ==
    /\ at[p] = "destroy" /\ todo[p] = {}
    /\ Go(p, "list") /\ UNCHANGED <<world, todo, cur, keep, warned, out, hasBox, dead0>>

-----------------------------------------------------------------------------
(* Phase 3: GitWorktreeManager::prune, whose errors are only logged. *)

ListWorktrees(p) ==
    /\ at[p] = "list"
    /\ \/ /\ manager
          /\ keep' = [keep EXCEPT ![p] = {q \in Procs : tree[q] = "listed"}] /\ Go(p, "readDir")
       \/ keep' = [keep EXCEPT ![p] = {}] /\ Go(p, "open")
    /\ UNCHANGED <<world, todo, cur, warned, out, hasBox, dead0>>

ReadDir(p) ==
    /\ at[p] = "readDir"
    /\ todo' = [todo EXCEPT ![p] = {q \in Procs : tree[q] # "absent"} \ keep[p]]
    /\ Go(p, "prune") /\ UNCHANGED <<world, cur, keep, warned, out, hasBox, dead0>>

\* Variant: no retention time.
Prunable_AnyAge(q) == tree[q] # "absent"

\* is_past_retention; git status must then find the directory clean.
Prunable(q) == tree[q] # "absent" /\ q \in old

PruneOne(p) ==
    /\ at[p] = "prune"
    /\ \E q \in todo[p] :
         /\ todo' = [todo EXCEPT ![p] = @ \ {q}]
         /\ \/ Prunable(q) /\ tree' = [tree EXCEPT ![q] = "absent"] /\ old' = old \ {q}
            \/ UNCHANGED <<tree, old>>
    /\ UNCHANGED <<row, log, box, at, cur, keep, warned, out, hasBox, dead0>>

\* The loop is through, or an entry could not be read.
PruneDone(p) ==
    /\ at[p] = "prune"
    /\ todo' = [todo EXCEPT ![p] = {}] /\ keep' = [keep EXCEPT ![p] = {}]
    /\ Go(p, "open") /\ UNCHANGED <<world, cur, warned, out, hasBox, dead0>>

-----------------------------------------------------------------------------
(* The session of the process. *)

\* The report of the reconcile, and the history of it, end here.
OpenSession(p) ==
    /\ at[p] = "open"
    /\ row' = [row EXCEPT ![p] = "running"]
    /\ dead0' = [dead0 EXCEPT ![p] = {}] /\ warned' = warned \ {p}
    /\ Go(p, "tree") /\ UNCHANGED <<log, box, tree, old, todo, cur, keep, out, hasBox>>

PrepareWorktree(p) ==
    /\ at[p] = "tree"
    /\ tree' = [tree EXCEPT ![p] = IF manager THEN "listed" ELSE "absent"]
    /\ Go(p, "work") /\ UNCHANGED <<row, log, box, old, todo, cur, keep, warned, out, hasBox, dead0>>

\* ensure_container_workspace copies the project in once; later steps reuse or
\* create the container and rely on that copy.
StartContainer(p) ==
    /\ at[p] = "work" /\ box[p] = "absent"
    /\ box' = [box EXCEPT ![p] = IF p \in hasBox THEN "empty" ELSE "ready"]
    /\ hasBox' = hasBox \cup {p}
    /\ UNCHANGED <<row, log, tree, old, at, todo, cur, keep, warned, out, dead0>>

\* A success is logged last; a cancel is logged before the teardown.
AfterSteps(o) == IF o = "cancelled" THEN "report" ELSE "close"
AfterClose(o) == IF o = "completed" THEN "report" ELSE "finish"
AfterReport(o) == IF o = "completed" THEN "finish" ELSE "close"

StepsEnd(p) ==
    /\ at[p] = "work"
    /\ \E o \in Outcomes :
         /\ out' = [out EXCEPT ![p] = o]
         /\ log' = IF o = "completed" THEN log ELSE [log EXCEPT ![p] = Append(@, "step_failed")]
         /\ Go(p, AfterSteps(o))
    /\ UNCHANGED <<row, box, tree, old, todo, cur, keep, warned, hasBox, dead0>>

\* Copy back unless cancelled, docker rm -f (whose error is ignored) and, after
\* a success with merge_to_head, the merge, which removes the worktree.
CloseWorkspace(p) ==
    /\ at[p] = "close"
    /\ \/ box' = [box EXCEPT ![p] = "absent"] \/ UNCHANGED box
    /\ hasBox' = hasBox \ {p}
    /\ \/ UNCHANGED <<tree, old>>
       \/ manager /\ out[p] = "completed" /\ tree' = [tree EXCEPT ![p] = "absent"] /\ old' = old \ {p}
    /\ Go(p, AfterClose(out[p]))
    /\ UNCHANGED <<row, log, todo, cur, keep, warned, out, dead0>>

ReportOutcome(p) ==
    /\ at[p] = "report"
    /\ log' = [log EXCEPT ![p] =
                 Append(@, IF out[p] = "completed" THEN "workflow_completed"
                           ELSE "workflow_cancelled")]
    /\ Go(p, AfterReport(out[p])) /\ UNCHANGED <<row, box, tree, old, todo, cur, keep, warned, out, hasBox, dead0>>

FinishSession(p) ==
    /\ at[p] = "finish" /\ FinishRow(p, out[p])
    /\ Go(p, "returned") /\ Forget(p) /\ UNCHANGED <<log, box, tree, old>>

-----------------------------------------------------------------------------
(* The world around the processes. *)

\* The process is killed, or an SQL error ends it: reconcile and step() return
\* such errors to main.
Die(p) ==
    /\ Alive(p)
    /\ Go(p, "dead") /\ Forget(p) /\ UNCHANGED world

\* The worktree passes the retention time.  A prune takes less than that, so a
\* worktree added while one is under way stays young until it has ended.
Age(q) ==
    /\ tree[q] # "absent" /\ q \notin old
    /\ \A p \in Procs : at[p] \in {"readDir", "prune"} => tree[q] = "orphan" \/ q \in keep[p]
    /\ old' = old \cup {q}
    /\ UNCHANGED <<row, log, box, tree, at, todo, cur, keep, warned, out, hasBox, dead0>>

\* Somebody removes the git entry of a worktree that no process uses.
Unlist(q) ==
    /\ tree[q] = "listed" /\ ~Live(q)
    /\ tree' = [tree EXCEPT ![q] = "orphan"]
    /\ UNCHANGED <<row, log, box, old, at, todo, cur, keep, warned, out, hasBox, dead0>>

Recover(p) == SelectRunning(p) \/ LoadSession(p) \/ AppendCrashRecovery(p) \/ FailSession(p)
Containers(p) == Requery(p) \/ DockerPs(p) \/ DestroyBySession(p) \/ ContainersDone(p)
Prune(p) == ListWorktrees(p) \/ ReadDir(p) \/ PruneOne(p) \/ PruneDone(p)
Session(p) == OpenSession(p) \/ PrepareWorktree(p) \/ StartContainer(p) \/ StepsEnd(p)
                \/ CloseWorkspace(p) \/ ReportOutcome(p) \/ FinishSession(p)
World(p) == Die(p) \/ Age(p) \/ Unlist(p)

Next ==
    /\ \E p \in Procs : Recover(p) \/ Containers(p) \/ Prune(p) \/ Session(p) \/ World(p)
    /\ UNCHANGED manager

Spec == Init /\ [][Next]_vars

-----------------------------------------------------------------------------
(* Properties. *)

Logged(q, cause) == \E i \in DOMAIN log[q] : log[q][i] = cause

\* Types of the tables, containers, worktrees and process states.
TypeOK ==
    /\ row \in [Procs -> Outcomes \cup {"none", "running"}]
    /\ log \in [Procs -> Seq(Causes)] /\ box \in [Procs -> {"absent", "ready", "empty"}]
    /\ tree \in [Procs -> {"absent", "listed", "orphan"}] /\ old \subseteq Procs
    /\ at \in [Procs -> Places] /\ todo \in [Procs -> SUBSET Procs]
    /\ cur \in [Procs -> Procs] /\ keep \in [Procs -> SUBSET Procs]
    /\ warned \subseteq Procs /\ hasBox \subseteq Procs /\ out \in [Procs -> Outcomes]
    /\ dead0 \in [Procs -> SUBSET Procs]
    /\ \A q \in Procs : at[q] \in {"new", "open"} => row[q] = "none"

\* What a reconcile is for: once it has ended, no session whose process was
\* dead when it began is still running, and none of their containers is left
\* unless docker failed, whatever other processes did in the meantime.  (That
\* then stays so: only its own process brings a session or its container back.)
DeadAreReaped ==
    \A p \in Procs : at[p] = "open" =>
        \A q \in dead0[p] : row[q] # "running" /\ (box[q] # "absent" => p \in warned)

\* A terminal row has its cause in the log, written before it, although two
\* parties may race to end the session: the engine and any reconcile.
RowHasCause ==
    \A q \in Procs :
        /\ row[q] = "completed" => Logged(q, "workflow_completed")
        /\ row[q] = "failed" => Logged(q, "recovered") \/ Logged(q, "step_failed")
        /\ row[q] = "cancelled" => Logged(q, "workflow_cancelled")

\* An engine that returns leaves its session in a terminal status, its own or
\* the one a reconcile gave it first.
ReturnedHasEnded == \A q \in Procs : at[q] = "returned" => row[q] \notin {"none", "running"}

\* Every session row is explained by its log, whichever of the engine and the reconciles ended it.
StartupSafe == TypeOK /\ RowHasCause /\ ReturnedHasEnded

\* Prune never takes the worktree of a live engine, not even one added between
\* git worktree list and the scan of the directory.
PruneSparesLive ==
    [][\A q \in Procs : Live(q) /\ at[q] # "close" => (tree'[q] = "absent" => tree[q] = "absent")]_vars

(* What comments and documents of the repository say, and the runs refute. *)

\* "Marks sessions left running by a dead process": crash recovery is only ever
\* written to the log of a session whose process is dead.
RecoversOnlyDead ==
    [][\A q \in Procs : log'[q] = Append(log[q], "recovered") => at[q] = "dead"]_vars
=============================================================================

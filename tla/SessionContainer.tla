-------------------------- MODULE SessionContainer --------------------------
(***************************************************************************)
(* The project in the session container, file by file: copied in before    *)
(* the first step (ensure_container_workspace of engine.rs, copy_in of     *)
(* container.rs), changed there by steps, listed with git status and       *)
(* copied back when the workflow ends.  Docker and git are external.       *)
(*                                                                         *)
(* A file's content is the name of who wrote it last: 0 no file, 1 the     *)
(* commit, 2 an uncommitted edit from before the run, 3 a step, 4 the user *)
(* while the run is on.  Processes crash and resume, another process's     *)
(* reconcile removes the container, the daemon restarts, and a process     *)
(* started with docker exec outlives a client that is killed.              *)
(***************************************************************************)
EXTENDS Integers

CONSTANTS
    Projects,     \* the host projects to consider: see Project
    Excluded,     \* paths the archive leaves out: target, node_modules, .stepyard ...
    Ignored,      \* paths .gitignore names
    MaxOps,       \* bound: what the steps do to files
    MaxMishaps    \* bound: crashes, reaps, daemon restarts and edits by the user

Paths == {"src", "out", "log"}
Contents == 0..4
NoFiles == [p \in Paths |-> 0]
\* git: the project has a .git directory; else none, or the .git file of a worktree.
\* unreadable: files the host's tar cannot read.
Project == [git : BOOLEAN, head : [Paths -> {0, 1}], files : [Paths -> 0..2], unreadable : SUBSET Paths]

ASSUME ContainerAssumption ==
    /\ Projects \subseteq Project /\ MaxOps \in Nat /\ MaxMishaps \in Nat
    /\ Excluded \cup Ignored \subseteq Paths

VARIABLES
    project,   \* the project the run started with
    host,      \* the project directory on the host
    mine,      \* what the user left at each host path
    ctr,       \* the container stepyard-session-<uuid>: absent, up or stopped
    inside,    \* files, gitHead and gitIndex under /workspace, whether .git and the marker are there
    touched,   \* paths that a step changed
    stray,     \* a process runs in the container and nobody waits for it
    bpc,       \* where the engine is
    step,      \* the kind of the step that runs
    left,      \* what copy_in or copy_out has still to do
    misread,   \* while the engine copies in: the marker is there, but its test could not run
    synced,    \* WorkspaceSync of the engine
    bops, mishaps

containerVars == <<project, host, mine, ctr, inside, touched, stray, bpc, step, left, misread, synced, bops, mishaps>>

Empty == [files |-> NoFiles, head |-> NoFiles, index |-> NoFiles, git |-> FALSE, marker |-> FALSE]

ContainerInit ==
    /\ project \in Projects /\ host = project.files /\ mine = project.files
    /\ ctr = "absent" /\ inside = Empty /\ touched = {} /\ stray = FALSE
    /\ bpc = "find" /\ step = "none" /\ left = {} /\ misread = FALSE /\ synced = "none"
    /\ bops = 0 /\ mishaps = 0

-----------------------------------------------------------------------------
(* ensure_container_workspace *)

\* docker ps -q sees running containers only, so a stopped one is not found and keeps its name.
FindContainer == IF ctr = "up" THEN "marker" ELSE "create"

Find ==
    /\ bpc = "find" /\ bpc' = FindContainer
    /\ UNCHANGED <<project, host, mine, ctr, inside, touched, stray, step, left, misread, synced, bops, mishaps>>

\* docker run --name: refused when the name is taken, and it may fail for any other reason.
CreateWithOptions(onSuccess, onError) ==
    \/ ctr = "absent" /\ ctr' = "up" /\ inside' = Empty /\ bpc' = onSuccess
    \/ bpc' = onError /\ UNCHANGED <<ctr, inside>>

Create ==
    /\ bpc = "create" /\ CreateWithOptions("marker", "ended")
    /\ UNCHANGED <<project, host, mine, touched, stray, step, left, misread, synced, bops, mishaps>>

\* The archive: no excluded path, and the files tar cannot read are missing from it.
Archived == (Paths \cup {".git"}) \ (Excluded \cup project.unreadable)

\* Variant: the project is copied whether the marker is there or not.
TestMarker_Never == FALSE

\* test -f of the marker.
TestMarker == ctr = "up" /\ inside.marker

\* A test that cannot run reads like a marker that is not there.
Ready ==
    /\ bpc = "marker" /\ misread' \in {FALSE, TestMarker}
    /\ IF TestMarker /\ ~misread' THEN bpc' = "ready" /\ UNCHANGED left
                                  ELSE bpc' = "copyIn" /\ left' = Archived
    /\ UNCHANGED <<project, host, mine, ctr, inside, touched, stray, step, synced, bops, mishaps>>

\* What one member of the tar stream leaves: a file as it is on the host now, where there is one; .git brings
\* HEAD and the index.
Extracted(w, m) ==
    IF m = ".git"
    THEN IF project.git THEN [w EXCEPT !.git = TRUE, !.head = project.head, !.index = project.head] ELSE w
    ELSE IF host[m] = 0 THEN w ELSE [w EXCEPT !.files[m] = host[m]]

\* The members, in any order.
CopyIn ==
    /\ bpc = "copyIn" /\ ctr = "up"
    /\ \E m \in left :
         /\ left' = left \ {m}
         /\ inside' = Extracted(inside, m)
    /\ UNCHANGED <<project, host, mine, ctr, touched, stray, bpc, step, misread, synced, bops, mishaps>>

\* agent_container is not set, so finalise_fail neither copies back nor removes the container.
CopyInFails ==
    /\ bpc = "copyIn" /\ bpc' = "ended" /\ left' = {} /\ misread' = FALSE
    /\ UNCHANGED <<project, host, mine, ctr, inside, touched, stray, step, synced, bops, mishaps>>

\* git add -A leaves out what .gitignore names and git does not track yet.
Added(w) == [p \in Paths |-> IF p \in Ignored /\ w.index[p] = 0 THEN 0 ELSE w.files[p]]

\* setup_script: a commit of what was copied unless .git came along, and the marker as its last command.
Setup(w) ==
    [(IF w.git THEN w ELSE [w EXCEPT !.git = TRUE, !.index = Added(w), !.head = Added(w)]) EXCEPT !.marker = TRUE]

RunSetup ==
    /\ bpc = "copyIn" /\ left = {} /\ ctr = "up"
    /\ inside' = Setup(inside) /\ bpc' = "ready" /\ misread' = FALSE
    /\ UNCHANGED <<project, host, mine, ctr, touched, stray, step, left, synced, bops, mishaps>>

-----------------------------------------------------------------------------
(* Steps.  cmd goes through reuse_or_create and docker exec, agent through   *)
(* docker exec with the cached handle.                                     *)

StartStep(k) ==
    /\ bpc = "ready" /\ bops < MaxOps /\ step' = k
    /\ bpc' = IF ctr = "up" THEN "exec" ELSE IF k = "cmd" THEN "reuse" ELSE "list"
    /\ UNCHANGED <<project, host, mine, ctr, inside, touched, stray, left, misread, synced, bops, mishaps>>

\* The cached agent_container keeps the engine from copying the project into the new container.
ReuseOrCreate ==
    /\ bpc = "reuse" /\ CreateWithOptions("exec", "list")
    /\ UNCHANGED <<project, host, mine, touched, stray, step, left, misread, synced, bops, mishaps>>

\* What a process in the container does to the files and to git.
Works ==
    /\ bops < MaxOps /\ bops' = bops + 1 /\ ctr = "up"
    /\ \/ \E p \in Paths, v \in {0, 3} : inside' = [inside EXCEPT !.files[p] = v]
       \/ inside.git /\ inside' = [inside EXCEPT !.index = Added(inside)]
       \/ inside.git /\ inside' = [inside EXCEPT !.index = Added(inside), !.head = Added(inside)]
       \/ \E p \in Paths : inside.index[p] # 0 /\ inside' = [inside EXCEPT !.index[p] = 0]
    /\ touched' = touched \cup {p \in Paths : inside'.files[p] # inside.files[p] \/ inside'.index[p] # inside.index[p]}

StepWorks ==
    /\ bpc = "exec" /\ Works
    /\ UNCHANGED <<project, host, mine, ctr, stray, bpc, step, left, misread, synced, mishaps>>

\* A process that a killed client left behind goes on, also while the files are copied out.
StrayWorks ==
    /\ stray /\ Works
    /\ UNCHANGED <<project, host, mine, ctr, stray, bpc, step, left, misread, synced, mishaps>>

\* The command ends: the next step, or the end of the workflow.
ExecEnds ==
    /\ bpc = "exec" /\ bpc' \in {"ready", "list"}
    /\ UNCHANGED <<project, host, mine, ctr, inside, touched, stray, step, left, misread, synced, bops, mishaps>>

\* The timers kill the docker client, not what it started.  A cmd step then loses the container.
ExecTimesOut ==
    /\ bpc = "exec" /\ stray' = (ctr = "up")
    /\ bpc' = IF step = "cmd" THEN "tearDown" ELSE "list"
    /\ UNCHANGED <<project, host, mine, ctr, inside, touched, step, left, misread, synced, bops, mishaps>>

ExecCancelled ==
    /\ bpc = "exec" /\ stray' = (ctr = "up") /\ bpc' = "drop"
    /\ UNCHANGED <<project, host, mine, ctr, inside, touched, step, left, misread, synced, bops, mishaps>>

Finish ==
    /\ bpc = "ready" /\ bpc' = "list"
    /\ UNCHANGED <<project, host, mine, ctr, inside, touched, stray, step, left, misread, synced, bops, mishaps>>

-----------------------------------------------------------------------------
(* destroy_by_session: rm -f, and no container is no error. *)

Gone == ctr' = "absent" /\ inside' = Empty /\ stray' = FALSE
RemoveContainer == Gone \/ UNCHANGED <<ctr, inside, stray>>

TearDown ==
    /\ bpc = "tearDown" /\ RemoveContainer /\ bpc' = "list"
    /\ UNCHANGED <<project, host, mine, touched, step, left, misread, synced, bops, mishaps>>

Drop ==
    /\ bpc = "drop" /\ RemoveContainer /\ bpc' = "ended"
    /\ UNCHANGED <<project, host, mine, touched, step, left, misread, synced, bops, mishaps>>

-----------------------------------------------------------------------------
(* sync_container_workspace_back *)

\* D in the first column of git status: gone from the index; in the second: gone from the work tree.
IsDeleted(w, p) == (w.head[p] # 0 /\ w.index[p] = 0) \/ (w.index[p] # 0 /\ w.files[p] = 0)

Entry(kind, p, tracked) == [kind |-> kind, path |-> p, tracked |-> tracked]

Tracked(w) ==
    LET changed == {p \in Paths : w.head[p] # w.index[p] \/ (w.index[p] # 0 /\ w.files[p] # w.index[p])}
    IN  {Entry(IF IsDeleted(w, p) THEN "deleted" ELSE "modified", p, TRUE) : p \in changed}
Untracked(w) == {Entry("modified", p, FALSE) : p \in {q \in Paths \ Ignored : w.index[q] = 0 /\ w.files[q] # 0}}

\* parse_porcelain_z of git status: the tracked paths that differ from HEAD, and the untracked ones.
ChangedPaths(w) == Tracked(w) \cup Untracked(w)

\* Variant: the untracked paths come first.
Foremost_UntrackedFirst(l) == {c \in l : ~c.tracked \/ \A d \in l : d.tracked}

\* git status lists the tracked paths before the untracked ones, and the list is worked off in its order.
Foremost(l) == {c \in l : c.tracked \/ \A d \in l : ~d.tracked}

\* git status fails where there is no container or no repository.
List ==
    /\ bpc = "list"
    /\ \/ ctr = "up" /\ inside.git /\ left' = ChangedPaths(inside) /\ bpc' = "copyOut" /\ UNCHANGED synced
       \/ synced' = "failed" /\ bpc' = "drop" /\ UNCHANGED left
    /\ UNCHANGED <<project, host, mine, ctr, inside, touched, stray, step, misread, bops, mishaps>>

\* One change: remove_file, for which no file is no error, or docker cp.
CopyOut ==
    /\ bpc = "copyOut"
    /\ \E c \in Foremost(left) :
         /\ \/ c.kind = "deleted" /\ host' = [host EXCEPT ![c.path] = 0]
            \/ /\ c.kind = "modified" /\ ctr = "up" /\ inside.files[c.path] # 0
               /\ host' = [host EXCEPT ![c.path] = inside.files[c.path]]
         /\ left' = left \ {c}
    /\ UNCHANGED <<project, mine, ctr, inside, touched, stray, bpc, step, misread, synced, bops, mishaps>>

\* The first error ends the copy; what was copied stays.
CopyOutFails ==
    /\ bpc = "copyOut" /\ left # {}
    /\ synced' = "failed" /\ bpc' = "drop" /\ left' = {}
    /\ UNCHANGED <<project, host, mine, ctr, inside, touched, stray, step, misread, bops, mishaps>>

Copied ==
    /\ bpc = "copyOut" /\ left = {}
    /\ synced' = "ok" /\ bpc' = "drop"
    /\ UNCHANGED <<project, host, mine, ctr, inside, touched, stray, step, left, misread, bops, mishaps>>

-----------------------------------------------------------------------------
(* Everybody else *)

Mishap == mishaps < MaxMishaps /\ mishaps' = mishaps + 1

\* The engine's process dies; what it ran in the container does not.
EngineDies ==
    /\ Mishap /\ bpc \notin {"ended", "dead"} /\ bpc' = "dead"
    /\ stray' = (stray \/ (bpc = "exec" /\ ctr = "up")) /\ step' = "none" /\ left' = {} /\ misread' = FALSE
    /\ synced' = "none" /\ UNCHANGED <<project, host, mine, ctr, inside, touched, bops>>

Resume ==
    /\ bpc = "dead" /\ bpc' = "find"
    /\ UNCHANGED <<project, host, mine, ctr, inside, touched, stray, step, left, misread, synced, bops, mishaps>>

\* The reconcile of another process takes the container for an orphan; docker ps does not list a stopped one.
Reap ==
    /\ Mishap /\ ctr = "up" /\ Gone
    /\ UNCHANGED <<project, host, mine, touched, bpc, step, left, misread, synced, bops>>

\* The container stops with the daemon and keeps its files.
Stop ==
    /\ Mishap /\ ctr = "up" /\ ctr' = "stopped" /\ stray' = FALSE
    /\ UNCHANGED <<project, host, mine, inside, touched, bpc, step, left, misread, synced, bops>>

\* The user goes on working in the project.
Edit(p) ==
    /\ Mishap /\ host' = [host EXCEPT ![p] = 4] /\ mine' = [mine EXCEPT ![p] = 4]
    /\ UNCHANGED <<project, ctr, inside, touched, stray, bpc, step, left, misread, synced, bops>>

Over == bpc = "ended" /\ UNCHANGED containerVars

ContainerNext ==
    \/ Find \/ Create \/ Ready \/ CopyIn \/ CopyInFails \/ RunSetup
    \/ \E k \in {"cmd", "agent"} : StartStep(k)
    \/ ReuseOrCreate \/ StepWorks \/ StrayWorks \/ ExecEnds \/ ExecTimesOut \/ ExecCancelled \/ Finish
    \/ TearDown \/ Drop \/ List \/ CopyOut \/ CopyOutFails \/ Copied
    \/ EngineDies \/ Resume \/ Reap \/ Stop \/ Over
    \/ \E p \in Paths : Edit(p)

ContainerSpec == ContainerInit /\ [][ContainerNext]_containerVars

-----------------------------------------------------------------------------
(* Properties *)

\* Every variable has its type; nothing is in a container that does not exist, and a container with the
\* marker has a repository to list changes from.
ContainerTypeOK ==
    /\ project \in Projects /\ host \in [Paths -> Contents] /\ mine \in [Paths -> Contents]
    /\ ctr \in {"absent", "up", "stopped"} /\ touched \subseteq Paths /\ stray \in BOOLEAN
    /\ inside.files \in [Paths -> Contents]
    /\ bpc \in {"find", "create", "marker", "copyIn", "ready", "reuse", "exec", "tearDown", "list", "copyOut", "drop", "ended", "dead"}
    /\ synced \in {"none", "ok", "failed"} /\ step \in {"none", "cmd", "agent"} /\ misread \in BOOLEAN
    /\ ctr = "absent" => inside = Empty /\ ~stray
    /\ inside.marker => inside.git

\* Tracked by git, but not in the archive: git status in the container calls it deleted.
Missing(p) == project.git /\ project.head[p] # 0 /\ p \in Excluded \cup project.unreadable
\* Edited by the user before the run, so that git status reports it whatever the steps do, and again during it.
EditedTwice(p) == project.git /\ project.files[p] # project.head[p] /\ mine[p] = 4

\* A host file that no step changed is as the user left it, through crashes in the middle of copy_in, resumes,
\* and containers that vanish or come back empty.  (Two kinds of file are not safe: see Missing and EditedTwice.)
UntouchedStay == \A p \in Paths \ touched : ~Missing(p) /\ ~EditedTwice(p) => host[p] = mine[p]

Visible(p) == inside.files[p] # inside.head[p] /\ (p \notin Ignored \/ inside.index[p] # 0)

\* A copy back that reports success left on the host every uncommitted change that git can see, also one
\* that was staged, unstaged or deleted; unless a stray process or the user kept writing.
WorkReachesHost ==
    bpc = "drop" /\ synced = "ok" /\ ctr = "up" /\ ~stray
        => \A p \in Paths : Visible(p) /\ mine[p] # 4 => host[p] = inside.files[p]

\* Once a container has the marker, nothing but a process in it changes its files, whatever crashes and resumes
\* there are, unless the test of the marker could not run in the engine that copies again.
WorkKept ==
    [][inside.marker /\ inside'.marker /\ inside'.files # inside.files => StepWorks \/ StrayWorks \/ misread]_containerVars

\* A step runs in a complete copy of the project, or in a container that has none of it.
WholeProject ==
    bpc = "exec" /\ ctr = "up" /\ ~inside.marker => inside.head = NoFiles /\ \A p \in Paths : inside.files[p] \in {0, 3}

\* Copy in and copy back are sound together: steps see the whole project or none of it, their work reaches
\* the host, and nothing else of the host changes.
ContainerSafe == ContainerTypeOK /\ UntouchedStay /\ WorkReachesHost /\ WholeProject
=============================================================================

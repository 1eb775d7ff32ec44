----------------------- MODULE SessionContainer_proofs -----------------------
(***************************************************************************)
(* Proofs about the SessionContainer module, for every project, every set  *)
(* of excluded and ignored paths and any number of steps, crashes, reaps,  *)
(* daemon restarts and edits by the user.                                  *)
(*                                                                         *)
(* What makes the copy back safe is not visible in the host's files: it is *)
(* what the container holds of a path that no step touched, compared with  *)
(* its repository, and which changes are still to be worked off.           *)
(***************************************************************************)
EXTENDS SessionContainer, TLAPS

-----------------------------------------------------------------------------
(* The inductive invariant. *)

InsideType ==
    [files : [Paths -> Contents], head : [Paths -> Contents], index : [Paths -> Contents],
     git : BOOLEAN, marker : BOOLEAN]
Change == [kind : {"deleted", "modified"}, path : Paths, tracked : BOOLEAN]

TypesInv ==
    /\ project \in Projects /\ host \in [Paths -> Contents] /\ mine \in [Paths -> Contents]
    /\ ctr \in {"absent", "up", "stopped"} /\ touched \subseteq Paths /\ stray \in BOOLEAN
    /\ inside \in InsideType
    /\ bpc \in {"find", "create", "marker", "copyIn", "ready", "reuse", "exec", "tearDown", "list",
                "copyOut", "drop", "ended", "dead"}
    /\ synced \in {"none", "ok", "failed"} /\ step \in {"none", "cmd", "agent"} /\ misread \in BOOLEAN
    /\ bpc = "copyIn" => left \subseteq Archived
    /\ bpc = "copyOut" => left \subseteq Change

\* The places between a finished copy in and the end of the copy back.
Equipped == {"ready", "reuse", "exec", "tearDown", "list", "copyOut", "drop"}

\* What the container is: nothing without a container, no repository without a copy in, no copy in over a
\* marker that the engine could test, and a step's container is one whose copy in finished or one that nothing
\* was copied into.
PlaceInv ==
    /\ ctr = "absent" => inside = Empty /\ stray = FALSE
    /\ inside.marker => inside.git
    /\ inside.git \/ (inside.head = NoFiles /\ inside.index = NoFiles)
    /\ inside.git /\ ~project.git => inside.marker
    /\ bpc = "copyIn" /\ ctr = "up" /\ inside.marker => misread = TRUE
    /\ bpc = "copyIn" /\ ctr = "up" /\ project.git /\ ".git" \notin left => inside.git
    /\ bpc \in Equipped /\ ~inside.marker => ~inside.git /\ \A p \in Paths : inside.files[p] \in {0, 3}

\* A path whose host file nothing of the run may change.
Protected(p) == p \notin touched /\ ~Missing(p) /\ ~EditedTwice(p)

\* What the container holds of a protected path, and why git status there does not report it or reports
\* what the user left on the host.
PathInv(p) ==
    /\ host[p] = mine[p] /\ mine[p] \in {project.files[p], 4}
    /\ inside.files[p] \in {0, mine[p], project.files[p]}
    /\ p \notin Archived => inside.files[p] = 0
    /\ inside.git /\ project.git =>
         inside.index[p] = project.head[p] /\ inside.head[p] = project.head[p]
    /\ inside.git /\ ~project.git =>
         /\ inside.head[p] = inside.index[p]
         /\ inside.index[p] # 0 => inside.files[p] \in {inside.index[p], 4}
         /\ inside.index[p] = 0 => inside.files[p] \in {0, 4} \/ p \in Ignored
    /\ inside.marker /\ p \in Archived => inside.files[p] \in {mine[p], project.files[p]}
    /\ bpc = "copyIn" /\ ctr = "up" /\ p \in Archived \ left => inside.files[p] \in {mine[p], project.files[p]}
    /\ bpc = "copyOut" => \A c \in left : c.path = p =>
         /\ (project.git /\ project.head[p] # mine[p]) \/ mine[p] = 4
         /\ c.kind = "deleted" => mine[p] = 0
         /\ c.kind = "modified" /\ ctr = "up" => inside.files[p] = mine[p]

ProtectedInv == \A p \in Paths : Protected(p) => PathInv(p)

\* The change that leaves the file of the container on the host.
Right(c, p) == c.path = p /\ c.kind = (IF inside.files[p] = 0 THEN "deleted" ELSE "modified")

\* What is left of the copy back ends with the container's file at every visible path.
PendingInv(p) ==
    /\ host[p] = inside.files[p] \/ \E c \in left : Right(c, p)
    /\ \A c \in left : c.path = p /\ ~Right(c, p) => c.tracked /\ \E d \in left : Right(d, p) /\ ~d.tracked

OutInv ==
    /\ bpc = "copyOut" /\ ctr = "up" /\ stray = FALSE =>
         \A p \in Paths : Visible(p) /\ mine[p] # 4 => PendingInv(p)
    /\ bpc = "drop" /\ synced = "ok" /\ ctr = "up" /\ stray = FALSE =>
         \A p \in Paths : Visible(p) /\ mine[p] # 4 => host[p] = inside.files[p]

ContainerInv == TypesInv /\ PlaceInv /\ ProtectedInv /\ OutInv

-----------------------------------------------------------------------------
(* What the actions do to the container. *)

\* A project has the contents of its commit and of its directory at every path.
LEMMA ProjectType ==
    ASSUME TypesInv
    PROVE  /\ project.git \in BOOLEAN /\ project.head \in [Paths -> {0, 1}]
           /\ project.files \in [Paths -> 0..2] /\ project.unreadable \subseteq Paths
BY ContainerAssumption DEF TypesInv, Project

\* A process in the container marks every path it changes, and neither makes nor breaks the repository.
LEMMA WorksFacts ==
    ASSUME TypesInv, PlaceInv, Works
    PROVE  /\ inside' \in InsideType /\ inside'.git = inside.git /\ inside'.marker = inside.marker
           /\ touched \subseteq touched' /\ touched' \subseteq Paths /\ ctr = "up"
           /\ ~inside.git => /\ inside'.head = inside.head /\ inside'.index = inside.index
                             /\ \A p \in Paths : inside'.files[p] \in {inside.files[p], 0, 3}
           /\ \A p \in Paths \ touched' :
                /\ inside'.files[p] = inside.files[p] /\ inside'.index[p] = inside.index[p]
                /\ inside'.head[p] \in {inside.head[p], inside.index[p]}
<1>1. inside \in InsideType
  BY DEF TypesInv
<1>2. Added(inside) \in [Paths -> Contents]
  BY <1>1 DEF Added, InsideType, Contents
<1>3. /\ ctr = "up" /\ touched \subseteq touched'
      /\ \A p \in Paths \ touched' : inside'.files[p] = inside.files[p] /\ inside'.index[p] = inside.index[p]
  BY DEF Works
<1>8. touched' \subseteq Paths
  BY DEF Works, TypesInv
<1>4. CASE \E p \in Paths, v \in {0, 3} : inside' = [inside EXCEPT !.files[p] = v]
  BY <1>1, <1>3, <1>8, <1>4 DEF InsideType, Contents
<1>5. CASE inside.git /\ inside' = [inside EXCEPT !.index = Added(inside)]
  BY <1>1, <1>2, <1>3, <1>8, <1>5 DEF InsideType
<1>6. CASE inside.git /\ inside' = [inside EXCEPT !.index = Added(inside), !.head = Added(inside)]
  <2>1. /\ inside'.files = inside.files /\ inside'.index = Added(inside) /\ inside'.head = Added(inside)
        /\ inside'.git = inside.git /\ inside'.marker = inside.marker /\ inside' \in InsideType
    BY <1>1, <1>2, <1>6 DEF InsideType
  <2> QED
    BY <1>3, <1>8, <1>6, <2>1
<1>7. CASE \E p \in Paths : inside.index[p] # 0 /\ inside' = [inside EXCEPT !.index[p] = 0]
  <2>1. PICK p \in Paths : inside.index[p] # 0 /\ inside' = [inside EXCEPT !.index[p] = 0]
    BY <1>7
  <2>2. inside.git
    BY <2>1 DEF PlaceInv, NoFiles
  <2>3. /\ inside'.files = inside.files /\ inside'.head = inside.head /\ inside' \in InsideType
        /\ inside'.git = inside.git /\ inside'.marker = inside.marker
    BY <1>1, <2>1 DEF InsideType, Contents
  <2> QED
    BY <1>3, <1>8, <2>2, <2>3
<1> QED
  BY <1>4, <1>5, <1>6, <1>7 DEF Works

\* One member of the archive: a file as it is on the host now, or the repository.
LEMMA CopyInFacts ==
    ASSUME TypesInv, CopyIn
    PROVE  \E m \in left :
             /\ left' = left \ {m} /\ m \in Archived /\ inside' \in InsideType
             /\ bpc' = "copyIn" /\ bpc = "copyIn" /\ ctr = "up" /\ ctr' = "up" /\ inside'.marker = inside.marker
             /\ m # ".git" => /\ m \in Paths /\ inside'.head = inside.head /\ inside'.index = inside.index
                              /\ inside'.git = inside.git /\ inside'.files[m] = (IF host[m] = 0 THEN inside.files[m] ELSE host[m])
                              /\ \A p \in Paths \ {m} : inside'.files[p] = inside.files[p]
             /\ m = ".git" /\ project.git =>
                  /\ inside'.git = TRUE /\ inside'.head = project.head /\ inside'.index = project.head
                  /\ inside'.files = inside.files
             /\ m = ".git" /\ ~project.git => inside' = inside
<1>1. /\ inside \in InsideType /\ host \in [Paths -> Contents] /\ bpc = "copyIn" /\ left \subseteq Archived
      /\ bpc' = "copyIn" /\ ctr = "up" /\ ctr' = "up"
  BY DEF TypesInv, CopyIn
<1>2. project.head \in [Paths -> Contents] /\ project.git \in BOOLEAN
  BY ProjectType DEF Contents
<1>3. PICK m \in left : left' = left \ {m} /\ inside' = Extracted(inside, m)
  BY DEF CopyIn
<1>4. m \in Archived /\ (m # ".git" => m \in Paths)
  BY <1>1, <1>3 DEF Archived
<1>5. CASE m # ".git"
  <2>1. inside' = (IF host[m] = 0 THEN inside ELSE [inside EXCEPT !.files[m] = host[m]]) /\ m \in Paths
    BY <1>3, <1>4, <1>5 DEF Extracted
  <2>2. /\ inside' \in InsideType /\ inside'.marker = inside.marker /\ inside'.head = inside.head
        /\ inside'.index = inside.index /\ inside'.git = inside.git /\ inside'.files[m] = (IF host[m] = 0 THEN inside.files[m] ELSE host[m])
        /\ \A p \in Paths \ {m} : inside'.files[p] = inside.files[p]
    BY <1>1, <2>1 DEF InsideType
  <2> QED
    BY <1>1, <1>3, <1>4, <1>5, <2>2
<1>6. CASE m = ".git" /\ project.git
  <2>1. inside' = [inside EXCEPT !.git = TRUE, !.head = project.head, !.index = project.head]
    BY <1>3, <1>6 DEF Extracted
  <2>2. /\ inside' \in InsideType /\ inside'.marker = inside.marker /\ inside'.head = project.head
        /\ inside'.index = project.head /\ inside'.git = TRUE /\ inside'.files = inside.files
    BY <1>1, <1>2, <2>1 DEF InsideType
  <2> QED
    BY <1>1, <1>3, <1>4, <1>6, <2>2
<1>7. CASE m = ".git" /\ ~project.git
  <2>1. inside' = inside
    BY <1>3, <1>7 DEF Extracted
  <2> QED
    BY <1>1, <1>3, <1>4, <1>7, <2>1
<1> QED
  BY <1>5, <1>6, <1>7

\* setup_script commits what was copied when no repository came along.
LEMMA SetupFacts ==
    ASSUME TypesInv, RunSetup
    PROVE  /\ inside' \in InsideType /\ inside'.git = TRUE /\ inside'.marker = TRUE /\ inside'.files = inside.files
           /\ inside.git => inside'.head = inside.head /\ inside'.index = inside.index
           /\ ~inside.git => inside'.head = Added(inside) /\ inside'.index = Added(inside)
<1>1. inside \in InsideType /\ inside' = Setup(inside)
  BY DEF TypesInv, RunSetup
<1>2. Added(inside) \in [Paths -> Contents]
  BY <1>1 DEF Added, InsideType, Contents
<1>3. CASE inside.git
  <2>1. inside' = [inside EXCEPT !.marker = TRUE]
    BY <1>1, <1>3 DEF Setup
  <2> QED
    BY <1>1, <1>3, <2>1 DEF InsideType
<1>4. CASE ~inside.git
  <2>1. inside' = [[inside EXCEPT !.git = TRUE, !.index = Added(inside), !.head = Added(inside)] EXCEPT !.marker = TRUE]
    BY <1>1, <1>4 DEF Setup
  <2> QED
    BY <1>1, <1>2, <1>4, <2>1 DEF InsideType
<1> QED
  BY <1>3, <1>4

\* An empty container.
LEMMA EmptyType ==
    /\ Empty \in InsideType /\ Empty.git = FALSE /\ Empty.marker = FALSE
    /\ Empty.head = NoFiles /\ Empty.index = NoFiles /\ Empty.files = NoFiles
    /\ \A p \in Paths : NoFiles[p] = 0
BY DEF Empty, InsideType, NoFiles, Contents

-----------------------------------------------------------------------------
(* The invariant is preserved. *)

\* The actions that only move the engine or set down what it will do next.
Moves ==
    \/ Find \/ Ready \/ CopyInFails \/ (\E k \in {"cmd", "agent"} : StartStep(k)) \/ ExecEnds \/ Finish
    \/ List \/ CopyOutFails \/ Copied \/ Resume \/ Over \/ UNCHANGED containerVars

\* The actions by what they change.
LEMMA ByEffect ==
    ASSUME [ContainerNext]_containerVars
    PROVE  \/ Moves \/ Create \/ ReuseOrCreate \/ CopyIn \/ RunSetup \/ StepWorks \/ StrayWorks
           \/ ExecTimesOut \/ ExecCancelled \/ TearDown \/ Drop \/ CopyOut \/ EngineDies \/ Reap \/ Stop
           \/ \E p \in Paths : Edit(p)
BY DEF ContainerNext, Moves

\* A move changes neither files nor the container.
LEMMA MovesFacts ==
    ASSUME Moves
    PROVE  UNCHANGED <<project, host, mine, ctr, inside, touched, stray>>
BY DEF Moves, Find, Ready, CopyInFails, StartStep, ExecEnds, Finish, List, CopyOutFails, Copied, Resume,
   Over,
   containerVars

\* git status lists changes of paths.
LEMMA ListType ==
    ASSUME NEW w
    PROVE  ChangedPaths(w) \subseteq Change
<1>1. ASSUME NEW c \in Tracked(w) PROVE c \in Change
  <2>1. PICK p \in Paths : c = Entry(IF IsDeleted(w, p) THEN "deleted" ELSE "modified", p, TRUE)
    BY DEF Tracked
  <2> QED
    BY <2>1 DEF Entry, Change
<1>2. ASSUME NEW c \in Untracked(w) PROVE c \in Change
  <2>1. PICK p \in Paths : c = Entry("modified", p, FALSE)
    BY DEF Untracked
  <2> QED
    BY <2>1 DEF Entry, Change
<1> QED
  BY <1>1, <1>2 DEF ChangedPaths

\* Every action keeps the types.
LEMMA TypesStep ==
    ASSUME TypesInv, PlaceInv, [ContainerNext]_containerVars
    PROVE  TypesInv'
<1>1. CASE Moves
  <2>1. UNCHANGED <<project, host, mine, ctr, inside, touched, stray>> /\ Archived' = Archived
    BY <1>1, MovesFacts DEF Archived
  <2>2. CASE Find \/ StartStep("cmd") \/ StartStep("agent") \/ ExecEnds \/ Finish \/ Copied \/ Resume \/ CopyInFails \/ CopyOutFails
    BY <2>1, <2>2 DEF Find, FindContainer, StartStep, ExecEnds, Finish, Copied, Resume, CopyInFails,
       CopyOutFails, TypesInv
  <2>3. CASE Ready
    <3>1. misread' \in BOOLEAN
      BY <2>3, Zenon DEF Ready, TestMarker
    <3> QED
      BY <2>1, <2>3, <3>1 DEF Ready, TypesInv
  <2>4. CASE List
    BY <2>1, <2>4, ListType DEF List, TypesInv
  <2>5. CASE Over \/ UNCHANGED containerVars
    BY <2>1, <2>5 DEF Over, containerVars, TypesInv
  <2> QED
    BY <1>1, <2>2, <2>3, <2>4, <2>5 DEF Moves
<1>2. CASE Create \/ ReuseOrCreate
  BY <1>2, EmptyType DEF Create, ReuseOrCreate, CreateWithOptions, TypesInv
<1>3. CASE CopyIn
  BY <1>3, CopyInFacts DEF CopyIn, TypesInv, Archived
<1>4. CASE RunSetup
  BY <1>4, SetupFacts DEF RunSetup, TypesInv, Archived
<1>5. CASE StepWorks \/ StrayWorks
  BY <1>5, WorksFacts DEF StepWorks, StrayWorks, TypesInv, Archived
<1>6. CASE ExecTimesOut \/ ExecCancelled
  BY <1>6 DEF ExecTimesOut, ExecCancelled, TypesInv
<1>7. CASE TearDown \/ Drop
  BY <1>7, EmptyType DEF TearDown, Drop, RemoveContainer, Gone, TypesInv
<1>8. CASE CopyOut
  <2>1. PICK c \in Foremost(left) :
         /\ \/ c.kind = "deleted" /\ host' = [host EXCEPT ![c.path] = 0]
            \/ /\ c.kind = "modified" /\ ctr = "up" /\ inside.files[c.path] # 0
               /\ host' = [host EXCEPT ![c.path] = inside.files[c.path]]
         /\ left' = left \ {c}
    BY <1>8 DEF CopyOut
  <2>2. bpc = "copyOut" /\ left \subseteq Change /\ c \in Change
    BY <1>8, <2>1 DEF CopyOut, TypesInv, Foremost
  <2>3. host' \in [Paths -> Contents]
    BY <2>1, <2>2 DEF TypesInv, InsideType, Change, Contents
  <2> QED
    BY <1>8, <2>1, <2>2, <2>3 DEF CopyOut, TypesInv, Archived
<1>9. CASE EngineDies
  <2>1. stray' \in BOOLEAN
    BY <1>9, Zenon DEF EngineDies
  <2> QED
    BY <1>9, <2>1 DEF EngineDies, TypesInv
<1>10. CASE Reap \/ Stop
  BY <1>10, EmptyType DEF Reap, Stop, Gone, TypesInv, Archived
<1>11. CASE \E p \in Paths : Edit(p)
  BY <1>11 DEF Edit, TypesInv, Contents, Archived
<1> QED
  BY <1>1, <1>2, <1>3, <1>4, <1>5, <1>6, <1>7, <1>8, <1>9, <1>10, <1>11, ByEffect

\* Every action keeps what is known of the container.
LEMMA PlaceStep ==
    ASSUME TypesInv, PlaceInv, [ContainerNext]_containerVars
    PROVE  PlaceInv'
<1>1. CASE Moves
  <2>1. UNCHANGED <<project, host, mine, ctr, inside, touched, stray>>
    BY <1>1, MovesFacts
  <2>2. ".git" \in Archived
    BY ContainerAssumption, ProjectType DEF Archived, Paths
  <2>3. CASE Find \/ Copied \/ Resume \/ CopyInFails \/ CopyOutFails \/ ExecEnds \/ Finish \/ List
    BY <2>1, <2>3 DEF Find, FindContainer, ExecEnds, Finish, Copied, Resume, CopyInFails, CopyOutFails,
       List, PlaceInv, Equipped
  <2>4. CASE StartStep("cmd") \/ StartStep("agent")
    BY <2>1, <2>4 DEF StartStep, PlaceInv, Equipped
  <2>5. CASE Ready
    BY <2>1, <2>2, <2>5 DEF Ready, TestMarker, PlaceInv, Equipped
  <2>6. CASE Over \/ UNCHANGED containerVars
    BY <2>1, <2>6 DEF Over, containerVars, PlaceInv
  <2> QED
    BY <1>1, <2>3, <2>4, <2>5, <2>6 DEF Moves
<1>2. CASE Create \/ ReuseOrCreate
  BY <1>2, EmptyType DEF Create, ReuseOrCreate, CreateWithOptions, PlaceInv, Equipped
<1>3. CASE CopyIn
  <2>1. PICK m \in left :
             /\ left' = left \ {m} /\ m \in Archived /\ inside' \in InsideType
             /\ bpc' = "copyIn" /\ bpc = "copyIn" /\ ctr = "up" /\ ctr' = "up" /\ inside'.marker = inside.marker
             /\ m # ".git" => /\ m \in Paths /\ inside'.head = inside.head /\ inside'.index = inside.index
                              /\ inside'.git = inside.git
             /\ m = ".git" /\ project.git => inside'.git = TRUE
             /\ m = ".git" /\ ~project.git => inside' = inside
    BY <1>3, CopyInFacts
  <2>2. project' = project /\ stray' = stray /\ misread' = misread /\ project.git \in BOOLEAN
    BY <1>3, ProjectType DEF CopyIn
  <2>3. CASE m # ".git"
    BY <2>1, <2>2, <2>3 DEF PlaceInv, Equipped
  <2>4. CASE m = ".git" /\ project.git
    BY <2>1, <2>2, <2>4 DEF PlaceInv, Equipped
  <2>5. CASE m = ".git" /\ ~project.git
    BY <2>1, <2>2, <2>5 DEF PlaceInv, Equipped
  <2> QED
    BY <2>3, <2>4, <2>5
<1>4. CASE RunSetup
  BY <1>4, SetupFacts DEF RunSetup, PlaceInv, Equipped
<1>5. CASE StepWorks \/ StrayWorks
  BY <1>5, WorksFacts DEF StepWorks, StrayWorks, PlaceInv, Equipped
<1>6. CASE ExecTimesOut \/ ExecCancelled
  BY <1>6 DEF ExecTimesOut, ExecCancelled, PlaceInv, Equipped
<1>7. CASE TearDown \/ Drop
  BY <1>7, EmptyType DEF TearDown, Drop, RemoveContainer, Gone, PlaceInv, Equipped
<1>8. CASE CopyOut
  BY <1>8 DEF CopyOut, PlaceInv, Equipped
<1>9. CASE EngineDies
  <2>1. ctr = "absent" => stray' = FALSE
    BY <1>9 DEF EngineDies, PlaceInv
  <2> QED
    BY <1>9, <2>1 DEF EngineDies, PlaceInv, Equipped
<1>10. CASE Reap \/ Stop
  BY <1>10, EmptyType DEF Reap, Stop, Gone, PlaceInv, Equipped
<1>11. CASE \E p \in Paths : Edit(p)
  BY <1>11 DEF Edit, PlaceInv, Equipped
<1> QED
  BY <1>1, <1>2, <1>3, <1>4, <1>5, <1>6, <1>7, <1>8, <1>9, <1>10, <1>11, ByEffect

\* A path that is protected after a step was so before it.
LEMMA ProtectedBefore ==
    ASSUME TypesInv, PlaceInv, [ContainerNext]_containerVars, NEW p \in Paths, Protected(p)'
    PROVE  Protected(p) /\ project' = project /\ p \notin touched /\ p \notin touched'
<1>1. project' = project /\ touched \subseteq touched' /\ (mine'[p] = mine[p] \/ mine'[p] = 4)
  <2>1. CASE Moves
    BY <2>1, MovesFacts
  <2>2. CASE StepWorks \/ StrayWorks
    BY <2>2, WorksFacts DEF StepWorks, StrayWorks
  <2>3. CASE \E q \in Paths : Edit(q)
    BY <2>3 DEF Edit, TypesInv
  <2> QED
    BY <2>1, <2>2, <2>3, ByEffect DEF Create, ReuseOrCreate, CopyIn, RunSetup, ExecTimesOut, ExecCancelled,
       TearDown, Drop, CopyOut, EngineDies, Reap, Stop
<1> QED
  BY <1>1 DEF Protected, Missing, EditedTwice

\* What git status says of a protected path of the container.
LEMMA ListProtected ==
    ASSUME TypesInv, PlaceInv, NEW p \in Paths, Protected(p), PathInv(p), inside.marker,
           NEW c \in ChangedPaths(inside), c.path = p
    PROVE  /\ (project.git /\ project.head[p] # mine[p]) \/ mine[p] = 4
           /\ c.kind = "deleted" => mine[p] = 0
           /\ c.kind = "modified" => inside.files[p] = mine[p]
<1>1. /\ inside.git /\ inside \in InsideType /\ project.git \in BOOLEAN
      /\ project.head \in [Paths -> {0, 1}] /\ project.files \in [Paths -> 0..2]
  BY ProjectType DEF TypesInv, PlaceInv
<1>2. \/ /\ c.kind = IF IsDeleted(inside, p) THEN "deleted" ELSE "modified"
         /\ inside.head[p] # inside.index[p] \/ (inside.index[p] # 0 /\ inside.files[p] # inside.index[p])
      \/ c.kind = "modified" /\ p \notin Ignored /\ inside.index[p] = 0 /\ inside.files[p] # 0
  <2>1. CASE c \in Tracked(inside)
    BY <2>1 DEF Tracked, Entry
  <2>2. CASE c \in Untracked(inside)
    BY <2>2 DEF Untracked, Entry
  <2> QED
    BY <2>1, <2>2 DEF ChangedPaths
<1>3. CASE project.git
  <2>4. inside.index[p] = project.head[p] /\ inside.head[p] = project.head[p] /\ inside.files[p] # project.head[p]
    BY <1>1, <1>2, <1>3 DEF PathInv
  <2>5. inside.files[p] = mine[p]
    <3>1. CASE mine[p] = project.files[p]
      <4>1. CASE p \in Archived
        BY <3>1, <4>1 DEF PathInv
      <4>2. CASE p \notin Archived
        BY <1>3, <2>4, <4>2 DEF PathInv, Protected, Missing, Archived
      <4> QED
        BY <4>1, <4>2
    <3>2. CASE mine[p] = 4
      <4>1. project.files[p] = project.head[p]
        BY <1>3, <3>2 DEF Protected, EditedTwice
      <4>2. CASE p \in Archived
        BY <2>4, <4>1, <4>2 DEF PathInv
      <4>3. CASE p \notin Archived
        BY <1>3, <2>4, <4>3 DEF PathInv, Protected, Missing, Archived
      <4> QED
        BY <4>2, <4>3
    <3> QED
      BY <3>1, <3>2 DEF PathInv
  <2>6. c.kind = "deleted" => inside.files[p] = 0
    BY <1>2, <2>4 DEF IsDeleted
  <2> QED
    BY <1>3, <2>4, <2>5, <2>6
<1>4. CASE ~project.git
  <2>1. inside.head[p] = inside.index[p] /\ inside.files[p] = 4
    BY <1>1, <1>2, <1>4 DEF PathInv
  <2>2. mine[p] = 4
    BY <1>1, <2>1 DEF PathInv
  <2>3. c.kind = "modified"
    BY <1>2, <2>1 DEF IsDeleted
  <2> QED
    BY <2>1, <2>2, <2>3
<1> QED
  BY <1>3, <1>4

\* Every action keeps what is known of a protected path.
LEMMA ProtectedStep ==
    ASSUME TypesInv, PlaceInv, ProtectedInv, [ContainerNext]_containerVars
    PROVE  ProtectedInv'
<1> SUFFICES ASSUME NEW p \in Paths, Protected(p)' PROVE PathInv(p)'
  BY DEF ProtectedInv
<1>0. /\ Protected(p) /\ project' = project /\ p \notin touched /\ p \notin touched' /\ PathInv(p)
      /\ Archived' = Archived
  BY ProtectedBefore DEF ProtectedInv, Archived
<1>50. /\ inside \in InsideType /\ project.git \in BOOLEAN /\ project.head \in [Paths -> {0, 1}]
      /\ project.files \in [Paths -> 0..2] /\ host \in [Paths -> Contents] /\ mine \in [Paths -> Contents]
  BY ProjectType DEF TypesInv
<1>1. CASE Moves
  <2>1. UNCHANGED <<host, mine, ctr, inside, stray>>
    BY <1>1, MovesFacts
  <2>2. CASE List /\ bpc' = "copyOut"
    <3>1. bpc = "list" /\ inside.git /\ left' = ChangedPaths(inside)
      BY <2>2 DEF List
    <3>2. inside.marker
      BY <3>1 DEF PlaceInv, Equipped
    <3>3. \A c \in left' : c.path = p =>
            /\ (project.git /\ project.head[p] # mine[p]) \/ mine[p] = 4
            /\ c.kind = "deleted" => mine[p] = 0
            /\ c.kind = "modified" => inside.files[p] = mine[p]
      BY <1>0, <3>1, <3>2, ListProtected
    <3> QED
      BY <1>0, <2>1, <2>2, <3>3 DEF PathInv
  <2>3. CASE bpc' = "copyIn" \/ (bpc' = bpc /\ left' = left)
    BY <1>1, <1>0, <2>1, <2>3 DEF Moves, Find, FindContainer, Ready, CopyInFails, StartStep, ExecEnds,
       Finish, List,
       CopyOutFails, Copied, Resume, Over, containerVars, PathInv
  <2>4. CASE bpc' \notin {"copyIn", "copyOut"}
    BY <1>0, <2>1, <2>4 DEF PathInv
  <2>5. bpc' = "copyOut" => List \/ (bpc' = bpc /\ left' = left)
    BY <1>1 DEF Moves, Find, FindContainer, Ready, CopyInFails, StartStep, ExecEnds, Finish, List,
       CopyOutFails, Copied, Resume, Over, containerVars
  <2> QED
    BY <2>2, <2>3, <2>4, <2>5
<1>2. CASE Create \/ ReuseOrCreate
  <2>1. UNCHANGED <<host, mine, left>> /\ bpc' \notin {"copyIn", "copyOut"}
    BY <1>2 DEF Create, ReuseOrCreate, CreateWithOptions
  <2>2. inside' = inside \/ inside' = Empty
    BY <1>2 DEF Create, ReuseOrCreate, CreateWithOptions
  <2> QED
    BY <1>0, <2>1, <2>2, EmptyType DEF PathInv
<1>3. CASE CopyIn
  <2>1. PICK m \in left :
             /\ left' = left \ {m} /\ m \in Archived /\ inside' \in InsideType
             /\ bpc' = "copyIn" /\ bpc = "copyIn" /\ ctr = "up" /\ ctr' = "up" /\ inside'.marker = inside.marker
             /\ m # ".git" => /\ m \in Paths /\ inside'.head = inside.head /\ inside'.index = inside.index
                              /\ inside'.git = inside.git /\ inside'.files[m] = (IF host[m] = 0 THEN inside.files[m] ELSE host[m])
                              /\ \A q \in Paths \ {m} : inside'.files[q] = inside.files[q]
             /\ m = ".git" /\ project.git =>
                  /\ inside'.git = TRUE /\ inside'.head = project.head /\ inside'.index = project.head
                  /\ inside'.files = inside.files
             /\ m = ".git" /\ ~project.git => inside' = inside
    BY <1>3, CopyInFacts
  <2>2. UNCHANGED <<host, mine>> /\ p # ".git"
    BY <1>3 DEF CopyIn, Paths
  <2>3. CASE m = p
    <3>1. m # ".git"
      BY <2>2, <2>3
    <3>2. /\ inside'.head = inside.head /\ inside'.index = inside.index /\ inside'.git = inside.git
          /\ inside'.files[p] = (IF host[p] = 0 THEN inside.files[p] ELSE host[p])
      BY <2>1, <2>3, <3>1
    <3>3. host[p] = mine[p] /\ (mine[p] = project.files[p] \/ mine[p] = 4)
      BY <1>0 DEF PathInv
    <3>4. inside'.files[p] = mine[p]
      BY <1>0, <1>50, <3>2, <3>3 DEF PathInv
    <3>5. mine[p] = project.files[p] => inside.files[p] \in {0, mine[p]}
      BY <1>0 DEF PathInv
    <3>6. inside.git /\ ~project.git /\ mine[p] = project.files[p] =>
            /\ inside.index[p] # 0 => mine[p] = inside.index[p]
            /\ inside.index[p] = 0 => mine[p] = 0 \/ p \in Ignored
      BY <1>0, <1>50, <2>1, <2>3 DEF PathInv, PlaceInv
    <3> QED
      BY <1>0, <1>50, <2>1, <2>2, <2>3, <3>2, <3>3, <3>4, <3>6 DEF PathInv
  <2>4. CASE m # p /\ m # ".git"
    <3>1. inside'.files[p] = inside.files[p]
      BY <2>1, <2>4
    <3> QED
      BY <1>0, <1>50, <2>1, <2>2, <2>4, <3>1 DEF PathInv
  <2>5. CASE m = ".git" /\ project.git
    BY <1>0, <1>50, <2>1, <2>2, <2>5 DEF PathInv
  <2>6. CASE m = ".git" /\ ~project.git
    BY <1>0, <1>50, <2>1, <2>2, <2>6 DEF PathInv
  <2> QED
    BY <2>3, <2>4, <2>5, <2>6
<1>4. CASE RunSetup
  <2>1. /\ UNCHANGED <<host, mine, ctr>> /\ bpc' = "ready" /\ bpc = "copyIn" /\ left = {} /\ ctr = "up"
        /\ project.git => inside.git
    BY <1>4 DEF RunSetup, PlaceInv
  <2>2. /\ inside'.git = TRUE /\ inside'.marker = TRUE /\ inside'.files = inside.files
        /\ inside.git => inside'.head = inside.head /\ inside'.index = inside.index
        /\ ~inside.git => inside'.head = Added(inside) /\ inside'.index = Added(inside)
    BY <1>4, SetupFacts
  <2>3. p \in Archived => inside.files[p] \in {mine[p], project.files[p]}
    BY <1>0, <2>1 DEF PathInv
  <2>4. ~inside.git => Added(inside)[p] = IF p \in Ignored THEN 0 ELSE inside.files[p]
    BY EmptyType DEF Added, PlaceInv
  <2>5. CASE inside.git
    BY <1>0, <2>1, <2>2, <2>3, <2>5 DEF PathInv
  <2>6. CASE ~inside.git
    BY <1>0, <2>1, <2>2, <2>3, <2>4, <2>6 DEF PathInv
  <2> QED
    BY <2>5, <2>6
<1>5. CASE StepWorks \/ StrayWorks
  <2>1. UNCHANGED <<host, mine, ctr, bpc, left>> /\ Works
    BY <1>5 DEF StepWorks, StrayWorks
  <2>2. /\ inside'.git = inside.git /\ inside'.marker = inside.marker
        /\ inside'.files[p] = inside.files[p] /\ inside'.index[p] = inside.index[p]
        /\ inside'.head[p] \in {inside.head[p], inside.index[p]}
    BY <1>0, <2>1, WorksFacts
  <2> QED
    BY <1>0, <2>1, <2>2 DEF PathInv
<1>6. CASE ExecTimesOut \/ ExecCancelled
  <2>1. UNCHANGED <<host, mine, ctr, inside, left>> /\ bpc' \notin {"copyIn", "copyOut"}
    BY <1>6 DEF ExecTimesOut, ExecCancelled
  <2> QED
    BY <1>0, <2>1 DEF PathInv
<1>7. CASE TearDown \/ Drop
  <2>1. /\ UNCHANGED <<host, mine>> /\ bpc' \notin {"copyIn", "copyOut"}
        /\ inside' = inside \/ inside' = Empty
    BY <1>7 DEF TearDown, Drop, RemoveContainer, Gone
  <2> QED
    BY <1>0, <2>1, EmptyType DEF PathInv
<1>8. CASE CopyOut
  <2>1. PICK c \in Foremost(left) :
         /\ \/ c.kind = "deleted" /\ host' = [host EXCEPT ![c.path] = 0]
            \/ /\ c.kind = "modified" /\ ctr = "up" /\ inside.files[c.path] # 0
               /\ host' = [host EXCEPT ![c.path] = inside.files[c.path]]
         /\ left' = left \ {c}
    BY <1>8 DEF CopyOut
  <2>2. UNCHANGED <<mine, ctr, inside, bpc>> /\ bpc = "copyOut" /\ c \in left
    BY <1>8, <2>1 DEF CopyOut, Foremost
  <2>3. host'[p] = mine[p]
    <3>1. CASE c.path = p
      BY <1>0, <1>50, <2>1, <2>2, <3>1 DEF PathInv
    <3>2. CASE c.path # p
      BY <1>0, <1>50, <2>1, <2>2, <3>2 DEF PathInv
    <3> QED
      BY <3>1, <3>2
  <2> QED
    BY <1>0, <2>1, <2>2, <2>3 DEF PathInv
<1>9. CASE EngineDies
  <2>1. UNCHANGED <<host, mine, ctr, inside>> /\ bpc' = "dead"
    BY <1>9 DEF EngineDies
  <2> QED
    BY <1>0, <2>1 DEF PathInv
<1>10. CASE Reap \/ Stop
  <2>1. UNCHANGED <<host, mine, bpc, left>> /\ ctr' # "up" /\ (inside' = inside \/ inside' = Empty)
    BY <1>10 DEF Reap, Stop, Gone
  <2> QED
    BY <1>0, <2>1, EmptyType DEF PathInv
<1>11. CASE \E q \in Paths : Edit(q)
  <2>1. PICK q \in Paths : Edit(q)
    BY <1>11
  <2>2. UNCHANGED <<ctr, inside, bpc, left>> /\ host' = [host EXCEPT ![q] = 4] /\ mine' = [mine EXCEPT ![q] = 4]
    BY <2>1 DEF Edit
  <2>3. CASE q # p
    <3>1. host'[p] = host[p] /\ mine'[p] = mine[p]
      BY <1>50, <2>2, <2>3
    <3> QED
      BY <1>0, <2>2, <3>1 DEF PathInv
  <2>4. CASE q = p
    <3>1. host'[p] = 4 /\ mine'[p] = 4
      BY <1>50, <2>2, <2>4
    <3>2. project.git => project.files[p] = project.head[p]
      BY <1>0, <3>1 DEF Protected, EditedTwice
    <3>3. inside.files[p] \in {mine[p], project.files[p]} => inside.files[p] \in {4, project.files[p]}
      BY <1>0 DEF PathInv
    <3>4. inside.files[p] \in {0, 4, project.files[p]}
      BY <1>0 DEF PathInv
    <3>5. bpc = "copyOut" => \A c \in left : c.path = p =>
            /\ c.kind # "deleted"
            /\ c.kind = "modified" /\ ctr = "up" => inside.files[p] = 4
      BY <1>0, <1>50, <3>2 DEF PathInv
    <3> QED
      BY <1>0, <2>2, <3>1, <3>3, <3>4, <3>5 DEF PathInv
  <2> QED
    BY <2>3, <2>4
<1> QED
  BY <1>1, <1>2, <1>3, <1>4, <1>5, <1>6, <1>7, <1>8, <1>9, <1>10, <1>11, ByEffect

\* A copy back begins with a list that leaves every visible change on the host.
LEMMA ListPending ==
    ASSUME TypesInv, left' = ChangedPaths(inside), inside' = inside, NEW p \in Paths, Visible(p)
    PROVE  PendingInv(p)'
<1>1. inside \in InsideType
  BY DEF TypesInv
<1>2. inside.files[p] # inside.head[p] /\ (p \notin Ignored \/ inside.index[p] # 0)
  BY DEF Visible
<1>3. \A c \in left' : c.path = p =>
        \/ /\ c.kind = (IF IsDeleted(inside, p) THEN "deleted" ELSE "modified") /\ c.tracked = TRUE
           /\ inside.head[p] # inside.index[p] \/ (inside.index[p] # 0 /\ inside.files[p] # inside.index[p])
        \/ c.kind = "modified" /\ inside.files[p] # 0
  <2> SUFFICES ASSUME NEW c \in left', c.path = p
               PROVE  \/ /\ c.kind = (IF IsDeleted(inside, p) THEN "deleted" ELSE "modified") /\ c.tracked = TRUE
                         /\ \/ inside.head[p] # inside.index[p]
                            \/ inside.index[p] # 0 /\ inside.files[p] # inside.index[p]
                      \/ c.kind = "modified" /\ inside.files[p] # 0
    OBVIOUS
  <2>1. CASE c \in Tracked(inside)
    BY <2>1 DEF Tracked, Entry
  <2>2. CASE c \in Untracked(inside)
    BY <2>2 DEF Untracked, Entry
  <2> QED
    BY <2>1, <2>2 DEF ChangedPaths
<1>4. CASE inside.index[p] = 0 /\ inside.files[p] # 0
  <2> DEFINE d == Entry("modified", p, FALSE)
  <2>1. d \in left'
    BY <1>2, <1>4 DEF ChangedPaths, Untracked
  <2>2. d.path = p /\ d.kind = "modified" /\ d.tracked = FALSE
    BY DEF Entry
  <2> HIDE DEF d
  <2>3. Right(d, p)'
    BY <1>4, <2>2 DEF Right
  <2> QED
    BY <1>3, <1>4, <2>1, <2>2, <2>3 DEF PendingInv, Right
<1>5. CASE inside.index[p] # 0 \/ inside.files[p] = 0
  <2> DEFINE k == IF IsDeleted(inside, p) THEN "deleted" ELSE "modified"
             d == Entry(k, p, TRUE)
  <2>1. k = IF inside.files[p] = 0 THEN "deleted" ELSE "modified"
    BY <1>2, <1>5 DEF IsDeleted
  <2>2. inside.head[p] # inside.index[p] \/ (inside.index[p] # 0 /\ inside.files[p] # inside.index[p])
    BY <1>2, <1>5
  <2>3. d \in left'
    BY <2>2 DEF ChangedPaths, Tracked
  <2>4. d.path = p /\ d.kind = k
    BY DEF Entry
  <2>5. \A c \in left' : c.path = p => c.kind = k
    BY <1>3, <2>1
  <2> HIDE DEF d, k
  <2> QED
    BY <2>1, <2>3, <2>4, <2>5 DEF PendingInv, Right
<1> QED
  BY <1>4, <1>5

\* Working off the foremost change keeps the rest sufficient.
LEMMA CopyOutPending ==
    ASSUME TypesInv, CopyOut, NEW p \in Paths, PendingInv(p)
    PROVE  PendingInv(p)'
<1>1. PICK c \in Foremost(left) :
         /\ \/ c.kind = "deleted" /\ host' = [host EXCEPT ![c.path] = 0]
            \/ /\ c.kind = "modified" /\ ctr = "up" /\ inside.files[c.path] # 0
               /\ host' = [host EXCEPT ![c.path] = inside.files[c.path]]
         /\ left' = left \ {c}
  BY DEF CopyOut
<1>2. /\ inside' = inside /\ c \in left /\ (c.tracked \/ \A d \in left : ~d.tracked)
      /\ host \in [Paths -> Contents]
  BY <1>1 DEF CopyOut, Foremost, TypesInv
<1>3. \A d : Right(d, p)' <=> Right(d, p)
  BY <1>2 DEF Right
<1>4. CASE c.path # p
  <2>1. host'[p] = host[p] /\ ~Right(c, p)
    BY <1>1, <1>2, <1>4 DEF Right
  <2>2. \A d \in left : Right(d, p) => d \in left'
    BY <1>1, <2>1
  <2> QED
    BY <1>1, <1>2, <1>3, <2>1, <2>2 DEF PendingInv
<1>5. CASE c.path = p /\ Right(c, p)
  <2>1. host'[p] = inside.files[p]
    BY <1>1, <1>2, <1>5 DEF Right
  <2>2. ASSUME NEW w \in left', w.path = p, ~Right(w, p)
        PROVE  w.tracked /\ \E d \in left' : Right(d, p) /\ ~d.tracked
    <3>1. w \in left /\ w.tracked /\ \E d \in left : Right(d, p) /\ ~d.tracked
      BY <1>1, <2>2 DEF PendingInv
    <3>2. PICK d \in left : Right(d, p) /\ ~d.tracked
      BY <3>1
    <3>3. d # c
      BY <1>2, <3>1, <3>2
    <3> QED
      BY <1>1, <3>1, <3>2, <3>3
  <2> QED
    BY <1>2, <1>3, <2>1, <2>2 DEF PendingInv
<1>6. CASE c.path = p /\ ~Right(c, p)
  <2>1. c.tracked
    BY <1>2, <1>6 DEF PendingInv
  <2>2. PICK d \in left : Right(d, p) /\ ~d.tracked
    BY <1>2, <1>6 DEF PendingInv
  <2>3. d \in left'
    BY <1>1, <2>1, <2>2
  <2>4. \A w \in left' : w.path = p /\ ~Right(w, p) => w.tracked
    BY <1>1 DEF PendingInv
  <2> QED
    BY <1>2, <1>3, <2>2, <2>3, <2>4 DEF PendingInv
<1> QED
  BY <1>4, <1>5, <1>6

\* Every action keeps what the copy back promises.
LEMMA OutStep ==
    ASSUME TypesInv, PlaceInv, OutInv, [ContainerNext]_containerVars
    PROVE  OutInv'
<1>1. ASSUME bpc' \notin {"copyOut", "drop"} PROVE OutInv'
  BY <1>1 DEF OutInv
<1>2. CASE List
  <2>1. UNCHANGED <<host, mine, ctr, inside, stray>>
    BY <1>2 DEF List
  <2>2. CASE left' = ChangedPaths(inside) /\ bpc' = "copyOut"
    <3>1. ASSUME NEW p \in Paths, Visible(p)' PROVE PendingInv(p)'
      <4>1. Visible(p)
        BY <2>1, <3>1 DEF Visible
      <4> QED
        BY <2>1, <2>2, <4>1, ListPending
    <3> QED
      BY <2>2, <3>1 DEF OutInv
  <2>3. CASE synced' = "failed" /\ bpc' = "drop"
    BY <2>3 DEF OutInv
  <2> QED
    BY <1>2, <2>2, <2>3 DEF List
<1>3. CASE CopyOut
  <2>1. UNCHANGED <<mine, ctr, inside, stray, bpc>> /\ bpc = "copyOut"
    BY <1>3 DEF CopyOut
  <2>2. ASSUME ctr = "up", stray = FALSE, NEW p \in Paths, Visible(p)', mine[p] # 4 PROVE PendingInv(p)'
    <3>1. Visible(p)
      BY <2>1, <2>2 DEF Visible
    <3>2. PendingInv(p)
      BY <2>1, <2>2, <3>1 DEF OutInv
    <3> QED
      BY <1>3, <3>2, CopyOutPending
  <2> QED
    BY <2>1, <2>2 DEF OutInv
<1>4. CASE CopyOutFails
  BY <1>4 DEF CopyOutFails, OutInv
<1>5. CASE Copied
  <2>1. UNCHANGED <<host, mine, ctr, inside, stray>> /\ bpc = "copyOut" /\ left = {} /\ bpc' = "drop"
    BY <1>5 DEF Copied
  <2>2. ASSUME ctr = "up", stray = FALSE, NEW p \in Paths, Visible(p)', mine[p] # 4
        PROVE  host[p] = inside.files[p]
    <3>1. Visible(p)
      BY <2>1, <2>2 DEF Visible
    <3> QED
      BY <2>1, <2>2, <3>1 DEF OutInv, PendingInv
  <2> QED
    BY <2>1, <2>2 DEF OutInv
<1>6. CASE ExecCancelled
  <2>1. bpc' = "drop" /\ ctr' = ctr /\ stray' = (ctr = "up")
    BY <1>6 DEF ExecCancelled
  <2> QED
    BY <2>1 DEF OutInv
<1>7. CASE StrayWorks
  <2>1. stray' = TRUE
    BY <1>7 DEF StrayWorks, TypesInv
  <2> QED
    BY <2>1 DEF OutInv
<1>8. CASE Reap \/ Stop
  BY <1>8 DEF Reap, Stop, Gone, OutInv
<1>9. CASE \E q \in Paths : Edit(q)
  <2>1. PICK q \in Paths : Edit(q)
    BY <1>9
  <2>2. /\ UNCHANGED <<ctr, inside, stray, bpc, left, synced>>
        /\ host' = [host EXCEPT ![q] = 4] /\ mine' = [mine EXCEPT ![q] = 4]
        /\ host \in [Paths -> Contents] /\ mine \in [Paths -> Contents]
    BY <2>1 DEF Edit, TypesInv
  <2>3. ASSUME NEW p \in Paths, mine'[p] # 4 PROVE host'[p] = host[p] /\ mine'[p] = mine[p]
    BY <2>2, <2>3
  <2> QED
    BY <2>2, <2>3 DEF OutInv, PendingInv, Right, Visible
<1>10. CASE Over \/ UNCHANGED containerVars
  BY <1>10 DEF Over, containerVars, OutInv, PendingInv, Right, Visible
<1>11. CASE \/ Find \/ Ready \/ CopyInFails \/ (\E k \in {"cmd", "agent"} : StartStep(k)) \/ ExecEnds \/ Finish
            \/ Resume \/ Create \/ ReuseOrCreate \/ CopyIn \/ RunSetup \/ StepWorks \/ ExecTimesOut
            \/ TearDown \/ Drop \/ EngineDies
  <2>1. bpc' \notin {"copyOut", "drop"}
    BY <1>11 DEF Find, FindContainer, Ready, CopyInFails, StartStep, ExecEnds, Finish, Resume, Create,
       ReuseOrCreate, CreateWithOptions, CopyIn, RunSetup, StepWorks, ExecTimesOut, TearDown, Drop, EngineDies
  <2> QED
    BY <1>1, <2>1
<1> QED
  BY <1>2, <1>3, <1>4, <1>5, <1>6, <1>7, <1>8, <1>9, <1>10, <1>11 DEF ContainerNext

\* The invariant holds when the session starts.
LEMMA ContainerStart == ContainerInit => ContainerInv
<1> SUFFICES ASSUME ContainerInit PROVE ContainerInv
  OBVIOUS
<1>1. project \in Project
  BY ContainerAssumption DEF ContainerInit
<1>2. TypesInv
  <2>1. project.files \in [Paths -> Contents]
    BY <1>1 DEF Project, Contents
  <2> QED
    BY <2>1, EmptyType DEF ContainerInit, TypesInv
<1>3. PlaceInv
  BY EmptyType DEF ContainerInit, PlaceInv, Equipped
<1>4. ProtectedInv
  BY EmptyType DEF ContainerInit, ProtectedInv, PathInv
<1>5. OutInv
  BY DEF ContainerInit, OutInv
<1> QED
  BY <1>2, <1>3, <1>4, <1>5 DEF ContainerInv

\* For every project, every set of excluded and ignored paths, and any number of steps, crashes, reaps, daemon
\* restarts and edits by the user, ContainerInv holds.
THEOREM ContainerInvariance == ContainerSpec => []ContainerInv
<1>1. ContainerInv /\ [ContainerNext]_containerVars => ContainerInv'
  BY TypesStep, PlaceStep, ProtectedStep, OutStep DEF ContainerInv
<1> QED
  BY <1>1, ContainerStart, PTL DEF ContainerSpec

\* Steps see the whole project or none of it, a copy back that reports success left every change git can see
\* on the host, and no host file that no step changed is overwritten by the copy back.
THEOREM ContainerIsSafe == ContainerSpec => []ContainerSafe
<1>1. ContainerInv => ContainerSafe
  <2> SUFFICES ASSUME ContainerInv PROVE ContainerSafe
    OBVIOUS
  <2>1. ContainerTypeOK
    BY DEF ContainerInv, TypesInv, InsideType, PlaceInv, ContainerTypeOK
  <2>2. UntouchedStay
    BY DEF ContainerInv, ProtectedInv, Protected, PathInv, UntouchedStay
  <2>3. WorkReachesHost
    BY DEF ContainerInv, OutInv, TypesInv, WorkReachesHost
  <2>4. WholeProject
    BY DEF ContainerInv, PlaceInv, Equipped, WholeProject
  <2> QED
    BY <2>1, <2>2, <2>3, <2>4 DEF ContainerSafe
<1> QED
  BY <1>1, ContainerInvariance, PTL

\* A resumed engine copies the project over the work in a container that has the marker only when its test of
\* the marker could not run.
THEOREM ResumeKeepsWork == ContainerSpec => WorkKept
<1>1. ContainerInv /\ [ContainerNext]_containerVars =>
        [inside.marker /\ inside'.marker /\ inside'.files # inside.files => StepWorks \/ StrayWorks \/ misread]_containerVars
  <2> SUFFICES ASSUME ContainerInv, [ContainerNext]_containerVars, inside.marker, inside'.marker,
                      inside'.files # inside.files, ~misread
               PROVE  StepWorks \/ StrayWorks
    OBVIOUS
  <2>1. TypesInv /\ PlaceInv
    BY DEF ContainerInv
  <2>2. ~Moves
    BY MovesFacts
  <2>3. ~CopyIn
    BY <2>1 DEF CopyIn, PlaceInv
  <2>4. ~RunSetup
    BY <2>1, SetupFacts
  <2>5. ~(Create \/ ReuseOrCreate)
    BY EmptyType DEF Create, ReuseOrCreate, CreateWithOptions
  <2>6. ~(TearDown \/ Drop \/ Reap)
    BY EmptyType DEF TearDown, Drop, Reap, RemoveContainer, Gone
  <2>7. ~(ExecTimesOut \/ ExecCancelled \/ CopyOut \/ EngineDies \/ Stop \/ \E p \in Paths : Edit(p))
    BY DEF ExecTimesOut, ExecCancelled, CopyOut, EngineDies, Stop, Edit
  <2> QED
    BY <2>2, <2>3, <2>4, <2>5, <2>6, <2>7, ByEffect
<1> QED
  BY <1>1, ContainerInvariance, PTL DEF ContainerSpec, WorkKept
=============================================================================

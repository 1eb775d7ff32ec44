--------------------------- MODULE Startup_proofs ---------------------------
(***************************************************************************)
(* Proofs about the Startup module, for any set of processes on one        *)
(* database, however their reconciles and sessions interleave and whenever *)
(* each of them dies.                                                      *)
(*                                                                         *)
(* The invariant says what a process still knows, at each place of the     *)
(* reconcile, about the sessions and worktrees it queried some steps ago   *)
(* while everybody else went on.                                           *)
(***************************************************************************)
EXTENDS Startup, TLAPS

-----------------------------------------------------------------------------
(* The inductive invariant. *)

\* Up to the creation of the process's own session.
Reconciling == {"new", "recover", "append", "fail", "requery", "ps", "destroy",
                "list", "readDir", "prune", "open"}

\* A process has a row from the creation of its session on, and not before.
RowInv ==
    \A q \in Procs :
        /\ at[q] \in Reconciling => row[q] = "none"
        /\ Live(q) => row[q] # "none"
        /\ at[q] = "returned" => row[q] \notin {"none", "running"}

\* Whoever is about to end a session has logged why.
CauseInv ==
    \A p \in Procs :
        /\ at[p] = "fail" => Logged(cur[p], "recovered")
        /\ at[p] = "report" => out[p] # "failed"
        /\ at[p] \in {"close", "finish"} /\ out[p] = "failed" => Logged(p, "step_failed")
        /\ at[p] \in {"close", "finish"} /\ out[p] = "cancelled" => Logged(p, "workflow_cancelled")
        /\ at[p] = "finish" /\ out[p] = "completed" => Logged(p, "workflow_completed")

\* A session that was found dead stays dead, and until the loop that is to reap it has done so it is
\* among what that loop has left.
ReapInv ==
    \A p \in Procs : \A q \in dead0[p] :
        /\ at[q] = "dead"
        /\ at[p] = "recover" /\ row[q] = "running" => q \in todo[p]
        /\ at[p] \in {"append", "fail"} /\ row[q] = "running" => q \in todo[p] \/ q = cur[p]
        /\ at[p] \in {"ps", "destroy", "list", "readDir", "prune", "open"} => row[q] # "running"
        /\ at[p] = "ps" => q \notin keep[p]
        /\ at[p] = "destroy" /\ box[q] # "absent" => q \in todo[p] \/ p \in warned
        /\ at[p] \in {"list", "readDir", "prune", "open"} /\ box[q] # "absent" => p \in warned

\* A live engine's worktree that is old enough for the prune is one that git worktree list told it of.
TreeInv ==
    /\ \A q \in old : tree[q] # "absent"
    /\ \A q \in Procs : at[q] \in Reconciling \cup {"tree"} => tree[q] = "absent"
    /\ \A q \in Procs : Live(q) => tree[q] # "orphan"
    /\ \A p \in Procs : at[p] \in {"readDir", "prune"} => \A q \in old : Live(q) => q \in keep[p]
    /\ \A p \in Procs : at[p] = "prune" => todo[p] \cap keep[p] = {}

-----------------------------------------------------------------------------
(* One lemma for each part: every action preserves it. *)

\* What every part of the proof starts from: a step of one process.
LEMMA TypeStep ==
    ASSUME TypeOK, RowInv, NEW p \in Procs,
           Recover(p) \/ Containers(p) \/ Prune(p) \/ Session(p) \/ World(p)
    PROVE  TypeOK' /\ RowInv'
<1>1. CASE SelectRunning(p)
  BY <1>1 DEF SelectRunning, Go, world, Running, Dead, TypeOK, Places, Outcomes, Causes, RowInv, Reconciling, Live
<1>2. CASE LoadSession(p)
  BY <1>2 DEF LoadSession, Go, world, TypeOK, Places, Outcomes, Causes, RowInv, Reconciling, Live
<1>3. CASE AppendCrashRecovery(p)
  BY <1>3 DEF AppendCrashRecovery, Go, world, TypeOK, Places, Outcomes, Causes, RowInv, Reconciling, Live
<1>4. CASE FailSession(p)
  BY <1>4 DEF FailSession, Go, world, FinishRow, TypeOK, Places, Outcomes, Causes, RowInv, Reconciling, Live
<1>5. CASE Requery(p)
  BY <1>5 DEF Requery, Go, world, Running, TypeOK, Places, Outcomes, Causes, RowInv, Reconciling, Live
<1>6. CASE DockerPs(p)
  <2> DEFINE orphans == {q \in Procs : box[q] # "absent"} \ keep[p]
  <2>1. /\ at[p] = "ps" /\ keep' = [keep EXCEPT ![p] = {}] /\ UNCHANGED <<world, cur, out, hasBox, dead0>>
        /\ \/ todo' = [todo EXCEPT ![p] = orphans] /\ Go(p, "destroy") /\ UNCHANGED warned
           \/ warned' = warned \cup {p} /\ Go(p, "list") /\ UNCHANGED todo
    BY <1>6, Zenon DEF DockerPs
  <2>2. CASE todo' = [todo EXCEPT ![p] = orphans] /\ Go(p, "destroy") /\ UNCHANGED warned
    BY <2>1, <2>2 DEF Go, world, TypeOK, Places, Outcomes, Causes, RowInv, Reconciling, Live
  <2>3. CASE warned' = warned \cup {p} /\ Go(p, "list") /\ UNCHANGED todo
    BY <2>1, <2>3 DEF Go, world, TypeOK, Places, Outcomes, Causes, RowInv, Reconciling, Live
  <2> QED
    BY <2>1, <2>2, <2>3
<1>7. CASE DestroyBySession(p)
  BY <1>7 DEF DestroyBySession, Go, world, TypeOK, Places, Outcomes, Causes, RowInv, Reconciling, Live
<1>8. CASE ContainersDone(p)
  BY <1>8 DEF ContainersDone, Go, world, TypeOK, Places, Outcomes, Causes, RowInv, Reconciling, Live
<1>9. CASE ListWorktrees(p)
  <2> DEFINE listed == {q \in Procs : tree[q] = "listed"}
  <2>1. /\ at[p] = "list" /\ UNCHANGED <<world, todo, cur, warned, out, hasBox, dead0>>
        /\ \/ keep' = [keep EXCEPT ![p] = listed] /\ Go(p, "readDir")
           \/ keep' = [keep EXCEPT ![p] = {}] /\ Go(p, "open")
    BY <1>9, Zenon DEF ListWorktrees
  <2>2. CASE keep' = [keep EXCEPT ![p] = listed] /\ Go(p, "readDir")
    BY <2>1, <2>2 DEF Go, world, TypeOK, Places, Outcomes, Causes, RowInv, Reconciling, Live
  <2>3. CASE keep' = [keep EXCEPT ![p] = {}] /\ Go(p, "open")
    BY <2>1, <2>3 DEF Go, world, TypeOK, Places, Outcomes, Causes, RowInv, Reconciling, Live
  <2> QED
    BY <2>1, <2>2, <2>3
<1>10. CASE ReadDir(p)
  BY <1>10 DEF ReadDir, Go, world, TypeOK, Places, Outcomes, Causes, RowInv, Reconciling, Live
<1>11. CASE PruneOne(p)
  <2>1. PICK q \in todo[p] :
          /\ todo' = [todo EXCEPT ![p] = @ \ {q}]
          /\ \/ tree' = [tree EXCEPT ![q] = "absent"] /\ old' = old \ {q}
             \/ UNCHANGED <<tree, old>>
    BY <1>11 DEF PruneOne
  <2>2. CASE tree' = [tree EXCEPT ![q] = "absent"] /\ old' = old \ {q}
    BY <1>11, <2>1, <2>2 DEF PruneOne, TypeOK, Places, Outcomes, Causes, RowInv, Reconciling, Live
  <2>3. CASE UNCHANGED <<tree, old>>
    BY <1>11, <2>1, <2>3 DEF PruneOne, TypeOK, Places, Outcomes, Causes, RowInv, Reconciling, Live
  <2> QED
    BY <2>1, <2>2, <2>3
<1>12. CASE PruneDone(p)
  BY <1>12 DEF PruneDone, Go, world, TypeOK, Places, Outcomes, Causes, RowInv, Reconciling, Live
<1>13. CASE OpenSession(p)
  BY <1>13 DEF OpenSession, Go, world, TypeOK, Places, Outcomes, Causes, RowInv, Reconciling, Live
<1>14. CASE PrepareWorktree(p)
  BY <1>14 DEF PrepareWorktree, Go, world, TypeOK, Places, Outcomes, Causes, RowInv, Reconciling, Live
<1>15. CASE StartContainer(p)
  BY <1>15 DEF StartContainer, Go, world, TypeOK, Places, Outcomes, Causes, RowInv, Reconciling, Live
<1>16. CASE StepsEnd(p)
  BY <1>16 DEF StepsEnd, Go, world, AfterSteps, Outcomes, TypeOK, Places, Outcomes, Causes, RowInv, Reconciling, Live
<1>17. CASE CloseWorkspace(p)
  BY <1>17 DEF CloseWorkspace, Go, world, AfterClose, TypeOK, Places, Outcomes, Causes, RowInv, Reconciling, Live
<1>18. CASE ReportOutcome(p)
  BY <1>18 DEF ReportOutcome, Go, world, AfterReport, TypeOK, Places, Outcomes, Causes, RowInv, Reconciling, Live
<1>19. CASE FinishSession(p)
  BY <1>19 DEF FinishSession, Go, world, FinishRow, Forget, TypeOK, Places, Outcomes, Causes, RowInv, Reconciling, Live
<1>20. CASE Die(p)
  BY <1>20 DEF Die, Go, world, Forget, Alive, TypeOK, Places, Outcomes, Causes, RowInv, Reconciling, Live
<1>21. CASE Age(p)
  BY <1>21 DEF Age, Go, world, TypeOK, Places, Outcomes, Causes, RowInv, Reconciling, Live
<1>22. CASE Unlist(p)
  BY <1>22 DEF Unlist, Go, world, Live, TypeOK, Places, Outcomes, Causes, RowInv, Reconciling, Live
<1> QED
  BY <1>1, <1>2, <1>3, <1>4, <1>5, <1>6, <1>7, <1>8, <1>9, <1>10, <1>11, <1>12, <1>13, <1>14, <1>15, <1>16, <1>17, <1>18, <1>19, <1>20, <1>21, <1>22 DEF Recover, Containers, Prune, Session, World

\* The lemmas that follow use the sequence facts behind Logged through this one: an append adds its
\* cause to one session's log and takes nothing away.
LEMMA LoggedAfter ==
    ASSUME TypeOK, NEW s \in Procs, NEW c \in Causes, log' = [log EXCEPT ![s] = Append(@, c)],
           NEW q \in Procs, NEW x
    PROVE  Logged(q, x)' <=> Logged(q, x) \/ (q = s /\ x = c)
<1>1. CASE q # s
  BY <1>1 DEF TypeOK, Logged
<1>2. CASE q = s
  <2> DEFINE l == log[s]
  <2>1. l \in Seq(Causes) /\ log'[q] = Append(l, c)
    BY <1>2 DEF TypeOK
  <2>2. /\ DOMAIN Append(l, c) = 1..(Len(l) + 1) /\ DOMAIN l = 1..Len(l) /\ Len(l) \in Nat
        /\ \A i \in 1..Len(l) : Append(l, c)[i] = l[i]
        /\ Append(l, c)[Len(l) + 1] = c
    BY <2>1
  <2>3. Logged(q, x) <=> \E i \in 1..Len(l) : l[i] = x
    BY <2>2, <1>2 DEF Logged
  <2>4. Logged(q, x)' <=> \E i \in 1..(Len(l) + 1) : Append(l, c)[i] = x
    BY <2>1, <2>2 DEF Logged
  <2> HIDE DEF l
  <2> QED
    BY <2>2, <2>3, <2>4, <1>2
<1> QED
  BY <1>1, <1>2

\* A log that is left alone says what it said.
LEMMA LoggedSame ==
    ASSUME NEW q \in Procs, NEW x, log' = log PROVE Logged(q, x)' <=> Logged(q, x)
BY DEF Logged

\* No step loses a cause, and no row is ended before its cause is logged.
LEMMA CauseStep ==
    ASSUME TypeOK, RowInv, CauseInv, RowHasCause, NEW p \in Procs,
           Recover(p) \/ Containers(p) \/ Prune(p) \/ Session(p) \/ World(p)
    PROVE  CauseInv' /\ RowHasCause'
<1>1. CASE SelectRunning(p)
  BY <1>1, LoggedSame DEF SelectRunning, Go, world, Running, Dead, TypeOK, Places, Outcomes, CauseInv, RowHasCause
<1>2. CASE LoadSession(p)
  BY <1>2, LoggedSame DEF LoadSession, Go, world, TypeOK, Places, Outcomes, CauseInv, RowHasCause
<1>3. CASE AppendCrashRecovery(p)
  <2>1. \A q \in Procs : \A x : Logged(q, x)' <=> Logged(q, x) \/ (q = cur[p] /\ x = "recovered")
    BY <1>3, LoggedAfter DEF AppendCrashRecovery, TypeOK, Causes
  <2> QED
    BY <1>3, <2>1 DEF AppendCrashRecovery, Go, TypeOK, Places, Outcomes, CauseInv, RowHasCause
<1>4. CASE FailSession(p)
  BY <1>4, LoggedSame DEF FailSession, Go, world, FinishRow, TypeOK, Places, Outcomes, CauseInv, RowHasCause
<1>5. CASE Requery(p)
  BY <1>5, LoggedSame DEF Requery, Go, world, Running, TypeOK, Places, Outcomes, CauseInv, RowHasCause
<1>6. CASE DockerPs(p)
  BY <1>6, LoggedSame DEF DockerPs, Go, world, TypeOK, Places, Outcomes, CauseInv, RowHasCause
<1>7. CASE DestroyBySession(p)
  BY <1>7, LoggedSame DEF DestroyBySession, Go, world, TypeOK, Places, Outcomes, CauseInv, RowHasCause
<1>8. CASE ContainersDone(p)
  BY <1>8, LoggedSame DEF ContainersDone, Go, world, TypeOK, Places, Outcomes, CauseInv, RowHasCause
<1>9. CASE ListWorktrees(p)
  BY <1>9, LoggedSame DEF ListWorktrees, Go, world, TypeOK, Places, Outcomes, CauseInv, RowHasCause
<1>10. CASE ReadDir(p)
  BY <1>10, LoggedSame DEF ReadDir, Go, world, TypeOK, Places, Outcomes, CauseInv, RowHasCause
<1>11. CASE PruneOne(p)
  BY <1>11, LoggedSame DEF PruneOne, Go, world, Prunable, TypeOK, Places, Outcomes, CauseInv, RowHasCause
<1>12. CASE PruneDone(p)
  BY <1>12, LoggedSame DEF PruneDone, Go, world, TypeOK, Places, Outcomes, CauseInv, RowHasCause
<1>13. CASE OpenSession(p)
  BY <1>13, LoggedSame DEF OpenSession, Go, world, TypeOK, Places, Outcomes, CauseInv, RowHasCause
<1>14. CASE PrepareWorktree(p)
  BY <1>14, LoggedSame DEF PrepareWorktree, Go, world, TypeOK, Places, Outcomes, CauseInv, RowHasCause
<1>15. CASE StartContainer(p)
  BY <1>15, LoggedSame DEF StartContainer, Go, world, TypeOK, Places, Outcomes, CauseInv, RowHasCause
<1>16. CASE StepsEnd(p)
  <2>1. PICK o \in Outcomes :
          /\ out' = [out EXCEPT ![p] = o]
          /\ log' = IF o = "completed" THEN log ELSE [log EXCEPT ![p] = Append(@, "step_failed")]
          /\ Go(p, AfterSteps(o))
    BY <1>16 DEF StepsEnd
  <2>2. CASE o = "completed"
    BY <1>16, <2>1, <2>2, LoggedSame DEF StepsEnd, AfterSteps, Go, TypeOK, Places, Outcomes, CauseInv, RowHasCause
  <2>3. CASE o # "completed"
    <3>1. \A q \in Procs : \A x : Logged(q, x)' <=> Logged(q, x) \/ (q = p /\ x = "step_failed")
      BY <2>1, <2>3, LoggedAfter DEF Causes
    <3> QED
      BY <1>16, <2>1, <2>3, <3>1 DEF StepsEnd, AfterSteps, Go, TypeOK, Places, Outcomes, CauseInv, RowHasCause
  <2> QED
    BY <2>2, <2>3
<1>17. CASE CloseWorkspace(p)
  BY <1>17, LoggedSame DEF CloseWorkspace, Go, world, AfterClose, TypeOK, Places, Outcomes, CauseInv, RowHasCause
<1>18. CASE ReportOutcome(p)
  <2> DEFINE c == IF out[p] = "completed" THEN "workflow_completed" ELSE "workflow_cancelled"
  <2>1. c \in Causes /\ log' = [log EXCEPT ![p] = Append(@, c)]
    BY <1>18 DEF ReportOutcome, Causes
  <2>2. \A q \in Procs : \A x : Logged(q, x)' <=> Logged(q, x) \/ (q = p /\ x = c)
    BY <2>1, LoggedAfter
  <2> QED
    BY <1>18, <2>2 DEF ReportOutcome, AfterReport, Go, TypeOK, Places, Outcomes, CauseInv, RowHasCause
<1>19. CASE FinishSession(p)
  BY <1>19, LoggedSame DEF FinishSession, Go, world, FinishRow, Forget, TypeOK, Places, Outcomes, CauseInv, RowHasCause
<1>20. CASE Die(p)
  BY <1>20, LoggedSame DEF Die, Go, world, Forget, Alive, TypeOK, Places, Outcomes, CauseInv, RowHasCause
<1>21. CASE Age(p)
  BY <1>21, LoggedSame DEF Age, Go, world, TypeOK, Places, Outcomes, CauseInv, RowHasCause
<1>22. CASE Unlist(p)
  BY <1>22, LoggedSame DEF Unlist, Go, world, Live, TypeOK, Places, Outcomes, CauseInv, RowHasCause
<1> QED
  BY <1>1, <1>2, <1>3, <1>4, <1>5, <1>6, <1>7, <1>8, <1>9, <1>10, <1>11, <1>12, <1>13, <1>14, <1>15, <1>16, <1>17, <1>18, <1>19, <1>20, <1>21, <1>22 DEF Recover, Containers, Prune, Session, World

\* Reaping loses nobody, whatever the other processes do between two steps of it.
LEMMA ReapStep ==
    ASSUME TypeOK, RowInv, ReapInv, NEW p \in Procs,
           Recover(p) \/ Containers(p) \/ Prune(p) \/ Session(p) \/ World(p)
    PROVE  ReapInv'
<1>1. CASE SelectRunning(p)
  BY <1>1 DEF SelectRunning, Go, world, Running, Dead, TypeOK, Places, RowInv, Reconciling, Live, ReapInv
<1>2. CASE LoadSession(p)
  BY <1>2 DEF LoadSession, Go, world, TypeOK, Places, RowInv, Reconciling, Live, ReapInv
<1>3. CASE AppendCrashRecovery(p)
  BY <1>3 DEF AppendCrashRecovery, Go, world, TypeOK, Places, RowInv, Reconciling, Live, ReapInv
<1>4. CASE FailSession(p)
  BY <1>4 DEF FailSession, Go, world, FinishRow, TypeOK, Places, RowInv, Reconciling, Live, ReapInv
<1>5. CASE Requery(p)
  BY <1>5 DEF Requery, Go, world, Running, TypeOK, Places, RowInv, Reconciling, Live, ReapInv
<1>6. CASE DockerPs(p)
  BY <1>6 DEF DockerPs, Go, world, TypeOK, Places, RowInv, Reconciling, Live, ReapInv
<1>7. CASE DestroyBySession(p)
  BY <1>7 DEF DestroyBySession, Go, world, TypeOK, Places, RowInv, Reconciling, Live, ReapInv
<1>8. CASE ContainersDone(p)
  BY <1>8 DEF ContainersDone, Go, world, TypeOK, Places, RowInv, Reconciling, Live, ReapInv
<1>9. CASE ListWorktrees(p)
  BY <1>9 DEF ListWorktrees, Go, world, TypeOK, Places, RowInv, Reconciling, Live, ReapInv
<1>10. CASE ReadDir(p)
  BY <1>10 DEF ReadDir, Go, world, TypeOK, Places, RowInv, Reconciling, Live, ReapInv
<1>11. CASE PruneOne(p)
  BY <1>11 DEF PruneOne, Go, world, Prunable, TypeOK, Places, RowInv, Reconciling, Live, ReapInv
<1>12. CASE PruneDone(p)
  BY <1>12 DEF PruneDone, Go, world, TypeOK, Places, RowInv, Reconciling, Live, ReapInv
<1>13. CASE OpenSession(p)
  BY <1>13 DEF OpenSession, Go, world, TypeOK, Places, RowInv, Reconciling, Live, ReapInv
<1>14. CASE PrepareWorktree(p)
  BY <1>14 DEF PrepareWorktree, Go, world, TypeOK, Places, RowInv, Reconciling, Live, ReapInv
<1>15. CASE StartContainer(p)
  BY <1>15 DEF StartContainer, Go, world, TypeOK, Places, RowInv, Reconciling, Live, ReapInv
<1>16. CASE StepsEnd(p)
  BY <1>16 DEF StepsEnd, Go, world, AfterSteps, Outcomes, TypeOK, Places, RowInv, Reconciling, Live, ReapInv
<1>17. CASE CloseWorkspace(p)
  BY <1>17 DEF CloseWorkspace, Go, world, AfterClose, TypeOK, Places, RowInv, Reconciling, Live, ReapInv
<1>18. CASE ReportOutcome(p)
  BY <1>18 DEF ReportOutcome, Go, world, AfterReport, TypeOK, Places, RowInv, Reconciling, Live, ReapInv
<1>19. CASE FinishSession(p)
  BY <1>19 DEF FinishSession, Go, world, FinishRow, Forget, TypeOK, Places, RowInv, Reconciling, Live, ReapInv
<1>20. CASE Die(p)
  BY <1>20 DEF Die, Go, world, Forget, Alive, TypeOK, Places, RowInv, Reconciling, Live, ReapInv
<1>21. CASE Age(p)
  BY <1>21 DEF Age, Go, world, TypeOK, Places, RowInv, Reconciling, Live, ReapInv
<1>22. CASE Unlist(p)
  BY <1>22 DEF Unlist, Go, world, Live, TypeOK, Places, RowInv, Reconciling, Live, ReapInv
<1> QED
  BY <1>1, <1>2, <1>3, <1>4, <1>5, <1>6, <1>7, <1>8, <1>9, <1>10, <1>11, <1>12, <1>13, <1>14, <1>15, <1>16, <1>17, <1>18, <1>19, <1>20, <1>21, <1>22 DEF Recover, Containers, Prune, Session, World

\* Worktrees of live engines are young or were listed.
LEMMA TreeStep ==
    ASSUME TypeOK, TreeInv, NEW p \in Procs,
           Recover(p) \/ Containers(p) \/ Prune(p) \/ Session(p) \/ World(p)
    PROVE  TreeInv'
<1>1. CASE SelectRunning(p)
  BY <1>1 DEF SelectRunning, Go, world, Running, Dead, TypeOK, Places, Reconciling, Live, TreeInv
<1>2. CASE LoadSession(p)
  BY <1>2 DEF LoadSession, Go, world, TypeOK, Places, Reconciling, Live, TreeInv
<1>3. CASE AppendCrashRecovery(p)
  BY <1>3 DEF AppendCrashRecovery, Go, world, TypeOK, Places, Reconciling, Live, TreeInv
<1>4. CASE FailSession(p)
  BY <1>4 DEF FailSession, Go, world, FinishRow, TypeOK, Places, Reconciling, Live, TreeInv
<1>5. CASE Requery(p)
  BY <1>5 DEF Requery, Go, world, Running, TypeOK, Places, Reconciling, Live, TreeInv
<1>6. CASE DockerPs(p)
  BY <1>6 DEF DockerPs, Go, world, TypeOK, Places, Reconciling, Live, TreeInv
<1>7. CASE DestroyBySession(p)
  BY <1>7 DEF DestroyBySession, Go, world, TypeOK, Places, Reconciling, Live, TreeInv
<1>8. CASE ContainersDone(p)
  BY <1>8 DEF ContainersDone, Go, world, TypeOK, Places, Reconciling, Live, TreeInv
<1>9. CASE ListWorktrees(p)
  <2> DEFINE listed == {q \in Procs : tree[q] = "listed"}
  <2>1. /\ at[p] = "list" /\ UNCHANGED <<world, todo, cur, warned, out, hasBox, dead0>>
        /\ \/ keep' = [keep EXCEPT ![p] = listed] /\ Go(p, "readDir")
           \/ keep' = [keep EXCEPT ![p] = {}] /\ Go(p, "open")
    BY <1>9, Zenon DEF ListWorktrees
  <2>2. CASE keep' = [keep EXCEPT ![p] = listed] /\ Go(p, "readDir")
    BY <2>1, <2>2 DEF Go, world, TypeOK, Places, Reconciling, Live, TreeInv
  <2>3. CASE keep' = [keep EXCEPT ![p] = {}] /\ Go(p, "open")
    BY <2>1, <2>3 DEF Go, world, TypeOK, Places, Reconciling, Live, TreeInv
  <2> QED
    BY <2>1, <2>2, <2>3
<1>10. CASE ReadDir(p)
  BY <1>10 DEF ReadDir, Go, world, TypeOK, Places, Reconciling, Live, TreeInv
<1>11. CASE PruneOne(p)
  BY <1>11 DEF PruneOne, Go, world, Prunable, TypeOK, Places, Reconciling, Live, TreeInv
<1>12. CASE PruneDone(p)
  BY <1>12 DEF PruneDone, Go, world, TypeOK, Places, Reconciling, Live, TreeInv
<1>13. CASE OpenSession(p)
  BY <1>13 DEF OpenSession, Go, world, TypeOK, Places, Reconciling, Live, TreeInv
<1>14. CASE PrepareWorktree(p)
  BY <1>14 DEF PrepareWorktree, Go, world, TypeOK, Places, Reconciling, Live, TreeInv
<1>15. CASE StartContainer(p)
  BY <1>15 DEF StartContainer, Go, world, TypeOK, Places, Reconciling, Live, TreeInv
<1>16. CASE StepsEnd(p)
  BY <1>16 DEF StepsEnd, Go, world, AfterSteps, Outcomes, TypeOK, Places, Reconciling, Live, TreeInv
<1>17. CASE CloseWorkspace(p)
  BY <1>17 DEF CloseWorkspace, Go, world, AfterClose, TypeOK, Places, Reconciling, Live, TreeInv
<1>18. CASE ReportOutcome(p)
  BY <1>18 DEF ReportOutcome, Go, world, AfterReport, TypeOK, Places, Reconciling, Live, TreeInv
<1>19. CASE FinishSession(p)
  BY <1>19 DEF FinishSession, Go, world, FinishRow, Forget, TypeOK, Places, Reconciling, Live, TreeInv
<1>20. CASE Die(p)
  BY <1>20 DEF Die, Go, world, Forget, Alive, TypeOK, Places, Reconciling, Live, TreeInv
<1>21. CASE Age(p)
  BY <1>21 DEF Age, Go, world, TypeOK, Places, Reconciling, Live, TreeInv
<1>22. CASE Unlist(p)
  BY <1>22 DEF Unlist, Go, world, Live, TypeOK, Places, Reconciling, Live, TreeInv
<1> QED
  BY <1>1, <1>2, <1>3, <1>4, <1>5, <1>6, <1>7, <1>8, <1>9, <1>10, <1>11, <1>12, <1>13, <1>14, <1>15, <1>16, <1>17, <1>18, <1>19, <1>20, <1>21, <1>22 DEF Recover, Containers, Prune, Session, World

-----------------------------------------------------------------------------
(* The theorems. *)

StartupInv == TypeOK /\ RowInv /\ CauseInv /\ RowHasCause /\ ReapInv /\ TreeInv

\* Nobody has started: there is nothing to be wrong about.
LEMMA InitInv == Init => StartupInv
BY DEF Init, StartupInv, TypeOK, RowInv, CauseInv, RowHasCause, ReapInv, TreeInv, Live, Reconciling,
       Places, Outcomes

\* The parts above, put together.
LEMMA StepInv == StartupInv /\ [Next]_vars => StartupInv'
<1> SUFFICES ASSUME StartupInv, [Next]_vars PROVE StartupInv'
  OBVIOUS
<1>1. CASE UNCHANGED vars
  BY <1>1, LoggedSame
  DEF vars, world, StartupInv, TypeOK, RowInv, CauseInv, RowHasCause, ReapInv, TreeInv, Live
<1>2. CASE Next
  BY <1>2, TypeStep, CauseStep, ReapStep, TreeStep DEF Next, StartupInv
<1> QED
  BY <1>1, <1>2

\* The invariant holds in every state of every behaviour.
THEOREM Invariance == Spec => []StartupInv
<1>1. StartupInv /\ [][Next]_vars => []StartupInv
  BY StepInv, PTL
<1> QED
  BY InitInv, <1>1, PTL DEF Spec

\* For any number of processes: every terminal session row has its cause in the log before it, although
\* the engine and any number of reconciles race to end it (the UPDATE guarded by status = 'running'), and
\* an engine that has returned leaves its session ended.
THEOREM RowsExplained == Spec => []StartupSafe
<1>1. StartupInv => StartupSafe
  BY DEF StartupInv, StartupSafe, RowInv, ReturnedHasEnded
<1> QED
  BY <1>1, Invariance, PTL

\* For any number of processes: a reconcile that has come to its end has failed every session whose process
\* was dead when it began and removed its container unless docker failed.
THEOREM ReconcileReaps == Spec => []DeadAreReaped
<1>1. StartupInv => DeadAreReaped
  BY DEF StartupInv, ReapInv, DeadAreReaped
<1> QED
  BY <1>1, Invariance, PTL

\* For any number of processes: no step of a prune, in whatever process, takes the worktree of an engine at
\* work, also one that was added after git worktree list ran.
THEOREM PruneIsSafe == Spec => PruneSparesLive
<1> DEFINE Spared == \A q \in Procs : Live(q) /\ at[q] # "close" => (tree'[q] = "absent" => tree[q] = "absent")
<1>1. StartupInv /\ [Next]_vars => [Spared]_vars
  <2> SUFFICES ASSUME StartupInv, Next PROVE Spared
    OBVIOUS
  <2> USE DEF StartupInv
  <2>1. PICK p \in Procs : Recover(p) \/ Containers(p) \/ Prune(p) \/ Session(p) \/ World(p)
    BY DEF Next
  <2>2. CASE PruneOne(p)
    BY <2>2 DEF PruneOne, Prunable, TypeOK, TreeInv, Live
  <2>3. CASE PrepareWorktree(p)
    BY <2>3 DEF PrepareWorktree, TypeOK, TreeInv, Live
  <2>4. CASE CloseWorkspace(p)
    BY <2>4 DEF CloseWorkspace, TypeOK
  <2>5. CASE Unlist(p)
    BY <2>5 DEF Unlist, TypeOK
  <2>6. CASE UNCHANGED tree
    BY <2>6
  <2>7. \/ PruneOne(p) \/ PrepareWorktree(p) \/ CloseWorkspace(p) \/ Unlist(p) \/ UNCHANGED tree
    BY <2>1 DEF Recover, Containers, Prune, Session, World, SelectRunning, LoadSession, AppendCrashRecovery,
                FailSession, Requery, DockerPs, DestroyBySession, ContainersDone, ListWorktrees, ReadDir,
                PruneDone, OpenSession, StartContainer, StepsEnd, ReportOutcome, FinishSession, Die, Age, world
  <2> QED
    BY <2>2, <2>3, <2>4, <2>5, <2>6, <2>7
<1>2. Spec => [][Spared]_vars
  BY <1>1, Invariance, PTL DEF Spec
<1> QED
  BY <1>2 DEF PruneSparesLive
=============================================================================

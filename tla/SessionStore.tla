---------------------------- MODULE SessionStore ----------------------------
(***************************************************************************)
(* The session store of crates/stepyard-session: PgEventStore behind       *)
(* FileLogMirror, used at the same time by the engine of every session and *)
(* by the startup reconcile of other processes.                            *)
(*                                                                         *)
(* Session::append is a transaction of four statements.  Each is an action *)
(* here, any of them may fail, and the process may die between any two.    *)
(* The engine of a session is named by the session; a reconciler appends   *)
(* to any session, through Session::load on the bare PgEventStore, so its  *)
(* events never reach the mirror file.                                     *)
(***************************************************************************)
EXTENDS Integers, Sequences, FiniteSets

CONSTANTS
    Sessions,     \* sessions, and the engine of each
    Reconcilers,  \* processes in startup reconcile
    NoTask,
    MaxEvents,    \* bound: events of one session
    Faults        \* what may fail: sql, file, crash

ASSUME TaskAssumption ==
    NoTask \notin Sessions /\ NoTask \notin Reconcilers /\ Sessions \cap Reconcilers = {}
ASSUME FaultAssumption == Faults \subseteq {"sql", "file", "crash"} /\ MaxEvents \in Nat

Tasks == Sessions \cup Reconcilers
Statuses == {"running", "completed", "failed", "cancelled"}
Terminal == Statuses \ {"running"}

\* An engine event, a crash_recovery signal, and FileLogWriteFailed.
Payloads == {"event", "recovered", "degraded"}

VARIABLES
    rows,    \* session_events: seq to payload, for each session
    status,  \* the sessions table
    lock,    \* the holder of each session's advisory lock
    tx,      \* the append each task is in
    file,    \* the lines of each session's jsonl file, as seq numbers
    broken   \* sessions whose live engine has given up on the mirror

vars == <<rows, status, lock, tx, file, broken>>

Ats == {"idle", "begun", "locked", "computed", "inserted", "conflict", "mirror"}
NoTx(s) == [at |-> "idle", sess |-> s, seq |-> 0, body |-> "event"]

Init ==
    /\ rows = [s \in Sessions |-> << >>]
    /\ status = [s \in Sessions |-> "running"]
    /\ lock = [s \in Sessions |-> NoTask]
    /\ \E s \in Sessions : tx = [t \in Tasks |-> NoTx(IF t \in Sessions THEN t ELSE s)]
    /\ file = [s \in Sessions |-> << >>]
    /\ broken = {}

At(t) == tx[t].at
Target(t) == tx[t].sess
Move(t, at) == tx' = [tx EXCEPT ![t].at = at]
Done(t) == tx' = [tx EXCEPT ![t] = NoTx(Target(t))]
Freed(t) == [s \in Sessions |-> IF lock[s] = t THEN NoTask ELSE lock[s]]

-----------------------------------------------------------------------------
(* PgEventStore::append *)

Begin(t, s, body) ==
    /\ At(t) = "idle" /\ Cardinality(DOMAIN rows[s]) < MaxEvents
    /\ tx' = [tx EXCEPT ![t] = [at |-> "begun", sess |-> s, seq |-> 0, body |-> body]]
    /\ UNCHANGED <<rows, status, lock, file, broken>>

\* Session::append by the engine, and by reconcile phase 1.
BeginAppend(t) ==
    IF t \in Sessions THEN Begin(t, t, "event")
    ELSE \E s \in Sessions : Begin(t, s, "recovered")

\* Variant: the lock excludes nobody.
Lock_Shared(t) ==
    /\ At(t) = "begun"
    /\ lock' = [lock EXCEPT ![Target(t)] = t]
    /\ Move(t, "locked") /\ UNCHANGED <<rows, status, file, broken>>

\* pg_advisory_xact_lock on the session id.
Lock(t) ==
    /\ At(t) = "begun" /\ lock[Target(t)] = NoTask
    /\ lock' = [lock EXCEPT ![Target(t)] = t]
    /\ Move(t, "locked") /\ UNCHANGED <<rows, status, file, broken>>

\* Variant: numbering starts at zero.
LastSeq_ZeroBased(table) ==
    IF DOMAIN table = {} THEN -1
    ELSE CHOOSE k \in DOMAIN table : \A j \in DOMAIN table : j <= k

\* COALESCE(MAX(seq), 0) over the committed rows.
LastSeq(table) ==
    IF DOMAIN table = {} THEN 0
    ELSE CHOOSE k \in DOMAIN table : \A j \in DOMAIN table : j <= k

\* The subquery of the INSERT reads a snapshot ...
Compute(t) ==
    /\ At(t) = "locked"
    /\ tx' = [tx EXCEPT ![t].at = "computed", ![t].seq = LastSeq(rows[Target(t)]) + 1]
    /\ UNCHANGED <<rows, status, lock, file, broken>>

SameKey(t, u) == Target(t) = Target(u) /\ tx[t].seq = tx[u].seq

\* ... and the unique index makes the INSERT wait for an uncommitted row with
\* the same key, and fail on a committed one.
Write(t) ==
    /\ At(t) = "computed"
    /\ ~\E u \in Tasks \ {t} : At(u) = "inserted" /\ SameKey(t, u)
    /\ Move(t, IF tx[t].seq \in DOMAIN rows[Target(t)] THEN "conflict" ELSE "inserted")
    /\ UNCHANGED <<rows, status, lock, file, broken>>

\* Commit makes the row visible and ends the advisory lock.  Only an engine's
\* own events go on to the mirror.
Commit(t) ==
    /\ At(t) = "inserted"
    /\ rows' = [rows EXCEPT ![Target(t)] =
                  [k \in DOMAIN rows[Target(t)] \cup {tx[t].seq} |->
                      IF k = tx[t].seq THEN tx[t].body ELSE rows[Target(t)][k]]]
    /\ lock' = Freed(t)
    /\ IF tx[t].body = "event" THEN Move(t, "mirror") ELSE Done(t)
    /\ UNCHANGED <<status, file, broken>>

\* Variant: the caller goes on although the commit failed.
Abort_Ignored(t) ==
    /\ "sql" \in Faults /\ At(t) \in {"begun", "locked", "computed", "inserted"}
    /\ lock' = Freed(t)
    /\ IF tx[t].body = "event" /\ At(t) = "inserted" THEN Move(t, "mirror") ELSE Done(t)
    /\ UNCHANGED <<rows, status, file, broken>>

\* Variant: a session-level lock, which a rollback does not end.
Abort_KeepsLock(t) ==
    /\ "sql" \in Faults /\ At(t) \in {"begun", "locked", "computed", "inserted"}
    /\ Done(t)
    /\ UNCHANGED <<rows, status, lock, file, broken>>

\* A statement fails: the transaction is dropped and rolls back.
Abort(t) ==
    /\ "sql" \in Faults /\ At(t) \in {"begun", "locked", "computed", "inserted"}
    /\ lock' = Freed(t)
    /\ Done(t)
    /\ UNCHANGED <<rows, status, file, broken>>

-----------------------------------------------------------------------------
(* FileLogMirror::mirror *)

MirrorSkip(s) ==
    /\ At(s) = "mirror" /\ s \in broken
    /\ Done(s) /\ UNCHANGED <<rows, status, lock, file, broken>>

MirrorWrite(s) ==
    /\ At(s) = "mirror" /\ s \notin broken
    /\ file' = [file EXCEPT ![s] = Append(file[s], tx[s].seq)]
    /\ Done(s) /\ UNCHANGED <<rows, status, lock, broken>>

\* The first write error stops the mirror and is reported to the log, by a
\* second append that the mirror does not see and whose error is ignored.
MirrorFail(s) ==
    /\ "file" \in Faults /\ At(s) = "mirror" /\ s \notin broken
    /\ broken' = broken \cup {s}
    /\ tx' = [tx EXCEPT ![s] = [at |-> "begun", sess |-> s, seq |-> 0, body |-> "degraded"]]
    /\ UNCHANGED <<rows, status, lock, file>>

-----------------------------------------------------------------------------
\* Variant: the UPDATE has no status condition.
Finish_Always(s, st) ==
    /\ status' = [status EXCEPT ![s] = st]
    /\ UNCHANGED <<rows, lock, tx, file, broken>>

\* finish_session: UPDATE ... WHERE status = 'running', by whoever calls it.
Finish(s, st) ==
    /\ status[s] = "running"
    /\ status' = [status EXCEPT ![s] = st]
    /\ UNCHANGED <<rows, lock, tx, file, broken>>

\* The engine's process dies; the server rolls its transaction back, and the
\* process that resumes the session has an empty broken set.
Crash(s) ==
    /\ "crash" \in Faults /\ (At(s) # "idle" \/ s \in broken)
    /\ lock' = Freed(s)
    /\ Done(s)
    /\ broken' = broken \ {s}
    /\ UNCHANGED <<rows, status, file>>

Work(t) ==
    \/ Lock(t) \/ Compute(t) \/ Write(t) \/ Commit(t)
    \/ t \in Sessions /\ (MirrorSkip(t) \/ MirrorWrite(t) \/ MirrorFail(t))

Next ==
    \/ \E t \in Tasks : BeginAppend(t) \/ Work(t) \/ Abort(t)
    \/ \E s \in Sessions : Crash(s) \/ \E st \in Terminal : Finish(s, st)

Spec == Init /\ [][Next]_vars

\* The server queues the waiters of a lock, and every statement returns.
Fairness == \A t \in Tasks : WF_vars(Work(t)) /\ SF_vars(Lock(t))

FairSpec == Spec /\ Fairness

-----------------------------------------------------------------------------
(* Properties. *)

\* Every variable has its type; sequence numbers start at one, as the CHECK
\* of the table demands.
TypeOK ==
    /\ DOMAIN rows = Sessions
    /\ \A s \in Sessions :
         /\ DOMAIN rows[s] \subseteq Nat \ {0}
         /\ \A k \in DOMAIN rows[s] : rows[s][k] \in Payloads
    /\ status \in [Sessions -> Statuses]
    /\ lock \in [Sessions -> Tasks \cup {NoTask}]
    /\ tx \in [Tasks -> [at : Ats, sess : Sessions, seq : Nat, body : Payloads]]
    /\ \A t \in Tasks : At(t) \in {"computed", "inserted"} => tx[t].seq # 0
    /\ file \in [Sessions -> Seq(Nat \ {0})]
    /\ broken \subseteq Sessions

\* The advisory lock does its work: no append is ever refused by the unique
\* index, whatever engines and reconcilers append at the same time.
NoConflict == \A t \in Tasks : At(t) # "conflict"

\* The jsonl file never runs ahead of the log and never reorders it: its lines
\* are committed engine events, in the order of their sequence numbers.
FileFollowsLog ==
    \A s \in Sessions :
        /\ \A i \in DOMAIN file[s] :
             file[s][i] \in DOMAIN rows[s] /\ rows[s][file[s][i]] = "event"
        /\ \A i, j \in DOMAIN file[s] : i < j => file[s][i] < file[s][j]

\* An append that waits for the lock of its session gets through or fails; a
\* holder that failed or died keeps nobody waiting.
AppendEnds == \A t \in Tasks : At(t) = "begun" ~> At(t) \in {"idle", "mirror"}

-----------------------------------------------------------------------------
(* The refinement. *)

Log == INSTANCE EventLog WITH log <- rows

\* The tables implement an append-only log per session with a final status.
ImplementsLog == Log!LogSpec
=============================================================================

---------------------------- MODULE SqliteStore -----------------------------
(***************************************************************************)
(* The sqlite backend of the session store: crates/stepyard-session/src/   *)
(* sqlite_store.rs and factory.rs.  Every process has a pool of a single   *)
(* connection, which its engine (append) and its progress poller (replay)  *)
(* share; processes meet at the locks of the database file.  SQLite is     *)
(* external: one transaction at a time may hold the write lock, a commit   *)
(* waits for the readers, and whoever waits longer than the busy timeout   *)
(* gets an error.                                                          *)
(***************************************************************************)
EXTENDS Integers, Sequences, FiniteSets, FiniteSetsExt

CONSTANTS
    LiteProcs,     \* processes on the database file
    LiteSessions,  \* sessions; every process may append to every one, as reconcile does
    MaxLite        \* bound: events of one session

LiteTasks == LiteProcs \X {"engine", "poller"}
ProcOf(t) == t[1]
Nobody == <<"nobody", "none">>
LiteEnds == {"completed", "failed"}
Idle == [at |-> "idle", sess |-> "none", seq |-> 0]

ASSUME LiteAssumption == MaxLite \in Nat /\ IsFiniteSet(LiteProcs) /\ Nobody \notin LiteTasks

VARIABLES
    lrows,     \* session_events: for each session the committed rows by seq
    lstatus,   \* sessions.status
    conn,      \* for each process the task that holds its connection
    writer,    \* the task that holds the write lock of the file
    readers,   \* tasks in the middle of a SELECT
    call,      \* what each task is doing
    returned   \* for each session the sequence numbers that append returned, in order

liteVars == <<lrows, lstatus, conn, writer, readers, call, returned>>

LiteInit ==
    /\ lrows = [s \in LiteSessions |-> << >>] /\ lstatus = [s \in LiteSessions |-> "running"]
    /\ conn = [p \in LiteProcs |-> Nobody] /\ writer = Nobody /\ readers = {}
    /\ call = [t \in LiteTasks |-> Idle] /\ returned = [s \in LiteSessions |-> << >>]

\* The end of a call: the transaction is committed or rolled back, the connection goes back to the pool.
Release(t) ==
    /\ conn' = [conn EXCEPT ![ProcOf(t)] = IF @ = t THEN Nobody ELSE @]
    /\ writer' = IF writer = t THEN Nobody ELSE writer
    /\ readers' = readers \ {t}
    /\ call' = [call EXCEPT ![t] = Idle]

CallAppend(t, s) ==
    /\ t[2] = "engine" /\ call[t] = Idle /\ Cardinality(DOMAIN lrows[s]) < MaxLite
    /\ call' = [call EXCEPT ![t] = [at |-> "begin", sess |-> s, seq |-> 0]]
    /\ UNCHANGED <<lrows, lstatus, conn, writer, readers, returned>>

CallReplay(t, s) ==
    /\ t[2] = "poller" /\ call[t] = Idle
    /\ call' = [call EXCEPT ![t] = [at |-> "begin", sess |-> s, seq |-> 0]]
    /\ UNCHANGED <<lrows, lstatus, conn, writer, readers, returned>>

\* pool.begin() and the pool of the other calls: max_connections is one.
Connect(t) ==
    /\ call[t].at = "begin" /\ conn[ProcOf(t)] = Nobody
    /\ conn' = [conn EXCEPT ![ProcOf(t)] = t]
    /\ call' = [call EXCEPT ![t].at = IF t[2] = "engine" THEN "insert" ELSE "select"]
    /\ UNCHANGED <<lrows, lstatus, writer, readers, returned>>

\* Variant: the statement does not need the write lock.
LockFree_Shared == TRUE

\* The deferred transaction asks for the write lock at its first statement, the INSERT.
LockFree == writer = Nobody

\* COALESCE(MAX(seq), 0) + 1 of the session, inside the INSERT.
NextSeq(s) == 1 + Max({0} \cup DOMAIN lrows[s])

Insert(t) ==
    /\ call[t].at = "insert" /\ LockFree
    /\ writer' = t
    /\ call' = [call EXCEPT ![t].at = "commit", ![t].seq = NextSeq(call[t].sess)]
    /\ UNCHANGED <<lrows, lstatus, conn, readers, returned>>

Select(t) ==
    /\ call[t].at = "select" /\ readers' = readers \cup {t}
    /\ call' = [call EXCEPT ![t].at = "rows"]
    /\ UNCHANGED <<lrows, lstatus, conn, writer, returned>>

RowsRead(t) ==
    /\ call[t].at = "rows" /\ Release(t) /\ UNCHANGED <<lrows, lstatus, returned>>

\* The commit needs the file for itself; then the row is there and append returns it.  The two are one
\* step: a process that dies between them is one that dies just after, with a number nobody uses.
Commit(t) ==
    /\ call[t].at = "commit" /\ readers = {}
    /\ lrows' = [lrows EXCEPT ![call[t].sess] = [i \in DOMAIN @ \cup {call[t].seq} |-> "event"]]
    /\ returned' = [returned EXCEPT ![call[t].sess] = Append(@, call[t].seq)]
    /\ Release(t) /\ UNCHANGED lstatus

\* No connection within the acquire timeout, SQLITE_BUSY or any other error: the ? drops the transaction.
Fails(t) ==
    /\ call[t].at \in {"begin", "insert", "select", "commit"}
    /\ Release(t) /\ UNCHANGED <<lrows, lstatus, returned>>

\* Variant: the UPDATE does not look at the status.
FinishLite_Always(s, st) ==
    /\ LockFree /\ readers = {} /\ lstatus' = [lstatus EXCEPT ![s] = st]
    /\ UNCHANGED <<lrows, conn, writer, readers, call, returned>>

\* finish_session: one UPDATE ... WHERE status = 'running', a transaction of its own.
FinishLite(s, st) ==
    /\ LockFree /\ readers = {} /\ lstatus[s] = "running"
    /\ lstatus' = [lstatus EXCEPT ![s] = st]
    /\ UNCHANGED <<lrows, conn, writer, readers, call, returned>>

\* A process dies: its locks go with it and an open transaction is rolled back from the journal.
LiteCrash(p) ==
    LET its == {t \in LiteTasks : ProcOf(t) = p}
    IN  /\ \E t \in its : call[t] # Idle
        /\ conn' = [conn EXCEPT ![p] = Nobody]
        /\ writer' = IF writer \in its THEN Nobody ELSE writer
        /\ readers' = readers \ its
        /\ call' = [t \in LiteTasks |-> IF t \in its THEN Idle ELSE call[t]]
        /\ UNCHANGED <<lrows, lstatus, returned>>

LiteWork(t) == Connect(t) \/ Insert(t) \/ Select(t) \/ RowsRead(t) \/ Commit(t) \/ Fails(t)

LiteNext ==
    \/ \E t \in LiteTasks : LiteWork(t) \/ \E s \in LiteSessions : CallAppend(t, s) \/ CallReplay(t, s)
    \/ \E s \in LiteSessions, st \in LiteEnds : FinishLite(s, st)
    \/ \E p \in LiteProcs : LiteCrash(p)

LiteSpec == LiteInit /\ [][LiteNext]_liteVars

-----------------------------------------------------------------------------
(* Properties *)

\* Every variable has its type, and the lock of the file is held by the task whose INSERT has run.
LiteTypeOK ==
    /\ lstatus \in [LiteSessions -> LiteEnds \cup {"running"}]
    /\ conn \in [LiteProcs -> LiteTasks \cup {Nobody}] /\ readers \subseteq LiteTasks
    /\ writer # Nobody => writer \in LiteTasks /\ call[writer].at = "commit" /\ conn[ProcOf(writer)] = writer
    /\ \A s \in LiteSessions : DOMAIN lrows[s] \subseteq 1..MaxLite + Cardinality(LiteTasks)

\* The numbers append returned are exactly those of the rows, without a gap: no two appends of two processes
\* got the same one, and none that failed or died left a row or a hole.
NumbersExact == \A s \in LiteSessions : returned[s] = [i \in 1..Cardinality(DOMAIN lrows[s]) |-> i]

\* The locks of the file number the rows of every session exactly, with no advisory lock to help.
LiteSafe == LiteTypeOK /\ NumbersExact

LiteLog == INSTANCE EventLog WITH Sessions <- LiteSessions, Payloads <- {"event"}, Terminal <- LiteEnds,
                                  log <- lrows, status <- lstatus

\* The sqlite store keeps the promise of the Postgres one: an append-only log and a status that ends once.
LiteImplementsLog == LiteLog!LogSpec
=============================================================================

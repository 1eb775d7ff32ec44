------------------------- MODULE SqliteStore_proofs -------------------------
(***************************************************************************)
(* The sqlite backend numbers the events of every session exactly, for any *)
(* finite number of processes, and implements the same append-only log as  *)
(* the Postgres one.                                                       *)
(*                                                                         *)
(* There is no advisory lock here: what makes the number computed by the   *)
(* INSERT still the next one at the commit is that the deferred            *)
(* transaction holds the write lock of the file in between.                *)
(***************************************************************************)
EXTENDS SqliteStore, FiniteSetTheorems, TLAPS

LiteCalls == [at : {"idle", "begin", "insert", "commit", "select", "rows"},
              sess : LiteSessions \cup {"none"}, seq : Nat]
Count(s) == Len(returned[s])

LiteTypes ==
    /\ lstatus \in [LiteSessions -> LiteEnds \cup {"running"}]
    /\ conn \in [LiteProcs -> LiteTasks \cup {Nobody}] /\ readers \subseteq LiteTasks
    /\ writer \in LiteTasks \cup {Nobody} /\ call \in [LiteTasks -> LiteCalls]
    /\ returned \in [LiteSessions -> Seq(Nat)]

\* A task is the holder of what it has acquired, and a number that was computed is still the next one.
HoldInv ==
    /\ \A t \in LiteTasks : call[t].at # "idle" => call[t].sess \in LiteSessions
    /\ \A t \in LiteTasks : call[t].at \in {"insert", "commit"} => t[2] = "engine" /\ conn[ProcOf(t)] = t
    /\ \A t \in LiteTasks : call[t].at = "commit" => writer = t /\ call[t].seq = Count(call[t].sess) + 1
    /\ writer # Nobody => call[writer].at = "commit"

\* The rows of a session are a sequence, and append returned its positions.
RowsInv ==
    /\ lrows = [s \in LiteSessions |-> [i \in 1..Count(s) |-> "event"]]
    /\ \A s \in LiteSessions : returned[s] = [i \in 1..Count(s) |-> i]

\* Appends to a session that were called and have not ended.
Under(s) == {t \in LiteTasks : call[t].sess = s /\ t[2] = "engine" /\ call[t].at \in {"begin", "insert", "commit"}}

\* Every row was a call that began below the bound.
BoundInv == \A s \in LiteSessions : Count(s) + Cardinality(Under(s)) <= MaxLite + Cardinality(LiteTasks)

LiteInv == LiteTypes /\ HoldInv /\ RowsInv /\ BoundInv

-----------------------------------------------------------------------------
(* Facts about the operators. *)

\* There are finitely many tasks.
LEMMA TasksFinite == IsFiniteSet(LiteTasks) /\ Cardinality(LiteTasks) \in Nat
<1>1. IsFiniteSet({"engine", "poller"})
  <2>1. {"engine", "poller"} = {"engine"} \cup {"poller"}
    OBVIOUS
  <2>2. IsFiniteSet({"engine"}) /\ IsFiniteSet({"poller"})
    BY FS_Singleton
  <2> QED
    BY <2>1, <2>2, FS_Union
<1>2. IsFiniteSet(LiteTasks)
  BY <1>1, FS_Product, LiteAssumption DEF LiteTasks
<1> QED
  BY <1>2, FS_CardinalityType

\* The appends under way to a session are no more than the tasks.
LEMMA UnderBounded ==
    ASSUME NEW s
    PROVE  /\ IsFiniteSet(Under(s)) /\ Cardinality(Under(s)) \in Nat
           /\ Cardinality(Under(s)) <= Cardinality(LiteTasks)
<1>1. Under(s) \subseteq LiteTasks
  BY DEF Under
<1> QED
  BY <1>1, TasksFinite, FS_Subset, FS_CardinalityType

\* The same after a step.
LEMMA UnderBoundedNext ==
    ASSUME NEW s
    PROVE  /\ IsFiniteSet(Under(s)') /\ Cardinality(Under(s)') \in Nat
           /\ Cardinality(Under(s)') <= Cardinality(LiteTasks)
<1>1. Under(s)' \subseteq LiteTasks
  BY DEF Under
<1> QED
  BY <1>1, TasksFinite, FS_Subset, FS_CardinalityType

\* COALESCE(MAX(seq), 0) + 1 over the rows 1..n is n + 1.
LEMMA MaxOfRows == ASSUME NEW n \in Nat PROVE 1 + Max({0} \cup 1..n) = n + 1
<1>1. n \in {0} \cup 1..n /\ \A y \in {0} \cup 1..n : n >= y
  OBVIOUS
<1>2. \A x \in {0} \cup 1..n : (\A y \in {0} \cup 1..n : x >= y) => x = n
  OBVIOUS
<1>3. Max({0} \cup 1..n) = n
  BY <1>1, <1>2 DEF Max
<1> QED
  BY <1>3

\* The next number of a session whose rows have no gap.
LEMMA NextSeqIs ==
    ASSUME LiteTypes, RowsInv, NEW s \in LiteSessions
    PROVE  NextSeq(s) = Count(s) + 1 /\ Count(s) \in Nat
<1>1. Count(s) \in Nat /\ DOMAIN lrows[s] = 1..Count(s)
  BY DEF LiteTypes, RowsInv, Count
<1> QED
  BY <1>1, MaxOfRows DEF NextSeq

\* A row behind the last one is an append to both sequences.
LEMMA RowIsAppend ==
    ASSUME NEW n \in Nat
    PROVE  /\ [i \in (1..n) \cup {n + 1} |-> "event"] = [i \in 1..(n + 1) |-> "event"]
           /\ [i \in 1..(n + 1) |-> "event"] = Append([i \in 1..n |-> "event"], "event")
           /\ [i \in 1..(n + 1) |-> i] = Append([i \in 1..n |-> i], n + 1)
           /\ Len([i \in 1..(n + 1) |-> i]) = n + 1
<1>1. (1..n) \cup {n + 1} = 1..(n + 1)
  OBVIOUS
<1>2. [i \in 1..n |-> "event"] \in Seq({"event"}) /\ Len([i \in 1..n |-> "event"]) = n
  OBVIOUS
<1>3. [i \in 1..n |-> i] \in Seq(Nat) /\ Len([i \in 1..n |-> i]) = n
  OBVIOUS
<1>4. [i \in 1..(n + 1) |-> i] \in Seq(Nat) /\ Len([i \in 1..(n + 1) |-> i]) = n + 1
  OBVIOUS
<1>5. [i \in 1..(n + 1) |-> "event"] = Append([i \in 1..n |-> "event"], "event")
  BY <1>2
<1>6. [i \in 1..(n + 1) |-> i] = Append([i \in 1..n |-> i], n + 1)
  BY <1>3
<1> QED
  BY <1>1, <1>4, <1>5, <1>6

\* A step that begins no append and commits none keeps the bound.
LEMMA BoundKept ==
    ASSUME BoundInv, returned' = returned, \A s \in LiteSessions : Under(s)' \subseteq Under(s),
           \A s \in LiteSessions : Count(s) \in Nat
    PROVE  BoundInv'
<1> SUFFICES ASSUME NEW s \in LiteSessions
             PROVE  Count(s)' + Cardinality(Under(s)') <= MaxLite + Cardinality(LiteTasks)
  BY DEF BoundInv
<1>1. Count(s)' = Count(s) /\ Count(s) \in Nat
  BY DEF Count
<1>2. Cardinality(Under(s)') <= Cardinality(Under(s)) /\ Cardinality(Under(s)') \in Nat
  BY UnderBounded, UnderBoundedNext, FS_Subset
<1>3. Count(s) + Cardinality(Under(s)) <= MaxLite + Cardinality(LiteTasks)
  BY DEF BoundInv
<1> QED
  BY <1>1, <1>2, <1>3, UnderBounded, TasksFinite, LiteAssumption

-----------------------------------------------------------------------------
(* Every action preserves the invariant. *)

\* Nothing holds anything before the first call.
LEMMA LiteInitInv == LiteInit => LiteInv
<1> SUFFICES ASSUME LiteInit PROVE LiteInv
  OBVIOUS
<1>1. LiteTypes
  BY DEF LiteInit, LiteTypes, LiteCalls, Idle
<1>2. HoldInv
  BY DEF LiteInit, HoldInv, Idle
<1>3. \A s \in LiteSessions : Count(s) = 0 /\ returned[s] = << >>
  BY DEF LiteInit, Count
<1>4. RowsInv
  BY <1>3 DEF LiteInit, RowsInv
<1>5. \A s \in LiteSessions : Cardinality(Under(s)) <= Cardinality(LiteTasks) /\ Cardinality(Under(s)) \in Nat
  BY UnderBounded
<1>6. BoundInv
  BY <1>3, <1>5, TasksFinite, LiteAssumption DEF BoundInv
<1> QED
  BY <1>1, <1>2, <1>4, <1>6 DEF LiteInv

\* A call begins below the bound, so the calls under way cannot exceed it by more than the tasks.
LEMMA CallStep ==
    ASSUME LiteInv, NEW t \in LiteTasks, NEW s \in LiteSessions, CallAppend(t, s) \/ CallReplay(t, s)
    PROVE  LiteInv'
<1>1. /\ call[t] = Idle /\ call' = [call EXCEPT ![t] = [at |-> "begin", sess |-> s, seq |-> 0]]
      /\ UNCHANGED <<lrows, lstatus, conn, writer, readers, returned>>
  BY DEF CallAppend, CallReplay
<1>2. LiteTypes' /\ HoldInv' /\ RowsInv'
  BY <1>1 DEF LiteInv, Idle, LiteTypes, LiteCalls, HoldInv, RowsInv, Count, ProcOf
<1>3. \A r \in LiteSessions : Count(r) \in Nat /\ Count(r)' = Count(r)
  BY <1>1 DEF LiteInv, LiteTypes, Count
<1>4. CASE CallAppend(t, s)
  <2> SUFFICES ASSUME NEW r \in LiteSessions
               PROVE  Count(r)' + Cardinality(Under(r)') <= MaxLite + Cardinality(LiteTasks)
    BY <1>2 DEF LiteInv, BoundInv
  <2>1. CASE r = s
    <3>1. DOMAIN lrows[s] = 1..Count(s)
      BY DEF LiteInv, RowsInv
    <3>2. Cardinality(DOMAIN lrows[s]) = Count(s)
      BY <3>1, <1>3, FS_Interval
    <3>3. Count(s) < MaxLite
      BY <3>2, <1>4 DEF CallAppend
    <3> QED
      BY <2>1, <3>3, <1>3, UnderBoundedNext, TasksFinite, LiteAssumption
  <2>2. CASE r # s
    <3>1. Under(r)' \subseteq Under(r)
      BY <1>1, <2>2 DEF Under, LiteInv, LiteTypes, LiteCalls
    <3>2. Cardinality(Under(r)') <= Cardinality(Under(r))
      BY <3>1, UnderBounded, FS_Subset
    <3> QED
      BY <3>2, <1>3, UnderBounded, UnderBoundedNext, TasksFinite, LiteAssumption DEF LiteInv, BoundInv
  <2> QED
    BY <2>1, <2>2
<1>5. CASE CallReplay(t, s)
  <2>1. \A r \in LiteSessions : Under(r)' \subseteq Under(r)
    BY <1>1, <1>5 DEF CallReplay, Under, LiteInv, LiteTypes, LiteCalls
  <2> QED
    BY <2>1, <1>1, <1>2, <1>3, BoundKept DEF LiteInv
<1> QED
  BY <1>4, <1>5

\* The parts of a call before its commit: the number is computed under the lock it is used under.
LEMMA WorkStep ==
    ASSUME LiteInv, NEW t \in LiteTasks, Connect(t) \/ Insert(t) \/ Select(t) \/ RowsRead(t) \/ Fails(t)
    PROVE  LiteInv'
<1>0. \A s \in LiteSessions : Count(s) \in Nat
  BY DEF LiteInv, LiteTypes, Count
<1>1. CASE Connect(t)
  <2>1. LiteTypes' /\ HoldInv' /\ RowsInv'
    BY <1>1, LiteAssumption DEF Connect, LiteInv, LiteTypes, LiteCalls, HoldInv, RowsInv, Count, ProcOf, LiteTasks
  <2>2. \A s \in LiteSessions : Under(s)' \subseteq Under(s)
    BY <1>1 DEF Connect, Under, LiteInv, LiteTypes, LiteCalls
  <2> QED
    BY <2>1, <2>2, <1>0, <1>1, BoundKept DEF LiteInv, Connect
<1>2. CASE Insert(t)
  <2>1. /\ call[t].at = "insert" /\ call[t].sess \in LiteSessions /\ writer = Nobody
        /\ NextSeq(call[t].sess) = Count(call[t].sess) + 1
    BY <1>2, NextSeqIs DEF Insert, LockFree, LiteInv, HoldInv
  <2>2. /\ call' = [call EXCEPT ![t].at = "commit", ![t].seq = Count(call[t].sess) + 1]
        /\ writer' = t /\ UNCHANGED <<lrows, lstatus, conn, readers, returned>>
    BY <1>2, <2>1 DEF Insert
  <2>3. LiteTypes' /\ RowsInv'
    <3>1. Count(call[t].sess) + 1 \in Nat
      BY <2>1, <1>0
    <3> QED
      BY <2>1, <2>2, <3>1 DEF LiteInv, LiteTypes, LiteCalls, RowsInv, Count
  <2>4. HoldInv'
    BY <2>1, <2>2, LiteAssumption DEF LiteInv, LiteTypes, LiteCalls, HoldInv, Count, ProcOf
  <2>5. \A s \in LiteSessions : Under(s)' \subseteq Under(s)
    BY <2>1, <2>2 DEF Under, LiteInv, LiteTypes, LiteCalls
  <2> QED
    BY <2>2, <2>3, <2>4, <2>5, <1>0, BoundKept DEF LiteInv
<1>3. CASE Select(t)
  <2>1. LiteTypes' /\ RowsInv'
    BY <1>3 DEF Select, LiteInv, LiteTypes, LiteCalls, RowsInv, Count
  <2>3. HoldInv'
    BY <1>3 DEF Select, LiteInv, LiteTypes, LiteCalls, HoldInv, Count, ProcOf
  <2>2. \A s \in LiteSessions : Under(s)' \subseteq Under(s)
    BY <1>3 DEF Select, Under, LiteInv, LiteTypes, LiteCalls
  <2> QED
    BY <2>1, <2>2, <2>3, <1>0, <1>3, BoundKept DEF LiteInv, Select
<1>4. CASE RowsRead(t) \/ Fails(t)
  <2>1. Release(t) /\ UNCHANGED <<lrows, lstatus, returned>>
    BY <1>4 DEF RowsRead, Fails
  <2>2. LiteTypes' /\ HoldInv' /\ RowsInv'
    BY <2>1, LiteAssumption DEF Release, Idle, LiteInv, LiteTypes, LiteCalls, HoldInv, RowsInv, Count, ProcOf, LiteTasks
  <2>3. \A s \in LiteSessions : Under(s)' \subseteq Under(s)
    BY <2>1 DEF Release, Idle, Under, LiteInv, LiteTypes, LiteCalls
  <2> QED
    BY <2>1, <2>2, <2>3, <1>0, BoundKept DEF LiteInv
<1> QED
  BY <1>1, <1>2, <1>3, <1>4

\* A commit puts one row behind the last one of its session and returns its number.
LEMMA CommitFacts ==
    ASSUME LiteInv, NEW t \in LiteTasks, Commit(t), NEW s, s = call[t].sess
    PROVE  /\ s \in LiteSessions /\ Count(s) \in Nat /\ t \in Under(s) /\ writer = t
           /\ lrows' = [lrows EXCEPT ![s] = [i \in 1..(Count(s) + 1) |-> "event"]]
           /\ returned' = [returned EXCEPT ![s] = [i \in 1..(Count(s) + 1) |-> i]]
           /\ Count(s)' = Count(s) + 1
<1>1. s \in LiteSessions /\ call[t].seq = Count(s) + 1 /\ writer = t /\ t[2] = "engine" /\ call[t].at = "commit"
  BY DEF Commit, LiteInv, HoldInv
<1>2. Count(s) \in Nat
  BY <1>1 DEF LiteInv, LiteTypes, Count
<1>3. DOMAIN lrows[s] = 1..Count(s) /\ returned[s] = [i \in 1..Count(s) |-> i]
  BY <1>1 DEF LiteInv, RowsInv
<1>4. lrows' = [lrows EXCEPT ![s] = [i \in 1..(Count(s) + 1) |-> "event"]]
  BY <1>1, <1>2, <1>3, RowIsAppend DEF Commit
<1>5. returned' = [returned EXCEPT ![s] = [i \in 1..(Count(s) + 1) |-> i]]
  <2>1. returned' = [returned EXCEPT ![s] = Append(returned[s], Count(s) + 1)]
    BY <1>1 DEF Commit
  <2>2. Append(returned[s], Count(s) + 1) = [i \in 1..(Count(s) + 1) |-> i]
    BY <1>2, <1>3, RowIsAppend
  <2> QED
    BY <2>1, <2>2
<1>6. Count(s)' = Count(s) + 1
  <2>1. returned'[s] = [i \in 1..(Count(s) + 1) |-> i]
    BY <1>1, <1>5 DEF LiteInv, LiteTypes
  <2>2. Len(returned'[s]) = Count(s) + 1
    BY <2>1, <1>2, RowIsAppend
  <2> QED
    BY <2>2 DEF Count
<1>7. t \in Under(s)
  BY <1>1 DEF Under
<1> QED
  BY <1>1, <1>2, <1>4, <1>5, <1>6, <1>7

\* The commit: the writer's number was the next one, and it frees what it held.
LEMMA CommitStep ==
    ASSUME LiteInv, NEW t \in LiteTasks, Commit(t)
    PROVE  LiteInv'
<1>0. PICK s : s = call[t].sess
  OBVIOUS
<1>1. /\ s \in LiteSessions /\ Count(s) \in Nat /\ t \in Under(s) /\ writer = t
      /\ lrows' = [lrows EXCEPT ![s] = [i \in 1..(Count(s) + 1) |-> "event"]]
      /\ returned' = [returned EXCEPT ![s] = [i \in 1..(Count(s) + 1) |-> i]]
      /\ Count(s)' = Count(s) + 1
  BY <1>0, CommitFacts
<1>2. Release(t) /\ UNCHANGED lstatus
  BY DEF Commit
<1>3. \A r \in LiteSessions : r # s => Count(r)' = Count(r) /\ returned'[r] = returned[r]
  BY <1>1 DEF Count, LiteInv, LiteTypes
<1>4. LiteTypes'
  <2>1. [i \in 1..(Count(s) + 1) |-> i] \in Seq(Nat)
    BY <1>1
  <2>2. returned' \in [LiteSessions -> Seq(Nat)]
    BY <1>1, <2>1 DEF LiteInv, LiteTypes
  <2> QED
    BY <1>2, <2>2 DEF Release, Idle, LiteInv, LiteTypes, LiteCalls, ProcOf, LiteTasks
<1>5. HoldInv'
  <2>1. \A u \in LiteTasks : u # t => call[u].at # "commit" /\ call'[u] = call[u]
    BY <1>1, <1>2 DEF Release, LiteInv, LiteTypes, HoldInv
  <2>2. call'[t] = Idle /\ writer' = Nobody
    BY <1>1, <1>2 DEF Release, LiteInv, LiteTypes
  <2>3. \A u \in LiteTasks : u # t /\ conn[ProcOf(u)] = u => conn'[ProcOf(u)] = u
    BY <1>2 DEF Release, LiteInv, LiteTypes, ProcOf, LiteTasks
  <2> QED
    BY <2>1, <2>2, <2>3 DEF HoldInv, LiteInv, Idle
<1>6. RowsInv'
  <2>1. lrows' = [r \in LiteSessions |-> [i \in 1..(Count(r)') |-> "event"]]
    BY <1>1, <1>3 DEF LiteInv, RowsInv
  <2>2. \A r \in LiteSessions : returned'[r] = [i \in 1..(Count(r)') |-> i]
    BY <1>1, <1>3 DEF LiteInv, LiteTypes, RowsInv
  <2> QED
    BY <2>1, <2>2 DEF RowsInv
<1>7. BoundInv'
  <2> SUFFICES ASSUME NEW r \in LiteSessions
               PROVE  Count(r)' + Cardinality(Under(r)') <= MaxLite + Cardinality(LiteTasks)
    BY DEF BoundInv
  <2>1. Count(r) + Cardinality(Under(r)) <= MaxLite + Cardinality(LiteTasks) /\ Count(r) \in Nat
    BY DEF LiteInv, BoundInv, LiteTypes, Count
  <2>2. Under(r)' \subseteq Under(r) \ {t}
    BY <1>2 DEF Release, Idle, Under, LiteInv, LiteTypes, LiteCalls
  <2>3. CASE r = s
    <3>1. Cardinality(Under(s) \ {t}) = Cardinality(Under(s)) - 1 /\ IsFiniteSet(Under(s) \ {t})
      BY <1>1, UnderBounded, FS_RemoveElement
    <3>2. Cardinality(Under(r)') <= Cardinality(Under(s)) - 1
      BY <2>2, <2>3, <3>1, FS_Subset
    <3> QED
      BY <2>1, <2>3, <3>2, <1>1, UnderBounded, UnderBoundedNext, TasksFinite, LiteAssumption
  <2>4. CASE r # s
    <3>1. Cardinality(Under(r)') <= Cardinality(Under(r))
      BY <2>2, UnderBounded, FS_Subset
    <3> QED
      BY <2>1, <2>4, <3>1, <1>3, UnderBounded, UnderBoundedNext, TasksFinite, LiteAssumption
  <2> QED
    BY <2>3, <2>4
<1> QED
  BY <1>4, <1>5, <1>6, <1>7 DEF LiteInv

\* A process that dies takes its connection, its locks and its open transaction with it.
LEMMA CrashStep ==
    ASSUME LiteInv, NEW p \in LiteProcs, LiteCrash(p)
    PROVE  LiteInv'
<1> DEFINE its == {t \in LiteTasks : ProcOf(t) = p}
<1>1. /\ conn' = [conn EXCEPT ![p] = Nobody] /\ writer' = (IF writer \in its THEN Nobody ELSE writer)
      /\ readers' = readers \ its /\ call' = [t \in LiteTasks |-> IF t \in its THEN Idle ELSE call[t]]
      /\ UNCHANGED <<lrows, lstatus, returned>>
  BY DEF LiteCrash
<1>2. LiteTypes' /\ RowsInv'
  BY <1>1 DEF Idle, LiteInv, LiteTypes, LiteCalls, RowsInv, Count
<1>3. \A t \in LiteTasks : call'[t] = IF ProcOf(t) = p THEN Idle ELSE call[t]
  BY <1>1
<1>4. HoldInv'
  BY <1>1, <1>3, LiteAssumption DEF Idle, LiteInv, LiteTypes, LiteCalls, HoldInv, Count, ProcOf, LiteTasks
<1>5. \A s \in LiteSessions : Under(s)' \subseteq Under(s)
  BY <1>3 DEF Idle, Under
<1>6. \A s \in LiteSessions : Count(s) \in Nat
  BY DEF LiteInv, LiteTypes, Count
<1> QED
  BY <1>1, <1>2, <1>4, <1>5, <1>6, BoundKept DEF LiteInv

\* Every step of the store preserves the invariant.
LEMMA LiteStep == LiteInv /\ [LiteNext]_liteVars => LiteInv'
<1> SUFFICES ASSUME LiteInv, [LiteNext]_liteVars PROVE LiteInv'
  OBVIOUS
<1>1. ASSUME NEW s \in LiteSessions, NEW st \in LiteEnds, FinishLite(s, st) PROVE LiteInv'
  <2>1. LiteTypes' /\ HoldInv' /\ RowsInv' /\ BoundInv'
    BY <1>1 DEF FinishLite, LiteInv, LiteTypes, HoldInv, RowsInv, BoundInv, Count, Under
  <2> QED
    BY <2>1 DEF LiteInv
<1>2. CASE UNCHANGED liteVars
  BY <1>2 DEF liteVars, LiteInv, LiteTypes, HoldInv, RowsInv, BoundInv, Count, Under
<1>3. CASE LiteNext
  BY <1>1, <1>3, CallStep, WorkStep, CommitStep, CrashStep DEF LiteNext, LiteWork
<1> QED
  BY <1>2, <1>3

-----------------------------------------------------------------------------
(* The theorems. *)

\* The invariant holds in every state of every behaviour.
THEOREM LiteInvariance == LiteSpec => []LiteInv
<1>1. LiteInit => LiteInv
  BY LiteInitInv
<1>2. LiteInv /\ [LiteNext]_liteVars => LiteInv'
  BY LiteStep
<1> QED
  BY <1>1, <1>2, PTL DEF LiteSpec

\* For any finite number of processes: the numbers SqliteEventStore::append returned are exactly those of
\* the rows, without a gap and none twice, whatever fails, waits or dies in between.
THEOREM LiteNumbersExact == LiteSpec => []LiteSafe
<1>1. LiteInv => LiteSafe
  <2> SUFFICES ASSUME LiteInv PROVE LiteSafe
    OBVIOUS
  <2>1. ASSUME NEW s \in LiteSessions
        PROVE  /\ DOMAIN lrows[s] = 1..Count(s) /\ Count(s) \in Nat
               /\ Cardinality(DOMAIN lrows[s]) = Count(s)
    <3>1. DOMAIN lrows[s] = 1..Count(s) /\ Count(s) \in Nat
      BY DEF LiteInv, RowsInv, LiteTypes, Count
    <3> QED
      BY <3>1, FS_Interval
  <2>2. ASSUME NEW s \in LiteSessions PROVE DOMAIN lrows[s] \subseteq 1..(MaxLite + Cardinality(LiteTasks))
    <3>1. Count(s) <= MaxLite + Cardinality(LiteTasks)
      BY <2>1, UnderBounded, TasksFinite, LiteAssumption DEF LiteInv, BoundInv
    <3> QED
      BY <2>1, <3>1, TasksFinite, LiteAssumption
  <2>3. LiteTypeOK
    BY <2>2 DEF LiteInv, LiteTypes, HoldInv, LiteTypeOK
  <2>4. NumbersExact
    BY <2>1 DEF LiteInv, RowsInv, NumbersExact
  <2> QED
    BY <2>3, <2>4 DEF LiteSafe
<1> QED
  BY <1>1, LiteInvariance, PTL

\* A commit is an append to the abstract log; the rest of a call is invisible to it.
LEMMA LiteLogStep == LiteInv /\ [LiteNext]_liteVars => [LiteLog!LogNext]_(LiteLog!logVars)
<1> SUFFICES ASSUME LiteInv, [LiteNext]_liteVars PROVE LiteLog!LogNext \/ UNCHANGED <<lrows, lstatus>>
  BY DEF LiteLog!logVars
<1>1. ASSUME NEW t \in LiteTasks, Commit(t) PROVE LiteLog!LogNext
  <2>0. PICK s : s = call[t].sess
    OBVIOUS
  <2>1. /\ s \in LiteSessions /\ Count(s) \in Nat
        /\ lrows' = [lrows EXCEPT ![s] = [i \in 1..(Count(s) + 1) |-> "event"]]
    BY <1>1, <2>0, CommitFacts
  <2>2. lrows[s] = [i \in 1..Count(s) |-> "event"]
    BY <2>1 DEF LiteInv, RowsInv
  <2>3. [i \in 1..(Count(s) + 1) |-> "event"] = Append(lrows[s], "event")
    BY <2>1, <2>2, RowIsAppend
  <2>4. lrows' = [lrows EXCEPT ![s] = Append(lrows[s], "event")]
    BY <2>1, <2>3
  <2>5. LiteLog!AppendEvent(s, "event")
    BY <2>4, <1>1 DEF Commit, LiteLog!AppendEvent
  <2> QED
    BY <2>1, <2>5 DEF LiteLog!LogNext
<1>2. ASSUME NEW s \in LiteSessions, NEW st \in LiteEnds, FinishLite(s, st) PROVE LiteLog!LogNext
  <2>1. LiteLog!EndSession(s, st)
    BY <1>2 DEF FinishLite, LiteLog!EndSession
  <2> QED
    BY <2>1 DEF LiteLog!LogNext
<1>3. CASE LiteNext
  BY <1>1, <1>2, <1>3
  DEF LiteNext, LiteWork, Connect, Insert, Select, RowsRead, Fails, CallAppend, CallReplay, LiteCrash
<1>4. CASE UNCHANGED liteVars
  BY <1>4 DEF liteVars
<1> QED
  BY <1>3, <1>4

\* The sqlite store implements the append-only log that the Postgres store implements: sessions, events and
\* statuses look the same to their readers on either backend of factory.rs.
THEOREM SqliteImplementsLog == LiteSpec => LiteImplementsLog
<1>1. LiteInit => LiteLog!LogInit
  BY DEF LiteInit, LiteLog!LogInit
<1>2. LiteInv /\ [LiteNext]_liteVars => [LiteLog!LogNext]_(LiteLog!logVars)
  BY LiteLogStep
<1> QED
  BY <1>1, <1>2, LiteInvariance, PTL DEF LiteSpec, LiteImplementsLog, LiteLog!LogSpec
=============================================================================

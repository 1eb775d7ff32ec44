------------------------ MODULE SessionStore_proofs -------------------------
(***************************************************************************)
(* The append protocol of the session store is correct for every number of *)
(* sessions and reconcilers.                                               *)
(*                                                                         *)
(* The inductive invariant says what the transactions leave implicit: a    *)
(* task past the lock statement holds the lock, so nobody else can change  *)
(* the table between its snapshot and its commit, and the number it took   *)
(* from the snapshot is still the next one.                                *)
(***************************************************************************)
EXTENDS SessionStore, SequenceTheorems, TLAPS

Holding == {"locked", "computed", "inserted"}
Numbered == {"computed", "inserted"}

\* The table of a session is a sequence: its numbers have no gap.
RowsInv == rows \in [Sessions -> Seq(Payloads)]

\* A task past the lock statement is the holder of the lock of its session.
LockInv == \A t \in Tasks : At(t) \in Holding => lock[Target(t)] = t

\* The number of an append that is under way is the next free one.
SeqInv == \A t \in Tasks : At(t) \in Numbered => tx[t].seq = Len(rows[Target(t)]) + 1

\* An engine appends to its own session, and only engines reach the mirror.
OwnInv ==
    /\ \A s \in Sessions : Target(s) = s
    /\ \A t \in Tasks : At(t) # "idle" /\ tx[t].body # "recovered" => t \in Sessions

\* The event that is about to be mirrored is committed and newer than the file.
MirrorInv ==
    \A s \in Sessions : At(s) = "mirror" =>
        /\ tx[s].seq \in DOMAIN rows[s] /\ rows[s][tx[s].seq] = "event"
        /\ \A i \in DOMAIN file[s] : file[s][i] < tx[s].seq

TxType == [at : Ats, sess : Sessions, seq : Nat, body : Payloads]

StoreInv ==
    /\ TypeOK /\ RowsInv /\ LockInv /\ SeqInv /\ OwnInv /\ MirrorInv
    /\ NoConflict /\ FileFollowsLog

\* COALESCE(MAX(seq), 0) of a table without gaps is its length.
LEMMA LastSeqOfSequence ==
    ASSUME NEW table \in Seq(Payloads)
    PROVE  LastSeq(table) = Len(table)
<1>1. CASE DOMAIN table = {}
  BY <1>1 DEF LastSeq
<1>2. CASE DOMAIN table # {}
  <2>1. Len(table) \in DOMAIN table /\ \A j \in DOMAIN table : j <= Len(table)
    BY <1>2
  <2>2. \A k \in DOMAIN table : (\A j \in DOMAIN table : j <= k) => k = Len(table)
    BY <2>1
  <2> QED BY <1>2, <2>1, <2>2 DEF LastSeq
<1> QED BY <1>1, <1>2

\* Adding the next number to a table without gaps is an append at its end.
LEMMA NextRowIsAppend ==
    ASSUME NEW table \in Seq(Payloads), NEW payload \in Payloads
    PROVE  [k \in DOMAIN table \cup {Len(table) + 1} |->
              IF k = Len(table) + 1 THEN payload ELSE table[k]] = Append(table, payload)
<1> DEFINE f == [k \in DOMAIN table \cup {Len(table) + 1} |->
              IF k = Len(table) + 1 THEN payload ELSE table[k]]
           g == Append(table, payload)
<1>1. DOMAIN table \cup {Len(table) + 1} = 1..(Len(table) + 1)
  OBVIOUS
<1>2. g \in Seq(Payloads) /\ Len(g) = Len(table) + 1
  OBVIOUS
<1>3. \A k \in 1..(Len(table) + 1) : g[k] = IF k = Len(table) + 1 THEN payload ELSE table[k]
  OBVIOUS
<1> HIDE DEF g
<1>4. g \in [1..(Len(table) + 1) -> Payloads]
  BY <1>2, LenProperties
<1>5. g = [k \in 1..(Len(table) + 1) |-> IF k = Len(table) + 1 THEN payload ELSE table[k]]
  BY <1>3, <1>4, Zenon
<1> QED BY <1>1, <1>5 DEF g

\* A transaction that goes on stays of its type ...
LEMMA TxMoves ==
    ASSUME NEW f \in [Tasks -> TxType], NEW t \in Tasks, NEW a \in Ats
    PROVE  [f EXCEPT ![t].at = a] \in [Tasks -> TxType]
BY DEF TxType

\* ... and so does one that gets its number.
LEMMA TxNumbered ==
    ASSUME NEW f \in [Tasks -> TxType], NEW t \in Tasks, NEW a \in Ats, NEW n \in Nat
    PROVE  [f EXCEPT ![t].at = a, ![t].seq = n] \in [Tasks -> TxType]
BY DEF TxType

\* The invariant holds before anything is appended.
LEMMA InitStoreInv == Init => StoreInv
<1> SUFFICES ASSUME Init PROVE StoreInv
  OBVIOUS
<1> USE DEF Init
<1>1. RowsInv
  BY DEF RowsInv
<1>2. TypeOK
  BY TaskAssumption DEF TypeOK, NoTx, Tasks, Ats, Payloads, Statuses, At
<1>3. LockInv /\ SeqInv /\ OwnInv /\ MirrorInv /\ NoConflict
  BY DEF LockInv, SeqInv, OwnInv, MirrorInv, NoConflict, NoTx, Tasks, At, Target, Holding, Numbered
<1>4. FileFollowsLog
  BY DEF FileFollowsLog
<1> QED BY <1>1, <1>2, <1>3, <1>4 DEF StoreInv

\* The invariant survives a task that starts a transaction.
LEMMA BeginPreserves ==
    ASSUME StoreInv, NEW t \in Tasks, NEW s \in Sessions, NEW body \in Payloads, t \in Sessions => s = t, t \notin Sessions => body = "recovered", Begin(t, s, body)
    PROVE  StoreInv'
<1> USE DEF StoreInv, Begin, At, Target, Move, Done, NoTx, Freed, Tasks
<1>1. TypeOK'
  BY TaskAssumption DEF TypeOK, Ats, Payloads, Statuses, Terminal
<1>2. RowsInv'
  BY DEF RowsInv
<1>3. LockInv'
  BY TaskAssumption DEF LockInv, TypeOK, Holding
<1>4. SeqInv'
  BY DEF SeqInv, TypeOK, Numbered, RowsInv
<1>5. OwnInv'
  BY DEF OwnInv, TypeOK
<1>6. MirrorInv'
  BY DEF MirrorInv, TypeOK, OwnInv, RowsInv
<1>7. NoConflict'
  BY DEF NoConflict, TypeOK
<1>8. FileFollowsLog'
  BY DEF FileFollowsLog, TypeOK, RowsInv
<1> QED BY <1>1, <1>2, <1>3, <1>4, <1>5, <1>6, <1>7, <1>8

\* The invariant survives a task that gets the advisory lock.
LEMMA LockPreserves ==
    ASSUME StoreInv, NEW t \in Tasks, Lock(t)
    PROVE  StoreInv'
<1>s. tx \in [Tasks -> TxType]
  BY DEF StoreInv, TypeOK, TxType
<1>t. tx' \in [Tasks -> TxType]
  BY <1>s, TxMoves DEF Lock, Move, Ats
<1> USE DEF StoreInv, Lock, At, Target, Move, Done, NoTx, Freed, Tasks
<1>1. TypeOK'
  <2>1. tx' \in [Tasks -> [at : Ats, sess : Sessions, seq : Nat, body : Payloads]]
    BY <1>t DEF TxType
  <2>2. \A u \in Tasks : At(u)' \in {"computed", "inserted"} => tx'[u].seq # 0
    BY DEF TypeOK
  <2>3. lock' \in [Sessions -> Tasks \cup {NoTask}]
    BY DEF TypeOK
  <2> QED BY <2>1, <2>2, <2>3 DEF TypeOK
<1>2. RowsInv'
  BY DEF RowsInv
<1>3. LockInv'
  BY TaskAssumption DEF LockInv, TypeOK, Holding
<1>4. SeqInv'
  BY DEF SeqInv, TypeOK, Numbered, RowsInv
<1>5. OwnInv'
  BY DEF OwnInv, TypeOK
<1>6. MirrorInv'
  BY DEF MirrorInv, TypeOK, OwnInv, RowsInv
<1>7. NoConflict'
  BY DEF NoConflict, TypeOK
<1>8. FileFollowsLog'
  BY DEF FileFollowsLog, TypeOK, RowsInv
<1> QED BY <1>1, <1>2, <1>3, <1>4, <1>5, <1>6, <1>7, <1>8

\* The invariant survives a task that takes its number from the table.
LEMMA ComputePreserves ==
    ASSUME StoreInv, NEW t \in Tasks, Compute(t)
    PROVE  StoreInv'
<1>a. LastSeq(rows[Target(t)]) = Len(rows[Target(t)]) /\ Len(rows[Target(t)]) \in Nat
  BY LastSeqOfSequence DEF StoreInv, RowsInv, TypeOK, Target, Tasks
<1>b. tx' = [tx EXCEPT ![t].at = "computed", ![t].seq = Len(rows[Target(t)]) + 1]
  BY <1>a DEF Compute
<1>s. tx \in [Tasks -> TxType]
  BY DEF StoreInv, TypeOK, TxType
<1>t. tx' \in [Tasks -> TxType]
<2>1. "computed" \in Ats /\ Len(rows[Target(t)]) + 1 \in Nat
    BY <1>a DEF Ats
  <2> QED BY <1>b, <1>s, <2>1, TxNumbered, Zenon
<1> USE DEF StoreInv, Compute, At, Target, Move, Done, NoTx, Freed, Tasks
<1>1. TypeOK'
  <2>1. tx' \in [Tasks -> [at : Ats, sess : Sessions, seq : Nat, body : Payloads]]
    BY <1>t DEF TxType
  <2>2. \A u \in Tasks : At(u)' \in {"computed", "inserted"} => tx'[u].seq # 0
    BY <1>a, <1>b DEF TypeOK
  <2>3. lock' \in [Sessions -> Tasks \cup {NoTask}]
    BY DEF TypeOK
  <2> QED BY <2>1, <2>2, <2>3 DEF TypeOK
<1>2. RowsInv'
  BY DEF RowsInv
<1>3. LockInv'
  BY TaskAssumption DEF LockInv, TypeOK, Holding
<1>4. SeqInv'
  BY <1>a, <1>b DEF SeqInv, TypeOK, Numbered, RowsInv
<1>5. OwnInv'
  BY DEF OwnInv, TypeOK
<1>6. MirrorInv'
  BY DEF MirrorInv, TypeOK, OwnInv, RowsInv
<1>7. NoConflict'
  BY DEF NoConflict, TypeOK
<1>8. FileFollowsLog'
  BY DEF FileFollowsLog, TypeOK, RowsInv
<1> QED BY <1>1, <1>2, <1>3, <1>4, <1>5, <1>6, <1>7, <1>8

\* The invariant survives a task that inserts its row.
LEMMA WritePreserves ==
    ASSUME StoreInv, NEW t \in Tasks, Write(t)
    PROVE  StoreInv'
<1>a. tx[t].seq \notin DOMAIN rows[Target(t)]
  BY DEF StoreInv, SeqInv, RowsInv, TypeOK, Write, At, Target, Numbered, Tasks
<1>b. tx' = [tx EXCEPT ![t].at = "inserted"]
  BY <1>a DEF Write, Move
<1>s. tx \in [Tasks -> TxType]
  BY DEF StoreInv, TypeOK, TxType
<1>t. tx' \in [Tasks -> TxType]
  BY <1>b, <1>s, TxMoves DEF Ats
<1> USE DEF StoreInv, Write, At, Target, Move, Done, NoTx, Freed, Tasks
<1>1. TypeOK'
  <2>1. tx' \in [Tasks -> [at : Ats, sess : Sessions, seq : Nat, body : Payloads]]
    BY <1>t DEF TxType
  <2>2. \A u \in Tasks : At(u)' \in {"computed", "inserted"} => tx'[u].seq # 0
    BY <1>b DEF TypeOK
  <2>3. lock' \in [Sessions -> Tasks \cup {NoTask}]
    BY DEF TypeOK
  <2> QED BY <2>1, <2>2, <2>3 DEF TypeOK
<1>2. RowsInv'
  BY DEF RowsInv
<1>3. LockInv'
  BY TaskAssumption DEF LockInv, TypeOK, Holding
<1>4. SeqInv'
  BY DEF SeqInv, TypeOK, Numbered, RowsInv
<1>5. OwnInv'
  BY DEF OwnInv, TypeOK
<1>6. MirrorInv'
  BY DEF MirrorInv, TypeOK, OwnInv, RowsInv
<1>7. NoConflict'
  BY <1>b DEF NoConflict, TypeOK
<1>8. FileFollowsLog'
  BY DEF FileFollowsLog, TypeOK, RowsInv
<1> QED BY <1>1, <1>2, <1>3, <1>4, <1>5, <1>6, <1>7, <1>8

\* The invariant survives a task that commits its row.
LEMMA CommitPreserves ==
    ASSUME StoreInv, NEW t \in Tasks, Commit(t)
    PROVE  StoreInv'
<1> DEFINE s == Target(t)
           table == rows[s]
<1>1. /\ s \in Sessions /\ table \in Seq(Payloads) /\ Len(table) \in Nat
      /\ tx[t].seq = Len(table) + 1 /\ tx[t].body \in Payloads /\ lock[s] = t
  BY DEF StoreInv, TypeOK, RowsInv, SeqInv, LockInv, Commit, At, Target, Numbered, Holding, Tasks
<1>2. rows' = [rows EXCEPT ![s] = Append(table, tx[t].body)]
  <2> DEFINE new == [k \in DOMAIN table \cup {Len(table) + 1} |->
                       IF k = Len(table) + 1 THEN tx[t].body ELSE table[k]]
  <2>1. rows' = [rows EXCEPT ![s] = new]
    BY <1>1 DEF Commit
  <2>2. new = Append(table, tx[t].body)
    BY <1>1, NextRowIsAppend
  <2> QED BY <2>1, <2>2, Zenon
<1>3. /\ rows' \in [Sessions -> Seq(Payloads)]
      /\ rows'[s] = Append(table, tx[t].body)
      /\ \A q \in Sessions \ {s} : rows'[q] = rows[q]
  BY <1>1, <1>2 DEF StoreInv, RowsInv
<1>4. \A q \in Sessions : \A k \in DOMAIN rows[q] : k \in DOMAIN rows'[q] /\ rows'[q][k] = rows[q][k]
  <2>1. \A k \in DOMAIN table : k \in DOMAIN rows'[s] /\ rows'[s][k] = table[k]
    BY <1>1, <1>3
  <2> QED BY <1>3, <2>1
<1>5. /\ tx[t].seq \in DOMAIN rows'[s] /\ rows'[s][tx[t].seq] = tx[t].body
  BY <1>1, <1>3
<1>6. /\ tx' \in [Tasks -> TxType]
      /\ \A u \in Tasks \ {t} : tx'[u] = tx[u]
      /\ tx'[t].sess = s /\ tx'[t].at \in {"idle", "mirror"}
      /\ tx'[t].at = "mirror" => tx'[t].seq = tx[t].seq /\ tx[t].body = "event"
      /\ tx'[t].at = "mirror" => tx'[t].body = tx[t].body
  <2>1. tx \in [Tasks -> TxType]
    BY DEF StoreInv, TypeOK, TxType
  <2>2. CASE tx[t].body = "event"
    <3>1. tx' = [tx EXCEPT ![t].at = "mirror"]
      BY <2>2 DEF Commit, Move
    <3>2. tx' \in [Tasks -> TxType]
      BY <2>1, <3>1, TxMoves DEF Ats
    <3> QED BY <2>1, <2>2, <3>1, <3>2 DEF TxType, Target
  <2>3. CASE tx[t].body # "event"
    <3>1. tx' = [tx EXCEPT ![t] = NoTx(s)]
      BY <2>3 DEF Commit, Done
    <3> QED BY <1>1, <2>1, <3>1 DEF TxType, NoTx, Ats, Payloads
  <2> QED BY <2>2, <2>3
<1>7. /\ lock' \in [Sessions -> Tasks \cup {NoTask}]
      /\ \A q \in Sessions : lock[q] # t => lock'[q] = lock[q]
      /\ UNCHANGED <<status, file, broken>>
  BY DEF StoreInv, TypeOK, Commit, Freed
<1>8. \A u \in Tasks \ {t} : At(u) \in Holding => Target(u) # s
  BY <1>1 DEF StoreInv, LockInv
<1> HIDE DEF s
<1>11. TypeOK'
  <2>1. \A q \in Sessions :
          DOMAIN rows'[q] \subseteq Nat \ {0} /\ \A k \in DOMAIN rows'[q] : rows'[q][k] \in Payloads
    BY <1>3
  <2>2. \A u \in Tasks : tx'[u].at \in {"computed", "inserted"} => tx'[u].seq # 0
    BY <1>6 DEF StoreInv, TypeOK, At
  <2> QED BY <1>3, <1>6, <1>7, <2>1, <2>2 DEF StoreInv, TypeOK, TxType, At
<1>12. RowsInv'
  BY <1>3 DEF RowsInv
<1>13. LockInv'
  BY <1>6, <1>7 DEF StoreInv, TypeOK, LockInv, At, Target, Holding
<1>14. SeqInv'
  <2> SUFFICES ASSUME NEW u \in Tasks, tx'[u].at \in Numbered
               PROVE  tx'[u].seq = Len(rows'[tx'[u].sess]) + 1
    BY DEF SeqInv, At, Target
  <2>1. u # t
    BY <1>6 DEF Numbered
  <2>2. tx'[u] = tx[u] /\ Target(u) # s /\ Target(u) \in Sessions
    BY <1>6, <1>8, <2>1 DEF At, Target, Numbered, Holding, StoreInv, TypeOK
  <2> QED BY <1>3, <2>2 DEF StoreInv, SeqInv, At, Target
<1>15. OwnInv'
  BY <1>6 DEF StoreInv, OwnInv, Commit, At, Target, s, Tasks
<1>16. MirrorInv'
  <2> SUFFICES ASSUME NEW q \in Sessions, tx'[q].at = "mirror"
               PROVE  /\ tx'[q].seq \in DOMAIN rows'[q] /\ rows'[q][tx'[q].seq] = "event"
                      /\ \A i \in DOMAIN file[q] : file[q][i] < tx'[q].seq
    BY <1>7 DEF MirrorInv, At
  <2>1. CASE q # t
    BY <1>4, <1>6, <2>1 DEF StoreInv, MirrorInv, At, Tasks
  <2>2. CASE q = t
    <3>1. s = q
      BY <2>2 DEF StoreInv, OwnInv, s
    <3>2. \A i \in DOMAIN file[q] : file[q][i] \in DOMAIN rows[q]
      BY DEF StoreInv, FileFollowsLog
    <3>3. \A k \in DOMAIN rows[q] : k < tx[q].seq
      BY <1>1, <2>2, <3>1
    <3> QED BY <1>5, <1>6, <2>2, <3>1, <3>2, <3>3
  <2> QED BY <2>1, <2>2
<1>17. NoConflict'
  BY <1>6 DEF StoreInv, NoConflict, At
<1>18. FileFollowsLog'
  <2>1. \A q \in Sessions : \A i \in DOMAIN file[q] :
           file[q][i] \in DOMAIN rows'[q] /\ rows'[q][file[q][i]] = "event"
    BY <1>4 DEF StoreInv, FileFollowsLog
  <2> QED BY <1>7, <2>1 DEF StoreInv, FileFollowsLog
<1> QED BY <1>11, <1>12, <1>13, <1>14, <1>15, <1>16, <1>17, <1>18 DEF StoreInv

\* The invariant survives a task that writes a line of the file.
LEMMA MirrorWritePreserves ==
    ASSUME StoreInv, NEW t \in Tasks, t \in Sessions, MirrorWrite(t)
    PROVE  StoreInv'
<1>a. /\ tx[t].seq \in DOMAIN rows[t] /\ rows[t][tx[t].seq] = "event"
      /\ tx[t].seq \in Nat \ {0}
      /\ \A i \in DOMAIN file[t] : file[t][i] < tx[t].seq
  BY DEF StoreInv, MirrorInv, MirrorWrite, TypeOK, RowsInv
<1>b. /\ file' = [file EXCEPT ![t] = Append(file[t], tx[t].seq)]
      /\ file[t] \in Seq(Nat \ {0})
      /\ UNCHANGED rows
  BY DEF StoreInv, MirrorWrite, TypeOK
<1>c. file' \in [Sessions -> Seq(Nat \ {0})]
  BY <1>a, <1>b DEF StoreInv, TypeOK
<1> USE DEF StoreInv, MirrorWrite, At, Target, Move, Done, NoTx, Freed, Tasks
<1>1. TypeOK'
  BY <1>c, TaskAssumption DEF TypeOK, Ats, Payloads
<1>2. RowsInv'
  BY DEF RowsInv
<1>3. LockInv'
  BY TaskAssumption DEF LockInv, TypeOK, Holding
<1>4. SeqInv'
  BY DEF SeqInv, TypeOK, Numbered, RowsInv
<1>5. OwnInv'
  BY DEF OwnInv, TypeOK
<1>6. MirrorInv'
  BY DEF MirrorInv, TypeOK, OwnInv, RowsInv
<1>7. NoConflict'
  BY DEF NoConflict, TypeOK
<1>8. FileFollowsLog'
  <2>1. SUFFICES ASSUME NEW s \in Sessions
               PROVE  /\ \A i \in DOMAIN file'[s] :
                           file'[s][i] \in DOMAIN rows[s] /\ rows[s][file'[s][i]] = "event"
                      /\ \A i, j \in DOMAIN file'[s] : i < j => file'[s][i] < file'[s][j]
    BY <1>b DEF FileFollowsLog
  <2>2. CASE s # t
    BY <2>2, <1>b DEF FileFollowsLog, TypeOK
  <2>3. CASE s = t
    <3>1. /\ file'[s] = Append(file[s], tx[s].seq)
          /\ DOMAIN file'[s] = 1..(Len(file[s]) + 1)
          /\ DOMAIN file[s] = 1..Len(file[s]) /\ Len(file[s]) \in Nat
      BY <2>3, <1>a, <1>b DEF TypeOK
    <3>2. \A i \in DOMAIN file'[s] :
             file'[s][i] = IF i = Len(file[s]) + 1 THEN tx[s].seq ELSE file[s][i]
      BY <2>3, <3>1, <1>a, <1>b
    <3>3. \A i \in DOMAIN file[s] : file[s][i] \in DOMAIN rows[s] /\ rows[s][file[s][i]] = "event"
      BY DEF FileFollowsLog
    <3>4. \A i, j \in DOMAIN file[s] : i < j => file[s][i] < file[s][j]
      BY DEF FileFollowsLog
    <3>5. \A i \in DOMAIN file'[s] :
             file'[s][i] \in DOMAIN rows[s] /\ rows[s][file'[s][i]] = "event"
      BY <2>3, <1>a, <3>1, <3>2, <3>3
    <3>6. \A i, j \in DOMAIN file'[s] : i < j => file'[s][i] < file'[s][j]
      BY <2>3, <1>a, <3>1, <3>2, <3>4
    <3> QED BY <3>5, <3>6
  <2> QED BY <2>2, <2>3
<1> QED BY <1>1, <1>2, <1>3, <1>4, <1>5, <1>6, <1>7, <1>8

\* The invariant survives a task that rolls back.
LEMMA AbortPreserves ==
    ASSUME StoreInv, NEW t \in Tasks, Abort(t)
    PROVE  StoreInv'
<1> USE DEF StoreInv, Abort, At, Target, Move, Done, NoTx, Freed, Tasks
<1>1. TypeOK'
  BY TaskAssumption DEF TypeOK, Ats, Payloads, Statuses, Terminal
<1>2. RowsInv'
  BY DEF RowsInv
<1>3. LockInv'
  BY TaskAssumption DEF LockInv, TypeOK, Holding
<1>4. SeqInv'
  BY DEF SeqInv, TypeOK, Numbered, RowsInv
<1>5. OwnInv'
  BY DEF OwnInv, TypeOK
<1>6. MirrorInv'
  BY DEF MirrorInv, TypeOK, OwnInv, RowsInv
<1>7. NoConflict'
  BY DEF NoConflict, TypeOK
<1>8. FileFollowsLog'
  BY DEF FileFollowsLog, TypeOK, RowsInv
<1> QED BY <1>1, <1>2, <1>3, <1>4, <1>5, <1>6, <1>7, <1>8

\* The invariant survives a task that skips a broken mirror.
LEMMA MirrorSkipPreserves ==
    ASSUME StoreInv, NEW t \in Tasks, t \in Sessions, MirrorSkip(t)
    PROVE  StoreInv'
<1> USE DEF StoreInv, MirrorSkip, At, Target, Move, Done, NoTx, Freed, Tasks
<1>1. TypeOK'
  BY TaskAssumption DEF TypeOK, Ats, Payloads, Statuses, Terminal
<1>2. RowsInv'
  BY DEF RowsInv
<1>3. LockInv'
  BY TaskAssumption DEF LockInv, TypeOK, Holding
<1>4. SeqInv'
  BY DEF SeqInv, TypeOK, Numbered, RowsInv
<1>5. OwnInv'
  BY DEF OwnInv, TypeOK
<1>6. MirrorInv'
  BY DEF MirrorInv, TypeOK, OwnInv, RowsInv
<1>7. NoConflict'
  BY DEF NoConflict, TypeOK
<1>8. FileFollowsLog'
  BY DEF FileFollowsLog, TypeOK, RowsInv
<1> QED BY <1>1, <1>2, <1>3, <1>4, <1>5, <1>6, <1>7, <1>8

\* The invariant survives a task that fails to mirror an event.
LEMMA MirrorFailPreserves ==
    ASSUME StoreInv, NEW t \in Tasks, t \in Sessions, MirrorFail(t)
    PROVE  StoreInv'
<1> USE DEF StoreInv, MirrorFail, At, Target, Move, Done, NoTx, Freed, Tasks
<1>1. TypeOK'
  BY TaskAssumption DEF TypeOK, Ats, Payloads, Statuses, Terminal
<1>2. RowsInv'
  BY DEF RowsInv
<1>3. LockInv'
  BY TaskAssumption DEF LockInv, TypeOK, Holding
<1>4. SeqInv'
  BY DEF SeqInv, TypeOK, Numbered, RowsInv
<1>5. OwnInv'
  BY DEF OwnInv, TypeOK
<1>6. MirrorInv'
  BY DEF MirrorInv, TypeOK, OwnInv, RowsInv
<1>7. NoConflict'
  BY DEF NoConflict, TypeOK
<1>8. FileFollowsLog'
  BY DEF FileFollowsLog, TypeOK, RowsInv
<1> QED BY <1>1, <1>2, <1>3, <1>4, <1>5, <1>6, <1>7, <1>8

\* The invariant survives a task that dies in an append.
LEMMA CrashPreserves ==
    ASSUME StoreInv, NEW t \in Tasks, t \in Sessions, Crash(t)
    PROVE  StoreInv'
<1> USE DEF StoreInv, Crash, At, Target, Move, Done, NoTx, Freed, Tasks
<1>1. TypeOK'
  BY TaskAssumption DEF TypeOK, Ats, Payloads, Statuses, Terminal
<1>2. RowsInv'
  BY DEF RowsInv
<1>3. LockInv'
  BY TaskAssumption DEF LockInv, TypeOK, Holding
<1>4. SeqInv'
  BY DEF SeqInv, TypeOK, Numbered, RowsInv
<1>5. OwnInv'
  BY DEF OwnInv, TypeOK
<1>6. MirrorInv'
  BY DEF MirrorInv, TypeOK, OwnInv, RowsInv
<1>7. NoConflict'
  BY DEF NoConflict, TypeOK
<1>8. FileFollowsLog'
  BY DEF FileFollowsLog, TypeOK, RowsInv
<1> QED BY <1>1, <1>2, <1>3, <1>4, <1>5, <1>6, <1>7, <1>8

\* The invariant survives a task that is finished.
LEMMA FinishPreserves ==
    ASSUME StoreInv, NEW t \in Tasks, NEW st \in Terminal, t \in Sessions, Finish(t, st)
    PROVE  StoreInv'
<1> USE DEF StoreInv, Finish, At, Target, Move, Done, NoTx, Freed, Tasks
<1>1. TypeOK'
  BY TaskAssumption DEF TypeOK, Ats, Payloads, Statuses, Terminal
<1>2. RowsInv'
  BY DEF RowsInv
<1>3. LockInv'
  BY TaskAssumption DEF LockInv, TypeOK, Holding
<1>4. SeqInv'
  BY DEF SeqInv, TypeOK, Numbered, RowsInv
<1>5. OwnInv'
  BY DEF OwnInv, TypeOK
<1>6. MirrorInv'
  BY DEF MirrorInv, TypeOK, OwnInv, RowsInv
<1>7. NoConflict'
  BY DEF NoConflict, TypeOK
<1>8. FileFollowsLog'
  BY DEF FileFollowsLog, TypeOK, RowsInv
<1> QED BY <1>1, <1>2, <1>3, <1>4, <1>5, <1>6, <1>7, <1>8

\* Every step of an engine, a reconciler or the environment keeps the invariant.
LEMMA StoreStep == StoreInv /\ [Next]_vars => StoreInv'
<1> SUFFICES ASSUME StoreInv, [Next]_vars PROVE StoreInv'
  OBVIOUS
<1>1. ASSUME NEW t \in Tasks, BeginAppend(t) PROVE StoreInv'
  <2>1. CASE t \in Sessions
    BY <1>1, <2>1, BeginPreserves DEF BeginAppend, Payloads
  <2>2. CASE t \notin Sessions
    <3>1. PICK s \in Sessions : Begin(t, s, "recovered")
      BY <1>1, <2>2 DEF BeginAppend
    <3>2. "recovered" \in Payloads
      BY DEF Payloads
    <3> QED BY <2>2, <3>1, <3>2, BeginPreserves
  <2> QED BY <2>1, <2>2
<1>2. ASSUME NEW t \in Tasks, Work(t) PROVE StoreInv'
  BY <1>2, LockPreserves, ComputePreserves, WritePreserves, CommitPreserves,
     MirrorSkipPreserves, MirrorWritePreserves, MirrorFailPreserves DEF Work
<1>3. ASSUME NEW t \in Tasks, Abort(t) PROVE StoreInv'
  BY <1>3, AbortPreserves
<1>4. ASSUME NEW s \in Sessions, Crash(s) PROVE StoreInv'
  BY <1>4, CrashPreserves DEF Tasks
<1>5. ASSUME NEW s \in Sessions, NEW st \in Terminal, Finish(s, st) PROVE StoreInv'
  BY <1>5, FinishPreserves DEF Tasks
<1>6. CASE UNCHANGED vars
  <2> USE <1>6 DEF StoreInv, vars, At, Target
  <2>1. TypeOK' /\ RowsInv' /\ LockInv' /\ SeqInv'
    BY DEF TypeOK, RowsInv, LockInv, SeqInv
  <2>2. OwnInv' /\ MirrorInv' /\ NoConflict' /\ FileFollowsLog'
    BY DEF OwnInv, MirrorInv, NoConflict, FileFollowsLog
  <2> QED BY <2>1, <2>2
<1> QED BY <1>1, <1>2, <1>3, <1>4, <1>5, <1>6 DEF Next

\* The invariant of the append protocol holds in every reachable state.
THEOREM StoreCorrect == Spec => []StoreInv
<1>1. Init => StoreInv
  BY InitStoreInv
<1>2. StoreInv /\ [Next]_vars => StoreInv'
  BY StoreStep
<1> QED BY <1>1, <1>2, PTL DEF Spec

\* Type correctness of the store.
THEOREM StoreTypeCorrect == Spec => []TypeOK
<1>1. StoreInv => TypeOK
  BY DEF StoreInv
<1> QED BY <1>1, StoreCorrect, PTL

\* The advisory lock of PgEventStore::append keeps the unique index from ever
\* refusing an append, for any number of engines and reconcilers.
THEOREM AppendsNeverConflict == Spec => []NoConflict
<1>1. StoreInv => NoConflict
  BY DEF StoreInv
<1> QED BY <1>1, StoreCorrect, PTL

\* FileLogMirror: the jsonl file holds committed events of its session in order.
THEOREM FileIsOrdered == Spec => []FileFollowsLog
<1>1. StoreInv => FileFollowsLog
  BY DEF StoreInv
<1> QED BY <1>1, StoreCorrect, PTL

\* A commit is an append to the abstract log; everything before it is invisible.
LEMMA CommitAppends ==
    ASSUME StoreInv, NEW t \in Tasks, Commit(t)
    PROVE  Log!LogNext
<1> DEFINE s == Target(t)
<1>1. /\ s \in Sessions /\ rows[s] \in Seq(Payloads)
      /\ tx[t].seq = Len(rows[s]) + 1 /\ tx[t].body \in Payloads
  BY DEF StoreInv, TypeOK, RowsInv, SeqInv, Commit, At, Target, Numbered, Tasks
<1>2. rows' = [rows EXCEPT ![s] = Append(rows[s], tx[t].body)]
  <2> DEFINE new == [k \in DOMAIN rows[s] \cup {Len(rows[s]) + 1} |->
                       IF k = Len(rows[s]) + 1 THEN tx[t].body ELSE rows[s][k]]
  <2>1. rows' = [rows EXCEPT ![s] = new]
    BY <1>1 DEF Commit
  <2>2. new = Append(rows[s], tx[t].body)
    BY <1>1, NextRowIsAppend
  <2> QED BY <2>1, <2>2, Zenon
<1>3. UNCHANGED status
  BY DEF Commit
<1>4. Log!AppendEvent(s, tx[t].body)
  BY <1>2, <1>3 DEF Log!AppendEvent
<1> QED BY <1>1, <1>4 DEF Log!LogNext

\* Every step of the store is a step of the abstract log or invisible to it.
LEMMA LogStep == StoreInv /\ [Next]_vars => [Log!LogNext]_(Log!logVars)
<1> SUFFICES ASSUME StoreInv, [Next]_vars PROVE Log!LogNext \/ UNCHANGED <<rows, status>>
  BY DEF Log!logVars
<1>1. ASSUME NEW t \in Tasks, BeginAppend(t) PROVE UNCHANGED <<rows, status>>
  BY <1>1 DEF BeginAppend, Begin
<1>2. ASSUME NEW t \in Tasks, Work(t) PROVE Log!LogNext \/ UNCHANGED <<rows, status>>
  BY <1>2, CommitAppends DEF Work, Lock, Compute, Write, MirrorSkip, MirrorWrite, MirrorFail
<1>3. ASSUME NEW t \in Tasks, Abort(t) PROVE UNCHANGED <<rows, status>>
  BY <1>3 DEF Abort
<1>4. ASSUME NEW s \in Sessions, Crash(s) PROVE UNCHANGED <<rows, status>>
  BY <1>4 DEF Crash
<1>5. ASSUME NEW s \in Sessions, NEW st \in Terminal, Finish(s, st) PROVE Log!LogNext
  <2>1. Log!EndSession(s, st)
    BY <1>5 DEF Finish, Log!EndSession
  <2> QED BY <2>1 DEF Log!LogNext
<1>6. CASE UNCHANGED vars
  BY <1>6 DEF vars
<1> QED BY <1>1, <1>2, <1>3, <1>4, <1>5, <1>6 DEF Next

\* PgEventStore implements the append-only log: for any number of concurrent
\* appends, failures and crashes, readers see events only added at the end and
\* a status that leaves running once.
THEOREM StoreImplementsLog == Spec => ImplementsLog
<1>1. Init => Log!LogInit
  BY DEF Init, Log!LogInit
<1>2. StoreInv /\ [Next]_vars => [Log!LogNext]_(Log!logVars)
  BY LogStep
<1> QED BY <1>1, <1>2, StoreCorrect, PTL DEF Spec, ImplementsLog, Log!LogSpec
=============================================================================

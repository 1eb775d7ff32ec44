--------------------------- MODULE Harness_proofs ---------------------------
(***************************************************************************)
(* What TLAPS proves of the v2 engine's containers and conversations, for  *)
(* every workflow and any number of crashes: run_parallel (Parallel), the  *)
(* chat and agent steps (Conversation), and the scope runner with its      *)
(* refinement of ScopeRun (Scope).                                         *)
(***************************************************************************)
EXTENDS Parallel, Conversation, Scope, NaturalsInduction, WellFoundedInduction, SequenceTheorems, TLAPS

\* A non-empty set of numbers has a least one.
LEMMA LeastOne ==
    ASSUME NEW S, S \subseteq Nat, S # {}
    PROVE  \E k \in S : \A j \in S : k <= j
<1>1. PICK k \in S : \A j \in S : ~(<<j, k>> \in OpToRel(<, Nat))
  BY NatLessThanWellFounded, WFMin
<1>2. \A j \in S : ~(j < k)
  BY <1>1 DEF OpToRel
<1> QED
  BY <1>2

-----------------------------------------------------------------------------
(* run_parallel (module Parallel).                                         *)
(*                                                                         *)
(* The properties speak of the log alone; what makes them inductive is how *)
(* the runner's own state fits it at each place: which tasks a resume left *)
(* out (TasksInv), which completions are still to be logged and how far    *)
(* the loop over them is (LoopInv), and what is about to be appended       *)
(* (PendingInv).                                                           *)

PNames ==
    {"step_started", "chat_user", "chat_assistant", "step_completed", "step_failed", "signal_received", "step_timeout_fired"}
PEvent == [ev : PNames, pos : Nat, era : Int]
TaskStates == {"off", "running", "aborting", "aborted", "ok", "nonzero", "error", "timeout", "joined", "kept"}
PPlaces == {"idle", "prepare", "drain", "collect", "log", "close", "returned", "dead"}
Spawned == {"drain", "collect", "log"}

\* The types of run_parallel's state.
PTypes ==
    /\ fork \in Forks /\ plog \in Seq(PEvent) /\ prow \in {"running", "failed", "cancelled"}
    /\ ppc \in PPlaces /\ task \in [Children -> TaskStates]
    /\ completions \subseteq [pos : Children, exit : {"ok", "nonzero"}]
    /\ terminal \in {"completed", "failed", "cancelled", "signal", "timeout"}
    /\ logged \subseteq Children /\ pending \in Seq(PEvent)
    /\ pinputs \subseteq {"cancel", "shutdown"} /\ pcrashes \in 0..MaxPCrashes

\* The log itself: completions are of children, and of processes that have been.
ErasInv == \A i \in Completed(plog) : plog[i].pos \in Children /\ plog[i].era \in 0..pcrashes

Earlier(i) == plog[i].era < pcrashes

\* Before the loop over the completions nothing on record is of this process.
RestInv ==
    /\ ppc \in {"idle", "prepare", "dead"} => task = NoTasks /\ completions = {} /\ terminal = "completed"
    /\ ppc \in {"idle", "prepare", "dead", "drain", "collect"} =>
          logged = {} /\ pending = << >> /\ \A i \in Completed(plog) : Earlier(i)

\* The tasks: those left out are on record, a kept one has its output among the completions, none is left
\* when the loop begins, and none was dropped unless something ended the step.
TasksInv ==
    /\ ppc \in Spawned => \A c \in Children : task[c] = "off" => c \in OnRecord
    /\ \A c \in Children : task[c] = "kept" <=> [pos |-> c, exit |-> "ok"] \in completions
    /\ \A o \in completions : task[o.pos] = IF o.exit = "ok" THEN "kept" ELSE "joined"
    /\ ppc \in {"log", "close", "returned"} => \A c \in Children : task[c] \in {"off", "joined", "kept"}
    /\ ppc \in {"drain", "log"} /\ terminal = "completed" => \A c \in Children : task[c] # "joined"
    /\ ppc = "drain" => terminal = "completed"
    /\ ppc = "collect" => terminal # "completed"
    /\ ppc \in {"drain", "collect"} => \A c \in Children : task[c] # "off" => c \notin OnRecord

\* c is about to be recorded.
Announced(c) == \E k \in DOMAIN pending : pending[k].ev = "step_completed" /\ pending[k].pos = c

\* c is on record as a child of this process.
Ours(c) == \E i \in Completed(plog) : plog[i].pos = c /\ plog[i].era = pcrashes

\* The loop: what it has come to is on record or about to be, what it has not is neither, and lies behind.
LoopInv ==
    /\ \A c \in logged : \E o \in completions : o.pos = c
    /\ \A o \in completions : o.exit = "ok" /\ o.pos \notin logged => o.pos \notin OnRecord
    /\ \A o \in completions : o.exit = "ok" /\ o.pos \in logged => Ours(o.pos) \/ Announced(o.pos)
    /\ \A c \in logged : \A o \in Unlogged : c < o.pos
    /\ \A i \in Completed(plog) : ~Earlier(i) => plog[i].pos \in logged
    /\ ppc \in {"close", "returned"} => Unlogged = {}

\* What is about to be appended: a child's completion is the newest of this process and not on record;
\* the container's says that all children are, and names the output of the last.
PendingInv ==
    \A k \in DOMAIN pending : pending[k].ev = "step_completed" =>
        /\ k = Len(pending)
        /\ pending[k].pos > 0 =>
              /\ ppc = "log" /\ pending[k].pos \in logged /\ pending[k].era = pcrashes
              /\ pending[k].pos \notin OnRecord /\ \A d \in logged : d <= pending[k].pos
        /\ pending[k].pos = 0 =>
              /\ ppc = "close" /\ OnRecord = Children
              /\ fork # << >> =>
                    \E j \in Completed(plog) : plog[j].pos = Len(fork) /\ plog[j].era = pending[k].era

ParallelInv ==
    /\ PTypes /\ ErasInv /\ RestInv /\ TasksInv /\ LoopInv /\ PendingInv
    /\ ChildOnce /\ CompleteMeansAll /\ DefinitionOrder /\ OutputOfLastChild

-----------------------------------------------------------------------------

\* The sort of the completions: the outcome taken next is one of them and has the least position.
LEMMA LeastOutcome ==
    ASSUME NEW S, S # {}, \A o \in S : o.pos \in Nat
    PROVE  Foremost(S) \in S /\ \A x \in S : Foremost(S).pos <= x.pos
<1>1. PICK k \in {o.pos : o \in S} : \A j \in {o.pos : o \in S} : k <= j
  BY LeastOne
<1>2. \E o \in S : \A x \in S : o.pos <= x.pos
  BY <1>1
<1> QED
  BY <1>2 DEF Foremost

\* The first of some places of a log.
LEMMA LeastIndex ==
    ASSUME NEW S, S \subseteq Nat, S # {}
    PROVE  (CHOOSE i \in S : \A j \in S : i <= j) \in S
BY LeastOne

-----------------------------------------------------------------------------

\* What one more event does to the completions on record.
LEMMA PLogGrows ==
  ASSUME NEW e \in PEvent, plog \in Seq(PEvent), plog' = Append(plog, e)
  PROVE  /\ plog' \in Seq(PEvent)
         /\ DOMAIN plog' = DOMAIN plog \cup {Len(plog) + 1} /\ Len(plog) + 1 \notin DOMAIN plog
         /\ \A i \in DOMAIN plog : plog'[i] = plog[i] /\ i < Len(plog) + 1
         /\ plog'[Len(plog) + 1] = e
         /\ ~(e.ev = "step_completed" /\ e.pos > 0) => Completed(plog') = Completed(plog) /\ OnRecord' = OnRecord
         /\ e.ev = "step_completed" /\ e.pos > 0 =>
               /\ Completed(plog') = Completed(plog) \cup {Len(plog) + 1}
               /\ OnRecord' = OnRecord \cup {e.pos}
<1>1. /\ plog' \in Seq(PEvent)
      /\ DOMAIN plog' = DOMAIN plog \cup {Len(plog) + 1} /\ Len(plog) + 1 \notin DOMAIN plog
      /\ \A i \in DOMAIN plog : plog'[i] = plog[i] /\ i < Len(plog) + 1
      /\ plog'[Len(plog) + 1] = e
  OBVIOUS
<1>2. Completed(plog) \subseteq DOMAIN plog
  BY DEF Completed
<1>3. ASSUME ~(e.ev = "step_completed" /\ e.pos > 0)
      PROVE  Completed(plog') = Completed(plog) /\ OnRecord' = OnRecord
  <2>1. Completed(plog') = Completed(plog)
    BY <1>1, <1>3 DEF Completed
  <2> QED
    BY <1>1, <1>2, <2>1 DEF OnRecord
<1>4. ASSUME e.ev = "step_completed", e.pos > 0
      PROVE  Completed(plog') = Completed(plog) \cup {Len(plog) + 1} /\ OnRecord' = OnRecord \cup {e.pos}
  <2>1. Completed(plog') = Completed(plog) \cup {Len(plog) + 1}
    BY <1>1, <1>4 DEF Completed
  <2> QED
    BY <1>1, <1>2, <2>1 DEF OnRecord
<1> QED
  BY <1>1, <1>3, <1>4

\* The fork is a sequence of child kinds, and its children are its positions.
LEMMA ForkIsSeq == fork \in Forks => fork \in Seq({"cmd", "agent", "chat", "gate"}) /\ Children = 1..Len(fork) /\ Len(fork) \in Nat
BY ParallelAssumption DEF Children

\* The types are kept.
LEMMA PTypesStep == PTypes /\ [ParallelNext]_parallelVars => PTypes'
<1> SUFFICES ASSUME PTypes, [ParallelNext]_parallelVars PROVE PTypes'
  OBVIOUS
<1> USE DEF PSame, plocals
<1>0. fork \in Seq({"cmd", "agent", "chat", "gate"}) /\ Children = 1..Len(fork) /\ Len(fork) \in Nat /\ pcrashes \in Nat
  BY ForkIsSeq, ParallelAssumption DEF PTypes
<1>1. CASE UNCHANGED parallelVars
  BY <1>1 DEF parallelVars, PTypes, Children
<1>2. CASE PDecided
  BY <1>2 DEF PDecided, PTypes, Children, PPlaces
<1>3. CASE PStart
  <2>1. OfContainer("step_started") \in PEvent
    BY DEF OfContainer, Record, PEvent, PNames
  <2> QED
    BY <1>3, <2>1 DEF PStart, PTypes, Children, PPlaces
<1>4. CASE EmptyFork \/ Refuse
  <2>1. Record("step_completed", 0, -1) \in PEvent /\ OfContainer("step_failed") \in PEvent
    BY DEF OfContainer, Record, PEvent, PNames
  <2>2. pending' \in Seq(PEvent)
    <3>1. <<Record("step_completed", 0, -1)>> \in Seq(PEvent) /\ <<OfContainer("step_failed")>> \in Seq(PEvent)
      BY <2>1
    <3> QED
      BY <1>4, <3>1 DEF EmptyFork, Refuse
  <2> QED
    BY <1>4, <2>2 DEF EmptyFork, Refuse, LeaveDrain, PTypes, Children, PPlaces
<1>5. CASE Spawn
  BY <1>5 DEF Spawn, PTypes, Children, PPlaces, TaskStates
<1>6. ASSUME NEW c \in Children, Join(c) \/ Collect(c)
      PROVE  PTypes'
  <2>1. Outcome(c) \subseteq [pos : Children, exit : {"ok", "nonzero"}]
    BY DEF Outcome
  <2>2. Joined(c) \in TaskStates /\ VerdictOf(task[c]) \in {"completed", "failed", "timeout"}
    BY DEF Joined, TaskStates, VerdictOf
  <2>3. \A t \in [Children -> TaskStates] : AbortAll(t) \in [Children -> TaskStates]
    BY DEF AbortAll, TaskStates
  <2>4. [task EXCEPT ![c] = Joined(c)] \in [Children -> TaskStates]
    BY <2>2 DEF PTypes
  <2>5. UNCHANGED <<fork, plog, prow, logged, pending, pinputs, pcrashes>> /\ Children' = Children
    BY <1>6 DEF Join, Collect, Children
  <2>6. completions' \subseteq [pos : Children, exit : {"ok", "nonzero"}]
    BY <1>6, <2>1 DEF Join, Collect, PTypes
  <2>7. task' \in [Children -> TaskStates]
    BY <1>6, <2>3, <2>4 DEF Join, Collect
  <2>8. ppc' \in PPlaces /\ terminal' \in {"completed", "failed", "cancelled", "signal", "timeout"}
    BY <1>6, <2>2 DEF Join, Collect, PTypes, PPlaces
  <2> QED
    BY <2>5, <2>6, <2>7, <2>8 DEF PTypes
<1>7. CASE DrainInterrupted \/ Drained
  BY <1>7 DEF DrainInterrupted, Drained, AbortAll, PTypes, Children, PPlaces, TaskStates
<1>8. CASE LogChild
  <2>1. Unlogged # {} /\ Unlogged \subseteq completions /\ \A o \in completions : o.pos \in Nat
    BY <1>8, <1>0 DEF LogChild, Unlogged, PTypes
  <2>2. Foremost(Unlogged) \in completions => EventsOf(Foremost(Unlogged)) \in Seq(PEvent)
    <3> SUFFICES ASSUME NEW o \in completions PROVE EventsOf(o) \in Seq(PEvent)
      OBVIOUS
    <3>1. o.pos \in Nat
      BY <2>1
    <3>2. \A n \in PNames : Record(n, o.pos, 0) \in PEvent /\ Record(n, o.pos, pcrashes) \in PEvent /\ OfContainer(n) \in PEvent
      BY <3>1, <1>0 DEF Record, OfContainer, PEvent
    <3> QED
      BY <3>2 DEF EventsOf, PNames
  <2> QED
    BY <1>8, <2>1, <2>2, LeastOutcome DEF LogChild, PTypes, Children
<1>9. CASE LogEnd
  <2>1. OutputEra \in Int
    <3>1. Completed(plog) \subseteq DOMAIN plog /\ \A i \in DOMAIN plog : plog[i].era \in Int
      <4>1. plog \in Seq(PEvent) /\ \A e \in PEvent : e.era \in Int
        BY DEF PTypes, PEvent
      <4>2. Completed(plog) \subseteq DOMAIN plog
        BY DEF Completed
      <4> QED
        BY <4>1, <4>2
    <3> DEFINE past == {i \in Completed(plog) : plog[i].pos = Len(fork)}
    <3>2. ASSUME past # {} PROVE (CHOOSE i \in past : \A j \in past : i <= j) \in past
      <4>1. past \subseteq Nat
        BY DEF Completed, PTypes
      <4> HIDE DEF past
      <4> QED
        BY <4>1, <3>2, LeastIndex
    <3>3. OutputEra = IF [pos |-> Len(fork), exit |-> "ok"] \in completions THEN pcrashes
                      ELSE IF past = {} THEN -1 ELSE plog[CHOOSE i \in past : \A j \in past : i <= j].era
      BY DEF OutputEra
    <3>4. past \subseteq Completed(plog)
      OBVIOUS
    <3> HIDE DEF past
    <3> QED
      BY <3>1, <3>2, <3>3, <3>4, <1>0
  <2>2. Record("step_completed", 0, OutputEra) \in PEvent /\ \A n \in PNames : OfContainer(n) \in PEvent
    BY <2>1 DEF OfContainer, Record, PEvent, PNames
  <2>3. TerminalEvents \in Seq(PEvent)
    BY <2>2 DEF TerminalEvents, PNames
  <2> QED
    BY <1>9, <2>3 DEF LogEnd, PTypes, Children, PPlaces
<1>10. CASE Emit
  <2>1. pending # << >> /\ Head(pending) \in PEvent /\ Tail(pending) \in Seq(PEvent)
    BY <1>10 DEF Emit, PTypes
  <2> QED
    BY <1>10, <2>1 DEF Emit, PTypes, Children
<1>11. CASE PFinalise
  BY <1>11 DEF PFinalise, PTypes, Children, PPlaces
<1>12. ASSUME NEW c \in Children, ChildAborted(c) \/ ChildEnds(c)
       PROVE  PTypes'
  <2>1. task' \in [Children -> TaskStates]
    BY <1>12 DEF ChildAborted, ChildEnds, PTypes, TaskStates
  <2> QED
    BY <1>12, <2>1 DEF ChildAborted, ChildEnds, PTypes, Children
<1>13. CASE PCrash
  <2>1. pcrashes' \in 0..MaxPCrashes
    BY <1>13, <1>0, ParallelAssumption DEF PCrash, PTypes
  <2> QED
    BY <1>13, <2>1 DEF PCrash, NoTasks, PTypes, Children, PPlaces, TaskStates
<1>14. CASE PLaunch
  BY <1>14 DEF PLaunch, PTypes, Children, PPlaces
<1>15. ASSUME NEW input \in {"cancel", "shutdown"}, PRaise(input)
       PROVE  PTypes'
  BY <1>15 DEF PRaise, PTypes, Children
<1>16. CASE ParallelDone
  BY <1>16, <1>1 DEF ParallelDone
<1> QED
  BY <1>1, <1>2, <1>3, <1>4, <1>5, <1>6, <1>7, <1>8, <1>9, <1>10, <1>11, <1>12, <1>13, <1>14, <1>15, <1>16
     DEF ParallelNext, ParallelRunner, AbortedTasks

\* The one action that puts a completion on record is Emit.
LEMMA RecordKept ==
  ASSUME PTypes, [ParallelNext]_parallelVars, ~Emit
  PROVE  /\ fork' = fork /\ Children' = Children /\ pcrashes' \in Nat /\ pcrashes \in Nat /\ pcrashes <= pcrashes'
         /\ Completed(plog') = Completed(plog) /\ OnRecord' = OnRecord
         /\ \A i \in DOMAIN plog : i \in DOMAIN plog' /\ plog'[i] = plog[i]
         /\ \A i \in DOMAIN plog' : plog'[i].ev = "step_completed" => i \in DOMAIN plog
<1> USE DEF PSame, plocals
<1>0. pcrashes \in Nat
  BY ParallelAssumption DEF PTypes
<1>1. CASE PStart
  <2>1. OfContainer("step_started") \in PEvent /\ OfContainer("step_started").ev = "step_started"
    BY DEF OfContainer, Record, PEvent, PNames
  <2>2. plog' = Append(plog, OfContainer("step_started")) /\ fork' = fork /\ pcrashes' = pcrashes
    BY <1>1 DEF PStart
  <2>3. plog \in Seq(PEvent)
    BY DEF PTypes
  <2> HIDE DEF PSame, plocals
  <2> QED
    BY <1>0, <2>1, <2>2, <2>3, PLogGrows DEF Children
<1>2. CASE ~PStart
  <2>1. UNCHANGED <<fork, plog>>
    BY <1>2 DEF ParallelNext, ParallelRunner, AbortedTasks, parallelVars, PDecided, EmptyFork, Refuse,
       Spawn, Join,
                Collect, DrainInterrupted, Drained, LogChild, LogEnd, PFinalise, ChildAborted, ChildEnds, PCrash,
                PLaunch, PRaise, ParallelDone
  <2>2. pcrashes' = pcrashes \/ pcrashes' = pcrashes + 1
    BY <1>2 DEF ParallelNext, ParallelRunner, AbortedTasks, parallelVars, PDecided, EmptyFork, Refuse,
       Spawn, Join,
                Collect, DrainInterrupted, Drained, LogChild, LogEnd, PFinalise, ChildAborted, ChildEnds, PCrash,
                PLaunch, PRaise, ParallelDone
  <2>3. pcrashes' \in Nat /\ pcrashes <= pcrashes'
    BY <1>0, <2>2
  <2> QED
    BY <1>0, <2>1, <2>3 DEF Children, Completed, OnRecord
<1> QED
  BY <1>1, <1>2

\* What Emit appends, and what is left to append.
LEMMA EmitIs ==
  ASSUME PTypes, Emit
  PROVE  /\ Head(pending) \in PEvent /\ Head(pending) = pending[1] /\ 1 \in DOMAIN pending
         /\ plog \in Seq(PEvent) /\ plog' = Append(plog, Head(pending))
         /\ UNCHANGED <<fork, prow, ppc, task, completions, terminal, logged, pinputs, pcrashes>> /\ Children' = Children
         /\ pcrashes \in Nat /\ ppc \in {"log", "close"}
         /\ Len(pending) \in Nat /\ Len(pending') = Len(pending) - 1
         /\ \A k \in DOMAIN pending' : k + 1 \in DOMAIN pending /\ pending'[k] = pending[k + 1]
         /\ \A k \in DOMAIN pending : k # 1 => k - 1 \in DOMAIN pending' /\ pending'[k - 1] = pending[k]
<1>1. pending \in Seq(PEvent) /\ pending # << >> /\ pending' = Tail(pending)
  BY DEF Emit, PTypes
<1>2. /\ Head(pending) \in PEvent /\ Head(pending) = pending[1] /\ 1 \in DOMAIN pending
      /\ Len(pending) \in Nat /\ Len(pending') = Len(pending) - 1
      /\ \A k \in DOMAIN pending' : k + 1 \in DOMAIN pending /\ pending'[k] = pending[k + 1]
      /\ \A k \in DOMAIN pending : k # 1 => k - 1 \in DOMAIN pending' /\ pending'[k - 1] = pending[k]
  BY <1>1
<1>3. /\ plog \in Seq(PEvent) /\ plog' = Append(plog, Head(pending)) /\ pcrashes \in Nat /\ ppc \in {"log", "close"}
      /\ UNCHANGED <<fork, prow, ppc, task, completions, terminal, logged, pinputs, pcrashes>> /\ Children' = Children
  BY ParallelAssumption DEF Emit, PTypes, PSame, Children
<1> QED
  BY <1>2, <1>3

\* The properties of the log are kept.
LEMMA RecordStep ==
  ASSUME ParallelInv, [ParallelNext]_parallelVars
  PROVE  ErasInv' /\ ChildOnce' /\ CompleteMeansAll' /\ DefinitionOrder' /\ OutputOfLastChild'
<1> USE DEF ParallelInv
<1>1. CASE ~Emit
  <2>1. /\ fork' = fork /\ Children' = Children /\ pcrashes' \in Nat /\ pcrashes \in Nat /\ pcrashes <= pcrashes'
        /\ Completed(plog') = Completed(plog) /\ OnRecord' = OnRecord
        /\ \A i \in DOMAIN plog : i \in DOMAIN plog' /\ plog'[i] = plog[i]
        /\ \A i \in DOMAIN plog' : plog'[i].ev = "step_completed" => i \in DOMAIN plog
    BY <1>1, RecordKept
  <2>2. Completed(plog) \subseteq DOMAIN plog
    BY DEF Completed
  <2>3. ErasInv'
    BY <2>1, <2>2 DEF ErasInv
  <2>4. ChildOnce'
    BY <2>1, <2>2 DEF ChildOnce
  <2>5. DefinitionOrder'
    BY <2>1, <2>2 DEF DefinitionOrder
  <2>6. CompleteMeansAll'
    BY <2>1 DEF CompleteMeansAll, HasCompleted
  <2>7. OutputOfLastChild'
    BY <2>1, <2>2 DEF OutputOfLastChild
  <2> QED
    BY <2>3, <2>4, <2>5, <2>6, <2>7
<1>2. CASE Emit
  <2> DEFINE e == Head(pending)
             n == Len(plog) + 1
  <2>1. /\ e \in PEvent /\ e = pending[1] /\ 1 \in DOMAIN pending /\ plog \in Seq(PEvent) /\ plog' = Append(plog, e)
        /\ UNCHANGED <<fork, logged, pcrashes>> /\ Children' = Children /\ pcrashes \in Nat
    BY <1>2, EmitIs
  <2>2. /\ DOMAIN plog' = DOMAIN plog \cup {n} /\ n \notin DOMAIN plog
        /\ \A i \in DOMAIN plog : plog'[i] = plog[i] /\ i < n
        /\ plog'[n] = e
        /\ ~(e.ev = "step_completed" /\ e.pos > 0) => Completed(plog') = Completed(plog) /\ OnRecord' = OnRecord
        /\ e.ev = "step_completed" /\ e.pos > 0 =>
              Completed(plog') = Completed(plog) \cup {n} /\ OnRecord' = OnRecord \cup {e.pos}
    BY <2>1, PLogGrows
  <2>3. e.ev = "step_completed" =>
          /\ e.pos > 0 =>
                /\ e.pos \in logged /\ e.era = pcrashes
                /\ e.pos \notin OnRecord /\ \A d \in logged : d <= e.pos
          /\ e.pos = 0 =>
                /\ OnRecord = Children
                /\ fork # << >> => \E j \in Completed(plog) : plog[j].pos = Len(fork) /\ plog[j].era = e.era
    BY <2>1 DEF PendingInv
  <2>4. Completed(plog) \subseteq DOMAIN plog /\ e.pos \in Nat /\ n \in Int /\ DOMAIN plog \subseteq Int
    BY <2>1 DEF Completed, PEvent
  <2>5. /\ \A i \in Completed(plog) : ~Earlier(i) => plog[i].pos \in logged
        /\ logged \subseteq Children /\ Children \subseteq Nat
    BY ForkIsSeq DEF LoopInv, PTypes
  <2>6. \A i \in Completed(plog) : plog[i].pos \in OnRecord /\ plog[i].pos \in Nat /\ plog[i].era \in Int
    <3>1. \A i \in Completed(plog) : plog[i].pos \in OnRecord
      BY DEF OnRecord
    <3>2. \A i \in Completed(plog) : plog[i].pos \in Children /\ plog[i].era \in 0..pcrashes
      BY DEF ErasInv
    <3>3. (\A x \in 0..pcrashes : x \in Int) /\ Children \subseteq Nat
      BY <2>5
    <3> HIDE DEF ParallelInv
    <3> QED
      BY <3>1, <3>2, <3>3
  <2> HIDE DEF e, n
  <2>7. CASE e.ev = "step_completed" /\ e.pos > 0
    <3>1. /\ Completed(plog') = Completed(plog) \cup {n} /\ OnRecord' = OnRecord \cup {e.pos}
          /\ e.pos \in logged /\ e.era = pcrashes /\ e.pos \notin OnRecord /\ \A d \in logged : d <= e.pos
      BY <2>2, <2>3, <2>7
    <3>2. ErasInv'
      BY <2>1, <2>2, <2>4, <2>5, <3>1 DEF ErasInv
    <3>3. ChildOnce'
      BY <2>2, <2>4, <2>6, <3>1 DEF ChildOnce
    <3>4. DefinitionOrder'
      <4> SUFFICES ASSUME NEW i \in Completed(plog'), NEW j \in Completed(plog'), i < j, plog'[i].era = plog'[j].era
                   PROVE  plog'[i].pos < plog'[j].pos
        BY DEF DefinitionOrder
      <4>1. i \in Completed(plog) /\ plog'[i] = plog[i]
        BY <2>2, <2>4, <3>1
      <4>2. CASE j \in Completed(plog)
        BY <4>1, <4>2, <2>2, <2>4 DEF DefinitionOrder
      <4>3. CASE j = n
        <5>1. plog[i].era = pcrashes
          BY <4>1, <4>3, <2>2, <3>1
        <5>2. plog[i].pos \in logged /\ plog[i].pos # e.pos
          BY <4>1, <5>1, <2>1, <2>5, <2>6, <3>1 DEF Earlier
        <5>3. plog[i].pos <= e.pos /\ plog[i].pos \in Nat
          BY <5>2, <3>1, <2>6, <4>1
        <5> QED
          BY <5>2, <5>3, <4>1, <4>3, <2>2, <2>4
      <4> QED
        BY <4>2, <4>3, <3>1
    <3>5. CompleteMeansAll'
      <4>1. HasCompleted(plog') => HasCompleted(plog)
        BY <2>2, <2>7 DEF HasCompleted
      <4>2. e.pos \in Children
        BY <3>1, <2>5
      <4> QED
        BY <4>1, <4>2, <3>1, <2>1 DEF CompleteMeansAll
    <3>6. OutputOfLastChild'
      BY <2>1, <2>2, <2>4, <2>7, <3>1 DEF OutputOfLastChild
    <3> QED
      BY <3>2, <3>3, <3>4, <3>5, <3>6
  <2>8. CASE ~(e.ev = "step_completed" /\ e.pos > 0)
    <3>1. Completed(plog') = Completed(plog) /\ OnRecord' = OnRecord
      BY <2>2, <2>8
    <3>2. ErasInv' /\ ChildOnce' /\ DefinitionOrder'
      BY <2>1, <2>2, <2>4, <3>1 DEF ErasInv, ChildOnce, DefinitionOrder
    <3>3. e.ev = "step_completed" => /\ OnRecord = Children
                                     /\ fork # << >> => \E j \in Completed(plog) : plog[j].pos = Len(fork) /\ plog[j].era = e.era
      BY <2>3, <2>4, <2>8
    <3>4. CompleteMeansAll'
      BY <2>1, <2>2, <3>1, <3>3 DEF CompleteMeansAll, HasCompleted
    <3>5. OutputOfLastChild'
      BY <2>1, <2>2, <2>4, <3>1, <3>3 DEF OutputOfLastChild
    <3> QED
      BY <3>2, <3>4, <3>5
  <2> QED
    BY <2>7, <2>8
<1> QED
  BY <1>1, <1>2

\* Until the loop begins nothing is logged.
LEMMA RestStep ==
  ASSUME ParallelInv, [ParallelNext]_parallelVars
  PROVE  RestInv'
<1> USE DEF ParallelInv, PSame, plocals
<1>1. CASE Emit
  <2>1. ppc' \in {"log", "close"}
    BY <1>1, EmitIs
  <2> QED
    BY <2>1 DEF RestInv
<1>2. CASE ~Emit
  <2>1. /\ fork' = fork /\ Children' = Children /\ pcrashes' \in Nat /\ pcrashes \in Nat /\ pcrashes <= pcrashes'
        /\ Completed(plog') = Completed(plog)
        /\ \A i \in Completed(plog) : plog'[i] = plog[i] /\ plog[i].era \in 0..pcrashes
    BY <1>2, RecordKept DEF Completed, ErasInv
  <2>2. (\A i \in Completed(plog) : Earlier(i)) => (\A i \in Completed(plog) : Earlier(i))'
    BY <2>1 DEF Earlier
  <2>3. CASE PCrash
    <3>1. (\A i \in Completed(plog) : Earlier(i))'
      BY <2>1, <2>3 DEF Earlier, PCrash
    <3> QED
      BY <2>1, <2>3, <3>1 DEF PCrash, RestInv, NoTasks
  <2>4. CASE ~PCrash
    <3>1. CASE ppc' \in {"idle", "prepare", "dead"}
      <4>1. /\ ppc \in {"idle", "prepare", "dead"}
            /\ UNCHANGED <<task, completions, terminal, logged, pending>>
        BY <3>1, <1>2, <2>4 DEF ParallelNext, ParallelRunner, AbortedTasks, parallelVars, PDecided, PStart,
           EmptyFork,
              Refuse, LeaveDrain, Spawn, Join, Collect, DrainInterrupted, Drained, LogChild, LogEnd, PFinalise,
              ChildAborted, ChildEnds, PLaunch, PRaise, ParallelDone, RestInv, NoTasks
      <4> QED
        BY <4>1, <2>1, <2>2, <3>1 DEF RestInv, NoTasks
    <3>2. CASE ppc' \in {"drain", "collect"}
      <4>1. ppc \in {"prepare", "drain", "collect"} /\ UNCHANGED <<logged, pending>>
        BY <3>2, <1>2, <2>4 DEF ParallelNext, ParallelRunner, AbortedTasks, parallelVars, PDecided, PStart,
           EmptyFork,
              Refuse, LeaveDrain, Spawn, Join, Collect, DrainInterrupted, Drained, LogChild, LogEnd, PFinalise,
              ChildAborted, ChildEnds, PLaunch, PRaise, ParallelDone
      <4> QED
        BY <4>1, <2>2, <3>2 DEF RestInv
    <3> QED
      BY <3>1, <3>2 DEF RestInv
  <2> QED
    BY <2>3, <2>4
<1> QED
  BY <1>1, <1>2

\* The tasks stay accounted for.
LEMMA TasksStep ==
  ASSUME ParallelInv, [ParallelNext]_parallelVars
  PROVE  TasksInv'
<1> USE DEF ParallelInv
<1>0. /\ task \in [Children -> TaskStates] /\ completions \subseteq [pos : Children, exit : {"ok", "nonzero"}]
      /\ ppc \in PPlaces
  BY DEF PTypes
<1>1. CASE Emit
  <2>1. /\ Head(pending) \in PEvent /\ plog \in Seq(PEvent) /\ plog' = Append(plog, Head(pending))
        /\ UNCHANGED <<ppc, task, completions, terminal>> /\ Children' = Children /\ ppc \in {"log", "close"}
    BY <1>1, EmitIs
  <2>2. OnRecord \subseteq OnRecord'
    BY <2>1, PLogGrows
  <2> QED
    BY <2>1, <2>2 DEF TasksInv, Spawned
<1>2. CASE ~Emit
  <2>0. OnRecord' = OnRecord /\ Children' = Children /\ fork' = fork
    BY <1>2, RecordKept
  <2>1. CASE UNCHANGED <<ppc, task, completions, terminal>>
    BY <2>0, <2>1 DEF TasksInv, Spawned
  <2>2. CASE PDecided \/ PStart \/ EmptyFork \/ Refuse \/ PLaunch
    <3>1. /\ UNCHANGED <<task, completions>> /\ ppc' \in {"returned", "prepare", "close", "idle"}
          /\ ppc \in {"idle", "prepare", "dead"}
      BY <2>2 DEF PDecided, PStart, EmptyFork, Refuse, LeaveDrain, PLaunch, plocals
    <3>2. task = NoTasks /\ completions = {}
      BY <3>1 DEF RestInv
    <3> QED
      BY <3>1, <3>2, <2>0 DEF TasksInv, Spawned, NoTasks
  <2>3. CASE Spawn
    <3>1. /\ ppc' = "drain" /\ UNCHANGED <<completions, terminal>> /\ completions = {} /\ terminal = "completed"
          /\ task' = [c \in Children |-> IF c \in OnRecord THEN "off" ELSE "running"]
      BY <2>3 DEF Spawn, RestInv, AlreadyCompleted, OnRecord
    <3> QED
      BY <3>1, <2>0 DEF TasksInv, Spawned
  <2>4. ASSUME NEW c \in Children, Join(c) PROVE TasksInv'
    <3> DEFINE t == [task EXCEPT ![c] = Joined(c)]
    <3>1. /\ ppc = "drain" /\ task[c] \in {"ok", "nonzero", "error", "timeout"}
          /\ completions' = completions \cup Outcome(c) /\ terminal' = VerdictOf(task[c])
          /\ task' = IF terminal' = "completed" THEN t ELSE AbortAll(t)
          /\ ppc' = IF terminal' = "completed" THEN "drain" ELSE "collect"
      BY <2>4 DEF Join, Finished
    <3>2. /\ \A d \in Children : task'[d] = "kept" <=> (IF d = c THEN task[c] = "ok" ELSE task[d] = "kept")
          /\ \A d \in Children : task'[d] = "off" <=> (d # c /\ task[d] = "off")
          /\ \A d \in Children : task'[d] = "joined" <=> (IF d = c THEN task[c] # "ok" ELSE task[d] = "joined")
      BY <1>0, <3>1 DEF Joined, AbortAll
    <3>3. Outcome(c) = IF task[c] \in {"ok", "nonzero"} THEN {[pos |-> c, exit |-> task[c]]} ELSE {}
      BY DEF Outcome
    <3>4. terminal' = "completed" <=> task[c] = "ok"
      BY <3>1 DEF VerdictOf
    <3>5. \A d \in Children : task'[d] = "kept" <=> [pos |-> d, exit |-> "ok"] \in completions'
      <4> SUFFICES ASSUME NEW d \in Children PROVE task'[d] = "kept" <=> [pos |-> d, exit |-> "ok"] \in completions'
        OBVIOUS
      <4>1. task[d] = "kept" <=> [pos |-> d, exit |-> "ok"] \in completions
        BY DEF TasksInv
      <4>2. [pos |-> d, exit |-> "ok"] \in Outcome(c) <=> (d = c /\ task[c] = "ok")
        BY <3>3
      <4> QED
        BY <4>1, <4>2, <3>1, <3>2
    <3>6. \A o \in completions' : task'[o.pos] = IF o.exit = "ok" THEN "kept" ELSE "joined"
      <4> SUFFICES ASSUME NEW o \in completions' PROVE task'[o.pos] = IF o.exit = "ok" THEN "kept" ELSE "joined"
        OBVIOUS
      <4>1. o \in completions => /\ o.pos \in Children /\ o.pos # c
                                 /\ task[o.pos] = IF o.exit = "ok" THEN "kept" ELSE "joined"
        BY <1>0, <3>1 DEF TasksInv
      <4>2. o \in Outcome(c) => o.pos = c /\ o.exit = task[c]
        BY <3>3
      <4> QED
        BY <4>1, <4>2, <3>1, <3>2
    <3> HIDE DEF t
    <3> QED
      BY <3>1, <3>2, <3>4, <3>5, <3>6, <2>0 DEF TasksInv, Spawned
  <2>5. ASSUME NEW c \in Children, Collect(c) PROVE TasksInv'
    <3>1. /\ ppc = "collect" /\ task[c] \in {"ok", "nonzero", "error", "timeout", "aborted"}
          /\ completions' = completions \cup Outcome(c) /\ UNCHANGED <<ppc, terminal>>
          /\ task' = [task EXCEPT ![c] = Joined(c)]
      BY <2>5 DEF Collect, Finished
    <3>2. /\ \A d \in Children : task'[d] = "kept" <=> (IF d = c THEN task[c] = "ok" ELSE task[d] = "kept")
          /\ \A d \in Children : task'[d] = "off" <=> (d # c /\ task[d] = "off")
          /\ \A d \in Children : task'[d] = "joined" <=> (IF d = c THEN task[c] # "ok" ELSE task[d] = "joined")
      BY <1>0, <3>1 DEF Joined
    <3>3. Outcome(c) = IF task[c] \in {"ok", "nonzero"} THEN {[pos |-> c, exit |-> task[c]]} ELSE {}
      BY DEF Outcome
    <3>5. \A d \in Children : task'[d] = "kept" <=> [pos |-> d, exit |-> "ok"] \in completions'
      <4> SUFFICES ASSUME NEW d \in Children PROVE task'[d] = "kept" <=> [pos |-> d, exit |-> "ok"] \in completions'
        OBVIOUS
      <4>1. task[d] = "kept" <=> [pos |-> d, exit |-> "ok"] \in completions
        BY DEF TasksInv
      <4>2. [pos |-> d, exit |-> "ok"] \in Outcome(c) <=> (d = c /\ task[c] = "ok")
        BY <3>3
      <4> QED
        BY <4>1, <4>2, <3>1, <3>2
    <3>6. \A o \in completions' : task'[o.pos] = IF o.exit = "ok" THEN "kept" ELSE "joined"
      <4> SUFFICES ASSUME NEW o \in completions' PROVE task'[o.pos] = IF o.exit = "ok" THEN "kept" ELSE "joined"
        OBVIOUS
      <4>1. o \in completions => /\ o.pos \in Children /\ o.pos # c
                                 /\ task[o.pos] = IF o.exit = "ok" THEN "kept" ELSE "joined"
        BY <1>0, <3>1 DEF TasksInv
      <4>2. o \in Outcome(c) => o.pos = c /\ o.exit = task[c]
        BY <3>3
      <4> QED
        BY <4>1, <4>2, <3>1, <3>2
    <3> QED
      BY <3>1, <3>2, <3>5, <3>6, <2>0 DEF TasksInv, Spawned
  <2>6. CASE DrainInterrupted
    <3>1. /\ ppc = "drain" /\ ppc' = "collect" /\ task' = AbortAll(task) /\ UNCHANGED completions
          /\ terminal' \in {"cancelled", "signal"}
      BY <2>6 DEF DrainInterrupted
    <3>2. \A d \in Children : \A s \in {"kept", "off", "joined"} : task'[d] = s <=> task[d] = s
      BY <1>0, <3>1 DEF AbortAll
    <3>3. \A o \in completions : o.pos \in Children
      BY <1>0
    <3> QED
      BY <3>1, <3>2, <3>3, <2>0 DEF TasksInv, Spawned
  <2>7. CASE Drained
    <3>1. /\ ppc \in {"drain", "collect"} /\ Unjoined = {} /\ ppc' = "log" /\ UNCHANGED <<task, completions, terminal>>
      BY <2>7 DEF Drained, plocals
    <3>2. \A c \in Children : task[c] \in {"off", "joined", "kept"}
      BY <3>1 DEF Unjoined
    <3> QED
      BY <3>1, <3>2, <2>0 DEF TasksInv, Spawned
  <2>8. CASE LogChild \/ LogEnd \/ PFinalise
    <3>1. /\ ppc \in {"log", "close"} /\ ppc' \in {"log", "close", "returned"} /\ (ppc' = "log" => ppc = "log")
          /\ UNCHANGED <<task, completions, terminal>>
      BY <2>8 DEF LogChild, LogEnd, PFinalise, plocals
    <3> QED
      BY <3>1, <2>0 DEF TasksInv, Spawned
  <2>9. ASSUME NEW c \in Children, ChildAborted(c) \/ ChildEnds(c) PROVE TasksInv'
    <3>1. /\ task[c] \in {"running", "aborting"} /\ UNCHANGED <<ppc, completions, terminal>>
          /\ \E r \in {"ok", "error", "timeout", "nonzero", "aborted"} : task' = [task EXCEPT ![c] = r]
      BY <2>9 DEF ChildAborted, ChildEnds
    <3>2. \A d \in Children : \A s \in {"kept", "off", "joined"} : task'[d] = s <=> task[d] = s
      BY <1>0, <3>1
    <3>3. \A o \in completions : o.pos \in Children
      BY <1>0
    <3> QED
      BY <3>1, <3>2, <3>3, <2>0 DEF TasksInv, Spawned
  <2>10. CASE PCrash
    BY <2>10, <2>0 DEF PCrash, NoTasks, TasksInv, Spawned
  <2>11. CASE ParallelDone \/ UNCHANGED parallelVars \/ \E input \in {"cancel", "shutdown"} : PRaise(input)
    BY <2>11, <2>1 DEF ParallelDone, PRaise, parallelVars, plocals
  <2> QED
    BY <1>2, <2>2, <2>3, <2>4, <2>5, <2>6, <2>7, <2>8, <2>9, <2>10, <2>11
       DEF ParallelNext, ParallelRunner, AbortedTasks
<1> QED
  BY <1>1, <1>2

\* The loop over the completions logs each once, by position.
LEMMA LoopStep ==
  ASSUME ParallelInv, [ParallelNext]_parallelVars
  PROVE  LoopInv'
<1> USE DEF ParallelInv
<1>0. /\ completions \subseteq [pos : Children, exit : {"ok", "nonzero"}] /\ logged \subseteq Children
      /\ Children \subseteq Nat /\ \A o \in completions : o.pos \in Nat
  BY ForkIsSeq DEF PTypes
<1>1. CASE Emit
  <2> DEFINE e == Head(pending)
             n == Len(plog) + 1
  <2>1. /\ e \in PEvent /\ e = pending[1] /\ 1 \in DOMAIN pending /\ plog \in Seq(PEvent) /\ plog' = Append(plog, e)
        /\ UNCHANGED <<ppc, completions, logged, pcrashes>>
        /\ \A k \in DOMAIN pending : k # 1 => k - 1 \in DOMAIN pending' /\ pending'[k - 1] = pending[k]
    BY <1>1, EmitIs
  <2>2. /\ \A i \in DOMAIN plog : plog'[i] = plog[i]
        /\ plog'[n] = e
        /\ ~(e.ev = "step_completed" /\ e.pos > 0) => Completed(plog') = Completed(plog) /\ OnRecord' = OnRecord
        /\ e.ev = "step_completed" /\ e.pos > 0 =>
              Completed(plog') = Completed(plog) \cup {n} /\ OnRecord' = OnRecord \cup {e.pos}
    BY <2>1, PLogGrows
  <2>3. e.ev = "step_completed" /\ e.pos > 0 => e.pos \in logged /\ e.era = pcrashes
    BY <2>1 DEF PendingInv
  <2>4. Completed(plog) \subseteq DOMAIN plog /\ Unlogged' = Unlogged
    BY <2>1 DEF Completed, Unlogged
  <2> HIDE DEF e, n
  <2>5. \A o \in completions : o.exit = "ok" /\ o.pos \in logged => Ours(o.pos)' \/ Announced(o.pos)'
    <3> SUFFICES ASSUME NEW o \in completions, o.exit = "ok", o.pos \in logged, ~Ours(o.pos)'
                 PROVE  Announced(o.pos)'
      OBVIOUS
    <3>0. o.pos > 0
      BY <1>0, ForkIsSeq DEF PTypes
    <3>4. Completed(plog) \subseteq Completed(plog') /\ \A i \in Completed(plog) : plog'[i] = plog[i]
      BY <2>2, <2>4
    <3>1. ~Ours(o.pos)
      BY <2>1, <3>4 DEF Ours
    <3>2. PICK k \in DOMAIN pending : pending[k].ev = "step_completed" /\ pending[k].pos = o.pos
      BY <3>1 DEF LoopInv, Announced
    <3>3. k # 1
      <4> SUFFICES ASSUME k = 1 PROVE FALSE
        OBVIOUS
      <4>1. e.ev = "step_completed" /\ e.pos = o.pos
        BY <3>2, <2>1
      <4>2. n \in Completed(plog') /\ plog'[n].pos = o.pos /\ plog'[n].era = pcrashes'
        BY <4>1, <3>0, <2>1, <2>2, <2>3
      <4> QED
        BY <4>2 DEF Ours
    <3> QED
      BY <3>2, <3>3, <2>1 DEF Announced
  <2>6. \A i \in Completed(plog') : ~Earlier(i)' => plog'[i].pos \in logged
    BY <2>1, <2>2, <2>3, <2>4 DEF LoopInv, Earlier
  <2>7. \A o \in completions : o.exit = "ok" /\ o.pos \notin logged => o.pos \notin OnRecord'
    BY <2>2, <2>3 DEF LoopInv
  <2> QED
    BY <2>1, <2>4, <2>5, <2>6, <2>7 DEF LoopInv
<1>2. CASE ~Emit
  <2>0. /\ OnRecord' = OnRecord /\ Children' = Children /\ fork' = fork /\ Completed(plog') = Completed(plog)
        /\ \A i \in Completed(plog) : plog'[i] = plog[i]
        /\ pcrashes' \in Nat /\ pcrashes \in Nat /\ pcrashes <= pcrashes'
        /\ \A i \in Completed(plog) : plog[i].era \in 0..pcrashes
    BY <1>2, RecordKept DEF Completed, ErasInv
  <2>1. \A i \in Completed(plog') : Earlier(i) => Earlier(i)'
    BY <2>0 DEF Earlier
  <2>12. pcrashes' = pcrashes => \A c \in Children : Ours(c) => Ours(c)'
    BY <2>0 DEF Ours
  <2>13. \A o \in completions : o.pos \in Children
    BY <1>0
  <2>2. CASE UNCHANGED <<ppc, completions, logged, pending, pcrashes>>
    BY <2>0, <2>1, <2>2, <2>12, <2>13 DEF LoopInv, Unlogged, Announced
  <2>3. CASE PDecided \/ PStart \/ EmptyFork \/ Refuse \/ PLaunch \/ Spawn
    <3>1. UNCHANGED <<completions, logged>> /\ ppc \in {"idle", "prepare", "dead"}
      BY <2>3 DEF PDecided, PStart, EmptyFork, Refuse, LeaveDrain, PLaunch, Spawn, plocals
    <3>2. completions = {} /\ logged = {} /\ \A i \in Completed(plog) : Earlier(i)
      BY <3>1 DEF RestInv
    <3> QED
      BY <3>1, <3>2, <2>0, <2>1 DEF LoopInv, Unlogged
  <2>4. ASSUME NEW c \in Children, Join(c) \/ Collect(c) PROVE LoopInv'
    <3>1. /\ ppc \in {"drain", "collect"} /\ ppc' \in {"drain", "collect"} /\ task[c] # "off"
          /\ completions' = completions \cup Outcome(c) /\ UNCHANGED logged
      BY <2>4 DEF Join, Collect, Finished
    <3>2. logged = {} /\ (\A i \in Completed(plog) : Earlier(i)) /\ c \notin OnRecord
      BY <3>1 DEF RestInv, TasksInv
    <3>3. \A o \in Outcome(c) : o.pos = c
      BY DEF Outcome
    <3> QED
      BY <3>1, <3>2, <3>3, <2>0, <2>1 DEF LoopInv, Unlogged
  <2>5. CASE DrainInterrupted \/ Drained
    <3>1. UNCHANGED <<completions, logged, pending, pcrashes>> /\ ppc' \in {"collect", "log"}
      BY <2>5 DEF DrainInterrupted, Drained, plocals, PSame
    <3> QED
      BY <3>1, <2>0, <2>1, <2>12, <2>13 DEF LoopInv, Unlogged, Announced
  <2>6. CASE LogChild
    <3>0. PICK o : o = Foremost(Unlogged)
      OBVIOUS
    <3>1. /\ ppc = "log" /\ pending = << >> /\ Unlogged # {} /\ pending' = EventsOf(o) /\ logged' = logged \cup {o.pos}
          /\ UNCHANGED <<completions, ppc, pcrashes>>
      BY <2>6, <3>0 DEF LogChild, PSame
    <3>2. o \in Unlogged /\ \A x \in Unlogged : o.pos <= x.pos
      BY <3>0, <3>1, <1>0, LeastOutcome DEF Unlogged
    <3>3. o \in completions /\ o.pos \notin logged /\ o.pos \in Nat
      BY <3>2, <1>0 DEF Unlogged
    <3>4. \A x \in completions : x.pos = o.pos => x.exit = o.exit
      BY <3>3, <1>0 DEF TasksInv
    <3>5. o.exit = "ok" => Announced(o.pos)'
      <4> SUFFICES ASSUME o.exit = "ok" PROVE Announced(o.pos)'
        OBVIOUS
      <4>1. CASE fork[o.pos] = "chat"
        <5>1. pending' = <<Record("step_started", o.pos, 0), Record("chat_user", o.pos, 0),
                           Record("chat_assistant", o.pos, 0), Record("step_completed", o.pos, pcrashes)>>
          BY <3>1, <4>1 DEF EventsOf
        <5>2. 4 \in DOMAIN pending' /\ pending'[4] = Record("step_completed", o.pos, pcrashes)
          BY <5>1
        <5> QED
          BY <5>2 DEF Announced, Record
      <4>2. CASE fork[o.pos] # "chat"
        <5>1. pending' = <<Record("step_started", o.pos, 0), Record("step_completed", o.pos, pcrashes)>>
          BY <3>1, <4>2 DEF EventsOf
        <5>2. 2 \in DOMAIN pending' /\ pending'[2] = Record("step_completed", o.pos, pcrashes)
          BY <5>1
        <5> QED
          BY <5>2 DEF Announced, Record
      <4> QED
        BY <4>1, <4>2
    <3>6. \A x \in completions : x.exit = "ok" /\ x.pos \in logged => Ours(x.pos)'
      BY <3>1, <2>12, <2>13 DEF LoopInv, Announced
    <3>7. \A x \in completions : x.exit = "ok" /\ x.pos \in logged' => Ours(x.pos)' \/ Announced(x.pos)'
      <4> SUFFICES ASSUME NEW x \in completions, x.exit = "ok", x.pos \in logged'
                   PROVE  Ours(x.pos)' \/ Announced(x.pos)'
        OBVIOUS
      <4>1. CASE x.pos \in logged
        BY <4>1, <3>6
      <4>2. CASE x.pos = o.pos
        BY <4>2, <3>4, <3>5
      <4> QED
        BY <4>1, <4>2, <3>1
    <3>8. \A c \in logged' : \A x \in Unlogged' : c < x.pos
      <4> SUFFICES ASSUME NEW c \in logged', NEW x \in Unlogged' PROVE c < x.pos
        OBVIOUS
      <4>1. x \in Unlogged /\ x.pos # o.pos /\ x.pos \in Nat /\ o.pos <= x.pos
        BY <3>1, <3>2, <1>0 DEF Unlogged
      <4>2. c \in logged => c < x.pos
        BY <4>1 DEF LoopInv
      <4> QED
        BY <4>1, <4>2, <3>1, <3>3
    <3>9. \A c \in logged' : \E x \in completions : x.pos = c
      BY <3>1, <3>3 DEF LoopInv
    <3>10. \A x \in completions : x.exit = "ok" /\ x.pos \notin logged' => x.pos \notin OnRecord
      BY <3>1 DEF LoopInv
    <3>11. \A i \in Completed(plog) : ~Earlier(i)' => plog'[i].pos \in logged'
      BY <3>1, <2>0, <2>1 DEF LoopInv
    <3> QED
      BY <3>1, <3>7, <3>8, <3>9, <3>10, <3>11, <2>0 DEF LoopInv
  <2>7. CASE LogEnd
    <3>1. /\ pending = << >> /\ Unlogged = {} /\ UNCHANGED <<completions, logged, pcrashes>>
      BY <2>7 DEF LogEnd, PSame
    <3>2. \A x \in completions : x.exit = "ok" /\ x.pos \in logged => Ours(x.pos)'
      BY <3>1, <2>12, <2>13 DEF LoopInv, Announced
    <3> QED
      BY <3>1, <3>2, <2>0, <2>1 DEF LoopInv, Unlogged
  <2>8. CASE PFinalise
    <3>1. UNCHANGED <<completions, logged, pending, pcrashes>> /\ ppc = "close" /\ ppc' = "returned"
      BY <2>8 DEF PFinalise, plocals, PSame
    <3> QED
      BY <3>1, <2>0, <2>1, <2>12, <2>13 DEF LoopInv, Unlogged, Announced
  <2>9. CASE PCrash
    <3>1. ppc' = "dead" /\ completions' = {} /\ logged' = {} /\ pcrashes' = pcrashes + 1
      BY <2>9 DEF PCrash
    <3>2. \A i \in Completed(plog') : Earlier(i)'
      BY <3>1, <2>0 DEF Earlier
    <3> QED
      BY <3>1, <3>2 DEF LoopInv, Unlogged
  <2>10. ASSUME NEW c \in Children, ChildAborted(c) \/ ChildEnds(c) PROVE LoopInv'
    BY <2>10, <2>2 DEF ChildAborted, ChildEnds, PSame
  <2>11. CASE ParallelDone \/ UNCHANGED parallelVars \/ \E input \in {"cancel", "shutdown"} : PRaise(input)
    BY <2>11, <2>2 DEF ParallelDone, PRaise, parallelVars, plocals
  <2> QED
    BY <1>2, <2>3, <2>4, <2>5, <2>6, <2>7, <2>8, <2>9, <2>10, <2>11 DEF ParallelNext, ParallelRunner,
       AbortedTasks
<1> QED
  BY <1>1, <1>2

\* What is about to be appended fits the record.
LEMMA PendingStep ==
  ASSUME ParallelInv, [ParallelNext]_parallelVars
  PROVE  PendingInv'
<1> USE DEF ParallelInv
<1>0. /\ completions \subseteq [pos : Children, exit : {"ok", "nonzero"}] /\ logged \subseteq Children
      /\ Children = 1..Len(fork) /\ Len(fork) \in Nat /\ \A o \in completions : o.pos \in Nat /\ o.pos > 0
      /\ fork \in Seq({"cmd", "agent", "chat", "gate"})
  BY ForkIsSeq DEF PTypes
<1>1. CASE Emit
  <2> DEFINE e == Head(pending)
  <2>1. /\ e \in PEvent /\ e = pending[1] /\ 1 \in DOMAIN pending /\ plog \in Seq(PEvent) /\ plog' = Append(plog, e)
        /\ UNCHANGED <<fork, ppc, logged, pcrashes>> /\ Len(pending) \in Nat /\ Len(pending') = Len(pending) - 1
        /\ \A k \in DOMAIN pending' : k + 1 \in DOMAIN pending /\ pending'[k] = pending[k + 1]
        /\ pending' = Tail(pending) /\ pending \in Seq(PEvent)
    BY <1>1, EmitIs DEF Emit, PTypes
  <2> HIDE DEF e
  <2>2. CASE e.ev = "step_completed"
    <3>1. Len(pending) = 1
      BY <2>1, <2>2 DEF PendingInv
    <3>2. DOMAIN pending' = {}
      BY <2>1, <3>1
    <3> QED
      BY <3>2 DEF PendingInv
  <2>3. CASE e.ev # "step_completed"
    <3>1. /\ Completed(plog') = Completed(plog) /\ OnRecord' = OnRecord
          /\ \A i \in Completed(plog) : plog'[i] = plog[i]
      BY <2>1, <2>3, PLogGrows DEF Completed
    <3>2. Children' = Children
      BY <2>1 DEF Children
    <3> SUFFICES ASSUME NEW k \in DOMAIN pending', pending'[k].ev = "step_completed"
                 PROVE  /\ k = Len(pending')
                        /\ pending'[k].pos > 0 =>
                              /\ ppc' = "log" /\ pending'[k].pos \in logged' /\ pending'[k].era = pcrashes'
                              /\ pending'[k].pos \notin OnRecord' /\ \A d \in logged' : d <= pending'[k].pos
                        /\ pending'[k].pos = 0 =>
                              /\ ppc' = "close" /\ OnRecord' = Children'
                              /\ fork' # << >> => \E j \in Completed(plog') :
                                                    plog'[j].pos = Len(fork') /\ plog'[j].era = pending'[k].era
      BY DEF PendingInv
    <3>3. k + 1 \in DOMAIN pending /\ pending'[k] = pending[k + 1] /\ k \in Int
      BY <2>1
    <3>4. /\ k + 1 = Len(pending)
          /\ pending[k + 1].pos > 0 =>
                /\ ppc = "log" /\ pending[k + 1].pos \in logged /\ pending[k + 1].era = pcrashes
                /\ pending[k + 1].pos \notin OnRecord /\ \A d \in logged : d <= pending[k + 1].pos
          /\ pending[k + 1].pos = 0 =>
                /\ ppc = "close" /\ OnRecord = Children
                /\ fork # << >> => \E j \in Completed(plog) : plog[j].pos = Len(fork) /\ plog[j].era = pending[k + 1].era
      BY <3>3 DEF PendingInv
    <3>5. k = Len(pending')
      BY <3>3, <3>4, <2>1
    <3> QED
      BY <3>1, <3>2, <3>3, <3>4, <3>5, <2>1
  <2> QED
    BY <2>2, <2>3
<1>2. CASE ~Emit
  <2>0. /\ OnRecord' = OnRecord /\ Children' = Children /\ fork' = fork /\ Completed(plog') = Completed(plog)
        /\ \A i \in Completed(plog) : plog'[i] = plog[i]
    BY <1>2, RecordKept DEF Completed
  <2>1. CASE pending' = << >>
    BY <2>1 DEF PendingInv
  <2>2. CASE UNCHANGED <<ppc, logged, pending, pcrashes>>
    BY <2>0, <2>2 DEF PendingInv
  <2>3. CASE PDecided \/ PStart \/ PLaunch \/ Spawn \/ DrainInterrupted \/ Drained \/ \E c \in Children : Join(c) \/ Collect(c)
    <3>1. /\ UNCHANGED pending /\ ppc \in {"idle", "prepare", "dead", "drain", "collect"}
      BY <2>3 DEF PDecided, PStart, PLaunch, Spawn, DrainInterrupted, Drained, Join, Collect, plocals
    <3>2. pending' = << >>
      BY <3>1 DEF RestInv
    <3> QED
      BY <3>2, <2>1
  <2>4. CASE EmptyFork
    <3>1. pending' = <<Record("step_completed", 0, -1)>> /\ ppc' = "close" /\ fork = << >> /\ Children = {}
      BY <2>4, <1>0 DEF EmptyFork, LeaveDrain
    <3>2. OnRecord = {}
      BY <3>1 DEF OnRecord, ErasInv
    <3>3. DOMAIN pending' = {1} /\ Len(pending') = 1 /\ pending'[1].pos = 0
      BY <3>1 DEF Record
    <3> QED
      BY <3>1, <3>2, <3>3, <2>0 DEF PendingInv
  <2>5. CASE Refuse
    <3>1. pending' = <<OfContainer("step_failed")>>
      BY <2>5 DEF Refuse
    <3>2. DOMAIN pending' = {1} /\ pending'[1].ev = "step_failed"
      BY <3>1 DEF OfContainer, Record
    <3> QED
      BY <3>2 DEF PendingInv
  <2>6. CASE LogChild
    <3>0. PICK o : o = Foremost(Unlogged)
      OBVIOUS
    <3>1. /\ ppc' = "log" /\ Unlogged # {} /\ pending' = EventsOf(o) /\ logged' = logged \cup {o.pos}
          /\ UNCHANGED pcrashes
      BY <2>6, <3>0 DEF LogChild, PSame
    <3>2. o \in Unlogged
      BY <3>0, <3>1, <1>0, LeastOutcome DEF Unlogged
    <3>3. o \in completions /\ o.pos \notin logged /\ o.pos \in Nat /\ o.pos > 0 /\ (o.exit = "ok" => o.pos \notin OnRecord)
      BY <3>2, <1>0 DEF Unlogged, LoopInv
    <3>4. \A d \in logged' : d <= o.pos
      BY <3>1, <3>2, <3>3, <1>0 DEF LoopInv
    <3>5. ASSUME NEW k \in DOMAIN pending', pending'[k].ev = "step_completed"
          PROVE  k = Len(pending') /\ pending'[k] = Record("step_completed", o.pos, pcrashes) /\ o.exit = "ok"
      <4> DEFINE ended == IF o.exit = "ok" THEN Record("step_completed", o.pos, pcrashes) ELSE OfContainer("step_failed")
      <4>1. /\ Record("step_started", o.pos, 0).ev = "step_started" /\ Record("chat_user", o.pos, 0).ev = "chat_user"
            /\ Record("chat_assistant", o.pos, 0).ev = "chat_assistant" /\ OfContainer("step_failed").ev = "step_failed"
        BY DEF Record, OfContainer
      <4>2. CASE fork[o.pos] = "chat"
        <5>1. pending' = <<Record("step_started", o.pos, 0), Record("chat_user", o.pos, 0),
                           Record("chat_assistant", o.pos, 0), ended>>
          BY <3>1, <4>2 DEF EventsOf
        <5> HIDE DEF ended
        <5>2. Len(pending') = 4 /\ (k = 4 \/ k = 1 \/ k = 2 \/ k = 3) /\ k = 4 => pending'[k] = ended
          BY <5>1
        <5>3. k = 4 /\ Len(pending') = 4 /\ pending'[k] = ended
          BY <3>5, <4>1, <5>1
        <5> QED
          BY <3>5, <4>1, <5>3 DEF ended
      <4>3. CASE fork[o.pos] # "chat"
        <5>1. pending' = <<Record("step_started", o.pos, 0), ended>>
          BY <3>1, <4>3 DEF EventsOf
        <5> HIDE DEF ended
        <5>2. k = 2 /\ Len(pending') = 2 /\ pending'[k] = ended
          BY <3>5, <4>1, <5>1
        <5> QED
          BY <3>5, <4>1, <5>2 DEF ended
      <4> QED
        BY <4>2, <4>3
    <3>6. Record("step_completed", o.pos, pcrashes).pos = o.pos /\ Record("step_completed", o.pos, pcrashes).era = pcrashes
      BY DEF Record
    <3> SUFFICES ASSUME NEW k \in DOMAIN pending', pending'[k].ev = "step_completed"
                 PROVE  /\ k = Len(pending')
                        /\ pending'[k].pos > 0 =>
                              /\ ppc' = "log" /\ pending'[k].pos \in logged' /\ pending'[k].era = pcrashes'
                              /\ pending'[k].pos \notin OnRecord' /\ \A d \in logged' : d <= pending'[k].pos
                        /\ pending'[k].pos # 0
      BY DEF PendingInv
    <3> QED
      BY <3>1, <3>3, <3>4, <3>5, <3>6, <2>0
  <2>7. CASE LogEnd
    <3>1. /\ ppc = "log" /\ pending = << >> /\ Unlogged = {} /\ pending' = TerminalEvents /\ ppc' = "close"
      BY <2>7 DEF LogEnd
    <3>2. CASE terminal # "completed"
      <4>1. \A k \in DOMAIN pending' : pending'[k] \in {OfContainer("signal_received"), OfContainer("step_failed"), OfContainer("step_timeout_fired")}
        BY <3>1, <3>2 DEF TerminalEvents
      <4>2. \A k \in DOMAIN pending' : pending'[k].ev # "step_completed"
        BY <4>1 DEF OfContainer, Record
      <4> QED
        BY <4>2 DEF PendingInv
    <3>3. CASE terminal = "completed"
      <4>1. \A c \in Children : task[c] = "off" \/ [pos |-> c, exit |-> "ok"] \in completions
        BY <3>1, <3>3 DEF TasksInv
      <4>2. \A c \in Children : [pos |-> c, exit |-> "ok"] \in completions => c \in OnRecord
        <5> SUFFICES ASSUME NEW c \in Children, [pos |-> c, exit |-> "ok"] \in completions PROVE c \in OnRecord
          OBVIOUS
        <5>1. c \in logged
          BY <3>1 DEF Unlogged
        <5>2. ~Announced(c)
          BY <3>1 DEF Announced
        <5>3. Ours(c)
          BY <5>1, <5>2 DEF LoopInv
        <5> QED
          BY <5>3 DEF Ours, OnRecord
      <4>3. OnRecord = Children
        <5>1. OnRecord \subseteq Children
          BY DEF OnRecord, ErasInv
        <5>2. \A c \in Children : task[c] = "off" => c \in OnRecord
          BY <3>1 DEF TasksInv, Spawned
        <5> QED
          BY <5>1, <5>2, <4>1, <4>2
      <4>4. fork # << >> => \E j \in Completed(plog) : plog[j].pos = Len(fork) /\ plog[j].era = OutputEra
        <5> SUFFICES ASSUME fork # << >> PROVE \E j \in Completed(plog) : plog[j].pos = Len(fork) /\ plog[j].era = OutputEra
          OBVIOUS
        <5>1. Len(fork) \in Children
          BY <1>0
        <5> DEFINE past == {i \in Completed(plog) : plog[i].pos = Len(fork)}
        <5>2. past # {} /\ past \subseteq Nat
          BY <5>1, <4>3 DEF OnRecord, Completed, PTypes
        <5>3. CASE [pos |-> Len(fork), exit |-> "ok"] \in completions
          <6>1. OutputEra = pcrashes
            BY <5>3 DEF OutputEra
          <6>2. Len(fork) \in logged
            BY <3>1, <5>3 DEF Unlogged
          <6>3. PICK j \in Completed(plog) : plog[j].pos = Len(fork) /\ plog[j].era = pcrashes
            BY <6>2, <5>3, <3>1 DEF LoopInv, Announced, Ours
          <6> QED
            BY <6>1, <6>3
        <5>4. CASE [pos |-> Len(fork), exit |-> "ok"] \notin completions
          <6>1. OutputEra = IF past = {} THEN -1 ELSE plog[CHOOSE i \in past : \A j \in past : i <= j].era
            BY <5>4 DEF OutputEra
          <6>3. \A i \in past : i \in Completed(plog) /\ plog[i].pos = Len(fork)
            OBVIOUS
          <6> HIDE DEF past
          <6>2. (CHOOSE i \in past : \A j \in past : i <= j) \in past
            BY <5>2, LeastIndex
          <6>4. PICK i : i = CHOOSE x \in past : \A j \in past : x <= j
            OBVIOUS
          <6>5. i \in past
            BY <6>2, <6>4
          <6>6. OutputEra = plog[i].era
            BY <6>1, <6>4, <5>2
          <6> QED
            BY <6>3, <6>5, <6>6
        <5> QED
          BY <5>3, <5>4
      <4>5. pending' = <<Record("step_completed", 0, OutputEra)>>
        BY <3>1, <3>3 DEF TerminalEvents
      <4>6. DOMAIN pending' = {1} /\ Len(pending') = 1 /\ pending'[1].pos = 0 /\ pending'[1].era = OutputEra
        BY <4>5 DEF Record
      <4> QED
        BY <4>3, <4>4, <4>6, <3>1, <2>0 DEF PendingInv
    <3> QED
      BY <3>2, <3>3
  <2>8. CASE PFinalise \/ PCrash
    BY <2>8, <2>1 DEF PFinalise, PCrash, plocals
  <2>10. ASSUME NEW c \in Children, ChildAborted(c) \/ ChildEnds(c) PROVE PendingInv'
    BY <2>10, <2>2 DEF ChildAborted, ChildEnds, PSame
  <2>11. CASE ParallelDone \/ UNCHANGED parallelVars \/ \E input \in {"cancel", "shutdown"} : PRaise(input)
    BY <2>11, <2>2 DEF ParallelDone, PRaise, parallelVars, plocals
  <2> QED
    BY <1>2, <2>3, <2>4, <2>5, <2>6, <2>7, <2>8, <2>10, <2>11 DEF ParallelNext, ParallelRunner, AbortedTasks
<1> QED
  BY <1>1, <1>2

\* run_parallel begins in the invariant.
LEMMA ParallelStart == ParallelInit => ParallelInv
<1> SUFFICES ASSUME ParallelInit PROVE ParallelInv
  OBVIOUS
<1>1. plog = << >> /\ Completed(plog) = {} /\ OnRecord = {} /\ DOMAIN plog = {}
  BY DEF ParallelInit, Completed, OnRecord
<1>2. PTypes
  <2>1. << >> \in Seq(PEvent) /\ 0 \in 0..MaxPCrashes
    BY ParallelAssumption
  <2> QED
    BY <2>1 DEF ParallelInit, PTypes, PPlaces, TaskStates, NoTasks
<1>3. ErasInv /\ ChildOnce /\ CompleteMeansAll /\ DefinitionOrder /\ OutputOfLastChild
  BY <1>1 DEF ErasInv, ChildOnce, CompleteMeansAll, DefinitionOrder, OutputOfLastChild, HasCompleted
<1>4. RestInv
  BY <1>1 DEF ParallelInit, RestInv
<1>5. TasksInv
  BY DEF ParallelInit, TasksInv, NoTasks, Spawned
<1>6. LoopInv /\ PendingInv
  BY <1>1 DEF ParallelInit, LoopInv, PendingInv, Unlogged
<1> QED
  BY <1>2, <1>3, <1>4, <1>5, <1>6 DEF ParallelInv

\* For forks of any size and any number of crashes and resumes: no child of a parallel step is completed twice,
\* the step completes only when all its children have, one process logs them in definition order, the step's
\* output is its last child's, and nothing runs on behind the record.
THEOREM ParallelIsSafe == ParallelSpec => []ParallelSafe
<1>1. ParallelInv /\ [ParallelNext]_parallelVars => ParallelInv'
  BY PTypesStep, RecordStep, RestStep, TasksStep, LoopStep, PendingStep DEF ParallelInv
<1>2. ParallelInv => ParallelSafe
  <2> SUFFICES ASSUME ParallelInv PROVE ParallelSafe
    OBVIOUS
  <2> USE DEF ParallelInv
  <2>1. ParallelTypeOK
    BY DEF ParallelTypeOK, PTypes, TaskStates
  <2>2. FinishedIsLogged
    <3> SUFFICES ASSUME ppc = "returned", NEW c \in Children, task[c] = "kept" PROVE c \in OnRecord
      BY DEF FinishedIsLogged
    <3>1. [pos |-> c, exit |-> "ok"] \in completions /\ c \in logged
      BY DEF TasksInv, LoopInv, Unlogged
    <3>2. ~Announced(c)
      BY ForkIsSeq DEF Announced, PendingInv, PTypes
    <3>3. Ours(c)
      BY <3>1, <3>2 DEF LoopInv
    <3> QED
      BY <3>3 DEF Ours, OnRecord
  <2>3. NoStrayChild
    BY DEF NoStrayChild, TasksInv
  <2> QED
    BY <2>1, <2>2, <2>3 DEF ParallelSafe
<1> QED
  BY <1>1, <1>2, ParallelStart, PTL DEF ParallelSpec

-----------------------------------------------------------------------------
(* Chat and agent steps (module Conversation).                             *)
(*                                                                         *)
(* HistoryIsCommitted speaks of the request alone.  That it holds rests on *)
(* the scan of the log: the stage of the running step is what this process *)
(* has logged of it (StageInv), because its step_started emptied it, so    *)
(* that a completion promotes one question and one answer (HistInv).       *)

CNames == {"step_started", "step_completed", "step_failed", "chat_message_appended", "completion_signaled"}
Ids == {s \in Seq(Int \X Int) : Len(s) <= 1}
CFact == [ev : CNames, step : Int, attempt : Nat, role : {"none", "user", "assistant"}, sid : Ids,
          result : {"none", "ok", "error"}]
TurnSet == [role : {"none", "user", "assistant"}, step : Int, attempt : Nat]
StepNames(w) == -Len(w)..Len(w)

ProgressSet(w) ==
    [completed : 0..Len(w), failed : BOOLEAN, ended : BOOLEAN, pending : [StepNames(w) -> Seq(TurnSet)],
     history : [Buckets -> Seq(TurnSet)], ids : [DOMAIN w -> Ids], first : Ids]

Now == Progress(plan, clog)
Chatting == {"chatStart", "provider", "reply", "chatDone"}
Scoping == {"bodyStart", "bodyDone"}
AtAgent == {"agentStart", "agent", "agentDone", "signaled"}
Busy == Chatting \cup Scoping \cup AtAgent \cup {"fail"}

\* The types of the conversation state, and of what is read from the log.
CTypes ==
    /\ plan \in Plans /\ clog \in Seq(CFact) /\ cpc \in Busy \cup {"idle", "returned", "dead"}
    /\ sent \in Seq(TurnSet) /\ argv \in Ids
    /\ out \in [lines : 0..MaxLines, result : {"none", "ok", "error"}, sid : Ids]
    /\ group \subseteq {"leader", "helper"} \X (0..MaxCCrashes) /\ ccrashes \in 0..MaxCCrashes

ScanTypes == Now \in ProgressSet(plan)

\* The step that is worked on has not completed, and is of the kind its place is for.
PlanInv ==
    /\ cpc \in Busy => Now.completed < Len(plan)
    /\ cpc \in Chatting => plan[Current].kind \in {"chat", "scoped"}
    /\ cpc \in Scoping => plan[Current].kind = "scoped"
    /\ cpc \in AtAgent => plan[Current].kind = "agent"

Mine(role) == [role |-> role, step |-> Acting, attempt |-> ccrashes]

\* The stage of the running chat holds what this attempt has logged and nothing else.
StageInv ==
    /\ cpc = "chatStart" => Now.pending[Acting] = << >>
    /\ cpc \in {"provider", "reply"} => Now.pending[Acting] = <<Mine("user")>>
    /\ cpc = "chatDone" => Now.pending[Acting] = <<Mine("user"), Mine("assistant")>>

\* The history the scan rebuilds is that of the completed chats.
HistInv ==
    /\ \A b \in Buckets : Now.history[b] = Committed(plan, clog, b)
    /\ cpc = "provider" => sent = Now.history[BucketOf(plan, Acting)]

AgentInv ==
    /\ ReportedErrorFails /\ NoOrphans
    /\ cpc = "agentDone" => out.result # "error"
    /\ \A p \in group : p[2] <= ccrashes

ConversationInv == CTypes /\ ScanTypes /\ PlanInv /\ StageInv /\ HistInv /\ AgentInv

-----------------------------------------------------------------------------
(* Chat and agent steps (module Conversation): what one more event does to *)
(* the scan of the log.  Both scans are recursive functions of the length  *)
(* of the log read; that they exist, and that the scan of a longer log     *)
(* starts as that of a shorter one, is shown by a least counterexample.    *)

\* g scans the first n events of the log l of workflow w.
Scans(w, l, n, g) == g = [k \in 0..n |-> IF k = 0 THEN NoProgress(w) ELSE Scan(w, g[k - 1], l[k])]

\* Every prefix of a log has a scan.
LEMMA ScanExists ==
  ASSUME NEW w, NEW l, NEW N \in Nat
  PROVE  \E g : Scans(w, l, N, g)
<1> DEFINE Bad == {n \in 0..N : ~ \E g : Scans(w, l, n, g)}
<1>1. Bad \subseteq Nat
  OBVIOUS
<1>2. ASSUME Bad # {} PROVE FALSE
  <2>1. PICK n \in Bad : \A m \in Bad : n <= m
    <3> HIDE DEF Bad
    <3> QED BY <1>1, <1>2, LeastOne
  <2>2. n # 0
    <3>1. Scans(w, l, 0, [k \in 0..0 |-> NoProgress(w)])
      BY DEF Scans
    <3> QED
      BY <3>1
  <2>3. n \in Nat \ {0} /\ n - 1 \in 0..N /\ n - 1 \notin Bad
    BY <2>1, <2>2
  <2>4. PICK g : Scans(w, l, n - 1, g)
    BY <2>3
  <2> DEFINE h == [k \in 0..n |-> IF k < n THEN g[k] ELSE Scan(w, g[n - 1], l[n])]
  <2>5. ASSUME NEW k \in 0..n
        PROVE  h[k] = IF k = 0 THEN NoProgress(w) ELSE Scan(w, h[k - 1], l[k])
    <3>1. CASE k = n
      BY <2>3, <3>1
    <3>2. CASE k < n
      <4>1. k \in 0..(n - 1)
        BY <2>3, <3>2
      <4>2. g[k] = IF k = 0 THEN NoProgress(w) ELSE Scan(w, g[k - 1], l[k])
        BY <2>4, <4>1 DEF Scans
      <4>3. h[k] = g[k]
        BY <3>2
      <4>4. k # 0 => k - 1 \in 0..n /\ k - 1 < n
        BY <2>3, <3>2
      <4>5. k # 0 => h[k - 1] = g[k - 1]
        BY <4>4
      <4> QED
        BY <4>2, <4>3, <4>5
    <3> QED
      BY <2>3, <3>1, <3>2
  <2>6. Scans(w, l, n, h)
    <3>1. h = [k \in 0..n |-> h[k]]
      OBVIOUS
    <3> HIDE DEF h
    <3> QED BY <2>5, <3>1 DEF Scans
  <2> QED
    BY <2>1, <2>6
<1>3. N \notin Bad /\ N \in 0..N
  BY <1>2
<1> QED
  BY <1>3

\* The scans of a log and of one that continues it agree where both are defined.
LEMMA ScansAgree ==
  ASSUME NEW w, NEW l, NEW m, NEW n \in Nat, NEW g, NEW h,
         Scans(w, l, n, g), Scans(w, m, n + 1, h), \A k \in 1..n : l[k] = m[k]
  PROVE  g[n] = h[n]
<1> DEFINE Bad == {k \in 0..n : g[k] # h[k]}
<1>1. Bad \subseteq Nat
  OBVIOUS
<1>2. ASSUME Bad # {} PROVE FALSE
  <2>1. PICK k \in Bad : \A j \in Bad : k <= j
    <3> HIDE DEF Bad
    <3> QED BY <1>1, <1>2, LeastOne
  <2>2. /\ g[k] = IF k = 0 THEN NoProgress(w) ELSE Scan(w, g[k - 1], l[k])
        /\ h[k] = IF k = 0 THEN NoProgress(w) ELSE Scan(w, h[k - 1], m[k])
    <3>1. k \in 0..n /\ k \in 0..(n + 1)
      BY <2>1
    <3> QED
      BY <3>1 DEF Scans
  <2>3. k # 0 /\ g[k] # h[k]
    BY <2>1, <2>2
  <2>4. k \in 1..n /\ k - 1 \in 0..n /\ k - 1 \notin Bad
    BY <2>1, <2>3
  <2>5. g[k - 1] = h[k - 1] /\ l[k] = m[k]
    BY <2>4
  <2> QED
    BY <2>2, <2>3, <2>5
<1> QED
  BY <1>2

\* The scan of a log with one more event is one more step of the scan.
LEMMA ProgressGrows ==
  ASSUME NEW w, NEW S, NEW l \in Seq(S), NEW e \in S
  PROVE  Progress(w, << >>) = NoProgress(w) /\ Progress(w, Append(l, e)) = Scan(w, Progress(w, l), e)
<1> DEFINE m == Append(l, e)
<1>1. \A x : Progress(w, x) = (CHOOSE g : Scans(w, x, Len(x), g))[Len(x)]
  BY DEF Progress, Scans
<1>2. Len(l) \in Nat /\ Len(m) \in Nat /\ Len(m) = Len(l) + 1 /\ m[Len(l) + 1] = e /\ \A k \in 1..Len(l) : l[k] = m[k]
  OBVIOUS
<1> HIDE DEF m
<1>3. PICK g : g = (CHOOSE f : Scans(w, l, Len(l), f))
  OBVIOUS
<1>4. PICK h : h = (CHOOSE f : Scans(w, m, Len(m), f))
  OBVIOUS
<1>5. Scans(w, l, Len(l), g) /\ Scans(w, m, Len(l) + 1, h)
  <2>1. \E f : Scans(w, l, Len(l), f)
    BY <1>2, ScanExists
  <2>2. \E f : Scans(w, m, Len(m), f)
    BY <1>2, ScanExists
  <2> QED
    BY <1>2, <1>3, <1>4, <2>1, <2>2
<1>6. g[Len(l)] = h[Len(l)]
  BY <1>2, <1>5, ScansAgree
<1>7. h[Len(l) + 1] = Scan(w, h[Len(l)], e)
  <2>1. Len(l) + 1 \in 0..(Len(l) + 1) /\ Len(l) + 1 # 0 /\ (Len(l) + 1) - 1 = Len(l)
    BY <1>2
  <2> QED
    BY <1>2, <1>5, <2>1 DEF Scans
<1>8. Progress(w, l) = g[Len(l)] /\ Progress(w, m) = h[Len(l) + 1]
  BY <1>1, <1>2, <1>3, <1>4
<1>9. Progress(w, << >>) = NoProgress(w)
  <2>1. PICK f : f = (CHOOSE x : Scans(w, << >>, 0, x))
    OBVIOUS
  <2>2. Scans(w, << >>, 0, f)
    BY <2>1, ScanExists
  <2>3. f[0] = NoProgress(w)
    BY <2>2 DEF Scans
  <2>4. Len(<< >>) = 0
    OBVIOUS
  <2> QED
    BY <1>1, <2>1, <2>3, <2>4
<1> QED
  BY <1>6, <1>7, <1>8, <1>9 DEF m
\* What a committed event adds to the history of the bucket.
Exchange(w, e, b) == IF EndsChat(w, e, b) THEN <<Turn("user", e), Turn("assistant", e)>> ELSE << >>

\* g holds what the first n events of l commit to the bucket.
Commits(w, l, b, n, g) == g = [k \in 0..n |-> IF k = 0 THEN << >> ELSE g[k - 1] \o Exchange(w, l[k], b)]

\* Every prefix of a log commits something.
LEMMA CommitExists ==
  ASSUME NEW w, NEW l, NEW b, NEW N \in Nat
  PROVE  \E g : Commits(w, l, b, N, g)
<1> DEFINE Bad == {n \in 0..N : ~ \E g : Commits(w, l, b, n, g)}
<1>1. Bad \subseteq Nat
  OBVIOUS
<1>2. ASSUME Bad # {} PROVE FALSE
  <2>1. PICK n \in Bad : \A m \in Bad : n <= m
    <3> HIDE DEF Bad
    <3> QED BY <1>1, <1>2, LeastOne
  <2>2. n # 0
    <3>1. Commits(w, l, b, 0, [k \in 0..0 |-> << >>])
      BY DEF Commits
    <3> QED
      BY <3>1
  <2>3. n \in Nat \ {0} /\ n - 1 \in 0..N /\ n - 1 \notin Bad
    BY <2>1, <2>2
  <2>4. PICK g : Commits(w, l, b, n - 1, g)
    BY <2>3
  <2> DEFINE h == [k \in 0..n |-> IF k < n THEN g[k] ELSE g[n - 1] \o Exchange(w, l[n], b)]
  <2>5. ASSUME NEW k \in 0..n
        PROVE  h[k] = IF k = 0 THEN << >> ELSE h[k - 1] \o Exchange(w, l[k], b)
    <3>1. CASE k = n
      BY <2>3, <3>1
    <3>2. CASE k < n
      <4>1. k \in 0..(n - 1)
        BY <2>3, <3>2
      <4>2. g[k] = IF k = 0 THEN << >> ELSE g[k - 1] \o Exchange(w, l[k], b)
        BY <2>4, <4>1 DEF Commits
      <4>3. h[k] = g[k]
        BY <3>2
      <4>4. k # 0 => k - 1 \in 0..n /\ k - 1 < n
        BY <2>3, <3>2
      <4>5. k # 0 => h[k - 1] = g[k - 1]
        BY <4>4
      <4> QED
        BY <4>2, <4>3, <4>5
    <3> QED
      BY <2>3, <3>1, <3>2
  <2>6. Commits(w, l, b, n, h)
    <3>1. h = [k \in 0..n |-> h[k]]
      OBVIOUS
    <3> HIDE DEF h
    <3> QED BY <2>5, <3>1 DEF Commits
  <2> QED
    BY <2>1, <2>6
<1>3. N \notin Bad /\ N \in 0..N
  BY <1>2
<1> QED
  BY <1>3

\* A log that continues another commits the same as far as that goes.
LEMMA CommitsAgree ==
  ASSUME NEW w, NEW b, NEW l, NEW m, NEW n \in Nat, NEW g, NEW h,
         Commits(w, l, b, n, g), Commits(w, m, b, n + 1, h), \A k \in 1..n : l[k] = m[k]
  PROVE  g[n] = h[n]
<1> DEFINE Bad == {k \in 0..n : g[k] # h[k]}
<1>1. Bad \subseteq Nat
  OBVIOUS
<1>2. ASSUME Bad # {} PROVE FALSE
  <2>1. PICK k \in Bad : \A j \in Bad : k <= j
    <3> HIDE DEF Bad
    <3> QED BY <1>1, <1>2, LeastOne
  <2>2. /\ g[k] = IF k = 0 THEN << >> ELSE g[k - 1] \o Exchange(w, l[k], b)
        /\ h[k] = IF k = 0 THEN << >> ELSE h[k - 1] \o Exchange(w, m[k], b)
    <3>1. k \in 0..n /\ k \in 0..(n + 1)
      BY <2>1
    <3> QED
      BY <3>1 DEF Commits
  <2>3. k # 0 /\ g[k] # h[k]
    BY <2>1, <2>2
  <2>4. k \in 1..n /\ k - 1 \in 0..n /\ k - 1 \notin Bad
    BY <2>1, <2>3
  <2>5. g[k - 1] = h[k - 1] /\ l[k] = m[k]
    BY <2>4
  <2> QED
    BY <2>2, <2>3, <2>5
<1> QED
  BY <1>2

\* What one more event commits.
LEMMA CommittedGrows ==
  ASSUME NEW w, NEW b, NEW S, NEW l \in Seq(S), NEW e \in S
  PROVE  Committed(w, << >>, b) = << >> /\ Committed(w, Append(l, e), b) = Committed(w, l, b) \o Exchange(w, e, b)
<1> DEFINE m == Append(l, e)
<1>1. \A x : Committed(w, x, b) = (CHOOSE g : Commits(w, x, b, Len(x), g))[Len(x)]
  BY DEF Committed, Commits, Exchange
<1>2. Len(l) \in Nat /\ Len(m) \in Nat /\ Len(m) = Len(l) + 1 /\ m[Len(l) + 1] = e /\ \A k \in 1..Len(l) : l[k] = m[k]
  OBVIOUS
<1> HIDE DEF m
<1>3. PICK g : g = (CHOOSE f : Commits(w, l, b, Len(l), f))
  OBVIOUS
<1>4. PICK h : h = (CHOOSE f : Commits(w, m, b, Len(m), f))
  OBVIOUS
<1>5. Commits(w, l, b, Len(l), g) /\ Commits(w, m, b, Len(l) + 1, h)
  <2>1. \E f : Commits(w, l, b, Len(l), f)
    BY <1>2, CommitExists
  <2>2. \E f : Commits(w, m, b, Len(m), f)
    BY <1>2, CommitExists
  <2> QED
    BY <1>2, <1>3, <1>4, <2>1, <2>2
<1>6. g[Len(l)] = h[Len(l)]
  BY <1>2, <1>5, CommitsAgree
<1>7. h[Len(l) + 1] = h[Len(l)] \o Exchange(w, e, b)
  <2>1. Len(l) + 1 \in 0..(Len(l) + 1) /\ Len(l) + 1 # 0 /\ (Len(l) + 1) - 1 = Len(l)
    BY <1>2
  <2> QED
    BY <1>2, <1>5, <2>1 DEF Commits
<1>8. Committed(w, l, b) = g[Len(l)] /\ Committed(w, m, b) = h[Len(l) + 1]
  BY <1>1, <1>2, <1>3, <1>4
<1>9. Committed(w, << >>, b) = << >>
  <2>1. PICK f : f = (CHOOSE x : Commits(w, << >>, b, 0, x))
    OBVIOUS
  <2>2. Commits(w, << >>, b, 0, f)
    BY <2>1, CommitExists
  <2>3. f[0] = << >>
    BY <2>2 DEF Commits
  <2>4. Len(<< >>) = 0
    OBVIOUS
  <2> QED
    BY <1>1, <2>1, <2>3, <2>4
<1> QED
  BY <1>6, <1>7, <1>8, <1>9 DEF m

\* The workflow is a sequence of steps.
LEMMA PlanIsSeq ==
  plan \in Plans => /\ plan \in Seq(PlanStep) /\ Len(plan) \in Nat /\ DOMAIN plan = 1..Len(plan)
                    /\ \A s \in DOMAIN plan : plan[s] \in PlanStep
BY ConversationAssumption

\* The scan with another stage for step s.
Stage(p, s, t) == [p EXCEPT !.pending[s] = t]

\* A change of one stage.
LEMMA Staged ==
  ASSUME NEW w, NEW p \in ProgressSet(w), NEW s \in StepNames(w), NEW t \in Seq(TurnSet)
  PROVE  /\ Stage(p, s, t) \in ProgressSet(w) /\ Stage(p, s, t).completed = p.completed
         /\ Stage(p, s, t).history = p.history /\ Stage(p, s, t).pending[s] = t
<1>1. p.pending \in [StepNames(w) -> Seq(TurnSet)]
  BY DEF ProgressSet
<1>2. PICK f : f = [p.pending EXCEPT ![s] = t]
  OBVIOUS
<1>3. f \in [StepNames(w) -> Seq(TurnSet)] /\ f[s] = t
  BY <1>1, <1>2
<1>4. Stage(p, s, t) = [p EXCEPT !.pending = f]
  BY <1>2 DEF Stage
<1> HIDE DEF StepNames, TurnSet, Ids
<1> QED
  BY <1>3, <1>4 DEF ProgressSet

\* A started step has an empty stage; nothing else changes.
LEMMA ScanStarted ==
  ASSUME NEW w, NEW p \in ProgressSet(w), NEW e \in CFact, e.step \in StepNames(w), e.ev = "step_started"
  PROVE  /\ Scan(w, p, e) \in ProgressSet(w) /\ Scan(w, p, e).completed = p.completed
         /\ Scan(w, p, e).history = p.history /\ Scan(w, p, e).pending[e.step] = << >>
<1>1. Scan(w, p, e) = Stage(p, e.step, << >>)
  BY DEF Scan, OnStarted, Stage
<1>2. << >> \in Seq(TurnSet)
  OBVIOUS
<1>3. PICK s \in StepNames(w), t \in Seq(TurnSet) : s = e.step /\ t = << >>
  BY <1>2
<1>5. /\ Stage(p, s, t) \in ProgressSet(w) /\ Stage(p, s, t).completed = p.completed
      /\ Stage(p, s, t).history = p.history /\ Stage(p, s, t).pending[s] = t
  BY Staged
<1>6. Scan(w, p, e) = Stage(p, s, t)
  BY <1>1, <1>3
<1> QED
  BY <1>3, <1>5, <1>6

\* A failure empties the stage of the step.
LEMMA ScanFailed ==
  ASSUME NEW w, NEW p \in ProgressSet(w), NEW e \in CFact, e.step \in StepNames(w), e.ev = "step_failed"
  PROVE  /\ Scan(w, p, e) \in ProgressSet(w) /\ Scan(w, p, e).completed = p.completed
         /\ Scan(w, p, e).history = p.history
<1>0. PICK q : q = [p EXCEPT !.failed = TRUE]
  OBVIOUS
<1>1. Scan(w, p, e) = Stage(q, e.step, << >>)
  BY <1>0 DEF Scan, OnFailed, Stage
<1>2. << >> \in Seq(TurnSet)
  OBVIOUS
<1>3. q \in ProgressSet(w) /\ q.completed = p.completed /\ q.history = p.history
  BY <1>0 DEF ProgressSet
<1>4. PICK s \in StepNames(w), t \in Seq(TurnSet) : s = e.step /\ t = << >>
  BY <1>2
<1>5. /\ Stage(q, s, t) \in ProgressSet(w) /\ Stage(q, s, t).completed = q.completed
      /\ Stage(q, s, t).history = q.history /\ Stage(q, s, t).pending[s] = t
  BY <1>3, Staged
<1>6. Scan(w, p, e) = Stage(q, s, t)
  BY <1>1, <1>4
<1> QED
  BY <1>3, <1>4, <1>5, <1>6

\* A turn is staged under its step.
LEMMA ScanTurn ==
  ASSUME NEW w, NEW p \in ProgressSet(w), NEW e \in CFact, e.step \in StepNames(w),
         e.ev = "chat_message_appended"
  PROVE  /\ Scan(w, p, e) \in ProgressSet(w) /\ Scan(w, p, e).completed = p.completed
         /\ Scan(w, p, e).history = p.history
         /\ Scan(w, p, e).pending[e.step] = Append(p.pending[e.step], Turn(e.role, e))
<1>1. Scan(w, p, e) = Stage(p, e.step, Append(p.pending[e.step], Turn(e.role, e)))
  <2>1. OnTurn(p, e) = Stage(p, e.step, Append(p.pending[e.step], Turn(e.role, e)))
    BY DEF OnTurn, Turn, ProgressSet, Stage
  <2> QED
    BY <2>1 DEF Scan
<1>2. Turn(e.role, e) \in TurnSet
  BY DEF Turn, TurnSet, CFact
<1>3. Append(p.pending[e.step], Turn(e.role, e)) \in Seq(TurnSet)
  BY <1>2 DEF ProgressSet
<1>4. PICK s \in StepNames(w), t \in Seq(TurnSet) : s = e.step /\ t = Append(p.pending[e.step], Turn(e.role, e))
  BY <1>3
<1>5. /\ Stage(p, s, t) \in ProgressSet(w) /\ Stage(p, s, t).completed = p.completed
      /\ Stage(p, s, t).history = p.history /\ Stage(p, s, t).pending[s] = t
  BY Staged
<1>6. Scan(w, p, e) = Stage(p, s, t)
  BY <1>1, <1>4
<1> QED
  BY <1>4, <1>5, <1>6

\* The completion signal ends the session.
LEMMA ScanSignal ==
  ASSUME NEW w, NEW p \in ProgressSet(w), NEW e \in CFact, e.ev = "completion_signaled"
  PROVE  /\ Scan(w, p, e) \in ProgressSet(w) /\ Scan(w, p, e).completed = p.completed
         /\ Scan(w, p, e).history = p.history
<1>1. Scan(w, p, e) = [p EXCEPT !.ended = TRUE]
  BY DEF Scan
<1> QED
  BY <1>1 DEF ProgressSet

\* A completion of a body step is skipped.
LEMMA ScanBody ==
  ASSUME NEW w, NEW p \in ProgressSet(w), NEW e \in CFact, e.ev = "step_completed", InScope(e.step)
  PROVE  Scan(w, p, e) = p
BY DEF Scan, OnCompleted

\* A top-level completion counts, and promotes the stage of a chat.
LEMMA ScanCompleted ==
  ASSUME NEW w \in Seq(PlanStep), NEW p \in ProgressSet(w), NEW e \in CFact, e.ev = "step_completed",
         e.step \in DOMAIN w, p.completed < Len(w)
  PROVE  /\ Scan(w, p, e) \in ProgressSet(w) /\ Scan(w, p, e).completed = p.completed + 1
         /\ \A b \in Buckets : Scan(w, p, e).history[b] =
               IF w[e.step].kind = "chat" /\ w[e.step].bucket = b THEN p.history[b] \o p.pending[e.step]
               ELSE p.history[b]
<1> DEFINE p1 == [p EXCEPT !.completed = p.completed + 1]
           q == Captured(p1, e)
<1>0. Len(w) \in Nat /\ e.step \in Int /\ e.step > 0 /\ e.step \in StepNames(w) /\ w[e.step] \in PlanStep
  BY DEF StepNames
<1>1. p1 \in ProgressSet(w) /\ p1.completed = p.completed + 1 /\ p1.history = p.history /\ p1.pending = p.pending
  <2>1. PICK c : c = p.completed + 1
    OBVIOUS
  <2>2. c \in 0..Len(w)
    BY <1>0, <2>1 DEF ProgressSet
  <2>3. p1 = [p EXCEPT !.completed = c]
    BY <2>1
  <2> HIDE DEF p1, StepNames, TurnSet, Ids
  <2> QED
    BY <2>1, <2>2, <2>3 DEF ProgressSet
<1>2. q \in ProgressSet(w) /\ q.completed = p.completed + 1 /\ q.history = p.history /\ q.pending = p.pending
  <2> HIDE DEF p1
  <2>1. CASE e.sid = << >>
    BY <1>1, <2>1 DEF Captured
  <2>2. CASE e.sid # << >>
    <3>1. PICK f \in Ids : q = [p1 EXCEPT !.ids[e.step] = e.sid, !.first = f]
      BY <1>1, <2>2 DEF Captured, ProgressSet, CFact
    <3>2. e.sid \in Ids
      BY DEF CFact
    <3> HIDE DEF q, Ids
    <3> QED
      BY <1>1, <3>1, <3>2 DEF ProgressSet
  <2> QED
    BY <2>1, <2>2
<1>3. Scan(w, p, e) = IF w[e.step].kind # "chat" THEN q
                      ELSE [q EXCEPT !.history[w[e.step].bucket] = q.history[w[e.step].bucket] \o p.pending[e.step],
                                     !.pending[e.step] = << >>]
  <2>1. ~InScope(e.step) /\ BucketOf(w, e.step) = w[e.step].bucket
    BY <1>0 DEF InScope, BucketOf
  <2>2. w[e.step].bucket \in Buckets
    BY <1>0 DEF PlanStep
  <2>3. Scan(w, p, e) = OnCompleted(w, p, e)
    BY DEF Scan
  <2> QED
    BY <1>2, <2>1, <2>2, <2>3 DEF OnCompleted, ProgressSet
<1> HIDE DEF q, p1
<1>4. CASE w[e.step].kind # "chat"
  BY <1>2, <1>3, <1>4
<1>5. CASE w[e.step].kind = "chat"
  <2>1. w[e.step].bucket \in Buckets
    BY <1>0 DEF PlanStep
  <2>2. p.pending[e.step] \in Seq(TurnSet) /\ q.history[w[e.step].bucket] \in Seq(TurnSet) /\ << >> \in Seq(TurnSet)
    BY <1>0, <1>2, <2>1 DEF ProgressSet
  <2>3. PICK h : h = q.history[w[e.step].bucket] \o p.pending[e.step]
    OBVIOUS
  <2>4. h \in Seq(TurnSet)
    BY <2>2, <2>3
  <2>5. PICK r : r = [q EXCEPT !.history = [q.history EXCEPT ![w[e.step].bucket] = h]]
    OBVIOUS
  <2>8. r \in ProgressSet(w) /\ r.completed = q.completed /\ r.history = [q.history EXCEPT ![w[e.step].bucket] = h]
    <3>1. PICK f : f = [q.history EXCEPT ![w[e.step].bucket] = h]
      OBVIOUS
    <3>2. f \in [Buckets -> Seq(TurnSet)]
      BY <1>2, <2>1, <2>4, <3>1 DEF ProgressSet
    <3>3. r = [q EXCEPT !.history = f]
      BY <2>5, <3>1
    <3> HIDE DEF StepNames, TurnSet, Ids, Buckets
    <3> QED
      BY <1>2, <3>1, <3>2, <3>3 DEF ProgressSet
  <2>9. Scan(w, p, e) = Stage(r, e.step, << >>)
    BY <1>3, <1>5, <2>3, <2>5 DEF Stage
  <2>6. /\ Scan(w, p, e) \in ProgressSet(w) /\ Scan(w, p, e).completed = q.completed
        /\ Scan(w, p, e).history = [q.history EXCEPT ![w[e.step].bucket] = h]
    <3>1. PICK s \in StepNames(w), t \in Seq(TurnSet) : s = e.step /\ t = << >>
      BY <1>0, <2>2
    <3>2. /\ Stage(r, s, t) \in ProgressSet(w) /\ Stage(r, s, t).completed = r.completed
          /\ Stage(r, s, t).history = r.history
      BY <2>8, Staged
    <3> QED
      BY <2>8, <2>9, <3>1, <3>2
  <2>7. q.history \in [Buckets -> Seq(TurnSet)]
    BY <1>2 DEF ProgressSet
  <2> QED
    BY <1>2, <1>5, <2>1, <2>3, <2>6, <2>7
<1> QED
  BY <1>4, <1>5

\* What one more event does to the scan, to what is committed and to the log.
LEMMA CLogGrows ==
  ASSUME NEW e \in CFact, clog \in Seq(CFact), clog' = Append(clog, e), plan' = plan
  PROVE  /\ clog' \in Seq(CFact) /\ Now' = Scan(plan, Now, e)
         /\ \A b \in Buckets : Committed(plan, clog, b)' = Committed(plan, clog, b) \o Exchange(plan, e, b)
         /\ ReportedErrorFails /\ (e.ev = "step_completed" => e.result # "error") => ReportedErrorFails'
<1>1. /\ clog' \in Seq(CFact) /\ DOMAIN clog' = DOMAIN clog \cup {Len(clog) + 1}
      /\ \A i \in DOMAIN clog : clog'[i] = clog[i]
      /\ clog'[Len(clog) + 1] = e
  OBVIOUS
<1>2. Now' = Scan(plan, Now, e)
  BY ProgressGrows DEF Now
<1>3. \A b \in Buckets : Committed(plan, clog, b)' = Committed(plan, clog, b) \o Exchange(plan, e, b)
  BY CommittedGrows
<1>4. ReportedErrorFails /\ (e.ev = "step_completed" => e.result # "error") => ReportedErrorFails'
  BY <1>1 DEF ReportedErrorFails
<1> QED
  BY <1>1, <1>2, <1>3, <1>4

\* The step that is worked on, and the name it logs under, are of the workflow.
LEMMA ActingIsStep ==
  ASSUME CTypes, ScanTypes, Now.completed < Len(plan)
  PROVE  /\ Current \in DOMAIN plan /\ Current \in StepNames(plan) /\ Acting \in StepNames(plan)
         /\ Current \in Int /\ Acting \in Int /\ ~InScope(Current)
         /\ plan[Current].kind = "scoped" => Acting = -Current /\ InScope(Acting)
         /\ plan[Current].kind # "scoped" => Acting = Current
         /\ BucketOf(plan, Acting) = plan[Current].bucket /\ plan[Current].bucket \in Buckets
<1>1. Len(plan) \in Nat /\ DOMAIN plan = 1..Len(plan) /\ \A s \in DOMAIN plan : plan[s] \in PlanStep
  BY PlanIsSeq DEF CTypes
<1>2. Now.completed \in 0..Len(plan)
  BY DEF ScanTypes, ProgressSet
<1>3. Current \in 1..Len(plan) /\ Current \in DOMAIN plan
  BY <1>1, <1>2 DEF Current, Now
<1>4. Current \in StepNames(plan) /\ Acting \in StepNames(plan) /\ Current \in Int /\ Acting \in Int /\ ~InScope(Current)
  BY <1>1, <1>3 DEF StepNames, Acting, InScope
<1>5. plan[Current].kind = "scoped" => Acting = -Current /\ InScope(Acting)
  BY <1>1, <1>3 DEF Acting, InScope
<1>6. plan[Current].kind # "scoped" => Acting = Current
  BY DEF Acting
<1>7. BucketOf(plan, Acting) = plan[Current].bucket
  <2>1. - (-Current) = Current
    BY <1>4
  <2> QED
    BY <1>4, <1>5, <1>6, <2>1 DEF BucketOf
<1>8. plan[Current].bucket \in Buckets
  BY <1>1, <1>3 DEF PlanStep
<1> QED
  BY <1>3, <1>4, <1>5, <1>6, <1>7, <1>8

\* The facts the engine logs.
LEMMA FactTypes ==
  ASSUME CTypes, NEW name \in CNames, NEW s \in Int, NEW e, e = Fact(name, s)
  PROVE  e \in CFact /\ e.ev = name /\ e.step = s /\ e.attempt = ccrashes /\ e.result = "none"
<1>1. ccrashes \in Nat /\ << >> \in Ids
  BY ConversationAssumption DEF CTypes, Ids
<1> QED
  BY <1>1 DEF Fact, CFact

\* What an unchanged log leaves alone.
LEMMA CSameLog ==
  ASSUME plan' = plan, clog' = clog
  PROVE  /\ Now' = Now /\ Current' = Current /\ Acting' = Acting /\ ReportedErrorFails' = ReportedErrorFails
         /\ ScanTypes' = ScanTypes
         /\ \A b \in Buckets : Committed(plan, clog, b)' = Committed(plan, clog, b)
BY DEF Now, Current, Acting, ReportedErrorFails, ScanTypes

\* Steps that log nothing keep the invariant.
LEMMA QuietStep ==
  ASSUME ConversationInv,
         \/ CDecided \/ ChatRefused \/ ProviderAnswers \/ AgentRefused \/ AgentSpawn \/ AgentForks
         \/ AgentLine \/ AgentExits \/ AgentSignals \/ AgentDropped \/ CCrash \/ CLaunch
         \/ UNCHANGED conversationVars
  PROVE  ConversationInv'
<1> USE DEF ConversationInv
<1>0. plan' = plan /\ clog' = clog
  BY DEF CDecided, ChatRefused, ProviderAnswers, AgentRefused, AgentSpawn, AgentForks, AgentLine,
     AgentExits,
         AgentSignals, AgentDropped, CCrash, CLaunch, conversationVars
<1>1. /\ Now' = Now /\ Current' = Current /\ Acting' = Acting /\ ReportedErrorFails' = ReportedErrorFails
      /\ \A b \in Buckets : Committed(plan, clog, b)' = Committed(plan, clog, b)
  BY <1>0, CSameLog
<1>2. ScanTypes'
  BY <1>0, CSameLog
<1>3. ccrashes \in Nat /\ MaxCCrashes \in Nat /\ MaxLines \in Nat
  BY ConversationAssumption DEF CTypes
<1>4. HistInv'
  <2>1. \A b \in Buckets : Now'.history[b] = Committed(plan, clog, b)'
    BY <1>1 DEF HistInv
  <2>2. cpc' = "provider" => cpc = "provider" /\ sent' = sent
    BY DEF CDecided, ChatRefused, ProviderAnswers, AgentRefused, AgentSpawn, AgentForks, AgentLine,
       AgentExits,
         AgentSignals, AgentDropped, CCrash, CLaunch, conversationVars, ExitVerdict
  <2>3. cpc' = "provider" => sent' = Now'.history[BucketOf(plan', Acting')]
    BY <1>0, <1>1, <2>2 DEF HistInv
  <2> QED
    BY <2>1, <2>3 DEF HistInv
<1>5. CASE CCrash
  <2>1. CTypes'
    <3>1. << >> \in Seq(TurnSet) /\ << >> \in Ids
      BY DEF Ids
    <3> QED
      BY <1>0, <1>3, <1>5, <3>1 DEF CCrash, CTypes, NoOutput
  <2>2. PlanInv' /\ StageInv'
    BY <1>5 DEF CCrash, PlanInv, StageInv, Busy, Chatting, Scoping, AtAgent
  <2>3. AgentInv'
    <3>1. \A p \in group : p[2] \in Nat /\ p[2] <= ccrashes
      BY <1>3 DEF AgentInv, CTypes
    <3>2. \A p \in group : p[2] # ccrashes + 1 /\ p[2] <= ccrashes + 1
      BY <1>3, <3>1
    <3> QED
      BY <1>1, <1>5, <3>2 DEF CCrash, AgentInv, NoOrphans
  <2> QED
    BY <1>2, <1>4, <2>1, <2>2, <2>3
<1>6. CASE ~CCrash
  <2>0. ccrashes' = ccrashes
    BY <1>6 DEF CDecided, ChatRefused, ProviderAnswers, AgentRefused, AgentSpawn, AgentForks, AgentLine,
       AgentExits,
         AgentSignals, AgentDropped, CLaunch, conversationVars
  <2>1. /\ cpc' \in Busy \cup {"idle", "returned", "dead"}
        /\ cpc' \in Busy => cpc \in Busy
        /\ cpc' \in Chatting => cpc \in Chatting /\ (cpc' = "chatStart" => cpc = "chatStart")
        /\ cpc' \in Chatting => (cpc' \in {"provider", "reply"} => cpc \in {"provider", "reply"})
        /\ cpc' = "chatDone" => cpc = "chatDone"
        /\ cpc' \in Scoping => cpc \in Scoping
        /\ cpc' \in AtAgent => cpc \in AtAgent
    BY <1>6 DEF CTypes, CDecided, ChatRefused, ProviderAnswers, AgentRefused, AgentSpawn, AgentForks,
       AgentLine, AgentExits,
         AgentSignals, AgentDropped, CLaunch, conversationVars, ExitVerdict, Busy, Chatting, Scoping, AtAgent
  <2>2. PlanInv'
    BY <1>0, <1>1, <2>1 DEF PlanInv
  <2>3. StageInv'
    <3>1. \A role \in {"user", "assistant"} : Mine(role)' = Mine(role)
      BY <1>1, <2>0 DEF Mine
    <3>2. cpc' \in {"chatStart", "provider", "reply", "chatDone"} => cpc' \in Chatting
      BY DEF Chatting
    <3> QED
      BY <1>1, <2>1, <3>1, <3>2 DEF StageInv
  <2>4. CASE AgentSpawn
    <3>0. Current \in DOMAIN plan /\ Now.completed < Len(plan)
      BY <2>4, ActingIsStep DEF AgentSpawn, PlanInv, Busy, AtAgent
    <3>1. argv' \in Ids
      <4>1. /\ << >> \in Ids /\ Now.first \in Ids /\ \A s \in DOMAIN plan : Now.ids[s] \in Ids
        BY DEF ScanTypes, ProgressSet, Ids
      <4>2. SessionArgs \subseteq Ids
        BY <4>1 DEF SessionArgs, Now
      <4> QED
        BY <2>4, <4>2 DEF AgentSpawn
    <3>2. out' \in [lines : 0..MaxLines, result : {"none", "ok", "error"}, sid : Ids]
      BY <1>3, <2>4 DEF AgentSpawn, NoOutput, Ids
    <3>3. group' \subseteq {"leader", "helper"} \X (0..MaxCCrashes)
      BY <2>4, <1>3 DEF AgentSpawn, CTypes
    <3>4. CTypes'
      BY <1>0, <2>0, <2>1, <2>4, <3>1, <3>2, <3>3 DEF AgentSpawn, CTypes
    <3>5. AgentInv'
      BY <1>1, <1>3, <2>0, <2>4 DEF AgentSpawn, AgentInv, NoOrphans
    <3> QED
      BY <1>2, <1>4, <2>2, <2>3, <3>4, <3>5
  <2>5. CASE AgentForks
    <3>1. CTypes'
      BY <1>0, <1>3, <2>0, <2>1, <2>5 DEF AgentForks, CTypes
    <3>2. AgentInv'
      BY <1>1, <1>3, <2>0, <2>5 DEF AgentForks, AgentInv, NoOrphans
    <3> QED
      BY <1>2, <1>4, <2>2, <2>3, <3>1, <3>2
  <2>6. CASE AgentLine
    <3>1. <<<<Current, ccrashes>>>> \in Ids
      <4>1. Current \in Int
        BY <2>6, ActingIsStep DEF AgentLine, PlanInv, Busy, AtAgent
      <4>2. <<Current, ccrashes>> \in Int \X Int
        BY <1>3, <4>1
      <4> HIDE DEF ConversationInv
      <4> QED
        BY <4>2 DEF Ids
    <3>2. out' \in [lines : 0..MaxLines, result : {"none", "ok", "error"}, sid : Ids]
      <4>1. out.sid \in Ids /\ out.lines \in 0..MaxLines
        BY DEF CTypes
      <4>2. out.lines + 1 \in 0..MaxLines
        BY <1>3, <2>6, <4>1 DEF AgentLine
      <4> QED
        BY <2>6, <3>1, <4>1, <4>2 DEF AgentLine
    <3>3. CTypes'
      BY <1>0, <2>0, <2>1, <2>6, <3>2 DEF AgentLine, CTypes
    <3>4. AgentInv'
      BY <1>1, <2>0, <2>6 DEF AgentLine, AgentInv, NoOrphans
    <3> QED
      BY <1>2, <1>4, <2>2, <2>3, <3>3, <3>4
  <2>7. CASE AgentExits \/ AgentSignals \/ AgentDropped
    <3>1. CTypes'
      BY <1>0, <2>0, <2>1, <2>7 DEF AgentExits, AgentSignals, AgentDropped, CTypes, DropGuard
    <3>2. AgentInv'
      BY <1>1, <2>0, <2>7 DEF AgentExits, AgentSignals, AgentDropped, AgentInv, NoOrphans, DropGuard,
         ExitVerdict
    <3> QED
      BY <1>2, <1>4, <2>2, <2>3, <3>1, <3>2
  <2>8. CASE CDecided \/ ChatRefused \/ ProviderAnswers \/ AgentRefused \/ CLaunch \/ UNCHANGED conversationVars
    <3>1. CTypes'
      BY <1>0, <2>0, <2>1, <2>8
         DEF CDecided, ChatRefused, ProviderAnswers, AgentRefused, CLaunch, conversationVars, CTypes
    <3>2. AgentInv'
      BY <1>1, <2>0, <2>8
         DEF CDecided, ChatRefused, ProviderAnswers, AgentRefused, CLaunch, conversationVars, AgentInv, NoOrphans
    <3> QED
      BY <1>2, <1>4, <2>2, <2>3, <3>1, <3>2
  <2> QED
    BY <1>6, <2>4, <2>5, <2>6, <2>7, <2>8
<1> QED
  BY <1>5, <1>6

\* An event that completes no top-level chat commits nothing.
LEMMA NothingCommitted ==
  ASSUME CTypes, ScanTypes, HistInv, NEW e \in CFact, EmitFact(e), plan' = plan,
         Now'.history = Now.history, \A b \in Buckets : ~EndsChat(plan, e, b)
  PROVE  \A b \in Buckets : Now'.history[b] = Committed(plan, clog, b)'
<1> SUFFICES ASSUME NEW b \in Buckets PROVE Now'.history[b] = Committed(plan, clog, b)'
  OBVIOUS
<1>1. Committed(plan, clog, b)' = Committed(plan, clog, b) \o << >>
  BY CLogGrows DEF EmitFact, CTypes, Exchange
<1>2. Committed(plan, clog, b) = Now.history[b] /\ Now.history[b] \in Seq(TurnSet)
  BY DEF HistInv, ScanTypes, ProgressSet
<1> QED
  BY <1>1, <1>2

\* A step begins: its stage is emptied.
LEMMA CStartStep == ASSUME ConversationInv, CStart \/ BodyStarted PROVE ConversationInv'
<1> USE DEF ConversationInv
<1>1. Now.completed < Len(plan)
  BY DEF CStart, BodyStarted, PlanInv, Busy, Scoping, Now
<1>2. /\ Current \in DOMAIN plan /\ Current \in StepNames(plan) /\ Acting \in StepNames(plan)
      /\ Current \in Int /\ Acting \in Int
      /\ plan[Current].kind # "scoped" => Acting = Current
  BY <1>1, ActingIsStep
<1>3. PICK s \in StepNames(plan) : /\ s = IF CStart THEN Current ELSE Acting
                                   /\ s \in Int
  BY <1>2
<1>4. PICK e : e = Fact("step_started", s)
  OBVIOUS
<1>5. e \in CFact /\ e.ev = "step_started" /\ e.step = s
  <2>1. "step_started" \in CNames
    BY DEF CNames
  <2> QED
    BY <1>3, <1>4, <2>1, FactTypes
<1>6. EmitFact(e) /\ plan' = plan /\ UNCHANGED <<sent, argv, out, group, ccrashes>>
  BY <1>3, <1>4 DEF CStart, BodyStarted
<1>7. /\ Now' = Scan(plan, Now, e) /\ clog' \in Seq(CFact) /\ ReportedErrorFails'
  BY <1>5, <1>6, CLogGrows DEF EmitFact, CTypes, AgentInv
<1>8. Now' \in ProgressSet(plan) /\ Now'.completed = Now.completed /\ Now'.history = Now.history /\ Now'.pending[s] = << >>
  BY <1>5, <1>7, ScanStarted DEF ScanTypes
<1>9. Current' = Current /\ Acting' = Acting
  BY <1>6, <1>8 DEF Current, Acting, Now
<1>10. plan[Current] \in PlanStep
  BY <1>2, PlanIsSeq DEF CTypes
<1>11. /\ cpc' \in {"agentStart", "chatStart", "bodyStart"}
       /\ cpc' = "agentStart" => plan[Current].kind = "agent"
       /\ cpc' = "bodyStart" => plan[Current].kind = "scoped"
       /\ cpc' = "chatStart" => plan[Current].kind \in {"chat", "scoped"} /\ s = Acting
  BY <1>2, <1>3, <1>10 DEF CStart, BodyStarted, PlanStep, PlanInv, Scoping
<1>12. CTypes' /\ ScanTypes'
  BY <1>6, <1>7, <1>8, <1>11 DEF CTypes, ScanTypes, Busy, Chatting, Scoping, AtAgent
<1>13. PlanInv'
  BY <1>1, <1>6, <1>8, <1>9, <1>11 DEF PlanInv, Chatting, Scoping, AtAgent
<1>14. StageInv'
  BY <1>8, <1>9, <1>11 DEF StageInv
<1>15. HistInv'
  <2>1. \A b \in Buckets : ~EndsChat(plan, e, b)
    BY <1>5 DEF EndsChat
  <2>2. \A b \in Buckets : Now'.history[b] = Committed(plan, clog, b)'
    BY <1>5, <1>6, <1>8, <2>1, NothingCommitted
  <2> QED
    BY <1>11, <2>2 DEF HistInv
<1>16. AgentInv'
  <2>1. cpc # "agent"
    BY DEF CStart, BodyStarted
  <2> QED
    BY <1>6, <1>7, <1>11, <2>1 DEF AgentInv, NoOrphans
<1> QED
  BY <1>12, <1>13, <1>14, <1>15, <1>16

\* The session ends with a failed step or with the agent's signal.
LEMMA CEndStep == ASSUME ConversationInv, FailStep \/ CompletionSignaled PROVE ConversationInv'
<1> USE DEF ConversationInv
<1>1. Now.completed < Len(plan)
  BY DEF FailStep, CompletionSignaled, PlanInv, Busy, AtAgent
<1>2. Current \in Int /\ Acting \in Int /\ Acting \in StepNames(plan)
  BY <1>1, ActingIsStep
<1>3. PICK e : e = IF FailStep THEN Fact("step_failed", Acting) ELSE Fact("completion_signaled", Current)
  OBVIOUS
<1>4. e \in CFact /\ (FailStep => e.ev = "step_failed" /\ e.step = Acting) /\ (~FailStep => e.ev = "completion_signaled")
  <2>1. "step_failed" \in CNames /\ "completion_signaled" \in CNames
    BY DEF CNames
  <2>2. CASE FailStep
    BY <1>2, <1>3, <2>1, <2>2, FactTypes
  <2>3. CASE ~FailStep
    BY <1>2, <1>3, <2>1, <2>3, FactTypes
  <2> QED
    BY <2>2, <2>3
<1>5. EmitFact(e) /\ plan' = plan /\ cpc' = "returned" /\ UNCHANGED <<sent, argv, out, group, ccrashes>>
  BY <1>3 DEF FailStep, CompletionSignaled
<1>6. /\ Now' = Scan(plan, Now, e) /\ clog' \in Seq(CFact) /\ ReportedErrorFails'
  <2>1. e.ev # "step_completed"
    BY <1>4
  <2> QED
    BY <1>4, <1>5, <2>1, CLogGrows DEF EmitFact, CTypes, AgentInv
<1>7. Now' \in ProgressSet(plan) /\ Now'.history = Now.history
  <2>1. CASE FailStep
    BY <1>2, <1>4, <1>6, <2>1, ScanFailed DEF ScanTypes
  <2>2. CASE ~FailStep
    BY <1>4, <1>6, <2>2, ScanSignal DEF ScanTypes
  <2> QED
    BY <2>1, <2>2
<1>8. CTypes' /\ ScanTypes'
  BY <1>5, <1>6, <1>7 DEF CTypes, ScanTypes
<1>9. PlanInv' /\ StageInv'
  BY <1>5 DEF PlanInv, StageInv, Busy, Chatting, Scoping, AtAgent
<1>10. HistInv'
  <2>1. \A b \in Buckets : ~EndsChat(plan, e, b)
    BY <1>4 DEF EndsChat
  <2>2. \A b \in Buckets : Now'.history[b] = Committed(plan, clog, b)'
    BY <1>4, <1>5, <1>7, <2>1, NothingCommitted
  <2> QED
    BY <1>5, <2>2 DEF HistInv
<1>11. AgentInv'
  <2>1. cpc # "agent"
    BY DEF FailStep, CompletionSignaled
  <2> QED
    BY <1>5, <1>6, <2>1 DEF AgentInv, NoOrphans
<1> QED
  BY <1>8, <1>9, <1>10, <1>11

\* A turn is staged behind what this attempt has staged.
LEMMA CTurnStep == ASSUME ConversationInv, ChatUserTurn \/ ChatAssistantTurn PROVE ConversationInv'
<1> USE DEF ConversationInv
<1>1. Now.completed < Len(plan) /\ cpc \in Chatting
  BY DEF ChatUserTurn, ChatAssistantTurn, PlanInv, Busy, Chatting
<1>2. Current \in Int /\ Acting \in Int /\ Acting \in StepNames(plan) /\ BucketOf(plan, Acting) \in Buckets
  BY <1>1, ActingIsStep
<1>3. PICK role \in {"user", "assistant"} : role = IF ChatUserTurn THEN "user" ELSE "assistant"
  OBVIOUS
<1>4. PICK e : e = [Fact("chat_message_appended", Acting) EXCEPT !.role = role]
  OBVIOUS
<1>5. e \in CFact /\ e.ev = "chat_message_appended" /\ e.step = Acting /\ e.role = role /\ e.attempt = ccrashes
  <2>1. ccrashes \in Nat /\ << >> \in Ids
    BY ConversationAssumption DEF CTypes, Ids
  <2> QED
    BY <1>2, <1>4, <2>1 DEF Fact, CFact, CNames
<1>6. EmitFact(e) /\ plan' = plan /\ UNCHANGED <<argv, out, group, ccrashes>>
  BY <1>3, <1>4 DEF ChatUserTurn, ChatAssistantTurn
<1>7. /\ Now' = Scan(plan, Now, e) /\ clog' \in Seq(CFact) /\ ReportedErrorFails'
  BY <1>5, <1>6, CLogGrows DEF EmitFact, CTypes, AgentInv
<1>8. /\ Now' \in ProgressSet(plan) /\ Now'.completed = Now.completed /\ Now'.history = Now.history
      /\ Now'.pending[Acting] = Append(Now.pending[Acting], Turn(role, e))
  BY <1>2, <1>5, <1>7, ScanTurn DEF ScanTypes
<1>9. Current' = Current /\ Acting' = Acting
  BY <1>6, <1>8 DEF Current, Acting, Now
<1>10. Turn(role, e) = Mine(role) /\ \A r \in {"user", "assistant"} : Mine(r)' = Mine(r)
  BY <1>5, <1>6, <1>9 DEF Turn, Mine
<1>11. \A b \in Buckets : Now'.history[b] = Committed(plan, clog, b)'
  <2>1. \A b \in Buckets : ~EndsChat(plan, e, b)
    BY <1>5 DEF EndsChat
  <2> QED
    BY <1>5, <1>6, <1>8, <2>1, NothingCommitted
<1>12. CASE ChatUserTurn
  <2>1. cpc' = "provider" /\ sent' = Now.history[BucketOf(plan, Acting)] /\ cpc = "chatStart" /\ role = "user"
    BY <1>3, <1>12 DEF ChatUserTurn, Now
  <2>2. sent' \in Seq(TurnSet)
    BY <1>2, <2>1 DEF ScanTypes, ProgressSet
  <2>3. CTypes' /\ ScanTypes'
    BY <1>6, <1>7, <1>8, <2>1, <2>2 DEF CTypes, ScanTypes, Busy, Chatting
  <2>4. PlanInv'
    BY <1>1, <1>6, <1>8, <1>9, <2>1 DEF PlanInv, Chatting, Scoping, AtAgent
  <2>5. StageInv'
    <3>1. Now'.pending[Acting'] = <<Mine("user")'>>
      BY <1>8, <1>9, <1>10, <2>1 DEF StageInv
    <3> QED
      BY <2>1, <3>1 DEF StageInv
  <2>6. HistInv'
    BY <1>6, <1>8, <1>9, <1>11, <2>1 DEF HistInv
  <2>7. AgentInv'
    BY <1>6, <1>7, <2>1 DEF AgentInv, NoOrphans
  <2> QED
    BY <2>3, <2>4, <2>5, <2>6, <2>7
<1>13. CASE ~ChatUserTurn
  <2>1. cpc' = "chatDone" /\ sent' = sent /\ cpc = "reply" /\ role = "assistant"
    BY <1>3, <1>13 DEF ChatAssistantTurn
  <2>2. CTypes' /\ ScanTypes'
    BY <1>6, <1>7, <1>8, <2>1 DEF CTypes, ScanTypes, Busy, Chatting
  <2>3. PlanInv'
    BY <1>1, <1>6, <1>8, <1>9, <2>1 DEF PlanInv, Chatting, Scoping, AtAgent
  <2>4. StageInv'
    <3>1. Now'.pending[Acting'] = <<Mine("user")', Mine("assistant")'>>
      BY <1>8, <1>9, <1>10, <2>1 DEF StageInv
    <3> QED
      BY <2>1, <3>1 DEF StageInv
  <2>5. HistInv'
    BY <1>11, <2>1 DEF HistInv
  <2>6. AgentInv'
    BY <1>6, <1>7, <2>1 DEF AgentInv, NoOrphans
  <2> QED
    BY <2>2, <2>3, <2>4, <2>5, <2>6
<1> QED
  BY <1>12, <1>13

\* A chat completes: a body step promotes nothing, a top-level one its question and its answer.
LEMMA CChatDoneStep == ASSUME ConversationInv, ChatCompleted PROVE ConversationInv'
<1> USE DEF ConversationInv
<1>1. cpc = "chatDone" /\ Now.completed < Len(plan) /\ plan[Current].kind \in {"chat", "scoped"}
  BY DEF ChatCompleted, PlanInv, Busy, Chatting
<1>2. /\ Current \in DOMAIN plan /\ Current \in Int /\ Acting \in Int /\ ~InScope(Current)
      /\ plan[Current].kind = "scoped" => InScope(Acting)
      /\ plan[Current].kind # "scoped" => Acting = Current
      /\ plan[Current].bucket \in Buckets
  BY <1>1, ActingIsStep
<1>3. PICK e : e = Fact("step_completed", Acting)
  OBVIOUS
<1>4. e \in CFact /\ e.ev = "step_completed" /\ e.step = Acting /\ e.attempt = ccrashes /\ e.result = "none"
  <2>1. "step_completed" \in CNames
    BY DEF CNames
  <2> QED
    BY <1>2, <1>3, <2>1, FactTypes
<1>5. EmitFact(e) /\ plan' = plan /\ sent' = << >> /\ UNCHANGED <<argv, out, group, ccrashes>>
  BY <1>3 DEF ChatCompleted
<1>6. /\ Now' = Scan(plan, Now, e) /\ clog' \in Seq(CFact) /\ ReportedErrorFails'
      /\ \A b \in Buckets : Committed(plan, clog, b)' = Committed(plan, clog, b) \o Exchange(plan, e, b)
  BY <1>4, <1>5, CLogGrows DEF EmitFact, CTypes, AgentInv
<1>7. << >> \in Seq(TurnSet) /\ plan \in Seq(PlanStep)
  BY PlanIsSeq DEF CTypes
<1>8. AgentInv'
  <2>1. cpc' # "agent" /\ cpc' # "agentDone"
    BY DEF ChatCompleted
  <2> QED
    BY <1>1, <1>5, <1>6, <2>1 DEF AgentInv, NoOrphans
<1>9. CASE plan[Current].kind = "scoped"
  <2>1. Now' = Now /\ cpc' = "bodyDone"
    BY <1>2, <1>4, <1>6, <1>9, ScanBody DEF ScanTypes, ChatCompleted
  <2>2. Current' = Current
    BY <2>1 DEF Current, Now
  <2>3. CTypes' /\ ScanTypes'
    BY <1>5, <1>6, <1>7, <2>1 DEF CTypes, ScanTypes, Busy, Scoping
  <2>4. PlanInv' /\ StageInv'
    BY <1>1, <1>5, <1>9, <2>1, <2>2 DEF PlanInv, StageInv, Chatting, AtAgent
  <2>5. HistInv'
    <3>1. \A b \in Buckets : ~EndsChat(plan, e, b)
      BY <1>2, <1>4, <1>9 DEF EndsChat
    <3>2. Now'.history = Now.history
      BY <2>1
    <3>3. \A b \in Buckets : Now'.history[b] = Committed(plan, clog, b)'
      BY <1>4, <1>5, <3>1, <3>2, NothingCommitted
    <3> QED
      BY <2>1, <3>3 DEF HistInv
  <2> QED
    BY <1>8, <2>3, <2>4, <2>5
<1>10. CASE plan[Current].kind = "chat"
  <2>1. e.step = Current /\ cpc' = "idle" /\ Acting = Current
    BY <1>2, <1>4, <1>10 DEF ChatCompleted
  <2>2. /\ Now' \in ProgressSet(plan)
        /\ \A b \in Buckets : Now'.history[b] =
              IF plan[Current].bucket = b THEN Now.history[b] \o Now.pending[Current] ELSE Now.history[b]
    <3>1. e.step \in DOMAIN plan /\ Now \in ProgressSet(plan)
      BY <1>2, <2>1 DEF ScanTypes
    <3>2. /\ Scan(plan, Now, e) \in ProgressSet(plan)
          /\ \A b \in Buckets : Scan(plan, Now, e).history[b] =
               IF plan[e.step].kind = "chat" /\ plan[e.step].bucket = b THEN Now.history[b] \o Now.pending[e.step]
               ELSE Now.history[b]
      BY <1>1, <1>4, <1>7, <3>1, ScanCompleted
    <3> QED
      BY <1>6, <1>10, <2>1, <3>2
  <2>3. CTypes' /\ ScanTypes'
    BY <1>5, <1>6, <1>7, <2>1, <2>2 DEF CTypes, ScanTypes
  <2>4. PlanInv' /\ StageInv'
    BY <2>1 DEF PlanInv, StageInv, Busy, Chatting, Scoping, AtAgent
  <2>5. ASSUME NEW b \in Buckets PROVE Now'.history[b] = Committed(plan, clog, b)'
    <3>1. Committed(plan, clog, b) = Now.history[b] /\ Now.history[b] \in Seq(TurnSet)
      BY DEF HistInv, ScanTypes, ProgressSet
    <3>2. Now.pending[Current] = <<Turn("user", e), Turn("assistant", e)>>
      BY <1>1, <1>4, <2>1 DEF StageInv, Mine, Turn
    <3>3. EndsChat(plan, e, b) <=> plan[Current].bucket = b
      BY <1>2, <1>4, <1>10, <2>1 DEF EndsChat
    <3>4. CASE plan[Current].bucket = b
      <4>1. Exchange(plan, e, b) = <<Turn("user", e), Turn("assistant", e)>>
        BY <3>3, <3>4 DEF Exchange
      <4> QED
        BY <1>6, <2>2, <3>1, <3>2, <3>4, <4>1
    <3>5. CASE plan[Current].bucket # b
      <4>1. Exchange(plan, e, b) = << >>
        BY <3>3, <3>5 DEF Exchange
      <4>2. Now.history[b] \o << >> = Now.history[b]
        BY <3>1
      <4> QED
        BY <1>6, <2>2, <3>1, <3>5, <4>1, <4>2
    <3> QED
      BY <3>4, <3>5
  <2>6. HistInv'
    BY <2>1, <2>5 DEF HistInv
  <2> QED
    BY <1>8, <2>3, <2>4, <2>6
<1> QED
  BY <1>1, <1>9, <1>10

\* A container or an agent completes: it promotes nothing.
LEMMA COtherDoneStep == ASSUME ConversationInv, ContainerCompleted \/ AgentCompleted PROVE ConversationInv'
<1> USE DEF ConversationInv
<1>1. Now.completed < Len(plan) /\ plan[Current].kind # "chat"
  BY DEF ContainerCompleted, AgentCompleted, PlanInv, Busy, AtAgent, Scoping
<1>2. Current \in DOMAIN plan /\ Current \in Int
  BY <1>1, ActingIsStep
<1>3. PICK e : e = IF ContainerCompleted THEN Fact("step_completed", Current)
                   ELSE [Fact("step_completed", Current) EXCEPT !.sid = out.sid, !.result = out.result]
  OBVIOUS
<1>4. e \in CFact /\ e.ev = "step_completed" /\ e.step = Current /\ e.result # "error"
  <2>1. ccrashes \in Nat /\ << >> \in Ids /\ out.sid \in Ids /\ out.result \in {"none", "ok", "error"}
    BY ConversationAssumption DEF CTypes, Ids
  <2>2. ~ContainerCompleted => out.result # "error"
    BY DEF AgentCompleted, AgentInv
  <2>3. CASE ContainerCompleted
    BY <1>2, <1>3, <2>1, <2>3 DEF Fact, CFact, CNames
  <2>4. CASE ~ContainerCompleted
    BY <1>2, <1>3, <2>1, <2>2, <2>4 DEF Fact, CFact, CNames
  <2> QED
    BY <2>3, <2>4
<1>5. /\ EmitFact(e) /\ plan' = plan /\ cpc' = "idle" /\ UNCHANGED <<sent, group, ccrashes>>
      /\ (argv' = argv /\ out' = out) \/ (argv' = << >> /\ out' = NoOutput)
  BY <1>3 DEF ContainerCompleted, AgentCompleted
<1>6. Now' = Scan(plan, Now, e) /\ clog' \in Seq(CFact) /\ ReportedErrorFails'
  BY <1>4, <1>5, CLogGrows DEF EmitFact, CTypes, AgentInv
<1>7. Now' \in ProgressSet(plan) /\ \A b \in Buckets : Now'.history[b] = Now.history[b]
  <2>1. plan \in Seq(PlanStep) /\ Now \in ProgressSet(plan) /\ e.step \in DOMAIN plan
    BY <1>2, <1>4, PlanIsSeq DEF CTypes, ScanTypes
  <2>2. /\ Scan(plan, Now, e) \in ProgressSet(plan)
        /\ \A b \in Buckets : Scan(plan, Now, e).history[b] =
              IF plan[e.step].kind = "chat" /\ plan[e.step].bucket = b THEN Now.history[b] \o Now.pending[e.step]
              ELSE Now.history[b]
    BY <1>1, <1>4, <2>1, ScanCompleted
  <2> QED
    BY <1>1, <1>4, <1>6, <2>2
<1>8. CTypes' /\ ScanTypes'
  <2>1. << >> \in Ids /\ NoOutput \in [lines : 0..MaxLines, result : {"none", "ok", "error"}, sid : Ids]
    BY ConversationAssumption DEF NoOutput, Ids
  <2> QED
    BY <1>5, <1>6, <1>7, <2>1 DEF CTypes, ScanTypes
<1>9. PlanInv' /\ StageInv'
  BY <1>5 DEF PlanInv, StageInv, Busy, Chatting, Scoping, AtAgent
<1>10. HistInv'
  <2>1. \A b \in Buckets : ~EndsChat(plan, e, b)
    BY <1>1, <1>4 DEF EndsChat
  <2>2. Now'.history = Now.history
    BY <1>7 DEF ProgressSet, ScanTypes
  <2>3. \A b \in Buckets : Now'.history[b] = Committed(plan, clog, b)'
    BY <1>4, <1>5, <2>1, <2>2, NothingCommitted
  <2> QED
    BY <1>5, <2>3 DEF HistInv
<1>11. AgentInv'
  <2>1. cpc # "agent"
    BY DEF ContainerCompleted, AgentCompleted
  <2> QED
    BY <1>5, <1>6, <2>1 DEF AgentInv, NoOrphans
<1> QED
  BY <1>8, <1>9, <1>10, <1>11

\* The invariant holds at the start.
LEMMA ConversationStarts == ConversationInit => ConversationInv
<1> SUFFICES ASSUME ConversationInit PROVE ConversationInv
  OBVIOUS
<1>1. Now = NoProgress(plan) /\ \A b \in Buckets : Committed(plan, clog, b) = << >>
  <2>1. << >> \in Seq({0}) /\ 0 \in {0}
    OBVIOUS
  <2> QED
    BY <2>1, ProgressGrows, CommittedGrows DEF ConversationInit, Now
<1>2. Len(plan) \in Nat /\ MaxCCrashes \in Nat /\ MaxLines \in Nat
  BY PlanIsSeq, ConversationAssumption DEF ConversationInit
<1>3. << >> \in Ids /\ << >> \in Seq(TurnSet) /\ << >> \in Seq(CFact)
  BY DEF Ids
<1>4. CTypes
  BY <1>2, <1>3 DEF ConversationInit, CTypes, NoOutput
<1>5. ScanTypes
  BY <1>1, <1>2, <1>3 DEF ScanTypes, NoProgress, ProgressSet, StepNames
<1>6. PlanInv /\ StageInv
  BY DEF ConversationInit, PlanInv, StageInv, Busy, Chatting, Scoping, AtAgent
<1>7. HistInv
  BY <1>1 DEF ConversationInit, HistInv, NoProgress
<1>8. AgentInv
  BY DEF ConversationInit, AgentInv, NoOrphans, ReportedErrorFails
<1> QED
  BY <1>4, <1>5, <1>6, <1>7, <1>8 DEF ConversationInv

\* A provider is sent the turns of the completed chats of its bucket and nothing else (compute_progress,
\* run_chat_step), an error that an agent reports fails its step, and no process of an agent outlives the
\* step (ProcessGroupKillOnDrop): for every workflow and any number of crashes.
THEOREM ConversationIsSafe == ConversationSpec => []ConversationSafe
<1>1. ConversationInit => ConversationInv
  BY ConversationStarts
<1>2. ConversationInv /\ [ConversationNext]_conversationVars => ConversationInv'
  BY QuietStep, CStartStep, CEndStep, CTurnStep, CChatDoneStep, COtherDoneStep
     DEF ConversationNext, ConversationDone
<1>3. ConversationInv => ConversationSafe
  <2> SUFFICES ASSUME ConversationInv PROVE ConversationSafe
    OBVIOUS
  <2>1. ConversationTypeOK
    BY DEF ConversationInv, CTypes, ConversationTypeOK, Ids
  <2>2. HistoryIsCommitted
    <3>1. cpc = "provider" => BucketOf(plan, Acting) \in Buckets
      BY ActingIsStep DEF ConversationInv, PlanInv, Busy, Chatting
    <3> QED
      BY <3>1 DEF ConversationInv, HistInv, HistoryIsCommitted
  <2> QED
    BY <2>1, <2>2 DEF ConversationInv, AgentInv, ConversationSafe
<1> QED
  BY <1>1, <1>2, <1>3, PTL DEF ConversationSpec

-----------------------------------------------------------------------------
(* The scope runner (module Scope).                                        *)
(*                                                                         *)
(* The log alone says where a container is: WalkInv is what an orderly     *)
(* walk over the body leaves there, NextAt the body step that must come    *)
(* next.  PlaceInv ties the runner's position to it at every place, so     *)
(* that what ContainerReplayState::rebuild reads after a crash is where    *)
(* the dead process was; OutputInv does the same for the outputs.          *)

SNames ==
    {"step_started", "chat_user", "chat_assistant", "step_completed", "step_failed", "signal_received",
     "step_timeout_fired", "idle_timeout_fired"}
SPlaces ==
    {"idle", "enter", "loop", "body", "exec", "chatCall", "emit", "cause", "failBody", "finBody", "outer",
     "finOuter", "synth", "returned", "dead"}
Gates == {"none", "continue", "skip", "break"}
Pair == Int \X Int
SEvent == [ev : SNames, at : Pair, out : Seq(Pair), gate : Gates]
Cells(w) == (0..(IF w.rounds = 0 THEN 0 ELSE w.rounds - 1)) \X (0..Len(w.body))
Optional(w) == {o \in Seq(Cells(w)) : Len(o) <= 1}
StateSet(w) ==
    [next : 0..w.rounds, last : Optional(w), broke : BOOLEAN, outs : [0..w.rounds -> Optional(w)]]

\* The types of the runner's state.
STypes ==
    /\ shape \in Shapes /\ slog \in Seq(SEvent) /\ srow \in {"running", "failed", "cancelled"}
    /\ spc \in SPlaces /\ st \in StateSet(shape) /\ at \in Cells(shape)
    /\ value \in Optional(shape) /\ bodyOut \in Optional(shape) /\ final \in Optional(shape)
    /\ verdict \in {"none", "failed", "cancelled", "signal", "timeout", "idle"}
    /\ gate \in Gates /\ inputs \subseteq {"cancel", "shutdown"} /\ crashes \in 0..MaxCrashes

Ahead(a, b) == a[1] < b[1] \/ (a[1] = b[1] /\ a[2] < b[2])
Ends(w, e) == e.gate = "skip" \/ e.at[2] + 1 >= Len(w.body)

\* The last completed body step, and the one that must come next.
LastEv(l) == l[Greatest(Scoped(l))]
NextAt(w, l) ==
    IF Scoped(l) = {} THEN <<0, 0>>
    ELSE IF Ends(w, LastEv(l)) THEN <<LastEv(l).at[1] + 1, 0>>
    ELSE <<LastEv(l).at[1], LastEv(l).at[2] + 1>>
HasBroken(l) == Scoped(l) # {} /\ LastEv(l).gate = "break"

\* One completed body step: it lies inside the container, and its record fits its kind.
StepFits(w, e) ==
    /\ e.at \in (0..(w.rounds - 1)) \X (0..(Len(w.body) - 1))
    /\ w.body[e.at[2] + 1] \in {"cmd", "agent", "chat", "gate"}
    /\ e.out = IF w.body[e.at[2] + 1] = "gate" THEN << >> ELSE <<e.at>>

\* The completed body steps of a log are an orderly walk: inside the container; in order, with nothing
\* behind a break and nothing of an iteration behind its end; no position and no iteration passed over.
WalkFits(w, l) == \A k \in Scoped(l) : StepFits(w, l[k])
WalkOrder(w, l) ==
    \A j, k \in Scoped(l) : j < k =>
        Ahead(l[j].at, l[k].at) /\ l[j].gate # "break" /\ (Ends(w, l[j]) => l[j].at[1] # l[k].at[1])
WalkSteps(l) ==
    \A k \in Scoped(l) : \A p \in 0..(l[k].at[2] - 1) : \E j \in Scoped(l) : l[j].at = <<l[k].at[1], p>>
WalkRounds(w, l) ==
    \A k \in Scoped(l) : \A i \in 0..(l[k].at[1] - 1) : \E j \in Scoped(l) : l[j].at[1] = i /\ Ends(w, l[j])
WalkOf(w, l) == WalkFits(w, l) /\ WalkOrder(w, l) /\ WalkSteps(l) /\ WalkRounds(w, l)

WalkInv == WalkOf(shape, slog)

Walking == {"body", "exec", "chatCall", "emit"}
Undecided == {"enter", "loop", "body", "exec", "chatCall", "emit", "synth", "cause", "failBody"}

\* Nothing is logged of a body behind the end of the container.
OutcomeInv ==
    /\ spc \in Undecided => ~Failed(slog)
    /\ ContainerDone(slog) => spc = "returned" /\ ~Failed(slog)
    /\ spc = "cause" => verdict \in {"signal", "timeout", "idle"}

\* The runner is where the log says the container is.
PlaceInv ==
    /\ spc \in Walking /\ at[2] < Len(shape.body) => at = NextAt(shape, slog)
    /\ spc = "body" /\ at[2] >= Len(shape.body) /\ shape.body # << >> => NextAt(shape, slog) = <<at[1] + 1, 0>>
    /\ spc \in Walking => at[1] < shape.rounds /\ ~HasBroken(slog)
    /\ spc \in Walking \ {"body"} => at[2] < Len(shape.body) /\ Kind # "nested"
    /\ spc \in {"loop"} \cup Walking /\ shape.kind # "call" => (st.broke <=> HasBroken(slog))
    /\ spc \in Walking /\ shape.kind # "call" => st.next = at[1]
    /\ spc = "loop" => shape.kind # "call"
    /\ spc = "loop" /\ HasBroken(slog) => st.next = LastEv(slog).at[1]
    /\ spc = "loop" /\ ~HasBroken(slog) =>
          IF shape.body = << >> THEN StartPosition(st, st.next) = 0
          ELSE NextAt(shape, slog) = <<st.next, StartPosition(st, st.next)>>
    /\ spc = "synth" => shape.body = << >> \/ HasBroken(slog) \/ NextAt(shape, slog)[1] >= shape.rounds
    /\ spc = "synth" /\ shape.kind # "call" => st.next = IF HasBroken(slog) THEN LastEv(slog).at[1] ELSE shape.rounds
    /\ spc = "chatCall" => Kind = "chat"
    /\ spc = "emit" => Kind \in {"cmd", "agent", "chat", "gate"} /\ (Kind = "gate" => gate \in {"continue", "skip", "break"})

\* The outputs a resume can find again are known; so are those of a first process.
Known == crashes = 0 \/ Recoverable

OutputInv ==
    /\ crashes = 0 => spc # "dead" /\ (spc \in {"idle", "enter"} => Scoped(slog) = {})
    /\ crashes = 0 /\ spc = "loop" /\ ~HasBroken(slog) => NextAt(shape, slog)[2] = 0
    /\ Known /\ spc \in Walking => bodyOut = LastOutput(slog, at[1])
    /\ Known /\ shape.kind # "call" =>
          /\ spc \in {"loop", "synth"} /\ (shape.kind = "map" \/ ~HasBroken(slog)) =>
                \A i \in 0..shape.rounds : st.outs[i] = LastOutput(slog, i)
          /\ spc \in Walking =>
                /\ \A i \in 0..shape.rounds : i # at[1] => st.outs[i] = LastOutput(slog, i)
                /\ st.outs[at[1]] # << >> => LastOutput(slog, at[1]) # << >>
    /\ Known /\ shape.kind = "repeat" =>
          /\ spc \in Walking => OrElse(bodyOut, final) = LastOf(slog, Scoped(slog))
          /\ spc \in {"loop", "synth"} /\ (HasBroken(slog) \/ NextAt(shape, slog)[2] = 0) => final = LastOf(slog, Scoped(slog))
    /\ Known /\ shape.kind = "call" /\ spc = "synth" => final = LastOf(slog, Scoped(slog))

ScopeInv == STypes /\ WalkInv /\ OutcomeInv /\ PlaceInv /\ OutputInv /\ ValueOfLog /\ OutputOfLog

\* The least of some places of a log.
LEMMA LeastIs == ASSUME NEW S, S \subseteq Nat, S # {} PROVE Least(S) \in S /\ \A y \in S : Least(S) <= y
<1>1. \E x \in S : \A y \in S : x <= y
  BY LeastOne
<1> QED
  BY <1>1 DEF Least

\* The greatest of them.
LEMMA GreatestIs ==
  ASSUME NEW n \in Nat, NEW S, S \subseteq 0..n, S # {}
  PROVE  Greatest(S) \in S /\ \A y \in S : y <= Greatest(S)
<1>1. PICK m \in {n - x : x \in S} : \A j \in {n - x : x \in S} : m <= j
  <2>1. \A x \in S : n - x \in Nat
    OBVIOUS
  <2>2. {n - x : x \in S} \subseteq Nat /\ {n - x : x \in S} # {}
    BY <2>1
  <2> QED
    BY <2>2, LeastOne
<1>2. PICK x \in S : m = n - x
  OBVIOUS
<1>3. \A y \in S : y <= x
  BY <1>1, <1>2
<1>4. \E z \in S : \A y \in S : y <= z
  BY <1>3
<1> QED
  BY <1>4 DEF Greatest

\* There is only one greatest number.
LEMMA GreatestWhen ==
  ASSUME NEW S, NEW x \in S, S \subseteq Int, \A y \in S : y <= x
  PROVE  Greatest(S) = x
<1>1. PICK g : g = Greatest(S)
  OBVIOUS
<1>2. g \in S /\ \A y \in S : y <= g
  BY <1>1 DEF Greatest
<1>3. g \in Int /\ x \in Int /\ g <= x /\ x <= g
  BY <1>2
<1> QED
  BY <1>1, <1>3

\* There is only one least number.
LEMMA LeastWhen ==
  ASSUME NEW S, NEW x \in S, S \subseteq Int, \A y \in S : x <= y
  PROVE  Least(S) = x
<1>1. PICK g : g = Least(S)
  OBVIOUS
<1>2. g \in S /\ \A y \in S : g <= y
  BY <1>1 DEF Least
<1>3. g \in Int /\ x \in Int /\ g <= x /\ x <= g
  BY <1>2
<1> QED
  BY <1>1, <1>3

\* The container.
LEMMA ShapeTypes ==
  ASSUME shape \in Shapes
  PROVE  /\ shape.kind \in {"call", "repeat", "map"} /\ shape.body \in Seq(BodyKinds)
         /\ shape.rounds \in Nat /\ Len(shape.body) \in Nat /\ DOMAIN shape.body = 1..Len(shape.body)
         /\ shape.kind = "call" => shape.rounds = 1
         /\ shape.body = << >> <=> Len(shape.body) = 0
         /\ \A p \in 1..Len(shape.body) : shape.body[p] \in BodyKinds
<1>1. shape.kind \in {"call", "repeat", "map"} /\ shape.body \in Seq(BodyKinds) /\ shape.rounds \in Nat
      /\ (shape.kind = "call" => shape.rounds = 1)
  BY ScopeAssumption
<1>2. PICK b \in Seq(BodyKinds) : b = shape.body
  BY <1>1
<1>3. Len(b) \in Nat /\ DOMAIN b = 1..Len(b) /\ (b = << >> <=> Len(b) = 0) /\ \A p \in 1..Len(b) : b[p] \in BodyKinds
  OBVIOUS
<1> QED
  BY <1>1, <1>2, <1>3

\* The completed body steps of a log.
LEMMA ScopedTypes ==
  ASSUME NEW l \in Seq(SEvent)
  PROVE  /\ Scoped(l) \subseteq DOMAIN l /\ Scoped(l) \subseteq 0..Len(l) /\ Scoped(l) \subseteq Nat /\ Len(l) \in Nat
         /\ \A k \in Scoped(l) : /\ l[k] \in SEvent /\ l[k].at \in Pair /\ l[k].at[1] \in Int /\ l[k].at[2] \in Int
                                 /\ l[k].out \in Seq(Pair) /\ l[k].gate \in Gates
<1>1. Scoped(l) \subseteq DOMAIN l /\ Len(l) \in Nat /\ DOMAIN l = 1..Len(l) /\ \A k \in DOMAIN l : l[k] \in SEvent
  BY DEF Scoped
<1>2. \A e \in SEvent : e.at \in Pair /\ e.at[1] \in Int /\ e.at[2] \in Int /\ e.out \in Seq(Pair) /\ e.gate \in Gates
  BY DEF SEvent, Pair
<1> QED
  BY <1>1, <1>2

\* The last of them.
LEMMA LastTypes ==
  ASSUME NEW l \in Seq(SEvent), Scoped(l) # {}
  PROVE  /\ Greatest(Scoped(l)) \in Scoped(l) /\ \A k \in Scoped(l) : k <= Greatest(Scoped(l))
         /\ LastEv(l) = l[Greatest(Scoped(l))] /\ LastEv(l) \in SEvent
         /\ LastEv(l).at[1] \in Int /\ LastEv(l).at[2] \in Int
<1>1. Scoped(l) \subseteq 0..Len(l) /\ Len(l) \in Nat
  BY ScopedTypes
<1>2. Greatest(Scoped(l)) \in Scoped(l) /\ \A k \in Scoped(l) : k <= Greatest(Scoped(l))
  BY <1>1, GreatestIs
<1> QED
  BY <1>2, ScopedTypes DEF LastEv

\* Two logs with the same completed body steps read the same.
LEMMA SameWalk ==
  ASSUME NEW w, NEW l, NEW m, Scoped(m) = Scoped(l), \A k \in Scoped(l) : m[k] = l[k],
         Scoped(l) # {} => Greatest(Scoped(l)) \in Scoped(l),
         \A P \in SUBSET Scoped(l) : P # {} => Greatest(P) \in P
  PROVE  /\ Scoped(l) # {} => LastEv(m) = LastEv(l)
         /\ NextAt(w, m) = NextAt(w, l)
         /\ HasBroken(m) <=> HasBroken(l)
         /\ WalkOf(w, l) => WalkOf(w, m)
         /\ \A i : Round(m, i) = Round(l, i) /\ LastOutput(m, i) = LastOutput(l, i)
         /\ LastOf(m, Scoped(m)) = LastOf(l, Scoped(l))
<1>1. Scoped(l) # {} => LastEv(m) = LastEv(l)
  BY DEF LastEv
<1>2. NextAt(w, m) = NextAt(w, l)
  BY <1>1 DEF NextAt
<1>3. HasBroken(m) <=> HasBroken(l)
  BY <1>1 DEF HasBroken
<1>4. WalkOf(w, l) => WalkOf(w, m)
  <2> SUFFICES ASSUME WalkOf(w, l) PROVE WalkOf(w, m)
    OBVIOUS
  <2>1. WalkFits(w, m) /\ WalkOrder(w, m)
    BY DEF WalkOf, WalkFits, WalkOrder
  <2>2. WalkSteps(m)
    BY DEF WalkOf, WalkSteps
  <2>3. WalkRounds(w, m)
    BY DEF WalkOf, WalkRounds
  <2> QED
    BY <2>1, <2>2, <2>3 DEF WalkOf
<1>5. \A i : Round(m, i) = Round(l, i)
  BY DEF Round
<1>6. \A P \in SUBSET Scoped(l) : LastOf(m, P) = LastOf(l, P)
  <2> SUFFICES ASSUME NEW P \in SUBSET Scoped(l) PROVE LastOf(m, P) = LastOf(l, P)
    OBVIOUS
  <2>1. WithOutput(m, P) = WithOutput(l, P) /\ WithOutput(l, P) \subseteq Scoped(l)
    BY DEF WithOutput
  <2>2. WithOutput(l, P) # {} => Greatest(WithOutput(l, P)) \in Scoped(l)
    BY <2>1
  <2> QED
    BY <2>1, <2>2 DEF LastOf
<1>7. \A i : LastOutput(m, i) = LastOutput(l, i)
  <2>1. \A i : Round(l, i) \subseteq Scoped(l)
    BY DEF Round
  <2> QED
    BY <1>5, <1>6, <2>1 DEF LastOutput
<1> QED
  BY <1>1, <1>2, <1>3, <1>4, <1>5, <1>6, <1>7

\* Any number of completed body steps has a last one.
LEMMA PartGreatest ==
  ASSUME NEW l \in Seq(SEvent), NEW P \in SUBSET Scoped(l), P # {}
  PROVE  Greatest(P) \in P /\ \A y \in P : y <= Greatest(P)
<1>1. P \subseteq 0..Len(l) /\ Len(l) \in Nat
  BY ScopedTypes
<1> QED
  BY <1>1, GreatestIs

\* A log with one more event.
Grown(l, e) == Append(l, e)

\* One more event that completes no body step changes nothing of what is read of the walk.
LEMMA QuietEvent ==
  ASSUME NEW w, NEW l \in Seq(SEvent), NEW e \in SEvent, ~(e.ev = "step_completed" /\ e.at # Top), NEW m, m = Grown(l, e)
  PROVE  /\ m \in Seq(SEvent) /\ Scoped(m) = Scoped(l) /\ \A k \in Scoped(l) : m[k] = l[k]
         /\ Scoped(l) # {} => LastEv(m) = LastEv(l)
         /\ NextAt(w, m) = NextAt(w, l)
         /\ HasBroken(m) <=> HasBroken(l)
         /\ WalkOf(w, l) => WalkOf(w, m)
         /\ \A i : Round(m, i) = Round(l, i) /\ LastOutput(m, i) = LastOutput(l, i)
         /\ LastOf(m, Scoped(m)) = LastOf(l, Scoped(l))
<1>1. /\ m \in Seq(SEvent) /\ DOMAIN m = DOMAIN l \cup {Len(l) + 1} /\ m[Len(l) + 1] = e
      /\ \A k \in DOMAIN l : m[k] = l[k]
  BY DEF Grown
<1>2. Scoped(m) = Scoped(l) /\ \A k \in Scoped(l) : m[k] = l[k]
  BY <1>1 DEF Scoped
<1>3. \A P \in SUBSET Scoped(l) : P # {} => Greatest(P) \in P
  BY PartGreatest
<1> HIDE DEF Scoped
<1> QED
  BY <1>1, <1>2, <1>3, SameWalk

\* What the outcome of the container becomes with one more event.
LEMMA OutcomeGrows ==
  ASSUME NEW l \in Seq(SEvent), NEW e \in SEvent, NEW m, m = Append(l, e)
  PROVE  /\ Failed(m) <=> Failed(l) \/ e.ev = "step_failed"
         /\ ContainerDone(m) <=> ContainerDone(l) \/ (e.ev = "step_completed" /\ e.at = Top)
         /\ ~(e.ev = "step_completed" /\ e.at = Top) => CompletedWith(m) = CompletedWith(l)
         /\ ~ContainerDone(l) => CompletedWith(l) = {}
         /\ ~ContainerDone(l) /\ e.ev = "step_completed" /\ e.at = Top => CompletedWith(m) = {e.out}
<1>1. /\ DOMAIN m = DOMAIN l \cup {Len(l) + 1} /\ m[Len(l) + 1] = e /\ Len(l) + 1 \notin DOMAIN l
      /\ \A k \in DOMAIN l : m[k] = l[k]
  OBVIOUS
<1>2. Failed(m) <=> Failed(l) \/ e.ev = "step_failed"
  BY <1>1 DEF Failed
<1>3. ContainerDone(m) <=> ContainerDone(l) \/ (e.ev = "step_completed" /\ e.at = Top)
  BY <1>1 DEF ContainerDone
<1>4. ~(e.ev = "step_completed" /\ e.at = Top) => CompletedWith(m) = CompletedWith(l)
  <2> SUFFICES ASSUME ~(e.ev = "step_completed" /\ e.at = Top) PROVE CompletedWith(m) = CompletedWith(l)
    OBVIOUS
  <2>1. {x \in DOMAIN m : m[x].ev = "step_completed" /\ m[x].at = Top} = {x \in DOMAIN l : l[x].ev = "step_completed" /\ l[x].at = Top}
    BY <1>1
  <2> QED
    BY <1>1, <2>1 DEF CompletedWith
<1>5. ~ContainerDone(l) => CompletedWith(l) = {}
  BY DEF ContainerDone, CompletedWith
<1>6. ~ContainerDone(l) /\ e.ev = "step_completed" /\ e.at = Top => CompletedWith(m) = {e.out}
  <2> SUFFICES ASSUME ~ContainerDone(l), e.ev = "step_completed", e.at = Top PROVE CompletedWith(m) = {e.out}
    OBVIOUS
  <2>1. {x \in DOMAIN m : m[x].ev = "step_completed" /\ m[x].at = Top} = {Len(l) + 1}
    BY <1>1 DEF ContainerDone
  <2> QED
    BY <1>1, <2>1 DEF CompletedWith
<1> QED
  BY <1>2, <1>3, <1>4, <1>5, <1>6

\* The last output of iteration i, which was o, behind one more completed body step; and the step to come behind it.
OutputWith(e, i, o) == IF e.at[1] = i THEN OrElse(e.out, o) ELSE o
NextAfter(w, e) == IF Ends(w, e) THEN <<e.at[1] + 1, 0>> ELSE <<e.at[1], e.at[2] + 1>>

\* One more completed body step.
LEMMA BodyEvent ==
  ASSUME NEW l \in Seq(SEvent), NEW e \in SEvent, e.ev = "step_completed", e.at # Top, NEW m, m = Grown(l, e)
  PROVE  /\ m \in Seq(SEvent) /\ Scoped(m) = Scoped(l) \cup {Len(l) + 1} /\ Len(l) + 1 \notin Scoped(l)
         /\ m[Len(l) + 1] = e /\ LastEv(m) = e
         /\ \A k \in Scoped(l) : m[k] = l[k] /\ k < Len(l) + 1
         /\ \A i : LastOutput(m, i) = OutputWith(e, i, LastOutput(l, i))
         /\ LastOf(m, Scoped(m)) = OrElse(e.out, LastOf(l, Scoped(l)))
<1> DEFINE n == Len(l) + 1
<1>1. /\ m \in Seq(SEvent) /\ DOMAIN m = DOMAIN l \cup {n} /\ m[n] = e /\ n \in Nat
      /\ \A k \in DOMAIN l : m[k] = l[k] /\ k < n /\ k \in Nat
  BY DEF Grown
<1> HIDE DEF n
<1>2. /\ Scoped(m) = Scoped(l) \cup {n} /\ n \notin Scoped(l)
      /\ \A k \in Scoped(l) : m[k] = l[k] /\ k < n /\ k \in Nat
  BY <1>1 DEF Scoped
<1>3. LastEv(m) = e
  <2>1. n \in Scoped(m) /\ Scoped(m) \subseteq Int /\ \A y \in Scoped(m) : y <= n
    BY <1>1, <1>2
  <2>2. Greatest(Scoped(m)) = n
    BY <2>1, GreatestWhen
  <2> QED
    BY <1>1, <2>2 DEF LastEv
<1>4. ASSUME NEW P \in SUBSET Scoped(l)
      PROVE  /\ LastOf(m, P) = LastOf(l, P)
             /\ LastOf(m, P \cup {n}) = OrElse(e.out, LastOf(l, P))
  <2>1. WithOutput(m, P) = WithOutput(l, P) /\ WithOutput(l, P) \subseteq Scoped(l)
    BY <1>2 DEF WithOutput
  <2>2. LastOf(m, P) = LastOf(l, P)
    <3>1. WithOutput(l, P) # {} => Greatest(WithOutput(l, P)) \in Scoped(l)
      BY <2>1, PartGreatest
    <3> QED
      BY <1>2, <2>1, <3>1 DEF LastOf
  <2>3. CASE e.out = << >>
    <3>1. WithOutput(m, P \cup {n}) = WithOutput(m, P)
      BY <1>1, <2>3 DEF WithOutput
    <3> QED
      BY <2>2, <2>3, <3>1 DEF LastOf, OrElse
  <2>4. CASE e.out # << >>
    <3>1. WithOutput(m, P \cup {n}) = WithOutput(m, P) \cup {n}
      BY <1>1, <2>4 DEF WithOutput
    <3>2. Greatest(WithOutput(m, P) \cup {n}) = n
      <4>1. n \in WithOutput(m, P) \cup {n} /\ WithOutput(m, P) \cup {n} \subseteq Int
        BY <1>1, <1>2, <2>1
      <4>2. \A y \in WithOutput(m, P) \cup {n} : y <= n
        BY <1>1, <1>2, <2>1
      <4> QED
        BY <4>1, <4>2, GreatestWhen
    <3>3. LastOf(m, P \cup {n}) = e.out
      BY <1>1, <3>1, <3>2 DEF LastOf
    <3> QED
      BY <2>2, <2>4, <3>3 DEF OrElse
  <2> QED
    BY <2>2, <2>3, <2>4
<1>5. ASSUME NEW i
      PROVE  LastOutput(m, i) = OutputWith(e, i, LastOutput(l, i))
  <2>1. Round(l, i) \subseteq Scoped(l)
    BY DEF Round
  <2>2. Round(m, i) = IF e.at[1] = i THEN Round(l, i) \cup {n} ELSE Round(l, i)
    BY <1>1, <1>2 DEF Round
  <2> QED
    BY <1>4, <2>1, <2>2 DEF LastOutput, OutputWith
<1>6. LastOf(m, Scoped(m)) = OrElse(e.out, LastOf(l, Scoped(l)))
  BY <1>2, <1>4
<1> QED
  BY <1>1, <1>2, <1>3, <1>5, <1>6 DEF n

\* Where the last completed body step is among the others.
LEMMA LastIsLast ==
  ASSUME NEW w, NEW l \in Seq(SEvent), WalkOf(w, l), NEW j \in Scoped(l), NEW e, e = LastEv(l)
  PROVE  /\ l[j].at[1] <= e.at[1]
         /\ l[j] = e \/ (Ahead(l[j].at, e.at) /\ l[j].gate # "break" /\ (Ends(w, l[j]) => l[j].at[1] # e.at[1]))
         /\ StepFits(w, e) /\ e \in SEvent /\ e.at[1] \in Int /\ e.at[2] \in Int
<1>1. PICK g \in Scoped(l) : g = Greatest(Scoped(l)) /\ e = l[g] /\ \A k \in Scoped(l) : k <= g
  BY LastTypes
<1>2. j \in Int /\ g \in Int /\ j <= g /\ l[j].at[1] \in Int /\ e.at[1] \in Int /\ e.at[2] \in Int /\ e \in SEvent
  BY <1>1, ScopedTypes
<1>3. CASE j = g
  BY <1>1, <1>2, <1>3 DEF WalkOf, WalkFits
<1>4. CASE j < g
  <2>1. Ahead(l[j].at, e.at) /\ l[j].gate # "break" /\ (Ends(w, l[j]) => l[j].at[1] # e.at[1])
    BY <1>1, <1>4 DEF WalkOf, WalkOrder
  <2>2. l[j].at[1] <= e.at[1]
    BY <1>2, <2>1 DEF Ahead
  <2> QED
    BY <1>1, <1>2, <2>1, <2>2 DEF WalkOf, WalkFits
<1> QED
  BY <1>2, <1>3, <1>4

\* The step that comes next continues the walk.
LEMMA WalkGrows ==
  ASSUME NEW w, NEW l \in Seq(SEvent), NEW e \in SEvent, NEW m, NEW n \in Nat,
         Scoped(m) = Scoped(l) \cup {n}, n \notin Scoped(l), m[n] = e, \A k \in Scoped(l) : m[k] = l[k] /\ k < n,
         WalkOf(w, l), ~HasBroken(l), e.at = NextAt(w, l), StepFits(w, e)
  PROVE  WalkOf(w, m)
<1>1. /\ Scoped(m) = Scoped(l) \cup {n} /\ n \notin Scoped(l) /\ m[n] = e
      /\ \A k \in Scoped(l) : m[k] = l[k] /\ k < n /\ k \in Int
      /\ n \in Int
  BY ScopedTypes
<1>2. e.at[1] \in Int /\ e.at[2] \in Int
  BY DEF SEvent, Pair
<1>3. WalkFits(w, m)
  BY <1>1 DEF WalkOf, WalkFits
<1>4. CASE Scoped(l) = {}
  <2>1. Scoped(m) = {n} /\ e.at[1] = 0 /\ e.at[2] = 0
    BY <1>1, <1>4 DEF NextAt
  <2>2. WalkOrder(w, m)
    BY <1>1, <2>1 DEF WalkOrder
  <2>3. 0..(e.at[2] - 1) = {} /\ 0..(e.at[1] - 1) = {}
    BY <2>1
  <2>4. WalkSteps(m) /\ WalkRounds(w, m)
    BY <1>1, <2>1, <2>3 DEF WalkSteps, WalkRounds
  <2> QED
    BY <1>3, <2>2, <2>4 DEF WalkOf
<1>5. CASE Scoped(l) # {}
  <2>1. PICK g \in Scoped(l) : g = Greatest(Scoped(l)) /\ l[g] = LastEv(l)
    BY <1>5, LastTypes
  <2>2. PICK d : d = LastEv(l)
    OBVIOUS
  <2>3. /\ d.at[1] \in Int /\ d.at[2] \in Int /\ d.gate # "break" /\ StepFits(w, d)
        /\ d \in SEvent /\ d.at \in Pair
    BY <1>5, <2>1, <2>2, LastIsLast DEF HasBroken, SEvent
  <2>4. \/ Ends(w, d) /\ e.at[1] = d.at[1] + 1 /\ e.at[2] = 0
        \/ ~Ends(w, d) /\ e.at[1] = d.at[1] /\ e.at[2] = d.at[2] + 1
    BY <1>5, <2>2 DEF NextAt
  <2>5. ASSUME NEW j \in Scoped(l)
        PROVE  Ahead(l[j].at, e.at) /\ l[j].gate # "break" /\ (Ends(w, l[j]) => l[j].at[1] # e.at[1])
    <3>1. l[j].at[1] \in Int /\ l[j].at[2] \in Int /\ l[j].at[1] <= d.at[1]
      BY <2>2, ScopedTypes, LastIsLast
    <3>2. CASE l[j] = d
      BY <2>3, <2>4, <3>2 DEF Ahead
    <3>3. CASE Ahead(l[j].at, d.at) /\ l[j].gate # "break" /\ (Ends(w, l[j]) => l[j].at[1] # d.at[1])
      BY <2>3, <2>4, <3>1, <3>3 DEF Ahead
    <3> QED
      BY <2>2, <3>2, <3>3, LastIsLast
  <2>6. WalkOrder(w, m)
    <3> SUFFICES ASSUME NEW j \in Scoped(m), NEW k \in Scoped(m), j < k
                 PROVE  Ahead(m[j].at, m[k].at) /\ m[j].gate # "break" /\ (Ends(w, m[j]) => m[j].at[1] # m[k].at[1])
      BY DEF WalkOrder
    <3>1. CASE k = n
      <4>1. j \in Scoped(l)
        BY <1>1, <3>1
      <4> QED
        BY <1>1, <2>5, <3>1, <4>1
    <3>2. CASE k # n
      <4>1. k \in Scoped(l) /\ j \in Scoped(l)
        BY <1>1, <3>2
      <4> QED
        BY <1>1, <4>1 DEF WalkOf, WalkOrder
    <3> QED
      BY <3>1, <3>2
  <2>7. WalkSteps(m)
    <3> SUFFICES ASSUME NEW k \in Scoped(m), NEW p \in 0..(m[k].at[2] - 1)
                 PROVE  \E j \in Scoped(m) : m[j].at = <<m[k].at[1], p>>
      BY DEF WalkSteps
    <3>1. CASE k # n
      <4>1. k \in Scoped(l) /\ m[k] = l[k]
        BY <1>1, <3>1
      <4>2. PICK j \in Scoped(l) : l[j].at = <<l[k].at[1], p>>
        BY <4>1 DEF WalkOf, WalkSteps
      <4> QED
        BY <1>1, <4>1, <4>2
    <3>2. CASE k = n
      <4>1. m[k] = e /\ p \in 0..(e.at[2] - 1)
        BY <1>1, <3>2
      <4>2. e.at[1] = d.at[1] /\ e.at[2] = d.at[2] + 1
        BY <1>2, <2>4, <4>1
      <4>3. p = d.at[2] \/ p \in 0..(d.at[2] - 1)
        BY <2>3, <4>1, <4>2
      <4>4. d.at = <<d.at[1], d.at[2]>>
        BY <2>3 DEF Pair
      <4>5. \E j \in Scoped(l) : l[j].at = <<d.at[1], p>>
        <5>1. CASE p = d.at[2]
          BY <2>1, <2>2, <4>4, <5>1
        <5>2. CASE p \in 0..(d.at[2] - 1)
          <6>1. l[g] = d
            BY <2>1, <2>2
          <6> QED
            BY <5>2, <6>1 DEF WalkOf, WalkSteps
        <5> QED
          BY <4>3, <5>1, <5>2
      <4> QED
        BY <1>1, <4>1, <4>2, <4>5
    <3> QED
      BY <3>1, <3>2
  <2>8. WalkRounds(w, m)
    <3> SUFFICES ASSUME NEW k \in Scoped(m), NEW i \in 0..(m[k].at[1] - 1)
                 PROVE  \E j \in Scoped(m) : m[j].at[1] = i /\ Ends(w, m[j])
      BY DEF WalkRounds
    <3>1. CASE k # n
      <4>1. k \in Scoped(l) /\ m[k] = l[k]
        BY <1>1, <3>1
      <4>2. PICK j \in Scoped(l) : l[j].at[1] = i /\ Ends(w, l[j])
        BY <4>1 DEF WalkOf, WalkRounds
      <4> QED
        BY <1>1, <4>2
    <3>2. CASE k = n
      <4>1. m[k] = e /\ i \in 0..(e.at[1] - 1)
        BY <1>1, <3>2
      <4>2. (i = d.at[1] /\ Ends(w, d)) \/ i \in 0..(d.at[1] - 1)
        BY <1>2, <2>3, <2>4, <4>1
      <4>3. \E j \in Scoped(l) : l[j].at[1] = i /\ Ends(w, l[j])
        BY <2>1, <2>2, <4>2 DEF WalkOf, WalkRounds
      <4> QED
        BY <1>1, <4>3
    <3> QED
      BY <3>1, <3>2
  <2> QED
    BY <1>3, <2>6, <2>7, <2>8 DEF WalkOf
<1> QED
  BY <1>4, <1>5

\* Optional coordinates.
LEMMA OptionalTypes ==
  ASSUME shape \in Shapes
  PROVE  /\ << >> \in Optional(shape)
         /\ \A c \in Cells(shape) : <<c>> \in Optional(shape)
         /\ \A a, b \in Optional(shape) : OrElse(a, b) \in Optional(shape)
         /\ \A i \in 0..(shape.rounds - 1), p \in 0..Len(shape.body) : <<i, p>> \in Cells(shape)
         /\ \A c \in Cells(shape) : c[1] \in Int /\ c[2] \in Int /\ c[1] >= 0 /\ c[2] >= 0 /\ c[2] <= Len(shape.body)
         /\ <<0, 0>> \in Cells(shape)
<1>1. shape.rounds \in Nat /\ Len(shape.body) \in Nat
  BY ShapeTypes
<1>2. /\ << >> \in Optional(shape)
      /\ \A c \in Cells(shape) : <<c>> \in Optional(shape)
  BY DEF Optional
<1>3. \A a, b \in Optional(shape) : OrElse(a, b) \in Optional(shape)
  BY DEF OrElse
<1>4. \A i \in 0..(shape.rounds - 1), p \in 0..Len(shape.body) : <<i, p>> \in Cells(shape)
  BY <1>1 DEF Cells
<1>5. \A c \in Cells(shape) : c[1] \in Int /\ c[2] \in Int /\ c[1] >= 0 /\ c[2] >= 0 /\ c[2] <= Len(shape.body)
  BY <1>1 DEF Cells
<1>6. <<0, 0>> \in Cells(shape)
  BY <1>1 DEF Cells
<1> QED
  BY <1>2, <1>3, <1>4, <1>5, <1>6

\* What a completed body step holds.
LEMMA FitsTypes ==
  ASSUME shape \in Shapes, NEW e, StepFits(shape, e)
  PROVE  /\ e.at[1] \in 0..(shape.rounds - 1) /\ e.at[2] \in 0..(Len(shape.body) - 1)
         /\ e.at[2] + 1 \in 1..Len(shape.body) /\ e.at = <<e.at[1], e.at[2]>> /\ e.at \in Cells(shape)
         /\ e.out \in Optional(shape) /\ shape.body # << >>
         /\ shape.body[e.at[2] + 1] # "gate" <=> e.out # << >>
         /\ shape.body[e.at[2] + 1] # "gate" => e.out = <<e.at>>
<1>1. shape.rounds \in Nat /\ Len(shape.body) \in Nat /\ (shape.body = << >> <=> Len(shape.body) = 0)
  BY ShapeTypes
<1>2. /\ e.at[1] \in 0..(shape.rounds - 1) /\ e.at[2] \in 0..(Len(shape.body) - 1)
      /\ e.at = <<e.at[1], e.at[2]>>
  BY DEF StepFits
<1>3. e.at[2] + 1 \in 1..Len(shape.body) /\ shape.body # << >> /\ e.at[2] \in 0..Len(shape.body)
  BY <1>1, <1>2
<1>4. e.at \in Cells(shape)
  BY <1>2, <1>3, OptionalTypes
<1>5. <<e.at>> # << >>
  OBVIOUS
<1>6. << >> \in Optional(shape) /\ <<e.at>> \in Optional(shape)
  BY <1>4, OptionalTypes
<1> QED
  BY <1>2, <1>3, <1>4, <1>5, <1>6 DEF StepFits

\* The last output of some completed body steps.
LEMMA LastOfTypes ==
  ASSUME shape \in Shapes, NEW l \in Seq(SEvent), WalkOf(shape, l), NEW P \in SUBSET Scoped(l)
  PROVE  /\ LastOf(l, P) \in Optional(shape)
         /\ LastOf(l, P) = << >> <=> \A k \in P : l[k].out = << >>
<1>1. WithOutput(l, P) \subseteq Scoped(l) /\ WithOutput(l, P) \subseteq P
  BY DEF WithOutput
<1>2. CASE WithOutput(l, P) = {}
  BY <1>2, OptionalTypes DEF LastOf, WithOutput
<1>3. CASE WithOutput(l, P) # {}
  <2>1. PICK g \in WithOutput(l, P) : g = Greatest(WithOutput(l, P))
    BY <1>1, <1>3, PartGreatest
  <2>2. LastOf(l, P) = l[g].out /\ l[g].out # << >> /\ g \in P
    BY <1>1, <1>3, <2>1 DEF LastOf, WithOutput
  <2>3. l[g].out \in Optional(shape)
    BY <1>1, <2>1, FitsTypes DEF WalkOf, WalkFits
  <2> QED
    BY <2>2, <2>3
<1> QED
  BY <1>2, <1>3

\* The positions and the gates of the last iteration on record.
LEMMA LastRound ==
  ASSUME shape \in Shapes, NEW l \in Seq(SEvent), WalkOf(shape, l), Scoped(l) # {}, NEW e, e = LastEv(l)
  PROVE  /\ Positions(l, e.at[1]) = 0..e.at[2]
         /\ RoundOver(l, e.at[1]) <=> Ends(shape, e)
<1>1. PICK g \in Scoped(l) : e = l[g]
  BY LastTypes
<1>2. /\ e.at[1] \in 0..(shape.rounds - 1) /\ e.at[2] \in 0..(Len(shape.body) - 1) /\ e.at = <<e.at[1], e.at[2]>>
      /\ Len(shape.body) \in Nat /\ shape.rounds \in Nat
  BY <1>1, FitsTypes, ShapeTypes DEF WalkOf, WalkFits
<1>3. Positions(l, e.at[1]) = 0..e.at[2]
  <2>1. ASSUME NEW k \in Scoped(l), l[k].at[1] = e.at[1] PROVE l[k].at[2] \in 0..e.at[2]
    <3>1. l[k].at[2] \in 0..(Len(shape.body) - 1)
      BY FitsTypes DEF WalkOf, WalkFits
    <3>2. l[k] = e \/ Ahead(l[k].at, e.at)
      BY LastIsLast
    <3> QED
      BY <1>2, <2>1, <3>1, <3>2 DEF Ahead
  <2>2. ASSUME NEW p \in 0..e.at[2] PROVE \E k \in Scoped(l) : l[k].at[1] = e.at[1] /\ l[k].at[2] = p
    <3>1. CASE p = e.at[2]
      BY <1>1, <3>1
    <3>2. CASE p # e.at[2]
      <4>1. p \in 0..(e.at[2] - 1)
        BY <1>2, <3>2
      <4>2. PICK k \in Scoped(l) : l[k].at = <<e.at[1], p>>
        BY <1>1, <4>1 DEF WalkOf, WalkSteps
      <4> QED
        BY <4>2
    <3> QED
      BY <3>1, <3>2
  <2> QED
    BY <2>1, <2>2 DEF Positions, Round
<1>4. "skip" \in GatesOf(l, e.at[1]) <=> e.gate = "skip"
  <2>1. e.gate = "skip" => "skip" \in GatesOf(l, e.at[1])
    BY <1>1 DEF GatesOf, Round
  <2>2. ASSUME NEW k \in Scoped(l), l[k].at[1] = e.at[1], l[k].gate = "skip" PROVE e.gate = "skip"
    <3>1. Ends(shape, l[k])
      BY <2>2 DEF Ends
    <3> QED
      BY <2>2, <3>1, LastIsLast
  <2> QED
    BY <2>1, <2>2 DEF GatesOf, Round
<1>5. 0..e.at[2] = 0..(Len(shape.body) - 1) <=> e.at[2] + 1 >= Len(shape.body)
  <2>1. e.at[2] + 1 >= Len(shape.body) => e.at[2] = Len(shape.body) - 1
    BY <1>2
  <2>2. ASSUME 0..e.at[2] = 0..(Len(shape.body) - 1) PROVE e.at[2] + 1 >= Len(shape.body)
    <3>1. Len(shape.body) - 1 \in 0..(Len(shape.body) - 1)
      BY <1>2
    <3>2. Len(shape.body) - 1 \in 0..e.at[2]
      BY <2>2, <3>1
    <3> QED
      BY <1>2, <3>2
  <2> QED
    BY <2>1, <2>2
<1> QED
  BY <1>3, <1>4, <1>5 DEF RoundOver, Ends

\* Where the body step that comes next can be.
LEMMA NextTypes ==
  ASSUME shape \in Shapes, NEW l \in Seq(SEvent), WalkOf(shape, l)
  PROVE  /\ NextAt(shape, l)[1] \in 0..shape.rounds /\ NextAt(shape, l)[2] \in 0..Len(shape.body)
         /\ NextAt(shape, l) = <<NextAt(shape, l)[1], NextAt(shape, l)[2]>>
         /\ shape.body # << >> => NextAt(shape, l)[2] < Len(shape.body)
         /\ NextAt(shape, l)[2] > 0 => NextAt(shape, l)[1] < shape.rounds
         /\ \A k \in Scoped(l) : l[k].at[1] <= NextAt(shape, l)[1]
         /\ NextAt(shape, l)[2] = 0 => \A k \in Scoped(l) : l[k].at[1] < NextAt(shape, l)[1]
<1>0. shape.rounds \in Nat /\ Len(shape.body) \in Nat /\ (shape.body = << >> <=> Len(shape.body) = 0)
  BY ShapeTypes
<1>1. CASE Scoped(l) = {}
  BY <1>0, <1>1 DEF NextAt
<1>2. CASE Scoped(l) # {}
  <2>1. PICK e : e = LastEv(l)
    OBVIOUS
  <2>2. e.at[1] \in 0..(shape.rounds - 1) /\ e.at[2] \in 0..(Len(shape.body) - 1)
    <3>1. StepFits(shape, e)
      BY <1>2, <2>1, LastTypes DEF WalkOf, WalkFits
    <3> QED
      BY <3>1, FitsTypes
  <2>3. \A k \in Scoped(l) : l[k].at[1] \in Int /\ l[k].at[1] <= e.at[1]
    BY <2>1, ScopedTypes, LastIsLast
  <2>4. NextAt(shape, l) = IF Ends(shape, e) THEN <<e.at[1] + 1, 0>> ELSE <<e.at[1], e.at[2] + 1>>
    BY <1>2, <2>1 DEF NextAt
  <2>5. CASE Ends(shape, e)
    BY <1>0, <2>2, <2>3, <2>4, <2>5
  <2>6. CASE ~Ends(shape, e)
    BY <1>0, <2>2, <2>3, <2>4, <2>6 DEF Ends
  <2> QED
    BY <2>5, <2>6
<1> QED
  BY <1>1, <1>2

\* ContainerReplayState::rebuild finds the place where the walk stands.
LEMMA Rebuilt ==
  ASSUME shape \in Shapes, NEW l \in Seq(SEvent), WalkOf(shape, l), NEW s, s = Rebuild(l)
  PROVE  /\ s \in StateSet(shape)
         /\ s.broke <=> HasBroken(l)
         /\ HasBroken(l) => s.next = LastEv(l).at[1]
         /\ ~HasBroken(l) => NextAt(shape, l) = <<s.next, StartPosition(s, s.next)>>
         /\ \A i \in 0..shape.rounds : s.outs[i] = LastOutput(l, i)
         /\ Scoped(l) = {} => s.next = 0 /\ s.last = << >>
<1>0. shape.rounds \in Nat /\ Len(shape.body) \in Nat
  BY ShapeTypes
<1> DEFINE iters == Iterations(l)
           breaks == {i \in iters : "break" \in GatesOf(l, i)}
           stops == {i \in iters : i \in breaks \/ ~RoundOver(l, i)}
           coords == {l[k].at : k \in Scoped(l)}
           next == IF stops # {} THEN Least(stops) ELSE IF iters = {} THEN 0 ELSE Greatest(iters) + 1
           last == IF coords = {} THEN << >> ELSE <<CHOOSE c \in coords : \A d \in coords : Before(d, c)>>
           outs == [i \in 0..shape.rounds |-> LastOutput(l, i)]
<1>1. s = [next |-> next, last |-> last, broke |-> breaks # {}, outs |-> outs]
  BY DEF Rebuild
<1>2. s.next = next /\ s.last = last /\ s.broke = (breaks # {}) /\ s.outs = outs
  BY <1>1
<1>3. outs \in [0..shape.rounds -> Optional(shape)] /\ \A i \in 0..shape.rounds : outs[i] = LastOutput(l, i)
  <2>1. \A i : Round(l, i) \in SUBSET Scoped(l)
    BY DEF Round
  <2>2. \A i : LastOutput(l, i) \in Optional(shape)
    BY <2>1, LastOfTypes DEF LastOutput
  <2> QED
    BY <2>2
<1>4. CASE Scoped(l) = {}
  <2>1. iters = {} /\ coords = {}
    BY <1>4 DEF Iterations
  <2>2. next = 0 /\ last = << >> /\ breaks = {}
    BY <2>1
  <2> HIDE DEF iters, breaks, stops, coords, next, last, outs
  <2>3. s \in StateSet(shape)
    <3>1. << >> \in Optional(shape) /\ 0 \in 0..shape.rounds
      BY <1>0, OptionalTypes
    <3> QED
      BY <1>1, <1>3, <2>2, <3>1 DEF StateSet
  <2>4. StartPosition(s, 0) = 0
    BY <1>2, <2>2 DEF StartPosition
  <2>5. ~HasBroken(l) /\ NextAt(shape, l) = <<0, 0>>
    BY <1>4 DEF HasBroken, NextAt
  <2> QED
    BY <1>2, <1>3, <2>2, <2>3, <2>4, <2>5
<1>5. CASE Scoped(l) # {}
  <2>0. PICK e : e = LastEv(l)
    OBVIOUS
  <2>1. PICK g \in Scoped(l) : e = l[g]
    BY <1>5, <2>0, LastTypes
  <2>2. /\ e.at[1] \in 0..(shape.rounds - 1) /\ e.at[2] \in 0..(Len(shape.body) - 1) /\ e.at = <<e.at[1], e.at[2]>>
        /\ e.at \in Cells(shape) /\ e.at[2] + 1 \in Nat
    BY <2>1, FitsTypes DEF WalkOf, WalkFits
  <2>3. iters = 0..e.at[1]
    <3>1. \A k \in Scoped(l) : l[k].at[1] \in 0..e.at[1]
      <4>1. \A k \in Scoped(l) : l[k].at[1] \in 0..(shape.rounds - 1) /\ l[k].at[1] <= e.at[1]
        BY <2>0, FitsTypes, LastIsLast DEF WalkOf, WalkFits
      <4> QED
        BY <2>2, <4>1
    <3>2. ASSUME NEW i \in 0..e.at[1] PROVE \E k \in Scoped(l) : l[k].at[1] = i
      <4>1. CASE i = e.at[1]
        BY <2>1, <4>1
      <4>2. CASE i # e.at[1]
        <5>1. i \in 0..(e.at[1] - 1)
          BY <2>2, <4>2
        <5> QED
          BY <2>1, <5>1 DEF WalkOf, WalkRounds
      <4> QED
        BY <4>1, <4>2
    <3> QED
      BY <3>1, <3>2 DEF Iterations
  <2>4. breaks = IF e.gate = "break" THEN {e.at[1]} ELSE {}
    <3>1. \A k \in Scoped(l) : l[k].gate = "break" => l[k] = e
      BY <2>0, LastIsLast
    <3>2. \A i \in iters : "break" \in GatesOf(l, i) <=> i = e.at[1] /\ e.gate = "break"
      BY <2>1, <3>1 DEF GatesOf, Round
    <3>3. e.at[1] \in iters
      BY <2>2, <2>3
    <3> QED
      BY <3>2, <3>3
  <2>5. \A i \in 0..(e.at[1] - 1) : RoundOver(l, i)
    <3> SUFFICES ASSUME NEW i \in 0..(e.at[1] - 1) PROVE RoundOver(l, i)
      OBVIOUS
    <3>1. PICK j \in Scoped(l) : l[j].at[1] = i /\ Ends(shape, l[j])
      BY <2>1 DEF WalkOf, WalkRounds
    <3>2. CASE l[j].gate = "skip"
      BY <3>1, <3>2 DEF RoundOver, GatesOf, Round
    <3>3. CASE l[j].at[2] + 1 >= Len(shape.body)
      <4>1. \A k \in Scoped(l) : l[k].at[2] \in 0..(Len(shape.body) - 1)
        BY FitsTypes DEF WalkOf, WalkFits
      <4>2. l[j].at[2] = Len(shape.body) - 1
        BY <1>0, <3>3, <4>1
      <4>3. ASSUME NEW p \in 0..(Len(shape.body) - 1) PROVE \E k \in Scoped(l) : l[k].at[1] = i /\ l[k].at[2] = p
        <5>1. CASE p = l[j].at[2]
          BY <3>1, <5>1
        <5>2. CASE p # l[j].at[2]
          <6>1. p \in 0..(l[j].at[2] - 1)
            BY <1>0, <4>2, <5>2
          <6>2. PICK k \in Scoped(l) : l[k].at = <<i, p>>
            BY <3>1, <6>1 DEF WalkOf, WalkSteps
          <6> QED
            BY <6>2
        <5> QED
          BY <5>1, <5>2
      <4>4. Positions(l, i) = 0..(Len(shape.body) - 1)
        BY <4>1, <4>3 DEF Positions, Round
      <4> QED
        BY <4>4 DEF RoundOver
    <3> QED
      BY <3>1, <3>2, <3>3 DEF Ends
  <2>6. RoundOver(l, e.at[1]) <=> Ends(shape, e)
    BY <1>5, <2>0, LastRound
  <2>7. stops = IF e.gate = "break" \/ ~Ends(shape, e) THEN {e.at[1]} ELSE {}
    <3>1. \A i \in iters : i \in 0..(e.at[1] - 1) \/ i = e.at[1]
      BY <2>2, <2>3
    <3>2. \A i \in iters : i \in stops <=> i = e.at[1] /\ (e.gate = "break" \/ ~Ends(shape, e))
      <4> HIDE DEF iters
      <4>1. \A i \in iters : i \in breaks <=> i = e.at[1] /\ e.gate = "break"
        <5> HIDE DEF breaks
        <5> QED BY <2>4
      <4>2. \A i \in iters : ~RoundOver(l, i) <=> i = e.at[1] /\ ~Ends(shape, e)
        BY <2>2, <2>5, <2>6, <3>1
      <4> HIDE DEF breaks
      <4> QED
        BY <4>1, <4>2
    <3>3. e.at[1] \in iters /\ stops \subseteq iters
      BY <2>2, <2>3
    <3> HIDE DEF iters, stops
    <3> QED
      BY <3>2, <3>3
  <2>8. next = IF e.gate = "break" \/ ~Ends(shape, e) THEN e.at[1] ELSE e.at[1] + 1
    <3> HIDE DEF iters, stops
    <3>0. PICK a \in Nat : a = e.at[1]
      BY <2>2
    <3>1. Least({a}) = a
      <4>1. a \in {a} /\ {a} \subseteq Int /\ \A y \in {a} : a <= y
        OBVIOUS
      <4> QED
        BY <4>1 DEF Least
    <3>2. Greatest(0..a) = a /\ 0..a # {}
      <4>1. a \in 0..a /\ 0..a \subseteq Int /\ \A y \in 0..a : y <= a
        OBVIOUS
      <4> QED
        BY <4>1, GreatestWhen
    <3> QED
      BY <2>3, <2>7, <3>0, <3>1, <3>2
  <2>9. last = <<e.at>>
    <3>1. e.at \in coords /\ coords # {}
      BY <2>1
    <3>2. \A c \in coords : Before(c, e.at) /\ (Before(e.at, c) => c = e.at)
      <4> SUFFICES ASSUME NEW k \in Scoped(l) PROVE Before(l[k].at, e.at) /\ (Before(e.at, l[k].at) => l[k].at = e.at)
        OBVIOUS
      <4>1. l[k].at[1] \in Int /\ l[k].at[2] \in Int
        BY ScopedTypes
      <4>2. l[k] = e \/ Ahead(l[k].at, e.at)
        BY <2>0, LastIsLast
      <4> QED
        BY <2>2, <4>1, <4>2 DEF Before, Ahead
    <3> HIDE DEF coords
    <3>3. (CHOOSE c \in coords : \A d \in coords : Before(d, c)) = e.at
      BY <3>1, <3>2
    <3> QED
      BY <3>1, <3>3
  <2> HIDE DEF iters, breaks, stops, coords, next, last, outs
  <2>10. next \in 0..shape.rounds
    BY <1>0, <2>2, <2>8
  <2>11. s \in StateSet(shape)
    <3>1. <<e.at>> \in Optional(shape)
      BY <2>2, OptionalTypes
    <3> QED
      BY <1>1, <1>3, <2>9, <2>10, <3>1 DEF StateSet
  <2>12. HasBroken(l) <=> e.gate = "break"
    BY <1>5, <2>0 DEF HasBroken
  <2>13. s.broke <=> HasBroken(l)
    BY <1>2, <2>4, <2>12
  <2>14. StartPosition(s, s.next) = IF next = e.at[1] THEN e.at[2] + 1 ELSE 0
    BY <1>2, <2>9 DEF StartPosition
  <2>15. ~HasBroken(l) => NextAt(shape, l) = <<s.next, StartPosition(s, s.next)>>
    <3>1. NextAt(shape, l) = IF Ends(shape, e) THEN <<e.at[1] + 1, 0>> ELSE <<e.at[1], e.at[2] + 1>>
      BY <1>5, <2>0 DEF NextAt
    <3> QED
      BY <1>2, <2>2, <2>8, <2>12, <2>14, <3>1
  <2> QED
    BY <1>2, <1>3, <1>5, <2>0, <2>8, <2>11, <2>12, <2>13, <2>15
<1> QED
  BY <1>4, <1>5

\* A coordinate is on record once.
LEMMA OnceEach ==
  ASSUME NEW w, NEW l \in Seq(SEvent), WalkOf(w, l), NEW j \in Scoped(l), NEW k \in Scoped(l), l[j].at = l[k].at
  PROVE  j = k
<1>1. j \in Int /\ k \in Int /\ l[j].at[1] \in Int /\ l[j].at[2] \in Int
  BY ScopedTypes
<1>2. ~(j < k) /\ ~(k < j)
  BY <1>1 DEF WalkOf, WalkOrder, Ahead
<1> QED
  BY <1>1, <1>2

\* The output of a recorded step is found again.
LEMMA LoggedIs ==
  ASSUME NEW w, NEW l \in Seq(SEvent), WalkOf(w, l), NEW k \in Scoped(l), NEW c, c = l[k].at
  PROVE  LoggedOutput(l, c) = l[k].out
<1>1. {x \in Scoped(l) : l[x].at = c} = {k}
  BY OnceEach
<1>2. k \in Nat
  BY ScopedTypes
<1>3. CASE l[k].out = << >>
  BY <1>1, <1>3 DEF LoggedOutput, WithOutput
<1>4. CASE l[k].out # << >>
  <2>1. WithOutput(l, {k}) = {k}
    BY <1>4 DEF WithOutput
  <2>2. Least({k}) = k
    BY <1>2 DEF Least
  <2> QED
    BY <1>1, <2>1, <2>2 DEF LoggedOutput
<1> QED
  BY <1>3, <1>4

\* Nothing is on record of an iteration that has not begun.
LEMMA FreshRound ==
  ASSUME shape \in Shapes, NEW l \in Seq(SEvent), WalkOf(shape, l), NEW i \in Int,
         \A k \in Scoped(l) : l[k].at[1] # i
  PROVE  LastOutput(l, i) = << >>
<1>1. Round(l, i) = {}
  BY DEF Round
<1> QED
  BY <1>1 DEF LastOutput, LastOf, WithOutput

\* What a resume recovers of the outputs of the iteration it continues is the last one on record, when it is
\* one it can find.
LEMMA RecoveredIs ==
  ASSUME shape \in Shapes, slog \in Seq(SEvent), WalkInv, NEW i, NEW from, NextAt(shape, slog) = <<i, from>>,
         from = 0 \/ Recoverable
  PROVE  Recovered(i, from) = LastOutput(slog, i)
<1>0. WalkOf(shape, slog) /\ shape.rounds \in Nat /\ Len(shape.body) \in Nat /\ DOMAIN shape.body = 1..Len(shape.body)
  BY ShapeTypes DEF WalkInv
<1>1. /\ i \in 0..shape.rounds /\ from \in 0..Len(shape.body)
      /\ from = 0 => \A k \in Scoped(slog) : slog[k].at[1] < i
      /\ NextAt(shape, slog)[1] = i /\ NextAt(shape, slog)[2] = from
  <2>1. NextAt(shape, slog)[1] = i /\ NextAt(shape, slog)[2] = from
    OBVIOUS
  <2> QED
    BY <1>0, <2>1, NextTypes
<1> DEFINE known == {p \in 0..(from - 1) : shape.body[p + 1] = "cmd" /\ LoggedOutput(slog, <<i, p>>) # << >>}
<1>2. Recovered(i, from) = IF known = {} THEN << >> ELSE LoggedOutput(slog, <<i, Greatest(known)>>)
  BY DEF Recovered
<1>3. CASE from = 0
  <2>1. known = {}
    BY <1>3
  <2>2. LastOutput(slog, i) = << >>
    <3>1. \A k \in Scoped(slog) : slog[k].at[1] \in Int /\ slog[k].at[1] < i
      BY <1>1, <1>3, ScopedTypes
    <3>2. \A k \in Scoped(slog) : slog[k].at[1] # i
      BY <1>1, <3>1
    <3>3. i \in Int
      BY <1>0, <1>1
    <3> QED
      BY <1>0, <3>2, <3>3, FreshRound
  <2> QED
    BY <1>2, <2>1, <2>2
<1>4. CASE from # 0
  <2>0. PICK e : e = LastEv(slog)
    OBVIOUS
  <2>1. Scoped(slog) # {} /\ ~Ends(shape, e) /\ i = e.at[1] /\ from = e.at[2] + 1
    BY <1>1, <1>4, <2>0 DEF NextAt
  <2>2. StepFits(shape, e) /\ e.at[2] \in 0..(Len(shape.body) - 1) /\ from < Len(shape.body)
    <3>1. StepFits(shape, e)
      BY <1>0, <2>0, <2>1, LastTypes DEF WalkOf, WalkFits
    <3>2. e.at[2] \in 0..(Len(shape.body) - 1)
      BY <3>1, FitsTypes
    <3> QED
      BY <1>0, <2>1, <3>1, <3>2 DEF Ends
  <2>3. Positions(slog, i) = 0..(from - 1)
    <3>1. Positions(slog, i) = 0..e.at[2]
      BY <1>0, <2>0, <2>1, LastRound
    <3>2. e.at[2] = from - 1
      BY <2>1, <2>2
    <3> QED
      BY <3>1, <3>2
  <2>4. ASSUME NEW k \in Round(slog, i)
        PROVE  /\ k \in Scoped(slog) /\ slog[k].at[2] \in 0..(from - 1) /\ slog[k].at = <<i, slog[k].at[2]>>
               /\ slog[k].out # << >> <=> shape.body[slog[k].at[2] + 1] = "cmd"
               /\ LoggedOutput(slog, <<i, slog[k].at[2]>>) = slog[k].out
    <3>1. k \in Scoped(slog) /\ slog[k].at[1] = i /\ slog[k].at[2] \in 0..(from - 1)
      BY <2>3 DEF Round, Positions
    <3>2. /\ StepFits(shape, slog[k]) /\ slog[k].at = <<i, slog[k].at[2]>>
          /\ shape.body[slog[k].at[2] + 1] # "gate" <=> slog[k].out # << >>
      BY <1>0, <3>1, FitsTypes DEF WalkOf, WalkFits
    <3>3. slog[k].at[2] + 1 \in DOMAIN shape.body /\ slog[k].at[2] + 1 < Len(shape.body)
      <4>1. PICK q \in 0..(from - 1) : q = slog[k].at[2]
        BY <3>1
      <4>2. q + 1 \in 1..Len(shape.body) /\ q + 1 < Len(shape.body)
        BY <1>0, <1>1, <2>2
      <4> QED
        BY <1>0, <4>1, <4>2
    <3>4. shape.body[slog[k].at[2] + 1] \in {"cmd", "gate"}
      BY <1>4, <3>2, <3>3 DEF Recoverable, StepFits
    <3>5. LoggedOutput(slog, <<i, slog[k].at[2]>>) = slog[k].out
      BY <1>0, <3>1, <3>2, LoggedIs
    <3> QED
      BY <3>1, <3>2, <3>4, <3>5
  <2>5. ASSUME NEW p \in 0..(from - 1)
        PROVE  \E k \in Round(slog, i) : slog[k].at[2] = p
    BY <2>3 DEF Positions
  <2>6. ASSUME NEW k \in WithOutput(slog, Round(slog, i)) PROVE k \in Round(slog, i) /\ slog[k].at[2] \in known
    <3>1. k \in Round(slog, i) /\ slog[k].out # << >>
      BY DEF WithOutput
    <3> QED
      BY <2>4, <3>1
  <2>7. CASE known = {}
    <3>1. WithOutput(slog, Round(slog, i)) = {}
      BY <2>6, <2>7
    <3> QED
      BY <1>2, <2>7, <3>1 DEF LastOutput, LastOf
  <2>8. CASE known # {}
    <3>1. PICK q \in known : q = Greatest(known) /\ \A p \in known : p <= q
      <4>1. known \subseteq 0..(from - 1) /\ from - 1 \in Nat
        BY <1>1, <1>4
      <4> HIDE DEF known
      <4> QED
        BY <2>8, <4>1, GreatestIs
    <3>2. PICK g \in Round(slog, i) : slog[g].at[2] = q
      BY <2>5
    <3>3. /\ g \in Scoped(slog) /\ slog[g].at = <<i, q>> /\ LoggedOutput(slog, <<i, q>>) = slog[g].out
          /\ slog[g].out # << >>
      BY <2>4, <3>2
    <3>4. g \in WithOutput(slog, Round(slog, i))
      BY <3>2, <3>3 DEF WithOutput
    <3>5. WithOutput(slog, Round(slog, i)) \subseteq Int
      <4>1. WithOutput(slog, Round(slog, i)) \subseteq Scoped(slog)
        BY DEF WithOutput, Round
      <4> QED
        BY <4>1, ScopedTypes
    <3>6. ASSUME NEW k \in WithOutput(slog, Round(slog, i)) PROVE k <= g
      <4>1. k \in Scoped(slog) /\ slog[k].at = <<i, slog[k].at[2]>> /\ slog[k].at[2] <= q /\ slog[k].at[2] \in Int /\ q \in Int
        <5>1. k \in Round(slog, i) /\ slog[k].at[2] \in known
          BY <2>6
        <5>2. k \in Scoped(slog) /\ slog[k].at = <<i, slog[k].at[2]>>
          BY <2>4, <5>1
        <5>3. \A p \in known : p \in Int
          BY <1>1
        <5> HIDE DEF known
        <5> QED
          BY <3>1, <5>1, <5>2, <5>3
      <4>2. ~(g < k)
        <5>1. g < k => Ahead(slog[g].at, slog[k].at)
          BY <1>0, <3>3, <4>1 DEF WalkOf, WalkOrder
        <5>2. ~Ahead(slog[g].at, slog[k].at)
          <6>1. slog[g].at[1] = i /\ slog[g].at[2] = q /\ slog[k].at[1] = i
            BY <3>3, <4>1
          <6>2. i \in Int
            BY <1>0, <1>1
          <6> QED
            BY <4>1, <6>1, <6>2 DEF Ahead
        <5> QED
          BY <5>1, <5>2
      <4>3. k \in Int /\ g \in Int
        BY <3>3, <4>1, ScopedTypes
      <4> QED
        BY <4>2, <4>3
    <3>7. Greatest(WithOutput(slog, Round(slog, i))) = g
      BY <3>4, <3>5, <3>6, GreatestWhen
    <3>8. LastOutput(slog, i) = slog[g].out
      BY <3>4, <3>7 DEF LastOutput, LastOf
    <3> QED
      BY <1>2, <2>8, <3>1, <3>3, <3>8
  <2> QED
    BY <2>7, <2>8
<1> QED
  BY <1>3, <1>4

\* What is on record of the iteration in which the next step is: the positions before it.
LEMMA PriorPositions ==
  ASSUME shape \in Shapes, NEW l \in Seq(SEvent), WalkOf(shape, l), NEW i, NEW p, NextAt(shape, l) = <<i, p>>
  PROVE  Positions(l, i) = 0..(p - 1)
<1>1. NextAt(shape, l)[1] = i /\ NextAt(shape, l)[2] = p
  OBVIOUS
<1>2. /\ i \in 0..shape.rounds /\ p \in 0..Len(shape.body) /\ shape.rounds \in Nat /\ Len(shape.body) \in Nat
      /\ p = 0 => \A k \in Scoped(l) : l[k].at[1] < i
  BY <1>1, NextTypes, ShapeTypes
<1>3. CASE p = 0
  <2>1. \A k \in Scoped(l) : l[k].at[1] \in Int /\ l[k].at[1] < i
    BY <1>2, <1>3, ScopedTypes
  <2>2. \A k \in Scoped(l) : l[k].at[1] # i
    BY <1>2, <2>1
  <2>3. Positions(l, i) = {} /\ 0..(p - 1) = {}
    BY <1>3, <2>2 DEF Positions, Round
  <2> QED
    BY <2>3
<1>4. CASE p # 0
  <2>1. PICK e : e = LastEv(l)
    OBVIOUS
  <2>2. Scoped(l) # {} /\ i = e.at[1] /\ p = e.at[2] + 1
    BY <1>1, <1>4, <2>1 DEF NextAt
  <2>3. Positions(l, i) = 0..e.at[2] /\ e.at[2] \in Int
    BY <2>1, <2>2, LastRound, LastTypes
  <2>4. e.at[2] = p - 1
    BY <2>2, <2>3
  <2> QED
    BY <2>3, <2>4
<1> QED
  BY <1>3, <1>4

\* The last output of all is that of the last iteration, when it has one.
LEMMA LastOverall ==
  ASSUME shape \in Shapes, NEW l \in Seq(SEvent), WalkOf(shape, l), NEW i \in Int,
         \A k \in Scoped(l) : l[k].at[1] <= i, LastOutput(l, i) # << >>
  PROVE  LastOf(l, Scoped(l)) = LastOutput(l, i)
<1>1. Round(l, i) \in SUBSET Scoped(l)
  BY DEF Round
<1>2. WithOutput(l, Round(l, i)) # {} /\ WithOutput(l, Round(l, i)) \in SUBSET Scoped(l)
      /\ WithOutput(l, Round(l, i)) \subseteq WithOutput(l, Scoped(l))
  BY <1>1 DEF LastOutput, LastOf, WithOutput
<1>3. PICK g \in WithOutput(l, Round(l, i)) : /\ g = Greatest(WithOutput(l, Round(l, i)))
                                              /\ \A k \in WithOutput(l, Round(l, i)) : k <= g
  BY <1>2, PartGreatest
<1>4. g \in Scoped(l) /\ l[g].at[1] = i /\ LastOutput(l, i) = l[g].out /\ l[g].out # << >>
  BY <1>2, <1>3 DEF LastOutput, LastOf, WithOutput, Round
<1>5. ASSUME NEW k \in WithOutput(l, Scoped(l)) PROVE k <= g
  <2>1. k \in Scoped(l) /\ l[k].out # << >> /\ k \in Int /\ g \in Int /\ l[k].at[1] \in Int /\ l[k].at[1] <= i
    BY <1>4, ScopedTypes DEF WithOutput
  <2>2. CASE l[k].at[1] = i
    <3>1. k \in WithOutput(l, Round(l, i))
      BY <2>1, <2>2 DEF WithOutput, Round
    <3> QED
      BY <1>3, <3>1
  <2>3. CASE l[k].at[1] < i
    <3>1. g < k => Ahead(l[g].at, l[k].at)
      BY <1>4, <2>1 DEF WalkOf, WalkOrder
    <3>2. ~Ahead(l[g].at, l[k].at)
      BY <1>4, <2>1, <2>3 DEF Ahead
    <3> QED
      BY <2>1, <3>1, <3>2
  <2> QED
    BY <2>1, <2>2, <2>3
<1>6. WithOutput(l, Scoped(l)) \subseteq Int /\ g \in WithOutput(l, Scoped(l))
  <2>1. WithOutput(l, Scoped(l)) \subseteq Scoped(l)
    BY DEF WithOutput
  <2> QED
    BY <1>2, <1>3, <2>1, ScopedTypes
<1>7. Greatest(WithOutput(l, Scoped(l))) = g
  BY <1>5, <1>6, GreatestWhen
<1> QED
  BY <1>4, <1>6, <1>7 DEF LastOf

\* A body that begins with a command leaves an output in every iteration that has begun.
LEMMA FirstIsCmd ==
  ASSUME shape \in Shapes, NEW l \in Seq(SEvent), WalkOf(shape, l), Recoverable, shape.kind = "repeat",
         NEW k \in Scoped(l), NEW i, i = l[k].at[1]
  PROVE  LastOutput(l, i) # << >>
<1>1. /\ shape.body # << >> /\ shape.body[1] = "cmd" /\ l[k].at[2] \in 0..(Len(shape.body) - 1)
      /\ l[k].at = <<i, l[k].at[2]>>
  BY FitsTypes DEF Recoverable, WalkOf, WalkFits
<1>2. PICK j \in Scoped(l) : l[j].at[1] = i /\ l[j].at[2] = 0
  <2>1. CASE l[k].at[2] = 0
    BY <2>1
  <2>2. CASE l[k].at[2] # 0
    <3>1. 0 \in 0..(l[k].at[2] - 1)
      BY <1>1, <2>2
    <3>2. PICK j \in Scoped(l) : l[j].at = <<i, 0>>
      BY <3>1 DEF WalkOf, WalkSteps
    <3> QED
      BY <3>2
  <2> QED
    BY <2>1, <2>2
<1>3. l[j].out # << >>
  <2>1. shape.body[l[j].at[2] + 1] = "cmd"
    BY <1>1, <1>2
  <2> QED
    BY <2>1, FitsTypes DEF WalkOf, WalkFits
<1>4. j \in Round(l, i) /\ Round(l, i) \in SUBSET Scoped(l)
  BY <1>2 DEF Round
<1> QED
  BY <1>3, <1>4, LastOfTypes DEF LastOutput

\* All that is on record of a call is its one iteration.
LEMMA CallRound ==
  ASSUME shape \in Shapes, NEW l \in Seq(SEvent), WalkOf(shape, l), shape.kind = "call"
  PROVE  LastOutput(l, 0) = LastOf(l, Scoped(l))
<1>1. \A k \in Scoped(l) : l[k].at[1] = 0
  <2>1. \A k \in Scoped(l) : l[k].at[1] \in 0..(shape.rounds - 1)
    BY FitsTypes DEF WalkOf, WalkFits
  <2> QED
    BY <2>1, ShapeTypes
<1>2. Round(l, 0) = Scoped(l)
  BY <1>1 DEF Round
<1> QED
  BY <1>2 DEF LastOutput

\* Nothing can be on record of a body without steps.
LEMMA EmptyBody ==
  ASSUME shape \in Shapes, NEW l \in Seq(SEvent), WalkOf(shape, l), shape.body = << >>
  PROVE  /\ Scoped(l) = {} /\ NextAt(shape, l) = <<0, 0>> /\ ~HasBroken(l) /\ LastOf(l, Scoped(l)) = << >>
         /\ \A i : LastOutput(l, i) = << >>
<1>1. Scoped(l) = {}
  BY FitsTypes DEF WalkOf, WalkFits
<1>2. \A i : Round(l, i) = {}
  BY <1>1 DEF Round
<1> QED
  BY <1>1, <1>2 DEF NextAt, HasBroken, LastOutput, LastOf, WithOutput

\* The iteration that a break ended.
LEMMA BrokenRounds ==
  ASSUME shape \in Shapes, NEW l \in Seq(SEvent), WalkOf(shape, l)
  PROVE  {i \in Iterations(l) : "break" \in GatesOf(l, i)} = IF HasBroken(l) THEN {LastEv(l).at[1]} ELSE {}
<1>1. CASE Scoped(l) = {}
  BY <1>1 DEF Iterations, HasBroken
<1>2. CASE Scoped(l) # {}
  <2>0. PICK e : e = LastEv(l)
    OBVIOUS
  <2>1. PICK g \in Scoped(l) : e = l[g]
    BY <1>2, <2>0, LastTypes
  <2>2. \A k \in Scoped(l) : l[k].gate = "break" => l[k] = e
    BY <2>0, LastIsLast
  <2>3. \A i \in Iterations(l) : "break" \in GatesOf(l, i) <=> i = e.at[1] /\ e.gate = "break"
    BY <2>1, <2>2 DEF GatesOf, Round
  <2>4. e.at[1] \in Iterations(l)
    BY <2>1 DEF Iterations
  <2> QED
    BY <1>2, <2>0, <2>3, <2>4 DEF HasBroken
<1> QED
  BY <1>1, <1>2

\* The events of the runner.
LEMMA EventTypes ==
  /\ \A name \in SNames : Plain(name) \in SEvent
  /\ \A name \in SNames, c \in Pair, o \in Seq(Pair), g \in Gates : Entry(name, c, o, g) \in SEvent
<1>1. \A name \in SNames, c \in Pair, o \in Seq(Pair), g \in Gates : Entry(name, c, o, g) \in SEvent
  BY DEF Entry, SEvent
<1>2. Top \in Pair /\ << >> \in Seq(Pair) /\ "none" \in Gates
  BY DEF Top, Pair, Gates
<1> QED
  BY <1>1, <1>2 DEF Plain

\* What a plain event is, and that it completes no body step.
LEMMA PlainIs ==
  ASSUME NEW name \in SNames
  PROVE  Plain(name).ev = name /\ Plain(name).at = Top /\ ~(Plain(name).ev = "step_completed" /\ Plain(name).at # Top)
BY DEF Plain, Entry

\* Away from the loop and the body nothing is asked of the runner's position.
LEMMA OffTheWalk ==
  ASSUME spc' \notin {"loop", "synth"} \cup Walking, crashes' = 0 => spc' # "dead" /\ (spc' \in {"idle", "enter"} => Scoped(slog') = {})
  PROVE  PlaceInv' /\ OutputInv' /\ ValueOfLog'
<1>1. /\ spc' # "loop" /\ spc' # "synth" /\ spc' # "body" /\ spc' # "exec" /\ spc' # "chatCall" /\ spc' # "emit"
      /\ spc' \notin Walking
  BY DEF Walking
<1>2. PlaceInv'
  BY <1>1 DEF PlaceInv
<1>3. OutputInv'
  BY <1>1 DEF OutputInv
<1>4. ValueOfLog'
  BY <1>1 DEF ValueOfLog
<1> QED
  BY <1>2, <1>3, <1>4

\* An open container has reported nothing.
LEMMA NothingReported ==
  ASSUME ~ContainerDone(slog')
  PROVE  OutputOfLog'
<1>1. CompletedWith(slog') = {}
  BY DEF ContainerDone, CompletedWith
<1> QED
  BY <1>1 DEF OutputOfLog

\* A step that logs nothing and leaves the walk.
LEMMA LeavesWalk ==
  ASSUME ScopeInv, STypes', shape' = shape, slog' = slog, spc' \notin {"loop", "synth"} \cup Walking,
         spc # "returned", crashes' = 0 => spc' # "dead" /\ (spc' \in {"idle", "enter"} => Scoped(slog') = {}),
         spc' = "cause" => verdict' \in {"signal", "timeout", "idle"},
         spc' \in Undecided => spc \in Undecided
  PROVE  ScopeInv'
<1>1. WalkInv'
  BY DEF ScopeInv, WalkInv
<1>2. ~ContainerDone(slog)
  BY DEF ScopeInv, OutcomeInv
<1>3. OutcomeInv'
  BY <1>2 DEF ScopeInv, OutcomeInv
<1>4. OutputOfLog'
  BY <1>2, NothingReported
<1> QED
  BY <1>1, <1>3, <1>4, OffTheWalk DEF ScopeInv

\* Nothing of the invariant is about the row of the session or the inputs that are pending.
LEMMA SameScope ==
  ASSUME ScopeInv, UNCHANGED <<shape, slog, srow, spc, locals, crashes>>, inputs' \subseteq {"cancel", "shutdown"}
  PROVE  ScopeInv'
<1>0. UNCHANGED <<shape, slog, srow, spc, st, at, value, bodyOut, final, verdict, gate, crashes>>
  BY DEF locals
<1>1. STypes'
  BY <1>0 DEF ScopeInv, STypes
<1>2. WalkInv' /\ OutcomeInv'
  BY <1>0 DEF ScopeInv, WalkInv, OutcomeInv
<1>3. Recoverable' <=> Recoverable
  BY <1>0 DEF Recoverable
<1>4. PlaceInv'
  BY <1>0 DEF ScopeInv, PlaceInv, Kind
<1>5. OutputInv'
  BY <1>0, <1>3 DEF ScopeInv, OutputInv, Known
<1>6. ValueOfLog'
  BY <1>0, <1>3 DEF ScopeInv, ValueOfLog
<1>7. OutputOf(slog)' = OutputOf(slog)
  BY <1>0 DEF OutputOf
<1>8. OutputOfLog'
  BY <1>0, <1>3, <1>7 DEF ScopeInv, OutputOfLog
<1> QED
  BY <1>1, <1>2, <1>4, <1>5, <1>6, <1>8 DEF ScopeInv

\* The runner's own steps that log nothing and do not walk, and its environment.
LEMMA ApartSteps ==
  ASSUME ScopeInv,
         \/ StepDecided \/ StepCancelled \/ BodyCancelled \/ FinaliseBody \/ FinaliseContainer \/ ExecOther
         \/ SCrash \/ SLaunch \/ (\E input \in {"cancel", "shutdown"} : Raise(input)) \/ UNCHANGED scopeVars
  PROVE  ScopeInv'
<1>0. STypes
  BY DEF ScopeInv
<1>1. CASE UNCHANGED scopeVars
  <2>1. UNCHANGED <<shape, slog, srow, spc, locals, crashes>> /\ inputs' \subseteq {"cancel", "shutdown"}
    BY <1>0, <1>1 DEF scopeVars, STypes
  <2> QED
    BY <2>1, SameScope
<1>2. CASE StepDecided
  <2>1. STypes' /\ shape' = shape /\ slog' = slog /\ spc' = "returned" /\ spc = "idle"
    BY <1>0, <1>2 DEF StepDecided, STypes, locals, Same, SPlaces
  <2> QED
    BY <2>1, LeavesWalk DEF Walking, Undecided
<1>3. CASE StepCancelled
  <2>1. STypes' /\ shape' = shape /\ slog' = slog /\ spc' = "outer" /\ spc = "idle"
    BY <1>0, <1>3 DEF StepCancelled, STypes, locals, Same, SPlaces
  <2> QED
    BY <2>1, LeavesWalk DEF Walking, Undecided
<1>4. CASE BodyCancelled
  <2>1. STypes' /\ shape' = shape /\ slog' = slog /\ spc' = "failBody" /\ spc = "body"
    BY <1>0, <1>4 DEF BodyCancelled, Ending, STypes, locals, Same, SPlaces
  <2> QED
    BY <2>1, LeavesWalk DEF Walking, Undecided
<1>5. CASE FinaliseBody
  <2>1. STypes' /\ shape' = shape /\ slog' = slog /\ spc' \in {"outer", "returned"} /\ spc = "finBody"
    BY <1>0, <1>5 DEF FinaliseBody, Finalised, STypes, locals, Same, SPlaces
  <2> QED
    BY <2>1, LeavesWalk DEF Walking, Undecided
<1>6. CASE FinaliseContainer
  <2>1. STypes' /\ shape' = shape /\ slog' = slog /\ spc' = "returned" /\ spc = "finOuter"
    BY <1>0, <1>6 DEF FinaliseContainer, Finalised, STypes, locals, Same, SPlaces
  <2> QED
    BY <2>1, LeavesWalk DEF Walking, Undecided
<1>7. CASE ExecOther
  <2>1. STypes' /\ shape' = shape /\ slog' = slog /\ spc' = "failBody" /\ spc = "exec"
    BY <1>0, <1>7 DEF ExecOther, Broken, Ending, STypes, locals, Same, SPlaces
  <2> QED
    BY <2>1, LeavesWalk DEF Walking, Undecided
<1>8. CASE SCrash
  <2>1. Fresh.st \in StateSet(shape) /\ Fresh.at \in Cells(shape) /\ << >> \in Optional(shape)
    <3>1. << >> \in Optional(shape) /\ <<0, 0>> \in Cells(shape) /\ 0 \in 0..shape.rounds
      BY <1>0, OptionalTypes, ShapeTypes DEF STypes
    <3> QED
      BY <3>1 DEF Fresh, StateSet
  <2>2. crashes' \in 1..MaxCrashes
    BY <1>0, <1>8, ScopeAssumption DEF SCrash, STypes
  <2>3. STypes' /\ shape' = shape /\ slog' = slog /\ spc' = "dead" /\ spc # "returned"
    BY <1>0, <1>8, <2>1, <2>2 DEF SCrash, STypes, SPlaces, Gates
  <2>4. crashes' # 0
    BY <2>2
  <2> QED
    BY <2>3, <2>4, LeavesWalk DEF Walking, Undecided
<1>9. CASE SLaunch
  <2>1. STypes' /\ shape' = shape /\ slog' = slog /\ spc' = "idle" /\ spc = "dead" /\ crashes' = crashes
    BY <1>0, <1>9 DEF SLaunch, STypes, locals, SPlaces
  <2>2. crashes # 0
    BY <1>0, <1>9 DEF SLaunch, ScopeInv, OutputInv, STypes
  <2> QED
    BY <2>1, <2>2, LeavesWalk DEF Walking, Undecided
<1>10. ASSUME NEW input \in {"cancel", "shutdown"}, Raise(input) PROVE ScopeInv'
  <2>1. UNCHANGED <<shape, slog, srow, spc, locals, crashes>> /\ inputs' \subseteq {"cancel", "shutdown"}
    BY <1>10 DEF Raise
  <2> QED
    BY <2>1, SameScope
<1> QED
  BY <1>1, <1>2, <1>3, <1>4, <1>5, <1>6, <1>7, <1>8, <1>9, <1>10

\* An event that completes nothing leaves the walk as it is.
LEMMA LogsPlain ==
  ASSUME ScopeInv, NEW e \in SEvent, e.ev # "step_completed", slog' = Append(slog, e), shape' = shape, spc # "returned"
  PROVE  /\ slog' \in Seq(SEvent) /\ WalkInv' /\ ~ContainerDone(slog') /\ OutputOfLog'
         /\ Failed(slog') <=> Failed(slog) \/ e.ev = "step_failed"
         /\ Scoped(slog') = Scoped(slog) /\ \A k \in Scoped(slog) : slog'[k] = slog[k]
         /\ NextAt(shape, slog') = NextAt(shape, slog)
         /\ HasBroken(slog') <=> HasBroken(slog)
         /\ \A i : LastOutput(slog', i) = LastOutput(slog, i)
         /\ LastOf(slog', Scoped(slog')) = LastOf(slog, Scoped(slog))
<1>0. slog \in Seq(SEvent) /\ WalkOf(shape, slog) /\ ~ContainerDone(slog)
  BY DEF ScopeInv, STypes, WalkInv, OutcomeInv
<1>1. PICK m : m = slog'
  OBVIOUS
<1>2. m = Append(slog, e)
  BY <1>1
<1>3. /\ m \in Seq(SEvent) /\ WalkOf(shape, m) /\ Scoped(m) = Scoped(slog) /\ \A k \in Scoped(slog) : m[k] = slog[k]
      /\ NextAt(shape, m) = NextAt(shape, slog) /\ (HasBroken(m) <=> HasBroken(slog))
      /\ (\A i : LastOutput(m, i) = LastOutput(slog, i)) /\ LastOf(m, Scoped(m)) = LastOf(slog, Scoped(slog))
  <2>1. PICK l \in Seq(SEvent) : l = slog
    BY <1>0
  <2>2. PICK w : w = shape
    OBVIOUS
  <2>3. /\ m \in Seq(SEvent) /\ Scoped(m) = Scoped(l) /\ \A k \in Scoped(l) : m[k] = l[k]
        /\ NextAt(w, m) = NextAt(w, l) /\ (HasBroken(m) <=> HasBroken(l)) /\ (WalkOf(w, l) => WalkOf(w, m))
        /\ (\A i : LastOutput(m, i) = LastOutput(l, i)) /\ LastOf(m, Scoped(m)) = LastOf(l, Scoped(l))
    <3>1. m = Grown(l, e) /\ ~(e.ev = "step_completed" /\ e.at # Top)
      BY <1>2, <2>1 DEF Grown
    <3> QED
      BY <3>1, QuietEvent
  <2> QED
    BY <1>0, <2>1, <2>2, <2>3
<1>4. ~ContainerDone(m) /\ (Failed(m) <=> Failed(slog) \/ e.ev = "step_failed")
  BY <1>0, <1>2, OutcomeGrows
<1>5. WalkInv'
  BY <1>1, <1>3 DEF WalkInv
<1>6. OutputOfLog'
  BY <1>1, <1>4, NothingReported
<1> QED
  BY <1>1, <1>3, <1>4, <1>5, <1>6

\* A step that logs an event which completes nothing, and is off the walk behind it.
LEMMA AppendsApart ==
  ASSUME ScopeInv, NEW name \in SNames \ {"step_completed"}, slog' = Append(slog, Plain(name)), STypes', shape' = shape,
         spc # "returned", spc' \notin {"loop", "synth", "cause", "idle", "dead"} \cup Walking,
         spc' \in Undecided => spc \notin {"finBody", "outer", "finOuter", "dead"} /\ name # "step_failed" /\ ~Failed(slog),
         crashes' = crashes, spc' = "enter" => spc = "idle"
  PROVE  ScopeInv'
<1>1. PICK e \in SEvent : e = Plain(name) /\ e.ev = name
  BY EventTypes, PlainIs
<1>2. /\ WalkInv' /\ ~ContainerDone(slog') /\ OutputOfLog' /\ Scoped(slog') = Scoped(slog)
      /\ Failed(slog') <=> Failed(slog) \/ e.ev = "step_failed"
  BY <1>1, LogsPlain
<1>3. OutcomeInv'
  BY <1>1, <1>2 DEF OutcomeInv
<1>4. crashes' = 0 => spc' # "dead" /\ (spc' \in {"idle", "enter"} => Scoped(slog') = {})
  BY <1>2 DEF ScopeInv, OutputInv
<1>5. PlaceInv' /\ OutputInv' /\ ValueOfLog'
  BY <1>4, OffTheWalk
<1> QED
  BY <1>2, <1>3, <1>5 DEF ScopeInv

\* The steps that log the start, the interruption or the failure of a step and walk no further.
LEMMA ApartAppends ==
  ASSUME ScopeInv, StepContainer \/ BodyNested \/ EmitCause \/ EmitBodyFailed \/ EmitContainerFailed
  PROVE  ScopeInv'
<1>0. STypes /\ slog \in Seq(SEvent) /\ \A name \in SNames : Append(slog, Plain(name)) \in Seq(SEvent)
  <2>1. STypes /\ slog \in Seq(SEvent)
    BY DEF ScopeInv, STypes
  <2> QED
    BY <2>1, EventTypes
<1>1. CASE StepContainer
  <2>1. PICK name \in SNames \ {"step_completed"} : name = "step_started"
    BY DEF SNames
  <2>2. slog' = Append(slog, Plain(name)) /\ shape' = shape /\ spc = "idle" /\ spc' = "enter" /\ crashes' = crashes /\ ~Failed(slog)
    BY <1>1, <2>1 DEF StepContainer, Append1, Same
  <2>3. STypes'
    BY <1>0, <1>1, <2>2 DEF StepContainer, Same, STypes, locals, SPlaces
  <2> QED
    BY <2>1, <2>2, <2>3, AppendsApart DEF Walking
<1>2. CASE BodyNested
  <2>1. PICK name \in SNames \ {"step_completed"} : name = "step_failed"
    BY DEF SNames
  <2>2. slog' = Append(slog, Plain(name)) /\ shape' = shape /\ spc = "body" /\ spc' = "finBody" /\ crashes' = crashes
    BY <1>2, <2>1 DEF BodyNested, Append1, Same, Ending
  <2>3. STypes'
    BY <1>0, <1>2, <2>2 DEF BodyNested, Same, STypes, Ending, SPlaces
  <2> QED
    BY <2>1, <2>2, <2>3, AppendsApart DEF Walking, Undecided
<1>3. CASE EmitCause
  <2>0. verdict \in {"signal", "timeout", "idle"} /\ ~Failed(slog)
    BY <1>3 DEF EmitCause, ScopeInv, OutcomeInv, Undecided
  <2>1. PICK name \in SNames \ {"step_completed", "step_failed"} : name = CauseOf[verdict]
    BY <2>0 DEF SNames, CauseOf
  <2>2. slog' = Append(slog, Plain(name)) /\ shape' = shape /\ spc = "cause" /\ spc' = "failBody" /\ crashes' = crashes
    BY <1>3, <2>1 DEF EmitCause, Append1, Same
  <2>3. STypes'
    BY <1>0, <1>3, <2>2 DEF EmitCause, Same, STypes, locals, SPlaces
  <2> QED
    BY <2>0, <2>1, <2>2, <2>3, AppendsApart DEF Walking
<1>4. CASE EmitBodyFailed
  <2>1. PICK name \in SNames \ {"step_completed"} : name = "step_failed"
    BY DEF SNames
  <2>2. slog' = Append(slog, Plain(name)) /\ shape' = shape /\ spc = "failBody" /\ spc' = "finBody" /\ crashes' = crashes
    BY <1>4, <2>1 DEF EmitBodyFailed, Append1, Same
  <2>3. STypes'
    BY <1>0, <1>4, <2>2 DEF EmitBodyFailed, Same, STypes, locals, SPlaces
  <2> QED
    BY <2>1, <2>2, <2>3, AppendsApart DEF Walking, Undecided
<1>5. CASE EmitContainerFailed
  <2>1. PICK name \in SNames \ {"step_completed"} : name = "step_failed"
    BY DEF SNames
  <2>2. slog' = Append(slog, Plain(name)) /\ shape' = shape /\ spc = "outer" /\ spc' = "finOuter" /\ crashes' = crashes
    BY <1>5, <2>1 DEF EmitContainerFailed, Append1, Same
  <2>3. STypes'
    BY <1>0, <1>5, <2>2 DEF EmitContainerFailed, Same, STypes, locals, SPlaces
  <2> QED
    BY <2>1, <2>2, <2>3, AppendsApart DEF Walking, Undecided
<1> QED
  BY <1>1, <1>2, <1>3, <1>4, <1>5

\* A step of a body that stays where it is, with nothing new of the walk in the log.
LEMMA StaysInBody ==
  ASSUME ScopeInv, STypes', WalkInv', OutputOfLog', ~ContainerDone(slog'), ~Failed(slog'),
         UNCHANGED <<shape, st, at, value, bodyOut, final, crashes>>,
         spc \in Walking, spc' \in Walking \ {"body"}, at[2] < Len(shape.body), Kind # "nested",
         spc' = "chatCall" => Kind = "chat",
         spc' = "emit" => Kind \in {"cmd", "agent", "chat", "gate"} /\ (Kind = "gate" => gate' \in {"continue", "skip", "break"}),
         NextAt(shape, slog') = NextAt(shape, slog), HasBroken(slog') <=> HasBroken(slog),
         \A i : LastOutput(slog', i) = LastOutput(slog, i), LastOf(slog', Scoped(slog')) = LastOf(slog, Scoped(slog))
  PROVE  ScopeInv'
<1>0. /\ spc # "loop" /\ spc # "synth" /\ spc' # "loop" /\ spc' # "synth" /\ spc' # "body" /\ spc' # "cause"
      /\ spc' \notin {"idle", "enter", "dead"}
  BY DEF Walking
<1>1. Kind' = Kind /\ (Recoverable' <=> Recoverable) /\ (Known' <=> Known)
  BY DEF Kind, Recoverable, Known
<1>2. OutcomeInv'
  BY <1>0 DEF OutcomeInv
<1>3. PlaceInv'
  BY <1>0, <1>1 DEF ScopeInv, PlaceInv
<1>4. OutputInv'
  BY <1>0, <1>1 DEF ScopeInv, OutputInv
<1>5. ValueOfLog'
  BY <1>1 DEF ScopeInv, ValueOfLog, Walking
<1> QED
  BY <1>2, <1>3, <1>4, <1>5 DEF ScopeInv

\* Where the runner is inside a body.
LEMMA InBody ==
  ASSUME ScopeInv, spc \in Walking
  PROVE  /\ STypes /\ ~Failed(slog) /\ ~ContainerDone(slog) /\ OutputOfLog /\ WalkInv
         /\ spc # "body" => at[2] < Len(shape.body) /\ Kind # "nested"
         /\ spc = "chatCall" => Kind = "chat"
BY DEF ScopeInv, OutcomeInv, PlaceInv, Walking, Undecided

\* A body step that ends without completing.
LEMMA LosesRace ==
  ASSUME ScopeInv, spc \in Walking, Broken \/ Interrupted \/ Ending("idle", "cause"),
         UNCHANGED <<slog, srow, st, at, value, bodyOut, final, gate, shape, inputs, crashes>>
  PROVE  ScopeInv'
<1>1. /\ spc' = "failBody" \/ (spc' = "cause" /\ verdict' \in {"signal", "timeout", "idle"})
      /\ verdict' \in {"failed", "cancelled", "signal", "timeout", "idle"}
  BY DEF Broken, Interrupted, Ending
<1>2. STypes'
  BY <1>1, InBody DEF STypes, SPlaces
<1> QED
  BY <1>1, <1>2, LeavesWalk DEF Walking, Undecided

\* The same place in the body, and the same log.
LEMMA GoesOnSame ==
  ASSUME ScopeInv, spc \in Walking, spc' \in Walking \ {"body"}, at[2] < Len(shape.body), Kind # "nested",
         UNCHANGED <<slog, srow, st, at, value, bodyOut, final, verdict, shape, inputs, crashes>>,
         gate' \in Gates, spc' = "chatCall" => Kind = "chat",
         spc' = "emit" => Kind \in {"cmd", "agent", "chat", "gate"} /\ (Kind = "gate" => gate' \in {"continue", "skip", "break"})
  PROVE  ScopeInv'
<1>1. STypes'
  BY InBody DEF STypes, SPlaces, Walking
<1>2. WalkInv' /\ ~ContainerDone(slog') /\ ~Failed(slog')
  BY InBody DEF WalkInv
<1>3. OutputOfLog'
  BY <1>2, NothingReported
<1> QED
  BY <1>1, <1>2, <1>3, StaysInBody

\* The same place in the body, and one more event that completes nothing.
LEMMA GoesOnLogged ==
  ASSUME ScopeInv, spc \in Walking, spc' \in Walking \ {"body"}, at[2] < Len(shape.body), Kind # "nested",
         NEW e \in SEvent, e.ev \notin {"step_completed", "step_failed"}, slog' = Append(slog, e),
         UNCHANGED <<srow, st, at, value, bodyOut, final, verdict, gate, shape, inputs, crashes>>,
         spc' = "chatCall" => Kind = "chat", spc' = "emit" => Kind = "chat"
  PROVE  ScopeInv'
<1>0. spc # "returned"
  BY DEF Walking
<1>1. /\ slog' \in Seq(SEvent) /\ WalkInv' /\ ~ContainerDone(slog') /\ OutputOfLog' /\ ~Failed(slog')
      /\ NextAt(shape, slog') = NextAt(shape, slog) /\ (HasBroken(slog') <=> HasBroken(slog))
      /\ (\A i : LastOutput(slog', i) = LastOutput(slog, i)) /\ LastOf(slog', Scoped(slog')) = LastOf(slog, Scoped(slog))
  BY <1>0, LogsPlain, InBody
<1> HIDE <1>0
<1>2. STypes'
  BY <1>1, InBody DEF STypes, SPlaces, Walking
<1> QED
  BY <1>1, <1>2, StaysInBody

\* The steps of a body up to the one that logs its completion.
LEMMA ExecSteps ==
  ASSUME ScopeInv, BodyStart \/ ExecCmd \/ ExecAgent \/ ExecChat \/ ChatCall \/ ExecGate
  PROVE  ScopeInv'
<1>0. STypes /\ gate \in Gates
  BY DEF ScopeInv, STypes
<1>1. CASE BodyStart
  <2>1. at \in Pair
    <3>1. at[1] \in Int /\ at[2] \in Int /\ at = <<at[1], at[2]>>
      BY <1>0 DEF STypes, Cells
    <3> QED
      BY <3>1 DEF Pair
  <2>2. PICK e \in SEvent : e = Entry("step_started", at, << >>, "none") /\ e.ev = "step_started"
    <3>1. "step_started" \in SNames /\ << >> \in Seq(Pair) /\ "none" \in Gates
      BY DEF SNames, Gates
    <3>2. Entry("step_started", at, << >>, "none") \in SEvent
      BY <2>1, <3>1, EventTypes
    <3>3. Entry("step_started", at, << >>, "none").ev = "step_started"
      BY DEF Entry
    <3> QED
      BY <3>2, <3>3
  <2>3. /\ spc = "body" /\ spc' = "exec" /\ at[2] < Len(shape.body) /\ Kind # "nested" /\ slog' = Append(slog, e)
        /\ UNCHANGED <<srow, st, at, value, bodyOut, final, verdict, gate, shape, inputs, crashes>>
    BY <1>1, <2>2 DEF BodyStart, Append1, Same, locals
  <2> QED
    BY <2>2, <2>3, GoesOnLogged DEF Walking
<1>2. CASE ExecCmd
  <2>1. /\ spc = "exec" /\ Kind = "cmd" /\ UNCHANGED <<slog, srow, st, at, value, bodyOut, final, gate, shape, inputs, crashes>>
        /\ (spc' = "emit" /\ verdict' = verdict) \/ Broken \/ Interrupted \/ Ending("idle", "cause")
    BY <1>2 DEF ExecCmd, Same
  <2>2. spc \in Walking /\ at[2] < Len(shape.body)
    BY <2>1, InBody DEF Walking
  <2>3. CASE spc' = "emit" /\ verdict' = verdict
    BY <1>0, <2>1, <2>2, <2>3, GoesOnSame DEF Walking
  <2> QED
    BY <2>1, <2>2, <2>3, LosesRace
<1>3. CASE ExecAgent
  <2>1. /\ spc = "exec" /\ Kind = "agent" /\ UNCHANGED <<slog, srow, st, at, value, bodyOut, final, gate, shape, inputs, crashes>>
        /\ (spc' = "emit" /\ verdict' = verdict) \/ Broken \/ Interrupted
    BY <1>3 DEF ExecAgent, Same
  <2>2. spc \in Walking /\ at[2] < Len(shape.body)
    BY <2>1, InBody DEF Walking
  <2>3. CASE spc' = "emit" /\ verdict' = verdict
    BY <1>0, <2>1, <2>2, <2>3, GoesOnSame DEF Walking
  <2> QED
    BY <2>1, <2>2, <2>3, LosesRace
<1>4. CASE ExecChat
  <2>1. /\ spc = "exec" /\ Kind = "chat" /\ UNCHANGED <<srow, st, at, value, bodyOut, final, gate, shape, inputs, crashes>>
        /\ (slog' = Append(slog, Plain("chat_user")) /\ spc' = "chatCall" /\ verdict' = verdict) \/ (Broken /\ slog' = slog)
    BY <1>4 DEF ExecChat, Same, Append1
  <2>2. spc \in Walking /\ at[2] < Len(shape.body)
    BY <2>1, InBody DEF Walking
  <2>3. CASE slog' = Append(slog, Plain("chat_user")) /\ spc' = "chatCall" /\ verdict' = verdict
    <3>1. PICK e \in SEvent : e = Plain("chat_user") /\ e.ev = "chat_user"
      BY EventTypes, PlainIs DEF SNames
    <3>2. slog' = Append(slog, e)
      BY <2>3, <3>1
    <3> QED
      BY <2>1, <2>2, <2>3, <3>1, <3>2, GoesOnLogged DEF Walking
  <2> QED
    BY <2>1, <2>2, <2>3, LosesRace
<1>5. CASE ChatCall
  <2>1. /\ spc = "chatCall" /\ UNCHANGED <<srow, st, at, value, bodyOut, final, gate, shape, inputs, crashes>>
        /\ \/ slog' = Append(slog, Plain("chat_assistant")) /\ spc' = "emit" /\ verdict' = verdict
           \/ (Broken \/ Interrupted) /\ slog' = slog
    BY <1>5 DEF ChatCall, Same, Append1
  <2>2. spc \in Walking /\ at[2] < Len(shape.body) /\ Kind = "chat"
    BY <2>1, InBody DEF Walking
  <2>3. CASE slog' = Append(slog, Plain("chat_assistant")) /\ spc' = "emit" /\ verdict' = verdict
    <3>1. PICK e \in SEvent : e = Plain("chat_assistant") /\ e.ev = "chat_assistant"
      BY EventTypes, PlainIs DEF SNames
    <3>2. slog' = Append(slog, e)
      BY <2>3, <3>1
    <3> QED
      BY <2>1, <2>2, <2>3, <3>1, <3>2, GoesOnLogged DEF Walking
  <2> QED
    BY <2>1, <2>2, <2>3, LosesRace
<1>6. CASE ExecGate
  <2>1. /\ spc = "exec" /\ Kind = "gate" /\ UNCHANGED <<slog, srow, st, at, value, bodyOut, final, shape, inputs, crashes>>
        /\ \/ gate' \in {"continue", "skip", "break"} /\ spc' = "emit" /\ verdict' = verdict
           \/ Broken /\ gate' = gate
    BY <1>6 DEF ExecGate, Same
  <2>2. spc \in Walking /\ at[2] < Len(shape.body)
    BY <2>1, InBody DEF Walking
  <2>3. CASE gate' \in {"continue", "skip", "break"} /\ spc' = "emit" /\ verdict' = verdict
    BY <2>1, <2>2, <2>3, GoesOnSame DEF Walking, Gates
  <2> QED
    BY <2>1, <2>2, <2>3, LosesRace
<1> QED
  BY <1>1, <1>2, <1>3, <1>4, <1>5, <1>6

\* An output that is looked up is one on record.
LEMMA LoggedTypes ==
  ASSUME shape \in Shapes, NEW l \in Seq(SEvent), WalkOf(shape, l), NEW c
  PROVE  LoggedOutput(l, c) \in Optional(shape)
<1>1. PICK outs : outs = WithOutput(l, {k \in Scoped(l) : l[k].at = c})
  OBVIOUS
<1>2. outs \subseteq Scoped(l) /\ outs \subseteq Nat
  <2>1. outs \subseteq Scoped(l)
    BY <1>1 DEF WithOutput
  <2> QED
    BY <2>1, ScopedTypes
<1>3. CASE outs = {}
  BY <1>1, <1>3, OptionalTypes DEF LoggedOutput
<1>4. CASE outs # {}
  <2>1. PICK k \in Scoped(l) : k = Least(outs)
    BY <1>2, <1>4, LeastIs
  <2>2. LoggedOutput(l, c) = l[k].out
    BY <1>1, <1>4, <2>1 DEF LoggedOutput
  <2> QED
    BY <2>2, FitsTypes DEF WalkOf, WalkFits
<1> QED
  BY <1>3, <1>4

\* So is what a resume recovers.
LEMMA RecoveredTypes ==
  ASSUME shape \in Shapes, slog \in Seq(SEvent), WalkInv, NEW i, NEW from
  PROVE  Recovered(i, from) \in Optional(shape)
<1>1. \A p : LoggedOutput(slog, <<i, p>>) \in Optional(shape)
  BY LoggedTypes DEF WalkInv
<1>2. << >> \in Optional(shape)
  BY OptionalTypes
<1> QED
  BY <1>1, <1>2 DEF Recovered

\* An iteration begins, or goes on, where the log says and with what the log holds.
LEMMA Begins ==
  ASSUME ScopeInv, NEW s \in StateSet(shape), NEW i \in 0..(shape.rounds - 1), NEW p, p = StartPosition(s, i),
         BeginIteration(s, i), st' = s,
         UNCHANGED <<slog, srow, final, verdict, gate, shape, inputs, crashes>>, spc \in {"enter", "loop"},
         ~HasBroken(slog), (shape.body = << >> /\ p = 0) \/ NextAt(shape, slog) = <<i, p>>,
         shape.kind # "call" => s.next = i /\ s.broke = FALSE,
         Known => \A j \in 0..shape.rounds : s.outs[j] = LastOutput(slog, j),
         crashes = 0 => NextAt(shape, slog)[2] = 0,
         Known /\ shape.kind = "repeat" /\ NextAt(shape, slog)[2] = 0 => final = LastOf(slog, Scoped(slog))
  PROVE  ScopeInv'
<1>0. /\ shape \in Shapes /\ slog \in Seq(SEvent) /\ WalkInv /\ WalkOf(shape, slog) /\ ~Failed(slog) /\ ~ContainerDone(slog)
      /\ shape.rounds \in Nat /\ Len(shape.body) \in Nat /\ (shape.body = << >> <=> Len(shape.body) = 0)
  <2>1. shape \in Shapes /\ slog \in Seq(SEvent) /\ WalkInv /\ WalkOf(shape, slog) /\ ~Failed(slog) /\ ~ContainerDone(slog)
    BY DEF ScopeInv, STypes, OutcomeInv, WalkInv, Undecided
  <2> QED
    BY <2>1, ShapeTypes
<1>1. at' = <<i, p>> /\ bodyOut' = Recovered(i, p) /\ value' = Seed(s, i) /\ spc' = "body"
  BY DEF BeginIteration
<1>2. p \in 0..Len(shape.body) /\ (shape.body # << >> => p < Len(shape.body) /\ NextAt(shape, slog) = <<i, p>>)
  <2>1. CASE shape.body = << >> /\ p = 0
    BY <1>0, <2>1
  <2>2. CASE NextAt(shape, slog) = <<i, p>>
    <3>1. NextAt(shape, slog)[2] = p
      BY <2>2
    <3> QED
      BY <1>0, <2>2, <3>1, NextTypes
  <2> QED
    BY <2>1, <2>2
<1>3. i \in 0..shape.rounds /\ i \in Int /\ i < shape.rounds /\ (i > 0 => i - 1 \in 0..shape.rounds)
  BY <1>0
<1>4. STypes'
  <2>1. at' \in Cells(shape)
    BY <1>0, <1>1, <1>2, OptionalTypes
  <2>2. bodyOut' \in Optional(shape)
    BY <1>0, <1>1, RecoveredTypes
  <2>3. value' \in Optional(shape)
    BY <1>0, <1>1, <1>3, OptionalTypes DEF Seed, StateSet
  <2> QED
    BY <1>1, <2>1, <2>2, <2>3 DEF ScopeInv, STypes, SPlaces
<1>5. WalkInv' /\ OutcomeInv'
  <2>1. WalkInv'
    BY <1>0 DEF WalkInv
  <2> QED
    BY <1>0, <1>1, <2>1 DEF OutcomeInv
<1>6. OutputOfLog'
  BY <1>0, NothingReported
<1>7. /\ at'[1] = i /\ at'[2] = p /\ (Recoverable' <=> Recoverable) /\ (Known' <=> Known)
      /\ NextAt(shape', slog') = NextAt(shape, slog) /\ shape' = shape /\ slog' = slog /\ crashes' = crashes
  BY <1>1 DEF Recoverable, Known
<1>8. PlaceInv'
  <2>1. at'[2] < Len(shape.body) => at' = NextAt(shape, slog)
    BY <1>0, <1>1, <1>2, <1>7
  <2>2. ~(at'[2] >= Len(shape.body) /\ shape.body # << >>)
    BY <1>0, <1>2, <1>7
  <2>3. spc' = "body" /\ spc' \notin {"loop", "synth", "exec", "chatCall", "emit"} /\ at'[1] < shape.rounds
    BY <1>1, <1>3, <1>7
  <2>4. shape.kind # "call" => st'.next = at'[1] /\ st'.broke = FALSE
    BY <1>7
  <2> QED
    BY <1>7, <2>1, <2>2, <2>3, <2>4 DEF PlaceInv, Walking
<1>9. Known => Recovered(i, p) = LastOutput(slog, i)
  <2>1. CASE shape.body = << >>
    <3>1. p = 0 /\ LastOutput(slog, i) = << >>
      BY <1>0, <1>2, <2>1, EmptyBody
    <3>2. 0..(p - 1) = {}
      BY <3>1
    <3> QED
      BY <3>1, <3>2 DEF Recovered
  <2>2. CASE shape.body # << >>
    <3>1. NextAt(shape, slog) = <<i, p>> /\ NextAt(shape, slog)[2] = p
      BY <1>2, <2>2
    <3> QED
      BY <1>0, <3>1, RecoveredIs DEF Known
  <2> QED
    BY <2>1, <2>2
<1>10. Known /\ shape.kind = "repeat" => OrElse(bodyOut', final) = LastOf(slog, Scoped(slog))
  <2> SUFFICES ASSUME Known, shape.kind = "repeat" PROVE OrElse(bodyOut', final) = LastOf(slog, Scoped(slog))
    OBVIOUS
  <2>1. bodyOut' = LastOutput(slog, i)
    BY <1>1, <1>9
  <2>2. CASE NextAt(shape, slog)[2] = 0
    <3>1. LastOutput(slog, i) = << >>
      <4>1. CASE shape.body = << >>
        BY <1>0, <4>1, EmptyBody
      <4>2. CASE shape.body # << >>
        <5>1. NextAt(shape, slog)[1] = i
          BY <1>2, <4>2
        <5>2. \A k \in Scoped(slog) : slog[k].at[1] \in Int /\ slog[k].at[1] < i
          BY <1>0, <2>2, <5>1, NextTypes, ScopedTypes
        <5>3. \A k \in Scoped(slog) : slog[k].at[1] # i
          BY <1>3, <5>2
        <5> QED
          BY <1>0, <1>3, <5>3, FreshRound
      <4> QED
        BY <4>1, <4>2
    <3> QED
      BY <2>1, <2>2, <3>1 DEF OrElse
  <2>3. CASE NextAt(shape, slog)[2] # 0
    <3>0. Recoverable
      BY <2>3 DEF Known
    <3>1. PICK e : e = LastEv(slog)
      OBVIOUS
    <3>2. Scoped(slog) # {} /\ NextAt(shape, slog) = <<e.at[1], e.at[2] + 1>>
      BY <2>3, <3>1 DEF NextAt
    <3>3. shape.body # << >>
      BY <1>0, <3>2, EmptyBody
    <3>4. i = e.at[1]
      BY <1>2, <3>2, <3>3
    <3>5. PICK g \in Scoped(slog) : slog[g] = e
      BY <1>0, <3>1, <3>2, LastTypes
    <3>6. LastOutput(slog, i) # << >>
      BY <1>0, <3>0, <3>4, <3>5, FirstIsCmd
    <3>7. \A k \in Scoped(slog) : slog[k].at[1] <= i
      BY <1>0, <3>1, <3>4, LastIsLast
    <3>8. LastOf(slog, Scoped(slog)) = LastOutput(slog, i)
      BY <1>0, <1>3, <3>6, <3>7, LastOverall
    <3> QED
      BY <2>1, <3>6, <3>8 DEF OrElse
  <2> QED
    BY <2>2, <2>3
<1>11. OutputInv'
  <2>1. spc' = "body" /\ spc' \notin {"loop", "synth", "idle", "enter", "dead"}
    BY <1>1
  <2>2. Known => bodyOut' = LastOutput(slog, i)
    BY <1>1, <1>9
  <2>3. Known => \A j \in 0..shape.rounds : st'.outs[j] = LastOutput(slog, j)
    OBVIOUS
  <2>4. final' = final
    OBVIOUS
  <2> QED
    BY <1>3, <1>7, <1>10, <2>1, <2>2, <2>3, <2>4 DEF OutputInv
<1>12. ValueOfLog'
  <2>1. Known /\ shape.kind = "repeat" /\ i > 0 => value' = LastOutput(slog, i - 1)
    BY <1>1, <1>3 DEF Seed
  <2> QED
    BY <1>7, <2>1 DEF ValueOfLog, Known
<1> QED
  BY <1>4, <1>5, <1>6, <1>8, <1>11, <1>12 DEF ScopeInv

\* The end of a call: its final output is the last one on record.
LEMMA CallEnds ==
  ASSUME shape' = shape, shape.kind = "call", spc' = "synth",
         shape.body = << >> \/ HasBroken(slog') \/ NextAt(shape, slog')[1] >= shape.rounds,
         Known' => final' = LastOf(slog', Scoped(slog'))
  PROVE  PlaceInv' /\ OutputInv' /\ ValueOfLog'
<1>1. spc' \notin Walking /\ spc' \notin {"loop", "idle", "enter", "dead", "body", "exec", "chatCall", "emit"}
  BY DEF Walking
<1>2. PlaceInv'
  BY <1>1 DEF PlaceInv
<1>3. OutputInv'
  BY <1>1 DEF OutputInv
<1>4. ValueOfLog'
  BY <1>1 DEF ValueOfLog
<1> QED
  BY <1>2, <1>3, <1>4

\* The head of the loop of a repeat or a map.
LEMMA LoopHead ==
  ASSUME shape' = shape, shape.kind # "call", spc' = "loop",
         st'.broke <=> HasBroken(slog'), HasBroken(slog') => st'.next = LastEv(slog').at[1],
         ~HasBroken(slog') => IF shape.body = << >> THEN StartPosition(st', st'.next) = 0
                              ELSE NextAt(shape, slog') = <<st'.next, StartPosition(st', st'.next)>>,
         crashes' = 0 /\ ~HasBroken(slog') => NextAt(shape, slog')[2] = 0,
         Known' /\ (shape.kind = "map" \/ ~HasBroken(slog')) => \A i \in 0..shape.rounds : st'.outs[i] = LastOutput(slog', i),
         Known' /\ shape.kind = "repeat" /\ (HasBroken(slog') \/ NextAt(shape, slog')[2] = 0)
             => final' = LastOf(slog', Scoped(slog'))
  PROVE  PlaceInv' /\ OutputInv' /\ ValueOfLog'
<1>1. spc' \notin Walking /\ spc' \notin {"synth", "idle", "enter", "dead", "body", "exec", "chatCall", "emit"}
  BY DEF Walking
<1>2. PlaceInv'
  BY <1>1 DEF PlaceInv, StartPosition
<1>3. OutputInv'
  BY <1>1 DEF OutputInv
<1>4. ValueOfLog'
  BY <1>1 DEF ValueOfLog
<1> QED
  BY <1>2, <1>3, <1>4

\* A container that is refused before its body.
LEMMA Rejected ==
  ASSUME ScopeInv, spc = "enter", Reject, UNCHANGED <<slog, srow, shape, inputs, crashes>>
  PROVE  ScopeInv'
<1>1. spc' = "outer" /\ STypes'
  BY DEF ScopeInv, STypes, Reject, SPlaces
<1> QED
  BY <1>1, LeavesWalk DEF Walking, Undecided

\* What holds on entry: the log is a walk, and a first process finds nothing there.
LEMMA OnEntry ==
  ASSUME ScopeInv, spc = "enter", NEW s, s = Rebuild(slog)
  PROVE  /\ shape \in Shapes /\ slog \in Seq(SEvent) /\ WalkInv /\ WalkOf(shape, slog) /\ ~Failed(slog) /\ ~ContainerDone(slog)
         /\ shape.rounds \in Nat /\ s \in StateSet(shape) /\ (s.broke <=> HasBroken(slog))
         /\ HasBroken(slog) => s.next = LastEv(slog).at[1]
         /\ ~HasBroken(slog) => NextAt(shape, slog) = <<s.next, StartPosition(s, s.next)>>
         /\ \A i \in 0..shape.rounds : s.outs[i] = LastOutput(slog, i)
         /\ crashes = 0 => Scoped(slog) = {} /\ NextAt(shape, slog) = <<0, 0>> /\ NextAt(shape, slog)[2] = 0 /\ ~HasBroken(slog)
<1>1. shape \in Shapes /\ slog \in Seq(SEvent) /\ WalkInv /\ WalkOf(shape, slog) /\ ~Failed(slog) /\ ~ContainerDone(slog)
  BY DEF ScopeInv, STypes, OutcomeInv, WalkInv, Undecided
<1>2. crashes = 0 => Scoped(slog) = {} /\ NextAt(shape, slog) = <<0, 0>> /\ NextAt(shape, slog)[2] = 0 /\ ~HasBroken(slog)
  <2>1. crashes = 0 => Scoped(slog) = {}
    BY DEF ScopeInv, OutputInv
  <2> QED
    BY <2>1 DEF NextAt, HasBroken
<1> QED
  BY <1>1, <1>2, Rebuilt, ShapeTypes

\* run_call up to its first body step, or to its end when its log is complete.
LEMMA EnterCallStep ==
  ASSUME ScopeInv, EnterCall
  PROVE  ScopeInv'
<1>1. spc = "enter" /\ shape.kind = "call" /\ UNCHANGED <<slog, srow, shape, inputs, crashes>>
  BY DEF EnterCall, Same
<1>2. PICK s : s = Rebuild(slog)
  OBVIOUS
<1>3. /\ shape \in Shapes /\ slog \in Seq(SEvent) /\ WalkInv /\ WalkOf(shape, slog) /\ ~Failed(slog) /\ ~ContainerDone(slog)
      /\ shape.rounds \in Nat /\ s \in StateSet(shape) /\ (s.broke <=> HasBroken(slog))
      /\ ~HasBroken(slog) => NextAt(shape, slog) = <<s.next, StartPosition(s, s.next)>>
      /\ \A i \in 0..shape.rounds : s.outs[i] = LastOutput(slog, i)
      /\ crashes = 0 => NextAt(shape, slog)[2] = 0
  BY <1>1, <1>2, OnEntry
<1>4. shape.rounds = 1 /\ 0 \in 0..(shape.rounds - 1)
  <2>1. shape.rounds = 1
    BY <1>1, <1>3, ShapeTypes
  <2> QED
    BY <2>1
<1>5. CASE Reject
  BY <1>1, <1>5, Rejected
<1>6. CASE st' = s /\ s.next = 0 /\ ~s.broke /\ BeginIteration(s, 0) /\ UNCHANGED <<final, verdict, gate>>
  <2>1. PICK p : p = StartPosition(s, 0)
    OBVIOUS
  <2>2. ~HasBroken(slog) /\ NextAt(shape, slog) = <<0, p>>
    BY <1>3, <1>6, <2>1
  <2> QED
    BY <1>1, <1>3, <1>4, <1>6, <2>1, <2>2, Begins
<1>7. CASE /\ st' = s /\ (s.next # 0 \/ s.broke) /\ final' = s.outs[0] /\ spc' = "synth"
           /\ UNCHANGED <<at, bodyOut, value, verdict, gate>>
  <2>1. STypes'
    <3>1. final' \in Optional(shape) /\ st' \in StateSet(shape)
      BY <1>3, <1>4, <1>7 DEF StateSet
    <3> QED
      BY <1>1, <1>7, <3>1 DEF ScopeInv, STypes, SPlaces
  <2>2. WalkInv' /\ OutcomeInv' /\ OutputOfLog'
    BY <1>1, <1>3, <1>7, NothingReported DEF WalkInv, OutcomeInv
  <2>3. HasBroken(slog) \/ NextAt(shape, slog)[1] >= shape.rounds
    <3>1. s.next \in 0..shape.rounds
      BY <1>3 DEF StateSet
    <3> QED
      BY <1>3, <1>4, <1>7, <3>1
  <2>4. final' = LastOf(slog, Scoped(slog))
    BY <1>1, <1>3, <1>4, <1>7, CallRound
  <2>5. PlaceInv' /\ OutputInv' /\ ValueOfLog'
    BY <1>1, <1>7, <2>3, <2>4, CallEnds
  <2> QED
    BY <2>1, <2>2, <2>5 DEF ScopeInv
<1> QED
  BY <1>2, <1>5, <1>6, <1>7 DEF EnterCall

\* run_repeat and run_map up to the head of their loop.
LEMMA EnterLoopSteps ==
  ASSUME ScopeInv, EnterRepeat \/ EnterMap
  PROVE  ScopeInv'
<1>1. spc = "enter" /\ shape.kind # "call" /\ UNCHANGED <<slog, srow, shape, inputs, crashes>>
  BY DEF EnterRepeat, EnterMap, Same
<1>2. PICK s : s = Rebuild(slog)
  OBVIOUS
<1>3. /\ shape \in Shapes /\ slog \in Seq(SEvent) /\ WalkInv /\ WalkOf(shape, slog) /\ ~Failed(slog) /\ ~ContainerDone(slog)
      /\ shape.rounds \in Nat /\ s \in StateSet(shape) /\ (s.broke <=> HasBroken(slog))
      /\ HasBroken(slog) => s.next = LastEv(slog).at[1]
      /\ ~HasBroken(slog) => NextAt(shape, slog) = <<s.next, StartPosition(s, s.next)>>
      /\ \A i \in 0..shape.rounds : s.outs[i] = LastOutput(slog, i)
      /\ crashes = 0 => Scoped(slog) = {} /\ NextAt(shape, slog) = <<0, 0>> /\ NextAt(shape, slog)[2] = 0 /\ ~HasBroken(slog)
  BY <1>1, <1>2, OnEntry
<1>4. CASE Reject
  BY <1>1, <1>4, Rejected
<1> DEFINE prev == IF s.next = 0 THEN 0 ELSE s.next - 1
           found == IF s.broke THEN OrElse(s.outs[s.next], IF s.next = 0 THEN << >> ELSE s.outs[prev]) ELSE s.outs[prev]
<1>5. CASE /\ st' = s /\ spc' = "loop" /\ UNCHANGED <<at, bodyOut, value, verdict, gate>>
           /\ (shape.kind = "map" /\ final' = final) \/ (shape.kind = "repeat" /\ final' = found)
  <2>0. s.next \in 0..shape.rounds /\ prev \in 0..shape.rounds /\ \A i \in 0..shape.rounds : s.outs[i] \in Optional(shape)
    BY <1>3 DEF StateSet
  <2>1. STypes'
    <3>1. found \in Optional(shape)
      BY <1>3, <2>0, OptionalTypes
    <3>2. final' \in Optional(shape)
      BY <1>5, <3>1 DEF ScopeInv, STypes
    <3> HIDE DEF found
    <3> QED
      BY <1>1, <1>3, <1>5, <3>2 DEF ScopeInv, STypes, SPlaces
  <2>2. WalkInv' /\ OutcomeInv' /\ OutputOfLog'
    BY <1>1, <1>3, <1>5, NothingReported DEF WalkInv, OutcomeInv
  <2>3. ASSUME Known, shape.kind = "repeat", HasBroken(slog) \/ NextAt(shape, slog)[2] = 0
        PROVE  found = LastOf(slog, Scoped(slog))
    <3>1. CASE Scoped(slog) = {}
      <4>1. ~HasBroken(slog) /\ \A i : Round(slog, i) = {}
        BY <3>1 DEF HasBroken, Round
      <4>2. s.outs[prev] = << >> /\ LastOf(slog, Scoped(slog)) = << >>
        BY <1>3, <2>0, <3>1, <4>1 DEF LastOutput, LastOf, WithOutput
      <4> QED
        BY <1>3, <4>1, <4>2
    <3>2. CASE Scoped(slog) # {}
      <4>0. Recoverable
        BY <1>3, <2>3, <3>2 DEF Known
      <4>1. PICK e : e = LastEv(slog)
        OBVIOUS
      <4>2. PICK g \in Scoped(slog) : slog[g] = e
        BY <1>3, <3>2, <4>1, LastTypes
      <4>3. e.at[1] \in 0..(shape.rounds - 1)
        BY <1>3, <4>2, FitsTypes DEF WalkOf, WalkFits
      <4>4. LastOutput(slog, e.at[1]) # << >>
        BY <1>3, <2>3, <4>0, <4>2, FirstIsCmd
      <4>5. \A k \in Scoped(slog) : slog[k].at[1] <= e.at[1]
        BY <1>3, <4>1, LastIsLast
      <4>6. LastOf(slog, Scoped(slog)) = LastOutput(slog, e.at[1])
        <5>1. PICK i \in Int : i = e.at[1]
          BY <4>3
        <5> QED
          BY <1>3, <4>4, <4>5, <5>1, LastOverall
      <4>7. CASE HasBroken(slog)
        <5>1. s.next = e.at[1] /\ s.broke
          BY <1>3, <4>1, <4>7
        <5>2. s.outs[s.next] = LastOutput(slog, e.at[1])
          BY <1>3, <2>0, <5>1
        <5> QED
          BY <4>4, <4>6, <5>1, <5>2 DEF OrElse
      <4>8. CASE ~HasBroken(slog)
        <5>1. NextAt(shape, slog)[2] = 0 /\ NextAt(shape, slog)[1] = s.next
          BY <1>3, <2>3, <4>8
        <5>2. Ends(shape, e)
          <6>1. e.at[2] \in 0..(Len(shape.body) - 1)
            BY <1>3, <4>2, FitsTypes DEF WalkOf, WalkFits
          <6>2. ~Ends(shape, e) => NextAt(shape, slog)[2] = e.at[2] + 1
            BY <3>2, <4>1 DEF NextAt
          <6> QED
            BY <5>1, <6>1, <6>2
        <5>3. s.next = e.at[1] + 1
          BY <3>2, <4>1, <5>1, <5>2 DEF NextAt
        <5>4. prev = e.at[1]
          BY <4>3, <5>3
        <5>5. s.outs[prev] = LastOutput(slog, e.at[1])
          BY <1>3, <2>0, <5>4
        <5> QED
          BY <1>3, <4>6, <4>8, <5>5
      <4> QED
        BY <4>7, <4>8
    <3> QED
      BY <3>1, <3>2
  <2> HIDE DEF found
  <2>4. Known' <=> Known
    BY <1>1 DEF Known, Recoverable
  <2>5. shape.body = << >> => ~HasBroken(slog) /\ NextAt(shape, slog) = <<0, 0>>
    BY <1>3, EmptyBody
  <2>6. shape.body = << >> => StartPosition(s, s.next) = 0
    BY <1>3, <2>5
  <2>7. PlaceInv' /\ OutputInv' /\ ValueOfLog'
    <3>1. st' = s /\ slog' = slog /\ crashes' = crashes
      BY <1>1, <1>5
    <3>2. Known' /\ shape.kind = "repeat" /\ (HasBroken(slog) \/ NextAt(shape, slog)[2] = 0) => final' = LastOf(slog, Scoped(slog))
      BY <1>5, <2>3, <2>4
    <3> QED
      BY <1>1, <1>3, <1>5, <2>6, <3>1, <3>2, LoopHead
  <2> QED
    BY <2>1, <2>2, <2>7 DEF ScopeInv
<1> QED
  BY <1>1, <1>2, <1>4, <1>5 DEF EnterRepeat, EnterMap

\* What holds at the head of the loop.
LEMMA AtLoop ==
  ASSUME ScopeInv, spc = "loop"
  PROVE  /\ shape \in Shapes /\ slog \in Seq(SEvent) /\ WalkInv /\ WalkOf(shape, slog) /\ ~Failed(slog) /\ ~ContainerDone(slog)
         /\ shape.rounds \in Nat /\ shape.kind # "call" /\ st \in StateSet(shape) /\ st.next \in 0..shape.rounds
         /\ st.broke <=> HasBroken(slog)
         /\ HasBroken(slog) => st.next = LastEv(slog).at[1]
         /\ ~HasBroken(slog) => \/ shape.body = << >> /\ StartPosition(st, st.next) = 0
                                \/ NextAt(shape, slog) = <<st.next, StartPosition(st, st.next)>>
<1>1. shape \in Shapes /\ slog \in Seq(SEvent) /\ WalkInv /\ WalkOf(shape, slog) /\ ~Failed(slog) /\ ~ContainerDone(slog)
  BY DEF ScopeInv, STypes, OutcomeInv, WalkInv, Undecided
<1>2. st \in StateSet(shape) /\ st.next \in 0..shape.rounds
  BY DEF ScopeInv, STypes, StateSet
<1>3. /\ shape.kind # "call" /\ (st.broke <=> HasBroken(slog))
      /\ HasBroken(slog) => st.next = LastEv(slog).at[1]
      /\ ~HasBroken(slog) => \/ shape.body = << >> /\ StartPosition(st, st.next) = 0
                             \/ NextAt(shape, slog) = <<st.next, StartPosition(st, st.next)>>
  BY DEF ScopeInv, PlaceInv
<1> QED
  BY <1>1, <1>2, <1>3, ShapeTypes

\* The loop ends with a break or when no iteration is left.
LEMMA LoopIsOver ==
  ASSUME ScopeInv, spc = "loop", LoopEnds, UNCHANGED <<slog, srow, shape, inputs, crashes>>,
         st.broke \/ ~Remaining(st.next)
  PROVE  ScopeInv'
<1>1. /\ spc' = "synth" /\ UNCHANGED <<slog, srow, shape, inputs, crashes, st, at, value, bodyOut, final, verdict, gate>>
  BY DEF LoopEnds, locals
<1>2. STypes'
  BY <1>1 DEF ScopeInv, STypes, SPlaces
<1>3. WalkInv' /\ OutcomeInv' /\ OutputOfLog'
  BY <1>1, AtLoop, NothingReported DEF WalkInv, OutcomeInv
<1>4. ~HasBroken(slog) => st.next = shape.rounds
  BY AtLoop DEF Remaining
<1>5. ~HasBroken(slog) => shape.body = << >> \/ NextAt(shape, slog)[1] >= shape.rounds
  BY <1>4, AtLoop
<1>6. PlaceInv'
  <2>1. spc' \notin Walking /\ spc' \notin {"loop", "body", "chatCall", "emit"}
    BY <1>1 DEF Walking
  <2>2. HasBroken(slog) => st.next = LastEv(slog).at[1]
    BY AtLoop
  <2> QED
    BY <1>1, <1>4, <1>5, <2>1, <2>2 DEF PlaceInv
<1>7. OutputInv'
  <2>1. Known' <=> Known
    BY <1>1 DEF Known, Recoverable
  <2>2. spc' \notin Walking /\ spc' \notin {"loop", "idle", "enter", "dead"}
    BY <1>1 DEF Walking
  <2>3. shape.kind # "call"
    BY AtLoop
  <2>4. /\ Known /\ (shape.kind = "map" \/ ~HasBroken(slog)) => \A i \in 0..shape.rounds : st.outs[i] = LastOutput(slog, i)
        /\ Known /\ shape.kind = "repeat" /\ (HasBroken(slog) \/ NextAt(shape, slog)[2] = 0) => final = LastOf(slog, Scoped(slog))
    BY <2>3 DEF ScopeInv, OutputInv
  <2> QED
    BY <1>1, <2>1, <2>2, <2>3, <2>4 DEF OutputInv
<1>8. ValueOfLog'
  BY <1>1 DEF ValueOfLog
<1> QED
  BY <1>2, <1>3, <1>6, <1>7, <1>8 DEF ScopeInv

\* The loop is cancelled.
LEMMA LoopIsCancelled ==
  ASSUME ScopeInv, spc = "loop", LoopCancelled, UNCHANGED <<slog, srow, shape, inputs, crashes>>
  PROVE  ScopeInv'
<1>1. spc' = "outer" /\ STypes'
  BY DEF ScopeInv, STypes, LoopCancelled, SPlaces
<1> QED
  BY <1>1, LeavesWalk DEF Walking, Undecided

\* The next iteration of a loop.
LEMMA LoopBegins ==
  ASSUME ScopeInv, spc = "loop", UNCHANGED <<slog, srow, shape, inputs, crashes>>, ~st.broke, Remaining(st.next),
         BeginIteration(st, st.next), UNCHANGED <<st, final, verdict, gate>>
  PROVE  ScopeInv'
<1>1. PICK s \in StateSet(shape) : s = st
  BY AtLoop
<1>2. PICK i \in 0..(shape.rounds - 1) : i = st.next
  BY AtLoop DEF Remaining
<1>3. PICK p : p = StartPosition(s, i)
  OBVIOUS
<1>4. ~HasBroken(slog) /\ s.broke = FALSE
  BY <1>1, AtLoop DEF StateSet
<1>5. (shape.body = << >> /\ p = 0) \/ NextAt(shape, slog) = <<i, p>>
  BY <1>1, <1>2, <1>3, <1>4, AtLoop
<1>6. /\ shape.kind # "call"
      /\ Known => \A j \in 0..shape.rounds : s.outs[j] = LastOutput(slog, j)
      /\ crashes = 0 => NextAt(shape, slog)[2] = 0
      /\ Known /\ shape.kind = "repeat" /\ NextAt(shape, slog)[2] = 0 => final = LastOf(slog, Scoped(slog))
  <2>1. shape.kind # "call"
    BY AtLoop
  <2> QED
    BY <1>1, <1>4, <2>1 DEF ScopeInv, OutputInv
<1>7. BeginIteration(s, i) /\ st' = s
  BY <1>1, <1>2
<1> QED
  BY <1>1, <1>2, <1>3, <1>4, <1>5, <1>6, <1>7, Begins

\* The heads of the two loops.
LEMMA LoopSteps ==
  ASSUME ScopeInv, LoopRepeat \/ LoopMap
  PROVE  ScopeInv'
<1>1. spc = "loop" /\ UNCHANGED <<slog, srow, shape, inputs, crashes>>
  BY DEF LoopRepeat, LoopMap, Same
<1>2. CASE LoopEnds /\ (st.broke \/ ~Remaining(st.next))
  BY <1>1, <1>2, LoopIsOver
<1>3. CASE LoopCancelled
  BY <1>1, <1>3, LoopIsCancelled
<1>4. CASE ~st.broke /\ Remaining(st.next) /\ BeginIteration(st, st.next) /\ UNCHANGED <<st, final, verdict, gate>>
  BY <1>1, <1>4, LoopBegins
<1> QED
  BY <1>2, <1>3, <1>4 DEF LoopRepeat, LoopMap

\* What holds inside a body.
LEMMA AtWalk ==
  ASSUME ScopeInv, spc \in Walking
  PROVE  /\ shape \in Shapes /\ slog \in Seq(SEvent) /\ WalkOf(shape, slog) /\ shape.rounds \in Nat /\ Len(shape.body) \in Nat
         /\ shape.kind \in {"call", "repeat", "map"} /\ (shape.body = << >> <=> Len(shape.body) = 0)
         /\ at \in Cells(shape) /\ at[1] \in 0..(shape.rounds - 1) /\ at[2] \in 0..Len(shape.body) /\ at = <<at[1], at[2]>>
         /\ ~HasBroken(slog) /\ st \in StateSet(shape) /\ bodyOut \in Optional(shape) /\ final \in Optional(shape)
         /\ shape.kind # "call" => st.broke = FALSE /\ st.next = at[1]
         /\ shape.kind = "call" => at[1] = 0 /\ shape.rounds = 1
<1>1. /\ shape \in Shapes /\ slog \in Seq(SEvent) /\ WalkOf(shape, slog) /\ at \in Cells(shape)
      /\ st \in StateSet(shape) /\ bodyOut \in Optional(shape) /\ final \in Optional(shape)
  BY DEF ScopeInv, STypes, WalkInv
<1>2. /\ shape.rounds \in Nat /\ Len(shape.body) \in Nat /\ shape.kind \in {"call", "repeat", "map"}
      /\ (shape.body = << >> <=> Len(shape.body) = 0) /\ (shape.kind = "call" => shape.rounds = 1)
  BY <1>1, ShapeTypes
<1>3. at[1] < shape.rounds /\ ~HasBroken(slog) /\ (shape.kind # "call" => st.next = at[1] /\ (st.broke <=> HasBroken(slog)))
  BY DEF ScopeInv, PlaceInv
<1>4. at[1] \in Nat /\ at[2] \in 0..Len(shape.body) /\ at = <<at[1], at[2]>>
  BY <1>1, <1>2 DEF Cells
<1>5. shape.kind # "call" => st.broke = FALSE
  BY <1>1, <1>3 DEF StateSet
<1> QED
  BY <1>1, <1>2, <1>3, <1>4, <1>5

\* Which outputs the runner holds inside a body.
LEMMA OutputsAtWalk ==
  ASSUME ScopeInv, spc \in Walking, Known
  PROVE  /\ bodyOut = LastOutput(slog, at[1])
         /\ shape.kind # "call" => /\ \A i \in 0..shape.rounds : i # at[1] => st.outs[i] = LastOutput(slog, i)
                                   /\ st.outs[at[1]] # << >> => LastOutput(slog, at[1]) # << >>
         /\ shape.kind = "repeat" => OrElse(bodyOut, final) = LastOf(slog, Scoped(slog))
BY DEF ScopeInv, OutputInv

\* An iteration whose last step is on record, or that a gate skipped: the loop moves on.
LEMMA IterationOver ==
  ASSUME ScopeInv, spc \in Walking, IterationCompleted(bodyOut),
         UNCHANGED <<srow, at, value, bodyOut, verdict, shape, inputs, crashes>>, gate' \in Gates,
         slog' \in Seq(SEvent), WalkInv', ~ContainerDone(slog'), ~Failed(slog'), ~HasBroken(slog'),
         shape.body = << >> \/ NextAt(shape, slog') = <<at[1] + 1, 0>>,
         \A i : LastOutput(slog', i) = LastOutput(slog, i), LastOf(slog', Scoped(slog')) = LastOf(slog, Scoped(slog))
  PROVE  ScopeInv'
<1>0. Known' <=> Known
  BY DEF Known, Recoverable
<1>1. OutputOfLog'
  BY NothingReported
<1>2. shape.body = << >> => NextAt(shape, slog') = <<0, 0>>
  <2>1. WalkOf(shape, slog')
    BY DEF WalkInv
  <2>2. PICK m \in Seq(SEvent) : m = slog'
    OBVIOUS
  <2> QED
    BY <2>1, <2>2, EmptyBody, AtWalk
<1>3. NextAt(shape, slog')[2] = 0
  BY <1>2
<1>4. CASE shape.kind = "call"
  <2>1. final' = bodyOut /\ spc' = "synth" /\ st' = st
    BY <1>4 DEF IterationCompleted
  <2>2. STypes' /\ OutcomeInv'
    BY <2>1, AtWalk DEF ScopeInv, STypes, SPlaces, OutcomeInv
  <2>3. shape.body = << >> \/ NextAt(shape, slog')[1] >= shape.rounds
    BY <1>4, AtWalk
  <2>4. Known => final' = LastOf(slog', Scoped(slog'))
    <3> SUFFICES ASSUME Known PROVE final' = LastOf(slog', Scoped(slog'))
      OBVIOUS
    <3>1. at[1] = 0 /\ LastOutput(slog, 0) = LastOf(slog, Scoped(slog))
      BY <1>4, AtWalk, CallRound
    <3>2. bodyOut = LastOutput(slog, at[1])
      BY OutputsAtWalk
    <3> QED
      BY <2>1, <3>1, <3>2
  <2>5. PlaceInv' /\ OutputInv' /\ ValueOfLog'
    BY <1>0, <1>4, <2>1, <2>3, <2>4, CallEnds
  <2> QED
    BY <1>1, <2>2, <2>5 DEF ScopeInv
<1>5. CASE shape.kind # "call"
  <2>1. PICK c : c = <<at[1], IF shape.body = << >> THEN 0 ELSE Len(shape.body) - 1>>
    OBVIOUS
  <2>2. PICK o : o = [st.outs EXCEPT ![at[1]] = OrElse(bodyOut, st.outs[at[1]])]
    OBVIOUS
  <2>3. /\ st' = [st EXCEPT !.outs = o, !.next = st.next + 1, !.last = <<c>>]
        /\ final' = IF shape.kind = "repeat" THEN OrElse(bodyOut, final) ELSE final
        /\ spc' = "loop"
    <3>1. st.outs = [j \in 0..shape.rounds |-> st.outs[j]]
      BY AtWalk DEF StateSet
    <3> QED
      BY <1>5, <2>1, <2>2, <3>1 DEF IterationCompleted
  <2>4. /\ c \in Cells(shape) /\ c[1] = at[1] /\ <<c>> \in Optional(shape)
        /\ at[1] \in 0..shape.rounds /\ st.next + 1 \in 0..shape.rounds /\ at[1] \in Int /\ st.next = at[1]
    <3>1. at[1] \in 0..shape.rounds /\ st.next + 1 \in 0..shape.rounds /\ at[1] \in Int /\ st.next = at[1]
      BY <1>5, AtWalk
    <3>2. c[1] = at[1] /\ c[2] \in 0..Len(shape.body) /\ c = <<at[1], c[2]>>
      BY <2>1, AtWalk
    <3>3. c \in Cells(shape)
      BY <3>2, AtWalk, OptionalTypes
    <3> QED
      BY <3>1, <3>2, <3>3, AtWalk, OptionalTypes
  <2>5. o \in [0..shape.rounds -> Optional(shape)]
        /\ \A j \in 0..shape.rounds : o[j] = IF j = at[1] THEN OrElse(bodyOut, st.outs[j]) ELSE st.outs[j]
    <3>1. st.outs \in [0..shape.rounds -> Optional(shape)]
      BY AtWalk DEF StateSet
    <3>2. OrElse(bodyOut, st.outs[at[1]]) \in Optional(shape)
      BY <2>4, <3>1, AtWalk, OptionalTypes
    <3> QED
      BY <2>2, <2>4, <3>1, <3>2
  <2>6. st' \in StateSet(shape) /\ st'.outs = o /\ st'.next = at[1] + 1 /\ st'.last = <<c>> /\ st'.broke = FALSE
    BY <1>5, <2>3, <2>4, <2>5, AtWalk DEF StateSet
  <2>7. final' \in Optional(shape)
    BY <2>3, AtWalk, OptionalTypes
  <2>8. STypes' /\ OutcomeInv'
    BY <2>3, <2>6, <2>7 DEF ScopeInv, STypes, SPlaces, OutcomeInv
  <2>9. StartPosition(st', st'.next) = 0
    <3>1. st'.last[1][1] = at[1] /\ at[1] # at[1] + 1
      BY <2>4, <2>6
    <3> QED
      BY <2>6, <3>1 DEF StartPosition
  <2>10. Known => \A j \in 0..shape.rounds : st'.outs[j] = LastOutput(slog', j)
    <3> SUFFICES ASSUME Known, NEW j \in 0..shape.rounds PROVE o[j] = LastOutput(slog, j)
      BY <2>6
    <3> QED
      BY <1>5, <2>5, OutputsAtWalk DEF OrElse
  <2>11. Known /\ shape.kind = "repeat" => final' = LastOf(slog', Scoped(slog'))
    BY <2>3, OutputsAtWalk
  <2>12. shape.body # << >> => NextAt(shape, slog') = <<st'.next, StartPosition(st', st'.next)>>
    BY <2>6, <2>9
  <2>13. PlaceInv' /\ OutputInv' /\ ValueOfLog'
    BY <1>0, <1>3, <1>5, <2>3, <2>6, <2>9, <2>10, <2>11, <2>12, LoopHead
  <2> QED
    BY <1>1, <2>8, <2>13 DEF ScopeInv
<1> QED
  BY <1>4, <1>5

\* A break: the container ends behind the iteration it is in.
LEMMA IterationBreaks ==
  ASSUME ScopeInv, spc \in Walking, IterationBroken(bodyOut),
         UNCHANGED <<srow, at, value, bodyOut, verdict, shape, inputs, crashes>>, gate' \in Gates,
         slog' \in Seq(SEvent), WalkInv', ~ContainerDone(slog'), ~Failed(slog'), HasBroken(slog'), LastEv(slog').at = at,
         \A i : LastOutput(slog', i) = LastOutput(slog, i), LastOf(slog', Scoped(slog')) = LastOf(slog, Scoped(slog))
  PROVE  ScopeInv'
<1>0. Known' <=> Known
  BY DEF Known, Recoverable
<1>1. OutputOfLog'
  BY NothingReported
<1>4. CASE shape.kind = "call"
  <2>1. final' = bodyOut /\ spc' = "synth" /\ st' = st
    BY <1>4 DEF IterationBroken
  <2>2. STypes' /\ OutcomeInv'
    BY <2>1, AtWalk DEF ScopeInv, STypes, SPlaces, OutcomeInv
  <2>4. Known => final' = LastOf(slog', Scoped(slog'))
    <3> SUFFICES ASSUME Known PROVE final' = LastOf(slog', Scoped(slog'))
      OBVIOUS
    <3>1. at[1] = 0 /\ LastOutput(slog, 0) = LastOf(slog, Scoped(slog))
      BY <1>4, AtWalk, CallRound
    <3>2. bodyOut = LastOutput(slog, at[1])
      BY OutputsAtWalk
    <3> QED
      BY <2>1, <3>1, <3>2
  <2>5. PlaceInv' /\ OutputInv' /\ ValueOfLog'
    BY <1>0, <1>4, <2>1, <2>4, CallEnds
  <2> QED
    BY <1>1, <2>2, <2>5 DEF ScopeInv
<1>5. CASE shape.kind # "call"
  <2>1. PICK x : x = IF shape.kind = "map" THEN OrElse(bodyOut, st.outs[at[1]]) ELSE st.outs[at[1]]
    OBVIOUS
  <2>2. PICK o : o = [st.outs EXCEPT ![at[1]] = x]
    OBVIOUS
  <2>3. /\ st' = [st EXCEPT !.broke = TRUE, !.outs = o]
        /\ final' = IF shape.kind = "repeat" THEN OrElse(bodyOut, final) ELSE final
        /\ spc' = "loop"
    BY <1>5, <2>1, <2>2 DEF IterationBroken
  <2>4. at[1] \in 0..shape.rounds /\ st.next \in 0..shape.rounds /\ at[1] \in Int /\ st.next = at[1]
    BY <1>5, AtWalk
  <2>5. o \in [0..shape.rounds -> Optional(shape)] /\ \A j \in 0..shape.rounds : o[j] = IF j = at[1] THEN x ELSE st.outs[j]
    <3>1. st.outs \in [0..shape.rounds -> Optional(shape)]
      BY AtWalk DEF StateSet
    <3>2. x \in Optional(shape)
      BY <2>1, <2>4, <3>1, AtWalk, OptionalTypes
    <3> QED
      BY <2>2, <2>4, <3>1, <3>2
  <2>6. st' \in StateSet(shape) /\ st'.outs = o /\ st'.next = at[1] /\ st'.broke = TRUE
    BY <2>3, <2>4, <2>5, AtWalk DEF StateSet
  <2>7. final' \in Optional(shape)
    BY <2>3, AtWalk, OptionalTypes
  <2>8. STypes' /\ OutcomeInv'
    BY <2>3, <2>6, <2>7 DEF ScopeInv, STypes, SPlaces, OutcomeInv
  <2>10. Known /\ shape.kind = "map" => \A j \in 0..shape.rounds : st'.outs[j] = LastOutput(slog', j)
    <3> SUFFICES ASSUME Known, shape.kind = "map", NEW j \in 0..shape.rounds PROVE o[j] = LastOutput(slog, j)
      BY <2>6
    <3> QED
      BY <1>5, <2>1, <2>5, OutputsAtWalk DEF OrElse
  <2>11. Known /\ shape.kind = "repeat" => final' = LastOf(slog', Scoped(slog'))
    BY <2>3, OutputsAtWalk
  <2>13. PlaceInv' /\ OutputInv' /\ ValueOfLog'
    BY <1>0, <1>5, <2>3, <2>6, <2>10, <2>11, LoopHead
  <2> QED
    BY <1>1, <2>8, <2>13 DEF ScopeInv
<1> QED
  BY <1>4, <1>5

\* The end of the body.
LEMMA BodyEndStep ==
  ASSUME ScopeInv, BodyEnd
  PROVE  ScopeInv'
<1>1. /\ spc = "body" /\ at[2] >= Len(shape.body) /\ IterationCompleted(bodyOut)
      /\ UNCHANGED <<slog, srow, at, value, bodyOut, verdict, gate, shape, inputs, crashes>>
  BY DEF BodyEnd, Same
<1>2. spc \in Walking
  BY <1>1 DEF Walking
<1>3. slog' \in Seq(SEvent) /\ WalkInv' /\ ~ContainerDone(slog') /\ ~Failed(slog') /\ ~HasBroken(slog') /\ gate' \in Gates
  BY <1>1, <1>2, InBody, AtWalk DEF WalkInv, STypes
<1>4. shape.body = << >> \/ NextAt(shape, slog') = <<at[1] + 1, 0>>
  BY <1>1 DEF ScopeInv, PlaceInv
<1> QED
  BY <1>1, <1>2, <1>3, <1>4, IterationOver

\* The completion that is logged is that of the step the log asks for next.
LEMMA CompletesNext ==
  ASSUME ScopeInv, EmitBodyCompleted
  PROVE  \E e \in SEvent :
            /\ slog' = Append(slog, e) /\ e.ev = "step_completed" /\ e.at = at /\ e.at # Top
            /\ at = NextAt(shape, slog) /\ at[2] < Len(shape.body) /\ StepFits(shape, e)
            /\ e.out = (IF Kind = "gate" THEN << >> ELSE <<at>>) /\ e.gate = (IF Kind = "gate" THEN gate ELSE "none")
<1>0. spc = "emit" /\ spc \in Walking
  BY DEF EmitBodyCompleted, Walking
<1>1. /\ at = NextAt(shape, slog) /\ at[2] < Len(shape.body) /\ Kind \in {"cmd", "agent", "chat", "gate"}
  BY <1>0 DEF ScopeInv, PlaceInv, Walking
<1>2. at \in Pair /\ at # Top /\ at \in (0..(shape.rounds - 1)) \X (0..(Len(shape.body) - 1))
  <2>1. at[1] \in 0..(shape.rounds - 1) /\ at[2] \in 0..(Len(shape.body) - 1) /\ at = <<at[1], at[2]>>
    BY <1>0, <1>1, AtWalk
  <2>2. at[1] # -1
    BY <2>1
  <2> QED
    BY <2>1, <2>2 DEF Pair, Top
<1>3. PICK made : made = (IF Kind = "gate" THEN << >> ELSE <<at>>)
  OBVIOUS
<1>4. PICK decided : decided = (IF Kind = "gate" THEN gate ELSE "none")
  OBVIOUS
<1>5. made \in Seq(Pair) /\ decided \in Gates /\ "step_completed" \in SNames
  BY <1>2, <1>3, <1>4 DEF ScopeInv, STypes, Gates, SNames
<1>6. PICK e \in SEvent : e = Entry("step_completed", at, made, decided)
  BY <1>2, <1>5, EventTypes
<1>7. e.ev = "step_completed" /\ e.at = at /\ e.out = made /\ e.gate = decided
  BY <1>6 DEF Entry
<1>8. slog' = Append(slog, e)
  BY <1>3, <1>4, <1>6 DEF EmitBodyCompleted, Append1
<1>9. StepFits(shape, e)
  BY <1>1, <1>2, <1>3, <1>7 DEF StepFits, Kind
<1> QED
  BY <1>1, <1>2, <1>3, <1>4, <1>7, <1>8, <1>9

\* The log behind such a completion.
LEMMA WalkGoesOn ==
  ASSUME NEW w, NEW l \in Seq(SEvent), WalkOf(w, l), ~HasBroken(l), ~Failed(l), ~ContainerDone(l),
         NEW e \in SEvent, e.ev = "step_completed", e.at # Top, e.at = NextAt(w, l), StepFits(w, e), NEW m, m = Grown(l, e)
  PROVE  /\ m \in Seq(SEvent) /\ WalkOf(w, m) /\ ~Failed(m) /\ ~ContainerDone(m) /\ LastEv(m) = e
         /\ HasBroken(m) <=> e.gate = "break"
         /\ NextAt(w, m) = NextAfter(w, e)
         /\ \A i : LastOutput(m, i) = OutputWith(e, i, LastOutput(l, i))
         /\ LastOf(m, Scoped(m)) = OrElse(e.out, LastOf(l, Scoped(l)))
<1>1. /\ m \in Seq(SEvent) /\ Scoped(m) = Scoped(l) \cup {Len(l) + 1} /\ Len(l) + 1 \notin Scoped(l)
      /\ m[Len(l) + 1] = e /\ LastEv(m) = e
      /\ \A k \in Scoped(l) : m[k] = l[k] /\ k < Len(l) + 1
      /\ \A i : LastOutput(m, i) = OutputWith(e, i, LastOutput(l, i))
      /\ LastOf(m, Scoped(m)) = OrElse(e.out, LastOf(l, Scoped(l)))
  BY BodyEvent
<1>2. ~Failed(m) /\ ~ContainerDone(m)
  BY OutcomeGrows DEF Grown
<1>3. PICK n \in Nat : n = Len(l) + 1
  OBVIOUS
<1>4. /\ Scoped(m) = Scoped(l) \cup {n} /\ n \notin Scoped(l) /\ m[n] = e /\ \A k \in Scoped(l) : m[k] = l[k] /\ k < n
  BY <1>1, <1>3
<1>5. WalkOf(w, m)
  BY <1>4, WalkGrows
<1>6. Scoped(m) # {}
  BY <1>4
<1>7. HasBroken(m) <=> e.gate = "break"
  BY <1>1, <1>6 DEF HasBroken
<1>8. NextAt(w, m) = NextAfter(w, e)
  BY <1>1, <1>6 DEF NextAt, NextAfter
<1> QED
  BY <1>1, <1>2, <1>5, <1>7, <1>8

\* The completion of a body step, and what its gate decides.
LEMMA EmitBodyStep ==
  ASSUME ScopeInv, EmitBodyCompleted
  PROVE  ScopeInv'
<1>0. spc = "emit" /\ spc \in Walking
  BY DEF EmitBodyCompleted, Walking
<1>1. PICK e \in SEvent :
            /\ slog' = Append(slog, e) /\ e.ev = "step_completed" /\ e.at = at /\ e.at # Top
            /\ at = NextAt(shape, slog) /\ at[2] < Len(shape.body) /\ StepFits(shape, e)
            /\ e.out = (IF Kind = "gate" THEN << >> ELSE <<at>>) /\ e.gate = (IF Kind = "gate" THEN gate ELSE "none")
  BY CompletesNext
<1>2. /\ UNCHANGED <<srow, value, verdict, shape, inputs, crashes>> /\ gate' = "none" /\ gate' \in Gates
      /\ e.gate = "skip" => IterationCompleted(bodyOut) /\ UNCHANGED <<at, bodyOut>>
      /\ e.gate = "break" => IterationBroken(bodyOut) /\ UNCHANGED <<at, bodyOut>>
      /\ e.gate \notin {"skip", "break"} => /\ bodyOut' = OrElse(e.out, bodyOut) /\ at' = <<at[1], at[2] + 1>>
                                            /\ spc' = "body" /\ UNCHANGED <<st, final>>
  <2>1. PICK made, decided : made = e.out /\ decided = e.gate
    OBVIOUS
  <2>2. CASE decided = "skip"
    BY <1>1, <2>1, <2>2 DEF EmitBodyCompleted, Same, Gates
  <2>3. CASE decided = "break"
    BY <1>1, <2>1, <2>3 DEF EmitBodyCompleted, Same, Gates
  <2>4. CASE decided \notin {"skip", "break"}
    BY <1>1, <2>1, <2>4 DEF EmitBodyCompleted, Same, Gates
  <2> QED
    BY <2>1, <2>2, <2>3, <2>4
<1>3. PICK m : m = slog'
  OBVIOUS
<1>4. /\ m \in Seq(SEvent) /\ WalkOf(shape, m) /\ ~Failed(m) /\ ~ContainerDone(m) /\ LastEv(m) = e
      /\ HasBroken(m) <=> e.gate = "break"
      /\ NextAt(shape, m) = IF Ends(shape, e) THEN <<at[1] + 1, 0>> ELSE <<at[1], at[2] + 1>>
      /\ \A i : LastOutput(m, i) = IF at[1] = i THEN OrElse(e.out, LastOutput(slog, i)) ELSE LastOutput(slog, i)
      /\ LastOf(m, Scoped(m)) = OrElse(e.out, LastOf(slog, Scoped(slog)))
  <2>1. PICK l \in Seq(SEvent) : l = slog
    BY <1>0, AtWalk
  <2>2. PICK w : w = shape
    OBVIOUS
  <2>3. WalkOf(w, l) /\ ~HasBroken(l) /\ ~Failed(l) /\ ~ContainerDone(l) /\ e.at = NextAt(w, l) /\ StepFits(w, e)
    BY <1>0, <1>1, <2>1, <2>2, InBody, AtWalk
  <2>4. m = Grown(l, e) /\ e.ev = "step_completed" /\ e.at # Top
    BY <1>1, <1>3, <2>1 DEF Grown
  <2>5. /\ m \in Seq(SEvent) /\ WalkOf(w, m) /\ ~Failed(m) /\ ~ContainerDone(m) /\ LastEv(m) = e
        /\ HasBroken(m) <=> e.gate = "break"
        /\ NextAt(w, m) = NextAfter(w, e)
        /\ \A i : LastOutput(m, i) = OutputWith(e, i, LastOutput(l, i))
        /\ LastOf(m, Scoped(m)) = OrElse(e.out, LastOf(l, Scoped(l)))
    BY <2>3, <2>4, WalkGoesOn
  <2>6. e.at[1] = at[1] /\ e.at[2] = at[2]
    BY <1>1
  <2> QED
    BY <2>1, <2>2, <2>5, <2>6 DEF OutputWith, NextAfter
<1>5. WalkInv' /\ slog' \in Seq(SEvent)
  BY <1>2, <1>3, <1>4 DEF WalkInv
<1>6. e.gate \in {"skip", "break"} => \A o : OrElse(e.out, o) = o
  <2>1. e.gate \in {"skip", "break"} => e.out = << >>
    BY <1>1
  <2> QED
    BY <2>1 DEF OrElse
<1>7. CASE e.gate = "skip"
  <2>1. Ends(shape, e)
    BY <1>7 DEF Ends
  <2>2. NextAt(shape, m) = <<at[1] + 1, 0>> /\ ~HasBroken(m)
    BY <1>4, <1>7, <2>1
  <2>3. (\A i : LastOutput(m, i) = LastOutput(slog, i)) /\ LastOf(m, Scoped(m)) = LastOf(slog, Scoped(slog))
    BY <1>4, <1>6, <1>7
  <2>4. IterationCompleted(bodyOut) /\ UNCHANGED <<srow, at, value, bodyOut, verdict, shape, inputs, crashes>> /\ gate' \in Gates
    BY <1>2, <1>7
  <2> QED
    BY <1>0, <1>3, <1>4, <1>5, <2>2, <2>3, <2>4, IterationOver
<1>8. CASE e.gate = "break"
  <2>1. HasBroken(m) /\ LastEv(m).at = at
    BY <1>1, <1>4, <1>8
  <2>2. (\A i : LastOutput(m, i) = LastOutput(slog, i)) /\ LastOf(m, Scoped(m)) = LastOf(slog, Scoped(slog))
    BY <1>4, <1>6, <1>8
  <2>3. IterationBroken(bodyOut) /\ UNCHANGED <<srow, at, value, bodyOut, verdict, shape, inputs, crashes>> /\ gate' \in Gates
    BY <1>2, <1>8
  <2> QED
    BY <1>0, <1>3, <1>4, <1>5, <2>1, <2>2, <2>3, IterationBreaks
<1>9. CASE e.gate \notin {"skip", "break"}
  <2>1. /\ bodyOut' = OrElse(e.out, bodyOut) /\ at' = <<at[1], at[2] + 1>> /\ spc' = "body" /\ UNCHANGED <<st, final>>
        /\ at'[1] = at[1] /\ at'[2] = at[2] + 1
    BY <1>2, <1>9
  <2>2. at[1] \in 0..(shape.rounds - 1) /\ at[2] + 1 \in 0..Len(shape.body) /\ at[2] \in Int /\ Len(shape.body) \in Nat
    BY <1>0, <1>1, AtWalk
  <2>3. STypes'
    <3>1. at' \in Cells(shape)
      BY <1>0, <2>1, <2>2, AtWalk, OptionalTypes
    <3>2. bodyOut' \in Optional(shape)
      BY <1>0, <1>1, <2>1, AtWalk, FitsTypes, OptionalTypes
    <3> QED
      BY <1>2, <1>5, <2>1, <3>1, <3>2 DEF ScopeInv, STypes, SPlaces
  <2>4. OutcomeInv' /\ OutputOfLog'
    BY <1>3, <1>4, <2>1, NothingReported DEF OutcomeInv
  <2>5. (Known' <=> Known) /\ (Recoverable' <=> Recoverable)
    BY <1>2 DEF Known, Recoverable
  <2>6. Ends(shape, e) <=> at[2] + 1 >= Len(shape.body)
    BY <1>1, <1>9 DEF Ends
  <2>7. ~HasBroken(m)
    BY <1>4, <1>9
  <2>8. PlaceInv'
    <3>1. at'[2] < Len(shape.body) => at' = NextAt(shape, m)
      BY <1>4, <2>1, <2>2, <2>6
    <3>2. at'[2] >= Len(shape.body) => NextAt(shape, m) = <<at'[1] + 1, 0>>
      BY <1>4, <2>1, <2>2, <2>6
    <3>3. spc' = "body" /\ spc' \notin {"loop", "synth", "exec", "chatCall", "emit"} /\ at'[1] < shape.rounds
      BY <1>0, <2>1, <2>2, AtWalk
    <3>4. shape.kind # "call" => st'.next = at'[1] /\ st'.broke = FALSE
      BY <1>0, <2>1, AtWalk
    <3>5. shape' = shape /\ slog' = m
      BY <1>2, <1>3
    <3> QED
      BY <2>7, <3>1, <3>2, <3>3, <3>4, <3>5 DEF PlaceInv, Walking
  <2>9. ASSUME Known
        PROVE  /\ bodyOut' = LastOutput(m, at[1])
               /\ shape.kind # "call" => /\ \A i \in 0..shape.rounds : i # at[1] => st'.outs[i] = LastOutput(m, i)
                                         /\ st'.outs[at[1]] # << >> => LastOutput(m, at[1]) # << >>
               /\ shape.kind = "repeat" => OrElse(bodyOut', final') = LastOf(m, Scoped(m))
    <3>1. /\ bodyOut = LastOutput(slog, at[1])
          /\ shape.kind # "call" => /\ \A i \in 0..shape.rounds : i # at[1] => st.outs[i] = LastOutput(slog, i)
                                    /\ st.outs[at[1]] # << >> => LastOutput(slog, at[1]) # << >>
          /\ shape.kind = "repeat" => OrElse(bodyOut, final) = LastOf(slog, Scoped(slog))
      BY <1>0, <2>9, OutputsAtWalk
    <3>2. bodyOut' = LastOutput(m, at[1])
      BY <1>4, <2>1, <3>1
    <3>3. \A a, b : OrElse(a, b) = << >> => b = << >>
      BY DEF OrElse
    <3>4. \A a, b, c : OrElse(OrElse(a, b), c) = OrElse(a, OrElse(b, c))
      BY DEF OrElse
    <3>5. shape.kind = "repeat" => OrElse(bodyOut', final') = LastOf(m, Scoped(m))
      BY <1>4, <2>1, <3>1, <3>4
    <3>6. shape.kind # "call" => /\ \A i \in 0..shape.rounds : i # at[1] => st'.outs[i] = LastOutput(m, i)
                                 /\ st'.outs[at[1]] # << >> => LastOutput(m, at[1]) # << >>
      BY <1>4, <2>1, <3>1, <3>3
    <3> QED
      BY <3>2, <3>5, <3>6
  <2>10. OutputInv'
    <3>1. spc' = "body" /\ spc' \notin {"loop", "synth", "idle", "enter", "dead"} /\ slog' = m /\ shape' = shape
      BY <1>2, <1>3, <2>1
    <3> QED
      BY <2>1, <2>5, <2>9, <3>1 DEF OutputInv
  <2>11. ValueOfLog'
    <3>1. at[1] > 0 => LastOutput(m, at[1] - 1) = LastOutput(slog, at[1] - 1)
      <4>1. at[1] # at[1] - 1
        BY <2>2
      <4> QED
        BY <1>4, <4>1
    <3>2. shape.kind = "repeat" /\ at[1] > 0 /\ Known => value = LastOutput(slog, at[1] - 1)
      BY <1>0 DEF ScopeInv, ValueOfLog, Known
    <3>3. slog' = m /\ shape' = shape /\ value' = value
      BY <1>2, <1>3
    <3> QED
      BY <2>1, <2>5, <3>1, <3>2, <3>3 DEF ValueOfLog, Known
  <2> QED
    BY <1>5, <2>3, <2>4, <2>8, <2>10, <2>11 DEF ScopeInv
<1> QED
  BY <1>7, <1>8, <1>9

\* What is joined from optional outputs.
LEMMA SlotTypes ==
  ASSUME shape \in Shapes, NEW o \in Optional(shape)
  PROVE  OrElse(o, <<Top>>)[1] \in Pair /\ o \in Seq(Pair)
<1>1. shape.rounds \in Nat /\ Len(shape.body) \in Nat
  BY ShapeTypes
<1>2. Cells(shape) \subseteq Pair /\ Top \in Pair
  <2>1. Top \in Pair
    BY DEF Top, Pair
  <2>2. ASSUME NEW c \in Cells(shape) PROVE c \in Pair
    BY <1>1 DEF Cells, Pair
  <2> QED
    BY <2>1, <2>2
<1>3. o \in Seq(Cells(shape))
  BY DEF Optional
<1>4. o \in Seq(Pair)
  BY <1>2, <1>3
<1>5. o # << >> => o[1] \in Pair
  BY <1>4
<1> QED
  BY <1>2, <1>4, <1>5 DEF OrElse

\* How many slots the array of a map has for a log.
ItemsOf(w, l) ==
    IF HasBroken(l) THEN LastEv(l).at[1] + (IF LastOutput(l, LastEv(l).at[1]) = << >> THEN 0 ELSE 1) ELSE w.rounds

\* What a reader of the log expects, in terms of its last completed step.
LEMMA OutputIs ==
  ASSUME shape \in Shapes, NEW l \in Seq(SEvent), WalkOf(shape, l)
  PROVE  OutputOf(l) = IF shape.kind = "map" THEN [k \in 1..ItemsOf(shape, l) |-> OrElse(LastOutput(l, k - 1), <<Top>>)[1]]
                       ELSE LastOf(l, Scoped(l))
<1>1. PICK broken : broken = {i \in Iterations(l) : "break" \in GatesOf(l, i)}
  OBVIOUS
<1>2. broken = IF HasBroken(l) THEN {LastEv(l).at[1]} ELSE {}
  BY <1>1, BrokenRounds
<1>3. PICK items : items = IF broken # {} THEN Least(broken) + (IF LastOutput(l, Least(broken)) = << >> THEN 0 ELSE 1)
                           ELSE shape.rounds
  OBVIOUS
<1>4. OutputOf(l) = IF shape.kind = "map" THEN [k \in 1..items |-> OrElse(LastOutput(l, k - 1), <<Top>>)[1]]
                    ELSE LastOf(l, Scoped(l))
  BY <1>1, <1>3 DEF OutputOf
<1>5. items = ItemsOf(shape, l)
  <2>1. CASE HasBroken(l)
    <3>1. PICK b \in Int : b = LastEv(l).at[1]
      BY <2>1, LastTypes DEF HasBroken
    <3>2. Least({b}) = b
      BY <3>1 DEF Least
    <3> QED
      BY <1>2, <1>3, <2>1, <3>1, <3>2 DEF ItemsOf
  <2>2. CASE ~HasBroken(l)
    BY <1>2, <1>3, <2>2 DEF ItemsOf
  <2> QED
    BY <2>1, <2>2
<1> QED
  BY <1>4, <1>5

\* The array run_map builds has a slot for every item up to the end, or up to the break.
LEMMA MapIs ==
  ASSUME ScopeInv, spc = "synth", shape.kind = "map", Known
  PROVE  MapArray = [k \in 1..ItemsOf(shape, slog) |-> OrElse(LastOutput(slog, k - 1), <<Top>>)[1]]
<1>1. /\ shape \in Shapes /\ slog \in Seq(SEvent) /\ WalkOf(shape, slog) /\ shape.rounds \in Nat
      /\ \A i \in 0..shape.rounds : st.outs[i] = LastOutput(slog, i)
      /\ st.next = IF HasBroken(slog) THEN LastEv(slog).at[1] ELSE shape.rounds
  BY ShapeTypes DEF ScopeInv, STypes, WalkInv, OutputInv, PlaceInv
<1>2. PICK reached : reached = {i \in 0..(shape.rounds - 1) : st.outs[i] # << >> \/ i < st.next}
  OBVIOUS
<1>3. PICK n : n = ItemsOf(shape, slog)
  OBVIOUS
<1>4. n \in (0..shape.rounds) \ reached /\ \A y \in (0..shape.rounds) \ reached : n <= y
  <2>1. CASE ~HasBroken(slog)
    <3>1. n = shape.rounds /\ st.next = shape.rounds
      BY <1>1, <1>3, <2>1 DEF ItemsOf
    <3>2. \A i \in 0..shape.rounds : i \in reached <=> i < shape.rounds
      BY <1>1, <1>2, <3>1
    <3> QED
      BY <1>1, <3>1, <3>2
  <2>2. CASE HasBroken(slog)
    <3>1. PICK b \in 0..(shape.rounds - 1) : b = LastEv(slog).at[1]
      <4>1. StepFits(shape, LastEv(slog))
        BY <1>1, <2>2, LastTypes DEF HasBroken, WalkOf, WalkFits
      <4> QED
        BY <1>1, <4>1, FitsTypes
    <3>2. st.next = b /\ n = b + (IF LastOutput(slog, b) = << >> THEN 0 ELSE 1)
      BY <1>1, <1>3, <2>2, <3>1 DEF ItemsOf
    <3>3. \A k \in Scoped(slog) : slog[k].at[1] \in Int /\ slog[k].at[1] <= b
      BY <1>1, <3>1, ScopedTypes, LastIsLast
    <3>4. ASSUME NEW i \in Int, i > b PROVE LastOutput(slog, i) = << >>
      <4>1. \A k \in Scoped(slog) : slog[k].at[1] # i
        BY <1>1, <3>1, <3>3, <3>4
      <4> QED
        BY <1>1, <4>1, FreshRound
    <3>5. \A i \in 0..(shape.rounds - 1) : i \in reached <=> LastOutput(slog, i) # << >> \/ i < b
      BY <1>1, <1>2, <3>2
    <3>6. CASE LastOutput(slog, b) = << >>
      <4>1. n = b
        BY <1>1, <3>2, <3>6
      <4>2. \A i \in 0..(shape.rounds - 1) : i \in reached <=> i < b
        BY <1>1, <3>1, <3>4, <3>5, <3>6
      <4>3. shape.rounds \notin reached
        BY <1>1, <1>2
      <4> QED
        BY <1>1, <3>1, <4>1, <4>2, <4>3
    <3>7. CASE LastOutput(slog, b) # << >>
      <4>1. n = b + 1
        BY <1>1, <3>2, <3>7
      <4>2. \A i \in 0..(shape.rounds - 1) : i \in reached <=> i < b + 1
        BY <1>1, <3>1, <3>4, <3>5, <3>7
      <4>3. shape.rounds \notin reached
        BY <1>1, <1>2
      <4> QED
        BY <1>1, <3>1, <4>1, <4>2, <4>3
    <3> QED
      BY <3>6, <3>7
  <2> QED
    BY <2>1, <2>2
<1>5. Least((0..shape.rounds) \ reached) = n
  <2>1. PICK S : S = (0..shape.rounds) \ reached
    OBVIOUS
  <2>2. S \subseteq Int /\ n \in S /\ \A y \in S : n <= y
    BY <1>4, <2>1
  <2> QED
    BY <2>1, <2>2, LeastWhen
<1>6. MapArray = [k \in 1..n |-> OrElse(st.outs[k - 1], <<Top>>)[1]]
  BY <1>2, <1>5 DEF MapArray
<1>7. \A k \in 1..n : st.outs[k - 1] = LastOutput(slog, k - 1)
  <2>1. \A k \in 1..n : k - 1 \in 0..shape.rounds
    BY <1>1, <1>4
  <2> QED
    BY <1>1, <2>1
<1> QED
  BY <1>3, <1>6, <1>7

\* The output of a container is a sequence of coordinates, whatever the process knows of it.
LEMMA ReportTypes ==
  ASSUME ScopeInv
  PROVE  Synthesised \in Seq(Pair) /\ Overridden \in Seq(Pair)
<1>1. /\ shape \in Shapes /\ slog \in Seq(SEvent) /\ WalkOf(shape, slog) /\ shape.rounds \in Nat /\ Len(shape.body) \in Nat
      /\ st.outs \in [0..shape.rounds -> Optional(shape)] /\ final \in Optional(shape)
  BY ShapeTypes DEF ScopeInv, STypes, WalkInv, StateSet
<1>2. MapArray \in Seq(Pair)
  <2>1. PICK reached : reached = {i \in 0..(shape.rounds - 1) : st.outs[i] # << >> \/ i < st.next}
    OBVIOUS
  <2>2. PICK S : S = (0..shape.rounds) \ reached
    OBVIOUS
  <2>3. S \subseteq Nat /\ shape.rounds \in S
    BY <1>1, <2>1, <2>2
  <2>4. PICK n \in 0..shape.rounds : n = Least(S)
    BY <2>2, <2>3, LeastIs
  <2>5. MapArray = [k \in 1..n |-> OrElse(st.outs[k - 1], <<Top>>)[1]]
    BY <2>1, <2>2, <2>4 DEF MapArray
  <2>6. \A k \in 1..n : OrElse(st.outs[k - 1], <<Top>>)[1] \in Pair
    <3>1. \A k \in 1..n : st.outs[k - 1] \in Optional(shape)
      BY <1>1
    <3> QED
      BY <1>1, <3>1, SlotTypes
  <2>7. n \in Nat
    BY <1>1
  <2> QED
    BY <2>5, <2>6, <2>7
<1>3. final \in Seq(Pair)
  BY <1>1, SlotTypes
<1>4. Overridden \in Seq(Pair)
  <2>1. \A c : OrElse(LoggedOutput(slog, c), <<Top>>)[1] \in Pair
    BY <1>1, LoggedTypes, SlotTypes
  <2>2. PICK i : i = LastIteration
    OBVIOUS
  <2>3. Overridden = [p \in 1..Len(shape.body) |-> OrElse(LoggedOutput(slog, <<i, p - 1>>), <<Top>>)[1]]
    BY <2>2 DEF Overridden, InIteration
  <2> QED
    BY <1>1, <2>1, <2>3
<1> QED
  BY <1>2, <1>3, <1>4 DEF Synthesised

\* What a finished walk reports is what a reader of the log expects.
LEMMA ReportIs ==
  ASSUME ScopeInv, spc = "synth", Known
  PROVE  Synthesised = OutputOf(slog)
<1>1. shape \in Shapes /\ slog \in Seq(SEvent) /\ WalkOf(shape, slog) /\ shape.kind \in {"call", "repeat", "map"}
  BY ShapeTypes DEF ScopeInv, STypes, WalkInv
<1>2. CASE shape.kind = "map"
  BY <1>1, <1>2, MapIs, OutputIs DEF Synthesised
<1>3. CASE shape.kind = "call"
  <2>1. final = LastOf(slog, Scoped(slog))
    BY <1>3 DEF ScopeInv, OutputInv
  <2> QED
    BY <1>1, <1>3, <2>1, OutputIs DEF Synthesised
<1>4. CASE shape.kind = "repeat"
  <2>1. HasBroken(slog) \/ NextAt(shape, slog)[2] = 0
    <3>1. shape.body = << >> \/ HasBroken(slog) \/ NextAt(shape, slog)[1] >= shape.rounds
      BY DEF ScopeInv, PlaceInv
    <3>2. shape.body = << >> => NextAt(shape, slog) = <<0, 0>>
      BY <1>1, EmptyBody
    <3>3. NextAt(shape, slog)[1] >= shape.rounds => NextAt(shape, slog)[2] = 0
      BY <1>1, NextTypes, ShapeTypes
    <3> QED
      BY <3>1, <3>2, <3>3
  <2>2. final = LastOf(slog, Scoped(slog))
    BY <1>4, <2>1 DEF ScopeInv, OutputInv
  <2> QED
    BY <1>1, <1>4, <2>2, OutputIs DEF Synthesised
<1> QED
  BY <1>1, <1>2, <1>3, <1>4

\* The container's own completion.
LEMMA EmitContainerStep ==
  ASSUME ScopeInv, EmitContainerCompleted
  PROVE  ScopeInv'
<1>1. /\ spc = "synth" /\ spc' = "returned"
      /\ UNCHANGED <<srow, st, at, value, bodyOut, final, verdict, gate, shape, inputs, crashes>>
  BY DEF EmitContainerCompleted, locals, Same
<1>2. PICK made \in Seq(Pair) :
         /\ slog' = Append(slog, Entry("step_completed", Top, made, "none"))
         /\ made = Synthesised \/ (shape.override /\ shape.kind # "map")
  BY ReportTypes DEF EmitContainerCompleted, Append1
<1>3. PICK e \in SEvent : e = Entry("step_completed", Top, made, "none")
  <2>1. "step_completed" \in SNames /\ Top \in Pair /\ "none" \in Gates
    BY DEF SNames, Top, Pair, Gates
  <2> QED
    BY <2>1, EventTypes
<1>4. e.ev = "step_completed" /\ e.at = Top /\ e.out = made
  BY <1>3 DEF Entry
<1>5. /\ shape \in Shapes /\ slog \in Seq(SEvent) /\ WalkOf(shape, slog) /\ ~Failed(slog) /\ ~ContainerDone(slog)
  BY <1>1 DEF ScopeInv, STypes, WalkInv, OutcomeInv, Undecided
<1>6. PICK m : m = slog'
  OBVIOUS
<1>7. /\ m \in Seq(SEvent) /\ WalkOf(shape, m) /\ ~Failed(m) /\ CompletedWith(m) = {made}
      /\ HasBroken(m) <=> HasBroken(slog)
      /\ HasBroken(slog) => LastEv(m) = LastEv(slog)
      /\ \A i : LastOutput(m, i) = LastOutput(slog, i)
      /\ LastOf(m, Scoped(m)) = LastOf(slog, Scoped(slog))
  <2>1. PICK l \in Seq(SEvent) : l = slog
    BY <1>5
  <2>2. PICK w : w = shape
    OBVIOUS
  <2>3. m = Grown(l, e) /\ ~(e.ev = "step_completed" /\ e.at # Top)
    BY <1>2, <1>3, <1>4, <1>6, <2>1 DEF Grown
  <2>4. /\ m \in Seq(SEvent) /\ Scoped(m) = Scoped(l) /\ (Scoped(l) # {} => LastEv(m) = LastEv(l))
        /\ (HasBroken(m) <=> HasBroken(l)) /\ (WalkOf(w, l) => WalkOf(w, m))
        /\ (\A i : LastOutput(m, i) = LastOutput(l, i)) /\ LastOf(m, Scoped(m)) = LastOf(l, Scoped(l))
    BY <2>3, QuietEvent
  <2>5. ~Failed(l) /\ ~ContainerDone(l) /\ WalkOf(w, l)
    BY <1>5, <2>1, <2>2
  <2>6. ~Failed(m) /\ CompletedWith(m) = {e.out}
    BY <1>4, <2>3, <2>5, OutcomeGrows DEF Grown
  <2>7. HasBroken(l) => Scoped(l) # {}
    BY DEF HasBroken
  <2> QED
    BY <1>4, <2>1, <2>2, <2>4, <2>5, <2>6, <2>7
<1>8. STypes'
  BY <1>1, <1>6, <1>7 DEF ScopeInv, STypes, SPlaces
<1>9. WalkInv' /\ OutcomeInv'
  BY <1>1, <1>6, <1>7 DEF WalkInv, OutcomeInv, Undecided
<1>10. PlaceInv' /\ OutputInv' /\ ValueOfLog'
  BY <1>1, OffTheWalk DEF Walking
<1>11. OutputOf(m) = OutputOf(slog)
  <2>1. ItemsOf(shape, m) = ItemsOf(shape, slog)
    BY <1>7 DEF ItemsOf
  <2> QED
    BY <1>5, <1>7, <2>1, OutputIs
<1>12. OutputOfLog'
  <2>1. OutputOf(slog)' = OutputOf(m)
    BY <1>1, <1>6 DEF OutputOf, Iterations, GatesOf
  <2>2. (crashes' = 0 \/ Recoverable') <=> Known
    BY <1>1 DEF Known, Recoverable
  <2>3. Known /\ made = Synthesised => made = OutputOf(m)
    BY <1>1, <1>11, ReportIs
  <2>4. CompletedWith(slog') = {made} /\ shape' = shape
    BY <1>1, <1>6, <1>7
  <2> QED
    BY <1>2, <2>1, <2>2, <2>3, <2>4 DEF OutputOfLog
<1> QED
  BY <1>8, <1>9, <1>10, <1>12 DEF ScopeInv

\* The invariant holds before the container starts.
LEMMA ScopeStarts ==
  ASSUME ScopeInit
  PROVE  ScopeInv
<1>1. shape \in Shapes /\ slog = << >> /\ slog \in Seq(SEvent) /\ spc = "idle" /\ crashes = 0
  BY DEF ScopeInit
<1>2. Scoped(slog) = {} /\ ~Failed(slog) /\ ~ContainerDone(slog)
  BY <1>1 DEF Scoped, Failed, ContainerDone
<1>3. STypes
  <2>1. << >> \in Optional(shape) /\ <<0, 0>> \in Cells(shape) /\ 0 \in 0..shape.rounds
    BY <1>1, OptionalTypes, ShapeTypes
  <2>2. Fresh.st \in StateSet(shape) /\ Fresh.at \in Cells(shape)
    BY <2>1 DEF Fresh, StateSet
  <2>3. crashes \in 0..MaxCrashes
    BY <1>1, ScopeAssumption
  <2> QED
    BY <1>1, <2>1, <2>2, <2>3 DEF ScopeInit, STypes, SPlaces, Gates
<1>4. WalkInv
  BY <1>2 DEF WalkInv, WalkOf, WalkFits, WalkOrder, WalkSteps, WalkRounds
<1>5. OutcomeInv
  BY <1>1, <1>2 DEF OutcomeInv
<1>6. spc \notin Walking /\ spc \notin {"loop", "synth", "dead", "body", "exec", "chatCall", "emit"}
  BY <1>1 DEF Walking
<1>7. PlaceInv
  BY <1>6 DEF PlaceInv
<1>8. OutputInv
  BY <1>2, <1>6 DEF OutputInv
<1>9. ValueOfLog
  BY <1>6 DEF ValueOfLog
<1>10. OutputOfLog
  BY <1>2 DEF OutputOfLog, CompletedWith, ContainerDone
<1> QED
  BY <1>3, <1>4, <1>5, <1>7, <1>8, <1>9, <1>10 DEF ScopeInv

\* Every step of the runner, the crash and the launch keep it.
LEMMA ScopeSteps ==
  ASSUME ScopeInv, [ScopeNext]_scopeVars
  PROVE  ScopeInv'
<1>1. CASE \/ StepDecided \/ StepCancelled \/ BodyCancelled \/ FinaliseBody \/ FinaliseContainer \/ ExecOther
           \/ SCrash \/ SLaunch \/ (\E input \in {"cancel", "shutdown"} : Raise(input)) \/ UNCHANGED scopeVars
  BY <1>1, ApartSteps
<1>2. CASE StepContainer \/ BodyNested \/ EmitCause \/ EmitBodyFailed \/ EmitContainerFailed
  BY <1>2, ApartAppends
<1>3. CASE BodyStart \/ ExecCmd \/ ExecAgent \/ ExecChat \/ ChatCall \/ ExecGate
  BY <1>3, ExecSteps
<1>4. CASE EnterCall
  BY <1>4, EnterCallStep
<1>5. CASE EnterRepeat \/ EnterMap
  BY <1>5, EnterLoopSteps
<1>6. CASE LoopRepeat \/ LoopMap
  BY <1>6, LoopSteps
<1>7. CASE BodyEnd
  BY <1>7, BodyEndStep
<1>8. CASE EmitBodyCompleted
  BY <1>8, EmitBodyStep
<1>9. CASE EmitContainerCompleted
  BY <1>9, EmitContainerStep
<1> QED
  BY <1>1, <1>2, <1>3, <1>4, <1>5, <1>6, <1>7, <1>8, <1>9 DEF ScopeNext, Runner, ScopeDone

\* What the invariant says to a reader of the log.
LEMMA InvIsSafe ==
  ASSUME ScopeInv
  PROVE  ScopeSafe
<1>1. ScopeTypeOK
  <2>1. STypes /\ shape \in Shapes
    BY DEF ScopeInv, STypes
  <2>2. Coordinates = Cells(shape)
    BY DEF Coordinates, Cells
  <2>3. st.next \in 0..shape.rounds
    BY <2>1 DEF STypes, StateSet
  <2>4. \A o \in Optional(shape) : Len(o) <= 1 /\ \A k \in DOMAIN o : o[k] \in Cells(shape)
    BY DEF Optional
  <2> QED
    BY <2>1, <2>2, <2>3, <2>4 DEF STypes, ScopeTypeOK, Gates
<1>2. PriorPositionsLogged
  <2> SUFFICES ASSUME spc \in {"exec", "chatCall", "emit"} PROVE Positions(slog, at[1]) = 0..(at[2] - 1)
    BY DEF PriorPositionsLogged
  <2>1. spc \in Walking /\ spc # "body"
    BY DEF Walking
  <2>2. at = NextAt(shape, slog) /\ at = <<at[1], at[2]>>
    BY <2>1, AtWalk DEF ScopeInv, PlaceInv
  <2>3. PICK i, p : i = at[1] /\ p = at[2]
    OBVIOUS
  <2>4. NextAt(shape, slog) = <<i, p>>
    BY <2>2, <2>3
  <2>5. Positions(slog, i) = 0..(p - 1)
    BY <2>1, <2>4, AtWalk, PriorPositions
  <2> QED
    BY <2>3, <2>5
<1> QED
  BY <1>1, <1>2 DEF ScopeInv, ScopeSafe

\* A container that is resumed, however often its process dies, goes on where its log says: every body
\* step finds the positions before it on record, scope.value is the last output of the iteration before,
\* and the container reports the outputs of the log (ContainerReplayState::rebuild with run_call,
\* run_repeat and run_map), for every container, body and number of crashes.
THEOREM ScopeIsSafe == ScopeSpec => []ScopeSafe
<1>1. ScopeInit => ScopeInv
  BY ScopeStarts
<1>2. ScopeInv /\ [ScopeNext]_scopeVars => ScopeInv'
  BY ScopeSteps
<1>3. ScopeInv => ScopeSafe
  BY InvIsSafe
<1> QED
  BY <1>1, <1>2, <1>3, PTL DEF ScopeSpec

-----------------------------------------------------------------------------
(* The scope runner implements ScopeRun. *)

\* What one step does to the log.
LEMMA LogStep ==
  ASSUME ScopeInv, [ScopeNext]_scopeVars
  PROVE  /\ shape' = shape
         /\ \/ slog' = slog \/ EmitBodyCompleted \/ EmitContainerCompleted
            \/ spc # "returned" /\ \E e \in SEvent : e.ev # "step_completed" /\ slog' = Append(slog, e)
<1>0. \A name \in SNames : Plain(name) \in SEvent /\ Plain(name).ev = name
  BY EventTypes, PlainIs
<1>1. CASE \/ StepDecided \/ StepCancelled \/ BodyCancelled \/ FinaliseBody \/ FinaliseContainer \/ ExecOther
           \/ SCrash \/ SLaunch \/ (\E input \in {"cancel", "shutdown"} : Raise(input)) \/ UNCHANGED scopeVars
  BY <1>1 DEF StepDecided, StepCancelled, BodyCancelled, FinaliseBody, FinaliseContainer, ExecOther, SCrash,
     SLaunch, Raise,
     scopeVars, Same
<1>2. CASE StepContainer \/ BodyNested \/ EmitBodyFailed \/ EmitContainerFailed
  BY <1>0, <1>2 DEF StepContainer, BodyNested, EmitBodyFailed, EmitContainerFailed, Append1, Same, SNames
<1>3. CASE EmitCause
  <2>1. verdict \in {"signal", "timeout", "idle"}
    BY <1>3 DEF EmitCause, ScopeInv, OutcomeInv
  <2>2. PICK name \in SNames \ {"step_completed"} : name = CauseOf[verdict]
    BY <2>1 DEF SNames, CauseOf
  <2> QED
    BY <1>0, <1>3, <2>2 DEF EmitCause, Append1, Same
<1>4. CASE BodyStart
  <2>1. at \in Pair
    <3>1. at[1] \in Int /\ at[2] \in Int /\ at = <<at[1], at[2]>>
      BY DEF ScopeInv, STypes, Cells
    <3> QED
      BY <3>1 DEF Pair
  <2>2. "step_started" \in SNames /\ << >> \in Seq(Pair) /\ "none" \in Gates
    BY DEF SNames, Gates
  <2>3. Entry("step_started", at, << >>, "none") \in SEvent
    BY <2>1, <2>2, EventTypes
  <2>4. Entry("step_started", at, << >>, "none").ev = "step_started"
    BY DEF Entry
  <2> QED
    BY <1>4, <2>3, <2>4 DEF BodyStart, Append1, Same
<1>5. CASE ExecCmd \/ ExecAgent \/ ExecGate
  BY <1>5 DEF ExecCmd, ExecAgent, ExecGate, Same
<1>6. CASE ExecChat \/ ChatCall
  BY <1>0, <1>6 DEF ExecChat, ChatCall, Append1, Same, SNames
<1>7. CASE EnterCall \/ EnterRepeat \/ EnterMap \/ LoopRepeat \/ LoopMap \/ BodyEnd
  BY <1>7 DEF EnterCall, EnterRepeat, EnterMap, LoopRepeat, LoopMap, BodyEnd, Same
<1>8. CASE EmitBodyCompleted \/ EmitContainerCompleted
  BY <1>8 DEF EmitBodyCompleted, EmitContainerCompleted, Same
<1> QED
  BY <1>1, <1>2, <1>3, <1>4, <1>5, <1>6, <1>7, <1>8 DEF ScopeNext, Runner, ScopeDone

\* The abstract container's next step, and its end, are read from the log.
LEMMA PromiseIs ==
  ASSUME shape \in Shapes, slog \in Seq(SEvent), WalkInv
  PROVE  /\ Promise!Successor = NextAt(shape, slog)
         /\ Promise!Broken <=> HasBroken(slog)
<1>1. PICK d : d = [k \in Scoped(slog) |-> [at |-> slog[k].at, gate |-> slog[k].gate]]
  OBVIOUS
<1>2. DOMAIN d = Scoped(slog) /\ \A k \in Scoped(slog) : d[k].at = slog[k].at /\ d[k].gate = slog[k].gate
  BY <1>1
<1>3. CASE Scoped(slog) = {}
  BY <1>1, <1>2, <1>3 DEF Promise!Successor, Promise!Broken, NextAt, HasBroken
<1>4. CASE Scoped(slog) # {}
  <2>1. PICK g \in Scoped(slog) : g = Greatest(Scoped(slog)) /\ slog[g] = LastEv(slog)
    BY <1>4, LastTypes
  <2>2. Promise!Last(d) = d[g]
    BY <1>2, <2>1 DEF Promise!Last, Greatest
  <2>3. d[g].at = LastEv(slog).at /\ d[g].gate = LastEv(slog).gate
    BY <1>2, <2>1
  <2>4. Promise!EndsIteration(d[g]) <=> Ends(shape, LastEv(slog))
    BY <2>3 DEF Promise!EndsIteration, Ends
  <2>5. Promise!Successor = NextAt(shape, slog)
    BY <1>1, <1>2, <1>4, <2>2, <2>3, <2>4 DEF Promise!Successor, NextAt
  <2>6. Promise!Broken <=> HasBroken(slog)
    BY <1>1, <1>2, <1>4, <2>2, <2>3 DEF Promise!Broken, HasBroken
  <2> QED
    BY <2>5, <2>6
<1> QED
  BY <1>3, <1>4

\* What the abstract container sees of a log: its completed body steps and its outcome.
DoneIn(l) == [k \in Scoped(l) |-> [at |-> l[k].at, gate |-> l[k].gate]]
OutcomeIn(l) == IF Failed(l) THEN "failed" ELSE IF ContainerDone(l) THEN "completed" ELSE "open"

\* An event that completes no body step leaves the completed ones alone.
LEMMA SameDone ==
  ASSUME NEW l, NEW m, Scoped(m) = Scoped(l), \A k \in Scoped(l) : m[k] = l[k]
  PROVE  DoneIn(m) = DoneIn(l)
BY DEF DoneIn

\* Every step of the runner is a step of the abstract container, or none.
LEMMA RunSteps ==
  ASSUME ScopeInv, [ScopeNext]_scopeVars
  PROVE  [Promise!RunNext]_<<shape, DoneIn(slog), OutcomeIn(slog)>>
<1>0. /\ shape \in Shapes /\ slog \in Seq(SEvent) /\ WalkInv /\ WalkOf(shape, slog) /\ shape.rounds \in Nat /\ shape' = shape
      /\ Len(shape.body) \in Nat /\ (shape.body = << >> <=> Len(shape.body) = 0)
  BY LogStep, ShapeTypes DEF ScopeInv, STypes, WalkInv
<1>1. CASE slog' = slog
  <2>1. DoneIn(slog)' = DoneIn(slog) /\ OutcomeIn(slog)' = OutcomeIn(slog)
    BY <1>1 DEF DoneIn, OutcomeIn
  <2> QED
    BY <1>0, <2>1
<1>2. ASSUME spc # "returned", NEW e \in SEvent, e.ev # "step_completed", slog' = Append(slog, e)
      PROVE  [Promise!RunNext]_<<shape, DoneIn(slog), OutcomeIn(slog)>>
  <2>1. /\ ~ContainerDone(slog') /\ (Failed(slog') <=> Failed(slog) \/ e.ev = "step_failed")
        /\ Scoped(slog') = Scoped(slog) /\ \A k \in Scoped(slog) : slog'[k] = slog[k]
    BY <1>0, <1>2, LogsPlain
  <2>2. ~ContainerDone(slog)
    BY <1>2 DEF ScopeInv, OutcomeInv
  <2>3. DoneIn(slog') = DoneIn(slog)
    BY <2>1, SameDone
  <2>4. \/ OutcomeIn(slog') = OutcomeIn(slog)
        \/ OutcomeIn(slog) = "open" /\ OutcomeIn(slog') = "failed"
    BY <2>1, <2>2 DEF OutcomeIn
  <2>5. CASE OutcomeIn(slog) = "open" /\ OutcomeIn(slog') = "failed"
    <3>1. Promise!FailContainer
      BY <1>0, <2>3, <2>5 DEF Promise!FailContainer, DoneIn, OutcomeIn
    <3> QED
      BY <3>1 DEF Promise!RunNext
  <2> QED
    BY <1>0, <2>3, <2>4, <2>5
<1>3. CASE EmitBodyCompleted
  <2>0. spc = "emit" /\ spc \in Walking
    BY <1>3 DEF EmitBodyCompleted, Walking
  <2>1. PICK e \in SEvent :
            /\ slog' = Append(slog, e) /\ e.ev = "step_completed" /\ e.at = at /\ e.at # Top
            /\ at = NextAt(shape, slog) /\ at[2] < Len(shape.body) /\ StepFits(shape, e)
    BY <1>3, CompletesNext
  <2>2. PICK m : m = slog'
    OBVIOUS
  <2>3. /\ Scoped(m) = Scoped(slog) \cup {Len(slog) + 1} /\ m[Len(slog) + 1] = e
        /\ \A k \in Scoped(slog) : m[k] = slog[k] /\ k < Len(slog) + 1
    <3>1. PICK l \in Seq(SEvent) : l = slog
      BY <1>0
    <3>2. m = Grown(l, e)
      BY <2>1, <2>2, <3>1 DEF Grown
    <3>3. /\ Scoped(m) = Scoped(l) \cup {Len(l) + 1} /\ m[Len(l) + 1] = e
          /\ \A k \in Scoped(l) : m[k] = l[k] /\ k < Len(l) + 1
      BY <2>1, <3>2, BodyEvent
    <3> QED
      BY <3>1, <3>3
  <2>4. ~Failed(slog) /\ ~ContainerDone(slog) /\ ~Failed(m) /\ ~ContainerDone(m)
    <3>1. ~Failed(slog) /\ ~ContainerDone(slog)
      BY <2>0, InBody
    <3> QED
      BY <1>0, <2>1, <2>2, <3>1, OutcomeGrows
  <2>5. PICK n : n = Len(slog) + 1
    OBVIOUS
  <2>6. DoneIn(m) = [j \in DOMAIN DoneIn(slog) \cup {n} |->
                        IF j = n THEN [at |-> NextAt(shape, slog), gate |-> e.gate] ELSE DoneIn(slog)[j]]
        /\ n \in DOMAIN DoneIn(m) /\ \A j \in DOMAIN DoneIn(slog) : j < n
    BY <2>1, <2>3, <2>5 DEF DoneIn
  <2>7. OutcomeIn(slog) = "open" /\ OutcomeIn(m) = "open"
    BY <2>4 DEF OutcomeIn
  <2>8. ~Promise!Exhausted
    <3>1. shape.body # << >> /\ shape.rounds # 0 /\ NextAt(shape, slog)[1] < shape.rounds /\ ~HasBroken(slog)
      BY <1>0, <2>0, <2>1, AtWalk
    <3>2. NextAt(shape, slog)[1] \in Int
      BY <1>0, NextTypes
    <3> QED
      BY <1>0, <3>1, <3>2, PromiseIs DEF Promise!Exhausted
  <2>9. e.gate \in {"none", "continue", "skip", "break"}
    BY DEF SEvent, Gates
  <2>10. Promise!CompleteBody(e.gate)
    BY <1>0, <2>2, <2>6, <2>7, <2>8, PromiseIs DEF Promise!CompleteBody, DoneIn, OutcomeIn
  <2> QED
    BY <2>9, <2>10 DEF Promise!RunNext
<1>4. CASE EmitContainerCompleted
  <2>1. spc = "synth"
    BY <1>4 DEF EmitContainerCompleted
  <2>2. PICK made \in Seq(Pair) : slog' = Append(slog, Entry("step_completed", Top, made, "none"))
    BY <1>4, ReportTypes DEF EmitContainerCompleted, Append1
  <2>3. PICK e \in SEvent : e = Entry("step_completed", Top, made, "none")
    <3>1. "step_completed" \in SNames /\ Top \in Pair /\ "none" \in Gates
      BY DEF SNames, Top, Pair, Gates
    <3> QED
      BY <3>1, EventTypes
  <2>4. e.ev = "step_completed" /\ e.at = Top
    BY <2>3 DEF Entry
  <2>5. PICK m : m = slog'
    OBVIOUS
  <2>6. ~Failed(slog) /\ ~ContainerDone(slog)
    BY <2>1 DEF ScopeInv, OutcomeInv, Undecided
  <2>7. ~Failed(m) /\ ContainerDone(m)
    <3>1. PICK l \in Seq(SEvent) : l = slog
      BY <1>0
    <3>2. m = Append(l, e) /\ ~Failed(l)
      BY <2>2, <2>3, <2>5, <2>6, <3>1
    <3> QED
      BY <2>4, <3>2, OutcomeGrows
  <2>8. Scoped(m) = Scoped(slog) /\ \A k \in Scoped(slog) : m[k] = slog[k]
    <3>1. PICK l \in Seq(SEvent) : l = slog
      BY <1>0
    <3>2. m = Grown(l, e) /\ ~(e.ev = "step_completed" /\ e.at # Top)
      BY <2>2, <2>3, <2>4, <2>5, <3>1 DEF Grown
    <3>3. Scoped(m) = Scoped(l) /\ \A k \in Scoped(l) : m[k] = l[k]
      BY <3>2, QuietEvent
    <3> QED
      BY <3>1, <3>3
  <2>9. DoneIn(m) = DoneIn(slog) /\ OutcomeIn(slog) = "open" /\ OutcomeIn(m) = "completed"
    BY <2>6, <2>7, <2>8, SameDone DEF OutcomeIn
  <2>10. Promise!Exhausted
    <3>1. shape.body = << >> \/ HasBroken(slog) \/ NextAt(shape, slog)[1] >= shape.rounds
      BY <2>1 DEF ScopeInv, PlaceInv
    <3> QED
      BY <1>0, <3>1, PromiseIs DEF Promise!Exhausted
  <2>11. Promise!CompleteContainer
    BY <1>0, <2>5, <2>9, <2>10 DEF Promise!CompleteContainer, DoneIn, OutcomeIn
  <2> QED
    BY <2>11 DEF Promise!RunNext
<1> QED
  BY <1>1, <1>2, <1>3, <1>4, LogStep

\* The log of a container reads like a run that no crash interrupted: the runner with its resumes
\* implements the abstract container of ScopeRun.
THEOREM ScopeImplementsRun == ScopeSpec => ImplementsScopeRun
<1>1. ScopeInit => ScopeInv /\ Promise!RunInit
  <2> SUFFICES ASSUME ScopeInit PROVE ScopeInv /\ Promise!RunInit
    OBVIOUS
  <2>1. Scoped(slog) = {} /\ ~Failed(slog) /\ ~ContainerDone(slog)
    BY DEF ScopeInit, Scoped, Failed, ContainerDone
  <2>2. Promise!RunInit
    BY <2>1 DEF Promise!RunInit
  <2> QED
    BY <2>2, ScopeStarts
<1>2. ScopeInv /\ [ScopeNext]_scopeVars => ScopeInv' /\ [Promise!RunNext]_<<shape, DoneIn(slog), OutcomeIn(slog)>>
  BY ScopeSteps, RunSteps
<1> QED
  BY <1>1, <1>2, PTL DEF ScopeSpec, ImplementsScopeRun, Promise!ScopeRunSpec, DoneIn, OutcomeIn
=============================================================================

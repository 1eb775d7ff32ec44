----------------------------- MODULE Host_proofs -----------------------------
(***************************************************************************)
(* What TLAPS proves of the host side of the program, for every workflow,  *)
(* stream, conversation and duration: loading a workflow (Load), the       *)
(* terminal command (Command), a chat call (ChatCall), the slack bot       *)
(* (SlackBot), the remote log stream (RemoteLogs), and durations           *)
(* (Durations).                                                            *)
(***************************************************************************)
EXTENDS Load, Command, ChatCall, SlackBot, RemoteLogs, Durations, NaturalsInduction,
        WellFoundedInduction, FiniteSetTheorems, SequenceTheorems, TLAPS

\* A nonempty set of natural numbers has a least one.
LEMMA LeastOne ==
    ASSUME NEW S, S \subseteq Nat, S # {}
    PROVE  \E k \in S : \A j \in S : k <= j
<1>1. PICK k \in S : \A j \in S : ~(<<j, k>> \in OpToRel(<, Nat))
  BY NatLessThanWellFounded, WFMin
<1>2. \A j \in S : ~(j < k)
  BY <1>1 DEF OpToRel
<1> QED
  BY <1>2

\* The steps of a recursion up to N stay in V, and g is the function it defines from b.
StepsIn(N, V, turn) == turn \in [(1..N) \X V -> V]
RecFrom(b, N, V, turn, g) == g \in [0..N -> V] /\ g[0] = b /\ \A k \in 1..N : g[k] = turn[<<k, g[k - 1]>>]

\* A function defined by recursion on its argument exists, when each step stays in the set V.
LEMMA RecExists ==
    ASSUME NEW V, NEW b \in V, NEW N \in Nat, NEW turn, StepsIn(N, V, turn)
    PROVE  \E g : RecFrom(b, N, V, turn, g)
<1> USE DEF StepsIn, RecFrom
<1> DEFINE Good(n, g) == g \in [0..n -> V] /\ g[0] = b /\ \A k \in 1..n : g[k] = turn[<<k, g[k - 1]>>]
           Bad == {n \in 0..N : ~ \E g : Good(n, g)}
<1>1. Bad \subseteq Nat
  OBVIOUS
<1>2. ASSUME Bad # {} PROVE FALSE
  <2>1. PICK n \in Bad : \A m \in Bad : n <= m
    <3> HIDE DEF Bad
    <3> QED BY <1>1, <1>2, LeastOne
  <2>2. n # 0
    <3>1. Good(0, [k \in 0..0 |-> b])
      OBVIOUS
    <3> QED
      BY <3>1
  <2>3. n \in Nat \ {0} /\ n \in 1..N /\ n - 1 \in 0..N /\ n - 1 \notin Bad
    BY <2>1, <2>2
  <2>4. PICK g : Good(n - 1, g)
    BY <2>3
  <2>5. g[n - 1] \in V /\ turn[<<n, g[n - 1]>>] \in V
    <3>1. n - 1 \in 0..(n - 1)
      BY <2>3
    <3>2. g[n - 1] \in V
      BY <2>4, <3>1
    <3> QED
      BY <2>3, <3>2
  <2> DEFINE h == [k \in 0..n |-> IF k < n THEN g[k] ELSE turn[<<n, g[n - 1]>>]]
  <2>6. h \in [0..n -> V]
    <3>1. \A k \in 0..n : k < n => k \in 0..(n - 1)
      BY <2>3
    <3> QED
      BY <2>4, <2>5, <3>1
  <2>7. h[0] = b
    BY <2>3, <2>4
  <2>8. ASSUME NEW k \in 1..n
        PROVE  h[k] = turn[<<k, h[k - 1]>>]
    <3>1. k - 1 \in 0..n /\ k - 1 < n /\ h[k - 1] = g[k - 1] /\ k \in 0..n
      BY <2>3
    <3>2. CASE k = n
      BY <3>1, <3>2, <2>3
    <3>3. CASE k < n
      <4>1. k \in 1..(n - 1)
        BY <2>3, <3>3
      <4>2. g[k] = turn[<<k, g[k - 1]>>]
        BY <4>1, <2>4
      <4> QED
        BY <3>1, <3>3, <4>2
    <3> QED
      BY <3>2, <3>3, <2>3
  <2>9. Good(n, h)
    BY <2>6, <2>7, <2>8
  <2> QED
    BY <2>1, <2>9
<1>3. PICK g : Good(N, g)
  BY <1>2
<1> QED
  BY <1>3

\* f and g start alike and go on alike.
GoAlike(N, f, g) == f[0] = g[0] /\ \A k \in 1..N : f[k - 1] = g[k - 1] => f[k] = g[k]
Alike(N, f, g) == \A k \in 0..N : f[k] = g[k]

\* Two functions that start alike and go on alike are alike.
LEMMA RecAgree ==
    ASSUME NEW N \in Nat, NEW f, NEW g, GoAlike(N, f, g)
    PROVE  Alike(N, f, g)
<1> USE DEF GoAlike, Alike
<1> DEFINE Bad == {k \in 0..N : f[k] # g[k]}
<1>1. Bad \subseteq Nat
  OBVIOUS
<1>2. ASSUME Bad # {} PROVE FALSE
  <2>1. PICK k \in Bad : \A j \in Bad : k <= j
    <3> HIDE DEF Bad
    <3> QED BY <1>1, <1>2, LeastOne
  <2>2. k # 0 /\ k \in 0..N /\ f[k] # g[k]
    BY <2>1
  <2>3. k \in 1..N /\ k - 1 \in 0..N /\ k - 1 \notin Bad
    BY <2>1, <2>2
  <2>4. f[k - 1] = g[k - 1]
    BY <2>3
  <2> QED
    BY <2>2, <2>3, <2>4
<1> QED
  BY <1>2

\* S has 0 and goes on from each number to the next.
Inductive(N, S) == 0 \in S /\ \A k \in 1..N : k - 1 \in S => k \in S

\* Induction up to N: a set that has 0 and goes on from each number to the next has them all.
LEMMA UpTo ==
    ASSUME NEW N \in Nat, NEW S, Inductive(N, S)
    PROVE  0..N \subseteq S
<1> USE DEF Inductive
<1> DEFINE Bad == {k \in 0..N : k \notin S}
<1>1. Bad \subseteq Nat
  OBVIOUS
<1>2. ASSUME Bad # {} PROVE FALSE
  <2>1. PICK k \in Bad : \A j \in Bad : k <= j
    <3> HIDE DEF Bad
    <3> QED BY <1>1, <1>2, LeastOne
  <2>2. k # 0 /\ k \in 0..N /\ k \notin S
    BY <2>1
  <2>3. k \in 1..N /\ k - 1 \in 0..N /\ k - 1 \notin Bad
    BY <2>1, <2>2
  <2>4. k - 1 \in S
    BY <2>3
  <2> QED
    BY <2>2, <2>3, <2>4
<1> QED
  BY <1>2

-----------------------------------------------------------------------------
(* Circular scopes (module Load).                                          *)

\* A set of scopes with n in it from which only P leads out.
Trap(n, P) == \E S \in SUBSET NamedScopes : n \in S /\ \A m \in S : m \in P \/ \E t \in S : t \in Refs(m)

\* The function that has_cycle computes.
SeeksCycle(h) ==
    h = [q \in NamedScopes \X SUBSET NamedScopes |->
            q[1] \in q[2] \/ \E t \in Refs(q[1]) : h[<<t, q[2] \cup {q[1]}>>]]

\* Scopes name scopes.
LEMMA RefsNamed ==
    ASSUME NEW n
    PROVE  Refs(n) \subseteq NamedScopes /\ (n \notin ScopeNames => Refs(n) = {}) /\ ScopeNames \subseteq NamedScopes
<1>1. n \notin ScopeNames => Refs(n) = {}
  BY DEF Refs
<1>2. n \in ScopeNames => Refs(n) \subseteq UNION {Refs(m) : m \in ScopeNames}
  OBVIOUS
<1> QED
  BY <1>1, <1>2 DEF NamedScopes

\* A trap is a place on the way already, or leads to a trap.
LEMMA TrapStep ==
    ASSUME NEW n \in NamedScopes, NEW P \in SUBSET NamedScopes
    PROVE  Trap(n, P) <=> (n \in P \/ \E t \in Refs(n) : Trap(t, P \cup {n}))
<1>1. ASSUME Trap(n, P), n \notin P PROVE \E t \in Refs(n) : Trap(t, P \cup {n})
  <2>1. PICK S \in SUBSET NamedScopes : n \in S /\ \A m \in S : m \in P \/ \E t \in S : t \in Refs(m)
    BY <1>1 DEF Trap
  <2>2. PICK t \in S : t \in Refs(n)
    BY <1>1, <2>1
  <2>3. \A m \in S : m \in P \cup {n} \/ \E u \in S : u \in Refs(m)
    BY <2>1
  <2> QED
    BY <2>2, <2>3 DEF Trap
<1>2. ASSUME n \in P PROVE Trap(n, P)
  <2>1. {n} \in SUBSET NamedScopes /\ n \in {n} /\ \A m \in {n} : m \in P \/ \E t \in {n} : t \in Refs(m)
    BY <1>2
  <2> QED
    BY <2>1 DEF Trap
<1>3. ASSUME NEW t \in Refs(n), Trap(t, P \cup {n}) PROVE Trap(n, P)
  <2>1. PICK S \in SUBSET NamedScopes : t \in S /\ \A m \in S : m \in P \cup {n} \/ \E u \in S : u \in Refs(m)
    BY <1>3 DEF Trap
  <2>2. PICK T : T = S \cup {n}
    OBVIOUS
  <2>3. T \in SUBSET NamedScopes /\ n \in T
    BY <2>2
  <2>4. ASSUME NEW m \in T PROVE m \in P \/ \E u \in T : u \in Refs(m)
    <3>1. CASE m = n
      BY <1>3, <2>1, <2>2, <3>1
    <3>2. CASE m # n
      BY <2>1, <2>2, <2>4, <3>2
    <3> QED
      BY <3>1, <3>2
  <2> QED
    BY <2>3, <2>4 DEF Trap
<1> QED
  BY <1>1, <1>2, <1>3

\* has_cycle finds the traps.
LEMMA CycleIsTrap ==
    ASSUME IsFiniteSet(ScopeNames)
    PROVE  \A n \in NamedScopes : \A P \in SUBSET NamedScopes : HasCycle[<<n, P>>] <=> Trap(n, P)
<1> DEFINE D == NamedScopes \X SUBSET NamedScopes
           h == [q \in D |-> Trap(q[1], q[2])]
<1>1. SeeksCycle(h)
  <2>1. \A q \in D : q[1] \in NamedScopes /\ q[2] \in SUBSET NamedScopes
    OBVIOUS
  <2>2. \A q \in D : \A t \in Refs(q[1]) : <<t, q[2] \cup {q[1]}>> \in D
    BY <2>1, RefsNamed
  <2>3. \A q \in D : h[q] = (q[1] \in q[2] \/ \E t \in Refs(q[1]) : h[<<t, q[2] \cup {q[1]}>>])
    <3>1. SUFFICES ASSUME NEW q \in D
                   PROVE  h[q] = (q[1] \in q[2] \/ \E t \in Refs(q[1]) : h[<<t, q[2] \cup {q[1]}>>])
      OBVIOUS
    <3>2. PICK n, P : n = q[1] /\ P = q[2] /\ n \in NamedScopes /\ P \in SUBSET NamedScopes
      BY <2>1
    <3>3. \A t \in Refs(n) : h[<<t, P \cup {n}>>] = Trap(t, P \cup {n})
      BY <2>2, <3>2
    <3>4. h[q] = Trap(n, P)
      BY <3>2
    <3>5. Trap(n, P) <=> (n \in P \/ \E t \in Refs(n) : Trap(t, P \cup {n}))
      BY <3>2, TrapStep
    <3>6. (n \in P \/ \E t \in Refs(n) : Trap(t, P \cup {n})) <=> (n \in P \/ \E t \in Refs(n) : h[<<t, P \cup {n}>>])
      BY <3>3, Zenon
    <3>7. Trap(n, P) \in BOOLEAN
      BY DEF Trap
    <3> HIDE DEF h
    <3> QED
      BY <3>2, <3>4, <3>5, <3>6, <3>7, Zenon
  <2>4. h = [q \in D |-> h[q]]
    OBVIOUS
  <2> HIDE DEF h
  <2>5. h = [q \in D |-> q[1] \in q[2] \/ \E t \in Refs(q[1]) : h[<<t, q[2] \cup {q[1]}>>]]
    BY <2>3, <2>4
  <2> QED
    BY <2>5 DEF SeeksCycle
<1>2. HasCycle = CHOOSE g : SeeksCycle(g)
  BY DEF HasCycle, SeeksCycle
<1>3. SeeksCycle(HasCycle)
  BY <1>1, <1>2
<1>4. PICK f : f = HasCycle
  OBVIOUS
<1>5. \A n \in NamedScopes : \A P \in SUBSET NamedScopes :
          f[<<n, P>>] = (n \in P \/ \E t \in Refs(n) : f[<<t, P \cup {n}>>])
  BY <1>3, <1>4 DEF SeeksCycle
<1> HIDE DEF h
<1> DEFINE Differs(n, P) == ~(f[<<n, P>>] <=> Trap(n, P))
           Sizes == {k \in Nat : \E n \in NamedScopes : \E P \in SUBSET NamedScopes :
                                     Differs(n, P) /\ k = Cardinality(ScopeNames \ P)}
<1>6. \A P : IsFiniteSet(ScopeNames \ P) /\ Cardinality(ScopeNames \ P) \in Nat
  BY FS_Subset, FS_CardinalityType
<1>7. ASSUME NEW n0 \in NamedScopes, NEW P0 \in SUBSET NamedScopes, Differs(n0, P0) PROVE FALSE
  <2>1. Sizes \subseteq Nat /\ Cardinality(ScopeNames \ P0) \in Sizes
    BY <1>6, <1>7
  <2>2. PICK k \in Sizes : \A j \in Sizes : k <= j
    <3> HIDE DEF Sizes
    <3> QED BY <2>1, LeastOne
  <2>3. PICK n \in NamedScopes, P \in SUBSET NamedScopes : Differs(n, P) /\ k = Cardinality(ScopeNames \ P)
    BY <2>2
  <2>4. n \notin P /\ n \in ScopeNames /\ \E t \in Refs(n) : Differs(t, P \cup {n})
    <3>1. f[<<n, P>>] = (n \in P \/ \E t \in Refs(n) : f[<<t, P \cup {n}>>])
      BY <1>5, <2>3
    <3>2. Trap(n, P) <=> (n \in P \/ \E t \in Refs(n) : Trap(t, P \cup {n}))
      BY <2>3, TrapStep
    <3>3. n \notin P /\ \E t \in Refs(n) : Differs(t, P \cup {n})
      BY <2>3, <3>1, <3>2, Zenon
    <3> QED
      BY <3>3, RefsNamed
  <2>5. PICK t \in Refs(n) : Differs(t, P \cup {n})
    BY <2>4
  <2>6. t \in NamedScopes /\ P \cup {n} \in SUBSET NamedScopes
    BY RefsNamed
  <2>7. PICK j : j = Cardinality(ScopeNames \ (P \cup {n}))
    OBVIOUS
  <2>8. j \in Sizes
    <3>1. j \in Nat
      BY <1>6, <2>7
    <3> HIDE DEF Differs
    <3> QED
      BY <2>5, <2>6, <2>7, <3>1
  <2>9. j < k
    <3>0. n \in ScopeNames \ P
      BY <2>4
    <3>1. PICK A : A = ScopeNames \ P /\ IsFiniteSet(A) /\ n \in A
      BY <1>6, <3>0
    <3>2. A \ {n} = ScopeNames \ (P \cup {n})
      BY <3>1
    <3>3. Cardinality(A \ {n}) = Cardinality(A) - 1
      BY <3>1, FS_RemoveElement
    <3>4. k \in Nat /\ k = Cardinality(A) /\ j = k - 1
      BY <2>1, <2>3, <2>7, <3>1, <3>2, <3>3
    <3> QED
      BY <3>4
  <2>10. k <= j /\ k \in Nat /\ j \in Nat
    BY <2>1, <2>2, <2>8
  <2> QED
    BY <2>9, <2>10
<1> QED
  BY <1>4, <1>7

\* The scopes a scope reaches.
Reach(n) == {x \in ScopeNames : \A S \in SUBSET ScopeNames : Closed(S) /\ Refs(n) \cap ScopeNames \subseteq S => x \in S}

\* A scope reaches what a scope it names reaches.
LEMMA ReachOn ==
    ASSUME NEW n, NEW t \in Refs(n) \cap ScopeNames
    PROVE  t \in Reach(n) /\ Reach(t) \subseteq Reach(n)
<1>1. t \in Reach(n)
  BY DEF Reach
<1>2. ASSUME NEW x \in Reach(t), NEW S \in SUBSET ScopeNames, Closed(S), Refs(n) \cap ScopeNames \subseteq S
      PROVE  x \in S
  <2>1. t \in S /\ Refs(t) \cap ScopeNames \subseteq S
    BY <1>2 DEF Closed
  <2> QED
    BY <1>2, <2>1 DEF Reach
<1> QED
  BY <1>1, <1>2 DEF Reach

\* In a finite trap with no way out some scope reaches itself.
LEMMA TrapReaches ==
    ASSUME IsFiniteSet(ScopeNames), NEW n, Trap(n, {})
    PROVE  \E m \in ScopeNames : ReachesItself(m)
<1>1. PICK S \in SUBSET NamedScopes : n \in S /\ \A m \in S : \E t \in S : t \in Refs(m)
  BY DEF Trap
<1>2. S \subseteq ScopeNames
  BY <1>1, RefsNamed
<1>3. \A m : IsFiniteSet(Reach(m)) /\ Cardinality(Reach(m)) \in Nat
  <2>1. \A m : Reach(m) \subseteq ScopeNames
    BY DEF Reach
  <2> QED
    BY <2>1, FS_Subset, FS_CardinalityType
<1> DEFINE Sizes == {Cardinality(Reach(m)) : m \in S}
<1>4. Sizes \subseteq Nat /\ Sizes # {}
  BY <1>1, <1>3
<1>5. PICK k \in Sizes : \A j \in Sizes : k <= j
  <2> HIDE DEF Sizes
  <2> QED BY <1>4, LeastOne
<1>6. PICK m \in S : k = Cardinality(Reach(m))
  BY <1>5
<1>7. PICK t \in S : t \in Refs(m)
  BY <1>1
<1>8. t \in Reach(m) /\ Reach(t) \subseteq Reach(m) /\ t \in ScopeNames
  BY <1>2, <1>7, ReachOn
<1>9. k <= Cardinality(Reach(t))
  BY <1>5
<1>10. Reach(t) = Reach(m)
  <2>1. Cardinality(Reach(t)) <= Cardinality(Reach(m)) /\ (Cardinality(Reach(t)) = Cardinality(Reach(m)) => Reach(t) = Reach(m))
    BY <1>3, <1>8, FS_Subset
  <2>2. Cardinality(Reach(t)) \in Nat /\ Cardinality(Reach(m)) \in Nat
    BY <1>3
  <2> QED
    BY <1>6, <1>9, <2>1, <2>2
<1>11. t \in Reach(t)
  BY <1>8, <1>10
<1> QED
  BY <1>8, <1>11 DEF Reach, ReachesItself

\* A scope that reaches itself is in a trap with no way out.
LEMMA ReachesTrap ==
    ASSUME NEW n \in ScopeNames, ReachesItself(n)
    PROVE  Trap(n, {})
<1> DEFINE Leads(m) == \A T \in SUBSET ScopeNames : Closed(T) /\ Refs(m) \cap ScopeNames \subseteq T => n \in T
           S == {m \in ScopeNames : Leads(m)}
<1>1. n \in S
  BY DEF ReachesItself
<1>2. PICK T : T = ScopeNames \ S
  OBVIOUS
<1>3. Closed(T)
  <2>1. SUFFICES ASSUME NEW x \in T, NEW y \in Refs(x) \cap ScopeNames, y \in S PROVE FALSE
    BY <1>2 DEF Closed
  <2>2. PICK U \in SUBSET ScopeNames : Closed(U) /\ Refs(x) \cap ScopeNames \subseteq U /\ n \notin U
    BY <1>2
  <2>3. Refs(y) \cap ScopeNames \subseteq U
    BY <2>1, <2>2 DEF Closed
  <2>4. Leads(y)
    BY <2>1
  <2> QED
    BY <2>2, <2>3, <2>4
<1>4. ASSUME NEW m \in S PROVE \E t \in S : t \in Refs(m)
  <2>1. SUFFICES ASSUME \A t \in S : t \notin Refs(m) PROVE FALSE
    OBVIOUS
  <2>2. Refs(m) \cap ScopeNames \subseteq T
    BY <1>2, <2>1
  <2>3. T \in SUBSET ScopeNames /\ n \notin T
    BY <1>1, <1>2
  <2>4. Leads(m)
    BY <1>4
  <2> QED
    BY <1>3, <2>2, <2>3, <2>4
<1>5. S \in SUBSET NamedScopes
  BY RefsNamed
<1> HIDE DEF S
<1> QED
  BY <1>1, <1>4, <1>5 DEF Trap

\* A workflow is called circular exactly when a scope reaches itself.
LEMMA CyclesAreExact ==
    ASSUME IsFiniteSet(ScopeNames)
    PROVE  CycleExact
<1>1. \A n \in ScopeNames : Circular(n) <=> Trap(n, {})
  <2>1. \A n \in ScopeNames : n \in NamedScopes
    BY RefsNamed
  <2> QED
    BY <2>1, CycleIsTrap DEF Circular
<1>2. (\E n \in ScopeNames : Circular(n)) => \E n \in ScopeNames : ReachesItself(n)
  BY <1>1, TrapReaches
<1>3. (\E n \in ScopeNames : ReachesItself(n)) => \E n \in ScopeNames : Circular(n)
  BY <1>1, ReachesTrap
<1> QED
  BY <1>2, <1>3 DEF CycleExact

-----------------------------------------------------------------------------
(* What inheritance and the adapter make of a step (module Load).          *)

\* A step is a record.
IsRecord(s) ==
    s = [name |-> s.name, kind |-> s.kind, text |-> s.text, scope |-> s.scope, pass |-> s.pass, fail |-> s.fail,
         max |-> s.max, children |-> s.children, cfg |-> s.cfg]

\* Two steps that differ in their configuration alone.
SameStep(s, t) ==
    /\ t.kind = s.kind /\ t.text = s.text /\ t.scope = s.scope /\ t.pass = s.pass /\ t.fail = s.fail
    /\ t.children = s.children

\* A step with another configuration.
LEMMA WithCfgIs ==
    ASSUME NEW s, IsRecord(s), NEW c
    PROVE  IsRecord([s EXCEPT !.cfg = c]) /\ SameStep(s, [s EXCEPT !.cfg = c]) /\ [s EXCEPT !.cfg = c].cfg = c
BY DEF IsRecord, SameStep

\* A step with other children.
LEMMA WithChildrenIs ==
    ASSUME NEW s, IsRecord(s), NEW c
    PROVE  LET t == [s EXCEPT !.children = c]
           IN  /\ IsRecord(t) /\ t.kind = s.kind /\ t.text = s.text /\ t.scope = s.scope
               /\ t.pass = s.pass /\ t.fail = s.fail /\ t.children = c /\ t.cfg = s.cfg
BY DEF IsRecord

\* The layers a value of the chain comes from.
LayerNames == {"embedded", "user", "project", "workflow"}
ChainOk(ch) ==
    /\ {"provider", "temperature", "max_tokens"} \subseteq DOMAIN ch.chat
    /\ \A k \in DOMAIN ch.chat : ch.chat[k] = <<ch.chat[k][1], ch.chat[k][2]>> /\ ch.chat[k][1] \in LayerNames

\* What is known of the configuration c of a chat step under the layers l: where its values
\* come from, and that those bound to a provider come from no layer when the step selects another.
ComesFrom(l, c) ==
    \A k \in DOMAIN c : c[k][1] \in {"step", "adapter"} \/ (k \in DOMAIN l /\ c[k][1] = l[k][1])
OwnProvider(l, c) ==
    /\ "provider" \in DOMAIN c /\ c["provider"][1] = "step"
    /\ c["provider"][2] # "null" /\ c["provider"][2] # l["provider"][2]
Bound(l, c) ==
    OwnProvider(l, c) => \A k \in ProviderBoundKeys \cap DOMAIN c : c[k][1] \in {"step", "adapter"}
OwnPermissions(c) == "permissions" \in DOMAIN c => c["permissions"][1] = "step"

\* A chat step that a layer has been put under.
LEMMA ChatInherits ==
    ASSUME NEW s, WrittenBy("step", s.cfg), ChainOk(chain)
    PROVE  LET c == Over(s.cfg, Take(chain.chat, InheritedChatKeys \ Skipped(s)))
           IN  ComesFrom(chain.chat, c) /\ Bound(chain.chat, c)
<1>1. PICK o, l, keys, t, c : o = s.cfg /\ l = chain.chat /\ keys = InheritedChatKeys \ Skipped(s) /\ t = Take(l, keys)
                              /\ c = Over(o, t)
  OBVIOUS
<1>2. DOMAIN t = keys \cap DOMAIN l /\ \A k \in DOMAIN t : t[k] = Coerced(k, l[k])
  BY <1>1 DEF Take
<1>3. DOMAIN c = DOMAIN o \cup DOMAIN t /\ \A k \in DOMAIN c : c[k] = IF k \in DOMAIN o THEN o[k] ELSE t[k]
  BY <1>1 DEF Over
<1>4. \A k \in DOMAIN l : l[k][1] \in LayerNames /\ Coerced(k, l[k])[1] = l[k][1]
  BY <1>1 DEF ChainOk, Coerced
<1>5. \A k \in DOMAIN o : o[k][1] = "step"
  BY <1>1 DEF WrittenBy
<1>6. ComesFrom(l, c)
  <2>1. ASSUME NEW k \in DOMAIN c PROVE c[k][1] \in {"step", "adapter"} \/ (k \in DOMAIN l /\ c[k][1] = l[k][1])
    <3>1. CASE k \in DOMAIN o
      BY <1>3, <1>5, <3>1
    <3>2. CASE k \notin DOMAIN o
      <4>1. k \in DOMAIN t /\ k \in DOMAIN l
        BY <1>2, <1>3, <3>2
      <4>2. c[k] = t[k] /\ t[k] = Coerced(k, l[k])
        BY <1>2, <1>3, <3>2, <4>1
      <4> QED
        BY <1>4, <4>1, <4>2
    <3> QED
      BY <3>1, <3>2
  <2> QED
    BY <2>1 DEF ComesFrom
<1>7. Bound(l, c)
  <2>1. SUFFICES ASSUME OwnProvider(l, c), NEW k \in ProviderBoundKeys \cap DOMAIN c
                 PROVE  c[k][1] \in {"step", "adapter"}
    BY DEF Bound
  <2>2. "provider" \in DOMAIN c /\ c["provider"][1] = "step" /\ c["provider"][2] # l["provider"][2]
    BY <2>1 DEF OwnProvider
  <2>3. "provider" \in DOMAIN l
    BY <1>1 DEF ChainOk
  <2>4. "provider" \in DOMAIN o
    <3>1. SUFFICES ASSUME "provider" \notin DOMAIN o PROVE FALSE
      OBVIOUS
    <3>2. "provider" \in DOMAIN t
      BY <1>3, <2>2, <3>1
    <3>3. c["provider"] = Coerced("provider", l["provider"])
      BY <1>2, <1>3, <2>2, <3>1, <3>2
    <3>4. c["provider"][1] \in LayerNames
      BY <1>4, <2>3, <3>3
    <3> QED
      BY <2>2, <3>4 DEF LayerNames
  <2>5. c["provider"] = o["provider"]
    BY <1>3, <2>2, <2>4
  <2>6. Skipped(s) = ProviderBoundKeys
    BY <1>1, <2>2, <2>3, <2>4, <2>5 DEF Skipped
  <2>7. k \notin DOMAIN t
    BY <1>1, <1>2, <2>6
  <2> QED
    BY <1>3, <1>5, <2>7
<1> QED
  BY <1>1, <1>6, <1>7

\* An agent step that a layer has been put under.
LEMMA AgentInherits ==
    ASSUME NEW s, WrittenBy("step", s.cfg)
    PROVE  OwnPermissions(Over(s.cfg, Take(chain.agent, InheritedAgentKeys)))
<1>1. PICK o, t, c : o = s.cfg /\ t = Take(chain.agent, InheritedAgentKeys) /\ c = Over(o, t)
  OBVIOUS
<1>2. "permissions" \notin DOMAIN t
  BY <1>1 DEF Take, InheritedAgentKeys
<1>3. DOMAIN c = DOMAIN o \cup DOMAIN t /\ \A k \in DOMAIN c : c[k] = IF k \in DOMAIN o THEN o[k] ELSE t[k]
  BY <1>1 DEF Over
<1>4. \A k \in DOMAIN o : o[k][1] = "step"
  BY <1>1 DEF WrittenBy
<1> QED
  BY <1>1, <1>2, <1>3, <1>4 DEF OwnPermissions

\* What is known of a step under the chain ch, whatever the adapter has done with it.
StepSound(ch, s) ==
    /\ IsRecord(s) /\ s.kind \in StepTypes
    /\ s.kind = "agent" => OwnPermissions(s.cfg)
    /\ s.kind = "chat" => ComesFrom(ch.chat, s.cfg) /\ Bound(ch.chat, s.cfg)

\* A step that has inherited.
LEMMA InheritedSound ==
    ASSUME NEW s, IsStep(s), ChainOk(chain)
    PROVE  StepSound(chain, Inherited(s)) /\ SameStep(s, Inherited(s))
<1>1. IsRecord(s) /\ s.kind \in StepTypes /\ WrittenBy("step", s.cfg)
  BY DEF IsStep, IsRecord
<1>2. CASE s.kind = "chat"
  <2>1. PICK c : c = Over(s.cfg, Take(chain.chat, InheritedChatKeys \ Skipped(s)))
    OBVIOUS
  <2>2. ComesFrom(chain.chat, c) /\ Bound(chain.chat, c)
    BY <1>1, <2>1, ChatInherits
  <2>3. Inherited(s) = [s EXCEPT !.cfg = c]
    BY <1>2, <2>1 DEF Inherited
  <2>4. IsRecord(Inherited(s)) /\ SameStep(s, Inherited(s)) /\ Inherited(s).cfg = c
    BY <1>1, <2>3, WithCfgIs
  <2> QED
    BY <1>1, <1>2, <2>2, <2>4 DEF StepSound, SameStep
<1>3. CASE s.kind = "agent"
  <2>1. PICK c : c = Over(s.cfg, Take(chain.agent, InheritedAgentKeys))
    OBVIOUS
  <2>2. OwnPermissions(c)
    BY <1>1, <2>1, AgentInherits
  <2>3. Inherited(s) = [s EXCEPT !.cfg = c]
    BY <1>3, <2>1 DEF Inherited
  <2>4. IsRecord(Inherited(s)) /\ SameStep(s, Inherited(s)) /\ Inherited(s).cfg = c
    BY <1>1, <2>3, WithCfgIs
  <2> QED
    BY <1>1, <1>3, <2>2, <2>4 DEF StepSound, SameStep
<1>4. CASE s.kind \notin {"chat", "agent"}
  <2>1. Inherited(s) = s
    BY <1>4 DEF Inherited
  <2> QED
    BY <1>1, <1>4, <2>1 DEF StepSound, SameStep
<1> QED
  BY <1>2, <1>3, <1>4

\* A step and its children that have inherited.
LEMMA DeepSound ==
    ASSUME NEW s, IsStep(s), AreSteps(s.children), ChainOk(chain)
    PROVE  /\ StepSound(chain, InheritedDeep(s)) /\ InheritedDeep(s).kind = s.kind
           /\ DOMAIN InheritedDeep(s).children = DOMAIN s.children
           /\ \A c \in DOMAIN s.children : StepSound(chain, InheritedDeep(s).children[c])
<1>1. PICK t, c : t = Inherited(s) /\ c = [i \in DOMAIN s.children |-> Inherited(s.children[i])]
  OBVIOUS
<1>2. StepSound(chain, t) /\ SameStep(s, t)
  BY <1>1, InheritedSound
<1>3. PICK d : d = InheritedDeep(s) /\ d = [t EXCEPT !.children = c]
  BY <1>1 DEF InheritedDeep
<1>4. IsRecord(t)
  BY <1>2 DEF StepSound
<1>5. IsRecord(d) /\ d.kind = t.kind /\ d.children = c /\ d.cfg = t.cfg
  BY <1>3, <1>4, WithChildrenIs
<1>6. StepSound(chain, d)
  BY <1>2, <1>5 DEF StepSound
<1>7. \A i \in DOMAIN s.children : IsStep(s.children[i])
  BY DEF AreSteps
<1>8. \A i \in DOMAIN s.children : StepSound(chain, Inherited(s.children[i]))
  BY <1>7, InheritedSound
<1>9. DOMAIN c = DOMAIN s.children /\ \A i \in DOMAIN s.children : c[i] = Inherited(s.children[i])
  BY <1>1
<1> QED
  BY <1>2, <1>3, <1>5, <1>6, <1>8, <1>9 DEF SameStep

\* A chat configuration whose fallbacks have been filled in.
FilledIn(c) == {"provider", "temperature", "max_tokens"} \subseteq DOMAIN c /\ Has(c, "provider")
Reachable(c) == Provider(c) = "compat" => Has(c, "base_url")
Filled(c) == Over(NonNull(c), ChatFallback(Provider(c)))

\* What filling them in keeps.
LEMMA FilledIs ==
    ASSUME NEW c
    PROVE  /\ FilledIn(Filled(c))
           /\ Provider(Filled(c)) = Provider(c)
           /\ Has(c, "base_url") => Has(Filled(c), "base_url")
           /\ \A l : ComesFrom(l, c) => ComesFrom(l, Filled(c))
           /\ \A l : Bound(l, c) => Bound(l, Filled(c))
<1>1. PICK o, p, b, f : o = NonNull(c) /\ p = Provider(c) /\ b = ChatFallback(p) /\ f = Filled(c)
  OBVIOUS
<1>2. DOMAIN o = {j \in DOMAIN c : Has(c, j)} /\ \A k \in DOMAIN o : o[k] = c[k]
  BY <1>1 DEF NonNull
<1>3. /\ DOMAIN b = {"provider", "model", "api_key_env", "temperature", "max_tokens", "timeout"}
      /\ b["provider"] = <<"adapter", p>>
      /\ \A k \in DOMAIN b : b[k][1] = "adapter"
  BY <1>1 DEF ChatFallback
<1>4. DOMAIN f = DOMAIN o \cup DOMAIN b /\ \A k \in DOMAIN f : f[k] = IF k \in DOMAIN o THEN o[k] ELSE b[k]
  BY <1>1 DEF Filled, Over
<1>5. \A k \in DOMAIN f : (k \in DOMAIN c /\ Has(c, k) /\ f[k] = c[k]) \/ (~Has(c, k) /\ k \in DOMAIN b /\ f[k] = b[k])
  <2>1. \A k : Has(c, k) => k \in DOMAIN c
    BY DEF Has
  <2> QED
    BY <1>2, <1>4, <2>1
<1>6. {"provider", "temperature", "max_tokens"} \subseteq DOMAIN f
  BY <1>3, <1>4
<1>7. Has(f, "provider") /\ Provider(f) = p
  <2>1. CASE Has(c, "provider")
    <3>1. f["provider"] = c["provider"] /\ "provider" \in DOMAIN f
      BY <1>5, <1>6, <2>1
    <3>2. Has(f, "provider") /\ Val(f, "provider") = Val(c, "provider")
      BY <2>1, <3>1 DEF Has, Val
    <3> QED
      BY <1>1, <3>2 DEF Provider
  <2>2. CASE ~Has(c, "provider")
    <3>1. p = "anthropic"
      BY <1>1, <2>2 DEF Provider, Val
    <3>2. f["provider"] = <<"adapter", "anthropic">> /\ "provider" \in DOMAIN f
      BY <1>3, <1>5, <1>6, <2>2, <3>1
    <3>3. f["provider"][2] = "anthropic"
      BY <3>2
    <3>4. Has(f, "provider") /\ Val(f, "provider") = "anthropic"
      BY <3>2, <3>3 DEF Has, Val
    <3> QED
      BY <3>1, <3>4 DEF Provider
  <2> QED
    BY <2>1, <2>2
<1>8. Has(c, "base_url") => Has(f, "base_url")
  <2>1. SUFFICES ASSUME Has(c, "base_url") PROVE Has(f, "base_url")
    OBVIOUS
  <2>2. "base_url" \in DOMAIN o /\ "base_url" \in DOMAIN f /\ f["base_url"] = c["base_url"]
    BY <1>2, <1>4, <2>1 DEF Has
  <2> QED
    BY <2>1, <2>2 DEF Has
<1>9. ASSUME NEW l, ComesFrom(l, c) PROVE ComesFrom(l, f)
  <2>1. \A k \in DOMAIN f : f[k][1] = "adapter" \/ (k \in DOMAIN c /\ f[k] = c[k])
    BY <1>3, <1>5
  <2> QED
    BY <1>9, <2>1 DEF ComesFrom
<1>10. ASSUME NEW l, Bound(l, c) PROVE Bound(l, f)
  <2>1. SUFFICES ASSUME OwnProvider(l, f), NEW k \in ProviderBoundKeys \cap DOMAIN f
                 PROVE  f[k][1] \in {"step", "adapter"}
    BY DEF Bound
  <2>2. f["provider"][1] = "step" /\ "provider" \in DOMAIN f /\ f["provider"][2] # "null"
        /\ f["provider"][2] # l["provider"][2]
    BY <2>1 DEF OwnProvider
  <2>3. "provider" \in DOMAIN c /\ f["provider"] = c["provider"]
    BY <1>3, <1>5, <2>2
  <2>4. OwnProvider(l, c)
    BY <2>2, <2>3 DEF OwnProvider
  <2>5. f[k][1] = "adapter" \/ (k \in DOMAIN c /\ f[k] = c[k])
    BY <1>3, <1>5
  <2> QED
    BY <1>10, <2>4, <2>5 DEF Bound
<1> QED
  BY <1>1, <1>6, <1>7, <1>8, <1>9, <1>10 DEF FilledIn

\* A chat step is filled in.
Crystal(s) == s.kind = "chat" => FilledIn(s.cfg)

\* What the adapter makes of a step.
LEMMA CrystalSound ==
    ASSUME NEW ch, NEW s, StepSound(ch, s)
    PROVE  /\ StepSound(ch, Crystallized(s)) /\ Crystal(Crystallized(s)) /\ SameStep(s, Crystallized(s))
           /\ s.kind = "chat" => Crystallized(s).cfg = Filled(s.cfg)
<1>1. CASE s.kind = "chat"
  <2>1. PICK f : f = Filled(s.cfg)
    OBVIOUS
  <2>2. Crystallized(s) = [s EXCEPT !.cfg = f]
    BY <1>1, <2>1 DEF Crystallized, Filled
  <2>3. IsRecord(s)
    BY DEF StepSound
  <2>4. IsRecord(Crystallized(s)) /\ SameStep(s, Crystallized(s)) /\ Crystallized(s).cfg = f
    BY <2>2, <2>3, WithCfgIs
  <2>5. FilledIn(f) /\ ComesFrom(ch.chat, f) /\ Bound(ch.chat, f)
    BY <1>1, <2>1, FilledIs DEF StepSound
  <2> QED
    BY <1>1, <2>1, <2>4, <2>5 DEF StepSound, SameStep, Crystal
<1>2. CASE s.kind # "chat"
  <2>1. Crystallized(s) = s
    BY <1>2 DEF Crystallized
  <2> QED
    BY <1>2, <2>1 DEF Crystal, SameStep
<1> QED
  BY <1>1, <1>2

\* A chat step the adapter has accepted is not refused when it is reached.
LEMMA ChatRuns ==
    ASSUME NEW ch, NEW s, StepSound(ch, s), s.kind = "chat", s.text # "none", Reachable(s.cfg)
    PROVE  ~ChatRefused(Crystallized(s))
<1>1. PICK t, f : t = Crystallized(s) /\ f = Filled(s.cfg)
  OBVIOUS
<1>2. t.cfg = f /\ t.text = s.text
  BY <1>1, CrystalSound DEF SameStep
<1>3. Has(f, "provider") /\ (Provider(f) = "compat" => Has(f, "base_url"))
  BY <1>1, FilledIs DEF FilledIn, Reachable
<1> QED
  BY <1>1, <1>2, <1>3 DEF ChatRefused

\* An action the adapter lets through is one the engine knows.
LEMMA ActionParses ==
    ASSUME NEW a, NEW position \in {"top", "scoped"}, ActionOk(a, position)
    PROVE  /\ ParseAction(a, position) # "error"
           /\ position = "top" => ParseAction(a, position) \in {"continue", "fail"}
BY DEF ActionOk, Allowed, ParseAction

\* A body step the adapter accepts is not refused when it is reached.
LEMMA BodyRuns ==
    ASSUME NEW ch, NEW s, StepSound(ch, s), NEW names, Adaptable(s, names, "scoped"),
           NEW kinds \in {ParallelKinds, ScopeBodyKinds}, s.kind \in kinds
    PROVE  ~BodyRefused(Crystallized(s), kinds)
<1>1. PICK t : t = Crystallized(s)
  OBVIOUS
<1>2. t.kind = s.kind /\ t.text = s.text /\ t.pass = s.pass /\ t.fail = s.fail
  BY <1>1, CrystalSound DEF SameStep
<1>3. ~(t.kind = "gate" /\ GateRefused(t, "scoped"))
  <2>1. SUFFICES ASSUME s.kind = "gate" PROVE ~GateRefused(t, "scoped")
    BY <1>2
  <2>2. s.text = "text" /\ ActionOk(s.pass, "scoped") /\ ActionOk(s.fail, "scoped")
    BY <2>1 DEF Adaptable
  <2>3. ParseAction(s.pass, "scoped") # "error" /\ ParseAction(s.fail, "scoped") # "error"
    BY <2>2, ActionParses
  <2> QED
    BY <1>2, <2>2, <2>3 DEF GateRefused
<1>4. ~(t.kind = "agent" /\ t.text = "none")
  BY <1>2 DEF Adaptable
<1>5. ~(t.kind = "chat" /\ ChatRefused(t))
  <2>1. SUFFICES ASSUME s.kind = "chat" PROVE ~ChatRefused(t)
    BY <1>2
  <2>2. s.text = "text" /\ ChatOk(s.cfg)
    BY <2>1 DEF Adaptable
  <2>3. Reachable(s.cfg) /\ s.text # "none"
    BY <2>2 DEF ChatOk, Reachable
  <2> QED
    BY <1>1, <2>1, <2>3, ChatRuns
<1> QED
  BY <1>1, <1>2, <1>3, <1>4, <1>5 DEF BodyRefused

\* Filling in the fallbacks again changes nothing in that.
LEMMA BodyRunsAgain ==
    ASSUME NEW ch, NEW s, StepSound(ch, s), NEW kinds, ~BodyRefused(s, kinds)
    PROVE  ~BodyRefused(Crystallized(s), kinds)
<1>1. PICK t : t = Crystallized(s)
  OBVIOUS
<1>2. t.kind = s.kind /\ t.text = s.text /\ t.pass = s.pass /\ t.fail = s.fail
  BY <1>1, CrystalSound DEF SameStep
<1>3. ~(s.kind = "gate" /\ GateRefused(s, "scoped")) /\ ~(s.kind = "chat" /\ ChatRefused(s))
      /\ s.kind \in kinds /\ ~(s.kind = "agent" /\ s.text = "none")
  BY DEF BodyRefused
<1>4. ~(t.kind = "gate" /\ GateRefused(t, "scoped"))
  BY <1>2, <1>3 DEF GateRefused
<1>5. ~(t.kind = "chat" /\ ChatRefused(t))
  <2>1. SUFFICES ASSUME s.kind = "chat" PROVE ~ChatRefused(t)
    BY <1>2
  <2>2. s.text # "none" /\ Reachable(s.cfg)
    BY <1>3, <2>1 DEF ChatRefused, Reachable
  <2> QED
    BY <1>1, <2>1, <2>2, ChatRuns
<1> QED
  BY <1>1, <1>2, <1>3, <1>4, <1>5 DEF BodyRefused

\* What is known of the adapted step at the top, the i-th one, apart from the scope it names.
TopFine(names, i, s) ==
    /\ s.kind = "gate" => /\ ~GateRefused(s, "top")
                          /\ ParseAction(s.pass, "top") \in {"continue", "fail"}
                          /\ ParseAction(s.fail, "top") \in {"continue", "fail"}
    /\ s.kind = "agent" => s.text # "none"
    /\ s.kind = "chat" => ~ChatRefused(s)
    /\ s.kind \in {"call", "repeat", "map"} => s.scope \in names
    /\ s.kind = "map" => s.text # "none"
    /\ s.kind = "parallel" => s.scope = ParallelNames[i]

\* What the adapter accepts at the top is such a step.
LEMMA TopRuns ==
    ASSUME NEW ch, NEW s, StepSound(ch, s), NEW i, TopOk(s, i)
    PROVE  /\ TopFine(ScopeNames, i, AdaptedStep(s, i))
           /\ StepSound(ch, AdaptedStep(s, i)) /\ Crystal(AdaptedStep(s, i)) /\ AdaptedStep(s, i).kind = s.kind
<1>1. PICK t : t = AdaptedStep(s, i)
  OBVIOUS
<1>2. CASE s.kind = "parallel"
  <2>0. IsRecord(s)
    BY DEF StepSound
  <2>1. t = [s EXCEPT !.scope = ParallelNames[i], !.children = << >>]
    BY <1>1, <1>2 DEF AdaptedStep, Synthesised
  <2>2. IsRecord(t) /\ t.kind = s.kind /\ t.scope = ParallelNames[i]
    <3>1. PICK r : r = [s EXCEPT !.scope = ParallelNames[i]]
      OBVIOUS
    <3>2. IsRecord(r) /\ r.kind = s.kind /\ r.scope = ParallelNames[i]
      BY <2>0, <3>1 DEF IsRecord
    <3>3. t = [r EXCEPT !.children = << >>]
      BY <2>0, <2>1, <3>1 DEF IsRecord
    <3> QED
      BY <3>2, <3>3, WithChildrenIs
  <2> QED
    BY <1>1, <1>2, <2>2 DEF TopFine, StepSound, Crystal
<1>3. CASE s.kind # "parallel"
  <2>1. t = Crystallized(s) /\ Adaptable(s, ScopeNames, "top")
    BY <1>1, <1>3 DEF AdaptedStep, TopOk
  <2>2. StepSound(ch, t) /\ Crystal(t) /\ SameStep(s, t)
    BY <2>1, CrystalSound
  <2>3. t.kind = s.kind /\ t.text = s.text /\ t.pass = s.pass /\ t.fail = s.fail /\ t.scope = s.scope
    BY <2>2 DEF SameStep
  <2>4. ASSUME s.kind = "gate"
        PROVE  /\ ~GateRefused(t, "top")
               /\ ParseAction(t.pass, "top") \in {"continue", "fail"}
               /\ ParseAction(t.fail, "top") \in {"continue", "fail"}
    <3>1. s.text = "text" /\ ActionOk(s.pass, "top") /\ ActionOk(s.fail, "top")
      BY <2>1, <2>4 DEF Adaptable
    <3>2. ParseAction(s.pass, "top") \in {"continue", "fail"} /\ ParseAction(s.fail, "top") \in {"continue", "fail"}
      BY <3>1, ActionParses
    <3> QED
      BY <2>3, <3>1, <3>2 DEF GateRefused
  <2>5. ASSUME s.kind = "chat" PROVE ~ChatRefused(t)
    <3>1. s.text = "text" /\ ChatOk(s.cfg)
      BY <2>1, <2>5 DEF Adaptable
    <3>2. Reachable(s.cfg) /\ s.text # "none"
      BY <3>1 DEF ChatOk, Reachable
    <3> QED
      BY <2>1, <2>5, <3>2, ChatRuns
  <2>6. /\ s.kind = "agent" => s.text # "none"
        /\ s.kind \in {"call", "repeat", "map"} => s.scope \in ScopeNames
        /\ s.kind = "map" => s.text # "none"
    BY <2>1 DEF Adaptable
  <2>7. TopFine(ScopeNames, i, t)
    BY <1>3, <2>3, <2>4, <2>5, <2>6 DEF TopFine
  <2> QED
    BY <1>1, <2>2, <2>3, <2>7
<1> QED
  BY <1>2, <1>3

-----------------------------------------------------------------------------
(* The layers (module Load).                                               *)

\* The chain after each of the layers.
LayerOn(ch, file) == IF file = << >> THEN ch ELSE Merge(ch, file[1])
UserChain(ly) == LayerOn(Embedded, ly.user)
ProjectChain(ly) == LayerOn(UserChain(ly), ly.project)
FullChain(d, ly) == Merge(ProjectChain(ly), d.config)

\* Every value names a layer.
Layered(c) == \A k \in DOMAIN c : c[k] = <<c[k][1], c[k][2]>> /\ c[k][1] \in LayerNames
\* c is b with the values of the layer o for the keys of S.
Overlaid(o, S, b, c) ==
    /\ Layered(c) /\ DOMAIN b \subseteq DOMAIN c
    /\ \A k \in DOMAIN b : c[k][1] = IF k \in S THEN o ELSE b[k][1]

\* A layer over a chain.
LEMMA MergeIs ==
    ASSUME NEW a, NEW b, NEW o \in LayerNames, Layered(a.chat), WrittenBy(o, b.chat)
    PROVE  Overlaid(o, DOMAIN b.chat, a.chat, Merge(a, b).chat)
<1>1. PICK x, y, c : x = a.chat /\ y = b.chat /\ c = Merge(a, b).chat
  OBVIOUS
<1>2. c = Over(y, x)
  BY <1>1 DEF Merge, MergeMap
<1>3. DOMAIN c = DOMAIN y \cup DOMAIN x /\ \A k \in DOMAIN c : c[k] = IF k \in DOMAIN y THEN y[k] ELSE x[k]
  BY <1>2 DEF Over
<1>4. \A k \in DOMAIN y : y[k] = <<o, y[k][2]>>
  BY <1>1 DEF WrittenBy
<1>5. \A k \in DOMAIN y : y[k][1] = o /\ y[k] = <<y[k][1], y[k][2]>>
  BY <1>4
<1>6. \A k \in DOMAIN x : x[k] = <<x[k][1], x[k][2]>> /\ x[k][1] \in LayerNames
  BY <1>1 DEF Layered
<1>7. Layered(c)
  <2>1. ASSUME NEW k \in DOMAIN c PROVE c[k] = <<c[k][1], c[k][2]>> /\ c[k][1] \in LayerNames
    <3>1. CASE k \in DOMAIN y
      BY <1>3, <1>5, <3>1
    <3>2. CASE k \notin DOMAIN y
      BY <1>3, <1>6, <3>2
    <3> QED
      BY <3>1, <3>2
  <2> QED
    BY <2>1 DEF Layered
<1>8. \A k \in DOMAIN x : c[k][1] = IF k \in DOMAIN y THEN o ELSE x[k][1]
  BY <1>3, <1>5
<1> QED
  BY <1>1, <1>3, <1>7, <1>8 DEF Overlaid

\* A file, if there is one, over a chain.
LEMMA FileIs ==
    ASSUME NEW a, NEW file, NEW o \in LayerNames, Layered(a.chat), file = << >> \/ TypesWrittenBy(o, file[1])
    PROVE  Overlaid(o, {k \in DOMAIN a.chat : SetsChat(file, k)}, a.chat, LayerOn(a, file).chat)
<1>1. PICK S, x : x = a.chat /\ S = {k \in DOMAIN x : SetsChat(file, k)}
  OBVIOUS
<1>2. CASE file = << >>
  <2>1. LayerOn(a, file) = a /\ S = {}
    BY <1>1, <1>2 DEF LayerOn, SetsChat
  <2> QED
    BY <1>1, <2>1 DEF Overlaid
<1>3. CASE file # << >>
  <2>1. PICK b : b = file[1] /\ WrittenBy(o, b.chat)
    BY <1>3 DEF TypesWrittenBy
  <2>2. LayerOn(a, file) = Merge(a, b)
    BY <1>3, <2>1 DEF LayerOn
  <2>3. Overlaid(o, DOMAIN b.chat, a.chat, Merge(a, b).chat)
    BY <2>1, MergeIs
  <2>4. \A k \in DOMAIN x : k \in S <=> k \in DOMAIN b.chat
    BY <1>1, <1>3, <2>1 DEF SetsChat
  <2> QED
    BY <1>1, <2>2, <2>3, <2>4 DEF Overlaid
<1> QED
  BY <1>1, <1>2, <1>3

\* The highest layer that sets a key.
Highest(d, ly, key) ==
    IF key \in DOMAIN d.config.chat THEN "workflow"
    ELSE IF SetsChat(ly.project, key) THEN "project"
    ELSE IF SetsChat(ly.user, key) THEN "user" ELSE "embedded"

\* The chain of a load: every value names its layer, and it is the highest that sets the key.
LEMMA ChainIs ==
    ASSUME NEW l \in Loads
    PROVE  /\ ChainOk(FullChain(l.def, l.layers))
           /\ \A k \in {"temperature", "max_tokens"} :
                 FullChain(l.def, l.layers).chat[k][1] = Highest(l.def, l.layers, k)
<1>1. PICK d, ly : d = l.def /\ ly = l.layers
  OBVIOUS
<1>2. /\ TypesWrittenBy("workflow", d.config)
      /\ ly.user = << >> \/ TypesWrittenBy("user", ly.user[1])
      /\ ly.project = << >> \/ TypesWrittenBy("project", ly.project[1])
  BY <1>1, LoadAssumption
<1>3. PICK e, u, p, f : e = Embedded.chat /\ u = UserChain(ly).chat /\ p = ProjectChain(ly).chat /\ f = FullChain(d, ly).chat
  OBVIOUS
<1>4. /\ DOMAIN e = {"provider", "model", "api_key_env", "temperature", "max_tokens"} /\ Layered(e)
      /\ \A k \in DOMAIN e : e[k][1] = "embedded"
  BY <1>3 DEF Embedded, Layered, LayerNames
<1>5. "user" \in LayerNames /\ "project" \in LayerNames /\ "workflow" \in LayerNames
  BY DEF LayerNames
<1>6. Overlaid("user", {k \in DOMAIN e : SetsChat(ly.user, k)}, e, u)
  BY <1>2, <1>3, <1>4, <1>5, FileIs DEF UserChain
<1>7. Layered(u)
  BY <1>6 DEF Overlaid
<1>8. Overlaid("project", {k \in DOMAIN u : SetsChat(ly.project, k)}, u, p)
  BY <1>2, <1>3, <1>5, <1>7, FileIs DEF ProjectChain
<1>9. Layered(p)
  BY <1>8 DEF Overlaid
<1>10. WrittenBy("workflow", d.config.chat)
  BY <1>2 DEF TypesWrittenBy
<1>11. Overlaid("workflow", DOMAIN d.config.chat, p, f)
  BY <1>3, <1>5, <1>9, <1>10, MergeIs DEF FullChain
<1>12. DOMAIN e \subseteq DOMAIN u /\ DOMAIN u \subseteq DOMAIN p /\ DOMAIN p \subseteq DOMAIN f /\ Layered(f)
  BY <1>6, <1>8, <1>11 DEF Overlaid
<1>13. {"provider", "temperature", "max_tokens"} \subseteq DOMAIN e
  BY <1>4
<1>14. ASSUME NEW k \in {"temperature", "max_tokens"} PROVE f[k][1] = Highest(d, ly, k)
  <2>1. k \in DOMAIN e /\ k \in DOMAIN u /\ k \in DOMAIN p
    BY <1>12, <1>13
  <2>2. u[k][1] = IF SetsChat(ly.user, k) THEN "user" ELSE "embedded"
    BY <1>4, <1>6, <2>1 DEF Overlaid
  <2>3. p[k][1] = IF SetsChat(ly.project, k) THEN "project" ELSE u[k][1]
    BY <1>8, <2>1 DEF Overlaid
  <2>4. f[k][1] = IF k \in DOMAIN d.config.chat THEN "workflow" ELSE p[k][1]
    BY <1>11, <2>1 DEF Overlaid
  <2> QED
    BY <2>2, <2>3, <2>4 DEF Highest
<1>15. ChainOk(FullChain(d, ly))
  BY <1>3, <1>12, <1>13 DEF ChainOk, Layered
<1> QED
  BY <1>1, <1>3, <1>14, <1>15

-----------------------------------------------------------------------------
(* The adapted workflow (module Load).                                     *)

\* A sequence of anything.
IsSeq(q) == q \in Seq(Range(q))

\* One more element.
LEMMA OneMore ==
    ASSUME NEW q, IsSeq(q), NEW e
    PROVE  /\ IsSeq(Append(q, e)) /\ Len(Append(q, e)) = Len(q) + 1 /\ Len(q) \in Nat
           /\ Append(q, e)[Len(q) + 1] = e /\ \A i \in 1..Len(q) : Append(q, e)[i] = q[i]
<1>1. PICK S, n : S = Range(q) \cup {e} /\ n = Len(q)
  OBVIOUS
<1>2. q \in Seq(Range(q)) /\ n \in Nat /\ DOMAIN q = 1..n
  BY <1>1 DEF IsSeq
<1>3. q \in Seq(S)
  <2>1. \A i \in 1..n : q[i] \in S
    BY <1>1, <1>2 DEF Range
  <2>2. q = [i \in 1..n |-> q[i]]
    BY <1>1, <1>2
  <2>3. q \in [1..n -> S]
    BY <2>1, <2>2
  <2> QED
    BY <1>2, <2>3
<1>4. e \in S
  BY <1>1
<1>5. PICK p : p = Append(q, e)
  OBVIOUS
<1>6. p \in Seq(S) /\ Len(p) = n + 1 /\ p[n + 1] = e /\ \A i \in 1..n : p[i] = q[i]
  BY <1>1, <1>3, <1>4, <1>5
<1>7. IsSeq(p)
  <2>1. PICK m : m = Len(p) /\ m \in Nat /\ DOMAIN p = 1..m
    BY <1>6
  <2>2. \A i \in 1..m : p[i] \in Range(p)
    BY <2>1 DEF Range
  <2>3. p = [i \in 1..m |-> p[i]]
    BY <1>6, <2>1
  <2>4. p \in [1..m -> Range(p)]
    BY <2>2, <2>3
  <2> QED
    BY <2>1, <2>4 DEF IsSeq
<1> QED
  BY <1>1, <1>2, <1>5, <1>6, <1>7

\* The adapted steps at the top.
Topped(ch, d, i, s) ==
    StepSound(ch, s) /\ Crystal(s) /\ TopFine(DOMAIN d.scopes, i, s) /\ s.kind = d.steps[i].kind
TopsOk(ch, d, q) == IsSeq(q) /\ Len(q) <= Len(d.steps) /\ \A i \in DOMAIN q : Topped(ch, d, i, q[i])

\* One more of them.
LEMMA TopsMore ==
    ASSUME NEW ch, NEW d, NEW q, TopsOk(ch, d, q), NEW e, Topped(ch, d, Len(q) + 1, e), Len(q) + 1 <= Len(d.steps)
    PROVE  TopsOk(ch, d, Append(q, e))
<1>1. IsSeq(q) /\ DOMAIN q = 1..Len(q)
  BY DEF TopsOk, IsSeq
<1>2. PICK p, n : p = Append(q, e) /\ n = Len(q)
  OBVIOUS
<1>3. IsSeq(p) /\ Len(p) = n + 1 /\ n \in Nat /\ p[n + 1] = e /\ \A i \in 1..n : p[i] = q[i]
  BY <1>1, <1>2, OneMore
<1>4. DOMAIN p = 1..(n + 1)
  BY <1>3 DEF IsSeq
<1>5. \A i \in 1..(n + 1) : i \in 1..n \/ i = n + 1
  BY <1>3
<1>6. \A i \in 1..n : Topped(ch, d, i, q[i])
  BY <1>1, <1>2 DEF TopsOk
<1>7. \A i \in DOMAIN p : Topped(ch, d, i, p[i])
  BY <1>2, <1>3, <1>4, <1>5, <1>6
<1> QED
  BY <1>2, <1>3, <1>7 DEF TopsOk

\* The parallel steps among the first m, and the scopes of the definition with those made for them.
Fans(d, m) == {j \in 1..m : d.steps[j].kind = "parallel"}
ScopesNamed(d, m, sc) ==
    /\ DOMAIN sc = DOMAIN d.scopes \cup {ParallelNames[j] : j \in Fans(d, m)}
    /\ \A j \in Fans(d, m) : ParallelNames[j] \notin DOMAIN d.scopes
BodyDone(ch, kinds, s) == StepSound(ch, s) /\ Crystal(s) /\ ~BodyRefused(s, kinds)
BodiesInherited(ch, d, sc) == \A n \in DOMAIN d.scopes : \A i \in DOMAIN sc[n] : StepSound(ch, sc[n][i])
ScopesDone(ch, d, sc) == \A n \in DOMAIN d.scopes : \A i \in DOMAIN sc[n] : BodyDone(ch, ScopeBodyKinds, sc[n][i])
FansDone(ch, d, m, sc) ==
    \A j \in Fans(d, m) : \A c \in DOMAIN sc[ParallelNames[j]] : BodyDone(ch, ParallelKinds, sc[ParallelNames[j]][c])

\* One step more and the scope made for it.
LEMMA ScopesMore ==
    ASSUME NEW ch, NEW d, NEW sc, NEW n \in Nat, n + 1 <= Len(ParallelNames), NEW s, s.kind = d.steps[n + 1].kind,
           ScopesNamed(d, n, sc), FansDone(ch, d, n, sc), BodiesInherited(ch, d, sc),
           s.kind = "parallel" =>
              /\ ParallelNames[n + 1] \notin DOMAIN d.scopes
              /\ \A c \in DOMAIN s.children : BodyDone(ch, ParallelKinds, Crystallized(s.children[c]))
    PROVE  LET new == Over(sc, MadeScope(s, n + 1))
           IN  ScopesNamed(d, n + 1, new) /\ FansDone(ch, d, n + 1, new) /\ BodiesInherited(ch, d, new)
<1>1. PICK m, made, new, w : m = n + 1 /\ made = MadeScope(s, m) /\ new = Over(sc, made) /\ w = ParallelNames[m]
  OBVIOUS
<1>2. /\ DOMAIN new = DOMAIN sc \cup DOMAIN made
      /\ \A k \in DOMAIN sc : new[k] = sc[k]
      /\ \A k \in DOMAIN made : k \notin DOMAIN sc => new[k] = made[k]
  BY <1>1 DEF Over
<1>3. \A j \in Fans(d, n) : ParallelNames[j] \in DOMAIN sc
  BY DEF ScopesNamed
<1>4. \A k \in DOMAIN d.scopes : k \in DOMAIN sc
  BY DEF ScopesNamed
<1>5. BodiesInherited(ch, d, new)
  BY <1>2, <1>4 DEF BodiesInherited
<1>6. \A j \in 1..m : j \in 1..n \/ j = m
  BY <1>1
<1>7. m \in 1..m /\ \A j \in 1..n : j \in 1..m /\ j # m
  BY <1>1
<1>8. CASE s.kind # "parallel"
  <2>1. Fans(d, m) = Fans(d, n)
    BY <1>1, <1>6, <1>7, <1>8 DEF Fans
  <2>2. DOMAIN made = {}
    BY <1>1, <1>8 DEF MadeScope
  <2>3. ScopesNamed(d, m, new)
    BY <1>2, <2>1, <2>2 DEF ScopesNamed
  <2>4. FansDone(ch, d, m, new)
    BY <1>2, <1>3, <2>1 DEF FansDone
  <2> QED
    BY <1>1, <1>5, <2>3, <2>4
<1>9. CASE s.kind = "parallel"
  <2>1. Fans(d, m) = Fans(d, n) \cup {m}
    BY <1>1, <1>6, <1>7, <1>9 DEF Fans
  <2>2. DOMAIN made = {w} /\ made[w] = [c \in DOMAIN s.children |-> Crystallized(s.children[c])]
    BY <1>1, <1>9 DEF MadeScope, Synthesised
  <2>3. w \notin DOMAIN sc
    <3>1. w \notin DOMAIN d.scopes
      BY <1>1, <1>9
    <3>2. \A j \in Fans(d, n) : ParallelNames[j] # w
      <4>1. Len(ParallelNames) \in Nat /\ DOMAIN ParallelNames = 1..Len(ParallelNames)
        BY LoadAssumption
      <4>2. m \in DOMAIN ParallelNames /\ \A j \in 1..n : j \in DOMAIN ParallelNames /\ j # m
        BY <1>1, <4>1
      <4>3. \A j \in Fans(d, n) : j \in DOMAIN ParallelNames /\ j # m
        BY <4>2 DEF Fans
      <4> QED
        BY <1>1, <4>2, <4>3, LoadAssumption
    <3> QED
      BY <3>1, <3>2 DEF ScopesNamed
  <2>4. new[w] = made[w]
    BY <1>2, <2>2, <2>3
  <2>5. ScopesNamed(d, m, new)
    <3>1. DOMAIN new = DOMAIN d.scopes \cup {ParallelNames[j] : j \in Fans(d, m)}
      <4>1. PICK F : F = Fans(d, n) /\ Fans(d, m) = F \cup {m}
        BY <2>1
      <4>2. {ParallelNames[j] : j \in F \cup {m}} = {ParallelNames[j] : j \in F} \cup {w}
        BY <1>1
      <4>3. DOMAIN sc = DOMAIN d.scopes \cup {ParallelNames[j] : j \in F}
        BY <4>1 DEF ScopesNamed
      <4>4. DOMAIN new = DOMAIN sc \cup {w}
        BY <1>2, <2>2
      <4> QED
        BY <4>1, <4>2, <4>3, <4>4
    <3>2. \A j \in Fans(d, m) : ParallelNames[j] \notin DOMAIN d.scopes
      BY <1>1, <1>9, <2>1 DEF ScopesNamed
    <3> QED
      BY <3>1, <3>2 DEF ScopesNamed
  <2>6. FansDone(ch, d, m, new)
    <3>1. ASSUME NEW j \in Fans(d, m), NEW c \in DOMAIN new[ParallelNames[j]]
          PROVE  BodyDone(ch, ParallelKinds, new[ParallelNames[j]][c])
      <4>1. CASE j \in Fans(d, n)
        BY <1>2, <1>3, <3>1, <4>1 DEF FansDone
      <4>2. CASE j = m
        <5>1. new[ParallelNames[j]] = [x \in DOMAIN s.children |-> Crystallized(s.children[x])]
          BY <1>1, <2>2, <2>4, <4>2
        <5> QED
          BY <1>9, <3>1, <5>1
      <4> QED
        BY <2>1, <4>1, <4>2
    <3> QED
      BY <3>1 DEF FansDone
  <2> QED
    BY <1>1, <1>5, <2>5, <2>6
<1> QED
  BY <1>8, <1>9

\* A body that is done stays so when the fallbacks are filled in again.
LEMMA BodyStays ==
    ASSUME NEW ch, NEW kinds, NEW s, BodyDone(ch, kinds, s)
    PROVE  BodyDone(ch, kinds, Crystallized(s))
BY CrystalSound, BodyRunsAgain DEF BodyDone

\* All the bodies are adapted.
LEMMA ScopesAdapted ==
    ASSUME NEW ch, NEW sc, NEW m,
           ScopesNamed(def, m, sc), FansDone(ch, def, m, sc), BodiesInherited(ch, def, sc),
           \A n \in ScopeNames : \A i \in DOMAIN sc[n] : ScopeStepOk(sc[n][i])
    PROVE  LET new == [n \in DOMAIN sc |-> [i \in DOMAIN sc[n] |-> Crystallized(sc[n][i])]]
           IN  ScopesNamed(def, m, new) /\ FansDone(ch, def, m, new) /\ ScopesDone(ch, def, new)
<1>1. PICK new : new = [n \in DOMAIN sc |-> [i \in DOMAIN sc[n] |-> Crystallized(sc[n][i])]]
  OBVIOUS
<1>2. DOMAIN new = DOMAIN sc /\ \A n \in DOMAIN sc : DOMAIN new[n] = DOMAIN sc[n]
      /\ \A i \in DOMAIN sc[n] : new[n][i] = Crystallized(sc[n][i])
  BY <1>1
<1>3. ScopesNamed(def, m, new)
  BY <1>2 DEF ScopesNamed
<1>4. FansDone(ch, def, m, new)
  <2>1. \A j \in Fans(def, m) : ParallelNames[j] \in DOMAIN sc
    BY DEF ScopesNamed
  <2>2. \A j \in Fans(def, m) : \A c \in DOMAIN sc[ParallelNames[j]] :
            BodyDone(ch, ParallelKinds, Crystallized(sc[ParallelNames[j]][c]))
    BY BodyStays DEF FansDone
  <2> QED
    BY <1>2, <2>1, <2>2 DEF FansDone
<1>5. ScopesDone(ch, def, new)
  <2>1. SUFFICES ASSUME NEW n \in DOMAIN def.scopes, NEW i \in DOMAIN new[n]
                 PROVE  BodyDone(ch, ScopeBodyKinds, new[n][i])
    BY DEF ScopesDone
  <2>2. n \in DOMAIN sc
    BY DEF ScopesNamed
  <2>3. i \in DOMAIN sc[n] /\ new[n][i] = Crystallized(sc[n][i])
    BY <1>2, <2>2
  <2>4. PICK s : s = sc[n][i] /\ StepSound(ch, s) /\ ScopeStepOk(s)
    BY <2>3 DEF BodiesInherited, ScopeNames
  <2>5. s.kind \in ScopeBodyKinds /\ Adaptable(s, ScopeNames, "scoped")
    BY <2>4 DEF ScopeStepOk
  <2>6. ~BodyRefused(Crystallized(s), ScopeBodyKinds)
    BY <2>4, <2>5, BodyRuns
  <2> QED
    BY <2>3, <2>4, <2>6, CrystalSound DEF BodyDone
<1> QED
  BY <1>1, <1>3, <1>4, <1>5

\* Where the pipeline is.
Early == {"user", "project", "workflow", "validate", "inherit", "invalid"}
ChainAt(pc, d, ly) ==
    IF pc = "user" THEN Embedded
    ELSE IF pc = "project" THEN UserChain(ly)
    ELSE IF pc = "workflow" THEN ProjectChain(ly) ELSE FullChain(d, ly)

\* The inductive invariant of loading: what the adapter has made so far is such that the engine
\* refuses none of it.
LoadInv ==
    /\ \E l \in Loads : def = l.def /\ layers = l.layers
    /\ lpc \in Early \cup {"adapt", "env", "running", "refused", "ended"} /\ step \in 1..(Len(def.steps) + 1)
    /\ chain = ChainAt(lpc, def, layers)
    /\ lpc \in Early => step = 1 /\ harness = [steps |-> << >>, scopes |-> << >>]
    /\ TopsOk(chain, def, harness.steps)
    /\ lpc = "adapt" => Len(harness.steps) = step - 1 /\ BodiesInherited(chain, def, harness.scopes)
    /\ lpc \in {"adapt", "env", "running", "ended"} =>
          /\ ScopesNamed(def, Len(harness.steps), harness.scopes)
          /\ FansDone(chain, def, Len(harness.steps), harness.scopes)
    /\ lpc \in {"env", "running", "ended"} =>
          Len(harness.steps) = Len(def.steps) /\ ScopesDone(chain, def, harness.scopes)
    /\ reached \in Seq({"continue", "fail", "failed"})

\* What the assumption says of the definition that is loaded.
LEMMA LoadedIs ==
    ASSUME \E l \in Loads : def = l.def /\ layers = l.layers
    PROVE  /\ AreDeepSteps(def.steps) /\ \A n \in ScopeNames : AreDeepSteps(def.scopes[n])
           /\ IsFiniteSet(ScopeNames) /\ Len(def.steps) <= Len(ParallelNames)
           /\ Len(def.steps) \in Nat /\ DOMAIN def.steps = 1..Len(def.steps)
           /\ Len(ParallelNames) \in Nat /\ DOMAIN ParallelNames = 1..Len(ParallelNames)
           /\ ChainOk(FullChain(def, layers))
           /\ \A k \in {"temperature", "max_tokens"} : FullChain(def, layers).chat[k][1] = HighestLayer(k)
<1>1. PICK l \in Loads : def = l.def /\ layers = l.layers
  OBVIOUS
<1>2. /\ AreDeepSteps(def.steps) /\ \A n \in ScopeNames : AreDeepSteps(def.scopes[n])
      /\ IsFiniteSet(ScopeNames) /\ Len(def.steps) <= Len(ParallelNames)
  BY <1>1, LoadAssumption DEF ScopeNames
<1>3. ParallelNames \in Seq(Range(ParallelNames)) /\ def.steps \in Seq(Range(def.steps))
  BY <1>2, LoadAssumption DEF AreDeepSteps, AreSteps
<1>4. Len(def.steps) \in Nat /\ DOMAIN def.steps = 1..Len(def.steps)
      /\ Len(ParallelNames) \in Nat /\ DOMAIN ParallelNames = 1..Len(ParallelNames)
  BY <1>3
<1>5. \A k : HighestLayer(k) = Highest(def, layers, k)
  BY DEF HighestLayer, Highest
<1>6. ChainOk(FullChain(def, layers))
      /\ \A k \in {"temperature", "max_tokens"} : FullChain(def, layers).chat[k][1] = Highest(def, layers, k)
  BY <1>1, ChainIs
<1> QED
  BY <1>2, <1>4, <1>5, <1>6

\* It holds at first.
LEMMA LoadInvInit ==
    LoadInit => LoadInv
<1> SUFFICES ASSUME LoadInit PROVE LoadInv
  OBVIOUS
<1>1. /\ \E l \in Loads : def = l.def /\ layers = l.layers
      /\ chain = Embedded /\ lpc = "user" /\ step = 1
      /\ harness = [steps |-> << >>, scopes |-> << >>] /\ reached = << >>
  BY DEF LoadInit
<1>2. Len(def.steps) \in Nat
  BY <1>1, LoadedIs
<1>3. step \in 1..(Len(def.steps) + 1)
  BY <1>1, <1>2
<1>4. harness.steps = << >> /\ IsSeq(<< >>) /\ Len(<< >>) = 0 /\ DOMAIN << >> = {}
  BY <1>1 DEF IsSeq
<1>5. TopsOk(chain, def, harness.steps)
  BY <1>2, <1>4 DEF TopsOk
<1>6. chain = ChainAt(lpc, def, layers) /\ lpc \in Early
  BY <1>1 DEF ChainAt, Early
<1>7. reached \in Seq({"continue", "fail", "failed"})
  BY <1>1
<1> QED
  BY <1>1, <1>3, <1>5, <1>6, <1>7 DEF LoadInv

\* The layers, the validator and the checks of the workflow keep it.
LEMMA LoadInvEarly ==
    ASSUME LoadInv,
           \/ LoadLayer("user", layers.user, "project") \/ LoadLayer("project", layers.project, "workflow")
           \/ ApplyDefaults \/ Validate
    PROVE  LoadInv'
<1>1. /\ lpc \in {"user", "project", "workflow", "validate"} /\ lpc' \in Early
      /\ UNCHANGED <<def, layers, step, harness, reached>>
  BY DEF LoadLayer, ApplyDefaults, Validate, loadInputs, Early
<1>2. chain' = ChainAt(lpc', def, layers)
  <2>1. chain = ChainAt(lpc, def, layers)
    BY DEF LoadInv
  <2>2. CASE LoadLayer("user", layers.user, "project")
    BY <2>1, <2>2 DEF LoadLayer, ChainAt, UserChain, LayerOn
  <2>3. CASE LoadLayer("project", layers.project, "workflow")
    BY <2>1, <2>3 DEF LoadLayer, ChainAt, ProjectChain, LayerOn
  <2>4. CASE ApplyDefaults
    BY <2>1, <2>4 DEF ApplyDefaults, ChainAt, FullChain
  <2>5. CASE Validate
    BY <2>1, <2>5 DEF Validate, ChainAt
  <2> QED
    BY <2>2, <2>3, <2>4, <2>5
<1>3. harness = [steps |-> << >>, scopes |-> << >>] /\ step = 1
  BY <1>1 DEF LoadInv, Early
<1>4. harness.steps = << >> /\ IsSeq(<< >>) /\ Len(<< >>) = 0 /\ DOMAIN << >> = {} /\ Len(def.steps) \in Nat
  BY <1>3, LoadedIs DEF IsSeq, LoadInv
<1>5. TopsOk(chain', def, harness.steps)
  BY <1>4 DEF TopsOk
<1>6. lpc' \notin {"adapt", "env", "running", "ended"}
  BY <1>1 DEF Early
<1>7. PICK c, p, d, ly, h : c = chain' /\ p = lpc' /\ d = def /\ ly = layers /\ h = harness
  OBVIOUS
<1>8. chain' = ChainAt(lpc', def', layers') /\ TopsOk(chain', def', harness'.steps)
  BY <1>1, <1>2, <1>5, <1>7
<1> QED
  BY <1>1, <1>3, <1>6, <1>8 DEF LoadInv

\* The chain is whole once the layers are read.
LEMMA ChainWhole ==
    ASSUME LoadInv, lpc \notin {"user", "project", "workflow"}
    PROVE  chain = FullChain(def, layers) /\ ChainOk(chain)
<1>1. chain = FullChain(def, layers)
  BY DEF LoadInv, ChainAt
<1>2. ChainOk(FullChain(def, layers))
  BY LoadedIs DEF LoadInv
<1> QED
  BY <1>1, <1>2

\* The copy that has inherited keeps it.
LEMMA LoadInvInherit ==
    ASSUME LoadInv, Inherit
    PROVE  LoadInv'
<1>1. lpc = "inherit" /\ lpc' = "adapt" /\ UNCHANGED <<def, layers, chain, step, reached>>
      /\ harness' = [steps |-> << >>, scopes |-> [n \in ScopeNames |-> InheritAll(def.scopes[n])]]
  BY DEF Inherit, loadInputs
<1>2. chain = FullChain(def, layers) /\ ChainOk(chain)
  BY <1>1, ChainWhole
<1>3. step = 1 /\ Len(def.steps) \in Nat
  BY <1>1, LoadedIs DEF LoadInv, Early
<1>4. PICK sc : sc = [n \in ScopeNames |-> InheritAll(def.scopes[n])]
  OBVIOUS
<1>5. harness'.steps = << >> /\ harness'.scopes = sc
  BY <1>1, <1>4
<1>6. IsSeq(<< >>) /\ Len(<< >>) = 0 /\ DOMAIN << >> = {}
  BY DEF IsSeq
<1>7. TopsOk(chain, def, << >>)
  BY <1>3, <1>6 DEF TopsOk
<1>8. BodiesInherited(chain, def, sc)
  <2>1. SUFFICES ASSUME NEW n \in ScopeNames, NEW i \in DOMAIN sc[n] PROVE StepSound(chain, sc[n][i])
    BY DEF BodiesInherited, ScopeNames
  <2>2. PICK q : q = def.scopes[n] /\ AreDeepSteps(q)
    BY LoadedIs DEF LoadInv
  <2>3. sc[n] = [j \in DOMAIN q |-> InheritedDeep(q[j])]
    BY <1>4, <2>2 DEF InheritAll
  <2>4. i \in DOMAIN q /\ sc[n][i] = InheritedDeep(q[i])
    BY <2>3
  <2>5. IsStep(q[i]) /\ AreSteps(q[i].children)
    BY <2>2, <2>4 DEF AreDeepSteps, AreSteps
  <2>6. StepSound(chain, InheritedDeep(q[i]))
    BY <1>2, <2>5, DeepSound
  <2> QED
    BY <2>4, <2>6
<1>9. Fans(def, 0) = {}
  BY DEF Fans
<1>10. ScopesNamed(def, 0, sc) /\ FansDone(chain, def, 0, sc)
  BY <1>4, <1>9 DEF ScopesNamed, FansDone, ScopeNames
<1>11. PICK c, d, ly : c = chain /\ d = def /\ ly = layers
  OBVIOUS
<1>12. /\ TopsOk(chain', def', harness'.steps) /\ BodiesInherited(chain', def', harness'.scopes)
       /\ ScopesNamed(def', 0, harness'.scopes) /\ FansDone(chain', def', 0, harness'.scopes)
       /\ Len(harness'.steps) = 0 /\ chain' = FullChain(def', layers')
  BY <1>1, <1>2, <1>5, <1>6, <1>7, <1>8, <1>10, <1>11
<1>13. chain' = ChainAt(lpc', def', layers')
  BY <1>1, <1>12 DEF ChainAt
<1>14. Len(harness'.steps) = step' - 1 /\ step' \in 1..(Len(def'.steps) + 1)
  BY <1>1, <1>3, <1>12
<1>15. (\E l \in Loads : def' = l.def /\ layers' = l.layers) /\ reached' \in Seq({"continue", "fail", "failed"})
  BY <1>1 DEF LoadInv
<1>16. lpc' \notin Early /\ lpc' \notin {"env", "running", "ended"}
  BY <1>1 DEF Early
<1> QED
  BY <1>1, <1>12, <1>13, <1>14, <1>15, <1>16 DEF LoadInv

\* The definition, the layers and the chain stay as they are.
LEMMA InputsKept ==
    ASSUME LoadInv, UNCHANGED <<def, layers, chain>>, lpc \notin {"user", "project", "workflow"},
           lpc' \notin {"user", "project", "workflow"}
    PROVE  (\E l \in Loads : def' = l.def /\ layers' = l.layers) /\ chain' = ChainAt(lpc', def', layers')
<1>1. chain = FullChain(def, layers)
  BY ChainWhole
<1>2. PICK c, d, ly : c = chain /\ d = def /\ ly = layers
  OBVIOUS
<1>3. chain' = FullChain(def', layers')
  BY <1>1, <1>2
<1> QED
  BY <1>3 DEF LoadInv, ChainAt

\* The next step at the top, accepted.
LEMMA TopAdapted ==
    ASSUME LoadInv, lpc = "adapt", step <= Len(def.steps), TopOk(InheritedDeep(def.steps[step]), step)
    PROVE  LET s == InheritedDeep(def.steps[step])
               q == Append(harness.steps, AdaptedStep(s, step))
               sc == Over(harness.scopes, MadeScope(s, step))
           IN  /\ TopsOk(chain, def, q) /\ Len(q) = step
               /\ BodiesInherited(chain, def, sc) /\ ScopesNamed(def, step, sc) /\ FansDone(chain, def, step, sc)
<1>1. PICK n, d, o, s, q, sc : n = Len(harness.steps) /\ d = def /\ o = def.steps[step]
                               /\ s = InheritedDeep(def.steps[step]) /\ q = harness.steps /\ sc = harness.scopes
  OBVIOUS
<1>2. /\ TopsOk(chain, d, q) /\ n = step - 1 /\ BodiesInherited(chain, d, sc)
      /\ ScopesNamed(d, n, sc) /\ FansDone(chain, d, n, sc)
  BY <1>1 DEF LoadInv
<1>3. Len(d.steps) \in Nat /\ DOMAIN d.steps = 1..Len(d.steps) /\ Len(d.steps) <= Len(ParallelNames)
      /\ Len(ParallelNames) \in Nat /\ AreDeepSteps(d.steps)
  BY <1>1, LoadedIs DEF LoadInv
<1>4. step \in 1..Len(d.steps) /\ n \in Nat /\ step = n + 1 /\ n + 1 <= Len(d.steps) /\ n + 1 <= Len(ParallelNames)
  <2>1. step \in 1..(Len(d.steps) + 1) /\ step <= Len(d.steps)
    BY <1>1 DEF LoadInv
  <2> QED
    BY <1>2, <1>3, <2>1
<1>5. ChainOk(chain)
  BY ChainWhole
<1>6. IsStep(o) /\ AreSteps(o.children)
  BY <1>1, <1>3, <1>4 DEF AreDeepSteps, AreSteps
<1>7. StepSound(chain, s) /\ s.kind = o.kind /\ DOMAIN s.children = DOMAIN o.children
      /\ \A c \in DOMAIN o.children : StepSound(chain, s.children[c])
  BY <1>1, <1>5, <1>6, DeepSound
<1>8. TopOk(s, step)
  BY <1>1
<1>9. PICK e : e = AdaptedStep(s, step)
  OBVIOUS
<1>10. TopFine(ScopeNames, step, e) /\ StepSound(chain, e) /\ Crystal(e) /\ e.kind = s.kind
  BY <1>7, <1>8, <1>9, TopRuns
<1>11. Topped(chain, d, n + 1, e)
  BY <1>1, <1>4, <1>7, <1>10 DEF Topped, ScopeNames
<1>12. TopsOk(chain, d, Append(q, e))
  BY <1>1, <1>2, <1>4, <1>11, TopsMore
<1>13. Len(Append(q, e)) = step
  <2>1. IsSeq(q)
    BY <1>2 DEF TopsOk
  <2>2. Len(Append(q, e)) = Len(q) + 1
    BY <2>1, OneMore
  <2> QED
    BY <1>1, <1>4, <2>2
<1>14. s.kind = "parallel" =>
          /\ ParallelNames[n + 1] \notin DOMAIN d.scopes
          /\ \A c \in DOMAIN s.children : BodyDone(chain, ParallelKinds, Crystallized(s.children[c]))
  <2>1. SUFFICES ASSUME s.kind = "parallel"
                 PROVE  /\ ParallelNames[n + 1] \notin DOMAIN d.scopes
                        /\ \A c \in DOMAIN s.children : BodyDone(chain, ParallelKinds, Crystallized(s.children[c]))
    OBVIOUS
  <2>2. ParallelOk(s, step)
    BY <1>8, <2>1 DEF TopOk
  <2>3. ParallelNames[n + 1] \notin DOMAIN d.scopes
    BY <1>1, <1>4, <2>2 DEF ParallelOk, Synthesised, ScopeNames
  <2>4. ASSUME NEW c \in DOMAIN s.children PROVE BodyDone(chain, ParallelKinds, Crystallized(s.children[c]))
    <3>1. PICK b : b = s.children[c] /\ StepSound(chain, b)
      BY <1>7
    <3>2. b.kind \in ParallelKinds /\ Adaptable(b, {}, "scoped")
      BY <2>2, <3>1 DEF ParallelOk, ParallelSub
    <3>3. ~BodyRefused(Crystallized(b), ParallelKinds)
      BY <3>1, <3>2, BodyRuns
    <3> QED
      BY <3>1, <3>3, CrystalSound DEF BodyDone
  <2> QED
    BY <2>3, <2>4
<1>15. s.kind = d.steps[n + 1].kind
  BY <1>1, <1>4, <1>7
<1>16. LET new == Over(sc, MadeScope(s, n + 1))
       IN  ScopesNamed(d, n + 1, new) /\ FansDone(chain, d, n + 1, new) /\ BodiesInherited(chain, d, new)
  BY <1>2, <1>4, <1>14, <1>15, ScopesMore
<1> QED
  BY <1>1, <1>4, <1>9, <1>12, <1>13, <1>16

\* The adapter of the top keeps the invariant.
LEMMA LoadInvTop ==
    ASSUME LoadInv, AdaptTop
    PROVE  LoadInv'
<1>1. lpc = "adapt" /\ step <= Len(def.steps) /\ UNCHANGED <<def, layers, chain, reached>>
  BY DEF AdaptTop, loadInputs
<1>2. PICK s : s = InheritedDeep(def.steps[step])
  OBVIOUS
<1>3. CASE TopOk(s, step)
  <2>1. PICK q, sc : q = Append(harness.steps, AdaptedStep(s, step)) /\ sc = Over(harness.scopes, MadeScope(s, step))
    OBVIOUS
  <2>2. harness' = [steps |-> q, scopes |-> sc] /\ step' = step + 1 /\ lpc' = "adapt"
    BY <1>1, <1>2, <1>3, <2>1 DEF AdaptTop
  <2>3. /\ TopsOk(chain, def, q) /\ Len(q) = step
        /\ BodiesInherited(chain, def, sc) /\ ScopesNamed(def, step, sc) /\ FansDone(chain, def, step, sc)
    BY <1>1, <1>2, <1>3, <2>1, TopAdapted
  <2>4. (\E l \in Loads : def' = l.def /\ layers' = l.layers) /\ chain' = ChainAt(lpc', def', layers')
    BY <1>1, <2>2, InputsKept
  <2>5. PICK c, d, m : c = chain /\ d = def /\ m = step
    OBVIOUS
  <2>6. harness'.steps = q /\ harness'.scopes = sc
    BY <2>2
  <2>7. /\ TopsOk(chain', def', harness'.steps) /\ Len(harness'.steps) = m
        /\ BodiesInherited(chain', def', harness'.scopes)
        /\ ScopesNamed(def', m, harness'.scopes) /\ FansDone(chain', def', m, harness'.scopes)
    BY <1>1, <2>3, <2>5, <2>6
  <2>8. Len(def.steps) \in Nat /\ step \in 1..(Len(def.steps) + 1)
    BY LoadedIs DEF LoadInv
  <2>9. step' \in 1..(Len(def.steps) + 1) /\ step' - 1 = m
    BY <1>1, <2>2, <2>5, <2>8
  <2>10. lpc' \notin Early /\ lpc' \notin {"env", "running", "ended"}
    BY <2>2 DEF Early
  <2>11. reached' \in Seq({"continue", "fail", "failed"})
    BY <1>1 DEF LoadInv
  <2> QED
    BY <1>1, <2>2, <2>4, <2>7, <2>9, <2>10, <2>11 DEF LoadInv
<1>4. CASE ~TopOk(s, step)
  <2>1. lpc' = "refused" /\ UNCHANGED <<harness, step>>
    BY <1>1, <1>2, <1>4 DEF AdaptTop
  <2>2. (\E l \in Loads : def' = l.def /\ layers' = l.layers) /\ chain' = ChainAt(lpc', def', layers')
    BY <1>1, <2>1, InputsKept
  <2>3. TopsOk(chain', def', harness'.steps)
    <3>1. PICK c, d, q : c = chain /\ d = def /\ q = harness /\ TopsOk(c, d, q.steps)
      BY DEF LoadInv
    <3> QED
      BY <1>1, <2>1, <3>1
  <2>4. lpc' \notin Early
    BY <2>1 DEF Early
  <2>5. step' \in 1..(Len(def'.steps) + 1) /\ reached' \in Seq({"continue", "fail", "failed"})
    BY <1>1, <2>1 DEF LoadInv
  <2> QED
    BY <2>1, <2>2, <2>3, <2>4, <2>5 DEF LoadInv
<1> QED
  BY <1>3, <1>4

\* So does the adapter of the scopes.
LEMMA LoadInvScopes ==
    ASSUME LoadInv, AdaptScopes
    PROVE  LoadInv'
<1>1. lpc = "adapt" /\ step > Len(def.steps) /\ UNCHANGED <<def, layers, chain, step, reached>>
  BY DEF AdaptScopes, loadInputs
<1>2. PICK c, d, h, m : c = chain /\ d = def /\ h = harness /\ m = Len(harness.steps)
  OBVIOUS
<1>3. TopsOk(c, d, h.steps) /\ ScopesNamed(d, m, h.scopes) /\ FansDone(c, d, m, h.scopes) /\ BodiesInherited(c, d, h.scopes)
  BY <1>1, <1>2 DEF LoadInv
<1>4. (\E l \in Loads : def' = l.def /\ layers' = l.layers)
      /\ (lpc' \notin {"user", "project", "workflow"} => chain' = ChainAt(lpc', def', layers'))
  BY <1>1, InputsKept DEF LoadInv
<1>5. step' \in 1..(Len(def'.steps) + 1) /\ reached' \in Seq({"continue", "fail", "failed"})
  BY <1>1 DEF LoadInv
<1>6. CASE \A n \in ScopeNames : \A i \in DOMAIN harness.scopes[n] : ScopeStepOk(harness.scopes[n][i])
  <2>1. PICK sc : sc = [n \in DOMAIN h.scopes |-> [i \in DOMAIN h.scopes[n] |-> Crystallized(h.scopes[n][i])]]
    OBVIOUS
  <2>2. lpc' = "env" /\ harness' = [steps |-> h.steps, scopes |-> sc]
    BY <1>2, <1>6, <2>1 DEF AdaptScopes
  <2>3. ScopesNamed(def, m, sc) /\ FansDone(c, def, m, sc) /\ ScopesDone(c, def, sc)
    <3>1. /\ ScopesNamed(def, m, h.scopes) /\ FansDone(c, def, m, h.scopes) /\ BodiesInherited(c, def, h.scopes)
          /\ \A n \in ScopeNames : \A i \in DOMAIN h.scopes[n] : ScopeStepOk(h.scopes[n][i])
      BY <1>2, <1>3, <1>6
    <3> QED
      BY <2>1, <3>1, ScopesAdapted
  <2>4. m = Len(d.steps) /\ m = Len(h.steps)
    <3>1. m = step - 1 /\ step \in 1..(Len(d.steps) + 1) /\ step > Len(d.steps) /\ Len(d.steps) \in Nat
      BY <1>1, <1>2, LoadedIs DEF LoadInv
    <3> QED
      BY <1>2, <3>1
  <2>5. harness'.steps = h.steps /\ harness'.scopes = sc
    BY <2>2
  <2>6. /\ TopsOk(chain', def', harness'.steps) /\ Len(harness'.steps) = m /\ m = Len(def'.steps)
        /\ ScopesNamed(def', m, harness'.scopes) /\ FansDone(chain', def', m, harness'.scopes)
        /\ ScopesDone(chain', def', harness'.scopes)
    BY <1>1, <1>2, <1>3, <2>3, <2>4, <2>5
  <2>7. lpc' \notin Early /\ lpc' # "adapt" /\ lpc' \notin {"user", "project", "workflow"}
    BY <2>2 DEF Early
  <2> QED
    BY <1>4, <1>5, <2>2, <2>6, <2>7 DEF LoadInv
<1>7. CASE ~ \A n \in ScopeNames : \A i \in DOMAIN harness.scopes[n] : ScopeStepOk(harness.scopes[n][i])
  <2>1. lpc' = "refused" /\ UNCHANGED harness
    BY <1>7 DEF AdaptScopes
  <2>2. TopsOk(chain', def', harness'.steps)
    BY <1>1, <1>2, <1>3, <2>1
  <2>3. lpc' \notin Early /\ lpc' \notin {"user", "project", "workflow"}
    BY <2>1 DEF Early
  <2> QED
    BY <1>4, <1>5, <2>1, <2>2, <2>3 DEF LoadInv
<1> QED
  BY <1>6, <1>7

\* A step that leaves the adapted workflow alone keeps it.
LEMMA LoadInvKept ==
    ASSUME LoadInv, UNCHANGED <<def, layers, chain, harness>>, lpc \in {"env", "running"},
           lpc' \in {"running", "refused", "ended"}, step' \in 1..(Len(def.steps) + 1),
           reached' \in Seq({"continue", "fail", "failed"})
    PROVE  LoadInv'
<1>1. PICK c, d, h, m : c = chain /\ d = def /\ h = harness /\ m = Len(harness.steps)
  OBVIOUS
<1>2. /\ TopsOk(c, d, h.steps) /\ ScopesNamed(d, m, h.scopes) /\ FansDone(c, d, m, h.scopes)
      /\ Len(h.steps) = Len(d.steps) /\ ScopesDone(c, d, h.scopes)
  BY <1>1 DEF LoadInv
<1>3. lpc \notin {"user", "project", "workflow"} /\ lpc' \notin {"user", "project", "workflow"}
  OBVIOUS
<1>4. (\E l \in Loads : def' = l.def /\ layers' = l.layers) /\ chain' = ChainAt(lpc', def', layers')
  BY <1>3, InputsKept
<1>5. /\ TopsOk(chain', def', harness'.steps)
      /\ ScopesNamed(def', Len(harness'.steps), harness'.scopes)
      /\ FansDone(chain', def', Len(harness'.steps), harness'.scopes)
      /\ Len(harness'.steps) = Len(def'.steps) /\ ScopesDone(chain', def', harness'.scopes)
  BY <1>1, <1>2
<1>6. lpc' \notin Early /\ lpc' # "adapt" /\ step' \in 1..(Len(def'.steps) + 1)
  BY DEF Early
<1> QED
  BY <1>4, <1>5, <1>6 DEF LoadInv

\* The engine refuses no step of the adapted workflow.
LEMMA NothingRefused ==
    ASSUME LoadInv, lpc = "running", NEW i \in DOMAIN harness.steps
    PROVE  Outcomes(harness.steps[i]) \subseteq {"continue", "fail", "failed"}
<1>1. PICK s, m, sc : s = harness.steps[i] /\ m = Len(harness.steps) /\ sc = harness.scopes
  OBVIOUS
<1>2. /\ TopsOk(chain, def, harness.steps) /\ ScopesNamed(def, m, sc) /\ FansDone(chain, def, m, sc)
      /\ ScopesDone(chain, def, sc)
  BY <1>1 DEF LoadInv
<1>3. Topped(chain, def, i, s) /\ DOMAIN harness.steps = 1..m
  BY <1>1, <1>2 DEF TopsOk, IsSeq
<1>4. StepSound(chain, s) /\ TopFine(DOMAIN def.scopes, i, s) /\ s.kind = def.steps[i].kind
  BY <1>3 DEF Topped
<1>5. s.kind \in Containers => ~ContainerRefused(s)
  <2>1. SUFFICES ASSUME s.kind \in Containers PROVE ~ContainerRefused(s)
    OBVIOUS
  <2>2. CASE s.kind = "parallel"
    <3>1. i \in Fans(def, m) /\ s.scope = ParallelNames[i]
      BY <1>3, <1>4, <2>2 DEF Fans, TopFine
    <3>2. s.scope \in DOMAIN sc
      BY <1>2, <3>1 DEF ScopesNamed
    <3>3. \A c \in DOMAIN sc[s.scope] : ~BodyRefused(sc[s.scope][c], ParallelKinds)
      BY <1>2, <3>1 DEF FansDone, BodyDone
    <3> QED
      BY <1>1, <2>2, <3>2, <3>3 DEF ContainerRefused
  <2>3. CASE s.kind \in {"call", "repeat", "map"}
    <3>1. s.scope \in DOMAIN def.scopes /\ (s.kind = "map" => s.text # "none")
      BY <1>4, <2>3 DEF TopFine
    <3>2. s.scope \in DOMAIN sc
      BY <1>2, <3>1 DEF ScopesNamed
    <3>3. \A c \in DOMAIN sc[s.scope] : ~BodyRefused(sc[s.scope][c], ScopeBodyKinds)
      BY <1>2, <3>1 DEF ScopesDone, BodyDone
    <3> QED
      BY <1>1, <2>3, <3>1, <3>2, <3>3 DEF ContainerRefused
  <2> QED
    BY <2>1, <2>2, <2>3 DEF Containers
<1>6. ~StepRefused(s)
  BY <1>4, <1>5 DEF StepRefused, TopFine, Containers
<1>7. s.kind = "gate" => \A p \in BOOLEAN : OutcomeFor(s, p, "top") \in {"continue", "fail"}
  BY <1>4 DEF TopFine, OutcomeFor
<1>8. Outcomes(s) = {"failed"} \cup IF s.kind = "gate" THEN {OutcomeFor(s, p, "top") : p \in BOOLEAN} ELSE {"continue"}
  BY <1>6 DEF Outcomes
<1> QED
  BY <1>1, <1>7, <1>8

\* Every step keeps the invariant.
LEMMA LoadInvNext ==
    ASSUME LoadInv, [LoadNext]_loadVars
    PROVE  LoadInv'
<1>1. CASE \/ LoadLayer("user", layers.user, "project") \/ LoadLayer("project", layers.project, "workflow")
           \/ ApplyDefaults \/ Validate
  BY <1>1, LoadInvEarly
<1>2. CASE Inherit
  BY <1>2, LoadInvInherit
<1>3. CASE AdaptTop
  BY <1>3, LoadInvTop
<1>4. CASE AdaptScopes
  BY <1>4, LoadInvScopes
<1>5. CASE ValidateWorkflow
  <2>1. UNCHANGED <<def, layers, chain, harness>> /\ lpc = "env" /\ lpc' \in {"running", "refused"} /\ step' = 1
        /\ reached' = reached
    BY <1>5 DEF ValidateWorkflow, loadInputs
  <2>2. step' \in 1..(Len(def.steps) + 1)
    BY <2>1, LoadedIs DEF LoadInv
  <2>3. reached' \in Seq({"continue", "fail", "failed"})
    BY <2>1 DEF LoadInv
  <2> QED
    BY <2>1, <2>2, <2>3, LoadInvKept
<1>6. CASE Dispatch
  <2>1. UNCHANGED <<def, layers, chain, harness>> /\ lpc = "running" /\ step <= Len(harness.steps)
    BY <1>6 DEF Dispatch, loadInputs
  <2>2. PICK out \in Outcomes(harness.steps[step]) :
           /\ reached' = Append(reached, out)
           /\ IF out = "continue" THEN step' = step + 1 /\ UNCHANGED lpc ELSE lpc' = "ended" /\ UNCHANGED step
    BY <1>6 DEF Dispatch
  <2>3. Len(harness.steps) = Len(def.steps) /\ Len(def.steps) \in Nat /\ step \in 1..(Len(def.steps) + 1)
        /\ DOMAIN harness.steps = 1..Len(harness.steps)
    BY <2>1, LoadedIs DEF LoadInv, TopsOk, IsSeq
  <2>4. step \in DOMAIN harness.steps /\ step \in Nat
    BY <2>1, <2>3
  <2>5. out \in {"continue", "fail", "failed"}
    BY <2>1, <2>2, <2>4, NothingRefused
  <2>6. reached' \in Seq({"continue", "fail", "failed"})
    BY <2>2, <2>5 DEF LoadInv
  <2>7. step' \in 1..(Len(def.steps) + 1)
    BY <2>1, <2>2, <2>3, <2>4
  <2>8. lpc' \in {"running", "ended"}
    BY <2>1, <2>2
  <2> QED
    BY <2>1, <2>6, <2>7, <2>8, LoadInvKept
<1>7. CASE UNCHANGED loadVars
  <2>1. UNCHANGED <<def, layers, chain, lpc, step, harness, reached>>
    BY <1>7 DEF loadVars
  <2>2. PICK c, d, ly, h, p, r : c = chain /\ d = def /\ ly = layers /\ h = harness /\ p = lpc /\ r = reached
    OBVIOUS
  <2> QED
    BY <2>1, <2>2 DEF LoadInv
<1> QED
  BY <1>1, <1>2, <1>3, <1>4, <1>5, <1>6, <1>7 DEF LoadNext, LoadEnded

\* Every adapted step is sound, and a chat step among them is filled in.
LEMMA AdaptedSound ==
    ASSUME LoadInv, Past, NEW s \in AllAdapted
    PROVE  StepSound(chain, s) /\ Crystal(s)
<1>1. PICK m, q, sc : m = Len(harness.steps) /\ q = harness.steps /\ sc = harness.scopes
  OBVIOUS
<1>2. /\ TopsOk(chain, def, q) /\ ScopesNamed(def, m, sc) /\ FansDone(chain, def, m, sc)
      /\ ScopesDone(chain, def, sc)
  BY <1>1 DEF LoadInv, Past
<1>3. CASE s \in Range(q)
  <2>1. PICK i \in DOMAIN q : s = q[i]
    BY <1>3 DEF Range
  <2> QED
    BY <1>2, <2>1 DEF TopsOk, Topped
<1>4. CASE \E n \in DOMAIN sc : s \in Range(sc[n])
  <2>1. PICK n \in DOMAIN sc : s \in Range(sc[n])
    BY <1>4
  <2>2. PICK i \in DOMAIN sc[n] : s = sc[n][i]
    BY <2>1 DEF Range
  <2>3. n \in DOMAIN def.scopes \/ \E j \in Fans(def, m) : n = ParallelNames[j]
    BY <1>2 DEF ScopesNamed
  <2>4. CASE n \in DOMAIN def.scopes
    BY <1>2, <2>2, <2>4 DEF ScopesDone, BodyDone
  <2>5. CASE \E j \in Fans(def, m) : n = ParallelNames[j]
    BY <1>2, <2>2, <2>5 DEF FansDone, BodyDone
  <2> QED
    BY <2>3, <2>4, <2>5
<1> QED
  BY <1>1, <1>3, <1>4 DEF AllAdapted

\* So the settings of the adapted steps come from where they may.
LEMMA SettingsSafe ==
    ASSUME LoadInv
    PROVE  HighestLayerWins /\ ProviderBound /\ PermissionsExplicit
<1> SUFFICES ASSUME Past PROVE HighestLayerWins /\ ProviderBound /\ PermissionsExplicit
  BY DEF HighestLayerWins, ProviderBound, PermissionsExplicit
<1>1. chain = FullChain(def, layers) /\ ChainOk(chain)
  BY ChainWhole DEF Past
<1>2. \A k \in {"temperature", "max_tokens"} : chain.chat[k][1] = HighestLayer(k)
  BY <1>1, LoadedIs DEF LoadInv
<1>3. PICK l : l = chain.chat /\ "provider" \in DOMAIN l
  BY <1>1 DEF ChainOk
<1>4. ASSUME NEW s \in AllAdapted, s.kind = "chat", NEW k \in {"temperature", "max_tokens"}, s.cfg[k][1] # "step"
      PROVE  s.cfg[k][1] \in {HighestLayer(k), "adapter"}
  <2>1. ComesFrom(l, s.cfg) /\ FilledIn(s.cfg)
    BY <1>3, <1>4, AdaptedSound DEF StepSound, Crystal
  <2>2. k \in DOMAIN s.cfg
    BY <2>1 DEF FilledIn
  <2>3. s.cfg[k][1] = "adapter" \/ s.cfg[k][1] = l[k][1]
    BY <1>4, <2>1, <2>2 DEF ComesFrom
  <2> QED
    BY <1>2, <1>3, <2>3
<1>5. ASSUME NEW s \in AllAdapted, s.kind = "chat", s.cfg["provider"][1] = "step",
             s.cfg["provider"][2] # Val(l, "provider"), NEW k \in ProviderBoundKeys \cap DOMAIN s.cfg
      PROVE  s.cfg[k][1] \in {"step", "adapter"}
  <2>1. Bound(l, s.cfg) /\ FilledIn(s.cfg)
    BY <1>3, <1>5, AdaptedSound DEF StepSound, Crystal
  <2>2. "provider" \in DOMAIN s.cfg /\ s.cfg["provider"][2] # "null"
    BY <2>1 DEF FilledIn, Has
  <2>3. s.cfg["provider"][2] # l["provider"][2]
    <3>1. CASE l["provider"][2] = "null"
      BY <2>2, <3>1
    <3>2. CASE l["provider"][2] # "null"
      BY <1>3, <1>5, <3>2 DEF Val, Has
    <3> QED
      BY <3>1, <3>2
  <2>4. OwnProvider(l, s.cfg)
    BY <1>5, <2>2, <2>3 DEF OwnProvider
  <2> QED
    BY <2>1, <2>4 DEF Bound
<1>6. ASSUME NEW s \in AllAdapted, s.kind = "agent", Val(s.cfg, "permissions") = "skip"
      PROVE  s.cfg["permissions"][1] = "step"
  <2>1. OwnPermissions(s.cfg)
    BY <1>6, AdaptedSound DEF StepSound
  <2>2. "permissions" \in DOMAIN s.cfg
    BY <1>6 DEF Val, Has
  <2> QED
    BY <2>1, <2>2 DEF OwnPermissions
<1>7. HighestLayerWins
  BY <1>4 DEF HighestLayerWins
<1>8. ProviderBound
  BY <1>3, <1>5 DEF ProviderBound
<1>9. PermissionsExplicit
  BY <1>6 DEF PermissionsExplicit
<1> QED
  BY <1>7, <1>8, <1>9

\* The adapted workflow has the scopes of the definition and one for each parallel step.
LEMMA ScopesCounted ==
    ASSUME NEW d, NEW m \in Nat, m <= Len(ParallelNames), NEW sc, ScopesNamed(d, m, sc), IsFiniteSet(DOMAIN d.scopes)
    PROVE  Cardinality(DOMAIN sc) = Cardinality(DOMAIN d.scopes) + Cardinality(Fans(d, m))
<1>1. PICK F, A, B : F = Fans(d, m) /\ A = DOMAIN d.scopes /\ B = {ParallelNames[j] : j \in F}
  OBVIOUS
<1>2. IsFiniteSet(F) /\ F \subseteq 1..m
  <2>1. F \in SUBSET (1..m)
    BY <1>1 DEF Fans
  <2>2. IsFiniteSet(1..m)
    <3>1. 1 \in Int /\ m \in Int
      OBVIOUS
    <3> QED
      BY <3>1, FS_Interval, Zenon
  <2> QED
    BY <2>1, <2>2, FS_Subset
<1>3. PICK f : f = [j \in F |-> ParallelNames[j]]
  OBVIOUS
<1>4. f \in Surjection(F, B)
  BY <1>1, <1>3 DEF Surjection
<1>5. f \in Injection(F, B)
  <2>1. DOMAIN ParallelNames = 1..Len(ParallelNames) /\ Len(ParallelNames) \in Nat
    BY LoadAssumption
  <2>2. \A j \in F : j \in DOMAIN ParallelNames
    BY <1>2, <2>1
  <2>3. \A i, j \in F : f[i] = f[j] => i = j
    BY <1>3, <2>2, LoadAssumption
  <2>4. f \in [F -> B]
    BY <1>1, <1>3
  <2> QED
    BY <2>3, <2>4 DEF Injection, IsInjective
<1>6. IsFiniteSet(B) /\ Cardinality(B) = Cardinality(F)
  BY <1>2, <1>4, <1>5, FS_Surjection
<1>7. A \cap B = {}
  BY <1>1 DEF ScopesNamed
<1>8. Cardinality(A \cup B) = Cardinality(A) + Cardinality(B) - Cardinality(A \cap B)
  BY <1>1, <1>6, FS_Union
<1>9. Cardinality(A \cap B) = 0 /\ Cardinality(A) \in Nat /\ Cardinality(B) \in Nat
  BY <1>1, <1>6, <1>7, FS_EmptySet, FS_CardinalityType
<1>10. DOMAIN sc = A \cup B
  BY <1>1 DEF ScopesNamed
<1> QED
  BY <1>1, <1>6, <1>8, <1>9, <1>10

\* The invariant gives the types.
LEMMA LoadTyped ==
    ASSUME LoadInv
    PROVE  LoadTypeOK
<1>1. PICK q, m : q = harness.steps /\ m = Len(def.steps)
  OBVIOUS
<1>2. TopsOk(chain, def, q)
  BY <1>1 DEF LoadInv
<1>3. Len(q) <= m /\ \A i \in DOMAIN q : q[i].kind \in StepTypes
  BY <1>1, <1>2 DEF TopsOk, Topped, StepSound
<1>4. m \in Nat /\ m <= Len(ParallelNames) /\ DOMAIN def.steps = 1..m /\ IsFiniteSet(DOMAIN def.scopes)
  BY <1>1, LoadedIs DEF LoadInv, ScopeNames
<1>5. step \in 1..m + 1
  BY <1>1 DEF LoadInv
<1>6. ASSUME lpc = "running"
      PROVE  /\ Len(q) = m
             /\ Cardinality(DOMAIN harness.scopes) =
                   Cardinality(ScopeNames) + Cardinality({i \in DOMAIN def.steps : def.steps[i].kind = "parallel"})
  <2>1. Len(q) = m /\ ScopesNamed(def, m, harness.scopes)
    BY <1>1, <1>6 DEF LoadInv
  <2>2. Fans(def, m) = {i \in DOMAIN def.steps : def.steps[i].kind = "parallel"}
    BY <1>4 DEF Fans
  <2>3. Cardinality(DOMAIN harness.scopes) = Cardinality(DOMAIN def.scopes) + Cardinality(Fans(def, m))
    BY <1>4, <2>1, ScopesCounted
  <2> QED
    BY <2>1, <2>2, <2>3 DEF ScopeNames
<1>7. lpc \in {"user", "project", "workflow", "validate", "inherit", "adapt", "env", "running",
               "invalid", "refused", "ended"}
  BY DEF LoadInv, Early
<1> QED
  BY <1>1, <1>3, <1>5, <1>6, <1>7 DEF LoadTypeOK

\* What is loaded is safe (execute of src/cli/commands.rs with the configuration layers, the
\* validator and the adapter under it): whatever the files say, a workflow the adapter accepts is
\* not refused by the engine at any step, a workflow is called circular exactly when a scope
\* reaches itself, and every setting of an adapted step is its own or that of the layer that may
\* set it.
THEOREM LoadIsSafe == LoadSpec => []LoadSafe
<1>1. LoadInit => LoadInv
  BY LoadInvInit
<1>2. LoadInv /\ [LoadNext]_loadVars => LoadInv'
  BY LoadInvNext
<1>3. LoadInv => LoadSafe
  <2>1. SUFFICES ASSUME LoadInv PROVE LoadSafe
    OBVIOUS
  <2>2. CycleExact
    BY <2>1, LoadedIs, CyclesAreExact DEF LoadInv
  <2>3. AcceptedRuns
    <3>1. reached \in Seq({"continue", "fail", "failed"})
      BY <2>1 DEF LoadInv
    <3> QED
      BY <3>1 DEF AcceptedRuns
  <2> QED
    BY <2>1, <2>2, <2>3, LoadTyped, SettingsSafe DEF LoadSafe
<1> QED
  BY <1>1, <1>2, <1>3, PTL DEF LoadSpec
-----------------------------------------------------------------------------
(* The progress view of a run (module Command).                            *)

Lines == {"iteration", "scoped", "step", "output"} \X Nat
LogEvents == {"started", "completed", "scoped", "done", "failed", "signal"} \X Nat
Views == [iteration : Nat, pending : Nat, screen : Seq(Lines)]

\* One line more of a screen, and the function that takes them all.
NextLine(s, j, q) == IF Line(s[j]) THEN Append(q, s[j]) ELSE q
TakesLines(s, g) == g = [j \in 0..Len(s) |-> IF j = 0 THEN << >> ELSE NextLine(s, j, g[j - 1])]

\* What LinesOf computes.
LEMMA LinesOfAre ==
    ASSUME NEW s \in Seq(Lines)
    PROVE  \E g : /\ g[0] = << >> /\ \A j \in 1..Len(s) : g[j] = NextLine(s, j, g[j - 1])
                  /\ \A j \in 0..Len(s) : g[j] \in Seq(Lines)
                  /\ LinesOf(s) = g[Len(s)]
<1>0. PICK N, V, b : N = Len(s) /\ V = Seq(Lines) /\ b = << >>
  OBVIOUS
<1>1. N \in Nat /\ b \in V /\ \A j \in 1..N : s[j] \in Lines
  BY <1>0
<1> DEFINE turn == [p \in (1..N) \X V |-> NextLine(s, p[1], p[2])]
<1>2. StepsIn(N, V, turn)
  <2>1. \A k \in 1..N : \A v \in V : NextLine(s, k, v) \in V
    BY <1>0, <1>1 DEF NextLine
  <2> QED
    BY <2>1 DEF StepsIn
<1>3. \A k \in 1..N : \A v \in V : turn[<<k, v>>] = NextLine(s, k, v)
  OBVIOUS
<1> HIDE DEF turn
<1>4. PICK g : RecFrom(b, N, V, turn, g)
  BY <1>1, <1>2, RecExists
<1>5. g \in [0..N -> V] /\ g[0] = b /\ \A k \in 1..N : g[k] = turn[<<k, g[k - 1]>>]
  BY <1>4 DEF RecFrom
<1>6. \A k \in 1..N : k - 1 \in 0..N /\ g[k - 1] \in V /\ g[k] = NextLine(s, k, g[k - 1])
  <2>1. \A k \in 1..N : k - 1 \in 0..N
    BY <1>1
  <2>2. \A k \in 1..N : g[k - 1] \in V
    BY <1>5, <2>1
  <2> QED
    BY <1>3, <1>5, <2>1, <2>2
<1>7. TakesLines(s, g)
  <2>1. \A k \in 0..N : g[k] = IF k = 0 THEN b ELSE NextLine(s, k, g[k - 1])
    <3>1. \A k \in 0..N : k = 0 \/ k \in 1..N
      BY <1>1
    <3> QED
      BY <1>5, <1>6, <3>1
  <2>2. g = [k \in 0..N |-> g[k]]
    BY <1>5
  <2>3. g = [k \in 0..N |-> IF k = 0 THEN b ELSE NextLine(s, k, g[k - 1])]
    BY <2>1, <2>2
  <2> QED
    BY <1>0, <1>1, <2>3 DEF TakesLines
<1>8. LinesOf(s) = (CHOOSE f : TakesLines(s, f))[Len(s)]
  BY DEF LinesOf, TakesLines, NextLine
<1>9. PICK f : f = (CHOOSE h : TakesLines(s, h)) /\ TakesLines(s, f)
  BY <1>7
<1>10. f[0] = b /\ \A k \in 1..N : f[k] = NextLine(s, k, f[k - 1])
  <2>1. 0 \in 0..N /\ \A k \in 1..N : k \in 0..N /\ k # 0
    BY <1>1
  <2>2. f = [k \in 0..N |-> IF k = 0 THEN b ELSE NextLine(s, k, f[k - 1])]
    BY <1>0, <1>1, <1>9 DEF TakesLines
  <2> QED
    BY <2>1, <2>2
<1>11. \A k \in 0..N : f[k] = g[k]
  <2>1. GoAlike(N, f, g)
    BY <1>5, <1>6, <1>10 DEF GoAlike
  <2>2. Alike(N, f, g)
    BY <1>1, <2>1, RecAgree
  <2> QED
    BY <2>2 DEF Alike
<1>12. f[0] = << >> /\ LinesOf(s) = f[Len(s)]
  BY <1>0, <1>8, <1>9, <1>10
<1>13. \A k \in 0..N : f[k] \in Seq(Lines)
  BY <1>0, <1>5, <1>11
<1> QED
  BY <1>0, <1>10, <1>12, <1>13

\* An empty screen has no lines.
LEMMA LinesOfNone ==
    LinesOf(<< >>) = << >>
<1>1. << >> \in Seq(Lines) /\ Len(<< >>) = 0
  OBVIOUS
<1> QED
  BY <1>1, LinesOfAre

\* A line more is taken if it shows an event.
LEMMA LinesOfMore ==
    ASSUME NEW s \in Seq(Lines), NEW l \in Lines
    PROVE  LinesOf(Append(s, l)) = IF Line(l) THEN Append(LinesOf(s), l) ELSE LinesOf(s)
<1>1. PICK t, n : t = Append(s, l) /\ n = Len(s)
  OBVIOUS
<1>2. t \in Seq(Lines) /\ Len(t) = n + 1 /\ n \in Nat /\ t[n + 1] = l /\ \A j \in 1..n : t[j] = s[j]
  BY <1>1
<1>3. PICK f : f[0] = << >> /\ (\A j \in 1..n : f[j] = NextLine(s, j, f[j - 1])) /\ LinesOf(s) = f[n]
  BY <1>1, LinesOfAre
<1>4. PICK g : g[0] = << >> /\ (\A j \in 1..(n + 1) : g[j] = NextLine(t, j, g[j - 1])) /\ LinesOf(t) = g[n + 1]
  BY <1>2, LinesOfAre
<1>5. f[n] = g[n]
  <2>1. GoAlike(n, f, g)
    <3>1. \A j \in 1..n : j \in 1..(n + 1)
      BY <1>2
    <3>2. \A j \in 1..n : \A q : NextLine(t, j, q) = NextLine(s, j, q)
      BY <1>2 DEF NextLine
    <3> QED
      BY <1>3, <1>4, <3>1, <3>2 DEF GoAlike
  <2>2. n \in Nat
    BY <1>2
  <2>3. Alike(n, f, g)
    BY <2>1, <2>2, RecAgree
  <2>4. n \in 0..n
    BY <2>2
  <2> QED
    BY <2>3, <2>4 DEF Alike
<1>6. g[n + 1] = NextLine(t, n + 1, g[n])
  <2>1. n + 1 \in 1..(n + 1) /\ (n + 1) - 1 = n
    BY <1>2
  <2> QED
    BY <1>4, <2>1
<1>7. LinesOf(t) = NextLine(t, n + 1, LinesOf(s))
  BY <1>3, <1>4, <1>5, <1>6
<1>8. NextLine(t, n + 1, LinesOf(s)) = IF Line(l) THEN Append(LinesOf(s), l) ELSE LinesOf(s)
  BY <1>2 DEF NextLine
<1> QED
  BY <1>1, <1>7, <1>8

\* The outputs of a screen are under the steps of the events they come from.
Placed(l, s) ==
    \A i \in DOMAIN s : s[i][1] = "output" => i - 1 \in DOMAIN s /\ s[i][2] \in DOMAIN l /\ s[i - 1] = <<"step", l[s[i][2]][2]>>

\* A line that is not an output leaves them there.
LEMMA PlacedMore ==
    ASSUME NEW l, NEW s \in Seq(Lines), NEW x \in Lines, Placed(l, s), x[1] # "output"
    PROVE  Placed(l, Append(s, x))
<1>1. PICK t, n : t = Append(s, x) /\ n = Len(s)
  OBVIOUS
<1>2. n \in Nat /\ DOMAIN s = 1..n /\ DOMAIN t = 1..(n + 1) /\ t[n + 1] = x /\ \A i \in 1..n : t[i] = s[i]
  BY <1>1
<1>3. ASSUME NEW i \in DOMAIN t, t[i][1] = "output"
      PROVE  i - 1 \in DOMAIN t /\ t[i][2] \in DOMAIN l /\ t[i - 1] = <<"step", l[t[i][2]][2]>>
  <2>1. i \in 1..n /\ t[i] = s[i] /\ s[i][1] = "output"
    BY <1>2, <1>3
  <2>2. i - 1 \in DOMAIN s /\ s[i][2] \in DOMAIN l /\ s[i - 1] = <<"step", l[s[i][2]][2]>>
    BY <1>2, <2>1 DEF Placed
  <2>3. i - 1 \in DOMAIN t /\ t[i - 1] = s[i - 1]
    BY <1>2, <2>2
  <2> QED
    BY <2>1, <2>2, <2>3
<1>4. Placed(l, t)
  BY <1>3 DEF Placed
<1> QED
  BY <1>1, <1>4

\* An output after the line of its step is in its place.
LEMMA PlacedOutput ==
    ASSUME NEW l, NEW s \in Seq(Lines), NEW a \in Nat, NEW k \in Nat, Placed(l, s), k \in DOMAIN l, l[k][2] = a
    PROVE  Placed(l, Append(Append(s, <<"step", a>>), <<"output", k>>))
<1>0. PICK x, y : x = <<"step", a>> /\ y = <<"output", k>>
  OBVIOUS
<1>1. x \in Lines /\ y \in Lines /\ x[1] # "output" /\ y[2] = k
  BY <1>0 DEF Lines
<1>2. PICK t, n, u : t = Append(s, x) /\ n = Len(t) /\ u = Append(t, y)
  OBVIOUS
<1>3. Placed(l, t) /\ t \in Seq(Lines) /\ t[Len(s) + 1] = x /\ n = Len(s) + 1 /\ Len(s) \in Nat
  BY <1>1, <1>2, PlacedMore
<1>4. n \in Nat \ {0} /\ t[n] = x /\ DOMAIN t = 1..n /\ DOMAIN u = 1..(n + 1) /\ u[n + 1] = y /\ \A i \in 1..n : u[i] = t[i]
  BY <1>1, <1>2, <1>3
<1>5. ASSUME NEW i \in DOMAIN u, u[i][1] = "output"
      PROVE  i - 1 \in DOMAIN u /\ u[i][2] \in DOMAIN l /\ u[i - 1] = <<"step", l[u[i][2]][2]>>
  <2>1. CASE i = n + 1
    <3>1. i - 1 = n /\ n \in 1..n /\ n \in DOMAIN u /\ u[i] = y /\ u[n] = x
      BY <1>4, <2>1
    <3> QED
      BY <1>0, <1>1, <3>1
  <2>2. CASE i \in 1..n
    <3>1. u[i] = t[i] /\ t[i][1] = "output"
      BY <1>4, <1>5, <2>2
    <3>2. i - 1 \in DOMAIN t /\ t[i][2] \in DOMAIN l /\ t[i - 1] = <<"step", l[t[i][2]][2]>>
      BY <1>3, <1>4, <2>2, <3>1 DEF Placed
    <3>3. i - 1 \in DOMAIN u /\ u[i - 1] = t[i - 1]
      BY <1>4, <3>2
    <3> QED
      BY <3>1, <3>2, <3>3
  <2> QED
    BY <1>4, <2>1, <2>2
<1>6. Placed(l, u)
  BY <1>5 DEF Placed
<1> QED
  BY <1>0, <1>2, <1>6

\* A view with a line more.
Put(v, x) == [iteration |-> v.iteration, pending |-> v.pending, screen |-> Append(v.screen, x)]
\* What is shown of v is what w shows.
Shows(v, w) == v.iteration = w.iteration /\ LinesOf(v.screen) = w.screen

\* Show, for a log and the kinds of the steps.
ShowIn(l, st, v, k) ==
    CASE l[k][1] = "scoped" ->
            LET h == Header(v, l[k][2]) IN [h EXCEPT !.screen = Append(@, <<"scoped", k>>)]
      [] l[k][1] = "done" ->
            [v EXCEPT !.iteration = 0, !.pending = IF st[l[k][2]] = "cmd" THEN k ELSE @]
      [] OTHER -> v

\* A line of an event is put on both screens.
LEMMA PutGood ==
    ASSUME NEW v \in Views, NEW x \in Lines, Line(x)
    PROVE  /\ [v EXCEPT !.screen = Append(@, x)] = Put(v, x) /\ Put(v, x) \in Views /\ Put(v, x).pending = v.pending
           /\ \A l : Placed(l, v.screen) => Placed(l, Put(v, x).screen)
           /\ \A w \in Views : Shows(v, w) => Shows(Put(v, x), Put(w, x))
<1>1. v.iteration \in Nat /\ v.pending \in Nat /\ v.screen \in Seq(Lines)
  BY DEF Views
<1>2. [v EXCEPT !.screen = Append(@, x)] = Put(v, x)
  <2>1. PICK t : t = Append(v.screen, x)
    OBVIOUS
  <2>2. [v EXCEPT !.screen = t] = [iteration |-> v.iteration, pending |-> v.pending, screen |-> t]
    BY DEF Views
  <2> QED
    BY <2>1, <2>2 DEF Put
<1>3. PICK s : s = Append(v.screen, x)
  OBVIOUS
<1>4. s \in Seq(Lines)
  BY <1>1, <1>3
<1>5. Put(v, x) = [iteration |-> v.iteration, pending |-> v.pending, screen |-> s]
  BY <1>3 DEF Put
<1>6. Put(v, x) \in Views /\ Put(v, x).pending = v.pending /\ Put(v, x).screen = s /\ Put(v, x).iteration = v.iteration
  BY <1>1, <1>4, <1>5 DEF Views
<1>7. ASSUME NEW l, Placed(l, v.screen) PROVE Placed(l, s)
  <2>1. x[1] # "output"
    BY DEF Line
  <2> QED
    BY <1>1, <1>3, <1>7, <2>1, PlacedMore
<1>8. ASSUME NEW w \in Views, Shows(v, w) PROVE Shows(Put(v, x), Put(w, x))
  <2>1. LinesOf(s) = Append(LinesOf(v.screen), x)
    BY <1>1, <1>3, LinesOfMore
  <2>2. Put(w, x).screen = Append(w.screen, x) /\ Put(w, x).iteration = w.iteration
    BY DEF Put
  <2> QED
    BY <1>6, <1>8, <2>1, <2>2 DEF Shows
<1> QED
  BY <1>2, <1>6, <1>7, <1>8

\* The header of an iteration is put on both screens, or on none.
LEMMA HeaderGood ==
    ASSUME NEW v \in Views, NEW i \in Nat
    PROVE  /\ Header(v, i) \in Views /\ Header(v, i).pending = v.pending
           /\ \A l : Placed(l, v.screen) => Placed(l, Header(v, i).screen)
           /\ \A w \in Views : Shows(v, w) => Shows(Header(v, i), Header(w, i))
<1>1. PICK x : x = <<"iteration", i>>
  OBVIOUS
<1>2. x \in Lines /\ Line(x)
  BY <1>1 DEF Lines, Line
<1>3. ASSUME NEW u \in Views, u.iteration # i
      PROVE  Header(u, i) = [iteration |-> i, pending |-> u.pending, screen |-> Put(u, x).screen]
             /\ Header(u, i) \in Views /\ Header(u, i).pending = u.pending /\ Header(u, i).screen = Put(u, x).screen
             /\ Header(u, i).iteration = i
  <2>1. Header(u, i) = [iteration |-> i, pending |-> u.pending, screen |-> Append(u.screen, x)]
    BY <1>1, <1>3 DEF Header, Views
  <2>2. Put(u, x).screen = Append(u.screen, x) /\ Put(u, x) \in Views /\ u.pending \in Nat
    BY <1>2, PutGood DEF Put, Views
  <2>3. PICK s : s = Put(u, x).screen
    OBVIOUS
  <2>4. s \in Seq(Lines)
    BY <2>2, <2>3 DEF Views
  <2>5. Header(u, i) = [iteration |-> i, pending |-> u.pending, screen |-> s]
    BY <2>1, <2>2, <2>3
  <2> QED
    BY <2>2, <2>3, <2>4, <2>5 DEF Views
<1>4. CASE v.iteration = i
  <2>1. Header(v, i) = v
    BY <1>4 DEF Header
  <2>2. \A w \in Views : Shows(v, w) => Header(w, i) = w
    BY <1>4 DEF Header, Shows
  <2> QED
    BY <2>1, <2>2
<1>5. CASE v.iteration # i
  <2>1. Header(v, i) \in Views /\ Header(v, i).pending = v.pending /\ Header(v, i).screen = Put(v, x).screen
        /\ Header(v, i).iteration = i
    BY <1>3, <1>5
  <2>2. \A l : Placed(l, v.screen) => Placed(l, Header(v, i).screen)
    BY <1>2, <2>1, PutGood
  <2>3. ASSUME NEW w \in Views, Shows(v, w) PROVE Shows(Header(v, i), Header(w, i))
    <3>1. w.iteration # i
      BY <1>5, <2>3 DEF Shows
    <3>2. Header(w, i).screen = Put(w, x).screen /\ Header(w, i).iteration = i
      BY <1>3, <3>1
    <3>3. LinesOf(Put(v, x).screen) = Put(w, x).screen
      <4>1. Shows(Put(v, x), Put(w, x))
        BY <1>2, <2>3, PutGood
      <4> QED
        BY <4>1 DEF Shows
    <3> QED
      BY <2>1, <3>2, <3>3 DEF Shows
  <2> QED
    BY <2>1, <2>2, <2>3
<1> QED
  BY <1>4, <1>5

\* What an event does to a view: only a finished step leaves an output pending, and the same is put on both screens.
LEMMA ShowGood ==
    ASSUME NEW l \in Seq(LogEvents), NEW st, NEW k \in 1..Len(l), NEW v \in Views
    PROVE  /\ ShowIn(l, st, v, k) \in Views
           /\ ShowIn(l, st, v, k).pending \in {v.pending, k}
           /\ l[k][1] # "done" => ShowIn(l, st, v, k).pending = v.pending
           /\ \A m : Placed(m, v.screen) => Placed(m, ShowIn(l, st, v, k).screen)
           /\ \A w \in Views : Shows(v, w) => Shows(ShowIn(l, st, v, k), ShowIn(l, st, w, k))
<1>0. l[k] \in LogEvents /\ k \in Nat
  OBVIOUS
<1>1. l[k][2] \in Nat
  BY <1>0 DEF LogEvents
<1>2. CASE l[k][1] = "scoped"
  <2>1. PICK x, i : x = <<"scoped", k>> /\ i = l[k][2]
    OBVIOUS
  <2>2. x \in Lines /\ Line(x) /\ i \in Nat
    BY <1>0, <1>1, <2>1 DEF Lines, Line
  <2>3. ASSUME NEW u \in Views
        PROVE  ShowIn(l, st, u, k) = Put(Header(u, i), x) /\ Header(u, i) \in Views
    <3>1. ShowIn(l, st, u, k) = [Header(u, i) EXCEPT !.screen = Append(@, x)]
      BY <1>2, <2>1 DEF ShowIn
    <3>2. Header(u, i) \in Views
      BY <2>2, HeaderGood
    <3> QED
      BY <2>2, <3>1, <3>2, PutGood
  <2>4. PICK h : h = Header(v, i)
    OBVIOUS
  <2>5. h \in Views /\ h.pending = v.pending /\ ShowIn(l, st, v, k) = Put(h, x)
    BY <2>2, <2>3, <2>4, HeaderGood
  <2>6. Put(h, x) \in Views /\ Put(h, x).pending = h.pending
    BY <2>2, <2>5, PutGood
  <2>7. \A m : Placed(m, v.screen) => Placed(m, Put(h, x).screen)
    <3>1. \A m : Placed(m, v.screen) => Placed(m, h.screen)
      BY <2>2, <2>4, HeaderGood
    <3>2. \A m : Placed(m, h.screen) => Placed(m, Put(h, x).screen)
      BY <2>2, <2>5, PutGood
    <3> QED
      BY <3>1, <3>2
  <2>8. ASSUME NEW w \in Views, Shows(v, w) PROVE Shows(Put(h, x), ShowIn(l, st, w, k))
    <3>1. PICK g : g = Header(w, i)
      OBVIOUS
    <3>2. g \in Views /\ ShowIn(l, st, w, k) = Put(g, x)
      BY <2>3, <3>1
    <3>3. Shows(h, g)
      BY <2>2, <2>4, <2>8, <3>1, HeaderGood
    <3>4. Shows(Put(h, x), Put(g, x))
      BY <2>2, <2>5, <3>2, <3>3, PutGood
    <3> QED
      BY <3>2, <3>4
  <2> QED
    BY <2>5, <2>6, <2>7, <2>8
<1>3. CASE l[k][1] = "done"
  <2>1. ASSUME NEW u \in Views
        PROVE  \E p \in {u.pending, k} : ShowIn(l, st, u, k) = [iteration |-> 0, pending |-> p, screen |-> u.screen]
    <3>1. PICK p : p = IF st[l[k][2]] = "cmd" THEN k ELSE u.pending
      OBVIOUS
    <3>2. ShowIn(l, st, u, k) = [u EXCEPT !.iteration = 0, !.pending = IF st[l[k][2]] = "cmd" THEN k ELSE @]
      BY <1>3 DEF ShowIn
    <3>3. [u EXCEPT !.iteration = 0, !.pending = IF st[l[k][2]] = "cmd" THEN k ELSE @]
            = [iteration |-> 0, pending |-> p, screen |-> u.screen]
      <4>1. [u EXCEPT !.iteration = 0, !.pending = p] = [iteration |-> 0, pending |-> p, screen |-> u.screen]
        <5>1. PICK a : a = [u EXCEPT !.iteration = 0]
          OBVIOUS
        <5>2. a = [iteration |-> 0, pending |-> u.pending, screen |-> u.screen]
          BY <5>1 DEF Views
        <5>3. [a EXCEPT !.pending = p] = [iteration |-> 0, pending |-> p, screen |-> u.screen]
          BY <5>2
        <5>4. [u EXCEPT !.iteration = 0, !.pending = p] = [a EXCEPT !.pending = p]
          BY <5>1
        <5> QED
          BY <5>3, <5>4
      <4>2. [u EXCEPT !.iteration = 0, !.pending = IF st[l[k][2]] = "cmd" THEN k ELSE @]
              = [u EXCEPT !.iteration = 0, !.pending = p]
        BY <3>1
      <4> QED
        BY <4>1, <4>2
    <3> QED
      BY <3>1, <3>2, <3>3
  <2>2. PICK p \in {v.pending, k} : ShowIn(l, st, v, k) = [iteration |-> 0, pending |-> p, screen |-> v.screen]
    BY <2>1
  <2>3. p \in Nat /\ v.screen \in Seq(Lines)
    BY <1>0, <2>2 DEF Views
  <2>4. ShowIn(l, st, v, k) \in Views /\ ShowIn(l, st, v, k).pending = p /\ ShowIn(l, st, v, k).screen = v.screen
        /\ ShowIn(l, st, v, k).iteration = 0
    BY <2>2, <2>3 DEF Views
  <2>5. ASSUME NEW w \in Views, Shows(v, w) PROVE Shows(ShowIn(l, st, v, k), ShowIn(l, st, w, k))
    <3>1. PICK q : ShowIn(l, st, w, k) = [iteration |-> 0, pending |-> q, screen |-> w.screen]
      BY <2>1
    <3>2. ShowIn(l, st, w, k).screen = w.screen /\ ShowIn(l, st, w, k).iteration = 0
      BY <3>1
    <3> QED
      BY <2>4, <2>5, <3>2 DEF Shows
  <2> QED
    BY <1>3, <2>2, <2>4, <2>5
<1>4. CASE l[k][1] # "scoped" /\ l[k][1] # "done"
  <2>1. \A u : ShowIn(l, st, u, k) = u
    BY <1>4 DEF ShowIn
  <2> QED
    BY <2>1
<1> QED
  BY <1>2, <1>3, <1>4

\* The events of a log shown one after the other.
Goes(l, st, first, n, f) == \A j \in 1..n : f[j] = ShowIn(l, st, f[j - 1], first + j)
ShowsAs(v, first, n, f) == f = [j \in 0..n |-> IF j = 0 THEN v ELSE Show(f[j - 1], first + j)]

\* What ShownFrom computes.
LEMMA ShownIs ==
    ASSUME log \in Seq(LogEvents), NEW v \in Views, NEW first \in Nat, NEW n \in Nat, first + n <= Len(log)
    PROVE  \E f : /\ f[0] = v /\ Goes(log, inv.steps, first, n, f) /\ ShownFrom(v, first, n) = f[n]
                  /\ \A j \in 0..n : f[j] \in Views
<1>0. PICK l, st : l = log /\ st = inv.steps
  OBVIOUS
<1>1. l \in Seq(LogEvents) /\ Len(l) \in Nat /\ \A j \in 1..n : first + j \in 1..Len(l)
  BY <1>0
<1>2. \A u, k : Show(u, k) = ShowIn(l, st, u, k)
  BY <1>0 DEF Show, ShowIn
<1> DEFINE turn == [p \in (1..n) \X Views |-> ShowIn(l, st, p[2], first + p[1])]
<1>3. StepsIn(n, Views, turn)
  <2>1. \A k \in 1..n : \A u \in Views : ShowIn(l, st, u, first + k) \in Views
    BY <1>1, ShowGood
  <2> QED
    BY <2>1 DEF StepsIn
<1>4. \A k \in 1..n : \A u \in Views : turn[<<k, u>>] = ShowIn(l, st, u, first + k)
  OBVIOUS
<1> HIDE DEF turn
<1>5. PICK g : RecFrom(v, n, Views, turn, g)
  BY <1>3, RecExists
<1>6. g \in [0..n -> Views] /\ g[0] = v /\ \A k \in 1..n : g[k] = turn[<<k, g[k - 1]>>]
  BY <1>5 DEF RecFrom
<1>7. \A k \in 1..n : k - 1 \in 0..n /\ g[k - 1] \in Views /\ g[k] = ShowIn(l, st, g[k - 1], first + k)
  <2>1. \A k \in 1..n : k - 1 \in 0..n
    OBVIOUS
  <2>2. \A k \in 1..n : g[k - 1] \in Views
    BY <1>6, <2>1
  <2> QED
    BY <1>4, <1>6, <2>1, <2>2
<1>8. ShowsAs(v, first, n, g)
  <2>1. \A k \in 0..n : g[k] = IF k = 0 THEN v ELSE Show(g[k - 1], first + k)
    <3>1. \A k \in 0..n : k = 0 \/ k \in 1..n
      OBVIOUS
    <3> QED
      BY <1>2, <1>6, <1>7, <3>1
  <2>2. g = [k \in 0..n |-> g[k]]
    BY <1>6
  <2>3. g = [k \in 0..n |-> IF k = 0 THEN v ELSE Show(g[k - 1], first + k)]
    BY <2>1, <2>2
  <2> QED
    BY <2>3 DEF ShowsAs
<1>9. ShownFrom(v, first, n) = (CHOOSE f : ShowsAs(v, first, n, f))[n]
  BY DEF ShownFrom, ShowsAs
<1>10. PICK f : f = (CHOOSE h : ShowsAs(v, first, n, h)) /\ ShowsAs(v, first, n, f)
  BY <1>8
<1>11. f[0] = v /\ \A k \in 1..n : f[k] = ShowIn(l, st, f[k - 1], first + k)
  <2>1. 0 \in 0..n /\ \A k \in 1..n : k \in 0..n /\ k # 0
    OBVIOUS
  <2>2. f = [k \in 0..n |-> IF k = 0 THEN v ELSE Show(f[k - 1], first + k)]
    BY <1>10 DEF ShowsAs
  <2>3. f[0] = v /\ \A k \in 1..n : f[k] = Show(f[k - 1], first + k)
    BY <2>1, <2>2
  <2> QED
    BY <1>2, <2>3
<1>12. \A k \in 0..n : f[k] = g[k]
  <2>1. GoAlike(n, f, g)
    BY <1>6, <1>7, <1>11 DEF GoAlike
  <2>2. Alike(n, f, g)
    BY <2>1, RecAgree
  <2> QED
    BY <2>2 DEF Alike
<1>13. \A k \in 0..n : f[k] \in Views
  BY <1>6, <1>12
<1>14. Goes(log, inv.steps, first, n, f)
  BY <1>0, <1>11 DEF Goes
<1>15. ShownFrom(v, first, n) = f[n]
  BY <1>9, <1>10
<1> QED
  BY <1>11, <1>13, <1>14, <1>15

\* The view before anything is shown, and a view that shows what the first n events of a log come to.
Blank == [iteration |-> 0, pending |-> 0, screen |-> << >>]
Rendering(l, st, n, g) == g[0] = Blank /\ Goes(l, st, 0, n, g) /\ \A j \in 0..n : g[j] \in Views
Follows(l, st, n, v) == \A g : Rendering(l, st, n, g) => Shows(v, g[n])
NoneDone(l, a, b) == \A k \in (a + 1)..b : l[k][1] # "done"
\* l has been written on.
Extends(l, m) == l \in Seq(LogEvents) /\ m \in Seq(LogEvents) /\ Len(l) <= Len(m) /\ \A k \in 1..Len(l) : m[k] = l[k]

\* After j events: how far the pending output is, and that the outputs printed stay in place.
Gone(l, first, f, j) ==
    /\ f[0].pending <= first => f[j].pending <= first + j
    /\ \A m : Placed(m, f[0].screen) => Placed(m, f[j].screen)
    /\ NoneDone(l, first, first + j) => f[j].pending = f[0].pending

\* What going on does to the pending output and the outputs printed.
LEMMA GoesGood ==
    ASSUME NEW l \in Seq(LogEvents), NEW st, NEW first \in Nat, NEW n \in Nat, first + n <= Len(l),
           NEW f, Goes(l, st, first, n, f), \A j \in 0..n : f[j] \in Views
    PROVE  \A j \in 0..n : Gone(l, first, f, j)
<1> DEFINE Fine(j) ==
              /\ f[0].pending <= first => f[j].pending <= first + j
              /\ \A m : Placed(m, f[0].screen) => Placed(m, f[j].screen)
              /\ NoneDone(l, first, first + j) => f[j].pending = f[0].pending
           S == {j \in 0..n : Fine(j)}
<1>0. Len(l) \in Nat
  OBVIOUS
<1>1. 0 \in S
  OBVIOUS
<1>2. ASSUME NEW j \in 1..n, j - 1 \in S PROVE j \in S
  <2>1. j - 1 \in 0..n /\ j \in 0..n /\ first + j \in 1..Len(l)
    BY <1>0
  <2>2. PICK v, w, k : v = f[j - 1] /\ w = f[j] /\ k = first + j
    OBVIOUS
  <2>3. v \in Views /\ w \in Views /\ w = ShowIn(l, st, v, k) /\ k \in 1..Len(l)
    BY <2>1, <2>2 DEF Goes
  <2>4. /\ w.pending \in {v.pending, k} /\ (l[k][1] # "done" => w.pending = v.pending)
        /\ \A m : Placed(m, v.screen) => Placed(m, w.screen)
    <3>1. /\ ShowIn(l, st, v, k).pending \in {v.pending, k}
          /\ (l[k][1] # "done" => ShowIn(l, st, v, k).pending = v.pending)
          /\ \A m : Placed(m, v.screen) => Placed(m, ShowIn(l, st, v, k).screen)
      BY <2>3, ShowGood
    <3> QED
      BY <2>3, <3>1
  <2>5. Fine(j - 1)
    BY <1>2
  <2>6. f[0].pending <= first => w.pending <= first + j
    <3>1. f[0].pending <= first => v.pending <= first + (j - 1)
      BY <2>2, <2>5
    <3>2. v.pending \in Nat
      BY <2>3 DEF Views
    <3> QED
      BY <2>2, <2>4, <3>1, <3>2
  <2>7. \A m : Placed(m, f[0].screen) => Placed(m, w.screen)
    BY <2>2, <2>4, <2>5
  <2>8. ASSUME NoneDone(l, first, first + j) PROVE w.pending = f[0].pending
    <3>1. NoneDone(l, first, first + (j - 1)) /\ l[k][1] # "done"
      <4>1. k \in (first + 1)..(first + j) /\ \A i \in (first + 1)..(first + (j - 1)) : i \in (first + 1)..(first + j)
        BY <2>2
      <4> QED
        BY <2>8, <4>1 DEF NoneDone
    <3> QED
      BY <2>2, <2>4, <2>5, <3>1
  <2> QED
    BY <2>1, <2>2, <2>6, <2>7, <2>8
<1>3. Inductive(n, S)
  BY <1>1, <1>2 DEF Inductive
<1>4. 0..n \subseteq S
  <2> HIDE DEF S
  <2> QED BY <1>3, UpTo
<1> QED
  BY <1>4 DEF Gone

\* A view that follows the log goes on following it.
LEMMA GoesFollows ==
    ASSUME NEW l \in Seq(LogEvents), NEW st, NEW first \in Nat, NEW n \in Nat, first + n <= Len(l),
           NEW f, Goes(l, st, first, n, f), \A j \in 0..n : f[j] \in Views, Follows(l, st, first, f[0])
    PROVE  Follows(l, st, first + n, f[n])
<1> SUFFICES ASSUME NEW g, Rendering(l, st, first + n, g) PROVE Shows(f[n], g[first + n])
  BY DEF Follows
<1>0. Len(l) \in Nat
  OBVIOUS
<1>1. Rendering(l, st, first, g)
  <2>1. (\A j \in 0..first : j \in 0..(first + n)) /\ \A j \in 1..first : j \in 1..(first + n)
    OBVIOUS
  <2> QED
    BY <2>1 DEF Rendering, Goes
<1> DEFINE S == {j \in 0..n : Shows(f[j], g[first + j])}
<1>2. 0 \in S
  BY <1>1 DEF Follows
<1>3. ASSUME NEW j \in 1..n, j - 1 \in S PROVE j \in S
  <2>1. /\ j - 1 \in 0..n /\ j \in 0..n /\ first + j \in 1..Len(l) /\ first + j \in 1..(first + n)
        /\ first + (j - 1) = (first + j) - 1 /\ first + (j - 1) \in 0..(first + n) /\ 0 + (first + j) = first + j
    BY <1>0
  <2>2. PICK v, w, k : v = f[j - 1] /\ w = g[first + (j - 1)] /\ k = first + j
    OBVIOUS
  <2>3. v \in Views /\ w \in Views /\ Shows(v, w)
    BY <1>3, <2>1, <2>2 DEF Rendering
  <2>4. f[j] = ShowIn(l, st, v, k)
    BY <2>1, <2>2 DEF Goes
  <2>5. g[k] = ShowIn(l, st, w, k)
    BY <2>1, <2>2 DEF Goes, Rendering
  <2>6. Shows(ShowIn(l, st, v, k), ShowIn(l, st, w, k))
    BY <2>1, <2>2, <2>3, ShowGood
  <2> QED
    BY <2>1, <2>2, <2>4, <2>5, <2>6
<1>4. Inductive(n, S)
  BY <1>2, <1>3 DEF Inductive
<1>5. 0..n \subseteq S
  <2> HIDE DEF S
  <2> QED BY <1>4, UpTo
<1> QED
  BY <1>5

\* More of the log does not change what was shown of it.
LEMMA FollowsStill ==
    ASSUME NEW l, NEW m, Extends(l, m), NEW st, NEW n \in Nat, n <= Len(l), NEW v, Follows(l, st, n, v)
    PROVE  Follows(m, st, n, v)
<1> SUFFICES ASSUME NEW g, Rendering(m, st, n, g) PROVE Shows(v, g[n])
  BY DEF Follows
<1>1. Len(l) \in Nat
  BY DEF Extends
<1>2. ASSUME NEW j \in 1..n PROVE g[j] = ShowIn(l, st, g[j - 1], 0 + j)
  <2>1. j \in 1..Len(l) /\ 0 + j = j
    BY <1>1
  <2>2. m[j] = l[j]
    BY <2>1 DEF Extends
  <2>3. g[j] = ShowIn(m, st, g[j - 1], j)
    BY <2>1 DEF Rendering, Goes
  <2> QED
    BY <2>1, <2>2, <2>3 DEF ShowIn
<1>3. Rendering(l, st, n, g)
  BY <1>2 DEF Rendering, Goes
<1> QED
  BY <1>3 DEF Follows

\* And the outputs stay where they are.
LEMMA PlacedStill ==
    ASSUME NEW l, NEW m, Extends(l, m), NEW s, Placed(l, s)
    PROVE  Placed(m, s)
<1>1. Len(l) \in Nat /\ Len(m) \in Nat /\ DOMAIN l = 1..Len(l) /\ DOMAIN m = 1..Len(m)
  BY DEF Extends
<1>2. \A k \in DOMAIN l : k \in DOMAIN m /\ m[k] = l[k]
  BY <1>1 DEF Extends
<1> QED
  BY <1>2 DEF Placed

\* An event more extends the log.
LEMMA ExtendsOne ==
    ASSUME NEW l \in Seq(LogEvents), NEW e \in LogEvents
    PROVE  Extends(l, Append(l, e)) /\ Len(Append(l, e)) = Len(l) + 1 /\ Append(l, e)[Len(l) + 1] = e
  BY DEF Extends

-----------------------------------------------------------------------------
(* The process around a run (module Command).                              *)

\* Where execute is before there is an engine, and once a step was started.
Starting == {"resolve", "checks", "preflight", "v1", "adapt", "session", "proxy"}
Stepping == {"running", "pure", "ok", "failed", "cancelling", "signalled", "parked"}
CmdPlaces == Starting \cup Stepping \cup {"between", "finished"}

\* The types of the process, and what each place says of the session, the handler and the receivers.
CmdTypes ==
    /\ inv \in Invocations /\ cpc \in CmdPlaces /\ proxied \in BOOLEAN /\ receivers \in {0, 1}
    /\ row \in {"none", "running", "completed", "failed", "cancelled"} /\ exit \in {"none", "0", "1", "130", "143"}
    /\ fired \in {"none", "sigint", "sigterm"} /\ sent \in BOOLEAN /\ late \in BOOLEAN
    /\ sandbox = IF cpc = "resolve" THEN <<"none", "disabled">> ELSE <<Runtime, EffectiveMode>>
CmdControl ==
    /\ cpc \in Starting => log = << >> /\ receivers = 0
    /\ receivers = 0 => cpc \in Starting \/ cpc = "parked" \/ exit = "0"
    /\ receivers = 1 => proxied = WantsProxy
    /\ row = "cancelled" <=> cpc \in {"signalled", "parked"}
CmdSignal ==
    /\ sent => fired # "none"
    /\ cpc \in {"cancelling", "signalled", "parked"} => fired # "none"
    /\ cpc \in {"signalled", "parked"} => exit \in {"none", ExitCode}
    /\ exit \in {"130", "143"} => exit = ExitCode /\ (late \/ receivers = 0)
CmdInv == CmdTypes /\ CmdControl /\ CmdSignal

\* An invocation has its fields.
LEMMA InvTyped ==
    ASSUME inv \in Invocations
    PROVE  /\ inv.runtime \in {"none", "docker", "podman", "local"} /\ inv.noSandbox \in BOOLEAN /\ inv.key \in BOOLEAN
           /\ inv.env \in {"none", "docker", "podman", "local", "odd"} /\ inv.mode \in {"disabled", "full", "devbox", "agent"}
           /\ inv.steps \in Seq({"cmd", "box", "pure", "other"})
<1>1. PICK v : v = inv
  OBVIOUS
<1>2. v \in [engine : {"v1", "v2"}, runtime : {"none", "docker", "podman", "local"}, noSandbox : BOOLEAN,
             env : {"none", "docker", "podman", "local", "odd"}, mode : {"disabled", "full", "devbox", "agent"},
             key : BOOLEAN, steps : Seq({"cmd", "box", "pure", "other"})]
  BY <1>1, CommandAssumption
<1> QED
  BY <1>1, <1>2

\* A process keeps it.
LEMMA CmdStep ==
    CmdInv /\ [CommandNext]_cmdVars => CmdInv'
<1> SUFFICES ASSUME CmdInv, [CommandNext]_cmdVars
             PROVE  CmdInv'
  OBVIOUS
<1> USE DEF CmdInv, CmdTypes, CmdControl, CmdSignal, CmdPlaces, Starting, Stepping, Alive
<1>0. inv' = inv /\ Runtime' = Runtime /\ EffectiveMode' = EffectiveMode
  <2>1. inv' = inv
    BY DEF CommandNext, Resolve, RequireRuntime, ValidateEnvironment, Prepare, OpenSession, NewEngine,
       Setup, SetupRest,
           Returned, Step, Scoped, StepEnds, ShutdownArm, FinaliseCancel, Parked, Park, StepErrs, RenderLive, AfterStep,
           Finish, PollRead, PollSend, PollRest, OnSignal, Deadline, GraceExit, CommandEnded, cmdVars, setupVars, LoopRest,
           HandlerRest
  <2> QED
    BY <2>1 DEF Runtime, EffectiveMode, Mode
<1>1. ASSUME sandbox' = sandbox PROVE WantsProxy' = WantsProxy
  BY <1>0, <1>1 DEF WantsProxy, InContainer
<1>2. ASSUME fired' = fired PROVE ExitCode' = ExitCode
  BY <1>2 DEF ExitCode
<1>3. CASE Resolve
  <2>1. /\ cpc = "resolve" /\ UNCHANGED <<inv, log, at, sigVars, pollVars, viewVars, proxied, row, receivers>> /\ exit = "none"
        /\ \/ exit' = "1" /\ cpc' = cpc /\ sandbox' = sandbox
           \/ sandbox' = <<Runtime, EffectiveMode>> /\ cpc' = "checks" /\ exit' = exit
    BY <1>3 DEF Resolve, Returned, SetupRest
  <2> QED
    BY <1>0, <1>2, <2>1 DEF sigVars
<1>4. CASE RequireRuntime \/ ValidateEnvironment \/ Prepare
  <2>1. /\ UNCHANGED <<inv, log, at, sigVars, pollVars, viewVars, proxied, row, receivers, sandbox>> /\ exit = "none"
        /\ cpc \in {"checks", "preflight", "adapt"}
        /\ \/ exit' = "1" /\ cpc' = cpc
           \/ cpc' \in {"preflight", "adapt", "v1", "session"} /\ exit' = exit
    BY <1>4 DEF RequireRuntime, ValidateEnvironment, Prepare, Returned, Setup, SetupRest
  <2> QED
    BY <1>0, <1>2, <2>1 DEF sigVars
<1>5. CASE OpenSession
  BY <1>0, <1>2, <1>5 DEF OpenSession, Setup, SetupRest, sigVars
<1>6. CASE NewEngine
  <2>1. /\ UNCHANGED <<inv, log, at, sigVars, pollVars, viewVars, row, sandbox>> /\ exit = "none" /\ cpc = "proxy"
        /\ \/ cpc' = "between" /\ proxied' = WantsProxy /\ receivers' = 1 /\ exit' = exit
           \/ exit' = "1" /\ cpc' = cpc /\ proxied' = proxied /\ receivers' = receivers
    BY <1>6 DEF NewEngine, Returned, SetupRest
  <2>2. WantsProxy \in BOOLEAN
    BY InvTyped DEF WantsProxy, InContainer
  <2> QED
    BY <1>0, <1>1, <1>2, <2>1, <2>2 DEF sigVars
<1>7. CASE Step \/ Scoped \/ StepEnds \/ ShutdownArm
  <2>1. /\ UNCHANGED <<inv, sigVars, proxied, sandbox, receivers, exit>> /\ exit = "none" /\ cpc \in {"between", "running", "pure"}
        /\ cpc' \in {"running", "pure", "ok", "failed", "cancelling", "finished"} /\ (cpc' = "cancelling" => sent)
        /\ row' \in {row, "completed", "failed"}
    BY <1>7 DEF Step, Scoped, StepEnds, ShutdownArm, LoopRest, setupVars
  <2> QED
    BY <1>0, <1>1, <1>2, <2>1 DEF sigVars
<1>8. CASE FinaliseCancel
  BY <1>0, <1>1, <1>2, <1>8 DEF FinaliseCancel, LoopRest, setupVars, sigVars
<1>9. CASE Parked
  BY <1>0, <1>1, <1>2, <1>9 DEF Parked, Park, LoopRest, setupVars, sigVars
<1>10. CASE StepErrs
  BY <1>0, <1>1, <1>2, <1>10 DEF StepErrs, LoopRest, setupVars, sigVars
<1>11. CASE RenderLive
  BY <1>0, <1>1, <1>2, <1>11 DEF RenderLive, setupVars, sigVars
<1>12. CASE AfterStep
  <2>1. /\ UNCHANGED <<inv, sigVars, proxied, sandbox, receivers, row, log>> /\ exit = "none" /\ cpc \in {"ok", "failed"}
        /\ \/ cpc' = "between" /\ exit' = exit
           \/ cpc' = cpc /\ exit' = "1"
    BY <1>12 DEF AfterStep, LoopRest, setupVars
  <2> QED
    BY <1>0, <1>1, <1>2, <2>1 DEF sigVars
<1>13. CASE Finish
  BY <1>0, <1>1, <1>2, <1>13 DEF Finish, sigVars
<1>14. CASE PollRead \/ PollSend
  BY <1>0, <1>1, <1>2, <1>14 DEF PollRead, PollSend, PollRest, setupVars, sigVars
<1>15. CASE OnSignal
  <2>1. /\ UNCHANGED <<inv, proxied, sandbox, receivers, row, log, cpc, exit, late>> /\ exit = "none" /\ fired = "none"
        /\ fired' \in {"sigint", "sigterm"} /\ sent' \in BOOLEAN
    BY <1>15 DEF OnSignal, Polled, HandlerRest, setupVars
  <2> QED
    BY <1>0, <1>1, <2>1
<1>16. CASE Deadline
  BY <1>0, <1>1, <1>2, <1>16 DEF Deadline, Polled, HandlerRest, setupVars
<1>17. CASE GraceExit
  <2>1. /\ UNCHANGED <<inv, proxied, sandbox, receivers, row, log, cpc, fired, sent, late>> /\ exit = "none" /\ fired # "none"
        /\ exit' = ExitCode /\ (receivers = 0 \/ late)
    BY <1>17 DEF GraceExit, GraceOver, Polled, HandlerRest, setupVars
  <2>2. ExitCode \in {"130", "143"}
    BY DEF ExitCode
  <2> QED
    BY <1>0, <1>1, <1>2, <2>1, <2>2
<1>18. CASE UNCHANGED cmdVars
  BY <1>0, <1>1, <1>2, <1>18 DEF cmdVars
<1> QED
  BY <1>3, <1>4, <1>5, <1>6, <1>7, <1>8, <1>9, <1>10, <1>11, <1>12, <1>13, <1>14, <1>15, <1>16, <1>17, <1>18
     DEF CommandNext, CommandEnded

\* What it says of the sandbox, the proxy and the exit.
LEMMA CmdSafe ==
    ASSUME CmdInv
    PROVE  SandboxAsAsked /\ ContainerHasProxy /\ CanonicalExit /\ DrainedIsSettled
           /\ sandbox[2] \in {"disabled", "full", "devbox", "agent"}
<1> USE DEF CmdInv, CmdTypes, CmdControl, CmdSignal, CmdPlaces, Starting, Stepping
<1>0. /\ inv.runtime \in {"none", "docker", "podman", "local"} /\ inv.noSandbox \in BOOLEAN /\ inv.key \in BOOLEAN
      /\ inv.env \in {"none", "docker", "podman", "local", "odd"} /\ inv.mode \in {"disabled", "full", "devbox", "agent"}
  BY InvTyped
<1>1. EffectiveMode \in {"disabled", "full", "devbox", "agent"}
  BY <1>0 DEF EffectiveMode, Mode
<1>2. sandbox[2] \in {"disabled", "full", "devbox", "agent"}
  BY <1>1
<1>3. SandboxAsAsked
  <2> SUFFICES ASSUME cpc # "resolve"
               PROVE  /\ inv.runtime \in {"docker", "podman"} => InContainer
                      /\ inv.noSandbox /\ inv.runtime = "none" /\ InContainer => inv.mode # "disabled"
    BY DEF SandboxAsAsked
  <2>1. sandbox[1] = Runtime /\ sandbox[2] = EffectiveMode
    BY <1>1
  <2>2. ASSUME inv.runtime \in {"docker", "podman"} PROVE InContainer
    <3>1. Runtime = inv.runtime
      BY <2>2 DEF Runtime
    <3>2. EffectiveMode = "full"
      BY <1>0, <2>2, <3>1 DEF EffectiveMode, Mode
    <3> QED
      BY <2>1, <2>2, <3>1, <3>2 DEF InContainer
  <2>3. ASSUME inv.noSandbox, inv.runtime = "none", InContainer PROVE inv.mode # "disabled"
    <3>1. Runtime # "local" /\ EffectiveMode # "disabled"
      BY <2>1, <2>3 DEF InContainer
    <3>2. EffectiveMode = inv.mode
      BY <1>0, <2>3, <3>1 DEF EffectiveMode, Mode
    <3> QED
      BY <3>1, <3>2
  <2> QED
    BY <2>2, <2>3
<1>4. ContainerHasProxy
  BY DEF ContainerHasProxy, WantsProxy
<1>5. CanonicalExit
  BY DEF CanonicalExit
<1>6. DrainedIsSettled
  BY DEF DrainedIsSettled
<1> QED
  BY <1>2, <1>3, <1>4, <1>5, <1>6

\* What the view holds.
View == [iteration |-> iteration, pending |-> pending, screen |-> screen]
\* The finished steps the view has not seen: only the one that has just ended.
Unseen(l, n, place, here) ==
    \A k \in (n + 1)..Len(l) : l[k][1] = "done" => place = "ok" /\ k = Len(l) /\ l[k][2] = here

\* How far the poller and the view are, that the view follows the log, and that no output waits between two steps.
ViewTypes ==
    /\ log \in Seq(LogEvents) /\ snap \in Nat /\ watch \in Nat /\ lastSeq \in Nat /\ missed \in BOOLEAN
    /\ watch <= snap /\ snap <= Len(log) /\ lastSeq <= Len(log)
    /\ View \in Views /\ pending <= lastSeq
    /\ at \in 1..(Len(inv.steps) + 1) /\ (cpc \in Stepping => at <= Len(inv.steps))
ViewKept ==
    ~missed => /\ Placed(log, screen) /\ pending = 0 /\ Unseen(log, lastSeq, cpc, at)
               /\ cpc = "between" => lastSeq = Len(log)
ViewInv == ViewTypes /\ Follows(log, inv.steps, lastSeq, View) /\ ViewKept

\* The fields of the view.
LEMMA ViewFields ==
    ASSUME View \in Views
    PROVE  /\ iteration \in Nat /\ pending \in Nat /\ screen \in Seq(Lines)
           /\ View.iteration = iteration /\ View.pending = pending /\ View.screen = screen
<1>1. View.iteration = iteration /\ View.pending = pending /\ View.screen = screen
  BY DEF View
<1>2. View.iteration \in Nat /\ View.pending \in Nat /\ View.screen \in Seq(Lines)
  BY DEF Views
<1> QED
  BY <1>1, <1>2

\* Rendering what is new: the view goes on following the log, and takes an output only from a step that ended.
LEMMA RenderGood ==
    ASSUME ViewTypes, Follows(log, inv.steps, lastSeq, View), NEW n \in Nat, n <= Len(log)
    PROVE  /\ RenderNew(n) \in Views /\ RenderNew(n).pending <= Seen(n) /\ Seen(n) \in Nat /\ Seen(n) <= Len(log)
           /\ lastSeq <= Seen(n)
           /\ Follows(log, inv.steps, Seen(n), RenderNew(n))
           /\ Placed(log, screen) => Placed(log, RenderNew(n).screen)
           /\ NoneDone(log, lastSeq, Seen(n)) => RenderNew(n).pending = pending
           /\ (Seen(n) > lastSeq /\ NoneDone(log, lastSeq, Seen(n) - 1)) => RenderNew(n).pending \in {pending, Seen(n)}
<1>1. PICK l, st, a, b, m, v : /\ l = log /\ st = inv.steps /\ a = lastSeq /\ b = Seen(n) /\ m = b - a /\ v = View
  OBVIOUS
<1>2. /\ l \in Seq(LogEvents) /\ Len(l) \in Nat /\ a \in Nat /\ a <= Len(l) /\ v \in Views /\ v.pending <= a
      /\ v.pending = pending /\ v.screen = screen
  BY <1>1, ViewFields DEF ViewTypes
<1>3. b \in Nat /\ m \in Nat /\ a + m = b /\ b <= Len(l) /\ a <= b
  BY <1>1, <1>2 DEF Seen
<1>4. PICK f : f[0] = v /\ Goes(l, st, a, m, f) /\ ShownFrom(v, a, m) = f[m] /\ \A j \in 0..m : f[j] \in Views
  <2>1. log \in Seq(LogEvents) /\ v \in Views /\ a \in Nat /\ m \in Nat /\ a + m <= Len(log)
    BY <1>1, <1>2, <1>3
  <2>2. \E f : /\ f[0] = v /\ Goes(log, inv.steps, a, m, f) /\ ShownFrom(v, a, m) = f[m]
               /\ \A j \in 0..m : f[j] \in Views
    BY <2>1, ShownIs
  <2> QED
    BY <1>1, <2>2
<1>5. RenderNew(n) = f[m]
  BY <1>1, <1>4 DEF RenderNew, View
<1>6. m \in 0..m
  BY <1>3
<1>7. \A j \in 0..m : Gone(l, a, f, j)
  <2>1. /\ l \in Seq(LogEvents) /\ a \in Nat /\ m \in Nat /\ a + m <= Len(l) /\ Goes(l, st, a, m, f)
        /\ \A j \in 0..m : f[j] \in Views
    BY <1>2, <1>3, <1>4
  <2> QED
    BY <2>1, GoesGood
<1>8. f[m].pending <= b /\ (NoneDone(l, a, b) => f[m].pending = pending) /\ (Placed(l, screen) => Placed(l, f[m].screen))
  BY <1>2, <1>3, <1>4, <1>6, <1>7 DEF Gone
<1>9. Follows(l, st, b, f[m])
  <2>1. Follows(l, st, a, f[0])
    BY <1>1, <1>4
  <2>2. Follows(l, st, a + m, f[m])
    BY <1>2, <1>3, <1>4, <2>1, GoesFollows
  <2> QED
    BY <1>3, <2>2
<1>10. ASSUME b > a, NoneDone(l, a, b - 1) PROVE f[m].pending \in {pending, b}
  <2>1. m \in 1..m /\ m - 1 \in 0..m /\ a + (m - 1) = b - 1 /\ b \in 1..Len(l)
    BY <1>2, <1>3, <1>10
  <2>2. PICK u : u = f[m - 1]
    OBVIOUS
  <2>3. u \in Views /\ u.pending = pending
    BY <1>2, <1>4, <1>7, <1>10, <2>1, <2>2 DEF Gone
  <2>4. f[m] = ShowIn(l, st, u, b)
    BY <1>3, <1>4, <2>1, <2>2 DEF Goes
  <2>5. ShowIn(l, st, u, b).pending \in {u.pending, b}
    BY <1>2, <2>1, <2>3, ShowGood
  <2> QED
    BY <2>3, <2>4, <2>5
<1>11. f[m] \in Views
  BY <1>4, <1>6
<1> QED
  BY <1>1, <1>2, <1>3, <1>5, <1>8, <1>9, <1>10, <1>11

\* A step that leaves the log and the view as they are.
LEMMA ViewStays ==
    ASSUME ViewInv, inv' = inv, UNCHANGED <<log, viewVars, at>>,
           snap' \in Nat, watch' \in Nat, watch' <= snap', snap' <= Len(log),
           cpc' \in Stepping => cpc \in Stepping,
           cpc = "ok" => cpc' = "ok",
           cpc' = "between" => cpc = "between" \/ log = << >>
    PROVE  ViewInv'
<1>1. View' = View /\ lastSeq' = lastSeq /\ missed' = missed /\ screen' = screen /\ pending' = pending
  BY DEF View, viewVars
<1>2. ViewTypes'
  BY <1>1 DEF ViewInv, ViewTypes
<1>3. Follows(log', inv'.steps, lastSeq', View')
  BY <1>1 DEF ViewInv
<1>4. ViewKept'
  <2> SUFFICES ASSUME ~missed
               PROVE  /\ Placed(log, screen) /\ pending = 0 /\ Unseen(log, lastSeq, cpc', at)
                      /\ cpc' = "between" => lastSeq = Len(log)
    BY <1>1 DEF ViewKept
  <2>1. Placed(log, screen) /\ pending = 0 /\ Unseen(log, lastSeq, cpc, at) /\ (cpc = "between" => lastSeq = Len(log))
    BY DEF ViewInv, ViewKept
  <2>2. Unseen(log, lastSeq, cpc', at)
    BY <2>1 DEF Unseen
  <2>3. log = << >> => lastSeq = Len(log)
    BY DEF ViewInv, ViewTypes
  <2> QED
    BY <2>1, <2>2, <2>3
<1> QED
  BY <1>2, <1>3, <1>4 DEF ViewInv

\* A step that writes to the log and leaves the view as it is.
LEMMA ViewWritten ==
    ASSUME ViewInv, inv' = inv, UNCHANGED <<viewVars, at, snap, watch>>, NEW m, Extends(log, m), log' = m,
           cpc # "ok", cpc' # "between", cpc' \in Stepping => at <= Len(inv.steps), Unseen(m, Len(log), cpc', at)
    PROVE  ViewInv'
<1>0. PICK l : l = log
  OBVIOUS
<1>1. View' = View /\ lastSeq' = lastSeq /\ missed' = missed /\ screen' = screen /\ pending' = pending
  BY DEF View, viewVars
<1>2. l \in Seq(LogEvents) /\ Len(l) \in Nat /\ m \in Seq(LogEvents) /\ Len(m) \in Nat /\ Len(m) >= Len(l) /\ Extends(l, m)
  BY <1>0 DEF Extends
<1>3. ViewTypes'
  <2>1. snap <= Len(l) /\ lastSeq <= Len(l) /\ snap \in Nat /\ lastSeq \in Nat
    BY <1>0 DEF ViewInv, ViewTypes
  <2>2. snap' <= Len(m) /\ lastSeq' <= Len(m)
    BY <1>1, <1>2, <2>1
  <2> QED
    BY <1>1, <1>2, <2>2 DEF ViewInv, ViewTypes
<1>4. Follows(log', inv'.steps, lastSeq', View')
  <2>1. Follows(l, inv.steps, lastSeq, View) /\ lastSeq \in Nat /\ lastSeq <= Len(l)
    BY <1>0 DEF ViewInv, ViewTypes
  <2>2. Follows(m, inv.steps, lastSeq, View)
    BY <1>2, <2>1, FollowsStill
  <2> QED
    BY <1>1, <1>2, <2>2
<1>5. ViewKept'
  <2> SUFFICES ASSUME ~missed
               PROVE  Placed(m, screen) /\ pending = 0 /\ Unseen(m, lastSeq, cpc', at)
    BY <1>1, <1>2 DEF ViewKept
  <2>1. Placed(l, screen) /\ pending = 0 /\ Unseen(l, lastSeq, cpc, at)
    BY <1>0 DEF ViewInv, ViewKept
  <2>2. Placed(m, screen)
    BY <1>2, <2>1, PlacedStill
  <2>3. ASSUME NEW k \in (lastSeq + 1)..Len(m), m[k][1] = "done"
        PROVE  cpc' = "ok" /\ k = Len(m) /\ m[k][2] = at
    <3>0. lastSeq \in Nat
      BY DEF ViewInv, ViewTypes
    <3>1. CASE k \in (Len(l) + 1)..Len(m)
      BY <1>0, <1>2, <2>3, <3>1 DEF Unseen
    <3>2. CASE k \notin (Len(l) + 1)..Len(m)
      <4>1. k \in (lastSeq + 1)..Len(l) /\ k \in 1..Len(l)
        BY <1>2, <3>0, <3>2
      <4>2. m[k] = l[k]
        BY <1>2, <4>1 DEF Extends
      <4> QED
        BY <2>1, <2>3, <4>1, <4>2 DEF Unseen
    <3> QED
      BY <3>1, <3>2
  <2> QED
    BY <2>1, <2>2, <2>3 DEF Unseen
<1> QED
  BY <1>3, <1>4, <1>5 DEF ViewInv

\* One event more is all that is new.
LEMMA UnseenOne ==
    ASSUME NEW l \in Seq(LogEvents), NEW e \in LogEvents, NEW place, NEW here, e[1] = "done" => place = "ok" /\ e[2] = here
    PROVE  Extends(l, Append(l, e)) /\ Unseen(Append(l, e), Len(l), place, here)
<1>1. PICK m, n : m = Append(l, e) /\ n = Len(l)
  OBVIOUS
<1>2. Extends(l, m) /\ n \in Nat /\ Len(m) = n + 1 /\ m[n + 1] = e
  BY <1>1, ExtendsOne
<1>3. \A k \in (n + 1)..Len(m) : k = n + 1
  BY <1>2
<1>4. Unseen(m, n, place, here)
  BY <1>2, <1>3 DEF Unseen
<1> QED
  BY <1>1, <1>2, <1>4

\* The live rendering and the replay after a step.
LEMMA ViewRendered ==
    ASSUME ViewInv, RenderLive
    PROVE  ViewInv'
<1>1. PICK n, v : n = watch /\ v = RenderNew(watch)
  OBVIOUS
<1>2. /\ cpc = "running" /\ UNCHANGED <<inv, cpc, log, at, snap, watch, missed>> /\ lastSeq' = Seen(n)
      /\ iteration' = v.iteration /\ pending' = v.pending /\ screen' = v.screen
  BY <1>1 DEF RenderLive, setupVars
<1>3. ViewTypes /\ Follows(log, inv.steps, lastSeq, View) /\ n \in Nat /\ n <= Len(log) /\ Len(log) \in Nat /\ lastSeq \in Nat
  BY <1>1 DEF ViewInv, ViewTypes
<1>4. /\ v \in Views /\ v.pending <= Seen(n) /\ Seen(n) \in Nat /\ Seen(n) <= Len(log) /\ lastSeq <= Seen(n)
      /\ Follows(log, inv.steps, Seen(n), v)
      /\ Placed(log, screen) => Placed(log, v.screen)
      /\ NoneDone(log, lastSeq, Seen(n)) => v.pending = pending
  BY <1>1, <1>3, RenderGood
<1>5. View' = v
  <2>1. View' = [iteration |-> v.iteration, pending |-> v.pending, screen |-> v.screen]
    BY <1>2 DEF View
  <2> QED
    BY <1>4, <2>1 DEF Views
<1>6. ViewTypes'
  BY <1>2, <1>3, <1>4, <1>5 DEF ViewTypes
<1>7. ViewKept'
  <2> SUFFICES ASSUME ~missed
               PROVE  Placed(log, screen') /\ pending' = 0 /\ Unseen(log, Seen(n), cpc, at)
    BY <1>2 DEF ViewKept
  <2>1. Placed(log, screen) /\ pending = 0 /\ Unseen(log, lastSeq, cpc, at)
    BY DEF ViewInv, ViewKept
  <2>2. NoneDone(log, lastSeq, Seen(n))
    <3>1. \A k \in (lastSeq + 1)..Seen(n) : k \in (lastSeq + 1)..Len(log)
      BY <1>3, <1>4
    <3> QED
      BY <1>2, <2>1, <3>1 DEF NoneDone, Unseen
  <2>3. Unseen(log, Seen(n), cpc, at)
    <3>1. \A k \in (Seen(n) + 1)..Len(log) : k \in (lastSeq + 1)..Len(log)
      BY <1>3, <1>4
    <3> QED
      BY <2>1, <3>1 DEF Unseen
  <2> QED
    BY <1>2, <1>4, <2>1, <2>2, <2>3
<1>8. Follows(log', inv'.steps, lastSeq', View')
  BY <1>2, <1>4, <1>5
<1> QED
  BY <1>6, <1>7, <1>8 DEF ViewInv

\* The line of a step and its output leave what is shown of the log alone.
LEMMA StepLines ==
    ASSUME NEW l, NEW st, NEW n, NEW v \in Views, NEW a \in Nat, NEW s, Follows(l, st, n, v),
           s = (IF v.pending = 0 THEN Append(v.screen, <<"step", a>>)
                ELSE Append(Append(v.screen, <<"step", a>>), <<"output", v.pending>>))
    PROVE  /\ s \in Seq(Lines)
           /\ Follows(l, st, n, [iteration |-> v.iteration, pending |-> 0, screen |-> s])
           /\ (Placed(l, v.screen) /\ (v.pending # 0 => v.pending \in DOMAIN l /\ l[v.pending][2] = a)) => Placed(l, s)
<1>1. PICK x, y, q, t, p : /\ p = v.pending /\ x = <<"step", a>> /\ y = <<"output", p>> /\ q = v.screen /\ t = Append(q, x)
  OBVIOUS
<1>2. p \in Nat /\ q \in Seq(Lines) /\ v.iteration \in Nat
  BY <1>1 DEF Views
<1>3. x \in Lines /\ y \in Lines /\ ~Line(x) /\ ~Line(y) /\ x[1] # "output"
  BY <1>1, <1>2 DEF Lines, Line
<1>4. t \in Seq(Lines) /\ LinesOf(t) = LinesOf(q)
  <2>1. LinesOf(Append(q, x)) = LinesOf(q)
    BY <1>2, <1>3, LinesOfMore
  <2>2. Append(q, x) \in Seq(Lines)
    BY <1>2, <1>3
  <2> QED
    BY <1>1, <2>1, <2>2
<1>5. s \in Seq(Lines) /\ LinesOf(s) = LinesOf(q)
  <2>1. CASE p = 0
    <3>1. s = t
      BY <1>1, <2>1
    <3> QED
      BY <1>4, <3>1
  <2>2. CASE p # 0
    <3>1. s = Append(t, y)
      BY <1>1, <2>2
    <3>2. LinesOf(Append(t, y)) = LinesOf(t)
      BY <1>3, <1>4, LinesOfMore
    <3>3. Append(t, y) \in Seq(Lines)
      BY <1>3, <1>4
    <3> QED
      BY <1>4, <3>1, <3>2, <3>3
  <2> QED
    BY <2>1, <2>2
<1>6. PICK w : w = [iteration |-> v.iteration, pending |-> 0, screen |-> s]
  OBVIOUS
<1>7. Follows(l, st, n, w)
  <2>1. w.iteration = v.iteration /\ w.screen = s
    BY <1>6
  <2>2. \A u : Shows(v, u) => Shows(w, u)
    BY <1>1, <1>5, <2>1 DEF Shows
  <2> QED
    BY <2>2 DEF Follows
<1>8. ASSUME Placed(l, q), p # 0 => p \in DOMAIN l /\ l[p][2] = a PROVE Placed(l, s)
  <2>1. CASE p = 0
    <3>1. s = t
      BY <1>1, <2>1
    <3> QED
      BY <1>1, <1>2, <1>3, <1>8, <3>1, PlacedMore
  <2>2. CASE p # 0
    <3>1. s = Append(Append(q, <<"step", a>>), <<"output", p>>)
      BY <1>1, <2>2
    <3> QED
      BY <1>2, <1>8, <2>2, <3>1, PlacedOutput
  <2> QED
    BY <2>1, <2>2
<1> QED
  BY <1>1, <1>5, <1>6, <1>7, <1>8

\* After a step the view has seen the log, unless the replay failed.
LEMMA ViewAfterStep ==
    ASSUME ViewInv, AfterStep, inv' = inv
    PROVE  ViewInv'
<1>0. PICK read \in BOOLEAN :
          LET n == IF read THEN Len(log) ELSE lastSeq
              v == RenderNew(n)
              w == Append(v.screen, <<"step", at>>)
          IN  /\ iteration' = v.iteration /\ lastSeq' = Seen(n) /\ missed' = (missed \/ ~read)
              /\ pending' = Flushed(v).pending
              /\ screen' = (IF v.pending = 0 THEN w ELSE Append(w, <<"output", v.pending>>))
  BY DEF AfterStep
<1>1. PICK n, v, a : n = (IF read THEN Len(log) ELSE lastSeq) /\ v = RenderNew(n) /\ a = at
  OBVIOUS
<1>2. /\ iteration' = v.iteration /\ lastSeq' = Seen(n) /\ missed' = (missed \/ ~read) /\ pending' = Flushed(v).pending
      /\ screen' = (IF v.pending = 0 THEN Append(v.screen, <<"step", a>>)
                    ELSE Append(Append(v.screen, <<"step", a>>), <<"output", v.pending>>))
  BY <1>0, <1>1
<1>3. /\ cpc \in {"ok", "failed"} /\ UNCHANGED <<log, snap, watch>>
      /\ \/ cpc = "ok" /\ cpc' = "between" /\ at' = at + 1
         \/ cpc = "failed" /\ cpc' = cpc /\ at' = at
  BY DEF AfterStep, LoopRest, pollVars
<1>4. /\ ViewTypes /\ Follows(log, inv.steps, lastSeq, View) /\ n \in Nat /\ n <= Len(log) /\ Len(log) \in Nat /\ lastSeq \in Nat
      /\ a \in Nat /\ lastSeq <= Len(log) /\ log \in Seq(LogEvents) /\ DOMAIN log = 1..Len(log)
  <2>1. /\ Len(log) \in Nat /\ lastSeq \in Nat /\ lastSeq <= Len(log) /\ ViewTypes /\ at \in Nat /\ log \in Seq(LogEvents)
        /\ Follows(log, inv.steps, lastSeq, View) /\ DOMAIN log = 1..Len(log)
    BY DEF ViewInv, ViewTypes
  <2> QED
    BY <1>1, <2>1
<1>40. PICK L : L = Len(log)
  OBVIOUS
<1>41. L \in Nat /\ lastSeq \in Nat /\ lastSeq <= L
  BY <1>4, <1>40
<1>5. /\ v \in Views /\ v.pending <= Seen(n) /\ Seen(n) \in Nat /\ Seen(n) <= Len(log) /\ lastSeq <= Seen(n)
      /\ Follows(log, inv.steps, Seen(n), v)
      /\ Placed(log, screen) => Placed(log, v.screen)
      /\ NoneDone(log, lastSeq, Seen(n)) => v.pending = pending
      /\ (Seen(n) > lastSeq /\ NoneDone(log, lastSeq, Seen(n) - 1)) => v.pending \in {pending, Seen(n)}
  BY <1>1, <1>4, RenderGood
<1>6. pending' = 0
  BY <1>2, <1>5 DEF Flushed, Views
<1>7. /\ screen' \in Seq(Lines)
      /\ Follows(log, inv.steps, Seen(n), [iteration |-> v.iteration, pending |-> 0, screen |-> screen'])
      /\ (Placed(log, v.screen) /\ (v.pending # 0 => v.pending \in DOMAIN log /\ log[v.pending][2] = a)) => Placed(log, screen')
  <2>1. PICK l, st, m, s : l = log /\ st = inv.steps /\ m = Seen(n) /\ s = screen'
    OBVIOUS
  <2>2. Follows(l, st, m, v) /\ v \in Views /\ a \in Nat
    BY <1>4, <1>5, <2>1
  <2>3. s = (IF v.pending = 0 THEN Append(v.screen, <<"step", a>>)
             ELSE Append(Append(v.screen, <<"step", a>>), <<"output", v.pending>>))
    BY <1>2, <2>1
  <2>4. /\ s \in Seq(Lines)
        /\ Follows(l, st, m, [iteration |-> v.iteration, pending |-> 0, screen |-> s])
        /\ (Placed(l, v.screen) /\ (v.pending # 0 => v.pending \in DOMAIN l /\ l[v.pending][2] = a)) => Placed(l, s)
    BY <2>2, <2>3, StepLines
  <2> QED
    BY <2>1, <2>4
<1>8. View' = [iteration |-> v.iteration, pending |-> 0, screen |-> screen']
  BY <1>2, <1>6 DEF View
<1>9. ViewTypes'
  <2>1. View' \in Views
    BY <1>5, <1>7, <1>8 DEF Views
  <2>2. at' \in 1..(Len(inv.steps) + 1) /\ (cpc' \in Stepping => at' <= Len(inv.steps))
    <3>1. at <= Len(inv.steps) /\ at \in 1..(Len(inv.steps) + 1)
      BY <1>3, <1>4 DEF ViewTypes, Stepping
    <3>2. Len(inv.steps) \in Int
      BY <3>1
    <3> QED
      BY <1>3, <3>1, <3>2 DEF Stepping
  <2>3. missed' \in BOOLEAN
    BY <1>2
  <2> QED
    BY <1>2, <1>3, <1>4, <1>5, <1>6, <2>1, <2>2, <2>3 DEF ViewTypes
<1>10. ViewKept'
  <2> SUFFICES ASSUME ~missed'
               PROVE  /\ Placed(log, screen') /\ Unseen(log, Seen(n), cpc', at') /\ Seen(n) = Len(log)
    BY <1>2, <1>3, <1>6 DEF ViewKept
  <2>1. ~missed /\ read
    BY <1>2
  <2>2. Placed(log, screen) /\ pending = 0 /\ Unseen(log, lastSeq, cpc, at)
    BY <2>1 DEF ViewInv, ViewKept
  <2>3. Seen(n) = Len(log)
    BY <1>1, <1>4, <2>1 DEF Seen
  <2>4. Unseen(log, Seen(n), cpc', at')
    <3>1. \A k \in (L + 1)..L : FALSE
      BY <1>41
    <3> QED
      BY <1>40, <2>3, <3>1 DEF Unseen
  <2>5. ASSUME v.pending # 0 PROVE v.pending \in DOMAIN log /\ log[v.pending][2] = a
    <3>1. ~NoneDone(log, lastSeq, Seen(n))
      BY <1>5, <2>2, <2>5
    <3>2. PICK k \in (lastSeq + 1)..Len(log) : log[k][1] = "done"
      BY <2>3, <3>1 DEF NoneDone
    <3>3. k = Len(log) /\ log[k][2] = at /\ k > lastSeq
      <4>1. k > lastSeq
        BY <1>40, <1>41, <3>2
      <4> QED
        BY <2>2, <3>2, <4>1 DEF Unseen
    <3>4. NoneDone(log, lastSeq, Seen(n) - 1)
      <4>1. \A j \in (lastSeq + 1)..(L - 1) : j \in (lastSeq + 1)..L /\ j # L
        BY <1>41
      <4> QED
        BY <1>40, <2>2, <2>3, <4>1 DEF NoneDone, Unseen
    <3>5. v.pending = k
      BY <1>5, <2>2, <2>3, <2>5, <3>3, <3>4
    <3> QED
      <4>1. L \in 1..L
        BY <1>40, <1>41, <3>3
      <4>2. DOMAIN log = 1..L
        BY <1>4, <1>40
      <4> QED
        BY <1>1, <1>40, <3>3, <3>5, <4>1, <4>2
  <2> QED
    BY <1>5, <1>7, <2>2, <2>3, <2>4, <2>5
<1>11. Follows(log', inv'.steps, lastSeq', View')
  BY <1>2, <1>3, <1>7, <1>8
<1> QED
  BY <1>9, <1>10, <1>11 DEF ViewInv

\* The run loop, the poller and the view keep it.
LEMMA ViewStep ==
    CmdInv /\ ViewInv /\ [CommandNext]_cmdVars => ViewInv'
<1> SUFFICES ASSUME CmdInv, ViewInv, [CommandNext]_cmdVars
             PROVE  ViewInv'
  OBVIOUS
<1>0. inv' = inv
  BY DEF CommandNext, Resolve, RequireRuntime, ValidateEnvironment, Prepare, OpenSession, NewEngine, Setup,
     SetupRest,
         Returned, Step, Scoped, StepEnds, ShutdownArm, FinaliseCancel, Parked, Park, StepErrs, RenderLive, AfterStep,
         Finish, PollRead, PollSend, PollRest, OnSignal, Deadline, GraceExit, CommandEnded, cmdVars, setupVars, LoopRest,
         HandlerRest
<1>1. /\ snap \in Nat /\ watch \in Nat /\ watch <= snap /\ snap <= Len(log) /\ Len(log) \in Nat /\ log \in Seq(LogEvents)
      /\ at \in Nat /\ (cpc \in Stepping => at <= Len(inv.steps))
  BY DEF ViewInv, ViewTypes
<1>2. CASE Resolve \/ RequireRuntime \/ ValidateEnvironment \/ Prepare \/ OpenSession \/ NewEngine
  <2>1. /\ UNCHANGED <<log, viewVars, at, snap, watch>> /\ cpc \in Starting
        /\ cpc' \in Starting \cup {"between"}
    BY <1>2 DEF Resolve, RequireRuntime, ValidateEnvironment, Prepare, OpenSession, NewEngine, Setup,
       SetupRest, Returned,
                pollVars, Starting
  <2>2. log = << >>
    BY <2>1 DEF CmdInv, CmdControl
  <2> QED
    BY <1>0, <1>1, <2>1, <2>2, ViewStays DEF Starting, Stepping
<1>3. CASE FinaliseCancel \/ Parked \/ StepErrs \/ Finish \/ OnSignal \/ Deadline \/ GraceExit \/ UNCHANGED cmdVars
  <2>1. /\ UNCHANGED <<log, viewVars, at, snap, watch>>
        /\ cpc' = cpc \/ (cpc = "cancelling" /\ cpc' = "signalled") \/ (cpc = "signalled" /\ cpc' = "parked")
    BY <1>3 DEF FinaliseCancel, Parked, Park, StepErrs, Finish, OnSignal, Deadline, GraceExit, LoopRest,
       HandlerRest,
                pollVars, cmdVars, viewVars
  <2> QED
    BY <1>0, <1>1, <2>1, ViewStays DEF Stepping
<1>4. CASE PollRead
  <2>1. UNCHANGED <<log, viewVars, at, watch, cpc>> /\ snap' = Len(log)
    BY <1>4 DEF PollRead, PollRest
  <2>2. watch <= Len(log)
    BY <1>1
  <2> QED
    BY <1>0, <1>1, <2>1, <2>2, ViewStays
<1>5. CASE PollSend
  <2>1. UNCHANGED <<log, viewVars, at, snap, cpc>> /\ watch' = snap
    BY <1>5 DEF PollSend, PollRest
  <2>2. snap <= snap
    BY <1>1
  <2> QED
    BY <1>0, <1>1, <2>1, <2>2, ViewStays
<1>6. CASE Step \/ Scoped \/ StepEnds
  <2>1. /\ UNCHANGED <<viewVars, at, snap, watch>> /\ cpc # "ok" /\ cpc' # "between"
        /\ cpc' \in Stepping => at <= Len(inv.steps)
    BY <1>1, <1>6 DEF Step, Scoped, StepEnds, LoopRest, pollVars, Stepping
  <2>2. \E e \in LogEvents : log' = Append(log, e) /\ (e[1] = "done" => cpc' = "ok" /\ e[2] = at)
    <3>1. CASE Step
      <4>1. /\ <<"started", at>> \in LogEvents /\ <<"completed", 0>> \in LogEvents
            /\ <<"started", at>>[1] # "done" /\ <<"completed", 0>>[1] # "done"
        BY <1>1 DEF LogEvents
      <4> QED
        BY <3>1, <4>1 DEF Step
    <3>2. CASE Scoped
      <4>1. PICK i \in 1..2 : log' = Append(log, <<"scoped", i>>)
        BY <3>2 DEF Scoped
      <4>2. <<"scoped", i>> \in LogEvents /\ <<"scoped", i>>[1] # "done"
        BY DEF LogEvents
      <4> QED
        BY <4>1, <4>2
    <3>3. CASE StepEnds
      <4>1. /\ <<"done", at>> \in LogEvents /\ <<"failed", at>> \in LogEvents
            /\ <<"done", at>>[2] = at /\ <<"failed", at>>[1] # "done"
        BY <1>1 DEF LogEvents
      <4> QED
        BY <3>3, <4>1 DEF StepEnds
    <3> QED
      BY <1>6, <3>1, <3>2, <3>3
  <2>3. PICK e \in LogEvents : log' = Append(log, e) /\ (e[1] = "done" => cpc' = "ok" /\ e[2] = at)
    BY <2>2
  <2>4. PICK l, m, p, a : l = log /\ m = Append(l, e) /\ p = cpc' /\ a = at
    OBVIOUS
  <2>5. l \in Seq(LogEvents) /\ (e[1] = "done" => p = "ok" /\ e[2] = a)
    BY <1>1, <2>3, <2>4
  <2>6. Extends(l, Append(l, e)) /\ Unseen(Append(l, e), Len(l), p, a)
    BY <2>5, UnseenOne
  <2>7. Extends(log, m) /\ log' = m /\ Unseen(m, Len(log), cpc', at)
    BY <2>3, <2>4, <2>6
  <2> QED
    BY <1>0, <2>1, <2>7, ViewWritten
<1>7. CASE ShutdownArm
  <2>0. PICK l, x, y, r, m : l = log /\ x = <<"signal", at>> /\ y = <<"failed", at>> /\ r = <<x, y>> /\ m = l \o r
    OBVIOUS
  <2>1. /\ UNCHANGED <<viewVars, at, snap, watch>> /\ cpc = "running" /\ cpc' = "cancelling"
        /\ log' = l \o <<x, y>>
    BY <1>7, <2>0 DEF ShutdownArm, LoopRest, pollVars
  <2>2. x \in LogEvents /\ y \in LogEvents /\ x[1] # "done" /\ y[1] # "done"
    BY <1>1, <2>0 DEF LogEvents
  <2>3. l \in Seq(LogEvents) /\ Len(l) \in Nat
    BY <1>1, <2>0
  <2>4. r \in Seq(LogEvents) /\ Len(r) = 2 /\ r[1] = x /\ r[2] = y
    BY <2>0, <2>2
  <2>5. /\ m \in Seq(LogEvents) /\ Len(m) = Len(l) + 2
        /\ m[Len(l) + 1] = x /\ m[Len(l) + 2] = y /\ \A j \in 1..Len(l) : m[j] = l[j]
    <3>1. /\ l \o r \in Seq(LogEvents) /\ Len(l \o r) = Len(l) + Len(r)
          /\ \A i \in 1..(Len(l) + Len(r)) : (l \o r)[i] = IF i <= Len(l) THEN l[i] ELSE r[i - Len(l)]
      BY <2>3, <2>4, ConcatProperties
    <3>2. PICK n : n = Len(l)
      OBVIOUS
    <3>3. /\ n \in Nat /\ n + 1 \in 1..(n + 2) /\ n + 2 \in 1..(n + 2) /\ ~(n + 1 <= n) /\ ~(n + 2 <= n)
          /\ (n + 1) - n = 1 /\ (n + 2) - n = 2 /\ \A j \in 1..n : j \in 1..(n + 2) /\ j <= n
      BY <2>3, <3>2
    <3> QED
      BY <2>0, <2>4, <3>1, <3>2, <3>3
  <2>6. Extends(l, m)
    BY <2>3, <2>5 DEF Extends
  <2>7. Unseen(m, Len(l), cpc', at)
    <3>1. \A j \in (Len(l) + 1)..Len(m) : j = Len(l) + 1 \/ j = Len(l) + 2
      BY <2>3, <2>5
    <3> QED
      BY <2>2, <2>5, <3>1 DEF Unseen
  <2>8. at <= Len(inv.steps) /\ cpc # "ok" /\ cpc' # "between"
    BY <1>1, <2>1 DEF Stepping
  <2>9. Extends(log, m) /\ log' = m /\ Unseen(m, Len(log), cpc', at)
    BY <2>0, <2>1, <2>6, <2>7
  <2> QED
    BY <1>0, <2>1, <2>8, <2>9, ViewWritten
<1>8. CASE RenderLive
  BY <1>8, ViewRendered
<1>9. CASE AfterStep
  BY <1>0, <1>9, ViewAfterStep
<1> QED
  BY <1>2, <1>3, <1>4, <1>5, <1>6, <1>7, <1>8, <1>9 DEF CommandNext, CommandEnded

\* The sandbox that was asked for, a settled session and the right exit code, and a screen that shows the log,
\* for every workflow, signal and cut of the log by the poller.
THEOREM CommandIsSafe == CommandSpec => []CommandSafe
<1>1. CommandInit => CmdInv /\ ViewInv
  <2> SUFFICES ASSUME CommandInit PROVE CmdInv /\ ViewInv
    OBVIOUS
  <2>1. CmdInv
    <3>1. CmdTypes
      BY DEF CommandInit, CmdTypes, CmdPlaces, Starting
    <3>2. CmdControl
      BY DEF CommandInit, CmdControl, Starting
    <3>3. CmdSignal
      BY DEF CommandInit, CmdSignal
    <3> QED
      BY <3>1, <3>2, <3>3 DEF CmdInv
  <2>2. log = << >> /\ lastSeq = 0 /\ Len(<< >>) = 0 /\ << >> \in Seq(LogEvents) /\ << >> \in Seq(Lines) /\ screen = << >>
    BY DEF CommandInit
  <2>3. View = Blank /\ View \in Views
    BY <2>2 DEF CommandInit, View, Views, Blank
  <2>4. Follows(log, inv.steps, lastSeq, View)
    <3>1. Shows(Blank, Blank)
      BY LinesOfNone DEF Shows, Blank
    <3> QED
      BY <2>2, <2>3, <3>1 DEF Follows, Rendering
  <2>5. 1 \in 1..(Len(inv.steps) + 1) /\ cpc \notin Stepping
    <3>1. Len(inv.steps) \in Nat
      BY InvTyped DEF CommandInit
    <3> QED
      BY <3>1 DEF CommandInit, Stepping
  <2>6. ViewTypes
    <3>1. snap = 0 /\ watch = 0 /\ missed = FALSE /\ pending = 0 /\ at = 1
      BY DEF CommandInit
    <3>2. 0 <= Len(log) /\ 0 <= 0 /\ 0 \in Nat
      BY <2>2
    <3> QED
      BY <2>2, <2>3, <2>5, <3>1, <3>2 DEF ViewTypes
  <2>7. ViewKept
    BY <2>2 DEF CommandInit, ViewKept, Placed, Unseen
  <2> QED
    BY <2>1, <2>4, <2>6, <2>7 DEF ViewInv
<1>2. CmdInv /\ ViewInv => CommandSafe
  <2> SUFFICES ASSUME CmdInv, ViewInv PROVE CommandSafe
    OBVIOUS
  <2>1. SandboxAsAsked /\ ContainerHasProxy /\ CanonicalExit /\ DrainedIsSettled
        /\ sandbox[2] \in {"disabled", "full", "devbox", "agent"}
    BY CmdSafe
  <2>2. Len(log) \in Nat /\ log \in Seq(LogEvents) /\ lastSeq \in Nat /\ lastSeq <= Len(log) /\ View \in Views
    BY DEF ViewInv, ViewTypes
  <2>3. pending <= Len(log)
    <3>1. pending \in Nat /\ pending <= lastSeq
      BY <2>2, ViewFields DEF ViewInv, ViewTypes
    <3> QED
      BY <2>2, <3>1
  <2>4. CommandTypeOK
    BY <2>1, <2>3 DEF CommandTypeOK, CmdInv, CmdTypes, ViewInv, ViewTypes
  <2>5. ViewOfLog
    <3>1. Blank \in Views /\ 0 \in Nat /\ 0 + lastSeq = lastSeq
      <4>1. << >> \in Seq(Lines)
        OBVIOUS
      <4> QED
        BY <2>2, <4>1 DEF Blank, Views
    <3>2. PICK f : /\ f[0] = Blank /\ Goes(log, inv.steps, 0, lastSeq, f) /\ ShownFrom(Blank, 0, lastSeq) = f[lastSeq]
                   /\ \A j \in 0..lastSeq : f[j] \in Views
      BY <2>2, <3>1, ShownIs
    <3>3. Shows(View, f[lastSeq])
      BY <3>2 DEF ViewInv, Follows, Rendering
    <3>4. LinesOf(screen) = ShownFrom(Blank, 0, lastSeq).screen
      BY <2>2, <3>2, <3>3, ViewFields DEF Shows
    <3> QED
      BY <3>4 DEF ViewOfLog, Blank
  <2>6. OutputUnderItsStep
    BY DEF OutputUnderItsStep, ViewInv, ViewKept, Placed
  <2> QED
    BY <2>1, <2>4, <2>5, <2>6 DEF CommandSafe
<1> QED
  BY <1>1, <1>2, CmdStep, ViewStep, PTL DEF CommandSpec

-----------------------------------------------------------------------------
(* The history a chat call sends (module ChatCall).                        *)

\* The turns of the history.
Turns == 1..Len(ask.history)

\* The step is one of those there are.
LEMMA AskTyped ==
    ASSUME ask \in Asks
    PROVE  /\ ask.history \in Seq(Nat) /\ Len(ask.history) \in Nat /\ DOMAIN ask.history = Turns
           /\ ask.cut.n \in Nat /\ ask.cut.m \in Nat
           /\ ask.cut.by \in {"none", "last", "first", "first_last", "window"}
<1>1. PICK a : a = ask
  OBVIOUS
<1>2. a \in [provider : {"anthropic", "openai", "gemini", "compat", "other"}, url : BOOLEAN,
             keyEnv : BOOLEAN, inEnv : BOOLEAN, onHost : BOOLEAN, history : Seq(Nat),
             cut : [by : {"none", "last", "first", "first_last", "window"}, n : Nat, m : Nat]]
  BY <1>1, ChatAssumption
<1>3. a.history \in Seq(Nat) /\ a.cut \in [by : {"none", "last", "first", "first_last", "window"}, n : Nat, m : Nat]
  BY <1>2
<1>4. PICK c : c = a.cut
  OBVIOUS
<1>5. c.n \in Nat /\ c.m \in Nat /\ c.by \in {"none", "last", "first", "first_last", "window"}
  BY <1>3, <1>4
<1>6. Len(a.history) \in Nat /\ DOMAIN a.history = 1..Len(a.history)
  BY <1>3
<1> QED
  BY <1>1, <1>3, <1>4, <1>5, <1>6 DEF Turns

\* The positions are those of the turns, in their order.
LEMMA PositionsAre ==
    ASSUME ask \in Asks
    PROVE  /\ Positions \in Seq(Turns) /\ Len(Positions) = Len(ask.history) /\ DOMAIN Positions = Turns
           /\ \A i \in Turns : Positions[i] = i
<1>1. PICK n : n = Len(ask.history)
  OBVIOUS
<1>2. n \in Nat /\ Turns = 1..n /\ Positions = [i \in 1..n |-> i]
  BY <1>1, AskTyped DEF Positions, Turns
<1> QED
  BY <1>1, <1>2

\* The last k turns are those from the k-th before the end.
LEMMA LastTurnsAre ==
    ASSUME ask \in Asks, NEW k \in 0..Len(ask.history)
    PROVE  /\ LastTurns(k) \in Seq(Turns) /\ Len(LastTurns(k)) = k
           /\ \A j \in 1..k : LastTurns(k)[j] = Len(ask.history) - k + j
<1>1. PICK n, p : n = Len(ask.history) /\ p = Positions
  OBVIOUS
<1>2. /\ n \in Nat /\ Turns = 1..n /\ p \in Seq(1..n) /\ Len(p) = n /\ \A i \in 1..n : p[i] = i
      /\ k \in 0..n /\ ~(k > n)
  <2>1. /\ n \in Nat /\ Turns = 1..n /\ p \in Seq(1..n) /\ Len(p) = n /\ \A i \in 1..n : p[i] = i
    BY <1>1, AskTyped, PositionsAre DEF Turns
  <2>2. k \in 0..n
    BY <1>1
  <2> QED
    BY <2>1, <2>2
<1>3. LastTurns(k) = SubSeq(p, n - k + 1, n)
  BY <1>1, <1>2 DEF LastTurns
<1>4. PICK l : l = n - k + 1
  OBVIOUS
<1>5. l \in 1..(n + 1) /\ n \in Nat /\ (l > n => k = 0) /\ n - l + 1 = k
  BY <1>2, <1>4
<1>6. PICK r : r = SubSeq(p, l, n)
  OBVIOUS
<1>7. r \in Seq(1..n) /\ Len(r) = k /\ \A j \in 1..k : r[j] = p[l + j - 1]
  BY <1>2, <1>5, <1>6
<1>8. \A j \in 1..k : r[j] = n - k + j
  BY <1>2, <1>4, <1>7
<1> QED
  BY <1>1, <1>2, <1>3, <1>4, <1>6, <1>7, <1>8

\* The first turns are those from the first, as many as there are.
LEMMA FirstTurnsAre ==
    ASSUME ask \in Asks, NEW k \in Nat
    PROVE  /\ FirstTurns(k) \in Seq(Turns)
           /\ Len(FirstTurns(k)) = (IF k > Len(ask.history) THEN Len(ask.history) ELSE k)
           /\ \A j \in 1..Len(FirstTurns(k)) : FirstTurns(k)[j] = j
<1>1. PICK n, p, l : n = Len(ask.history) /\ p = Positions /\ l = IF k > n THEN n ELSE k
  OBVIOUS
<1>2. n \in Nat /\ Turns = 1..n /\ p \in Seq(1..n) /\ Len(p) = n /\ l \in 0..n /\ \A i \in 1..n : p[i] = i
  BY <1>1, AskTyped, PositionsAre DEF Turns
<1>3. PICK r : r = SubSeq(p, 1, l)
  OBVIOUS
<1>4. FirstTurns(k) = r
  BY <1>1, <1>2, <1>3 DEF FirstTurns
<1>5. r \in Seq(1..n) /\ Len(r) = l /\ \A j \in 1..l : r[j] = p[j]
  <2>1. \A i \in 1..l : p[i] \in 1..n
    BY <1>2
  <2>2. /\ r \in Seq(1..n) /\ Len(r) = IF 1 <= l THEN l - 1 + 1 ELSE 0
        /\ \A j \in 1..(l - 1 + 1) : r[j] = p[1 + j - 1]
    BY <1>2, <1>3, <2>1, SubSeqProperties
  <2>3. l - 1 + 1 = l /\ \A j \in 1..l : 1 + j - 1 = j
    BY <1>2
  <2> QED
    BY <1>2, <2>2, <2>3
<1>6. \A j \in 1..l : r[j] = j
  BY <1>2, <1>5
<1> QED
  BY <1>1, <1>2, <1>4, <1>5, <1>6

\* A turn has a number of tokens.
LEMMA TurnTokens ==
    ASSUME ask \in Asks, NEW i \in Turns
    PROVE  EstimateTokens(ask.history[i]) \in Nat
<1>1. PICK w : w = ask.history[i]
  OBVIOUS
<1>2. w \in Nat
  BY <1>1, AskTyped
<1> QED
  BY <1>1, <1>2 DEF EstimateTokens

\* g has the token sums of s.
AddsTokens(s, g) == g = [k \in 0..Len(s) |-> IF k = 0 THEN 0 ELSE g[k - 1] + EstimateTokens(ask.history[s[k]])]

\* What TokenSums computes.
LEMMA TokenSumsOf ==
    ASSUME ask \in Asks, NEW s \in Seq(Turns)
    PROVE  /\ TokenSums(s)[0] = 0
           /\ \A k \in 1..Len(s) : TokenSums(s)[k] = TokenSums(s)[k - 1] + EstimateTokens(ask.history[s[k]])
           /\ \A k \in 0..Len(s) : TokenSums(s)[k] \in Nat
<1>00. PICK N, w : N = Len(s) /\ w = [k \in 1..N |-> EstimateTokens(ask.history[s[k]])]
  OBVIOUS
<1>01. \A k \in 1..N : s[k] \in Turns
  BY <1>00
<1>0. N = Len(s) /\ N \in Nat /\ \A k \in 1..N : w[k] \in Nat /\ w[k] = EstimateTokens(ask.history[s[k]])
  BY <1>00, <1>01, TurnTokens
<1> DEFINE turn == [p \in (1..N) \X Nat |-> p[2] + w[p[1]]]
<1>1. StepsIn(N, Nat, turn)
  BY <1>0 DEF StepsIn
<1>2. \A k \in 1..N : \A v \in Nat : turn[<<k, v>>] = v + w[k]
  OBVIOUS
<1> HIDE DEF turn
<1>30. PICK g : RecFrom(0, N, Nat, turn, g)
  <2>1. 0 \in Nat /\ N \in Nat
    BY <1>0
  <2> QED
    BY <1>1, <2>1, RecExists
<1>3. g \in [0..N -> Nat] /\ g[0] = 0 /\ \A k \in 1..N : g[k] = turn[<<k, g[k - 1]>>]
  BY <1>30 DEF RecFrom
<1>4. \A k \in 1..N : k - 1 \in 0..N /\ g[k - 1] \in Nat /\ g[k] = g[k - 1] + w[k]
  <2>1. \A k \in 1..N : k - 1 \in 0..N
    BY <1>0
  <2>2. \A k \in 1..N : g[k - 1] \in Nat
    BY <1>3, <2>1
  <2> QED
    BY <1>2, <1>3, <2>1, <2>2
<1>5. AddsTokens(s, g)
  <2>1. \A k \in 0..N : g[k] = IF k = 0 THEN 0 ELSE g[k - 1] + EstimateTokens(ask.history[s[k]])
    <3>1. \A k \in 0..N : k = 0 \/ k \in 1..N
      BY <1>0
    <3> QED
      BY <1>0, <1>3, <1>4, <3>1
  <2>2. g = [k \in 0..N |-> g[k]]
    BY <1>3
  <2> QED
    BY <1>0, <2>1, <2>2 DEF AddsTokens
<1>6. TokenSums(s) = CHOOSE f : AddsTokens(s, f)
  BY DEF TokenSums, AddsTokens
<1>7. PICK f : f = TokenSums(s) /\ AddsTokens(s, f)
  BY <1>5, <1>6
<1>8. f[0] = 0 /\ \A k \in 1..N : f[k] = f[k - 1] + w[k]
  <2>1. 0 \in 0..N /\ \A k \in 1..N : k \in 0..N /\ k # 0
    BY <1>0
  <2> QED
    BY <1>0, <1>7, <2>1 DEF AddsTokens
<1>9. \A k \in 0..N : f[k] = g[k]
  <2>1. GoAlike(N, f, g)
    BY <1>3, <1>4, <1>8 DEF GoAlike
  <2>2. Alike(N, f, g)
    BY <1>0, <2>1, RecAgree
  <2> QED
    BY <2>2 DEF Alike
<1> QED
  BY <1>0, <1>3, <1>7, <1>8, <1>9

\* The last k turns have the tokens of all but those of the turns before them.
LEMMA TokensAtEnd ==
    ASSUME ask \in Asks, NEW k \in 0..Len(ask.history)
    PROVE  Tokens(LastTurns(k)) = TokenSums(Positions)[Len(ask.history)] - TokenSums(Positions)[Len(ask.history) - k]
<1>1. PICK n, f, q, g : n = Len(ask.history) /\ f = TokenSums(Positions) /\ q = LastTurns(k) /\ g = TokenSums(q)
  OBVIOUS
<1>2. n \in Nat /\ Turns = 1..n /\ k \in 0..n /\ n - k \in 0..n
  BY <1>1, AskTyped DEF Turns
<1>3. /\ \A i \in 1..n : f[i] = f[i - 1] + EstimateTokens(ask.history[i])
      /\ \A i \in 0..n : f[i] \in Nat
  BY <1>1, <1>2, PositionsAre, TokenSumsOf
<1>4. q \in Seq(Turns) /\ Len(q) = k /\ \A j \in 1..k : q[j] = n - k + j
  BY <1>1, LastTurnsAre
<1>5. /\ g[0] = 0 /\ \A j \in 1..k : g[j] = g[j - 1] + EstimateTokens(ask.history[q[j]])
      /\ \A j \in 0..k : g[j] \in Nat
  BY <1>1, <1>4, TokenSumsOf
<1>6. PICK a, b : a = [j \in 0..k |-> g[j] + f[n - k]] /\ b = [j \in 0..k |-> f[n - k + j]]
  OBVIOUS
<1>7. GoAlike(k, a, b)
  <2>1. a[0] = b[0]
    BY <1>2, <1>3, <1>5, <1>6
  <2>2. ASSUME NEW j \in 1..k, a[j - 1] = b[j - 1] PROVE a[j] = b[j]
    <3>1. j \in 0..k /\ j - 1 \in 0..k /\ n - k + j \in 1..n /\ n - k + (j - 1) = (n - k + j) - 1 /\ n - k + (j - 1) \in 0..n
      BY <1>2, <2>2
    <3>2. PICK i : i = n - k + j
      OBVIOUS
    <3>3. i \in 1..n /\ i - 1 \in 0..n /\ q[j] = i /\ i \in Turns
      BY <1>2, <1>4, <2>2, <3>1, <3>2
    <3>4. a[j] = g[j] + f[n - k] /\ a[j - 1] = g[j - 1] + f[n - k] /\ b[j] = f[i] /\ b[j - 1] = f[i - 1]
      BY <1>6, <3>1, <3>2
    <3>5. PICK e : e = EstimateTokens(ask.history[i])
      OBVIOUS
    <3>6. e \in Nat /\ f[i] = f[i - 1] + e /\ g[j] = g[j - 1] + e
      BY <1>3, <1>5, <2>2, <3>3, <3>5, TurnTokens
    <3>7. g[j - 1] \in Nat /\ f[n - k] \in Nat /\ f[i - 1] \in Nat
      BY <1>2, <1>3, <1>5, <3>1, <3>3
    <3>8. PICK x, y, z : x = g[j - 1] /\ y = f[n - k] /\ z = f[i - 1]
      OBVIOUS
    <3>9. x \in Nat /\ y \in Nat /\ z \in Nat /\ x + y = z
      BY <2>2, <3>4, <3>7, <3>8
    <3>10. a[j] = (x + e) + y /\ b[j] = z + e
      BY <3>4, <3>6, <3>8
    <3> QED
      BY <3>6, <3>9, <3>10
  <2> QED
    BY <2>1, <2>2 DEF GoAlike
<1>8. a[k] = b[k]
  <2>1. Alike(k, a, b)
    BY <1>2, <1>7, RecAgree
  <2> QED
    BY <1>2, <2>1 DEF Alike
<1>9. a[k] = g[k] + f[n - k] /\ b[k] = f[n] /\ g[k] \in Nat /\ f[n - k] \in Nat /\ f[n] \in Nat
  BY <1>2, <1>3, <1>5, <1>6
<1>10. g[k] = f[n] - f[n - k]
  <2>1. PICK x, y, z : x = g[k] /\ y = f[n - k] /\ z = f[n]
    OBVIOUS
  <2>2. x \in Nat /\ y \in Nat /\ z \in Nat /\ x + y = z
    BY <1>8, <1>9, <2>1
  <2> QED
    BY <2>1, <2>2
<1>11. Tokens(q) = g[k]
  BY <1>1, <1>4 DEF Tokens
<1> QED
  BY <1>1, <1>10, <1>11

\* What the loop of the window carries.
Loops == [used : Int, drop : Nat]
\* g has the loop's turns.
DropsAs(limit, g) ==
    g = [i \in 0..Len(Positions) |->
            IF i = 0 THEN [used |-> Tokens(Positions), drop |-> 0] ELSE DropTurn(limit, i, g[i - 1])]

\* A turn of the loop goes on with a count and a sum.
LEMMA DropTurnTyped ==
    ASSUME ask \in Asks, NEW limit \in Nat, NEW i \in Turns, NEW s \in Loops
    PROVE  DropTurn(limit, i, s) \in Loops
<1>1. PICK e : e = EstimateTokens(ask.history[i])
  OBVIOUS
<1>2. e \in Nat
  BY <1>1, TurnTokens
<1>3. s.used \in Int /\ s.drop \in Nat
  BY DEF Loops
<1>4. s.used - e \in Int /\ s.drop + 1 \in Nat
  BY <1>2, <1>3
<1>5. DropTurn(limit, i, s) = IF s.used <= limit THEN s ELSE [used |-> s.used - e, drop |-> s.drop + 1]
  BY <1>1 DEF DropTurn
<1> QED
  BY <1>4, <1>5 DEF Loops

\* What Dropping computes.
LEMMA DroppingOf ==
    ASSUME ask \in Asks, NEW limit \in Nat
    PROVE  /\ Dropping(limit)[0] = [used |-> Tokens(Positions), drop |-> 0]
           /\ \A i \in Turns : Dropping(limit)[i] = DropTurn(limit, i, Dropping(limit)[i - 1])
           /\ \A i \in 0..Len(ask.history) : Dropping(limit)[i] \in Loops
<1>0. PICK N, b : N = Len(ask.history) /\ b = [used |-> Tokens(Positions), drop |-> 0]
  OBVIOUS
<1>1. N \in Nat /\ Turns = 1..N /\ Len(Positions) = N /\ b \in Loops
  <2>1. N \in Nat /\ Turns = 1..N /\ Len(Positions) = N /\ Positions \in Seq(Turns)
    BY <1>0, AskTyped, PositionsAre DEF Turns
  <2>2. Tokens(Positions) \in Nat
    <3>1. N \in 0..N
      BY <2>1
    <3> QED
      BY <2>1, <3>1, TokenSumsOf DEF Tokens
  <2> QED
    BY <1>0, <2>1, <2>2 DEF Loops
<1> DEFINE turn == [p \in (1..N) \X Loops |-> DropTurn(limit, p[1], p[2])]
<1>2. StepsIn(N, Loops, turn)
  <2>1. \A k \in 1..N : \A v \in Loops : DropTurn(limit, k, v) \in Loops
    BY <1>1, DropTurnTyped
  <2> QED
    BY <2>1 DEF StepsIn
<1>3. \A k \in 1..N : \A v \in Loops : turn[<<k, v>>] = DropTurn(limit, k, v)
  OBVIOUS
<1> HIDE DEF turn
<1>4. PICK g : RecFrom(b, N, Loops, turn, g)
  BY <1>1, <1>2, RecExists
<1>5. g \in [0..N -> Loops] /\ g[0] = b /\ \A k \in 1..N : g[k] = turn[<<k, g[k - 1]>>]
  BY <1>4 DEF RecFrom
<1>6. \A k \in 1..N : k - 1 \in 0..N /\ g[k - 1] \in Loops /\ g[k] = DropTurn(limit, k, g[k - 1])
  <2>1. \A k \in 1..N : k - 1 \in 0..N
    BY <1>1
  <2>2. \A k \in 1..N : g[k - 1] \in Loops
    BY <1>5, <2>1
  <2> QED
    BY <1>3, <1>5, <2>1, <2>2
<1>7. DropsAs(limit, g)
  <2>1. \A k \in 0..N : g[k] = IF k = 0 THEN b ELSE DropTurn(limit, k, g[k - 1])
    <3>1. \A k \in 0..N : k = 0 \/ k \in 1..N
      BY <1>1
    <3> QED
      BY <1>5, <1>6, <3>1
  <2>2. g = [k \in 0..N |-> g[k]]
    BY <1>5
  <2>3. g = [k \in 0..N |-> IF k = 0 THEN b ELSE DropTurn(limit, k, g[k - 1])]
    BY <2>1, <2>2
  <2> QED
    BY <1>0, <1>1, <2>3 DEF DropsAs
<1>8. Dropping(limit) = CHOOSE f : DropsAs(limit, f)
  BY DEF Dropping, DropsAs
<1>9. PICK f : f = Dropping(limit) /\ DropsAs(limit, f)
  BY <1>7, <1>8
<1>10. f[0] = b /\ \A k \in 1..N : f[k] = DropTurn(limit, k, f[k - 1])
  <2>1. 0 \in 0..N /\ \A k \in 1..N : k \in 0..N /\ k # 0
    BY <1>1
  <2>2. f = [k \in 0..N |-> IF k = 0 THEN b ELSE DropTurn(limit, k, f[k - 1])]
    BY <1>0, <1>1, <1>9 DEF DropsAs
  <2> QED
    BY <2>1, <2>2
<1>11. \A k \in 0..N : f[k] = g[k]
  <2>1. GoAlike(N, f, g)
    BY <1>5, <1>6, <1>10 DEF GoAlike
  <2>2. Alike(N, f, g)
    BY <1>1, <2>1, RecAgree
  <2> QED
    BY <2>2 DEF Alike
<1> QED
  BY <1>0, <1>1, <1>5, <1>9, <1>10, <1>11

\* After i turns of the loop: what is left, that one turn less did not fit, and that it stopped only where it fits.
Dropped(limit, i, s, f, n) ==
    /\ s.drop \in 0..i /\ s.used = f[n] - f[s.drop]
    /\ s.drop > 0 => f[n] - f[s.drop - 1] > limit
    /\ s.used > limit => s.drop = i

\* The window drops as few turns as make the rest fit.
LEMMA WindowDrops ==
    ASSUME ask \in Asks, NEW limit \in Nat
    PROVE  Dropped(limit, Len(ask.history), Dropping(limit)[Len(ask.history)], TokenSums(Positions), Len(ask.history))
<1>1. PICK n, f, g : n = Len(ask.history) /\ f = TokenSums(Positions) /\ g = Dropping(limit)
  OBVIOUS
<1>2. n \in Nat /\ Turns = 1..n
  BY <1>1, AskTyped DEF Turns
<1>3. /\ \A i \in 1..n : f[i] = f[i - 1] + EstimateTokens(ask.history[i])
      /\ \A i \in 0..n : f[i] \in Nat
      /\ f[0] = 0
  BY <1>1, <1>2, PositionsAre, TokenSumsOf
<1>4. /\ g[0] = [used |-> f[n], drop |-> 0]
      /\ \A i \in 1..n : g[i] = DropTurn(limit, i, g[i - 1])
      /\ \A i \in 0..n : g[i] \in Loops
  <2>1. Tokens(Positions) = f[n]
    BY <1>1, PositionsAre DEF Tokens
  <2> QED
    BY <1>1, <1>2, <2>1, DroppingOf
<1> DEFINE S == {i \in 0..n : Dropped(limit, i, g[i], f, n)}
<1>5. 0 \in S
  <2>1. f[n] \in Nat /\ f[n] - f[0] = f[n]
    BY <1>2, <1>3
  <2> QED
    BY <1>2, <1>4, <2>1 DEF Dropped
<1>6. ASSUME NEW i \in 1..n, i - 1 \in S PROVE i \in S
  <2>1. PICK s, t, e : s = g[i - 1] /\ t = g[i] /\ e = EstimateTokens(ask.history[i])
    OBVIOUS
  <2>2. i \in 0..n /\ i - 1 \in 0..n /\ i \in Turns
    BY <1>2, <1>6
  <2>3. s \in Loops /\ s.used \in Int /\ s.drop \in Nat /\ e \in Nat /\ t = DropTurn(limit, i, s)
    BY <1>4, <2>1, <2>2, TurnTokens DEF Loops
  <2>4. Dropped(limit, i - 1, s, f, n)
    BY <1>6, <2>1
  <2>5. CASE s.used <= limit
    <3>1. t = s
      BY <2>3, <2>5 DEF DropTurn
    <3>2. ~(s.used > limit) /\ s.drop \in 0..i
      BY <2>2, <2>3, <2>4, <2>5 DEF Dropped
    <3>3. Dropped(limit, i, s, f, n)
      BY <2>4, <3>2 DEF Dropped
    <3> QED
      BY <2>1, <2>2, <3>1, <3>3
  <2>6. CASE ~(s.used <= limit)
    <3>1. t = [used |-> s.used - e, drop |-> s.drop + 1]
      BY <2>1, <2>3, <2>6 DEF DropTurn
    <3>2. s.used > limit /\ s.drop = i - 1 /\ s.used = f[n] - f[i - 1]
      BY <2>3, <2>4, <2>6 DEF Dropped
    <3>3. t.drop = i /\ t.used = (f[n] - f[i - 1]) - e
      BY <2>2, <3>1, <3>2
    <3>4. f[i] = f[i - 1] + e /\ f[i] \in Nat /\ f[i - 1] \in Nat /\ f[n] \in Nat
      BY <1>2, <1>3, <2>1, <2>2
    <3>5. PICK x, y : x = f[i - 1] /\ y = f[n]
      OBVIOUS
    <3>6. x \in Nat /\ y \in Nat /\ f[i] = x + e /\ (y - x) - e = y - (x + e)
      BY <2>3, <3>4, <3>5
    <3>7. t.used = f[n] - f[i]
      BY <3>3, <3>5, <3>6
    <3>8. f[n] - f[i - 1] > limit
      BY <3>2
    <3>9. Dropped(limit, i, t, f, n)
      BY <2>2, <3>3, <3>7, <3>8 DEF Dropped
    <3> QED
      BY <2>1, <2>2, <3>9
  <2> QED
    BY <2>5, <2>6
<1>7. n \in S
  <2>1. Inductive(n, S)
    BY <1>5, <1>6 DEF Inductive
  <2>2. 0..n \subseteq S
    <3> HIDE DEF S
    <3> QED BY <1>2, <2>1, UpTo
  <2>3. n \in 0..n
    BY <1>2
  <2> QED
    BY <2>2, <2>3
<1> QED
  BY <1>1, <1>7

\* The window keeps the most turns that fit.
LEMMA WindowExact ==
    ASSUME ask \in Asks, NEW limit \in Nat
    PROVE  \E k \in 0..Len(ask.history) :
              /\ SlidingWindow(limit) = LastTurns(k) /\ (Tokens(LastTurns(k)) <= limit \/ k = 0)
              /\ k < Len(ask.history) => Tokens(LastTurns(k + 1)) > limit
<1>1. PICK n, f, s, d : /\ n = Len(ask.history) /\ f = TokenSums(Positions) /\ s = Dropping(limit)[n]
                        /\ d = s.drop
  OBVIOUS
<1>2. n \in Nat /\ Turns = 1..n /\ Len(Positions) = n
  BY <1>1, AskTyped, PositionsAre DEF Turns
<1>20. \A i \in 0..n : f[i] \in Nat
  BY <1>1, <1>2, PositionsAre, TokenSumsOf
<1>3. Dropped(limit, n, s, f, n)
  BY <1>1, WindowDrops
<1>4. d \in 0..n /\ s.used = f[n] - f[d] /\ (d > 0 => f[n] - f[d - 1] > limit) /\ (s.used > limit => d = n)
  BY <1>1, <1>3 DEF Dropped
<1>5. PICK k : k = n - d
  OBVIOUS
<1>6. k \in 0..n /\ n - k = d /\ (k < n => (k + 1 \in 0..n /\ n - (k + 1) = d - 1 /\ d > 0)) /\ (d = n => k = 0)
  BY <1>2, <1>4, <1>5
<1>7. SlidingWindow(limit) = LastTurns(k)
  BY <1>1, <1>2, <1>5 DEF SlidingWindow, DropCount
<1>8. Tokens(LastTurns(k)) = s.used /\ s.used \in Int
  <2>1. Tokens(LastTurns(k)) = f[n] - f[n - k]
    BY <1>1, <1>6, TokensAtEnd
  <2>2. f[n] \in Nat /\ f[d] \in Nat
    BY <1>2, <1>4, <1>20
  <2> QED
    BY <1>4, <1>6, <2>1, <2>2
<1>9. k < n => Tokens(LastTurns(k + 1)) > limit
  <2>1. CASE k < n
    <3>1. Tokens(LastTurns(k + 1)) = f[n] - f[n - (k + 1)]
      BY <1>1, <1>6, <2>1, TokensAtEnd
    <3> QED
      BY <1>4, <1>6, <2>1, <3>1
  <2> QED
    BY <2>1
<1>10. Tokens(LastTurns(k)) <= limit \/ k = 0
  BY <1>4, <1>6, <1>8
<1> QED
  BY <1>1, <1>6, <1>7, <1>9, <1>10

\* The turns of h are in the order of the history.
Rising(h) == \A i, j \in DOMAIN h : i < j => h[i] < h[j]

\* The last turns are in order.
LEMMA LastTurnsRise ==
    ASSUME ask \in Asks, NEW k \in Nat
    PROVE  Rising(LastTurns(k))
<1>0. PICK n : n = Len(ask.history)
  OBVIOUS
<1>1. n \in Nat /\ Len(Positions) = n
  BY <1>0, AskTyped, PositionsAre
<1>2. PICK l : l = IF k > n THEN n ELSE k
  OBVIOUS
<1>3. l \in 0..n /\ (k > n => l = n /\ n - l + 1 = 1) /\ (~(k > n) => l = k) /\ ~(l > n)
  BY <1>1, <1>2
<1>4. LastTurns(k) = LastTurns(l)
  BY <1>1, <1>3 DEF LastTurns
<1>5. PICK q : q = LastTurns(l)
  OBVIOUS
<1>6. q \in Seq(Turns) /\ Len(q) = l /\ \A j \in 1..l : q[j] = n - l + j
  BY <1>0, <1>3, <1>5, LastTurnsAre
<1>7. DOMAIN q = 1..l
  BY <1>6
<1>8. ASSUME NEW i \in 1..l, NEW j \in 1..l, i < j PROVE q[i] < q[j]
  <2>1. q[i] = n - l + i /\ q[j] = n - l + j
    BY <1>6, <1>8
  <2> QED
    BY <1>1, <1>3, <1>8, <2>1
<1>9. Rising(q)
  BY <1>7, <1>8 DEF Rising
<1> QED
  BY <1>4, <1>5, <1>9

\* The first turns are in order.
LEMMA FirstTurnsRise ==
    ASSUME ask \in Asks, NEW k \in Nat
    PROVE  Rising(FirstTurns(k))
<1>1. PICK q : q = FirstTurns(k)
  OBVIOUS
<1>2. q \in Seq(Turns) /\ \A j \in 1..Len(q) : q[j] = j
  BY <1>1, FirstTurnsAre
<1>3. DOMAIN q = 1..Len(q)
  BY <1>2
<1>4. Rising(q)
  BY <1>2, <1>3 DEF Rising
<1> QED
  BY <1>1, <1>4

\* Both ends are in order, with every turn they name.
LEMMA FirstLastExact ==
    ASSUME ask \in Asks, NEW a \in Nat, NEW b \in Nat
    PROVE  /\ Rising(FirstLast(a, b))
           /\ \A i \in Turns : i <= a \/ i > Len(ask.history) - b => \E j \in DOMAIN FirstLast(a, b) : FirstLast(a, b)[j] = i
<1>0. PICK n, p : n = Len(ask.history) /\ p = Positions
  OBVIOUS
<1>1. n \in Nat /\ Turns = 1..n /\ Len(p) = n /\ DOMAIN p = Turns /\ \A i \in Turns : p[i] = i
  BY <1>0, AskTyped, PositionsAre DEF Turns
<1>2. CASE a + b >= n
  <2>1. FirstLast(a, b) = p
    BY <1>0, <1>1, <1>2 DEF FirstLast
  <2>2. Rising(p)
    BY <1>1 DEF Rising
  <2> QED
    BY <1>0, <1>1, <2>1, <2>2
<1>3. CASE ~(a + b >= n)
  <2>0. a \in 0..n /\ b \in 0..n /\ ~(a > n) /\ a < n - b
    BY <1>1, <1>3
  <2>1. PICK q, r, c : q = FirstTurns(a) /\ r = LastTurns(b) /\ c = q \o r
    OBVIOUS
  <2>2. FirstLast(a, b) = c
    BY <1>0, <1>1, <1>3, <2>1 DEF FirstLast
  <2>3. q \in Seq(Turns) /\ Len(q) = a /\ \A j \in 1..a : q[j] = j
    BY <1>0, <2>0, <2>1, FirstTurnsAre
  <2>4. r \in Seq(Turns) /\ Len(r) = b /\ \A j \in 1..b : r[j] = n - b + j
    BY <1>0, <2>0, <2>1, LastTurnsAre
  <2>5. c \in Seq(Turns) /\ Len(c) = a + b /\ DOMAIN c = 1..(a + b)
        /\ (\A j \in 1..a : c[j] = q[j]) /\ \A j \in (a + 1)..(a + b) : c[j] = r[j - a]
    <3>1. c \in Seq(Turns) /\ Len(c) = a + b
      BY <2>1, <2>3, <2>4
    <3>2. DOMAIN c = 1..(a + b)
      BY <3>1
    <3>3. \A j \in 1..(a + b) : c[j] = IF j <= a THEN q[j] ELSE r[j - a]
      <4>1. q \in Seq(Turns) /\ r \in Seq(Turns) /\ Len(q) = a /\ Len(r) = b
        BY <2>3, <2>4
      <4>2. \A j \in 1..(Len(q) + Len(r)) : (q \o r)[j] = IF j <= Len(q) THEN q[j] ELSE r[j - Len(q)]
        BY <4>1, ConcatProperties
      <4> QED
        BY <2>1, <4>1, <4>2
    <3>4. \A j \in 1..a : j \in 1..(a + b) /\ j <= a
      BY <2>0
    <3>5. \A j \in (a + 1)..(a + b) : j \in 1..(a + b) /\ ~(j <= a)
      BY <2>0
    <3> QED
      BY <3>1, <3>2, <3>3, <3>4, <3>5
  <2>6. \A j \in 1..a : c[j] = j
    BY <2>3, <2>5
  <2>7. ASSUME NEW j \in (a + 1)..(a + b) PROVE c[j] = (n - b) + (j - a)
    <3>1. j - a \in 1..b
      BY <2>0
    <3> QED
      BY <2>4, <2>5, <3>1
  <2>8. ASSUME NEW i \in 1..(a + b), NEW j \in 1..(a + b), i < j PROVE c[i] < c[j]
    <3>1. CASE j <= a
      BY <2>0, <2>6, <2>8, <3>1
    <3>2. CASE i <= a /\ j > a
      <4>1. j \in (a + 1)..(a + b) /\ i \in 1..a
        BY <2>0, <2>8, <3>2
      <4>2. c[i] = i /\ c[j] = (n - b) + (j - a)
        BY <2>6, <2>7, <4>1
      <4> QED
        BY <1>1, <2>0, <3>2, <4>1, <4>2
    <3>3. CASE i > a
      <4>1. j \in (a + 1)..(a + b) /\ i \in (a + 1)..(a + b)
        BY <2>0, <2>8, <3>3
      <4>2. c[i] = (n - b) + (i - a) /\ c[j] = (n - b) + (j - a)
        BY <2>7, <4>1
      <4> QED
        BY <1>1, <2>0, <2>8, <4>1, <4>2
    <3> QED
      BY <2>0, <2>8, <3>1, <3>2, <3>3
  <2>9. Rising(c)
    BY <2>5, <2>8 DEF Rising
  <2>10. ASSUME NEW i \in Turns, i <= a \/ i > n - b PROVE \E j \in DOMAIN c : c[j] = i
    <3>1. CASE i <= a
      <4>1. i \in 1..a /\ i \in 1..(a + b)
        BY <1>1, <2>0, <3>1
      <4> QED
        BY <2>5, <2>6, <4>1
    <3>2. CASE i > n - b
      <4>1. PICK j : j = a + (i - (n - b))
        OBVIOUS
      <4>2. j \in (a + 1)..(a + b) /\ j \in 1..(a + b) /\ (n - b) + (j - a) = i
        BY <1>1, <2>0, <3>2, <4>1
      <4> QED
        BY <2>5, <2>7, <4>2
    <3> QED
      BY <2>10, <3>1, <3>2
  <2> QED
    BY <1>0, <2>2, <2>9, <2>10
<1> QED
  BY <1>2, <1>3

\* What is sent is trimmed as the step says.
LEMMA TruncatedExact ==
    ASSUME ask \in Asks
    PROVE  /\ Rising(Truncated)
           /\ ask.cut.by = "window" =>
                 \E k \in 0..Len(Positions) :
                    /\ Truncated = LastTurns(k) /\ (Tokens(LastTurns(k)) <= ask.cut.n \/ k = 0)
                    /\ k < Len(Positions) => Tokens(LastTurns(k + 1)) > ask.cut.n
           /\ ask.cut.by = "first_last" =>
                 \A i \in DOMAIN Positions :
                    i <= ask.cut.n \/ i > Len(Positions) - ask.cut.m => \E j \in DOMAIN Truncated : Truncated[j] = i
<1>1. ask.cut.n \in Nat /\ ask.cut.m \in Nat /\ Len(Positions) = Len(ask.history) /\ DOMAIN Positions = Turns
  BY AskTyped, PositionsAre
<1>2. ask.cut.by \in {"none", "last", "first", "first_last", "window"}
  BY AskTyped
<1>3. CASE ask.cut.by = "none"
  <2>1. Truncated = Positions
    BY <1>3 DEF Truncated
  <2>2. Rising(Positions)
    BY PositionsAre DEF Rising
  <2> QED
    BY <1>3, <2>1, <2>2
<1>4. CASE ask.cut.by = "last"
  <2>1. Truncated = LastTurns(ask.cut.n)
    BY <1>4 DEF Truncated
  <2> QED
    BY <1>1, <1>4, <2>1, LastTurnsRise
<1>5. CASE ask.cut.by = "first"
  <2>1. Truncated = FirstTurns(ask.cut.n)
    BY <1>5 DEF Truncated
  <2> QED
    BY <1>1, <1>5, <2>1, FirstTurnsRise
<1>6. CASE ask.cut.by = "first_last"
  <2>1. Truncated = FirstLast(ask.cut.n, ask.cut.m)
    BY <1>6 DEF Truncated
  <2> QED
    BY <1>1, <1>6, <2>1, FirstLastExact
<1>7. CASE ask.cut.by = "window"
  <2>1. Truncated = SlidingWindow(ask.cut.n)
    BY <1>7 DEF Truncated
  <2>2. PICK k \in 0..Len(ask.history) :
              /\ SlidingWindow(ask.cut.n) = LastTurns(k) /\ (Tokens(LastTurns(k)) <= ask.cut.n \/ k = 0)
              /\ k < Len(ask.history) => Tokens(LastTurns(k + 1)) > ask.cut.n
    BY <1>1, WindowExact
  <2>3. Rising(LastTurns(k))
    <3>1. k \in Nat
      BY <2>2, AskTyped
    <3> QED
      BY <3>1, LastTurnsRise
  <2> QED
    BY <1>1, <1>7, <2>1, <2>2, <2>3
<1> QED
  BY <1>2, <1>3, <1>4, <1>5, <1>6, <1>7

\* What is trimmed is a matter of the step.
LEMMA TruncatedSame ==
    ASSUME ask' = ask
    PROVE  Truncated' = Truncated
<1>1. Positions' = Positions
  BY DEF Positions
<1>2. ASSUME NEW s PROVE TokenSums(s)' = TokenSums(s)
  BY DEF TokenSums
<1>3. Tokens(Positions)' = Tokens(Positions)
  BY <1>1, <1>2 DEF Tokens
<1>4. ASSUME NEW limit PROVE Dropping(limit)' = Dropping(limit)
  BY <1>1, <1>3 DEF Dropping, DropTurn
<1>5. ASSUME NEW k PROVE LastTurns(k)' = LastTurns(k) /\ FirstTurns(k)' = FirstTurns(k)
  BY <1>1 DEF LastTurns, FirstTurns
<1>6. ASSUME NEW limit PROVE SlidingWindow(limit)' = SlidingWindow(limit)
  <2>1. DropCount(limit)' = DropCount(limit)
    BY <1>1, <1>4 DEF DropCount
  <2> QED
    BY <1>1, <2>1 DEF SlidingWindow, LastTurns
<1>7. ASSUME NEW a, NEW b PROVE FirstLast(a, b)' = FirstLast(a, b)
  BY <1>1, <1>5 DEF FirstLast
<1> QED
  BY <1>1, <1>5, <1>6, <1>7 DEF Truncated

\* The wait the provider asked for before its i-th retry.
ToldWait(after, i) == CASE after = "none" -> <<1, 2, 4>>[i] [] after = "date" -> Soon [] OTHER -> 7
Answers == Statuses \X RetryAfters
\* Every wait followed a rate limit, and was as long as told.
Waited(r, d) == \A i \in DOMAIN d : r[i][1] = "429" /\ d[i] = ToldWait(r[i][2], i)

\* Each wait belongs to a rate-limited reply; only the last reply may be without one.
ChatInv ==
    /\ ask \in Asks /\ qpc \in {"key", "build", "send", "wait", "done"}
    /\ replies \in Seq(Answers) /\ delays \in Seq(Nat) /\ Len(delays) <= 3
    /\ result \in {"none", "no_key", "no_url", "answer", "timeout"} \cup Statuses
    /\ Len(replies) \in {Len(delays), Len(delays) + 1}
    /\ qpc # "done" => Len(replies) = Len(delays) /\ result = "none"
    /\ qpc \in {"send", "wait"} => history = Truncated
    /\ ~Retrying => Len(delays) = 0
    /\ result = "429" => Len(replies) = IF Retrying THEN 4 ELSE 1
    /\ Waited(replies, delays)

\* A wait more, after a rate limit and as long as told.
LEMMA WaitedMore ==
    ASSUME NEW r \in Seq(Answers), NEW d \in Seq(Nat), Len(r) = Len(d), Waited(r, d),
           NEW after \in RetryAfters, NEW w \in Nat, w = ToldWait(after, Len(d) + 1)
    PROVE  Waited(Append(r, <<"429", after>>), Append(d, w))
<1>1. PICK a, q, e : a = <<"429", after>> /\ q = Append(r, a) /\ e = Append(d, w)
  OBVIOUS
<1>2. a \in Answers /\ a[1] = "429" /\ a[2] = after
  BY <1>1 DEF Answers, Statuses
<1>3. PICK n : n = Len(d)
  OBVIOUS
<1>4. n \in Nat /\ DOMAIN e = 1..(n + 1) /\ DOMAIN d = 1..n /\ e[n + 1] = w /\ q[n + 1] = a
      /\ \A i \in 1..n : e[i] = d[i] /\ q[i] = r[i]
  BY <1>1, <1>2, <1>3
<1>5. ASSUME NEW i \in DOMAIN e PROVE q[i][1] = "429" /\ e[i] = ToldWait(q[i][2], i)
  <2>1. CASE i = n + 1
    BY <1>2, <1>3, <1>4, <2>1
  <2>2. CASE i \in 1..n
    BY <1>4, <2>2 DEF Waited
  <2> QED
    BY <1>4, <2>1, <2>2
<1>6. Waited(q, e)
  BY <1>5 DEF Waited
<1> QED
  BY <1>1, <1>6

\* A reply more takes nothing from the waits.
LEMMA WaitedStill ==
    ASSUME NEW r \in Seq(Answers), NEW d \in Seq(Nat), Len(r) = Len(d), Waited(r, d), NEW a \in Answers
    PROVE  Waited(Append(r, a), d)
<1>1. \A i \in DOMAIN d : Append(r, a)[i] = r[i]
  OBVIOUS
<1> QED
  BY <1>1 DEF Waited

\* The wait after a rate limit is the one told.
LEMMA DelayTold ==
    ASSUME Len(delays) \in 0..2, NEW after \in RetryAfters
    PROVE  DelayOf(after) = ToldWait(after, Len(delays) + 1) /\ DelayOf(after) \in Nat
<1>1. Fallback = <<1, 2, 4>>[Len(delays) + 1] /\ Fallback \in Nat
  <2>1. PICK n : n = Len(delays)
    OBVIOUS
  <2>2. n \in {0, 1, 2} /\ n < 3
    BY <2>1
  <2>3. Fallback = <<1, 2, 4>>[n + 1]
    BY <2>1, <2>2 DEF Fallback, Backoffs, MaxRetries
  <2>4. <<1, 2, 4>>[n + 1] \in Nat
    <3>1. CASE n = 0
      BY <3>1
    <3>2. CASE n = 1
      BY <3>2
    <3>3. CASE n = 2
      BY <3>3
    <3> QED
      BY <2>2, <3>1, <3>2, <3>3
  <2> QED
    BY <2>1, <2>3, <2>4
<1>2. after \in {"none", "date", "7"}
  BY DEF RetryAfters
<1> QED
  BY <1>1, <1>2 DEF DelayOf, ToldWait, Soon

\* A call keeps it.
LEMMA ChatStep ==
    ChatInv /\ [ChatCallNext]_chatVars => ChatInv'
<1> SUFFICES ASSUME ChatInv, [ChatCallNext]_chatVars
             PROVE  ChatInv'
  OBVIOUS
<1>0. ask' = ask /\ Truncated' = Truncated /\ Retrying' = Retrying
  <2>1. ask' = ask
    BY DEF ChatCallNext, ResolveKey, BuildRequest, Reply, Resend, CallTimeout, ChatCallEnded, chatVars
  <2> QED
    BY <2>1, TruncatedSame DEF Retrying
<1>1. CASE ResolveKey
  BY <1>0, <1>1 DEF ChatInv, ResolveKey, EndCall, Statuses
<1>2. CASE BuildRequest
  BY <1>0, <1>2 DEF ChatInv, BuildRequest, EndCall, Statuses
<1>3. CASE Reply
  <2>1. PICK status \in Statuses, after \in RetryAfters :
          /\ replies' = Append(replies, <<status, after>>)
          /\ IF status = "429" /\ MayRetry
             THEN delays' = Append(delays, DelayOf(after)) /\ qpc' = "wait" /\ UNCHANGED result
             ELSE EndCall(IF status = "200" THEN "answer" ELSE status) /\ UNCHANGED delays
    BY <1>3 DEF Reply
  <2>2. qpc = "send" /\ history' = history /\ Len(replies) = Len(delays) /\ result = "none" /\ history = Truncated
    BY <1>3 DEF Reply, ChatInv
  <2>3. PICK r, d, a, w : r = replies /\ d = delays /\ a = <<status, after>> /\ w = DelayOf(after)
    OBVIOUS
  <2>4. /\ r \in Seq(Answers) /\ d \in Seq(Nat) /\ Len(r) = Len(d) /\ Waited(r, d) /\ a \in Answers
        /\ Len(d) \in 0..3 /\ replies' = Append(r, a)
    BY <2>1, <2>2, <2>3 DEF ChatInv, Answers
  <2>5. replies' \in Seq(Answers) /\ Len(replies') = Len(d) + 1
    <3>1. Append(r, a) \in Seq(Answers) /\ Len(Append(r, a)) = Len(r) + 1
      BY <2>4
    <3> QED
      BY <2>4, <3>1
  <2>6. CASE status = "429" /\ MayRetry
    <3>1. Len(d) \in 0..2 /\ Retrying
      BY <2>3, <2>4, <2>6 DEF MayRetry, MaxRetries
    <3>2. w \in Nat /\ w = ToldWait(after, Len(d) + 1)
      BY <2>3, <3>1, DelayTold
    <3>3. delays' = Append(d, w) /\ qpc' = "wait" /\ result' = result
      BY <2>1, <2>3, <2>6
    <3>4. delays' \in Seq(Nat) /\ Len(delays') = Len(d) + 1 /\ Len(delays') <= 3
      <4>1. Append(d, w) \in Seq(Nat) /\ Len(Append(d, w)) = Len(d) + 1
        BY <2>4, <3>2
      <4> QED
        BY <3>1, <3>3, <4>1
    <3>5. Waited(replies', delays')
      <4>1. Waited(Append(r, <<"429", after>>), Append(d, w))
        BY <2>1, <2>4, <3>2, WaitedMore
      <4> QED
        BY <2>1, <2>3, <2>6, <3>3, <4>1
    <3>6. Len(replies') = Len(delays')
      BY <2>5, <3>4
    <3> QED
      BY <1>0, <2>2, <2>5, <3>1, <3>3, <3>4, <3>5, <3>6 DEF ChatInv
  <2>7. CASE ~(status = "429" /\ MayRetry)
    <3>1. delays' = delays /\ qpc' = "done" /\ result' = IF status = "200" THEN "answer" ELSE status
      BY <2>1, <2>7 DEF EndCall
    <3>2. result' \in {"none", "no_key", "no_url", "answer", "timeout"} \cup Statuses
      BY <2>1, <3>1
    <3>3. Waited(replies', delays')
      <4>1. Waited(Append(r, a), d)
        BY <2>4, WaitedStill
      <4> QED
        BY <2>3, <2>4, <3>1, <4>1
    <3>4. ASSUME result' = "429" PROVE Len(replies') = IF Retrying THEN 4 ELSE 1
      <4>1. ~MayRetry
        BY <2>7, <3>1, <3>4
      <4>2. CASE Retrying
        <5>1. Len(d) = 3
          BY <2>3, <2>4, <4>1, <4>2 DEF MayRetry, MaxRetries
        <5> QED
          BY <2>5, <4>2, <5>1
      <4>3. CASE ~Retrying
        BY <2>3, <2>5, <4>3 DEF ChatInv
      <4> QED
        BY <4>2, <4>3
    <3>5. Len(replies') = Len(delays') + 1
      BY <2>3, <2>5, <3>1
    <3>6. delays' \in Seq(Nat) /\ Len(delays') <= 3 /\ (~Retrying' => Len(delays') = 0)
      BY <1>0, <3>1 DEF ChatInv
    <3>7. qpc' # "send" /\ qpc' # "wait" /\ ask' \in Asks
      BY <1>0, <3>1 DEF ChatInv
    <3> QED
      BY <1>0, <2>5, <3>1, <3>2, <3>3, <3>4, <3>5, <3>6, <3>7 DEF ChatInv
  <2> QED
    BY <2>6, <2>7
<1>4. CASE Resend
  BY <1>0, <1>4 DEF ChatInv, Resend
<1>5. CASE CallTimeout
  BY <1>0, <1>5 DEF ChatInv, CallTimeout, EndCall, Raced, Statuses
<1>6. CASE UNCHANGED chatVars
  BY <1>0, <1>6 DEF ChatInv, chatVars
<1> QED
  BY <1>1, <1>2, <1>3, <1>4, <1>5, <1>6 DEF ChatCallNext, ChatCallEnded

\* A call sends the history it should, waits as it is told and ends with the reply that counts, for every history,
\* truncation and sequence of replies.
THEOREM ChatCallIsSafe == ChatCallSpec => []ChatCallSafe
<1>1. ChatInit => ChatInv
  <2> SUFFICES ASSUME ChatInit PROVE ChatInv
    OBVIOUS
  <2>1. replies = << >> /\ delays = << >> /\ << >> \in Seq(Answers) /\ << >> \in Seq(Nat) /\ Len(<< >>) = 0
    BY DEF ChatInit
  <2>2. Waited(replies, delays)
    BY <2>1 DEF Waited
  <2> QED
    BY <2>1, <2>2 DEF ChatInit, ChatInv
<1>2. ChatInv => ChatCallSafe
  <2> SUFFICES ASSUME ChatInv PROVE ChatCallSafe
    OBVIOUS
  <2>0. Len(replies) \in Nat /\ Len(delays) \in Nat /\ DOMAIN delays = 1..Len(delays)
    BY DEF ChatInv
  <2>1. ChatCallTypeOK
    BY <2>0 DEF ChatInv, ChatCallTypeOK, MaxRetries
  <2>2. EndsWithLastReply
    <3>1. ASSUME NEW i \in 1..Len(replies) - 1 PROVE replies[i][1] = "429"
      <4>1. i \in DOMAIN delays
        BY <2>0, <3>1 DEF ChatInv
      <4> QED
        BY <4>1 DEF ChatInv, Waited
    <3> QED
      BY <3>1 DEF ChatInv, EndsWithLastReply, MaxRetries
  <2>3. WaitsAsTold
    BY DEF ChatInv, Waited, WaitsAsTold, ToldWait
  <2>4. TrimExact
    <3> SUFFICES ASSUME Sent PROVE TrimExact
      BY DEF TrimExact
    <3>1. history = Truncated /\ ask \in Asks
      BY DEF ChatInv, Sent
    <3> QED
      BY <3>1, TruncatedExact DEF TrimExact, Rising
  <2> QED
    BY <2>1, <2>2, <2>3, <2>4 DEF ChatCallSafe
<1> QED
  BY <1>1, <1>2, ChatStep, PTL DEF ChatCallSpec

-----------------------------------------------------------------------------
(* The Slack bot (module SlackBot): deliveries of one request and the      *)
(* tasks they started, in any order.                                       *)

Emoji == {"tick", "cross", "crash"}
CommandSet == {"fix issue", "review pr", "security audit", "generate docs", "fix ci"}
RunSet ==
    [workflow : CommandSet, pc : {"starting", "running", "ended", "panicked", "done"}, status : {"none", "ok", "failed", "spawn"}]

\* Types; what is in the thread is of a run or is the help.
SlackTypes ==
    /\ slack \in SlackRequests /\ delivered \in Nat \X Nat /\ delivered[1] + Len(answers) = delivered[2]
    /\ answers \in Seq({"200", "400", "401"}) /\ Len(runs) <= Len(answers)
    /\ runs \in Seq(RunSet)
    /\ posts \in Seq(({"help", "start"} \cup Emoji) \X Nat)
    /\ \A k \in DOMAIN posts : posts[k][2] <= Len(runs)

\* Every run is of the one request, and of the command it is routed to.
RoutedInv == \A i \in DOMAIN runs : Spoken /\ RouteMessage # "none" /\ runs[i].workflow = RouteMessage

\* How much of its story a run has told at each place.
StoryInv ==
    \A i \in DOMAIN runs :
        /\ runs[i].pc = "starting" => Posted(i) = {}
        /\ runs[i].pc \in {"running", "ended", "panicked"} => \A k, l \in Posted(i) : k = l /\ posts[k][1] = "start"
        /\ runs[i].pc \in {"ended", "done"} => runs[i].status # "none"

SlackInv == SlackTypes /\ RoutedInv /\ StoryInv /\ ThreadStory

\* The route depends on the request alone.
LEMMA SameRoute ==
    ASSUME slack' = slack
    PROVE  Spoken' = Spoken /\ RouteMessage' = RouteMessage
BY DEF Spoken, VerifySlackSignature, ForBot, RouteMessage

\* A message is routed to a command it contains and that none of its commands comes before.
LEMMA Routed ==
    ASSUME RouteMessage # "none", slack \in SlackRequests
    PROVE  /\ RouteMessage \in CommandSet /\ RouteMessage \in slack.says
           /\ \A c \in slack.says : ~Earlier(c, RouteMessage)
<1> DEFINE found == {i \in DOMAIN Commands : Commands[i] \in slack.says}
<1>0. /\ Commands[1] = "fix issue" /\ Commands[2] = "review pr" /\ Commands[3] = "security audit"
      /\ Commands[4] = "generate docs" /\ Commands[5] = "fix ci" /\ DOMAIN Commands = 1..5
  BY DEF Commands
<1>1. DOMAIN Commands = 1..5 /\ \A i \in DOMAIN Commands : i \in {1, 2, 3, 4, 5} /\ Commands[i] \in CommandSet
  <2>1. \A i \in 1..5 : i \in {1, 2, 3, 4, 5}
    OBVIOUS
  <2>2. \A i \in {1, 2, 3, 4, 5} : Commands[i] \in CommandSet
    <3>1. Commands[1] \in CommandSet /\ Commands[2] \in CommandSet /\ Commands[3] \in CommandSet
      BY <1>0 DEF CommandSet
    <3>2. Commands[4] \in CommandSet /\ Commands[5] \in CommandSet
      BY <1>0 DEF CommandSet
    <3> QED
      BY <3>1, <3>2
  <2> QED
    BY <1>0, <2>1, <2>2
<1>2. found \subseteq Nat
  BY <1>1
<1>3. found # {} /\ RouteMessage = Commands[CHOOSE i \in found : \A j \in found : i <= j]
  BY DEF RouteMessage
<1> HIDE DEF found
<1>4. PICK i : i = CHOOSE x \in found : \A j \in found : x <= j
  OBVIOUS
<1>5. i \in found /\ \A j \in found : i <= j
  BY <1>2, <1>3, <1>4, LeastOne
<1>6. RouteMessage = Commands[i]
  BY <1>3, <1>4
<1>7. i \in DOMAIN Commands /\ Commands[i] \in slack.says
  BY <1>5 DEF found
<1>8. ASSUME NEW c \in slack.says, Earlier(c, RouteMessage)
      PROVE  FALSE
  <2>1. PICK a, b \in DOMAIN Commands : a < b /\ Commands[a] = c /\ Commands[b] = Commands[i]
    BY <1>6, <1>8 DEF Earlier
  <2>2. a \in found
    BY <2>1, <1>8 DEF found
  <2>3. b = i
    BY <2>1, <1>0, <1>1, <1>7
  <2>4. i <= a /\ a \in 1..5 /\ i \in 1..5
    BY <2>2, <1>5, <1>1, <2>1, <1>7
  <2> QED
    BY <2>1, <2>3, <2>4
<1> QED
  BY <1>1, <1>6, <1>7, <1>8

\* The task i becomes r and may have posted w.
Moved(i, w, r) ==
    /\ r \in RunSet /\ r.workflow = runs[i].workflow /\ w \in {"start"} \cup Emoji
    /\ runs' = [runs EXCEPT ![i] = r] /\ posts' \in {posts, Append(posts, <<w, i>>)}
    /\ UNCHANGED <<slack, delivered, answers>>

\* What is then in the thread.
SlackTold(i, w, r) ==
    /\ DOMAIN runs' = DOMAIN runs /\ runs'[i] = r /\ \A j \in DOMAIN runs : j # i => runs'[j] = runs[j] /\ Posted(j)' = Posted(j)
    /\ \A k \in DOMAIN posts : k \in DOMAIN posts' /\ posts'[k] = posts[k] /\ k <= Len(posts)
    /\ \/ Posted(i)' = Posted(i)
       \/ Posted(i)' = Posted(i) \cup {Len(posts) + 1} /\ posts'[Len(posts) + 1] = <<w, i>>

MayGrow(p, e, q) == q = p \/ q = Append(p, e)

\* A thread with, perhaps, one more post.
LEMMA PostsGrow ==
    ASSUME NEW E, NEW p \in Seq(E), NEW e \in E, NEW q, MayGrow(p, e, q)
    PROVE  /\ q \in Seq(E) /\ \A k \in DOMAIN p : k \in DOMAIN q /\ q[k] = p[k] /\ k <= Len(p)
           /\ \A k \in DOMAIN q : k \in DOMAIN p \/ q[k] = e
           /\ \/ DOMAIN q = DOMAIN p
              \/ DOMAIN q = DOMAIN p \cup {Len(p) + 1} /\ q[Len(p) + 1] = e
<1>1. CASE q = p
  BY <1>1
<1>2. CASE q = Append(p, e)
  BY <1>2
<1> QED
  BY <1>1, <1>2 DEF MayGrow

\* A step of a task touches its own run and its own story.
LEMMA TellingKeeps ==
    ASSUME SlackTypes, RoutedInv, NEW i \in DOMAIN runs, NEW w, NEW r, Moved(i, w, r)
    PROVE  SlackTypes' /\ RoutedInv' /\ SlackTold(i, w, r)
<1>1. runs' \in Seq(RunSet) /\ Len(runs') = Len(runs) /\ DOMAIN runs' = DOMAIN runs /\ runs'[i] = r
      /\ \A j \in DOMAIN runs : j # i => runs'[j] = runs[j]
  BY DEF SlackTypes, Moved
<1>2. /\ posts' \in Seq(({"help", "start"} \cup Emoji) \X Nat)
      /\ \A k \in DOMAIN posts : k \in DOMAIN posts' /\ posts'[k] = posts[k] /\ k <= Len(posts)
      /\ \/ DOMAIN posts' = DOMAIN posts
         \/ DOMAIN posts' = DOMAIN posts \cup {Len(posts) + 1} /\ posts'[Len(posts) + 1] = <<w, i>>
  <2>1. <<w, i>> \in ({"help", "start"} \cup Emoji) \X Nat
    BY DEF Moved, SlackTypes
  <2> QED
    <3>1. PICK e \in ({"help", "start"} \cup Emoji) \X Nat : e = <<w, i>>
      BY <2>1
    <3>2. posts \in Seq(({"help", "start"} \cup Emoji) \X Nat) /\ (posts' = posts \/ posts' = Append(posts, e))
      BY <3>1 DEF SlackTypes, Moved
    <3>3. PICK E, p, q : E = ({"help", "start"} \cup Emoji) \X Nat /\ p = posts /\ q = posts'
      OBVIOUS
    <3>4. p \in Seq(E) /\ e \in E /\ MayGrow(p, e, q)
      BY <3>1, <3>2, <3>3 DEF MayGrow
    <3>5. /\ q \in Seq(E) /\ \A k \in DOMAIN p : k \in DOMAIN q /\ q[k] = p[k] /\ k <= Len(p)
          /\ \A k \in DOMAIN q : k \in DOMAIN p \/ q[k] = e
          /\ \/ DOMAIN q = DOMAIN p
             \/ DOMAIN q = DOMAIN p \cup {Len(p) + 1} /\ q[Len(p) + 1] = e
      BY <3>4, PostsGrow
    <3> QED
      BY <3>1, <3>3, <3>5
<1>3. /\ \A j \in DOMAIN runs : j # i => Posted(j)' = Posted(j)
      /\ \/ Posted(i)' = Posted(i)
         \/ Posted(i)' = Posted(i) \cup {Len(posts) + 1} /\ posts'[Len(posts) + 1] = <<w, i>>
  BY <1>2 DEF Posted
<1>4. SlackTypes'
  BY <1>1, <1>2 DEF SlackTypes, Moved
<1>5. RoutedInv'
  BY <1>1, SameRoute DEF RoutedInv, Moved
<1> QED
  BY <1>1, <1>2, <1>3, <1>4, <1>5 DEF SlackTold

\* Every step keeps the invariant.
LEMMA SlackStep ==
    SlackInv /\ [SlackNext]_slackVars => SlackInv'
<1> SUFFICES ASSUME SlackInv, [SlackNext]_slackVars
             PROVE  SlackInv'
  OBVIOUS
<1> USE DEF SlackInv
<1>1. CASE Deliver
  <2>1. UNCHANGED <<slack, answers, runs, posts>> /\ delivered' = <<delivered[1] + 1, delivered[2] + 1>>
    BY <1>1 DEF Deliver
  <2>2. SlackTypes'
    <3>1. delivered' \in Nat \X Nat /\ delivered'[1] = delivered[1] + 1 /\ delivered'[2] = delivered[2] + 1
      BY <2>1 DEF SlackTypes
    <3> QED
      BY <2>1, <3>1 DEF SlackTypes
  <2>3. RoutedInv'
    BY <2>1, SameRoute DEF RoutedInv
  <2>4. StoryInv' /\ ThreadStory'
    BY <2>1 DEF StoryInv, ThreadStory, Posted
  <2> QED
    BY <2>2, <2>3, <2>4
<1>2. CASE Handle
  <2>0. Launched \in Seq(RunSet) /\ Len(Launched) <= 1
        /\ \A i \in DOMAIN Launched : Spoken /\ RouteMessage # "none" /\ Launched[i] = RunOf(RouteMessage)
    <3>1. CASE Spoken /\ RouteMessage # "none"
      BY <3>1, Routed DEF SlackTypes, Launched, RunOf, RunSet
    <3>2. CASE ~(Spoken /\ RouteMessage # "none")
      BY <3>2 DEF Launched
    <3> QED
      BY <3>1, <3>2
  <2>1. PICK L : L = Launched
    OBVIOUS
  <2>2. /\ runs' = runs \o L /\ slack' = slack /\ delivered[1] > 0
        /\ delivered' = [delivered EXCEPT ![1] = delivered[1] - 1]
        /\ \E a \in {"200", "400", "401"} : answers' = Append(answers, a)
        /\ posts' \in {posts, Append(posts, <<"help", 0>>)}
    BY <1>2, <2>1 DEF Handle
  <2>3. runs' \in Seq(RunSet)
        /\ Len(runs') = Len(runs) + Len(L) /\ \A i \in DOMAIN runs : i \in DOMAIN runs' /\ runs'[i] = runs[i]
    BY <2>0, <2>1, <2>2 DEF SlackTypes
  <2>4. \A i \in DOMAIN runs' : i \in DOMAIN runs \/ (i > Len(runs) /\ Spoken /\ RouteMessage # "none" /\ runs'[i] = RunOf(RouteMessage))
    BY <2>0, <2>1, <2>2 DEF SlackTypes
  <2>5. /\ posts' \in Seq(({"help", "start"} \cup Emoji) \X Nat)
        /\ \A k \in DOMAIN posts : k \in DOMAIN posts' /\ posts'[k] = posts[k]
        /\ \A k \in DOMAIN posts' : k \in DOMAIN posts \/ posts'[k] = <<"help", 0>>
    <3>1. PICK e \in ({"help", "start"} \cup Emoji) \X Nat : e = <<"help", 0>>
      OBVIOUS
    <3>2. posts \in Seq(({"help", "start"} \cup Emoji) \X Nat) /\ (posts' = posts \/ posts' = Append(posts, e))
      BY <2>2, <3>1 DEF SlackTypes
    <3>3. PICK E, p, q : E = ({"help", "start"} \cup Emoji) \X Nat /\ p = posts /\ q = posts'
      OBVIOUS
    <3>4. p \in Seq(E) /\ e \in E /\ MayGrow(p, e, q)
      BY <3>1, <3>2, <3>3 DEF MayGrow
    <3>5. /\ q \in Seq(E) /\ \A k \in DOMAIN p : k \in DOMAIN q /\ q[k] = p[k] /\ k <= Len(p)
          /\ \A k \in DOMAIN q : k \in DOMAIN p \/ q[k] = e
          /\ \/ DOMAIN q = DOMAIN p
             \/ DOMAIN q = DOMAIN p \cup {Len(p) + 1} /\ q[Len(p) + 1] = e
      BY <3>4, PostsGrow
    <3> QED
      BY <3>1, <3>3, <3>5
  <2>6. \A i \in DOMAIN runs' : Posted(i)' = IF i \in DOMAIN runs THEN Posted(i) ELSE {}
    BY <2>3, <2>4, <2>5 DEF SlackTypes, Posted
  <2>7. SlackTypes'
    <3>1. \A k \in DOMAIN posts' : posts'[k][2] <= Len(runs')
      <4>1. Len(L) \in Nat /\ Len(runs) \in Nat /\ \A k \in DOMAIN posts : posts[k][2] <= Len(runs) /\ posts[k][2] \in Nat
        BY <2>0, <2>1 DEF SlackTypes
      <4>2. \A k \in DOMAIN posts' : (k \in DOMAIN posts /\ posts'[k] = posts[k]) \/ posts'[k][2] = 0
        BY <2>5
      <4> QED
        BY <2>3, <4>1, <4>2
    <3>2. delivered' \in Nat \X Nat /\ answers' \in Seq({"200", "400", "401"}) /\ Len(answers') = Len(answers) + 1
          /\ delivered'[1] + Len(answers') = delivered'[2]
      <4>1. PICK a \in {"200", "400", "401"} : answers' = Append(answers, a)
        BY <2>2
      <4>2. answers' \in Seq({"200", "400", "401"}) /\ Len(answers') = Len(answers) + 1 /\ Len(answers) \in Nat
        BY <4>1 DEF SlackTypes
      <4>3. delivered' \in Nat \X Nat /\ delivered'[1] = delivered[1] - 1 /\ delivered'[2] = delivered[2]
            /\ delivered[1] \in Nat /\ delivered[2] \in Nat
        BY <2>2 DEF SlackTypes
      <4> QED
        BY <4>2, <4>3 DEF SlackTypes
    <3> QED
      BY <3>1, <3>2, <2>0, <2>1, <2>2, <2>3, <2>5 DEF SlackTypes
  <2>8. RoutedInv'
    BY <2>2, <2>3, <2>4, SameRoute DEF RoutedInv, RunOf
  <2>9. StoryInv'
    BY <2>3, <2>4, <2>5, <2>6 DEF StoryInv, RunOf, Posted
  <2>10. ThreadStory'
    BY <2>3, <2>4, <2>5, <2>6 DEF ThreadStory, Posted
  <2> QED
    BY <2>7, <2>8, <2>9, <2>10
<1>3. CASE \E i \in 1..MaxDeliveries : SlackTask(i)
  <2>1. PICK i \in DOMAIN runs : SlackTask(i)
    BY <1>3 DEF SlackTask
  <2>0. runs[i] \in RunSet
    BY <2>1 DEF SlackTypes
  <2>2. CASE PostStart(i)
    <3>1. /\ runs[i].pc = "starting" /\ runs' = [runs EXCEPT ![i] = [runs[i] EXCEPT !.pc = "running"]]
          /\ posts' \in {posts, Append(posts, <<"start", i>>)} /\ UNCHANGED <<slack, delivered, answers>>
      BY <2>2 DEF PostStart, RunStep
    <3>2. PICK r : r = [runs[i] EXCEPT !.pc = "running"]
      OBVIOUS
    <3>21. r \in RunSet /\ r.pc = "running" /\ r.status = runs[i].status /\ r.workflow = runs[i].workflow
      BY <2>0, <3>2 DEF RunSet
    <3>3. Moved(i, "start", r)
      BY <2>1, <3>1, <3>2, <3>21 DEF Moved
    <3>4. SlackTypes' /\ RoutedInv' /\ SlackTold(i, "start", r)
      BY <2>1, <3>3, TellingKeeps
    <3>5. Posted(i) = {}
      BY <2>1, <3>1 DEF StoryInv
    <3>6. StoryInv' /\ ThreadStory'
      <4>1. \A j \in DOMAIN runs' : j \in DOMAIN runs /\ (j = i \/ (runs'[j] = runs[j] /\ Posted(j)' = Posted(j)))
        BY <3>4 DEF SlackTold
      <4>2. \A j \in DOMAIN runs : \A k \in Posted(j) : posts'[k] = posts[k]
        BY <3>4 DEF SlackTold, Posted
      <4>3. runs'[i] = r /\ \A k, l \in Posted(i)' : k = l /\ posts'[k][1] = "start"
        BY <3>4, <3>5 DEF SlackTold
      <4> QED
        <5>1. StoryInv'
          BY <4>1, <4>2, <4>3, <3>21 DEF StoryInv
        <5>2. ThreadStory'
          <6>1. \A k \in Posted(i)' : k \in Nat
            BY <3>4 DEF Posted, SlackTypes
          <6> QED
            BY <4>1, <4>2, <4>3, <3>21, <6>1 DEF ThreadStory
        <5> QED
          BY <5>1, <5>2
    <3> QED
      BY <3>4, <3>6
  <2>3. CASE Execute(i)
    <3>1. PICK s \in {"ok", "failed", "spawn"}, p \in {"ended", "panicked"} :
            runs' = [runs EXCEPT ![i] = [runs[i] EXCEPT !.pc = p, !.status = s]]
      BY <2>1, <2>3 DEF Execute, SlackTypes, RunSet
    <3>2. PICK r : r = [runs[i] EXCEPT !.pc = p, !.status = s]
      OBVIOUS
    <3>3. r \in RunSet /\ r.pc = p /\ r.status = s /\ r.workflow = runs[i].workflow
      BY <2>0, <3>1, <3>2 DEF RunSet
    <3>4. Moved(i, "start", r) /\ posts' = posts /\ runs[i].pc = "running"
      BY <2>1, <2>3, <3>1, <3>2, <3>3 DEF Moved, Execute
    <3>5. SlackTypes' /\ RoutedInv' /\ SlackTold(i, "start", r)
      BY <2>1, <3>4, TellingKeeps
    <3>60. /\ DOMAIN runs' = DOMAIN runs /\ runs'[i] = r /\ \A j \in DOMAIN runs : Posted(j)' = Posted(j)
           /\ \A j \in DOMAIN runs : j # i => runs'[j] = runs[j]
      BY <3>4, <3>5 DEF SlackTold, Posted
    <3>61. r.pc \in {"ended", "panicked"} /\ r.status # "none" /\ runs[i].pc = "running"
      BY <3>1, <3>3, <3>4
    <3>62. StoryInv'
      BY <3>4, <3>60, <3>61 DEF StoryInv
    <3>63. \A k \in Posted(i) : posts[k][1] = "start"
      BY <2>1, <3>61 DEF StoryInv
    <3>64. ThreadStory'
      BY <3>4, <3>60, <3>63 DEF ThreadStory
    <3>6. StoryInv' /\ ThreadStory'
      BY <3>62, <3>64
    <3> QED
      BY <3>5, <3>6
  <2>4. CASE PostEnd(i)
    <3>1. PICK w : w = PostedAs(runs[i].status)
      OBVIOUS
    <3>2. PICK r : r = [runs[i] EXCEPT !.pc = "done"]
      OBVIOUS
    <3>3. r \in RunSet /\ r.pc = "done" /\ r.status = runs[i].status /\ r.workflow = runs[i].workflow
      BY <2>0, <3>2 DEF RunSet
    <3>4. runs[i].pc = "ended" /\ runs[i].status \in {"ok", "failed", "spawn"}
      <4>1. runs[i].pc = "ended"
        BY <2>4 DEF PostEnd, RunStep
      <4>2. runs[i].status # "none"
        BY <2>1, <4>1 DEF StoryInv
      <4> QED
        BY <4>1, <4>2, <2>0 DEF RunSet
    <3>5. w \in Emoji /\ w = [ok |-> "tick", failed |-> "cross", spawn |-> "crash"][runs[i].status]
      BY <3>1, <3>4 DEF PostedAs, Emoji
    <3>6. Moved(i, w, r)
      BY <2>1, <2>4, <3>1, <3>2, <3>3, <3>5 DEF Moved, PostEnd, RunStep, Emoji
    <3>7. SlackTypes' /\ RoutedInv' /\ SlackTold(i, w, r)
      BY <2>1, <3>6, TellingKeeps
    <3>8. StoryInv'
      <4>1. \A j \in DOMAIN runs' : j \in DOMAIN runs /\ (j = i \/ (runs'[j] = runs[j] /\ Posted(j)' = Posted(j)))
        BY <3>7 DEF SlackTold
      <4>2. \A j \in DOMAIN runs : \A k \in Posted(j) : posts'[k] = posts[k]
        BY <3>7 DEF SlackTold, Posted
      <4>3. runs'[i] = r
        BY <3>7 DEF SlackTold
      <4> QED
        BY <4>1, <4>2, <4>3, <3>3, <3>4 DEF StoryInv
    <3>9. ThreadStory'
      <4> HIDE DEF SlackInv
      <4>1. \A k \in Posted(i) : posts[k][1] = "start" /\ \A l \in Posted(i) : k = l
        BY <2>1, <3>4 DEF SlackInv, StoryInv
      <4>2. w # "start"
        BY <3>5 DEF Emoji
      <4>3. ASSUME NEW j \in DOMAIN runs', j # i, NEW k \in Posted(j)'
            PROVE  /\ \A l \in Posted(j)' : k < l => posts'[k][1] = "start" /\ posts'[l][1] # "start"
                   /\ posts'[k][1] # "start" =>
                        runs'[j].pc = "done" /\ posts'[k][1] = [ok |-> "tick", failed |-> "cross", spawn |-> "crash"][runs'[j].status]
        <5>1. j \in DOMAIN runs /\ runs'[j] = runs[j] /\ Posted(j)' = Posted(j) /\ \A l \in Posted(j) : posts'[l] = posts[l]
          BY <4>3, <3>7 DEF SlackTold, Posted
        <5> QED
          BY <5>1, <4>3 DEF SlackInv, ThreadStory
      <4>4. ASSUME NEW k \in Posted(i)'
            PROVE  /\ \A l \in Posted(i)' : k < l => posts'[k][1] = "start" /\ posts'[l][1] # "start"
                   /\ posts'[k][1] # "start" =>
                        runs'[i].pc = "done" /\ posts'[k][1] = [ok |-> "tick", failed |-> "cross", spawn |-> "crash"][runs'[i].status]
        <5>1. Len(posts) \in Nat /\ runs'[i] = r /\ DOMAIN posts \subseteq Nat
          BY <3>7 DEF SlackTold, SlackInv, SlackTypes
        <5>2. \A l \in Posted(i)' : (l \in Posted(i) /\ posts'[l] = posts[l] /\ l <= Len(posts) /\ l \in Nat)
                                     \/ (l = Len(posts) + 1 /\ posts'[l] = <<w, i>>)
          <6>1. \A l \in Posted(i) : l \in DOMAIN posts /\ posts'[l] = posts[l] /\ l <= Len(posts) /\ l \in Nat
            BY <3>7, <5>1 DEF SlackTold, Posted
          <6> QED
            BY <3>7, <6>1 DEF SlackTold
        <5>3. \A l \in Posted(i)' : l \in Nat /\ (posts'[l][1] = "start" \/ posts'[l][1] = w)
              /\ (l <= Len(posts) <=> posts'[l][1] = "start")
          BY <5>1, <5>2, <4>1, <4>2
        <5>4. \A l, m \in Posted(i)' : l < m => l <= Len(posts) /\ m > Len(posts)
          BY <5>1, <5>2, <4>1
        <5> QED
          BY <5>1, <5>3, <5>4, <3>3, <3>5, <4>4
      <4> QED
        BY <4>3, <4>4 DEF ThreadStory
    <3> QED
      BY <3>7, <3>8, <3>9
  <2> QED
    BY <2>1, <2>2, <2>3, <2>4 DEF SlackTask
<1>4. CASE UNCHANGED slackVars
  <2>1. UNCHANGED <<slack, delivered, answers, runs, posts>>
    BY <1>4 DEF slackVars
  <2>2. SlackTypes'
    BY <2>1 DEF SlackTypes
  <2>3. RoutedInv'
    BY <2>1, SameRoute DEF RoutedInv
  <2>4. StoryInv' /\ ThreadStory'
    BY <2>1 DEF StoryInv, ThreadStory, Posted
  <2> QED
    BY <2>2, <2>3, <2>4
<1> QED
  BY <1>1, <1>2, <1>3, <1>4 DEF SlackNext, SlackIdle

\* However often Slack delivers a request and however the tasks interleave: a run is started only by a genuine
\* mention, it is that of the first command the bot knows, and the thread tells its story in order.
THEOREM SlackIsSafe == SlackSpec => []SlackSafe
<1>1. SlackInit => SlackInv
  BY SlackAssumption DEF SlackInit, SlackInv, SlackTypes, RoutedInv, StoryInv, ThreadStory, Posted
<1>2. SlackInv => SlackSafe
  <2> SUFFICES ASSUME SlackInv
               PROVE  SlackSafe
    OBVIOUS
  <2>1. SlackTypeOK
    BY DEF SlackInv, SlackTypes, SlackTypeOK
  <2>2. OnlyGenuine
    BY DEF SlackInv, SlackTypes, RoutedInv, OnlyGenuine, Spoken, VerifySlackSignature, ForBot
  <2>3. FirstCommandRuns
    BY Routed DEF SlackInv, SlackTypes, RoutedInv, FirstCommandRuns
  <2> QED
    BY <2>1, <2>2, <2>3 DEF SlackInv, SlackSafe
<1> QED
  BY <1>1, <1>2, SlackStep, PTL DEF SlackSpec

-----------------------------------------------------------------------------
(* The log stream (module RemoteLogs).                                     *)

\* The tokens of the streams, the events they can hold, and the states of a scan.
Alphabet == {CR, LF, Lossy} \cup UNION {{s[i] : i \in DOMAIN s} : s \in Streams}
Parsed == {ParseSseEvent(f) : f \in Seq(Alphabet)}
ScanStates == [events : Seq(Parsed), tail : Seq(Alphabet)]

\* The text ends with the first of two line ends, and the events with the one it holds.
Ends(tail) == Trimmed(tail) # << >> /\ Trimmed(tail)[Len(Trimmed(tail))] = LF
WithEvent(events, text) ==
    LET event == ParseSseEvent(SubSeq(text, 1, Len(text) - 1))
    IN  IF DOMAIN event.data = {} THEN events ELSE Append(events, event)

\* A trimmed text is a text.
LEMMA TrimmedIn ==
    ASSUME NEW A, NEW q \in Seq(A)
    PROVE  /\ Trimmed(q) \in Seq(A) /\ Len(Trimmed(q)) <= Len(q)
           /\ Len(Trimmed(q)) \in Nat
           /\ \A i \in 1..Len(Trimmed(q)) : Trimmed(q)[i] = q[i]
<1>1. CASE q # << >> /\ q[Len(q)] = CR
  <2>1. Len(q) \in Nat /\ Len(q) >= 1 /\ Len(q) - 1 \in 0..Len(q)
    BY <1>1
  <2>2. Trimmed(q) = SubSeq(q, 1, Len(q) - 1)
    BY <1>1 DEF Trimmed
  <2>3. Trimmed(q) \in Seq(A) /\ Len(Trimmed(q)) = Len(q) - 1
    <3>1. PICK n : n = Len(q) - 1
      OBVIOUS
    <3>2. n \in Nat /\ 1 \in 1..(Len(q) + 1) /\ n \in 0..Len(q)
      BY <2>1, <3>1
    <3>3. SubSeq(q, 1, n) \in Seq(A) /\ Len(SubSeq(q, 1, n)) = n
      BY <3>2
    <3> QED
      BY <2>2, <3>1, <3>3
  <2>4. \A i \in 1..(Len(q) - 1) : Trimmed(q)[i] = q[i]
    BY <2>1, <2>2
  <2> QED
    BY <2>1, <2>3, <2>4
<1>2. CASE ~(q # << >> /\ q[Len(q)] = CR)
  <2>1. Trimmed(q) = q
    BY <1>2 DEF Trimmed
  <2> QED
    BY <2>1
<1> QED
  BY <1>1, <1>2

\* What one token does.
LEMMA ScanStepIs ==
    ASSUME NEW a \in ScanStates, NEW t \in Alphabet
    PROVE  /\ t # LF => /\ ScanStep(a, t).events = a.events
                        /\ ScanStep(a, t).tail = Append(a.tail, t)
           /\ t = LF /\ ~Ends(a.tail) => /\ ScanStep(a, t).events = a.events
                                         /\ ScanStep(a, t).tail = Append(Trimmed(a.tail), LF)
           /\ t = LF /\ Ends(a.tail) => /\ ScanStep(a, t).events = WithEvent(a.events, Trimmed(a.tail))
                                        /\ ScanStep(a, t).tail = << >>
           /\ ScanStep(a, t) \in ScanStates
<1>0. a.events \in Seq(Parsed) /\ a.tail \in Seq(Alphabet) /\ a = [events |-> a.events, tail |-> a.tail]
  BY DEF ScanStates
<1>1. PICK e, q, text : e = a.events /\ q = a.tail /\ text = Trimmed(q)
  OBVIOUS
<1>2. e \in Seq(Parsed) /\ q \in Seq(Alphabet) /\ text \in Seq(Alphabet) /\ LF \in Alphabet
  BY <1>0, <1>1, TrimmedIn DEF Alphabet
<1>3. CASE t # LF
  <2>1. ScanStep(a, t) = [events |-> e, tail |-> Append(q, t)]
    BY <1>0, <1>1, <1>3 DEF ScanStep
  <2>2. Append(q, t) \in Seq(Alphabet)
    BY <1>2
  <2> QED
    BY <1>1, <1>2, <1>3, <2>1, <2>2 DEF ScanStates
<1>4. CASE t = LF /\ ~Ends(a.tail)
  <2>1. ScanStep(a, t) = [events |-> e, tail |-> Append(text, LF)]
    BY <1>0, <1>1, <1>4 DEF ScanStep, Ends
  <2>2. Append(text, LF) \in Seq(Alphabet)
    BY <1>2
  <2> QED
    BY <1>1, <1>2, <1>4, <2>1, <2>2 DEF ScanStates
<1>5. CASE t = LF /\ Ends(a.tail)
  <2>1. ScanStep(a, t) = [events |-> WithEvent(e, text), tail |-> << >>]
    BY <1>0, <1>1, <1>5 DEF ScanStep, Ends, WithEvent
  <2>2. WithEvent(e, text) \in Seq(Parsed)
    <3>1. Len(text) \in Nat /\ Len(text) >= 1
      BY <1>1, <1>2, <1>5 DEF Ends
    <3>2. SubSeq(text, 1, Len(text) - 1) \in Seq(Alphabet)
      BY <1>2, <3>1
    <3>3. PICK v : v = ParseSseEvent(SubSeq(text, 1, Len(text) - 1))
      OBVIOUS
    <3>4. v \in Parsed
      BY <3>2, <3>3 DEF Parsed
    <3>5. WithEvent(e, text) = IF DOMAIN v.data = {} THEN e ELSE Append(e, v)
      BY <3>3 DEF WithEvent
    <3> QED
      BY <1>2, <3>4, <3>5
  <2>3. << >> \in Seq(Alphabet)
    OBVIOUS
  <2> QED
    BY <1>1, <1>5, <2>1, <2>2, <2>3 DEF ScanStates
<1> QED
  BY <1>3, <1>4, <1>5

\* The function a scan goes through.
ScansAs(a, s, f) == f = [k \in 0..Len(s) |-> IF k = 0 THEN a ELSE ScanStep(f[k - 1], s[k])]
Scans(a, s, f) == f[0] = a /\ \A k \in 1..Len(s) : f[k] = ScanStep(f[k - 1], s[k])

\* What Scanned computes.
LEMMA ScannedIs ==
    ASSUME NEW a \in ScanStates, NEW s \in Seq(Alphabet)
    PROVE  \E f : Scans(a, s, f) /\ Scanned(a, s) = f[Len(s)] /\ \A k \in 0..Len(s) : f[k] \in ScanStates
<1>0. PICK N, V, b : N = Len(s) /\ V = ScanStates /\ b = a
  OBVIOUS
<1>1. N \in Nat /\ b \in V /\ \A j \in 1..N : s[j] \in Alphabet
  BY <1>0
<1> DEFINE turn == [p \in (1..N) \X V |-> ScanStep(p[2], s[p[1]])]
<1>2. StepsIn(N, V, turn)
  <2>1. \A k \in 1..N : \A v \in V : ScanStep(v, s[k]) \in V
    BY <1>0, <1>1, ScanStepIs
  <2> QED
    BY <2>1 DEF StepsIn
<1>3. \A k \in 1..N : \A v \in V : turn[<<k, v>>] = ScanStep(v, s[k])
  OBVIOUS
<1> HIDE DEF turn
<1>4. PICK g : RecFrom(b, N, V, turn, g)
  BY <1>1, <1>2, RecExists
<1>5. g \in [0..N -> V] /\ g[0] = b /\ \A k \in 1..N : g[k] = turn[<<k, g[k - 1]>>]
  BY <1>4 DEF RecFrom
<1>6. \A k \in 1..N : k - 1 \in 0..N /\ g[k - 1] \in V /\ g[k] = ScanStep(g[k - 1], s[k])
  <2>1. \A k \in 1..N : k - 1 \in 0..N
    BY <1>1
  <2>2. \A k \in 1..N : g[k - 1] \in V
    BY <1>5, <2>1
  <2> QED
    BY <1>3, <1>5, <2>1, <2>2
<1>7. ScansAs(a, s, g)
  <2>1. \A k \in 0..N : g[k] = IF k = 0 THEN b ELSE ScanStep(g[k - 1], s[k])
    <3>1. \A k \in 0..N : k = 0 \/ k \in 1..N
      BY <1>1
    <3> QED
      BY <1>5, <1>6, <3>1
  <2>2. g = [k \in 0..N |-> g[k]]
    BY <1>5
  <2>3. g = [k \in 0..N |-> IF k = 0 THEN b ELSE ScanStep(g[k - 1], s[k])]
    BY <2>1, <2>2
  <2> QED
    BY <1>0, <1>1, <2>3 DEF ScansAs
<1>8. Scanned(a, s) = (CHOOSE f : ScansAs(a, s, f))[Len(s)]
  BY DEF Scanned, ScansAs
<1>9. PICK f : f = (CHOOSE h : ScansAs(a, s, h)) /\ ScansAs(a, s, f)
  BY <1>7
<1>10. f[0] = b /\ \A k \in 1..N : f[k] = ScanStep(f[k - 1], s[k])
  <2>1. 0 \in 0..N /\ \A k \in 1..N : k \in 0..N /\ k # 0
    BY <1>1
  <2>2. f = [k \in 0..N |-> IF k = 0 THEN b ELSE ScanStep(f[k - 1], s[k])]
    BY <1>0, <1>1, <1>9 DEF ScansAs
  <2> QED
    BY <2>1, <2>2
<1>11. \A k \in 0..N : f[k] = g[k]
  <2>1. GoAlike(N, f, g)
    BY <1>5, <1>6, <1>10 DEF GoAlike
  <2>2. Alike(N, f, g)
    BY <1>1, <2>1, RecAgree
  <2> QED
    BY <2>2 DEF Alike
<1>12. Scans(a, s, f) /\ Scanned(a, s) = f[Len(s)]
  BY <1>0, <1>8, <1>9, <1>10 DEF Scans
<1>13. \A k \in 0..N : f[k] \in ScanStates
  BY <1>0, <1>5, <1>11
<1> QED
  BY <1>0, <1>12, <1>13

\* A scan can be taken in two parts.
LEMMA ScanOn ==
    ASSUME NEW a \in ScanStates, NEW s \in Seq(Alphabet), NEW t \in Seq(Alphabet)
    PROVE  /\ Scanned(a, s) \in ScanStates
           /\ Scanned(a, s \o t) = Scanned(Scanned(a, s), t)
<1>1. PICK u, n, m : u = s \o t /\ n = Len(s) /\ m = Len(t)
  OBVIOUS
<1>2. n \in Nat /\ m \in Nat
  BY <1>1
<1>3. u \in Seq(Alphabet) /\ Len(u) = n + m /\ (\A i \in 1..n : u[i] = s[i])
      /\ \A i \in 1..m : u[n + i] = t[i]
  BY <1>1, <1>2
<1>4. PICK f : Scans(a, s, f) /\ Scanned(a, s) = f[n] /\ \A k \in 0..n : f[k] \in ScanStates
  BY <1>1, ScannedIs
<1>5. PICK b : b = f[n] /\ b \in ScanStates
  BY <1>2, <1>4
<1>6. PICK g : Scans(b, t, g) /\ Scanned(b, t) = g[m]
  BY <1>1, <1>5, ScannedIs
<1>7. PICK h : Scans(a, u, h) /\ Scanned(a, u) = h[n + m]
  BY <1>3, ScannedIs
<1>8. h[n] = f[n]
  <2>1. GoAlike(n, h, f)
    <3>1. h[0] = f[0] /\ \A k \in 1..n : f[k] = ScanStep(f[k - 1], s[k])
      BY <1>1, <1>4, <1>7 DEF Scans
    <3>2. \A k \in 1..n : h[k] = ScanStep(h[k - 1], s[k])
      <4>1. \A k \in 1..n : k \in 1..(n + m)
        BY <1>2
      <4>2. \A k \in 1..(n + m) : h[k] = ScanStep(h[k - 1], u[k])
        BY <1>3, <1>7 DEF Scans
      <4> QED
        BY <1>3, <4>1, <4>2
    <3> QED
      BY <3>1, <3>2 DEF GoAlike
  <2>2. Alike(n, h, f) /\ n \in 0..n
    BY <1>2, <2>1, RecAgree
  <2> QED
    BY <2>2 DEF Alike
<1>9. PICK e : e = [k \in 0..m |-> h[n + k]]
  OBVIOUS
<1>10. e[m] = g[m]
  <2>1. GoAlike(m, e, g)
    <3>1. e[0] = g[0]
      <4>1. 0 \in 0..m /\ n + 0 = n
        BY <1>2
      <4>2. g[0] = b
        BY <1>6 DEF Scans
      <4> QED
        BY <1>5, <1>8, <1>9, <4>1, <4>2
    <3>2. ASSUME NEW k \in 1..m PROVE e[k] = ScanStep(e[k - 1], t[k])
      <4>1. k \in 0..m /\ k - 1 \in 0..m /\ n + k \in 1..(n + m) /\ (n + k) - 1 = n + (k - 1)
        BY <1>2
      <4>2. h[n + k] = ScanStep(h[(n + k) - 1], u[n + k])
        BY <1>3, <1>7, <4>1 DEF Scans
      <4>3. e[k] = h[n + k] /\ e[k - 1] = h[n + (k - 1)]
        BY <1>9, <4>1
      <4>4. h[(n + k) - 1] = e[k - 1]
        BY <4>1, <4>3
      <4> QED
        BY <1>3, <4>2, <4>3, <4>4
    <3>3. \A k \in 1..m : g[k] = ScanStep(g[k - 1], t[k])
      BY <1>1, <1>6 DEF Scans
    <3> QED
      BY <3>1, <3>2, <3>3 DEF GoAlike
  <2>2. Alike(m, e, g) /\ m \in 0..m
    BY <1>2, <2>1, RecAgree
  <2> QED
    BY <2>2 DEF Alike
<1>11. e[m] = h[n + m]
  BY <1>2, <1>9
<1> QED
  BY <1>1, <1>4, <1>5, <1>6, <1>7, <1>10, <1>11

\* An element more of two sequences, one behind the other.
LEMMA AppendConcat ==
    ASSUME NEW S, NEW s \in Seq(S), NEW t \in Seq(S), NEW e \in S
    PROVE  Append(s \o t, e) = s \o Append(t, e)
<1>1. PICK x, y, n, m : x = s \o t /\ y = Append(t, e) /\ n = Len(s) /\ m = Len(t)
  OBVIOUS
<1>2. n \in Nat /\ m \in Nat /\ y \in Seq(S) /\ Len(y) = m + 1 /\ y[m + 1] = e /\ \A i \in 1..m : y[i] = t[i]
  BY <1>1
<1>3. /\ x \in Seq(S) /\ Len(x) = n + m
      /\ \A i \in 1..(n + m) : x[i] = IF i <= n THEN s[i] ELSE t[i - n]
  BY <1>1, ConcatProperties
<1>4. PICK p, q : p = Append(x, e) /\ q = s \o y
  OBVIOUS
<1>5. /\ q \in Seq(S) /\ Len(q) = n + (m + 1)
      /\ \A i \in 1..(n + (m + 1)) : q[i] = IF i <= n THEN s[i] ELSE y[i - n]
  <2>1. Len(y) = m + 1 /\ Len(s) = n /\ y \in Seq(S)
    BY <1>1, <1>2
  <2>2. /\ q \in Seq(S) /\ Len(q) = Len(s) + Len(y)
        /\ \A i \in 1..(Len(s) + Len(y)) : q[i] = IF i <= Len(s) THEN s[i] ELSE y[i - Len(s)]
    BY <1>4, <2>1, ConcatProperties
  <2> QED
    BY <2>1, <2>2
<1>6. p \in Seq(S) /\ Len(p) = (n + m) + 1 /\ p[(n + m) + 1] = e /\ \A i \in 1..(n + m) : p[i] = x[i]
  BY <1>3, <1>4
<1>7. ASSUME NEW i \in 1..((n + m) + 1) PROVE p[i] = q[i]
  <2>1. i \in 1..(n + (m + 1)) /\ i \in Nat
    BY <1>2
  <2>2. CASE i = (n + m) + 1
    <3>1. ~(i <= n) /\ i - n = m + 1
      BY <1>2, <2>2
    <3> QED
      BY <1>2, <1>5, <1>6, <2>1, <2>2, <3>1
  <2>3. CASE i \in 1..(n + m) /\ i <= n
    BY <1>3, <1>5, <1>6, <2>1, <2>3
  <2>4. CASE i \in 1..(n + m) /\ ~(i <= n)
    <3>1. i - n \in 1..m
      BY <1>2, <2>4
    <3> QED
      BY <1>2, <1>3, <1>5, <1>6, <2>1, <2>4, <3>1
  <2> QED
    BY <1>2, <2>2, <2>3, <2>4
<1>8. Len(p) = Len(q)
  BY <1>2, <1>5, <1>6
<1>9. p = q
  <2>1. \A i \in 1..Len(p) : p[i] = q[i]
    BY <1>6, <1>7
  <2> QED
    BY <1>5, <1>6, <1>8, <2>1, SeqEqual
<1> QED
  BY <1>1, <1>4, <1>9

\* Two texts that differ in the bytes of characters alone.
SameToken(t, u) == t = u \/ (t[1] = "byte" /\ u[1] = "byte")
SameText(f, g) == Len(f) = Len(g) /\ \A i \in 1..Len(f) : SameToken(f[i], g[i])

\* No token but a byte is like a byte.
LEMMA SameTokenIs ==
    ASSUME NEW t, NEW u, SameToken(t, u)
    PROVE  /\ t[1] = u[1]
           /\ t[1] # "byte" => t = u
           /\ t = LF <=> u = LF
           /\ t = CR <=> u = CR
<1>1. LF[1] = "lf" /\ CR[1] = "cr"
  BY DEF LF, CR
<1> QED
  BY <1>1 DEF SameToken

\* Such texts hold the same event.
LEMMA SameEvent ==
    ASSUME NEW A, NEW f \in Seq(A), NEW g \in Seq(A), SameText(f, g)
    PROVE  ParseSseEvent(f) = ParseSseEvent(g)
<1>1. DOMAIN f = DOMAIN g /\ DOMAIN f = 1..Len(f) /\ Len(f) \in Nat
  BY DEF SameText
<1>2. \A i \in DOMAIN f : f[i][1] = g[i][1] /\ (f[i] = LF <=> g[i] = LF) /\ (f[i][1] # "byte" => f[i] = g[i])
  BY <1>1, SameTokenIs DEF SameText
<1>3. \A i \in DOMAIN f : i = 1 \/ (f[i - 1] = LF <=> g[i - 1] = LF)
  <2>1. \A i \in DOMAIN f : i = 1 \/ i - 1 \in DOMAIN f
    BY <1>1
  <2> QED
    BY <1>2, <2>1
<1>4. FieldsAt(f, "event") = FieldsAt(g, "event") /\ FieldsAt(f, "data") = FieldsAt(g, "data")
  BY <1>1, <1>2, <1>3 DEF FieldsAt
<1>5. (\A i \in FieldsAt(f, "event") : f[i] = g[i]) /\ \A i \in FieldsAt(f, "data") : f[i] = g[i]
  BY <1>2 DEF FieldsAt
<1>6. PICK e, d : e = FieldsAt(f, "event") /\ d = FieldsAt(f, "data")
  OBVIOUS
<1>7. /\ ParseSseEvent(f) = [event |-> IF e = {} THEN "message" ELSE f[Latest(e)][2],
                             data |-> [i \in d |-> f[i][2]]]
      /\ ParseSseEvent(g) = [event |-> IF e = {} THEN "message" ELSE g[Latest(e)][2],
                             data |-> [i \in d |-> g[i][2]]]
  BY <1>4, <1>6 DEF ParseSseEvent
<1>8. e \subseteq 1..Len(f)
  BY <1>1, <1>6 DEF FieldsAt
<1>9. e = {} \/ Latest(e) \in e
  <2>1. ASSUME e # {} PROVE \E i \in e : \A j \in e : j <= i
    <3> DEFINE S == {Len(f) - i : i \in e}
    <3>0. \A i \in e : Len(f) - i \in Nat
      BY <1>1, <1>8
    <3>1. S \subseteq Nat /\ S # {}
      BY <3>0, <2>1
    <3> HIDE DEF S
    <3>2. PICK k \in S : \A j \in S : k <= j
      BY <3>1, LeastOne
    <3> USE DEF S
    <3>3. PICK i \in e : k = Len(f) - i
      BY <3>2
    <3>4. \A j \in e : k <= Len(f) - j
      BY <3>2
    <3>5. ASSUME NEW j \in e PROVE j <= i
      <4>1. i \in Nat /\ j \in Nat /\ Len(f) \in Nat /\ Len(f) - i <= Len(f) - j
        BY <1>1, <1>8, <3>3, <3>4
      <4> QED
        BY <4>1
    <3> QED
      BY <3>5
  <2> QED
    BY <2>1 DEF Latest
<1>10. PICK c : c = Latest(e) /\ (e = {} \/ c \in e)
  BY <1>9
<1>11. e = {} \/ f[c][2] = g[c][2]
  BY <1>5, <1>6, <1>10
<1>12. [i \in d |-> f[i][2]] = [i \in d |-> g[i][2]]
  BY <1>5, <1>6
<1> QED
  BY <1>7, <1>10, <1>11, <1>12

\* Trimming keeps texts alike.
LEMMA SameTrimmed ==
    ASSUME NEW A, NEW f \in Seq(A), NEW g \in Seq(A), SameText(f, g)
    PROVE  SameText(Trimmed(f), Trimmed(g)) /\ (Ends(f) <=> Ends(g))
<1>1. Len(f) = Len(g) /\ Len(f) \in Nat /\ (f = << >> <=> g = << >>)
  BY DEF SameText
<1>2. f # << >> => (f[Len(f)] = CR <=> g[Len(g)] = CR)
  <2>1. f # << >> => Len(f) \in 1..Len(f)
    BY <1>1
  <2> QED
    BY <1>1, <2>1, SameTokenIs DEF SameText
<1>3. PICK p, q : p = Trimmed(f) /\ q = Trimmed(g)
  OBVIOUS
<1>4. Len(p) = Len(q)
  <2>1. CASE f # << >> /\ f[Len(f)] = CR
    <3>1. PICK n : n = Len(f) - 1 /\ n \in Nat
      BY <1>1, <2>1
    <3>2. p = SubSeq(f, 1, n) /\ q = SubSeq(g, 1, n)
      BY <1>1, <1>2, <1>3, <2>1, <3>1 DEF Trimmed
    <3>3. n <= Len(f) /\ n <= Len(g)
      BY <1>1, <3>1
    <3>4. Len(SubSeq(f, 1, n)) = n /\ Len(SubSeq(g, 1, n)) = n
      BY <3>1, <3>3
    <3> QED
      BY <3>2, <3>4
  <2>2. CASE ~(f # << >> /\ f[Len(f)] = CR)
    <3>1. p = f /\ q = g
      BY <1>1, <1>2, <1>3, <2>2 DEF Trimmed
    <3> QED
      BY <1>1, <3>1
  <2> QED
    BY <2>1, <2>2
<1>5. /\ p \in Seq(A) /\ q \in Seq(A) /\ Len(p) <= Len(f) /\ Len(p) \in Nat
      /\ (\A i \in 1..Len(p) : p[i] = f[i]) /\ \A i \in 1..Len(q) : q[i] = g[i]
  BY <1>3, TrimmedIn
<1>6. \A i \in 1..Len(p) : i \in 1..Len(f)
  BY <1>1, <1>5
<1>7. SameText(p, q)
  BY <1>4, <1>5, <1>6 DEF SameText
<1>8. (p = << >> <=> q = << >>) /\ (p # << >> => (p[Len(p)] = LF <=> q[Len(q)] = LF))
  <2>1. p # << >> => Len(p) \in 1..Len(p)
    BY <1>5
  <2>2. p = << >> <=> q = << >>
    BY <1>4, <1>5
  <2> QED
    BY <1>4, <1>7, <2>1, <2>2, SameTokenIs DEF SameText
<1> QED
  BY <1>3, <1>7, <1>8 DEF Ends

\* So does one token more.
LEMMA SameMore ==
    ASSUME NEW A, NEW f \in Seq(A), NEW g \in Seq(A), SameText(f, g), NEW t \in A, NEW u \in A, SameToken(t, u)
    PROVE  SameText(Append(f, t), Append(g, u))
<1>1. PICK p, q, n : p = Append(f, t) /\ q = Append(g, u) /\ n = Len(f)
  OBVIOUS
<1>2. n \in Nat /\ Len(g) = n /\ Len(p) = n + 1 /\ Len(q) = n + 1 /\ p[n + 1] = t /\ q[n + 1] = u
      /\ (\A i \in 1..n : p[i] = f[i]) /\ \A i \in 1..n : q[i] = g[i]
  BY <1>1 DEF SameText
<1>3. \A i \in 1..(n + 1) : i \in 1..n \/ i = n + 1
  BY <1>2
<1>4. \A i \in 1..n : SameToken(f[i], g[i])
  BY <1>1 DEF SameText
<1>5. \A i \in 1..(n + 1) : SameToken(p[i], q[i])
  BY <1>2, <1>3, <1>4
<1>6. SameText(p, q)
  BY <1>2, <1>5 DEF SameText
<1> QED
  BY <1>1, <1>6

\* Leaving out the last token does, too.
LEMMA SameLess ==
    ASSUME NEW A, NEW f \in Seq(A), NEW g \in Seq(A), SameText(f, g), f # << >>
    PROVE  /\ SubSeq(f, 1, Len(f) - 1) \in Seq(A) /\ SubSeq(g, 1, Len(g) - 1) \in Seq(A)
           /\ SameText(SubSeq(f, 1, Len(f) - 1), SubSeq(g, 1, Len(g) - 1))
<1>1. PICK n : n = Len(f) - 1 /\ n \in Nat /\ Len(g) - 1 = n /\ n <= Len(f) /\ n <= Len(g)
  BY DEF SameText
<1>2. PICK p, q : p = SubSeq(f, 1, n) /\ q = SubSeq(g, 1, n)
  OBVIOUS
<1>3. p \in Seq(A) /\ q \in Seq(A) /\ Len(p) = n /\ Len(q) = n
  BY <1>1, <1>2
<1>4. \A i \in 1..n : p[i] = f[i] /\ q[i] = g[i] /\ i \in 1..Len(f)
  BY <1>1, <1>2
<1>5. SameText(p, q)
  BY <1>3, <1>4 DEF SameText
<1> QED
  BY <1>1, <1>2, <1>3, <1>5

\* The events of a scan that began with a text and with events d are d and those of a scan that
\* began with the same text alone.
Continues(d, a, b) == b.events = d \o a.events /\ SameText(a.tail, b.tail)

\* One token keeps that.
LEMMA ContinuesStep ==
    ASSUME NEW a \in ScanStates, NEW b \in ScanStates, NEW d \in Seq(Parsed), Continues(d, a, b),
           NEW t \in Alphabet, NEW u \in Alphabet, SameToken(t, u)
    PROVE  Continues(d, ScanStep(a, t), ScanStep(b, u))
<1>1. /\ a.events \in Seq(Parsed) /\ a.tail \in Seq(Alphabet)
      /\ b.events \in Seq(Parsed) /\ b.tail \in Seq(Alphabet)
  BY DEF ScanStates
<1>2. PICK p, q : p = a.tail /\ q = b.tail /\ SameText(p, q) /\ p \in Seq(Alphabet) /\ q \in Seq(Alphabet)
  BY <1>1 DEF Continues
<1>3. SameText(Trimmed(p), Trimmed(q)) /\ (Ends(p) <=> Ends(q)) /\ (t = LF <=> u = LF)
      /\ Trimmed(p) \in Seq(Alphabet) /\ Trimmed(q) \in Seq(Alphabet)
  <2>1. SameText(Trimmed(p), Trimmed(q)) /\ (Ends(p) <=> Ends(q))
    BY <1>2, SameTrimmed
  <2>2. Trimmed(p) \in Seq(Alphabet) /\ Trimmed(q) \in Seq(Alphabet)
    BY <1>2, TrimmedIn
  <2> QED
    BY <2>1, <2>2, SameTokenIs
<1>4. CASE t # LF
  <2>1. /\ ScanStep(a, t).events = a.events /\ ScanStep(a, t).tail = Append(p, t)
        /\ ScanStep(b, u).events = b.events /\ ScanStep(b, u).tail = Append(q, u)
    BY <1>2, <1>3, <1>4, ScanStepIs
  <2>2. SameText(Append(p, t), Append(q, u))
    BY <1>2, SameMore
  <2> QED
    BY <2>1, <2>2 DEF Continues
<1>5. CASE t = LF /\ ~Ends(p)
  <2>1. /\ ScanStep(a, t).events = a.events /\ ScanStep(a, t).tail = Append(Trimmed(p), LF)
        /\ ScanStep(b, u).events = b.events /\ ScanStep(b, u).tail = Append(Trimmed(q), LF)
    BY <1>2, <1>3, <1>5, ScanStepIs
  <2>2. LF \in Alphabet /\ SameToken(LF, LF)
    BY DEF Alphabet, SameToken
  <2>3. SameText(Append(Trimmed(p), LF), Append(Trimmed(q), LF))
    BY <1>3, <2>2, SameMore
  <2> QED
    BY <2>1, <2>3 DEF Continues
<1>6. CASE t = LF /\ Ends(p)
  <2>0. PICK x, y : x = Trimmed(p) /\ y = Trimmed(q)
    OBVIOUS
  <2>1. /\ ScanStep(a, t).events = WithEvent(a.events, x) /\ ScanStep(a, t).tail = << >>
        /\ ScanStep(b, u).events = WithEvent(b.events, y) /\ ScanStep(b, u).tail = << >>
    BY <1>2, <1>3, <1>6, <2>0, ScanStepIs
  <2>2. SameText(<< >>, << >>)
    BY DEF SameText
  <2>3. x # << >> /\ x \in Seq(Alphabet) /\ y \in Seq(Alphabet) /\ SameText(x, y)
    BY <1>3, <1>6, <2>0 DEF Ends
  <2>4. PICK f, g : f = SubSeq(x, 1, Len(x) - 1) /\ g = SubSeq(y, 1, Len(y) - 1)
    OBVIOUS
  <2>5. f \in Seq(Alphabet) /\ g \in Seq(Alphabet) /\ SameText(f, g)
    BY <2>3, <2>4, SameLess
  <2>6. PICK e : e = ParseSseEvent(f) /\ e = ParseSseEvent(g) /\ e \in Parsed
    BY <2>5, SameEvent DEF Parsed
  <2>7. PICK v, w : v = a.events /\ w = b.events /\ w = d \o v /\ v \in Seq(Parsed)
    BY <1>1 DEF Continues
  <2>8. /\ WithEvent(v, x) = (IF DOMAIN e.data = {} THEN v ELSE Append(v, e))
        /\ WithEvent(w, y) = (IF DOMAIN e.data = {} THEN w ELSE Append(w, e))
    BY <2>4, <2>6 DEF WithEvent
  <2>9. Append(d \o v, e) = d \o Append(v, e)
    BY <2>6, <2>7, AppendConcat
  <2>10. WithEvent(w, y) = d \o WithEvent(v, x)
    BY <2>7, <2>8, <2>9
  <2> QED
    BY <2>1, <2>2, <2>7, <2>10 DEF Continues
<1> QED
  BY <1>2, <1>4, <1>5, <1>6

\* A whole text keeps that.
LEMMA ContinuesOn ==
    ASSUME NEW a \in ScanStates, NEW b \in ScanStates, NEW d \in Seq(Parsed), Continues(d, a, b),
           NEW s \in Seq(Alphabet), NEW t \in Seq(Alphabet), SameText(s, t)
    PROVE  Continues(d, Scanned(a, s), Scanned(b, t))
<1>1. PICK n : n = Len(s) /\ n = Len(t) /\ n \in Nat
  BY DEF SameText
<1>2. PICK f : Scans(a, s, f) /\ Scanned(a, s) = f[n] /\ \A k \in 0..n : f[k] \in ScanStates
  BY <1>1, ScannedIs
<1>3. PICK g : Scans(b, t, g) /\ Scanned(b, t) = g[n] /\ \A k \in 0..n : g[k] \in ScanStates
  BY <1>1, ScannedIs
<1>4. \A k \in 1..n : s[k] \in Alphabet /\ t[k] \in Alphabet /\ SameToken(s[k], t[k])
  BY <1>1 DEF SameText
<1> DEFINE S == {k \in 0..n : Continues(d, f[k], g[k])}
<1>5. Inductive(n, S)
  <2>1. 0 \in S
    BY <1>1, <1>2, <1>3 DEF Scans
  <2>2. ASSUME NEW k \in 1..n, k - 1 \in S PROVE k \in S
    <3>1. k \in 0..n /\ k - 1 \in 0..n
      BY <1>1
    <3>2. f[k] = ScanStep(f[k - 1], s[k]) /\ g[k] = ScanStep(g[k - 1], t[k])
      BY <1>1, <1>2, <1>3 DEF Scans
    <3>3. Continues(d, f[k - 1], g[k - 1]) /\ f[k - 1] \in ScanStates /\ g[k - 1] \in ScanStates
      BY <1>2, <1>3, <2>2, <3>1
    <3>4. Continues(d, ScanStep(f[k - 1], s[k]), ScanStep(g[k - 1], t[k]))
      BY <1>4, <3>3, ContinuesStep
    <3> QED
      BY <3>1, <3>2, <3>4
  <2> QED
    BY <2>1, <2>2 DEF Inductive
<1>6. n \in S
  <2> HIDE DEF S
  <2>1. 0..n \subseteq S
    BY <1>1, <1>5, UpTo
  <2> QED
    BY <1>1, <2>1
<1> QED
  BY <1>2, <1>3, <1>6

\* A text that a scan has been through: it has no CR LF, no CR CR and no blank line.
Tidy(q) == \A i \in 2..Len(q) : ~(q[i - 1] = CR /\ q[i] \in {CR, LF}) /\ ~(q[i - 1] = LF /\ q[i] = LF)

\* Such a text, scanned again, is kept as it is.
LEMMA Rescanned ==
    ASSUME NEW q \in Seq(Alphabet), Tidy(q)
    PROVE  Nothing \in ScanStates /\ Scanned(Nothing, q).events = << >> /\ Scanned(Nothing, q).tail = q
<1>0. Nothing \in ScanStates /\ Nothing.events = << >> /\ Nothing.tail = << >>
  BY DEF Nothing, ScanStates
<1>1. PICK n : n = Len(q) /\ n \in Nat
  OBVIOUS
<1>2. PICK f : Scans(Nothing, q, f) /\ Scanned(Nothing, q) = f[n] /\ \A k \in 0..n : f[k] \in ScanStates
  BY <1>0, <1>1, ScannedIs
<1> DEFINE S == {k \in 0..n : f[k].events = << >> /\ f[k].tail = SubSeq(q, 1, k)}
<1>3. Inductive(n, S)
  <2>1. 0 \in S
    <3>1. SubSeq(q, 1, 0) = << >> /\ 0 \in 0..n
      BY <1>1
    <3> QED
      BY <1>0, <1>2, <3>1 DEF Scans
  <2>2. ASSUME NEW k \in 1..n, k - 1 \in S PROVE k \in S
    <3>1. k \in 0..n /\ k - 1 \in 0..n /\ k \in Nat /\ k - 1 \in Nat /\ (k - 1) + 1 = k
      BY <1>1
    <3>2. PICK a, p, j, t : a = f[k - 1] /\ j = k - 1 /\ p = SubSeq(q, 1, j) /\ t = q[k]
      OBVIOUS
    <3>3. a \in ScanStates /\ a.events = << >> /\ a.tail = p /\ f[k] = ScanStep(a, t) /\ t \in Alphabet
      BY <1>1, <1>2, <2>2, <3>1, <3>2 DEF Scans
    <3>4. p \in Seq(Alphabet) /\ Len(p) = j /\ \A i \in 1..j : p[i] = q[i]
      <4>1. j \in Nat /\ j <= Len(q)
        BY <1>1, <3>1, <3>2
      <4>2. \A i \in 1..j : q[i] \in Alphabet
        BY <4>1
      <4>3. SubSeq(q, 1, j) \in Seq(Alphabet) /\ Len(SubSeq(q, 1, j)) = j
        BY <4>1
      <4>4. \A i \in 1..j : SubSeq(q, 1, j)[i] = q[i]
        BY <4>1
      <4> QED
        BY <3>2, <4>3, <4>4
    <3>5. Append(p, t) = SubSeq(q, 1, k)
      <4>1. PICK x, y : x = Append(p, t) /\ y = SubSeq(q, 1, k)
        OBVIOUS
      <4>2. x \in Seq(Alphabet) /\ Len(x) = j + 1 /\ x[j + 1] = t /\ \A i \in 1..j : x[i] = q[i]
        BY <3>3, <3>4, <4>1
      <4>3. k <= Len(q)
        BY <1>1
      <4>4. y \in Seq(Alphabet) /\ Len(y) = k /\ \A i \in 1..k : y[i] = q[i]
        BY <3>1, <4>1, <4>3
      <4>5. k = j + 1 /\ j \in Nat
        BY <3>1, <3>2
      <4>6. \A i \in 1..k : i \in 1..j \/ i = j + 1
        BY <4>5
      <4>7. \A i \in 1..Len(x) : x[i] = y[i]
        BY <3>2, <4>2, <4>4, <4>5, <4>6
      <4>8. x = y
        BY <4>2, <4>4, <4>5, <4>7, SeqEqual
      <4> QED
        BY <4>1, <4>8
    <3>6. ASSUME t = LF PROVE Trimmed(p) = p /\ ~Ends(p)
      <4>1. CASE j = 0
        <5>1. p = << >>
          BY <3>4, <4>1
        <5> QED
          BY <5>1 DEF Trimmed, Ends
      <4>2. CASE j # 0
        <5>1. j \in 1..j /\ k \in 2..n /\ p[Len(p)] = q[k - 1]
          BY <3>1, <3>2, <3>4, <4>2
        <5>2. q[k - 1] # CR /\ q[k - 1] # LF
          BY <1>1, <3>2, <3>6, <5>1 DEF Tidy
        <5>3. Trimmed(p) = p
          BY <5>1, <5>2 DEF Trimmed
        <5> QED
          BY <5>1, <5>2, <5>3 DEF Ends
      <4> QED
        BY <4>1, <4>2
    <3>7. ScanStep(a, t).events = << >> /\ ScanStep(a, t).tail = Append(p, t)
      <4>1. CASE t # LF
        BY <3>3, <4>1, ScanStepIs
      <4>2. CASE t = LF
        BY <3>3, <3>6, <4>2, ScanStepIs
      <4> QED
        BY <4>1, <4>2
    <3> QED
      BY <3>1, <3>3, <3>5, <3>7
  <2> QED
    BY <2>1, <2>2 DEF Inductive
<1>4. n \in S
  <2> HIDE DEF S
  <2>1. 0..n \subseteq S
    BY <1>1, <1>3, UpTo
  <2> QED
    BY <1>1, <2>1
<1>5. SubSeq(q, 1, n) = q
  BY <1>1
<1> QED
  BY <1>0, <1>2, <1>4, <1>5

\* A tidy text with one token more, after the last one.
LEMMA TidyMore ==
    ASSUME NEW A, NEW q \in Seq(A), Tidy(q), NEW t \in A,
           q # << >> => ~(q[Len(q)] = CR /\ t \in {CR, LF}) /\ ~(q[Len(q)] = LF /\ t = LF)
    PROVE  Tidy(Append(q, t))
<1>1. PICK p, n : p = Append(q, t) /\ n = Len(q)
  OBVIOUS
<1>2. n \in Nat /\ Len(p) = n + 1 /\ p[n + 1] = t /\ (\A i \in 1..n : p[i] = q[i]) /\ (n > 0 => q # << >>)
  BY <1>1
<1>3. ASSUME NEW i \in 2..(n + 1)
      PROVE  ~(p[i - 1] = CR /\ p[i] \in {CR, LF}) /\ ~(p[i - 1] = LF /\ p[i] = LF)
  <2>1. CASE i = n + 1
    <3>1. i - 1 = n /\ n > 0 /\ n \in 1..n
      BY <1>2, <2>1
    <3>2. p[i - 1] = q[Len(q)] /\ p[i] = t /\ q # << >>
      BY <1>1, <1>2, <2>1, <3>1
    <3> QED
      BY <3>2
  <2>2. CASE i # n + 1
    <3>1. i \in 1..n /\ i - 1 \in 1..n /\ i \in 2..n
      BY <1>2, <2>2
    <3>2. p[i] = q[i] /\ p[i - 1] = q[i - 1]
      BY <1>2, <3>1
    <3> QED
      BY <1>1, <3>1, <3>2 DEF Tidy
  <2> QED
    BY <2>1, <2>2
<1>4. Tidy(p)
  BY <1>2, <1>3 DEF Tidy
<1> QED
  BY <1>1, <1>4

\* A tidy text stays so when it is trimmed, and then does not end with CR.
LEMMA TidyTrimmed ==
    ASSUME NEW A, NEW q \in Seq(A), Tidy(q)
    PROVE  /\ Tidy(Trimmed(q))
           /\ Trimmed(q) # << >> => Trimmed(q)[Len(Trimmed(q))] # CR
<1>1. PICK p : p = Trimmed(q)
  OBVIOUS
<1>2. p \in Seq(A) /\ Len(p) <= Len(q) /\ Len(p) \in Nat /\ \A i \in 1..Len(p) : p[i] = q[i]
  BY <1>1, TrimmedIn
<1>3. Tidy(p)
  <2>1. \A i \in 2..Len(p) : i \in 1..Len(p) /\ i - 1 \in 1..Len(p) /\ i \in 2..Len(q)
    BY <1>2
  <2> QED
    BY <1>2, <2>1 DEF Tidy
<1>4. ASSUME p # << >> PROVE p[Len(p)] # CR
  <2>1. CASE q # << >> /\ q[Len(q)] = CR
    <3>1. PICK n : n = Len(q) /\ n \in Nat /\ n > 0
      BY <2>1
    <3>2. p = SubSeq(q, 1, n - 1)
      BY <1>1, <2>1, <3>1 DEF Trimmed
    <3>3. n - 1 \in Nat /\ n - 1 <= Len(q)
      BY <3>1
    <3>4. Len(p) = n - 1
      BY <3>2, <3>3
    <3>5. n - 1 > 0
      BY <1>2, <1>4, <3>3, <3>4
    <3>6. n \in 2..Len(q) /\ n - 1 \in 1..Len(p)
      BY <3>1, <3>4, <3>5
    <3>7. q[n - 1] # CR
      BY <2>1, <3>1, <3>6 DEF Tidy
    <3> QED
      BY <1>2, <3>4, <3>6, <3>7
  <2>2. CASE ~(q # << >> /\ q[Len(q)] = CR)
    <3>1. p = q
      BY <1>1, <2>2 DEF Trimmed
    <3> QED
      BY <1>4, <2>2, <3>1
  <2> QED
    BY <2>1, <2>2
<1> QED
  BY <1>1, <1>3, <1>4

\* What a token does to the order and the size of what is scanned.
LEMMA StepTidy ==
    ASSUME NEW a \in ScanStates, NEW t \in Alphabet, Tidy(a.tail), NEW m \in Nat,
           ~(a.tail # << >> /\ a.tail[Len(a.tail)] = CR /\ t = CR), Len(a.tail) + 2 * Len(a.events) <= m
    PROVE  /\ Tidy(ScanStep(a, t).tail)
           /\ Len(ScanStep(a, t).tail) + 2 * Len(ScanStep(a, t).events) <= m + 1
           /\ ScanStep(a, t).tail # << >> => ScanStep(a, t).tail[Len(ScanStep(a, t).tail)] = t
<1>1. PICK q, e, b, x, y : q = a.tail /\ e = a.events /\ b = ScanStep(a, t) /\ x = b.tail /\ y = b.events
  OBVIOUS
<1>2. q \in Seq(Alphabet) /\ e \in Seq(Parsed) /\ Len(q) \in Nat /\ Len(e) \in Nat
  BY <1>1 DEF ScanStates
<1>3. CASE t # LF
  <2>1. x = Append(q, t) /\ y = e
    BY <1>1, <1>3, ScanStepIs
  <2>2. q # << >> => ~(q[Len(q)] = CR /\ t \in {CR, LF}) /\ ~(q[Len(q)] = LF /\ t = LF)
    BY <1>1, <1>3
  <2>3. Tidy(Append(q, t))
    BY <1>1, <1>2, <2>2, TidyMore
  <2>4. Len(Append(q, t)) = Len(q) + 1 /\ Append(q, t)[Len(q) + 1] = t
    BY <1>2
  <2> QED
    <3>1. Len(x) = Len(q) + 1 /\ Len(y) = Len(e) /\ Len(q) + 2 * Len(e) <= m
      BY <1>1, <2>1, <2>4
    <3>2. Len(x) + 2 * Len(y) <= m + 1
      BY <1>2, <3>1
    <3>3. Tidy(x) /\ x[Len(x)] = t
      BY <2>1, <2>3, <2>4
    <3> QED
      BY <1>1, <3>2, <3>3
<1>4. CASE t = LF /\ ~Ends(q)
  <2>1. PICK p : p = Trimmed(q)
    OBVIOUS
  <2>2. x = Append(p, LF) /\ y = e
    BY <1>1, <1>4, <2>1, ScanStepIs
  <2>3. p \in Seq(Alphabet) /\ Len(p) <= Len(q) /\ Len(p) \in Nat
    BY <1>2, <2>1, TrimmedIn
  <2>4. Tidy(p) /\ (p # << >> => p[Len(p)] # CR)
    BY <1>1, <1>2, <2>1, TidyTrimmed
  <2>5. p # << >> => ~(p[Len(p)] = CR /\ LF \in {CR, LF}) /\ ~(p[Len(p)] = LF /\ LF = LF)
    BY <1>4, <2>1, <2>4 DEF Ends
  <2>6. LF \in Alphabet
    BY DEF Alphabet
  <2>7. Tidy(Append(p, LF))
    BY <2>3, <2>4, <2>5, <2>6, TidyMore
  <2>8. Len(Append(p, LF)) = Len(p) + 1 /\ Append(p, LF)[Len(p) + 1] = LF
    BY <2>3, <2>6
  <2>9. Len(x) + 2 * Len(y) <= m + 1
    <3>1. Len(x) = Len(p) + 1 /\ Len(y) = Len(e) /\ Len(q) + 2 * Len(e) <= m
      BY <1>1, <2>2, <2>8
    <3> QED
      BY <1>2, <2>3, <3>1
  <2> QED
    BY <1>1, <1>4, <2>2, <2>7, <2>8, <2>9
<1>5. CASE t = LF /\ Ends(q)
  <2>1. PICK p : p = Trimmed(q)
    OBVIOUS
  <2>2. x = << >> /\ y = WithEvent(e, p)
    BY <1>1, <1>5, <2>1, ScanStepIs
  <2>3. p \in Seq(Alphabet) /\ Len(p) <= Len(q) /\ Len(p) \in Nat /\ p # << >>
    BY <1>2, <1>5, <2>1, TrimmedIn DEF Ends
  <2>4. Len(p) > 0
    BY <2>3
  <2>5. y \in Seq(Parsed) /\ (y = e \/ \E v : y = Append(e, v))
    <3>1. b \in ScanStates
      BY <1>1, ScanStepIs
    <3> QED
      BY <1>1, <2>2, <3>1 DEF WithEvent, ScanStates
  <2>6. Len(y) <= Len(e) + 1 /\ Len(y) \in Nat
    BY <1>2, <2>5
  <2>7. Tidy(x) /\ Len(x) = 0
    BY <2>2 DEF Tidy
  <2>8. Len(q) + 2 * Len(e) <= m
    BY <1>1
  <2>9. Len(x) + 2 * Len(y) <= m + 1
    BY <1>2, <2>3, <2>4, <2>6, <2>7, <2>8
  <2> QED
    BY <1>1, <2>2, <2>7, <2>9
<1> QED
  BY <1>1, <1>3, <1>4, <1>5

\* In a text no CR follows another.
CrsApart(s) == \A i \in 2..Len(s) : ~(s[i - 1] = CR /\ s[i] = CR)

\* What a scan keeps of such a text is tidy, and no longer than what no event has used.
LEMMA ScannedTidy ==
    ASSUME NEW s \in Seq(Alphabet), CrsApart(s)
    PROVE  /\ Tidy(Scanned(Nothing, s).tail)
           /\ Len(Scanned(Nothing, s).tail) + 2 * Len(Scanned(Nothing, s).events) <= Len(s)
<1>0. Nothing \in ScanStates /\ Nothing.events = << >> /\ Nothing.tail = << >>
  BY DEF Nothing, ScanStates
<1>1. PICK n : n = Len(s) /\ n \in Nat
  OBVIOUS
<1>2. PICK f : Scans(Nothing, s, f) /\ Scanned(Nothing, s) = f[n] /\ \A k \in 0..n : f[k] \in ScanStates
  BY <1>0, <1>1, ScannedIs
<1> DEFINE Ok(k) == /\ Tidy(f[k].tail) /\ Len(f[k].tail) + 2 * Len(f[k].events) <= k
                    /\ f[k].tail # << >> => k # 0 /\ f[k].tail[Len(f[k].tail)] = s[k]
           S == {k \in 0..n : Ok(k)}
<1>3. Inductive(n, S)
  <2>1. 0 \in S
    <3>1. f[0].tail = << >> /\ f[0].events = << >>
      BY <1>0, <1>2 DEF Scans
    <3>2. Tidy(f[0].tail) /\ Len(f[0].tail) + 2 * Len(f[0].events) <= 0
      BY <3>1 DEF Tidy
    <3>3. Ok(0)
      BY <3>1, <3>2
    <3> HIDE DEF Ok
    <3> QED
      BY <1>1, <3>3
  <2>2. ASSUME NEW k \in 1..n, k - 1 \in S PROVE k \in S
    <3>1. k \in 0..n /\ k - 1 \in 0..n /\ k \in Nat /\ k - 1 \in Nat /\ (k - 1) + 1 = k
      BY <1>1
    <3>2. PICK a, b, j, t : a = f[k - 1] /\ b = f[k] /\ j = k - 1 /\ t = s[k]
      OBVIOUS
    <3>3. a \in ScanStates /\ b = ScanStep(a, t) /\ t \in Alphabet /\ j \in Nat
      BY <1>1, <1>2, <3>1, <3>2 DEF Scans
    <3>4. Tidy(a.tail) /\ Len(a.tail) + 2 * Len(a.events) <= j /\ (a.tail # << >> => j # 0 /\ a.tail[Len(a.tail)] = s[j])
      BY <2>2, <3>2
    <3>5. ~(a.tail # << >> /\ a.tail[Len(a.tail)] = CR /\ t = CR)
      <4>1. SUFFICES ASSUME a.tail # << >>, a.tail[Len(a.tail)] = CR, t = CR PROVE FALSE
        OBVIOUS
      <4>2. j # 0 /\ s[k - 1] = CR /\ s[k] = CR
        BY <3>2, <3>4, <4>1
      <4>3. k \in 2..Len(s)
        BY <1>1, <3>1, <3>2, <4>2
      <4> QED
        BY <4>2, <4>3 DEF CrsApart
    <3>6. Tidy(b.tail) /\ Len(b.tail) + 2 * Len(b.events) <= j + 1 /\ (b.tail # << >> => b.tail[Len(b.tail)] = t)
      BY <3>3, <3>4, <3>5, StepTidy
    <3>7. j + 1 = k /\ k # 0
      BY <3>1, <3>2
    <3>8. Ok(k)
      BY <3>2, <3>6, <3>7
    <3> HIDE DEF Ok
    <3> QED
      BY <3>1, <3>8
  <2> QED
    BY <2>1, <2>2 DEF Inductive
<1>4. n \in S
  <2> HIDE DEF S
  <2>1. 0..n \subseteq S
    BY <1>1, <1>3, UpTo
  <2> QED
    BY <1>1, <2>1
<1> QED
  BY <1>1, <1>2, <1>4

\* A text that is like a tidy one is tidy.
LEMMA SameTidy ==
    ASSUME NEW A, NEW f \in Seq(A), NEW g \in Seq(A), SameText(f, g), Tidy(g)
    PROVE  Tidy(f)
<1>1. Len(f) = Len(g) /\ Len(f) \in Nat /\ \A i \in 1..Len(f) : (f[i] = CR <=> g[i] = CR) /\ (f[i] = LF <=> g[i] = LF)
  BY SameTokenIs DEF SameText
<1>2. \A i \in 2..Len(f) : i \in 1..Len(f) /\ i - 1 \in 1..Len(f)
  BY <1>1
<1> QED
  BY <1>1, <1>2 DEF Tidy

\* What the lossy decoding of a chunk makes of it.
LEMMA LossySame ==
    ASSUME NEW c \in Seq(Alphabet)
    PROVE  FromUtf8Lossy(c) \in Seq(Alphabet) /\ SameText(FromUtf8Lossy(c), c)
<1>1. PICK d, n : d = FromUtf8Lossy(c) /\ n = Len(c) /\ n \in Nat /\ DOMAIN c = 1..n
  OBVIOUS
<1>2. Lossy \in Alphabet /\ Lossy[1] = "byte"
  BY DEF Alphabet, Lossy
<1>3. d = [i \in 1..n |-> FromUtf8Lossy(c)[i]]
  BY <1>1 DEF FromUtf8Lossy
<1>4. ASSUME NEW i \in 1..n PROVE d[i] \in Alphabet /\ SameToken(d[i], c[i])
  <2>1. c[i] \in Alphabet
    BY <1>1
  <2>2. d[i] = c[i] \/ (d[i] = Lossy /\ c[i] \in {<<"byte", 1>>, <<"byte", 2>>})
    BY <1>1 DEF FromUtf8Lossy
  <2>3. c[i] \in {<<"byte", 1>>, <<"byte", 2>>} => c[i][1] = "byte"
    OBVIOUS
  <2> QED
    BY <1>2, <2>1, <2>2, <2>3 DEF SameToken
<1>5. d \in [1..n -> Alphabet]
  BY <1>3, <1>4
<1>6. d \in Seq(Alphabet) /\ Len(d) = n
  BY <1>1, <1>5
<1>7. SameText(d, c)
  BY <1>1, <1>4, <1>6 DEF SameText
<1> QED
  BY <1>1, <1>6, <1>7

\* What the command has of a stream s of which g tokens have arrived: the text b and the events d.
Arrived(s, g, b, d) ==
    /\ d = Scanned(Nothing, SubSeq(s, 1, g)).events
    /\ SameText(b, Scanned(Nothing, SubSeq(s, 1, g)).tail)

\* A stream is a text of the alphabet, and so is every part of it.
LEMMA StreamPart ==
    ASSUME NEW s \in Streams, NEW g \in 0..Len(s)
    PROVE  /\ s \in Seq(Alphabet) /\ Len(s) \in Nat
           /\ SubSeq(s, 1, g) \in Seq(Alphabet) /\ Len(SubSeq(s, 1, g)) = g
           /\ CrsApart(SubSeq(s, 1, g))
<1>1. s \in Seq({s[i] : i \in DOMAIN s}) /\ \A i \in 2..Len(s) : ~(s[i - 1] = CR /\ s[i] = CR)
  BY RemoteAssumption
<1>2. {s[i] : i \in DOMAIN s} \subseteq Alphabet
  BY DEF Alphabet
<1>3. Len(s) \in Nat /\ DOMAIN s = 1..Len(s)
  BY <1>1
<1>4. s \in Seq(Alphabet)
  <2>1. \A i \in 1..Len(s) : s[i] \in Alphabet
    BY <1>2, <1>3
  <2>2. s = [i \in 1..Len(s) |-> s[i]]
    BY <1>1
  <2>3. s \in [1..Len(s) -> Alphabet]
    BY <2>1, <2>2
  <2> QED
    BY <1>3, <2>3
<1>5. g \in Nat /\ g <= Len(s)
  BY <1>3
<1>6. PICK p : p = SubSeq(s, 1, g)
  OBVIOUS
<1>7. p \in Seq(Alphabet) /\ Len(p) = g /\ \A i \in 1..g : p[i] = s[i]
  BY <1>4, <1>5, <1>6
<1>8. CrsApart(p)
  <2>1. \A i \in 2..g : i \in 1..g /\ i - 1 \in 1..g /\ i \in 2..Len(s)
    BY <1>3, <1>5
  <2> QED
    BY <1>1, <1>7, <2>1 DEF CrsApart
<1> QED
  BY <1>3, <1>4, <1>6, <1>7, <1>8

\* A chunk: the events of the buffer and the chunk are those the stream has more.
LEMMA ChunkArrives ==
    ASSUME NEW s \in Streams, NEW g \in 0..Len(s), NEW n \in 1..(Len(s) - g), NEW b \in Seq(Alphabet),
           NEW d \in Seq(Parsed), Arrived(s, g, b, d), NEW scan,
           scan = Scanned(Nothing, b \o FromUtf8Lossy(SubSeq(s, g + 1, g + n)))
    PROVE  scan \in ScanStates /\ Arrived(s, g + n, scan.tail, d \o scan.events)
<1>1. Len(s) \in Nat /\ g \in Nat /\ n \in Nat /\ g + n \in 0..Len(s) /\ g + n <= Len(s)
  BY StreamPart
<1>2. PICK p, c, l, all : p = SubSeq(s, 1, g) /\ c = SubSeq(s, g + 1, g + n) /\ l = FromUtf8Lossy(c)
                          /\ all = SubSeq(s, 1, g + n)
  OBVIOUS
<1>3. s \in Seq(Alphabet) /\ p \in Seq(Alphabet) /\ CrsApart(p) /\ Len(p) = g
  BY <1>2, StreamPart
<1>4. all \in Seq(Alphabet) /\ Len(all) = g + n
  BY <1>1, <1>2, StreamPart
<1>5. c \in Seq(Alphabet) /\ Len(c) = n /\ \A i \in 1..n : c[i] = s[g + i]
  <2>1. \A i \in (g + 1)..(g + n) : s[i] \in Alphabet
    BY <1>1, <1>3
  <2>2. g + 1 \in Int /\ g + n \in Int /\ g + 1 <= g + n /\ (g + n) - (g + 1) + 1 = n
    BY <1>1
  <2>3. /\ c \in Seq(Alphabet)
        /\ Len(c) = IF g + 1 <= g + n THEN (g + n) - (g + 1) + 1 ELSE 0
        /\ \A i \in 1..((g + n) - (g + 1) + 1) : c[i] = s[(g + 1) + i - 1]
    BY <1>2, <2>1, <2>2, SubSeqProperties
  <2>4. \A i \in 1..n : (g + 1) + i - 1 = g + i
    BY <1>1
  <2> QED
    BY <2>2, <2>3, <2>4
<1>6. all = p \o c
  <2>1. PICK u : u = p \o c
    OBVIOUS
  <2>2. u \in Seq(Alphabet) /\ Len(u) = g + n /\ \A i \in 1..(g + n) : u[i] = IF i <= g THEN p[i] ELSE c[i - g]
    BY <1>3, <1>5, <2>1, ConcatProperties
  <2>3. \A i \in 1..(g + n) : all[i] = s[i]
    BY <1>1, <1>2, <1>3
  <2>4. \A i \in 1..g : p[i] = s[i]
    BY <1>1, <1>2, <1>3
  <2>5. \A i \in 1..(g + n) : i <= g \/ (i - g \in 1..n /\ g + (i - g) = i)
    BY <1>1
  <2>6. \A i \in 1..(g + n) : u[i] = s[i]
    <3>1. \A i \in 1..(g + n) : i <= g => i \in 1..g
      BY <1>1
    <3> QED
      BY <1>5, <2>2, <2>4, <2>5, <3>1
  <2>7. \A i \in 1..Len(all) : all[i] = u[i]
    BY <1>4, <2>3, <2>6
  <2>8. all = u
    BY <1>4, <2>2, <2>7, SeqEqual
  <2> QED
    BY <2>1, <2>8
<1>7. l \in Seq(Alphabet) /\ SameText(l, c)
  BY <1>2, <1>5, LossySame
<1>8. Nothing \in ScanStates
  BY DEF Nothing, ScanStates
<1>9. PICK q, r : q = Scanned(Nothing, p) /\ r = Scanned(Nothing, b)
  OBVIOUS
<1>10. q \in ScanStates /\ Scanned(Nothing, all) = Scanned(q, c) /\ Scanned(q, c) \in ScanStates
  BY <1>3, <1>5, <1>6, <1>8, <1>9, ScanOn
<1>11. r \in ScanStates /\ scan = Scanned(r, l) /\ scan \in ScanStates
  BY <1>2, <1>7, <1>8, <1>9, ScanOn
<1>12. d = q.events /\ SameText(b, q.tail) /\ Tidy(q.tail) /\ q.tail \in Seq(Alphabet)
  BY <1>2, <1>3, <1>9, <1>10, ScannedTidy DEF Arrived, ScanStates
<1>13. r.events = << >> /\ r.tail = b
  <2>1. Tidy(b)
    BY <1>12, SameTidy
  <2> QED
    BY <1>9, <2>1, Rescanned
<1>14. Continues(d, r, q)
  <2>1. d \o << >> = d
    BY ConcatEmptySeq
  <2> QED
    BY <1>12, <1>13, <2>1 DEF Continues
<1>15. Continues(d, Scanned(r, l), Scanned(q, c))
  BY <1>5, <1>7, <1>10, <1>11, <1>14, ContinuesOn
<1> QED
  BY <1>2, <1>10, <1>11, <1>15 DEF Continues, Arrived

\* The events up to the first that ends the command.
LEMMA UpToClosingIs ==
    ASSUME NEW e \in Seq(Parsed)
    PROVE  /\ UpToClosing(e) \in Seq(Parsed) /\ Len(UpToClosing(e)) <= Len(e)
           /\ \A i \in 1..Len(UpToClosing(e)) : Closing(UpToClosing(e)[i]) => i = Len(UpToClosing(e))
<1>1. PICK closing : closing = {i \in DOMAIN e : Closing(e[i])}
  OBVIOUS
<1>2. CASE closing = {}
  <2>1. UpToClosing(e) = e
    BY <1>1, <1>2 DEF UpToClosing
  <2> QED
    BY <1>1, <1>2, <2>1
<1>3. CASE closing # {}
  <2>1. closing \subseteq Nat /\ closing \subseteq 1..Len(e)
    BY <1>1
  <2>2. \E i \in closing : \A j \in closing : i <= j
    BY <1>3, <2>1, LeastOne
  <2>3. PICK c : c = (CHOOSE i \in closing : \A j \in closing : i <= j) /\ c \in closing /\ \A j \in closing : c <= j
    BY <2>2
  <2>4. PICK u : u = SubSeq(e, 1, c)
    OBVIOUS
  <2>5. UpToClosing(e) = u
    BY <1>1, <1>3, <2>3, <2>4 DEF UpToClosing
  <2>6. c \in Nat /\ c <= Len(e) /\ c >= 1
    <3>0. c \in closing
      BY <2>3
    <3>1. c \in 1..Len(e) /\ Len(e) \in Nat
      BY <2>1, <3>0
    <3> QED
      BY <3>1
  <2>7. u \in Seq(Parsed) /\ Len(u) = c /\ \A i \in 1..c : u[i] = e[i]
    BY <2>4, <2>6
  <2>8. ASSUME NEW i \in 1..c, Closing(u[i]) PROVE i = c
    <3>1. i \in DOMAIN e
      BY <2>6
    <3>2. i \in closing
      BY <1>1, <2>7, <2>8, <3>1
    <3> QED
      BY <2>3, <2>6, <3>2
  <2> QED
    BY <2>5, <2>6, <2>7, <2>8
<1> QED
  BY <1>2, <1>3

\* Nothing follows a closing event in h, and r is its verdict.
StopsIn(h, r) ==
    \A i \in DOMAIN h : Closing(h[i]) => i = Len(h) /\ r = IF h[i].event = "done" THEN "closed" ELSE "failed"

\* What a chunk adds keeps that.
LEMMA StopsMore ==
    ASSUME NEW h \in Seq(Parsed), StopsIn(h, "streaming"), NEW e \in Seq(Parsed)
    PROVE  /\ StopsIn(h \o UpToClosing(e), StreamVerdict(UpToClosing(e)))
           /\ StreamVerdict(UpToClosing(e)) \in {"streaming", "closed", "failed"}
           /\ h \o UpToClosing(e) \in Seq(Parsed) /\ Len(h \o UpToClosing(e)) <= Len(h) + Len(e)
<1>1. PICK u, n, m, w, v : u = UpToClosing(e) /\ n = Len(h) /\ m = Len(u) /\ w = h \o u /\ v = StreamVerdict(u)
  OBVIOUS
<1>2. u \in Seq(Parsed) /\ m <= Len(e) /\ m \in Nat /\ n \in Nat /\ Len(e) \in Nat
      /\ \A i \in 1..m : Closing(u[i]) => i = m
  BY <1>1, UpToClosingIs
<1>3. w \in Seq(Parsed) /\ Len(w) = n + m /\ \A i \in 1..(n + m) : w[i] = IF i <= n THEN h[i] ELSE u[i - n]
  BY <1>1, <1>2, ConcatProperties
<1>4. \A i \in 1..n : ~Closing(h[i])
  BY <1>1 DEF StopsIn
<1>5. v = IF u = << >> \/ ~Closing(u[m]) THEN "streaming" ELSE IF u[m].event = "done" THEN "closed" ELSE "failed"
  BY <1>1 DEF StreamVerdict
<1>6. ASSUME NEW i \in 1..(n + m), Closing(w[i])
      PROVE  i = n + m /\ v = IF w[i].event = "done" THEN "closed" ELSE "failed"
  <2>1. ~(i <= n)
    <3>1. i <= n => i \in 1..n
      BY <1>2
    <3> QED
      BY <1>3, <1>4, <1>6, <3>1
  <2>2. i - n \in 1..m /\ w[i] = u[i - n]
    BY <1>2, <1>3, <2>1
  <2>3. i - n = m
    BY <1>2, <1>6, <2>2
  <2>4. i = n + m /\ w[i] = u[m] /\ u # << >>
    BY <1>1, <1>2, <2>2, <2>3
  <2> QED
    BY <1>5, <1>6, <2>4
<1>7. StopsIn(w, v)
  <2>1. DOMAIN w = 1..(n + m)
    BY <1>3
  <2> QED
    BY <1>3, <1>6, <2>1 DEF StopsIn
<1> QED
  BY <1>1, <1>2, <1>3, <1>5, <1>7

\* The inductive invariant of the remote commands: what is kept is what a scan of all that has
\* arrived would keep, up to the bytes of characters, and the request is sent at most once.
RemoteInv ==
    /\ stream \in Streams /\ got \in 0..Len(stream) /\ rpc \in {"streaming", "closed", "failed"}
    /\ buffer \in Seq(Alphabet) /\ drained \in Seq(Parsed) /\ handled \in Seq(Parsed)
    /\ Len(handled) <= Len(drained)
    /\ Arrived(stream, got, buffer, drained)
    /\ StopsIn(handled, rpc)
    /\ told \in {"none", "dispatched", "error"}
    /\ started = << >> \/ started = <<RepoOf>>
    /\ told = "none" => started = << >>
    /\ told = "dispatched" => started = <<RepoOf>>

\* It holds at first.
LEMMA RemoteInvInit ==
    RemoteInit => RemoteInv
<1> SUFFICES ASSUME RemoteInit PROVE RemoteInv
  OBVIOUS
<1>1. stream \in Streams /\ got = 0 /\ buffer = << >> /\ drained = << >> /\ handled = << >> /\ rpc = "streaming"
      /\ started = << >> /\ told = "none"
  BY DEF RemoteInit
<1>2. Len(stream) \in Nat /\ 0 \in 0..Len(stream)
  BY <1>1, RemoteAssumption
<1>3. Arrived(stream, got, buffer, drained)
  <2>1. SubSeq(stream, 1, 0) = << >>
    BY <1>1, <1>2, StreamPart
  <2>2. << >> \in Seq(Alphabet) /\ Tidy(<< >>)
    BY DEF Tidy
  <2>3. Scanned(Nothing, << >>).events = << >> /\ Scanned(Nothing, << >>).tail = << >>
    BY <2>2, Rescanned
  <2>4. SameText(<< >>, << >>)
    BY DEF SameText
  <2> QED
    BY <1>1, <2>1, <2>3, <2>4 DEF Arrived
<1>4. StopsIn(handled, rpc)
  BY <1>1 DEF StopsIn
<1>5. << >> \in Seq(Alphabet) /\ << >> \in Seq(Parsed) /\ Len(<< >>) <= Len(<< >>)
  OBVIOUS
<1> QED
  BY <1>1, <1>2, <1>3, <1>4, <1>5 DEF RemoteInv

\* A chunk keeps it.
LEMMA RemoteInvChunk ==
    ASSUME RemoteInv, Chunk
    PROVE  RemoteInv'
<1>1. PICK s, g, b, d, h : s = stream /\ g = got /\ b = buffer /\ d = drained /\ h = handled
  OBVIOUS
<1>2. s \in Streams /\ g \in 0..Len(s) /\ b \in Seq(Alphabet) /\ d \in Seq(Parsed) /\ h \in Seq(Parsed)
      /\ Len(h) <= Len(d) /\ Arrived(s, g, b, d) /\ StopsIn(h, "streaming")
  BY <1>1 DEF RemoteInv, Chunk
<1>3. PICK n, scan :
         /\ n \in 1..(Len(s) - g)
         /\ scan = Scanned(Nothing, b \o FromUtf8Lossy(SubSeq(s, g + 1, g + n)))
         /\ got' = g + n /\ buffer' = scan.tail /\ drained' = d \o scan.events
         /\ handled' = h \o UpToClosing(scan.events) /\ rpc' = StreamVerdict(UpToClosing(scan.events))
  BY <1>1 DEF Chunk, Kept
<1>4. stream' = s /\ UNCHANGED <<order, started, told>>
  BY <1>1 DEF Chunk
<1>5. scan \in ScanStates /\ Arrived(s, g + n, scan.tail, d \o scan.events)
  BY <1>2, <1>3, ChunkArrives
<1>6. PICK x, e : x = scan.tail /\ e = scan.events /\ x \in Seq(Alphabet) /\ e \in Seq(Parsed)
  BY <1>5 DEF ScanStates
<1>7. /\ StopsIn(h \o UpToClosing(e), StreamVerdict(UpToClosing(e)))
      /\ StreamVerdict(UpToClosing(e)) \in {"streaming", "closed", "failed"}
      /\ h \o UpToClosing(e) \in Seq(Parsed) /\ Len(h \o UpToClosing(e)) <= Len(h) + Len(e)
  BY <1>2, <1>6, StopsMore
<1>8. d \o e \in Seq(Parsed) /\ Len(d \o e) = Len(d) + Len(e) /\ Len(d) \in Nat /\ Len(e) \in Nat /\ Len(h) \in Nat
  BY <1>2, <1>6, ConcatProperties
<1>9. got' \in 0..Len(s)
  BY <1>2, <1>3, StreamPart
<1>10. Len(handled') <= Len(drained')
  <2>1. PICK u, w : u = Len(h \o UpToClosing(e)) /\ w = Len(d \o e) /\ u \in Nat
    BY <1>7
  <2>2. u <= Len(h) + Len(e) /\ w = Len(d) + Len(e)
    BY <1>7, <1>8, <2>1
  <2>3. u <= w
    BY <1>2, <1>8, <2>1, <2>2
  <2> QED
    BY <1>3, <1>6, <2>1, <2>3
<1>11. /\ stream' \in Streams /\ got' \in 0..Len(stream') /\ rpc' \in {"streaming", "closed", "failed"}
       /\ buffer' \in Seq(Alphabet) /\ drained' \in Seq(Parsed) /\ handled' \in Seq(Parsed)
       /\ Len(handled') <= Len(drained') /\ Arrived(stream', got', buffer', drained')
       /\ StopsIn(handled', rpc')
  BY <1>2, <1>3, <1>4, <1>5, <1>6, <1>7, <1>8, <1>9, <1>10
<1>12. /\ told' \in {"none", "dispatched", "error"}
       /\ started' = << >> \/ started' = <<RepoOf'>>
       /\ told' = "none" => started' = << >>
       /\ told' = "dispatched" => started' = <<RepoOf'>>
  BY <1>4 DEF RemoteInv, RepoOf
<1> QED
  BY <1>11, <1>12 DEF RemoteInv

\* Every step keeps it.
LEMMA RemoteInvNext ==
    ASSUME RemoteInv, [RemoteNext]_remoteVars
    PROVE  RemoteInv'
<1>1. CASE Chunk
  BY <1>1, RemoteInvChunk
<1>2. CASE StreamEnds \/ StreamBreaks
  <2>1. UNCHANGED <<stream, got, buffer, drained, handled, order, started, told>> /\ rpc = "streaming"
        /\ rpc' \in {"closed", "failed"}
    BY <1>2 DEF StreamEnds, StreamBreaks
  <2>2. StopsIn(handled, "streaming")
    BY <2>1 DEF RemoteInv
  <2>3. StopsIn(handled, rpc')
    BY <2>2 DEF StopsIn
  <2>4. StopsIn(handled', rpc')
    BY <2>1, <2>3
  <2> QED
    BY <2>1, <2>4 DEF RemoteInv, RepoOf
<1>3. CASE SendDispatch
  <2>1. UNCHANGED <<stream, got, buffer, drained, handled, rpc, order>> /\ told = "none"
    BY <1>3 DEF SendDispatch
  <2>2. started = << >> /\ RepoOf' = RepoOf
    BY <2>1 DEF RemoteInv, RepoOf
  <2>3. Append(<< >>, RepoOf) = <<RepoOf>>
    OBVIOUS
  <2>4. \/ told' = "error" /\ (started' = << >> \/ started' = <<RepoOf>>)
        \/ told' = "dispatched" /\ started' = <<RepoOf>>
    BY <1>3, <2>2, <2>3 DEF SendDispatch, Told
  <2> QED
    BY <2>1, <2>2, <2>4 DEF RemoteInv
<1>4. CASE UNCHANGED remoteVars
  BY <1>4 DEF RemoteInv, remoteVars, RepoOf
<1> QED
  BY <1>1, <1>2, <1>3, <1>4 DEF RemoteNext, RemoteEnded

\* It gives the property.
LEMMA RemoteInvSafe ==
    RemoteInv => RemoteSafe
<1> SUFFICES ASSUME RemoteInv PROVE RemoteSafe
  OBVIOUS
<1>1. PICK p, q : p = SubSeq(stream, 1, got) /\ q = Scanned(Nothing, p)
  OBVIOUS
<1>2. p \in Seq(Alphabet) /\ Len(p) = got /\ CrsApart(p)
  BY <1>1, StreamPart DEF RemoteInv
<1>3. Len(q.tail) + 2 * Len(q.events) <= got
  BY <1>1, <1>2, ScannedTidy
<1>4. drained = q.events /\ Len(buffer) = Len(q.tail)
  BY <1>1 DEF RemoteInv, Arrived, SameText
<1>5. RemoteTypeOK
  BY <1>3, <1>4 DEF RemoteInv, RemoteTypeOK
<1>6. FramesWhole
  BY <1>1, <1>4 DEF FramesWhole
<1>7. StopsAtClosing
  BY DEF RemoteInv, StopsIn, StopsAtClosing
<1>8. ReportedIsStarted
  <2>1. Len(<< >>) = 0 /\ Len(<<RepoOf>>) = 1 /\ <<RepoOf>>[1] = RepoOf /\ DOMAIN <<RepoOf>> = {1} /\ DOMAIN << >> = {}
    OBVIOUS
  <2>2. PICK r, st : r = RepoOf /\ st = started
    OBVIOUS
  <2>3. (st = << >> \/ st = <<r>>) /\ (told = "dispatched" => st = <<r>>)
    BY <2>2 DEF RemoteInv
  <2>4. Len(st) <= 1 /\ (st = <<r>> => Len(st) = 1) /\ \A i \in DOMAIN st : st[i] = r
    <3>1. CASE st = << >>
      BY <2>1, <3>1, <2>2
    <3>2. CASE st = <<r>>
      BY <2>1, <3>2, <2>2
    <3> QED
      BY <2>3, <3>1, <3>2
  <2> QED
    BY <2>2, <2>3, <2>4 DEF ReportedIsStarted
<1> QED
  BY <1>5, <1>6, <1>7, <1>8 DEF RemoteSafe

\* The remote commands, for every stream, wherever it is cut, and every request: the events taken
\* from the stream are those of the stream, none is handled after the one that ends it, and
\* a dispatch reported as done has started one run.
THEOREM RemoteIsSafe == RemoteSpec => []RemoteSafe
<1>1. RemoteInit => RemoteInv
  BY RemoteInvInit
<1>2. RemoteInv /\ [RemoteNext]_remoteVars => RemoteInv'
  BY RemoteInvNext
<1>3. RemoteInv => RemoteSafe
  BY RemoteInvSafe
<1> QED
  BY <1>1, <1>2, <1>3, PTL DEF RemoteSpec

-----------------------------------------------------------------------------
(* Durations (module Durations).                                           *)

Parts == Int \X Letters

\* g has the sums of the text t.
Adds(t, g) == g = [k \in 0..Len(t) |-> IF k = 0 THEN 0 ELSE g[k - 1] + Worth(t[k])]

\* A part is worth a number of milliseconds.
LEMMA WorthInt ==
    ASSUME NEW p \in Parts
    PROVE  Worth(p) \in Int /\ MsOf(p[2]) \in Nat \ {0}
<1>1. MsOf(p[2]) \in Nat \ {0}
  BY DEF MsOf
<1>2. p[1] \in Int
  BY DEF Parts
<1> QED
  BY <1>1, <1>2 DEF Worth

\* What Sums computes.
LEMMA SumsOf ==
    ASSUME NEW t \in Seq(Parts)
    PROVE  /\ Sums(t)[0] = 0 /\ \A k \in 1..Len(t) : Sums(t)[k] = Sums(t)[k - 1] + Worth(t[k])
           /\ \A k \in 0..Len(t) : Sums(t)[k] \in Int
<1>00. PICK N : N = Len(t)
  OBVIOUS
<1> DEFINE turn == [p \in (1..N) \X Int |-> p[2] + Worth(t[p[1]])]
<1>0. N = Len(t) /\ N \in Nat /\ \A k \in 1..N : Worth(t[k]) \in Int
  BY <1>00, WorthInt
<1>1. StepsIn(N, Int, turn)
  BY <1>0 DEF StepsIn
<1>2. \A k \in 1..N : \A v \in Int : turn[<<k, v>>] = v + Worth(t[k])
  OBVIOUS
<1> HIDE DEF turn
<1>30. PICK g : RecFrom(0, N, Int, turn, g)
  <2>1. 0 \in Int /\ N \in Nat
    BY <1>0
  <2> QED
    BY <1>1, <2>1, RecExists
<1>3. g \in [0..N -> Int] /\ g[0] = 0 /\ \A k \in 1..N : g[k] = turn[<<k, g[k - 1]>>]
  BY <1>30 DEF RecFrom
<1>4. \A k \in 1..N : k - 1 \in 0..N /\ g[k - 1] \in Int /\ g[k] = g[k - 1] + Worth(t[k])
  <2>1. \A k \in 1..N : k - 1 \in 0..N
    BY <1>0
  <2>2. \A k \in 1..N : g[k - 1] \in Int
    BY <1>3, <2>1
  <2> QED
    BY <1>2, <1>3, <2>1, <2>2
<1>5. Adds(t, g)
  <2>1. \A k \in 0..N : g[k] = IF k = 0 THEN 0 ELSE g[k - 1] + Worth(t[k])
    <3>1. \A k \in 0..N : k = 0 \/ k \in 1..N
      BY <1>0
    <3> QED
      BY <1>3, <1>4, <3>1
  <2>2. g = [k \in 0..N |-> g[k]]
    BY <1>3
  <2> QED
    BY <1>0, <2>1, <2>2 DEF Adds
<1>6. Sums(t) = CHOOSE f : Adds(t, f)
  BY DEF Sums, Adds
<1>7. PICK f : f = Sums(t) /\ Adds(t, f)
  BY <1>5, <1>6
<1>8. f[0] = 0 /\ \A k \in 1..N : f[k] = f[k - 1] + Worth(t[k])
  <2>1. 0 \in 0..N /\ \A k \in 1..N : k \in 0..N /\ k # 0
    BY <1>0
  <2> QED
    BY <1>0, <1>7, <2>1 DEF Adds
<1>9. \A k \in 0..N : f[k] = g[k]
  <2>1. GoAlike(N, f, g)
    BY <1>3, <1>4, <1>8 DEF GoAlike
  <2>2. Alike(N, f, g)
    BY <1>0, <2>1, RecAgree
  <2> QED
    BY <2>2 DEF Alike
<1> QED
  BY <1>0, <1>3, <1>7, <1>8, <1>9

\* A part more is worth its milliseconds more.
LEMMA MeaningGrows ==
    ASSUME NEW t \in Seq(Parts), NEW p \in Parts
    PROVE  Meaning(Append(t, p)) = Meaning(t) + Worth(p) /\ Meaning(t) \in Int
<1>1. PICK u : u = Append(t, p)
  OBVIOUS
<1>2. u \in Seq(Parts) /\ Len(u) = Len(t) + 1 /\ Len(t) \in Nat /\ u[Len(t) + 1] = p /\ \A k \in 1..Len(t) : u[k] = t[k]
  BY <1>1
<1>3. PICK N : N = Len(t)
  OBVIOUS
<1>4. PICK f, g : f = Sums(t) /\ g = Sums(u)
  OBVIOUS
<1>5. /\ f[0] = 0 /\ \A k \in 1..N : f[k] = f[k - 1] + Worth(t[k])
      /\ f[N] \in Int
  <2>1. N \in 0..N
    BY <1>2, <1>3
  <2> QED
    BY <1>3, <1>4, <2>1, SumsOf
<1>6. g[0] = 0 /\ \A k \in 1..(N + 1) : g[k] = g[k - 1] + Worth(u[k])
  BY <1>2, <1>3, <1>4, SumsOf
<1>7. \A k \in 0..N : f[k] = g[k]
  <2>1. \A k \in 1..N : f[k - 1] = g[k - 1] => f[k] = g[k]
    BY <1>2, <1>3, <1>5, <1>6
  <2> QED
    <3>1. N \in Nat /\ GoAlike(N, f, g)
      BY <1>2, <1>3, <1>5, <1>6, <2>1 DEF GoAlike
    <3>2. Alike(N, f, g)
      BY <3>1, RecAgree
    <3> QED
      BY <3>2 DEF Alike
<1>8. N + 1 \in 1..(N + 1) /\ N \in 0..N /\ (N + 1) - 1 = N
  BY <1>2, <1>3
<1>9. g[N + 1] = f[N] + Worth(p)
  BY <1>2, <1>3, <1>6, <1>7, <1>8
<1>10. Meaning(u) = g[N + 1] /\ Meaning(t) = f[N]
  BY <1>2, <1>3, <1>4 DEF Meaning
<1> QED
  BY <1>1, <1>5, <1>9, <1>10

\* The units of t are above, or not below, a unit.
Above(t, unit) == \A i \in DOMAIN t : RankOf(t[i][2]) > RankOf(unit)
NotBelow(t, unit) == \A i \in DOMAIN t : RankOf(t[i][2]) >= RankOf(unit)

\* Writing a part adds its worth, keeps the order if its unit is below those written, and never takes away.
LEMMA Written ==
    ASSUME NEW t \in Seq(Parts), NEW n \in Nat, NEW unit \in {"h", "m", "s", "ms"},
           Falling(t), Above(t, unit)
    PROVE  /\ Write(t, n, unit) \in Seq(Parts) /\ Falling(Write(t, n, unit))
           /\ Meaning(Write(t, n, unit)) = Meaning(t) + n * MsOf(unit)
           /\ NotBelow(Write(t, n, unit), unit)
           /\ (t # << >> \/ n > 0) => Write(t, n, unit) # << >>
<1> USE DEF Above, NotBelow
<1>0. PICK p : p = <<n, unit>>
  OBVIOUS
<1>1. p \in Parts /\ p[1] = n /\ p[2] = unit
  BY <1>0 DEF Parts, Letters
<1>2. CASE n > 0
  <2>1. PICK u : u = Append(t, p)
    OBVIOUS
  <2>2. Write(t, n, unit) = u
    BY <1>0, <1>2, <2>1 DEF Write
  <2>3. /\ u \in Seq(Parts) /\ Len(t) \in Nat /\ DOMAIN t = 1..Len(t) /\ DOMAIN u = 1..(Len(t) + 1) /\ u # << >>
        /\ \A i \in DOMAIN t : u[i] = t[i]
        /\ u[Len(t) + 1] = p
    BY <1>1, <2>1
  <2>4. Meaning(u) = Meaning(t) + n * MsOf(unit)
    BY <1>1, <2>1, MeaningGrows DEF Worth
  <2>5. \A i \in DOMAIN u : (i \in DOMAIN t /\ u[i] = t[i]) \/ (i = Len(t) + 1 /\ u[i] = p)
    BY <2>3
  <2>51. RankOf(unit) \in Int
    BY DEF RankOf
  <2>6. \A i \in DOMAIN u : RankOf(u[i][2]) >= RankOf(unit)
    <3>1. ASSUME NEW i \in DOMAIN t PROVE RankOf(t[i][2]) \in Int /\ RankOf(t[i][2]) >= RankOf(unit)
      <4>1. RankOf(t[i][2]) \in Int /\ RankOf(t[i][2]) > RankOf(unit)
        BY DEF RankOf
      <4> QED
        BY <4>1, <2>51
    <3> QED
      BY <1>1, <2>5, <2>51, <3>1
  <2>7. Falling(u)
    <3> SUFFICES ASSUME NEW i \in DOMAIN u, NEW j \in DOMAIN u, i < j
                 PROVE  RankOf(u[i][2]) > RankOf(u[j][2])
      BY DEF Falling
    <3>1. i \in DOMAIN t /\ u[i] = t[i]
      BY <2>3, <2>5
    <3>2. CASE j \in DOMAIN t
      BY <2>3, <3>1, <3>2 DEF Falling
    <3>3. CASE j = Len(t) + 1
      BY <1>1, <2>3, <3>1, <3>3
    <3> QED
      BY <2>5, <3>2, <3>3
  <2> QED
    BY <2>2, <2>3, <2>4, <2>6, <2>7
<1>3. CASE ~(n > 0)
  <2>1. Write(t, n, unit) = t /\ n = 0
    BY <1>3 DEF Write
  <2>2. Meaning(t) \in Int
    BY <1>1, MeaningGrows
  <2>3. MsOf(unit) \in Int /\ 0 * MsOf(unit) = 0
    BY DEF MsOf
  <2>4. \A i \in DOMAIN t : RankOf(t[i][2]) >= RankOf(unit)
    <3>1. \A i \in DOMAIN t : RankOf(t[i][2]) \in Int /\ RankOf(unit) \in Int
      BY DEF RankOf
    <3> QED
      BY <3>1
  <2> QED
    BY <2>1, <2>2, <2>3, <2>4, <1>3
<1> QED
  BY <1>2, <1>3

\* What canonical writes means the time it was given, in falling units, and is not empty.
LEMMA CanonicalExact ==
    ASSUME NEW ms \in Nat
    PROVE  Falling(Canonical(ms)) /\ Meaning(Canonical(ms)) = ms /\ Canonical(ms) # << >>
<1>0. << >> \in Seq(Parts) /\ Falling(<< >>) /\ Meaning(<< >>) = 0
  <2>1. << >> \in Seq(Parts) /\ Len(<< >>) = 0
    OBVIOUS
  <2>2. Meaning(<< >>) = 0
    BY <2>1, SumsOf DEF Meaning
  <2> QED
    BY <2>1, <2>2 DEF Falling
<1>1. CASE ms = 0
  <2>1. PICK p : p = <<0, "s">>
    OBVIOUS
  <2>2. p \in Parts /\ p[1] = 0 /\ p[2] = "s"
    BY <2>1 DEF Parts, Letters
  <2>3. PICK u : u = Append(<< >>, p)
    OBVIOUS
  <2>4. Canonical(ms) = u
    BY <1>1, <2>1, <2>3 DEF Canonical
  <2>5. Meaning(u) = 0 + Worth(p)
    BY <1>0, <2>2, <2>3, MeaningGrows
  <2>6. Worth(p) = 0
    BY <2>2, SMT DEF Worth, MsOf
  <2>7. u # << >> /\ Falling(u)
    BY <2>3 DEF Falling
  <2> QED
    BY <1>1, <2>4, <2>5, <2>6, <2>7
<1>2. CASE ms # 0
  <2>1. PICK a, b, hh, mm, ss, rr :
           /\ a = ms % 3600000 /\ b = a % 60000
           /\ hh = ms \div 3600000 /\ mm = a \div 60000 /\ ss = b \div 1000 /\ rr = b % 1000
    BY SMT
  <2>2. /\ a \in Nat /\ b \in Nat /\ hh \in Nat /\ mm \in Nat /\ ss \in Nat /\ rr \in Nat
        /\ ms = hh * 3600000 + mm * 60000 + ss * 1000 + rr
    <3>1. a \in Nat /\ hh \in Nat /\ ms = hh * 3600000 + a
      BY SMT, <2>1
    <3>2. b \in Nat /\ mm \in Nat /\ a = mm * 60000 + b
      BY SMT, <2>1, <3>1
    <3>3. ss \in Nat /\ rr \in Nat /\ b = ss * 1000 + rr
      BY SMT, <2>1, <3>2
    <3> QED
      BY SMT, <3>1, <3>2, <3>3
  <2>3. PICK h, m, s, r :
           /\ h = Write(<< >>, hh, "h") /\ m = Write(h, mm, "m") /\ s = Write(m, ss, "s") /\ r = Write(s, rr, "ms")
    BY SMT
  <2>4. Canonical(ms) = r
    BY SMT, <1>2, <2>1, <2>3 DEF Canonical
  <2>5. RankOf("h") = 4 /\ RankOf("m") = 3 /\ RankOf("s") = 2 /\ RankOf("ms") = 1
        /\ MsOf("h") = 3600000 /\ MsOf("m") = 60000 /\ MsOf("s") = 1000 /\ MsOf("ms") = 1
    BY SMT DEF RankOf, MsOf
  <2>6. \A t, i : RankOf(t[i][2]) \in Int
    BY SMT DEF RankOf
  <2>7. /\ h \in Seq(Parts) /\ Falling(h) /\ Meaning(h) = hh * 3600000 /\ NotBelow(h, "h")
        /\ (hh > 0) => h # << >>
    <3>1. Above(<< >>, "h")
      BY DEF Above
    <3>2. << >> \in Seq(Parts) /\ Falling(<< >>) /\ hh \in Nat /\ "h" \in {"h", "m", "s", "ms"}
      BY <2>2, <1>0
    <3>3. /\ h \in Seq(Parts) /\ Falling(h) /\ Meaning(h) = Meaning(<< >>) + hh * MsOf("h")
          /\ NotBelow(h, "h") /\ ((<< >> # << >> \/ hh > 0) => h # << >>)
      <4> HIDE DEF Parts
      <4> QED BY <2>3, <3>1, <3>2, Written
    <3>4. Meaning(h) = hh * 3600000
      BY <2>2, <2>5, <1>0, <3>3, SMT
    <3> QED
      BY <1>0, <3>3, <3>4, SMT
  <2>8. /\ m \in Seq(Parts) /\ Falling(m) /\ Meaning(m) = hh * 3600000 + mm * 60000 /\ NotBelow(m, "m")
        /\ (hh > 0 \/ mm > 0) => m # << >>
    <3>1. Above(h, "m")
      BY <2>5, <2>6, <2>7 DEF Above, NotBelow
    <3>2. h \in Seq(Parts) /\ Falling(h) /\ mm \in Nat /\ "m" \in {"h", "m", "s", "ms"}
      BY <2>2, <2>7
    <3>3. /\ m \in Seq(Parts) /\ Falling(m) /\ Meaning(m) = Meaning(h) + mm * MsOf("m")
          /\ NotBelow(m, "m") /\ ((h # << >> \/ mm > 0) => m # << >>)
      <4> HIDE DEF Parts
      <4> QED BY <2>3, <3>1, <3>2, Written
    <3>4. Meaning(m) = hh * 3600000 + mm * 60000
      BY <2>2, <2>5, <2>7, <3>3, SMT
    <3> QED
      BY <2>7, <3>3, <3>4, SMT
  <2>9. /\ s \in Seq(Parts) /\ Falling(s) /\ Meaning(s) = hh * 3600000 + mm * 60000 + ss * 1000 /\ NotBelow(s, "s")
        /\ (hh > 0 \/ mm > 0 \/ ss > 0) => s # << >>
    <3>1. Above(m, "s")
      BY <2>5, <2>6, <2>8 DEF Above, NotBelow
    <3>2. m \in Seq(Parts) /\ Falling(m) /\ ss \in Nat /\ "s" \in {"h", "m", "s", "ms"}
      BY <2>2, <2>8
    <3>3. /\ s \in Seq(Parts) /\ Falling(s) /\ Meaning(s) = Meaning(m) + ss * MsOf("s")
          /\ NotBelow(s, "s") /\ ((m # << >> \/ ss > 0) => s # << >>)
      <4> HIDE DEF Parts
      <4> QED BY <2>3, <3>1, <3>2, Written
    <3>4. Meaning(s) = hh * 3600000 + mm * 60000 + ss * 1000
      BY <2>2, <2>5, <2>8, <3>3, SMT
    <3> QED
      BY <2>8, <3>3, <3>4, SMT
  <2>10. hh > 0 \/ mm > 0 \/ ss > 0 \/ rr > 0
    BY <1>2, <2>2, SMT
  <2>11. Falling(r) /\ Meaning(r) = ms /\ r # << >>
    <3>1. Above(s, "ms")
      BY <2>5, <2>6, <2>9 DEF Above, NotBelow
    <3>2. s \in Seq(Parts) /\ Falling(s) /\ rr \in Nat /\ "ms" \in {"h", "m", "s", "ms"}
      BY <2>2, <2>9
    <3>3. /\ Falling(r) /\ Meaning(r) = Meaning(s) + rr * MsOf("ms")
          /\ ((s # << >> \/ rr > 0) => r # << >>)
      BY <2>3, <3>1, <3>2, Written
    <3>4. Meaning(r) = ms
      BY <2>2, <2>5, <2>9, <3>3, SMT
    <3>5. (hh > 0 \/ mm > 0 \/ ss > 0) => s # << >>
      BY <2>9
    <3>6. r # << >>
      BY <2>10, <3>3, <3>5
    <3> QED
      BY <3>3, <3>4, <3>6
  <2> QED
    BY <2>4, <2>11
<1> QED
  BY <1>1, <1>2

\* A part the strict parser takes.
Taken(p) == p[1] >= 0 /\ RankOf(p[2]) > 0

\* How far the parser is: the parts it has taken are in falling order and add up to what it has.
DurationInv ==
    /\ written \in Seq(Parts) /\ written \in Texts /\ dpos \in 1..Len(written) + 1 /\ rank \in 1..5 /\ total \in Nat
    /\ verdict \in {"parsing", "ok", "error"}
    /\ verdict = "ok" => dpos = Len(written) + 1 /\ total <= MaxMs
    /\ verdict \in {"parsing", "ok"} =>
          /\ total = Sums(written)[dpos - 1]
          /\ dpos = 1 => rank = 5
          /\ dpos > 1 => rank = RankOf(written[dpos - 1][2])
          /\ \A i \in 1..dpos - 1 : Taken(written[i])
          /\ \A i, j \in 1..dpos - 1 : i < j => RankOf(written[i][2]) > RankOf(written[j][2])

\* The parser keeps it.
LEMMA DurationStep ==
    DurationInv /\ [DurationNext]_durationVars => DurationInv'
<1> SUFFICES ASSUME DurationInv, [DurationNext]_durationVars
             PROVE  DurationInv'
  OBVIOUS
<1>0. \A u : RankOf(u) \in 0..4
  BY DEF RankOf
<1>1. CASE ParsePart
  <2>1. PICK p : p = written[dpos]
    OBVIOUS
  <2>2. verdict = "parsing" /\ dpos <= Len(written) /\ written' = written /\ p \in Parts /\ p[1] \in Int
        /\ Len(written) \in Nat /\ dpos \in 1..Len(written)
    BY <1>1, <2>1 DEF ParsePart, DurationInv, Parts
  <2>3. CASE p[1] >= 0 /\ RankOf(p[2]) > 0 /\ InOrder(p[2])
    <3>1. /\ dpos' = dpos + 1 /\ rank' = RankOf(p[2]) /\ total' = total + p[1] * MsOf(p[2]) /\ verdict' = verdict
          /\ RankOf(p[2]) < rank
      BY <1>1, <2>1, <2>3 DEF ParsePart, InOrder
    <3>2. p[1] * MsOf(p[2]) \in Nat
      <4>1. p[1] \in Nat
        BY <2>2, <2>3
      <4>2. MsOf(p[2]) \in Nat
        BY <2>2, WorthInt
      <4> QED
        BY <4>1, <4>2
    <3>3. total' \in Nat /\ total' = Sums(written)[dpos]
      <4>1. written \in Seq(Parts) /\ total \in Nat /\ total = Sums(written)[dpos - 1]
        BY <2>2 DEF DurationInv
      <4>2. Sums(written)[dpos] = Sums(written)[dpos - 1] + Worth(written[dpos])
        <5> HIDE DEF Parts
        <5> QED BY <2>2, <4>1, SumsOf
      <4>3. Worth(written[dpos]) = p[1] * MsOf(p[2])
        BY <2>1 DEF Worth
      <4> QED
        BY <3>1, <3>2, <4>1, <4>2, <4>3
    <3>4. rank' \in 1..5 /\ dpos' \in 1..Len(written) + 1 /\ dpos' - 1 = dpos
      BY <1>0, <2>2, <2>3, <3>1
    <3>5. \A i \in 1..dpos : Taken(written[i])
      BY <2>1, <2>2, <2>3 DEF DurationInv, Taken
    <3>6. \A i \in 1..dpos - 1 : RankOf(written[i][2]) >= rank
      <4>1. ASSUME NEW i \in 1..dpos - 1 PROVE RankOf(written[i][2]) >= rank
        <5>1. dpos > 1 /\ dpos - 1 \in 1..dpos - 1 /\ rank = RankOf(written[dpos - 1][2])
          BY <2>2, <4>1 DEF DurationInv
        <5>2. CASE i = dpos - 1
          BY <1>0, <5>1, <5>2
        <5>3. CASE i < dpos - 1
          <6>1. RankOf(written[i][2]) > RankOf(written[dpos - 1][2])
            BY <2>2, <4>1, <5>1, <5>3 DEF DurationInv
          <6> QED
            BY <1>0, <5>1, <6>1
        <5> QED
          BY <2>2, <4>1, <5>2, <5>3
      <4> QED
        BY <4>1
    <3>7. \A i, j \in 1..dpos : i < j => RankOf(written[i][2]) > RankOf(written[j][2])
      <4>1. ASSUME NEW i \in 1..dpos, NEW j \in 1..dpos, i < j
            PROVE  RankOf(written[i][2]) > RankOf(written[j][2])
        <5>1. i \in 1..dpos - 1
          BY <2>2, <4>1
        <5>2. CASE j = dpos
          <6>1. RankOf(written[i][2]) >= rank
            BY <3>6, <5>1
          <6>2. RankOf(written[j][2]) < rank /\ rank \in Int
            BY <2>1, <3>1, <5>2 DEF DurationInv
          <6> QED
            BY <6>1, <6>2, <1>0
        <5>3. CASE j < dpos
          BY <2>2, <4>1, <5>1, <5>3 DEF DurationInv
        <5> QED
          BY <2>2, <5>2, <5>3
      <4> QED
        BY <4>1
    <3>8. dpos' # 1 /\ rank' = RankOf(written[dpos' - 1][2])
      BY <2>1, <2>2, <3>1, <3>4
    <3> QED
      BY <2>2, <3>1, <3>3, <3>4, <3>5, <3>7, <3>8 DEF DurationInv
  <2>4. CASE ~(p[1] >= 0 /\ RankOf(p[2]) > 0 /\ InOrder(p[2]))
    BY <1>1, <2>1, <2>2, <2>4 DEF ParsePart, DurationInv
  <2> QED
    BY <2>3, <2>4
<1>2. CASE ParseEnds
  BY <1>2 DEF ParseEnds, DurationInv, Fits
<1>3. CASE UNCHANGED durationVars
  BY <1>3 DEF durationVars, DurationInv
<1> QED
  BY <1>1, <1>2, <1>3 DEF DurationNext, DurationEnded

\* The strict parser takes a text for the sum of its parts, in falling units; what it takes is written back as a
\* text of the same meaning; and the three parsers agree on what they all take, for every text and bound.
THEOREM DurationIsSafe == DurationSpec => []DurationSafe
<1>1. DurationInit => DurationInv
  <2> SUFFICES ASSUME DurationInit PROVE DurationInv
    OBVIOUS
  <2>1. written \in Seq(Parts) /\ Len(written) \in Nat
    BY DurationAssumption DEF DurationInit, Parts
  <2>2. Sums(written)[0] = 0
    BY <2>1, SumsOf
  <2> QED
    BY <2>1, <2>2 DEF DurationInit, DurationInv
<1>2. DurationInv => DurationSafe
  <2> SUFFICES ASSUME DurationInv PROVE DurationSafe
    OBVIOUS
  <2>1. DurationTypeOK
    BY DEF DurationInv, DurationTypeOK
  <2>2. RoundTrip
    BY CanonicalExact DEF DurationInv, RoundTrip
  <2>3. Len(written) \in Nat /\ DOMAIN written = 1..Len(written) /\ (Len(written) + 1) - 1 = Len(written) /\ MaxMs \in Nat
    BY DurationAssumption DEF DurationInv
  <2>4. StrictMeaning
    BY <2>3 DEF DurationInv, StrictMeaning, Falling, Meaning
  <2>5. ASSUME ChatTimeout(written) # Refused
        PROVE  /\ Len(written) = 1 /\ written[1] \in Parts /\ written[1][1] \in Nat
               /\ written[1][2] \in {"ms", "s", "m", "none"}
               /\ ChatTimeout(written) = written[1][1] * (IF written[1][2] = "none" THEN 1000 ELSE MsOf(written[1][2]))
               /\ ChatTimeout(written) <= MaxMs
    <3>1. Len(written) = 1 /\ ~(written[1][1] < 0) /\ written[1][2] \in {"ms", "s", "m", "none"}
      BY <2>5 DEF ChatTimeout
    <3>2. written[1] \in Parts
      <4>1. written \in Seq(Parts) /\ 1 \in 1..Len(written)
        BY <3>1 DEF DurationInv
      <4> QED
        BY <4>1
    <3>3. written[1][1] \in Nat
      BY <3>1, <3>2 DEF Parts
    <3>4. PICK x : x = written[1][1] * (IF written[1][2] = "none" THEN 1000 ELSE MsOf(written[1][2]))
      OBVIOUS
    <3>5. x \in Nat
      BY <3>1, <3>3, <3>4, SMT DEF MsOf
    <3>6. ChatTimeout(written) = x /\ x <= MaxMs
      BY <2>5, <2>3, <3>1, <3>4, <3>5 DEF ChatTimeout
    <3> QED
      BY <3>1, <3>2, <3>3, <3>4, <3>6
  <2>6. ASSUME verdict = "ok", ChatTimeout(written) # Refused
        PROVE  ChatTimeout(written) = total
    <3>1. written \in Seq(Parts) /\ dpos = 2 /\ 1 \in 1..1 /\ Taken(written[1]) /\ total = Sums(written)[1]
      <4>1. Len(written) = 1
        BY <2>5, <2>6
      <4>2. written \in Seq(Parts) /\ dpos = Len(written) + 1
        BY <2>6 DEF DurationInv
      <4>3. dpos = 2 /\ dpos - 1 = 1 /\ 1 \in 1..1
        BY <4>1, <4>2
      <4>4. Taken(written[1]) /\ total = Sums(written)[1]
        BY <2>6, <4>3 DEF DurationInv
      <4> QED
        BY <4>2, <4>3, <4>4
    <3>2. written[1][2] # "none"
      BY <3>1 DEF Taken, RankOf
    <3>3. Sums(written)[1] = Sums(written)[0] + Worth(written[1]) /\ Sums(written)[0] = 0
      <4>1. 1 \in 1..Len(written) /\ 1 - 1 = 0
        <5>1. Len(written) = 1
          BY <2>5, <2>6
        <5> QED
          BY <5>1
      <4> QED
        BY <3>1, <4>1, SumsOf
    <3>4. Worth(written[1]) \in Int /\ Worth(written[1]) = written[1][1] * MsOf(written[1][2])
      BY <2>5, <2>6, WorthInt DEF Worth
    <3> QED
      BY <2>5, <2>6, <3>1, <3>2, <3>3, <3>4
  <2>7. ASSUME ChatTimeout(written) # Refused
        PROVE  V1Duration(written) = ChatTimeout(written)
    <3>1. PICK n : n = written[1][1]
      OBVIOUS
    <3>2. n \in Nat /\ ~(n < 0)
      BY <2>5, <2>7, <3>1
    <3>3. n <= ChatTimeout(written) /\ ChatTimeout(written) \in Int
      BY <2>5, <2>7, <3>1, <3>2, SMT DEF MsOf
    <3>4. ~(n > MaxMs)
      BY <2>3, <2>5, <2>7, <3>2, <3>3
    <3> QED
      BY <2>5, <2>7, <3>1, <3>2, <3>4 DEF V1Duration
  <2> QED
    BY <2>1, <2>2, <2>4, <2>6, <2>7 DEF DurationSafe, ParsersAgree
<1> QED
  BY <1>1, <1>2, DurationStep, PTL DEF DurationSpec

=============================================================================

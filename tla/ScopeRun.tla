------------------------------ MODULE ScopeRun ------------------------------
(***************************************************************************)
(* What a call, repeat or map promises to whoever reads the session log:   *)
(* body steps complete once each and in order, iteration by iteration; a   *)
(* skip ends its iteration, a break ends the container, and the container  *)
(* completes only when no iteration is left.  Crashes are not part of it.  *)
(***************************************************************************)
EXTENDS Integers, Sequences

VARIABLES
    shape,    \* [kind, body, rounds, override] of the container step
    done,     \* by its place in the log, each completed body step: [at |-> <<iteration, position>>, gate]
    outcome   \* "open", "completed" or "failed"

Last(d) == d[CHOOSE k \in DOMAIN d : \A j \in DOMAIN d : j <= k]
EndsIteration(d) == d.gate = "skip" \/ d.at[2] + 1 >= Len(shape.body)

\* The body step that must complete next.
Successor ==
    IF DOMAIN done = {} THEN <<0, 0>>
    ELSE LET d == Last(done) IN
         IF EndsIteration(d) THEN <<d.at[1] + 1, 0>> ELSE <<d.at[1], d.at[2] + 1>>

Broken == DOMAIN done # {} /\ Last(done).gate = "break"
Exhausted == shape.body = << >> \/ shape.rounds = 0 \/ Broken \/ Successor[1] >= shape.rounds

RunInit == DOMAIN done = {} /\ outcome = "open"

CompleteBody(gate) ==
    /\ outcome = "open" /\ ~Exhausted
    /\ \E k \in DOMAIN done' :
         /\ \A j \in DOMAIN done : j < k
         /\ done' = [j \in DOMAIN done \cup {k} |-> IF j = k THEN [at |-> Successor, gate |-> gate] ELSE done[j]]
    /\ UNCHANGED <<shape, outcome>>

CompleteContainer ==
    /\ outcome = "open" /\ Exhausted
    /\ outcome' = "completed" /\ UNCHANGED <<shape, done>>

FailContainer ==
    /\ outcome = "open" /\ outcome' = "failed" /\ UNCHANGED <<shape, done>>

RunNext ==
    \/ \E gate \in {"none", "continue", "skip", "break"} : CompleteBody(gate)
    \/ CompleteContainer \/ FailContainer

ScopeRunSpec == RunInit /\ [][RunNext]_<<shape, done, outcome>>
=============================================================================

------------------------------ MODULE EventLog ------------------------------
(***************************************************************************)
(* What a session store promises: every session has one log that only      *)
(* grows at its end, one event at a time, and a status that leaves         *)
(* "running" once.  Transactions, locks and sequence numbers are invisible *)
(* here; the SessionStore module implements this specification.            *)
(***************************************************************************)
EXTENDS Sequences

CONSTANTS Sessions, Payloads, Terminal

VARIABLES
    log,     \* the events of each session, in replay order
    status   \* the status of each session

logVars == <<log, status>>

LogInit ==
    /\ log = [s \in Sessions |-> << >>]
    /\ status = [s \in Sessions |-> "running"]

AppendEvent(s, payload) ==
    /\ log' = [log EXCEPT ![s] = Append(log[s], payload)]
    /\ UNCHANGED status

EndSession(s, st) ==
    /\ status[s] = "running"
    /\ status' = [status EXCEPT ![s] = st]
    /\ UNCHANGED log

LogNext ==
    \E s \in Sessions :
        \/ \E payload \in Payloads : AppendEvent(s, payload)
        \/ \E st \in Terminal : EndSession(s, st)

LogSpec == LogInit /\ [][LogNext]_logVars
=============================================================================

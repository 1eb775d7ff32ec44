----------------------------- MODULE RemoteLogs -----------------------------
(***************************************************************************)
(* stepyard remote: dispatching a run to the dashboard's API, and its log  *)
(* stream, which arrives in chunks that need not respect lines, line ends  *)
(* or characters.  The server is external.                                 *)
(*                                                                         *)
(* The stream is a sequence of tokens: CR, LF, a field (<<"event", name>>, *)
(* <<"data", value>>, <<"comment", c>>), or the bytes <<"byte", 1>> and    *)
(* <<"byte", 2>> of a character of two.                                    *)
(***************************************************************************)
EXTENDS Integers, Sequences

CONSTANTS
    Streams,      \* the streams to consider
    Dispatches    \* [config, vars, flagRepo, defaultRepo]

CR == <<"cr", 0>>
LF == <<"lf", 0>>
Lossy == <<"byte", 0>>

\* The server ends its lines with LF, a proxy may write CR LF; the text it sends is JSON, where
\* a CR is escaped, so no CR follows another.
ASSUME RemoteAssumption ==
    /\ \A s \in Streams : s \in Seq({s[i] : i \in DOMAIN s})
    /\ \A s \in Streams : \A i \in 2..Len(s) : ~(s[i - 1] = CR /\ s[i] = CR)

VARIABLES
    stream, got,       \* what the server sends and how much of it has arrived
    buffer,            \* what logs_cmd has not used
    drained, handled,  \* the events it took from it, and the ones its loop reached
    rpc,               \* "streaming", or how the command ended
    order, started, told   \* exec: the request, the runs the server started, what the user was told

remoteVars == <<stream, got, buffer, drained, handled, rpc, order, started, told>>

RemoteInit ==
    /\ stream \in Streams /\ got = 0 /\ buffer = << >> /\ drained = << >> /\ handled = << >> /\ rpc = "streaming"
    /\ order \in Dispatches /\ started = << >> /\ told = "none"

-----------------------------------------------------------------------------
(* remote logs *)

\* from_utf8_lossy on one chunk: a character cut by its edge becomes a replacement.
FromUtf8Lossy(chunk) ==
    [i \in DOMAIN chunk |->
        CASE chunk[i] = <<"byte", 1>> /\ (i = Len(chunk) \/ chunk[i + 1] # <<"byte", 2>>) -> Lossy
          [] chunk[i] = <<"byte", 2>> /\ (i = 1 \/ chunk[i - 1] # <<"byte", 1>>) -> Lossy
          [] OTHER -> chunk[i]]

\* Where a frame has a field: at the start of a line.
FieldsAt(frame, field) == {i \in DOMAIN frame : frame[i][1] = field /\ (i = 1 \/ frame[i - 1] = LF)}
Latest(places) == CHOOSE i \in places : \A j \in places : j <= i

\* parse_sse_event: the last event field names the event.
ParseSseEvent(frame) ==
    LET names == FieldsAt(frame, "event")
    IN  [event |-> IF names = {} THEN "message" ELSE frame[Latest(names)][2],
         data |-> [i \in FieldsAt(frame, "data") |-> frame[i][2]]]

\* A text without the CR at its end.
Trimmed(tail) == IF tail # << >> /\ tail[Len(tail)] = CR THEN SubSeq(tail, 1, Len(tail) - 1) ELSE tail

\* drain_sse_events, token by token: CR LF becomes LF, a blank line ends a frame, and a frame
\* without data is dropped.
ScanStep(a, t) ==
    LET text == Trimmed(a.tail)
        event == ParseSseEvent(SubSeq(text, 1, Len(text) - 1))
    IN  IF t # LF THEN [a EXCEPT !.tail = Append(@, t)]
        ELSE IF text = << >> \/ text[Len(text)] # LF THEN [a EXCEPT !.tail = Append(text, LF)]
        ELSE [events |-> IF DOMAIN event.data = {} THEN a.events ELSE Append(a.events, event), tail |-> << >>]

Scanned(a, s) ==
    LET scan[k \in 0..Len(s)] == IF k = 0 THEN a ELSE ScanStep(scan[k - 1], s[k]) IN scan[Len(s)]

Nothing == [events |-> << >>, tail |-> << >>]

\* Variant: the tail is kept without its line end.
Kept_Trimmed(scan) ==
    IF scan.tail # << >> /\ scan.tail[Len(scan.tail)] \in {CR, LF}
    THEN SubSeq(scan.tail, 1, Len(scan.tail) - 1) ELSE scan.tail

\* What drain_sse_events leaves in the buffer.
Kept(scan) == scan.tail

\* The events of one chunk up to the one that ends the command.
Closing(e) ==
    \/ e.event \in {"done", "error"}
    \/ e.event \in {"snapshot", "log"} /\ \E i \in DOMAIN e.data : e.data[i] = "bad json"
UpToClosing(events) ==
    LET closing == {i \in DOMAIN events : Closing(events[i])}
    IN  IF closing = {} THEN events ELSE SubSeq(events, 1, CHOOSE i \in closing : \A j \in closing : i <= j)

StreamVerdict(events) ==
    LET last == events[Len(events)]
    IN  IF events = << >> \/ ~Closing(last) THEN "streaming"
        ELSE IF last.event = "done" THEN "closed" ELSE "failed"

\* A chunk of the response.
Chunk ==
    /\ rpc = "streaming" /\ got < Len(stream)
    /\ \E n \in 1..Len(stream) - got :
          LET scan == Scanned(Nothing, buffer \o FromUtf8Lossy(SubSeq(stream, got + 1, got + n)))
          IN  /\ got' = got + n /\ buffer' = Kept(scan) /\ drained' = drained \o scan.events
              /\ handled' = handled \o UpToClosing(scan.events) /\ rpc' = StreamVerdict(UpToClosing(scan.events))
    /\ UNCHANGED <<stream, order, started, told>>

\* The server closes the connection: the command ends well, whatever is buffered.
StreamEnds ==
    /\ rpc = "streaming" /\ got = Len(stream) /\ rpc' = "closed"
    /\ UNCHANGED <<stream, got, buffer, drained, handled, order, started, told>>

\* The request is refused, or the connection breaks.
StreamBreaks ==
    /\ rpc = "streaming" /\ rpc' = "failed"
    /\ UNCHANGED <<stream, got, buffer, drained, handled, order, started, told>>

-----------------------------------------------------------------------------
(* remote exec *)

\* load_config and parse_kv_vars come before anything is sent.
Sendable == order.config = "whole" /\ order.vars # "bad"
RepoOf == IF order.flagRepo # "none" THEN order.flagRepo ELSE order.defaultRepo

Told(reply) == IF reply \in {"accepted"} THEN "dispatched" ELSE "error"

\* The POST is sent once.  The request or its answer may be lost, and the server may refuse.
SendDispatch ==
    /\ told = "none"
    /\ IF ~Sendable THEN told' = "error" /\ UNCHANGED started
       ELSE \/ started' = Append(started, RepoOf) /\ told' = Told("accepted")
            \/ started' = Append(started, RepoOf) /\ told' = Told("lost")
            \/ told' = Told("lost") /\ UNCHANGED started
            \/ told' = Told("refused") /\ UNCHANGED started
    /\ UNCHANGED <<stream, got, buffer, drained, handled, rpc, order>>

RemoteEnded == rpc # "streaming" /\ told # "none" /\ UNCHANGED remoteVars

RemoteNext == Chunk \/ StreamEnds \/ StreamBreaks \/ SendDispatch \/ RemoteEnded

RemoteSpec == RemoteInit /\ [][RemoteNext]_remoteVars

-----------------------------------------------------------------------------
(* Properties *)

\* Types of the remote commands; the buffer holds no more than what no event has used.
RemoteTypeOK ==
    /\ stream \in Streams /\ got \in 0..Len(stream) /\ rpc \in {"streaming", "closed", "failed"}
    /\ Len(handled) <= Len(drained) /\ Len(buffer) + 2 * Len(drained) <= got /\ told \in {"none", "dispatched", "error"}

\* The events taken from the stream are those of what has arrived, wherever it was cut, in the
\* middle of a CR LF too.
FramesWhole == drained = Scanned(Nothing, SubSeq(stream, 1, got)).events

\* No event is handled after the one that ends the stream, and the command's end is its verdict.
StopsAtClosing ==
    \A i \in DOMAIN handled : Closing(handled[i]) =>
        i = Len(handled) /\ rpc = IF handled[i].event = "done" THEN "closed" ELSE "failed"

\* A dispatch that is reported as done has started one run, of the repository asked for or
\* else the configured one; a request is never sent twice.
ReportedIsStarted ==
    /\ told = "dispatched" => Len(started) = 1
    /\ Len(started) <= 1
    /\ \A i \in DOMAIN started : started[i] = RepoOf

\* The user is shown the stream as it was sent and told what the server did.
RemoteSafe == RemoteTypeOK /\ FramesWhole /\ StopsAtClosing /\ ReportedIsStarted
=============================================================================

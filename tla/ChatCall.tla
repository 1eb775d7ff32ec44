------------------------------ MODULE ChatCall ------------------------------
(***************************************************************************)
(* One call of a chat provider by the v2 engine: the key, the history that *)
(* is sent, the retries of a rate-limited request, and the race of the     *)
(* whole call with the step's timeout.                                     *)
(***************************************************************************)
EXTENDS Integers, Sequences

CONSTANT Asks   \* the steps; a history is the number of words of each turn

\* "compat" is the provider without an endpoint of its own, "other" any of the rest.
ASSUME ChatAssumption ==
    Asks \subseteq [provider : {"anthropic", "openai", "gemini", "compat", "other"}, url : BOOLEAN,
                    keyEnv : BOOLEAN, inEnv : BOOLEAN, onHost : BOOLEAN, history : Seq(Nat),
                    cut : [by : {"none", "last", "first", "first_last", "window"}, n : Nat, m : Nat]]

MaxRetries == 3
Backoffs == <<1, 2, 4>>
Soon == 0       \* a Retry-After date that has passed
\* No such header or one that is not understood, a date that has passed, and a number of seconds
\* or a date that far ahead.
RetryAfters == {"none", "date", "7"}
\* "lost" is a request without a reply, "unread" a 200 whose body could not be read.
Statuses == {"200", "unread", "429", "500", "lost"}

VARIABLES
    ask,        \* the step
    qpc,        \* where the call is
    history,    \* the turns that are sent: positions in ask.history
    replies,    \* <<status, Retry-After>> of each request
    delays,     \* the waits between requests
    result

chatVars == <<ask, qpc, history, replies, delays, result>>

ChatInit ==
    /\ ask \in Asks /\ qpc = "key" /\ history = << >> /\ replies = << >> /\ delays = << >> /\ result = "none"

EndCall(r) == qpc' = "done" /\ result' = r

\* resolve_api_key: no variable, the step's environment, the host's; else the step fails.
KeyFound == ~ask.keyEnv \/ ask.inEnv \/ ask.onHost

ResolveKey ==
    /\ qpc = "key"
    /\ IF KeyFound THEN qpc' = "build" /\ UNCHANGED result ELSE EndCall("no_key")
    /\ UNCHANGED <<ask, history, replies, delays>>

-----------------------------------------------------------------------------
(* apply_truncation *)

\* estimate_tokens: 1.3 per word, rounded up.
EstimateTokens(words) == (13 * words + 9) \div 10
\* The tokens of the first turns of s, by their number.
TokenSums(s) ==
    LET sum[k \in 0..Len(s)] == IF k = 0 THEN 0 ELSE sum[k - 1] + EstimateTokens(ask.history[s[k]]) IN sum
Tokens(s) == TokenSums(s)[Len(s)]

Positions == [i \in DOMAIN ask.history |-> i]
FirstTurns(n) == SubSeq(Positions, 1, IF n > Len(Positions) THEN Len(Positions) ELSE n)
LastTurns(n) == SubSeq(Positions, IF n > Len(Positions) THEN 1 ELSE Len(Positions) - n + 1, Len(Positions))

FirstLast(first, last) ==
    IF first + last >= Len(Positions) THEN Positions ELSE FirstTurns(first) \o LastTurns(last)

\* One turn of the loop of the sliding window: turns go from the front until the rest fits.
DropTurn(limit, i, s) ==
    IF s.used <= limit THEN s
    ELSE [used |-> s.used - EstimateTokens(ask.history[i]), drop |-> s.drop + 1]
Dropping(limit) ==
    LET loop[i \in 0..Len(Positions)] ==
            IF i = 0 THEN [used |-> Tokens(Positions), drop |-> 0] ELSE DropTurn(limit, i, loop[i - 1])
    IN  loop
DropCount(limit) == Dropping(limit)[Len(Positions)].drop

\* Variant: one turn more is dropped than need be.
SlidingWindow_OneMore(limit) ==
    IF Tokens(Positions) <= limit THEN Positions ELSE LastTurns(Len(Positions) - DropCount(limit) - 1)

SlidingWindow(limit) == LastTurns(Len(Positions) - DropCount(limit))

Truncated ==
    CASE ask.cut.by = "last" -> LastTurns(ask.cut.n)
      [] ask.cut.by = "first" -> FirstTurns(ask.cut.n)
      [] ask.cut.by = "first_last" -> FirstLast(ask.cut.n, ask.cut.m)
      [] ask.cut.by = "window" -> SlidingWindow(ask.cut.n)
      [] OTHER -> Positions

\* The compatible provider's arm has no endpoint of its own.
UrlMissing == ask.provider = "compat" /\ ~ask.url

\* complete and call_provider up to the first request.
BuildRequest ==
    /\ qpc = "build" /\ history' = Truncated
    /\ IF UrlMissing THEN EndCall("no_url") ELSE qpc' = "send" /\ UNCHANGED result
    /\ UNCHANGED <<ask, replies, delays>>

-----------------------------------------------------------------------------
(* RetryingHttpClient *)

\* rig's Gemini model has its own HTTP client, which does not retry.
Retrying == ask.provider # "gemini"

MayRetry == Retrying /\ Len(delays) < MaxRetries

Fallback == Backoffs[IF Len(delays) < MaxRetries THEN Len(delays) + 1 ELSE MaxRetries]

\* retry_after_delay: seconds, or a date; what has passed is no wait.
DelayOf(after) ==
    CASE after = "none" -> Fallback [] after = "date" -> Soon [] OTHER -> 7

Reply ==
    /\ qpc = "send"
    /\ \E status \in Statuses, after \in RetryAfters :
          /\ status # "429" => after = "none"
          /\ replies' = Append(replies, <<status, after>>)
          /\ IF status = "429" /\ MayRetry
             THEN delays' = Append(delays, DelayOf(after)) /\ qpc' = "wait" /\ UNCHANGED result
             ELSE EndCall(IF status = "200" THEN "answer" ELSE status) /\ UNCHANGED delays
    /\ UNCHANGED <<ask, history>>

\* The sleep before the next request.
Resend == qpc = "wait" /\ qpc' = "send" /\ UNCHANGED <<ask, history, replies, delays, result>>

\* The parts of the call the step's select races with its timeout.
Raced == {"send", "wait"}

CallTimeout ==
    /\ qpc \in Raced /\ EndCall("timeout") /\ UNCHANGED <<ask, history, replies, delays>>

ChatCallEnded == qpc = "done" /\ UNCHANGED chatVars

ChatCallNext == ResolveKey \/ BuildRequest \/ Reply \/ Resend \/ CallTimeout \/ ChatCallEnded

ChatCallSpec == ChatInit /\ [][ChatCallNext]_chatVars

-----------------------------------------------------------------------------
(* Properties *)

\* Types of a call; no more requests and waits than the retries allow.
ChatCallTypeOK ==
    /\ ask \in Asks /\ qpc \in {"key", "build", "send", "wait", "done"}
    /\ Len(replies) <= MaxRetries + 1 /\ Len(delays) <= MaxRetries
    /\ result \in {"none", "no_key", "no_url", "answer", "timeout"} \cup Statuses

\* The call ends with the first reply that is not a rate limit; a rate limit is its result
\* only when every retry was used, and a provider that does not retry sends one request.
EndsWithLastReply ==
    /\ \A i \in 1..Len(replies) - 1 : replies[i][1] = "429"
    /\ result = "429" => Len(replies) = IF Retrying THEN MaxRetries + 1 ELSE 1

\* Before each retry the client waits as long as the provider said, or else 1, 2, then 4 s.
WaitsAsTold ==
    \A i \in DOMAIN delays :
        delays[i] = CASE replies[i][2] = "none" -> <<1, 2, 4>>[i] [] replies[i][2] = "date" -> Soon [] OTHER -> 7

Sent == qpc \in {"send", "wait"}
\* What is sent is the history in its order, no turn twice; the window keeps the most
\* turns that fit, and first_last the ends it names.
TrimExact ==
    Sent =>
        /\ \A i, j \in DOMAIN history : i < j => history[i] < history[j]
        /\ ask.cut.by = "window" =>
              \E k \in 0..Len(Positions) :
                 /\ history = LastTurns(k) /\ (Tokens(LastTurns(k)) <= ask.cut.n \/ k = 0)
                 /\ k < Len(Positions) => Tokens(LastTurns(k + 1)) > ask.cut.n
        /\ ask.cut.by = "first_last" =>
              \A i \in DOMAIN Positions :
                 i <= ask.cut.n \/ i > Len(Positions) - ask.cut.m => \E j \in DOMAIN history : history[j] = i

\* A call sends the history it should, waits as it is told, and ends with the reply that counts.
ChatCallSafe == ChatCallTypeOK /\ EndsWithLastReply /\ WaitsAsTold /\ TrimExact

\* A provider that never answers, and one that asks for a long wait, hold the step no longer
\* than its timeout.
CallEnds == qpc = "send" ~> qpc = "done"
=============================================================================

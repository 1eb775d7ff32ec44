------------------------------- MODULE V1Body -------------------------------
(***************************************************************************)
(* The sequential executors of v1: repeat, the serial map and call run the *)
(* steps of a scope in a child context; chat and agent steps keep their    *)
(* conversations in that context.                                          *)
(*                                                                         *)
(* An output is <<round, position>>; position 0 is the rendered outputs    *)
(* template of the scope, Nothing is StepOutput::Empty.                    *)
(***************************************************************************)
EXTENDS Integers, Sequences, FiniteSets, SequencesExt

CONSTANTS
    Bodies     \* the steps to consider: records of Body

BodyStepKinds == {"cmd", "gate", "chat", "agent", "other"}
Strategies == {[by |-> "none", n |-> 0, m |-> 0]} \cup [by : {"last", "first", "window"}, n : Nat, m : {0}]
              \cup [by : {"ends"}, n : Nat, m : Nat]
Body == [kind : {"repeat", "map", "call"}, steps : Seq(BodyStepKinds), rounds : Nat,
         template : BOOLEAN, cut : Strategies]

ASSUME BodiesAssumption == Bodies \subseteq Body

VARIABLES
    body,      \* the step and its scope
    round, at, \* the iteration and the position in the scope
    child,     \* child_ctx: the outputs stored in this iteration
    chats,     \* child_ctx: the messages of the chat session
    root,      \* child_ctx: the session captured from an agent, << >> before
    prev,      \* last_output
    broke,     \* should_break
    value,     \* scope.value the iteration was given
    given,     \* history: scope.value of each iteration so far
    made,      \* history: the iterations' outputs
    request,   \* the messages of the last chat request
    bpc

bodyVars == <<body, round, at, child, chats, root, prev, broke, value, given, made, request, bpc>>

Nothing == <<0, 0>>
Item(r) == <<r, -1>>
Size == Len(body.steps)
BlankChild == [p \in 1..Size |-> << >>]

\* max_iterations of repeat, the items of map, one round of call.
Rounds == IF body.kind = "call" THEN 1 ELSE body.rounds

BodyInit ==
    /\ body \in Bodies /\ round = 0 /\ at = 0 /\ child = BlankChild /\ chats = << >> /\ root = << >>
    /\ prev = Nothing /\ broke = FALSE /\ value = Nothing /\ given = << >> /\ made = << >>
    /\ request = << >> /\ bpc = "next"

\* Variant: an iteration goes on in the context of the one before.
FreshChild_Kept == child

\* Context::new for each iteration: no output of another one is in it.
FreshChild == BlankChild

\* scope.value: the item of a map, the output before of a repeat, initial_value at first.
Value ==
    CASE body.kind = "map" -> Item(round + 1)
      [] body.kind = "repeat" /\ made # << >> -> Last(made)
      [] OTHER -> Nothing

MoreRounds == round < Rounds

NextRound ==
    /\ bpc = "next" /\ MoreRounds /\ ~broke
    /\ round' = round + 1 /\ at' = 1 /\ child' = FreshChild /\ chats' = << >> /\ root' = << >>
    /\ prev' = Nothing /\ value' = Value /\ given' = Append(given, Value)
    /\ bpc' = "step" /\ UNCHANGED <<body, broke, made, request>>

-----------------------------------------------------------------------------
(* One step of the scope *)

Acting == body.steps[at]
AtBodyStep == bpc = "step" /\ at <= Size
Kept == <<body, round, value, given, made>>

StepOk ==
    /\ child' = [child EXCEPT ![at] = <<round, at>>] /\ prev' = <<round, at>> /\ at' = at + 1
    /\ UNCHANGED <<broke, bpc>>

StepError == bpc' = "failed" /\ UNCHANGED <<at, child, prev, broke>>

RunCmd ==
    /\ AtBodyStep /\ Acting = "cmd" /\ (StepOk \/ StepError)
    /\ UNCHANGED <<Kept, chats, root, request>>

AfterSkip == prev

\* on_pass and on_fail: continue, skip, break or fail.  A break ends a repeat or a call, of
\* a map only the item.
RunGate ==
    /\ AtBodyStep /\ Acting = "gate"
    /\ \/ StepOk
       \/ /\ child' = [child EXCEPT ![at] = Nothing] /\ prev' = AfterSkip /\ at' = at + 1
          /\ UNCHANGED <<broke, bpc>>
       \/ broke' = (body.kind # "map") /\ bpc' = "round" /\ UNCHANGED <<at, child, prev>>
       \/ StepError
    /\ UNCHANGED <<Kept, chats, root, request>>

\* map, parallel, template and script steps have no executor inside a scope.
RunOther ==
    /\ AtBodyStep /\ Acting = "other" /\ StepError /\ UNCHANGED <<Kept, chats, root, request>>

Newest(s, n) == SubSeq(s, (IF n < Len(s) THEN Len(s) - n ELSE 0) + 1, Len(s))
Oldest(s, n) == SubSeq(s, 1, IF n < Len(s) THEN n ELSE Len(s))

\* estimate_tokens: messages differ in length, here by their author: one for a question, two for an answer.
TokensOf(s) == Len(s) + Cardinality({i \in DOMAIN s : s[i][1] # "user"})

\* The oldest messages are dropped until the rest fits.
Window(s, limit) ==
    LET fits == {d \in 0..Len(s) : TokensOf(SubSeq(s, d + 1, Len(s))) <= limit}
    IN  SubSeq(s, (CHOOSE d \in fits : \A e \in fits : d <= e) + 1, Len(s))

\* truncate_messages
Truncated(s, cut) ==
    CASE cut.by = "last" -> Newest(s, cut.n)
      [] cut.by = "first" -> Oldest(s, cut.n)
      [] cut.by = "ends" -> IF cut.n + cut.m >= Len(s) THEN s ELSE Oldest(s, cut.n) \o Newest(s, cut.m)
      [] cut.by = "window" -> Window(s, cut.n)
      [] OTHER -> s

Unanswered == chats

\* The request carries the truncated history and the prompt; both turns join the history
\* when the answer is there.
RunChat ==
    /\ AtBodyStep /\ Acting = "chat" /\ request' = Truncated(chats, body.cut)
    /\ \/ StepOk /\ chats' = chats \o <<<<"user", round, at>>, <<"assistant", round, at>>>>
       \/ StepError /\ chats' = Unanswered
    /\ UNCHANGED <<Kept, root>>

\* SessionManager::capture: the first session id stays.
Captured(sid) == IF root = << >> THEN sid ELSE root

\* An agent may end without a session id on its last result line.
RunAgent ==
    /\ AtBodyStep /\ Acting = "agent"
    /\ \/ /\ StepOk /\ \E sid \in {<< >>, <<round, at>>} : root' = Captured(sid)
       \/ StepError /\ UNCHANGED root
    /\ UNCHANGED <<Kept, chats, request>>

BodyDone ==
    /\ bpc = "step" /\ at > Size /\ bpc' = "round"
    /\ UNCHANGED <<Kept, at, child, chats, root, prev, broke, request>>

\* The outputs template of the scope, or the last output when it has none or it fails.
RoundDone ==
    /\ bpc = "round" /\ bpc' = "next"
    /\ \E out \in {prev} \cup (IF body.template THEN {<<round, 0>>} ELSE {}) : made' = Append(made, out)
    /\ UNCHANGED <<body, round, at, child, chats, root, prev, broke, value, given, request>>

BodyReturns ==
    /\ bpc = "next" /\ (~MoreRounds \/ broke)
    /\ bpc' = "returned"
    /\ UNCHANGED <<body, round, at, child, chats, root, prev, broke, value, given, made, request>>

BodyEnded == bpc \in {"returned", "failed"} /\ UNCHANGED bodyVars

BodyRunner ==
    \/ NextRound \/ RunCmd \/ RunGate \/ RunOther \/ RunChat \/ RunAgent
    \/ BodyDone \/ RoundDone \/ BodyReturns
BodyNext == BodyRunner \/ BodyEnded
BodySpec == BodyInit /\ [][BodyNext]_bodyVars

-----------------------------------------------------------------------------
(* Properties *)

\* Types of a scope run.
BodyTypeOK ==
    /\ body \in Bodies /\ round \in 0..Rounds /\ at \in 0..Size + 1 /\ broke \in BOOLEAN
    /\ Len(made) <= round /\ Len(given) = round

\* No iteration sees an output, a chat turn or an agent session of another: its context is a new one.  The
\* comments of context.rs and the documents say that chat and agent sessions are shared by the child contexts.
RoundsIsolated ==
    bpc = "step" =>
        /\ \A p \in 1..Size : child[p] = << >> \/ child[p] = Nothing \/ child[p][1] = round
        /\ \A i \in DOMAIN chats : chats[i][2] = round
        /\ root = << >> \/ root[1] = round

\* A repeat hands each iteration the output of the one before it, rendered or not.
CarriesOutput ==
    body.kind = "repeat" => \A r \in 2..Len(given) : given[r] = made[r - 1]

\* The output of an iteration is its own: a rendered template, or the last step of it that
\* had an output; it is empty only when no step of it had one.
OutputOfRound ==
    /\ \A r \in DOMAIN made : made[r] = Nothing \/ made[r][1] = r
    /\ bpc = "round" /\ prev = Nothing => \A p \in 1..Size : child[p] \in {<< >>, Nothing}

\* A sliding window never sends more than its budget.
WindowFits ==
    body.cut.by = "window" /\ request # << >> =>
        TokensOf(request) <= body.cut.n

\* Every question in the history has its answer behind it.
TurnsPaired ==
    /\ Len(chats) % 2 = 0
    /\ \A i \in DOMAIN chats : chats[i][1] = IF i % 2 = 1 THEN "user" ELSE "assistant"

\* Iterations see their own context and the one value handed on, and chat histories stay well formed
\* whatever is skipped, broken off, cut or refused.
BodySafe ==
    BodyTypeOK /\ RoundsIsolated /\ CarriesOutput /\ OutputOfRound /\ WindowFits /\ TurnsPaired
=============================================================================

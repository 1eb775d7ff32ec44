------------------------------ MODULE SlackBot ------------------------------
(***************************************************************************)
(* The Slack bot: Slack delivers an event until it is answered, possibly   *)
(* more than once; the handler checks it and starts a task per command;    *)
(* the task posts to the thread, runs stepyard and posts the result.       *)
(* Slack, its API and the child process are external.                      *)
(***************************************************************************)
EXTENDS Integers, Sequences

CONSTANTS
    SlackRequests,   \* [id, signed, stamp, kind, bot, mention, whole, says]
    MaxDeliveries    \* deliveries of one request

ASSUME SlackAssumption ==
    /\ MaxDeliveries \in Nat
    /\ SlackRequests \subseteq
         [id : Nat, signed : BOOLEAN, stamp : STRING, kind : STRING, bot : BOOLEAN, mention : BOOLEAN,
          whole : BOOLEAN, says : SUBSET STRING]

VARIABLES
    slack,           \* the request Slack has for the bot
    delivered,       \* deliveries not handled yet, and in all: <<waiting, total>>
    answers,         \* the status of each handled delivery
    runs,            \* the tasks: [workflow, pc, status]
    posts            \* the thread: <<what, task>>

slackVars == <<slack, delivered, answers, runs, posts>>

SlackInit ==
    /\ slack \in SlackRequests /\ delivered = <<0, 0>> /\ answers = << >> /\ runs = << >> /\ posts = << >>

\* External: Slack delivers again what it had no answer to in time.
Deliver ==
    /\ delivered[2] < MaxDeliveries /\ delivered' = <<delivered[1] + 1, delivered[2] + 1>>
    /\ UNCHANGED <<slack, answers, runs, posts>>

\* The signature covers the timestamp and the body; the age of a timestamp that is no number is not checked.
VerifySlackSignature == slack.signed /\ slack.stamp # "old"

\* The commands in the order they are tried.
Commands == <<"fix issue", "review pr", "security audit", "generate docs", "fix ci">>

\* route_message
RouteMessage ==
    LET found == {i \in DOMAIN Commands : Commands[i] \in slack.says}
    IN  IF found = {} THEN "none" ELSE Commands[CHOOSE i \in found : \A j \in found : i <= j]

ForBot == ~slack.bot /\ slack.mention /\ slack.whole

Spoken == VerifySlackSignature /\ slack.kind = "event" /\ ForBot
RunOf(command) == [workflow |-> command, pc |-> "starting", status |-> "none"]

\* The task a delivery spawns.
Launched == IF Spoken /\ RouteMessage # "none" THEN <<RunOf(RouteMessage)>> ELSE << >>

\* slack_events on one delivery.  The answer to an unknown command is posted, or fails to be,
\* before the delivery is answered.
Handle ==
    /\ delivered[1] > 0 /\ delivered' = [delivered EXCEPT ![1] = @ - 1] /\ UNCHANGED slack
    /\ answers' = Append(answers, IF ~VerifySlackSignature THEN "401" ELSE IF slack.kind = "garbage" THEN "400" ELSE "200")
    /\ runs' = runs \o Launched
    /\ IF Spoken /\ RouteMessage = "none"
       THEN posts' \in {posts, Append(posts, <<"help", 0>>)}
       ELSE UNCHANGED posts

RunStep(i, from, to) == runs[i].pc = from /\ runs' = [runs EXCEPT ![i].pc = to]

\* post_message: a failure is logged and no more.
PostStart(i) ==
    /\ RunStep(i, "starting", "running") /\ posts' \in {posts, Append(posts, <<"start", i>>)}
    /\ UNCHANGED <<slack, delivered, answers>>

\* stepyard execute, or no such program.  Of a long output the last bytes are quoted: a slice that
\* begins inside a character panics, and the task is gone without a closing message.
Execute(i) ==
    /\ runs[i].pc = "running"
    /\ \E s \in {"ok", "failed", "spawn"}, quoted \in BOOLEAN :
          /\ s = "spawn" => quoted
          /\ runs' = [runs EXCEPT ![i].pc = IF quoted THEN "ended" ELSE "panicked", ![i].status = s]
    /\ UNCHANGED <<slack, delivered, answers, posts>>

\* Variant: a process that ran is a success, whatever its exit code.
PostedAs_Output(status) == IF status = "spawn" THEN "crash" ELSE "tick"

\* The emoji of the closing message.
PostedAs(status) == CASE status = "ok" -> "tick" [] status = "failed" -> "cross" [] OTHER -> "crash"

Reports(i) == runs[i].pc = "ended"

PostEnd(i) ==
    /\ RunStep(i, "ended", "done") /\ Reports(i)
    /\ posts' \in {posts, Append(posts, <<PostedAs(runs[i].status), i>>)}
    /\ UNCHANGED <<slack, delivered, answers>>

SlackTask(i) == i \in DOMAIN runs /\ (PostStart(i) \/ Execute(i) \/ PostEnd(i))

\* The server waits for the next delivery.
SlackIdle == delivered = <<0, MaxDeliveries>> /\ UNCHANGED slackVars

SlackNext == Deliver \/ Handle \/ (\E i \in 1..MaxDeliveries : SlackTask(i)) \/ SlackIdle

SlackSpec == SlackInit /\ [][SlackNext]_slackVars

-----------------------------------------------------------------------------
(* Properties *)

\* Types of the bot; each delivery is answered once and launches at most one run.
SlackTypeOK ==
    /\ slack \in SlackRequests /\ delivered[1] + Len(answers) = delivered[2]
    /\ Len(runs) <= Len(answers) /\ \A i \in DOMAIN answers : answers[i] \in {"200", "400", "401"}

\* A workflow is started only by a signed mention of the bot that is not its own and whose
\* timestamp does not say that it is old.
OnlyGenuine ==
    runs # << >> => slack.signed /\ slack.stamp # "old" /\ slack.kind = "event" /\ slack.mention /\ ~slack.bot

Posted(i) == {k \in DOMAIN posts : posts[k][2] = i}
\* However deliveries and tasks interleave, a thread tells each run's story in order: its
\* start before its end, each at most once, and the end as the process ended.
ThreadStory ==
    \A i \in DOMAIN runs : \A k \in Posted(i) :
        /\ \A l \in Posted(i) : k < l => posts[k][1] = "start" /\ posts[l][1] # "start"
        /\ posts[k][1] # "start" =>
              runs[i].pc = "done" /\ posts[k][1] = [ok |-> "tick", failed |-> "cross", spawn |-> "crash"][runs[i].status]

Earlier(c, d) == \E i, j \in DOMAIN Commands : i < j /\ Commands[i] = c /\ Commands[j] = d
\* A message with several commands runs the first of them in the bot's order, at every delivery.
FirstCommandRuns ==
    \A i \in DOMAIN runs : runs[i].workflow \in slack.says /\ \A c \in slack.says : ~Earlier(c, runs[i].workflow)

\* Genuine commands run once per delivery, and what the thread tells of each is what became of it.
SlackSafe == SlackTypeOK /\ OnlyGenuine /\ ThreadStory /\ FirstCommandRuns
=============================================================================

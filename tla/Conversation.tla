---------------------------- MODULE Conversation ----------------------------
(***************************************************************************)
(* Chat and agent steps of the v2 engine: what the log remembers of their  *)
(* conversations (compute_progress), how the steps use it (run_chat_step,  *)
(* run_agent_step, build_agent_argv), and the process group of an agent.   *)
(*                                                                         *)
(* A chat step logs its user turn before the provider is called and the    *)
(* assistant turn after; turns are staged under the step's name and become *)
(* history when the step completes.  A crash may fall between any two      *)
(* appends; the next process starts the step again.                        *)
(***************************************************************************)
EXTENDS Integers, Sequences

CONSTANTS
    Plans,         \* the workflows to consider: sequences of steps, see PlanStep
    MaxCCrashes,   \* bound: how often the process dies
    MaxLines       \* bound: result lines an agent prints

Buckets == {"a", "b"}

\* kind "scoped" is a call whose only body step is a chat; link is what an agent step says of
\* the session to continue, target the step it names.
PlanStep ==
    [kind : {"chat", "scoped", "agent"}, bucket : Buckets,
     link : {"shared", "isolated", "resume", "fork"}, target : Nat]

ASSUME ConversationAssumption ==
    Plans \subseteq Seq(PlanStep) /\ MaxCCrashes \in Nat /\ MaxLines \in Nat

VARIABLES
    plan,     \* the workflow
    clog,     \* the session log
    cpc,      \* where the engine is
    sent,     \* the history in the request to the provider
    argv,     \* the session id on the agent's command line, if any
    out,      \* AgentExecOutput so far
    group,    \* processes of agents that are alive, with the engine process that spawned them
    ccrashes

conversationVars == <<plan, clog, cpc, sent, argv, out, group, ccrashes>>

NoOutput == [lines |-> 0, result |-> "none", sid |-> << >>]
Fact(name, step) == [ev |-> name, step |-> step, attempt |-> ccrashes, role |-> "none", sid |-> << >>, result |-> "none"]
InScope(step) == step < 0
EmitFact(e) == clog' = Append(clog, e)

-----------------------------------------------------------------------------
(* compute_progress.  A step is named by its index; the body step of a     *)
(* scoped chat by the negated index of its container.                      *)

BucketOf(w, step) == w[IF InScope(step) THEN -step ELSE step].bucket

NoProgress(w) ==
    [completed |-> 0, failed |-> FALSE, ended |-> FALSE,
     pending |-> [s \in -Len(w)..Len(w) |-> << >>],
     history |-> [b \in Buckets |-> << >>],
     ids |-> [s \in DOMAIN w |-> << >>], first |-> << >>]

\* Variant: a restarted step keeps what the lost attempt had staged.
OnStarted_Keep(p, e) == p

OnStarted(p, e) == [p EXCEPT !.pending[e.step] = << >>]

\* agent_session_ids and the first-wins first_agent_session_id.
Captured(p, e) ==
    IF e.sid = << >> THEN p
    ELSE [p EXCEPT !.ids[e.step] = e.sid, !.first = IF @ = << >> THEN e.sid ELSE @]

\* Only a top-level chat completion promotes staged turns; a scoped one is skipped.
OnCompleted(w, p, e) ==
    IF InScope(e.step) THEN p
    ELSE LET q == Captured([p EXCEPT !.completed = @ + 1], e)
         IN  IF w[e.step].kind # "chat" THEN q
             ELSE [q EXCEPT !.history[BucketOf(w, e.step)] = @ \o p.pending[e.step],
                            !.pending[e.step] = << >>]

OnFailed(p, e) == [p EXCEPT !.failed = TRUE, !.pending[e.step] = << >>]

OnTurn(p, e) ==
    [p EXCEPT !.pending[e.step] = Append(@, [role |-> e.role, step |-> e.step, attempt |-> e.attempt])]

Scan(w, p, e) ==
    CASE e.ev = "step_started" -> OnStarted(p, e)
      [] e.ev = "step_completed" -> OnCompleted(w, p, e)
      [] e.ev = "step_failed" -> OnFailed(p, e)
      [] e.ev = "chat_message_appended" -> OnTurn(p, e)
      [] e.ev = "completion_signaled" -> [p EXCEPT !.ended = TRUE]
      [] OTHER -> p

\* The scan of the log l of workflow w, from the front.
Progress(w, l) ==
    LET upTo[k \in 0..Len(l)] == IF k = 0 THEN NoProgress(w) ELSE Scan(w, upTo[k - 1], l[k])
    IN  upTo[Len(l)]

Current == Progress(plan, clog).completed + 1
\* The name under which the running step logs: a scoped chat logs as its body step.
Acting == IF plan[Current].kind = "scoped" THEN -Current ELSE Current

ConversationInit ==
    /\ plan \in Plans /\ clog = << >> /\ cpc = "idle"
    /\ sent = << >> /\ argv = << >> /\ out = NoOutput /\ group = {} /\ ccrashes = 0

-----------------------------------------------------------------------------
(* Engine::step *)

CDecided ==
    /\ cpc = "idle"
    /\ LET p == Progress(plan, clog) IN p.failed \/ p.ended \/ p.completed >= Len(plan)
    /\ cpc' = "returned" /\ UNCHANGED <<plan, clog, sent, argv, out, group, ccrashes>>

CStart ==
    /\ cpc = "idle"
    /\ LET p == Progress(plan, clog) IN ~p.failed /\ ~p.ended /\ p.completed < Len(plan)
    /\ EmitFact(Fact("step_started", Current))
    /\ cpc' = (CASE plan[Current].kind = "agent" -> "agentStart"
                 [] plan[Current].kind = "chat" -> "chatStart"
                 [] OTHER -> "bodyStart")
    /\ UNCHANGED <<plan, sent, argv, out, group, ccrashes>>

\* emit_scope_started of the body step.
BodyStarted ==
    /\ cpc = "bodyStart" /\ EmitFact(Fact("step_started", Acting))
    /\ cpc' = "chatStart" /\ UNCHANGED <<plan, sent, argv, out, group, ccrashes>>

\* The StepFailed that every early return and every lost race of a step ends in.
FailStep ==
    /\ cpc = "fail" /\ EmitFact(Fact("step_failed", Acting))
    /\ cpc' = "returned" /\ UNCHANGED <<plan, sent, argv, out, group, ccrashes>>

-----------------------------------------------------------------------------
(* run_chat_step and run_scope_body_chat *)

\* Environment, prompt, api key or client missing: no turn is logged.
ChatRefused ==
    /\ cpc = "chatStart" /\ cpc' = "fail"
    /\ UNCHANGED <<plan, clog, sent, argv, out, group, ccrashes>>

\* The history is read before the user turn is logged, the request built from it.
ChatUserTurn ==
    /\ cpc = "chatStart"
    /\ sent' = Progress(plan, clog).history[BucketOf(plan, Acting)]
    /\ EmitFact([Fact("chat_message_appended", Acting) EXCEPT !.role = "user"])
    /\ cpc' = "provider" /\ UNCHANGED <<plan, argv, out, group, ccrashes>>

\* The provider answers, or the call fails, times out, is cancelled or interrupted.
ProviderAnswers ==
    /\ cpc = "provider" /\ cpc' \in {"reply", "fail"}
    /\ UNCHANGED <<plan, clog, sent, argv, out, group, ccrashes>>

ChatAssistantTurn ==
    /\ cpc = "reply"
    /\ EmitFact([Fact("chat_message_appended", Acting) EXCEPT !.role = "assistant"])
    /\ cpc' = "chatDone" /\ UNCHANGED <<plan, sent, argv, out, group, ccrashes>>

ChatCompleted ==
    /\ cpc = "chatDone" /\ EmitFact(Fact("step_completed", Acting))
    /\ cpc' = IF plan[Current].kind = "scoped" THEN "bodyDone" ELSE "idle"
    /\ sent' = << >> /\ UNCHANGED <<plan, argv, out, group, ccrashes>>

ContainerCompleted ==
    /\ cpc = "bodyDone" /\ EmitFact(Fact("step_completed", Current))
    /\ cpc' = "idle" /\ UNCHANGED <<plan, sent, argv, out, group, ccrashes>>

-----------------------------------------------------------------------------
(* run_agent_step of the engine and of agent_exec *)

\* build_agent_argv: the sessions the command line may name; none of them is an error.
SessionArgs ==
    LET p == Progress(plan, clog)
        me == plan[Current]
    IN  CASE me.link \in {"resume", "fork"} -> {p.ids[s] : s \in DOMAIN plan \cap {me.target}} \ {<< >>}
          [] me.link = "isolated" -> {<< >>}
          [] OTHER -> {p.first}

\* Environment, prompt or argv refused, or the binary cannot be spawned.
AgentRefused ==
    /\ cpc = "agentStart" /\ cpc' = "fail"
    /\ UNCHANGED <<plan, clog, sent, argv, out, group, ccrashes>>

AgentSpawn ==
    /\ cpc = "agentStart"
    /\ argv' \in SessionArgs
    /\ out' = NoOutput /\ group' = group \cup {<<"leader", ccrashes>>}
    /\ cpc' = "agent" /\ UNCHANGED <<plan, clog, sent, ccrashes>>

\* The agent forks helpers of its own in its process group.
AgentForks ==
    /\ cpc = "agent" /\ group' = group \cup {<<"helper", ccrashes>>}
    /\ group' # group /\ UNCHANGED <<plan, clog, cpc, sent, argv, out, ccrashes>>

\* parse_stream_json_line: the last result line wins; a session id may come with it.
AgentLine ==
    /\ cpc = "agent" /\ out.lines < MaxLines
    /\ \E r \in {"ok", "error"}, s \in {<< >>, <<<<Current, ccrashes>>>>} :
          out' = [lines |-> out.lines + 1, result |-> r, sid |-> IF s = << >> THEN out.sid ELSE s]
    /\ UNCHANGED <<plan, clog, cpc, sent, argv, group, ccrashes>>

\* ProcessGroupKillOnDrop, then Child::drop, when the future of the step goes.  The group is that of an
\* agent on the host; of one in the session container only the client of docker exec is in it.
DropGuard(g) == {p \in g : p[2] # ccrashes}

ExitVerdict(status) ==
    IF out.result = "error" \/ (status # 0 /\ out.result = "none") THEN "fail" ELSE "agentDone"

AgentExits ==
    /\ cpc = "agent"
    /\ \E status \in {0, 1} : cpc' = ExitVerdict(status)
    /\ group' = DropGuard(group) /\ UNCHANGED <<plan, clog, sent, argv, out, ccrashes>>

\* A line with the workflow's completion signal ends the read loop at once.
AgentSignals ==
    /\ cpc = "agent" /\ cpc' = "signaled" /\ group' = DropGuard(group)
    /\ UNCHANGED <<plan, clog, sent, argv, out, ccrashes>>

\* The cancel, timeout and shutdown arms drop the future of the agent.
AgentDropped ==
    /\ cpc = "agent" /\ cpc' = "fail" /\ group' = DropGuard(group)
    /\ UNCHANGED <<plan, clog, sent, argv, out, ccrashes>>

AgentCompleted ==
    /\ cpc = "agentDone"
    /\ EmitFact([Fact("step_completed", Current) EXCEPT !.sid = out.sid, !.result = out.result])
    /\ cpc' = "idle" /\ argv' = << >> /\ out' = NoOutput
    /\ UNCHANGED <<plan, sent, group, ccrashes>>

CompletionSignaled ==
    /\ cpc = "signaled" /\ EmitFact(Fact("completion_signaled", Current))
    /\ cpc' = "returned" /\ UNCHANGED <<plan, sent, argv, out, group, ccrashes>>

-----------------------------------------------------------------------------
\* The engine process dies; no destructor runs, its agents live on.
CCrash ==
    /\ cpc \notin {"dead", "returned"} /\ ccrashes < MaxCCrashes
    /\ cpc' = "dead" /\ ccrashes' = ccrashes + 1
    /\ sent' = << >> /\ argv' = << >> /\ out' = NoOutput /\ UNCHANGED <<plan, clog, group>>

CLaunch ==
    /\ cpc = "dead" /\ cpc' = "idle" /\ UNCHANGED <<plan, clog, sent, argv, out, group, ccrashes>>

ConversationDone == cpc = "returned" /\ UNCHANGED conversationVars

ConversationNext ==
    \/ CDecided \/ CStart \/ BodyStarted \/ FailStep
    \/ ChatRefused \/ ChatUserTurn \/ ProviderAnswers \/ ChatAssistantTurn \/ ChatCompleted
    \/ ContainerCompleted
    \/ AgentRefused \/ AgentSpawn \/ AgentForks \/ AgentLine \/ AgentExits \/ AgentSignals
    \/ AgentDropped \/ AgentCompleted \/ CompletionSignaled
    \/ CCrash \/ CLaunch \/ ConversationDone

ConversationSpec == ConversationInit /\ [][ConversationNext]_conversationVars

-----------------------------------------------------------------------------
(* Properties *)

\* Types of the conversation state.
ConversationTypeOK ==
    /\ plan \in Plans /\ Len(argv) <= 1 /\ Len(out.sid) <= 1 /\ out.lines \in 0..MaxLines
    /\ group \subseteq {"leader", "helper"} \X (0..MaxCCrashes) /\ ccrashes \in 0..MaxCCrashes

EndsChat(w, e, b) ==
    e.ev = "step_completed" /\ ~InScope(e.step) /\ w[e.step].kind = "chat" /\ w[e.step].bucket = b
Turn(role, e) == [role |-> role, step |-> e.step, attempt |-> e.attempt]
\* One question and one answer for each completed chat of the bucket.
Committed(w, l, b) ==
    LET upTo[k \in 0..Len(l)] ==
            IF k = 0 THEN << >>
            ELSE upTo[k - 1] \o (IF EndsChat(w, l[k], b) THEN <<Turn("user", l[k]), Turn("assistant", l[k])>> ELSE << >>)
    IN  upTo[Len(l)]

\* A provider is sent one question and one answer of each completed chat step of the bucket,
\* both of the attempt that completed: nothing of an attempt that a crash cut off, nothing of
\* a body step (the stage of compute_progress).
HistoryIsCommitted == cpc = "provider" => sent = Committed(plan, clog, BucketOf(plan, Acting))

\* A response the agent marked as an error is never handed to a later step.
ReportedErrorFails ==
    \A i \in DOMAIN clog : clog[i].ev = "step_completed" => clog[i].result # "error"

\* No process of an agent outlives the step that spawned it, except through the death of
\* the engine itself (ProcessGroupKillOnDrop).
NoOrphans == \A p \in group : p[2] = ccrashes => cpc = "agent"

\* Chats continue from committed turns only, agents' errors are failures, and agents leave no process behind.
ConversationSafe == ConversationTypeOK /\ HistoryIsCommitted /\ ReportedErrorFails /\ NoOrphans
=============================================================================

----------------------------- MODULE MCHarness ------------------------------
(***************************************************************************)
(* The step runners of the v2 harness and the sqlite store side by side:   *)
(* part chooses the one that runs, the others keep their initial state.    *)
(***************************************************************************)
EXTENDS Scope, Parallel, Conversation, SqliteStore

CONSTANT Parts

VARIABLE part

harnessVars == <<part, scopeVars, parallelVars, conversationVars, liteVars>>

Container(kind, body, rounds, override) ==
    [kind |-> kind, body |-> body, rounds |-> rounds, override |-> override]
Loops == {"repeat", "map"}
IdleShape == Container("call", << >>, 1, FALSE)
MCShapes ==
    {Container("call", b, 1, FALSE) :
        b \in {<<"cmd", "agent", "gate">>, <<"chat", "cmd">>, <<"gate", "cmd">>, <<"nested">>, <<"other">>, << >>}}
    \cup {Container(k, <<"cmd", "gate">>, 2, FALSE) : k \in Loops}
    \cup {Container(k, <<"gate", "cmd">>, 2, FALSE) : k \in Loops}
    \cup {Container(k, <<"agent", "gate">>, 2, FALSE) : k \in Loops}
    \cup {Container(k, b, n, FALSE) : k \in Loops, b \in {<<"cmd">>, << >>}, n \in {0, 3}}
    \cup {Container("repeat", <<"cmd", "gate">>, 2, TRUE)}

MCForks == {<<"cmd", "cmd", "chat">>, <<"agent", "chat">>, <<"cmd", "gate">>, << >>}

Chat(kind, b) == [kind |-> kind, bucket |-> b, link |-> "shared", target |-> 0]
Agent(link, target) == [kind |-> "agent", bucket |-> "a", link |-> link, target |-> target]
MCPlans ==
    {<< >>,
     <<Chat("chat", "a"), Chat("chat", "a"), Chat("chat", "a")>>,
     <<Chat("chat", "a"), Chat("scoped", "a"), Chat("chat", "b"), Chat("chat", "a")>>,
     <<Agent("shared", 0), Agent("isolated", 0), Agent("fork", 2), Agent("resume", 1)>>}

HarnessInit ==
    /\ part \in Parts
    /\ ScopeInit /\ ParallelInit /\ ConversationInit /\ LiteInit
    /\ part # "scope" => shape = IdleShape
    /\ part # "parallel" => fork = << >>
    /\ part # "conversation" => plan = << >>

HarnessNext ==
    \/ part = "scope" /\ ScopeNext /\ UNCHANGED <<part, parallelVars, conversationVars, liteVars>>
    \/ part = "parallel" /\ ParallelNext /\ UNCHANGED <<part, scopeVars, conversationVars, liteVars>>
    \/ part = "conversation" /\ ConversationNext /\ UNCHANGED <<part, scopeVars, parallelVars, liteVars>>
    \/ part = "sqlite" /\ LiteNext /\ UNCHANGED <<part, scopeVars, parallelVars, conversationVars>>

\* The executor polls a runner until it returns and drops aborted tasks; the operator resumes
\* a dead run.  A child of a parallel step may run for ever.
HarnessFairness ==
    /\ WF_harnessVars(part = "scope" /\ Runner /\ UNCHANGED <<part, parallelVars, conversationVars, liteVars>>)
    /\ WF_harnessVars(part = "scope" /\ SLaunch /\ UNCHANGED <<part, parallelVars, conversationVars, liteVars>>)
    /\ WF_harnessVars(part = "parallel" /\ ParallelRunner /\ UNCHANGED <<part, scopeVars, conversationVars, liteVars>>)
    /\ WF_harnessVars(part = "parallel" /\ AbortedTasks /\ UNCHANGED <<part, scopeVars, conversationVars, liteVars>>)

HarnessSpec == HarnessInit /\ [][HarnessNext]_harnessVars /\ HarnessFairness

\* A container step returns with the row settled, and a cancel or a signal ends a parallel step, however
\* often the process died before.
HarnessEnds == ScopeEnds /\ InterruptEnds
=============================================================================

------------------------------- MODULE MCHost -------------------------------
(***************************************************************************)
(* The parts around the engines side by side: hostpart chooses the one     *)
(* that runs, the others keep their initial state.                         *)
(***************************************************************************)
EXTENDS Load, Command, ChatCall, SlackBot, RemoteLogs, Durations, SequencesExt

CONSTANT HostParts

VARIABLE hostpart

hostVars == <<hostpart, loadVars, cmdVars, chatVars, slackVars, remoteVars, durationVars>>

-----------------------------------------------------------------------------
(* Loading *)

StepOf(name, kind, text) ==
    [name |-> name, kind |-> kind, text |-> text, scope |-> "none", pass |-> "none", fail |-> "none",
     max |-> 1, children |-> << >>, cfg |-> NoConfig]
Own(key, v) == key :> <<"step", v>>
OfKind(k) == StepOf("x", k, "text")
Leaves ==
    {StepOf("x", k, t) : k \in {"cmd", "gate", "agent", "chat", "script", "template"}, t \in Fields}
    \cup {[OfKind("gate") EXCEPT !.pass = a] : a \in {"blank", "continue", "skip", "break", "odd"}}
    \cup {[OfKind("gate") EXCEPT !.fail = a] : a \in {"fail", "skip"}}
    \cup {[OfKind("agent") EXCEPT !.cfg = c] :
            c \in {Own("permissions", "skip"), Own("permissions", "odd"), Own("session", "odd"), Own("model", "number"),
                   Own("resume", "text") @@ Own("fork_session", "text")}}
    \cup {[OfKind("chat") EXCEPT !.cfg = c] :
            c \in {Own("provider", "openai"), Own("provider", "odd"), Own("provider", "odd") @@ Own("base_url", "text"),
                   Own("provider", "anthropic"), Own("provider", "openai") @@ Own("model", "text"),
                   Own("max_tokens", "digits"), Own("timeout", "odd"), Own("truncation_strategy", "odd"), Own("temperature", "number")}}
Boxes ==
    {[StepOf("x", k, t) EXCEPT !.scope = s] : k \in {"call", "map"}, t \in Fields, s \in {"none", "blank", "ghost", "a"}}
    \cup {[OfKind("repeat") EXCEPT !.scope = "a", !.max = n] : n \in 0..1}
    \cup {[OfKind("parallel") EXCEPT !.children = c] :
            c \in {<< >>} \cup {<<l>> : l \in Leaves} \cup {<<OfKind("cmd"), [OfKind("call") EXCEPT !.scope = "a"]>>}}
Ref(s) == [OfKind("call") EXCEPT !.scope = s]
Par == [OfKind("parallel") EXCEPT !.children = <<OfKind("cmd")>>]
NoFile == << >>
Config(c, a) == [chat |-> c, agent |-> a]
At(layer, key, v) == key :> <<layer, v>>
DefOf(steps, scopes, config, env, branch, name) ==
    [steps |-> steps, scopes |-> scopes, config |-> config, env |-> env, branch |-> branch, branchName |-> name]
Simple(steps, scopes) == DefOf(steps, scopes, Config(NoConfig, NoConfig), "ok", "head", FALSE)
Named(s, name) == [s EXCEPT !.name = name]
PlainDefinitions ==
    {Simple(<<s>>, "a" :> <<OfKind("cmd")>>) : s \in Leaves \cup Boxes}
    \cup {Simple(<<Ref("a")>>, "a" :> <<l>>) : l \in Leaves \cup Boxes}
    \cup {Simple(<<OfKind("cmd"), Named(s, n)>>, "a" :> <<OfKind("cmd")>>) : s \in {OfKind("gate"), OfKind("parallel")}, n \in {"x", "y"}}
    \cup {Simple(<<Par>>, "__parallel_0" :> <<OfKind("cmd")>>)}
    \cup {Simple(<<Named(Par, "x"), Named(Par, "y")>>, << >>)}
    \cup {DefOf(<<OfKind("cmd")>>, << >>, Config(NoConfig, NoConfig), e, b, n) : e \in {"ok", "bad"}, b \in {"head", "named"}, n \in BOOLEAN}
GraphDefinitions ==
    {Simple(<<OfKind("cmd")>>, [n \in {"a", "b", "c"} |-> SetToSeq({Named(Ref(r), r) : r \in g[n]})]) :
            g \in [{"a", "b", "c"} -> SUBSET {"a", "b", "c"}]}
LayeredDefinitions ==
    {DefOf(<<[OfKind("chat") EXCEPT !.cfg = c], Named(OfKind("agent"), "y")>>, << >>, Config(w, a), "ok", "head", FALSE) :
            c \in {NoConfig, Own("provider", "openai"), Own("temperature", "number"), Own("provider", "anthropic")},
            w \in {NoConfig, At("workflow", "provider", "openai"), At("workflow", "temperature", "digits")},
            a \in {NoConfig, At("workflow", "permissions", "skip")}}
MCLayerSets ==
    [user : {NoFile, <<Config(At("user", "temperature", "digits") @@ At("user", "model", "text"), NoConfig)>>},
     project : {NoFile, <<Config(At("project", "temperature", "number") @@ At("project", "base_url", "text"), NoConfig)>>}]
NoLayers == [user |-> NoFile, project |-> NoFile]
LoadOf(d, l) == [def |-> d, layers |-> l]
MCLoads ==
    {LoadOf(d, NoLayers) : d \in PlainDefinitions \cup GraphDefinitions}
    \cup {LoadOf(d, l) : d \in LayeredDefinitions, l \in MCLayerSets}
MCParallelNames == <<"__parallel_0", "__parallel_1">>
IdleLoad == LoadOf(Simple(<<OfKind("cmd")>>, << >>), NoLayers)

-----------------------------------------------------------------------------
(* The command *)

Inv(e, r, n, v, m, k, s) == [engine |-> e, runtime |-> r, noSandbox |-> n, env |-> v, mode |-> m, key |-> k, steps |-> s]
MCInvocations ==
    {Inv(e, r, n, v, m, k, <<"pure">>) : e \in {"v1", "v2"}, r \in {"none", "docker", "podman", "local"}, n \in BOOLEAN,
        v \in {"none", "docker", "odd"}, m \in {"disabled", "devbox"}, k \in BOOLEAN}
    \cup {Inv("v2", "none", FALSE, "none", "disabled", FALSE, s) : s \in {<<"box", "cmd">>, <<"cmd", "pure">>}}
IdleInvocation == Inv("v2", "none", FALSE, "none", "disabled", FALSE, <<"cmd", "pure">>)

-----------------------------------------------------------------------------
(* The chat call *)

AskOf(p, url, h, cut) ==
    [provider |-> p, url |-> url, keyEnv |-> TRUE, inEnv |-> TRUE, onHost |-> FALSE, history |-> h, cut |-> cut]
CutBy(by, n, m) == [by |-> by, n |-> n, m |-> m]
IdleAsk == AskOf("anthropic", FALSE, << >>, CutBy("none", 0, 0))
MCAsks ==
    {IdleAsk, AskOf("gemini", FALSE, <<1>>, CutBy("none", 0, 0))}
    \cup {AskOf("compat", u, <<1>>, CutBy("none", 0, 0)) : u \in BOOLEAN}
    \cup {[IdleAsk EXCEPT !.keyEnv = k, !.inEnv = e, !.onHost = h] : k, e, h \in BOOLEAN}
    \cup {AskOf("openai", FALSE, h, CutBy(by, n, m)) :
            h \in {<<2>>, <<1, 3>>, <<3, 1, 2>>}, by \in {"last", "first", "first_last", "window"}, n \in 0..4, m \in {0, 2}}

-----------------------------------------------------------------------------
(* The Slack bot *)

Mention(i, says) ==
    [id |-> i, signed |-> TRUE, stamp |-> "fresh", kind |-> "event", bot |-> FALSE, mention |-> TRUE, whole |-> TRUE, says |-> says]
IdleMention == Mention(1, {})
MCSlackRequests ==
    {Mention(1, says) : says \in SUBSET {"fix issue", "security audit", "fix ci"}}
    \cup {[Mention(2, {"review pr"}) EXCEPT !.signed = s, !.stamp = t, !.bot = b] :
            s, b \in BOOLEAN, t \in {"fresh", "old", "odd"}}
    \cup {[Mention(3, {"review pr"}) EXCEPT !.kind = k, !.mention = m, !.whole = w] :
            k \in {"event", "challenge", "garbage"}, m, w \in BOOLEAN}

-----------------------------------------------------------------------------
(* Remote runs *)

Event(name) == <<"event", name>>
Data(d) == <<"data", d>>
MCStreams ==
    {<< >>,
     <<Event("snapshot"), LF, Data("s"), LF, LF, Event("log"), CR, LF, Data("a"), CR, LF, Data("b"), CR, LF, CR, LF,
       Event("done"), LF, Data("end"), LF, LF, Event("log"), LF, Data("late"), LF, LF>>,
     <<<<"comment", 1>>, LF, LF, Event("ping"), LF, Data("p"), LF, LF, Data("m"), LF, Event("error"), LF, Data("boom"), LF, LF>>,
     <<Event("log"), LF, Data("a"), <<"byte", 1>>, <<"byte", 2>>, LF, LF, Event("log"), LF, Data("bad json"), LF, LF, LF>>,
     <<Event("log"), LF, Event("snapshot"), LF, Data("a"), CR, LF, CR, LF, Data("cut"), LF>>}
IdleDispatch == [config |-> "missing", vars |-> "ok", flagRepo |-> "none", defaultRepo |-> "none"]
MCDispatches ==
    {IdleDispatch} \cup [config : {"missing", "empty", "whole"}, vars : {"ok", "bad"}, flagRepo : {"none", "a"}, defaultRepo : {"none", "b"}]

-----------------------------------------------------------------------------
(* Durations *)

Amounts == {0 - 1, 0, 1, 90, 1000}
Units == {"ms", "s", "m", "none", "d"}
MCTexts ==
    {<< >>} \cup {<<<<n, u>>>> : n \in Amounts, u \in Units} \cup {<<<<n, "h">>>> : n \in 0..3}
    \cup {<<<<n, u>>, <<k, v>>>> : n, k \in {1, 90}, u, v \in Units \cup {"h"}}
    \cup {<<<<1, "h">>, <<1, "m">>, <<61, u>>, <<1500, v>>>> : u, v \in {"s", "ms"}}

-----------------------------------------------------------------------------
(* A part that does not run has one initial state. *)
GivenHost(p, inputs, idle) == IF hostpart = p THEN inputs ELSE {idle}

HostInit ==
    /\ hostpart \in HostParts
    /\ \E l \in GivenHost("load", Loads, IdleLoad) : def = l.def /\ layers = l.layers
    /\ inv \in GivenHost("command", Invocations, IdleInvocation)
    /\ ask \in GivenHost("chat", Asks, IdleAsk)
    /\ slack \in GivenHost("slack", SlackRequests, IdleMention)
    /\ \/ hostpart = "remote" /\ stream \in Streams /\ order = IdleDispatch
       \/ stream = << >> /\ order \in GivenHost("remote", Dispatches, IdleDispatch)
    /\ written \in GivenHost("duration", Texts, << >>)
    /\ LoadInit /\ CommandInit /\ ChatInit /\ SlackInit /\ RemoteInit /\ DurationInit

InLoad(A) == hostpart = "load" /\ A /\ UNCHANGED <<hostpart, cmdVars, chatVars, slackVars, remoteVars, durationVars>>
InCommand(A) == hostpart = "command" /\ A /\ UNCHANGED <<hostpart, loadVars, chatVars, slackVars, remoteVars, durationVars>>
InChat(A) == hostpart = "chat" /\ A /\ UNCHANGED <<hostpart, loadVars, cmdVars, slackVars, remoteVars, durationVars>>
InSlack(A) == hostpart = "slack" /\ A /\ UNCHANGED <<hostpart, loadVars, cmdVars, chatVars, remoteVars, durationVars>>
InRemote(A) == hostpart = "remote" /\ A /\ UNCHANGED <<hostpart, loadVars, cmdVars, chatVars, slackVars, durationVars>>
InDuration(A) == hostpart = "duration" /\ A /\ UNCHANGED <<hostpart, loadVars, cmdVars, chatVars, slackVars, remoteVars>>

HostNext ==
    \/ InLoad(LoadNext) \/ InCommand(CommandNext) \/ InChat(ChatCallNext)
    \/ InSlack(SlackNext) \/ InRemote(RemoteNext) \/ InDuration(DurationNext)

\* The signal handler's timer and task, a step that does not await, and the timeout of a chat step.
\* The Slack bot waits for its children and its posts without a timeout: nothing is assumed of it.
HostFairness ==
    /\ WF_hostVars(InCommand(Handler)) /\ WF_hostVars(InCommand(PureEnds))
    /\ WF_hostVars(InChat(CallTimeout))

HostSpec == HostInit /\ [][HostNext]_hostVars /\ HostFairness

\* A signal ends the process, whatever the engine does, and a timeout ends a chat call.
HostEnds == ExitsAfterSignal /\ CallEnds
=============================================================================

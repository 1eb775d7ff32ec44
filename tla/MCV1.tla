-------------------------------- MODULE MCV1 --------------------------------
(***************************************************************************)
(* The parts of the v1 engine side by side: part chooses the one that      *)
(* runs, the others keep their initial state.                              *)
(***************************************************************************)
EXTENDS V1Engine, V1Fan, V1Body, V1Proxy, V1Template

CONSTANT V1Parts

VARIABLE v1part

v1AllVars == <<v1part, v1Vars, fanVars, bodyVars, proxyVars, templateVars>>

Ref(i) == [step |-> i, field |-> "scanned", via |-> "steps", safe |-> FALSE]
Plain(async, reads) == [kind |-> "plain", async |-> async, reads |-> reads]
Gate(reads) == [kind |-> "gate", async |-> FALSE, reads |-> reads]
MCFlows ==
    {<<Gate({}), Plain(FALSE, {Ref(1)})>>,
     <<Plain(TRUE, {}), Plain(TRUE, {}), Plain(FALSE, {Ref(1), Ref(2)})>>,
     <<Plain(FALSE, {Ref(3)}), Plain(FALSE, {}), Plain(TRUE, {})>>,
     <<Plain(TRUE, {}), Plain(FALSE, {[Ref(1) EXCEPT !.via = "other", !.safe = TRUE]})>>}
IdleFlow == <<Plain(TRUE, {}), Plain(FALSE, {[Ref(1) EXCEPT !.via = "other", !.safe = TRUE]})>>

FanOf(kind, size, permits, b) == [kind |-> kind, size |-> size, permits |-> permits, boxed |-> b]
IdleFan == FanOf("parallel", 0, 0, FALSE)
MCFans ==
    {IdleFan} \cup {FanOf("parallel", 3, 0, b) : b \in BOOLEAN}
    \cup {FanOf("map", 3, p, b) : b \in BOOLEAN, p \in {1, 2}}

Cut(by, n, m) == [by |-> by, n |-> n, m |-> m]
NoCut == Cut("none", 0, 0)
BodyOf(kind, steps, rounds, t, c) ==
    [kind |-> kind, steps |-> steps, rounds |-> rounds, template |-> t, cut |-> c]
IdleBody == BodyOf("map", << >>, 2, FALSE, NoCut)
MCBodies ==
    {IdleBody, BodyOf("repeat", <<"agent", "agent", "gate">>, 2, FALSE, NoCut),
     BodyOf("call", <<"cmd", "other">>, 1, FALSE, NoCut)}
    \cup {BodyOf(k, <<"cmd", "gate", "cmd">>, 2, t, NoCut) : k \in {"repeat", "map", "call"}, t \in BOOLEAN}
    \cup {BodyOf("call", <<"chat", "chat", "chat">>, 1, FALSE, c) :
            c \in {NoCut} \cup {Cut(b, n, 0) : b \in {"last", "first", "window"}, n \in 0..4}
                  \cup {Cut("ends", n, m) : n \in 0..2, m \in 0..2}}

Http(length, size, line, api, token, method) ==
    [head |-> 2, length |-> length, size |-> size, line |-> line, api |-> api, token |-> token, method |-> method]
IdleRequest == Http(0, 2, TRUE, TRUE, TRUE, TRUE)
MCRequests ==
    {IdleRequest, Http(3, 5, TRUE, TRUE, TRUE, TRUE), Http(3, 4, TRUE, TRUE, TRUE, TRUE), Http(9, 11, TRUE, TRUE, TRUE, TRUE),
     Http(3, 6, TRUE, TRUE, FALSE, TRUE), Http(1, 3, TRUE, FALSE, TRUE, TRUE), Http(1, 3, TRUE, TRUE, TRUE, FALSE),
     Http(0, 2, FALSE, TRUE, TRUE, TRUE)}
MCEnvLists == {{}, {"ANTHROPIC_API_KEY", "GH_TOKEN"}, {"OPENAI_API_KEY"}}

MCExprs == {e \in Expr : (e.via = "path") = (e.name = "c")}
MCTemplates == UNION {[1..n -> MCExprs] : n \in 0..2}
PromptFile == {"a-b", "a_b"} \X {"rust", "base", "_default"}
MCPrompts == {{}} \cup {{f, g} : f \in PromptFile, g \in PromptFile}
MCStacks == {<< >>, <<"base">>, <<"rust", "base">>}

\* A part that does not run has one initial state.
Given(p, inputs, idle) == IF v1part = p THEN inputs ELSE {idle}

V1AllInit ==
    /\ v1part \in V1Parts
    /\ flow \in Given("engine", Flows, IdleFlow) /\ boxed \in Given("engine", BOOLEAN, FALSE)
    /\ fan \in Given("fan", Fans, IdleFan) /\ body \in Given("body", Bodies, IdleBody)
    /\ req \in Given("proxy", Requests, IdleRequest) /\ envlist \in Given("proxy", EnvLists, {})
    /\ hosted \in Given("proxy", BOOLEAN, FALSE)
    /\ template \in Given("template", Templates, << >>) /\ stack \in Given("template", Stacks, << >>)
    /\ present \in Given("template", SUBSET Names, {})
    /\ prompts \in Given("template", MCPrompts, {})
    /\ V1Init /\ FanInit /\ BodyInit /\ ProxyInit /\ TemplateInit

InEngine(A) == v1part = "engine" /\ A /\ UNCHANGED <<v1part, fanVars, bodyVars, proxyVars, templateVars>>
InFan(A) == v1part = "fan" /\ A /\ UNCHANGED <<v1part, v1Vars, bodyVars, proxyVars, templateVars>>
InBody(A) == v1part = "body" /\ A /\ UNCHANGED <<v1part, v1Vars, fanVars, proxyVars, templateVars>>
InProxy(A) == v1part = "proxy" /\ A /\ UNCHANGED <<v1part, v1Vars, fanVars, bodyVars, templateVars>>
InTemplate(A) == v1part = "template" /\ A /\ UNCHANGED <<v1part, v1Vars, fanVars, bodyVars, proxyVars>>

V1AllNext ==
    InEngine(V1Next) \/ InFan(FanNext) \/ InBody(BodyNext) \/ InProxy(ProxyNext) \/ InTemplate(TemplateNext)

\* The executor polls run() and the tasks it spawned; a step's work ends, or its timeout ends it.
V1Fairness ==
    /\ WF_v1AllVars(InEngine(V1Runner)) /\ WF_v1AllVars(InEngine(V1Tasks))
    /\ WF_v1AllVars(InFan(FanJoin))
    /\ \A i \in 1..3 : WF_v1AllVars(InFan(i \in TaskIds /\ (FanTask(i) \/ TaskAborted(i))))

V1Spec == V1AllInit /\ [][V1AllNext]_v1AllVars /\ V1Fairness

\* Every execution of the v1 engine ends, whatever its steps wait for, and so does every fan-out of tasks.
V1Ends == V1Returns /\ FanReturns
=============================================================================

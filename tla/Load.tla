-------------------------------- MODULE Load --------------------------------
(***************************************************************************)
(* From a workflow file to a running v2 engine: the configuration layers,  *)
(* the validator, the v1 to v2 adapter, and the checks the harness makes   *)
(* when it reaches a step.                                                 *)
(*                                                                         *)
(* A configuration value is <<origin, value>>, where the origin is the     *)
(* layer that wrote it.  text stands for the field a kind requires: run,   *)
(* prompt, condition or items.                                             *)
(***************************************************************************)
EXTENDS Integers, Sequences, FiniteSets, Functions

CONSTANTS
    Loads,           \* the workflow definitions and configuration files to consider
    ParallelNames    \* the name of the scope made for the parallel step at each position

Containers == {"call", "repeat", "map", "parallel"}
ScopeBodyKinds == {"cmd", "gate", "agent", "chat"}
ParallelKinds == {"cmd", "agent", "chat"}
StepTypes == Containers \cup ScopeBodyKinds \cup {"template", "script"}

\* A configuration all of whose values were written by one layer.
WrittenBy(origin, cfg) == \A k \in DOMAIN cfg : cfg[k] = <<origin, cfg[k][2]>>
TypesWrittenBy(origin, config) == WrittenBy(origin, config.chat) /\ WrittenBy(origin, config.agent)

IsStep(s) ==
    /\ s = [name |-> s.name, kind |-> s.kind, text |-> s.text, scope |-> s.scope, pass |-> s.pass, fail |-> s.fail,
            max |-> s.max, children |-> s.children, cfg |-> s.cfg]
    /\ s.kind \in StepTypes /\ WrittenBy("step", s.cfg)
AreSteps(q) == q \in Seq(Range(q)) /\ \A i \in DOMAIN q : IsStep(q[i])
AreDeepSteps(q) == AreSteps(q) /\ \A i \in DOMAIN q : AreSteps(q[i].children)

\* A workflow file has finitely many scopes, and the name made for a parallel step has its index.
ASSUME LoadAssumption ==
    /\ \A l \in Loads :
          /\ AreDeepSteps(l.def.steps) /\ \A n \in DOMAIN l.def.scopes : AreDeepSteps(l.def.scopes[n])
          /\ IsFiniteSet(DOMAIN l.def.scopes) /\ Len(l.def.steps) <= Len(ParallelNames)
          /\ TypesWrittenBy("workflow", l.def.config)
          /\ l.layers.user = << >> \/ TypesWrittenBy("user", l.layers.user[1])
          /\ l.layers.project = << >> \/ TypesWrittenBy("project", l.layers.project[1])
    /\ ParallelNames \in Seq(Range(ParallelNames))
    /\ \A i, j \in DOMAIN ParallelNames : ParallelNames[i] = ParallelNames[j] => i = j

VARIABLES
    def,       \* WorkflowDef: steps, scopes (by name) and whether its env is well formed
    layers,    \* the user's and the project's file, each << >> or <<type configuration>>
    chain,     \* the type configuration merged so far
    lpc, step, \* where execute is, and the step the adapter or the engine is at
    harness,   \* the adapted steps and scopes
    reached    \* how the engine fared with the steps it has reached

loadVars == <<def, layers, chain, lpc, step, harness, reached>>
loadInputs == <<def, layers>>

Fields == {"none", "blank", "text"}
NoConfig == << >>
Has(cfg, key) == key \in DOMAIN cfg /\ cfg[key][2] # "null"
Val(cfg, key) == IF Has(cfg, key) THEN cfg[key][2] ELSE "none"
ScopeNames == DOMAIN def.scopes

\* The mapping f, and g where f has no value.
Over(f, g) == [k \in DOMAIN f \cup DOMAIN g |-> IF k \in DOMAIN f THEN f[k] ELSE g[k]]

-----------------------------------------------------------------------------
(* Configuration layers *)

Embedded ==
    [agent |-> [model |-> <<"embedded", "text">>, command |-> <<"embedded", "text">>,
                permissions |-> <<"embedded", "skip">>],
     chat |-> [provider |-> <<"embedded", "anthropic">>, model |-> <<"embedded", "text">>,
               api_key_env |-> <<"embedded", "text">>, temperature |-> <<"embedded", "number">>,
               max_tokens |-> <<"embedded", "number">>]]

LoadInit ==
    /\ \E l \in Loads : def = l.def /\ layers = l.layers
    /\ chain = Embedded /\ lpc = "user" /\ step = 1
    /\ harness = [steps |-> << >>, scopes |-> << >>] /\ reached = << >>

\* merge_map: the overlay wins key by key.
MergeMap(base, overlay) == Over(overlay, base)

Merge(base, overlay) ==
    [agent |-> MergeMap(base.agent, overlay.agent), chat |-> MergeMap(base.chat, overlay.chat)]

\* load_defaults: a file that is missing or does not parse is passed over.
LoadLayer(at, file, next) ==
    /\ lpc = at /\ chain' = (IF file = << >> THEN chain ELSE Merge(chain, file[1]))
    /\ lpc' = next /\ UNCHANGED <<loadInputs, step, harness, reached>>

\* apply_defaults: the workflow's own configuration over all of them.
ApplyDefaults ==
    /\ lpc = "workflow" /\ chain' = Merge(chain, def.config) /\ lpc' = "validate"
    /\ UNCHANGED <<loadInputs, step, harness, reached>>

-----------------------------------------------------------------------------
(* The validator *)

Distinct(s) == \A i, j \in DOMAIN s : s[i].name = s[j].name => i = j

ValidPlain(s, names) ==
    CASE s.kind \in {"call", "repeat", "map"} ->
            /\ s.scope \in names
            /\ s.kind = "repeat" => s.max # 0
            /\ s.kind = "map" => s.text # "none"
      [] s.kind = "template" -> TRUE
      [] s.kind = "parallel" -> s.children # << >>
      [] OTHER -> s.text = "text"

ValidStep(s, names) ==
    ValidPlain(s, names) /\ \A i \in DOMAIN s.children : ValidPlain(s.children[i], names)

\* The scopes a scope's own steps name; what is inside a parallel step is not looked at.
Refs(name) ==
    IF name \notin ScopeNames THEN {}
    ELSE {s.scope : s \in {t \in Range(def.scopes[name]) : t.kind \in {"call", "repeat", "map"}}} \ {"none"}

NamedScopes == ScopeNames \cup UNION {Refs(n) : n \in ScopeNames}

\* has_cycle: depth first along the scopes that are on the way.
HasCycle[q \in NamedScopes \X SUBSET NamedScopes] ==
    \/ q[1] \in q[2]
    \/ \E t \in Refs(q[1]) : HasCycle[<<t, q[2] \cup {q[1]}>>]

Circular(n) == HasCycle[<<n, {}>>]

Valid ==
    /\ \A i \in DOMAIN def.steps : ValidStep(def.steps[i], ScopeNames)
    /\ \A n \in ScopeNames :
          /\ Distinct(def.scopes[n])
          /\ \A i \in DOMAIN def.scopes[n] : ValidStep(def.scopes[n][i], ScopeNames)
          /\ ~Circular(n)
    /\ Distinct(def.steps)

Validate ==
    /\ lpc = "validate" /\ lpc' = (IF Valid THEN "inherit" ELSE "invalid")
    /\ UNCHANGED <<loadInputs, chain, step, harness, reached>>

-----------------------------------------------------------------------------
(* Inheritance from the type configuration *)

InheritedChatKeys ==
    {"provider", "model", "api_key_env", "base_url", "temperature", "max_tokens", "timeout"}
ProviderBoundKeys == {"model", "api_key_env", "base_url"}

InheritedAgentKeys == {"model", "command"}

\* A step that selects another provider than the layer does not take what belongs to it.
Skipped(s) ==
    IF /\ "provider" \in DOMAIN s.cfg
       /\ s.cfg["provider"][2] #
            IF "provider" \in DOMAIN chain.chat THEN chain.chat["provider"][2] ELSE "anthropic"
    THEN ProviderBoundKeys ELSE {}

\* coerce_numeric_string: a number written as text in a defaults file becomes one.
Coerced(key, v) == IF key \in {"temperature", "max_tokens"} /\ v[2] = "digits" THEN <<v[1], "number">> ELSE v

Take(layer, keys) == [k \in keys \cap DOMAIN layer |-> Coerced(k, layer[k])]

Inherited(s) ==
    CASE s.kind = "chat" -> [s EXCEPT !.cfg = Over(@, Take(chain.chat, InheritedChatKeys \ Skipped(s)))]
      [] s.kind = "agent" -> [s EXCEPT !.cfg = Over(@, Take(chain.agent, InheritedAgentKeys))]
      [] OTHER -> s

InheritedDeep(s) ==
    [Inherited(s) EXCEPT !.children = [i \in DOMAIN s.children |-> Inherited(s.children[i])]]
InheritAll(steps) == [i \in DOMAIN steps |-> InheritedDeep(steps[i])]

\* with_inherited_type_config; the adapter reads the copy from here on.
Inherit ==
    /\ lpc = "inherit" /\ lpc' = "adapt" /\ UNCHANGED <<loadInputs, chain, step, reached>>
    /\ harness' = [steps |-> << >>, scopes |-> [n \in ScopeNames |-> InheritAll(def.scopes[n])]]

-----------------------------------------------------------------------------
(* The adapter *)

Allowed(position) == {"continue", "fail"} \cup IF position = "scoped" THEN {"skip", "break"} ELSE {}

ActionOk(a, position) == a \in {"none", "blank"} \cup Allowed(position)
IsText(v) == v \notin {"number", "list"}
AgentKeys ==
    {"model", "system_prompt_append", "permissions", "resume", "fork_session", "session", "command"}

AgentOk(cfg) ==
    /\ \A k \in AgentKeys : IsText(Val(cfg, k))
    /\ Val(cfg, "permissions") \in {"none", "default", "skip"}
    /\ Val(cfg, "session") \in {"none", "shared", "isolated"}
    /\ ~(Has(cfg, "resume") /\ Has(cfg, "fork_session"))

\* parse_chat_provider: a name it does not know is an OpenAI-compatible endpoint if it has a URL.
Provider(cfg) ==
    CASE Val(cfg, "provider") = "none" -> "anthropic"
      [] Val(cfg, "provider") \in {"anthropic", "openai"} -> Val(cfg, "provider")
      [] OTHER -> "compat"

ChatOk(cfg) ==
    /\ \A k \in {"provider", "model", "api_key_env", "base_url", "timeout", "session", "truncation_strategy"} :
          IsText(Val(cfg, k))
    /\ Provider(cfg) = "compat" => Has(cfg, "base_url")
    /\ \A k \in {"temperature", "max_tokens"} : Val(cfg, k) \in {"none", "number"}
    /\ Val(cfg, "timeout") # "odd"
    /\ Val(cfg, "truncation_strategy") \in {"none", "last"}

\* adapt_step, by kind.
Adaptable(s, names, position) ==
    CASE s.kind = "cmd" -> s.text # "none"
      [] s.kind = "gate" -> s.text = "text" /\ ActionOk(s.pass, position) /\ ActionOk(s.fail, position)
      [] s.kind \in {"call", "repeat"} -> s.scope \in names
      [] s.kind = "map" -> s.scope \in names /\ s.text = "text"
      [] s.kind = "template" -> TRUE
      [] s.kind = "script" -> s.text = "text"
      [] s.kind = "agent" -> s.text = "text" /\ AgentOk(s.cfg)
      [] s.kind = "chat" -> s.text = "text" /\ ChatOk(s.cfg)
      [] OTHER -> FALSE

\* Every fallback of a chat step becomes a value of its own.
ChatFallback(provider) ==
    [provider |-> <<"adapter", provider>>, model |-> <<"adapter", provider>>,
     api_key_env |-> <<"adapter", "default">>, temperature |-> <<"adapter", "default">>,
     max_tokens |-> <<"adapter", "default">>, timeout |-> <<"adapter", "default">>]
NonNull(cfg) == [k \in {j \in DOMAIN cfg : Has(cfg, j)} |-> cfg[k]]

Crystallized(s) ==
    IF s.kind = "chat" THEN [s EXCEPT !.cfg = Over(NonNull(@), ChatFallback(Provider(@)))] ELSE s

ContainerKind(kind) == kind \in Containers

\* Variant: any kind but a container is let into a parallel step.
ParallelSub_Any(s) == ~ContainerKind(s.kind)

ParallelSub(s) == ~ContainerKind(s.kind) /\ s.kind \in ParallelKinds

ScopeStepOk(s) ==
    /\ ~ContainerKind(s.kind) /\ s.kind \in ScopeBodyKinds
    /\ Adaptable(s, ScopeNames, "scoped")

Synthesised(i) == ParallelNames[i]

\* adapt_parallel: the inline steps become a hidden scope.
ParallelOk(s, i) ==
    /\ s.children # << >> /\ Synthesised(i) \notin ScopeNames
    /\ \A c \in DOMAIN s.children : ParallelSub(s.children[c]) /\ Adaptable(s.children[c], {}, "scoped")

AdaptedStep(s, i) ==
    IF s.kind = "parallel" THEN [s EXCEPT !.scope = Synthesised(i), !.children = << >>] ELSE Crystallized(s)

\* The hidden scope, if the step is a parallel one.
MadeScope(s, i) ==
    [n \in IF s.kind = "parallel" THEN {Synthesised(i)} ELSE {} |->
        [c \in DOMAIN s.children |-> Crystallized(s.children[c])]]

TopOk(s, i) == IF s.kind = "parallel" THEN ParallelOk(s, i) ELSE Adaptable(s, ScopeNames, "top")

AdaptTop ==
    /\ lpc = "adapt" /\ step <= Len(def.steps)
    /\ LET s == InheritedDeep(def.steps[step])
       IN  IF TopOk(s, step)
           THEN /\ harness' = [steps |-> Append(harness.steps, AdaptedStep(s, step)),
                               scopes |-> Over(harness.scopes, MadeScope(s, step))]
                /\ step' = step + 1 /\ UNCHANGED lpc
           ELSE lpc' = "refused" /\ UNCHANGED <<harness, step>>
    /\ UNCHANGED <<loadInputs, chain, reached>>

\* adapt_scope for each scope of the definition.
AdaptScopes ==
    /\ lpc = "adapt" /\ step > Len(def.steps)
    /\ IF \A n \in ScopeNames : \A i \in DOMAIN harness.scopes[n] : ScopeStepOk(harness.scopes[n][i])
       THEN /\ lpc' = "env"
            /\ harness' = [steps |-> harness.steps, scopes |-> [n \in DOMAIN harness.scopes |->
                 [i \in DOMAIN harness.scopes[n] |-> Crystallized(harness.scopes[n][i])]]]
       ELSE lpc' = "refused" /\ UNCHANGED harness
    /\ UNCHANGED <<loadInputs, chain, step, reached>>

\* Workflow::validate: the branch strategy and every env map.
ValidateWorkflow ==
    /\ lpc = "env" /\ step' = 1
    /\ lpc' = (IF def.env = "ok" /\ (def.branch = "named" => def.branchName) THEN "running" ELSE "refused")
    /\ UNCHANGED <<loadInputs, chain, harness, reached>>

-----------------------------------------------------------------------------
(* What the engine checks when it reaches a step *)

ParseAction(a, position) ==
    IF a \in {"none", "blank", "continue"} THEN "continue"
    ELSE IF a \in {"fail"} \cup (IF position = "scoped" THEN {"skip", "break"} ELSE {}) THEN a ELSE "error"

GateRefused(s, position) ==
    s.text # "text" \/ ParseAction(s.pass, position) = "error" \/ ParseAction(s.fail, position) = "error"

\* outcome_for
OutcomeFor(s, passed, position) == ParseAction(IF passed THEN s.pass ELSE s.fail, position)

ChatRefused(s) ==
    s.text = "none" \/ ~Has(s.cfg, "provider") \/ (Provider(s.cfg) = "compat" /\ ~Has(s.cfg, "base_url"))

\* A body step: the kinds run_scope_body_step and run_parallel execute.
BodyRefused(s, kinds) ==
    \/ s.kind \notin kinds
    \/ s.kind = "gate" /\ GateRefused(s, "scoped")
    \/ s.kind = "agent" /\ s.text = "none"
    \/ s.kind = "chat" /\ ChatRefused(s)

ContainerRefused(s) ==
    \/ s.scope \notin DOMAIN harness.scopes
    \/ s.kind = "map" /\ s.text = "none"
    \/ \E i \in DOMAIN harness.scopes[s.scope] :
          BodyRefused(harness.scopes[s.scope][i], IF s.kind = "parallel" THEN ParallelKinds ELSE ScopeBodyKinds)

StepRefused(s) ==
    CASE s.kind = "gate" -> GateRefused(s, "top")
      [] s.kind \in Containers -> ContainerRefused(s)
      [] s.kind = "agent" -> s.text = "none"
      [] s.kind = "chat" -> ChatRefused(s)
      [] OTHER -> FALSE

\* How a step can end.  A gate's condition may be true, false or neither; a template's file
\* may be missing, a script fail, a command exit with an error.
Outcomes(s) ==
    IF StepRefused(s) THEN {"refused"}
    ELSE {"failed"} \cup IF s.kind = "gate" THEN {OutcomeFor(s, p, "top") : p \in BOOLEAN} ELSE {"continue"}

\* Engine::step on the next step.
Dispatch ==
    /\ lpc = "running" /\ step <= Len(harness.steps)
    /\ \E out \in Outcomes(harness.steps[step]) :
          /\ reached' = Append(reached, out)
          /\ IF out = "continue" THEN step' = step + 1 /\ UNCHANGED lpc ELSE lpc' = "ended" /\ UNCHANGED step
    /\ UNCHANGED <<loadInputs, chain, harness>>

LoadEnded ==
    /\ lpc \in {"invalid", "refused", "ended"} \/ (lpc = "running" /\ step > Len(harness.steps))
    /\ UNCHANGED loadVars

LoadNext ==
    \/ LoadLayer("user", layers.user, "project") \/ LoadLayer("project", layers.project, "workflow")
    \/ ApplyDefaults \/ Validate \/ Inherit \/ AdaptTop \/ AdaptScopes \/ ValidateWorkflow
    \/ Dispatch \/ LoadEnded

LoadSpec == LoadInit /\ [][LoadNext]_loadVars

-----------------------------------------------------------------------------
(* Properties *)

\* Types of the load pipeline; the adapter drops and adds no step, and every parallel
\* step has a scope of its own.
LoadTypeOK ==
    /\ step \in 1..Len(def.steps) + 1
    /\ lpc \in {"user", "project", "workflow", "validate", "inherit", "adapt", "env", "running",
                "invalid", "refused", "ended"}
    /\ Len(harness.steps) <= Len(def.steps) /\ \A i \in DOMAIN harness.steps : harness.steps[i].kind \in StepTypes
    /\ lpc = "running" =>
          /\ Len(harness.steps) = Len(def.steps)
          /\ Cardinality(DOMAIN harness.scopes) =
                Cardinality(ScopeNames) + Cardinality({i \in DOMAIN def.steps : def.steps[i].kind = "parallel"})

\* What the adapter accepts, the engine runs: no step of an accepted workflow, at the top or
\* in a body, meets a check of its shape when the run is already under way.
AcceptedRuns == \A i \in DOMAIN reached : reached[i] \in {"continue", "fail", "failed"}

\* A set of scopes that has every scope its members name.
Closed(S) == \A m \in S : Refs(m) \cap ScopeNames \subseteq S
ReachesItself(n) ==
    \A S \in SUBSET ScopeNames : Closed(S) /\ Refs(n) \cap ScopeNames \subseteq S => n \in S

\* A workflow is called circular exactly when some scope reaches itself: scopes that two
\* others share are no cycle.
CycleExact ==
    lpc = "validate" => ((\E n \in ScopeNames : Circular(n)) <=> (\E n \in ScopeNames : ReachesItself(n)))

AllAdapted ==
    Range(harness.steps) \cup UNION {Range(harness.scopes[n]) : n \in DOMAIN harness.scopes}
Past == lpc \in {"env", "running", "ended"}
SetsChat(file, key) == file # << >> /\ key \in DOMAIN file[1].chat
HighestLayer(key) ==
    IF key \in DOMAIN def.config.chat THEN "workflow"
    ELSE IF SetsChat(layers.project, key) THEN "project"
    ELSE IF SetsChat(layers.user, key) THEN "user" ELSE "embedded"

\* A value a chat step has and did not set itself is that of the highest layer that sets it.
HighestLayerWins ==
    Past => \A s \in AllAdapted : s.kind = "chat" =>
        \A k \in {"temperature", "max_tokens"} :
            s.cfg[k][1] # "step" => s.cfg[k][1] \in {HighestLayer(k), "adapter"}

\* A step that selects another provider than the layers takes no model and no URL from them.
ProviderBound ==
    Past => \A s \in AllAdapted :
        s.kind = "chat" /\ s.cfg["provider"][1] = "step" /\ s.cfg["provider"][2] # Val(chain.chat, "provider") =>
            \A k \in ProviderBoundKeys \cap DOMAIN s.cfg : s.cfg[k][1] \in {"step", "adapter"}

\* Skipping the agent's permission prompts is a decision of the step: no layer reaches it.
PermissionsExplicit ==
    Past => \A s \in AllAdapted :
        s.kind = "agent" /\ Val(s.cfg, "permissions") = "skip" => s.cfg["permissions"][1] = "step"

\* A workflow that is accepted runs, a circular one is not, and every setting of a step comes from the layer
\* that may set it.
LoadSafe ==
    LoadTypeOK /\ AcceptedRuns /\ CycleExact /\ HighestLayerWins /\ ProviderBound /\ PermissionsExplicit
=============================================================================

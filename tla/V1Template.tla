----------------------------- MODULE V1Template -----------------------------
(***************************************************************************)
(* Template rendering of v1: preprocess_template rewrites the expressions  *)
(* of a template, collecting the values from() and prompts. need, and Tera *)
(* renders the result against the context.                                 *)
(*                                                                         *)
(* A template is a sequence of expressions.  The value of a step is its    *)
(* name, that of a prompt its name and the stack it was found for; "" is   *)
(* what a missing step renders to where that is allowed.                   *)
(***************************************************************************)
EXTENDS Integers, Sequences

CONSTANTS
    Templates,   \* the templates to consider: sequences of Expr
    Stacks       \* the stack chains to consider, the most specific name first

Names == {"a-b", "a_b", "c"}
\* via "from" for from("name"), "path" for a bare name, "prompt" for prompts.name; with ? or ! behind it
\* prompts.name is a bare name that no step has.
Expr == [access : {"normal", "safe", "strict"}, via : {"from", "path"}, name : Names]
        \cup [access : {"normal"}, via : {"prompt"}, name : Names]

ASSUME TemplateAssumption == Templates \subseteq Seq(Expr) /\ Stacks \subseteq Seq(STRING)

VARIABLES
    template, present,   \* the template, and the steps whose output the context has
    stack, prompts,      \* the detected stack (<< >> for none), and the prompt files: <<name, stack>>
    next,                \* the expression preprocess_template is at
    injected, inlined,   \* the variables it collected, __from_x__ and __prompt_x__, by sanitised name
    rendering            \* << >>, then the rendered values, or <<"error">>

templateVars == <<template, present, stack, prompts, next, injected, inlined, rendering>>

\* sanitize_step_name and sanitize_prompt_name: what is no letter, digit or underscore becomes one.
Var(n) == IF n = "c" THEN "c" ELSE "a_b"
Vars == {"c", "a_b"}

TemplateInit ==
    /\ template \in Templates /\ present \in SUBSET Names /\ stack \in Stacks
    /\ prompts \in SUBSET (Names \X {"rust", "base", "_default"})
    /\ next = 1 /\ injected = [v \in Vars |-> "none"] /\ inlined = [v \in Vars |-> << >>] /\ rendering = << >>

This == template[next]
Unread == rendering = << >> /\ next <= Len(template)
Inputs == <<template, present, stack, prompts>>
Fails == rendering' = <<"error">> /\ UNCHANGED <<Inputs, next, injected, inlined>>
Advance(inj, inl) == next' = next + 1 /\ injected' = inj /\ inlined' = inl /\ UNCHANGED <<Inputs, rendering>>

\* Variant: the sentinel of a safe access replaces what another expression injected.
Sentinel_Replaces(v) == [injected EXCEPT ![v] = ""]

\* or_insert: an empty value, unless there is one.
Sentinel(v) == [injected EXCEPT ![v] = IF @ = "none" THEN "" ELSE @]

\* transform_from_calls
FromCall ==
    /\ Unread /\ This.via = "from" /\ This.access # "strict"
    /\ IF This.name \in present THEN Advance([injected EXCEPT ![Var(This.name)] = This.name], inlined)
       ELSE IF This.access = "safe" THEN Advance(Sentinel(Var(This.name)), inlined)
       ELSE Fails

\* The strict accessor looks up the rewritten name in the context, which has no injected ones.
StrictFrom == Unread /\ This.via = "from" /\ This.access = "strict" /\ Fails

\* A bare name: only the strict accessor looks at it here, Tera does later.
PathExpr ==
    /\ Unread /\ This.via = "path"
    /\ IF This.access = "strict" /\ This.name \notin present THEN Fails ELSE Advance(injected, inlined)

\* resolve_prompt_content: the stack, its parents, then the default.
Candidates == Append(stack, "_default")

\* The first of them that has a file of this prompt.
Found(n) == {k \in DOMAIN Candidates : <<n, Candidates[k]>> \in prompts}
FirstFound(n) == Candidates[CHOOSE k \in Found(n) : \A j \in Found(n) : k <= j]

\* The file is read and rendered with the context the first time its variable is needed; no stack or no file
\* is an error.  A variable that is already there is used as it is, also when another name put it there.
PromptExpr ==
    /\ Unread /\ This.via = "prompt"
    /\ IF inlined[Var(This.name)] # << >> THEN Advance(injected, inlined)
       ELSE IF stack = << >> \/ Found(This.name) = {} THEN Fails
       ELSE Advance(injected, [inlined EXCEPT ![Var(This.name)] = <<This.name, FirstFound(This.name)>>])

\* Tera fails on a bare name it does not know, unless the default filter is on it.
TeraFails(e) == e.via = "path" /\ e.access = "normal" /\ e.name \notin present

ValueOf(e) ==
    CASE e.via = "from" -> injected[Var(e.name)]
      [] e.via = "prompt" -> inlined[Var(e.name)]
      [] OTHER -> IF e.name \in present THEN e.name ELSE ""

\* render_template: Tera sees the context and everything that was injected.
Render ==
    /\ rendering = << >> /\ next > Len(template)
    /\ rendering' = IF \E i \in DOMAIN template : TeraFails(template[i]) THEN <<"error">>
                    ELSE <<"ok">> \o [i \in DOMAIN template |-> ValueOf(template[i])]
    /\ UNCHANGED <<Inputs, next, injected, inlined>>

Rendered == rendering # << >> /\ UNCHANGED templateVars

TemplateNext == FromCall \/ StrictFrom \/ PathExpr \/ PromptExpr \/ Render \/ Rendered
TemplateSpec == TemplateInit /\ [][TemplateNext]_templateVars

-----------------------------------------------------------------------------
(* Properties *)

Ok == rendering # << >> /\ Head(rendering) = "ok"
\* Another step that is there takes the variable of this one.
Shadowed(e) == e.via = "from" /\ \E i \in DOMAIN template :
    /\ template[i].via = "from" /\ template[i].name \in present
    /\ template[i].name # e.name /\ Var(template[i].name) = Var(e.name)

\* Every expression renders to the step it names, however often and with whatever accessor
\* other expressions of the template name it; names that sanitise to the variable of another
\* step that is there excepted.
EachItsOwn ==
    Ok => \A i \in DOMAIN template : template[i].via # "prompt" /\ ~Shadowed(template[i]) =>
        rendering[i + 1] = IF template[i].name \in present THEN template[i].name ELSE ""

\* A template that renders has read no missing step except through the safe accessor.
MissingIsSafe ==
    Ok => \A i \in DOMAIN template :
        template[i].via # "prompt" /\ template[i].name \notin present => template[i].access = "safe"

\* The first expression of the template that needs this prompt's variable.
Opens(f, e) ==
    /\ template[f].via = "prompt" /\ Var(template[f].name) = Var(e.name)
    /\ \A g \in 1..f - 1 : ~(template[g].via = "prompt" /\ Var(template[g].name) = Var(e.name))

\* Every prompt expression renders the prompt of the first one that shares its variable, which is its own
\* unless names differ only in punctuation, and that prompt comes from the most specific stack that has it.
MostSpecificPrompt ==
    Ok => \A i \in DOMAIN template : template[i].via = "prompt" =>
        \E f \in 1..i, s \in {Candidates[k] : k \in DOMAIN Candidates} :
            /\ Opens(f, template[i]) /\ rendering[i + 1] = <<template[f].name, s>>
            /\ \A k \in DOMAIN stack : <<template[f].name, stack[k]>> \in prompts => \E j \in 1..k : s = stack[j]

\* What a template renders is what its expressions name, whichever way and how often they name it, up to
\* names that share a variable.
TemplateSafe == EachItsOwn /\ MissingIsSafe /\ MostSpecificPrompt
=============================================================================

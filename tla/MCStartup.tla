----------------------------- MODULE MCStartup ------------------------------
(***************************************************************************)
(* Several processes that start up and run, and the files of one session   *)
(* container: theme chooses which of the two a behaviour is about.         *)
(***************************************************************************)
EXTENDS Startup, SessionContainer, TLC

CONSTANT Themes

VARIABLE theme

startupVars == <<theme, vars, containerVars>>

Symmetry == Permutations(Procs)

\* Worktrees multiply the states: two processes with a manager, three without.
MCMaxStarted == [m \in BOOLEAN |-> IF m THEN 2 ELSE 3]
TwoStarted == [m \in BOOLEAN |-> 2]

\* src, out and log: the contents of HEAD, then those of the directory.
ProjectOf(git, head, files, unreadable) ==
    LET At(s) == [p \in Paths |-> s[CASE p = "src" -> 1 [] p = "out" -> 2 [] p = "log" -> 3]]
    IN  [git |-> git, head |-> At(head), files |-> At(files), unreadable |-> unreadable]
MCProjects ==
    {ProjectOf(TRUE, <<1, 0, 0>>, <<1, 1, 1>>, {}),
     ProjectOf(TRUE, <<1, 1, 0>>, <<1, 1, 0>>, {}),
     ProjectOf(TRUE, <<1, 0, 1>>, <<2, 0, 1>>, {}),
     ProjectOf(TRUE, <<1, 0, 0>>, <<1, 0, 0>>, {"src"}),
     ProjectOf(FALSE, <<0, 0, 0>>, <<1, 1, 1>>, {})}

StartupInit ==
    /\ theme \in Themes /\ Init /\ ContainerInit
    /\ theme # "processes" => manager = FALSE
    /\ theme # "container" => project = CHOOSE p \in Projects : TRUE

StartupNext ==
    \/ theme = "processes" /\ Next /\ UNCHANGED <<theme, containerVars>>
    \/ theme = "container" /\ ContainerNext /\ UNCHANGED <<theme, vars>>

StartupSpec == StartupInit /\ [][StartupNext]_startupVars
=============================================================================

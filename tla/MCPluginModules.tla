---------------------------- MODULE MCPluginModules ----------------------------
(***************************************************************************)
(* Three parts that share nothing but this module: commands beside         *)
(* commands, imports beside reloads of one plugin, and a question to       *)
(* several plugins at once.                                                *)
(***************************************************************************)
EXTENDS PluginModules, PluginFanOut, TLC

CONSTANTS c1, c2, i1, i2, a, b

VARIABLE part   \* the one that runs

\* a in the portable source and the builtin b broken; a in the user's source
\* and b sound.
MCInstalled == {<<(a :> 1 @@ b :> Broken), (a :> 0 @@ b :> 0)>>,
                <<(a :> 0 @@ b :> 1), (a :> 1 @@ b :> 0)>>}

MCZips == {[id |-> a, version |-> 2, nested |-> TRUE, good |-> TRUE],
           [id |-> b, version |-> 2, nested |-> TRUE, good |-> TRUE]}

\* A zip as the repository's tests build it: a good plugin at its root.
PlainZips == {[id |-> a, version |-> 2, nested |-> FALSE, good |-> TRUE]}

\* A part that does not run keeps one of its initial states.
MCInit ==
  /\ ModulesInit /\ FanInit
  /\ \/ part \in {"commands", "imports"} /\ gone = {} /\ index = [x \in Files |-> 0]
     \/ part = "questions" /\ dest[a] = 0

CommandsNext ==
  /\ part = "commands"
  /\ (\E c \in Clients : Command(c)) \/ Sessions
  /\ UNCHANGED fanVars

ImportsNext ==
  /\ part = "imports"
  /\ Imports(a) \/ Sessions \/ ReloadPlugin(c1, a) \/ Reloaded(c1)
  /\ UNCHANGED fanVars

QuestionsNext == part = "questions" /\ FanNext /\ UNCHANGED <<directoryVars, moduleVars>>

MCNext == (CommandsNext \/ ImportsNext \/ QuestionsNext) /\ UNCHANGED part
MCSpec == MCInit /\ [][MCNext]_<<directoryVars, moduleVars, fanVars, part>>
================================================================================

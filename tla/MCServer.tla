-------------------------------- MODULE MCServer --------------------------------
(***************************************************************************)
(* The two parts of ab-server that run beside each other: the import jobs  *)
(* and the event hub.  They share no variable, so a behaviour is one part  *)
(* running while the other has not started yet.                            *)
(***************************************************************************)
EXTENDS ImportJobs, EventHub

CONSTANTS j1, j2, c1

VARIABLE part   \* the part that runs

serverVars == <<part, vars, hubAllVars>>

ServerInit == part \in {"jobs", "hub"} /\ Init /\ HubInit

JobsStep == part = "jobs" /\ Next /\ UNCHANGED <<part, hubAllVars>>
HubStep  == part = "hub" /\ HubNext /\ UNCHANGED <<part, vars>>

ServerNext == JobsStep \/ HubStep

ServerSpec ==
  /\ ServerInit /\ [][ServerNext]_serverVars
  /\ Fairness
=================================================================================

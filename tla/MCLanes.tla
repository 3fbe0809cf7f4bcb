------------------------------- MODULE MCLanes ------------------------------
(***************************************************************************)
(* Lanes: the daemon that runs their executions and the jobs the MCP       *)
(* processes keep of them, each in a behaviour of its own: `part` names    *)
(* the one whose steps a behaviour takes.                                  *)
(***************************************************************************)
EXTENDS LaneExecutionBroker, LaneJobs, TLC

Symmetry == Permutations(ExecutionIds) \cup Permutations(Signatures)
            \cup Permutations(Procs) \cup Permutations(Jobs)

VARIABLE part

laneVars == <<part, vars, jobsVars>>

LanesInit == part \in {"broker", "jobs"} /\ Init /\ JobsInit
Broker_ == part = "broker" /\ Next /\ UNCHANGED <<part, jobsVars>>
Jobs_ == part = "jobs" /\ JobsNext /\ UNCHANGED <<part, vars>>
LanesNext == Broker_ \/ Jobs_
LanesSpec == LanesInit /\ [][LanesNext]_laneVars
=============================================================================

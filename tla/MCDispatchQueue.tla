-------------------------- MODULE MCDispatchQueue --------------------------
(***************************************************************************)
(* Instances of DispatchQueue for TLC.  The tasks are of one script, so    *)
(* they compete for the head of its queue and for the agent's one slot per *)
(* script; every agent can run them.  Tasks in Retried have one retry, the *)
(* others none.                                                            *)
(***************************************************************************)
EXTENDS DispatchQueue, TLC

CONSTANTS
    script,
    Retried     \* tasks with retry_max = 1; retry_max = 0 for the others

MCScriptOf == [t \in Task |-> script]
MCCanRun   == Agent \X Task
MCRetryMax == [t \in Task |-> IF t \in Retried THEN 1 ELSE 0]

\* The agents are interchangeable: both run every task and start alike.
AgentSymmetry == Permutations(Agent)
=============================================================================

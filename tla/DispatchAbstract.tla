-------------------------- MODULE DispatchAbstract --------------------------
(***************************************************************************)
(* What the dispatch queue promises of a task, without leases, agents,     *)
(* handlers or time: it is tried, one try at a time, until a try succeeds  *)
(* or 1 + RetryMax tries have failed (dispatch-retry-limit design, section *)
(* 3), and its outcome never changes.  DispatchQueue implements this.      *)
(***************************************************************************)
EXTENDS Naturals

CONSTANTS Task, RetryMax

VARIABLES
    status,   \* "unknown", "open", "done" or "given_up"
    tries,    \* number of tries begun
    live      \* the last try begun may still decide the outcome

vars == <<status, tries, live>>

Init ==
    /\ status = [t \in Task |-> "unknown"]
    /\ tries  = [t \in Task |-> 0]
    /\ live   = [t \in Task |-> FALSE]

Submit(t) ==
    /\ status[t] = "unknown"
    /\ status' = [status EXCEPT ![t] = "open"]
    /\ UNCHANGED <<tries, live>>

\* A pull begins one try of each of several tasks.
Try(S) ==
    /\ S # {}
    /\ \A t \in S : status[t] = "open" /\ ~live[t] /\ tries[t] <= RetryMax[t]
    /\ tries' = [t \in Task |-> IF t \in S THEN tries[t] + 1 ELSE tries[t]]
    /\ live'  = [t \in Task |-> t \in S \/ live[t]]
    /\ UNCHANGED status

Succeed(t) ==
    /\ status[t] = "open" /\ live[t]
    /\ status' = [status EXCEPT ![t] = "done"]
    /\ live'   = [live EXCEPT ![t] = FALSE]
    /\ UNCHANGED tries

\* A try failed or was taken back; the last one allowed ends the task.
Fail(t) ==
    /\ status[t] = "open" /\ live[t]
    /\ live'   = [live EXCEPT ![t] = FALSE]
    /\ status' = [status EXCEPT ![t] = IF tries[t] <= RetryMax[t] THEN "open" ELSE "given_up"]
    /\ UNCHANGED tries

Next ==
    \/ \E t \in Task : Submit(t) \/ Succeed(t) \/ Fail(t)
    \/ \E S \in SUBSET Task : Try(S)

Spec == Init /\ [][Next]_vars
=============================================================================

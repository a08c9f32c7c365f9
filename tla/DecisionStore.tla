---------------------------- MODULE DecisionStore ----------------------------
(***************************************************************************)
(* What FileApprovalStore (src/approval_store.py:1-16) promises of human    *)
(* decisions, whatever its threads, its processes and their deaths do: the  *)
(* decision on a request changes in one step, to one that is being made at  *)
(* that moment, and never back to none.                                     *)
(***************************************************************************)
CONSTANTS Ids,      \* requests
          Verdicts, \* decisions
          None      \* no decision, not one of the Verdicts

VARIABLES decided,  \* the decision on a request, or None
          asked     \* the decisions that callers are making: the environment's

Init == decided = [i \in Ids |-> None]

(* A caller's decision is recorded; a later one replaces it. *)
Decide(i) ==
    \E v \in asked[i] \cap Verdicts : decided' = [decided EXCEPT ![i] = v]

Next == \E i \in Ids : Decide(i)

Spec == Init /\ [][Next]_decided
=============================================================================

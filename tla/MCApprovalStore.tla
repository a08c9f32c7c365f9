--------------------------- MODULE MCApprovalStore ---------------------------
(***************************************************************************)
(* Instances of ApprovalStore for TLC.                                      *)
(***************************************************************************)
EXTENDS ApprovalStore

CONSTANTS p1, p2, st1, st2, t1, t2, t3

(* A process with a store and two threads, and another with its own. *)
TwoProcesses == [s \in {st1, st2} |-> IF s = st1 THEN p1 ELSE p2]
ThreeThreads == [t \in {t1, t2, t3} |-> IF t = t3 THEN st2 ELSE st1]
=============================================================================

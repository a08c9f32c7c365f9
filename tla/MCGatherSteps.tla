---------------------------- MODULE MCGatherSteps ----------------------------
(***************************************************************************)
(* Instances of GatherSteps for TLC.                                        *)
(***************************************************************************)
EXTENDS GatherSteps

(* A long text is cut to the text that it begins with. *)
Truncated    == [t \in Texts |-> IF t = "long" THEN "short" ELSE t]
OfflineTexts == [u \in Urls |-> "short"]
=============================================================================

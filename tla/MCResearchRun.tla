---------------------------- MODULE MCResearchRun ----------------------------
(***************************************************************************)
(* Instances of ResearchRun for TLC.                                        *)
(***************************************************************************)
EXTENDS ResearchRun

CONSTANTS r1, r2, s1, s2, d0, d1, d2, f1, f2

(* One run. *)
OneRun   == {r1}
OneSession == [r \in {r1} |-> s1]

(* Two runs, of two sessions on related questions or of one session. *)
TwoRuns  == {r1, r2}
TwoSessions == [r \in TwoRuns |-> IF r = r1 THEN s1 ELSE s2]
SameSession == [r \in TwoRuns |-> s1]
AllRelated  == {s1, s2} \X {s1, s2}
NoneRelated == {}

(* The offline synthesizer: one draft per feedback, but another one should  *)
(* its input come in another key order (as the text would contain it).      *)
Offline(runs, feedbacks) ==
    [a \in runs \X feedbacks \X Renderings |->
        IF a[3] = "sorted"
        THEN {CASE a[2] = NoFeedback -> d0 [] a[2] = f1 -> d1 [] a[2] = f2 -> d2}
        ELSE {d2}]
OfflineOne == Offline(OneRun, {NoFeedback, f1})
OfflineTwo == Offline(TwoRuns, {NoFeedback, f1})

(* A language model: any draft for any input. *)
LanguageModel ==
    [a \in TwoRuns \X {NoFeedback, f1} \X Renderings |-> {d0, d1}]
=============================================================================

-------------------------- MODULE ResearchRunProofs --------------------------
(***************************************************************************)
(* ResearchRun for every value of its constants: type correctness, the      *)
(* human gate, the bound on notifications, silent rejections, the promise   *)
(* of DraftReview, and what drafts and published runs have left behind.     *)
(***************************************************************************)
EXTENDS ResearchRun, TLAPS

(* The types and the progress of a run are invariant together: what a       *)
(* reviewer approves is a draft because a run under review has one.         *)
Base == TypeOK /\ \A r \in Runs : RunInv(r)

(* Counting an event keeps a function of counters. *)
LEMMA Increment ==
  ASSUME NEW S, NEW f \in [S -> Nat], NEW x \in S
  PROVE  [f EXCEPT ![x] = @ + 1] \in [S -> Nat]
  OBVIOUS

(* Assigning a value, or adding an element, keeps the type of a function. *)
LEMMA Assign ==
  ASSUME NEW S, NEW T, NEW f \in [S -> T], NEW x \in S, NEW v \in T
  PROVE  [f EXCEPT ![x] = v] \in [S -> T]
  OBVIOUS

LEMMA AddElement ==
  ASSUME NEW S, NEW T, NEW f \in [S -> SUBSET T], NEW x \in S, NEW v \in T
  PROVE  [f EXCEPT ![x] = @ \cup {v}] \in [S -> SUBSET T]
  OBVIOUS

(* A run that publishes shows a draft. *)
LEMMA Publishing ==
  ASSUME Base, NEW r \in Runs, pc[r] # "idle"
  PROVE  /\ draft[r] \in Drafts /\ SessionOf[r] \in Sessions
         /\ <<r, draft[r]>> \in Runs \X Drafts
         /\ Key(r) \in Keys
         /\ <<r, draft[r]>> \in approvals
  BY RunsAssumption DEF Base, RunInv, Key, Keys

LEMMA TypeInit == Init => TypeOK
  BY RunsAssumption, DraftsAssumption
  DEF Init, TypeOK, Idle, Nil, Payloads, Renderings, Steps, Keys

LEMMA TypeCall ==
  ASSUME Base, NEW r \in Runs, NEW kind \in {"resume", "reject"},
         NEW p \in Payloads, CallOn(r, kind, p)
  PROVE  TypeOK'
<1>1. vmLive' \in [Runs -> BOOLEAN] /\ rendering' \in [Runs -> Renderings]
  BY DEF CallOn, AttachVM, Base, TypeOK, Renderings
<1>2. /\ status' \in [Runs -> {"none", "running", "waiting", "failed", "completed"}]
      /\ done' \in [Runs -> SUBSET Steps]
      /\ payload' \in [Runs -> Payloads]
      /\ UNCHANGED <<draft, prior, outcome>>
  <2>1. "review" \in Steps
    BY DEF Steps
  <2>2. CASE status[r] = "completed"
    BY <2>2 DEF CallOn, Deliver, engineVars, Base, TypeOK
  <2>3. CASE status[r] # "completed"
    <3>1. done \in [Runs -> SUBSET Steps] /\ done' \in [Runs -> SUBSET Steps]
      <4>1. done \in [Runs -> SUBSET Steps]
        BY DEF Base, TypeOK
      <4>2. [done EXCEPT ![r] = @ \cup {"review"}] \in [Runs -> SUBSET Steps]
        BY <2>1, <4>1, AddElement
      <4> QED
        BY <2>3, <4>1, <4>2 DEF CallOn, Deliver
    <3>2. status' \in [Runs -> {"none", "running", "waiting", "failed", "completed"}]
      BY <2>3 DEF CallOn, Deliver, Base, TypeOK
    <3>3. payload' \in [Runs -> Payloads] /\ UNCHANGED <<draft, prior, outcome>>
      BY <2>3 DEF CallOn, Deliver, Base, TypeOK
    <3> QED
      BY <3>1, <3>2, <3>3
  <2> QED
    BY <2>2, <2>3
<1>3. approvals' \subseteq Runs \X Drafts
  BY DEF CallOn, Deliver, UnderReview, engineVars, Base, TypeOK, RunInv
<1>4. call' \in [Runs -> [kind : {"idle", "start", "resume", "reject", "replay"},
                          fb : Feedbacks]]
  BY DEF CallOn, Base, TypeOK, Payloads
<1> QED
  BY <1>1, <1>2, <1>3, <1>4 DEF CallOn, Base, TypeOK, worldVars

LEMMA TypeStep == Base /\ [Next]_vars => TypeOK'
<1> SUFFICES ASSUME Base, [Next]_vars PROVE TypeOK'
  OBVIOUS
<1> USE RunsAssumption, DraftsAssumption, BoundsAssumption
<1>1. CASE UNCHANGED vars
  BY <1>1 DEF vars, engineVars, vmVars, worldVars, ghostVars, boundVars,
              Base, TypeOK
<1>2. ASSUME NEW r \in Runs, Start(r) PROVE TypeOK'
  BY <1>2 DEF Start, worldVars, ghostVars, boundVars, Base, TypeOK
<1>3. ASSUME NEW r \in Runs, Approve(r) PROVE TypeOK'
  BY <1>3, TypeCall DEF Approve, Approval, Payloads
<1>4. ASSUME NEW r \in Runs, NEW fb \in Feedbacks, Reject(r, fb) PROVE TypeOK'
  BY <1>4, TypeCall DEF Reject, Rejection, Payloads
<1>5. ASSUME NEW r \in Runs, Rollback(r) PROVE TypeOK'
  BY <1>5 DEF Rollback, Replay, Payloads, vmVars, worldVars, ghostVars,
              boundVars, Base, TypeOK
<1>6. ASSUME NEW r \in Runs, Return(r) PROVE TypeOK'
  BY <1>6 DEF Return, Idle, engineVars, vmVars, worldVars, ghostVars,
              boundVars, Base, TypeOK
<1>7. ASSUME NEW r \in Runs, NEW s \in Steps, Collect(r, s) PROVE TypeOK'
  BY <1>7 DEF Collect, Finish, vmVars, worldVars, ghostVars, boundVars,
              Base, TypeOK
<1>8. ASSUME NEW r \in Runs, Recall(r) PROVE TypeOK'
  <2>1. Recallable(SessionOf[r]) \subseteq Sessions \X (Drafts \cup {NoDraft})
    <3>1. \A t \in Sessions : nodes[<<t, "final">>] \in Drafts \cup {NoDraft}
      BY DEF Base, TypeOK
    <3>2. SUFFICES ASSUME NEW n \in Recallable(SessionOf[r])
                   PROVE  n \in Sessions \X (Drafts \cup {NoDraft})
      OBVIOUS
    <3>3. PICK t \in Sessions : n = <<t, nodes[<<t, "final">>]>>
      BY DEF Recallable
    <3> QED
      BY <3>1, <3>3
  <2>2. prior' \in [Runs -> SUBSET (Sessions \X (Drafts \cup {NoDraft}))]
    BY <1>8, <2>1 DEF Recall, Base, TypeOK
  <2> QED
    BY <1>8, <2>2 DEF Recall, Finish, Steps, vmVars, worldVars, ghostVars,
                      boundVars, Base, TypeOK
<1>9. ASSUME NEW r \in Runs, DraftStep(r) PROVE TypeOK'
  <2>1. payload[r].fb \in Feedbacks /\ SessionOf[r] \in Sessions
    BY DEF Base, TypeOK, Payloads
  <2>2. PICK d \in Synthesize[<<r, payload[r].fb, CanonicalJson(rendering[r])>>] :
          /\ draft' = [draft EXCEPT ![r] = d]
          /\ nodes' = [nodes EXCEPT ![<<SessionOf[r], "draft">>] = d]
          /\ drafted' = drafted \cup {<<r, payload[r].fb, d>>}
    BY <1>9 DEF DraftStep
  <2>3. d \in Drafts
    BY <2>1, <2>2 DEF CanonicalJson, Renderings
  <2>4. /\ draft' \in [Runs -> Drafts \cup {NoDraft}]
        /\ nodes' \in [Sessions \X {"draft", "final"} -> Drafts \cup {NoDraft}]
        /\ drafted' \subseteq Runs \X Feedbacks \X Drafts
    BY <2>1, <2>2, <2>3 DEF Base, TypeOK
  <2> QED
    BY <1>9, <2>1, <2>4 DEF DraftStep, Finish, Steps, vmVars, boundVars,
                            Base, TypeOK
<1>10. ASSUME NEW r \in Runs, DraftThrows(r) PROVE TypeOK'
  BY <1>10 DEF DraftThrows, vmVars, worldVars, ghostVars, Base, TypeOK
<1>11. ASSUME NEW r \in Runs, Review(r) PROVE TypeOK'
  BY <1>11 DEF Review, vmVars, worldVars, ghostVars, boundVars, Base, TypeOK
<1>12. ASSUME NEW r \in Runs, Declined(r) \/ Published(r) PROVE TypeOK'
  <2>1. "publish" \in Steps
    BY DEF Steps
  <2>2. done \in [Runs -> SUBSET Steps] /\ done' \in [Runs -> SUBSET Steps]
    <3>1. done \in [Runs -> SUBSET Steps]
      BY DEF Base, TypeOK
    <3>2. [done EXCEPT ![r] = @ \cup {"publish"}] \in [Runs -> SUBSET Steps]
      BY <2>1, <3>1, AddElement
    <3> QED
      BY <1>12, <3>1, <3>2 DEF Declined, Published, EndPublish, Finish
  <2>3. /\ status' \in [Runs -> {"none", "running", "waiting", "failed", "completed"}]
        /\ outcome' \in [Runs -> {"none", "declined", "published"}]
        /\ pc' \in [Runs -> {"idle", "truncate", "write", "notify", "complete",
                             "put", "tag", "return"}]
    BY <1>12 DEF Declined, Published, EndPublish, Base, TypeOK
  <2> QED
    BY <1>12, <2>2, <2>3 DEF Declined, Published, EndPublish, vmVars, worldVars,
                       ghostVars, boundVars, Base, TypeOK
<1>13. ASSUME NEW r \in Runs, EnterPublishOnce(r) PROVE TypeOK'
  BY <1>13 DEF EnterPublishOnce, Claim, engineVars, vmVars, ghostVars,
               boundVars, Base, TypeOK
<1>14. ASSUME NEW r \in Runs, Truncate(r) \/ Write(r) PROVE TypeOK'
  <2>1. draft[r] \in Drafts /\ SessionOf[r] \in Sessions
    BY <1>14, Publishing DEF Truncate, Write
  <2>2. /\ file' \in [Sessions -> Drafts \cup {NoDraft, Torn}]
        /\ pc' \in [Runs -> {"idle", "truncate", "write", "notify", "complete",
                             "put", "tag", "return"}]
    BY <1>14, <2>1 DEF Truncate, Write, Base, TypeOK
  <2> QED
    BY <1>14, <2>2 DEF Truncate, Write, engineVars, vmVars, ghostVars,
                       boundVars, Base, TypeOK
<1>15. ASSUME NEW r \in Runs, WriteThrows(r) PROVE TypeOK'
  BY <1>15 DEF WriteThrows, vmVars, worldVars, ghostVars, Base, TypeOK
<1>16. ASSUME NEW r \in Runs, Notify(r) PROVE TypeOK'
  <2>1. <<r, draft[r]>> \in Runs \X Drafts
    BY <1>16, Publishing DEF Notify
  <2>2. sent' \in [Runs \X Drafts -> Nat]
    <3>1. sent \in [Runs \X Drafts -> Nat]
      BY DEF Base, TypeOK
    <3>2. [sent EXCEPT ![<<r, draft[r]>>] = @ + 1] \in [Runs \X Drafts -> Nat]
      BY <2>1, <3>1, Increment
    <3> QED
      BY <1>16, <3>1, <3>2 DEF Notify
  <2> QED
    BY <1>16, <2>2 DEF Notify, engineVars, vmVars, ghostVars, boundVars,
                       Base, TypeOK
<1>17. ASSUME NEW r \in Runs, CompleteEffect(r) PROVE TypeOK'
  BY <1>17 DEF CompleteEffect, engineVars, vmVars, ghostVars, boundVars,
               Base, TypeOK
<1>18. ASSUME NEW r \in Runs, PutFinal(r) \/ TagFinal(r) PROVE TypeOK'
  <2>1. draft[r] \in Drafts /\ SessionOf[r] \in Sessions
    BY <1>18, Publishing DEF PutFinal, TagFinal
  <2>2. nodes' \in [Sessions \X {"draft", "final"} -> Drafts \cup {NoDraft}]
    <3>1. nodes \in [Sessions \X {"draft", "final"} -> Drafts \cup {NoDraft}]
      BY DEF Base, TypeOK
    <3>2. [nodes EXCEPT ![<<SessionOf[r], "final">>] = draft[r]] \in
            [Sessions \X {"draft", "final"} -> Drafts \cup {NoDraft}]
      BY <2>1, <3>1, Assign
    <3> QED
      BY <1>18, <3>1, <3>2 DEF PutFinal, TagFinal
  <2>3. tagged' \subseteq Sessions \X {"draft", "final"}
    <3>1. tagged \subseteq Sessions \X {"draft", "final"}
      BY DEF Base, TypeOK
    <3> QED
      BY <1>18, <2>1, <3>1 DEF PutFinal, TagFinal
  <2>4. pc' \in [Runs -> {"idle", "truncate", "write", "notify", "complete",
                          "put", "tag", "return"}]
    <3>1. pc \in [Runs -> {"idle", "truncate", "write", "notify", "complete",
                           "put", "tag", "return"}]
      BY DEF Base, TypeOK
    <3> QED
      BY <1>18, <3>1 DEF PutFinal, TagFinal
  <2> QED
    BY <1>18, <2>2, <2>3, <2>4 DEF PutFinal, TagFinal, engineVars, vmVars,
                       ghostVars, boundVars, Base, TypeOK
<1>19. ASSUME NEW r \in Runs, Crash(r) PROVE TypeOK'
  <2>1. unrecorded' \in [Runs \X Drafts -> Nat]
    BY <1>19, Publishing, Increment DEF Crash, Base, TypeOK
  <2> QED
    BY <1>19, <2>1 DEF Crash, Idle, engineVars, worldVars, Base, TypeOK
<1> QED
  BY <1>1, <1>2, <1>3, <1>4, <1>5, <1>6, <1>7, <1>8, <1>9, <1>10, <1>11,
     <1>12, <1>13, <1>14, <1>15, <1>16, <1>17, <1>18, <1>19
  DEF Next, Advance, PublishStep

(***************************************************************************)
(* The progress of a run.                                                   *)
(***************************************************************************)
LEMMA RunInit == Init => \A r \in Runs : RunInv(r)
  BY DEF Init, RunInv, Idle, Nil, Busy

(* What RunInv reads of run q, and how a step may change it. *)
LEMMA RunFrame ==
  ASSUME NEW q \in Runs, RunInv(q), approvals \subseteq approvals',
         UNCHANGED <<status[q], done[q], payload[q], draft[q], call[q], pc[q]>>
  PROVE  RunInv(q)'
  BY DEF RunInv, Busy

LEMMA RunCall ==
  ASSUME Base, NEW r \in Runs, NEW kind \in {"resume", "reject"},
         NEW p \in Payloads, CallOn(r, kind, p),
         kind = "reject" => p.kind # "approve",
         NEW q \in Runs
  PROVE  RunInv(q)'
<1>1. CASE q # r
  <2>1. approvals \subseteq approvals'
    BY DEF CallOn, Deliver
  <2>2. UNCHANGED <<status[q], done[q], payload[q], draft[q], call[q], pc[q]>>
    BY <1>1 DEF CallOn, Deliver, engineVars, Base, TypeOK
  <2> QED
    BY <2>1, <2>2, RunFrame DEF Base
<1>2. CASE q = r
  <2>1. pc[r] = "idle" /\ pc'[r] = "idle"
    BY DEF CallOn, Base, RunInv
  <2>2. call'[r].kind = kind /\ draft' = draft
    BY DEF CallOn, Deliver, engineVars, Base, TypeOK
  <2>3. CASE status[r] = "completed"
    <3>1. UNCHANGED <<engineVars, approvals>>
      BY <2>3 DEF CallOn, Deliver
    <3> QED
      BY <1>2, <2>1, <2>2, <2>3, <3>1 DEF Base, RunInv, engineVars
  <2>4. CASE status[r] # "completed"
    <3>1. status'[r] = "running" /\ payload'[r] = p
      BY <2>4 DEF CallOn, Deliver, Base, TypeOK
    <3>2. /\ "review" \in done'[r] =>
                "review" \in done[r] \/ status[r] = "waiting"
          /\ "draft_step" \in done'[r] <=> "draft_step" \in done[r]
      BY <2>4 DEF CallOn, Deliver, Base, TypeOK
    <3>3. "review" \in done'[r] /\ p.kind = "approve" =>
            <<r, draft[r]>> \in approvals'
      BY <2>4, <3>2 DEF CallOn, Deliver, UnderReview
    <3> QED
      BY <1>2, <2>1, <2>2, <3>1, <3>2, <3>3 DEF Base, RunInv
  <2> QED
    BY <2>3, <2>4
<1> QED
  BY <1>1, <1>2

LEMMA RunStep == Base /\ [Next]_vars => \A q \in Runs : RunInv(q)'
<1> SUFFICES ASSUME Base, [Next]_vars, NEW q \in Runs PROVE RunInv(q)'
  OBVIOUS
<1>1. RunInv(q) /\ TypeOK
  BY DEF Base
<1>2. CASE UNCHANGED vars
  BY <1>1, <1>2, RunFrame DEF vars, engineVars, ghostVars
<1>3. ASSUME NEW r \in Runs, Start(r) PROVE RunInv(q)'
  BY <1>1, <1>3 DEF Start, ghostVars, TypeOK, RunInv, Busy
<1>4. ASSUME NEW r \in Runs, Approve(r) PROVE RunInv(q)'
  <2>1. Approval \in Payloads
    BY DraftsAssumption DEF Approval, Payloads
  <2> QED
    BY <1>4, <2>1, RunCall DEF Approve
<1>5. ASSUME NEW r \in Runs, NEW fb \in Feedbacks, Reject(r, fb)
      PROVE  RunInv(q)'
  <2>1. Rejection(fb) \in Payloads /\ Rejection(fb).kind # "approve"
    BY DEF Rejection, Payloads
  <2> QED
    BY <1>5, <2>1, RunCall DEF Reject
<1>6. ASSUME NEW r \in Runs, Rollback(r) PROVE RunInv(q)'
  BY <1>1, <1>6 DEF Rollback, Rewound, Replay, ghostVars, TypeOK, RunInv, Busy
<1>7. ASSUME NEW r \in Runs, Return(r) PROVE RunInv(q)'
  BY <1>1, <1>7 DEF Return, Idle, engineVars, ghostVars, TypeOK, RunInv, Busy
<1>8. ASSUME NEW r \in Runs, NEW s \in Steps, Collect(r, s) PROVE RunInv(q)'
  BY <1>1, <1>8 DEF Collect, Finish, Gathers, ghostVars, TypeOK, RunInv, Busy
<1>9. ASSUME NEW r \in Runs, Recall(r) PROVE RunInv(q)'
  BY <1>1, <1>9 DEF Recall, Finish, ghostVars, TypeOK, RunInv, Busy
<1>10. ASSUME NEW r \in Runs, DraftStep(r) PROVE RunInv(q)'
  <2>1. PICK d \in Drafts : draft' = [draft EXCEPT ![r] = d]
    <3>1. Synthesize[<<r, payload[r].fb, CanonicalJson(rendering[r])>>]
            \subseteq Drafts
      BY <1>1, DraftsAssumption DEF CanonicalJson, Renderings, TypeOK, Payloads
    <3> QED
      BY <1>10, <3>1 DEF DraftStep
  <2>2. "review" \notin done[r] /\ pc[r] = "idle"
    BY <1>10 DEF DraftStep, Ready, Base, RunInv
  <2> QED
    BY <1>1, <1>10, <2>1, <2>2
    DEF DraftStep, Ready, Finish, TypeOK, RunInv, Busy
<1>11. ASSUME NEW r \in Runs, DraftThrows(r) PROVE RunInv(q)'
  <2>1. pc[r] = "idle"
    BY <1>11 DEF DraftThrows, Ready, Base, RunInv
  <2> QED
    BY <1>1, <1>11, <2>1
    DEF DraftThrows, Ready, ghostVars, TypeOK, RunInv, Busy
<1>12. ASSUME NEW r \in Runs, Review(r) PROVE RunInv(q)'
  <2>1. "draft_step" \in done[r]
    BY <1>12 DEF Review, Ready, After
  <2> QED
    BY <1>1, <1>12, <2>1 DEF Review, Ready, ghostVars, TypeOK, RunInv, Busy
<1>13. ASSUME NEW r \in Runs, Declined(r) \/ Published(r) PROVE RunInv(q)'
  <2>1. /\ UNCHANGED <<payload, draft, call, ghostVars>>
        /\ status' = [status EXCEPT ![r] = "completed"]
        /\ done' = [done EXCEPT ![r] = @ \cup {"publish"}]
        /\ pc' = pc \/ pc' = [pc EXCEPT ![r] = "idle"]
    BY <1>13 DEF Declined, Published, EndPublish, Finish
  <2>2. pc'[r] = "idle"
    BY <1>1, <1>13 DEF Declined, Published, TypeOK
  <2>3. status[r] = "running"
    BY <1>1, <1>13 DEF Declined, Published, Ready, Base, RunInv
  <2> QED
    BY <1>1, <2>1, <2>2, <2>3 DEF ghostVars, TypeOK, RunInv, Busy
<1>14. ASSUME NEW r \in Runs, EnterPublishOnce(r) PROVE RunInv(q)'
  <2>1. "review" \in done[r]
    BY <1>14 DEF EnterPublishOnce, Ready, After
  <2> QED
    BY <1>1, <1>14, <2>1 DEF EnterPublishOnce, Ready, Approved, engineVars,
                             ghostVars, TypeOK, RunInv, Busy
<1>15. ASSUME NEW r \in Runs,
              \/ Truncate(r) \/ Write(r) \/ Notify(r)
              \/ CompleteEffect(r) \/ PutFinal(r) \/ TagFinal(r)
       PROVE  RunInv(q)'
  <2>1. pc[r] # "idle" /\ UNCHANGED <<engineVars, call, ghostVars>>
    BY <1>15 DEF Truncate, Write, Notify, CompleteEffect, PutFinal, TagFinal
  <2>2. q # r => pc'[q] = pc[q]
    BY <1>1, <1>15 DEF TypeOK, Truncate, Write, Notify, CompleteEffect, PutFinal, TagFinal
  <2> QED
    BY <1>1, <2>1, <2>2 DEF engineVars, ghostVars, TypeOK, RunInv, Busy
<1>16. ASSUME NEW r \in Runs, WriteThrows(r) PROVE RunInv(q)'
  BY <1>1, <1>16 DEF WriteThrows, ghostVars, TypeOK, RunInv, Busy
<1>17. ASSUME NEW r \in Runs, Crash(r) PROVE RunInv(q)'
  BY <1>1, <1>17 DEF Crash, Idle, engineVars, TypeOK, RunInv, Busy
<1> QED
  BY <1>2, <1>3, <1>4, <1>5, <1>6, <1>7, <1>8, <1>9, <1>10, <1>11, <1>12,
     <1>13, <1>14, <1>15, <1>16, <1>17
  DEF Next, Advance, PublishStep

(***************************************************************************)
(* What a step can do to the world: nothing, or one effect of one run.      *)
(***************************************************************************)
Effect(r) ==
    \/ DraftStep(r) \/ EnterPublishOnce(r) \/ Truncate(r) \/ Write(r)
    \/ Notify(r) \/ CompleteEffect(r) \/ PutFinal(r) \/ TagFinal(r)

Quiet ==
    /\ UNCHANGED worldVars
    /\ \A q \in Runs : pc'[q] \in {pc[q], "idle"}
    /\ prior' = prior \/ \E r \in Runs : Recall(r)

LEMMA StepKinds ==
  ASSUME Base, [Next]_vars
  PROVE  /\ approvals \subseteq approvals'
         /\ Quiet \/ \E r \in Runs : Effect(r)
<1>1. CASE UNCHANGED vars
  BY <1>1 DEF vars, engineVars, worldVars, ghostVars, Quiet
<1>2. ASSUME NEW r \in Runs, Start(r) \/ Return(r) \/ DraftThrows(r) \/ Review(r)
      PROVE  Quiet /\ approvals' = approvals
  BY <1>2 DEF Start, Return, DraftThrows, Review, engineVars, ghostVars, Quiet
<1>3. ASSUME NEW r \in Runs, NEW kind, NEW p, CallOn(r, kind, p)
      PROVE  Quiet /\ approvals \subseteq approvals'
  <2>1. UNCHANGED prior /\ approvals \subseteq approvals'
    BY <1>3 DEF CallOn, Deliver, engineVars
  <2> QED
    BY <1>3, <2>1 DEF CallOn, Quiet
<1>4. ASSUME NEW r \in Runs, Rollback(r) PROVE Quiet /\ approvals' = approvals
  BY <1>4 DEF Rollback, ghostVars, Quiet
<1>5. ASSUME NEW r \in Runs, NEW s \in Steps, Collect(r, s)
      PROVE  Quiet /\ approvals' = approvals
  BY <1>5 DEF Collect, ghostVars, Quiet
<1>6. ASSUME NEW r \in Runs, Recall(r) PROVE Quiet /\ approvals' = approvals
  <2>1. UNCHANGED <<worldVars, pc, approvals>>
    BY <1>6 DEF Recall, ghostVars
  <2> QED
    BY <1>6, <2>1 DEF Quiet
<1>7. ASSUME NEW r \in Runs,
             Declined(r) \/ Published(r) \/ WriteThrows(r) \/ Crash(r)
      PROVE  Quiet /\ approvals' = approvals
  <2>1. UNCHANGED <<worldVars, prior, approvals>>
    BY <1>7 DEF Declined, Published, EndPublish, WriteThrows, Crash,
                engineVars, ghostVars
  <2>2. pc' = pc \/ pc' = [pc EXCEPT ![r] = "idle"]
    BY <1>7 DEF Declined, Published, WriteThrows, Crash
  <2> QED
    BY <2>1, <2>2 DEF Quiet, Base, TypeOK
<1>8. ASSUME NEW r \in Runs, Effect(r) PROVE approvals' = approvals
  BY <1>8 DEF Effect, DraftStep, EnterPublishOnce, Truncate, Write, Notify,
              CompleteEffect, PutFinal, TagFinal, ghostVars
<1> QED
  BY <1>1, <1>2, <1>3, <1>4, <1>5, <1>6, <1>7, <1>8
  DEF Next, Advance, PublishStep, Approve, Reject, Effect

(***************************************************************************)
(* The human gate.                                                          *)
(***************************************************************************)
GateInv == HumanGate /\ MemoryInv /\ PriorIsPublished

LEMMA GateInit == Init => GateInv
  BY RunsAssumption, DraftsAssumption
  DEF Init, GateInv, HumanGate, MemoryInv, PriorIsPublished

LEMMA Approvals ==
  ASSUME approvals \subseteq approvals', NEW s, NEW d, ApprovedFor(s, d)
  PROVE  \E r \in Runs : SessionOf[r] = s /\ <<r, d>> \in approvals'
  BY DEF ApprovedFor

LEMMA GateQuiet == Base /\ GateInv /\ [Next]_vars /\ Quiet => GateInv'
<1> SUFFICES ASSUME Base, GateInv, [Next]_vars, Quiet PROVE GateInv'
  OBVIOUS
<1>1. approvals \subseteq approvals'
  BY StepKinds
<1>2. UNCHANGED <<effects, file, sent, nodes, tagged>>
  BY DEF Quiet, worldVars
<1>3. HumanGate'
  BY <1>1, <1>2, Approvals DEF ApprovedFor, GateInv, HumanGate
<1>4. MemoryInv'
  BY <1>2 DEF GateInv, MemoryInv, Quiet
<1>5. PriorIsPublished'
  <2>1. CASE prior' = prior
    BY <1>1, <2>1, Approvals DEF ApprovedFor, GateInv, PriorIsPublished
  <2>2. ASSUME NEW r \in Runs, Recall(r) PROVE PriorIsPublished'
    <3>1. SUFFICES ASSUME NEW q \in Runs, NEW n \in prior'[q]
                   PROVE  /\ n[1] # SessionOf[q]
                          /\ n[2] \in Drafts /\ ApprovedFor(n[1], n[2])'
      BY DEF PriorIsPublished
    <3>2. CASE n \in prior[q]
      BY <1>1, <3>2, Approvals DEF ApprovedFor, GateInv, PriorIsPublished
    <3>3. CASE n \notin prior[q]
      <4>1. q = r /\ n \in Recallable(SessionOf[r])
        BY <2>2, <3>1, <3>3 DEF Recall, Base, TypeOK
      <4>2. PICK t \in Sessions : /\ n = <<t, nodes[<<t, "final">>]>>
                                  /\ t # SessionOf[r]
                                  /\ <<t, "final">> \in tagged
        BY <4>1 DEF Recallable
      <4>3. nodes[<<t, "final">>] \in Drafts
        BY <4>2 DEF GateInv, MemoryInv, Base, TypeOK
      <4>4. ApprovedFor(t, nodes[<<t, "final">>])
        BY <4>2 DEF GateInv, HumanGate, MemoryInv
      <4> QED
        BY <1>1, <4>1, <4>2, <4>3, <4>4, Approvals DEF ApprovedFor
    <3> QED
      BY <3>2, <3>3
  <2> QED
    BY <2>1, <2>2 DEF Quiet
<1> QED
  BY <1>3, <1>4, <1>5 DEF GateInv

LEMMA GateEffect ==
  ASSUME Base, GateInv, [Next]_vars, NEW r \in Runs, Effect(r)
  PROVE  GateInv'
<1>1. approvals \subseteq approvals'
  BY StepKinds
<1>2. SessionOf[r] \in Sessions
  BY RunsAssumption
<1>3. PriorIsPublished'
  <2>1. prior' = prior
    BY DEF Effect, DraftStep, EnterPublishOnce, Truncate, Write, Notify,
           CompleteEffect, PutFinal, TagFinal, engineVars
  <2> QED
    BY <1>1, <2>1, Approvals DEF ApprovedFor, GateInv, PriorIsPublished
<1>4. pc[r] # "idle" => ApprovedFor(SessionOf[r], draft[r])
  BY Publishing DEF ApprovedFor
<1>5. ASSUME NEW q \in Runs, NEW d \in Drafts, sent'[<<q, d>>] > 0
      PROVE  <<q, d>> \in approvals'
  <2>1. CASE sent'[<<q, d>>] = sent[<<q, d>>]
    BY <1>1, <1>5, <2>1 DEF GateInv, HumanGate
  <2>2. CASE sent'[<<q, d>>] # sent[<<q, d>>]
    <3>1. Notify(r) /\ pc[r] # "idle"
      BY <2>2 DEF Effect, DraftStep, EnterPublishOnce, Truncate, Write, Notify,
                  CompleteEffect, PutFinal, TagFinal
    <3>2. <<q, d>> = <<r, draft[r]>>
      BY <2>2, <3>1 DEF Notify, Base, TypeOK
    <3> QED
      BY <1>1, <3>1, <3>2, Publishing
  <2> QED
    BY <2>1, <2>2
<1>6. ASSUME NEW s \in Sessions, file'[s] \in Drafts
      PROVE  ApprovedFor(s, file[s])'
  <2>1. CASE file'[s] = file[s]
    BY <1>1, <1>6, <2>1, Approvals DEF ApprovedFor, GateInv, HumanGate
  <2>2. CASE file'[s] # file[s]
    <3>1. (Truncate(r) \/ Write(r)) /\ pc[r] # "idle"
      BY <2>2 DEF Effect, DraftStep, EnterPublishOnce, Truncate, Write, Notify,
                  CompleteEffect, PutFinal, TagFinal
    <3>2. s = SessionOf[r] /\ file'[s] \in {Torn, draft[r]}
      BY <2>2, <3>1 DEF Truncate, Write, Base, TypeOK
    <3> QED
      BY <1>1, <1>4, <1>6, <3>1, <3>2, Approvals, DraftsAssumption DEF ApprovedFor
  <2> QED
    BY <2>1, <2>2
<1>7. ASSUME NEW s \in Sessions, nodes'[<<s, "final">>] # nodes[<<s, "final">>]
      PROVE  /\ PutFinal(r) /\ pc[r] # "idle" /\ s = SessionOf[r]
             /\ nodes'[<<s, "final">>] = draft[r]
  <2>1. DraftStep(r) \/ PutFinal(r)
    BY <1>7 DEF Effect, DraftStep, EnterPublishOnce, Truncate, Write, Notify,
                CompleteEffect, PutFinal, TagFinal
  <2>2. ASSUME DraftStep(r) PROVE FALSE
    <3>1. PICK d : nodes' = [nodes EXCEPT ![<<SessionOf[r], "draft">>] = d]
      BY <2>2 DEF DraftStep
    <3> QED
      BY <1>7, <3>1 DEF Base, TypeOK
  <2> QED
    <3>1. PutFinal(r) /\ pc[r] # "idle"
      BY <2>1, <2>2 DEF PutFinal
    <3>2. <<s, "final">> = <<SessionOf[r], "final">>
      BY <1>7, <3>1 DEF PutFinal, Base, TypeOK
    <3>3. nodes'[<<s, "final">>] = draft[r]
      BY <1>2, <3>1, <3>2 DEF PutFinal, Base, TypeOK
    <3> QED
      BY <3>1, <3>2, <3>3
<1>8. ASSUME NEW s \in Sessions, nodes'[<<s, "final">>] # NoDraft
      PROVE  ApprovedFor(s, nodes[<<s, "final">>])'
  <2>1. CASE nodes'[<<s, "final">>] = nodes[<<s, "final">>]
    BY <1>1, <1>8, <2>1, Approvals DEF ApprovedFor, GateInv, HumanGate
  <2>2. CASE nodes'[<<s, "final">>] # nodes[<<s, "final">>]
    BY <1>1, <1>4, <1>7, <2>2, Approvals DEF ApprovedFor
  <2> QED
    BY <2>1, <2>2
<1>9. ASSUME NEW s \in Sessions, nodes[<<s, "final">>] # NoDraft
      PROVE  nodes'[<<s, "final">>] # NoDraft
  BY <1>7, <1>9, Publishing, DraftsAssumption
<1>10. ASSUME NEW s \in Sessions, <<s, "final">> \in tagged'
       PROVE  nodes'[<<s, "final">>] # NoDraft
  <2>1. CASE <<s, "final">> \in tagged
    BY <1>9, <2>1 DEF GateInv, MemoryInv
  <2>2. CASE <<s, "final">> \notin tagged
    <3>1. TagFinal(r) /\ pc[r] = "tag" /\ s = SessionOf[r]
      BY <1>10, <2>2 DEF Effect, DraftStep, EnterPublishOnce, Truncate, Write,
                         Notify, CompleteEffect, PutFinal, TagFinal
    <3> QED
      BY <1>9, <3>1 DEF GateInv, MemoryInv
  <2> QED
    BY <2>1, <2>2
<1>11. ASSUME NEW q \in Runs, pc'[q] = "tag"
       PROVE  nodes'[<<SessionOf[q], "final">>] # NoDraft
  <2>1. SessionOf[q] \in Sessions
    BY RunsAssumption
  <2>2. CASE pc[q] = "tag"
    BY <1>9, <2>1, <2>2 DEF GateInv, MemoryInv
  <2>3. CASE pc[q] # "tag"
    <3>1. PutFinal(r) /\ q = r
      BY <1>11, <2>3 DEF Effect, DraftStep, EnterPublishOnce, Truncate, Write,
                 Notify, CompleteEffect, PutFinal, TagFinal, Base, TypeOK
    <3>2. draft[r] \in Drafts /\ nodes'[<<SessionOf[r], "final">>] = draft[r]
      BY <1>2, <3>1, Publishing DEF PutFinal, Base, TypeOK
    <3> QED
      BY <3>1, <3>2, DraftsAssumption
  <2> QED
    BY <2>2, <2>3
<1> QED
  BY <1>3, <1>5, <1>6, <1>8, <1>10, <1>11 DEF GateInv, HumanGate, MemoryInv

(***************************************************************************)
(* Counting notifications.                                                  *)
(***************************************************************************)
Body == {"truncate", "write", "notify"}

LEMMA CountInit == Init => \A q \in Runs, d \in Drafts : CountInv(q, d)
  BY DEF Init, CountInv

(* A step keeps the count of (q, d) when it neither delivers d for q nor    *)
(* loses a record of it, and does not take q into or out of the window      *)
(* between delivery and record.                                             *)
LEMMA CountFrame ==
  ASSUME TypeOK, NEW q \in Runs, NEW d \in Drafts, CountInv(q, d),
         sent'[<<q, d>>] = sent[<<q, d>>],
         unrecorded'[<<q, d>>] = unrecorded[<<q, d>>],
         effects[<<SessionOf[q], d>>] = "complete" =>
            effects'[<<SessionOf[q], d>>] = "complete",
         \/ pc'[q] = pc[q] /\ draft'[q] = draft[q]
         \/ pc[q] \in Body /\ pc'[q] \in Body /\ draft'[q] = draft[q]
         \/ /\ pc'[q] \notin Body \cup {"complete"}
            /\ ~(draft[q] = d /\ pc[q] = "complete")
  PROVE  CountInv(q, d)'
  BY DEF CountInv, Body

LEMMA CountStep ==
  ASSUME Base, [Next]_vars, NEW q \in Runs, NEW d \in Drafts, CountInv(q, d)
  PROVE  CountInv(q, d)'
<1>1. TypeOK /\ RunInv(q)
  BY DEF Base
<1>2. CASE UNCHANGED vars
  BY <1>1, <1>2, CountFrame DEF vars, engineVars, worldVars, ghostVars
<1>3. ASSUME NEW r \in Runs,
             Start(r) \/ Return(r) \/ DraftThrows(r) \/ Review(r) \/ Recall(r)
      PROVE  CountInv(q, d)'
  <2>1. UNCHANGED <<draft, pc, effects, sent, unrecorded>>
    BY <1>3 DEF Start, Return, DraftThrows, Review, Recall, engineVars,
                worldVars, ghostVars
  <2> QED
    BY <1>1, <2>1, CountFrame
<1>4. ASSUME NEW r \in Runs, NEW kind, NEW p, CallOn(r, kind, p)
      PROVE  CountInv(q, d)'
  <2>1. UNCHANGED <<draft, pc, effects, sent, unrecorded>>
    BY <1>4 DEF CallOn, Deliver, engineVars, worldVars
  <2> QED
    BY <1>1, <2>1, CountFrame
<1>5. ASSUME NEW r \in Runs, NEW s \in Steps, Collect(r, s)
      PROVE  CountInv(q, d)'
  <2>1. UNCHANGED <<draft, pc, effects, sent, unrecorded>>
    BY <1>5 DEF Collect, worldVars, ghostVars
  <2> QED
    BY <1>1, <2>1, CountFrame
<1>6. ASSUME NEW r \in Runs, Rollback(r) \/ DraftStep(r)
      PROVE  CountInv(q, d)'
  <2>1. pc[r] = "idle"
    BY <1>6 DEF Rollback, DraftStep, Ready, Base, RunInv
  <2>2. UNCHANGED <<pc, effects, sent, unrecorded>> /\ (q # r => draft'[q] = draft[q])
    BY <1>1, <1>6 DEF Rollback, DraftStep, worldVars, ghostVars, TypeOK
  <2> QED
    BY <1>1, <2>1, <2>2, CountFrame DEF Body
<1>7. ASSUME NEW r \in Runs,
             \/ Declined(r) \/ Published(r) \/ WriteThrows(r)
             \/ Truncate(r) \/ Write(r) \/ PutFinal(r) \/ TagFinal(r)
      PROVE  CountInv(q, d)'
  <2>1. UNCHANGED <<draft, effects, sent, unrecorded>>
    BY <1>7 DEF Declined, Published, EndPublish, WriteThrows, Truncate, Write,
                PutFinal, TagFinal, engineVars, worldVars, ghostVars
  <2>2. q # r => pc'[q] = pc[q]
    BY <1>1, <1>7 DEF Declined, Published, WriteThrows, Truncate, Write,
                      PutFinal, TagFinal, TypeOK
  <2>3. \/ pc[r] \in Body /\ pc'[r] \in Body
        \/ pc'[r] \notin Body \cup {"complete"} /\ pc[r] # "complete"
    BY <1>1, <1>7 DEF Declined, Published, WriteThrows, Truncate, Write,
                      PutFinal, TagFinal, TypeOK, Body
  <2> QED
    BY <1>1, <2>1, <2>2, <2>3, CountFrame
<1>8. ASSUME NEW r \in Runs, EnterPublishOnce(r) PROVE CountInv(q, d)'
  <2>1. UNCHANGED <<draft, sent, unrecorded>> /\ pc[r] = "idle"
    BY <1>8 DEF EnterPublishOnce, engineVars, ghostVars
  <2>2. CASE effects[Key(r)] = "complete"
    <3>1. effects' = effects /\ pc' = [pc EXCEPT ![r] = "put"]
      BY <1>8, <2>2 DEF EnterPublishOnce, Served
    <3>2. pc'[r] = "put" /\ (q # r => pc'[q] = pc[q])
      BY <1>1, <3>1 DEF TypeOK
    <3> QED
      BY <1>1, <2>1, <3>1, <3>2, CountFrame DEF Body
  <2>3. CASE effects[Key(r)] # "complete"
    <3>1. /\ effects' = [effects EXCEPT ![Key(r)] = "pending"]
          /\ pc' = [pc EXCEPT ![r] = "truncate"]
      BY <1>8, <2>3 DEF EnterPublishOnce, Served, Claim
    <3>2. effects[<<SessionOf[q], d>>] = "complete" =>
            effects'[<<SessionOf[q], d>>] = "complete"
      BY <2>3, <3>1 DEF TypeOK
    <3>3. CASE q # r
      BY <1>1, <2>1, <3>1, <3>2, <3>3, CountFrame DEF TypeOK
    <3>4. CASE q = r
      <4>1. pc'[q] = "truncate"
        BY <1>1, <3>1, <3>4 DEF TypeOK
      <4>2. draft[q] = d => sent[<<q, d>>] <= unrecorded[<<q, d>>]
        BY <2>1, <2>3, <3>4 DEF CountInv, Key
      <4> QED
        BY <2>1, <3>2, <3>4, <4>1, <4>2 DEF CountInv
    <3> QED
      BY <3>3, <3>4
  <2> QED
    BY <2>2, <2>3
<1>9. ASSUME NEW r \in Runs, Notify(r) PROVE CountInv(q, d)'
  <2>1. /\ UNCHANGED <<draft, effects, unrecorded>> /\ pc[r] = "notify"
        /\ pc' = [pc EXCEPT ![r] = "complete"]
    BY <1>9 DEF Notify, engineVars, ghostVars
  <2>2. CASE q = r /\ d = draft[r]
    <3>1. sent[<<q, d>>] <= unrecorded[<<q, d>>]
      BY <2>1, <2>2 DEF CountInv
    <3>2. sent'[<<q, d>>] \in {sent[<<q, d>>], sent[<<q, d>>] + 1}
      BY <1>1, <1>9, <2>2 DEF Notify, TypeOK
    <3>3. pc'[q] = "complete"
      BY <1>1, <2>1, <2>2 DEF TypeOK
    <3>4. sent[<<q, d>>] \in Nat /\ unrecorded[<<q, d>>] \in Nat
      BY <1>1 DEF TypeOK
    <3>5. sent'[<<q, d>>] <= 1 + unrecorded[<<q, d>>]
      BY <3>1, <3>2, <3>4
    <3> QED
      BY <2>1, <2>2, <3>3, <3>5 DEF CountInv
  <2>3. CASE ~(q = r /\ d = draft[r])
    <3>1. sent'[<<q, d>>] = sent[<<q, d>>]
      BY <1>1, <1>9, <2>3 DEF Notify, TypeOK
    <3>2. CASE q # r
      BY <1>1, <2>1, <3>1, <3>2, CountFrame DEF TypeOK
    <3>3. CASE q = r
      <4>1. draft[q] # d /\ draft'[q] # d
        BY <2>1, <2>3, <3>3
      <4> QED
        BY <2>1, <3>1, <4>1 DEF CountInv
    <3> QED
      BY <3>2, <3>3
  <2> QED
    BY <2>2, <2>3
<1>10. ASSUME NEW r \in Runs, CompleteEffect(r) PROVE CountInv(q, d)'
  <2>1. /\ UNCHANGED <<draft, sent, unrecorded>> /\ pc[r] = "complete"
        /\ pc' = [pc EXCEPT ![r] = "put"]
        /\ effects' = [effects EXCEPT ![Key(r)] = "complete"]
    BY <1>10 DEF CompleteEffect, engineVars, ghostVars
  <2>2. Key(r) \in Keys /\ <<SessionOf[q], d>> \in Keys
    BY <2>1, Publishing, RunsAssumption DEF Keys
  <2>3. /\ effects'[Key(r)] = "complete"
        /\ effects[<<SessionOf[q], d>>] = "complete" =>
             effects'[<<SessionOf[q], d>>] = "complete"
    BY <1>1, <2>1, <2>2 DEF TypeOK
  <2>4. pc'[r] = "put" /\ (q # r => pc'[q] = pc[q])
    BY <1>1, <2>1 DEF TypeOK
  <2>5. CASE q = r /\ draft[q] = d
    BY <2>1, <2>3, <2>4, <2>5 DEF CountInv, Key
  <2>6. CASE ~(q = r /\ draft[q] = d)
    BY <1>1, <2>1, <2>3, <2>4, <2>6, CountFrame DEF Body
  <2> QED
    BY <2>5, <2>6
<1>11. ASSUME NEW r \in Runs, Crash(r) PROVE CountInv(q, d)'
  <2>1. UNCHANGED <<draft, effects, sent>> /\ pc' = [pc EXCEPT ![r] = "idle"]
    BY <1>11 DEF Crash, engineVars, worldVars
  <2>2. pc'[r] = "idle" /\ (q # r => pc'[q] = pc[q])
    BY <1>1, <2>1 DEF TypeOK
  <2>3. CASE q = r /\ draft[q] = d /\ pc[q] = "complete"
    <3>1. unrecorded'[<<q, d>>] = unrecorded[<<q, d>>] + 1
      BY <1>1, <1>11, <2>3 DEF Crash, TypeOK
    <3>2. sent[<<q, d>>] \in Nat /\ unrecorded[<<q, d>>] \in Nat
      BY <1>1 DEF TypeOK
    <3>3. sent'[<<q, d>>] <= unrecorded'[<<q, d>>]
      BY <2>1, <3>1, <3>2 DEF CountInv
    <3>4. sent'[<<q, d>>] <= 1 + unrecorded'[<<q, d>>]
      BY <2>1, <3>1, <3>2, <3>3
    <3> QED
      BY <3>3, <3>4 DEF CountInv
  <2>4. CASE ~(q = r /\ draft[q] = d /\ pc[q] = "complete")
    <3>1. unrecorded'[<<q, d>>] = unrecorded[<<q, d>>]
      BY <1>1, <1>11, <2>4 DEF Crash, TypeOK
    <3> QED
      BY <1>1, <2>1, <2>2, <2>4, <3>1, CountFrame DEF Body
  <2> QED
    BY <2>3, <2>4
<1> QED
  BY <1>2, <1>3, <1>4, <1>5, <1>6, <1>7, <1>8, <1>9, <1>10, <1>11
  DEF Next, Advance, PublishStep, Approve, Reject

(***************************************************************************)
(* The theorems.                                                            *)
(***************************************************************************)
IInv == Base /\ GateInv /\ \A r \in Runs, d \in Drafts : CountInv(r, d)

LEMMA Inductive == Init => IInv
  BY TypeInit, RunInit, GateInit, CountInit DEF Base, IInv

LEMMA Preserved == IInv /\ [Next]_vars => IInv'
<1> SUFFICES ASSUME IInv, [Next]_vars PROVE IInv'
  OBVIOUS
<1>1. Base'
  BY TypeStep, RunStep DEF IInv, Base
<1>2. GateInv'
  BY StepKinds, GateQuiet, GateEffect DEF IInv
<1>3. \A r \in Runs, d \in Drafts : CountInv(r, d)'
  BY CountStep DEF IInv
<1> QED
  BY <1>1, <1>2, <1>3 DEF IInv

(* The inductive invariant holds in every reachable state of the workflow   *)
(* and its runtime (research_task.nd, runtime.py:236-382).                  *)
THEOREM Invariance == Spec => []IInv
  BY Inductive, Preserved, PTL DEF Spec

(* Every variable of the run, its engine and its stores has its type        *)
(* (research_task.nd, runtime.py).                                          *)
THEOREM Typing == Spec => []TypeOK
<1>1. IInv => TypeOK
  BY DEF IInv, Base
<1> QED
  BY <1>1, Invariance, PTL

(* Nothing is delivered, written or remembered as final without a           *)
(* reviewer's approval of that very draft (research_task.nd:147-159).       *)
THEOREM Gate == Spec => []HumanGate
<1>1. IInv => HumanGate
  BY DEF IInv, GateInv
<1> QED
  BY <1>1, Invariance, PTL

(* A run delivers a draft at most once more than it died between delivering *)
(* it and completing its record (research_task.nd:37-47).                   *)
THEOREM Bound == Spec => []NotifyBound
<1>1. IInv => NotifyBound
  BY DEF IInv, CountInv, NotifyBound
<1> QED
  BY <1>1, Invariance, PTL

(* Neither phase of a rejection executes the body of publish                *)
(* (runtime.py:287-301).                                                    *)
THEOREM Silence == Spec => []RejectionIsSilent
<1>1. IInv => RejectionIsSilent
  BY DEF IInv, Base, RunInv, RejectionIsSilent
<1> QED
  BY <1>1, Invariance, PTL

(* A run recalls only what another session published                        *)
(* (research_task.nd:84-95).                                                *)
THEOREM Prior == Spec => []PriorIsPublished
<1>1. IInv => PriorIsPublished
  BY DEF IInv, GateInv
<1> QED
  BY <1>1, Invariance, PTL

(***************************************************************************)
(* The promise of DraftReview.                                              *)
(***************************************************************************)
LEMMA PromiseInit == Init => Promise!Init
  BY DEF Init, Promise!Init

(* A step that leaves alone what the promise is about is a stutter of it. *)
LEMMA PromiseStutter ==
  ASSUME UNCHANGED <<draft, approvals, file, sent, nodes>>
  PROVE  UNCHANGED Promise!vars
  BY DEF Promise!vars

LEMMA PromiseCall ==
  ASSUME IInv, NEW r \in Runs, NEW kind, NEW p, CallOn(r, kind, p)
  PROVE  [Promise!Next]_(Promise!vars)
<1>1. UNCHANGED <<draft, file, sent, nodes>>
  BY DEF CallOn, Deliver, engineVars, worldVars
<1>2. CASE approvals' = approvals
  BY <1>1, <1>2, PromiseStutter
<1>3. CASE approvals' # approvals
  <2>1. UnderReview(r) /\ approvals' = approvals \cup {<<r, draft[r]>>}
    BY <1>3 DEF CallOn, Deliver
  <2>2. draft[r] \in Drafts
    BY <2>1 DEF UnderReview, IInv, Base, RunInv
  <2>3. Promise!Approve(r)
    BY <1>1, <2>1, <2>2 DEF Promise!Approve
  <2> QED
    BY <2>3 DEF Promise!Next
<1> QED
  BY <1>2, <1>3

LEMMA PromiseStep == IInv /\ [Next]_vars => [Promise!Next]_(Promise!vars)
<1> SUFFICES ASSUME IInv, [Next]_vars PROVE [Promise!Next]_(Promise!vars)
  OBVIOUS
<1>1. Base /\ TypeOK
  BY DEF IInv, Base
<1>2. CASE UNCHANGED vars
  BY <1>2, PromiseStutter DEF vars, engineVars, worldVars, ghostVars
<1>3. ASSUME NEW r \in Runs,
             \/ Start(r) \/ Return(r) \/ DraftThrows(r) \/ Review(r) \/ Recall(r)
             \/ Declined(r) \/ Published(r) \/ WriteThrows(r) \/ Crash(r)
             \/ EnterPublishOnce(r) \/ CompleteEffect(r) \/ TagFinal(r)
      PROVE  UNCHANGED Promise!vars
  <2>1. UNCHANGED <<draft, approvals, file, sent, nodes>>
    BY <1>3 DEF Start, Return, DraftThrows, Review, Recall, Declined,
       Published, EndPublish, WriteThrows, Crash, EnterPublishOnce,
       CompleteEffect, TagFinal, engineVars, worldVars, ghostVars
  <2> QED
    BY <2>1, PromiseStutter
<1>4. ASSUME NEW r \in Runs, NEW s \in Steps, Collect(r, s)
      PROVE  UNCHANGED Promise!vars
  BY <1>4, PromiseStutter DEF Collect, worldVars, ghostVars
<1>5. ASSUME NEW r \in Runs, Rollback(r) PROVE Promise!Show(r)
  <2>1. /\ UNCHANGED <<approvals, file, sent, nodes>>
        /\ draft' = [draft EXCEPT ![r] = NoDraft]
    BY <1>5 DEF Rollback, worldVars, ghostVars
  <2> QED
    BY <2>1 DEF Promise!Show
<1>6. ASSUME NEW r \in Runs, DraftStep(r) PROVE Promise!Show(r)
  <2>1. payload[r].fb \in Feedbacks
    BY <1>1 DEF TypeOK, Payloads
  <2>2. PICK d \in Synthesize[<<r, payload[r].fb, CanonicalJson(rendering[r])>>] :
          /\ draft' = [draft EXCEPT ![r] = d]
          /\ nodes' = [nodes EXCEPT ![<<SessionOf[r], "draft">>] = d]
    BY <1>6 DEF DraftStep
  <2>3. d \in Drafts
    BY <2>1, <2>2, DraftsAssumption DEF CanonicalJson, Renderings
  <2>4. \A s \in Sessions : nodes'[<<s, "final">>] = nodes[<<s, "final">>]
    BY <1>1, <2>2 DEF TypeOK
  <2>5. UNCHANGED [s \in Sessions |-> nodes[<<s, "final">>]]
    BY <2>4
  <2>6. UNCHANGED <<approvals, file, sent>>
    BY <1>6 DEF DraftStep
  <2> QED
    BY <2>2, <2>3, <2>5, <2>6 DEF Promise!Show
<1>7. ASSUME NEW r \in Runs, pc[r] # "idle" PROVE Promise!IsApproved(r)
  BY <1>1, <1>7, Publishing DEF Promise!IsApproved
<1>8. ASSUME NEW r \in Runs, Truncate(r) \/ Write(r) PROVE Promise!WriteOut(r)
  <2>1. /\ pc[r] # "idle" /\ UNCHANGED <<draft, approvals, sent, nodes>>
        /\ \E c \in {Torn, draft[r]} : file' = [file EXCEPT ![SessionOf[r]] = c]
    BY <1>8 DEF Truncate, Write, engineVars, ghostVars
  <2> QED
    BY <1>7, <2>1 DEF Promise!WriteOut
<1>9. ASSUME NEW r \in Runs, Notify(r)
      PROVE  Promise!Deliver(r) \/ UNCHANGED Promise!vars
  <2>1. pc[r] # "idle" /\ UNCHANGED <<draft, approvals, file, nodes>>
    BY <1>9 DEF Notify, engineVars, ghostVars
  <2>2. CASE sent' = [sent EXCEPT ![<<r, draft[r]>>] = @ + 1]
    BY <1>7, <2>1, <2>2 DEF Promise!Deliver
  <2>3. CASE sent' = sent
    BY <2>1, <2>3, PromiseStutter
  <2> QED
    BY <1>9, <2>2, <2>3 DEF Notify
<1>10. ASSUME NEW r \in Runs, PutFinal(r) PROVE Promise!Record(r)
  <2>1. /\ pc[r] # "idle" /\ UNCHANGED <<draft, approvals, file, sent>>
        /\ nodes' = [nodes EXCEPT ![<<SessionOf[r], "final">>] = draft[r]]
    BY <1>10 DEF PutFinal, engineVars, ghostVars
  <2>2. SessionOf[r] \in Sessions
    BY RunsAssumption
  <2>3. \A s \in Sessions : nodes'[<<s, "final">>] =
           IF s = SessionOf[r] THEN draft[r] ELSE nodes[<<s, "final">>]
    BY <1>1, <2>1, <2>2 DEF TypeOK
  <2>4. [s \in Sessions |-> nodes'[<<s, "final">>]] =
        [[s \in Sessions |-> nodes[<<s, "final">>]] EXCEPT ![SessionOf[r]] = draft[r]]
    BY <2>3
  <2> QED
    BY <1>7, <2>1, <2>4 DEF Promise!Record
<1> QED
  BY <1>2, <1>3, <1>4, <1>5, <1>6, <1>8, <1>9, <1>10, PromiseCall
  DEF Next, Advance, PublishStep, Approve, Reject, Promise!Next

(* The workflow, through rejections, replays, throws and crashes, shows the *)
(* outside world only what DraftReview promises (research_task.nd:142-161). *)
THEOREM Implements == Spec => KeepsPromise
  BY PromiseInit, PromiseStep, Invariance, PTL
  DEF Spec, KeepsPromise, Promise!Spec

(***************************************************************************)
(* What a draft was made from, and what a published run has left behind.    *)
(***************************************************************************)

(* The steps of one run. *)
Act(q) ==
    \/ Start(q) \/ Approve(q)
    \/ \E fb \in Feedbacks : Reject(q, fb)
    \/ Advance(q) \/ Crash(q)

(***************************************************************************)
(* A step of a run leaves the other runs alone, and other sessions' files,  *)
(* nodes and records; and nothing is untagged or forgotten.                 *)
(***************************************************************************)
OfRun(r) == <<status[r], done[r], payload[r], draft[r], outcome[r], call[r], pc[r]>>

OfSession(s) ==
    /\ UNCHANGED <<file[s], nodes[<<s, "final">>]>>
    /\ \A d \in Drafts : effects'[<<s, d>>] = effects[<<s, d>>]

LEMMA RunsApart ==
  ASSUME Base, NEW q \in Runs, NEW r \in Runs, q # r, Act(q)
  PROVE  UNCHANGED OfRun(r)
<1> USE DEF OfRun, Base, TypeOK
<1>1. Start(q) \/ Return(q) \/ DraftThrows(q) \/ Review(q) => UNCHANGED OfRun(r)
  BY DEF Start, Return, DraftThrows, Review, engineVars
<1>2. ASSUME NEW kind, NEW p, CallOn(q, kind, p) PROVE UNCHANGED OfRun(r)
  BY <1>2 DEF CallOn, Deliver, engineVars
<1>3. Rollback(q) => UNCHANGED OfRun(r)
  BY DEF Rollback
<1>4. ASSUME NEW s \in Steps, Collect(q, s) PROVE UNCHANGED OfRun(r)
  BY <1>4 DEF Collect, Finish
<1>5. Recall(q) => UNCHANGED OfRun(r)
  BY DEF Recall, Finish
<1>6. ASSUME DraftStep(q) PROVE UNCHANGED OfRun(r)
  BY <1>6 DEF DraftStep, Finish
<1>7. Declined(q) \/ Published(q) \/ WriteThrows(q) => UNCHANGED OfRun(r)
  BY DEF Declined, Published, EndPublish, WriteThrows, Finish
<1>8. EnterPublishOnce(q) => UNCHANGED OfRun(r)
  BY DEF EnterPublishOnce, engineVars
<1>9. Truncate(q) \/ Write(q) \/ Notify(q) \/ CompleteEffect(q) \/ PutFinal(q) \/ TagFinal(q)
         => UNCHANGED OfRun(r)
  BY DEF Truncate, Write, Notify, CompleteEffect, PutFinal, TagFinal, engineVars
<1>10. Crash(q) => UNCHANGED OfRun(r)
  BY DEF Crash, engineVars
<1>. QED  BY <1>1, <1>2, <1>3, <1>4, <1>5, <1>6, <1>7, <1>8, <1>9, <1>10
          DEF Act, Advance, PublishStep, Approve, Reject

LEMMA WorldGrows ==
  ASSUME Base, NEW q \in Runs, Act(q)
  PROVE  /\ tagged \subseteq tagged' /\ drafted \subseteq drafted'
         /\ drafted' # drafted => DraftStep(q)
         /\ \A s \in Sessions \ {SessionOf[q]} : OfSession(s)
<1>1. ASSUME UNCHANGED <<worldVars, drafted>>
      PROVE  tagged' = tagged /\ drafted' = drafted /\ \A s : OfSession(s)
  BY <1>1 DEF worldVars, OfSession
<1>2. Start(q) \/ Return(q) \/ DraftThrows(q) \/ Review(q) \/ Recall(q) \/ Rollback(q)
         => UNCHANGED <<worldVars, drafted>>
  BY DEF Start, Return, DraftThrows, Review, Recall, Rollback, ghostVars
<1>3. ASSUME NEW kind, NEW p, CallOn(q, kind, p) PROVE UNCHANGED <<worldVars, drafted>>
  BY <1>3 DEF CallOn
<1>4. ASSUME NEW s \in Steps, Collect(q, s) PROVE UNCHANGED <<worldVars, drafted>>
  BY <1>4 DEF Collect, ghostVars
<1>5. Declined(q) \/ Published(q) \/ WriteThrows(q) \/ Notify(q) \/ Crash(q)
         => UNCHANGED <<effects, file, nodes, tagged, drafted>>
  BY DEF Declined, Published, WriteThrows, Notify, Crash, worldVars, ghostVars
<1>6. ASSUME UNCHANGED <<effects, file, nodes, tagged, drafted>>
      PROVE  tagged' = tagged /\ drafted' = drafted /\ \A s : OfSession(s)
  BY <1>6 DEF OfSession
<1>7. ASSUME DraftStep(q)
      PROVE  /\ tagged \subseteq tagged' /\ drafted \subseteq drafted'
             /\ \A s \in Sessions \ {SessionOf[q]} : OfSession(s)
  <2>1. PICK d : nodes' = [nodes EXCEPT ![<<SessionOf[q], "draft">>] = d]
    BY <1>7 DEF DraftStep
  <2>2. UNCHANGED <<effects, file>> /\ tagged \subseteq tagged' /\ drafted \subseteq drafted'
    BY <1>7 DEF DraftStep
  <2>. QED  BY <2>1, <2>2 DEF OfSession
<1>8. EnterPublishOnce(q) \/ CompleteEffect(q) =>
         /\ UNCHANGED <<file, nodes, tagged, drafted>>
         /\ effects' = effects \/ \E e : effects' = [effects EXCEPT ![Key(q)] = e]
  BY DEF EnterPublishOnce, CompleteEffect, ghostVars
<1>9. Truncate(q) \/ Write(q) =>
         /\ UNCHANGED <<effects, nodes, tagged, drafted>>
         /\ \E c : file' = [file EXCEPT ![SessionOf[q]] = c]
  BY DEF Truncate, Write, ghostVars
<1>10. PutFinal(q) => /\ UNCHANGED <<effects, file, tagged, drafted>>
                      /\ nodes' = [nodes EXCEPT ![<<SessionOf[q], "final">>] = draft[q]]
  BY DEF PutFinal, ghostVars
<1>11. TagFinal(q) => UNCHANGED <<effects, file, nodes, drafted>> /\ tagged \subseteq tagged'
  BY DEF TagFinal, ghostVars
<1>12. EnterPublishOnce(q) \/ CompleteEffect(q) \/ Truncate(q) \/ Write(q) \/ PutFinal(q) \/ TagFinal(q)
          => \A s \in Sessions \ {SessionOf[q]} : OfSession(s)
  <2> SUFFICES ASSUME NEW s \in Sessions \ {SessionOf[q]},
                      EnterPublishOnce(q) \/ CompleteEffect(q) \/ Truncate(q) \/ Write(q)
                         \/ PutFinal(q) \/ TagFinal(q)
               PROVE  OfSession(s)
    OBVIOUS
  <2>1. file'[s] = file[s]
    BY <1>8, <1>9, <1>10, <1>11 DEF Base, TypeOK
  <2>2. nodes'[<<s, "final">>] = nodes[<<s, "final">>]
    BY <1>8, <1>9, <1>10, <1>11 DEF Base, TypeOK
  <2>3. ASSUME NEW d \in Drafts PROVE effects'[<<s, d>>] = effects[<<s, d>>]
    <3>1. <<s, d>> \in Keys /\ <<s, d>> # Key(q)
      BY DEF Keys, Key
    <3>. QED  BY <1>8, <1>9, <1>10, <1>11, <3>1 DEF Base, TypeOK
  <2>. QED  BY <2>1, <2>2, <2>3 DEF OfSession
<1>. QED  BY <1>1, <1>2, <1>3, <1>4, <1>5, <1>6, <1>7, <1>8, <1>9, <1>10, <1>11, <1>12
          DEF Act, Advance, PublishStep, Approve, Reject

(***************************************************************************)
(* What a draft was made from.  The replay of a rejection keeps its         *)
(* feedback as the payload, until the next call.                            *)
(***************************************************************************)
FeedbackInv(r) ==
    call[r].kind = "replay" =>
        /\ payload[r].fb = call[r].fb
        /\ "draft_step" \in done[r] => <<r, call[r].fb, draft[r]>> \in drafted

Synthesised == \A x \in drafted : x[3] \in Synthesize[<<x[1], x[2], "sorted">>]

OriginInv == (\A r \in Runs : FeedbackInv(r)) /\ Synthesised

LEMMA FeedbackStep ==
  ASSUME Base, NEW r \in Runs, Act(r), FeedbackInv(r)
  PROVE  FeedbackInv(r)'
<1>0. TypeOK /\ RunInv(r) /\ drafted \subseteq drafted'
  BY WorldGrows DEF Base
<1>1. ASSUME NEW kind \in {"start", "resume", "reject"}, NEW fb,
             call' = [call EXCEPT ![r] = [kind |-> kind, fb |-> fb]]
      PROVE  FeedbackInv(r)'
  BY <1>0, <1>1 DEF TypeOK, FeedbackInv
<1>2. ASSUME call' = [call EXCEPT ![r] = Idle] PROVE FeedbackInv(r)'
  BY <1>0, <1>2 DEF TypeOK, FeedbackInv, Idle
<1>3. Start(r) \/ Approve(r) => FeedbackInv(r)'
  BY <1>1 DEF Start, Approve, CallOn
<1>4. ASSUME NEW fb \in Feedbacks, Reject(r, fb) PROVE FeedbackInv(r)'
  BY <1>1, <1>4 DEF Reject, CallOn
<1>5. ASSUME Rollback(r) PROVE FeedbackInv(r)'
  <2>1. /\ payload'[r] = Replay(call[r].fb) /\ call'[r] = [kind |-> "replay", fb |-> call[r].fb]
        /\ done'[r] = done[r] \ Rewound
    BY <1>0, <1>5 DEF TypeOK, Rollback
  <2>2. payload'[r].fb = call[r].fb /\ call'[r].fb = call[r].fb /\ "draft_step" \notin done'[r]
    BY <2>1 DEF Replay, Rewound
  <2>. QED  BY <2>2 DEF FeedbackInv
<1>6. Return(r) \/ Crash(r) => FeedbackInv(r)'
  BY <1>2 DEF Return, Crash
<1>7. ASSUME UNCHANGED <<payload[r], call[r], draft[r]>>,
             "draft_step" \in done'[r] => "draft_step" \in done[r]
      PROVE  FeedbackInv(r)'
  BY <1>0, <1>7 DEF FeedbackInv
<1>8. ASSUME NEW s \in Steps, Collect(r, s) PROVE FeedbackInv(r)'
  BY <1>0, <1>7, <1>8 DEF TypeOK, Collect, Finish, Gathers
<1>9. Recall(r) \/ DraftThrows(r) \/ Review(r) => FeedbackInv(r)'
  BY <1>0, <1>7 DEF TypeOK, Recall, Finish, DraftThrows, Review
<1>10. ASSUME DraftStep(r) PROVE FeedbackInv(r)'
  <2>1. PICK d \in Drafts : /\ draft' = [draft EXCEPT ![r] = d]
                            /\ drafted' = drafted \cup {<<r, payload[r].fb, d>>}
    BY <1>0, <1>10, DraftsAssumption DEF DraftStep, TypeOK, Payloads, CanonicalJson, Renderings
  <2>2. UNCHANGED <<payload, call>>
    BY <1>10 DEF DraftStep
  <2>. QED  BY <1>0, <2>1, <2>2 DEF TypeOK, FeedbackInv
<1>11. ASSUME PublishStep(r) PROVE FeedbackInv(r)'
  <2>1. UNCHANGED <<payload, call, draft>>
    BY <1>11 DEF PublishStep, Declined, EnterPublishOnce, Truncate, Write, WriteThrows, Notify,
       CompleteEffect, PutFinal, TagFinal, Published, EndPublish, engineVars
  <2>2. done' = done \/ done' = [done EXCEPT ![r] = @ \cup {"publish"}]
    BY <1>11 DEF PublishStep, Declined, EnterPublishOnce, Truncate, Write, WriteThrows, Notify,
       CompleteEffect, PutFinal, TagFinal, Published, EndPublish, engineVars, Finish
  <2>. QED  BY <1>0, <1>7, <2>1, <2>2 DEF TypeOK
<1>. QED  BY <1>3, <1>4, <1>5, <1>6, <1>8, <1>9, <1>10, <1>11 DEF Act, Advance

LEMMA OriginStep == Base /\ OriginInv /\ [Next]_vars => OriginInv'
<1> SUFFICES ASSUME Base, OriginInv, [Next]_vars PROVE OriginInv'
  OBVIOUS
<1>1. CASE UNCHANGED vars
  BY <1>1 DEF vars, engineVars, ghostVars, OriginInv, FeedbackInv, Synthesised
<1>2. ASSUME NEW q \in Runs, Act(q) PROVE OriginInv'
  <2>1. ASSUME NEW r \in Runs PROVE FeedbackInv(r)'
    <3>1. CASE q = r
      BY <1>2, <2>1, <3>1, FeedbackStep DEF OriginInv
    <3>2. CASE q # r
      BY <1>2, <2>1, <3>2, RunsApart, WorldGrows DEF OriginInv, FeedbackInv, OfRun
    <3>. QED  BY <3>1, <3>2
  <2>2. Synthesised'
    <3>1. CASE drafted' = drafted
      BY <3>1 DEF OriginInv, Synthesised
    <3>2. CASE DraftStep(q)
      <4>1. PICK d \in Synthesize[<<q, payload[q].fb, "sorted">>] :
                drafted' = drafted \cup {<<q, payload[q].fb, d>>}
        BY <3>2 DEF DraftStep, CanonicalJson
      <4>2. ASSUME NEW x \in drafted' PROVE x[3] \in Synthesize[<<x[1], x[2], "sorted">>]
        <5>1. CASE x \in drafted
          BY <5>1 DEF OriginInv, Synthesised
        <5>2. CASE x = <<q, payload[q].fb, d>>
          BY <5>2
        <5>. QED  BY <4>1, <4>2, <5>1, <5>2
      <4>. QED  BY <4>2 DEF Synthesised
    <3>. QED  BY <1>2, <3>1, <3>2, WorldGrows
  <2>. QED  BY <2>1, <2>2 DEF OriginInv
<1>. QED  BY <1>1, <1>2 DEF Next, Act

LEMMA OriginInvariance == Spec => []OriginInv
<1>1. Init => OriginInv
  BY DEF Init, Idle, OriginInv, FeedbackInv, Synthesised
<1>2. IInv => Base
  BY DEF IInv
<1>. QED  BY <1>1, <1>2, OriginStep, Invariance, PTL DEF Spec

(* The feedback of a rejection has gone into the draft that is shown next.  *)
THEOREM Feedback == Spec => []FeedbackReachesDraft
<1>1. IInv /\ OriginInv => FeedbackReachesDraft
  BY DEF IInv, Base, RunInv, OriginInv, FeedbackInv, FeedbackReachesDraft
<1>. QED  BY <1>1, OriginInvariance, Invariance, PTL

(* A function of its input, synthesize answers the same feedback with the   *)
(* same draft, in whatever process it is asked.                             *)
THEOREM Replays == Spec => []ReplayRegeneratesDraft
<1>1. IInv /\ OriginInv => ReplayRegeneratesDraft
  <2> SUFFICES ASSUME IInv, OriginInv, Deterministic, NEW x \in drafted, NEW y \in drafted,
                      x[1] = y[1], x[2] = y[2]
               PROVE  x[3] = y[3]
    BY DEF ReplayRegeneratesDraft
  <2>1. <<x[1], x[2], "sorted">> \in DOMAIN Synthesize
    BY DraftsAssumption DEF IInv, Base, TypeOK, Renderings
  <2>. QED  BY <2>1 DEF OriginInv, Synthesised, Deterministic
<1>. QED  BY <1>1, OriginInvariance, Invariance, PTL

(***************************************************************************)
(* What a published run leaves behind, as long as it is the only one of its *)
(* session: how far publish has come says what file, record and node hold.  *)
(***************************************************************************)
Recorded(r) ==
    /\ effects[Key(r)] = "complete"
    /\ nodes[<<SessionOf[r], "final">>] = draft[r]
    /\ <<SessionOf[r], "final">> \in tagged

SomePending(s) == \E d \in Drafts : effects[<<s, d>>] = "pending"

(* What a session's final.md says of the session's effect records.          *)
FileOwned(s) ==
    /\ file[s] = NoDraft => \A d \in Drafts : effects[<<s, d>>] # "complete"
    /\ file[s] = Torn => SomePending(s)
    /\ file[s] \in Drafts => effects[<<s, file[s]>>] # "absent"

Ledger(r) ==
    /\ pc[r] \in {"truncate", "write", "notify", "complete"} => effects[Key(r)] = "pending"
    /\ pc[r] \in {"notify", "complete"} => file[SessionOf[r]] \in Drafts
    /\ pc[r] \in {"put", "tag", "return"} => effects[Key(r)] = "complete"
    /\ pc[r] \in {"tag", "return"} => nodes[<<SessionOf[r], "final">>] = draft[r]
    /\ pc[r] = "return" => <<SessionOf[r], "final">> \in tagged
    /\ FileOwned(SessionOf[r])
    /\ outcome[r] = "published" => status[r] = "completed" /\ draft[r] \in Drafts /\ Recorded(r)

LedgerInv == \A r \in Runs : Sole(r) => Ledger(r)

(* A step that leaves publish and what it reads alone. *)
LEMMA LedgerFrame ==
  ASSUME Base, NEW r \in Runs, Ledger(r), OfSession(SessionOf[r]), tagged \subseteq tagged',
         UNCHANGED <<pc[r], draft[r], outcome[r], status[r]>>
  PROVE  Ledger(r)'
<1>1. pc[r] # "idle" \/ outcome[r] = "published" => Key(r) \in Keys
  BY Publishing, RunsAssumption DEF Ledger, Key, Keys
<1>2. Key(r)' = Key(r) /\ (Key(r) \in Keys => effects'[Key(r)] = effects[Key(r)])
  BY DEF Key, Keys, OfSession
<1>3. FileOwned(SessionOf[r]) => FileOwned(SessionOf[r])'
  BY DEF FileOwned, SomePending, OfSession
<1>. QED  BY <1>1, <1>2, <1>3 DEF Ledger, Recorded, OfSession

(* A step outside of publish that leaves the world alone, but for drafts.   *)
LEMMA LedgerIdle ==
  ASSUME Base, NEW r \in Runs, Ledger(r), OfSession(SessionOf[r]), tagged \subseteq tagged',
         pc'[r] = "idle",
         outcome'[r] = "published" =>
            outcome[r] = "published" /\ status'[r] = status[r] /\ draft'[r] = draft[r]
  PROVE  Ledger(r)'
<1>1. outcome'[r] = "published" => Key(r) \in Keys /\ Key(r)' = Key(r)
  BY RunsAssumption DEF Ledger, Key, Keys
<1>2. Key(r) \in Keys => effects'[Key(r)] = effects[Key(r)]
  BY DEF Key, Keys, OfSession
<1>3. FileOwned(SessionOf[r]) => FileOwned(SessionOf[r])'
  BY DEF FileOwned, SomePending, OfSession
<1>. QED  BY <1>1, <1>2, <1>3 DEF Ledger, Recorded, OfSession

LEMMA LedgerStep ==
  ASSUME Base, NEW r \in Runs, Act(r), Ledger(r)
  PROVE  Ledger(r)'
<1>0. /\ TypeOK /\ RunInv(r) /\ SessionOf[r] \in Sessions /\ tagged \subseteq tagged'
      /\ outcome[r] = "published" => status[r] = "completed"
  BY WorldGrows, RunsAssumption DEF Base, Ledger
<1>1. UNCHANGED worldVars => OfSession(SessionOf[r])
  BY DEF worldVars, OfSession
<1>2. ASSUME NEW s \in Steps, Collect(r, s) PROVE Ledger(r)'
  BY <1>0, <1>1, <1>2, LedgerFrame DEF Collect
<1>3. ASSUME Recall(r) PROVE Ledger(r)'
  BY <1>0, <1>1, <1>3, LedgerFrame DEF Recall
<1>4. ASSUME Start(r) PROVE Ledger(r)'
  BY <1>0, <1>1, <1>4, LedgerIdle DEF Start, RunInv
<1>5. ASSUME NEW kind, NEW p, CallOn(r, kind, p) PROVE Ledger(r)'
  <2>1. pc'[r] = "idle" /\ UNCHANGED <<worldVars, draft, outcome>>
    BY <1>0, <1>5 DEF CallOn, Deliver, RunInv, engineVars
  <2>2. status[r] = "completed" => status' = status
    BY <1>5 DEF CallOn, Deliver, engineVars
  <2>. QED  BY <1>0, <1>1, <2>1, <2>2, LedgerIdle
<1>6. ASSUME Rollback(r) PROVE Ledger(r)'
  <2>1. pc'[r] = "idle" /\ UNCHANGED worldVars /\ outcome'[r] = "none"
    BY <1>0, <1>6 DEF TypeOK, Rollback, RunInv
  <2>. QED  BY <1>0, <1>1, <2>1, LedgerIdle
<1>7. ASSUME Return(r) PROVE Ledger(r)'
  BY <1>0, <1>1, <1>7, LedgerFrame DEF Return, engineVars
<1>8. ASSUME DraftThrows(r) \/ Review(r) PROVE Ledger(r)'
  <2>1. pc'[r] = "idle" /\ UNCHANGED <<worldVars, outcome>> /\ status[r] = "running"
    <3>1. pc[r] = "idle"
      BY <1>0, <1>8 DEF DraftThrows, Review, Ready, RunInv
    <3>. QED  BY <1>8, <3>1 DEF DraftThrows, Review, Ready
  <2>. QED  BY <1>0, <1>1, <2>1, LedgerIdle
<1>9. ASSUME DraftStep(r) PROVE Ledger(r)'
  <2>1. pc'[r] = "idle" /\ UNCHANGED <<effects, file, outcome>> /\ status[r] = "running"
    BY <1>0, <1>9 DEF DraftStep, Ready, RunInv
  <2>2. PICK d : nodes' = [nodes EXCEPT ![<<SessionOf[r], "draft">>] = d]
    BY <1>9 DEF DraftStep
  <2>3. OfSession(SessionOf[r])
    BY <2>1, <2>2 DEF OfSession
  <2>. QED  BY <1>0, <2>1, <2>3, LedgerIdle
<1>10. ASSUME Declined(r) \/ WriteThrows(r) \/ Crash(r) PROVE Ledger(r)'
  <2>1. pc'[r] = "idle" /\ UNCHANGED <<worldVars, draft>>
    BY <1>0, <1>10 DEF TypeOK, Declined, EndPublish, WriteThrows, Crash, engineVars
  <2>2. outcome'[r] = "published" => outcome[r] = "published" /\ status'[r] = status[r]
    BY <1>0, <1>10 DEF TypeOK, Declined, EndPublish, WriteThrows, Crash, engineVars, RunInv
  <2>. QED  BY <1>0, <1>1, <2>1, <2>2, LedgerIdle
(* The body of publish. *)
<1>11. ASSUME pc[r] # "idle" \/ (Ready(r, "publish") /\ Approved(payload[r]))
       PROVE  /\ draft[r] \in Drafts /\ Key(r) \in Keys /\ outcome[r] # "published"
              /\ <<SessionOf[r], "final">> \in Sessions \X {"draft", "final"}
  <2>1. draft[r] \in Drafts
    BY <1>0, <1>11 DEF RunInv, Ready, After
  <2>2. status[r] = "running"
    BY <1>0, <1>11 DEF RunInv, Ready
  <2>. QED  BY <1>0, <2>1, <2>2 DEF Key, Keys
<1>12. ASSUME EnterPublishOnce(r) PROVE Ledger(r)'
  <2>1. /\ UNCHANGED <<draft, outcome, file, nodes, tagged>> /\ pc[r] = "idle"
        /\ draft[r] \in Drafts /\ Key(r) \in Keys /\ outcome[r] # "published"
    BY <1>11, <1>12 DEF EnterPublishOnce, engineVars
  <2>2. CASE effects[Key(r)] = "complete"
    <3>1. effects' = effects /\ pc'[r] = "put"
      BY <1>0, <1>12, <2>2 DEF TypeOK, EnterPublishOnce, Served
    <3>2. FileOwned(SessionOf[r])'
      BY <2>1, <3>1 DEF Ledger, FileOwned, SomePending
    <3>. QED  BY <2>1, <2>2, <3>1, <3>2 DEF Ledger, Key
  <2>3. CASE effects[Key(r)] # "complete"
    <3>1. effects' = [effects EXCEPT ![Key(r)] = "pending"] /\ pc'[r] = "truncate"
      BY <1>0, <1>12, <2>3 DEF TypeOK, EnterPublishOnce, Served, Claim
    <3>2. effects'[Key(r)] = "pending" /\ Key(r)' = Key(r)
      BY <1>0, <2>1, <3>1 DEF TypeOK, Key
    <3>3. FileOwned(SessionOf[r])'
      <4>1. SomePending(SessionOf[r])'
        BY <2>1, <3>2 DEF SomePending, Key
      <4>2. ASSUME NEW d \in Drafts
            PROVE  effects'[<<SessionOf[r], d>>] = effects[<<SessionOf[r], d>>]
                   \/ effects'[<<SessionOf[r], d>>] = "pending"
        BY <1>0, <3>1 DEF TypeOK, Keys
      <4>. QED  BY <2>1, <4>1, <4>2 DEF Ledger, FileOwned
    <3>. QED  BY <2>1, <3>1, <3>2, <3>3 DEF Ledger
  <2>. QED  BY <2>2, <2>3
<1>13. ASSUME Truncate(r) PROVE Ledger(r)'
  <2>1. /\ UNCHANGED <<draft, outcome, effects, nodes, tagged>>
        /\ pc[r] = "truncate" /\ pc'[r] = "write"
    BY <1>0, <1>13 DEF TypeOK, Truncate, engineVars
  <2>2. draft[r] \in Drafts /\ outcome[r] # "published" /\ effects[Key(r)] = "pending"
    BY <1>11, <2>1 DEF Ledger
  <2>3. Key(r)' = Key(r) /\ SomePending(SessionOf[r])'
    BY <2>1, <2>2 DEF Key, SomePending
  <2>4. file'[SessionOf[r]] = Torn
    BY <1>0, <1>13 DEF TypeOK, Truncate
  <2>5. FileOwned(SessionOf[r])'
    BY <2>3, <2>4, DraftsAssumption DEF FileOwned
  <2>. QED  BY <2>1, <2>2, <2>3, <2>5 DEF Ledger
<1>14. ASSUME Write(r) PROVE Ledger(r)'
  <2>1. /\ UNCHANGED <<draft, outcome, effects, nodes, tagged>>
        /\ pc[r] = "write" /\ pc'[r] = "notify" /\ file'[SessionOf[r]] = draft[r]
    BY <1>0, <1>14 DEF TypeOK, Write, engineVars
  <2>2. draft[r] \in Drafts /\ outcome[r] # "published" /\ effects[Key(r)] = "pending"
    BY <1>11, <2>1 DEF Ledger
  <2>3. Key(r)' = Key(r) /\ FileOwned(SessionOf[r])'
    BY <2>1, <2>2, DraftsAssumption DEF Key, FileOwned
  <2>. QED  BY <2>1, <2>2, <2>3 DEF Ledger
<1>15. ASSUME Notify(r) PROVE Ledger(r)'
  <2>1. /\ UNCHANGED <<draft, outcome, effects, file, nodes, tagged>>
        /\ pc[r] = "notify" /\ pc'[r] = "complete"
    BY <1>0, <1>15 DEF TypeOK, Notify, engineVars
  <2>2. outcome[r] # "published" /\ Key(r)' = Key(r)
    BY <1>11, <2>1 DEF Key
  <2>3. FileOwned(SessionOf[r])'
    BY <2>1 DEF Ledger, FileOwned, SomePending
  <2>. QED  BY <2>1, <2>2, <2>3 DEF Ledger
<1>16. ASSUME CompleteEffect(r) PROVE Ledger(r)'
  <2>1. /\ UNCHANGED <<draft, outcome, file, nodes, tagged>>
        /\ pc[r] = "complete" /\ pc'[r] = "put"
        /\ effects' = [effects EXCEPT ![Key(r)] = "complete"]
    BY <1>0, <1>16 DEF TypeOK, CompleteEffect, engineVars
  <2>2. outcome[r] # "published" /\ Key(r)' = Key(r) /\ effects'[Key(r)] = "complete"
    BY <1>0, <1>11, <2>1 DEF TypeOK, Key
  <2>3. file'[SessionOf[r]] = file[SessionOf[r]] /\ file[SessionOf[r]] \in Drafts
    BY <2>1 DEF Ledger
  <2>4. ASSUME NEW d \in Drafts
        PROVE  effects'[<<SessionOf[r], d>>] = effects[<<SessionOf[r], d>>]
               \/ effects'[<<SessionOf[r], d>>] = "complete"
    BY <1>0, <2>1 DEF TypeOK, Keys
  <2>5. FileOwned(SessionOf[r])'
    BY <2>3, <2>4, DraftsAssumption DEF Ledger, FileOwned
  <2>. QED  BY <2>1, <2>2, <2>5 DEF Ledger
<1>17. ASSUME PutFinal(r) PROVE Ledger(r)'
  <2>1. /\ UNCHANGED <<draft, outcome, effects, file, tagged>>
        /\ pc[r] = "put" /\ pc'[r] = "tag"
        /\ nodes' = [nodes EXCEPT ![<<SessionOf[r], "final">>] = draft[r]]
    BY <1>0, <1>17 DEF TypeOK, PutFinal, engineVars
  <2>2. /\ outcome[r] # "published" /\ Key(r)' = Key(r)
        /\ nodes'[<<SessionOf[r], "final">>] = draft[r]
    BY <1>0, <1>11, <2>1 DEF TypeOK, Key
  <2>3. FileOwned(SessionOf[r])'
    BY <2>1 DEF Ledger, FileOwned, SomePending
  <2>. QED  BY <2>1, <2>2, <2>3 DEF Ledger
<1>18. ASSUME TagFinal(r) PROVE Ledger(r)'
  <2>1. /\ UNCHANGED <<draft, outcome, effects, file, nodes>>
        /\ pc[r] = "tag" /\ pc'[r] = "return" /\ <<SessionOf[r], "final">> \in tagged'
    BY <1>0, <1>18 DEF TypeOK, TagFinal, engineVars
  <2>2. outcome[r] # "published" /\ Key(r)' = Key(r)
    BY <1>11, <2>1 DEF Key
  <2>3. FileOwned(SessionOf[r])'
    BY <2>1 DEF Ledger, FileOwned, SomePending
  <2>. QED  BY <2>1, <2>2, <2>3 DEF Ledger
<1>19. ASSUME Published(r) PROVE Ledger(r)'
  <2>1. /\ UNCHANGED <<draft, effects, file, nodes, tagged>>
        /\ pc[r] = "return" /\ pc'[r] = "idle" /\ status'[r] = "completed"
    BY <1>0, <1>19 DEF TypeOK, Published, EndPublish, worldVars
  <2>2. draft[r] \in Drafts /\ Key(r)' = Key(r) /\ Recorded(r)
    BY <1>11, <2>1 DEF Ledger, Recorded, Key
  <2>3. FileOwned(SessionOf[r])'
    BY <2>1 DEF Ledger, FileOwned, SomePending
  <2>. QED  BY <2>1, <2>2, <2>3 DEF Ledger, Recorded
<1>. QED  BY <1>2, <1>3, <1>4, <1>5, <1>6, <1>7, <1>8, <1>9, <1>10, <1>12, <1>13, <1>14, <1>15,
             <1>16, <1>17, <1>18, <1>19 DEF Act, Advance, PublishStep, Approve, Reject

(* Who starts a run of a session is no longer alone in it, or was not; and  *)
(* a death leaves the files, nodes and records of every session alone.      *)
LEMMA StillSole ==
  ASSUME Base, NEW q \in Runs, Act(q), NEW r \in Runs, Sole(r)'
  PROVE  Sole(r) /\ (q = r \/ SessionOf[q] # SessionOf[r] \/ Crash(q))
<1>1. ~Crash(q) => status'[q] # "none"
  <2>1. Start(q) => status'[q] # "none"
    BY DEF Base, TypeOK, Start
  <2>2. ASSUME NEW kind, NEW p, CallOn(q, kind, p) PROVE status'[q] # "none"
    BY <2>2 DEF Base, TypeOK, CallOn, Deliver, engineVars
  <2>3. Rollback(q) \/ DraftThrows(q) \/ Review(q) \/ Declined(q) \/ Published(q) \/ WriteThrows(q)
           => status'[q] # "none"
    BY DEF Base, TypeOK, Rollback, DraftThrows, Review, Declined, Published, EndPublish, WriteThrows
  <2>4. ASSUME \/ Return(q) \/ (\E s \in Steps : Collect(q, s)) \/ Recall(q) \/ DraftStep(q)
               \/ EnterPublishOnce(q)
        PROVE  status'[q] # "none"
    BY <2>4 DEF Return, Collect, Recall, DraftStep, EnterPublishOnce, Ready, engineVars
  <2>5. ASSUME \/ Truncate(q) \/ Write(q) \/ Notify(q) \/ CompleteEffect(q) \/ PutFinal(q) \/ TagFinal(q)
        PROVE  status'[q] # "none"
    <3>1. pc[q] # "idle" /\ status' = status
      BY <2>5 DEF Truncate, Write, Notify, CompleteEffect, PutFinal, TagFinal, engineVars
    <3>. QED  BY <3>1 DEF Base, RunInv
  <2>. QED  BY <2>1, <2>2, <2>3, <2>4, <2>5 DEF Act, Advance, PublishStep, Approve, Reject
<1>2. \A p \in Runs \ {q} : status'[p] = status[p]
  BY RunsApart DEF OfRun
<1>3. Crash(q) => status' = status
  BY DEF Crash, engineVars
<1>. QED  BY <1>1, <1>2, <1>3 DEF Sole

LEMMA LedgerInvariance == Spec => []LedgerInv
<1>1. Init => LedgerInv
  BY RunsAssumption, DraftsAssumption DEF Init, LedgerInv, Ledger, FileOwned, Keys
<1>2. ASSUME Base, LedgerInv, [Next]_vars PROVE LedgerInv'
  <2>1. SUFFICES ASSUME NEW r \in Runs, Sole(r)' PROVE Ledger(r)'
    BY DEF LedgerInv
  <2>2. CASE UNCHANGED vars
    <3>1. /\ Sole(r) /\ OfSession(SessionOf[r]) /\ tagged \subseteq tagged'
          /\ UNCHANGED <<pc[r], draft[r], outcome[r], status[r]>>
      BY <2>1, <2>2 DEF vars, engineVars, worldVars, OfSession, Sole
    <3>. QED  BY <1>2, <3>1, LedgerFrame DEF LedgerInv
  <2>3. ASSUME NEW q \in Runs, Act(q) PROVE Ledger(r)'
    <3>1. Ledger(r) /\ (q = r \/ SessionOf[q] # SessionOf[r] \/ Crash(q))
      BY <1>2, <2>1, <2>3, StillSole DEF LedgerInv
    <3>2. CASE q = r
      BY <1>2, <2>3, <3>1, <3>2, LedgerStep
    <3>3. CASE q # r
      <4>1. UNCHANGED <<pc[r], draft[r], outcome[r], status[r]>>
        BY <1>2, <2>3, <3>3, RunsApart DEF OfRun
      <4>2. /\ tagged \subseteq tagged'
            /\ SessionOf[q] # SessionOf[r] => OfSession(SessionOf[r])
        BY <1>2, <2>3, RunsAssumption, WorldGrows
      <4>3. Crash(q) => OfSession(SessionOf[r])
        BY DEF Crash, worldVars, OfSession
      <4>. QED  BY <1>2, <3>1, <3>3, <4>1, <4>2, <4>3, LedgerFrame
    <3>. QED  BY <3>2, <3>3
  <2>. QED  BY <1>2, <2>2, <2>3 DEF Next, Act
<1>. QED  BY <1>1, <1>2, Invariance, PTL DEF Spec, IInv

(* A run that says it published has a complete effect record and a tagged   *)
(* final node for the draft it shows, wherever it died before that          *)
(* (publish_once and the end of publish, research_task.nd:110-160).         *)
THEOREM RecordIsKept == Spec => []PublishedIsRecorded
<1>1. ASSUME LedgerInv PROVE PublishedIsRecorded
  BY <1>1 DEF LedgerInv, Ledger, Recorded, PublishedIsRecorded
<1>. QED  BY <1>1, LedgerInvariance, PTL

(* A run that says it published has its draft whole in final.md, or the     *)
(* publication of another draft took the file (research.write_file inside   *)
(* publish_once).                                                           *)
THEOREM FileIsWhole == Spec => []PublishedFileIsWhole
<1>1. ASSUME Base, LedgerInv, NEW r \in Runs, outcome[r] = "published", Sole(r)
      PROVE  \/ file[SessionOf[r]] \in {draft[r]} \cup Others(r)
             \/ /\ file[SessionOf[r]] = Torn
                /\ \E d \in Others(r) : effects[<<SessionOf[r], d>>] = "pending"
  <2>1. /\ draft[r] \in Drafts /\ effects[<<SessionOf[r], draft[r]>>] = "complete"
        /\ FileOwned(SessionOf[r])
    BY <1>1 DEF LedgerInv, Ledger, Recorded, Key
  <2>2. file[SessionOf[r]] \in Drafts \cup {NoDraft, Torn}
    BY <1>1, RunsAssumption DEF Base, TypeOK
  <2>3. CASE file[SessionOf[r]] \in Drafts
    BY <2>1, <2>3 DEF FileOwned, Others
  <2>4. CASE file[SessionOf[r]] = Torn
    BY <2>1, <2>4 DEF FileOwned, SomePending, Others
  <2>. QED  BY <2>1, <2>2, <2>3, <2>4 DEF FileOwned
<1>2. IInv /\ LedgerInv => PublishedFileIsWhole
  BY <1>1 DEF IInv, PublishedFileIsWhole
<1>. QED  BY <1>2, LedgerInvariance, Invariance, PTL
=============================================================================

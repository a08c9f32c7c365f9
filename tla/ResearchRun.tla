----------------------------- MODULE ResearchRun -----------------------------
(***************************************************************************)
(* The research workflow (workflows/research_task.nd) as ResearchRuntime    *)
(* (src/runtime.py) drives it: start, resume with an approval, rejection in *)
(* two phases, and resumption after the process that ran it has died.       *)
(*                                                                          *)
(* The Nodus engine, its run store and its effect store are libraries; they *)
(* are modelled from how the code uses them: a run's finished steps, its    *)
(* `draft' state and the last resume payload are persisted, a step that was *)
(* not finished is executed again, and a @exactly_once function leaves a    *)
(* record that is pending while it executes and complete once it returned.  *)
(* At most one call on a run is in progress at a time.                      *)
(*                                                                          *)
(* A definition that stands, without a comment of its own, right before the *)
(* definition it alters (RewoundAlone before Rewound) is a plausible bug:   *)
(* the checks that every property can fail put it in that place.  Nothing   *)
(* in the specification uses it.                                            *)
(***************************************************************************)
EXTENDS Naturals, FiniteSets

CONSTANTS Runs,         \* workflow runs
          Sessions,     \* session ids, which name the file and memory nodes
          SessionOf,    \* the session a run is started for
          Related,      \* pairs of sessions whose questions share a topic tag
          Drafts,       \* texts synthesize can return
          NoDraft,      \* nil: no draft, no file, no memory node
          Torn,         \* a file truncated but not written
          Feedbacks,    \* reviewers' feedback, with the empty string
          NoFeedback,   \* the empty string, feedback of a first draft
          Synthesize,   \* drafts for a run, a feedback and a JSON rendering
          RecallLimit,  \* the limit the recall step asks for
          MaxCalls,     \* bound: resume and reject calls over all runs
          MaxCrashes,   \* bound: deaths of a process serving a call
          MaxThrows     \* bound: steps that throw on a tool's error

Renderings == {"insertion", "sorted"}

ASSUME RunsAssumption ==
    /\ SessionOf \in [Runs -> Sessions]
    /\ Related \subseteq Sessions \X Sessions
ASSUME DraftsAssumption ==
    /\ NoDraft \notin Drafts /\ Torn \notin Drafts /\ NoDraft # Torn
    /\ NoFeedback \in Feedbacks
    /\ Synthesize \in [Runs \X Feedbacks \X Renderings -> SUBSET Drafts]
ASSUME BoundsAssumption ==
    /\ RecallLimit \in Nat
    /\ MaxCalls \in Nat /\ MaxCrashes \in Nat /\ MaxThrows \in Nat

(***************************************************************************)
(* The steps of the workflow and the `after' clauses between them.          *)
(***************************************************************************)
Gathers == {"gather_web", "gather_code", "gather_data"}
Steps   == Gathers \cup
           {"init", "recall", "analyze", "draft_step", "review", "publish"}

After(s) ==
    CASE s = "init"       -> {}
      [] s \in Gathers    -> {"init"}
      [] s = "recall"     -> {"init"}
      [] s = "analyze"    -> Gathers \cup {"recall"}
      [] s = "draft_step" -> {"analyze", "recall"}
      [] s = "review"     -> {"draft_step"}
      [] s = "publish"    -> {"review"}

(* What a rollback to "before_draft" makes pending again. *)
RewoundAlone == {"draft_step"}
Rewound == {"draft_step", "review", "publish"}

(* The resume payload: nil, {"approved": true}, {"approved": false,         *)
(* "feedback": fb} or {"feedback": fb}.                                     *)
Payloads == [kind : {"nil", "approve", "reject", "replay"}, fb : Feedbacks]
Nil      == [kind |-> "nil", fb |-> NoFeedback]
Approval == [kind |-> "approve", fb |-> NoFeedback]
RejectionByApproval(fb) == [kind |-> "approve", fb |-> fb]
Rejection(fb) == [kind |-> "reject", fb |-> fb]
ReplayDroppingPayload(fb) == Nil
ReplayOfApproval(fb)      == Approval
Replay(fb)    == [kind |-> "replay", fb |-> fb]

(* Effect records are keyed on the arguments of publish_once; the question, *)
(* channel and target do not vary within a session.                         *)
Keys == Sessions \X Drafts

VARIABLES
    status,    \* of a run: none, running, waiting, failed or completed
    done,      \* the steps of a run that have finished
    payload,   \* the payload of the last resume
    draft,     \* the workflow's `draft' state
    prior,     \* what the recall step found: published nodes
    outcome,   \* publish's result: none, declined or published
    vmLive,    \* the run's VM is registered in a live process
    rendering, \* key order in which that VM serialises analyze's result
    call,      \* the call in progress on a run
    pc,        \* where the publish step is, while it executes
    effects,   \* effect store: absent, pending or complete
    file,      \* content of output/<session>/final.md
    sent,      \* notifications delivered, by run and draft
    nodes,     \* memory nodes `draft' and `final' of a session
    tagged,    \* which of them carry their status tag
    approvals, \* history: the <<run, draft>> pairs a reviewer approved
    drafted,   \* history: the <<run, feedback, draft>> synthesised
    unrecorded,\* history: crashes after notifying, before the record
    calls, crashes, throws  \* the bounded events so far

engineVars == <<status, done, payload, draft, prior, outcome>>
vmVars     == <<vmLive, rendering>>
worldVars  == <<effects, file, sent, nodes, tagged>>
ghostVars  == <<approvals, drafted, unrecorded>>
boundVars  == <<calls, crashes, throws>>
vars == <<engineVars, vmVars, call, pc, worldVars, ghostVars, boundVars>>

Idle == [kind |-> "idle", fb |-> NoFeedback]

Init ==
    /\ status = [r \in Runs |-> "none"]
    /\ done = [r \in Runs |-> {}]
    /\ payload = [r \in Runs |-> Nil]
    /\ draft = [r \in Runs |-> NoDraft]
    /\ prior = [r \in Runs |-> {}]
    /\ outcome = [r \in Runs |-> "none"]
    /\ vmLive = [r \in Runs |-> FALSE]
    /\ rendering = [r \in Runs |-> "insertion"]
    /\ call = [r \in Runs |-> Idle]
    /\ pc = [r \in Runs |-> "idle"]
    /\ effects = [k \in Keys |-> "absent"]
    /\ file = [s \in Sessions |-> NoDraft]
    /\ sent = [k \in Runs \X Drafts |-> 0]
    /\ nodes = [n \in Sessions \X {"draft", "final"} |-> NoDraft]
    /\ tagged = {}
    /\ approvals = {}
    /\ drafted = {}
    /\ unrecorded = [k \in Runs \X Drafts |-> 0]
    /\ calls = 0 /\ crashes = 0 /\ throws = 0

(***************************************************************************)
(* Calls.                                                                   *)
(***************************************************************************)
Busy(r) == call[r].kind # "idle"

(* ResearchRuntime.start: run_workflow on a VM that stays registered. *)
Start(r) ==
    /\ status[r] = "none"
    /\ status' = [status EXCEPT ![r] = "running"]
    /\ vmLive' = [vmLive EXCEPT ![r] = TRUE]
    /\ call' = [call EXCEPT ![r] = [kind |-> "start", fb |-> NoFeedback]]
    /\ UNCHANGED <<done, payload, draft, prior, outcome, rendering, pc,
                   worldVars, ghostVars, boundVars>>

(* The VM a resume runs on: the registered one, or a fresh one primed with  *)
(* the workflow's source, which reads the persisted results back from a     *)
(* store that sorts their keys.                                             *)
AttachVM(r, fresh) ==
    /\ fresh \/ vmLive[r]
    /\ vmLive' = [vmLive EXCEPT ![r] = TRUE]
    /\ rendering' = IF fresh /\ "analyze" \in done[r]
                    THEN [rendering EXCEPT ![r] = "sorted"] ELSE rendering

(* A reviewer's decision is about a draft when the run waits for it, or     *)
(* when it already came and publish is still to be executed.                *)
UnderReviewAlways(r) == TRUE
UnderReview(r) == status[r] = "waiting" \/ "review" \in done[r]

(* The engine's resume without a checkpoint: it satisfies the wait of a     *)
(* waiting run, lets a failed or crashed one go on with its pending steps,  *)
(* and returns the recorded result of a completed one.                      *)
Deliver(r, p) ==
    IF status[r] = "completed"
    THEN UNCHANGED <<engineVars, approvals>>
    ELSE /\ status' = [status EXCEPT ![r] = "running"]
         /\ payload' = [payload EXCEPT ![r] = p]
         /\ done' = IF status[r] = "waiting"
                    THEN [done EXCEPT ![r] = @ \cup {"review"}] ELSE done
         /\ approvals' = IF p.kind = "approve" /\ UnderReview(r)
                         THEN approvals \cup {<<r, draft[r]>>} ELSE approvals
         /\ UNCHANGED <<draft, prior, outcome>>

CallOn(r, kind, p) ==
    /\ status[r] # "none" /\ ~Busy(r)
    /\ calls < MaxCalls
    /\ calls' = calls + 1
    /\ \E fresh \in BOOLEAN : AttachVM(r, fresh)
    /\ Deliver(r, p)
    /\ call' = [call EXCEPT ![r] = [kind |-> kind, fb |-> p.fb]]
    /\ UNCHANGED <<pc, worldVars, drafted, unrecorded, crashes, throws>>

(* resume(run_id, {"approved": True}), in this process or in a fresh one.   *)
Approve(r) == CallOn(r, "resume", Approval)

(* First phase of _reject_and_replay: satisfy the wait without approval.    *)
Reject(r, fb) == CallOn(r, "reject", Rejection(fb))

(* Second phase, once the first has returned: roll back to "before_draft"   *)
(* with the feedback.  The engine refuses while the run is waiting.         *)
Rollback(r) ==
    /\ call[r].kind = "reject"
    /\ status[r] \in {"failed", "completed"}
    /\ After("draft_step") \subseteq done[r]
    /\ status' = [status EXCEPT ![r] = "running"]
    /\ done' = [done EXCEPT ![r] = @ \ Rewound]
    /\ payload' = [payload EXCEPT ![r] = Replay(call[r].fb)]
    /\ draft' = [draft EXCEPT ![r] = NoDraft]
    /\ outcome' = [outcome EXCEPT ![r] = "none"]
    /\ call' = [call EXCEPT ![r] = [kind |-> "replay", fb |-> @.fb]]
    /\ UNCHANGED <<prior, vmVars, pc, worldVars, ghostVars, boundVars>>

(* A call returns when the run is suspended or has ended; a rejection whose *)
(* first phase left the run waiting, failed or without the checkpoint       *)
(* returns that result.                                                     *)
Return(r) ==
    /\ Busy(r)
    /\ status[r] \in {"waiting", "failed", "completed"}
    /\ call[r].kind = "reject" => status[r] # "completed"
    /\ call' = [call EXCEPT ![r] = Idle]
    /\ UNCHANGED <<engineVars, vmVars, pc, worldVars, ghostVars, boundVars>>

(***************************************************************************)
(* Steps up to the review.                                                  *)
(***************************************************************************)
Ready(r, s) ==
    /\ status[r] = "running" /\ Busy(r)
    /\ s \notin done[r]
    /\ After(s) \subseteq done[r]

Finish(r, s) == done' = [done EXCEPT ![r] = @ \cup {s}]

(* init, a gather step and analyze: only that they have finished matters to *)
(* the rest; the raw memory nodes they write are never recalled.            *)
Collect(r, s) ==
    /\ s \in Gathers \cup {"init", "analyze"}
    /\ Ready(r, s)
    /\ Finish(r, s)
    /\ UNCHANGED <<status, payload, draft, prior, outcome, vmVars, call, pc,
                   worldVars, ghostVars, boundVars>>

(* Nodes that a recall of session s may return: tagged status:final, of     *)
(* another session that shares a topic.                                     *)
RecallableAnyStatus(s) ==
    {<<n[1], nodes[n]>> :
        n \in {m \in tagged : m[1] # s /\ <<s, m[1]>> \in Related}}
Recallable(s) ==
    {<<t, nodes[<<t, "final">>]>> :
        t \in {u \in Sessions : u # s /\ <<s, u>> \in Related
                                      /\ <<u, "final">> \in tagged}}

(* Fewer than the limit come back when the tool fails or when the node is   *)
(* not in this process's copy of the memory.                                *)
Recall(r) ==
    /\ Ready(r, "recall")
    /\ Finish(r, "recall")
    /\ \E found \in SUBSET Recallable(SessionOf[r]) :
          /\ Cardinality(found) <= RecallLimit
          /\ prior' = [prior EXCEPT ![r] = found]
    /\ UNCHANGED <<status, payload, draft, outcome, vmVars, call, pc,
                   worldVars, ghostVars, boundVars>>

(* p["feedback"] is read from any payload but nil; an approval lacks it.    *)
HasFeedback(p) == p.kind \in {"nil", "reject", "replay"}

(* _canonical_json sorts the keys before the text reaches synthesize.       *)
CanonicalJsonSkipped(order) == order
CanonicalJson(order) == "sorted"

DraftStep(r) ==
    /\ Ready(r, "draft_step")
    /\ HasFeedback(payload[r])
    /\ Finish(r, "draft_step")
    /\ \E d \in Synthesize[<<r, payload[r].fb, CanonicalJson(rendering[r])>>] :
          /\ draft' = [draft EXCEPT ![r] = d]
          /\ nodes' = [nodes EXCEPT ![<<SessionOf[r], "draft">>] = d]
          /\ drafted' = drafted \cup {<<r, payload[r].fb, d>>}
    /\ tagged' = tagged \cup {<<SessionOf[r], "draft">>}
    /\ UNCHANGED <<status, payload, prior, outcome, vmVars, call, pc, effects,
                   file, sent, approvals, unrecorded, boundVars>>

(* The step throws: on an approval that comes before there is a draft, or   *)
(* when synthesize fails.                                                   *)
DraftThrows(r) ==
    /\ Ready(r, "draft_step")
    /\ IF HasFeedback(payload[r])
       THEN throws < MaxThrows /\ throws' = throws + 1
       ELSE UNCHANGED throws
    /\ status' = [status EXCEPT ![r] = "failed"]
    /\ UNCHANGED <<done, payload, draft, prior, outcome, vmVars, call, pc,
                   worldVars, ghostVars, calls, crashes>>

(* review: workflow_wait suspends the run. *)
Review(r) ==
    /\ Ready(r, "review")
    /\ status' = [status EXCEPT ![r] = "waiting"]
    /\ UNCHANGED <<done, payload, draft, prior, outcome, vmVars, call, pc,
                   worldVars, ghostVars, boundVars>>

(***************************************************************************)
(* The publish step.                                                        *)
(***************************************************************************)
ApprovedByAny(p) == p.kind # "nil"
Approved(p) == p.kind = "approve"
Key(r)      == <<SessionOf[r], draft[r]>>

EndPublish(r, result) ==
    /\ Finish(r, "publish")
    /\ status' = [status EXCEPT ![r] = "completed"]
    /\ outcome' = [outcome EXCEPT ![r] = result]
    /\ UNCHANGED <<payload, draft, prior>>

Declined(r) ==
    /\ Ready(r, "publish") /\ pc[r] = "idle"
    /\ ~Approved(payload[r])
    /\ EndPublish(r, "declined")
    /\ UNCHANGED <<vmVars, call, pc, worldVars, ghostVars, boundVars>>

(* publish_once: a complete record answers for the body; otherwise the      *)
(* record is pending and the body executes.                                 *)
ServedByOwnVM(k) == FALSE
Served(k) == effects[k] = "complete"

ClaimBeforeBody == "complete"
Claim == "pending"

EnterPublishOnce(r) ==
    /\ Ready(r, "publish") /\ pc[r] = "idle"
    /\ Approved(payload[r])
    /\ IF Served(Key(r))
       THEN /\ pc' = [pc EXCEPT ![r] = "put"]
            /\ UNCHANGED effects
       ELSE /\ pc' = [pc EXCEPT ![r] = "truncate"]
            /\ effects' = [effects EXCEPT ![Key(r)] = Claim]
    /\ UNCHANGED <<engineVars, vmVars, call, file, sent, nodes, tagged,
                   ghostVars, boundVars>>

(* research.write_file: Path.write_text truncates the file, then writes.    *)
Truncate(r) ==
    /\ pc[r] = "truncate"
    /\ pc' = [pc EXCEPT ![r] = "write"]
    /\ file' = [file EXCEPT ![SessionOf[r]] = Torn]
    /\ UNCHANGED <<engineVars, vmVars, call, effects, sent, nodes, tagged,
                   ghostVars, boundVars>>

WriteDraftNode(r) ==
    /\ pc[r] = "write"
    /\ pc' = [pc EXCEPT ![r] = "notify"]
    /\ file' = [file EXCEPT ![SessionOf[r]] = nodes[<<SessionOf[r], "draft">>]]
    /\ UNCHANGED <<engineVars, vmVars, call, effects, sent, nodes, tagged,
                   ghostVars, boundVars>>
Write(r) ==
    /\ pc[r] = "write"
    /\ pc' = [pc EXCEPT ![r] = "notify"]
    /\ file' = [file EXCEPT ![SessionOf[r]] = draft[r]]
    /\ UNCHANGED <<engineVars, vmVars, call, effects, sent, nodes, tagged,
                   ghostVars, boundVars>>

(* The write fails before or after truncating: publish_once throws, and its *)
(* record stays pending.                                                    *)
WriteThrows(r) ==
    /\ pc[r] \in {"truncate", "write"}
    /\ throws < MaxThrows
    /\ throws' = throws + 1
    /\ pc' = [pc EXCEPT ![r] = "idle"]
    /\ status' = [status EXCEPT ![r] = "failed"]
    /\ UNCHANGED <<done, payload, draft, prior, outcome, vmVars, call,
                   worldVars, ghostVars, calls, crashes>>

(* research.notify fails soft: an undelivered message is a result, too.     *)
Notify(r) ==
    /\ pc[r] = "notify"
    /\ pc' = [pc EXCEPT ![r] = "complete"]
    /\ \/ sent' = [sent EXCEPT ![<<r, draft[r]>>] = @ + 1]
       \/ UNCHANGED sent
    /\ UNCHANGED <<engineVars, vmVars, call, effects, file, nodes, tagged,
                   ghostVars, boundVars>>

CompleteEffect(r) ==
    /\ pc[r] = "complete"
    /\ pc' = [pc EXCEPT ![r] = "put"]
    /\ effects' = [effects EXCEPT ![Key(r)] = "complete"]
    /\ UNCHANGED <<engineVars, vmVars, call, file, sent, nodes, tagged,
                   ghostVars, boundVars>>

(* remember(".../final"): mem.put, then mem.tag. *)
PutFinalOnce(r) ==
    /\ pc[r] = "put"
    /\ pc' = [pc EXCEPT ![r] = "tag"]
    /\ nodes' = [nodes EXCEPT ![<<SessionOf[r], "final">>] =
                    IF @ = NoDraft THEN draft[r] ELSE @]
    /\ UNCHANGED <<engineVars, vmVars, call, effects, file, sent, tagged,
                   ghostVars, boundVars>>
PutFinal(r) ==
    /\ pc[r] = "put"
    /\ pc' = [pc EXCEPT ![r] = "tag"]
    /\ nodes' = [nodes EXCEPT ![<<SessionOf[r], "final">>] = draft[r]]
    /\ UNCHANGED <<engineVars, vmVars, call, effects, file, sent, tagged,
                   ghostVars, boundVars>>

TagFinal(r) ==
    /\ pc[r] = "tag"
    /\ pc' = [pc EXCEPT ![r] = "return"]
    /\ tagged' = tagged \cup {<<SessionOf[r], "final">>}
    /\ UNCHANGED <<engineVars, vmVars, call, effects, file, sent, nodes,
                   ghostVars, boundVars>>

Published(r) ==
    /\ pc[r] = "return"
    /\ pc' = [pc EXCEPT ![r] = "idle"]
    /\ EndPublish(r, "published")
    /\ UNCHANGED <<vmVars, call, worldVars, ghostVars, boundVars>>

(***************************************************************************)
(* The process serving the call on r dies.  What was persisted stays; the   *)
(* step it was in is still pending.                                         *)
(***************************************************************************)
Crash(r) ==
    /\ crashes < MaxCrashes
    /\ Busy(r)
    /\ crashes' = crashes + 1
    /\ call' = [call EXCEPT ![r] = Idle]
    /\ pc' = [pc EXCEPT ![r] = "idle"]
    /\ vmLive' = [vmLive EXCEPT ![r] = FALSE]
    /\ unrecorded' = IF pc[r] = "complete"
                     THEN [unrecorded EXCEPT ![<<r, draft[r]>>] = @ + 1]
                     ELSE unrecorded
    /\ UNCHANGED <<engineVars, rendering, worldVars, approvals, drafted,
                   calls, throws>>

(***************************************************************************)
(* What the engine does of itself once a call is in progress.               *)
(***************************************************************************)
PublishStep(r) ==
    \/ Declined(r) \/ EnterPublishOnce(r) \/ Truncate(r) \/ Write(r)
    \/ WriteThrows(r) \/ Notify(r) \/ CompleteEffect(r) \/ PutFinal(r)
    \/ TagFinal(r) \/ Published(r)

Advance(r) ==
    \/ \E s \in Steps : Collect(r, s)
    \/ Recall(r) \/ DraftStep(r) \/ DraftThrows(r) \/ Review(r)
    \/ PublishStep(r)
    \/ Rollback(r) \/ Return(r)

Next == \E r \in Runs :
    \/ Start(r) \/ Approve(r)
    \/ \E fb \in Feedbacks : Reject(r, fb)
    \/ Advance(r) \/ Crash(r)

Spec == Init /\ [][Next]_vars

(* A call executes synchronously: nothing but a crash stops it.             *)
FairSpec == Spec /\ \A r \in Runs : WF_vars(Advance(r))

(***************************************************************************)
(* Properties.                                                              *)
(***************************************************************************)
(* Every variable has its type; one conjunct per variable. *)
TypeOK ==
    /\ status \in [Runs -> {"none", "running", "waiting", "failed", "completed"}]
    /\ done \in [Runs -> SUBSET Steps]
    /\ payload \in [Runs -> Payloads]
    /\ draft \in [Runs -> Drafts \cup {NoDraft}]
    /\ prior \in [Runs -> SUBSET (Sessions \X (Drafts \cup {NoDraft}))]
    /\ outcome \in [Runs -> {"none", "declined", "published"}]
    /\ vmLive \in [Runs -> BOOLEAN]
    /\ rendering \in [Runs -> Renderings]
    /\ call \in [Runs -> [kind : {"idle", "start", "resume", "reject", "replay"},
                          fb : Feedbacks]]
    /\ pc \in [Runs -> {"idle", "truncate", "write", "notify", "complete",
                        "put", "tag", "return"}]
    /\ effects \in [Keys -> {"absent", "pending", "complete"}]
    /\ file \in [Sessions -> Drafts \cup {NoDraft, Torn}]
    /\ sent \in [Runs \X Drafts -> Nat]
    /\ nodes \in [Sessions \X {"draft", "final"} -> Drafts \cup {NoDraft}]
    /\ tagged \subseteq Sessions \X {"draft", "final"}
    /\ approvals \subseteq Runs \X Drafts
    /\ drafted \subseteq Runs \X Feedbacks \X Drafts
    /\ unrecorded \in [Runs \X Drafts -> Nat]
    /\ calls \in Nat /\ crashes \in Nat /\ throws \in Nat

ApprovedFor(s, d) == \E r \in Runs : SessionOf[r] = s /\ <<r, d>> \in approvals

(* Human gate (research_task.nd:146, "Gate every side effect on an explicit *)
(* approval"): a draft that was delivered, written to final.md or kept as   *)
(* the session's final node was approved by a reviewer, through whatever    *)
(* rejections, replays, throws and crashes.                                 *)
HumanGate ==
    /\ \A r \in Runs, d \in Drafts : sent[<<r, d>>] > 0 => <<r, d>> \in approvals
    /\ \A s \in Sessions :
          /\ file[s] \in Drafts => ApprovedFor(s, file[s])
          /\ nodes[<<s, "final">>] # NoDraft => ApprovedFor(s, nodes[<<s, "final">>])

(* Exactly once, up to the window it cannot close (research_task.nd:28-36): *)
(* a run delivers a draft at most once more than it has died between the    *)
(* delivery and the completion of the effect record, however often a replay *)
(* regenerates that draft and it is approved again.                         *)
NotifyBound ==
    \A r \in Runs, d \in Drafts : sent[<<r, d>>] <= 1 + unrecorded[<<r, d>>]

(* A rejection performs no effect (runtime.py:294-296): no publish body is  *)
(* under way in either of its phases, not even when the rejected run had    *)
(* died or failed in the middle of publishing an approved draft.            *)
RejectionIsSilent ==
    \A r \in Runs : call[r].kind \in {"reject", "replay"} => pc[r] = "idle"

(* Canonical replay (runtime.py:492-506): with a synthesizer that is a      *)
(* function of its input, a run given the same feedback produces the same   *)
(* draft, whether its VM still has analyze's result in insertion order or   *)
(* read it back, sorted, in another process.                                *)
Deterministic == \A a \in DOMAIN Synthesize : \A x, y \in Synthesize[a] : x = y
ReplayRegeneratesDraft ==
    Deterministic =>
        \A x, y \in drafted : x[1] = y[1] /\ x[2] = y[2] => x[3] = y[3]

(* The feedback of a rejection reaches the draft that is then put up for    *)
(* review (runtime.py:290-296): it is not lost with the payload of the      *)
(* wait that the first phase satisfied.                                     *)
FeedbackReachesDraft ==
    \A r \in Runs : call[r].kind = "replay" /\ status[r] = "waiting" =>
        <<r, call[r].fb, draft[r]>> \in drafted

(* What a run has recalled as prior research was published by another       *)
(* session, hence approved there (research_task.nd:84-88).                  *)
PriorIsPublished ==
    \A r \in Runs : \A n \in prior[r] :
        /\ n[1] # SessionOf[r]
        /\ n[2] \in Drafts /\ ApprovedFor(n[1], n[2])

(* The only run of its session, among those started. *)
Sole(r) == \A q \in Runs :
    status[q] # "none" /\ SessionOf[q] = SessionOf[r] => q = r

(* A run that says "published": true has a complete effect record for the   *)
(* draft it shows and has left it to later sessions, tagged, although it    *)
(* may have died between any two of these (research_task.nd:157-160).       *)
PublishedIsRecorded ==
    \A r \in Runs : outcome[r] = "published" /\ Sole(r) =>
        /\ effects[Key(r)] = "complete"
        /\ nodes[<<SessionOf[r], "final">>] = draft[r]
        /\ <<SessionOf[r], "final">> \in tagged

(* Drafts of the run's session, other than the one it shows, that publish   *)
(* has claimed.                                                             *)
Others(r) == {d \in Drafts \ {draft[r]} : effects[<<SessionOf[r], d>>] # "absent"}

(* A run that says "published": true has its draft in final.md, whole,      *)
(* although it may have died or failed between truncating and writing it    *)
(* (research_task.nd:35-47: a record completes only once the body has       *)
(* returned, and a pending one has it executed again).  The one exception   *)
(* is another draft whose publication took the file: then the file is that  *)
(* draft, or was truncated for one whose record is still pending.           *)
PublishedFileIsWhole ==
    \A r \in Runs : outcome[r] = "published" /\ Sole(r) =>
        \/ file[SessionOf[r]] \in {draft[r]} \cup Others(r)
        \/ /\ file[SessionOf[r]] = Torn
           /\ \E d \in Others(r) : effects[<<SessionOf[r], d>>] = "pending"

(* Every call on a run returns, unless the process serving it dies: no      *)
(* sequence of approvals and rejections leaves the engine without a step to *)
(* take on a run that neither waits nor has ended.                          *)
CallReturns == \A r \in Runs : Busy(r) ~> ~Busy(r)

(* approval_api.py:97: a rejected draft is revised and the run suspends     *)
(* again for review, unless its process dies or a tool fails.               *)
RejectedIsReviewedAgain ==
    \A r \in Runs : call[r].kind = "reject" ~>
        status[r] = "waiting" \/ crashes > 0 \/ throws > 0

(***************************************************************************)
(* The parts of the inductive invariant behind the gate and the bound,      *)
(* which ResearchRunProofs proves.                                          *)
(***************************************************************************)
(* What the progress of a run says of its draft, payload and call: an       *)
(* approval in the payload of a reviewed run is about the draft it still    *)
(* shows, publishing happens under such a payload only, and a rejection     *)
(* has replaced it.                                                         *)
RunInv(r) ==
    /\ "review" \in done[r] \/ status[r] = "waiting" => "draft_step" \in done[r]
    /\ "draft_step" \in done[r] => draft[r] \in Drafts
    /\ "review" \in done[r] /\ payload[r].kind = "approve" =>
          <<r, draft[r]>> \in approvals
    /\ pc[r] # "idle" =>
          /\ status[r] = "running" /\ Busy(r)
          /\ "review" \in done[r] /\ payload[r].kind = "approve"
    /\ call[r].kind \in {"reject", "replay"} =>
          status[r] = "completed" \/ payload[r].kind # "approve"

(* A run that has not yet notified in its present attempt, or whose attempt *)
(* ended without completing the record, delivered the draft only in         *)
(* attempts that were lost.                                                 *)
CountInv(r, d) ==
    /\ sent[<<r, d>>] <= 1 + unrecorded[<<r, d>>]
    /\ draft[r] = d /\ pc[r] \in {"truncate", "write", "notify"} =>
          sent[<<r, d>>] <= unrecorded[<<r, d>>]
    /\ /\ effects[<<SessionOf[r], d>>] # "complete"
       /\ ~(draft[r] = d /\ pc[r] = "complete")
       => sent[<<r, d>>] <= unrecorded[<<r, d>>]

(* A tagged final node holds a draft. *)
MemoryInv ==
    /\ \A s \in Sessions : <<s, "final">> \in tagged => nodes[<<s, "final">>] # NoDraft
    /\ \A r \in Runs : pc[r] = "tag" => nodes[<<SessionOf[r], "final">>] # NoDraft

(* The workflow keeps the promise of DraftReview. *)
Promise == INSTANCE DraftReview WITH
    current <- draft, approved <- approvals,
    final <- [s \in Sessions |-> nodes[<<s, "final">>]]
KeepsPromise == Promise!Spec

(* What tests/test_runtime.py:92 asserts of an approved run: final.md holds *)
(* the draft that the run published.                                        *)
PublishedFileIsDraft ==
    \A r \in Runs : outcome[r] = "published" /\ Sole(r) =>
        file[SessionOf[r]] = draft[r]
=============================================================================

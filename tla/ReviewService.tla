---------------------------- MODULE ReviewService ----------------------------
(***************************************************************************)
(* ApprovalService (src/approval_api.py) behind a ThreadingHTTPServer: each *)
(* request runs in a thread of its own, and the threads share one           *)
(* ResearchRuntime, its `_last_result' and the in-memory index `_runs',     *)
(* with no lock.  A step of a thread is the code between two places where   *)
(* another thread can be seen.                                              *)
(*                                                                          *)
(* One call of the engine on a run is one step; what it does in detail is   *)
(* ResearchRun.  That two calls on one run do not meet inside the engine is *)
(* an assumption about that library, not a result.                          *)
(*                                                                          *)
(* A definition without a comment right before the one it alters is a       *)
(* plausible bug, used only to check that a property can fail.              *)
(***************************************************************************)
EXTENDS Naturals, FiniteSets

CONSTANTS Runs,      \* run ids the engine hands out
          Threads,   \* request threads, each with the client it serves
          NoRun,     \* None, the run id of an empty result
          MaxDrafts, \* bound: drafts of a run (rejections + 1)
          MaxFails,  \* bound: engine calls in which a step throws
          MaxRestarts \* bound: deaths and restarts of the service

ASSUME IdsAssumption == NoRun \notin Runs
ASSUME ServiceBounds ==
    MaxDrafts \in Nat \ {0} /\ MaxFails \in Nat /\ MaxRestarts \in Nat

(* The drafts of a run are numbered; 0 is None. *)
DraftNumbers == 0 .. MaxDrafts

(* A run is undrafted when its draft step threw, unpublished when publish   *)
(* did, and declined when it completed without publishing.                  *)
EngineStates == {"none", "waiting", "declined", "published", "undrafted",
                 "unpublished"}

(* What a call of the runtime returns, as far as the service reads it. *)
Results == [run : Runs \cup {NoRun},
            status : {"waiting", "completed", "failed", "unknown"},
            draft : DraftNumbers, published : BOOLEAN]
Empty   == [run |-> NoRun, status |-> "unknown", draft |-> 0, published |-> FALSE]

(* An entry of _runs; `absent' if there is none. *)
RecordStates == {"absent", "waiting", "completed", "failed", "unknown", "published"}
NoRecord     == [status |-> "absent", draft |-> 0]

VARIABLES
    engine,     \* state of a run in the engine's store
    shown,      \* the draft of a run
    records,    \* _runs
    lastResult, \* _last_result["value"] of the runtime; Empty when cleared
    pc,         \* where a thread is
    run,        \* the run its request is about
    seen,       \* the draft its client read before deciding
    result,     \* what the runtime returned to it
    released,   \* history: runs of which some draft was published
    blind,      \* history: runs published by an approver who had not seen that draft
    overlapped, \* history: runs about which two requests overlapped
    failed,     \* history: runs on which a call of the engine failed
    restarted,  \* history: runs that had been started when the service died
    fails,      \* engine calls that failed so far
    restarts    \* restarts of the service so far

vars == <<engine, shown, records, lastResult, pc, run, seen, result,
          released, blind, overlapped, failed, restarted, fails, restarts>>
histories  == <<released, blind, overlapped, failed, restarted>>
engineVars == <<engine, shown, histories, fails, restarts>>
threadVars == <<run, seen, result>>

Init ==
    /\ engine = [r \in Runs |-> "none"]
    /\ shown = [r \in Runs |-> 0]
    /\ records = [r \in Runs \cup {NoRun} |-> NoRecord]
    /\ lastResult = Empty
    /\ pc = [t \in Threads |-> "idle"]
    /\ run = [t \in Threads |-> NoRun]
    /\ seen = [t \in Threads |-> 0]
    /\ result = [t \in Threads |-> Empty]
    /\ released = {} /\ blind = {}
    /\ overlapped = {} /\ failed = {} /\ restarted = {}
    /\ fails = 0 /\ restarts = 0

(* History: a step of t about run r, while other requests are about r, or   *)
(* while other starts are under way if t starts it.                         *)
Starting == {t \in Threads : pc[t] \in {"execute", "fetch", "enter"}}
Cross(t, r) ==
    overlapped' = IF \E u \in Threads \ {t} :
                        run[u] = r \/ (t \in Starting /\ u \in Starting)
                  THEN overlapped \cup {r} ELSE overlapped

(* A request ends and its locals are gone. *)
Forget(t) ==
    /\ run' = [run EXCEPT ![t] = NoRun]
    /\ seen' = [seen EXCEPT ![t] = 0]
    /\ result' = [result EXCEPT ![t] = Empty]

Goto(t, from, to) == pc[t] = from /\ pc' = [pc EXCEPT ![t] = to]

(***************************************************************************)
(* start_research: ResearchRuntime._run clears _last_result, executes the   *)
(* workflow, whose last act is to put its result there, and reads it back.  *)
(***************************************************************************)
StartClear(t) ==
    /\ Goto(t, "idle", "execute")
    /\ Cardinality({u \in Threads : pc[u] = "execute"})
          < Cardinality({r \in Runs : engine[r] = "none"})  \* ids in the instance
    /\ lastResult' = Empty
    /\ overlapped' = IF \E u \in Threads : pc[u] = "fetch"
                     THEN overlapped \cup ({lastResult.run} \cap Runs) ELSE overlapped
    /\ UNCHANGED <<engine, shown, released, blind, failed, restarted, fails, restarts,
                   records, threadVars>>

StartExecute(t) ==
    /\ Goto(t, "execute", "fetch")
    /\ \E r \in Runs :
          /\ engine[r] = "none"
          /\ engine' = [engine EXCEPT ![r] = "waiting"]
          /\ shown' = [shown EXCEPT ![r] = 1]
          /\ Cross(t, r)
          /\ lastResult' = [run |-> r, status |-> "waiting", draft |-> 1,
                            published |-> FALSE]
    /\ UNCHANGED <<released, blind, failed, restarted, fails, restarts, records, threadVars>>

(* No draft comes of it: the captured result is that of a failed run, or    *)
(* run_source is not ok, _run raises and the request ends with an error.    *)
StartFails(t) ==
    /\ pc[t] = "execute"
    /\ fails < MaxFails
    /\ fails' = fails + 1
    /\ \E r \in Runs :
          /\ engine[r] = "none"
          /\ engine' = [engine EXCEPT ![r] = "undrafted"]
          /\ failed' = failed \cup {r}
          /\ Cross(t, r)
          /\ \/ /\ pc' = [pc EXCEPT ![t] = "fetch"]
                /\ lastResult' = [run |-> r, status |-> "failed", draft |-> 0,
                                  published |-> FALSE]
             \/ /\ pc' = [pc EXCEPT ![t] = "idle"]
                /\ UNCHANGED lastResult
    /\ UNCHANGED <<shown, released, blind, restarted, restarts, records, threadVars>>

StartFetch(t) ==
    /\ Goto(t, "fetch", "enter")
    /\ result' = [result EXCEPT ![t] = lastResult]
    /\ UNCHANGED <<engineVars, records, lastResult, run, seen>>

StartEnter(t) ==
    /\ Goto(t, "enter", "idle")
    /\ records' = [records EXCEPT ![result[t].run] =
                      [status |-> result[t].status, draft |-> result[t].draft]]
    /\ Forget(t)
    /\ UNCHANGED <<engineVars, lastResult>>

(***************************************************************************)
(* A client reads a run (list_pending, get_run) and decides on its draft.   *)
(***************************************************************************)
Look(t) ==
    /\ Goto(t, "idle", "decide")
    /\ \E r \in Runs :
          /\ records[r].status # "absent"
          /\ run' = [run EXCEPT ![t] = r]
          /\ seen' = [seen EXCEPT ![t] = records[r].draft]
          /\ Cross(t, r)
    /\ UNCHANGED <<engine, shown, released, blind, failed, restarted, fails, restarts,
                   records, lastResult, result>>

(* _require_waiting, the first statement of approve and reject. *)
WaitingOrKnown(r) == records[r].status # "absent"
Waiting(r) == records[r].status = "waiting"

Refuse(t) ==
    /\ Goto(t, "decide", "idle")
    /\ ~Waiting(run[t])
    /\ Forget(t)
    /\ UNCHANGED <<engineVars, records, lastResult>>

Admit(t, next) ==
    /\ Goto(t, "decide", next)
    /\ Waiting(run[t])
    /\ UNCHANGED <<engineVars, records, lastResult, threadVars>>

Answer(t, status, draft, published) ==
    result' = [result EXCEPT ![t] = [run |-> run[t], status |-> status,
                                     draft |-> draft, published |-> published]]

(***************************************************************************)
(* approve: resume, then note the outcome.                                  *)
(***************************************************************************)
ApproveAdmit(t) == Admit(t, "resume")

(* The engine publishes the draft of a run that waits, or that failed to    *)
(* publish; of a completed run it returns the recorded result; and a run    *)
(* without a draft fails again.                                             *)
Publishable(state) == state \in {"waiting", "unpublished"}

ApproveResume(t) ==
    /\ Goto(t, "resume", "note")
    /\ LET r == run[t] IN
       IF Publishable(engine[r])
       THEN /\ engine' = [engine EXCEPT ![r] = "published"]
            /\ released' = released \cup {r}
            /\ blind' = IF shown[r] # seen[t] THEN blind \cup {r} ELSE blind
            /\ Answer(t, "completed", shown[r], TRUE)
       ELSE /\ UNCHANGED <<engine, released, blind>>
            /\ Answer(t, IF engine[r] = "undrafted" THEN "failed" ELSE "completed",
                      shown[r], engine[r] = "published")
    /\ UNCHANGED <<shown, overlapped, failed, restarted, fails, restarts, records,
                   lastResult, run, seen>>

ApproveNoteAlways(t) ==
    /\ Goto(t, "note", "idle")
    /\ records' = [records EXCEPT ![run[t]].status = "published"]
    /\ Forget(t)
    /\ UNCHANGED <<engineVars, lastResult>>
ApproveNoteNothing(t) ==
    /\ Goto(t, "note", "idle")
    /\ Forget(t)
    /\ UNCHANGED <<engineVars, records, lastResult>>
ApproveNote(t) ==
    /\ Goto(t, "note", "idle")
    /\ records' = [records EXCEPT ![run[t]].status =
                      IF result[t].published THEN "published" ELSE "completed"]
    /\ Forget(t)
    /\ UNCHANGED <<engineVars, lastResult>>

(***************************************************************************)
(* reject: the two phases of _reject_and_replay, then two assignments.      *)
(***************************************************************************)
RejectAdmit(t) ==
    /\ Admit(t, "phase1")
    /\ shown[run[t]] < MaxDrafts

(* A waiting run, or one that failed to publish, completes unpublished; one *)
(* that failed to draft goes on with this payload's feedback and waits.     *)
RejectPhase1(t) ==
    /\ Goto(t, "phase1", "phase2")
    /\ LET r == run[t] IN
       /\ engine[r] = "undrafted" => shown[r] < MaxDrafts
       /\ engine' = [engine EXCEPT ![r] =
                        IF @ \in {"waiting", "unpublished"} THEN "declined"
                        ELSE IF @ = "undrafted" THEN "waiting" ELSE @]
       /\ shown' = IF engine[r] = "undrafted"
                   THEN [shown EXCEPT ![r] = @ + 1] ELSE shown
    /\ UNCHANGED <<histories, fails, restarts, records, lastResult, threadVars>>

(* The rollback is refused while the run is waiting: {"ok": False} carries  *)
(* neither a status nor a draft.                                            *)
RejectPhase2(t) ==
    /\ Goto(t, "phase2", "noteStatus")
    /\ LET r == run[t] IN
       IF engine[r] = "waiting"
       THEN /\ UNCHANGED <<engine, shown>>
            /\ Answer(t, "unknown", 0, FALSE)
       ELSE /\ shown[r] < MaxDrafts
            /\ engine' = [engine EXCEPT ![r] = "waiting"]
            /\ shown' = [shown EXCEPT ![r] = @ + 1]
            /\ Answer(t, "waiting", shown[r] + 1, FALSE)
    /\ UNCHANGED <<histories, fails, restarts, records, lastResult, run, seen>>

RejectNoteStatus(t) ==
    /\ Goto(t, "noteStatus", "noteDraft")
    /\ records' = [records EXCEPT ![run[t]].status = result[t].status]
    /\ UNCHANGED <<engineVars, lastResult, threadVars>>

RejectKeepDraft(t) ==
    /\ Goto(t, "noteDraft", "idle")
    /\ Forget(t)
    /\ UNCHANGED <<engineVars, records, lastResult>>
RejectNoteDraft(t) ==
    /\ Goto(t, "noteDraft", "idle")
    /\ records' = [records EXCEPT ![run[t]].draft = result[t].draft]
    /\ Forget(t)
    /\ UNCHANGED <<engineVars, lastResult>>

(***************************************************************************)
(* A step throws during a call of the engine: publish in approve, the draft *)
(* in a phase of reject; a first phase that failed is also the last.  The   *)
(* runtime returns a failed result, or raises and the request ends with an  *)
(* error.                                                                   *)
(***************************************************************************)
FailedTo(t, next) ==
    \/ /\ pc' = [pc EXCEPT ![t] = next]
       /\ Answer(t, "failed", 0, FALSE)
       /\ UNCHANGED <<run, seen>>
    \/ /\ pc' = [pc EXCEPT ![t] = "idle"]
       /\ Forget(t)

EngineFails(t) ==
    /\ fails < MaxFails
    /\ fails' = fails + 1
    /\ failed' = failed \cup {run[t]}
    /\ LET r == run[t] IN
       \/ /\ pc[t] = "resume" /\ Publishable(engine[r])
          /\ engine' = [engine EXCEPT ![r] = "unpublished"]
          /\ FailedTo(t, "note")
       \/ /\ pc[t] = "phase1" /\ engine[r] = "undrafted"
          /\ UNCHANGED engine
          /\ FailedTo(t, "noteStatus")
       \/ /\ pc[t] = "phase2" /\ engine[r] \in {"declined", "published"}
          /\ engine' = [engine EXCEPT ![r] = "undrafted"]
          /\ FailedTo(t, "noteStatus")
    /\ UNCHANGED <<shown, released, blind, overlapped, restarted, restarts, records,
                   lastResult>>

(* The service dies with its threads and is started again: _runs is empty,  *)
(* the engine's store is not.                                               *)
Restart ==
    /\ restarts < MaxRestarts
    /\ restarts' = restarts + 1
    /\ records' = [r \in Runs \cup {NoRun} |-> NoRecord]
    /\ lastResult' = Empty
    /\ pc' = [t \in Threads |-> "idle"]
    /\ run' = [t \in Threads |-> NoRun]
    /\ seen' = [t \in Threads |-> 0]
    /\ result' = [t \in Threads |-> Empty]
    /\ restarted' = restarted \cup {r \in Runs : engine[r] # "none"}
    /\ UNCHANGED <<engine, shown, released, blind, overlapped, failed, fails>>

Start(t)   == \/ StartClear(t) \/ StartExecute(t) \/ StartFails(t) \/ StartFetch(t)
              \/ StartEnter(t)
Approve(t) == ApproveAdmit(t) \/ ApproveResume(t) \/ ApproveNote(t)
Reject(t)  == \/ RejectAdmit(t) \/ RejectPhase1(t) \/ RejectPhase2(t)
              \/ RejectNoteStatus(t) \/ RejectNoteDraft(t)

Next ==
    \/ \E t \in Threads :
          Start(t) \/ Look(t) \/ Refuse(t) \/ Approve(t) \/ Reject(t) \/ EngineFails(t)
    \/ Restart

Spec == Init /\ [][Next]_vars

(***************************************************************************)
(* Properties.                                                              *)
(***************************************************************************)
TypeOK ==
    /\ engine \in [Runs -> EngineStates]
    /\ shown \in [Runs -> DraftNumbers]
    /\ records \in [Runs \cup {NoRun} -> [status : RecordStates, draft : DraftNumbers]]
    /\ lastResult \in Results
    /\ pc \in [Threads -> {"idle", "execute", "fetch", "enter", "decide", "resume",
                           "note", "phase1", "phase2", "noteStatus", "noteDraft"}]
    /\ run \in [Threads -> Runs \cup {NoRun}]
    /\ seen \in [Threads -> DraftNumbers]
    /\ result \in [Threads -> Results]
    /\ released \subseteq Runs /\ blind \subseteq Runs
    /\ overlapped \subseteq Runs /\ failed \subseteq Runs /\ restarted \subseteq Runs
    /\ fails \in Nat /\ restarts \in Nat

(* A record or an answer says "published" only of a run of which some draft *)
(* was published (approval_api.py:91-94), also when several reviewers race. *)
PublishedIsTrue ==
    \A r \in Runs : records[r].status = "published" => r \in released

(* Once a run is published, no decision about it reaches the engine         *)
(* (approval_api.py:107-115; test_double_approve_is_conflict): what passes  *)
(* _require_waiting is about a run that waits or on which a step failed,    *)
(* whether its client read a pending record or an old one, and although     *)
(* calls fail and the service dies between the engine's step and the note   *)
(* of it.  Two requests about the run that overlap can both pass.           *)
PublishedIsClosed ==
    \A t \in Threads :
        pc[t] \in {"resume", "phase1", "phase2"} /\ run[t] \notin overlapped
            => engine[run[t]] # "published"

(* No request is about run r or about to enter one. *)
Quiet(r) == Starting = {} /\ \A t \in Threads : run[t] # r

(* A decision about the run is still to be carried out. *)
Open(state) == state \in {"waiting", "unpublished", "undrafted"}

(* "Runs currently suspended awaiting a draft decision"                     *)
(* (approval_api.py:78), once the requests about a run have been answered   *)
(* and no two of them overlapped: a run that is listed waits with the draft *)
(* its record shows, unless a call on it failed, when it may instead be     *)
(* left with a failed step, but neither declined nor published; and a run   *)
(* that waits is listed, unless a call on it failed or the service was      *)
(* restarted since.                                                         *)
ListedIsWaiting ==
    \A r \in Runs \ overlapped : Quiet(r) =>
        /\ records[r].status = "waiting" =>
              /\ records[r].draft = shown[r] /\ Open(engine[r])
              /\ engine[r] = "waiting" \/ r \in failed
        /\ engine[r] = "waiting" =>
              records[r].status = "waiting" \/ r \in failed \cup restarted

(* What is published is a draft its approver was shown, unless two requests *)
(* about the run overlapped; failed calls and restarts do not matter.       *)
SoleApprovedWasSeen == blind \subseteq overlapped

(* Whatever is started is listed (approval_api.py:62-79): a run that waits  *)
(* is in the index once all starts have been answered.                      *)
StartedIsListed ==
    \A r \in Runs : engine[r] = "waiting" /\ Quiet(r) => records[r].status # "absent"
=============================================================================

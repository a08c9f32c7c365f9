------------------------- MODULE ReviewServiceProofs -------------------------
(***************************************************************************)
(* Theorems about ReviewService, for all runs, threads and bounds.          *)
(***************************************************************************)
EXTENDS ReviewService, TLAPS

Busy(t) == pc[t] \in {"decide", "resume", "note", "phase1", "phase2", "noteStatus", "noteDraft"}

TypeInv ==
    /\ TypeOK
    /\ \A t \in Threads : /\ Busy(t) => run[t] \in Runs
                          /\ ~Busy(t) => run[t] = NoRun

LEMMA ServiceTypeInit == Init => TypeInv
<1> SUFFICES ASSUME Init PROVE TypeInv
  OBVIOUS
<1>1. Empty \in Results /\ NoRecord \in [status : RecordStates, draft : DraftNumbers]
  BY ServiceBounds DEF Empty, NoRecord, Results, RecordStates, DraftNumbers
<1>2. 0 \in DraftNumbers
  BY ServiceBounds DEF DraftNumbers
<1>3. TypeOK
  BY <1>1, <1>2 DEF Init, TypeOK, EngineStates
<1>. QED  BY <1>3 DEF Init, TypeInv, Busy

(* What a thread's request returns with and forgets has its type.           *)
LEMMA ForgetType ==
  ASSUME TypeOK, NEW t \in Threads, Forget(t)
  PROVE  /\ run' \in [Threads -> Runs \cup {NoRun}] /\ run'[t] = NoRun
         /\ seen' \in [Threads -> DraftNumbers]
         /\ result' \in [Threads -> Results]
         /\ \A u \in Threads : u # t => run'[u] = run[u] /\ seen'[u] = seen[u] /\ result'[u] = result[u]
<1>1. Empty \in Results /\ 0 \in DraftNumbers
  BY ServiceBounds DEF Empty, Results, DraftNumbers
<1>. QED  BY <1>1 DEF TypeOK, Forget

LEMMA AnswerType ==
  ASSUME TypeOK, NEW t \in Threads, NEW status \in {"waiting", "completed", "failed", "unknown"},
         NEW draft \in DraftNumbers, NEW published \in BOOLEAN,
         Answer(t, status, draft, published)
  PROVE  /\ result' \in [Threads -> Results]
         /\ result'[t] = [run |-> run[t], status |-> status, draft |-> draft,
                          published |-> published]
         /\ \A u \in Threads : u # t => result'[u] = result[u]
BY DEF TypeOK, Answer, Results

LEMMA GotoType ==
  ASSUME TypeOK, NEW t \in Threads, NEW from, NEW to, Goto(t, from, to)
  PROVE  pc[t] = from /\ pc'[t] = to /\ \A u \in Threads : u # t => pc'[u] = pc[u]
BY DEF TypeOK, Goto

LEMMA StartType ==
  ASSUME TypeInv, NEW t \in Threads, Start(t)
  PROVE  TypeInv'
<1>0. TypeOK /\ Empty \in Results
  BY ServiceBounds DEF TypeInv, Empty, Results, DraftNumbers
<1>1. CASE StartClear(t)
  <2>1. overlapped' \subseteq Runs
    BY <1>0, <1>1 DEF TypeOK, StartClear
  <2>. QED  BY <1>0, <1>1, <2>1 DEF TypeInv, TypeOK, StartClear, Goto, threadVars, Busy
<1>2. CASE StartExecute(t)
  <2>1. PICK r \in Runs :
          /\ engine' = [engine EXCEPT ![r] = "waiting"]
          /\ shown' = [shown EXCEPT ![r] = 1]
          /\ Cross(t, r)
          /\ lastResult' = [run |-> r, status |-> "waiting", draft |-> 1, published |-> FALSE]
    BY <1>2 DEF StartExecute
  <2>2. lastResult' \in Results /\ 1 \in DraftNumbers
    BY <2>1, ServiceBounds DEF Results, DraftNumbers
  <2>3. overlapped' \subseteq Runs
    BY <1>0, <2>1 DEF TypeOK, Cross
  <2>. QED  BY <1>0, <1>2, <2>1, <2>2, <2>3
            DEF TypeInv, TypeOK, StartExecute, Goto, threadVars, Busy, EngineStates
<1>3. CASE StartFetch(t)
  BY <1>0, <1>3 DEF TypeInv, TypeOK, StartFetch, Goto, engineVars, histories, Busy
<1>4. CASE StartEnter(t)
  <2>1. records' \in [Runs \cup {NoRun} -> [status : RecordStates, draft : DraftNumbers]]
    BY <1>0, <1>4 DEF TypeOK, StartEnter, Results, RecordStates
  <2>2. Goto(t, "enter", "idle") /\ Forget(t) /\ UNCHANGED engineVars /\ UNCHANGED lastResult
    BY <1>4 DEF StartEnter
  <2>. QED  BY <1>0, <2>1, <2>2, ForgetType DEF TypeInv, TypeOK, Goto, engineVars, histories, Busy
<1>5. CASE StartFails(t)
  <2>1. PICK r \in Runs :
          /\ engine' = [engine EXCEPT ![r] = "undrafted"]
          /\ failed' = failed \cup {r}
          /\ Cross(t, r)
          /\ \/ /\ pc' = [pc EXCEPT ![t] = "fetch"]
                /\ lastResult' = [run |-> r, status |-> "failed", draft |-> 0, published |-> FALSE]
             \/ pc' = [pc EXCEPT ![t] = "idle"] /\ UNCHANGED lastResult
    BY <1>5 DEF StartFails
  <2>2. lastResult' \in Results
    <3>1. [run |-> r, status |-> "failed", draft |-> 0, published |-> FALSE] \in Results
      BY ServiceBounds DEF Results, DraftNumbers
    <3>. QED  BY <1>0, <2>1, <3>1 DEF TypeOK
  <2>3. overlapped' \subseteq Runs /\ failed' \subseteq Runs
    BY <1>0, <2>1 DEF TypeOK, Cross
  <2>4. pc[t] = "execute" /\ fails' = fails + 1
        /\ UNCHANGED <<shown, released, blind, restarted, restarts, records, run, seen, result>>
    BY <1>5 DEF StartFails, threadVars
  <2>5. TypeOK'
    BY <1>0, <2>1, <2>2, <2>3, <2>4 DEF TypeOK, EngineStates
  <2>6. \A u \in Threads : (Busy(u)' <=> Busy(u)) /\ run'[u] = run[u]
    BY <1>0, <2>1, <2>4 DEF TypeOK, Busy
  <2>. QED  BY <2>4, <2>5, <2>6 DEF TypeInv
<1>. QED  BY <1>1, <1>2, <1>3, <1>4, <1>5 DEF Start

LEMMA LookType ==
  ASSUME TypeInv, NEW t \in Threads, Look(t) \/ Refuse(t)
  PROVE  TypeInv'
<1>0. TypeOK
  BY DEF TypeInv
<1>1. CASE Look(t)
  <2>1. PICK r \in Runs : /\ run' = [run EXCEPT ![t] = r]
                          /\ seen' = [seen EXCEPT ![t] = records[r].draft]
                          /\ Cross(t, r)
    BY <1>1 DEF Look
  <2>2. overlapped' \subseteq Runs
    BY <1>0, <2>1 DEF TypeOK, Cross
  <2>3. records[r].draft \in DraftNumbers
    BY <1>0 DEF TypeOK
  <2>. QED  BY <1>0, <1>1, <2>1, <2>2, <2>3 DEF TypeInv, TypeOK, Look, Goto, Busy
<1>2. CASE Refuse(t)
  <2>1. Goto(t, "decide", "idle") /\ Forget(t) /\ UNCHANGED engineVars
        /\ UNCHANGED <<records, lastResult>>
    BY <1>2 DEF Refuse
  <2>. QED  BY <1>0, <2>1, ForgetType DEF TypeInv, TypeOK, Goto, engineVars, histories, Busy
<1>. QED  BY <1>1, <1>2

LEMMA ApproveType ==
  ASSUME TypeInv, NEW t \in Threads, Approve(t)
  PROVE  TypeInv'
<1>0. TypeOK
  BY DEF TypeInv
<1>1. CASE ApproveAdmit(t)
  BY <1>0, <1>1 DEF TypeInv, TypeOK, ApproveAdmit, Admit, Goto, engineVars, histories, threadVars, Busy
<1>2. CASE ApproveResume(t)
  <2>0. run[t] \in Runs /\ Goto(t, "resume", "note")
        /\ UNCHANGED <<shown, overlapped, failed, restarted, fails, restarts, records,
                       lastResult, run, seen>>
    BY <1>2 DEF ApproveResume, Goto, TypeInv, Busy
  <2>1. shown[run[t]] \in DraftNumbers
    BY <1>0, <2>0 DEF TypeOK
  <2>2. engine' \in [Runs -> EngineStates]
    BY <1>0, <1>2 DEF TypeOK, ApproveResume, EngineStates
  <2>3. released' \subseteq Runs
    <3>1. released' = released \/ released' = released \cup {run[t]}
      BY <1>2 DEF ApproveResume
    <3>. QED  BY <1>0, <2>0, <3>1 DEF TypeOK
  <2>4. blind' \subseteq Runs
    <3>1. blind' = blind \/ blind' = blind \cup {run[t]}
      BY <1>2 DEF ApproveResume
    <3>. QED  BY <1>0, <2>0, <3>1 DEF TypeOK
  <2>5. result' \in [Threads -> Results]
    <3>1. PICK status \in {"completed", "failed"}, published \in BOOLEAN :
             Answer(t, status, shown[run[t]], published)
      <4>1. CASE Publishable(engine[run[t]])
        BY <1>2, <4>1 DEF ApproveResume
      <4>2. CASE ~Publishable(engine[run[t]])
        BY <1>2, <4>2 DEF ApproveResume
      <4>. QED  BY <4>1, <4>2
    <3>. QED  BY <1>0, <2>1, <3>1, AnswerType
  <2>. QED  BY <1>0, <2>0, <2>2, <2>3, <2>4, <2>5 DEF TypeInv, TypeOK, Goto, Busy
<1>3. CASE ApproveNote(t)
  <2>1. records' \in [Runs \cup {NoRun} -> [status : RecordStates, draft : DraftNumbers]]
    BY <1>0, <1>3 DEF TypeOK, ApproveNote, RecordStates
  <2>2. Goto(t, "note", "idle") /\ Forget(t) /\ UNCHANGED engineVars /\ UNCHANGED lastResult
    BY <1>3 DEF ApproveNote
  <2>. QED  BY <1>0, <2>1, <2>2, ForgetType DEF TypeInv, TypeOK, Goto, engineVars, histories, Busy
<1>. QED  BY <1>1, <1>2, <1>3 DEF Approve

LEMMA RejectType ==
  ASSUME TypeInv, NEW t \in Threads, Reject(t)
  PROVE  TypeInv'
<1>0. TypeOK
  BY DEF TypeInv
<1>1. CASE RejectAdmit(t)
  BY <1>0, <1>1 DEF TypeInv, TypeOK, RejectAdmit, Admit, Goto, engineVars, histories, threadVars, Busy
<1>2. CASE RejectPhase1(t)
  <2>0. run[t] \in Runs /\ Goto(t, "phase1", "phase2") /\ UNCHANGED threadVars
        /\ UNCHANGED <<histories, fails, restarts, records, lastResult>>
    BY <1>2 DEF RejectPhase1, Goto, TypeInv, Busy
  <2>1. engine' \in [Runs -> EngineStates]
    BY <1>0, <1>2, <2>0 DEF TypeOK, RejectPhase1, EngineStates
  <2>2. shown' \in [Runs -> DraftNumbers]
    BY <1>0, <1>2, <2>0, ServiceBounds DEF TypeOK, RejectPhase1, DraftNumbers
  <2>. QED  BY <1>0, <2>0, <2>1, <2>2 DEF TypeInv, TypeOK, Goto, threadVars, histories, Busy
<1>3. CASE RejectPhase2(t)
  <2>0. run[t] \in Runs /\ Goto(t, "phase2", "noteStatus")
        /\ UNCHANGED <<histories, fails, restarts, records, lastResult, run, seen>>
    BY <1>3 DEF RejectPhase2, Goto, TypeInv, Busy
  <2>1. engine' \in [Runs -> EngineStates]
    BY <1>0, <1>3 DEF TypeOK, RejectPhase2, EngineStates
  <2>2. shown' \in [Runs -> DraftNumbers]
    <3>1. \/ shown' = shown
          \/ /\ shown[run[t]] < MaxDrafts
             /\ shown' = [shown EXCEPT ![run[t]] = shown[run[t]] + 1]
      BY <1>3 DEF RejectPhase2
    <3>. QED  BY <1>0, <2>0, <3>1, ServiceBounds DEF TypeOK, DraftNumbers
  <2>3. result' \in [Threads -> Results]
    <3>1. CASE engine[run[t]] = "waiting"
      <4>1. Answer(t, "unknown", 0, FALSE)
        BY <1>3, <3>1 DEF RejectPhase2
      <4>2. 0 \in DraftNumbers
        BY ServiceBounds DEF DraftNumbers
      <4>. QED  BY <1>0, <4>1, <4>2 DEF TypeOK, Answer, Results
    <3>2. CASE engine[run[t]] # "waiting"
      <4>1. shown[run[t]] + 1 \in DraftNumbers
        <5>1. shown[run[t]] < MaxDrafts
          BY <1>3, <3>2 DEF RejectPhase2
        <5>. QED  BY <1>0, <2>0, <5>1, ServiceBounds DEF TypeOK, DraftNumbers
      <4>2. Answer(t, "waiting", shown[run[t]] + 1, FALSE)
        BY <1>3, <3>2 DEF RejectPhase2
      <4>. QED  BY <1>0, <4>1, <4>2 DEF TypeOK, Answer, Results
    <3>. QED  BY <3>1, <3>2
  <2>. QED  BY <1>0, <2>0, <2>1, <2>2, <2>3 DEF TypeInv, TypeOK, Goto, histories, Busy
<1>4. CASE RejectNoteStatus(t)
  <2>1. records' \in [Runs \cup {NoRun} -> [status : RecordStates, draft : DraftNumbers]]
    BY <1>0, <1>4 DEF TypeOK, RejectNoteStatus, RecordStates, Results
  <2>. QED  BY <1>0, <1>4, <2>1 DEF TypeInv, TypeOK, RejectNoteStatus, Goto, engineVars, histories, threadVars, Busy
<1>5. CASE RejectNoteDraft(t)
  <2>1. records' \in [Runs \cup {NoRun} -> [status : RecordStates, draft : DraftNumbers]]
    BY <1>0, <1>5 DEF TypeOK, RejectNoteDraft, RecordStates, Results
  <2>2. Goto(t, "noteDraft", "idle") /\ Forget(t) /\ UNCHANGED engineVars /\ UNCHANGED lastResult
    BY <1>5 DEF RejectNoteDraft
  <2>. QED  BY <1>0, <2>1, <2>2, ForgetType DEF TypeInv, TypeOK, Goto, engineVars, histories, Busy
<1>. QED  BY <1>1, <1>2, <1>3, <1>4, <1>5 DEF Reject

LEMMA FailureType ==
  ASSUME TypeInv, NEW t \in Threads, EngineFails(t)
  PROVE  TypeInv'
<1>0. TypeOK /\ 0 \in DraftNumbers
  BY ServiceBounds DEF TypeInv, DraftNumbers
<1>1. run[t] \in Runs /\ Busy(t)
  BY DEF EngineFails, TypeInv, Busy
<1>2. engine' \in [Runs -> EngineStates]
  BY <1>0 DEF TypeOK, EngineFails, EngineStates
<1>3. PICK next \in {"note", "noteStatus"} : FailedTo(t, next)
  BY DEF EngineFails
<1>4. fails' \in Nat /\ failed' \subseteq Runs
      /\ UNCHANGED <<shown, released, blind, overlapped, restarted, restarts, records, lastResult>>
  BY <1>0, <1>1 DEF TypeOK, EngineFails
<1>5. CASE pc' = [pc EXCEPT ![t] = next] /\ Answer(t, "failed", 0, FALSE) /\ UNCHANGED <<run, seen>>
  <2>1. result' \in [Threads -> Results]
    BY <1>0, <1>5 DEF TypeOK, Answer, Results
  <2>. QED  BY <1>0, <1>1, <1>2, <1>4, <1>5, <2>1 DEF TypeInv, TypeOK, Busy
<1>6. CASE pc' = [pc EXCEPT ![t] = "idle"] /\ Forget(t)
  BY <1>0, <1>2, <1>4, <1>6, ForgetType DEF TypeInv, TypeOK, Busy
<1>. QED  BY <1>3, <1>5, <1>6 DEF FailedTo

LEMMA RestartType == TypeInv /\ Restart => TypeInv'
<1> SUFFICES ASSUME TypeInv, Restart PROVE TypeInv'
  OBVIOUS
<1>1. Empty \in Results /\ NoRecord \in [status : RecordStates, draft : DraftNumbers]
      /\ 0 \in DraftNumbers
  BY ServiceBounds DEF Empty, NoRecord, Results, RecordStates, DraftNumbers
<1>. QED  BY <1>1 DEF TypeInv, TypeOK, Restart, Busy

LEMMA ServiceTypeStep == TypeInv /\ [Next]_vars => TypeInv'
<1>1. TypeInv /\ UNCHANGED vars => TypeInv'
  BY DEF TypeInv, TypeOK, Busy, vars
<1>. QED  BY <1>1, StartType, LookType, ApproveType, RejectType, FailureType, RestartType DEF Next

LEMMA ServiceTypeInvariance == Spec => []TypeInv
BY ServiceTypeInit, ServiceTypeStep, PTL DEF Spec

(* Records, results and the threads' locals keep their types.               *)
THEOREM ServiceTyping == Spec => []TypeOK
<1>1. TypeInv => TypeOK
  BY DEF TypeInv
<1>. QED  BY <1>1, ServiceTypeInvariance, PTL

(***************************************************************************)
(* What a record, an answer or the engine calls published has been.         *)
(***************************************************************************)
TruthInv ==
    /\ \A r \in Runs : records[r].status = "published" \/ engine[r] = "published"
                          => r \in released
    /\ \A t \in Threads : result[t].published => Busy(t) /\ run[t] \in released
    /\ ~lastResult.published

(* What a step does to one run, as far as the engine is concerned.          *)
RunStep(r) ==
    /\ r \in released => r \in released'
    /\ r \in failed => r \in failed'
    /\ engine'[r] = "none" => engine[r] = "none"
    /\ engine'[r] = "published" => engine[r] = "published" \/ r \in released'
    /\ engine'[r] \in {"undrafted", "unpublished"} => engine'[r] = engine[r] \/ r \in failed'

LEMMA RunSteps ==
  ASSUME TypeInv, TypeInv', [Next]_vars, NEW r \in Runs
  PROVE  RunStep(r)
<1>0. TypeOK /\ TypeOK'
  BY DEF TypeInv
<1>1. ASSUME NEW t \in Threads, StartExecute(t) \/ StartFails(t) PROVE RunStep(r)
  <2>1. PICK q \in Runs : /\ engine[q] = "none"
                          /\ \/ engine' = [engine EXCEPT ![q] = "waiting"] /\ failed' = failed
                             \/ /\ engine' = [engine EXCEPT ![q] = "undrafted"]
                                /\ failed' = failed \cup {q}
    BY <1>1 DEF StartExecute, StartFails
  <2>2. released' = released
    BY <1>1 DEF StartExecute, StartFails
  <2>. QED  BY <1>0, <2>1, <2>2 DEF TypeOK, RunStep
<1>2. ASSUME NEW t \in Threads, ApproveResume(t) PROVE RunStep(r)
  <2>0. run[t] \in Runs /\ failed' = failed
    BY <1>2 DEF ApproveResume, Goto, TypeInv, Busy
  <2>1. \/ UNCHANGED <<engine, released>>
        \/ /\ engine' = [engine EXCEPT ![run[t]] = "published"]
           /\ released' = released \cup {run[t]}
    BY <1>2 DEF ApproveResume
  <2>. QED  BY <1>0, <2>0, <2>1 DEF TypeOK, RunStep
<1>3. ASSUME NEW t \in Threads, RejectPhase1(t) \/ RejectPhase2(t) PROVE RunStep(r)
  <2>0. run[t] \in Runs /\ UNCHANGED <<released, failed>>
    BY <1>3 DEF RejectPhase1, RejectPhase2, Goto, TypeInv, Busy, histories
  <2>1. \/ engine' = engine
        \/ \E to \in {"waiting", "declined", engine[run[t]]} :
              engine' = [engine EXCEPT ![run[t]] = to]
    BY <1>3 DEF RejectPhase1, RejectPhase2
  <2>. QED  BY <1>0, <2>0, <2>1 DEF TypeOK, RunStep
<1>4. ASSUME NEW t \in Threads, EngineFails(t) PROVE RunStep(r)
  <2>1. released' = released /\ failed' = failed \cup {run[t]} /\ run[t] \in Runs
    BY <1>4 DEF EngineFails, TypeInv, Busy
  <2>2. \/ engine' = engine
        \/ \E to \in {"undrafted", "unpublished"} : engine' = [engine EXCEPT ![run[t]] = to]
    BY <1>4 DEF EngineFails
  <2>. QED  BY <1>0, <2>1, <2>2 DEF TypeOK, RunStep
<1>5. UNCHANGED <<engine, released, failed>> => RunStep(r)
  BY DEF RunStep
<1>6. ASSUME NEW t \in Threads,
             \/ StartClear(t) \/ StartFetch(t) \/ StartEnter(t) \/ Look(t) \/ Refuse(t)
             \/ ApproveAdmit(t) \/ ApproveNote(t) \/ RejectAdmit(t) \/ RejectNoteStatus(t)
             \/ RejectNoteDraft(t)
      PROVE  UNCHANGED <<engine, released, failed>>
  BY <1>6 DEF StartClear, StartFetch, StartEnter, Look, Refuse, ApproveAdmit, ApproveNote,
     RejectAdmit, RejectNoteStatus, RejectNoteDraft, Admit, engineVars, histories
<1>7. Restart \/ UNCHANGED vars => UNCHANGED <<engine, released, failed>>
  BY DEF Restart, vars, histories
<1>. QED  BY <1>1, <1>2, <1>3, <1>4, <1>5, <1>6, <1>7 DEF Next, Start, Approve, Reject

LEMMA TruthStep ==
  ASSUME TypeInv, TypeInv', TruthInv, [Next]_vars
  PROVE  TruthInv'
<1>0. TypeOK /\ TypeOK' /\ ~Empty.published
  BY DEF TypeInv, Empty
<1>1. \A r \in Runs : engine'[r] = "published" => r \in released'
  BY RunSteps DEF TruthInv, RunStep
<1>2. ~lastResult'.published
  <2>1. ASSUME NEW t \in Threads, StartExecute(t) PROVE ~lastResult'.published
    <3>1. PICK r \in Runs : lastResult' = [run |-> r, status |-> "waiting", draft |-> 1,
                                           published |-> FALSE]
      BY <2>1 DEF StartExecute
    <3>. QED  BY <3>1
  <2>1a. ASSUME NEW t \in Threads, StartFails(t) PROVE lastResult' = lastResult \/ ~lastResult'.published
    <3>1. PICK r \in Runs : \/ lastResult' = [run |-> r, status |-> "failed", draft |-> 0,
                                              published |-> FALSE]
                            \/ lastResult' = lastResult
      BY <2>1a DEF StartFails
    <3>. QED  BY <3>1
  <2>2. ASSUME (\E t \in Threads : StartClear(t)) \/ Restart PROVE lastResult' = Empty
    BY <2>2 DEF StartClear, Restart
  <2>3. ASSUME NEW t \in Threads,
               \/ StartFetch(t) \/ StartEnter(t) \/ Look(t) \/ Refuse(t) \/ Approve(t)
               \/ Reject(t) \/ EngineFails(t)
        PROVE  lastResult' = lastResult
    BY <2>3 DEF Approve, Reject, StartFetch, StartEnter, Look, Refuse, ApproveAdmit,
       ApproveResume, ApproveNote, RejectAdmit, RejectPhase1, RejectPhase2, RejectNoteStatus,
       RejectNoteDraft, EngineFails, Admit
  <2>4. UNCHANGED vars => lastResult' = lastResult
    BY DEF vars
  <2>. QED  BY <1>0, <2>1, <2>1a, <2>2, <2>3, <2>4 DEF TruthInv, Next, Start
<1>3. ASSUME NEW t \in Threads, result'[t].published
      PROVE  \/ result'[t] = result[t] /\ run'[t] = run[t]
             \/ Busy(t)' /\ run'[t] \in Runs /\ engine'[run'[t]] = "published"
  <2>1. ASSUME NEW u \in Threads, ApproveResume(u)
        PROVE  \/ result'[t] = result[t] /\ run'[t] = run[t]
               \/ Busy(t)' /\ run'[t] \in Runs /\ engine'[run'[t]] = "published"
    <3>1. CASE t = u
      <4>1. run' = run /\ pc[t] = "resume" /\ pc' = [pc EXCEPT ![t] = "note"]
        BY <2>1, <3>1 DEF ApproveResume, Goto
      <4>2. Busy(t) /\ Busy(t)' /\ run[t] \in Runs
        BY <1>0, <4>1 DEF TypeOK, TypeInv, Busy
      <4>3. CASE Publishable(engine[run[t]])
        <5>1. engine' = [engine EXCEPT ![run[t]] = "published"]
          BY <2>1, <3>1, <4>3 DEF ApproveResume
        <5>. QED  BY <1>0, <4>1, <4>2, <5>1 DEF TypeOK
      <4>4. CASE ~Publishable(engine[run[t]])
        <5>1. engine' = engine
          BY <2>1, <3>1, <4>4 DEF ApproveResume
        <5>2. PICK status : Answer(t, status, shown[run[t]], engine[run[t]] = "published")
          BY <2>1, <3>1, <4>4 DEF ApproveResume
        <5>3. result'[t].published = (engine[run[t]] = "published")
          BY <1>0, <5>2 DEF TypeOK, Answer
        <5>. QED  BY <1>3, <4>1, <4>2, <5>1, <5>3
      <4>. QED  BY <4>3, <4>4
    <3>2. CASE t # u
      <4>1. result'[t] = result[t]
        BY <1>0, <2>1, <3>2 DEF TypeOK, ApproveResume, Answer
      <4>2. run' = run
        BY <2>1 DEF ApproveResume
      <4>. QED  BY <4>1, <4>2
    <3>. QED  BY <3>1, <3>2
  <2>2. ASSUME NEW u \in Threads, Forget(u)
        PROVE  result'[t] = result[t] /\ run'[t] = run[t]
    <3>1. t # u
      <4>1. result'[u] = Empty
        BY <1>0, <2>2 DEF TypeOK, Forget
      <4>. QED  BY <1>0, <1>3, <4>1
    <3>. QED  BY <1>0, <2>2, <3>1 DEF TypeOK, Forget
  <2>3. ASSUME NEW u \in Threads, StartFetch(u)
        PROVE  result'[t] = result[t] /\ run'[t] = run[t]
    BY <1>0, <1>3, <2>3 DEF TypeOK, TruthInv, StartFetch
  <2>4. ASSUME NEW u \in Threads, NEW status, NEW draft, Answer(u, status, draft, FALSE), run' = run
        PROVE  result'[t] = result[t] /\ run'[t] = run[t]
    BY <1>0, <1>3, <2>4 DEF TypeOK, Answer
  <2>5. ASSUME NEW u \in Threads, Look(u)
        PROVE  result'[t] = result[t] /\ run'[t] = run[t]
    <3>1. result' = result /\ (t # u => run'[t] = run[t])
      BY <1>0, <2>5 DEF TypeOK, Look
    <3>2. ~Busy(u)
      BY <2>5 DEF Look, Goto, Busy
    <3>. QED  BY <1>3, <3>1, <3>2 DEF TruthInv
  <2>6. ASSUME NEW u \in Threads, RejectPhase2(u)
        PROVE  result'[t] = result[t] /\ run'[t] = run[t]
    <3>1. run' = run /\ \E status, draft : Answer(u, status, draft, FALSE)
      BY <2>6 DEF RejectPhase2
    <3>. QED  BY <2>4, <3>1
  <2>7. ASSUME NEW u \in Threads, EngineFails(u)
        PROVE  result'[t] = result[t] /\ run'[t] = run[t]
    <3>1. Forget(u) \/ (run' = run /\ Answer(u, "failed", 0, FALSE))
      BY <2>7 DEF EngineFails, FailedTo
    <3>. QED  BY <2>2, <2>4, <3>1
  <2>8. Restart => result'[t] = result[t] /\ run'[t] = run[t]
    BY <1>0, <1>3 DEF Restart
  <2>9. ASSUME NEW u \in Threads,
               \/ StartClear(u) \/ StartExecute(u) \/ StartFails(u) \/ ApproveAdmit(u)
               \/ RejectAdmit(u) \/ RejectPhase1(u) \/ RejectNoteStatus(u)
        PROVE  UNCHANGED <<result, run>>
    BY <2>9 DEF StartClear, StartExecute, StartFails, ApproveAdmit, RejectAdmit, RejectPhase1,
       RejectNoteStatus, Admit, threadVars
  <2>10. ASSUME NEW u \in Threads,
                StartEnter(u) \/ Refuse(u) \/ ApproveNote(u) \/ RejectNoteDraft(u)
         PROVE  Forget(u)
    BY <2>10 DEF StartEnter, Refuse, ApproveNote, RejectNoteDraft
  <2>11. UNCHANGED vars => UNCHANGED <<result, run>>
    BY DEF vars
  <2>. QED  BY <2>1, <2>2, <2>3, <2>5, <2>6, <2>7, <2>8, <2>9, <2>10, <2>11
            DEF Next, Start, Approve, Reject
<1>4. ASSUME NEW t \in Threads, result'[t].published PROVE Busy(t)' /\ run'[t] \in released'
  <2>1. CASE result'[t] = result[t] /\ run'[t] = run[t]
    <3>1. Busy(t) /\ run[t] \in released /\ run[t] \in Runs
      BY <1>4, <2>1 DEF TruthInv, TypeInv
    <3>2. run'[t] # NoRun
      BY <2>1, <3>1, IdsAssumption
    <3>. QED  BY <2>1, <3>1, <3>2, RunSteps DEF TypeInv, RunStep
  <2>2. CASE Busy(t)' /\ run'[t] \in Runs /\ engine'[run'[t]] = "published"
    BY <1>1, <2>2
  <2>. QED  BY <1>3, <1>4, <2>1, <2>2
<1>5. ASSUME NEW r \in Runs, records'[r].status = "published" PROVE r \in released'
  <2>1. ASSUME NEW t \in Threads, ApproveNote(t)
        PROVE  records[r].status = "published" \/ (result[t].published /\ run[t] = r)
    BY <1>0, <1>5, <2>1 DEF TypeOK, ApproveNote
  <2>2. ASSUME NEW t \in Threads,
               StartEnter(t) \/ RejectNoteStatus(t) \/ RejectNoteDraft(t)
        PROVE  records[r].status = "published"
    <3>1. result[t].status # "published"
      BY <1>0 DEF TypeOK, Results
    <3>2. CASE StartEnter(t)
      BY <1>0, <1>5, <3>1, <3>2 DEF TypeOK, StartEnter
    <3>3. CASE RejectNoteStatus(t)
      BY <1>0, <1>5, <3>1, <3>3 DEF TypeOK, RejectNoteStatus
    <3>4. CASE RejectNoteDraft(t)
      BY <1>0, <1>5, <3>4 DEF TypeOK, RejectNoteDraft
    <3>. QED  BY <2>2, <3>2, <3>3, <3>4
  <2>3. ASSUME NEW t \in Threads,
               \/ StartClear(t) \/ StartExecute(t) \/ StartFails(t) \/ StartFetch(t) \/ Look(t)
               \/ Refuse(t) \/ ApproveAdmit(t) \/ ApproveResume(t) \/ RejectAdmit(t)
               \/ RejectPhase1(t) \/ RejectPhase2(t) \/ EngineFails(t)
        PROVE  records' = records
    BY <2>3 DEF StartClear, StartExecute, StartFails, StartFetch, Look, Refuse, ApproveAdmit, ApproveResume,
       RejectAdmit, RejectPhase1, RejectPhase2, EngineFails, Admit
  <2>4. Restart => records[r].status = "published"
    BY <1>5 DEF Restart, NoRecord
  <2>5. records[r].status = "published" \/ \E t \in Threads : result[t].published /\ run[t] = r
    BY <1>5, <2>1, <2>2, <2>3, <2>4 DEF Next, Start, Approve, Reject, vars
  <2>. QED  BY <2>5, RunSteps DEF TruthInv, RunStep
<1>. QED  BY <1>1, <1>2, <1>4, <1>5 DEF TruthInv

(* A record says "published" only of a run that published a draft.          *)
THEOREM PublishedRecordsAreTrue == Spec => []PublishedIsTrue
<1>1. Init => TruthInv
  BY DEF Init, TruthInv, NoRecord, Empty
<1>2. TypeInv /\ TypeInv' /\ TruthInv /\ [Next]_vars => TruthInv'
  BY TruthStep
<1>3. TruthInv => PublishedIsTrue
  BY DEF TruthInv, PublishedIsTrue
<1>. QED  BY <1>1, <1>2, <1>3, ServiceTypeInvariance, PTL DEF Spec

(***************************************************************************)
(* Runs whose requests did not overlap.  A run nobody has started is known  *)
(* nowhere; one that is started is entered by the thread that started it,   *)
(* and then handled by one request at a time, whose place says how far the  *)
(* record and the engine agree.  A step that failed is remembered.          *)
(***************************************************************************)
NewInv(r) == engine[r] = "none" =>
    /\ records[r].status = "absent" /\ lastResult.run # r
    /\ \A t \in Threads : run[t] # r /\ result[t].run # r

FailInv(r) == engine[r] \in {"undrafted", "unpublished"} => r \in failed

Agrees(r) ==
    /\ records[r].status = "waiting" =>
          /\ records[r].draft = shown[r] /\ Open(engine[r])
          /\ engine[r] = "waiting" \/ r \in failed
    /\ engine[r] = "waiting" =>
          records[r].status = "waiting" \/ r \in failed \cup restarted

(* The answer of the engine to a rejection. *)
Answered(t, r) ==
    /\ result[t].status = "waiting" => engine[r] = "waiting" /\ result[t].draft = shown[r]
    /\ result[t].status # "waiting" => r \in failed

View(t, r) ==
    /\ pc[t] = "decide" => Agrees(r) /\ seen[t] = records[r].draft
    /\ pc[t] \in {"resume", "phase1"} =>
          Agrees(r) /\ records[r].status = "waiting" /\ seen[t] = shown[r]
    /\ pc[t] = "note" => engine[r] # "waiting"
    /\ pc[t] = "phase2" =>
          \/ engine[r] = "declined" /\ records[r].draft = shown[r]
          \/ engine[r] = "waiting" /\ r \in failed
    /\ pc[t] \in {"noteStatus", "noteDraft"} => Answered(t, r)
    /\ pc[t] = "noteDraft" => records[r].status = result[t].status

(* What a start has captured of its run, before it is entered.              *)
First(r, res) ==
    /\ res.status = "waiting" => engine[r] = "waiting" /\ res.draft = shown[r]
    /\ res.status # "waiting" => engine[r] # "waiting"
Fresh(r) == records[r].status = "absent" /\ \A t \in Threads : run[t] # r

Fetching(t, r) == pc[t] = "fetch" /\ lastResult.run = r
Entering(t, r) == pc[t] = "enter" /\ result[t].run = r

LoneInv(r) == r \notin overlapped =>
    /\ \A t, u \in Threads : run[t] = r /\ run[u] = r => t = u
    /\ \A t \in Threads : run[t] = r => View(t, r)
    /\ \A t \in Threads : Fetching(t, r) => Fresh(r) /\ First(r, lastResult) /\ Starting = {t}
    /\ \A t \in Threads : Entering(t, r) =>
          Fresh(r) /\ First(r, result[t]) /\ \A u \in Threads \ {t} : ~Entering(u, r)
    /\ (\A t \in Threads : run[t] # r /\ ~Fetching(t, r) /\ ~Entering(t, r)) => Agrees(r)

(* What r's failures and restarts excuse stays excused.                     *)
Excused(r) == (r \in failed => r \in failed') /\ (r \in restarted => r \in restarted')

(* A step of a thread that leaves the other threads as they are.            *)
Alone(t) == \A u \in Threads \ {t} : UNCHANGED <<pc[u], run[u], seen[u], result[u]>>

(* A request that is about another run, or turns to it. *)
LEMMA OtherRun ==
  ASSUME NEW r \in Runs, NEW t \in Threads, LoneInv(r), Alone(t),
         run[t] # r, run'[t] # r,
         pc[t] \notin {"execute", "fetch", "enter"}, pc'[t] \notin {"execute", "fetch", "enter"},
         UNCHANGED <<engine[r], shown[r], records[r], lastResult>>, overlapped \subseteq overlapped',
         Excused(r)
  PROVE  LoneInv(r)'
<1> SUFFICES ASSUME r \notin overlapped' PROVE LoneInv(r)'
  BY DEF LoneInv
<1>0. r \notin overlapped /\ Starting' = Starting
  BY DEF Starting, Alone
<1>1. \A u \in Threads : (run'[u] = r <=> run[u] = r) /\ (Fetching(u, r)' <=> Fetching(u, r))
                         /\ (Entering(u, r)' <=> Entering(u, r))
  BY DEF Alone, Fetching, Entering
<1>2. \A u \in Threads : run'[u] = r => u # t /\ UNCHANGED <<pc[u], seen[u], result[u]>>
  BY DEF Alone
<1>3. \A u \in Threads : Entering(u, r) => u # t /\ result'[u] = result[u]
  BY DEF Alone, Entering
<1>4. (Agrees(r) => Agrees(r)') /\ (Fresh(r) => Fresh(r)')
  BY <1>1 DEF Agrees, Fresh, Open, Excused
<1>5. \A u \in Threads : run'[u] = r => View(u, r)'
  BY <1>0, <1>1, <1>2, <1>4 DEF LoneInv, View, Answered, Excused
<1>6. (First(r, lastResult) => First(r, lastResult)')
      /\ \A u \in Threads : Entering(u, r) /\ First(r, result[u]) => First(r, result[u])'
  BY <1>3 DEF First
<1>. QED  BY <1>0, <1>1, <1>3, <1>4, <1>5, <1>6 DEF LoneInv

(* A request about a run goes on with it. *)
LEMMA SameRun ==
  ASSUME NEW r \in Runs, NEW t \in Threads, TypeInv, LoneInv(r), Alone(t), Busy(t), Busy(t)',
         run[t] = r, run'[t] = r, UNCHANGED lastResult, overlapped \subseteq overlapped',
         r \notin overlapped' => View(t, r)'
  PROVE  LoneInv(r)'
<1> SUFFICES ASSUME r \notin overlapped' PROVE LoneInv(r)'
  BY DEF LoneInv
<1>0. r \notin overlapped /\ \A u \in Threads : run[u] = r => u = t
  BY DEF LoneInv
<1>1. \A u \in Threads : run'[u] = r <=> u = t
  BY <1>0 DEF Alone
<1>2. \A u \in Threads : ~Fetching(u, r)' /\ ~Entering(u, r)'
  <2>1. \A u \in Threads : ~Fetching(u, r) /\ ~Entering(u, r)
    BY <1>0 DEF LoneInv, Fresh
  <2>. QED  BY <2>1 DEF Alone, Busy, Fetching, Entering
<1>. QED  BY <1>1, <1>2 DEF LoneInv

(* A request about a run ends with it. *)
LEMMA LeaveRun ==
  ASSUME NEW r \in Runs, NEW t \in Threads, TypeInv, LoneInv(r), Alone(t), Busy(t), pc'[t] = "idle",
         run[t] = r, run'[t] = NoRun, UNCHANGED lastResult, overlapped \subseteq overlapped',
         r \notin overlapped' => Agrees(r)'
  PROVE  LoneInv(r)'
<1> SUFFICES ASSUME r \notin overlapped' PROVE LoneInv(r)'
  BY DEF LoneInv
<1>0. r \notin overlapped /\ \A u \in Threads : run[u] = r => u = t
  BY DEF LoneInv
<1>1. \A u \in Threads : run'[u] # r
  BY <1>0, IdsAssumption DEF Alone
<1>2. \A u \in Threads : ~Fetching(u, r)' /\ ~Entering(u, r)'
  <2>1. \A u \in Threads : ~Fetching(u, r) /\ ~Entering(u, r)
    BY <1>0 DEF LoneInv, Fresh
  <2>. QED  BY <2>1 DEF Alone, Fetching, Entering
<1>. QED  BY <1>1, <1>2 DEF LoneInv

LEMMA AloneSteps ==
  ASSUME TypeOK, NEW t \in Threads,
         \/ StartEnter(t) \/ Refuse(t) \/ Approve(t) \/ Reject(t) \/ EngineFails(t)
  PROVE  /\ Alone(t) /\ lastResult' = lastResult /\ overlapped \subseteq overlapped'
         /\ \A r \in Runs : Excused(r)
<1>1. \A u \in Threads \ {t} : pc'[u] = pc[u]
  BY DEF TypeOK, Goto, Approve, Reject, StartEnter, Refuse, ApproveAdmit, ApproveResume,
     ApproveNote, RejectAdmit, RejectPhase1, RejectPhase2, RejectNoteStatus, RejectNoteDraft,
     Admit, EngineFails, FailedTo
<1>2. lastResult' = lastResult /\ overlapped' = overlapped /\ failed \subseteq failed'
      /\ restarted' = restarted
  BY DEF Approve, Reject, StartEnter, Refuse, ApproveAdmit, ApproveResume, ApproveNote,
     RejectAdmit, RejectPhase1, RejectPhase2, RejectNoteStatus, RejectNoteDraft, Admit,
     EngineFails, engineVars, histories
<1>3. \/ Forget(t)
      \/ /\ UNCHANGED <<run, seen>>
         /\ result' = result \/ \E status, draft, published : Answer(t, status, draft, published)
  <2>1. ASSUME ApproveResume(t)
        PROVE  UNCHANGED <<run, seen>> /\ \E status, draft, published : Answer(t, status, draft, published)
    <3>1. UNCHANGED <<run, seen>>
      BY <2>1 DEF ApproveResume
    <3>2. CASE Publishable(engine[run[t]])
      <4>1. Answer(t, "completed", shown[run[t]], TRUE)
        BY <2>1, <3>2 DEF ApproveResume
      <4>. QED  BY <3>1, <4>1
    <3>3. CASE ~Publishable(engine[run[t]])
      <4>1. Answer(t, IF engine[run[t]] = "undrafted" THEN "failed" ELSE "completed",
                   shown[run[t]], engine[run[t]] = "published")
        BY <2>1, <3>3 DEF ApproveResume
      <4>. QED  BY <3>1, <4>1, Zenon
    <3>. QED  BY <3>2, <3>3
  <2>2. ASSUME RejectPhase2(t)
        PROVE  UNCHANGED <<run, seen>> /\ \E status, draft, published : Answer(t, status, draft, published)
    BY <2>2 DEF RejectPhase2
  <2>3. ASSUME EngineFails(t)
        PROVE  Forget(t) \/ (UNCHANGED <<run, seen>> /\ Answer(t, "failed", 0, FALSE))
    BY <2>3 DEF EngineFails, FailedTo
  <2>4. StartEnter(t) \/ Refuse(t) \/ ApproveNote(t) \/ RejectNoteDraft(t) => Forget(t)
    BY DEF StartEnter, Refuse, ApproveNote, RejectNoteDraft
  <2>5. ApproveAdmit(t) \/ RejectAdmit(t) \/ RejectPhase1(t) \/ RejectNoteStatus(t)
           => UNCHANGED <<run, seen, result>>
    BY DEF ApproveAdmit, RejectAdmit, RejectPhase1, RejectNoteStatus, Admit, threadVars
  <2>. QED  BY <2>1, <2>2, <2>3, <2>4, <2>5 DEF Approve, Reject
<1>4. \A u \in Threads \ {t} : UNCHANGED <<run[u], seen[u], result[u]>>
  BY <1>3 DEF TypeOK, Forget, Answer
<1>. QED  BY <1>1, <1>2, <1>4 DEF Alone, Excused

LEMMA LoneDecision ==
  ASSUME TypeInv, TypeInv', NEW t \in Threads, Refuse(t) \/ Approve(t) \/ Reject(t) \/ EngineFails(t),
         NEW r \in Runs, LoneInv(r), FailInv(r)
  PROVE  LoneInv(r)'
<1>0. /\ TypeOK /\ TypeOK' /\ Busy(t) /\ run[t] \in Runs
      /\ Alone(t) /\ lastResult' = lastResult /\ overlapped \subseteq overlapped' /\ Excused(r)
  BY AloneSteps DEF TypeInv, Busy, Approve, Reject, Goto, Refuse, ApproveAdmit, ApproveResume,
     ApproveNote, RejectAdmit, RejectPhase1, RejectPhase2, RejectNoteStatus, RejectNoteDraft,
     Admit, EngineFails
<1>1. CASE run[t] # r
  <2>1. UNCHANGED <<engine[r], shown[r], records[r]>>
    BY <1>0, <1>1 DEF TypeOK, Approve, Reject, Refuse, ApproveAdmit, ApproveResume, ApproveNote,
       RejectAdmit, RejectPhase1, RejectPhase2, RejectNoteStatus, RejectNoteDraft, Admit,
       EngineFails, engineVars
  <2>2. run'[t] \in {run[t], NoRun}
    <3>1. run' = run \/ Forget(t)
      BY DEF Approve, Reject, Refuse, ApproveAdmit, ApproveResume, ApproveNote,
         RejectAdmit, RejectPhase1, RejectPhase2, RejectNoteStatus, RejectNoteDraft, Admit,
         EngineFails, FailedTo, threadVars
    <3>. QED  BY <1>0, <3>1 DEF TypeOK, Forget
  <2>3. pc'[t] \notin {"execute", "fetch", "enter"}
    <3>1. \E to \in {"idle", "resume", "note", "phase1", "phase2", "noteStatus", "noteDraft"} :
             pc' = [pc EXCEPT ![t] = to]
      BY DEF Approve, Reject, Goto, Refuse, ApproveAdmit, ApproveResume, ApproveNote, RejectAdmit,
         RejectPhase1, RejectPhase2, RejectNoteStatus, RejectNoteDraft, Admit, EngineFails, FailedTo
    <3>. QED  BY <1>0, <3>1 DEF TypeOK
  <2>. QED  BY <1>0, <1>1, <2>1, <2>2, <2>3, OtherRun, IdsAssumption DEF Busy
<1>2. CASE run[t] = r
  <2>0. r \notin overlapped => View(t, r)
    BY <1>2 DEF LoneInv
  <2>1. CASE Refuse(t)
    <3>1. /\ UNCHANGED <<engine, shown, records>> /\ pc[t] = "decide" /\ pc'[t] = "idle"
          /\ run'[t] = NoRun
      BY <1>0, <2>1 DEF TypeOK, Refuse, Goto, Forget, engineVars
    <3>2. r \notin overlapped' => Agrees(r)'
      BY <1>0, <2>0, <3>1 DEF View, Agrees, Open, Excused
    <3>. QED  BY <1>0, <1>2, <3>1, <3>2, LeaveRun
  <2>2. CASE ApproveAdmit(t) \/ RejectAdmit(t)
    <3>1. /\ UNCHANGED <<engine, shown, records, run, seen, result>>
          /\ pc[t] = "decide" /\ pc'[t] \in {"resume", "phase1"}
          /\ records[r].status = "waiting"
      BY <1>0, <1>2, <2>2 DEF TypeOK, ApproveAdmit, RejectAdmit, Admit, Goto, Waiting, engineVars, threadVars
    <3>2. r \notin overlapped' => View(t, r)'
      BY <1>0, <2>0, <3>1 DEF View, Agrees, Open, Excused
    <3>. QED  BY <1>0, <1>2, <3>1, <3>2, SameRun DEF Busy
  <2>3. CASE ApproveResume(t)
    <3>1. pc[t] = "resume" /\ pc'[t] = "note" /\ run' = run
      BY <1>0, <2>3 DEF TypeOK, ApproveResume, Goto
    <3>2. engine'[r] # "waiting"
      <4>1. CASE Publishable(engine[r])
        BY <1>0, <1>2, <2>3, <4>1 DEF TypeOK, ApproveResume
      <4>2. CASE ~Publishable(engine[r])
        BY <1>2, <2>3, <4>2 DEF ApproveResume, Publishable
      <4>. QED  BY <4>1, <4>2
    <3>3. View(t, r)'
      BY <3>1, <3>2 DEF View
    <3>. QED  BY <1>0, <1>2, <3>1, <3>3, SameRun DEF Busy
  <2>4. CASE ApproveNote(t)
    <3>1. pc[t] = "note" /\ pc'[t] = "idle" /\ run'[t] = NoRun /\ UNCHANGED <<engine, shown>>
      BY <1>0, <2>4 DEF TypeOK, ApproveNote, Goto, Forget, engineVars
    <3>2. records'[r].status \in {"published", "completed"}
      BY <1>0, <1>2, <2>4 DEF TypeOK, ApproveNote
    <3>3. r \notin overlapped' => Agrees(r)'
      BY <1>0, <2>0, <3>1, <3>2 DEF View, Agrees
    <3>. QED  BY <1>0, <1>2, <3>1, <3>3, LeaveRun
  <2>5. CASE RejectPhase1(t)
    <3>1. pc[t] = "phase1" /\ pc'[t] = "phase2" /\ run' = run /\ records' = records
      BY <1>0, <2>5 DEF TypeOK, RejectPhase1, Goto, threadVars
    <3>2. ASSUME r \notin overlapped'
          PROVE  \/ engine'[r] = "declined" /\ records'[r].draft = shown'[r]
                 \/ engine'[r] = "waiting" /\ r \in failed'
      <4>1. Open(engine[r]) /\ records[r].draft = shown[r]
        BY <1>0, <2>0, <3>1, <3>2 DEF View, Agrees
      <4>2. CASE engine[r] = "undrafted"
        <5>1. engine'[r] = "waiting"
          BY <1>0, <1>2, <2>5, <4>2 DEF TypeOK, RejectPhase1
        <5>. QED  BY <1>0, <4>2, <5>1 DEF FailInv, Excused
      <4>3. CASE engine[r] \in {"waiting", "unpublished"}
        <5>1. engine'[r] = "declined" /\ shown' = shown
          BY <1>0, <1>2, <2>5, <4>3 DEF TypeOK, RejectPhase1
        <5>. QED  BY <3>1, <4>1, <5>1
      <4>. QED  BY <4>1, <4>2, <4>3 DEF Open
    <3>3. r \notin overlapped' => View(t, r)'
      BY <3>1, <3>2 DEF View
    <3>. QED  BY <1>0, <1>2, <3>1, <3>3, SameRun DEF Busy
  <2>6. CASE RejectPhase2(t)
    <3>1. pc[t] = "phase2" /\ pc'[t] = "noteStatus" /\ run' = run
      BY <1>0, <2>6 DEF TypeOK, RejectPhase2, Goto
    <3>2. ASSUME r \notin overlapped' PROVE Answered(t, r)'
      <4>1. CASE engine[r] = "waiting"
        <5>1. r \in failed
          BY <1>0, <2>0, <3>1, <3>2, <4>1 DEF View
        <5>2. Answer(t, "unknown", 0, FALSE)
          BY <1>2, <2>6, <4>1 DEF RejectPhase2
        <5>3. result'[t].status = "unknown"
          BY <1>0, <5>2 DEF TypeOK, Answer
        <5>. QED  BY <1>0, <5>1, <5>3 DEF Answered, Excused
      <4>2. CASE engine[r] # "waiting"
        <5>1. /\ engine' = [engine EXCEPT ![r] = "waiting"]
              /\ shown' = [shown EXCEPT ![r] = shown[r] + 1]
              /\ Answer(t, "waiting", shown[r] + 1, FALSE)
          BY <1>2, <2>6, <4>2 DEF RejectPhase2
        <5>2. result'[t].status = "waiting" /\ result'[t].draft = shown[r] + 1
          BY <1>0, <5>1 DEF TypeOK, Answer
        <5>. QED  BY <1>0, <5>1, <5>2 DEF TypeOK, Answered
      <4>. QED  BY <4>1, <4>2
    <3>3. r \notin overlapped' => View(t, r)'
      BY <3>1, <3>2 DEF View
    <3>. QED  BY <1>0, <1>2, <3>1, <3>3, SameRun DEF Busy
  <2>7. CASE RejectNoteStatus(t)
    <3>1. /\ pc[t] = "noteStatus" /\ pc'[t] = "noteDraft"
          /\ UNCHANGED <<run, engine, shown, result>>
      BY <1>0, <2>7 DEF TypeOK, RejectNoteStatus, Goto, threadVars, engineVars
    <3>2. records'[r].status = result[t].status
      BY <1>0, <1>2, <2>7 DEF TypeOK, RejectNoteStatus
    <3>3. r \notin overlapped' => View(t, r)'
      BY <1>0, <2>0, <3>1, <3>2 DEF View, Answered, Excused
    <3>. QED  BY <1>0, <1>2, <3>1, <3>3, SameRun DEF Busy
  <2>8. CASE RejectNoteDraft(t)
    <3>1. pc[t] = "noteDraft" /\ pc'[t] = "idle" /\ run'[t] = NoRun /\ UNCHANGED <<engine, shown>>
      BY <1>0, <2>8 DEF TypeOK, RejectNoteDraft, Goto, Forget, engineVars
    <3>2. records'[r].status = records[r].status /\ records'[r].draft = result[t].draft
      BY <1>0, <1>2, <2>8 DEF TypeOK, RejectNoteDraft
    <3>3. r \notin overlapped' => Agrees(r)'
      BY <1>0, <2>0, <3>1, <3>2 DEF View, Agrees, Answered, Open, Excused
    <3>. QED  BY <1>0, <1>2, <3>1, <3>3, LeaveRun
  <2>9. CASE EngineFails(t)
    <3>1. r \in failed' /\ UNCHANGED <<shown, records>>
      BY <1>2, <2>9 DEF EngineFails
    (* Where the call came from, and what it leaves of the run. *)
    <3>2. ASSUME r \notin overlapped'
          PROVE  /\ records[r].status = "waiting" => records[r].draft = shown[r] /\ Open(engine'[r])
                 /\ pc[t] = "resume" => engine'[r] = "unpublished"
      <4>1. CASE pc[t] \in {"resume", "phase1"}
        <5>1. records[r].draft = shown[r] /\ Open(engine[r])
          BY <1>0, <2>0, <3>2, <4>1 DEF View, Agrees
        <5>2. pc[t] = "resume" => engine'[r] = "unpublished"
          BY <1>0, <1>2, <2>9 DEF TypeOK, EngineFails
        <5>3. pc[t] = "phase1" => engine' = engine
          BY <2>9 DEF EngineFails
        <5>. QED  BY <4>1, <5>1, <5>2, <5>3 DEF Open
      <4>2. CASE pc[t] = "phase2"
        <5>1. engine[r] \in {"declined", "published"} /\ engine'[r] = "undrafted"
          BY <1>0, <1>2, <2>9, <4>2 DEF TypeOK, EngineFails
        <5>2. records[r].draft = shown[r]
          BY <1>0, <2>0, <3>2, <4>2, <5>1 DEF View
        <5>. QED  BY <4>2, <5>1, <5>2 DEF Open
      <4>. QED  BY <2>9, <4>1, <4>2 DEF EngineFails
    <3>3. PICK next \in {"note", "noteStatus"} :
             FailedTo(t, next) /\ (next = "note" => pc[t] = "resume")
      BY <2>9 DEF EngineFails
    <3>4. CASE pc' = [pc EXCEPT ![t] = "idle"] /\ Forget(t)
      <4>1. r \notin overlapped' => Agrees(r)'
        BY <3>1, <3>2 DEF Agrees
      <4>2. pc'[t] = "idle" /\ run'[t] = NoRun
        BY <1>0, <3>4 DEF TypeOK, Forget
      <4>. QED  BY <1>0, <1>2, <4>1, <4>2, LeaveRun
    <3>5. CASE pc' = [pc EXCEPT ![t] = next] /\ Answer(t, "failed", 0, FALSE) /\ UNCHANGED <<run, seen>>
      <4>1. pc'[t] = next /\ run'[t] = r /\ result'[t].status = "failed"
        BY <1>0, <1>2, <3>5 DEF TypeOK, Answer
      <4>2. Answered(t, r)'
        BY <3>1, <4>1 DEF Answered
      <4>3. r \notin overlapped' => View(t, r)'
        BY <3>2, <3>3, <4>1, <4>2 DEF View
      <4>. QED  BY <1>0, <1>2, <4>1, <4>3, SameRun DEF Busy
    <3>. QED  BY <3>3, <3>4, <3>5 DEF FailedTo
  <2>. QED  BY <2>1, <2>2, <2>3, <2>4, <2>5, <2>6, <2>7, <2>8, <2>9 DEF Approve, Reject
<1>. QED  BY <1>1, <1>2

LEMMA LoneLook ==
  ASSUME TypeInv, TypeInv', NEW t \in Threads, Look(t), NEW r \in Runs, LoneInv(r), NewInv(r)
  PROVE  LoneInv(r)'
<1>0. TypeOK /\ TypeOK' /\ pc[t] = "idle" /\ pc'[t] = "decide" /\ run[t] = NoRun
  BY DEF TypeInv, TypeOK, Look, Goto, Busy
<1>1. PICK q \in Runs : /\ records[q].status # "absent"
                        /\ run' = [run EXCEPT ![t] = q]
                        /\ seen' = [seen EXCEPT ![t] = records[q].draft]
                        /\ Cross(t, q)
  BY DEF Look
<1>2. Alone(t) /\ overlapped \subseteq overlapped' /\ Excused(r)
      /\ UNCHANGED <<engine, shown, records, lastResult, result, failed, restarted>>
  BY <1>0, <1>1 DEF TypeOK, Look, Goto, Alone, Cross, Excused
<1>3. CASE q # r
  BY <1>0, <1>1, <1>2, <1>3, OtherRun, IdsAssumption DEF TypeOK
<1>4. CASE q = r
  <2> SUFFICES ASSUME r \notin overlapped' PROVE LoneInv(r)'
    BY DEF LoneInv
  <2>1. r \notin overlapped /\ \A u \in Threads : run[u] # r
    <3>1. \A u \in Threads \ {t} : run[u] # r
      BY <1>4, <1>1 DEF Cross
    <3>. QED  BY <1>0, <1>2, <3>1, IdsAssumption
  <2>2. \A u \in Threads : ~Fetching(u, r) /\ ~Entering(u, r)
    BY <1>1, <1>4, <2>1 DEF LoneInv, Fresh
  <2>3. Agrees(r)
    BY <2>1, <2>2 DEF LoneInv
  <2>4. run'[t] = r /\ seen'[t] = records[r].draft /\ \A u \in Threads \ {t} : run'[u] # r
    BY <1>0, <1>1, <1>4, <2>1 DEF TypeOK
  <2>5. View(t, r)'
    BY <1>0, <1>2, <2>3, <2>4 DEF View, Agrees, Open
  <2>6. \A u \in Threads : ~Fetching(u, r)' /\ ~Entering(u, r)'
    BY <1>0, <1>2, <2>2 DEF Alone, Fetching, Entering
  <2>. QED  BY <2>4, <2>5, <2>6 DEF LoneInv
<1>. QED  BY <1>3, <1>4

(* A thread that starts a run neither has one on its hands nor touches      *)
(* those that others have.                                                  *)
LEMMA StartingAlone ==
  ASSUME TypeInv, NEW t \in Threads, Start(t)
  PROVE  /\ Alone(t) /\ run[t] = NoRun /\ run'[t] = NoRun /\ overlapped \subseteq overlapped'
         /\ \A r \in Runs : Excused(r)
         /\ pc[t] \notin {"decide", "resume", "note", "phase1", "phase2", "noteStatus", "noteDraft"}
         /\ pc'[t] \notin {"decide", "resume", "note", "phase1", "phase2", "noteStatus", "noteDraft"}
<1>0. TypeOK
  BY DEF TypeInv
<1>1. /\ pc[t] \in {"idle", "execute", "fetch", "enter"}
      /\ \E to \in {"idle", "execute", "fetch", "enter"} : pc' = [pc EXCEPT ![t] = to]
  BY DEF Start, StartClear, StartExecute, StartFails, StartFetch, StartEnter, Goto
<1>2. run[t] = NoRun
  BY <1>1 DEF TypeInv, Busy
<1>3. UNCHANGED <<run, seen>> \/ Forget(t)
  BY DEF Start, StartClear, StartExecute, StartFails, StartFetch, StartEnter, threadVars
<1>4. result' = result \/ result' = [result EXCEPT ![t] = lastResult] \/ Forget(t)
  BY DEF Start, StartClear, StartExecute, StartFails, StartFetch, StartEnter, threadVars
<1>5. overlapped \subseteq overlapped' /\ failed \subseteq failed' /\ restarted' = restarted
  BY DEF Start, StartClear, StartExecute, StartFails, StartFetch, StartEnter, Cross, engineVars, histories
<1>. QED  BY <1>0, <1>1, <1>2, <1>3, <1>4, <1>5 DEF TypeOK, Alone, Forget, Excused

LEMMA LoneStart ==
  ASSUME TypeInv, TypeInv', NEW t \in Threads, Start(t), NEW r \in Runs, LoneInv(r), NewInv(r)
  PROVE  LoneInv(r)'
<1> SUFFICES ASSUME r \notin overlapped' PROVE LoneInv(r)'
  BY DEF LoneInv
<1>0. /\ TypeOK /\ Alone(t) /\ r \notin overlapped /\ Excused(r)
      /\ run[t] # r /\ run'[t] # r
  BY StartingAlone, IdsAssumption DEF TypeInv
<1>1. \A u \in Threads : run'[u] = r => run[u] = r /\ u # t /\ UNCHANGED <<pc[u], seen[u], result[u]>>
  BY <1>0 DEF Alone
<1>2. \A u \in Threads : run[u] # r => run'[u] # r
  BY <1>0 DEF Alone
<1>3. \A u \in Threads \ {t} : Entering(u, r)' <=> Entering(u, r)
  BY <1>0 DEF Alone, Entering
(* It suffices that the run's state is kept where another request has it.   *)
<1>4. ASSUME UNCHANGED <<engine[r], shown[r], records[r]>>
      PROVE  /\ \A u \in Threads : run'[u] = r => View(u, r)'
             /\ \A u, v \in Threads : run'[u] = r /\ run'[v] = r => u = v
             /\ Fresh(r) => Fresh(r)'
             /\ Agrees(r) => Agrees(r)'
             /\ \A u \in Threads \ {t} : First(r, result[u]) => First(r, result[u])'
  <2>1. (Agrees(r) => Agrees(r)') /\ (Fresh(r) => Fresh(r)')
    BY <1>0, <1>2, <1>4 DEF Agrees, Fresh, Open, Excused
  <2>2. \A u \in Threads : run'[u] = r => View(u, r)'
    BY <1>0, <1>1, <1>4, <2>1 DEF LoneInv, View, Answered, Excused
  <2>3. \A u \in Threads \ {t} : First(r, result[u]) => First(r, result[u])'
    BY <1>0, <1>4 DEF Alone, First
  <2>. QED  BY <1>0, <1>1, <2>1, <2>2, <2>3 DEF LoneInv
<1>5. CASE StartClear(t)
  <2>1. /\ UNCHANGED <<engine, shown, records, result, run>> /\ lastResult' = Empty
        /\ pc[t] = "idle" /\ pc'[t] = "execute"
    BY <1>0, <1>5 DEF TypeOK, StartClear, Goto, threadVars
  <2>2. \A u \in Threads : ~Fetching(u, r)
    BY <1>0, <1>5 DEF StartClear, Fetching
  <2>3. \A u \in Threads : ~Fetching(u, r)'
    BY <2>1, IdsAssumption DEF Fetching, Empty
  <2>4. \A u \in Threads : Entering(u, r)' <=> Entering(u, r) /\ u # t
    BY <1>3, <2>1 DEF Entering
  <2>5. /\ \A u \in Threads : run'[u] = r => View(u, r)'
        /\ \A u, v \in Threads : run'[u] = r /\ run'[v] = r => u = v
        /\ Fresh(r) => Fresh(r)'
        /\ Agrees(r) => Agrees(r)'
        /\ \A u \in Threads \ {t} : First(r, result[u]) => First(r, result[u])'
    BY <1>4, <2>1
  <2>6. \A u \in Threads : Entering(u, r)' =>
           Fresh(r)' /\ First(r, result[u])' /\ \A v \in Threads \ {u} : ~Entering(v, r)'
    BY <1>0, <2>4, <2>5 DEF LoneInv
  <2>7. (\A u \in Threads : run'[u] # r /\ ~Entering(u, r)') => Agrees(r)'
    <3>1. \A u \in Threads : Entering(u, r) => u # t
      BY <2>1 DEF Entering
    <3>. QED  BY <1>0, <2>1, <2>2, <2>4, <2>5, <3>1 DEF LoneInv
  <2>. QED  BY <2>3, <2>5, <2>6, <2>7 DEF LoneInv
<1>6. CASE StartExecute(t) \/ StartFails(t)
  <2>1. PICK q \in Runs :
          /\ engine[q] = "none"
          /\ \/ /\ engine' = [engine EXCEPT ![q] = "waiting"]
                /\ shown' = [shown EXCEPT ![q] = 1]
                /\ lastResult' = [run |-> q, status |-> "waiting", draft |-> 1,
                                  published |-> FALSE]
                /\ pc' = [pc EXCEPT ![t] = "fetch"]
             \/ /\ engine' = [engine EXCEPT ![q] = "undrafted"]
                /\ shown' = shown /\ failed' = failed \cup {q}
                /\ \/ /\ lastResult' = [run |-> q, status |-> "failed", draft |-> 0,
                                        published |-> FALSE]
                      /\ pc' = [pc EXCEPT ![t] = "fetch"]
                   \/ lastResult' = lastResult /\ pc' = [pc EXCEPT ![t] = "idle"]
          /\ Cross(t, q)
    BY <1>6 DEF StartExecute, StartFails, Goto
  <2>2. /\ UNCHANGED <<records, result, run>> /\ pc[t] = "execute" /\ pc'[t] \in {"fetch", "idle"}
    <3>1. UNCHANGED <<records, result, run>> /\ pc[t] = "execute"
      BY <1>6 DEF StartExecute, StartFails, Goto, threadVars
    <3>. QED  BY <1>0, <2>1, <3>1 DEF TypeOK
  <2>3. t \in Starting
    BY <2>2 DEF Starting
  <2>4. \A u \in Threads : Entering(u, r)' <=> Entering(u, r) /\ u # t
    BY <1>3, <2>2 DEF Entering
  <2>5. CASE q = r
    <3>1. \A u \in Threads \ {t} : run[u] # r /\ u \notin Starting
      BY <2>1, <2>3, <2>5 DEF Cross
    <3>2. Fresh(r)'
      BY <1>0, <1>2, <2>1, <2>2, <2>5, <3>1 DEF TypeOK, Fresh, NewInv
    <3>3. \A u \in Threads : ~Entering(u, r)'
      BY <2>2, <2>4, <3>1 DEF Entering, Starting
    <3>4. CASE pc'[t] = "fetch"
      <4>1. First(r, lastResult)' /\ lastResult'.run = r
        BY <1>0, <2>1, <2>5, <3>4 DEF TypeOK, First
      <4>2. Starting' = {t}
        BY <1>0, <2>2, <3>1, <3>4 DEF Starting, Alone
      <4>3. Fetching(t, r)' /\ \A u \in Threads : Fetching(u, r)' => u = t
        BY <3>4, <4>1, <4>2 DEF Fetching, Starting
      <4>. QED  BY <3>2, <3>3, <4>1, <4>2, <4>3 DEF LoneInv, Fresh
    <3>5. CASE pc'[t] = "idle"
      <4>1. engine'[r] = "undrafted" /\ records'[r].status = "absent"
        BY <1>0, <2>1, <2>2, <2>5, <3>2, <3>5 DEF TypeOK, Fresh
      <4>2. \A u \in Threads : ~Fetching(u, r)'
        BY <1>0, <2>2, <3>1, <3>5 DEF Fetching, Starting, Alone
      <4>3. Agrees(r)'
        BY <4>1 DEF Agrees
      <4>. QED  BY <3>2, <3>3, <4>2, <4>3 DEF LoneInv, Fresh
    <3>. QED  BY <2>2, <3>4, <3>5
  <2>6. CASE q # r
    <3>1. UNCHANGED <<engine[r], shown[r], records[r]>>
      BY <1>0, <2>1, <2>2, <2>6 DEF TypeOK
    <3>2. \A u \in Threads : ~Fetching(u, r)
      BY <1>0, <2>2, <2>3 DEF LoneInv, Fetching
    <3>3. \A u \in Threads : ~Fetching(u, r)'
      <4>1. lastResult'.run = q \/ (lastResult' = lastResult /\ pc'[t] = "idle")
        BY <1>0, <2>1 DEF TypeOK
      <4>. QED  BY <1>0, <2>6, <3>2, <4>1 DEF Fetching, Alone
    <3>4. /\ \A u \in Threads : run'[u] = r => View(u, r)'
          /\ \A u, v \in Threads : run'[u] = r /\ run'[v] = r => u = v
          /\ Fresh(r) => Fresh(r)'
          /\ Agrees(r) => Agrees(r)'
          /\ \A u \in Threads \ {t} : First(r, result[u]) => First(r, result[u])'
      BY <1>4, <3>1
    <3>5. \A u \in Threads : Entering(u, r)' =>
             Fresh(r)' /\ First(r, result[u])' /\ \A v \in Threads \ {u} : ~Entering(v, r)'
      BY <1>0, <2>4, <3>4 DEF LoneInv
    <3>6. (\A u \in Threads : run'[u] # r /\ ~Entering(u, r)') => Agrees(r)'
      <4>1. \A u \in Threads : Entering(u, r) => u # t
        BY <2>2 DEF Entering
      <4>. QED  BY <1>0, <2>2, <2>4, <3>2, <3>4, <4>1 DEF LoneInv
    <3>. QED  BY <3>3, <3>4, <3>5, <3>6 DEF LoneInv
  <2>. QED  BY <2>5, <2>6
<1>7. CASE StartFetch(t)
  <2>1. /\ UNCHANGED <<engine, shown, records, run, lastResult>>
        /\ pc[t] = "fetch" /\ pc'[t] = "enter" /\ result'[t] = lastResult
    BY <1>0, <1>7 DEF TypeOK, StartFetch, Goto, engineVars
  <2>2. \A u \in Threads \ {t} : Fetching(u, r)' <=> Fetching(u, r)
    BY <1>0, <2>1 DEF Alone, Fetching
  <2>3. CASE lastResult.run = r
    <3>1. Fresh(r) /\ First(r, lastResult) /\ Starting = {t}
      BY <1>0, <2>1, <2>3 DEF LoneInv, Fetching
    <3>2. \A u \in Threads \ {t} : ~Fetching(u, r)' /\ ~Entering(u, r)'
      BY <1>3, <2>2, <3>1 DEF Fetching, Entering, Starting
    <3>3. Entering(t, r)' /\ ~Fetching(t, r)'
      BY <2>1, <2>3 DEF Entering, Fetching
    <3>4. First(r, result[t])'
      BY <2>1, <3>1 DEF First
    <3>. QED  BY <1>4, <2>1, <3>1, <3>2, <3>3, <3>4 DEF LoneInv
  <2>4. CASE lastResult.run # r
    <3>1. \A u \in Threads : ~Fetching(u, r) /\ ~Fetching(u, r)' /\ (Entering(u, r)' <=> Entering(u, r))
      BY <1>3, <2>1, <2>4 DEF Fetching, Entering
    <3>2. \A u \in Threads : Entering(u, r) => u # t
      BY <1>0, <2>1 DEF Alone, Entering
    <3>. QED  BY <1>0, <1>2, <1>4, <2>1, <3>1, <3>2 DEF LoneInv
  <2>. QED  BY <2>3, <2>4
<1>8. CASE StartEnter(t)
  <2>1. /\ UNCHANGED <<engine, shown, lastResult>> /\ pc[t] = "enter" /\ pc'[t] = "idle"
        /\ records' = [records EXCEPT ![result[t].run] =
                           [status |-> result[t].status, draft |-> result[t].draft]]
    BY <1>0, <1>8 DEF TypeOK, StartEnter, Goto, engineVars
  <2>2. \A u \in Threads : Fetching(u, r)' <=> Fetching(u, r)
    BY <1>0, <2>1 DEF Alone, Fetching
  <2>3. ~Entering(t, r)'
    BY <2>1 DEF Entering
  <2>4. CASE result[t].run = r
    <3>1. Fresh(r) /\ First(r, result[t]) /\ \A u \in Threads \ {t} : ~Entering(u, r)
      BY <1>0, <2>1, <2>4 DEF LoneInv, Entering
    <3>2. \A u \in Threads : ~Fetching(u, r)
      BY <1>0, <2>1 DEF LoneInv, Fetching, Starting
    <3>3. records'[r].status = result[t].status /\ records'[r].draft = result[t].draft
      BY <1>0, <2>1, <2>4 DEF TypeOK
    <3>4. Agrees(r)'
      BY <2>1, <3>1, <3>3 DEF First, Agrees, Open
    <3>5. \A u \in Threads : run'[u] # r
      BY <1>2, <3>1 DEF Fresh
    <3>. QED  BY <1>3, <2>2, <2>3, <3>1, <3>2, <3>4, <3>5 DEF LoneInv
  <2>5. CASE result[t].run # r
    <3>1. UNCHANGED <<engine[r], shown[r], records[r]>>
      BY <1>0, <2>1, <2>5 DEF TypeOK
    <3>2. \A u \in Threads : Entering(u, r) => u # t
      BY <2>5 DEF Entering
    <3>3. \A u \in Threads : Fetching(u, r) => Starting = {u} /\ FALSE
      BY <1>0, <2>1 DEF LoneInv, Fetching, Starting
    <3>4. \A u \in Threads : (Entering(u, r)' <=> Entering(u, r)) /\ ~Fetching(u, r) /\ ~Fetching(u, r)'
      BY <1>3, <2>2, <2>3, <3>2, <3>3
    <3>5. /\ \A u \in Threads : run'[u] = r => View(u, r)'
          /\ \A u, v \in Threads : run'[u] = r /\ run'[v] = r => u = v
          /\ Fresh(r) => Fresh(r)'
          /\ Agrees(r) => Agrees(r)'
          /\ \A u \in Threads \ {t} : First(r, result[u]) => First(r, result[u])'
      BY <1>4, <3>1
    <3>6. \A u \in Threads : Entering(u, r)' =>
             Fresh(r)' /\ First(r, result[u])' /\ \A v \in Threads \ {u} : ~Entering(v, r)'
      BY <1>0, <3>2, <3>4, <3>5 DEF LoneInv
    <3>7. (\A u \in Threads : run'[u] # r /\ ~Entering(u, r)') => Agrees(r)'
      <4>1. (\A u \in Threads : run'[u] # r) => \A u \in Threads : run[u] # r
        BY <1>0 DEF Alone
      <4>. QED  BY <1>0, <3>4, <3>5, <4>1 DEF LoneInv
    <3>. QED  BY <3>4, <3>5, <3>6, <3>7 DEF LoneInv
  <2>. QED  BY <2>4, <2>5
<1>. QED  BY <1>5, <1>6, <1>7, <1>8 DEF Start

LEMMA LoneRestart ==
  ASSUME Restart, NEW r \in Runs, LoneInv(r)
  PROVE  LoneInv(r)'
<1> SUFFICES ASSUME r \notin overlapped' PROVE LoneInv(r)'
  BY DEF LoneInv
<1>1. engine' = engine /\ records'[r] = NoRecord /\ (engine[r] # "none" => r \in restarted')
  BY DEF Restart
<1>2. \A u \in Threads : run'[u] # r /\ pc'[u] = "idle"
  BY IdsAssumption DEF Restart
<1>3. Agrees(r)'
  BY <1>1 DEF Agrees, NoRecord
<1>. QED  BY <1>2, <1>3 DEF LoneInv, Fetching, Entering

(* A run is heard of when it starts. *)
LEMMA NewStep ==
  ASSUME TypeInv, TypeInv', [Next]_vars, NEW r \in Runs, NewInv(r)
  PROVE  NewInv(r)'
<1> SUFFICES ASSUME engine'[r] = "none" PROVE NewInv(r)'
  BY DEF NewInv
<1>0. TypeOK /\ TypeOK' /\ engine[r] = "none"
  BY RunSteps DEF TypeInv, RunStep
<1>1. /\ records[r].status = "absent" /\ lastResult.run # r
      /\ \A t \in Threads : run[t] # r /\ result[t].run # r
  BY <1>0 DEF NewInv
<1>2. records'[r].status = "absent"
  <2>2. ASSUME NEW t \in Threads, Start(t) PROVE records'[r].status = "absent"
    <3>1. result[t].run \in Runs \cup {NoRun} /\ result[t].run # r
      BY <1>0, <1>1 DEF TypeOK, Results
    <3>2. records' = records \/ \E rec : records' = [records EXCEPT ![result[t].run] = rec]
      BY <2>2 DEF Start, StartClear, StartExecute, StartFails, StartFetch, StartEnter
    <3>. QED  BY <1>0, <1>1, <3>1, <3>2 DEF TypeOK
  <2>3. ASSUME NEW t \in Threads, Look(t) \/ Refuse(t) \/ Approve(t) \/ Reject(t) \/ EngineFails(t)
        PROVE  records'[r].status = "absent"
    <3>1. run[t] \in Runs \cup {NoRun} /\ run[t] # r
      BY <1>0, <1>1 DEF TypeOK
    <3>. QED  BY <1>0, <1>1, <2>3, <3>1 DEF TypeOK, Look, Refuse, Approve, Reject, EngineFails,
         ApproveAdmit, ApproveResume, ApproveNote, RejectAdmit, RejectPhase1, RejectPhase2,
         RejectNoteStatus, RejectNoteDraft, Admit
  <2>4. Restart \/ UNCHANGED vars => records'[r].status = "absent"
    BY <1>1 DEF Restart, NoRecord, vars
  <2>. QED  BY <2>2, <2>3, <2>4 DEF Next
<1>3. lastResult'.run # r
  <2>1. ASSUME NEW t \in Threads, StartExecute(t) \/ StartFails(t) PROVE lastResult'.run # r
    <3>1. PICK q \in Runs : /\ \E to \in {"waiting", "undrafted"} :
                                  engine' = [engine EXCEPT ![q] = to]
                            /\ \/ lastResult' = lastResult
                               \/ \E status, draft :
                                    lastResult' = [run |-> q, status |-> status, draft |-> draft,
                                                   published |-> FALSE]
      BY <2>1 DEF StartExecute, StartFails
    <3>2. q # r
      BY <1>0, <3>1 DEF TypeOK
    <3>. QED  BY <1>1, <3>1, <3>2
  <2>2. ASSUME NEW t \in Threads, StartClear(t) PROVE lastResult'.run # r
    BY <2>2, IdsAssumption DEF StartClear, Empty
  <2>3. ASSUME NEW t \in Threads, StartFetch(t) \/ StartEnter(t) \/ Look(t) PROVE lastResult' = lastResult
    BY <2>3 DEF StartFetch, StartEnter, Look
  <2>4. ASSUME NEW t \in Threads, Refuse(t) \/ Approve(t) \/ Reject(t) \/ EngineFails(t)
        PROVE  lastResult' = lastResult
    BY <1>0, <2>4, AloneSteps
  <2>5. Restart => lastResult'.run # r
    BY IdsAssumption DEF Restart, Empty
  <2>6. UNCHANGED vars => lastResult' = lastResult
    BY DEF vars
  <2>. QED  BY <1>1, <2>1, <2>2, <2>3, <2>4, <2>5, <2>6 DEF Next, Start
<1>4. ASSUME NEW u \in Threads PROVE run'[u] # r /\ result'[u].run # r
  <2>1. ASSUME NEW t \in Threads, Forget(t) PROVE run'[u] # r /\ result'[u].run # r
    BY <1>0, <1>1, <2>1, IdsAssumption DEF TypeOK, Forget, Empty
  <2>2. ASSUME NEW t \in Threads, NEW status, NEW draft, NEW published,
               Answer(t, status, draft, published)
        PROVE  result'[u].run # r
    BY <1>0, <1>1, <2>2 DEF TypeOK, Answer
  <2>3. ASSUME NEW t \in Threads, StartFetch(t) PROVE run'[u] # r /\ result'[u].run # r
    BY <1>0, <1>1, <2>3 DEF TypeOK, StartFetch
  <2>4. ASSUME NEW t \in Threads, Look(t) PROVE run'[u] # r /\ result'[u].run # r
    <3>1. PICK q \in Runs : records[q].status # "absent" /\ run' = [run EXCEPT ![t] = q]
      BY <2>4 DEF Look
    <3>2. q # r /\ result' = result
      BY <1>1, <2>4, <3>1 DEF Look
    <3>. QED  BY <1>0, <1>1, <3>1, <3>2 DEF TypeOK
  <2>5. ASSUME NEW t \in Threads, ApproveResume(t) PROVE run'[u] # r /\ result'[u].run # r
    <3>1. run' = run
      BY <2>5 DEF ApproveResume
    <3>2. CASE Publishable(engine[run[t]])
      <4>1. Answer(t, "completed", shown[run[t]], TRUE)
        BY <2>5, <3>2 DEF ApproveResume
      <4>. QED  BY <1>1, <2>2, <3>1, <4>1
    <3>3. CASE ~Publishable(engine[run[t]])
      <4>1. Answer(t, IF engine[run[t]] = "undrafted" THEN "failed" ELSE "completed",
                   shown[run[t]], engine[run[t]] = "published")
        BY <2>5, <3>3 DEF ApproveResume
      <4>2. result'[u].run # r
        BY <2>2, <4>1, Zenon
      <4>. QED  BY <1>1, <3>1, <4>2
    <3>. QED  BY <3>2, <3>3
  <2>6. ASSUME NEW t \in Threads, RejectPhase2(t) PROVE run'[u] # r /\ result'[u].run # r
    <3>1. run' = run /\ \E status, draft, published : Answer(t, status, draft, published)
      BY <2>6 DEF RejectPhase2
    <3>. QED  BY <1>1, <2>2, <3>1
  <2>7. ASSUME NEW t \in Threads, EngineFails(t) PROVE run'[u] # r /\ result'[u].run # r
    <3>1. Forget(t) \/ (run' = run /\ Answer(t, "failed", 0, FALSE))
      BY <2>7 DEF EngineFails, FailedTo
    <3>. QED  BY <1>1, <2>1, <2>2, <3>1
  <2>8. ASSUME NEW t \in Threads, StartEnter(t) \/ Refuse(t) \/ ApproveNote(t) \/ RejectNoteDraft(t)
        PROVE  Forget(t)
    BY <2>8 DEF StartEnter, Refuse, ApproveNote, RejectNoteDraft
  <2>9. ASSUME NEW t \in Threads,
               \/ StartClear(t) \/ StartExecute(t) \/ StartFails(t) \/ ApproveAdmit(t)
               \/ RejectAdmit(t) \/ RejectPhase1(t) \/ RejectNoteStatus(t)
        PROVE  UNCHANGED <<run, result>>
    BY <2>9 DEF StartClear, StartExecute, StartFails, ApproveAdmit, RejectAdmit, RejectPhase1,
       RejectNoteStatus, Admit, threadVars
  <2>10. Restart => run'[u] # r /\ result'[u].run # r
    BY IdsAssumption DEF Restart, Empty
  <2>11. UNCHANGED vars => UNCHANGED <<run, result>>
    BY DEF vars
  <2>. QED  BY <1>1, <2>1, <2>3, <2>4, <2>5, <2>6, <2>7, <2>8, <2>9, <2>10, <2>11
            DEF Next, Start, Approve, Reject
<1>. QED  BY <1>2, <1>3, <1>4 DEF NewInv

LoneRuns == \A r \in Runs : LoneInv(r) /\ NewInv(r) /\ FailInv(r)

LEMMA LoneStep == TypeInv /\ TypeInv' /\ LoneRuns /\ [Next]_vars => LoneRuns'
<1> SUFFICES ASSUME TypeInv, TypeInv', LoneRuns, [Next]_vars, NEW r \in Runs
             PROVE  LoneInv(r)' /\ NewInv(r)' /\ FailInv(r)'
  BY DEF LoneRuns
<1>0. LoneInv(r) /\ NewInv(r) /\ FailInv(r)
  BY DEF LoneRuns
<1>1. NewInv(r)' /\ FailInv(r)'
  BY <1>0, NewStep, RunSteps DEF FailInv, RunStep
<1>2. ASSUME NEW t \in Threads,
             Start(t) \/ Look(t) \/ Refuse(t) \/ Approve(t) \/ Reject(t) \/ EngineFails(t)
      PROVE  LoneInv(r)'
  BY <1>0, <1>2, LoneStart, LoneLook, LoneDecision
<1>3. Restart => LoneInv(r)'
  BY <1>0, LoneRestart
<1>4. UNCHANGED vars => LoneInv(r)'
  BY <1>0 DEF vars, histories, LoneInv, View, Answered, Agrees, Open, First, Fresh, Fetching,
     Entering, Starting
<1>. QED  BY <1>1, <1>2, <1>3, <1>4 DEF Next

LEMMA LoneInit == Init => LoneRuns
<1> SUFFICES ASSUME Init, NEW r \in Runs PROVE LoneInv(r) /\ NewInv(r) /\ FailInv(r)
  BY DEF LoneRuns
<1>1. /\ records[r].status = "absent" /\ engine[r] = "none" /\ lastResult.run # r
      /\ \A t \in Threads : pc[t] = "idle" /\ run[t] # r /\ result[t].run # r
  BY IdsAssumption DEF Init, NoRecord, Empty
<1>. QED  BY <1>1 DEF LoneInv, NewInv, FailInv, View, Agrees, Fetching, Entering

LEMMA LoneInvariance == Spec => []LoneRuns
<1>. QED  BY LoneInit, LoneStep, ServiceTypeInvariance, PTL DEF Spec

(* The index lists what waits, on a run whose requests were answered one    *)
(* after another: what is listed is still to be decided, and waits with the *)
(* listed draft unless a call on it failed; what waits is listed unless a   *)
(* call on it failed or the service was restarted.                          *)
THEOREM ListIsRight == Spec => []ListedIsWaiting
<1>1. LoneRuns => ListedIsWaiting
  <2> SUFFICES ASSUME LoneRuns, NEW r \in Runs \ overlapped, Quiet(r) PROVE Agrees(r)
    BY DEF ListedIsWaiting, Agrees
  <2>1. \A t \in Threads : run[t] # r /\ ~Fetching(t, r) /\ ~Entering(t, r)
    BY DEF Quiet, Starting, Fetching, Entering
  <2>. QED  BY <2>1 DEF LoneRuns, LoneInv
<1>. QED  BY <1>1, LoneInvariance, PTL

(* No decision about a published run reaches the engine, unless it          *)
(* overlapped with another request about that run.                          *)
THEOREM PublishedRunsAreClosed == Spec => []PublishedIsClosed
<1>1. TypeInv /\ LoneRuns => PublishedIsClosed
  <2> SUFFICES ASSUME TypeInv, LoneRuns, NEW t \in Threads,
                      pc[t] \in {"resume", "phase1", "phase2"}, run[t] \notin overlapped
               PROVE  engine[run[t]] # "published"
    BY DEF PublishedIsClosed
  <2>1. run[t] \in Runs
    BY DEF TypeInv, Busy
  <2>2. View(t, run[t])
    BY <2>1 DEF LoneRuns, LoneInv
  <2>. QED  BY <2>2 DEF View, Agrees, Open
<1>. QED  BY <1>1, LoneInvariance, ServiceTypeInvariance, PTL

(* An approver publishes the draft that was read, on a run whose requests   *)
(* were answered one after another.                                         *)
THEOREM ApprovedIsRead == Spec => []SoleApprovedWasSeen
<1>1. Init => SoleApprovedWasSeen
  BY DEF Init, SoleApprovedWasSeen
<1>2. TypeInv /\ TypeInv' /\ LoneRuns /\ SoleApprovedWasSeen /\ [Next]_vars => SoleApprovedWasSeen'
  <2> SUFFICES ASSUME TypeInv, LoneRuns, SoleApprovedWasSeen, [Next]_vars
               PROVE  SoleApprovedWasSeen'
    OBVIOUS
  <2>0. blind \subseteq overlapped /\ TypeOK
    BY DEF SoleApprovedWasSeen, TypeInv
  <2>1. ASSUME NEW t \in Threads, ApproveResume(t) PROVE blind' \subseteq overlapped'
    <3>1. run[t] \in Runs /\ pc[t] = "resume" /\ overlapped' = overlapped
      BY <2>1 DEF TypeInv, Busy, ApproveResume, Goto
    <3>2. blind' = blind \/ (blind' = blind \cup {run[t]} /\ shown[run[t]] # seen[t])
      BY <2>1 DEF ApproveResume
    <3>3. run[t] \in overlapped \/ shown[run[t]] = seen[t]
      BY <3>1 DEF LoneRuns, LoneInv, View
    <3>. QED  BY <2>0, <3>1, <3>2, <3>3
  <2>2. ASSUME NEW t \in Threads, Start(t) \/ Look(t) \/ Refuse(t) \/ Reject(t)
        PROVE  blind' = blind /\ overlapped \subseteq overlapped'
    BY <2>2 DEF Start, StartClear, StartExecute, StartFails, StartFetch, StartEnter, Look, Refuse, Reject,
       RejectAdmit, RejectPhase1, RejectPhase2, RejectNoteStatus, RejectNoteDraft, Admit, Cross,
       engineVars, histories
  <2>3. ASSUME NEW t \in Threads, ApproveAdmit(t) \/ ApproveNote(t) \/ EngineFails(t)
        PROVE  blind' = blind /\ overlapped \subseteq overlapped'
    BY <2>3 DEF ApproveAdmit, ApproveNote, EngineFails, Admit, engineVars, histories
  <2>4. Restart \/ UNCHANGED vars => blind' = blind /\ overlapped \subseteq overlapped'
    BY DEF Restart, vars
  <2>. QED  BY <2>0, <2>1, <2>2, <2>3, <2>4 DEF SoleApprovedWasSeen, Next, Approve
<1>. QED  BY <1>1, <1>2, LoneInvariance, ServiceTypeInvariance, PTL DEF Spec
=============================================================================

--------------------------- MODULE CodeRunnerProofs ---------------------------
(***************************************************************************)
(* Theorems about CodeRunner, for all timeouts, allowances and requests.    *)
(***************************************************************************)
EXTENDS CodeRunner, TLAPS

GivenUp == Result(FALSE, -1, "timeout")

(***************************************************************************)
(* The inductive invariant: how the two clocks relate, and why there is an  *)
(* exit.                                                                    *)
(***************************************************************************)
ClockInv ==
    /\ call = "idle" => elapsed = 0 /\ startedAt = 0 /\ container = "none" /\ fate = "none"
    /\ container \in {"none", "starting"} => ran = 0
    /\ container = "running" => ran <= budget
    /\ container \in {"running", "terming"} =>
          /\ call # "idle"
          /\ call = "waiting" => ran = elapsed - startedAt
          /\ ran >= elapsed - startedAt
    /\ container = "starting" => call # "idle"

ExitInv ==
    /\ container \in {"starting", "running", "terming"} => fate = "none"
    /\ fate = "timeout" => exit.code \in {124, 137}
    /\ fate = "itself" => exit.code \in {0, 1, 124}
    /\ call = "returned" /\ fate # "missing" =>
          \/ result = GivenUp /\ elapsed = Deadline
          \/ result = Classified(exit) /\ fate # "none"
    /\ fate = "missing" => call = "returned" /\ container = "none" /\ result.exit_code = -1

RunnerInv == TypeOK /\ ClockInv /\ ExitInv

LEMMA RunnerInit == Init => RunnerInv
<1> SUFFICES ASSUME Init PROVE RunnerInv
  OBVIOUS
<1>1. exit \in Exits /\ result \in [stdout : BOOLEAN, exit_code : {-1, 0, 1, 124, 125, 137},
                                    error : {"none", "timeout", "docker_unavailable"}]
  BY DEF Init, Exits, NoExit, Result
<1>2. TypeOK
  <2>1. budget \in Nat \ {0} /\ elapsed \in 0 .. Deadline /\ startedAt \in 0 .. elapsed
    BY TimesAssumption DEF Init, Deadline
  <2>2. ran \in 0 .. budget + Grace
    BY TimesAssumption DEF Init
  <2>3. call \in {"idle", "waiting", "returned"} /\ fate = "none"
        /\ container \in {"none", "starting", "running", "terming", "gone"}
    BY DEF Init
  <2>. QED  BY <1>1, <2>1, <2>2, <2>3 DEF TypeOK
<1>3. ClockInv /\ ExitInv
  BY TimesAssumption DEF Init, ClockInv, ExitInv
<1>. QED  BY <1>2, <1>3 DEF RunnerInv

Answers == [stdout : BOOLEAN, exit_code : {-1, 0, 1, 124, 125, 137},
            error : {"none", "timeout", "docker_unavailable"}]

LEMMA ClassifiedType == ASSUME NEW e \in Exits PROVE Classified(e) \in Answers
BY DEF Exits, Answers, Classified, Result, TimeoutExitCodes, DaemonBlamed

LEMMA RunnerStep == RunnerInv /\ [Next]_vars => RunnerInv'
<1> SUFFICES ASSUME RunnerInv, [Next]_vars PROVE RunnerInv'
  OBVIOUS
<1>0. TypeOK /\ ClockInv /\ ExitInv
  BY DEF RunnerInv
<1> USE TimesAssumption
<1>1. ASSUME NEW seconds \in Requests, Run(seconds) PROVE RunnerInv'
  <2>1. CodeTimeout(seconds) \in Nat \ {0}
    BY DEF CodeTimeout
  <2>2. TypeOK'
    BY <1>0, <1>1, <2>1 DEF TypeOK, ClockInv, Run, Deadline
  <2>3. ClockInv' /\ ExitInv'
    BY <1>0, <1>1 DEF ClockInv, ExitInv, Run
  <2>. QED  BY <2>2, <2>3 DEF RunnerInv
<1>2. CASE NotFound
  <2>1. result' \in Answers /\ result'.exit_code = -1
    BY <1>2 DEF NotFound, Result, Answers
  <2>2. TypeOK'
    BY <1>0, <1>2, <2>1 DEF TypeOK, NotFound, Deadline, Answers
  <2>3. ClockInv' /\ ExitInv'
    BY <1>0, <1>2, <2>1 DEF ClockInv, ExitInv, NotFound
  <2>. QED  BY <2>2, <2>3 DEF RunnerInv
<1>3. CASE Answer
  <2>1. result' \in Answers /\ result' = Classified(exit)
    BY <1>0, <1>3, ClassifiedType DEF Answer, TypeOK
  <2>2. TypeOK'
    BY <1>0, <1>3, <2>1 DEF TypeOK, Answer, Deadline, Answers
  <2>3. fate # "missing"
    BY <1>0, <1>3 DEF ExitInv, Answer
  <2>4. ClockInv'
    BY <1>0, <1>3 DEF ClockInv, Answer
  <2>5. ExitInv'
    BY <1>0, <1>3, <2>1, <2>3 DEF ExitInv, Answer, Deadline
  <2>. QED  BY <2>2, <2>4, <2>5 DEF RunnerInv
<1>4. CASE GiveUp
  <2>1. result' \in Answers /\ result' = GivenUp /\ result'.exit_code = -1
    BY <1>4 DEF GiveUp, Result, Answers, GivenUp
  <2>2. TypeOK'
    BY <1>0, <1>4, <2>1 DEF TypeOK, GiveUp, Deadline, Answers
  <2>3. ClockInv' /\ ExitInv'
    BY <1>0, <1>4, <2>1 DEF ClockInv, ExitInv, GiveUp, Deadline
  <2>. QED  BY <2>2, <2>3 DEF RunnerInv
<1>5. ASSUME fate' \in {"daemon", "setup", "itself", "memory", "timeout"}, exit' \in Exits,
             fate' = "timeout" => exit'.code \in {124, 137},
             fate' = "itself" => exit'.code \in {0, 1, 124},
             container \in {"starting", "running", "terming"},
             container' \in {"none", "gone"},
             container' = "none" => container = "starting",
             UNCHANGED <<call, budget, elapsed, startedAt, ran, result>>
      PROVE  RunnerInv'
  <2>1. TypeOK'
    BY <1>0, <1>5 DEF TypeOK, Deadline
  <2>2. ClockInv'
    BY <1>0, <1>5 DEF ClockInv
  <2>3. ExitInv'
    BY <1>0, <1>5 DEF ExitInv, Deadline
  <2>. QED  BY <2>1, <2>2, <2>3 DEF RunnerInv
<1>6. ASSUME NEW marked \in BOOLEAN, DaemonFails(marked) PROVE RunnerInv'
  <2>1. exit' \in Exits /\ fate' \in {"daemon", "setup"}
    BY <1>6 DEF DaemonFails, Ends, Exits
  <2>2. /\ container = "starting" /\ container' = "none"
        /\ UNCHANGED <<call, budget, elapsed, startedAt, ran, result>>
    BY <1>6 DEF DaemonFails, Ends
  <2>. QED  BY <1>5, <2>1, <2>2
<1>7. CASE CodeStarts
  <2>1. TypeOK'
    BY <1>0, <1>7 DEF TypeOK, CodeStarts, Deadline
  <2>2. ClockInv' /\ ExitInv'
    BY <1>0, <1>7 DEF TypeOK, ClockInv, ExitInv, CodeStarts, Deadline
  <2>. QED  BY <2>1, <2>2 DEF RunnerInv
<1>8. CASE CodeEnds
  <2>1. exit' \in Exits
    BY <1>8 DEF CodeEnds, Ends, Exits
  <2>. QED  BY <1>5, <1>8, <2>1 DEF CodeEnds, Ends
<1>9. CASE OutOfMemory
  <2>1. exit' \in Exits
    BY <1>9 DEF OutOfMemory, Ends, Exits
  <2>. QED  BY <1>5, <1>9, <2>1 DEF OutOfMemory, Ends
<1>10. CASE Term
  <2>1. TypeOK'
    BY <1>0, <1>10 DEF TypeOK, Term, Deadline
  <2>2. ClockInv' /\ ExitInv'
    BY <1>0, <1>10 DEF TypeOK, ClockInv, ExitInv, Term, Deadline
  <2>. QED  BY <2>1, <2>2 DEF RunnerInv
<1>11. CASE EndsOnTerm
  <2>1. exit' \in Exits
    BY <1>11 DEF EndsOnTerm, Ends, Exits
  <2>. QED  BY <1>5, <1>11, <2>1 DEF EndsOnTerm, Ends
<1>12. CASE Kill
  <2>1. exit' \in Exits
    BY <1>12 DEF Kill, Ends, Exits
  <2>. QED  BY <1>5, <1>12, <2>1 DEF Kill, Ends
<1>13. CASE Tick
  <2>1. TypeOK'
    BY <1>0, <1>13 DEF TypeOK, ClockInv, Tick, Deadline
  <2>2. ClockInv'
    BY <1>0, <1>13 DEF TypeOK, ClockInv, Tick, Deadline
  <2>3. ExitInv'
    BY <1>0, <1>13 DEF TypeOK, ExitInv, Tick, Deadline
  <2>. QED  BY <2>1, <2>2, <2>3 DEF RunnerInv
<1>14. CASE UNCHANGED vars
  BY <1>0, <1>14 DEF RunnerInv, TypeOK, ClockInv, ExitInv, Deadline, vars
<1>. QED  BY <1>1, <1>2, <1>3, <1>4, <1>6, <1>7, <1>8, <1>9, <1>10, <1>11, <1>12, <1>13, <1>14
     DEF Next

LEMMA RunnerInvariance == Spec => []RunnerInv
BY RunnerInit, RunnerStep, PTL DEF Spec

(* Clocks, exit and answer keep their types; `timeout' never gets a budget  *)
(* of 0.                                                                    *)
THEOREM RunnerTyping == Spec => []TypeOK
<1>1. RunnerInv => TypeOK
  BY DEF RunnerInv
<1>. QED  BY <1>1, RunnerInvariance, PTL

(* Code that the host cuts off had its whole budget, or its container took  *)
(* longer than the allowance to start, for any budget and any allowance.    *)
THEOREM SlowStartIsFree == Spec => []SlowStartIsNotCharged
<1>1. RunnerInv => SlowStartIsNotCharged
  <2> SUFFICES ASSUME RunnerInv, call = "returned", container = "running"
               PROVE  ran >= budget \/ startedAt > StartupOverhead
    BY DEF SlowStartIsNotCharged
  <2>1. elapsed = Deadline
    BY DEF RunnerInv, ExitInv
  <2>2. ran >= elapsed - startedAt
    BY DEF RunnerInv, ClockInv
  <2>. QED  BY <2>1, <2>2, TimesAssumption DEF RunnerInv, TypeOK, Deadline
<1>. QED  BY <1>1, RunnerInvariance, PTL

(* The caller is told of a timeout whenever the code outran its budget, and *)
(* of the code's own exit otherwise.                                        *)
THEOREM AnswerHolds == Spec => []AnswerIsTrue
<1>1. RunnerInv => AnswerIsTrue
  <2> SUFFICES ASSUME RunnerInv, call = "returned"
               PROVE  /\ fate = "timeout" \/ container = "terming" => result.error = "timeout"
                      /\ /\ result.exit_code # -1 /\ fate = "itself" /\ exit.code # 124
                         /\ exit.marked => exit.code = 0
                         => result = Result(exit.printed, exit.code, "none")
    BY DEF AnswerIsTrue
  <2>0. ExitInv
    BY DEF RunnerInv
  <2>1. GivenUp.error = "timeout" /\ GivenUp.exit_code = -1
    BY DEF GivenUp, Result
  <2>2. fate = "timeout" => Classified(exit).error = "timeout"
    BY <2>0 DEF ExitInv, Classified, Result, TimeoutExitCodes
  <2>3. /\ fate = "itself" /\ exit.code # 124
        /\ exit.marked => exit.code = 0
        => Classified(exit) = Result(exit.printed, exit.code, "none")
    <3>1. exit.code \in {0, 1, 124, 125, 137} /\ exit.marked \in BOOLEAN
      BY DEF RunnerInv, TypeOK, Exits
    <3> SUFFICES ASSUME fate = "itself", exit.code # 124, exit.marked => exit.code = 0
                 PROVE  Classified(exit) = Result(exit.printed, exit.code, "none")
      OBVIOUS
    <3>2. exit.code \notin TimeoutExitCodes
      BY <2>0 DEF ExitInv, TimeoutExitCodes
    <3>3. ~DaemonBlamed(exit)
      BY <3>1 DEF DaemonBlamed
    <3>. QED  BY <3>2, <3>3 DEF Classified
  <2>4. fate # "missing" => result = GivenUp \/ (result = Classified(exit) /\ fate # "none")
    BY <2>0 DEF ExitInv
  <2>. QED  BY <2>0, <2>1, <2>2, <2>3, <2>4 DEF ExitInv
<1>. QED  BY <1>1, RunnerInvariance, PTL
=============================================================================

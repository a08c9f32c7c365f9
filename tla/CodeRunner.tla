------------------------------ MODULE CodeRunner ------------------------------
(***************************************************************************)
(* One call of DockerCodeRunner.run (src/sandbox.py) against the two clocks *)
(* that bound it: the host waits for the docker command until Deadline, and *)
(* `timeout -k' inside the container gives the code its budget, whether or  *)
(* not the host still waits.  Time passes in ticks.  The daemon, the        *)
(* container and the code are the environment: the daemon may be missing,   *)
(* down, slow or stuck, and the code may end as it likes, run on, ignore    *)
(* SIGTERM or exceed the container's memory.                                *)
(*                                                                          *)
(* A definition without a comment right before the one it alters is a       *)
(* plausible bug, used only to check that a property can fail.              *)
(***************************************************************************)
EXTENDS Integers

CONSTANTS DefaultTimeout,  \* default_timeout
          StartupOverhead, \* startup_overhead
          Grace,           \* from SIGTERM to SIGKILL, `-k 5'
          Requests         \* timeout_seconds; 0 also stands for None

ASSUME TimesAssumption ==
    /\ DefaultTimeout \in Nat \ {0} /\ StartupOverhead \in Nat \ {0}
    /\ Grace \in Nat \ {0}
    /\ Requests \subseteq Nat

VARIABLES call,      \* "idle", "waiting" for subprocess.run, "returned"
          budget,    \* code_timeout
          elapsed,   \* ticks the host has waited
          container, \* "none", "starting", "running", "terming", "gone"
          startedAt, \* elapsed when the code started
          ran,       \* ticks the code has had
          fate,      \* why there is an exit: a history variable
          exit,      \* what the docker command returns
          result     \* what run returns

vars == <<call, budget, elapsed, container, startedAt, ran, fate, exit, result>>

(* A finished process: its returncode, whether its stderr holds one of the  *)
(* three texts taken for a daemon that is down, whether it has any stdout.  *)
Exits  == [code : {0, 1, 124, 125, 137}, marked : BOOLEAN, printed : BOOLEAN]
NoExit == [code |-> 0, marked |-> FALSE, printed |-> FALSE]

Result(printed, code, error) ==
    [stdout |-> printed, exit_code |-> code, error |-> error]

(* Zero and None are both falsy. *)
CodeTimeout(seconds) == IF seconds = 0 THEN DefaultTimeout ELSE seconds

DeadlineOfCode == budget
Deadline == budget + StartupOverhead

TimeoutExitCodesOfTerm == {124}
TimeoutExitCodes == {124, 137}

DaemonBlamed(e) == e.code # 0 /\ e.marked

(* The answer to a docker command that returned. *)
Classified(e) ==
    IF e.code \in TimeoutExitCodes THEN Result(e.printed, e.code, "timeout")
    ELSE IF DaemonBlamed(e) THEN Result(FALSE, e.code, "docker_unavailable")
    ELSE Result(e.printed, e.code, "none")

Init ==
    /\ call = "idle" /\ budget = DefaultTimeout /\ elapsed = 0
    /\ container = "none" /\ startedAt = 0 /\ ran = 0
    /\ fate = "none" /\ exit = NoExit
    /\ result = Result(FALSE, 0, "none")

(***************************************************************************)
(* The host.                                                                *)
(***************************************************************************)
Run(seconds) ==
    /\ call = "idle"
    /\ call' = "waiting"
    /\ budget' = CodeTimeout(seconds)
    /\ container' = "starting"
    /\ UNCHANGED <<elapsed, startedAt, ran, fate, exit, result>>

(* FileNotFoundError: there is no docker command. *)
NotFound ==
    /\ call = "waiting" /\ container = "starting" /\ elapsed = 0
    /\ call' = "returned"
    /\ container' = "none"
    /\ fate' = "missing"
    /\ result' = Result(FALSE, -1, "docker_unavailable")
    /\ UNCHANGED <<budget, elapsed, startedAt, ran, exit>>

Answer ==
    /\ call = "waiting" /\ fate # "none"
    /\ call' = "returned"
    /\ result' = Classified(exit)
    /\ UNCHANGED <<budget, elapsed, container, startedAt, ran, fate, exit>>

(* TimeoutExpired: the docker command is killed, its container is not. *)
GiveUpOnStartup ==
    /\ call = "waiting" /\ elapsed = Deadline /\ container = "starting"
    /\ call' = "returned"
    /\ result' = Result(FALSE, -1, "timeout")
    /\ UNCHANGED <<budget, elapsed, container, startedAt, ran, fate, exit>>
GiveUp ==
    /\ call = "waiting" /\ elapsed = Deadline
    /\ call' = "returned"
    /\ result' = Result(FALSE, -1, "timeout")
    /\ UNCHANGED <<budget, elapsed, container, startedAt, ran, fate, exit>>

(***************************************************************************)
(* The daemon and the container.                                            *)
(***************************************************************************)
Ends(why, code, marked, printed) ==
    /\ fate' = why
    /\ exit' = [code |-> code, marked |-> marked, printed |-> printed]
    /\ UNCHANGED <<call, budget, elapsed, startedAt, ran, result>>

(* The daemon is down, or refuses the container for another reason. *)
DaemonFails(marked) ==
    /\ call = "waiting" /\ container = "starting"
    /\ container' = "none"
    /\ Ends(IF marked THEN "daemon" ELSE "setup", 125, marked, FALSE)

(* Also of a container the host has given up: nothing cancels it. *)
CodeStarts ==
    /\ container = "starting"
    /\ container' = "running"
    /\ startedAt' = elapsed
    /\ UNCHANGED <<call, budget, elapsed, ran, fate, exit, result>>

CodeEnds ==
    /\ container = "running"
    /\ container' = "gone"
    /\ \E code \in {0, 1, 124}, marked, printed \in BOOLEAN :
          Ends("itself", code, marked, printed)

(* The kernel kills what exceeds --memory. *)
OutOfMemory ==
    /\ container = "running"
    /\ container' = "gone"
    /\ \E printed \in BOOLEAN : Ends("memory", 137, FALSE, printed)

(* `timeout' sends SIGTERM, and SIGKILL to code that outlives it. *)
TermByHost ==
    /\ container = "running" /\ ran = budget /\ call = "waiting"
    /\ container' = "terming"
    /\ UNCHANGED <<call, budget, elapsed, startedAt, ran, fate, exit, result>>
Term ==
    /\ container = "running" /\ ran = budget
    /\ container' = "terming"
    /\ UNCHANGED <<call, budget, elapsed, startedAt, ran, fate, exit, result>>

EndsOnTerm ==
    /\ container = "terming"
    /\ container' = "gone"
    /\ \E marked, printed \in BOOLEAN : Ends("timeout", 124, marked, printed)

Kill ==
    /\ container = "terming" /\ ran = budget + Grace
    /\ container' = "gone"
    /\ \E marked, printed \in BOOLEAN : Ends("timeout", 137, marked, printed)

(* Time does not pass a deadline before what it triggers. *)
Tick ==
    /\ call = "waiting" \/ container \in {"running", "terming"}
    /\ call = "waiting" => elapsed < Deadline
    /\ container = "running" => ran < budget
    /\ container = "terming" => ran < budget + Grace
    /\ elapsed' = IF call = "waiting" THEN elapsed + 1 ELSE elapsed
    /\ ran' = IF container \in {"running", "terming"} THEN ran + 1 ELSE ran
    /\ UNCHANGED <<call, budget, container, startedAt, fate, exit, result>>

Next ==
    \/ \E seconds \in Requests : Run(seconds)
    \/ NotFound \/ Answer \/ GiveUp
    \/ \E marked \in BOOLEAN : DaemonFails(marked)
    \/ CodeStarts \/ CodeEnds \/ OutOfMemory
    \/ Term \/ EndsOnTerm \/ Kill
    \/ Tick

Spec == Init /\ [][Next]_vars

(* Time passes and both clocks ring; nothing is assumed of daemon and code. *)
FairSpec ==
    Spec /\ WF_vars(Tick) /\ WF_vars(GiveUp) /\ WF_vars(Term) /\ WF_vars(Kill)

(***************************************************************************)
(* Properties.                                                              *)
(***************************************************************************)
(* Every variable has its type; the budget that `timeout' is given is never *)
(* 0, which would disable it.                                               *)
TypeOK ==
    /\ call \in {"idle", "waiting", "returned"}
    /\ budget \in Nat \ {0}
    /\ elapsed \in 0 .. Deadline /\ startedAt \in 0 .. elapsed
    /\ container \in {"none", "starting", "running", "terming", "gone"}
    /\ ran \in 0 .. budget + Grace
    /\ fate \in {"none", "missing", "daemon", "setup", "itself", "memory", "timeout"}
    /\ exit \in Exits
    /\ result \in [stdout : BOOLEAN, exit_code : {-1, 0, 1, 124, 125, 137},
                   error : {"none", "timeout", "docker_unavailable"}]

(* "Slow container startup never eats into the user's code-execution        *)
(* budget" (sandbox.py:24-25): code that is cut off by the host had its     *)
(* budget, unless its container took longer than the allowance to start.    *)
SlowStartIsNotCharged ==
    call = "returned" /\ result.error = "timeout" /\ container = "running" =>
        ran >= budget \/ startedAt > StartupOverhead

(* The caller is told what happened to its code (sandbox.py:28-29,115-116): *)
(* code that outran its budget is a timeout, whichever clock noticed and    *)
(* however the code took the signal; otherwise the caller sees the code's   *)
(* own exit and output, as long as the code does not exit with a number of  *)
(* `timeout' or fail with a text of the daemon.                             *)
AnswerIsTrue ==
    call = "returned" =>
        /\ fate = "timeout" \/ container = "terming" => result.error = "timeout"
        /\ /\ result.exit_code # -1 /\ fate = "itself" /\ exit.code # 124
           /\ exit.marked => exit.code = 0
           => result = Result(exit.printed, exit.code, "none")

(* A container that never returns does not keep the caller (:87-90).        *)
CallerIsFreed == call = "waiting" ~> call = "returned"

(* Code that was started is stopped, also when nobody waits for it any more *)
(* and it ignores SIGTERM (sandbox.py:71-74).                               *)
CodeIsStopped == container \in {"running", "terming"} ~> container = "gone"
=============================================================================

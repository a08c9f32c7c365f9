------------------------------ MODULE ToolGate ------------------------------
(***************************************************************************)
(* The tools of the runtime: the gate in front of every handler             *)
(* (src/runtime.py:37,141-146,199-234,384-392), which asks a policy about   *)
(* the tools whose manifests declare a write effect; the operators behind   *)
(* /gate/* (src/approval_api.py:117-136); and the two gated tools, called   *)
(* by publish_once (workflows/research_task.nd:38-47), of which notify      *)
(* delivers by one of several channels (src/notify.py:31-106).              *)
(*                                                                          *)
(* A definition without a comment right before the one it alters is a       *)
(* plausible bug, used only to check that a property can fail.              *)
(***************************************************************************)
EXTENDS Naturals, Sequences

CONSTANTS Policies,   \* the policies that an operator may have configured
          Channels,   \* values of RESEARCH_NOTIFY_CHANNEL
          MaxAttempts \* bound: executions of publish_once

(* What the manifests declare (extensions/*/manifest.json).                 *)
Effects == [ web_search    |-> {"network.read"},  fetch_doc  |-> {"network.read"},
             memory_recall |-> {"memory.read"},   run_code   |-> {"subprocess.exec"},
             synthesize    |-> {"llm.complete"},  write_file |-> {"fs.write"},
             notify        |-> {"network.write"} ]
Tools == DOMAIN Effects
Modes == {"auto", "require", "deny"}

ASSUME PoliciesAssumption == Policies \subseteq [Tools -> Modes]
ASSUME AttemptsAssumption == MaxAttempts \in Nat

GATED_EFFECTS == {"fs.write", "network.write"}
GatedByFiles(t) == "fs.write" \in Effects[t]
Gated(t) == Effects[t] \cap GATED_EFFECTS # {}

(* ApprovalPolicy: by effect, by name, and for all tools.                   *)
RequireForEffects == [t \in Tools |-> IF Gated(t) THEN "require" ELSE "auto"]
RequireFor(names) == [t \in Tools |-> IF t \in names THEN "require" ELSE "auto"]
AllowAll == RequireFor({})
DenyAll  == [t \in Tools |-> "deny"]

VARIABLES policy,    \* of the runtime
          channel,   \* where the run notifies
          smtp,      \* RESEARCH_SMTP_HOST is set
          pc,        \* of publish_once: idle, write, notify, failed, published
          written,   \* final.md has been written
          accepted,  \* notifications that the target accepted
          delivered, \* notifications reported as delivered
          requests,  \* the store: each request's tool and its state
          attempts

vars == <<policy, channel, smtp, pc, written, accepted, delivered, requests, attempts>>
config == <<policy, channel, smtp>>

Init ==
    /\ policy \in Policies /\ channel \in Channels /\ smtp \in BOOLEAN
    /\ pc = "idle"
    /\ written = FALSE
    /\ accepted = 0 /\ delivered = 0
    /\ requests = <<>>
    /\ attempts = 0

(* A step of the workflow, first or retried, executes publish_once; a       *)
(* completed execution is recorded and answers for all later ones.          *)
Publish ==
    /\ pc \in {"idle", "failed"} /\ attempts < MaxAttempts
    /\ attempts' = attempts + 1
    /\ pc' = "write"
    /\ UNCHANGED <<config, written, accepted, delivered, requests>>

(***************************************************************************)
(* The gate.  A handler that must wait for an approval does not: it leaves  *)
(* a request behind and raises.                                             *)
(***************************************************************************)
Passes(t) == Gated(t) => policy[t] = "auto"

Request(t) ==
    requests' = IF policy[t] = "require"
                THEN Append(requests, [tool |-> t, state |-> "pending"])
                ELSE requests

(* An error of write_file makes publish_once throw. *)
WriteRefused ==
    /\ pc = "write" /\ ~Passes("write_file")
    /\ Request("write_file")
    /\ pc' = "failed"
    /\ UNCHANGED <<config, written, accepted, delivered, attempts>>

WriteFile ==
    /\ pc = "write" /\ Passes("write_file")
    /\ written' = TRUE
    /\ pc' = "notify"
    /\ UNCHANGED <<config, accepted, delivered, requests, attempts>>

(* An error of notify is part of what publish_once returns. *)
NotifyRefused ==
    /\ pc = "notify" /\ ~Passes("notify")
    /\ Request("notify")
    /\ pc' = "published"
    /\ UNCHANGED <<config, written, accepted, delivered, attempts>>

(***************************************************************************)
(* Delivery.  The other end accepts the message and answers, or accepts it  *)
(* and the answer is lost (a timeout, a failing QUIT), or refuses, or       *)
(* answers with a 2xx without having taken it (a proxy, a login page), or   *)
(* cannot be reached.                                                       *)
(***************************************************************************)
Answers == {"taken", "taken, answer lost", "refused", "200 but not ok", "unreachable"}

Possible(answer) ==
    CASE channel = "console" -> answer \in {"taken", "unreachable"}
      [] channel \in {"webhook", "slack"} -> TRUE
      [] channel = "email"   -> IF smtp THEN answer # "200 but not ok" ELSE answer = "unreachable"
      [] OTHER               -> answer = "unreachable"
Taken(answer) == answer \in {"taken", "taken, answer lost"}

(* A status of 2xx, and for Slack the body "ok"; no exception.  To a        *)
(* webhook every 2xx is a delivery, whoever answered.                       *)
ReportedByStatus(answer) == answer \in {"taken", "200 but not ok"}
Reported(answer) ==
    \/ answer = "taken"
    \/ channel = "webhook" /\ answer = "200 but not ok"

(* Whatever happens, notify returns, and publish_once with it. *)
NotifyRaising ==
    /\ pc = "notify" /\ Passes("notify")
    /\ \E answer \in Answers :
          /\ Possible(answer)
          /\ accepted' = IF Taken(answer) THEN accepted + 1 ELSE accepted
          /\ delivered' = IF Reported(answer) THEN delivered + 1 ELSE delivered
          /\ pc' = IF answer = "unreachable" THEN "failed" ELSE "published"
    /\ UNCHANGED <<config, written, requests, attempts>>
Notify ==
    /\ pc = "notify" /\ Passes("notify")
    /\ \E answer \in Answers :
          /\ Possible(answer)
          /\ accepted' = IF Taken(answer) THEN accepted + 1 ELSE accepted
          /\ delivered' = IF Reported(answer) THEN delivered + 1 ELSE delivered
    /\ pc' = "published"
    /\ UNCHANGED <<config, written, requests, attempts>>

(* gate_approve and gate_deny: an operator decides on a request, at any     *)
(* time and perhaps again; nobody polls for the decision.                   *)
Decide(i, verdict) ==
    /\ requests' = [requests EXCEPT ![i].state = verdict]
    /\ UNCHANGED <<config, pc, written, accepted, delivered, attempts>>
gate_approve(i) == Decide(i, "approved")
gate_deny(i)    == Decide(i, "denied")

PublishOnce == WriteRefused \/ WriteFile \/ NotifyRefused \/ Notify
Next ==
    \/ Publish \/ PublishOnce
    \/ \E i \in DOMAIN requests : gate_approve(i) \/ gate_deny(i)

Spec == Init /\ [][Next]_vars

(* publish_once runs on in its thread: the gate does not wait, requests to  *)
(* the target have a timeout (notify.py:27,80).  Nobody need decide.        *)
FairSpec == Spec /\ WF_vars(PublishOnce)

(***************************************************************************)
(* Properties.                                                              *)
(***************************************************************************)
RequestRecords == [tool : Tools, state : {"pending", "approved", "denied"}]

TypeOK ==
    /\ policy \in Policies /\ channel \in Channels /\ smtp \in BOOLEAN
    /\ pc \in {"idle", "write", "notify", "failed", "published"}
    /\ written \in BOOLEAN
    /\ accepted \in Nat /\ delivered \in Nat
    /\ requests \in Seq(RequestRecords)
    /\ attempts \in Nat

(* "any tool declaring fs.write or network.write automatically requires     *)
(* human approval" (docs/plan.md:193): under a policy that demands one for  *)
(* a tool, nothing is written or delivered that no operator approved,       *)
(* however often publish is retried.                                        *)
Authorised(t) ==
    \/ policy[t] = "auto"
    \/ \E i \in DOMAIN requests : requests[i] = [tool |-> t, state |-> "approved"]
EffectsAreAuthorised ==
    /\ written => Authorised("write_file")
    /\ accepted > 0 => Authorised("notify")

(* A notification that is reported as delivered has been accepted by the    *)
(* target, "delivered when the response is 200 ok" (notify.py:8-9); the     *)
(* reverse may fail.  Of a webhook this is not promised and does not hold:  *)
(* "delivered on 2xx" (notify.py:7) counts what a proxy answered, too.      *)
DeliveredWasAccepted == channel # "webhook" => delivered <= accepted

(* publish_once never waits for an operator, and once the file is written   *)
(* it completes: "a failed notification never aborts publish"               *)
(* (runtime.py:593-594), whether the target failed or the gate refused.     *)
PublishEnds ==
    /\ pc = "write" ~> pc \in {"failed", "published"}
    /\ pc = "notify" ~> pc = "published"
=============================================================================

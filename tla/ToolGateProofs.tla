--------------------------- MODULE ToolGateProofs ---------------------------
(***************************************************************************)
(* Theorems about ToolGate, for all policies, channels and bounds.          *)
(***************************************************************************)
EXTENDS ToolGate, SequenceTheorems, TLAPS

LEMMA Appending ==
  ASSUME NEW S, NEW s \in Seq(S), NEW x \in S
  PROVE  Append(s, x) \in Seq(S)
  OBVIOUS

LEMMA Replacing ==
  ASSUME NEW S, NEW s \in Seq(S), NEW i \in DOMAIN s, NEW x \in S
  PROVE  s[i] \in S /\ [s EXCEPT ![i] = x] \in Seq(S)
  OBVIOUS

LEMMA GateTypeInit == Init => TypeOK
<1> SUFFICES ASSUME Init PROVE TypeOK
  OBVIOUS
<1>1. requests \in Seq(RequestRecords)
  BY EmptySeq DEF Init
<1>2. accepted \in Nat /\ delivered \in Nat /\ attempts \in Nat
  BY DEF Init
<1>3. /\ policy \in Policies /\ channel \in Channels /\ smtp \in BOOLEAN
      /\ pc \in {"idle", "write", "notify", "failed", "published"}
      /\ written \in BOOLEAN
  BY DEF Init
<1>. QED  BY <1>1, <1>2, <1>3 DEF TypeOK

(* An operator's decision on a request leaves it a request. *)
LEMMA DecideType ==
  ASSUME TypeOK, NEW i \in DOMAIN requests, NEW v \in {"approved", "denied"}, Decide(i, v)
  PROVE  TypeOK'
<1>1. requests \in Seq(RequestRecords)
  BY DEF TypeOK
<1>2. requests[i] \in RequestRecords
  BY <1>1, Replacing
<1>3. [requests[i] EXCEPT !.state = v] \in RequestRecords
  BY <1>2 DEF RequestRecords
<1>4. requests' = [requests EXCEPT ![i] = [requests[i] EXCEPT !.state = v]]
  BY DEF Decide
<1>5. requests' \in Seq(RequestRecords)
  BY <1>1, <1>3, <1>4, Replacing
<1>. QED  BY <1>5 DEF TypeOK, Decide, config

LEMMA RequestType ==
  ASSUME TypeOK, NEW t \in Tools, Request(t)
  PROVE  requests' \in Seq(RequestRecords)
<1>1. [tool |-> t, state |-> "pending"] \in RequestRecords
  BY DEF RequestRecords
<1>2. requests \in Seq(RequestRecords)
  BY DEF TypeOK
<1>. QED  BY <1>1, <1>2, Appending DEF Request

LEMMA GateTypeStep == TypeOK /\ [Next]_vars => TypeOK'
<1> SUFFICES ASSUME TypeOK, [Next]_vars PROVE TypeOK'
  OBVIOUS
<1>0. "write_file" \in Tools /\ "notify" \in Tools
  BY DEF Tools, Effects
<1>1. CASE Publish
  BY <1>1 DEF TypeOK, Publish, config
<1>2. CASE WriteRefused
  BY <1>0, <1>2, RequestType DEF TypeOK, WriteRefused, config
<1>3. CASE WriteFile
  BY <1>3 DEF TypeOK, WriteFile, config
<1>4. CASE NotifyRefused
  BY <1>0, <1>4, RequestType DEF TypeOK, NotifyRefused, config
<1>5. CASE Notify
  BY <1>5 DEF TypeOK, Notify, config
<1>6. ASSUME NEW i \in DOMAIN requests, gate_approve(i) \/ gate_deny(i)
      PROVE  TypeOK'
  BY <1>6, DecideType DEF gate_approve, gate_deny
<1>7. CASE UNCHANGED vars
  BY <1>7 DEF TypeOK, vars
<1>. QED  BY <1>1, <1>2, <1>3, <1>4, <1>5, <1>6, <1>7 DEF Next, PublishOnce

(* Policy, channel and the store of requests keep their types. *)
THEOREM GateTyping == Spec => []TypeOK
BY GateTypeInit, GateTypeStep, PTL DEF Spec

(* The manifests declare write effects of exactly these two tools. *)
LEMMA GatedTools == Gated("write_file") /\ Gated("notify")
<1>1. Effects["write_file"] = {"fs.write"} /\ Effects["notify"] = {"network.write"}
  BY DEF Effects
<1>. QED  BY <1>1 DEF Gated, GATED_EFFECTS

(* Why nothing passes unauthorised: an effect has happened only under a     *)
(* policy that lets its tool pass, and a policy never changes.              *)
GateInv ==
    /\ written => policy["write_file"] = "auto"
    /\ accepted > 0 => policy["notify"] = "auto"

LEMMA GateInvStep == TypeOK /\ GateInv /\ [Next]_vars => GateInv'
<1> SUFFICES ASSUME TypeOK, GateInv, [Next]_vars PROVE GateInv'
  OBVIOUS
<1>1. CASE Publish \/ WriteRefused \/ NotifyRefused
  BY <1>1 DEF GateInv, Publish, WriteRefused, NotifyRefused, config
<1>2. CASE WriteFile
  BY <1>2, GatedTools DEF GateInv, WriteFile, Passes, config
<1>3. CASE Notify
  BY <1>3, GatedTools DEF GateInv, Notify, Passes, config, TypeOK
<1>4. ASSUME NEW i \in DOMAIN requests, gate_approve(i) \/ gate_deny(i)
      PROVE  GateInv'
  BY <1>4 DEF GateInv, gate_approve, gate_deny, Decide, config
<1>5. CASE UNCHANGED vars
  BY <1>5 DEF GateInv, vars
<1>. QED  BY <1>1, <1>2, <1>3, <1>4, <1>5 DEF Next, PublishOnce

(* No effect of a gated tool without the authorisation that the policy      *)
(* demands, for any policy and any decisions of the operators.              *)
THEOREM GateHolds == Spec => []EffectsAreAuthorised
<1>1. Init => GateInv
  BY DEF Init, GateInv
<1>2. GateInv => EffectsAreAuthorised
  BY DEF GateInv, EffectsAreAuthorised, Authorised
<1>. QED  BY <1>1, <1>2, GateInvStep, GateTyping, PTL DEF Spec

(* Every reported delivery was one that the target accepted; not so with a  *)
(* webhook, where the status alone is looked at.                            *)
THEOREM DeliveryIsTrue == Spec => []DeliveredWasAccepted
<1>1. Init => DeliveredWasAccepted
  BY DEF Init, DeliveredWasAccepted
<1>2. TypeOK /\ DeliveredWasAccepted /\ [Next]_vars => DeliveredWasAccepted'
  <2> SUFFICES ASSUME TypeOK, DeliveredWasAccepted, [Next]_vars
               PROVE  DeliveredWasAccepted'
    OBVIOUS
  <2>1. CASE Notify
    <3>1. PICK answer \in Answers :
             /\ accepted' = IF Taken(answer) THEN accepted + 1 ELSE accepted
             /\ delivered' = IF Reported(answer) THEN delivered + 1 ELSE delivered
             /\ channel' = channel
      BY <2>1 DEF Notify, config
    <3>2. channel # "webhook" => (Reported(answer) => Taken(answer))
      BY DEF Reported, Taken
    <3>3. accepted \in Nat /\ delivered \in Nat /\ (channel # "webhook" => delivered <= accepted)
      BY DEF TypeOK, DeliveredWasAccepted
    <3>. QED  BY <3>1, <3>2, <3>3 DEF DeliveredWasAccepted
  <2>2. CASE Publish \/ WriteRefused \/ WriteFile \/ NotifyRefused \/ UNCHANGED vars
    BY <2>2 DEF DeliveredWasAccepted, Publish, WriteRefused, WriteFile, NotifyRefused, vars, config
  <2>3. ASSUME NEW i \in DOMAIN requests, gate_approve(i) \/ gate_deny(i)
        PROVE  DeliveredWasAccepted'
    BY <2>3 DEF DeliveredWasAccepted, gate_approve, gate_deny, Decide, config
  <2>. QED  BY <2>1, <2>2, <2>3 DEF Next, PublishOnce
<1>. QED  BY <1>1, <1>2, GateTyping, PTL DEF Spec
=============================================================================

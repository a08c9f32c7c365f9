----------------------------- MODULE DraftReview -----------------------------
(***************************************************************************)
(* What the research agent promises its reviewer.  A run shows one draft at *)
(* a time; the reviewer may approve the draft on show; and the outside      *)
(* world (the file final.md of a session, the notifications, the `final'    *)
(* memory node that later sessions recall) only ever receives the draft a   *)
(* run shows while it shows it, and only once that draft is approved.       *)
(***************************************************************************)
EXTENDS Naturals

CONSTANTS Runs,        \* workflow runs
          Sessions,    \* session ids
          SessionOf,   \* the session a run was started for
          Drafts,      \* texts of a draft
          NoDraft,     \* no draft on show
          Torn         \* content of a file truncated and not yet written

VARIABLES current,     \* [Runs -> Drafts \cup {NoDraft}] the draft on show
          approved,    \* the <<run, draft>> pairs a reviewer has approved
          file,        \* [Sessions -> ...] content of output/<session>/final.md
          sent,        \* [Runs \X Drafts -> Nat] notifications delivered
          final        \* [Sessions -> ...] the memory node `final'

vars == <<current, approved, file, sent, final>>

Init ==
    /\ current = [r \in Runs |-> NoDraft]
    /\ approved = {}
    /\ file = [s \in Sessions |-> NoDraft]
    /\ sent = [k \in Runs \X Drafts |-> 0]
    /\ final = [s \in Sessions |-> NoDraft]

IsApproved(r) == <<r, current[r]>> \in approved

(* The workflow shows another draft, or withdraws the one on show. *)
Show(r) ==
    /\ \E d \in Drafts \cup {NoDraft} : current' = [current EXCEPT ![r] = d]
    /\ UNCHANGED <<approved, file, sent, final>>

(* The reviewer approves the draft on show. *)
Approve(r) ==
    /\ current[r] \in Drafts
    /\ approved' = approved \cup {<<r, current[r]>>}
    /\ UNCHANGED <<current, file, sent, final>>

(* An approved draft reaches the file, in two steps: truncate, then write. *)
WriteOut(r) ==
    /\ IsApproved(r)
    /\ \E c \in {Torn, current[r]} : file' = [file EXCEPT ![SessionOf[r]] = c]
    /\ UNCHANGED <<current, approved, sent, final>>

Deliver(r) ==
    /\ IsApproved(r)
    /\ sent' = [sent EXCEPT ![<<r, current[r]>>] = @ + 1]
    /\ UNCHANGED <<current, approved, file, final>>

Record(r) ==
    /\ IsApproved(r)
    /\ final' = [final EXCEPT ![SessionOf[r]] = current[r]]
    /\ UNCHANGED <<current, approved, file, sent>>

Next == \E r \in Runs :
    Show(r) \/ Approve(r) \/ WriteOut(r) \/ Deliver(r) \/ Record(r)

Spec == Init /\ [][Next]_vars
=============================================================================

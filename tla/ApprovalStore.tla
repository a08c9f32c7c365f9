---------------------------- MODULE ApprovalStore ----------------------------
(***************************************************************************)
(* FileApprovalStore (src/approval_store.py): approval requests and results *)
(* as one JSON file each, in directories that several processes share.  A   *)
(* store has a lock of its own, which save, resolve and expire_old hold and *)
(* the readers do not; a process may have several stores.  A step is a      *)
(* system call, or what lies between two of them.                           *)
(*                                                                          *)
(* A definition without a comment right before the one it alters is a       *)
(* plausible bug, used only to check that a property can fail.              *)
(***************************************************************************)
EXTENDS Naturals, FiniteSets

CONSTANTS Ids,       \* request ids
          Verdicts,  \* contents of a result file
          Processes,
          Stores,
          Threads,
          ProcessOf, \* [Stores -> Processes]
          StoreOf,   \* [Threads -> Stores] the store a thread works on
          Free,      \* no thread holds the lock
          MaxOps,    \* bound: operations begun
          MaxCrashes \* bound: deaths of a process

ASSUME PlacesAssumption ==
    /\ ProcessOf \in [Stores -> Processes]
    /\ StoreOf \in [Threads -> Stores]
    /\ Free \notin Threads
ASSUME ContentsAssumption == Verdicts \cap {"none", "torn"} = {}
ASSUME StoreBounds == MaxOps \in Nat /\ MaxCrashes \in Nat

Home(t)  == ProcessOf[StoreOf[t]]
Contents == Verdicts \cup {"none", "torn"}

VARIABLES
    requests, \* request file: unborn, open (it exists) or removed
    results,  \* content of a result file at its final path
    tmp,      \* content of <result>.tmp.<pid>, by process and id
    expired,  \* the ids whose expires_at has passed
    lock,     \* holder of a store's lock
    pc,       \* where a thread is
    id,       \* the request it works on
    verdict,  \* the result it resolves with
    handle,   \* where the file it has open for writing is: none, tmp, final
    now,      \* `expired' as its clock reading has it
    todo,     \* request files its loop has still to visit
    listed,   \* what its pending() has collected
    known,    \* history: ids resolved before its loop began
    wrote,    \* history: the stores that put a result of an id in place
    astray,   \* history: ids removed although resolved, see Unlink
    ops, crashes

fileVars   == <<requests, results, tmp>>
threadVars == <<pc, id, verdict, handle, now, todo, listed, known>>
historyVars == <<wrote, astray>>
boundVars  == <<ops, crashes>>
vars == <<fileVars, expired, lock, threadVars, historyVars, boundVars>>

NoId == "none"

Init ==
    /\ requests = [i \in Ids |-> "unborn"]
    /\ results = [i \in Ids |-> "none"]
    /\ tmp = [k \in Processes \X Ids |-> "none"]
    /\ expired = {}
    /\ lock = [s \in Stores |-> Free]
    /\ pc = [t \in Threads |-> "idle"]
    /\ id = [t \in Threads |-> NoId]
    /\ verdict = [t \in Threads |-> "none"]
    /\ handle = [t \in Threads |-> "none"]
    /\ now = [t \in Threads |-> {}]
    /\ todo = [t \in Threads |-> {}]
    /\ listed = [t \in Threads |-> {}]
    /\ known = [t \in Threads |-> {}]
    /\ wrote = [i \in Ids |-> {}]
    /\ astray = {}
    /\ ops = 0 /\ crashes = 0

(* datetime.now passes the expires_at of a request. *)
Tick(i) ==
    /\ requests[i] # "unborn" /\ i \notin expired
    /\ expired' = expired \cup {i}
    /\ UNCHANGED <<fileVars, lock, threadVars, historyVars, boundVars>>

Begin(t) == pc[t] = "idle" /\ ops < MaxOps /\ ops' = ops + 1

Unlocked(t) == lock[StoreOf[t]] = Free
Lock(t)     == Unlocked(t) /\ lock' = [lock EXCEPT ![StoreOf[t]] = t]
Unlock(t)   == lock' = [lock EXCEPT ![StoreOf[t]] = Free]

(* save: a new id, so nobody else writes its file, and nothing of it is     *)
(* visible before os.replace.                                               *)
Save(t, i) ==
    /\ Begin(t) /\ Unlocked(t)
    /\ requests[i] = "unborn"
    /\ requests' = [requests EXCEPT ![i] = "open"]
    /\ UNCHANGED <<results, tmp, expired, lock, threadVars, historyVars, crashes>>

(***************************************************************************)
(* resolve: lock, open the temporary file, write it, rename it, unlock.     *)
(***************************************************************************)
ResolveBegin(t, i, v) ==
    /\ Begin(t) /\ Lock(t)
    /\ requests[i] # "unborn"
    /\ pc' = [pc EXCEPT ![t] = "open"]
    /\ id' = [id EXCEPT ![t] = i]
    /\ verdict' = [verdict EXCEPT ![t] = v]
    /\ UNCHANGED <<fileVars, expired, handle, now, todo, listed, known, historyVars, crashes>>

TmpOf(t) == <<Home(t), id[t]>>

(* open(tmp, "w") truncates; two threads of a process name the same file.   *)
OpenFinal(t) ==
    /\ pc[t] = "open"
    /\ results' = [results EXCEPT ![id[t]] = "torn"]
    /\ handle' = [handle EXCEPT ![t] = "final"]
    /\ pc' = [pc EXCEPT ![t] = "write"]
    /\ UNCHANGED <<requests, tmp, expired, lock, id, verdict, now, todo, listed,
                   known, historyVars, boundVars>>
Open(t) ==
    /\ pc[t] = "open"
    /\ tmp' = [tmp EXCEPT ![TmpOf(t)] = "torn"]
    /\ handle' = [handle EXCEPT ![t] = "tmp"]
    /\ pc' = [pc EXCEPT ![t] = "write"]
    /\ UNCHANGED <<requests, results, expired, lock, id, verdict, now, todo, listed,
                   known, historyVars, boundVars>>

(* json.dump and close go to the open file, wherever it has been renamed.   *)
Write(t) ==
    /\ pc[t] = "write"
    /\ IF handle[t] = "tmp"
       THEN /\ tmp' = [tmp EXCEPT ![TmpOf(t)] = verdict[t]]
            /\ UNCHANGED results
       ELSE /\ results' = [results EXCEPT ![id[t]] = verdict[t]]
            /\ UNCHANGED tmp
    /\ pc' = [pc EXCEPT ![t] = "replace"]
    /\ UNCHANGED <<requests, expired, lock, id, verdict, handle, now, todo, listed,
                   known, historyVars, boundVars>>

(* A thread forgets the locals of the call it returns from. *)
Done(t) ==
    /\ pc' = [pc EXCEPT ![t] = "idle"]
    /\ id' = [id EXCEPT ![t] = NoId]
    /\ verdict' = [verdict EXCEPT ![t] = "none"]
    /\ now' = [now EXCEPT ![t] = {}]
    /\ todo' = [todo EXCEPT ![t] = {}]

(* os.replace takes the open files of others along; if another thread has   *)
(* renamed the temporary file already, it raises FileNotFoundError.         *)
Replace(t) ==
    /\ pc[t] = "replace"
    /\ Done(t) /\ Unlock(t)
    /\ IF tmp[TmpOf(t)] # "none"
       THEN /\ results' = [results EXCEPT ![id[t]] = tmp[TmpOf(t)]]
            /\ tmp' = [tmp EXCEPT ![TmpOf(t)] = "none"]
            /\ handle' = [u \in Threads |->
                  CASE u = t -> "none"
                    [] u # t /\ handle[u] = "tmp" /\ TmpOf(u) = TmpOf(t) -> "final"
                    [] OTHER -> handle[u]]
            /\ wrote' = [wrote EXCEPT ![id[t]] = @ \cup {StoreOf[t]}]
       ELSE /\ UNCHANGED <<results, tmp, wrote>>
            /\ handle' = [handle EXCEPT ![t] = "none"]
    /\ UNCHANGED <<requests, expired, listed, known, astray, boundVars>>

(***************************************************************************)
(* The loops over the request files: expire_old, with the lock, and         *)
(* pending, without.  Each asks whether a result exists, then reads.        *)
(***************************************************************************)
OpenRequests == {i \in Ids : requests[i] = "open"}

ResolvedNow == {i \in Ids : results[i] # "none"}

ExpireBegin(t) ==
    /\ Begin(t) /\ Lock(t)
    /\ pc' = [pc EXCEPT ![t] = "expire"]
    /\ now' = [now EXCEPT ![t] = expired]
    /\ todo' = [todo EXCEPT ![t] = OpenRequests]
    /\ listed' = [listed EXCEPT ![t] = {}]
    /\ known' = [known EXCEPT ![t] = ResolvedNow]
    /\ UNCHANGED <<fileVars, expired, id, verdict, handle, historyVars, crashes>>

PendingBegin(t) ==
    /\ Begin(t)
    /\ pc' = [pc EXCEPT ![t] = "pending"]
    /\ now' = [now EXCEPT ![t] = expired]
    /\ todo' = [todo EXCEPT ![t] = OpenRequests]
    /\ listed' = [listed EXCEPT ![t] = {}]
    /\ known' = [known EXCEPT ![t] = ResolvedNow]
    /\ UNCHANGED <<fileVars, expired, lock, id, verdict, handle, historyVars, crashes>>

ResolvedIgnored(i) == FALSE
Resolved(i) == results[i] # "none"

(* One turn of a loop begins: a resolved request is skipped.                *)
Visit(t, loop, next) ==
    /\ pc[t] = loop
    /\ \E i \in todo[t] :
          /\ todo' = [todo EXCEPT ![t] = @ \ {i}]
          /\ IF Resolved(i)
             THEN UNCHANGED <<pc, id>>
             ELSE /\ pc' = [pc EXCEPT ![t] = next]
                  /\ id' = [id EXCEPT ![t] = i]
    /\ UNCHANGED <<fileVars, expired, lock, verdict, handle, now, listed, known,
                   historyVars, boundVars>>

(* The file is read again, and unlinked if it is still there and expired.   *)
Expires(t) == requests[id[t]] = "open" /\ id[t] \in now[t]
Unlink(t) ==
    /\ pc[t] = "unlink"
    /\ pc' = [pc EXCEPT ![t] = "expire"]
    /\ IF Expires(t)
       THEN /\ requests' = [requests EXCEPT ![id[t]] = "removed"]
            /\ astray' = IF id[t] \in known[t] \/ StoreOf[t] \in wrote[id[t]]
                          THEN astray \cup {id[t]} ELSE astray
       ELSE UNCHANGED <<requests, astray>>
    /\ UNCHANGED <<results, tmp, expired, lock, id, verdict, handle, now, todo,
                   listed, known, wrote, boundVars>>

ExpireEndLocked(t) ==
    /\ pc[t] = "expire" /\ todo[t] = {}
    /\ Done(t)
    /\ UNCHANGED <<fileVars, expired, lock, handle, listed, known, historyVars, boundVars>>
ExpireEnd(t) ==
    /\ pc[t] = "expire" /\ todo[t] = {}
    /\ Done(t) /\ Unlock(t)
    /\ UNCHANGED <<fileVars, expired, handle, listed, known, historyVars, boundVars>>

Collect(t) ==
    /\ pc[t] = "read"
    /\ pc' = [pc EXCEPT ![t] = "pending"]
    /\ listed' = IF requests[id[t]] = "open" /\ id[t] \notin now[t]
                 THEN [listed EXCEPT ![t] = @ \cup {id[t]}] ELSE listed
    /\ UNCHANGED <<fileVars, expired, lock, id, verdict, handle, now, todo,
                   known, historyVars, boundVars>>

PendingEnd(t) ==
    /\ pc[t] = "pending" /\ todo[t] = {}
    /\ Done(t)
    /\ UNCHANGED <<fileVars, expired, lock, handle, listed, known, historyVars, boundVars>>

(* A process dies: its threads and locks are gone, its files are not.       *)
Crash(p) ==
    /\ crashes < MaxCrashes
    /\ crashes' = crashes + 1
    /\ LET Dead == {t \in Threads : Home(t) = p} IN
       /\ pc' = [t \in Threads |-> IF t \in Dead THEN "idle" ELSE pc[t]]
       /\ id' = [t \in Threads |-> IF t \in Dead THEN NoId ELSE id[t]]
       /\ verdict' = [t \in Threads |-> IF t \in Dead THEN "none" ELSE verdict[t]]
       /\ handle' = [t \in Threads |-> IF t \in Dead THEN "none" ELSE handle[t]]
       /\ now' = [t \in Threads |-> IF t \in Dead THEN {} ELSE now[t]]
       /\ todo' = [t \in Threads |-> IF t \in Dead THEN {} ELSE todo[t]]
    /\ lock' = [s \in Stores |-> IF ProcessOf[s] = p THEN Free ELSE lock[s]]
    /\ UNCHANGED <<fileVars, expired, listed, known, historyVars, ops>>

Step(t) ==
    \/ Open(t) \/ Write(t) \/ Replace(t)
    \/ Visit(t, "expire", "unlink") \/ Unlink(t) \/ ExpireEnd(t)
    \/ Visit(t, "pending", "read") \/ Collect(t) \/ PendingEnd(t)

Call(t) ==
    \/ \E i \in Ids : Save(t, i)
    \/ \E i \in Ids, v \in Verdicts : ResolveBegin(t, i, v)
    \/ ExpireBegin(t) \/ PendingBegin(t)

Next ==
    \/ \E t \in Threads : Call(t) \/ Step(t)
    \/ \E i \in Ids : Tick(i)
    \/ \E p \in Processes : Crash(p)

Spec == Init /\ [][Next]_vars

(* A thread that has begun a call goes on with it.                          *)
FairSpec == Spec /\ \A t \in Threads : WF_vars(Step(t))

(***************************************************************************)
(* Properties.                                                              *)
(***************************************************************************)
TypeOK ==
    /\ requests \in [Ids -> {"unborn", "open", "removed"}]
    /\ results \in [Ids -> Contents]
    /\ tmp \in [Processes \X Ids -> Contents]
    /\ expired \subseteq Ids
    /\ lock \in [Stores -> Threads \cup {Free}]
    /\ pc \in [Threads -> {"idle", "open", "write", "replace", "expire", "unlink",
                           "pending", "read"}]
    /\ id \in [Threads -> Ids \cup {NoId}]
    /\ verdict \in [Threads -> Verdicts \cup {"none"}]
    /\ handle \in [Threads -> {"none", "tmp", "final"}]
    /\ now \in [Threads -> SUBSET Ids]
    /\ todo \in [Threads -> SUBSET Ids]
    /\ listed \in [Threads -> SUBSET Ids]
    /\ known \in [Threads -> SUBSET Ids]
    /\ wrote \in [Ids -> SUBSET Stores]
    /\ astray \subseteq Ids
    /\ ops \in Nat /\ crashes \in Nat

(* The store keeps the promise of DecisionStore: what is at the final path   *)
(* of a result is a whole decision that somebody was making when it got     *)
(* there ("a reader never sees a half-written file", approval_store.py:14), *)
(* and no concurrent writer and no crash takes a decision away again.       *)
Resolving(t) == pc[t] \in {"open", "write", "replace"}
Asked == [i \in Ids |->
             {verdict[t] : t \in {u \in Threads : Resolving(u) /\ id[u] = i}}]
Decisions == INSTANCE DecisionStore WITH
    decided <- results, asked <- Asked, None <- "none"
KeepsDecisions == Decisions!Spec

(* pending() never asks for a decision that was on disk when it began       *)
(* (approval_store.py:143), while requests are resolved and removed.        *)
PendingIsUndecided == \A t \in Threads : listed[t] \cap known[t] = {}

(* expire_old removes "expired, unresolved request files" (:159): no file   *)
(* of a request that was resolved when it began, or that its own store      *)
(* resolves meanwhile.  (Another store may, between its look and its        *)
(* unlink.)                                                                 *)
RemovedWereUnresolved == astray = {}

(* The lock of a store comes free again.                                    *)
LockComesFree == \A s \in Stores : lock[s] # Free ~> lock[s] = Free
=============================================================================

------------------------- MODULE ApprovalStoreProofs -------------------------
(***************************************************************************)
(* Theorems about ApprovalStore, for all ids, processes, stores, threads    *)
(* and bounds.                                                              *)
(***************************************************************************)
EXTENDS ApprovalStore, TLAPS

(***************************************************************************)
(* The inductive invariant: what a thread in the middle of a call holds and *)
(* knows, and that no decision on disk is ever taken away.                  *)
(***************************************************************************)
Locked(t) == Resolving(t) \/ pc[t] \in {"expire", "unlink"}

ThreadInv(t) ==
    /\ Locked(t) => lock[StoreOf[t]] = t
    /\ Resolving(t) => id[t] \in Ids /\ verdict[t] \in Verdicts
    /\ pc[t] \in {"unlink", "read"} => id[t] \in Ids /\ id[t] \notin known[t]
    /\ pc[t] = "unlink" => StoreOf[t] \notin wrote[id[t]]
    /\ known[t] \subseteq ResolvedNow
    /\ listed[t] \cap known[t] = {}

FileInv ==
    /\ \A i \in Ids : wrote[i] # {} => results[i] # "none"
    /\ astray = {}

StoreInv == TypeOK /\ (\A t \in Threads : ThreadInv(t)) /\ FileInv

LEMMA StoreInit == Init => StoreInv
<1> SUFFICES ASSUME Init PROVE StoreInv
  OBVIOUS
<1>1. TypeOK
  BY DEF Init, TypeOK, Contents
<1>2. ASSUME NEW t \in Threads PROVE ThreadInv(t)
  BY DEF Init, ThreadInv, Locked, Resolving, ResolvedNow
<1>3. FileInv
  BY DEF Init, FileInv
<1>. QED  BY <1>1, <1>2, <1>3 DEF StoreInv

LEMMA Places ==
  ASSUME NEW t \in Threads
  PROVE  StoreOf[t] \in Stores /\ Home(t) \in Processes /\ t # Free
  BY PlacesAssumption DEF Home

(* The steps that begin a call, of which save is already the whole.         *)
LEMMA CallKeeps ==
  ASSUME StoreInv, NEW t \in Threads, Call(t)
  PROVE  StoreInv'
<1>0. TypeOK /\ (\A u \in Threads : ThreadInv(u)) /\ FileInv /\ StoreOf[t] \in Stores /\ t # Free
  BY Places DEF StoreInv
<1>1. ASSUME NEW i \in Ids, Save(t, i) PROVE StoreInv'
  <2>1. TypeOK'
    BY <1>0, <1>1 DEF TypeOK, Save, Begin, historyVars, threadVars
  <2>2. ASSUME NEW u \in Threads PROVE ThreadInv(u)'
    BY <1>0, <1>1 DEF ThreadInv, Locked, Resolving, ResolvedNow, Save, historyVars, threadVars
  <2>3. FileInv'
    BY <1>0, <1>1 DEF FileInv, Save, historyVars
  <2>. QED  BY <2>1, <2>2, <2>3 DEF StoreInv
<1>2. ASSUME NEW i \in Ids, NEW v \in Verdicts, ResolveBegin(t, i, v) PROVE StoreInv'
  <2>1. TypeOK'
    BY <1>0, <1>2 DEF TypeOK, ResolveBegin, Begin, Lock, Unlocked, fileVars, historyVars
  <2>2. ASSUME NEW u \in Threads PROVE ThreadInv(u)'
    <3>1. CASE u = t
      BY <1>0, <1>2, <3>1 DEF TypeOK, ThreadInv, Locked, Resolving, ResolvedNow,
         ResolveBegin, Begin, Lock, fileVars, historyVars
    <3>2. CASE u # t
      <4>1. Locked(u) => StoreOf[u] # StoreOf[t]
        BY <1>0, <1>2, Places DEF ThreadInv, ResolveBegin, Lock, Unlocked
      <4>2. pc'[u] = pc[u] /\ id'[u] = id[u] /\ verdict'[u] = verdict[u]
            /\ known' = known /\ listed' = listed /\ results' = results /\ wrote' = wrote
        BY <1>0, <1>2, <3>2 DEF TypeOK, ResolveBegin, fileVars, historyVars
      <4>3. Locked(u) => lock'[StoreOf[u]] = lock[StoreOf[u]]
        BY <1>0, <1>2, <4>1, Places DEF TypeOK, ResolveBegin, Lock
      <4>. QED  BY <1>0, <4>2, <4>3 DEF ThreadInv, Locked, Resolving, ResolvedNow
    <3>. QED  BY <3>1, <3>2
  <2>3. FileInv'
    BY <1>0, <1>2 DEF FileInv, ResolveBegin, fileVars, historyVars
  <2>. QED  BY <2>1, <2>2, <2>3 DEF StoreInv
<1>3. CASE ExpireBegin(t)
  <2>1. TypeOK'
    BY <1>0, <1>3 DEF TypeOK, ExpireBegin, Begin, Lock, Unlocked, fileVars, historyVars,
       OpenRequests, ResolvedNow
  <2>2. ASSUME NEW u \in Threads PROVE ThreadInv(u)'
    <3>1. CASE u = t
      BY <1>0, <1>3, <3>1 DEF TypeOK, ThreadInv, Locked, Resolving, ResolvedNow,
         ExpireBegin, Begin, Lock, fileVars, historyVars
    <3>2. CASE u # t
      <4>1. Locked(u) => StoreOf[u] # StoreOf[t]
        BY <1>0, <1>3, Places DEF ThreadInv, ExpireBegin, Lock, Unlocked
      <4>2. pc'[u] = pc[u] /\ id'[u] = id[u] /\ verdict'[u] = verdict[u]
            /\ known'[u] = known[u] /\ listed'[u] = listed[u] /\ results' = results
            /\ wrote' = wrote
        BY <1>0, <1>3, <3>2 DEF TypeOK, ExpireBegin, fileVars, historyVars
      <4>3. Locked(u) => lock'[StoreOf[u]] = lock[StoreOf[u]]
        BY <1>0, <1>3, <4>1, Places DEF TypeOK, ExpireBegin, Lock
      <4>. QED  BY <1>0, <4>2, <4>3 DEF ThreadInv, Locked, Resolving, ResolvedNow
    <3>. QED  BY <3>1, <3>2
  <2>3. FileInv'
    BY <1>0, <1>3 DEF FileInv, ExpireBegin, fileVars, historyVars
  <2>. QED  BY <2>1, <2>2, <2>3 DEF StoreInv
<1>4. CASE PendingBegin(t)
  <2>1. TypeOK'
    BY <1>0, <1>4 DEF TypeOK, PendingBegin, Begin, fileVars, historyVars,
       OpenRequests, ResolvedNow
  <2>2. ASSUME NEW u \in Threads PROVE ThreadInv(u)'
    BY <1>0, <1>4 DEF TypeOK, ThreadInv, Locked, Resolving, ResolvedNow,
       PendingBegin, Begin, fileVars, historyVars
  <2>3. FileInv'
    BY <1>0, <1>4 DEF FileInv, PendingBegin, fileVars, historyVars
  <2>. QED  BY <2>1, <2>2, <2>3 DEF StoreInv
<1>. QED  BY <1>1, <1>2, <1>3, <1>4 DEF Call

(* Nobody else is in a call with the lock while a thread of the store is.   *)
LEMMA LockExcludes ==
  ASSUME StoreInv, NEW t \in Threads, NEW u \in Threads, u # t,
         Locked(t), StoreOf[u] = StoreOf[t]
  PROVE  ~Locked(u)
BY DEF StoreInv, ThreadInv

(* The steps of resolve. *)
LEMMA ResolveKeeps ==
  ASSUME StoreInv, NEW t \in Threads, Open(t) \/ Write(t) \/ Replace(t)
  PROVE  StoreInv'
<1>0. /\ TypeOK /\ FileInv /\ \A u \in Threads : ThreadInv(u)
      /\ Locked(t) /\ Resolving(t) /\ ThreadInv(t)
      /\ Home(t) \in Processes /\ StoreOf[t] \in Stores
  BY Places DEF StoreInv, Locked, Resolving, Open, Write, Replace
<1>1. id[t] \in Ids /\ verdict[t] \in Verdicts /\ lock[StoreOf[t]] = t
      /\ verdict[t] # "none" /\ TmpOf(t) \in Processes \X Ids
  BY <1>0, ContentsAssumption DEF ThreadInv, TmpOf
<1>2. CASE Open(t)
  <2>1. TypeOK'
    BY <1>0, <1>1, <1>2 DEF TypeOK, Open, historyVars, boundVars, Contents
  <2>2. ASSUME NEW u \in Threads PROVE ThreadInv(u)'
    BY <1>0, <1>2 DEF TypeOK, ThreadInv, Locked, Resolving, ResolvedNow, Open, historyVars
  <2>3. FileInv'
    BY <1>0, <1>2 DEF FileInv, Open, historyVars
  <2>. QED  BY <2>1, <2>2, <2>3 DEF StoreInv
<1>3. CASE Write(t)
  <2>0. \A i \in Ids : results[i] # "none" => results'[i] # "none"
    BY <1>0, <1>1, <1>3 DEF TypeOK, Write
  <2>1. TypeOK'
    BY <1>0, <1>1, <1>3 DEF TypeOK, Write, historyVars, boundVars, Contents
  <2>2. ASSUME NEW u \in Threads PROVE ThreadInv(u)'
    <3>1. pc'[u] \in {pc[u], "replace"} /\ (Locked(u)' => Locked(u))
          /\ (Resolving(u)' => Resolving(u))
          /\ (pc'[u] \in {"unlink", "read"} => pc'[u] = pc[u])
      BY <1>0, <1>3 DEF TypeOK, Write, Locked, Resolving
    <3>2. UNCHANGED <<id, verdict, lock, known, listed, wrote>>
      BY <1>3 DEF Write, historyVars
    <3>3. ThreadInv(u) /\ known[u] \subseteq Ids
      BY <1>0 DEF TypeOK
    <3>4. known'[u] \subseteq ResolvedNow'
      BY <2>0, <3>2, <3>3 DEF ThreadInv, ResolvedNow
    <3>. QED  BY <3>1, <3>2, <3>3, <3>4 DEF ThreadInv
  <2>3. FileInv'
    BY <1>0, <1>3, <2>0 DEF FileInv, Write, historyVars
  <2>. QED  BY <2>1, <2>2, <2>3 DEF StoreInv
<1>4. CASE Replace(t)
  <2>0. \A i \in Ids : results[i] # "none" => results'[i] # "none"
    BY <1>0, <1>1, <1>4 DEF TypeOK, Replace
  <2>a. wrote' \in {wrote, [wrote EXCEPT ![id[t]] = wrote[id[t]] \cup {StoreOf[t]}]}
    BY <1>4 DEF Replace
  <2>1. TypeOK'
    <3>1. tmp[TmpOf(t)] \in Contents /\ "none" \in Contents
      BY <1>0, <1>1 DEF TypeOK, Contents
    <3>2. results' \in [Ids -> Contents]
      BY <1>0, <1>4, <3>1 DEF TypeOK, Replace
    <3>3. tmp' \in [Processes \X Ids -> Contents]
      BY <1>0, <1>4, <3>1 DEF TypeOK, Replace
    <3>4. wrote' \in [Ids -> SUBSET Stores]
      BY <1>0, <2>a DEF TypeOK
    <3>5. handle' \in [Threads -> {"none", "tmp", "final"}]
      BY <1>0, <1>4 DEF TypeOK, Replace
    <3>. QED  BY <1>0, <1>4, <3>2, <3>3, <3>4, <3>5 DEF TypeOK, Replace, Done, Unlock, boundVars, NoId
  <2>2. ASSUME NEW u \in Threads PROVE ThreadInv(u)'
    <3>1. known' = known /\ listed' = listed /\ ThreadInv(u) /\ known[u] \subseteq Ids
      BY <1>0, <1>4 DEF TypeOK, Replace
    <3>2. known'[u] \subseteq ResolvedNow'
      BY <2>0, <3>1 DEF ThreadInv, ResolvedNow
    <3>3. CASE u = t
      <4>1. pc'[t] = "idle"
        BY <1>0, <1>4 DEF TypeOK, Replace, Done
      <4>. QED  BY <3>1, <3>2, <3>3, <4>1 DEF ThreadInv, Locked, Resolving
    <3>4. CASE u # t
      <4>1. pc'[u] = pc[u] /\ id'[u] = id[u] /\ verdict'[u] = verdict[u]
        BY <1>0, <1>4, <3>4 DEF TypeOK, Replace, Done
      <4>2. Locked(u) => StoreOf[u] # StoreOf[t]
        BY <1>0, <3>4, LockExcludes
      <4>3. Locked(u) => lock'[StoreOf[u]] = lock[StoreOf[u]]
        BY <1>0, <1>4, <4>2, Places DEF TypeOK, Replace, Unlock
      <4>4. \A i \in Ids : StoreOf[u] # StoreOf[t] /\ StoreOf[u] \notin wrote[i]
                            => StoreOf[u] \notin wrote'[i]
        BY <1>0, <2>a DEF TypeOK
      <4>5. pc[u] = "unlink" => Locked(u) /\ id[u] \in Ids
        BY <3>1 DEF ThreadInv, Locked
      <4>. QED  BY <3>1, <3>2, <4>1, <4>2, <4>3, <4>4, <4>5 DEF ThreadInv, Locked, Resolving
    <3>. QED  BY <3>3, <3>4
  <2>3. FileInv'
    <3>1. \A i \in Ids : wrote'[i] # {} => wrote[i] # {} \/ results'[i] # "none"
      BY <1>0, <1>1, <1>4 DEF TypeOK, Replace
    <3>. QED  BY <1>0, <1>4, <2>0, <3>1 DEF FileInv, Replace
  <2>. QED  BY <2>1, <2>2, <2>3 DEF StoreInv
<1>. QED  BY <1>2, <1>3, <1>4

(* The turns and the ends of the loops, and what they unlink or collect.    *)
LEMMA LoopKeeps ==
  ASSUME StoreInv, NEW t \in Threads,
         \/ Visit(t, "expire", "unlink") \/ Unlink(t) \/ ExpireEnd(t)
         \/ Visit(t, "pending", "read") \/ Collect(t) \/ PendingEnd(t)
  PROVE  StoreInv'
<1>0. /\ TypeOK /\ FileInv /\ (\A u \in Threads : ThreadInv(u)) /\ ThreadInv(t)
      /\ StoreOf[t] \in Stores /\ t # Free
  BY Places DEF StoreInv
<1>1. ASSUME NEW loop, NEW next,
             <<loop, next>> \in {<<"expire", "unlink">>, <<"pending", "read">>},
             Visit(t, loop, next)
      PROVE  StoreInv'
  <2>0. /\ UNCHANGED <<requests, results, tmp, expired, lock, verdict, handle, now, listed,
                       known, wrote, astray, ops, crashes>>
        /\ todo' \in [Threads -> SUBSET Ids]
        /\ \/ UNCHANGED <<pc, id>>
           \/ \E i \in Ids : /\ results[i] = "none"
                              /\ pc[t] = loop /\ pc' = [pc EXCEPT ![t] = next]
                              /\ id' = [id EXCEPT ![t] = i]
    <3>1. UNCHANGED <<requests, results, tmp, expired, lock, verdict, handle, now, listed,
                      known, wrote, astray, ops, crashes>>
      BY <1>1 DEF Visit, fileVars, historyVars, boundVars
    <3>2. PICK i \in todo[t] :
            /\ todo' = [todo EXCEPT ![t] = @ \ {i}]
            /\ IF Resolved(i) THEN UNCHANGED <<pc, id>>
               ELSE pc' = [pc EXCEPT ![t] = next] /\ id' = [id EXCEPT ![t] = i]
      BY <1>1 DEF Visit
    <3>3. todo' \in [Threads -> SUBSET Ids] /\ i \in Ids
      BY <1>0, <3>2 DEF TypeOK
    <3>4. pc[t] = loop
      BY <1>1 DEF Visit
    <3>. QED  BY <3>1, <3>2, <3>3, <3>4 DEF Resolved
  <2>1. TypeOK'
    <3>1. next \in {"unlink", "read"}
      BY <1>1
    <3>2. pc' \in [Threads -> {"idle", "open", "write", "replace", "expire", "unlink",
                               "pending", "read"}]
          /\ id' \in [Threads -> Ids \cup {NoId}]
      <4>1. CASE UNCHANGED <<pc, id>>
        BY <1>0, <4>1 DEF TypeOK
      <4>2. ASSUME NEW i \in Ids, pc' = [pc EXCEPT ![t] = next], id' = [id EXCEPT ![t] = i]
            PROVE  /\ pc' \in [Threads -> {"idle", "open", "write", "replace", "expire",
                                           "unlink", "pending", "read"}]
                   /\ id' \in [Threads -> Ids \cup {NoId}]
        BY <1>0, <3>1, <4>2 DEF TypeOK
      <4>. QED  BY <2>0, <4>1, <4>2
    <3>. QED  BY <1>0, <2>0, <3>2 DEF TypeOK
  <2>2. ASSUME NEW u \in Threads PROVE ThreadInv(u)'
    <3>1. CASE UNCHANGED <<pc, id>> \/ u # t
      <4>1. pc'[u] = pc[u] /\ id'[u] = id[u]
        BY <1>0, <2>0, <3>1 DEF TypeOK
      <4>. QED  BY <1>0, <2>0, <4>1 DEF ThreadInv, Locked, Resolving, ResolvedNow
    <3>2. ASSUME u = t, NEW i \in Ids, results[i] = "none", pc[t] = loop,
                 pc' = [pc EXCEPT ![t] = next], id' = [id EXCEPT ![t] = i]
          PROVE  ThreadInv(u)'
      <4>1. pc'[t] = next /\ id'[t] = i
        BY <1>0, <3>2 DEF TypeOK
      <4>2. i \notin known[t] /\ wrote[i] = {}
        BY <1>0, <3>2 DEF ThreadInv, ResolvedNow, FileInv
      <4>. QED  BY <1>0, <1>1, <2>0, <3>2, <4>1, <4>2 DEF ThreadInv, Locked, Resolving, ResolvedNow
    <3>. QED  BY <2>0, <3>1, <3>2
  <2>3. FileInv'
    BY <1>0, <2>0 DEF FileInv
  <2>. QED  BY <2>1, <2>2, <2>3 DEF StoreInv
<1>2. CASE Unlink(t)
  <2>0. id[t] \in Ids /\ id[t] \notin known[t] /\ StoreOf[t] \notin wrote[id[t]]
    BY <1>0, <1>2 DEF ThreadInv, Unlink
  <2>1. TypeOK'
    BY <1>0, <1>2, <2>0 DEF TypeOK, Unlink, boundVars
  <2>2. ASSUME NEW u \in Threads PROVE ThreadInv(u)'
    <3>1. UNCHANGED <<results, lock, id, verdict, listed, known, wrote>>
      BY <1>2 DEF Unlink
    <3>2. pc' = [pc EXCEPT ![t] = "expire"] /\ pc[t] = "unlink"
      BY <1>2 DEF Unlink
    <3>. QED  BY <1>0, <3>1, <3>2 DEF TypeOK, ThreadInv, Locked, Resolving, ResolvedNow
  <2>3. FileInv'
    BY <1>0, <1>2, <2>0 DEF FileInv, Unlink
  <2>. QED  BY <2>1, <2>2, <2>3 DEF StoreInv
<1>3. CASE ExpireEnd(t)
  <2>1. TypeOK'
    BY <1>0, <1>3 DEF TypeOK, ExpireEnd, Done, Unlock, NoId, fileVars, historyVars, boundVars
  <2>2. ASSUME NEW u \in Threads PROVE ThreadInv(u)'
    <3>0. UNCHANGED <<results, listed, known, wrote>> /\ pc[t] = "expire"
      BY <1>3 DEF ExpireEnd, fileVars, historyVars
    <3>1. CASE u = t
      <4>1. pc'[t] = "idle"
        BY <1>0, <1>3 DEF TypeOK, ExpireEnd, Done
      <4>. QED  BY <1>0, <3>0, <3>1, <4>1 DEF ThreadInv, Locked, Resolving, ResolvedNow
    <3>2. CASE u # t
      <4>1. pc'[u] = pc[u] /\ id'[u] = id[u] /\ verdict'[u] = verdict[u]
        BY <1>0, <1>3, <3>2 DEF TypeOK, ExpireEnd, Done
      <4>2. Locked(u) => StoreOf[u] # StoreOf[t]
        BY <3>0, <3>2, LockExcludes DEF Locked
      <4>3. Locked(u) => lock'[StoreOf[u]] = lock[StoreOf[u]]
        BY <1>0, <1>3, <4>2, Places DEF TypeOK, ExpireEnd, Unlock
      <4>. QED  BY <1>0, <3>0, <4>1, <4>3 DEF ThreadInv, Locked, Resolving, ResolvedNow
    <3>. QED  BY <3>1, <3>2
  <2>3. FileInv'
    BY <1>0, <1>3 DEF FileInv, ExpireEnd, fileVars, historyVars
  <2>. QED  BY <2>1, <2>2, <2>3 DEF StoreInv
<1>4. CASE Collect(t)
  <2>0. id[t] \in Ids /\ id[t] \notin known[t]
    BY <1>0, <1>4 DEF ThreadInv, Collect
  <2>1. TypeOK'
    BY <1>0, <1>4, <2>0 DEF TypeOK, Collect, fileVars, historyVars, boundVars
  <2>2. ASSUME NEW u \in Threads PROVE ThreadInv(u)'
    <3>1. listed'[u] \cap known[u] = {}
      BY <1>0, <1>4, <2>0 DEF TypeOK, ThreadInv, Collect
    <3>2. UNCHANGED <<results, lock, id, verdict, known, wrote>>
      BY <1>4 DEF Collect, fileVars, historyVars
    <3>3. pc' = [pc EXCEPT ![t] = "pending"]
      BY <1>4 DEF Collect
    <3>. QED  BY <1>0, <3>1, <3>2, <3>3 DEF TypeOK, ThreadInv, Locked, Resolving, ResolvedNow
  <2>3. FileInv'
    BY <1>0, <1>4 DEF FileInv, Collect, fileVars, historyVars
  <2>. QED  BY <2>1, <2>2, <2>3 DEF StoreInv
<1>5. CASE PendingEnd(t)
  <2>1. TypeOK'
    BY <1>0, <1>5 DEF TypeOK, PendingEnd, Done, NoId, fileVars, historyVars, boundVars
  <2>2. ASSUME NEW u \in Threads PROVE ThreadInv(u)'
    BY <1>0, <1>5 DEF TypeOK, ThreadInv, Locked, Resolving, ResolvedNow, PendingEnd, Done,
       fileVars, historyVars
  <2>3. FileInv'
    BY <1>0, <1>5 DEF FileInv, PendingEnd, fileVars, historyVars
  <2>. QED  BY <2>1, <2>2, <2>3 DEF StoreInv
<1>. QED  BY <1>1, <1>2, <1>3, <1>4, <1>5

(* The clock, and a death, which frees the locks of the dead only.          *)
LEMMA TickKeeps ==
  ASSUME StoreInv, NEW i \in Ids, Tick(i)
  PROVE  StoreInv'
BY DEF StoreInv, TypeOK, ThreadInv, Locked, Resolving, ResolvedNow, FileInv, Tick,
   fileVars, threadVars, historyVars, boundVars

LEMMA CrashKeeps ==
  ASSUME StoreInv, NEW p \in Processes, Crash(p)
  PROVE  StoreInv'
<1>0. TypeOK /\ FileInv /\ \A u \in Threads : ThreadInv(u)
  BY DEF StoreInv
<1>1. TypeOK'
  <2>1. pc' \in [Threads -> {"idle", "open", "write", "replace", "expire", "unlink",
                             "pending", "read"}]
        /\ id' \in [Threads -> Ids \cup {NoId}]
        /\ verdict' \in [Threads -> Verdicts \cup {"none"}]
    BY <1>0 DEF TypeOK, Crash
  <2>2. handle' \in [Threads -> {"none", "tmp", "final"}]
        /\ now' \in [Threads -> SUBSET Ids] /\ todo' \in [Threads -> SUBSET Ids]
    BY <1>0 DEF TypeOK, Crash
  <2>3. lock' \in [Stores -> Threads \cup {Free}] /\ crashes' \in Nat
    BY <1>0 DEF TypeOK, Crash
  <2>. QED  BY <1>0, <2>1, <2>2, <2>3 DEF TypeOK, Crash, fileVars, historyVars
<1>2. ASSUME NEW u \in Threads PROVE ThreadInv(u)'
  <2>0. UNCHANGED <<results, listed, known, wrote>> /\ ThreadInv(u)
    BY <1>0 DEF Crash, fileVars, historyVars
  <2>1. CASE Home(u) = p
    <3>1. pc'[u] = "idle"
      BY <2>1 DEF Crash
    <3>. QED  BY <2>0, <3>1 DEF ThreadInv, Locked, Resolving, ResolvedNow
  <2>2. CASE Home(u) # p
    <3>1. pc'[u] = pc[u] /\ id'[u] = id[u] /\ verdict'[u] = verdict[u]
          /\ lock'[StoreOf[u]] = lock[StoreOf[u]]
      BY <2>2, Places DEF Crash, Home
    <3>. QED  BY <2>0, <3>1 DEF ThreadInv, Locked, Resolving, ResolvedNow
  <2>. QED  BY <2>1, <2>2
<1>3. FileInv'
  BY <1>0 DEF FileInv, Crash, fileVars, historyVars
<1>. QED  BY <1>1, <1>2, <1>3 DEF StoreInv

LEMMA StoreStep == StoreInv /\ [Next]_vars => StoreInv'
<1>1. ASSUME StoreInv, UNCHANGED vars PROVE StoreInv'
  BY <1>1 DEF StoreInv, TypeOK, ThreadInv, Locked, Resolving, ResolvedNow, FileInv, vars,
     fileVars, threadVars, historyVars, boundVars
<1>. QED  BY <1>1, CallKeeps, ResolveKeeps, LoopKeeps, TickKeeps, CrashKeeps DEF Next, Step

LEMMA StoreInvariance == Spec => []StoreInv
BY StoreInit, StoreStep, PTL DEF Spec

(* Files, locks and locals of the threads keep their types.                 *)
THEOREM StoreTyping == Spec => []TypeOK
<1>1. StoreInv => TypeOK
  BY DEF StoreInv
<1>. QED  BY <1>1, StoreInvariance, PTL

(* pending() never asks for a decision that was on disk when it began,      *)
(* with any number of processes that resolve, expire and die meanwhile.     *)
THEOREM PendingIsRight == Spec => []PendingIsUndecided
<1>1. StoreInv => PendingIsUndecided
  BY DEF StoreInv, ThreadInv, PendingIsUndecided
<1>. QED  BY <1>1, StoreInvariance, PTL

(* expire_old never removes a request that was resolved when it began, or   *)
(* that its own store resolves meanwhile.                                   *)
THEOREM ExpiryIsRight == Spec => []RemovedWereUnresolved
<1>1. StoreInv => RemovedWereUnresolved
  BY DEF StoreInv, FileInv, RemovedWereUnresolved
<1>. QED  BY <1>1, StoreInvariance, PTL

(***************************************************************************)
(* The refinement.  It takes one store per process: two stores of a process *)
(* do not exclude each other and yet name the same temporary file.  What a  *)
(* thread writes then goes to a temporary file that is its own.             *)
(***************************************************************************)
OneStore == \A s1, s2 \in Stores : ProcessOf[s1] = ProcessOf[s2] => s1 = s2

Writing(t) == pc[t] \in {"write", "replace"}

TmpInv(t) ==
    /\ Writing(t) => handle[t] = "tmp"
    /\ pc[t] = "replace" => tmp[TmpOf(t)] = verdict[t]

OwnTmp == \A t \in Threads : TmpInv(t)

(* Two threads that resolve at one time do not name the same file.          *)
LEMMA TmpIsOwn ==
  ASSUME OneStore, StoreInv, NEW t \in Threads, NEW u \in Threads, u # t,
         Resolving(t), Resolving(u)
  PROVE  TmpOf(u) # TmpOf(t)
<1>1. StoreOf[u] # StoreOf[t]
  BY LockExcludes DEF Locked
<1>2. Home(u) # Home(t)
  BY <1>1, Places DEF OneStore, Home
<1>. QED  BY <1>2 DEF TmpOf

LEMMA TmpStep == OneStore /\ StoreInv /\ OwnTmp /\ [Next]_vars => OwnTmp'
<1> SUFFICES ASSUME OneStore, StoreInv, OwnTmp, [Next]_vars, NEW u \in Threads
             PROVE  TmpInv(u)'
  BY DEF OwnTmp
<1>0. TypeOK /\ TmpInv(u) /\ ThreadInv(u) /\ FileInv
  BY DEF StoreInv, OwnTmp
<1>1. ASSUME NEW t \in Threads, Call(t) PROVE TmpInv(u)'
  <2>1. pc[t] = "idle" /\ pc'[t] \in {"idle", "open", "expire", "pending"}
        /\ (u # t => pc'[u] = pc[u] /\ id'[u] = id[u] /\ verdict'[u] = verdict[u])
    BY <1>0, <1>1 DEF TypeOK, Call, Save, ResolveBegin, ExpireBegin, PendingBegin, Begin, threadVars
  <2>2. UNCHANGED <<tmp, handle>>
    BY <1>1 DEF Call, Save, ResolveBegin, ExpireBegin, PendingBegin, fileVars, threadVars
  <2>. QED  BY <1>0, <2>1, <2>2 DEF TmpInv, Writing, TmpOf
<1>2. ASSUME NEW t \in Threads, Open(t) PROVE TmpInv(u)'
  <2>1. Resolving(t)
    BY <1>2 DEF Open, Resolving
  <2>2. CASE u = t
    BY <1>0, <1>2, <2>2 DEF TypeOK, TmpInv, Writing, Open
  <2>3. CASE u # t
    <3>1. pc'[u] = pc[u] /\ id' = id /\ verdict' = verdict /\ handle'[u] = handle[u]
      BY <1>0, <1>2, <2>3 DEF TypeOK, Open
    <3>2. Writing(u) => tmp'[TmpOf(u)] = tmp[TmpOf(u)]
      <4>1. Writing(u) => TmpOf(u) # TmpOf(t)
        BY <2>1, <2>3, TmpIsOwn DEF Writing, Resolving
      <4>2. Writing(u) => TmpOf(u) \in Processes \X Ids
        BY <1>0, Places DEF ThreadInv, Writing, Resolving, TmpOf
      <4>. QED  BY <1>0, <1>2, <4>1, <4>2 DEF TypeOK, Open
    <3>. QED  BY <1>0, <3>1, <3>2 DEF TmpInv, Writing, TmpOf
  <2>. QED  BY <2>2, <2>3
<1>3. ASSUME NEW t \in Threads, Write(t) PROVE TmpInv(u)'
  <2>1. Resolving(t) /\ TmpInv(t) /\ ThreadInv(t) /\ handle[t] = "tmp"
    BY <1>3 DEF Write, Resolving, StoreInv, OwnTmp, TmpInv, Writing
  <2>2. UNCHANGED <<id, verdict, handle>> /\ tmp' = [tmp EXCEPT ![TmpOf(t)] = verdict[t]]
        /\ pc' = [pc EXCEPT ![t] = "replace"] /\ pc[t] = "write"
    BY <1>3, <2>1 DEF Write
  <2>3. Writing(u) => TmpOf(u) \in Processes \X Ids
    BY <1>0, Places DEF ThreadInv, Writing, Resolving, TmpOf
  <2>4. CASE u = t
    BY <1>0, <2>1, <2>2, <2>3, <2>4 DEF TypeOK, TmpInv, Writing, TmpOf
  <2>5. CASE u # t
    <3>1. pc'[u] = pc[u]
      BY <1>0, <2>2, <2>5 DEF TypeOK
    <3>2. Writing(u) => tmp'[TmpOf(u)] = tmp[TmpOf(u)]
      <4>1. Writing(u) => TmpOf(u) # TmpOf(t)
        BY <2>1, <2>5, TmpIsOwn DEF Writing, Resolving
      <4>. QED  BY <1>0, <2>2, <2>3, <4>1 DEF TypeOK
    <3>. QED  BY <1>0, <2>2, <3>1, <3>2 DEF TmpInv, Writing, TmpOf
  <2>. QED  BY <2>4, <2>5
<1>4. ASSUME NEW t \in Threads, Replace(t) PROVE TmpInv(u)'
  <2>1. Resolving(t)
    BY <1>4 DEF Replace, Resolving
  <2>2. CASE u = t
    <3>1. pc'[u] = "idle"
      BY <1>0, <1>4, <2>2 DEF TypeOK, Replace, Done
    <3>. QED  BY <3>1 DEF TmpInv, Writing
  <2>3. CASE u # t
    <3>1. pc'[u] = pc[u] /\ id'[u] = id[u] /\ verdict'[u] = verdict[u]
      BY <1>0, <1>4, <2>3 DEF TypeOK, Replace, Done
    <3>2. Writing(u) => TmpOf(u) # TmpOf(t) /\ TmpOf(u) \in Processes \X Ids
      BY <1>0, <2>1, <2>3, TmpIsOwn, Places DEF ThreadInv, Writing, Resolving, TmpOf
    <3>3. Writing(u) => tmp'[TmpOf(u)] = tmp[TmpOf(u)]
      BY <1>0, <1>4, <3>2 DEF TypeOK, Replace
    <3>4. Writing(u) => handle'[u] = handle[u]
      <4>1. handle \in [Threads -> {"none", "tmp", "final"}]
        BY <1>0 DEF TypeOK
      <4>2. CASE tmp[TmpOf(t)] # "none"
        <5>1. handle' = [v \in Threads |->
                 CASE v = t -> "none"
                   [] v # t /\ handle[v] = "tmp" /\ TmpOf(v) = TmpOf(t) -> "final"
                   [] OTHER -> handle[v]]
          BY <1>4, <4>2, Zenon DEF Replace
        <5>2. handle'[u] = CASE u = t -> "none"
                   [] u # t /\ handle[u] = "tmp" /\ TmpOf(u) = TmpOf(t) -> "final"
                   [] OTHER -> handle[u]
          BY <5>1, Zenon
        <5>. QED  BY <2>3, <3>2, <5>2, Zenon
      <4>3. CASE tmp[TmpOf(t)] = "none"
        <5>1. handle' = [handle EXCEPT ![t] = "none"]
          BY <1>4, <4>3, Zenon DEF Replace
        <5>. QED  BY <2>3, <4>1, <5>1
      <4>. QED  BY <4>2, <4>3
    <3>. QED  BY <1>0, <3>1, <3>3, <3>4 DEF TmpInv, Writing, TmpOf
  <2>. QED  BY <2>2, <2>3
<1>5. ASSUME NEW t \in Threads,
             \/ Visit(t, "expire", "unlink") \/ Unlink(t) \/ ExpireEnd(t)
             \/ Visit(t, "pending", "read") \/ Collect(t) \/ PendingEnd(t)
      PROVE  TmpInv(u)'
  <2>1. ~Writing(t) /\ ~Writing(t)'
        /\ (u # t => pc'[u] = pc[u] /\ id'[u] = id[u] /\ verdict'[u] = verdict[u])
    BY <1>0, <1>5 DEF TypeOK, Writing, Visit, Unlink, ExpireEnd, Collect, PendingEnd, Done
  <2>2. UNCHANGED <<tmp, handle>>
    BY <1>5 DEF Visit, Unlink, ExpireEnd, Collect, PendingEnd, fileVars
  <2>. QED  BY <1>0, <2>1, <2>2 DEF TmpInv, Writing, TmpOf
<1>6. ASSUME NEW p \in Processes, Crash(p) PROVE TmpInv(u)'
  <2>1. tmp' = tmp /\ (Home(u) = p => pc'[u] = "idle")
    BY <1>6 DEF Crash, fileVars
  <2>2. Home(u) # p => pc'[u] = pc[u] /\ id'[u] = id[u] /\ verdict'[u] = verdict[u]
                       /\ handle'[u] = handle[u]
    BY <1>6 DEF Crash
  <2>. QED  BY <1>0, <2>1, <2>2 DEF TmpInv, Writing, TmpOf
<1>7. ASSUME (\E i \in Ids : Tick(i)) \/ UNCHANGED vars PROVE TmpInv(u)'
  <2>1. UNCHANGED <<tmp, pc, id, verdict, handle>>
    BY <1>7 DEF Tick, vars, fileVars, threadVars
  <2>. QED  BY <1>0, <2>1 DEF TmpInv, Writing, TmpOf
<1>. QED  BY <1>1, <1>2, <1>3, <1>4, <1>5, <1>6, <1>7 DEF Next, Step

(* Only a rename changes what is at the final path of a result, and then    *)
(* to the decision that the renaming thread resolves with.                  *)
LEMMA DecisionStep ==
  OneStore /\ StoreInv /\ OwnTmp /\ [Next]_vars => [Decisions!Next]_results
<1> SUFFICES ASSUME OneStore, StoreInv, OwnTmp, [Next]_vars, results' # results
             PROVE  Decisions!Next
  OBVIOUS
<1>1. PICK t \in Threads : Write(t) \/ Replace(t)
  BY DEF Next, Call, Step, Save, ResolveBegin, ExpireBegin, PendingBegin, Open, Visit, Unlink,
     ExpireEnd, Collect, PendingEnd, Tick, Crash, vars, fileVars
<1>2. TypeOK /\ TmpInv(t) /\ ThreadInv(t) /\ Resolving(t)
  BY <1>1 DEF StoreInv, OwnTmp, Write, Replace, Resolving
<1>3. Replace(t)
  BY <1>1, <1>2 DEF Write, TmpInv, Writing
<1>4. tmp[TmpOf(t)] = verdict[t] /\ id[t] \in Ids /\ verdict[t] \in Verdicts
  BY <1>2, <1>3 DEF Replace, TmpInv, ThreadInv
<1>5. results' = [results EXCEPT ![id[t]] = verdict[t]]
  BY <1>3, <1>4 DEF Replace
<1>6. verdict[t] \in Asked[id[t]]
  BY <1>2, <1>4 DEF Asked
<1>7. Decisions!Decide(id[t])
  BY <1>4, <1>5, <1>6 DEF Decisions!Decide
<1>. QED  BY <1>4, <1>7 DEF Decisions!Next

(* With one store in each process, the files implement DecisionStore: what  *)
(* a reader finds at the final path is whole and was asked for, and no      *)
(* writer and no crash takes it away.                                       *)
THEOREM ImplementsDecisions ==
  ASSUME OneStore
  PROVE  Spec => KeepsDecisions
<1>1. Init => OwnTmp
  BY DEF Init, OwnTmp, TmpInv, Writing
<1>2. Init => Decisions!Init
  BY DEF Init, Decisions!Init
<1>3. StoreInv /\ OwnTmp /\ [Next]_vars => OwnTmp'
  BY TmpStep
<1>4. StoreInv /\ OwnTmp /\ [Next]_vars => [Decisions!Next]_results
  BY DecisionStep
<1>. QED  BY <1>1, <1>2, <1>3, <1>4, StoreInvariance, PTL DEF Spec, KeepsDecisions, Decisions!Spec
=============================================================================

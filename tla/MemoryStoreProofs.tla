--------------------------- MODULE MemoryStoreProofs ---------------------------
(***************************************************************************)
(* Theorems about MemoryStore: the index, the mirror and the recall, for    *)
(* any number of nodes, tags, processes and threads.                        *)
(***************************************************************************)
EXTENDS MemoryStore, FiniteSetTheorems, TLAPS

Contents == Values \cup TagSets \cup {Missing}
Tables   == [Keys -> Contents]
Args     == {NoArg} \cup (Keys \X Contents) \cup {<<s>> : s \in Snapshots}

LEMMA KeyFacts ==
  /\ \A k \in Keys : k[2] \in Nodes /\ (k = ValueKey(k[2]) \/ k = TagKey(k[2]))
  /\ \A n \in Nodes : ValueKey(n) \in Keys /\ TagKey(n) \in Keys /\ ValueKey(n) # TagKey(n)
  /\ \A n \in Nodes : ValueKey(n)[2] = n /\ TagKey(n)[2] = n
  /\ \A k \in Keys : ContentsOf(k) \subseteq Contents
BY DEF Keys, ValueKey, TagKey, ContentsOf, Contents

(* What the invariants need of the types.                                   *)
StoreTypes ==
    /\ open \subseteq Processes
    /\ cache \in [Processes -> Tables]
    /\ rows \in Tables
    /\ DOMAIN index = Nodes /\ index = [n \in Nodes |-> index[n]]
    /\ pc \in [Threads -> {"idle", "put", "delete", "snapshot", "take", "get", "tags"}]
    /\ arg \in [Threads -> Args]
    /\ \A t \in Threads : 
          /\ pc[t] \in {"put", "delete"} => arg[t] \in Keys \X Contents
          /\ pc[t] = "delete" => arg[t][2] = Missing
    /\ stale \in [Processes -> SUBSET Nodes]

LEMMA TypesInit == Init => StoreTypes
BY KeyFacts DEF Init, StoreTypes, Tables, Contents, Args, NoArg

(* What the history of a step is. *)
About(t, n) ==
    \/ pc[t] \in {"put", "delete"} /\ arg[t][1][2] = n
    \/ pc[t] = "snapshot"

LEMMA AboutIsInFlight ==
  ASSUME NEW t \in Threads
  PROVE  /\ InFlightOf({t}) \in SUBSET Nodes
         /\ \A n \in Nodes : n \in InFlightOf({t}) <=> About(t, n)
BY DEF InFlightOf, About

LEMMA TouchFacts ==
  ASSUME StoreTypes, NEW t \in Threads, NEW ns \in SUBSET Nodes, Touch(t, ns)
  PROVE  /\ stale' \in [Processes -> SUBSET Nodes]
         /\ \A p \in Processes : stale[p] \subseteq stale'[p]
         /\ \A p \in open \ {Home(t)} : ns \subseteq stale'[p]
         /\ Home(t) \in open => \A n \in ns, u \in Threads \ {t} :
               Home(u) = Home(t) /\ About(u, n) => n \in stale'[Home(t)]
<1>1. stale' = [p \in Processes |-> stale[p] \cup
          IF p \notin open THEN {}
          ELSE IF p # Home(t) THEN ns
          ELSE ns \cap InFlightOf({u \in Threads \ {t} : Home(u) = p})]
  BY DEF Touch
<1>2. \A p : InFlightOf({u \in Threads \ {t} : Home(u) = p}) \subseteq Nodes
  BY DEF InFlightOf
<1>3. \A n \in ns, u \in Threads \ {t} : Home(u) = Home(t) /\ About(u, n) =>
          n \in InFlightOf({v \in Threads \ {t} : Home(v) = Home(t)})
  BY DEF InFlightOf, About
<1>4. Home(t) \in Processes
  BY MemoryAssumption DEF Home
<1>. QED  BY <1>1, <1>2, <1>3, <1>4 DEF StoreTypes

LEMMA TypesStep == StoreTypes /\ [Next]_vars => StoreTypes'
<1> SUFFICES ASSUME StoreTypes, [Next]_vars PROVE StoreTypes'
  OBVIOUS
<1>0. \A t \in Threads : Home(t) \in Processes
  BY MemoryAssumption DEF Home
<1>1. ASSUME NEW t \in Threads, NEW k \in Keys, NEW c \in Contents, NEW place \in {"put", "delete"},
             cache' = [cache EXCEPT ![Home(t)][k] = c], pc' = [pc EXCEPT ![t] = place],
             arg' = [arg EXCEPT ![t] = <<k, c>>], Touch(t, {k[2]}),
             place = "delete" => c = Missing, UNCHANGED <<open, rows, index>>
      PROVE  StoreTypes'
  <2>1. stale' \in [Processes -> SUBSET Nodes]
    BY <1>1, KeyFacts, TouchFacts
  <2>2. cache' \in [Processes -> Tables]
    BY <1>0, <1>1 DEF StoreTypes, Tables
  <2>3. arg' \in [Threads -> Args] /\ arg'[t] \in Keys \X Contents
        /\ \A u \in Threads \ {t} : arg'[u] = arg[u] /\ pc'[u] = pc[u]
    BY <1>1 DEF StoreTypes, Args
  <2>. QED  BY <1>1, <2>1, <2>2, <2>3 DEF StoreTypes
<1>2. ASSUME NEW t \in Threads, NEW s \in Snapshots, SnapshotCache(t, s) PROVE StoreTypes'
  <2>1. stale' \in [Processes -> SUBSET Nodes]
    BY <1>2, TouchFacts DEF SnapshotCache
  <2>2. cache' \in [Processes -> Tables]
    BY <1>0, <1>2, MemoryAssumption DEF StoreTypes, Tables, Contents, SnapshotCache
  <2>3. arg' \in [Threads -> Args] /\ pc'[t] = "snapshot"
        /\ \A u \in Threads \ {t} : arg'[u] = arg[u] /\ pc'[u] = pc[u]
    BY <1>2 DEF StoreTypes, Args, SnapshotCache
  <2>. QED  BY <1>2, <2>1, <2>2, <2>3 DEF StoreTypes, SnapshotCache
<1>3. ASSUME NEW t \in Threads, Finished(t), rows' \in Tables,
             DOMAIN index' = Nodes /\ index' = [n \in Nodes |-> index'[n]],
             stale' \in [Processes -> SUBSET Nodes]
      PROVE  StoreTypes'
  <2>1. arg' \in [Threads -> Args] /\ pc'[t] = "idle"
        /\ \A u \in Threads \ {t} : arg'[u] = arg[u] /\ pc'[u] = pc[u]
    BY <1>3 DEF StoreTypes, Args, Finished
  <2>. QED  BY <1>3, <2>1 DEF StoreTypes, Finished
<1>4. ASSUME NEW t \in Threads, PutCommit(t) \/ DeleteCommit(t) \/ SnapshotCommit(t) PROVE StoreTypes'
  <2>0. pc[t] \in {"put", "delete"} => arg[t] \in Keys \X Contents /\ arg[t][1][2] \in Nodes
    BY KeyFacts DEF StoreTypes
  <2>1. stale' \in [Processes -> SUBSET Nodes]
    BY <1>4, <2>0, TouchFacts DEF PutCommit, DeleteCommit, SnapshotCommit
  <2>2. rows' \in Tables
    <3>1. ASSUME NEW k \in Keys, NEW c \in Contents, rows' = [rows EXCEPT ![k] = c]
          PROVE  rows' \in Tables
      BY <3>1 DEF StoreTypes, Tables
    <3>2. PutCommit(t) => pc[t] = "put" /\ rows' = [rows EXCEPT ![arg[t][1]] = arg[t][2]]
      BY DEF PutCommit
    <3>3. DeleteCommit(t) => pc[t] = "delete" /\ rows' = [rows EXCEPT ![arg[t][1]] = Missing]
      BY DEF DeleteCommit
    <3>4. SnapshotCommit(t) => rows' = cache[Home(t)]
      BY DEF SnapshotCommit
    <3>5. Missing \in Contents
      BY DEF Contents
    <3>. QED  BY <1>0, <1>4, <2>0, <3>1, <3>2, <3>3, <3>4, <3>5 DEF StoreTypes
  <2>3. DOMAIN index' = Nodes /\ index' = [n \in Nodes |-> index'[n]]
    BY <1>4, <2>0 DEF StoreTypes, PutCommit, DeleteCommit, SnapshotCommit, IndexTags, UnindexedBy
  <2>. QED  BY <1>3, <1>4, <2>1, <2>2, <2>3 DEF PutCommit, DeleteCommit, SnapshotCommit
<1>5. ASSUME NEW t \in Threads, MutationFails(t) PROVE StoreTypes'
  <2>1. stale' \in [Processes -> SUBSET Nodes]
    BY <1>0, <1>5, AboutIsInFlight DEF StoreTypes, MutationFails
  <2>2. rows' \in Tables /\ DOMAIN index' = Nodes /\ index' = [n \in Nodes |-> index'[n]] /\ Finished(t)
    BY <1>5 DEF StoreTypes, MutationFails
  <2>. QED  BY <1>3, <2>1, <2>2
<1>6. ASSUME NEW t \in Threads, Recall(t) PROVE StoreTypes'
  <2>1. UNCHANGED <<open, cache, rows, index, arg, stale>>
    BY <1>6 DEF Recall, RecallBegin, Take, Get, AddTags, RecallEnd, storeVars
  <2>2. pc' = pc \/ \E place \in {"idle", "take", "get", "tags"} : pc' = [pc EXCEPT ![t] = place]
    BY <1>6 DEF Recall, RecallBegin, Take, Get, AddTags, RecallEnd
  <2>. QED  BY <2>1, <2>2 DEF StoreTypes
<1>7. ASSUME NEW p \in Processes, Open(p) PROVE StoreTypes'
  BY <1>7 DEF StoreTypes, Open
<1>8. ASSUME NEW p \in Processes, Crash(p) PROVE StoreTypes'
  <2>1. cache' \in [Processes -> Tables] /\ stale' \in [Processes -> SUBSET Nodes]
    BY <1>8 DEF StoreTypes, Crash, Tables, Contents
  <2>2. /\ pc' = [t \in Threads |-> IF Home(t) = p THEN "idle" ELSE pc[t]]
        /\ arg' = [t \in Threads |-> IF Home(t) = p THEN NoArg ELSE arg[t]]
    BY <1>8 DEF Crash
  <2>3. UNCHANGED <<rows, index>> /\ open' \subseteq Processes
    BY <1>8 DEF Crash, StoreTypes
  <2>. QED  BY <2>1, <2>2, <2>3 DEF StoreTypes, Args
<1>9. ASSUME NEW t \in Threads, Mutate(t) PROVE StoreTypes'
  <2>1. ASSUME NEW k \in Keys, NEW c \in ContentsOf(k), PutCache(t, k, c) PROVE StoreTypes'
    BY <1>1, <2>1, KeyFacts DEF PutCache
  <2>2. ASSUME NEW k \in Keys, DeleteCache(t, k) PROVE StoreTypes'
    BY <1>1, <2>2 DEF DeleteCache, Contents
  <2>. QED  BY <1>2, <1>4, <1>5, <1>9, <2>1, <2>2 DEF Mutate
<1>10. UNCHANGED vars => StoreTypes'
  BY DEF vars, storeVars, StoreTypes
<1>. QED  BY <1>6, <1>7, <1>8, <1>9, <1>10 DEF Next

LEMMA TypesInvariance == Spec => []StoreTypes
<1>. QED  BY TypesInit, TypesStep, PTL DEF Spec

(* The index never knows a node by other tags than the stored ones.         *)
THEOREM IndexIsRight == Spec => []IndexIsStored
<1>1. Init => IndexIsStored
  BY DEF Init, IndexIsStored
<1>2. StoreTypes /\ IndexIsStored /\ [Next]_vars => IndexIsStored'
  <2> SUFFICES ASSUME StoreTypes, IndexIsStored, [Next]_vars, NEW n \in Nodes, index'[n] # {}
               PROVE  index'[n] = rows'[TagKey(n)]
    BY DEF IndexIsStored
  <2>0. index[n] # {} => index[n] = rows[TagKey(n)]
    BY DEF IndexIsStored
  <2>1. ASSUME NEW t \in Threads, PutCommit(t) PROVE index'[n] = rows'[TagKey(n)]
    <3>1. arg[t][1] \in Keys /\ arg[t][1][2] \in Nodes
      BY <2>1, KeyFacts DEF PutCommit, StoreTypes
    <3>2. /\ rows' = [rows EXCEPT ![arg[t][1]] = arg[t][2]]
          /\ index' = IF arg[t][1] = TagKey(arg[t][1][2])
                      THEN [index EXCEPT ![arg[t][1][2]] = arg[t][2]] ELSE index
      BY <2>1 DEF PutCommit, IndexTags
    <3>3. CASE arg[t][1] = TagKey(n)
      BY <3>1, <3>2, <3>3, KeyFacts DEF StoreTypes, Tables
    <3>4. CASE arg[t][1] # TagKey(n)
      BY <2>0, <3>1, <3>2, <3>4, KeyFacts DEF StoreTypes, Tables
    <3>. QED  BY <3>3, <3>4
  <2>2. ASSUME NEW t \in Threads, DeleteCommit(t) PROVE index'[n] = rows'[TagKey(n)]
    <3>1. arg[t][1] \in Keys /\ arg[t][1][2] \in Nodes
      BY <2>2, KeyFacts DEF DeleteCommit, StoreTypes
    <3>2. /\ rows' = [rows EXCEPT ![arg[t][1]] = Missing]
          /\ index' = [index EXCEPT ![arg[t][1][2]] = {}]
      BY <2>2 DEF DeleteCommit, UnindexedBy
    <3>. QED  BY <2>0, <3>1, <3>2, KeyFacts DEF StoreTypes, Tables
  <2>3. ASSUME NEW t \in Threads, SnapshotCommit(t) PROVE index'[n] = rows'[TagKey(n)]
    BY <2>3 DEF SnapshotCommit
  <2>4. ASSUME NEW t \in Threads, MutationFails(t) \/ Recall(t) PROVE UNCHANGED <<rows, index>>
    BY <2>4 DEF MutationFails, Recall, RecallBegin, Take, Get, AddTags, RecallEnd, storeVars
  <2>5. ASSUME NEW t \in Threads, NEW k, NEW c, PutCache(t, k, c) \/ DeleteCache(t, k) \/ SnapshotCache(t, c)
        PROVE  UNCHANGED <<rows, index>>
    BY <2>5 DEF PutCache, DeleteCache, SnapshotCache
  <2>6. ASSUME NEW p \in Processes, Open(p) \/ Crash(p) PROVE UNCHANGED <<rows, index>>
    BY <2>6 DEF Open, Crash
  <2>7. UNCHANGED vars => UNCHANGED <<rows, index>>
    BY DEF vars, storeVars
  <2>. QED  BY <2>0, <2>1, <2>2, <2>3, <2>4, <2>5, <2>6, <2>7 DEF Next, Mutate
<1>3. QED  BY <1>1, <1>2, TypesInvariance, PTL DEF Spec

(***************************************************************************)
(* The mirror.  Of a node that is not stale in a process, at most one       *)
(* mutation is under way there; a key that it changes has its new content   *)
(* in the dict; and every other key has the same content in dict and file.  *)
(***************************************************************************)
Changes(t, k) ==
    \/ pc[t] \in {"put", "delete"} /\ arg[t][1] = k
    \/ pc[t] = "snapshot"

MirrorOf(p, k) == k[2] \notin stale[p] =>
    /\ \A t, u \in Threads :
          Home(t) = p /\ Home(u) = p /\ About(t, k[2]) /\ About(u, k[2]) => t = u
    /\ \A t \in Threads :
          Home(t) = p /\ pc[t] \in {"put", "delete"} /\ arg[t][1] = k => cache[p][k] = arg[t][2]
    /\ cache[p][k] = rows[k] \/ \E t \in Threads : Home(t) = p /\ Changes(t, k)

MirrorInv ==
    /\ \A t \in Threads : pc[t] # "idle" => Home(t) \in open
    /\ \A p \in open, k \in Keys : MirrorOf(p, k)

LEMMA ChangesIsAbout == \A t \in Threads, k \in Keys : Changes(t, k) => About(t, k[2])
BY DEF Changes, About

(* The threads of other processes do as they like. *)
LEMMA MirrorElsewhere ==
  ASSUME NEW p \in Processes, NEW k \in Keys, MirrorOf(p, k), k[2] \notin stale'[p],
         k[2] \notin stale[p], cache'[p][k] = cache[p][k], rows'[k] = rows[k],
         \A t \in Threads : Home(t) = p => pc'[t] = pc[t] /\ arg'[t] = arg[t]
  PROVE  MirrorOf(p, k)'
BY DEF MirrorOf, About, Changes, Home

(* A mutation begins with the dict. *)
LEMMA MirrorBegin ==
  ASSUME StoreTypes, MirrorInv, NEW t \in Threads, NEW ns \in SUBSET Nodes, Touch(t, ns),
         Home(t) \in open, pc[t] = "idle", UNCHANGED <<open, rows>>,
         \A u \in Threads \ {t} : pc'[u] = pc[u] /\ arg'[u] = arg[u],
         pc'[t] \in {"put", "delete", "snapshot"},
         \A p \in Processes \ {Home(t)} : cache'[p] = cache[p],
         \A k \in Keys : \/ cache'[Home(t)][k] = cache[Home(t)][k] /\ ~Changes(t, k)'
                         \/ Changes(t, k)',
         \A n \in Nodes : About(t, n)' => n \in ns,
         pc'[t] # "snapshot" => cache'[Home(t)][arg'[t][1]] = arg'[t][2]
  PROVE  MirrorInv'
<1>1. \A u \in Threads : pc'[u] # "idle" => Home(u) \in open'
  BY DEF MirrorInv
<1>2. ASSUME NEW p \in open, NEW k \in Keys, k[2] \notin stale'[p] PROVE MirrorOf(p, k)'
  <2>0. p \in Processes /\ k[2] \in Nodes /\ k[2] \notin stale[p] /\ MirrorOf(p, k)
    BY <1>2, TouchFacts, KeyFacts DEF StoreTypes, MirrorInv
  <2>1. CASE p # Home(t)
    BY <1>2, <2>0, <2>1, MirrorElsewhere
  <2>2. CASE p = Home(t)
    <3>0. ~About(t, k[2]) /\ ~Changes(t, k)
      BY DEF About, Changes
    <3>1. \A u \in Threads \ {t} : (About(u, k[2])' <=> About(u, k[2])) /\ (Changes(u, k)' <=> Changes(u, k))
      BY DEF About, Changes
    <3>2. About(t, k[2])' => \A u \in Threads \ {t} : Home(u) = p => ~About(u, k[2])
      BY <1>2, <2>0, <2>2, TouchFacts
    <3>3. \A u, v \in Threads :
             Home(u) = p /\ Home(v) = p /\ About(u, k[2])' /\ About(v, k[2])' => u = v
      BY <2>0, <3>1, <3>2 DEF MirrorOf
    <3>4. Changes(t, k)' => About(t, k[2])'
      BY DEF About, Changes
    <3>5. \A u \in Threads \ {t} : Changes(u, k) => About(u, k[2])
      BY ChangesIsAbout
    <3>6. ASSUME NEW u \in Threads, Home(u) = p, pc'[u] \in {"put", "delete"}, arg'[u][1] = k
          PROVE  cache'[p][k] = arg'[u][2]
      <4>1. CASE u = t
        BY <2>2, <3>6, <4>1
      <4>2. CASE u # t
        <5>1. Changes(u, k) /\ cache[p][k] = arg[u][2] /\ arg'[u] = arg[u]
          BY <2>0, <3>6, <4>2 DEF MirrorOf, Changes
        <5>2. ~Changes(t, k)'
          BY <3>2, <3>4, <3>5, <3>6, <4>2, <5>1
        <5>. QED  BY <2>2, <5>1, <5>2
      <4>. QED  BY <4>1, <4>2
    <3>7. cache'[p][k] = rows'[k] \/ \E u \in Threads : Home(u) = p /\ Changes(u, k)'
      BY <2>0, <2>2, <3>0, <3>1 DEF MirrorOf
    <3>. QED  BY <3>3, <3>6, <3>7 DEF MirrorOf, Home
  <2>. QED  BY <2>1, <2>2
<1>. QED  BY <1>1, <1>2 DEF MirrorInv, MirrorOf

(* It ends with the file; what other processes hold is stale from now on.   *)
LEMMA MirrorCommit ==
  ASSUME StoreTypes, MirrorInv, NEW t \in Threads, NEW ns \in SUBSET Nodes, Touch(t, ns),
         Home(t) \in open, UNCHANGED <<open, cache>>,
         \A u \in Threads \ {t} : pc'[u] = pc[u] /\ arg'[u] = arg[u],
         pc'[t] = "idle",
         \A n \in Nodes : n \in ns => About(t, n),
         \A k \in Keys : k[2] \notin ns => rows'[k] = rows[k] /\ ~Changes(t, k),
         \A k \in Keys : Changes(t, k) => \/ rows'[k] = cache[Home(t)][k]
                                          \/ pc[t] # "snapshot" /\ rows'[k] = arg[t][2],
         \A k \in Keys : ~Changes(t, k) => rows'[k] = rows[k]
  PROVE  MirrorInv'
<1>1. \A u \in Threads : pc'[u] # "idle" => Home(u) \in open'
  BY DEF MirrorInv
<1>2. ASSUME NEW p \in open, NEW k \in Keys, k[2] \notin stale'[p] PROVE MirrorOf(p, k)'
  <2>0. p \in Processes /\ k[2] \in Nodes /\ k[2] \notin stale[p] /\ MirrorOf(p, k)
    BY <1>2, TouchFacts, KeyFacts DEF StoreTypes, MirrorInv
  <2>1. CASE p # Home(t)
    <3>1. k[2] \notin ns
      BY <1>2, <2>1, TouchFacts
    <3>. QED  BY <1>2, <2>0, <2>1, <3>1, MirrorElsewhere
  <2>2. CASE p = Home(t)
    <3>0. ~About(t, k[2])' /\ ~Changes(t, k)'
      BY DEF About, Changes
    <3>1. \A u \in Threads \ {t} : (About(u, k[2])' <=> About(u, k[2])) /\ (Changes(u, k)' <=> Changes(u, k))
      BY DEF About, Changes
    <3>2. \A u, v \in Threads :
             Home(u) = p /\ Home(v) = p /\ About(u, k[2])' /\ About(v, k[2])' => u = v
      BY <2>0, <3>0, <3>1 DEF MirrorOf
    <3>3. \A u \in Threads :
             Home(u) = p /\ pc'[u] \in {"put", "delete"} /\ arg'[u][1] = k => cache'[p][k] = arg'[u][2]
      BY <2>0 DEF MirrorOf
    <3>4. cache'[p][k] = rows'[k] \/ \E u \in Threads : Home(u) = p /\ Changes(u, k)'
      <4>1. CASE Changes(t, k)
        <5>1. pc[t] # "snapshot" => pc[t] \in {"put", "delete"} /\ arg[t][1] = k
          BY <4>1 DEF Changes
        <5>. QED  BY <2>0, <2>2, <4>1, <5>1 DEF MirrorOf
      <4>2. CASE ~Changes(t, k)
        BY <2>0, <3>1, <4>2 DEF MirrorOf
      <4>. QED  BY <4>1, <4>2
    <3>. QED  BY <3>2, <3>3, <3>4 DEF MirrorOf, Home
  <2>. QED  BY <2>1, <2>2
<1>. QED  BY <1>1, <1>2 DEF MirrorInv, MirrorOf

LEMMA MirrorMutate ==
  ASSUME StoreTypes, StoreTypes', MirrorInv, NEW t \in Threads, Mutate(t)
  PROVE  MirrorInv'
<1>0. Home(t) \in Processes
  BY MemoryAssumption DEF Home
<1>1. ASSUME NEW k \in Keys, NEW c, NEW place \in {"put", "delete"},
             Begin(t), cache' = [cache EXCEPT ![Home(t)][k] = c], pc' = [pc EXCEPT ![t] = place],
             arg' = [arg EXCEPT ![t] = <<k, c>>], Touch(t, {k[2]}), UNCHANGED <<open, rows>>
      PROVE  MirrorInv'
  <2>1. /\ Home(t) \in open /\ pc[t] = "idle" /\ {k[2]} \in SUBSET Nodes
        /\ \A u \in Threads \ {t} : pc'[u] = pc[u] /\ arg'[u] = arg[u]
        /\ pc'[t] = place /\ arg'[t] = <<k, c>>
    BY <1>1, KeyFacts DEF Begin, StoreTypes
  <2>2. /\ \A p \in Processes \ {Home(t)} : cache'[p] = cache[p]
        /\ cache'[Home(t)][k] = c
        /\ \A j \in Keys \ {k} : cache'[Home(t)][j] = cache[Home(t)][j]
    BY <1>0, <1>1 DEF StoreTypes, Tables
  <2>3. /\ \A j \in Keys : Changes(t, j)' <=> j = k
        /\ \A n \in Nodes : About(t, n)' <=> n = k[2]
    BY <2>1 DEF Changes, About
  <2>. QED  BY <1>1, <2>1, <2>2, <2>3, MirrorBegin
<1>2. ASSUME NEW s \in Snapshots, SnapshotCache(t, s) PROVE MirrorInv'
  <2>1. /\ Home(t) \in open /\ pc[t] = "idle" /\ Touch(t, Nodes) /\ UNCHANGED <<open, rows>>
        /\ \A u \in Threads \ {t} : pc'[u] = pc[u] /\ arg'[u] = arg[u]
        /\ pc'[t] = "snapshot"
        /\ \A p \in Processes \ {Home(t)} : cache'[p] = cache[p]
    BY <1>2 DEF SnapshotCache, Begin, StoreTypes
  <2>2. \A k \in Keys : Changes(t, k)'
    BY <2>1 DEF Changes
  <2>. QED  BY <2>1, <2>2, MirrorBegin
<1>3. ASSUME Finished(t)
      PROVE  /\ UNCHANGED <<open, cache>> /\ pc'[t] = "idle"
             /\ \A u \in Threads \ {t} : pc'[u] = pc[u] /\ arg'[u] = arg[u]
  BY <1>3 DEF Finished, StoreTypes
<1>4. ASSUME pc[t] \in {"put", "delete"}, rows' = [rows EXCEPT ![arg[t][1]] = arg[t][2]],
             Touch(t, {arg[t][1][2]}), Finished(t)
      PROVE  MirrorInv'
  <2>1. Home(t) \in open /\ arg[t][1] \in Keys /\ {arg[t][1][2]} \in SUBSET Nodes
    BY <1>4, KeyFacts DEF MirrorInv, StoreTypes
  <2>2. /\ \A j \in Keys : Changes(t, j) <=> j = arg[t][1]
        /\ \A n \in Nodes : About(t, n) <=> n = arg[t][1][2]
    BY <1>4, <2>1 DEF Changes, About
  <2>3. rows'[arg[t][1]] = arg[t][2] /\ \A j \in Keys \ {arg[t][1]} : rows'[j] = rows[j]
    BY <1>4, <2>1 DEF StoreTypes, Tables
  <2>. QED  BY <1>3, <1>4, <2>1, <2>2, <2>3, MirrorCommit
<1>5. ASSUME PutCommit(t) PROVE MirrorInv'
  <2>1. /\ pc[t] = "put" /\ rows' = [rows EXCEPT ![arg[t][1]] = arg[t][2]]
        /\ Touch(t, {arg[t][1][2]}) /\ Finished(t)
    BY <1>5 DEF PutCommit
  <2>. QED  BY <1>4, <2>1
<1>6. ASSUME DeleteCommit(t), arg[t][2] = Missing PROVE MirrorInv'
  <2>1. /\ pc[t] = "delete" /\ rows' = [rows EXCEPT ![arg[t][1]] = Missing]
        /\ Touch(t, {arg[t][1][2]}) /\ Finished(t)
    BY <1>6 DEF DeleteCommit
  <2>. QED  BY <1>4, <1>6, <2>1
<1>7. ASSUME SnapshotCommit(t) PROVE MirrorInv'
  <2>1. Home(t) \in open /\ pc[t] = "snapshot" /\ rows' = cache[Home(t)] /\ Touch(t, Nodes)
    BY <1>7 DEF MirrorInv, SnapshotCommit
  <2>2. (\A k \in Keys : Changes(t, k) /\ k[2] \in Nodes) /\ \A n \in Nodes : About(t, n)
    BY <2>1, KeyFacts DEF Changes, About
  <2>. QED  BY <1>3, <1>7, <2>1, <2>2, MirrorCommit DEF SnapshotCommit
<1>8. ASSUME MutationFails(t) PROVE MirrorInv'
  <2>1. /\ UNCHANGED <<open, cache, rows>> /\ pc'[t] = "idle"
        /\ \A u \in Threads \ {t} : pc'[u] = pc[u] /\ arg'[u] = arg[u]
        /\ stale' = [stale EXCEPT ![Home(t)] = stale[Home(t)] \cup InFlightOf({t})]
    BY <1>3, <1>8 DEF MutationFails
  <2>2. \A u \in Threads : pc'[u] # "idle" => Home(u) \in open'
    BY <2>1 DEF MirrorInv
  <2>3. ASSUME NEW p \in open, NEW k \in Keys, k[2] \notin stale'[p] PROVE MirrorOf(p, k)'
    <3>0. p \in Processes /\ k[2] \notin stale[p] /\ MirrorOf(p, k) /\ k[2] \in Nodes
      BY <1>0, <2>1, <2>3, AboutIsInFlight, KeyFacts DEF StoreTypes, MirrorInv
    <3>1. CASE p # Home(t)
      BY <2>1, <2>3, <3>0, <3>1, MirrorElsewhere
    <3>2. CASE p = Home(t)
      <4>0. k[2] \notin InFlightOf({t})
        BY <1>0, <2>1, <2>3, <3>2 DEF StoreTypes
      <4>1. ~About(t, k[2]) /\ ~Changes(t, k) /\ ~About(t, k[2])' /\ ~Changes(t, k)'
        BY <2>1, <3>0, <4>0, AboutIsInFlight, ChangesIsAbout DEF About, Changes
      <4>2. \A u \in Threads : (About(u, k[2])' <=> About(u, k[2])) /\ (Changes(u, k)' <=> Changes(u, k))
        BY <2>1, <4>1 DEF About, Changes
      <4>. QED  BY <2>1, <3>0, <4>1, <4>2 DEF MirrorOf, Home
    <3>. QED  BY <3>1, <3>2
  <2>. QED  BY <2>1, <2>2, <2>3 DEF MirrorInv, MirrorOf
<1>9. ASSUME NEW k \in Keys, NEW c \in ContentsOf(k), PutCache(t, k, c) PROVE MirrorInv'
  BY <1>1, <1>9 DEF PutCache
<1>10. ASSUME NEW k \in Keys, DeleteCache(t, k) PROVE MirrorInv'
  BY <1>1, <1>10 DEF DeleteCache
<1>11. DeleteCommit(t) => arg[t][2] = Missing
  BY DEF DeleteCommit, StoreTypes
<1>. QED  BY <1>2, <1>5, <1>6, <1>7, <1>8, <1>9, <1>10, <1>11 DEF Mutate

LEMMA MirrorStep == StoreTypes /\ StoreTypes' /\ MirrorInv /\ [Next]_vars => MirrorInv'
<1> SUFFICES ASSUME StoreTypes, StoreTypes', MirrorInv, [Next]_vars PROVE MirrorInv'
  OBVIOUS
<1>1. ASSUME NEW t \in Threads, Recall(t) PROVE MirrorInv'
  <2>1. UNCHANGED <<open, cache, rows, arg, stale>> /\ \A u \in Threads \ {t} : pc'[u] = pc[u]
    BY <1>1 DEF Recall, RecallBegin, Take, Get, AddTags, RecallEnd, storeVars, StoreTypes
  <2>2. /\ Home(t) \in open
        /\ pc[t] \notin {"put", "delete", "snapshot"} /\ pc'[t] \notin {"put", "delete", "snapshot"}
    BY <1>1 DEF Recall, RecallBegin, Take, Get, AddTags, RecallEnd, Answered, Begin, StoreTypes, MirrorInv
  <2>3. \A u \in Threads, k \in Keys :
           (About(u, k[2])' <=> About(u, k[2])) /\ (Changes(u, k)' <=> Changes(u, k))
    BY <2>1, <2>2 DEF About, Changes
  <2>. QED  BY <2>1, <2>2, <2>3 DEF MirrorInv, MirrorOf, Home
<1>2. ASSUME NEW p \in Processes, Open(p) PROVE MirrorInv'
  <2>1. /\ UNCHANGED <<rows, pc, arg>> /\ open' = open \cup {p} /\ p \notin open
        /\ cache'[p] = rows
        /\ \A q \in Processes \ {p} : cache'[q] = cache[q] /\ stale'[q] = stale[q]
    BY <1>2 DEF Open, StoreTypes
  <2>2. \A t \in Threads, k \in Keys : Home(t) = p => ~About(t, k[2]) /\ ~Changes(t, k)
    BY <2>1 DEF MirrorInv, About, Changes
  <2>3. ASSUME NEW k \in Keys PROVE MirrorOf(p, k)'
    BY <2>1, <2>2 DEF MirrorOf, About, Changes, Home
  <2>4. ASSUME NEW q \in open, NEW k \in Keys PROVE MirrorOf(q, k)'
    BY <2>1 DEF MirrorInv, MirrorOf, About, Changes, Home, StoreTypes
  <2>. QED  BY <2>1, <2>3, <2>4 DEF MirrorInv
<1>3. ASSUME NEW p \in Processes, Crash(p) PROVE MirrorInv'
  <2>1. /\ UNCHANGED rows /\ open' = open \ {p}
        /\ \A q \in Processes \ {p} : cache'[q] = cache[q] /\ stale'[q] = stale[q]
        /\ pc' = [t \in Threads |-> IF Home(t) = p THEN "idle" ELSE pc[t]]
        /\ arg' = [t \in Threads |-> IF Home(t) = p THEN NoArg ELSE arg[t]]
    BY <1>3 DEF Crash, StoreTypes
  <2>2. \A t \in Threads : Home(t) # p => pc'[t] = pc[t] /\ arg'[t] = arg[t]
    BY <2>1
  <2>3. \A t \in Threads : pc'[t] # "idle" => Home(t) \in open'
    BY <2>1 DEF MirrorInv
  <2>4. ASSUME NEW q \in open', NEW k \in Keys PROVE MirrorOf(q, k)'
    <3>1. q # p /\ q \in Processes /\ MirrorOf(q, k) /\ stale'[q] = stale[q]
      BY <2>1 DEF MirrorInv, StoreTypes
    <3>2. CASE k[2] \in stale[q]
      BY <3>1, <3>2 DEF MirrorOf
    <3>3. CASE k[2] \notin stale[q]
      BY <2>1, <2>2, <3>1, <3>3, MirrorElsewhere
    <3>. QED  BY <3>2, <3>3
  <2>. QED  BY <2>3, <2>4 DEF MirrorInv, Home
<1>4. UNCHANGED vars => MirrorInv'
  BY DEF vars, storeVars, MirrorInv, MirrorOf, About, Changes
<1>. QED  BY <1>1, <1>2, <1>3, <1>4, MirrorMutate DEF Next

(* The dict is the file, of every node that no mutation is about.           *)
THEOREM MirrorIsTrue == Spec => []Mirror
<1>1. Init => MirrorInv
  BY DEF Init, MirrorInv
<1>2. MirrorInv => Mirror
  <2> SUFFICES ASSUME MirrorInv, NEW p \in open, NEW k \in Keys, k[2] \notin stale[p], k[2] \notin InFlight
               PROVE  cache[p][k] = rows[k]
    BY DEF Mirror
  <2>1. \A t \in Threads : ~About(t, k[2])
    BY KeyFacts DEF InFlight, InFlightOf, About
  <2>. QED  BY <2>1, ChangesIsAbout DEF MirrorInv, MirrorOf
<1>. QED  BY <1>1, <1>2, MirrorStep, TypesInvariance, PTL DEF Spec

(***************************************************************************)
(* Types of the recalls, and of what a key holds.                           *)
(***************************************************************************)
RecallTypes ==
    /\ TypeOK
    /\ query \in [Threads -> Queries \cup {NoArg}]
    /\ taken \in [Threads -> (Nodes \X (Values \cup {Missing})) \cup {Nobody}]
    /\ \A t \in Threads : pc[t] = "put" => arg[t][2] # Missing

LEMMA RecallTypesInit == Init => RecallTypes
BY DEF Init, RecallTypes, TypeOK, ContentsOf, Recalling, NoHits

(* The types of a mutation's step: it leaves the recalls alone.             *)
MutationTypes ==
    /\ \A p \in Processes, k \in Keys : cache[p][k] \in ContentsOf(k)
    /\ \A k \in Keys : rows[k] \in ContentsOf(k)
    /\ index \in [Nodes -> SUBSET Tags]
    /\ \A t \in Threads :
          /\ pc[t] \in {"put", "delete"} =>
                arg[t][1] \in Keys /\ arg[t][2] \in ContentsOf(arg[t][1])
          /\ pc[t] = "put" => arg[t][2] # Missing
QueryTypes ==
    /\ query \in [Threads -> Queries \cup {NoArg}]
    /\ taken \in [Threads -> (Nodes \X (Values \cup {Missing})) \cup {Nobody}]
    /\ \A t \in Threads : /\ Recalling(t) => query[t] \in Queries
                          /\ pc[t] \in {"get", "tags"} => taken[t] \in Nodes \X (Values \cup {Missing})
    /\ hits \in [Threads -> [Nodes -> Nat]]
    /\ answer \in [Threads -> SUBSET [node : Nodes, value : Values \cup {Missing}, tags : SUBSET Tags]]
    /\ disturbed \in [Threads -> SUBSET Nodes]
BoundTypes == ops \in Nat /\ errors \in Nat /\ crashes \in Nat

LEMMA RecallTypesParts ==
  StoreTypes => (RecallTypes <=> MutationTypes /\ QueryTypes /\ BoundTypes)
BY DEF StoreTypes, RecallTypes, TypeOK, MutationTypes, QueryTypes, BoundTypes

LEMMA MutationTypesStep ==
  StoreTypes /\ MutationTypes /\ [Next]_vars => MutationTypes'
<1> SUFFICES ASSUME StoreTypes, MutationTypes, [Next]_vars PROVE MutationTypes'
  OBVIOUS
<1>0. \A t \in Threads : Home(t) \in Processes
  BY MemoryAssumption DEF Home
<1>m. \A k \in Keys : Missing \in ContentsOf(k)
  BY DEF ContentsOf
<1>1. ASSUME NEW t \in Threads, NEW k \in Keys, NEW c \in ContentsOf(k), NEW place \in {"put", "delete"},
             cache' = [cache EXCEPT ![Home(t)][k] = c], pc' = [pc EXCEPT ![t] = place],
             arg' = [arg EXCEPT ![t] = <<k, c>>], place = "put" => c # Missing,
             UNCHANGED <<rows, index>>
      PROVE  MutationTypes'
  <2>1. \A p \in Processes, j \in Keys : cache'[p][j] \in ContentsOf(j)
    BY <1>0, <1>1 DEF StoreTypes, Tables, MutationTypes
  <2>2. /\ arg'[t][1] = k /\ arg'[t][2] = c /\ pc'[t] = place
        /\ \A u \in Threads \ {t} : arg'[u] = arg[u] /\ pc'[u] = pc[u]
    BY <1>1 DEF StoreTypes
  <2>. QED  BY <1>1, <2>1, <2>2 DEF MutationTypes
<1>2. ASSUME NEW t \in Threads, NEW s \in Snapshots, SnapshotCache(t, s) PROVE MutationTypes'
  <2>1. \A k \in Keys : s[k] \in ContentsOf(k)
    BY MemoryAssumption
  <2>2. \A p \in Processes, k \in Keys : cache'[p][k] \in ContentsOf(k)
    BY <1>0, <1>2, <2>1 DEF StoreTypes, MutationTypes, SnapshotCache
  <2>3. UNCHANGED <<rows, index>> /\ pc'[t] = "snapshot"
        /\ \A u \in Threads \ {t} : arg'[u] = arg[u] /\ pc'[u] = pc[u]
    BY <1>2 DEF StoreTypes, SnapshotCache
  <2>. QED  BY <2>2, <2>3 DEF MutationTypes
<1>3. ASSUME NEW t \in Threads, Finished(t), \A k \in Keys : rows'[k] \in ContentsOf(k),
             index' \in [Nodes -> SUBSET Tags]
      PROVE  MutationTypes'
  <2>1. UNCHANGED cache /\ pc'[t] = "idle"
        /\ \A u \in Threads \ {t} : arg'[u] = arg[u] /\ pc'[u] = pc[u]
    BY <1>3 DEF StoreTypes, Finished
  <2>. QED  BY <1>3, <2>1 DEF MutationTypes
<1>4. ASSUME NEW t \in Threads, PutCommit(t) PROVE MutationTypes'
  <2>1. /\ arg[t][1] \in Keys /\ arg[t][1][2] \in Nodes
        /\ arg[t][2] \in ContentsOf(arg[t][1]) /\ arg[t][2] # Missing
    BY <1>4, KeyFacts DEF PutCommit, MutationTypes
  <2>2. /\ rows' = [rows EXCEPT ![arg[t][1]] = arg[t][2]]
        /\ index' = IF arg[t][1] = TagKey(arg[t][1][2])
                    THEN [index EXCEPT ![arg[t][1][2]] = arg[t][2]] ELSE index
    BY <1>4 DEF PutCommit, IndexTags
  <2>3. \A k \in Keys : rows'[k] \in ContentsOf(k)
    BY <2>1, <2>2 DEF StoreTypes, Tables, MutationTypes
  <2>4. arg[t][1] = TagKey(arg[t][1][2]) => arg[t][2] \in SUBSET Tags
    BY <2>1, MemoryAssumption DEF ContentsOf, TagKey
  <2>5. index' \in [Nodes -> SUBSET Tags]
    BY <2>1, <2>2, <2>4 DEF MutationTypes
  <2>. QED  BY <1>3, <1>4, <2>3, <2>5 DEF PutCommit
<1>5. ASSUME NEW t \in Threads, DeleteCommit(t) PROVE MutationTypes'
  <2>1. \A k \in Keys : rows'[k] \in ContentsOf(k)
    BY <1>5, <1>m DEF StoreTypes, Tables, MutationTypes, DeleteCommit
  <2>2. index' \in [Nodes -> SUBSET Tags]
    BY <1>5 DEF MutationTypes, DeleteCommit, UnindexedBy
  <2>. QED  BY <1>3, <1>5, <2>1, <2>2 DEF DeleteCommit
<1>6. ASSUME NEW t \in Threads, SnapshotCommit(t) PROVE MutationTypes'
  <2>1. \A k \in Keys : rows'[k] \in ContentsOf(k)
    BY <1>0, <1>6 DEF MutationTypes, SnapshotCommit
  <2>2. \A n \in Nodes : rows'[TagKey(n)] # Missing => rows'[TagKey(n)] \in SUBSET Tags
    BY <2>1, KeyFacts, MemoryAssumption DEF ContentsOf, TagKey
  <2>3. index' \in [Nodes -> SUBSET Tags]
    BY <1>6, <2>2 DEF SnapshotCommit
  <2>. QED  BY <1>3, <1>6, <2>1, <2>3 DEF SnapshotCommit
<1>7. ASSUME NEW t \in Threads, MutationFails(t) PROVE MutationTypes'
  BY <1>3, <1>7 DEF MutationFails, MutationTypes
<1>8. ASSUME NEW t \in Threads, Recall(t) PROVE MutationTypes'
  <2>1. UNCHANGED <<cache, rows, index, arg>>
        /\ \A u \in Threads : pc'[u] = pc[u] \/ pc'[u] \in {"idle", "take", "get", "tags"}
    BY <1>8 DEF Recall, RecallBegin, Take, Get, AddTags, RecallEnd, storeVars, StoreTypes
  <2>. QED  BY <2>1 DEF MutationTypes
<1>9. ASSUME NEW p \in Processes, Open(p) \/ Crash(p) PROVE MutationTypes'
  <2>1. UNCHANGED <<rows, index>>
        /\ \A u \in Threads : (pc'[u] = pc[u] /\ arg'[u] = arg[u]) \/ pc'[u] = "idle"
    BY <1>9 DEF Open, Crash
  <2>2. \A q \in Processes, k \in Keys : cache'[q][k] \in ContentsOf(k)
    BY <1>9, <1>m DEF Open, Crash, StoreTypes, MutationTypes
  <2>. QED  BY <2>1, <2>2 DEF MutationTypes
<1>10. ASSUME NEW t \in Threads, NEW k \in Keys, NEW c \in ContentsOf(k) \ {Missing}, PutCache(t, k, c)
       PROVE  MutationTypes'
  BY <1>1, <1>10 DEF PutCache
<1>11. ASSUME NEW t \in Threads, NEW k \in Keys, DeleteCache(t, k) PROVE MutationTypes'
  BY <1>1, <1>m, <1>11 DEF DeleteCache
<1>12. UNCHANGED vars => MutationTypes'
  BY DEF vars, storeVars, MutationTypes
<1>. QED  BY <1>2, <1>4, <1>5, <1>6, <1>7, <1>8, <1>9, <1>10, <1>11, <1>12 DEF Next, Mutate

(* What a mutation's step leaves of the recalls. *)
LEMMA TouchDisturbs ==
  ASSUME NEW t \in Threads, NEW ns \in SUBSET Nodes, Touch(t, ns), disturbed \in [Threads -> SUBSET Nodes]
  PROVE  /\ disturbed' \in [Threads -> SUBSET Nodes]
         /\ \A u \in Threads : /\ disturbed[u] \subseteq disturbed'[u]
                               /\ Recalling(u) => ns \subseteq disturbed'[u]
BY DEF Touch

LEMMA MutateLeavesRecalls ==
  ASSUME StoreTypes, QueryTypes, NEW t \in Threads, Mutate(t)
  PROVE  /\ UNCHANGED recallVars
         /\ disturbed' \in [Threads -> SUBSET Nodes]
         /\ ~Recalling(t) /\ ~Recalling(t)'
         /\ \A u \in Threads \ {t} : pc'[u] = pc[u] /\ arg'[u] = arg[u]
<1>1. ASSUME NEW k \in Keys, NEW c, PutCache(t, k, c) \/ DeleteCache(t, k) PROVE Touch(t, {k[2]}) /\ {k[2]} \in SUBSET Nodes
  BY <1>1, KeyFacts DEF PutCache, DeleteCache
<1>2. ASSUME NEW s, SnapshotCache(t, s) PROVE Touch(t, Nodes)
  BY <1>2 DEF SnapshotCache
<1>3. PutCommit(t) \/ DeleteCommit(t) => Touch(t, {arg[t][1][2]}) /\ {arg[t][1][2]} \in SUBSET Nodes
  BY KeyFacts DEF PutCommit, DeleteCommit, StoreTypes
<1>4. SnapshotCommit(t) => Touch(t, Nodes)
  BY DEF SnapshotCommit
<1>5. MutationFails(t) => disturbed' = disturbed
  BY DEF MutationFails
<1>6. disturbed' \in [Threads -> SUBSET Nodes]
  BY <1>1, <1>2, <1>3, <1>4, <1>5, TouchDisturbs DEF Mutate, QueryTypes
<1>7. UNCHANGED recallVars
  BY DEF Mutate, PutCache, DeleteCache, SnapshotCache, PutCommit, DeleteCommit, SnapshotCommit,
         MutationFails, Finished
<1>8. \/ pc[t] \in {"put", "delete", "snapshot"} /\ pc' = [pc EXCEPT ![t] = "idle"]
      \/ pc[t] = "idle" /\ \E place \in {"put", "delete", "snapshot"} : pc' = [pc EXCEPT ![t] = place]
  BY DEF Mutate, Begin, PutCache, DeleteCache, SnapshotCache, PutCommit, DeleteCommit, SnapshotCommit,
         MutationFails, Finished
<1>9. \E a : arg' = [arg EXCEPT ![t] = a]
  BY DEF Mutate, PutCache, DeleteCache, SnapshotCache, PutCommit, DeleteCommit, SnapshotCommit,
         MutationFails, Finished
<1>. QED  BY <1>6, <1>7, <1>8, <1>9 DEF StoreTypes, Recalling

(* A search yields numbers, positive of the nodes that it finds; and what   *)
(* it finds carries all the required tags, because a list has no more       *)
(* elements than places.                                                    *)
LEMMA ElementsOfList ==
  ASSUME NEW list \in Seq(Tags)
  PROVE  /\ Range(list) \subseteq Tags /\ IsFiniteSet(Range(list))
         /\ Cardinality(Range(list)) <= Len(list)
<1>1. list \in [1 .. Len(list) -> Range(list)] /\ Len(list) \in Nat
  BY DEF Range
<1>2. list \in Surjection(1 .. Len(list), Range(list))
  BY <1>1 DEF Surjection, Range
<1>3. IsFiniteSet(1 .. Len(list)) /\ Cardinality(1 .. Len(list)) = Len(list)
  <2>1. 1 \in Int /\ Len(list) \in Int
    BY <1>1
  <2>2. /\ IsFiniteSet(1 .. Len(list))
        /\ Cardinality(1 .. Len(list)) = IF 1 > Len(list) THEN 0 ELSE Len(list) - 1 + 1
    BY <2>1, FS_Interval
  <2>. QED  BY <1>1, <2>2
<1>4. Range(list) \subseteq Tags
  BY DEF Range
<1>. QED  BY <1>2, <1>3, <1>4, FS_Surjection

LEMMA OverlapFacts ==
  ASSUME NEW n \in Nodes, NEW list \in Seq(Tags)
  PROVE  /\ Overlap(n, list) \in Nat
         /\ Overlap(n, list) = Len(list) => Range(list) \subseteq index[n]
<1>1. index[n] \cap Range(list) \in SUBSET Range(list)
  OBVIOUS
<1>2. /\ Cardinality(index[n] \cap Range(list)) \in Nat
      /\ Cardinality(index[n] \cap Range(list)) <= Cardinality(Range(list))
      /\ Cardinality(Range(list)) = Cardinality(index[n] \cap Range(list)) => Range(list) = index[n] \cap Range(list)
  BY <1>1, ElementsOfList, FS_Subset, FS_CardinalityType
<1>3. Cardinality(Range(list)) \in Nat /\ Len(list) \in Nat /\ Cardinality(Range(list)) <= Len(list)
  BY ElementsOfList, FS_CardinalityType
<1>. QED  BY <1>2, <1>3 DEF Overlap

LEMMA SearchFacts ==
  ASSUME NEW q \in Queries, NEW n \in Nodes
  PROVE  /\ Search(q)[n] \in Nat
         /\ Search(q)[n] > 0 <=> Found(n, q)
         /\ Found(n, q) => Range(q.require) \subseteq index[n]
<1>1. q.tags \in Seq(Tags) /\ q.require \in Seq(Tags)
  BY QueriesAssumption
<1>2. Overlap(n, q.tags) \in Nat
  BY <1>1, OverlapFacts
<1>3. Search(q)[n] = IF Found(n, q) THEN Overlap(n, q.tags) ELSE 0
  BY DEF Search
<1>4. Found(n, q) => Overlap(n, q.tags) > 0 /\ Overlap(n, q.require) = Len(q.require)
  BY DEF Found, Required
<1>. QED  BY <1>1, <1>2, <1>3, <1>4, OverlapFacts

LEMMA QueryTypesStep ==
  StoreTypes /\ MutationTypes /\ QueryTypes /\ [Next]_vars => QueryTypes'
<1> SUFFICES ASSUME StoreTypes, MutationTypes, QueryTypes, [Next]_vars PROVE QueryTypes'
  OBVIOUS
<1>1. ASSUME NEW t \in Threads, Mutate(t) PROVE QueryTypes'
  <2>1. \A u \in Threads : (Recalling(u)' => Recalling(u)) /\ (pc'[u] \in {"get", "tags"} => pc[u] \in {"get", "tags"})
    BY <1>1, MutateLeavesRecalls DEF Recalling
  <2>2. UNCHANGED <<query, hits, taken, answer>> /\ disturbed' \in [Threads -> SUBSET Nodes]
    BY <1>1, MutateLeavesRecalls DEF recallVars
  <2>. QED  BY <2>1, <2>2 DEF QueryTypes
<1>2. ASSUME NEW t \in Threads, NEW q \in Queries, RecallBegin(t, q) PROVE QueryTypes'
  <2>1. Search(q) \in [Nodes -> Nat]
    <3>1. \A n \in Nodes : Search(q)[n] \in Nat
      BY SearchFacts
    <3>. QED  BY <3>1 DEF Search
  <2>2. InFlight \in SUBSET Nodes
    BY DEF InFlight, InFlightOf
  <2>3. hits' \in [Threads -> [Nodes -> Nat]]
    BY <1>2, <2>1 DEF RecallBegin, QueryTypes
  <2>4. disturbed' \in [Threads -> SUBSET Nodes]
    BY <1>2, <2>2 DEF RecallBegin, QueryTypes
  <2>5. query' \in [Threads -> Queries \cup {NoArg}] /\ query'[t] \in Queries
        /\ \A u \in Threads \ {t} : query'[u] = query[u]
    BY <1>2 DEF RecallBegin, QueryTypes
  <2>6. answer' \in [Threads -> SUBSET [node : Nodes, value : Values \cup {Missing}, tags : SUBSET Tags]]
    BY <1>2 DEF RecallBegin, QueryTypes
  <2>7. pc'[t] = "take" /\ \A u \in Threads \ {t} : pc'[u] = pc[u]
    BY <1>2 DEF RecallBegin, StoreTypes
  <2>. QED  BY <1>2, <2>3, <2>4, <2>5, <2>6, <2>7 DEF RecallBegin, QueryTypes, Recalling
<1>3. ASSUME NEW t \in Threads, Take(t) PROVE QueryTypes'
  <2>1. PICK n \in Best(t) :
          /\ hits' = [hits EXCEPT ![t][n] = 0]
          /\ IF cache[Home(t)][ValueKey(n)] = Missing
             THEN UNCHANGED <<taken, pc>>
             ELSE /\ taken' = [taken EXCEPT ![t] = <<n, Missing>>]
                  /\ pc' = [pc EXCEPT ![t] = "get"]
    BY <1>3 DEF Take
  <2>2. n \in Nodes /\ pc[t] = "take" /\ UNCHANGED <<query, answer, disturbed>>
    BY <1>3 DEF Best, Left, Take
  <2>3. hits' \in [Threads -> [Nodes -> Nat]]
    BY <2>1, <2>2 DEF QueryTypes
  <2>4. /\ taken' \in [Threads -> (Nodes \X (Values \cup {Missing})) \cup {Nobody}]
        /\ pc'[t] = "get" => taken'[t] \in Nodes \X (Values \cup {Missing})
        /\ pc'[t] \in {"take", "get"}
        /\ \A u \in Threads \ {t} : pc'[u] = pc[u] /\ taken'[u] = taken[u]
    BY <2>1, <2>2 DEF QueryTypes, StoreTypes
  <2>. QED  BY <2>2, <2>3, <2>4 DEF QueryTypes, Recalling
<1>9. ASSUME NEW t \in Threads, Get(t) PROVE QueryTypes'
  <2>1. /\ pc[t] = "get" /\ taken[t][1] \in Nodes
        /\ taken' = [taken EXCEPT ![t] = <<taken[t][1], cache[Home(t)][ValueKey(taken[t][1])]>>]
        /\ pc' = [pc EXCEPT ![t] = "tags"]
        /\ UNCHANGED <<query, hits, answer, disturbed>>
    BY <1>9 DEF Get, QueryTypes
  <2>2. cache[Home(t)][ValueKey(taken[t][1])] \in Values \cup {Missing}
    <3>1. Home(t) \in Processes /\ ValueKey(taken[t][1]) \in Keys
      BY <2>1, KeyFacts, MemoryAssumption DEF Home
    <3>. QED  BY <3>1 DEF MutationTypes, ContentsOf, ValueKey
  <2>3. /\ taken' \in [Threads -> (Nodes \X (Values \cup {Missing})) \cup {Nobody}]
        /\ taken'[t] \in Nodes \X (Values \cup {Missing}) /\ pc'[t] = "tags"
        /\ \A u \in Threads \ {t} : pc'[u] = pc[u] /\ taken'[u] = taken[u]
    BY <2>1, <2>2 DEF QueryTypes, StoreTypes
  <2>. QED  BY <2>1, <2>3 DEF QueryTypes, Recalling
<1>4. ASSUME NEW t \in Threads, AddTags(t) PROVE QueryTypes'
  <2>1. taken[t] \in Nodes \X (Values \cup {Missing}) /\ taken[t][1] \in Nodes /\ index[taken[t][1]] \in SUBSET Tags
    BY <1>4 DEF AddTags, QueryTypes, MutationTypes
  <2>2. answer' = [answer EXCEPT ![t] = answer[t] \cup
                     {[node |-> taken[t][1], value |-> taken[t][2], tags |-> index[taken[t][1]]]}]
    BY <1>4 DEF AddTags
  <2>3. answer' \in [Threads -> SUBSET [node : Nodes, value : Values \cup {Missing}, tags : SUBSET Tags]]
    BY <2>1, <2>2 DEF QueryTypes
  <2>4. /\ taken' \in [Threads -> (Nodes \X (Values \cup {Missing})) \cup {Nobody}]
        /\ pc'[t] = "take"
        /\ \A u \in Threads \ {t} : pc'[u] = pc[u] /\ taken'[u] = taken[u]
    BY <1>4 DEF AddTags, QueryTypes, StoreTypes
  <2>5. UNCHANGED <<query, hits, disturbed>> /\ pc[t] = "tags"
    BY <1>4 DEF AddTags
  <2>. QED  BY <2>3, <2>4, <2>5 DEF QueryTypes, Recalling
<1>5. ASSUME NEW t \in Threads, RecallEnd(t) PROVE QueryTypes'
  <2>1. /\ query' = [query EXCEPT ![t] = NoArg] /\ hits' = [hits EXCEPT ![t] = NoHits]
        /\ answer' = [answer EXCEPT ![t] = {}] /\ disturbed' = [disturbed EXCEPT ![t] = {}]
        /\ taken' = taken /\ pc' = [pc EXCEPT ![t] = "idle"]
    BY <1>5 DEF RecallEnd
  <2>2. hits' \in [Threads -> [Nodes -> Nat]]
    BY <2>1 DEF QueryTypes, NoHits
  <2>3. pc'[t] = "idle" /\ \A u \in Threads \ {t} : pc'[u] = pc[u] /\ query'[u] = query[u]
    BY <2>1 DEF QueryTypes, StoreTypes
  <2>. QED  BY <2>1, <2>2, <2>3 DEF QueryTypes, Recalling
<1>6. ASSUME NEW p \in Processes, Open(p) PROVE QueryTypes'
  BY <1>6 DEF Open, QueryTypes, recallVars, Recalling
<1>7. ASSUME NEW p \in Processes, Crash(p) PROVE QueryTypes'
  <2>1. /\ query' = [t \in Threads |-> IF Home(t) = p THEN NoArg ELSE query[t]]
        /\ hits' = [t \in Threads |-> IF Home(t) = p THEN NoHits ELSE hits[t]]
        /\ taken' = [t \in Threads |-> IF Home(t) = p THEN Nobody ELSE taken[t]]
        /\ answer' = [t \in Threads |-> IF Home(t) = p THEN {} ELSE answer[t]]
        /\ disturbed' = [t \in Threads |-> IF Home(t) = p THEN {} ELSE disturbed[t]]
        /\ pc' = [t \in Threads |-> IF Home(t) = p THEN "idle" ELSE pc[t]]
    BY <1>7 DEF Crash
  <2>. QED  BY <2>1 DEF QueryTypes, Recalling, NoHits
<1>8. UNCHANGED vars => QueryTypes'
  BY DEF vars, recallVars, QueryTypes, Recalling
<1>. QED  BY <1>1, <1>2, <1>3, <1>4, <1>5, <1>6, <1>7, <1>8, <1>9 DEF Next, Recall

LEMMA BoundTypesStep == BoundTypes /\ [Next]_vars => BoundTypes'
<1>1. ASSUME BoundTypes, NEW t \in Threads, Mutate(t) \/ Recall(t) PROVE BoundTypes'
  <2>1. /\ ops' = ops \/ ops' = ops + 1
        /\ errors' = errors \/ errors' = errors + 1
        /\ crashes' = crashes
    BY <1>1, Zenon DEF Mutate, Recall, Begin, Finished, PutCache, DeleteCache, SnapshotCache, PutCommit,
              DeleteCommit, SnapshotCommit, MutationFails, RecallBegin, Take, Get, AddTags, RecallEnd
  <2>. QED  BY <1>1, <2>1 DEF BoundTypes
<1>2. ASSUME BoundTypes, NEW p \in Processes, Open(p) \/ Crash(p) PROVE BoundTypes'
  BY <1>2 DEF BoundTypes, Open, Crash
<1>. QED  BY <1>1, <1>2 DEF Next, vars, BoundTypes

(* Whatever the threads and processes do, a key holds nothing but contents  *)
(* of its kind (values under a node's key, tags under its tag key), in the  *)
(* dict as in the file, and an answer nothing but values, nulls for nodes   *)
(* that were deleted meanwhile, and tags.                                   *)
THEOREM TypeInvariant == Spec => []TypeOK
<1>1. Init => StoreTypes /\ MutationTypes /\ QueryTypes /\ BoundTypes
  BY TypesInit, RecallTypesInit, RecallTypesParts
<1>2. StoreTypes /\ MutationTypes /\ QueryTypes /\ BoundTypes /\ [Next]_vars =>
          MutationTypes' /\ QueryTypes' /\ BoundTypes'
  BY MutationTypesStep, QueryTypesStep, BoundTypesStep
<1>3. StoreTypes /\ MutationTypes /\ QueryTypes /\ BoundTypes => TypeOK
  BY RecallTypesParts DEF RecallTypes
<1>. QED  BY <1>1, <1>2, <1>3, TypesInvariance, PTL DEF Spec

(***************************************************************************)
(* The recall.  Of a settled node no mutation is under way anywhere, so     *)
(* that neither its row nor its tags change while the recall goes on, and   *)
(* its cached value is the stored one.  A search of now would rank it as    *)
(* the search of then did: it is left with that rank, or it was taken; what *)
(* was taken is answered, unless it holds no value; and nothing that is     *)
(* left comes before what was taken and is answered.                        *)
(***************************************************************************)
Rank(t, n) == Search(query[t])[n]
Ahead(t)   == RecalledBy(t) \cup (IF pc[t] \in {"get", "tags"} THEN {taken[t][1]} ELSE {})
Outranks(t, n, m) == Rank(t, n) > Rank(t, m) \/ (Rank(t, n) = Rank(t, m) /\ n < m)

RecallOf(t) ==
    /\ \A n \in Settled(t) :
          /\ \A u \in Threads : ~About(u, n)
          /\ hits[t][n] \in {Rank(t, n), 0}
          /\ Rank(t, n) > 0 /\ rows[ValueKey(n)] # Missing =>
                hits[t][n] > 0 \/ n \in Ahead(t)
    /\ \A n \in Settled(t) \cap Ahead(t) :
          /\ Rank(t, n) > 0
          /\ \A m \in Settled(t) : hits[t][m] > 0 => Outranks(t, n, m)
    /\ \A e \in answer[t] : e.node \in Settled(t) =>
          e.value = rows[ValueKey(e.node)] /\ e.tags = index[e.node]
    /\ pc[t] = "tags" /\ taken[t][1] \in Settled(t) =>
          taken[t][2] = rows[ValueKey(taken[t][1])]

RecallInv == \A t \in Threads :
    /\ Recalling(t) => RecallOf(t)
    /\ ~Recalling(t) => answer[t] = {}

(* A mutation's step leaves a node alone, or disturbs it.                   *)
LEMMA MutateOrDisturb ==
  ASSUME StoreTypes, QueryTypes, NEW u \in Threads, Mutate(u),
         NEW t \in Threads, Recalling(t), NEW n \in Nodes, n \notin disturbed'[t]
  PROVE  /\ n \notin disturbed[t]
         /\ rows'[ValueKey(n)] = rows[ValueKey(n)] /\ index'[n] = index[n]
         /\ ~About(u, n)'
<1>1. disturbed \in [Threads -> SUBSET Nodes]
  BY DEF QueryTypes
<1>2. ASSUME NEW k \in Keys, NEW c, PutCache(u, k, c) \/ DeleteCache(u, k)
      PROVE  /\ n \notin disturbed[t] /\ ~About(u, n)'
             /\ UNCHANGED <<rows, index>>
  <2>1. Touch(u, {k[2]}) /\ {k[2]} \in SUBSET Nodes
    BY <1>2, KeyFacts DEF PutCache, DeleteCache
  <2>2. n # k[2] /\ n \notin disturbed[t]
    BY <1>1, <2>1, TouchDisturbs
  <2>3. arg'[u][1] = k /\ pc'[u] # "snapshot" /\ UNCHANGED <<rows, index>>
    BY <1>2 DEF PutCache, DeleteCache, StoreTypes
  <2>. QED  BY <2>2, <2>3 DEF About
<1>3. ASSUME NEW s, SnapshotCache(u, s) \/ SnapshotCommit(u) PROVE FALSE
  <2>1. Touch(u, Nodes)
    BY <1>3 DEF SnapshotCache, SnapshotCommit
  <2>. QED  BY <1>1, <2>1, TouchDisturbs
<1>4. ASSUME PutCommit(u) \/ DeleteCommit(u)
      PROVE  /\ n \notin disturbed[t] /\ ~About(u, n)'
             /\ rows'[ValueKey(n)] = rows[ValueKey(n)] /\ index'[n] = index[n]
  <2>1. arg[u][1] \in Keys /\ arg[u][1][2] \in Nodes
    BY <1>4, KeyFacts DEF PutCommit, DeleteCommit, StoreTypes
  <2>2. Touch(u, {arg[u][1][2]}) /\ {arg[u][1][2]} \in SUBSET Nodes
    BY <1>4, <2>1 DEF PutCommit, DeleteCommit
  <2>3. n # arg[u][1][2] /\ n \notin disturbed[t]
    BY <1>1, <2>2, TouchDisturbs
  <2>4. ValueKey(n) # arg[u][1]
    BY <2>3, KeyFacts
  <2>5. pc'[u] = "idle"
    BY <1>4 DEF PutCommit, DeleteCommit, Finished, StoreTypes
  <2>6. rows'[ValueKey(n)] = rows[ValueKey(n)]
    BY <1>4, <2>1, <2>4, KeyFacts DEF PutCommit, DeleteCommit, StoreTypes, Tables
  <2>7. index'[n] = index[n]
    BY <1>4, <2>1, <2>3 DEF PutCommit, DeleteCommit, IndexTags, UnindexedBy, StoreTypes
  <2>. QED  BY <2>3, <2>5, <2>6, <2>7 DEF About
<1>5. ASSUME MutationFails(u)
      PROVE  UNCHANGED <<rows, index, disturbed>> /\ ~About(u, n)'
  BY <1>5 DEF MutationFails, Finished, About, StoreTypes
<1>. QED  BY <1>2, <1>3, <1>4, <1>5 DEF Mutate

LEMMA SettledStays ==
  ASSUME StoreTypes, QueryTypes, MirrorInv, [Next]_vars,
         NEW t \in Threads, Recalling(t), Recalling(t)', NEW n \in Settled(t)'
  PROVE  /\ n \in Settled(t)
         /\ rows'[ValueKey(n)] = rows[ValueKey(n)] /\ index'[n] = index[n]
         /\ (\A u \in Threads : ~About(u, n)) => \A u \in Threads : ~About(u, n)'
<1>0. /\ n \in Nodes /\ n \notin stale'[Home(t)] /\ n \notin disturbed'[t]
      /\ Home(t) \in open /\ Home(t) \in Processes
  BY MemoryAssumption DEF Settled, MirrorInv, Recalling, Home
<1>1. SUFFICES /\ n \notin stale[Home(t)] /\ n \notin disturbed[t]
               /\ rows'[ValueKey(n)] = rows[ValueKey(n)] /\ index'[n] = index[n]
               /\ \A u \in Threads : ~About(u, n) => ~About(u, n)'
  BY <1>0 DEF Settled
<1>2. ASSUME NEW u \in Threads, Mutate(u)
      PROVE  n \notin stale[Home(t)]
  <2>1. ASSUME NEW ns \in SUBSET Nodes, Touch(u, ns) PROVE stale[Home(t)] \subseteq stale'[Home(t)]
    BY <1>0, <2>1, TouchFacts
  <2>2. ASSUME NEW k \in Keys, NEW c, PutCache(u, k, c) \/ DeleteCache(u, k)
        PROVE  Touch(u, {k[2]}) /\ {k[2]} \in SUBSET Nodes
    BY <2>2, KeyFacts DEF PutCache, DeleteCache
  <2>3. ASSUME NEW s, SnapshotCache(u, s) \/ SnapshotCommit(u) PROVE Touch(u, Nodes)
    BY <2>3 DEF SnapshotCache, SnapshotCommit
  <2>4. PutCommit(u) \/ DeleteCommit(u) => Touch(u, {arg[u][1][2]}) /\ {arg[u][1][2]} \in SUBSET Nodes
    BY KeyFacts DEF PutCommit, DeleteCommit, StoreTypes
  <2>5. MutationFails(u) => stale[Home(t)] \subseteq stale'[Home(t)]
    BY <1>0, AboutIsInFlight DEF MutationFails, StoreTypes
  <2>6. stale[Home(t)] \subseteq stale'[Home(t)]
    BY <1>2, <2>1, <2>2, <2>3, <2>4, <2>5 DEF Mutate
  <2>. QED  BY <1>0, <2>6
<1>3. ASSUME NEW u \in Threads, Mutate(u) PROVE \A v \in Threads : ~About(v, n) => ~About(v, n)'
  BY <1>0, <1>3, MutateLeavesRecalls, MutateOrDisturb DEF About
<1>4. ASSUME NEW u \in Threads, Recall(u)
      PROVE  /\ UNCHANGED <<rows, index, stale, arg>> /\ disturbed'[t] = disturbed[t]
             /\ \A v \in Threads : ~About(v, n) => ~About(v, n)'
  <2>1. UNCHANGED <<rows, index, stale, arg>>
    BY <1>4 DEF Recall, RecallBegin, Take, Get, AddTags, RecallEnd, storeVars
  <2>2. \A v \in Threads : pc'[v] = pc[v] \/ pc'[v] \in {"idle", "take", "get", "tags"}
    BY <1>4 DEF Recall, RecallBegin, Take, Get, AddTags, RecallEnd, StoreTypes
  <2>3. disturbed'[t] = disturbed[t]
    <3>1. ASSUME NEW q, RecallBegin(u, q) PROVE u # t /\ disturbed' = [disturbed EXCEPT ![u] = InFlight]
      BY <3>1 DEF RecallBegin, Begin, Recalling
    <3>2. RecallEnd(u) => u # t /\ disturbed' = [disturbed EXCEPT ![u] = {}]
      BY DEF RecallEnd, Recalling, StoreTypes
    <3>3. Take(u) \/ Get(u) \/ AddTags(u) => disturbed' = disturbed
      BY DEF Take, Get, AddTags
    <3>. QED  BY <1>4, <3>1, <3>2, <3>3 DEF Recall, QueryTypes
  <2>. QED  BY <2>1, <2>2, <2>3 DEF About
<1>5. ASSUME NEW p \in Processes, Open(p)
      PROVE  /\ UNCHANGED <<rows, index, pc, arg, disturbed>>
             /\ stale'[Home(t)] = stale[Home(t)]
  BY <1>0, <1>5 DEF Open, StoreTypes
<1>6. ASSUME NEW p \in Processes, Crash(p)
      PROVE  /\ UNCHANGED <<rows, index>>
             /\ stale'[Home(t)] = stale[Home(t)] /\ disturbed'[t] = disturbed[t]
             /\ \A v \in Threads : (pc'[v] = pc[v] /\ arg'[v] = arg[v]) \/ pc'[v] = "idle"
  <2>1. Home(t) # p
    BY <1>6 DEF Crash, Recalling
  <2>. QED  BY <1>0, <1>6, <2>1 DEF Crash, StoreTypes
<1>7. ASSUME UNCHANGED vars
      PROVE  UNCHANGED <<rows, index, pc, arg, stale, disturbed>>
  BY <1>7 DEF vars, storeVars
<1>. QED  BY <1>0, <1>2, <1>3, <1>4, <1>5, <1>6, <1>7, MutateOrDisturb DEF Next, About

(* The rank of a node depends on its tags only.                             *)
LEMMA RankStays ==
  ASSUME NEW t \in Threads, NEW n \in Nodes, query'[t] = query[t], index'[n] = index[n]
  PROVE  Rank(t, n)' = Rank(t, n)
BY DEF Rank, Search, Found, Required, Overlap

LEMMA RankIsNatural ==
  ASSUME NEW t \in Threads, query[t] \in Queries, NEW n \in Nodes
  PROVE  /\ Rank(t, n) \in Nat
         /\ Rank(t, n) > 0 <=> Found(n, query[t])
         /\ Found(n, query[t]) => Range(query[t].require) \subseteq index[n]
BY SearchFacts DEF Rank

(* What others do concerns a recall through its settled nodes only.         *)
LEMMA RecallStays ==
  ASSUME StoreTypes, QueryTypes, MirrorInv, [Next]_vars, NEW t \in Threads, Recalling(t), RecallOf(t),
         pc'[t] = pc[t], query'[t] = query[t], hits'[t] = hits[t], taken'[t] = taken[t], answer'[t] = answer[t]
  PROVE  RecallOf(t)'
<1>0. Recalling(t)'
  BY DEF Recalling
<1>1. ASSUME NEW n \in Settled(t)'
      PROVE  /\ n \in Nodes /\ n \in Settled(t)
             /\ rows'[ValueKey(n)] = rows[ValueKey(n)] /\ index'[n] = index[n]
             /\ \A u \in Threads : ~About(u, n)'
             /\ Rank(t, n)' = Rank(t, n)
  <2>1. n \in Settled(t)
    BY <1>0, SettledStays
  <2>2. \A u \in Threads : ~About(u, n)
    BY <2>1 DEF RecallOf
  <2>3. n \in Nodes
    BY DEF Settled
  <2>. QED  BY <1>0, <2>1, <2>2, <2>3, SettledStays, RankStays
<1>2. Ahead(t)' = Ahead(t)
  BY DEF Ahead, RecalledBy
<1>3. \A n \in Settled(t)' :
          /\ \A u \in Threads : ~About(u, n)'
          /\ hits'[t][n] \in {Rank(t, n)', 0}
          /\ Rank(t, n)' > 0 /\ rows'[ValueKey(n)] # Missing =>
                hits'[t][n] > 0 \/ n \in Ahead(t)'
  BY <1>1, <1>2 DEF RecallOf
<1>4. \A n \in Settled(t)' \cap Ahead(t)' :
          /\ Rank(t, n)' > 0
          /\ \A m \in Settled(t)' : hits'[t][m] > 0 => Outranks(t, n, m)'
  BY <1>1, <1>2 DEF RecallOf, Outranks
<1>5. \A e \in answer'[t] : e.node \in Settled(t)' =>
          e.value = rows'[ValueKey(e.node)] /\ e.tags = index'[e.node]
  BY <1>1 DEF RecallOf
<1>6. pc'[t] = "tags" /\ taken'[t][1] \in Settled(t)' =>
          taken'[t][2] = rows'[ValueKey(taken'[t][1])]
  BY <1>1 DEF RecallOf
<1>. QED  BY <1>3, <1>4, <1>5, <1>6 DEF RecallOf

LEMMA RecallBegins ==
  ASSUME StoreTypes, QueryTypes, NEW t \in Threads, NEW q \in Queries, RecallBegin(t, q)
  PROVE  Recalling(t)' /\ RecallOf(t)'
<1>1. /\ pc'[t] = "take" /\ query'[t] = q /\ hits'[t] = Search(q) /\ answer'[t] = {}
      /\ disturbed'[t] = InFlight /\ UNCHANGED <<rows, index, stale, arg>> /\ pc[t] = "idle"
      /\ \A u \in Threads \ {t} : pc'[u] = pc[u]
  BY DEF RecallBegin, Begin, storeVars, StoreTypes, QueryTypes
<1>2. Ahead(t)' = {}
  BY <1>1 DEF Ahead, RecalledBy
<1>3. ASSUME NEW n \in Settled(t)'
      PROVE  /\ \A u \in Threads : ~About(u, n)'
             /\ hits'[t][n] = Rank(t, n)'
             /\ Rank(t, n)' \in Nat
  <2>1. n \in Nodes /\ n \notin InFlight
    BY <1>1 DEF Settled
  <2>2. \A u \in Threads : ~About(u, n)
    BY <2>1 DEF InFlight, InFlightOf, About
  <2>3. Rank(t, n)' = Search(q)[n]
    BY <1>1 DEF Rank, Search, Found, Required, Overlap
  <2>. QED  BY <1>1, <2>1, <2>2, <2>3, SearchFacts DEF About
<1>. QED  BY <1>1, <1>2, <1>3 DEF RecallOf, Recalling

(* The dict answers what the file holds, of a settled node. *)
LEMMA CachedIsStored ==
  ASSUME StoreTypes, MirrorInv, NEW t \in Threads, Recalling(t), RecallOf(t), NEW n \in Settled(t)
  PROVE  cache[Home(t)][ValueKey(n)] = rows[ValueKey(n)]
<1>1. n \in Nodes /\ n \notin stale[Home(t)] /\ Home(t) \in open
  BY DEF Settled, MirrorInv, Recalling
<1>2. \A u \in Threads : ~Changes(u, ValueKey(n))
  BY <1>1, KeyFacts, ChangesIsAbout DEF RecallOf
<1>. QED  BY <1>1, <1>2, KeyFacts DEF MirrorInv, MirrorOf

LEMMA RecallTakes ==
  ASSUME StoreTypes, QueryTypes, MirrorInv, NEW t \in Threads, RecallOf(t), Take(t)
  PROVE  Recalling(t)' /\ RecallOf(t)'
<1>1. PICK b \in Best(t) :
          /\ hits' = [hits EXCEPT ![t][b] = 0]
          /\ IF cache[Home(t)][ValueKey(b)] = Missing
             THEN UNCHANGED <<taken, pc>>
             ELSE /\ taken' = [taken EXCEPT ![t] = <<b, Missing>>]
                  /\ pc' = [pc EXCEPT ![t] = "get"]
  BY DEF Take
<1>2. /\ b \in Nodes /\ hits[t][b] > 0 /\ pc[t] = "take" /\ Recalling(t) /\ query[t] \in Queries
      /\ \A m \in Nodes \ {b} : hits[t][m] > 0 => Before(hits[t], b, m)
  BY DEF Best, Left, Take, Recalling, QueryTypes
<1>3. UNCHANGED <<cache, rows, index, query, answer, stale, disturbed, arg>>
  BY DEF Take, storeVars
<1>4. /\ hits'[t][b] = 0 /\ \A n \in Nodes \ {b} : hits'[t][n] = hits[t][n]
      /\ \A n \in Nodes : hits[t][n] \in Nat
      /\ \A u \in Threads \ {t} : pc'[u] = pc[u]
      /\ cache[Home(t)][ValueKey(b)] = Missing => pc'[t] = "take"
      /\ cache[Home(t)][ValueKey(b)] # Missing =>
            pc'[t] = "get" /\ taken'[t] = <<b, Missing>>
  BY <1>1, <1>2 DEF QueryTypes, StoreTypes
<1>5. Settled(t)' = Settled(t) /\ Settled(t) \subseteq Nodes
  BY <1>3 DEF Settled, Home
<1>6. \A n \in Nodes : Rank(t, n)' = Rank(t, n) /\ Rank(t, n) \in Nat
  BY <1>2, <1>3, RankStays, RankIsNatural
<1>7. \A u \in Threads, n \in Nodes : About(u, n)' => About(u, n)
  BY <1>2, <1>3, <1>4 DEF About
<1>8. /\ Ahead(t) = RecalledBy(t)
      /\ Ahead(t)' = RecalledBy(t) \cup IF cache[Home(t)][ValueKey(b)] # Missing THEN {b} ELSE {}
  BY <1>2, <1>3, <1>4 DEF Ahead, RecalledBy
<1>9. b \in Settled(t) => cache[Home(t)][ValueKey(b)] = rows[ValueKey(b)] /\ hits[t][b] = Rank(t, b)
  BY <1>2, CachedIsStored DEF RecallOf
<1>10. ASSUME NEW n \in Settled(t)
       PROVE  /\ hits'[t][n] \in {Rank(t, n), 0}
              /\ Rank(t, n) > 0 /\ rows[ValueKey(n)] # Missing =>
                    hits'[t][n] > 0 \/ n \in Ahead(t)'
  <2>1. CASE n = b
    BY <1>4, <1>8, <1>9, <2>1
  <2>2. CASE n # b
    BY <1>4, <1>5, <1>8, <2>2 DEF RecallOf
  <2>. QED  BY <2>1, <2>2
<1>11. ASSUME NEW n \in Settled(t), n \in Ahead(t)'
       PROVE  /\ Rank(t, n) > 0
              /\ \A m \in Settled(t) : hits'[t][m] > 0 => Outranks(t, n, m)
  <2>1. CASE n \in Ahead(t)
    <3>1. \A m \in Settled(t) : hits'[t][m] > 0 => hits[t][m] > 0
      BY <1>4, <1>5
    <3>. QED  BY <2>1, <3>1 DEF RecallOf
  <2>2. CASE n = b
    <3>1. Rank(t, b) > 0 /\ hits[t][b] = Rank(t, b)
      BY <1>2, <1>9, <2>2
    <3>2. ASSUME NEW m \in Settled(t), hits'[t][m] > 0 PROVE Outranks(t, b, m)
      <4>1. m \in Nodes /\ m # b /\ hits'[t][m] = hits[t][m]
        BY <1>4, <1>5, <3>2
      <4>2. hits[t][m] > 0
        BY <3>2, <4>1
      <4>3. hits[t][m] = Rank(t, m)
        BY <4>2 DEF RecallOf
      <4>. QED  BY <1>2, <3>1, <4>1, <4>2, <4>3 DEF Before, Outranks
    <3>. QED  BY <2>2, <3>1, <3>2
  <2>. QED  BY <1>8, <1>11, <2>1, <2>2
<1>13. \A n \in Settled(t), m \in Settled(t) : Outranks(t, n, m)' = Outranks(t, n, m)
  BY <1>5, <1>6 DEF Outranks
<1>14. \A n \in Settled(t)' :
          /\ \A u \in Threads : ~About(u, n)'
          /\ hits'[t][n] \in {Rank(t, n)', 0}
          /\ Rank(t, n)' > 0 /\ rows'[ValueKey(n)] # Missing =>
                hits'[t][n] > 0 \/ n \in Ahead(t)'
  BY <1>3, <1>5, <1>6, <1>7, <1>10 DEF RecallOf
<1>15. \A n \in Settled(t)' \cap Ahead(t)' :
          /\ Rank(t, n)' > 0
          /\ \A m \in Settled(t)' : hits'[t][m] > 0 => Outranks(t, n, m)'
  BY <1>5, <1>6, <1>11, <1>13
<1>16. \A e \in answer'[t] : e.node \in Settled(t)' =>
          e.value = rows'[ValueKey(e.node)] /\ e.tags = index'[e.node]
  BY <1>3, <1>5 DEF RecallOf
<1>17. pc'[t] \in {"take", "get"}
  BY <1>4
<1>. QED  BY <1>14, <1>15, <1>16, <1>17 DEF RecallOf, Recalling

LEMMA RecallGets ==
  ASSUME StoreTypes, QueryTypes, MirrorInv, NEW t \in Threads, RecallOf(t), Get(t)
  PROVE  Recalling(t)' /\ RecallOf(t)'
<1>1. /\ taken'[t] = <<taken[t][1], cache[Home(t)][ValueKey(taken[t][1])]>>
      /\ pc'[t] = "tags" /\ pc[t] = "get" /\ Recalling(t)
      /\ UNCHANGED <<cache, rows, index, query, hits, answer, stale, disturbed, arg>>
      /\ \A u \in Threads \ {t} : pc'[u] = pc[u]
  BY DEF Get, storeVars, QueryTypes, StoreTypes, Recalling
<1>2. Settled(t)' = Settled(t) /\ Settled(t) \subseteq Nodes
  BY <1>1 DEF Settled, Home
<1>3. Ahead(t)' = Ahead(t)
  BY <1>1 DEF Ahead, RecalledBy
<1>4. \A n \in Nodes : Rank(t, n)' = Rank(t, n)
  BY <1>1, RankStays
<1>5. \A u \in Threads, n \in Nodes : About(u, n)' => About(u, n)
  BY <1>1 DEF About
<1>6. \A n \in Settled(t), m \in Settled(t) : Outranks(t, n, m)' = Outranks(t, n, m)
  BY <1>2, <1>4 DEF Outranks
<1>7. \A n \in Settled(t)' :
          /\ \A u \in Threads : ~About(u, n)'
          /\ hits'[t][n] \in {Rank(t, n)', 0}
          /\ Rank(t, n)' > 0 /\ rows'[ValueKey(n)] # Missing =>
                hits'[t][n] > 0 \/ n \in Ahead(t)'
  BY <1>1, <1>2, <1>3, <1>4, <1>5 DEF RecallOf
<1>8. \A n \in Settled(t)' \cap Ahead(t)' :
          /\ Rank(t, n)' > 0
          /\ \A m \in Settled(t)' : hits'[t][m] > 0 => Outranks(t, n, m)'
  BY <1>1, <1>2, <1>3, <1>4, <1>6 DEF RecallOf
<1>9. \A e \in answer'[t] : e.node \in Settled(t)' =>
          e.value = rows'[ValueKey(e.node)] /\ e.tags = index'[e.node]
  BY <1>1, <1>2 DEF RecallOf
<1>10. taken'[t][1] \in Settled(t)' => taken'[t][2] = rows'[ValueKey(taken'[t][1])]
  BY <1>1, <1>2, CachedIsStored
<1>. QED  BY <1>1, <1>7, <1>8, <1>9, <1>10 DEF RecallOf, Recalling

LEMMA RecallAdds ==
  ASSUME StoreTypes, QueryTypes, NEW t \in Threads, RecallOf(t), AddTags(t)
  PROVE  Recalling(t)' /\ RecallOf(t)'
<1>1. /\ answer'[t] = answer[t] \cup {[node |-> taken[t][1], value |-> taken[t][2], tags |-> index[taken[t][1]]]}
      /\ pc'[t] = "take" /\ pc[t] = "tags" /\ taken[t] \in Nodes \X (Values \cup {Missing})
      /\ UNCHANGED <<cache, rows, index, query, hits, stale, disturbed, arg>>
      /\ \A u \in Threads \ {t} : pc'[u] = pc[u]
  BY DEF AddTags, storeVars, QueryTypes, StoreTypes
<1>2. Settled(t)' = Settled(t) /\ Settled(t) \subseteq Nodes
  BY <1>1 DEF Settled, Home
<1>3. Ahead(t)' = Ahead(t)
  <2> DEFINE e == [node |-> taken[t][1], value |-> taken[t][2], tags |-> index[taken[t][1]]]
  <2>1. e.node = taken[t][1] /\ answer'[t] = answer[t] \cup {e}
    BY <1>1
  <2>2. RecalledBy(t)' = {f.node : f \in answer'[t]}
    BY DEF RecalledBy
  <2> HIDE DEF e
  <2>3. RecalledBy(t)' = RecalledBy(t) \cup {taken[t][1]}
    BY <2>1, <2>2 DEF RecalledBy
  <2>. QED  BY <1>1, <2>3 DEF Ahead
<1>4. \A n \in Nodes : Rank(t, n)' = Rank(t, n)
  BY <1>1, RankStays
<1>5. \A u \in Threads, n \in Nodes : About(u, n)' => About(u, n)
  BY <1>1 DEF About
<1>6. \A n \in Settled(t), m \in Settled(t) : Outranks(t, n, m)' = Outranks(t, n, m)
  BY <1>2, <1>4 DEF Outranks
<1>7. \A n \in Settled(t)' :
          /\ \A u \in Threads : ~About(u, n)'
          /\ hits'[t][n] \in {Rank(t, n)', 0}
          /\ Rank(t, n)' > 0 /\ rows'[ValueKey(n)] # Missing =>
                hits'[t][n] > 0 \/ n \in Ahead(t)'
  BY <1>1, <1>2, <1>3, <1>4, <1>5 DEF RecallOf
<1>8. \A n \in Settled(t)' \cap Ahead(t)' :
          /\ Rank(t, n)' > 0
          /\ \A m \in Settled(t)' : hits'[t][m] > 0 => Outranks(t, n, m)'
  BY <1>1, <1>2, <1>3, <1>4, <1>6 DEF RecallOf
<1>9. ASSUME NEW e \in answer'[t], e.node \in Settled(t)'
      PROVE  e.value = rows'[ValueKey(e.node)] /\ e.tags = index'[e.node]
  <2>1. CASE e \in answer[t]
    BY <1>1, <1>2, <1>9, <2>1 DEF RecallOf
  <2>2. CASE e = [node |-> taken[t][1], value |-> taken[t][2], tags |-> index[taken[t][1]]]
    <3>1. e.node = taken[t][1] /\ e.value = taken[t][2] /\ e.tags = index[taken[t][1]]
      BY <2>2
    <3>2. taken[t][2] = rows[ValueKey(taken[t][1])]
      BY <1>1, <1>2, <1>9, <3>1 DEF RecallOf
    <3>. QED  BY <1>1, <3>1, <3>2
  <2>. QED  BY <1>1, <1>9, <2>1, <2>2
<1>. QED  BY <1>1, <1>7, <1>8, <1>9 DEF RecallOf, Recalling

LEMMA RecallInvInit == Init => RecallInv
BY DEF Init, RecallInv, Recalling

LEMMA RecallInvStep ==
  StoreTypes /\ QueryTypes /\ MirrorInv /\ RecallInv /\ [Next]_vars => RecallInv'
<1> SUFFICES ASSUME StoreTypes, QueryTypes, MirrorInv, RecallInv, [Next]_vars, NEW t \in Threads
             PROVE  (Recalling(t)' => RecallOf(t)') /\ (~Recalling(t)' => answer'[t] = {})
  BY DEF RecallInv
<1>1. (Recalling(t) => RecallOf(t)) /\ (~Recalling(t) => answer[t] = {})
  BY DEF RecallInv
<1>2. ASSUME pc'[t] = pc[t] \/ (~Recalling(t) /\ ~Recalling(t)'),
             query'[t] = query[t], hits'[t] = hits[t], taken'[t] = taken[t], answer'[t] = answer[t]
      PROVE  (Recalling(t)' => RecallOf(t)') /\ (~Recalling(t)' => answer'[t] = {})
  BY <1>1, <1>2, RecallStays DEF Recalling
<1>3. ASSUME NEW u \in Threads, Mutate(u) PROVE (Recalling(t)' => RecallOf(t)') /\ (~Recalling(t)' => answer'[t] = {})
  <2>1. UNCHANGED <<query, hits, taken, answer>>
    BY <1>3, MutateLeavesRecalls DEF recallVars
  <2>2. pc'[t] = pc[t] \/ (~Recalling(t) /\ ~Recalling(t)')
    BY <1>3, MutateLeavesRecalls
  <2>. QED  BY <1>2, <2>1, <2>2
<1>4. ASSUME NEW u \in Threads \ {t}, Recall(u) PROVE (Recalling(t)' => RecallOf(t)') /\ (~Recalling(t)' => answer'[t] = {})
  <2>1. /\ pc'[t] = pc[t] /\ query'[t] = query[t] /\ hits'[t] = hits[t]
        /\ taken'[t] = taken[t] /\ answer'[t] = answer[t]
    <3>1. ASSUME NEW q, RecallBegin(u, q)
          PROVE  /\ pc'[t] = pc[t] /\ query'[t] = query[t] /\ hits'[t] = hits[t]
                 /\ taken'[t] = taken[t] /\ answer'[t] = answer[t]
      BY <3>1 DEF RecallBegin, StoreTypes, QueryTypes
    <3>2. ASSUME Take(u)
          PROVE  /\ pc'[t] = pc[t] /\ query'[t] = query[t] /\ hits'[t] = hits[t]
                 /\ taken'[t] = taken[t] /\ answer'[t] = answer[t]
      <4>1. \E n : hits' = [hits EXCEPT ![u][n] = 0]
        BY <3>2 DEF Take
      <4>2. taken' = taken \/ \E x : taken' = [taken EXCEPT ![u] = x]
        BY <3>2 DEF Take
      <4>3. pc' = pc \/ pc' = [pc EXCEPT ![u] = "get"]
        BY <3>2 DEF Take
      <4>4. UNCHANGED <<query, answer>>
        BY <3>2 DEF Take
      <4>. QED  BY <4>1, <4>2, <4>3, <4>4 DEF StoreTypes, QueryTypes
    <3>3. ASSUME Get(u) \/ AddTags(u) \/ RecallEnd(u)
          PROVE  /\ pc'[t] = pc[t] /\ query'[t] = query[t] /\ hits'[t] = hits[t]
                 /\ taken'[t] = taken[t] /\ answer'[t] = answer[t]
      BY <3>3 DEF Get, AddTags, RecallEnd, StoreTypes, QueryTypes
    <3>. QED  BY <1>4, <3>1, <3>2, <3>3 DEF Recall
  <2>. QED  BY <1>2, <2>1
<1>5. ASSUME Recall(t) PROVE (Recalling(t)' => RecallOf(t)') /\ (~Recalling(t)' => answer'[t] = {})
  <2>1. Take(t) \/ Get(t) \/ AddTags(t) => RecallOf(t)
    BY <1>1 DEF Take, Get, AddTags, Recalling
  <2>2. RecallEnd(t) => pc'[t] = "idle" /\ answer'[t] = {}
    BY DEF RecallEnd, StoreTypes, QueryTypes
  <2>3. RecallEnd(t) => ~Recalling(t)'
    BY <2>2 DEF Recalling
  <2>4. (\E q \in Queries : RecallBegin(t, q)) \/ Take(t) \/ Get(t) \/ AddTags(t) => Recalling(t)' /\ RecallOf(t)'
    BY <2>1, RecallBegins, RecallTakes, RecallGets, RecallAdds
  <2>. QED  BY <1>5, <2>2, <2>3, <2>4 DEF Recall
<1>6. ASSUME NEW p \in Processes, Open(p) PROVE (Recalling(t)' => RecallOf(t)') /\ (~Recalling(t)' => answer'[t] = {})
  <2>1. UNCHANGED <<pc, query, hits, taken, answer>>
    BY <1>6 DEF Open, recallVars
  <2>. QED  BY <1>2, <2>1
<1>7. ASSUME NEW p \in Processes, Crash(p) PROVE (Recalling(t)' => RecallOf(t)') /\ (~Recalling(t)' => answer'[t] = {})
  <2>1. CASE Home(t) = p
    <3>1. pc'[t] = "idle" /\ answer'[t] = {}
      BY <1>7, <2>1 DEF Crash
    <3>2. ~Recalling(t)'
      BY <3>1 DEF Recalling
    <3>. QED  BY <3>1, <3>2
  <2>2. CASE Home(t) # p
    <3>1. /\ pc'[t] = pc[t] /\ query'[t] = query[t] /\ hits'[t] = hits[t]
          /\ taken'[t] = taken[t] /\ answer'[t] = answer[t]
      BY <1>7, <2>2 DEF Crash
    <3>. QED  BY <1>2, <3>1
  <2>. QED  BY <2>1, <2>2
<1>8. ASSUME UNCHANGED vars PROVE (Recalling(t)' => RecallOf(t)') /\ (~Recalling(t)' => answer'[t] = {})
  <2>1. UNCHANGED <<pc, query, hits, taken, answer>>
    BY <1>8 DEF vars, recallVars
  <2>. QED  BY <1>2, <2>1
<1>. QED  BY <1>3, <1>4, <1>5, <1>6, <1>7, <1>8 DEF Next

LEMMA RecallInvariance == Spec => [](QueryTypes /\ RecallInv)
<1>1. Init => StoreTypes /\ MutationTypes /\ QueryTypes
  BY TypesInit, RecallTypesInit, RecallTypesParts
<1>2. StoreTypes /\ MutationTypes /\ QueryTypes /\ [Next]_vars => MutationTypes' /\ QueryTypes'
  BY MutationTypesStep, QueryTypesStep
<1>3. Init => MirrorInv
  BY DEF Init, MirrorInv
<1>. QED  BY <1>1, <1>2, <1>3, MirrorStep, RecallInvInit, RecallInvStep, TypesInvariance, PTL DEF Spec

(* A recall that has ended, uncut, has every settled node that carries the  *)
(* tags and holds a value: none is lost between the search of the file and  *)
(* the reading of the dict.                                                 *)
THEOREM RecallFinds == Spec => []RecallFindsSettled
<1>1. QueryTypes /\ RecallInv => RecallFindsSettled
  <2> SUFFICES ASSUME QueryTypes, RecallInv, NEW t \in Threads, Answered(t), ~Full(t), NEW n \in Settled(t),
                      Found(n, query[t]), rows[ValueKey(n)] # Missing
               PROVE  n \in RecalledBy(t)
    BY DEF RecallFindsSettled
  <2>1. pc[t] = "take" /\ Recalling(t) /\ Left(t) = {} /\ RecallOf(t) /\ n \in Nodes /\ query[t] \in Queries
    BY DEF Answered, Recalling, RecallInv, Settled, QueryTypes
  <2>2. Rank(t, n) > 0 /\ ~(hits[t][n] > 0)
    BY <2>1, RankIsNatural DEF Left
  <2>. QED  BY <2>1, <2>2 DEF RecallOf, Ahead
<1>. QED  BY <1>1, RecallInvariance, PTL

(* The answer of a recall that is cut has the best of what it found.        *)
THEOREM RecallHasBest == Spec => []RecallIsBest
<1>1. QueryTypes /\ RecallInv => RecallIsBest
  <2> SUFFICES ASSUME QueryTypes, RecallInv, NEW t \in Threads, Answered(t),
                      NEW e \in answer[t], NEW n \in Settled(t) \ RecalledBy(t),
                      Found(n, query[t]), rows[ValueKey(n)] # Missing, e.node \in Settled(t)
               PROVE  /\ Rank(t, e.node) >= Rank(t, n)
                      /\ Rank(t, e.node) = Rank(t, n) => e.node < n
    BY DEF RecallIsBest, Rank
  <2>1. pc[t] = "take" /\ Recalling(t) /\ RecallOf(t) /\ n \in Nodes /\ e.node \in Nodes /\ query[t] \in Queries
    BY DEF Answered, Recalling, RecallInv, Settled, QueryTypes
  <2>2. Rank(t, n) \in Nat /\ Rank(t, e.node) \in Nat /\ Rank(t, n) > 0
    BY <2>1, RankIsNatural
  <2>3. hits[t][n] > 0
    BY <2>1, <2>2 DEF RecallOf, Ahead
  <2>4. Outranks(t, e.node, n)
    BY <2>1, <2>3 DEF RecallOf, Ahead, RecalledBy
  <2>. QED  BY <2>2, <2>4 DEF Outranks
<1>. QED  BY <1>1, RecallInvariance, PTL

(* What is recalled carries all the tags required, and the stored value.    *)
THEOREM RecallMeetsRequirement == Spec => []RecallIsRequired
<1>1. QueryTypes /\ RecallInv => RecallIsRequired
  <2> SUFFICES ASSUME QueryTypes, RecallInv, NEW t \in Threads, NEW e \in answer[t], e.node \in Settled(t)
               PROVE  /\ Range(query[t].require) \subseteq e.tags
                      /\ e.value = rows[ValueKey(e.node)]
    BY DEF RecallIsRequired
  <2>1. Recalling(t) /\ RecallOf(t) /\ e.node \in Nodes /\ query[t] \in Queries
    BY DEF RecallInv, Settled, QueryTypes
  <2>2. e.value = rows[ValueKey(e.node)] /\ e.tags = index[e.node] /\ Rank(t, e.node) > 0
    BY <2>1 DEF RecallOf, Ahead, RecalledBy
  <2>. QED  BY <2>1, <2>2, RankIsNatural
<1>. QED  BY <1>1, RecallInvariance, PTL
=============================================================================

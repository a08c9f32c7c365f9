----------------------------- MODULE MemoryStore -----------------------------
(***************************************************************************)
(* SqliteMemoryStore (src/memory.py): the agent's memory.  A process has    *)
(* the values in a dict, which answers, and writes every mutation through   *)
(* to a SQLite file, which the next process loads; an index of tags lives   *)
(* in the file only, and recall_by_tags brings the two together.  The dict  *)
(* and the file change in separate steps, and the lock is held for the      *)
(* second of them only.                                                     *)
(*                                                                          *)
(* A definition without a comment right before the one it alters is a       *)
(* plausible bug, used only to check that a property can fail.              *)
(***************************************************************************)
EXTENDS Naturals, FiniteSets, Sequences, Functions

CONSTANTS Nodes,     \* memory nodes, numbered in the order of their keys
          SessionOf, \* session_of of a node's key
          Values,    \* what a node may hold
          Missing,   \* no value, no session
          Tags,
          TagSets,   \* the lists of tags that are stored, as sets
          Queries,   \* the recalls made: tags, match, require, exclude, limit
          Snapshots, \* arguments of load_snapshot
          Processes,
          Threads,
          ProcessOf, \* [Threads -> Processes]
          MaxOps,    \* bound: operations begun
          MaxErrors, \* bound: mutations that SQLite refuses
          MaxCrashes \* bound: deaths of a process

(* The keys of the store: a node's, and "__nodus_tags__:" before it. *)
ValueKey(n) == <<"value", n>>
TagKey(n)   == <<"tags", n>>
Keys == {"value", "tags"} \X Nodes
ContentsOf(k) == (IF k[1] = "value" THEN Values ELSE TagSets) \cup {Missing}

ASSUME MemoryAssumption ==
    /\ Nodes \subseteq Nat /\ IsFiniteSet(Tags)
    /\ TagSets \subseteq SUBSET Tags
    /\ Missing \notin Values \cup TagSets
    /\ ProcessOf \in [Threads -> Processes]
    /\ Snapshots \subseteq [Keys -> Values \cup TagSets \cup {Missing}]
    /\ \A s \in Snapshots, k \in Keys : s[k] \in ContentsOf(k)
ASSUME QueriesAssumption ==
    \A q \in Queries : /\ q.tags \in Seq(Tags) /\ q.require \in Seq(Tags)
                       /\ q.match \in {"any", "all"} /\ q.limit \in Nat
ASSUME MemoryBounds == MaxOps \in Nat /\ MaxErrors \in Nat /\ MaxCrashes \in Nat

VARIABLES
    open,   \* processes that have the store open
    cache,  \* _values, by process
    rows,   \* the table of values
    index,  \* the table of tags
    pc,     \* where a thread is
    arg,    \* the key and content its mutation is about, or the snapshot
    query,  \* the recall it makes
    hits,   \* tags in common, by node: what its search returned
    taken,  \* the node and value its loop is at
    answer, \* what its recall has collected
    stale,  \* history: nodes whose cached value may not be the stored one
    disturbed, \* history: nodes mutated while a thread's recall was under way
    ops, errors, crashes

storeVars  == <<open, cache, rows, index>>
recallVars == <<query, hits, taken, answer>>
vars == <<storeVars, pc, arg, recallVars, stale, disturbed, ops, errors, crashes>>

Home(t) == ProcessOf[t]
NoArg   == <<>>
NoHits  == [n \in Nodes |-> 0]
Nobody  == <<Missing, Missing>>

Init ==
    /\ open = {}
    /\ cache = [p \in Processes |-> [k \in Keys |-> Missing]]
    /\ rows = [k \in Keys |-> Missing]
    /\ index = [n \in Nodes |-> {}]
    /\ pc = [t \in Threads |-> "idle"]
    /\ arg = [t \in Threads |-> NoArg]
    /\ query = [t \in Threads |-> NoArg]
    /\ hits = [t \in Threads |-> NoHits]
    /\ taken = [t \in Threads |-> Nobody]
    /\ answer = [t \in Threads |-> {}]
    /\ stale = [p \in Processes |-> {}]
    /\ disturbed = [t \in Threads |-> {}]
    /\ ops = 0 /\ errors = 0 /\ crashes = 0

(* __init__ and _load. *)
OpenEmpty(p) ==
    /\ p \notin open
    /\ open' = open \cup {p}
    /\ UNCHANGED <<cache, rows, index, pc, arg, recallVars, stale, disturbed,
                   ops, errors, crashes>>
Open(p) ==
    /\ p \notin open
    /\ open' = open \cup {p}
    /\ cache' = [cache EXCEPT ![p] = rows]
    /\ stale' = [stale EXCEPT ![p] = {}]
    /\ UNCHANGED <<rows, index, pc, arg, recallVars, disturbed, ops, errors, crashes>>

Begin(t) ==
    /\ Home(t) \in open /\ pc[t] = "idle"
    /\ ops < MaxOps /\ ops' = ops + 1

(* The nodes that mutations of some threads are about. *)
InFlightOf(threads) == {n \in Nodes : \E t \in threads :
    \/ pc[t] \in {"put", "delete"} /\ arg[t][1][2] = n
    \/ pc[t] = "snapshot"}
InFlight == InFlightOf(Threads)

(* History: a step of t's mutation concerns the nodes ns.  It makes them    *)
(* stale in other processes, and in its own if another mutation of them is  *)
(* under way there.                                                         *)
Recalling(t) == pc[t] \in {"take", "get", "tags"}
Touch(t, ns) ==
    /\ disturbed' = [u \in Threads |->
          IF Recalling(u) THEN disturbed[u] \cup ns ELSE disturbed[u]]
    /\ stale' = [p \in Processes |-> stale[p] \cup
          IF p \notin open THEN {}
          ELSE IF p # Home(t) THEN ns
          ELSE ns \cap InFlightOf({u \in Threads \ {t} : Home(u) = p})]

(* A mutation ends. *)
Finished(t) ==
    /\ pc' = [pc EXCEPT ![t] = "idle"]
    /\ arg' = [arg EXCEPT ![t] = NoArg]
    /\ UNCHANGED <<open, cache, recallVars, ops, crashes>>

(***************************************************************************)
(* put, of a value or of a node's tags: the dict, then the file.            *)
(***************************************************************************)
PutCache(t, k, c) ==
    /\ Begin(t)
    /\ cache' = [cache EXCEPT ![Home(t)][k] = c]
    /\ pc' = [pc EXCEPT ![t] = "put"]
    /\ arg' = [arg EXCEPT ![t] = <<k, c>>]
    /\ Touch(t, {k[2]})
    /\ UNCHANGED <<open, rows, index, recallVars, errors, crashes>>

(* _index_tags replaces the tags of a node. *)
IndexTags(n, tags) == [index EXCEPT ![n] = tags]

PutCommitIgnoring(t) ==
    /\ pc[t] = "put"
    /\ LET k == arg[t][1]  c == IF rows[k] = Missing THEN arg[t][2] ELSE rows[k] IN
       /\ rows' = [rows EXCEPT ![k] = c]
       /\ index' = IF k = TagKey(k[2]) THEN IndexTags(k[2], c) ELSE index
       /\ Touch(t, {k[2]})
    /\ Finished(t)
    /\ UNCHANGED errors
PutCommit(t) ==
    /\ pc[t] = "put"
    /\ LET k == arg[t][1]  c == arg[t][2] IN
       /\ rows' = [rows EXCEPT ![k] = c]
       /\ index' = IF k = TagKey(k[2]) THEN IndexTags(k[2], c) ELSE index
       /\ Touch(t, {k[2]})
    /\ Finished(t)
    /\ UNCHANGED errors

(***************************************************************************)
(* delete: of a value or of a node's tags, and in either case of the node   *)
(* in the index.                                                            *)
(***************************************************************************)
DeleteCache(t, k) ==
    /\ Begin(t)
    /\ cache' = [cache EXCEPT ![Home(t)][k] = Missing]
    /\ pc' = [pc EXCEPT ![t] = "delete"]
    /\ arg' = [arg EXCEPT ![t] = <<k, Missing>>]
    /\ Touch(t, {k[2]})
    /\ UNCHANGED <<open, rows, index, recallVars, errors, crashes>>

UnindexedByKeySpelling(k) ==
    IF k = ValueKey(k[2]) THEN [index EXCEPT ![k[2]] = {}] ELSE index
UnindexedBy(k) == [index EXCEPT ![k[2]] = {}]

DeleteCommit(t) ==
    /\ pc[t] = "delete"
    /\ LET k == arg[t][1] IN
       /\ rows' = [rows EXCEPT ![k] = Missing]
       /\ index' = UnindexedBy(k)
       /\ Touch(t, {k[2]})
    /\ Finished(t)
    /\ UNCHANGED errors

(* SQLite refuses the statement (another process holds the file's lock for  *)
(* too long): the mutation raises, and the dict has changed already, of a   *)
(* snapshot for all nodes.                                                  *)
MutationFails(t) ==
    /\ pc[t] \in {"put", "delete", "snapshot"}
    /\ errors < MaxErrors
    /\ errors' = errors + 1
    /\ stale' = [stale EXCEPT ![Home(t)] = @ \cup InFlightOf({t})]
    /\ Finished(t)
    /\ UNCHANGED <<rows, index, disturbed>>

(***************************************************************************)
(* load_snapshot: replaces the dict, then all rows and the index.           *)
(***************************************************************************)
SnapshotCache(t, s) ==
    /\ Begin(t)
    /\ cache' = [cache EXCEPT ![Home(t)] = s]
    /\ pc' = [pc EXCEPT ![t] = "snapshot"]
    /\ arg' = [arg EXCEPT ![t] = <<s>>]
    /\ Touch(t, Nodes)
    /\ UNCHANGED <<open, rows, index, recallVars, errors, crashes>>

(* The rows are those of _values at that moment. *)
SnapshotCommit(t) ==
    /\ pc[t] = "snapshot"
    /\ rows' = cache[Home(t)]
    /\ index' = [n \in Nodes |-> IF rows'[TagKey(n)] = Missing THEN {} ELSE rows'[TagKey(n)]]
    /\ Touch(t, Nodes)
    /\ Finished(t)
    /\ UNCHANGED errors

(***************************************************************************)
(* search_by_tags: the SQL query.                                           *)
(***************************************************************************)
Overlap(n, tags) == Cardinality(index[n] \cap Range(tags))

RequiredAny(n, q) == q.require # <<>> => Overlap(n, q.require) > 0
Required(n, q) == Overlap(n, q.require) = Len(q.require)

Found(n, q) ==
    /\ Overlap(n, q.tags) > 0
    /\ Required(n, q)
    /\ q.match = "all" => Overlap(n, q.tags) = Len(q.tags)
    /\ q.exclude # Missing => SessionOf[n] # q.exclude

Search(q) == [n \in Nodes |-> IF Found(n, q) THEN Overlap(n, q.tags) ELSE 0]

(***************************************************************************)
(* recall_by_tags: search, then node by node: is it in the dict, what does  *)
(* it hold there, and what are its tags in the file.  A mutation may come   *)
(* between any two of these; a node that is deleted after the first is      *)
(* answered with a null value (MemoryStore.get of a missing key).           *)
(***************************************************************************)
RecallBegin(t, q) ==
    /\ Begin(t)
    /\ pc' = [pc EXCEPT ![t] = "take"]
    /\ query' = [query EXCEPT ![t] = q]
    /\ hits' = [hits EXCEPT ![t] = Search(q)]
    /\ answer' = [answer EXCEPT ![t] = {}]
    /\ disturbed' = [disturbed EXCEPT ![t] = InFlight]
    /\ UNCHANGED <<storeVars, arg, taken, stale, errors, crashes>>

(* ORDER BY hits DESC, key ASC *)
BeforeByKey(h, n, m) == n < m
Before(h, n, m) == h[n] > h[m] \/ (h[n] = h[m] /\ n < m)
Left(t)  == {n \in Nodes : hits[t][n] > 0}
Best(t)  == {n \in Left(t) : \A m \in Left(t) \ {n} : Before(hits[t], n, m)}
Full(t)  == answer[t] # {} /\ Cardinality(answer[t]) >= query[t].limit

Take(t) ==
    /\ pc[t] = "take" /\ ~Full(t)
    /\ \E n \in Best(t) :
          /\ hits' = [hits EXCEPT ![t][n] = 0]
          /\ IF cache[Home(t)][ValueKey(n)] = Missing
             THEN UNCHANGED <<taken, pc>>
             ELSE /\ taken' = [taken EXCEPT ![t] = <<n, Missing>>]
                  /\ pc' = [pc EXCEPT ![t] = "get"]
    /\ UNCHANGED <<storeVars, arg, query, answer, stale, disturbed, ops, errors, crashes>>

Get(t) ==
    /\ pc[t] = "get"
    /\ taken' = [taken EXCEPT ![t] = <<taken[t][1], cache[Home(t)][ValueKey(taken[t][1])]>>]
    /\ pc' = [pc EXCEPT ![t] = "tags"]
    /\ UNCHANGED <<storeVars, arg, query, hits, answer, stale, disturbed, ops, errors, crashes>>

AddTags(t) ==
    /\ pc[t] = "tags"
    /\ answer' = [answer EXCEPT ![t] = @ \cup
                     {[node |-> taken[t][1], value |-> taken[t][2],
                       tags |-> index[taken[t][1]]]}]
    /\ taken' = [taken EXCEPT ![t] = Nobody]
    /\ pc' = [pc EXCEPT ![t] = "take"]
    /\ UNCHANGED <<storeVars, arg, query, hits, stale, disturbed, ops, errors, crashes>>

Answered(t) == pc[t] = "take" /\ (Left(t) = {} \/ Full(t))
RecallEnd(t) ==
    /\ Answered(t)
    /\ pc' = [pc EXCEPT ![t] = "idle"]
    /\ query' = [query EXCEPT ![t] = NoArg]
    /\ hits' = [hits EXCEPT ![t] = NoHits]
    /\ answer' = [answer EXCEPT ![t] = {}]
    /\ disturbed' = [disturbed EXCEPT ![t] = {}]
    /\ UNCHANGED <<storeVars, arg, taken, stale, ops, errors, crashes>>

(* A process ends or dies; what it had not committed is gone. *)
Crash(p) ==
    /\ p \in open
    /\ crashes < MaxCrashes
    /\ crashes' = crashes + 1
    /\ open' = open \ {p}
    /\ cache' = [cache EXCEPT ![p] = [k \in Keys |-> Missing]]
    /\ stale' = [stale EXCEPT ![p] = {}]
    /\ LET Of(f, none) == [t \in Threads |-> IF Home(t) = p THEN none ELSE f[t]] IN
       /\ pc' = Of(pc, "idle") /\ arg' = Of(arg, NoArg) /\ query' = Of(query, NoArg)
       /\ hits' = Of(hits, NoHits) /\ taken' = Of(taken, Nobody)
       /\ answer' = Of(answer, {}) /\ disturbed' = Of(disturbed, {})
    /\ UNCHANGED <<rows, index, ops, errors>>

Mutate(t) ==
    \/ \E k \in Keys : \E c \in ContentsOf(k) \ {Missing} : PutCache(t, k, c)
    \/ \E k \in Keys : DeleteCache(t, k)
    \/ \E s \in Snapshots : SnapshotCache(t, s)
    \/ PutCommit(t) \/ DeleteCommit(t) \/ SnapshotCommit(t) \/ MutationFails(t)

Recall(t) ==
    \/ \E q \in Queries : RecallBegin(t, q)
    \/ Take(t) \/ Get(t) \/ AddTags(t) \/ RecallEnd(t)

Next ==
    \/ \E t \in Threads : Mutate(t) \/ Recall(t)
    \/ \E p \in Processes : Open(p) \/ Crash(p)

Spec == Init /\ [][Next]_vars

(***************************************************************************)
(* Properties.                                                              *)
(***************************************************************************)
TypeOK ==
    /\ open \subseteq Processes
    /\ \A p \in Processes, k \in Keys : cache[p][k] \in ContentsOf(k)
    /\ \A k \in Keys : rows[k] \in ContentsOf(k)
    /\ index \in [Nodes -> SUBSET Tags]
    /\ pc \in [Threads -> {"idle", "put", "delete", "snapshot", "take", "get", "tags"}]
    /\ \A t \in Threads :
          /\ pc[t] \in {"put", "delete"} =>
                arg[t][1] \in Keys /\ arg[t][2] \in ContentsOf(arg[t][1])
          /\ Recalling(t) => query[t] \in Queries
          /\ pc[t] \in {"get", "tags"} => taken[t] \in Nodes \X (Values \cup {Missing})
    /\ hits \in [Threads -> [Nodes -> Nat]]
    /\ answer \in [Threads -> SUBSET [node : Nodes, value : Values \cup {Missing},
                                     tags : SUBSET Tags]]
    /\ stale \in [Processes -> SUBSET Nodes]
    /\ disturbed \in [Threads -> SUBSET Nodes]
    /\ ops \in Nat /\ errors \in Nat /\ crashes \in Nat

(* The index never knows a node by other tags than the stored ones          *)
(* (memory.py:17-21), whichever process writes, deletes or dies, at any     *)
(* moment: the row and its index entries change together.                   *)
IndexIsStored ==
    \A n \in Nodes : index[n] # {} => index[n] = rows[TagKey(n)]

(* "The SQLite file is a write-through mirror" (memory.py:25-26): what the  *)
(* next process would load is what this one answers, of every node that no  *)
(* mutation is about just now, provided that none was refused and no two of *)
(* them overlapped (put changes the dict before it takes the lock).         *)
Mirror ==
    \A p \in open : \A k \in Keys :
        k[2] \notin stale[p] \cup InFlight => cache[p][k] = rows[k]

(* Cross-session recall (memory.py:10-11, :248-249): a node that carries    *)
(* the tags and holds a value is recalled, unless the limit was reached,    *)
(* also when another process published it before this one opened the store. *)
Settled(t) == Nodes \ (stale[Home(t)] \cup disturbed[t])
RecalledBy(t) == {e.node : e \in answer[t]}
RecallFindsSettled ==
    \A t \in Threads : Answered(t) =>
        \A n \in Settled(t) :
            Found(n, query[t]) /\ rows[ValueKey(n)] # Missing =>
                n \in RecalledBy(t) \/ Full(t)

(* Best match first (memory.py:248): when the limit cuts the answer, what   *)
(* it leaves out does not come before what it has.                          *)
RecallIsBest ==
    \A t \in Threads : Answered(t) =>
        \A e \in answer[t], n \in Settled(t) \ RecalledBy(t) :
            /\ Found(n, query[t]) /\ rows[ValueKey(n)] # Missing
            /\ e.node \in Settled(t)
            => LET s == Search(query[t]) IN
               s[e.node] >= s[n] /\ (s[e.node] = s[n] => e.node < n)

(* What is recalled under a requirement carries all the required tags and   *)
(* the stored value (memory.py:198-201): an unfinished draft is not prior   *)
(* research.                                                                *)
RecallIsRequired ==
    \A t \in Threads : \A e \in answer[t] : e.node \in Settled(t) =>
        /\ Range(query[t].require) \subseteq e.tags
        /\ e.value = rows[ValueKey(e.node)]
=============================================================================

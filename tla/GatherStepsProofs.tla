-------------------------- MODULE GatherStepsProofs --------------------------
(***************************************************************************)
(* Theorems about GatherSteps, for all runs, domains, pages and backends.   *)
(***************************************************************************)
EXTENDS GatherSteps, TLAPS

(* The text that a node of memory holds is determined by its key.           *)
TextOf(k) == IF k \in Urls THEN "" ELSE k

(* What a gather step may remember. *)
Keyed == {d \in Docs : d.key \in Keys /\ d.text = TextOf(d.key)}

(***************************************************************************)
(* The inductive invariant.                                                 *)
(***************************************************************************)
WriterInv(w) ==
    /\ pc[w] \in {"put", "tag"} => doc[w] \in Keyed
    /\ pc[w] = "done" /\ doc[w] # Nil => doc[w] \in Keyed
    /\ pc[w] = "tag" \/ (pc[w] = "done" /\ doc[w] # Nil) => doc[w] \in put[w]
    /\ pc[w] = "done" /\ doc[w] # Nil => tags[doc[w].key] \in Putters(doc[w].key)
    /\ put[w] \subseteq Keyed
    /\ provider = "offline" => top[w] \in Urls \cup {"none"}

(* A node holds a document that was put under its key, the first one and    *)
(* whichever came later.                                                    *)
NodeInv(k) ==
    \/ Putters(k) = {} /\ nodes[k] = Nil
    \/ \E v \in Writers : nodes[k] \in put[v] /\ nodes[k].key = k

GatherInv ==
    /\ TypeOK
    /\ \A w \in Writers : WriterInv(w)
    /\ \A k \in Keys : NodeInv(k)

LEMMA GatherInit == Init => GatherInv
<1> SUFFICES ASSUME Init PROVE GatherInv
  OBVIOUS
<1>1. TypeOK
  <2>1. Nil \in Docs
    BY DEF Docs
  <2>2. provider \in Providers /\ analysed \subseteq Runs /\ up \in BOOLEAN /\ crashes \in Nat
    BY DEF Init
  <2>3. /\ pc \in [Writers -> {"pending", "fetch", "put", "tag", "done"}]
        /\ top \in [Writers -> Urls \cup {"", "none"}]
        /\ doc \in [Writers -> Docs] /\ nodes \in [Keys -> Docs]
        /\ put \in [Writers -> SUBSET Docs]
    BY <2>1 DEF Init
  <2>4. tags \in [Keys -> Writers \cup {<<>>}]
    BY DEF Init
  <2>. QED  BY <2>2, <2>3, <2>4 DEF TypeOK
<1>2. ASSUME NEW w \in Writers PROVE WriterInv(w)
  BY DEF Init, WriterInv
<1>3. ASSUME NEW k \in Keys PROVE NodeInv(k)
  BY DEF Init, NodeInv, Putters
<1>. QED  BY <1>1, <1>2, <1>3 DEF GatherInv

(***************************************************************************)
(* What searching and fetching return.                                      *)
(***************************************************************************)
LEMMA AnswersAre ==
  ASSUME provider \in Providers
  PROVE  /\ Answers \subseteq Urls \cup {"", "none", "error"}
         /\ provider = "offline" => Answers = Urls
<1>1. CASE provider = "tavily"
  BY <1>1 DEF Answers, SearchTavily
<1>2. CASE provider = "brave"
  BY <1>2 DEF Answers, SearchBrave
<1>3. CASE provider = "wikipedia"
  BY <1>3 DEF Answers, SearchWikipedia
<1>4. CASE provider = "offline"
  BY <1>4 DEF Answers, SearchOffline
<1>. QED  BY <1>1, <1>2, <1>3, <1>4, BackendAssumption

LEMMA DocumentsAreKeyed ==
  ASSUME NEW text \in Texts,
         NEW title \in Urls \cup Titles \cup {"", "Offline document"}
  PROVE  Document(text, title) \in Keyed
<1>1. text \in Keys /\ text \notin Urls
  BY HashAssumption DEF Keys
<1>. QED  BY <1>1 DEF Document, Keyed, Docs, TextOf

LEMMA HttpFetchedAreKeyed ==
  ASSUME NEW url \in Urls
  PROVE  HttpFetch(url) \subseteq Keyed
<1> SUFFICES ASSUME NEW d \in HttpFetch(url) PROVE d \in Keyed
  OBVIOUS
<1>1. PICK text \in Texts, title \in PageTitles : d = Document(Cut[text], Called(title, url))
  BY DEF HttpFetch
<1>2. Cut[text] \in Texts
  BY CutAssumption
<1>3. Called(title, url) \in Urls \cup Titles
  BY <1>1 DEF Called, PageTitles
<1>. QED  BY <1>1, <1>2, <1>3, DocumentsAreKeyed

LEMMA FetchedAreKeyed ==
  ASSUME NEW url \in Urls \cup {""}, provider = "offline" => url \in Urls
  PROVE  Fetched(url) \subseteq Keyed
<1>1. CASE provider = "offline"
  BY <1>1, OfflineAssumption, DocumentsAreKeyed DEF Fetched, OfflineFetch
<1>2. CASE provider # "offline"
  <2>1. Failed(url) \in Keyed
    BY HashAssumption DEF Failed, Keyed, Docs, TextOf, Keys
  <2>2. url \in Urls => HttpFetch(url) \subseteq Keyed
    BY HttpFetchedAreKeyed
  <2>. QED  BY <1>2, <2>1, <2>2 DEF Fetched
<1>. QED  BY <1>1, <1>2

(***************************************************************************)
(* The steps.                                                               *)
(***************************************************************************)
(* A step that puts and tags nothing disturbs only the writer it is of.     *)
LEMMA QuietStep ==
  ASSUME GatherInv, NEW w \in Writers, NEW place,
         Goto(w, place), TypeOK', WriterInv(w)',
         UNCHANGED <<provider, nodes, tags, put>>,
         top' = [top EXCEPT ![w] = top'[w]], doc' = [doc EXCEPT ![w] = doc'[w]]
  PROVE  GatherInv'
<1>1. ASSUME NEW v \in Writers PROVE WriterInv(v)'
  <2>1. CASE v # w
    <3>1. pc'[v] = pc[v] /\ top'[v] = top[v] /\ doc'[v] = doc[v]
      BY <2>1 DEF GatherInv, TypeOK, Goto
    <3>. QED  BY <3>1 DEF GatherInv, WriterInv, Putters
  <2>. QED  BY <2>1
<1>2. ASSUME NEW k \in Keys PROVE NodeInv(k)'
  BY DEF GatherInv, NodeInv, Putters
<1>. QED  BY <1>1, <1>2 DEF GatherInv

LEMMA SearchKeeps ==
  ASSUME GatherInv, NEW w \in Writers, Search(w)
  PROVE  GatherInv'
<1>1. PICK u \in Answers : top' = [top EXCEPT ![w] = IF u = "error" THEN "none" ELSE u]
  BY DEF Search
<1>2. (IF u = "error" THEN "none" ELSE u) \in Urls \cup {"", "none"}
      /\ (provider = "offline" => (IF u = "error" THEN "none" ELSE u) \in Urls \cup {"none"})
  BY <1>1, AnswersAre DEF GatherInv, TypeOK
<1>3. TypeOK'
  BY <1>1, <1>2 DEF GatherInv, TypeOK, Search, Goto
<1>4. WriterInv(w)'
  <2>1. pc'[w] = "fetch" /\ (provider = "offline" => top'[w] \in Urls \cup {"none"})
    BY <1>1, <1>2 DEF GatherInv, TypeOK, Search, Goto
  <2>. QED  BY <2>1 DEF GatherInv, WriterInv, Search
<1>5. top' = [top EXCEPT ![w] = top'[w]] /\ doc' = [doc EXCEPT ![w] = doc'[w]]
  BY <1>1 DEF GatherInv, TypeOK, Search
<1>. QED  BY <1>3, <1>4, <1>5, QuietStep DEF Search

LEMMA FetchKeeps ==
  ASSUME GatherInv, NEW w \in Writers, FetchTop(w)
  PROVE  GatherInv'
<1>0. TypeOK /\ WriterInv(w)
  BY DEF GatherInv
<1>1. top' = [top EXCEPT ![w] = "none"] /\ UNCHANGED <<provider, nodes, tags, put>>
  BY DEF FetchTop
<1>2. CASE top[w] = "none"
  <2>1. doc' = [doc EXCEPT ![w] = Nil] /\ Goto(w, "done")
    BY <1>2 DEF FetchTop
  <2>2. Nil \in Docs
    BY DEF Docs
  <2>3. TypeOK'
    BY <1>0, <2>1, <2>2 DEF TypeOK, FetchTop, Goto
  <2>4. WriterInv(w)'
    BY <1>0, <1>1, <2>1 DEF TypeOK, WriterInv, Goto
  <2>5. top' = [top EXCEPT ![w] = top'[w]] /\ doc' = [doc EXCEPT ![w] = doc'[w]]
    BY <1>0, <1>1, <2>1 DEF TypeOK
  <2>. QED  BY <1>1, <2>1, <2>3, <2>4, <2>5, QuietStep
<1>3. CASE top[w] # "none"
  <2>1. PICK d \in Fetched(top[w]) : doc' = [doc EXCEPT ![w] = d]
    BY <1>3 DEF FetchTop
  <2>2. Goto(w, "put")
    BY <1>3 DEF FetchTop
  <2>3. d \in Keyed
    BY <1>0, <1>3, <2>1, FetchedAreKeyed DEF TypeOK, WriterInv
  <2>4. TypeOK'
    BY <1>0, <2>1, <2>2, <2>3 DEF TypeOK, FetchTop, Goto, Keyed
  <2>5. pc'[w] = "put" /\ doc'[w] = d /\ top'[w] = "none"
    BY <1>0, <1>1, <2>1, <2>2 DEF TypeOK, Goto
  <2>6. WriterInv(w)'
    BY <1>0, <1>1, <2>3, <2>5 DEF WriterInv
  <2>7. top' = [top EXCEPT ![w] = top'[w]] /\ doc' = [doc EXCEPT ![w] = doc'[w]]
    BY <1>0, <1>1, <2>1 DEF TypeOK
  <2>. QED  BY <1>1, <2>2, <2>4, <2>6, <2>7, QuietStep
<1>. QED  BY <1>2, <1>3

LEMMA MetaKeeps ==
  ASSUME GatherInv, NEW w \in Writers, Meta(w)
  PROVE  GatherInv'
<1>0. TypeOK /\ WriterInv(w)
  BY DEF GatherInv
<1> DEFINE d == [key |-> "meta", text |-> "meta", title |-> w[1]]
<1>1. doc' = [doc EXCEPT ![w] = d] /\ Goto(w, "put")
      /\ UNCHANGED <<provider, top, nodes, tags, put>>
  BY DEF Meta
<1>2. d \in Keyed
  BY HashAssumption DEF Keyed, Docs, Keys, TextOf, Writers
<1> HIDE DEF d
<1>3. TypeOK'
  <2>1. doc' \in [Writers -> Docs]
    BY <1>0, <1>1, <1>2 DEF TypeOK, Keyed
  <2>2. pc' \in [Writers -> {"pending", "fetch", "put", "tag", "done"}]
    BY <1>0, <1>1 DEF TypeOK, Goto
  <2>3. UNCHANGED <<provider, top, nodes, tags, analysed, up, put, crashes>>
    BY DEF Meta
  <2>. QED  BY <1>0, <2>1, <2>2, <2>3 DEF TypeOK
<1>4. pc'[w] = "put" /\ doc'[w] = d /\ top' = [top EXCEPT ![w] = top'[w]]
      /\ doc' = [doc EXCEPT ![w] = doc'[w]]
  BY <1>0, <1>1 DEF TypeOK, Goto
<1>5. WriterInv(w)'
  BY <1>0, <1>1, <1>2, <1>4 DEF WriterInv
<1>. QED  BY <1>1, <1>3, <1>4, <1>5, QuietStep

(* mem.put: a document joins those that were put, and is what its node      *)
(* holds.                                                                   *)
LEMMA PutKeeps ==
  ASSUME GatherInv, NEW w \in Writers, Put(w)
  PROVE  GatherInv'
<1>0. TypeOK /\ doc[w] \in Keyed /\ doc[w].key \in Keys
  BY DEF GatherInv, WriterInv, Put, Keyed
<1>1. /\ nodes' = [nodes EXCEPT ![doc[w].key] = doc[w]]
      /\ put' = [put EXCEPT ![w] = put[w] \cup {doc[w]}]
      /\ pc' = [pc EXCEPT ![w] = "tag"]
      /\ UNCHANGED <<provider, top, doc, tags>>
  BY DEF Put, Goto
<1>2. TypeOK'
  <2>1. doc[w] \in Docs
    BY <1>0 DEF Keyed
  <2>2. nodes' \in [Keys -> Docs]
    BY <1>0, <1>1, <2>1 DEF TypeOK
  <2>3. put' \in [Writers -> SUBSET Docs]
    BY <1>0, <1>1, <2>1 DEF TypeOK
  <2>4. pc' \in [Writers -> {"pending", "fetch", "put", "tag", "done"}]
    BY <1>0, <1>1 DEF TypeOK
  <2>. QED  BY <1>0, <1>1, <2>2, <2>3, <2>4 DEF TypeOK, Put
<1>3. doc[w] \in put'[w] /\ \A v \in Writers : put[v] \subseteq put'[v]
  BY <1>0, <1>1 DEF TypeOK
<1>4. \A k : Putters(k) \subseteq Putters(k)'
  BY <1>3 DEF Putters
<1>5. ASSUME NEW v \in Writers PROVE WriterInv(v)'
  <2>1. put'[v] \subseteq Keyed
    BY <1>0, <1>1 DEF TypeOK, GatherInv, WriterInv
  <2>2. CASE v = w
    <3>1. pc'[v] = "tag"
      BY <1>0, <1>1, <2>2 DEF TypeOK
    <3>. QED  BY <1>0, <1>1, <1>3, <2>1, <2>2, <3>1 DEF GatherInv, WriterInv
  <2>3. CASE v # w
    <3>1. pc'[v] = pc[v]
      BY <1>0, <1>1, <2>3 DEF TypeOK
    <3>2. WriterInv(v)
      BY DEF GatherInv
    <3>. QED  BY <1>1, <1>3, <1>4, <2>1, <3>1, <3>2 DEF WriterInv
  <2>. QED  BY <2>2, <2>3
<1>6. ASSUME NEW k \in Keys PROVE NodeInv(k)'
  <2>1. CASE k = doc[w].key
    BY <1>0, <1>1, <1>3, <2>1 DEF TypeOK, NodeInv
  <2>2. CASE k # doc[w].key
    <3>1. nodes'[k] = nodes[k]
      BY <1>0, <1>1, <2>2 DEF TypeOK
    <3>2. Putters(k)' = Putters(k)
      BY <1>0, <1>1, <2>2 DEF TypeOK, Putters
    <3>. QED  BY <1>3, <3>1, <3>2 DEF GatherInv, NodeInv
  <2>. QED  BY <2>1, <2>2
<1>. QED  BY <1>2, <1>5, <1>6 DEF GatherInv

LEMMA TagKeeps ==
  ASSUME GatherInv, NEW w \in Writers, Tag(w)
  PROVE  GatherInv'
<1>0. TypeOK /\ WriterInv(w) /\ doc[w] \in put[w] /\ doc[w].key \in Keys
  BY DEF GatherInv, WriterInv, Tag, Keyed
<1>1. /\ tags' = [tags EXCEPT ![doc[w].key] = w]
      /\ pc' = [pc EXCEPT ![w] = "done"]
      /\ UNCHANGED <<provider, top, doc, nodes, put>>
  BY DEF Tag, Goto
<1>2. TypeOK'
  <2>1. tags' \in [Keys -> Writers \cup {<<>>}]
    BY <1>0, <1>1 DEF TypeOK
  <2>2. pc' \in [Writers -> {"pending", "fetch", "put", "tag", "done"}]
    BY <1>0, <1>1 DEF TypeOK
  <2>. QED  BY <1>0, <1>1, <2>1, <2>2 DEF TypeOK, Tag
<1>3. w \in Putters(doc[w].key) /\ \A k : Putters(k)' = Putters(k)
  BY <1>0, <1>1 DEF Putters
<1>4. ASSUME NEW v \in Writers PROVE WriterInv(v)'
  <2>0. WriterInv(v)
    BY DEF GatherInv
  <2>1. CASE v = w
    BY <1>0, <1>1, <1>3, <2>1 DEF TypeOK, WriterInv, Tag
  <2>2. CASE v # w
    <3>1. pc'[v] = pc[v]
      BY <1>0, <1>1, <2>2 DEF TypeOK
    <3>2. pc[v] = "done" /\ doc[v] # Nil => tags'[doc[v].key] \in Putters(doc[v].key)
      BY <1>0, <1>1, <1>3, <2>0 DEF TypeOK, WriterInv, Keyed
    <3>. QED  BY <1>1, <1>3, <2>0, <3>1, <3>2 DEF WriterInv
  <2>. QED  BY <2>1, <2>2
<1>5. ASSUME NEW k \in Keys PROVE NodeInv(k)'
  BY <1>1, <1>3 DEF GatherInv, NodeInv
<1>. QED  BY <1>2, <1>4, <1>5 DEF GatherInv

LEMMA GatherStep == GatherInv /\ [Next]_vars => GatherInv'
<1> SUFFICES ASSUME GatherInv, [Next]_vars PROVE GatherInv'
  OBVIOUS
<1>1. ASSUME NEW r \in Runs, NEW s \in Steps,
             LET w == <<r, s>> IN Meta(w) \/ Search(w) \/ FetchTop(w) \/ Put(w) \/ Tag(w)
      PROVE  GatherInv'
  <2>1. <<r, s>> \in Writers
    BY DEF Writers
  <2>. QED  BY <1>1, <2>1, MetaKeeps, SearchKeeps, FetchKeeps, PutKeeps, TagKeeps
<1>2. CASE (\E r \in Runs : Analyze(r)) \/ Resume \/ UNCHANGED vars
  <2>1. UNCHANGED <<provider, pc, top, doc, nodes, tags, put, crashes>>
    BY <1>2 DEF Analyze, Resume, vars
  <2>2. analysed' \subseteq Runs
    BY <1>2 DEF GatherInv, TypeOK, Analyze, Resume, vars
  <2>3. up' \in BOOLEAN
    BY <1>2 DEF GatherInv, TypeOK, Analyze, Resume, vars
  <2>4. TypeOK'
    BY <2>1, <2>2, <2>3 DEF GatherInv, TypeOK
  <2>. QED  BY <2>1, <2>4 DEF GatherInv, WriterInv, NodeInv, Putters
<1>3. CASE Crash
  <2>0. /\ pc' = [w \in Writers |-> IF pc[w] = "done" THEN "done" ELSE "pending"]
        /\ doc' = [w \in Writers |-> IF pc[w] = "done" THEN doc[w] ELSE Nil]
        /\ top' = [w \in Writers |-> "none"]
        /\ UNCHANGED <<provider, nodes, tags, put>>
    BY <1>3 DEF Crash
  <2>1. TypeOK'
    <3>1. Nil \in Docs
      BY DEF Docs
    <3>2. pc' \in [Writers -> {"pending", "fetch", "put", "tag", "done"}]
          /\ doc' \in [Writers -> Docs] /\ top' \in [Writers -> Urls \cup {"", "none"}]
      <4>1. pc \in [Writers -> {"pending", "fetch", "put", "tag", "done"}]
            /\ doc \in [Writers -> Docs]
        BY DEF GatherInv, TypeOK
      <4>2. pc' \in [Writers -> {"pending", "fetch", "put", "tag", "done"}]
        BY <2>0
      <4>3. doc' \in [Writers -> Docs]
        BY <2>0, <3>1, <4>1
      <4>4. top' \in [Writers -> Urls \cup {"", "none"}]
        BY <2>0
      <4>. QED  BY <4>2, <4>3, <4>4
    <3>3. up' \in BOOLEAN /\ analysed' = analysed
      BY <1>3 DEF Crash
    <3>4. crashes' \in Nat
      <4>1. crashes \in Nat
        BY DEF GatherInv, TypeOK
      <4>2. crashes' = crashes + 1
        BY <1>3 DEF Crash
      <4>. QED  BY <4>1, <4>2
    <3>. QED  BY <2>0, <3>2, <3>3, <3>4 DEF GatherInv, TypeOK
  <2>2. ASSUME NEW w \in Writers PROVE WriterInv(w)'
    BY <2>0 DEF GatherInv, WriterInv, Putters
  <2>3. ASSUME NEW k \in Keys PROVE NodeInv(k)'
    BY <2>0 DEF GatherInv, NodeInv, Putters
  <2>. QED  BY <2>1, <2>2, <2>3 DEF GatherInv
<1>. QED  BY <1>1, <1>2, <1>3 DEF Next, Advance

LEMMA GatherInvariance == Spec => []GatherInv
BY GatherInit, GatherStep, PTL DEF Spec

(* Steps, documents and memory keep their types.                            *)
THEOREM GatherTyping == Spec => []TypeOK
<1>1. GatherInv => TypeOK
  BY DEF GatherInv
<1>. QED  BY <1>1, GatherInvariance, PTL

LEMMA NodeText ==
  ASSUME GatherInv, NEW k \in Keys, nodes[k] # Nil
  PROVE  nodes[k].text = TextOf(k)
BY DEF GatherInv, NodeInv, WriterInv, Keyed

(* What a finished gather step found is in memory with the text that went   *)
(* into the analysis, tagged by a step that found it, and with the step's   *)
(* own title and tags if nobody else put it: for any number of runs and     *)
(* domains, whatever the web answers and however often the process dies.    *)
THEOREM GatheringIsKept == Spec => []GatheredIsStored
<1>1. GatherInv => GatheredIsStored
  <2> SUFFICES ASSUME GatherInv, NEW w \in Writers, pc[w] = "done", doc[w] # Nil
               PROVE  LET k == doc[w].key IN
                      /\ nodes[k].text = doc[w].text
                      /\ tags[k] \in Putters(k)
                      /\ Putters(k) = {w} /\ put[w] = {doc[w]}
                            => nodes[k] = doc[w] /\ tags[k] = w
    BY DEF GatheredIsStored
  <2> DEFINE k == doc[w].key
  <2>1. WriterInv(w) /\ doc[w] \in Keyed /\ doc[w] \in put[w] /\ tags[k] \in Putters(k)
    BY DEF GatherInv, WriterInv
  <2>2. k \in Keys /\ doc[w].text = TextOf(k) /\ w \in Putters(k)
    BY <2>1 DEF Keyed, Putters
  <2>3. PICK v \in Writers : nodes[k] \in put[v] /\ nodes[k].key = k
    BY <2>2 DEF GatherInv, NodeInv
  <2>4. v \in Putters(k) /\ nodes[k] \in Keyed
    BY <2>3 DEF Putters, GatherInv, WriterInv
  <2>5. nodes[k].text = doc[w].text
    BY <2>2, <2>3, <2>4 DEF Keyed
  <2>6. Putters(k) = {w} /\ put[w] = {doc[w]} => nodes[k] = doc[w] /\ tags[k] = w
    BY <2>1, <2>3, <2>4
  <2>. QED  BY <2>1, <2>5, <2>6
<1>. QED  BY <1>1, GatherInvariance, PTL

(* A stored text is never replaced by another, nor by that of a failed page. *)
THEOREM StoredTextStays == Spec => TextStays
<1>1. GatherInv /\ GatherInv' /\ [Next]_vars =>
         [\A k \in Keys : nodes[k] # Nil => nodes'[k].text = nodes[k].text]_vars
  <2> SUFFICES ASSUME GatherInv, GatherInv', [Next]_vars, NEW k \in Keys, nodes[k] # Nil
               PROVE  nodes'[k].text = nodes[k].text
    OBVIOUS
  <2>1. PICK v \in Writers : nodes'[k] \in put'[v] /\ nodes'[k].key = k
    <3>1. \E v \in Writers : nodes[k] \in put[v] /\ nodes[k].key = k
      BY DEF GatherInv, NodeInv
    <3>2. Putters(k) # {}
      BY <3>1 DEF Putters
    <3>3. \A u \in Writers : put[u] \subseteq put'[u]
      <4>1. ASSUME NEW w \in Writers, Put(w) PROVE \A u \in Writers : put[u] \subseteq put'[u]
        BY <4>1 DEF Put, GatherInv, TypeOK
      <4>2. (\E w \in Writers : Put(w)) \/ put' = put
        BY DEF Next, Advance, Meta, Search, FetchTop, Tag, Analyze, Crash, Resume, vars, Writers
      <4>. QED  BY <4>1, <4>2
    <3>4. Putters(k)' # {}
      BY <3>2, <3>3 DEF Putters
    <3>. QED  BY <3>4 DEF GatherInv, NodeInv
  <2>2. nodes'[k].text = TextOf(k)
    BY <2>1 DEF GatherInv, WriterInv, Keyed
  <2>. QED  BY <2>2, NodeText
<1>. QED  BY <1>1, GatherInvariance, PTL DEF Spec, TextStays
=============================================================================

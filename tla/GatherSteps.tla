----------------------------- MODULE GatherSteps -----------------------------
(***************************************************************************)
(* The steps of the workflow before the draft (workflows/research_task.nd:  *)
(* 8-26,54-69,79-119) with the tools they call (src/runtime.py:431-468) and *)
(* the web backends (src/web.py:130-307): every gather step searches,       *)
(* fetches the first hit and remembers it under the hash of its content, in *)
(* memory that all steps of all runs of a session share; a web that answers *)
(* as it likes, and a process that dies at any point.                       *)
(*                                                                          *)
(* A text stands for its sha256.  A definition without a comment right      *)
(* before the one it alters is a plausible bug, used only to check that a   *)
(* property can fail.                                                       *)
(***************************************************************************)
EXTENDS Naturals

CONSTANTS Runs,       \* runs started for one session, each with its question
          Domains,    \* web, code, data
          Urls,
          Titles,     \* contents of <title>
          Texts,      \* texts that pages are reduced to
          Cut,        \* [Texts -> Texts] the first max_chars characters
          OfflineText,\* [Urls -> Texts] the offline backend's document
          Providers,  \* the backends that the instance is about
          MaxCrashes  \* bound: deaths of the process

ASSUME CutAssumption == \A t \in Texts : Cut[t] \in Texts /\ Cut[Cut[t]] = Cut[t]
ASSUME OfflineAssumption == \A u \in Urls : OfflineText[u] \in Texts
(* sha256 does not collide: no page consists of nothing but some url. *)
ASSUME HashAssumption == Urls \cap Texts = {} /\ "" \notin Urls /\ "meta" \notin Urls \cup Texts
ASSUME BackendAssumption == Providers \subseteq {"tavily", "brave", "wikipedia", "offline"}
ASSUME CrashAssumption == MaxCrashes \in Nat

Steps   == {"init"} \cup Domains
Writers == Runs \X Steps
Keys    == {"meta", ""} \cup Urls \cup Texts

VARIABLES provider, \* the backend, chosen when the runtime was built
          pc,       \* [Writers -> ...] pending, fetch, put, tag, done
          top,      \* [Writers -> ...] url of the first hit, or "none"
          doc,      \* [Writers -> ...] what the step remembers, or Nil
          nodes,    \* [Keys -> ...] values of the session's memory nodes
          tags,     \* [Keys -> ...] the writer whose question and domain tag it
          analysed, \* runs whose findings went into the analysis
          up,       \* a process executes the runs
          put,      \* history: the documents that a writer has put, ever
          crashes

vars == <<provider, pc, top, doc, nodes, tags, analysed, up, put, crashes>>

Nil == [key |-> "none", text |-> "none", title |-> "none"]

Init ==
    /\ provider \in Providers
    /\ pc = [w \in Writers |-> "pending"]
    /\ top = [w \in Writers |-> "none"]
    /\ doc = [w \in Writers |-> Nil]
    /\ nodes = [k \in Keys |-> Nil]
    /\ tags = [k \in Keys |-> <<>>]
    /\ analysed = {}
    /\ up = TRUE
    /\ put = [w \in Writers |-> {}]
    /\ crashes = 0

(***************************************************************************)
(* Searching.  Of a list of results only the first one's url is ever used;  *)
(* "none" is an empty list.  "" is a result without a url.                  *)
(***************************************************************************)
SearchTavily    == Urls \cup {"", "none", "error"}
SearchBrave     == Urls \cup {"", "none", "error"}
SearchWikipedia == Urls \cup {"none", "error"}
SearchOffline   == Urls

Answers ==
    CASE provider = "tavily"    -> SearchTavily
      [] provider = "brave"     -> SearchBrave
      [] provider = "wikipedia" -> SearchWikipedia
      [] provider = "offline"   -> SearchOffline

Goto(w, place) == pc' = [pc EXCEPT ![w] = place]

(* A step of which the engine finds the dependencies finished. *)
Ready(w) ==
    /\ up /\ pc[w] = "pending"
    /\ w[2] # "init" => pc[<<w[1], "init">>] = "done"

(* research.web_search fails open: an error is an empty list. *)
SearchRaising(w) ==
    /\ Ready(w) /\ w[2] \in Domains
    /\ \E u \in Answers :
          /\ top' = [top EXCEPT ![w] = u]
          /\ Goto(w, IF u = "error" THEN "failed" ELSE "fetch")
    /\ UNCHANGED <<provider, doc, nodes, tags, analysed, up, put, crashes>>
Search(w) ==
    /\ Ready(w) /\ w[2] \in Domains
    /\ \E u \in Answers : top' = [top EXCEPT ![w] = IF u = "error" THEN "none" ELSE u]
    /\ Goto(w, "fetch")
    /\ UNCHANGED <<provider, doc, nodes, tags, analysed, up, put, crashes>>

(***************************************************************************)
(* Fetching.  The key is the hash of the text that is returned.             *)
(***************************************************************************)
Document(text, title) == [key |-> text, text |-> text, title |-> title]

(* An HTML page has a title, perhaps; other content has none. *)
PageTitles == Titles \cup {""}
Called(title, url) == IF title = "" THEN url ELSE title
HttpFetchByUrl(url) ==
    {[Document(Cut[text], Called(title, url)) EXCEPT !.key = url] :
        text \in Texts, title \in PageTitles}
HttpFetch(url) ==
    {Document(Cut[text], Called(title, url)) :
        text \in Texts, title \in PageTitles}
OfflineFetch(url) == {Document(OfflineText[url], "Offline document")}

(* research.fetch_doc fails open: an empty document under the url's hash.   *)
(* (Urls are strings here; of a null, the hash would raise as well.)        *)
Failed(url) == [key |-> url, text |-> "", title |-> url]

Fetched(url) ==
    IF provider = "offline" THEN OfflineFetch(url)
    ELSE {Failed(url)} \cup IF url = "" THEN {} ELSE HttpFetch(url)

(* fetch_top, and the return of a step that has nothing to remember.        *)
FetchTop(w) ==
    /\ up /\ pc[w] = "fetch"
    /\ IF top[w] = "none"
       THEN doc' = [doc EXCEPT ![w] = Nil] /\ Goto(w, "done")
       ELSE /\ \E d \in Fetched(top[w]) : doc' = [doc EXCEPT ![w] = d]
            /\ Goto(w, "put")
    /\ top' = [top EXCEPT ![w] = "none"]
    /\ UNCHANGED <<provider, nodes, tags, analysed, up, put, crashes>>

(***************************************************************************)
(* Remembering: mem.put, then mem.tag.                                      *)
(***************************************************************************)
(* The step init remembers the question of the run. *)
Meta(w) ==
    /\ Ready(w) /\ w[2] = "init"
    /\ doc' = [doc EXCEPT ![w] = [key |-> "meta", text |-> "meta", title |-> w[1]]]
    /\ Goto(w, "put")
    /\ UNCHANGED <<provider, top, nodes, tags, analysed, up, put, crashes>>

PutOnce(w) ==
    /\ up /\ pc[w] = "put"
    /\ LET k == doc[w].key IN
       IF nodes[k] # Nil THEN Goto(w, "done") /\ UNCHANGED <<nodes, put>>
       ELSE /\ nodes' = [nodes EXCEPT ![k] = doc[w]]
            /\ put' = [put EXCEPT ![w] = @ \cup {doc[w]}]
            /\ Goto(w, "tag")
    /\ UNCHANGED <<provider, top, doc, tags, analysed, up, crashes>>
Put(w) ==
    /\ up /\ pc[w] = "put"
    /\ nodes' = [nodes EXCEPT ![doc[w].key] = doc[w]]
    /\ put' = [put EXCEPT ![w] = @ \cup {doc[w]}]
    /\ Goto(w, "tag")
    /\ UNCHANGED <<provider, top, doc, tags, analysed, up, crashes>>

Tag(w) ==
    /\ up /\ pc[w] = "tag"
    /\ tags' = [tags EXCEPT ![doc[w].key] = w]
    /\ Goto(w, "done")
    /\ UNCHANGED <<provider, top, doc, nodes, analysed, up, put, crashes>>

Analyze(r) ==
    /\ up /\ r \notin analysed
    /\ \A s \in Steps : pc[<<r, s>>] = "done"
    /\ analysed' = analysed \cup {r}
    /\ UNCHANGED <<provider, pc, top, doc, nodes, tags, up, put, crashes>>

(* The process dies; finished steps are persisted, the others start over.   *)
Crash ==
    /\ up /\ crashes < MaxCrashes
    /\ crashes' = crashes + 1
    /\ up' = FALSE
    /\ pc' = [w \in Writers |-> IF pc[w] = "done" THEN "done" ELSE "pending"]
    /\ top' = [w \in Writers |-> "none"]
    /\ doc' = [w \in Writers |-> IF pc[w] = "done" THEN doc[w] ELSE Nil]
    /\ UNCHANGED <<provider, nodes, tags, analysed, put>>

(* Somebody resumes the runs. *)
Resume ==
    /\ ~up /\ up' = TRUE
    /\ UNCHANGED <<provider, pc, top, doc, nodes, tags, analysed, put, crashes>>

Advance(r) ==
    \/ \E s \in Steps : LET w == <<r, s>> IN
          Meta(w) \/ Search(w) \/ FetchTop(w) \/ Put(w) \/ Tag(w)
    \/ Analyze(r)

Next == (\E r \in Runs : Advance(r)) \/ Crash \/ Resume

Spec == Init /\ [][Next]_vars

(* A run goes on by itself while there is a process: requests and SQLite    *)
(* calls return.  Nobody need resume it.                                    *)
FairSpec == Spec /\ \A r \in Runs : WF_vars(Advance(r))

(***************************************************************************)
(* Properties.                                                              *)
(***************************************************************************)
Docs == {Nil} \cup [key : Keys, text : Keys, title : Urls \cup Titles \cup Runs \cup {"", "Offline document"}]

TypeOK ==
    /\ provider \in Providers
    /\ pc \in [Writers -> {"pending", "fetch", "put", "tag", "done"}]
    /\ top \in [Writers -> Urls \cup {"", "none"}]
    /\ doc \in [Writers -> Docs]
    /\ nodes \in [Keys -> Docs]
    /\ tags \in [Keys -> Writers \cup {<<>>}]
    /\ analysed \subseteq Runs
    /\ up \in BOOLEAN
    /\ put \in [Writers -> SUBSET Docs]
    /\ crashes \in Nat

(* What a finished step gathered is in memory: under its key is a value     *)
(* with the very text that went into the analysis, tagged by a step that    *)
(* found it, too; the value and the tags are the step's own unless another  *)
(* one put a document under that key (nd:67: "stored under its content      *)
(* hash, tagged by domain").                                                *)
Putters(k) == {v \in Writers : \E d \in put[v] : d.key = k}
GatheredIsStored ==
    \A w \in Writers : pc[w] = "done" /\ doc[w] # Nil =>
        LET k == doc[w].key IN
        /\ nodes[k].text = doc[w].text
        /\ tags[k] \in Putters(k)
        /\ Putters(k) = {w} /\ put[w] = {doc[w]} => nodes[k] = doc[w] /\ tags[k] = w

(* A page that failed later, for another step or in the retry after a       *)
(* crash, never takes the place of a document that was stored, nor does a   *)
(* page with another text.                                                  *)
TextStays ==
    [][\A k \in Keys : nodes[k] # Nil => nodes'[k].text = nodes[k].text]_vars

(* The gather steps fail open (runtime.py:434-436, 451-452): whatever the   *)
(* web does, a run reaches its analysis, as long as there is a process.     *)
AnalysisReached ==
    \A r \in Runs : (up /\ r \notin analysed) ~> (r \in analysed \/ ~up)
=============================================================================

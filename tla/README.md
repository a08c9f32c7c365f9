# A verification model of the research agent

TLA+ specifications of the research agent in this repository: a fixed workflow
(`workflows/research_task.nd`) that gathers, drafts, waits for a human decision
and publishes, and the Python host around it (`src/`). TLC checks the modules on
small instances; TLAPS proves most of the safety properties for all values of
the constants. `PROJECT.json` lists components, runs, the lines that every
definition models, hazards, findings and theorems.

## 1. Inventory

| Component | State | Operations | Behaviour that is hard |
|---|---|---|---|
| Research workflow (`research_task.nd`) | steps done, resume payload, `draft` state; `output/<session>/final.md`, memory nodes, effect records | nine steps, checkpoint `before_draft`, `workflow_wait`, `publish_once` (`@exactly_once`), `remember` | replays of steps that already ran; a crash between any two effects; payloads of different decisions; steps that share nodes |
| `ResearchRuntime` (`runtime.py`) | one Nodus runtime, registered VMs, `_last_result` | `start`, `resume`, `resume_with_feedback` (two phases), `resume_in_fresh_process`, tool handlers | in-process and rehydrated VM must behave alike; `_last_result` is shared by threads |
| `ApprovalService` + HTTP (`approval_api.py`) | `_runs`, in memory | start, list, get, approve, reject, `/gate/*`; a thread per request | check-then-act without a lock; restart |
| `FileApprovalStore` (`approval_store.py`) | a JSON file per request and result, a lock per store | save, get, resolve, get_result, pending, expire_old | several processes, crash while writing, look-then-unlink |
| `SqliteMemoryStore` (`memory.py`) | `_values` dict per process, two SQLite tables | put, delete, load_snapshot, search, recall | dict and file change in two steps; stale dict of a live process |
| Topic tags (`memory.py`) | none | `topic_tags` | cap and repetitions |
| Code sandbox (`sandbox.py`) | none; a container outlives the call | `run` | two clocks, on the host and in the container; classification of exits |
| Web backends (`web.py`) | an HTTP client, the choice of a provider | search, fetch, `html_to_text` | failures must not stop a run; messy markup |
| Notifiers (`notify.py`) | an HTTP client | four channels | fail soft; lost answers |
| Tool gate, `extensions/*/manifest.json` | policy, approval store | stop or admit a tool call by its effects; `/gate/*` | a refusal inside a step that is retried |
| Nodus engine, effect store (libraries) | run store, effect store | run, resume, roll back; record effects | modelled from use |
| Probes, tests | - | - | read for what they say of the program |

Interactions: the HTTP adapter calls `ApprovalService`, which calls
`ResearchRuntime`, which starts or resumes a run of the engine; the engine
executes the workflow, whose steps call tools back through the runtime and its
gate (search, fetch, write file, notify, synthesize, recall) and `std:memory`,
that is `SqliteMemoryStore`. Runs share memory, output directory and effect
store; two processes share these and the run store through the file system.

What makes each part correct: nothing leaves the system without an approval of
that very draft, and a notification is repeated only after a crash; a rejection
is silent, and its feedback reaches the next draft; what a run says it published
is recorded and found by related sessions; what was gathered is stored as it
went into the analysis; the index the reviewers see agrees with the engine; a
recorded decision is whole and stays; a gated tool has no effect that its policy
does not allow; code is stopped when its time is over and not before; visible
text of a page reaches the model and nothing else does.

## 2. Modules

| Module | Models | Read with |
|---|---|---|
| `DraftReview` | the promise to the reviewer: drafts are shown, approved, and only then written, delivered and recorded | - |
| `ResearchRun` | the workflow, its calls and its crashes; implements `DraftReview` | `research_task.nd`, `runtime.py:236-382,486-604` |
| `GatherSteps` | the steps before the draft, with the search and fetch tools and the web backends | `research_task.nd:8-119`, `runtime.py:431-468`, `web.py:130-313` |
| `ReviewService` | `ApprovalService` in request threads | `approval_api.py:45-120`, `runtime.py:236-301` |
| `DecisionStore` | the promise of an approval store: decisions change at once, to one being made, and stay | `approval_store.py:1-16` |
| `ApprovalStore` | `FileApprovalStore`; implements `DecisionStore` | `approval_store.py:83-177` |
| `ToolGate` | gate, policies, `/gate/*`, `publish_once` as the gate sees it, and the notifiers | `runtime.py:199-234,384-428,590-604`, `notify.py` |
| `MemoryStore` | `SqliteMemoryStore` | `memory.py:93-289` |
| `TopicTags` | `topic_tags` | `memory.py:58-82` |
| `HtmlText` | `_TextExtractor` and `html_to_text` | `web.py:53-127` |
| `CodeRunner` | one call of `DockerCodeRunner.run` | `sandbox.py:28-127` |
| `MC...` | instances for TLC: constants, functions of constants, symmetry; `MCText` joins `TopicTags` and `HtmlText` | - |
| `...Proofs` | theorems about the module of that name; `TextProofs` is about `TopicTags` and `HtmlText` | section 4 |

**`ResearchRun`.** One run is a set `done` of finished steps, a `status`, the
last resume `payload` and its `draft`; `After` is the workflow's `after`
clauses, and `Ready` the engine's scheduling. Every step is an action
(`Collect` for `init`, the gather steps and `analyze`, whose work is
`GatherSteps`' matter). `publish` is an action per externally visible effect,
because a crash may come between any two: claim the effect record, truncate the
file, write it, notify, complete the record, put the node, tag it, return.
`Approve` and `Reject` are the calls of `resume` and `resume_with_feedback`;
`Rollback` is the second phase of a rejection. A call runs on the registered VM
or on a fresh one (`AttachVM`); the fresh one reads `analyze`'s result with
sorted keys, which `Synthesize` can tell apart unless `CanonicalJson` makes
both the same. `Crash` ends the call's process: persisted state stays, the
step under way is pending again. Assumed of the engine: at most one call on a
run at a time, finished steps and payload are persisted, a completed run
answers with its recorded result, a rollback of a waiting run is refused.
The variables `approvals`, `drafted` and `unrecorded` are history: no action's
guard reads them.

**`GatherSteps`.** A writer is a step of a run; it searches, fetches the first
hit, puts the document under the hash of its text and tags it. A text stands for
its hash, so a node's key says what text it holds; a page that failed, with the
empty text, is under its url. The web answers anew each time, `Cut` is the limit
of characters, and `offline` is the backend without a network. The gather steps
of a run may interleave (`docs/plan.md:5`: "in parallel"); a death keeps
finished steps only. It is assumed that sha256 does not collide and that
`mem.put` and `mem.tag` succeed while the process lives.

**`ReviewService`.** A thread is a request; its `pc` names the place between two
accesses to shared state. A whole call of the engine is one step, what it does
is `ResearchRun`'s matter; that two calls on one run do not meet inside the
engine is an assumption about that library, so no property here says that the
engine publishes a draft once. `Look` is the client's earlier request, which
gives it the draft it decides on (`seen`); it may be of any record, pending or
not. A start may fail in its draft step or raise (`StartFails`), and so may each
call of the engine in a decision (`EngineFails`). Three histories keep apart
what may have gone wrong with a run: `overlapped` (two requests about it),
`failed` (a call of the engine on it failed) and `restarted` (the service died
after it was started); each property names those it excepts.

**`ApprovalStore`.** A step is a system call. `handle` says where the file that
a thread writes is now, since `os.replace` moves an open file; a crash drops
locks and handles. `now` is the clock reading of a loop; request files it has
still to visit are `todo` (a directory listing taken at the start of the loop:
a file created later may or may not be listed by the system, and a request so
young is neither expired nor yet promised to the caller).
A reader's look at a file is one step, for `os.replace` is atomic. The
refinement maps `DecisionStore`'s `decided` to the files at the final paths and
`asked` to the verdicts of the threads that resolve.

**`ToolGate`.** A policy gives each tool one of `auto`, `require` and `deny`; a
handler whose manifest declares no write effect never asks. `publish_once` runs
`write_file`, then `notify`; the gate leaves a request and raises, which is an
exception for the first and part of the result for the second. Operators decide
on requests at any time. `Notify` chooses what the other end does with the
message and what its answer is, by channel; to a webhook a 2xx from something
that did not take the message is a delivery, as the code has it. Each check
makes a request of its own; nothing looks for the decision of an earlier one.

**`MemoryStore`.** A key is a node's value or its tags (`__nodus_tags__:`). A
mutation changes the dict (`...Cache`) and then, under the lock and in one
transaction, the tables (`...Commit`); when SQLite refuses (`MutationFails`) the
dict has changed, of a snapshot for all nodes. A recall is a search, then for
the best node left the question whether the dict has it (`Take`), its value
there (`Get`) and its tags in the file (`AddTags`). Ordering by key is the
nodes' number. `stale` and `disturbed` are history: the nodes about which
nothing is promised.

**`TopicTags`, `HtmlText`.** The first is a loop as a recursive function;
questions grow word by word. The second feeds the parser's callbacks tag by tag,
and data line by line: pieces of a line (`Piece`) and newlines (`LineFeed`), both
through `handle_data`. It lays out the text that the callbacks collected so far.
`elements`, `faults`, `visible`, `titled`, `paragraph` (block-level tags before a
piece) and `lineAt` (those and the visible newlines before it) are history, the
reference against which counter, flag and lines are held. Blank data is left
out, for `get_text` strips it from every line.

**`CodeRunner`.** `elapsed` is the host's clock and `ran` the code's; `Tick` is
one unit of both and cannot pass a deadline before the action it triggers
(`GiveUp` on the host; `Term` and `Kill` of `timeout -k` in the container). The
daemon and the code choose freely: missing, down, slow, stuck; any exit, too
much memory, ignoring SIGTERM. Of docker it is assumed that killing the command
does not stop its container and that a kill for memory shows as 137.

In all modules an uncommented definition right before the one it alters is a
plausible bug, kept to check that each property can fail.

## 3. Runs

The passing runs cover every action and disjunct of their next-state relations
(between the runs of a module). Deadlock is not checked: every system here
rests when nobody calls it, and the bounded calls run out.

| Run | Bounds | Question and properties |
|---|---|---|
| `replay` | 1 run, 2 feedbacks, 3 drafts, 5 calls, 2 crashes, 1 throw | what one run does through approvals, rejections, replays and deaths: `TypeOK`, `HumanGate`, `RejectionIsSilent`, `ReplayRegeneratesDraft`, `FeedbackReachesDraft`, `PublishedIsRecorded`, `PublishedFileIsWhole`; calls return (`CallReturns`), rejected drafts come back (`RejectedIsReviewedAgain`) |
| `shared` | 2 runs of one session, any draft for any input, 3 calls, 1 crash | shared file, nodes and records, recurring drafts: `NotifyBound` and the refinement `KeepsPromise` |
| `recall` | 2 runs of 2 related sessions, 3 calls, 1 crash | what is recalled is published: `PriorIsPublished` |
| `stalefile` | 1 run, 5 calls | violated: `PublishedFileIsDraft` |
| `crowd` | 2 threads, 2 runs, 2 drafts each, 2 failures, 1 restart | what is published is closed to decisions, a record is true, the index agrees with the engine and with the approver: `PublishedIsClosed`, `PublishedIsTrue`, `ListedIsWaiting`, `SoleApprovedWasSeen` |
| `lostrun` | 2 threads, 2 runs | violated: `StartedIsListed` |
| `store` | 2 processes with a store each, 3 threads, 2 requests, 4 calls, 1 crash | the refinement `KeepsDecisions`; listing and expiry respect decisions (`PendingIsUndecided`, `RemovedWereUnresolved`); `LockComesFree` |
| `memory` | 2 threads of a process, or one of each of 2 processes for the first 3 calls; 2 nodes, 4 recalls, 5 calls, a refusal or a death | index, rows and dict agree (`IndexIsStored`, `Mirror`); recall is complete, ordered and filtered (`RecallFindsSettled`, `RecallIsBest`, `RecallIsRequired`) |
| `text` | pairs of questions of 4 words out of 4, 2 tags; documents of 7 tags, pieces of data and newlines over 2 skipped elements, a block element and the title | `TagsAreFirstWords`, `RelatedOverlap`, `VisibleIsKept`, `TitleIsCaptured`, `ParagraphsAreKept` |
| `sandbox` | 1 call, budgets 1 to 3, allowance 3, grace 1 | `SlowStartIsNotCharged`, `AnswerIsTrue`, `CallerIsFreed`, `CodeIsStopped` |
| `gather` | 1 run, 2 gather steps, 2 urls, 3 texts, each of 4 backends, 1 death | what was gathered is stored (`GatheredIsStored`, `TextStays`) and analysed (`AnalysisReached`) |
| `tools` | 6 policies, 5 channels, 3 executions of `publish_once` | `EffectsAreAuthorised`, `DeliveredWasAccepted`, `PublishEnds` |

*Why the bounds are enough.* In `replay`, publishing A, rejecting into B,
publishing B, rejecting back into A and approving again takes five calls; the
bound on notifications needs one crash after each of two deliveries. In
`shared` the three calls are two approvals that interleave and a rejection of
either run. In `recall` they let a run publish, be rejected and publish its
revision while the other recalls. In `crowd` two requests overlap at every place; drafts are two so
that a decision can be about an outdated one. `store` interleaves three calls
with a fourth after a crash. `memory` has two nodes put and tagged and a recall
of both; of two processes, three calls let one write what the other, up or
opened later, recalls (the run has about 1.1 million states). In `text` there
are more significant words than tags, and seven steps are enough for a
skipped element inside another, with a stray end tag and data on both sides, and
for two newlines and a paragraph's end between two pieces.
`sandbox` has starts, runs and hangs both shorter and longer than either
deadline, which is all the comparisons of the code can tell. `gather` has two
steps that may find one document under one or two urls, a page that changes
between a death and the retry, an empty text and one that is cut. In `tools`
three executions allow a refusal, a decision and a retry for each of the tools.

*Fairness.* `replay` (`FairSpec`): weak fairness of `Advance`, what the engine
does of itself once a call is in progress - a call runs synchronously in its
thread. Neither calls nor crashes are fair. `store`: weak fairness of a
thread's steps inside a call, for the same reason; beginning a call is not
fair. `sandbox`: weak fairness of time and of the three alarms, none of the
daemon or of the code. `gather`: weak fairness of a run's steps while there is a
process, since requests have a timeout (`web.py:33`) and SQLite answers; nobody
need resume a run. `tools`: weak fairness of `publish_once`, for the gate does
not wait and requests to the target have a timeout (`notify.py:27,80`); nobody
need decide on a request.

*Symmetry* is used only in `crowd` and `lostrun`, over run ids and threads, and
in `memory`, over the two threads of the first process. They check invariants,
and no constant tells these apart.

## 4. Proofs

Each proof module takes its component's `ASSUME`s, which TLC evaluates in the
component's run, and nothing else; the sets of runs, threads, processes, keys,
texts, policies and all bounds are arbitrary.

| Theorem | Says |
|---|---|
| `ResearchRunProofs`: `Invariance` | the inductive invariant `IInv` |
| `Typing`, `Gate`, `Bound`, `Silence`, `Prior` | `TypeOK`, `HumanGate`, `NotifyBound`, `RejectionIsSilent`, `PriorIsPublished` always hold |
| `Implements` | `Spec => KeepsPromise`, the refinement of `DraftReview` |
| `Feedback`, `Replays` | `FeedbackReachesDraft`, `ReplayRegeneratesDraft` |
| `RecordIsKept`, `FileIsWhole` | `PublishedIsRecorded`, `PublishedFileIsWhole` |
| `ReviewServiceProofs`: `ServiceTyping`, `PublishedRunsAreClosed`, `PublishedRecordsAreTrue` | `TypeOK`, `PublishedIsClosed`, `PublishedIsTrue` |
| `ListIsRight`, `ApprovedIsRead` | `ListedIsWaiting`, `SoleApprovedWasSeen` |
| `ApprovalStoreProofs`: `StoreTyping`, `PendingIsRight`, `ExpiryIsRight` | `TypeOK`, `PendingIsUndecided`, `RemovedWereUnresolved` |
| `ImplementsDecisions` | `KeepsDecisions`, the refinement of `DecisionStore`, given one store per process |
| `MemoryStoreProofs`: `TypeInvariant`, `IndexIsRight`, `MirrorIsTrue` | `TypeOK`, `IndexIsStored`, `Mirror` |
| `RecallFinds`, `RecallHasBest`, `RecallMeetsRequirement` | `RecallFindsSettled`, `RecallIsBest`, `RecallIsRequired` |
| `GatherStepsProofs`: `GatherTyping`, `GatheringIsKept`, `StoredTextStays` | `TypeOK`, `GatheredIsStored`, `TextStays` |
| `ToolGateProofs`: `GateTyping`, `GateHolds`, `DeliveryIsTrue` | `TypeOK`, `EffectsAreAuthorised`, `DeliveredWasAccepted` |
| `CodeRunnerProofs`: `RunnerTyping`, `SlowStartIsFree`, `AnswerHolds` | `TypeOK`, `SlowStartIsNotCharged`, `AnswerIsTrue` |
| `TextProofs`: `VisibleReachesText`, `TitleReachesTitle`, `ParagraphsReachText` | `VisibleIsKept`, `TitleIsCaptured`, `ParagraphsAreKept` |
| `TagsAreTheFirst`, `RelatedFindEachOther` | `TagsAreFirstWords`, `RelatedOverlap` |

*The arguments.*

- **Workflow.** `HumanGate` alone is not inductive: a state may have no effect
  yet and an approving payload for another draft than the one it shows. `RunInv`
  adds that an approval in the payload of a reviewed run is about the draft it
  still shows, that `publish` is under way only under such a payload, and that a
  rejection has replaced it. `NotifyBound` needs `CountInv`: an attempt that has
  not notified yet starts from a count that lost attempts explain, and so does a
  draft without a complete record. `PriorIsPublished` needs that a tagged final
  node holds a draft (`MemoryInv`). The gate lemmas split steps into those that
  leave effects alone (`GateQuiet`) and those of `publish` (`GateEffect`); the
  refinement has a lemma for each kind of step of `DraftReview`.
- **Drafts and records.** `OriginInv` follows a draft from the feedback that
  made it: everything synthesised came from the sorted rendering, and a replay
  carries its call's feedback until the draft is made. `Ledger` says what the
  file, the record and the node hold at each place of `publish`; it is about a
  run that is the only one of its session, so the induction needs that a step of
  another run touches another session (`RunsApart`, `WorldGrows`) and that a run
  that is alone after a step was alone before (`StillSole`).
- **Service.** `TruthInv` follows the answer "published" from the engine through
  a thread's locals into the record. `LoneInv` is about runs on which no two
  requests overlapped: one thread at most has the run in hand, and `View` says
  what that thread's place tells of the engine, the record and the draft it read,
  also after a failed call or a restart (`Agrees` says what the index may then
  say of the run); `NewInv` that a run not yet started is unknown to all, and
  `FailInv` that a failed step is remembered. `ListedIsWaiting`,
  `PublishedIsClosed` and `SoleApprovedWasSeen` all follow from `View`.
- **Approval store.** `ThreadInv`: whoever writes or removes holds the lock of
  its store, and what a loop knows to be resolved is. For the refinement,
  `OwnTmp`: a thread between opening and replacing has its handle on a temporary
  file of its own, which holds its verdict; by `OneStore`, the hypothesis that a
  process has one store, no other thread names that file.
- **Memory.** `MirrorInv`: of a key about which nothing is excepted, at most one
  thread of a process has a mutation in flight, the dict then holds what it will
  store, and otherwise dict and row agree. `IndexIsStored` is inductive
  given the types, as every action changes row and index in one transaction.
- **Recall.** `RecallInv` is about the nodes that are settled for a recall: no
  mutation about them is in flight, the scores that the search gave them are
  still the ones of the stored tags, who was passed in the loop is answered
  unless without a value or not up to the requirement, and nothing that is left
  comes before what was taken. A mutation that begins makes its node unsettled
  at once (`SettledStays`), so every other step finds rank, tags and value where
  they were (`RankStays`); the value that is read (`RecallGets`) is the stored one
  by `MirrorInv`. That a node with all its tags is found is a fact about
  cardinalities (`OverlapFacts`, `SearchFacts`).
- **Gathering.** `GatherInv`: whatever a step holds or ever put is `Keyed`, its
  text determined by its key (`TextOf`), and a node is one of the documents put
  under its key. Hence no later document can replace the text.
- **Gate and sandbox.** `GateInv` ties each effect to a policy that passes its
  tool; `ClockInv` relates the two clocks to the place of the container, and
  `ExitInv` the answer to the fate of the code.
- **Text.** `ParserInv`: without a crossed end tag the counter is at most the
  number of open skipped elements, and without a stray one it is that number, so
  it is zero just where text is visible. `LayoutInv` is about the lines before
  the last, squeezed (`Filed`), and the last, which is still being read
  (`Reading`), and says two things of them. Of any document: the visible pieces
  of a line have the same number of block-level tags before them (`"loose"`: a
  newline may start a line without a new paragraph). Of one without faults: a
  line's pieces have the same number of tags and visible newlines before them,
  the last line's that of now, and earlier lines' a smaller one (`"exact"`).
  `TagsInv` gives each significant word of a
  question its place among the tags.
- **Loops.** The loops of `get_text` and `topic_tags` are recursive functions
  over the prefixes of a list. That each has one run, and so that a longer list
  is one more round, needs an induction: `Induct` states it of a set of naturals,
  without an operator parameter, from the well-foundedness of `<`; `RunExists`
  and `RunsAgree` are what it gives of loops, and `LinesFacts`, `SqueezedFacts`
  and `SeenFacts` are the three loops of the model.

TLC found `RecallInv` and `LayoutInv` to hold on the instances of section 3
before they were proved.

*Only model-checked.* Liveness (`CallReturns`, `RejectedIsReviewedAgain`,
`LockComesFree`, `AnalysisReached`, `PublishEnds`, `CallerIsFreed`,
`CodeIsStopped`), which is out of the prover's reach. Every invariant and every
other property of a passing run has a theorem.

## 5. What the checks found

*Has a run.*

- `stalefile`: publish A, reject, publish the revision B, reject without a new
  draft (the replay gives A again) and approve: A's effect record is complete,
  `publish_once` does nothing, the run says published and remembers A, and
  `final.md` holds B. If B's publication died between truncating the file and
  writing it, the same answer leaves `final.md` empty; `PublishedFileIsWhole`
  says that a run alone in its session has no other way to an empty or foreign
  file.
- `lostrun`: two starts at once share `_last_result`; one of the two runs waits
  for a review that no list offers.

*Shown by the provisos of a property.* Each of these is a behaviour of the model
that its property has to except.

- `NotifyBound` allows one more notification per crash between delivery and
  record. The repository's `README.md:56-58` promises none; `docs/plan.md`
  knows the window ("pending row re-executes").
- `SoleApprovedWasSeen` excepts runs on which requests overlapped: an
  approval names a run, not a draft. If it was admitted before another
  reviewer's rejection and resumes after it, it publishes the revision.
- `ListedIsWaiting` excepts three things, and in each the index is wrong of
  "runs currently suspended awaiting a draft decision" (`approval_api.py:78`).
  Overlap: when an approval and a rejection overlap, the later writer of the
  record need not be the later caller of the engine, and a published run is
  listed as waiting or the reverse. A failed call, also of a lone request: when
  publish throws, the request ends with an error and the record stays `waiting`,
  or it becomes `completed`, although the engine has a failed run that could be
  resumed; when the first phase of a rejection on a run that failed to draft
  makes it wait, the rollback is refused and the record becomes `unknown`,
  so that the waiting run can no longer be decided. A restart: the index is empty
  and waiting runs are not listed.
- `PublishedIsClosed` excepts overlapping requests: both pass
  `_require_waiting`, and what the second does to a published run is left to the
  engine.
- `RemovedWereUnresolved` excepts results that another process writes between
  `expire_old`'s look and its unlink (`approval_store.py:165,173`).
- `KeepsDecisions` takes one store per process: two stores over one directory
  share the name of the temporary file but no lock.
- `Mirror` excepts overlapping mutations of one node: dict and file may then
  keep different values.
- `RecallFindsSettled` excepts what another process stored while this one was
  up: its dict was loaded once (`memory.py:253`), so a service does not recall
  what a later process publishes until it is restarted, although
  `memory.py:10-11` speaks of recall across sessions.
- `RecallIsRequired` excepts nodes that a mutation was about while the recall
  went on. One that is deleted between the test and the reading
  (`memory.py:253,258`) is answered with a null value, which
  `memory.py:248-249` excludes. After a refused mutation the process answers a
  value that is not stored; after a refused `load_snapshot` all of its values.
- `match="all"` with a repeated tag finds nothing (`memory.py:227` compares
  distinct hits with the length of the list); the checked recalls repeat none.
- `AnswerIsTrue` excepts code that exits with 124, exceeds its memory (137),
  or fails with a text of the daemon in its stderr ("is not running"): the
  first two are answered as a timeout although `sandbox.py:28-29` says "both
  mean the code ran too long", the last as an unavailable daemon, without its
  output.
- `GatheredIsStored` promises a step's own title and tags only for documents
  nobody else put: steps that find one document share a node, and the last
  writer's domain tag and title stay (`research_task.nd:67`).
- `EffectsAreAuthorised` holds because a gated tool that needs an approval never
  runs, not even once its request is approved: the handler raises
  (`runtime.py:214-223`), nothing reads the decision, and a retry makes a new
  request. So under `require_for_effects` nothing can be published, though
  `approval_api.py:20-24` offers `/gate` to operators who "approve individual
  tool invocations themselves". And `deny_all` does not stop tools without a
  write effect, which never ask.
- A notification that failed or was refused by the gate is part of what
  `publish_once` returns; its record is complete and nobody sends it again.
  `DeliveredWasAccepted` has no converse: an accepted message may be reported as
  undelivered. It excepts webhooks: there every 2xx is reported as a delivery
  (`notify.py:44-47`), whoever answered it.
- `VisibleIsKept` and `TitleIsCaptured` except documents with crossed end tags,
  where an end tag closes its element over another that is still open: the
  counter then stays up to the end, and visible text after it is lost. An
  element whose end tag never comes counts as open to the end, so an omitted
  `</head>` drops the whole body. After a stray end tag of a skipped element
  dropped content comes through. A `<title>` inside `<svg>` is appended to the
  document's.
- `ParagraphsAreKept` counts newlines of the data: `get_text` splits at them
  (`web.py:106`), so a source that breaks its lines inside a paragraph, as most
  do, comes out in several lines with no block-level tag between. What is kept
  of the "paragraph structure" of `web.py:68-69` is that no line runs over from
  one paragraph into the next.

## 6. Not modelled

- HTTP routing, JSON and status codes of the adapter; Docker's command line and
  its hardening flags; building web requests, taking fields from a provider's
  answer, mail and webhook formats: layout or I/O.
- Trailing text that `HTMLParser` holds back because `close()` is never called
  (`web.py:119-127`): the model is fed what reaches the callbacks.
- A search hit whose url is JSON null (`web.py:148,167`): fetching it raises, and
  so does hashing it in the handler of that exception (`runtime.py:466`), so that
  the tool does not fail open there. Urls are strings in `GatherSteps`.
- A commit that SQLite refuses after it accepted the statement: the transaction
  stays open and the next mutation commits it. A refusal is of the first
  statement in `MemoryStore`.
- In `ResearchRun` a recall reads the stored node; the dict of a live process may
  hold an older value of it (`MemoryStore` has both, and `PriorIsPublished` is
  about runs that see the store).
- The language model: any function, or any relation, of its input.
- The wording of drafts, prompts and messages.
- `get`/`get_result` of the store: reads of one file. A client's retry of a
  request and `_runs` after a restart, beyond that the index is empty.
- The construction of VMs (compiling, setting globals, registering tools) is one
  step; the Nodus engine, its run store, effect store and SQLite are assumed as
  said in section 2.
- A call of the engine is atomic in `ReviewService`, and one thread drives a run
  in `ResearchRun`: two requests inside the engine on one run are not modelled,
  since what the engine then does is not in this repository.
- The gather steps and `ResearchRun` are not composed: `analyze` takes whatever
  they found, and nothing they store carries `status:final`, so no recall of the
  workflow returns it.
- Docker's own failures after the code has started, other than a stuck command.

What would come next: a composition of `ReviewService` with the steps of
`ResearchRun` in place of its atomic calls; the language model's failures inside `analyze`.

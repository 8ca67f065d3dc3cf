# A TLA+ verification of tatara-operator

tatara-operator is a Kubernetes operator that runs an unattended development
loop: it takes issues and merge requests from a forge (GitHub, GitLab), makes a
`Task` of each, spawns agent pods that plan, write and review code, merges what
was approved, follows its release to the cluster and closes the issue. This
directory specifies the part of it in which mistakes are expensive and tests
are few: how Tasks are minted, admitted, moved, stopped, released and taken away
while controllers, sweeps, webhooks, agents, humans and the forge act at the
same time.

Paths below are relative to the repository.

## Files

| file | what |
|---|---|
| `Stage.tla` | package `internal/stage`: states, transition table, parks, budgets, releases; operators on a Task record, no variables |
| `TaskLifecycle.tla`, `TaskLifecycle_proofs.tla` | one Task and every handler that moves it; its inductive invariant and theorems |
| `TaskGate_proofs.tla` | the approval gate and the review of the same Task: second inductive invariant and theorems |
| `MergeTrain.tla`, `MergeTrain_proofs.tla` | the merge and deploy stages, a pass split at every forge call; inductive invariant, theorems, refinement |
| `TrainPromise.tla` | what the merge train promises, with no word of how |
| `AdmissionQueue.tla`, `AdmissionQueue_proofs.tla` | events, the dispatcher, tickets, the ceiling of live pods; that an event mints once and a pod keeps its ticket |
| `TurnLoop.tla`, `TurnLoop_proofs.tla` | one Task and its agent: pods, turns, callbacks, events, stops, tokens; that its events and tokens are accounted for |
| `IssueIntake.tla`, `IssueIntake_proofs.tla` | one issue, its mirror and its Task: mint, reap, resume, strand, sweep; that re-entries are counted |
| `MROwnership.tla`, `MROwnership_proofs.tla` | one merge request, its mirror and the Tasks that may own it; that the mirror is well formed and nothing is posted twice |
| `MemoryStack.tla`, `MemoryStack_proofs.tla` | the memory stack of a project and the ingest of a repository; that its corpus is kept and its objects fit together |
| `MC*.tla` | instances for TLC |
| `*.cfg` | one per run |
| `PROJECT.json` | components, runs, mutants, map to the source, findings, hazards, theorems |

To check: `tlc -config lifecycle.cfg MCTaskLifecycle` and the like, and
`tlapm TaskLifecycle_proofs.tla` and the like.

## Inventory

| component | state | operations | interacts through |
|---|---|---|---|
| stage machine, `internal/stage` | fields of `Task.status`: state, parkReason, parkedFromState, six re-entry counters, the retry lane, pendingEvents | Enter, Park, Unpark, HeadMoved, CIRed, MergeConflict, ArmRetry, ReenterOnReviewChangesRequested, UnparkMaintainerComment, UnparkTakeover | called by every writer of a Task |
| Task reconciler, `internal/controller/task_*.go` | - | triage, clocks, caps, CI hold, binding repair | reads the Task and its mirrors, writes through EnterStage and ParkTask |
| stage driver, `merge.go`, `deploy_stage.go`, `stage_controller.go` | `mergeCursor`, `mergeOrder`; `deployedAt` on the mirrors | the merge train, release supervision, delivery | forge calls, mirrors |
| outcome endpoint, `internal/restapi` | outcome claim, plan pin, grant | submit, decline, approve, reject, review, take over | called by agents |
| review posting, ownership | `pendingReview`, verdict, `reviewedSHA`, `ownership`, `lastBotHeadSHA`, pending comments, the cursor of comments | drain, flip, hand back, announce, redeliver, take over | forge calls, then the Task |
| project sweep, `unpark.go`, `conflict_sweep.go`, `parked_terminal.go`, ... | - | releases, retry lane, conflicts | runs on a timer over all Tasks |
| intake, `intake.go`, `sweep.go`, `internal/webhook` | Issue mirrors, owner references, the webhook marker | mint, adopt, mark | forge listings, deliveries, Tasks |
| reaper, resume, strand, `reaper.go`, `resume.go`, `strand.go` | retention, release marks, the count of re-entries | reap, release, re-mint, re-enter | Tasks and mirrors |
| mirrors, `mirror.go`, `issue_controller.go`, `mergerequest_controller.go` | Issue and MergeRequest objects | sync of threads, heads, checks | forge |
| admission queue, `internal/queue`, `queue_controller.go` | QueuedEvents, sequence numbers | enqueue, admit, release | creates Tasks, gates pods |
| live pods, `livepods.go` | pods, replies owed | mint budget, resume, evict | Tasks |
| turn loop, `internal/agent`, `task_stage.go`, `turncallback.go`, `podwatch.go` | turn annotations, clocks, journal, usage | submit a turn, record its end, stop, probe | pods and their wrapper |
| token budget, `internal/budget`, `internal/accountusage` | window and its tokens | roll, gate | admission, callbacks |
| memory stack and ingest, `project_memory*.go`, `repository_controller.go` | phase of a project's memory, volumes, last ingested commit | provision, tear down, adopt, ingest | Jobs, Kubernetes |
| forge clients, REST plumbing, prompts, metrics, configuration | none of the protocol's | | |

What is hard in it: two controllers (`TaskReconciler` and the stage
controller), the REST server, webhook replicas and several sweeps write the same
objects, each on a cached or an earlier read; the mirrors lag the forge;
deliveries are lost; a forge call and the write that records it are not atomic;
a budget is charged in one place, tested in another and reset in a third; a park
must be released by exactly what it waits for; ownership moves between Tasks by
several writes. `PROJECT.json` lists these as hazards at their lines, each with
the properties that watch it.

What makes each part correct:

- a Task: a park can be released, is released by what it waits for, and not for
  ever; budgets bound every loop; no code without a grant, none by a kind that
  may not push; a finished Task stays finished;
- the train: lands reviewed heads only, in order, its cursor tells the truth;
- admission: one Task per event, a pod has its ticket, nobody waits for good;
- a turn: events are not lost, an end is recorded, tokens are not counted twice;
- intake: an open issue does not stay without a Task, re-entries are bounded;
- ownership: a foreign push is noticed and its stand-down completes, comments
  arrive, the operator says a thing once;
- memory: the corpus survives every switch, every head is ingested in the end.

## The modules

### Stage

A Task is a record. Each operator that takes a Task and returns one is a
function of the package with its guards in the package's order: `Enter` refuses
a parked Task and an illegal move, `Park` keeps the first reason, `repark` and
`clearPark` do what the functions of that name do. `CanX` is the test of a
function that can refuse, `X` its effect. `LegalFor` is the table with the
kind-dependent exceptions. Wall-clock time is left out: where the code compares
a deadline the handler may or may not fire.

### TaskLifecycle

State: the Task; the mirrors of its merge requests (forge state, ownership,
verdict, whether the review is of the current head, a pending review, whether
this Task controls it); the mirror of its issue; the maintainer's grant; and
three counters that only the properties use. One action is one handler, from its
read to its last write, because a write of the Task is guarded by its resource
version: the losing writer starts over. `Agents` are the outcomes of the REST
endpoint, `Reconcile` the controllers, `Sweeps` the project sweep, `Humans` the
forge and what webhooks bring. Where the code makes a forge read the answer is
a choice. The merge stage appears here as steps on one merge request at a time;
`MergeTrain` has its insides.

The handlers of a parked Task at `merged` or `deployed` are enabled, as in the
code: the stage controller does not look at the park.

### MergeTrain and TrainPromise

`ReconcileMerging` reads the Task and the mirrors and then makes several forge
calls per repository. A pass is a record with what it read (`t`, `seen`), where
it is (`at`, `cur`) and the head it verified; each call is an action, and so is
`Abort`, a failed call or the death of the operator, which loses the record and
nothing else. Its writes are judged against the Task as it is then (`Enter`),
not as it was read. The forge side (`pr`) keeps the head, who merged and the
release from "no job yet" to "live on the cluster". Ghosts: `approved`, the
heads a review approved, and `trained`, the order the cursor was written under.

`TrainPromise` is the abstract specification: merge requests, the heads a review
approved and whether the Task is delivered. A merge request lands once, while
it is open, at an approved head; delivery needs all of them merged.
`TrainPromised` (`INSTANCE TrainPromise WITH forge <- ..., delivered <- ...`)
says that the driver implements it. TLC checks it on two repositories and
`TrainKeepsPromise` proves it for any set of them.

### AdmissionQueue

An event is the `QueuedEvent` of a natural key: an item of work to mint (an
alert, an issue, the adoption of a dependency upgrade) or the ticket of a Task's
agent. `EnqueueEvent` is split into its duplicate test and its create. The
dispatcher is one worker whose pass (`d`) is split into `reconcileDone`, `admit`,
one step per event it considers, and `MarkAdmitted`; between the create of a
Task and the mark the operator may die (`Crash`) and `mintedTask` finds the Task
by the event's UID. Where the code lists through the manager's cache the model
reads `seen`, which may be one write behind. Events have sequence numbers
(`seq`); only their order is ever read, so the numbers close up when an event is
deleted and stay bounded. Tasks appear with what decides
slots: state, park, pod and a human's unanswered reply.

### TurnLoop

Four actors, split where they write to the API server or call the wrapper: the
reconciler's pass `rec` (pod of the stage, submission of a turn and its stamp,
drain of the rendered events, stops with their note, stall probes), the pod
watcher `pw`, a callback `cb` with its four writes, the poll. Pods and turns are
numbered; a time stamp is the number of what it was taken for. An event is its
key (`eventKey`: kind, repository, number, second): deliveries of one key are
not told apart, and each key arrives up to `MaxArrivals` times. Ghosts: how
often each key was rendered (`told`) or dropped by the cap (`dropped`), how
often each turn's tokens were counted for the Task (`used`) and in the
project's window (`window`). Faults: a crash at any step, a lost callback, a pod that
dies or does not boot, an agent that hangs, a wrapper that is unreachable, a
write that fails.

### IssueIntake

One forge issue, its mirror and the Task of its (fixed) intake name. Webhook
replicas work on a delivery while the leader runs one pass at a time: sweep,
reap, resume, re-entry of a stranded issue. A thread keeps what it read; each
API write is a step, and a crash loses the thread. Tasks differ by UID, because
the garbage collector compares UIDs and the code compares names.

### MROwnership

One merge request, its mirror, the Tasks that may own it and five threads: the
mirror's reconciler, the sweep, a webhook handler, the admission of a queued
adoption, the take-over endpoint. A thread works on the mirror it read while
others write it. A head that tatara did not push makes the mirror external,
parks its owner, hands it to a review Task and is announced, in four writes.

### MemoryStack

The Project's reconciler as one action that may fail at any object (a teardown
that stops half way is a prefix of its deletions) or die before its status; the
Repository's reconciler, the ingest Jobs, the result ConfigMap, pushes,
rewritten history and the cron. Kubernetes' garbage collection is what a
deletion takes with it (`cascade`).

### How they fit

`TaskLifecycle` takes pods, turns and admission as given; `AdmissionQueue` takes
the life of a Task as a few steps; `TurnLoop` takes admission as given and the
Task's states as a sequence; `MergeTrain` opens one stage of `TaskLifecycle`;
`IssueIntake` and `MROwnership` open the mirrors that `TaskLifecycle` reads.
Each keeps the other side as nondeterministic as its own properties need.

## Runs

Every bound is a CONSTANT of the cfg. The real caps (3 to 24) only repeat the
same lap; 0, 1 and 2 reach the tests "spent", "last" and "not yet".

| run | instance | shows |
|---|---|---|
| lifecycle | 1 MR, a Task of each of the eight kinds; 1 comment, 1 foreign push; 1.0 million states | parks know their state, releases are paid, budgets, the approval gate, non-code kinds ship nothing, final parks and finished Tasks are left alone |
| lifecycle_live | 2 MRs, implement, 2 retry laps, fair | the retry lane ends within its laps, no review is left behind, committed reviews are delivered or handed over, timer parks end |
| train_safety | 2 repositories, 1 push each, any covering order; 2.2 million states | only reviewed heads land, in order; the cursor is honest; done means merged; the promise is kept |
| train_live | one pinned repository, one late release job, fair | the train arrives |
| admission | an alert and an adopted upgrade, 2 enqueuers, 2 Tasks, pools and ceiling of 1, 1 fault, 1 bounce; 0.7 million states | an event has one Task; a pod keeps its ticket |
| admission_live | an alert and an issue that come for ever, normal pool of 2, ceiling of 1, 1 reply, fair | a reply is answered; a live Task gets its pod |
| turns | 1 pod, 2 turns, 2 stages, 3 deliveries of one key into a queue of 2, 1 fault; 0.8 million states | events are accounted for; the window holds no more than was used; the queue keeps its cap |
| turns_live | 6 pods and turns, 1 event, 1 of crash, hang, lost callback, unreachable wrapper; fair | the end of a turn is recorded; an event reaches a turn |
| intake | 8 cases of author and events (close, park, deliver, crash, lost delivery, retry, deferral), 1 comment, 1 re-entry; fair; 0.3 million states | re-entries are paid for; an open issue is anchored; a comment is mirrored |
| mrowner | 15 cases of who opened it, whether it is driven, and up to four events each; 2 heads, 1 comment; fair | announcements once; stand-downs complete; comments, drift and checks arrive |
| memory | 7 cases of new, running and legacy projects with pushes, switches, faults and crashes; fair; 0.2 million states | the corpus is kept; a switch completes; the head is ingested |

Two merge requests or repositories are the smallest number with a sibling; two
enqueuers the smallest that race. In `intake`, `mrowner` and `memory` a case
names who acts and which events may strike, each once, and TLC starts from every
case: pairs of faults that meet are in a case together, and the product of all of them
is not needed to interleave any of those with every step. Deadlock is not checked
where the system may stop (a finished Task, spent bounds); `intake` and `memory`
check it. Symmetry is used on repositories and on enqueuers, only in runs
without liveness. `lifecycle` with one comment and one push covers what the
proofs below extend to any number.

The type invariants of `TaskLifecycle` and `MergeTrain` are proved and not run;
those of `AdmissionQueue`, `TurnLoop`, `MROwnership` and `MemoryStack` are run
and proved, since they say more than types (an admitted event names its Task and
has one place in the order; the queue of events keeps its cap; no Task owns a
mirror twice and its controller is one of its owners; the index exists only with
its object).

### A disagreement between the code and its words

`delivered_live` states `DeliveredIsLive`, what a comment says of the deploy
stage, and TLC finds what the code does instead: a resumed pass does not wait
for the release job, and the tag of the release before is taken for this one's.
The finding quotes the lines.

Others met while modelling, each reproduced with TLC at the time, described here
in words:

- a submission at a green head overtakes a CI hold and leaves
  `status.ciWaitSince` set (`internal/restapi/outcome.go:1504`), against "IT IS
  NEVER A DEAD END" (`api/v1alpha1/task_types.go:824`);
- the conflict sweep takes a Task out of the gate with no approval
  (`conflict_sweep.go:400`), against "refined's only exit into
  under-implementation is submit_outcome(action=approved)" (`stage.go:348`);
- the approval of one merge request resumes the merge of a sibling with changes
  requested (`ownership_standdown_merge.go:45`), against `park.go:690`;
- a parked Task's merge train is driven and charged (`stage_controller.go:62`),
  against "a parked Task is excluded from dispatch entirely" (`stage.go:149`);
- a new merge order under an old cursor passes over an open merge request
  (`outcome.go:1488`), against `stage.go:381`; `DeliveredIsMerged` shows how far
  it goes: delivery asks every merge request, so the Task is not closed;
- a request for changes that arrives between a merge on the forge and its stamp
  (`review_apply.go:57`) takes the Task back although a merge request landed;
- the reaper decides on the Task it listed, so it can delete a parked Task whose
  reply is on its way (`reaper.go`, "A parked Task that can still come back is
  never reaped"); `IssueAnchored` shows that the issue gets a Task again;
- a stop writes its note from a snapshot and then clears the last turn
  (`task_stage.go:1566`): the text of a callback in between is gone;
- a callback that is retried after `recordUsage` and before `recordResult` adds
  its tokens to the Task's statistics again (`turncallback.go:386`);
  `WindowWithinUsage` shows that the project's window is not affected;
- after memory is switched off and on, an incremental ingest does not rebuild
  the lightrag index (`charts/tatara-project/values.yaml`);
- adoption of retained volumes runs on the edge from Disabled only
  (`project_memory.go:538`), so a stack that fails on its way up leaves them
  labelled as retained; their data is safe (`CorpusKept`);
- with a normal pool of one slot, the slot kept for a starving event and the
  ceiling of live pods wait for each other (`queue_controller.go:502`);
- an enqueuer that stalls between the duplicate test and the create for the whole
  life of the first event makes a second unfinished Task of one key
  (`enqueue.go:362`); a cache two writes behind can cost a running pod its
  ticket (`queue_controller.go:1080`).

### Fairness

`TaskLifecycle`: weak fairness of the end of a CI hold, of the step a committed
review owes, of the retry lane and of the timeout releases; reconcilers requeue
and the sweep is periodic. `MergeTrain`: passes begin, their calls return, and
from some point on they do not die. `AdmissionQueue`: weak fairness of the
dispatcher (watches and the backstop), the reconcilers of each Task and the
cache; strong fairness of a pass that finds the budget open, because a window
rolls; turns end. `TurnLoop`: weak fairness of passes, watcher, callbacks and
poll; strong fairness of the submission, since a stall takes minutes of silence
in which a pass comes by; a hung agent outlives no pod. `IssueIntake`: weak
fairness of every thread, of the mirror's reconciler and of garbage collection;
strong fairness of the sweep, which takes its turn among the passes of one
project reconcile. `MROwnership`: weak fairness of the threads. `MemoryStack`:
weak fairness of both reconcilers, of Jobs and of Kubernetes. Nothing is assumed
of humans, of deliveries, or of release jobs; faults are bounded, so that
from some point on calls succeed.

## Proofs

Every theorem holds for every value of the constants that satisfies the named
assumption of its module. Every invariant and every action property that a run
checks has one, and so has the refinement of the train; what is left to TLC alone
is liveness. TLC also finds each inductive invariant true on the instance of its
run.

### TaskLifecycle

| theorem | property |
|---|---|
| Invariance | `IInv` |
| TypeCorrect | `TypeOK` |
| ParksKnowTheirState | `ParkKnowsItsState` |
| ReleasesArePaid | `HumanReleasesArePaid` |
| LaneIsBounded | `RetryLaneBounded` |
| BouncesAreBounded | `BouncesBounded` |
| FinishedStaysFinished | `FinishedIsFinal` |
| MergeBlockStays | `MergeBlockIsFinal` |

`IInv` is the conjunction of the type, the budgets, what a park records, that a
finished Task is not parked, and the accounting of releases. No part is
inductive alone: a charge is within its cap only because the counter is a
natural number and the test came first; a finished Task stays finished because
it is not parked, so no release applies to it.

The argument goes through one relation, `Moves(t, u)`: u is sound, of the same
kind, has no more pending comments than t, is in t's state if t is finished, and
is parked like t if t's park is final, unless the forge finished it. Every
operator of `Stage` is shown to be a move, moves compose, and each handler is a
composition of them, so the step proof has one short case per action. The action
properties follow from `NextIInv`, the lemma that every step preserves `IInv`
and is such a move.

### MergeTrain

| theorem | property |
|---|---|
| Invariance, TypeCorrect | `IInv`, `TypeOK` |
| LandsReviewed | `MergedWhatWasReviewed` |
| CursorIsHonest | `CursorHonest` |
| DeliveredAllMerged | `DeliveredIsMerged` |
| LandsInTheOrder | `LandsInOrder` |
| TrainKeepsPromise | `TrainPromised`, the refinement of `TrainPromise` |

The properties speak of the forge, and the driver acts on mirrors and on what a
pass read some steps ago. `IInv` says what survives in between: a mirror that
says merged or closed tells the truth, and so does the copy in a pass
(`TellsTrue`); an open mirror of a Task at `merged` carries an approved head or
none (`GateReviewed`), and so does the copy, with the head the pass verified
(`PassReviewed`); everything up to the cursor is merged, for the order the
cursor was written under (`TrainedMerged`) and for the order of a pass
(`PassCursor`). Steps are proved by kind: a step of the forge (`ForgeStep`), of
a mirror, of a writer of the Task (`TaskStep`), the end of a pass (`EndStep`).
The refinement maps the forge to itself; a step of the driver is a landing, a
delivery or a stutter.

### TaskLifecycle: the gate (TaskGate_proofs)

| theorem | property |
|---|---|
| GateHolds | `IInv /\ Gate` |
| NonCodeStays | `NonCodeNeverShips` |
| CodeIsGranted | `CodeNeedsGrant` |
| ReviewIsSettled | `ReviewSettledBeforeMerge` |

`CodeNeedsGrant` is not inductive: a Task without an issue may open a merge
request with no grant, be swept past the gate on it, and have the binding of its
issue repaired later. `Gate` says what prevents the combination: an issue is
bound only to a Task that has no merge request (or is still new), an implement
Task that has both has a grant, and one past the gate has a grant or a merge
request. `Passage` lists the ways in which a step may move the Task and
`References` the ways in which it may bind merge requests, issues and grants;
every action is shown to be a `Passage` and a `References` step, once, and the
gate follows from those two. The last conjunct of `Passage` is
`ReviewSettledBeforeMerge`.

### AdmissionQueue

| theorem | property |
|---|---|
| Invariance, EventsMintOnce | `IInv`, `OneTaskPerEvent` |
| QueueHolds, TypeCorrect | `Queue`, `TypeOK` |
| TicketsAreHeld | `PodsAreTicketed` |

`IInv` types the Tasks and says that two Tasks linked to one event are the same
Task, in a form without cardinalities. Every writer of a Task keeps its link or
cuts it (`KeptStep`, `WriteStep`); only the mint makes one, in the step in which
it looked for such a Task in the API. The proof needs nothing of the cache: the
lag of `seen`, and where a pass dies, do not matter.

`Queue` is about events and tickets. A pass works through the list it made
(`Listed`: what it listed still waits, in the pool it was listed for) and marks
the event it made a Task for (`Made`); an admitted event names its Task, a ticket
the one it was written for (`Named`); no two events have one place in the order
(`Numbered`, with `Bounded` for the count). `Ticketed` is the strengthening
`PodsAreTicketed` needs: a Task whose pod is up is in a live state, admitted, and
the cache shows it in the state it is in. So `reconcileDone`, which judges a
ticket by the cached Task, never finds the ticket of a running pod spent. That is
where the lag matters: the theorem holds for the modelled cache, at most one
write behind, and the last of the disagreements listed above is what two writes
behind would do.

### TurnLoop

| theorem | property |
|---|---|
| Invariance, TypeCorrect | `IInv`, `TypeOK` |
| EventsAreAccounted | `EventsAccounted` |
| WindowIsWithinUsage | `WindowWithinUsage` |

For any number of pods, turns, keys, arrivals and faults. Between the submission
of a turn and the drain, an event counts as told and is still queued; the drain
then takes it off. `EventsKept` puts what a pass still owes the queue (`Owed`) on
the books, so that a drain never takes more than its turn was told: with it the
accounting of each key is inductive. The lemmas are about the two operators on
queues: an append to a full queue drops the oldest (`appendEventCapped`), and a
drain removes of each key as many as were rendered, or all there are
(`drainRenderedEvents`); both are proved through ranks, with no recursion.
`WindowKept` adds to `WindowWithinUsage` that a callback which recorded its usage
has not charged the window for it yet.

### IssueIntake

`CountIsKept` (`CountKept`) and `ReentriesArePaidFor` (`ReentriesPaidFor`), for
any number of webhook replicas and any cap. The property says nothing of an
issue without a mirror, so it is not inductive: a new mirror starts at 0.
`CountKept` adds that the re-entries of a mirror are forgotten with it. A step
may change the pair in four ways (`Accounts`), and only the spending pass adds
to both, in one write, after its test of the cap.

### MROwnership

| theorem | property |
|---|---|
| Invariance, TypeCorrect | `IInv`, `TypeOK` |
| PostsAreSingle | `PostedOnce` |

For every set of cases and every bound. Threads act on what they read steps
ago, so the invariant says of each thread what it has in hand at each of its
steps (`Fit`): one that mints has a Task, one that works on the mirror has a
copy of it, one that delivers has comments. `WellOwned` says of the mirror that
no Task owns it twice and the controller is an owner; a thread that writes owners
reads the mirror in the same step. `ForgeKept` bounds what is posted: the marker
that a post leaves in the thread is looked for before a post is made again.

### MemoryStack

`CorpusIsKept`: `CorpusKept`, for any number of pushes, switches, faults and
deaths. `IInv` adds to it that whatever serves has its volume, and that the
claim "a full ingest was done" is held by three things: the recorded commit,
the result ConfigMap, and the name of a Job that is incremental. The case that
carries the proof is the teardown: the cascade of the cnpg cluster takes what
only it owns, and the pass strips the references of every volume before its
first deletion.

`TypeCorrect`: `TypeOK`. `TInv` ties each bound of a type to what is left of the
budget it came from: each head takes a push from those left, each generation a
switch. The index comes and goes with its object because an apply and a teardown
that stop half way are prefixes of one order. The set of cases is assumed finite
(`IsFiniteSet(Cases)`), because the bounds are maxima over it; that maxima exist
is proved from the least element of a set of naturals (`Least`), the form of
induction that is open to the provers.

### Only model-checked

Liveness, which is out of the prover's reach: the temporal properties of
`lifecycle_live`, `train_live`, `admission_live`, `turns_live`, `intake`,
`mrowner` and `memory`, each under the fairness above. The order of the queue and
the ceiling of pods enter the proofs only as far as types and tickets need them.

## Not modelled

- one-shot migrations of old objects (the retired unpark class, the retry-lane
  migration): they run once over objects of earlier versions;
- the fingerprint claim of an outcome and its lease: an accepted outcome is one
  step;
- forge clients, prompts, metrics, configuration, authentication: no state of
  the protocol; what they answer is a choice of the models;
- the values of deadlines and back-offs;
- labels, titles and texts written to the forge;
- of the turn loop: the wait for a workspace volume, the finalisation of
  reviews, notes about memory limits, account-usage windows in percent;
- of intake: comments by the bot, edits and labels, plain owners and heirs, folds
  of issues into an umbrella, documentation batches, merge requests closed by
  a reap;
- of ownership: reviews written by humans, a merge request gone upstream, semver
  labels, the close, park and edit intents of a pending comment, the upgrade of
  a declined take-over;
- of memory: `ingestEnabled: false`, storage checks, secrets, probes, monitoring,
  the deletion of a project, replica counts.

## Plan

1. done: `Stage`, `TaskLifecycle`, `MergeTrain`, `TrainPromise`,
   `AdmissionQueue`, `TurnLoop`, `IssueIntake`, `MROwnership`, `MemoryStack`, and
   the proofs named above;
2. done: a theorem for every invariant and action property of the runs; next,
   abstract specifications of the queue and of ownership and their refinement, as
   for the train;
3. `Outcome`: the fingerprint claim, the partial writes before the commit and
   the retry of a submission;
4. the composition of `AdmissionQueue` and `TurnLoop` at the ticket.

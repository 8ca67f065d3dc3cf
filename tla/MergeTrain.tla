----------------------------- MODULE MergeTrain -----------------------------
(***************************************************************************)
(* The merge train of one Task: StageDriver.ReconcileMerging lands the     *)
(* merge requests of spec.mergeOrder one after the other, ReconcileDeploying *)
(* watches their releases reach the cluster.  A pass of the driver reads   *)
(* the Task and the mirrors once and then talks to the forge, so it is     *)
(* split at every call it makes; humans, pushes, the mirror sync, the      *)
(* release jobs and the other writers of the Task run in between, and a    *)
(* pass may die anywhere.  What the train trusts, reviewedSHA, has three   *)
(* writers that hold no lock on each other or on the Task: the reviewer's  *)
(* outcome, the drain that posts it, and a maintainer's approval; each     *)
(* lands when it will.  Ownership, which verdict takes a Task on, and what *)
(* happens before the first submission, is module TaskLifecycle's.         *)
(***************************************************************************)
EXTENDS Naturals, Sequences, FiniteSets

CONSTANTS
  Repos,                \* the Task has one merge request in each
  Pinned,               \* the ones the helmfile pins a version of
  SlowChecks,           \* the ones whose release job shows up after the merge
  MaxHeadMoveReentries,
  MaxPushes             \* bound: pushes after the opening, all to one branch

ASSUME TrainAssumption ==
  /\ IsFiniteSet(Repos)
  /\ Pinned \subseteq Repos
  /\ SlowChecks \subseteq Repos
  /\ MaxHeadMoveReentries \in Nat
  /\ MaxPushes \in Nat

VARIABLES
  task,                 \* the Task object
  pr,                   \* the merge requests on the forge and their releases
  mr,                   \* their mirrors
  pass,                 \* the driver's pass in progress
  trained,              \* ghost: the order that all of the cursor was written
                        \* under, <<>> when there was more than one
  reviewed              \* ghost: the commits a review was given of

vars == <<task, pr, mr, pass, trained, reviewed>>

----------------------------------------------------------------------------
Stages == {"under-implementation", "awaiting-review", "merged", "deployed",
           "done"}

\* A park that a timer releases, or one that nothing releases here.
Parks == {"none", "timer", "final"}

\* What an agent may submit as mergeOrder: only coverage is validated.
Orders == UNION {[1..n -> Repos] : n \in 1..Cardinality(Repos)}

Covers(order, repos) == repos \subseteq {order[i] : i \in DOMAIN order}

Task == [stage : Stages, park : Parks, order : Orders \cup {<<>>},
         cursor : Nat, moves : Nat]

\* Commits are numbered per repository; no two repositories share one.
Heads == 1..(MaxPushes + 1)

\* A reviewedSHA that is no commit of this repository: empty, or another's.
Unreviewed == 0

\* cd: the release at the merge commit, from the job that is not there yet to
\* the version that runs on the cluster.  applied: an apply ran since the merge.
PR == [st : {"open", "merged", "closed"}, head : Heads,
       by : {"nobody", "train", "human"},
       cd : {"none", "building", "tagged", "pinned", "live"},
       applied : BOOLEAN]

Mirror == [st : {"open", "merged", "closed"}, rev : Heads \cup {Unreviewed},
           dep : BOOLEAN]

\* at: the call the pass makes next.  t and seen: the Task and the mirrors as
\* the pass read them.  cur: its cursor.  head: the live head it read.
NoPass == [at |-> "idle"]
Pass == {NoPass} \cup
  [at : {"repo", "state", "merge", "stamp", "release"},
   t : [order : Orders \cup {<<>>}, cursor : Nat, moves : Nat],
   seen : [Repos -> Mirror], cur : Nat, head : Heads \cup {Unreviewed}]

Init ==
  /\ task = [stage |-> "under-implementation", park |-> "none",
             order |-> <<>>, cursor |-> 0, moves |-> 0]
  /\ pr = [r \in Repos |-> [st |-> "open", head |-> 1, by |-> "nobody",
                            cd |-> "none", applied |-> FALSE]]
  /\ mr = [r \in Repos |-> [st |-> "open", rev |-> Unreviewed, dep |-> FALSE]]
  /\ pass = NoPass
  /\ trained = <<>>
  /\ reviewed = {}

AnyMerged(mirrors) == \E r \in Repos : mirrors[r].st = "merged"
OpenRepos(mirrors) == {r \in Repos : mirrors[r].st = "open"}

----------------------------------------------------------------------------
(* The two writers of the Task.  Both read it afresh: a pass decides on the *)
(* Task as it was, and the write is judged against the Task as it is.       *)

LegalMoves == {<<"under-implementation", "awaiting-review">>,
               <<"under-implementation", "merged">>,
               <<"awaiting-review", "under-implementation">>,
               <<"awaiting-review", "merged">>,
               <<"merged", "deployed">>,
               <<"merged", "awaiting-review">>,
               <<"merged", "under-implementation">>,
               <<"deployed", "done">>}

\* The mutation is written also when the transition is refused.
Enter(mutated, to) ==
  IF mutated.park = "none" /\ <<mutated.stage, to>> \in LegalMoves
    THEN [mutated EXCEPT !.stage = to] ELSE mutated

Park(t, class) == IF t.park = "none" THEN [t EXCEPT !.park = class] ELSE t

----------------------------------------------------------------------------
(* Before the train: submission and review. *)

\* submit_outcome(action=submitted): the order replaces the one before, in a
\* write of its own; the cursor is left alone.
Submit ==
  /\ task.stage = "under-implementation" /\ task.park = "none"
  /\ OpenRepos(mr) # {}
  /\ \E order \in Orders :
       LET written == [task EXCEPT !.order = order]
       IN  /\ Covers(order, OpenRepos(mr))
           /\ task' \in {written, Enter(written, "awaiting-review")}
  /\ UNCHANGED <<pr, mr, pass, trained, reviewed>>

\* deliverShippedMRs: everything merged on the forge meanwhile.
SubmitShipped ==
  /\ task.stage = "under-implementation" /\ task.park = "none"
  /\ \A r \in Repos : mr[r].st = "merged"
  /\ \E order \in Orders :
       /\ IF task.order = <<>> THEN Covers(order, Repos) ELSE order = task.order
       /\ task' = Enter([task EXCEPT !.order = order], "merged")
  /\ UNCHANGED <<pr, mr, pass, trained, reviewed>>

\* submit_outcome of the reviewer, as far as its checks: the commits it reports
\* cover every open merge request and are the live heads.
ReviewOutcome ==
  /\ task.stage = "awaiting-review" /\ task.park = "none"
  /\ OpenRepos(mr) # {}
  /\ reviewed' = reviewed \cup {<<r, pr[r].head>> : r \in OpenRepos(mr)}
  /\ UNCHANGED <<task, pr, mr, pass, trained>>

\* A maintainer approves a commit, the head or an earlier one; an approval that
\* names none stands for the head a mirror has.
ReviewApproved(r) ==
  /\ task.stage = "awaiting-review"
  /\ \E head \in 1..pr[r].head : reviewed' = reviewed \cup {<<r, head>>}
  /\ UNCHANGED <<task, pr, mr, pass, trained>>

\* reviewedSHA is written, one merge request at a time: by the outcome, again by
\* the drain once the review is posted, by the approval.  Each write may come
\* after pushes, after the other reviews, and after the Task went on.  Nobody
\* reads it of a merge request that is not open.
StampReviewed(r) ==
  /\ mr[r].st = "open"
  /\ \E head \in Heads :
       /\ <<r, head>> \in reviewed
       /\ mr' = [mr EXCEPT ![r].rev = head]
  /\ UNCHANGED <<task, pr, pass, trained, reviewed>>

\* ApplyReviewApproval stamps its one commit on every merge request it owns.
StampForeign(r) ==
  /\ mr[r].st = "open"
  /\ \E commit \in reviewed : commit[1] # r
  /\ mr' = [mr EXCEPT ![r].rev = Unreviewed]
  /\ UNCHANGED <<task, pr, pass, trained, reviewed>>

\* advanceAfterReview, and the end of ApplyReviewApproval: the Task goes on with
\* what the mirrors say by then, also when a write of the review was lost.
AdvanceAfterReview ==
  /\ task.stage = "awaiting-review" /\ task.park = "none"
  /\ reviewed # {}
  /\ \E to \in {"merged", "under-implementation"} : task' = Enter(task, to)
  /\ UNCHANGED <<pr, mr, pass, trained, reviewed>>

\* finalizeTerminalReview: everything merged while it waited for the review.
FinalizeAtReview ==
  /\ task.stage = "awaiting-review" /\ task.park = "none"
  /\ \A r \in Repos : mr[r].st = "merged"
  /\ task' = Enter(task, "merged")
  /\ UNCHANGED <<pr, mr, pass, trained, reviewed>>

\* A maintainer requests changes before anything merged, as the mirrors say.
ChangesRequested ==
  /\ task.stage \in {"awaiting-review", "merged"} /\ task.park = "none"
  /\ ~AnyMerged(mr)
  /\ task' = [Enter(task, "under-implementation") EXCEPT !.moves = 0]
  /\ UNCHANGED <<pr, mr, pass, trained, reviewed>>

----------------------------------------------------------------------------
(* A pass of ReconcileMerging. *)

\* A parked Task is driven as well.
BeginPass ==
  /\ pass = NoPass
  /\ task.stage = "merged"
  /\ pass' = [at |-> "repo", seen |-> mr,
              t |-> [order |-> task.order, cursor |-> task.cursor,
                     moves |-> task.moves],
              cur |-> task.cursor, head |-> Unreviewed]
  /\ UNCHANGED <<task, pr, mr, trained, reviewed>>

At(step) == pass # NoPass /\ pass.at = step

repo == pass.t.order[pass.cur + 1]
AtRepo == At("repo") /\ pass.cur < Len(pass.t.order)

\* The write that ends a pass; the cursor, when it is one of its fields.
EndPass == pass' = NoPass

WithCursor(t) == [t EXCEPT !.cursor = pass.cur]

TrainedOn ==
  trained' = CASE pass.cur = pass.t.cursor -> trained
               [] pass.cur # pass.t.cursor
                  /\ (pass.t.cursor = 0 \/ trained = pass.t.order) ->
                    pass.t.order
               [] OTHER -> <<>>

\* enterStageWithCursor with a transition
EnterWithCursor(mutated, to) ==
  /\ task' = Enter(WithCursor(mutated), to)
  /\ TrainedOn
  /\ EndPass

ParkTask(class) ==
  /\ task' = Park(task, class)
  /\ UNCHANGED trained
  /\ EndPass

\* Mutant: the repository the pass stopped at counts as done.
StallBeyond ==
  /\ task' = [task EXCEPT !.cursor = pass.cur + 1]
  /\ trained' = pass.t.order
  /\ EndPass

\* stallMerge: wait; the cursor is written when the pass moved it.
Stall ==
  /\ IF pass.cur # pass.t.cursor
       THEN task' = WithCursor(task) /\ TrainedOn
       ELSE UNCHANGED <<task, trained>>
  /\ EndPass

\* Mutant: resuming waits for a green release, too.
SkipReleased ==
  /\ AtRepo
  /\ pass.seen[repo].st = "merged"
  /\ pr[repo].cd \in {"tagged", "pinned", "live"}
  /\ pass' = [pass EXCEPT !.cur = @ + 1]
  /\ UNCHANGED <<task, pr, mr, trained, reviewed>>

\* Idempotent resume: what the mirror says is merged is passed over.
SkipMerged ==
  /\ AtRepo
  /\ pass.seen[repo].st = "merged"
  /\ pass' = [pass EXCEPT !.cur = @ + 1]
  /\ UNCHANGED <<task, pr, mr, trained, reviewed>>

\* Mutant: a repository without a merge request is passed over.
NoMergeRequestSkipped ==
  /\ AtRepo
  /\ pass.seen[repo].st = "closed"
  /\ pass' = [pass EXCEPT !.cur = @ + 1]
  /\ UNCHANGED <<task, pr, mr, trained, reviewed>>

\* mrForRepo finds none that is not closed: operator-error.
NoMergeRequest ==
  /\ AtRepo
  /\ pass.seen[repo].st = "closed"
  /\ ParkTask("final")
  /\ UNCHANGED <<pr, mr, reviewed>>

\* Mutant: the live head is not compared with the reviewed one.
ReadHeadUnchecked ==
  /\ AtRepo
  /\ pass.seen[repo].st = "open"
  /\ pass' = [pass EXCEPT !.at = "state", !.head = pr[repo].head]
  /\ UNCHANGED <<task, pr, mr, trained, reviewed>>

\* GetPRHead, the live head and not the mirror's.
ReadHead ==
  /\ AtRepo
  /\ pass.seen[repo].st = "open"
  /\ pr[repo].head = pass.seen[repo].rev
  /\ pass' = [pass EXCEPT !.at = "state", !.head = pr[repo].head]
  /\ UNCHANGED <<task, pr, mr, trained, reviewed>>

\* headMoved: the mirror goes back to unreviewed, then the Task to review.
\* The second write may fail; the counter is the one the pass read.
headMoved ==
  \/ /\ pass.t.moves >= MaxHeadMoveReentries
     /\ ParkTask("final")
     /\ UNCHANGED mr
  \/ /\ pass.t.moves < MaxHeadMoveReentries
     /\ mr' = [mr EXCEPT ![repo].rev = Unreviewed]
     /\ \/ EnterWithCursor([task EXCEPT !.moves = pass.t.moves + 1],
                           "awaiting-review")
        \/ EndPass /\ UNCHANGED <<task, trained>>

HeadMoved ==
  /\ AtRepo
  /\ pass.seen[repo].st = "open"
  /\ pr[repo].head # pass.seen[repo].rev
  /\ headMoved
  /\ UNCHANGED <<pr, reviewed>>

\* GetPRState: merged on the forge and the mirror does not know.
FoundMerged ==
  /\ At("state")
  /\ pr[repo].st = "merged"
  /\ mr' = [mr EXCEPT ![repo].st = "merged"]
  /\ pass' = [pass EXCEPT !.at = "repo", !.cur = @ + 1,
                          !.seen[repo].st = "merged"]
  /\ UNCHANGED <<task, pr, trained, reviewed>>

Unmerged == At("state") /\ pr[repo].st # "merged"

\* enterCIRed, and mergeConflict: back to an agent, unless a sibling merged or
\* the budget is spent.  Only the conflict carries the cursor.
Bounced ==
  /\ Unmerged
  /\ \/ AnyMerged(pass.seen) /\ ParkTask("timer")
     \/ /\ ~AnyMerged(pass.seen)
        /\ \/ ParkTask("final")
           \/ EnterWithCursor(task, "under-implementation")
           \/ /\ task' = Enter(task, "under-implementation")
              /\ UNCHANGED trained
              /\ EndPass
  /\ UNCHANGED <<pr, mr, reviewed>>

\* The checks run, or the forge blocks the merge, or Merge answers that it
\* conflicts or that the merge request is not open.
MergeWaits ==
  /\ Unmerged \/ At("merge")
  /\ Stall
  /\ UNCHANGED <<pr, mr, reviewed>>

ReadyToMerge ==
  /\ Unmerged
  /\ pr[repo].st = "open"
  /\ pass' = [pass EXCEPT !.at = "merge"]
  /\ UNCHANGED <<task, pr, mr, trained, reviewed>>

Landed(p, who) ==
  [p EXCEPT !.st = "merged", !.by = who]
Released(r, p) ==
  [p EXCEPT !.cd = IF r \in SlowChecks THEN "none" ELSE "building"]

\* Mutant: the merge is not pinned to the head that was read.
MergeUnpinned ==
  /\ At("merge")
  /\ pr[repo].st = "open"
  /\ pr' = [pr EXCEPT ![repo] = Released(repo, Landed(@, "train"))]
  /\ pass' = [pass EXCEPT !.at = "stamp"]
  /\ UNCHANGED <<task, mr, trained, reviewed>>

\* mergePRSquash, pinned to the head that was read.
Merge ==
  /\ At("merge")
  /\ pr[repo].st = "open"
  /\ pr[repo].head = pass.head
  /\ pr' = [pr EXCEPT ![repo] = Released(repo, Landed(@, "train"))]
  /\ pass' = [pass EXCEPT !.at = "stamp"]
  /\ UNCHANGED <<task, mr, trained, reviewed>>

\* 409: the head moved since it was read.
MergeHeadMoved ==
  /\ At("merge")
  /\ pr[repo].st = "open"
  /\ pr[repo].head # pass.head
  /\ headMoved
  /\ UNCHANGED <<pr, reviewed>>

MergeAuthRefused ==
  /\ At("merge")
  /\ ParkTask("final")
  /\ UNCHANGED <<pr, mr, reviewed>>

stampMerged ==
  /\ At("stamp")
  /\ mr' = [mr EXCEPT ![repo].st = "merged"]
  /\ pass' = [pass EXCEPT !.at = "release", !.seen[repo].st = "merged"]
  /\ UNCHANGED <<task, pr, trained, reviewed>>

\* releaseGreen: no job at the commit counts as green.
ReleaseGreen ==
  /\ At("release")
  /\ pr[repo].cd # "building"
  /\ pass' = [pass EXCEPT !.at = "repo", !.cur = @ + 1]
  /\ UNCHANGED <<task, pr, mr, trained, reviewed>>

ReleaseWaits ==
  /\ At("release")
  /\ pr[repo].cd = "building"
  /\ Stall
  /\ UNCHANGED <<pr, mr, reviewed>>

MergeComplete ==
  /\ At("repo")
  /\ pass.cur >= Len(pass.t.order)
  /\ EnterWithCursor(task, "deployed")
  /\ UNCHANGED <<pr, mr, reviewed>>

\* A call or a write failed, or the operator died.
Abort ==
  /\ pass # NoPass
  /\ EndPass
  /\ UNCHANGED <<task, pr, mr, trained, reviewed>>

----------------------------------------------------------------------------
(* Deploying. *)

\* The tag that LatestSemverTag finds is the one of before while the release
\* has not cut its own, and the applied pin is never behind that one.
AppliedPinAtTag(p) == p.cd \notin {"tagged", "pinned"}

\* resolveDeployed, and stampDeployed.
ResolveDeployed(r) ==
  /\ task.stage = "deployed"
  /\ mr[r].st = "merged" /\ ~mr[r].dep
  /\ r \in Pinned => pr[r].applied /\ AppliedPinAtTag(pr[r])
  /\ mr' = [mr EXCEPT ![r].dep = TRUE]
  /\ UNCHANGED <<task, pr, pass, trained, reviewed>>

\* parkOnStalledFanout: the tag is cut and its pin never arrives.
FanoutStalled(r) ==
  /\ task.stage = "deployed"
  /\ r \in Pinned
  /\ mr[r].st = "merged" /\ ~mr[r].dep
  /\ pr[r].cd = "tagged"
  /\ task' = Park(task, "timer")
  /\ UNCHANGED <<pr, mr, pass, trained, reviewed>>

\* Mutant: the order decides what has to be merged.
DeliverOrdered ==
  /\ task.stage = "deployed"
  /\ \A i \in DOMAIN task.order :
       mr[task.order[i]].st = "merged" /\ mr[task.order[i]].dep
  /\ task' = Enter(task, "done")
  /\ UNCHANGED <<pr, mr, pass, trained, reviewed>>

\* CloseIssuesOnDelivery: every merge request the Task owns, whatever the
\* order names.
Deliver ==
  /\ task.stage = "deployed"
  /\ \A r \in Repos : mr[r].st = "merged" /\ mr[r].dep
  /\ task' = Enter(task, "done")
  /\ UNCHANGED <<pr, mr, pass, trained, reviewed>>

----------------------------------------------------------------------------
(* The clocks, and the world. *)

\* merge-timeout and deploy-timeout: the clock, the release and the end of the
\* budget.  The retry lane's parks are released the same way.
Timeout ==
  /\ task.stage \in {"merged", "deployed"}
  /\ task.park = "none"
  /\ task' = [task EXCEPT !.park = "timer"]
  /\ UNCHANGED <<pr, mr, pass, trained, reviewed>>

TimerUnpark ==
  /\ task.park = "timer"
  /\ \E class \in {"none", "final"} : task' = [task EXCEPT !.park = class]
  /\ UNCHANGED <<pr, mr, pass, trained, reviewed>>

Push(r) ==
  /\ pr[r].st = "open"
  /\ pr[r].head < MaxPushes + 1
  /\ \A q \in Repos \ {r} : pr[q].head = 1
  /\ pr' = [pr EXCEPT ![r].head = @ + 1]
  /\ UNCHANGED <<task, mr, pass, trained, reviewed>>

HumanMerge(r) ==
  /\ pr[r].st = "open"
  /\ pr' = [pr EXCEPT ![r] = Released(r, Landed(@, "human"))]
  /\ UNCHANGED <<task, mr, pass, trained, reviewed>>

ForgeClose(r) ==
  /\ pr[r].st = "open"
  /\ pr' = [pr EXCEPT ![r].st = "closed"]
  /\ UNCHANGED <<task, mr, pass, trained, reviewed>>

\* SyncMergeRequest
MirrorSync(r) ==
  /\ mr[r].st # pr[r].st
  /\ mr' = [mr EXCEPT ![r].st = pr[r].st]
  /\ UNCHANGED <<task, pr, pass, trained, reviewed>>

\* The release job appears and cuts its tag, having run until it is green; the
\* tag is pinned in the helmfile.
ReleaseJob(r) ==
  /\ pr[r].st = "merged"
  /\ \E step \in {<<"none", "building">>, <<"building", "tagged">>,
                  <<"tagged", "pinned">>} :
       /\ pr[r].cd = step[1]
       /\ step[2] = "pinned" => r \in Pinned
       /\ pr' = [pr EXCEPT ![r].cd = step[2]]
  /\ UNCHANGED <<task, mr, pass, trained, reviewed>>

\* One apply carries every pin.
Apply ==
  /\ \E r \in Pinned : pr[r].st = "merged"
                         /\ (~pr[r].applied \/ pr[r].cd = "pinned")
  /\ pr' = [r \in Repos |-> IF r \notin Pinned \/ pr[r].st # "merged" THEN pr[r]
              ELSE [pr[r] EXCEPT !.applied = TRUE,
                                 !.cd = IF @ = "pinned" THEN "live" ELSE @]]
  /\ UNCHANGED <<task, mr, pass, trained, reviewed>>

----------------------------------------------------------------------------
Reviewing ==
  \/ ReviewOutcome \/ AdvanceAfterReview
  \/ \E r \in Repos : ReviewApproved(r) \/ StampReviewed(r) \/ StampForeign(r)

Merging ==
  \/ SkipMerged \/ NoMergeRequest \/ ReadHead \/ HeadMoved \/ FoundMerged
  \/ Bounced \/ MergeWaits \/ ReadyToMerge \/ Merge \/ MergeHeadMoved
  \/ MergeAuthRefused \/ stampMerged \/ ReleaseGreen \/ ReleaseWaits
  \/ MergeComplete

Deploying ==
  \/ Deliver
  \/ \E r \in Repos : ResolveDeployed(r) \/ FanoutStalled(r)

World ==
  \/ Timeout \/ TimerUnpark \/ Apply
  \/ \E r \in Repos : \/ Push(r) \/ HumanMerge(r) \/ ForgeClose(r)
                      \/ MirrorSync(r) \/ ReleaseJob(r)

Next ==
  \/ Submit \/ SubmitShipped \/ Reviewing \/ FinalizeAtReview \/ ChangesRequested
  \/ BeginPass \/ Merging \/ Abort \/ Deploying \/ World

Spec == Init /\ [][Next]_vars

(***************************************************************************)
(* Fairness: the controller requeues the Task every minute, so a pass      *)
(* begins; the calls a pass makes return; and from some point on passes no *)
(* longer die.  Nothing is assumed of the forge, of release jobs or of     *)
(* anybody else.                                                           *)
(***************************************************************************)
Fairness ==
  /\ WF_vars(BeginPass)
  /\ WF_vars(Merging)
  /\ <>[][~Abort]_vars
FairSpec == Spec /\ Fairness

----------------------------------------------------------------------------
(* Properties. *)

\* The cursor stays a natural number and a pass holds what it read, whatever it
\* is interrupted by.
TypeOK ==
  /\ task \in Task
  /\ pr \in [Repos -> PR]
  /\ mr \in [Repos -> Mirror]
  /\ pass \in Pass
  /\ trained \in Orders \cup {<<>>}
  /\ reviewed \subseteq Repos \X Heads

\* "A head nobody reviewed is never merged": the commit the train lands is one
\* the reviewer reported or a maintainer approved, however pushes fall between
\* the report, the writes of reviewedSHA and the calls of a pass, whenever those
\* writes land, and although an approval stamps merge requests its commit is
\* not of (the check against reviewedSHA and the pin on the squash).
MergedWhatWasReviewed ==
  \A r \in Repos : pr[r].by = "train" => <<r, pr[r].head>> \in reviewed

\* A cursor that was written under the order the Task has now is never ahead
\* of the forge: every repository below it is merged, through crashes, stalls,
\* bounces and writes that arrive after the Task moved on.
CursorHonest ==
  trained = task.order =>
    \A i \in 1..task.cursor : pr[task.order[i]].st = "merged"

\* Delivery does not trust the train: a finished Task has every merge request
\* it owns merged on the forge, also the ones its order does not name or a
\* stale cursor passed over.
DeliveredIsMerged ==
  task.stage = "done" => \A r \in Repos : pr[r].st = "merged" /\ mr[r].dep

\* The driver keeps the promise of module TrainPromise: seen from the forge,
\* whatever passes, crashes, parks and late writes there are, a merge request is
\* landed once, open, at a reviewed head, and delivery comes when all merged.
Promise == INSTANCE TrainPromise WITH
  forge <- [r \in Repos |-> [st |-> pr[r].st, head |-> pr[r].head, by |-> pr[r].by]],
  delivered <- task.stage = "done"
TrainPromised == Promise!Spec

\* The sequential order: when the train lands a repository, everything its
\* order puts before it is merged, unless the cursor it started from was
\* written under another order.
LandsInOrder ==
  [][\A r \in Repos :
       /\ pr[r].st = "open" /\ pr'[r].by = "train"
       /\ pass.t.cursor > 0 => trained = pass.t.order
       => \A i \in 1..pass.cur : pr[pass.t.order[i]].st = "merged"]_vars

\* A Task at merged whose merge requests all merged on the forge gets past the
\* train, whatever its release jobs do and wherever passes die.
TrainArrives ==
  (task.stage = "merged" /\ \A r \in Repos : pr[r].st = "merged")
    ~> (task.stage # "merged" \/ task.park # "none")

\* What resolveDeployed says of the tag it reads: it is the one of this merge,
\* so what the train landed and delivered runs on the cluster.
DeliveredIsLive ==
  task.stage = "done" =>
    \A r \in Pinned : pr[r].by = "train" => pr[r].cd = "live"

=============================================================================

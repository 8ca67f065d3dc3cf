--------------------------- MODULE TaskLifecycle ---------------------------
(***************************************************************************)
(* The life of one Task: every handler of the operator that moves it       *)
(* through the states of module Stage, parks it or releases it.  A Task is *)
(* one Kubernetes object, so each write of it is atomic; the handlers of   *)
(* different controllers and of the REST server interleave.  A move is     *)
(* judged by Enter on the Task as it is when it is written; a park is      *)
(* decided on a copy and lands on whatever the Task has become.  The       *)
(* forge, the humans and the agents are the environment.                   *)
(***************************************************************************)
EXTENDS Stage, FiniteSets

CONSTANTS
  MintKinds,       \* the kinds of Task this instance mints
  MaxComments,     \* bound: comments humans write
  MaxPushes,       \* bound: pushes of others to tatara's merge requests
  SlowParks,       \* bound: the reasons whose write may be held up
  Answers          \* bound: what a pass of the sweep may find, room and a read

ASSUME LifecycleAssumption ==
  /\ MintKinds \subseteq Kinds
  /\ MaxComments \in Nat
  /\ MaxPushes \in Nat
  /\ SlowParks \subseteq ParkReasons
  /\ Answers \subseteq BOOLEAN

VARIABLES
  task,            \* the Task object
  mrs,             \* the mirrors of its merge requests
  issue,           \* the mirror of its driving issue
  grant,           \* the approval on the issue
  late,            \* a park that is decided and not written yet
  served,          \* the sweep's pass has room, and a read, for this Task
  comments,        \* ghost: comments written so far
  pushes,          \* ghost: pushes of others so far
  released,        \* ghost: releases of a park that waits for a human
  waved            \* ghost: the ship gate opened with nothing judged

rest == <<served, comments, pushes, released, waved>>
env == <<late, rest>>
vars == <<task, mrs, issue, grant, late, served, comments, pushes, released,
          waved>>

\* ownedMergeRequests: the mirrors this Task is the controller owner of.
owned == [m \in MRs |-> IF mrs[m].held THEN mrs[m] ELSE NoMR]

HasRefs == issue # "none" \/ Owned(mrs) # {}
Running == ~Parked(task) /\ ~TaskDone(task) /\ task.state # Create

\* A reconcile of the clocks: a CI hold is handled first and excludes the rest.
Clocked == Running /\ ~task.ciWait

----------------------------------------------------------------------------
(* The two writers every controller goes through. *)

\* EnterStage: no write at all when the Task is already there or the move is
\* illegal; past that test the caller's mutation is written, also when Enter
\* then refuses a parked Task.
EnterStage(t, own, to, mutated) ==
  IF to = t.state \/ ~LegalFor(t, own, to) THEN t ELSE Enter(mutated, own, to)

ParkTask(t, reason, mutated) == IF Parked(t) THEN t ELSE Park(mutated, reason)

NoPark == [reason |-> NotParked, unhold |-> FALSE]

\* ParkTask looks at the park of its caller's copy; the write that follows
\* re-reads the Task and runs the mutation and Park on it, whatever it is by
\* then.  One such write is under way at a time here.
Decided(reason, mutated) ==
  /\ ~Parked(task)
  /\ late = NoPark
  /\ reason \in SlowParks
  /\ late' = [reason |-> reason, unhold |-> task.ciWait /\ ~mutated.ciWait]
  /\ UNCHANGED task

ParkLands ==
  /\ late # NoPark
  /\ task' = Park([task EXCEPT !.ciWait = @ /\ ~late.unhold], late.reason)
  /\ late' = NoPark
  /\ UNCHANGED <<mrs, issue, grant, rest>>

Parking(reason) ==
  \/ task' = ParkTask(task, reason, task) /\ UNCHANGED late
  \/ Decided(reason, task)

\* enterCIRedWith and enterMergeConflict: a charge with no move is written too.
TakeBounce(t, own, edge) ==
  CASE edge.to = ParkTarget -> ParkTask(t, edge.reason, edge.task)
    [] edge.to = t.state -> edge.task
    [] OTHER -> EnterStage(t, own, edge.to, edge.task)

Bounce(own, edge) ==
  \/ task' = TakeBounce(task, own, edge) /\ UNCHANGED late
  \/ edge.to = ParkTarget /\ Decided(edge.reason, edge.task)

----------------------------------------------------------------------------
(* Minting and triage. *)

Sources(kind) == CASE kind = "implement" -> {"issue"}
                   [] kind \in {"review", "takeover"} -> {"pr"}
                   [] kind = "upgrade" -> {"none", "pr"}
                   [] OTHER -> {"none"}

NewTask(kind, src, relic) ==
  [kind |-> kind, src |-> src, relic |-> relic,
   state |-> Create, park |-> NotParked, parkedFrom |-> Create, events |-> 0,
   mergeRe |-> 0, deployRe |-> 0, headMoveRe |-> 0, ciRedRe |-> 0,
   conflictRe |-> 0, rounds |-> 0, recoveries |-> 0,
   blocker |-> NotParked, attempts |-> 0, armed |-> FALSE, cursor |-> 0,
   ciWait |-> FALSE, handoff |-> FALSE]

BoundMR(kind) ==
  [NoMR EXCEPT !.st = "open", !.held = TRUE,
               !.own = IF kind = "review" THEN "external" ELSE "tatara"]

\* The mint creates the Task and then binds its source; a crash in between
\* leaves a Task without references.
Init ==
  /\ \E kind \in MintKinds : \E src \in Sources(kind) :
       \E relic \in {"none", "delivered", "stopped"} :
         /\ task = NewTask(kind, src, relic)
         /\ issue \in IF src = "issue" THEN {"none", "open"} ELSE {"none"}
         /\ mrs \in {NoMRs} \cup
              IF src = "pr" THEN {[NoMRs EXCEPT ![m] = BoundMR(kind)] : m \in MRs}
                            ELSE {}
  /\ grant = "none"
  /\ comments = 0
  /\ pushes = 0
  /\ released = 0
  /\ late = NoPark
  /\ served \in Answers
  /\ waved = FALSE

InitialState(t) ==
  IF \/ t.kind \in {"documentation", "takeover"}
     \/ t.kind = "upgrade" /\ ~AdoptedUpgrade(t)
    THEN "under-implementation" ELSE "new"

InitialParks(t) ==
  {NotParked} \cup IF t.kind \in {"implement", "review"}
                     THEN {"backlog-sweep"} ELSE {}

\* The reset guard: a stateless Task that finished before is stamped finished.
TerminalReset ==
  /\ task.state = Create
  /\ task.relic # "none"
  /\ task' = EnterStage(task, NoMRs,
               IF task.relic = "delivered" THEN "done" ELSE "rejected", task)
  /\ UNCHANGED <<mrs, issue, grant, env>>

Mint ==
  /\ task.state = Create
  /\ task.relic = "none"
  /\ \E park \in InitialParks(task) :
       LET entered == EnterStage(task, NoMRs, InitialState(task), task)
       IN  task' = IF park = NotParked THEN entered ELSE Park(entered, park)
  /\ UNCHANGED <<mrs, issue, grant, env>>

triageTarget(t) ==
  IF t.kind = "review" \/ AdoptedUpgrade(t) THEN "awaiting-review" ELSE "refined"

\* repairSourceBinding; FALSE when the forge or the API refuses.
Repaired ==
  \/ /\ task.src = "issue"
     /\ issue' = "open"
     /\ UNCHANGED mrs
  \/ /\ task.src = "pr"
     /\ \E m \in MRs : mrs' = [mrs EXCEPT ![m] = BoundMR(task.kind)]
     /\ UNCHANGED issue

BindingMissing == task.src # "none" /\ ~HasRefs

MRBindingBackstop ==
  /\ Running
  /\ BindingMissing
  /\ \/ Repaired /\ UNCHANGED <<task, late>>
     \/ Parking("awaiting-human") /\ UNCHANGED <<mrs, issue>>
  /\ UNCHANGED <<grant, rest>>

ParkedBindingRepair ==
  /\ task.park = "awaiting-human"
  /\ BindingMissing
  /\ Repaired
  /\ UNCHANGED <<task, grant, env>>

\* reconcileTriaging: mints the issue mirror, unless no enrolled repository
\* matches the source, and routes by kind.
Triage ==
  /\ Clocked
  /\ task.state = "new"
  /\ task' = EnterStage(task, NoMRs, triageTarget(task), task)
  /\ issue' \in {issue} \cup IF task.src = "issue" /\ issue = "none"
                             THEN {"open"} ELSE {}
  /\ UNCHANGED <<mrs, grant, env>>

TriageRefused ==
  /\ Clocked
  /\ task.state = "new"
  /\ \E reason \in {"name-too-long", "triage-stalled"} : Parking(reason)
  /\ UNCHANGED <<mrs, issue, grant, rest>>

----------------------------------------------------------------------------
(* What the agents submit: postOutcome and the handler of each kind.       *)

\* postOutcome refuses a finished Task, a parked one, and another agent kind.
Accepts(kinds) ==
  /\ Running
  /\ AgentKindFor(task.state, task.kind) \in kinds

CodeKinds == {"implement", "documentation", "upgrade"}

Opened(m) == [mrs EXCEPT ![m] = [NoMR EXCEPT !.st = "open", !.held = TRUE]]

\* Mutant: no ship gate.
OpenMRUngated(m) ==
  /\ Accepts(CodeKinds)
  /\ mrs[m].st = "absent"
  /\ mrs' = Opened(m)
  /\ UNCHANGED <<task, issue, grant, env>>

shipGateApplies == AgentKindFor(task.state, task.kind) = "implement"

\* mr_write(action=open).  The ship gate asks an open issue for an approval; it
\* has nothing to ask when no issue is open, and it fails open when the project
\* or the issues cannot be read.
OpenMR(m) ==
  /\ Accepts(CodeKinds)
  /\ mrs[m].st = "absent"
  /\ \/ /\ shipGateApplies /\ issue = "open" => grant # "none"
        /\ waved' = (waved \/ (shipGateApplies /\ issue # "open"))
     \/ shipGateApplies /\ waved' = TRUE
  /\ mrs' = Opened(m)
  /\ UNCHANGED <<task, issue, grant, late, served, comments, pushes, released>>

ImplementAt(state) == Accepts({"implement"}) /\ task.state = state

\* submitted, refused because the plan changed, an issue is not granted, or its
\* automatic grant does not cover a change of this significance.
SubmitRefused ==
  /\ ImplementAt("under-implementation")
  /\ issue # "none"
  /\ task' = Enter(task, owned, "refined")
  /\ UNCHANGED <<mrs, issue, grant, env>>

\* The tests a submission passes before its merge requests are looked at.  The
\* plan's pin and the ship gate both fail open: they hold no submission they
\* cannot read the issues of, and only the state is tested without a read.
Submittable ==
  /\ Accepts(CodeKinds)
  /\ shipGateApplies => task.state # "refined"

SubmitToReview ==
  /\ Submittable
  /\ openMRs(owned) # {}
  /\ task' = Enter(task, owned, "awaiting-review")
  /\ UNCHANGED <<mrs, issue, grant, env>>

\* The checks are still running: the submission is held where it is.
SubmitHeld ==
  /\ Submittable
  /\ openMRs(owned) # {}
  /\ task' = [task EXCEPT !.ciWait = TRUE]
  /\ UNCHANGED <<mrs, issue, grant, env>>

\* deliverShippedMRs: the work had already merged on the forge.
SubmitShipped ==
  /\ Submittable
  /\ openMRs(owned) = {}
  /\ AllMRsMerged(owned) /\ reviewGateOpen(owned)
  /\ task' = Enter(task, owned, "merged")
  /\ UNCHANGED <<mrs, issue, grant, env>>

Declined ==
  /\ Accepts(CodeKinds)
  /\ IF task.kind = "documentation"
       THEN task' = Enter(task, owned, "done") /\ UNCHANGED late
       ELSE Parking("implement-declined")
  /\ UNCHANGED <<mrs, issue, grant, rest>>

Discuss ==
  /\ Accepts(CodeKinds)
  /\ Parking("awaiting-human")
  /\ UNCHANGED <<mrs, issue, grant, rest>>

\* The issues are closed, as far as the forge lets it, before the Task moves.
GateRejected ==
  /\ Accepts({"implement"})
  /\ task' = Enter(task, owned, "rejected")
  /\ issue' \in {issue, IF issue = "open" THEN "closed" ELSE issue}
  /\ UNCHANGED <<mrs, grant, env>>

\* The grant is written on the issues before the Task is moved; Enter refuses a
\* Task that is not at the gate, and the grant stays.
GateApproved ==
  /\ Accepts({"implement"})
  /\ issue = "open"
  /\ grant' = "given"
  /\ task' = Enter(task, owned, "under-implementation")
  /\ UNCHANGED <<mrs, issue, env>>

\* brainstorm, incident and refine end where they started.
NonCodeOutcome ==
  /\ Accepts(refinedDoneKinds)
  /\ \/ task' = Enter(task, NoMRs, "done") /\ UNCHANGED late
     \/ /\ task.kind = "incident"
        /\ task' = Enter(task, NoMRs, "rejected") /\ UNCHANGED late
     \/ task.kind = "refine" /\ Parking("fold-adoption-unverified")
  /\ UNCHANGED <<mrs, issue, grant, rest>>

\* review: a verdict and a pending review on every open merge request, then
\* the outcome condition on the Task.  The Task moves when the reviews drain.
ReviewOutcome ==
  /\ Accepts({"review"})
  /\ openMRs(owned) # {}
  /\ \E verdict \in {"approved", "needs-changes"} :
       mrs' = [m \in MRs |-> IF m \in openMRs(owned)
                 THEN [mrs[m] EXCEPT !.verdict = verdict, !.pend = verdict,
                                     !.cur = TRUE]
                 ELSE mrs[m]]
  /\ task' = [task EXCEPT !.handoff = task.state = "awaiting-review"]
  /\ UNCHANGED <<issue, grant, env>>

\* MinimalFailPatch: the object no longer fits; the reason overwrites any park
\* and parkedFromState is not written.
ObjectTooLarge ==
  /\ Accepts(Kinds)
  /\ task' = [task EXCEPT !.park = "object-too-large"]
  /\ UNCHANGED <<mrs, issue, grant, env>>

----------------------------------------------------------------------------
(* The review is posted, and the Task advances.                            *)

terminalMREdge(own) == IF AllMRsMerged(own) THEN "done" ELSE "rejected"

\* externalTerminalEdge: where merge requests finished on the forge send the
\* Task, "" when they do not.
externalTerminalEdge(t, own) ==
  CASE ~AllMRsTerminal(own) -> ""
    [] AllMRsTerminal(own) /\ t.kind = "review" -> terminalMREdge(own)
    [] AllMRsTerminal(own) /\ t.kind # "review" /\ ~AllMRsMerged(own) ->
         "rejected"
    [] OTHER -> IF reviewGateOpen(own) THEN "merged" ELSE ""

reviewReady(t, own) ==
  \/ t.kind = "review" /\ AllMRsTerminal(own)
  \/ reviewGateOpen(own)

NeedsChanges(own) ==
  \E m \in Owned(own) : own[m].verdict = "needs-changes" /\ own[m].st # "merged"

reviewAdvanceEdge(t, own) ==
  CASE t.kind = "review" /\ AllMRsTerminal(own) ->
         Edge(terminalMREdge(own), "", t)
    [] t.kind = "review" /\ ~AllMRsTerminal(own) ->
         Edge(ParkTarget, "awaiting-human", t)
    [] t.kind # "review" /\ NeedsChanges(own) ->
         Edge("under-implementation", "", t)
    [] OTHER -> Edge("merged", "", t)

\* The advance; red CI at the reviewed head turns a merge into a bounce.
AdvanceEdges(t, own) ==
  LET edge == reviewAdvanceEdge(t, own)
  IN  {edge} \cup IF edge.to = "merged" THEN {CIRed(t, own)} ELSE {}

Advance(own) == \E edge \in AdvanceEdges(task, own) : Bounce(own, edge)

Settled(m) == [mrs EXCEPT ![m].verdict = mrs[m].pend, ![m].pend = "none",
                          ![m].cur = TRUE]
Cleared(m) == [mrs EXCEPT ![m].pend = "none"]
ownedIn(all) == [m \in MRs |-> IF all[m].held THEN all[m] ELSE NoMR]

\* DrainPendingReview.  The test is on the state alone: a parked Task at
\* awaiting-review drains too.  The mirror is written first, and the operator
\* may die before the Task is: no later drain comes back to it.
DrainPendingReview(m) ==
  /\ mrs[m].st # "absent" /\ mrs[m].held /\ mrs[m].pend # "none"
  /\ \/ /\ task.state # "awaiting-review"
        /\ mrs' = Cleared(m)
        /\ UNCHANGED <<task, late>>
     \/ /\ task.state = "awaiting-review"
        /\ mrs' = Cleared(m)
        /\ UNCHANGED <<task, late>> \/ Parking("review-post-refused")
     \/ /\ task.state = "awaiting-review"
        /\ mrs' = Settled(m)
        /\ \/ UNCHANGED <<task, late>>
           \/ /\ reviewReady(task, ownedIn(Settled(m)))
              /\ Advance(ownedIn(Settled(m)))
  /\ UNCHANGED <<issue, grant, rest>>

ApplyReviewChangesRequested ==
  /\ ~anyMerged(owned)
  /\ Owned(owned) # {}
  /\ CanReenterOnReview(task, owned)
  /\ task' = ReenterOnReviewChangesRequested(task, owned)
  /\ UNCHANGED <<mrs, issue, grant, env>>

\* ApplyReviewApproval settles every owned merge request before it moves the
\* Task, all of them at the commit of the one that was approved; the writes
\* stay when a park refuses the move.
ApplyReviewApproval ==
  /\ task.kind # "review"
  /\ task.state = "awaiting-review"
  /\ Owned(owned) # {}
  /\ \E approved \in Owned(owned) :
       LET settled == [m \in MRs |-> IF m \in Owned(owned)
             THEN [mrs[m] EXCEPT !.verdict = "approved", !.pend = "none",
                                 !.cur = m = approved]
             ELSE mrs[m]]
       IN  /\ mrs' = settled
           /\ task' = Enter(task, ownedIn(settled), "merged")
  /\ UNCHANGED <<issue, grant, env>>

\* ApplyIssueClosedStop
IssueClosed ==
  /\ issue = "open"
  /\ issue' = "closed"
  /\ task' = IF ~Parked(task) /\ task.state \in issueClosedStopStates
               THEN Enter(task, NoMRs, "rejected") ELSE task
  /\ UNCHANGED <<mrs, grant, env>>

----------------------------------------------------------------------------
(* reconcileClocks, reconcileCaps and the pod stages.                      *)

AtReview == Clocked /\ task.state = "awaiting-review"

\* MRRefsHandedOver: every reference is another Task's now.
HandedOver == Owned(mrs) # {} /\ \A m \in Owned(mrs) : ~mrs[m].held

FinalizeAtReview ==
  /\ AtReview
  /\ externalTerminalEdge(task, owned) # ""
  /\ task' = EnterStage(task, owned, externalTerminalEdge(task, owned), task)
  /\ UNCHANGED <<mrs, issue, grant, env>>

TakenOver == task.kind = "review" /\ HandedOver

FinalizeTakenOver ==
  /\ AtReview
  /\ TakenOver
  /\ task' = EnterStage(task, owned, "rejected", task)
  /\ UNCHANGED <<mrs, issue, grant, env>>

NotFinalized == externalTerminalEdge(task, owned) = "" /\ ~TakenOver

CIRedAtReview ==
  /\ AtReview
  /\ NotFinalized
  /\ openMRs(owned) # {}
  /\ Bounce(owned, CIRed(task, owned))
  /\ UNCHANGED <<mrs, issue, grant, rest>>

\* The outcome is committed and every review is posted: the advance that the
\* drain owed is driven again.
RedriveHandoff ==
  /\ AtReview
  /\ NotFinalized
  /\ task.handoff
  /\ reviewReady(task, owned)
  /\ Advance(owned)
  /\ UNCHANGED <<mrs, issue, grant, rest>>

\* Mutant: the deadline is kept for review Tasks only.
HandoffDeadlineReviews ==
  /\ AtReview
  /\ NotFinalized
  /\ task.kind = "review"
  /\ task.handoff
  /\ ~reviewReady(task, owned)
  /\ Parking("handoff-stalled")
  /\ UNCHANGED <<mrs, issue, grant, rest>>

HandoffDeadline ==
  /\ AtReview
  /\ NotFinalized
  /\ task.handoff
  /\ ~reviewReady(task, owned)
  /\ Parking("handoff-stalled")
  /\ UNCHANGED <<mrs, issue, grant, rest>>

\* A committed outcome that can still advance keeps the clocks below off.
PastHandoff ==
  /\ Clocked
  /\ task.state = "awaiting-review" =>
       NotFinalized /\ ~(task.handoff /\ reviewReady(task, owned))

ResidencyExceeded ==
  /\ PastHandoff
  /\ Live(task.state)
  /\ Parking("stage-deadline")
  /\ UNCHANGED <<mrs, issue, grant, rest>>

onElapse(state) == CASE state = "new" -> "triage-stalled"
                     [] state = "merged" -> "merge-timeout"
                     [] state = "deployed" -> "deploy-timeout"
                     [] OTHER -> "awaiting-human"

\* The armed clock runs out.  admission-starved is the clock of a live state
\* with no pod.  An idle agent that asked for nothing is re-armed instead.
ClockElapsed ==
  /\ PastHandoff
  /\ \/ Parking(onElapse(task.state))
     \/ Live(task.state) /\ Parking("admission-starved")
  /\ UNCHANGED <<mrs, issue, grant, rest>>

\* ReArmAfterPodLoss: a new pod and a new residency, in the same state.
ReArmAfterPodLoss ==
  /\ PastHandoff
  /\ Live(task.state)
  /\ task' = [task EXCEPT !.handoff = FALSE]
  /\ UNCHANGED <<mrs, issue, grant, env>>

\* The pod stopped with no outcome, stopped too often, came up with the wrong
\* contract, or its volume never bound.
PodExit ==
  /\ PastHandoff
  /\ Live(task.state)
  /\ \E reason \in {"no-outcome", "agent-contract-mismatch", "operator-error"} :
       /\ reason # "agent-contract-mismatch" => ~task.handoff
       /\ Parking(reason)
  /\ UNCHANGED <<mrs, issue, grant, rest>>

\* The turn that is submitted to a pod carries the pending comments.
DeliverEvents ==
  /\ PastHandoff
  /\ Live(task.state)
  /\ ~task.handoff
  /\ task.events > 0
  /\ task' = [task EXCEPT !.events = 0]
  /\ UNCHANGED <<mrs, issue, grant, env>>

\* reconcileCIWait: red revokes the submission; green, or the deadline,
\* releases it to review.
clearHold(t) == [t EXCEPT !.ciWait = FALSE]

CIWaitRed ==
  /\ Running
  /\ task.ciWait
  /\ openMRs(owned) # {}
  /\ LET edge == CIRed(task, owned)
     IN  Bounce(owned,
           [edge EXCEPT !.task = [clearHold(@) EXCEPT !.handoff = FALSE]])
  /\ UNCHANGED <<mrs, issue, grant, rest>>

CIWaitOver ==
  /\ Running
  /\ task.ciWait
  /\ task' = EnterStage(task, owned, "awaiting-review", clearHold(task))
  /\ UNCHANGED <<mrs, issue, grant, env>>

----------------------------------------------------------------------------
(* Merging, deploying, delivering.  Module MergeTrain has the train itself. *)

\* ReconcileMerging looks at the state alone: it drives a parked Task as well.
Merging == task.state = "merged" /\ task.kind # "review"

\* A cursor that advanced refunds the retry lane in the same write.
AdvanceCursor(t) == [ResetRetryBudget(t) EXCEPT !.cursor = @ + 1]

\* The Task with the cursor the pass may have reached when it ends: it gets
\* past merge requests that are merged, and the order names no more than MRs.
AtCursor ==
  {task} \cup IF anyMerged(owned) /\ task.cursor < Cardinality(MRs)
                THEN {AdvanceCursor(task)} ELSE {}

\* The live head is the reviewed one; what the review asked for is not looked
\* at again.
MergeMR(m) ==
  /\ Merging
  /\ m \in openMRs(owned)
  /\ mrs[m].own # "external"
  /\ mrs[m].cur
  /\ mrs' = [mrs EXCEPT ![m].st = "merged"]
  /\ UNCHANGED <<task, issue, grant, env>>

\* stallMerge: the train waits where it got to.
MergeStalled ==
  /\ Merging
  /\ task' \in AtCursor
  /\ UNCHANGED <<mrs, issue, grant, env>>

\* The cursor is past the order: enterStageWithCursor.
MergeComplete ==
  /\ Merging
  /\ \E t \in AtCursor :
       /\ t.cursor > 0
       /\ task' = EnterStage(task, owned, "deployed", t)
  /\ UNCHANGED <<mrs, issue, grant, env>>

\* The mirror is written before the Task is moved, and stays when a park
\* refuses the move.
MergeHeadMoved(m) ==
  /\ Merging
  /\ m \in openMRs(owned)
  /\ mrs[m].own # "external"
  /\ \E t \in AtCursor :
       IF HeadMoved(task).to = ParkTarget
         THEN /\ UNCHANGED mrs
              /\ Parking(HeadMoved(task).reason)
         ELSE /\ mrs' = [mrs EXCEPT ![m].verdict = "new", ![m].cur = FALSE]
              /\ Bounce(owned, HeadMoved(t))
  /\ UNCHANGED <<issue, grant, rest>>

MergeCIRed ==
  /\ Merging
  /\ \E m \in openMRs(owned) : mrs[m].own # "external"
  /\ Bounce(owned, CIRed(task, owned))
  /\ UNCHANGED <<mrs, issue, grant, rest>>

\* The cursor is not written when a sibling merged, and has not moved when
\* none did.
MergeConflicted ==
  /\ Merging
  /\ \E m \in openMRs(owned) : mrs[m].own = "tatara"
  /\ Bounce(owned, MergeConflict(task, owned))
  /\ UNCHANGED <<mrs, issue, grant, rest>>

MergeParked ==
  /\ Merging
  /\ \E reason \in {"merge-order-missing", "operator-error",
                    "merge-auth-refused"} : Parking(reason)
  /\ UNCHANGED <<mrs, issue, grant, rest>>

\* CloseIssuesOnDelivery, for a parked Task as well: the issue is closed and
\* the Task does not move.
Deliver ==
  /\ task.state = "deployed"
  /\ AllMRsMerged(owned)
  /\ task' = EnterStage(task, owned, "done", task)
  /\ issue' = IF issue = "open" THEN "closed" ELSE issue
  /\ UNCHANGED <<mrs, grant, env>>

\* driveConflictSweeps: a dirty merge request of tatara's own, wherever the
\* Task stands.
ConflictSweep ==
  /\ Live(task.state) \/ task.state \in {"merged", "deployed"}
  /\ \E m \in openMRs(owned) : mrs[m].own = "tatara"
  /\ ~Parked(task)
  /\ task.state # "under-implementation"
  /\ LegalFor(task, owned, "under-implementation")
  /\ Bounce(owned, MergeConflict(task, owned))
  /\ UNCHANGED <<mrs, issue, grant, rest>>

\* forceDocTimeout: the nightly batch's budget elapsed.
DocTimeout ==
  /\ Running
  /\ task.kind = "documentation"
  /\ task' = EnterStage(task, owned, "done", task)
  /\ UNCHANGED <<mrs, issue, grant, env>>

----------------------------------------------------------------------------
(* The forge and the humans. *)

ForgeMerge(m) ==
  /\ mrs[m].st = "open"
  /\ mrs' = [mrs EXCEPT ![m].st = "merged"]
  /\ UNCHANGED <<task, issue, grant, env>>

ForgeClose(m) ==
  /\ mrs[m].st = "open"
  /\ mrs' = [mrs EXCEPT ![m].st = "closed"]
  /\ UNCHANGED <<task, issue, grant, env>>

ForgeReopen(m) ==
  /\ mrs[m].st = "closed"
  /\ mrs' = [mrs EXCEPT ![m].st = "open"]
  /\ UNCHANGED <<task, issue, grant, env>>

HumanComment ==
  /\ comments < MaxComments
  /\ ~TaskDone(task)
  /\ comments' = comments + 1
  /\ task' = [task EXCEPT !.events = @ + 1]
  /\ UNCHANGED <<mrs, issue, grant, late, served, pushes, released, waved>>

----------------------------------------------------------------------------
(* Ownership: somebody else pushes, and a maintainer takes over.           *)

\* Mutant: a finished owner is parked as well.
parkOwnerAlways(t) == ParkTask(t, "ownership-lost", t)

\* parkOwnerTask
parkOwner(t) ==
  CASE TaskDone(t) -> t
    [] ~TaskDone(t) /\ ~Parked(t) -> ParkTask(t, "ownership-lost", t)
    [] OTHER -> IF t.kind = "takeover" /\ t.park = "implement-declined"
                  THEN repark(t, "ownership-lost") ELSE t

\* flipToExternal: the owner is parked and the mirror goes to a review Task.
ExternalPush(m) ==
  /\ pushes < MaxPushes
  /\ pushes' = pushes + 1
  /\ task.kind # "review" /\ task.state # Create
  /\ m \in openMRs(owned)
  /\ mrs[m].own = "tatara"
  /\ mrs' = [mrs EXCEPT
       ![m].own = IF AdoptedUpgrade(task) THEN "external" ELSE "pushed",
       ![m].held = FALSE,
       ![m].cur = FALSE]
  /\ \/ task' = parkOwner(task) /\ UNCHANGED late
     \/ ~TaskDone(task) /\ Decided("ownership-lost", task)
  /\ UNCHANGED <<issue, grant, served, comments, released, waved>>

\* The review Task that holds the mirror now reviews the pushed head.
ForeignReview(m) ==
  /\ mrs[m].st = "open" /\ ~mrs[m].held
  /\ \E verdict \in {"approved", "needs-changes"} :
       mrs' = [mrs EXCEPT ![m].verdict = verdict, ![m].pend = "none",
                          ![m].cur = TRUE]
  /\ UNCHANGED <<task, issue, grant, env>>

\* mrTakeover, seen from the review Task: the mirror goes to a takeover Task.
TakeoverByMaintainer(m) ==
  /\ task.kind = "review"
  /\ task.state # Create
  /\ m \in openMRs(owned)
  /\ mrs' = [mrs EXCEPT ![m].own = "tatara", ![m].held = FALSE]
  /\ UNCHANGED <<task, issue, grant, env>>

\* mrTakeover, seen from a takeover Task that stood down: it is resumed.
TakeoverResume(m) ==
  /\ task.kind = "takeover"
  /\ mrs[m].st = "open"
  /\ mrs[m].own # "tatara"
  /\ CanUnparkTakeover(task, "under-implementation")
  /\ mrs' = [mrs EXCEPT ![m].own = "tatara", ![m].held = TRUE]
  /\ task' = UnparkTakeover(task, "under-implementation")
  /\ UNCHANGED <<issue, grant, env>>

\* DrainStandDownMerge: the pushed head was approved, the Task that stood down
\* gets the mirror back and merges it.
StandDownMerge(m) ==
  /\ mrs[m].st = "open" /\ mrs[m].own = "pushed"
  /\ mrs[m].verdict = "approved" /\ mrs[m].cur
  /\ mrs[m].pend = "none"          \* the drain of this mirror comes first
  /\ CanUnparkTakeover(task, "merged")
  /\ mrs' = [mrs EXCEPT ![m].held = TRUE]
  /\ task' = UnparkTakeover(task, "merged")
  /\ UNCHANGED <<issue, grant, env>>

----------------------------------------------------------------------------
(* The parked sweeps of the project reconciler.                            *)

issueOpen == issue = "open"

\* What a pass of the sweep finds for this Task: room for a live pod, and a
\* blocker read that is within the pass's budget and that the forge answers.
SweepPass ==
  /\ served' \in Answers
  /\ UNCHANGED <<task, mrs, issue, grant, late, comments, pushes, released,
                 waved>>

\* driveUnparks and ApplyUnpark, for every class but the retry lane's timers.
DriveUnparks ==
  /\ Parked(task)
  /\ task.park \notin UnparkRetry
  /\ CanUnpark(task, mrs, issueOpen, served, TRUE, TRUE)
  /\ task' = Unpark(task, mrs)
  /\ released' = IF task.park \in UnparkHuman THEN released + 1 ELSE released
  /\ UNCHANGED <<mrs, issue, grant, late, served, comments, pushes, waved>>

DriveTimeoutSpent ==
  /\ TimeoutSpent(task)
  /\ task' = ReparkSpentTimeout(task)
  /\ UNCHANGED <<mrs, issue, grant, env>>

\* escalateExhaustedRetry on a lane whose agent left with a merged sibling.
StrandedLane ==
  /\ LaneStranded(task)
  /\ task.parkedFrom \in {"under-implementation", "awaiting-review"}
  /\ anyMerged(mrs)
  /\ task' = repark(task, "retry-exhausted")
  /\ UNCHANGED <<mrs, issue, grant, env>>

InLane == task.park \in UnparkRetry
Probed == task.park \in {"ci-failed", "merge-conflict-retry"}

LapsSpent == task.blocker = task.park /\ task.attempts >= MaxUnparkRetries

\* driveRetryLane, unarmed: give up, or schedule the next lap if there is room.
RetryArm ==
  /\ InLane
  /\ ~task.armed
  /\ LapsSpent \/ served
  /\ task' = IF LapsSpent THEN repark(task, "retry-exhausted") ELSE ArmRetry(task)
  /\ UNCHANGED <<mrs, issue, grant, env>>

\* Mutant: a standing blocker is always rescheduled.
RetryStandingForever ==
  /\ InLane
  /\ task.armed /\ served
  /\ Probed
  /\ Owned(owned) # {}
  /\ task' = ArmRetry(task)
  /\ UNCHANGED <<mrs, issue, grant, env>>

\* Due, and the live read says the blocker stands.
RetryStanding ==
  /\ InLane
  /\ task.armed /\ served
  /\ Probed
  /\ Owned(owned) # {}
  /\ task' = IF task.attempts >= MaxUnparkRetries
               THEN repark(task, "retry-exhausted")
               ELSE ArmRetry(task)
  /\ UNCHANGED <<mrs, issue, grant, env>>

\* Due, and the blocker is gone: the park is released.
RetryRelease ==
  /\ InLane
  /\ served
  /\ CanUnpark(task, mrs, issueOpen, TRUE, TRUE, TRUE)
  /\ task' = Unpark(task, mrs)
  /\ UNCHANGED <<mrs, issue, grant, env>>

\* driveCIRecoveryUnparks: the bound is stamped, then the park is released.
CIRecovery ==
  /\ task.park \in {"implement-declined", "awaiting-human"}
  /\ task.kind # "takeover"
  /\ Owned(mrs) # {}
  /\ task.recoveries < MaxCIRecoveryUnparks
  /\ served
  /\ task' = reArm([task EXCEPT !.recoveries = @ + 1])
  /\ released' = IF task.park \in UnparkHuman THEN released + 1 ELSE released
  /\ UNCHANGED <<mrs, issue, grant, late, served, comments, pushes, waved>>

\* driveMROnlyUnpark: a comment on a park nothing else releases, for a Task
\* with merge requests and no issue.
MROnlyUnpark ==
  /\ task.park \in UnparkNever
  /\ task.events > 0
  /\ issue = "none" /\ Owned(mrs) # {}
  /\ IF CanUnparkMaintainer(task)
       THEN /\ task' = UnparkMaintainerComment(task)
            /\ released' = released + 1
       ELSE /\ task' = consumeUnparkEvents(task)
            /\ UNCHANGED released
  /\ UNCHANGED <<mrs, issue, grant, late, served, comments, pushes, waved>>

\* reconcileParkedExternalTerminal: the merge requests of a parked review, or
\* of a Task parked at awaiting-review, finished on the forge.
ParkedExternalTerminal ==
  /\ Parked(task) /\ ~TaskDone(task)
  /\ task.kind = "review" \/ task.state = "awaiting-review"
  /\ LET edge == externalTerminalEdge(task, owned)
         to == IF edge = "" /\ TakenOver THEN "rejected" ELSE edge
     IN  /\ to \in {"done", "rejected"}
         /\ LegalFor(task, owned, to)
         /\ task' = Enter(clearPark(task), owned, to)
  /\ UNCHANGED <<mrs, issue, grant, env>>

----------------------------------------------------------------------------
Agents ==
  \/ \E m \in MRs : OpenMR(m)
  \/ SubmitRefused \/ SubmitToReview \/ SubmitHeld
  \/ SubmitShipped \/ Declined \/ Discuss \/ GateRejected \/ GateApproved
  \/ NonCodeOutcome \/ ReviewOutcome \/ ObjectTooLarge

Reconcile ==
  \/ TerminalReset \/ Mint \/ MRBindingBackstop \/ ParkedBindingRepair
  \/ Triage \/ TriageRefused
  \/ \E m \in MRs : DrainPendingReview(m)
  \/ FinalizeAtReview \/ FinalizeTakenOver \/ CIRedAtReview \/ RedriveHandoff
  \/ HandoffDeadline \/ ResidencyExceeded \/ ClockElapsed
  \/ ReArmAfterPodLoss \/ PodExit \/ DeliverEvents \/ CIWaitRed \/ CIWaitOver
  \/ \E m \in MRs : MergeMR(m) \/ MergeHeadMoved(m)
  \/ MergeStalled \/ MergeComplete \/ MergeCIRed \/ MergeConflicted \/ MergeParked \/ Deliver
  \/ ConflictSweep \/ DocTimeout \/ ParkLands

Sweeps ==
  \/ SweepPass \/ DriveUnparks \/ DriveTimeoutSpent \/ StrandedLane
  \/ RetryArm \/ RetryStanding \/ RetryRelease
  \/ CIRecovery \/ MROnlyUnpark \/ ParkedExternalTerminal

Humans ==
  \/ ApplyReviewChangesRequested \/ ApplyReviewApproval \/ IssueClosed
  \/ HumanComment
  \/ \E m \in MRs : \/ ForgeMerge(m) \/ ForgeClose(m) \/ ForgeReopen(m)
                    \/ ExternalPush(m) \/ ForeignReview(m)
                    \/ TakeoverByMaintainer(m) \/ TakeoverResume(m)
                    \/ StandDownMerge(m)

Next == Agents \/ Reconcile \/ Sweeps \/ Humans

Spec == Init /\ [][Next]_vars

(***************************************************************************)
(* Fairness.  The reconcilers requeue themselves and the project sweep     *)
(* runs on a timer, so what needs only time and a pass happens: the end of *)
(* a CI hold, the step a committed review owes, the write of a park, the   *)
(* timers of the parks.  What a pass finds is not up to the Task: a pass   *)
(* that serves it acts on it, so strong fairness stands for the passes,    *)
(* and that such passes keep coming is a premise of the property that      *)
(* needs it.  Nothing is assumed of agents, of humans or of the forge.     *)
(***************************************************************************)
HandoffStep == FinalizeAtReview \/ FinalizeTakenOver \/ RedriveHandoff
                 \/ HandoffDeadline
RetryStep == RetryArm \/ RetryStanding \/ RetryRelease
TimeoutStep == DriveUnparks \/ DriveTimeoutSpent

Fairness ==
  /\ WF_vars(CIWaitOver)
  /\ WF_vars(HandoffStep)
  /\ WF_vars(ParkLands)
  /\ SF_vars(RetryStep)
  /\ SF_vars(TimeoutStep)

FairSpec == Spec /\ Fairness

----------------------------------------------------------------------------
(* Properties. *)

\* Every reason a writer parks with is one of ParkReasons, every state one of
\* the enum, whichever handler wrote it.
TypeOK ==
  /\ task \in Task
  /\ mrs \in [MRs -> MRRecord]
  /\ issue \in {"none", "open", "closed"}
  /\ grant \in {"none", "given"}
  /\ comments \in Nat
  /\ pushes \in Nat
  /\ released \in Nat
  /\ late \in [reason : ParkReasons \cup {NotParked}, unhold : BOOLEAN]
  /\ served \in BOOLEAN
  /\ waved \in BOOLEAN

\* Whatever releases, bounces, sweeps and take-overs it goes through, a review
\* Task never reaches a state in which the operator would push to or merge a
\* human's merge request, and a Task of a kind that ends at the gate never
\* reaches one either (LegalFor's guards, and every writer that bypasses them).
NonCodeNeverShips ==
  task.kind \in {"review"} \cup refinedDoneKinds =>
    task.state \notin {"under-implementation", "merged", "deployed"}

\* A parked Task knows the state it was parked in, through every re-park and
\* every bounce that is refused by the park: the no-outcome release keys on it.
\* MinimalFailPatch is the one writer that does not record it.
ParkKnowsItsState ==
  Parked(task) /\ task.park # "object-too-large" => task.parkedFrom = task.state

\* Every release of a park that waits for a human was paid for by a comment of
\* its own or by one of the counted CI recoveries: the comments consumed and the
\* ones still pending never exceed the comments written and the recoveries spent
\* (consumeUnparkEvents in every release, driveCIRecoveryUnparks' bound).
HumanReleasesArePaid == released + task.events <= comments + task.recoveries

\* No sequence of laps, releases, bounces and re-parks spends more than
\* MaxUnparkRetries attempts on one blocker before a human is asked.
RetryLaneBounded == task.attempts <= MaxUnparkRetries

\* The absolute bounds of the re-entry cycles hold through every path that
\* charges them.
BouncesBounded ==
  /\ task.mergeRe <= MaxMergeReentries
  /\ task.deployRe <= MaxDeployReentries
  /\ task.headMoveRe <= MaxHeadMoveReentries
  /\ task.ciRedRe <= MaxCIRedReentries
  /\ task.conflictRe <= MaxMergeConflictReentries
  /\ task.rounds <= MaxHumanReviewRounds
  /\ task.recoveries <= MaxCIRecoveryUnparks

\* An implement Task is past the gate only when a maintainer granted a plan for
\* it, or when the ship gate let a merge request be opened with nothing judged
\* (no issue open, or a read that failed): no sweep, CI hold, repaired binding or
\* stand-down is a way round the gate by itself.
CodeNeedsGrant ==
  /\ task.kind = "implement"
  /\ task.state \in {"under-implementation", "awaiting-review", "merged",
                     "deployed"}
  => grant # "none" \/ waved

\* A Task leaves review for the merge only with every review posted and with
\* no requested change standing on a merge request that is still to be merged.
\* (A stood-down Task is released from its park into the merge instead.)
ReviewSettledBeforeMerge ==
  [][~Parked(task) /\ task.state = "awaiting-review" /\ task'.state = "merged"
       => \A m \in Owned(owned') :
            /\ mrs'[m].pend = "none"
            /\ mrs'[m].verdict = "needs-changes" => mrs'[m].st = "merged"]_vars

\* No comment, push, sweep or late outcome moves a finished Task, and none parks
\* it but a park that was decided before it finished and landed late.  The one
\* way back is a take-over of a Task which such a park left at ownership-lost:
\* UnparkTakeover asks for that reason and not for the state.
FinishedIsFinal ==
  [][TaskDone(task) =>
       /\ task'.state # task.state => task.park = "ownership-lost"
       /\ ~Parked(task) /\ Parked(task') => task'.park = late.reason]_vars

\* A park written at or after the merge whose class is never is final: no
\* timer, comment or take-over releases it; at most the forge finishes the Task.
MergeBlockIsFinal ==
  [][task.park \in mergeStageParks \cap UnparkNever
       => task'.park = task.park \/ TaskDone(task')]_vars

\* A review outcome that was committed does not stay undelivered: the Task
\* advances, is bounced or is parked for a human (the handoff deadline).
HandoffEnds ==
  (task.handoff /\ ~task.ciWait) ~> (~task.handoff \/ Parked(task))

\* The parks a timer releases: the retry lane, the two timeouts, and a lost pod
\* where the work can be taken up again.
TimerOwed ==
  \/ task.park \in UnparkRetry \cup {"merge-timeout", "deploy-timeout"}
  \/ /\ task.park = "no-outcome"
     /\ task.parkedFrom \in {"under-implementation", "awaiting-review"}
     /\ ~anyMerged(mrs)

\* If the sweep keeps coming to passes that have room and a read for the Task, a
\* park whose release is a timer ends, whatever the length of its lane and
\* whether its budget is spent or not (driveRetryLane, ApplyUnpark).
TimerParksEnd == []<>served => (TimerOwed ~> ~TimerOwed)

============================================================================

-------------------------- MODULE TaskGate_proofs --------------------------
(***************************************************************************)
(* Proofs about what a Task has to pass on its way to the merge, in module *)
(* TaskLifecycle: the approval of a plan, the kind that may ship at all,   *)
(* and the review.  None of the properties is inductive: a Task is swept   *)
(* past the gate on a merge request it opened.  Gate says what ties them:  *)
(* who opened one was granted a plan or waved through by the ship gate,    *)
(* which fails open, and a kind that only talks never refers to one.       *)
(***************************************************************************)
EXTENDS TaskLifecycle_proofs

\* The states past the gate.
Past == {"under-implementation", "awaiting-review", "merged", "deployed"}

ReviewsStay ==
  task.kind = "review" => task.state \notin {"under-implementation", "merged", "deployed"}

TalkersStay ==
  task.kind \in refinedDoneKinds =>
    task.state \notin Past /\ Owned(mrs) = {} /\ task.src = "none"

CodersAreGranted ==
  task.kind = "implement" =>
    /\ task.src = "issue"
    /\ task.state \in {Create, "new"} => Owned(mrs) = {}
    /\ Owned(mrs) # {} \/ task.state \in Past => grant # "none" \/ waved

Gate == ReviewsStay /\ TalkersStay /\ CodersAreGranted

\* Every review is posted, and no requested change stands on what is to merge.
Posted(own) ==
  \A m \in Owned(own) :
    own[m].pend = "none" /\ (own[m].verdict = "needs-changes" => own[m].st = "merged")

\* How a step may move the Task.
Passage ==
  /\ \/ task'.state = task.state
     \/ task'.state \in {"done", "rejected"}
     \/ task.state = Create /\ task'.state = InitialState(task)
     \/ task.state \in {"new", "under-implementation"} /\ task'.state = "refined"
     \/ /\ task.state = "new" /\ task'.state = "awaiting-review"
        /\ task.kind = "review" \/ AdoptedUpgrade(task)
     \/ /\ task.state \in Past /\ task'.state \in Past
        /\ task.kind = "review" => task'.state = "awaiting-review"
     \/ /\ task.kind \in {"implement", "takeover"}
        /\ task'.state = "under-implementation" /\ grant' # "none"
     \/ /\ task.kind # "review" /\ Owned(mrs) # {}
        /\ task'.state \in {"under-implementation", "merged"}
  /\ ~Parked(task) /\ task.state = "awaiting-review" /\ task'.state = "merged"
       => Posted(owned')

\* How a step may change what the Task refers to: a merge request is bound from
\* the source, or opened by an agent that writes code and was granted a plan or
\* waved through; and neither is taken back.
References ==
  /\ Owned(mrs) \subseteq Owned(mrs')
  /\ \/ Owned(mrs') = Owned(mrs)
     \/ task.src = "pr"
     \/ /\ task.state \in {"refined", "under-implementation"}
        /\ task.kind \notin refinedDoneKinds
        /\ task.kind = "implement" => grant' # "none" \/ waved'
        /\ task' = task
  /\ grant # "none" \/ waved => grant' # "none" \/ waved'

----------------------------------------------------------------------------
(* What the functions of the package do to the state of a Task. *)

\* Enter goes where it is sent, or nowhere.
LEMMA EnterGoes ==
  ASSUME NEW t \in Task, NEW own, NEW to
  PROVE  \/ Enter(t, own, to).state = t.state
         \/ Enter(t, own, to).state = to /\ LegalFor(t, own, to) /\ ~Parked(t)
BY DEF Enter, CanEnter, stampEnter, ResetRetryBudget, Task

\* Parking, re-arming and releasing keep the state.
LEMMA ParkStands ==
  ASSUME NEW t \in Task, NEW reason
  PROVE  /\ Park(t, reason).state = t.state
         /\ ParkTask(t, reason, t).state = t.state
BY DEF Park, ParkTask, Task

\* So does a park that is decided and lands later.
LEMMA ParkingStands ==
  ASSUME Sound(task)
  PROVE  /\ \A reason : Parking(reason) => task'.state = task.state
         /\ ParkLands => task'.state = task.state
<1>0. task \in Task
  BY DEF Sound
<1>1. ASSUME NEW reason, Parking(reason) PROVE task'.state = task.state
  BY <1>0, <1>1, ParkStands DEF Parking, Decided
<1>2. ASSUME ParkLands PROVE task'.state = task.state
  <2> DEFINE u == [task EXCEPT !.ciWait = @ /\ ~late.unhold]
  <2>1. u \in Task /\ u.state = task.state
    BY <1>0 DEF Task
  <2>2. task' = Park(u, late.reason)
    BY <1>2 DEF ParkLands
  <2> HIDE DEF u
  <2> QED BY <2>1, <2>2, ParkStands
<1> QED BY <1>1, <1>2

\* A bounce is taken, or its park is decided and the Task stays.
LEMMA BounceTakes ==
  ASSUME NEW own, NEW e, Bounce(own, e)
  PROVE  task' = task \/ task' = TakeBounce(task, own, e)
BY DEF Bounce, Decided

LEMMA ReleaseStands ==
  ASSUME NEW t \in Task, NEW reason
  PROVE  /\ reArm(t).state = t.state
         /\ repark(t, reason).state = t.state
         /\ ArmRetry(t).state = t.state
         /\ consumeUnparkEvents(t).state = t.state
         /\ UnparkMaintainerComment(t).state = t.state
<1>1. clearPark(t) \in Task /\ clearPark(t).state = t.state
  BY DEF clearPark, Task, NotParked
<1>2. reArm(t) \in Task /\ reArm(t).state = t.state
  BY <1>1, ZenonT(30) DEF reArm, Task
<1>3. repark(t, reason).state = t.state
  BY <1>1, ParkStands DEF repark
<1>4. ArmRetry(t).state = t.state /\ consumeUnparkEvents(t).state = t.state
  BY DEF ArmRetry, consumeUnparkEvents, Task
<1>5. UnparkMaintainerComment(t).state = t.state
  BY <1>2 DEF UnparkMaintainerComment, consumeUnparkEvents, ResetRetryBudget, Task
<1> QED BY <1>2, <1>3, <1>4, <1>5

LEMMA UnparkStands ==
  ASSUME NEW t \in Task, NEW own
  PROVE  Unpark(t, own).state = t.state
<1> DEFINE c == charged(t, own)
<1>1. c.state = t.state /\ DOMAIN c = DOMAIN t
  BY DEF charged, Task
<1>2. DOMAIN t = {"kind", "src", "relic", "state", "park", "parkedFrom", "events", "mergeRe",
                  "deployRe", "headMoveRe", "ciRedRe", "conflictRe", "rounds", "recoveries",
                  "blocker", "attempts", "armed", "cursor", "ciWait", "handoff"}
  BY DEF Task
<1> HIDE DEF c
<1>3. reArm(c).state = c.state /\ DOMAIN reArm(c) = DOMAIN t
  BY <1>1, <1>2 DEF reArm, clearPark
<1>4. ResetRetryBudget(consumeUnparkEvents(reArm(c))).state = c.state
  BY <1>2, <1>3 DEF ResetRetryBudget, consumeUnparkEvents
<1> QED BY <1>1, <1>3, <1>4 DEF Unpark, c

\* EnterStage goes where it is sent, from where the Task is, or nowhere.
LEMMA EnterStageGoes ==
  ASSUME NEW t \in Task, NEW u \in Task, u.state = t.state, NEW own, NEW to
  PROVE  \/ EnterStage(t, own, to, u).state = t.state
         \/ EnterStage(t, own, to, u).state = to /\ LegalFor(t, own, to)
BY EnterGoes DEF EnterStage

\* So does a bounce.
LEMMA BounceGoes ==
  ASSUME NEW t \in Task, NEW own, NEW e, e.task \in Task, e.task.state = t.state
  PROVE  \/ TakeBounce(t, own, e).state = t.state
         \/ /\ TakeBounce(t, own, e).state = e.to
            /\ e.to # ParkTarget /\ LegalFor(t, own, e.to)
<1>1. CASE e.to = ParkTarget
  BY <1>1, ParkStands DEF TakeBounce, ParkTask
<1>2. CASE e.to # ParkTarget /\ e.to = t.state
  BY <1>2 DEF TakeBounce
<1>3. CASE e.to # ParkTarget /\ e.to # t.state
  BY <1>3, EnterStageGoes DEF TakeBounce
<1> QED BY <1>1, <1>2, <1>3

\* Red CI sends a Task that may write code back to its agent.
LEMMA CIRedGoes ==
  ASSUME NEW t, Sound(t), NEW own
  PROVE  \/ TakeBounce(t, own, CIRed(t, own)).state = t.state
         \/ /\ TakeBounce(t, own, CIRed(t, own)).state = "under-implementation"
            /\ t.kind # "review" /\ LegalFor(t, own, "under-implementation")
<1> DEFINE e == CIRed(t, own)
<1>1. e.task \in Task /\ e.task.state = t.state
  BY CIRedSound DEF SoundEdge, Moves, Sound
<1>2. e.to = ParkTarget \/ (e.to = "under-implementation" /\ t.kind # "review")
  BY DEF CIRed, Edge
<1> HIDE DEF e
<1>3. \/ TakeBounce(t, own, e).state = t.state
      \/ TakeBounce(t, own, e).state = e.to /\ e.to # ParkTarget /\ LegalFor(t, own, e.to)
  BY <1>1, BounceGoes DEF Sound
<1> QED BY <1>2, <1>3 DEF e

\* So does a conflict.
LEMMA ConflictGoes ==
  ASSUME NEW t, Sound(t), NEW own
  PROVE  \/ TakeBounce(t, own, MergeConflict(t, own)).state = t.state
         \/ /\ TakeBounce(t, own, MergeConflict(t, own)).state = "under-implementation"
            /\ t.kind # "review" /\ LegalFor(t, own, "under-implementation")
<1> DEFINE e == MergeConflict(t, own)
<1>1. e.task \in Task /\ e.task.state = t.state
  BY MergeConflictSound DEF SoundEdge, Moves, Sound
<1>2. e.to = ParkTarget \/ (e.to = "under-implementation" /\ t.kind # "review")
  BY DEF MergeConflict, Edge
<1> HIDE DEF e
<1>3. \/ TakeBounce(t, own, e).state = t.state
      \/ TakeBounce(t, own, e).state = e.to /\ e.to # ParkTarget /\ LegalFor(t, own, e.to)
  BY <1>1, BounceGoes DEF Sound
<1> QED BY <1>2, <1>3 DEF e

\* The advance after a review: the Task stays, ends, goes back to its agent or,
\* with every review posted and no change requested, goes on to the merge.
LEMMA AdvanceGoes ==
  ASSUME Sound(task), NEW own, Advance(own)
  PROVE  \/ task'.state = task.state
         \/ task'.state \in {"done", "rejected"}
         \/ task'.state = "under-implementation" /\ task.kind # "review"
         \/ /\ task'.state = "merged" /\ task.kind # "review"
            /\ task.state = "awaiting-review" => Posted(own)
<1> DEFINE e == reviewAdvanceEdge(task, own)
<1>1. \/ e.to \in {"done", "rejected"}
      \/ e.to = ParkTarget
      \/ e.to = "under-implementation" /\ task.kind # "review"
      \/ e.to = "merged" /\ task.kind # "review" /\ ~NeedsChanges(own)
  BY DEF reviewAdvanceEdge, Edge, terminalMREdge
<1>2. e.task = task
  BY DEF reviewAdvanceEdge, Edge
<1>3. \/ task' = task
      \/ task' = TakeBounce(task, own, e)
      \/ task' = TakeBounce(task, own, CIRed(task, own))
  BY BounceTakes DEF Advance, AdvanceEdges
<1> HIDE DEF e
<1>4. CASE task' = TakeBounce(task, own, e)
  <2>1. \/ task'.state = task.state
        \/ task'.state = e.to /\ e.to # ParkTarget /\ LegalFor(task, own, e.to)
    BY <1>2, <1>4, BounceGoes DEF Sound
  <2>2. (~NeedsChanges(own) /\ LegalFor(task, own, "merged")
           /\ task.state = "awaiting-review") => Posted(own)
    BY DEF NeedsChanges, LegalFor, reviewGateOpen, Posted
  <2> QED BY <1>1, <2>1, <2>2
<1>5. CASE task' = TakeBounce(task, own, CIRed(task, own))
  BY <1>5, CIRedGoes
<1> QED BY <1>3, <1>4, <1>5

----------------------------------------------------------------------------
(* Every step is a passage. *)

\* A merge request the Task controls is one it refers to.
LEMMA HeldIsReferred ==
  /\ Owned(owned) \subseteq Owned(mrs)
  /\ openMRs(owned) # {} => Owned(mrs) # {}
  /\ \A m \in MRs : mrs[m].st = "open" => Owned(mrs) # {}
BY DEF Owned, openMRs, owned, NoMR

\* Standing still, or ending, is a passage.
LEMMA StandsOrEnds ==
  ASSUME task'.state = task.state \/ task'.state \in {"done", "rejected"}
  PROVE  Passage
BY DEF Passage

\* A bounce to the agent on a merge request is a passage.
LEMMA BounceBack ==
  ASSUME \/ task'.state = task.state
         \/ /\ task'.state = "under-implementation" /\ task.kind # "review"
            /\ Owned(mrs) # {}
  PROVE  Passage
BY DEF Passage

\* What agents submit.
LEMMA AgentsPass ==
  ASSUME Sound(task), Agents PROVE Passage
<1>0. task \in Task
  BY DEF Sound
<1>1. CASE \/ \E m \in MRs : OpenMR(m)
           \/ SubmitHeld \/ Discuss \/ ReviewOutcome \/ ObjectTooLarge
  <2>1. task'.state = task.state
    <3>1. CASE \E m \in MRs : OpenMR(m)
      BY <3>1 DEF OpenMR
    <3>2. CASE SubmitHeld \/ ObjectTooLarge
      BY <1>0, <3>2 DEF SubmitHeld, ObjectTooLarge, Task
    <3>3. CASE Discuss
      BY <3>3, ParkingStands DEF Discuss
    <3>4. CASE ReviewOutcome
      <4>1. task' = [task EXCEPT !.handoff = task.state = "awaiting-review"]
        BY <3>4 DEF ReviewOutcome
      <4> QED BY <1>0, <4>1 DEF Task
    <3> QED BY <1>1, <3>1, <3>2, <3>3, <3>4
  <2> QED BY <2>1, StandsOrEnds
<1>2. CASE Declined \/ GateRejected \/ NonCodeOutcome
  <2>1. task'.state = task.state \/ task'.state \in {"done", "rejected"}
    BY <1>0, <1>2, ParkingStands, EnterGoes DEF Declined, GateRejected, NonCodeOutcome
  <2> QED BY <2>1, StandsOrEnds
<1>3. CASE SubmitRefused
  <2>1. task.state = "under-implementation" /\ task'.state \in {task.state, "refined"}
    BY <1>0, <1>3, EnterGoes DEF SubmitRefused, ImplementAt
  <2> QED BY <2>1 DEF Passage
<1>4. CASE SubmitToReview \/ SubmitShipped
  <2>1. task.state \in {"refined", "under-implementation"} /\ task.kind # "review"
    BY <1>4 DEF SubmitToReview, SubmitShipped, Submittable, Accepts, AgentKindFor, CodeKinds
  <2>2. \/ task'.state = task.state
        \/ /\ task'.state \in {"awaiting-review", "merged"}
           /\ Legal(task.state, task'.state)
    BY <1>0, <1>4, EnterGoes DEF SubmitToReview, SubmitShipped, LegalFor
  <2>3. Legal(task.state, task'.state) /\ task'.state \in {"awaiting-review", "merged"}
          => task.state = "under-implementation"
    BY <2>1 DEF Legal, Create
  <2> QED BY <2>1, <2>2, <2>3 DEF Passage, Past
<1>5. CASE GateApproved
  <2>1. task.kind \in {"implement", "takeover"} /\ grant' # "none"
    BY <1>5 DEF GateApproved, Accepts, AgentKindFor
  <2>2. task'.state \in {task.state, "under-implementation"}
    BY <1>0, <1>5, EnterGoes DEF GateApproved
  <2> QED BY <2>1, <2>2 DEF Passage
<1> QED BY <1>1, <1>2, <1>3, <1>4, <1>5 DEF Agents

\* Minting, binding and triage.
LEMMA MintPasses ==
  ASSUME Sound(task),
         TerminalReset \/ Mint \/ MRBindingBackstop \/ ParkedBindingRepair
           \/ Triage \/ TriageRefused
  PROVE  Passage
<1>0. task \in Task
  BY DEF Sound
<1>1. CASE TerminalReset
  <2>1. task'.state = task.state \/ task'.state \in {"done", "rejected"}
    BY <1>0, <1>1, EnterStageGoes DEF TerminalReset
  <2> QED BY <2>1, StandsOrEnds
<1>2. CASE Mint
  <2> DEFINE e == EnterStage(task, NoMRs, InitialState(task), task)
  <2>1. e \in Task
    BY Stay, EnterStageMoves DEF Moves, Sound
  <2>2. e.state \in {task.state, InitialState(task)}
    BY <1>0, EnterStageGoes
  <2> HIDE DEF e
  <2>3. task'.state = e.state /\ task.state = Create
    BY <1>2, <2>1, ParkStands DEF Mint, e
  <2>4. Create # "awaiting-review"
    BY DEF Create
  <2> QED BY <2>2, <2>3, <2>4 DEF Passage
<1>3. CASE MRBindingBackstop \/ ParkedBindingRepair \/ TriageRefused
  <2>1. task'.state = task.state
    BY <1>3, ParkingStands DEF MRBindingBackstop, ParkedBindingRepair, TriageRefused
  <2> QED BY <2>1, StandsOrEnds
<1>4. CASE Triage
  <2>1. /\ task.state = "new"
        /\ \/ task'.state = task.state
           \/ task'.state = triageTarget(task)
    BY <1>0, <1>4, EnterStageGoes DEF Triage
  <2> QED BY <2>1 DEF Passage, triageTarget
<1> QED BY <1>1, <1>2, <1>3, <1>4

\* The drain of a pending review: only a settled review lets the Task go on.
LEMMA DrainPasses ==
  ASSUME Sound(task), NEW m \in MRs, DrainPendingReview(m)
  PROVE  Passage
<1>0. task \in Task
  BY DEF Sound
<1>1. CASE task' = task \/ Parking("review-post-refused")
  <2>1. task'.state = task.state
    BY <1>1, ParkingStands
  <2> QED BY <2>1, StandsOrEnds
<1>2. CASE /\ task.state = "awaiting-review" /\ mrs' = Settled(m)
           /\ Advance(ownedIn(Settled(m)))
  <2>1. owned' = ownedIn(Settled(m))
    BY <1>2 DEF owned, ownedIn
  <2> QED BY <1>2, <2>1, AdvanceGoes DEF Passage, Past
<1> QED BY <1>1, <1>2 DEF DrainPendingReview

\* The clocks, the hand-off and the CI hold.
LEMMA ReviewStepsPass ==
  ASSUME Sound(task), ReviewSteps
  PROVE  Passage
<1>0. task \in Task
  BY DEF Sound
<1>1. CASE FinalizeAtReview
  <2> DEFINE to == externalTerminalEdge(task, owned)
  <2>1. /\ task.state = "awaiting-review" /\ mrs' = mrs
        /\ task'.state = task.state \/ (task'.state = to /\ LegalFor(task, owned, to))
    <3>1. /\ task.state = "awaiting-review" /\ mrs' = mrs
          /\ task' = EnterStage(task, owned, to, task)
      BY <1>1 DEF FinalizeAtReview, AtReview
    <3> HIDE DEF to
    <3> QED BY <1>0, <3>1, EnterStageGoes
  <2>2. to # "" => \/ to \in {"done", "rejected"}
                   \/ to = "merged" /\ AllMRsMerged(owned) /\ reviewGateOpen(owned)
    BY DEF externalTerminalEdge, terminalMREdge
  <2>3. to # ""
    BY <1>1 DEF FinalizeAtReview
  <2> HIDE DEF to
  <2>4. AllMRsMerged(owned) /\ reviewGateOpen(owned) => Posted(owned')
    <3>1. owned' = owned
      BY <2>1 DEF owned
    <3> QED BY <3>1 DEF AllMRsMerged, reviewGateOpen, Posted
  <2>5. task.kind = "review" => ~LegalFor(task, owned, "merged")
    BY DEF LegalFor
  <2> QED BY <2>1, <2>2, <2>3, <2>4, <2>5 DEF Passage, Past
<1>2. CASE FinalizeTakenOver
  <2>1. task'.state = task.state \/ task'.state = "rejected"
    BY <1>0, <1>2, EnterStageGoes DEF FinalizeTakenOver
  <2> QED BY <2>1, StandsOrEnds
<1>3. CASE CIRedAtReview
  BY <1>3, BounceTakes, CIRedGoes, HeldIsReferred, BounceBack DEF CIRedAtReview
<1>4. CASE RedriveHandoff
  <2>1. /\ task.state = "awaiting-review" /\ mrs' = mrs
        /\ Advance(owned)
    BY <1>4 DEF RedriveHandoff, AtReview
  <2>2. owned' = owned
    BY <2>1 DEF owned
  <2> QED BY <2>1, <2>2, AdvanceGoes DEF Passage, Past
<1>5. CASE HandoffDeadline \/ ResidencyExceeded \/ ClockElapsed \/ ReArmAfterPodLoss
             \/ PodExit \/ DeliverEvents
  <2>1. task'.state = task.state
    BY <1>0, <1>5, ParkingStands
       DEF HandoffDeadline, ResidencyExceeded, ClockElapsed, ReArmAfterPodLoss, PodExit,
           DeliverEvents, Task
  <2> QED BY <2>1, StandsOrEnds
<1>6. CASE CIWaitRed
  <2> DEFINE e == CIRed(task, owned)
             h == [e EXCEPT !.task = [clearHold(@) EXCEPT !.handoff = FALSE]]
  <2>1. e.task \in Task /\ e.task.state = task.state
    BY CIRedSound DEF SoundEdge, Moves, Sound
  <2>2. /\ e.to = ParkTarget \/ (e.to = "under-implementation" /\ task.kind # "review")
        /\ DOMAIN e = {"to", "reason", "task"}
    BY DEF CIRed, Edge
  <2>3. /\ task' = task \/ task' = TakeBounce(task, owned, h)
        /\ Owned(mrs) # {}
    BY <1>6, HeldIsReferred, BounceTakes DEF CIWaitRed
  <2> HIDE DEF e
  <2>4. h.to = e.to /\ h.task = [clearHold(e.task) EXCEPT !.handoff = FALSE]
    BY <2>2
  <2>5. h.task \in Task /\ h.task.state = task.state
    <3> HIDE DEF h
    <3> QED BY <2>1, <2>4 DEF clearHold, Task
  <2> HIDE DEF h
  <2>6. task'.state = task.state \/ (task'.state = h.to /\ h.to # ParkTarget)
    BY <1>0, <2>3, <2>5, BounceGoes
  <2> QED BY <2>2, <2>3, <2>4, <2>6, BounceBack
<1>7. CASE CIWaitOver
  <2>1. clearHold(task) \in Task /\ clearHold(task).state = task.state
    BY <1>0 DEF clearHold, Task
  <2>2. \/ task'.state = task.state
        \/ task'.state = "awaiting-review" /\ LegalFor(task, owned, "awaiting-review")
    BY <1>0, <1>7, <2>1, EnterStageGoes DEF CIWaitOver
  <2>3. LegalFor(task, owned, "awaiting-review")
          => \/ task.state = "new" /\ (task.kind = "review" \/ AdoptedUpgrade(task))
             \/ task.state \in Past
    BY DEF LegalFor, Legal, Past, Create
  <2> QED BY <2>2, <2>3 DEF Passage, Past
<1> QED BY <1>1, <1>2, <1>3, <1>4, <1>5, <1>6, <1>7 DEF ReviewSteps

\* Merging, delivering and the conflict sweep.
LEMMA MergeStepsPass ==
  ASSUME Sound(task), MergeSteps
  PROVE  Passage
<1>0. task \in Task
  BY DEF Sound
<1>1. CASE (\E m \in MRs : MergeMR(m)) \/ MergeStalled \/ MergeParked
  <2>1. task'.state = task.state
    BY <1>1, AtCursorMoves, ParkingStands DEF MergeMR, MergeStalled, MergeParked
  <2> QED BY <2>1, StandsOrEnds
<1>2. ASSUME NEW m \in MRs, MergeHeadMoved(m) PROVE Passage
  <2>1. task.state = "merged" /\ task.kind # "review"
    BY <1>2 DEF MergeHeadMoved, Merging
  <2>2. CASE task' = task \/ Parking(HeadMoved(task).reason)
    BY <2>2, ParkingStands, StandsOrEnds
  <2>3. ASSUME NEW t \in AtCursor, task' = TakeBounce(task, owned, HeadMoved(t))
        PROVE  Passage
    <3>1. Sound(t) /\ t.state = task.state
      BY AtCursorMoves DEF Moves
    <3>2. /\ HeadMoved(t).task \in Task /\ HeadMoved(t).task.state = task.state
          /\ HeadMoved(t).to \in {ParkTarget, "awaiting-review"}
      BY <3>1, HeadMovedSound DEF SoundEdge, Moves, Sound, HeadMoved, Edge
    <3>3. task'.state \in {"merged", "awaiting-review"}
      BY <1>0, <2>1, <2>3, <3>2, BounceGoes
    <3> QED BY <2>1, <3>3 DEF Passage, Past
  <2> QED BY <1>2, <2>2, <2>3, BounceTakes DEF MergeHeadMoved
<1>3. CASE MergeComplete
  <2>1. task.state = "merged" /\ task.kind # "review"
    BY <1>3 DEF MergeComplete, Merging
  <2>2. PICK t \in AtCursor : task' = EnterStage(task, owned, "deployed", t)
    BY <1>3 DEF MergeComplete
  <2>3. t \in Task /\ t.state = task.state
    BY AtCursorMoves DEF Moves, Sound
  <2>4. task'.state \in {"merged", "deployed"}
    BY <1>0, <2>1, <2>2, <2>3, EnterStageGoes
  <2> QED BY <2>1, <2>4 DEF Passage, Past
<1>4. CASE MergeCIRed
  BY <1>4, BounceTakes, CIRedGoes, HeldIsReferred, BounceBack DEF MergeCIRed
<1>5. CASE MergeConflicted \/ ConflictSweep
  BY <1>5, BounceTakes, ConflictGoes, HeldIsReferred, BounceBack
     DEF MergeConflicted, ConflictSweep
<1>6. CASE Deliver \/ DocTimeout
  <2>1. task'.state \in {task.state, "done"}
    BY <1>0, <1>6, EnterStageGoes DEF Deliver, DocTimeout
  <2> QED BY <2>1, StandsOrEnds
<1> QED BY <1>1, <1>2, <1>3, <1>4, <1>5, <1>6 DEF MergeSteps

\* The parked sweeps release a Task where it stands, or end it.
LEMMA SweepsPass ==
  ASSUME Sound(task), Sweeps PROVE Passage
<1>0. task \in Task
  BY DEF Sound
<1>1. CASE DriveUnparks \/ RetryRelease
  BY <1>0, <1>1, UnparkStands, StandsOrEnds DEF DriveUnparks, RetryRelease
<1>a. CASE SweepPass
  BY <1>a, StandsOrEnds DEF SweepPass
<1>2. CASE DriveTimeoutSpent \/ StrandedLane \/ RetryArm \/ RetryStanding \/ MROnlyUnpark
  <2>1. task'.state = task.state
    BY <1>0, <1>2, ReleaseStands
       DEF DriveTimeoutSpent, ReparkSpentTimeout, StrandedLane, RetryArm, RetryStanding, MROnlyUnpark
  <2> QED BY <2>1, StandsOrEnds
<1>3. CASE CIRecovery
  <2> DEFINE u == [task EXCEPT !.recoveries = @ + 1]
  <2>1. u \in Task /\ u.state = task.state
    BY <1>0 DEF Task
  <2>2. task' = reArm(u)
    BY <1>3 DEF CIRecovery
  <2> HIDE DEF u
  <2> QED BY <2>1, <2>2, ReleaseStands, StandsOrEnds
<1>4. CASE ParkedExternalTerminal
  <2>1. PICK to \in {"done", "rejected"} : task' = Enter(clearPark(task), owned, to)
    BY <1>4 DEF ParkedExternalTerminal
  <2>2. clearPark(task) \in Task /\ clearPark(task).state = task.state
    BY <1>0 DEF clearPark, Task, NotParked
  <2>3. task'.state = task.state \/ task'.state \in {"done", "rejected"}
    BY <2>1, <2>2, EnterGoes
  <2> QED BY <2>3, StandsOrEnds
<1> QED BY <1>a, <1>1, <1>2, <1>3, <1>4 DEF Sweeps

\* The humans and the forge.
LEMMA HumansPass ==
  ASSUME Sound(task), Mirrors, Humans PROVE Passage
<1>0. task \in Task
  BY DEF Sound
<1>1. CASE ApplyReviewChangesRequested
  <2>1. Owned(mrs) # {} /\ CanReenterOnReview(task, owned)
    BY <1>1, HeldIsReferred DEF ApplyReviewChangesRequested
  <2>2. task' = ReenterOnReviewChangesRequested(task, owned)
    BY <1>1 DEF ApplyReviewChangesRequested
  <2>3. CASE task.park = "merge-timeout"
    <3> DEFINE u == [task EXCEPT !.mergeRe = @ + 1]
    <3>1. u \in Task /\ u.state = task.state
      BY <1>0 DEF Task
    <3>2. task' = reArm(u)
      BY <2>2, <2>3 DEF ReenterOnReviewChangesRequested
    <3> HIDE DEF u
    <3> QED BY <3>1, <3>2, ReleaseStands, StandsOrEnds
  <2>4. CASE task.park = "no-outcome"
    <3>1. task' = zeroBounces(reArm(task))
      BY <2>2, <2>4 DEF ReenterOnReviewChangesRequested
    <3>2. reArm(task) \in Task /\ reArm(task).state = task.state
      BY <1>0, ReleaseFields, ReleaseStands
    <3>3. task'.state = task.state
      BY <3>1, <3>2 DEF zeroBounces, Task
    <3> QED BY <3>3, StandsOrEnds
  <2>5. CASE task.park # "merge-timeout" /\ task.park # "no-outcome"
    <3>1. task.kind # "review"
      BY <2>1, <2>5 DEF CanReenterOnReview, CanEnter, LegalFor
    <3>2. task' = zeroBounces(stampEnter(task, "under-implementation"))
      BY <2>2, <2>5 DEF ReenterOnReviewChangesRequested
    <3>3. task'.state = "under-implementation"
      BY <1>0, <3>2 DEF zeroBounces, stampEnter, ResetRetryBudget, Task
    <3> QED BY <2>1, <3>1, <3>3, BounceBack
  <2> QED BY <2>3, <2>4, <2>5
<1>2. CASE ApplyReviewApproval
  <2>1. PICK approved \in Owned(owned) :
          LET settled == [m \in MRs |-> IF m \in Owned(owned)
                THEN [mrs[m] EXCEPT !.verdict = "approved", !.pend = "none",
                                    !.cur = m = approved]
                ELSE mrs[m]]
          IN  /\ mrs' = settled
              /\ task' = Enter(task, ownedIn(settled), "merged")
    BY <1>2 DEF ApplyReviewApproval
  <2>2. owned' = ownedIn(mrs') /\ task' = Enter(task, ownedIn(mrs'), "merged")
    BY <2>1 DEF owned, ownedIn
  <2>3. Posted(owned')
    <3>1. ASSUME NEW m \in Owned(owned')
          PROVE  owned'[m].pend = "none" /\ owned'[m].verdict = "approved"
      <4>1. m \in MRs /\ mrs'[m].held /\ mrs'[m].st # "absent" /\ owned'[m] = mrs'[m]
        BY DEF Owned, owned, NoMR
      <4>2. m \in Owned(owned)
        <5>1. CASE m \notin Owned(owned)
          <6>1. mrs'[m] = mrs[m]
            BY <2>1, <4>1, <5>1
          <6> QED BY <4>1, <6>1 DEF Owned, owned
        <5> QED BY <5>1
      <4>3. mrs'[m] = [mrs[m] EXCEPT !.verdict = "approved", !.pend = "none",
                                     !.cur = m = approved]
        BY <2>1, <4>1, <4>2
      <4>4. mrs[m] \in MRRecord
        BY <4>1 DEF Mirrors
      <4>5. mrs'[m].pend = "none" /\ mrs'[m].verdict = "approved"
        BY <4>3, <4>4 DEF MRRecord
      <4> QED BY <4>1, <4>5
    <3> QED BY <3>1 DEF Posted
  <2>4. /\ task.kind # "review" /\ task.state = "awaiting-review"
        /\ task'.state \in {"awaiting-review", "merged"}
    <3>1. task.kind # "review" /\ task.state = "awaiting-review" /\ task \in Task
      BY <1>0, <1>2 DEF ApplyReviewApproval
    <3>2. task'.state = task.state \/ task'.state = "merged"
      BY <2>2, <3>1, EnterGoes
    <3> QED BY <3>1, <3>2
  <2> QED BY <2>3, <2>4 DEF Passage, Past
<1>3. CASE IssueClosed
  <2>1. task'.state \in {task.state, "rejected"}
    BY <1>0, <1>3, EnterGoes DEF IssueClosed
  <2> QED BY <2>1, StandsOrEnds
<1>4. CASE HumanComment
  <2>1. task'.state = task.state
    BY <1>0, <1>4 DEF HumanComment, Task
  <2> QED BY <2>1, StandsOrEnds
<1>5. CASE \E m \in MRs : ForgeMerge(m) \/ ForgeClose(m) \/ ForgeReopen(m)
                            \/ ForeignReview(m) \/ TakeoverByMaintainer(m)
  <2>1. task' = task
    BY <1>5 DEF ForgeMerge, ForgeClose, ForgeReopen, ForeignReview, TakeoverByMaintainer
  <2> QED BY <2>1, StandsOrEnds
<1>6. CASE \E m \in MRs : ExternalPush(m)
  <2>1. task' = task \/ task' = parkOwner(task)
    BY <1>6 DEF ExternalPush, Decided
  <2>2. task'.state = task.state
    BY <1>0, <2>1, ParkStands, ReleaseStands DEF parkOwner
  <2> QED BY <2>2, StandsOrEnds
<1>7. CASE \E m \in MRs : TakeoverResume(m) \/ StandDownMerge(m)
  <2>1. /\ Parked(task) /\ task.kind # "review" /\ Owned(mrs) # {}
        /\ \E to \in {"under-implementation", "merged"} : task' = UnparkTakeover(task, to)
    BY <1>7, HeldIsReferred
       DEF TakeoverResume, StandDownMerge, CanUnparkTakeover, Parked, NotParked
  <2>2. task'.state \in {"under-implementation", "merged"}
    BY <1>0, <2>1 DEF UnparkTakeover, stampEnter, ResetRetryBudget, clearPark, Task
  <2> QED BY <2>1, <2>2 DEF Passage
<1> QED BY <1>1, <1>2, <1>3, <1>4, <1>5, <1>6, <1>7 DEF Humans

----------------------------------------------------------------------------
(* What a step does to the references. *)

\* A step that takes up no merge request.
Keeps ==
  /\ \A m \in MRs : mrs'[m].st = "absent" <=> mrs[m].st = "absent"
  /\ grant # "none" \/ waved => grant' # "none" \/ waved'

LEMMA KeepsReferences ==
  ASSUME Keeps PROVE References
BY DEF Keeps, References, Owned

\* What agents submit: mr_write is the one that takes up a merge request, and
\* the ship gate is before it.
LEMMA AgentsRefer ==
  ASSUME Sound(task), Mirrors, Agents PROVE References
<1> USE DEF env, rest
<1>1. ASSUME NEW m \in MRs, OpenMR(m) PROVE References
  <2>1. /\ task.state \in {"refined", "under-implementation"}
        /\ task.kind \notin refinedDoneKinds
        /\ task.kind = "implement" => grant # "none" \/ waved'
    BY <1>1 DEF OpenMR, shipGateApplies, Accepts, AgentKindFor, CodeKinds,
                refinedDoneKinds
  <2>2. Owned(mrs) \subseteq Owned(mrs')
    <3>1. \A k \in MRs : k # m => mrs'[k] = mrs[k]
      BY <1>1 DEF OpenMR, Opened, Mirrors
    <3>2. mrs'[m].st = "open"
      BY <1>1 DEF OpenMR, Opened, Mirrors, NoMR
    <3> QED BY <3>1, <3>2 DEF Owned
  <2> QED BY <1>1, <2>1, <2>2 DEF OpenMR, References
<1>2. CASE SubmitRefused \/ SubmitToReview \/ SubmitHeld \/ SubmitShipped \/ Declined
             \/ Discuss \/ NonCodeOutcome \/ ObjectTooLarge
  BY <1>2, KeepsReferences
     DEF Keeps, SubmitRefused, SubmitToReview, SubmitHeld, SubmitShipped, Declined, Discuss,
         NonCodeOutcome, ObjectTooLarge
<1>3. CASE GateRejected \/ GateApproved
  BY <1>3, KeepsReferences DEF Keeps, GateRejected, GateApproved
<1>4. CASE ReviewOutcome
  <2>1. PICK verdict \in {"approved", "needs-changes"} :
          mrs' = [m \in MRs |-> IF m \in openMRs(owned)
                    THEN [mrs[m] EXCEPT !.verdict = verdict, !.pend = verdict,
                                        !.cur = TRUE]
                    ELSE mrs[m]]
    BY <1>4 DEF ReviewOutcome
  <2>2. ASSUME NEW m \in MRs PROVE mrs'[m].st = mrs[m].st
    <3>1. mrs[m] \in MRRecord
      BY DEF Mirrors
    <3> QED BY <2>1, <3>1 DEF MRRecord
  <2> QED BY <1>4, <2>2, KeepsReferences DEF Keeps, ReviewOutcome
<1> QED BY <1>1, <1>2, <1>3, <1>4 DEF Agents

\* A repaired binding takes up what the source names, for a Task with nothing.
LEMMA RepairRefers ==
  ASSUME Mirrors, BindingMissing, Repaired, UNCHANGED <<grant, rest>>
  PROVE  References
<1>0. Owned(mrs) = {} /\ waved' = waved
  BY DEF BindingMissing, HasRefs, rest
<1>1. CASE mrs' = mrs
  BY <1>0, <1>1 DEF References
<1>2. CASE task.src = "pr"
  BY <1>0, <1>2 DEF References
<1> QED BY <1>1, <1>2 DEF Repaired

\* The reconciler.
LEMMA ReconcileRefers ==
  ASSUME Sound(task), Mirrors, Reconcile PROVE References
<1> USE DEF env, rest
<1>1. CASE TerminalReset \/ Mint \/ TriageRefused \/ ParkLands
  BY <1>1, KeepsReferences DEF Keeps, TerminalReset, Mint, TriageRefused, ParkLands
<1>2. CASE MRBindingBackstop \/ ParkedBindingRepair
  BY <1>2, KeepsReferences, RepairRefers DEF Keeps, MRBindingBackstop, ParkedBindingRepair
<1>3. CASE Triage
  BY <1>3 DEF Triage, References
<1>4. ASSUME NEW m \in MRs, DrainPendingReview(m) PROVE References
  <2>1. mrs' \in {Cleared(m), Settled(m)} /\ waved' = waved /\ grant' = grant
    BY <1>4 DEF DrainPendingReview
  <2>2. \A k \in MRs : mrs'[k].st = mrs[k].st
    <3>1. CASE mrs' = Cleared(m)
      BY <3>1 DEF Cleared, Mirrors, MRRecord
    <3>2. CASE mrs' = Settled(m)
      BY <3>2 DEF Settled, Mirrors, MRRecord
    <3> QED BY <2>1, <3>1, <3>2
  <2> QED BY <2>1, <2>2, KeepsReferences DEF Keeps
<1>5. CASE FinalizeAtReview \/ FinalizeTakenOver \/ CIRedAtReview \/ RedriveHandoff
             \/ HandoffDeadline \/ ResidencyExceeded \/ ClockElapsed
  <2>1. UNCHANGED <<mrs, grant, waved>>
    BY <1>5
     DEF FinalizeAtReview, FinalizeTakenOver, CIRedAtReview, RedriveHandoff,
         HandoffDeadline, ResidencyExceeded, ClockElapsed
  <2> QED BY <2>1, KeepsReferences DEF Keeps
<1>6. CASE ReArmAfterPodLoss \/ PodExit \/ DeliverEvents \/ CIWaitRed \/ CIWaitOver
             \/ MergeStalled \/ MergeComplete \/ MergeCIRed \/ MergeConflicted \/ MergeParked
             \/ ConflictSweep \/ DocTimeout
  BY <1>6, KeepsReferences
     DEF Keeps, ReArmAfterPodLoss, PodExit, DeliverEvents, CIWaitRed, CIWaitOver, MergeStalled,
         MergeComplete, MergeCIRed, MergeConflicted, MergeParked, ConflictSweep, DocTimeout
<1>7. CASE \E m \in MRs : MergeMR(m)
  <2>1. \A k \in MRs : mrs'[k].st = "absent" <=> mrs[k].st = "absent"
    BY <1>7 DEF MergeMR, Mirrors, MRRecord, openMRs, owned, NoMR
  <2> QED BY <1>7, <2>1, KeepsReferences DEF Keeps, MergeMR
<1>8. ASSUME NEW m \in MRs, MergeHeadMoved(m) PROVE References
  <2>1. mrs' = mrs \/ mrs' = [mrs EXCEPT ![m].verdict = "new", ![m].cur = FALSE]
    BY <1>8 DEF MergeHeadMoved
  <2>2. \A k \in MRs : mrs'[k].st = mrs[k].st
    BY <2>1 DEF Mirrors, MRRecord
  <2> QED BY <1>8, <2>2, KeepsReferences DEF Keeps, MergeHeadMoved
<1>9. CASE Deliver
  BY <1>9, KeepsReferences DEF Keeps, Deliver
<1> QED BY <1>1, <1>2, <1>3, <1>4, <1>5, <1>6, <1>7, <1>8, <1>9 DEF Reconcile

\* The parked sweeps.
LEMMA SweepsRefer ==
  ASSUME Sweeps PROVE References
<1>1. UNCHANGED <<mrs, grant, waved>>
  BY DEF env, rest, Sweeps, SweepPass, DriveUnparks, DriveTimeoutSpent, StrandedLane,
         RetryArm, RetryStanding, RetryRelease, CIRecovery, MROnlyUnpark,
         ParkedExternalTerminal
<1> QED BY <1>1, KeepsReferences DEF Keeps

\* The humans and the forge: a merge request changes hands and state, and stays.
LEMMA HumansRefer ==
  ASSUME Sound(task), Mirrors, Humans PROVE References
<1> USE DEF env, rest
<1>1. CASE ApplyReviewChangesRequested \/ IssueClosed \/ HumanComment
  BY <1>1, KeepsReferences DEF Keeps, ApplyReviewChangesRequested, IssueClosed, HumanComment
<1>2. CASE ApplyReviewApproval
  <2>1. PICK approved \in Owned(owned) :
          mrs' = [m \in MRs |-> IF m \in Owned(owned)
                    THEN [mrs[m] EXCEPT !.verdict = "approved", !.pend = "none",
                                        !.cur = m = approved]
                    ELSE mrs[m]]
    BY <1>2 DEF ApplyReviewApproval
  <2>2. ASSUME NEW m \in MRs PROVE mrs'[m].st = mrs[m].st
    <3>1. mrs[m] \in MRRecord
      BY DEF Mirrors
    <3>2. mrs'[m] = mrs[m] \/ mrs'[m] = [mrs[m] EXCEPT !.verdict = "approved", !.pend = "none",
                                                       !.cur = m = approved]
      BY <2>1
    <3> QED BY <3>1, <3>2 DEF MRRecord
  <2> QED BY <1>2, <2>2, KeepsReferences DEF Keeps, ApplyReviewApproval
<1>3. ASSUME NEW m \in MRs, ForgeMerge(m) \/ ForgeClose(m) \/ ForgeReopen(m) PROVE References
  <2>1. \A k \in MRs : mrs'[k].st = "absent" <=> mrs[k].st = "absent"
    BY <1>3 DEF ForgeMerge, ForgeClose, ForgeReopen, Mirrors, MRRecord
  <2> QED BY <1>3, <2>1, KeepsReferences DEF Keeps, ForgeMerge, ForgeClose, ForgeReopen
<1>4. ASSUME NEW m \in MRs, ExternalPush(m) PROVE References
  <2>1. \A k \in MRs : mrs'[k].st = mrs[k].st
    BY <1>4 DEF ExternalPush, Mirrors, MRRecord
  <2> QED BY <1>4, <2>1, KeepsReferences DEF Keeps, ExternalPush
<1>5. ASSUME NEW m \in MRs, ForeignReview(m) PROVE References
  <2>1. \A k \in MRs : mrs'[k].st = mrs[k].st
    BY <1>5 DEF ForeignReview, Mirrors, MRRecord
  <2> QED BY <1>5, <2>1, KeepsReferences DEF Keeps, ForeignReview
<1>6. ASSUME NEW m \in MRs, TakeoverByMaintainer(m) \/ TakeoverResume(m) \/ StandDownMerge(m)
      PROVE  References
  <2>1. \A k \in MRs : mrs'[k].st = mrs[k].st
    BY <1>6 DEF TakeoverByMaintainer, TakeoverResume, StandDownMerge, Mirrors, MRRecord
  <2> QED BY <1>6, <2>1, KeepsReferences
          DEF Keeps, TakeoverByMaintainer, TakeoverResume, StandDownMerge
<1> QED BY <1>1, <1>2, <1>3, <1>4, <1>5, <1>6 DEF Humans

----------------------------------------------------------------------------
(* The theorems. *)

\* Every step is a passage, with references to match, of a Task of one kind.
LEMMA NextPasses ==
  ASSUME IInv, Next
  PROVE  /\ Passage /\ References
         /\ task'.kind = task.kind /\ task'.src = task.src
<1>0. Sound(task) /\ Mirrors
  BY DEF IInv
<1>1. Passage
  BY <1>0, AgentsPass, MintPasses, DrainPasses, ReviewStepsPass, MergeStepsPass, SweepsPass,
     HumansPass, ParkingStands, StandsOrEnds DEF Next, Reconcile, ReviewSteps, MergeSteps
<1>2. References
  BY <1>0, AgentsRefer, ReconcileRefers, SweepsRefer, HumansRefer DEF Next
<1>3. task'.kind = task.kind /\ task'.src = task.src
  <2>1. CASE HumanComment
    BY <1>0, <2>1 DEF HumanComment, Sound, Task
  <2>2. CASE ParkLands
    <3> DEFINE u == [task EXCEPT !.ciWait = @ /\ ~late.unhold]
    <3>1. u \in Task /\ u.kind = task.kind /\ u.src = task.src
      BY <1>0 DEF Sound, Task
    <3>2. task' = Park(u, late.reason)
      BY <2>2 DEF ParkLands
    <3> HIDE DEF u
    <3> QED BY <3>1, <3>2 DEF Park, Task
  <2>3. CASE ~HumanComment /\ ~ParkLands
    BY <1>0, <2>3, AgentsSteady, ReconcileSteady, SweepsPaid, HumansSteady
       DEF Next, Steady, Paid, Moves
  <2> QED BY <2>1, <2>2, <2>3
<1> QED BY <1>1, <1>2, <1>3

\* A minted Task stands before the gate, bound at most to its source.
LEMMA InitGate == Init => Gate
<1> SUFFICES ASSUME Init PROVE Gate
  OBVIOUS
<1>1. PICK kind, src, relic :
        /\ kind \in MintKinds /\ src \in Sources(kind) /\ task = NewTask(kind, src, relic)
        /\ src # "pr" => mrs = NoMRs
  BY DEF Init
<1>2. task.kind = kind /\ task.src = src /\ task.state = Create
  BY <1>1 DEF NewTask
<1>3. src # "pr" => Owned(mrs) = {}
  BY <1>1 DEF Owned, NoMRs, NoMR
<1>4. /\ kind = "implement" => src = "issue"
      /\ kind \in refinedDoneKinds => src = "none"
  BY <1>1 DEF Sources, refinedDoneKinds
<1>5. Create \notin Past
  BY DEF Create, Past
<1> QED BY <1>2, <1>3, <1>4, <1>5
        DEF Gate, ReviewsStay, TalkersStay, CodersAreGranted, Past

\* Every step keeps the gate.
LEMMA NextGate ==
  ASSUME IInv, Gate, Next PROVE Gate'
<1>0. Passage /\ References /\ task'.kind = task.kind /\ task'.src = task.src
  BY NextPasses
<1>1. ReviewsStay'
  BY <1>0 DEF Gate, ReviewsStay, Passage, Past, InitialState, AdoptedUpgrade
<1>2. TalkersStay'
  <2> SUFFICES ASSUME task.kind \in refinedDoneKinds
               PROVE  task'.state \notin Past /\ Owned(mrs') = {} /\ task'.src = "none"
    BY <1>0 DEF TalkersStay
  <2>1. task.state \notin Past /\ Owned(mrs) = {} /\ task.src = "none"
    BY DEF Gate, TalkersStay
  <2>2. Owned(mrs') = {}
    BY <1>0, <2>1 DEF References
  <2>3. task'.state \notin Past
    BY <1>0, <2>1 DEF Passage, Past, InitialState, AdoptedUpgrade, refinedDoneKinds
  <2> QED BY <1>0, <2>1, <2>2, <2>3
<1>3. CodersAreGranted'
  <2> SUFFICES ASSUME task.kind = "implement"
               PROVE  /\ task'.src = "issue"
                      /\ task'.state \in {Create, "new"} => Owned(mrs') = {}
                      /\ Owned(mrs') # {} \/ task'.state \in Past
                           => grant' # "none" \/ waved'
    BY <1>0 DEF CodersAreGranted
  <2>1. /\ task.src = "issue"
        /\ task.state \in {Create, "new"} => Owned(mrs) = {}
        /\ Owned(mrs) # {} \/ task.state \in Past => grant # "none" \/ waved
    BY DEF Gate, CodersAreGranted
  <2>2. task'.state \in {Create, "new"} => Owned(mrs') = {}
    <3>1. task'.state \in {Create, "new"} => task.state \in {Create, "new"}
      BY <1>0 DEF Passage, Past, Create
    <3>2. task.state \in {Create, "new"} => Owned(mrs') = Owned(mrs)
      BY <1>0, <2>1 DEF References, Create
    <3> QED BY <2>1, <3>1, <3>2
  <2>3. Owned(mrs') # {} => grant' # "none" \/ waved'
    BY <1>0, <2>1 DEF References
  <2>4. task'.state \in Past => grant' # "none" \/ waved'
    <3>1. task'.state \in Past =>
            task.state \in Past \/ grant' # "none" \/ Owned(mrs) # {}
      BY <1>0 DEF Passage, Past, InitialState, AdoptedUpgrade
    <3> QED BY <1>0, <2>1, <3>1 DEF References
  <2> QED BY <1>0, <2>1, <2>2, <2>3, <2>4
<1> QED BY <1>1, <1>2, <1>3 DEF Gate

\* The gate holds in every state, for any set of merge requests, any kinds and
\* any caps (LegalFor, the ship gate, the repair of bindings and every sweep).
THEOREM GateHolds == Spec => [](IInv /\ Gate)
<1>1. Gate /\ IInv /\ [Next]_vars => Gate'
  <2>1. ASSUME Gate, UNCHANGED vars PROVE Gate'
    BY <2>1 DEF vars, Gate, ReviewsStay, TalkersStay, CodersAreGranted
  <2> QED BY <2>1, NextGate
<1> QED BY <1>1, InitGate, Invariance, PTL DEF Spec

\* A review Task never stands where the operator would push to or merge a human's
\* merge request, and a Task of a kind that ends at the gate never passes it
\* (LegalFor, and every writer that goes around it).
THEOREM NonCodeStays == Spec => []NonCodeNeverShips
<1>1. Gate => NonCodeNeverShips
  BY DEF Gate, ReviewsStay, TalkersStay, NonCodeNeverShips, Past
<1> QED BY <1>1, GateHolds, PTL

\* An implement Task is past the gate only with a maintainer's grant, or with a
\* merge request that the ship gate, failing open, let through with nothing
\* judged: whichever sweep, CI hold, repaired binding or stand-down moved it
\* (mr_write's ship gate, the gate's approval, repairSourceBinding).
THEOREM CodeIsGranted == Spec => []CodeNeedsGrant
<1>1. Gate => CodeNeedsGrant
  BY DEF Gate, CodersAreGranted, CodeNeedsGrant, Past
<1> QED BY <1>1, GateHolds, PTL

\* A running Task leaves review for the merge only with every review posted and
\* no requested change standing on what is still to be merged, whoever moves it:
\* the drain, the redrive of its hand-off, the forge or a maintainer's approval
\* (DrainPendingReview, reviewAdvanceEdge, externalTerminalEdge).
THEOREM ReviewIsSettled == Spec => ReviewSettledBeforeMerge
<1> DEFINE A == ~Parked(task) /\ task.state = "awaiting-review" /\ task'.state = "merged"
                  => \A m \in Owned(owned') :
                       /\ mrs'[m].pend = "none"
                       /\ mrs'[m].verdict = "needs-changes" => mrs'[m].st = "merged"
<1>1. IInv /\ [Next]_vars => [A]_vars
  <2> SUFFICES ASSUME IInv, Next, ~Parked(task), task.state = "awaiting-review",
                      task'.state = "merged", NEW m \in Owned(owned')
               PROVE  /\ mrs'[m].pend = "none"
                      /\ mrs'[m].verdict = "needs-changes" => mrs'[m].st = "merged"
    OBVIOUS
  <2>1. Posted(owned')
    BY NextPasses DEF Passage
  <2>2. owned'[m] = mrs'[m]
    BY DEF Owned, owned, NoMR
  <2> QED BY <2>1, <2>2 DEF Posted
<1> QED BY <1>1, Invariance, PTL DEF Spec, ReviewSettledBeforeMerge


=============================================================================

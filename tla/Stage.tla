------------------------------- MODULE Stage -------------------------------
(***************************************************************************)
(* The stage machine of the operator: package internal/stage.  A Task is   *)
(* a record, as it is in the code, and an operator that takes a Task and   *)
(* returns a Task is one of the package's functions that mutate one.       *)
(* Wall-clock fields are left out: a clock may elapse at any time.  The    *)
(* names, the guards and the order of the tests are the package's.         *)
(***************************************************************************)
EXTENDS Naturals

CONSTANTS
  MRs,                \* the merge requests a Task may come to own
  MaxMergeReentries, MaxDeployReentries, MaxHeadMoveReentries,
  MaxCIRedReentries, MaxMergeConflictReentries,
  MaxHumanReviewRounds, MaxUnparkRetries, MaxCIRecoveryUnparks

ASSUME CapsAssumption ==
  /\ MaxMergeReentries \in Nat
  /\ MaxDeployReentries \in Nat
  /\ MaxHeadMoveReentries \in Nat
  /\ MaxCIRedReentries \in Nat
  /\ MaxMergeConflictReentries \in Nat
  /\ MaxHumanReviewRounds \in Nat
  /\ MaxUnparkRetries \in Nat \ {0}
  /\ MaxCIRecoveryUnparks \in Nat

----------------------------------------------------------------------------
(* Vocabulary. *)

\* The status.state enum, and the pseudo-state a Task is created in.
States == {"new", "refined", "under-implementation", "awaiting-review",
           "merged", "deployed", "done", "rejected"}
Create == "(create)"
ParkTarget == "(park)"

Kinds == {"brainstorm", "incident", "refine", "implement", "review",
          "documentation", "upgrade", "takeover"}

refinedDoneKinds == {"brainstorm", "refine", "incident"}

\* status.parkReason by the class that says what releases it.
NotParked == "none"
UnparkHuman == {"backlog-sweep", "awaiting-human", "identity-unverified",
                "handoff-stalled", "retry-exhausted"}
UnparkTimer == {"merge-timeout", "deploy-timeout", "no-outcome"}
UnparkRetry == {"ci-pending", "ci-failed", "merge-conflict-retry",
                "mr-surface-spent"}
UnparkRetired == {"turn-budget-exhausted", "review-loop-exhausted",
                  "pod-recreation-exhausted"}
UnparkNever == {"stage-deadline", "name-too-long", "implement-declined",
                "review-post-refused", "merge-blocked", "deploy-blocked",
                "head-moving", "ci-red", "ci-blocked", "merge-conflict",
                "ownership-lost", "triage-stalled", "operator-error",
                "object-too-large", "agent-contract-mismatch",
                "merge-order-missing", "admission-starved",
                "merge-auth-refused", "fold-adoption-unverified"}
ParkReasons == UnparkHuman \cup UnparkTimer \cup UnparkRetry
                 \cup UnparkRetired \cup UnparkNever

\* Parks written at or after the merge: a maintainer comment never releases one.
mergeStageParks == {"merge-timeout", "merge-blocked", "merge-auth-refused",
                    "merge-order-missing", "head-moving", "ci-red",
                    "merge-conflict", "ci-failed", "merge-conflict-retry",
                    "deploy-timeout", "deploy-blocked"}

issueClosedStopStates == {"new", "refined", "under-implementation",
                          "awaiting-review", "merged"}

TaskDone(t) == t.state \in {"done", "rejected"}
Parked(t) == t.park # NotParked
Live(state) == state \in {"refined", "under-implementation", "awaiting-review"}

\* The agent kind a state runs, "" for a state without a pod.
AgentKindFor(state, kind) ==
  CASE state \in {"refined", "under-implementation"} ->
         IF kind = "takeover" THEN "implement" ELSE kind
    [] state = "awaiting-review" -> "review"
    [] OTHER -> ""

----------------------------------------------------------------------------
(* The merge request mirrors a Task references: a function on MRs,         *)
(* "absent" for one it has no reference to.  held: the Task is the mirror's *)
(* controller owner.  own: whose branch it is, "pushed" for one that was   *)
(* tatara's until somebody else pushed to it.  cur: reviewedSHA is the     *)
(* head.                                                                   *)

MRRecord == [st : {"absent", "open", "merged", "closed"},
             verdict : {"new", "approved", "needs-changes"},
             pend : {"none", "approved", "needs-changes"},
             own : {"tatara", "external", "pushed"},
             held : BOOLEAN, cur : BOOLEAN]

NoMR == [st |-> "absent", verdict |-> "new", pend |-> "none",
         own |-> "tatara", held |-> FALSE, cur |-> FALSE]
NoMRs == [m \in MRs |-> NoMR]

Owned(mrs) == {m \in MRs : mrs[m].st # "absent"}
openMRs(mrs) == {m \in MRs : mrs[m].st = "open"}
MRTerminal(mr) == mr.st \in {"merged", "closed"}

\* Mutant: one posted review opens the gate for its siblings.
reviewGateOpenAny(mrs) == \E m \in Owned(mrs) : mrs[m].pend = "none"

reviewGateOpen(mrs) ==
  /\ Owned(mrs) # {}
  /\ \A m \in Owned(mrs) : mrs[m].pend = "none"

AllMRsTerminal(mrs) ==
  /\ Owned(mrs) # {}
  /\ \A m \in Owned(mrs) : MRTerminal(mrs[m])

AllMRsMerged(mrs) ==
  /\ Owned(mrs) # {}
  /\ \A m \in Owned(mrs) : mrs[m].st = "merged"

anyMerged(mrs) == \E m \in MRs : mrs[m].st = "merged"
anyExternallyOwned(mrs) == \E m \in Owned(mrs) : mrs[m].own # "tatara"

----------------------------------------------------------------------------
(* The transition table and its guards. *)

Legal(from, to) ==
  \/ from = Create
     /\ to \in {"new", "under-implementation", "done", "rejected"}
  \/ from = "new" /\ to \in {"refined", "awaiting-review", "rejected"}
  \/ from = "refined" /\ to \in {"under-implementation", "done", "rejected"}
  \/ from = "under-implementation"
     /\ to \in {"awaiting-review", "merged", "refined", "done", "rejected"}
  \/ from = "awaiting-review"
     /\ to \in {"under-implementation", "merged", "done", "rejected"}
  \/ from = "merged"
     /\ to \in {"deployed", "awaiting-review", "under-implementation",
                "rejected"}
  \/ from = "deployed" /\ to = "done"

AdoptedUpgrade(t) == t.kind = "upgrade" /\ t.src = "pr"

\* Mutant: the table alone decides.
LegalForTable(t, mrs, to) == Legal(t.state, to)

LegalFor(t, mrs, to) ==
  /\ Legal(t.state, to)
  /\ t.kind = "review" => to \notin {"under-implementation", "merged"}
  /\ t.state = "awaiting-review" /\ to \in {"under-implementation", "merged"}
       => reviewGateOpen(mrs)
  /\ t.state = "awaiting-review" /\ to = "done"
       => t.kind = "review" /\ AllMRsMerged(mrs)
  /\ t.state = "under-implementation" /\ to = "done"
       => t.kind = "documentation"
  /\ t.state = "new" /\ to = "awaiting-review"
       => t.kind = "review" \/ AdoptedUpgrade(t)
  /\ t.state = "refined" /\ to = "done" => t.kind \in refinedDoneKinds
  /\ t.state = "under-implementation" /\ to = "merged" => AllMRsMerged(mrs)

----------------------------------------------------------------------------
(* A Task. *)

Task == [kind : Kinds,
         src : {"none", "issue", "pr"},   \* spec.source
         relic : {"none", "delivered", "stopped"},
                                    \* what a stateless Task proves it did
         state : States \cup {Create},
         park : ParkReasons \cup {NotParked},
         parkedFrom : States \cup {Create},
         events : Nat,              \* unconsumed comments not by the bot
         mergeRe : Nat, deployRe : Nat, headMoveRe : Nat, ciRedRe : Nat,
         conflictRe : Nat, rounds : Nat, recoveries : Nat,
         blocker : UnparkRetry \cup {NotParked}, attempts : Nat,
         armed : BOOLEAN,           \* status.retryNextAt is set
         cursor : Nat,              \* status.mergeCursor
         ciWait : BOOLEAN,          \* status.ciWaitSince is set
         handoff : BOOLEAN]         \* the outcome committed in this residency

ResetRetryBudget(t) ==
  [t EXCEPT !.attempts = 0, !.blocker = NotParked, !.armed = FALSE]

\* Every write of stateEnteredAt makes an earlier outcome condition older than
\* the residency, so the handoff no longer counts.
stampEnter(t, to) ==
  [ResetRetryBudget(t) EXCEPT !.state = to, !.handoff = FALSE]

CanEnter(t, mrs, to) == ~Parked(t) /\ LegalFor(t, mrs, to)

\* Enter: the Task it leaves behind, unchanged when it refuses.
Enter(t, mrs, to) == IF CanEnter(t, mrs, to) THEN stampEnter(t, to) ELSE t

Park(t, reason) ==
  IF Parked(t) THEN t
  ELSE [t EXCEPT !.park = reason, !.parkedFrom = t.state, !.handoff = FALSE]

clearPark(t) == [t EXCEPT !.park = NotParked, !.armed = FALSE]

reArm(t) == [clearPark(t) EXCEPT !.handoff = FALSE]

repark(t, reason) == Park(clearPark(t), reason)

consumeUnparkEvents(t) == [t EXCEPT !.events = 0]

----------------------------------------------------------------------------
(* The retry lane. *)

ArmRetry(t) ==
  LET spent == IF t.blocker = t.park THEN t.attempts ELSE 0
  IN  [t EXCEPT !.blocker = t.park, !.attempts = spent + 1, !.armed = TRUE]

LaneStranded(t) ==
  /\ t.park = "no-outcome"
  /\ t.attempts > 0
  /\ t.blocker \in UnparkRetry

----------------------------------------------------------------------------
(* The bounces: where a failed merge or a red pipeline sends the Task.     *)
(* Each returns the target, the reason and the charged Task.               *)

Edge(to, reason, t) == [to |-> to, reason |-> reason, task |-> t]

\* Mutant: one bounce too many.
HeadMovedOffByOne(t) ==
  IF t.headMoveRe > MaxHeadMoveReentries
    THEN Edge(ParkTarget, "head-moving", t)
    ELSE Edge("awaiting-review", "", [t EXCEPT !.headMoveRe = @ + 1])

HeadMoved(t) ==
  IF t.headMoveRe >= MaxHeadMoveReentries
    THEN Edge(ParkTarget, "head-moving", t)
    ELSE Edge("awaiting-review", "", [t EXCEPT !.headMoveRe = @ + 1])

CIRed(t, mrs) ==
  CASE t.kind = "review" -> Edge(ParkTarget, "awaiting-human", t)
    [] t.kind # "review" /\ anyMerged(mrs) ->
         Edge(ParkTarget, "ci-failed", t)
    [] t.kind # "review" /\ ~anyMerged(mrs)
         /\ t.ciRedRe >= MaxCIRedReentries ->
         Edge(ParkTarget, "ci-blocked", t)
    [] OTHER ->
         Edge("under-implementation", "ci-red", [t EXCEPT !.ciRedRe = @ + 1])

MergeConflict(t, mrs) ==
  CASE t.kind = "review" -> Edge(ParkTarget, "awaiting-human", t)
    [] t.kind # "review" /\ anyMerged(mrs) ->
         Edge(ParkTarget, "merge-conflict-retry", t)
    [] t.kind # "review" /\ ~anyMerged(mrs)
         /\ t.conflictRe >= MaxMergeConflictReentries ->
         Edge(ParkTarget, "merge-blocked", t)
    [] OTHER ->
         Edge("under-implementation", "merge-conflict",
              [t EXCEPT !.conflictRe = @ + 1])

----------------------------------------------------------------------------
(* A maintainer's "changes requested" review. *)

zeroBounces(t) ==
  [t EXCEPT !.headMoveRe = 0, !.mergeRe = 0, !.ciRedRe = 0, !.conflictRe = 0]

CanReenterOnReview(t, mrs) ==
  \/ /\ t.state \in {"awaiting-review", "merged"}
     /\ CanEnter(t, mrs, "under-implementation")
  \/ t.park = "merge-timeout" /\ t.mergeRe < MaxMergeReentries
  \/ t.park = "no-outcome" /\ ~anyMerged(mrs)

ReenterOnReviewChangesRequested(t, mrs) ==
  CASE t.park = "merge-timeout" -> reArm([t EXCEPT !.mergeRe = @ + 1])
    [] t.park = "no-outcome" -> zeroBounces(reArm(t))
    [] OTHER -> zeroBounces(stampEnter(t, "under-implementation"))

----------------------------------------------------------------------------
(* Unpark.  room: the project has a free live pod; underCap: it is under   *)
(* maxOpenTasks; due: the retry timer has run out.                         *)

roundsLeft(t) == t.rounds < MaxHumanReviewRounds

\* A round of human review is charged on these releases.
chargesRound(t, mrs) ==
  \/ t.park = "handoff-stalled"
  \/ t.kind = "review" /\ t.park = "identity-unverified"
  \/ /\ t.kind = "review" /\ t.park \in {"awaiting-human", "retry-exhausted"}
     /\ ~anyExternallyOwned(mrs)

\* unparkRule returns DeclineNone.
CanUnpark(t, mrs, issueOpen, room, underCap, due) ==
  /\ t.park \in UnparkHuman \cup UnparkTimer \cup UnparkRetry
  /\ t.park \in UnparkHuman => t.events > 0
  /\ t.park = "backlog-sweep" => underCap
  /\ t.park \in UnparkRetry => t.armed /\ due
  /\ Live(t.state) /\ t.park \notin {"backlog-sweep", "merge-timeout",
                                     "deploy-timeout"} => room
  /\ t.park \in {"awaiting-human", "retry-exhausted"} =>
       IF t.kind = "review" THEN ~anyMerged(mrs)
                            ELSE issueOpen \/ openMRs(mrs) # {}
  /\ t.park = "identity-unverified" /\ t.kind = "review" => ~anyMerged(mrs)
  /\ t.park = "handoff-stalled" => ~anyMerged(mrs)
  /\ chargesRound(t, mrs) => roundsLeft(t)
  /\ t.park = "merge-timeout" => t.mergeRe < MaxMergeReentries
  /\ t.park = "deploy-timeout" => t.deployRe < MaxDeployReentries
  /\ t.park = "no-outcome" =>
       /\ t.parkedFrom \in {"under-implementation", "awaiting-review"}
       /\ ~anyMerged(mrs)

charged(t, mrs) ==
  [t EXCEPT !.rounds = IF chargesRound(t, mrs) THEN @ + 1 ELSE @,
            !.mergeRe = IF t.park = "merge-timeout" THEN @ + 1 ELSE @,
            !.deployRe = IF t.park = "deploy-timeout" THEN @ + 1 ELSE @]

\* Mutant: the comment is left pending.
UnparkKeepsComment(t, mrs) == ResetRetryBudget(reArm(charged(t, mrs)))

\* A release of the human class consumes the comment and refunds the lane.
Unpark(t, mrs) ==
  IF t.park \in UnparkHuman
    THEN ResetRetryBudget(consumeUnparkEvents(reArm(charged(t, mrs))))
    ELSE reArm(charged(t, mrs))

\* Mutant: off by one at the cap.
TimeoutSpentLate(t) ==
  \/ t.park = "merge-timeout" /\ t.mergeRe > MaxMergeReentries
  \/ t.park = "deploy-timeout" /\ t.deployRe > MaxDeployReentries

\* The two timeouts with a spent budget are re-parked where nothing releases.
TimeoutSpent(t) ==
  \/ t.park = "merge-timeout" /\ t.mergeRe >= MaxMergeReentries
  \/ t.park = "deploy-timeout" /\ t.deployRe >= MaxDeployReentries

ReparkSpentTimeout(t) ==
  repark(t, IF t.park = "merge-timeout" THEN "merge-blocked"
                                        ELSE "deploy-blocked")

\* Mutant: a comment releases a park written at the merge, too.
CanUnparkMaintainerAny(t) == t.park \in UnparkNever \cup UnparkRetired

\* A maintainer's comment on a park with no other way out.
CanUnparkMaintainer(t) ==
  /\ t.park \in UnparkNever \cup UnparkRetired
  /\ t.park \notin mergeStageParks

UnparkMaintainerComment(t) ==
  consumeUnparkEvents(ResetRetryBudget(reArm(t)))

CanUnparkTakeover(t, to) ==
  /\ t.park = "ownership-lost"
  /\ to \in {"under-implementation", "merged"}
  /\ t.kind # "review"

\* Mutant: the state moves and the park stays.
UnparkTakeoverParked(t, to) == stampEnter(t, to)

UnparkTakeover(t, to) == stampEnter(clearPark(t), to)

============================================================================

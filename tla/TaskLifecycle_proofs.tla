----------------------- MODULE TaskLifecycle_proofs -----------------------
(***************************************************************************)
(* Proofs about module TaskLifecycle, for every set of merge requests,     *)
(* every choice of kinds and every value of the caps.  The argument: each  *)
(* function of internal/stage is a Move (it keeps the budgets, the park    *)
(* bookkeeping, the kind, the finished states and the final parks), Moves  *)
(* compose, and every handler is a composition of them.  The one step that *)
(* is no Move is ParkLands, which may park a finished Task.                *)
(***************************************************************************)
EXTENDS TaskLifecycle, TLAPS

\* The budgets, each within its cap.
Bounded(t) ==
  /\ t.attempts <= MaxUnparkRetries
  /\ t.mergeRe <= MaxMergeReentries
  /\ t.deployRe <= MaxDeployReentries
  /\ t.headMoveRe <= MaxHeadMoveReentries
  /\ t.ciRedRe <= MaxCIRedReentries
  /\ t.conflictRe <= MaxMergeConflictReentries
  /\ t.rounds <= MaxHumanReviewRounds
  /\ t.recoveries <= MaxCIRecoveryUnparks

\* What a park records.
ParkSound(t) ==
  Parked(t) /\ t.park # "object-too-large" => t.parkedFrom = t.state

Sound(t) == t \in Task /\ Bounded(t) /\ ParkSound(t)
FinalParks == mergeStageParks \cap UnparkNever

\* A finished t stays finished and is not parked; a take-over moves one that a
\* late park left at ownership-lost.
Finished(t, u) ==
  /\ u.state = t.state \/ t.park = "ownership-lost"
  /\ ~Parked(t) => ~Parked(u)
  /\ u.park = "ownership-lost" => t.park = "ownership-lost"

\* u is what a function of the package may leave of t.
Moves(t, u) ==
  /\ Sound(u)
  /\ u.kind = t.kind /\ u.src = t.src
  /\ u.events <= t.events
  /\ t.recoveries <= u.recoveries
  /\ TaskDone(t) => Finished(t, u)
  /\ t.park \in FinalParks => u.park = t.park \/ (TaskDone(u) /\ ~Parked(u))

\* The parks of MergeBlockIsFinal, by name.
LEMMA FinalParksAre ==
  FinalParks = {"merge-blocked", "merge-auth-refused", "merge-order-missing",
    "head-moving", "ci-red", "merge-conflict", "deploy-blocked"}
BY DEF FinalParks, mergeStageParks, UnparkNever

\* A handler that writes nothing is a move.
LEMMA Stay ==
  ASSUME NEW t, Sound(t)
  PROVE  Moves(t, t)
BY DEF Moves, Finished, Sound, Task

\* A write that keeps the state, the park and the recoveries is a move.
LEMMA SideMoves ==
  ASSUME NEW t, Sound(t), NEW u \in Task, Bounded(u),
         u.kind = t.kind, u.src = t.src, u.events <= t.events,
         t.recoveries <= u.recoveries, u.state = t.state, u.park = t.park,
         u.parkedFrom = t.parkedFrom
  PROVE  Moves(t, u)
BY DEF Moves, Finished, Sound, ParkSound, Parked, TaskDone

\* stampEnter of an unparked Task: the retry lane is reset, every other budget is
\* kept.
LEMMA StampEnterSound ==
  ASSUME NEW t, Sound(t), ~Parked(t), NEW to \in States
  PROVE  /\ Sound(stampEnter(t, to)) /\ ~Parked(stampEnter(t, to))
         /\ stampEnter(t, to).kind = t.kind /\ stampEnter(t, to).src = t.src
         /\ stampEnter(t, to).events = t.events
         /\ stampEnter(t, to).recoveries = t.recoveries
         /\ stampEnter(t, to).park = t.park
<1> DEFINE u == stampEnter(t, to)
<1>1. u \in Task
  BY DEF Sound, stampEnter, ResetRetryBudget, Task, NotParked
<1>2. Bounded(u)
  BY CapsAssumption DEF Sound, Bounded, stampEnter, ResetRetryBudget, Task
<1>3. /\ u.kind = t.kind /\ u.src = t.src /\ u.events = t.events
      /\ u.park = t.park /\ u.recoveries = t.recoveries
  BY DEF Sound, stampEnter, ResetRetryBudget, Task
<1> QED BY <1>1, <1>2, <1>3 DEF Sound, ParkSound, Parked

\* stampEnter of a running Task is a move.
LEMMA StampEnterMoves ==
  ASSUME NEW t, Sound(t), ~Parked(t), ~TaskDone(t), NEW to \in States
  PROVE  Moves(t, stampEnter(t, to))
BY StampEnterSound DEF Moves, Sound, Task

\* Park records the state it parks in, and is a no-op on a parked Task.
LEMMA ParkFields ==
  ASSUME NEW t, Sound(t), NEW reason \in ParkReasons
  PROVE  /\ Sound(Park(t, reason))
         /\ Park(t, reason).kind = t.kind /\ Park(t, reason).src = t.src
         /\ Park(t, reason).events = t.events
         /\ Park(t, reason).recoveries = t.recoveries
         /\ Park(t, reason).state = t.state
         /\ Park(t, reason).park = IF Parked(t) THEN t.park ELSE reason
<1> DEFINE u == Park(t, reason)
<1>1. u \in Task
  BY ZenonT(30) DEF Sound, Park, Task
<1>2. Bounded(u)
  BY DEF Sound, Bounded, Park, Task
<1>3. ParkSound(u)
  BY DEF Sound, ParkSound, Park, Task, Parked
<1>4. /\ u.kind = t.kind /\ u.src = t.src /\ u.events = t.events
      /\ u.recoveries = t.recoveries /\ u.state = t.state
      /\ u.park = IF Parked(t) THEN t.park ELSE reason
  BY DEF Sound, Park, Task
<1> QED BY <1>1, <1>2, <1>3, <1>4 DEF Sound

\* A Task at a final park is parked.
LEMMA FinalIsParked ==
  ASSUME NEW t, t.park \in FinalParks
  PROVE  Parked(t)
BY FinalParksAre DEF Parked, NotParked

\* Parking an unfinished Task is a move.
LEMMA ParkMoves ==
  ASSUME NEW t, Sound(t), ~TaskDone(t), NEW reason \in ParkReasons
  PROVE  Moves(t, Park(t, reason))
BY ParkFields, FinalIsParked DEF Moves, Sound, Task

\* The table has no row out of a finished state and none to an unknown one.
LEMMA LegalStates ==
  ASSUME NEW from, NEW to, Legal(from, to)
  PROVE  to \in States /\ from \notin {"done", "rejected"}
BY DEF Legal, States, Create

\* Enter is a move whatever it is asked for: what it refuses it leaves alone.
LEMMA EnterMoves ==
  ASSUME NEW t, Sound(t), NEW own, NEW to
  PROVE  Moves(t, Enter(t, own, to))
BY Stay, StampEnterMoves, LegalStates DEF Enter, CanEnter, LegalFor, TaskDone

\* Moves compose.
LEMMA MovesTwice ==
  ASSUME NEW t, NEW u, NEW v, t \in Task, Moves(t, u), Moves(u, v)
  PROVE  Moves(t, v)
<1>1. v.events <= t.events /\ t.recoveries <= v.recoveries
  BY DEF Moves, Sound, Task
<1>2. TaskDone(t) => Finished(t, v)
  BY DEF Moves, Finished, TaskDone, Parked, NotParked
<1>3. t.park \in FinalParks => v.park = t.park \/ (TaskDone(v) /\ ~Parked(v))
  BY DEF Moves, Finished, TaskDone, Parked, NotParked
<1> QED BY <1>1, <1>2, <1>3 DEF Moves

\* EnterStage, for any mutation that is itself a move.
LEMMA EnterStageMoves ==
  ASSUME NEW t, Sound(t), NEW own, NEW to, NEW mutated, Moves(t, mutated)
  PROVE  Moves(t, EnterStage(t, own, to, mutated))
<1>1. Moves(mutated, Enter(mutated, own, to))
  BY EnterMoves DEF Moves
<1>2. Moves(t, Enter(mutated, own, to))
  BY <1>1, MovesTwice DEF Sound
<1> QED BY <1>2, Stay DEF EnterStage

\* ParkTask, for any mutation that is itself a move.
LEMMA ParkTaskMoves ==
  ASSUME NEW t, Sound(t), NEW mutated, Moves(t, mutated), ~TaskDone(mutated),
         NEW reason \in ParkReasons
  PROVE  Moves(t, ParkTask(t, reason, mutated))
<1>1. Moves(mutated, Park(mutated, reason))
  BY ParkMoves DEF Moves
<1>2. Moves(t, Park(mutated, reason))
  BY <1>1, MovesTwice DEF Sound
<1> QED BY <1>2, Stay DEF ParkTask

\* A bounce of t.
SoundEdge(t, e) ==
  /\ e.to \in States \cup {ParkTarget}
  /\ e.to = ParkTarget => e.reason \in ParkReasons
  /\ Moves(t, e.task)
  /\ e.task.state = t.state

\* Taking a sound bounce is a move: parked, charged in place or entered.
LEMMA TakeBounceMoves ==
  ASSUME NEW t, Sound(t), ~TaskDone(t), NEW own, NEW e, SoundEdge(t, e)
  PROVE  Moves(t, TakeBounce(t, own, e))
<1>1. ~TaskDone(e.task)
  BY DEF SoundEdge, TaskDone
<1>2. CASE e.to = ParkTarget
  BY <1>1, <1>2, ParkTaskMoves DEF SoundEdge, TakeBounce
<1>3. CASE e.to # ParkTarget /\ e.to = t.state
  BY <1>3 DEF SoundEdge, TakeBounce
<1>4. CASE e.to # ParkTarget /\ e.to # t.state
  BY <1>4, EnterStageMoves DEF SoundEdge, TakeBounce
<1> QED BY <1>2, <1>3, <1>4

\* HeadMoved tests its cap before it charges.
LEMMA HeadMovedSound ==
  ASSUME NEW t, Sound(t)
  PROVE  SoundEdge(t, HeadMoved(t))
<1> DEFINE u == [t EXCEPT !.headMoveRe = @ + 1]
<1>1. CASE t.headMoveRe >= MaxHeadMoveReentries
  BY <1>1, Stay DEF HeadMoved, Edge, SoundEdge, ParkReasons, UnparkNever, ParkTarget
<1>2. CASE ~(t.headMoveRe >= MaxHeadMoveReentries)
  <2>1. u \in Task /\ u.state = t.state
    BY DEF Sound, Task
  <2>2. Bounded(u)
    BY <1>2, CapsAssumption DEF Sound, Bounded, Task
  <2>3. Moves(t, u)
    BY <2>1, <2>2, SideMoves DEF Sound, Task
  <2> QED BY <1>2, <2>1, <2>3 DEF HeadMoved, Edge, SoundEdge, States, ParkTarget
<1> QED BY <1>1, <1>2

\* CIRed tests its cap before it charges.
LEMMA CIRedSound ==
  ASSUME NEW t, Sound(t), NEW own
  PROVE  SoundEdge(t, CIRed(t, own))
<1> DEFINE u == [t EXCEPT !.ciRedRe = @ + 1]
           parks == t.kind = "review" \/ anyMerged(own)
                      \/ t.ciRedRe >= MaxCIRedReentries
<1>1. CASE parks
  <2>1. /\ CIRed(t, own).to = ParkTarget /\ CIRed(t, own).task = t
        /\ CIRed(t, own).reason \in {"awaiting-human", "ci-failed", "ci-blocked"}
    BY <1>1 DEF CIRed, Edge
  <2>2. CIRed(t, own).reason \in ParkReasons
    BY <2>1 DEF ParkReasons, UnparkNever, UnparkHuman, UnparkRetry
  <2> QED BY <2>1, <2>2, Stay DEF SoundEdge
<1>2. CASE ~parks
  <2>1. u \in Task /\ u.state = t.state
    BY DEF Sound, Task
  <2>2. Bounded(u)
    BY <1>2, CapsAssumption DEF Sound, Bounded, Task
  <2>3. Moves(t, u)
    BY <2>1, <2>2, SideMoves DEF Sound, Task
  <2>4. /\ CIRed(t, own).to = "under-implementation"
        /\ CIRed(t, own).task = u
    BY <1>2 DEF CIRed, Edge
  <2> QED BY <2>1, <2>3, <2>4 DEF SoundEdge, States, ParkTarget
<1> QED BY <1>1, <1>2

\* MergeConflict tests its cap before it charges.
LEMMA MergeConflictSound ==
  ASSUME NEW t, Sound(t), NEW own
  PROVE  SoundEdge(t, MergeConflict(t, own))
<1> DEFINE u == [t EXCEPT !.conflictRe = @ + 1]
           parks == t.kind = "review" \/ anyMerged(own)
                      \/ t.conflictRe >= MaxMergeConflictReentries
<1>1. CASE parks
  <2>1. /\ MergeConflict(t, own).to = ParkTarget
        /\ MergeConflict(t, own).task = t
        /\ MergeConflict(t, own).reason
             \in {"awaiting-human", "merge-conflict-retry", "merge-blocked"}
    BY <1>1 DEF MergeConflict, Edge
  <2>2. MergeConflict(t, own).reason \in ParkReasons
    BY <2>1 DEF ParkReasons, UnparkNever, UnparkHuman, UnparkRetry
  <2> QED BY <2>1, <2>2, Stay DEF SoundEdge
<1>2. CASE ~parks
  <2>1. u \in Task /\ u.state = t.state
    BY DEF Sound, Task
  <2>2. Bounded(u)
    BY <1>2, CapsAssumption DEF Sound, Bounded, Task
  <2>3. Moves(t, u)
    BY <2>1, <2>2, SideMoves DEF Sound, Task
  <2>4. /\ MergeConflict(t, own).to = "under-implementation"
        /\ MergeConflict(t, own).task = u
    BY <1>2 DEF MergeConflict, Edge
  <2> QED BY <2>1, <2>3, <2>4 DEF SoundEdge, States, ParkTarget
<1> QED BY <1>1, <1>2

\* Every edge of the advance after a review is sound.
LEMMA AdvanceSound ==
  ASSUME NEW t, Sound(t), NEW own, NEW e \in AdvanceEdges(t, own)
  PROVE  SoundEdge(t, e)
<1>1. SoundEdge(t, reviewAdvanceEdge(t, own))
  <2> DEFINE a == reviewAdvanceEdge(t, own)
  <2>1. terminalMREdge(own) \in {"done", "rejected"}
    BY DEF terminalMREdge
  <2>2. /\ a.to \in {"done", "rejected", "under-implementation", "merged",
                      ParkTarget}
        /\ a.to = ParkTarget => a.reason = "awaiting-human"
        /\ a.task = t
    BY <2>1 DEF reviewAdvanceEdge, Edge, ParkTarget
  <2>3. "awaiting-human" \in ParkReasons
    BY DEF ParkReasons, UnparkHuman
  <2> QED BY <2>2, <2>3, Stay DEF SoundEdge, States
<1>2. SoundEdge(t, CIRed(t, own))
  BY CIRedSound
<1> QED BY <1>1, <1>2 DEF AdvanceEdges

\* What may be under way: no park, or one with a reason of the table.
Lates == {NoPark} \cup [reason : ParkReasons, unhold : BOOLEAN]

\* A park that is decided and not written leaves the Task alone.
LEMMA DecidedMoves ==
  ASSUME Sound(task), NEW reason \in ParkReasons, NEW mutated,
         mutated.ciWait \in BOOLEAN, Decided(reason, mutated)
  PROVE  Moves(task, task') /\ late' \in Lates
<1>1. task' = task
  BY DEF Decided
<1>2. late' \in Lates
  BY DEF Decided, Lates, Sound, Task
<1> QED BY <1>1, <1>2, Stay

\* Parking, now or late, is a move of an unfinished Task.
LEMMA ParkingMoves ==
  ASSUME Sound(task), late \in Lates, ~TaskDone(task),
         NEW reason \in ParkReasons, Parking(reason)
  PROVE  Moves(task, task') /\ late' \in Lates
<1>1. task.ciWait \in BOOLEAN
  BY DEF Sound, Task
<1> QED BY <1>1, Stay, ParkTaskMoves, DecidedMoves DEF Parking

\* Taking a sound bounce, or deciding its park, is a move.
LEMMA BounceMoves ==
  ASSUME Sound(task), late \in Lates, ~TaskDone(task), NEW own, NEW e,
         SoundEdge(task, e), Bounce(own, e)
  PROVE  Moves(task, task') /\ late' \in Lates
<1>1. e.task.ciWait \in BOOLEAN
  BY DEF SoundEdge, Moves, Sound, Task
<1> QED BY <1>1, TakeBounceMoves, DecidedMoves DEF Bounce, SoundEdge

\* The advance is a move.
LEMMA AdvanceMoves ==
  ASSUME Sound(task), late \in Lates, ~TaskDone(task), NEW own, Advance(own)
  PROVE  Moves(task, task') /\ late' \in Lates
BY AdvanceSound, BounceMoves DEF Advance

\* The writes of a release, field by field.
LEMMA ReleaseFields ==
  ASSUME NEW t \in Task
  PROVE  /\ clearPark(t) \in Task
         /\ clearPark(t) = [t EXCEPT !.park = NotParked, !.armed = FALSE]
         /\ reArm(t) \in Task
         /\ reArm(t) = [t EXCEPT !.park = NotParked, !.armed = FALSE,
                                !.handoff = FALSE]
         /\ ResetRetryBudget(t) \in Task
         /\ consumeUnparkEvents(t) \in Task
<1>1. clearPark(t) \in Task
  BY DEF clearPark, Task
<1>2. reArm(t) = [t EXCEPT !.park = NotParked, !.armed = FALSE, !.handoff = FALSE]
  BY DEF reArm, clearPark, Task
<1>3. reArm(t) \in Task
  BY <1>2 DEF Task
<1>4. ResetRetryBudget(t) \in Task /\ consumeUnparkEvents(t) \in Task
  BY DEF ResetRetryBudget, consumeUnparkEvents, Task
<1> QED BY <1>1, <1>2, <1>3, <1>4 DEF clearPark

\* clearPark is a move for every park that is not final.
LEMMA ClearParkMoves ==
  ASSUME NEW t, Sound(t), t.park \notin FinalParks
  PROVE  Moves(t, clearPark(t)) /\ clearPark(t).state = t.state
           /\ ~Parked(clearPark(t))
<1> DEFINE u == clearPark(t)
<1>1. u \in Task
  BY ReleaseFields DEF Sound
<1>2. Bounded(u)
  BY DEF Sound, Bounded, clearPark, Task
<1>3. ~Parked(u) /\ u.state = t.state
  BY DEF Sound, clearPark, Task, Parked
<1>4. /\ u.kind = t.kind /\ u.src = t.src /\ u.events = t.events
      /\ u.recoveries = t.recoveries
  BY DEF Sound, clearPark, Task
<1> QED BY <1>1, <1>2, <1>3, <1>4
        DEF Moves, Finished, Sound, ParkSound, Parked, NotParked, Task

\* reArm is a move for every park that is not final.
LEMMA ReArmMoves ==
  ASSUME NEW t, Sound(t), t.park \notin FinalParks
  PROVE  Moves(t, reArm(t)) /\ reArm(t).state = t.state
<1> DEFINE u == reArm(t)
<1>1. u \in Task
  BY ReleaseFields DEF Sound
<1>2. Bounded(u)
  BY DEF Sound, Bounded, reArm, clearPark, Task
<1>3. ~Parked(u) /\ u.state = t.state
  BY DEF Sound, reArm, clearPark, Task, Parked
<1>4. /\ u.kind = t.kind /\ u.src = t.src /\ u.events = t.events
      /\ u.recoveries = t.recoveries
  BY DEF Sound, reArm, clearPark, Task
<1> QED BY <1>1, <1>2, <1>3, <1>4
        DEF Moves, Finished, Sound, ParkSound, Parked, NotParked, Task

\* repark is a move for every park that is not final; only an unfinished Task
\* is sent to ownership-lost by one.
LEMMA ReparkMoves ==
  ASSUME NEW t, Sound(t), t.park \notin FinalParks, NEW reason \in ParkReasons,
         Parked(t), TaskDone(t) => reason # "ownership-lost"
  PROVE  Moves(t, repark(t, reason))
<1> DEFINE c == clearPark(t)
<1>1. Sound(c) /\ ~Parked(c) /\ c.state = t.state
  BY ClearParkMoves DEF Moves
<1>2. /\ c.kind = t.kind /\ c.src = t.src /\ c.events = t.events
      /\ c.recoveries = t.recoveries
  BY DEF Sound, clearPark, Task
<1> HIDE DEF c
<1>3. /\ Sound(Park(c, reason)) /\ Park(c, reason).state = t.state
      /\ Park(c, reason).park = reason
      /\ Park(c, reason).kind = t.kind /\ Park(c, reason).src = t.src
      /\ Park(c, reason).events = t.events
      /\ Park(c, reason).recoveries = t.recoveries
  BY <1>1, <1>2, ParkFields
<1> QED BY <1>3 DEF Moves, Finished, TaskDone, repark, c, Sound, Task

\* The refund of the lane and the consumption of the comments are moves.
LEMMA RefundMoves ==
  ASSUME NEW t, Sound(t)
  PROVE  /\ Moves(t, ResetRetryBudget(t))
         /\ Moves(t, consumeUnparkEvents(t))
         /\ consumeUnparkEvents(t).events = 0
         /\ ResetRetryBudget(t).events = t.events
<1> DEFINE u == ResetRetryBudget(t)
           v == consumeUnparkEvents(t)
<1>1. u \in Task /\ v \in Task
  BY ReleaseFields DEF Sound
<1>2. Bounded(u)
  BY CapsAssumption DEF Sound, Bounded, ResetRetryBudget, Task
<1>3. Bounded(v)
  BY DEF Sound, Bounded, consumeUnparkEvents, Task
<1>4. /\ u.kind = t.kind /\ u.src = t.src /\ u.events = t.events
      /\ u.recoveries = t.recoveries /\ u.state = t.state
      /\ u.park = t.park /\ u.parkedFrom = t.parkedFrom
  BY DEF Sound, ResetRetryBudget, Task
<1>5. /\ v.kind = t.kind /\ v.src = t.src /\ v.events = 0
      /\ v.recoveries = t.recoveries /\ v.state = t.state
      /\ v.park = t.park /\ v.parkedFrom = t.parkedFrom
  BY DEF Sound, consumeUnparkEvents, Task
<1>6. Moves(t, u)
  BY <1>1, <1>2, <1>4, SideMoves DEF Sound, Task
<1>7. Moves(t, v)
  BY <1>1, <1>3, <1>5, SideMoves DEF Sound, Task
<1> QED BY <1>4, <1>5, <1>6, <1>7

\* The charge of a release stays under the caps the release tests.
LEMMA ChargedMoves ==
  ASSUME NEW t, Sound(t), NEW own,
         chargesRound(t, own) => roundsLeft(t),
         t.park = "merge-timeout" => t.mergeRe < MaxMergeReentries,
         t.park = "deploy-timeout" => t.deployRe < MaxDeployReentries
  PROVE  Moves(t, charged(t, own)) /\ charged(t, own).park = t.park
           /\ charged(t, own).state = t.state
<1> DEFINE u == charged(t, own)
<1> DEFINE r == IF chargesRound(t, own) THEN t.rounds + 1 ELSE t.rounds
           m == IF t.park = "merge-timeout" THEN t.mergeRe + 1 ELSE t.mergeRe
           d == IF t.park = "deploy-timeout" THEN t.deployRe + 1 ELSE t.deployRe
<1>0. r \in Nat /\ m \in Nat /\ d \in Nat
  BY DEF Sound, Task
<1>1. u \in Task
  <2>1. u = [t EXCEPT !.rounds = r, !.mergeRe = m, !.deployRe = d]
    BY DEF charged
  <2> HIDE DEF r, m, d, u
  <2> QED BY <1>0, <2>1 DEF Sound, Task
<1>2. Bounded(u)
  BY CapsAssumption DEF Sound, Bounded, charged, roundsLeft, Task
<1>3. /\ u.kind = t.kind /\ u.src = t.src /\ u.events = t.events
      /\ u.recoveries = t.recoveries /\ u.state = t.state
      /\ u.park = t.park /\ u.parkedFrom = t.parkedFrom
  BY DEF Sound, charged, Task
<1> QED BY <1>1, <1>2, <1>3, SideMoves DEF Sound, Task

\* Unpark under unparkRule; a release of the human class leaves no comment.
LEMMA UnparkMoves ==
  ASSUME NEW t, Sound(t), NEW own, NEW io, NEW room, NEW cap, NEW due,
         CanUnpark(t, own, io, room, cap, due)
  PROVE  /\ Moves(t, Unpark(t, own))
         /\ t.park \in UnparkHuman => t.events > 0 /\ Unpark(t, own).events = 0
<1> DEFINE c == charged(t, own)
           r == reArm(c)
           e == consumeUnparkEvents(r)
<1>1. Moves(t, c) /\ c.park = t.park
  BY ChargedMoves DEF CanUnpark
<1>2. t.park \notin FinalParks
  BY FinalParksAre DEF CanUnpark, UnparkHuman, UnparkTimer, UnparkRetry
<1>3. Moves(t, r)
  BY <1>1, <1>2, ReArmMoves, MovesTwice DEF Moves, Sound
<1>4. Moves(t, e) /\ e.events = 0
  BY <1>3, RefundMoves, MovesTwice DEF Moves, Sound
<1>5. Moves(t, ResetRetryBudget(e)) /\ ResetRetryBudget(e).events = 0
  <2> HIDE DEF e
  <2>1. Sound(e) /\ t \in Task
    BY <1>4 DEF Moves, Sound
  <2>2. Moves(e, ResetRetryBudget(e)) /\ ResetRetryBudget(e).events = 0
    BY <1>4, <2>1, RefundMoves
  <2> QED BY <1>4, <2>1, <2>2, MovesTwice
<1> QED BY <1>3, <1>5 DEF Unpark, CanUnpark

\* The maintainer's comment releases no final park and is consumed.
LEMMA MaintainerMoves ==
  ASSUME NEW t, Sound(t), CanUnparkMaintainer(t)
  PROVE  /\ Moves(t, UnparkMaintainerComment(t))
         /\ UnparkMaintainerComment(t).events = 0
<1> DEFINE r == reArm(t)
           b == ResetRetryBudget(r)
<1>1. Moves(t, r)
  BY ReArmMoves DEF CanUnparkMaintainer, FinalParks
<1>2. Moves(t, b)
  BY <1>1, RefundMoves, MovesTwice DEF Moves, Sound
<1>3. Moves(b, consumeUnparkEvents(b)) /\ consumeUnparkEvents(b).events = 0
  BY <1>2, RefundMoves DEF Moves
<1> QED BY <1>2, <1>3, MovesTwice DEF UnparkMaintainerComment, Sound

\* A take-over moves a stood-down Task and leaves it unparked.
LEMMA TakeoverMoves ==
  ASSUME NEW t, Sound(t), NEW to, CanUnparkTakeover(t, to)
  PROVE  Moves(t, UnparkTakeover(t, to))
<1> DEFINE c == clearPark(t)
           u == stampEnter(c, to)
<1>1. t.park = "ownership-lost" /\ t.park \notin FinalParks /\ Parked(t)
        /\ to \in States
  BY FinalParksAre DEF CanUnparkTakeover, Parked, NotParked, States
<1>2. Sound(c) /\ ~Parked(c)
  BY <1>1, ClearParkMoves DEF Moves
<1>3. /\ c.kind = t.kind /\ c.src = t.src /\ c.events = t.events
      /\ c.recoveries = t.recoveries
  BY DEF Sound, clearPark, Task
<1> HIDE DEF c
<1>4. /\ Sound(u) /\ ~Parked(u) /\ u.kind = c.kind /\ u.src = c.src
      /\ u.events = c.events /\ u.recoveries = c.recoveries
  BY <1>1, <1>2, StampEnterSound
<1> HIDE DEF u
<1>5. Moves(t, u)
  BY <1>1, <1>3, <1>4 DEF Moves, Finished, Sound, Task, Parked, NotParked
<1> QED BY <1>5 DEF UnparkTakeover, u, c

\* ArmRetry under the test its two callers make.
LEMMA ArmRetryMoves ==
  ASSUME NEW t, Sound(t), t.park \in UnparkRetry,
         t.blocker = t.park => t.attempts < MaxUnparkRetries
  PROVE  Moves(t, ArmRetry(t))
<1> DEFINE u == ArmRetry(t)
<1> DEFINE n == (IF t.blocker = t.park THEN t.attempts ELSE 0) + 1
           b == t.park
<1>0. n \in Nat
  BY DEF Sound, Task
<1>1. u \in Task
  <2>1. u = [t EXCEPT !.blocker = b, !.attempts = n, !.armed = TRUE]
    BY DEF ArmRetry
  <2>2. b \in UnparkRetry
    OBVIOUS
  <2> HIDE DEF n, b, u
  <2> QED BY <1>0, <2>1, <2>2 DEF Sound, Task
<1>2. Bounded(u)
  BY CapsAssumption DEF Sound, Bounded, ArmRetry, Task
<1>3. /\ u.kind = t.kind /\ u.src = t.src /\ u.events = t.events
      /\ u.recoveries = t.recoveries /\ u.state = t.state
      /\ u.park = t.park /\ u.parkedFrom = t.parkedFrom
  BY DEF Sound, ArmRetry, Task
<1> QED BY <1>1, <1>2, <1>3, SideMoves DEF Sound, Task

\* A maintainer's review refunds the bounces.
LEMMA ZeroBouncesMoves ==
  ASSUME NEW t, Sound(t)
  PROVE  Moves(t, zeroBounces(t))
<1> DEFINE u == zeroBounces(t)
<1>1. u \in Task
  BY DEF Sound, zeroBounces, Task
<1>2. Bounded(u)
  BY CapsAssumption DEF Sound, Bounded, zeroBounces, Task
<1>3. /\ u.kind = t.kind /\ u.src = t.src /\ u.events = t.events
      /\ u.recoveries = t.recoveries /\ u.state = t.state
      /\ u.park = t.park /\ u.parkedFrom = t.parkedFrom
  BY DEF Sound, zeroBounces, Task
<1> QED BY <1>1, <1>2, <1>3, SideMoves DEF Sound, Task

\* ReenterOnReviewChangesRequested, in its three cases.
LEMMA ReenterMoves ==
  ASSUME NEW t, Sound(t), NEW own, CanReenterOnReview(t, own)
  PROVE  Moves(t, ReenterOnReviewChangesRequested(t, own))
<1> DEFINE v == ReenterOnReviewChangesRequested(t, own)
<1>1. CASE t.park = "merge-timeout"
  <2> DEFINE u == [t EXCEPT !.mergeRe = @ + 1]
  <2>1. t.mergeRe < MaxMergeReentries
    BY <1>1 DEF CanReenterOnReview, CanEnter, Parked, NotParked
  <2>2. u \in Task
    BY DEF Sound, Task
  <2>3. Bounded(u)
    BY <2>1, CapsAssumption DEF Sound, Bounded, Task
  <2>4. /\ u.kind = t.kind /\ u.src = t.src /\ u.events = t.events
        /\ u.recoveries = t.recoveries /\ u.state = t.state
        /\ u.park = t.park /\ u.parkedFrom = t.parkedFrom
    BY DEF Sound, Task
  <2>5. Moves(t, u)
    BY <2>2, <2>3, <2>4, SideMoves DEF Sound, Task
  <2>6. u.park \notin FinalParks
    BY <1>1, <2>4, FinalParksAre
  <2> HIDE DEF u
  <2>7. Moves(u, reArm(u))
    BY <2>5, <2>6, ReArmMoves DEF Moves
  <2>8. Moves(t, reArm(u))
    BY <2>5, <2>7, MovesTwice DEF Sound
  <2> QED BY <1>1, <2>8 DEF ReenterOnReviewChangesRequested, u
<1>2. CASE t.park = "no-outcome"
  <2>1. Moves(t, reArm(t))
    BY <1>2, FinalParksAre, ReArmMoves
  <2>2. Moves(t, zeroBounces(reArm(t)))
    BY <2>1, ZeroBouncesMoves, MovesTwice DEF Moves, Sound
  <2> QED BY <1>2, <2>2 DEF ReenterOnReviewChangesRequested
<1>3. CASE t.park \notin {"merge-timeout", "no-outcome"}
  <2> DEFINE u == stampEnter(t, "under-implementation")
  <2>1. ~Parked(t) /\ ~TaskDone(t)
    BY <1>3 DEF CanReenterOnReview, CanEnter, TaskDone
  <2>2. Moves(t, u)
    BY <2>1, StampEnterMoves DEF States
  <2>3. Moves(t, zeroBounces(u))
    BY <2>2, ZeroBouncesMoves, MovesTwice DEF Moves, Sound
  <2>4. v = zeroBounces(u)
    BY <1>3 DEF ReenterOnReviewChangesRequested
  <2> QED BY <2>3, <2>4
<1> QED BY <1>1, <1>2, <1>3

\* parkOwnerTask spares a finished owner.
LEMMA ParkOwnerMoves ==
  ASSUME NEW t, Sound(t)
  PROVE  Moves(t, parkOwner(t))
<1>1. "ownership-lost" \in ParkReasons
  BY DEF ParkReasons, UnparkNever
<1>2. CASE TaskDone(t)
  BY <1>2, Stay DEF parkOwner
<1>3. CASE ~TaskDone(t) /\ ~Parked(t)
  BY <1>1, <1>3, Stay, ParkTaskMoves DEF parkOwner
<1>4. CASE ~TaskDone(t) /\ Parked(t)
  <2>1. t.park = "implement-declined" => Moves(t, repark(t, "ownership-lost"))
    BY <1>1, <1>4, FinalParksAre, ReparkMoves
  <2> QED BY <1>4, <2>1, Stay DEF parkOwner
<1> QED BY <1>2, <1>3, <1>4

----------------------------------------------------------------------------
Mirrors ==
  /\ mrs \in [MRs -> MRRecord]
  /\ issue \in {"none", "open", "closed"}
  /\ grant \in {"none", "given"}
  /\ late \in Lates
  /\ served \in BOOLEAN
  /\ waved \in BOOLEAN
  /\ pushes \in Nat

Quiet == UNCHANGED <<comments, released>>

\* A step that moves the Task and releases no park that waits for a human.
Steady == Moves(task, task') /\ Mirrors' /\ Quiet

\* An absent mirror is a mirror.
LEMMA NoMRTyped == NoMR \in MRRecord
BY DEF NoMR, MRRecord

\* What leaves the mirrors alone keeps their types.
LEMMA UntouchedMirrors ==
  ASSUME Mirrors, UNCHANGED <<mrs, issue, grant, pushes, served, waved>>,
         late' \in Lates
  PROVE  Mirrors'
BY DEF Mirrors

\* Parking a running Task is a move.
LEMMA RunningParks ==
  ASSUME Sound(task), Mirrors, Running, NEW reason \in ParkReasons,
         Parking(reason)
  PROVE  Moves(task, task') /\ late' \in Lates
BY ParkingMoves DEF Running, Mirrors

\* Every outcome handler is a steady step.
LEMMA AgentsSteady ==
  ASSUME Sound(task), Mirrors, Agents
  PROVE  Steady
<1> USE DEF Steady, Quiet, env, rest
<1>1. ASSUME NEW m \in MRs, OpenMR(m) PROVE Steady
  <2> DEFINE r == [NoMR EXCEPT !.st = "open", !.held = TRUE]
  <2>1. r \in MRRecord
    BY DEF NoMR, MRRecord
  <2>2. Mirrors'
    BY <1>1, <2>1 DEF OpenMR, Opened, Mirrors
  <2> QED BY <1>1, <2>2, Stay DEF OpenMR
<1>3. ASSUME SubmitRefused \/ SubmitToReview \/ SubmitShipped PROVE Steady
  BY <1>3, EnterMoves, UntouchedMirrors
     DEF Mirrors, SubmitRefused, SubmitToReview, SubmitShipped
<1>4. ASSUME SubmitHeld PROVE Steady
  <2> DEFINE u == [task EXCEPT !.ciWait = TRUE]
  <2>1. u \in Task
    BY DEF Sound, Task
  <2>2. Bounded(u)
    BY DEF Sound, Bounded, Task
  <2>3. Moves(task, u)
    BY <2>1, <2>2, SideMoves DEF Sound, Task
  <2> QED BY <1>4, <2>3, UntouchedMirrors DEF Mirrors, SubmitHeld
<1>5. ASSUME Declined \/ Discuss PROVE Steady
  <2>1. "implement-declined" \in ParkReasons /\ "awaiting-human" \in ParkReasons
    BY DEF ParkReasons, UnparkNever, UnparkHuman
  <2> QED BY <1>5, <2>1, EnterMoves, RunningParks, UntouchedMirrors
          DEF Mirrors, Declined, Discuss, Accepts
<1>6. ASSUME GateRejected PROVE Steady
  BY <1>6, EnterMoves DEF GateRejected, Mirrors
<1>7. ASSUME GateApproved PROVE Steady
  BY <1>7, EnterMoves DEF GateApproved, Mirrors
<1>8. ASSUME NonCodeOutcome PROVE Steady
  <2>1. "fold-adoption-unverified" \in ParkReasons
    BY DEF ParkReasons, UnparkNever
  <2> QED BY <1>8, <2>1, EnterMoves, RunningParks, UntouchedMirrors
          DEF Mirrors, NonCodeOutcome, Accepts
<1>9. ASSUME ReviewOutcome PROVE Steady
  <2> DEFINE u == [task EXCEPT !.handoff = task.state = "awaiting-review"]
  <2>1. u \in Task
    BY DEF Sound, Task
  <2>2. Bounded(u)
    BY DEF Sound, Bounded, Task
  <2>3. Moves(task, u)
    BY <2>1, <2>2, SideMoves DEF Sound, Task
  <2>4. mrs' \in [MRs -> MRRecord]
    <3>1. PICK verdict \in {"approved", "needs-changes"} :
            mrs' = [m \in MRs |-> IF m \in openMRs(owned)
                      THEN [mrs[m] EXCEPT !.verdict = verdict, !.pend = verdict,
                                          !.cur = TRUE]
                      ELSE mrs[m]]
      BY <1>9 DEF ReviewOutcome
    <3>2. ASSUME NEW m \in MRs
          PROVE  [mrs[m] EXCEPT !.verdict = verdict, !.pend = verdict,
                                !.cur = TRUE] \in MRRecord
      BY <3>1 DEF Mirrors, MRRecord
    <3> QED BY <3>1, <3>2 DEF Mirrors
  <2> QED BY <1>9, <2>3, <2>4 DEF ReviewOutcome, Mirrors
<1>10. ASSUME ObjectTooLarge PROVE Steady
  <2> DEFINE u == [task EXCEPT !.park = "object-too-large"]
  <2>1. u \in Task
    BY DEF Sound, Task, ParkReasons, UnparkNever
  <2>2. Bounded(u)
    BY DEF Sound, Bounded, Task
  <2>3. ~Parked(task) /\ ~TaskDone(task)
    BY <1>10 DEF ObjectTooLarge, Accepts, Running
  <2>4. task.park \notin FinalParks
    BY <2>3, FinalParksAre DEF Parked, NotParked
  <2>5. /\ u.kind = task.kind /\ u.src = task.src /\ u.events = task.events
        /\ u.recoveries = task.recoveries /\ u.state = task.state
        /\ u.park = "object-too-large"
    BY DEF Sound, Task
  <2>6. Moves(task, u)
    BY <2>1, <2>2, <2>3, <2>4, <2>5
       DEF Moves, Sound, ParkSound, Task
  <2> QED BY <1>10, <2>6, UntouchedMirrors DEF Mirrors, ObjectTooLarge
<1> QED BY <1>1, <1>3, <1>4, <1>5, <1>6, <1>7, <1>8, <1>9, <1>10 DEF Agents

\* EnterStage leaves the Task where it was or where it was sent.
LEMMA EnterStageStates ==
  ASSUME NEW t, Sound(t), NEW own, NEW to
  PROVE  EnterStage(t, own, to, t).state \in {t.state, to}
BY DEF EnterStage, Enter, stampEnter, ResetRetryBudget, Sound, Task

\* Minting, the binding backstop and triage are steady steps.
LEMMA MintSteady ==
  ASSUME Sound(task), Mirrors,
         TerminalReset \/ Mint \/ MRBindingBackstop \/ ParkedBindingRepair
           \/ Triage \/ TriageRefused
  PROVE  Steady
<1> USE DEF Steady, Quiet, env, rest
<1>1. ASSUME TerminalReset PROVE Steady
  BY <1>1, Stay, EnterStageMoves, UntouchedMirrors DEF Mirrors, TerminalReset
<1>2. ASSUME Mint PROVE Steady
  <2> DEFINE e == EnterStage(task, NoMRs, InitialState(task), task)
  <2>1. Moves(task, e)
    BY Stay, EnterStageMoves
  <2>2. InitialState(task) \in {"new", "under-implementation"}
    BY DEF InitialState
  <2>3. ~TaskDone(e)
    BY <1>2, <2>2, EnterStageStates DEF Mint, TaskDone, Create
  <2>4. PICK park \in InitialParks(task) :
          task' = IF park = NotParked THEN e ELSE Park(e, park)
    BY <1>2 DEF Mint
  <2>5. park # NotParked => park \in ParkReasons
    BY <2>4 DEF InitialParks, NotParked, ParkReasons, UnparkHuman
  <2> HIDE DEF e
  <2>6. park # NotParked => Moves(e, Park(e, park))
    BY <2>1, <2>3, <2>5, ParkMoves DEF Moves
  <2>7. Moves(task, task')
    BY <2>1, <2>4, <2>6, MovesTwice DEF Sound
  <2> QED BY <1>2, <2>7, UntouchedMirrors DEF Mirrors, Mint
<1>3. ASSUME Repaired, UNCHANGED <<grant, late, rest>> PROVE Mirrors'
  <2>1. CASE issue' = "open" /\ mrs' = mrs
    BY <1>3, <2>1 DEF Mirrors
  <2>2. ASSUME NEW m \in MRs, mrs' = [mrs EXCEPT ![m] = BoundMR(task.kind)],
               issue' = issue
        PROVE  Mirrors'
    <3>1. BoundMR(task.kind) \in MRRecord
      BY DEF BoundMR, NoMR, MRRecord
    <3> QED BY <1>3, <2>2, <3>1 DEF Mirrors
  <2> QED BY <1>3, <2>1, <2>2 DEF Repaired
<1>4. ASSUME MRBindingBackstop PROVE Steady
  <2>1. "awaiting-human" \in ParkReasons
    BY DEF ParkReasons, UnparkHuman
  <2> QED BY <1>3, <1>4, <2>1, Stay, RunningParks, UntouchedMirrors
          DEF Mirrors, MRBindingBackstop
<1>5. ASSUME ParkedBindingRepair PROVE Steady
  BY <1>3, <1>5, Stay DEF ParkedBindingRepair
<1>6. ASSUME Triage PROVE Steady
  <2>1. Moves(task, task')
    BY <1>6, Stay, EnterStageMoves DEF Triage
  <2> QED BY <1>6, <2>1 DEF Triage, Mirrors
<1>7. ASSUME TriageRefused PROVE Steady
  <2>1. "name-too-long" \in ParkReasons /\ "triage-stalled" \in ParkReasons
    BY DEF ParkReasons, UnparkNever
  <2> QED BY <1>7, <2>1, RunningParks, UntouchedMirrors DEF Mirrors, TriageRefused, Clocked
<1> QED BY <1>1, <1>2, <1>4, <1>5, <1>6, <1>7

\* Draining a pending review is a steady step.
LEMMA DrainSteady ==
  ASSUME Sound(task), Mirrors, NEW m \in MRs, DrainPendingReview(m)
  PROVE  Steady
<1> USE DEF Steady, Quiet, env, rest
<1>1. [mrs[m] EXCEPT !.pend = "none"] \in MRRecord
  BY DEF Mirrors, MRRecord
<1>2. [mrs[m] EXCEPT !.verdict = mrs[m].pend, !.pend = "none", !.cur = TRUE]
        \in MRRecord
  BY DEF Mirrors, MRRecord, DrainPendingReview
<1>3. Cleared(m) \in [MRs -> MRRecord]
  BY <1>1 DEF Cleared, Mirrors
<1>4. Settled(m) \in [MRs -> MRRecord]
  BY <1>2 DEF Settled, Mirrors
<1>5. "review-post-refused" \in ParkReasons
  BY DEF ParkReasons, UnparkNever
<1>6. task.state = "awaiting-review" => ~TaskDone(task)
  BY DEF TaskDone
<1>7. Moves(task, task') /\ late' \in Lates
  BY <1>5, <1>6, Stay, ParkingMoves, AdvanceMoves DEF DrainPendingReview, Mirrors
<1>8. Mirrors'
  BY <1>3, <1>4, <1>7 DEF DrainPendingReview, Mirrors
<1> QED BY <1>7, <1>8 DEF DrainPendingReview

ReviewSteps ==
  FinalizeAtReview \/ FinalizeTakenOver \/ CIRedAtReview \/ RedriveHandoff
    \/ HandoffDeadline \/ ResidencyExceeded \/ ClockElapsed
    \/ ReArmAfterPodLoss \/ PodExit \/ DeliverEvents \/ CIWaitRed \/ CIWaitOver

\* The clocks, the hand-off and the CI hold are steady steps.
LEMMA ReviewStepsSteady ==
  ASSUME Sound(task), Mirrors, ReviewSteps
  PROVE  Steady
<1> USE DEF Steady, Quiet, env, rest
<1>1. ASSUME FinalizeAtReview \/ FinalizeTakenOver PROVE Steady
  BY <1>1, Stay, EnterStageMoves, UntouchedMirrors
     DEF Mirrors, FinalizeAtReview, FinalizeTakenOver
<1>2. ASSUME CIRedAtReview PROVE Steady
  BY <1>2, CIRedSound, BounceMoves, UntouchedMirrors
     DEF Mirrors, CIRedAtReview, AtReview, Clocked, Running
<1>3. ASSUME RedriveHandoff PROVE Steady
  BY <1>3, AdvanceMoves, UntouchedMirrors
     DEF Mirrors, RedriveHandoff, AtReview, Clocked, Running
<1>4. ASSUME HandoffDeadline PROVE Steady
  <2>1. "handoff-stalled" \in ParkReasons
    BY DEF ParkReasons, UnparkHuman
  <2> QED BY <1>4, <2>1, RunningParks, UntouchedMirrors
          DEF Mirrors, HandoffDeadline, AtReview, Clocked
<1>5. ASSUME ResidencyExceeded PROVE Steady
  <2>1. "stage-deadline" \in ParkReasons
    BY DEF ParkReasons, UnparkNever
  <2> QED BY <1>5, <2>1, RunningParks, UntouchedMirrors
          DEF Mirrors, ResidencyExceeded, PastHandoff, Clocked
<1>6. ASSUME ClockElapsed PROVE Steady
  <2>1. onElapse(task.state) \in ParkReasons
    BY DEF onElapse, ParkReasons, UnparkHuman, UnparkTimer, UnparkNever
  <2>2. "admission-starved" \in ParkReasons
    BY DEF ParkReasons, UnparkNever
  <2> QED BY <1>6, <2>1, <2>2, RunningParks, UntouchedMirrors
          DEF Mirrors, ClockElapsed, PastHandoff, Clocked
<1>7. ASSUME ReArmAfterPodLoss PROVE Steady
  <2> DEFINE u == [task EXCEPT !.handoff = FALSE]
  <2>1. u \in Task
    BY DEF Sound, Task
  <2>2. Bounded(u)
    BY DEF Sound, Bounded, Task
  <2>3. Moves(task, u)
    BY <2>1, <2>2, SideMoves DEF Sound, Task
  <2> QED BY <1>7, <2>3, UntouchedMirrors DEF Mirrors, ReArmAfterPodLoss
<1>8. ASSUME PodExit PROVE Steady
  <2>1. {"no-outcome", "agent-contract-mismatch", "operator-error"}
          \subseteq ParkReasons
    BY DEF ParkReasons, UnparkTimer, UnparkNever
  <2> QED BY <1>8, <2>1, RunningParks, UntouchedMirrors
          DEF Mirrors, PodExit, PastHandoff, Clocked
<1>9. ASSUME DeliverEvents PROVE Steady
  BY <1>9, RefundMoves, UntouchedMirrors DEF Mirrors, DeliverEvents, consumeUnparkEvents
<1>10. ASSUME CIWaitRed PROVE Steady
  <2> DEFINE c == CIRed(task, owned)
             u == [clearHold(c.task) EXCEPT !.handoff = FALSE]
             e == [c EXCEPT !.task = u]
  <2>1. SoundEdge(task, c)
    BY CIRedSound
  <2>2. c.task \in Task /\ Sound(c.task) /\ c.task.state = task.state
    BY <2>1 DEF SoundEdge, Moves, Sound
  <2>3. u \in Task /\ u.state = c.task.state
    BY <2>2 DEF clearHold, Task
  <2>4. Bounded(u)
    BY <2>2 DEF Sound, Bounded, clearHold, Task
  <2>5. Moves(c.task, u)
    <3>1. /\ u.kind = c.task.kind /\ u.src = c.task.src
          /\ u.events = c.task.events /\ u.recoveries = c.task.recoveries
          /\ u.park = c.task.park /\ u.parkedFrom = c.task.parkedFrom
      BY <2>2 DEF clearHold, Task
    <3>2. c.task.events \in Nat /\ c.task.recoveries \in Nat
      BY <2>2 DEF Task
    <3> HIDE DEF u, c
    <3> QED BY <2>2, <2>3, <2>4, <3>1, <3>2, SideMoves
  <2>6. Moves(task, u)
    BY <2>1, <2>5, MovesTwice DEF SoundEdge, Sound
  <2>7. DOMAIN c = {"to", "reason", "task"} /\ c = [x \in DOMAIN c |-> c[x]]
    BY DEF CIRed, Edge
  <2>8. e.to = c.to /\ e.reason = c.reason /\ e.task = u
    BY <2>7
  <2>9. SoundEdge(task, e)
    BY <2>1, <2>2, <2>3, <2>6, <2>8 DEF SoundEdge
  <2> HIDE DEF u
  <2>10. Bounce(owned, e)
    BY <1>10 DEF CIWaitRed, u
  <2> QED BY <1>10, <2>9, <2>10, BounceMoves, UntouchedMirrors
          DEF Mirrors, CIWaitRed, Running
<1>11. ASSUME CIWaitOver PROVE Steady
  <2> DEFINE u == clearHold(task)
  <2>1. u \in Task
    BY DEF Sound, Task, clearHold
  <2>2. Bounded(u)
    BY DEF Sound, Bounded, Task, clearHold
  <2>3. Moves(task, u)
    BY <2>1, <2>2, SideMoves DEF Sound, Task, clearHold
  <2> QED BY <1>11, <2>3, EnterStageMoves, UntouchedMirrors DEF Mirrors, CIWaitOver
<1> QED BY <1>1, <1>2, <1>3, <1>4, <1>5, <1>6, <1>7, <1>8, <1>9, <1>10, <1>11
        DEF ReviewSteps

MergeSteps ==
  \/ \E m \in MRs : MergeMR(m) \/ MergeHeadMoved(m)
  \/ MergeStalled \/ MergeComplete \/ MergeCIRed \/ MergeConflicted
  \/ MergeParked \/ Deliver \/ ConflictSweep \/ DocTimeout

\* Persisting the cursor a pass reached, with the refund of the retry lane, moves no state and charges no budget.
LEMMA AtCursorMoves ==
  ASSUME Sound(task), NEW t \in AtCursor
  PROVE  Moves(task, t) /\ t.state = task.state
<1> DEFINE r == ResetRetryBudget(task)
           u == AdvanceCursor(task)
<1>1. CASE t = task
  BY <1>1, Stay
<1>2. CASE t = u
  <2>1. Moves(task, r) /\ r \in Task /\ r.state = task.state
    BY RefundMoves, ZenonT(30) DEF Moves, Sound, ResetRetryBudget, Task
  <2>2. u = [r EXCEPT !.cursor = @ + 1]
    BY DEF AdvanceCursor
  <2>3. u \in Task
    BY <2>1, <2>2 DEF Task
  <2>4. /\ u.kind = r.kind /\ u.src = r.src /\ u.events = r.events
        /\ u.recoveries = r.recoveries /\ u.state = r.state
        /\ u.park = r.park /\ u.parkedFrom = r.parkedFrom
        /\ Bounded(r) => Bounded(u)
    BY <2>1, <2>2 DEF Task, Bounded
  <2>5. Moves(r, u)
    BY <2>1, <2>3, <2>4, SideMoves DEF Moves, Sound, Task
  <2> QED BY <1>2, <2>1, <2>4, <2>5, MovesTwice DEF Sound
<1> QED BY <1>1, <1>2 DEF AtCursor

\* Merging, delivering and the conflict sweep are steady steps.
LEMMA MergeStepsSteady ==
  ASSUME Sound(task), Mirrors, MergeSteps
  PROVE  Steady
<1> USE DEF Steady, Quiet, env, rest
<1>1. ASSUME NEW m \in MRs, MergeMR(m) PROVE Steady
  <2>1. [mrs[m] EXCEPT !.st = "merged"] \in MRRecord
    BY DEF Mirrors, MRRecord
  <2> QED BY <1>1, <2>1, Stay DEF MergeMR, Mirrors
<1>2. ASSUME NEW m \in MRs, MergeHeadMoved(m) PROVE Steady
  <2>1. [mrs[m] EXCEPT !.verdict = "new", !.cur = FALSE] \in MRRecord
    BY DEF Mirrors, MRRecord
  <2>2. mrs' \in [MRs -> MRRecord]
    BY <1>2, <2>1 DEF MergeHeadMoved, Mirrors
  <2>3. ~TaskDone(task)
    BY <1>2 DEF MergeHeadMoved, Merging, TaskDone
  <2>4. CASE HeadMoved(task).to = ParkTarget
    <3>1. HeadMoved(task).reason \in ParkReasons
      BY <2>4, HeadMovedSound DEF SoundEdge
    <3>2. Moves(task, task') /\ late' \in Lates
      BY <1>2, <2>3, <2>4, <3>1, ParkingMoves DEF MergeHeadMoved, Mirrors
    <3> QED BY <1>2, <2>2, <3>2 DEF MergeHeadMoved, Mirrors
  <2>5. CASE HeadMoved(task).to # ParkTarget
    <3>1. PICK t \in AtCursor : Bounce(owned, HeadMoved(t))
      BY <1>2, <2>5 DEF MergeHeadMoved
    <3>2. Moves(task, t) /\ t.state = task.state
      BY AtCursorMoves
    <3>3. SoundEdge(t, HeadMoved(t))
      BY <3>2, HeadMovedSound DEF Moves
    <3>4. SoundEdge(task, HeadMoved(t))
      BY <3>2, <3>3, MovesTwice DEF SoundEdge, Sound
    <3>5. Moves(task, task') /\ late' \in Lates
      BY <2>3, <3>1, <3>4, BounceMoves DEF Mirrors
    <3> QED BY <1>2, <2>2, <3>5 DEF MergeHeadMoved, Mirrors
  <2> QED BY <2>4, <2>5
<1>3. ASSUME MergeStalled PROVE Steady
  BY <1>3, AtCursorMoves, UntouchedMirrors DEF Mirrors, MergeStalled
<1>4. ASSUME MergeComplete PROVE Steady
  BY <1>4, AtCursorMoves, EnterStageMoves, UntouchedMirrors DEF Mirrors, MergeComplete
<1>5. ASSUME MergeCIRed PROVE Steady
  BY <1>5, CIRedSound, BounceMoves, UntouchedMirrors
     DEF Mirrors, MergeCIRed, Merging, TaskDone
<1>6. ASSUME MergeConflicted PROVE Steady
  BY <1>6, MergeConflictSound, BounceMoves, UntouchedMirrors
     DEF Mirrors, MergeConflicted, Merging, TaskDone
<1>7. ASSUME MergeParked PROVE Steady
  <2>1. {"merge-order-missing", "operator-error", "merge-auth-refused"}
          \subseteq ParkReasons
    BY DEF ParkReasons, UnparkNever
  <2>2. ~TaskDone(task)
    BY <1>7 DEF MergeParked, Merging, TaskDone
  <2> QED BY <1>7, <2>1, <2>2, ParkingMoves, UntouchedMirrors
          DEF Mirrors, MergeParked
<1>8. ASSUME Deliver PROVE Steady
  <2>1. Moves(task, task')
    BY <1>8, Stay, EnterStageMoves DEF Deliver
  <2> QED BY <1>8, <2>1 DEF Deliver, Mirrors
<1>9. ASSUME ConflictSweep PROVE Steady
  <2>1. ~TaskDone(task)
    BY <1>9 DEF ConflictSweep, Live, TaskDone
  <2> QED BY <1>9, <2>1, MergeConflictSound, BounceMoves, UntouchedMirrors
          DEF Mirrors, ConflictSweep
<1>10. ASSUME DocTimeout PROVE Steady
  BY <1>10, Stay, EnterStageMoves, UntouchedMirrors DEF Mirrors, DocTimeout
<1> QED BY <1>1, <1>2, <1>3, <1>4, <1>5, <1>6, <1>7, <1>8, <1>9, <1>10
        DEF MergeSteps

\* A late park leaves the state and the budgets, and parks what is unparked.
LEMMA ParkLandsSound ==
  ASSUME Sound(task), Mirrors, ParkLands
  PROVE  /\ Sound(task') /\ Mirrors' /\ Quiet
         /\ task'.events = task.events /\ task'.recoveries = task.recoveries
         /\ task'.state = task.state
         /\ task'.park = IF Parked(task) THEN task.park ELSE late.reason
<1> DEFINE u == [task EXCEPT !.ciWait = @ /\ ~late.unhold]
<1>1. u \in Task
  BY DEF Sound, Task
<1>2. Bounded(u)
  BY DEF Sound, Bounded, Task
<1>3. /\ u.events = task.events /\ u.recoveries = task.recoveries
      /\ u.state = task.state /\ u.park = task.park
      /\ u.parkedFrom = task.parkedFrom
  BY DEF Sound, Task
<1>4. Sound(u) /\ (Parked(u) <=> Parked(task))
  BY <1>1, <1>2, <1>3 DEF Sound, ParkSound, Parked
<1>5. task' = Park(u, late.reason)
  BY DEF ParkLands
<1> HIDE DEF u
<1>6. late.reason \in ParkReasons
  BY DEF ParkLands, Mirrors, Lates
<1>7. late' \in Lates
  BY DEF ParkLands, Lates
<1> QED BY <1>3, <1>4, <1>5, <1>6, <1>7, ParkFields
        DEF ParkLands, Mirrors, Quiet, rest

\* Every other reconcile step is steady.
LEMMA ReconcileSteady ==
  ASSUME Sound(task), Mirrors, Reconcile, ~ParkLands
  PROVE  Steady
BY MintSteady, DrainSteady, ReviewStepsSteady, MergeStepsSteady
   DEF Reconcile, ReviewSteps, MergeSteps

\* A step that may release one, and then consumed the comments or charged a
\* recovery.
Paid ==
  /\ Moves(task, task') /\ Mirrors' /\ comments' = comments
  /\ \/ released' = released
     \/ /\ released' = released + 1
        /\ task.events > 0 /\ task'.events = 0
     \/ /\ released' = released + 1
        /\ task'.recoveries = task.recoveries + 1

\* Every parked sweep pays for the human parks it releases.
LEMMA SweepsPaid ==
  ASSUME Sound(task), Mirrors, Sweeps
  PROVE  Paid
<1> USE DEF Paid, env, rest
<1>0. /\ "retry-exhausted" \in ParkReasons /\ "merge-blocked" \in ParkReasons
      /\ "deploy-blocked" \in ParkReasons
  BY DEF ParkReasons, UnparkHuman, UnparkNever
<1>a. task.park \in UnparkRetry
                       \cup {"no-outcome", "merge-timeout", "deploy-timeout"}
        => task.park \notin FinalParks /\ Parked(task)
  BY FinalParksAre DEF UnparkRetry, Parked, NotParked
<1>b. ASSUME SweepPass PROVE Paid
  BY <1>b, Stay, LifecycleAssumption DEF SweepPass, Mirrors
<1>1. ASSUME DriveUnparks PROVE Paid
  BY <1>1, UnparkMoves, UntouchedMirrors DEF Mirrors, DriveUnparks
<1>2. ASSUME DriveTimeoutSpent PROVE Paid
  BY <1>0, <1>a, <1>2, ReparkMoves, UntouchedMirrors
     DEF Mirrors, DriveTimeoutSpent, TimeoutSpent, ReparkSpentTimeout
<1>3. ASSUME StrandedLane PROVE Paid
  BY <1>0, <1>a, <1>3, ReparkMoves, UntouchedMirrors
     DEF Mirrors, StrandedLane, LaneStranded
<1>4. ASSUME RetryArm PROVE Paid
  <2>1. CASE LapsSpent
    BY <1>0, <1>a, <1>4, <2>1, ReparkMoves, UntouchedMirrors
       DEF Mirrors, RetryArm, InLane
  <2>2. CASE ~LapsSpent
    <3>1. task.blocker = task.park => task.attempts < MaxUnparkRetries
      BY <2>2, CapsAssumption DEF LapsSpent, Sound, Task
    <3>2. Moves(task, ArmRetry(task))
      BY <1>4, <3>1, ArmRetryMoves DEF RetryArm, InLane
    <3> QED BY <1>4, <2>2, <3>2, UntouchedMirrors DEF Mirrors, RetryArm
  <2> QED BY <2>1, <2>2
<1>5. ASSUME RetryStanding PROVE Paid
  <2>1. CASE task.attempts >= MaxUnparkRetries
    BY <1>0, <1>a, <1>5, <2>1, ReparkMoves, UntouchedMirrors
       DEF Mirrors, RetryStanding, InLane
  <2>2. CASE ~(task.attempts >= MaxUnparkRetries)
    <3>1. task.attempts < MaxUnparkRetries
      BY <2>2, CapsAssumption DEF Sound, Task
    <3>2. Moves(task, ArmRetry(task))
      BY <1>5, <3>1, ArmRetryMoves DEF RetryStanding, InLane
    <3> QED BY <1>5, <2>2, <3>2, UntouchedMirrors DEF Mirrors, RetryStanding
  <2> QED BY <2>1, <2>2
<1>6. ASSUME RetryRelease PROVE Paid
  BY <1>6, UnparkMoves, UntouchedMirrors DEF Mirrors, RetryRelease
<1>7. ASSUME CIRecovery PROVE Paid
  <2> DEFINE u == [task EXCEPT !.recoveries = @ + 1]
  <2>1. u \in Task
    BY DEF Sound, Task
  <2>2. Bounded(u)
    BY <1>7, CapsAssumption DEF CIRecovery, Sound, Bounded, Task
  <2>3. /\ u.kind = task.kind /\ u.src = task.src /\ u.events = task.events
        /\ u.recoveries = task.recoveries + 1 /\ u.state = task.state
        /\ u.park = task.park /\ u.parkedFrom = task.parkedFrom
    BY DEF Sound, Task
  <2>4. Moves(task, u)
    BY <2>1, <2>2, <2>3, SideMoves DEF Sound, Task
  <2>5. u.park \notin FinalParks
    BY <1>7, <2>3, FinalParksAre DEF CIRecovery
  <2> HIDE DEF u
  <2>6. Moves(u, reArm(u))
    BY <2>4, <2>5, ReArmMoves DEF Moves
  <2>a. reArm(u).recoveries = u.recoveries
    <3>1. reArm(u) = [u EXCEPT !.park = NotParked, !.armed = FALSE,
                               !.handoff = FALSE]
      BY <2>1, ReleaseFields
    <3> QED BY <2>1, <3>1 DEF Task
  <2>7. Moves(task, reArm(u))
    BY <2>4, <2>6, MovesTwice DEF Sound
  <2>8. task' = reArm(u)
    BY <1>7 DEF CIRecovery, u
  <2> QED BY <1>7, <2>3, <2>a, <2>7, <2>8, UntouchedMirrors
          DEF Mirrors, CIRecovery
<1>8. ASSUME MROnlyUnpark PROVE Paid
  BY <1>8, MaintainerMoves, RefundMoves, UntouchedMirrors DEF Mirrors, MROnlyUnpark
<1>9. ASSUME ParkedExternalTerminal PROVE Paid
  <2> DEFINE c == clearPark(task)
  <2>1. PICK to \in {"done", "rejected"} :
          LegalFor(task, owned, to) /\ task' = Enter(c, owned, to)
    BY <1>9 DEF ParkedExternalTerminal
  <2>2. c \in Task
    BY ReleaseFields DEF Sound
  <2>3. Bounded(c)
    BY DEF Sound, Bounded, clearPark, Task
  <2>4. /\ c.kind = task.kind /\ c.src = task.src /\ c.events = task.events
        /\ c.recoveries = task.recoveries /\ c.state = task.state
        /\ c.park = NotParked
    BY DEF Sound, clearPark, Task
  <2>5. Sound(c) /\ ~Parked(c) /\ ~TaskDone(c)
    BY <1>9, <2>2, <2>3, <2>4
       DEF ParkedExternalTerminal, Sound, ParkSound, Parked, TaskDone
  <2> HIDE DEF c
  <2>6. LegalFor(c, owned, to)
    BY <2>1, <2>4 DEF LegalFor, AdoptedUpgrade
  <2>7. task' = stampEnter(c, to)
    BY <2>1, <2>5, <2>6 DEF Enter, CanEnter
  <2>8. Moves(c, task') /\ ~Parked(task')
    BY <2>1, <2>5, <2>7, StampEnterMoves, StampEnterSound DEF States
  <2>9. TaskDone(task')
    BY <2>1, <2>2, <2>7 DEF stampEnter, ResetRetryBudget, TaskDone, Task
  <2>10. Moves(task, task')
    BY <1>9, <2>4, <2>8, <2>9 DEF Moves, TaskDone, ParkedExternalTerminal
  <2> QED BY <1>9, <2>10, UntouchedMirrors DEF Mirrors, ParkedExternalTerminal
<1> QED BY <1>b, <1>1, <1>2, <1>3, <1>4, <1>5, <1>6, <1>7, <1>8, <1>9 DEF Sweeps

\* What humans and the forge do is steady, comments aside.
LEMMA HumansSteady ==
  ASSUME Sound(task), Mirrors, Humans, ~HumanComment
  PROVE  Steady
<1> USE DEF Steady, Quiet, env, rest
<1>1. ASSUME ApplyReviewChangesRequested PROVE Steady
  BY <1>1, ReenterMoves, UntouchedMirrors DEF Mirrors, ApplyReviewChangesRequested
<1>2. ASSUME ApplyReviewApproval PROVE Steady
  <2>1. PICK approved \in Owned(owned) :
          LET settled == [m \in MRs |-> IF m \in Owned(owned)
                THEN [mrs[m] EXCEPT !.verdict = "approved", !.pend = "none",
                                    !.cur = m = approved]
                ELSE mrs[m]]
          IN  /\ mrs' = settled
              /\ task' = Enter(task, ownedIn(settled), "merged")
    BY <1>2 DEF ApplyReviewApproval
  <2>2. ASSUME NEW m \in MRs
        PROVE  [mrs[m] EXCEPT !.verdict = "approved", !.pend = "none",
                              !.cur = m = approved] \in MRRecord
    BY DEF Mirrors, MRRecord
  <2>3. mrs' \in [MRs -> MRRecord]
    BY <2>1, <2>2 DEF Mirrors
  <2>4. Moves(task, task')
    BY <2>1, EnterMoves
  <2> QED BY <1>2, <2>3, <2>4 DEF ApplyReviewApproval, Mirrors
<1>3. ASSUME IssueClosed PROVE Steady
  <2>1. Moves(task, task')
    BY <1>3, Stay, EnterMoves DEF IssueClosed
  <2> QED BY <1>3, <2>1 DEF IssueClosed, Mirrors
<1>4. ASSUME NEW m \in MRs, ForgeMerge(m) \/ ForgeClose(m) \/ ForgeReopen(m)
      PROVE Steady
  <2>1. \A st \in {"merged", "closed", "open"} :
          [mrs[m] EXCEPT !.st = st] \in MRRecord
    BY DEF Mirrors, MRRecord
  <2> QED BY <1>4, <2>1, Stay DEF ForgeMerge, ForgeClose, ForgeReopen, Mirrors
<1>5. ASSUME NEW m \in MRs, ExternalPush(m) PROVE Steady
  <2>1. \A o \in {"external", "pushed"} :
          [mrs[m] EXCEPT !.own = o, !.held = FALSE, !.cur = FALSE] \in MRRecord
    BY DEF Mirrors, MRRecord
  <2>2. mrs' \in [MRs -> MRRecord]
    BY <1>5, <2>1 DEF ExternalPush, Mirrors
  <2>3. "ownership-lost" \in ParkReasons /\ task.ciWait \in BOOLEAN
    BY DEF ParkReasons, UnparkNever, Sound, Task
  <2>4. Moves(task, task') /\ late' \in Lates
    BY <1>5, <2>3, ParkOwnerMoves, DecidedMoves DEF ExternalPush, Mirrors
  <2> QED BY <1>5, <2>2, <2>4 DEF ExternalPush, Mirrors
<1>6. ASSUME NEW m \in MRs, ForeignReview(m) PROVE Steady
  <2>1. \A v \in {"approved", "needs-changes"} :
          [mrs[m] EXCEPT !.verdict = v, !.pend = "none", !.cur = TRUE]
            \in MRRecord
    BY ZenonT(30) DEF Mirrors, MRRecord
  <2> QED BY <1>6, <2>1, Stay DEF ForeignReview, Mirrors
<1>7. ASSUME NEW m \in MRs,
             TakeoverByMaintainer(m) \/ TakeoverResume(m) \/ StandDownMerge(m)
      PROVE Steady
  <2>1. \A h \in BOOLEAN :
          [mrs[m] EXCEPT !.own = "tatara", !.held = h] \in MRRecord
    BY DEF Mirrors, MRRecord
  <2>2. [mrs[m] EXCEPT !.held = TRUE] \in MRRecord
    BY DEF Mirrors, MRRecord
  <2>3. Mirrors'
    BY <1>7, <2>1, <2>2
       DEF TakeoverByMaintainer, TakeoverResume, StandDownMerge, Mirrors
  <2> QED BY <1>7, <2>3, Stay, TakeoverMoves
          DEF TakeoverByMaintainer, TakeoverResume, StandDownMerge
<1> QED BY <1>1, <1>2, <1>3, <1>4, <1>5, <1>6, <1>7 DEF Humans

\* A comment adds one pending event and changes nothing else.
LEMMA CommentSound ==
  ASSUME Sound(task), Mirrors, HumanComment
  PROVE  /\ Sound(task') /\ Mirrors'
         /\ task'.events = task.events + 1 /\ comments' = comments + 1
         /\ released' = released /\ task'.recoveries = task.recoveries
         /\ task'.state = task.state /\ task'.park = task.park
<1> DEFINE u == [task EXCEPT !.events = @ + 1]
<1>1. u \in Task /\ u.events = task.events + 1
  BY DEF Sound, Task
<1>2. Bounded(u)
  BY DEF Sound, Bounded, Task
<1>3. /\ u.state = task.state /\ u.park = task.park
      /\ u.parkedFrom = task.parkedFrom /\ u.recoveries = task.recoveries
  BY DEF Sound, Task
<1>4. Sound(u)
  BY <1>1, <1>2, <1>3 DEF Sound, ParkSound, Parked, TaskDone
<1> QED BY <1>1, <1>3, <1>4, UntouchedMirrors DEF Mirrors, HumanComment

----------------------------------------------------------------------------
\* The inductive invariant.
IInv ==
  /\ Sound(task)
  /\ Mirrors
  /\ comments \in Nat
  /\ released \in Nat
  /\ HumanReleasesArePaid

\* A minted Task satisfies the inductive invariant.
LEMMA InitIInv == Init => IInv
<1> SUFFICES ASSUME Init PROVE IInv
  OBVIOUS
<1>1. PICK kind \in MintKinds, src \in {"none", "issue", "pr"},
           relic \in {"none", "delivered", "stopped"} :
        /\ task = NewTask(kind, src, relic)
        /\ issue \in {"none", "open"}
        /\ mrs = NoMRs \/ \E m \in MRs : mrs = [NoMRs EXCEPT ![m] = BoundMR(kind)]
  <2>1. \A kind : Sources(kind) \subseteq {"none", "issue", "pr"}
    BY DEF Sources
  <2> QED BY <2>1 DEF Init
<1>2. kind \in Kinds
  BY LifecycleAssumption
<1>3. task \in Task
  BY <1>1, <1>2 DEF NewTask, Task, NotParked, Create
<1>4. Bounded(task) /\ task.events = 0
  BY <1>1, CapsAssumption DEF Bounded, NewTask
<1>5. ParkSound(task)
  BY <1>1 DEF NewTask, ParkSound, Parked, TaskDone, Create
<1>6. BoundMR(kind) \in MRRecord
  BY DEF BoundMR, NoMR, MRRecord
<1>7. mrs \in [MRs -> MRRecord]
  BY <1>1, <1>6, NoMRTyped DEF NoMRs
<1>8. task.recoveries \in Nat
  BY <1>3 DEF Task
<1>9. served \in BOOLEAN
  BY LifecycleAssumption DEF Init
<1>10. Mirrors
  BY <1>1, <1>7, <1>9 DEF Init, Mirrors, Lates
<1> QED BY <1>3, <1>4, <1>5, <1>8, <1>10
        DEF Init, IInv, Sound, HumanReleasesArePaid

\* Every step preserves the inductive invariant, moves and parks no finished Task
\* but as a late park allows, and releases no final park of a Task it does not
\* finish.
LEMMA NextIInv ==
  ASSUME IInv, Next
  PROVE  /\ IInv'
         /\ TaskDone(task) =>
              /\ task'.state # task.state => task.park = "ownership-lost"
              /\ ~Parked(task) /\ Parked(task') => task'.park = late.reason
         /\ task.park \in FinalParks
              => task'.park = task.park \/ TaskDone(task')
<1>0. /\ Sound(task) /\ Mirrors /\ task \in Task
      /\ task.events \in Nat /\ task.recoveries \in Nat
  BY DEF IInv, Sound, Task
<1>1. CASE Paid
  <2>1. /\ Sound(task') /\ task'.events \in Nat /\ task'.events <= task.events
        /\ task'.recoveries \in Nat /\ task.recoveries <= task'.recoveries
    BY <1>1 DEF Paid, Moves, Sound, Task
  <2>2. released' \in Nat /\ comments' \in Nat
        /\ released' + task'.events <= comments' + task'.recoveries
    BY <1>0, <1>1, <2>1 DEF Paid, IInv, HumanReleasesArePaid
  <2>3. IInv'
    BY <1>1, <2>1, <2>2 DEF Paid, IInv, HumanReleasesArePaid
  <2> QED BY <1>1, <2>3 DEF Paid, Moves, Finished
<1>2. CASE HumanComment
  <2>1. ~TaskDone(task)
    BY <1>2 DEF HumanComment
  <2> QED BY <1>0, <1>2, <2>1, CommentSound DEF IInv, HumanReleasesArePaid
<1>3. CASE ParkLands
  BY <1>0, <1>3, ParkLandsSound, FinalIsParked
     DEF IInv, HumanReleasesArePaid, Quiet
<1>4. Steady => Paid
  BY DEF Steady, Quiet, Paid
<1> QED BY <1>0, <1>1, <1>2, <1>3, <1>4, AgentsSteady, ReconcileSteady,
           SweepsPaid, HumansSteady DEF Next

\* So does a stuttering step.
LEMMA StutterIInv ==
  ASSUME IInv, UNCHANGED vars
  PROVE  IInv'
BY DEF IInv, vars, Mirrors, HumanReleasesArePaid

\* The inductive invariant holds in every reachable state, for any set of merge
\* requests, any kinds and any caps (internal/stage and all its callers).
THEOREM Invariance == Spec => []IInv
<1>1. IInv /\ [Next]_vars => IInv'
  BY NextIInv, StutterIInv
<1> QED BY <1>1, InitIInv, PTL DEF Spec

\* The Task, the mirrors and the counters keep their types: every park reason
\* that is written is one of the table's and every state is one of the enum's.
THEOREM TypeCorrect == Spec => []TypeOK
<1>0. Lates \subseteq [reason : ParkReasons \cup {NotParked}, unhold : BOOLEAN]
  <2>1. NoPark \in [reason : ParkReasons \cup {NotParked}, unhold : BOOLEAN]
    BY DEF NoPark
  <2> QED BY <2>1 DEF Lates
<1>1. IInv => TypeOK
  BY <1>0 DEF IInv, TypeOK, Sound, Mirrors
<1> QED BY <1>1, Invariance, PTL

\* parkedFromState is the state of every parked Task, object-too-large apart:
\* through Park, repark and every bounce a park refuses.
THEOREM ParksKnowTheirState == Spec => []ParkKnowsItsState
<1>1. IInv => ParkKnowsItsState
  BY DEF IInv, Sound, ParkSound, ParkKnowsItsState
<1> QED BY <1>1, Invariance, PTL

\* Every release of a park that waits for a human consumed a comment of its own
\* or was one of the counted CI recoveries (unparkRule's events test and
\* consumeUnparkEvents; driveCIRecoveryUnparks).
THEOREM ReleasesArePaid == Spec => []HumanReleasesArePaid
<1>1. IInv => HumanReleasesArePaid
  BY DEF IInv
<1> QED BY <1>1, Invariance, PTL

\* No blocker is retried more than MaxUnparkRetries times before a human is
\* asked (ArmRetry and its callers in driveRetryLane).
THEOREM LaneIsBounded == Spec => []RetryLaneBounded
<1>1. IInv => RetryLaneBounded
  BY DEF IInv, Sound, Bounded, RetryLaneBounded
<1> QED BY <1>1, Invariance, PTL

\* Each re-entry counter stays within its cap on every path that charges it
\* (HeadMoved, CIRed, MergeConflict, unparkRule, ReenterOnReviewChangesRequested).
THEOREM BouncesAreBounded == Spec => []BouncesBounded
<1>1. IInv => BouncesBounded
  BY DEF IInv, Sound, Bounded, BouncesBounded
<1> QED BY <1>1, Invariance, PTL

\* A done or rejected Task is moved by no handler, sweep, push or late outcome,
\* and parked by none but a park that was decided before it finished; the one
\* way back is a take-over of a Task that such a park left at ownership-lost.
THEOREM FinishedStaysFinished == Spec => FinishedIsFinal
<1> DEFINE A ==
      TaskDone(task) =>
        /\ task'.state # task.state => task.park = "ownership-lost"
        /\ ~Parked(task) /\ Parked(task') => task'.park = late.reason
<1>1. IInv /\ [Next]_vars => [A]_vars
  BY NextIInv
<1> QED BY <1>1, Invariance, PTL DEF Spec, FinishedIsFinal

\* A park of class never that was written at or after the merge is released by
\* nothing; at most the forge finishes the Task.
THEOREM MergeBlockStays == Spec => MergeBlockIsFinal
<1>1. IInv /\ [Next]_vars
        => [task.park \in mergeStageParks \cap UnparkNever
              => task'.park = task.park \/ TaskDone(task')]_vars
  BY NextIInv DEF FinalParks
<1> QED BY <1>1, Invariance, PTL DEF Spec, MergeBlockIsFinal
=============================================================================

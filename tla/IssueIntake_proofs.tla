------------------------ MODULE IssueIntake_proofs -------------------------
(***************************************************************************)
(* Proofs about module IssueIntake: for any number of webhook replicas and *)
(* any cap, a stranded issue re-enters no more often than its mirrors have *)
(* paid for.  ReentriesPaidFor alone is not inductive: between the count   *)
(* on the mirror and the Task that is thrown away lie the steps of a pass, *)
(* and the mirror may be written, or go, in between.  CountKept adds that  *)
(* a pass under way has been paid for and has not been taken yet.          *)
(***************************************************************************)
EXTENDS IssueIntake, TLAPS

\* A pass that has paid, and has not taken its re-entry yet.
UnderWay(r) == r.d.k = "auto" /\ r.pc \in {"release", "sever", "sever2"}
Pending == IF UnderWay(at["leader"]) THEN 1 ELSE 0

\* Threads are records with a step and a cause, whatever else they hold.
Thread(r) == {"pc", "d"} \subseteq DOMAIN r
ThreadsKept == DOMAIN at = Threads /\ \A x \in Threads : Thread(at[x])

CountOn(m) == IF m = NoCR THEN 0 ELSE m.re
Counts(m) == m = NoCR \/ ("re" \in DOMAIN m /\ m.re \in 0 .. MaxAutoReentries)

CountKept ==
  /\ ThreadsKept /\ Counts(cr)
  /\ laps \in [taken : Nat, gone : Nat]
  /\ laps.taken + Pending <= laps.gone + CountOn(cr)

\* The mirror is still there, with its count.
SameCount(m, w) ==
  IF m = NoCR THEN w = NoCR ELSE DOMAIN w = DOMAIN m /\ ("re" \in DOMAIN m => w.re = m.re)

\* What a step may do to the mirror, the re-entries and the pass that takes one:
\* leave the count, make a mirror, lose one, pay, or take what was paid for.
Accounts ==
  \/ laps' = laps /\ SameCount(cr, cr') /\ Pending' <= Pending
  \/ laps' = laps /\ cr = NoCR /\ "re" \in DOMAIN cr' /\ cr'.re = 0 /\ Pending' <= Pending
  \/ laps' = [laps EXCEPT !.gone = @ + cr.re] /\ cr # NoCR /\ cr' = NoCR /\ Pending' <= Pending
  \/ /\ laps' = laps /\ cr # NoCR /\ autoReentriesLeft(cr)
     /\ cr' = [cr EXCEPT !.re = @ + 1] /\ Pending = 0
  \/ laps' = [laps EXCEPT !.taken = @ + 1] /\ cr' = cr /\ Pending = 1 /\ Pending' = 0

----------------------------------------------------------------------------
(* What writes the mirror and keeps its count. *)

\* What has a count is a mirror.
LEMMA CounterIsMirror == \A m : "re" \in DOMAIN m => m # NoCR
BY DEF NoCR

\* A mirror that stays as it is keeps its count.
LEMMA CountSame == \A m : SameCount(m, m)
BY DEF SameCount

\* A mirror with a count that survives two writes has it after both.
LEMMA CountTrans ==
  ASSUME NEW m, NEW v, NEW w, SameCount(m, v), SameCount(v, w), m # NoCR => "re" \in DOMAIN m
  PROVE  SameCount(m, w)
BY DEF SameCount, NoCR

\* The mirror that an ownership is taken from keeps its count.
LEMMA DropOwnerKeeps == \A m : SameCount(m, DropOwner(m))
BY DEF SameCount, DropOwner

\* The state of the issue is stamped beside the count.
LEMMA StampKeeps == \A st : SameCount(cr, stampIssueState(st))
BY DEF SameCount, stampIssueState

\* So is the reading of the thread.
LEMMA ThreadKeeps == cr # NoCR => SameCount(cr, syncIssueThread(cr))
BY DEF SameCount, syncIssueThread

\* A proposal that is open again starts over, its count does not.
LEMMA ReopenKeeps == \A m : SameCount(m, reopenRetainedProposal(m))
BY DEF SameCount, reopenRetainedProposal

\* A notice on the issue is remembered beside the count.
LEMMA ParkKeeps ==
  ASSUME NEW marker, cr # NoCR, commentAndParkIssue(marker)
  PROVE  SameCount(cr, cr')
BY DEF SameCount, commentAndParkIssue

----------------------------------------------------------------------------
(* The threads. *)

Steady == ThreadsKept' /\ Pending' <= Pending

\* Idle is a thread without a cause.
LEMMA IdleThread == Thread(Idle) /\ ~UnderWay(Idle) /\ Idle.pc = "idle"
BY DEF Idle, Thread, UnderWay

\* A thread that starts, or goes on, with other fields than its cause.
LEMMA GoKeeps ==
  ASSUME ThreadsKept, NEW x \in Threads, NEW r, Thread(r), Go(x, r),
         x = "leader" => ~UnderWay(r) \/ UnderWay(at["leader"])
  PROVE  Steady
<1>1. at' = [at EXCEPT ![x] = r] /\ "leader" \in Threads
  BY DEF Go, Threads
<1>2. ThreadsKept'
  BY <1>1 DEF ThreadsKept
<1>3. at'["leader"] = IF x = "leader" THEN r ELSE at["leader"]
  BY <1>1 DEF ThreadsKept
<1> QED BY <1>2, <1>3 DEF Pending, Steady

\* Threads that stay as they are.
LEMMA StayKeeps == ThreadsKept /\ at' = at => Steady
BY DEF Steady, ThreadsKept, Pending, UnderWay

\* A thread that ends, or hands its comment on.
LEMMA EndKeeps ==
  ASSUME ThreadsKept, NEW x \in Threads, Go(x, Idle) \/ Accept(x) \/ Reject(x)
  PROVE  Steady
<1>1. CASE Go(x, Idle) \/ Reject(x)
  <2>1. Go(x, Idle)
    BY <1>1 DEF Reject
  <2> QED BY <2>1, IdleThread, GoKeeps
<1>2. CASE Accept(x)
  <2> DEFINE next == [Idle EXCEPT !.pc = "deliver", !.d = at[x].d]
  <2>1. Thread(next) /\ next.pc = "deliver"
    BY DEF Thread, Idle
  <2>2. ~UnderWay(next)
    BY <2>1 DEF UnderWay
  <2>3. Go(x, next) \/ Go(x, Idle)
    BY <1>2 DEF Accept
  <2> HIDE DEF next
  <2> QED BY <2>1, <2>2, <2>3, IdleThread, GoKeeps
<1> QED BY <1>1, <1>2

\* A thread on its way through a mint, a sweep or a reap.
LEMMA MoveKeeps ==
  ASSUME ThreadsKept, NEW x \in Threads, NEW r, Go(x, r), DOMAIN r \in {DOMAIN at[x], DOMAIN Idle},
         r.pc \notin {"release", "sever", "sever2"}
  PROVE  Steady
<1>1. Thread(r) /\ ~UnderWay(r)
  BY IdleThread DEF ThreadsKept, Thread, UnderWay
<1> QED BY <1>1, GoKeeps

----------------------------------------------------------------------------
(* The steps. *)

\* No webhook handler gives a re-entry away: the first one makes the mirror,
\* the others write beside its count (webhook/server.go).
LEMMA HandlersAccount ==
  ASSUME CountKept, NEW x \in Replicas, Handle(x) \/ deliverPendingEvent(x)
  PROVE  Accounts /\ ThreadsKept'
<1>0. ThreadsKept /\ x \in Threads /\ (cr # NoCR => "re" \in DOMAIN cr)
  BY DEF CountKept, Counts, Threads
<1>1. CASE handleIssueOpened(x)
  <2>1. /\ laps' = laps
        /\ cr' = MarkWebhookOriginated(stampIssueState("open"))
    BY <1>1 DEF handleIssueOpened
  <2>2. Steady
    <3>1. PICK dl \in net : Go(x, [Idle EXCEPT !.pc = "mint", !.d = dl, !.hook = TRUE,
                                               !.item = [NoItem EXCEPT !.label = dl.label]])
      BY <1>1 DEF handleIssueOpened
    <3> DEFINE next == [Idle EXCEPT !.pc = "mint", !.d = dl, !.hook = TRUE,
                                    !.item = [NoItem EXCEPT !.label = dl.label]]
    <3>2. DOMAIN next = DOMAIN Idle /\ next.pc = "mint"
      BY DEF Idle
    <3> HIDE DEF next
    <3> QED BY <1>0, <3>1, <3>2, MoveKeeps DEF next
  <2>3. CASE cr = NoCR
    <3>1. cr' = NewMirror(TRUE)
      BY <2>1, <2>3 DEF MarkWebhookOriginated, stampIssueState
    <3>2. "re" \in DOMAIN cr' /\ cr'.re = 0
      BY <3>1 DEF NewMirror
    <3>. QED BY <2>1, <2>2, <2>3, <3>2 DEF Accounts, Steady
  <2>4. CASE cr # NoCR
    <3> DEFINE m == stampIssueState("open")
    <3>1. SameCount(cr, m)
      BY StampKeeps
    <3>2. m # NoCR
      BY <1>0, <3>1, <2>4 DEF SameCount, NoCR
    <3>3. SameCount(m, cr')
      BY <2>1, <3>2 DEF MarkWebhookOriginated, SameCount
    <3>. QED BY <1>0, <2>1, <2>2, <3>1, <3>3, CountTrans DEF Accounts, Steady
  <2>. QED BY <2>3, <2>4
<1>2. CASE handleIssueClosed(x)
  <2>1. Steady
    BY <1>0, <1>2, StayKeeps DEF handleIssueClosed
  <2>. QED BY <1>2, <2>1, StampKeeps DEF handleIssueClosed, Accounts, Steady
<1>3. CASE handleIssueComment(x)
  <2>1. Steady
    <3>1. PICK dl \in net :
            \/ Go(x, [Idle EXCEPT !.pc = "mint", !.d = dl, !.hook = TRUE,
                                  !.item = [NoItem EXCEPT !.label = dl.label]])
            \/ Go(x, [Idle EXCEPT !.pc = "deliver", !.d = dl])
      BY <1>3 DEF handleIssueComment
    <3> DEFINE mint == [Idle EXCEPT !.pc = "mint", !.d = dl, !.hook = TRUE,
                                    !.item = [NoItem EXCEPT !.label = dl.label]]
               tell == [Idle EXCEPT !.pc = "deliver", !.d = dl]
    <3>2. /\ DOMAIN mint = DOMAIN Idle /\ mint.pc = "mint"
          /\ DOMAIN tell = DOMAIN Idle /\ tell.pc = "deliver"
      BY DEF Idle
    <3> HIDE DEF mint, tell
    <3> QED BY <1>0, <3>1, <3>2, MoveKeeps DEF mint, tell
  <2>. QED BY <1>3, <2>1, CountSame DEF handleIssueComment, Accounts, Steady
<1>4. CASE deliverPendingEvent(x)
  <2>1. laps' = laps /\ SameCount(cr, cr')
    BY <1>4 DEF deliverPendingEvent, SameCount
  <2>2. Steady
    BY <1>0, <1>4, EndKeeps DEF deliverPendingEvent
  <2>. QED BY <2>1, <2>2 DEF Accounts, Steady
<1>. QED BY <1>1, <1>2, <1>3, <1>4 DEF Handle

\* Nor does a mint, which may have to make the mirror itself (intake.go).
LEMMA MintAccounts ==
  ASSUME CountKept, NEW x \in Threads, Mint(x) \/ Crash(x)
  PROVE  Accounts /\ ThreadsKept'
<1>0. ThreadsKept /\ Thread(at[x])
  BY DEF CountKept, ThreadsKept
<1>1. CASE MintForItem(x)
  <2> DEFINE next == [at[x] EXCEPT !.pc = "create", !.park = MintStage(at[x].item, at[x].hook)]
  <2>1. DOMAIN next = DOMAIN at[x] /\ next.pc = "create"
    BY <1>0 DEF Thread
  <2>2. Accept(x) \/ Go(x, next)
    BY <1>1 DEF MintForItem
  <2>3. Steady
    <3> HIDE DEF next
    <3> QED BY <1>0, <2>1, <2>2, EndKeeps, MoveKeeps
  <2>. QED BY <1>1, <2>3, CountSame, DropOwnerKeeps DEF MintForItem, Accounts, Steady
<1>2. CASE SyncIssue(x)
  <2> DEFINE i == at[x].item
             next == [at[x] EXCEPT !.pc = "own", !.item = NoItem]
  <2>0. Steady
    <3>1. DOMAIN next = DOMAIN at[x] /\ next.pc = "own" /\ Go(x, next)
      BY <1>0, <1>2 DEF Thread, SyncIssue
    <3> HIDE DEF next
    <3> QED BY <1>0, <3>1, MoveKeeps
  <2>1. laps' = laps
    BY <1>2 DEF SyncIssue
  <2>2. PICK last : cr' = [ensureIssueCR EXCEPT !.st = "open", !.label = i.label,
                                                !.cs = @ \cup i.cs, !.last = last]
    BY <1>2 DEF SyncIssue
  <2>3. CASE cr = NoCR
    <3>1. cr' = [NewMirror(FALSE) EXCEPT !.st = "open", !.label = i.label,
                                         !.cs = NewMirror(FALSE).cs \cup i.cs, !.last = last]
      BY <2>2, <2>3 DEF ensureIssueCR
    <3>2. "re" \in DOMAIN cr' /\ cr'.re = 0
      BY <3>1 DEF NewMirror
    <3>. QED BY <2>0, <2>1, <2>3, <3>2 DEF Accounts, Steady
  <2>4. CASE cr # NoCR
    <3>1. SameCount(cr, cr')
      BY <2>2, <2>4 DEF ensureIssueCR, SameCount
    <3>. QED BY <2>0, <2>1, <3>1 DEF Accounts, Steady
  <2>. QED BY <2>3, <2>4
<1>3. CASE ownIssueForTask(x)
  <2> DEFINE next == [at[x] EXCEPT !.pc = "ref", !.uid = 0]
  <2>1. laps' = laps /\ SameCount(cr, cr')
    BY <1>3, CountSame DEF ownIssueForTask, SameCount
  <2>2. DOMAIN next = DOMAIN at[x] /\ next.pc = "ref" /\ (Reject(x) \/ Go(x, next))
    BY <1>0, <1>3 DEF Thread, ownIssueForTask
  <2>3. Steady
    <3> HIDE DEF next
    <3> QED BY <1>0, <2>2, EndKeeps, MoveKeeps
  <2>. QED BY <2>1, <2>3 DEF Accounts, Steady
<1>4. CASE ClearWebhookOriginated(x)
  <2>1. laps' = laps /\ SameCount(cr, cr')
    BY <1>4 DEF ClearWebhookOriginated, SameCount
  <2>2. Steady
    BY <1>0, <1>4, EndKeeps DEF ClearWebhookOriginated
  <2>. QED BY <2>1, <2>2 DEF Accounts, Steady
<1>5. CASE createTaskRaceSafe(x)
  <2> DEFINE made == [at[x] EXCEPT !.pc = "sync", !.uid = freshUid, !.made = TRUE, !.park = "no"]
             dead == [at[x] EXCEPT !.pc = "tombstone"]
             twin == [at[x] EXCEPT !.pc = "sync", !.uid = task.uid, !.park = "no"]
  <2>1. /\ laps' = laps /\ cr' = cr
        /\ Go(x, made) \/ Go(x, dead) \/ Go(x, twin) \/ Accept(x)
    BY <1>5 DEF createTaskRaceSafe
  <2>2. \A r \in {made, dead, twin} : DOMAIN r = DOMAIN at[x] /\ r.pc \in {"sync", "tombstone"}
    BY <1>0 DEF Thread
  <2>3. Steady
    <3> HIDE DEF made, dead, twin
    <3> QED BY <1>0, <2>1, <2>2, EndKeeps, MoveKeeps
  <2>. QED BY <2>1, <2>3, CountSame DEF Accounts, Steady
<1>6. CASE stampMintStatus(x)
  <2> DEFINE next == [at[x] EXCEPT !.pc = "clear"]
  <2>1. /\ laps' = laps /\ cr' = cr
        /\ Reject(x) \/ Accept(x) \/ Go(x, next)
    BY <1>6 DEF stampMintStatus
  <2>2. DOMAIN next = DOMAIN at[x] /\ next.pc = "clear"
    BY <1>0 DEF Thread
  <2>3. Steady
    <3> HIDE DEF next
    <3> QED BY <1>0, <2>1, <2>2, EndKeeps, MoveKeeps
  <2>. QED BY <2>1, <2>3, CountSame DEF Accounts, Steady
<1>7. CASE deleteTombstone(x) \/ Crash(x)
  <2>1. laps' = laps /\ cr' = cr /\ (Reject(x) \/ Go(x, Idle))
    BY <1>7 DEF deleteTombstone, Crash
  <2>. QED BY <1>0, <2>1, CountSame, EndKeeps DEF Accounts, Steady
<1>. QED BY <1>1, <1>2, <1>3, <1>4, <1>5, <1>6, <1>7 DEF Mint

\* The mirror's reconciler and the garbage collector take the mirror away, and
\* what it counted with it (issue_controller.go).
LEMMA ReconcilerAccounts ==
  ASSUME CountKept, IssueReconcile \/ CollectGarbage
  PROVE  Accounts /\ ThreadsKept'
<1>0. Steady
  BY StayKeeps DEF CountKept, IssueReconcile, CollectGarbage
<1>1. CASE CollectGarbage
  BY <1>0, <1>1 DEF CollectGarbage, owned, Accounts, Steady
<1>2. CASE IssueReconcile
  <2>0. cr # NoCR /\ "re" \in DOMAIN cr
    BY <1>2 DEF IssueReconcile, CountKept, Counts
  <2>1. laps' = IF cr' = NoCR THEN [laps EXCEPT !.gone = @ + cr.re] ELSE laps
    BY <1>2 DEF IssueReconcile
  <2>2. SameCount(cr, cr') \/ cr' = NoCR
    <3>1. CASE ApplyIssueClosedStop
      BY <3>1, <2>0 DEF ApplyIssueClosedStop, SameCount
    <3>2. CASE recordParkedProposalDecline
      BY <3>2, <2>0 DEF recordParkedProposalDecline, SameCount
    <3>3. CASE cr' = reopenRetainedProposal(syncIssueThread(cr))
      BY <3>3, <2>0, ThreadKeeps, ReopenKeeps, CountTrans
    <3>4. CASE cr' = syncIssueThread(cr)
      BY <3>4, <2>0, ThreadKeeps
    <3>. QED BY <1>2, <3>1, <3>2, <3>3, <3>4 DEF IssueReconcile
  <2>. QED BY <1>0, <2>0, <2>1, <2>2 DEF Accounts, SameCount, Steady
<1>. QED BY <1>1, <1>2

\* The passes of the leader that take no re-entry (sweep.go, reaper.go).
LEMMA PassesAccount ==
  ASSUME CountKept, sweepIssues \/ sweepOne \/ reapOne \/ ReapSteps \/ driveUnparks
  PROVE  Accounts /\ ThreadsKept'
<1>0. /\ ThreadsKept /\ Thread(at["leader"]) /\ "leader" \in Threads
      /\ cr # NoCR => "re" \in DOMAIN cr
  BY DEF CountKept, Counts, ThreadsKept, Threads
<1>1. CASE sweepOne
  <2> DEFINE m == reopenRetainedProposal(cr)
             r == at["leader"]
  <2>1. laps' = laps /\ (cr' = m \/ cr' = DropOwner(m))
    BY <1>1 DEF sweepOne
  <2>2. SameCount(cr, m) /\ SameCount(m, DropOwner(m))
    BY ReopenKeeps, DropOwnerKeeps
  <2>3. SameCount(cr, DropOwner(m))
    BY <1>0, <2>2, CountTrans
  <2>4. PICK item, hook, park :
          \/ Go("leader", Idle)
          \/ Go("leader", [r EXCEPT !.pc = "create", !.item = item, !.hook = hook, !.park = park])
    BY <1>1 DEF sweepOne
  <2>5. Steady
    <3> DEFINE next == [r EXCEPT !.pc = "create", !.item = item, !.hook = hook, !.park = park]
    <3>1. DOMAIN next = DOMAIN r /\ next.pc = "create"
      BY <1>0 DEF Thread
    <3> HIDE DEF next
    <3> QED BY <1>0, <2>4, <3>1, EndKeeps, MoveKeeps DEF next
  <2>. QED BY <2>1, <2>2, <2>3, <2>5 DEF Accounts, Steady
<1>2. CASE notifyTerminalIssue
  <2> DEFINE next == [at["leader"] EXCEPT !.pc = "reap2"]
  <2>1. laps' = laps /\ SameCount(cr, cr')
    BY <1>2, CountSame, ParkKeeps DEF notifyTerminalIssue
  <2>2. Steady
    <3>1. DOMAIN next = DOMAIN at["leader"] /\ next.pc = "reap2" /\ Go("leader", next)
      BY <1>0, <1>2 DEF Thread, notifyTerminalIssue
    <3> HIDE DEF next
    <3> QED BY <1>0, <3>1, MoveKeeps
  <2>. QED BY <2>1, <2>2 DEF Accounts, Steady
<1>3. CASE releaseOwnership \/ deleteReapedTask
  <2> DEFINE next == [at["leader"] EXCEPT !.pc = "reap3", !.t.released = TRUE]
  <2>1. laps' = laps /\ (cr' = cr \/ cr' = DropOwner(cr))
    BY <1>3 DEF releaseOwnership, deleteReapedTask
  <2>2. Go("leader", Idle) \/ Go("leader", next)
    BY <1>3 DEF releaseOwnership, deleteReapedTask
  <2>3. Steady
    <3>1. DOMAIN next = DOMAIN at["leader"] /\ next.pc = "reap3"
      BY <1>0 DEF Thread
    <3> HIDE DEF next
    <3> QED BY <1>0, <2>2, <3>1, EndKeeps, MoveKeeps
  <2>. QED BY <2>1, <2>3, CountSame, DropOwnerKeeps DEF Accounts, Steady
<1>4. CASE sweepIssues \/ reapOne
  <2> DEFINE sweep == [Idle EXCEPT !.pc = "swept", !.d = [NoDelivery EXCEPT !.k = "sweep"],
                                   !.item = [NoItem EXCEPT !.label = forge.label]]
             reap(pc) == [Idle EXCEPT !.pc = pc, !.t = task, !.d = [NoDelivery EXCEPT !.k = "reap"]]
  <2>1. laps' = laps /\ cr' = cr /\ \E r \in {sweep, reap("reap1"), reap("reap3")} : Go("leader", r)
    BY <1>4 DEF sweepIssues, reapOne, startReap
  <2>2. \A r \in {sweep, reap("reap1"), reap("reap3")} :
          DOMAIN r = DOMAIN Idle /\ r.pc \in {"swept", "reap1", "reap3"}
    BY DEF Idle
  <2> HIDE DEF sweep, reap
  <2>3. Steady
    BY <1>0, <2>1, <2>2, MoveKeeps
  <2> QED BY <2>1, <2>3, CountSame DEF Accounts, Steady
<1>5. CASE driveUnparks
  <2>1. laps' = laps /\ cr' = cr /\ at' = at
    BY <1>5 DEF driveUnparks
  <2>. QED BY <1>0, <2>1, CountSame, StayKeeps DEF Accounts, Steady
<1>. QED BY <1>1, <1>2, <1>3, <1>4, <1>5 DEF ReapSteps

\* A pass that takes a re-entry has it on the count when it begins, and takes it
\* once (strand.go, resume.go).
LEMMA ReentriesAccount ==
  ASSUME CountKept, resumeNoReentryParks \/ driveOneStrandedPark \/ ResumeSteps
  PROVE  Accounts /\ ThreadsKept'
<1> DEFINE r == at["leader"]
<1>0. ThreadsKept /\ Thread(r) /\ "leader" \in Threads
  BY DEF CountKept, ThreadsKept, Threads
<1>1. ASSUME NEW k, r = Idle, startResume(k)
      PROVE  ThreadsKept' /\ Pending = 0 /\ (k # "auto" => Steady)
  <2> DEFINE next == [Idle EXCEPT !.pc = "release", !.d = [NoDelivery EXCEPT !.k = k], !.t = task]
  <2>1. Thread(next) /\ next.d.k = k /\ Go("leader", next)
    BY <1>1 DEF Thread, Idle, NoDelivery, startResume
  <2>2. at' = [at EXCEPT !["leader"] = next] /\ Pending = 0
    BY <1>1, <2>1, IdleThread DEF Go, Pending
  <2>3. ThreadsKept'
    <3> HIDE DEF next
    <3> QED BY <1>0, <2>1, <2>2 DEF ThreadsKept
  <2>4. k # "auto" => Steady
    <3>1. k # "auto" => ~UnderWay(next)
      BY <2>1 DEF UnderWay
    <3> HIDE DEF next
    <3> QED BY <1>0, <2>1, <3>1, GoKeeps
  <2> QED BY <2>2, <2>3, <2>4
<1>2. CASE resumeNoReentryParks
  <2>1. laps' = laps /\ cr' = cr /\ r = Idle /\ startResume("resume")
    BY <1>2 DEF resumeNoReentryParks
  <2>. QED BY <1>1, <2>1, CountSame DEF Accounts, Steady
<1>3. CASE driveOneStrandedPark
  <2>1. cr # NoCR /\ r = Idle /\ laps' = laps
    BY <1>3 DEF driveOneStrandedPark, strandedCandidate
  <2>2. CASE cr' = cr /\ startResume("collect")
    BY <1>1, <2>1, <2>2, CountSame DEF Accounts, Steady
  <2>3. CASE landMergeStagePark \/ landStrandedDeadEnd
    <3>1. at' = at /\ SameCount(cr, cr')
      BY <2>1, <2>3, ParkKeeps DEF landMergeStagePark, landStrandedDeadEnd
    <3>. QED BY <1>0, <2>1, <3>1, StayKeeps DEF Accounts, Steady
  <2>4. CASE autoReentriesLeft(cr) /\ spendReentry /\ startResume("auto")
    BY <1>1, <2>1, <2>4 DEF spendReentry, Accounts
  <2>. QED BY <1>3, <2>2, <2>3, <2>4 DEF driveOneStrandedPark
<1>4. CASE markReleasing
  <2> DEFINE next == [r EXCEPT !.pc = "sever", !.made = r.t.refs /\ cr # NoCR /\ cr.st = "open"]
  <2>1. /\ laps' = laps /\ cr' = cr /\ r.pc = "release" /\ Go("leader", next)
        /\ Thread(next) /\ next.d = r.d
    BY <1>0, <1>4 DEF markReleasing, Thread
  <2>2. UnderWay(next) => UnderWay(r)
    BY <2>1 DEF UnderWay
  <2>3. Steady
    <3> HIDE DEF next
    <3> QED BY <1>0, <2>1, <2>2, GoKeeps
  <2>. QED BY <2>1, <2>3, CountSame DEF Accounts, Steady
<1>5. CASE SeverIssueFromTask
  <2>1. laps' = laps /\ SameCount(cr, cr') /\ r.pc = "sever"
    BY <1>5, CountSame DEF SeverIssueFromTask, SameCount
  <2> DEFINE none == [r EXCEPT !.pc = "sever2", !.made = FALSE]
             some == [r EXCEPT !.pc = "sever2", !.t.refs = FALSE,
                               !.item = [label |-> FALSE, cs |-> cr.cs, human |-> cr.last = "human"]]
  <2>2. Go("leader", none) \/ Go("leader", some)
    BY <1>5 DEF SeverIssueFromTask
  <2>3. \A n \in {none, some} : Thread(n) /\ n.d = r.d
    BY <1>0 DEF Thread
  <2>4. \A n \in {none, some} : UnderWay(n) => UnderWay(r)
    BY <2>1, <2>3 DEF UnderWay
  <2>5. Steady
    <3> HIDE DEF none, some
    <3> QED BY <1>0, <2>2, <2>3, <2>4, GoKeeps
  <2>. QED BY <2>1, <2>5 DEF Accounts, Steady
<1>6. CASE resumeOne
  <2> DEFINE next == [r EXCEPT !.pc = "mint", !.made = FALSE, !.t = NoTask]
  <2>1. /\ cr' = cr /\ r.pc = "sever2" /\ (Go("leader", next) \/ Go("leader", Idle))
        /\ laps' = IF r.made /\ r.d.k = "auto" THEN [laps EXCEPT !.taken = @ + 1] ELSE laps
    BY <1>6 DEF resumeOne
  <2>2. DOMAIN next = DOMAIN r /\ next.pc = "mint"
    BY <1>0 DEF Thread
  <2>3. Steady /\ Pending' = 0
    <3>1. \A n \in {next, Idle} : Go("leader", n) => Steady /\ at'["leader"] = n /\ ~UnderWay(n)
      <4> HIDE DEF next
      <4>1. \A n : Go("leader", n) => at'["leader"] = n
        BY <1>0 DEF Go, ThreadsKept
      <4>2. ~UnderWay(next)
        BY <2>2 DEF UnderWay
      <4> QED BY <1>0, <2>2, <4>1, <4>2, IdleThread, MoveKeeps
    <3> HIDE DEF next
    <3> QED BY <2>1, <3>1 DEF Pending
  <2>4. r.d.k = "auto" => Pending = 1
    BY <2>1 DEF Pending, UnderWay
  <2>. QED BY <2>1, <2>3, <2>4, CountSame DEF Accounts, Steady
<1>. QED BY <1>2, <1>3, <1>4, <1>5, <1>6 DEF ResumeSteps

\* The forge, its humans and the Task's own life.
LEMMA WorldAccounts ==
  ASSUME CountKept,
         \/ HumanComments \/ HumanCloses \/ HumanReopens \/ LoseDelivery
         \/ taskParks \/ taskDelivers
  PROVE  Accounts /\ ThreadsKept'
<1>0. Steady
  BY StayKeeps DEF CountKept, HumanComments, HumanCloses, HumanReopens, LoseDelivery, taskParks, taskDelivers
<1>1. CASE taskDelivers
  <2>1. laps' = laps /\ SameCount(cr, cr')
    BY <1>1, CountSame, ParkKeeps DEF taskDelivers, ReleaseTerminalIssues
  <2>. QED BY <1>0, <2>1 DEF Accounts, Steady
<1>2. CASE HumanComments \/ HumanCloses \/ HumanReopens \/ LoseDelivery \/ taskParks
  <2>1. laps' = laps /\ cr' = cr
    BY <1>2 DEF HumanComments, HumanCloses, HumanReopens, LoseDelivery, taskParks
  <2>. QED BY <1>0, <2>1, CountSame DEF Accounts, Steady
<1>. QED BY <1>1, <1>2

----------------------------------------------------------------------------
\* A proposal starts with a mirror that has paid for nothing, any other issue
\* without one; nobody is under way.
LEMMA InitCounts == Init => CountKept
<1> SUFFICES ASSUME Init PROVE CountKept
  OBVIOUS
<1>1. laps = [taken |-> 0, gone |-> 0] /\ MaxAutoReentries \in Nat
  BY IntakeAssumption DEF Init
<1>2. ThreadsKept /\ Pending = 0
  BY IdleThread DEF Init, ThreadsKept, Pending, Threads
<1>3. Counts(cr) /\ CountOn(cr) = 0
  <2>1. CASE cr = NoCR
    BY <2>1 DEF Counts, CountOn
  <2>2. CASE cr = [NewMirror(FALSE) EXCEPT !.st = "open", !.last = "bot"]
    <3>1. "re" \in DOMAIN cr /\ cr.re = 0
      BY <2>2 DEF NewMirror
    <3>. QED BY <1>1, <3>1, CounterIsMirror DEF Counts, CountOn
  <2>. QED BY <2>1, <2>2 DEF Init
<1>. QED BY <1>1, <1>2, <1>3 DEF CountKept

\* A step that accounts for its re-entry leaves every re-entry paid for.
LEMMA AccountsKeep ==
  ASSUME CountKept, Accounts, ThreadsKept' PROVE CountKept'
<1>0. /\ laps \in [taken : Nat, gone : Nat] /\ MaxAutoReentries \in Nat
      /\ laps.taken \in Nat /\ laps.gone \in Nat /\ CountOn(cr) \in Nat
      /\ Pending \in {0, 1} /\ Pending' \in {0, 1}
      /\ laps.taken + Pending <= laps.gone + CountOn(cr)
      /\ cr # NoCR => "re" \in DOMAIN cr /\ cr.re \in 0 .. MaxAutoReentries
  BY IntakeAssumption DEF CountKept, Counts, CountOn, Pending
<1>1. ASSUME Counts(cr'), laps' \in [taken : Nat, gone : Nat],
             laps'.taken + Pending' <= laps'.gone + CountOn(cr')
      PROVE  CountKept'
  BY <1>1 DEF CountKept, Counts, CountOn
<1> HIDE DEF Pending
<1>2. CASE laps' = laps /\ SameCount(cr, cr') /\ Pending' <= Pending
  <2>1. Counts(cr') /\ CountOn(cr') = CountOn(cr)
    <3>1. CASE cr = NoCR
      BY <1>2, <3>1 DEF SameCount, Counts, CountOn
    <3>2. CASE cr # NoCR
      <4>1. "re" \in DOMAIN cr' /\ cr'.re = cr.re
        BY <1>0, <1>2, <3>2 DEF SameCount
      <4>. QED BY <1>0, <3>2, <4>1, CounterIsMirror DEF Counts, CountOn
    <3>. QED BY <3>1, <3>2
  <2> HIDE DEF CountOn
  <2>. QED BY <1>0, <1>1, <1>2, <2>1
<1>3. CASE laps' = laps /\ cr = NoCR /\ "re" \in DOMAIN cr' /\ cr'.re = 0 /\ Pending' <= Pending
  <2>1. Counts(cr') /\ CountOn(cr') = 0 /\ CountOn(cr) = 0
    BY <1>0, <1>3, CounterIsMirror DEF Counts, CountOn
  <2> HIDE DEF CountOn
  <2>. QED BY <1>0, <1>1, <1>3, <2>1
<1>4. CASE laps' = [laps EXCEPT !.gone = @ + cr.re] /\ cr # NoCR /\ cr' = NoCR /\ Pending' <= Pending
  <2>1. Counts(cr') /\ CountOn(cr') = 0 /\ CountOn(cr) = cr.re
    BY <1>4 DEF Counts, CountOn
  <2>2. /\ laps' \in [taken : Nat, gone : Nat]
        /\ laps'.gone = laps.gone + cr.re /\ laps'.taken = laps.taken
    BY <1>0, <1>4
  <2> HIDE DEF CountOn
  <2>. QED BY <1>0, <1>1, <1>4, <2>1, <2>2
<1>5. CASE /\ laps' = laps /\ cr # NoCR /\ autoReentriesLeft(cr)
           /\ cr' = [cr EXCEPT !.re = @ + 1] /\ Pending = 0
  <2>1. "re" \in DOMAIN cr' /\ cr'.re = cr.re + 1 /\ cr.re < MaxAutoReentries
    BY <1>0, <1>5 DEF autoReentriesLeft
  <2>2. Counts(cr') /\ CountOn(cr') = CountOn(cr) + 1
    BY <1>0, <1>5, <2>1, CounterIsMirror DEF Counts, CountOn
  <2> HIDE DEF CountOn
  <2>. QED BY <1>0, <1>1, <1>5, <2>2
<1>6. CASE laps' = [laps EXCEPT !.taken = @ + 1] /\ cr' = cr /\ Pending = 1 /\ Pending' = 0
  <2>1. /\ laps' \in [taken : Nat, gone : Nat]
        /\ laps'.gone = laps.gone /\ laps'.taken = laps.taken + 1
    BY <1>0, <1>6
  <2>2. Counts(cr') /\ CountOn(cr') = CountOn(cr)
    BY <1>6 DEF CountKept
  <2> HIDE DEF CountOn
  <2>. QED BY <1>0, <1>1, <1>6, <2>1, <2>2
<1>. QED BY <1>2, <1>3, <1>4, <1>5, <1>6 DEF Accounts

\* Every step accounts for what it does to the count.
LEMMA NextAccounts ==
  ASSUME CountKept, [Next]_vars PROVE Accounts /\ ThreadsKept'
<1>1. CASE UNCHANGED vars
  BY <1>1, CountSame, StayKeeps DEF vars, Accounts, Steady, CountKept
<1>2. CASE \E x \in Replicas : Handle(x) \/ deliverPendingEvent(x)
  BY <1>2, HandlersAccount
<1>3. CASE \E x \in Threads : Mint(x) \/ Crash(x)
  BY <1>3, MintAccounts
<1>. QED BY <1>1, <1>2, <1>3, ReconcilerAccounts, PassesAccount, ReentriesAccount, WorldAccounts DEF Next

\* Every re-entry nobody asked for is on the count of a mirror before the Task it
\* replaces is touched: a pass under way has paid, and has not taken it yet,
\* however many handlers, passes and crashes interleave.
THEOREM CountIsKept == Spec => []CountKept
<1>1. CountKept /\ [Next]_vars => CountKept'
  BY NextAccounts, AccountsKeep
<1>. QED BY InitCounts, <1>1, PTL DEF Spec

\* A Task that gave up is replaced, with nobody asking, no more often than its
\* issue's mirrors have paid for, each within its cap (strand.go, resume.go).
THEOREM ReentriesArePaidFor == Spec => []ReentriesPaidFor
<1>1. CountKept => ReentriesPaidFor
  <2> SUFFICES ASSUME CountKept PROVE ReentriesPaidFor
    OBVIOUS
  <2>1. Pending \in {0, 1} /\ CountOn(cr) \in Nat /\ laps.taken \in Nat /\ laps.gone \in Nat
    BY IntakeAssumption DEF CountKept, Counts, CountOn, Pending
  <2>2. laps.taken <= laps.gone + CountOn(cr)
    <3> HIDE DEF Pending, CountOn
    <3> QED BY <2>1 DEF CountKept
  <2> QED BY <2>2, IntakeAssumption DEF CountKept, Counts, CountOn, ReentriesPaidFor
<1>. QED BY CountIsKept, <1>1, PTL
============================================================================

------------------------- MODULE MergeTrain_proofs -------------------------
(***************************************************************************)
(* Proofs about module MergeTrain, for every set of repositories, every    *)
(* choice of pinned and slow ones and every bound.  The argument: a mirror *)
(* is never ahead of the forge, its reviewedSHA is a commit a review was   *)
(* given of or none of its repository's, whichever of the three writers    *)
(* wrote it last, and a pass in progress keeps what it read of both; so    *)
(* what it lands was reviewed and what its cursor passed over is merged.   *)
(***************************************************************************)
EXTENDS MergeTrain, TLAPS, FiniteSetTheorems, SequenceTheorems

\* reviewedSHA is not one of the repository's, or a review was given of it.
Reviewed(r, m) == m.rev # Unreviewed => <<r, m.rev>> \in reviewed

\* What a mirror says of a merge request that is not open is so.
TellsTrue(m) == \A r \in Repos : m[r].st # "open" => pr[r].st = m[r].st

GateReviewed ==
  /\ TellsTrue(mr)
  /\ \A r \in Repos : Reviewed(r, mr[r])

PassReviewed == pass # NoPass =>
  /\ TellsTrue(pass.seen)
  /\ \A r \in Repos : Reviewed(r, pass.seen[r])
  /\ pass.at # "repo" => pass.cur < Len(pass.t.order)
  /\ pass.at \in {"state", "merge"} => <<repo, pass.head>> \in reviewed
  /\ pass.at \in {"stamp", "release"} => pr[repo].st = "merged"

Landings == \A r \in Repos :
  pr[r].by = "train" => pr[r].st = "merged" /\ <<r, pr[r].head>> \in reviewed

DoneMerged == task.stage = "done" =>
  \A r \in Repos : mr[r].st = "merged" /\ mr[r].dep

\* The first n repositories of an order are merged.
MergedUpTo(order, n) ==
  \A i \in 1..n : order[i] \in Repos /\ pr[order[i]].st = "merged"

TrainedMerged == trained # <<>> => MergedUpTo(trained, task.cursor)

Unordered == task.order = <<>> =>
  task.stage = "under-implementation" /\ task.cursor = 0 /\ pass = NoPass

PassCursor == pass # NoPass =>
  /\ pass.t.cursor = task.cursor
  /\ pass.t.cursor <= pass.cur
  /\ pass.t.cursor = 0 \/ trained = pass.t.order => MergedUpTo(pass.t.order, pass.cur)
  /\ pass.t.order # <<>>

IInv ==
  /\ TypeOK /\ GateReviewed /\ PassReviewed /\ Landings /\ DoneMerged
  /\ TrainedMerged /\ Unordered /\ PassCursor

----------------------------------------------------------------------------
(* Orders and passes. *)

\* An order is a sequence of repositories.
LEMMA OrderIsSeq ==
  ASSUME NEW order \in Orders \cup {<<>>}
  PROVE  /\ order \in Seq(Repos)
         /\ Len(order) \in Nat
         /\ DOMAIN order = 1..Len(order)
         /\ \A i \in 1..Len(order) : order[i] \in Repos
<1>1. Cardinality(Repos) \in Nat
  BY TrainAssumption, FS_CardinalityType
<1>2. order \in Seq(Repos)
  <2>1. CASE order = <<>>
    BY <2>1
  <2>2. CASE order \in Orders
    <3>1. PICK n \in 1..Cardinality(Repos) : order \in [1..n -> Repos]
      BY <2>2 DEF Orders
    <3> QED BY <1>1, <3>1, SeqDef
  <2> QED BY <2>1, <2>2
<1> QED BY <1>2

\* What a pass in progress is made of.
LEMMA PassParts ==
  ASSUME TypeOK, pass # NoPass
  PROVE  /\ pass = [at |-> pass.at, t |-> pass.t, seen |-> pass.seen,
                    cur |-> pass.cur, head |-> pass.head]
         /\ pass.at \in {"repo", "state", "merge", "stamp", "release"}
         /\ pass.t \in [order : Orders \cup {<<>>}, cursor : Nat, moves : Nat]
         /\ pass.seen \in [Repos -> Mirror]
         /\ pass.cur \in Nat
         /\ pass.head \in Heads \cup {Unreviewed}
BY DEF TypeOK, Pass

\* The repository a pass is at is one of the Task's.
LEMMA RepoInRepos ==
  ASSUME TypeOK, pass # NoPass, pass.cur < Len(pass.t.order)
  PROVE  repo \in Repos
<1>1. pass.t.order \in Orders \cup {<<>>} /\ pass.cur \in Nat
  BY PassParts
<1> QED BY <1>1, OrderIsSeq DEF repo

\* The invariant holds when the Task is created: no pass, nothing merged.
THEOREM InitIInv == Init => IInv
<1> SUFFICES ASSUME Init PROVE IInv
  OBVIOUS
<1>1. TypeOK
  BY TrainAssumption DEF Init, TypeOK, Task, PR, Mirror, Pass, Stages, Parks, Heads, Unreviewed, Orders
<1> QED BY <1>1 DEF Init, IInv, GateReviewed, PassReviewed, Landings, DoneMerged, TrainedMerged,
        Unordered, PassCursor, TellsTrue, Reviewed, MergedUpTo, NoPass

----------------------------------------------------------------------------
(* What the steps have in common. *)

\* A step of the forge: what is settled stays, and what the train landed was
\* reviewed.
Grows(r) ==
  /\ pr[r].st # "open" => pr'[r].st = pr[r].st /\ pr'[r].head = pr[r].head
  /\ pr'[r].by = "train" =>
       \/ pr[r].by = "train"
       \/ pr'[r].st = "merged" /\ <<r, pr'[r].head>> \in reviewed

\* What was merged stays merged.
LEMMA StaysMerged ==
  ASSUME NEW order, NEW n, MergedUpTo(order, n), \A r \in Repos : Grows(r)
  PROVE  \A i \in 1..n : order[i] \in Repos /\ pr'[order[i]].st = "merged"
BY DEF MergedUpTo, Grows

\* A step of the forge disturbs no pass and no mirror.
LEMMA ForgeStep ==
  ASSUME IInv, pr' \in [Repos -> PR], \A r \in Repos : Grows(r),
         UNCHANGED <<task, mr, pass, trained, reviewed>>
  PROVE  IInv'
<1>1. TypeOK'
  BY DEF IInv, TypeOK
<1>2. TellsTrue(mr)' /\ GateReviewed'
  BY DEF IInv, GateReviewed, TellsTrue, Reviewed, Grows
<1>3. PassReviewed'
  <2> SUFFICES ASSUME pass # NoPass
               PROVE  PassReviewed'
    BY DEF PassReviewed
  <2>1. TellsTrue(pass.seen)'
    BY DEF IInv, PassReviewed, TellsTrue, Grows
  <2>2. pass.at \in {"stamp", "release"} => pr'[repo].st = "merged"
    BY RepoInRepos DEF IInv, PassReviewed, Grows
  <2> QED BY <2>1, <2>2 DEF IInv, PassReviewed, Reviewed, repo
<1>4. Landings'
  BY DEF IInv, Landings, Grows
<1>5. TrainedMerged' /\ PassCursor'
  BY StaysMerged DEF IInv, TrainedMerged, PassCursor, MergedUpTo
<1>6. DoneMerged' /\ Unordered'
  BY DEF IInv, DoneMerged, Unordered
<1> QED BY <1>1, <1>2, <1>3, <1>4, <1>5, <1>6 DEF IInv

\* A writer of the Task who leaves the cursor alone: it comes to merged with
\* reviewed or merged mirrors, and to done when everything is merged.
TaskMoves ==
  /\ task' \in Task
  /\ task'.cursor = task.cursor
  /\ task'.order = <<>> => task.order = <<>> /\ task'.stage = task.stage
  /\ task'.stage = "done" =>
       task.stage = "done" \/ \A r \in Repos : mr[r].st = "merged" /\ mr[r].dep

\* A writer of the Task alone preserves the invariant.
LEMMA TaskStep ==
  ASSUME IInv, TaskMoves, UNCHANGED <<pr, mr, pass, trained, reviewed>>
  PROVE  IInv'
<1>1. TypeOK'
  BY DEF IInv, TypeOK, TaskMoves
<1>2. GateReviewed' /\ PassReviewed' /\ Landings' /\ DoneMerged'
  BY DEF IInv, GateReviewed, PassReviewed, Landings, DoneMerged, TaskMoves,
         TellsTrue, Reviewed, repo
<1>3. TrainedMerged' /\ Unordered' /\ PassCursor'
  BY DEF IInv, TrainedMerged, Unordered, PassCursor, MergedUpTo, TaskMoves
<1> QED BY <1>1, <1>2, <1>3 DEF IInv

\* The end of a pass: mirrors as they were or put back to unreviewed, the
\* cursor as it was or as far as the pass came.
CursorMoves ==
  \/ task'.cursor = task.cursor /\ UNCHANGED trained
  \/ task'.cursor = pass.cur /\ TrainedOn

\* A pass that ends preserves the invariant, whichever of the two cursors it
\* leaves.
LEMMA EndStep ==
  ASSUME IInv, pass # NoPass, pass' = NoPass,
         task' \in Task, CursorMoves,
         task'.order = task.order,
         task'.stage = "done" => task.stage = "done",
         mr' \in [Repos -> Mirror],
         \A r \in Repos : /\ mr'[r].st = mr[r].st /\ mr'[r].dep = mr[r].dep
                          /\ mr'[r].rev \in {mr[r].rev, Unreviewed},
         UNCHANGED <<pr, reviewed>>
  PROVE  IInv'
<1>1. trained' \in Orders \cup {<<>>}
  BY PassParts DEF IInv, TypeOK, CursorMoves, TrainedOn
<1>2. TypeOK'
  BY <1>1 DEF IInv, TypeOK, Pass
<1>3. GateReviewed' /\ PassReviewed' /\ Landings' /\ DoneMerged'
  BY DEF IInv, GateReviewed, PassReviewed, Landings, DoneMerged, TellsTrue, Reviewed
<1>4. TrainedMerged'
  <2>1. CASE task'.cursor = task.cursor /\ UNCHANGED trained
    BY <2>1 DEF IInv, TrainedMerged, MergedUpTo
  <2>2. CASE task'.cursor = pass.cur /\ TrainedOn
    BY <2>2 DEF IInv, TrainedMerged, MergedUpTo, PassCursor, TrainedOn
  <2> QED BY <2>1, <2>2 DEF CursorMoves
<1>5. Unordered' /\ PassCursor'
  BY DEF IInv, Unordered, PassCursor
<1> QED BY <1>2, <1>3, <1>4, <1>5 DEF IInv

\* A write of a mirror: it learns what the forge says, what was reviewed, or
\* that it is deployed.
LEMMA MirrorStep ==
  ASSUME IInv, mr' \in [Repos -> Mirror],
         \A r \in Repos : /\ mr'[r].st \in {mr[r].st, pr[r].st}
                          /\ \/ mr'[r].rev \in {mr[r].rev, Unreviewed}
                             \/ <<r, mr'[r].rev>> \in reviewed
                          /\ mr[r].dep => mr'[r].dep,
         UNCHANGED <<task, pr, pass, trained, reviewed>>
  PROVE  IInv'
<1>1. TypeOK'
  BY DEF IInv, TypeOK
<1>2. GateReviewed'
  BY DEF IInv, GateReviewed, TellsTrue, Reviewed
<1>3. PassReviewed' /\ Landings' /\ DoneMerged'
  BY DEF IInv, GateReviewed, PassReviewed, Landings, DoneMerged, TellsTrue, Reviewed, repo
<1>4. TrainedMerged' /\ Unordered' /\ PassCursor'
  BY DEF IInv, TrainedMerged, Unordered, PassCursor, MergedUpTo
<1> QED BY <1>1, <1>2, <1>3, <1>4 DEF IInv

\* A pass goes on to its next call at the same repository.
LEMMA CallStep ==
  ASSUME IInv, pass # NoPass, pass.cur < Len(pass.t.order),
         NEW at \in {"state", "merge", "stamp", "release"},
         NEW head \in Heads,
         pass' = [pass EXCEPT !.at = at, !.head = head],
         at \in {"state", "merge"} => <<repo, head>> \in reviewed,
         at \in {"stamp", "release"} => pr'[repo].st = "merged",
         pr' \in [Repos -> PR], \A r \in Repos : Grows(r),
         UNCHANGED <<task, mr, trained, reviewed>>
  PROVE  IInv'
<1> USE PassParts, RepoInRepos
<1>1. pass'.t = pass.t /\ pass'.seen = pass.seen /\ pass'.cur = pass.cur
      /\ pass'.at = at /\ pass'.head = head /\ pass' # NoPass /\ pass' \in Pass
  BY DEF IInv, NoPass, Pass
<1>2. TypeOK'
  BY <1>1 DEF IInv, TypeOK
<1>3. GateReviewed' /\ DoneMerged' /\ Landings'
  BY ZenonT(30) DEF IInv, GateReviewed, DoneMerged, Landings, TellsTrue, Reviewed, Grows
<1>4. PassReviewed'
  <2>1. TellsTrue(pass.seen)' /\ (\A r \in Repos : Reviewed(r, pass.seen[r]))'
    BY <1>1 DEF IInv, PassReviewed, TellsTrue, Reviewed, Grows
  <2> QED BY <1>1, <2>1 DEF PassReviewed, TellsTrue, Reviewed, repo
<1>5. TrainedMerged'
  BY StaysMerged, ZenonT(30) DEF IInv, TrainedMerged, MergedUpTo
<1>6. PassCursor'
  <2>1. MergedUpTo(pass.t.order, pass.cur)
          => \A i \in 1..pass.cur : pass.t.order[i] \in Repos /\ pr'[pass.t.order[i]].st = "merged"
    BY StaysMerged
  <2> QED BY <1>1, <2>1 DEF IInv, PassCursor, MergedUpTo
<1>7. Unordered'
  BY DEF IInv, Unordered
<1> QED BY <1>2, <1>3, <1>4, <1>5, <1>6, <1>7 DEF IInv

\* A pass goes past a repository that is merged, having stamped its mirror or
\* not.
LEMMA NextRepoStep ==
  ASSUME IInv, pass # NoPass, pass.cur < Len(pass.t.order),
         pr[repo].st = "merged",
         pass' \in {[pass EXCEPT !.at = "repo", !.cur = @ + 1],
                    [pass EXCEPT !.at = "repo", !.cur = @ + 1, !.seen[repo].st = "merged"]},
         mr' \in {mr, [mr EXCEPT ![repo].st = "merged"]},
         UNCHANGED <<task, pr, trained, reviewed>>
  PROVE  IInv'
<1>0. repo \in Repos
  BY RepoInRepos DEF IInv
<1>1. /\ pass'.t = pass.t /\ pass'.cur = pass.cur + 1 /\ pass'.at = "repo" /\ pass' # NoPass
      /\ pass' \in Pass
      /\ \A r \in Repos : pass'.seen[r].rev = pass.seen[r].rev
                         /\ pass'.seen[r].st \in {pass.seen[r].st, pr[r].st}
  <2>1. PICK seen \in {pass.seen, [pass.seen EXCEPT ![repo].st = "merged"]} :
          pass' = [at |-> "repo", t |-> pass.t, seen |-> seen, cur |-> pass.cur + 1, head |-> pass.head]
    BY PassParts DEF IInv
  <2>2. seen \in [Repos -> Mirror]
    BY <1>0, PassParts DEF IInv, Mirror
  <2>3. \A r \in Repos : seen[r].rev = pass.seen[r].rev /\ seen[r].st \in {pass.seen[r].st, pr[r].st}
    BY <1>0, PassParts DEF IInv, Mirror
  <2> QED BY <2>1, <2>2, <2>3, PassParts DEF IInv, NoPass, Pass
<1>2. /\ mr' \in [Repos -> Mirror]
      /\ \A r \in Repos : /\ mr'[r].st \in {mr[r].st, pr[r].st}
                          /\ mr'[r].rev = mr[r].rev /\ mr'[r].dep = mr[r].dep
  BY <1>0 DEF IInv, TypeOK, Mirror
<1>3. TypeOK'
  BY <1>1, <1>2 DEF IInv, TypeOK
<1>4. GateReviewed'
  BY <1>2 DEF IInv, GateReviewed, TellsTrue, Reviewed
<1>5. Landings' /\ DoneMerged'
  BY <1>2 DEF IInv, GateReviewed, DoneMerged, Landings, TellsTrue
<1>6. PassReviewed'
  <2>1. \A r \in Repos :
          /\ pass'.seen[r].st # "open" => pr'[r].st = pass'.seen[r].st
          /\ pass'.seen[r].rev # Unreviewed => <<r, pass'.seen[r].rev>> \in reviewed'
    BY <1>1 DEF IInv, PassReviewed, TellsTrue, Reviewed
  <2> QED BY <1>1, <2>1 DEF PassReviewed, TellsTrue, Reviewed
<1>7. TrainedMerged' /\ Unordered'
  BY DEF IInv, TrainedMerged, Unordered, MergedUpTo
<1>8. PassCursor'
  <2>1. MergedUpTo(pass.t.order, pass.cur) => MergedUpTo(pass.t.order, pass.cur + 1)
    BY <1>0, PassParts DEF IInv, MergedUpTo, repo
  <2> QED BY <1>1, <2>1, PassParts DEF IInv, PassCursor, MergedUpTo
<1> QED BY <1>3, <1>4, <1>5, <1>6, <1>7, <1>8 DEF IInv

----------------------------------------------------------------------------
(* The actions. *)

\* Enter and Park write nothing but the stage and the park, and Enter goes
\* where the table says.
LEMMA EnterFacts ==
  ASSUME NEW t \in Task, NEW to \in Stages
  PROVE  /\ Enter(t, to) \in Task
         /\ Enter(t, to).cursor = t.cursor /\ Enter(t, to).order = t.order
         /\ Enter(t, to).stage \in {t.stage, to}
         /\ t.stage = "done" => Enter(t, to).stage = "done"
BY DEF Enter, Task, LegalMoves

\* A park leaves the stage, the order and the cursor alone.
LEMMA ParkFacts ==
  ASSUME NEW t \in Task, NEW class \in Parks
  PROVE  /\ Park(t, class) \in Task
         /\ Park(t, class).cursor = t.cursor /\ Park(t, class).order = t.order
         /\ Park(t, class).stage = t.stage
BY DEF Park, Task

\* A merge settles one merge request and starts its release.
LEMMA LandedFacts ==
  ASSUME NEW p \in PR, NEW who \in {"train", "human"}, NEW r
  PROVE  /\ Released(r, Landed(p, who)) \in PR
         /\ Released(r, Landed(p, who)).st = "merged"
         /\ Released(r, Landed(p, who)).by = who
         /\ Released(r, Landed(p, who)).head = p.head
BY DEF Released, Landed, PR

\* Submission, review and the clocks move the Task and leave the cursor alone.
LEMMA SubmitKeeps == ASSUME IInv, Submit PROVE IInv'
<1>1. PICK order \in Orders :
        task' \in {[task EXCEPT !.order = order],
                   Enter([task EXCEPT !.order = order], "awaiting-review")}
  BY DEF Submit
<1>2. [task EXCEPT !.order = order] \in Task
  BY DEF IInv, TypeOK, Task
<1>3. order # <<>>
  BY TrainAssumption, FS_CardinalityType DEF Orders
<1>4. TaskMoves
  BY <1>1, <1>2, <1>3, EnterFacts DEF TaskMoves, Task, Stages, IInv, TypeOK
<1> QED BY <1>4, TaskStep DEF Submit

\* A submission whose merge requests are all merged goes straight to the train.
LEMMA SubmitShippedKeeps == ASSUME IInv, SubmitShipped PROVE IInv'
<1>1. PICK order \in Orders :
        /\ IF task.order = <<>> THEN Covers(order, Repos) ELSE order = task.order
        /\ task' = Enter([task EXCEPT !.order = order], "merged")
  BY DEF SubmitShipped
<1>2. [task EXCEPT !.order = order] \in Task
  BY DEF IInv, TypeOK, Task
<1>3. order # <<>>
  BY TrainAssumption, FS_CardinalityType DEF Orders
<1>4. TaskMoves
  BY <1>1, <1>2, <1>3, EnterFacts DEF TaskMoves, Task, Stages, IInv, TypeOK
<1> QED BY <1>4, TaskStep DEF SubmitShipped

\* The review stage lets a Task through when every mirror is merged.
LEMMA FinalizeAtReviewKeeps == ASSUME IInv, FinalizeAtReview PROVE IInv'
<1>1. task.order # <<>>
  BY DEF FinalizeAtReview, IInv, Unordered
<1>2. TaskMoves
  BY <1>1, EnterFacts DEF FinalizeAtReview, TaskMoves, Stages, IInv, TypeOK
<1> QED BY <1>2, TaskStep DEF FinalizeAtReview

\* A request for changes takes the Task back, with its cursor.
LEMMA ChangesRequestedKeeps == ASSUME IInv, ChangesRequested PROVE IInv'
<1>1. task.order # <<>>
  BY DEF ChangesRequested, IInv, Unordered
<1>2. TaskMoves
  BY <1>1, EnterFacts DEF ChangesRequested, TaskMoves, Stages, Task, IInv, TypeOK
<1> QED BY <1>2, TaskStep DEF ChangesRequested

\* The deploy stage stamps mirrors that are merged, and delivers when all are.
LEMMA DeployingKeeps == ASSUME IInv, Deploying PROVE IInv'
<1>0. task \in Task
  BY DEF IInv, TypeOK
<1>1. CASE Deliver
  <2>1. TaskMoves
    BY <1>0, <1>1, EnterFacts DEF Deliver, TaskMoves, Stages, IInv, Unordered
  <2> QED BY <1>1, <2>1, TaskStep DEF Deliver
<1>2. ASSUME NEW r \in Repos, ResolveDeployed(r) PROVE IInv'
  <2>1. mr' = [mr EXCEPT ![r].dep = TRUE] /\ mr \in [Repos -> Mirror]
    BY <1>2 DEF ResolveDeployed, IInv, TypeOK
  <2>2. mr' \in [Repos -> Mirror]
    BY <2>1 DEF Mirror
  <2>3. \A q \in Repos : mr'[q].st = mr[q].st /\ mr'[q].rev = mr[q].rev /\ (mr[q].dep => mr'[q].dep)
    BY <2>1 DEF Mirror
  <2> QED BY <1>2, <2>2, <2>3, MirrorStep DEF ResolveDeployed
<1>3. CASE \E r \in Repos : FanoutStalled(r)
  <2>1. TaskMoves
    BY <1>0, <1>3, ParkFacts DEF FanoutStalled, TaskMoves, Parks
  <2> QED BY <1>3, <2>1, TaskStep DEF FanoutStalled
<1> QED BY <1>1, <1>2, <1>3 DEF Deploying

\* The clocks, the forge and the mirror sync preserve the invariant.
LEMMA WorldKeeps == ASSUME IInv, World PROVE IInv'
<1>0. task \in Task /\ pr \in [Repos -> PR] /\ mr \in [Repos -> Mirror]
  BY DEF IInv, TypeOK
<1>1. CASE Timeout \/ TimerUnpark
  <2>1. TaskMoves
    BY <1>0, <1>1 DEF Timeout, TimerUnpark, TaskMoves, Task, Parks
  <2> QED BY <1>1, <2>1, TaskStep DEF Timeout, TimerUnpark
<1>2. CASE Apply
  <2>1. pr' \in [Repos -> PR] /\ \A r \in Repos : Grows(r)
    BY <1>0, <1>2, ZenonT(30) DEF Apply, PR, Grows
  <2> QED BY <1>2, <2>1, ForgeStep DEF Apply
<1>3. ASSUME NEW r \in Repos, Push(r) PROVE IInv'
  <2>1. pr' \in [Repos -> PR] /\ \A q \in Repos : Grows(q)
    BY <1>0, <1>3, TrainAssumption DEF Push, PR, Grows, Heads, IInv, Landings
  <2> QED BY <1>3, <2>1, ForgeStep DEF Push
<1>4. ASSUME NEW r \in Repos, HumanMerge(r) PROVE IInv'
  <2>1. /\ pr' \in [Repos -> PR]
        /\ pr'[r].st = "merged" /\ pr'[r].by = "human"
        /\ \A q \in Repos \ {r} : pr'[q] = pr[q]
    BY <1>0, <1>4, LandedFacts DEF HumanMerge
  <2>2. \A q \in Repos : Grows(q)
    BY <1>4, <2>1 DEF HumanMerge, Grows
  <2> QED BY <1>4, <2>1, <2>2, ForgeStep DEF HumanMerge
<1>5. ASSUME NEW r \in Repos, ForgeClose(r) PROVE IInv'
  <2>1. pr' \in [Repos -> PR] /\ \A q \in Repos : Grows(q)
    BY <1>0, <1>5 DEF ForgeClose, PR, Grows, IInv, Landings
  <2> QED BY <1>5, <2>1, ForgeStep DEF ForgeClose
<1>6. ASSUME NEW r \in Repos, MirrorSync(r) PROVE IInv'
  BY <1>0, <1>6, MirrorStep DEF MirrorSync, Mirror, PR
<1>7. ASSUME NEW r \in Repos, ReleaseJob(r) PROVE IInv'
  <2>1. PICK next \in {"building", "tagged", "pinned"} : pr' = [pr EXCEPT ![r].cd = next]
    <3>1. PICK step \in {<<"none", "building">>, <<"building", "tagged">>, <<"tagged", "pinned">>} :
            pr' = [pr EXCEPT ![r].cd = step[2]]
      BY <1>7 DEF ReleaseJob
    <3>2. step[2] \in {"building", "tagged", "pinned"}
      OBVIOUS
    <3> QED BY <3>1, <3>2
  <2>2. pr' \in [Repos -> PR] /\ \A q \in Repos : Grows(q)
    BY <1>0, <2>1 DEF PR, Grows
  <2> QED BY <1>7, <2>2, ForgeStep DEF ReleaseJob
<1> QED BY <1>1, <1>2, <1>3, <1>4, <1>5, <1>6, <1>7 DEF World

\* A review is given, its writes land, and the Task goes on: three steps that
\* preserve the invariant in any order.
LEMMA ReviewingKeeps == ASSUME IInv, Reviewing PROVE IInv'
<1>0. task \in Task /\ pr \in [Repos -> PR] /\ mr \in [Repos -> Mirror] /\ reviewed \subseteq Repos \X Heads
  BY DEF IInv, TypeOK
<1>1. ASSUME reviewed \subseteq reviewed', reviewed' \subseteq Repos \X Heads,
             UNCHANGED <<task, pr, mr, pass, trained>>
      PROVE  IInv'
  <2>1. TypeOK'
    BY <1>1 DEF IInv, TypeOK
  <2>2. GateReviewed' /\ PassReviewed' /\ Landings'
    BY <1>1 DEF IInv, GateReviewed, PassReviewed, Landings, TellsTrue, Reviewed, repo
  <2>3. DoneMerged' /\ Unordered' /\ TrainedMerged' /\ PassCursor'
    BY <1>1 DEF IInv, DoneMerged, Unordered, TrainedMerged, PassCursor, MergedUpTo
  <2> QED BY <2>1, <2>2, <2>3 DEF IInv
<1>2. CASE ReviewOutcome
  BY <1>0, <1>1, <1>2 DEF ReviewOutcome, OpenRepos, PR
<1>3. ASSUME NEW r \in Repos, ReviewApproved(r) PROVE IInv'
  <2>1. PICK head \in 1..pr[r].head : reviewed' = reviewed \cup {<<r, head>>}
    BY <1>3 DEF ReviewApproved
  <2>2. head \in Heads
    BY <1>0, <2>1, TrainAssumption DEF PR, Heads
  <2> QED BY <1>0, <1>1, <1>3, <2>1, <2>2 DEF ReviewApproved
<1>4. ASSUME NEW r \in Repos, StampReviewed(r) PROVE IInv'
  <2>1. PICK head \in Heads : <<r, head>> \in reviewed /\ mr' = [mr EXCEPT ![r].rev = head]
    BY <1>4 DEF StampReviewed
  <2>2. mr' \in [Repos -> Mirror]
    BY <1>0, <2>1 DEF Mirror
  <2>3. \A q \in Repos : /\ mr'[q].st = mr[q].st /\ mr'[q].dep = mr[q].dep
                         /\ mr'[q].rev = mr[q].rev \/ <<q, mr'[q].rev>> \in reviewed
    BY <1>0, <2>1 DEF Mirror
  <2> QED BY <1>4, <2>2, <2>3, MirrorStep DEF StampReviewed
<1>5. ASSUME NEW r \in Repos, StampForeign(r) PROVE IInv'
  <2>1. mr' \in [Repos -> Mirror]
    BY <1>0, <1>5 DEF StampForeign, Mirror
  <2>2. \A q \in Repos : /\ mr'[q].st = mr[q].st /\ mr'[q].dep = mr[q].dep
                         /\ mr'[q].rev \in {mr[q].rev, Unreviewed}
    BY <1>0, <1>5 DEF StampForeign, Mirror
  <2> QED BY <1>5, <2>1, <2>2, MirrorStep DEF StampForeign
<1>6. CASE AdvanceAfterReview
  <2>1. TaskMoves
    BY <1>0, <1>6, EnterFacts DEF AdvanceAfterReview, TaskMoves, Stages, IInv, Unordered
  <2> QED BY <1>6, <2>1, TaskStep DEF AdvanceAfterReview
<1> QED BY <1>2, <1>3, <1>4, <1>5, <1>6 DEF Reviewing

\* A pass begins with the mirrors of a Task at merged, all of them reviewed.
LEMMA BeginPassKeeps == ASSUME IInv, BeginPass PROVE IInv'
<1>1. /\ pass'.t = [order |-> task.order, cursor |-> task.cursor, moves |-> task.moves]
      /\ pass'.seen = mr /\ pass'.at = "repo" /\ pass'.cur = task.cursor /\ pass' # NoPass
      /\ pass' \in Pass /\ task.order # <<>>
  BY DEF BeginPass, IInv, TypeOK, Task, Pass, NoPass, Unordered
<1>2. TypeOK'
  BY <1>1 DEF BeginPass, IInv, TypeOK
<1>3. GateReviewed' /\ PassReviewed' /\ Landings' /\ DoneMerged'
  BY <1>1 DEF BeginPass, IInv, GateReviewed, PassReviewed, Landings, DoneMerged, TellsTrue, Reviewed
<1>4. TrainedMerged' /\ Unordered'
  BY <1>1 DEF BeginPass, IInv, TrainedMerged, Unordered, MergedUpTo
<1>5. PassCursor'
  BY <1>1 DEF BeginPass, IInv, TypeOK, Task, TrainedMerged, PassCursor, MergedUpTo
<1> QED BY <1>2, <1>3, <1>4, <1>5 DEF IInv

\* The ways a pass ends: the Task is parked, waits, or goes to another stage.
LEMMA ParkEnds ==
  ASSUME IInv, pass # NoPass, NEW class \in Parks, ParkTask(class), UNCHANGED <<pr, mr, reviewed>>
  PROVE  IInv'
<1>1. task \in Task /\ mr \in [Repos -> Mirror]
  BY DEF IInv, TypeOK
<1>2. /\ task' \in Task /\ task'.cursor = task.cursor /\ task'.order = task.order
      /\ task'.stage = task.stage
  BY <1>1, ParkFacts DEF ParkTask
<1> QED BY <1>1, <1>2, EndStep DEF ParkTask, EndPass, CursorMoves

\* A stage a pass may send its Task to.
Targets == {"awaiting-review", "under-implementation", "deployed"}

\* A pass that ends by moving its Task and writing its cursor.
LEMMA EnterEnds ==
  ASSUME IInv, pass # NoPass, NEW to \in Targets, NEW moves \in Nat,
         EnterWithCursor([task EXCEPT !.moves = moves], to),
         mr' \in [Repos -> Mirror],
         \A r \in Repos : /\ mr'[r].st = mr[r].st /\ mr'[r].dep = mr[r].dep
                          /\ mr'[r].rev \in {mr[r].rev, Unreviewed},
         UNCHANGED <<pr, reviewed>>
  PROVE  IInv'
<1>1. task \in Task /\ pass.cur \in Nat
  BY PassParts DEF IInv, TypeOK
<1> DEFINE t == WithCursor([task EXCEPT !.moves = moves])
<1>2. t \in Task /\ t.cursor = pass.cur /\ t.order = task.order /\ t.stage = task.stage
  BY <1>1 DEF WithCursor, Task
<1>3. /\ task' \in Task /\ task'.cursor = pass.cur /\ task'.order = task.order
      /\ task'.stage \in {task.stage, to}
  BY <1>2, EnterFacts DEF EnterWithCursor, Targets, Stages
<1> QED BY <1>3, EndStep DEF EnterWithCursor, EndPass, CursorMoves, Targets

\* The same without the cursor, and with nothing at all.
LEMMA BareEnds ==
  ASSUME IInv, pass # NoPass,
         task' \in {task, Enter(task, "under-implementation")},
         EndPass,
         mr' \in [Repos -> Mirror],
         \A r \in Repos : /\ mr'[r].st = mr[r].st /\ mr'[r].dep = mr[r].dep
                          /\ mr'[r].rev \in {mr[r].rev, Unreviewed},
         UNCHANGED <<pr, trained, reviewed>>
  PROVE  IInv'
<1>1. task \in Task
  BY DEF IInv, TypeOK
<1>2. /\ task' \in Task /\ task'.cursor = task.cursor /\ task'.order = task.order
      /\ task'.stage \in {task.stage, "under-implementation"}
  BY <1>1, EnterFacts DEF Stages
<1> QED BY <1>2, EndStep DEF EndPass, CursorMoves

\* A pass that stalls writes its cursor if it has advanced.
LEMMA StallEnds ==
  ASSUME IInv, pass # NoPass, Stall, UNCHANGED <<pr, mr, reviewed>>
  PROVE  IInv'
<1>1. task \in Task /\ pass.cur \in Nat /\ mr \in [Repos -> Mirror]
  BY PassParts DEF IInv, TypeOK
<1>2. /\ task' \in Task /\ task'.order = task.order /\ task'.stage = task.stage
      /\ CursorMoves
  BY <1>1 DEF Stall, WithCursor, Task, CursorMoves
<1> QED BY <1>1, <1>2, EndStep DEF Stall, EndPass

\* headMoved puts the mirror back to unreviewed, then the Task to review.
LEMMA HeadMovedEnds ==
  ASSUME IInv, pass # NoPass, pass.cur < Len(pass.t.order), headMoved, UNCHANGED <<pr, reviewed>>
  PROVE  IInv'
<1>0. repo \in Repos /\ mr \in [Repos -> Mirror] /\ pass.t.moves \in Nat /\ task \in Task
  BY RepoInRepos, PassParts DEF IInv, TypeOK
<1>1. CASE ParkTask("final") /\ UNCHANGED mr
  BY <1>1, ParkEnds DEF Parks
<1>2. CASE mr' = [mr EXCEPT ![repo].rev = Unreviewed]
  <2>1. /\ mr' \in [Repos -> Mirror]
        /\ \A r \in Repos : /\ mr'[r].st = mr[r].st /\ mr'[r].dep = mr[r].dep
                            /\ mr'[r].rev \in {mr[r].rev, Unreviewed}
    BY <1>0, <1>2 DEF Mirror
  <2>2. CASE EnterWithCursor([task EXCEPT !.moves = pass.t.moves + 1], "awaiting-review")
    <3>1. pass.t.moves + 1 \in Nat /\ "awaiting-review" \in Targets
      BY <1>0 DEF Targets
    <3> QED BY <2>1, <2>2, <3>1, EnterEnds
  <2>3. CASE EndPass /\ UNCHANGED <<task, trained>>
    BY <2>1, <2>3, BareEnds
  <2>4. CASE ParkTask("final") /\ UNCHANGED mr
    BY <1>1, <2>4
  <2> QED BY <2>2, <2>3, <2>4 DEF headMoved
<1> QED BY <1>1, <1>2 DEF headMoved

\* The calls of a pass that end it.
LEMMA EndingKeeps ==
  ASSUME IInv, \/ NoMergeRequest \/ HeadMoved \/ Bounced \/ MergeWaits \/ MergeHeadMoved
               \/ MergeAuthRefused \/ ReleaseWaits \/ MergeComplete \/ Abort
  PROVE  IInv'
<1>0. mr \in [Repos -> Mirror] /\ task \in Task
  BY DEF IInv, TypeOK
<1>1. CASE NoMergeRequest \/ MergeAuthRefused
  BY <1>1, ParkEnds DEF NoMergeRequest, MergeAuthRefused, AtRepo, At, Parks
<1>2. CASE HeadMoved \/ MergeHeadMoved
  <2>1. pass # NoPass /\ pass.cur < Len(pass.t.order)
    BY <1>2 DEF HeadMoved, MergeHeadMoved, AtRepo, At, IInv, PassReviewed
  <2> QED BY <1>2, <2>1, HeadMovedEnds DEF HeadMoved, MergeHeadMoved
<1>3. CASE Bounced
  <2>0. pass # NoPass /\ UNCHANGED <<pr, mr, reviewed>>
    BY <1>3 DEF Bounced, Unmerged, At
  <2>1. CASE ParkTask("timer") \/ ParkTask("final")
    BY <2>0, <2>1, ParkEnds DEF Parks
  <2>2. CASE EnterWithCursor(task, "under-implementation")
    <3>1. task.moves \in Nat /\ task = [task EXCEPT !.moves = task.moves]
          /\ "under-implementation" \in Targets
      BY <1>0 DEF Task, Targets
    <3> QED BY <1>0, <2>0, <2>2, <3>1, EnterEnds
  <2>3. CASE task' = Enter(task, "under-implementation") /\ UNCHANGED trained /\ EndPass
    BY <1>0, <2>0, <2>3, BareEnds
  <2> QED BY <1>3, <2>1, <2>2, <2>3 DEF Bounced
<1>4. CASE MergeWaits \/ ReleaseWaits
  BY <1>4, StallEnds DEF MergeWaits, ReleaseWaits, Unmerged, At
<1>5. CASE MergeComplete
  <2>1. task.moves \in Nat /\ task = [task EXCEPT !.moves = task.moves] /\ "deployed" \in Targets
    BY <1>0 DEF Task, Targets
  <2>2. pass # NoPass /\ EnterWithCursor(task, "deployed") /\ UNCHANGED <<pr, mr, reviewed>>
    BY <1>5 DEF MergeComplete, At
  <2> QED BY <1>0, <2>1, <2>2, EnterEnds
<1>6. CASE Abort
  BY <1>0, <1>6, BareEnds DEF Abort
<1> QED BY <1>1, <1>2, <1>3, <1>4, <1>5, <1>6

\* The calls after which it goes on at the same repository.  The head it read
\* is the reviewed one, and Merge is pinned to it.
LEMMA CallKeeps ==
  ASSUME IInv, ReadHead \/ ReadyToMerge \/ Merge
  PROVE  IInv'
<1>0. pass # NoPass /\ pr \in [Repos -> PR] /\ reviewed \subseteq Repos \X Heads
  BY DEF ReadHead, ReadyToMerge, Merge, AtRepo, Unmerged, At, IInv, TypeOK
<1>1. pass.cur < Len(pass.t.order) /\ repo \in Repos
  BY <1>0, RepoInRepos DEF ReadHead, ReadyToMerge, Merge, AtRepo, Unmerged, At, IInv, PassReviewed
<1>2. \A r \in Repos : pr'[r] = pr[r] => Grows(r)
  BY DEF Grows
<1>3. CASE ReadHead
  <2>1. pr[repo].head \in Heads /\ pr[repo].head # Unreviewed
    BY <1>0, <1>1 DEF PR, Heads, Unreviewed
  <2>2. <<repo, pr[repo].head>> \in reviewed
    BY <1>0, <1>1, <1>3, <2>1 DEF ReadHead, IInv, PassReviewed, Reviewed
  <2>3. pass' = [pass EXCEPT !.at = "state", !.head = pr[repo].head]
        /\ pr' = pr /\ UNCHANGED <<task, mr, trained, reviewed>>
    BY <1>3 DEF ReadHead
  <2> QED BY <1>0, <1>1, <1>2, <2>1, <2>2, <2>3, CallStep
<1>4. CASE ReadyToMerge \/ Merge
  <2>1. pass.at \in {"state", "merge"} /\ <<repo, pass.head>> \in reviewed /\ pass.head \in Heads
    BY <1>0, <1>4 DEF ReadyToMerge, Merge, Unmerged, At, IInv, PassReviewed
  <2>2. CASE ReadyToMerge
    <3>1. pass' = [pass EXCEPT !.at = "merge", !.head = pass.head]
          /\ pr' = pr /\ UNCHANGED <<task, mr, trained, reviewed>>
      BY <1>0, <2>2, PassParts DEF ReadyToMerge, IInv
    <3> QED BY <1>0, <1>1, <1>2, <2>1, <3>1, CallStep
  <2>3. CASE Merge
    <3>1. pass' = [pass EXCEPT !.at = "stamp", !.head = pass.head]
          /\ UNCHANGED <<task, mr, trained, reviewed>>
      BY <1>0, <2>3, PassParts DEF Merge, IInv
    <3>2. /\ pr' \in [Repos -> PR]
          /\ pr'[repo].st = "merged" /\ pr'[repo].head = pr[repo].head
          /\ \A q \in Repos \ {repo} : pr'[q] = pr[q]
      BY <1>0, <1>1, <2>3, LandedFacts DEF Merge
    <3>3. \A q \in Repos : Grows(q)
      BY <1>1, <1>2, <2>1, <2>3, <3>2 DEF Merge, Grows
    <3> QED BY <1>0, <1>1, <2>1, <3>1, <3>2, <3>3, CallStep
  <2> QED BY <1>4, <2>2, <2>3
<1> QED BY <1>3, <1>4

\* The mirror of what was landed is stamped.
LEMMA StampKeeps == ASSUME IInv, stampMerged PROVE IInv'
<1>0. pass # NoPass /\ pass.at = "stamp" /\ pass.cur < Len(pass.t.order) /\ repo \in Repos
  BY RepoInRepos DEF stampMerged, At, IInv, PassReviewed
<1>1. pr[repo].st = "merged" /\ mr \in [Repos -> Mirror]
  BY <1>0 DEF IInv, PassReviewed, TypeOK
<1>2. /\ mr' \in [Repos -> Mirror]
      /\ \A r \in Repos : /\ mr'[r].st \in {mr[r].st, pr[r].st}
                          /\ mr'[r].rev = mr[r].rev /\ mr'[r].dep = mr[r].dep
  BY <1>0, <1>1 DEF stampMerged, Mirror
<1> DEFINE seen == [pass.seen EXCEPT ![repo].st = "merged"]
<1>3. pass' = [at |-> "release", t |-> pass.t, seen |-> seen, cur |-> pass.cur, head |-> pass.head]
  BY <1>0, PassParts DEF stampMerged, IInv
<1>4. seen \in [Repos -> Mirror] /\ \A r \in Repos : seen[r].rev = pass.seen[r].rev
        /\ seen[r].st \in {pass.seen[r].st, pr[r].st}
  BY <1>0, <1>1, PassParts DEF IInv, Mirror
<1>5. pass' \in Pass /\ pass' # NoPass
  BY <1>0, <1>3, <1>4, PassParts DEF IInv, Pass, NoPass
<1>6. TypeOK'
  BY <1>2, <1>5 DEF stampMerged, IInv, TypeOK
<1>7. GateReviewed' /\ DoneMerged' /\ Landings'
  BY <1>2 DEF stampMerged, IInv, GateReviewed, DoneMerged, Landings, TellsTrue, Reviewed
<1>8. PassReviewed'
  <2>1. \A r \in Repos :
          /\ seen[r].st # "open" => pr'[r].st = seen[r].st
          /\ seen[r].rev # Unreviewed => <<r, seen[r].rev>> \in reviewed'
    BY <1>0, <1>4 DEF stampMerged, IInv, PassReviewed, TellsTrue, Reviewed
  <2>2. pass'.seen = seen /\ pass'.at = "release" /\ repo' = repo /\ pass'.cur < Len(pass'.t.order)
    BY <1>0, <1>3 DEF repo
  <2>3. pr'[repo'].st = "merged"
    BY <1>1, <2>2 DEF stampMerged
  <2> QED BY <2>1, <2>2, <2>3 DEF PassReviewed, TellsTrue, Reviewed
<1>9. TrainedMerged' /\ Unordered' /\ PassCursor'
  BY <1>0, <1>3, <1>5 DEF stampMerged, IInv, TrainedMerged, Unordered, PassCursor, MergedUpTo
<1> QED BY <1>6, <1>7, <1>8, <1>9 DEF IInv

\* The calls after which it goes on to the next repository.
LEMMA NextRepoKeeps ==
  ASSUME IInv, SkipMerged \/ FoundMerged \/ ReleaseGreen
  PROVE  IInv'
<1>0. pass # NoPass /\ pass.cur < Len(pass.t.order)
  BY DEF SkipMerged, FoundMerged, ReleaseGreen, AtRepo, At, IInv, PassReviewed
<1>1. repo \in Repos
  BY <1>0, RepoInRepos DEF IInv
<1>2. pr[repo].st = "merged"
  BY <1>0, <1>1 DEF SkipMerged, FoundMerged, ReleaseGreen, AtRepo, At, IInv, PassReviewed, TellsTrue
<1>3. pass' \in {[pass EXCEPT !.at = "repo", !.cur = @ + 1],
                 [pass EXCEPT !.at = "repo", !.cur = @ + 1, !.seen[repo].st = "merged"]}
  <2>1. CASE SkipMerged
    BY <1>0, <2>1, PassParts DEF SkipMerged, AtRepo, At, IInv
  <2>2. CASE FoundMerged \/ ReleaseGreen
    BY <2>2 DEF FoundMerged, ReleaseGreen
  <2> QED BY <2>1, <2>2
<1> QED BY <1>0, <1>2, <1>3, NextRepoStep DEF SkipMerged, FoundMerged, ReleaseGreen

\* Every step preserves the invariant.
LEMMA NextIInv == IInv /\ [Next]_vars => IInv'
<1> SUFFICES ASSUME IInv, [Next]_vars PROVE IInv'
  OBVIOUS
<1>1. CASE UNCHANGED vars
  BY <1>1 DEF vars, IInv, TypeOK, GateReviewed, PassReviewed, Landings, DoneMerged,
          TrainedMerged, Unordered, PassCursor, TellsTrue, Reviewed, MergedUpTo, repo
<1>2. CASE Submit \/ SubmitShipped \/ Reviewing \/ FinalizeAtReview \/ ChangesRequested
  BY <1>2, SubmitKeeps, SubmitShippedKeeps, ReviewingKeeps, FinalizeAtReviewKeeps, ChangesRequestedKeeps
<1>3. CASE BeginPass
  BY <1>3, BeginPassKeeps
<1>4. CASE Merging \/ Abort
  BY <1>4, EndingKeeps, CallKeeps, StampKeeps, NextRepoKeeps DEF Merging
<1>5. CASE Deploying \/ World
  BY <1>5, DeployingKeeps, WorldKeeps
<1> QED BY <1>1, <1>2, <1>3, <1>4, <1>5 DEF Next

----------------------------------------------------------------------------
(* The theorems. *)

\* The invariant holds of every reachable state of the train.
THEOREM Invariance == Spec => []IInv
BY InitIInv, NextIInv, PTL DEF Spec

\* Whatever interrupts a pass, the Task, the mirrors and the pass in progress
\* have their types; the cursor is a number of repositories.
THEOREM TypeCorrect == Spec => []TypeOK
<1>1. IInv => TypeOK
  BY DEF IInv
<1> QED BY <1>1, Invariance, PTL

\* The train lands exactly what was reviewed: the check against reviewedSHA and
\* the pin of the squash are enough, however pushes fall between the calls.
THEOREM LandsReviewed == Spec => []MergedWhatWasReviewed
<1>1. IInv => MergedWhatWasReviewed
  BY DEF IInv, Landings, MergedWhatWasReviewed
<1> QED BY <1>1, Invariance, PTL

\* status.mergeCursor is never ahead of the forge while the order it counts is
\* the Task's.
THEOREM CursorIsHonest == Spec => []CursorHonest
<1>1. IInv => CursorHonest
  <2> SUFFICES ASSUME IInv, trained = task.order
               PROVE  \A i \in 1..task.cursor : pr[task.order[i]].st = "merged"
    BY DEF CursorHonest
  <2>1. CASE trained = <<>>
    BY <2>1 DEF IInv, Unordered
  <2>2. CASE trained # <<>>
    BY <2>2 DEF IInv, TrainedMerged, MergedUpTo
  <2> QED BY <2>1, <2>2
<1> QED BY <1>1, Invariance, PTL

\* CloseIssuesOnDelivery finishes a Task only when all it owns is merged on the
\* forge, and nothing undoes that.
THEOREM DeliveredAllMerged == Spec => []DeliveredIsMerged
<1>1. IInv => DeliveredIsMerged
  BY DEF IInv, DoneMerged, GateReviewed, TellsTrue, DeliveredIsMerged
<1> QED BY <1>1, Invariance, PTL

\* ReconcileMerging lands the repositories of its order one after the other.
THEOREM LandsInTheOrder == Spec => LandsInOrder
<1> DEFINE A == \A r \in Repos :
              /\ pr[r].st = "open" /\ pr'[r].by = "train"
              /\ pass.t.cursor > 0 => trained = pass.t.order
              => \A i \in 1..pass.cur : pr[pass.t.order[i]].st = "merged"
<1>1. IInv /\ [Next]_vars => [A]_vars
  <2> SUFFICES ASSUME IInv, Next, NEW r \in Repos, pr[r].st = "open", pr'[r].by = "train",
                      pass.t.cursor > 0 => trained = pass.t.order
               PROVE  \A i \in 1..pass.cur : pr[pass.t.order[i]].st = "merged"
    OBVIOUS
  <2>1. pr \in [Repos -> PR] /\ pr[r].by # "train"
    BY DEF IInv, TypeOK, Landings
  <2>2. Merge
    <3>1. CASE UNCHANGED pr
      BY <2>1, <3>1
    <3>2. CASE World
      <4>1. CASE Apply
        BY <2>1, <4>1 DEF Apply, PR
      <4>2. ASSUME NEW q \in Repos, HumanMerge(q) PROVE FALSE
        <5>1. pr'[q].by = "human"
          BY <2>1, <4>2, LandedFacts DEF HumanMerge
        <5>2. q # r => pr'[r] = pr[r]
          BY <2>1, <4>2 DEF HumanMerge
        <5> QED BY <2>1, <5>1, <5>2
      <4>3. ASSUME NEW q \in Repos, Push(q) \/ ForgeClose(q) \/ ReleaseJob(q) PROVE FALSE
        BY <2>1, <4>3 DEF Push, ForgeClose, ReleaseJob, PR
      <4> QED BY <2>1, <3>2, <4>1, <4>2, <4>3 DEF World, Timeout, TimerUnpark, MirrorSync
    <3> QED BY <3>1, <3>2 DEF Next, Submit, SubmitShipped, Reviewing, ReviewOutcome,
         ReviewApproved, StampReviewed, StampForeign, AdvanceAfterReview, FinalizeAtReview,
         ChangesRequested, BeginPass, Merging, Abort, Deploying, SkipMerged, NoMergeRequest,
         ReadHead, HeadMoved, FoundMerged, Bounced, MergeWaits, ReadyToMerge, MergeHeadMoved,
         MergeAuthRefused, stampMerged, ReleaseGreen, ReleaseWaits, MergeComplete, Deliver,
         ResolveDeployed, FanoutStalled
  <2>3. pass # NoPass /\ pass.t.cursor \in Nat
    BY <2>2, PassParts DEF Merge, At, IInv
  <2> QED BY <2>3 DEF IInv, PassCursor, MergedUpTo
<1> QED BY <1>1, Invariance, PTL DEF Spec, LandsInOrder

----------------------------------------------------------------------------
(* The driver keeps the promise of module TrainPromise. *)

forge == [r \in Repos |-> [st |-> pr[r].st, head |-> pr[r].head, by |-> pr[r].by]]

\* Only delivery makes a Task done, and nothing undoes it.
SameEnd == (task'.stage = "done") <=> (task.stage = "done")

\* Enter makes a Task done only where it is asked to.
LEMMA EnterSameEnd ==
  ASSUME NEW t \in Task, NEW to \in Stages \ {"done"}
  PROVE  Enter(t, to).stage = "done" <=> t.stage = "done"
BY DEF Enter, Task, LegalMoves

\* No step but Deliver makes a Task done.
LEMMA OthersSameEnd ==
  ASSUME IInv, Next, ~Deliver
  PROVE  SameEnd
<1>0. task \in Task
  BY DEF IInv, TypeOK
<1>1. CASE Submit \/ SubmitShipped
  <2>1. PICK order \in Orders :
          task' \in {[task EXCEPT !.order = order],
                     Enter([task EXCEPT !.order = order], "awaiting-review"),
                     Enter([task EXCEPT !.order = order], "merged")}
    BY <1>1 DEF Submit, SubmitShipped
  <2>2. [task EXCEPT !.order = order] \in Task /\ [task EXCEPT !.order = order].stage = task.stage
    BY <1>0 DEF Task
  <2>3. \A to \in {"awaiting-review", "merged"} :
          Enter([task EXCEPT !.order = order], to).stage = "done" <=> task.stage = "done"
    BY <2>2, EnterSameEnd DEF Stages
  <2> QED BY <2>1, <2>2, <2>3 DEF SameEnd
<1>2. CASE AdvanceAfterReview \/ FinalizeAtReview
  BY <1>0, <1>2, EnterSameEnd DEF AdvanceAfterReview, FinalizeAtReview, SameEnd, Stages
<1>3. CASE ChangesRequested
  <2>1. Enter(task, "under-implementation") \in Task
    BY <1>0, EnterFacts DEF Stages
  <2>2. task'.stage = Enter(task, "under-implementation").stage
    BY <1>3, <2>1 DEF ChangesRequested, Task
  <2> QED BY <1>0, <2>2, EnterSameEnd DEF SameEnd, Stages
<1>4. CASE UNCHANGED task
  BY <1>4 DEF SameEnd
<1>5. CASE World
  BY <1>0, <1>5 DEF World, Timeout, TimerUnpark, Apply, Push, HumanMerge, ForgeClose, MirrorSync,
     ReleaseJob, SameEnd, Task
<1>6. CASE \E r \in Repos : FanoutStalled(r)
  BY <1>0, <1>6, ParkFacts DEF FanoutStalled, SameEnd, Parks
<1>7. CASE pass # NoPass /\ Merging
  <2>0. pass.cur \in Nat /\ pass.t.moves \in Nat
    BY <1>7, PassParts DEF IInv
  <2>1. ASSUME NEW class \in Parks, ParkTask(class) PROVE SameEnd
    BY <1>0, <2>1, ParkFacts DEF ParkTask, SameEnd
  <2>2. ASSUME NEW moves \in Nat, NEW to \in Targets, EnterWithCursor([task EXCEPT !.moves = moves], to)
        PROVE  SameEnd
    <3>1. /\ WithCursor([task EXCEPT !.moves = moves]) \in Task
          /\ WithCursor([task EXCEPT !.moves = moves]).stage = task.stage
      BY <1>0, <2>0 DEF WithCursor, Task
    <3> QED BY <2>2, <3>1, EnterSameEnd DEF EnterWithCursor, SameEnd, Stages, Targets
  <2>3. ASSUME NEW to \in Targets, EnterWithCursor(task, to) PROVE SameEnd
    <3>1. task.moves \in Nat /\ task = [task EXCEPT !.moves = task.moves]
      BY <1>0 DEF Task
    <3> QED BY <2>2, <2>3, <3>1
  <2>4. CASE Stall
    BY <1>0, <2>0, <2>4 DEF Stall, WithCursor, Task, SameEnd
  <2>5. CASE headMoved
    BY <2>0, <2>1, <2>2, <2>5, <1>4 DEF headMoved, Parks, Targets
  <2>6. CASE Bounced
    <3>1. CASE task' = Enter(task, "under-implementation")
      BY <1>0, <3>1, EnterSameEnd DEF SameEnd, Stages
    <3> QED BY <2>1, <2>3, <2>6, <3>1 DEF Bounced, Parks, Targets
  <2> QED BY <1>4, <1>7, <2>1, <2>3, <2>4, <2>5, <2>6
          DEF Merging, SkipMerged, NoMergeRequest, ReadHead, HeadMoved, FoundMerged, MergeWaits,
              ReadyToMerge, Merge, MergeHeadMoved, MergeAuthRefused, stampMerged, ReleaseGreen,
              ReleaseWaits, MergeComplete, Parks, Targets
<1>8. Merging => pass # NoPass
  BY DEF Merging, SkipMerged, NoMergeRequest, ReadHead, HeadMoved, FoundMerged, Bounced, MergeWaits,
     ReadyToMerge, Merge, MergeHeadMoved, MergeAuthRefused, stampMerged, ReleaseGreen, ReleaseWaits,
     MergeComplete, AtRepo, Unmerged, At
<1> QED BY <1>1, <1>2, <1>3, <1>4, <1>5, <1>6, <1>7, <1>8
        DEF Next, Reviewing, ReviewOutcome, ReviewApproved, StampReviewed, StampForeign, BeginPass,
            Abort, Deploying, ResolveDeployed

\* Only these steps are seen from the forge.
LEMMA OthersUnseen ==
  ASSUME IInv, Next, ~Deliver, ~ReviewOutcome, ~Merge,
         \A r \in Repos : ~ReviewApproved(r),
         \A r \in Repos : ~Push(r) /\ ~HumanMerge(r) /\ ~ForgeClose(r)
  PROVE  forge' = forge /\ reviewed' = reviewed
<1>0. pr \in [Repos -> PR]
  BY DEF IInv, TypeOK
<1>1. CASE pr' = pr
  BY <1>1 DEF forge, Next, Submit, SubmitShipped, Reviewing, StampReviewed, StampForeign,
     AdvanceAfterReview, FinalizeAtReview, ChangesRequested, BeginPass, Merging, Abort, Deploying, World, SkipMerged, NoMergeRequest, ReadHead, HeadMoved, FoundMerged,
     Bounced, MergeWaits, ReadyToMerge, MergeHeadMoved, MergeAuthRefused, stampMerged, ReleaseGreen,
     ReleaseWaits, MergeComplete, Deliver, ResolveDeployed, FanoutStalled, Timeout, TimerUnpark,
     Apply, MirrorSync, ReleaseJob
<1>2. CASE Apply
  <2>1. \A r \in Repos : pr'[r].st = pr[r].st /\ pr'[r].head = pr[r].head /\ pr'[r].by = pr[r].by
    BY <1>0, <1>2 DEF Apply, PR
  <2> QED BY <1>2, <2>1 DEF Apply, forge
<1>3. ASSUME NEW q \in Repos, ReleaseJob(q) PROVE forge' = forge /\ reviewed' = reviewed
  <2>1. \A r \in Repos : pr'[r].st = pr[r].st /\ pr'[r].head = pr[r].head /\ pr'[r].by = pr[r].by
    BY <1>0, <1>3 DEF ReleaseJob, PR
  <2> QED BY <1>3, <2>1 DEF ReleaseJob, forge
<1>4. pr' = pr \/ Apply \/ \E q \in Repos : ReleaseJob(q)
  BY DEF Next, Submit, SubmitShipped, Reviewing, StampReviewed, StampForeign,
     AdvanceAfterReview, FinalizeAtReview, ChangesRequested, BeginPass, Merging, Abort, Deploying, World, SkipMerged, NoMergeRequest, ReadHead, HeadMoved, FoundMerged,
     Bounced, MergeWaits, ReadyToMerge, MergeHeadMoved, MergeAuthRefused, stampMerged, ReleaseGreen,
     ReleaseWaits, MergeComplete, ResolveDeployed, FanoutStalled, Timeout, TimerUnpark, MirrorSync
<1> QED BY <1>1, <1>2, <1>3, <1>4

\* A merge, as it is seen from the forge.
LEMMA Landing ==
  ASSUME pr \in [Repos -> PR], NEW r \in Repos, NEW who \in {"train", "human"},
         pr' = [pr EXCEPT ![r] = Released(r, Landed(@, who))]
  PROVE  forge' = [forge EXCEPT ![r].st = "merged", ![r].by = who]
<1>1. /\ pr'[r].st = "merged" /\ pr'[r].by = who /\ pr'[r].head = pr[r].head
      /\ \A q \in Repos \ {r} : pr'[q] = pr[q]
  BY LandedFacts
<1> QED BY <1>1 DEF forge

\* Every step is a step of the promise, or is not seen from the forge.
LEMMA StepKeepsPromise == IInv /\ [Next]_vars => [Promise!Next]_(Promise!vars)
<1> SUFFICES ASSUME IInv, [Next]_vars PROVE [Promise!Next]_(Promise!vars)
  OBVIOUS
<1>0. task \in Task /\ pr \in [Repos -> PR]
  BY DEF IInv, TypeOK
<1>1. CASE Deliver
  <2>1. \A r \in Repos : pr[r].st = "merged"
    BY <1>1 DEF Deliver, IInv, GateReviewed, TellsTrue
  <2>2. CASE task'.stage = "done"
    BY <1>1, <2>1, <2>2 DEF Deliver, Promise!Next, Promise!Deliver
  <2>3. CASE task'.stage # "done"
    <3>1. task.stage # "done"
      BY <1>1 DEF Deliver
    <3> QED BY <1>1, <2>3, <3>1 DEF Deliver, Promise!vars
  <2> QED BY <2>2, <2>3
<1>2. CASE ReviewOutcome \/ \E r \in Repos : ReviewApproved(r)
  <2>1. PICK commits \in SUBSET UNION {{r} \X (1..pr[r].head) : r \in Repos} :
          reviewed' = reviewed \cup commits
    <3>1. CASE ReviewOutcome
      <4>1. \A r \in Repos : pr[r].head \in 1..pr[r].head
        BY <1>0, TrainAssumption DEF PR, Heads
      <4>2. {<<r, pr[r].head>> : r \in OpenRepos(mr)}
              \in SUBSET UNION {{r} \X (1..pr[r].head) : r \in Repos}
        BY <4>1 DEF OpenRepos
      <4> QED BY <3>1, <4>2 DEF ReviewOutcome
    <3>2. ASSUME NEW r \in Repos, ReviewApproved(r)
          PROVE  \E commits \in SUBSET UNION {{q} \X (1..pr[q].head) : q \in Repos} :
                   reviewed' = reviewed \cup commits
      <4>1. PICK head \in 1..pr[r].head : reviewed' = reviewed \cup {<<r, head>>}
        BY <3>2 DEF ReviewApproved
      <4>2. {<<r, head>>} \in SUBSET UNION {{q} \X (1..pr[q].head) : q \in Repos}
        OBVIOUS
      <4> QED BY <4>1, <4>2
    <3> QED BY <1>2, <3>1, <3>2
  <2>2. UNCHANGED <<task, pr>>
    BY <1>2 DEF ReviewOutcome, ReviewApproved
  <2>3. \A r \in Repos : forge[r].head = pr[r].head
    BY DEF forge
  <2> QED BY <2>1, <2>2, <2>3 DEF forge, Promise!Next, Promise!Review
<1>3. ASSUME NEW r \in Repos, Push(r) \/ HumanMerge(r) \/ ForgeClose(r)
      PROVE  Promise!Push(r) \/ Promise!Settle(r)
  <2>1. CASE Push(r)
    BY <1>0, <1>3, <2>1 DEF Push, PR, Promise!Push, Promise!Open
  <2>2. CASE HumanMerge(r)
    <3>1. forge' = [forge EXCEPT ![r].st = "merged", ![r].by = "human"]
      BY <1>0, <1>3, <2>2, Landing DEF HumanMerge
    <3> QED BY <1>3, <2>2, <3>1 DEF HumanMerge, forge, Promise!Settle, Promise!Open
  <2>3. CASE ForgeClose(r)
    BY <1>0, <1>3, <2>3 DEF ForgeClose, PR, Promise!Settle, Promise!Open
  <2> QED BY <1>3, <2>1, <2>2, <2>3
<1>4. CASE Merge
  <2>1. PICK r \in Repos : r = repo /\ <<r, pr[r].head>> \in reviewed /\ pr[r].st = "open"
    BY <1>4, RepoInRepos DEF Merge, At, IInv, PassReviewed
  <2>2. forge' = [forge EXCEPT ![r].st = "merged", ![r].by = "train"]
    BY <1>0, <1>4, <2>1, Landing DEF Merge
  <2>3. Promise!Land(r)
    BY <1>4, <2>1, <2>2 DEF Merge, forge, Promise!Land, Promise!Open
  <2> QED BY <2>3 DEF Promise!Next
<1>5. CASE Next /\ ~Deliver /\ ~ReviewOutcome /\ ~Merge
             /\ \A r \in Repos : ~ReviewApproved(r) /\ ~Push(r) /\ ~HumanMerge(r) /\ ~ForgeClose(r)
  BY <1>5, OthersUnseen, OthersSameEnd DEF SameEnd, forge, Promise!vars
<1>6. CASE UNCHANGED vars
  BY <1>6 DEF vars, Promise!vars
<1> QED BY <1>1, <1>2, <1>3, <1>4, <1>5, <1>6 DEF Promise!Next

\* The merge train implements what it promises: StageDriver's passes, mirrors,
\* cursor and parks are invisible from the forge.
THEOREM TrainKeepsPromise == Spec => TrainPromised
<1>1. Init => Promise!Init
  BY DEF Init, Promise!Init
<1> QED BY <1>1, StepKeepsPromise, Invariance, PTL DEF Spec, TrainPromised, Promise!Spec
============================================================================

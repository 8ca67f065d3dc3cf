------------------------ MODULE MemoryStack_proofs ------------------------
(***************************************************************************)
(* Proofs about module MemoryStack: for any number of pushes, switches,    *)
(* faults and deaths of the operator, what was ingested is kept.  The      *)
(* argument: deleting the cnpg cluster takes the volumes only it owns, and *)
(* the pass has stripped the references of every volume by then, which     *)
(* stay off unless a volume was written in between; and a commit is        *)
(* recorded, or an incremental Job named after one, only when a full       *)
(* ingest filled volumes that exist.                                       *)
(***************************************************************************)
EXTENDS MemoryStack, TLAPS, FiniteSetTheorems, WellFoundedInduction

Volume == [there : BOOLEAN, refs : SUBSET {"Project", "Cluster"},
           retained : BOOLEAN, data : BOOLEAN]

RepoFields == {"phase", "commit", "job", "fails", "stamp", "asked", "sameSecond"}
JobFields == {"name", "st", "sha", "fit"}

\* The shape of the objects, as far as the argument needs it.
Shapes ==
  /\ vol \in [Volumes -> Volume]
  /\ DOMAIN repo = RepoFields
  /\ \A j \in jobs : DOMAIN j = JobFields

\* What serves has its volume.
Anchored == up \subseteq objs /\ \A v \in Volumes : v \in up => vol[v].there

\* Something says that a full ingest was done.
Ingested == repo.commit # 0 \/ cm # 0 \/ \E j \in jobs : j.name.since # 0

Full == \A v \in Volumes : vol[v].there /\ vol[v].data

\* A teardown that is about to delete has let go of every volume.
Stripped == pass # 0 /\ ~taken => \A v \in Volumes : vol[v].there => vol[v].refs = {}

Kept == ~taken /\ Ingested => Full

IInv == Shapes /\ Anchored /\ Stripped /\ Kept

----------------------------------------------------------------------------
\* The invariant holds of a new Project and of one that has been running.
LEMMA InitIInv == Init => IInv
<1> SUFFICES ASSUME Init PROVE IInv
  OBVIOUS
<1>1. PICK c \in Cases :
        /\ jobs = {} /\ pass = 0
        /\ IF c.from = "new"
           THEN /\ objs = {} /\ up = {} /\ cm = 0
                /\ vol = [v \in Volumes |-> NewVolume]
                /\ repo = NewRepo
           ELSE /\ objs = Parts /\ up = Serving
                /\ vol = [v \in Volumes |-> [there |-> TRUE, retained |-> FALSE, data |-> TRUE,
                                             refs |-> IF v = "pg" THEN {"Cluster"} ELSE {}]]
                /\ repo = [NewRepo EXCEPT !.commit = 1,
                                          !.phase = IF c.from = "legacy" THEN "Failed" ELSE "Ingested"]
  BY DEF Init
<1>2. Serving \subseteq Parts
  BY DEF Serving, Parts, ApplyOrder
<1>3. CASE c.from = "new"
  <2>1. /\ jobs = {} /\ up = {} /\ cm = 0 /\ vol = [v \in Volumes |-> NewVolume] /\ repo = NewRepo
    BY <1>1, <1>3
  <2>2. NewVolume \in Volume
    BY DEF NewVolume, Volume
  <2>3. DOMAIN NewRepo = RepoFields /\ NewRepo.commit = 0
    BY DEF NewRepo, RepoFields
  <2>4. Shapes
    BY <2>1, <2>2, <2>3 DEF Shapes
  <2> QED BY <1>1, <2>1, <2>3, <2>4 DEF IInv, Anchored, Stripped, Kept, Ingested
<1>4. CASE c.from # "new"
  <2>1. /\ jobs = {} /\ objs = Parts /\ up = Serving
        /\ vol = [v \in Volumes |-> [there |-> TRUE, retained |-> FALSE, data |-> TRUE,
                                     refs |-> IF v = "pg" THEN {"Cluster"} ELSE {}]]
        /\ repo = [NewRepo EXCEPT !.commit = 1,
                                  !.phase = IF c.from = "legacy" THEN "Failed" ELSE "Ingested"]
    BY <1>1, <1>4
  <2>2. DOMAIN repo = RepoFields
    BY <2>1 DEF NewRepo, RepoFields
  <2>3. vol \in [Volumes -> Volume] /\ Full
    BY <2>1 DEF Volume, Full
  <2> QED BY <1>1, <1>2, <2>1, <2>2, <2>3 DEF IInv, Shapes, Anchored, Stripped, Kept, Full
<1> QED BY <1>3, <1>4

\* A step of the Repository's side that keeps the shapes and learns of no
\* ingest that was not done.
LEMMA IngestStep ==
  ASSUME IInv, ~taken /\ Ingested' => Ingested \/ Full,
         DOMAIN repo' = DOMAIN repo,
         \A j \in jobs' : DOMAIN j = JobFields,
         UNCHANGED <<objs, up, vol, pass, taken>>
  PROVE  IInv'
BY DEF IInv, Shapes, Anchored, Stripped, Kept, Full

\* Every pass of the Repository's reconciler, and what stamps its annotation.
LEMMA RepositoryKeeps ==
  ASSUME IInv, \/ reconcileRepository \/ scheduleNextReingest \/ handlePush \/ helmApply \/ nextSecond
  PROVE  IInv'
<1>0. DOMAIN repo = RepoFields
  BY DEF IInv, Shapes
<1>1. /\ DOMAIN current = DOMAIN repo /\ current.commit = repo.commit
      /\ DOMAIN open = DOMAIN repo /\ open.commit = repo.commit
  BY <1>0 DEF RepoFields, current, open, repairStaleFailedPhase
<1>2. CASE applyResult
  <2>1. PICK j \in jobs, cleared \in BOOLEAN :
          /\ j.st = "done" => cm # 0
          /\ repo' = handleFinishedJob(repairStaleFailedPhase(repo), j, cleared)
          /\ jobs' = jobs \ {j}
          /\ UNCHANGED <<objs, up, vol, pass, taken, cm>>
    BY <1>2 DEF applyResult, JobNamed, stackVars
  <2>2. DOMAIN repo' = DOMAIN repo /\ (repo'.commit # 0 => repo.commit # 0 \/ cm # 0)
    BY <1>0, <2>1 DEF RepoFields, handleFinishedJob, repairStaleFailedPhase
  <2> QED BY <2>1, <2>2, IngestStep DEF IInv, Shapes, Ingested
<1>3. CASE memoryDisabled \/ memoryGated \/ idlePass \/ scheduleNextReingest \/ helmApply \/ nextSecond
  <2>1. DOMAIN repo' = DOMAIN repo /\ repo'.commit = repo.commit
    BY <1>0, <1>1, <1>3 DEF RepoFields, memoryDisabled, memoryGated, idlePass, scheduleNextReingest, helmApply,
       nextSecond, stamped
  <2>2. UNCHANGED <<objs, up, vol, pass, taken, jobs, cm>>
    BY <1>3 DEF memoryDisabled, memoryGated, idlePass, scheduleNextReingest, helmApply, nextSecond,
       stackVars, ingestVars
  <2> QED BY <2>1, <2>2, IngestStep DEF IInv, Shapes, Ingested
<1>4. CASE \E end \in {"done", "reset", "created"} : launch(end)
  <2>1. DOMAIN repo' = DOMAIN repo /\ repo'.commit = repo.commit /\ cm' = 0 /\ UNCHANGED <<objs, up, vol, pass, taken>>
    BY <1>0, <1>1, <1>4 DEF RepoFields, launch, stackVars
  <2>2. JobName(open).since # 0 => repo.commit # 0
    BY <1>1 DEF JobName, ingestSince
  <2>3. jobs' \subseteq jobs \cup {[name |-> JobName(open), st |-> "new", sha |-> 0, fit |-> TRUE]}
    BY <1>4 DEF launch
  <2> QED BY <2>1, <2>2, <2>3, IngestStep DEF IInv, Shapes, Ingested, JobFields
<1>5. CASE handlePush
  <2>1. DOMAIN repo' = DOMAIN repo /\ repo'.commit = repo.commit /\ UNCHANGED <<objs, up, vol, pass, taken, jobs, cm>>
    BY <1>0, <1>5 DEF RepoFields, handlePush, stamped, stackVars
  <2> QED BY <2>1, IngestStep DEF IInv, Shapes, Ingested
<1> QED BY <1>2, <1>3, <1>4, <1>5 DEF reconcileRepository

\* A full ingest fills volumes that exist; an incremental one follows one.
LEMMA JobKeeps == ASSUME IInv, jobStep \/ jobExpires PROVE IInv'
<1>1. ASSUME NEW j \in jobs, NEW k, DOMAIN k = DOMAIN j, k.name = j.name,
             Update(j, k), UNCHANGED <<objs, up, vol, pass, taken, repo, cm>>
      PROVE  IInv'
  BY <1>1, IngestStep DEF Update, IInv, Shapes, Ingested
<1>2. ASSUME NEW j \in jobs, clone(j) PROVE IInv'
  <2>1. DOMAIN j = JobFields
    BY <1>2 DEF IInv, Shapes
  <2> DEFINE k == [j EXCEPT !.st = "cloned", !.sha = Tip, !.fit = j.name.since \in hist \cup {0}]
  <2>2. DOMAIN k = DOMAIN j /\ k.name = j.name
    BY <2>1 DEF JobFields
  <2>3. Update(j, k) /\ UNCHANGED <<objs, up, vol, pass, taken, repo, cm>>
    BY <1>2 DEF clone, stackVars
  <2> HIDE DEF k
  <2> QED BY <1>1, <2>2, <2>3
<1>3. ASSUME NEW j \in jobs, fail(j) PROVE IInv'
  <2>1. DOMAIN j = JobFields
    BY <1>3 DEF IInv, Shapes
  <2> DEFINE k == [j EXCEPT !.st = "failed"]
  <2>2. DOMAIN k = DOMAIN j /\ k.name = j.name
    BY <2>1 DEF JobFields
  <2>3. Update(j, k) /\ UNCHANGED <<objs, up, vol, pass, taken, repo, cm>>
    BY <1>3 DEF fail, stackVars
  <2> HIDE DEF k
  <2> QED BY <1>1, <2>2, <2>3
<1>4. ASSUME NEW j \in jobs, finish(j) PROVE IInv'
  <2>0. DOMAIN j = JobFields /\ vol \in [Volumes -> Volume]
    BY <1>4 DEF IInv, Shapes
  <2>1. /\ jobs' = (jobs \ {j}) \cup {[j EXCEPT !.st = "done"]}
        /\ UNCHANGED <<objs, up, pass, taken, repo>>
    BY <1>4 DEF finish, Update
  <2>2. \A k \in jobs' : DOMAIN k = JobFields
    BY <2>0, <2>1 DEF IInv, Shapes
  <2>3. CASE j.name.since = 0
    <3>1. \A v \in Volumes : v \in up
      BY <1>4 DEF finish, Serving, Volumes
    <3>2. vol' = [v \in Volumes |-> [vol[v] EXCEPT !.data = TRUE]]
      BY <1>4, <2>3 DEF finish
    <3>3. ASSUME NEW v \in Volumes
          PROVE  vol'[v] \in Volume /\ vol'[v].there /\ vol'[v].data /\ vol'[v].refs = vol[v].refs
      <4>1. vol[v] \in Volume /\ vol[v].there
        BY <2>0, <3>1 DEF IInv, Anchored
      <4>2. vol'[v] = [vol[v] EXCEPT !.data = TRUE]
        BY <3>2
      <4> QED BY <4>1, <4>2 DEF Volume
    <3>4. vol' \in [Volumes -> Volume]
      BY <3>2, <3>3
    <3>5. Shapes'
      BY <2>1, <2>2, <3>4 DEF IInv, Shapes
    <3>6. Anchored'
      BY <2>1, <3>3 DEF IInv, Anchored
    <3>7. Full'
      BY <3>3 DEF Full
    <3>8. Stripped'
      BY <2>1, <3>1, <3>3 DEF IInv, Anchored, Stripped
    <3> QED BY <3>5, <3>6, <3>7, <3>8 DEF IInv, Kept
  <2>4. CASE j.name.since # 0
    <3>1. (~taken => Full) /\ UNCHANGED vol
      BY <1>4, <2>4 DEF finish, IInv, Kept, Ingested
    <3> QED BY <2>1, <2>2, <3>1, IngestStep DEF IInv
  <2> QED BY <2>3, <2>4
<1>5. ASSUME NEW j \in jobs, expire(j) PROVE IInv'
  BY <1>5, IngestStep DEF expire, stackVars, IInv, Shapes, Ingested
<1> QED BY <1>2, <1>3, <1>4, <1>5 DEF jobStep, jobExpires

----------------------------------------------------------------------------
\* A step of the stack's side: no volume is lost or emptied, only what has its
\* volume comes up, and a teardown under way finds the volumes as they were.
LEMMA StackStep ==
  ASSUME IInv,
         vol' \in [Volumes -> Volume],
         \A v \in Volumes : /\ vol[v].there => vol'[v].there
                            /\ vol'[v].data = vol[v].data,
         up' \subseteq objs',
         \A v \in Volumes : v \in up' => v \in up \/ vol'[v].there,
         taken => taken', Stripped',
         UNCHANGED <<repo, jobs, cm>>
  PROVE  IInv'
<1>1. Shapes'
  BY DEF IInv, Shapes
<1>2. Anchored'
  BY DEF IInv, Anchored
<1>3. Kept'
  BY DEF IInv, Ingested, Full, Kept
<1> QED BY <1>1, <1>2, <1>3 DEF IInv

\* A volume that was retained or adopted is the volume it was but for its
\* owners.
LEMMA SameVolume ==
  ASSUME NEW v \in Volume
  PROVE  /\ retainObject(v) \in Volume /\ retainObject(v).refs = {}
         /\ retainObject(v).there = v.there /\ retainObject(v).data = v.data
         /\ adoptRetainedObject(v) \in Volume
         /\ adoptRetainedObject(v).there = v.there /\ adoptRetainedObject(v).data = v.data
BY DEF Volume, retainObject, adoptRetainedObject

\* The passes of the Project's reconciler, whole or cut short.
LEMMA MemoryKeeps == ASSUME IInv, reconcileMemory PROVE IInv'
<1>0. vol \in [Volumes -> Volume] /\ up \subseteq objs
  BY DEF IInv, Shapes, Anchored
<1>1. ASSUME NEW S \in SUBSET Volumes, NEW end \in {"done", "error", "crash"}, disableMemory(S, end)
      PROVE  IInv'
  <2>1. /\ vol' = retainMemoryData(S) /\ (pass' # 0 => S = Volumes)
        /\ UNCHANGED <<objs, up, taken, repo, jobs, cm>>
    <3>1. pass = 0 /\ (end = "done" => S = Volumes) /\ (end # "done" => pass' = pass)
      BY <1>1 DEF disableMemory
    <3> QED BY <1>1, <3>1 DEF disableMemory, ingestVars
  <2>2. ASSUME NEW v \in Volumes
        PROVE  /\ vol'[v] \in Volume /\ vol'[v].there = vol[v].there /\ vol'[v].data = vol[v].data
               /\ v \in S /\ vol'[v].there => vol'[v].refs = {}
    <3>1. vol[v] \in Volume
      BY <1>0
    <3>2. vol'[v] = IF v \in S /\ vol[v].there THEN retainObject(vol[v]) ELSE vol[v]
      BY <2>1 DEF retainMemoryData
    <3> QED BY <3>1, <3>2, SameVolume
  <2>3. vol' \in [Volumes -> Volume]
    <3>1. vol' = [v \in Volumes |-> vol'[v]]
      BY <2>1 DEF retainMemoryData
    <3> QED BY <2>2, <3>1
  <2>4. Stripped'
    BY <2>1, <2>2 DEF Stripped
  <2> QED BY <1>0, <2>1, <2>2, <2>3, <2>4, StackStep
<1>7. ASSUME NEW k \in 0 .. Len(DeleteOrder), NEW end \in {"done", "error", "crash"}, deleteStack(k, end)
      PROVE  IInv'
  <2> DEFINE gone == Prefix(DeleteOrder, k)
  <2>1. /\ pass # 0 /\ pass' = 0
        /\ vol' = cascade(vol, gone)
        /\ objs' = objs \ gone /\ up' = up \ gone
        /\ UNCHANGED <<taken, repo, jobs, cm>>
    BY <1>7 DEF deleteStack, tearDownMemoryStack, ingestVars
  <2>0. "pg" \in gone => Volumes \subseteq gone
    BY DEF Prefix, DeleteOrder, Volumes
  <2> HIDE DEF gone
  <2>2. NewVolume \in Volume
    BY DEF NewVolume, Volume
  <2>3. ASSUME NEW v \in Volumes
        PROVE  /\ vol'[v] \in Volume
               /\ "pg" \notin gone \/ (~taken /\ vol[v].there) => vol'[v] = vol[v]
    <3>1. vol'[v] = IF "pg" \in gone /\ vol[v].refs = {"Cluster"} THEN NewVolume ELSE vol[v]
      BY <2>1 DEF cascade
    <3>2. ~taken /\ vol[v].there => vol[v].refs = {}
      BY <2>1 DEF IInv, Stripped
    <3> QED BY <1>0, <2>2, <3>1, <3>2
  <2>4. vol' \in [Volumes -> Volume]
    <3>1. vol' = [v \in Volumes |-> vol'[v]]
      BY <2>1 DEF cascade
    <3> QED BY <2>3, <3>1
  <2>5. Shapes'
    BY <2>1, <2>4 DEF IInv, Shapes
  <2>6. Anchored'
    <3>1. ASSUME NEW v \in Volumes, v \in up' PROVE vol'[v].there
      <4>1. v \in up /\ v \notin gone /\ vol[v].there
        BY <2>1, <3>1 DEF IInv, Anchored
      <4> QED BY <2>0, <2>3, <4>1
    <3> QED BY <2>1, <3>1 DEF IInv, Anchored
  <2>7. Kept'
    BY <2>1, <2>3 DEF IInv, Kept, Ingested, Full
  <2>8. Stripped'
    BY <2>1 DEF Stripped
  <2> QED BY <2>5, <2>6, <2>7, <2>8 DEF IInv
<1>2. ASSUME NEW S \in SUBSET Volumes, vol' = adoptRetainedMemoryPVCs(S) \/ vol' = vol,
             objs \subseteq objs', pass = 0, UNCHANGED <<up, pass, taken, repo, jobs, cm>>
      PROVE  IInv'
  <2>1. ASSUME NEW v \in Volumes
        PROVE  vol'[v] \in Volume /\ vol'[v].there = vol[v].there /\ vol'[v].data = vol[v].data
    BY <1>0, <1>2, SameVolume DEF adoptRetainedMemoryPVCs
  <2>2. vol' \in [Volumes -> Volume]
    BY <1>0, <1>2, <2>1 DEF adoptRetainedMemoryPVCs
  <2>3. Stripped'
    BY <1>2 DEF Stripped
  <2> QED BY <1>0, <1>2, <2>1, <2>2, <2>3, StackStep
<1>3. ASSUME NEW S \in SUBSET Volumes, NEW end \in {"error", "crash"}, adoptFails(S, end) PROVE IInv'
  BY <1>2, <1>3 DEF adoptFails, ingestVars
<1>4. RetainedVolumes \in SUBSET Volumes /\ (adopted = adoptRetainedMemoryPVCs(RetainedVolumes) \/ adopted = vol)
  BY DEF RetainedVolumes, adopted
<1>5. ASSUME NEW k \in 0 .. Len(ApplyOrder), NEW end \in {"transient", "error", "crash"}, applyFails(k, end)
      PROVE  IInv'
  BY <1>2, <1>4, <1>5 DEF applyFails, applyMemoryStack, ingestVars
<1>6. ASSUME NEW read \in BOOLEAN, applySucceeds(read) PROVE IInv'
  BY <1>2, <1>4, <1>6 DEF applySucceeds, applyMemoryStack, ingestVars
<1> QED BY <1>1, <1>3, <1>5, <1>6, <1>7 DEF reconcileMemory

\* cnpg and the StatefulSet make volumes, what was applied comes up, and a
\* part may go down.
LEMMA ClusterKeeps == ASSUME IInv, start \/ \E p \in Serving : outage(p) PROVE IInv'
<1>0. vol \in [Volumes -> Volume] /\ up \subseteq objs
  BY DEF IInv, Shapes, Anchored
<1>1. CASE start
  <2>1. /\ UNCHANGED <<objs, pass, repo, jobs, cm>> /\ up' = objs \cap Serving
        /\ taken' = (taken \/ (pass # 0 /\ vol' # vol))
    BY <1>1 DEF start, ingestVars
  <2>2. ASSUME NEW v \in Volumes
        PROVE  /\ vol'[v] \in Volume /\ vol'[v].data = vol[v].data
               /\ (vol[v].there \/ v \in objs => vol'[v].there)
    <3>1. vol[v] \in Volume
      BY <1>0
    <3>2. vol'[v] = IF v \notin objs THEN vol[v]
                    ELSE [vol[v] EXCEPT !.there = TRUE, !.refs = IF v = "pg" THEN @ \cup {"Cluster"} ELSE @]
      BY <1>1 DEF start
    <3> QED BY <3>1, <3>2, ZenonT(30) DEF Volume
  <2>3. vol' \in [Volumes -> Volume]
    <3>1. vol' = [v \in Volumes |-> vol'[v]]
      BY <1>1 DEF start
    <3> QED BY <2>2, <3>1
  <2>4. Stripped'
    BY <2>1 DEF IInv, Stripped
  <2> QED BY <2>1, <2>2, <2>3, <2>4, StackStep
<1>2. ASSUME NEW p \in Serving, outage(p) PROVE IInv'
  BY <1>0, <1>2, StackStep DEF outage, ingestVars, IInv, Stripped
<1> QED BY <1>1, <1>2

----------------------------------------------------------------------------
\* Every step keeps the invariant.
LEMMA NextIInv == IInv /\ [Next]_vars => IInv'
<1> SUFFICES ASSUME IInv, [Next]_vars PROVE IInv'
  OBVIOUS
<1>1. ASSUME UNCHANGED <<objs, up, vol, pass, taken, repo, jobs, cm>> PROVE IInv'
  BY <1>1 DEF IInv, Shapes, Anchored, Stripped, Kept, Ingested, Full
<1>2. CASE flip \/ stabilises \/ UNCHANGED vars
  BY <1>1, <1>2 DEF flip, stabilises, stackVars, ingestVars, vars
<1> QED BY <1>2, RepositoryKeeps, JobKeeps, MemoryKeeps, ClusterKeeps DEF Next

\* What was ingested survives every switch of spec.memory.enabled, for any
\* number of pushes, switches, failed passes and deaths of the operator: as
\* long as the repository has a commit recorded, the postgres and neo4j
\* volumes exist and hold the corpus, unless a volume was written between the
\* retain and the delete of one teardown (disableMemory, retainMemoryData,
\* adoptRetainedMemoryPVCs and the ingest they race with).
THEOREM CorpusIsKept == Spec => []CorpusKept
<1>1. IInv => CorpusKept
  BY DEF IInv, Kept, Ingested, Full, CorpusKept
<1> QED BY InitIInv, NextIInv, <1>1, PTL DEF Spec

----------------------------------------------------------------------------
(* Types.  TypeOK is not inductive: a head is within bounds because each   *)
(* takes a push from those left, a generation because each takes a switch, *)
(* and a full ingest finds the index there because the stack is applied    *)
(* and deleted in an order: what serves the index goes before it.          *)

Left == [push : Nat, flip : Nat, fault : Nat, crash : Nat]
Commits == 0 .. MaxPushes + 1
Generations == 1 .. MaxFlips + 1
RepoStatus == [phase : RepoPhases, commit : Commits, job : JobNames \cup {NoJob},
               fails : 0 .. MaxFails, stamp : Stamps, asked : BOOLEAN, sameSecond : BOOLEAN]
Job == [name : JobNames, st : {"new", "cloned", "done", "failed"}, sha : Commits, fit : BOOLEAN]

StackKept ==
  /\ pass \in {0} \cup Generations /\ taken \in BOOLEAN
  /\ objs \subseteq Parts /\ up \subseteq objs \cap Serving
  /\ index \in BOOLEAN /\ (index => "index" \in objs)
  /\ "lightrag" \in objs => "index" \in objs

SwitchKept ==
  /\ spec \in [enabled : BOOLEAN, gen : Nat \ {0}] /\ spec.gen + left.flip <= MaxFlips + 1
  /\ mem \in [phase : Phases, ready : {"none", "fresh", "stable"}, dgen : {0} \cup Generations]

HistoryKept ==
  /\ hist \in SUBSET (Nat \ {0}) /\ hist # {}
  /\ \A h \in hist : h + left.push <= MaxPushes + 1

IngestKept == repo \in RepoStatus /\ jobs \subseteq Job /\ cm \in Commits

BoundsAreNumbers == MaxPushes \in Nat /\ MaxFlips \in Nat

TInv ==
  BoundsAreNumbers /\ left \in Left /\ StackKept /\ SwitchKept /\ HistoryKept /\ IngestKept

\* Every set of naturals has a least one.
LEMMA Least ==
  ASSUME NEW S \in SUBSET Nat, S # {}
  PROVE  \E m \in S : \A n \in S : m <= n
<1>1. IsWellFoundedOn(OpToRel(<, Nat), Nat)
  BY NatLessThanWellFounded
<1>2. PICK m \in S : \A n \in S : ~(<<n, m>> \in OpToRel(<, Nat))
  BY <1>1, WFMin
<1>3. \A n \in S : ~(n < m)
  BY <1>2 DEF OpToRel
<1> QED BY <1>3

\* The numbers of a finite set have a bound: a smallest set without one would
\* be smaller still without one of its elements.
LEMMA FiniteIsBounded ==
  ASSUME NEW S, IsFiniteSet(S), NEW f \in [S -> Nat]
  PROVE  \E n \in Nat : \A x \in S : f[x] <= n
<1> DEFINE Bound(T) == \E n \in Nat : \A x \in T : f[x] <= n
           Sizes == {n \in Nat : \E T \in SUBSET S : Cardinality(T) = n /\ ~Bound(T)}
<1> SUFFICES ASSUME ~Bound(S) PROVE FALSE
  OBVIOUS
<1>1. \A T \in SUBSET S : IsFiniteSet(T) /\ Cardinality(T) \in Nat
  BY FS_Subset, FS_CardinalityType
<1>2. Cardinality(S) \in Sizes
  <2> HIDE DEF Bound
  <2> QED BY <1>1
<1>3. PICK m \in Sizes : \A n \in Sizes : m <= n
  <2> HIDE DEF Bound
  <2>1. Sizes \in SUBSET Nat
    OBVIOUS
  <2> HIDE DEF Sizes
  <2> QED BY <1>2, <2>1, Least
<1>4. PICK T \in SUBSET S : Cardinality(T) = m /\ ~Bound(T)
  OBVIOUS
<1>5. T # {}
  <2>1. Bound({})
    BY 0 \in Nat
  <2> HIDE DEF Bound
  <2> QED BY <1>4, <2>1
<1>6. PICK x \in T : TRUE
  BY <1>5
<1> DEFINE U == T \ {x}
<1>7. m \in Nat /\ Cardinality(U) = m - 1 /\ U \in SUBSET S /\ Cardinality(U) \in Nat
  <2>1. m \in Nat
    OBVIOUS
  <2>2. IsFiniteSet(T)
    BY <1>1
  <2>3. Cardinality(U) = m - 1
    BY <1>4, <1>6, <2>2, FS_RemoveElement
  <2> QED BY <1>1, <2>1, <2>3
<1>8. Bound(U)
  <2> SUFFICES ASSUME ~Bound(U) PROVE FALSE
    OBVIOUS
  <2>1. Cardinality(U) \in Sizes
    <3> HIDE DEF Bound, U
    <3> QED BY <1>7
  <2> HIDE DEF Sizes, Bound, U
  <2> QED BY <1>3, <1>7, <2>1
<1>9. PICK b \in Nat : \A y \in U : f[y] <= b
  BY <1>8
<1>10. \A y \in T : f[y] <= IF f[x] <= b THEN b ELSE f[x]
  <2>1. \A y \in T : f[y] \in Nat
    OBVIOUS
  <2> QED BY <1>9, <2>1
<1>11. Bound(T)
  <2>1. (IF f[x] <= b THEN b ELSE f[x]) \in Nat
    BY <1>6
  <2> QED BY <1>10, <2>1
<1> QED BY <1>4, <1>11

\* A set of naturals with a bound has a greatest one.
LEMMA MaxOfBounded ==
  ASSUME NEW S \in SUBSET Nat, S # {}, NEW n \in Nat, \A x \in S : x <= n
  PROVE  Max(S) \in S /\ \A x \in S : x <= Max(S)
<1> DEFINE B == {m \in Nat : \A x \in S : x <= m}
<1>1. PICK m \in B : \A k \in B : m <= k
  <2>1. n \in B /\ B \in SUBSET Nat
    OBVIOUS
  <2> HIDE DEF B
  <2> QED BY <2>1, Least
<1>2. m \in S
  <2> SUFFICES ASSUME m \notin S PROVE FALSE
    OBVIOUS
  <2>1. \A x \in S : x \in Nat /\ x <= m /\ x # m
    OBVIOUS
  <2>2. m # 0 /\ m \in Nat
    <3>1. PICK x \in S : TRUE
      OBVIOUS
    <3> HIDE DEF B
    <3>2. x \in Nat /\ x <= m /\ x # m
      BY <2>1
    <3>3. m \in Nat
      BY <1>1 DEF B
    <3> QED BY <3>2, <3>3
  <2>3. m - 1 \in Nat /\ \A x \in S : x <= m - 1
    BY <2>1, <2>2
  <2>4. m - 1 \in B
    BY <2>3
  <2> HIDE DEF B
  <2> QED BY <1>1, <2>2, <2>4
<1>3. \A x \in S : m >= x
  BY <1>1
<1>4. \E x \in S : \A y \in S : x >= y
  BY <1>2, <1>3
<1>5. Max(S) \in S /\ \A y \in S : Max(S) >= y
  BY <1>4 DEF Max
<1> QED BY <1>5

\* The bounds are those of the case with most pushes, and most switches.
LEMMA CaseBounds ==
  ASSUME NEW c \in Cases
  PROVE  /\ MaxPushes \in Nat /\ c.push \in Nat /\ c.push <= MaxPushes
         /\ MaxFlips \in Nat /\ c.flip \in Nat /\ c.flip <= MaxFlips
<1>1. /\ IsFiniteSet(Cases) /\ \A x \in Cases : x.push \in Nat /\ x.flip \in Nat
  BY MemoryStackAssumption
<1>2. PICK n \in Nat : \A x \in Cases : [y \in Cases |-> y.push][x] <= n
  BY <1>1, FiniteIsBounded
<1>3. PICK m \in Nat : \A x \in Cases : [y \in Cases |-> y.flip][x] <= m
  BY <1>1, FiniteIsBounded
<1> DEFINE P == {x.push : x \in Cases}
           F == {x.flip : x \in Cases}
<1>4. P \in SUBSET Nat /\ P # {} /\ c.push \in P /\ \A x \in P : x <= n
  BY <1>1, <1>2
<1>5. F \in SUBSET Nat /\ F # {} /\ c.flip \in F /\ \A x \in F : x <= m
  BY <1>1, <1>3
<1>6. MaxPushes = Max(P) /\ MaxFlips = Max(F)
  BY DEF MaxPushes, MaxFlips
<1> HIDE DEF P, F
<1> QED BY <1>4, <1>5, <1>6, MaxOfBounded

\* The last head of a history within its bound is one of it.
LEMMA TipInHist ==
  ASSUME TInv
  PROVE  Tip \in hist /\ Tip \in Nat \ {0} /\ Tip \in Commits /\ \A h \in hist : h <= Tip
<1>1. /\ hist \in SUBSET (Nat \ {0}) /\ hist # {} /\ left.push \in Nat /\ MaxPushes \in Nat
      /\ \A h \in hist : h + left.push <= MaxPushes + 1
  BY DEF TInv, HistoryKept, Left, BoundsAreNumbers
<1>2. \A h \in hist : h \in Nat /\ h <= MaxPushes + 1
  BY <1>1
<1>3. hist \in SUBSET Nat /\ MaxPushes + 1 \in Nat
  BY <1>1
<1>4. Tip \in hist /\ \A h \in hist : h <= Tip
  BY <1>1, <1>2, <1>3, MaxOfBounded DEF Tip
<1> QED BY <1>1, <1>2, <1>4 DEF Commits

\* A fault or a death takes no push and no switch from those left.
LEMMA Spent ==
  ASSUME left \in Left, NEW kind \in {"fault", "crash"}, Spend(kind)
  PROVE  left' \in Left /\ left'.push = left.push /\ left'.flip = left.flip
<1>1. left[kind] \in Nat \ {0} /\ left' = [left EXCEPT ![kind] = left[kind] - 1]
  BY DEF Spend, Left
<1>2. left[kind] - 1 \in Nat
  BY <1>1
<1>3. CASE kind = "fault"
  BY <1>1, <1>2, <1>3 DEF Left
<1>4. CASE kind = "crash"
  BY <1>1, <1>2, <1>4 DEF Left
<1> QED BY <1>3, <1>4

\* A stack applied as far as lightrag has its index; an index that is deleted
\* has no lightrag left.
LEMMA OrderOfParts ==
  /\ \A k \in 0 .. Len(ApplyOrder) :
       /\ Prefix(ApplyOrder, k) \subseteq Parts
       /\ "lightrag" \in Prefix(ApplyOrder, k) => "index" \in Prefix(ApplyOrder, k)
  /\ \A k \in 0 .. Len(DeleteOrder) :
       "index" \in Prefix(DeleteOrder, k) => "lightrag" \in Prefix(DeleteOrder, k)
  /\ Serving \subseteq Parts
<1>1. Len(ApplyOrder) = 5 /\ Len(DeleteOrder) = 5
  BY DEF ApplyOrder, DeleteOrder
<1>2. /\ ApplyOrder[1] = "pg" /\ ApplyOrder[2] = "neo4j" /\ ApplyOrder[3] = "index"
      /\ ApplyOrder[4] = "lightrag" /\ ApplyOrder[5] = "memory"
  BY DEF ApplyOrder
<1>3. /\ DeleteOrder[1] = "memory" /\ DeleteOrder[2] = "lightrag" /\ DeleteOrder[3] = "index"
      /\ DeleteOrder[4] = "neo4j" /\ DeleteOrder[5] = "pg"
  BY DEF DeleteOrder
<1>4. ASSUME NEW k \in 0 .. 5
      PROVE  /\ Prefix(ApplyOrder, k) \subseteq Parts
             /\ "lightrag" \in Prefix(ApplyOrder, k) => "index" \in Prefix(ApplyOrder, k)
  <2>1. Prefix(ApplyOrder, k) \subseteq Parts
    BY <1>1 DEF Prefix, Parts
  <2>2. ASSUME NEW i \in 1 .. k, ApplyOrder[i] = "lightrag" PROVE 3 \in 1 .. k
    BY <1>2, <2>2
  <2> QED BY <1>2, <2>1, <2>2 DEF Prefix
<1>5. ASSUME NEW k \in 0 .. 5, "index" \in Prefix(DeleteOrder, k)
      PROVE  "lightrag" \in Prefix(DeleteOrder, k)
  <2>1. PICK i \in 1 .. k : DeleteOrder[i] = "index"
    BY <1>5 DEF Prefix
  <2>2. 2 \in 1 .. k
    BY <1>3, <2>1
  <2> QED BY <1>3, <2>2 DEF Prefix
<1>6. Serving \subseteq Parts
  BY DEF Serving, Parts, ApplyOrder
<1> QED BY <1>1, <1>4, <1>5, <1>6

\* A step of the Project's reconciler or the cluster.
LEMMA StackTyped ==
  ASSUME TInv, left' \in Left, left'.push = left.push, left'.flip = left.flip,
         mem' \in [phase : Phases, ready : {"none", "fresh", "stable"}, dgen : {0} \cup Generations],
         StackKept', UNCHANGED <<spec, hist, repo, jobs, cm>>
  PROVE  TInv'
<1>1. SwitchKept'
  BY DEF TInv, SwitchKept
<1>2. HistoryKept'
  BY DEF TInv, HistoryKept
<1>3. IngestKept'
  BY DEF TInv, IngestKept
<1> QED BY <1>1, <1>2, <1>3 DEF TInv

\* A step of the Repository's reconciler or a Job.
LEMMA IngestTyped ==
  ASSUME TInv, left' \in Left, left'.push = left.push, left'.flip = left.flip,
         IngestKept', StackKept', UNCHANGED <<spec, mem, hist>>
  PROVE  TInv'
<1>1. SwitchKept'
  BY DEF TInv, SwitchKept
<1>2. HistoryKept'
  BY DEF TInv, HistoryKept
<1> QED BY <1>1, <1>2 DEF TInv

\* The passes of the Project's reconciler keep the types, whole or cut short.
LEMMA MemoryTyped == ASSUME TInv, reconcileMemory PROVE TInv'
<1> DEFINE Status == [phase : Phases, ready : {"none", "fresh", "stable"}, dgen : {0} \cup Generations]
<1>0. mem \in Status /\ spec.gen \in Generations /\ left \in Left /\ StackKept
  BY DEF TInv, SwitchKept, Left, Generations, BoundsAreNumbers
<1>1. \A m \in Status : failMemory(m) \in Status /\ keepPhase(m) \in Status /\ recordPhase(m) \in Status
  BY DEF failMemory, keepPhase, recordPhase, memoryPhase, Phases
<1>2. Disabled \in Status /\ enabledStatus \in Status
  BY <1>0 DEF Disabled, enabledStatus, Phases, StackKept
<1> HIDE DEF Status
<1>3. ASSUME NEW S \in SUBSET Volumes, NEW end \in {"done", "error", "crash"}, disableMemory(S, end)
      PROVE  TInv'
  <2>1. UNCHANGED <<objs, up, taken, index, spec, hist, repo, jobs, cm>> /\ pass' \in {pass, spec.gen}
    BY <1>3 DEF disableMemory, ingestVars
  <2>2. StackKept'
    BY <1>0, <2>1 DEF StackKept
  <2>3. mem' \in Status /\ (left' = left \/ Spend("fault") \/ Spend("crash"))
    BY <1>0, <1>1, <1>3 DEF disableMemory
  <2> QED BY <1>0, <2>1, <2>2, <2>3, Spent, StackTyped DEF Status
<1>8. ASSUME NEW k \in 0 .. Len(DeleteOrder), NEW end \in {"done", "error", "crash"}, deleteStack(k, end)
      PROVE  TInv'
  <2> DEFINE gone == Prefix(DeleteOrder, k)
  <2>1. /\ objs' = objs \ gone /\ up' = up \ gone /\ index' = (index /\ "index" \notin gone)
        /\ pass' = 0 /\ UNCHANGED <<taken, spec, hist, repo, jobs, cm>>
    BY <1>8 DEF deleteStack, tearDownMemoryStack, ingestVars
  <2>2. "index" \in gone => "lightrag" \in gone
    BY OrderOfParts
  <2> HIDE DEF gone
  <2>3. StackKept'
    BY <1>0, <2>1, <2>2 DEF StackKept
  <2>4. mem' \in Status /\ (left' = left \/ Spend("fault") \/ Spend("crash"))
    BY <1>0, <1>1, <1>2, <1>8 DEF deleteStack
  <2> QED BY <1>0, <2>1, <2>3, <2>4, Spent, StackTyped DEF Status
<1>4. ASSUME NEW P, objs' = objs \cup P, P \subseteq Parts, "lightrag" \in P => "index" \in P,
             UNCHANGED <<up, pass, taken, index>>
      PROVE  StackKept'
  BY <1>0, <1>4 DEF StackKept
<1>5. ASSUME NEW S \in SUBSET Volumes, NEW end \in {"error", "crash"}, adoptFails(S, end) PROVE TInv'
  <2>1. UNCHANGED <<objs, up, pass, taken, index, spec, hist, repo, jobs, cm>>
    BY <1>5 DEF adoptFails, ingestVars
  <2>2. StackKept'
    BY <1>0, <2>1 DEF StackKept
  <2>3. mem' \in Status /\ (Spend("fault") \/ Spend("crash"))
    BY <1>0, <1>1, <1>5 DEF adoptFails
  <2> QED BY <1>0, <2>1, <2>2, <2>3, Spent, StackTyped DEF Status
<1>6. ASSUME NEW k \in 0 .. Len(ApplyOrder), NEW end \in {"transient", "error", "crash"}, applyFails(k, end)
      PROVE  TInv'
  <2>1. /\ objs' = objs \cup Prefix(ApplyOrder, k)
        /\ UNCHANGED <<up, pass, taken, index, spec, hist, repo, jobs, cm>>
    BY <1>6 DEF applyFails, applyMemoryStack, ingestVars
  <2>2. StackKept'
    BY <1>4, <2>1, OrderOfParts
  <2>3. mem' \in Status /\ (Spend("fault") \/ Spend("crash"))
    BY <1>0, <1>1, <1>2, <1>6 DEF applyFails
  <2> QED BY <1>0, <2>1, <2>2, <2>3, Spent, StackTyped DEF Status
<1>7. ASSUME NEW read \in BOOLEAN, applySucceeds(read) PROVE TInv'
  <2>1. /\ objs' = objs \cup Prefix(ApplyOrder, Len(ApplyOrder))
        /\ UNCHANGED <<up, pass, taken, index, spec, hist, repo, jobs, cm>>
    BY <1>7 DEF applySucceeds, applyMemoryStack, ingestVars
  <2>2. Len(ApplyOrder) \in 0 .. Len(ApplyOrder)
    BY DEF ApplyOrder
  <2>3. StackKept'
    BY <1>4, <2>1, <2>2, OrderOfParts
  <2>4. mem' \in Status /\ (left' = left \/ Spend("fault"))
    BY <1>1, <1>2, <1>7 DEF applySucceeds
  <2> QED BY <1>0, <2>1, <2>3, <2>4, Spent, StackTyped DEF Status
<1> QED BY <1>3, <1>5, <1>6, <1>7, <1>8 DEF reconcileMemory

\* So do the cluster, the user and time.
LEMMA ClusterTyped ==
  ASSUME TInv, start \/ (\E p \in Serving : outage(p)) \/ flip \/ stabilises
  PROVE  TInv'
<1>0. left \in Left /\ StackKept /\ SwitchKept
  BY DEF TInv
<1>1. CASE start
  <2>1. /\ up' = objs \cap Serving /\ taken' = (taken \/ (pass # 0 /\ vol' # vol))
        /\ UNCHANGED <<objs, pass, index, spec, mem, hist, repo, jobs, cm, left>>
    BY <1>1 DEF start, ingestVars
  <2>2. StackKept'
    BY <1>0, <2>1 DEF StackKept
  <2> QED BY <1>0, <2>1, <2>2, StackTyped DEF SwitchKept
<1>2. ASSUME NEW p \in Serving, outage(p) PROVE TInv'
  <2>1. up' = up \ {p} /\ UNCHANGED <<objs, pass, taken, index, spec, mem, hist, repo, jobs, cm>> /\ Spend("fault")
    BY <1>2 DEF outage, ingestVars
  <2>2. StackKept'
    BY <1>0, <2>1 DEF StackKept
  <2> QED BY <1>0, <2>1, <2>2, Spent, StackTyped DEF SwitchKept
<1>3. CASE flip
  <2>0. left.flip \in Nat /\ left.flip > 0 /\ left' = [left EXCEPT !.flip = left.flip - 1]
    BY <1>0, <1>3 DEF flip, Spend, Left
  <2>1. /\ left.flip \in Nat \ {0} /\ left' = [left EXCEPT !.flip = left.flip - 1]
        /\ spec' = [enabled |-> ~spec.enabled, gen |-> spec.gen + 1]
        /\ UNCHANGED <<mem, objs, up, pass, taken, index, hist, repo, jobs, cm>>
    BY <1>3, <2>0 DEF flip, stackVars, ingestVars
  <2>2. left' \in Left /\ left'.push = left.push /\ left'.flip = left.flip - 1
    BY <1>0, <2>1 DEF Left
  <2>3. SwitchKept'
    <3>1. spec.gen \in Nat \ {0} /\ spec.gen + left.flip <= MaxFlips + 1 /\ MaxFlips \in Nat
      BY <1>0 DEF SwitchKept, TInv, BoundsAreNumbers
    <3>2. spec.gen + 1 \in Nat \ {0} /\ (spec.gen + 1) + (left.flip - 1) <= MaxFlips + 1
      BY <2>1, <3>1
    <3> QED BY <1>0, <2>1, <2>2, <3>2 DEF SwitchKept
  <2> QED BY <2>1, <2>2, <2>3 DEF TInv, StackKept, HistoryKept, IngestKept
<1>4. CASE stabilises
  <2>1. mem' = [mem EXCEPT !.ready = "stable"]
        /\ UNCHANGED <<spec, objs, up, pass, taken, index, hist, repo, jobs, cm, left>>
    BY <1>4 DEF stabilises, stackVars, ingestVars
  <2>2. StackKept'
    BY <1>0, <2>1 DEF StackKept
  <2>3. mem' \in [phase : Phases, ready : {"none", "fresh", "stable"}, dgen : {0} \cup Generations]
    BY <1>0, <2>1 DEF SwitchKept
  <2> QED BY <1>0, <2>1, <2>2, <2>3, StackTyped
<1> QED BY <1>1, <1>2, <1>3, <1>4

\* What the Repository's reconciler makes of its object keeps its type.
LEMMA RepoTyped ==
  ASSUME TInv
  PROVE  /\ current \in RepoStatus /\ open \in RepoStatus
         /\ \A s \in Stamps : stamped(repo, s) \in RepoStatus /\ stamped(open, s) \in RepoStatus
         /\ \A j \in Job, cleared \in BOOLEAN :
              handleFinishedJob(repairStaleFailedPhase(repo), j, cleared) \in RepoStatus
         /\ JobName(open) \in JobNames
<1>0. repo \in RepoStatus /\ cm \in Commits /\ MaxPushes \in Nat
  BY DEF TInv, IngestKept, BoundsAreNumbers
<1>1. 0 \in Commits /\ 0 \in Stamps /\ MaxFails = 4
  BY <1>0, MemoryStackAssumption DEF Commits, Stamps, MaxFails, incrementalFallbackThreshold
<1>2. \A r \in RepoStatus : repairStaleFailedPhase(r) \in RepoStatus
  BY DEF repairStaleFailedPhase, RepoStatus, RepoPhases
<1>3. \A r \in RepoStatus : [r EXCEPT !.job = NoJob] \in RepoStatus
  BY DEF RepoStatus
<1>4. current \in RepoStatus
  BY <1>0, <1>2, <1>3 DEF current
<1>5. open \in RepoStatus
  BY <1>4 DEF open, RepoStatus, RepoPhases
<1>6. \A r \in RepoStatus, s \in Stamps : stamped(r, s) \in RepoStatus
  BY DEF stamped, RepoStatus
<1>7. ASSUME NEW r \in RepoStatus, NEW j \in Job, NEW cleared \in BOOLEAN
      PROVE  handleFinishedJob(r, j, cleared) \in RepoStatus
  <2>1. r.fails \in 0 .. 4 /\ r.stamp \in Stamps
    BY <1>1 DEF RepoStatus
  <2>2. CASE j.st = "done"
    <3>1. (IF cleared THEN 0 ELSE r.stamp) \in Stamps /\ 0 \in 0 .. MaxFails
      BY <1>1, <2>1
    <3>2. handleFinishedJob(r, j, cleared)
            = [r EXCEPT !.commit = cm, !.phase = "Ingested", !.job = NoJob, !.fails = 0,
                        !.sameSecond = TRUE, !.asked = FALSE,
                        !.stamp = IF cleared THEN 0 ELSE r.stamp]
      BY <2>2 DEF handleFinishedJob, RepoStatus
    <3> QED BY <1>0, <3>1, <3>2 DEF RepoStatus, RepoPhases
  <2>3. CASE j.st # "done"
    <3>1. (IF r.fails = MaxFails THEN incrementalFallbackThreshold ELSE r.fails + 1) \in 0 .. MaxFails
      BY <1>1, <2>1 DEF incrementalFallbackThreshold
    <3> QED BY <2>3, <3>1 DEF handleFinishedJob, RepoStatus, RepoPhases
  <2> QED BY <2>2, <2>3
<1>8. JobName(open) \in JobNames
  <2>1. ingestSince(open) \in Commits
    BY <1>1, <1>5 DEF ingestSince, RepoStatus
  <2> QED BY <1>5, <2>1 DEF JobName, JobNames, RepoStatus, Commits
<1> QED BY <1>0, <1>2, <1>4, <1>5, <1>6, <1>7, <1>8

\* The stamp taken is one of those no Job is named after.
LEMMA FreshStamp == ASSUME FreshStamps # {} PROVE Min(FreshStamps) \in Stamps
<1>1. FreshStamps \in SUBSET Nat /\ FreshStamps \subseteq Stamps
  BY MemoryStackAssumption DEF FreshStamps, Stamps
<1>2. \E m \in FreshStamps : \A n \in FreshStamps : m <= n
  BY <1>1, Least
<1> QED BY <1>1, <1>2 DEF Min

\* The passes of the Repository's reconciler keep the types.
LEMMA RepositoryTyped ==
  ASSUME TInv, reconcileRepository \/ scheduleNextReingest \/ helmApply \/ nextSecond
  PROVE  TInv'
<1>0. left \in Left /\ StackKept /\ repo \in RepoStatus /\ jobs \subseteq Job /\ cm \in Commits
  BY DEF TInv, IngestKept
<1>1. 0 \in Commits
  BY DEF TInv, BoundsAreNumbers, Commits
<1>2. ASSUME UNCHANGED <<spec, mem, stackVars, hist>>, repo' \in RepoStatus,
             jobs' \subseteq Job, cm' \in Commits,
             UNCHANGED left \/ Spend("fault") \/ Spend("crash")
      PROVE  TInv'
  <2>1. StackKept'
    BY <1>0, <1>2 DEF StackKept, stackVars
  <2>2. left' \in Left /\ left'.push = left.push /\ left'.flip = left.flip
    BY <1>0, <1>2, Spent
  <2>3. IngestKept'
    BY <1>2 DEF IngestKept
  <2> QED BY <1>2, <2>1, <2>2, <2>3, IngestTyped
<1>3. CASE applyResult
  <2>1. PICK j \in JobNamed(repo.job), cleared \in BOOLEAN :
          /\ UNCHANGED left \/ Spend("fault")
          /\ repo' = handleFinishedJob(repairStaleFailedPhase(repo), j, cleared)
          /\ jobs' = jobs \ {j}
          /\ UNCHANGED <<spec, mem, stackVars, hist, cm>>
    BY <1>3 DEF applyResult
  <2>2. j \in Job
    BY <1>0 DEF JobNamed
  <2>3. repo' \in RepoStatus
    BY <2>1, <2>2, RepoTyped
  <2> QED BY <1>0, <1>2, <2>1, <2>3
<1>4. CASE memoryDisabled
  <2>1. repo' \in RepoStatus
    BY <1>4, RepoTyped DEF memoryDisabled, RepoStatus, RepoPhases
  <2> QED BY <1>0, <1>2, <1>4, <2>1 DEF memoryDisabled
<1>5. CASE memoryGated
  BY <1>0, <1>2, <1>5, RepoTyped DEF memoryGated
<1>6. CASE idlePass
  BY <1>0, <1>2, <1>6, RepoTyped DEF idlePass
<1>7. ASSUME NEW end \in {"done", "reset", "created"}, launch(end) PROVE TInv'
  <2> DEFINE n == JobName(open)
             new == [name |-> n, st |-> "new", sha |-> 0, fit |-> TRUE]
  <2>1. /\ cm' = 0 /\ jobs' \subseteq jobs \cup {new}
        /\ \/ repo' = [open EXCEPT !.job = n, !.phase = "Ingesting"] /\ UNCHANGED left
           \/ repo' = open /\ Spend("crash")
        /\ UNCHANGED <<spec, mem, stackVars, hist>>
    BY <1>7 DEF launch
  <2>2. n \in JobNames /\ open \in RepoStatus
    BY RepoTyped
  <2> HIDE DEF n
  <2>3. new \in Job /\ [open EXCEPT !.job = n, !.phase = "Ingesting"] \in RepoStatus
    BY <1>1, <2>2 DEF Job, RepoStatus, RepoPhases
  <2> HIDE DEF new
  <2> QED BY <1>0, <1>1, <1>2, <2>1, <2>2, <2>3
<1>8. CASE scheduleNextReingest
  <2>1. repo' \in RepoStatus
    BY <1>8, FreshStamp, RepoTyped DEF scheduleNextReingest
  <2> QED BY <1>0, <1>2, <1>8, <2>1 DEF scheduleNextReingest
<1>9. CASE helmApply
  <2>1. repo' \in RepoStatus
    <3>1. 0 \in Stamps
      BY MemoryStackAssumption DEF Stamps
    <3> QED BY <1>0, <1>9, <3>1 DEF helmApply, RepoStatus
  <2> QED BY <1>0, <1>2, <1>9, <2>1 DEF helmApply
<1>10. CASE nextSecond
  <2>1. repo' \in RepoStatus
    BY <1>0, <1>10 DEF nextSecond, RepoStatus
  <2> QED BY <1>0, <1>2, <1>10, <2>1 DEF nextSecond
<1> QED BY <1>3, <1>4, <1>5, <1>6, <1>7, <1>8, <1>9, <1>10 DEF reconcileRepository

\* A push takes one from those left, and its head is the next.
LEMMA PushTyped == ASSUME TInv, handlePush PROVE TInv'
<1>0. left \in Left /\ repo \in RepoStatus /\ HistoryKept /\ MaxPushes \in Nat
  BY DEF TInv, IngestKept, BoundsAreNumbers
<1>1. left.push \in Nat /\ left.push > 0 /\ left.fault \in Nat
  BY <1>0 DEF handlePush, Left
<1>2. UNCHANGED <<spec, mem, objs, up, pass, taken, index, jobs, cm>>
  BY DEF handlePush, stackVars
<1>3. left' \in Left /\ left'.push = left.push - 1 /\ left'.flip = left.flip
  <2>1. CASE left' = [left EXCEPT !.push = @ - 1]
    BY <1>0, <1>1, <2>1 DEF Left
  <2>2. CASE left.fault > 0 /\ left' = [left EXCEPT !.push = @ - 1, !.fault = @ - 1]
    <3>1. left.push - 1 \in Nat /\ left.fault - 1 \in Nat
      BY <1>1, <2>2
    <3>2. left' = [left EXCEPT !.push = left.push - 1, !.fault = left.fault - 1]
      BY <1>0, <2>2 DEF Left
    <3> QED BY <1>0, <3>1, <3>2 DEF Left
  <2> QED BY <2>1, <2>2 DEF handlePush
<1>4. repo' \in RepoStatus
  BY <1>0, FreshStamp, RepoTyped DEF handlePush
<1>5. HistoryKept'
  <2>1. Tip + 1 \in hist' /\ hist' \subseteq hist \cup {Tip + 1}
    BY DEF handlePush
  <2>2. Tip \in Nat \ {0} /\ Tip + left.push <= MaxPushes + 1
    BY <1>0, TipInHist DEF HistoryKept
  <2>3. (Tip + 1) + (left.push - 1) <= MaxPushes + 1 /\ Tip + 1 \in Nat \ {0}
    BY <1>1, <2>2
  <2>4. \A h \in hist : h \in Nat \ {0} /\ h + (left.push - 1) <= MaxPushes + 1
    BY <1>0, <1>1 DEF HistoryKept
  <2>5. \A h \in hist' : h \in Nat \ {0} /\ h + (left.push - 1) <= MaxPushes + 1
    BY <2>1, <2>3, <2>4
  <2> QED BY <1>3, <2>1, <2>5 DEF HistoryKept
<1>6. SwitchKept'
  BY <1>2, <1>3 DEF TInv, SwitchKept
<1> QED BY <1>2, <1>3, <1>4, <1>5, <1>6 DEF TInv, StackKept, IngestKept

\* The Jobs keep the types; one that completes the index finds it there,
\* since lightrag, which it goes through, is gone before its volume.
LEMMA JobsTyped == ASSUME TInv, jobStep \/ jobExpires PROVE TInv'
<1>0. left \in Left /\ StackKept /\ repo \in RepoStatus /\ jobs \subseteq Job /\ cm \in Commits
  BY DEF TInv, IngestKept
<1>1. ASSUME UNCHANGED <<spec, mem, hist, repo>>, StackKept', jobs' \subseteq Job, cm' \in Commits,
             UNCHANGED left \/ Spend("fault") \/ Spend("crash")
      PROVE  TInv'
  <2>1. left' \in Left /\ left'.push = left.push /\ left'.flip = left.flip
    BY <1>0, <1>1, Spent
  <2>2. IngestKept'
    BY <1>0, <1>1 DEF IngestKept
  <2> QED BY <1>1, <2>1, <2>2, IngestTyped
<1>2. ASSUME UNCHANGED stackVars PROVE StackKept'
  BY <1>0, <1>2 DEF StackKept, stackVars
<1>3. ASSUME NEW j \in jobs, NEW k \in Job, Update(j, k) PROVE jobs' \subseteq Job
  BY <1>0, <1>3 DEF Update
<1>4. ASSUME NEW j \in jobs, clone(j) PROVE TInv'
  <2> DEFINE k == [j EXCEPT !.st = "cloned", !.sha = Tip, !.fit = j.name.since \in hist \cup {0}]
  <2>1. Update(j, k) /\ UNCHANGED <<spec, mem, stackVars, hist, repo, cm, left>>
    BY <1>4 DEF clone
  <2>2. k \in Job
    <3>1. j \in Job /\ Tip \in Commits /\ (j.name.since \in hist \cup {0}) \in BOOLEAN
      BY <1>0, TipInHist
    <3> QED BY <3>1 DEF Job
  <2> HIDE DEF k
  <2> QED BY <1>0, <1>1, <1>2, <1>3, <2>1, <2>2
<1>5. ASSUME NEW j \in jobs, finish(j) PROVE TInv'
  <2>1. /\ Update(j, [j EXCEPT !.st = "done"]) /\ cm' = j.sha /\ Serving \subseteq up
        /\ index' = TRUE \/ index' = index
        /\ UNCHANGED <<spec, mem, objs, up, pass, taken, hist, repo, left>>
    BY <1>5 DEF finish
  <2>2. [j EXCEPT !.st = "done"] \in Job /\ j.sha \in Commits
    BY <1>0 DEF Job
  <2>3. "index" \in objs
    BY <1>0, <2>1 DEF StackKept, Serving
  <2>4. StackKept'
    BY <1>0, <2>1, <2>3 DEF StackKept
  <2> QED BY <1>1, <1>3, <2>1, <2>2, <2>4
<1>6. ASSUME NEW j \in jobs, fail(j) PROVE TInv'
  <2>1. /\ Update(j, [j EXCEPT !.st = "failed"]) /\ (UNCHANGED left \/ Spend("fault"))
        /\ UNCHANGED <<spec, mem, stackVars, hist, repo, cm>>
    BY <1>6 DEF fail
  <2>2. [j EXCEPT !.st = "failed"] \in Job
    BY <1>0 DEF Job
  <2> QED BY <1>0, <1>1, <1>2, <1>3, <2>1, <2>2
<1>7. ASSUME NEW j \in jobs, expire(j) PROVE TInv'
  <2>1. /\ (UNCHANGED left \/ Spend("crash")) /\ jobs' = jobs \ {j}
        /\ UNCHANGED <<spec, mem, stackVars, hist, repo, cm>>
    BY <1>7 DEF expire
  <2> QED BY <1>0, <1>1, <1>2, <2>1
<1> QED BY <1>4, <1>5, <1>6, <1>7 DEF jobStep, jobExpires

LEMMA InitTInv == Init => TInv
<1> SUFFICES ASSUME Init PROVE TInv
  OBVIOUS
<1>1. PICK c \in Cases :
        /\ left = [push |-> c.push, flip |-> c.flip, fault |-> c.fault, crash |-> c.crash]
        /\ spec = [enabled |-> TRUE, gen |-> 1] /\ hist = {1} /\ jobs = {} /\ pass = 0 /\ taken = FALSE
        /\ \/ /\ mem = [phase |-> "", ready |-> "none", dgen |-> 0]
              /\ objs = {} /\ up = {} /\ index = FALSE /\ cm = 0
              /\ repo = NewRepo
           \/ /\ mem = [phase |-> "Ready", ready |-> "stable", dgen |-> 0]
              /\ objs = Parts /\ up = Serving /\ index = TRUE /\ cm = 1
              /\ repo = [NewRepo EXCEPT !.commit = 1,
                                       !.phase = IF c.from = "legacy" THEN "Failed" ELSE "Ingested"]
  BY DEF Init
<1>2. /\ MaxPushes \in Nat /\ c.push \in Nat /\ c.push <= MaxPushes
      /\ MaxFlips \in Nat /\ c.flip \in Nat /\ c.flip <= MaxFlips
  BY CaseBounds
<1>3. left \in Left /\ left.push = c.push /\ left.flip = c.flip
  BY <1>1, MemoryStackAssumption DEF Left
<1>4. StackKept
  <2>1. "index" \in Parts /\ Serving \subseteq Parts
    <3>1. ApplyOrder[3] = "index" /\ 3 \in 1 .. Len(ApplyOrder)
      BY DEF ApplyOrder
    <3> QED BY <3>1, OrderOfParts DEF Parts
  <2> QED BY <1>1, <2>1 DEF StackKept
<1>5. SwitchKept
  <2>1. spec.gen = 1 /\ spec \in [enabled : BOOLEAN, gen : Nat \ {0}]
    <3>1. spec = [enabled |-> TRUE, gen |-> 1]
      BY <1>1
    <3> QED BY <3>1
  <2>2. 1 + c.flip <= MaxFlips + 1
    BY <1>2
  <2>3. mem \in [phase : Phases, ready : {"none", "fresh", "stable"}, dgen : {0} \cup Generations]
    <3>1. \/ mem = [phase |-> "", ready |-> "none", dgen |-> 0]
          \/ mem = [phase |-> "Ready", ready |-> "stable", dgen |-> 0]
      BY <1>1
    <3>2. "" \in Phases /\ "Ready" \in Phases
      BY DEF Phases
    <3>3. CASE mem = [phase |-> "", ready |-> "none", dgen |-> 0]
      BY <3>2, <3>3
    <3>4. CASE mem = [phase |-> "Ready", ready |-> "stable", dgen |-> 0]
      BY <3>2, <3>4
    <3> QED BY <3>1, <3>3, <3>4
  <2> QED BY <1>3, <2>1, <2>2, <2>3 DEF SwitchKept
<1>6. HistoryKept
  <2>1. 1 + left.push <= MaxPushes + 1
    BY <1>2, <1>3
  <2>2. hist = {1}
    BY <1>1
  <2> QED BY <2>1, <2>2 DEF HistoryKept
<1>7. IngestKept
  <2>1. 0 \in Commits /\ 1 \in Commits /\ 0 \in Stamps /\ 0 \in 0 .. MaxFails
    BY <1>2, MemoryStackAssumption DEF Commits, Stamps, MaxFails, incrementalFallbackThreshold
  <2>2. NewRepo \in RepoStatus
    BY <2>1 DEF NewRepo, RepoStatus, RepoPhases
  <2>3. repo \in RepoStatus
    BY <1>1, <2>1, <2>2 DEF RepoStatus, RepoPhases
  <2> QED BY <1>1, <2>1, <2>3 DEF IngestKept
<1> QED BY <1>2, <1>3, <1>4, <1>5, <1>6, <1>7 DEF TInv, BoundsAreNumbers

LEMMA NextTInv == TInv /\ [Next]_vars => TInv'
<1> SUFFICES ASSUME TInv, [Next]_vars PROVE TInv'
  OBVIOUS
<1>1. CASE UNCHANGED vars
  BY <1>1 DEF TInv, StackKept, SwitchKept, HistoryKept, IngestKept, vars
<1>2. CASE Next
  BY <1>2, MemoryTyped, RepositoryTyped, PushTyped, JobsTyped, ClusterTyped DEF Next
<1> QED BY <1>1, <1>2

\* Whatever passes are cut short and whatever is switched, pushed and expired
\* in between, nothing serves that does not exist, an index that is complete
\* has its volume, and no status or Job names a commit, a generation, a
\* stamp or a failure count there never was.
THEOREM TypeCorrect == Spec => []TypeOK
<1>1. IInv /\ TInv => TypeOK
  <2> SUFFICES ASSUME IInv, TInv PROVE TypeOK
    OBVIOUS
  <2>1. MaxPushes \in Nat /\ MaxFlips \in Nat /\ left.push \in Nat /\ left.flip \in Nat
    BY DEF TInv, BoundsAreNumbers, Left
  <2>2. spec \in [enabled : BOOLEAN, gen : 1 .. MaxFlips + 1]
    BY <2>1 DEF TInv, SwitchKept
  <2>3. mem \in [phase : Phases, ready : {"none", "fresh", "stable"}, dgen : 0 .. MaxFlips + 1]
    <3>1. {0} \cup Generations = 0 .. MaxFlips + 1
      BY <2>1 DEF Generations
    <3> QED BY <3>1 DEF TInv, SwitchKept
  <2>4. hist \subseteq 1 .. MaxPushes + 1
    BY <2>1 DEF TInv, HistoryKept
  <2>5. vol \in [Volumes -> [there : BOOLEAN, refs : SUBSET {"Project", "Cluster"},
                            retained : BOOLEAN, data : BOOLEAN]]
    BY DEF IInv, Shapes, Volume
  <2>6. repo \in RepoStatus /\ jobs \subseteq Job /\ cm \in Commits /\ StackKept
    BY DEF TInv, IngestKept
  <2>7. pass \in 0 .. MaxFlips + 1 /\ taken \in BOOLEAN
    BY <2>1, <2>6 DEF StackKept, Generations
  <2> QED BY <2>7, <2>2, <2>3, <2>4, <2>5, <2>6 DEF TypeOK, StackKept, RepoStatus, Job, Commits
<1> QED BY <1>1, InitIInv, NextIInv, InitTInv, NextTInv, PTL DEF Spec

============================================================================

---------------------------- MODULE MemoryStack ----------------------------
(***************************************************************************)
(* A Project's memory stack and the ingest of one of its repositories.     *)
(*                                                                         *)
(* The Project's reconciler (project_memory*.go) applies the stack, reads  *)
(* its health and records a phase.  Switching memory off keeps the         *)
(* postgres and neo4j volumes: every owner reference is stripped and a     *)
(* label put on them before the stack is deleted; switching it on again    *)
(* adopts them.  The lightrag volume goes with the stack.                  *)
(*                                                                         *)
(* The Repository's reconciler (repository_controller.go) launches an      *)
(* ingest Job when the stack is stably ready and an ingest is wanted, and  *)
(* records what the Job wrote to its result ConfigMap.  Pushes and the     *)
(* cron ask for an ingest with an annotation.                              *)
(*                                                                         *)
(* Both reconcilers handle one object at a time, so a pass is one step,    *)
(* but it may fail at any object and the process may die before the pass   *)
(* writes its status.  Switching off is two steps, to retain and to        *)
(* delete: cnpg writes the volumes until its Cluster is deleted.           *)
(* Kubernetes, cnpg, the Jobs and the forge take their own steps.          *)
(***************************************************************************)
EXTENDS Integers, Sequences, FiniteSets, FiniteSetsExt

CONSTANTS
  Cases,         \* the Project to begin with, and how many pushes, changes of
                 \* spec.memory.enabled, faults (failed calls, lost deliveries,
                 \* failed Jobs, outages) and deaths of the operator it meets
  MaxStamps      \* re-ingest stamps told apart

ASSUME MemoryStackAssumption ==
  /\ IsFiniteSet(Cases)
  /\ Cases \subseteq [from : {"new", "running", "legacy"}, push : Nat, flip : Nat, fault : Nat, crash : Nat]
  /\ MaxStamps \in Nat \ {0}

MaxPushes == Max({c.push : c \in Cases})
MaxFlips == Max({c.flip : c \in Cases})

VARIABLES
  spec,       \* spec.memory.enabled and the Project's generation
  mem,        \* status.memory
  objs,       \* the objects of the stack that exist
  up,         \* those that serve
  vol,        \* the volumes the teardown keeps
  pass,       \* the generation whose teardown has retained the volumes and
              \* not deleted the stack, 0 if there is none
  taken,      \* a volume was made or taken back in between (a ghost)
  index,      \* the lightrag volume holds everything ingested so far
  hist,       \* the heads in the history of the default branch
  repo,       \* the Repository: its status and its annotation
  jobs,       \* the ingest Jobs
  cm,         \* the sha in the result ConfigMap, 0 when it is empty
  left        \* events that may still happen

vars == <<spec, mem, objs, up, vol, pass, taken, index, hist, repo, jobs, cm, left>>
stackVars == <<objs, up, vol, pass, taken, index>>
ingestVars == <<hist, repo, jobs, cm>>

Volumes == {"pg", "neo4j"}
ApplyOrder == <<"pg", "neo4j", "index", "lightrag", "memory">>
DeleteOrder == <<"memory", "lightrag", "index", "neo4j", "pg">>
Parts == {ApplyOrder[i] : i \in 1 .. Len(ApplyOrder)}
Serving == {"pg", "neo4j", "lightrag", "memory"}
\* Degraded is Provisioning for longer than the timeout: reported, and no
\* different to anything here.
Phases == {"", "Provisioning", "Ready", "Failed", "Disabled"}
RepoPhases == {"", "Ingesting", "Ingested", "Failed", "MemoryDisabled"}
Stamps == 0 .. MaxStamps

incrementalFallbackThreshold == 3

\* Counts from the threshold on are told apart by their parity only.
MaxFails == incrementalFallbackThreshold + 1
Tip == Max(hist)

Prefix(s, k) == {s[i] : i \in 1 .. k}

\* One event of a kind that may happen only so often.
Spend(kind) == left[kind] > 0 /\ left' = [left EXCEPT ![kind] = @ - 1]

----------------------------------------------------------------------------
(* The stack: what the teardown keeps and what comes back. *)

NewVolume == [there |-> FALSE, refs |-> {}, retained |-> FALSE, data |-> FALSE]

\* Kubernetes collects a volume all of whose owners are gone: deleting the
\* cnpg cluster takes the volumes it alone owns.
cascade(volumes, gone) ==
  [v \in Volumes |-> IF "pg" \in gone /\ volumes[v].refs = {"Cluster"} THEN NewVolume ELSE volumes[v]]

\* A bug: only the Project's own reference is stripped.
M_retainObject(v) == [v EXCEPT !.refs = @ \ {"Project"}, !.retained = TRUE]

retainObject(v) == [v EXCEPT !.refs = {}, !.retained = TRUE]

retainMemoryData(S) == [v \in Volumes |-> IF v \in S /\ vol[v].there THEN retainObject(vol[v]) ELSE vol[v]]

adoptRetainedObject(v) == [v EXCEPT !.refs = @ \cup {"Project"}, !.retained = FALSE]

adoptRetainedMemoryPVCs(S) == [v \in Volumes |-> IF v \in S THEN adoptRetainedObject(vol[v]) ELSE vol[v]]

RetainedVolumes == {v \in Volumes : vol[v].there /\ vol[v].retained}

\* A bug: the objects go, and what they run stays.
M_tearDownOrphans(k) ==
  LET gone == Prefix(DeleteOrder, k)
  IN /\ objs' = objs \ gone
     /\ index' = (index /\ "index" \notin gone)
     /\ UNCHANGED up

\* A bug: the cluster is left running.
M_tearDownMemoryStack(k) ==
  LET gone == Prefix(DeleteOrder, k) \ {"pg"}
  IN /\ objs' = objs \ gone
     /\ up' = up \ gone
     /\ index' = (index /\ "index" \notin gone)

tearDownMemoryStack(k) ==
  LET gone == Prefix(DeleteOrder, k)
  IN /\ objs' = objs \ gone
     /\ up' = up \ gone
     /\ index' = (index /\ "index" \notin gone)

applyMemoryStack(k) == objs' = objs \cup Prefix(ApplyOrder, k)

memoryPhase == IF Serving \subseteq up THEN "Ready" ELSE "Provisioning"

failMemory(m) == [m EXCEPT !.phase = "Failed"]

\* A pass that learnt nothing about the stack keeps the phase it has.
keepPhase(m) == [m EXCEPT !.phase = IF @ = "" THEN "Provisioning" ELSE @]

\* The phase of a stack whose health was read; the clock of a ready stack
\* starts when it becomes ready.
recordPhase(m) ==
  [m EXCEPT !.phase = memoryPhase,
            !.ready = IF memoryPhase # "Ready" THEN "none" ELSE IF m.phase = "Ready" THEN @ ELSE "fresh"]

MemoryStablyReady(m) == m.phase = "Ready" /\ m.ready = "stable"

----------------------------------------------------------------------------
(* The Project's reconciler. *)

\* The pass writes the generation it began with, whatever it is by then.
Disabled == [phase |-> "Disabled", ready |-> "none", dgen |-> pass]

\* The volumes in S are retained, then the pass goes on to delete the stack,
\* meets an error, or the operator dies.
disableMemory(S, end) ==
  /\ pass = 0 /\ ~spec.enabled
  /\ mem.phase # "Disabled" \/ mem.dgen # spec.gen
  /\ vol' = retainMemoryData(S)
  /\ CASE end = "done" -> S = Volumes /\ pass' = spec.gen /\ UNCHANGED <<mem, left>>
       [] end = "error" -> Spend("fault") /\ mem' = failMemory(mem) /\ UNCHANGED pass
       [] end = "crash" -> Spend("crash") /\ UNCHANGED <<mem, pass>>
  /\ UNCHANGED <<spec, objs, up, taken, index, ingestVars>>

\* The first k objects are deleted, the Cluster last.
deleteStack(k, end) ==
  /\ pass # 0 /\ pass' = 0
  /\ vol' = cascade(vol, Prefix(DeleteOrder, k))
  /\ tearDownMemoryStack(k)
  /\ CASE end = "done" -> k = Len(DeleteOrder) /\ mem' = Disabled /\ UNCHANGED left
       [] end = "error" -> Spend("fault") /\ mem' = failMemory(mem)
       [] end = "crash" -> Spend("crash") /\ UNCHANGED mem
  /\ UNCHANGED <<spec, taken, ingestVars>>

\* Leaving Disabled, the retained volumes are adopted before anything else.
Leaving == mem.phase = "Disabled"

enabledStatus == IF Leaving THEN [mem EXCEPT !.phase = "", !.dgen = 0] ELSE mem

\* The adoption fails at a volume, or the operator dies in it.
adoptFails(S, end) ==
  /\ pass = 0 /\ spec.enabled /\ Leaving /\ S \subseteq RetainedVolumes
  /\ vol' = adoptRetainedMemoryPVCs(S)
  /\ CASE end = "error" -> Spend("fault") /\ mem' = failMemory(mem)
       [] end = "crash" -> Spend("crash") /\ UNCHANGED mem
  /\ UNCHANGED <<spec, objs, up, pass, taken, index, ingestVars>>

adopted == IF Leaving THEN adoptRetainedMemoryPVCs(RetainedVolumes) ELSE vol

\* The stack is applied up to its k-th object.  A transient error is borne
\* for the grace period, any other is a failure, and so is a password that
\* cannot be read.
applyFails(k, end) ==
  /\ pass = 0 /\ spec.enabled
  /\ vol' = adopted
  /\ applyMemoryStack(k)
  /\ CASE end = "transient" -> Spend("fault") /\ mem' \in {keepPhase(enabledStatus), failMemory(enabledStatus)}
       [] end = "error" -> Spend("fault") /\ mem' = failMemory(enabledStatus)
       [] end = "crash" -> Spend("crash") /\ UNCHANGED mem
  /\ UNCHANGED <<spec, up, pass, taken, index, ingestVars>>

\* The stack is applied; its health is read, or cannot be.
applySucceeds(read) ==
  /\ pass = 0 /\ spec.enabled
  /\ vol' = adopted
  /\ applyMemoryStack(Len(ApplyOrder))
  /\ IF read THEN mem' = recordPhase(enabledStatus) /\ UNCHANGED left
     ELSE Spend("fault") /\ mem' = keepPhase(enabledStatus)
  /\ UNCHANGED <<spec, up, pass, taken, index, ingestVars>>

reconcileMemory ==
  \/ \E S \in SUBSET Volumes, end \in {"done", "error", "crash"} : disableMemory(S, end)
  \/ \E k \in 0 .. Len(DeleteOrder), end \in {"done", "error", "crash"} : deleteStack(k, end)
  \/ \E S \in SUBSET Volumes, end \in {"error", "crash"} : adoptFails(S, end)
  \/ \E k \in 0 .. Len(ApplyOrder), end \in {"transient", "error", "crash"} : applyFails(k, end)
  \/ \E read \in BOOLEAN : applySucceeds(read)

----------------------------------------------------------------------------
(* The Repository's reconciler. *)

NoJob == [since |-> 0, stamp |-> 0, fails |-> -1]
JobNamed(n) == {j \in jobs : j.name = n}

repairStaleFailedPhase(r) ==
  IF r.phase = "Failed" /\ r.fails = 0
  THEN [r EXCEPT !.phase = IF r.commit # 0 THEN "Ingested" ELSE ""]
  ELSE r

\* The annotation asks for an ingest when its stamp is later than the last
\* ingest; .asked is that comparison.
reingestRequested(r) == r.stamp # 0 /\ r.asked

wantsIngest(r) == r.commit = 0 \/ reingestRequested(r) \/ r.phase = "Failed"

\* A bug: a failing incremental ingest is never replaced by a full one.
M_ingestSince(r) == r.commit

ingestSince(r) == IF r.fails >= incrementalFallbackThreshold THEN 0 ELSE r.commit

JobName(r) == [since |-> ingestSince(r), stamp |-> r.stamp, fails |-> r.fails]

\* A stamp no Job is named after.
FreshStamps == (Stamps \ {0}) \ ({repo.stamp} \cup {j.name.stamp : j \in jobs})

\* A stamp of the second of the last ingest is not later than it.
stamped(r, s) == [r EXCEPT !.stamp = s, !.asked = ~r.sameSecond]

\* The status of a succeeded Job; its annotation goes unless the update
\* meets a conflict or the operator dies first.
handleFinishedJob(r, j, cleared) ==
  IF j.st = "done"
  THEN [r EXCEPT !.commit = cm, !.phase = "Ingested", !.job = NoJob, !.fails = 0,
                 !.sameSecond = TRUE, !.asked = FALSE, !.stamp = IF cleared THEN 0 ELSE @]
  ELSE [r EXCEPT !.phase = "Failed", !.job = NoJob,
                 !.fails = IF @ = MaxFails THEN incrementalFallbackThreshold ELSE @ + 1]

\* A finished Job; one that succeeded without a sha is an error of the pass.
\* The Job is forgotten here: a later attempt has a newer stamp, another base
\* or another failure count, so another name.
applyResult ==
  LET r == repairStaleFailedPhase(repo)
  IN \E j \in JobNamed(repo.job), cleared \in BOOLEAN :
       /\ j.st \in {"done", "failed"}
       /\ j.st = "done" => cm # 0
       /\ IF cleared \/ r.stamp = 0 \/ j.st = "failed" THEN UNCHANGED left ELSE Spend("fault")
       /\ repo' = handleFinishedJob(r, j, cleared)
       /\ jobs' = jobs \ {j}
       /\ UNCHANGED <<spec, mem, stackVars, hist, cm>>

\* No Job is under way: a name whose Job is gone is forgotten.
NoJobRuns == JobNamed(repo.job) = {}
current == [repairStaleFailedPhase(repo) EXCEPT !.job = NoJob]

memoryDisabled ==
  /\ NoJobRuns /\ ~spec.enabled
  /\ repo' = [current EXCEPT !.phase = "MemoryDisabled"]
  /\ UNCHANGED <<spec, mem, stackVars, hist, jobs, cm, left>>

memoryGated ==
  /\ NoJobRuns /\ spec.enabled /\ ~MemoryStablyReady(mem)
  /\ repo' = current
  /\ UNCHANGED <<spec, mem, stackVars, hist, jobs, cm, left>>

open == [current EXCEPT !.phase = IF @ = "MemoryDisabled" THEN "" ELSE @]
IngestOpen == NoJobRuns /\ spec.enabled /\ MemoryStablyReady(mem)

\* Nothing to ingest: when the schedule is due, which it is again and again,
\* it stamps the annotation.
idle == IngestOpen /\ ~wantsIngest(open)

idlePass ==
  /\ idle
  /\ repo' = open
  /\ UNCHANGED <<spec, mem, stackVars, hist, jobs, cm, left>>

scheduleNextReingest ==
  /\ idle /\ ~repo.sameSecond
  /\ FreshStamps # {}
  /\ repo' = stamped(open, Min(FreshStamps))
  /\ UNCHANGED <<spec, mem, stackVars, hist, jobs, cm, left>>
\* The sha is cleared, the Job created (one of that name is adopted) and its
\* name recorded; the operator may die after each.
launch(end) ==
  LET n == JobName(open)
  IN /\ IngestOpen /\ wantsIngest(open)
     /\ cm' = 0
     /\ jobs' = IF end = "reset" \/ JobNamed(n) # {} THEN jobs
                ELSE jobs \cup {[name |-> n, st |-> "new", sha |-> 0, fit |-> TRUE]}
     /\ IF end = "done"
        THEN repo' = [open EXCEPT !.job = n, !.phase = "Ingesting"] /\ UNCHANGED left
        ELSE repo' = open /\ Spend("crash")
     /\ UNCHANGED <<spec, mem, stackVars, hist>>

reconcileRepository ==
  \/ applyResult
  \/ memoryDisabled
  \/ memoryGated
  \/ idlePass
  \/ \E end \in {"done", "reset", "created"} : launch(end)

----------------------------------------------------------------------------
(* The forge: a push, which may rewrite history, and its webhook, which may *)
(* be lost.                                                                *)

handlePush ==
  /\ left.push > 0
  /\ \E rewritten \in BOOLEAN :
       hist' = (IF rewritten THEN {} ELSE hist) \cup {Tip + 1}
  /\ \/ /\ FreshStamps # {}
        /\ repo' = stamped(repo, Min(FreshStamps))
        /\ left' = [left EXCEPT !.push = @ - 1]
     \/ /\ left.fault > 0
        /\ left' = [left EXCEPT !.push = @ - 1, !.fault = @ - 1]
        /\ UNCHANGED repo
  /\ UNCHANGED <<spec, mem, stackVars, jobs, cm>>

----------------------------------------------------------------------------
(* The Jobs and the cluster. *)

Update(j, k) == jobs' = (jobs \ {j}) \cup {k}

\* The init container clones the branch; an incremental ingest is fit only
\* for a history that has its base.
clone(j) ==
  /\ j.st = "new"
  /\ Update(j, [j EXCEPT !.st = "cloned", !.sha = Tip, !.fit = j.name.since \in hist \cup {0}])
  /\ UNCHANGED <<spec, mem, stackVars, hist, repo, cm, left>>

\* It ingests into the stack and writes the sha.  A full ingest completes
\* the index and the corpus, an incremental one adds to them.
finish(j) ==
  /\ j.st = "cloned" /\ j.fit /\ Serving \subseteq up
  /\ Update(j, [j EXCEPT !.st = "done"])
  /\ cm' = j.sha
  /\ IF j.name.since = 0
     THEN index' = TRUE /\ vol' = [v \in Volumes |-> [vol[v] EXCEPT !.data = TRUE]]
     ELSE UNCHANGED <<index, vol>>
  /\ UNCHANGED <<spec, mem, objs, up, pass, taken, hist, repo, left>>

fail(j) ==
  /\ j.st \in {"new", "cloned"}
  /\ IF j.st = "cloned" /\ (~j.fit \/ ~(Serving \subseteq up)) THEN UNCHANGED left ELSE Spend("fault")
  /\ Update(j, [j EXCEPT !.st = "failed"])
  /\ UNCHANGED <<spec, mem, stackVars, hist, repo, cm>>

\* A finished Job is removed after its time to live.  That is minutes: its
\* result is applied by then if it can be, unless the operator is away.
Applicable(j) == repo.job = j.name /\ (j.st = "done" => cm # 0)

expire(j) ==
  /\ j.st \in {"done", "failed"}
  /\ IF Applicable(j) THEN Spend("crash") ELSE UNCHANGED left
  /\ jobs' = jobs \ {j}
  /\ UNCHANGED <<spec, mem, stackVars, hist, repo, cm>>

jobStep == \E j \in jobs : clone(j) \/ finish(j) \/ fail(j)
jobExpires == \E j \in jobs : expire(j)

\* cnpg makes the postgres volume or takes it over, the StatefulSet makes
\* the neo4j volume, which has no owner, and what was applied comes up.
start ==
  /\ vol' = [v \in Volumes |->
               IF v \notin objs THEN vol[v]
               ELSE [vol[v] EXCEPT !.there = TRUE, !.refs = IF v = "pg" THEN @ \cup {"Cluster"} ELSE @]]
  /\ up' = objs \cap Serving
  /\ taken' = (taken \/ (pass # 0 /\ vol' # vol))
  /\ UNCHANGED <<spec, mem, objs, pass, index, ingestVars, left>>

outage(p) ==
  /\ p \in up /\ Spend("fault")
  /\ up' = up \ {p}
  /\ UNCHANGED <<spec, mem, objs, vol, pass, taken, index, ingestVars>>

----------------------------------------------------------------------------
(* The user and time. *)

flip ==
  /\ Spend("flip")
  /\ spec' = [enabled |-> ~spec.enabled, gen |-> spec.gen + 1]
  /\ UNCHANGED <<mem, stackVars, ingestVars>>

\* A helm apply strips the annotation.
helmApply ==
  /\ repo.stamp # 0 /\ Spend("fault")
  /\ repo' = [repo EXCEPT !.stamp = 0, !.asked = FALSE]
  /\ UNCHANGED <<spec, mem, stackVars, hist, jobs, cm>>

stabilises ==
  /\ mem.ready = "fresh"
  /\ mem' = [mem EXCEPT !.ready = "stable"]
  /\ UNCHANGED <<spec, stackVars, ingestVars, left>>

nextSecond ==
  /\ repo.sameSecond
  /\ repo' = [repo EXCEPT !.sameSecond = FALSE]
  /\ UNCHANGED <<spec, mem, stackVars, hist, jobs, cm, left>>

----------------------------------------------------------------------------
NewRepo == [phase |-> "", commit |-> 0, job |-> NoJob, fails |-> 0,
            stamp |-> 0, asked |-> FALSE, sameSecond |-> FALSE]

\* A new Project, one that has been running, or one whose repository an
\* older operator left failed without a failure to its name.
Init ==
  \E c \in Cases :
    /\ left = [push |-> c.push, flip |-> c.flip, fault |-> c.fault, crash |-> c.crash]
    /\ spec = [enabled |-> TRUE, gen |-> 1]
    /\ hist = {1} /\ jobs = {} /\ pass = 0 /\ taken = FALSE
    /\ IF c.from = "new"
       THEN /\ mem = [phase |-> "", ready |-> "none", dgen |-> 0]
            /\ objs = {} /\ up = {} /\ index = FALSE /\ cm = 0
            /\ vol = [v \in Volumes |-> NewVolume]
            /\ repo = NewRepo
       ELSE /\ mem = [phase |-> "Ready", ready |-> "stable", dgen |-> 0]
            /\ objs = Parts /\ up = Serving /\ index = TRUE /\ cm = 1
            /\ vol = [v \in Volumes |-> [there |-> TRUE, retained |-> FALSE, data |-> TRUE,
                                        refs |-> IF v = "pg" THEN {"Cluster"} ELSE {}]]
            /\ repo = [NewRepo EXCEPT !.commit = 1,
                                     !.phase = IF c.from = "legacy" THEN "Failed" ELSE "Ingested"]

Next ==
  \/ reconcileMemory \/ reconcileRepository \/ scheduleNextReingest
  \/ handlePush
  \/ jobStep \/ jobExpires
  \/ start \/ (\E p \in Serving : outage(p))
  \/ flip \/ helmApply
  \/ stabilises \/ nextSecond

Spec == Init /\ [][Next]_vars

Fairness ==
  /\ WF_vars(reconcileMemory)
  /\ WF_vars(reconcileRepository)
  /\ WF_vars(scheduleNextReingest)
  /\ WF_vars(jobStep)
  /\ WF_vars(jobExpires)
  /\ WF_vars(start)
  /\ WF_vars(stabilises)
  /\ WF_vars(nextSecond)

FairSpec == Spec /\ Fairness

----------------------------------------------------------------------------
JobNames == [since : 0 .. MaxPushes + 1, stamp : Stamps, fails : 0 .. MaxFails]

\* Every variable has its type: no recorded commit is one the branch never
\* had, no Job is named after a failure count beyond the full re-ingest.
TypeOK ==
  /\ spec \in [enabled : BOOLEAN, gen : 1 .. MaxFlips + 1]
  /\ mem \in [phase : Phases, ready : {"none", "fresh", "stable"}, dgen : 0 .. MaxFlips + 1]
  /\ objs \subseteq Parts /\ up \subseteq objs \cap Serving
  /\ vol \in [Volumes -> [there : BOOLEAN, refs : SUBSET {"Project", "Cluster"},
                          retained : BOOLEAN, data : BOOLEAN]]
  /\ pass \in 0 .. MaxFlips + 1 /\ taken \in BOOLEAN
  /\ index \in BOOLEAN /\ (index => "index" \in objs)
  /\ hist \subseteq 1 .. MaxPushes + 1
  /\ repo \in [phase : RepoPhases, commit : 0 .. MaxPushes + 1, job : JobNames \cup {NoJob},
               fails : 0 .. MaxFails,
               stamp : Stamps, asked : BOOLEAN, sameSecond : BOOLEAN]
  /\ jobs \subseteq [name : JobNames, st : {"new", "cloned", "done", "failed"},
                     sha : 0 .. MaxPushes + 1, fit : BOOLEAN]
  /\ cm \in 0 .. MaxPushes + 1

\* What was ingested survives every switch: as long as the repository says
\* it was ingested, the postgres and neo4j volumes hold the corpus, whatever
\* teardowns, failed passes and garbage collections came in between
\* (project_memory_disable.go: "must never be a data-destruction request").
\* One case is left out, which the code does not exclude: cnpg makes itself the
\* owner of a volume again after the pass stripped it and before that pass
\* deletes the Cluster.
CorpusKept == ~taken /\ repo.commit # 0 => \A v \in Volumes : vol[v].there /\ vol[v].data

\* A switch completes, whichever pass failed half way: memory off for good is
\* torn down to the last object, and memory left on becomes stably ready, so
\* that the ingest is not held for ever (disableMemory, reconcileMemory).
SwitchCompletes ==
  /\ <>[]~spec.enabled => <>[](mem.phase = "Disabled" /\ objs = {})
  /\ <>[]spec.enabled => <>[]MemoryStablyReady(mem)

\* Every head is ingested in the end when memory stays on: lost deliveries,
\* pushes swallowed by a running Job, rewritten history, failed Jobs and
\* results lost to a crash are made up for.
HeadIngested == <>[]spec.enabled => []<>(repo.commit = Tip)
============================================================================

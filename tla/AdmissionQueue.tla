--------------------------- MODULE AdmissionQueue ---------------------------
(***************************************************************************)
(* Who may run: the queue of events (internal/queue), the dispatcher that  *)
(* admits them into the alert pool and the normal pool                     *)
(* (queue_controller.go), the tickets the Task reconciler cuts for its     *)
(* pods (ensureTicket), and the ceiling on live pods with its two halves,  *)
(* minting and resumption, and its eviction (livepods.go).                 *)
(*                                                                         *)
(* Enqueuers run concurrently and split at their API calls.  The           *)
(* dispatcher is one worker; a pass is a record with what it read, and a   *)
(* crash or a failed call loses the record.  Sequence numbers are only     *)
(* compared, so the gaps between them are closed.  The UID of an event is only *)
(* compared with the one its Task was minted by, so it is the link `by`,   *)
(* which dies with the event.  The states "" and Queued of an event are    *)
(* one: the code tests them together.                                      *)
(***************************************************************************)
EXTENDS Integers, FiniteSets

CONSTANTS
  Items,              \* natural keys of work to mint, <<0, name>>: an alert rule, an issue
  KindOf,             \* the Task kind of an item
  Adopts,             \* the items that adopt a dependency upgrade's merge request
  TaskIds,            \* names a Task can get, from 1
  Enqueuers,          \* webhooks, cron scans, sweeps
  AlertCapacity, QueueCapacity,   \* the pools
  MaxLivePods,        \* the ceiling on live conversations
  Subscription,       \* budget mode: usage is judged per event, not per pool
  Levels,             \* what a pass may find held: pools and kinds by the budget, or all
                      \* by a pause (maxConcurrentAgents = 0)
  CeilingKinds,       \* kinds with a spawn ceiling of their own
  Handoffs,           \* does a stopped agent leave a handoff note?
  MaxEvents, MaxFaults, MaxBounces, MaxReplies   \* bounds

Classes == {"alert", "normal"}

ASSUME QueueAssumption ==
  /\ AlertCapacity \in Nat \ {0} /\ QueueCapacity \in Nat \ {0}
  /\ MaxLivePods \in Nat \ {0}
  /\ Handoffs \in SUBSET BOOLEAN /\ Subscription \in BOOLEAN
  /\ Items \subseteq {0} \X STRING /\ <<0, "none">> \notin Items /\ TaskIds \subseteq Nat \ {0}
  /\ Adopts \subseteq Items /\ KindOf \in [Items -> {"implement", "incident", "refine", "upgrade"}]
  /\ {} \in Levels /\ Levels \subseteq SUBSET (Classes \cup CeilingKinds \cup {"paused"})
  /\ {MaxEvents, MaxFaults, MaxBounces, MaxReplies} \subseteq Nat

VARIABLES
  qe,         \* the QueuedEvent of each natural key
  seq,        \* the sequence number of each event, 0 for none
  enq,        \* the calls of EnqueueEvent in progress
  task,       \* the Tasks
  seen,       \* the Tasks as the manager's cache has them
  d,          \* the dispatcher's pass
  stale,      \* adopted merge requests that landed, closed or found an owner
  left        \* what is left of the bounds

vars == <<qe, seq, enq, task, seen, d, stale, left>>

----------------------------------------------------------------------------
(* Objects. *)

Agents == {KindOf[i] : i \in Items} \cup {"review"}
Endless == 99     \* the value of MaxEvents that sets no bound
Tickets == TaskIds \X Agents
Keys == Items \cup Tickets
NoEvent == [st |-> "none"]
NoTask == [st |-> "none"]
None == <<0, "none">>
NoAgent == "none"

States == {"", "new", "under-implementation", "awaiting-review", "merged", "done"}

Live(st) == st \in {"under-implementation", "awaiting-review"}
preLive(st) == st \in {"", "new"}
AgentKindFor(st, kind) ==
  CASE st = "under-implementation" -> kind
    [] st = "awaiting-review" -> "review"
    [] OTHER -> NoAgent

\* status.state, status.parkReason, the pod, a human's unanswered reply, and
\* whether the Task was ever sent back to implementation.
Task == [st : States, parked : BOOLEAN, item : Items, by : Items \cup {None},
         pod : {"none", "busy", "idle"}, reply : BOOLEAN, back : BOOLEAN]

Event == [st : {"queued", "admitted"}, ref : TaskIds \cup {0}, kind : Agents, starving : BOOLEAN]

NewEvent(kind) == [st |-> "queued", ref |-> 0, kind |-> kind, starving |-> FALSE]

Kind(t) == KindOf[task[t].item]
IsAdmissionTicket(k) == k[1] # 0
IsAdoptedUpgradeMint(k) == k \in Adopts

\* An alert opens in the alert pool; so does a ticket for an incident agent.
Class(k) ==
  IF IsAdmissionTicket(k)
  THEN IF k[2] = "incident" THEN "alert" ELSE "normal"
  ELSE IF KindOf[k] = "incident" THEN "alert" ELSE "normal"

\* Alerts, and every ticket of an incident Task, come first.
effectivePriority(k) == IF Class(k) = "alert" \/ qe[k].kind = "incident" THEN 0 ELSE 2

Capacity(c) == IF c = "alert" THEN AlertCapacity ELSE QueueCapacity

Exists(t) == task[t] # NoTask
Done(r) == r.st = "done"
isQueued(k) == qe[k].st = "queued"
isAdmitted(k) == qe[k].st = "admitted"
Events == {k \in Keys : qe[k] # NoEvent}

queueOrderBefore(a, b) ==
  \/ effectivePriority(a) < effectivePriority(b)
  \/ /\ effectivePriority(a) = effectivePriority(b)
     /\ seq[a] < seq[b]

queueTaskHoldsSlot(r) ==
  /\ r # NoTask /\ ~Done(r) /\ ~r.parked
  /\ r.st = "" \/ Live(r.st)

\* Mutant: a ticket is compared with the Task's kind, not with its state's agent.
M_ticketSpentByKind(k, r) ==
  IF ~IsAdmissionTicket(k) THEN ~preLive(r.st) ELSE KindOf[r.item] # k[2]

\* Mutant: a mint holds its slot until the Task is gone.
M_ticketSpentNoMint(k, r) ==
  /\ IsAdmissionTicket(k)
  /\ LET cur == AgentKindFor(r.st, KindOf[r.item])
     IN IF cur # NoAgent THEN cur # k[2] ELSE ~preLive(r.st)

\* A mint is spent once its Task is in the state machine, a ticket once the
\* Task runs another agent.
ticketSpent(k, r) ==
  IF ~IsAdmissionTicket(k) THEN ~preLive(r.st)
  ELSE LET cur == AgentKindFor(r.st, KindOf[r.item])
       IN IF cur # NoAgent THEN cur # k[2] ELSE ~preLive(r.st)

poolInflight(c) ==
  Cardinality({k \in Keys : /\ Class(k) = c /\ isAdmitted(k)
                            /\ queueTaskHoldsSlot(task[qe[k].ref])
                            /\ ~ticketSpent(k, task[qe[k].ref])})

hasStarvingPriority2(ks) == \E k \in ks : effectivePriority(k) = 2 /\ qe[k].starving

countLive(ts) == {t \in TaskIds : ts[t] # NoTask /\ Live(ts[t].st) /\ ~ts[t].parked}
LiveHasRoom == Cardinality(countLive(seen)) < MaxLivePods

\* A parked Task that only the ceiling keeps from answering its human.
resumptionBlockedOnRoom(t) == Exists(t) /\ task[t].parked /\ task[t].reply /\ Live(task[t].st)

\* Mutant: nothing is kept back for an owed resumption.
M_liveMintBudgetNoOwed ==
  MaxLivePods - Cardinality(countLive(task))
    - Cardinality({t \in TaskIds : Exists(t) /\ ~task[t].parked /\ preLive(task[t].st)})

liveMintBudget ==
  LET pending == {t \in TaskIds : Exists(t) /\ ~task[t].parked /\ preLive(task[t].st)}
      owed == {t \in TaskIds : resumptionBlockedOnRoom(t)}
  IN MaxLivePods - Cardinality(countLive(task)) - Cardinality(pending) - Cardinality(owed)

\* A name no object refers to (names are generated, so none is used twice).
FreeIds == {t \in TaskIds : /\ ~Exists(t) /\ seen[t] = NoTask
                            /\ \A a \in Agents : qe[<<t, a>>] = NoEvent
                            /\ \A k \in Items : qe[k] # NoEvent => qe[k].ref # t}

\* The events other than ks that come no later than k.
Upto(k, ks) == {j \in Keys \ ks : 0 < seq[j] /\ seq[j] <= seq[k]}

\* Deleting events: their UIDs match no more, and the numbers of the others close
\* up, since only their order is ever read.
DeleteEvents(ks) ==
  /\ qe' = [k \in Keys |-> IF k \in ks THEN NoEvent ELSE qe[k]]
  /\ seq' = [k \in Keys |-> IF k \in ks THEN 0 ELSE Cardinality(Upto(k, ks))]

\* After a write of a Task the cache has it at once, unless it is behind already.
Hear == seen' = IF seen = task THEN task' ELSE seen

\* A write of a Task.  It may be the first that the cache does not hear of;
\* nothing says how many follow before it catches up.
Write(t, r) ==
  /\ task' = [task EXCEPT ![t] = r]
  /\ \/ Hear /\ UNCHANGED left
     \/ left.faults > 0 /\ left' = [left EXCEPT !.faults = @ - 1] /\ seen' = seen

Unlink(ts, ks) ==
  [t \in TaskIds |-> IF ts[t] # NoTask /\ ts[t].by \in ks THEN [ts[t] EXCEPT !.by = None] ELSE ts[t]]

Idle == [at |-> "idle", spent |-> {}, todo |-> [c \in Classes |-> {}],
         n |-> [c \in Classes |-> 0], room |-> -1, reserve |-> 0, pick |-> None, ref |-> 0]

----------------------------------------------------------------------------
(* Enqueueing. *)

dedupExists(k) ==
  \/ qe[k] # NoEvent
  \/ \E t \in TaskIds : seen[t] # NoTask /\ seen[t].item = k /\ ~Done(seen[t])

\* EnqueueEvent, first call: is there live work for the key?
CheckDup(e, k) ==
  /\ enq[e] = None /\ ~dedupExists(k) /\ k \notin stale /\ left.events > 0
  /\ enq' = [enq EXCEPT ![e] = k]
  /\ left' = IF MaxEvents = Endless THEN left ELSE [left EXCEPT !.events = @ - 1]
  /\ UNCHANGED <<qe, seq, task, seen, d, stale>>

\* SeqSource.Next: the next number of the project, by a compare-and-swap that
\* starts over when it loses.
SeqNext(k) == [seq EXCEPT ![k] = Cardinality(Events) + 1]

\* The rest of EnqueueEvent: a number and the create.  The name is a function
\* of the key, so a second one collides and counts as a duplicate.
CreateEvent(e) ==
  /\ enq[e] # None
  /\ LET k == enq[e]
     IN IF qe[k] = NoEvent
        THEN /\ qe' = [qe EXCEPT ![k] = NewEvent(KindOf[k])]
             /\ seq' = SeqNext(k)
        ELSE UNCHANGED <<qe, seq>>
  /\ enq' = [enq EXCEPT ![e] = None]
  /\ UNCHANGED <<task, seen, d, stale, left>>

\* An hour in the queue.
Starve(k) ==
  /\ isQueued(k) /\ ~qe[k].starving /\ effectivePriority(k) = 2
  /\ qe' = [qe EXCEPT ![k].starving = TRUE]
  /\ UNCHANGED <<seq, enq, task, seen, d, stale, left>>

\* ensureTicket: the reconciler of a Task that the cache has in a live state
\* cuts the ticket for its agent, once.
ensureTicket(t) ==
  /\ seen[t] # NoTask /\ Live(seen[t].st) /\ ~seen[t].parked
  /\ LET k == <<t, AgentKindFor(seen[t].st, KindOf[seen[t].item])>>
     IN /\ qe[k] = NoEvent
        /\ qe' = [qe EXCEPT ![k] = NewEvent(KindOf[seen[t].item])]
        /\ seq' = SeqNext(k)
  /\ UNCHANGED <<enq, task, seen, d, stale, left>>

Admitted(t) == isAdmitted(<<t, AgentKindFor(task[t].st, Kind(t))>>)

----------------------------------------------------------------------------
(* The dispatcher. *)

\* The admitted events whose Task is gone, finished or past them, by the cache.
Spent == {k \in Keys : /\ isAdmitted(k)
                       /\ LET r == seen[qe[k].ref] IN r = NoTask \/ Done(r) \/ ticketSpent(k, r)}

\* Reconcile lists through the cache, and picks them by that list.
ListSpent ==
  /\ d.at = "idle" /\ Spent # {}
  /\ d' = [Idle EXCEPT !.at = "cleaning", !.spent = Spent]
  /\ UNCHANGED <<qe, seq, enq, task, seen, stale, left>>

\* reconcileDone deletes them one by one, in some order, and does not look at
\* them again.
reconcileDone(k) ==
  /\ d.at = "cleaning" /\ k \in d.spent /\ \A j \in d.spent : seq[k] <= seq[j]
  /\ DeleteEvents({k})
  /\ task' = Unlink(task, {k}) /\ seen' = Unlink(seen, {k})
  /\ d' = [d EXCEPT !.spent = @ \ {k}]
  /\ UNCHANGED <<enq, stale, left>>

\* Then it lists again, for admission.  The two lists of a pass that has nothing
\* to delete are one.
Relist ==
  /\ Events # {}
  /\ (d.at = "cleaning" /\ d.spent = {}) \/ (d.at = "idle" /\ Spent = {})
  /\ d' = [Idle EXCEPT !.at = "listed",
                    !.todo = [c \in Classes |-> {k \in Keys : isQueued(k) /\ Class(k) = c}]]
  /\ UNCHANGED <<qe, seq, enq, task, seen, stale, left>>

\* The subscription's usage: a kind's own ceiling, else the pool's, and
\* never the refine cron.
HeldOnUsage(k, level) ==
  /\ Subscription /\ qe[k].kind # "refine"
  /\ IF qe[k].kind \in CeilingKinds THEN qe[k].kind \in level ELSE Class(k) \in level

\* admit judges the budget once and reads the slots in use past the cache.  A
\* paused project admits nothing; a blocked pool is passed over whole, unless
\* usage is judged per event.
admit(level) ==
  /\ d.at = "listed"
  /\ LET held(c) == "paused" \in level \/ (c \in level /\ ~Subscription)
     IN d' = [d EXCEPT !.at = "pool",
                       !.todo = [c \in Classes |-> IF held(c) THEN {} ELSE {k \in d.todo[c] : ~HeldOnUsage(k, level)}],
                       !.n = [c \in Classes |-> poolInflight(c)],
                       !.reserve = IF ~held("normal") /\ hasStarvingPriority2(d.todo["normal"]) THEN 1 ELSE 0]
  /\ UNCHANGED <<qe, seq, enq, task, seen, stale, left>>

Open(c) == d.todo[c] # {} /\ d.n[c] < Capacity(c)

\* The alert pool first, until it is drained or full.
Pool == IF Open("alert") THEN "alert" ELSE "normal"

\* The next event of the pool.  Only the dispatcher deletes events, so what
\* it listed is still there.
Consider(k) == /\ d.at = "pool" /\ Open(Pool) /\ k \in d.todo[Pool]
               /\ \A j \in d.todo[Pool] \ {k} : queueOrderBefore(k, j)

Skip(k) == d' = [d EXCEPT !.todo[Class(k)] = @ \ {k}]

\* The last free slot of the normal pool is kept for a starving event.
Reserved(k) == /\ Pool = "normal" /\ d.reserve > 0 /\ effectivePriority(k) # 2
               /\ d.n["normal"] >= QueueCapacity - d.reserve

PassOver(k) ==
  /\ Consider(k) /\ Reserved(k)
  /\ Skip(k)
  /\ UNCHANGED <<qe, seq, enq, task, seen, stale, left>>

\* Both pools are drained or full: the end of the pass.
PassDone ==
  /\ d.at = "pool" /\ ~Open("alert") /\ ~Open("normal")
  /\ d' = Idle
  /\ UNCHANGED <<qe, seq, enq, task, seen, stale, left>>

Eligible(k) == Consider(k) /\ ~Reserved(k)

Picked(k, t) == d' = [d EXCEPT !.at = "made", !.pick = k, !.ref = t]

\* admitTicket: dropped if its Task is gone, finished or runs no agent now,
\* else the slot is the Task's.  (It defers a ticket of a Task that has not
\* been triaged; no reconciler cuts one.)
dropTicket(k) ==
  /\ Eligible(k) /\ IsAdmissionTicket(k)
  /\ LET r == task[k[1]]
     IN r = NoTask \/ Done(r) \/ (AgentKindFor(r.st, qe[k].kind) = NoAgent /\ ~preLive(r.st))
  /\ DeleteEvents({k}) /\ Skip(k)
  /\ UNCHANGED <<enq, task, seen, stale, left>>

admitTicket(k) ==
  /\ Eligible(k) /\ IsAdmissionTicket(k)
  /\ Exists(k[1]) /\ AgentKindFor(task[k[1]].st, qe[k].kind) # NoAgent
  /\ Picked(k, k[1])
  /\ UNCHANGED <<qe, seq, enq, task, seen, stale, left>>

\* Mutant: the dispatcher does not look for a Task the event has minted.
M_mintedTask(k) == {}

mintedTask(k) == {t \in TaskIds : Exists(t) /\ task[t].by = k}

\* The budget is read when it is first needed and again while it is negative.
Room == IF d.room >= 0 THEN d.room ELSE liveMintBudget

\* At the ceiling the event stays queued.
MintHeld(k) ==
  /\ Eligible(k) /\ ~IsAdmissionTicket(k) /\ mintedTask(k) = {} /\ Room <= 0
  /\ d' = [d EXCEPT !.todo[Class(k)] = @ \ {k}, !.room = Room]
  /\ UNCHANGED <<qe, seq, enq, task, seen, stale, left>>

BuildTask(k) == [st |-> "", parked |-> FALSE, item |-> k, by |-> k, pod |-> "none", reply |-> FALSE,
                 back |-> FALSE]

\* The Task is created; the event is marked in a later call.
MintTask(k, t) ==
  /\ Eligible(k) /\ ~IsAdmissionTicket(k) /\ mintedTask(k) = {} /\ Room > 0
  /\ ~(IsAdoptedUpgradeMint(k) /\ k \in stale)
  /\ t \in FreeIds
  /\ Write(t, BuildTask(k))
  /\ d' = [d EXCEPT !.at = "made", !.pick = k, !.ref = t, !.room = Room - 1]
  /\ UNCHANGED <<qe, seq, enq, stale>>

\* admitAdoptedUpgrade asks again: the merge request may have landed, closed
\* or found an owner while the event waited.
DropAdoption(k) ==
  /\ Eligible(k) /\ IsAdoptedUpgradeMint(k) /\ mintedTask(k) = {} /\ Room > 0 /\ k \in stale
  /\ DeleteEvents({k})
  /\ d' = [d EXCEPT !.todo[Class(k)] = @ \ {k}, !.room = Room]
  /\ UNCHANGED <<enq, task, seen, stale, left>>

\* A Task this event minted in a pass that died: taken over, or deleted if
\* it has finished meanwhile.
FindMinted(k) ==
  /\ Eligible(k) /\ ~IsAdmissionTicket(k)
  /\ \E t \in mintedTask(k) :
       IF Done(task[t])
       THEN Write(t, NoTask) /\ Skip(k)
       ELSE Picked(k, t) /\ UNCHANGED <<task, seen, left>>
  /\ UNCHANGED <<qe, seq, enq, stale>>

\* Mutant: the event is marked without the Task it stands for.
M_MarkAdmitted ==
  /\ d.at = "made"
  /\ qe' = [qe EXCEPT ![d.pick].st = "admitted", ![d.pick].starving = FALSE]
  /\ d' = [d EXCEPT !.at = "pool", !.pick = None, !.ref = 0,
                    !.todo[Class(d.pick)] = @ \ {d.pick}, !.n[Class(d.pick)] = @ + 1]
  /\ UNCHANGED <<seq, enq, task, seen, stale, left>>

\* patchQueuedEventStatus: the event, read again, is marked admitted.
MarkAdmitted ==
  /\ d.at = "made"
  /\ qe' = [qe EXCEPT ![d.pick].st = "admitted", ![d.pick].ref = d.ref, ![d.pick].starving = FALSE]
  /\ d' = [d EXCEPT !.at = "pool", !.pick = None, !.ref = 0,
                    !.todo[Class(d.pick)] = @ \ {d.pick}, !.n[Class(d.pick)] = @ + 1]
  /\ UNCHANGED <<seq, enq, task, seen, stale, left>>

\* A failed call, or the end of the process, loses the pass.  It matters between
\* two writes of a pass; elsewhere it is a pass that ends early.
Crash ==
  /\ d.at \in {"cleaning", "made"} /\ left.faults > 0
  /\ d' = Idle /\ left' = [left EXCEPT !.faults = @ - 1]
  /\ UNCHANGED <<qe, seq, enq, task, seen, stale>>

\* The informer delivers.
SyncCache ==
  /\ seen # task /\ seen' = task
  /\ UNCHANGED <<qe, seq, enq, task, d, stale, left>>

\* The merge request of an adopted upgrade lands, closes or finds an owner.
MRMoves(k) ==
  /\ k \in Adopts \ stale /\ stale' = stale \cup {k}
  /\ UNCHANGED <<qe, seq, enq, task, seen, d, left>>

----------------------------------------------------------------------------
(* Tasks and pods, as far as slots go. *)

Set(t, r) == Write(t, r) /\ UNCHANGED <<qe, seq, enq, d, stale>>

\* The create edge and triage.
Triage(t) ==
  /\ Exists(t) /\ preLive(task[t].st)
  /\ Set(t, [task[t] EXCEPT !.st = IF @ = "" THEN "new" ELSE "under-implementation"])

\* The pod of an admitted ticket and its first turn.
StartPod(t) ==
  /\ Exists(t) /\ Live(task[t].st) /\ ~task[t].parked /\ task[t].pod = "none" /\ Admitted(t)
  /\ Set(t, [task[t] EXCEPT !.pod = "busy"])

TurnEnds(t) ==
  /\ Exists(t) /\ task[t].pod = "busy" /\ ~task[t].parked
  /\ Set(t, [task[t] EXCEPT !.pod = "idle"])

\* The outcome of an agent moves its Task on.
Outcome(t) ==
  /\ Exists(t) /\ task[t].pod = "idle" /\ ~task[t].parked
  /\ Set(t, [task[t] EXCEPT !.pod = "none",
                            !.st = IF @ = "under-implementation" THEN "awaiting-review" ELSE "merged"])

\* The merge: it lands, or the Task goes back to implementation, which asks
\* no ceiling.
Finish(t) ==
  /\ Exists(t) /\ task[t].st = "merged"
  /\ Set(t, [task[t] EXCEPT !.st = "done"])

Bounce(t) ==
  /\ Exists(t) /\ task[t].st = "merged" /\ left.bounces > 0
  /\ task' = [task EXCEPT ![t].st = "under-implementation", ![t].back = TRUE] /\ Hear
  /\ left' = [left EXCEPT !.bounces = @ - 1]
  /\ UNCHANGED <<qe, seq, enq, d, stale>>

\* A human closes the Task's issue, or a deadline of its state ends it.
Withdraw(t) ==
  /\ Exists(t) /\ Live(task[t].st) /\ ~task[t].parked /\ left.bounces > 0
  /\ task' = [task EXCEPT ![t].st = "done", ![t].pod = "none"] /\ Hear
  /\ left' = [left EXCEPT !.bounces = @ - 1]
  /\ UNCHANGED <<qe, seq, enq, d, stale>>

Reap(t) ==
  /\ Exists(t) /\ Done(task[t])
  /\ Set(t, NoTask)

\* The end of a conversation.  An agent that left a handoff note is waiting
\* for an answer and parks; a silent one gets a new pod.
liveHandoffAndPark(t, asked, down) ==
  IF asked THEN [task[t] EXCEPT !.parked = TRUE, !.pod = IF down THEN "none" ELSE @]
  ELSE [task[t] EXCEPT !.pod = "none"]

\* The pod's clock runs out while nobody speaks.  The operator may stop
\* between the park and the deletion of the pod.
ConversationIdle(t) ==
  /\ Exists(t) /\ Live(task[t].st) /\ task[t].pod = "idle" /\ ~task[t].parked
  /\ \E asked \in Handoffs, down \in BOOLEAN : Set(t, liveHandoffAndPark(t, asked, down))

repairParkedWithLivePod(t) ==
  /\ Exists(t) /\ task[t].parked /\ task[t].pod # "none"
  /\ Set(t, [task[t] EXCEPT !.pod = "none"])

\* The human answers.
Reply(t) ==
  /\ Exists(t) /\ task[t].parked /\ ~task[t].reply /\ left.replies > 0
  /\ task' = [task EXCEPT ![t].reply = TRUE] /\ Hear
  /\ left' = [left EXCEPT !.replies = @ - 1]
  /\ UNCHANGED <<qe, seq, enq, d, stale>>

\* driveUnparks: the reply resumes the Task if the ceiling has room.
Resume(t) ==
  /\ Exists(t) /\ task[t].parked /\ task[t].reply /\ LiveHasRoom
  /\ Set(t, [task[t] EXCEPT !.parked = FALSE, !.reply = FALSE])

\* Not the one that works and not the one that never started.
evictionCandidates == {t \in countLive(seen) : seen[t].pod = "idle"}

\* enforceLivePodCeiling: over the ceiling, one conversation per pass is ended.
enforceLivePodCeiling(t) ==
  /\ Cardinality(countLive(seen)) > MaxLivePods
  /\ t \in evictionCandidates /\ t \in countLive(task)
  /\ \E asked \in Handoffs, down \in BOOLEAN : Set(t, liveHandoffAndPark(t, asked, down))

----------------------------------------------------------------------------

Init ==
  /\ qe = [k \in Keys |-> NoEvent] /\ seq = [k \in Keys |-> 0]
  /\ enq = [e \in Enqueuers |-> None]
  /\ task = [t \in TaskIds |-> NoTask] /\ seen = task
  /\ d = Idle /\ stale = {}
  /\ left = [events |-> MaxEvents, faults |-> MaxFaults, bounces |-> MaxBounces, replies |-> MaxReplies]

Enqueue == \E e \in Enqueuers : (\E k \in Items : CheckDup(e, k)) \/ CreateEvent(e)

Dispatch ==
  \/ ListSpent \/ Relist \/ (\E level \in Levels : admit(level)) \/ PassDone \/ MarkAdmitted
  \/ \E k \in Keys : \/ reconcileDone(k) \/ PassOver(k) \/ dropTicket(k) \/ admitTicket(k) \/ MintHeld(k)
                     \/ DropAdoption(k) \/ FindMinted(k)
                     \/ \E t \in TaskIds : MintTask(k, t)

TaskSteps(t) ==
  \/ ensureTicket(t) \/ Triage(t) \/ StartPod(t) \/ TurnEnds(t) \/ Outcome(t)
  \/ Finish(t) \/ Reap(t) \/ ConversationIdle(t) \/ repairParkedWithLivePod(t)
  \/ Resume(t) \/ enforceLivePodCeiling(t)

Environment ==
  \/ Crash \/ \E t \in TaskIds : Reply(t) \/ Bounce(t) \/ Withdraw(t)
  \/ \E k \in Items : MRMoves(k)

Next ==
  \/ Enqueue \/ Dispatch \/ SyncCache \/ Environment
  \/ \E k \in Keys : Starve(k)
  \/ \E t \in TaskIds : TaskSteps(t)

Spec == Init /\ [][Next]_vars

\* What the reconciler of a Task and its pod do next: at most one is possible.
Carry(t) ==
  Triage(t) \/ StartPod(t) \/ TurnEnds(t) \/ Finish(t) \/ Reap(t) \/ repairParkedWithLivePod(t)

\* The scheduling the code gives: watches, requeues and the backstop run the
\* dispatcher and the reconcilers, the cache catches up, turns end, and
\* the window rolls or the pause ends often enough.  Nothing is assumed of
\* enqueuers, humans or merge requests.
Fairness ==
  /\ WF_vars(Dispatch) /\ WF_vars(SyncCache) /\ SF_vars(admit({}))
  /\ \A k \in Keys : WF_vars(Starve(k))
  /\ \A t \in TaskIds :
       /\ WF_vars(ensureTicket(t)) /\ WF_vars(Carry(t)) /\ WF_vars(Outcome(t) \/ ConversationIdle(t))
       /\ WF_vars(Resume(t)) /\ WF_vars(enforceLivePodCeiling(t))

FairSpec == Spec /\ Fairness

----------------------------------------------------------------------------
(* Properties. *)

\* The shape of the state: an admitted event names the Task it stands for, and
\* every event has one place in the order.
TypeOK ==
  /\ qe \in [Keys -> Event \cup {NoEvent}]
  /\ \A k \in Keys : isAdmitted(k) => qe[k].ref # 0
  /\ seq \in [Keys -> 0 .. Cardinality(Events)]
  /\ \A k \in Keys : seq[k] = 0 <=> qe[k] = NoEvent
  /\ \A j, k \in Events : seq[j] = seq[k] => j = k
  /\ task \in [TaskIds -> Task \cup {NoTask}] /\ seen \in [TaskIds -> Task \cup {NoTask}]
  /\ stale \subseteq Items
  /\ d.room \in Int /\ d.todo \in [Classes -> SUBSET Keys]

\* An event mints one Task, though the pass that created it died before it
\* marked the event: mintedTask finds it by the event's UID (admit,
\* queue_controller.go).
OneTaskPerEvent ==
  \A k \in Items : Cardinality({t \in TaskIds : Exists(t) /\ task[t].by = k}) <= 1

\* A pod on its Task's first way through the states holds the ticket of the
\* agent the Task runs: the cleaning of spent events does not take it away,
\* however old the copies it lists and however late it deletes (reconcileDone,
\* ticketSpent, ensureTicket).  A Task that was sent back to a state may run on
\* the ticket of its first visit and lose it to a pass that listed it as spent.
PodsAreTicketed ==
  \A t \in TaskIds :
    Exists(t) /\ ~task[t].parked /\ ~task[t].back /\ task[t].pod # "none" => Admitted(t)

\* A human's reply to a parked Task is answered: at the ceiling, minting
\* stands back for it (liveMintBudget's owed resumptions).
ReplyServed == \A t \in TaskIds : resumptionBlockedOnRoom(t) ~> ~resumptionBlockedOnRoom(t)

Waiting(t) == t \in countLive(task) /\ task[t].pod = "none"

\* Where the normal pool has at least two slots, a Task in a live state gets its
\* pod: it does not wait for good for a slot that its own mint, a starving event's
\* reserve or the ceiling keeps from it.  (In a pool of one slot a mint that was
\* admitted first can hold the slot the ceiling makes it wait for.)
LiveGetsPod == \A t \in TaskIds : Waiting(t) ~> ~Waiting(t)

=============================================================================

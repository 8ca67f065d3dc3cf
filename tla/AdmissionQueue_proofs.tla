----------------------- MODULE AdmissionQueue_proofs -----------------------
(***************************************************************************)
(* Proofs about module AdmissionQueue, for any set of items, Tasks and     *)
(* enqueuers and any capacities.  The first part: no event mints two       *)
(* Tasks.  The link `by` from a Task to the event that minted it is set by *)
(* MintTask alone, which looked for such a Task in the API and not in the  *)
(* cache, and the dispatcher is the only writer of links.  The second      *)
(* part: events, their numbers and their tickets.                          *)
(***************************************************************************)
EXTENDS AdmissionQueue, TLAPS, FiniteSetTheorems

Tasks == [TaskIds -> Task \cup {NoTask}]

\* Two Tasks of one event are one Task.
OneMint ==
  \A t, u \in TaskIds :
    Exists(t) /\ Exists(u) /\ task[t].by # None /\ task[t].by = task[u].by => t = u

IInv == task \in Tasks /\ OneMint

----------------------------------------------------------------------------
\* A Task is not the record that stands for none.
LEMMA TaskIsSome == NoTask \notin Task
BY DEF NoTask, Task

\* No item is the name for no event, and an event that is not a ticket is an item.
LEMMA MintKeys ==
  ASSUME NEW k \in Keys, ~IsAdmissionTicket(k)
  PROVE  k \in Items /\ k # None
BY QueueAssumption DEF Keys, Tickets, IsAdmissionTicket, None

\* A step that leaves every link alone, or cuts it, or deletes its Task.
Kept(t) == task'[t] \in Task \cup {NoTask}
           /\ (task'[t] # NoTask => task[t] # NoTask /\ task'[t].by \in {task[t].by, None})

\* Such a step preserves the invariant.
LEMMA KeptStep ==
  ASSUME IInv, task' \in Tasks, \A t \in TaskIds : Kept(t)
  PROVE  IInv'
BY DEF IInv, OneMint, Exists, Kept

\* A write of one Task that keeps its link.
LEMMA WriteStep ==
  ASSUME IInv, NEW t \in TaskIds, NEW r \in Task \cup {NoTask}, Write(t, r),
         r # NoTask => Exists(t) /\ r.by = task[t].by
  PROVE  IInv'
<1>1. task' = [task EXCEPT ![t] = r] /\ task \in Tasks
  BY DEF Write, IInv
<1>2. task' \in Tasks
  BY <1>1 DEF Tasks
<1>3. \A u \in TaskIds : Kept(u)
  BY <1>1 DEF Kept, Tasks, Exists
<1> QED BY <1>2, <1>3, KeptStep

\* Init has no Task.
LEMMA InitIInv == Init => IInv
BY DEF Init, IInv, OneMint, Tasks, Exists

\* The dispatcher: only a mint makes a link, and it found none.
LEMMA DispatchKeeps == ASSUME IInv, Dispatch PROVE IInv'
<1>0. task \in Tasks
  BY DEF IInv
<1>1. ASSUME NEW j \in Keys, reconcileDone(j) PROVE IInv'
  <2>1. PICK ks : task' = Unlink(task, ks)
    BY <1>1 DEF reconcileDone
  <2>2. \A t \in TaskIds : task'[t] = IF task[t] # NoTask /\ task[t].by \in ks
                                      THEN [task[t] EXCEPT !.by = None] ELSE task[t]
    BY <2>1 DEF Unlink
  <2>3. \A r \in Task : [r EXCEPT !.by = None] \in Task /\ [r EXCEPT !.by = None].by = None
    BY DEF Task
  <2>4. task' \in Tasks
    BY <1>0, <2>1, <2>3 DEF Unlink, Tasks
  <2>5. \A t \in TaskIds : Kept(t)
    BY <1>0, <2>2, <2>3 DEF Kept, Tasks
  <2> QED BY <2>4, <2>5, KeptStep
<1>2. ASSUME NEW k \in Keys, NEW t \in TaskIds, MintTask(k, t) PROVE IInv'
  <2>1. /\ task' = [task EXCEPT ![t] = BuildTask(k)]
        /\ mintedTask(k) = {} /\ ~Exists(t)
    BY <1>2 DEF MintTask, Write, FreeIds
  <2>2. k \in Items /\ k # None
    BY <1>2, MintKeys DEF MintTask
  <2>3. BuildTask(k) \in Task /\ BuildTask(k).by = k
    BY <2>2 DEF BuildTask, Task, States
  <2>4. task' \in Tasks
    BY <1>0, <2>1, <2>3 DEF Tasks
  <2>5. \A u \in TaskIds : Exists(u) => task[u].by # k
    BY <2>1 DEF mintedTask
  <2> QED BY <1>0, <2>1, <2>3, <2>4, <2>5 DEF IInv, OneMint, Exists, Tasks
<1>3. ASSUME NEW k \in Keys, FindMinted(k) PROVE IInv'
  <2>1. PICK t \in mintedTask(k) : Write(t, NoTask) \/ UNCHANGED task
    BY <1>3 DEF FindMinted
  <2>2. CASE Write(t, NoTask)
    BY <2>2, WriteStep DEF mintedTask
  <2> QED BY <2>1, <2>2 DEF IInv, OneMint, Exists
<1>4. CASE UNCHANGED task
  BY <1>4 DEF IInv, OneMint, Exists
<1> QED
  BY <1>1, <1>2, <1>3, <1>4
  DEF Dispatch, ListSpent, Relist, admit, PassDone, MarkAdmitted, PassOver, dropTicket,
      admitTicket, MintHeld, DropAdoption

\* Every field but the link may change.
LEMMA FieldsOfTask ==
  ASSUME NEW r \in Task
  PROVE  /\ \A s \in States : [r EXCEPT !.st = s] \in Task /\ [r EXCEPT !.st = s].by = r.by
         /\ \A p \in {"none", "busy", "idle"} :
              /\ [r EXCEPT !.pod = p] \in Task /\ [r EXCEPT !.pod = p].by = r.by
              /\ \A s \in States : [r EXCEPT !.pod = p, !.st = s] \in Task
                                   /\ [r EXCEPT !.pod = p, !.st = s].by = r.by
              /\ [r EXCEPT !.parked = TRUE, !.pod = p] \in Task
              /\ [r EXCEPT !.parked = TRUE, !.pod = p].by = r.by
         /\ [r EXCEPT !.parked = FALSE, !.reply = FALSE] \in Task
         /\ [r EXCEPT !.parked = FALSE, !.reply = FALSE].by = r.by
         /\ r.pod \in {"none", "busy", "idle"}
BY DEF Task

\* The steps of a Task and its pod keep the link.
LEMMA TaskKeeps == ASSUME IInv, NEW t \in TaskIds, TaskSteps(t) PROVE IInv'
<1>0. task \in Tasks
  BY DEF IInv
<1>1. CASE ensureTicket(t)
  BY <1>1 DEF ensureTicket, IInv, OneMint, Exists
<1>2. CASE Reap(t)
  BY <1>2, WriteStep DEF Reap, Set
<1>3. CASE Exists(t) /\ ~ensureTicket(t) /\ ~Reap(t)
  <2>1. task[t] \in Task
    BY <1>0, <1>3 DEF Tasks, Exists
  <2>2. CASE Triage(t) \/ Finish(t)
    <3>1. PICK s \in States : Write(t, [task[t] EXCEPT !.st = s])
      BY <2>1, <2>2 DEF Triage, Finish, Set, States
    <3> QED BY <1>3, <2>1, <3>1, FieldsOfTask, WriteStep
  <2>3. CASE StartPod(t) \/ TurnEnds(t) \/ repairParkedWithLivePod(t)
    <3>1. PICK p \in {"none", "busy", "idle"} : Write(t, [task[t] EXCEPT !.pod = p])
      BY <2>3 DEF StartPod, TurnEnds, repairParkedWithLivePod, Set
    <3> QED BY <1>3, <2>1, <3>1, FieldsOfTask, WriteStep
  <2>4. CASE Outcome(t)
    <3>1. PICK s \in States : Write(t, [task[t] EXCEPT !.pod = "none", !.st = s])
      BY <2>1, <2>4 DEF Outcome, Set, States
    <3> QED BY <1>3, <2>1, <3>1, FieldsOfTask, WriteStep
  <2>5. CASE ConversationIdle(t) \/ enforceLivePodCeiling(t)
    <3>1. PICK asked \in Handoffs, down \in BOOLEAN : Write(t, liveHandoffAndPark(t, asked, down))
      BY <2>5 DEF ConversationIdle, enforceLivePodCeiling, Set
    <3>2. liveHandoffAndPark(t, asked, down) \in Task
          /\ liveHandoffAndPark(t, asked, down).by = task[t].by
      BY <2>1, FieldsOfTask DEF liveHandoffAndPark
    <3> QED BY <1>3, <3>1, <3>2, WriteStep
  <2>6. CASE Resume(t)
    BY <1>3, <2>1, <2>6, FieldsOfTask, WriteStep DEF Resume, Set
  <2> QED BY <1>3, <2>2, <2>3, <2>4, <2>5, <2>6 DEF TaskSteps
<1>4. Exists(t) \/ ensureTicket(t) \/ Reap(t)
  BY DEF TaskSteps, Triage, StartPod, TurnEnds, Outcome, Finish, ConversationIdle,
         repairParkedWithLivePod, Resume, enforceLivePodCeiling, countLive, Exists
<1> QED BY <1>1, <1>2, <1>3, <1>4

\* Humans, the forge and crashes keep the link.
LEMMA EnvironmentKeeps == ASSUME IInv, Environment PROVE IInv'
<1>0. task \in Tasks
  BY DEF IInv
<1>1. CASE UNCHANGED task
  BY <1>1 DEF IInv, OneMint, Exists
<1>2. ASSUME NEW t \in TaskIds, Reply(t) \/ Bounce(t) \/ Withdraw(t) PROVE IInv'
  <2>1. Exists(t) /\ task' \in {[task EXCEPT ![t].reply = TRUE],
                                [task EXCEPT ![t].st = "under-implementation", ![t].back = TRUE],
                                [task EXCEPT ![t].st = "done", ![t].pod = "none"]}
    BY <1>2 DEF Reply, Bounce, Withdraw
  <2>2. task[t] \in Task
    BY <1>0, <2>1 DEF Tasks, Exists
  <2>3. PICK r \in Task : r.by = task[t].by /\ task' = [task EXCEPT ![t] = r]
    <3>1. /\ [task[t] EXCEPT !.reply = TRUE] \in Task
          /\ [task[t] EXCEPT !.reply = TRUE].by = task[t].by
      BY <2>2 DEF Task
    <3>2. /\ [task[t] EXCEPT !.st = "under-implementation", !.back = TRUE] \in Task
          /\ [task[t] EXCEPT !.st = "under-implementation", !.back = TRUE].by = task[t].by
          /\ [task[t] EXCEPT !.st = "done", !.pod = "none"] \in Task
          /\ [task[t] EXCEPT !.st = "done", !.pod = "none"].by = task[t].by
      BY <2>2 DEF Task, States
    <3>3. task' \in {[task EXCEPT ![t] = [task[t] EXCEPT !.reply = TRUE]],
                     [task EXCEPT ![t] = [task[t] EXCEPT !.st = "under-implementation", !.back = TRUE]],
                     [task EXCEPT ![t] = [task[t] EXCEPT !.st = "done", !.pod = "none"]]}
      BY <1>0, <2>1 DEF Tasks
    <3> QED BY <3>1, <3>2, <3>3
  <2>4. task' \in Tasks
    BY <1>0, <2>3 DEF Tasks
  <2>5. \A u \in TaskIds : Kept(u)
    BY <1>0, <2>1, <2>3, TaskIsSome DEF Kept, Tasks, Exists
  <2> QED BY <2>4, <2>5, KeptStep
<1> QED BY <1>1, <1>2 DEF Environment, Crash, MRMoves

\* Every step preserves the invariant.
LEMMA NextIInv == IInv /\ [Next]_vars => IInv'
<1> SUFFICES ASSUME IInv, [Next]_vars PROVE IInv'
  OBVIOUS
<1>1. CASE UNCHANGED task
  BY <1>1 DEF IInv, OneMint, Exists
<1>2. CASE Enqueue \/ SyncCache \/ \E k \in Keys : Starve(k)
  BY <1>1, <1>2 DEF Enqueue, CheckDup, CreateEvent, SyncCache, Starve
<1> QED BY <1>1, <1>2, DispatchKeeps, EnvironmentKeeps, TaskKeeps DEF Next, vars

\* The inductive invariant: a link from a Task to its event is no other Task's.
THEOREM Invariance == Spec => []IInv
BY InitIInv, NextIInv, PTL DEF Spec

\* An event mints one Task, whatever pass dies between the create of the Task
\* and the mark of the event, and however far the cache is behind (admit,
\* mintedTask in queue_controller.go).
THEOREM EventsMintOnce == Spec => []OneTaskPerEvent
<1>1. IInv => OneTaskPerEvent
  <2> SUFFICES ASSUME IInv, NEW k \in Items
               PROVE  Cardinality({t \in TaskIds : Exists(t) /\ task[t].by = k}) <= 1
    BY DEF OneTaskPerEvent
  <2> DEFINE S == {t \in TaskIds : Exists(t) /\ task[t].by = k}
  <2>1. k # None
    BY QueueAssumption DEF None
  <2>2. \A t, u \in S : t = u
    BY <2>1 DEF IInv, OneMint
  <2>3. CASE S = {}
    BY <2>3, FS_EmptySet
  <2>4. CASE S # {}
    <3>1. PICK t \in S : S = {t}
      BY <2>2, <2>4
    <3>2. Cardinality(S) = 1
      <4> HIDE DEF S
      <4> QED BY <3>1, FS_Singleton
    <3> QED BY <3>2
  <2> QED BY <2>3, <2>4
<1> QED BY <1>1, Invariance, PTL

----------------------------------------------------------------------------
(* Events, their numbers and their tickets.                                *)
(*                                                                         *)
(* PodsAreTicketed is not inductive: a ticket may be on its way from the   *)
(* list of a pass to its mark or to its deletion, and it is judged by the  *)
(* Task its reference names, in a copy of any age.  Queue says what a pass *)
(* may have in hand, that the ticket of a Task refers to that Task, and,   *)
(* for a Task that was never sent back, that the cache's copy is of a      *)
(* state on the way to the present one, that a ticket exists only for an   *)
(* agent the cache has seen the Task reach, and that a pass means to       *)
(* delete only the ticket of an agent the Task is past.                    *)

PassFields == {"at", "spent", "todo", "n", "room", "reserve", "pick", "ref"}

\* The objects and what a pass has in hand.
Shapes ==
  /\ task \in Tasks /\ seen \in Tasks
  /\ qe \in [Keys -> Event \cup {NoEvent}]
  /\ enq \in [Enqueuers -> Items \cup {None}]
  /\ stale \subseteq Items
  /\ DOMAIN d = PassFields /\ d.room \in Int /\ d.todo \in [Classes -> SUBSET Keys]

Existing == {t \in TaskIds : Exists(t)}
Bounded == IsFiniteSet(Events) /\ IsFiniteSet(Existing)

\* What the pass listed waits still, in the pool it was listed for.
Listed == \A c \in Classes : \A k \in d.todo[c] : isQueued(k) /\ Class(k) = c

\* A pass has events to delete only before it lists what waits.
Cleaning ==
  /\ d.spent \subseteq Keys /\ (d.at # "cleaning" => d.spent = {})
  /\ d.at = "cleaning" => \A c \in Classes : d.todo[c] = {}

\* A ticket is admitted for its own Task.
Made ==
  d.at = "made" =>
    /\ d.pick \in Keys /\ d.pick \in d.todo[Class(d.pick)] /\ d.ref \in TaskIds
    /\ IsAdmissionTicket(d.pick) => d.ref = d.pick[1]

Named ==
  \A k \in Keys : isAdmitted(k) => qe[k].ref # 0 /\ (IsAdmissionTicket(k) => qe[k].ref = k[1])

Numbered ==
  /\ seq \in [Keys -> 0 .. Cardinality(Events)]
  /\ \A k \in Keys : seq[k] = 0 <=> qe[k] = NoEvent
  /\ \A j, k \in Events : seq[j] = seq[k] => j = k

\* The agents of a Task, the states it runs each one in or later, and the states
\* after that.
Runs(r) == {KindOf[r.item], "review"}
Reached(a, st) ==
  st \in {"awaiting-review", "merged", "done"} \/ (a # "review" /\ st = "under-implementation")
Past(a, st) == st \in {"merged", "done"} \/ (a # "review" /\ st = "awaiting-review")

\* From one state on to another.
Onward(from, to) ==
  \A a \in Agents : (Reached(a, from) => Reached(a, to)) /\ (Past(a, from) => Past(a, to))

First(t) == Exists(t) /\ ~task[t].back

PodsRun == \A t \in TaskIds : Exists(t) /\ task[t].pod # "none" => Live(task[t].st)
Held == \A t \in TaskIds : First(t) /\ task[t].pod # "none" => Admitted(t)
Behind ==
  \A t \in TaskIds : First(t) /\ seen[t] # NoTask =>
    seen[t].item = task[t].item /\ Onward(seen[t].st, task[t].st)
Cut ==
  \A t \in TaskIds : First(t) =>
    \A a \in Runs(task[t]) : qe[<<t, a>>] # NoEvent => seen[t] # NoTask /\ Reached(a, seen[t].st)
Doomed ==
  \A t \in TaskIds : First(t) =>
    \A a \in Runs(task[t]) : <<t, a>> \in d.spent => Past(a, task[t].st)

Ticketed == PodsRun /\ Held /\ Behind /\ Cut /\ Doomed

Queue == Shapes /\ Bounded /\ Listed /\ Cleaning /\ Made /\ Named /\ Numbered /\ Ticketed

\* How a step may change the events.
Added(k, a) ==
  /\ qe[k] = NoEvent /\ qe' = [qe EXCEPT ![k] = NewEvent(a)] /\ seq' = SeqNext(k)
  /\ IsAdmissionTicket(k) => seen[k[1]] # NoTask /\ Reached(k[2], seen[k[1]].st)
Starved(k) == isQueued(k) /\ qe' = [qe EXCEPT ![k].starving = TRUE] /\ seq' = seq
Marked(k, t) ==
  /\ isQueued(k) /\ (IsAdmissionTicket(k) => t = k[1])
  /\ qe' = [qe EXCEPT ![k].st = "admitted", ![k].ref = t, ![k].starving = FALSE] /\ seq' = seq
Deleted(ks) == DeleteEvents(ks) /\ \A k \in ks : isQueued(k) \/ k \in d.spent

QueueMoves ==
  \/ qe' = qe /\ seq' = seq
  \/ \E k \in Keys, a \in Agents : Added(k, a)
  \/ \E k \in Keys : Starved(k)
  \/ \E k \in Keys, t \in TaskIds : Marked(k, t)
  \/ \E ks \in SUBSET Keys : Deleted(ks)

\* How a step may write a Task: it is new, or was sent back, or goes on; a pod
\* comes up on a ticket, and stays up only in the state it came up in.
Written(t, r) ==
  /\ task' = [task EXCEPT ![t] = r] /\ seen' \in {seen, task'} /\ d'.spent = d.spent
  /\ r # NoTask /\ r.pod # "none" =>
       /\ Exists(t) /\ r.st = task[t].st /\ Live(task[t].st)
       /\ task[t].pod # "none" \/ Admitted(t)
  /\ r # NoTask =>
       \/ r.back
       \/ t \in FreeIds /\ d.spent = {} /\ r.pod = "none"
       \/ First(t) /\ r.item = task[t].item /\ Onward(task[t].st, r.st)

TaskMoves ==
  \/ task' = task /\ seen' \in {seen, task} /\ QueueMoves /\ d'.spent \subseteq d.spent
  \/ task' = task /\ seen' = seen /\ qe' = qe /\ seq' = seq /\ d'.spent = Spent
  \/ \E t \in TaskIds, r \in Task \cup {NoTask} : Written(t, r) /\ qe' = qe /\ seq' = seq
  \/ \E ks \in SUBSET Keys :
       /\ Deleted(ks) /\ task' = Unlink(task, ks) /\ seen' = Unlink(seen, ks)
       /\ d'.spent \subseteq d.spent

----------------------------------------------------------------------------
\* Keys: an item is no ticket, a ticket belongs to a Task.
LEMMA KeyFacts ==
  /\ \A k \in Items : k \in Keys /\ ~IsAdmissionTicket(k) /\ KindOf[k] \in Agents
  /\ \A t \in TaskIds : t # 0 /\ \A a \in Agents : <<t, a>> \in Keys /\ IsAdmissionTicket(<<t, a>>)
  /\ \A k \in Keys : IsAdmissionTicket(k) => k[1] \in TaskIds
  /\ \A k \in Keys : Class(k) \in Classes
  /\ None \notin Items
BY QueueAssumption DEF Keys, Tickets, Agents, IsAdmissionTicket, Class, Classes, None

\* The ticket of a Task in a live state is a key.
LEMMA TicketIsKey ==
  ASSUME NEW t \in TaskIds, NEW r \in Task, Live(r.st)
  PROVE  <<t, AgentKindFor(r.st, KindOf[r.item])>> \in Keys
<1>1. r.item \in Items /\ r.st \in {"under-implementation", "awaiting-review"}
  BY DEF Task, Live
<1>2. AgentKindFor(r.st, KindOf[r.item]) \in {KindOf[r.item], "review"}
  BY <1>1 DEF AgentKindFor
<1>3. KindOf[r.item] \in Agents /\ "review" \in Agents
  BY <1>1 DEF Agents
<1> QED BY <1>2, <1>3, KeyFacts

\* An event is not the record that stands for none.
LEMMA EventIsSome ==
  /\ \A e \in Event : e # NoEvent
  /\ \A k : isQueued(k) \/ isAdmitted(k) => qe[k] # NoEvent
  /\ \A k : ~(isQueued(k) /\ isAdmitted(k))
BY DEF Event, NoEvent, isQueued, isAdmitted

----------------------------------------------------------------------------
(* Numbers. *)

\* A step that changes no set of events and no number.
LEMMA SameNumbers ==
  ASSUME Numbered, IsFiniteSet(Events), seq' = seq,
         \A k \in Keys : qe'[k] = NoEvent <=> qe[k] = NoEvent
  PROVE  Numbered' /\ IsFiniteSet(Events')
<1>1. Events' = Events
  BY DEF Events
<1> QED BY <1>1 DEF Numbered

\* A new event comes after all others.
LEMMA NextNumber ==
  ASSUME Numbered, IsFiniteSet(Events), qe \in [Keys -> Event \cup {NoEvent}],
         NEW k \in Keys, NEW a \in Agents, Added(k, a)
  PROVE  Numbered' /\ IsFiniteSet(Events')
<1> DEFINE c == Cardinality(Events)
<1>1. NewEvent(a) # NoEvent
  BY DEF NewEvent, NoEvent
<1>2. Events' = Events \cup {k} /\ k \notin Events
  BY <1>1 DEF Events, Added
<1>3. c \in Nat /\ IsFiniteSet(Events') /\ Cardinality(Events') = c + 1
  BY <1>2, FS_CardinalityType, FS_AddElement
<1>4. seq' = [seq EXCEPT ![k] = c + 1] /\ seq \in [Keys -> 0 .. c]
  BY DEF Added, SeqNext, Numbered
<1>5. seq' \in [Keys -> 0 .. (c + 1)]
  BY <1>3, <1>4
<1>6. \A j \in Keys : seq'[j] = 0 <=> qe'[j] = NoEvent
  BY <1>1, <1>3, <1>4 DEF Added, Numbered
<1>7. ASSUME NEW i \in Events', NEW j \in Events', seq'[i] = seq'[j] PROVE i = j
  <2>1. \A e \in Events : e \in Keys /\ e # k /\ seq'[e] = seq[e] /\ seq[e] \in 0 .. c
    BY <1>2, <1>4 DEF Events
  <2>2. seq'[k] = c + 1
    BY <1>4
  <2>3. i \in Events \cup {k} /\ j \in Events \cup {k}
    BY <1>2
  <2>4. CASE i \in Events /\ j \in Events
    BY <1>7, <2>1, <2>4 DEF Numbered
  <2>5. CASE i = k \/ j = k
    <3> HIDE DEF c
    <3> QED BY <1>3, <1>7, <2>1, <2>2, <2>3, <2>5
  <2> QED BY <2>3, <2>4, <2>5
<1> QED BY <1>3, <1>5, <1>6, <1>7 DEF Numbered

\* Closing the gaps keeps the order of what is left.
LEMMA CloseGaps ==
  ASSUME Numbered, IsFiniteSet(Events), NEW ks \in SUBSET Keys, DeleteEvents(ks)
  PROVE  Numbered' /\ IsFiniteSet(Events')
<1> DEFINE E == Events \ ks
           U(k) == Upto(k, ks)
<1>0. \A k \in Keys : seq[k] \in Nat /\ (seq[k] = 0 <=> qe[k] = NoEvent)
  BY FS_CardinalityType DEF Numbered
<1>1. \A k \in Keys : qe'[k] = IF k \in ks THEN NoEvent ELSE qe[k]
  BY DEF DeleteEvents
<1>2. Events' = E
  BY <1>1 DEF Events
<1>3. IsFiniteSet(E) /\ Cardinality(E) \in Nat
  BY FS_Subset, FS_CardinalityType
<1>4. ASSUME NEW k \in Keys
      PROVE  /\ U(k) \in SUBSET E /\ IsFiniteSet(U(k))
             /\ Cardinality(U(k)) \in 0 .. Cardinality(E)
  <2>1. U(k) \in SUBSET E
    BY <1>0 DEF Upto, Events
  <2> HIDE DEF E, U
  <2> QED BY <1>3, <2>1, FS_Subset, FS_CardinalityType
<1>5. seq' = [k \in Keys |-> IF k \in ks THEN 0 ELSE Cardinality(U(k))]
  BY DEF DeleteEvents
<1>6. seq' \in [Keys -> 0 .. Cardinality(E)]
  <2> HIDE DEF E, U
  <2>1. 0 \in 0 .. Cardinality(E)
    BY <1>3
  <2> QED BY <1>4, <1>5, <2>1
<1>7. ASSUME NEW k \in Keys PROVE seq'[k] = 0 <=> qe'[k] = NoEvent
  <2>1. CASE k \in ks
    BY <1>1, <1>5, <2>1
  <2>2. CASE k \notin ks /\ qe[k] = NoEvent
    <3>1. U(k) = {}
      BY <1>0, <2>2 DEF Upto
    <3> QED BY <1>1, <1>5, <2>2, <3>1, FS_EmptySet
  <2>3. CASE k \notin ks /\ qe[k] # NoEvent
    <3>1. k \in U(k)
      BY <1>0, <2>3 DEF Upto
    <3>2. Cardinality(U(k)) # 0
      <4> HIDE DEF U
      <4> QED BY <1>4, <3>1, FS_EmptySet
    <3> QED BY <1>1, <1>5, <2>3, <3>2
  <2> QED BY <2>1, <2>2, <2>3
<1>8. ASSUME NEW i \in E, NEW j \in E, seq[i] < seq[j] PROVE seq'[i] # seq'[j]
  <2>1. i \in Keys /\ j \in Keys /\ i \notin ks /\ j \notin ks
    BY DEF Events
  <2>2. U(i) \in SUBSET U(j)
    BY <1>0, <1>8, <2>1 DEF Upto
  <2>3. j \in U(j) /\ j \notin U(i)
    BY <1>0, <1>8, <2>1 DEF Upto, Events
  <2>4. U(i) # U(j)
    BY <2>3
  <2>5. Cardinality(U(i)) # Cardinality(U(j))
    <3> HIDE DEF U, E
    <3> QED BY <1>4, <2>1, <2>2, <2>4, FS_Subset
  <2> QED BY <1>5, <2>1, <2>5
<1>9. ASSUME NEW i \in E, NEW j \in E, seq'[i] = seq'[j] PROVE i = j
  <2>1. seq[i] \in Nat /\ seq[j] \in Nat
    BY <1>0 DEF Events
  <2>2. seq[i] = seq[j]
    BY <1>8, <1>9, <2>1
  <2> QED BY <2>2 DEF Numbered
<1> QED BY <1>2, <1>3, <1>6, <1>7, <1>9 DEF Numbered

----------------------------------------------------------------------------
(* Events. *)

\* An event keeps its type, and its number, whatever is done to it.
LEMMA EventsKept ==
  ASSUME Queue, QueueMoves
  PROVE  /\ qe' \in [Keys -> Event \cup {NoEvent}]
         /\ IsFiniteSet(Events') /\ Named' /\ Numbered'
<1>0. /\ qe \in [Keys -> Event \cup {NoEvent}]
      /\ IsFiniteSet(Events) /\ Named /\ Numbered
  BY DEF Queue, Shapes, Bounded
<1>1. CASE qe' = qe /\ seq' = seq
  BY <1>0, <1>1, SameNumbers DEF Named, isAdmitted
<1>2. ASSUME NEW k \in Keys, NEW a \in Agents, Added(k, a)
      PROVE  qe' \in [Keys -> Event \cup {NoEvent}] /\ Named' /\ Numbered' /\ IsFiniteSet(Events')
  <2>1. NewEvent(a) \in Event /\ NewEvent(a).st = "queued"
    BY DEF NewEvent, Event
  <2>2. qe' = [qe EXCEPT ![k] = NewEvent(a)]
    BY <1>2 DEF Added
  <2>3. Named'
    BY <1>0, <2>1, <2>2 DEF Named, isAdmitted
  <2> QED BY <1>0, <1>2, <2>1, <2>2, <2>3, NextNumber
<1>3. ASSUME NEW k \in Keys, Starved(k)
      PROVE  qe' \in [Keys -> Event \cup {NoEvent}] /\ Named' /\ Numbered' /\ IsFiniteSet(Events')
  <2>1. qe[k] \in Event /\ qe[k].st = "queued"
    BY <1>0, <1>3, EventIsSome DEF Starved, isQueued
  <2>2. /\ [qe[k] EXCEPT !.starving = TRUE] \in Event
        /\ [qe[k] EXCEPT !.starving = TRUE].st = "queued"
    BY <2>1 DEF Event
  <2>3. qe' = [qe EXCEPT ![k] = [qe[k] EXCEPT !.starving = TRUE]]
    BY <1>3 DEF Starved
  <2>4. Named'
    BY <1>0, <2>2, <2>3 DEF Named, isAdmitted
  <2>5. \A j \in Keys : qe'[j] = NoEvent <=> qe[j] = NoEvent
    BY <1>0, <2>1, <2>2, <2>3, EventIsSome
  <2> QED BY <1>0, <1>3, <2>2, <2>3, <2>4, <2>5, SameNumbers DEF Starved
<1>4. ASSUME NEW k \in Keys, NEW t \in TaskIds, Marked(k, t)
      PROVE  qe' \in [Keys -> Event \cup {NoEvent}] /\ Named' /\ Numbered' /\ IsFiniteSet(Events')
  <2> DEFINE e == [qe[k] EXCEPT !.st = "admitted", !.ref = t, !.starving = FALSE]
  <2>1. qe[k] \in Event
    BY <1>0, <1>4, EventIsSome DEF Marked
  <2>2. e \in Event /\ e.ref = t
    BY <2>1 DEF Event
  <2>3. qe' = [qe EXCEPT ![k] = e]
    BY <1>0, <1>4 DEF Marked
  <2>4. t # 0 /\ (IsAdmissionTicket(k) => t = k[1])
    BY <1>4, KeyFacts DEF Marked
  <2>5. Named'
    <3> HIDE DEF e
    <3> QED BY <1>0, <2>2, <2>3, <2>4 DEF Named, isAdmitted
  <2>6. \A j \in Keys : qe'[j] = NoEvent <=> qe[j] = NoEvent
    <3> HIDE DEF e
    <3> QED BY <1>0, <2>1, <2>2, <2>3, EventIsSome
  <2>7. seq' = seq /\ qe' \in [Keys -> Event \cup {NoEvent}]
    <3>1. seq' = seq
      BY <1>4 DEF Marked
    <3> HIDE DEF e
    <3> QED BY <1>0, <2>2, <2>3, <3>1
  <2> QED BY <1>0, <2>5, <2>6, <2>7, SameNumbers
<1>5. ASSUME NEW ks \in SUBSET Keys, Deleted(ks)
      PROVE  qe' \in [Keys -> Event \cup {NoEvent}] /\ Named' /\ Numbered' /\ IsFiniteSet(Events')
  <2>1. qe' = [k \in Keys |-> IF k \in ks THEN NoEvent ELSE qe[k]] /\ DeleteEvents(ks)
    BY <1>5 DEF Deleted, DeleteEvents
  <2>2. NoEvent.st # "admitted"
    BY DEF NoEvent
  <2>3. Named'
    BY <1>0, <2>1, <2>2 DEF Named, isAdmitted
  <2> QED BY <1>0, <2>1, <2>3, CloseGaps
<1> QED BY <1>1, <1>2, <1>3, <1>4, <1>5 DEF QueueMoves

----------------------------------------------------------------------------
(* Tasks and their tickets. *)

\* A Task whose link is cut is the same Task otherwise.
LEMMA UnlinkKeeps ==
  ASSUME NEW ts \in Tasks, NEW ks
  PROVE  /\ Unlink(ts, ks) \in Tasks
         /\ \A t \in TaskIds :
              /\ Unlink(ts, ks)[t] = NoTask <=> ts[t] = NoTask
              /\ ts[t] # NoTask => /\ Unlink(ts, ks)[t].st = ts[t].st
                                   /\ Unlink(ts, ks)[t].item = ts[t].item
                                   /\ Unlink(ts, ks)[t].pod = ts[t].pod
                                   /\ Unlink(ts, ks)[t].back = ts[t].back
<1>1. \A r \in Task : LET u == [r EXCEPT !.by = None]
                      IN u \in Task /\ u.st = r.st /\ u.item = r.item /\ u.pod = r.pod
                         /\ u.back = r.back
  BY DEF Task
<1>2. \A t \in TaskIds : ts[t] # NoTask => ts[t] \in Task
  BY DEF Tasks
<1>3. \A t \in TaskIds : Unlink(ts, ks)[t] \in {ts[t], [ts[t] EXCEPT !.by = None]}
                         /\ (ts[t] = NoTask => Unlink(ts, ks)[t] = NoTask)
  BY DEF Unlink
<1>4. Unlink(ts, ks) \in Tasks
  BY <1>1, <1>2 DEF Unlink, Tasks
<1>5. ASSUME NEW t \in TaskIds
      PROVE  /\ Unlink(ts, ks)[t] = NoTask <=> ts[t] = NoTask
             /\ ts[t] # NoTask => /\ Unlink(ts, ks)[t].st = ts[t].st
                                  /\ Unlink(ts, ks)[t].item = ts[t].item
                                  /\ Unlink(ts, ks)[t].pod = ts[t].pod
                                  /\ Unlink(ts, ks)[t].back = ts[t].back
  <2>1. CASE ts[t] = NoTask
    BY <1>3, <2>1
  <2>2. CASE ts[t] \in Task
    <3>1. Unlink(ts, ks)[t] \in Task
      BY <1>1, <1>3, <2>2
    <3> QED BY <1>1, <1>3, <2>2, <3>1, TaskIsSome
  <2> QED BY <1>2, <2>1, <2>2
<1> QED BY <1>4, <1>5

\* Every write keeps the Tasks typed, in the API and in the cache.
LEMMA TasksKept ==
  ASSUME Queue, TaskMoves
  PROVE  task' \in Tasks /\ seen' \in Tasks /\ IsFiniteSet(Existing')
<1>0. task \in Tasks /\ seen \in Tasks /\ IsFiniteSet(Existing)
  BY DEF Queue, Shapes, Bounded
<1>1. CASE task' = task /\ seen' \in {seen, task}
  <2>1. Existing' = Existing
    BY <1>1 DEF Existing, Exists
  <2> QED BY <1>0, <1>1, <2>1
<1>2. ASSUME NEW t \in TaskIds, NEW r \in Task \cup {NoTask}, Written(t, r)
      PROVE  task' \in Tasks /\ seen' \in Tasks /\ IsFiniteSet(Existing')
  <2>1. task' = [task EXCEPT ![t] = r] /\ seen' \in {seen, task'}
    BY <1>2 DEF Written
  <2>2. task' \in Tasks
    BY <1>0, <2>1 DEF Tasks
  <2>3. Existing' \in SUBSET (Existing \cup {t})
    BY <1>0, <2>1 DEF Existing, Exists, Tasks
  <2>4. IsFiniteSet(Existing \cup {t})
    BY <1>0, FS_AddElement
  <2> QED BY <1>0, <2>1, <2>2, <2>3, <2>4, FS_Subset
<1>3. ASSUME NEW ks, task' = Unlink(task, ks), seen' = Unlink(seen, ks)
      PROVE  task' \in Tasks /\ seen' \in Tasks /\ IsFiniteSet(Existing')
  <2>1. Existing' = Existing
    BY <1>0, <1>3, UnlinkKeeps DEF Existing, Exists
  <2> QED BY <1>0, <1>3, <2>1, UnlinkKeeps
<1> QED BY <1>1, <1>2, <1>3 DEF TaskMoves

\* Two names for a ticket's parts.
LEMMA TicketParts ==
  ASSUME NEW t \in TaskIds, NEW a
  PROVE  IsAdmissionTicket(<<t, a>>) /\ <<t, a>>[1] = t /\ <<t, a>>[2] = a
BY QueueAssumption DEF IsAdmissionTicket

\* The agent a Task runs in a live state is one of its own, that it is not past.
LEMMA RunsNow ==
  ASSUME NEW r \in Task, Live(r.st)
  PROVE  LET a == AgentKindFor(r.st, KindOf[r.item])
         IN a \in Runs(r) /\ a \in Agents /\ Reached(a, r.st) /\ ~Past(a, r.st)
<1>1. r.item \in Items /\ KindOf[r.item] \in Agents /\ KindOf[r.item] # "review"
  BY QueueAssumption DEF Task, Agents
<1>2. "review" \in Agents
  BY DEF Agents
<1> QED BY <1>1, <1>2 DEF Live, AgentKindFor, Runs, Reached, Past

\* A ticket that a pass lists as spent is of an agent the listed copy is past,
\* if the copy had reached it at all.
LEMMA SpentIsPast ==
  ASSUME NEW t \in TaskIds, NEW r \in Task, NEW a \in Runs(r), Reached(a, r.st),
         Done(r) \/ ticketSpent(<<t, a>>, r)
  PROVE  Past(a, r.st)
<1>1. KindOf[r.item] \in {"implement", "incident", "refine", "upgrade"}
  BY QueueAssumption DEF Task
<1>2. CASE Done(r)
  BY <1>2 DEF Done, Past
<1>3. CASE ticketSpent(<<t, a>>, r)
  <2>1. IF AgentKindFor(r.st, KindOf[r.item]) # NoAgent
        THEN AgentKindFor(r.st, KindOf[r.item]) # a ELSE ~preLive(r.st)
    BY <1>3, TicketParts DEF ticketSpent
  <2>2. CASE r.st = "under-implementation"
    BY <1>1, <2>1, <2>2 DEF AgentKindFor, NoAgent, Runs, Reached
  <2>3. CASE r.st = "awaiting-review"
    BY <2>1, <2>3 DEF AgentKindFor, NoAgent, Past
  <2> QED BY <2>2, <2>3 DEF Reached, Past
<1> QED BY <1>2, <1>3

\* No step on the events takes an admitted ticket that no pass means to delete.
LEMMA AdmittedStays ==
  ASSUME Queue, QueueMoves, NEW k \in Keys, isAdmitted(k), k \notin d.spent
  PROVE  isAdmitted(k)'
<1>0. qe \in [Keys -> Event \cup {NoEvent}] /\ qe[k] # NoEvent /\ ~isQueued(k)
  BY EventIsSome DEF Queue, Shapes
<1>1. qe'[k] = qe[k]
  <2>1. ASSUME NEW ks, Deleted(ks) PROVE qe'[k] = qe[k]
    BY <1>0, <2>1 DEF Deleted, DeleteEvents
  <2>2. ASSUME NEW j \in Keys, j # k,
               \/ \E e : qe' = [qe EXCEPT ![j] = e]
               \/ Starved(j) \/ \E t : Marked(j, t)
        PROVE  qe'[k] = qe[k]
    BY <1>0, <2>2 DEF Starved, Marked
  <2>3. ASSUME NEW j \in Keys, Starved(j) \/ (\E t : Marked(j, t)) \/ (\E a : Added(j, a))
        PROVE  j # k
    BY <1>0, <2>3 DEF Starved, Marked, Added
  <2> QED BY <2>1, <2>2, <2>3 DEF QueueMoves, Added
<1> QED BY <1>1 DEF isAdmitted

\* A ticket that comes to exist is of an agent the cache has seen its Task reach.
LEMMA NewTicket ==
  ASSUME Queue, QueueMoves, NEW t \in TaskIds, NEW a \in Agents,
         qe[<<t, a>>] = NoEvent, qe'[<<t, a>>] # NoEvent
  PROVE  seen[t] # NoTask /\ Reached(a, seen[t].st)
<1> DEFINE k == <<t, a>>
<1>0. qe \in [Keys -> Event \cup {NoEvent}] /\ k \in Keys
  BY KeyFacts DEF Queue, Shapes
<1>1. IsAdmissionTicket(k) /\ k[1] = t /\ k[2] = a
  BY TicketParts
<1>2. ~isQueued(k)
  BY EventIsSome
<1> HIDE DEF k
<1>3. ASSUME NEW ks, Deleted(ks) PROVE qe'[k] \in {qe[k], NoEvent}
  BY <1>0, <1>3 DEF Deleted, DeleteEvents
<1>4. ASSUME NEW j \in Keys, Starved(j) \/ \E u : Marked(j, u) PROVE qe'[k] = qe[k]
  BY <1>0, <1>2, <1>4 DEF Starved, Marked
<1>5. qe[k] = NoEvent /\ qe'[k] # NoEvent
  BY DEF k
<1>6. PICK j \in Keys, b \in Agents : Added(j, b)
  BY <1>3, <1>4, <1>5 DEF QueueMoves
<1>7. j = k
  BY <1>0, <1>5, <1>6 DEF Added
<1> QED BY <1>1, <1>6, <1>7 DEF Added

\* Onward goes on.
LEMMA OnwardOn ==
  /\ \A s : Onward(s, s)
  /\ \A r, s, u : Onward(r, s) /\ Onward(s, u) => Onward(r, u)
BY DEF Onward

\* The present state of a Task and the agent of a ticket, before a step.
LEMMA TicketedNow ==
  ASSUME Queue, NEW t \in TaskIds, First(t)
  PROVE  /\ task[t] \in Task /\ Runs(task[t]) \subseteq Agents
         /\ task[t].pod # "none" =>
              /\ Live(task[t].st) /\ Admitted(t)
              /\ <<t, AgentKindFor(task[t].st, Kind(t))>> \in Keys \ d.spent
<1>1. task[t] \in Task
  BY DEF Queue, Shapes, Tasks, First, Exists
<1>2. Runs(task[t]) \subseteq Agents
  BY <1>1 DEF Runs, Agents, Task
<1>3. ASSUME task[t].pod # "none"
      PROVE  /\ Live(task[t].st) /\ Admitted(t)
             /\ <<t, AgentKindFor(task[t].st, Kind(t))>> \in Keys \ d.spent
  <2>1. Live(task[t].st) /\ Admitted(t)
    BY <1>3 DEF Queue, Ticketed, PodsRun, Held, First
  <2>2. <<t, AgentKindFor(task[t].st, Kind(t))>> \in Keys
    BY <1>1, <2>1, TicketIsKey DEF Kind
  <2>3. <<t, AgentKindFor(task[t].st, Kind(t))>> \notin d.spent
    BY <1>1, <2>1, RunsNow DEF Kind, Queue, Ticketed, Doomed
  <2> QED BY <2>1, <2>2, <2>3
<1> QED BY <1>1, <1>2, <1>3

\* Steps that leave the Tasks as they are, but for their links.
LEMMA TicketsKeptBeside ==
  ASSUME Queue, QueueMoves, d'.spent \subseteq d.spent,
         \A t \in TaskIds :
           /\ task'[t] = NoTask <=> task[t] = NoTask
           /\ task[t] # NoTask => /\ task'[t].st = task[t].st /\ task'[t].item = task[t].item
                                  /\ task'[t].pod = task[t].pod /\ task'[t].back = task[t].back,
         \A t \in TaskIds : \E r \in {seen[t], task[t]} :
           /\ seen'[t] = NoTask <=> r = NoTask
           /\ r # NoTask => seen'[t].st = r.st /\ seen'[t].item = r.item
  PROVE  Ticketed'
<1>0. Ticketed
  BY DEF Queue
<1>1. PodsRun'
  BY <1>0 DEF Ticketed, PodsRun, Exists
<1>2. ASSUME NEW t \in TaskIds, First(t)'
      PROVE  /\ First(t) /\ Runs(task'[t]) = Runs(task[t])
             /\ Kind(t)' = Kind(t) /\ task'[t].st = task[t].st
  BY <1>2 DEF First, Exists, Runs, Kind
<1>3. Held'
  <2> SUFFICES ASSUME NEW t \in TaskIds, First(t)', task'[t].pod # "none" PROVE Admitted(t)'
    BY DEF Held
  <2>1. First(t) /\ task[t].pod # "none" /\ Kind(t)' = Kind(t) /\ task'[t].st = task[t].st
    BY <1>2 DEF First, Exists
  <2>2. isAdmitted(<<t, AgentKindFor(task[t].st, Kind(t))>>)'
    <3>1. PICK k \in Keys : /\ k = <<t, AgentKindFor(task[t].st, Kind(t))>>
                            /\ k \notin d.spent /\ isAdmitted(k)
      BY <2>1, TicketedNow DEF Admitted
    <3>2. isAdmitted(k)'
      BY <3>1, AdmittedStays
    <3> QED BY <2>1, <3>1, <3>2 DEF isAdmitted
  <2> QED BY <2>1, <2>2 DEF Admitted, isAdmitted
<1>4. Behind'
  BY <1>0, <1>2, OnwardOn DEF Ticketed, Behind, First, Exists
<1>5. Cut'
  <2> SUFFICES ASSUME NEW t \in TaskIds, First(t)', NEW a \in Runs(task'[t]), qe'[<<t, a>>] # NoEvent
               PROVE  seen'[t] # NoTask /\ Reached(a, seen'[t].st)
    BY DEF Cut
  <2>1. First(t) /\ a \in Runs(task[t]) /\ a \in Agents
    BY <1>2, TicketedNow
  <2>2. seen[t] # NoTask /\ Reached(a, seen[t].st)
    BY <1>0, <2>1, NewTicket DEF Ticketed, Cut
  <2>3. task[t] # NoTask /\ Reached(a, task[t].st)
    BY <1>0, <2>1, <2>2 DEF Ticketed, Behind, Onward, First, Exists
  <2> QED BY <2>2, <2>3
<1>6. Doomed'
  BY <1>0, <1>2 DEF Ticketed, Doomed
<1> QED BY <1>1, <1>3, <1>4, <1>5, <1>6 DEF Ticketed

\* A list of a pass: what it means to delete, the Task is past.
LEMMA TicketsKeptByList ==
  ASSUME Queue, task' = task, seen' = seen, qe' = qe, d'.spent = Spent
  PROVE  Ticketed'
<1>0. Ticketed
  BY DEF Queue
<1>1. Doomed'
  <2> SUFFICES ASSUME NEW t \in TaskIds, First(t), NEW a \in Runs(task[t]), <<t, a>> \in Spent
               PROVE  Past(a, task[t].st)
    BY DEF Doomed, First, Exists
  <2> DEFINE k == <<t, a>>
  <2>1. k \in Keys /\ isAdmitted(k) /\ a \in Agents
    BY TicketedNow DEF Spent
  <2>2. qe[k].ref = t
    BY <2>1, TicketParts DEF Queue, Named
  <2>3. qe[k] # NoEvent
    BY <2>1, EventIsSome
  <2>4. /\ seen[t] # NoTask /\ Reached(a, seen[t].st)
        /\ seen[t].item = task[t].item /\ Onward(seen[t].st, task[t].st)
    BY <1>0, <2>3 DEF Ticketed, Cut, Behind
  <2>5. Done(seen[t]) \/ ticketSpent(k, seen[t])
    <3> HIDE DEF k
    <3> QED BY <2>1, <2>2, <2>4 DEF Spent, k
  <2>6. seen[t] \in Task /\ a \in Runs(seen[t])
    BY <2>4 DEF Queue, Shapes, Tasks, Runs
  <2>7. Past(a, seen[t].st)
    BY <2>4, <2>5, <2>6, SpentIsPast
  <2> QED BY <2>1, <2>4, <2>7 DEF Onward
<1> QED BY <1>0, <1>1 DEF Ticketed, PodsRun, Held, Behind, Cut, First, Exists, Admitted, Kind,
                          isAdmitted

\* A write of one Task.
LEMMA TicketsKeptByWrite ==
  ASSUME Queue, NEW u \in TaskIds, NEW r \in Task \cup {NoTask}, Written(u, r), qe' = qe
  PROVE  Ticketed'
<1>0. Ticketed /\ task \in Tasks /\ seen \in Tasks
  BY DEF Queue, Shapes
<1>1. task' = [task EXCEPT ![u] = r] /\ seen' \in {seen, task'} /\ d'.spent = d.spent
  BY DEF Written
<1>2. \A t \in TaskIds : task'[t] = IF t = u THEN r ELSE task[t]
  BY <1>0, <1>1 DEF Tasks
<1>3. PodsRun'
  BY <1>0, <1>2 DEF Ticketed, PodsRun, Written, Exists
<1>4. ASSUME NEW t \in TaskIds, First(t)', First(t),
             task'[t].item = task[t].item, Onward(task[t].st, task'[t].st),
             task'[t].pod # "none" => Admitted(t)'
      PROVE  /\ task'[t].pod # "none" => Admitted(t)'
             /\ seen'[t] # NoTask => seen'[t].item = task'[t].item /\ Onward(seen'[t].st, task'[t].st)
             /\ \A a \in Runs(task'[t]) :
                  /\ qe'[<<t, a>>] # NoEvent => seen'[t] # NoTask /\ Reached(a, seen'[t].st)
                  /\ <<t, a>> \in d'.spent => Past(a, task'[t].st)
  <2>1. Runs(task'[t]) = Runs(task[t]) /\ Runs(task[t]) \subseteq Agents
    BY <1>4, TicketedNow DEF Runs
  <2>2. /\ seen[t] # NoTask => seen[t].item = task[t].item /\ Onward(seen[t].st, task[t].st)
        /\ \A a \in Runs(task[t]) :
             /\ qe[<<t, a>>] # NoEvent => seen[t] # NoTask /\ Reached(a, seen[t].st)
             /\ <<t, a>> \in d.spent => Past(a, task[t].st)
    BY <1>0, <1>4 DEF Ticketed, Behind, Cut, Doomed
  <2>3. /\ seen'[t] # NoTask => seen'[t].item = task'[t].item /\ Onward(seen'[t].st, task'[t].st)
    BY <1>1, <1>4, <2>2, OnwardOn
  <2>4. ASSUME NEW a \in Runs(task'[t])
        PROVE  /\ qe'[<<t, a>>] # NoEvent => seen'[t] # NoTask /\ Reached(a, seen'[t].st)
               /\ <<t, a>> \in d'.spent => Past(a, task'[t].st)
    <3>1. a \in Agents /\ a \in Runs(task[t])
      BY <2>1
    <3>2. <<t, a>> \in d'.spent => Past(a, task'[t].st)
      BY <1>1, <1>4, <2>2, <3>1 DEF Onward
    <3>3. ASSUME qe'[<<t, a>>] # NoEvent PROVE seen'[t] # NoTask /\ Reached(a, seen'[t].st)
      <4>1. seen[t] # NoTask /\ Reached(a, seen[t].st) /\ Onward(seen[t].st, task[t].st)
        BY <2>2, <3>1, <3>3
      <4>2. Reached(a, task'[t].st)
        BY <1>4, <3>1, <4>1 DEF Onward
      <4>3. task'[t] # NoTask
        BY <1>4 DEF First, Exists
      <4> QED BY <1>1, <4>1, <4>2, <4>3
    <3> QED BY <3>2, <3>3
  <2> QED BY <1>4, <2>3, <2>4
<1>5. ASSUME NEW t \in TaskIds, First(t)'
      PROVE  /\ task'[t].pod # "none" => Admitted(t)'
             /\ seen'[t] # NoTask => seen'[t].item = task'[t].item /\ Onward(seen'[t].st, task'[t].st)
             /\ \A a \in Runs(task'[t]) :
                  /\ qe'[<<t, a>>] # NoEvent => seen'[t] # NoTask /\ Reached(a, seen'[t].st)
                  /\ <<t, a>> \in d'.spent => Past(a, task'[t].st)
  <2>1. CASE t # u
    <3>1. task'[t] = task[t] /\ First(t)
      BY <1>2, <1>5, <2>1 DEF First, Exists
    <3>2. task'[t].pod # "none" => Admitted(t)'
      BY <1>0, <3>1 DEF Ticketed, Held, Admitted, Kind, isAdmitted
    <3> QED BY <1>4, <1>5, <3>1, <3>2, OnwardOn
  <2>2. CASE t = u /\ First(u) /\ r.item = task[u].item /\ Onward(task[u].st, r.st)
    <3>1. task'[t] = r /\ r # NoTask
      BY <1>2, <1>5, <2>2 DEF First, Exists
    <3>2. ASSUME task'[t].pod # "none" PROVE Admitted(t)'
      <4>1. r.st = task[t].st /\ (task[t].pod # "none" \/ Admitted(t))
        BY <2>2, <3>1, <3>2 DEF Written
      <4>2. Admitted(t)
        BY <1>0, <2>2, <4>1 DEF Ticketed, Held
      <4> QED BY <2>2, <3>1, <4>1, <4>2 DEF Admitted, Kind, isAdmitted
    <3> QED BY <1>4, <1>5, <2>2, <3>1, <3>2
  <2>3. CASE t = u /\ u \in FreeIds /\ d.spent = {} /\ r.pod = "none"
    <3>1. task'[t] = r /\ r # NoTask /\ r \in Task
      BY <1>2, <1>5, <2>3 DEF First, Exists
    <3>2. Runs(r) \subseteq Agents
      BY <3>1 DEF Runs, Agents, Task
    <3>3. seen[t] = NoTask /\ \A a \in Agents : qe[<<t, a>>] = NoEvent
      BY <2>3 DEF FreeIds
    <3>4. seen'[t] # NoTask => seen'[t] = task'[t]
      BY <1>1, <3>3
    <3> QED BY <1>1, <2>3, <3>1, <3>2, <3>3, <3>4, OnwardOn
  <2>4. t = u => task'[t] = r /\ r # NoTask /\ ~r.back
    BY <1>2, <1>5 DEF First, Exists
  <2> QED BY <2>1, <2>2, <2>3, <2>4 DEF Written
<1>6. Held' /\ Behind' /\ Cut' /\ Doomed'
  BY <1>5 DEF Held, Behind, Cut, Doomed
<1> QED BY <1>3, <1>6 DEF Ticketed

\* A pod on the first way of its Task keeps its ticket.
LEMMA TicketsKept == Queue /\ TaskMoves => Ticketed'
<1> SUFFICES ASSUME Queue, TaskMoves PROVE Ticketed'
  OBVIOUS
<1>0. task \in Tasks /\ seen \in Tasks
  BY DEF Queue, Shapes
<1>1. CASE task' = task /\ seen' \in {seen, task} /\ QueueMoves /\ d'.spent \subseteq d.spent
  BY <1>1, TicketsKeptBeside
<1>2. CASE task' = task /\ seen' = seen /\ qe' = qe /\ seq' = seq /\ d'.spent = Spent
  BY <1>2, TicketsKeptByList
<1>3. CASE \E t \in TaskIds, r \in Task \cup {NoTask} : Written(t, r) /\ qe' = qe /\ seq' = seq
  BY <1>3, TicketsKeptByWrite
<1>4. ASSUME NEW ks \in SUBSET Keys, Deleted(ks), task' = Unlink(task, ks),
             seen' = Unlink(seen, ks), d'.spent \subseteq d.spent
      PROVE  Ticketed'
  <2>1. QueueMoves
    BY <1>4 DEF QueueMoves
  <2>2. \A t \in TaskIds :
           /\ task'[t] = NoTask <=> task[t] = NoTask
           /\ task[t] # NoTask => /\ task'[t].st = task[t].st /\ task'[t].item = task[t].item
                                  /\ task'[t].pod = task[t].pod /\ task'[t].back = task[t].back
    BY <1>0, <1>4, UnlinkKeeps
  <2>3. \A t \in TaskIds :
           /\ seen'[t] = NoTask <=> seen[t] = NoTask
           /\ seen[t] # NoTask => seen'[t].st = seen[t].st /\ seen'[t].item = seen[t].item
    BY <1>0, <1>4, UnlinkKeeps
  <2> QED BY <1>4, <2>1, <2>2, <2>3, TicketsKeptBeside
<1> QED BY <1>1, <1>2, <1>3, <1>4 DEF TaskMoves

----------------------------------------------------------------------------
(* What the steps do to events and Tasks. *)

\* A step from a state on, and a write of a Task: the cache has it at once or later.
LEMMA StatesOn ==
  /\ \A s, u \in States : preLive(s) => Onward(s, u)
  /\ Onward("under-implementation", "awaiting-review") /\ Onward("awaiting-review", "merged")
  /\ Onward("merged", "done") /\ Onward("under-implementation", "done")
  /\ Onward("awaiting-review", "done")
BY DEF Onward, Reached, Past, preLive, States

LEMMA WriteMoves ==
  ASSUME NEW t \in TaskIds, NEW r \in Task \cup {NoTask}, Exists(t), task[t] \in Task,
         task' = [task EXCEPT ![t] = r], seen' \in {seen, task'}, qe' = qe, seq' = seq,
         d'.spent = d.spent,
         r # NoTask /\ r.pod # "none" =>
           /\ r.st = task[t].st /\ Live(task[t].st)
           /\ task[t].pod # "none" \/ Admitted(t),
         r # NoTask => \/ r.back
                       \/ r.item = task[t].item /\ r.back = task[t].back /\ Onward(task[t].st, r.st)
  PROVE  TaskMoves
<1>1. task[t].back \in BOOLEAN
  BY DEF Task
<1>2. Written(t, r)
  BY <1>1 DEF Written, First
<1> QED BY <1>2 DEF TaskMoves

\* A pod is up only in a live state.
LEMMA PodUp ==
  ASSUME Queue, NEW t \in TaskIds, Exists(t)
  PROVE  task[t] \in Task /\ (task[t].pod # "none" => Live(task[t].st))
BY DEF Queue, Shapes, Tasks, Ticketed, PodsRun, Exists

\* A Task that moves to another state has no pod then: a pod goes with the
\* state it was started in.
LEMMA TasksMove == ASSUME Queue, NEW t \in TaskIds, TaskSteps(t) PROVE TaskMoves
<1>0. Exists(t) => task[t] \in Task /\ (task[t].pod # "none" => Live(task[t].st))
  BY PodUp
<1>1. CASE ensureTicket(t)
  <2> DEFINE a == AgentKindFor(seen[t].st, KindOf[seen[t].item])
             k == <<t, a>>
             b == KindOf[seen[t].item]
  <2>1. /\ seen[t] # NoTask /\ Live(seen[t].st) /\ qe[k] = NoEvent
        /\ qe' = [qe EXCEPT ![k] = NewEvent(b)] /\ seq' = SeqNext(k)
        /\ task' = task /\ seen' = seen /\ d' = d
    BY <1>1 DEF ensureTicket
  <2>2. seen[t] \in Task
    BY <2>1 DEF Queue, Shapes, Tasks
  <2>3. k \in Keys /\ b \in Agents
    BY <2>1, <2>2, TicketIsKey DEF Task, Agents
  <2>4. Reached(a, seen[t].st)
    BY <2>1, <2>2, RunsNow
  <2>5. k[1] = t /\ k[2] = a
    BY TicketParts
  <2> HIDE DEF k, a, b
  <2>6. Added(k, b)
    BY <2>1, <2>4, <2>5 DEF Added
  <2> QED BY <2>1, <2>3, <2>6 DEF TaskMoves, QueueMoves
<1>2. ASSUME NEW r \in Task \cup {NoTask}, Set(t, r), Exists(t),
             r # NoTask /\ r.pod # "none" =>
               /\ r.st = task[t].st /\ Live(task[t].st)
               /\ task[t].pod # "none" \/ Admitted(t),
             r # NoTask => r.item = task[t].item /\ r.back = task[t].back /\ Onward(task[t].st, r.st)
      PROVE  TaskMoves
  <2>1. /\ task' = [task EXCEPT ![t] = r] /\ seen' \in {seen, task'} /\ qe' = qe /\ seq' = seq
        /\ d' = d
    BY <1>2 DEF Set, Write, Hear
  <2> QED BY <1>0, <1>2, <2>1, WriteMoves
<1>3. CASE Reap(t)
  BY <1>2, <1>3 DEF Reap
<1>4. CASE Triage(t) \/ Finish(t)
  <2>1. Exists(t) /\ ~Live(task[t].st)
    BY <1>4 DEF Triage, Finish, preLive, Live
  <2>2. task[t].st \in States
    BY <1>0, <2>1 DEF Task
  <2>3. PICK s \in States : Set(t, [task[t] EXCEPT !.st = s]) /\ Onward(task[t].st, s)
    <3>1. CASE Triage(t)
      BY <2>2, <3>1, StatesOn DEF Triage, States
    <3>2. CASE Finish(t)
      BY <3>2, StatesOn DEF Finish, States
    <3> QED BY <1>4, <3>1, <3>2
  <2> DEFINE r == [task[t] EXCEPT !.st = s]
  <2>4. r \in Task /\ r.pod = "none" /\ r.st = s /\ r.item = task[t].item /\ r.back = task[t].back
    BY <1>0, <2>1 DEF Task
  <2>5. Set(t, r) /\ Onward(task[t].st, s)
    BY <2>3
  <2> HIDE DEF r
  <2> QED BY <1>2, <2>1, <2>4, <2>5
<1>5. CASE StartPod(t) \/ TurnEnds(t) \/ repairParkedWithLivePod(t)
  <2>1. Exists(t)
    BY <1>5 DEF StartPod, TurnEnds, repairParkedWithLivePod
  <2>2. PICK p \in {"none", "busy", "idle"} :
          /\ Set(t, [task[t] EXCEPT !.pod = p]) /\ Live(task[t].st)
          /\ task[t].pod # "none" \/ Admitted(t)
    BY <1>0, <1>5 DEF StartPod, TurnEnds, repairParkedWithLivePod
  <2> DEFINE r == [task[t] EXCEPT !.pod = p]
  <2>3. r \in Task /\ r.st = task[t].st /\ r.item = task[t].item /\ r.back = task[t].back
    BY <1>0, <2>1 DEF Task
  <2>4. Set(t, r)
    BY <2>2
  <2> HIDE DEF r
  <2> QED BY <1>2, <2>1, <2>2, <2>3, <2>4, OnwardOn
<1>6. CASE Outcome(t)
  <2>1. Exists(t) /\ Live(task[t].st)
    BY <1>0, <1>6 DEF Outcome
  <2>2. PICK s \in States : /\ Set(t, [task[t] EXCEPT !.pod = "none", !.st = s])
                            /\ Onward(task[t].st, s)
    BY <1>6, <2>1, StatesOn DEF Outcome, States, Live
  <2> DEFINE r == [task[t] EXCEPT !.pod = "none", !.st = s]
  <2>3. r \in Task /\ r.pod = "none" /\ r.st = s /\ r.item = task[t].item /\ r.back = task[t].back
    BY <1>0, <2>1 DEF Task
  <2>4. Set(t, r) /\ Onward(task[t].st, s)
    BY <2>2
  <2> HIDE DEF r
  <2> QED BY <1>2, <2>1, <2>3, <2>4
<1>7. CASE ConversationIdle(t) \/ enforceLivePodCeiling(t)
  <2>1. Exists(t)
    BY <1>7 DEF ConversationIdle, enforceLivePodCeiling, countLive, Exists
  <2>2. PICK asked \in Handoffs, down \in BOOLEAN : Set(t, liveHandoffAndPark(t, asked, down))
    BY <1>7 DEF ConversationIdle, enforceLivePodCeiling
  <2> DEFINE r == liveHandoffAndPark(t, asked, down)
  <2>3. /\ r \in Task /\ r.st = task[t].st /\ r.item = task[t].item /\ r.back = task[t].back
        /\ r.pod \in {task[t].pod, "none"}
    BY <1>0, <2>1 DEF liveHandoffAndPark, Task
  <2> HIDE DEF r
  <2>4. Set(t, r)
    BY <2>2 DEF r
  <2> QED BY <1>0, <1>2, <2>1, <2>3, <2>4, OnwardOn
<1>8. CASE Resume(t)
  <2> DEFINE r == [task[t] EXCEPT !.parked = FALSE, !.reply = FALSE]
  <2>1. Exists(t) /\ Set(t, r)
    BY <1>8 DEF Resume
  <2>2. /\ r \in Task /\ r.st = task[t].st /\ r.item = task[t].item
        /\ r.pod = task[t].pod /\ r.back = task[t].back
    BY <1>0, <2>1 DEF Task
  <2> HIDE DEF r
  <2> QED BY <1>0, <1>2, <2>1, <2>2, OnwardOn
<1> QED BY <1>1, <1>3, <1>4, <1>5, <1>6, <1>7, <1>8 DEF TaskSteps

\* So does one that a human or a deadline moves.
LEMMA EnvironmentMoves == ASSUME Queue, Environment PROVE TaskMoves
<1>0. task \in Tasks
  BY DEF Queue, Shapes
<1>1. CASE task' = task /\ seen' = seen /\ qe' = qe /\ seq' = seq /\ d'.spent \subseteq d.spent
  BY <1>1 DEF TaskMoves, QueueMoves
<1>2. ASSUME NEW t \in TaskIds, Reply(t) PROVE TaskMoves
  <2> DEFINE r == [task[t] EXCEPT !.reply = TRUE]
  <2>1. /\ Exists(t) /\ task' = [task EXCEPT ![t] = r] /\ seen' \in {seen, task'}
        /\ qe' = qe /\ seq' = seq /\ d' = d
    BY <1>2 DEF Reply, Hear
  <2>2. task[t] \in Task /\ (task[t].pod # "none" => Live(task[t].st))
    BY <2>1, PodUp
  <2>3. /\ r \in Task /\ r.st = task[t].st /\ r.item = task[t].item /\ r.pod = task[t].pod
        /\ r.back = task[t].back
    BY <2>2 DEF Task
  <2> HIDE DEF r
  <2> QED BY <2>1, <2>2, <2>3, WriteMoves, OnwardOn
<1>3. ASSUME NEW t \in TaskIds, Bounce(t) PROVE TaskMoves
  <2> DEFINE r == [task[t] EXCEPT !.st = "under-implementation", !.back = TRUE]
  <2>1. /\ Exists(t) /\ task[t].st = "merged"
        /\ task' = [task EXCEPT ![t] = r] /\ seen' \in {seen, task'} /\ qe' = qe /\ seq' = seq
        /\ d' = d
    BY <1>0, <1>3 DEF Bounce, Hear, Tasks
  <2>2. task[t] \in Task /\ task[t].pod = "none"
    BY <2>1, PodUp DEF Live
  <2>3. r \in Task /\ r.pod = "none" /\ r.back
    BY <2>2 DEF Task, States
  <2> HIDE DEF r
  <2> QED BY <2>1, <2>2, <2>3, WriteMoves
<1>4. ASSUME NEW t \in TaskIds, Withdraw(t) PROVE TaskMoves
  <2> DEFINE r == [task[t] EXCEPT !.st = "done", !.pod = "none"]
  <2>1. /\ Exists(t) /\ Live(task[t].st) /\ task' = [task EXCEPT ![t] = r]
        /\ seen' \in {seen, task'} /\ qe' = qe /\ seq' = seq /\ d' = d
    BY <1>0, <1>4 DEF Withdraw, Hear, Tasks
  <2>2. task[t] \in Task
    BY <2>1, PodUp
  <2>3. /\ r \in Task /\ r.pod = "none" /\ r.st = "done" /\ r.item = task[t].item
        /\ r.back = task[t].back
    BY <2>2 DEF Task, States
  <2>4. Onward(task[t].st, "done")
    BY <2>1, StatesOn DEF Live
  <2> HIDE DEF r
  <2> QED BY <2>1, <2>2, <2>3, <2>4, WriteMoves
<1>5. ASSUME Crash PROVE TaskMoves
  <2>1. d'.spent = {}
    BY <1>5 DEF Crash, Idle
  <2> QED BY <1>1, <1>5, <2>1 DEF Crash
<1> QED BY <1>1, <1>2, <1>3, <1>4, <1>5 DEF Environment, MRMoves

\* What the pass considers waits in the queue.
LEMMA ConsideredIsQueued ==
  ASSUME Queue, NEW k \in Keys, Consider(k)
  PROVE  /\ d.at = "pool" /\ isQueued(k) /\ k \in d.todo[Class(k)]
         /\ Class(k) \in Classes
<1>1. d.at = "pool" /\ k \in d.todo[Pool] /\ Pool \in Classes
  BY DEF Consider, Pool, Classes
<1> QED BY <1>1 DEF Queue, Listed

\* The dispatcher marks what waits, deletes what waits or is spent, and mints
\* Tasks without a pod.
LEMMA DispatchMoves == ASSUME Queue, Dispatch PROVE TaskMoves
<1>0. /\ task \in Tasks /\ seen \in Tasks /\ qe \in [Keys -> Event \cup {NoEvent}]
      /\ Made /\ Listed /\ Cleaning /\ DOMAIN d = PassFields
  BY DEF Queue, Shapes
<1>1. ASSUME NEW k \in Keys, reconcileDone(k) PROVE TaskMoves
  <2>1. /\ DeleteEvents({k}) /\ task' = Unlink(task, {k}) /\ seen' = Unlink(seen, {k})
        /\ k \in d.spent
    BY <1>1 DEF reconcileDone
  <2>2. Deleted({k}) /\ {k} \in SUBSET Keys
    BY <2>1 DEF Deleted
  <2>3. d'.spent \subseteq d.spent
    BY <1>0, <1>1 DEF reconcileDone, PassFields
  <2> QED BY <2>1, <2>2, <2>3 DEF TaskMoves
<1>2. ASSUME NEW k \in Keys, dropTicket(k) \/ DropAdoption(k) PROVE TaskMoves
  <2>1. Consider(k) /\ DeleteEvents({k}) /\ task' = task /\ seen' = seen
    BY <1>2 DEF dropTicket, DropAdoption, Eligible
  <2>2. Deleted({k}) /\ {k} \in SUBSET Keys
    BY <2>1, ConsideredIsQueued DEF Deleted
  <2>3. QueueMoves
    BY <2>2 DEF QueueMoves
  <2>4. d'.spent = d.spent
    BY <1>0, <1>2 DEF dropTicket, DropAdoption, Skip, PassFields
  <2> QED BY <2>1, <2>3, <2>4 DEF TaskMoves
<1>3. CASE MarkAdmitted
  <2>1. /\ d.pick \in Keys /\ d.pick \in d.todo[Class(d.pick)] /\ d.ref \in TaskIds
        /\ IsAdmissionTicket(d.pick) => d.ref = d.pick[1]
    BY <1>0, <1>3 DEF MarkAdmitted, Made
  <2>2. isQueued(d.pick)
    BY <1>0, <2>1, KeyFacts DEF Listed
  <2>3. Marked(d.pick, d.ref) /\ task' = task /\ seen' = seen
    BY <1>3, <2>1, <2>2 DEF MarkAdmitted, Marked
  <2>4. d'.spent = d.spent
    BY <1>0, <1>3 DEF MarkAdmitted, PassFields
  <2> QED BY <2>1, <2>3, <2>4 DEF TaskMoves, QueueMoves
<1>4. ASSUME NEW k \in Keys, NEW t \in TaskIds, MintTask(k, t) PROVE TaskMoves
  <2>1. /\ task' = [task EXCEPT ![t] = BuildTask(k)] /\ seen' \in {seen, task'}
        /\ qe' = qe /\ seq' = seq /\ t \in FreeIds /\ d.at = "pool"
    BY <1>4 DEF MintTask, Write, Hear, Eligible, Consider
  <2>2. BuildTask(k) \in Task /\ BuildTask(k).pod = "none"
    BY <1>4, MintKeys DEF MintTask, BuildTask, Task, States
  <2>3. d.spent = {} /\ d'.spent = d.spent
    BY <1>0, <1>4, <2>1 DEF Cleaning, MintTask, PassFields
  <2>4. Written(t, BuildTask(k))
    BY <2>1, <2>2, <2>3 DEF Written
  <2> QED BY <2>1, <2>2, <2>4 DEF TaskMoves
<1>5. ASSUME NEW k \in Keys, FindMinted(k) PROVE TaskMoves
  <2>1. PICK t \in mintedTask(k) : Write(t, NoTask) \/ (task' = task /\ seen' = seen)
    BY <1>5 DEF FindMinted
  <2>2. t \in TaskIds /\ Exists(t) /\ qe' = qe /\ seq' = seq
    BY <1>5 DEF FindMinted, mintedTask
  <2>3. d'.spent = d.spent
    BY <1>0, <1>5 DEF FindMinted, Skip, Picked, PassFields
  <2>4. CASE Write(t, NoTask)
    <3>1. task' = [task EXCEPT ![t] = NoTask] /\ seen' \in {seen, task'}
      BY <2>4 DEF Write, Hear
    <3>2. Written(t, NoTask)
      BY <2>3, <3>1 DEF Written
    <3> QED BY <2>2, <3>2 DEF TaskMoves
  <2> QED BY <2>1, <2>2, <2>3, <2>4 DEF TaskMoves, QueueMoves
<1>6. CASE task' = task /\ seen' = seen /\ qe' = qe /\ seq' = seq /\ d'.spent \subseteq d.spent
  BY <1>6 DEF TaskMoves, QueueMoves
<1>7. CASE ListSpent
  <2>1. d'.spent = Spent
    BY <1>7 DEF ListSpent, Idle
  <2> QED BY <1>7, <2>1 DEF ListSpent, TaskMoves
<1>8. CASE Relist \/ PassDone \/ \E level \in Levels : admit(level)
  <2>1. d'.spent \in {{}, d.spent}
    <3>1. CASE Relist
      <4>1. PICK T : d' = [Idle EXCEPT !.at = "listed", !.todo = T]
        BY <3>1 DEF Relist
      <4> QED BY <4>1 DEF Idle
    <3>3. CASE PassDone
      BY <3>3 DEF PassDone, Idle
    <3>2. ASSUME NEW level \in Levels, admit(level) PROVE d'.spent = d.spent
      <4>1. PICK T, n, res : d' = [d EXCEPT !.at = "pool", !.todo = T, !.n = n, !.reserve = res]
        BY <3>2 DEF admit
      <4> QED BY <1>0, <4>1 DEF PassFields
    <3> QED BY <1>8, <3>1, <3>2, <3>3
  <2> QED BY <1>6, <1>8, <2>1 DEF Relist, PassDone, admit
<1>9. ASSUME NEW k \in Keys, PassOver(k) \/ admitTicket(k) \/ MintHeld(k) PROVE TaskMoves
  <2>1. d'.spent = d.spent
    BY <1>0, <1>9 DEF PassOver, admitTicket, MintHeld, Skip, Picked, PassFields
  <2> QED BY <1>6, <1>9, <2>1 DEF PassOver, admitTicket, MintHeld
<1> QED BY <1>1, <1>2, <1>3, <1>4, <1>5, <1>7, <1>8, <1>9 DEF Dispatch

\* Every step does one of these things to events and Tasks.
LEMMA NextMoves == Queue /\ [Next]_vars => TaskMoves
<1> SUFFICES ASSUME Queue, [Next]_vars PROVE TaskMoves
  OBVIOUS
<1>1. CASE task' = task /\ seen' \in {seen, task} /\ qe' = qe /\ seq' = seq /\ d' = d
  BY <1>1 DEF TaskMoves, QueueMoves
<1>2. ASSUME NEW e \in Enqueuers, CreateEvent(e) PROVE TaskMoves
  <2> DEFINE k == enq[e]
  <2>1. k \in Items /\ task' = task /\ seen' = seen /\ d' = d
    BY <1>2 DEF CreateEvent, Queue, Shapes
  <2>2. k \in Keys /\ KindOf[k] \in Agents /\ ~IsAdmissionTicket(k)
    BY <2>1, KeyFacts
  <2>3. (qe' = qe /\ seq' = seq) \/ Added(k, KindOf[k])
    BY <1>2, <2>2 DEF CreateEvent, Added
  <2> HIDE DEF k
  <2> QED BY <2>1, <2>2, <2>3 DEF TaskMoves, QueueMoves
<1>3. ASSUME NEW k \in Keys, Starve(k) PROVE TaskMoves
  <2>1. Starved(k) /\ task' = task /\ seen' = seen /\ d' = d
    BY <1>3 DEF Starve, Starved
  <2> QED BY <2>1 DEF TaskMoves, QueueMoves
<1>4. CASE SyncCache \/ (\E e \in Enqueuers, k \in Items : CheckDup(e, k)) \/ UNCHANGED vars
  BY <1>1, <1>4 DEF SyncCache, CheckDup, vars
<1> QED BY <1>2, <1>3, <1>4, DispatchMoves, EnvironmentMoves, TasksMove DEF Next, Enqueue

----------------------------------------------------------------------------
(* What a pass has in hand. *)

InHand ==
  /\ DOMAIN d = PassFields /\ d.room \in Int /\ d.todo \in [Classes -> SUBSET Keys]
  /\ Listed /\ Cleaning /\ Made

\* An event that the pass is done with is on neither of its lists.
LEMMA Skipped ==
  ASSUME Queue, NEW k \in Keys, NEW todo, todo = [d.todo EXCEPT ![Class(k)] = @ \ {k}]
  PROVE  /\ todo \in [Classes -> SUBSET Keys]
         /\ \A c \in Classes : todo[c] \subseteq d.todo[c] /\ k \notin todo[c]
<1>1. d.todo \in [Classes -> SUBSET Keys] /\ Class(k) \in Classes
  BY KeyFacts DEF Queue, Shapes
<1>2. \A c \in Classes : k \in d.todo[c] => Class(k) = c
  BY DEF Queue, Listed
<1> QED BY <1>1, <1>2

\* A pass whose lists shrink, and whose events still wait.
LEMMA ListsShrink ==
  ASSUME Queue, DOMAIN d' = PassFields, d'.room \in Int, d'.at # "made",
         d'.at # "cleaning", d'.spent = {},
         d'.todo \in [Classes -> SUBSET Keys],
         \A c \in Classes : d'.todo[c] \subseteq d.todo[c],
         \A c \in Classes : \A k \in d'.todo[c] : qe'[k].st = "queued"
  PROVE  InHand'
<1>1. Listed'
  BY DEF Queue, Listed, isQueued
<1>2. Made' /\ Cleaning'
  BY DEF Made, Cleaning
<1> QED BY <1>1, <1>2 DEF InHand

\* A pass that nobody disturbs.
LEMMA PassUndisturbed ==
  ASSUME Queue, d' = d, \A k \in Keys : isQueued(k) => isQueued(k)'
  PROVE  InHand'
<1>1. d.todo \in [Classes -> SUBSET Keys] /\ Listed /\ Made /\ Cleaning
  BY DEF Queue, Shapes
<1>2. Listed'
  BY <1>1 DEF Listed
<1>3. Made' /\ Cleaning'
  BY <1>1 DEF Made, Cleaning
<1> QED BY <1>2, <1>3 DEF InHand, Queue, Shapes

\* An idle pass has nothing in hand.
LEMMA IdleInHand == ASSUME d' = Idle PROVE InHand'
<1>1. /\ DOMAIN d' = PassFields /\ d'.room = -1 /\ d'.at = "idle"
      /\ d'.todo = [c \in Classes |-> {}] /\ d'.spent = {}
  BY DEF Idle, PassFields
<1>2. Listed'
  BY <1>1 DEF Listed
<1>3. Made' /\ Cleaning'
  BY <1>1 DEF Made, Cleaning
<1> QED BY <1>1, <1>2, <1>3 DEF InHand

\* The budget of a pass is a number: finitely many Tasks exist.
LEMMA RoomIsInt == ASSUME Queue PROVE Room \in Int
<1>1. MaxLivePods \in Int
  BY QueueAssumption
<1>2. ASSUME NEW S \in SUBSET Existing PROVE Cardinality(S) \in Int
  BY FS_Subset, FS_CardinalityType DEF Queue, Bounded
<1>3. countLive(task) \in SUBSET Existing
  BY DEF countLive, Existing, Exists
<1>4. {t \in TaskIds : Exists(t) /\ ~task[t].parked /\ preLive(task[t].st)} \in SUBSET Existing
  BY DEF Existing
<1>5. {t \in TaskIds : resumptionBlockedOnRoom(t)} \in SUBSET Existing
  BY DEF resumptionBlockedOnRoom, Existing
<1>6. liveMintBudget \in Int
  BY <1>1, <1>2, <1>3, <1>4, <1>5 DEF liveMintBudget
<1> QED BY <1>6 DEF Room, Queue, Shapes

\* A pass lists what waits, drops what it is done with, and marks only what it
\* has listed.
LEMMA DispatchInHand == ASSUME Queue, Dispatch PROVE InHand'
<1>0. /\ DOMAIN d = PassFields /\ d.room \in Int /\ d.todo \in [Classes -> SUBSET Keys]
      /\ Listed /\ Cleaning /\ qe \in [Keys -> Event \cup {NoEvent}]
  BY DEF Queue, Shapes
<1>1. CASE ListSpent
  <2>1. d' = [Idle EXCEPT !.at = "cleaning", !.spent = Spent]
    BY <1>1 DEF ListSpent
  <2>2. /\ DOMAIN d' = PassFields /\ d'.room = -1 /\ d'.at = "cleaning"
        /\ d'.todo = [c \in Classes |-> {}] /\ d'.spent = Spent
    BY <2>1 DEF Idle, PassFields
  <2>3. Listed' /\ Made' /\ Cleaning'
    BY <2>2 DEF Listed, Made, Cleaning, Spent
  <2> QED BY <2>2, <2>3 DEF InHand
<1>12. ASSUME NEW k \in Keys, reconcileDone(k) PROVE InHand'
  <2>1. d.at = "cleaning" /\ d' = [d EXCEPT !.spent = @ \ {k}]
    BY <1>12 DEF reconcileDone
  <2>2. /\ DOMAIN d' = PassFields /\ d'.room = d.room /\ d'.at = "cleaning"
        /\ d'.todo = d.todo /\ d'.spent = d.spent \ {k}
    BY <1>0, <2>1 DEF PassFields
  <2>3. Listed' /\ Made' /\ Cleaning'
    BY <1>0, <2>1, <2>2 DEF Listed, Made, Cleaning
  <2> QED BY <1>0, <2>2, <2>3 DEF InHand
<1>13. CASE Relist
  <2> DEFINE T == [c \in Classes |-> {k \in Keys : isQueued(k) /\ Class(k) = c}]
  <2>1. d' = [Idle EXCEPT !.at = "listed", !.todo = T] /\ qe' = qe
    BY <1>13 DEF Relist
  <2>2. /\ DOMAIN d' = PassFields /\ d'.room = -1 /\ d'.at = "listed" /\ d'.todo = T
        /\ d'.spent = {}
    BY <2>1 DEF Idle, PassFields
  <2>3. Listed' /\ Made' /\ Cleaning'
    BY <2>1, <2>2 DEF Listed, Made, Cleaning, isQueued
  <2> QED BY <2>2, <2>3 DEF InHand
<1>2. ASSUME NEW level \in Levels, admit(level) PROVE InHand'
  <2> DEFINE held(c) == "paused" \in level \/ (c \in level /\ ~Subscription)
             T == [c \in Classes |-> IF held(c) THEN {}
                                     ELSE {k \in d.todo[c] : ~HeldOnUsage(k, level)}]
  <2>1. PICK n, res : d' = [d EXCEPT !.at = "pool", !.todo = T, !.n = n, !.reserve = res]
    BY <1>2 DEF admit
  <2>2. /\ DOMAIN d' = PassFields /\ d'.room = d.room /\ d'.at = "pool" /\ d'.todo = T
        /\ d'.spent = {}
    <3>1. d.at = "listed"
      BY <1>2 DEF admit
    <3> HIDE DEF T
    <3> QED BY <1>0, <2>1, <3>1 DEF PassFields, Cleaning
  <2>3. T \in [Classes -> SUBSET Keys] /\ \A c \in Classes : T[c] \subseteq d.todo[c]
    BY <1>0
  <2>4. qe' = qe
    BY <1>2 DEF admit
  <2>5. \A c \in Classes : \A k \in T[c] : qe[k].st = "queued"
    BY <1>0, <2>3 DEF Listed, isQueued
  <2> HIDE DEF T
  <2> QED BY <1>0, <2>2, <2>3, <2>4, <2>5, ListsShrink
<1>3. CASE PassDone
  BY <1>3, IdleInHand DEF PassDone
<1>4. ASSUME NEW k \in Keys, Consider(k), NEW room \in Int,
             d' = [d EXCEPT !.todo[Class(k)] = @ \ {k}, !.room = room],
             \A j \in Keys \ {k} : qe'[j] = qe[j]
      PROVE  InHand'
  <2> DEFINE T == [d.todo EXCEPT ![Class(k)] = @ \ {k}]
  <2>1. /\ DOMAIN d' = PassFields /\ d'.room = room /\ d'.at = d.at /\ d'.todo = T
        /\ d'.spent = d.spent
    BY <1>0, <1>4 DEF PassFields
  <2>2. /\ T \in [Classes -> SUBSET Keys]
        /\ \A c \in Classes : T[c] \subseteq d.todo[c] /\ k \notin T[c]
    BY Skipped
  <2>3. d.at = "pool" /\ d.spent = {}
    BY <1>0, <1>4 DEF Consider, Cleaning
  <2>4. \A c \in Classes : \A j \in T[c] : qe'[j].st = "queued"
    <3> HIDE DEF T
    <3> QED BY <1>0, <1>4, <2>2 DEF Listed, isQueued
  <2> HIDE DEF T
  <2> QED BY <2>1, <2>2, <2>3, <2>4, ListsShrink
<1>5. ASSUME NEW k \in Keys, Consider(k), Skip(k), \A j \in Keys \ {k} : qe'[j] = qe[j]
      PROVE  InHand'
  <2>1. d' = [d EXCEPT !.todo[Class(k)] = @ \ {k}, !.room = d.room]
    BY <1>0, <1>5 DEF Skip, PassFields
  <2> QED BY <1>0, <1>4, <1>5, <2>1
<1>6. ASSUME NEW k \in Keys, Consider(k), NEW t \in TaskIds, NEW room \in Int, qe' = qe,
             d' = [d EXCEPT !.at = "made", !.pick = k, !.ref = t, !.room = room],
             IsAdmissionTicket(k) => t = k[1]
      PROVE  InHand'
  <2>1. /\ DOMAIN d' = PassFields /\ d'.room = room /\ d'.todo = d.todo
        /\ d'.pick = k /\ d'.ref = t /\ d'.at = "made" /\ d'.spent = {}
    BY <1>0, <1>6 DEF PassFields, Consider, Cleaning
  <2>2. Listed' /\ Cleaning'
    BY <1>0, <1>6, <2>1 DEF Listed, isQueued, Cleaning
  <2>3. Made'
    BY <1>6, <2>1, ConsideredIsQueued DEF Made
  <2> QED BY <1>0, <2>1, <2>2, <2>3 DEF InHand
<1>7. CASE MarkAdmitted
  <2> DEFINE k == d.pick
             T == [d.todo EXCEPT ![Class(k)] = @ \ {k}]
  <2>1. k \in Keys
    BY <1>7 DEF MarkAdmitted, Queue, Made
  <2>2. PICK n : d' = [d EXCEPT !.at = "pool", !.pick = None, !.ref = 0, !.todo = T, !.n = n]
    BY <1>0, <1>7 DEF MarkAdmitted, PassFields
  <2>3. /\ DOMAIN d' = PassFields /\ d'.room = d.room /\ d'.at = "pool" /\ d'.todo = T
        /\ d'.spent = {}
    <3>1. d.at = "made"
      BY <1>7 DEF MarkAdmitted
    <3> HIDE DEF T
    <3> QED BY <1>0, <2>2, <3>1 DEF PassFields, Cleaning
  <2>4. /\ T \in [Classes -> SUBSET Keys]
        /\ \A c \in Classes : T[c] \subseteq d.todo[c] /\ k \notin T[c]
    BY <2>1, Skipped
  <2>5. \A j \in Keys \ {k} : qe'[j] = qe[j]
    BY <1>0, <1>7 DEF MarkAdmitted
  <2>6. \A c \in Classes : \A j \in T[c] : qe'[j].st = "queued"
    <3> HIDE DEF T, k
    <3> QED BY <1>0, <2>4, <2>5 DEF Listed, isQueued
  <2> HIDE DEF T, k
  <2> QED BY <1>0, <2>3, <2>4, <2>6, ListsShrink
<1>8. ASSUME NEW k \in Keys,
             PassOver(k) \/ dropTicket(k) \/ MintHeld(k) \/ DropAdoption(k)
      PROVE  InHand'
  <2>1. Consider(k) /\ \A j \in Keys \ {k} : qe'[j] = qe[j]
    BY <1>0, <1>8 DEF PassOver, dropTicket, MintHeld, DropAdoption, Eligible, DeleteEvents
  <2>2. Skip(k) \/ d' = [d EXCEPT !.todo[Class(k)] = @ \ {k}, !.room = Room]
    BY <1>8 DEF PassOver, dropTicket, MintHeld, DropAdoption
  <2> QED BY <1>4, <1>5, <2>1, <2>2, RoomIsInt
<1>9. ASSUME NEW k \in Keys, admitTicket(k) PROVE InHand'
  <2>1. /\ Consider(k) /\ IsAdmissionTicket(k) /\ qe' = qe
        /\ d' = [d EXCEPT !.at = "made", !.pick = k, !.ref = k[1]]
    BY <1>9 DEF admitTicket, Eligible, Picked
  <2>2. d' = [d EXCEPT !.at = "made", !.pick = k, !.ref = k[1], !.room = d.room]
    BY <1>0, <2>1 DEF PassFields
  <2>3. k[1] \in TaskIds
    BY <2>1, KeyFacts
  <2> QED BY <1>0, <1>6, <2>1, <2>2, <2>3
<1>10. ASSUME NEW k \in Keys, NEW t \in TaskIds, MintTask(k, t) PROVE InHand'
  <2>1. /\ Consider(k) /\ ~IsAdmissionTicket(k) /\ qe' = qe
        /\ d' = [d EXCEPT !.at = "made", !.pick = k, !.ref = t, !.room = Room - 1]
    BY <1>10 DEF MintTask, Eligible
  <2>2. Room - 1 \in Int
    BY RoomIsInt
  <2> QED BY <1>6, <2>1, <2>2
<1>11. ASSUME NEW k \in Keys, FindMinted(k) PROVE InHand'
  <2>1. Consider(k) /\ ~IsAdmissionTicket(k) /\ qe' = qe
    BY <1>11 DEF FindMinted, Eligible
  <2>2. PICK t \in TaskIds : Skip(k) \/ Picked(k, t)
    BY <1>11 DEF FindMinted, mintedTask
  <2>3. CASE Picked(k, t)
    <3>1. d' = [d EXCEPT !.at = "made", !.pick = k, !.ref = t, !.room = d.room]
      BY <1>0, <2>3 DEF Picked, PassFields
    <3> QED BY <1>0, <1>6, <2>1, <3>1
  <2> QED BY <1>5, <2>1, <2>2, <2>3
<1> QED BY <1>1, <1>2, <1>3, <1>7, <1>8, <1>9, <1>10, <1>11, <1>12, <1>13 DEF Dispatch

\* What is done beside a pass leaves it what it listed.
LEMMA NextInHand == Queue /\ [Next]_vars => InHand'
<1> SUFFICES ASSUME Queue, [Next]_vars PROVE InHand'
  OBVIOUS
<1>0. qe \in [Keys -> Event \cup {NoEvent}]
  BY DEF Queue, Shapes
<1>1. CASE d' = d /\ qe' = qe
  BY <1>1, PassUndisturbed DEF isQueued
<1>2. ASSUME NEW k \in Keys, NEW e, d' = d, qe[k] = NoEvent, qe' = [qe EXCEPT ![k] = e]
      PROVE  InHand'
  <2>1. \A j \in Keys : isQueued(j) => isQueued(j)'
    BY <1>0, <1>2, EventIsSome DEF isQueued
  <2> QED BY <1>2, <2>1, PassUndisturbed
<1>3. ASSUME NEW e \in Enqueuers, CreateEvent(e) PROVE InHand'
  <2>1. enq[e] \in Keys /\ d' = d
    BY <1>3, KeyFacts DEF CreateEvent, Queue, Shapes
  <2> QED BY <1>1, <1>2, <1>3, <2>1 DEF CreateEvent
<1>4. ASSUME NEW k \in Keys, Starve(k) PROVE InHand'
  <2>1. /\ d' = d /\ qe[k] \in Event /\ qe[k].st = "queued"
        /\ qe' = [qe EXCEPT ![k] = [qe[k] EXCEPT !.starving = TRUE]]
    BY <1>0, <1>4, EventIsSome DEF Starve, isQueued
  <2>2. [qe[k] EXCEPT !.starving = TRUE].st = "queued"
    BY <2>1 DEF Event
  <2>3. \A j \in Keys : isQueued(j) => isQueued(j)'
    BY <1>0, <2>1, <2>2 DEF isQueued
  <2> QED BY <2>1, <2>3, PassUndisturbed
<1>5. ASSUME NEW t \in TaskIds, TaskSteps(t) PROVE InHand'
  <2>1. CASE ensureTicket(t)
    <3> DEFINE k == <<t, AgentKindFor(seen[t].st, KindOf[seen[t].item])>>
    <3>1. /\ seen[t] # NoTask /\ Live(seen[t].st) /\ qe[k] = NoEvent /\ d' = d
          /\ qe' = [qe EXCEPT ![k] = NewEvent(KindOf[seen[t].item])]
      BY <2>1 DEF ensureTicket
    <3>2. seen[t] \in Task
      BY <3>1 DEF Queue, Shapes, Tasks
    <3>3. k \in Keys
      BY <3>1, <3>2, TicketIsKey
    <3> HIDE DEF k
    <3> QED BY <1>2, <3>1, <3>3
  <2>2. CASE \E r : Set(t, r)
    BY <1>1, <2>2 DEF Set
  <2> QED BY <1>5, <2>1, <2>2
      DEF TaskSteps, Triage, StartPod, TurnEnds, Outcome, Finish, Reap, ConversationIdle,
          repairParkedWithLivePod, Resume, enforceLivePodCeiling
<1>6. CASE Environment
  <2>1. CASE Crash
    BY <2>1, IdleInHand DEF Crash
  <2> QED BY <1>1, <1>6, <2>1 DEF Environment, Reply, Bounce, Withdraw, MRMoves
<1>7. CASE SyncCache \/ (\E e \in Enqueuers, k \in Items : CheckDup(e, k)) \/ UNCHANGED vars
  BY <1>1, <1>7 DEF SyncCache, CheckDup, vars
<1> QED BY <1>3, <1>4, <1>5, <1>6, <1>7, DispatchInHand DEF Next, Enqueue

----------------------------------------------------------------------------
\* The calls of EnqueueEvent under way, and the merge requests that moved.
LEMMA CallsKept ==
  ASSUME Queue, [Next]_vars
  PROVE  enq' \in [Enqueuers -> Items \cup {None}] /\ stale' \subseteq Items
<1>0. enq \in [Enqueuers -> Items \cup {None}] /\ stale \subseteq Items
  BY DEF Queue, Shapes
<1>1. CASE enq' = enq /\ stale' = stale
  BY <1>0, <1>1
<1>2. ASSUME NEW e \in Enqueuers, CreateEvent(e) \/ \E k \in Items : CheckDup(e, k)
      PROVE  enq' \in [Enqueuers -> Items \cup {None}] /\ stale' \subseteq Items
  BY <1>0, <1>2 DEF CreateEvent, CheckDup
<1>3. ASSUME NEW k \in Items, MRMoves(k)
      PROVE  enq' \in [Enqueuers -> Items \cup {None}] /\ stale' \subseteq Items
  BY <1>0, <1>3 DEF MRMoves
<1>4. CASE Dispatch
  BY <1>1, <1>4 DEF Dispatch, ListSpent, reconcileDone, Relist, admit, PassDone, MarkAdmitted, PassOver, dropTicket,
                    admitTicket, MintHeld, DropAdoption, FindMinted, MintTask
<1>5. CASE \E t \in TaskIds : TaskSteps(t)
  <2>1. PICK t \in TaskIds : ensureTicket(t) \/ \E r : Set(t, r)
    BY <1>5 DEF TaskSteps, Triage, StartPod, TurnEnds, Outcome, Finish, Reap, ConversationIdle,
                repairParkedWithLivePod, Resume, enforceLivePodCeiling
  <2> QED BY <1>1, <2>1 DEF ensureTicket, Set
<1>6. CASE SyncCache \/ (\E k \in Keys : Starve(k)) \/ UNCHANGED vars
  BY <1>1, <1>6 DEF SyncCache, Starve, vars
<1>7. CASE Environment
  BY <1>1, <1>3, <1>7 DEF Environment, Crash, Reply, Bounce, Withdraw
<1> QED BY <1>2, <1>4, <1>5, <1>6, <1>7 DEF Next, Enqueue

\* Nothing waits, runs or is in hand to begin with.
LEMMA InitQueue == Init => Queue
<1> SUFFICES ASSUME Init PROVE Queue
  OBVIOUS
<1>1. Events = {} /\ Existing = {}
  BY DEF Init, Events, Existing, Exists
<1>2. Bounded /\ Cardinality(Events) = 0
  BY <1>1, FS_EmptySet DEF Bounded
<1>3. /\ DOMAIN d = PassFields /\ d.room = -1 /\ d.at = "idle"
      /\ d.todo = [c \in Classes |-> {}] /\ d.spent = {}
  BY DEF Init, Idle, PassFields
<1>4. Shapes
  BY <1>3 DEF Init, Shapes, Tasks
<1>5. Listed /\ Made /\ Cleaning
  BY <1>3 DEF Listed, Made, Cleaning
<1>6. Named
  BY DEF Init, Named, isAdmitted, NoEvent
<1>7. Numbered
  BY <1>1, <1>2 DEF Init, Numbered
<1>8. Ticketed
  BY DEF Init, Ticketed, PodsRun, Held, Behind, Cut, Doomed, First, Exists
<1> QED BY <1>2, <1>4, <1>5, <1>6, <1>7, <1>8 DEF Queue

\* Every step preserves it.
LEMMA NextQueue == Queue /\ [Next]_vars => Queue'
<1> SUFFICES ASSUME Queue, [Next]_vars PROVE Queue'
  OBVIOUS
<1>1. TaskMoves
  BY NextMoves
<1>2. QueueMoves
  BY <1>1 DEF TaskMoves, QueueMoves
<1>3. InHand'
  BY NextInHand
<1>4. task' \in Tasks /\ seen' \in Tasks /\ IsFiniteSet(Existing')
  BY <1>1, TasksKept
<1>5. /\ qe' \in [Keys -> Event \cup {NoEvent}]
      /\ IsFiniteSet(Events') /\ Named' /\ Numbered'
  BY <1>2, EventsKept
<1>6. Shapes'
  BY <1>3, <1>4, <1>5, CallsKept DEF Shapes, InHand
<1>7. Ticketed'
  BY <1>1, TicketsKept
<1> QED BY <1>3, <1>4, <1>5, <1>6, <1>7 DEF Queue, Bounded, InHand

\* The queue's own invariant: passes, events, numbers and tickets.
THEOREM QueueHolds == Spec => []Queue
BY InitQueue, NextQueue, PTL DEF Spec

\* The shape of the state: an admitted event names the Task it stands for, and
\* no two events have the same number, however many come and go (enqueue.go,
\* seq.go, queue_controller.go).
THEOREM TypeCorrect == Spec => []TypeOK
<1>1. Queue => TypeOK
  BY DEF Queue, Shapes, Named, Numbered, TypeOK, Tasks
<1> QED BY <1>1, QueueHolds, PTL

\* A pod on its Task's first way through the states holds the ticket of the
\* agent the Task runs, however old the copies that the cleaning of spent events
\* lists and however late it deletes (reconcileDone, ticketSpent in
\* queue_controller.go, ensureTicket in task_stage.go).
THEOREM TicketsAreHeld == Spec => []PodsAreTicketed
<1>1. Queue => PodsAreTicketed
  BY DEF Queue, Ticketed, Held, First, PodsAreTicketed
<1> QED BY <1>1, QueueHolds, PTL

=============================================================================

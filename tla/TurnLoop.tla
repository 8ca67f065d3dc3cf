------------------------------ MODULE TurnLoop ------------------------------
(***************************************************************************)
(* How one Task talks to its agent: the pod the Task reconciler keeps for  *)
(* the Task's state (reconcilePodStage), the clocks the pod watcher stamps *)
(* (podwatch.go), the turns submitted to the wrapper in the pod, their     *)
(* completion by callback and by poll (turncallback.go), the probes of a   *)
(* silent turn (stall.go), the stop that leaves a note for the next pod    *)
(* (ttlstop.go), and the window of tokens each turn is charged to          *)
(* (budget.go).                                                            *)
(*                                                                         *)
(* The actors interleave: the reconciler (one pass at a time), the pod     *)
(* watcher, the callback server, which serves callbacks side by side, its  *)
(* poll, and the agent.  Each is split where it writes to the API server   *)
(* or calls the wrapper.  A crash, or a failed call, loses the record of   *)
(* the pass.                                                               *)
(*                                                                         *)
(* Pods and turns are numbered in the order they are created, and a time   *)
(* stamp is the number of the pod or turn it was taken for.  A pod is      *)
(* always admitted (AdmissionQueue is about that) and the Task is never    *)
(* done: `Enter` takes it from one agent state to the next.                *)
(***************************************************************************)
EXTENDS Integers, Sequences, FiniteSets, SequencesExt

CONSTANTS
  MaxPods, MaxTurns, MaxStages,  \* bounds on the numbers in use
  Events,                        \* keys of events: a comment, a check result
  MaxArrivals,                   \* bound on the arrivals of each
  maxPendingEvents,              \* the queue of events on a Task
  stallProbeMaxAttempts,
  AgentStopReArmCap,
  Handlers,                      \* callbacks served at a time
  Faults,                        \* the faults that may strike
  MaxFaults                      \* and how often, all together

FaultNames == {"crash", "death", "hang", "lost", "write", "ttl", "unreachable", "boot"}

ASSUME TurnAssumption ==
  /\ {MaxPods, MaxTurns, MaxStages} \subseteq Nat \ {0}
  /\ {maxPendingEvents, stallProbeMaxAttempts, AgentStopReArmCap} \subseteq Nat \ {0}
  /\ MaxArrivals \in Nat /\ IsFiniteSet(Events)
  /\ Faults \subseteq FaultNames /\ MaxFaults \in Nat

Pods == 0 .. MaxPods        \* 0: no pod, or a stamp that is not set
TurnIds == 0 .. MaxTurns
Turns == 1 .. MaxTurns
Stages == 1 .. MaxStages

VARIABLES
  st,       \* the Task's status
  ann,      \* the Task's annotations
  notes,    \* its journal
  wr,       \* the wrapper pod, as the cluster has it
  ids,      \* the last pod and the last turn created, the events that arrived
  net,      \* callbacks the wrappers still retry
  rec,      \* the reconciler's pass
  pw,       \* the pod watcher's pass
  cb,       \* the callbacks in progress
  overlap,  \* ghost: turns of which two callbacks were in progress at once
  window,   \* how often each turn's tokens are in the Project's window
  told,     \* how often each event was rendered into a submitted turn
  dropped,  \* events the capped queue let go
  left      \* faults left

taskVars == <<st, ann, notes>>
vars == <<st, ann, notes, wr, ids, net, rec, pw, cb, overlap, window, told, dropped, left>>

----------------------------------------------------------------------------
(* Data. *)

Status == [stage : Stages, podStartedAt : Pods, work : BOOLEAN, parked : BOOLEAN,
           text : TurnIds, repos : TurnIds, agentStops : 0 .. AgentStopReArmCap,
           pending : SeqOf(Events, maxPendingEvents)]

\* `turn` names the turn in flight or just complete, `turn0` the stage and pod
\* that got their bundle, `unreachable` the pod first found not answering.
Annotations == [turn : TurnIds, complete : BOOLEAN, stalled : BOOLEAN, probed : BOOLEAN,
                attempts : 0 .. stallProbeMaxAttempts, turn0 : (Stages \cup {0}) \X Pods,
                unreachable : Pods]

\* The turns the notes tell of, and the pod whose agent last wrote a handoff.
Journal == [tells : SUBSET Turns, handoff : Pods]

\* How often each turn is in the current window, and in those before it.
Window == [n : [Turns -> Nat], old : [Turns -> Nat]]
Nothing == [t \in Turns |-> 0]

\* `ttl` is the operator's reading of the pod's time to live, `gone410` the
\* wrapper's own; `done` are the turns whose results it can still be asked for.
Wrapper == [id : Pods, stage : Stages \cup {0}, phase : {"none", "booting", "ready", "dead"},
            turn : TurnIds, done : SUBSET Turns, hung : BOOLEAN, ttl : BOOLEAN, gone410 : BOOLEAN]

NoWrapper == [id |-> 0, stage |-> 0, phase |-> "none", turn |-> 0, done |-> {},
              hung |-> FALSE, ttl |-> FALSE, gone410 |-> FALSE]

Stops == {"ttl", "stall"}
Idle == [pc |-> "idle"]
Serving(h, t) == cb[h].pc # "idle" /\ cb[h].turn = t

taskHasInflightTurn == ann.turn # 0 /\ ~ann.complete
turnIsStalled == ann.turn # 0 /\ ann.stalled
turn0Marker == <<st.stage, st.podStartedAt>>
podUnusable == wr.phase \in {"none", "dead"}
HasAgentHandoffNoteSince(p) == notes.handoff # 0 /\ notes.handoff >= p
\* A pending event is something new to put to the agent.
AgentStopReArmExhausted == st.pending = <<>> /\ st.agentStops >= AgentStopReArmCap
Running == wr.phase = "ready"

clearedTurn(a) == [a EXCEPT !.turn = 0, !.complete = FALSE, !.stalled = FALSE,
                            !.probed = FALSE, !.attempts = 0]

clearLastTurn(s) == [s EXCEPT !.text = 0, !.repos = 0]
noPodClocks(s) == [s EXCEPT !.podStartedAt = 0, !.work = FALSE]

\* Mutant: the queue has no cap.
M_appendEventCapped(q, e) == Append(q, e)

appendEventCapped(q, e) ==
  LET out == Append(q, e)
  IN IF Len(out) > maxPendingEvents THEN Tail(out) ELSE out

Occurrences(q, e) == {i \in DOMAIN q : q[i] = e}
Count(q, e) == Cardinality(Occurrences(q, e))
Upto(S, i) == {j \in S : j <= i}

\* The elements of q at the positions of keep, in their order.
Subsequence(q, keep) ==
  [n \in 1 .. Cardinality(keep) |-> q[CHOOSE i \in keep : Cardinality(Upto(keep, i)) = n]]

\* Mutant: the queue is emptied, whatever arrived since it was rendered.
M_drainRenderedEvents(current, rendered) == IF rendered = <<>> THEN current ELSE <<>>

\* Remove from the queue as many of each key as were rendered, oldest first.
drainRenderedEvents(current, rendered) ==
  Subsequence(current, {i \in DOMAIN current :
    Cardinality(Upto(Occurrences(current, current[i]), i)) > Count(rendered, current[i])})

\* A deleted pod ends its turn; its wrapper may still report how it ended.
deleteWrapper ==
  /\ wr' = NoWrapper
  /\ \E late \in SUBSET ({wr.turn} \ {0}) : net' = net \cup late

Fault(f) == f \in Faults /\ left > 0 /\ left' = left - 1
GoTo(pc) == rec' = [rec EXCEPT !.pc = pc]
EndPass == rec' = Idle

\* Every variable has its type: the queue of events keeps to its cap, the
\* threads to the steps they have.
TypeOK ==
  /\ st \in Status /\ ann \in Annotations /\ notes \in Journal /\ wr \in Wrapper
  /\ ids \in [pod : Pods, turn : TurnIds, events : [Events -> 0 .. MaxArrivals]]
  /\ net \subseteq Turns
  /\ rec.pc \in {"idle", "create", "submit", "stamp", "drain", "probe", "wait", "handoff",
                 "synthetic", "finish", "clear", "patch"}
  /\ pw.pc \in {"idle", "stamp", "work", "delete"}
  /\ \A h \in Handlers : cb[h].pc \in {"idle", "usage", "text", "result", "budget"}
  /\ overlap \subseteq Turns /\ window \in Window
  /\ told \in [Events -> Nat] /\ dropped \in [Events -> Nat]
  /\ left \in 0 .. MaxFaults

Init ==
  /\ st = [stage |-> 1, podStartedAt |-> 0, work |-> FALSE, parked |-> FALSE,
           text |-> 0, repos |-> 0, agentStops |-> 0, pending |-> <<>>]
  /\ ann = [turn |-> 0, complete |-> FALSE, stalled |-> FALSE, probed |-> FALSE,
            attempts |-> 0, turn0 |-> <<0, 0>>, unreachable |-> 0]
  /\ notes = [tells |-> {}, handoff |-> 0]
  /\ wr = NoWrapper
  /\ ids = [pod |-> 0, turn |-> 0, events |-> [e \in Events |-> 0]]
  /\ net = {} /\ rec = Idle /\ pw = Idle /\ cb = [h \in Handlers |-> Idle]
  /\ overlap = {} /\ window = [n |-> Nothing, old |-> Nothing]
  /\ told = [e \in Events |-> 0] /\ dropped = [e \in Events |-> 0]
  /\ left = MaxFaults

----------------------------------------------------------------------------
(* The agent, its pod and the world. *)

\* The pod becomes ready.
PodBoots ==
  /\ wr.phase = "booting"
  /\ wr' = [wr EXCEPT !.phase = "ready"]
  /\ UNCHANGED <<taskVars, ids, net, rec, pw, cb, overlap, window, told, dropped, left>>

\* The pod is evicted, or its container fails and the corpse stays.
PodDies ==
  /\ wr.phase \in {"booting", "ready"} /\ Fault("death")
  /\ wr' \in {NoWrapper, [wr EXCEPT !.phase = "dead", !.turn = 0, !.done = {}, !.hung = FALSE]}
  /\ UNCHANGED <<taskVars, ids, net, rec, pw, cb, overlap, window, told, dropped>>

\* The turn ends; the wrapper calls back.  The agent may have written a handoff.
AgentFinishes ==
  /\ wr.turn # 0 /\ ~wr.hung
  /\ wr' = [wr EXCEPT !.turn = 0, !.done = @ \cup {wr.turn}]
  /\ net' = net \cup {wr.turn}
  /\ notes' \in {notes, [tells |-> notes.tells \cup wr'.done, handoff |-> wr.id]}
  /\ UNCHANGED <<st, ann, ids, rec, pw, cb, overlap, window, told, dropped, left>>

AgentHangs ==
  /\ wr.turn # 0 /\ ~wr.hung /\ Fault("hang")
  /\ wr' = [wr EXCEPT !.hung = TRUE]
  /\ UNCHANGED <<taskVars, ids, net, rec, pw, cb, overlap, window, told, dropped>>

\* A wrapper past its time to live refuses new turns.  A turn at work moves the
\* deadline, a hung one does not.
TTLPasses ==
  /\ Running /\ ~wr.ttl
  /\ IF wr.hung THEN UNCHANGED left ELSE Fault("ttl")
  /\ wr' = [wr EXCEPT !.ttl = TRUE, !.gone410 = TRUE]
  /\ UNCHANGED <<taskVars, ids, net, rec, pw, cb, overlap, window, told, dropped>>

\* The turn's window passes without activity: it hangs, its pod is gone, or
\* it has ended and nothing followed.
TurnTimesOut ==
  /\ ann.turn # 0 /\ ~ann.stalled
  /\ wr.turn = ann.turn => wr.hung
  /\ ann' = [ann EXCEPT !.stalled = TRUE]
  /\ UNCHANGED <<st, notes, wr, ids, net, rec, pw, cb, overlap, window, told, dropped, left>>

CallbackLost ==
  /\ Fault("lost")
  /\ \E t \in net : net' = net \ {t}
  /\ UNCHANGED <<taskVars, wr, ids, rec, pw, cb, overlap, window, told, dropped>>

\* A webhook appends an event, which also restarts the operator's clock.
AppendTaskEvent ==
  /\ \E e \in Events :
       /\ ids.events[e] < MaxArrivals
       /\ ids' = [ids EXCEPT !.events[e] = @ + 1]
       /\ st' = [st EXCEPT !.pending = appendEventCapped(@, e)]
       /\ dropped' = IF Len(st.pending) < maxPendingEvents THEN dropped
                     ELSE [dropped EXCEPT ![Head(st.pending)] = @ + 1]
  /\ wr' = [wr EXCEPT !.ttl = FALSE]
  /\ UNCHANGED <<ann, notes, net, rec, pw, cb, overlap, window, told, left>>

\* The Task enters its next agent state.  A crash may leave the old pod.
Enter ==
  /\ ~st.parked /\ st.stage < MaxStages
  /\ st' = [clearLastTurn(noPodClocks(st)) EXCEPT !.stage = @ + 1, !.agentStops = 0]
  /\ \/ deleteWrapper /\ UNCHANGED left
     \/ Fault("crash") /\ UNCHANGED <<wr, net>>
  /\ UNCHANGED <<ann, notes, ids, rec, pw, cb, overlap, window, told, dropped>>

\* Park: the status, then the pod, then the annotations of the turn.
ParkTask ==
  /\ st' = [noPodClocks(st) EXCEPT !.parked = TRUE]
  /\ deleteWrapper
  /\ \/ ann' = clearedTurn(ann) /\ UNCHANGED left
     \/ Fault("crash") /\ UNCHANGED ann

----------------------------------------------------------------------------
(* The pod watcher. *)

\* Read the pod; a parked Task's is left alone.
WatchRead ==
  /\ pw.pc = "idle" /\ wr.phase # "none" /\ ~st.parked
  /\ st.podStartedAt < wr.id \/ ~st.work
  /\ pw' = [pc |-> "stamp", id |-> wr.id, ready |-> Running]
  /\ UNCHANGED <<taskVars, wr, ids, net, rec, cb, overlap, window, told, dropped, left>>

StampPodStartedAt ==
  /\ pw.pc = "stamp"
  /\ st' = IF st.podStartedAt >= pw.id THEN st
           ELSE [st EXCEPT !.podStartedAt = pw.id, !.work = FALSE]
  /\ pw' = [pw EXCEPT !.pc = "work"]
  /\ UNCHANGED <<ann, notes, wr, ids, net, rec, cb, overlap, window, told, dropped, left>>

\* The pod is ready and its wrapper speaks our contract: the work clock starts.
StampStageWorkStartedAt ==
  /\ pw.pc = "work" /\ pw.ready
  /\ st' = IF st.podStartedAt = 0 THEN st ELSE [st EXCEPT !.work = TRUE]
  /\ pw' = Idle
  /\ UNCHANGED <<ann, notes, wr, ids, net, rec, cb, overlap, window, told, dropped, left>>

\* A wrapper a release apart is waited for, and the Task is parked when the wait
\* for one that never speaks our contract is over.
failContractMismatch ==
  /\ pw.pc = "work" /\ pw.ready /\ ~st.work /\ ~st.parked
  /\ ParkTask
  /\ pw' = Idle
  /\ UNCHANGED <<notes, ids, rec, cb, overlap, window, told, dropped>>

\* A pod that is not ready past the boot deadline gives up its clocks.
handleNotReady ==
  /\ pw.pc = "work" /\ ~pw.ready
  /\ \/ pw' = Idle /\ UNCHANGED <<st, left>>
     \/ /\ IF wr.phase = "dead" THEN UNCHANGED left ELSE Fault("boot")
        /\ IF st.work THEN pw' = Idle /\ UNCHANGED st
           ELSE st' = noPodClocks(st) /\ pw' = [pw EXCEPT !.pc = "delete"]
  /\ UNCHANGED <<ann, notes, wr, ids, net, rec, cb, overlap, window, told, dropped>>

\* The pod is deleted by its name, whichever pod has it by now.
WatchDelete ==
  /\ pw.pc = "delete" /\ deleteWrapper /\ pw' = Idle
  /\ UNCHANGED <<taskVars, ids, rec, cb, overlap, window, told, dropped, left>>

----------------------------------------------------------------------------
(* Callbacks and the poll. *)

\* A callback that names no Task's current turn is answered 404.  The wrapper
\* repeats one that is not answered in time, though it is still being served.
handleTurnComplete(h) ==
  /\ cb[h].pc = "idle"
  /\ \E t \in net :
       IF ann.turn # t THEN net' = net \ {t} /\ UNCHANGED <<cb, overlap>>
       ELSE /\ cb' = [cb EXCEPT ![h] = [pc |-> "usage", turn |-> t, recorded |-> FALSE]]
            /\ overlap' = overlap \cup {u \in {t} : \E g \in Handlers : Serving(g, u)}
            /\ UNCHANGED net
  /\ UNCHANGED <<taskVars, wr, ids, rec, pw, window, told, dropped, left>>

Served(h, pc) == cb' = [cb EXCEPT ![h].pc = pc]

\* Mutant: a turn that is complete is recorded again.
M_recordUsage(h) ==
  /\ cb[h].pc = "usage"
  /\ LET lands == ann.turn = cb[h].turn
     IN \/ cb' = [cb EXCEPT ![h].pc = "text", ![h].recorded = lands] /\ UNCHANGED left
        \/ lands /\ Fault("write") /\ Served(h, "text")
  /\ UNCHANGED <<taskVars, wr, ids, net, rec, pw, overlap, window, told, dropped>>

\* The usage goes to the Task's statistics, which nothing here reads.  A failed
\* write of the usage, or of the text, is logged and passed over.
recordUsage(h) ==
  /\ cb[h].pc = "usage"
  /\ LET lands == ann.turn = cb[h].turn /\ ~ann.complete
     IN \/ cb' = [cb EXCEPT ![h].pc = "text", ![h].recorded = lands] /\ UNCHANGED left
        \/ lands /\ Fault("write") /\ Served(h, "text")
  /\ UNCHANGED <<taskVars, wr, ids, net, rec, pw, overlap, window, told, dropped>>

stampLastTurn(h) ==
  /\ cb[h].pc = "text"
  /\ st' = IF ann.turn = cb[h].turn THEN [st EXCEPT !.text = cb[h].turn, !.repos = cb[h].turn] ELSE st
  /\ Served(h, "result")
  /\ UNCHANGED <<ann, notes, wr, ids, net, rec, pw, overlap, window, told, dropped, left>>

\* A failed write of the result is answered 500, and the wrapper tries again.
recordResult(h) ==
  /\ cb[h].pc = "result"
  /\ \/ /\ ann' = IF ann.turn = cb[h].turn THEN [ann EXCEPT !.complete = TRUE] ELSE ann
        /\ Served(h, "budget") /\ UNCHANGED left
     \/ Fault("write") /\ cb' = [cb EXCEPT ![h] = Idle] /\ UNCHANGED ann
  /\ UNCHANGED <<st, notes, wr, ids, net, rec, pw, overlap, window, told, dropped>>

\* A window that a reset has passed since it was written starts over.
Roll(w, reset, t) ==
  LET now == IF reset THEN [n |-> Nothing, old |-> [u \in Turns |-> w.old[u] + w.n[u]]] ELSE w
  IN [now EXCEPT !.n[t] = @ + 1]

\* The window is charged for what this callback recorded; a failed write of it is
\* logged.  The answer may be lost, and then a callback that was served is repeated.
updateProjectBudget(h) ==
  /\ cb[h].pc = "budget"
  /\ IF cb[h].recorded THEN \E reset \in BOOLEAN : window' \in {window, Roll(window, reset, cb[h].turn)}
     ELSE UNCHANGED window
  /\ cb' = [cb EXCEPT ![h] = Idle]
  /\ \/ net' = net \ {cb[h].turn} /\ UNCHANGED left
     \/ Fault("lost") /\ UNCHANGED net
  /\ UNCHANGED <<taskVars, wr, ids, rec, pw, overlap, told, dropped>>

CallbackCrashes ==
  /\ Fault("crash")
  /\ \E h \in Handlers : cb[h].pc # "idle" /\ cb' = [cb EXCEPT ![h] = Idle]
  /\ UNCHANGED <<taskVars, wr, ids, net, rec, pw, overlap, window, told, dropped>>

\* Mutant: the poll looks for signs of work only.
M_refreshTurnFromWrapper ==
  /\ taskHasInflightTurn /\ Running
  /\ ann.turn = wr.turn /\ ~wr.hung /\ ann.stalled
  /\ ann' = [ann EXCEPT !.stalled = FALSE]
  /\ UNCHANGED <<st, notes, wr, ids, net, rec, pw, cb, overlap, window, told, dropped, left>>

\* The poll asks the wrapper for the turn: what it finds ended it records, but
\* the usage and the pushed repositories only a callback carries; what it finds
\* at work is not stalled.
refreshTurnFromWrapper ==
  /\ taskHasInflightTurn /\ Running
  /\ \/ /\ ann.turn \in wr.done
        /\ ann' = [ann EXCEPT !.complete = TRUE]
        /\ st' = [st EXCEPT !.text = ann.turn]
     \/ /\ ann.turn = wr.turn /\ ~wr.hung /\ ann.stalled
        /\ ann' = [ann EXCEPT !.stalled = FALSE]
        /\ UNCHANGED st
  /\ UNCHANGED <<notes, wr, ids, net, rec, pw, cb, overlap, window, told, dropped, left>>

\* A stalled turn of a Task that no reconcile will stop is cleared.
PollOnce ==
  /\ taskHasInflightTurn /\ ann.stalled
  /\ ~(Running /\ ann.turn \in wr.done \cup {wr.turn})
  /\ st.parked \/ st.podStartedAt = 0
  /\ ann' = clearedTurn(ann)
  /\ UNCHANGED <<st, notes, wr, ids, net, rec, pw, cb, overlap, window, told, dropped, left>>

----------------------------------------------------------------------------
(* The reconciler's pass over the Task's agent state. *)

agentAskedToBeStopped ==
  st.podStartedAt # 0 /\ ~taskHasInflightTurn /\ HasAgentHandoffNoteSince(st.podStartedAt)

\* A pass begins with a live read; a parked Task has no agent state to work on.
BeginPass == rec.pc = "idle" /\ ~st.parked

\* The checks of a running pod, in the order of reconcilePodStage.
PodInUse == BeginPass /\ st.podStartedAt # 0 /\ ~podUnusable
TTLExpired == PodInUse /\ ~agentAskedToBeStopped /\ wr.ttl
StallHandled == PodInUse /\ ~agentAskedToBeStopped /\ ~wr.ttl /\ turnIsStalled
StageWork ==
  \/ BeginPass /\ st.podStartedAt = 0 /\ ~AgentStopReArmExhausted
  \/ PodInUse /\ ~agentAskedToBeStopped /\ ~wr.ttl /\ ~turnIsStalled

PassOf(pc, why) ==
  rec' = [pc |-> pc, why |-> why, text |-> st.text, events |-> st.pending,
          marker |-> turn0Marker, turn |-> 0]

\* The agent kept stopping without an outcome: no further pod, a human decides.
parkNoOutcome ==
  /\ BeginPass /\ st.podStartedAt = 0 /\ AgentStopReArmExhausted
  /\ ParkTask
  /\ UNCHANGED <<notes, ids, rec, pw, cb, overlap, window, told, dropped>>

\* A pod that had become ready is gone without an outcome: the Task parks.
reconcileCaps ==
  /\ BeginPass /\ st.podStartedAt # 0 /\ st.work /\ podUnusable
  /\ ParkTask
  /\ UNCHANGED <<notes, ids, rec, pw, cb, overlap, window, told, dropped>>

\* A pod that never did is gone: delete the corpse, then re-arm, keeping the
\* text of the last turn, since nobody wrote a note.
respawnLostPod ==
  /\ BeginPass /\ st.podStartedAt # 0 /\ ~st.work /\ podUnusable
  /\ deleteWrapper /\ PassOf("patch", "respawn")
  /\ UNCHANGED <<taskVars, ids, pw, cb, overlap, window, told, dropped, left>>

stopAfterAgentHandoff ==
  /\ PodInUse /\ agentAskedToBeStopped
  /\ deleteWrapper /\ PassOf("clear", "agent")
  /\ UNCHANGED <<taskVars, ids, pw, cb, overlap, window, told, dropped, left>>

ttlStop ==
  /\ TTLExpired /\ PassOf("wait", "ttl")
  /\ UNCHANGED <<taskVars, wr, ids, net, pw, cb, overlap, window, told, dropped, left>>

\* Ask a silent turn whether it is alive; a wrapper that cannot be asked is
\* stopped as before there were probes.
sendStallProbe ==
  /\ StallHandled /\ ~ann.probed
  /\ IF Running
     THEN /\ ann' = [ann EXCEPT !.probed = TRUE, !.attempts = @ + 1]
          /\ UNCHANGED rec
     ELSE PassOf("wait", "stall") /\ UNCHANGED ann
  /\ UNCHANGED <<st, notes, wr, ids, net, pw, cb, overlap, window, told, dropped, left>>

recordProbeAnswer ==
  /\ StallHandled /\ ann.probed /\ Running /\ ~wr.hung
  /\ ann' = [ann EXCEPT !.stalled = FALSE, !.probed = FALSE, !.attempts = 0]
  /\ UNCHANGED <<st, notes, wr, ids, net, rec, pw, cb, overlap, window, told, dropped, left>>

\* No answer within the grace: ask again.
evaluateStallProbe ==
  /\ StallHandled /\ ann.probed /\ wr.hung
  /\ ann.attempts < stallProbeMaxAttempts
  /\ ann' = [ann EXCEPT !.attempts = @ + 1]
  /\ UNCHANGED <<st, notes, wr, ids, net, rec, pw, cb, overlap, window, told, dropped, left>>

\* The ladder is exhausted, or the wrapper is no longer there to ask: cancel
\* the turn, if that still works, and stop the pod.
escalateStall ==
  /\ StallHandled /\ ann.probed
  /\ ~Running \/ (wr.hung /\ ann.attempts = stallProbeMaxAttempts)
  /\ \/ UNCHANGED <<wr, net>>
     \/ /\ wr.turn # 0
        /\ wr' = [wr EXCEPT !.turn = 0, !.hung = FALSE, !.done = @ \cup {wr.turn}]
        /\ net' = net \cup {wr.turn}
  /\ PassOf("wait", "stall")
  /\ UNCHANGED <<taskVars, ids, pw, cb, overlap, window, told, dropped, left>>

\* The turn came back to life by itself.
clearStallProbe ==
  /\ StageWork /\ ann.probed
  /\ ann' = [ann EXCEPT !.probed = FALSE, !.attempts = 0]
  /\ UNCHANGED <<st, notes, wr, ids, net, rec, pw, cb, overlap, window, told, dropped, left>>

\* A pod of a state the Task has left is deleted; the next pass goes on.
ensureStagePodStale ==
  /\ StageWork /\ wr.phase # "none" /\ wr.stage # st.stage
  /\ deleteWrapper
  /\ UNCHANGED <<taskVars, ids, rec, pw, cb, overlap, window, told, dropped, left>>

\* No pod: the live state is read once more before one is made.
ensureStagePod ==
  /\ StageWork /\ wr.phase = "none" /\ PassOf("create", "pod")
  /\ UNCHANGED <<taskVars, wr, ids, net, pw, cb, overlap, window, told, dropped, left>>

createPod ==
  /\ rec.pc = "create" /\ EndPass
  /\ IF wr.phase # "none" THEN UNCHANGED <<wr, ids>>
     ELSE /\ ids.pod < MaxPods
          /\ ids' = [ids EXCEPT !.pod = @ + 1]
          /\ wr' = [NoWrapper EXCEPT !.id = ids.pod + 1, !.stage = rec.marker[1], !.phase = "booting"]
  /\ UNCHANGED <<taskVars, net, pw, cb, overlap, window, told, dropped, left>>

\* Mutant: events wait until the pod is asked nothing, not until its turn ends.
M_reconcilePodStage ==
  /\ StageWork /\ wr.phase # "none" /\ wr.stage = st.stage /\ st.work
  /\ \/ ann.turn0 # turn0Marker
     \/ ann.turn0 = turn0Marker /\ st.pending # <<>> /\ ann.turn = 0
  /\ PassOf("submit", "turn")
  /\ UNCHANGED <<taskVars, wr, ids, net, pw, cb, overlap, window, told, dropped, left>>

\* The pod's first turn carries the bundle; later turns carry new events.
reconcilePodStage ==
  /\ StageWork /\ wr.phase # "none" /\ wr.stage = st.stage /\ st.work
  /\ \/ ann.turn0 # turn0Marker
     \/ ann.turn0 = turn0Marker /\ st.pending # <<>> /\ ~taskHasInflightTurn
  /\ PassOf("submit", "turn")
  /\ UNCHANGED <<taskVars, wr, ids, net, pw, cb, overlap, window, told, dropped, left>>

----------------------------------------------------------------------------
(* Submitting a turn. *)

SubmitTurn ==
  /\ rec.pc = "submit" /\ Running /\ ~wr.gone410 /\ wr.turn = 0
  /\ ids.turn < MaxTurns
  /\ ids' = [ids EXCEPT !.turn = @ + 1]
  /\ wr' = [wr EXCEPT !.turn = ids.turn + 1]
  /\ told' = [e \in Events |-> told[e] + Count(rec.events, e)]
  /\ rec' = [rec EXCEPT !.pc = "stamp", !.turn = ids.turn + 1]
  /\ UNCHANGED <<taskVars, net, pw, cb, overlap, window, dropped, left>>

\* 409: a turn is running, try later.  410: past its time to live, stop the pod.
handleTurnSubmitFailure ==
  /\ rec.pc = "submit" /\ Running
  /\ IF wr.gone410 THEN rec' = [rec EXCEPT !.pc = "wait", !.why = "ttl"]
     ELSE wr.turn # 0 /\ EndPass
  /\ UNCHANGED <<taskVars, wr, ids, net, pw, cb, overlap, window, told, dropped, left>>

\* A wrapper that does not answer is tried again until the boot deadline after
\* its first sighting, then replaced.
handleTransientWrapper ==
  /\ rec.pc = "submit"
  /\ \/ ~Running /\ UNCHANGED left
     \/ Running /\ Fault("unreachable")
  /\ \/ /\ ann' = IF ann.unreachable = 0 THEN [ann EXCEPT !.unreachable = rec.marker[2]] ELSE ann
        /\ EndPass /\ UNCHANGED <<wr, net>>
     \/ /\ ann.unreachable # 0
        /\ ann' = [ann EXCEPT !.unreachable = 0]
        /\ deleteWrapper
        /\ rec' = [rec EXCEPT !.pc = "patch", !.why = "respawn"]
  /\ UNCHANGED <<st, notes, ids, pw, cb, overlap, window, told, dropped>>

submitStageTurn ==
  /\ rec.pc = "stamp"
  /\ ann' = [ann EXCEPT !.turn0 = rec.marker, !.turn = rec.turn,
                        !.complete = FALSE, !.stalled = FALSE]
  /\ GoTo("drain")
  /\ UNCHANGED <<st, notes, wr, ids, net, pw, cb, overlap, window, told, dropped, left>>

drainPendingEvents ==
  /\ rec.pc = "drain"
  /\ st' = [st EXCEPT !.pending = drainRenderedEvents(@, rec.events)]
  /\ EndPass
  /\ UNCHANGED <<ann, notes, wr, ids, net, pw, cb, overlap, window, told, dropped, left>>

----------------------------------------------------------------------------
(* Stopping a pod: a note for the next one, then the pod, then the clocks. *)

\* Wait for the turn in flight; give up at the bound, or when nobody answers.
waitIdle ==
  /\ rec.pc = "wait"
  /\ \/ Running /\ wr.turn = 0 /\ GoTo("handoff")
     \/ (~Running \/ wr.turn # 0) /\ GoTo("synthetic")
  /\ UNCHANGED <<taskVars, wr, ids, net, pw, cb, overlap, window, told, dropped, left>>

\* The one turn a wrapper still admits: the agent writes its handoff, or not.
waitHandoffNote ==
  /\ rec.pc = "handoff"
  /\ \/ /\ Running
        /\ notes' = [tells |-> notes.tells \cup wr.done, handoff |-> wr.id]
        /\ GoTo("finish")
     \/ GoTo("synthetic") /\ UNCHANGED notes
  /\ UNCHANGED <<st, ann, wr, ids, net, pw, cb, overlap, window, told, dropped, left>>

\* The operator's own note tells of the last turn the pass had read.
writeSyntheticNote ==
  /\ rec.pc = "synthetic"
  /\ notes' = [notes EXCEPT !.tells = @ \cup ({rec.text} \ {0})]
  /\ GoTo("finish")
  /\ UNCHANGED <<st, ann, wr, ids, net, pw, cb, overlap, window, told, dropped, left>>

finish ==
  /\ rec.pc = "finish" /\ deleteWrapper
  /\ GoTo(IF rec.why = "ttl" THEN "patch" ELSE "clear")
  /\ UNCHANGED <<taskVars, ids, pw, cb, overlap, window, told, dropped, left>>

\* The count of agent stops is only compared with its cap, and kept at most there.
reArm ==
  /\ rec.pc = "patch"
  /\ LET s == noPodClocks(st)
     IN st' = CASE rec.why = "respawn" -> s
                [] rec.why \in Stops -> clearLastTurn(s)
                [] rec.why = "agent" ->
                     [clearLastTurn(s) EXCEPT !.agentStops = IF @ < AgentStopReArmCap THEN @ + 1 ELSE @]
  /\ IF rec.why \in {"ttl", "respawn"} THEN GoTo("clear") ELSE EndPass
  /\ UNCHANGED <<ann, notes, wr, ids, net, pw, cb, overlap, window, told, dropped, left>>

clearTurnAnnotations ==
  /\ rec.pc = "clear"
  /\ ann' = clearedTurn(ann)
  /\ IF rec.why \in {"stall", "agent"} THEN GoTo("patch") ELSE EndPass
  /\ UNCHANGED <<st, notes, wr, ids, net, pw, cb, overlap, window, told, dropped, left>>

\* The leader dies, or a call fails and the pass returns its error.
PassLost ==
  /\ rec.pc # "idle" /\ Fault("crash") /\ EndPass
  /\ UNCHANGED <<taskVars, wr, ids, net, pw, cb, overlap, window, told, dropped>>

----------------------------------------------------------------------------

Pass ==
  \/ parkNoOutcome \/ reconcileCaps \/ respawnLostPod \/ stopAfterAgentHandoff \/ ttlStop
  \/ sendStallProbe \/ recordProbeAnswer \/ evaluateStallProbe \/ escalateStall
  \/ clearStallProbe \/ ensureStagePodStale \/ ensureStagePod \/ createPod
  \/ reconcilePodStage \/ SubmitTurn \/ handleTurnSubmitFailure
  \/ handleTransientWrapper \/ submitStageTurn \/ drainPendingEvents
  \/ waitIdle \/ waitHandoffNote \/ writeSyntheticNote \/ finish
  \/ reArm \/ clearTurnAnnotations

Watch ==
  \/ WatchRead \/ StampPodStartedAt \/ StampStageWorkStartedAt
  \/ failContractMismatch \/ handleNotReady \/ WatchDelete
Callback(h) ==
  \/ handleTurnComplete(h) \/ recordUsage(h) \/ stampLastTurn(h) \/ recordResult(h)
  \/ updateProjectBudget(h)
Poll == refreshTurnFromWrapper \/ PollOnce

Next ==
  \/ Pass \/ Watch \/ Poll \/ (\E h \in Handlers : Callback(h))
  \/ PodBoots \/ PodDies \/ AgentFinishes \/ AgentHangs \/ TTLPasses \/ TurnTimesOut
  \/ CallbackLost \/ AppendTaskEvent \/ Enter \/ PassLost \/ CallbackCrashes

Spec == Init /\ [][Next]_vars

\* The work queue keeps reconciling, the poll runs every 30 seconds, a callback
\* is retried, a pod boots, a turn that does not hang ends and a hung one outlives
\* its pod.  A stall takes minutes of silence, so a pass in between submits what
\* there is to submit (SF).  Other faults, events and the next state are nobody's duty.
FairSpec ==
  /\ Spec
  /\ WF_vars(Pass) /\ SF_vars(reconcilePodStage) /\ WF_vars(Watch) /\ WF_vars(Poll)
  /\ \A h \in Handlers : WF_vars(Callback(h))
  /\ WF_vars(PodBoots) /\ WF_vars(AgentFinishes) /\ WF_vars(TurnTimesOut)
  /\ WF_vars(wr.hung /\ TTLPasses)

----------------------------------------------------------------------------
(* Properties. *)

\* No event is lost between its arrival and a turn: of each key, every arrival
\* is queued, was rendered into a submitted turn, or was let go by the cap of the
\* queue.  Events land while a turn is being submitted, and two may have one key
\* (submitStageTurn, drainRenderedEvents).
EventsAccounted ==
  \A e \in Events : ids.events[e] <= Count(st.pending, e) + told[e] + dropped[e]

\* The tokens of a turn are charged to one window, once, whatever callback is
\* repeated, refused, cut short or served after the window was reset, as long as
\* no two callbacks of the turn are served at once: recordUsage looks for the
\* mark that the result leaves only later, so two side by side are both charged
\* (recordUsage, recordResult, updateProjectBudget).
ChargedOnce == \A t \in Turns \ overlap : window.n[t] + window.old[t] <= 1

\* A turn that ended is recorded complete, or gives way, though its callback is
\* lost (refreshTurnFromWrapper).
EndedTurnRecorded ==
  (taskHasInflightTurn /\ ann.turn # wr.turn) ~> ~(taskHasInflightTurn /\ ann.turn # wr.turn)

\* A queued event reaches a turn, unless the Task is parked (reconcilePodStage).
EventReachesTurn ==
  \A e \in Events : (Count(st.pending, e) > 0) ~> (Count(st.pending, e) = 0 \/ st.parked)

=============================================================================

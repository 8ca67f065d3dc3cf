---------------------------- MODULE IssueIntake ----------------------------
(***************************************************************************)
(* Who owns an issue.  One forge issue, its mirror (the Issue CR) and the  *)
(* Task of its intake name: the webhook handlers and the sweep that mint   *)
(* the Task (webhook/server.go, sweep.go, intake.go), the reconciler that  *)
(* keeps the mirror (issue_controller.go, mirror.go), and the passes that  *)
(* take ownership away again: the reaper, the resume of a park a human     *)
(* answered, and the re-entry of a stranded one (reaper.go, resume.go,     *)
(* strand.go, sever.go).                                                   *)
(*                                                                         *)
(* Webhook replicas run concurrently with the leader's project reconcile,  *)
(* which runs one pass at a time on what it listed.  A thread is a record  *)
(* with what it read; each write to the API is a step.  The name of a Task *)
(* is fixed by the issue, so Tasks differ by their UID only, and only the  *)
(* garbage collector compares UIDs.                                        *)
(***************************************************************************)
EXTENDS Integers, FiniteSets, FiniteSetsExt

CONSTANTS
  Replicas,           \* webhook handlers in progress at once
  Cases,              \* who opened the issue, and what may happen, once each:
                      \* see AuthorNames and EventNames
  MaxAutoReentries,   \* re-entries a stranded issue gets without a human
  MaxComments         \* what humans write

AuthorNames == {"listed", "stranger", "brainstorm"}
EventNames == {"close", "park", "deliver", "crash", "lose", "retry", "defer"}

ASSUME IntakeAssumption ==
  /\ "leader" \notin Replicas
  /\ Cases \subseteq [by : AuthorNames, events : SUBSET EventNames]
  /\ {MaxAutoReentries, MaxComments} \subseteq Nat

VARIABLES
  forge,      \* the issue: its author, its state, tatara's parked label, its comments
  net,        \* webhook deliveries under way
  cr,         \* the mirror
  task,       \* the Task of the issue's intake name
  at,         \* the threads
  left,       \* the events that may still happen
  laps        \* ghost: re-entries nobody asked for, and the counts of mirrors now gone

vars == <<forge, net, cr, task, at, left, laps>>

Trusted == forge.by = "listed"
Proposal == forge.by = "brainstorm"
Threads == Replicas \cup {"leader"}
Comments == 1 .. MaxComments
Uids == 1 .. (Cardinality(Replicas) + 4)

----------------------------------------------------------------------------
(* Objects. *)

NoCR == [st |-> "none"]
NoTask == [st |-> "none"]
NoDelivery == [k |-> "none", c |-> 0, label |-> FALSE]
NoItem == [label |-> FALSE, cs |-> {}, human |-> FALSE]
Idle == [pc |-> "idle", d |-> NoDelivery, item |-> NoItem, hook |-> FALSE,
         park |-> "no", uid |-> 0, made |-> FALSE, t |-> NoTask]

Parks == {"no", "backlog", "human", "never", "merge"}

\* The mirror and the Task: their fields and what those may hold.
Mirror == [st : {"", "open", "closed"}, own : {0} \cup Uids, marked : BOOLEAN,
           label : BOOLEAN, cs : SUBSET Comments, last : {"none", "human", "bot"},
           re : 0 .. MaxAutoReentries, told : SUBSET {"terminal", "exhausted", "merge"},
           status : {"new", "rejected"}]
Task == [st : {"live", "done", "rejected"}, uid : Uids, park : Parks,
         ev : SUBSET Comments, refs : BOOLEAN, released : BOOLEAN, releasing : BOOLEAN]

\* An ownerless mirror, as MarkWebhookOriginated creates it.
NewMirror(marked) ==
  [st |-> "", own |-> 0, marked |-> marked, label |-> FALSE, cs |-> {}, last |-> "none",
   re |-> 0, told |-> {}, status |-> "new"]

NewTask(uid, park) ==
  [st |-> "live", uid |-> uid, park |-> park, ev |-> {}, refs |-> FALSE,
   released |-> FALSE, releasing |-> FALSE]

TaskDone(t) == t # NoTask /\ t.st \in {"done", "rejected"}
Parked(t) == t # NoTask /\ t.st = "live" /\ t.park # "no"
owned == cr # NoCR /\ cr.own # 0
DropOwner(m) == IF m = NoCR THEN NoCR ELSE [m EXCEPT !.own = 0]
freshUid == Min(Uids \ ({at[x].uid : x \in Threads}
                          \cup (IF task = NoTask THEN {} ELSE {task.uid})
                          \cup (IF cr = NoCR THEN {} ELSE {cr.own})))

Spend(e) == e \in left /\ left' = left \ {e}

Go(x, r) == at' = [at EXCEPT ![x] = r]

----------------------------------------------------------------------------
(* The forge and its humans. *)

HumanComments ==
  /\ forge.n < MaxComments
  /\ forge' = [forge EXCEPT !.n = @ + 1, !.last = "human"]
  /\ net' = net \cup {[k |-> "comment", c |-> forge.n + 1, label |-> forge.label]}
  /\ UNCHANGED <<cr, task, at, left, laps>>

HumanCloses ==
  /\ forge.st = "open" /\ Spend("close")
  /\ forge' = [forge EXCEPT !.st = "closed"]
  /\ net' = net \cup {[k |-> "closed", c |-> 0, label |-> forge.label]}
  /\ UNCHANGED <<cr, task, at, laps>>

HumanReopens ==
  /\ forge.st = "closed"
  /\ forge' = [forge EXCEPT !.st = "open"]
  /\ net' = net \cup {[k |-> "opened", c |-> 0, label |-> forge.label]}
  /\ UNCHANGED <<cr, task, at, left, laps>>

LoseDelivery ==
  /\ Spend("lose")
  /\ \E dl \in net : net' = net \ {dl}
  /\ UNCHANGED <<forge, cr, task, at, laps>>

----------------------------------------------------------------------------
(* Webhook handlers. *)

\* A handler that answers 500: the forge may deliver once more, or not at all.
\* The leader's pass returns its error and the reconcile is requeued.
Reject(x) ==
  /\ Go(x, Idle)
  /\ \/ UNCHANGED <<net, left>>
     \/ /\ x # "leader" /\ Spend("retry")
        /\ net' = net \cup {at[x].d}

\* Accepted: a comment still has to be delivered.
Accept(x) ==
  Go(x, IF at[x].d.k = "comment" THEN [Idle EXCEPT !.pc = "deliver", !.d = at[x].d] ELSE Idle)

stampIssueState(st) == IF cr = NoCR THEN NoCR ELSE [cr EXCEPT !.st = st]

handleIssueClosed(x) ==
  /\ at[x] = Idle
  /\ \E dl \in net : dl.k = "closed" /\ net' = net \ {dl}
  /\ cr' = stampIssueState("closed")
  /\ UNCHANGED <<forge, task, at, left, laps>>

\* The marker is stamped at creation, or on a mirror no Task owns.
MarkWebhookOriginated(m) ==
  IF m = NoCR THEN NewMirror(TRUE) ELSE [m EXCEPT !.marked = @ \/ m.own = 0]

handleIssueOpened(x) ==
  /\ at[x] = Idle
  /\ \E dl \in net :
       /\ dl.k = "opened"
       /\ net' = net \ {dl}
       /\ cr' = MarkWebhookOriginated(stampIssueState("open"))
       /\ Go(x, [Idle EXCEPT !.pc = "mint", !.d = dl, !.hook = TRUE,
                             !.item = [NoItem EXCEPT !.label = dl.label]])
  /\ UNCHANGED <<forge, task, left, laps>>

commentIsOrphan == ~owned

handleIssueComment(x) ==
  /\ at[x] = Idle
  /\ \E dl \in net :
       /\ dl.k = "comment"
       /\ net' = net \ {dl}
       /\ Go(x, IF commentIsOrphan
                THEN [Idle EXCEPT !.pc = "mint", !.d = dl, !.hook = TRUE,
                                  !.item = [NoItem EXCEPT !.label = dl.label]]
                ELSE [Idle EXCEPT !.pc = "deliver", !.d = dl])
  /\ UNCHANGED <<forge, cr, task, left, laps>>

\* The Task the mirror names, else the live Task of the intake name.
resolveOwningTask == task # NoTask /\ (owned \/ ~TaskDone(task))

\* A human's reply brings back a Task that was parked for one; the reply is
\* consumed.  No room for a live conversation is one of the declines.
driveCommentUnpark(t) == [t EXCEPT !.park = "no", !.ev = {}]

deliverPendingEvent(x) ==
  LET c == at[x].d.c
      heard == [task EXCEPT !.ev = @ \cup {c}]
      synced == IF task # NoTask /\ task.refs THEN 1 .. forge.n ELSE {c}
  IN /\ at[x].pc = "deliver"
     /\ cr' = IF cr = NoCR THEN NoCR
              ELSE [cr EXCEPT !.cs = @ \cup synced, !.last = "human"]
     /\ IF cr = NoCR \/ ~resolveOwningTask THEN UNCHANGED task
        ELSE \/ task' = heard
             \/ /\ Parked(task) /\ task.park \in {"human", "backlog"}
                /\ task' = driveCommentUnpark(heard)
     /\ Go(x, Idle)
     /\ UNCHANGED <<forge, net, left, laps>>

----------------------------------------------------------------------------
(* Minting. *)

MintStage(item, hook) ==
  IF item.label THEN "backlog"
  ELSE IF Trusted \/ hook \/ item.human THEN "no"
  ELSE "backlog"

\* An open issue does not stay with a Task that is over.
terminalOwnerReleasable(m) == m.st # "closed"

\* By name: a Task of a later UID is still the owner.
resolveLiveOwner(m) ==
  /\ m # NoCR /\ m.own # 0 /\ task # NoTask
  /\ ~(TaskDone(task) /\ terminalOwnerReleasable(m))

\* The owner that is not live is dropped on the way.
MintForItem(x) ==
  /\ at[x].pc = "mint"
  /\ IF resolveLiveOwner(cr)
     THEN Accept(x) /\ UNCHANGED cr
     ELSE /\ cr' = DropOwner(cr)
          /\ Go(x, [at[x] EXCEPT !.pc = "create", !.park = MintStage(at[x].item, at[x].hook)])
  /\ UNCHANGED <<forge, net, task, left, laps>>

\* A live twin has an interrupted binding repaired; a dead one is a tombstone.
createTaskRaceSafe(x) ==
  LET r == at[x] IN
  /\ r.pc = "create"
  /\ IF task = NoTask
     THEN /\ task' = NewTask(freshUid, r.park)
          /\ Go(x, [r EXCEPT !.pc = "sync", !.uid = freshUid, !.made = TRUE, !.park = "no"])
     ELSE IF TaskDone(task)
     THEN Go(x, [r EXCEPT !.pc = "tombstone"]) /\ UNCHANGED task
     ELSE IF owned
     THEN task' = [task EXCEPT !.refs = TRUE] /\ Accept(x)
     ELSE Go(x, [r EXCEPT !.pc = "sync", !.uid = task.uid, !.park = "no"]) /\ UNCHANGED task
  /\ UNCHANGED <<forge, net, cr, left, laps>>

\* The Task is deleted by its name: nothing compares it with the one read.
\* The mint is still owed.
deleteTombstone(x) ==
  /\ at[x].pc = "tombstone"
  /\ task' = NoTask
  /\ Reject(x)
  /\ UNCHANGED <<forge, cr, laps>>

ensureIssueCR == IF cr = NoCR THEN NewMirror(FALSE) ELSE cr

SyncIssue(x) ==
  LET i == at[x].item IN
  /\ at[x].pc = "sync"
  /\ cr' = [ensureIssueCR EXCEPT !.st = "open", !.label = i.label, !.cs = @ \cup i.cs,
                                 !.last = IF i.cs = {} THEN @ ELSE IF i.human THEN "human" ELSE "bot"]
  /\ Go(x, [at[x] EXCEPT !.pc = "own", !.item = NoItem])
  /\ UNCHANGED <<forge, net, task, left, laps>>

\* Mutant: an interrupted binding is left as it is.
M_ownIssueForTask(x) ==
  /\ at[x].pc = "own"
  /\ IF cr = NoCR THEN Reject(x) /\ UNCHANGED cr
     ELSE /\ cr' = IF cr.own = 0 /\ at[x].made THEN [cr EXCEPT !.own = at[x].uid] ELSE cr
          /\ Go(x, [at[x] EXCEPT !.pc = "ref", !.uid = 0]) /\ UNCHANGED <<net, left>>
  /\ UNCHANGED <<forge, task, laps>>

ownIssueForTask(x) ==
  /\ at[x].pc = "own"
  /\ IF cr = NoCR THEN Reject(x) /\ UNCHANGED cr
     ELSE /\ cr' = IF cr.own = 0 THEN [cr EXCEPT !.own = at[x].uid] ELSE cr
          /\ Go(x, [at[x] EXCEPT !.pc = "ref", !.uid = 0]) /\ UNCHANGED <<net, left>>
  /\ UNCHANGED <<forge, task, laps>>

\* Only a mint that created its Task spends the marker.
stampMintStatus(x) ==
  /\ at[x].pc = "ref"
  /\ IF task = NoTask THEN Reject(x) /\ UNCHANGED task
     ELSE /\ task' = [task EXCEPT !.refs = TRUE]
          /\ IF at[x].made /\ at[x].hook
             THEN Go(x, [at[x] EXCEPT !.pc = "clear"])
             ELSE Accept(x)
          /\ UNCHANGED <<net, left>>
  /\ UNCHANGED <<forge, cr, laps>>

ClearWebhookOriginated(x) ==
  /\ at[x].pc = "clear"
  /\ cr' = IF cr = NoCR THEN NoCR ELSE [cr EXCEPT !.marked = FALSE]
  /\ Accept(x)
  /\ UNCHANGED <<forge, net, task, left, laps>>

----------------------------------------------------------------------------
(* The sweep, a pass of the leader: it lists the open issues. *)

sweepIssues ==
  /\ at["leader"] = Idle /\ forge.st = "open"
  /\ Go("leader", [Idle EXCEPT !.pc = "swept", !.d = [NoDelivery EXCEPT !.k = "sweep"],
                               !.item = [NoItem EXCEPT !.label = forge.label]])
  /\ UNCHANGED <<forge, net, cr, task, left, laps>>

\* A retained proposal that is open again: the decline and its owner go.
reopenRetainedProposal(m) ==
  IF m # NoCR /\ Proposal /\ m.status = "rejected"
  THEN [m EXCEPT !.status = "new", !.st = "open",
                 !.own = IF task # NoTask /\ ~task.refs THEN 0 ELSE @,
                 !.label = IF m.own # 0 /\ task # NoTask /\ ~task.refs THEN FALSE ELSE @]
  ELSE m

\* The listed issues are open; the reporter may always report.
IsOrphanIssue(m) == ~resolveLiveOwner(m)

\* A full sweep puts the mint off to a later pass.
budgetDefers == Spend("defer")

\* The issue in hand.  Comments are read for an orphan only.
sweepOne ==
  LET m == reopenRetainedProposal(cr)
      hook == m # NoCR /\ m.marked
      item == [at["leader"].item EXCEPT !.cs = 1 .. forge.n, !.human = forge.last = "human"]
  IN /\ at["leader"].pc = "swept"
     /\ \/ /\ ~IsOrphanIssue(m)
           /\ cr' = m /\ Go("leader", Idle) /\ UNCHANGED left
        \/ /\ IsOrphanIssue(m)
           /\ cr' = DropOwner(m)
           /\ Go("leader", [at["leader"] EXCEPT !.pc = "create", !.item = item, !.hook = hook,
                                                !.park = MintStage(item, hook)])
           /\ UNCHANGED left
        \/ /\ IsOrphanIssue(m) /\ budgetDefers
           /\ cr' = DropOwner(m) /\ Go("leader", Idle)
     /\ UNCHANGED <<forge, net, task, laps>>

----------------------------------------------------------------------------
(* The mirror's reconciler. *)

\* Mutant: the thread is read when the mirror is made, and never again.
M_syncIssueThread(m) == m

\* Comments and labels; the state of the issue is not read.
syncIssueThread(m) ==
  [m EXCEPT !.cs = @ \cup 1 .. forge.n, !.label = forge.label,
            !.last = IF forge.last = "none" THEN @ ELSE forge.last]

\* A closed issue ends a Task that runs.  The mirror goes with it, unless it
\* is a proposal, whose decline it keeps.
ApplyIssueClosedStop ==
  /\ cr.st = "closed" /\ owned /\ task # NoTask /\ ~Parked(task)
  /\ task.st \in {"live", "rejected"}
  /\ task' = [task EXCEPT !.st = "rejected", !.refs = FALSE]
  /\ cr' = IF Proposal THEN [cr EXCEPT !.status = "rejected"] ELSE NoCR

recordParkedProposalDecline ==
  /\ Proposal /\ cr.st = "closed" /\ owned /\ Parked(task)
  /\ task' = [task EXCEPT !.refs = FALSE]
  /\ cr' = [cr EXCEPT !.status = "rejected"]

IssueReconcile ==
  /\ cr # NoCR
  /\ \/ ApplyIssueClosedStop
     \/ recordParkedProposalDecline
     \/ /\ cr' = reopenRetainedProposal(syncIssueThread(cr)) /\ cr.st = "open"
        /\ UNCHANGED task
     \/ /\ cr' = syncIssueThread(cr) /\ cr.st # "open"
        /\ UNCHANGED task
  /\ <<cr, task>>' # <<cr, task>>
  /\ laps' = IF cr' = NoCR THEN [laps EXCEPT !.gone = @ + cr.re] ELSE laps
  /\ UNCHANGED <<forge, net, at, left>>

\* A mirror whose owner is gone goes with it (external: Kubernetes).
CollectGarbage ==
  /\ owned /\ ~(task # NoTask /\ task.uid = cr.own)
  /\ cr' = NoCR /\ laps' = [laps EXCEPT !.gone = @ + cr.re]
  /\ UNCHANGED <<forge, net, task, at, left>>

----------------------------------------------------------------------------
(* The reaper.  It decides on the Task it listed. *)

hasNonBotPendingEvent(t) == t.ev # {}

\* A human's reply to a Task that waits for one.
unparkFires(t) == t.park = "human" /\ hasNonBotPendingEvent(t)

startReap(pc) ==
  Go("leader", [Idle EXCEPT !.pc = pc, !.t = task, !.d = [NoDelivery EXCEPT !.k = "reap"]])

\* A parked Task past its retention, a backlog owner with nothing open left,
\* or a Task that is over.
reapOne ==
  /\ at["leader"] = Idle
  /\ task # NoTask
  /\ \/ /\ task.park = "backlog" /\ ~TaskDone(task)
        /\ task.refs => (cr = NoCR \/ cr.st = "closed")
        /\ startReap("reap3")
     \/ /\ Parked(task) /\ task.park # "backlog" /\ ~unparkFires(task)
        /\ startReap(IF task.released THEN "reap3" ELSE "reap1")
     \/ /\ TaskDone(task)
        /\ startReap(IF task.released THEN "reap3" ELSE "reap1")
  /\ UNCHANGED <<forge, net, cr, task, left, laps>>

\* A notice on the issue and the parked label, once per Task name; the label
\* is stamped every time.
commentAndParkIssue(marker) ==
  /\ forge' = [forge EXCEPT !.label = TRUE,
                            !.last = IF marker \in cr.told THEN @ ELSE "bot"]
  /\ cr' = [cr EXCEPT !.told = @ \cup {marker}]

notifyTerminalIssue ==
  /\ at["leader"].pc = "reap1"
  /\ IF at["leader"].t.refs /\ cr # NoCR /\ cr.st # "closed"
     THEN commentAndParkIssue("terminal")
     ELSE UNCHANGED <<forge, cr>>
  /\ Go("leader", [at["leader"] EXCEPT !.pc = "reap2"])
  /\ UNCHANGED <<net, task, left, laps>>

\* A Task that is over stays for its retention; the release is noted on it.
releaseOwnership ==
  /\ at["leader"].pc = "reap2"
  /\ cr' = IF at["leader"].t.refs THEN DropOwner(cr) ELSE cr
  /\ IF task = NoTask THEN Go("leader", Idle) /\ UNCHANGED task
     ELSE /\ task' = [task EXCEPT !.released = TRUE]
          /\ \/ Go("leader", [at["leader"] EXCEPT !.pc = "reap3", !.t.released = TRUE])
             \/ TaskDone(at["leader"].t) /\ Go("leader", Idle)
  /\ UNCHANGED <<forge, net, left, laps>>

\* A Task that holds a declined proposal waits for that retention too.
holdsDeclinedProposal(t) == Proposal /\ owned /\ cr.st = "closed" /\ ~t.refs

deleteReapedTask ==
  LET t == at["leader"].t IN
  /\ at["leader"].pc = "reap3"
  /\ \/ /\ cr' = IF ~t.released /\ t.refs THEN DropOwner(cr) ELSE cr
        /\ task' = NoTask
     \/ /\ holdsDeclinedProposal(t)
        /\ UNCHANGED <<cr, task>>
  /\ Go("leader", Idle)
  /\ UNCHANGED <<forge, net, left, laps>>

----------------------------------------------------------------------------
(* Parks with no way back of their own: a reply, or the strand pass, ends   *)
(* the Task and mints the issue anew.                                      *)

NoReentry(t) == Parked(t) /\ t.park \in {"never", "merge"}

startResume(k) ==
  Go("leader", [Idle EXCEPT !.pc = "release", !.d = [NoDelivery EXCEPT !.k = k], !.t = task])

resumeNoReentryParks ==
  /\ at["leader"] = Idle
  /\ NoReentry(task) /\ hasNonBotPendingEvent(task)
  /\ task.refs \/ task.releasing
  /\ startResume("resume")
  /\ UNCHANGED <<forge, net, cr, task, left, laps>>

\* A reply is the resume pass's business.
strandedCandidate == NoReentry(task) /\ ~hasNonBotPendingEvent(task) /\ task.refs /\ cr # NoCR

\* A park at the merge: a new attempt would close what was reviewed.
landMergeStagePark ==
  /\ task.park = "merge" /\ "merge" \notin cr.told
  /\ commentAndParkIssue("merge") /\ UNCHANGED at

autoReentriesLeft(m) == m.re < MaxAutoReentries

landStrandedDeadEnd ==
  /\ task.park = "never" /\ ~autoReentriesLeft(cr) /\ "exhausted" \notin cr.told
  /\ commentAndParkIssue("exhausted") /\ UNCHANGED at

\* Mutant: the re-entry is not counted.
M_spendReentry == UNCHANGED cr

\* The re-entry is counted on the mirror before the Task is touched.
spendReentry == cr' = [cr EXCEPT !.re = @ + 1]

driveOneStrandedPark ==
  /\ at["leader"] = Idle /\ strandedCandidate
  /\ \/ cr.st # "open" /\ startResume("collect") /\ UNCHANGED <<forge, cr>>
     \/ cr.st = "open" /\ (landMergeStagePark \/ landStrandedDeadEnd)
     \/ /\ cr.st = "open" /\ task.park = "never" /\ autoReentriesLeft(cr)
        /\ spendReentry /\ startResume("auto") /\ UNCHANGED forge
  /\ UNCHANGED <<net, task, left, laps>>

\* The mirror is read again, which decides whether there is an issue to mint.
\* Marked first: a pass that died after the severing goes on.
markReleasing ==
  LET r == at["leader"] IN
  /\ r.pc = "release"
  /\ task' = IF task = NoTask THEN NoTask ELSE [task EXCEPT !.releasing = TRUE]
  /\ Go("leader", [r EXCEPT !.pc = "sever", !.made = r.t.refs /\ cr # NoCR /\ cr.st = "open"])
  /\ UNCHANGED <<forge, net, cr, left, laps>>

\* The forge's label is taken off as far as that works; the mirror's goes.
SeverIssueFromTask ==
  LET r == at["leader"] IN
  /\ r.pc = "sever"
  /\ IF cr = NoCR \/ ~r.t.refs
     THEN UNCHANGED <<forge, cr, task>> /\ Go("leader", [r EXCEPT !.pc = "sever2", !.made = FALSE])
     ELSE /\ \/ UNCHANGED forge
             \/ r.made /\ cr.label /\ forge' = [forge EXCEPT !.label = FALSE]
          /\ cr' = [cr EXCEPT !.own = 0, !.label = FALSE]
          /\ task' = IF task = NoTask THEN NoTask ELSE [task EXCEPT !.refs = FALSE]
          /\ Go("leader", [r EXCEPT !.pc = "sever2", !.t.refs = FALSE,
                                    !.item = [label |-> FALSE, cs |-> cr.cs,
                                              human |-> cr.last = "human"]])
  /\ UNCHANGED <<net, left, laps>>

\* Then the Task goes, and an open issue is minted again from its mirror.
resumeOne ==
  LET r == at["leader"] IN
  /\ r.pc = "sever2"
  /\ task' = NoTask
  /\ laps' = IF r.made /\ r.d.k = "auto" THEN [laps EXCEPT !.taken = @ + 1] ELSE laps
  /\ Go("leader", IF r.made THEN [r EXCEPT !.pc = "mint", !.made = FALSE, !.t = NoTask] ELSE Idle)
  /\ UNCHANGED <<forge, net, cr, left>>

\* The paced backstop for a reply whose delivery did not bring the Task back.
driveUnparks ==
  /\ at["leader"] = Idle
  /\ Parked(task) /\ task.park \in {"human", "backlog"} /\ task.ev # {}
  /\ task' = driveCommentUnpark(task)
  /\ UNCHANGED <<forge, net, cr, at, left, laps>>

----------------------------------------------------------------------------
(* The Task's own life, as far as ownership sees it. *)

taskParks ==
  /\ task # NoTask /\ task.st = "live" /\ task.park = "no" /\ Spend("park")
  /\ \E p \in {"human", "never", "merge"} : task' = [task EXCEPT !.park = p]
  /\ UNCHANGED <<forge, net, cr, at, laps>>

\* The terminal transition parks what is still open, as far as the pacing of
\* forge writes allows.
ReleaseTerminalIssues ==
  \/ UNCHANGED <<forge, cr>>
  \/ task.refs /\ cr # NoCR /\ cr.st # "closed" /\ commentAndParkIssue("terminal")

taskDelivers ==
  /\ task # NoTask /\ task.st = "live" /\ task.park = "no" /\ Spend("deliver")
  /\ task' = [task EXCEPT !.st = "done"]
  /\ ReleaseTerminalIssues
  /\ UNCHANGED <<net, at, laps>>

Crash(x) ==
  /\ at[x] # Idle /\ Spend("crash")
  /\ Go(x, Idle)
  /\ UNCHANGED <<forge, net, cr, task, laps>>

----------------------------------------------------------------------------
Init ==
  /\ \E c \in Cases :
       /\ forge = [by |-> c.by, st |-> "open", label |-> FALSE, n |-> 0,
                   last |-> IF c.by = "brainstorm" THEN "bot" ELSE "none"]
       /\ left = c.events
  /\ net = IF Proposal THEN {} ELSE {[k |-> "opened", c |-> 0, label |-> FALSE]}
  /\ cr = IF Proposal THEN [NewMirror(FALSE) EXCEPT !.st = "open", !.last = "bot"] ELSE NoCR
  /\ task = NoTask
  /\ at = [x \in Threads |-> Idle]
  /\ laps = [taken |-> 0, gone |-> 0]

Mint(x) ==
  \/ MintForItem(x) \/ createTaskRaceSafe(x) \/ deleteTombstone(x)
  \/ SyncIssue(x) \/ ownIssueForTask(x) \/ stampMintStatus(x) \/ ClearWebhookOriginated(x)

Handle(x) == handleIssueOpened(x) \/ handleIssueClosed(x) \/ handleIssueComment(x)

ReapSteps == notifyTerminalIssue \/ releaseOwnership \/ deleteReapedTask
ResumeSteps == markReleasing \/ SeverIssueFromTask \/ resumeOne

Next ==
  \/ HumanComments \/ HumanCloses \/ HumanReopens \/ LoseDelivery
  \/ \E x \in Replicas : Handle(x) \/ deliverPendingEvent(x)
  \/ \E x \in Threads : Mint(x) \/ Crash(x)
  \/ sweepIssues \/ sweepOne \/ IssueReconcile \/ CollectGarbage
  \/ reapOne \/ ReapSteps
  \/ resumeNoReentryParks \/ driveOneStrandedPark \/ ResumeSteps \/ driveUnparks
  \/ taskParks \/ taskDelivers

Spec == Init /\ [][Next]_vars

\* Handlers and reconciles that have begun go on.  A project reconcile runs all
\* its passes in turn, so the sweep gets its turn among them; nothing is asked
\* of the passes that take ownership away.
Fairness ==
  /\ \A x \in Replicas : WF_vars(Handle(x) \/ deliverPendingEvent(x) \/ Mint(x))
  /\ WF_vars(Mint("leader") \/ sweepOne \/ ReapSteps \/ ResumeSteps)
  /\ SF_vars(sweepIssues)
  /\ WF_vars(IssueReconcile) /\ WF_vars(CollectGarbage)

FairSpec == Spec /\ Fairness

----------------------------------------------------------------------------
(* Properties. *)

\* A Task that gave up is thrown away for a new one, with nobody asking, no more
\* often than the counts on its issue's mirrors have paid for, and no mirror pays
\* for more than MaxAutoReentries: whichever pass dies between the count and the
\* new Task, and whatever writes the mirror meanwhile or takes it away (strand.go,
\* resume.go).
ReentriesPaidFor ==
  /\ laps.taken <= laps.gone + (IF cr = NoCR THEN 0 ELSE cr.re)
  /\ cr # NoCR => cr.re <= MaxAutoReentries

Anchored == task # NoTask /\ ~TaskDone(task) /\ owned /\ cr.own = task.uid

\* The ownership invariant of the sweep: an open issue does not stay without a
\* live Task that owns its mirror, whatever deliveries are lost, whichever
\* thread dies and whatever the passes take away (sweep.go, intake.go).
IssueAnchored == []<>(forge.st = "closed" \/ Anchored)

\* What a human wrote on an open issue gets into its mirror (mirror.go).
CommentMirrored ==
  \A c \in Comments :
    forge.n >= c ~> (forge.st = "closed" \/ (cr # NoCR /\ c \in cr.cs))
============================================================================

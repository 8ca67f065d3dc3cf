---------------------------- MODULE MROwnership ----------------------------
(***************************************************************************)
(* Who drives a merge request.  One merge request on the forge, its mirror *)
(* (the MergeRequest CR), the Tasks that may own it and the threads that   *)
(* move it between them:                                                   *)
(*   rec    the mirror's reconciler (mergerequest_controller.go)           *)
(*   sweep  the project's sweep (sweep.go)                                 *)
(*   hook   a webhook handler (webhook/mirror_refresh.go, server.go)       *)
(*   queue  the admission of a queued adoption (upgrade_adopt.go)          *)
(*   rest   the takeover endpoint (restapi/takeover.go)                    *)
(* Ownership is "tatara" or "external".  A head that tatara did not push   *)
(* makes a merge request external and hands it to a review Task; only a    *)
(* takeover makes it tatara's again (ownership.go).                        *)
(*                                                                         *)
(* A thread keeps the mirror it read and works on it while others write.   *)
(* Each write to the API is a step.  Tasks are "work" (the Task whose      *)
(* branch it is, or the adopted upgrade), "take" (takeover) and "review".  *)
(***************************************************************************)
EXTENDS Integers, Sequences, SequencesExt, FiniteSets

CONSTANTS
  Cases,         \* who opened it, whether a Task drives it already and what
                 \* may happen to it, each event once
  MaxHeads,      \* heads of the branch
  MaxComments,   \* what humans write on it
  MaxFlips       \* changes of ownership

EventNames == {"push", "intrude", "comment", "checks", "close", "park", "finish", "reap", "takeover",
               "note", "crash", "lose", "unread"}

ASSUME MROwnershipAssumption ==
  /\ Cases \subseteq [by : {"bot", "engine", "human"}, driven : BOOLEAN, events : SUBSET EventNames]
  /\ MaxHeads \in Nat \ {0} /\ MaxComments \in Nat /\ MaxFlips \in Nat

VARIABLES
  forge,      \* the merge request, its thread and its checks
  net,        \* webhook deliveries under way
  cr,         \* the mirror
  tk,         \* the Tasks
  qe,         \* the head of the queued adoption, 0 if there is none
  at,         \* the threads
  left,       \* events that may still happen
  heard       \* comments delivered to a Task

vars == <<forge, net, cr, tk, qe, at, left, heard>>

Heads == 1 .. MaxHeads
Comments == 1 .. MaxComments
Tasks == {"work", "take", "review"}
Threads == {"rec", "sweep", "hook", "queue", "rest"}
\* Opened by the dependency engine, under the configured prefix, not from a fork
\* and without the trigger label.
Engine == forge.by = "engine"

----------------------------------------------------------------------------
(* Objects. *)

NoCR == [st |-> "none"]
NoTask == [st |-> "none", ref |-> FALSE]
NoDelivery == [k |-> "none"]
Idle == [pc |-> "idle", m |-> NoCR, h |-> 0, ci |-> FALSE, cs |-> {}, t |-> "none",
         from |-> "none", then |-> "idle", d |-> NoDelivery]

Deliveries ==
  {[k |-> "opened"]} \cup [k : {"closed"}, st : {"merged", "closed"}]
    \cup [k : {"push"}, h : Heads, ours : BOOLEAN]
    \cup [k : {"ci"}, h : Heads] \cup [k : {"comment"}, c : Comments]

\* head and bot are HeadSHA and LastBotHeadSHA, 0 for none; flip counts
\* OwnershipChangedAt; pend are the pending comments; refused is the head an
\* adopted Task declined.
Mirror == [st : {"open", "merged", "closed"}, head : Heads \cup {0}, bot : Heads \cup {0},
           ci : BOOLEAN, own : {"", "tatara", "external"},
           why : {"", "initial", "external-push", "adopted-push", "takeover"},
           flip : 0 .. MaxFlips, cursor : 0 .. MaxComments, cs : SUBSET Comments,
           pend : BOOLEAN, refused : Heads \cup {0}, owners : Seq(Tasks),
           ctrl : Tasks \cup {"none"}]

NewMirror ==
  [st |-> "open", head |-> 0, bot |-> 0, ci |-> FALSE, own |-> "", why |-> "", flip |-> 0,
   cursor |-> 0, cs |-> {}, pend |-> FALSE, refused |-> 0, owners |-> <<>>, ctrl |-> "none"]

Exists(t) == tk[t] # NoTask
TaskDone(t) == tk[t].st = "done"
Spend(e) == e \in left /\ left' = left \ {e}
Go(x, r) == at' = [at EXCEPT ![x] = r]
Change(m, r) == IF m = NoCR THEN NoCR ELSE r

\* Owner references: a Task appends itself, and the flag moves in one write.
AddPlainOwner(m, t) == IF Contains(m.owners, t) THEN m ELSE [m EXCEPT !.owners = Append(@, t)]
HandOverController(m, t) == [AddPlainOwner(m, t) EXCEPT !.ctrl = t]

\* Mutant: the flag stays with an owner that is dropped.
M_DropOwner(m, t) == [m EXCEPT !.owners = RemoveFirst(@, t)]

\* A Task is an owner once, as AddPlainOwner sees to it.
DropOwner(m, t) == [m EXCEPT !.owners = RemoveFirst(@, t), !.ctrl = IF @ = t THEN "none" ELSE @]

Surviving(m, live) == {i \in DOMAIN m.owners : m.owners[i] \in live}
OldestSurvivingOwner(m, live) ==
  IF Surviving(m, live) = {} THEN "none" ELSE m.owners[Min(Surviving(m, live))]

\* The first live owner is promoted when no owner holds the flag.
RepairZeroController(m) ==
  LET heir == OldestSurvivingOwner(m, {t \in Tasks : Exists(t) /\ ~TaskDone(t)})
  IN IF m.ctrl = "none" /\ heir # "none" THEN HandOverController(m, heir) ELSE m

\* The owner, while its Task exists; one that is over counts.
resolveLiveMROwner(m) == IF m # NoCR /\ m.ctrl # "none" /\ Exists(m.ctrl) THEN m.ctrl ELSE "none"

----------------------------------------------------------------------------
(* The forge. *)

pushed(ours) ==
  /\ forge.st = "open" /\ forge.head < MaxHeads
  /\ forge' = [forge EXCEPT !.head = @ + 1]
  /\ net' = net \cup {[k |-> "push", h |-> forge.head + 1, ours |-> ours]}
  /\ UNCHANGED <<cr, tk, qe, at, heard>>

\* tatara's agent, or the engine that opened it.
ownPush ==
  /\ Engine \/ \E t \in {"work", "take"} : tk[t].st = "live"
  /\ Spend("push") /\ pushed(TRUE)

humanPush == Spend("intrude") /\ pushed(FALSE)

humanComments ==
  /\ forge.st = "open" /\ forge.n < MaxComments /\ Spend("comment")
  /\ forge' = [forge EXCEPT !.n = @ + 1]
  /\ net' = net \cup {[k |-> "comment", c |-> forge.n + 1]}
  /\ UNCHANGED <<cr, tk, qe, at, heard>>

ciFinishes ==
  /\ forge.head \notin forge.green /\ Spend("checks")
  /\ forge' = [forge EXCEPT !.green = @ \cup {forge.head}]
  /\ net' = net \cup {[k |-> "ci", h |-> forge.head]}
  /\ UNCHANGED <<cr, tk, qe, at, heard>>

forgeCloses ==
  /\ forge.st = "open" /\ Spend("close")
  /\ \E st \in {"merged", "closed"} :
       /\ forge' = [forge EXCEPT !.st = st]
       /\ net' = net \cup {[k |-> "closed", st |-> st]}
  /\ UNCHANGED <<cr, tk, qe, at, heard>>

loseDelivery ==
  /\ Spend("lose")
  /\ \E d \in net : net' = net \ {d}
  /\ UNCHANGED <<forge, cr, tk, qe, at, heard>>

----------------------------------------------------------------------------
(* Minting a Task t for the merge request: create, mirror, own, reference. *)

\* What the mint mirrors: a listed head, whose checks are not known, or the
\* mirror the thread read.
Mint(r, t, from, h, ci, then) ==
  [r EXCEPT !.pc = "create", !.t = t, !.from = from, !.h = h, !.ci = ci, !.then = then]

\* On with what the mint was for.
Minted(x) ==
  Go(x, IF at[x].then = "idle" THEN Idle ELSE [at[x] EXCEPT !.pc = at[x].then, !.from = "none"])

\* A takeover that has its reference is complete; any other existing Task is
\* bound unless somebody else owns the mirror.
repairMRBinding(x) ==
  LET r == at[x] IN
  IF r.t = "take"
  THEN IF tk[r.t].ref THEN Minted(x) ELSE Go(x, [r EXCEPT !.pc = "sync"])
  ELSE IF cr = NoCR \/ cr.ctrl = "none" THEN Go(x, [r EXCEPT !.pc = "sync"])
  ELSE IF cr.ctrl = r.t THEN Go(x, [r EXCEPT !.pc = "ref"]) ELSE Minted(x)

\* Only a review Task that is over is a tombstone; a takeover parked when it
\* lost the merge request is brought back.
createTaskRaceSafe(x) ==
  LET r == at[x] IN
  /\ r.pc = "create"
  /\ \/ /\ ~Exists(r.t)
        /\ tk' = [tk EXCEPT ![r.t].st = "live"] /\ Go(x, [r EXCEPT !.pc = "sync"])
     \/ /\ r.t = "review" /\ TaskDone(r.t)
        /\ tk' = [tk EXCEPT ![r.t] = NoTask]
        /\ Go(x, IF r.then = "reread" THEN [r EXCEPT !.pc = "reread"] ELSE Idle)
     \/ /\ Exists(r.t) /\ (r.t = "review" => ~TaskDone(r.t))
        /\ tk' = IF r.t = "take" /\ tk[r.t].st = "lost" THEN [tk EXCEPT ![r.t].st = "live"] ELSE tk
        /\ repairMRBinding(x)
  /\ UNCHANGED <<forge, net, cr, qe, left, heard>>

ensureMergeRequestCR == IF cr = NoCR THEN NewMirror ELSE cr

\* It mirrors an open merge request, whatever became of it.
SyncMergeRequest(x) ==
  LET r == at[x] IN
  /\ r.pc = "sync"
  /\ cr' = [ensureMergeRequestCR EXCEPT !.st = "open", !.head = r.h, !.ci = r.ci]
  /\ Go(x, [r EXCEPT !.pc = "bind", !.ci = FALSE])
  /\ UNCHANGED <<forge, net, tk, qe, left, heard>>

\* A foreign owner is an error, unless it is the one to take over from.
ownMergeRequest(x) ==
  LET r == at[x] IN
  /\ r.pc = "bind"
  /\ IF cr # NoCR /\ cr.ctrl \in {"none", r.t, r.from}
     THEN cr' = HandOverController(cr, r.t) /\ Go(x, [r EXCEPT !.pc = "ref"])
     ELSE UNCHANGED cr /\ Go(x, Idle)
  /\ UNCHANGED <<forge, net, tk, qe, left, heard>>

stampMRRef(x) ==
  LET r == at[x] IN
  /\ r.pc = "ref"
  /\ tk' = IF Exists(r.t) THEN [tk EXCEPT ![r.t].ref = TRUE] ELSE tk
  /\ Minted(x)
  /\ UNCHANGED <<forge, net, cr, qe, left, heard>>

MintSteps(x) ==
  createTaskRaceSafe(x) \/ SyncMergeRequest(x) \/ ownMergeRequest(x) \/ stampMRRef(x)

----------------------------------------------------------------------------
(* Ownership, on the mirror r.m the thread read and the head r.h it knows. *)

\* Of the mirror a thread keeps what it will look at.
Seen(m) == [m EXCEPT !.ci = FALSE, !.cs = {}, !.cursor = 0, !.refused = 0, !.owners = <<>>]
Flips(m) == [NewMirror EXCEPT !.flip = m.flip]

\* The reconciler goes on to its announcement, the sweep to the next one.
DoneAs(x, m) ==
  IF x = "rec" /\ m.flip # 0 THEN [Idle EXCEPT !.pc = "announce", !.m = Flips(m)] ELSE Idle
Done(x, m) == Go(x, DoneAs(x, m))

ownershipForAuthor == IF forge.by \in {"bot", "engine"} THEN "tatara" ELSE "external"

ownerTaskOf(m) == IF m.ctrl # "none" /\ Exists(m.ctrl) THEN m.ctrl ELSE "none"
AdoptedUpgrade(t) == t = "work" /\ Engine
tataraOwnDeliverableMR(t) == t = "work" /\ forge.by = "bot"

\* Mutant: only what the webhook mirrored counts as drift.
M_drifted(m, h) == m.own = "tatara" /\ h # 0 /\ m.bot # h /\ m.head = h

drifted(m, h) == m.own = "tatara" /\ h # 0 /\ m.bot # h

\* Mutant: a flip is not taken up again.
M_resumeFlipToExternal(m) == FALSE

\* A flip by a push whose hand-back did not complete.
resumeFlipToExternal(m) ==
  /\ m.why \in {"external-push", "adopted-push"}
  /\ m.ctrl # "none" /\ ~(m.ctrl = "review" /\ Exists("review"))

\* What is to be done: a terminal mirror is frozen, no baseline is no drift,
\* and a push onto tatara's own deliverable is an assist.
ReconcileOwnership(x, r) ==
  LET go(pc) == [r EXCEPT !.pc = pc] IN
  IF r.m.st # "open" THEN DoneAs(x, r.m)
  ELSE IF r.m.own = "" THEN go("classify")
  ELSE IF drifted(r.m, r.h)
  THEN IF r.m.bot = 0 THEN go("seed")
       ELSE IF tataraOwnDeliverableMR(ownerTaskOf(r.m)) THEN go("assist") ELSE go("flip")
  ELSE IF r.m.own = "external" /\ resumeFlipToExternal(r.m) THEN go("park")
  ELSE IF r.m.own = "external" /\ r.cs # {} THEN go("redeliver")
  ELSE DoneAs(x, r.m)

\* Tatara's head is taken to be what is on the branch now.
Classified(m, h) ==
  IF m = NoCR \/ m.own # "" THEN m
  ELSE [m EXCEPT !.own = ownershipForAuthor, !.why = "initial",
                 !.bot = IF ownershipForAuthor = "tatara" /\ h # 0 THEN h ELSE @]

classify(x) ==
  LET r == at[x] IN
  /\ r.pc = "classify"
  /\ cr' = Classified(cr, r.h)
  /\ Go(x, ReconcileOwnership(x, [r EXCEPT !.m = Classified(r.m, r.h)]))
  /\ UNCHANGED <<forge, net, tk, qe, left, heard>>

retainOnHumanAssist(x) ==
  LET r == at[x] IN
  /\ r.pc \in {"seed", "assist"}
  /\ cr' = Change(cr, IF r.pc = "assist" \/ cr.bot = 0 THEN [cr EXCEPT !.bot = r.h] ELSE cr)
  /\ Done(x, r.m)
  /\ UNCHANGED <<forge, net, tk, qe, left, heard>>

\* The flip is recorded first; parking and handing back follow.
flipToExternal(x) ==
  LET r == at[x]
      why == IF AdoptedUpgrade(ownerTaskOf(r.m)) THEN "adopted-push" ELSE "external-push"
      Flip(m) == [m EXCEPT !.own = "external", !.why = why, !.flip = cr.flip + 1]
  IN /\ r.pc = "flip"
     /\ IF cr = NoCR THEN UNCHANGED cr /\ Go(x, Idle)
        ELSE /\ cr.flip < MaxFlips
             /\ cr' = Flip(cr)
             /\ Go(x, [r EXCEPT !.pc = "park", !.m = Flip(r.m), !.cs = {}])
     /\ UNCHANGED <<forge, net, tk, qe, left, heard>>

parkOwnerTask(x) ==
  LET r == at[x]
      t == r.m.ctrl
  IN /\ r.pc = "park"
     /\ IF t = "none" THEN UNCHANGED tk /\ Done(x, r.m)
        ELSE /\ tk' = IF t # "review" /\ tk[t].st = "live" THEN [tk EXCEPT ![t].st = "lost"] ELSE tk
             /\ Go(x, [r EXCEPT !.pc = "hand"])
     /\ UNCHANGED <<forge, net, cr, qe, left, heard>>

\* Where the work goes on after the hand-back.
afterHandBack(x) ==
  IF at[x].cs # {} THEN "redeliver" ELSE IF x = "rec" THEN "announce" ELSE "idle"

\* To the review Task that exists, over or not; else one is minted, and takes
\* the flag from the owner that was read.
handBackToReviewTask(x) ==
  LET r == at[x] IN
  /\ r.pc = "hand"
  /\ IF ~Exists("review")
     THEN UNCHANGED cr /\ Go(x, Mint(r, "review", r.m.ctrl, r.m.head, FALSE, afterHandBack(x)))
     ELSE IF cr = NoCR THEN UNCHANGED cr /\ Go(x, Idle)
     ELSE /\ cr' = HandOverController(cr, "review")
          /\ IF r.cs = {} THEN Done(x, cr') ELSE Go(x, [r EXCEPT !.pc = "redeliver", !.m.ctrl = "review"])
  /\ UNCHANGED <<forge, net, tk, qe, left, heard>>

\* An owner that is gone is replaced by a review Task.
redeliverMRComments(x) ==
  LET r == at[x] IN
  /\ r.pc = "redeliver"
  /\ IF resolveLiveMROwner(r.m) = "none"
     THEN Go(x, Mint(r, "review", "none", r.m.head, FALSE, "deliver"))
     ELSE Go(x, [r EXCEPT !.pc = "deliver", !.t = r.m.ctrl])
  /\ UNCHANGED <<forge, net, cr, tk, qe, left, heard>>

\* Mutant: only a running Task is told.
M_Told(t, cs) ==
  IF tk[t].st # "live" THEN UNCHANGED <<tk, heard>> ELSE heard' = heard \cup cs /\ UNCHANGED tk

\* A reply may bring a parked Task back; what it lost by a push stays lost.
Told(t, cs) ==
  IF ~Exists(t) THEN UNCHANGED <<tk, heard>>
  ELSE /\ heard' = heard \cup cs
       /\ \/ UNCHANGED tk
          \/ tk[t].st = "parked" /\ tk' = [tk EXCEPT ![t].st = "live"]

AppendCommentToMirror(cs) == cr' = Change(cr, [cr EXCEPT !.cs = @ \cup cs])

deliverMissed(x) ==
  LET r == at[x] IN
  /\ r.pc = "deliver"
  /\ AppendCommentToMirror(r.cs) /\ Told(r.t, r.cs)
  /\ Go(x, [r EXCEPT !.pc = "cursor"])
  /\ UNCHANGED <<forge, net, qe, left>>

advanceCursor(x) ==
  /\ at[x].pc = "cursor"
  /\ cr' = Change(cr, [cr EXCEPT !.cursor = CHOOSE c \in at[x].cs : \A d \in at[x].cs : d <= c])
  /\ Done(x, at[x].m)
  /\ UNCHANGED <<forge, net, tk, qe, left, heard>>

OwnershipSteps(x) ==
  \/ classify(x) \/ retainOnHumanAssist(x) \/ flipToExternal(x) \/ parkOwnerTask(x)
  \/ handBackToReviewTask(x)
  \/ redeliverMRComments(x) \/ deliverMissed(x) \/ advanceCursor(x)

----------------------------------------------------------------------------
(* The mirror's reconciler. *)

\* Comments only: the state of the merge request is not read.
syncMergeRequestThread(m) == IF m.st = "open" THEN [m EXCEPT !.cs = @ \cup 1 .. forge.n] ELSE m

\* Mutant: checks that are not green write nothing.
M_refreshCI(m) ==
  IF cr = NoCR \/ m.head \notin forge.green \/ m.st # "open" THEN cr ELSE [cr EXCEPT !.ci = TRUE]

\* The checks of the head that was read, written whatever the head is now.
refreshCI(m) ==
  IF cr = NoCR \/ m.head = 0 \/ m.st # "open" THEN cr ELSE [cr EXCEPT !.ci = m.head \in forge.green]

\* A reconcile that would find nothing to write is left out.
recDue(m) ==
  \/ m # RepairZeroController(m) \/ m # syncMergeRequestThread(m) \/ m # refreshCI(m)
  \/ m.pend \/ (m.flip # 0 /\ forge.told[m.flip] = 0)
  \/ ReconcileOwnership("rec", [Idle EXCEPT !.m = [m EXCEPT !.flip = 0], !.h = m.head]) # Idle

recStart ==
  /\ at["rec"] = Idle /\ cr # NoCR /\ recDue(cr)
  /\ LET m == RepairZeroController(cr) IN
       /\ cr' = syncMergeRequestThread(m)
       /\ Go("rec", [Idle EXCEPT !.pc = "ci", !.m = Seen(m)])
  /\ UNCHANGED <<forge, net, tk, qe, left, heard>>

recCI ==
  /\ at["rec"].pc = "ci"
  /\ cr' = refreshCI(at["rec"].m)
  /\ Go("rec", [at["rec"] EXCEPT !.pc = "drain"])
  /\ UNCHANGED <<forge, net, tk, qe, left, heard>>

\* Mutant: what is pending is posted.
M_threadCarriesMarker(n) == FALSE

\* What was posted under this marker is in the thread.
threadCarriesMarker(n) == n > 0

Post(n) == IF threadCarriesMarker(n) THEN n ELSE n + 1

\* Posted first, removed after.
DrainPendingComments ==
  LET r == at["rec"] IN
  /\ r.pc = "drain"
  /\ IF r.m.pend
     THEN /\ forge' = [forge EXCEPT !.notes = Post(@)]
          /\ Go("rec", [r EXCEPT !.pc = "remove"])
     ELSE UNCHANGED forge /\ Go("rec", ReconcileOwnership("rec", [r EXCEPT !.h = r.m.head, !.m.pend = FALSE]))
  /\ UNCHANGED <<net, cr, tk, qe, left, heard>>

removePendingComments ==
  LET r == at["rec"] IN
  /\ r.pc = "remove"
  /\ cr' = Change(cr, [cr EXCEPT !.pend = FALSE])
  /\ Go("rec", ReconcileOwnership("rec", [r EXCEPT !.h = r.m.head, !.m.pend = FALSE]))
  /\ UNCHANGED <<forge, net, tk, qe, left, heard>>

\* Once for every flip.
DrainOwnershipAnnouncement ==
  LET m == at["rec"].m IN
  /\ at["rec"].pc = "announce"
  /\ forge' = [forge EXCEPT !.told[m.flip] = Post(@)]
  /\ Go("rec", Idle)
  /\ UNCHANGED <<net, cr, tk, qe, left, heard>>

recSteps == recCI \/ DrainPendingComments \/ removePendingComments \/ DrainOwnershipAnnouncement

----------------------------------------------------------------------------
(* The sweep. *)

\* A head that was declined, and a merge request handed to its humans by a
\* push, are not adopted again.
AdoptUpgradeMR(h) ==
  /\ Engine /\ resolveLiveMROwner(cr) = "none"
  /\ ~(cr # NoCR /\ cr.own = "external" /\ cr.why # "external-push")
  /\ ~(cr # NoCR /\ cr.refused = h)

\* The live head, and the comments behind the cursor of an external one.
swept(h) ==
  [Idle EXCEPT !.m = [Seen(cr) EXCEPT !.pend = FALSE], !.h = h,
               !.cs = IF cr.own = "tatara" THEN {} ELSE cr.cursor + 1 .. forge.n]

enqueueAdoption(h) == qe' = IF qe = 0 THEN h ELSE qe

\* A sweep that would find nothing to write is left out.
sweepDue ==
  IF forge.by = "bot" \/ resolveLiveMROwner(cr) = "none" THEN TRUE
  ELSE ReconcileOwnership("sweep", swept(forge.head)) # Idle

sweepStart ==
  /\ at["sweep"] = Idle /\ forge.st = "open" /\ sweepDue
  /\ Go("sweep", [Idle EXCEPT !.pc = "listed", !.h = forge.head])
  /\ UNCHANGED <<forge, net, cr, tk, qe, left, heard>>

\* The reference of an owner that is gone is dropped on the way.
ClassifyPR ==
  LET r == at["sweep"]
      owner == resolveLiveMROwner(cr)
  IN /\ r.pc = "listed"
     /\ cr' = IF cr # NoCR /\ owner = "none" /\ cr.ctrl # "none" THEN DropOwner(cr, cr.ctrl) ELSE cr
     /\ \/ /\ forge.by = "bot" /\ Exists("work") /\ owner \in {"none", "work"}
           /\ Go("sweep", [r EXCEPT !.pc = "sync", !.t = "work", !.then = "reread"])
           /\ UNCHANGED qe
        \/ /\ AdoptUpgradeMR(r.h)
           /\ enqueueAdoption(r.h) /\ Go("sweep", [r EXCEPT !.pc = "reread"])
        \/ /\ ~AdoptUpgradeMR(r.h) /\ forge.by # "bot" /\ owner = "none"
           /\ Go("sweep", Mint(r, "review", "none", r.h, FALSE, "reread"))
           /\ UNCHANGED qe
        \/ /\ IF forge.by = "bot" THEN ~Exists("work") \/ owner \notin {"none", "work"} ELSE owner # "none"
           /\ Go("sweep", [r EXCEPT !.pc = "reread"])
           /\ UNCHANGED qe
     /\ UNCHANGED <<forge, net, tk, left, heard>>

sweepReread ==
  /\ at["sweep"].pc = "reread"
  /\ IF cr = NoCR THEN Go("sweep", Idle) /\ UNCHANGED left
     ELSE \/ Go("sweep", ReconcileOwnership("sweep", swept(forge.head))) /\ UNCHANGED left
          \/ Go("sweep", ReconcileOwnership("sweep", swept(0))) /\ Spend("unread")
  /\ UNCHANGED <<forge, net, cr, tk, qe, heard>>

----------------------------------------------------------------------------
(* Webhook handlers. *)

Receive(d) == at["hook"] = Idle /\ d \in net /\ net' = net \ {d}

handleMROpened(d) ==
  /\ d.k = "opened" /\ Receive(d)
  /\ IF Engine THEN enqueueAdoption(1) /\ UNCHANGED at
     ELSE /\ UNCHANGED qe
          /\ IF forge.by = "bot" \/ resolveLiveMROwner(cr) # "none" THEN UNCHANGED at
             ELSE Go("hook", Mint(Idle, "review", "none", 1, FALSE, "idle"))
  /\ UNCHANGED <<forge, cr, tk, left, heard>>

\* The checks of the old head stay.
stampMRHead(h, ours) ==
  Change(cr, [cr EXCEPT !.head = h, !.bot = IF ours THEN h ELSE @])

handleMRSynchronize(d) ==
  /\ d.k = "push" /\ Receive(d)
  /\ cr' = stampMRHead(d.h, d.ours)
  /\ qe' = IF qe = 0 THEN 0 ELSE d.h
  /\ UNCHANGED <<forge, tk, at, left, heard>>

handleMRClosed(d) ==
  /\ d.k = "closed" /\ Receive(d)
  /\ cr' = Change(cr, [cr EXCEPT !.st = d.st])
  /\ qe' = 0
  /\ UNCHANGED <<forge, tk, at, left, heard>>

\* The mirrors of that head are listed, then stamped.
handleCIStatus(d) ==
  /\ d.k = "ci" /\ Receive(d)
  /\ IF cr # NoCR /\ cr.head = d.h THEN Go("hook", [Idle EXCEPT !.pc = "stampCI"]) ELSE UNCHANGED at
  /\ UNCHANGED <<forge, cr, tk, qe, left, heard>>

stampMRCI ==
  /\ at["hook"].pc = "stampCI"
  /\ cr' = Change(cr, [cr EXCEPT !.ci = TRUE])
  /\ Go("hook", Idle)
  /\ UNCHANGED <<forge, net, tk, qe, left, heard>>

\* A merge request without a mirror counts as open.
handleMRComment(d) ==
  LET r == [Idle EXCEPT !.pc = "tell", !.cs = {d.c}] IN
  /\ d.k = "comment" /\ Receive(d)
  /\ IF resolveLiveMROwner(cr) # "none" THEN Go("hook", r)
     ELSE IF cr # NoCR /\ cr.st # "open" THEN UNCHANGED at
     ELSE Go("hook", Mint(r, "review", "none", IF cr = NoCR THEN 1 ELSE cr.head, FALSE, "tell"))
  /\ UNCHANGED <<forge, cr, tk, qe, left, heard>>

\* The cursor stays: the sweep delivers the comment again.
deliverPendingEvent ==
  /\ at["hook"].pc = "tell"
  /\ AppendCommentToMirror(at["hook"].cs)
  /\ IF resolveLiveMROwner(cr) = "none" THEN UNCHANGED <<tk, heard>>
     ELSE Told(cr.ctrl, at["hook"].cs)
  /\ Go("hook", Idle)
  /\ UNCHANGED <<forge, net, qe, left>>

Handle ==
  \/ \E d \in net :
       \/ handleMROpened(d) \/ handleMRSynchronize(d) \/ handleMRClosed(d)
       \/ handleCIStatus(d) \/ handleMRComment(d)
  \/ stampMRCI \/ deliverPendingEvent

----------------------------------------------------------------------------
(* The admission of a queued adoption. *)

mintAdopted ==
  /\ at["queue"] = Idle /\ qe # 0
  /\ IF (cr # NoCR /\ cr.st # "open") \/ ~AdoptUpgradeMR(qe)
     THEN qe' = 0 /\ UNCHANGED at
     ELSE UNCHANGED qe /\ Go("queue", Mint(Idle, "work", "none", qe, FALSE, "admitted"))
  /\ UNCHANGED <<forge, net, cr, tk, left, heard>>

admitted ==
  /\ at["queue"].pc = "admitted"
  /\ qe' = 0 /\ Go("queue", Idle)
  /\ UNCHANGED <<forge, net, cr, tk, left, heard>>

----------------------------------------------------------------------------
(* Takeover, at a maintainer's comment and the review agent's request. *)

mrTakeover ==
  /\ at["rest"] = Idle /\ Spend("takeover")
  /\ cr # NoCR /\ cr.ctrl = "review" /\ tk["review"].st = "live"
  /\ cr.st = "open" /\ cr.cs # {} /\ cr.own # "tatara" /\ cr.flip < MaxFlips
  /\ Go("rest", Mint(Idle, "take", "review", cr.head, cr.ci, "assert"))
  /\ UNCHANGED <<forge, net, cr, tk, qe, heard>>

\* A takeover Task that was brought back gets the flag here, and the live head
\* is read.
reassertTakeover ==
  LET r == at["rest"] IN
  /\ r.pc = "assert"
  /\ IF cr = NoCR THEN Go("rest", Idle) /\ UNCHANGED <<cr, left>>
     ELSE /\ cr' = HandOverController(cr, "take")
          /\ \/ Go("rest", [Idle EXCEPT !.pc = "stamp", !.h = forge.head]) /\ UNCHANGED left
             \/ Go("rest", [Idle EXCEPT !.pc = "stamp", !.h = r.h]) /\ Spend("unread")
  /\ UNCHANGED <<forge, net, tk, qe, heard>>

stampTakeover ==
  LET r == at["rest"] IN
  /\ r.pc = "stamp"
  /\ IF cr = NoCR THEN UNCHANGED cr
     ELSE /\ cr.flip < MaxFlips
          /\ cr' = [cr EXCEPT !.own = "tatara", !.why = "takeover", !.flip = @ + 1,
                              !.bot = r.h, !.head = r.h]
  /\ Go("rest", Idle)
  /\ UNCHANGED <<forge, net, tk, qe, left, heard>>

----------------------------------------------------------------------------
(* The Tasks. *)

\* The agent leaves a comment to be posted.
agentNotes ==
  /\ cr # NoCR /\ ~cr.pend /\ forge.notes = 0
  /\ cr.ctrl # "none" /\ tk[cr.ctrl].st = "live" /\ Spend("note")
  /\ cr' = [cr EXCEPT !.pend = TRUE]
  /\ UNCHANGED <<forge, net, tk, qe, at, heard>>

\* An accepted submission records the live head as tatara's.
recordBotHead ==
  /\ cr # NoCR /\ cr.st = "open" /\ cr.bot # forge.head
  /\ cr.ctrl \in {"work", "take"} /\ tk[cr.ctrl].st = "live"
  /\ cr' = [cr EXCEPT !.bot = forge.head]
  /\ UNCHANGED <<forge, net, tk, qe, at, left, heard>>

taskParks(t) ==
  /\ tk[t].st = "live" /\ Spend("park")
  /\ tk' = [tk EXCEPT ![t].st = "parked"]
  /\ UNCHANGED <<forge, net, cr, qe, at, heard>>

taskFinishes(t) ==
  /\ tk[t].st = "live" /\ Spend("finish")
  /\ tk' = [tk EXCEPT ![t].st = "done"]
  /\ UNCHANGED <<forge, net, cr, qe, at, heard>>

\* An heir gets the flag; an open merge request of somebody else is let go.
releaseOwnership(m, t) ==
  LET heir == OldestSurvivingOwner(m, {o \in Tasks \ {t} : Exists(o) /\ ~TaskDone(o)})
  IN IF m.ctrl # t THEN m
     ELSE IF heir # "none" THEN HandOverController(m, heir)
     ELSE IF forge.by # "bot" /\ m.st = "open" THEN DropOwner(m, t)
     ELSE m

\* A declined adoption marks the head it declined.
markAdoptionRefused(m, t, declined) ==
  IF declined /\ AdoptedUpgrade(t) /\ m.ctrl = t /\ m.st = "open" /\ m.refused = 0
  THEN [m EXCEPT !.refused = m.head] ELSE m

\* The reaper and the sweep are passes of one reconcile.  A mirror goes with
\* the last Task it names (external: Kubernetes).
reapTask(t) ==
  /\ at["sweep"] = Idle /\ tk[t].st \in {"parked", "lost", "done"} /\ Spend("reap")
  /\ tk' = [tk EXCEPT ![t] = NoTask]
  /\ IF cr = NoCR THEN UNCHANGED cr
     ELSE \E declined \in BOOLEAN :
            LET m == releaseOwnership(markAdoptionRefused(cr, t, declined), t)
            IN cr' = IF m.owners # <<>> /\ \A i \in DOMAIN m.owners : m.owners[i] = t
                     THEN NoCR ELSE DropOwner(m, t)
  /\ UNCHANGED <<forge, net, qe, at, heard>>

crash(x) ==
  /\ at[x] # Idle /\ Spend("crash")
  /\ Go(x, Idle)
  /\ UNCHANGED <<forge, net, cr, tk, qe, heard>>

----------------------------------------------------------------------------
FirstTask == IF forge.by = "human" THEN "review" ELSE "work"

\* Just opened.
Opened ==
  /\ net = {[k |-> "opened"]}
  /\ cr = NoCR
  /\ tk = [t \in Tasks |-> IF t = "work" /\ forge.by = "bot" THEN [st |-> "live", ref |-> FALSE]
                          ELSE NoTask]

\* Mirrored, classified and with its Task.
Driven ==
  /\ net = {}
  /\ cr = Classified(HandOverController([NewMirror EXCEPT !.head = 1], FirstTask), 1)
  /\ tk = [t \in Tasks |-> IF t = FirstTask THEN [st |-> "live", ref |-> TRUE] ELSE NoTask]

Init ==
  /\ \E c \in Cases :
       /\ forge = [by |-> c.by, st |-> "open", head |-> 1, green |-> {}, n |-> 0, notes |-> 0,
                   told |-> [f \in 1 .. MaxFlips |-> 0]]
       /\ left = c.events
       /\ IF c.driven THEN Driven ELSE Opened
  /\ qe = 0
  /\ at = [x \in Threads |-> Idle]
  /\ heard = {}

RecRuns == recStart \/ recSteps \/ OwnershipSteps("rec") \/ MintSteps("rec")
SweepRuns == sweepStart \/ ClassifyPR \/ sweepReread \/ OwnershipSteps("sweep") \/ MintSteps("sweep")
HookRuns == Handle \/ MintSteps("hook")
QueueRuns == mintAdopted \/ admitted \/ MintSteps("queue")
RestRuns == reassertTakeover \/ stampTakeover \/ MintSteps("rest")

Next ==
  \/ ownPush \/ humanPush \/ humanComments \/ ciFinishes \/ forgeCloses \/ loseDelivery
  \/ RecRuns \/ SweepRuns \/ HookRuns \/ QueueRuns \/ mrTakeover \/ RestRuns
  \/ agentNotes \/ recordBotHead
  \/ \E t \in Tasks : taskParks(t) \/ taskFinishes(t) \/ reapTask(t)
  \/ \E x \in Threads : crash(x)

Spec == Init /\ [][Next]_vars

\* Each thread goes on with what it began; the reconciler and the sweep begin
\* again on their own.  Nothing is asked of the forge, its humans or the Tasks.
Fairness ==
  /\ WF_vars(RecRuns) /\ WF_vars(SweepRuns) /\ WF_vars(HookRuns)
  /\ WF_vars(QueueRuns) /\ WF_vars(RestRuns)

FairSpec == Spec /\ Fairness

----------------------------------------------------------------------------
(* Properties. *)

\* Every variable has its type: no Task owns the mirror twice, and the one
\* that holds the controller flag is one of the owners.
TypeOK ==
  /\ forge.head \in Heads /\ forge.green \subseteq Heads /\ forge.n \in 0 .. MaxComments
  /\ net \subseteq Deliveries /\ qe \in Heads \cup {0} /\ heard \subseteq Comments
  /\ cr # NoCR =>
       /\ cr \in Mirror
       /\ \A i, j \in DOMAIN cr.owners : cr.owners[i] = cr.owners[j] => i = j
       /\ cr.ctrl # "none" => Contains(cr.owners, cr.ctrl)
  /\ tk \in [Tasks -> [st : {"none", "live", "parked", "lost", "done"}, ref : BOOLEAN]]

\* A pending comment and the announcement of a flip are posted once, though
\* the reconciler may die after the post (reviewpost.go, ownership_announce.go).
PostedOnce == forge.notes <= 1 /\ \A f \in DOMAIN forge.told : forge.told[f] <= 1

open == cr # NoCR /\ cr.st = "open" /\ forge.st = "open"

\* A flip by a push ends with the merge request off the Task that lost it,
\* whichever of its steps fails (ownership.go).
StandDownCompletes ==
  (open /\ cr.own = "external" /\ cr.why \in {"external-push", "adopted-push"})
    ~> (~open \/ cr.own = "tatara" \/ cr.ctrl \in {"none", "review"})

\* A comment on an external merge request reaches a Task, though its delivery
\* may be lost (ownership_redeliver.go).
CommentReachesTask ==
  \A c \in Comments :
    (open /\ cr.own = "external" /\ forge.n >= c) ~> (~open \/ cr.own = "tatara" \/ c \in heard)

\* A head that is not tatara's is not left standing on a merge request of
\* tatara's: it is recorded, as a flip or as an assist (ownership.go).
DriftSettles ==
  (open /\ cr.own = "tatara" /\ cr.bot # forge.head)
    ~> (~open \/ cr.own # "tatara" \/ cr.bot = forge.head)

\* The mirror's checks come to be those of its head: a head that is green is
\* shown green, and the green of an earlier head, left by a push or written on
\* the new head by a pass that read the old one, does not stay on a head that
\* is not green (mergerequest_controller.go).
ChecksCatchUp ==
  \A h \in Heads :
    /\ (open /\ cr.head = h /\ h \in forge.green) ~> (~open \/ cr.head # h \/ cr.ci)
    /\ (open /\ cr.head = h /\ h \notin forge.green)
         ~> (~open \/ cr.head # h \/ h \in forge.green \/ ~cr.ci)

============================================================================

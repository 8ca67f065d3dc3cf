------------------------ MODULE MROwnership_proofs -------------------------
(***************************************************************************)
(* Proofs about MROwnership, for every Case and every bound.               *)
(*                                                                         *)
(* A thread works on the mirror it read, through steps between which the   *)
(* others write: that what it writes back is well formed depends on what   *)
(* it carries along.  The invariant says of each thread what it has in     *)
(* hand at each of its steps: the Task it mints, the mirror it read, the   *)
(* comments it is to deliver.                                              *)
(***************************************************************************)
EXTENDS MROwnership, SequenceTheorems, NaturalsInduction, WellFoundedInduction, TLAPS

NoneOr(S) == S \cup {"none"}
MaybeHead == Heads \cup {0}
TaskStatus == [st : {"none", "live", "parked", "lost", "done"}, ref : BOOLEAN]

Minting == {"create", "sync", "bind", "ref"}
Delivering == {"redeliver", "deliver", "cursor"}
Reading == Delivering \cup {"ci", "drain", "remove", "announce", "classify", "seed", "assist", "flip",
                            "park", "hand"}
Steps == Minting \cup Reading \cup {"idle", "listed", "reread", "stampCI", "tell", "admitted",
                                    "assert", "stamp"}

Thread == [pc : Steps, m : Mirror \cup {NoCR}, h : MaybeHead, ci : BOOLEAN, cs : SUBSET Comments,
           t : NoneOr(Tasks), from : NoneOr(Tasks), then : Steps, d : {NoDelivery}]

\* The step a thread is at, or goes on to when it has minted.
Onward(r) == IF r.pc \in Minting THEN r.then ELSE r.pc

\* What a thread has in hand.
Equipped(r) ==
  /\ r.pc \in Minting \cup {"deliver"} => r.t \in Tasks
  /\ Onward(r) \in Reading => r.m \in Mirror
  /\ Onward(r) \in Delivering => r.cs # {}

Fit == {r \in Thread : Equipped(r)}

\* The owner references of a mirror: no Task twice, the flag with one of them.
WellOwned(m) ==
  /\ m \in Mirror
  /\ \A i, j \in DOMAIN m.owners : m.owners[i] = m.owners[j] => i = j
  /\ m.ctrl # "none" => Contains(m.owners, m.ctrl)

\* Nothing is posted twice.
ForgeKept ==
  forge \in [by : {"bot", "engine", "human"}, st : {"open", "merged", "closed"}, head : Heads,
             green : SUBSET Heads, n : 0 .. MaxComments, notes : {0, 1}, told : [1 .. MaxFlips -> {0, 1}]]

MirrorKept == cr = NoCR \/ WellOwned(cr)
TasksKept == tk \in [Tasks -> TaskStatus]
ThreadsKept == at \in [Threads -> Fit]
QueuesKept == net \subseteq Deliveries /\ qe \in MaybeHead /\ heard \subseteq Comments

IInv == ForgeKept /\ MirrorKept /\ TasksKept /\ ThreadsKept /\ QueuesKept

----------------------------------------------------------------------------
(* Numbers. *)

\* Every set of naturals has a least one.
LEMMA Least ==
  ASSUME NEW S \in SUBSET Nat, S # {}
  PROVE  \E m \in S : \A n \in S : m <= n
<1>1. IsWellFoundedOn(OpToRel(<, Nat), Nat)
  BY NatLessThanWellFounded
<1>2. PICK m \in S : \A n \in S : ~(<<n, m>> \in OpToRel(<, Nat))
  BY <1>1, WFMin
<1>3. \A n \in S : ~(n < m)
  BY <1>2 DEF OpToRel
<1> QED BY <1>3

\* Of some comments one is the last.
LEMMA LastComment ==
  ASSUME NEW cs \in SUBSET Comments, cs # {}
  PROVE  \E c \in cs : \A d \in cs : d <= c
<1>1. MaxComments \in Nat /\ \A c \in cs : c \in Nat /\ c <= MaxComments
  BY MROwnershipAssumption DEF Comments
<1> DEFINE Behind == {MaxComments - c : c \in cs}
<1>2. Behind \in SUBSET Nat /\ Behind # {}
  BY <1>1
<1>3. PICK m \in Behind : \A n \in Behind : m <= n
  <2> HIDE DEF Behind
  <2> QED BY <1>2, Least
<1>4. PICK c \in cs : m = MaxComments - c
  BY <1>3
<1>5. \A d \in cs : MaxComments - c <= MaxComments - d
  BY <1>3, <1>4
<1>6. \A d \in cs : d <= c
  BY <1>1, <1>5
<1> QED BY <1>6

----------------------------------------------------------------------------
(* Mirrors. *)

LEMMA MirrorExists ==
  /\ \A m \in Mirror : m # NoCR
  /\ NewMirror \in Mirror
<1>1. \A m \in Mirror : m # NoCR
  <2>1. \A m \in Mirror : m.st \in {"open", "merged", "closed"}
    BY DEF Mirror
  <2>2. NoCR.st = "none"
    BY DEF NoCR
  <2> QED BY <2>1, <2>2
<1>2. NewMirror \in Mirror
  <2>1. <<>> \in Seq(Tasks) /\ 0 \in 0 .. MaxFlips /\ 0 \in 0 .. MaxComments
    BY MROwnershipAssumption
  <2> QED BY <2>1 DEF NewMirror, Mirror
<1> QED BY <1>1, <1>2

LEMMA NewIsOwned == WellOwned(NewMirror)
<1>1. NewMirror.owners = <<>> /\ NewMirror.ctrl = "none" /\ DOMAIN <<>> = {}
  BY DEF NewMirror
<1> QED BY <1>1, MirrorExists DEF WellOwned

\* A write that leaves the owner references alone.
LEMMA OwnersAlone ==
  ASSUME NEW m, WellOwned(m), NEW n \in Mirror, n.owners = m.owners, n.ctrl = m.ctrl
  PROVE  WellOwned(n)
BY DEF WellOwned

\* What is written to a mirror besides its owner references.
LEMMA Writes ==
  ASSUME NEW m, WellOwned(m)
  PROVE  /\ \A st \in {"open", "merged", "closed"} : WellOwned([m EXCEPT !.st = st])
         /\ \A h \in MaybeHead : WellOwned([m EXCEPT !.head = h])
         /\ \A h \in MaybeHead : WellOwned([m EXCEPT !.bot = h])
         /\ \A b \in BOOLEAN : WellOwned([m EXCEPT !.ci = b])
         /\ \A b \in BOOLEAN : WellOwned([m EXCEPT !.pend = b])
         /\ \A o \in {"", "tatara", "external"} : WellOwned([m EXCEPT !.own = o])
         /\ \A w \in {"", "initial", "external-push", "adopted-push", "takeover"} :
              WellOwned([m EXCEPT !.why = w])
         /\ \A f \in 0 .. MaxFlips : WellOwned([m EXCEPT !.flip = f])
         /\ \A c \in 0 .. MaxComments : WellOwned([m EXCEPT !.cursor = c])
         /\ \A cs \in SUBSET Comments : WellOwned([m EXCEPT !.cs = cs])
<1>0. m \in Mirror
  BY DEF WellOwned
<1>1. \A st \in {"open", "merged", "closed"} : WellOwned([m EXCEPT !.st = st])
  BY <1>0, OwnersAlone, ZenonT(30) DEF Mirror
<1>2. \A h \in MaybeHead : WellOwned([m EXCEPT !.head = h]) /\ WellOwned([m EXCEPT !.bot = h])
  BY <1>0, OwnersAlone DEF Mirror, MaybeHead
<1>3. \A b \in BOOLEAN : WellOwned([m EXCEPT !.ci = b]) /\ WellOwned([m EXCEPT !.pend = b])
  BY <1>0, OwnersAlone DEF Mirror
<1>4. \A o \in {"", "tatara", "external"} : WellOwned([m EXCEPT !.own = o])
  BY <1>0, OwnersAlone DEF Mirror
<1>5. \A w \in {"", "initial", "external-push", "adopted-push", "takeover"} :
        WellOwned([m EXCEPT !.why = w])
  BY <1>0, OwnersAlone, ZenonT(30) DEF Mirror
<1>6. \A f \in 0 .. MaxFlips : WellOwned([m EXCEPT !.flip = f])
  BY <1>0, OwnersAlone DEF Mirror
<1>7. \A c \in 0 .. MaxComments : WellOwned([m EXCEPT !.cursor = c])
  BY <1>0, OwnersAlone DEF Mirror
<1>8. \A cs \in SUBSET Comments : WellOwned([m EXCEPT !.cs = cs])
  BY <1>0, OwnersAlone DEF Mirror
<1> QED BY <1>1, <1>2, <1>3, <1>4, <1>5, <1>6, <1>7, <1>8

LEMMA AddOwner ==
  ASSUME NEW m, WellOwned(m), NEW t \in Tasks
  PROVE  /\ WellOwned(AddPlainOwner(m, t)) /\ Contains(AddPlainOwner(m, t).owners, t)
         /\ WellOwned(HandOverController(m, t)) /\ HandOverController(m, t).ctrl = t
<1> DEFINE q == Append(m.owners, t)
           a == AddPlainOwner(m, t)
<1>0. m \in Mirror /\ m.owners \in Seq(Tasks)
  BY DEF WellOwned, Mirror
<1>1. /\ q \in Seq(Tasks) /\ Len(q) = Len(m.owners) + 1 /\ q[Len(m.owners) + 1] = t
      /\ \A i \in 1 .. Len(m.owners) : q[i] = m.owners[i]
      /\ Len(m.owners) \in Nat /\ DOMAIN m.owners = 1 .. Len(m.owners) /\ DOMAIN q = 1 .. Len(q)
  BY <1>0, AppendProperties, LenProperties
<1>2. WellOwned(a) /\ Contains(a.owners, t)
  <2>1. CASE Contains(m.owners, t)
    BY <2>1 DEF AddPlainOwner
  <2>2. CASE ~Contains(m.owners, t)
    <3>1. a = [m EXCEPT !.owners = q]
      BY <1>0, <2>2 DEF AddPlainOwner, Mirror
    <3> HIDE DEF q, a
    <3>2. a \in Mirror /\ a.owners = q /\ a.ctrl = m.ctrl
      BY <1>0, <1>1, <3>1 DEF Mirror
    <3>3. \A i \in 1 .. Len(m.owners) : m.owners[i] # t
      BY <2>2 DEF Contains
    <3>4. \A i, j \in DOMAIN q : q[i] = q[j] => i = j
      <4>1. \A i, j \in 1 .. Len(m.owners) : m.owners[i] = m.owners[j] => i = j
        BY <1>1 DEF WellOwned
      <4> QED BY <1>1, <3>3, <4>1
    <3>5. Contains(q, t)
      <4>1. Len(m.owners) + 1 \in 1 .. Len(q)
        BY <1>1
      <4> QED BY <1>1, <4>1 DEF Contains
    <3>6. Contains(m.owners, m.ctrl) => Contains(q, m.ctrl)
      <4>1. ASSUME NEW i \in 1 .. Len(m.owners) PROVE i \in 1 .. Len(q)
        BY <1>1
      <4> QED BY <1>1, <4>1 DEF Contains
    <3> QED BY <3>2, <3>4, <3>5, <3>6 DEF WellOwned
  <2> QED BY <2>1, <2>2
<1>3. WellOwned(HandOverController(m, t)) /\ HandOverController(m, t).ctrl = t
  <2> HIDE DEF a
  <2>1. HandOverController(m, t) = [a EXCEPT !.ctrl = t]
    BY DEF HandOverController, a
  <2>2. a \in Mirror
    BY <1>2 DEF WellOwned
  <2>3. [a EXCEPT !.ctrl = t] \in Mirror /\ [a EXCEPT !.ctrl = t].ctrl = t
        /\ [a EXCEPT !.ctrl = t].owners = a.owners
    BY <2>2 DEF Mirror
  <2> QED BY <1>2, <2>1, <2>3 DEF WellOwned
<1> QED BY <1>2, <1>3

\* A sequence without its first t: it keeps every other element, and no two of
\* its elements are the same if none were.
LEMMA WithoutFirst ==
  ASSUME NEW q \in Seq(Tasks), NEW t \in Tasks,
         \A i, j \in DOMAIN q : q[i] = q[j] => i = j
  PROVE  /\ RemoveFirst(q, t) \in Seq(Tasks)
         /\ \A i, j \in DOMAIN RemoveFirst(q, t) : RemoveFirst(q, t)[i] = RemoveFirst(q, t)[j] => i = j
         /\ \A o \in Tasks \ {t} : Contains(q, o) => Contains(RemoveFirst(q, t), o)
         /\ ~Contains(RemoveFirst(q, t), t)
<1>0. Len(q) \in Nat /\ DOMAIN q = 1 .. Len(q)
  BY LenProperties
<1>1. CASE ~\E i \in 1 .. Len(q) : q[i] = t
  BY <1>1 DEF RemoveFirst, Contains
<1>2. CASE \E i \in 1 .. Len(q) : q[i] = t
  <2> DEFINE I == {i \in 1 .. Len(q) : q[i] = t}
             k == Min(I)
             out == RemoveAt(q, k)
  <2>1. RemoveFirst(q, t) = out
    BY <1>2 DEF RemoveFirst, SelectInSeq
  <2>2. k \in 1 .. Len(q) /\ q[k] = t
    <3>1. I \in SUBSET Nat /\ I # {}
      BY <1>0, <1>2
    <3>2. \E m \in I : \A n \in I : m <= n
      <4> HIDE DEF I
      <4> QED BY <3>1, Least
    <3>3. k \in I
      BY <3>2 DEF Min
    <3> QED BY <3>3
  <2> HIDE DEF I, k
  <2> DEFINE a == SubSeq(q, 1, k - 1)
             b == SubSeq(q, k + 1, Len(q))
  <2>3. a \in Seq(Tasks) /\ Len(a) = k - 1 /\ \A i \in 1 .. k - 1 : a[i] = q[i]
    BY <1>0, <2>2
  <2>4. b \in Seq(Tasks) /\ Len(b) = Len(q) - k /\ \A i \in 1 .. Len(q) - k : b[i] = q[k + i]
    <3>1. k + 1 \in Int /\ Len(q) \in Int /\ \A i \in k + 1 .. Len(q) : q[i] \in Tasks
      BY <1>0, <2>2, ElementOfSeq
    <3>2. /\ b \in Seq(Tasks) /\ Len(b) = IF k + 1 <= Len(q) THEN Len(q) - (k + 1) + 1 ELSE 0
          /\ \A i \in 1 .. Len(q) - (k + 1) + 1 : b[i] = q[(k + 1) + i - 1]
      BY <3>1, SubSeqProperties
    <3> HIDE DEF b
    <3>3. k \in Nat /\ Len(q) \in Nat /\ k <= Len(q)
      BY <1>0, <2>2
    <3>4. (IF k + 1 <= Len(q) THEN Len(q) - (k + 1) + 1 ELSE 0) = Len(q) - k
      BY <3>3
    <3>5. ASSUME NEW i \in 1 .. Len(q) - k PROVE b[i] = q[k + i]
      <4>1. i \in 1 .. Len(q) - (k + 1) + 1 /\ (k + 1) + i - 1 = k + i
        BY <3>3
      <4> QED BY <3>2, <4>1
    <3> QED BY <3>2, <3>4, <3>5
  <2>5. out = a \o b
    BY DEF RemoveAt
  <2> HIDE DEF a, b, out
  <2>6. /\ out \in Seq(Tasks) /\ Len(out) = Len(q) - 1 /\ DOMAIN out = 1 .. Len(q) - 1
        /\ \A i \in 1 .. Len(q) - 1 : out[i] = IF i < k THEN q[i] ELSE q[i + 1]
    <3>1. /\ out \in Seq(Tasks) /\ Len(out) = Len(a) + Len(b)
          /\ \A i \in 1 .. Len(a) + Len(b) : out[i] = IF i <= Len(a) THEN a[i] ELSE b[i - Len(a)]
      BY <2>3, <2>4, <2>5, ConcatProperties, ZenonT(30)
    <3>2. Len(a) + Len(b) = Len(q) - 1
      BY <1>0, <2>2, <2>3, <2>4
    <3>3. ASSUME NEW i \in 1 .. Len(q) - 1 PROVE out[i] = IF i < k THEN q[i] ELSE q[i + 1]
      <4>1. CASE i < k
        <5>1. i \in 1 .. k - 1 /\ i <= Len(a)
          BY <1>0, <2>2, <2>3, <4>1
        <5> QED BY <2>3, <3>1, <3>2, <4>1, <5>1
      <4>2. CASE ~(i < k)
        <5>1. i - (k - 1) \in 1 .. Len(q) - k /\ ~(i <= Len(a)) /\ k + (i - (k - 1)) = i + 1
          BY <1>0, <2>2, <2>3, <4>2
        <5>2. out[i] = b[i - (k - 1)]
          BY <2>3, <3>1, <3>2, <5>1
        <5> QED BY <2>4, <4>2, <5>1, <5>2
      <4> QED BY <4>1, <4>2
    <3> QED BY <3>1, <3>2, <3>3, LenProperties
  <2>7. \A i, j \in DOMAIN out : out[i] = out[j] => i = j
    <3> DEFINE Was(i) == IF i < k THEN i ELSE i + 1
    <3> SUFFICES ASSUME NEW i \in 1 .. Len(q) - 1, NEW j \in 1 .. Len(q) - 1, out[i] = out[j]
                 PROVE  i = j
      BY <2>6
    <3>1. q[Was(i)] = q[Was(j)]
      BY <2>6
    <3>2. Was(i) \in 1 .. Len(q) /\ Was(j) \in 1 .. Len(q)
      BY <1>0, <2>2
    <3>3. Was(i) = Was(j)
      <4> HIDE DEF Was
      <4> QED BY <1>0, <3>1, <3>2
    <3> QED BY <1>0, <2>2, <3>3
  <2>8. ASSUME NEW o \in Tasks \ {t}, Contains(q, o) PROVE Contains(out, o)
    <3>1. PICK i \in 1 .. Len(q) : q[i] = o
      BY <2>8 DEF Contains
    <3>2. i # k
      BY <2>2, <3>1
    <3>3. CASE i < k
      <4>1. i \in 1 .. Len(q) - 1
        BY <1>0, <2>2, <3>1, <3>3
      <4> QED BY <2>6, <3>1, <3>3, <4>1 DEF Contains
    <3>4. CASE k < i
      <4>1. i - 1 \in 1 .. Len(q) - 1 /\ ~(i - 1 < k) /\ (i - 1) + 1 = i
        BY <1>0, <2>2, <3>1, <3>4
      <4> QED BY <2>6, <3>1, <4>1 DEF Contains
    <3> QED BY <1>0, <2>2, <3>2, <3>3, <3>4
  <2>9. ~Contains(out, t)
    BY <1>0, <2>2, <2>6 DEF Contains
  <2> QED BY <2>1, <2>6, <2>7, <2>8, <2>9
<1> QED BY <1>1, <1>2

LEMMA DroppedOwner ==
  ASSUME NEW m, WellOwned(m), NEW t \in Tasks
  PROVE  WellOwned(DropOwner(m, t))
<1> DEFINE q == RemoveFirst(m.owners, t)
           c == IF m.ctrl = t THEN "none" ELSE m.ctrl
           n == DropOwner(m, t)
<1>0. m \in Mirror /\ m.owners \in Seq(Tasks) /\ m.ctrl \in Tasks \cup {"none"}
  BY DEF WellOwned, Mirror
<1>1. /\ q \in Seq(Tasks) /\ \A i, j \in DOMAIN q : q[i] = q[j] => i = j
      /\ \A o \in Tasks \ {t} : Contains(m.owners, o) => Contains(q, o)
  BY <1>0, WithoutFirst DEF WellOwned
<1>2. n = [m EXCEPT !.owners = q, !.ctrl = c]
  BY <1>0 DEF DropOwner, Mirror
<1>3. c \in Tasks \cup {"none"} /\ (c # "none" => c = m.ctrl /\ c \in Tasks \ {t})
  BY <1>0
<1> HIDE DEF q, c, n
<1>4. n \in Mirror /\ n.owners = q /\ n.ctrl = c
  BY <1>0, <1>1, <1>2, <1>3 DEF Mirror
<1>5. m.ctrl # "none" => Contains(m.owners, m.ctrl)
  BY DEF WellOwned
<1>6. n.ctrl # "none" => Contains(n.owners, n.ctrl)
  BY <1>1, <1>3, <1>4, <1>5
<1> QED BY <1>1, <1>4, <1>6 DEF WellOwned, n

\* An heir is a live Task, so the flag goes to an owner.
LEMMA Heir ==
  ASSUME NEW m, WellOwned(m), NEW live \in SUBSET Tasks
  PROVE  OldestSurvivingOwner(m, live) \in live \cup {"none"}
<1> DEFINE I == Surviving(m, live)
<1>1. m.owners \in Seq(Tasks) /\ DOMAIN m.owners = 1 .. Len(m.owners) /\ Len(m.owners) \in Nat
  <2>1. m.owners \in Seq(Tasks)
    BY DEF WellOwned, Mirror
  <2> QED BY <2>1, LenProperties
<1>2. CASE I = {}
  BY <1>2 DEF OldestSurvivingOwner
<1>3. CASE I # {}
  <2>1. I \in SUBSET Nat
    BY <1>1 DEF Surviving
  <2>2. \E i \in I : \A j \in I : i <= j
    <3> HIDE DEF I
    <3> QED BY <1>3, <2>1, Least
  <2>3. Min(I) \in I
    <3> HIDE DEF I
    <3> QED BY <2>2 DEF Min
  <2>4. m.owners[Min(I)] \in live
    BY <2>3 DEF Surviving
  <2> QED BY <1>3, <2>4 DEF OldestSurvivingOwner
<1> QED BY <1>2, <1>3

LEMMA Repaired == ASSUME NEW m, WellOwned(m) PROVE WellOwned(RepairZeroController(m))
<1> DEFINE live == {t \in Tasks : Exists(t) /\ ~TaskDone(t)}
           heir == OldestSurvivingOwner(m, live)
<1>1. heir \in Tasks \cup {"none"}
  <2>1. live \in SUBSET Tasks
    OBVIOUS
  <2> HIDE DEF live
  <2> QED BY <2>1, Heir
<1>2. RepairZeroController(m) = IF m.ctrl = "none" /\ heir # "none" THEN HandOverController(m, heir) ELSE m
  BY DEF RepairZeroController
<1> HIDE DEF heir
<1> QED BY <1>1, <1>2, AddOwner

LEMMA Released == ASSUME NEW m, WellOwned(m), NEW t \in Tasks PROVE WellOwned(releaseOwnership(m, t))
<1> DEFINE live == {o \in Tasks \ {t} : Exists(o) /\ ~TaskDone(o)}
           heir == OldestSurvivingOwner(m, live)
<1>1. heir \in Tasks \cup {"none"}
  <2>1. live \in SUBSET Tasks
    OBVIOUS
  <2> HIDE DEF live
  <2> QED BY <2>1, Heir
<1>2. releaseOwnership(m, t) =
        IF m.ctrl # t THEN m
        ELSE IF heir # "none" THEN HandOverController(m, heir)
        ELSE IF forge.by # "bot" /\ m.st = "open" THEN DropOwner(m, t)
        ELSE m
  BY DEF releaseOwnership
<1> HIDE DEF heir
<1> QED BY <1>1, <1>2, AddOwner, DroppedOwner

LEMMA Marked == ASSUME NEW m, WellOwned(m), NEW t, NEW d PROVE WellOwned(markAdoptionRefused(m, t, d))
<1>1. m \in Mirror /\ m.head \in Heads \cup {0}
  BY DEF WellOwned, Mirror
<1> DEFINE n == [m EXCEPT !.refused = m.head]
<1>2. n \in Mirror /\ n.owners = m.owners /\ n.ctrl = m.ctrl
  BY <1>1 DEF Mirror
<1>3. markAdoptionRefused(m, t, d) \in {m, n}
  BY DEF markAdoptionRefused
<1> HIDE DEF n
<1>4. WellOwned(n)
  BY <1>2 DEF WellOwned
<1> QED BY <1>3, <1>4

----------------------------------------------------------------------------
(* Threads. *)

LEMMA Names ==
  /\ \A m \in Mirror : /\ m.st \in {"open", "merged", "closed"} /\ m.head \in MaybeHead /\ m.bot \in MaybeHead
                        /\ m.ci \in BOOLEAN /\ m.flip \in 0 .. MaxFlips /\ m.cursor \in 0 .. MaxComments
                        /\ m.cs \in SUBSET Comments /\ m.ctrl \in NoneOr(Tasks)
  /\ 0 \in MaybeHead /\ "none" \in NoneOr(Tasks) /\ "review" \in Tasks /\ "work" \in Tasks /\ "take" \in Tasks
  /\ Tasks \subseteq NoneOr(Tasks) /\ "none" \notin Tasks
  /\ Heads \subseteq MaybeHead
BY DEF Mirror, MaybeHead, NoneOr, Tasks

LEMMA IdleIsFit == Idle \in Fit /\ Idle \in Thread
<1>1. Idle \in Thread
  BY Names DEF Idle, Thread, Steps
<1>2. Equipped(Idle)
  BY DEF Idle, Equipped, Onward, Minting, Reading, Delivering
<1> QED BY <1>1, <1>2 DEF Fit

\* A thread that takes a step or becomes idle.
LEMMA GoFit ==
  ASSUME ThreadsKept, NEW x \in Threads, NEW r \in Fit, Go(x, r)
  PROVE  ThreadsKept'
BY DEF ThreadsKept, Go

\* A step that is none of minting and delivering wants the mirror at most.
LEMMA AtStep ==
  ASSUME NEW r \in Thread, NEW pc \in Steps \ (Minting \cup Delivering), pc \in Reading => r.m \in Mirror
  PROVE  [r EXCEPT !.pc = pc] \in Fit
<1> DEFINE n == [r EXCEPT !.pc = pc]
<1>1. n \in Thread /\ n.pc = pc /\ n.m = r.m
  BY DEF Thread
<1>2. pc \notin Minting /\ pc \notin Delivering /\ pc # "deliver"
  BY DEF Delivering
<1> HIDE DEF n
<1>3. n \in Fit
  BY <1>1, <1>2 DEF Fit, Equipped, Onward
<1> QED BY <1>3 DEF n

\* A thread in the middle of a mint.
LEMMA InMint ==
  ASSUME NEW r \in Fit, r.pc \in Minting, NEW pc \in Minting
  PROVE  [r EXCEPT !.pc = pc] \in Fit /\ [r EXCEPT !.pc = pc, !.ci = FALSE] \in Fit
<1>1. r \in Thread /\ pc \in Steps /\ Equipped(r)
  BY DEF Fit, Steps
<1>2. ASSUME NEW n \in Thread, n.pc = pc, n.then = r.then, n.t = r.t, n.m = r.m, n.cs = r.cs
      PROVE  n \in Fit
  BY <1>1, <1>2 DEF Fit, Equipped, Onward
<1>3. [r EXCEPT !.pc = pc] \in Fit
  <2> DEFINE n == [r EXCEPT !.pc = pc]
  <2>1. n \in Thread /\ n.pc = pc /\ n.then = r.then /\ n.t = r.t /\ n.m = r.m /\ n.cs = r.cs
    BY <1>1 DEF Thread
  <2> HIDE DEF n
  <2>2. n \in Fit
    BY <1>2, <2>1
  <2> QED BY <2>2 DEF n
<1>4. [r EXCEPT !.pc = pc, !.ci = FALSE] \in Fit
  <2> DEFINE n == [r EXCEPT !.pc = pc, !.ci = FALSE]
  <2>1. n \in Thread /\ n.pc = pc /\ n.then = r.then /\ n.t = r.t /\ n.m = r.m /\ n.cs = r.cs
    BY <1>1 DEF Thread
  <2> HIDE DEF n
  <2>2. n \in Fit
    BY <1>2, <2>1
  <2> QED BY <2>2 DEF n
<1> QED BY <1>3, <1>4

\* What a mint is begun with.
LEMMA MintIsFit ==
  ASSUME NEW r \in Thread, NEW t \in Tasks, NEW from \in NoneOr(Tasks), NEW h \in MaybeHead,
         NEW ci \in BOOLEAN, NEW then \in Steps,
         then \in Reading => r.m \in Mirror, then \in Delivering => r.cs # {}
  PROVE  Mint(r, t, from, h, ci, then) \in Fit
<1> DEFINE n == Mint(r, t, from, h, ci, then)
<1>1. "create" \in Steps /\ "create" \in Minting /\ t \in NoneOr(Tasks)
  BY Names DEF Steps, Minting
<1>2. n \in Thread /\ n.pc = "create" /\ n.t = t /\ n.then = then /\ n.m = r.m /\ n.cs = r.cs
  BY <1>1 DEF Mint, Thread
<1> HIDE DEF n
<1>3. n \in Fit
  BY <1>1, <1>2 DEF Fit, Equipped, Onward
<1> QED BY <1>3 DEF n

\* A mint that is done goes on with what it was for.
LEMMA MintedFit ==
  ASSUME ThreadsKept, NEW x \in Threads, at[x].pc \in Minting, Minted(x)
  PROVE  ThreadsKept'
<1> DEFINE r == at[x]
           n == [r EXCEPT !.pc = r.then, !.from = "none"]
<1>1. r \in Thread /\ Equipped(r) /\ r.then \in Steps
  BY DEF ThreadsKept, Fit, Thread
<1>2. n \in Thread /\ n.pc = r.then /\ n.then = r.then /\ n.t = r.t /\ n.m = r.m /\ n.cs = r.cs
  BY <1>1, Names DEF Thread
<1>3. Go(x, IF r.then = "idle" THEN Idle ELSE n)
  BY DEF Minted
<1> HIDE DEF n, r
<1>4. n \in Fit
  <2>1. r.t \in Tasks /\ Onward(r) = r.then
    BY <1>1 DEF Equipped, Onward, r
  <2>2. Onward(n) = r.then
    BY <1>2 DEF Onward
  <2> QED BY <1>1, <1>2, <2>1, <2>2 DEF Fit, Equipped
<1> QED BY <1>3, <1>4, IdleIsFit, GoFit

\* Where a thread is when it is done with a mirror.
LEMMA DoneFit == ASSUME NEW x \in Threads, NEW m \in Mirror PROVE DoneAs(x, m) \in Fit
<1>1. CASE x = "rec" /\ m.flip # 0
  <2> DEFINE f == Flips(m)
             n == [Idle EXCEPT !.pc = "announce", !.m = f]
  <2>1. f \in Mirror
    <3>1. NewMirror \in Mirror /\ m.flip \in 0 .. MaxFlips
      BY MirrorExists, Names
    <3>2. [NewMirror EXCEPT !.flip = m.flip] \in Mirror
      BY <3>1 DEF Mirror
    <3> QED BY <3>2 DEF Flips
  <2> HIDE DEF f
  <2>2. n \in Thread /\ n.pc = "announce" /\ n.m = f
    BY <2>1, IdleIsFit DEF Thread, Steps, Reading
  <2> HIDE DEF n
  <2>3. n \in Fit
    BY <2>1, <2>2 DEF Fit, Equipped, Onward, Minting, Delivering
  <2> QED BY <1>1, <2>3 DEF DoneAs, n, f
<1>2. CASE ~(x = "rec" /\ m.flip # 0)
  BY <1>2, IdleIsFit DEF DoneAs
<1> QED BY <1>1, <1>2

\* What ownership asks for next, for a thread that has read a mirror.
LEMMA OwnershipFit ==
  ASSUME NEW x \in Threads, NEW r \in Thread, r.m \in Mirror
  PROVE  ReconcileOwnership(x, r) \in Fit
<1> DEFINE Next1 == {"classify", "seed", "assist", "flip", "park"}
<1>1. \A pc \in Next1 : [r EXCEPT !.pc = pc] \in Fit
  <2>1. \A pc \in Next1 : pc \in Steps \ (Minting \cup Delivering)
    BY DEF Steps, Minting, Delivering, Reading
  <2> QED BY <2>1, AtStep
<1>2. ASSUME r.cs # {} PROVE [r EXCEPT !.pc = "redeliver"] \in Fit
  <2> DEFINE n == [r EXCEPT !.pc = "redeliver"]
  <2>1. n \in Thread /\ n.pc = "redeliver" /\ n.m = r.m /\ n.cs = r.cs
    BY DEF Thread, Steps, Reading, Delivering
  <2> HIDE DEF n
  <2>2. n \in Fit
    BY <1>2, <2>1 DEF Fit, Equipped, Onward, Minting
  <2> QED BY <2>2 DEF n
<1>3. DoneAs(x, r.m) \in Fit
  BY DoneFit
<1> QED BY <1>1, <1>2, <1>3 DEF ReconcileOwnership

----------------------------------------------------------------------------
(* The steps. *)

\* A write to a mirror that is there, by a thread that read it before.
LEMMA Changed ==
  ASSUME MirrorKept, NEW r, cr' = Change(cr, r), WellOwned(cr) => WellOwned(r)
  PROVE  MirrorKept'
BY DEF MirrorKept, Change

LEMMA MintKept == ASSUME IInv, NEW x \in Threads, MintSteps(x) PROVE IInv'
<1> DEFINE r == at[x]
<1>0. /\ ForgeKept /\ MirrorKept /\ TasksKept /\ ThreadsKept /\ QueuesKept
      /\ r \in Fit /\ r \in Thread /\ Equipped(r)
  BY DEF IInv, ThreadsKept, Fit
<1>1. r.h \in MaybeHead /\ r.ci \in BOOLEAN
  BY <1>0 DEF Thread
<1>2. r.pc \in Minting => r.t \in Tasks
  BY <1>0 DEF Equipped
<1> HIDE DEF r
<1>3. CASE createTaskRaceSafe(x)
  <2>0. r.pc = "create" /\ UNCHANGED <<forge, net, cr, qe, left, heard>>
    BY <1>3 DEF createTaskRaceSafe, r
  <2>1. r.pc \in Minting /\ r.t \in Tasks
    BY <1>2, <2>0 DEF Minting
  <2>2. TasksKept'
    <3>1. \/ tk' = [tk EXCEPT ![r.t].st = "live"] \/ tk' = [tk EXCEPT ![r.t] = NoTask] \/ tk' = tk
      BY <1>3 DEF createTaskRaceSafe, r
    <3>2. NoTask \in TaskStatus /\ \A s \in TaskStatus : [s EXCEPT !.st = "live"] \in TaskStatus
      BY DEF TaskStatus, NoTask
    <3> QED BY <1>0, <2>1, <3>1, <3>2 DEF TasksKept
  <2>3. \/ Go(x, [r EXCEPT !.pc = "sync"]) \/ Go(x, [r EXCEPT !.pc = "ref"]) \/ Minted(x)
        \/ Go(x, Idle) \/ Go(x, [r EXCEPT !.pc = "reread"])
    BY <1>3 DEF createTaskRaceSafe, repairMRBinding, r
  <2>4. [r EXCEPT !.pc = "sync"] \in Fit /\ [r EXCEPT !.pc = "ref"] \in Fit
    BY <1>0, <2>1, InMint DEF Minting
  <2>5. [r EXCEPT !.pc = "reread"] \in Fit
    <3>1. "reread" \in Steps \ (Minting \cup Delivering) /\ "reread" \notin Reading
      BY DEF Steps, Minting, Delivering, Reading
    <3> QED BY <1>0, <3>1, AtStep
  <2>6. ThreadsKept'
    <3>1. CASE Minted(x)
      BY <1>0, <2>1, <3>1, MintedFit DEF r
    <3> QED BY <1>0, <2>3, <2>4, <2>5, <3>1, GoFit, IdleIsFit
  <2> QED BY <1>0, <2>0, <2>2, <2>6 DEF IInv, ForgeKept, MirrorKept, QueuesKept
<1>4. CASE SyncMergeRequest(x)
  <2>0. /\ r.pc = "sync" /\ UNCHANGED <<forge, net, tk, qe, left, heard>>
        /\ cr' = [ensureMergeRequestCR EXCEPT !.st = "open", !.head = r.h, !.ci = r.ci]
        /\ Go(x, [r EXCEPT !.pc = "bind", !.ci = FALSE])
    BY <1>4 DEF SyncMergeRequest, r
  <2>1. ThreadsKept'
    <3>1. [r EXCEPT !.pc = "bind", !.ci = FALSE] \in Fit
      BY <1>0, <2>0, InMint DEF Minting
    <3> QED BY <1>0, <2>0, <3>1, GoFit
  <2>2. WellOwned(ensureMergeRequestCR)
    BY <1>0, NewIsOwned DEF ensureMergeRequestCR, MirrorKept
  <2>3. MirrorKept'
    <3> DEFINE m == ensureMergeRequestCR
               m1 == [m EXCEPT !.st = "open"]
               m2 == [m1 EXCEPT !.head = r.h]
    <3> HIDE DEF m
    <3>1. WellOwned(m1)
      BY <2>2, Writes DEF m
    <3> HIDE DEF m1
    <3>2. WellOwned(m2)
      BY <1>1, <3>1, Writes
    <3> HIDE DEF m2
    <3>3. WellOwned([m2 EXCEPT !.ci = r.ci])
      BY <1>1, <3>2, Writes
    <3>4. cr' = [m2 EXCEPT !.ci = r.ci]
      BY <2>0 DEF m2, m1, m
    <3> QED BY <3>3, <3>4 DEF MirrorKept
  <2> QED BY <1>0, <2>0, <2>1, <2>3 DEF IInv, ForgeKept, TasksKept, QueuesKept
<1>5. CASE ownMergeRequest(x)
  <2>0. /\ r.pc = "bind" /\ UNCHANGED <<forge, net, tk, qe, left, heard>>
        /\ \/ cr # NoCR /\ cr' = HandOverController(cr, r.t) /\ Go(x, [r EXCEPT !.pc = "ref"])
           \/ cr' = cr /\ Go(x, Idle)
    BY <1>5 DEF ownMergeRequest, r
  <2>1. r.t \in Tasks /\ [r EXCEPT !.pc = "ref"] \in Fit
    BY <1>0, <1>2, <2>0, InMint DEF Minting
  <2>2. MirrorKept'
    BY <1>0, <2>0, <2>1, AddOwner DEF MirrorKept
  <2>3. ThreadsKept'
    BY <1>0, <2>0, <2>1, GoFit, IdleIsFit
  <2> QED BY <1>0, <2>0, <2>2, <2>3 DEF IInv, ForgeKept, TasksKept, QueuesKept
<1>6. CASE stampMRRef(x)
  <2>0. /\ r.pc = "ref" /\ UNCHANGED <<forge, net, cr, qe, left, heard>>
        /\ tk' = tk \/ tk' = [tk EXCEPT ![r.t].ref = TRUE]
        /\ Minted(x)
    BY <1>6 DEF stampMRRef, r
  <2>1. r.t \in Tasks /\ r.pc \in Minting
    BY <1>2, <2>0 DEF Minting
  <2>2. TasksKept'
    BY <1>0, <2>0, <2>1 DEF TasksKept, TaskStatus
  <2>3. ThreadsKept'
    BY <1>0, <2>0, <2>1, MintedFit DEF r
  <2> QED BY <1>0, <2>0, <2>2, <2>3 DEF IInv, ForgeKept, MirrorKept, QueuesKept
<1> QED BY <1>3, <1>4, <1>5, <1>6 DEF MintSteps

LEMMA ClassifiedOwned ==
  ASSUME NEW m, NEW h \in MaybeHead
  PROVE  /\ WellOwned(m) => WellOwned(Classified(m, h))
         /\ m \in Mirror => Classified(m, h) \in Mirror
         /\ Classified(NoCR, h) = NoCR
<1>1. ASSUME m \in Mirror
      PROVE  /\ Classified(m, h) \in Mirror
             /\ Classified(m, h).owners = m.owners /\ Classified(m, h).ctrl = m.ctrl
  <2>1. CASE m = NoCR \/ m.own # ""
    BY <1>1, <2>1 DEF Classified
  <2>2. CASE ~(m = NoCR \/ m.own # "")
    <3> DEFINE o == ownershipForAuthor
               b == IF o = "tatara" /\ h # 0 THEN h ELSE m.bot
    <3>1. o \in {"tatara", "external"}
      BY DEF ownershipForAuthor
    <3>2. b \in MaybeHead
      BY <1>1, Names
    <3>3. Classified(m, h) = [m EXCEPT !.own = o, !.why = "initial", !.bot = b]
      BY <1>1, <2>2 DEF Classified, Mirror
    <3> HIDE DEF o, b
    <3> QED BY <1>1, <3>1, <3>2, <3>3 DEF Mirror, MaybeHead
  <2> QED BY <2>1, <2>2
<1>2. WellOwned(m) => WellOwned(Classified(m, h))
  <2>1. WellOwned(m) => m \in Mirror
    BY DEF WellOwned
  <2> QED BY <1>1, <2>1, OwnersAlone
<1>3. Classified(NoCR, h) = NoCR
  BY DEF Classified
<1> QED BY <1>1, <1>2, <1>3

\* Comments that are delivered: to the mirror, and to a Task.
LEMMA Commented ==
  ASSUME MirrorKept, NEW cs \in SUBSET Comments, AppendCommentToMirror(cs)
  PROVE  MirrorKept'
<1>1. cr' = Change(cr, [cr EXCEPT !.cs = @ \cup cs])
  BY DEF AppendCommentToMirror
<1>2. ASSUME WellOwned(cr) PROVE WellOwned([cr EXCEPT !.cs = @ \cup cs])
  <2>1. cr \in Mirror /\ cr.cs \cup cs \in SUBSET Comments
    BY <1>2, Names DEF WellOwned
  <2>2. [cr EXCEPT !.cs = @ \cup cs] = [cr EXCEPT !.cs = cr.cs \cup cs]
    BY <2>1 DEF Mirror
  <2>3. WellOwned([cr EXCEPT !.cs = cr.cs \cup cs])
    BY <1>2, <2>1, Writes
  <2> QED BY <2>2, <2>3
<1> QED BY <1>1, <1>2, Changed

LEMMA ToldKept ==
  ASSUME TasksKept, QueuesKept, NEW t \in Tasks, NEW cs \in SUBSET Comments, Told(t, cs)
  PROVE  TasksKept' /\ heard' \subseteq Comments
<1>1. tk' = tk \/ tk' = [tk EXCEPT ![t].st = "live"]
  BY DEF Told
<1>2. heard' = heard \/ heard' = heard \cup cs
  BY DEF Told
<1>3. \A s \in TaskStatus : [s EXCEPT !.st = "live"] \in TaskStatus
  BY DEF TaskStatus
<1> QED BY <1>1, <1>2, <1>3 DEF TasksKept, QueuesKept

\* The steps of an ownership pass.
LEMMA OwnershipKept == ASSUME IInv, NEW x \in Threads, OwnershipSteps(x) PROVE IInv'
<1> DEFINE r == at[x]
<1>0. /\ ForgeKept /\ MirrorKept /\ TasksKept /\ ThreadsKept /\ QueuesKept
      /\ r \in Fit /\ r \in Thread /\ Equipped(r)
  BY DEF IInv, ThreadsKept, Fit
<1>1. /\ r.h \in MaybeHead /\ r.cs \in SUBSET Comments /\ r.m \in Mirror \cup {NoCR}
      /\ WellOwned(cr) => cr \in Mirror
  BY <1>0 DEF Thread, WellOwned
<1>2. /\ r.pc \in Reading \ Minting => r.m \in Mirror
      /\ r.pc \in Delivering \ Minting => r.cs # {}
      /\ r.pc = "deliver" => r.t \in Tasks
  BY <1>0 DEF Equipped, Onward
<1> HIDE DEF r
<1>3. CASE classify(x)
  <2> DEFINE m == Classified(r.m, r.h)
             n == [r EXCEPT !.m = m]
  <2>0. /\ r.pc = "classify" /\ cr' = Classified(cr, r.h)
        /\ Go(x, ReconcileOwnership(x, n)) /\ UNCHANGED <<forge, net, tk, qe, left, heard>>
    BY <1>3 DEF classify, r
  <2>1. r.m \in Mirror
    BY <1>2, <2>0 DEF Reading, Minting
  <2>2. m \in Mirror
    BY <1>1, <2>1, ClassifiedOwned
  <2> HIDE DEF m
  <2>3. n \in Thread /\ n.m = m
    BY <1>0, <2>2 DEF Thread
  <2> HIDE DEF n
  <2>4. ThreadsKept'
    BY <1>0, <2>0, <2>2, <2>3, OwnershipFit, GoFit
  <2>5. MirrorKept'
    BY <1>0, <1>1, <2>0, ClassifiedOwned DEF MirrorKept
  <2> QED BY <1>0, <2>0, <2>4, <2>5 DEF IInv, ForgeKept, TasksKept, QueuesKept
<1>4. CASE retainOnHumanAssist(x)
  <2> DEFINE w == IF r.pc = "assist" \/ cr.bot = 0 THEN [cr EXCEPT !.bot = r.h] ELSE cr
  <2>0. /\ r.pc \in {"seed", "assist"} /\ cr' = Change(cr, w)
        /\ Done(x, r.m) /\ UNCHANGED <<forge, net, tk, qe, left, heard>>
    BY <1>4 DEF retainOnHumanAssist, r
  <2>1. r.m \in Mirror
    BY <1>2, <2>0 DEF Reading, Minting
  <2>2. ThreadsKept'
    BY <1>0, <2>0, <2>1, DoneFit, GoFit DEF Done
  <2>3. WellOwned(cr) => WellOwned(w)
    BY <1>1, Writes
  <2> HIDE DEF w
  <2>4. MirrorKept'
    BY <1>0, <2>0, <2>3, Changed
  <2> QED BY <1>0, <2>0, <2>2, <2>4 DEF IInv, ForgeKept, TasksKept, QueuesKept
<1>5. CASE flipToExternal(x)
  <2> DEFINE why == IF AdoptedUpgrade(ownerTaskOf(r.m)) THEN "adopted-push" ELSE "external-push"
             Flip(m) == [m EXCEPT !.own = "external", !.why = why, !.flip = cr.flip + 1]
             n == [r EXCEPT !.pc = "park", !.m = Flip(r.m), !.cs = {}]
  <2>0. /\ r.pc = "flip" /\ UNCHANGED <<forge, net, tk, qe, left, heard>>
        /\ \/ cr' = cr /\ Go(x, Idle)
           \/ cr # NoCR /\ cr.flip < MaxFlips /\ cr' = Flip(cr) /\ Go(x, n)
    BY <1>5 DEF flipToExternal, r
  <2>1. r.m \in Mirror
    BY <1>2, <2>0 DEF Reading, Minting
  <2>2. CASE cr' = cr /\ Go(x, Idle)
    <3>1. ThreadsKept'
      BY <1>0, <2>2, GoFit, IdleIsFit
    <3> QED BY <1>0, <2>0, <2>2, <3>1 DEF IInv, ForgeKept, TasksKept, QueuesKept, MirrorKept
  <2>3. CASE cr # NoCR /\ cr.flip < MaxFlips /\ cr' = Flip(cr) /\ Go(x, n)
    <3>0. why \in {"adopted-push", "external-push"}
      OBVIOUS
    <3>1. WellOwned(cr) /\ cr \in Mirror /\ cr.flip + 1 \in 0 .. MaxFlips
      <4>1. WellOwned(cr) /\ cr.flip \in 0 .. MaxFlips
        BY <1>0, <1>1, <2>3, Names DEF MirrorKept
      <4> QED BY <1>1, <2>3, <4>1, MROwnershipAssumption
    <3> HIDE DEF why
    <3>2. ASSUME NEW m \in Mirror
          PROVE  Flip(m) \in Mirror /\ Flip(m).owners = m.owners /\ Flip(m).ctrl = m.ctrl
      BY <3>0, <3>1, ZenonT(30) DEF Mirror
    <3>3. WellOwned(Flip(cr)) /\ Flip(r.m) \in Mirror
      BY <2>1, <3>1, <3>2, OwnersAlone
    <3> HIDE DEF Flip
    <3>4. n \in Fit
      <4>1. n \in Thread /\ n.pc = "park" /\ n.m = Flip(r.m)
        BY <1>0, <3>3 DEF Thread, Steps, Reading
      <4> HIDE DEF n
      <4> QED BY <3>3, <4>1 DEF Fit, Equipped, Onward, Minting, Delivering
    <3> HIDE DEF n
    <3>5. ThreadsKept' /\ MirrorKept'
      BY <1>0, <2>3, <3>3, <3>4, GoFit DEF MirrorKept
    <3> QED BY <1>0, <2>0, <3>5 DEF IInv, ForgeKept, TasksKept, QueuesKept
  <2> QED BY <2>0, <2>2, <2>3
<1>6. CASE parkOwnerTask(x)
  <2> DEFINE t == r.m.ctrl
  <2>0. /\ r.pc = "park" /\ UNCHANGED <<forge, net, cr, qe, left, heard>>
        /\ tk' = tk \/ (t # "none" /\ tk' = [tk EXCEPT ![t].st = "lost"])
        /\ Done(x, r.m) \/ Go(x, [r EXCEPT !.pc = "hand"])
    BY <1>6 DEF parkOwnerTask, r
  <2>1. r.m \in Mirror
    BY <1>2, <2>0 DEF Reading, Minting
  <2>2. t \in Tasks \cup {"none"}
    BY <2>1, Names DEF NoneOr
  <2> HIDE DEF t
  <2>3. TasksKept'
    <3>1. \A s \in TaskStatus : [s EXCEPT !.st = "lost"] \in TaskStatus
      BY DEF TaskStatus
    <3> QED BY <1>0, <2>0, <2>2, <3>1 DEF TasksKept
  <2>4. [r EXCEPT !.pc = "hand"] \in Fit
    <3>1. "hand" \in Steps \ (Minting \cup Delivering)
      BY DEF Steps, Minting, Delivering, Reading
    <3> QED BY <1>0, <2>1, <3>1, AtStep
  <2>5. ThreadsKept'
    BY <1>0, <2>0, <2>1, <2>4, DoneFit, GoFit DEF Done
  <2> QED BY <1>0, <2>0, <2>3, <2>5 DEF IInv, ForgeKept, MirrorKept, QueuesKept
<1>7. CASE handBackToReviewTask(x)
  <2> DEFINE n == [r EXCEPT !.pc = "redeliver", !.m.ctrl = "review"]
             mint == Mint(r, "review", r.m.ctrl, r.m.head, FALSE, afterHandBack(x))
  <2>0. /\ r.pc = "hand" /\ UNCHANGED <<forge, net, tk, qe, left, heard>>
        /\ \/ cr' = cr /\ (Go(x, mint) \/ Go(x, Idle))
           \/ /\ cr # NoCR /\ cr' = HandOverController(cr, "review")
              /\ Done(x, cr') \/ (r.cs # {} /\ Go(x, n))
    BY <1>7 DEF handBackToReviewTask, r
  <2>1. r.m \in Mirror
    BY <1>2, <2>0 DEF Reading, Minting
  <2>2. mint \in Fit
    <3>1. afterHandBack(x) \in Steps /\ (afterHandBack(x) \in Delivering => r.cs # {})
      BY DEF afterHandBack, Steps, Reading, Delivering, r
    <3>2. r.m.ctrl \in NoneOr(Tasks) /\ r.m.head \in MaybeHead
      BY <2>1, Names
    <3> QED BY <1>0, <2>1, <3>1, <3>2, MintIsFit, Names
  <2> HIDE DEF mint
  <2>3. ASSUME r.cs # {} PROVE n \in Fit
    <3> DEFINE m == [r.m EXCEPT !.ctrl = "review"]
    <3>1. m \in Mirror
      BY <2>1, Names DEF Mirror
    <3>2. n = [r EXCEPT !.pc = "redeliver", !.m = m]
      BY <1>0 DEF Thread
    <3> HIDE DEF m, n
    <3>3. n \in Thread /\ n.pc = "redeliver" /\ n.m = m /\ n.cs = r.cs
      BY <1>0, <3>1, <3>2 DEF Thread, Steps, Reading, Delivering
    <3> QED BY <2>3, <3>1, <3>3 DEF Fit, Equipped, Onward, Minting
  <2> HIDE DEF n
  <2>4. cr # NoCR => /\ WellOwned(HandOverController(cr, "review"))
                     /\ HandOverController(cr, "review") \in Mirror
    BY <1>0, AddOwner, Names DEF MirrorKept, WellOwned
  <2>5. MirrorKept'
    BY <1>0, <2>0, <2>4 DEF MirrorKept
  <2>6. ThreadsKept'
    BY <1>0, <2>0, <2>2, <2>3, <2>4, DoneFit, GoFit, IdleIsFit DEF Done
  <2> QED BY <1>0, <2>0, <2>5, <2>6 DEF IInv, ForgeKept, TasksKept, QueuesKept
<1>8. CASE redeliverMRComments(x)
  <2> DEFINE n == [r EXCEPT !.pc = "deliver", !.t = r.m.ctrl]
             mint == Mint(r, "review", "none", r.m.head, FALSE, "deliver")
  <2>0. /\ r.pc = "redeliver" /\ UNCHANGED <<forge, net, cr, tk, qe, left, heard>>
        /\ Go(x, mint) \/ (r.m.ctrl # "none" /\ Go(x, n))
    BY <1>8 DEF redeliverMRComments, resolveLiveMROwner, r
  <2>1. r.m \in Mirror /\ r.cs # {}
    BY <1>2, <2>0 DEF Reading, Minting, Delivering
  <2>2. mint \in Fit
    <3>1. "deliver" \in Steps /\ "deliver" \in Delivering /\ r.m.head \in MaybeHead
      BY <2>1, Names DEF Steps, Reading, Delivering
    <3> QED BY <1>0, <2>1, <3>1, MintIsFit, Names
  <2>3. ASSUME r.m.ctrl # "none" PROVE n \in Fit
    <3>1. r.m.ctrl \in Tasks /\ r.m.ctrl \in NoneOr(Tasks)
      BY <2>1, <2>3, Names DEF NoneOr
    <3>2. n \in Thread /\ n.pc = "deliver" /\ n.m = r.m /\ n.cs = r.cs /\ n.t = r.m.ctrl
      BY <1>0, <3>1 DEF Thread, Steps, Reading, Delivering
    <3> HIDE DEF n
    <3> QED BY <2>1, <3>1, <3>2 DEF Fit, Equipped, Onward, Minting
  <2> HIDE DEF n, mint
  <2>4. ThreadsKept'
    BY <1>0, <2>0, <2>2, <2>3, GoFit
  <2> QED BY <1>0, <2>0, <2>4 DEF IInv, ForgeKept, MirrorKept, TasksKept, QueuesKept
<1>9. CASE deliverMissed(x)
  <2>0. /\ r.pc = "deliver" /\ AppendCommentToMirror(r.cs) /\ Told(r.t, r.cs)
        /\ Go(x, [r EXCEPT !.pc = "cursor"]) /\ UNCHANGED <<forge, net, qe, left>>
    BY <1>9 DEF deliverMissed, r
  <2>1. r.m \in Mirror /\ r.cs # {} /\ r.t \in Tasks
    BY <1>2, <2>0 DEF Reading, Minting, Delivering
  <2>2. [r EXCEPT !.pc = "cursor"] \in Fit
    <3> DEFINE n == [r EXCEPT !.pc = "cursor"]
    <3>1. n \in Thread /\ n.pc = "cursor" /\ n.m = r.m /\ n.cs = r.cs
      BY <1>0 DEF Thread, Steps, Reading, Delivering
    <3> HIDE DEF n
    <3>2. n \in Fit
      BY <2>1, <3>1 DEF Fit, Equipped, Onward, Minting
    <3> QED BY <3>2 DEF n
  <2>3. ThreadsKept'
    BY <1>0, <2>0, <2>2, GoFit
  <2>4. MirrorKept'
    BY <1>0, <1>1, <2>0, Commented
  <2>5. TasksKept' /\ heard' \subseteq Comments
    BY <1>0, <1>1, <2>0, <2>1, ToldKept
  <2> QED BY <1>0, <2>0, <2>3, <2>4, <2>5 DEF IInv, ForgeKept, QueuesKept
<1>10. CASE advanceCursor(x)
  <2> DEFINE c == CHOOSE c \in r.cs : \A d \in r.cs : d <= c
  <2>0. /\ r.pc = "cursor" /\ cr' = Change(cr, [cr EXCEPT !.cursor = c])
        /\ Done(x, r.m) /\ UNCHANGED <<forge, net, tk, qe, left, heard>>
    BY <1>10 DEF advanceCursor, r
  <2>1. r.m \in Mirror /\ r.cs # {}
    BY <1>2, <2>0 DEF Reading, Minting, Delivering
  <2>2. c \in 0 .. MaxComments
    <3>1. c \in r.cs
      BY <1>1, <2>1, LastComment
    <3> QED BY <1>1, <3>1, MROwnershipAssumption DEF Comments
  <2> HIDE DEF c
  <2>3. ThreadsKept'
    BY <1>0, <2>0, <2>1, DoneFit, GoFit DEF Done
  <2>4. MirrorKept'
    BY <1>0, <2>0, <2>2, Writes, Changed
  <2> QED BY <1>0, <2>0, <2>3, <2>4 DEF IInv, ForgeKept, TasksKept, QueuesKept
<1> QED BY <1>3, <1>4, <1>5, <1>6, <1>7, <1>8, <1>9, <1>10 DEF OwnershipSteps

LEMMA SeenMirror == ASSUME NEW m \in Mirror PROVE Seen(m) \in Mirror
<1>1. <<>> \in Seq(Tasks) /\ 0 \in 0 .. MaxComments
  BY MROwnershipAssumption
<1> QED BY <1>1 DEF Seen, Mirror

\* The reconciler.  What it posts is posted under a marker it looks for first.
LEMMA ReconcilerKept == ASSUME IInv, recStart \/ recSteps PROVE IInv'
<1> DEFINE r == at["rec"]
<1>0. /\ ForgeKept /\ MirrorKept /\ TasksKept /\ ThreadsKept /\ QueuesKept
      /\ r \in Fit /\ r \in Thread /\ Equipped(r) /\ "rec" \in Threads
  BY DEF IInv, ThreadsKept, Fit, Threads
<1>1. r.pc \in {"ci", "drain", "remove", "announce"} => r.m \in Mirror
  BY <1>0 DEF Equipped, Onward, Reading, Minting
<1>2. WellOwned(cr) => cr \in Mirror
  BY DEF WellOwned
<1>3. ASSUME r.m \in Mirror
      PROVE  ReconcileOwnership("rec", [r EXCEPT !.h = r.m.head, !.m.pend = FALSE]) \in Fit
  <2> DEFINE m == [r.m EXCEPT !.pend = FALSE]
             n == [r EXCEPT !.h = r.m.head, !.m.pend = FALSE]
  <2>1. m \in Mirror /\ r.m.head \in MaybeHead
    BY <1>3, Names DEF Mirror
  <2>2. n = [r EXCEPT !.h = r.m.head, !.m = m]
    BY <1>0 DEF Thread
  <2> HIDE DEF m
  <2>3. n \in Thread /\ n.m = m
    BY <1>0, <2>1, <2>2 DEF Thread
  <2> HIDE DEF n
  <2>4. ReconcileOwnership("rec", n) \in Fit
    BY <1>0, <2>1, <2>3, OwnershipFit
  <2> QED BY <2>4 DEF n
<1>4. \A n \in {0, 1} : Post(n) \in {0, 1}
  BY DEF Post, threadCarriesMarker
<1> HIDE DEF r
<1>5. CASE recStart
  <2> DEFINE m == RepairZeroController(cr)
             n == [Idle EXCEPT !.pc = "ci", !.m = Seen(m)]
  <2>0. /\ cr # NoCR /\ cr' = syncMergeRequestThread(m) /\ Go("rec", n)
        /\ UNCHANGED <<forge, net, tk, qe, left, heard>>
    BY <1>5 DEF recStart
  <2>1. WellOwned(m) /\ m \in Mirror
    BY <1>0, <2>0, Repaired DEF MirrorKept, WellOwned
  <2> HIDE DEF m
  <2>2. Seen(m) \in Mirror
    BY <2>1, SeenMirror
  <2>3. n \in Fit
    <3>1. n \in Thread /\ n.pc = "ci" /\ n.m = Seen(m)
      BY <2>2, IdleIsFit DEF Thread, Steps, Reading
    <3> HIDE DEF n
    <3> QED BY <2>2, <3>1 DEF Fit, Equipped, Onward, Minting, Delivering
  <2> HIDE DEF n
  <2>4. ThreadsKept'
    BY <1>0, <2>0, <2>3, GoFit
  <2>5. MirrorKept'
    <3> DEFINE c == m.cs \cup 1 .. forge.n
    <3>1. c \in SUBSET Comments
      <4>1. forge.n \in 0 .. MaxComments /\ MaxComments \in Nat
        BY <1>0, MROwnershipAssumption DEF ForgeKept
      <4>2. 1 .. forge.n \subseteq Comments
        BY <4>1 DEF Comments
      <4> QED BY <2>1, <4>2, Names
    <3>2. syncMergeRequestThread(m) = IF m.st = "open" THEN [m EXCEPT !.cs = c] ELSE m
      BY <2>1 DEF syncMergeRequestThread, Mirror
    <3> HIDE DEF c
    <3>3. WellOwned([m EXCEPT !.cs = c])
      BY <2>1, <3>1, Writes
    <3> QED BY <2>0, <2>1, <3>2, <3>3 DEF MirrorKept
  <2> QED BY <1>0, <2>0, <2>4, <2>5 DEF IInv, ForgeKept, TasksKept, QueuesKept
<1>6. CASE recCI
  <2>0. /\ r.pc = "ci" /\ cr' = refreshCI(r.m) /\ Go("rec", [r EXCEPT !.pc = "drain"])
        /\ UNCHANGED <<forge, net, tk, qe, left, heard>>
    BY <1>6 DEF recCI, r
  <2>1. [r EXCEPT !.pc = "drain"] \in Fit
    <3>1. "drain" \in Steps \ (Minting \cup Delivering)
      BY DEF Steps, Minting, Delivering, Reading
    <3> QED BY <1>0, <1>1, <2>0, <3>1, AtStep
  <2>2. ThreadsKept'
    BY <1>0, <2>0, <2>1, GoFit
  <2>3. MirrorKept'
    <3> DEFINE b == r.m.head \in forge.green
    <3>1. b \in BOOLEAN
      OBVIOUS
    <3>2. cr' = cr \/ (cr # NoCR /\ cr' = [cr EXCEPT !.ci = b])
      BY <2>0 DEF refreshCI
    <3> HIDE DEF b
    <3>3. WellOwned(cr) => WellOwned([cr EXCEPT !.ci = b])
      BY <3>1, Writes
    <3> QED BY <1>0, <3>2, <3>3 DEF MirrorKept
  <2> QED BY <1>0, <2>0, <2>2, <2>3 DEF IInv, ForgeKept, TasksKept, QueuesKept
<1>7. CASE DrainPendingComments
  <2> DEFINE n == [r EXCEPT !.pc = "remove"]
             o == ReconcileOwnership("rec", [r EXCEPT !.h = r.m.head, !.m.pend = FALSE])
  <2>0. /\ r.pc = "drain" /\ UNCHANGED <<net, cr, tk, qe, left, heard>>
        /\ forge' = forge \/ forge' = [forge EXCEPT !.notes = Post(forge.notes)]
        /\ Go("rec", n) \/ Go("rec", o)
    BY <1>0, <1>7 DEF DrainPendingComments, r, ForgeKept
  <2>1. n \in Fit
    <3>1. "remove" \in Steps \ (Minting \cup Delivering)
      BY DEF Steps, Minting, Delivering, Reading
    <3> QED BY <1>0, <1>1, <2>0, <3>1, AtStep
  <2>2. o \in Fit
    BY <1>1, <1>3, <2>0
  <2> HIDE DEF n, o
  <2>3. ThreadsKept'
    BY <1>0, <2>0, <2>1, <2>2, GoFit
  <2>4. ForgeKept'
    <3>1. Post(forge.notes) \in {0, 1}
      BY <1>0, <1>4 DEF ForgeKept
    <3> QED BY <1>0, <2>0, <3>1 DEF ForgeKept
  <2> QED BY <1>0, <2>0, <2>3, <2>4 DEF IInv, MirrorKept, TasksKept, QueuesKept
<1>8. CASE removePendingComments
  <2> DEFINE o == ReconcileOwnership("rec", [r EXCEPT !.h = r.m.head, !.m.pend = FALSE])
  <2>0. /\ r.pc = "remove" /\ cr' = Change(cr, [cr EXCEPT !.pend = FALSE])
        /\ Go("rec", o) /\ UNCHANGED <<forge, net, tk, qe, left, heard>>
    BY <1>8 DEF removePendingComments, r
  <2>1. o \in Fit
    BY <1>1, <1>3, <2>0
  <2> HIDE DEF o
  <2>2. ThreadsKept'
    BY <1>0, <2>0, <2>1, GoFit
  <2>3. MirrorKept'
    BY <1>0, <2>0, Writes, Changed
  <2> QED BY <1>0, <2>0, <2>2, <2>3 DEF IInv, ForgeKept, TasksKept, QueuesKept
<1>9. CASE DrainOwnershipAnnouncement
  <2> DEFINE f == r.m.flip
             told == [forge.told EXCEPT ![f] = Post(forge.told[f])]
  <2>0. /\ forge' = [forge EXCEPT !.told[f] = Post(@)]
        /\ Go("rec", Idle) /\ UNCHANGED <<net, cr, tk, qe, left, heard>>
    BY <1>9 DEF DrainOwnershipAnnouncement, r
  <2>1. ThreadsKept'
    BY <1>0, <2>0, GoFit, IdleIsFit
  <2>2. ForgeKept'
    <3>1. forge.told \in [1 .. MaxFlips -> {0, 1}]
      BY <1>0 DEF ForgeKept
    <3>2. forge' = [forge EXCEPT !.told = told]
      BY <1>0, <2>0 DEF ForgeKept
    <3> HIDE DEF f
    <3>3. told \in [1 .. MaxFlips -> {0, 1}]
      BY <1>4, <3>1
    <3> HIDE DEF told
    <3> QED BY <1>0, <3>2, <3>3 DEF ForgeKept
  <2> QED BY <1>0, <2>0, <2>1, <2>2 DEF IInv, MirrorKept, TasksKept, QueuesKept
<1> QED BY <1>5, <1>6, <1>7, <1>8, <1>9 DEF recSteps

\* The sweep.
LEMMA SweepKept == ASSUME IInv, sweepStart \/ ClassifyPR \/ sweepReread PROVE IInv'
<1> DEFINE r == at["sweep"]
<1>0. /\ ForgeKept /\ MirrorKept /\ TasksKept /\ ThreadsKept /\ QueuesKept
      /\ r \in Fit /\ r \in Thread /\ "sweep" \in Threads /\ r.h \in MaybeHead
  BY DEF IInv, ThreadsKept, Fit, Threads, Thread
<1>1. /\ forge.head \in MaybeHead /\ forge.n \in 0 .. MaxComments /\ MaxComments \in Nat
  BY <1>0, Names, MROwnershipAssumption DEF ForgeKept
<1>2. \A pc \in {"listed", "reread"} : pc \in Steps \ (Minting \cup Delivering) /\ pc \notin Reading
  BY DEF Steps, Minting, Delivering, Reading
<1> HIDE DEF r
<1>3. CASE sweepStart
  <2> DEFINE n == [Idle EXCEPT !.pc = "listed", !.h = forge.head]
  <2>0. Go("sweep", n) /\ UNCHANGED <<forge, net, cr, tk, qe, left, heard>>
    BY <1>3 DEF sweepStart
  <2>1. n \in Thread /\ n.pc = "listed"
    BY <1>1, IdleIsFit DEF Thread, Steps
  <2> HIDE DEF n
  <2>2. n \in Fit
    BY <1>2, <2>1 DEF Fit, Equipped, Onward, Delivering
  <2>3. ThreadsKept'
    BY <1>0, <2>0, <2>2, GoFit
  <2> QED BY <1>0, <2>0, <2>3 DEF IInv, ForgeKept, MirrorKept, TasksKept, QueuesKept
<1>4. CASE ClassifyPR
  <2> DEFINE own == [r EXCEPT !.pc = "sync", !.t = "work", !.then = "reread"]
             mint == Mint(r, "review", "none", r.h, FALSE, "reread")
             back == [r EXCEPT !.pc = "reread"]
  <2>0. /\ cr' = cr \/ (cr # NoCR /\ cr.ctrl # "none" /\ cr' = DropOwner(cr, cr.ctrl))
        /\ Go("sweep", own) \/ Go("sweep", mint) \/ Go("sweep", back)
        /\ qe' = qe \/ qe' = r.h
        /\ UNCHANGED <<forge, net, tk, left, heard>>
    BY <1>4 DEF ClassifyPR, enqueueAdoption, r
  <2>1. own \in Fit
    <3>1. own \in Thread /\ own.pc = "sync" /\ own.t = "work" /\ own.then = "reread"
      BY <1>0, Names DEF Thread, Steps, Minting
    <3> HIDE DEF own
    <3> QED BY <1>2, <3>1, Names DEF Fit, Equipped, Onward, Minting
  <2>2. mint \in Fit
    <3>1. FALSE \in BOOLEAN /\ "reread" \in Steps /\ "reread" \notin Reading /\ "reread" \notin Delivering
      BY <1>2
    <3> QED BY <1>0, <3>1, MintIsFit, Names
  <2>3. back \in Fit
    BY <1>0, <1>2, AtStep
  <2> HIDE DEF own, mint, back
  <2>4. ThreadsKept'
    BY <1>0, <2>0, <2>1, <2>2, <2>3, GoFit
  <2>5. MirrorKept'
    <3>1. WellOwned(cr) /\ cr.ctrl # "none" => WellOwned(DropOwner(cr, cr.ctrl))
      <4>1. WellOwned(cr) /\ cr.ctrl # "none" => cr.ctrl \in Tasks
        BY Names DEF WellOwned, NoneOr
      <4> QED BY <4>1, DroppedOwner
    <3> QED BY <1>0, <2>0, <3>1 DEF MirrorKept
  <2>6. QueuesKept'
    BY <1>0, <2>0 DEF QueuesKept
  <2> QED BY <1>0, <2>0, <2>4, <2>5, <2>6 DEF IInv, ForgeKept, TasksKept
<1>5. CASE sweepReread
  <2>0. /\ \/ Go("sweep", Idle)
           \/ cr # NoCR /\ \E h \in MaybeHead : Go("sweep", ReconcileOwnership("sweep", swept(h)))
        /\ UNCHANGED <<forge, net, cr, tk, qe, heard>>
    BY <1>1, <1>5, Names DEF sweepReread
  <2>1. ASSUME cr # NoCR, NEW h \in MaybeHead PROVE ReconcileOwnership("sweep", swept(h)) \in Fit
    <3> DEFINE m == [Seen(cr) EXCEPT !.pend = FALSE]
               c == IF cr.own = "tatara" THEN {} ELSE cr.cursor + 1 .. forge.n
               n == [Idle EXCEPT !.m = m, !.h = h, !.cs = c]
    <3>1. cr \in Mirror /\ cr.cursor \in 0 .. MaxComments
      BY <1>0, <2>1, Names DEF MirrorKept, WellOwned
    <3>2. m \in Mirror
      <4>1. Seen(cr) \in Mirror
        BY <3>1, SeenMirror
      <4> QED BY <4>1 DEF Mirror
    <3>3. c \in SUBSET Comments
      BY <1>1, <3>1 DEF Comments
    <3>4. swept(h) = n
      BY DEF swept
    <3> HIDE DEF m, c
    <3>5. n \in Thread /\ n.m = m
      BY <3>2, <3>3, IdleIsFit DEF Thread
    <3> HIDE DEF n
    <3> QED BY <1>0, <3>2, <3>4, <3>5, OwnershipFit
  <2>2. ThreadsKept'
    BY <1>0, <2>0, <2>1, GoFit, IdleIsFit
  <2> QED BY <1>0, <2>0, <2>2 DEF IInv, ForgeKept, MirrorKept, TasksKept, QueuesKept
<1> QED BY <1>3, <1>4, <1>5

\* The fields of a delivery are those of its kind.
LEMMA DeliveryFields ==
  ASSUME NEW d \in Deliveries
  PROVE  /\ d.k = "push" => d.h \in Heads /\ d.ours \in BOOLEAN
         /\ d.k = "closed" => d.st \in {"merged", "closed"}
         /\ d.k = "comment" => d.c \in Comments
BY DEF Deliveries

\* The webhook's handlers.
LEMMA HookKept == ASSUME IInv, Handle PROVE IInv'
<1> DEFINE r == at["hook"]
<1>0. /\ ForgeKept /\ MirrorKept /\ TasksKept /\ ThreadsKept /\ QueuesKept
      /\ r \in Fit /\ r \in Thread /\ "hook" \in Threads /\ r.cs \in SUBSET Comments
  BY DEF IInv, ThreadsKept, Fit, Threads, Thread
<1>1. 1 \in Heads /\ 1 \in MaybeHead /\ (WellOwned(cr) => cr \in Mirror /\ cr.head \in MaybeHead)
  BY MROwnershipAssumption, Names DEF Heads, MaybeHead, WellOwned
<1>2. \A pc \in {"idle", "tell", "stampCI"} : pc \in Steps \ (Minting \cup Delivering) /\ pc \notin Reading
  BY DEF Steps, Minting, Delivering, Reading
<1>3. ASSUME NEW d, Receive(d) PROVE d \in Deliveries /\ net' \subseteq Deliveries
  BY <1>0, <1>3 DEF Receive, QueuesKept
<1> HIDE DEF r
<1>4. ASSUME NEW d \in net, handleMROpened(d) PROVE IInv'
  <2> DEFINE mint == Mint(Idle, "review", "none", 1, FALSE, "idle")
  <2>0. /\ net' \subseteq Deliveries /\ (qe' = qe \/ qe' = 1) /\ (at' = at \/ Go("hook", mint))
        /\ UNCHANGED <<forge, cr, tk, left, heard>>
    BY <1>3, <1>4 DEF handleMROpened, enqueueAdoption
  <2>1. mint \in Fit
    BY <1>1, <1>2, IdleIsFit, MintIsFit, Names
  <2> HIDE DEF mint
  <2>2. ThreadsKept'
    BY <1>0, <2>0, <2>1, GoFit DEF ThreadsKept
  <2>3. QueuesKept'
    BY <1>0, <1>1, <2>0 DEF QueuesKept
  <2> QED BY <1>0, <2>0, <2>2, <2>3 DEF IInv, ForgeKept, MirrorKept, TasksKept
<1>5. ASSUME NEW d \in net, handleMRSynchronize(d) PROVE IInv'
  <2>0. /\ d \in Deliveries /\ net' \subseteq Deliveries /\ d.k = "push" /\ cr' = stampMRHead(d.h, d.ours)
        /\ (qe' = 0 \/ qe' = d.h) /\ UNCHANGED <<forge, tk, at, left, heard>>
    BY <1>3, <1>5 DEF handleMRSynchronize
  <2>1. d.h \in MaybeHead
    BY <2>0, DeliveryFields, Names
  <2>2. MirrorKept'
    <3> DEFINE b == IF d.ours THEN d.h ELSE cr.bot
               m == [cr EXCEPT !.head = d.h]
    <3>1. cr' = Change(cr, [cr EXCEPT !.head = d.h, !.bot = IF d.ours THEN d.h ELSE @])
      BY <2>0 DEF stampMRHead
    <3>2. ASSUME WellOwned(cr) PROVE WellOwned([cr EXCEPT !.head = d.h, !.bot = IF d.ours THEN d.h ELSE @])
      <4>1. cr \in Mirror /\ b \in MaybeHead
        BY <2>1, <3>2, Names DEF WellOwned
      <4>2. [cr EXCEPT !.head = d.h, !.bot = IF d.ours THEN d.h ELSE @] = [m EXCEPT !.bot = b]
        BY <4>1 DEF Mirror
      <4> HIDE DEF b
      <4>3. WellOwned(m)
        BY <2>1, <3>2, Writes
      <4> HIDE DEF m
      <4>4. WellOwned([m EXCEPT !.bot = b])
        BY <4>1, <4>3, Writes
      <4> QED BY <4>2, <4>4
    <3> QED BY <1>0, <3>1, <3>2, Changed
  <2>3. QueuesKept'
    BY <1>0, <2>0, <2>1, Names DEF QueuesKept
  <2> QED BY <1>0, <2>0, <2>2, <2>3 DEF IInv, ForgeKept, ThreadsKept, TasksKept
<1>6. ASSUME NEW d \in net, handleMRClosed(d) PROVE IInv'
  <2>0. /\ d \in Deliveries /\ net' \subseteq Deliveries /\ d.k = "closed"
        /\ cr' = Change(cr, [cr EXCEPT !.st = d.st])
        /\ qe' = 0 /\ UNCHANGED <<forge, tk, at, left, heard>>
    BY <1>3, <1>6 DEF handleMRClosed
  <2>1. d.st \in {"open", "merged", "closed"}
    BY <2>0, DeliveryFields
  <2>2. WellOwned(cr) => WellOwned([cr EXCEPT !.st = d.st])
    BY <2>1, Writes
  <2>3. MirrorKept'
    BY <1>0, <2>0, <2>2, Changed
  <2>4. QueuesKept'
    BY <1>0, <2>0, Names DEF QueuesKept
  <2> QED BY <1>0, <2>0, <2>3, <2>4 DEF IInv, ForgeKept, ThreadsKept, TasksKept
<1>7. ASSUME NEW d \in net, handleCIStatus(d) PROVE IInv'
  <2> DEFINE n == [Idle EXCEPT !.pc = "stampCI"]
  <2>0. /\ net' \subseteq Deliveries /\ (at' = at \/ Go("hook", n))
        /\ UNCHANGED <<forge, cr, tk, qe, left, heard>>
    BY <1>3, <1>7 DEF handleCIStatus
  <2>1. n \in Fit
    BY <1>2, IdleIsFit, AtStep
  <2> HIDE DEF n
  <2>2. ThreadsKept'
    BY <1>0, <2>0, <2>1, GoFit DEF ThreadsKept
  <2> QED BY <1>0, <2>0, <2>2 DEF IInv, ForgeKept, MirrorKept, TasksKept, QueuesKept
<1>8. ASSUME NEW d \in net, handleMRComment(d) PROVE IInv'
  <2> DEFINE n == [Idle EXCEPT !.pc = "tell", !.cs = {d.c}]
             h == IF cr = NoCR THEN 1 ELSE cr.head
             mint == Mint(n, "review", "none", h, FALSE, "tell")
  <2>0. /\ d \in Deliveries /\ net' \subseteq Deliveries /\ d.k = "comment"
        /\ at' = at \/ Go("hook", n) \/ Go("hook", mint)
        /\ UNCHANGED <<forge, cr, tk, qe, left, heard>>
    BY <1>3, <1>8 DEF handleMRComment
  <2>1. n \in Thread /\ n.pc = "tell"
    BY <2>0, DeliveryFields, IdleIsFit DEF Thread, Steps
  <2>2. h \in MaybeHead
    BY <1>0, <1>1 DEF MirrorKept
  <2> HIDE DEF n, h
  <2>3. n \in Fit
    BY <1>2, <2>1 DEF Fit, Equipped, Onward, Delivering
  <2>4. mint \in Fit
    BY <1>2, <2>1, <2>2, MintIsFit, Names
  <2> HIDE DEF mint
  <2>5. ThreadsKept'
    BY <1>0, <2>0, <2>3, <2>4, GoFit DEF ThreadsKept
  <2> QED BY <1>0, <2>0, <2>5 DEF IInv, ForgeKept, MirrorKept, TasksKept, QueuesKept
<1>9. CASE stampMRCI
  <2>0. /\ cr' = Change(cr, [cr EXCEPT !.ci = TRUE]) /\ Go("hook", Idle)
        /\ UNCHANGED <<forge, net, tk, qe, left, heard>>
    BY <1>9 DEF stampMRCI
  <2>1. MirrorKept' /\ ThreadsKept'
    BY <1>0, <2>0, Writes, Changed, GoFit, IdleIsFit
  <2> QED BY <1>0, <2>0, <2>1 DEF IInv, ForgeKept, TasksKept, QueuesKept
<1>10. CASE deliverPendingEvent
  <2>0. /\ AppendCommentToMirror(r.cs) /\ Go("hook", Idle) /\ UNCHANGED <<forge, net, qe, left>>
        /\ UNCHANGED <<tk, heard>> \/ (cr # NoCR /\ cr.ctrl # "none" /\ Told(cr.ctrl, r.cs))
    BY <1>10 DEF deliverPendingEvent, resolveLiveMROwner, r
  <2>1. MirrorKept' /\ ThreadsKept'
    BY <1>0, <2>0, Commented, GoFit, IdleIsFit
  <2>2. cr # NoCR /\ cr.ctrl # "none" => cr.ctrl \in Tasks
    BY <1>0, <1>1, Names DEF MirrorKept, NoneOr
  <2>3. TasksKept' /\ heard' \subseteq Comments
    <3>1. CASE UNCHANGED <<tk, heard>>
      BY <1>0, <3>1 DEF TasksKept, QueuesKept
    <3>2. CASE cr # NoCR /\ cr.ctrl # "none" /\ Told(cr.ctrl, r.cs)
      BY <1>0, <2>2, <3>2, ToldKept
    <3> QED BY <2>0, <3>1, <3>2
  <2> QED BY <1>0, <2>0, <2>1, <2>3 DEF IInv, ForgeKept, QueuesKept
<1> QED BY <1>4, <1>5, <1>6, <1>7, <1>8, <1>9, <1>10 DEF Handle

\* The queue and the takeover endpoint.
LEMMA QueueAndRestKept ==
  ASSUME IInv, mintAdopted \/ admitted \/ mrTakeover \/ reassertTakeover \/ stampTakeover
  PROVE  IInv'
<1> DEFINE r == at["rest"]
<1>0. /\ ForgeKept /\ MirrorKept /\ TasksKept /\ ThreadsKept /\ QueuesKept
      /\ r \in Fit /\ "rest" \in Threads /\ "queue" \in Threads /\ r.h \in MaybeHead
  BY DEF IInv, ThreadsKept, Fit, Threads, Thread
<1>1. forge.head \in MaybeHead /\ qe \in MaybeHead
  BY <1>0, Names DEF ForgeKept, QueuesKept
<1>2. \A pc \in {"admitted", "assert", "stamp"} : pc \in Steps \ (Minting \cup Delivering) /\ pc \notin Reading
  BY DEF Steps, Minting, Delivering, Reading
<1>3. WellOwned(cr) => cr \in Mirror
  BY DEF WellOwned
<1> HIDE DEF r
<1>4. CASE mintAdopted
  <2> DEFINE mint == Mint(Idle, "work", "none", qe, FALSE, "admitted")
  <2>0. /\ (qe' = 0 \/ qe' = qe) /\ (at' = at \/ Go("queue", mint))
        /\ UNCHANGED <<forge, net, cr, tk, left, heard>>
    BY <1>4 DEF mintAdopted
  <2>1. mint \in Fit
    BY <1>1, <1>2, IdleIsFit, MintIsFit, Names
  <2> HIDE DEF mint
  <2>2. ThreadsKept'
    BY <1>0, <2>0, <2>1, GoFit DEF ThreadsKept
  <2>3. QueuesKept'
    BY <1>0, <2>0, Names DEF QueuesKept
  <2> QED BY <1>0, <2>0, <2>2, <2>3 DEF IInv, ForgeKept, MirrorKept, TasksKept
<1>5. CASE admitted
  <2>0. qe' = 0 /\ Go("queue", Idle) /\ UNCHANGED <<forge, net, cr, tk, left, heard>>
    BY <1>5 DEF admitted
  <2>1. ThreadsKept' /\ QueuesKept'
    BY <1>0, <2>0, GoFit, IdleIsFit, Names DEF QueuesKept
  <2> QED BY <1>0, <2>0, <2>1 DEF IInv, ForgeKept, MirrorKept, TasksKept
<1>6. CASE mrTakeover
  <2> DEFINE mint == Mint(Idle, "take", "review", cr.head, cr.ci, "assert")
  <2>0. cr # NoCR /\ Go("rest", mint) /\ UNCHANGED <<forge, net, cr, tk, qe, heard>>
    BY <1>6 DEF mrTakeover
  <2>1. mint \in Fit
    <3>1. cr.head \in MaybeHead /\ cr.ci \in BOOLEAN /\ "review" \in NoneOr(Tasks)
      BY <1>0, <1>3, <2>0, Names DEF MirrorKept
    <3> QED BY <1>2, <3>1, IdleIsFit, MintIsFit, Names
  <2> HIDE DEF mint
  <2>2. ThreadsKept'
    BY <1>0, <2>0, <2>1, GoFit
  <2> QED BY <1>0, <2>0, <2>2 DEF IInv, ForgeKept, MirrorKept, TasksKept, QueuesKept
<1>7. CASE reassertTakeover
  <2>0. /\ UNCHANGED <<forge, net, tk, qe, heard>>
        /\ \/ Go("rest", Idle) /\ UNCHANGED cr
           \/ /\ cr # NoCR /\ cr' = HandOverController(cr, "take")
              /\ \E h \in MaybeHead : Go("rest", [Idle EXCEPT !.pc = "stamp", !.h = h])
    BY <1>0, <1>1, <1>7 DEF reassertTakeover, r
  <2>1. MirrorKept'
    BY <1>0, <2>0, AddOwner, Names DEF MirrorKept
  <2>2. ASSUME NEW h \in MaybeHead PROVE [Idle EXCEPT !.pc = "stamp", !.h = h] \in Fit
    <3> DEFINE n == [Idle EXCEPT !.pc = "stamp", !.h = h]
    <3>1. n \in Thread /\ n.pc = "stamp"
      BY IdleIsFit DEF Thread, Steps
    <3> HIDE DEF n
    <3>2. n \in Fit
      BY <1>2, <3>1 DEF Fit, Equipped, Onward, Delivering
    <3> QED BY <3>2 DEF n
  <2>3. ThreadsKept'
    <3>1. CASE Go("rest", Idle)
      BY <1>0, <3>1, GoFit, IdleIsFit
    <3>2. ASSUME NEW h \in MaybeHead, Go("rest", [Idle EXCEPT !.pc = "stamp", !.h = h]) PROVE ThreadsKept'
      BY <1>0, <2>2, <3>2, GoFit
    <3> QED BY <2>0, <3>1, <3>2
  <2> QED BY <1>0, <2>0, <2>1, <2>3 DEF IInv, ForgeKept, TasksKept, QueuesKept
<1>8. CASE stampTakeover
  <2> DEFINE n == [cr EXCEPT !.own = "tatara", !.why = "takeover", !.flip = cr.flip + 1,
                            !.bot = r.h, !.head = r.h]
  <2>0. /\ Go("rest", Idle) /\ UNCHANGED <<forge, net, tk, qe, left, heard>>
        /\ \/ UNCHANGED cr
           \/ /\ cr # NoCR /\ cr.flip < MaxFlips
              /\ cr' = [cr EXCEPT !.own = "tatara", !.why = "takeover", !.flip = @ + 1,
                                  !.bot = r.h, !.head = r.h]
    BY <1>8 DEF stampTakeover, r
  <2>1. MirrorKept'
    <3>1. ASSUME cr # NoCR, cr.flip < MaxFlips,
                 cr' = [cr EXCEPT !.own = "tatara", !.why = "takeover", !.flip = @ + 1,
                                  !.bot = r.h, !.head = r.h]
          PROVE  WellOwned(cr')
      <4>1. WellOwned(cr) /\ cr \in Mirror
        BY <1>0, <1>3, <3>1 DEF MirrorKept
      <4>2. cr.flip \in 0 .. MaxFlips
        BY <4>1, Names
      <4>3. cr.flip + 1 \in 0 .. MaxFlips
        BY <3>1, <4>2, MROwnershipAssumption
      <4>4. cr' = n
        BY <3>1, <4>1 DEF Mirror
      <4>5. n \in Mirror /\ n.owners = cr.owners /\ n.ctrl = cr.ctrl
        BY <1>0, <4>1, <4>3 DEF Mirror, MaybeHead
      <4> HIDE DEF n
      <4> QED BY <4>1, <4>4, <4>5, OwnersAlone
    <3> QED BY <1>0, <2>0, <3>1 DEF MirrorKept
  <2>2. ThreadsKept'
    BY <1>0, <2>0, GoFit, IdleIsFit
  <2> QED BY <1>0, <2>0, <2>1, <2>2 DEF IInv, ForgeKept, TasksKept, QueuesKept
<1> QED BY <1>4, <1>5, <1>6, <1>7, <1>8

\* The forge: nothing but the reconciler posts.
LEMMA ForgeStepsKept ==
  ASSUME IInv, ownPush \/ humanPush \/ humanComments \/ ciFinishes \/ forgeCloses \/ loseDelivery
  PROVE  IInv'
<1>0. /\ ForgeKept /\ MirrorKept /\ TasksKept /\ ThreadsKept /\ QueuesKept
      /\ forge.head \in Heads /\ forge.n \in 0 .. MaxComments
      /\ MaxHeads \in Nat /\ MaxComments \in Nat
  BY MROwnershipAssumption DEF IInv, ForgeKept
<1>1. ASSUME ForgeKept', net' \subseteq Deliveries, UNCHANGED <<cr, tk, qe, at, heard>> PROVE IInv'
  BY <1>0, <1>1 DEF IInv, MirrorKept, TasksKept, ThreadsKept, QueuesKept
<1>2. ASSUME NEW ours \in BOOLEAN, pushed(ours) PROVE IInv'
  <2>1. forge.head + 1 \in Heads
    BY <1>0, <1>2 DEF pushed, Heads
  <2>2. forge' = [forge EXCEPT !.head = forge.head + 1]
    BY <1>0, <1>2 DEF pushed, ForgeKept
  <2>3. ForgeKept'
    BY <1>0, <2>1, <2>2 DEF ForgeKept
  <2>4. [k |-> "push", h |-> forge.head + 1, ours |-> ours] \in Deliveries
    BY <2>1 DEF Deliveries
  <2> QED BY <1>0, <1>1, <1>2, <2>3, <2>4 DEF pushed, QueuesKept
<1>3. CASE humanComments
  <2>1. forge.n + 1 \in 0 .. MaxComments /\ forge.n + 1 \in Comments
    BY <1>0, <1>3 DEF humanComments, Comments
  <2>2. forge' = [forge EXCEPT !.n = forge.n + 1]
    BY <1>0, <1>3 DEF humanComments, ForgeKept
  <2>3. ForgeKept'
    BY <1>0, <2>1, <2>2 DEF ForgeKept
  <2>4. [k |-> "comment", c |-> forge.n + 1] \in Deliveries
    BY <2>1 DEF Deliveries
  <2> QED BY <1>0, <1>1, <1>3, <2>3, <2>4 DEF humanComments, QueuesKept
<1>4. CASE ciFinishes
  <2>1. forge' = [forge EXCEPT !.green = forge.green \cup {forge.head}]
    BY <1>0, <1>4 DEF ciFinishes, ForgeKept
  <2>2. ForgeKept'
    BY <1>0, <2>1 DEF ForgeKept
  <2>3. [k |-> "ci", h |-> forge.head] \in Deliveries
    BY <1>0 DEF Deliveries
  <2> QED BY <1>0, <1>1, <1>4, <2>2, <2>3 DEF ciFinishes, QueuesKept
<1>5. CASE forgeCloses
  <2>1. PICK st \in {"merged", "closed"} : /\ forge' = [forge EXCEPT !.st = st]
                                           /\ net' = net \cup {[k |-> "closed", st |-> st]}
    BY <1>5 DEF forgeCloses
  <2>2. ForgeKept'
    BY <1>0, <2>1 DEF ForgeKept
  <2>3. [k |-> "closed", st |-> st] \in Deliveries
    BY DEF Deliveries
  <2> QED BY <1>0, <1>1, <1>5, <2>1, <2>2, <2>3 DEF forgeCloses, QueuesKept
<1>6. CASE loseDelivery
  <2>1. ForgeKept'
    BY <1>0, <1>6 DEF loseDelivery, ForgeKept
  <2> QED BY <1>0, <1>1, <1>6, <2>1 DEF loseDelivery, QueuesKept
<1> QED BY <1>2, <1>3, <1>4, <1>5, <1>6 DEF ownPush, humanPush

\* The Tasks, the reaper and a thread that dies.
LEMMA TaskStepsKept ==
  ASSUME IInv, \/ agentNotes \/ recordBotHead
               \/ \E t \in Tasks : taskParks(t) \/ taskFinishes(t) \/ reapTask(t)
               \/ \E x \in Threads : crash(x)
  PROVE  IInv'
<1>0. /\ ForgeKept /\ MirrorKept /\ TasksKept /\ ThreadsKept /\ QueuesKept /\ forge.head \in MaybeHead
  BY Names DEF IInv, ForgeKept
<1>1. ASSUME UNCHANGED <<forge, net, qe, heard>>, MirrorKept', TasksKept', ThreadsKept' PROVE IInv'
  BY <1>0, <1>1 DEF IInv, ForgeKept, QueuesKept
<1>2. /\ NoTask \in TaskStatus
      /\ \A s \in TaskStatus : /\ [s EXCEPT !.st = "parked"] \in TaskStatus
                              /\ [s EXCEPT !.st = "done"] \in TaskStatus
  BY DEF TaskStatus, NoTask
<1>3. CASE agentNotes
  <2>1. cr # NoCR /\ cr' = [cr EXCEPT !.pend = TRUE] /\ UNCHANGED <<forge, net, tk, qe, at, heard>>
    BY <1>3 DEF agentNotes
  <2>2. MirrorKept'
    BY <1>0, <2>1, Writes DEF MirrorKept
  <2> QED BY <1>0, <1>1, <2>1, <2>2 DEF TasksKept, ThreadsKept
<1>4. CASE recordBotHead
  <2>1. cr # NoCR /\ cr' = [cr EXCEPT !.bot = forge.head] /\ UNCHANGED <<forge, net, tk, qe, at, heard>>
    BY <1>4 DEF recordBotHead
  <2>2. WellOwned(cr) => WellOwned([cr EXCEPT !.bot = forge.head])
    BY <1>0, Writes
  <2>3. MirrorKept'
    BY <1>0, <2>1, <2>2 DEF MirrorKept
  <2> QED BY <1>0, <1>1, <2>1, <2>3 DEF TasksKept, ThreadsKept
<1>5. ASSUME NEW t \in Tasks, taskParks(t) \/ taskFinishes(t) PROVE IInv'
  <2>1. /\ tk' = [tk EXCEPT ![t].st = "parked"] \/ tk' = [tk EXCEPT ![t].st = "done"]
        /\ UNCHANGED <<forge, net, cr, qe, at, heard>>
    BY <1>5 DEF taskParks, taskFinishes
  <2>2. TasksKept'
    BY <1>0, <1>2, <2>1 DEF TasksKept
  <2> QED BY <1>0, <1>1, <2>1, <2>2 DEF MirrorKept, ThreadsKept
<1>6. ASSUME NEW t \in Tasks, reapTask(t) PROVE IInv'
  <2> DEFINE marked(d) == markAdoptionRefused(cr, t, d)
             m(d) == releaseOwnership(marked(d), t)
  <2>1. /\ tk' = [tk EXCEPT ![t] = NoTask] /\ UNCHANGED <<forge, net, qe, at, heard>>
        /\ cr' = NoCR \/ (cr # NoCR /\ \E d \in BOOLEAN : cr' = DropOwner(m(d), t))
    BY <1>6 DEF reapTask
  <2>2. TasksKept'
    BY <1>0, <1>2, <2>1 DEF TasksKept
  <2>3. ASSUME NEW d \in BOOLEAN, cr # NoCR PROVE WellOwned(m(d))
    <3>1. WellOwned(cr)
      BY <1>0, <2>3 DEF MirrorKept
    <3>2. WellOwned(marked(d))
      BY <3>1, Marked
    <3> HIDE DEF marked
    <3> QED BY <3>2, Released
  <2> HIDE DEF m
  <2>4. MirrorKept'
    BY <2>1, <2>3, DroppedOwner DEF MirrorKept
  <2> QED BY <1>0, <1>1, <2>1, <2>2, <2>4 DEF ThreadsKept
<1>7. ASSUME NEW x \in Threads, crash(x) PROVE IInv'
  <2>1. Go(x, Idle) /\ UNCHANGED <<forge, net, cr, tk, qe, heard>>
    BY <1>7 DEF crash
  <2>2. ThreadsKept'
    BY <1>0, <2>1, GoFit, IdleIsFit
  <2> QED BY <1>0, <1>1, <2>1, <2>2 DEF MirrorKept, TasksKept
<1> QED BY <1>3, <1>4, <1>5, <1>6, <1>7

LEMMA InitIInv == Init => IInv
<1> SUFFICES ASSUME Init PROVE IInv
  OBVIOUS
<1>1. PICK c \in Cases :
        /\ forge = [by |-> c.by, st |-> "open", head |-> 1, green |-> {}, n |-> 0, notes |-> 0,
                    told |-> [f \in 1 .. MaxFlips |-> 0]]
        /\ Driven \/ Opened
  BY DEF Init
<1>2. 1 \in Heads /\ 1 \in MaybeHead /\ 0 \in 0 .. MaxComments
  BY MROwnershipAssumption DEF Heads, MaybeHead
<1>3. ForgeKept
  <2>1. c.by \in {"bot", "engine", "human"} /\ [f \in 1 .. MaxFlips |-> 0] \in [1 .. MaxFlips -> {0, 1}]
    BY MROwnershipAssumption
  <2> QED BY <1>1, <1>2, <2>1 DEF ForgeKept
<1>4. ThreadsKept
  BY IdleIsFit DEF Init, ThreadsKept
<1>5. QueuesKept
  <2>1. [k |-> "opened"] \in Deliveries /\ net \subseteq {[k |-> "opened"]}
    BY <1>1 DEF Deliveries, Driven, Opened
  <2> QED BY <2>1, Names DEF QueuesKept, Init
<1>6. TasksKept
  <2>1. /\ NoTask \in TaskStatus
        /\ [st |-> "live", ref |-> FALSE] \in TaskStatus /\ [st |-> "live", ref |-> TRUE] \in TaskStatus
    BY DEF TaskStatus, NoTask
  <2>2. CASE Opened
    BY <2>1, <2>2 DEF TasksKept, Opened
  <2>3. CASE Driven
    BY <2>1, <2>3 DEF TasksKept, Driven
  <2> QED BY <1>1, <2>2, <2>3
<1>7. MirrorKept
  <2>1. CASE Opened
    BY <2>1 DEF Opened, MirrorKept
  <2>2. CASE Driven
    <3> DEFINE m == [NewMirror EXCEPT !.head = 1]
               o == HandOverController(m, FirstTask)
    <3>1. FirstTask \in Tasks
      BY Names DEF FirstTask
    <3>2. WellOwned(m)
      BY <1>2, NewIsOwned, Writes
    <3> HIDE DEF m
    <3>3. WellOwned(o)
      BY <3>1, <3>2, AddOwner
    <3>4. cr = Classified(o, 1)
      BY <2>2 DEF Driven, m
    <3> HIDE DEF o
    <3> QED BY <1>2, <3>3, <3>4, ClassifiedOwned DEF MirrorKept
  <2> QED BY <1>1, <2>1, <2>2
<1> QED BY <1>3, <1>4, <1>5, <1>6, <1>7 DEF IInv

LEMMA NextIInv == IInv /\ [Next]_vars => IInv'
<1> SUFFICES ASSUME IInv, [Next]_vars PROVE IInv'
  OBVIOUS
<1>1. CASE UNCHANGED vars
  BY <1>1 DEF IInv, ForgeKept, MirrorKept, TasksKept, ThreadsKept, QueuesKept, vars
<1>2. {"rec", "sweep", "hook", "queue", "rest"} = Threads
  BY DEF Threads
<1>3. CASE RecRuns
  BY <1>2, <1>3, ReconcilerKept, OwnershipKept, MintKept DEF RecRuns
<1>4. CASE SweepRuns
  BY <1>2, <1>4, SweepKept, OwnershipKept, MintKept DEF SweepRuns
<1>5. CASE HookRuns
  BY <1>2, <1>5, HookKept, MintKept DEF HookRuns
<1>6. CASE QueueRuns
  BY <1>2, <1>6, QueueAndRestKept, MintKept DEF QueueRuns
<1>7. CASE mrTakeover \/ RestRuns
  BY <1>2, <1>7, QueueAndRestKept, MintKept DEF RestRuns
<1> QED BY <1>1, <1>3, <1>4, <1>5, <1>6, <1>7, ForgeStepsKept, TaskStepsKept DEF Next

\* What each thread has in hand when it writes: the Task it mints for, the
\* mirror it read and the comments it is to deliver, whatever the others did
\* since (intake.go, ownership.go, ownership_redeliver.go).
THEOREM Invariance == Spec => []IInv
BY InitIInv, NextIInv, PTL DEF Spec

\* The mirror is well formed whoever wrote it last: no Task owns it twice and
\* the controller flag is an owner's, though five threads move it, some on the
\* word of a stale copy (own.go).
THEOREM TypeCorrect == Spec => []TypeOK
<1>1. IInv => TypeOK
  <2> SUFFICES ASSUME IInv PROVE TypeOK
    OBVIOUS
  <2>1. forge.head \in Heads /\ forge.green \subseteq Heads /\ forge.n \in 0 .. MaxComments
    BY DEF IInv, ForgeKept
  <2>2. net \subseteq Deliveries /\ qe \in Heads \cup {0} /\ heard \subseteq Comments
    BY DEF IInv, QueuesKept, MaybeHead
  <2>3. cr # NoCR => WellOwned(cr)
    BY DEF IInv, MirrorKept
  <2>4. tk \in [Tasks -> [st : {"none", "live", "parked", "lost", "done"}, ref : BOOLEAN]]
    BY DEF IInv, TasksKept, TaskStatus
  <2> QED BY <2>1, <2>2, <2>3, <2>4 DEF TypeOK, WellOwned
<1> QED BY <1>1, Invariance, PTL

\* A comment the agent left and the announcement of each flip are posted at
\* most once, though the reconciler may die between the post and the write
\* that records it, and goes over the same mirror again (reviewpost.go,
\* ownership_announce.go).
THEOREM PostsAreSingle == Spec => []PostedOnce
<1>1. IInv => PostedOnce
  <2> SUFFICES ASSUME IInv PROVE PostedOnce
    OBVIOUS
  <2>1. forge.notes \in {0, 1} /\ forge.told \in [1 .. MaxFlips -> {0, 1}]
    BY DEF IInv, ForgeKept
  <2>2. \A f \in DOMAIN forge.told : forge.told[f] \in {0, 1}
    BY <2>1
  <2> QED BY <2>1, <2>2 DEF PostedOnce
<1> QED BY <1>1, Invariance, PTL

============================================================================

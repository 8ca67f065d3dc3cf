--------------------------- MODULE TurnLoop_proofs ---------------------------
(***************************************************************************)
(* Proofs about module TurnLoop, for any bounds, any set of events and any *)
(* faults: every variable keeps its type, no event is lost between its     *)
(* arrival and a turn, and a turn is charged once, however many callbacks  *)
(* are served, as long as no two of them are of that turn.                 *)
(*                                                                         *)
(* The first part is about queues: how many of a key are left after an     *)
(* append to a full queue, and after the rendered ones are drained.  The   *)
(* second part shows that every step preserves the inductive invariant.    *)
(***************************************************************************)
EXTENDS TurnLoop, TLAPS, FiniteSetTheorems, SequenceTheorems

----------------------------------------------------------------------------
(* Queues. *)

\* A capped sequence is a sequence no longer than its cap.
LEMMA SeqOfIsSeq ==
  ASSUME NEW S, NEW n \in Nat, NEW q
  PROVE  q \in SeqOf(S, n) <=> q \in Seq(S) /\ Len(q) <= n
<1>1. ASSUME q \in SeqOf(S, n) PROVE q \in Seq(S) /\ Len(q) <= n
  <2>1. PICK m \in 0 .. n : q \in [1 .. m -> S]
    BY <1>1 DEF SeqOf
  <2> QED BY <2>1
<1>2. ASSUME q \in Seq(S), Len(q) <= n PROVE q \in SeqOf(S, n)
  <2>1. Len(q) \in 0 .. n /\ q \in [1 .. Len(q) -> S]
    BY <1>2, LenProperties
  <2> QED BY <2>1 DEF SeqOf
<1> QED BY <1>1, <1>2

\* A sequence of length n has n positions.
LEMMA Positions ==
  ASSUME NEW n \in Nat
  PROVE  IsFiniteSet(1 .. n) /\ Cardinality(1 .. n) = n
BY FS_Interval

\* The positions of a key are some of the queue's, and their number a natural.
LEMMA CountType ==
  ASSUME NEW S, NEW q \in Seq(S), NEW x
  PROVE  /\ Occurrences(q, x) \in SUBSET (1 .. Len(q))
         /\ IsFiniteSet(Occurrences(q, x)) /\ Count(q, x) \in Nat
<1>1. Occurrences(q, x) \in SUBSET (1 .. Len(q)) /\ Len(q) \in Nat
  BY LenProperties DEF Occurrences
<1>2. IsFiniteSet(1 .. Len(q))
  BY <1>1, Positions
<1>3. IsFiniteSet(Occurrences(q, x))
  BY <1>1, <1>2, FS_Subset
<1> QED BY <1>1, <1>3, FS_CardinalityType DEF Count

\* An append adds one of its key.
LEMMA CountAppend ==
  ASSUME NEW S, NEW q \in Seq(S), NEW e \in S, NEW x
  PROVE  Count(Append(q, e), x) = Count(q, x) + (IF x = e THEN 1 ELSE 0)
<1> DEFINE n == Len(q) + 1
           O == Occurrences(q, x)
           P == Occurrences(Append(q, e), x)
<1>1. Len(q) \in Nat /\ DOMAIN q = 1 .. Len(q) /\ DOMAIN Append(q, e) = 1 .. n
  BY LenProperties, AppendProperties
<1>2. O \in SUBSET (1 .. Len(q)) /\ IsFiniteSet(O) /\ Cardinality(O) \in Nat
  BY CountType DEF Count
<1>3. CASE x = e
  <2>1. P = O \cup {n}
    BY <1>1, <1>3, AppendProperties DEF Occurrences
  <2>2. n \notin O
    BY <1>1, <1>2
  <2>3. Cardinality(O \cup {n}) = Cardinality(O) + 1
    <3> HIDE DEF O, n
    <3> QED BY <1>2, <2>2, FS_AddElement
  <2> QED BY <1>3, <2>1, <2>3 DEF Count
<1>4. CASE x # e
  <2>1. P = O
    BY <1>1, <1>4, AppendProperties DEF Occurrences
  <2> QED BY <1>2, <1>4, <2>1 DEF Count
<1> QED BY <1>3, <1>4

\* A tail has one less of the key that was first.
LEMMA CountTail ==
  ASSUME NEW S, NEW q \in Seq(S), q # <<>>, NEW x
  PROVE  Count(q, x) = Count(Tail(q), x) + (IF x = Head(q) THEN 1 ELSE 0)
<1> DEFINE O == Occurrences(q, x)
           T == Occurrences(Tail(q), x)
           f == [i \in T |-> i + 1]
<1>1. /\ Tail(q) \in Seq(S) /\ Len(q) \in Nat \ {0} /\ Len(Tail(q)) = Len(q) - 1
      /\ DOMAIN q = 1 .. Len(q) /\ DOMAIN Tail(q) = 1 .. (Len(q) - 1)
      /\ \A i \in 1 .. (Len(q) - 1) : Tail(q)[i] = q[i + 1]
  BY EmptySeq, LenProperties, HeadTailProperties
<1>2. /\ O \in SUBSET (1 .. Len(q)) /\ IsFiniteSet(O) /\ Cardinality(O) \in Nat
      /\ T \in SUBSET (1 .. (Len(q) - 1)) /\ IsFiniteSet(T) /\ Cardinality(T) \in Nat
  BY <1>1, CountType DEF Count
<1>3. f \in Bijection(T, O \ {1})
  <2>1. \A i \in T : i + 1 \in O \ {1}
    BY <1>1, <1>2 DEF Occurrences
  <2>2. \A i \in O \ {1} : i - 1 \in T /\ i = (i - 1) + 1
    BY <1>1, <1>2 DEF Occurrences
  <2>3. f \in [T -> O \ {1}]
    BY <2>1
  <2>4. \A a, b \in T : f[a] = f[b] => a = b
    BY <1>2
  <2>5. \A i \in O \ {1} : \E a \in T : f[a] = i
    BY <2>2
  <2> QED BY <2>3, <2>4, <2>5 DEF Bijection, Injection, Surjection, IsInjective
<1>4. Cardinality(O \ {1}) = Cardinality(T)
  <2> HIDE DEF f, O, T
  <2>1. ExistsBijection(T, O \ {1})
    BY <1>3 DEF ExistsBijection
  <2> QED BY <1>2, <2>1, FS_Bijection
<1>5. 1 \in O <=> x = Head(q)
  BY <1>1 DEF Occurrences
<1>6. Cardinality(O \ {1}) = IF 1 \in O THEN Cardinality(O) - 1 ELSE Cardinality(O)
  <2> HIDE DEF O
  <2> QED BY <1>2, FS_RemoveElement
<1> QED BY <1>2, <1>4, <1>5, <1>6 DEF Count

\* An append to a capped queue keeps its cap, and what it counts: the arrival,
\* and the oldest one that a full queue lets go.
LEMMA AppendCapped ==
  ASSUME NEW q \in SeqOf(Events, maxPendingEvents), NEW e \in Events, NEW x
  PROVE  /\ appendEventCapped(q, e) \in SeqOf(Events, maxPendingEvents)
         /\ Len(q) < maxPendingEvents =>
              Count(appendEventCapped(q, e), x) = Count(q, x) + (IF x = e THEN 1 ELSE 0)
         /\ ~(Len(q) < maxPendingEvents) =>
              /\ Head(q) \in Events
              /\ Count(appendEventCapped(q, e), x) + (IF x = Head(q) THEN 1 ELSE 0)
                   = Count(q, x) + (IF x = e THEN 1 ELSE 0)
<1> DEFINE out == Append(q, e)
<1>0. maxPendingEvents \in Nat \ {0}
  BY TurnAssumption
<1>1. q \in Seq(Events) /\ Len(q) \in Nat /\ Len(q) <= maxPendingEvents
  BY <1>0, SeqOfIsSeq, LenProperties
<1>2. /\ out \in Seq(Events) /\ out # <<>> /\ Len(out) = Len(q) + 1
      /\ Tail(out) \in Seq(Events) /\ Len(Tail(out)) = Len(q)
  BY <1>1, AppendProperties, HeadTailProperties
<1>3. Count(out, x) = Count(q, x) + (IF x = e THEN 1 ELSE 0)
  BY <1>1, CountAppend
<1>4. Count(out, x) \in Nat /\ Count(q, x) \in Nat /\ Count(Tail(out), x) \in Nat
  BY <1>1, <1>2, CountType
<1>5. CASE Len(q) < maxPendingEvents
  <2>1. appendEventCapped(q, e) = out /\ Len(out) <= maxPendingEvents
    BY <1>0, <1>1, <1>2, <1>5 DEF appendEventCapped
  <2> QED BY <1>0, <1>2, <1>3, <1>5, <2>1, SeqOfIsSeq
<1>6. CASE ~(Len(q) < maxPendingEvents)
  <2>1. appendEventCapped(q, e) = Tail(out)
    BY <1>0, <1>1, <1>2, <1>6 DEF appendEventCapped
  <2>2. Tail(out) \in SeqOf(Events, maxPendingEvents)
    BY <1>0, <1>1, <1>2, SeqOfIsSeq
  <2>3. q # <<>>
    BY <1>0, <1>1, <1>6
  <2>4. Head(q) \in Events /\ Head(out) = Head(q)
    BY <1>1, <2>3, HeadTailProperties, HeadTailAppend
  <2>5. Count(out, x) = Count(Tail(out), x) + (IF x = Head(out) THEN 1 ELSE 0)
    BY <1>2, CountTail
  <2> QED BY <1>3, <1>4, <1>6, <2>1, <2>2, <2>4, <2>5
<1> QED BY <1>5, <1>6

\* The rank of a position in a set of positions grows with the position, from 1
\* to the size of the set.
LEMMA Ranks ==
  ASSUME NEW n \in Nat, NEW K \in SUBSET (1 .. n)
  PROVE  /\ IsFiniteSet(K) /\ Cardinality(K) \in Nat
         /\ \A i \in K : Cardinality(Upto(K, i)) \in 1 .. Cardinality(K)
         /\ \A i, j \in K : Cardinality(Upto(K, i)) = Cardinality(Upto(K, j)) => i = j
<1>0. IsFiniteSet(1 .. n)
  BY Positions
<1>1. IsFiniteSet(K) /\ Cardinality(K) \in Nat
  BY <1>0, FS_Subset, FS_CardinalityType
<1>2. ASSUME NEW i \in K
      PROVE  /\ IsFiniteSet(Upto(K, i)) /\ Cardinality(Upto(K, i)) \in 1 .. Cardinality(K)
  <2>1. Upto(K, i) \in SUBSET K /\ i \in Upto(K, i)
    BY DEF Upto
  <2>2. /\ IsFiniteSet(Upto(K, i)) /\ Cardinality(Upto(K, i)) <= Cardinality(K)
        /\ Cardinality(Upto(K, i)) \in Nat
    BY <1>1, <2>1, FS_Subset, FS_CardinalityType
  <2>3. Cardinality(Upto(K, i)) # 0
    BY <2>1, <2>2, FS_EmptySet
  <2> QED BY <1>1, <2>2, <2>3
<1>3. ASSUME NEW i \in K, NEW j \in K, i < j
      PROVE  Cardinality(Upto(K, i)) # Cardinality(Upto(K, j))
  <2>0. \A k \in K : k \in Int
    OBVIOUS
  <2>1. Upto(K, i) \in SUBSET Upto(K, j) /\ j \in Upto(K, j) \ Upto(K, i)
    <3>1. ASSUME NEW k \in K, k <= i PROVE k <= j
      BY <1>3, <2>0, <3>1
    <3>2. j <= j /\ ~(j <= i)
      BY <1>3, <2>0
    <3> QED BY <3>1, <3>2 DEF Upto
  <2>2. Upto(K, i) # Upto(K, j)
    BY <2>1
  <2> QED BY <1>2, <2>1, <2>2, FS_Subset
<1>4. \A i, j \in K : i # j => i < j \/ j < i
  OBVIOUS
<1> QED BY <1>1, <1>2, <1>3, <1>4

\* A subsequence is a sequence of as many elements as positions, and holds each
\* element that stands at one of them.
LEMMA SubsequenceProperties ==
  ASSUME NEW S, NEW q \in Seq(S), NEW K \in SUBSET (1 .. Len(q)), NEW x
  PROVE  /\ Subsequence(q, K) \in Seq(S)
         /\ Len(Subsequence(q, K)) = Cardinality(K) /\ Cardinality(K) <= Len(q)
         /\ Cardinality({i \in K : q[i] = x}) <= Count(Subsequence(q, K), x)
<1> DEFINE rank == [i \in K |-> Cardinality(Upto(K, i))]
           c == Cardinality(K)
           at == [n \in 1 .. c |-> CHOOSE i \in K : Cardinality(Upto(K, i)) = n]
           out == Subsequence(q, K)
<1>1. /\ Len(q) \in Nat /\ IsFiniteSet(K) /\ c \in Nat
      /\ rank \in [K -> 1 .. c] /\ \A i, j \in K : rank[i] = rank[j] => i = j
  BY LenProperties, Ranks
<1>2. c <= Len(q)
  <2>1. IsFiniteSet(1 .. Len(q)) /\ Cardinality(1 .. Len(q)) = Len(q)
    BY <1>1, Positions
  <2>2. c <= Cardinality(1 .. Len(q))
    BY <2>1, FS_Subset
  <2> QED BY <2>1, <2>2
<1>3. IsFiniteSet(1 .. c) /\ Cardinality(1 .. c) = c
  BY <1>1, Positions
<1>4. rank \in Surjection(K, 1 .. c)
  <2>1. rank \in Injection(K, 1 .. c)
    BY <1>1 DEF Injection, IsInjective
  <2> HIDE DEF rank
  <2> QED BY <1>3, <2>1, FS_Injection
<1>5. \A n \in 1 .. c : at[n] \in K /\ rank[at[n]] = n
  <2>1. ASSUME NEW n \in 1 .. c PROVE \E i \in K : Cardinality(Upto(K, i)) = n
    BY <1>4 DEF Surjection
  <2> QED BY <2>1
<1>6. out = [n \in 1 .. c |-> q[at[n]]]
  BY DEF Subsequence
<1>7. \A n \in 1 .. c : q[at[n]] \in S
  BY <1>5, ElementOfSeq
<1>8. out \in Seq(S) /\ Len(out) = c
  <2> HIDE DEF at, out, c
  <2> QED BY <1>1, <1>6, <1>7
<1>9. Cardinality({i \in K : q[i] = x}) <= Count(out, x)
  <2> DEFINE P == {i \in K : q[i] = x}
             f == [i \in P |-> rank[i]]
  <2>1. \A i \in K : at[rank[i]] = i
    BY <1>1, <1>5
  <2>2. ASSUME NEW i \in P PROVE rank[i] \in Occurrences(out, x)
    <3>1. rank[i] \in 1 .. c /\ at[rank[i]] = i /\ q[i] = x
      BY <1>1, <2>1
    <3> HIDE DEF rank, at, c, out, P
    <3>2. rank[i] \in DOMAIN out /\ out[rank[i]] = x
      BY <1>6, <3>1
    <3> QED BY <3>2 DEF Occurrences
  <2>3. f \in Injection(P, Occurrences(out, x))
    BY <1>1, <2>2 DEF Injection, IsInjective
  <2>4. IsFiniteSet(Occurrences(out, x))
    BY <1>8, CountType
  <2> HIDE DEF P, f
  <2>5. Cardinality(P) <= Cardinality(Occurrences(out, x))
    BY <2>3, <2>4, FS_Injection
  <2> QED BY <2>5 DEF Count, P
<1> QED BY <1>2, <1>8, <1>9

\* Draining removes no more of a key than were rendered.
LEMMA DrainKeeps ==
  ASSUME NEW q \in SeqOf(Events, maxPendingEvents),
         NEW r \in SeqOf(Events, maxPendingEvents), NEW x
  PROVE  /\ drainRenderedEvents(q, r) \in SeqOf(Events, maxPendingEvents)
         /\ Count(drainRenderedEvents(q, r), x) + Count(r, x) >= Count(q, x)
<1> DEFINE O == Occurrences(q, x)
           Rank(e, i) == Cardinality(Upto(Occurrences(q, e), i))
           K == {i \in DOMAIN q : Rank(q[i], i) > Count(r, q[i])}
           D == {i \in O : Rank(x, i) <= Count(r, x)}
           out == drainRenderedEvents(q, r)
<1>0. maxPendingEvents \in Nat
  BY TurnAssumption
<1>1. /\ q \in Seq(Events) /\ r \in Seq(Events) /\ Len(q) \in Nat /\ Len(q) <= maxPendingEvents
      /\ DOMAIN q = 1 .. Len(q)
  BY <1>0, SeqOfIsSeq, LenProperties
<1>2. /\ O \in SUBSET (1 .. Len(q)) /\ IsFiniteSet(O) /\ Count(r, x) \in Nat
      /\ Count(q, x) = Cardinality(O) /\ Count(q, x) \in Nat
  BY <1>1, CountType DEF Count
<1>3. K \in SUBSET (1 .. Len(q)) /\ out = Subsequence(q, K)
  BY <1>1 DEF drainRenderedEvents
<1>4. /\ out \in Seq(Events) /\ Len(out) = Cardinality(K) /\ Cardinality(K) <= Len(q)
      /\ Cardinality({i \in K : q[i] = x}) <= Count(out, x)
  <2> HIDE DEF K, out
  <2> QED BY <1>1, <1>3, SubsequenceProperties
<1>5. out \in SeqOf(Events, maxPendingEvents)
  <2>1. Len(out) \in Nat /\ Len(out) <= maxPendingEvents
    <3> HIDE DEF K, out
    <3> QED BY <1>0, <1>1, <1>4, LenProperties
  <2> QED BY <1>0, <1>4, <2>1, SeqOfIsSeq
<1>6. /\ \A i \in O : Rank(x, i) \in Nat \ {0}
      /\ \A i, j \in O : Rank(x, i) = Rank(x, j) => i = j
  <2>1. \A i \in O : Rank(x, i) = Cardinality(Upto(O, i))
    OBVIOUS
  <2> HIDE DEF O
  <2>2. /\ \A i \in O : Cardinality(Upto(O, i)) \in 1 .. Cardinality(O)
        /\ \A i, j \in O : Cardinality(Upto(O, i)) = Cardinality(Upto(O, j)) => i = j
    BY <1>1, <1>2, Ranks
  <2> HIDE DEF Rank
  <2> QED BY <1>2, <2>1, <2>2
<1>7. {i \in K : q[i] = x} = O \ D
  <2>1. ASSUME NEW i PROVE i \in O <=> i \in DOMAIN q /\ q[i] = x
    BY DEF Occurrences
  <2>2. ASSUME NEW i \in O PROVE (Rank(x, i) > Count(r, x)) <=> ~(Rank(x, i) <= Count(r, x))
    <3> HIDE DEF Rank, O
    <3> QED BY <1>2, <1>6
  <2> HIDE DEF Rank, O
  <2> QED BY <2>1, <2>2
<1>8. Cardinality(D) <= Count(r, x) /\ Cardinality(D) \in Nat
  <2> DEFINE f == [i \in D |-> Rank(x, i)]
  <2>1. f \in Injection(D, 1 .. Count(r, x))
    <3>1. \A i \in D : Rank(x, i) \in 1 .. Count(r, x)
      <4> HIDE DEF Rank, O
      <4> QED BY <1>2, <1>6
    <3>2. \A i, j \in D : Rank(x, i) = Rank(x, j) => i = j
      <4> HIDE DEF Rank, O
      <4> QED BY <1>6
    <3> QED BY <3>1, <3>2 DEF Injection, IsInjective
  <2>2. IsFiniteSet(1 .. Count(r, x)) /\ Cardinality(1 .. Count(r, x)) = Count(r, x)
    BY <1>2, Positions
  <2>3. IsFiniteSet(D)
    BY <1>2, FS_Subset
  <2> HIDE DEF D, f
  <2> QED BY <2>1, <2>2, <2>3, FS_Injection, FS_CardinalityType
<1>9. Cardinality(O \ D) = Count(q, x) - Cardinality(D)
  <2>1. O \cap D = D
    OBVIOUS
  <2> HIDE DEF O, D
  <2>2. Cardinality(O \ D) = Cardinality(O) - Cardinality(O \cap D)
    BY <1>2, FS_Difference
  <2> QED BY <1>2, <2>1, <2>2
<1>10. Count(out, x) \in Nat
  BY <1>4, CountType
<1>11. Cardinality(O \ D) <= Count(out, x)
  <2> HIDE DEF O, D, K, out
  <2> QED BY <1>4, <1>7
<1> HIDE DEF O, D, K, out
<1>12. Count(out, x) + Count(r, x) >= Count(q, x)
  BY <1>2, <1>8, <1>9, <1>10, <1>11
<1> QED BY <1>5, <1>12 DEF out

----------------------------------------------------------------------------
(* The inductive invariant, first the types. *)

PassPCs == {"create", "submit", "stamp", "drain", "wait", "handoff", "synthetic", "finish",
            "clear", "patch"}
Passes == [pc : PassPCs, why : {"pod", "turn", "respawn", "agent"} \cup Stops, text : TurnIds,
           events : SeqOf(Events, maxPendingEvents), marker : Stages \X Pods, turn : TurnIds]

\* A pass carries what it read, and a pass that stops or re-arms knows why.
PassTyped(r) ==
  \/ r = Idle
  \/ /\ r \in Passes
     /\ r.pc \in {"wait", "handoff", "synthetic", "finish"} => r.why \in Stops
     /\ r.pc \in {"clear", "patch"} => r.why \in Stops \cup {"respawn", "agent"}

\* A turn that is not being probed has no probes to its name.
AnnTyped == ann \in Annotations /\ (~ann.probed => ann.attempts = 0)

StTyped == st \in Status
NotesTyped == notes \in Journal
WrTyped == wr \in Wrapper
IdsTyped == ids \in [pod : Pods, turn : TurnIds, events : [Events -> 0 .. MaxArrivals]]
NetTyped == net \subseteq Turns
RecTyped == PassTyped(rec)
WatchTyped == pw = Idle \/ pw \in [pc : {"stamp", "work", "delete"}, id : Pods, ready : BOOLEAN]
Calls == [pc : {"usage", "text", "result", "budget"}, turn : Turns, recorded : BOOLEAN]
CallbackTyped == cb \in [Handlers -> {Idle} \cup Calls]
CountsTyped ==
  /\ overlap \subseteq Turns /\ window \in Window
  /\ told \in [Events -> Nat] /\ dropped \in [Events -> Nat]
LeftTyped == left \in 0 .. MaxFaults

Typed ==
  /\ StTyped /\ AnnTyped /\ NotesTyped /\ WrTyped /\ IdsTyped /\ NetTyped
  /\ RecTyped /\ WatchTyped /\ CallbackTyped /\ CountsTyped /\ LeftTyped

LEMMA TypedOK == Typed => TypeOK
BY DEF Typed, TypeOK, StTyped, AnnTyped, NotesTyped, WrTyped, IdsTyped, NetTyped, RecTyped,
       WatchTyped, CallbackTyped, CountsTyped, LeftTyped, PassTyped, Passes, PassPCs, Idle, Calls

\* Zero is no pod and no turn.
LEMMA Numbers ==
  /\ 0 \in Pods /\ 0 \in TurnIds /\ Turns = TurnIds \ {0} /\ 1 \in Stages
  /\ stallProbeMaxAttempts \in Nat \ {0} /\ AgentStopReArmCap \in Nat /\ MaxArrivals \in Nat
  /\ 0 \in 0 .. AgentStopReArmCap /\ {0, 1} \subseteq 0 .. stallProbeMaxAttempts
BY TurnAssumption DEF Pods, TurnIds, Turns, Stages

\* A fault is one less to come.
LEMMA FaultTyped == ASSUME LeftTyped, NEW f, Fault(f) \/ UNCHANGED left PROVE LeftTyped'
BY TurnAssumption DEF LeftTyped, Fault

\* A deleted pod leaves no wrapper, and at most the report of its turn.
LEMMA DeleteTyped ==
  ASSUME WrTyped, NetTyped, deleteWrapper
  PROVE  WrTyped' /\ NetTyped'
BY Numbers DEF WrTyped, NetTyped, deleteWrapper, Wrapper, NoWrapper

\* A cleared turn has no probes.
LEMMA ClearedTyped ==
  ASSUME AnnTyped, ann' = clearedTurn(ann) PROVE AnnTyped'
<1>1. 0 \in TurnIds /\ 0 \in 0 .. stallProbeMaxAttempts
  BY Numbers
<1>2. ann' \in Annotations
  BY <1>1 DEF AnnTyped, clearedTurn, Annotations
<1>3. ann'.attempts = 0
  BY DEF AnnTyped, clearedTurn, Annotations
<1> QED BY <1>2, <1>3 DEF AnnTyped

\* Probes of a turn are within the ladder, and none are kept for a turn not probed.
LEMMA ProbesTyped ==
  ASSUME AnnTyped, NEW p \in BOOLEAN, NEW n \in 0 .. stallProbeMaxAttempts, ~p => n = 0,
         NEW s \in BOOLEAN, ann' = [ann EXCEPT !.stalled = s, !.probed = p, !.attempts = n]
  PROVE  AnnTyped'
<1>1. ann' \in Annotations
  BY DEF AnnTyped, Annotations
<1>2. ann'.probed = p /\ ann'.attempts = n
  BY DEF AnnTyped, Annotations
<1> QED BY <1>1, <1>2 DEF AnnTyped

\* A Task without clocks, and one whose last turn is forgotten.
LEMMA ResetTyped ==
  ASSUME NEW s \in Status PROVE noPodClocks(s) \in Status /\ clearLastTurn(s) \in Status
BY Numbers DEF noPodClocks, clearLastTurn, Status

\* What a pass re-arms, by why it stopped.
LEMMA ReArmTyped ==
  ASSUME Typed, reArm
  PROVE  StTyped'
<1> DEFINE s == noPodClocks(st)
<1>1. s \in Status /\ clearLastTurn(s) \in Status
  BY ResetTyped DEF Typed, StTyped
<1>2. rec.why \in Stops \cup {"respawn", "agent"}
  BY DEF Typed, RecTyped, PassTyped, reArm, Idle
<1>3. CASE rec.why = "respawn"
  BY <1>1, <1>3 DEF reArm, Stops, StTyped
<1>4. CASE rec.why \in Stops
  BY <1>1, <1>4 DEF reArm, Stops, StTyped
<1>5. CASE rec.why = "agent"
  <2>1. st' = [clearLastTurn(s) EXCEPT !.agentStops = IF @ < AgentStopReArmCap THEN @ + 1 ELSE @]
    BY <1>5 DEF reArm, Stops
  <2> HIDE DEF s
  <2> QED BY <1>1, <2>1, TurnAssumption DEF Status, StTyped
<1> QED BY <1>2, <1>3, <1>4, <1>5

\* A park writes the status, the pod and the annotations.
LEMMA ParkTyped ==
  ASSUME Typed, ParkTask
  PROVE  StTyped' /\ WrTyped' /\ NetTyped' /\ AnnTyped' /\ LeftTyped'
<1>1. StTyped'
  BY ResetTyped DEF Typed, ParkTask, StTyped, Status
<1>2. WrTyped' /\ NetTyped'
  BY DeleteTyped DEF Typed, ParkTask
<1>3. AnnTyped'
  BY ClearedTyped DEF Typed, ParkTask, AnnTyped
<1>4. LeftTyped'
  BY FaultTyped DEF Typed, ParkTask
<1> QED BY <1>1, <1>2, <1>3, <1>4

\* A pass begins with what the Task is now.
LEMMA PassOfTyped ==
  ASSUME Typed, NEW pc, NEW why, PassOf(pc, why),
         <<pc, why>> \in {<<"create", "pod">>, <<"submit", "turn">>, <<"wait", "ttl">>,
                          <<"wait", "stall">>, <<"clear", "agent">>, <<"patch", "respawn">>}
  PROVE  RecTyped'
<1>1. /\ pc \in PassPCs /\ why \in {"pod", "turn", "respawn", "agent"} \cup Stops
      /\ pc \in {"wait", "handoff", "synthetic", "finish"} => why \in Stops
      /\ pc \in {"clear", "patch"} => why \in Stops \cup {"respawn", "agent"}
  BY DEF PassPCs, Stops
<1>2. st.text \in TurnIds /\ st.pending \in SeqOf(Events, maxPendingEvents)
      /\ turn0Marker \in Stages \X Pods /\ 0 \in TurnIds
  BY TurnAssumption DEF Typed, StTyped, Status, turn0Marker, TurnIds
<1> QED BY <1>1, <1>2 DEF PassOf, RecTyped, PassTyped, Passes

\* A pass that goes on keeps what it read.
LEMMA GoToTyped ==
  ASSUME RecTyped, rec # Idle, NEW pc \in PassPCs, GoTo(pc),
         pc \in {"wait", "handoff", "synthetic", "finish"} => rec.why \in Stops,
         pc \in {"clear", "patch"} => rec.why \in Stops \cup {"respawn", "agent"}
  PROVE  RecTyped'
BY DEF RecTyped, PassTyped, Passes, GoTo

\* A pass under way is at a step of its own, and knows why it stops.
LEMMA PassMoves ==
  ASSUME RecTyped, rec.pc # "idle"
  PROVE  /\ rec # Idle
         /\ {"drain", "handoff", "synthetic", "finish", "clear", "patch"} \subseteq PassPCs
         /\ rec.pc \in {"wait", "handoff", "synthetic", "finish"} => rec.why \in {"ttl", "stall"}
         /\ rec.pc \in {"clear", "patch"} => rec.why \in {"ttl", "stall", "respawn", "agent"}
         /\ Stops = {"ttl", "stall"}
BY DEF RecTyped, PassTyped, PassPCs, Stops, Idle

\* A new pod takes the next number.
LEMMA CreateTyped ==
  ASSUME Typed, createPod PROVE WrTyped' /\ IdsTyped'
<1>1. CASE wr.phase # "none"
  BY <1>1 DEF Typed, createPod, WrTyped, IdsTyped
<1>2. CASE wr.phase = "none"
  <2>1. ids.pod + 1 \in Pods
    BY <1>2, TurnAssumption DEF Typed, createPod, IdsTyped, Pods
  <2>2. rec.marker[1] \in Stages
    BY DEF Typed, createPod, RecTyped, PassTyped, Passes, Idle
  <2>3. WrTyped'
    BY <1>2, <2>1, <2>2, Numbers DEF createPod, WrTyped, Wrapper, NoWrapper
  <2>4. IdsTyped'
    BY <1>2, <2>1 DEF Typed, createPod, IdsTyped
  <2> QED BY <2>3, <2>4
<1> QED BY <1>1, <1>2

\* A submitted turn takes the next number, and is told what the pass had read.
LEMMA SubmitTyped ==
  ASSUME Typed, SubmitTurn PROVE WrTyped' /\ IdsTyped' /\ RecTyped' /\ CountsTyped'
<1>1. ids.turn + 1 \in TurnIds
  BY TurnAssumption DEF Typed, SubmitTurn, IdsTyped, TurnIds
<1>2. rec \in Passes
  BY DEF Typed, SubmitTurn, RecTyped, PassTyped, Idle
<1>3. \A e \in Events : Count(rec.events, e) \in Nat
  <2>1. rec.events \in Seq(Events)
    BY <1>2, SeqOfIsSeq, TurnAssumption DEF Passes
  <2> QED BY <2>1, CountType
<1>4. WrTyped'
  BY <1>1 DEF Typed, SubmitTurn, WrTyped, Wrapper
<1>5. IdsTyped'
  BY <1>1 DEF Typed, SubmitTurn, IdsTyped
<1>6. RecTyped'
  BY <1>1, <1>2 DEF SubmitTurn, RecTyped, PassTyped, Passes, PassPCs
<1>7. CountsTyped'
  BY <1>3 DEF Typed, SubmitTurn, CountsTyped
<1> QED BY <1>4, <1>5, <1>6, <1>7

\* A drained queue is a queue.
LEMMA DrainTyped ==
  ASSUME Typed, drainPendingEvents PROVE StTyped'
<1>1. rec \in Passes
  BY DEF Typed, drainPendingEvents, RecTyped, PassTyped, Idle
<1>2. drainRenderedEvents(st.pending, rec.events) \in SeqOf(Events, maxPendingEvents)
  BY <1>1, DrainKeeps DEF Typed, StTyped, Status, Passes
<1> QED BY <1>2 DEF Typed, drainPendingEvents, StTyped, Status

\* An arrival is queued and counted.
LEMMA ArrivalTyped ==
  ASSUME Typed, AppendTaskEvent PROVE StTyped' /\ IdsTyped' /\ CountsTyped'
<1>1. PICK e \in Events :
        /\ ids.events[e] < MaxArrivals
        /\ ids' = [ids EXCEPT !.events[e] = @ + 1]
        /\ st' = [st EXCEPT !.pending = appendEventCapped(@, e)]
        /\ dropped' = IF Len(st.pending) < maxPendingEvents THEN dropped
                      ELSE [dropped EXCEPT ![Head(st.pending)] = @ + 1]
  BY DEF AppendTaskEvent
<1>2. st.pending \in SeqOf(Events, maxPendingEvents)
  BY DEF Typed, StTyped, Status
<1>3. /\ appendEventCapped(st.pending, e) \in SeqOf(Events, maxPendingEvents)
      /\ ~(Len(st.pending) < maxPendingEvents) => Head(st.pending) \in Events
  BY <1>2, AppendCapped
<1>4. StTyped'
  BY <1>1, <1>3 DEF Typed, StTyped, Status
<1>5. IdsTyped'
  <2>1. ids.events[e] + 1 \in 0 .. MaxArrivals
    BY <1>1, Numbers DEF Typed, IdsTyped
  <2> QED BY <1>1, <2>1 DEF Typed, IdsTyped
<1>6. CountsTyped'
  <2>1. UNCHANGED <<overlap, window, told>>
    BY DEF AppendTaskEvent
  <2>2. dropped' \in [Events -> Nat]
    BY <1>1, <1>3 DEF Typed, CountsTyped
  <2> QED BY <2>1, <2>2 DEF Typed, CountsTyped
<1> QED BY <1>4, <1>5, <1>6

\* The next state starts without clocks, text and stops.
LEMMA EnterTyped ==
  ASSUME Typed, Enter PROVE StTyped'
<1> DEFINE s == clearLastTurn(noPodClocks(st))
<1>1. s \in Status
  BY ResetTyped DEF Typed, StTyped
<1>2. s.stage = st.stage /\ st.stage \in Stages /\ st.stage + 1 \in Stages
  BY TurnAssumption DEF Typed, StTyped, Status, Enter, Stages, clearLastTurn, noPodClocks
<1>3. st' = [s EXCEPT !.stage = @ + 1, !.agentStops = 0]
  BY DEF Enter
<1> HIDE DEF s
<1>4. 0 \in 0 .. AgentStopReArmCap
  BY Numbers
<1> QED BY <1>1, <1>2, <1>3, <1>4 DEF StTyped, Status

\* The reconciler keeps the types.
LEMMA PassKeepsTypes ==
  ASSUME Typed, Pass PROVE Typed'
<1> USE DEF Typed
<1>1. CASE parkNoOutcome
  <2>1. StTyped' /\ WrTyped' /\ NetTyped' /\ AnnTyped' /\ LeftTyped'
    BY <1>1, ParkTyped DEF parkNoOutcome
  <2>2. NotesTyped' /\ IdsTyped' /\ RecTyped' /\ WatchTyped' /\ CallbackTyped' /\ CountsTyped'
    BY <1>1 DEF parkNoOutcome, taskVars, NotesTyped, IdsTyped, RecTyped, WatchTyped, CallbackTyped, CountsTyped
  <2> QED BY <2>1, <2>2
<1>25. CASE reconcileCaps
  <2>1. StTyped' /\ WrTyped' /\ NetTyped' /\ AnnTyped' /\ LeftTyped'
    BY <1>25, ParkTyped DEF reconcileCaps
  <2>2. NotesTyped' /\ IdsTyped' /\ RecTyped' /\ WatchTyped' /\ CallbackTyped' /\ CountsTyped'
    BY <1>25 DEF reconcileCaps, NotesTyped, IdsTyped, RecTyped, WatchTyped, CallbackTyped, CountsTyped
  <2> QED BY <2>1, <2>2
<1>2. CASE respawnLostPod
  <2>1. WrTyped' /\ NetTyped'
    BY <1>2, DeleteTyped DEF respawnLostPod
  <2>2. RecTyped'
    BY <1>2, PassOfTyped DEF respawnLostPod
  <2>3. StTyped' /\ AnnTyped' /\ NotesTyped' /\ IdsTyped' /\ WatchTyped' /\ CallbackTyped' /\ CountsTyped' /\ LeftTyped'
    BY <1>2 DEF respawnLostPod, taskVars, StTyped, AnnTyped, NotesTyped, IdsTyped, WatchTyped, CallbackTyped, CountsTyped, LeftTyped
  <2> QED BY <2>1, <2>2, <2>3
<1>3. CASE stopAfterAgentHandoff
  <2>1. WrTyped' /\ NetTyped'
    BY <1>3, DeleteTyped DEF stopAfterAgentHandoff
  <2>2. RecTyped'
    BY <1>3, PassOfTyped DEF stopAfterAgentHandoff
  <2>3. StTyped' /\ AnnTyped' /\ NotesTyped' /\ IdsTyped' /\ WatchTyped' /\ CallbackTyped' /\ CountsTyped' /\ LeftTyped'
    BY <1>3 DEF stopAfterAgentHandoff, taskVars, StTyped, AnnTyped, NotesTyped, IdsTyped, WatchTyped, CallbackTyped, CountsTyped, LeftTyped
  <2> QED BY <2>1, <2>2, <2>3
<1>4. CASE ttlStop
  <2>1. RecTyped'
    BY <1>4, PassOfTyped DEF ttlStop
  <2>2. StTyped' /\ AnnTyped' /\ NotesTyped' /\ WrTyped' /\ IdsTyped' /\ NetTyped' /\ WatchTyped' /\ CallbackTyped' /\ CountsTyped' /\ LeftTyped'
    BY <1>4 DEF ttlStop, taskVars, StTyped, AnnTyped, NotesTyped, WrTyped, IdsTyped, NetTyped, WatchTyped, CallbackTyped, CountsTyped, LeftTyped
  <2> QED BY <2>1, <2>2
<1>5. CASE sendStallProbe
  <2>1. AnnTyped'
    <3>1. CASE Running
      <4>1. ann \in Annotations /\ ann.attempts = 0 /\ ann.stalled \in BOOLEAN
        BY <1>5 DEF sendStallProbe, AnnTyped, Annotations
      <4>2. ann' = [ann EXCEPT !.probed = TRUE, !.attempts = ann.attempts + 1]
        BY <1>5, <3>1 DEF sendStallProbe
      <4>3. ann.attempts + 1 \in 0 .. stallProbeMaxAttempts
        BY <4>1, Numbers
      <4>4. ann' \in Annotations
        BY <4>1, <4>2, <4>3 DEF Annotations
      <4>5. ann'.probed
        BY <4>1, <4>2 DEF Annotations
      <4> QED BY <4>4, <4>5 DEF AnnTyped
    <3>2. CASE ~Running
      BY <1>5, <3>2 DEF sendStallProbe, AnnTyped
    <3> QED BY <3>1, <3>2
  <2>2. RecTyped'
    BY <1>5, PassOfTyped DEF sendStallProbe, RecTyped
  <2>3. StTyped' /\ NotesTyped' /\ WrTyped' /\ IdsTyped' /\ NetTyped' /\ WatchTyped' /\ CallbackTyped' /\ CountsTyped' /\ LeftTyped'
    BY <1>5 DEF sendStallProbe, taskVars, StTyped, NotesTyped, WrTyped, IdsTyped, NetTyped, WatchTyped, CallbackTyped, CountsTyped, LeftTyped
  <2> QED BY <2>1, <2>2, <2>3
<1>6. CASE recordProbeAnswer
  <2>1. AnnTyped'
    BY <1>6, Numbers, ProbesTyped DEF recordProbeAnswer
  <2>2. StTyped' /\ NotesTyped' /\ WrTyped' /\ IdsTyped' /\ NetTyped' /\ RecTyped' /\ WatchTyped' /\ CallbackTyped' /\ CountsTyped' /\ LeftTyped'
    BY <1>6 DEF recordProbeAnswer, taskVars, StTyped, NotesTyped, WrTyped, IdsTyped, NetTyped, RecTyped, WatchTyped, CallbackTyped, CountsTyped, LeftTyped
  <2> QED BY <2>1, <2>2
<1>7. CASE evaluateStallProbe
  <2>1. AnnTyped'
    BY <1>7, Numbers DEF evaluateStallProbe, AnnTyped, Annotations
  <2>2. StTyped' /\ NotesTyped' /\ WrTyped' /\ IdsTyped' /\ NetTyped' /\ RecTyped' /\ WatchTyped' /\ CallbackTyped' /\ CountsTyped' /\ LeftTyped'
    BY <1>7 DEF evaluateStallProbe, taskVars, StTyped, NotesTyped, WrTyped, IdsTyped, NetTyped, RecTyped, WatchTyped, CallbackTyped, CountsTyped, LeftTyped
  <2> QED BY <2>1, <2>2
<1>8. CASE escalateStall
  <2>1. WrTyped'
    <3>1. CASE UNCHANGED <<wr, net>>
      BY <3>1 DEF WrTyped
    <3>2. CASE /\ wr.turn # 0
               /\ wr' = [wr EXCEPT !.turn = 0, !.hung = FALSE, !.done = @ \cup {wr.turn}]
      <4>1. wr.turn \in Turns /\ 0 \in TurnIds
        BY <3>2, Numbers DEF WrTyped, Wrapper
      <4> QED BY <3>2, <4>1 DEF WrTyped, Wrapper
    <3> QED BY <1>8, <3>1, <3>2 DEF escalateStall
  <2>2. NetTyped'
    BY <1>8, Numbers DEF escalateStall, NetTyped, WrTyped, Wrapper
  <2>3. RecTyped'
    BY <1>8, PassOfTyped DEF escalateStall
  <2>4. StTyped' /\ AnnTyped' /\ NotesTyped' /\ IdsTyped' /\ WatchTyped' /\ CallbackTyped' /\ CountsTyped' /\ LeftTyped'
    BY <1>8 DEF escalateStall, taskVars, StTyped, AnnTyped, NotesTyped, IdsTyped, WatchTyped, CallbackTyped, CountsTyped, LeftTyped
  <2> QED BY <2>1, <2>2, <2>3, <2>4
<1>9. CASE clearStallProbe
  <2>1. AnnTyped'
    <3>1. ann' = [ann EXCEPT !.stalled = ann.stalled, !.probed = FALSE, !.attempts = 0]
      BY <1>9 DEF clearStallProbe, AnnTyped, Annotations
    <3>2. ann.stalled \in BOOLEAN
      BY DEF AnnTyped, Annotations
    <3> QED BY <3>1, <3>2, Numbers, ProbesTyped
  <2>2. StTyped' /\ NotesTyped' /\ WrTyped' /\ IdsTyped' /\ NetTyped' /\ RecTyped' /\ WatchTyped' /\ CallbackTyped' /\ CountsTyped' /\ LeftTyped'
    BY <1>9 DEF clearStallProbe, taskVars, StTyped, NotesTyped, WrTyped, IdsTyped, NetTyped, RecTyped, WatchTyped, CallbackTyped, CountsTyped, LeftTyped
  <2> QED BY <2>1, <2>2
<1>10. CASE ensureStagePodStale
  <2>1. WrTyped' /\ NetTyped'
    BY <1>10, DeleteTyped DEF ensureStagePodStale
  <2>2. StTyped' /\ AnnTyped' /\ NotesTyped' /\ IdsTyped' /\ RecTyped' /\ WatchTyped' /\ CallbackTyped' /\ CountsTyped' /\ LeftTyped'
    BY <1>10 DEF ensureStagePodStale, taskVars, StTyped, AnnTyped, NotesTyped, IdsTyped, RecTyped, WatchTyped, CallbackTyped, CountsTyped, LeftTyped
  <2> QED BY <2>1, <2>2
<1>11. CASE ensureStagePod
  <2>1. RecTyped'
    BY <1>11, PassOfTyped DEF ensureStagePod
  <2>2. StTyped' /\ AnnTyped' /\ NotesTyped' /\ WrTyped' /\ IdsTyped' /\ NetTyped' /\ WatchTyped' /\ CallbackTyped' /\ CountsTyped' /\ LeftTyped'
    BY <1>11 DEF ensureStagePod, taskVars, StTyped, AnnTyped, NotesTyped, WrTyped, IdsTyped, NetTyped, WatchTyped, CallbackTyped, CountsTyped, LeftTyped
  <2> QED BY <2>1, <2>2
<1>12. CASE createPod
  <2>1. WrTyped'
    BY <1>12, CreateTyped
  <2>2. IdsTyped'
    BY <1>12, CreateTyped
  <2>3. RecTyped'
    BY <1>12 DEF createPod, EndPass, RecTyped, PassTyped
  <2>4. StTyped' /\ AnnTyped' /\ NotesTyped' /\ NetTyped' /\ WatchTyped' /\ CallbackTyped' /\ CountsTyped' /\ LeftTyped'
    BY <1>12 DEF createPod, taskVars, StTyped, AnnTyped, NotesTyped, NetTyped, WatchTyped, CallbackTyped, CountsTyped, LeftTyped
  <2> QED BY <2>1, <2>2, <2>3, <2>4
<1>13. CASE reconcilePodStage
  <2>1. RecTyped'
    BY <1>13, PassOfTyped DEF reconcilePodStage
  <2>2. StTyped' /\ AnnTyped' /\ NotesTyped' /\ WrTyped' /\ IdsTyped' /\ NetTyped' /\ WatchTyped' /\ CallbackTyped' /\ CountsTyped' /\ LeftTyped'
    BY <1>13 DEF reconcilePodStage, taskVars, StTyped, AnnTyped, NotesTyped, WrTyped, IdsTyped, NetTyped, WatchTyped, CallbackTyped, CountsTyped, LeftTyped
  <2> QED BY <2>1, <2>2
<1>14. CASE SubmitTurn
  <2>1. WrTyped'
    BY <1>14, SubmitTyped
  <2>2. IdsTyped'
    BY <1>14, SubmitTyped
  <2>3. RecTyped'
    BY <1>14, SubmitTyped
  <2>4. CountsTyped'
    BY <1>14, SubmitTyped
  <2>5. StTyped' /\ AnnTyped' /\ NotesTyped' /\ NetTyped' /\ WatchTyped' /\ CallbackTyped' /\ LeftTyped'
    BY <1>14 DEF SubmitTurn, taskVars, StTyped, AnnTyped, NotesTyped, NetTyped, WatchTyped, CallbackTyped, LeftTyped
  <2> QED BY <2>1, <2>2, <2>3, <2>4, <2>5
<1>15. CASE handleTurnSubmitFailure
  <2>1. RecTyped'
    <3>1. rec \in Passes /\ {"wait"} \subseteq PassPCs /\ {"ttl"} \subseteq Stops
      BY <1>15 DEF handleTurnSubmitFailure, RecTyped, PassTyped, Idle, PassPCs, Stops
    <3>2. CASE rec' = [rec EXCEPT !.pc = "wait", !.why = "ttl"]
      <4>1. rec' \in Passes
        BY <3>1, <3>2 DEF Passes
      <4>2. rec'.pc = "wait" /\ rec'.why = "ttl"
        BY <3>1, <3>2 DEF Passes
      <4> QED BY <3>1, <4>1, <4>2 DEF RecTyped, PassTyped
    <3>3. CASE EndPass
      BY <3>3 DEF EndPass, RecTyped, PassTyped
    <3> QED BY <1>15, <3>2, <3>3 DEF handleTurnSubmitFailure
  <2>2. StTyped' /\ AnnTyped' /\ NotesTyped' /\ WrTyped' /\ IdsTyped' /\ NetTyped' /\ WatchTyped' /\ CallbackTyped' /\ CountsTyped' /\ LeftTyped'
    BY <1>15 DEF handleTurnSubmitFailure, taskVars, StTyped, AnnTyped, NotesTyped, WrTyped, IdsTyped, NetTyped, WatchTyped, CallbackTyped, CountsTyped, LeftTyped
  <2> QED BY <2>1, <2>2
<1>16. CASE handleTransientWrapper
  <2>1. AnnTyped'
    BY <1>16, Numbers DEF handleTransientWrapper, AnnTyped, Annotations, RecTyped, PassTyped, Passes, Idle
  <2>2. WrTyped'
    BY <1>16, DeleteTyped DEF handleTransientWrapper, WrTyped
  <2>3. NetTyped'
    BY <1>16, DeleteTyped DEF handleTransientWrapper, NetTyped
  <2>4. RecTyped'
    <3>1. rec \in Passes /\ {"patch"} \subseteq PassPCs
      BY <1>16 DEF handleTransientWrapper, RecTyped, PassTyped, Idle, PassPCs
    <3>2. CASE rec' = [rec EXCEPT !.pc = "patch", !.why = "respawn"]
      <4>1. rec' \in Passes
        BY <3>1, <3>2 DEF Passes
      <4>2. rec'.pc = "patch" /\ rec'.why = "respawn"
        BY <3>1, <3>2 DEF Passes
      <4> QED BY <3>1, <4>1, <4>2 DEF RecTyped, PassTyped
    <3>3. CASE EndPass
      BY <3>3 DEF EndPass, RecTyped, PassTyped
    <3> QED BY <1>16, <3>2, <3>3 DEF handleTransientWrapper
  <2>5. LeftTyped'
    BY <1>16, FaultTyped DEF handleTransientWrapper
  <2>6. StTyped' /\ NotesTyped' /\ IdsTyped' /\ WatchTyped' /\ CallbackTyped' /\ CountsTyped'
    BY <1>16 DEF handleTransientWrapper, taskVars, StTyped, NotesTyped, IdsTyped, WatchTyped, CallbackTyped, CountsTyped
  <2> QED BY <2>1, <2>2, <2>3, <2>4, <2>5, <2>6
<1>17. CASE submitStageTurn
  <2>1. AnnTyped'
    <3>1. rec \in Passes
      BY <1>17 DEF submitStageTurn, RecTyped, PassTyped, Idle
    <3>2. rec.marker \in (Stages \cup {0}) \X Pods /\ rec.turn \in TurnIds
      BY <3>1 DEF Passes
    <3>3. ann' = [ann EXCEPT !.turn0 = rec.marker, !.turn = rec.turn,
                             !.complete = FALSE, !.stalled = FALSE]
      BY <1>17 DEF submitStageTurn
    <3>4. ann' \in Annotations
      BY <3>2, <3>3 DEF AnnTyped, Annotations
    <3>5. ann'.probed = ann.probed /\ ann'.attempts = ann.attempts
      BY <3>3 DEF AnnTyped, Annotations
    <3> QED BY <3>4, <3>5 DEF AnnTyped
  <2>2. RecTyped'
    BY <1>17, GoToTyped DEF submitStageTurn, Idle, PassPCs
  <2>3. StTyped' /\ NotesTyped' /\ WrTyped' /\ IdsTyped' /\ NetTyped' /\ WatchTyped' /\ CallbackTyped' /\ CountsTyped' /\ LeftTyped'
    BY <1>17 DEF submitStageTurn, taskVars, StTyped, NotesTyped, WrTyped, IdsTyped, NetTyped, WatchTyped, CallbackTyped, CountsTyped, LeftTyped
  <2> QED BY <2>1, <2>2, <2>3
<1>18. CASE drainPendingEvents
  <2>1. StTyped'
    BY <1>18, DrainTyped
  <2>2. RecTyped'
    BY <1>18 DEF drainPendingEvents, EndPass, RecTyped, PassTyped
  <2>3. AnnTyped' /\ NotesTyped' /\ WrTyped' /\ IdsTyped' /\ NetTyped' /\ WatchTyped' /\ CallbackTyped' /\ CountsTyped' /\ LeftTyped'
    BY <1>18 DEF drainPendingEvents, taskVars, AnnTyped, NotesTyped, WrTyped, IdsTyped, NetTyped, WatchTyped, CallbackTyped, CountsTyped, LeftTyped
  <2> QED BY <2>1, <2>2, <2>3
<1>19. CASE waitIdle
  <2>1. RecTyped'
    BY <1>19, GoToTyped, PassMoves DEF waitIdle
  <2>2. StTyped' /\ AnnTyped' /\ NotesTyped' /\ WrTyped' /\ IdsTyped' /\ NetTyped' /\ WatchTyped' /\ CallbackTyped' /\ CountsTyped' /\ LeftTyped'
    BY <1>19 DEF waitIdle, taskVars, StTyped, AnnTyped, NotesTyped, WrTyped, IdsTyped, NetTyped, WatchTyped, CallbackTyped, CountsTyped, LeftTyped
  <2> QED BY <2>1, <2>2
<1>20. CASE waitHandoffNote
  <2>1. NotesTyped'
    BY <1>20 DEF waitHandoffNote, NotesTyped, Journal, WrTyped, Wrapper
  <2>2. RecTyped'
    BY <1>20, GoToTyped, PassMoves DEF waitHandoffNote
  <2>3. StTyped' /\ AnnTyped' /\ WrTyped' /\ IdsTyped' /\ NetTyped' /\ WatchTyped' /\ CallbackTyped' /\ CountsTyped' /\ LeftTyped'
    BY <1>20 DEF waitHandoffNote, taskVars, StTyped, AnnTyped, WrTyped, IdsTyped, NetTyped, WatchTyped, CallbackTyped, CountsTyped, LeftTyped
  <2> QED BY <2>1, <2>2, <2>3
<1>21. CASE writeSyntheticNote
  <2>1. NotesTyped'
    BY <1>21, Numbers DEF writeSyntheticNote, NotesTyped, Journal, RecTyped, PassTyped, Passes, Idle
  <2>2. RecTyped'
    BY <1>21, GoToTyped, PassMoves DEF writeSyntheticNote
  <2>3. StTyped' /\ AnnTyped' /\ WrTyped' /\ IdsTyped' /\ NetTyped' /\ WatchTyped' /\ CallbackTyped' /\ CountsTyped' /\ LeftTyped'
    BY <1>21 DEF writeSyntheticNote, taskVars, StTyped, AnnTyped, WrTyped, IdsTyped, NetTyped, WatchTyped, CallbackTyped, CountsTyped, LeftTyped
  <2> QED BY <2>1, <2>2, <2>3
<1>22. CASE finish
  <2>1. WrTyped' /\ NetTyped'
    BY <1>22, DeleteTyped DEF finish
  <2>2. RecTyped'
    BY <1>22, GoToTyped, PassMoves DEF finish
  <2>3. StTyped' /\ AnnTyped' /\ NotesTyped' /\ IdsTyped' /\ WatchTyped' /\ CallbackTyped' /\ CountsTyped' /\ LeftTyped'
    BY <1>22 DEF finish, taskVars, StTyped, AnnTyped, NotesTyped, IdsTyped, WatchTyped, CallbackTyped, CountsTyped, LeftTyped
  <2> QED BY <2>1, <2>2, <2>3
<1>23. CASE reArm
  <2>1. StTyped'
    BY <1>23, ReArmTyped DEF reArm, StTyped, Status
  <2>2. RecTyped'
    BY <1>23, GoToTyped, PassMoves DEF reArm, EndPass, RecTyped, PassTyped
  <2>3. AnnTyped' /\ NotesTyped' /\ WrTyped' /\ IdsTyped' /\ NetTyped' /\ WatchTyped' /\ CallbackTyped' /\ CountsTyped' /\ LeftTyped'
    BY <1>23 DEF reArm, taskVars, AnnTyped, NotesTyped, WrTyped, IdsTyped, NetTyped, WatchTyped, CallbackTyped, CountsTyped, LeftTyped
  <2> QED BY <2>1, <2>2, <2>3
<1>24. CASE clearTurnAnnotations
  <2>1. AnnTyped'
    BY <1>24, ClearedTyped DEF clearTurnAnnotations
  <2>2. RecTyped'
    BY <1>24, GoToTyped, PassMoves DEF clearTurnAnnotations, EndPass, RecTyped, PassTyped
  <2>3. StTyped' /\ NotesTyped' /\ WrTyped' /\ IdsTyped' /\ NetTyped' /\ WatchTyped' /\ CallbackTyped' /\ CountsTyped' /\ LeftTyped'
    BY <1>24 DEF clearTurnAnnotations, taskVars, StTyped, NotesTyped, WrTyped, IdsTyped, NetTyped, WatchTyped, CallbackTyped, CountsTyped, LeftTyped
  <2> QED BY <2>1, <2>2, <2>3
<1> QED BY <1>1, <1>2, <1>3, <1>4, <1>5, <1>6, <1>7, <1>8, <1>9, <1>10, <1>11, <1>12, <1>13, <1>14, <1>15, <1>16, <1>17, <1>18, <1>19, <1>20, <1>21, <1>22, <1>23, <1>24, <1>25 DEF Pass

\* The pod watcher keeps the types.
LEMMA WatchKeepsTypes ==
  ASSUME Typed, Watch PROVE Typed'
<1> USE DEF Typed
<1>1. CASE WatchRead
  <2>1. WatchTyped'
    BY <1>1 DEF WatchRead, WatchTyped, WrTyped, Wrapper, Running
  <2>2. StTyped' /\ AnnTyped' /\ NotesTyped' /\ WrTyped' /\ IdsTyped' /\ NetTyped' /\ RecTyped' /\ CallbackTyped' /\ CountsTyped' /\ LeftTyped'
    BY <1>1 DEF WatchRead, taskVars, StTyped, AnnTyped, NotesTyped, WrTyped, IdsTyped, NetTyped, RecTyped, CallbackTyped, CountsTyped, LeftTyped
  <2> QED BY <2>1, <2>2
<1>2. CASE StampPodStartedAt
  <2>1. StTyped'
    <3>1. pw.id \in Pods
      BY <1>2 DEF StampPodStartedAt, WatchTyped, Idle
    <3> QED BY <1>2, <3>1 DEF StampPodStartedAt, StTyped, Status
  <2>2. WatchTyped'
    BY <1>2, Numbers DEF StampPodStartedAt, WatchTyped, Idle
  <2>3. AnnTyped' /\ NotesTyped' /\ WrTyped' /\ IdsTyped' /\ NetTyped' /\ RecTyped' /\ CallbackTyped' /\ CountsTyped' /\ LeftTyped'
    BY <1>2 DEF StampPodStartedAt, taskVars, AnnTyped, NotesTyped, WrTyped, IdsTyped, NetTyped, RecTyped, CallbackTyped, CountsTyped, LeftTyped
  <2> QED BY <2>1, <2>2, <2>3
<1>3. CASE StampStageWorkStartedAt
  <2>1. StTyped'
    BY <1>3, Numbers DEF StampStageWorkStartedAt, StTyped, Status
  <2>2. WatchTyped'
    BY <1>3, Numbers DEF StampStageWorkStartedAt, WatchTyped, Idle
  <2>3. AnnTyped' /\ NotesTyped' /\ WrTyped' /\ IdsTyped' /\ NetTyped' /\ RecTyped' /\ CallbackTyped' /\ CountsTyped' /\ LeftTyped'
    BY <1>3 DEF StampStageWorkStartedAt, taskVars, AnnTyped, NotesTyped, WrTyped, IdsTyped, NetTyped, RecTyped, CallbackTyped, CountsTyped, LeftTyped
  <2> QED BY <2>1, <2>2, <2>3
<1>4. CASE failContractMismatch
  <2>1. StTyped' /\ WrTyped' /\ NetTyped' /\ AnnTyped' /\ LeftTyped'
    BY <1>4, ParkTyped DEF failContractMismatch
  <2>2. WatchTyped'
    BY <1>4, Numbers DEF failContractMismatch, WatchTyped, Idle
  <2>3. NotesTyped' /\ IdsTyped' /\ RecTyped' /\ CallbackTyped' /\ CountsTyped'
    BY <1>4 DEF failContractMismatch, taskVars, NotesTyped, IdsTyped, RecTyped, CallbackTyped, CountsTyped
  <2> QED BY <2>1, <2>2, <2>3
<1>5. CASE handleNotReady
  <2>1. StTyped'
    BY <1>5, Numbers DEF handleNotReady, StTyped, Status, noPodClocks
  <2>2. WatchTyped'
    BY <1>5, Numbers DEF handleNotReady, WatchTyped, Idle
  <2>3. LeftTyped'
    BY <1>5, FaultTyped DEF handleNotReady
  <2>4. AnnTyped' /\ NotesTyped' /\ WrTyped' /\ IdsTyped' /\ NetTyped' /\ RecTyped' /\ CallbackTyped' /\ CountsTyped'
    BY <1>5 DEF handleNotReady, taskVars, AnnTyped, NotesTyped, WrTyped, IdsTyped, NetTyped, RecTyped, CallbackTyped, CountsTyped
  <2> QED BY <2>1, <2>2, <2>3, <2>4
<1>6. CASE WatchDelete
  <2>1. WrTyped' /\ NetTyped'
    BY <1>6, DeleteTyped DEF WatchDelete
  <2>2. WatchTyped'
    BY <1>6, Numbers DEF WatchDelete, WatchTyped, Idle
  <2>3. StTyped' /\ AnnTyped' /\ NotesTyped' /\ IdsTyped' /\ RecTyped' /\ CallbackTyped' /\ CountsTyped' /\ LeftTyped'
    BY <1>6 DEF WatchDelete, taskVars, StTyped, AnnTyped, NotesTyped, IdsTyped, RecTyped, CallbackTyped, CountsTyped, LeftTyped
  <2> QED BY <2>1, <2>2, <2>3
<1> QED BY <1>1, <1>2, <1>3, <1>4, <1>5, <1>6 DEF Watch

\* A callback goes on to its next step, or ends.
LEMMA ServedTyped ==
  ASSUME CallbackTyped, NEW h \in Handlers, cb[h].pc # "idle"
  PROVE  /\ cb[h] \in Calls
         /\ \A pc \in {"text", "result", "budget"} : Served(h, pc) => CallbackTyped'
         /\ cb' = [cb EXCEPT ![h] = Idle] => CallbackTyped'
<1>1. cb[h] \in Calls
  BY DEF CallbackTyped, Idle
<1>2. ASSUME NEW pc \in {"text", "result", "budget"}, Served(h, pc) PROVE CallbackTyped'
  <2>1. [cb[h] EXCEPT !.pc = pc] \in Calls
    BY <1>1 DEF Calls
  <2>2. cb' = [cb EXCEPT ![h] = [cb[h] EXCEPT !.pc = pc]]
    BY <1>2 DEF Served
  <2> QED BY <2>1, <2>2 DEF CallbackTyped
<1>3. ASSUME cb' = [cb EXCEPT ![h] = Idle] PROVE CallbackTyped'
  BY <1>3 DEF CallbackTyped
<1> QED BY <1>1, <1>2, <1>3

\* A charge adds one to the turn's count, over all windows together.
Charges(t) == window.n[t] + window.old[t]

LEMMA RollCharges ==
  ASSUME NEW w \in Window, NEW reset \in BOOLEAN, NEW t \in Turns
  PROVE  /\ Roll(w, reset, t) \in Window
         /\ \A u \in Turns :
              Roll(w, reset, t).n[u] + Roll(w, reset, t).old[u]
                = w.n[u] + w.old[u] + (IF u = t THEN 1 ELSE 0)
<1> DEFINE start == IF reset THEN [n |-> Nothing, old |-> [u \in Turns |-> w.old[u] + w.n[u]]] ELSE w
<1>1. start \in Window
  BY DEF Window, Nothing
<1>2. \A u \in Turns : start.n[u] + start.old[u] = w.n[u] + w.old[u]
  BY DEF Window, Nothing
<1>3. Roll(w, reset, t) = [start EXCEPT !.n[t] = @ + 1]
  BY DEF Roll
<1> HIDE DEF start
<1>4. Roll(w, reset, t) \in Window /\ Roll(w, reset, t).old = start.old
  BY <1>1, <1>3 DEF Window
<1>5. \A u \in Turns : Roll(w, reset, t).n[u] = start.n[u] + (IF u = t THEN 1 ELSE 0)
  BY <1>1, <1>3 DEF Window
<1>6. \A u \in Turns : start.n[u] \in Nat /\ start.old[u] \in Nat
  BY <1>1 DEF Window
<1> QED BY <1>2, <1>4, <1>5, <1>6

\* The callback server keeps the types.
LEMMA CallbackKeepsTypes ==
  ASSUME Typed, NEW h \in Handlers, Callback(h) PROVE Typed'
<1> USE DEF Typed
<1>1. CASE handleTurnComplete(h)
  <2>1. NetTyped'
    BY <1>1 DEF handleTurnComplete, NetTyped
  <2>2. CallbackTyped' /\ CountsTyped'
    <3>1. PICK t \in net :
            \/ UNCHANGED <<cb, overlap>>
            \/ /\ cb' = [cb EXCEPT ![h] = [pc |-> "usage", turn |-> t, recorded |-> FALSE]]
               /\ overlap' = overlap \cup {u \in {t} : \E g \in Handlers : Serving(g, u)}
      BY <1>1 DEF handleTurnComplete
    <3>2. t \in Turns /\ [pc |-> "usage", turn |-> t, recorded |-> FALSE] \in Calls
      BY <3>1 DEF NetTyped, Calls
    <3>3. CallbackTyped'
      BY <3>1, <3>2 DEF CallbackTyped
    <3>4. overlap' \subseteq Turns
      BY <3>1, <3>2 DEF CountsTyped
    <3> QED BY <1>1, <3>3, <3>4 DEF handleTurnComplete, CountsTyped
  <2>3. StTyped' /\ AnnTyped' /\ NotesTyped' /\ WrTyped' /\ IdsTyped' /\ RecTyped' /\ WatchTyped' /\ LeftTyped'
    BY <1>1 DEF handleTurnComplete, taskVars, StTyped, AnnTyped, NotesTyped, WrTyped, IdsTyped, RecTyped, WatchTyped, LeftTyped
  <2> QED BY <2>1, <2>2, <2>3
<1>2. CASE recordUsage(h)
  <2>0. cb[h] \in Calls
    BY <1>2, ServedTyped DEF recordUsage
  <2>1. CallbackTyped'
    <3>1. CASE Served(h, "text")
      BY <1>2, <3>1, ServedTyped DEF recordUsage
    <3>2. ASSUME NEW b \in BOOLEAN, cb' = [cb EXCEPT ![h].pc = "text", ![h].recorded = b]
          PROVE  CallbackTyped'
      <4>1. [cb[h] EXCEPT !.pc = "text", !.recorded = b] \in Calls
        BY <2>0 DEF Calls
      <4>2. cb' = [cb EXCEPT ![h] = [cb[h] EXCEPT !.pc = "text", !.recorded = b]]
        BY <3>2 DEF CallbackTyped
      <4> QED BY <4>1, <4>2 DEF CallbackTyped
    <3>3. (ann.turn = cb[h].turn /\ ~ann.complete) \in BOOLEAN
      OBVIOUS
    <3> QED BY <1>2, <3>1, <3>2, <3>3 DEF recordUsage
  <2>2. LeftTyped'
    BY <1>2, FaultTyped DEF recordUsage
  <2>3. StTyped' /\ AnnTyped' /\ NotesTyped' /\ WrTyped' /\ IdsTyped' /\ NetTyped' /\ RecTyped' /\ WatchTyped' /\ CountsTyped'
    BY <1>2 DEF recordUsage, taskVars, StTyped, AnnTyped, NotesTyped, WrTyped, IdsTyped, NetTyped, RecTyped, WatchTyped, CountsTyped
  <2> QED BY <2>1, <2>2, <2>3
<1>3. CASE stampLastTurn(h)
  <2>1. StTyped'
    <3>1. cb[h].turn \in TurnIds
      BY <1>3, Numbers, ServedTyped DEF stampLastTurn, Calls
    <3> QED BY <1>3, <3>1 DEF stampLastTurn, StTyped, Status
  <2>2. CallbackTyped'
    BY <1>3, ServedTyped DEF stampLastTurn
  <2>3. AnnTyped' /\ NotesTyped' /\ WrTyped' /\ IdsTyped' /\ NetTyped' /\ RecTyped' /\ WatchTyped' /\ CountsTyped' /\ LeftTyped'
    BY <1>3 DEF stampLastTurn, AnnTyped, NotesTyped, WrTyped, IdsTyped, NetTyped, RecTyped, WatchTyped, CountsTyped, LeftTyped
  <2> QED BY <2>1, <2>2, <2>3
<1>4. CASE recordResult(h)
  <2>1. AnnTyped'
    BY <1>4 DEF recordResult, AnnTyped, Annotations
  <2>2. CallbackTyped'
    BY <1>4, ServedTyped DEF recordResult
  <2>3. LeftTyped'
    BY <1>4, FaultTyped DEF recordResult
  <2>4. StTyped' /\ NotesTyped' /\ WrTyped' /\ IdsTyped' /\ NetTyped' /\ RecTyped' /\ WatchTyped' /\ CountsTyped'
    BY <1>4 DEF recordResult, StTyped, NotesTyped, WrTyped, IdsTyped, NetTyped, RecTyped, WatchTyped, CountsTyped
  <2> QED BY <2>1, <2>2, <2>3, <2>4
<1>5. CASE updateProjectBudget(h)
  <2>1. NetTyped'
    BY <1>5 DEF updateProjectBudget, NetTyped
  <2>2. CallbackTyped'
    BY <1>5, ServedTyped DEF updateProjectBudget
  <2>3. CountsTyped'
    <3>1. cb[h].turn \in Turns
      BY <1>5, ServedTyped DEF updateProjectBudget, Calls
    <3>2. window' = window \/ \E reset \in BOOLEAN : window' = Roll(window, reset, cb[h].turn)
      BY <1>5 DEF updateProjectBudget
    <3>3. window' \in Window
      BY <3>1, <3>2, RollCharges DEF CountsTyped
    <3> QED BY <1>5, <3>3 DEF updateProjectBudget, CountsTyped
  <2>4. LeftTyped'
    BY <1>5, FaultTyped DEF updateProjectBudget
  <2>5. StTyped' /\ AnnTyped' /\ NotesTyped' /\ WrTyped' /\ IdsTyped' /\ RecTyped' /\ WatchTyped'
    BY <1>5 DEF updateProjectBudget, taskVars, StTyped, AnnTyped, NotesTyped, WrTyped, IdsTyped, RecTyped, WatchTyped
  <2> QED BY <2>1, <2>2, <2>3, <2>4, <2>5
<1> QED BY <1>1, <1>2, <1>3, <1>4, <1>5 DEF Callback

\* The poll keeps the types.
LEMMA PollKeepsTypes ==
  ASSUME Typed, Poll PROVE Typed'
<1> USE DEF Typed
<1>1. CASE refreshTurnFromWrapper
  <2>1. StTyped'
    BY <1>1, Numbers DEF refreshTurnFromWrapper, StTyped, Status, AnnTyped, Annotations
  <2>2. AnnTyped'
    BY <1>1, Numbers DEF refreshTurnFromWrapper, AnnTyped, Annotations
  <2>3. NotesTyped' /\ WrTyped' /\ IdsTyped' /\ NetTyped' /\ RecTyped' /\ WatchTyped' /\ CallbackTyped' /\ CountsTyped' /\ LeftTyped'
    BY <1>1 DEF refreshTurnFromWrapper, taskVars, NotesTyped, WrTyped, IdsTyped, NetTyped, RecTyped, WatchTyped, CallbackTyped, CountsTyped, LeftTyped
  <2> QED BY <2>1, <2>2, <2>3
<1>2. CASE PollOnce
  <2>1. AnnTyped'
    BY <1>2, ClearedTyped DEF PollOnce
  <2>2. StTyped' /\ NotesTyped' /\ WrTyped' /\ IdsTyped' /\ NetTyped' /\ RecTyped' /\ WatchTyped' /\ CallbackTyped' /\ CountsTyped' /\ LeftTyped'
    BY <1>2 DEF PollOnce, taskVars, StTyped, NotesTyped, WrTyped, IdsTyped, NetTyped, RecTyped, WatchTyped, CallbackTyped, CountsTyped, LeftTyped
  <2> QED BY <2>1, <2>2
<1> QED BY <1>1, <1>2 DEF Poll

\* The agent, its pod and the world keeps the types.
LEMMA WorldKeepsTypes ==
  ASSUME Typed, PodBoots \/ PodDies \/ AgentFinishes \/ AgentHangs \/ TTLPasses \/ TurnTimesOut \/ CallbackLost \/ AppendTaskEvent \/ Enter \/ PassLost \/ CallbackCrashes PROVE Typed'
<1> USE DEF Typed
<1>1. CASE PodBoots
  <2>1. WrTyped'
    BY <1>1, Numbers DEF PodBoots, WrTyped, Wrapper, NoWrapper
  <2>2. StTyped' /\ AnnTyped' /\ NotesTyped' /\ IdsTyped' /\ NetTyped' /\ RecTyped' /\ WatchTyped' /\ CallbackTyped' /\ CountsTyped' /\ LeftTyped'
    BY <1>1 DEF PodBoots, taskVars, StTyped, AnnTyped, NotesTyped, IdsTyped, NetTyped, RecTyped, WatchTyped, CallbackTyped, CountsTyped, LeftTyped
  <2> QED BY <2>1, <2>2
<1>2. CASE PodDies
  <2>1. WrTyped'
    <3>1. CASE wr' = NoWrapper
      BY <3>1, Numbers DEF WrTyped, Wrapper, NoWrapper
    <3>2. CASE wr' = [wr EXCEPT !.phase = "dead", !.turn = 0, !.done = {}, !.hung = FALSE]
      BY <3>2, Numbers DEF WrTyped, Wrapper
    <3> QED BY <1>2, <3>1, <3>2 DEF PodDies
  <2>2. LeftTyped'
    BY <1>2, FaultTyped DEF PodDies
  <2>3. StTyped' /\ AnnTyped' /\ NotesTyped' /\ IdsTyped' /\ NetTyped' /\ RecTyped' /\ WatchTyped' /\ CallbackTyped' /\ CountsTyped'
    BY <1>2 DEF PodDies, taskVars, StTyped, AnnTyped, NotesTyped, IdsTyped, NetTyped, RecTyped, WatchTyped, CallbackTyped, CountsTyped
  <2> QED BY <2>1, <2>2, <2>3
<1>3. CASE AgentFinishes
  <2>1. WrTyped'
    BY <1>3, Numbers DEF AgentFinishes, WrTyped, Wrapper, NoWrapper
  <2>2. NetTyped'
    BY <1>3, Numbers DEF AgentFinishes, NetTyped, WrTyped, Wrapper
  <2>3. NotesTyped'
    BY <1>3, Numbers DEF AgentFinishes, NotesTyped, Journal, WrTyped, Wrapper
  <2>4. StTyped' /\ AnnTyped' /\ IdsTyped' /\ RecTyped' /\ WatchTyped' /\ CallbackTyped' /\ CountsTyped' /\ LeftTyped'
    BY <1>3 DEF AgentFinishes, taskVars, StTyped, AnnTyped, IdsTyped, RecTyped, WatchTyped, CallbackTyped, CountsTyped, LeftTyped
  <2> QED BY <2>1, <2>2, <2>3, <2>4
<1>4. CASE AgentHangs
  <2>1. WrTyped'
    BY <1>4, Numbers DEF AgentHangs, WrTyped, Wrapper, NoWrapper
  <2>2. LeftTyped'
    BY <1>4, FaultTyped DEF AgentHangs
  <2>3. StTyped' /\ AnnTyped' /\ NotesTyped' /\ IdsTyped' /\ NetTyped' /\ RecTyped' /\ WatchTyped' /\ CallbackTyped' /\ CountsTyped'
    BY <1>4 DEF AgentHangs, taskVars, StTyped, AnnTyped, NotesTyped, IdsTyped, NetTyped, RecTyped, WatchTyped, CallbackTyped, CountsTyped
  <2> QED BY <2>1, <2>2, <2>3
<1>5. CASE TTLPasses
  <2>1. WrTyped'
    BY <1>5, Numbers DEF TTLPasses, WrTyped, Wrapper, NoWrapper
  <2>2. LeftTyped'
    BY <1>5, FaultTyped DEF TTLPasses
  <2>3. StTyped' /\ AnnTyped' /\ NotesTyped' /\ IdsTyped' /\ NetTyped' /\ RecTyped' /\ WatchTyped' /\ CallbackTyped' /\ CountsTyped'
    BY <1>5 DEF TTLPasses, taskVars, StTyped, AnnTyped, NotesTyped, IdsTyped, NetTyped, RecTyped, WatchTyped, CallbackTyped, CountsTyped
  <2> QED BY <2>1, <2>2, <2>3
<1>6. CASE TurnTimesOut
  <2>1. AnnTyped'
    BY <1>6, Numbers DEF TurnTimesOut, AnnTyped, Annotations
  <2>2. StTyped' /\ NotesTyped' /\ WrTyped' /\ IdsTyped' /\ NetTyped' /\ RecTyped' /\ WatchTyped' /\ CallbackTyped' /\ CountsTyped' /\ LeftTyped'
    BY <1>6 DEF TurnTimesOut, taskVars, StTyped, NotesTyped, WrTyped, IdsTyped, NetTyped, RecTyped, WatchTyped, CallbackTyped, CountsTyped, LeftTyped
  <2> QED BY <2>1, <2>2
<1>7. CASE CallbackLost
  <2>1. NetTyped'
    BY <1>7, Numbers DEF CallbackLost, NetTyped
  <2>2. LeftTyped'
    BY <1>7, FaultTyped DEF CallbackLost
  <2>3. StTyped' /\ AnnTyped' /\ NotesTyped' /\ WrTyped' /\ IdsTyped' /\ RecTyped' /\ WatchTyped' /\ CallbackTyped' /\ CountsTyped'
    BY <1>7 DEF CallbackLost, taskVars, StTyped, AnnTyped, NotesTyped, WrTyped, IdsTyped, RecTyped, WatchTyped, CallbackTyped, CountsTyped
  <2> QED BY <2>1, <2>2, <2>3
<1>8. CASE AppendTaskEvent
  <2>1. StTyped'
    BY <1>8, ArrivalTyped
  <2>2. IdsTyped'
    BY <1>8, ArrivalTyped
  <2>3. WrTyped'
    BY <1>8, Numbers DEF AppendTaskEvent, WrTyped, Wrapper, NoWrapper
  <2>4. CountsTyped'
    BY <1>8, ArrivalTyped
  <2>5. AnnTyped' /\ NotesTyped' /\ NetTyped' /\ RecTyped' /\ WatchTyped' /\ CallbackTyped' /\ LeftTyped'
    BY <1>8 DEF AppendTaskEvent, taskVars, AnnTyped, NotesTyped, NetTyped, RecTyped, WatchTyped, CallbackTyped, LeftTyped
  <2> QED BY <2>1, <2>2, <2>3, <2>4, <2>5
<1>9. CASE Enter
  <2>1. StTyped'
    BY <1>9, EnterTyped
  <2>2. WrTyped'
    BY <1>9, DeleteTyped DEF Enter, WrTyped
  <2>3. NetTyped'
    BY <1>9, DeleteTyped DEF Enter, NetTyped
  <2>4. LeftTyped'
    BY <1>9, FaultTyped DEF Enter
  <2>5. AnnTyped' /\ NotesTyped' /\ IdsTyped' /\ RecTyped' /\ WatchTyped' /\ CallbackTyped' /\ CountsTyped'
    BY <1>9 DEF Enter, taskVars, AnnTyped, NotesTyped, IdsTyped, RecTyped, WatchTyped, CallbackTyped, CountsTyped
  <2> QED BY <2>1, <2>2, <2>3, <2>4, <2>5
<1>10. CASE PassLost
  <2>1. RecTyped'
    BY <1>10 DEF PassLost, EndPass, RecTyped, PassTyped
  <2>2. LeftTyped'
    BY <1>10, FaultTyped DEF PassLost
  <2>3. StTyped' /\ AnnTyped' /\ NotesTyped' /\ WrTyped' /\ IdsTyped' /\ NetTyped' /\ WatchTyped' /\ CallbackTyped' /\ CountsTyped'
    BY <1>10 DEF PassLost, taskVars, StTyped, AnnTyped, NotesTyped, WrTyped, IdsTyped, NetTyped, WatchTyped, CallbackTyped, CountsTyped
  <2> QED BY <2>1, <2>2, <2>3
<1>11. CASE CallbackCrashes
  <2>1. CallbackTyped'
    BY <1>11, ServedTyped DEF CallbackCrashes
  <2>2. LeftTyped'
    BY <1>11, FaultTyped DEF CallbackCrashes
  <2>3. StTyped' /\ AnnTyped' /\ NotesTyped' /\ WrTyped' /\ IdsTyped' /\ NetTyped' /\ RecTyped' /\ WatchTyped' /\ CountsTyped'
    BY <1>11 DEF CallbackCrashes, taskVars, StTyped, AnnTyped, NotesTyped, WrTyped, IdsTyped, NetTyped, RecTyped, WatchTyped, CountsTyped
  <2> QED BY <2>1, <2>2, <2>3
<1> QED BY <1>1, <1>2, <1>3, <1>4, <1>5, <1>6, <1>7, <1>8, <1>9, <1>10, <1>11

\* The program starts in a state of the types.
LEMMA InitTyped == Init => Typed
<1> SUFFICES ASSUME Init PROVE Typed
  OBVIOUS
<1>1. StTyped
  <2>1. <<>> \in SeqOf(Events, maxPendingEvents)
    <3>1. maxPendingEvents \in Nat /\ <<>> \in Seq(Events) /\ Len(<<>>) = 0
      BY TurnAssumption
    <3>2. Len(<<>>) <= maxPendingEvents
      BY <3>1
    <3> QED BY <3>1, <3>2, SeqOfIsSeq
  <2> QED BY <2>1, Numbers DEF Init, StTyped, Status
<1>2. AnnTyped
  <2>1. <<0, 0>> \in (Stages \cup {0}) \X Pods
    BY Numbers
  <2> QED BY <2>1, Numbers DEF Init, AnnTyped, Annotations
<1>3. NotesTyped /\ WrTyped
  BY Numbers DEF Init, NotesTyped, Journal, WrTyped, Wrapper, NoWrapper
<1>4. IdsTyped
  BY Numbers DEF Init, IdsTyped
<1>5. NetTyped /\ RecTyped /\ WatchTyped /\ CallbackTyped
  BY DEF Init, NetTyped, RecTyped, PassTyped, WatchTyped, CallbackTyped
<1>6. CountsTyped /\ LeftTyped
  BY TurnAssumption DEF Init, CountsTyped, LeftTyped, Window, Nothing
<1> QED BY <1>1, <1>2, <1>3, <1>4, <1>5, <1>6 DEF Typed

\* Every step keeps the types.
LEMMA NextTyped == Typed /\ [Next]_vars => Typed'
<1> SUFFICES ASSUME Typed, [Next]_vars PROVE Typed'
  OBVIOUS
<1>1. CASE UNCHANGED vars
  BY <1>1 DEF vars, Typed, StTyped, AnnTyped, NotesTyped, WrTyped, IdsTyped, NetTyped, RecTyped,
              WatchTyped, CallbackTyped, CountsTyped, LeftTyped
<1> QED BY <1>1, PassKeepsTypes, WatchKeepsTypes, CallbackKeepsTypes, PollKeepsTypes,
           WorldKeepsTypes DEF Next

----------------------------------------------------------------------------
(* The books of the events.                                                 *)
(*                                                                          *)
(* EventsAccounted is not inductive: between the submission of a turn and   *)
(* the drain, the events it was told are queued as well, and the drain will *)
(* take them off the queue.  What the pass still owes the queue is on the   *)
(* books too, so that the drain spends no more than the turn was told.      *)

Owed(e) == IF rec.pc \in {"stamp", "drain"} THEN Count(rec.events, e) ELSE 0

EventsKept ==
  \A e \in Events : ids.events[e] + Owed(e) <= Count(st.pending, e) + told[e] + dropped[e]

\* The numbers on the books are numbers.
LEMMA BookEntries ==
  ASSUME Typed, NEW e \in Events
  PROVE  /\ ids.events[e] \in Nat /\ Count(st.pending, e) \in Nat
         /\ told[e] \in Nat /\ dropped[e] \in Nat /\ Owed(e) \in Nat
         /\ rec # Idle => Count(rec.events, e) \in Nat
<1>1. ids.events[e] \in Nat /\ told[e] \in Nat /\ dropped[e] \in Nat
  BY Numbers DEF Typed, IdsTyped, CountsTyped
<1>2. Count(st.pending, e) \in Nat
  <2>1. st.pending \in Seq(Events)
    BY SeqOfIsSeq, TurnAssumption DEF Typed, StTyped, Status
  <2> QED BY <2>1, CountType
<1>3. ASSUME rec # Idle PROVE Count(rec.events, e) \in Nat
  <2>1. rec.events \in Seq(Events)
    BY <1>3, SeqOfIsSeq, TurnAssumption DEF Typed, RecTyped, PassTyped, Passes
  <2> QED BY <2>1, CountType
<1>4. Owed(e) \in Nat
  BY <1>3 DEF Owed, Idle
<1> QED BY <1>1, <1>2, <1>3, <1>4

\* A step that leaves the queue and the tallies alone, and takes on no debt.
OffTheBooks ==
  /\ ids'.events = ids.events /\ st'.pending = st.pending /\ told' = told /\ dropped' = dropped
  /\ \/ rec' = rec
     \/ rec'.pc \notin {"stamp", "drain"}
     \/ rec.pc \in {"stamp", "drain"} /\ rec'.events = rec.events

LEMMA OffTheBooksKeeps ==
  ASSUME Typed, EventsKept, OffTheBooks PROVE EventsKept'
<1> SUFFICES ASSUME NEW e \in Events
             PROVE  ids'.events[e] + Owed(e)' <= Count(st'.pending, e) + told'[e] + dropped'[e]
  BY DEF EventsKept
<1>1. Owed(e)' = Owed(e) \/ Owed(e)' = 0
  BY DEF OffTheBooks, Owed
<1>2. ids.events[e] + Owed(e) <= Count(st.pending, e) + told[e] + dropped[e]
  BY DEF EventsKept
<1> HIDE DEF Owed
<1>3. ids.events[e] + Owed(e)' <= Count(st.pending, e) + told[e] + dropped[e]
  BY <1>1, <1>2, BookEntries
<1> QED BY <1>3 DEF OffTheBooks

\* A submitted turn is told what the pass read, and the pass owes as much.
LEMMA SubmitKeepsBooks ==
  ASSUME Typed, EventsKept, SubmitTurn PROVE EventsKept'
<1> SUFFICES ASSUME NEW e \in Events
             PROVE  ids'.events[e] + Owed(e)' <= Count(st'.pending, e) + told'[e] + dropped'[e]
  BY DEF EventsKept
<1>1. rec \in Passes /\ rec # Idle /\ rec.pc = "submit"
  BY DEF Typed, SubmitTurn, RecTyped, PassTyped, Idle
<1>2. Owed(e) = 0 /\ Owed(e)' = Count(rec.events, e)
  BY <1>1 DEF SubmitTurn, Owed, Passes
<1>3. /\ ids'.events = ids.events /\ st' = st /\ dropped' = dropped
      /\ told'[e] = told[e] + Count(rec.events, e)
  BY DEF Typed, SubmitTurn, taskVars, IdsTyped
<1>4. ids.events[e] + Owed(e) <= Count(st.pending, e) + told[e] + dropped[e]
  BY DEF EventsKept
<1>5. ids.events[e] + Count(rec.events, e)
        <= Count(st.pending, e) + (told[e] + Count(rec.events, e)) + dropped[e]
  BY <1>1, <1>2, <1>4, BookEntries
<1> QED BY <1>2, <1>3, <1>5

\* The drain takes off the queue no more than the pass owes.
LEMMA DrainKeepsBooks ==
  ASSUME Typed, EventsKept, drainPendingEvents PROVE EventsKept'
<1> SUFFICES ASSUME NEW e \in Events
             PROVE  ids'.events[e] + Owed(e)' <= Count(st'.pending, e) + told'[e] + dropped'[e]
  BY DEF EventsKept
<1> DEFINE q == drainRenderedEvents(st.pending, rec.events)
<1>1. rec \in Passes /\ rec.pc = "drain"
  BY DEF Typed, drainPendingEvents, RecTyped, PassTyped, Idle
<1>2. Owed(e) = Count(rec.events, e) /\ Owed(e)' = 0
  BY <1>1 DEF drainPendingEvents, Owed, EndPass, Idle
<1>3. /\ q \in SeqOf(Events, maxPendingEvents)
      /\ Count(q, e) + Count(rec.events, e) >= Count(st.pending, e)
  BY <1>1, DrainKeeps DEF Typed, StTyped, Status, Passes
<1>4. st'.pending = q /\ ids' = ids /\ told' = told /\ dropped' = dropped
  BY DEF Typed, drainPendingEvents, StTyped, Status
<1>5. Count(q, e) \in Nat
  BY <1>3, SeqOfIsSeq, CountType, TurnAssumption
<1>6. ids.events[e] + Owed(e) <= Count(st.pending, e) + told[e] + dropped[e]
  BY DEF EventsKept
<1> HIDE DEF q
<1>7. Count(rec.events, e) \in Nat /\ Count(rec.events, e) = Owed(e)
  BY <1>2, BookEntries
<1>8. ids.events[e] + 0 <= Count(q, e) + told[e] + dropped[e]
  BY <1>3, <1>5, <1>6, <1>7, BookEntries
<1> QED BY <1>2, <1>4, <1>8

\* An arrival is queued, and what it pushes off a full queue is counted as let go.
LEMMA ArrivalKeepsBooks ==
  ASSUME Typed, EventsKept, AppendTaskEvent PROVE EventsKept'
<1>1. PICK a \in Events :
        /\ ids' = [ids EXCEPT !.events[a] = @ + 1]
        /\ st' = [st EXCEPT !.pending = appendEventCapped(@, a)]
        /\ dropped' = IF Len(st.pending) < maxPendingEvents THEN dropped
                      ELSE [dropped EXCEPT ![Head(st.pending)] = @ + 1]
  BY DEF AppendTaskEvent
<1> SUFFICES ASSUME NEW e \in Events
             PROVE  ids'.events[e] + Owed(e)' <= Count(st'.pending, e) + told'[e] + dropped'[e]
  BY DEF EventsKept
<1> DEFINE q == appendEventCapped(st.pending, a)
           in == IF e = a THEN 1 ELSE 0
           lost == IF ~(Len(st.pending) < maxPendingEvents) /\ Head(st.pending) = e THEN 1 ELSE 0
<1>2. st.pending \in SeqOf(Events, maxPendingEvents)
  BY DEF Typed, StTyped, Status

<1>3. /\ q \in SeqOf(Events, maxPendingEvents)
      /\ Count(q, e) + lost = Count(st.pending, e) + in
      /\ ~(Len(st.pending) < maxPendingEvents) => Head(st.pending) \in Events
  <2>1. CASE Len(st.pending) < maxPendingEvents
    <3>1. q \in SeqOf(Events, maxPendingEvents) /\ Count(q, e) = Count(st.pending, e) + in
      BY <1>2, <2>1, AppendCapped
    <3>2. Count(q, e) \in Nat
      BY <3>1, SeqOfIsSeq, CountType, TurnAssumption
    <3> HIDE DEF q, in
    <3> QED BY <2>1, <3>1, <3>2
  <2>2. CASE ~(Len(st.pending) < maxPendingEvents)
    BY <1>2, <2>2, AppendCapped
  <2> QED BY <2>1, <2>2
<1>4. /\ st'.pending = q /\ told' = told /\ Owed(e)' = Owed(e)
      /\ ids'.events[e] = ids.events[e] + in
  BY <1>1 DEF Typed, AppendTaskEvent, StTyped, Status, IdsTyped, Owed
<1>5. dropped'[e] = dropped[e] + lost
  BY <1>1, <1>3 DEF Typed, CountsTyped
<1>6. ids.events[e] + Owed(e) <= Count(st.pending, e) + told[e] + dropped[e]
  BY DEF EventsKept
<1>7. Count(q, e) \in Nat /\ in \in Nat /\ lost \in Nat
  BY <1>3, SeqOfIsSeq, CountType, TurnAssumption
<1> HIDE DEF q, in, lost
<1>8. Count(q, e) + lost = Count(st.pending, e) + in
  BY <1>3
<1>9. /\ ids.events[e] \in Nat /\ Count(st.pending, e) \in Nat
      /\ told[e] \in Nat /\ dropped[e] \in Nat /\ Owed(e) \in Nat
  BY BookEntries
<1> HIDE DEF Owed
<1>10. (ids.events[e] + in) + Owed(e) <= Count(q, e) + told[e] + (dropped[e] + lost)
  BY <1>6, <1>7, <1>8, <1>9
<1> QED BY <1>4, <1>5, <1>10

\* The passes of the reconciler keep the books: all but two leave them alone.
LEMMA PassKeepsBooks ==
  ASSUME Typed, EventsKept, Pass PROVE EventsKept'
<1>0. st \in Status /\ IdsTyped /\ (rec = Idle \/ rec \in Passes)
  BY DEF Typed, StTyped, RecTyped, PassTyped
<1>1. CASE parkNoOutcome
  <2>1. OffTheBooks
    BY <1>0, <1>1 DEF OffTheBooks, parkNoOutcome, ParkTask, noPodClocks, Status
  <2> QED BY <2>1, OffTheBooksKeeps
<1>25. CASE reconcileCaps
  <2>1. OffTheBooks
    BY <1>0, <1>25 DEF OffTheBooks, reconcileCaps, ParkTask, noPodClocks, Status
  <2> QED BY <2>1, OffTheBooksKeeps
<1>2. CASE respawnLostPod
  <2>1. OffTheBooks
    BY <1>0, <1>2 DEF OffTheBooks, respawnLostPod, taskVars, PassOf
  <2> QED BY <2>1, OffTheBooksKeeps
<1>3. CASE stopAfterAgentHandoff
  <2>1. OffTheBooks
    BY <1>0, <1>3 DEF OffTheBooks, stopAfterAgentHandoff, taskVars, PassOf
  <2> QED BY <2>1, OffTheBooksKeeps
<1>4. CASE ttlStop
  <2>1. OffTheBooks
    BY <1>0, <1>4 DEF OffTheBooks, ttlStop, taskVars, PassOf
  <2> QED BY <2>1, OffTheBooksKeeps
<1>5. CASE sendStallProbe
  <2>1. OffTheBooks
    BY <1>0, <1>5 DEF OffTheBooks, sendStallProbe, PassOf
  <2> QED BY <2>1, OffTheBooksKeeps
<1>6. CASE recordProbeAnswer
  <2>1. OffTheBooks
    BY <1>0, <1>6 DEF OffTheBooks, recordProbeAnswer
  <2> QED BY <2>1, OffTheBooksKeeps
<1>7. CASE evaluateStallProbe
  <2>1. OffTheBooks
    BY <1>0, <1>7 DEF OffTheBooks, evaluateStallProbe
  <2> QED BY <2>1, OffTheBooksKeeps
<1>8. CASE escalateStall
  <2>1. OffTheBooks
    BY <1>0, <1>8 DEF OffTheBooks, escalateStall, taskVars, PassOf
  <2> QED BY <2>1, OffTheBooksKeeps
<1>9. CASE clearStallProbe
  <2>1. OffTheBooks
    BY <1>0, <1>9 DEF OffTheBooks, clearStallProbe
  <2> QED BY <2>1, OffTheBooksKeeps
<1>10. CASE ensureStagePodStale
  <2>1. OffTheBooks
    BY <1>0, <1>10 DEF OffTheBooks, ensureStagePodStale, taskVars
  <2> QED BY <2>1, OffTheBooksKeeps
<1>11. CASE ensureStagePod
  <2>1. OffTheBooks
    BY <1>0, <1>11 DEF OffTheBooks, ensureStagePod, taskVars, PassOf
  <2> QED BY <2>1, OffTheBooksKeeps
<1>12. CASE createPod
  <2>1. OffTheBooks
    BY <1>0, <1>12 DEF OffTheBooks, createPod, taskVars, EndPass, Idle, IdsTyped
  <2> QED BY <2>1, OffTheBooksKeeps
<1>13. CASE reconcilePodStage
  <2>1. OffTheBooks
    BY <1>0, <1>13 DEF OffTheBooks, reconcilePodStage, taskVars, PassOf
  <2> QED BY <2>1, OffTheBooksKeeps
<1>14. CASE SubmitTurn
  BY <1>14, SubmitKeepsBooks
<1>15. CASE handleTurnSubmitFailure
  <2>1. OffTheBooks
    <3>1. rec'.pc \in {"wait", "idle"}
      <4>1. rec \in Passes
        BY <1>0, <1>15 DEF handleTurnSubmitFailure, Idle
      <4>2. CASE EndPass
        BY <4>2 DEF EndPass, Idle
      <4>3. CASE rec' = [rec EXCEPT !.pc = "wait", !.why = "ttl"]
        BY <4>1, <4>3 DEF Passes
      <4> QED BY <1>15, <4>2, <4>3 DEF handleTurnSubmitFailure
    <3> QED BY <1>15, <3>1 DEF OffTheBooks, handleTurnSubmitFailure, taskVars
  <2> QED BY <2>1, OffTheBooksKeeps
<1>16. CASE handleTransientWrapper
  <2>1. OffTheBooks
    <3>1. rec'.pc \in {"patch", "idle"}
      <4>1. rec \in Passes
        BY <1>0, <1>16 DEF handleTransientWrapper, Idle
      <4>2. CASE EndPass
        BY <4>2 DEF EndPass, Idle
      <4>3. CASE rec' = [rec EXCEPT !.pc = "patch", !.why = "respawn"]
        BY <4>1, <4>3 DEF Passes
      <4> QED BY <1>16, <4>2, <4>3 DEF handleTransientWrapper
    <3> QED BY <1>16, <3>1 DEF OffTheBooks, handleTransientWrapper
  <2> QED BY <2>1, OffTheBooksKeeps
<1>17. CASE submitStageTurn
  <2>1. OffTheBooks
    BY <1>0, <1>17 DEF OffTheBooks, submitStageTurn, GoTo, Passes, Idle
  <2> QED BY <2>1, OffTheBooksKeeps
<1>18. CASE drainPendingEvents
  BY <1>18, DrainKeepsBooks
<1>19. CASE waitIdle
  <2>1. OffTheBooks
    BY <1>0, <1>19 DEF OffTheBooks, waitIdle, taskVars, GoTo, Passes, Idle
  <2> QED BY <2>1, OffTheBooksKeeps
<1>20. CASE waitHandoffNote
  <2>1. OffTheBooks
    BY <1>0, <1>20 DEF OffTheBooks, waitHandoffNote, GoTo, Passes, Idle
  <2> QED BY <2>1, OffTheBooksKeeps
<1>21. CASE writeSyntheticNote
  <2>1. OffTheBooks
    BY <1>0, <1>21 DEF OffTheBooks, writeSyntheticNote, GoTo, Passes, Idle
  <2> QED BY <2>1, OffTheBooksKeeps
<1>22. CASE finish
  <2>1. OffTheBooks
    BY <1>0, <1>22 DEF OffTheBooks, finish, taskVars, GoTo, Passes, Idle
  <2> QED BY <2>1, OffTheBooksKeeps
<1>23. CASE reArm
  <2>1. OffTheBooks
    <3>1. rec'.pc \in {"clear", "idle"}
      BY <1>0, <1>23 DEF reArm, EndPass, GoTo, Idle, Passes
    <3>2. rec.why \in Stops \cup {"respawn", "agent"}
      BY <1>23 DEF Typed, RecTyped, PassTyped, reArm, Idle
    <3> DEFINE c == noPodClocks(st)
    <3>3. /\ c \in Status /\ clearLastTurn(c) \in Status
          /\ c.pending = st.pending /\ clearLastTurn(c).pending = st.pending
      BY <1>0, ResetTyped DEF noPodClocks, clearLastTurn, Status
    <3>4. \/ st' = c \/ st' = clearLastTurn(c)
          \/ st' = [clearLastTurn(c) EXCEPT !.agentStops = IF @ < AgentStopReArmCap THEN @ + 1 ELSE @]
      BY <1>23, <3>2 DEF reArm, Stops
    <3> HIDE DEF c
    <3>5. st'.pending = st.pending
      BY <3>3, <3>4 DEF Status
    <3> QED BY <1>23, <3>1, <3>5 DEF OffTheBooks, reArm
  <2> QED BY <2>1, OffTheBooksKeeps
<1>24. CASE clearTurnAnnotations
  <2>1. OffTheBooks
    BY <1>0, <1>24 DEF OffTheBooks, clearTurnAnnotations, EndPass, GoTo, Idle, Passes
  <2> QED BY <2>1, OffTheBooksKeeps
<1> QED BY <1>1, <1>2, <1>3, <1>4, <1>5, <1>6, <1>7, <1>8, <1>9, <1>10, <1>11, <1>12, <1>13, <1>14, <1>15, <1>16, <1>17, <1>18, <1>19, <1>20, <1>21, <1>22, <1>23, <1>24, <1>25 DEF Pass

\* The pod watcher leaves them alone.
LEMMA WatchKeepsBooks ==
  ASSUME Typed, EventsKept, Watch PROVE EventsKept'
<1>0. st \in Status /\ IdsTyped /\ (rec = Idle \/ rec \in Passes)
  BY DEF Typed, StTyped, RecTyped, PassTyped
<1>1. CASE WatchRead
  <2>1. OffTheBooks
    BY <1>0, <1>1 DEF OffTheBooks, WatchRead, taskVars
  <2> QED BY <2>1, OffTheBooksKeeps
<1>2. CASE StampPodStartedAt
  <2>1. OffTheBooks
    BY <1>0, <1>2 DEF OffTheBooks, StampPodStartedAt, Status
  <2> QED BY <2>1, OffTheBooksKeeps
<1>3. CASE StampStageWorkStartedAt
  <2>1. OffTheBooks
    BY <1>0, <1>3 DEF OffTheBooks, StampStageWorkStartedAt, Status
  <2> QED BY <2>1, OffTheBooksKeeps
<1>4. CASE failContractMismatch
  <2>1. OffTheBooks
    BY <1>0, <1>4 DEF OffTheBooks, failContractMismatch, ParkTask, noPodClocks, Status
  <2> QED BY <2>1, OffTheBooksKeeps
<1>5. CASE handleNotReady
  <2>1. OffTheBooks
    BY <1>0, <1>5 DEF OffTheBooks, handleNotReady, noPodClocks, Status
  <2> QED BY <2>1, OffTheBooksKeeps
<1>6. CASE WatchDelete
  <2>1. OffTheBooks
    BY <1>0, <1>6 DEF OffTheBooks, WatchDelete, taskVars
  <2> QED BY <2>1, OffTheBooksKeeps
<1> QED BY <1>1, <1>2, <1>3, <1>4, <1>5, <1>6 DEF Watch

\* So does the callback server.
LEMMA CallbackKeepsBooks ==
  ASSUME Typed, EventsKept, NEW h \in Handlers, Callback(h) PROVE EventsKept'
<1>0. st \in Status /\ IdsTyped /\ (rec = Idle \/ rec \in Passes)
  BY DEF Typed, StTyped, RecTyped, PassTyped
<1>1. CASE handleTurnComplete(h)
  <2>1. OffTheBooks
    BY <1>0, <1>1 DEF OffTheBooks, handleTurnComplete, taskVars
  <2> QED BY <2>1, OffTheBooksKeeps
<1>2. CASE recordUsage(h)
  <2>1. OffTheBooks
    BY <1>0, <1>2 DEF OffTheBooks, recordUsage, taskVars
  <2> QED BY <2>1, OffTheBooksKeeps
<1>3. CASE stampLastTurn(h)
  <2>1. OffTheBooks
    BY <1>0, <1>3 DEF OffTheBooks, stampLastTurn, Status
  <2> QED BY <2>1, OffTheBooksKeeps
<1>4. CASE recordResult(h)
  <2>1. OffTheBooks
    BY <1>0, <1>4 DEF OffTheBooks, recordResult
  <2> QED BY <2>1, OffTheBooksKeeps
<1>5. CASE updateProjectBudget(h)
  <2>1. OffTheBooks
    BY <1>0, <1>5 DEF OffTheBooks, updateProjectBudget, taskVars
  <2> QED BY <2>1, OffTheBooksKeeps
<1> QED BY <1>1, <1>2, <1>3, <1>4, <1>5 DEF Callback

\* So does the poll.
LEMMA PollKeepsBooks ==
  ASSUME Typed, EventsKept, Poll PROVE EventsKept'
<1>0. st \in Status /\ IdsTyped /\ (rec = Idle \/ rec \in Passes)
  BY DEF Typed, StTyped, RecTyped, PassTyped
<1>1. CASE refreshTurnFromWrapper
  <2>1. OffTheBooks
    BY <1>0, <1>1 DEF OffTheBooks, refreshTurnFromWrapper, Status
  <2> QED BY <2>1, OffTheBooksKeeps
<1>2. CASE PollOnce
  <2>1. OffTheBooks
    BY <1>0, <1>2 DEF OffTheBooks, PollOnce
  <2> QED BY <2>1, OffTheBooksKeeps
<1> QED BY <1>1, <1>2 DEF Poll

\* Of the world, the arrivals are on the books.
LEMMA WorldKeepsBooks ==
  ASSUME Typed, EventsKept, PodBoots \/ PodDies \/ AgentFinishes \/ AgentHangs \/ TTLPasses \/ TurnTimesOut
         \/ CallbackLost \/ AppendTaskEvent \/ Enter \/ PassLost \/ CallbackCrashes PROVE EventsKept'
<1>0. st \in Status /\ IdsTyped /\ (rec = Idle \/ rec \in Passes)
  BY DEF Typed, StTyped, RecTyped, PassTyped
<1>1. CASE PodBoots
  <2>1. OffTheBooks
    BY <1>0, <1>1 DEF OffTheBooks, PodBoots, taskVars
  <2> QED BY <2>1, OffTheBooksKeeps
<1>2. CASE PodDies
  <2>1. OffTheBooks
    BY <1>0, <1>2 DEF OffTheBooks, PodDies, taskVars
  <2> QED BY <2>1, OffTheBooksKeeps
<1>3. CASE AgentFinishes
  <2>1. OffTheBooks
    BY <1>0, <1>3 DEF OffTheBooks, AgentFinishes
  <2> QED BY <2>1, OffTheBooksKeeps
<1>4. CASE AgentHangs
  <2>1. OffTheBooks
    BY <1>0, <1>4 DEF OffTheBooks, AgentHangs, taskVars
  <2> QED BY <2>1, OffTheBooksKeeps
<1>5. CASE TTLPasses
  <2>1. OffTheBooks
    BY <1>0, <1>5 DEF OffTheBooks, TTLPasses, taskVars
  <2> QED BY <2>1, OffTheBooksKeeps
<1>6. CASE TurnTimesOut
  <2>1. OffTheBooks
    BY <1>0, <1>6 DEF OffTheBooks, TurnTimesOut
  <2> QED BY <2>1, OffTheBooksKeeps
<1>7. CASE CallbackLost
  <2>1. OffTheBooks
    BY <1>0, <1>7 DEF OffTheBooks, CallbackLost, taskVars
  <2> QED BY <2>1, OffTheBooksKeeps
<1>8. CASE AppendTaskEvent
  BY <1>8, ArrivalKeepsBooks
<1>9. CASE Enter
  <2>1. OffTheBooks
    BY <1>0, <1>9 DEF OffTheBooks, Enter, noPodClocks, clearLastTurn, Status
  <2> QED BY <2>1, OffTheBooksKeeps
<1>10. CASE PassLost
  <2>1. OffTheBooks
    BY <1>0, <1>10 DEF OffTheBooks, PassLost, taskVars, EndPass, Idle
  <2> QED BY <2>1, OffTheBooksKeeps
<1>11. CASE CallbackCrashes
  <2>1. OffTheBooks
    BY <1>0, <1>11 DEF OffTheBooks, CallbackCrashes, taskVars
  <2> QED BY <2>1, OffTheBooksKeeps
<1> QED BY <1>1, <1>2, <1>3, <1>4, <1>5, <1>6, <1>7, <1>8, <1>9, <1>10, <1>11

\* Every step keeps the books.
LEMMA NextKeepsBooks == Typed /\ EventsKept /\ [Next]_vars => EventsKept'
<1> SUFFICES ASSUME Typed, EventsKept, [Next]_vars PROVE EventsKept'
  OBVIOUS
<1>1. CASE UNCHANGED vars
  <2>1. OffTheBooks
    BY <1>1 DEF vars, OffTheBooks
  <2> QED BY <2>1, OffTheBooksKeeps
<1> QED BY <1>1, PassKeepsBooks, WatchKeepsBooks, CallbackKeepsBooks, PollKeepsBooks,
           WorldKeepsBooks DEF Next

----------------------------------------------------------------------------
(* The books of the tokens.                                                 *)
(*                                                                          *)
(* A callback that recorded its usage will charge the turn: nothing has     *)
(* been charged so far, and before it charges, its result closes the turn,  *)
(* so that no callback records the usage again.  That the turn stays closed *)
(* needs more: the one turn that is ever opened, the one just submitted, is *)
(* new to the annotations, to every callback and to the window.             *)

Open(t) == ann.turn = t /\ ~ann.complete
Known(t) == ann.turn = t \/ (\E h \in Handlers : Serving(h, t)) \/ Charges(t) > 0

TurnsAreNew ==
  /\ rec.pc = "stamp" => rec.turn <= ids.turn
  /\ \A t \in Turns : Known(t) => t <= ids.turn /\ (rec.pc = "stamp" => t # rec.turn)

ChargeKept(t) ==
  /\ \A g, h \in Handlers : Serving(g, t) /\ Serving(h, t) => g = h
  /\ \A h \in Handlers : Serving(h, t) /\ cb[h].recorded => Charges(t) = 0
  /\ \A h \in Handlers : Serving(h, t) /\ cb[h].pc = "budget" => ~Open(t)
  /\ Charges(t) <= 1 /\ (Charges(t) > 0 => ~Open(t))

WindowKept ==
  /\ \A h \in Handlers : cb[h].pc = "usage" => ~cb[h].recorded
  /\ TurnsAreNew
  /\ \A t \in Turns \ overlap : ChargeKept(t)

\* A step that charges nothing, opens no turn and begins no callback.
Quiet ==
  /\ window' = window /\ overlap' = overlap
  /\ \A h \in Handlers : cb'[h] = cb[h] \/ cb'[h] = Idle
  /\ ids'.turn = ids.turn
  /\ ann'.turn \in {0, ann.turn}
  /\ ann'.turn # 0 /\ ~ann'.complete => ann'.turn = ann.turn /\ ~ann.complete
  /\ rec'.pc = "stamp" => rec.pc = "stamp" /\ rec'.turn = rec.turn

LEMMA QuietKeeps ==
  ASSUME Typed, WindowKept, Quiet PROVE WindowKept'
<1>1. \A t \in Turns : t # 0 /\ (Open(t)' => Open(t))
  BY Numbers DEF Quiet, Open
<1>2. \A h \in Handlers, t \in Turns : Serving(h, t)' => Serving(h, t) /\ cb'[h] = cb[h]
  BY DEF Quiet, Serving, Idle
<1>3. \A t \in Turns : Charges(t)' = Charges(t)
  BY DEF Quiet, Charges
<1>4. \A t \in Turns : Known(t)' => Known(t)
  BY <1>1, <1>2, <1>3 DEF Known, Quiet
<1>5. \A h \in Handlers : cb'[h].pc = "usage" => ~cb'[h].recorded
  BY DEF Quiet, WindowKept, Idle
<1>6. TurnsAreNew'
  BY <1>4 DEF Quiet, WindowKept, TurnsAreNew
<1>7. ASSUME NEW t \in Turns \ overlap PROVE ChargeKept(t)'
  <2>1. ChargeKept(t) /\ t \in Turns
    BY <1>7 DEF WindowKept
  <2>2. Charges(t)' = Charges(t) /\ (Open(t)' => Open(t))
    BY <1>1, <1>3, <2>1
  <2>3. \A h \in Handlers : Serving(h, t)' => Serving(h, t) /\ cb'[h] = cb[h]
    BY <1>2, <2>1
  <2> HIDE DEF Serving, Charges, Open
  <2> QED BY <2>1, <2>2, <2>3 DEF ChargeKept
<1> QED BY <1>5, <1>6, <1>7 DEF WindowKept, Quiet

\* The pass is quiet, but where it submits a turn and where it stamps it.
LEMMA PassIsQuiet ==
  ASSUME Typed, Pass, ~SubmitTurn, ~submitStageTurn PROVE Quiet
<1>0. /\ ann \in Annotations /\ (rec = Idle \/ rec \in Passes)
      /\ ids.turn \in Nat /\ ids \in [pod : Pods, turn : TurnIds, events : [Events -> 0 .. MaxArrivals]]
      /\ cb \in [Handlers -> {Idle} \cup Calls]
  BY Numbers DEF Typed, AnnTyped, RecTyped, PassTyped, IdsTyped, CallbackTyped, TurnIds
<1>1. CASE parkNoOutcome
  BY <1>0, <1>1 DEF Quiet, parkNoOutcome, ParkTask, clearedTurn, Annotations, Passes
<1>2. CASE reconcileCaps
  BY <1>0, <1>2 DEF Quiet, reconcileCaps, ParkTask, clearedTurn, Annotations, Passes
<1>3. CASE respawnLostPod
  BY <1>0, <1>3 DEF Quiet, respawnLostPod, taskVars, PassOf, Annotations, Passes
<1>4. CASE stopAfterAgentHandoff
  BY <1>0, <1>4 DEF Quiet, stopAfterAgentHandoff, taskVars, PassOf, Annotations, Passes
<1>5. CASE ttlStop
  BY <1>0, <1>5 DEF Quiet, ttlStop, taskVars, PassOf, Annotations, Passes
<1>6. CASE sendStallProbe
  <2>1. CASE Running
    BY <1>0, <1>6, <2>1 DEF Quiet, sendStallProbe, Annotations
  <2>2. CASE ~Running
    BY <1>0, <1>6, <2>2 DEF Quiet, sendStallProbe, PassOf
  <2> QED BY <2>1, <2>2
<1>7. CASE recordProbeAnswer
  BY <1>0, <1>7 DEF Quiet, recordProbeAnswer, Annotations, Passes
<1>8. CASE evaluateStallProbe
  BY <1>0, <1>8 DEF Quiet, evaluateStallProbe, Annotations, Passes
<1>9. CASE escalateStall
  BY <1>0, <1>9 DEF Quiet, escalateStall, taskVars, PassOf, Annotations, Passes
<1>10. CASE clearStallProbe
  BY <1>0, <1>10 DEF Quiet, clearStallProbe, Annotations, Passes
<1>11. CASE ensureStagePodStale
  BY <1>0, <1>11 DEF Quiet, ensureStagePodStale, taskVars, Annotations, Passes
<1>12. CASE ensureStagePod
  BY <1>0, <1>12 DEF Quiet, ensureStagePod, taskVars, PassOf, Annotations, Passes
<1>13. CASE createPod
  BY <1>0, <1>13 DEF Quiet, createPod, taskVars, EndPass, Idle, Annotations, Passes
<1>14. CASE reconcilePodStage
  BY <1>0, <1>14 DEF Quiet, reconcilePodStage, taskVars, PassOf, Annotations, Passes
<1>15. CASE handleTurnSubmitFailure
  <2>1. rec'.pc \in {"wait", "idle"}
    <3>1. rec \in Passes
      BY <1>0, <1>15 DEF handleTurnSubmitFailure, Idle
    <3>2. CASE rec' = [rec EXCEPT !.pc = "wait", !.why = "ttl"]
      BY <3>1, <3>2 DEF Passes
    <3>3. CASE rec' = Idle
      BY <3>3 DEF Idle
    <3> QED BY <1>15, <3>2, <3>3 DEF handleTurnSubmitFailure, EndPass
  <2> QED BY <1>0, <1>15, <2>1 DEF Quiet, handleTurnSubmitFailure, taskVars
<1>16. CASE handleTransientWrapper
  <2>1. rec'.pc \in {"patch", "idle"}
    <3>1. rec \in Passes
      BY <1>0, <1>16 DEF handleTransientWrapper, Idle
    <3>2. CASE rec' = [rec EXCEPT !.pc = "patch", !.why = "respawn"]
      BY <3>1, <3>2 DEF Passes
    <3>3. CASE rec' = Idle
      BY <3>3 DEF Idle
    <3> QED BY <1>16, <3>2, <3>3 DEF handleTransientWrapper, EndPass
  <2>2. ann'.turn = ann.turn /\ ann'.complete = ann.complete
    BY <1>0, <1>16 DEF handleTransientWrapper, Annotations
  <2> QED BY <1>0, <1>16, <2>1, <2>2 DEF Quiet, handleTransientWrapper
<1>17. CASE drainPendingEvents
  BY <1>0, <1>17 DEF Quiet, drainPendingEvents, EndPass, Idle, Annotations, Passes
<1>18. CASE waitIdle
  BY <1>0, <1>18 DEF Quiet, waitIdle, taskVars, GoTo, Passes, Idle
<1>19. CASE waitHandoffNote
  BY <1>0, <1>19 DEF Quiet, waitHandoffNote, GoTo, Passes, Idle
<1>20. CASE writeSyntheticNote
  BY <1>0, <1>20 DEF Quiet, writeSyntheticNote, GoTo, Annotations, Passes
<1>21. CASE finish
  BY <1>0, <1>21 DEF Quiet, finish, taskVars, GoTo, Annotations, Passes
<1>22. CASE reArm
  BY <1>0, <1>22 DEF Quiet, reArm, GoTo, EndPass, Idle, Annotations, Passes
<1>23. CASE clearTurnAnnotations
  BY <1>0, <1>23 DEF Quiet, clearTurnAnnotations, GoTo, EndPass, Idle, clearedTurn, Annotations, Passes
<1> QED BY <1>1, <1>2, <1>3, <1>4, <1>5, <1>6, <1>7, <1>8, <1>9, <1>10, <1>11, <1>12, <1>13, <1>14, <1>15, <1>16, <1>17, <1>18, <1>19, <1>20, <1>21, <1>22, <1>23 DEF Pass

\* The pod watcher is quiet.
LEMMA WatchIsQuiet ==
  ASSUME Typed, Watch PROVE Quiet
<1>0. /\ ann \in Annotations /\ (rec = Idle \/ rec \in Passes)
      /\ ids.turn \in Nat /\ ids \in [pod : Pods, turn : TurnIds, events : [Events -> 0 .. MaxArrivals]]
      /\ cb \in [Handlers -> {Idle} \cup Calls]
  BY Numbers DEF Typed, AnnTyped, RecTyped, PassTyped, IdsTyped, CallbackTyped, TurnIds
<1>1. CASE WatchRead
  BY <1>0, <1>1 DEF Quiet, WatchRead, taskVars, Annotations, Passes
<1>2. CASE StampPodStartedAt
  BY <1>0, <1>2 DEF Quiet, StampPodStartedAt, Annotations, Passes
<1>3. CASE StampStageWorkStartedAt
  BY <1>0, <1>3 DEF Quiet, StampStageWorkStartedAt, Annotations, Passes
<1>4. CASE failContractMismatch
  BY <1>0, <1>4 DEF Quiet, failContractMismatch, ParkTask, clearedTurn, Annotations, Passes
<1>5. CASE handleNotReady
  BY <1>0, <1>5 DEF Quiet, handleNotReady, Annotations, Passes
<1>6. CASE WatchDelete
  BY <1>0, <1>6 DEF Quiet, WatchDelete, taskVars, Annotations, Passes
<1> QED BY <1>1, <1>2, <1>3, <1>4, <1>5, <1>6 DEF Watch

\* So is the poll, which completes turns and clears them.
LEMMA PollIsQuiet ==
  ASSUME Typed, Poll PROVE Quiet
<1>0. /\ ann \in Annotations /\ (rec = Idle \/ rec \in Passes)
      /\ ids.turn \in Nat /\ ids \in [pod : Pods, turn : TurnIds, events : [Events -> 0 .. MaxArrivals]]
      /\ cb \in [Handlers -> {Idle} \cup Calls]
  BY Numbers DEF Typed, AnnTyped, RecTyped, PassTyped, IdsTyped, CallbackTyped, TurnIds
<1>1. CASE refreshTurnFromWrapper
  BY <1>0, <1>1 DEF Quiet, refreshTurnFromWrapper, Annotations, Passes
<1>2. CASE PollOnce
  BY <1>0, <1>2 DEF Quiet, PollOnce, clearedTurn, Annotations, Passes
<1> QED BY <1>1, <1>2 DEF Poll

\* So is the world; a crash ends a callback.
LEMMA WorldIsQuiet ==
  ASSUME Typed,
         \/ PodBoots \/ PodDies \/ AgentFinishes \/ AgentHangs \/ TTLPasses \/ TurnTimesOut
         \/ CallbackLost \/ AppendTaskEvent \/ Enter \/ PassLost \/ CallbackCrashes
  PROVE  Quiet
<1>0. /\ ann \in Annotations /\ (rec = Idle \/ rec \in Passes)
      /\ ids.turn \in Nat /\ ids \in [pod : Pods, turn : TurnIds, events : [Events -> 0 .. MaxArrivals]]
      /\ cb \in [Handlers -> {Idle} \cup Calls]
  BY Numbers DEF Typed, AnnTyped, RecTyped, PassTyped, IdsTyped, CallbackTyped, TurnIds
<1>1. CASE PodBoots
  BY <1>0, <1>1 DEF Quiet, PodBoots, taskVars, Annotations, Passes
<1>2. CASE PodDies
  BY <1>0, <1>2 DEF Quiet, PodDies, taskVars, Annotations, Passes
<1>3. CASE AgentFinishes
  BY <1>0, <1>3 DEF Quiet, AgentFinishes, Annotations, Passes
<1>4. CASE AgentHangs
  BY <1>0, <1>4 DEF Quiet, AgentHangs, taskVars, Annotations, Passes
<1>5. CASE TTLPasses
  BY <1>0, <1>5 DEF Quiet, TTLPasses, taskVars, Annotations, Passes
<1>6. CASE TurnTimesOut
  BY <1>0, <1>6 DEF Quiet, TurnTimesOut, Annotations, Passes
<1>7. CASE CallbackLost
  BY <1>0, <1>7 DEF Quiet, CallbackLost, taskVars, Annotations, Passes
<1>8. CASE AppendTaskEvent
  BY <1>0, <1>8 DEF Quiet, AppendTaskEvent, Annotations, Passes
<1>9. CASE Enter
  BY <1>0, <1>9 DEF Quiet, Enter, Annotations, Passes
<1>10. CASE PassLost
  BY <1>0, <1>10 DEF Quiet, PassLost, taskVars, EndPass, Idle, Annotations, Passes
<1>11. CASE CallbackCrashes
  BY <1>0, <1>11 DEF Quiet, CallbackCrashes, taskVars, Annotations, Passes
<1> QED BY <1>1, <1>2, <1>3, <1>4, <1>5, <1>6, <1>7, <1>8, <1>9, <1>10, <1>11

\* A submitted turn is new: no number given out is as large.
LEMMA SubmitKeepsWindow ==
  ASSUME Typed, WindowKept, SubmitTurn PROVE WindowKept'
<1>1. rec \in Passes /\ ids.turn \in Nat
  BY Numbers DEF Typed, SubmitTurn, RecTyped, PassTyped, IdsTyped, TurnIds, Idle
<1>2. /\ ids'.turn = ids.turn + 1 /\ rec'.turn = ids.turn + 1
      /\ ann' = ann /\ cb' = cb /\ overlap' = overlap /\ window' = window
  BY <1>1 DEF Typed, SubmitTurn, taskVars, IdsTyped, Passes
<1>3. \A t \in Turns : (Known(t)' <=> Known(t)) /\ (ChargeKept(t)' <=> ChargeKept(t))
  BY <1>2 DEF Known, ChargeKept, Serving, Charges, Open
<1>4. \A t \in Turns : Known(t) => t <= ids.turn /\ t \in Nat
  BY DEF WindowKept, TurnsAreNew, Turns
<1>5. TurnsAreNew'
  BY <1>1, <1>2, <1>3, <1>4 DEF TurnsAreNew
<1> QED BY <1>2, <1>3, <1>5 DEF WindowKept

\* The stamp opens a turn that nobody knew.
LEMMA StampKeepsWindow ==
  ASSUME Typed, WindowKept, submitStageTurn PROVE WindowKept'
<1>1. rec \in Passes /\ rec.pc = "stamp" /\ ann \in Annotations
  BY DEF Typed, submitStageTurn, RecTyped, PassTyped, Idle, AnnTyped
<1>2. /\ ann'.turn = rec.turn /\ rec'.pc = "drain"
      /\ ids' = ids /\ cb' = cb /\ overlap' = overlap /\ window' = window
  BY <1>1 DEF submitStageTurn, GoTo, Annotations, Passes
<1>3. \A t \in Turns : /\ \A h \in Handlers : Serving(h, t)' <=> Serving(h, t)
                       /\ Charges(t)' = Charges(t)
  BY <1>2 DEF Serving, Charges
<1>4. \A t \in Turns : Known(t) => t <= ids.turn /\ t # rec.turn
  BY <1>1 DEF WindowKept, TurnsAreNew
<1>5. TurnsAreNew'
  <2>1. \A t \in Turns : Known(t)' => t = rec.turn \/ Known(t)
    BY <1>2, <1>3 DEF Known
  <2>2. rec.turn <= ids.turn
    BY <1>1 DEF WindowKept, TurnsAreNew
  <2> QED BY <1>2, <1>4, <2>1, <2>2 DEF TurnsAreNew
<1>6. ASSUME NEW t \in Turns \ overlap PROVE ChargeKept(t)'
  <2>1. ChargeKept(t) /\ t \in Turns
    BY <1>6 DEF WindowKept
  <2>2. CASE t = rec.turn
    <3>1. ~Known(t) /\ Charges(t) \in Nat
      BY <1>4, <2>1, <2>2 DEF Typed, CountsTyped, Window, Charges
    <3>2. Charges(t) = 0 /\ \A h \in Handlers : ~Serving(h, t)
      BY <3>1 DEF Known
    <3> QED BY <1>3, <2>1, <3>2 DEF ChargeKept
  <2>3. CASE t # rec.turn
    <3>1. ~Open(t)'
      BY <1>2, <2>3 DEF Open
    <3> HIDE DEF Open, Charges, Serving
    <3> QED BY <1>2, <1>3, <2>1, <3>1 DEF ChargeKept
  <2> QED BY <2>2, <2>3
<1> QED BY <1>2, <1>5, <1>6 DEF WindowKept

\* A callback charges only what it recorded, on a turn that was open, and once.
LEMMA CallbackKeepsWindow ==
  ASSUME Typed, WindowKept, NEW h \in Handlers, Callback(h) PROVE WindowKept'
<1>0. /\ cb \in [Handlers -> {Idle} \cup Calls] /\ ann \in Annotations
      /\ cb[h].pc # "idle" => cb[h] \in Calls
      /\ window \in Window /\ \A t \in Turns : Charges(t) \in Nat
  BY ServedTyped DEF Typed, CallbackTyped, AnnTyped, CountsTyped, Window, Charges
<1>1. CASE handleTurnComplete(h)
  <2>0. PICK t \in net :
          IF ann.turn # t THEN net' = net \ {t} /\ UNCHANGED <<cb, overlap>>
          ELSE /\ cb' = [cb EXCEPT ![h] = [pc |-> "usage", turn |-> t, recorded |-> FALSE]]
               /\ overlap' = overlap \cup {u \in {t} : \E g \in Handlers : Serving(g, u)}
    BY <1>1 DEF handleTurnComplete
  <2>1. window' = window /\ ann' = ann /\ ids' = ids /\ rec' = rec /\ t \in Turns
    BY <1>1, <2>0 DEF handleTurnComplete, taskVars, Typed, NetTyped
  <2>2. CASE ann.turn # t
    BY <2>0, <2>1, <2>2, QuietKeeps DEF Quiet
  <2>3. CASE ann.turn = t
    <3>1. /\ cb'[h].pc = "usage" /\ cb'[h].turn = t /\ ~cb'[h].recorded
          /\ \A g \in Handlers \ {h} : cb'[g] = cb[g]
      BY <1>0, <2>0, <2>3
    <3>2. /\ overlap \subseteq overlap'
          /\ t \notin overlap' => \A g \in Handlers : ~Serving(g, t)
      BY <2>0, <2>3
    <3>3. \A u \in Turns : /\ Charges(u)' = Charges(u) /\ (Open(u)' <=> Open(u))
                           /\ \A g \in Handlers : Serving(g, u)' => Serving(g, u) \/ (g = h /\ u = t)
      BY <2>1, <3>1 DEF Charges, Open, Serving
    <3>4. TurnsAreNew'
      <4>1. \A u \in Turns : Known(u)' => Known(u)
        BY <2>1, <2>3, <3>3 DEF Known
      <4> QED BY <2>1, <4>1 DEF WindowKept, TurnsAreNew
    <3>5. ASSUME NEW u \in Turns \ overlap' PROVE ChargeKept(u)'
      <4>1. ChargeKept(u) /\ u \in Turns
        BY <3>2, <3>5 DEF WindowKept
      <4>2. CASE u = t
        <5>1. \A g \in Handlers : ~Serving(g, u)
          BY <3>2, <3>5, <4>2
        <5> QED BY <3>1, <3>3, <4>1, <5>1 DEF ChargeKept
      <4>3. CASE u # t
        <5>1. \A g \in Handlers : Serving(g, u)' => Serving(g, u) /\ cb'[g] = cb[g]
          BY <3>1, <4>3 DEF Serving
        <5> HIDE DEF Serving, Open, Charges
        <5> QED BY <3>3, <4>1, <5>1 DEF ChargeKept
      <4> QED BY <4>2, <4>3
    <3>6. \A g \in Handlers : cb'[g].pc = "usage" => ~cb'[g].recorded
      BY <3>1 DEF WindowKept
    <3> QED BY <3>4, <3>5, <3>6 DEF WindowKept
  <2> QED BY <2>2, <2>3
<1>2. CASE recordUsage(h)
  <2>1. /\ window' = window /\ overlap' = overlap /\ ann' = ann /\ ids' = ids /\ rec' = rec
        /\ cb[h].pc = "usage" /\ cb'[h].pc = "text" /\ cb'[h].turn = cb[h].turn
        /\ \A g \in Handlers \ {h} : cb'[g] = cb[g]
        /\ cb'[h].recorded => cb[h].recorded \/ Open(cb[h].turn)
    BY <1>0, <1>2 DEF recordUsage, taskVars, Served, Open, Calls
  <2>2. \A t \in Turns : /\ Charges(t)' = Charges(t) /\ (Open(t)' <=> Open(t))
                         /\ \A g \in Handlers : Serving(g, t)' <=> Serving(g, t)
    BY <2>1 DEF Charges, Open, Serving
  <2>3. TurnsAreNew'
    <3>1. \A t \in Turns : Known(t)' => Known(t)
      BY <2>1, <2>2 DEF Known
    <3> QED BY <2>1, <3>1 DEF WindowKept, TurnsAreNew
  <2>4. ASSUME NEW t \in Turns \ overlap PROVE ChargeKept(t)'
    <3>1. ChargeKept(t) /\ t \in Turns /\ Charges(t) \in Nat
      BY <1>0, <2>4 DEF WindowKept
    <3>2. ASSUME NEW g \in Handlers, Serving(g, t), cb'[g].recorded PROVE Charges(t) = 0
      <4>1. CASE g = h
        BY <2>1, <3>1, <3>2, <4>1 DEF WindowKept, ChargeKept, Serving
      <4>2. CASE g # h
        BY <2>1, <3>1, <3>2, <4>2 DEF ChargeKept
      <4> QED BY <4>1, <4>2
    <3>3. ASSUME NEW g \in Handlers, Serving(g, t), cb'[g].pc = "budget" PROVE ~Open(t)
      BY <2>1, <3>1, <3>3 DEF ChargeKept
    <3> HIDE DEF Serving, Open, Charges
    <3> QED BY <2>2, <3>1, <3>2, <3>3 DEF ChargeKept
  <2>5. \A g \in Handlers : cb'[g].pc = "usage" => ~cb'[g].recorded
    BY <2>1 DEF WindowKept
  <2> QED BY <2>1, <2>3, <2>4, <2>5 DEF WindowKept
<1>3. CASE stampLastTurn(h) \/ (recordResult(h) /\ Served(h, "budget"))
  <2>1. /\ window' = window /\ overlap' = overlap /\ ids' = ids /\ rec' = rec
        /\ cb[h].pc \in {"text", "result"} /\ cb'[h].pc \in {"result", "budget"}
        /\ cb'[h].turn = cb[h].turn /\ cb'[h].recorded = cb[h].recorded
        /\ \A g \in Handlers \ {h} : cb'[g] = cb[g]
        /\ ann'.turn = ann.turn /\ (ann.complete => ann'.complete)
        /\ cb'[h].pc = "budget" => ~Open(cb[h].turn)'
    <3>1. CASE stampLastTurn(h)
      BY <1>0, <3>1 DEF stampLastTurn, Served, Calls
    <3>2. CASE recordResult(h) /\ Served(h, "budget")
      BY <1>0, <3>2 DEF recordResult, Served, Open, Calls, Annotations, Idle
    <3> QED BY <1>3, <3>1, <3>2
  <2>2. \A t \in Turns : /\ Charges(t)' = Charges(t) /\ (Open(t)' => Open(t))
                         /\ \A g \in Handlers : Serving(g, t)' <=> Serving(g, t)
    BY <2>1 DEF Charges, Open, Serving
  <2>3. TurnsAreNew'
    <3>1. \A t \in Turns : Known(t)' => Known(t)
      BY <2>1, <2>2 DEF Known
    <3> QED BY <2>1, <3>1 DEF WindowKept, TurnsAreNew
  <2>4. ASSUME NEW t \in Turns \ overlap PROVE ChargeKept(t)'
    <3>1. ChargeKept(t) /\ t \in Turns
      BY <2>4 DEF WindowKept
    <3>2. ASSUME NEW g \in Handlers, Serving(g, t) PROVE cb'[g].recorded = cb[g].recorded
      BY <2>1
    <3>3. ASSUME NEW g \in Handlers, Serving(g, t), cb'[g].pc = "budget" PROVE ~Open(t)'
      <4>1. CASE g = h
        BY <2>1, <3>3, <4>1 DEF Serving
      <4>2. CASE g # h
        BY <2>1, <2>2, <3>1, <3>3, <4>2 DEF ChargeKept
      <4> QED BY <4>1, <4>2
    <3> HIDE DEF Serving, Open, Charges
    <3> QED BY <2>2, <3>1, <3>2, <3>3 DEF ChargeKept
  <2>5. \A g \in Handlers : cb'[g].pc = "usage" => ~cb'[g].recorded
    BY <2>1 DEF WindowKept
  <2> QED BY <2>1, <2>3, <2>4, <2>5 DEF WindowKept
<1>4. CASE recordResult(h) /\ cb' = [cb EXCEPT ![h] = Idle]
  <2>1. Quiet
    BY <1>0, <1>4 DEF recordResult, Quiet, Annotations
  <2> QED BY <2>1, QuietKeeps
<1>5. CASE updateProjectBudget(h)
  <2>1. /\ overlap' = overlap /\ ann' = ann /\ ids' = ids /\ rec' = rec
        /\ cb[h] \in Calls /\ cb[h].pc = "budget" /\ cb' = [cb EXCEPT ![h] = Idle]
    BY <1>0, <1>5 DEF updateProjectBudget, taskVars
  <2>2. CASE window' = window
    <3>1. Quiet
      BY <1>0, <2>1, <2>2 DEF Quiet
    <3> QED BY <3>1, QuietKeeps
  <2>3. CASE cb[h].recorded /\ \E reset \in BOOLEAN : window' = Roll(window, reset, cb[h].turn)
    <3> DEFINE c == cb[h].turn
    <3>1. c \in Turns /\ Serving(h, c)
      BY <2>1 DEF Calls, Serving
    <3>2. \A t \in Turns : Charges(t)' = Charges(t) + (IF t = c THEN 1 ELSE 0)
      BY <1>0, <2>3, <3>1, RollCharges DEF Charges
    <3>3. \A g \in Handlers, t \in Turns : Serving(g, t)' => Serving(g, t) /\ cb'[g] = cb[g] /\ g # h
      BY <1>0, <2>1 DEF Serving, Idle
    <3>4. \A t \in Turns : Open(t)' <=> Open(t)
      BY <2>1 DEF Open
    <3>5. TurnsAreNew'
      <4>1. \A t \in Turns : Known(t)' => Known(t)
        BY <1>0, <2>1, <3>1, <3>2, <3>3 DEF Known
      <4> QED BY <2>1, <4>1 DEF WindowKept, TurnsAreNew
    <3>6. ASSUME NEW t \in Turns \ overlap PROVE ChargeKept(t)'
      <4>1. ChargeKept(t) /\ t \in Turns /\ Charges(t) \in Nat
        BY <1>0, <3>6 DEF WindowKept
      <4>2. CASE t = c
        <5>1. Charges(t) = 0 /\ ~Open(t)
          BY <2>1, <2>3, <3>1, <4>1, <4>2 DEF ChargeKept
        <5>2. \A g \in Handlers : ~Serving(g, t)'
          BY <3>1, <3>3, <4>1, <4>2 DEF ChargeKept
        <5>3. Charges(t)' = 1 /\ ~Open(t)'
          BY <3>2, <3>4, <4>1, <4>2, <5>1
        <5> HIDE DEF Serving, Open, Charges
        <5> QED BY <5>2, <5>3 DEF ChargeKept
      <4>3. CASE t # c
        <5>1. Charges(t)' = Charges(t)
          BY <3>2, <4>1, <4>3
        <5> HIDE DEF Serving, Open, Charges
        <5> QED BY <3>3, <3>4, <4>1, <5>1 DEF ChargeKept
      <4> QED BY <4>2, <4>3
    <3>7. \A g \in Handlers : cb'[g].pc = "usage" => ~cb'[g].recorded
      BY <1>0, <2>1 DEF WindowKept, Idle
    <3> QED BY <2>1, <3>5, <3>6, <3>7 DEF WindowKept
  <2> QED BY <1>5, <2>2, <2>3 DEF updateProjectBudget
<1> QED BY <1>1, <1>2, <1>3, <1>4, <1>5 DEF Callback, recordResult

\* Every step keeps the books of the tokens.
LEMMA NextKeepsWindow == Typed /\ WindowKept /\ [Next]_vars => WindowKept'
<1> SUFFICES ASSUME Typed, WindowKept, [Next]_vars PROVE WindowKept'
  OBVIOUS
<1>1. CASE UNCHANGED vars
  <2>1. Quiet
    BY <1>1 DEF vars, Quiet
  <2> QED BY <2>1, QuietKeeps
<1>2. CASE Pass
  BY <1>2, PassIsQuiet, QuietKeeps, SubmitKeepsWindow, StampKeepsWindow
<1> QED BY <1>1, <1>2, WatchIsQuiet, PollIsQuiet, WorldIsQuiet, QuietKeeps, CallbackKeepsWindow DEF Next

----------------------------------------------------------------------------
(* The theorems. *)

IInv == Typed /\ EventsKept /\ WindowKept

\* The types and both books hold in every state, for any number of pods, turns,
\* keys and faults.
THEOREM Invariance == Spec => []IInv
<1>1. Init => IInv
  <2> SUFFICES ASSUME Init PROVE IInv
    OBVIOUS
  <2>1. Typed
    BY InitTyped
  <2>2. EventsKept
    <3> SUFFICES ASSUME NEW e \in Events
                 PROVE  ids.events[e] + Owed(e) <= Count(st.pending, e) + told[e] + dropped[e]
      BY DEF EventsKept
    <3>1. ids.events[e] = 0 /\ Owed(e) = 0
      BY DEF Init, Owed, Idle
    <3> HIDE DEF Owed
    <3> QED BY <2>1, <3>1, BookEntries
  <2>3. WindowKept
    <3>1. \A t \in Turns : Charges(t) = 0 /\ t # 0 /\ \A h \in Handlers : ~Serving(h, t)
      BY Numbers DEF Init, Charges, Window, Nothing, Serving, Idle
    <3>2. \A t \in Turns : ~Known(t) /\ ~Open(t)
      BY <3>1 DEF Init, Known, Open
    <3>3. \A h \in Handlers : cb[h].pc = "idle"
      BY DEF Init, Idle
    <3>4. TurnsAreNew
      BY <3>2 DEF Init, TurnsAreNew, Idle
    <3> HIDE DEF Serving, Charges, Open
    <3> QED BY <3>1, <3>2, <3>3, <3>4 DEF WindowKept, ChargeKept
  <2> QED BY <2>1, <2>2, <2>3 DEF IInv
<1>2. IInv /\ [Next]_vars => IInv'
  BY NextTyped, NextKeepsBooks, NextKeepsWindow DEF IInv
<1> QED BY <1>1, <1>2, PTL DEF Spec

\* Every variable keeps its type: the queue of events its cap, the threads their
\* steps, and the probes of a turn their ladder (appendEventCapped, stall.go).
THEOREM TypeCorrect == Spec => []TypeOK
<1>1. IInv => TypeOK
  BY TypedOK DEF IInv
<1> QED BY <1>1, Invariance, PTL

\* No event is lost between its arrival and a turn, whatever arrives while a turn
\* is submitted, whatever keys repeat and wherever a pass is cut short: what is not
\* queued was told to the agent or let go by the cap (drainRenderedEvents).
THEOREM EventsAreAccounted == Spec => []EventsAccounted
<1>1. IInv => EventsAccounted
  <2> SUFFICES ASSUME IInv, NEW e \in Events
               PROVE  ids.events[e] <= Count(st.pending, e) + told[e] + dropped[e]
    BY DEF EventsAccounted
  <2>1. ids.events[e] + Owed(e) <= Count(st.pending, e) + told[e] + dropped[e]
    BY DEF IInv, EventsKept
  <2> HIDE DEF Owed
  <2> QED BY <2>1, BookEntries DEF IInv
<1> QED BY <1>1, Invariance, PTL

\* A turn is charged to one window, once, whatever callbacks are repeated, refused,
\* cut short or served after a reset, unless two of them are of that turn and are
\* served at once (recordUsage, recordResult, updateProjectBudget).
THEOREM TurnsAreChargedOnce == Spec => []ChargedOnce
<1>1. IInv => ChargedOnce
  BY DEF IInv, WindowKept, ChargeKept, Charges, ChargedOnce
<1> QED BY <1>1, Invariance, PTL

=============================================================================

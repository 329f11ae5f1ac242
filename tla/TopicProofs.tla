---------------------------- MODULE TopicProofs ----------------------------
(***************************************************************************)
(* Proofs about Batcher, and about Topic, which is built on it: for any     *)
(* number of items or senders, of handler goroutines and callers of         *)
(* Shutdown, and any options.  What the proofs about Topic need of the      *)
(* Batcher is its own inductive invariant, which every step of the Topic    *)
(* preserves because it is a step of the Batcher or leaves it alone.  The   *)
(* Batcher implements BatchService, and therefore the Topic does.           *)
(***************************************************************************)
EXTENDS Topic, FiniteSetTheorems, SequenceTheorems, TLAPS

-----------------------------------------------------------------------------
(* The inductive invariant of the Batcher *)

\* The counters agree with the goroutines there are.
Counted ==
    /\ nHandlers = Cardinality(Working)
    /\ wg = Cardinality(Live)
    /\ nHandlers <= Handlers

\* No pending waiter is larger than a batch: nextBatch can always take the
\* first one.
PendingFits == \A j \in 1..Len(pending) : ~TooLarge(pending[j])

\* Where the caller of Shutdown is, and what it has waited for.
Closing ==
    /\ shutdown <=> closer # "idle"
    /\ closer = "returned" => Live = {}

\* An item is accepted once.
Distinct(s) == \A a, b \in 1..Len(s) : s[a] = s[b] => a = b

\* An item nobody has added yet is unknown to the batcher.
Fresh ==
    \A i \in Items :
        caller[i] = "idle" => ~InSeq(i, accepted) /\ errc[i] = NoResult

\* What was taken is being handled or has its result.
Tracked ==
    \A i \in Items : InSeq(i, taken) =>
        \/ errc[i] # NoResult
        \/ \E g \in Goroutines : gpc[g] = "calling" /\ InSeq(i, batch[g])

\* What is being handled was taken and has no result yet.
BatchesTaken ==
    \A g \in Goroutines, i \in Items :
        gpc[g] = "calling" /\ InSeq(i, batch[g])
            => InSeq(i, taken) /\ errc[i] = NoResult

\* No item is handled by two goroutines.
Disjoint ==
    \A g, h \in Goroutines, i \in Items :
        /\ gpc[g] = "calling" /\ InSeq(i, batch[g])
        /\ gpc[h] = "calling" /\ InSeq(i, batch[h])
        => g = h

\* What waits in b.pending has no result yet.
PendingUnanswered == \A i \in Items : InSeq(i, pending) => errc[i] = NoResult

\* Who has which item.
Ownership ==
    /\ TakenInOrder
    /\ Distinct(accepted)
    /\ Fresh
    /\ Tracked
    /\ BatchesTaken
    /\ Disjoint
    /\ PendingUnanswered

\* The inductive invariant.
IInv ==
    /\ TypeOK
    /\ Counted
    /\ PendingFits
    /\ NoStrandedWork
    /\ Closing
    /\ Ownership

-----------------------------------------------------------------------------
(* Lemmas about sequences and sets *)

\* nextBatch cuts b.pending into the batch and the rest.
LEMMA CutSeq ==
    ASSUME NEW p \in Seq(Items), NEW k \in 0..Len(p)
    PROVE  /\ SubSeq(p, 1, k) \in Seq(Items)
           /\ Len(SubSeq(p, 1, k)) = k
           /\ \A j \in 1..k : SubSeq(p, 1, k)[j] = p[j]
           /\ Rest(p, k) \in Seq(Items)
           /\ Len(Rest(p, k)) = Len(p) - k
           /\ \A j \in 1..(Len(p) - k) : Rest(p, k)[j] = p[j + k]
           /\ SubSeq(p, 1, k) \o Rest(p, k) = p
<1>1. Len(p) \in Nat
  BY LenProperties
<1>2. /\ SubSeq(p, 1, k) \in Seq(Items)
      /\ Len(SubSeq(p, 1, k)) = k
      /\ \A j \in 1..k : SubSeq(p, 1, k)[j] = p[j]
  BY <1>1
<1>3. /\ Rest(p, k) \in Seq(Items)
      /\ Len(Rest(p, k)) = Len(p) - k
      /\ \A j \in 1..(Len(p) - k) : Rest(p, k)[j] = p[j + k]
  BY <1>1 DEF Rest
<1>4. SubSeq(p, 1, k) \o Rest(p, k) = p
  BY <1>1, <1>2, <1>3, SMTT(30)
<1> QED
  BY <1>2, <1>3, <1>4

\* The items taken so far, the batch and the rest of b.pending: it does not
\* matter which two are joined first.
LEMMA ConcatItems ==
    \A s, t, u \in Seq(Items) : (s \o t) \o u = s \o (t \o u)
  BY ConcatAssociative

\* Membership in a concatenation.
LEMMA InConcat ==
    ASSUME NEW s \in Seq(Items), NEW t \in Seq(Items), NEW i
    PROVE  InSeq(i, s \o t) <=> InSeq(i, s) \/ InSeq(i, t)
<1>1. /\ Len(s) \in Nat /\ Len(t) \in Nat
      /\ Len(s \o t) = Len(s) + Len(t)
      /\ \A j \in 1..Len(s) : (s \o t)[j] = s[j]
      /\ \A j \in 1..Len(t) : (s \o t)[j + Len(s)] = t[j]
  BY LenProperties, ConcatProperties
<1>2. InSeq(i, s \o t) => InSeq(i, s) \/ InSeq(i, t)
  BY DEF InSeq
<1>3. InSeq(i, s) => InSeq(i, s \o t)
  BY <1>1 DEF InSeq
<1>4. InSeq(i, t) => InSeq(i, s \o t)
  <2> SUFFICES ASSUME NEW j \in 1..Len(t), t[j] = i PROVE InSeq(i, s \o t)
    BY DEF InSeq
  <2>1. j + Len(s) \in 1..Len(s \o t) /\ (s \o t)[j + Len(s)] = i
    BY <1>1
  <2> QED
    BY <2>1 DEF InSeq
<1> QED
  BY <1>2, <1>3, <1>4

\* No item is in both halves of a sequence without repetitions.
LEMMA DistinctHalves ==
    ASSUME NEW s \in Seq(Items), NEW t \in Seq(Items), Distinct(s \o t), NEW i,
           InSeq(i, s), InSeq(i, t)
    PROVE  FALSE
<1>1. /\ Len(s) \in Nat /\ Len(t) \in Nat
      /\ Len(s \o t) = Len(s) + Len(t)
      /\ \A j \in 1..Len(s) : (s \o t)[j] = s[j]
      /\ \A j \in 1..Len(t) : (s \o t)[j + Len(s)] = t[j]
  BY LenProperties, ConcatProperties
<1>2. PICK a \in 1..Len(s) : s[a] = i
  BY DEF InSeq
<1>3. PICK b \in 1..Len(t) : t[b] = i
  BY DEF InSeq
<1>4. /\ a \in 1..Len(s \o t) /\ b + Len(s) \in 1..Len(s \o t)
      /\ (s \o t)[a] = (s \o t)[b + Len(s)]
  BY <1>1, <1>2, <1>3
<1>5. a = b + Len(s)
  BY <1>4 DEF Distinct
<1> QED
  BY <1>1, <1>5

\* A sequence without repetitions gets a new last element.
LEMMA DistinctAppend ==
    ASSUME NEW s \in Seq(Items), NEW i \in Items, Distinct(s), ~InSeq(i, s)
    PROVE  Distinct(Append(s, i))
  BY LenProperties, AppendProperties DEF Distinct, InSeq

\* A goroutine name joins or leaves a set of goroutines.
LEMMA JoinLeave ==
    ASSUME NEW S \in SUBSET Goroutines, NEW g \in Goroutines
    PROVE  /\ Cardinality(S) \in Nat
           /\ g \notin S => Cardinality(S \cup {g}) = Cardinality(S) + 1
           /\ g \in S => Cardinality(S \ {g}) = Cardinality(S) - 1
           /\ g \in S => Cardinality(S) > 0
           /\ Cardinality(S) = 0 <=> S = {}
<1>1. IsFiniteSet(S)
  BY BatcherAssumption, FS_Subset
<1>2. Cardinality(S) \in Nat
  BY <1>1, FS_CardinalityType
<1>3. g \notin S => Cardinality(S \cup {g}) = Cardinality(S) + 1
  BY <1>1, FS_AddElement
<1>4. g \in S => Cardinality(S \ {g}) = Cardinality(S) - 1
  BY <1>1, FS_RemoveElement
<1>5. Cardinality(S) = 0 <=> S = {}
  BY <1>1, FS_EmptySet
<1> QED
  BY <1>2, <1>3, <1>4, <1>5

\* The defaults make both limits positive.
LEMMA Defaults == Handlers \in Nat \ {0} /\ MinBatch \in Nat \ {0}
  BY BatcherAssumption DEF Handlers, MinBatch

\* nextBatch takes something, unless b.pending is empty or below the minimum.
LEMMA TakesSomething ==
    ASSUME NEW p \in Seq(Items), NEW sd \in BOOLEAN, NEW k \in 0..Len(p),
           NextBatchLen(p, sd, k), ~BelowMinimum(p, sd),
           Len(p) > 0, ~TooLarge(p[1])
    PROVE  k > 0
<1> SUFFICES ASSUME k = 0 PROVE FALSE
  OBVIOUS
<1>1. Len(p) \in Nat /\ p[1] \in Items
  BY LenProperties, ElementOfSeq
<1>2. ~Fits(p, 1)
  BY <1>1 DEF NextBatchLen
<1>3. MaxBatchSize > 0 => 1 <= MaxBatchSize
  BY BatcherAssumption
<1>4. MaxBatchByteSize > 0 => FitsBytes(p, 1)
  <2> SUFFICES ASSUME MaxBatchByteSize > 0 PROVE FitsBytes(p, 1)
    OBVIOUS
  <2>1. ByteSize[p[1]] \in 0..MaxBatchByteSize
    BY <1>1, BatcherAssumption DEF TooLarge
  <2> DEFINE s == [j \in 0..1 |-> IF j = 0 THEN 0 ELSE ByteSize[p[1]]]
  <2>2. s \in [0..1 -> 0..MaxBatchByteSize]
    BY <2>1, BatcherAssumption
  <2>3. s[0] = 0 /\ s[1] = ByteSize[p[1]]
    OBVIOUS
  <2>4. \A j \in 1..1 : s[j] = s[j-1] + ByteSize[p[j]]
    BY <2>1, <2>3
  <2> QED
    BY <2>2, <2>3, <2>4 DEF FitsBytes
<1> QED
  BY <1>2, <1>3, <1>4 DEF Fits

-----------------------------------------------------------------------------
(* Ownership when nextBatch takes k waiters of p for goroutine g *)

\* nextBatch takes the first k waiters of p, and goroutine g, if there are any,
\* gets them as its batch.
Takes(p, k, g) ==
    /\ errc' = errc
    /\ accepted' = taken \o p
    /\ pending' = Rest(p, k)
    /\ taken' = taken \o SubSeq(p, 1, k)
    /\ Distinct(taken \o p)
    /\ \A i \in Items : InSeq(i, p) => errc[i] = NoResult
    /\ k > 0 => /\ g \in Goroutines
                /\ gpc'[g] = "calling"
                /\ batch'[g] = SubSeq(p, 1, k)
    /\ \A h \in Goroutines : gpc[h] = "calling" =>
         gpc'[h] = "calling" /\ batch'[h] = batch[h]
    /\ \A h \in Goroutines : gpc'[h] = "calling" =>
         \/ gpc[h] = "calling" /\ batch'[h] = batch[h]
         \/ h = g /\ batch'[h] = SubSeq(p, 1, k)

\* A batch that nextBatch cuts off b.pending and gives to a goroutine leaves
\* every item with one owner.
LEMMA OwnershipOfBatch ==
    ASSUME TypeOK, TypeOK', Ownership,
           NEW p \in Seq(Items), NEW k \in 0..Len(p), NEW g, Takes(p, k, g)
    PROVE  /\ TakenInOrder'
           /\ Distinct(accepted')
           /\ Tracked'
           /\ BatchesTaken'
           /\ Disjoint'
           /\ PendingUnanswered'
<1> USE DEF Takes
<1> DEFINE b == SubSeq(p, 1, k)
<1>1. /\ b \in Seq(Items)
      /\ Rest(p, k) \in Seq(Items)
      /\ b \o Rest(p, k) = p
      /\ taken \in Seq(Items)
  BY CutSeq DEF TypeOK
<1>2. \A i \in Items : InSeq(i, p) <=> InSeq(i, b) \/ InSeq(i, Rest(p, k))
  <2>1. \A i : InSeq(i, b \o Rest(p, k))
                  <=> InSeq(i, b) \/ InSeq(i, Rest(p, k))
    BY <1>1, InConcat, Zenon
  <2> QED
    BY <1>1, <2>1, Zenon
<1>3. \A i \in Items : InSeq(i, taken') <=> InSeq(i, taken) \/ InSeq(i, b)
  BY <1>1, InConcat
<1>4. \A i \in Items : ~(InSeq(i, taken) /\ InSeq(i, b))
  BY <1>2, DistinctHalves, <1>1
<1> HIDE DEF b
<1>5. TakenInOrder'
  <2>1. (taken \o b) \o Rest(p, k) = taken \o (b \o Rest(p, k))
    BY <1>1, ConcatItems, Zenon
  <2>2. accepted' = taken' \o pending'
    BY <1>1, <2>1, Zenon DEF b
  <2> QED
    BY <2>2, Zenon DEF TakenInOrder
<1>6. Distinct(accepted')
  OBVIOUS
<1>7. Tracked'
  <2> SUFFICES ASSUME NEW i \in Items, InSeq(i, taken'), errc'[i] = NoResult
               PROVE  \E h \in Goroutines :
                         gpc'[h] = "calling" /\ InSeq(i, batch'[h])
    BY DEF Tracked
  <2>1. CASE InSeq(i, taken)
    BY <2>1 DEF Ownership, Tracked
  <2>2. CASE InSeq(i, b)
    <3>1. k > 0
      BY <2>2, CutSeq DEF InSeq, b
    <3> QED
      BY <2>2, <3>1 DEF b
  <2> QED
    BY <1>3, <2>1, <2>2
<1>8. BatchesTaken'
  <2> SUFFICES ASSUME NEW h \in Goroutines, NEW i \in Items,
                      gpc'[h] = "calling", InSeq(i, batch'[h])
               PROVE  InSeq(i, taken') /\ errc'[i] = NoResult
    BY DEF BatchesTaken
  <2>1. CASE gpc[h] = "calling" /\ batch'[h] = batch[h]
    BY <2>1, <1>3 DEF Ownership, BatchesTaken
  <2>2. CASE batch'[h] = b
    BY <2>2, <1>2, <1>3
  <2> QED
    BY <2>1, <2>2 DEF b
<1>9. Disjoint'
  <2> SUFFICES ASSUME NEW h \in Goroutines, NEW f \in Goroutines,
                      NEW i \in Items,
                      gpc'[h] = "calling", InSeq(i, batch'[h]),
                      gpc'[f] = "calling", InSeq(i, batch'[f]), f # h
               PROVE  FALSE
    BY DEF Disjoint
  <2>1. CASE gpc[h] = "calling" /\ batch'[h] = batch[h]
             /\ gpc[f] = "calling" /\ batch'[f] = batch[f]
    BY <2>1 DEF Ownership, Disjoint
  <2>2. CASE gpc[h] = "calling" /\ batch'[h] = batch[h] /\ batch'[f] = b
    BY <2>2, <1>4 DEF Ownership, BatchesTaken
  <2>3. CASE gpc[f] = "calling" /\ batch'[f] = batch[f] /\ batch'[h] = b
    BY <2>3, <1>4 DEF Ownership, BatchesTaken
  <2> QED
    BY <2>1, <2>2, <2>3 DEF b
<1>10. PendingUnanswered'
  BY <1>2 DEF PendingUnanswered
<1> QED
  BY <1>5, <1>6, <1>7, <1>8, <1>9, <1>10

\* A step that leaves the items, the batches and the results alone.
LEMMA OwnershipUnchanged ==
    ASSUME Ownership,
           pending' = pending, taken' = taken, accepted' = accepted,
           errc' = errc, batch' = batch,
           \A g \in Goroutines : gpc'[g] = "calling" <=> gpc[g] = "calling"
    PROVE  /\ TakenInOrder' /\ Distinct(accepted)' /\ Tracked'
           /\ BatchesTaken' /\ Disjoint' /\ PendingUnanswered'
<1>1. TakenInOrder' /\ Distinct(accepted)'
  BY DEF Ownership, TakenInOrder, Distinct
<1>2. Tracked'
  BY DEF Ownership, Tracked
<1>3. BatchesTaken'
  BY DEF Ownership, BatchesTaken
<1>4. Disjoint'
  BY DEF Ownership, Disjoint
<1>5. PendingUnanswered'
  BY DEF Ownership, PendingUnanswered
<1> QED
  BY <1>1, <1>2, <1>3, <1>4, <1>5

-----------------------------------------------------------------------------
(* handleBatch(nextBatch()), called by AddNoWait and by Shutdown *)

\* handleBatch(nextBatch()) keeps the counters right, leaves nothing stranded,
\* and gives the batch it takes to the goroutine it starts.
LEMMA HandleBatchStep ==
    ASSUME IInv, NEW p \in Seq(Items), NEW sd \in BOOLEAN,
           HandleBatch(p, sd), nHandlers < Handlers,
           shutdown' = sd,
           errc' = errc,
           accepted' = taken \o p,
           caller' \in [Items -> {"idle", "select", "result", "ctx-done"}],
           closer' \in {"idle", "waiting", "returned"},
           Distinct(taken \o p),
           \A i \in Items : InSeq(i, p) => errc[i] = NoResult,
           \A j \in 1..Len(p) : ~TooLarge(p[j])
    PROVE  /\ TypeOK'
           /\ Counted'
           /\ PendingFits'
           /\ NoStrandedWork'
           /\ TakenInOrder' /\ Distinct(accepted') /\ Tracked'
           /\ BatchesTaken' /\ Disjoint' /\ PendingUnanswered'
<1>1. PICK k \in 0..Len(p) :
        /\ NextBatchLen(p, sd, k)
        /\ pending' = Rest(p, k)
        /\ taken' = taken \o SubSeq(p, 1, k)
        /\ IF k = 0
           THEN UNCHANGED <<nHandlers, wg, gpc, batch>>
           ELSE \E g \in Goroutines :
                    /\ gpc[g] = "none"
                    /\ gpc' = [gpc EXCEPT ![g] = "calling"]
                    /\ batch' = [batch EXCEPT ![g] = SubSeq(p, 1, k)]
                    /\ wg' = wg + 1
                    /\ nHandlers' = nHandlers + 1
  BY DEF HandleBatch
<1>2. /\ Len(p) \in Nat
      /\ SubSeq(p, 1, k) \in Seq(Items)
      /\ Rest(p, k) \in Seq(Items)
      /\ Len(Rest(p, k)) = Len(p) - k
      /\ \A j \in 1..(Len(p) - k) : Rest(p, k)[j] = p[j + k]
      /\ taken \in Seq(Items)
  BY CutSeq, LenProperties DEF IInv, TypeOK
<1>3. taken' \in Seq(Items) /\ accepted' \in Seq(Items)
  BY <1>1, <1>2, ConcatProperties
<1>4. PendingFits'
  <2> SUFFICES ASSUME NEW j \in 1..(Len(p) - k) PROVE ~TooLarge(p[j + k])
    BY <1>1, <1>2 DEF PendingFits, TooLarge
  <2>1. j + k \in 1..Len(p)
    BY <1>2
  <2> QED
    BY <2>1
<1>5. CASE k = 0
  <2>1. UNCHANGED <<nHandlers, wg, gpc, batch>>
    BY <1>1, <1>5
  <2>2. TypeOK'
    BY <1>1, <1>2, <1>3, <2>1 DEF IInv, TypeOK, Results
  <2>3. Counted'
    BY <2>1 DEF IInv, Counted, Working, Live
  <2>4. NoStrandedWork'
    <3>1. pending' = p
      BY <1>1, <1>5 DEF Rest
    <3>2. CASE BelowMinimum(p, sd)
      BY <3>1, <3>2 DEF NoStrandedWork, BelowMinimum, MinBatch
    <3>3. CASE ~BelowMinimum(p, sd)
      <4>1. Len(p) = 0
        BY <1>1, <1>2, <1>5, <3>3, TakesSomething
      <4>2. p = <<>>
        BY <4>1, EmptySeq
      <4> QED
        BY <3>1, <4>1, <4>2, Defaults DEF NoStrandedWork, MinBatch
    <3> QED
      BY <3>2, <3>3
  <2>5. /\ TakenInOrder' /\ Distinct(accepted') /\ Tracked'
        /\ BatchesTaken' /\ Disjoint' /\ PendingUnanswered'
    <3>1. Takes(p, k, p)
      BY <1>1, <1>5, <2>1 DEF Takes
    <3> QED
      BY <2>2, <3>1, OwnershipOfBatch DEF IInv
  <2> QED
    BY <1>4, <2>2, <2>3, <2>4, <2>5
<1>6. CASE k # 0
  <2>1. PICK g \in Goroutines :
          /\ gpc[g] = "none"
          /\ gpc' = [gpc EXCEPT ![g] = "calling"]
          /\ batch' = [batch EXCEPT ![g] = SubSeq(p, 1, k)]
          /\ wg' = wg + 1
          /\ nHandlers' = nHandlers + 1
    BY <1>1, <1>6
  <2>2. TypeOK'
    BY <1>1, <1>2, <1>3, <2>1 DEF IInv, TypeOK, Results
  <2>3. Counted'
    <3>1. /\ Working \in SUBSET Goroutines /\ g \notin Working
          /\ Working' = Working \cup {g}
          /\ Live \in SUBSET Goroutines /\ g \notin Live
          /\ Live' = Live \cup {g}
      BY <2>1 DEF IInv, TypeOK, Working, Live
    <3>2. /\ Cardinality(Working') = Cardinality(Working) + 1
          /\ Cardinality(Live') = Cardinality(Live) + 1
      BY <3>1, JoinLeave
    <3> QED
      BY <2>1, <3>2, Defaults DEF IInv, TypeOK, Counted, Handlers
  <2>4. NoStrandedWork'
    BY <2>1 DEF IInv, TypeOK, NoStrandedWork
  <2>5. /\ TakenInOrder' /\ Distinct(accepted') /\ Tracked'
        /\ BatchesTaken' /\ Disjoint' /\ PendingUnanswered'
    <3>1. /\ gpc'[g] = "calling" /\ batch'[g] = SubSeq(p, 1, k)
          /\ \A h \in Goroutines \ {g} :
                gpc'[h] = gpc[h] /\ batch'[h] = batch[h]
      BY <2>1 DEF IInv, TypeOK
    <3>2. \A h \in Goroutines : gpc[h] = "calling" =>
               gpc'[h] = "calling" /\ batch'[h] = batch[h]
      BY <2>1, <3>1
    <3>3. \A h \in Goroutines : gpc'[h] = "calling" =>
               \/ gpc[h] = "calling" /\ batch'[h] = batch[h]
               \/ h = g /\ batch'[h] = SubSeq(p, 1, k)
      BY <3>1
    <3>4. Takes(p, k, g)
      BY <1>1, <3>1, <3>2, <3>3 DEF Takes
    <3> QED
      BY <2>2, <3>4, OwnershipOfBatch DEF IInv
  <2> QED
    BY <1>4, <2>2, <2>3, <2>4, <2>5
<1> QED
  BY <1>5, <1>6

-----------------------------------------------------------------------------
(* The induction *)

\* A Batcher that New has just made satisfies the invariant.
LEMMA InitIInv == Init => IInv
<1> SUFFICES ASSUME Init PROVE IInv
  OBVIOUS
<1> USE DEF Init
<1>1. TypeOK
  BY EmptySeq DEF TypeOK, Results
<1>2. Counted
  <2>1. Working = {} /\ Live = {}
    BY DEF Working, Live
  <2> QED
    BY <2>1, FS_EmptySet, Defaults DEF Counted, Handlers
<1>3. Len(<<>>) = 0 /\ <<>> \o <<>> = <<>>
  OBVIOUS
<1>4. PendingFits /\ NoStrandedWork /\ Closing
  BY <1>3, Defaults DEF PendingFits, NoStrandedWork, Closing, MinBatch
<1>5. Ownership
  BY <1>3 DEF Ownership, TakenInOrder, Distinct, Fresh, Tracked, BatchesTaken,
              Disjoint, PendingUnanswered, InSeq
<1> QED
  BY <1>1, <1>2, <1>4, <1>5 DEF IInv

\* AddNoWait refuses an item: its channel is the only thing that changes.
LEMMA StepAddRefused ==
    ASSUME IInv, NEW i \in Items, AddRefused(i) PROVE IInv'
<1> USE DEF AddRefused, IInv
<1>1. TypeOK'
  BY DEF TypeOK, Results
<1>2. Counted' /\ PendingFits' /\ NoStrandedWork' /\ Closing'
  BY DEF Counted, Working, Live, PendingFits, TooLarge, NoStrandedWork,
         MinBatch, Closing, Handlers
<1>3. ~InSeq(i, accepted)
  BY DEF Ownership, Fresh
<1>4. ~InSeq(i, taken) /\ ~InSeq(i, pending)
  BY <1>3, InConcat DEF Ownership, TakenInOrder, TypeOK
<1>5. /\ errc' \in [Items -> Results]
      /\ \A j \in Items \ {i} : errc'[j] = errc[j] /\ caller'[j] = caller[j]
      /\ caller'[i] = "select" /\ errc'[i] # NoResult
  BY <1>1 DEF TypeOK, NoResult, ErrShut, ErrTooLarge
<1>6. TakenInOrder' /\ Distinct(accepted)'
  BY DEF Ownership, TakenInOrder, Distinct
<1>7. Fresh'
  <2> SUFFICES ASSUME NEW j \in Items, caller'[j] = "idle"
               PROVE  ~InSeq(j, accepted') /\ errc'[j] = NoResult
    BY DEF Fresh
  <2>1. accepted' = accepted /\ j # i
    BY <1>5
  <2> QED
    BY <1>5, <2>1 DEF Ownership, Fresh
<1>8. Tracked' /\ BatchesTaken' /\ Disjoint' /\ PendingUnanswered'
  BY <1>4, <1>5 DEF Ownership, Tracked, BatchesTaken, Disjoint,
                    PendingUnanswered, InSeq
<1> QED
  BY <1>1, <1>2, <1>6, <1>7, <1>8 DEF Ownership

\* AddNoWait queues an item, and may start a handler.
LEMMA StepAddAccepted ==
    ASSUME IInv, NEW i \in Items, AddAccepted(i) PROVE IInv'
<1> DEFINE p == Append(pending, i)
<1>0. /\ pending \in Seq(Items) /\ taken \in Seq(Items)
      /\ accepted \in Seq(Items) /\ nHandlers \in Nat
      /\ accepted = taken \o pending
  BY DEF IInv, TypeOK, Ownership, TakenInOrder
<1>1. /\ p \in Seq(Items) /\ Len(p) = Len(pending) + 1 /\ Len(pending) \in Nat
      /\ p[Len(pending) + 1] = i
      /\ \A j \in 1..Len(pending) : p[j] = pending[j]
  BY <1>0, LenProperties, AppendProperties
<1>2. accepted' = taken \o p
  <2>1. p = pending \o <<i>> /\ <<i>> \in Seq(Items)
    BY <1>0, AppendIsConcat
  <2>2. Append(accepted, i) = accepted \o <<i>>
    BY <1>0, AppendIsConcat
  <2>3. (taken \o pending) \o <<i>> = taken \o (pending \o <<i>>)
    BY <1>0, <2>1, ConcatItems
  <2> QED
    BY <1>0, <2>1, <2>2, <2>3 DEF AddAccepted
<1>3. Distinct(taken \o p)
  <2>1. Distinct(Append(accepted, i))
    BY <1>0, DistinctAppend DEF AddAccepted, IInv, Ownership, Fresh
  <2> QED
    BY <1>2, <2>1 DEF AddAccepted
<1>4. \A j \in Items : InSeq(j, p) => errc[j] = NoResult
  <2> SUFFICES ASSUME NEW j \in Items, NEW n \in 1..Len(p), p[n] = j
               PROVE  errc[j] = NoResult
    BY DEF InSeq
  <2>1. CASE n = Len(pending) + 1
    BY <1>1, <2>1 DEF AddAccepted, IInv, Ownership, Fresh
  <2>2. CASE n \in 1..Len(pending)
    BY <1>1, <2>2 DEF IInv, Ownership, PendingUnanswered, InSeq
  <2> QED
    BY <1>1, <2>1, <2>2
<1>5. \A j \in 1..Len(p) : ~TooLarge(p[j])
  BY <1>1 DEF AddAccepted, IInv, PendingFits
<1>6. /\ caller' \in [Items -> {"idle", "select", "result", "ctx-done"}]
      /\ caller'[i] = "select"
      /\ \A j \in Items \ {i} : caller'[j] = caller[j]
  BY DEF AddAccepted, IInv, TypeOK
<1>7. /\ closer' = closer /\ shutdown' = FALSE /\ shutdown = FALSE
      /\ errc' = errc /\ closer = "idle"
  BY DEF AddAccepted, IInv, TypeOK, Closing
<1>8. Closing'
  BY <1>7 DEF Closing
<1>9. Fresh'
  <2> SUFFICES ASSUME NEW j \in Items, caller'[j] = "idle"
               PROVE  ~InSeq(j, accepted') /\ errc'[j] = NoResult
    BY DEF Fresh
  <2>1. j # i /\ caller[j] = "idle"
    BY <1>6
  <2>2. ~InSeq(j, accepted) /\ errc[j] = NoResult
    BY <2>1 DEF IInv, Ownership, Fresh
  <2>3. accepted' = Append(accepted, i)
    BY DEF AddAccepted
  <2>4. ~InSeq(j, accepted')
    BY <1>0, <2>1, <2>2, <2>3, AppendProperties, LenProperties DEF InSeq
  <2> QED
    BY <2>2, <2>4, <1>7
<1>10. CASE MayStart
  <2>1. HandleBatch(p, FALSE)
    BY <1>7, <1>10 DEF AddAccepted
  <2>2. nHandlers < Handlers
    BY <1>10 DEF MayStart
  <2> HIDE DEF p
  <2>3. /\ TypeOK' /\ Counted' /\ PendingFits' /\ NoStrandedWork'
        /\ TakenInOrder' /\ Distinct(accepted') /\ Tracked'
        /\ BatchesTaken' /\ Disjoint' /\ PendingUnanswered'
    <3>1. shutdown' = FALSE /\ closer' \in {"idle", "waiting", "returned"}
      BY <1>7
    <3> QED
      BY <1>1, <1>2, <1>3, <1>4, <1>5, <1>6, <1>7, <2>1, <2>2, <3>1,
         HandleBatchStep
  <2> QED
    BY <1>8, <1>9, <2>3 DEF IInv, Ownership
<1>11. CASE ~MayStart
  <2>1. /\ pending' = p /\ accepted' = Append(accepted, i)
        /\ UNCHANGED <<nHandlers, wg, gpc, batch, taken>>
    BY <1>11 DEF AddAccepted
  <2>2. accepted' \in Seq(Items)
    BY <1>0, <2>1, AppendProperties
  <2>3. TypeOK'
    BY <1>1, <1>6, <1>7, <2>1, <2>2 DEF IInv, TypeOK
  <2>4. Counted'
    BY <2>1 DEF IInv, Counted, Working, Live
  <2>5. PendingFits'
    BY <1>5, <2>1 DEF PendingFits, TooLarge
  <2>6. NoStrandedWork'
    BY <1>0, <1>11, <2>1, Defaults DEF NoStrandedWork, MayStart
  <2>7. TakenInOrder' /\ Distinct(accepted')
    BY <1>2, <1>3, <2>1 DEF TakenInOrder
  <2>8. Tracked' /\ BatchesTaken' /\ Disjoint'
    BY <1>7, <2>1 DEF IInv, Ownership, Tracked, BatchesTaken, Disjoint, InSeq
  <2>9. PendingUnanswered'
    BY <1>4, <1>7, <2>1 DEF PendingUnanswered, InSeq
  <2> QED
    BY <1>8, <1>9, <2>3, <2>4, <2>5, <2>6, <2>7, <2>8, <2>9 DEF IInv, Ownership
<1> QED
  BY <1>10, <1>11

\* Add returns to its caller.
LEMMA StepAddReturns ==
    ASSUME IInv, NEW i \in Items, AddReturns(i) PROVE IInv'
<1> USE DEF AddReturns, IInv
<1>1. TypeOK'
  BY DEF TypeOK
<1>2. Counted' /\ PendingFits' /\ NoStrandedWork' /\ Closing'
  BY DEF Counted, Working, Live, PendingFits, TooLarge, NoStrandedWork,
         MinBatch, Closing, Handlers
<1>3. Fresh'
  <2>1. \A j \in Items : caller'[j] = "idle" => caller[j] = "idle"
    BY DEF TypeOK
  <2>2. errc' = errc /\ accepted' = accepted
    OBVIOUS
  <2> QED
    BY <2>1, <2>2 DEF Ownership, Fresh
<1>4. /\ TakenInOrder' /\ Distinct(accepted)' /\ Tracked' /\ BatchesTaken'
      /\ Disjoint' /\ PendingUnanswered'
  BY OwnershipUnchanged
<1> QED
  BY <1>1, <1>2, <1>3, <1>4 DEF Ownership

\* A handler returns: its batch gets the result.
LEMMA StepHandlerReturns ==
    ASSUME IInv, NEW g \in Goroutines, NEW e \in HandlerErrors,
           HandlerReturns(g, e)
    PROVE  IInv'
<1>1. TypeOK'
  BY DEF HandlerReturns, IInv, TypeOK, Results
<1>2. Working' = Working /\ Live' = Live
  BY DEF HandlerReturns, IInv, TypeOK, Working, Live
<1>3. Counted' /\ PendingFits' /\ NoStrandedWork' /\ Closing'
  BY <1>2 DEF HandlerReturns, IInv, Counted, PendingFits, TooLarge,
              NoStrandedWork, MinBatch, Closing, Handlers
<1>4. /\ gpc[g] = "calling" /\ gpc'[g] = "reported"
      /\ \A h \in Goroutines \ {g} : gpc'[h] = gpc[h]
      /\ \A i \in Items : errc'[i] = IF InSeq(i, batch[g]) THEN e ELSE errc[i]
      /\ e # NoResult
      /\ pending' = pending /\ taken' = taken /\ accepted' = accepted
      /\ batch' = batch /\ caller' = caller
  BY BatcherAssumption DEF HandlerReturns, IInv, TypeOK
<1>5. TakenInOrder' /\ Distinct(accepted)'
  BY <1>4 DEF IInv, Ownership, TakenInOrder, Distinct
<1>6. \A i \in Items : InSeq(i, batch[g]) => InSeq(i, taken)
  BY <1>4 DEF IInv, Ownership, BatchesTaken
<1>7. Fresh'
  <2> SUFFICES ASSUME NEW i \in Items, caller'[i] = "idle"
               PROVE  ~InSeq(i, accepted') /\ errc'[i] = NoResult
    BY DEF Fresh
  <2>1. ~InSeq(i, accepted) /\ errc[i] = NoResult
    BY <1>4 DEF IInv, Ownership, Fresh
  <2>2. ~InSeq(i, taken)
    BY <2>1, InConcat DEF IInv, Ownership, TakenInOrder, TypeOK
  <2> QED
    BY <1>4, <1>6, <2>1, <2>2
<1>8. Tracked'
  BY <1>4 DEF IInv, Ownership, Tracked
<1>9. BatchesTaken'
  BY <1>4 DEF IInv, Ownership, BatchesTaken, Disjoint
<1>10. Disjoint'
  BY <1>4 DEF IInv, Ownership, Disjoint
<1>11. PendingUnanswered'
  <2> SUFFICES ASSUME NEW i \in Items, InSeq(i, pending)
               PROVE  errc'[i] = NoResult
    BY <1>4 DEF PendingUnanswered
  <2>1. ~InSeq(i, taken)
    BY DistinctHalves DEF IInv, Ownership, TakenInOrder, TypeOK
  <2> QED
    BY <1>4, <1>6, <2>1 DEF IInv, Ownership, PendingUnanswered
<1> QED
  BY <1>1, <1>3, <1>5, <1>7, <1>8, <1>9, <1>10, <1>11 DEF IInv, Ownership

\* A handler goroutine takes the next batch or gives up its slot.
LEMMA StepTakeNext ==
    ASSUME IInv, NEW g \in Goroutines, TakeNext(g) PROVE IInv'
<1>1. PICK k \in 0..Len(pending) :
        /\ NextBatchLen(pending, shutdown, k)
        /\ pending' = Rest(pending, k)
        /\ taken' = taken \o SubSeq(pending, 1, k)
        /\ batch' = [batch EXCEPT ![g] = SubSeq(pending, 1, k)]
  BY DEF TakeNext
<1>2. /\ pending \in Seq(Items) /\ taken \in Seq(Items) /\ Len(pending) \in Nat
      /\ SubSeq(pending, 1, k) \in Seq(Items)
      /\ Rest(pending, k) \in Seq(Items)
      /\ Len(Rest(pending, k)) = Len(pending) - k
      /\ \A j \in 1..(Len(pending) - k) : Rest(pending, k)[j] = pending[j + k]
  BY CutSeq, LenProperties DEF IInv, TypeOK
<1>3. taken' \in Seq(Items)
  BY <1>1, <1>2, ConcatProperties
<1>4. /\ gpc[g] = "reported" /\ gpc'[g] # "none"
      /\ \A h \in Goroutines \ {g} :
            gpc'[h] = gpc[h] /\ batch'[h] = batch[h]
      /\ batch'[g] = SubSeq(pending, 1, k)
      /\ UNCHANGED <<shutdown, wg, errc, caller, closer, accepted>>
  BY <1>1 DEF TakeNext, IInv, TypeOK
<1>5. /\ Working \in SUBSET Goroutines /\ g \in Working
      /\ Cardinality(Working) \in Nat /\ Cardinality(Working) > 0
      /\ Cardinality(Working \ {g}) = Cardinality(Working) - 1
  BY <1>4, JoinLeave DEF Working
<1>6. Live' = Live
  BY <1>4 DEF Live
<1>7. PendingFits'
  <2> SUFFICES ASSUME NEW j \in 1..(Len(pending) - k)
               PROVE  ~TooLarge(pending[j + k])
    BY <1>1, <1>2 DEF PendingFits, TooLarge
  <2>1. j + k \in 1..Len(pending)
    BY <1>2
  <2> QED
    BY <2>1 DEF IInv, PendingFits
<1>8. Closing'
  BY <1>4, <1>6 DEF IInv, Closing
<1>9. Fresh'
  BY <1>4 DEF IInv, Ownership, Fresh
<1>10. TypeOK' /\ Counted' /\ NoStrandedWork' /\ (k > 0 => gpc'[g] = "calling")
  <2>1. CASE NextBatchNil(pending, shutdown)
    <3>1. gpc' = [gpc EXCEPT ![g] = "exiting"] /\ nHandlers' = nHandlers - 1
      BY <2>1 DEF TakeNext, GiveUpSlot
    <3>2. Working' = Working \ {g}
      BY <3>1 DEF IInv, TypeOK, Working
    <3>3. TypeOK'
      BY <1>1, <1>2, <1>3, <1>4, <1>5, <3>1 DEF IInv, TypeOK, Counted, Results
    <3>4. Counted'
      BY <1>4, <1>5, <1>6, <3>1, <3>2, Defaults
      DEF IInv, TypeOK, Counted, Handlers
    <3>5. k = 0
      BY <1>1, <1>2, <2>1 DEF NextBatchNil, NextBatchLen
    <3>6. pending' = pending
      BY <1>1, <1>2, <3>5 DEF Rest
    <3>7. NoStrandedWork'
      BY <1>4, <2>1, <3>6, Defaults
      DEF NoStrandedWork, NextBatchNil, BelowMinimum, MinBatch
    <3> QED
      BY <3>3, <3>4, <3>5, <3>7
  <2>2. CASE ~NextBatchNil(pending, shutdown)
    <3>1. gpc' = [gpc EXCEPT ![g] = "calling"] /\ nHandlers' = nHandlers
      BY <2>2 DEF TakeNext
    <3>2. Working' = Working
      BY <1>4, <3>1 DEF IInv, TypeOK, Working
    <3>3. TypeOK'
      BY <1>1, <1>2, <1>3, <1>4, <3>1 DEF IInv, TypeOK, Results
    <3>4. Counted'
      BY <1>4, <1>6, <3>1, <3>2 DEF IInv, Counted, Handlers
    <3>5. NoStrandedWork'
      BY <1>5, <3>1 DEF IInv, Counted, NoStrandedWork
    <3> QED
      BY <3>1, <3>3, <3>4, <3>5 DEF IInv, TypeOK
  <2> QED
    BY <2>1, <2>2
<1>11. /\ TakenInOrder' /\ Distinct(accepted') /\ Tracked'
       /\ BatchesTaken' /\ Disjoint' /\ PendingUnanswered'
  <2>1. TypeOK /\ Ownership
    BY DEF IInv
  <2>2. accepted' = taken \o pending /\ Distinct(taken \o pending)
    BY <1>4, <2>1 DEF Ownership, TakenInOrder
  <2>3. \A i \in Items : InSeq(i, pending) => errc[i] = NoResult
    BY <2>1 DEF Ownership, PendingUnanswered
  <2>4. \A h \in Goroutines : gpc[h] = "calling" =>
             gpc'[h] = "calling" /\ batch'[h] = batch[h]
    BY <1>4
  <2>5. \A h \in Goroutines : gpc'[h] = "calling" =>
             \/ gpc[h] = "calling" /\ batch'[h] = batch[h]
             \/ h = g /\ batch'[h] = SubSeq(pending, 1, k)
    BY <1>4
  <2>6. Takes(pending, k, g)
    BY <1>1, <1>4, <1>10, <2>2, <2>3, <2>4, <2>5 DEF Takes
  <2> QED
    BY <1>2, <1>10, <2>1, <2>6, OwnershipOfBatch
<1> QED
  BY <1>7, <1>8, <1>9, <1>10, <1>11 DEF IInv, Ownership

\* A handler goroutine is gone.
LEMMA StepWgDone ==
    ASSUME IInv, NEW g \in Goroutines, WgDone(g) PROVE IInv'
<1>1. /\ gpc[g] = "exiting" /\ gpc' = [gpc EXCEPT ![g] = "none"]
      /\ wg' = wg - 1
      /\ UNCHANGED <<pending, nHandlers, shutdown, batch, errc, caller, closer,
                     accepted, taken>>
  BY DEF WgDone
<1>2. /\ Working' = Working
      /\ Live' = Live \ {g} /\ Live \in SUBSET Goroutines /\ g \in Live
  BY <1>1 DEF IInv, TypeOK, Working, Live
<1>3. /\ Cardinality(Live') = Cardinality(Live) - 1
      /\ Cardinality(Live) \in Nat /\ Cardinality(Live) > 0
  BY <1>2, JoinLeave
<1>4. TypeOK'
  BY <1>1, <1>3 DEF IInv, TypeOK, Counted
<1>5. Counted'
  BY <1>1, <1>2, <1>3 DEF IInv, TypeOK, Counted, Handlers
<1>6. PendingFits' /\ NoStrandedWork' /\ Closing'
  BY <1>1, <1>2 DEF IInv, PendingFits, TooLarge, NoStrandedWork, MinBatch,
                    Closing
<1>7. Fresh'
  BY <1>1 DEF IInv, Ownership, Fresh
<1>8. \A h \in Goroutines : gpc'[h] = "calling" <=> gpc[h] = "calling"
  BY <1>1 DEF IInv, TypeOK
<1>9. /\ TakenInOrder' /\ Distinct(accepted)' /\ Tracked'
      /\ BatchesTaken' /\ Disjoint' /\ PendingUnanswered'
  BY <1>1, <1>8, OwnershipUnchanged DEF IInv
<1> QED
  BY <1>4, <1>5, <1>6, <1>7, <1>9 DEF IInv, Ownership

\* Shutdown closes the batcher and flushes a partial batch.
LEMMA StepShutdownBegin ==
    ASSUME IInv, ShutdownBegin PROVE IInv'
<1>1. /\ closer = "idle" /\ closer' = "waiting" /\ shutdown' = TRUE
      /\ UNCHANGED <<errc, caller, accepted>>
  BY DEF ShutdownBegin
<1>2. Closing'
  BY <1>1 DEF Closing
<1>3. Fresh'
  BY <1>1 DEF IInv, Ownership, Fresh
<1>4. CASE nHandlers = 0
  <2>1. HandleBatch(pending, TRUE)
    BY <1>4 DEF ShutdownBegin
  <2>2. /\ pending \in Seq(Items)
        /\ nHandlers < Handlers
        /\ caller' \in [Items -> {"idle", "select", "result", "ctx-done"}]
        /\ closer' \in {"idle", "waiting", "returned"}
    BY <1>1, <1>4, Defaults DEF IInv, TypeOK
  <2>3. accepted' = taken \o pending /\ Distinct(taken \o pending)
    BY <1>1 DEF IInv, Ownership, TakenInOrder
  <2>4. /\ \A i \in Items : InSeq(i, pending) => errc[i] = NoResult
        /\ \A j \in 1..Len(pending) : ~TooLarge(pending[j])
    BY DEF IInv, Ownership, PendingUnanswered, PendingFits
  <2>5. /\ TypeOK' /\ Counted' /\ PendingFits' /\ NoStrandedWork'
        /\ TakenInOrder' /\ Distinct(accepted') /\ Tracked'
        /\ BatchesTaken' /\ Disjoint' /\ PendingUnanswered'
    BY <1>1, <2>1, <2>2, <2>3, <2>4, HandleBatchStep
  <2> QED
    BY <1>2, <1>3, <2>5 DEF IInv, Ownership
<1>5. CASE nHandlers # 0
  <2>1. UNCHANGED <<pending, nHandlers, wg, gpc, batch, taken>>
    BY <1>5 DEF ShutdownBegin
  <2>2. TypeOK'
    BY <1>1, <2>1 DEF IInv, TypeOK
  <2>3. Counted' /\ PendingFits' /\ NoStrandedWork'
    BY <1>5, <2>1 DEF IInv, Counted, Working, Live, Handlers, PendingFits,
                      TooLarge, NoStrandedWork
  <2>4. /\ TakenInOrder' /\ Distinct(accepted)' /\ Tracked'
        /\ BatchesTaken' /\ Disjoint' /\ PendingUnanswered'
    BY <1>1, <2>1, OwnershipUnchanged DEF IInv
  <2> QED
    BY <1>2, <1>3, <2>2, <2>3, <2>4 DEF IInv, Ownership
<1> QED
  BY <1>4, <1>5

\* Shutdown has waited for the handlers and returns.
LEMMA StepShutdownReturns ==
    ASSUME IInv, ShutdownReturns PROVE IInv'
<1>1. /\ closer = "waiting" /\ closer' = "returned" /\ wg = 0
      /\ UNCHANGED <<pending, nHandlers, shutdown, wg, gpc, batch, errc, caller,
                     accepted, taken>>
  BY DEF ShutdownReturns
<1>2. Live = {}
  <2>1. IsFiniteSet(Live)
    BY BatcherAssumption, FS_Subset DEF Live
  <2> QED
    BY <1>1, <2>1, FS_EmptySet DEF IInv, Counted
<1>3. TypeOK'
  BY <1>1 DEF IInv, TypeOK
<1>4. Counted' /\ PendingFits' /\ NoStrandedWork'
  BY <1>1 DEF IInv, Counted, Working, Live, Handlers, PendingFits, TooLarge,
              NoStrandedWork, MinBatch
<1>5. Closing'
  BY <1>1, <1>2 DEF IInv, Closing, Live
<1>6. Fresh'
  BY <1>1 DEF IInv, Ownership, Fresh
<1>7. /\ TakenInOrder' /\ Distinct(accepted)' /\ Tracked'
      /\ BatchesTaken' /\ Disjoint' /\ PendingUnanswered'
  BY <1>1, OwnershipUnchanged DEF IInv
<1> QED
  BY <1>3, <1>4, <1>5, <1>6, <1>7 DEF IInv, Ownership

\* A step of somebody else preserves the invariant.
LEMMA StutterIInv == IInv /\ UNCHANGED vars => IInv'
<1> SUFFICES ASSUME IInv, UNCHANGED vars PROVE IInv'
  OBVIOUS
<1>1. UNCHANGED <<pending, nHandlers, shutdown, wg, gpc, batch, errc, caller,
                  closer, accepted, taken>>
  BY DEF vars
<1>2. TypeOK'
  BY <1>1 DEF IInv, TypeOK
<1>3. Counted' /\ PendingFits' /\ NoStrandedWork' /\ Closing'
  BY <1>1 DEF IInv, Counted, Working, Live, Handlers, PendingFits, TooLarge,
              NoStrandedWork, MinBatch, Closing
<1>4. Fresh'
  BY <1>1 DEF IInv, Ownership, Fresh
<1>5. /\ TakenInOrder' /\ Distinct(accepted)' /\ Tracked'
      /\ BatchesTaken' /\ Disjoint' /\ PendingUnanswered'
  BY <1>1, OwnershipUnchanged DEF IInv
<1> QED
  BY <1>2, <1>3, <1>4, <1>5 DEF IInv, Ownership

\* Every critical section and every other step of the Batcher preserves the
\* invariant.
LEMMA NextIInv == IInv /\ [Next]_vars => IInv'
<1> SUFFICES ASSUME IInv, Next PROVE IInv'
  BY StutterIInv
<1>1. ASSUME NEW i \in Items, AddRefused(i) PROVE IInv'
  BY <1>1, StepAddRefused
<1>2. ASSUME NEW i \in Items, AddAccepted(i) PROVE IInv'
  BY <1>2, StepAddAccepted
<1>3. ASSUME NEW i \in Items, AddReturns(i) PROVE IInv'
  BY <1>3, StepAddReturns
<1>4. ASSUME NEW g \in Goroutines, NEW e \in HandlerErrors, HandlerReturns(g, e)
      PROVE  IInv'
  BY <1>4, StepHandlerReturns
<1>5. ASSUME NEW g \in Goroutines, TakeNext(g) PROVE IInv'
  BY <1>5, StepTakeNext
<1>6. ASSUME NEW g \in Goroutines, WgDone(g) PROVE IInv'
  BY <1>6, StepWgDone
<1>7. CASE ShutdownBegin
  BY <1>7, StepShutdownBegin
<1>8. CASE ShutdownReturns
  BY <1>8, StepShutdownReturns
<1> QED
  BY <1>1, <1>2, <1>3, <1>4, <1>5, <1>6, <1>7, <1>8 DEF Next

-----------------------------------------------------------------------------
(* The theorems *)

\* The inductive invariant holds in every reachable state.
THEOREM Invariance == Spec => []IInv
  BY InitIInv, NextIInv, PTL DEF Spec

\* b.nHandlers and the count of b.wg never become negative, whichever of
\* AddNoWait, callHandler and Shutdown changes them.
THEOREM TypeCorrect == Spec => []TypeOK
<1>1. IInv => TypeOK
  BY DEF IInv
<1> QED
  BY <1>1, Invariance, PTL

\* Accepted items reach the handlers in order, none lost and none repeated.
THEOREM InOrder == Spec => []TakenInOrder
<1>1. IInv => TakenInOrder
  BY DEF IInv, Ownership
<1> QED
  BY <1>1, Invariance, PTL

\* At most MaxHandlers handlers run, and b.nHandlers counts them.
THEOREM Limited == Spec => []HandlerLimit
<1>1. IInv => HandlerLimit
  BY DEF IInv, Counted, HandlerLimit
<1> QED
  BY <1>1, Invariance, PTL

\* No lost wakeup: no batch that is ready waits without a handler.
THEOREM NoneStranded == Spec => []NoStrandedWork
<1>1. IInv => NoStrandedWork
  BY DEF IInv
<1> QED
  BY <1>1, Invariance, PTL

\* Every accepted item has exactly one owner until its result is there, and
\* the result is sent on its channel once.
THEOREM Owned == Spec => []OneOwner
<1>1. ASSUME IInv PROVE OneOwner
  <2> SUFFICES ASSUME NEW i \in Items
               PROVE  IF errc[i] = NoResult
                      THEN InSeq(i, accepted) =>
                             \/ InSeq(i, pending) /\ Calling(i) = {}
                             \/ /\ ~InSeq(i, pending)
                                /\ \E g \in Goroutines : Calling(i) = {g}
                      ELSE ~InSeq(i, pending) /\ Calling(i) = {}
    BY DEF OneOwner
  <2>1. /\ InSeq(i, accepted) <=> InSeq(i, taken) \/ InSeq(i, pending)
        /\ ~(InSeq(i, taken) /\ InSeq(i, pending))
    BY <1>1, InConcat, DistinctHalves
    DEF IInv, TypeOK, Ownership, TakenInOrder
  <2>2. InSeq(i, pending) => Calling(i) = {} /\ errc[i] = NoResult
    BY <1>1, <2>1 DEF IInv, Ownership, PendingUnanswered, BatchesTaken, Calling
  <2>3. errc[i] # NoResult => Calling(i) = {}
    BY <1>1 DEF IInv, Ownership, BatchesTaken, Calling
  <2>4. ASSUME InSeq(i, taken), errc[i] = NoResult
        PROVE  \E g \in Goroutines : Calling(i) = {g}
    <3>1. PICK g \in Goroutines : gpc[g] = "calling" /\ InSeq(i, batch[g])
      BY <1>1, <2>4 DEF IInv, Ownership, Tracked
    <3>2. Calling(i) = {g}
      BY <1>1, <3>1 DEF IInv, Ownership, Disjoint, Calling
    <3> QED
      BY <3>2
  <2> QED
    BY <2>1, <2>2, <2>3, <2>4
<1> QED
  BY <1>1, Invariance, PTL

\* When Shutdown has returned, every item ever accepted has its result.
THEOREM Flushed == Spec => []ShutdownFlushes
<1>1. ASSUME IInv PROVE ShutdownFlushes
  <2> SUFFICES ASSUME closer = "returned", NEW i \in Items, InSeq(i, accepted)
               PROVE  errc[i] # NoResult
    BY DEF ShutdownFlushes
  <2>1. Live = {} /\ shutdown
    BY <1>1 DEF IInv, Closing
  <2>2. Working = {}
    BY <2>1 DEF Working, Live
  <2>3. nHandlers = 0
    BY <1>1, <2>2, FS_EmptySet DEF IInv, Counted
  <2>4. pending = <<>>
    BY <1>1, <2>1, <2>3 DEF IInv, NoStrandedWork
  <2>5. ~InSeq(i, pending)
    BY <2>4 DEF InSeq
  <2>6. InSeq(i, taken)
    BY <1>1, <2>5, InConcat DEF IInv, TypeOK, Ownership, TakenInOrder
  <2>7. ~\E g \in Goroutines : gpc[g] = "calling"
    BY <2>1 DEF Live
  <2> QED
    BY <1>1, <2>6, <2>7 DEF IInv, Ownership, Tracked
<1> QED
  BY <1>1, Invariance, PTL

-----------------------------------------------------------------------------
(* The Batcher implements BatchService *)

\* A step of BatchService, or none.
ServiceStep == [Service!Next]_(Service!vars)

\* No more batches are being handled than there are goroutines in a handler.
LEMMA RunningFewer ==
    ASSUME IInv
    PROVE  /\ IsFiniteSet(Running) /\ Cardinality(Running) \in Nat
           /\ Cardinality(Running) <= Cardinality({h \in Goroutines : gpc[h] = "calling"})
<1> DEFINE C == {h \in Goroutines : gpc[h] = "calling"}
           All == {batch[g] : g \in C}
           f == [g \in C |-> batch[g]]
<1>1. IsFiniteSet(C) /\ Cardinality(C) \in Nat
  <2>1. C \in SUBSET Goroutines
    OBVIOUS
  <2> HIDE DEF C
  <2> QED
    BY <2>1, BatcherAssumption, FS_Subset, FS_CardinalityType
<1>2. f \in Surjection(C, All)
  BY DEF Surjection
<1>3. IsFiniteSet(All) /\ Cardinality(All) <= Cardinality(C)
  <2> HIDE DEF C, All, f
  <2> QED
    BY <1>1, <1>2, FS_Surjection
<1>4. Running \in SUBSET All
  BY DEF Running
<1> HIDE DEF C, All
<1>5. IsFiniteSet(Running) /\ Cardinality(Running) <= Cardinality(All)
  BY <1>3, <1>4, FS_Subset
<1>6. Cardinality(All) \in Nat /\ Cardinality(Running) \in Nat
  BY <1>3, <1>5, FS_CardinalityType
<1> QED
  BY <1>1, <1>3, <1>5, <1>6 DEF C

\* A handler slot that is free, or held by a goroutine between two batches, is
\* enough to start a batch.
LEMMA RunningBelowLimit ==
    ASSUME IInv, nHandlers < Handlers \/ \E g \in Goroutines : gpc[g] = "reported"
    PROVE  Cardinality(Running) < Handlers
<1> DEFINE C == {h \in Goroutines : gpc[h] = "calling"}
<1>1. C \in SUBSET Working /\ Working \in SUBSET Goroutines
  BY DEF Working
<1>2. IsFiniteSet(Working) /\ Cardinality(Working) \in Nat
  BY <1>1, BatcherAssumption, FS_Subset, FS_CardinalityType
<1>3. /\ nHandlers = Cardinality(Working) /\ nHandlers <= Handlers /\ Handlers \in Nat
  BY Defaults DEF IInv, Counted
<1>4. Cardinality(Running) \in Nat /\ Cardinality(Running) <= Cardinality(C)
  BY RunningFewer
<1>5. CASE nHandlers < Handlers
  <2>1. Cardinality(C) <= Cardinality(Working) /\ Cardinality(C) \in Nat
    <3> HIDE DEF C
    <3> QED
      BY <1>1, <1>2, FS_Subset, FS_CardinalityType
  <2> HIDE DEF C
  <2> QED
    BY <1>2, <1>3, <1>4, <1>5, <2>1
<1>6. ASSUME NEW g \in Goroutines, gpc[g] = "reported"
      PROVE  Cardinality(Running) < Handlers
  <2>1. C \in SUBSET (Working \ {g}) /\ g \in Working
    BY <1>6 DEF Working
  <2> HIDE DEF C
  <2>2. IsFiniteSet(Working \ {g}) /\ Cardinality(Working \ {g}) = Cardinality(Working) - 1
    BY <1>2, <2>1, FS_RemoveElement
  <2>3. Cardinality(C) <= Cardinality(Working \ {g}) /\ Cardinality(C) \in Nat
    BY <2>1, <2>2, FS_Subset, FS_CardinalityType
  <2> QED
    BY <1>2, <1>3, <1>4, <2>2, <2>3
<1> QED
  BY <1>5, <1>6

\* nextBatch returns a batch within the limits of Options, and, before
\* Shutdown, not unless the minimum is there.
LEMMA BatchAllowed ==
    ASSUME NEW p \in Seq(Items), NEW sd \in BOOLEAN, NEW k \in 1..Len(p), NextBatchLen(p, sd, k)
    PROVE  Allowed(SubSeq(p, 1, k)) /\ (~sd => Len(p) >= MinBatch)
<1>1. Len(p) \in Nat /\ k \in 0..Len(p) /\ k # 0
  BY LenProperties
<1>2. ~BelowMinimum(p, sd)
  BY <1>1 DEF NextBatchLen
<1>3. ~sd => Len(p) >= MinBatch
  BY <1>1, <1>2, Defaults DEF BelowMinimum
<1>4. Fits(p, k)
  <2>1. CASE TakeAll(p)
    BY <1>1, <1>2, <2>1 DEF NextBatchLen, TakeAll, Fits
  <2>2. CASE ~TakeAll(p)
    BY <1>2, <2>2 DEF NextBatchLen
  <2> QED
    BY <2>1, <2>2
<1> DEFINE b == SubSeq(p, 1, k)
<1>5. Len(b) = k /\ \A j \in 1..k : b[j] = p[j]
  BY <1>1, CutSeq
<1> HIDE DEF b
<1>6. FitsBytes(p, k) => FitsBytes(b, k)
  <2> SUFFICES ASSUME FitsBytes(p, k) PROVE FitsBytes(b, k)
    OBVIOUS
  <2>1. PICK s \in [0..k -> 0..MaxBatchByteSize] :
          s[0] = 0 /\ \A j \in 1..k : s[j] = s[j-1] + ByteSize[p[j]]
    BY Zenon DEF FitsBytes
  <2>2. \A j \in 1..k : s[j] = s[j-1] + ByteSize[b[j]]
    <3> TAKE j \in 1..k
    <3>1. b[j] = p[j]
      BY <1>5
    <3> QED
      BY <2>1, <3>1, Zenon
  <2> QED
    BY <2>1, <2>2, Zenon DEF FitsBytes
<1>7. Fits(b, Len(b))
  BY <1>4, <1>5, <1>6 DEF Fits
<1> QED
  BY <1>3, <1>7 DEF Allowed, b

\* A goroutine is given the batch b to handle.
LEMMA RunningGrows ==
    ASSUME IInv, NEW g \in Goroutines, NEW b, gpc[g] # "calling",
           gpc' = [gpc EXCEPT ![g] = "calling"], batch' = [batch EXCEPT ![g] = b]
    PROVE  Running' = Running \cup ({b} \ {<< >>})
<1>1. /\ \A h \in Goroutines \ {g} : gpc'[h] = gpc[h] /\ batch'[h] = batch[h]
      /\ gpc'[g] = "calling" /\ batch'[g] = b
  BY DEF IInv, TypeOK
<1> QED
  BY <1>1 DEF Running

\* A goroutine that is not in a handler goes where it is not in one.
LEMMA RunningSame ==
    ASSUME IInv, NEW g \in Goroutines, gpc[g] # "calling", gpc'[g] # "calling",
           \A h \in Goroutines \ {g} : gpc'[h] = gpc[h] /\ batch'[h] = batch[h]
    PROVE  Running' = Running
BY DEF Running

\* What starts no batch leaves the queue as it is.
LEMMA StartsNone ==
    ASSUME NEW p \in Seq(Items), pending' = p, Running' = Running
    PROVE  Service!Start(p)
<1>1. 0 \in 0..Len(p) /\ SubSeq(p, 0 + 1, Len(p)) = p
  BY LenProperties, SubSeqFull
<1> QED
  BY <1>1 DEF Service!Start

\* What starts a batch of the first k items leaves the rest in the queue.
LEMMA StartsSome ==
    ASSUME NEW p \in Seq(Items), NEW k \in 0..Len(p), k # 0,
           pending' = SubSeq(p, k + 1, Len(p)),
           closer' = "idle" => Len(p) >= MinBatch,
           Allowed(SubSeq(p, 1, k)), Cardinality(Running) < Handlers,
           Running' = Running \cup {SubSeq(p, 1, k)}
    PROVE  Service!Start(p)
<1>1. Service!Cardinality(Running) = Cardinality(Running)
  BY Zenon DEF Service!Cardinality, Cardinality
<1> QED
  BY <1>1, Zenon DEF Service!Start

\* handleBatch(nextBatch()) starts a batch, or none.
LEMMA HandleBatchStarts ==
    ASSUME IInv, NEW p \in Seq(Items), NEW sd \in BOOLEAN, HandleBatch(p, sd),
           nHandlers < Handlers, closer' = "idle" => ~sd
    PROVE  Service!Start(p)
<1>1. PICK k \in 0..Len(p) :
        /\ NextBatchLen(p, sd, k)
        /\ pending' = Rest(p, k)
        /\ IF k = 0
           THEN UNCHANGED <<nHandlers, wg, gpc, batch>>
           ELSE \E g \in Goroutines :
                    /\ gpc[g] = "none"
                    /\ gpc' = [gpc EXCEPT ![g] = "calling"]
                    /\ batch' = [batch EXCEPT ![g] = SubSeq(p, 1, k)]
  BY DEF HandleBatch
<1>2. Len(p) \in Nat
  BY LenProperties
<1>3. CASE k = 0
  <2>1. Running' = Running
    BY <1>1, <1>3 DEF Running
  <2>2. pending' = SubSeq(p, k + 1, Len(p))
    BY <1>1 DEF Rest
  <2> QED
    BY <1>3, <2>1, <2>2 DEF Service!Start
<1>4. CASE k # 0
  <2> DEFINE b == SubSeq(p, 1, k)
  <2>1. PICK g \in Goroutines :
                    /\ gpc[g] = "none"
                    /\ gpc' = [gpc EXCEPT ![g] = "calling"]
                    /\ batch' = [batch EXCEPT ![g] = b]
    BY <1>1, <1>4
  <2>2. k \in 1..Len(p)
    BY <1>2, <1>4
  <2>3. b # << >>
    <3>1. Len(b) = k
      BY CutSeq
    <3> HIDE DEF b
    <3> QED
      BY <1>2, <2>2, <3>1, Len(<< >>) = 0
  <2>4. Allowed(b) /\ (~sd => Len(p) >= MinBatch)
    BY <1>1, <2>2, BatchAllowed
  <2>5. Cardinality(Running) < Handlers
    BY RunningBelowLimit
  <2> HIDE DEF b
  <2>6. Running' = Running \cup {b}
    BY <2>1, <2>3, RunningGrows
  <2>7. pending' = SubSeq(p, k + 1, Len(p))
    BY <1>1 DEF Rest
  <2>8. closer' = "idle" => Len(p) >= MinBatch
    BY <2>4
  <2> QED
    BY <1>4, <2>4, <2>5, <2>6, <2>7, <2>8, StartsSome DEF b
<1> QED
  BY <1>3, <1>4

\* An item whose caller has not come yet is new to the service.
LEMMA IdleIsNew ==
    ASSUME IInv, NEW i \in Items, caller[i] = "idle"
    PROVE  Service!New(i)
<1>1. ~InSeq(i, accepted) /\ errc[i] = NoResult
  BY DEF IInv, Ownership, Fresh
<1>2. ~InSeq(i, taken) /\ ~InSeq(i, pending)
  BY <1>1, InConcat DEF IInv, TypeOK, Ownership, TakenInOrder
<1>3. \A b \in Running : ~InSeq(i, b)
  BY <1>2 DEF Running, IInv, Ownership, BatchesTaken
<1> QED
  BY <1>1, <1>2, <1>3 DEF Service!New, Service!In, InSeq

\* AddNoWait: the item is accepted.
LEMMA AcceptStep ==
    ASSUME IInv, NEW i \in Items, AddAccepted(i)
    PROVE  Service!Accept(i)
<1> DEFINE p == Append(pending, i)
<1>1. /\ caller[i] = "idle" /\ ~shutdown /\ ~TooLarge(i) /\ UNCHANGED <<errc, closer>>
      /\ IF MayStart THEN HandleBatch(p, shutdown)
         ELSE pending' = p /\ UNCHANGED <<nHandlers, wg, gpc, batch>>
  BY DEF AddAccepted
<1>2. p \in Seq(Items)
  BY AppendProperties DEF IInv, TypeOK
<1>3. closer = "idle"
  BY <1>1 DEF IInv, Closing
<1>4. Service!New(i)
  BY <1>1, IdleIsNew
<1> HIDE DEF p
<1>5. Service!Start(p)
  <2>1. CASE MayStart
    <3>1. shutdown \in BOOLEAN /\ HandleBatch(p, shutdown) /\ nHandlers < Handlers
      BY <1>1, <2>1 DEF IInv, TypeOK, MayStart
    <3> QED
      BY <1>1, <1>2, <3>1, HandleBatchStarts
  <2>2. CASE ~MayStart
    <3>1. pending' = p /\ Running' = Running
      BY <1>1, <2>2 DEF Running
    <3> QED
      BY <1>2, <3>1, StartsNone
  <2> QED
    BY <2>1, <2>2
<1> QED
  BY <1>1, <1>3, <1>4, <1>5 DEF Service!Accept, p

\* AddNoWait: the item is refused.
LEMMA RefuseStep ==
    ASSUME IInv, NEW i \in Items, AddRefused(i)
    PROVE  Service!Refuse(i)
<1>1. /\ caller[i] = "idle" /\ (shutdown \/ TooLarge(i))
      /\ errc' = [errc EXCEPT ![i] = IF shutdown THEN ErrShut ELSE ErrTooLarge]
      /\ UNCHANGED <<pending, gpc, batch, closer>>
  BY DEF AddRefused
<1>2. Running' = Running
  BY <1>1 DEF Running
<1>3. shutdown <=> closer # "idle"
  BY DEF IInv, Closing
<1>4. Service!New(i)
  BY <1>1, IdleIsNew
<1>5. \/ closer # "idle" /\ errc' = [errc EXCEPT ![i] = ErrShut]
      \/ closer = "idle" /\ TooLarge(i) /\ errc' = [errc EXCEPT ![i] = ErrTooLarge]
  BY <1>1, <1>3
<1> QED
  BY <1>1, <1>2, <1>4, <1>5 DEF Service!Refuse

\* A handler returns: its batch is done, unless it is empty.
LEMMA FinishStep ==
    ASSUME IInv, NEW g \in Goroutines, NEW e \in HandlerErrors, HandlerReturns(g, e)
    PROVE  ServiceStep
<1>1. /\ gpc[g] = "calling" /\ gpc'[g] = "reported"
      /\ \A h \in Goroutines \ {g} : gpc'[h] = gpc[h]
      /\ errc' = [i \in Items |-> IF InSeq(i, batch[g]) THEN e ELSE errc[i]]
      /\ UNCHANGED <<pending, batch, closer>>
  BY DEF HandlerReturns, IInv, TypeOK
<1>2. batch[g] \in Seq(Items)
  BY DEF IInv, TypeOK
<1>3. CASE batch[g] = << >>
  <2>1. Running' = Running
    BY <1>1, <1>3 DEF Running
  <2>2. errc' = errc
    <3>1. \A i \in Items : ~InSeq(i, batch[g])
      BY <1>3 DEF InSeq
    <3>2. errc = [i \in Items |-> errc[i]]
      BY DEF IInv, TypeOK
    <3> QED
      BY <1>1, <3>1, <3>2
  <2> QED
    BY <1>1, <2>1, <2>2 DEF ServiceStep, Service!vars
<1>4. CASE batch[g] # << >>
  <2>1. batch[g] \in Running
    BY <1>1, <1>4 DEF Running
  <2>2. ASSUME NEW h \in Goroutines \ {g}, gpc[h] = "calling", batch[h] = batch[g]
        PROVE  FALSE
    <3>1. 1 \in 1..Len(batch[g]) /\ batch[g][1] \in Items
      BY <1>2, <1>4, LenProperties, EmptySeq, ElementOfSeq
    <3>2. InSeq(batch[g][1], batch[g]) /\ InSeq(batch[g][1], batch[h])
      BY <2>2, <3>1 DEF InSeq
    <3> QED
      BY <1>1, <2>2, <3>1, <3>2 DEF IInv, Ownership, Disjoint
  <2>3. Running' = Running \ {batch[g]}
    BY <1>1, <2>2 DEF Running
  <2>4. Service!Finish(batch[g], e)
    BY <1>1, <2>3 DEF Service!Finish, Service!In, InSeq
  <2> QED
    BY <2>1, <2>4 DEF ServiceStep, Service!Next
<1> QED
  BY <1>3, <1>4

\* A goroutine takes the next batch, an empty one, or none.
LEMMA TakeNextStep ==
    ASSUME IInv, NEW g \in Goroutines, TakeNext(g)
    PROVE  Service!StartMore
<1>1. PICK k \in 0..Len(pending) :
         /\ NextBatchLen(pending, shutdown, k)
         /\ pending' = Rest(pending, k)
         /\ batch' = [batch EXCEPT ![g] = SubSeq(pending, 1, k)]
  BY DEF TakeNext
<1>2. /\ gpc[g] = "reported" /\ UNCHANGED <<errc, closer, shutdown>>
      /\ \/ NextBatchNil(pending, shutdown) /\ gpc' = [gpc EXCEPT ![g] = "exiting"]
         \/ gpc' = [gpc EXCEPT ![g] = "calling"]
  BY DEF TakeNext
<1>3. pending \in Seq(Items) /\ Len(pending) \in Nat /\ shutdown \in BOOLEAN
  BY LenProperties DEF IInv, TypeOK
<1>4. pending' = SubSeq(pending, k + 1, Len(pending))
  BY <1>1 DEF Rest
<1>5. CASE k = 0
  <2>1. SubSeq(pending, 1, k) = << >>
    BY <1>5
  <2>2. Running' = Running
    <3>1. CASE gpc' = [gpc EXCEPT ![g] = "calling"]
      BY <1>1, <1>2, <2>1, <3>1, RunningGrows
    <3>2. CASE gpc' = [gpc EXCEPT ![g] = "exiting"]
      <4>1. gpc'[g] # "calling" /\ \A h \in Goroutines \ {g} : gpc'[h] = gpc[h] /\ batch'[h] = batch[h]
        BY <1>1, <3>2 DEF IInv, TypeOK
      <4> QED
        BY <1>2, <4>1, RunningSame
    <3> QED
      BY <1>2, <3>1, <3>2
  <2> QED
    BY <1>1, <1>2, <1>4, <1>5, <2>2 DEF Service!StartMore, Service!Start
<1>6. CASE k # 0
  <2> DEFINE b == SubSeq(pending, 1, k)
  <2>1. k \in 1..Len(pending)
    BY <1>3, <1>6
  <2>2. b # << >>
    BY <1>3, <2>1, CutSeq
  <2>3. Allowed(b) /\ (~shutdown => Len(pending) >= MinBatch)
    BY <1>1, <1>3, <2>1, BatchAllowed
  <2>4. ~NextBatchNil(pending, shutdown)
    BY <1>1, <1>3, <1>6 DEF NextBatchNil, NextBatchLen
  <2>5. gpc' = [gpc EXCEPT ![g] = "calling"]
    BY <1>2, <2>4
  <2>6. Cardinality(Running) < Handlers
    BY <1>2, RunningBelowLimit
  <2> HIDE DEF b
  <2>7. Running' = Running \cup {b}
    BY <1>1, <1>2, <2>2, <2>5, RunningGrows DEF b
  <2>8. closer' = "idle" => Len(pending) >= MinBatch
    BY <1>2, <2>3 DEF IInv, Closing
  <2>9. Service!Start(pending)
    BY <1>3, <1>4, <2>1, <2>3, <2>6, <2>7, <2>8, StartsSome DEF b
  <2> QED
    BY <1>2, <2>9 DEF Service!StartMore
<1> QED
  BY <1>5, <1>6

\* Shutdown, up to its unlock.
LEMMA ShutdownStep == ASSUME IInv, ShutdownBegin PROVE Service!Shutdown
<1>1. /\ closer = "idle" /\ closer' = "waiting" /\ UNCHANGED errc
      /\ IF nHandlers = 0 THEN HandleBatch(pending, TRUE)
         ELSE UNCHANGED <<pending, nHandlers, wg, gpc, batch>>
  BY DEF ShutdownBegin
<1>2. pending \in Seq(Items)
  BY DEF IInv, TypeOK
<1>3. Service!Start(pending)
  <2>1. CASE nHandlers = 0
    <3>1. nHandlers < Handlers
      BY <2>1, Defaults
    <3> QED
      BY <1>1, <1>2, <2>1, <3>1, HandleBatchStarts
  <2>2. CASE nHandlers # 0
    <3>1. pending' = pending /\ Running' = Running
      BY <1>1, <2>2 DEF Running
    <3> QED
      BY <1>2, <3>1, StartsNone
  <2> QED
    BY <2>1, <2>2
<1> QED
  BY <1>1, <1>3 DEF Service!Shutdown

\* Shutdown returns when nothing is queued or handled.
LEMMA ShutdownDoneStep == ASSUME IInv, ShutdownReturns PROVE Service!ShutdownDone
<1>1. /\ closer = "waiting" /\ closer' = "returned" /\ wg = 0
      /\ UNCHANGED <<pending, gpc, batch, errc>>
  BY DEF ShutdownReturns
<1>2. Live = {}
  <2>1. Live \in SUBSET Goroutines
    BY DEF Live
  <2>2. IsFiniteSet(Live) /\ Cardinality(Live) = 0
    BY <1>1, <2>1, BatcherAssumption, FS_Subset DEF IInv, Counted
  <2> QED
    BY <2>2, FS_EmptySet
<1>3. Working = {} /\ Running = {} /\ Running' = {}
  BY <1>1, <1>2 DEF Working, Live, Running
<1>4. nHandlers = 0 /\ shutdown
  BY <1>1, <1>3, FS_EmptySet DEF IInv, Counted, Closing
<1>5. pending = << >>
  BY <1>4 DEF IInv, NoStrandedWork
<1> QED
  BY <1>1, <1>3, <1>5 DEF Service!ShutdownDone

\* Every step of the Batcher is one of the service, or none.
LEMMA BatchServiceStep == IInv /\ [Next]_vars => ServiceStep
<1> SUFFICES ASSUME IInv, [Next]_vars PROVE ServiceStep
  OBVIOUS
<1>1. ASSUME NEW i \in Items, AddRefused(i) PROVE ServiceStep
  BY <1>1, RefuseStep DEF ServiceStep, Service!Next
<1>2. ASSUME NEW i \in Items, AddAccepted(i) PROVE ServiceStep
  BY <1>2, AcceptStep DEF ServiceStep, Service!Next
<1>3. ASSUME NEW i \in Items, AddReturns(i) PROVE ServiceStep
  BY <1>3 DEF AddReturns, Running, ServiceStep, Service!vars
<1>4. ASSUME NEW g \in Goroutines, NEW e \in HandlerErrors, HandlerReturns(g, e) PROVE ServiceStep
  BY <1>4, FinishStep
<1>5. ASSUME NEW g \in Goroutines, TakeNext(g) PROVE ServiceStep
  BY <1>5, TakeNextStep DEF ServiceStep, Service!Next
<1>6. ASSUME NEW g \in Goroutines, WgDone(g) PROVE ServiceStep
  <2>1. /\ gpc[g] # "calling" /\ gpc'[g] # "calling" /\ UNCHANGED <<pending, batch, errc, closer>>
        /\ \A h \in Goroutines \ {g} : gpc'[h] = gpc[h] /\ batch'[h] = batch[h]
    BY <1>6 DEF WgDone, IInv, TypeOK
  <2>2. Running' = Running
    BY <2>1, RunningSame
  <2> QED
    BY <2>1, <2>2 DEF ServiceStep, Service!vars
<1>7. CASE ShutdownBegin
  BY <1>7, ShutdownStep DEF ServiceStep, Service!Next
<1>8. CASE ShutdownReturns
  BY <1>8, ShutdownDoneStep DEF ServiceStep, Service!Next
<1>9. CASE UNCHANGED vars
  BY <1>9 DEF vars, Running, ServiceStep, Service!vars
<1> QED
  BY <1>1, <1>2, <1>3, <1>4, <1>5, <1>6, <1>7, <1>8, <1>9 DEF Next

\* The Batcher implements BatchService, for any items, options and number of
\* goroutines: a queue whose items are handled in order, in batches within the
\* limits, a bounded number of batches at a time, each item once.
THEOREM BatcherRefinesService == Spec => ActsAsService
<1>1. Init => Service!Init
  BY DEF Init, Service!Init, Running
<1>2. IInv /\ [Next]_vars => [Service!Next]_(Service!vars)
  BY BatchServiceStep DEF ServiceStep
<1> QED
  BY <1>1, <1>2, Invariance, PTL DEF Spec, ActsAsService, Service!Spec

-----------------------------------------------------------------------------
(* The inductive invariant of the Topic *)

CallStates == {"none", "entry", "calling", "driver", "backoff", "done"}

TopicTypeOK ==
    /\ terr \in BOOLEAN
    /\ cancelled \in BOOLEAN
    /\ hcall \in [Goroutines -> CallStates]
    /\ hres \in [Goroutines -> HandlerErrors]
    /\ spc \in [Closers -> {"idle", "refused", "select", "flushed", "ctx-done",
                            "returned-flushed", "returned"}]
    /\ sent \in [Items -> Nat]

\* Goroutine g has item i in hand.
Has(g, i) == gpc[g] = "calling" /\ InSeq(i, batch[g])

\* retry.Call runs exactly while its goroutine is in the handler.
CallsRun == \A g \in Goroutines : hcall[g] # "none" <=> gpc[g] = "calling"

\* A message in hand has been sent when, and only when, its retry.Call is about
\* to return nil.
SentInHand ==
    \A g \in Goroutines, i \in Items :
        Has(g, i) => sent[i] = IF hcall[g] = "done" /\ hres[g] = "nil" THEN 1 ELSE 0

\* A message that nobody has in hand yet has not been sent.
UnsentWaits ==
    \A i \in Items :
        errc[i] = NoResult /\ (\A g \in Goroutines : ~Has(g, i)) => sent[i] = 0

\* The result of a message says whether it was sent.
ResultTells ==
    \A i \in Items :
        errc[i] # NoResult => IF errc[i] = "nil" THEN sent[i] = 1 ELSE sent[i] = 0

\* A message in the batcher is answered by a handler.
AcceptedAnswers ==
    \A i \in Items : InSeq(i, accepted) => errc[i] \in HandlerErrors \cup {NoResult}

Past == {"flushed", "ctx-done", "returned-flushed", "returned"}

\* One call of Shutdown gets past t.err.
OneCloser ==
    /\ \A s, t \in Closers :
         spc[s] \notin {"idle", "refused"} /\ spc[t] \notin {"idle", "refused"} => s = t
    /\ \A s \in Closers : spc[s] # "idle" => terr

\* t.cancel is called after the select, and no call is cancelled before.
CancelLate ==
    /\ cancelled => \E s \in Closers : spc[s] \in Past
    /\ ~cancelled => /\ \A g \in Goroutines : hres[g] # CtxErr
                     /\ \A i \in Items : errc[i] # CtxErr

\* When the select has seen the Batcher flushed, nothing has been cancelled.
FlushedClean ==
    \A s \in Closers : spc[s] \in {"flushed", "returned-flushed"} =>
        /\ closer = "returned"
        /\ \A i \in Items : errc[i] # CtxErr

Sends == CallsRun /\ SentInHand /\ UnsentWaits /\ ResultTells
Closes == OneCloser /\ CancelLate /\ FlushedClean

TopicIInv ==
    /\ IInv
    /\ TopicTypeOK
    /\ Sends
    /\ AcceptedAnswers
    /\ Closes

-----------------------------------------------------------------------------
(* The Topic's Batcher *)

\* Every step of the Topic is a step of its Batcher or leaves it alone.
LEMMA BatcherStep == TopicTypeOK /\ [TopicNext]_tvars => [Next]_vars
<1> SUFFICES ASSUME TopicTypeOK, [TopicNext]_tvars PROVE [Next]_vars
  OBVIOUS
<1>1. CASE UNCHANGED tvars
  BY <1>1 DEF tvars
<1>2. ASSUME NEW i \in Items, SendChecks(i) \/ SendAdds(i) \/ SendReturns(i)
      PROVE  [Next]_vars
  BY <1>2 DEF SendChecks, SendAdds, SendReturns, Next
<1>3. ASSUME NEW g \in Goroutines, CallEnters(g) \/ CallInvokes(g) \/ CallReturns(g)
      PROVE  [Next]_vars
  BY <1>3 DEF CallEnters, CallInvokes, CallReturns
<1>4. ASSUME NEW g \in Goroutines, CallDone(g) PROVE [Next]_vars
  <2>1. hres[g] \in HandlerErrors /\ HandlerReturns(g, hres[g])
    BY <1>4 DEF CallDone, TopicTypeOK
  <2> QED
    BY <2>1 DEF Next
<1>5. ASSUME NEW g \in Goroutines, HandlerNext(g) PROVE [Next]_vars
  BY <1>5 DEF HandlerNext, Next
<1>6. ASSUME NEW s \in Closers,
             ShutdownCall(s) \/ FlushBegin(s) \/ ShutdownCancel(s) \/ ShutdownClose(s)
      PROVE  [Next]_vars
  BY <1>6 DEF ShutdownCall, FlushBegin, ShutdownCancel, ShutdownClose, Next
<1>7. CASE FlushEnd
  BY <1>7 DEF FlushEnd, Next
<1> QED
  BY <1>1, <1>2, <1>3, <1>4, <1>5, <1>6, <1>7 DEF TopicNext

\* AddNoWait, Shutdown and callHandler start handlers and interrupt none.
LEMMA NoneInterrupted ==
    ASSUME IInv,
           \/ \E i \in Items : AddRefused(i) \/ AddAccepted(i)
           \/ ShutdownBegin
           \/ \E g \in Goroutines : TakeNext(g)
    PROVE  \A h \in Goroutines : gpc[h] = "calling" =>
               gpc'[h] = "calling" /\ batch'[h] = batch[h]
<1> USE DEF IInv, TypeOK
<1>1. ASSUME NEW p, NEW sd, HandleBatch(p, sd)
      PROVE  \A h \in Goroutines : gpc[h] = "calling" =>
                 gpc'[h] = "calling" /\ batch'[h] = batch[h]
  BY <1>1 DEF HandleBatch
<1>2. ASSUME NEW i \in Items, AddRefused(i) \/ AddAccepted(i)
      PROVE  \A h \in Goroutines : gpc[h] = "calling" =>
                 gpc'[h] = "calling" /\ batch'[h] = batch[h]
  BY <1>1, <1>2 DEF AddRefused, AddAccepted
<1>3. ASSUME ShutdownBegin
      PROVE  \A h \in Goroutines : gpc[h] = "calling" =>
                 gpc'[h] = "calling" /\ batch'[h] = batch[h]
  BY <1>1, <1>3 DEF ShutdownBegin
<1>4. ASSUME NEW g \in Goroutines, TakeNext(g)
      PROVE  \A h \in Goroutines : gpc[h] = "calling" =>
                 gpc'[h] = "calling" /\ batch'[h] = batch[h]
  <2>1. /\ gpc[g] = "reported"
        /\ \A h \in Goroutines \ {g} : gpc'[h] = gpc[h] /\ batch'[h] = batch[h]
    BY <1>4 DEF TakeNext
  <2> QED
    BY <2>1
<1> QED
  BY <1>2, <1>3, <1>4

\* A message that a handler is started with is in nobody else's hand, so it
\* has not been sent.
LEMMA StartedUnsent ==
    ASSUME IInv, IInv', TopicTypeOK, Sends, Started, sent' = sent, hres' = hres,
           \A i \in Items : errc'[i] = errc[i],
           \A h \in Goroutines : gpc[h] = "calling" =>
               gpc'[h] = "calling" /\ batch'[h] = batch[h]
    PROVE  Sends' /\ hcall' \in [Goroutines -> CallStates]
<1> USE DEF Sends
<1>1. hcall' \in [Goroutines -> CallStates]
  BY DEF Started, TopicTypeOK, CallStates
<1>5. CallsRun'
  BY DEF Started, CallsRun
<1>2. SentInHand'
  <2> SUFFICES ASSUME NEW g \in Goroutines, NEW i \in Items, Has(g, i)'
               PROVE  sent[i] = IF hcall'[g] = "done" /\ hres[g] = "nil" THEN 1 ELSE 0
    BY DEF SentInHand
  <2>1. CASE gpc[g] = "calling"
    <3>1. hcall'[g] = hcall[g] /\ Has(g, i)
      BY <2>1 DEF Started, Has
    <3> QED
      BY <3>1 DEF SentInHand
  <2>2. CASE gpc[g] # "calling"
    <3>1. hcall'[g] = "entry"
      BY <2>2 DEF Started, Has
    <3>2. errc[i] = NoResult
      BY DEF IInv, Ownership, BatchesTaken, Has
    <3>3. ASSUME NEW h \in Goroutines, Has(h, i) PROVE FALSE
      <4>1. Has(h, i)'
        BY <3>3 DEF Has
      <4>2. h = g
        BY <4>1 DEF IInv, Ownership, Disjoint, Has
      <4> QED
        BY <2>2, <3>3, <4>2 DEF Has
    <3> QED
      BY <3>1, <3>2, <3>3 DEF UnsentWaits
  <2> QED
    BY <2>1, <2>2
<1>3. UnsentWaits'
  BY DEF UnsentWaits, Has
<1>4. ResultTells'
  BY DEF ResultTells
<1> QED
  BY <1>1, <1>2, <1>3, <1>4, <1>5

\* A message that the batcher takes is appended to accepted.
LEMMA InAppend ==
    ASSUME NEW q \in Seq(Items), NEW i \in Items, NEW j, InSeq(j, Append(q, i))
    PROVE  InSeq(j, q) \/ j = i
<1>1. PICK a \in 1..Len(Append(q, i)) : Append(q, i)[a] = j
  BY DEF InSeq
<1>2. Len(q) \in Nat /\ Len(Append(q, i)) = Len(q) + 1
  OBVIOUS
<1>3. CASE a \in 1..Len(q)
  BY <1>1, <1>3 DEF InSeq
<1>4. CASE a = Len(q) + 1
  BY <1>1, <1>4
<1> QED
  BY <1>2, <1>3, <1>4

-----------------------------------------------------------------------------
(* The steps *)

\* Steps that leave results, calls and closers alone.
LEMMA ClosesSame ==
    ASSUME Closes, UNCHANGED <<terr, cancelled, spc, hres>>,
           closer = "returned" => closer' = "returned",
           \A i \in Items : errc'[i] = errc[i] \/ errc'[i] # CtxErr
    PROVE  Closes'
  BY DEF Closes, OneCloser, CancelLate, FlushedClean, Past

\* Steps that leave the calls of SendBatch and their messages alone.
LEMMA SendsSame ==
    ASSUME Sends, UNCHANGED <<errc, gpc, batch, hcall, hres, sent>> PROVE Sends'
  BY DEF Sends, CallsRun, SentInHand, UnsentWaits, ResultTells, Has

\* The invariant holds at the start.
LEMMA TopicInitIInv == TopicInit => TopicIInv
<1> SUFFICES ASSUME TopicInit PROVE TopicIInv
  OBVIOUS
<1>1. IInv
  BY InitIInv DEF TopicInit
<1>2. TopicTypeOK
  BY TopicAssumption DEF TopicInit, TopicTypeOK, CallStates
<1>3. CallsRun /\ SentInHand
  BY DEF TopicInit, Init, CallsRun, SentInHand, Has
<1>4. UnsentWaits /\ ResultTells /\ AcceptedAnswers
  BY DEF TopicInit, Init, UnsentWaits, ResultTells, AcceptedAnswers
<1>5. Closes
  BY DEF TopicInit, Init, Closes, OneCloser, CancelLate, FlushedClean, CtxErr, NoResult
<1> QED
  BY <1>1, <1>2, <1>3, <1>4, <1>5 DEF TopicIInv, Sends

\* Send checks, or returns.
LEMMA StepSend ==
    ASSUME TopicIInv, NEW i \in Items, SendChecks(i) \/ SendReturns(i) PROVE TopicIInv'
<1>1. IInv'
  BY StutterIInv, StepAddReturns DEF TopicIInv, SendChecks, SendReturns
<1>2. UNCHANGED <<errc, gpc, batch, closer, accepted, terr, cancelled, hcall, hres, spc, sent>>
  BY DEF SendChecks, SendReturns, vars, topicVars, AddReturns
<1>3. TopicTypeOK'
  BY <1>2 DEF TopicIInv, TopicTypeOK
<1>4. Sends' /\ Closes'
  BY <1>2, SendsSame, ClosesSame DEF TopicIInv
<1>5. AcceptedAnswers'
  BY <1>2 DEF TopicIInv, AcceptedAnswers
<1> QED
  BY <1>1, <1>3, <1>4, <1>5 DEF TopicIInv

\* Send hands the message to the Batcher: a refused one has not been sent, and
\* an accepted one has no result yet.
LEMMA StepSendAdds ==
    ASSUME TopicIInv, NEW i \in Items, SendAdds(i) PROVE TopicIInv'
<1>1. IInv'
  BY StepAddRefused, StepAddAccepted DEF TopicIInv, SendAdds
<1>2. UNCHANGED <<closer, terr, cancelled, hres, spc, sent>>
  BY DEF SendAdds, AddRefused, AddAccepted
<1>3. caller[i] = "idle" /\ ~InSeq(i, accepted) /\ errc[i] = NoResult
  BY DEF SendAdds, AddRefused, AddAccepted, TopicIInv, IInv, Ownership, Fresh
<1>4. \A h \in Goroutines : gpc[h] = "calling" => gpc'[h] = "calling" /\ batch'[h] = batch[h]
  BY NoneInterrupted DEF TopicIInv, SendAdds
<1>5. CASE AddRefused(i)
  <2>1. /\ UNCHANGED <<gpc, batch, accepted>>
        /\ \A j \in Items \ {i} : errc'[j] = errc[j]
        /\ errc'[i] \in {ErrShut, ErrTooLarge}
    BY <1>5 DEF AddRefused, TopicIInv, IInv, TypeOK
  <2>2. hcall' = hcall
    BY <2>1 DEF SendAdds, Started, TopicIInv, TopicTypeOK
  <2>3. \A g \in Goroutines : ~Has(g, i)
    <3> TAKE g \in Goroutines
    <3>1. ~InSeq(i, taken)
      BY <1>3, InConcat DEF TopicIInv, IInv, TypeOK, Ownership, TakenInOrder
    <3> QED
      BY <3>1 DEF Has, TopicIInv, IInv, Ownership, BatchesTaken
  <2>4. errc'[i] # NoResult /\ errc'[i] # "nil" /\ errc'[i] # CtxErr
    BY <2>1 DEF ErrShut, ErrTooLarge, NoResult, CtxErr
  <2>5. sent[i] = 0
    BY <1>3, <2>3 DEF TopicIInv, Sends, UnsentWaits
  <2>6. Sends'
    <3>1. CallsRun' /\ SentInHand'
      BY <1>2, <2>1, <2>2 DEF TopicIInv, Sends, CallsRun, SentInHand, Has
    <3>2. UnsentWaits'
      BY <1>2, <2>1, <2>4 DEF TopicIInv, Sends, UnsentWaits, Has
    <3>3. ResultTells'
      BY <1>2, <2>1, <2>4, <2>5 DEF TopicIInv, Sends, ResultTells
    <3> QED
      BY <3>1, <3>2, <3>3 DEF Sends
  <2>7. Closes'
    <3>1. \A j \in Items : errc'[j] = errc[j] \/ errc'[j] # CtxErr
      BY <2>1, <2>4
    <3> QED
      BY <1>2, <3>1, ClosesSame DEF TopicIInv
  <2>8. AcceptedAnswers'
    BY <1>3, <2>1 DEF TopicIInv, AcceptedAnswers
  <2>9. TopicTypeOK'
    BY <1>2, <2>2 DEF TopicIInv, TopicTypeOK
  <2> QED
    BY <1>1, <2>6, <2>7, <2>8, <2>9 DEF TopicIInv
<1>6. CASE AddAccepted(i)
  <2>1. errc' = errc /\ accepted' = Append(accepted, i)
    BY <1>6 DEF AddAccepted
  <2>2. Sends' /\ hcall' \in [Goroutines -> CallStates]
    BY <1>1, <1>2, <1>4, <2>1, StartedUnsent DEF SendAdds, TopicIInv
  <2>3. TopicTypeOK'
    BY <1>2, <2>2 DEF TopicIInv, TopicTypeOK
  <2>4. Closes'
    BY <1>2, <2>1, ClosesSame DEF TopicIInv
  <2>5. AcceptedAnswers'
    <3>1. accepted \in Seq(Items)
      BY DEF TopicIInv, IInv, TypeOK
    <3>2. \A j \in Items : InSeq(j, accepted') => InSeq(j, accepted) \/ j = i
      BY <2>1, <3>1, InAppend
    <3> QED
      BY <1>3, <2>1, <3>2 DEF TopicIInv, AcceptedAnswers
  <2> QED
    BY <1>1, <2>2, <2>3, <2>4, <2>5 DEF TopicIInv
<1> QED
  BY <1>5, <1>6 DEF SendAdds

\* A step that gives goroutine g its result sets hres and hcall of g only.
LEMMA ResultShape ==
    ASSUME TopicTypeOK, NEW g \in Goroutines, NEW e \in HandlerErrors, HandlerResult(g, e)
    PROVE  /\ hcall' \in [Goroutines -> CallStates] /\ hres' \in [Goroutines -> HandlerErrors]
           /\ hcall'[g] = "done" /\ hres'[g] = e
           /\ \A h \in Goroutines \ {g} : hcall'[h] = hcall[h] /\ hres'[h] = hres[h]
  BY DEF TopicTypeOK, HandlerResult, CallStates

\* retry.Call goes on without a result.
LEMMA CallGoesOn ==
    ASSUME TopicIInv, NEW g \in Goroutines, NEW c \in CallStates \ {"none", "done"},
           hcall[g] \in CallStates \ {"none", "done"},
           hcall' = [hcall EXCEPT ![g] = c],
           UNCHANGED <<vars, terr, cancelled, spc, hres, sent>>
    PROVE  TopicIInv'
<1>0. UNCHANGED <<errc, gpc, batch, closer, accepted>>
  BY DEF vars
<1>1. IInv'
  BY StutterIInv DEF TopicIInv
<1>2. TopicTypeOK'
  BY DEF TopicIInv, TopicTypeOK
<1>3. Closes' /\ AcceptedAnswers'
  BY <1>0, ClosesSame DEF TopicIInv, AcceptedAnswers
<1>4. hcall'[g] = c /\ \A h \in Goroutines \ {g} : hcall'[h] = hcall[h]
  BY DEF TopicIInv, TopicTypeOK
<1>5. CallsRun'
  BY <1>0, <1>4 DEF TopicIInv, Sends, CallsRun
<1>6. SentInHand'
  BY <1>0, <1>4 DEF TopicIInv, Sends, SentInHand, Has
<1>7. UnsentWaits' /\ ResultTells'
  BY <1>0 DEF TopicIInv, Sends, UnsentWaits, ResultTells, Has
<1> QED
  BY <1>1, <1>2, <1>3, <1>5, <1>6, <1>7 DEF TopicIInv, Sends

\* retry.Call gives up, or driver.SendBatch fails for good: nothing is sent.
LEMMA CallFails ==
    ASSUME TopicIInv, NEW g \in Goroutines, NEW e \in {SendErr, CtxErr},
           hcall[g] \in CallStates \ {"none", "done"},
           e = CtxErr => cancelled,
           HandlerResult(g, e),
           UNCHANGED <<vars, terr, cancelled, spc, sent>>
    PROVE  TopicIInv'
<1>0. UNCHANGED <<errc, gpc, batch, closer, accepted>>
  BY DEF vars
<1>1. IInv'
  BY StutterIInv DEF TopicIInv
<1>2. e \in HandlerErrors /\ e # "nil"
  BY TopicAssumption DEF SendErr, CtxErr
<1>3. /\ hcall' \in [Goroutines -> CallStates] /\ hres' \in [Goroutines -> HandlerErrors]
      /\ hcall'[g] = "done" /\ hres'[g] = e
      /\ \A h \in Goroutines \ {g} : hcall'[h] = hcall[h] /\ hres'[h] = hres[h]
  BY <1>2, ResultShape DEF TopicIInv
<1>4. TopicTypeOK'
  BY <1>3 DEF TopicIInv, TopicTypeOK
<1>5. AcceptedAnswers'
  BY <1>0 DEF TopicIInv, AcceptedAnswers
<1>6. Closes'
  BY <1>0, <1>3 DEF TopicIInv, Closes, OneCloser, CancelLate, FlushedClean, Past
<1>7. CallsRun'
  BY <1>0, <1>3 DEF TopicIInv, Sends, CallsRun
<1>8. SentInHand'
  BY <1>0, <1>2, <1>3 DEF TopicIInv, Sends, SentInHand, Has
<1>9. UnsentWaits' /\ ResultTells'
  BY <1>0 DEF TopicIInv, Sends, UnsentWaits, ResultTells, Has
<1> QED
  BY <1>1, <1>4, <1>5, <1>6, <1>7, <1>8, <1>9 DEF TopicIInv, Sends

\* driver.SendBatch succeeds: the messages of the batch, which nobody else has
\* in hand, are sent.
LEMMA CallSucceeds ==
    ASSUME TopicIInv, NEW g \in Goroutines,
           hcall[g] = "driver",
           HandlerResult(g, "nil"),
           sent' = [i \in Items |-> IF InSeq(i, batch[g]) THEN sent[i] + 1 ELSE sent[i]],
           UNCHANGED <<vars, terr, cancelled, spc>>
    PROVE  TopicIInv'
<1>0. UNCHANGED <<errc, gpc, batch, closer, accepted>>
  BY DEF vars
<1>1. IInv'
  BY StutterIInv DEF TopicIInv
<1>2. "nil" \in HandlerErrors
  BY TopicAssumption
<1>3. /\ hcall' \in [Goroutines -> CallStates] /\ hres' \in [Goroutines -> HandlerErrors]
      /\ hcall'[g] = "done" /\ hres'[g] = "nil"
      /\ \A h \in Goroutines \ {g} : hcall'[h] = hcall[h] /\ hres'[h] = hres[h]
  BY <1>2, ResultShape DEF TopicIInv
<1>4. TopicTypeOK'
  BY <1>3 DEF TopicIInv, TopicTypeOK
<1>5. AcceptedAnswers'
  BY <1>0 DEF TopicIInv, AcceptedAnswers
<1>6. Closes'
  BY <1>0, <1>3 DEF TopicIInv, Closes, OneCloser, CancelLate, FlushedClean, Past, CtxErr
<1>7. gpc[g] = "calling"
  BY DEF TopicIInv, Sends, CallsRun
<1>8. \A i \in Items : InSeq(i, batch[g]) =>
         /\ errc[i] = NoResult /\ sent[i] = 0
         /\ \A h \in Goroutines : Has(h, i) => h = g
  BY <1>7 DEF TopicIInv, IInv, Ownership, BatchesTaken, Disjoint, Sends, SentInHand, Has
<1>9. CallsRun'
  BY <1>0, <1>3 DEF TopicIInv, Sends, CallsRun
<1>10. SentInHand'
  <2> SUFFICES ASSUME NEW h \in Goroutines, NEW i \in Items, Has(h, i)
               PROVE  sent'[i] = IF hcall'[h] = "done" /\ hres'[h] = "nil" THEN 1 ELSE 0
    BY <1>0 DEF SentInHand, Has
  <2>1. CASE h = g
    BY <1>3, <1>8, <2>1 DEF Has
  <2>2. CASE h # g
    <3>1. ~InSeq(i, batch[g])
      BY <1>8, <2>2
    <3> QED
      BY <1>3, <2>2, <3>1 DEF TopicIInv, Sends, SentInHand
  <2> QED
    BY <2>1, <2>2
<1>11. UnsentWaits'
  BY <1>0, <1>7 DEF TopicIInv, Sends, UnsentWaits, Has
<1>12. ResultTells'
  BY <1>0, <1>8 DEF TopicIInv, Sends, ResultTells
<1> QED
  BY <1>1, <1>4, <1>5, <1>6, <1>9, <1>10, <1>11, <1>12 DEF TopicIInv, Sends

\* The steps of retry.Call.
LEMMA StepCall ==
    ASSUME TopicIInv, NEW g \in Goroutines, CallEnters(g) \/ CallInvokes(g) \/ CallReturns(g)
    PROVE  TopicIInv'
<1>1. CASE CallEnters(g)
  <2>1. CASE cancelled /\ HandlerResult(g, CtxErr)
    BY <1>1, <2>1, CallFails DEF CallEnters, CallStates
  <2>2. CASE hcall' = [hcall EXCEPT ![g] = "calling"] /\ UNCHANGED hres
    BY <1>1, <2>2, CallGoesOn DEF CallEnters, CallStates
  <2> QED
    BY <1>1, <2>1, <2>2 DEF CallEnters
<1>2. CASE CallInvokes(g)
  BY <1>2, CallGoesOn DEF CallInvokes, CallStates
<1>3. CASE CallReturns(g)
  <2>1. CASE /\ HandlerResult(g, "nil")
             /\ sent' = [i \in Items |-> IF InSeq(i, batch[g]) THEN sent[i] + 1 ELSE sent[i]]
    BY <1>3, <2>1, CallSucceeds DEF CallReturns
  <2>2. CASE hcall' = [hcall EXCEPT ![g] = "backoff"] /\ UNCHANGED <<hres, sent>>
    BY <1>3, <2>2, CallGoesOn DEF CallReturns, CallStates
  <2>3. CASE HandlerResult(g, SendErr) /\ UNCHANGED sent
    BY <1>3, <2>3, CallFails DEF CallReturns, CallStates, SendErr, CtxErr
  <2>4. CASE cancelled /\ HandlerResult(g, CtxErr) /\ UNCHANGED sent
    BY <1>3, <2>4, CallFails DEF CallReturns, CallStates
  <2> QED
    BY <1>3, <2>1, <2>2, <2>3, <2>4 DEF CallReturns
<1> QED
  BY <1>1, <1>2, <1>3

\* The handler returns: each message of the batch gets the result that says
\* whether it was sent.
LEMMA StepCallDone ==
    ASSUME TopicIInv, NEW g \in Goroutines, CallDone(g) PROVE TopicIInv'
<1>1. hres[g] \in HandlerErrors /\ HandlerReturns(g, hres[g]) /\ hcall[g] = "done"
  BY DEF CallDone, TopicIInv, TopicTypeOK
<1>2. IInv'
  BY <1>1, StepHandlerReturns DEF TopicIInv
<1>3. /\ UNCHANGED <<batch, closer, accepted, terr, cancelled, hres, spc, sent>>
      /\ hcall' = [hcall EXCEPT ![g] = "none"]
      /\ gpc[g] = "calling" /\ gpc' = [gpc EXCEPT ![g] = "reported"]
      /\ \A i \in Items : errc'[i] = IF InSeq(i, batch[g]) THEN hres[g] ELSE errc[i]
  BY <1>1 DEF CallDone, HandlerReturns
<1>4. TopicTypeOK'
  BY <1>3 DEF TopicIInv, TopicTypeOK, CallStates
<1>5. CallsRun'
  BY <1>3 DEF TopicIInv, IInv, TypeOK, TopicTypeOK, Sends, CallsRun
<1>6. /\ \A h \in Goroutines, i \in Items : Has(h, i)' <=> h # g /\ Has(h, i)
      /\ \A h \in Goroutines : h # g => hcall'[h] = hcall[h]
  BY <1>3 DEF Has, TopicIInv, IInv, TypeOK, TopicTypeOK
<1>7. SentInHand'
  BY <1>3, <1>6 DEF TopicIInv, Sends, SentInHand
<1>8. \A i \in Items : errc'[i] = NoResult => errc[i] = NoResult /\ ~InSeq(i, batch[g])
  BY <1>1, <1>3, BatcherAssumption
<1>9. UnsentWaits'
  <2> SUFFICES ASSUME NEW i \in Items, errc'[i] = NoResult,
                      \A h \in Goroutines : ~Has(h, i)'
               PROVE  sent[i] = 0
    BY <1>3 DEF UnsentWaits
  <2>1. \A h \in Goroutines : ~Has(h, i)
    BY <1>6, <1>8 DEF Has
  <2> QED
    BY <1>8, <2>1 DEF TopicIInv, Sends, UnsentWaits
<1>10. ResultTells'
  BY <1>1, <1>3 DEF TopicIInv, Sends, SentInHand, ResultTells, Has
<1>11. AcceptedAnswers'
  BY <1>1, <1>3 DEF TopicIInv, AcceptedAnswers
<1>12. Closes'
  <2>1. OneCloser'
    BY <1>3 DEF TopicIInv, Closes, OneCloser
  <2>2. CancelLate'
    BY <1>3 DEF TopicIInv, Closes, CancelLate
  <2>3. closer # "returned"
    BY <1>3 DEF TopicIInv, IInv, Closing, Live
  <2>4. FlushedClean'
    BY <1>3, <2>3 DEF TopicIInv, Closes, FlushedClean
  <2> QED
    BY <2>1, <2>2, <2>4 DEF Closes
<1> QED
  BY <1>2, <1>4, <1>5, <1>7, <1>9, <1>10, <1>11, <1>12 DEF TopicIInv, Sends

\* The goroutine takes the next batch, or ends.
LEMMA StepHandlerNext ==
    ASSUME TopicIInv, NEW g \in Goroutines, HandlerNext(g) PROVE TopicIInv'
<1>1. CASE TakeNext(g) /\ Started /\ UNCHANGED <<terr, cancelled, sender, hres, spc, closed, sent>>
  <2>1. IInv'
    BY <1>1, StepTakeNext DEF TopicIInv
  <2>2. UNCHANGED <<errc, closer, accepted>>
    BY <1>1 DEF TakeNext
  <2>3. \A h \in Goroutines : gpc[h] = "calling" => gpc'[h] = "calling" /\ batch'[h] = batch[h]
    BY <1>1, NoneInterrupted DEF TopicIInv
  <2>4. Sends' /\ hcall' \in [Goroutines -> CallStates]
    BY <1>1, <2>1, <2>2, <2>3, StartedUnsent DEF TopicIInv
  <2>5. TopicTypeOK'
    BY <1>1, <2>4 DEF TopicIInv, TopicTypeOK
  <2>6. Closes' /\ AcceptedAnswers'
    BY <1>1, <2>2, ClosesSame DEF TopicIInv, AcceptedAnswers
  <2> QED
    BY <2>1, <2>4, <2>5, <2>6 DEF TopicIInv
<1>2. CASE WgDone(g) /\ UNCHANGED topicVars
  <2>1. IInv'
    BY <1>2, StepWgDone DEF TopicIInv
  <2>2. /\ UNCHANGED <<errc, closer, accepted, batch>>
        /\ UNCHANGED <<terr, cancelled, hcall, hres, spc, sent>>
    BY <1>2 DEF WgDone, topicVars
  <2>3. \A h \in Goroutines : gpc'[h] = "calling" <=> gpc[h] = "calling"
    BY <1>2 DEF WgDone, TopicIInv, IInv, TypeOK
  <2>4. Sends'
    BY <2>2, <2>3 DEF TopicIInv, Sends, CallsRun, SentInHand, UnsentWaits, ResultTells, Has
  <2>5. TopicTypeOK'
    BY <2>2 DEF TopicIInv, TopicTypeOK
  <2>6. Closes' /\ AcceptedAnswers'
    BY <2>2, ClosesSame DEF TopicIInv, AcceptedAnswers
  <2> QED
    BY <2>1, <2>4, <2>5, <2>6 DEF TopicIInv
<1> QED
  BY <1>1, <1>2 DEF HandlerNext

\* The flush of the Batcher begins or ends.
LEMMA StepFlush ==
    ASSUME TopicIInv, (\E s \in Closers : FlushBegin(s)) \/ FlushEnd PROVE TopicIInv'
<1>1. CASE \E s \in Closers : FlushBegin(s)
  <2>0. ShutdownBegin /\ Started /\ UNCHANGED <<terr, cancelled, sender, hres, spc, closed, sent>>
    BY <1>1 DEF FlushBegin
  <2>1. IInv'
    BY <2>0, StepShutdownBegin DEF TopicIInv
  <2>2. UNCHANGED <<errc, accepted>> /\ closer = "idle"
    BY <2>0 DEF ShutdownBegin
  <2>3. \A h \in Goroutines : gpc[h] = "calling" => gpc'[h] = "calling" /\ batch'[h] = batch[h]
    BY <2>0, NoneInterrupted DEF TopicIInv
  <2>4. Sends' /\ hcall' \in [Goroutines -> CallStates]
    BY <2>0, <2>1, <2>2, <2>3, StartedUnsent DEF TopicIInv
  <2>5. TopicTypeOK'
    BY <2>0, <2>4 DEF TopicIInv, TopicTypeOK
  <2>6. Closes' /\ AcceptedAnswers'
    BY <2>0, <2>2, ClosesSame DEF TopicIInv, AcceptedAnswers
  <2> QED
    BY <2>1, <2>4, <2>5, <2>6 DEF TopicIInv
<1>2. CASE FlushEnd
  <2>1. IInv'
    BY <1>2, StepShutdownReturns DEF TopicIInv, FlushEnd
  <2>2. /\ UNCHANGED <<errc, gpc, accepted, batch>> /\ closer' = "returned"
        /\ UNCHANGED <<terr, cancelled, hcall, hres, spc, sent>>
    BY <1>2 DEF FlushEnd, ShutdownReturns, topicVars
  <2>3. Sends' /\ Closes'
    BY <2>2, SendsSame, ClosesSame DEF TopicIInv
  <2>4. TopicTypeOK' /\ AcceptedAnswers'
    BY <2>2 DEF TopicIInv, TopicTypeOK, AcceptedAnswers
  <2> QED
    BY <2>1, <2>3, <2>4 DEF TopicIInv
<1> QED
  BY <1>1, <1>2

\* The critical section of Shutdown, the cancellation and driver.Close().  The
\* one call of Shutdown that leaves its select finds nothing cancelled.
LEMMA StepShutdown ==
    ASSUME TopicIInv, NEW s \in Closers,
           ShutdownCall(s) \/ ShutdownCancel(s) \/ ShutdownClose(s)
    PROVE  TopicIInv'
<1>1. UNCHANGED <<vars, hcall, hres, sent>> /\ UNCHANGED <<errc, gpc, batch, closer, accepted>>
  BY DEF ShutdownCall, ShutdownCancel, ShutdownClose, vars
<1>2. IInv'
  BY <1>1, StutterIInv DEF TopicIInv
<1>3. Sends' /\ AcceptedAnswers'
  BY <1>1, SendsSame DEF TopicIInv, AcceptedAnswers
<1>4. TopicTypeOK'
  BY <1>1 DEF ShutdownCall, ShutdownCancel, ShutdownClose, TopicIInv, TopicTypeOK
<1>5. OneCloser'
  BY <1>1 DEF ShutdownCall, ShutdownCancel, ShutdownClose, TopicIInv, TopicTypeOK, Closes,
              OneCloser
<1>6. CASE ShutdownCall(s)
  <2>1. CancelLate' /\ FlushedClean'
    BY <1>1, <1>6 DEF ShutdownCall, TopicIInv, TopicTypeOK, Closes, CancelLate, FlushedClean,
                      Past
  <2> QED
    BY <1>2, <1>3, <1>4, <1>5, <2>1 DEF TopicIInv, Closes
<1>7. CASE ShutdownCancel(s)
  <2>1. \A t \in Closers : spc[t] \notin {"idle", "refused"} => t = s
    BY <1>7 DEF ShutdownCancel, TopicIInv, Closes, OneCloser
  <2>2. ~cancelled
    BY <1>7, <2>1 DEF ShutdownCancel, TopicIInv, Closes, CancelLate, Past, TopicTypeOK
  <2>3. CancelLate'
    BY <1>7 DEF ShutdownCancel, TopicIInv, TopicTypeOK, CancelLate, Past
  <2>4. FlushedClean'
    BY <1>1, <1>7, <2>1, <2>2 DEF ShutdownCancel, TopicIInv, TopicTypeOK, Closes, CancelLate,
                                  FlushedClean
  <2> QED
    BY <1>2, <1>3, <1>4, <1>5, <2>3, <2>4 DEF TopicIInv, Closes
<1>8. CASE ShutdownClose(s)
  <2>1. CancelLate'
    BY <1>1, <1>8 DEF ShutdownClose, TopicIInv, TopicTypeOK, Closes, CancelLate, Past
  <2>2. FlushedClean'
    BY <1>1, <1>8 DEF ShutdownClose, TopicIInv, TopicTypeOK, Closes, FlushedClean
  <2> QED
    BY <1>2, <1>3, <1>4, <1>5, <2>1, <2>2 DEF TopicIInv, Closes
<1> QED
  BY <1>6, <1>7, <1>8

\* Every step of the Topic preserves the invariant.
LEMMA TopicNextIInv == TopicIInv /\ [TopicNext]_tvars => TopicIInv'
<1> SUFFICES ASSUME TopicIInv, [TopicNext]_tvars PROVE TopicIInv'
  OBVIOUS
<1>1. ASSUME NEW i \in Items, SendChecks(i) \/ SendAdds(i) \/ SendReturns(i) PROVE TopicIInv'
  BY <1>1, StepSend, StepSendAdds
<1>2. ASSUME NEW g \in Goroutines, CallEnters(g) \/ CallInvokes(g) \/ CallReturns(g)
      PROVE  TopicIInv'
  BY <1>2, StepCall
<1>3. ASSUME NEW g \in Goroutines, CallDone(g) PROVE TopicIInv'
  BY <1>3, StepCallDone
<1>4. ASSUME NEW g \in Goroutines, HandlerNext(g) PROVE TopicIInv'
  BY <1>4, StepHandlerNext
<1>5. ASSUME NEW s \in Closers, ShutdownCall(s) \/ ShutdownCancel(s) \/ ShutdownClose(s)
      PROVE  TopicIInv'
  BY <1>5, StepShutdown
<1>6. CASE (\E s \in Closers : FlushBegin(s)) \/ FlushEnd
  BY <1>6, StepFlush
<1>7. CASE UNCHANGED tvars
  <2>1. UNCHANGED vars /\ UNCHANGED <<errc, gpc, batch, closer, accepted, terr, cancelled, hcall,
                                      hres, spc, sent>>
    BY <1>7 DEF tvars, vars, topicVars
  <2>2. IInv'
    BY <2>1, StutterIInv DEF TopicIInv
  <2>3. Sends' /\ Closes'
    BY <2>1, SendsSame, ClosesSame DEF TopicIInv
  <2>4. TopicTypeOK' /\ AcceptedAnswers'
    BY <2>1 DEF TopicIInv, TopicTypeOK, AcceptedAnswers
  <2> QED
    BY <2>2, <2>3, <2>4 DEF TopicIInv
<1> QED
  BY <1>1, <1>2, <1>3, <1>4, <1>5, <1>6, <1>7 DEF TopicNext

-----------------------------------------------------------------------------
(* The theorems *)

\* The inductive invariant holds in every reachable state.
THEOREM TopicInvariance == TopicSpec => []TopicIInv
  BY TopicInitIInv, TopicNextIInv, PTL DEF TopicSpec

\* The Topic uses its Batcher as the Batcher's specification allows: what is
\* proved of the Batcher holds of the one inside a Topic.
THEOREM TopicRefinesBatcher == TopicSpec => Spec
<1>1. TopicInit => Init
  BY DEF TopicInit
<1>2. TopicIInv => TopicTypeOK
  BY DEF TopicIInv
<1> QED
  BY <1>1, <1>2, TopicInvariance, BatcherStep, PTL DEF TopicSpec, Spec

\* Add returns a result that is there, and calls that Send has not made yet, or
\* does not make, leave no trace in the Batcher.
Returning ==
    \A i \in Items :
        /\ caller[i] = "result" => errc[i] # NoResult
        /\ sender[i] # "in-Add" => caller[i] = "idle"

\* No step takes a result back, or adds a message without the call of Add.
LEMMA StepReturning ==
    ASSUME TopicIInv, Returning, [TopicNext]_tvars,
           sender \in [Items -> {"idle", "checked", "refused", "in-Add"}]
    PROVE  Returning' /\ sender' \in [Items -> {"idle", "checked", "refused", "in-Add"}]
<1> USE DEF TopicIInv, IInv, TypeOK, Returning
<1>1. ASSUME NEW i \in Items, SendChecks(i) PROVE Returning'
  BY <1>1 DEF SendChecks, vars
<1>2. ASSUME NEW i \in Items, SendAdds(i) PROVE Returning'
  <2>1. /\ \A j \in Items \ {i} : caller'[j] = caller[j] /\ sender'[j] = sender[j]
        /\ sender'[i] = "in-Add" /\ caller'[i] = "select"
    BY <1>2 DEF SendAdds, AddRefused, AddAccepted
  <2>2. \A j \in Items \ {i} : errc'[j] = errc[j]
    BY <1>2 DEF SendAdds, AddRefused, AddAccepted
  <2> QED
    BY <2>1, <2>2
<1>3. ASSUME NEW i \in Items, SendReturns(i) PROVE Returning'
  BY <1>3 DEF SendReturns, AddReturns, topicVars
<1>4. ASSUME NEW g \in Goroutines,
             CallEnters(g) \/ CallInvokes(g) \/ CallReturns(g)
      PROVE  Returning'
  BY <1>4 DEF CallEnters, CallInvokes, CallReturns, vars
<1>5. ASSUME NEW g \in Goroutines, CallDone(g) PROVE Returning'
  <2>1. UNCHANGED <<caller, sender>> /\ hres[g] # NoResult
        /\ \A i \in Items : errc'[i] \in {errc[i], hres[g]}
    BY <1>5, BatcherAssumption DEF CallDone, HandlerReturns, TopicTypeOK
  <2> QED
    BY <2>1
<1>6. ASSUME NEW g \in Goroutines, HandlerNext(g) PROVE Returning'
  <2>1. UNCHANGED <<caller, sender, errc>>
    BY <1>6 DEF HandlerNext, TakeNext, WgDone, topicVars
  <2> QED
    BY <2>1
<1>7. ASSUME NEW s \in Closers, ShutdownCall(s) \/ FlushBegin(s) \/ ShutdownCancel(s) \/ ShutdownClose(s)
      PROVE  Returning'
  <2>1. UNCHANGED <<caller, sender, errc>>
    BY <1>7 DEF ShutdownCall, FlushBegin, ShutdownBegin, ShutdownCancel, ShutdownClose, vars
  <2> QED
    BY <2>1
<1>8. CASE FlushEnd
  BY <1>8 DEF FlushEnd, ShutdownReturns, topicVars
<1>9. CASE UNCHANGED tvars
  BY <1>9 DEF tvars, topicVars, vars
<1>10. Returning'
  BY <1>1, <1>2, <1>3, <1>4, <1>5, <1>6, <1>7, <1>8, <1>9 DEF TopicNext
<1>11. sender' \in [Items -> {"idle", "checked", "refused", "in-Add"}]
  BY DEF TopicNext, tvars, topicVars, SendChecks, SendAdds, SendReturns, CallEnters, CallInvokes,
         CallReturns, CallDone, HandlerNext, ShutdownCall, FlushBegin, ShutdownCancel,
         ShutdownClose, FlushEnd
<1> QED
  BY <1>10, <1>11

\* A Send that returns nil had its message in exactly one successful SendBatch
\* and one that returns an error in none, for any retries and batches; when its
\* ctx was done, the message was sent at most once.
THEOREM SentExactlyOnce == TopicSpec => []SentOnce
<1> DEFINE SenderOK == sender \in [Items -> {"idle", "checked", "refused", "in-Add"}]
<1>1. ASSUME TopicIInv, Returning PROVE SentOnce
  <2> SUFFICES ASSUME NEW i \in Items
               PROVE  /\ sent[i] <= 1
                      /\ caller[i] = "result" => (errc[i] = "nil" <=> sent[i] = 1)
                      /\ sender[i] = "refused" => sent[i] = 0
    BY DEF SentOnce
  <2>1. CASE errc[i] # NoResult
    <3>1. caller[i] # "idle" /\ sender[i] # "refused"
      BY <1>1, <2>1 DEF TopicIInv, IInv, Ownership, Fresh, Returning
    <3> QED
      BY <1>1, <2>1, <3>1 DEF TopicIInv, Sends, ResultTells
  <2>2. CASE errc[i] = NoResult
    <3>1. caller[i] # "result"
      BY <1>1, <2>2 DEF Returning
    <3>2. sent[i] <= 1
      BY <1>1, <2>2 DEF TopicIInv, Sends, SentInHand, UnsentWaits
    <3>3. ASSUME sender[i] = "refused" PROVE sent[i] = 0
      <4>1. ~InSeq(i, accepted)
        BY <1>1, <3>3 DEF TopicIInv, IInv, Ownership, Fresh, Returning
      <4>2. ~InSeq(i, taken)
        BY <1>1, <4>1, InConcat DEF TopicIInv, IInv, TypeOK, Ownership, TakenInOrder
      <4>3. \A g \in Goroutines : ~Has(g, i)
        BY <1>1, <4>2 DEF TopicIInv, IInv, Ownership, BatchesTaken, Has
      <4> QED
        BY <1>1, <2>2, <4>3 DEF TopicIInv, Sends, UnsentWaits
    <3> QED
      BY <3>1, <3>2, <3>3
  <2> QED
    BY <2>1, <2>2
<1>2. TopicInit => Returning /\ SenderOK
  BY DEF TopicInit, Init, Returning
<1>3. TopicIInv /\ Returning /\ SenderOK /\ [TopicNext]_tvars => Returning' /\ SenderOK'
  BY StepReturning
<1> QED
  BY <1>1, <1>2, <1>3, TopicInvariance, PTL DEF TopicSpec

\* When Shutdown returns because the Batcher is flushed, every message in it has
\* been sent or has failed for good: none was cancelled by this or by another
\* call of Shutdown.
THEOREM FlushedAreSent == TopicSpec => []FlushedMeansSent
<1>1. ASSUME TopicIInv, ShutdownFlushes PROVE FlushedMeansSent
  <2> SUFFICES ASSUME NEW s \in Closers, spc[s] = "returned-flushed",
                      NEW i \in Items, InSeq(i, accepted)
               PROVE  errc[i] \in {"nil", SendErr}
    BY DEF FlushedMeansSent
  <2>1. closer = "returned" /\ errc[i] # CtxErr
    BY <1>1 DEF TopicIInv, Closes, FlushedClean
  <2>2. errc[i] # NoResult
    BY <1>1, <2>1 DEF ShutdownFlushes
  <2>3. errc[i] \in HandlerErrors
    BY <1>1, <2>2 DEF TopicIInv, AcceptedAnswers
  <2> QED
    BY <2>1, <2>3, TopicAssumption
<1> QED
  BY <1>1, TopicInvariance, TopicRefinesBatcher, Flushed, PTL

\* So Send and every call of Topic.Shutdown, with a context that ends
\* or not, see of the Batcher no more than that queue.
THEOREM TopicActsAsService == TopicSpec => ActsAsService
BY TopicRefinesBatcher, BatcherRefinesService, PTL

=============================================================================

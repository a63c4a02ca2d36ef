--------------------------- MODULE SampleRingProofs ---------------------------
(***************************************************************************)
(* Proofs about SampleRing for every capacity, payload, set of samples and *)
(* set of requests: the type invariant, the integrity of the retained      *)
(* window, and the correctness of lookups.                                 *)
(***************************************************************************)
EXTENDS SampleRingInv, TLAPS

-------------------------------------------------------------------------------
(* Arithmetic of the ring. *)

\* A masked index is a slot.
LEMMA IdxInSlots == ASSUME NEW k \in Nat PROVE Idx(k) \in Slots
  BY CapacityAssumption DEF Idx, Slots

\* Two logical indices less than a capacity apart have different slots.
LEMMA IdxDistinct ==
  ASSUME NEW j \in Nat, NEW k \in Nat, j < k, k < j + Capacity
  PROVE  Idx(j) # Idx(k)
<1> DEFINE qj == j \div Capacity
           qk == k \div Capacity
<1>1. /\ j = Capacity * qj + Idx(j)
      /\ k = Capacity * qk + Idx(k)
      /\ qj \in Int /\ qk \in Int
      /\ Idx(j) \in Int /\ Idx(k) \in Int
  BY CapacityAssumption DEF Idx
<1>2. ASSUME NEW d \in Int, d >= 1 PROVE Capacity * d >= Capacity
  BY <1>2, CapacityAssumption
<1>3. ASSUME NEW d \in Int, d <= 0 PROVE Capacity * d <= 0
  BY <1>3, CapacityAssumption
<1>4. Capacity * (qk - qj) = Capacity * qk - Capacity * qj
  BY <1>1, CapacityAssumption
<1>5. qk - qj \in Int
  BY <1>1
<1>6. /\ qk - qj >= 1 => Capacity * (qk - qj) >= Capacity
      /\ qk - qj <= 0 => Capacity * (qk - qj) <= 0
  BY <1>2, <1>3, <1>5
<1> HIDE DEF qj, qk, Idx
<1>7. Idx(j) = Idx(k) => Capacity * (qk - qj) = k - j
  BY <1>1, <1>4, CapacityAssumption
<1>8. qk - qj >= 1 \/ qk - qj <= 0
  BY <1>5
<1>9. CASE qk - qj >= 1
  BY <1>9, <1>6, <1>7, CapacityAssumption
<1>10. CASE qk - qj <= 0
  BY <1>10, <1>6, <1>7, CapacityAssumption
<1> QED BY <1>8, <1>9, <1>10

\* The successor of an odd sequence number is even, also when it wraps.
LEMMA SeqSuccessor ==
  ASSUME NEW s \in 0 .. SeqModulus - 1, s % 2 = 1
  PROVE  /\ (s + 1) % SeqModulus \in 0 .. SeqModulus - 1
         /\ ((s + 1) % SeqModulus) % 2 = 0
  BY SeqAssumption

\* Where a window lies.
LEMMA WindowBounds ==
  ASSUME NEW n \in Nat, n > 0
  PROVE  /\ Oldest(n) \in Nat /\ Newest(n) \in Nat
         /\ Oldest(n) <= Newest(n) /\ Newest(n) < n
         /\ n < Oldest(n) + Capacity
         /\ retained = Capacity - 1
  BY CapacityAssumption DEF Oldest, Newest, retained


-------------------------------------------------------------------------------
(* The initial state. *)

LEMMA InitIInv == Init => IInv
<1> SUFFICES ASSUME Init PROVE IInv
  OBVIOUS
<1>1. TypeOK
  BY CapacityAssumption, SeqAssumption, PayloadAssumption
     DEF Init, TypeOK, ZeroPose, NoRequest, Request, Slots
<1>2. WriterInv /\ RingInv
  BY DEF Init, WriterInv, RingInv, StampsOrdered
<1>3. ReaderInv
  BY DEF Init, ReaderInv, WindowInv, SearchInv, Searching, ChoiceInv, Reading, SlotInv, DoneInv
<1> QED BY <1>1, <1>2, <1>3 DEF IInv

-------------------------------------------------------------------------------
(* The writer's steps. *)

\* Storing into the slot of sample head leaves every retained slot alone.
LEMMA OtherSlot ==
  ASSUME TypeOK, NEW k \in 0 .. head - 1, ~Lapped(k)
  PROVE  k \in Nat /\ Idx(k) \in Slots /\ Idx(head) \in Slots /\ Idx(k) # Idx(head)
<1>1. k \in Nat /\ head \in Nat /\ k < head /\ head < k + Capacity
  BY CapacityAssumption DEF TypeOK, Lapped
<1> QED BY <1>1, IdxInSlots, IdxDistinct

\* What a push and a crash do to the ring and to the writer.
LEMMA WriterStep ==
  ASSUME IInv, Push \/ CrashWriter
  PROVE  TypeOK' /\ WriterInv' /\ RingInv'
<1> USE CapacityAssumption DEF IInv
<1>0. /\ wh \in Nat /\ Idx(wh) \in Slots /\ head \in Nat /\ Idx(head) \in Slots
      /\ Samples \subseteq [stamp : Int, pose : [Words -> Vals]]
  BY IdxInSlots, PayloadAssumption DEF TypeOK
<1>1. ASSUME NEW s \in Samples, PushBegin(s) PROVE TypeOK' /\ WriterInv' /\ RingInv'
  <2>1. TypeOK'
    BY <1>0, <1>1 DEF PushBegin, TypeOK, arena, reader, window, search, slotrd, history
  <2>2. ASSUME head > 0 PROVE stamps[Idx(head - 1)] = log[head - 1].stamp
    <3>1. head - 1 \in 0 .. head - 1 /\ ~Lapped(head - 1)
      BY <1>0, <2>2 DEF Lapped
    <3> QED BY <3>1 DEF RingInv, Intact
  <2>3. WriterInv'
    <3>1. head > 0 => log[head - 1].stamp <= s.stamp
      BY <1>1, <2>2 DEF PushBegin
    <3>2. /\ wpc' = "odd" /\ wh' = head /\ wsample' = s /\ s \in Samples
          /\ head' = head /\ log' = log
      BY <1>1 DEF PushBegin, arena, history
    <3> QED BY <3>1, <3>2 DEF WriterInv
  <2>4. RingInv'
    BY <1>1 DEF PushBegin, RingInv, StampsOrdered, Intact, Lapped, arena, history
  <2> QED BY <2>1, <2>3, <2>4
<1>2. ASSUME PushOdd PROVE TypeOK' /\ WriterInv' /\ RingInv'
  <2>1. wh = head
    BY <1>2 DEF PushOdd, WriterInv
  <2>2. wodd' \in 0 .. SeqModulus - 1 /\ wodd' % 2 = 1 /\ seq' = [seq EXCEPT ![Idx(wh)] = wodd']
    <3>1. seq[Idx(wh)] \in 0 .. SeqModulus - 1
      BY <1>0 DEF TypeOK
    <3>2. /\ wodd' = IF seq[Idx(wh)] % 2 = 0 THEN seq[Idx(wh)] + 1 ELSE seq[Idx(wh)]
          /\ seq' = [seq EXCEPT ![Idx(wh)] = wodd']
      BY <1>2 DEF PushOdd
    <3>3. ASSUME NEW s \in 0 .. SeqModulus - 1
          PROVE  LET odd == IF s % 2 = 0 THEN s + 1 ELSE s
                 IN  odd \in 0 .. SeqModulus - 1 /\ odd % 2 = 1
      BY SeqAssumption
    <3> QED BY <3>1, <3>2, <3>3
  <2>3. TypeOK'
    <3>1. seq' \in [Slots -> 0 .. SeqModulus - 1]
      BY <1>0, <2>2 DEF TypeOK
    <3>2. wpc' = "payload" /\ wtodo' = Words \cup {"stamp"}
      BY <1>2 DEF PushOdd
    <3>3. UNCHANGED <<head, heartbeat, stamps, data, wh, wsample, reader, history>>
      BY <1>2 DEF PushOdd
    <3> QED BY <2>2, <3>1, <3>2, <3>3 DEF TypeOK, reader, window, search, slotrd, history
  <2>4. WriterInv'
    BY <1>0, <1>2, <2>2 DEF PushOdd, WriterInv, TypeOK, history
  <2>5. RingInv'
    BY <1>0, <1>2, <2>1, <2>2, OtherSlot
       DEF PushOdd, RingInv, StampsOrdered, Intact, Lapped, TypeOK, history
  <2> QED BY <2>3, <2>4, <2>5
<1>3. ASSUME PushStamp PROVE TypeOK' /\ WriterInv' /\ RingInv'
  <2>1. wh = head
    BY <1>3 DEF PushStamp, WriterInv
  <2>2. TypeOK'
    BY <1>0, <1>3 DEF PushStamp, TypeOK, reader, window, search, slotrd, history
  <2>3. WriterInv'
    BY <1>0, <1>3, PayloadAssumption DEF PushStamp, WriterInv, TypeOK, history
  <2>4. RingInv'
    BY <1>0, <1>3, <2>1, OtherSlot
       DEF PushStamp, RingInv, StampsOrdered, Intact, Lapped, TypeOK, history
  <2> QED BY <2>2, <2>3, <2>4
<1>4. ASSUME NEW w \in Words, PushWord(w) PROVE TypeOK' /\ WriterInv' /\ RingInv'
  <2>1. wh = head
    BY <1>4 DEF PushWord, WriterInv
  <2>2. TypeOK'
    BY <1>0, <1>4 DEF PushWord, TypeOK, reader, window, search, slotrd, history
  <2>3. WriterInv'
    BY <1>0, <1>4, PayloadAssumption DEF PushWord, WriterInv, TypeOK, history
  <2>4. RingInv'
    BY <1>0, <1>4, <2>1, OtherSlot
       DEF PushWord, RingInv, StampsOrdered, Intact, Lapped, TypeOK, history
  <2> QED BY <2>2, <2>3, <2>4
<1>5. ASSUME PushEven PROVE TypeOK' /\ WriterInv' /\ RingInv'
  <2>1. wh = head
    BY <1>5 DEF PushEven, WriterInv
  <2>2. /\ (wodd + 1) % SeqModulus \in 0 .. SeqModulus - 1
        /\ ((wodd + 1) % SeqModulus) % 2 = 0
    BY <1>5, SeqSuccessor DEF PushEven, WriterInv, TypeOK
  <2>3. TypeOK'
    BY <1>0, <1>5, <2>2 DEF PushEven, TypeOK, reader, window, search, slotrd, history
  <2>4. WriterInv'
    BY <1>0, <1>5, <2>2 DEF PushEven, WriterInv, TypeOK, history
  <2>5. RingInv'
    BY <1>0, <1>5, <2>1, OtherSlot
       DEF PushEven, RingInv, StampsOrdered, Intact, Lapped, TypeOK, history
  <2> QED BY <2>3, <2>4, <2>5
<1>6. ASSUME PushHead PROVE TypeOK' /\ WriterInv' /\ RingInv'
  <2>1. wh = head /\ wtodo = {} /\ wsample \in Samples
    BY <1>6 DEF PushHead, WriterInv
  <2>2. TypeOK'
    BY <1>0, <1>6, <2>1 DEF PushHead, TypeOK, reader, window, search, slotrd
  <2>3. WriterInv'
    BY <1>6 DEF PushHead, WriterInv
  <2>4. data[Idx(wh)] = wsample.pose
    <3>1. /\ data[Idx(wh)] \in [Words -> Vals] /\ wsample.pose \in [Words -> Vals]
          /\ \A w \in Words : data[Idx(wh)][w] = wsample.pose[w]
      BY <1>0, <1>6, <2>1 DEF PushHead, WriterInv, TypeOK
    <3> QED BY <3>1
  <2>5. StampsOrdered'
    <3>0. head' = head + 1 /\ 0 .. head' - 1 = 0 .. head
      BY <1>0, <1>6, <2>1 DEF PushHead
    <3> SUFFICES ASSUME NEW j \in 0 .. head, NEW k \in 0 .. head, j <= k
                 PROVE  log'[j].stamp <= log'[k].stamp
      BY <3>0 DEF StampsOrdered
    <3>1. log'[j] = (IF j = head THEN wsample ELSE log[j]) /\ log'[k] = (IF k = head THEN wsample ELSE log[k])
      BY <1>6, <2>1 DEF PushHead
    <3>2. CASE k = head /\ j < head
      <4>1. log[j].stamp <= log[head - 1].stamp /\ log[head - 1].stamp <= wsample.stamp
        BY <1>0, <1>6, <3>2 DEF PushHead, WriterInv, RingInv, StampsOrdered
      <4>2. log[j].stamp \in Int /\ log[head - 1].stamp \in Int /\ wsample.stamp \in Int
        BY <1>0, <2>1, <3>2 DEF TypeOK
      <4> QED BY <3>1, <3>2, <4>1, <4>2
    <3>3. CASE k = head /\ j = head
      BY <1>0, <2>1, <3>1, <3>3
    <3>4. CASE k < head
      BY <1>0, <3>1, <3>4 DEF RingInv, StampsOrdered
    <3>5. \/ k = head /\ j < head
          \/ k = head /\ j = head
          \/ k < head
      BY <1>0
    <3> QED BY <3>2, <3>3, <3>4, <3>5
  <2>6. \A k \in 0 .. head : ~Lapped(k)' => Intact(k)'
    BY <1>0, <1>6, <2>1, <2>4 DEF PushHead, WriterInv, RingInv, Intact, Lapped
  <2>7. 0 .. head' - 1 = 0 .. head
    BY <1>0, <1>6, <2>1 DEF PushHead
  <2> QED BY <2>2, <2>3, <2>5, <2>6, <2>7 DEF RingInv
<1>7. ASSUME PushBeat PROVE TypeOK' /\ WriterInv' /\ RingInv'
  BY <1>0, <1>7 DEF PushBeat, TypeOK, WriterInv, RingInv, StampsOrdered, Intact, Lapped,
                    reader, window, search, slotrd, history
<1>8. ASSUME CrashWriter PROVE TypeOK' /\ WriterInv' /\ RingInv'
  <2>1. TypeOK'
    BY <1>0, <1>8 DEF CrashWriter, TypeOK, arena, reader, window, search, slotrd
  <2>2. WriterInv'
    BY <1>8 DEF CrashWriter, WriterInv
  <2>3. RingInv'
    BY <1>8 DEF CrashWriter, RingInv, StampsOrdered, Intact, Lapped, arena
  <2> QED BY <2>1, <2>2, <2>3
<1> QED BY <1>1, <1>2, <1>3, <1>4, <1>5, <1>6, <1>7, <1>8 DEF Push
-------------------------------------------------------------------------------
(* The reader under the writer's steps. *)

\* An answer depends on the samples below n only.
LEMMA AnswersStable ==
  ASSUME NEW L, NEW M, NEW q, NEW n \in Nat, NEW r,
         q.t \in Int,
         \A k \in 0 .. n - 1 : L[k] = M[k] /\ L[k].stamp \in Int,
         Answers(L, q, n, r)
  PROVE  Answers(M, q, n, r)
<1>1. CASE n = 0
  BY <1>1 DEF Answers
<1>2. CASE n > 0
  <2>1. /\ Oldest(n) \in 0 .. n - 1 /\ Newest(n) \in 0 .. n - 1
        /\ Oldest(n) <= Newest(n)
        /\ Oldest(n) .. Newest(n) \subseteq 0 .. n - 1
    BY <1>2, WindowBounds
  <2>2. L[Oldest(n)] = M[Oldest(n)] /\ L[Newest(n)] = M[Newest(n)]
    BY <2>1
  <2>3. Oldest(n) # Newest(n) => L[Newest(n) - 1] = M[Newest(n) - 1]
    BY <2>1
  <2>4. ASSUME NEW t, NEW k \in Oldest(n) .. Newest(n), LastAtMost(L, n, t, k)
        PROVE  LastAtMost(M, n, t, k)
    <3>1. L[k] = M[k] /\ \A j \in k + 1 .. Newest(n) : L[j] = M[j]
      BY <2>1
    <3> QED BY <2>4, <3>1 DEF LastAtMost
  <2>5. ASSUME NEW t, NEW k \in Oldest(n) .. Newest(n) - 1
        PROVE  L[k] = M[k] /\ L[k + 1] = M[k + 1] /\ Segment(L, k, t) = Segment(M, k, t)
    BY <2>1 DEF Segment
  <2>6. CASE AnswersOutside(L, q, n, r)
    BY <1>2, <2>2, <2>6 DEF AnswersOutside, Answers
  <2>7. CASE AnswersBeyond(L, q, n, r)
    <3>1. Oldest(n) # Newest(n) => Segment(L, Newest(n) - 1, q.t) = Segment(M, Newest(n) - 1, q.t)
      BY <2>1, <2>5
    <3> QED BY <1>2, <2>2, <2>3, <2>7, <3>1 DEF AnswersBeyond, Answers
  <2>8. CASE AnswersInside(L, q, n, r)
    <3>1. PICK k \in Oldest(n) .. Newest(n) :
            /\ LastAtMost(L, n, q.t, k)
            /\ r = IF L[k].stamp = q.t THEN Exact(L[k].pose) ELSE Segment(L, k, q.t)
      BY <2>8 DEF AnswersInside
    <3>2. LastAtMost(M, n, q.t, k) /\ L[k] = M[k]
      BY <2>1, <2>4, <3>1
    <3>3. k < Newest(n) => Segment(L, k, q.t) = Segment(M, k, q.t)
      BY <2>1, <2>5
    <3>4. k = Newest(n) => L[k].stamp = q.t
      <4>1. L[k].stamp <= q.t /\ q.t <= L[Newest(n)].stamp /\ L[k].stamp \in Int
        BY <2>1, <2>8, <3>1 DEF AnswersInside, LastAtMost
      <4> QED BY <4>1
    <3>5. r = IF M[k].stamp = q.t THEN Exact(M[k].pose) ELSE Segment(M, k, q.t)
      <4>1. k = Newest(n) \/ k < Newest(n)
        BY <2>1
      <4> QED BY <3>1, <3>2, <3>3, <3>4, <4>1
    <3>6. /\ q.op = "sample"
          /\ M[Oldest(n)].stamp <= q.t
          /\ q.t <= M[Newest(n)].stamp
      BY <2>2, <2>8 DEF AnswersInside
    <3> QED BY <1>2, <3>2, <3>5, <3>6 DEF AnswersInside, Answers
  <2>9. CASE AnswersTwist(L, q, n, r)
    <3>1. CASE Oldest(n) = Newest(n)
      BY <1>2, <2>2, <2>9, <3>1 DEF AnswersTwist, Answers
    <3>2. CASE Oldest(n) # Newest(n)
      <4>1. PICK k \in Oldest(n) .. Newest(n) - 1 :
              /\ IF q.t = L[Newest(n)].stamp THEN k = Newest(n) - 1
                 ELSE LastAtMost(L, n, q.t, k)
              /\ r = IF L[k].stamp = L[k + 1].stamp THEN Err("NoSegment") ELSE Segment(L, k, q.t)
        BY <2>9, <3>2 DEF AnswersTwist
      <4>2. k \in Oldest(n) .. Newest(n)
        BY <2>1
      <4>3. LastAtMost(L, n, q.t, k) => LastAtMost(M, n, q.t, k)
        BY <2>4, <4>2
      <4>4. L[k] = M[k] /\ L[k + 1] = M[k + 1] /\ Segment(L, k, q.t) = Segment(M, k, q.t)
        BY <2>5
      <4> QED BY <1>2, <2>2, <2>9, <3>2, <4>1, <4>3, <4>4 DEF AnswersTwist, Answers
    <3> QED BY <3>1, <3>2
  <2> QED BY <1>2, <2>6, <2>7, <2>8, <2>9 DEF Answers
<1> QED BY <1>1, <1>2

\* The types the reader's arguments rely on.
LEMMA ReaderTypes ==
  ASSUME TypeOK
  PROVE  /\ head \in Nat /\ h \in Nat /\ i \in Nat /\ len \in Nat /\ len > 0
         /\ off \in {0, 1} /\ last \in {0, 1} /\ tries \in Nat
         /\ req.t \in Int /\ tOld \in Int /\ tNew \in Int /\ ti \in Int /\ tj \in Int
         /\ req.op \in {"sample", "twist"}
         /\ req.policy \in {"Error", "Hold", "ConstantTwist"}
         /\ \A k \in 0 .. head - 1 : log[k].stamp \in Int
  BY DEF TypeOK, Request

\* The sample the reader settled on is in its window, and while it is retained
\* so is the upper end of the segment.
LEMMA Chosen ==
  ASSUME TypeOK, WindowInv, ChoiceInv, rpc = "t_i" \/ rpc = "t_j" \/ Reading
  PROVE  /\ h \in Nat /\ h > 0 /\ h <= head
         /\ i \in 0 .. head - 1 /\ Oldest(h) <= i /\ i <= Newest(h)
         /\ ~Lapped(i) /\ (Reading => last = 1) => i + 1 <= Newest(h)
<1> USE CapacityAssumption
<1>1. /\ h \in Nat /\ h > 0 /\ h <= head /\ head \in Nat /\ i \in Nat /\ req.t \in Int
      /\ \A k \in 0 .. head - 1 : log[k].stamp \in Int
  BY DEF TypeOK, WindowInv, Reading, Request
<1>2. /\ Oldest(h) \in Nat /\ Newest(h) \in Nat /\ Oldest(h) <= Newest(h) /\ Newest(h) = h - 1
  BY <1>1, WindowBounds DEF Newest
<1>3. OnExtension \/ OnLastSegment \/ OnBracket \/ OnNewest
  BY DEF ChoiceInv, Reading, TypeOK
<1>4. Oldest(h) <= i /\ i <= Newest(h)
  BY <1>1, <1>2, <1>3 DEF OnExtension, OnLastSegment, OnBracket, OnNewest
<1>5. ASSUME ~Lapped(i), Reading => last = 1 PROVE i + 1 <= Newest(h)
  <2>1. OnExtension \/ OnLastSegment \/ OnBracket
    BY <1>5 DEF ChoiceInv, Reading
  <2>2. CASE OnExtension \/ OnLastSegment
    BY <1>1, <1>2, <2>2 DEF OnExtension, OnLastSegment
  <2>3. CASE OnBracket
    <3>1. ASSUME i = Newest(h) PROVE FALSE
      <4>1. tNew = log[Newest(h)].stamp
        BY <1>5, <3>1 DEF WindowInv, Reading
      <4>2. log[i].stamp <= req.t /\ req.t < tNew
        BY <1>5, <2>3 DEF OnBracket, AtMost
      <4> QED BY <1>1, <1>2, <3>1, <4>1, <4>2
    <3> QED BY <1>1, <1>2, <1>4, <3>1
  <2> QED BY <2>1, <2>2, <2>3
<1> QED BY <1>1, <1>2, <1>4, <1>5

\* A step of the writer that publishes at most, and disturbs no slot that is
\* still retained, keeps every fact the reader relies on.
LEMMA ReaderStable ==
  ASSUME IInv, TypeOK', UNCHANGED reader,
         head' >= head,
         \A k \in 0 .. head - 1 : log'[k] = log[k],
         \A k \in 0 .. head - 1 : ~Lapped(k)' => seq'[Idx(k)] = seq[Idx(k)]
  PROVE  ReaderInv'
<1> USE CapacityAssumption
<1>1. /\ head \in Nat /\ head' \in Nat /\ h \in Nat /\ i \in Nat /\ len \in Nat /\ len > 0
      /\ off \in {0, 1} /\ req.t \in Int
      /\ \A k \in 0 .. head - 1 : log[k].stamp \in Int
  <2>1. head' \in Nat
    BY DEF TypeOK
  <2> QED BY <2>1, ReaderTypes DEF IInv
<1>2. \A k \in Int : ~Lapped(k)' => ~Lapped(k)
  BY <1>1 DEF Lapped
<1>3. /\ rpc \notin {"idle", "head"} => h <= head
      /\ rpc \notin {"idle", "head", "done"} => h > 0
  BY DEF IInv, ReaderInv, WindowInv
<1>4. h > 0 => /\ Oldest(h) \in Nat /\ Newest(h) \in Nat
               /\ Oldest(h) <= Newest(h) /\ Newest(h) < h
               /\ Newest(h) = h - 1
  BY <1>1, WindowBounds DEF Newest
<1>5. /\ rpc' = rpc /\ req' = req /\ h' = h /\ tOld' = tOld /\ tNew' = tNew
      /\ i' = i /\ len' = len /\ ti' = ti /\ tj' = tj /\ last' = last
      /\ off' = off /\ s1' = s1 /\ todo' = todo /\ tries' = tries /\ bits' = bits /\ res' = res
  BY DEF reader, window, search, slotrd
<1>6. WindowInv'
  BY <1>1, <1>2, <1>3, <1>4, <1>5 DEF IInv, ReaderInv, WindowInv
<1>7. h > 0 /\ h <= head => \A j \in Nat : j <= Newest(h) => log'[j] = log[j]
  BY <1>1, <1>4
<1>9. SearchInv'
  <2>1. len \div 2 \in Nat
    BY <1>1
  <2>2. CASE ~Searching
    BY <1>5, <2>2 DEF SearchInv, Searching
  <2>3. CASE Searching
    <3>1. h <= head /\ h > 0 /\ SearchInv /\ i <= Newest(h) /\ Oldest(h) <= i
      BY <1>3, <2>3 DEF Searching, IInv, ReaderInv, SearchInv
    <3>2. CASE rpc = "hint"
      BY <1>5, <3>1, <3>2 DEF SearchInv, Searching
    <3>3. CASE rpc = "up"
      <4>1. i + len \div 2 \in 0 .. head - 1 /\ AtMost(i + len \div 2)
        BY <1>1, <1>4, <2>1, <3>1, <3>3 DEF SearchInv
      <4>2. AtMost(i + len \div 2)'
        BY <1>1, <1>5, <2>1, <4>1 DEF AtMost, Lapped
      <4> QED BY <1>5, <3>1, <3>3, <4>2 DEF SearchInv, Searching
    <3>4. CASE rpc = "down"
      <4>1. i - len \div 2 \in 0 .. head - 1 /\ Above(i - len \div 2)
        BY <1>1, <1>4, <2>1, <3>1, <3>4 DEF SearchInv
      <4>2. Above(i - len \div 2)'
        BY <1>1, <1>5, <2>1, <4>1 DEF Above, Lapped
      <4> QED BY <1>5, <3>1, <3>4, <4>2 DEF SearchInv, Searching
    <3>5. CASE rpc = "bracket"
      <4>1. i \in 0 .. head - 1 /\ AtMost(i) /\ i + len - 1 \in Nat /\ AboveAfter(i + len - 1)
        BY <1>1, <1>4, <3>1, <3>5 DEF SearchInv
      <4>2. AtMost(i)' /\ AboveAfter(i + len - 1)'
        BY <1>1, <1>5, <1>7, <3>1, <4>1 DEF AtMost, AboveAfter, Lapped
      <4> QED BY <1>5, <3>1, <3>5, <4>2 DEF SearchInv, Searching
    <3> QED BY <2>3, <3>2, <3>3, <3>4, <3>5 DEF Searching
  <2> QED BY <2>2, <2>3
<1>10. /\ OnNewest => OnNewest'
       /\ OnExtension => OnExtension'
       /\ OnLastSegment => OnLastSegment'
  BY <1>5 DEF OnNewest, OnExtension, OnLastSegment
<1>11. ASSUME h > 0, h <= head, OnBracket PROVE OnBracket'
  <2>1. i \in 0 .. head - 1 /\ AtMost(i) /\ AboveAfter(i)
    BY <1>1, <1>4, <1>11 DEF OnBracket
  <2>2. AtMost(i)' /\ AboveAfter(i)'
    BY <1>1, <1>5, <1>7, <1>11, <2>1 DEF AtMost, AboveAfter, Lapped
  <2> QED BY <1>5, <1>11, <2>2 DEF OnBracket
<1>12. ASSUME rpc = "t_i" \/ rpc = "t_j" \/ Reading
       PROVE  /\ h > 0 /\ h <= head /\ i \in 0 .. head - 1
              /\ ~Lapped(i) /\ (Reading => last = 1) => i + 1 \in 0 .. head - 1
  BY <1>1, <1>4, <1>12, Chosen DEF IInv, ReaderInv
<1>13. ASSUME i \in 0 .. head - 1, LowerRead PROVE LowerRead'
  BY <1>1, <1>5, <1>13 DEF LowerRead, Lapped
<1>14. ASSUME Reading, last = 1, UpperRead PROVE UpperRead'
  BY <1>1, <1>5, <1>12, <1>14 DEF UpperRead, Lapped
<1>15. ChoiceInv'
  <2>1. ChoiceInv
    BY DEF IInv, ReaderInv
  <2>2. Reading' = Reading
    BY <1>5 DEF Reading
  <2>3. rpc = "t_i" => OnExtension' \/ OnLastSegment' \/ OnBracket'
    BY <1>10, <1>11, <1>12, <2>1 DEF ChoiceInv
  <2>4. rpc = "t_j" => /\ OnLastSegment' \/ OnBracket'
                       /\ last = 1 /\ LowerRead'
                       /\ req.op = "sample" => ti # req.t
    BY <1>10, <1>11, <1>12, <1>13, <2>1 DEF ChoiceInv
  <2>5. Reading /\ last = 1 =>
          \/ OnExtension' /\ LowerRead' /\ tj = tNew
          \/ /\ OnLastSegment' \/ OnBracket'
             /\ LowerRead' /\ UpperRead'
             /\ IF req.op = "sample" THEN ti # req.t ELSE ti # tj
    BY <1>10, <1>11, <1>12, <1>13, <1>14, <2>1 DEF ChoiceInv
  <2>6. Reading /\ last = 0 =>
          \/ OnNewest'
          \/ OnBracket' /\ req.op = "sample" /\ LowerRead' /\ ti = req.t
    BY <1>10, <1>11, <1>12, <1>13, <2>1 DEF ChoiceInv
  <2> QED BY <1>5, <2>2, <2>3, <2>4, <2>5, <2>6 DEF ChoiceInv
<1>16. SlotInv'
  <2>1. SlotInv
    BY DEF IInv, ReaderInv
  <2>2. Reading' = Reading
    BY <1>5 DEF Reading
  <2>3. CASE ~Reading
    BY <1>5, <2>1, <2>2, <2>3 DEF SlotInv, Reading
  <2>4. CASE Reading
    <3>1. ~Lapped(i)' => ~Lapped(i)
      BY <1>1, <1>5 DEF Lapped
    <3>2. off = 1 => last = 1
      BY <2>1, <2>4 DEF SlotInv
    <3>3. ~Lapped(i) => i \in 0 .. head - 1 /\ i + off \in 0 .. head - 1
      BY <1>1, <1>12, <2>4, <3>2
    <3>4. ~Lapped(i)' => ~Lapped(i + off)'
      BY <1>1, <1>5 DEF Lapped
    <3>5. ~Lapped(i)' => /\ log'[i] = log[i] /\ log'[i + off] = log[i + off]
                         /\ seq'[Idx(i + off)] = seq[Idx(i + off)]
      BY <1>5, <3>1, <3>3, <3>4 DEF Lapped
    <3> QED BY <1>5, <2>1, <2>2, <2>4, <3>1, <3>5 DEF SlotInv
  <2> QED BY <2>3, <2>4
<1>17. DoneInv'
  <2> SUFFICES ASSUME rpc = "done", Ok(res) \/ head' = h
               PROVE  Answers(log', req, h, res)
    BY <1>5 DEF DoneInv
  <2>1. h <= head /\ (head' = h => head = h)
    BY <1>1, <1>3
  <2>2. Answers(log, req, h, res)
    BY <2>1 DEF IInv, ReaderInv, DoneInv
  <2>3. \A k \in 0 .. h - 1 : log[k] = log'[k] /\ log[k].stamp \in Int
    BY <1>1, <2>1
  <2> HIDE DEF Answers
  <2> QED BY <1>1, <2>2, <2>3, AnswersStable
<1> QED BY <1>6, <1>9, <1>15, <1>16, <1>17 DEF ReaderInv

\* A push and a crash keep what the reader relies on.
LEMMA WriterStepReader ==
  ASSUME IInv, Push \/ CrashWriter
  PROVE  ReaderInv'
<1>1. TypeOK' /\ head \in Nat
  BY WriterStep DEF IInv, TypeOK
<1>2. UNCHANGED reader
  BY DEF Push, PushBegin, PushOdd, PushStamp, PushWord, PushEven, PushHead, PushBeat, CrashWriter
<1>3. CASE PushHead
  <2>1. wh = head
    BY <1>3 DEF PushHead, IInv, WriterInv
  <2>2. head' = head + 1 /\ seq' = seq /\ \A k \in 0 .. head - 1 : log'[k] = log[k]
    BY <1>1, <1>3, <2>1 DEF PushHead
  <2> QED BY <1>1, <1>2, <2>2, ReaderStable
<1>4. CASE PushOdd \/ PushEven
  <2>1. wh = head
    BY <1>4 DEF PushOdd, PushEven, IInv, WriterInv
  <2>2. /\ head' = head /\ log' = log
        /\ \E v : seq' = [seq EXCEPT ![Idx(head)] = v]
    BY <1>4, <2>1 DEF PushOdd, PushEven, history
  <2>3. \A k \in 0 .. head - 1 : ~Lapped(k)' => seq'[Idx(k)] = seq[Idx(k)]
    BY <2>2, OtherSlot DEF Lapped, IInv, TypeOK
  <2> QED BY <1>1, <1>2, <2>2, <2>3, ReaderStable
<1>5. CASE \/ CrashWriter \/ PushStamp \/ PushBeat
           \/ (\E s \in Samples : PushBegin(s)) \/ (\E w \in Words : PushWord(w))
  <2>1. head' = head /\ log' = log /\ seq' = seq
    BY <1>5 DEF CrashWriter, PushStamp, PushBeat, PushBegin, PushWord, arena, history
  <2> QED BY <1>1, <1>2, <2>1, ReaderStable
<1> QED BY <1>3, <1>4, <1>5 DEF Push

-------------------------------------------------------------------------------
(* The reader's steps. *)

\* While nothing is published, nothing in the reader's window is lapped.
LEMMA NothingLapped ==
  ASSUME TypeOK, h > 0, head = h, NEW k \in Nat, k >= Oldest(h)
  PROVE  ~Lapped(k)
<1>1. h \in Nat /\ h < Oldest(h) + Capacity /\ Oldest(h) \in Nat
  BY WindowBounds DEF TypeOK
<1> QED BY <1>1, CapacityAssumption DEF Lapped

\* A reader stores nothing to shared memory.
LEMMA ReaderFrame ==
  ASSUME IInv, UNCHANGED <<arena, writer, history>>
  PROVE  /\ WriterInv' /\ RingInv'
         /\ head' = head /\ log' = log /\ seq' = seq /\ stamps' = stamps /\ data' = data
         /\ \A k : Lapped(k)' <=> Lapped(k)
<1>1. /\ head' = head /\ log' = log /\ seq' = seq /\ stamps' = stamps /\ data' = data
      /\ UNCHANGED writer
  BY DEF arena, history
<1>2. WriterInv'
  BY <1>1 DEF IInv, WriterInv, writer
<1>3. RingInv' /\ \A k : Lapped(k)' <=> Lapped(k)
  BY <1>1 DEF IInv, RingInv, StampsOrdered, Intact, Lapped
<1> QED BY <1>1, <1>2, <1>3

\* The first steps: arguments, head, and the two ends of the window.
LEMMA OpeningSteps ==
  ASSUME IInv, (\E q \in Requests : Invoke(q)) \/ LoadHead \/ LoadOldest \/ LoadNewest
  PROVE  TypeOK' /\ ReaderInv'
<1> USE CapacityAssumption
<1>1. UNCHANGED <<arena, writer, history>>
  BY DEF Invoke, LoadHead, LoadOldest, LoadNewest
<1>2. /\ head' = head /\ log' = log /\ \A k : Lapped(k)' <=> Lapped(k)
      /\ TypeOK /\ WindowInv /\ SlotInv
      /\ \A k \in 0 .. head - 1 : ~Lapped(k) => stamps[Idx(k)] = log[k].stamp
  BY <1>1, ReaderFrame DEF IInv, ReaderInv, RingInv, Intact
<1>3. head \in Nat /\ h \in Nat
  BY <1>2, ReaderTypes
<1>4. h > 0 => /\ Oldest(h) \in Nat /\ Newest(h) \in Nat
               /\ Oldest(h) < h /\ Newest(h) < h
               /\ Idx(Oldest(h)) \in Slots /\ Idx(Newest(h)) \in Slots
  BY <1>3, WindowBounds, IdxInSlots
<1>5. ASSUME NEW q \in Requests, Invoke(q) PROVE TypeOK' /\ ReaderInv'
  <2>1. /\ rpc = "idle" /\ rpc' = "head" /\ req' = q /\ q \in Request
        /\ UNCHANGED <<h, tOld, tNew, search, slotrd, res>>
    BY <1>5, PayloadAssumption DEF Invoke, Goto
  <2>2. TypeOK'
    BY <1>1, <1>2, <2>1 DEF TypeOK, search, slotrd, arena, writer, history
  <2>3. ReaderInv'
    BY <1>2, <2>1 DEF ReaderInv, WindowInv, SearchInv, Searching, ChoiceInv, Reading,
                      SlotInv, DoneInv, slotrd
  <2> QED BY <2>2, <2>3
<1>6. ASSUME LoadHead PROVE TypeOK' /\ ReaderInv'
  <2>1. /\ rpc = "head" /\ h' = head
        /\ IF head = 0 THEN rpc' = "done" /\ res' = Err("NoData") ELSE rpc' = "t_old" /\ res' = res
        /\ UNCHANGED <<req, tOld, tNew, search, slotrd>>
    BY <1>6 DEF LoadHead, Finish, Goto
  <2>2. TypeOK'
    BY <1>1, <1>2, <2>1 DEF TypeOK, search, slotrd, arena, writer, history
  <2>3. WindowInv' /\ SearchInv' /\ ChoiceInv' /\ SlotInv'
    BY <1>2, <1>3, <2>1 DEF WindowInv, SearchInv, Searching, ChoiceInv, Reading, SlotInv, slotrd
  <2>4. DoneInv'
    BY <2>1 DEF DoneInv, Answers
  <2> QED BY <2>2, <2>3, <2>4 DEF ReaderInv
<1>7. ASSUME LoadOldest PROVE TypeOK' /\ ReaderInv'
  <2>1. /\ rpc = "t_old" /\ rpc' = "t_new" /\ tOld' = stamps[Idx(Oldest(h))]
        /\ UNCHANGED <<req, h, tNew, search, slotrd, res>>
    BY <1>7 DEF LoadOldest, Goto
  <2>2. h > 0 /\ h <= head
    BY <1>2, <2>1 DEF WindowInv
  <2>3. TypeOK'
    BY <1>1, <1>2, <1>4, <2>1, <2>2 DEF TypeOK, search, slotrd, arena, writer, history
  <2>4. ~Lapped(Oldest(h)) => tOld' = log[Oldest(h)].stamp
    BY <1>2, <1>3, <1>4, <2>1, <2>2
  <2>5. WindowInv'
    BY <1>2, <2>1, <2>2, <2>4 DEF WindowInv, Lapped
  <2>6. SearchInv' /\ ChoiceInv' /\ SlotInv' /\ DoneInv'
    BY <1>2, <2>1 DEF SearchInv, Searching, ChoiceInv, Reading, SlotInv, DoneInv, slotrd
  <2> QED BY <2>3, <2>5, <2>6 DEF ReaderInv
<1>8. ASSUME LoadNewest PROVE TypeOK' /\ ReaderInv'
  <2>1. /\ rpc = "t_new" /\ rpc' = "range" /\ tNew' = stamps[Idx(Newest(h))]
        /\ UNCHANGED <<req, h, tOld, search, slotrd, res>>
    BY <1>8 DEF LoadNewest, Goto
  <2>2. h > 0 /\ h <= head
    BY <1>2, <2>1 DEF WindowInv
  <2>3. TypeOK'
    BY <1>1, <1>2, <1>4, <2>1, <2>2 DEF TypeOK, search, slotrd, arena, writer, history
  <2>4. ~Lapped(Newest(h)) => tNew' = log[Newest(h)].stamp
    BY <1>2, <1>3, <1>4, <2>1, <2>2
  <2>5. WindowInv'
    BY <1>2, <2>1, <2>2, <2>4 DEF WindowInv, Lapped
  <2>6. SearchInv' /\ ChoiceInv' /\ SlotInv' /\ DoneInv'
    BY <1>2, <2>1 DEF SearchInv, Searching, ChoiceInv, Reading, SlotInv, DoneInv, slotrd
  <2> QED BY <2>3, <2>5, <2>6 DEF ReaderInv
<1> QED BY <1>5, <1>6, <1>7, <1>8

\* t is compared with the window: an answer at once, or what to read.
LEMMA RangeSteps ==
  ASSUME IInv, OutOfRange \/ NoSegmentInWindow \/ ReadNewest \/ NewestSegment \/ StartSearch
  PROVE  TypeOK' /\ ReaderInv'
<1> USE CapacityAssumption
<1>1. UNCHANGED <<arena, writer, history>> /\ UNCHANGED <<window, slotrd>> /\ rpc = "range"
  BY DEF OutOfRange, NoSegmentInWindow, ReadNewest, NewestSegment, StartSearch
<1>2. /\ head' = head /\ log' = log /\ seq' = seq /\ \A k : Lapped(k)' <=> Lapped(k)
      /\ TypeOK /\ WindowInv /\ SlotInv
  BY <1>1, ReaderFrame DEF IInv, ReaderInv
<1>3. /\ head \in Nat /\ h \in Nat /\ req.t \in Int /\ tOld \in Int /\ tNew \in Int /\ i \in Nat
      /\ req.op \in {"sample", "twist"} /\ req.policy \in {"Error", "Hold", "ConstantTwist"}
      /\ h > 0 /\ h <= head
  BY <1>1, <1>2, ReaderTypes DEF WindowInv
<1>4. /\ Oldest(h) \in Nat /\ Newest(h) \in Nat
      /\ Oldest(h) <= Newest(h) /\ Newest(h) < h
  BY <1>3, WindowBounds
<1>5. head = h => tOld = log[Oldest(h)].stamp /\ tNew = log[Newest(h)].stamp
  BY <1>1, <1>2, <1>3, <1>4, NothingLapped DEF WindowInv
<1>6. req' = req /\ h' = h /\ tOld' = tOld /\ tNew' = tNew /\ off' = 0 /\ tries' = 0
  BY <1>1, <1>2 DEF window, slotrd, SlotInv, Reading
<1>7. ASSUME OutOfRange \/ NoSegmentInWindow PROVE TypeOK' /\ ReaderInv'
  <2>1. /\ rpc' = "done" /\ UNCHANGED search
        /\ res' = Extrapolation(tOld, tNew) \/ res' = Err("NoSegment")
    BY <1>7 DEF OutOfRange, NoSegmentInWindow, Finish
  <2>2. TypeOK'
    BY <1>1, <1>2, <2>1 DEF TypeOK, window, search, slotrd, arena, writer, history
  <2>3. WindowInv' /\ SearchInv' /\ ChoiceInv' /\ SlotInv'
    BY <1>2, <1>3, <1>6, <2>1 DEF WindowInv, SearchInv, Searching, ChoiceInv, Reading, SlotInv
  <2>4. ASSUME head = h PROVE Answers(log, req, h, res')
    <3>1. CASE OutOfRange
      BY <1>3, <1>5, <2>4, <3>1 DEF OutOfRange, Finish, Answers, AnswersOutside
    <3>2. CASE NoSegmentInWindow
      <4>1. /\ req.op = "twist" /\ Oldest(h) = Newest(h) /\ res' = Err("NoSegment")
            /\ req.t >= tOld /\ (req.t > tNew => req.policy = "ConstantTwist")
        BY <3>2 DEF NoSegmentInWindow, Finish
      <4>2. CASE req.t > tNew
        BY <1>3, <1>5, <2>4, <4>1, <4>2 DEF Answers, AnswersBeyond
      <4>3. CASE req.t <= tNew
        BY <1>3, <1>5, <2>4, <4>1, <4>3 DEF Answers, AnswersTwist
      <4> QED BY <1>3, <4>2, <4>3
    <3> QED BY <1>7, <3>1, <3>2
  <2>5. ~Ok(res')
    BY <2>1 DEF Ok, Extrapolation, Err
  <2>6. DoneInv'
    BY <1>2, <1>6, <2>4, <2>5 DEF DoneInv, Ok
  <2> QED BY <2>2, <2>3, <2>6 DEF ReaderInv
<1>8. ASSUME ReadNewest PROVE TypeOK' /\ ReaderInv'
  <2>1. /\ rpc' = "seq" /\ i' = Newest(h) /\ last' = 0
        /\ UNCHANGED <<len, ti, tj, res>>
        /\ req.t >= tOld
        /\ \/ req.op = "sample" /\ req.t = tNew
           \/ req.t > tNew /\ req.policy = "Hold"
           \/ /\ req.op = "sample" /\ req.t > tNew /\ req.policy = "ConstantTwist"
              /\ Oldest(h) = Newest(h)
    BY <1>8 DEF ReadNewest, Goto
  <2>2. TypeOK'
    BY <1>1, <1>2, <1>4, <2>1 DEF TypeOK, window, slotrd, arena, writer, history
  <2>3. OnNewest'
    BY <1>3, <1>6, <2>1 DEF OnNewest
  <2>4. ReaderInv'
    BY <1>1, <1>2, <1>3, <1>6, <2>1, <2>3
       DEF ReaderInv, WindowInv, SearchInv, Searching, ChoiceInv, Reading, SlotInv, DoneInv
  <2> QED BY <2>2, <2>4
<1>9. ASSUME NewestSegment PROVE TypeOK' /\ ReaderInv'
  <2>1. /\ rpc' = "t_i" /\ i' = Newest(h) - 1
        /\ UNCHANGED <<len, ti, tj, last, res>>
        /\ req.t >= tOld /\ Oldest(h) # Newest(h)
        /\ \/ req.t > tNew /\ req.policy = "ConstantTwist"
           \/ req.op = "twist" /\ req.t = tNew
    BY <1>9 DEF NewestSegment, Goto
  <2>2. i' \in Nat
    BY <1>4, <2>1
  <2>3. TypeOK'
    BY <1>1, <1>2, <2>1, <2>2 DEF TypeOK, window, slotrd, arena, writer, history
  <2>4. OnExtension' \/ OnLastSegment'
    BY <1>3, <1>6, <2>1 DEF OnExtension, OnLastSegment
  <2>5. ReaderInv'
    BY <1>1, <1>2, <1>3, <1>6, <2>1, <2>4
       DEF ReaderInv, WindowInv, SearchInv, Searching, ChoiceInv, Reading, SlotInv, DoneInv
  <2> QED BY <2>3, <2>5
<1>10. ASSUME StartSearch PROVE TypeOK' /\ ReaderInv'
  <2>1. /\ req.t >= tOld /\ req.t < tNew
        /\ req.op = "twist" => Oldest(h) # Newest(h)
        /\ UNCHANGED <<ti, tj, last, res>>
        /\ \/ rpc' = "bracket" /\ i' = Oldest(h) /\ len' = Newest(h) - Oldest(h) + 1
           \/ rpc' = "hint" /\ i' \in Oldest(h) .. Newest(h) /\ len' = 1
    BY <1>10 DEF StartSearch, Goto
  <2>2. /\ i' \in Nat /\ Oldest(h) <= i' /\ i' <= Newest(h)
        /\ len' \in Nat \ {0}
        /\ rpc' = "bracket" => i' + len' - 1 = Newest(h)
    BY <1>4, <2>1
  <2>3. TypeOK'
    BY <1>1, <1>2, <2>1, <2>2 DEF TypeOK, window, slotrd, arena, writer, history
  <2>4. rpc' = "bracket" => AtMost(i)'
    <3> SUFFICES ASSUME rpc' = "bracket", ~Lapped(Oldest(h)) PROVE log[Oldest(h)].stamp <= req.t
      BY <1>2, <1>6, <2>1 DEF AtMost, Lapped
    <3>1. tOld = log[Oldest(h)].stamp
      BY <1>1, <1>2 DEF WindowInv
    <3> QED BY <1>3, <2>1, <3>1
  <2>5. rpc' = "bracket" => AboveAfter(i + len - 1)'
    <3>1. rpc' = "bracket" => i' + len' - 1 + 1 .. Newest(h') = {}
      BY <1>4, <1>6, <2>2
    <3> QED BY <3>1 DEF AboveAfter
  <2>6. WindowInv' /\ ChoiceInv' /\ SlotInv' /\ DoneInv'
    BY <1>1, <1>2, <1>3, <1>6, <2>1 DEF WindowInv, ChoiceInv, Reading, SlotInv, DoneInv
  <2>7. SearchInv'
    BY <1>3, <1>4, <1>6, <2>1, <2>2, <2>4, <2>5 DEF SearchInv, Searching
  <2> QED BY <2>3, <2>6, <2>7 DEF ReaderInv
<1> QED BY <1>7, <1>8, <1>9, <1>10

\* What a probe of the search learns: at or below t, or above t with all later
\* samples of the window.
LEMMA Probe ==
  ASSUME IInv, h \in Nat, h > 0, h <= head, NEW k \in Nat, k <= Newest(h)
  PROVE  /\ Idx(k) \in Slots /\ stamps[Idx(k)] \in Int
         /\ stamps[Idx(k)] <= req.t => AtMost(k)
         /\ ~(stamps[Idx(k)] <= req.t) => Above(k)
         /\ Above(k) /\ ~Lapped(k) => \A j \in k .. Newest(h) : log[j].stamp > req.t
<1>1. /\ TypeOK /\ head \in Nat /\ req.t \in Int
      /\ \A j \in 0 .. head - 1 : log[j].stamp \in Int
  BY ReaderTypes DEF IInv
<1>2. Newest(h) \in Nat /\ Newest(h) < h
  BY WindowBounds
<1>3. k \in 0 .. head - 1 /\ \A j \in k .. Newest(h) : j \in 0 .. head - 1
  BY <1>1, <1>2
<1>4. Idx(k) \in Slots /\ stamps[Idx(k)] \in Int
  BY <1>1, IdxInSlots DEF TypeOK
<1>5. ~Lapped(k) => stamps[Idx(k)] = log[k].stamp
  BY <1>3 DEF IInv, RingInv, Intact
<1>6. \A j \in k .. Newest(h) : log[k].stamp <= log[j].stamp
  BY <1>3 DEF IInv, RingInv, StampsOrdered
<1>7. Above(k) /\ ~Lapped(k) => \A j \in k .. Newest(h) : log[j].stamp > req.t
  BY <1>1, <1>3, <1>6 DEF Above
<1>8. /\ stamps[Idx(k)] <= req.t => AtMost(k)
      /\ ~(stamps[Idx(k)] <= req.t) => Above(k)
  BY <1>1, <1>3, <1>4, <1>5 DEF AtMost, Above
<1> QED BY <1>4, <1>7, <1>8

\* The search goes on with the bracket [lo, hi].
LEMMA ToBracket ==
  ASSUME IInv, UNCHANGED <<arena, writer, history, window, slotrd, ti, tj, last, res>>,
         Searching, rpc' = "bracket",
         NEW lo \in Nat, NEW hi \in Nat,
         Oldest(h) <= lo, lo <= hi, hi <= Newest(h),
         i' = lo, len' = hi - lo + 1,
         AtMost(lo), AboveAfter(hi)
  PROVE  TypeOK' /\ ReaderInv'
<1>1. /\ head' = head /\ log' = log /\ TypeOK /\ WindowInv /\ SlotInv /\ SearchInv
  BY ReaderFrame DEF IInv, ReaderInv
<1>2. /\ req' = req /\ h' = h /\ tOld' = tOld /\ tNew' = tNew /\ off' = off /\ tries' = tries
  BY DEF window, slotrd
<1>3. h \in Nat /\ h > 0 /\ h <= head
  BY <1>1, ReaderTypes DEF WindowInv, Searching
<1>4. Newest(h) \in Nat /\ Oldest(h) \in Nat
  BY <1>3, WindowBounds
<1>5. i' \in Nat /\ len' \in Nat \ {0} /\ i' + len' - 1 = hi
  OBVIOUS
<1>6. TypeOK'
  BY <1>1, <1>5 DEF TypeOK, window, slotrd, arena, writer, history
<1>7. AtMost(i)' /\ AboveAfter(i + len - 1)'
  BY <1>1, <1>2, <1>5 DEF AtMost, AboveAfter, Lapped
<1>8. SearchInv'
  BY <1>1, <1>2, <1>4, <1>5, <1>7 DEF SearchInv, Searching
<1>9. WindowInv' /\ ChoiceInv' /\ SlotInv' /\ DoneInv'
  BY <1>1, <1>2, <1>3 DEF WindowInv, ChoiceInv, Reading, SlotInv, DoneInv, Searching, Lapped
<1> QED BY <1>6, <1>8, <1>9 DEF ReaderInv

\* The gallop and the binary search.
LEMMA SearchSteps ==
  ASSUME IInv, ProbeHint \/ GallopUp \/ GallopDown \/ Bisect \/ BracketFound
  PROVE  TypeOK' /\ ReaderInv'
<1> USE CapacityAssumption
<1>1. /\ UNCHANGED <<arena, writer, history, window, slotrd, ti, tj, last, res>>
      /\ Searching
  BY DEF ProbeHint, GallopUp, GallopDown, Bisect, BracketFound, Narrow, Goto, search, Searching
<1>2. /\ head' = head /\ log' = log /\ \A k : Lapped(k)' <=> Lapped(k)
      /\ TypeOK /\ WindowInv /\ SlotInv /\ SearchInv
  BY <1>1, ReaderFrame DEF IInv, ReaderInv
<1>3. /\ head \in Nat /\ h \in Nat /\ h > 0 /\ h <= head /\ i \in Nat /\ len \in Nat /\ len > 0
      /\ req.t \in Int /\ tOld \in Int
  BY <1>1, <1>2, ReaderTypes DEF WindowInv, Searching
<1>4. /\ Oldest(h) \in Nat /\ Newest(h) \in Nat /\ Oldest(h) <= Newest(h)
      /\ Oldest(h) <= i /\ i <= Newest(h) /\ tOld <= req.t /\ req.t < tNew
      /\ req.op = "twist" => Oldest(h) # Newest(h)
  BY <1>1, <1>2, <1>3, WindowBounds DEF SearchInv
<1>5. req' = req /\ h' = h /\ tOld' = tOld /\ tNew' = tNew /\ off' = off /\ tries' = tries
  BY <1>1 DEF window, slotrd
<1>6. AtMost(Oldest(h))
  <2>1. ~Lapped(Oldest(h)) => tOld = log[Oldest(h)].stamp
    BY <1>1, <1>2 DEF WindowInv, Searching
  <2> QED BY <1>4, <2>1 DEF AtMost
<1>7. AboveAfter(Newest(h))
  <2>1. Newest(h) + 1 .. Newest(h) = {}
    BY <1>4
  <2> QED BY <2>1 DEF AboveAfter
<1>8. len \div 2 \in Nat /\ 2 * (len \div 2) <= len /\ len <= 2 * (len \div 2) + 1
      /\ (2 * len) \div 2 = len
  BY <1>3
<1>9. ASSUME NEW k \in Nat, k <= Newest(h), Above(k), NEW m \in Nat, m >= k - 1, m <= k
      PROVE  AboveAfter(m)
  <2> SUFFICES ASSUME ~Lapped(m), NEW j \in m + 1 .. Newest(h) PROVE log[j].stamp > req.t
    BY DEF AboveAfter
  <2>1. ~Lapped(k) /\ j \in k .. Newest(h)
    BY <1>3, <1>4, <1>9 DEF Lapped
  <2> QED BY <1>3, <1>9, <2>1, Probe
<1>10. ASSUME ProbeHint PROVE TypeOK' /\ ReaderInv'
  <2>1. /\ rpc = "hint" /\ UNCHANGED search
        /\ rpc' = IF stamps[Idx(i)] <= req.t THEN "up" ELSE "down"
    BY <1>10 DEF ProbeHint, Goto
  <2>2. len = 1 /\ i + len \div 2 = i /\ i - len \div 2 = i
    BY <1>2, <1>3, <2>1 DEF SearchInv
  <2>3. (rpc' = "up" => AtMost(i)) /\ (rpc' = "down" => Above(i))
    BY <1>3, <1>4, <2>1, Probe
  <2>4. /\ rpc' = "up" => AtMost(i + len \div 2)'
        /\ rpc' = "down" => Above(i - len \div 2)'
    BY <1>2, <1>5, <2>1, <2>2, <2>3 DEF AtMost, Above, Lapped, search
  <2>5. TypeOK'
    BY <1>1, <1>2, <2>1 DEF TypeOK, window, search, slotrd, arena, writer, history
  <2>6. SearchInv'
    BY <1>4, <1>5, <2>1, <2>2, <2>4 DEF SearchInv, Searching, search
  <2>7. WindowInv' /\ ChoiceInv' /\ SlotInv' /\ DoneInv'
    BY <1>2, <1>3, <1>5, <2>1 DEF WindowInv, ChoiceInv, Reading, SlotInv, DoneInv, Lapped
  <2> QED BY <2>5, <2>6, <2>7 DEF ReaderInv
<1>11. ASSUME GallopUp PROVE TypeOK' /\ ReaderInv'
  <2>0. rpc = "up" /\ i + len \div 2 <= Newest(h) /\ AtMost(i + len \div 2)
    BY <1>2, <1>11 DEF GallopUp, SearchInv
  <2>1. CASE i + len < Newest(h) /\ stamps[Idx(i + len)] <= req.t
    <3>1. i' = i /\ len' = 2 * len /\ rpc' = "up"
      BY <1>11, <2>1 DEF GallopUp, Goto
    <3>2. AtMost(i + len) /\ i' + len' \div 2 = i + len
      BY <1>3, <1>4, <1>8, <2>1, <3>1, Probe
    <3>3. AtMost(i + len \div 2)'
      BY <1>2, <1>5, <3>2 DEF AtMost, Lapped
    <3>4. len' \in Nat \ {0}
      BY <1>3, <3>1
    <3>5. TypeOK'
      BY <1>1, <1>2, <3>1, <3>4 DEF TypeOK, window, slotrd, arena, writer, history
    <3>6. SearchInv'
      BY <1>3, <1>4, <1>5, <2>1, <3>1, <3>2, <3>3 DEF SearchInv, Searching
    <3>7. WindowInv' /\ ChoiceInv' /\ SlotInv' /\ DoneInv'
      BY <1>2, <1>3, <1>5, <2>0, <3>1 DEF WindowInv, ChoiceInv, Reading, SlotInv, DoneInv, Lapped
    <3> QED BY <3>5, <3>6, <3>7 DEF ReaderInv
  <2>2. CASE ~(i + len < Newest(h) /\ stamps[Idx(i + len)] <= req.t)
    <3> DEFINE lo == i + len \div 2
               hi == MinOf(i + len, Newest(h))
    <3>1. i' = lo /\ len' = hi - lo + 1 /\ rpc' = "bracket"
      BY <1>11, <2>2 DEF GallopUp, Narrow, Goto
    <3>2. lo \in Nat /\ hi \in Nat /\ Oldest(h) <= lo /\ lo <= hi /\ hi <= Newest(h)
      BY <1>3, <1>4, <1>8, <2>0 DEF MinOf
    <3>3. AboveAfter(hi)
      <4>1. CASE i + len < Newest(h)
        <5>1. hi = i + len /\ Above(hi)
          BY <1>3, <1>4, <2>2, <4>1, Probe DEF MinOf
        <5> QED BY <1>3, <1>4, <1>9, <3>2, <5>1
      <4>2. CASE ~(i + len < Newest(h))
        BY <1>3, <1>4, <1>7, <4>2 DEF MinOf
      <4> QED BY <4>1, <4>2
    <3> HIDE DEF lo, hi
    <3>4. AtMost(lo)
      BY <2>0 DEF lo
    <3> QED BY <1>1, <3>1, <3>2, <3>3, <3>4, ToBracket
  <2> QED BY <2>1, <2>2
<1>12. ASSUME GallopDown PROVE TypeOK' /\ ReaderInv'
  <2>0. rpc = "down" /\ i - len \div 2 >= Oldest(h) /\ Above(i - len \div 2)
    BY <1>2, <1>12 DEF GallopDown, SearchInv
  <2>1. CASE i - len > Oldest(h) /\ stamps[Idx(i - len)] > req.t
    <3>1. i' = i /\ len' = 2 * len /\ rpc' = "down"
      BY <1>12, <2>1 DEF GallopDown, Goto
    <3>2. Above(i - len) /\ i' - len' \div 2 = i - len
      BY <1>3, <1>4, <1>8, <2>1, <3>1, Probe
    <3>3. Above(i - len \div 2)'
      BY <1>2, <1>5, <3>2 DEF Above, Lapped
    <3>4. len' \in Nat \ {0}
      BY <1>3, <3>1
    <3>5. TypeOK'
      BY <1>1, <1>2, <3>1, <3>4 DEF TypeOK, window, slotrd, arena, writer, history
    <3>6. SearchInv'
      BY <1>3, <1>4, <1>5, <2>1, <3>1, <3>2, <3>3 DEF SearchInv, Searching
    <3>7. WindowInv' /\ ChoiceInv' /\ SlotInv' /\ DoneInv'
      BY <1>2, <1>3, <1>5, <2>0, <3>1 DEF WindowInv, ChoiceInv, Reading, SlotInv, DoneInv, Lapped
    <3> QED BY <3>5, <3>6, <3>7 DEF ReaderInv
  <2>2. CASE ~(i - len > Oldest(h) /\ stamps[Idx(i - len)] > req.t)
    <3> DEFINE lo == MaxOf(i - len, Oldest(h))
               hi == i - len \div 2
    <3>1. i' = lo /\ len' = hi - lo + 1 /\ rpc' = "bracket"
      BY <1>12, <2>2 DEF GallopDown, Narrow, Goto
    <3>2. lo \in Nat /\ hi \in Nat /\ Oldest(h) <= lo /\ lo <= hi /\ hi <= Newest(h)
      BY <1>3, <1>4, <1>8, <2>0 DEF MaxOf
    <3>3. AtMost(lo)
      <4>1. CASE i - len > Oldest(h)
        <5>1. lo = i - len /\ lo <= Newest(h)
          BY <1>3, <1>4, <4>1 DEF MaxOf
        <5> QED BY <1>3, <2>2, <3>2, <4>1, <5>1, Probe
      <4>2. CASE ~(i - len > Oldest(h))
        BY <1>3, <1>4, <1>6, <4>2 DEF MaxOf
      <4> QED BY <4>1, <4>2
    <3> HIDE DEF lo, hi
    <3>4. AboveAfter(hi)
      <4>1. Above(hi)
        BY <2>0 DEF hi
      <4> QED BY <1>9, <3>2, <4>1
    <3> QED BY <1>1, <3>1, <3>2, <3>3, <3>4, ToBracket
  <2> QED BY <2>1, <2>2
<1>13. ASSUME Bisect PROVE TypeOK' /\ ReaderInv'
  <2> DEFINE half == len \div 2
  <2>0. /\ rpc = "bracket" /\ rpc' = "bracket" /\ len > 1
        /\ i + len - 1 <= Newest(h) /\ AtMost(i) /\ AboveAfter(i + len - 1)
        /\ i' = (IF stamps[Idx(i + half)] <= req.t THEN i + half ELSE i) /\ len' = len - half
    BY <1>2, <1>13 DEF Bisect, SearchInv, Goto
  <2>1. half \in Nat /\ half >= 1 /\ half < len /\ 2 * half <= len /\ len <= 2 * half + 1
    BY <1>3, <1>8, <2>0
  <2> HIDE DEF half
  <2>2. CASE stamps[Idx(i + half)] <= req.t
    <3>1. AtMost(i + half)
      BY <1>3, <1>4, <2>0, <2>1, <2>2, Probe
    <3>2. i' = i + half /\ len' = (i + len - 1) - (i + half) + 1
      BY <1>3, <2>0, <2>1, <2>2
    <3>3. /\ i + half \in Nat /\ i + len - 1 \in Nat
          /\ Oldest(h) <= i + half /\ i + half <= i + len - 1
      BY <1>3, <1>4, <2>1
    <3> QED BY <1>1, <2>0, <3>1, <3>2, <3>3, ToBracket
  <2>3. CASE ~(stamps[Idx(i + half)] <= req.t)
    <3>1. Above(i + half)
      BY <1>3, <1>4, <2>0, <2>1, <2>3, Probe
    <3>2. /\ i + len - half - 1 \in Nat /\ i <= i + len - half - 1
          /\ i + len - half - 1 <= Newest(h)
          /\ i + len - half - 1 >= (i + half) - 1 /\ i + len - half - 1 <= i + half
          /\ i + half <= Newest(h) /\ i + half \in Nat
      BY <1>3, <1>4, <2>0, <2>1
    <3>3. AboveAfter(i + len - half - 1)
      BY <1>9, <3>1, <3>2
    <3>4. i' = i /\ len' = (i + len - half - 1) - i + 1
      BY <1>3, <2>0, <2>1, <2>3
    <3> QED BY <1>1, <1>3, <1>4, <2>0, <3>2, <3>3, <3>4, ToBracket
  <2> QED BY <2>2, <2>3
<1>14. ASSUME BracketFound PROVE TypeOK' /\ ReaderInv'
  <2>1. /\ rpc = "bracket" /\ len = 1 /\ rpc' = "t_i" /\ UNCHANGED search
    BY <1>14 DEF BracketFound, Goto
  <2>2. AtMost(i) /\ AboveAfter(i)
    <3>1. i + len - 1 = i
      BY <1>3, <2>1
    <3> QED BY <1>2, <2>1, <3>1 DEF SearchInv
  <2>3. OnBracket'
    BY <1>2, <1>4, <1>5, <2>1, <2>2 DEF OnBracket, AtMost, AboveAfter, Lapped, search
  <2>4. TypeOK'
    BY <1>1, <1>2, <2>1 DEF TypeOK, window, search, slotrd, arena, writer, history
  <2>5. ReaderInv'
    BY <1>2, <1>3, <1>5, <2>1, <2>3
       DEF ReaderInv, WindowInv, SearchInv, Searching, ChoiceInv, Reading, SlotInv, DoneInv, Lapped
  <2> QED BY <2>4, <2>5
<1> QED BY <1>10, <1>11, <1>12, <1>13, <1>14

\* The stamps at the two ends of the segment.
LEMMA StampSteps ==
  ASSUME IInv, LoadLower \/ LoadUpper
  PROVE  TypeOK' /\ ReaderInv'
<1> USE CapacityAssumption
<1>1. /\ UNCHANGED <<arena, writer, history, window, slotrd, i, len>>
      /\ rpc = "t_i" \/ rpc = "t_j"
  BY DEF LoadLower, LoadUpper
<1>2. /\ head' = head /\ log' = log /\ seq' = seq
      /\ TypeOK /\ WindowInv /\ SlotInv /\ ChoiceInv
  BY <1>1, ReaderFrame DEF IInv, ReaderInv
<1>3. /\ h \in Nat /\ h > 0 /\ h <= head
      /\ i \in 0 .. head - 1 /\ Oldest(h) <= i /\ i <= Newest(h)
      /\ ~Lapped(i) => i + 1 <= Newest(h)
  BY <1>1, <1>2, Chosen DEF Reading
<1>4. /\ head \in Nat /\ req.t \in Int /\ tNew \in Int /\ ti \in Int /\ tj \in Int
      /\ Newest(h) \in Nat /\ Newest(h) < h /\ Oldest(h) \in Nat
      /\ req.op \in {"sample", "twist"} /\ Newest(h) = h - 1 /\ Oldest(h) <= Newest(h)
      /\ \A k \in 0 .. head - 1 : log[k].stamp \in Int
  BY <1>2, <1>3, ReaderTypes, WindowBounds DEF Newest
<1>5. /\ req' = req /\ h' = h /\ tOld' = tOld /\ tNew' = tNew /\ i' = i
      /\ off' = 0 /\ tries' = 0
  BY <1>1, <1>2 DEF window, slotrd, SlotInv, Reading
<1>6. /\ OnExtension => OnExtension'
      /\ OnLastSegment => OnLastSegment'
      /\ OnBracket => OnBracket'
  BY <1>2, <1>5 DEF OnExtension, OnLastSegment, OnBracket, AtMost, AboveAfter, Lapped
<1>7. /\ Idx(i) \in Slots /\ Idx(i + 1) \in Slots
      /\ stamps[Idx(i)] \in Int /\ stamps[Idx(i + 1)] \in Int
  <2>1. i \in Nat /\ i + 1 \in Nat
    BY <1>3
  <2>2. Idx(i) \in Slots /\ Idx(i + 1) \in Slots
    BY <2>1, IdxInSlots
  <2> QED BY <1>2, <2>2 DEF TypeOK
<1>8. /\ ~Lapped(i) => stamps[Idx(i)] = log[i].stamp
      /\ ~Lapped(i) => stamps[Idx(i + 1)] = log[i + 1].stamp
  <2>1. ~Lapped(i) => ~Lapped(i + 1) /\ i + 1 \in 0 .. head - 1
    BY <1>3, <1>4 DEF Lapped
  <2> QED BY <1>3, <2>1 DEF IInv, RingInv, Intact
<1>9. ASSUME LoadLower PROVE TypeOK' /\ ReaderInv'
  <2>1. /\ rpc = "t_i" /\ ti' = stamps[Idx(i)] /\ res' = res
        /\ \/ req.t > tNew /\ tj' = tNew /\ last' = 1 /\ rpc' = "seq"
           \/ /\ ~(req.t > tNew) /\ tj' = tj
              /\ \/ req.op = "sample" /\ ti' = req.t /\ last' = 0 /\ rpc' = "seq"
                 \/ ~(req.op = "sample" /\ ti' = req.t) /\ last' = 1 /\ rpc' = "t_j"
    BY <1>9 DEF LoadLower, Goto
  <2>2. LowerRead'
    BY <1>2, <1>5, <1>8, <2>1 DEF LowerRead, Lapped
  <2>3. TypeOK'
    BY <1>1, <1>2, <1>4, <1>7, <2>1 DEF TypeOK, window, slotrd, arena, writer, history
  <2>4. OnExtension \/ OnLastSegment \/ OnBracket
    BY <1>2, <2>1 DEF ChoiceInv
  <2>5. /\ req.t > tNew => OnExtension
        /\ ~(req.t > tNew) => OnLastSegment \/ OnBracket
        /\ ~(req.t > tNew) /\ req.op = "sample" => OnBracket
    BY <1>4, <2>4 DEF OnExtension, OnLastSegment, OnBracket
  <2>6. ChoiceInv'
    BY <1>5, <1>6, <2>1, <2>2, <2>5 DEF ChoiceInv, Reading
  <2>7. WindowInv' /\ SearchInv' /\ SlotInv' /\ DoneInv'
    BY <1>2, <1>3, <1>5, <2>1
       DEF WindowInv, SearchInv, Searching, Reading, SlotInv, DoneInv, Lapped
  <2> QED BY <2>3, <2>6, <2>7 DEF ReaderInv
<1>10. ASSUME LoadUpper PROVE TypeOK' /\ ReaderInv'
  <2>1. /\ rpc = "t_j" /\ tj' = stamps[Idx(i + 1)] /\ ti' = ti /\ last' = last
        /\ \/ req.op = "twist" /\ tj' = ti /\ rpc' = "done" /\ res' = Err("NoSegment")
           \/ ~(req.op = "twist" /\ tj' = ti) /\ rpc' = "seq" /\ res' = res
    BY <1>10 DEF LoadUpper, Finish, Goto
  <2>2. /\ last = 1 /\ LowerRead /\ (req.op = "sample" => ti # req.t)
        /\ OnLastSegment \/ OnBracket
    BY <1>2, <2>1 DEF ChoiceInv
  <2>3. LowerRead' /\ UpperRead'
    BY <1>2, <1>5, <1>8, <2>1, <2>2 DEF LowerRead, UpperRead, Lapped
  <2>4. TypeOK'
    BY <1>1, <1>2, <1>4, <1>7, <2>1 DEF TypeOK, window, slotrd, arena, writer, history
  <2>5. ChoiceInv'
    BY <1>4, <1>5, <1>6, <2>1, <2>2, <2>3 DEF ChoiceInv, Reading
  <2>6. WindowInv' /\ SearchInv' /\ SlotInv'
    BY <1>2, <1>3, <1>5, <2>1 DEF WindowInv, SearchInv, Searching, Reading, SlotInv, Lapped
  <2>7. DoneInv'
    <3> SUFFICES ASSUME rpc' = "done", head = h PROVE Answers(log, req, h, res')
      BY <1>2, <1>5, <2>1 DEF DoneInv, Ok, Err
    <3>1. req.op = "twist" /\ tj' = ti /\ res' = Err("NoSegment")
      BY <2>1
    <3>2. ~Lapped(i) /\ ~Lapped(Oldest(h)) /\ ~Lapped(Newest(h))
      BY <1>2, <1>3, <1>4, NothingLapped
    <3>3. /\ log[i].stamp = log[i + 1].stamp
          /\ tOld = log[Oldest(h)].stamp /\ tNew = log[Newest(h)].stamp
      BY <1>2, <1>8, <2>1, <2>2, <3>1, <3>2 DEF LowerRead, WindowInv
    <3>4. log[Oldest(h)].stamp <= req.t /\ req.t <= log[Newest(h)].stamp
      BY <1>4, <2>2, <3>3 DEF OnLastSegment, OnBracket
    <3>5. i \in Oldest(h) .. Newest(h) - 1 /\ Oldest(h) # Newest(h)
      BY <1>3, <1>4, <3>2
    <3>6. IF req.t = log[Newest(h)].stamp THEN i = Newest(h) - 1 ELSE LastAtMost(log, h, req.t, i)
      BY <1>4, <2>2, <3>2, <3>3 DEF OnLastSegment, OnBracket, AtMost, AboveAfter, LastAtMost
    <3>7. AnswersTwist(log, req, h, res')
      BY <3>1, <3>3, <3>4, <3>5, <3>6 DEF AnswersTwist
    <3> QED BY <1>3, <3>7 DEF Answers
  <2> QED BY <2>4, <2>5, <2>6, <2>7 DEF ReaderInv
<1> QED BY <1>9, <1>10

\* The poses, slot by slot.
LEMMA SlotSteps ==
  ASSUME IInv, LoadSeq \/ (\E w \in Words : LoadWord(w)) \/ CheckSeq
  PROVE  TypeOK' /\ ReaderInv'
<1> USE CapacityAssumption
<1>1. /\ UNCHANGED <<arena, writer, history, window, search>>
      /\ Reading
  BY DEF LoadSeq, LoadWord, CheckSeq, Reading
<1>2. /\ head' = head /\ log' = log /\ seq' = seq
      /\ TypeOK /\ WindowInv /\ SlotInv /\ ChoiceInv
  BY <1>1, ReaderFrame DEF IInv, ReaderInv
<1>3. /\ h \in Nat /\ h > 0 /\ h <= head
      /\ i \in 0 .. head - 1 /\ Oldest(h) <= i /\ i <= Newest(h)
      /\ ~Lapped(i) /\ last = 1 => i + 1 <= Newest(h)
  BY <1>1, <1>2, Chosen DEF Reading
<1>4. /\ head \in Nat /\ i \in Nat /\ off \in {0, 1} /\ last \in {0, 1} /\ tries \in Nat
      /\ Newest(h) \in Nat /\ Newest(h) < h
      /\ off = 1 => last = 1
  BY <1>1, <1>2, <1>3, ReaderTypes, WindowBounds DEF SlotInv
<1>5. /\ req' = req /\ h' = h /\ tOld' = tOld /\ tNew' = tNew /\ i' = i /\ len' = len
      /\ ti' = ti /\ tj' = tj /\ last' = last
  BY <1>1 DEF window, search
<1>6. i + off \in Nat /\ Idx(i + off) \in Slots
  <2>1. i + off \in Nat
    BY <1>4
  <2> QED BY <2>1, IdxInSlots
<1>7. /\ seq[Idx(i + off)] \in 0 .. SeqModulus - 1
      /\ data[Idx(i + off)] \in [Words -> Vals]
  BY <1>2, <1>6 DEF TypeOK
<1>8. ~Lapped(i) => /\ i + off \in 0 .. head - 1
                    /\ data[Idx(i + off)] = log[i + off].pose
                    /\ seq[Idx(i + off)] % 2 = 0
  <2>1. ~Lapped(i) => i + off \in 0 .. head - 1 /\ ~Lapped(i + off)
    BY <1>3, <1>4 DEF Lapped
  <2> QED BY <2>1 DEF IInv, RingInv, Intact
<1>9. head = h => ~Lapped(i)
  BY <1>2, <1>3, <1>4, NothingLapped
<1>10. Reading' => ChoiceInv'
  BY <1>1, <1>2, <1>5 DEF ChoiceInv, Reading, OnNewest, OnExtension, OnLastSegment, OnBracket,
        LowerRead, UpperRead, AtMost, AboveAfter, Lapped
<1>11. rpc' # "idle" /\ rpc' # "head" /\ ~Searching' => WindowInv' /\ SearchInv'
  BY <1>1, <1>2, <1>3, <1>5 DEF WindowInv, SearchInv, Searching, Reading, Lapped
<1>12. ASSUME Lapped(i), Retry, UNCHANGED <<off, bits>>, s1' \in 0 .. SeqModulus - 1, todo' \subseteq Words
       PROVE  TypeOK' /\ ReaderInv'
  <2>1. /\ tries' = tries + 1
        /\ \/ rpc' = "done" /\ res' = Err("SlotContended")
           \/ rpc' = "seq" /\ res' = res
    BY <1>12 DEF Retry, Finish, Goto
  <2>2. tries' \in Nat
    BY <1>4, <2>1
  <2>3. TypeOK'
    BY <1>1, <1>2, <1>12, <2>1, <2>2 DEF TypeOK, window, search, arena, writer, history
  <2>4. WindowInv' /\ SearchInv'
    BY <1>11, <2>1 DEF Searching
  <2>5. ChoiceInv'
    BY <1>10, <2>1 DEF ChoiceInv, Reading
  <2>6. SlotInv'
    BY <1>1, <1>2, <1>5, <1>12, <2>1 DEF SlotInv, Reading, Lapped
  <2>7. DoneInv'
    <3>1. head' # h'
      BY <1>2, <1>5, <1>9, <1>12
    <3>2. rpc' = "done" => ~Ok(res)'
      BY <2>1 DEF Ok, Err
    <3> QED BY <3>1, <3>2 DEF DoneInv
  <2> QED BY <2>3, <2>4, <2>5, <2>6, <2>7 DEF ReaderInv
<1>13. ASSUME LoadSeq PROVE TypeOK' /\ ReaderInv'
  <2>1. CASE seq[Idx(i + off)] % 2 # 0
    <3>1. Lapped(i)
      BY <1>8, <2>1
    <3>2. Retry /\ UNCHANGED <<off, bits, s1, todo>>
      BY <1>13, <2>1 DEF LoadSeq
    <3> QED BY <1>2, <1>12, <3>1, <3>2 DEF TypeOK
  <2>2. CASE seq[Idx(i + off)] % 2 = 0
    <3>1. /\ rpc = "seq" /\ rpc' = "words" /\ res' = res
          /\ s1' = seq[Idx(i + off)] /\ todo' = Words
          /\ UNCHANGED <<off, bits, tries>>
      BY <1>13, <2>2 DEF LoadSeq, Goto
    <3>2. TypeOK'
      BY <1>1, <1>2, <1>7, <3>1 DEF TypeOK, window, search, arena, writer, history
    <3>3. SlotInv'
      BY <1>1, <1>2, <1>5, <3>1 DEF SlotInv, Reading, Lapped
    <3>4. WindowInv' /\ SearchInv' /\ ChoiceInv' /\ DoneInv'
      BY <1>10, <1>11, <3>1 DEF Reading, Searching, DoneInv
    <3> QED BY <3>2, <3>3, <3>4 DEF ReaderInv
  <2> QED BY <2>1, <2>2
<1>14. ASSUME NEW w \in Words, LoadWord(w) PROVE TypeOK' /\ ReaderInv'
  <2>1. /\ rpc = "words" /\ rpc' = "words" /\ res' = res /\ w \in todo
        /\ bits' = [bits EXCEPT ![off][w] = data[Idx(i + off)][w]]
        /\ todo' = todo \ {w}
        /\ UNCHANGED <<off, s1, tries>>
    BY <1>14 DEF LoadWord, Goto
  <2>2. bits \in [{0, 1} -> [Words -> Vals]] /\ todo \subseteq Words
    BY <1>2 DEF TypeOK
  <2>3. bits' \in [{0, 1} -> [Words -> Vals]]
    BY <1>4, <1>7, <2>1, <2>2
  <2>4. TypeOK'
    BY <1>1, <1>2, <2>1, <2>3 DEF TypeOK, window, search, arena, writer, history
  <2>5. ~Lapped(i) => \A u \in Words \ todo' : bits'[off][u] = log[i + off].pose[u]
    <3> SUFFICES ASSUME ~Lapped(i), NEW u \in Words \ todo' PROVE bits'[off][u] = log[i + off].pose[u]
      OBVIOUS
    <3>1. CASE u = w
      BY <1>4, <1>8, <2>1, <2>2, <3>1
    <3>2. CASE u # w
      <4>1. bits'[off][u] = bits[off][u] /\ u \in Words \ todo
        BY <1>4, <2>1, <2>2, <3>2
      <4> QED BY <1>2, <2>1, <4>1 DEF SlotInv
    <3> QED BY <3>1, <3>2
  <2>6. off = 1 => bits'[0] = bits[0]
    BY <2>1, <2>2
  <2>7. SlotInv'
    BY <1>1, <1>2, <1>5, <2>1, <2>5, <2>6 DEF SlotInv, Reading, Lapped
  <2>8. WindowInv' /\ SearchInv' /\ ChoiceInv' /\ DoneInv'
    BY <1>10, <1>11, <2>1 DEF Reading, Searching, DoneInv
  <2> QED BY <2>4, <2>7, <2>8 DEF ReaderInv
<1>15. ASSUME CheckSeq PROVE TypeOK' /\ ReaderInv'
  <2>0. rpc = "words" /\ todo = {} /\ UNCHANGED <<s1, todo, bits>>
    BY <1>15 DEF CheckSeq
  <2>1. CASE seq[Idx(i + off)] # s1
    <3>1. Lapped(i)
      BY <1>2, <2>0, <2>1 DEF SlotInv
    <3>2. Retry /\ UNCHANGED off
      BY <1>15, <2>1 DEF CheckSeq
    <3> QED BY <1>2, <1>12, <2>0, <3>1, <3>2 DEF TypeOK
  <2>2. CASE seq[Idx(i + off)] = s1
    <3>1. /\ tries' = 0 /\ res' = res
          /\ \/ off < last /\ off' = off + 1 /\ rpc' = "seq"
             \/ ~(off < last) /\ off' = off /\ rpc' = "reval"
      BY <1>15, <2>2 DEF CheckSeq, Goto
    <3>2. /\ off' \in {0, 1}
          /\ rpc' = "seq" => off = 0 /\ last = 1 /\ off' = 1
          /\ rpc' = "reval" => off = last /\ off' = off
      BY <1>4, <3>1
    <3>3. TypeOK'
      BY <1>1, <1>2, <2>0, <3>1, <3>2 DEF TypeOK, window, search, arena, writer, history
    <3>4. ~Lapped(i) => bits[off] = log[i + off].pose
      <4>1. bits[off] \in [Words -> Vals]
        BY <1>2, <1>4 DEF TypeOK
      <4>2. ~Lapped(i) => log[i + off].pose \in [Words -> Vals]
        BY <1>7, <1>8
      <4>3. ~Lapped(i) => \A w \in Words : bits[off][w] = log[i + off].pose[w]
        BY <1>2, <2>0 DEF SlotInv
      <4> QED BY <4>1, <4>2, <4>3
    <3>5. ~Lapped(i) /\ rpc' = "seq" => bits[0] = log[i].pose
      <4>1. rpc' = "seq" => off = 0 /\ i + off = i
        BY <1>4, <3>2
      <4> QED BY <3>4, <4>1
    <3>6. SlotInv'
      <4>1. ~Lapped(i) /\ rpc' = "reval" /\ off = 1 => bits[0] = log[i].pose
        BY <1>1, <1>2 DEF SlotInv
      <4>2. (Lapped(i)' <=> Lapped(i)) /\ bits' = bits /\ rpc' \in {"seq", "reval"}
        BY <1>2, <1>5, <2>0, <3>1 DEF Lapped
      <4> QED BY <1>2, <1>5, <3>1, <3>2, <3>4, <3>5, <4>1, <4>2 DEF SlotInv, Reading
    <3>7. WindowInv' /\ SearchInv' /\ ChoiceInv' /\ DoneInv'
      BY <1>10, <1>11, <3>1 DEF Reading, Searching, DoneInv
    <3> QED BY <3>3, <3>6, <3>7 DEF ReaderInv
  <2> QED BY <2>1, <2>2
<1> QED BY <1>13, <1>14, <1>15

\* What was read answers the request, if the oldest sample used was not lapped.
LEMMA OutcomeAnswers ==
  ASSUME IInv, rpc = "reval", ~Lapped(i)
  PROVE  Answers(log, req, h, Outcome)
<1> USE CapacityAssumption
<1> DEFINE o == Oldest(h)
           n == Newest(h)
<1>1. TypeOK /\ WindowInv /\ ChoiceInv /\ SlotInv /\ Reading
  BY DEF IInv, ReaderInv, Reading
<1>2. /\ h \in Nat /\ h > 0 /\ h <= head
      /\ i \in 0 .. head - 1 /\ o <= i /\ i <= n
      /\ last = 1 => i + 1 <= n
  BY <1>1, Chosen
<1>3. /\ o \in Nat /\ n \in Nat /\ o <= n /\ n = h - 1
  BY <1>2, WindowBounds DEF Newest
<1>4. /\ head \in Nat /\ i \in Nat /\ last \in {0, 1}
      /\ req.t \in Int /\ tOld \in Int /\ tNew \in Int /\ ti \in Int /\ tj \in Int
      /\ req.op \in {"sample", "twist"}
      /\ \A k \in 0 .. head - 1 : log[k].stamp \in Int
  BY <1>1, ReaderTypes
<1> HIDE DEF o, n
<1>5. /\ log[o].stamp \in Int /\ log[n].stamp \in Int /\ log[i].stamp \in Int
      /\ last = 1 => log[i + 1].stamp \in Int
  BY <1>2, <1>3, <1>4
<1>6. tNew = log[n].stamp
  <2>1. ~Lapped(n)
    BY <1>2, <1>3, <1>4 DEF Lapped
  <2> QED BY <1>1, <2>1 DEF WindowInv, n
<1>7. log[o].stamp <= log[i].stamp /\ log[o].stamp <= log[n].stamp
  BY <1>2, <1>3, <1>4 DEF IInv, RingInv, StampsOrdered
<1>8. /\ last = 0 => bits[0] = log[i].pose
      /\ last = 1 => bits[0] = log[i].pose /\ bits[1] = log[i + 1].pose
  <2>1. off = last /\ bits[off] = log[i + off].pose /\ (off = 1 => bits[0] = log[i].pose)
    BY <1>1 DEF SlotInv
  <2>2. i + 0 = i
    BY <1>4
  <2> QED BY <2>1, <2>2
<1>9. LastAtMost(log, h, req.t, i) <=>
        log[i].stamp <= req.t /\ \A j \in i + 1 .. n : log[j].stamp > req.t
  BY DEF LastAtMost, n
<1>10. OnBracket => LastAtMost(log, h, req.t, i)
  BY <1>9 DEF OnBracket, AtMost, AboveAfter, n
<1>11. CASE last = 0
  <2>1. Outcome = Exact(log[i].pose)
    BY <1>8, <1>11 DEF Outcome
  <2>2. CASE OnNewest
    <3>1. i = n
      BY <2>2 DEF OnNewest, n
    <3>2. CASE req.op = "sample" /\ req.t = tNew
      <4>1. LastAtMost(log, h, req.t, n) /\ n \in o .. n
        <5>1. n + 1 .. n = {}
          BY <1>3
        <5> QED BY <1>3, <1>5, <1>6, <3>2, <5>1 DEF LastAtMost, n
      <4>2. AnswersInside(log, req, h, Outcome)
        BY <1>5, <1>6, <1>7, <2>1, <3>1, <3>2, <4>1 DEF AnswersInside, o, n
      <4> QED BY <1>2, <4>2 DEF Answers
    <3>3. CASE ~(req.op = "sample" /\ req.t = tNew)
      <4>1. /\ req.t > tNew
            /\ \/ req.policy = "Hold"
               \/ req.op = "sample" /\ req.policy = "ConstantTwist" /\ o = n
        BY <2>2, <3>3 DEF OnNewest, o, n
      <4>2. req.t >= log[o].stamp /\ req.t > log[n].stamp
        BY <1>4, <1>5, <1>6, <1>7, <4>1
      <4>3. AnswersBeyond(log, req, h, Outcome)
        BY <2>1, <3>1, <4>1, <4>2 DEF AnswersBeyond, o, n
      <4> QED BY <1>2, <4>3 DEF Answers
    <3> QED BY <3>2, <3>3
  <2>3. CASE OnBracket /\ req.op = "sample" /\ LowerRead /\ ti = req.t
    <3>1. log[i].stamp = req.t /\ i \in o .. n /\ req.t < log[n].stamp
      BY <1>2, <1>3, <1>4, <1>6, <2>3 DEF LowerRead, OnBracket
    <3>2. AnswersInside(log, req, h, Outcome)
      BY <1>5, <1>7, <1>10, <2>1, <2>3, <3>1 DEF AnswersInside, o, n
    <3> QED BY <1>2, <3>2 DEF Answers
  <2> QED BY <1>1, <1>11, <2>2, <2>3 DEF ChoiceInv
<1>12. CASE last = 1
  <2>0. /\ i + 1 <= n /\ i \in o .. n - 1 /\ i \in o .. n /\ o # n /\ ti = log[i].stamp
    BY <1>1, <1>2, <1>3, <1>12 DEF ChoiceInv, LowerRead
  <2>1. Outcome = IF ti = tj THEN Exact(log[i + 1].pose)
                  ELSE Between(log[i].pose, log[i + 1].pose, req.t - ti, tj - ti)
    BY <1>8, <1>12 DEF Outcome
  <2>2. CASE OnExtension /\ LowerRead /\ tj = tNew
    <3>1. /\ i = n - 1 /\ i + 1 = n /\ req.t > tNew /\ req.policy = "ConstantTwist"
      BY <1>3, <1>4, <2>2 DEF OnExtension, n
    <3>2. req.t >= log[o].stamp /\ req.t > log[n].stamp
      BY <1>4, <1>5, <1>6, <1>7, <3>1
    <3>3. Outcome = IF log[n - 1].stamp = log[n].stamp THEN Exact(log[n].pose)
                    ELSE Segment(log, n - 1, req.t)
      BY <1>6, <2>0, <2>1, <2>2, <3>1 DEF Segment
    <3>4. AnswersBeyond(log, req, h, Outcome)
      BY <2>0, <3>1, <3>2, <3>3 DEF AnswersBeyond, o, n
    <3> QED BY <1>2, <3>4 DEF Answers
  <2>3. CASE /\ OnLastSegment \/ OnBracket
             /\ UpperRead
             /\ IF req.op = "sample" THEN ti # req.t ELSE ti # tj
    <3>1. tj = log[i + 1].stamp
      BY <2>3 DEF UpperRead
    <3>2. CASE req.op = "twist"
      <4>1. Outcome = Segment(log, i, req.t) /\ log[i].stamp # log[i + 1].stamp
        BY <2>0, <2>1, <2>3, <3>1, <3>2 DEF Segment
      <4>2. /\ log[o].stamp <= req.t /\ req.t <= log[n].stamp
            /\ IF req.t = log[n].stamp THEN i = n - 1 ELSE LastAtMost(log, h, req.t, i)
        <5>1. CASE OnLastSegment
          BY <1>5, <1>6, <1>7, <5>1 DEF OnLastSegment, n
        <5>2. CASE OnBracket
          <6>1. req.t < log[n].stamp /\ log[i].stamp <= req.t
            BY <1>6, <1>9, <1>10, <5>2 DEF OnBracket
          <6> QED BY <1>4, <1>5, <1>7, <1>10, <5>2, <6>1
        <5> QED BY <2>3, <5>1, <5>2
      <4>3. AnswersTwist(log, req, h, Outcome)
        BY <2>0, <3>2, <4>1, <4>2 DEF AnswersTwist, o, n
      <4> QED BY <1>2, <4>3 DEF Answers
    <3>3. CASE req.op = "sample"
      <4>1. OnBracket
        BY <2>3, <3>3 DEF OnLastSegment
      <4>2. LastAtMost(log, h, req.t, i) /\ log[i + 1].stamp > req.t /\ log[i].stamp <= req.t
        <5>1. i + 1 \in i + 1 .. n
          BY <1>3, <1>4, <2>0
        <5> QED BY <1>9, <1>10, <4>1, <5>1
      <4>3. log[i].stamp # req.t /\ ti # tj
        BY <1>4, <1>5, <1>12, <2>0, <2>3, <3>1, <3>3, <4>2
      <4>4. Outcome = Segment(log, i, req.t)
        BY <2>0, <2>1, <3>1, <4>3 DEF Segment
      <4>5. log[o].stamp <= req.t /\ req.t <= log[n].stamp
        BY <1>4, <1>5, <1>6, <1>7, <4>1, <4>2 DEF OnBracket
      <4>6. AnswersInside(log, req, h, Outcome)
        BY <2>0, <3>3, <4>2, <4>3, <4>4, <4>5 DEF AnswersInside, o, n
      <4> QED BY <1>2, <4>6 DEF Answers
    <3> QED BY <1>4, <3>2, <3>3
  <2> QED BY <1>1, <1>12, <2>2, <2>3 DEF ChoiceInv
<1> QED BY <1>4, <1>11, <1>12

\* The revalidation and the return to the caller.
LEMMA ClosingSteps ==
  ASSUME IInv, Revalidate \/ Return
  PROVE  TypeOK' /\ ReaderInv'
<1> USE CapacityAssumption
<1>1. UNCHANGED <<arena, writer, history>>
  BY DEF Revalidate, Return
<1>2. /\ head' = head /\ log' = log /\ TypeOK /\ WindowInv /\ SlotInv /\ ChoiceInv
  BY <1>1, ReaderFrame DEF IInv, ReaderInv
<1>3. ASSUME Revalidate PROVE TypeOK' /\ ReaderInv'
  <2>1. /\ rpc = "reval" /\ rpc' = "done" /\ UNCHANGED <<window, search, slotrd>>
        /\ res' = IF head - i > retained THEN Err("SlotRecycled") ELSE Outcome
    BY <1>3 DEF Revalidate, Finish
  <2>2. TypeOK'
    BY <1>1, <1>2, <2>1 DEF TypeOK, window, search, slotrd, arena, writer, history
  <2>3. h' = h /\ req' = req /\ h \in 0 .. head
    BY <1>2, <2>1 DEF WindowInv, window
  <2>4. WindowInv' /\ SearchInv' /\ ChoiceInv' /\ SlotInv'
    BY <1>2, <2>1, <2>3 DEF WindowInv, SearchInv, Searching, ChoiceInv, SlotInv, Reading
  <2>5. DoneInv'
    <3> SUFFICES ASSUME Ok(res') \/ head = h PROVE Answers(log, req, h, res')
      BY <1>2, <2>1, <2>3 DEF DoneInv, Ok
    <3>1. ~Lapped(i)
      <4>1. h > 0 /\ i \in Nat /\ Oldest(h) <= i /\ Oldest(h) \in Nat /\ head \in Nat
            /\ retained = Capacity - 1
        BY <1>2, <2>1, Chosen, WindowBounds, ReaderTypes DEF Reading
      <4>2. CASE head = h
        BY <1>2, <4>1, <4>2, NothingLapped
      <4>3. CASE head # h
        <5>1. ~(head - i > retained)
          BY <2>1, <4>3 DEF Ok, Err
        <5> QED BY <4>1, <5>1 DEF Lapped
      <4> QED BY <4>2, <4>3
    <3>2. res' = Outcome
      <4>1. i \in Nat /\ head \in Nat /\ h \in Nat /\ h > 0 /\ retained = Capacity - 1
        BY <1>2, <2>1, Chosen, WindowBounds, ReaderTypes DEF Reading
      <4> QED BY <2>1, <3>1, <4>1 DEF Lapped
    <3> QED BY <2>1, <3>1, <3>2, OutcomeAnswers
  <2> QED BY <2>2, <2>4, <2>5 DEF ReaderInv
<1>4. ASSUME Return PROVE TypeOK' /\ ReaderInv'
  <2>1. ZeroPose \in [Words -> Vals] /\ NoRequest \in Request
    BY PayloadAssumption DEF ZeroPose, NoRequest, Request
  <2>2. TypeOK'
    BY <1>1, <1>2, <1>4, <2>1, SeqAssumption DEF Return, TypeOK, arena, writer, history
  <2>3. ReaderInv'
    BY <1>4 DEF Return, ReaderInv, WindowInv, SearchInv, Searching, ChoiceInv, SlotInv, Reading, DoneInv
  <2> QED BY <2>2, <2>3
<1> QED BY <1>3, <1>4

-------------------------------------------------------------------------------
(* The theorems. *)

\* Every step preserves the invariant.
LEMMA StepIInv == IInv /\ [Next]_vars => IInv'
<1> SUFFICES ASSUME IInv, [Next]_vars PROVE IInv'
  OBVIOUS
<1>1. CASE Push \/ CrashWriter
  BY <1>1, WriterStep, WriterStepReader DEF IInv
<1>2. CASE (\E q \in Requests : Invoke(q)) \/ Read
  <2>1. UNCHANGED <<arena, writer, history>>
    BY <1>2 DEF Read, Invoke, LoadHead, LoadOldest, LoadNewest, OutOfRange, NoSegmentInWindow,
         ReadNewest, NewestSegment, StartSearch, ProbeHint, GallopUp, GallopDown, Bisect,
         BracketFound, LoadLower, LoadUpper, LoadSeq, LoadWord, CheckSeq, Revalidate, Return
  <2>2. WriterInv' /\ RingInv'
    BY <2>1, ReaderFrame
  <2>3. TypeOK' /\ ReaderInv'
    BY <1>2, OpeningSteps, RangeSteps, SearchSteps, StampSteps, SlotSteps, ClosingSteps DEF Read
  <2> QED BY <2>2, <2>3 DEF IInv
<1>3. CASE UNCHANGED vars
  <2>1. UNCHANGED <<arena, writer, history>> /\ UNCHANGED reader
    BY <1>3 DEF vars
  <2>2. TypeOK'
    BY <2>1 DEF IInv, TypeOK, arena, writer, history, reader, window, search, slotrd
  <2>3. WriterInv' /\ RingInv' /\ head' = head /\ log' = log /\ seq' = seq
    BY <2>1, ReaderFrame
  <2>4. head' >= head
    BY <2>3, ReaderTypes DEF IInv
  <2> QED BY <2>1, <2>2, <2>3, <2>4, ReaderStable DEF IInv
<1> QED BY <1>1, <1>2, <1>3 DEF Next

\* The invariant holds of every reachable state.
LEMMA IInvHolds == Spec => []IInv
  BY InitIInv, StepIInv, PTL DEF Spec

\* Type correctness of the ring, the writer's locals and the reader's locals.
THEOREM TypeCorrect == Spec => []TypeOK
<1>1. IInv => TypeOK
  BY DEF IInv
<1> QED BY <1>1, IInvHolds, PTL

\* The slots of the retained window always hold the published samples, whole
\* and with even seqlocks, whatever push is under way or was cut short.
THEOREM RetainedIntactHolds == Spec => []RetainedIntact
<1>1. IInv => RetainedIntact
  <2> SUFFICES ASSUME IInv, NEW k \in Oldest(head) .. Newest(head)
               PROVE  Intact(k)
    BY DEF RetainedIntact, Intact
  <2>1. head \in Nat
    BY DEF IInv, TypeOK
  <2>2. head > 0
    BY <2>1, CapacityAssumption DEF Oldest, Newest, retained
  <2>3. k \in 0 .. head - 1 /\ ~Lapped(k)
    BY <2>1, <2>2, WindowBounds, CapacityAssumption DEF Lapped
  <2> QED BY <2>3 DEF IInv, RingInv
<1> QED BY <1>1, IInvHolds, PTL

\* Published stamps never decrease, also across killed writers.
THEOREM StampsOrderedHolds == Spec => []StampsOrdered
<1>1. IInv => StampsOrdered
  BY DEF IInv, RingInv
<1> QED BY <1>1, IInvHolds, PTL

\* A successful lookup answers what the published samples said when it began,
\* although no load it makes is atomic with any other.
THEOREM SampleSoundHolds == Spec => []SampleSound
<1>1. IInv => SampleSound
  BY DEF IInv, ReaderInv, DoneInv, SampleSound
<1> QED BY <1>1, IInvHolds, PTL

\* A lookup during which nothing was published is exact, errors included.
THEOREM SampleExactHolds == Spec => []SampleExact
<1>1. IInv => SampleExact
  BY DEF IInv, ReaderInv, DoneInv, SampleExact
<1> QED BY <1>1, IInvHolds, PTL

-------------------------------------------------------------------------------
(* read_slot hands back whole poses. *)

\* Counting round the sequence numbers.
LEMMA WrapStep ==
  ASSUME NEW s \in 0 .. SeqModulus - 1, NEW a \in Nat, a < SeqModulus
  PROVE  /\ Wrap(s + a) \in 0 .. SeqModulus - 1
         /\ Wrap(s + a) % 2 = 0 => Wrap(s + a) + 1 = Wrap(s + a + 1)
         /\ (Wrap(s + a) + 1) % SeqModulus = Wrap(s + a + 1)
         /\ Wrap(s + a) = s => a = 0
         /\ Wrap(s + 0) = s
<1>1. Wrap(s + a) \in 0 .. SeqModulus - 1
  BY SeqAssumption DEF Wrap
<1>2. Wrap(s + a) % 2 = 0 => Wrap(s + a) + 1 = Wrap(s + a + 1)
  BY SeqAssumption DEF Wrap
<1>3. (Wrap(s + a) + 1) % SeqModulus = Wrap(s + a + 1)
  <2>1. ASSUME NEW x \in 0 .. SeqModulus - 1
        PROVE  (x + 1) % SeqModulus = IF x + 1 = SeqModulus THEN 0 ELSE x + 1
    <3>1. CASE x + 1 = SeqModulus
      BY <3>1, SeqAssumption
    <3>2. CASE x + 1 # SeqModulus
      BY <3>2, SeqAssumption
    <3> QED BY <3>1, <3>2
  <2>2. (Wrap(s + a) + 1) % SeqModulus
          = IF Wrap(s + a) + 1 = SeqModulus THEN 0 ELSE Wrap(s + a) + 1
    BY <1>1, <2>1
  <2> QED BY <2>2, SeqAssumption DEF Wrap
<1>4. (Wrap(s + a) = s => a = 0) /\ Wrap(s + 0) = s
  BY SeqAssumption DEF Wrap
<1> QED BY <1>1, <1>2, <1>3, <1>4

\* The sample being read has been published, so its slot was filled.
LEMMA ReadPublished ==
  ASSUME IInv, Reading
  PROVE  i + off \in 0 .. head - 1 /\ Idx(i + off) \in Slots
<1>1. /\ h \in Nat /\ h > 0 /\ h <= head /\ head \in Nat
      /\ i \in 0 .. head - 1 /\ i <= Newest(h) /\ Newest(h) < h
      /\ ~Lapped(i) /\ (Reading => last = 1) => i + 1 <= Newest(h)
  BY Chosen, WindowBounds, ReaderTypes DEF IInv, ReaderInv
<1>2. off = 0 \/ (off = 1 /\ last = 1)
  BY DEF IInv, TypeOK, ReaderInv, SlotInv
<1>3. i + off \in 0 .. head - 1
  <2>1. Newest(h) = h - 1
    BY DEF Newest
  <2>2. CASE off = 0
    BY <1>1, <2>2
  <2>3. CASE off = 1 /\ last = 1 /\ ~Lapped(i)
    BY <1>1, <2>1, <2>3
  <2>4. CASE off = 1 /\ Lapped(i)
    BY <1>1, <2>4, CapacityAssumption DEF Lapped
  <2> QED BY <1>2, <2>2, <2>3, <2>4
<1>4. i + off \in Nat
  BY <1>1, <1>3
<1> QED BY <1>3, <1>4, IdxInSlots

\* The pose of a push whose stores have all been made.
LEMMA FilledSlot ==
  ASSUME IInv, wpc \in {"payload", "head"}, wtodo = {}
  PROVE  data[Idx(wh)] = wsample.pose /\ wsample.pose \in Poses
<1>1. Idx(wh) \in Slots /\ wsample \in Samples
  BY IdxInSlots DEF IInv, TypeOK, WriterInv
<1>2. /\ data[Idx(wh)] \in [Words -> Vals] /\ wsample.pose \in [Words -> Vals]
      /\ \A w \in Words : data[Idx(wh)][w] = wsample.pose[w]
  BY <1>1, PayloadAssumption DEF IInv, TypeOK, WriterInv
<1> QED BY <1>1, <1>2 DEF Poses

\* A slot that was ever filled is whole or marked odd.
LEMMA StepWhole ==
  ASSUME IInv, WholeInv, [Next]_vars
  PROVE  WholeInv'
<1>0. /\ head \in Nat /\ wh \in Nat /\ Idx(wh) \in Slots
      /\ seq \in [Slots -> 0 .. SeqModulus - 1] /\ data \in [Slots -> [Words -> Vals]]
      /\ wodd \in 0 .. SeqModulus - 1
  BY IdxInSlots DEF IInv, TypeOK
<1>1. \A k \in 0 .. head - 1 : Idx(k) \in Slots
  BY <1>0, IdxInSlots
<1>2. CASE /\ UNCHANGED <<head, seq, data>>
           /\ wpc' = "payload" => wpc = "payload" /\ wh' = wh /\ wodd' = wodd
  BY <1>2 DEF WholeInv
<1>3. CASE PushOdd
  <2>1. wodd' % 2 = 1 /\ seq' = [seq EXCEPT ![Idx(wh)] = wodd'] /\ wh' = wh
        /\ head' = head /\ data' = data
    <3>1. wodd' = IF seq[Idx(wh)] % 2 = 0 THEN seq[Idx(wh)] + 1 ELSE seq[Idx(wh)]
      BY <1>3 DEF PushOdd
    <3>2. seq[Idx(wh)] \in 0 .. SeqModulus - 1
      BY <1>0
    <3>3. wodd' % 2 = 1
      BY <3>1, <3>2, SeqAssumption
    <3> QED BY <1>3, <3>3 DEF PushOdd
  <2>2. seq'[Idx(wh)] = wodd'
    BY <1>0, <2>1
  <2>3. ASSUME NEW k \in 0 .. head - 1, seq'[Idx(k)] % 2 = 0 PROVE data[Idx(k)] \in Poses
    <3>1. Idx(k) # Idx(wh)
      BY <2>1, <2>2, <2>3
    <3>2. seq'[Idx(k)] = seq[Idx(k)]
      BY <1>0, <1>1, <2>1, <3>1
    <3> QED BY <2>3, <3>2 DEF WholeInv
  <2> QED BY <2>1, <2>2, <2>3 DEF WholeInv
<1>4. ASSUME NEW w \in Words, PushWord(w) PROVE WholeInv'
  <2>1. /\ wpc = "payload" /\ seq' = seq /\ head' = head /\ wh' = wh /\ wodd' = wodd
        /\ data' = [data EXCEPT ![Idx(wh)][w] = wsample.pose[w]]
    BY <1>4 DEF PushWord
  <2>2. seq[Idx(wh)] % 2 = 1
    BY <2>1 DEF WholeInv, IInv, WriterInv
  <2>3. ASSUME NEW k \in 0 .. head - 1, seq[Idx(k)] % 2 = 0 PROVE data'[Idx(k)] \in Poses
    <3>1. Idx(k) # Idx(wh)
      BY <2>2, <2>3
    <3>2. data'[Idx(k)] = data[Idx(k)]
      BY <1>0, <1>1, <2>1, <3>1
    <3> QED BY <2>3, <3>2 DEF WholeInv
  <2> QED BY <2>1, <2>3 DEF WholeInv
<1>5. CASE PushEven
  <2>1. /\ wpc = "payload" /\ wtodo = {} /\ head' = head /\ data' = data /\ wpc' = "head"
        /\ seq' = [seq EXCEPT ![Idx(wh)] = (wodd + 1) % SeqModulus]
    BY <1>5 DEF PushEven
  <2>2. data[Idx(wh)] \in Poses
    BY <2>1, FilledSlot
  <2>3. ASSUME NEW k \in 0 .. head - 1, seq'[Idx(k)] % 2 = 0 PROVE data[Idx(k)] \in Poses
    <3>1. CASE Idx(k) = Idx(wh)
      BY <2>2, <3>1
    <3>2. CASE Idx(k) # Idx(wh)
      <4>1. seq'[Idx(k)] = seq[Idx(k)]
        BY <1>0, <1>1, <2>1, <3>2
      <4> QED BY <2>3, <4>1 DEF WholeInv
    <3> QED BY <3>1, <3>2
  <2> QED BY <2>1, <2>3 DEF WholeInv
<1>6. CASE PushHead
  <2>1. /\ wpc = "head" /\ head' = wh + 1 /\ wh = head /\ wtodo = {}
        /\ seq' = seq /\ data' = data /\ wpc' = "beat"
    BY <1>6 DEF PushHead, IInv, WriterInv
  <2>2. data[Idx(head)] \in Poses
    BY <2>1, FilledSlot
  <2>3. ASSUME NEW k \in 0 .. head' - 1, seq[Idx(k)] % 2 = 0 PROVE data[Idx(k)] \in Poses
    <3>1. k = head \/ k \in 0 .. head - 1
      BY <1>0, <2>1
    <3> QED BY <2>2, <2>3, <3>1 DEF WholeInv
  <2> QED BY <2>1, <2>3 DEF WholeInv
<1>7. ASSUME NEW s \in Samples, PushBegin(s) PROVE WholeInv'
  BY <1>2, <1>7 DEF PushBegin, arena
<1>8. CASE PushStamp \/ PushBeat \/ CrashWriter
  BY <1>2, <1>8 DEF PushStamp, PushBeat, CrashWriter, arena
<1>9. CASE (\E q \in Requests : Invoke(q)) \/ Read
  <2>1. UNCHANGED <<arena, writer, history>>
    BY <1>9 DEF Read, Invoke, LoadHead, LoadOldest, LoadNewest, OutOfRange, NoSegmentInWindow,
         ReadNewest, NewestSegment, StartSearch, ProbeHint, GallopUp, GallopDown, Bisect,
         BracketFound, LoadLower, LoadUpper, LoadSeq, LoadWord, CheckSeq, Revalidate, Return
  <2> QED BY <1>2, <2>1 DEF arena, writer
<1>10. CASE UNCHANGED vars
  BY <1>2, <1>10 DEF vars, arena, writer
<1> QED BY <1>3, <1>4, <1>5, <1>6, <1>7, <1>8, <1>9, <1>10 DEF Next, Push

\* A lookup that is near its beginning has always been.
LEMMA NearBefore ==
  ASSUME IInv, h' = h, head' \in Nat, crashes' \in Nat, head' >= head, crashes' >= crashes, Near'
  PROVE  Near /\ Reach \in Int /\ Reach < SeqModulus
         /\ Reach = 2 * (head - h + crashes) + Stage /\ Stage \in 0 .. 2
<1>1. head \in Nat /\ h \in Nat /\ crashes \in Nat
  BY DEF IInv, TypeOK
<1>2. Stage \in 0 .. 2
  BY DEF Stage
<1>3. 2 * (head' - h + crashes' + 1) < SeqModulus
  BY DEF Near
<1>0. SeqModulus \in Nat
  BY SeqAssumption
<1>4. 2 * (head - h + crashes + 1) < SeqModulus
  <2>1. ASSUME NEW m \in Nat, NEW n \in Nat, NEW c \in Nat, NEW d \in Nat, NEW b \in Nat, NEW M \in Nat,
               m <= n, c <= d, 2 * (n - b + d + 1) < M
        PROVE  2 * (m - b + c + 1) < M
    BY <2>1
  <2>2. head <= head' /\ crashes <= crashes'
    BY <1>1
  <2> QED BY <1>0, <1>1, <1>3, <2>1, <2>2
<1>5. Reach = 2 * (head - h + crashes) + Stage
  BY DEF Reach
<1>6. Reach \in Int /\ Reach < SeqModulus
  BY <1>1, <1>2, <1>4, <1>5, SeqAssumption
<1> QED BY <1>2, <1>4, <1>5, <1>6 DEF Near

\* The writer's steps leave what a lookup has read as good as it was.
LEMMA WriterStepRead ==
  ASSUME IInv, WholeInv, ReadInv, Push \/ CrashWriter
  PROVE  ReadInv'
<1>0. /\ head \in Nat /\ wh \in Nat /\ Idx(wh) \in Slots
      /\ seq \in [Slots -> 0 .. SeqModulus - 1] /\ data \in [Slots -> [Words -> Vals]]
      /\ wodd \in 0 .. SeqModulus - 1 /\ s1 \in 0 .. SeqModulus - 1 /\ crashes \in Nat /\ h \in Nat
  BY IdxInSlots DEF IInv, TypeOK
<1>1. UNCHANGED reader
  BY DEF Push, PushBegin, PushOdd, PushStamp, PushWord, PushEven, PushHead, PushBeat, CrashWriter
<1>2. /\ rpc' = rpc /\ h' = h /\ i' = i /\ off' = off /\ s1' = s1 /\ todo' = todo
      /\ bits' = bits /\ Reading' = Reading
  BY <1>1 DEF reader, window, search, slotrd, Reading
<1>3. head' \in Nat /\ crashes' \in Nat /\ head' >= head /\ crashes' >= crashes
  <2>1. PushHead => wh = head
    BY DEF PushHead, IInv, WriterInv
  <2> QED BY <1>0, <2>1 DEF Push, PushBegin, PushOdd, PushStamp, PushWord, PushEven, PushHead,
                            PushBeat, CrashWriter, arena, history
<1> SUFFICES ASSUME Near'
             PROVE  /\ rpc = "words" => s1 % 2 = 0 /\ \E a \in 0 .. Reach' : Since(a)'
                    /\ Reading /\ off = 1 => bits[0] \in Poses
                    /\ rpc = "reval" => bits[off] \in Poses
  BY <1>2 DEF ReadInv
<1>4. /\ Near /\ Reach \in Int /\ Reach < SeqModulus
      /\ Reach = 2 * (head - h + crashes) + Stage /\ Stage \in 0 .. 2
  BY <1>2, <1>3, NearBefore
<1>5. SUFFICES ASSUME rpc = "words" PROVE \E a \in 0 .. Reach' : Since(a)'
  BY <1>4 DEF ReadInv
<1> DEFINE x == Idx(i + off)
<1>6. x \in Slots /\ s1 % 2 = 0
  BY <1>4, <1>5, ReadPublished DEF Reading, ReadInv
<1>7. PICK a \in 0 .. Reach : Since(a)
  BY <1>4, <1>5 DEF ReadInv
<1>8. /\ a \in Nat /\ a < SeqModulus /\ a <= Reach
      /\ seq[x] = Wrap(s1 + a)
      /\ a = 0 => /\ data[x] \in Poses
                  /\ \A w \in Words \ todo : bits[off][w] = data[x][w]
  <2>1. SeqModulus \in Nat
    BY SeqAssumption
  <2>2. a \in Nat /\ a < SeqModulus /\ a <= Reach
    BY <1>4, <2>1
  <2> QED BY <1>7, <2>2 DEF Since
<1>9. seq[x] % 2 = 1 => a # 0
  <2>1. a = 0 => seq[x] = s1
    BY <1>0, <1>8, WrapStep
  <2> QED BY <1>0, <1>6, <2>1
<1> HIDE DEF x
<1>10. ASSUME NEW b \in Nat, b <= Reach',
              seq'[x] = Wrap(s1 + b),
              b = 0 => a = 0 /\ data'[x] = data[x]
       PROVE  \E c \in 0 .. Reach' : Since(c)'
  <2>1. Reach' \in Int
    <3>1. Stage' \in 0 .. 2
      BY DEF Stage
    <3> QED BY <1>0, <1>2, <1>3, <3>1 DEF Reach
  <2>2. b \in 0 .. Reach'
    BY <1>10, <2>1
  <2>3. Since(b)'
    BY <1>2, <1>8, <1>10 DEF Since, x
  <2> QED BY <2>2, <2>3
<1>11. CASE seq'[x] = seq[x] /\ (a = 0 => data'[x] = data[x]) /\ Reach' >= Reach
  <2>1. Reach' \in Int
    <3>1. Stage' \in 0 .. 2
      BY DEF Stage
    <3> QED BY <1>0, <1>2, <1>3, <3>1 DEF Reach
  <2> QED BY <1>4, <1>8, <1>10, <1>11, <2>1
<1>12. ASSUME NEW s \in Samples, PushBegin(s) PROVE Reach' >= Reach /\ seq' = seq /\ data' = data
  BY <1>0, <1>2, <1>12 DEF PushBegin, Reach, Stage, arena, history
<1>13. CASE PushOdd
  <2>1. /\ wpc = "odd" /\ wpc' = "payload" /\ head' = head /\ crashes' = crashes /\ data' = data
        /\ seq' = [seq EXCEPT ![Idx(wh)] =
                     IF seq[Idx(wh)] % 2 = 0 THEN seq[Idx(wh)] + 1 ELSE seq[Idx(wh)]]
    BY <1>13 DEF PushOdd, history
  <2>2. Reach' = Reach + 1
    BY <1>0, <1>2, <2>1 DEF Reach, Stage
  <2>3. CASE x # Idx(wh) \/ seq[x] % 2 # 0
    <3>1. seq'[x] = seq[x]
      BY <1>0, <1>6, <2>1, <2>3
    <3> QED BY <1>4, <1>11, <2>1, <2>2, <3>1
  <2>4. CASE x = Idx(wh) /\ seq[x] % 2 = 0
    <3>1. seq'[x] = seq[x] + 1
      BY <1>0, <1>6, <2>1, <2>4
    <3>2. seq'[x] = Wrap(s1 + a + 1)
      BY <1>0, <1>8, <2>4, <3>1, WrapStep
    <3>3. seq'[x] = Wrap(s1 + (a + 1))
      BY <1>0, <1>8, <3>2
    <3> QED BY <1>4, <1>8, <1>10, <2>2, <3>3
  <2> QED BY <2>3, <2>4
<1>14. ASSUME NEW w \in Words, PushWord(w) PROVE \E c \in 0 .. Reach' : Since(c)'
  <2>1. /\ wpc = "payload" /\ wpc' = wpc /\ head' = head /\ crashes' = crashes /\ seq' = seq
        /\ data' = [data EXCEPT ![Idx(wh)][w] = wsample.pose[w]]
    BY <1>14 DEF PushWord, history
  <2>2. Reach' = Reach
    BY <1>2, <2>1 DEF Reach, Stage
  <2>3. CASE x # Idx(wh)
    <3>1. data'[x] = data[x]
      BY <1>0, <1>6, <2>1, <2>3
    <3> QED BY <1>4, <1>11, <2>1, <2>2, <3>1
  <2>4. CASE x = Idx(wh)
    <3>1. a # 0
      BY <1>9, <2>1, <2>4 DEF WholeInv, IInv, WriterInv
    <3> QED BY <1>4, <1>11, <2>1, <2>2, <3>1
  <2> QED BY <2>3, <2>4
<1>15. CASE PushEven
  <2>1. /\ wpc = "payload" /\ wpc' = "head" /\ head' = head /\ crashes' = crashes /\ data' = data
        /\ seq' = [seq EXCEPT ![Idx(wh)] = (wodd + 1) % SeqModulus]
    BY <1>15 DEF PushEven, history
  <2>2. Reach' = Reach + 1
    BY <1>0, <1>2, <2>1 DEF Reach, Stage
  <2>3. CASE x # Idx(wh)
    <3>1. seq'[x] = seq[x]
      BY <1>0, <1>6, <2>1, <2>3
    <3> QED BY <1>4, <1>11, <2>1, <2>2, <3>1
  <2>4. CASE x = Idx(wh)
    <3>1. seq[x] = wodd /\ seq'[x] = (wodd + 1) % SeqModulus
      BY <1>0, <1>6, <2>1, <2>4 DEF WholeInv
    <3>2. seq'[x] = Wrap(s1 + a + 1)
      BY <1>0, <1>8, <3>1, WrapStep
    <3>3. seq'[x] = Wrap(s1 + (a + 1))
      BY <1>0, <1>8, <3>2
    <3> QED BY <1>4, <1>8, <1>10, <2>2, <3>3
  <2> QED BY <2>3, <2>4
<1>16. ASSUME PushHead PROVE Reach' >= Reach /\ seq' = seq /\ data' = data
  <2>1. /\ wpc = "head" /\ wpc' = "beat" /\ head' = head + 1 /\ crashes' = crashes
        /\ seq' = seq /\ data' = data
    BY <1>16 DEF PushHead, IInv, WriterInv
  <2> QED BY <1>0, <1>2, <2>1 DEF Reach, Stage
<1>17. ASSUME PushStamp \/ PushBeat PROVE Reach' >= Reach /\ seq' = seq /\ data' = data
  BY <1>0, <1>2, <1>17 DEF PushStamp, PushBeat, Reach, Stage, history
<1>18. ASSUME CrashWriter PROVE Reach' >= Reach /\ seq' = seq /\ data' = data
  BY <1>0, <1>2, <1>18 DEF CrashWriter, Reach, Stage, arena
<1> QED BY <1>11, <1>12, <1>13, <1>14, <1>15, <1>16, <1>17, <1>18 DEF Push

\* The reader's own steps: what read_slot accepts is the pose of one sample.
LEMMA ReaderStepRead ==
  ASSUME IInv, IInv', WholeInv, ReadInv, (\E q \in Requests : Invoke(q)) \/ Read
  PROVE  ReadInv'
<1>1. UNCHANGED <<arena, writer, history>>
  BY DEF Read, Invoke, LoadHead, LoadOldest, LoadNewest, OutOfRange, NoSegmentInWindow,
         ReadNewest, NewestSegment, StartSearch, ProbeHint, GallopUp, GallopDown, Bisect,
         BracketFound, LoadLower, LoadUpper, LoadSeq, LoadWord, CheckSeq, Revalidate, Return
<1>2. /\ head' = head /\ seq' = seq /\ data' = data /\ wpc' = wpc /\ crashes' = crashes
      /\ head \in Nat /\ crashes \in Nat /\ s1 \in 0 .. SeqModulus - 1 /\ off \in {0, 1}
      /\ last \in {0, 1} /\ todo \subseteq Words /\ bits \in [{0, 1} -> [Words -> Vals]]
      /\ seq \in [Slots -> 0 .. SeqModulus - 1] /\ data \in [Slots -> [Words -> Vals]]
  BY <1>1 DEF arena, writer, history, IInv, TypeOK
<1>3. CASE rpc' \notin {"seq", "words", "reval"}
  BY <1>3 DEF ReadInv, Reading
<1>4. CASE rpc' = "seq" /\ off' = 0
  BY <1>4 DEF ReadInv, Reading
<1>5. ASSUME \E q \in Requests : Invoke(q) PROVE rpc' \notin {"seq", "words", "reval"}
  BY <1>5 DEF Invoke, Goto
<1>6. ASSUME LoadHead \/ LoadOldest \/ LoadNewest \/ OutOfRange \/ NoSegmentInWindow \/ NewestSegment
      PROVE  rpc' \notin {"seq", "words", "reval"}
  BY <1>6 DEF LoadHead, LoadOldest, LoadNewest, OutOfRange, NoSegmentInWindow, NewestSegment,
              Goto, Finish
<1>7. ASSUME StartSearch \/ ProbeHint \/ GallopUp \/ GallopDown \/ Bisect \/ BracketFound
      PROVE  rpc' \notin {"seq", "words", "reval"}
  BY <1>7 DEF StartSearch, ProbeHint, GallopUp, GallopDown, Bisect, BracketFound, Narrow, Goto
<1>8. ASSUME Revalidate \/ Return PROVE rpc' \notin {"seq", "words", "reval"}
  BY <1>8 DEF Revalidate, Return, Finish
<1>9. ASSUME ReadNewest \/ LoadLower \/ LoadUpper
      PROVE  rpc' \notin {"seq", "words", "reval"} \/ (rpc' = "seq" /\ off' = 0)
  <2>1. off = 0
    BY <1>9 DEF ReadNewest, LoadLower, LoadUpper, IInv, ReaderInv, SlotInv, Reading
  <2> QED BY <1>9, <2>1 DEF ReadNewest, LoadLower, LoadUpper, Goto, Finish, slotrd
<1>10. ASSUME LoadSeq \/ (\E w \in Words : LoadWord(w)) \/ CheckSeq
       PROVE  ReadInv'
  <2>1. rpc \in {"seq", "words"} /\ Reading /\ h' = h /\ i' = i /\ last' = last
    BY <1>10 DEF LoadSeq, LoadWord, CheckSeq, Reading, window, search
  <2>2. i + off \in 0 .. head - 1 /\ Idx(i + off) \in Slots
    BY <2>1, ReadPublished
  <2> SUFFICES ASSUME Near' PROVE /\ rpc' = "words" => s1' % 2 = 0 /\ \E a \in 0 .. Reach' : Since(a)'
                                  /\ Reading' /\ off' = 1 => bits'[0] \in Poses
                                  /\ rpc' = "reval" => bits'[off'] \in Poses
    BY DEF ReadInv
  <2>3. /\ Near /\ Reach \in Int /\ Reach < SeqModulus
        /\ Reach = 2 * (head - h + crashes) + Stage /\ Stage \in 0 .. 2
    BY <1>2, <2>1, NearBefore
  <2>4. Reach' = Reach /\ h <= head /\ h \in Nat
    BY <1>2, <2>1, Chosen DEF Reach, Stage, IInv, ReaderInv
  <2>5. Reach >= 0
    BY <1>2, <2>3, <2>4
  <2>6. Reading /\ off = 1 => bits[0] \in Poses
    BY <2>3 DEF ReadInv
  <2>7. CASE LoadSeq
    <3>1. off' = off /\ bits' = bits /\ rpc' # "reval"
      BY <2>7 DEF LoadSeq, Retry, Goto, Finish
    <3>2. ASSUME rpc' = "words" PROVE s1' % 2 = 0 /\ \E a \in 0 .. Reach' : Since(a)'
      <4>1. /\ seq[Idx(i + off)] % 2 = 0 /\ s1' = seq[Idx(i + off)] /\ todo' = Words
        BY <2>7, <3>2 DEF LoadSeq, Retry, Goto, Finish
      <4>2. data[Idx(i + off)] \in Poses
        BY <2>2, <4>1 DEF WholeInv
      <4>3. seq[Idx(i + off)] \in 0 .. SeqModulus - 1
        BY <1>2, <2>2
      <4>4. seq[Idx(i + off)] = Wrap(s1' + 0)
        BY <4>1, <4>3, SeqAssumption DEF Wrap
      <4>5. Since(0)'
        BY <1>2, <2>1, <3>1, <4>1, <4>2, <4>4 DEF Since
      <4>6. 0 \in 0 .. Reach'
        BY <2>3, <2>4, <2>5
      <4> QED BY <4>1, <4>5, <4>6
    <3> QED BY <2>1, <2>6, <3>1, <3>2
  <2>8. ASSUME NEW w \in Words, LoadWord(w)
        PROVE  /\ rpc' = "words" => s1' % 2 = 0 /\ \E a \in 0 .. Reach' : Since(a)'
               /\ Reading' /\ off' = 1 => bits'[0] \in Poses
               /\ rpc' = "reval" => bits'[off'] \in Poses
    <3>1. /\ rpc = "words" /\ rpc' = "words" /\ off' = off /\ s1' = s1 /\ todo' = todo \ {w}
          /\ bits' = [bits EXCEPT ![off][w] = data[Idx(i + off)][w]]
      BY <2>8 DEF LoadWord, Goto
    <3>2. s1 % 2 = 0 /\ \E a \in 0 .. Reach : Since(a)
      BY <2>3, <3>1 DEF ReadInv
    <3>3. PICK a \in 0 .. Reach : Since(a)
      BY <3>2
    <3>4. \A v \in Words : bits'[off][v] = IF v = w THEN data[Idx(i + off)][w] ELSE bits[off][v]
      BY <1>2, <3>1
    <3>5. Since(a)'
      <4>1. seq'[Idx(i + off)'] = Wrap(s1 + a)'
        BY <1>2, <2>1, <3>1, <3>3 DEF Since, Wrap
      <4>2. ASSUME a = 0
            PROVE  /\ data[Idx(i + off)] \in Poses
                   /\ \A v \in Words \ todo' : bits'[off][v] = data[Idx(i + off)][v]
        BY <3>1, <3>3, <3>4, <4>2 DEF Since
      <4> QED BY <1>2, <2>1, <3>1, <4>1, <4>2 DEF Since
    <3>6. off = 1 => bits'[0] = bits[0]
      BY <1>2, <3>1
    <3> QED BY <2>1, <2>4, <2>6, <3>1, <3>2, <3>5, <3>6
  <2>9. CASE CheckSeq
    <3>1. /\ rpc = "words" /\ todo = {} /\ bits' = bits /\ rpc' # "words"
      BY <2>9 DEF CheckSeq, Retry, Goto, Finish
    <3>2. CASE seq[Idx(i + off)] # s1
      BY <2>1, <2>6, <2>9, <3>1, <3>2 DEF CheckSeq, Retry, Goto, Finish
    <3>3. CASE seq[Idx(i + off)] = s1
      <4>1. PICK a \in 0 .. Reach : Since(a)
        BY <2>3, <3>1 DEF ReadInv
      <4>2. a = 0
        <5>1. SeqModulus \in Nat
          BY SeqAssumption
        <5>2. a \in Nat /\ a < SeqModulus
          BY <2>3, <5>1
        <5>3. seq[Idx(i + off)] = Wrap(s1 + a)
          BY <4>1 DEF Since
        <5> QED BY <1>2, <3>3, <5>2, <5>3, WrapStep
      <4>3. /\ data[Idx(i + off)] \in Poses
            /\ \A w \in Words : bits[off][w] = data[Idx(i + off)][w]
        BY <3>1, <4>1, <4>2 DEF Since
      <4>4. bits[off] \in [Words -> Vals] /\ data[Idx(i + off)] \in [Words -> Vals]
        BY <1>2, <2>2
      <4>5. bits[off] = data[Idx(i + off)]
        BY <4>3, <4>4
      <4>6. bits[off] \in Poses
        BY <4>3, <4>5
      <4>7. IF off < last THEN off' = off + 1 /\ rpc' = "seq" ELSE off' = off /\ rpc' = "reval"
        BY <2>9, <3>3 DEF CheckSeq, Goto
      <4>8. off' = 1 => off = 0 \/ off = 1
        BY <1>2
      <4> QED BY <1>2, <2>1, <2>6, <3>1, <4>6, <4>7
    <3> QED BY <3>2, <3>3
  <2> QED BY <1>10, <2>7, <2>8, <2>9
<1> QED BY <1>3, <1>4, <1>5, <1>6, <1>7, <1>8, <1>9, <1>10 DEF Read

\* Both invariants hold of every reachable state.
LEMMA ReadInvHolds == Spec => [](WholeInv /\ ReadInv)
<1>1. Init => WholeInv /\ ReadInv
  <2> SUFFICES ASSUME Init PROVE WholeInv /\ ReadInv
    OBVIOUS
  <2>1. head = 0 /\ wpc = "idle" /\ rpc = "idle"
    BY DEF Init
  <2>2. 0 .. head - 1 = {}
    BY <2>1
  <2> QED BY <2>1, <2>2 DEF WholeInv, ReadInv, Reading
<1>2. IInv /\ IInv' /\ (WholeInv /\ ReadInv) /\ [Next]_vars => (WholeInv /\ ReadInv)'
  <2> SUFFICES ASSUME IInv, IInv', WholeInv, ReadInv, [Next]_vars PROVE WholeInv' /\ ReadInv'
    OBVIOUS
  <2>1. WholeInv'
    BY StepWhole
  <2>2. CASE UNCHANGED vars
    <3>1. /\ head' = head /\ seq' = seq /\ data' = data /\ wpc' = wpc /\ rpc' = rpc /\ h' = h
          /\ i' = i /\ off' = off /\ s1' = s1 /\ todo' = todo /\ bits' = bits /\ crashes' = crashes
      BY <2>2 DEF vars, arena, writer, reader, window, search, slotrd, history
    <3>2. Reach' = Reach /\ Near' = Near /\ Reading' = Reading
      BY <3>1 DEF Reach, Stage, Near, Reading
    <3>3. \A a : Since(a)' = Since(a)
      BY <3>1 DEF Since
    <3> QED BY <2>1, <3>1, <3>2, <3>3 DEF ReadInv
  <2> QED BY <2>1, <2>2, WriterStepRead, ReaderStepRead DEF Next
<1> QED BY <1>1, <1>2, IInvHolds, PTL DEF Spec

\* read_slot never hands back words of two different poses, as long as the samples
\* published during one lookup, and the writers that were ever killed, are fewer
\* than bring a sequence number round: half of 2^32.
THEOREM SlotReadWholeHolds == Spec => [](Near => SlotReadWhole)
<1>1. IInv /\ WholeInv /\ ReadInv => (Near => SlotReadWhole)
  <2> SUFFICES ASSUME IInv, ReadInv, Near PROVE SlotReadWhole
    OBVIOUS
  <2>1. /\ Reading /\ off = 1 => bits[0] \in Poses
        /\ rpc = "reval" => bits[off] \in Poses
    BY DEF ReadInv
  <2>2. rpc = "reval" => Reading /\ off = last
    BY DEF IInv, ReaderInv, SlotInv, Reading
  <2>3. rpc = "seq" => Reading
    BY DEF Reading
  <2>4. last \in {0, 1}
    BY DEF IInv, TypeOK
  <2> QED BY <2>1, <2>2, <2>3, <2>4 DEF SlotReadWhole, Poses
<1> QED BY <1>1, IInvHolds, ReadInvHolds, PTL

-------------------------------------------------------------------------------
(* Refinement: the ring implements the log. *)

\* The instance of the log speaks of lookups in the same terms.
LEMMA SameTerms ==
  ASSUME NEW L, NEW q, NEW n, NEW r
  PROVE  /\ Abstract!Answers(L, q, n, r) <=> Answers(L, q, n, r)
         /\ Abstract!Answered(q, n, r) = Answered(q, n, r)
         /\ Abstract!Working(q, n) = Working(q, n)
         /\ Abstract!Called(q) = Called(q) /\ Abstract!Idle = Idle
         /\ Abstract!Err("NoData") = Err("NoData")
<1>1. /\ Abstract!Oldest(n) = Oldest(n) /\ Abstract!Newest(n) = Newest(n)
      /\ \A e : Abstract!Err(e) = Err(e)
      /\ \A x, y : Abstract!Extrapolation(x, y) = Extrapolation(x, y)
      /\ \A x : Abstract!Exact(x) = Exact(x)
      /\ \A k : Abstract!Segment(L, k, q.t) = Segment(L, k, q.t)
      /\ \A k : Abstract!LastAtMost(L, n, q.t, k) <=> LastAtMost(L, n, q.t, k)
  BY DEF Abstract!Oldest, Oldest, Abstract!Newest, Newest, Abstract!retained, retained,
         Abstract!Err, Err, Abstract!Extrapolation, Extrapolation, Abstract!Exact, Exact,
         Abstract!Segment, Segment, Abstract!Between, Between, Abstract!LastAtMost, LastAtMost
<1>2. Abstract!AnswersOutside(L, q, n, r) <=> AnswersOutside(L, q, n, r)
  BY <1>1 DEF Abstract!AnswersOutside, AnswersOutside
<1>3. Abstract!AnswersBeyond(L, q, n, r) <=> AnswersBeyond(L, q, n, r)
  BY <1>1 DEF Abstract!AnswersBeyond, AnswersBeyond
<1>4. Abstract!AnswersInside(L, q, n, r) <=> AnswersInside(L, q, n, r)
  BY <1>1 DEF Abstract!AnswersInside, AnswersInside
<1>5. Abstract!AnswersTwist(L, q, n, r) <=> AnswersTwist(L, q, n, r)
  BY <1>1 DEF Abstract!AnswersTwist, AnswersTwist
<1>6. Abstract!Answers(L, q, n, r) <=> Answers(L, q, n, r)
  BY <1>1, <1>2, <1>3, <1>4, <1>5 DEF Abstract!Answers, Answers
<1> QED BY <1>1, <1>6 DEF Abstract!Answered, Answered, Abstract!Working, Working,
                         Abstract!Called, Called, Abstract!Idle, Idle

\* Steps of the writer: the store of head publishes, the others are invisible.
LEMMA WriterRefines ==
  ASSUME IInv, Push \/ CrashWriter
  PROVE  Abstract!LogNext \/ UNCHANGED Abstract!logvars
<1>1. AbstractCall' = AbstractCall
  <2>1. UNCHANGED reader
    BY DEF Push, PushBegin, PushOdd, PushStamp, PushWord, PushEven, PushHead, PushBeat, CrashWriter
  <2>2. rpc' = rpc /\ req' = req /\ h' = h /\ res' = res
    BY <2>1 DEF reader, window
  <2> QED BY <2>2 DEF AbstractCall
<1>2. CASE PushHead
  <2>1. wh = head /\ wsample \in Samples /\ (head > 0 => log[head - 1].stamp <= wsample.stamp)
    BY <1>2 DEF PushHead, IInv, WriterInv
  <2>2. head \in Nat /\ wsample.stamp \in Int /\ (head > 0 => log[head - 1].stamp \in Int)
    BY DEF IInv, TypeOK
  <2>3. /\ head' = head + 1
        /\ log' = [k \in 0 .. head |-> IF k = head THEN wsample ELSE log[k]]
    BY <1>2, <2>1 DEF PushHead
  <2>4. head > 0 => wsample.stamp >= log[head - 1].stamp
    BY <2>1, <2>2
  <2>5. Abstract!Publish(wsample)
    BY <1>1, <2>3, <2>4 DEF Abstract!Publish
  <2> QED BY <2>1, <2>5 DEF Abstract!LogNext
<1>3. CASE ~PushHead
  <2>1. head' = head /\ log' = log
    BY <1>3 DEF Push, PushBegin, PushOdd, PushStamp, PushWord, PushEven, PushBeat, CrashWriter,
                arena, history
  <2> QED BY <1>1, <2>1 DEF Abstract!logvars
<1> QED BY <1>2, <1>3

\* Steps of the reader.
LEMMA ReaderRefines ==
  ASSUME IInv, IInv', (\E q \in Requests : Invoke(q)) \/ Read
  PROVE  Abstract!LogNext \/ UNCHANGED Abstract!logvars
<1>1. head' = head /\ log' = log
  BY DEF Read, Invoke, LoadHead, LoadOldest, LoadNewest, OutOfRange, NoSegmentInWindow,
         ReadNewest, NewestSegment, StartSearch, ProbeHint, GallopUp, GallopDown, Bisect,
         BracketFound, LoadLower, LoadUpper, LoadSeq, LoadWord, CheckSeq, Revalidate, Return,
         arena, history
<1>2. ASSUME NEW q \in Requests, Invoke(q) PROVE Abstract!LogNext
  <2>1. rpc = "idle" /\ rpc' = "head" /\ req' = q
    BY <1>2 DEF Invoke, Goto
  <2>2. AbstractCall = Idle /\ AbstractCall' = Called(q)
    BY <2>1 DEF AbstractCall
  <2>3. Abstract!Call(q)
    BY <1>1, <2>2, SameTerms DEF Abstract!Call, Idle
  <2> QED BY <2>3 DEF Abstract!LogNext
<1>3. CASE LoadHead
  <2>1. /\ rpc = "head" /\ req' = req /\ h' = head
        /\ IF head = 0 THEN rpc' = "done" /\ res' = Err("NoData") ELSE rpc' = "t_old"
    BY <1>3 DEF LoadHead, Finish, Goto
  <2>2. /\ AbstractCall = Called(req)
        /\ AbstractCall' = IF head = 0 THEN Answered(req, 0, Err("NoData")) ELSE Working(req, head)
    BY <2>1 DEF AbstractCall
  <2>3. Abstract!Take
    BY <1>1, <2>2, SameTerms DEF Abstract!Take, Called
  <2> QED BY <2>3 DEF Abstract!LogNext
<1>4. CASE Return
  <2>1. rpc = "done" /\ rpc' = "idle"
    BY <1>4 DEF Return
  <2>2. AbstractCall = Answered(req, h, res) /\ AbstractCall' = Idle
    BY <2>1 DEF AbstractCall
  <2>3. Abstract!Leave
    BY <1>1, <2>2, SameTerms DEF Abstract!Leave, Answered
  <2> QED BY <2>3 DEF Abstract!LogNext
<1>5. CASE Read /\ ~LoadHead /\ ~Return
  <2>1. /\ rpc \notin {"idle", "head", "done"} /\ req' = req /\ h' = h
        /\ \/ rpc' \notin {"idle", "head", "done"}
           \/ rpc' = "done" /\ (Ok(res') \/ res'.status \in Abstract!Interrupted)
    <3>1. CASE OutOfRange \/ NoSegmentInWindow \/ Revalidate
      BY <3>1 DEF OutOfRange, NoSegmentInWindow, Revalidate, Finish, Ok, Err, Extrapolation,
                  Outcome, Exact, Between, window, Abstract!Interrupted
    <3>2. CASE LoadUpper \/ LoadSeq \/ CheckSeq
      BY <3>2 DEF LoadUpper, LoadSeq, CheckSeq, Retry, Finish, Goto, Err, window,
                  Abstract!Interrupted
    <3>3. CASE \/ LoadOldest \/ LoadNewest \/ ReadNewest \/ NewestSegment \/ StartSearch
               \/ LoadLower \/ \E w \in Words : LoadWord(w)
      BY <3>3 DEF LoadOldest, LoadNewest, ReadNewest, NewestSegment, StartSearch, LoadLower,
                  LoadWord, Goto, window
    <3>4. CASE ProbeHint \/ GallopUp \/ GallopDown \/ Bisect \/ BracketFound
      BY <3>4 DEF ProbeHint, GallopUp, GallopDown, Bisect, BracketFound, Narrow, Goto, window
    <3> QED BY <1>5, <3>1, <3>2, <3>3, <3>4 DEF Read
  <2>2. AbstractCall = Working(req, h)
    BY <2>1 DEF AbstractCall
  <2>3. CASE rpc' \notin {"idle", "head", "done"}
    <3>1. AbstractCall' = AbstractCall
      BY <2>1, <2>2, <2>3 DEF AbstractCall
    <3> QED BY <1>1, <3>1 DEF Abstract!logvars
  <2>4. CASE rpc' = "done" /\ (Ok(res') \/ res'.status \in Abstract!Interrupted)
    <3>1. AbstractCall' = Answered(req, h, res')
      BY <2>1, <2>4 DEF AbstractCall
    <3>2. h <= head /\ h \in Nat /\ head \in Nat
      BY <2>1, ReaderTypes DEF IInv, ReaderInv, WindowInv
    <3>3. \/ Answers(log, req, h, res')
          \/ head > h /\ res'.status \in Abstract!Interrupted
      <4>1. Ok(res') \/ head = h => Answers(log, req, h, res')
        BY <1>1, <2>1, <2>4 DEF IInv, ReaderInv, DoneInv, Ok
      <4> QED BY <2>4, <3>2, <4>1
    <3>4. Abstract!Answer
      BY <1>1, <2>2, <3>1, <3>3, SameTerms DEF Abstract!Answer, Working, Answered
    <3> QED BY <3>4 DEF Abstract!LogNext
  <2> QED BY <2>1, <2>3, <2>4
<1> QED BY <1>2, <1>3, <1>4, <1>5

\* The ring implements the log: every behaviour of push and of the lookups is,
\* seen through the refinement mapping, one of atomic appends and atomic
\* lookups.
THEOREM RingImplementsLog == Spec => ImplementsLog
<1>1. Init => Abstract!LogInit
  BY SameTerms DEF Init, Abstract!LogInit, AbstractCall
<1>2. IInv /\ IInv' /\ [Next]_vars => [Abstract!LogNext]_(Abstract!logvars)
  <2> SUFFICES ASSUME IInv, IInv', [Next]_vars
               PROVE  Abstract!LogNext \/ UNCHANGED Abstract!logvars
    OBVIOUS
  <2>1. CASE Push \/ CrashWriter
    BY <2>1, WriterRefines
  <2>2. CASE (\E q \in Requests : Invoke(q)) \/ Read
    BY <2>2, ReaderRefines
  <2>3. CASE UNCHANGED vars
    <3>1. head' = head /\ log' = log /\ rpc' = rpc /\ req' = req /\ h' = h /\ res' = res
      BY <2>3 DEF vars, arena, reader, window, history
    <3>2. AbstractCall' = AbstractCall
      BY <3>1 DEF AbstractCall
    <3> QED BY <3>1, <3>2 DEF Abstract!logvars
  <2> QED BY <2>1, <2>2, <2>3 DEF Next
<1> QED BY <1>1, <1>2, IInvHolds, PTL DEF Spec, ImplementsLog, Abstract!LogSpec
===============================================================================

--------------------------- MODULE KeyRingProofs ---------------------------
(***************************************************************************)
(* Proofs about the scancode ring, for every capacity and every set of     *)
(* bytes.  Indices are compared modulo RING_CAP, so the first lemmas turn  *)
(* the remainders that occur into linear arithmetic.                       *)
(***************************************************************************)
EXTENDS KeyRing, SequenceTheorems, TLAPS

\* The remainders of the model's index arithmetic: an index that is at most one
\* lap off is brought back by one addition or subtraction of RING_CAP.
LEMMA Remainder ==
  /\ \A x \in 0 .. RING_CAP - 1 : x % RING_CAP = x
  /\ \A x \in RING_CAP .. 2 * RING_CAP - 1 : x % RING_CAP = x - RING_CAP
  /\ \A x \in -RING_CAP .. -1 : x % RING_CAP = x + RING_CAP
  BY RingAssumption

\* next_slot of ring_push and ring_pop, without the remainder.
LEMMA NextSlot ==
  \A i \in Slots : /\ next_slot(i) \in Slots
                   /\ next_slot(i) = IF i = RING_CAP - 1 THEN 0 ELSE i + 1
  BY Remainder, RingAssumption DEF Slots, next_slot

\* What pending() computes is the number of live slots.
LEMMA DistanceIsCount ==
  \A h, t \in Slots : /\ distance(h, t) = (h - t) % RING_CAP
                      /\ distance(h, t) \in 0 .. RING_CAP - 1
  BY Remainder, RingAssumption DEF Slots, distance

\* Advancing HEAD adds one live slot unless the ring is full; advancing TAIL
\* removes one unless it is empty.
LEMMA DistanceGrows ==
  ASSUME NEW h \in Slots, NEW t \in Slots, next_slot(h) # t
  PROVE  distance(next_slot(h), t) = distance(h, t) + 1
<1>1. next_slot(h) = IF h = RING_CAP - 1 THEN 0 ELSE h + 1
  BY NextSlot
<1>2. h \in Int /\ t \in Int /\ RING_CAP \in Int /\ RING_CAP >= 2 /\ 0 <= h /\ 0 <= t
      /\ h <= RING_CAP - 1 /\ t <= RING_CAP - 1
  BY RingAssumption DEF Slots
<1>. QED  BY <1>1, <1>2 DEF distance

LEMMA DistanceShrinks ==
  ASSUME NEW h \in Slots, NEW t \in Slots, h # t
  PROVE  distance(h, next_slot(t)) = distance(h, t) - 1
<1>1. next_slot(t) = IF t = RING_CAP - 1 THEN 0 ELSE t + 1
  BY NextSlot
<1>2. h \in Int /\ t \in Int /\ RING_CAP \in Int /\ RING_CAP >= 2 /\ 0 <= h /\ 0 <= t
      /\ h <= RING_CAP - 1 /\ t <= RING_CAP - 1
  BY RingAssumption DEF Slots
<1>. QED  BY <1>1, <1>2 DEF distance

-----------------------------------------------------------------------------
\* The producer's copy of HEAD is current from its load to its publication, and
\* a slot it found free stays free, because only the consumer moves TAIL, away
\* from HEAD.  Its byte is in the cell before HEAD moves.
Producer ==
  /\ prod.pc \in {"loaded", "store", "publish"} => prod.head = HEAD
  /\ prod.pc \in {"store", "publish"} => next_slot(HEAD) # TAIL
  /\ prod.pc = "publish" => RING[HEAD] = prod.byte

\* Symmetrically for the consumer: a byte it found stays where it is until the
\* consumer itself moves TAIL.
Consumer ==
  /\ cons.pc \in {"loaded", "read", "publish"} => cons.tail = TAIL
  /\ cons.pc \in {"read", "publish"} => TAIL # HEAD
  /\ cons.pc = "publish" => cons.byte = RING[TAIL]

IInv == TypeOK /\ Producer /\ Consumer /\ PendingNeverOverstates

LEMMA InitEstablishesIInv == Init => IInv
<1> SUFFICES ASSUME Init PROVE IInv
  OBVIOUS
<1>1. 0 \in Slots /\ 0 \in 0 .. COUNT_MODULUS - 1 /\ 0 \in 0 .. RING_CAP - 1
  BY RingAssumption DEF Slots
<1>2. TypeOK
  BY <1>1 DEF Init, TypeOK
<1>. QED  BY <1>2 DEF Init, IInv, Producer, Consumer, PendingNeverOverstates

\* An increment of DROPPED wraps inside its width.
LEMMA CountWraps ==
  \A x \in 0 .. COUNT_MODULUS - 1 : (x + 1) % COUNT_MODULUS \in 0 .. COUNT_MODULUS - 1
  BY RingAssumption

\* ring_push keeps the invariant.
LEMMA PushStep == IInv /\ ring_push => IInv'
<1> SUFFICES ASSUME IInv, ring_push PROVE IInv'
  OBVIOUS
<1> USE DEF IInv
<1>1. ASSUME NEW b \in Byte, push_load_head(b) PROVE IInv'
  <2>1. TypeOK'
    BY <1>1 DEF push_load_head, TypeOK
  <2>. QED  BY <2>1, <1>1 DEF push_load_head, TypeOK, Producer, Consumer,
                PendingNeverOverstates, distance, Count
<1>2. CASE push_load_tail
  <2>1. TypeOK'
    BY <1>2 DEF push_load_tail, TypeOK
  <2>. QED  BY <2>1, <1>2 DEF push_load_tail, TypeOK, Producer, Consumer,
                PendingNeverOverstates, distance, Count, is_full
<1>3. CASE push_drop
  <2>1. TypeOK'
    BY <1>3, CountWraps DEF push_drop, TypeOK
  <2>. QED  BY <2>1, <1>3 DEF push_drop, TypeOK, Producer, Consumer,
                PendingNeverOverstates, distance, Count
<1>4. CASE push_store_cell
  <2>1. TypeOK'
    BY <1>4 DEF push_store_cell, TypeOK
  <2>2. Producer'
    BY <1>4 DEF push_store_cell, TypeOK, Producer
  <2>3. Consumer'
    BY <1>4 DEF push_store_cell, TypeOK, Producer, Consumer
  <2>. QED  BY <2>1, <2>2, <2>3, <1>4 DEF push_store_cell, PendingNeverOverstates, distance, Count
<1>5. CASE push_store_head
  <2>1. TypeOK' /\ HEAD' = next_slot(HEAD) /\ TAIL' = TAIL /\ cons' = cons
    BY <1>5, NextSlot DEF push_store_head, TypeOK, Producer
  <2>2. Producer'
    BY <1>5 DEF push_store_head, TypeOK, Producer
  <2>3. Consumer'
    BY <1>5, <2>1 DEF push_store_head, TypeOK, Producer, Consumer
  <2>4. distance(HEAD', TAIL) = distance(HEAD, TAIL) + 1
    BY <1>5, <2>1, DistanceGrows DEF push_store_head, TypeOK, Producer
  <2>5. /\ Count = distance(HEAD, TAIL) /\ Count' = distance(HEAD', TAIL')
        /\ Count \in Int /\ Count' \in Int
    BY <2>1, DistanceIsCount DEF TypeOK, Count
  <2>6. cons.pc = "count" => distance(cons.head, TAIL) \in Int
    BY DistanceIsCount DEF TypeOK
  <2>7. PendingNeverOverstates'
    BY <2>1, <2>4, <2>5, <2>6 DEF PendingNeverOverstates, distance
  <2>. QED  BY <2>1, <2>2, <2>3, <2>7
<1>. QED  BY <1>1, <1>2, <1>3, <1>4, <1>5 DEF ring_push

\* ring_pop keeps the invariant.
LEMMA PopStep == IInv /\ ring_pop => IInv'
<1> SUFFICES ASSUME IInv, ring_pop PROVE IInv'
  OBVIOUS
<1> USE DEF IInv
<1>1. CASE pop_load_tail
  <2>1. TypeOK'
    BY <1>1 DEF pop_load_tail, TypeOK
  <2>. QED  BY <2>1, <1>1 DEF pop_load_tail, TypeOK, Producer, Consumer, PendingNeverOverstates
<1>2. CASE pop_load_head
  <2>1. TypeOK'
    BY <1>2 DEF pop_load_head, TypeOK
  <2>. QED  BY <2>1, <1>2 DEF pop_load_head, TypeOK, Producer, Consumer, PendingNeverOverstates
<1>3. CASE pop_load_cell
  <2>1. TypeOK'
    BY <1>3 DEF pop_load_cell, TypeOK, Consumer
  <2>. QED  BY <2>1, <1>3 DEF pop_load_cell, TypeOK, Producer, Consumer, PendingNeverOverstates
<1>4. CASE pop_store_tail
  <2>1. TypeOK' /\ TAIL' = next_slot(TAIL) /\ HEAD' = HEAD /\ prod' = prod /\ RING' = RING
    BY <1>4, NextSlot DEF pop_store_tail, TypeOK, Consumer
  <2>2. TAIL # HEAD /\ TAIL \in Slots /\ HEAD \in Slots
    BY <1>4 DEF pop_store_tail, TypeOK, Consumer
  <2>3. next_slot(TAIL) # next_slot(HEAD)
    BY <2>2, NextSlot, RingAssumption DEF Slots
  <2>4. Producer'
    BY <2>1, <2>3 DEF Producer
  <2>. QED  BY <2>1, <2>4, <1>4 DEF pop_store_tail, TypeOK, Consumer, PendingNeverOverstates
<1>. QED  BY <1>1, <1>2, <1>3, <1>4 DEF ring_pop

\* pending keeps the invariant: what it counted is what the ring held then.
LEMMA PendingStep == IInv /\ pending => IInv'
<1> SUFFICES ASSUME IInv, pending PROVE IInv'
  OBVIOUS
<1> USE DEF IInv
<1>1. CASE pending_load_head
  <2>1. TypeOK'
    BY <1>1 DEF pending_load_head, TypeOK
  <2>2. distance(HEAD, TAIL) = Count /\ Count \in Int
    BY DistanceIsCount DEF TypeOK, Count
  <2>3. cons'.head = HEAD /\ TAIL' = TAIL /\ HEAD' = HEAD
    BY <1>1 DEF pending_load_head, TypeOK
  <2>4. PendingNeverOverstates'
    BY <2>2, <2>3 DEF PendingNeverOverstates, Count
  <2>. QED  BY <2>1, <2>4, <1>1 DEF pending_load_head, TypeOK, Producer, Consumer
<1>2. CASE pending_load_tail
  <2>1. counted' \in 0 .. RING_CAP - 1
    BY <1>2, DistanceIsCount DEF pending_load_tail, TypeOK
  <2>2. TypeOK'
    BY <1>2, <2>1 DEF pending_load_tail, TypeOK
  <2>. QED  BY <2>2, <1>2 DEF pending_load_tail, TypeOK, Producer, Consumer, PendingNeverOverstates
<1>. QED  BY <1>1, <1>2 DEF pending

LEMMA NextPreservesIInv == IInv /\ [Next]_ringVars => IInv'
<1> SUFFICES ASSUME IInv, [Next]_ringVars PROVE IInv'
  OBVIOUS
<1>1. CASE UNCHANGED ringVars
  <2>1. TypeOK'
    BY <1>1 DEF IInv, TypeOK, ringVars
  <2>. QED  BY <2>1, <1>1 DEF IInv, ringVars, Producer, Consumer, PendingNeverOverstates, Count
<1>. QED  BY <1>1, PushStep, PopStep, PendingStep DEF Next

\* The inductive invariant holds throughout.
THEOREM RingInvariant == Spec => []IInv
  BY InitEstablishesIInv, NextPreservesIInv, PTL DEF Spec

\* No index of ring_push or ring_pop ever leaves the ring.
THEOREM RingTypeCorrect == Spec => []TypeOK
<1>1. IInv => TypeOK
  BY DEF IInv
<1>. QED  BY <1>1, RingInvariant, PTL

\* ring_push only ever overwrites a slot that holds no unread byte.
THEOREM NoUnreadByteIsOverwritten == Spec => []StoreHitsAFreeSlot
<1>1. IInv => StoreHitsAFreeSlot
  BY DEF IInv, Producer, StoreHitsAFreeSlot
<1>. QED  BY <1>1, RingInvariant, PTL

\* pending() never reports more bytes than the ring holds.
THEOREM PendingIsALowerBound == Spec => []PendingNeverOverstates
<1>1. IInv => PendingNeverOverstates
  BY DEF IInv
<1>. QED  BY <1>1, RingInvariant, PTL

-----------------------------------------------------------------------------
\* The live slots: the i-th byte of the queue is in a slot of the ring, which is
\* not the one HEAD points at, and moving TAIL shifts the queue by one.
LEMMA LiveSlot ==
  ASSUME NEW h \in Slots, NEW t \in Slots, NEW i \in 1 .. distance(h, t)
  PROVE  (t + i - 1) % RING_CAP \in Slots /\ (t + i - 1) % RING_CAP # h
<1>1. /\ h \in Int /\ t \in Int /\ RING_CAP \in Int /\ 0 <= h /\ 0 <= t
      /\ h <= RING_CAP - 1 /\ t <= RING_CAP - 1
  BY RingAssumption DEF Slots
<1>2. i \in Int /\ 1 <= i /\ i <= distance(h, t) /\ distance(h, t) \in Int
  BY DistanceIsCount
<1>3. i <= (IF h >= t THEN h - t ELSE RING_CAP - t + h)
  BY <1>2 DEF distance
<1>4. t + i - 1 \in 0 .. RING_CAP - 1 \/ t + i - 1 \in RING_CAP .. 2 * RING_CAP - 1
  BY <1>1, <1>2, <1>3
<1>5. (t + i - 1) % RING_CAP = IF t + i - 1 < RING_CAP THEN t + i - 1 ELSE t + i - 1 - RING_CAP
  BY <1>1, <1>2, <1>4, Remainder
<1>. QED  BY <1>1, <1>2, <1>3, <1>5 DEF Slots

\* The queue after a full count ends at HEAD.
LEMMA EndOfQueue ==
  ASSUME NEW h \in Slots, NEW t \in Slots
  PROVE  (t + (distance(h, t) + 1) - 1) % RING_CAP = h
<1>1. /\ h \in Int /\ t \in Int /\ RING_CAP \in Int /\ 0 <= h /\ 0 <= t
      /\ h <= RING_CAP - 1 /\ t <= RING_CAP - 1
  BY RingAssumption DEF Slots
<1>2. distance(h, t) = IF h >= t THEN h - t ELSE RING_CAP - t + h
  BY DEF distance
<1>3. t + (distance(h, t) + 1) - 1 = IF h >= t THEN h ELSE RING_CAP + h
  BY <1>1, <1>2
<1>. QED  BY <1>1, <1>3, Remainder

LEMMA ShiftedSlot ==
  ASSUME NEW t \in Slots, NEW i \in 1 .. RING_CAP - 1
  PROVE  (next_slot(t) + i - 1) % RING_CAP = (t + (i + 1) - 1) % RING_CAP
<1>1. /\ t \in Int /\ RING_CAP \in Int /\ 0 <= t /\ t <= RING_CAP - 1 /\ 2 <= RING_CAP
      /\ i \in Int /\ 1 <= i /\ i <= RING_CAP - 1
  BY RingAssumption DEF Slots
<1>2. next_slot(t) = IF t = RING_CAP - 1 THEN 0 ELSE t + 1
  BY NextSlot
<1>3. CASE t = RING_CAP - 1
  <2>1. (next_slot(t) + i - 1) % RING_CAP = i - 1
    BY <1>1, <1>2, <1>3, Remainder
  <2>2. (t + (i + 1) - 1) % RING_CAP = i - 1
    BY <1>1, <1>3, Remainder
  <2>. QED  BY <2>1, <2>2
<1>4. CASE t # RING_CAP - 1
  <2>1. next_slot(t) + i - 1 = t + (i + 1) - 1
    BY <1>1, <1>2, <1>4
  <2>. QED  BY <2>1
<1>. QED  BY <1>3, <1>4

\* The queue is a sequence of bytes, as long as the count.
LEMMA QueueIsSequence ==
  ASSUME TypeOK
  PROVE  /\ Count = distance(HEAD, TAIL)
         /\ Count \in 0 .. RING_CAP - 1
         /\ Queue \in Seq(Byte)
         /\ Len(Queue) = Count
<1>1. Count = distance(HEAD, TAIL) /\ Count \in 0 .. RING_CAP - 1
  BY DistanceIsCount DEF TypeOK, Count
<1>2. \A i \in 1 .. Count : RING[(TAIL + i - 1) % RING_CAP] \in Byte
  BY <1>1, LiveSlot DEF TypeOK
<1>3. Count \in Nat
  BY <1>1, RingAssumption
<1>4. Queue \in Seq(Byte) /\ Len(Queue) = Count
  <2> HIDE DEF Count
  <2>. QED  BY <1>2, <1>3 DEF Queue
<1>. QED  BY <1>1, <1>4

\* push_store_cell writes outside the queue.
LEMMA StoreKeepsQueue == IInv /\ push_store_cell => Queue' = Queue
<1> SUFFICES ASSUME IInv, push_store_cell PROVE Queue' = Queue
  OBVIOUS
<1>1. TypeOK /\ prod.head = HEAD /\ HEAD' = HEAD /\ TAIL' = TAIL
  BY DEF IInv, Producer, push_store_cell
<1>2. Count' = Count /\ Count = distance(HEAD, TAIL)
  BY <1>1, QueueIsSequence DEF Count
<1>3. \A i \in 1 .. Count : RING'[(TAIL + i - 1) % RING_CAP] = RING[(TAIL + i - 1) % RING_CAP]
  <2> TAKE i \in 1 .. Count
  <2>1. (TAIL + i - 1) % RING_CAP \in Slots /\ (TAIL + i - 1) % RING_CAP # HEAD
    BY <1>1, <1>2, LiveSlot DEF TypeOK
  <2>. QED  BY <2>1, <1>1 DEF TypeOK, push_store_cell
<1>. QED  BY <1>1, <1>2, <1>3 DEF Queue

\* push_store_head appends the byte that was stored.
LEMMA PublishAppends ==
  IInv /\ push_store_head => /\ Count < RING_CAP - 1
                             /\ Queue' = Append(Queue, prod.byte)
<1> SUFFICES ASSUME IInv, push_store_head
             PROVE  Count < RING_CAP - 1 /\ Queue' = Append(Queue, prod.byte)
  OBVIOUS
<1>1. /\ TypeOK /\ TypeOK' /\ HEAD \in Slots /\ TAIL \in Slots
      /\ HEAD' = next_slot(HEAD) /\ TAIL' = TAIL /\ RING' = RING
      /\ next_slot(HEAD) # TAIL /\ RING[HEAD] = prod.byte
  BY PushStep DEF IInv, TypeOK, Producer, push_store_head, ring_push
<1>2. Count = distance(HEAD, TAIL) /\ Count \in 0 .. RING_CAP - 1 /\ Queue \in Seq(Byte)
      /\ Len(Queue) = Count
  BY <1>1, QueueIsSequence
<1>3. Count' = distance(HEAD', TAIL') /\ Count' \in 0 .. RING_CAP - 1
  BY <1>1, DistanceIsCount DEF Count, TypeOK
<1>4. Count' = Count + 1
  BY <1>1, <1>2, <1>3, DistanceGrows
<1>5. RING[(TAIL + (Count + 1) - 1) % RING_CAP] = prod.byte
  BY <1>1, <1>2, EndOfQueue
<1>6. Count \in Nat /\ Count < RING_CAP - 1
  BY <1>2, <1>3, <1>4, RingAssumption
<1>7. Queue' = [i \in 1 .. Count + 1 |-> RING[(TAIL + i - 1) % RING_CAP]]
  BY <1>1, <1>4 DEF Queue
<1> HIDE DEF Count
<1>8. Append(Queue, prod.byte) = [i \in 1 .. Count + 1 |-> IF i = Count + 1 THEN prod.byte ELSE Queue[i]]
  BY <1>2, <1>6
<1>9. \A i \in 1 .. Count : Queue[i] = RING[(TAIL + i - 1) % RING_CAP]
  BY DEF Queue
<1>10. \A i \in 1 .. Count + 1 : i = Count + 1 \/ i \in 1 .. Count
  BY <1>6
<1>. QED  BY <1>5, <1>6, <1>7, <1>8, <1>9, <1>10

\* pop_store_tail removes the oldest byte and answers with it.
LEMMA PopTakesHead ==
  IInv /\ pop_store_tail => /\ Queue # <<>>
                            /\ popped' = Head(Queue)
                            /\ Queue' = Tail(Queue)
<1> SUFFICES ASSUME IInv, pop_store_tail
             PROVE  Queue # <<>> /\ popped' = Head(Queue) /\ Queue' = Tail(Queue)
  OBVIOUS
<1>1. /\ TypeOK /\ TypeOK' /\ HEAD \in Slots /\ TAIL \in Slots
      /\ TAIL' = next_slot(TAIL) /\ HEAD' = HEAD /\ RING' = RING
      /\ TAIL # HEAD /\ popped' = RING[TAIL]
  BY PopStep DEF IInv, TypeOK, Consumer, pop_store_tail, ring_pop
<1>2. Count = distance(HEAD, TAIL) /\ Count \in 0 .. RING_CAP - 1 /\ Queue \in Seq(Byte)
      /\ Len(Queue) = Count
  BY <1>1, QueueIsSequence
<1>3. Count' = distance(HEAD', TAIL') /\ Count' \in 0 .. RING_CAP - 1
  BY <1>1, DistanceIsCount DEF Count, TypeOK
<1>4. Count' = Count - 1
  BY <1>1, <1>2, <1>3, DistanceShrinks
<1>5. Count \in Nat /\ Count >= 1 /\ Count <= RING_CAP - 1
  BY <1>2, <1>3, <1>4, RingAssumption
<1>6. (TAIL + 1 - 1) % RING_CAP = TAIL
  BY <1>1, Remainder, RingAssumption DEF Slots
<1>7. Queue' = [i \in 1 .. Count - 1 |-> RING[(next_slot(TAIL) + i - 1) % RING_CAP]]
  BY <1>1, <1>4 DEF Queue
<1>8. \A i \in 1 .. Count - 1 : i \in 1 .. RING_CAP - 1 /\ i + 1 \in 1 .. Count
  BY <1>5, RingAssumption
<1>9. \A i \in 1 .. Count - 1 :
        (next_slot(TAIL) + i - 1) % RING_CAP = (TAIL + (i + 1) - 1) % RING_CAP
  BY <1>1, <1>8, ShiftedSlot
<1> HIDE DEF Count
<1>10. \A i \in 1 .. Count : Queue[i] = RING[(TAIL + i - 1) % RING_CAP]
  BY DEF Queue
<1>11. \A i \in 1 .. Count - 1 : Queue[i + 1] = RING[(TAIL + (i + 1) - 1) % RING_CAP]
  BY <1>8, <1>10
<1>12. Queue # <<>> /\ Head(Queue) = Queue[1]
  BY <1>2, <1>5
<1>13. /\ Tail(Queue) \in Seq(Byte) /\ Len(Tail(Queue)) = Count - 1
       /\ \A i \in 1 .. Count - 1 : Tail(Queue)[i] = Queue[i + 1]
  BY <1>2, <1>12, HeadTailProperties
<1>14. \A i \in 1 .. Count - 1 : Queue'[i] = Tail(Queue)[i] /\ Tail(Queue)[i] \in Byte
  BY <1>5, <1>7, <1>9, <1>11, <1>13
<1>15. Queue' = Tail(Queue)
  <2>1. Count - 1 \in Nat
    BY <1>5
  <2>2. \A i \in 1 .. Count - 1 : RING[(next_slot(TAIL) + i - 1) % RING_CAP] \in Byte
    BY <1>9, <1>11, <1>13, <1>14
  <2>3. Queue' \in Seq(Byte) /\ Len(Queue') = Count - 1
    <3> DEFINE n == Count - 1
    <3>1. n \in Nat /\ \A i \in 1 .. n : RING[(next_slot(TAIL) + i - 1) % RING_CAP] \in Byte
      BY <2>1, <2>2
    <3>2. Queue' = [i \in 1 .. n |-> RING[(next_slot(TAIL) + i - 1) % RING_CAP]]
      BY <1>7
    <3> HIDE DEF n
    <3>3. Queue' \in Seq(Byte) /\ Len(Queue') = n
      BY <3>1, <3>2
    <3>. QED  BY <3>3 DEF n
  <2>. QED  BY <1>13, <1>14, <2>3, SeqEqual
<1>16. Queue[1] = RING[TAIL]
  BY <1>5, <1>6, <1>10
<1>. QED  BY <1>1, <1>12, <1>15, <1>16

LEMMA QueueUnchanged ==
  ASSUME RING' = RING, HEAD' = HEAD, TAIL' = TAIL
  PROVE  Queue' = Queue
BY DEF Queue, Count

\* Every step of the ring is a step of the queue, or leaves it as it is.
LEMMA StepsImplement == IInv /\ [Next]_ringVars => [Fifo!FNext]_(Fifo!fvars)
<1> SUFFICES ASSUME IInv, [Next]_ringVars PROVE [Fifo!FNext]_(Fifo!fvars)
  OBVIOUS
<1> DEFINE Same == Queue' = Queue /\ Decided' = Decided /\ popped' = popped
<1>0. Same => [Fifo!FNext]_(Fifo!fvars)
  BY DEF Fifo!fvars
<1>1. ASSUME NEW b \in Byte, push_load_head(b) PROVE Same
  BY <1>1, QueueUnchanged DEF push_load_head, Decided
<1>2. ASSUME push_load_tail PROVE Same \/ Fifo!Drop
  <2>1. RING' = RING /\ HEAD' = HEAD /\ TAIL' = TAIL /\ popped' = popped /\ DROPPED' = DROPPED
        /\ Queue' = Queue
    BY <1>2, QueueUnchanged DEF push_load_tail
  <2>2. CASE ~is_full(prod.head, TAIL)
    BY <1>2, <2>1, <2>2 DEF push_load_tail, Decided, IInv, TypeOK
  <2>3. CASE is_full(prod.head, TAIL)
    <3>1. prod.head = HEAD /\ prod.pc = "loaded" /\ prod'.pc = "drop"
      BY <1>2, <2>3 DEF push_load_tail, IInv, TypeOK, Producer
    <3>2. Decided = DROPPED /\ Decided' = (DROPPED + 1) % COUNT_MODULUS
      BY <3>1, <2>1 DEF Decided
    <3>3. next_slot(HEAD) = TAIL /\ HEAD \in Slots /\ TAIL \in Slots
      BY <3>1, <2>3 DEF is_full, IInv, TypeOK
    <3>4. distance(HEAD, TAIL) = RING_CAP - 1
      BY <3>3, NextSlot, RingAssumption DEF distance, Slots
    <3>5. Len(Queue) = RING_CAP - 1
      BY <3>4, QueueIsSequence DEF IInv
    <3>. QED  BY <2>1, <3>2, <3>5 DEF Fifo!Drop
  <2>. QED  BY <2>2, <2>3
<1>3. ASSUME push_drop PROVE Same
  BY <1>3, QueueUnchanged DEF push_drop, Decided, IInv, TypeOK
<1>4. ASSUME push_store_cell PROVE Same
  BY <1>4, StoreKeepsQueue DEF push_store_cell, Decided, IInv, TypeOK
<1>5. ASSUME push_store_head PROVE \E b \in Byte : Fifo!Accept(b)
  <2>1. Count < RING_CAP - 1 /\ Queue' = Append(Queue, prod.byte) /\ Len(Queue) = Count
    BY <1>5, PublishAppends, QueueIsSequence DEF IInv
  <2>2. prod.byte \in Byte /\ Decided' = Decided /\ popped' = popped
    BY <1>5 DEF push_store_head, Decided, IInv, TypeOK
  <2>. QED  BY <2>1, <2>2 DEF Fifo!Accept
<1>6. ASSUME pop_load_tail PROVE Same
  BY <1>6, QueueUnchanged DEF pop_load_tail, Decided
<1>7. ASSUME pop_load_head PROVE Same \/ Fifo!TakeNothing
  <2>1. Queue' = Queue /\ Decided' = Decided
    BY <1>7, QueueUnchanged DEF pop_load_head, Decided
  <2>2. CASE cons.tail # HEAD
    BY <1>7, <2>1, <2>2 DEF pop_load_head
  <2>3. CASE cons.tail = HEAD
    <3>1. TAIL = HEAD /\ popped' = NoByte /\ HEAD \in Slots
      BY <1>7, <2>3 DEF pop_load_head, IInv, TypeOK, Consumer
    <3>2. distance(HEAD, TAIL) = 0
      BY <3>1, RingAssumption DEF distance, Slots
    <3>3. Queue \in Seq(Byte) /\ Len(Queue) = 0
      BY <3>2, QueueIsSequence DEF IInv
    <3>. QED  BY <2>1, <3>1, <3>3 DEF Fifo!TakeNothing
  <2>. QED  BY <2>2, <2>3
<1>8. ASSUME pop_load_cell PROVE Same
  BY <1>8, QueueUnchanged DEF pop_load_cell, Decided
<1>9. ASSUME pop_store_tail PROVE Fifo!Take
  BY <1>9, PopTakesHead DEF pop_store_tail, Decided, Fifo!Take
<1>10. ASSUME pending_load_head PROVE Same
  BY <1>10, QueueUnchanged DEF pending_load_head, Decided
<1>11. ASSUME pending_load_tail PROVE Same
  BY <1>11, QueueUnchanged DEF pending_load_tail, Decided
<1>12. ASSUME UNCHANGED ringVars PROVE Same
  BY <1>12, QueueUnchanged DEF ringVars, Decided
<1> HIDE DEF Same
<1>. QED
  BY <1>0, <1>1, <1>2, <1>3, <1>4, <1>5, <1>6, <1>7, <1>8, <1>9, <1>10, <1>11, <1>12
     DEF Next, ring_push, ring_pop, pending, Fifo!FNext

LEMMA InitImplements == Init => Fifo!FInit
<1> SUFFICES ASSUME Init PROVE Fifo!FInit
  OBVIOUS
<1>1. TypeOK
  BY InitEstablishesIInv DEF IInv
<1>2. Count = 0
  BY <1>1, QueueIsSequence, RingAssumption DEF Init, distance
<1>3. Queue \in Seq(Byte) /\ Len(Queue) = 0
  BY <1>1, <1>2, QueueIsSequence
<1>. QED  BY <1>3 DEF Init, Decided, Fifo!FInit

\* The ring implements the bounded first-in first-out queue.
THEOREM RingImplementsFifo == Spec => ImplementsFifo
<1>1. Init /\ [][Next]_ringVars => Fifo!FInit /\ [][Fifo!FNext]_(Fifo!fvars)
  BY InitImplements, StepsImplement, InitEstablishesIInv, NextPreservesIInv, PTL
<1>. QED  BY <1>1 DEF Spec, ImplementsFifo, Fifo!FSpec

============================================================================

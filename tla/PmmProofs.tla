----------------------------- MODULE PmmProofs -----------------------------
(***************************************************************************)
(* Proofs about the frame allocator, for every bitmap size, frame size,    *)
(* word size, memory map, set of clients and set of caller mistakes.       *)
(***************************************************************************)
EXTENDS PmmRefinement, FiniteSetTheorems, WellFoundedInduction, TLAPS

----------------------------------------------------------------------------
(* What the searches return. *)

\* A nonempty set of frame indices has a least element.
LEMMA LeastElement ==
  ASSUME NEW S \in SUBSET Nat, S # {}
  PROVE  \E m \in S : \A n \in S : m <= n
<1>1. PICK m \in S : \A n \in S : ~ (<<n, m>> \in OpToRel(<, Nat))
  BY Zenon, NatLessThanWellFounded, WFMin
<1>2. \A n \in S : ~ (n < m)
  BY Zenon, <1>1 DEF OpToRel
<1>. QED  BY <1>2

\* Smallest answers None exactly on the empty set, and a member otherwise.
LEMMA SmallestIsMember ==
  ASSUME NEW S \in SUBSET Nat
  PROVE  /\ Smallest(S) = None <=> S = {}
         /\ S # {} => Smallest(S) \in S
<1>1. CASE S = {}
  BY <1>1 DEF Smallest
<1>2. CASE S # {}
  <2>1. Smallest(S) \in S
    BY Zenon, <1>2, LeastElement DEF Smallest
  <2>2. Smallest(S) \in Nat
    BY Zenon, <2>1
  <2>3. Smallest(S) # None
    BY <2>2 DEF None
  <2>. QED  BY Zenon, <1>2, <2>1, <2>3
<1>. QED  BY <1>1, <1>2

\* Rounding an index down to its bitmap word does not raise it.
LEMMA WordStart ==
  ASSUME NEW i \in Nat
  PROVE  (i \div WORD_BITS) * WORD_BITS <= i
BY SizesAssumption

\* next_free: the answer is a free frame at or after `from`; None means there
\* is none from `from` up to `limit`.
LEMMA NextFreeProperties ==
  ASSUME NEW map \in SUBSET Frames, NEW from \in Nat, NEW limit \in Nat
  PROVE  LET i == next_free(map, from, limit)
         IN  /\ i # None => i \in map /\ i >= from
             /\ i = None => \A j \in map : from <= j => limit <= j
<1> DEFINE C == {i \in map : /\ from < limit
                             /\ i >= from
                             /\ (i \div WORD_BITS) * WORD_BITS < limit}
<1>1. map \subseteq Nat
  BY SizesAssumption DEF Frames
<1>2. next_free(map, from, limit) = Smallest(C)
  BY DEF next_free
<1>3. /\ Smallest(C) = None <=> C = {}
      /\ C # {} => Smallest(C) \in C
  BY Zenon, <1>1, SmallestIsMember
<1>4. ASSUME C = {}, NEW j \in map, from <= j
      PROVE  limit <= j
  <2>1. SUFFICES ASSUME j < limit PROVE FALSE
    BY <1>1
  <2>2. (j \div WORD_BITS) * WORD_BITS <= j
    BY <1>1, WordStart
  <2>3. (j \div WORD_BITS) * WORD_BITS \in Int
    BY <1>1, SizesAssumption
  <2>4. j \in C
    BY <1>1, <1>4, <2>1, <2>2, <2>3
  <2>. QED  BY <1>4, <2>4
<1>. QED  BY <1>2, <1>3, <1>4

\* next_free_run: the answer is an aligned run of free frames below `limit`.
LEMMA NextFreeRunProperties ==
  ASSUME NEW map \in SUBSET Frames, NEW from \in Nat, NEW limit \in Nat,
         NEW count \in Nat, NEW align \in Nat
  PROVE  LET s == next_free_run(map, from, limit, count, align)
         IN  /\ count = 0 => s = from
             /\ count # 0 /\ s # None => /\ s \in Nat
                                         /\ aligned(s, align)
                                         /\ s + count <= limit
                                         /\ s .. (s + count - 1) \subseteq map
<1> DEFINE C == {s \in from .. limit : /\ aligned(s, align)
                                       /\ s + count <= limit
                                       /\ run_is_free(map, s, count)}
<1>1. CASE count = 0
  BY <1>1 DEF next_free_run
<1>2. CASE count # 0
  <2>1. next_free_run(map, from, limit, count, align) = Smallest(C)
    BY <1>2 DEF next_free_run
  <2>2. C \subseteq Nat
    OBVIOUS
  <2>3. /\ Smallest(C) = None <=> C = {}
        /\ C # {} => Smallest(C) \in C
    BY <2>2, SmallestIsMember
  <2>4. \A s \in C : /\ s \in Nat
                     /\ aligned(s, align)
                     /\ s + count <= limit
                     /\ s .. (s + count - 1) \subseteq map
    BY <2>2 DEF run_is_free
  <2> HIDE DEF C
  <2>. QED  BY <1>2, <2>1, <2>3, <2>4
<1>. QED  BY <1>1, <1>2

\* What PmmInner::allocate settles on: None, or `count` consecutive free
\* frames (no frame at all when count is 0).  A single frame is always found
\* when one is free, and a longer run is aligned.
LEMMA FindProperties ==
  ASSUME free \in SUBSET Frames, cursor \in 0 .. MAX_FRAMES,
         NEW count \in Nat, NEW align \in Nat
  PROVE  LET start == find(count, align)
         IN  /\ start # None => /\ start \in 0 .. MAX_FRAMES
                                /\ start + count \in 0 .. MAX_FRAMES
                                /\ start .. (start + count - 1) \subseteq free
             /\ count = 0 => start = cursor
             /\ count = 1 /\ start = None => free = {}
             /\ count > 1 /\ start # None => aligned(start, align)
<1> DEFINE Search(from, limit) == IF count = 1
                                  THEN next_free(free, from, limit)
                                  ELSE next_free_run(free, from, limit, count, align)
           start == find(count, align)
<1>1. /\ MAX_FRAMES \in Nat
      /\ cursor \in Nat
      /\ free \subseteq Nat
      /\ \A i \in free : i < MAX_FRAMES
  BY SizesAssumption DEF Frames
<1>2. Smaller(cursor, MAX_FRAMES) = cursor
  BY <1>1 DEF Smaller
<1>3. start = IF Search(cursor, MAX_FRAMES) = None /\ cursor > 0
              THEN Search(0, cursor) ELSE Search(cursor, MAX_FRAMES)
  BY <1>2 DEF find
<1>4. CASE count = 0
  <2>1. Search(cursor, MAX_FRAMES) = cursor
    BY <1>4 DEF next_free_run
  <2>2. start = cursor
    BY <1>1, <1>3, <2>1 DEF None
  <2>. QED  BY <1>1, <1>4, <2>2
<1>5. CASE count = 1
  <2>1. \A from, limit \in Nat :
          LET i == Search(from, limit)
          IN  /\ i # None => i \in free /\ i >= from
              /\ i = None => \A j \in free : from <= j => limit <= j
    BY <1>5, NextFreeProperties
  <2>2. start # None => start \in free
    BY <1>1, <1>3, <2>1
  <2>3. ASSUME start = None PROVE free = {}
    <3>1. \A j \in free : cursor <= j => MAX_FRAMES <= j
      BY <1>1, <1>3, <2>1, <2>3
    <3>2. \A j \in free : cursor <= j
      <4>1. CASE cursor = 0
        BY <1>1, <4>1
      <4>2. CASE cursor > 0
        <5>1. Search(0, cursor) = None
          BY <1>3, <2>3, <4>2
        <5>. QED  BY <1>1, <2>1, <5>1
      <4>. QED  BY <1>1, <4>1, <4>2
    <3>. QED  BY <1>1, <3>1, <3>2
  <2>4. ASSUME start # None
        PROVE  /\ start \in 0 .. MAX_FRAMES
               /\ start + 1 \in 0 .. MAX_FRAMES
               /\ start .. (start + 1 - 1) \subseteq free
    <3>1. start \in free /\ start \in Nat /\ start < MAX_FRAMES
      BY Zenon, <1>1, <2>2, <2>4
    <3> HIDE DEF start
    <3>2. start .. (start + 1 - 1) = {start}
      BY <3>1
    <3>. QED  BY <1>1, <3>1, <3>2
  <2>. QED  BY <1>5, <2>3, <2>4
<1>6. CASE count > 1
  <2>1. \A from, limit \in Nat :
          LET s == Search(from, limit)
          IN  s # None => /\ s \in Nat
                          /\ aligned(s, align)
                          /\ s + count <= limit
                          /\ s .. (s + count - 1) \subseteq free
    BY <1>6, NextFreeRunProperties
  <2>2. start # None => /\ start \in Nat
                        /\ aligned(start, align)
                        /\ start + count <= MAX_FRAMES
                        /\ start .. (start + count - 1) \subseteq free
    <3>1. CASE Search(cursor, MAX_FRAMES) = None /\ cursor > 0
      BY <1>1, <1>3, <2>1, <3>1
    <3>2. CASE ~ (Search(cursor, MAX_FRAMES) = None /\ cursor > 0)
      BY <1>1, <1>3, <2>1, <3>2
    <3>. QED  BY <3>1, <3>2
  <2>. QED  BY <1>1, <1>6, <2>2
<1>. QED  BY <1>4, <1>5, <1>6

----------------------------------------------------------------------------
(* The inductive invariant. *)

\* The order kmain imposes: nothing is reserved or handed out before the map
\* is read, and the cursor is 0 until the first frame is handed out.
BootOrder ==
  /\ ~initialised => /\ cursor = 0
                     /\ reserved_frames = 0
                     /\ reservedRanges = {}
                     /\ ret = NoRet
  /\ cursor = 0 => Held = {}

IInv == /\ TypeOK
        /\ ExclusiveOwnership
        /\ AccountingExact
        /\ BootOrder

\* Membership in Held.
LEMMA HeldMember == \A f : f \in Held <=> \E c \in Clients : f \in own[c]
BY Zenon DEF Held

LEMMA HeldMemberPrime == \A f : f \in Held' <=> \E c \in Clients : f \in own'[c]
BY Zenon DEF Held

\* Only managed frames are free or held, so both sets are finite.
LEMMA FreeAndHeldFinite ==
  ASSUME TypeOK
  PROVE  /\ IsFiniteSet(free)
         /\ IsFiniteSet(Held)
         /\ Held \subseteq Frames
         /\ Cardinality(free) \in Nat
         /\ Cardinality(Held) \in Nat
<1>1. IsFiniteSet(Frames)
  BY SizesAssumption, FS_Interval DEF Frames
<1>2. Held \subseteq Frames
  BY HeldMember DEF TypeOK
<1>3. IsFiniteSet(free) /\ IsFiniteSet(Held)
  BY <1>1, <1>2, FS_Subset DEF TypeOK
<1>. QED  BY <1>2, <1>3, FS_CardinalityType

\* The initial state.
LEMMA InitEstablishesIInv == Init => IInv
<1> SUFFICES ASSUME Init PROVE IInv
  OBVIOUS
<1>1. Held = {}
  BY HeldMember DEF Init
<1>2. TypeOK
  <2>1. mmap \in Seq(MmapEntry)
    BY InputsAssumption DEF Init
  <2>2. Len(mmap) \in Nat
    BY <2>1
  <2>3. NoRet \in [client : Clients \cup {None}, count : Nat, align : Nat,
                   start : 0 .. MAX_FRAMES \cup {None}]
    BY DEF NoRet
  <2>4. word \in [Frames -> {"data", "canary"}] /\ own \in [Clients -> SUBSET Frames]
    BY DEF Init
  <2>5. entry \in 1 .. (Len(mmap) + 1) /\ cursor \in 0 .. MAX_FRAMES
    BY <2>2, SizesAssumption DEF Init
  <2> HIDE DEF NoRet
  <2>. QED
    BY Zenon, <2>3, <2>4, <2>5 DEF Init, TypeOK, Panics
<1>3. Cardinality({}) = 0
  BY FS_EmptySet
<1>. QED
  BY <1>1, <1>2, <1>3 DEF Init, IInv, ExclusiveOwnership, AccountingExact, BootOrder

\* Steps that leave the allocator's own state alone: panics, callers writing
\* to frames, and stuttering.
LEMMA QuietStep ==
  ASSUME IInv, TypeOK',
         UNCHANGED <<free, cursor, stats, own, ret, reservedRanges>>
  PROVE  IInv'
<1>1. Held' = Held
  BY DEF Held
<1>. QED
  BY <1>1 DEF IInv, ExclusiveOwnership, AccountingExact, BootOrder, stats

LEMMA PanicStep ==
  ASSUME IInv, NEW why \in Panics, Panic(why)
  PROVE  IInv'
<1>1. TypeOK'
  BY DEF IInv, TypeOK, Panic, stats, memory
<1>. QED  BY <1>1, QuietStep DEF Panic

LEMMA WriteStep ==
  ASSUME IInv, NEW f \in Frames, write_frame(f) \/ write_after_free(f)
  PROVE  IInv'
<1>1. TypeOK'
  BY SMTT(30) DEF IInv, TypeOK, write_frame, write_after_free, stats
<1>. QED  BY Zenon, <1>1, QuietStep DEF write_frame, write_after_free

\* pmm::init, one entry: the frames added are managed, were not free, and are
\* counted once.
LEMMA InitEntryStep ==
  ASSUME IInv, init_entry
  PROVE  IInv'
<1> DEFINE e == mmap[entry]
           new == newly_free(e.base, Smaller(SaturatingAdd(e.base, e.length), MAX_PHYS))
<1>1. /\ mmap \in Seq(MmapEntry)
      /\ entry \in 1 .. Len(mmap)
      /\ e \in MmapEntry
  <2>1. mmap \in Seq(MmapEntry)
    BY InputsAssumption DEF IInv, TypeOK
  <2>2. Len(mmap) \in Nat
    BY <2>1
  <2>3. entry \in 1 .. Len(mmap)
    BY <2>2 DEF IInv, TypeOK, init_entry
  <2>. QED  BY <2>1, <2>3
<1>2. entry' \in 1 .. (Len(mmap) + 1)
  BY <1>1 DEF init_entry
<1>3. Held' = Held /\ Held = {}
  BY DEF Held, init_entry, IInv, BootOrder
<1>4. new \subseteq Frames /\ new \cap free = {}
  <2>1. \A a, b \in Nat : free_range(a, b) \subseteq Frames
    BY SizesAssumption DEF free_range, Frames, Smaller, MAX_PHYS
  <2>2. e.base \in Nat /\ Smaller(SaturatingAdd(e.base, e.length), MAX_PHYS) \in Nat
    BY SMTT(30), <1>1, SizesAssumption DEF MmapEntry, Smaller, SaturatingAdd, MAX_PHYS
  <2>. QED  BY <2>1, <2>2 DEF newly_free
<1>5. IsFiniteSet(new) /\ Cardinality(new) \in Nat
  <2>1. IsFiniteSet(Frames)
    BY SizesAssumption, FS_Interval DEF Frames
  <2>2. IsFiniteSet(new)
    BY <1>4, <2>1, FS_Subset
  <2>. QED  BY <2>2, FS_CardinalityType
<1>6. \/ /\ free' = free \cup new
         /\ free_frames' = free_frames + Cardinality(new)
      \/ UNCHANGED <<free, free_frames>>
  BY DEF init_entry, init_available
<1>7. free' \subseteq Frames /\ free_frames' = Cardinality(free')
  <2>1. CASE UNCHANGED <<free, free_frames>>
    BY <2>1 DEF IInv, TypeOK, AccountingExact
  <2>2. CASE free' = free \cup new /\ free_frames' = free_frames + Cardinality(new)
    <3>1. IsFiniteSet(free) /\ Cardinality(free) \in Nat
      BY FreeAndHeldFinite DEF IInv
    <3>2. Cardinality(free \cup new) =
            Cardinality(free) + Cardinality(new) - Cardinality(free \cap new)
      BY <1>5, <3>1, FS_Union
    <3>3. free \cap new = {} /\ Cardinality({}) = 0
      BY <1>4, FS_EmptySet
    <3>4. free_frames = Cardinality(free) /\ free \subseteq Frames
      BY DEF IInv, TypeOK, AccountingExact
    <3>5. Cardinality(free \cup new) = Cardinality(free) + Cardinality(new)
      BY <1>5, <3>1, <3>2, <3>3
    <3>. QED  BY <1>4, <2>2, <3>4, <3>5
  <2>. QED  BY <1>6, <2>1, <2>2
<1>8. free_frames' \in Nat
  BY <1>5, <1>6 DEF IInv, TypeOK
<1>9. bad_frames' \in Nat /\ unmapped_bytes' \in Nat
  <2>1. e.base \in Nat /\ e.length \in Nat /\ MAX_PHYS \in Nat /\ FRAME_SIZE \in Nat \ {0}
    BY <1>1, SizesAssumption DEF MmapEntry, MAX_PHYS
  <2>2. SaturatingAdd(e.base, e.length) \in Nat
    BY <2>1, SizesAssumption DEF SaturatingAdd, Smaller
  <2>3. (e.length \div FRAME_SIZE) \in Nat
    BY <2>1
  <2>4. bad_frames' \in {bad_frames, bad_frames + (e.length \div FRAME_SIZE)}
    BY DEF init_entry
  <2>5. unmapped_bytes' \in Nat
    <3> DEFINE hi == SaturatingAdd(e.base, e.length)
    <3>1. \/ unmapped_bytes' = unmapped_bytes
          \/ unmapped_bytes' = unmapped_bytes + e.length
          \/ hi > MAX_PHYS /\ unmapped_bytes' = unmapped_bytes + (hi - MAX_PHYS)
      BY DEF init_entry, init_available
    <3>2. hi \in Nat /\ unmapped_bytes \in Nat
      BY <2>2 DEF IInv, TypeOK
    <3> HIDE DEF hi, e
    <3>. QED  BY <2>1, <3>1, <3>2
  <2>. QED  BY <2>3, <2>4, <2>5 DEF IInv, TypeOK
<1>10. TypeOK'
  BY <1>2, <1>7, <1>8, <1>9 DEF init_entry, memory, IInv, TypeOK
<1>. QED
  BY <1>3, <1>7, <1>10
     DEF init_entry, IInv, ExclusiveOwnership, AccountingExact, BootOrder

LEMMA InitDoneStep ==
  ASSUME IInv, init_done
  PROVE  IInv'
<1>1. Held' = Held /\ Held = {}
  BY DEF Held, init_done, IInv, BootOrder
<1>2. TypeOK'
  BY DEF init_done, memory, IInv, TypeOK
<1>3. Cardinality({}) = 0
  BY FS_EmptySet
<1>. QED
  BY <1>1, <1>2, <1>3
     DEF init_done, IInv, TypeOK, ExclusiveOwnership, AccountingExact, BootOrder

\* reserve_range: exactly the frames withdrawn move from free to reserved.
LEMMA ReserveRangeStep ==
  ASSUME IInv, NEW r \in BootRanges, reserve_range(r)
  PROVE  IInv'
<1> DEFINE taken == newly_reserved(r[1], r[2])
<1>1. Held' = Held
  BY DEF Held, reserve_range
<1>2. taken \subseteq free
  BY DEF newly_reserved
<1>3. /\ IsFiniteSet(free) /\ Cardinality(free) \in Nat
      /\ IsFiniteSet(Held) /\ Cardinality(Held) \in Nat
  BY FreeAndHeldFinite DEF IInv
<1>4. Cardinality(taken) \in Nat /\ Cardinality(taken) <= Cardinality(free)
  BY <1>2, <1>3, FS_Subset, FS_CardinalityType
<1>5. Cardinality(free \ taken) = Cardinality(free) - Cardinality(taken)
  <2>1. free \cap taken = taken
    BY <1>2
  <2>. QED  BY Zenon, <1>3, <2>1, FS_Difference
<1> HIDE DEF taken
<1>6. /\ free' = free \ taken
      /\ free_frames' = free_frames - Cardinality(taken)
      /\ reserved_frames' = reserved_frames + Cardinality(taken)
      /\ initialised /\ initialised'
      /\ total_frames' = total_frames
  BY DEF reserve_range, taken
<1>7. TypeOK'
  <2>1. free_frames' \in Nat /\ reserved_frames' \in Nat
    <3>1. free_frames = Cardinality(free) /\ reserved_frames \in Nat
      BY DEF IInv, TypeOK, AccountingExact
    <3>. QED  BY <1>3, <1>4, <1>6, <3>1
  <2>2. free' \subseteq Frames /\ reservedRanges' \subseteq BootRanges
    BY <1>6 DEF reserve_range, IInv, TypeOK
  <2>. QED  BY <2>1, <2>2 DEF reserve_range, memory, IInv, TypeOK
<1>8. AccountingExact'
  <2>1. /\ free_frames = Cardinality(free) /\ reserved_frames \in Nat
        /\ total_frames = free_frames + reserved_frames + Cardinality(Held)
    BY <1>6 DEF IInv, TypeOK, AccountingExact
  <2>2. free_frames' = Cardinality(free')
    BY <1>5, <1>6, <2>1
  <2>3. Cardinality(Held') = Cardinality(Held)
    BY Zenon, <1>1
  <2>4. total_frames' = free_frames' + reserved_frames' + Cardinality(Held')
    BY <1>3, <1>4, <1>6, <2>1, <2>3
  <2>. QED  BY <2>2, <2>4 DEF AccountingExact
<1>9. ExclusiveOwnership' /\ BootOrder'
  BY <1>1, <1>6 DEF reserve_range, IInv, ExclusiveOwnership, BootOrder
<1>. QED  BY Zenon, <1>7, <1>8, <1>9 DEF IInv

\* PmmInner::allocate: a run of free frames passes to one client.
LEMMA AllocateStep ==
  ASSUME IInv, NEW c \in Clients, NEW count \in Nat, NEW align \in Nat,
         allocate(c, count, align)
  PROVE  IInv'
<1> DEFINE start == find(count, align)
           run == start .. (start + count - 1)
<1>1. /\ start # None => /\ start \in 0 .. MAX_FRAMES
                         /\ start + count \in 0 .. MAX_FRAMES
                         /\ run \subseteq free
      /\ count = 0 => start = cursor
  BY FindProperties DEF IInv, TypeOK
<1>2. ret' \in [client : Clients \cup {None}, count : Nat, align : Nat,
                start : 0 .. MAX_FRAMES \cup {None}]
  <2>1. start \in 0 .. MAX_FRAMES \cup {None}
    BY <1>1
  <2>2. ret' = [client |-> c, count |-> count, align |-> align, start |-> start]
    BY DEF allocate
  <2> HIDE DEF start
  <2>. QED  BY <2>1, <2>2
<1>3. CASE start = None
  <2>1. UNCHANGED <<free, free_frames, cursor, own>>
    BY <1>3 DEF allocate
  <2>2. Held' = Held
    BY <2>1 DEF Held
  <2>3. TypeOK'
    BY <1>2, <2>1 DEF allocate, memory, IInv, TypeOK
  <2>. QED
    BY <2>1, <2>2, <2>3
       DEF allocate, IInv, ExclusiveOwnership, AccountingExact, BootOrder
<1>4. CASE start # None
  <2>1. /\ free' = free \ run
        /\ free_frames' = free_frames - count
        /\ cursor' = start + count
        /\ own' = [own EXCEPT ![c] = @ \cup run]
    BY <1>4 DEF allocate, cleared
  <2>2. /\ start \in Nat /\ start + count \in 0 .. MAX_FRAMES
        /\ run \subseteq free
        /\ count = 0 => start = cursor
    BY <1>1, <1>4, SizesAssumption
  <2>3. IsFiniteSet(run) /\ Cardinality(run) = count
    <3>1. start + count - 1 \in Int /\ start \in Int
      BY <2>2
    <3>2. \A a, b \in Int : /\ IsFiniteSet(a .. b)
                            /\ Cardinality(a .. b) = IF a > b THEN 0 ELSE b - a + 1
      BY FS_Interval
    <3> HIDE DEF start
    <3>3. /\ IsFiniteSet(run)
          /\ Cardinality(run) = IF start > start + count - 1 THEN 0
                                ELSE (start + count - 1) - start + 1
      BY <3>1, <3>2
    <3>. QED  BY <2>2, <3>3
  <2>4. /\ IsFiniteSet(free) /\ Cardinality(free) \in Nat
        /\ IsFiniteSet(Held) /\ Cardinality(Held) \in Nat
        /\ Held \subseteq Frames
    BY FreeAndHeldFinite DEF IInv
  <2>5. Cardinality(free') = Cardinality(free) - count /\ count <= Cardinality(free)
    <3>1. free \cap run = run
      BY <2>2
    <3>2. Cardinality(free \ run) = Cardinality(free) - Cardinality(run)
      BY Zenon, <2>4, <3>1, FS_Difference
    <3>3. Cardinality(run) <= Cardinality(free)
      BY <2>2, <2>4, FS_Subset
    <3>. QED  BY <2>1, <2>3, <3>2, <3>3
  <2>6. own \in [Clients -> SUBSET Frames] /\ run \subseteq Frames
    BY <2>2 DEF IInv, TypeOK
  <2> HIDE DEF run
  <2>7. /\ own' \in [Clients -> SUBSET Frames]
        /\ \A d \in Clients : own'[d] = IF d = c THEN own[d] \cup run ELSE own[d]
    BY <2>1, <2>6
  <2>8. Held' = Held \cup run
    BY <2>7, HeldMember, HeldMemberPrime
  <2>9. Cardinality(Held') = Cardinality(Held) + count
    <3>1. Cardinality(Held \cap run) = 0
      <4>1. Held \cap run = {}
        BY <2>2 DEF IInv, ExclusiveOwnership
      <4>. QED  BY <4>1, FS_EmptySet
    <3>2. Cardinality(Held \cup run) =
            Cardinality(Held) + Cardinality(run) - Cardinality(Held \cap run)
      BY <2>3, <2>4, FS_Union
    <3>3. Cardinality(Held \cup run) = Cardinality(Held) + count
      BY <2>3, <2>4, <3>1, <3>2
    <3>. QED  BY <2>8, <3>3
  <2>10. free_frames' \in Nat /\ free_frames' = Cardinality(free')
    <3>1. free_frames = Cardinality(free)
      BY DEF IInv, AccountingExact
    <3>. QED  BY <2>1, <2>4, <2>5, <3>1
  <2>11. TypeOK'
    <3>1. free' \subseteq Frames /\ cursor' \in 0 .. MAX_FRAMES
      BY <2>1, <2>2 DEF IInv, TypeOK
    <3>. QED  BY <1>2, <2>7, <2>10, <3>1 DEF allocate, memory, IInv, TypeOK
  <2>12. ExclusiveOwnership'
    BY <2>1, <2>2, <2>7, <2>8, HeldMember DEF IInv, ExclusiveOwnership
  <2>13. AccountingExact'
    <3>1. /\ total_frames' = total_frames
          /\ reserved_frames' = reserved_frames
          /\ initialised' = initialised
          /\ initialised
      BY DEF allocate
    <3>2. /\ free_frames \in Nat /\ total_frames \in Nat /\ reserved_frames \in Nat
          /\ total_frames = free_frames + reserved_frames + Cardinality(Held)
      BY <3>1 DEF IInv, TypeOK, AccountingExact
    <3>3. free_frames' = free_frames - count
      BY <2>1
    <3>. QED  BY <2>4, <2>9, <2>10, <3>1, <3>2, <3>3 DEF AccountingExact
  <2>14. BootOrder'
    <3>1. ASSUME cursor' = 0 PROVE Held' = {}
      <4>1. start = 0 /\ count = 0
        BY <2>1, <2>2, <3>1
      <4>2. run = {} /\ cursor = 0
        BY <2>2, <2>3, <4>1, FS_EmptySet
      <4>. QED  BY <2>8, <4>2 DEF IInv, BootOrder
    <3>. QED  BY <3>1 DEF allocate, BootOrder
  <2>. QED  BY <2>11, <2>12, <2>13, <2>14 DEF IInv
<1>. QED  BY <1>3, <1>4

\* deallocate_frame: the frame leaves its only holder, or the kernel panics.
LEMMA DeallocateStep ==
  ASSUME IInv, NEW f \in 0 .. MAX_FRAMES, deallocate_frame(f)
  PROVE  IInv'
<1>1. CASE \E why \in Panics : Panic(why)
  BY <1>1, PanicStep
<1>2. CASE /\ f \in Frames \ free
           /\ free' = free \cup {f}
           /\ free_frames' = free_frames + 1
           /\ own' = [c \in Clients |-> own[c] \ {f}]
           /\ word' = poison(f)
           /\ freed' = IF Debug THEN freed \cup {f} ELSE freed
           /\ dirty' = dirty \ {f}
           /\ ret' = NoRet
           /\ UNCHANGED <<mmap, entry, cursor, total_frames, reserved_frames, bad_frames,
                          unmapped_bytes, initialised, panic, reservedRanges>>
  <2>1. f \in Held
    <3>1. f # MAX_FRAMES /\ f \notin free
      BY <1>2, SizesAssumption DEF Frames
    <3>. QED  BY Zenon, <3>1 DEF deallocate_frame
  <2>2. own \in [Clients -> SUBSET Frames]
    BY DEF IInv, TypeOK
  <2>3. own' \in [Clients -> SUBSET Frames] /\ \A d \in Clients : own'[d] = own[d] \ {f}
    BY <1>2, <2>2
  <2>4. Held' = Held \ {f}
    BY <2>3, HeldMember, HeldMemberPrime
  <2>5. /\ IsFiniteSet(free) /\ Cardinality(free) \in Nat
        /\ IsFiniteSet(Held) /\ Cardinality(Held) \in Nat
    BY FreeAndHeldFinite DEF IInv
  <2>6. Cardinality(free') = Cardinality(free) + 1
    BY Zenon, <1>2, <2>5, FS_AddElement
  <2>7. Cardinality(Held') = Cardinality(Held) - 1
    BY Zenon, <2>1, <2>4, <2>5, FS_RemoveElement
  <2>8. TypeOK'
    <3>1. word' \in [Frames -> {"data", "canary"}]
      BY <1>2 DEF poison, IInv, TypeOK
    <3>2. NoRet \in [client : Clients \cup {None}, count : Nat, align : Nat,
                     start : 0 .. MAX_FRAMES \cup {None}]
      BY DEF NoRet
    <3>3. free' \subseteq Frames /\ freed' \subseteq Frames /\ dirty' \subseteq Frames
      BY <1>2 DEF IInv, TypeOK
    <3>4. free_frames' \in Nat
      BY <1>2 DEF IInv, TypeOK
    <3>. QED  BY <1>2, <2>3, <3>1, <3>2, <3>3, <3>4 DEF IInv, TypeOK
  <2>9. ExclusiveOwnership'
    BY <1>2, <2>3, <2>4 DEF IInv, ExclusiveOwnership
  <2>10. AccountingExact'
    <3>1. /\ free_frames \in Nat /\ total_frames \in Nat /\ reserved_frames \in Nat
          /\ free_frames = Cardinality(free)
          /\ initialised => total_frames = free_frames + reserved_frames + Cardinality(Held)
      BY DEF IInv, TypeOK, AccountingExact
    <3>. QED  BY <1>2, <2>5, <2>6, <2>7, <3>1 DEF AccountingExact
  <2>11. BootOrder'
    BY <1>2, <2>4 DEF IInv, BootOrder
  <2>. QED  BY <2>8, <2>9, <2>10, <2>11 DEF IInv
<1>. QED  BY Zenon, <1>1, <1>2 DEF deallocate_frame, Panics

\* Every step preserves the invariant.
LEMMA NextPreservesIInv == IInv /\ [Next]_vars => IInv'
<1> SUFFICES ASSUME IInv, [Next]_vars PROVE IInv'
  OBVIOUS
<1>1. CASE init_entry
  BY <1>1, InitEntryStep
<1>2. CASE init_done
  BY <1>2, InitDoneStep
<1>3. CASE init_again \/ allocate_early
  BY Zenon, <1>3, PanicStep DEF init_again, allocate_early, Panics
<1>4. CASE \E r \in BootRanges : reserve_range(r)
  BY <1>4, ReserveRangeStep
<1>5. CASE \E c \in Clients : allocate_frame(c)
  BY <1>5, AllocateStep DEF allocate_frame
<1>6. CASE \E c \in Clients : allocate_contiguous(c)
  BY <1>6, AllocateStep, InputsAssumption DEF allocate_contiguous
<1>7. CASE \E f \in 0 .. MAX_FRAMES : deallocate_frame(f)
  BY <1>7, DeallocateStep
<1>8. CASE \E f \in Frames : write_frame(f) \/ write_after_free(f)
  BY <1>8, WriteStep
<1>9. CASE UNCHANGED vars
  <2>1. TypeOK'
    BY <1>9 DEF vars, IInv, TypeOK
  <2>. QED  BY <1>9, <2>1, QuietStep DEF vars, stats
<1>. QED
  BY <1>1, <1>2, <1>3, <1>4, <1>5, <1>6, <1>7, <1>8, <1>9 DEF Next

THEOREM InvariantHolds == Spec => []IInv
BY InitEstablishesIInv, NextPreservesIInv, PTL DEF Spec

\* Every variable keeps its type; in particular no counter of PmmInner ever
\* goes below zero, which with overflow checks on would be a panic.
THEOREM TypeCorrect == Spec => []TypeOK
<1>1. IInv => TypeOK
  BY DEF IInv
<1>. QED  BY <1>1, InvariantHolds, PTL

\* pmm.rs never hands a frame to a second holder.
THEOREM FramesHaveOneHolder == Spec => []ExclusiveOwnership
<1>1. IInv => ExclusiveOwnership
  BY DEF IInv
<1>. QED  BY <1>1, InvariantHolds, PTL

\* The numbers pmm::stats reports are the ones the bitmap and the callers
\* bear out: no frame is leaked or counted twice.
THEOREM NoFrameIsLost == Spec => []AccountingExact
<1>1. IInv => AccountingExact
  BY DEF IInv
<1>. QED  BY <1>1, InvariantHolds, PTL

----------------------------------------------------------------------------
(* What callers are told. *)

Answers == FailsOnlyWhenExhausted /\ RunsAreAligned

LEMMA AnswersPreserved == IInv /\ Answers /\ [Next]_vars => Answers'
<1> SUFFICES ASSUME IInv, Answers, [Next]_vars PROVE Answers'
  OBVIOUS
<1> USE DEF Answers, FailsOnlyWhenExhausted, RunsAreAligned
<1>1. ASSUME ret' = NoRet PROVE Answers'
  <2>1. ret'.count = 0
    BY <1>1 DEF NoRet
  <2>. QED  BY SMTT(30), <2>1
<1>2. ASSUME UNCHANGED <<ret, own>>, free' \subseteq free PROVE Answers'
  <2>1. free = {} => free' = {}
    BY Zenon, <1>2
  <2>. QED  BY Zenon, <1>2, <2>1
<1>3. ASSUME NEW c \in Clients, NEW count \in Nat, NEW align \in Nat,
             allocate(c, count, align)
      PROVE  Answers'
  <2> DEFINE start == find(count, align)
             run == start .. (start + count - 1)
  <2>1. /\ count = 1 /\ start = None => free = {}
        /\ count > 1 /\ start # None => aligned(start, align)
    BY FindProperties DEF IInv, TypeOK
  <2>2. ret' = [client |-> c, count |-> count, align |-> align, start |-> start]
    BY <1>3 DEF allocate
  <2>3. start = None => free' = free
    BY <1>3 DEF allocate
  <2>4. start # None => own' = [own EXCEPT ![c] = @ \cup run]
    BY <1>3 DEF allocate
  <2>5. start # None => run \subseteq own'[c]
    BY <2>4 DEF IInv, TypeOK
  <2> HIDE DEF start
  <2>. QED  BY <2>1, <2>2, <2>3, <2>5 DEF aligned
<1> HIDE DEF Answers, FailsOnlyWhenExhausted, RunsAreAligned
<1>4. CASE init_entry
  <2>1. ret' = NoRet
    BY <1>4 DEF init_entry, IInv, BootOrder
  <2>. QED  BY Zenon, <1>1, <2>1
<1>5. CASE init_done
  BY Zenon, <1>2, <1>5 DEF init_done
<1>6. CASE init_again \/ allocate_early
  BY Zenon, <1>2, <1>6 DEF init_again, allocate_early, Panic
<1>7. CASE \E r \in BootRanges : reserve_range(r)
  BY Zenon, <1>2, <1>7 DEF reserve_range
<1>8. CASE \E c \in Clients : allocate_frame(c)
  BY <1>3, <1>8 DEF allocate_frame
<1>9. CASE \E c \in Clients : allocate_contiguous(c)
  BY <1>3, <1>9, InputsAssumption DEF allocate_contiguous
<1>10. CASE \E f \in 0 .. MAX_FRAMES : deallocate_frame(f)
  <2>1. ret' = NoRet \/ (UNCHANGED <<ret, own>> /\ free' = free)
    BY Zenon, <1>10 DEF deallocate_frame, Panic
  <2>. QED  BY Zenon, <1>1, <1>2, <2>1
<1>11. CASE \E f \in Frames : write_frame(f) \/ write_after_free(f)
  BY Zenon, <1>2, <1>11 DEF write_frame, write_after_free
<1>12. CASE UNCHANGED vars
  BY <1>2, <1>12 DEF vars
<1>. QED
  BY <1>4, <1>5, <1>6, <1>7, <1>8, <1>9, <1>10, <1>11, <1>12 DEF Next

LEMMA AnswersHold == Spec => []Answers
<1>1. Init => Answers
  BY DEF Init, Answers, FailsOnlyWhenExhausted, RunsAreAligned, NoRet
<1>. QED  BY <1>1, AnswersPreserved, InvariantHolds, PTL DEF Spec

\* PmmInner::allocate never fails a single-frame request while a frame is
\* free, wherever the cursor stands and whatever the word size.
THEOREM NoSpuriousExhaustion == Spec => []FailsOnlyWhenExhausted
<1>1. Answers => FailsOnlyWhenExhausted
  BY DEF Answers
<1>. QED  BY <1>1, AnswersHold, PTL

\* A contiguous run is aligned as asked and given entirely to the caller.
THEOREM ContiguousRunsAreAligned == Spec => []RunsAreAligned
<1>1. Answers => RunsAreAligned
  BY DEF Answers
<1>. QED  BY <1>1, AnswersHold, PTL

\* next_free_run answers None only when no aligned run of free frames lies
\* between `from` and `limit`.
LEMMA NextFreeRunMisses ==
  ASSUME NEW map \in SUBSET Frames, NEW from \in Nat, NEW limit \in Nat,
         NEW count \in Nat \ {0}, NEW align \in Nat,
         next_free_run(map, from, limit, count, align) = None,
         NEW s \in Nat, from <= s, s + count <= limit, aligned(s, align)
  PROVE  ~(s .. (s + count - 1) \subseteq map)
<1> DEFINE C == {r \in from .. limit : /\ aligned(r, align)
                                       /\ r + count <= limit
                                       /\ run_is_free(map, r, count)}
<1>1. Smallest(C) = None
  BY DEF next_free_run
<1>2. C \subseteq Nat
  OBVIOUS
<1>3. C = {}
  BY Zenon, <1>1, <1>2, SmallestIsMember
<1>4. s \in from .. limit
  OBVIOUS
<1>. QED  BY Zenon, <1>3, <1>4 DEF run_is_free

\* Both searches of PmmInner::allocate fail: what they missed crosses the cursor.
LEMMA FindMisses ==
  ASSUME free \in SUBSET Frames, cursor \in 0 .. MAX_FRAMES,
         NEW count \in Nat, count > 1, NEW align \in Nat,
         find(count, align) = None,
         NEW s \in Frames, aligned(s, align), s .. (s + count - 1) \subseteq free
  PROVE  s < cursor /\ cursor < s + count
<1>1. /\ MAX_FRAMES \in Nat /\ cursor \in Nat /\ s \in Nat
      /\ count \in Nat \ {0} /\ s + count - 1 \in free
  BY SizesAssumption DEF Frames
<1>2. s + count <= MAX_FRAMES
  BY <1>1, SizesAssumption DEF Frames
<1>3. Smaller(cursor, MAX_FRAMES) = cursor
  BY <1>1 DEF Smaller
<1>4. next_free_run(free, cursor, MAX_FRAMES, count, align) = None
  BY <1>1, <1>3 DEF find
<1>5. cursor > 0 => next_free_run(free, 0, cursor, count, align) = None
  BY <1>1, <1>3, <1>4 DEF find
<1>6. s < cursor
  BY <1>1, <1>2, <1>4, NextFreeRunMisses
<1>7. cursor < s + count
  BY <1>1, <1>5, <1>6, NextFreeRunMisses
<1>. QED  BY <1>6, <1>7

LEMMA MissesPreserved ==
  IInv /\ MissedRunsCrossTheCursor /\ [Next]_vars
    => MissedRunsCrossTheCursor'
<1> SUFFICES ASSUME IInv, MissedRunsCrossTheCursor, [Next]_vars
             PROVE  MissedRunsCrossTheCursor'
  OBVIOUS
<1> USE DEF MissedRunsCrossTheCursor
<1>1. ASSUME ret' = NoRet PROVE MissedRunsCrossTheCursor'
  <2>1. ret'.count = 0
    BY <1>1 DEF NoRet
  <2>. QED  BY SMTT(30), <2>1
<1>2. ASSUME UNCHANGED <<ret, cursor>>, free' \subseteq free
      PROVE  MissedRunsCrossTheCursor'
  BY Zenon, <1>2
<1>3. ASSUME NEW c \in Clients, NEW count \in Nat, NEW align \in Nat,
             allocate(c, count, align)
      PROVE  MissedRunsCrossTheCursor'
  <2>1. ret' = [client |-> c, count |-> count, align |-> align,
                start |-> find(count, align)]
    BY <1>3 DEF allocate
  <2>2. SUFFICES ASSUME count > 0, find(count, align) = None, NEW s \in Frames,
                        align > 0 => s % align = 0,
                        s .. (s + count - 1) \subseteq free'
                 PROVE  s < cursor' /\ cursor' < s + count
    BY <2>1
  <2>3. free' = free /\ cursor' = cursor
    BY <1>3, <2>2 DEF allocate
  <2>4. s \in Nat /\ free \in SUBSET Frames /\ cursor \in 0 .. MAX_FRAMES
    BY SizesAssumption DEF Frames, IInv, TypeOK
  <2>5. CASE count = 1
    <3>1. free = {}
      BY <2>2, <2>4, <2>5, FindProperties
    <3>2. s \in s .. (s + count - 1)
      BY <2>4, <2>5
    <3>. QED  BY <2>2, <2>3, <3>1, <3>2
  <2>6. CASE count > 1
    <3>1. aligned(s, align)
      BY <2>2, <2>4 DEF aligned
    <3>. QED  BY <2>2, <2>3, <2>4, <2>6, <3>1, FindMisses
  <2>. QED  BY <2>2, <2>5, <2>6
<1> HIDE DEF MissedRunsCrossTheCursor
<1>4. CASE init_entry
  <2>1. ret' = NoRet
    BY <1>4 DEF init_entry, IInv, BootOrder
  <2>. QED  BY Zenon, <1>1, <2>1
<1>5. CASE init_done
  BY Zenon, <1>2, <1>5 DEF init_done
<1>6. CASE init_again \/ allocate_early
  BY Zenon, <1>2, <1>6 DEF init_again, allocate_early, Panic
<1>7. CASE \E r \in BootRanges : reserve_range(r)
  BY Zenon, <1>2, <1>7 DEF reserve_range
<1>8. CASE \E c \in Clients : allocate_frame(c)
  BY <1>3, <1>8 DEF allocate_frame
<1>9. CASE \E c \in Clients : allocate_contiguous(c)
  BY <1>3, <1>9, InputsAssumption DEF allocate_contiguous
<1>10. CASE \E f \in 0 .. MAX_FRAMES : deallocate_frame(f)
  <2>1. ret' = NoRet \/ (UNCHANGED <<ret, cursor>> /\ free' = free)
    BY Zenon, <1>10 DEF deallocate_frame, Panic
  <2>. QED  BY Zenon, <1>1, <1>2, <2>1
<1>11. CASE \E f \in Frames : write_frame(f) \/ write_after_free(f)
  BY Zenon, <1>2, <1>11 DEF write_frame, write_after_free
<1>12. CASE UNCHANGED vars
  BY <1>2, <1>12 DEF vars
<1>. QED
  BY <1>4, <1>5, <1>6, <1>7, <1>8, <1>9, <1>10, <1>11, <1>12 DEF Next

\* allocate_contiguous fails only when every free run that would do crosses the
\* cursor, for every memory, word size, run length and alignment.
THEOREM ContiguousSearchMissesOnlyAtCursor == Spec => []MissedRunsCrossTheCursor
<1>1. Init => MissedRunsCrossTheCursor
  BY DEF Init, MissedRunsCrossTheCursor, NoRet
<1>. QED  BY <1>1, MissesPreserved, InvariantHolds, PTL DEF Spec

----------------------------------------------------------------------------
(* Which bytes of memory a frame may cover. *)

LEMMA Division ==
  ASSUME NEW n \in Nat
  PROVE  /\ n \div FRAME_SIZE \in Nat
         /\ (n \div FRAME_SIZE) * FRAME_SIZE <= n
         /\ n < (n \div FRAME_SIZE) * FRAME_SIZE + FRAME_SIZE
BY SizesAssumption

LEMMA FramesAreOrdered ==
  ASSUME NEW i \in Nat, NEW j \in Nat
  PROVE  /\ i * FRAME_SIZE \in Nat
         /\ i < j <=> i * FRAME_SIZE + FRAME_SIZE <= j * FRAME_SIZE
         /\ i <= j <=> i * FRAME_SIZE <= j * FRAME_SIZE
BY SizesAssumption

\* free_range rounds inward: its frames lie inside the range.
LEMMA FreeRangeIsInside ==
  ASSUME NEW a \in Nat, NEW b \in Nat, NEW f \in free_range(a, b)
  PROVE  f \in Nat /\ a <= f * FRAME_SIZE /\ f * FRAME_SIZE + FRAME_SIZE <= b
<1> DEFINE first == (a + FRAME_SIZE - 1) \div FRAME_SIZE
           last == Smaller(b, MAX_PHYS) \div FRAME_SIZE
<1>1. MAX_PHYS \in Nat /\ MAX_FRAMES \in Nat /\ FRAME_SIZE \in Nat \ {0}
  BY SizesAssumption DEF MAX_PHYS
<1>2. Smaller(b, MAX_PHYS) \in Nat /\ Smaller(b, MAX_PHYS) <= b /\ a + FRAME_SIZE - 1 \in Nat
  BY <1>1 DEF Smaller
<1>3. /\ first \in Nat /\ a + FRAME_SIZE - 1 < first * FRAME_SIZE + FRAME_SIZE
      /\ last \in Nat /\ last * FRAME_SIZE <= Smaller(b, MAX_PHYS)
  BY <1>2, Division
<1>4. first <= f /\ f < last /\ f \in Nat
  BY <1>1, <1>3 DEF free_range, Smaller
<1>5. /\ first * FRAME_SIZE \in Nat /\ last * FRAME_SIZE \in Nat /\ f * FRAME_SIZE \in Nat
      /\ first * FRAME_SIZE <= f * FRAME_SIZE
      /\ f * FRAME_SIZE + FRAME_SIZE <= last * FRAME_SIZE
  BY <1>3, <1>4, FramesAreOrdered
<1> HIDE DEF first, last
<1>. QED  BY <1>1, <1>2, <1>3, <1>4, <1>5

\* reserve_range rounds outward: every frame the range touches is covered.
LEMMA ReserveRangeCovers ==
  ASSUME NEW lo \in Nat, NEW hi \in Nat, NEW f \in Frames,
         NEW b \in Bytes(f), lo <= b, b < hi
  PROVE  f \in reserve_frames(lo, hi)
<1> DEFINE first == lo \div FRAME_SIZE
           last == (hi + FRAME_SIZE - 1) \div FRAME_SIZE
<1>1. MAX_FRAMES \in Nat /\ FRAME_SIZE \in Nat \ {0} /\ f \in Nat /\ f < MAX_FRAMES
  BY SizesAssumption DEF Frames
<1>2. /\ first \in Nat /\ first * FRAME_SIZE <= lo
      /\ last \in Nat /\ hi + FRAME_SIZE - 1 < last * FRAME_SIZE + FRAME_SIZE
  BY <1>1, Division
<1>3. /\ f * FRAME_SIZE \in Nat /\ f * FRAME_SIZE <= b
      /\ b < f * FRAME_SIZE + FRAME_SIZE /\ b \in Nat
  BY <1>1, FramesAreOrdered DEF Bytes
<1>4. first * FRAME_SIZE \in Nat /\ last * FRAME_SIZE \in Nat
  BY <1>2, FramesAreOrdered
<1> HIDE DEF first, last
<1>5. first <= f
  <2>1. first * FRAME_SIZE < f * FRAME_SIZE + FRAME_SIZE
    BY <1>1, <1>2, <1>3, <1>4
  <2>2. ~ (f * FRAME_SIZE + FRAME_SIZE <= first * FRAME_SIZE)
    BY <1>1, <1>3, <1>4, <2>1
  <2>3. ~ (f < first)
    BY <1>1, <1>2, <2>2, FramesAreOrdered
  <2>. QED  BY <1>1, <1>2, <2>3
<1>6. f < last
  <2>1. ~ (last * FRAME_SIZE <= f * FRAME_SIZE)
    BY <1>1, <1>2, <1>3, <1>4
  <2>2. ~ (last <= f)
    BY <1>1, <1>2, <2>1, FramesAreOrdered
  <2>. QED  BY <1>1, <1>2, <2>2
<1>7. reserve_frames(lo, hi) = first .. (Smaller(last, MAX_FRAMES) - 1)
  BY <1>3 DEF reserve_frames, first, last
<1>. QED  BY <1>1, <1>2, <1>5, <1>6, <1>7 DEF Smaller

LEMMA UsablePreserved == IInv /\ OnlyUsableMemory /\ [Next]_vars => OnlyUsableMemory'
<1> SUFFICES ASSUME IInv, OnlyUsableMemory, [Next]_vars PROVE OnlyUsableMemory'
  OBVIOUS
<1>1. ASSUME UNCHANGED <<mmap, reservedRanges>>, (free \cup Held)' \subseteq free \cup Held
      PROVE  OnlyUsableMemory'
  BY <1>1 DEF OnlyUsableMemory, InRam, InReserved, Bytes
<1>2. UNCHANGED own => Held' = Held
  BY DEF Held
<1>3. CASE init_entry
  <2> DEFINE e == mmap[entry]
             hi == Smaller(SaturatingAdd(e.base, e.length), MAX_PHYS)
  <2>1. UNCHANGED <<mmap, reservedRanges, own>> /\ reservedRanges = {}
    BY Zenon, <1>3 DEF init_entry, IInv, BootOrder
  <2>2. entry \in 1 .. Len(mmap) /\ e \in MmapEntry
    <3>1. mmap \in Seq(MmapEntry)
      BY InputsAssumption DEF IInv, TypeOK
    <3>2. Len(mmap) \in Nat
      BY <3>1
    <3>3. entry \in 1 .. Len(mmap)
      BY <1>3, <3>2 DEF IInv, TypeOK, init_entry
    <3>. QED  BY <3>1, <3>3
  <2>3. CASE free' = free
    BY <1>1, <1>2, <2>1, <2>3
  <2>4. CASE e.mem_type = AVAILABLE /\ free' = free \cup newly_free(e.base, hi)
    <3>1. /\ e.base \in Nat /\ e.length \in Nat
          /\ hi \in Nat /\ hi <= e.base + e.length
      BY SMTT(30), <2>2, SizesAssumption DEF MmapEntry, Smaller, SaturatingAdd, MAX_PHYS
    <3>2. ASSUME NEW f \in free_range(e.base, hi), NEW b \in Bytes(f)
          PROVE  InRam(b)
      <4>1. f \in Nat /\ e.base <= f * FRAME_SIZE /\ f * FRAME_SIZE + FRAME_SIZE <= hi
        BY <3>1, FreeRangeIsInside
      <4>2. f * FRAME_SIZE \in Nat /\ FRAME_SIZE \in Nat
        BY <4>1, SizesAssumption, FramesAreOrdered
      <4>3. b \in Int /\ f * FRAME_SIZE <= b /\ b < f * FRAME_SIZE + FRAME_SIZE
        BY <4>2 DEF Bytes
      <4> HIDE DEF hi
      <4>4. e.base <= b /\ b < e.base + e.length
        BY <3>1, <4>1, <4>2, <4>3
      <4>. QED  BY <2>2, <2>4, <4>4 DEF InRam
    <3>3. \A b : InRam(b)' <=> InRam(b)
      BY <2>1 DEF InRam
    <3>4. \A b : ~InReserved(b)'
      BY <2>1 DEF InReserved
    <3>5. (free \cup Held)' = free \cup Held \cup newly_free(e.base, hi)
      BY <1>2, <2>1, <2>4
    <3> HIDE DEF hi
    <3>6. ASSUME NEW f \in (free \cup Held)', NEW b \in Bytes(f) PROVE InRam(b)
      <4>1. CASE f \in free \cup Held
        BY <4>1 DEF OnlyUsableMemory
      <4>2. CASE f \in newly_free(e.base, hi)
        BY <3>2, <4>2 DEF newly_free
      <4>. QED  BY <3>5, <4>1, <4>2
    <3>. QED  BY <3>3, <3>4, <3>6 DEF OnlyUsableMemory, Bytes
  <2>. QED  BY <1>3, <2>3, <2>4 DEF init_entry, init_available
<1>4. CASE init_done
  BY <1>1, <1>2, <1>4 DEF init_done
<1>5. CASE init_again \/ allocate_early
  BY Zenon, <1>1, <1>2, <1>5 DEF init_again, allocate_early, Panic
<1>6. ASSUME NEW r \in BootRanges, reserve_range(r) PROVE OnlyUsableMemory'
  <2>1. /\ free' = free \ newly_reserved(r[1], r[2])
        /\ reservedRanges' = reservedRanges \cup {r}
        /\ UNCHANGED <<mmap, own>>
        /\ Held = {}
    BY <1>6 DEF reserve_range, IInv, BootOrder
  <2>2. r[1] \in Nat /\ r[2] \in Nat
    BY InputsAssumption
  <2>3. SUFFICES ASSUME NEW f \in free', NEW b \in Bytes(f)
                 PROVE  InRam(b)' /\ ~InReserved(b)'
    BY <1>2, <2>1 DEF OnlyUsableMemory, Bytes
  <2>4. InRam(b) /\ ~InReserved(b)
    BY <2>1, <2>3 DEF OnlyUsableMemory
  <2>5. ~ (r[1] <= b /\ b < r[2])
    <3>1. f \in Frames /\ f \notin reserve_frames(r[1], r[2])
      BY <2>1 DEF newly_reserved, IInv, TypeOK
    <3>. QED  BY <2>2, <3>1, ReserveRangeCovers
  <2>. QED  BY <2>1, <2>4, <2>5 DEF InRam, InReserved
<1>7. ASSUME NEW c \in Clients, NEW count \in Nat, NEW align \in Nat,
             allocate(c, count, align)
      PROVE  OnlyUsableMemory'
  <2> DEFINE start == find(count, align)
             run == start .. (start + count - 1)
  <2>1. start # None => run \subseteq free
    BY FindProperties DEF IInv, TypeOK
  <2>2. own \in [Clients -> SUBSET Frames]
    BY DEF IInv, TypeOK
  <2>3. \/ UNCHANGED <<free, own>>
        \/ /\ run \subseteq free
           /\ free' \subseteq free
           /\ own' = [own EXCEPT ![c] = @ \cup run]
    BY <1>7, <2>1 DEF allocate
  <2> HIDE DEF run
  <2>4. (free \cup Held)' \subseteq free \cup Held
    <3>1. CASE UNCHANGED <<free, own>>
      BY <1>2, <3>1
    <3>2. CASE /\ run \subseteq free
               /\ free' \subseteq free
               /\ own' = [own EXCEPT ![c] = @ \cup run]
      <4>1. \A d \in Clients : own'[d] \subseteq own[d] \cup run
        BY <2>2, <3>2
      <4>2. Held' \subseteq Held \cup run
        BY <4>1, HeldMember, HeldMemberPrime
      <4>. QED  BY <3>2, <4>2
    <3>. QED  BY <2>3, <3>1, <3>2
  <2>. QED  BY <1>1, <1>7, <2>4 DEF allocate
<1>8. CASE \E c \in Clients : allocate_frame(c)
  BY <1>7, <1>8 DEF allocate_frame
<1>9. CASE \E c \in Clients : allocate_contiguous(c)
  BY <1>7, <1>9, InputsAssumption DEF allocate_contiguous
<1>10. ASSUME NEW f \in 0 .. MAX_FRAMES, deallocate_frame(f) PROVE OnlyUsableMemory'
  <2>1. CASE UNCHANGED <<free, own>>
    BY Zenon, <1>1, <1>2, <1>10, <2>1 DEF deallocate_frame, Panic
  <2>2. CASE /\ f \in Frames \ free
             /\ free' = free \cup {f}
             /\ own' = [c \in Clients |-> own[c] \ {f}]
    <3>1. f # MAX_FRAMES /\ f \notin free
      BY <2>2, SizesAssumption DEF Frames
    <3>2. f \in Held
      BY Zenon, <1>10, <3>1 DEF deallocate_frame
    <3>3. Held' \subseteq Held
      BY <2>2, HeldMember, HeldMemberPrime
    <3>. QED  BY Zenon, <1>1, <1>10, <2>2, <3>2, <3>3 DEF deallocate_frame, Panic
  <2>. QED  BY Zenon, <1>10, <2>1, <2>2 DEF deallocate_frame, Panic
<1>11. CASE \E f \in Frames : write_frame(f) \/ write_after_free(f)
  BY <1>1, <1>2, <1>11 DEF write_frame, write_after_free
<1>12. CASE UNCHANGED vars
  BY <1>1, <1>2, <1>12 DEF vars
<1>. QED
  BY <1>3, <1>4, <1>5, <1>6, <1>8, <1>9, <1>10, <1>11, <1>12 DEF Next

\* No frame the allocator holds or hands out overlaps firmware memory, the
\* kernel image or any other range kmain reserves, for every memory map.
THEOREM OnlyUsableMemoryIsHandedOut == Spec => []OnlyUsableMemory
<1>1. Init => OnlyUsableMemory
  BY HeldMember DEF Init, OnlyUsableMemory
<1>. QED  BY <1>1, UsablePreserved, InvariantHolds, PTL DEF Spec

----------------------------------------------------------------------------
(* The bitmap allocator implements the abstract one. *)

LEMMA StepsImplement == IInv /\ IInv' /\ [Next]_vars => [Abstract!ANext]_(Abstract!avars)
<1> SUFFICES ASSUME IInv, IInv', [Next]_vars
             PROVE  Abstract!ANext \/ UNCHANGED <<Phase, free, own>>
  BY DEF Abstract!avars
<1>1. ASSUME UNCHANGED <<free, own, initialised, cursor>>
      PROVE  UNCHANGED <<Phase, free, own>>
  BY <1>1 DEF Phase
<1>2. CASE init_entry
  <2>1. Phase = "filling" /\ Phase' = Phase /\ own' = own
    BY <1>2 DEF init_entry, Phase
  <2>2. free' \subseteq Frames /\ free' = free \cup free'
    BY Zenon, <1>2 DEF init_entry, init_available, IInv, TypeOK
  <2>3. Abstract!Fill(free')
    BY <2>1, <2>2 DEF Abstract!Fill
  <2>. QED  BY <2>2, <2>3 DEF Abstract!ANext
<1>3. CASE init_done
  <2>1. Phase = "filling" /\ Phase' = "trimming" /\ UNCHANGED <<free, own>>
    BY <1>3 DEF init_done, Phase, IInv, BootOrder
  <2>. QED  BY <2>1 DEF Abstract!ANext, Abstract!Seal
<1>4. CASE init_again \/ allocate_early
  BY Zenon, <1>1, <1>4 DEF init_again, allocate_early, Panic, stats
<1>5. ASSUME NEW r \in BootRanges, reserve_range(r) PROVE Abstract!ANext
  <2>1. /\ Phase = "trimming" /\ Phase' = Phase /\ own' = own
        /\ free' = free \ newly_reserved(r[1], r[2])
    BY <1>5 DEF reserve_range, Phase
  <2>2. newly_reserved(r[1], r[2]) \subseteq Frames
    BY DEF newly_reserved, IInv, TypeOK
  <2>. QED  BY <2>1, <2>2 DEF Abstract!ANext, Abstract!Withdraw
<1>6. ASSUME NEW c \in Clients, NEW count \in Nat, NEW align \in Nat,
             allocate(c, count, align)
      PROVE  Abstract!ANext \/ UNCHANGED <<Phase, free, own>>
  <2> DEFINE start == find(count, align)
             last == start + count - 1
  <2>1. /\ start # None => /\ start \in 0 .. MAX_FRAMES
                           /\ start + count \in 0 .. MAX_FRAMES
                           /\ start .. last \subseteq free
        /\ count = 0 => start = cursor
    BY Zenon, FindProperties DEF IInv, TypeOK
  <2>2. initialised /\ initialised' /\ own \in [Clients -> SUBSET Frames]
    BY <1>6 DEF allocate, IInv, TypeOK
  <2>3. CASE start = None
    BY <1>1, <1>6, <2>3 DEF allocate
  <2>4. CASE start # None
    <3>1. /\ free' = free \ (start .. last)
          /\ cursor' = start + count
          /\ own' = [own EXCEPT ![c] = @ \cup (start .. last)]
      BY <1>6, <2>4 DEF allocate, cleared
    <3>2. start \in Nat /\ MAX_FRAMES \in Nat /\ start + count <= MAX_FRAMES
      BY <2>1, <2>4, SizesAssumption
    <3> HIDE DEF start
    <3>3. CASE count = 0
      <4>1. start .. last = {}
        BY <3>2, <3>3
      <4>2. cursor' = cursor /\ free' = free
        BY <2>1, <2>4, <3>1, <3>2, <3>3, <4>1
      <4>3. own' = own
        BY <2>2, <3>1, <4>1
      <4>. QED  BY <1>1, <2>2, <4>2, <4>3
    <3>4. CASE count # 0
      <4>1. start \in Frames /\ last \in Frames /\ start .. last # {}
        <5>1. start \in start .. last
          BY <3>2, <3>4
        <5>. QED  BY <3>2, <3>4, <5>1 DEF Frames
      <4>2. Phase \in {"trimming", "serving"} /\ Phase' = "serving"
        <5>1. cursor' # 0
          BY <3>1, <3>2, <3>4
        <5>. QED  BY <2>2, <5>1 DEF Phase
      <4>3. Abstract!Grant(c, start, last)
        BY <2>1, <2>4, <3>1, <4>1, <4>2 DEF Abstract!Grant
      <4> HIDE DEF last
      <4>. QED  BY <4>1, <4>3 DEF Abstract!ANext
    <3>. QED  BY <3>3, <3>4
  <2>. QED  BY <2>3, <2>4
<1>7. CASE \E c \in Clients : allocate_frame(c)
  BY <1>6, <1>7 DEF allocate_frame
<1>8. CASE \E c \in Clients : allocate_contiguous(c)
  BY <1>6, <1>8, InputsAssumption DEF allocate_contiguous
<1>9. ASSUME NEW f \in 0 .. MAX_FRAMES, deallocate_frame(f)
      PROVE  Abstract!ANext \/ UNCHANGED <<Phase, free, own>>
  <2>1. CASE \E why \in Panics : Panic(why)
    BY <1>1, <2>1 DEF Panic, stats
  <2>2. CASE /\ f \in Frames \ free
             /\ free' = free \cup {f}
             /\ own' = [c \in Clients |-> own[c] \ {f}]
             /\ UNCHANGED <<initialised, cursor>>
    <3>1. f # MAX_FRAMES /\ f \notin free
      BY <2>2, SizesAssumption DEF Frames
    <3>2. f \in Held
      BY Zenon, <1>9, <3>1 DEF deallocate_frame
    <3>3. PICK c \in Clients : f \in own[c]
      BY <3>2, HeldMember
    <3>4. own \in [Clients -> SUBSET Frames] /\ \A d \in Clients \ {c} : f \notin own[d]
      BY Zenon, <3>3 DEF IInv, TypeOK, ExclusiveOwnership
    <3>5. own' = [own EXCEPT ![c] = @ \ {f}]
      BY Zenon, <2>2, <3>3, <3>4
    <3>6. Phase = "serving" /\ Phase' = Phase
      <4>1. initialised /\ cursor # 0
        BY <3>2 DEF IInv, BootOrder
      <4>. QED  BY <2>2, <4>1 DEF Phase
    <3>7. Abstract!Return(c, f)
      BY Zenon, <2>2, <3>3, <3>5, <3>6 DEF Abstract!Return
    <3>. QED  BY <2>2, <3>3, <3>7 DEF Abstract!ANext
  <2>. QED  BY Zenon, <1>9, <2>1, <2>2 DEF deallocate_frame, Panics
<1>10. CASE \E f \in Frames : write_frame(f) \/ write_after_free(f)
  BY <1>1, <1>10 DEF write_frame, write_after_free, stats
<1>11. CASE UNCHANGED vars
  BY <1>1, <1>11 DEF vars
<1>. QED
  BY <1>2, <1>3, <1>4, <1>5, <1>7, <1>8, <1>9, <1>10, <1>11 DEF Next

\* pmm.rs implements the abstract allocator for every instance: from the
\* first frame handed out, frames only move between the pool and one holder.
THEOREM PmmImplementsFrameAllocator == Spec => ImplementsFrameAllocator
<1>1. Init => Abstract!AInit
  BY DEF Init, Abstract!AInit, Phase
<1>. QED
  BY <1>1, StepsImplement, InvariantHolds, PTL
     DEF Spec, ImplementsFrameAllocator, Abstract!ASpec

============================================================================

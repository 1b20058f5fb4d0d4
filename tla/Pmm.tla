-------------------------------- MODULE Pmm --------------------------------
(***************************************************************************)
(* The physical frame allocator, kernel/src/memory/pmm.rs.                 *)
(*                                                                         *)
(* The bitmap (bit set = frame free) is the set `free` of frame indices.   *)
(* Every public operation runs to completion under the PMM mutex on the    *)
(* only core, so each one is a single action; pmm::init, which walks the   *)
(* firmware memory map, takes one step per map entry.  Addresses are byte  *)
(* addresses, so that the two rounding directions are visible.             *)
(*                                                                         *)
(* The callers are abstracted to a set of clients that keep the frames     *)
(* they were given (`own`), write to them, and give them back.  Misuse     *)
(* lists the caller mistakes a run admits; with Misuse = {} the callers    *)
(* are well behaved.                                                       *)
(***************************************************************************)
EXTENDS Integers, Sequences, FiniteSets

CONSTANTS
  FRAME_SIZE,   \* bytes per frame (4096)
  MAX_FRAMES,   \* frames the bitmap describes (524288)
  WORD_BITS,    \* bits per bitmap word (64)
  U64_MAX,      \* where u64::saturating_add stops
  Mmaps,        \* the firmware memory maps: sequences of entries
  BootRanges,   \* byte ranges <<start, end>> kmain may reserve
  Clients,      \* holders of frames
  Counts,       \* counts passed to allocate_contiguous
  Aligns,       \* alignments passed to allocate_contiguous
  Debug,        \* cfg!(debug_assertions): the canary is compiled in
  Misuse        \* the caller mistakes that can happen

Mistakes == {"reinit", "early-alloc", "double-free", "out-of-range",
             "use-after-free"}

AVAILABLE == 1
BAD_RAM == 4

MmapEntry == [base : Nat, length : Nat, mem_type : Nat]

ASSUME SizesAssumption ==
  /\ FRAME_SIZE \in Nat \ {0}
  /\ MAX_FRAMES \in Nat \ {0}
  /\ WORD_BITS \in Nat \ {0}
  /\ MAX_FRAMES % WORD_BITS = 0
  /\ U64_MAX \in Nat
  /\ MAX_FRAMES * FRAME_SIZE <= U64_MAX

ASSUME InputsAssumption ==
  /\ \A m \in Mmaps : m \in Seq(MmapEntry)
  /\ BootRanges \subseteq Nat \X Nat
  /\ Counts \subseteq Nat
  /\ Aligns \subseteq Nat
  /\ Debug \in BOOLEAN
  /\ Misuse \subseteq Mistakes

MAX_PHYS == MAX_FRAMES * FRAME_SIZE

Frames == 0 .. (MAX_FRAMES - 1)

None == -1

VARIABLES
  mmap,             \* the firmware memory map, fixed at power-on
  entry,            \* the next map entry pmm::init will process
  free,             \* PmmInner.bitmap
  cursor,           \* CURSOR
  total_frames, free_frames, reserved_frames, bad_frames,
  unmapped_bytes, initialised,
  word,             \* the first word of every frame, as the canary sees it
  panic,            \* the panic raised, or "none"; the kernel then stops
  own,              \* the frames each client holds
  ret,              \* the request and the result of the last allocation
  reservedRanges,   \* the ranges reserved so far
  freed,            \* debug builds: frames given back at least once
  dirty             \* debug builds: frames written since they were given back

vars == <<mmap, entry, free, cursor, total_frames, free_frames,
          reserved_frames, bad_frames, unmapped_bytes, initialised, word,
          panic, own, ret, reservedRanges, freed, dirty>>

stats == <<total_frames, free_frames, reserved_frames, bad_frames,
           unmapped_bytes, initialised>>

memory == <<word, freed, dirty>>

NoRet == [client |-> None, count |-> 0, align |-> 0, start |-> None]

Held == UNION {own[c] : c \in Clients}

----------------------------------------------------------------------------
(* Pure helpers. *)

Smallest(S) == IF S = {} THEN None ELSE CHOOSE i \in S : \A j \in S : i <= j

Smaller(a, b) == IF a <= b THEN a ELSE b

SaturatingAdd(a, b) == Smaller(a + b, U64_MAX)

\* The scan reads whole words: it stops only at a word that starts at or
\* beyond `limit`, so the result may lie above a limit inside a word.
next_free(map, from, limit) ==
  Smallest({i \in map : /\ from < limit
                        /\ i >= from
                        /\ (i \div WORD_BITS) * WORD_BITS < limit})

\* The inner loop of next_free_run; the variant stops one frame early.
run_is_free_short(map, s, count) == s .. (s + count - 2) \subseteq map
run_is_free(map, s, count) == s .. (s + count - 1) \subseteq map

\* align.max(1), then multiples of it; the variant does not round up.
aligned_not(s, align) == TRUE
aligned(s, align) == s % (IF align = 0 THEN 1 ELSE align) = 0

\* Every multiple of the alignment is tried in turn.
next_free_run(map, from, limit, count, align) ==
  IF count = 0
  THEN from
  ELSE Smallest({s \in from .. limit : /\ aligned(s, align)
                                       /\ s + count <= limit
                                       /\ run_is_free(map, s, count)})

\* Variant of free_range: the rounding of reserve_range.
free_range_outward(start, end) ==
  LET first == start \div FRAME_SIZE
      last  == (Smaller(end, MAX_PHYS) + FRAME_SIZE - 1) \div FRAME_SIZE
  IN  IF end <= start THEN {} ELSE first .. (Smaller(last, MAX_FRAMES) - 1)

\* Round inward: the frames that lie wholly inside [start, end).
free_range(start, end) ==
  LET first == (start + FRAME_SIZE - 1) \div FRAME_SIZE
      last  == Smaller(end, MAX_PHYS) \div FRAME_SIZE
  IN  IF end <= start THEN {} ELSE first .. (Smaller(last, MAX_FRAMES) - 1)

\* Round outward: the frames that [start, end) touches.
reserve_frames(start, end) ==
  LET first == start \div FRAME_SIZE
      last  == (end + FRAME_SIZE - 1) \div FRAME_SIZE
  IN  IF end <= start THEN {} ELSE first .. (Smaller(last, MAX_FRAMES) - 1)

\* Only bits that change are counted; the variants count every bit visited.
newly_free_all(start, end) == free_range(start, end)
newly_free(start, end) == free_range(start, end) \ free

newly_reserved_all(start, end) == reserve_frames(start, end)
newly_reserved(start, end) == reserve_frames(start, end) \cap free

\* The bits allocate clears; the variant clears the first one only.
cleared_first(start, count) == {start}
cleared(start, count) == start .. (start + count - 1)

\* Variant of PmmInner::allocate: the search does not wrap.
find_no_wrap(count, align) ==
  LET from == Smaller(cursor, MAX_FRAMES)
  IN  IF count = 1 THEN next_free(free, from, MAX_FRAMES)
      ELSE next_free_run(free, from, MAX_FRAMES, count, align)

\* The index PmmInner::allocate settles on: next fit from the cursor, then
\* once more from the beginning up to the cursor.
find(count, align) ==
  LET Search(from, limit) == IF count = 1
                             THEN next_free(free, from, limit)
                             ELSE next_free_run(free, from, limit, count, align)
      from  == Smaller(cursor, MAX_FRAMES)
      start == Search(from, MAX_FRAMES)
  IN  IF start = None /\ from > 0 THEN Search(0, from) ELSE start

\* deallocate writes the canary into the frame's first word, in debug builds.
poison(f) == IF Debug THEN [word EXCEPT ![f] = "canary"] ELSE word

\* deallocate refuses a frame whose first word still holds the canary.
canary_ok(f) == ~Debug \/ word[f] # "canary"

----------------------------------------------------------------------------
Init ==
  /\ mmap \in Mmaps
  /\ entry = 1
  /\ free = {}
  /\ cursor = 0
  /\ total_frames = 0
  /\ free_frames = 0
  /\ reserved_frames = 0
  /\ bad_frames = 0
  /\ unmapped_bytes = 0
  /\ initialised = FALSE
  /\ word = [f \in Frames |-> "data"]
  /\ panic = "none"
  /\ own = [c \in Clients |-> {}]
  /\ ret = NoRet
  /\ reservedRanges = {}
  /\ freed = {}
  /\ dirty = {}

\* A panic unwinds nothing (panic = abort): the state stays as it was.
Panic(why) ==
  /\ panic' = why
  /\ UNCHANGED <<mmap, entry, free, cursor, stats, memory, own, ret, reservedRanges>>

\* pmm::init, AVAILABLE entries: RAM above the boot map is only counted.
init_available(e) ==
  LET hi  == SaturatingAdd(e.base, e.length)
      new == newly_free(e.base, Smaller(hi, MAX_PHYS))
  IN  IF e.base >= MAX_PHYS
      THEN /\ unmapped_bytes' = unmapped_bytes + e.length
           /\ UNCHANGED <<free, free_frames>>
      ELSE /\ unmapped_bytes' = IF hi > MAX_PHYS
                                THEN unmapped_bytes + (hi - MAX_PHYS)
                                ELSE unmapped_bytes
           /\ free' = free \cup new
           /\ free_frames' = free_frames + Cardinality(new)

\* pmm::init, one map entry.
init_entry ==
  /\ panic = "none"
  /\ ~initialised
  /\ entry <= Len(mmap)
  /\ entry' = entry + 1
  /\ LET e == mmap[entry]
     IN  \/ /\ e.mem_type = AVAILABLE
            /\ init_available(e)
            /\ UNCHANGED bad_frames
         \/ /\ e.mem_type = BAD_RAM
            /\ bad_frames' = bad_frames + (e.length \div FRAME_SIZE)
            /\ UNCHANGED <<free, free_frames, unmapped_bytes>>
         \/ /\ e.mem_type \notin {AVAILABLE, BAD_RAM}
            /\ UNCHANGED <<free, free_frames, unmapped_bytes, bad_frames>>
  /\ UNCHANGED <<mmap, cursor, total_frames, reserved_frames, initialised,
                 memory, panic, own, ret, reservedRanges>>

\* pmm::init, after the last entry.
init_done ==
  /\ panic = "none"
  /\ ~initialised
  /\ entry > Len(mmap)
  /\ total_frames' = free_frames
  /\ initialised' = TRUE
  /\ UNCHANGED <<mmap, entry, free, cursor, free_frames, reserved_frames,
                 bad_frames, unmapped_bytes, memory, panic, own, ret, reservedRanges>>

\* pmm::init called a second time.
init_again ==
  /\ panic = "none"
  /\ "reinit" \in Misuse
  /\ initialised
  /\ Panic("pmm::init called twice")

\* kmain reserves its ranges after pmm::init and before anything allocates;
\* the cursor leaves 0 with the first frame handed out.
reserve_range(r) ==
  LET taken == newly_reserved(r[1], r[2])
  IN  /\ panic = "none"
      /\ initialised
      /\ cursor = 0
      /\ free' = free \ taken
      /\ free_frames' = free_frames - Cardinality(taken)
      /\ reserved_frames' = reserved_frames + Cardinality(taken)
      /\ reservedRanges' = reservedRanges \cup {r}
      /\ UNCHANGED <<mmap, entry, cursor, total_frames, bad_frames, unmapped_bytes,
                     initialised, memory, panic, own, ret>>

\* PmmInner::allocate.  None leaves everything but the answer alone.
allocate(c, count, align) ==
  LET start == find(count, align)
      run   == start .. (start + count - 1)
  IN  /\ panic = "none"
      /\ initialised
      /\ ret' = [client |-> c, count |-> count, align |-> align, start |-> start]
      /\ \/ /\ start = None
            /\ UNCHANGED <<free, free_frames, cursor, own>>
         \/ /\ start # None
            /\ free' = free \ cleared(start, count)
            /\ free_frames' = free_frames - count
            /\ cursor' = start + count
            /\ own' = [own EXCEPT ![c] = @ \cup run]
      /\ UNCHANGED <<mmap, entry, total_frames, reserved_frames, bad_frames,
                     unmapped_bytes, initialised, memory, panic, reservedRanges>>

allocate_frame(c) == allocate(c, 1, 1)

allocate_contiguous(c) == \E count \in Counts, align \in Aligns : allocate(c, count, align)

\* Allocating before pmm::init.
allocate_early ==
  /\ panic = "none"
  /\ "early-alloc" \in Misuse
  /\ ~initialised
  /\ Panic("allocation before pmm::init()")

\* deallocate_frame, called by the holder of the frame or, by mistake, with a
\* frame that is already back or with an address beyond the managed range.
deallocate_frame(f) ==
  /\ panic = "none"
  /\ \/ f \in Held
     \/ "double-free" \in Misuse /\ f \in free
     \/ "out-of-range" \in Misuse /\ f = MAX_FRAMES
  /\ \/ /\ f >= MAX_FRAMES
        /\ Panic("outside the managed range")
     \/ /\ f \in free
        /\ Panic("double free")
     \/ /\ f \in Frames \ free
        /\ ~canary_ok(f)
        /\ Panic("modified after free")
     \/ /\ f \in Frames \ free
        /\ canary_ok(f)
        /\ free' = free \cup {f}
        /\ free_frames' = free_frames + 1
        /\ own' = [c \in Clients |-> own[c] \ {f}]
        /\ word' = poison(f)
        /\ freed' = IF Debug THEN freed \cup {f} ELSE freed
        /\ dirty' = dirty \ {f}
        /\ ret' = NoRet
        /\ UNCHANGED <<mmap, entry, cursor, total_frames, reserved_frames, bad_frames,
                       unmapped_bytes, initialised, panic, reservedRanges>>

\* The holder of a frame writes its first word.
write_frame(f) ==
  /\ panic = "none"
  /\ Debug
  /\ f \in Held
  /\ word[f] = "canary"
  /\ word' = [word EXCEPT ![f] = "data"]
  /\ UNCHANGED <<mmap, entry, free, cursor, stats, panic, own, ret, reservedRanges,
                 freed, dirty>>

\* A caller writes the first word of a frame it has already given back.
write_after_free(f) ==
  /\ panic = "none"
  /\ Debug
  /\ "use-after-free" \in Misuse
  /\ f \in free \cap freed
  /\ f \notin dirty
  /\ word' = [word EXCEPT ![f] = "data"]
  /\ dirty' = dirty \cup {f}
  /\ UNCHANGED <<mmap, entry, free, cursor, stats, panic, own, ret, reservedRanges, freed>>

Next ==
  \/ init_entry
  \/ init_done
  \/ init_again
  \/ allocate_early
  \/ \E r \in BootRanges : reserve_range(r)
  \/ \E c \in Clients : allocate_frame(c)
  \/ \E c \in Clients : allocate_contiguous(c)
  \/ \E f \in 0 .. MAX_FRAMES : deallocate_frame(f)
  \/ \E f \in Frames : write_frame(f)
  \/ \E f \in Frames : write_after_free(f)

Spec == Init /\ [][Next]_vars

----------------------------------------------------------------------------
(* Properties. *)

Panics == {"none", "pmm::init called twice", "allocation before pmm::init()",
           "outside the managed range", "double free", "modified after free"}

\* Every variable has its type: counters are unsigned, the cursor never
\* passes the end of the bitmap, and only managed frames are free or held.
TypeOK ==
  /\ mmap \in Mmaps
  /\ entry \in 1 .. (Len(mmap) + 1)
  /\ free \subseteq Frames
  /\ cursor \in 0 .. MAX_FRAMES
  /\ total_frames \in Nat
  /\ free_frames \in Nat
  /\ reserved_frames \in Nat
  /\ bad_frames \in Nat
  /\ unmapped_bytes \in Nat
  /\ initialised \in BOOLEAN
  /\ word \in [Frames -> {"data", "canary"}]
  /\ panic \in Panics
  /\ own \in [Clients -> SUBSET Frames]
  /\ ret \in [client : Clients \cup {None}, count : Nat, align : Nat,
              start : 0 .. MAX_FRAMES \cup {None}]
  /\ reservedRanges \subseteq BootRanges
  /\ freed \subseteq Frames
  /\ dirty \subseteq Frames

\* "The PMM never hands out the same frame twice" (selftest.rs): a frame has
\* at most one holder, and a frame with a holder is not in the bitmap.
ExclusiveOwnership ==
  /\ Held \cap free = {}
  /\ \A c, d \in Clients : c # d => own[c] \cap own[d] = {}

\* The counters pmm::stats reports agree with the bitmap: free_frames is the
\* number of set bits, and every frame that was usable at the end of
\* pmm::init is free, reserved, or held by a caller -- none is lost.
AccountingExact ==
  /\ free_frames = Cardinality(free)
  /\ initialised => total_frames = free_frames + reserved_frames + Cardinality(Held)

Bytes(f) == (f * FRAME_SIZE) .. (f * FRAME_SIZE + FRAME_SIZE - 1)

InRam(b) == \E i \in 1 .. Len(mmap) : /\ mmap[i].mem_type = AVAILABLE
                                      /\ mmap[i].base <= b
                                      /\ b < mmap[i].base + mmap[i].length

InReserved(b) == \E r \in reservedRanges : r[1] <= b /\ b < r[2]

\* A frame the allocator has free or has handed out lies, to the last byte,
\* in RAM the firmware reported as available and outside every range kmain
\* reserved: free_range rounds inward, reserve_range outward.
OnlyUsableMemory ==
  \A f \in free \cup Held : \A b \in Bytes(f) : InRam(b) /\ ~InReserved(b)

\* allocate_frame answers None only when no frame at all is free: the wrapped
\* search of PmmInner::allocate misses no frame below the cursor.
FailsOnlyWhenExhausted ==
  ret.count = 1 /\ ret.start = None => free = {}

\* When allocate_contiguous answers None, every free run that would have done
\* crosses the cursor: that is all the two searches of PmmInner::allocate miss.
MissedRunsCrossTheCursor ==
  ret.count > 0 /\ ret.start = None =>
    \A s \in Frames : /\ ret.align > 0 => s % ret.align = 0
                      /\ s .. (s + ret.count - 1) \subseteq free
                      => s < cursor /\ cursor < s + ret.count

\* A run of two or more frames starts on the requested alignment and belongs,
\* entirely, to the client that asked for it.
RunsAreAligned ==
  ret.count > 1 /\ ret.start # None =>
    /\ ret.align > 0 => ret.start % ret.align = 0
    /\ ret.start .. (ret.start + ret.count - 1) \subseteq own[ret.client]

\* The panic "was modified after free (canary overwritten)" of deallocate is
\* raised only when some frame really was written after it was given back.
CanaryPanicMeansUseAfterFree ==
  panic = "modified after free" => dirty # {}

============================================================================

-------------------------------- MODULE Vmm --------------------------------
(***************************************************************************)
(* The virtual memory manager, kernel/src/memory/vmm.rs, from the page     *)
(* tables boot.asm leaves behind to the API calls of a running kernel.     *)
(*                                                                         *)
(* Tables are real: `mem` gives every frame its contents as a page table,  *)
(* walked level by level as the code walks it.  Only the geometry shrinks: *)
(* a table has E4, E3, E2 or E1 entries instead of 512, and addresses are  *)
(* page and frame numbers.  `cached` is what the TLB may hold: every       *)
(* translation the tables offered since the last flush.                    *)
(***************************************************************************)
EXTENDS Integers, Sequences, FiniteSetsExt

CONSTANTS
  E4, E3, E2, E1,      \* entries per table (512); E1 pages make a large page
  KERNEL_VMA,          \* first page of the kernel window
  TEXT, RODATA, DATA, BSS, VIRT_END,    \* the sections' first pages, and end
  HEAP_VIRT_START, HEAP_PHYS, HEAP_PAGES,
  VGA,                 \* the frame of the text buffer
  BOOT_PML4, BOOT_PDPT, BOOT_PDS,       \* the frames boot.asm built tables in
  Free,                \* the possible sets of frames the PMM can still give
  Requests,            \* map_4k and map_2m calls made on a running kernel
  MAX_CALLS            \* bound on those calls

BOOT_MAPPED == Len(BOOT_PDS) * E2 * E1
Frames == 0 .. (BOOT_MAPPED - 1)
Pages == 0 .. (E4 * E3 * E2 * E1 - 1)
Slots == 0 .. (Max({E4, E3, E2, E1}) - 1)
None == -1
BootTables == {BOOT_PML4, BOOT_PDPT} \cup Range(BOOT_PDS)

\* The tables of boot.asm are distinct frames, and the PMM has none of them to
\* give.
ASSUME GeometryAssumption ==
  /\ {E4, E3, E2, E1} \subseteq Nat \ {0}
  /\ BOOT_PDS \in Seq(Frames) /\ Len(BOOT_PDS) < E3
  /\ {BOOT_PML4, BOOT_PDPT} \subseteq Frames \ Range(BOOT_PDS)
  /\ BOOT_PML4 # BOOT_PDPT
  /\ \A F \in Free : F \subseteq Frames \ BootTables

Skipped == {"skipped"}

VARIABLES mem,      \* the contents of every frame, read as a table
          free,     \* frames pmm::allocate_frame can still return
          pool,     \* PT_POOL: the table frames taken so far
          KERNEL_PML4, cr3,
          nx,       \* NX_AVAILABLE
          nx_param, \* params.nx
          phase,
          todo,     \* the map calls still to make, the first one in progress
          cached,   \* translations the TLB may hold
          space,    \* what translate answers for every page
          audit,    \* the W^X count report_vmm printed, None before
          failed,   \* the self-tests that failed, Skipped when none ran
          calls, panic

vars == <<mem, free, pool, KERNEL_PML4, cr3, nx, nx_param, phase, todo,
          cached, space, audit, failed, calls, panic>>

----------------------------------------------------------------------------
\* Entries and permissions.

bits == [TextRoX      |-> [w |-> FALSE, nx |-> FALSE, g |-> TRUE],
         RoData       |-> [w |-> FALSE, nx |-> TRUE,  g |-> TRUE],
         DataRwNx     |-> [w |-> TRUE,  nx |-> TRUE,  g |-> TRUE],
         Device       |-> [w |-> TRUE,  nx |-> TRUE,  g |-> FALSE],
         BootIdentity |-> [w |-> TRUE,  nx |-> TRUE,  g |-> FALSE]]

\* The variant forgets that the CPU may lack NX.
effective_raw(perm) == bits[perm]
effective(perm) == LET f == bits[perm]
                   IN  [w |-> f.w, nx |-> f.nx /\ nx, g |-> f.g]

leaf(addr, f, huge) == [addr |-> addr, w |-> f.w, nx |-> f.nx, huge |-> huge,
                        g |-> f.g]

absent == [addr |-> None, w |-> FALSE, nx |-> FALSE, huge |-> FALSE,
           g |-> FALSE]

is_present(e) == e.addr # None

\* A CPU without NX is reported separately; the variant forgets the NX bit.
is_wx_any(e) == e.w /\ nx
is_wx(e) == e.w /\ nx /\ ~e.nx

\* Intermediate entries are PRESENT | WRITABLE; the variant adds NX.
table_entry_nx(f) == leaf(f, [w |-> TRUE, nx |-> nx, g |-> FALSE], FALSE)
table_entry(f) == leaf(f, [w |-> TRUE, nx |-> FALSE, g |-> FALSE], FALSE)

indices(va) == <<va \div (E3 * E2 * E1), (va \div (E2 * E1)) % E3,
                 (va \div E1) % E2, va % E1>>

virt_to_phys(va) == va - KERNEL_VMA
phys_to_virt(pa) == pa + KERNEL_VMA

align_down(va) == va - (va % E1)
align_up(va) == align_down(va + E1 - 1)

----------------------------------------------------------------------------
\* Walks.

\* The entries met on the way from `root` to `va`, at most four.
walk(m, root, va) ==
  LET i  == indices(va)
      e4 == m[root][i[1]]
      e3 == m[e4.addr][i[2]]
      e2 == m[e3.addr][i[3]]
      e1 == m[e2.addr][i[4]]
  IN  IF ~is_present(e4) THEN <<e4>>
      ELSE IF ~is_present(e3) \/ e3.huge THEN <<e4, e3>>
      ELSE IF ~is_present(e2) \/ e2.huge THEN <<e4, e3, e2>>
      ELSE <<e4, e3, e2, e1>>

\* The entry a walk ends at.
leaf_of(path) == path[Len(path)]

\* The frame a leaf found at that depth gives the page.
frame_at(path, va) ==
  LET addr == leaf_of(path).addr
  IN  CASE Len(path) = 4 -> addr
        [] Len(path) = 3 -> align_down(addr) + (va % E1)
        [] OTHER -> addr - (addr % (E2 * E1)) + (va % (E2 * E1))

NotMapped == [frame |-> None, w |-> FALSE, x |-> FALSE]

\* The walk the code makes: the permissions are those of the leaf.
translate(m, root, va) ==
  LET path == walk(m, root, va)
      e    == leaf_of(path)
  IN  IF root = None THEN NotMapped
      ELSE IF ~is_present(e) THEN NotMapped
      ELSE [frame |-> frame_at(path, va), w |-> e.w, x |-> ~e.nx]

\* External: the walk the processor makes.  A page is writable when every
\* level says so and executable when no level forbids it.
hardware(m, root, va) ==
  LET path == walk(m, root, va)
      on   == DOMAIN path
  IN  IF ~is_present(leaf_of(path)) THEN NotMapped
      ELSE [frame |-> frame_at(path, va), w |-> \A k \in on : path[k].w,
            x |-> ~\E k \in on : path[k].nx]

\* External: what the TLB may hold next, having kept `kept`.
TlbFill(kept) ==
  cached' = kept \cup
    {t \in {[page |-> p, to |-> hardware(mem', cr3', p),
             g |-> leaf_of(walk(mem', cr3', p)).g] : p \in Pages} : t.to # NotMapped}

Observe == space' = [p \in Pages |-> translate(mem', KERNEL_PML4', p)]

\* A CR3 write drops everything but the GLOBAL translations.
NotFlushed == {t \in cached : t.g}

\* A leaf is counted once, at the first page it maps.
first_of_leaf(path, va) ==
  va % (CASE Len(path) = 4 -> 1 [] Len(path) = 3 -> E1 [] OTHER -> E2 * E1) = 0

count_wx_violations ==
  IF KERNEL_PML4 = None THEN 0
  ELSE Cardinality({p \in Pages : LET path == walk(mem, KERNEL_PML4, p)
                                  IN  /\ first_of_leaf(path, p)
                                      /\ is_present(leaf_of(path))
                                      /\ is_wx(leaf_of(path))})

----------------------------------------------------------------------------
\* The tables boot.asm builds: the identity map and its alias in the kernel
\* half share one PDPT, whose two windows share their PDs.
boot_entry(f) == leaf(f, [w |-> TRUE, nx |-> FALSE, g |-> FALSE], FALSE)

boot_tables(stale) ==
  LET rest   == [i \in Slots |-> IF stale THEN boot_entry(0) ELSE absent]
      clear  == [i \in Slots |-> absent]
      window(i) == (i % (E3 - Len(BOOT_PDS))) + 1
  IN  [f \in Frames |->
        CASE f = BOOT_PML4 ->
               [clear EXCEPT ![0] = boot_entry(BOOT_PDPT),
                             ![E4 - 1] = boot_entry(BOOT_PDPT)]
          [] f = BOOT_PDPT ->
               [i \in Slots |-> IF window(i) \in DOMAIN BOOT_PDS /\ i < E3
                                THEN boot_entry(BOOT_PDS[window(i)])
                                ELSE absent]
          [] f \in Range(BOOT_PDS) ->
               LET d == CHOOSE d \in DOMAIN BOOT_PDS : BOOT_PDS[d] = f
               IN  [i \in Slots |->
                      IF i < E2 THEN [boot_entry(((d - 1) * E2 + i) * E1)
                                        EXCEPT !.huge = TRUE]
                                ELSE absent]
          [] OTHER -> rest]

Init == /\ \E stale \in BOOLEAN : mem = boot_tables(stale)
        /\ free \in Free
        /\ pool = {} /\ KERNEL_PML4 = None /\ cr3 = BOOT_PML4
        /\ nx \in BOOLEAN /\ nx_param \in BOOLEAN
        /\ phase = "boot" /\ todo = <<>> /\ cached = {}
        /\ space = [p \in Pages |-> NotMapped]
        /\ audit = None /\ failed = Skipped /\ calls = 0 /\ panic = "none"

Panic(why) == /\ panic' = why
              /\ phase' = "stopped"

----------------------------------------------------------------------------
\* PtPool::alloc and descend, on a record of the state they change.  `at` is
\* the table reached, None once the PMM has run out of frames.  Which frame the
\* PMM gives does not matter.

zeroed(m, f) == [m EXCEPT ![f] = [i \in Slots |-> absent]]

\* The variant leaves the frame with the PMM.
alloc_shared(s) ==
  IF s.free = {} THEN [s EXCEPT !.at = None]
  ELSE LET f == CHOOSE g \in s.free : TRUE
       IN  [s EXCEPT !.at = f, !.pool = @ \cup {f}, !.mem = zeroed(@, f)]

alloc(s) ==
  IF s.free = {} THEN [s EXCEPT !.at = None]
  ELSE LET f == CHOOSE g \in s.free : TRUE
       IN  [mem |-> zeroed(s.mem, f), free |-> s.free \ {f},
            pool |-> s.pool \cup {f}, at |-> f]

descend(s, i) ==
  IF s.at = None THEN s
  ELSE LET e == s.mem[s.at][i]
           n == alloc(s)
       IN  IF is_present(e) THEN [s EXCEPT !.at = e.addr]
           ELSE IF n.at = None THEN n
           ELSE [n EXCEPT !.mem[s.at][i] = table_entry(n.at)]

here == [mem |-> mem, free |-> free, pool |-> pool, at |-> KERNEL_PML4]

goes_to(s) == /\ free' = s.free
              /\ pool' = s.pool

\* A map call: n pages, or n large pages, from va on consecutive frames.
call(large, va, pa, n, perm) ==
  [large |-> large, va |-> va, pa |-> pa, n |-> n, perm |-> perm]

size(c) == IF c.large THEN E1 ELSE 1

rest_of(c) == IF c.n = 1 THEN Tail(todo)
              ELSE <<call(c.large, c.va + size(c), c.pa + size(c), c.n - 1, c.perm)>>
                   \o Tail(todo)

\* The remap check of map_4k; the variant has none.
refuses_never(old, pa) == FALSE
refuses(old, pa) == is_present(old) /\ old.addr # pa

aligned(c) == c.va % size(c) = 0 /\ c.pa % size(c) = 0

\* One iteration of the loop of map_4k.
map_4k(c) ==
  LET i   == indices(c.va)
      s   == descend(descend(descend(here, i[1]), i[2]), i[3])
      old == s.mem[s.at][i[4]]
  IN  /\ ~c.large
      /\ goes_to(s)
      /\ \/ /\ s.at = None
            /\ mem' = s.mem
            /\ Panic("out of page-table frames")
            /\ UNCHANGED todo
         \/ /\ s.at # None
            /\ refuses(old, c.pa)
            /\ mem' = s.mem
            /\ Panic("refusing to remap")
            /\ UNCHANGED todo
         \/ /\ s.at # None
            /\ ~refuses(old, c.pa)
            /\ mem' = [s.mem EXCEPT ![s.at][i[4]] =
                         leaf(c.pa, effective(c.perm), FALSE)]
            /\ todo' = rest_of(c)
            /\ UNCHANGED <<panic, phase>>

\* One iteration of the loop of map_2m: the PD entry is overwritten.
map_2m(c) ==
  LET i == indices(c.va)
      s == descend(descend(here, i[1]), i[2])
  IN  /\ c.large
      /\ \/ /\ ~aligned(c)
            /\ Panic("unaligned")
            /\ UNCHANGED <<mem, free, pool, todo>>
         \/ /\ aligned(c)
            /\ s.at = None
            /\ goes_to(s)
            /\ mem' = s.mem
            /\ Panic("out of page-table frames")
            /\ UNCHANGED todo
         \/ /\ aligned(c)
            /\ s.at # None
            /\ goes_to(s)
            /\ mem' = [s.mem EXCEPT ![s.at][i[3]] =
                         leaf(c.pa, effective(c.perm), TRUE)]
            /\ todo' = rest_of(c)
            /\ UNCHANGED <<panic, phase>>

map_page == /\ todo # <<>>
            /\ phase \in {"init", "running"}
            /\ map_4k(Head(todo)) \/ map_2m(Head(todo))
            /\ UNCHANGED <<KERNEL_PML4, cr3, nx, nx_param, audit, failed, calls>>
            /\ TlbFill(cached)
            /\ Observe

----------------------------------------------------------------------------
\* vmm::init.

\* What the linker script guarantees and init asserts: the sections lie in
\* ascending order, each in large pages of its own.
ASSUME LayoutAssumption ==
  /\ align_down(TEXT) = TEXT
  /\ TEXT < RODATA /\ RODATA < DATA /\ DATA < BSS /\ BSS < VIRT_END
  /\ align_down(RODATA) # align_down(TEXT)
  /\ align_down(DATA) # align_down(RODATA)
  /\ align_down(BSS) # align_down(DATA)
  /\ HEAP_PHYS + HEAP_PAGES <= BOOT_MAPPED

\* Nothing is mapped for an empty region.
region(start, end, perm) ==
  IF end = start THEN << >>
  ELSE <<call(FALSE, start, virt_to_phys(start), end - start, perm)>>

regions == region(TEXT, align_down(RODATA), "TextRoX")
           \o region(RODATA, align_down(DATA), "RoData")
           \o region(DATA, align_down(BSS), "DataRwNx")
           \o region(BSS, align_up(VIRT_END), "DataRwNx")

\* The variant maps one page too many.
heap_region_long ==
  call(FALSE, HEAP_VIRT_START, HEAP_PHYS, HEAP_PAGES + 1, "DataRwNx")
heap_region == call(FALSE, HEAP_VIRT_START, HEAP_PHYS, HEAP_PAGES, "DataRwNx")

vga_window == call(FALSE, phys_to_virt(VGA), VGA, 1, "Device")

init_calls == regions \o <<heap_region, vga_window>>

\* What the callers of map_4k and map_2m guarantee: the pages are pages of the
\* kernel half, or of an identity page whose large page holds memory of their
\* own; and what they map as a large page is memory of their own, in which
\* nobody keeps a page table.
Calls == [large : BOOLEAN, va : Nat, pa : Nat, n : Nat \ {0}, perm : DOMAIN bits]
pages_of(c) == c.va .. (c.va + c.n * size(c) - 1)
Owned == Frames \ (BootTables \cup UNION Free)
identity_page(v) == LET path == walk(boot_tables(FALSE), BOOT_PML4, v)
                    IN  Len(path) = 3 /\ leaf_of(path).addr \in Owned

ASSUME CallAssumption ==
  /\ Requests \cup Range(init_calls) \subseteq Calls
  /\ \A c \in Requests \cup Range(init_calls) : \A v \in pages_of(c) :
       /\ v \in Pages
       /\ v >= E3 * E2 * E1 \/ (~c.large /\ identity_page(v))
       /\ c.large => c.pa + (v - c.va) \in Owned

\* The new root inherits PML4[0] and nothing else.
init ==
  LET s == alloc([here EXCEPT !.at = cr3])
  IN  /\ phase = "boot"
      /\ goes_to(s)
      /\ \/ /\ s.at = None
            /\ Panic("no frame for the kernel PML4")
            /\ UNCHANGED <<mem, KERNEL_PML4, todo>>
         \/ /\ s.at # None
            /\ mem' = [s.mem EXCEPT ![s.at][0] = mem[cr3][0]]
            /\ KERNEL_PML4' = s.at
            /\ todo' = init_calls
            /\ phase' = "init"
            /\ UNCHANGED panic
      /\ UNCHANGED <<cr3, nx, nx_param, audit, failed, calls>>
      /\ TlbFill(cached)
      /\ Observe

\* Cr3::write, at the end of init.
switch_cr3 == /\ phase = "init"
              /\ todo = <<>>
              /\ cr3' = KERNEL_PML4
              /\ phase' = "switched"
              /\ UNCHANGED <<mem, free, pool, KERNEL_PML4, nx, nx_param, todo,
                             audit, failed, calls, panic>>
              /\ TlbFill(NotFlushed)
              /\ Observe

----------------------------------------------------------------------------
\* kmain after init: the audit, hardening, the self-test, API calls.

report_vmm == /\ phase = "switched"
              /\ audit' = count_wx_violations
              /\ phase' = "audited"
              /\ UNCHANGED <<mem, free, pool, KERNEL_PML4, cr3, nx, nx_param,
                             todo, cached, space, failed, calls, panic>>

\* Every PD the PDPT behind PML4[0] points at; both windows share them.
boot_pds == LET pdpt == mem[cr3][0].addr
            IN  {mem[pdpt][i].addr : i \in {j \in 0 .. (E3 - 1) :
                                              is_present(mem[pdpt][j])}}

hardened(e) == IF is_present(e)
               THEN leaf(e.addr, effective("BootIdentity"), TRUE)
               ELSE e

\* The variant leaves the TLB alone.
flush_not == cached
flush_all == NotFlushed

hardened_entries == 0 .. (E2 - 1)

harden_boot_map ==
  /\ phase = "audited"
  /\ nx_param
  /\ mem' = [f \in Frames |->
               IF f \in boot_pds
               THEN [i \in Slots |-> IF i \in hardened_entries
                                     THEN hardened(mem[f][i]) ELSE mem[f][i]]
               ELSE mem[f]]
  /\ phase' = "hardened"
  /\ UNCHANGED <<free, pool, KERNEL_PML4, cr3, nx, nx_param, todo, audit,
                 failed, calls, panic>>
  /\ TlbFill(flush_all)
  /\ Observe

leave_boot_map == /\ phase = "audited"
                  /\ ~nx_param
                  /\ phase' = "hardened"
                  /\ UNCHANGED <<mem, free, pool, KERNEL_PML4, cr3, nx,
                                 nx_param, todo, cached, space, audit, failed, calls,
                                 panic>>

Sections == {TEXT, RODATA, DATA, BSS}

\* The self-tests that look at the page tables, each with its failure.
selftests ==
  [heap_guarded |->
     \/ space[HEAP_VIRT_START - 1] # NotMapped
     \/ space[HEAP_VIRT_START + HEAP_PAGES] # NotMapped,
   vmm_translation |->
     \E v \in Sections : space[v].frame # virt_to_phys(v),
   wx_policy |-> count_wx_violations # 0 \/ ~nx,
   text_not_writable |->
     space[TEXT] = NotMapped \/ space[TEXT].w \/ ~space[TEXT].x,
   rodata_not_writable |->
     space[RODATA] = NotMapped \/ space[RODATA].w,
   boot_map_nx |-> space[E1] = NotMapped \/ space[E1].x]

run_selftest ==
  /\ phase = "hardened"
  /\ failed' = {t \in DOMAIN selftests : selftests[t]}
  /\ IF failed' = {} THEN phase' = "running" /\ UNCHANGED panic
                     ELSE Panic("boot self-test failed")
  /\ UNCHANGED <<mem, free, pool, KERNEL_PML4, cr3, nx, nx_param, todo, cached,
                 space, audit, calls>>

skip_selftest == /\ phase = "hardened"
                 /\ phase' = "running"
                 /\ UNCHANGED <<mem, free, pool, KERNEL_PML4, cr3, nx,
                                nx_param, todo, cached, space, audit, failed, calls,
                                panic>>

\* A running kernel maps more memory.
request == /\ phase = "running"
           /\ todo = <<>>
           /\ calls < MAX_CALLS
           /\ \E c \in Requests : todo' = <<c>>
           /\ calls' = calls + 1
           /\ UNCHANGED <<mem, free, pool, KERNEL_PML4, cr3, nx, nx_param,
                          phase, cached, space, audit, failed, panic>>

Next == init \/ map_page \/ switch_cr3 \/ report_vmm \/ harden_boot_map
        \/ leave_boot_map \/ run_selftest \/ skip_selftest \/ request

Spec == Init /\ [][Next]_vars

----------------------------------------------------------------------------
\* Properties.

\* The kernel's own tables, level by level, as the entry that holds each one.
Level3 == {<<KERNEL_PML4, i>> : i \in {j \in 1 .. (E4 - 1) :
                                         is_present(mem[KERNEL_PML4][j])}}
Below(level, n) ==
  {<<mem[e[1]][e[2]].addr, i>> : e \in level, i \in 0 .. (n - 1)}
Held(level) == {e \in level : is_present(mem[e[1]][e[2]]) /\ ~mem[e[1]][e[2]].huge}
Level2 == Held(Below(Level3, E3))
Level1 == Held(Below(Level2, E2))
Holders == Level3 \cup Level2 \cup Level1

\* Every table below the kernel root is a frame the pool took from the PMM,
\* holds exactly one place in one level of the tree, and is neither free nor a
\* boot table: descend and PtPool::alloc never hand one frame out twice.
TablesHaveOneOwner ==
  KERNEL_PML4 # None =>
    /\ \A e \in Holders : mem[e[1]][e[2]].addr \in pool \ (free \cup BootTables)
    /\ \A e, h \in Holders : mem[e[1]][e[2]].addr = mem[h[1]][h[2]].addr => e = h

on_cpu(va) == hardware(mem, cr3, va)

\* From the CR3 write on, the processor can go on: it executes .text at the
\* frames it was loaded at, writes .data and .bss, and reaches every page
\* table at its physical address, which is what table_at relies on.
KernelKeepsRunning ==
  cr3 = KERNEL_PML4 =>
    /\ \A v \in TEXT .. (align_down(RODATA) - 1) :
         on_cpu(v).frame = virt_to_phys(v) /\ on_cpu(v).x
    /\ \A v \in DATA .. (VIRT_END - 1) :
         on_cpu(v).frame = virt_to_phys(v) /\ on_cpu(v).w
    /\ \A f \in pool \cup BootTables : on_cpu(f).frame = f /\ on_cpu(f).w

\* count_wx_violations reads leaf entries only, the processor combines all
\* four levels: they agree on how many leaves are writable and executable.
AuditMatchesHardware ==
  cr3 = KERNEL_PML4 /\ nx =>
    count_wx_violations =
      Cardinality({p \in Pages : /\ first_of_leaf(walk(mem, cr3, p), p)
                                /\ on_cpu(p).w /\ on_cpu(p).x})

\* Once the boot map is hardened, neither the tables nor any translation the
\* TLB may still hold lets the kernel write a page and execute it.
HardenedMeansNoWX ==
  nx /\ nx_param /\ phase \in {"hardened", "running"} =>
    ~\E t \in cached : t.to.w /\ t.to.x

\* Without EFER.NXE bit 63 is reserved and faults on every access: no entry the
\* processor can reach from CR3 sets it.
NoReservedBit ==
  ~nx => \A p \in Pages : LET path == walk(mem, cr3, p)
                          IN  \A k \in DOMAIN path : ~path[k].nx

\* The self-test passes exactly on the boots that can enforce W^X: the CPU has
\* NX and orin.nx is on.  Every other boot that runs it stops.
SelfTestMeansWX ==
  failed # Skipped => (failed = {} <=> nx /\ nx_param)

Low == {p \in 0 .. (E3 * E2 * E1 - 1) : ((p \div (E2 * E1)) % (E3 - Len(BOOT_PDS)))
                                          < Len(BOOT_PDS)}

Inherited == [p \in Low |-> ((p \div (E2 * E1)) % (E3 - Len(BOOT_PDS))) * E2 * E1
                            + (p % (E2 * E1))]

in_large_page(p) == /\ KERNEL_PML4 # None
                    /\ is_present(leaf_of(walk(mem, KERNEL_PML4, p)))
                    /\ leaf_of(walk(mem, KERNEL_PML4, p)).huge

NoCall == [none |-> TRUE]

Space == INSTANCE AddressSpace
           WITH RUN <- E1,
                Writable <- {perm \in DOMAIN bits : bits[perm].w},
                large <- {p \in Pages : in_large_page(p)},
                asked <- IF todo = <<>> THEN NoCall ELSE Head(todo)

\* What translate answers is a map that follows the calls page by page: each
\* call that is not refused gives its pages the frames it names, in order.
\* map_4k never moves a page; map_2m, which overwrites the PD entry unchecked,
\* moves a whole run at once; a map_4k that descends through a large page has
\* no effect anybody can see; table allocation, partial walks that run out of
\* frames and refused remaps change nothing; and only hardening takes
\* permissions away.
ImplementsAddressSpace == Space!Spec

=============================================================================

----------------------------- MODULE VmmProofs -----------------------------
(***************************************************************************)
(* Proofs about the page tables, for every geometry, every layout of the   *)
(* kernel, every set of free frames and any number of map calls.           *)
(***************************************************************************)
EXTENDS VmmTreeProofs

-----------------------------------------------------------------------------
(* The inductive invariant. *)

\* The calls of map_4k and map_2m: to the kernel half or, small ones, to a page
\* of the identity map in memory of the caller; large ones map such memory.
Proper == {c \in Calls : \A v \in pages_of(c) :
             /\ v \in Pages
             /\ v >= E3 * E2 * E1 \/ (~c.large /\ identity_page(v))
             /\ c.large => c.pa + (v - c.va) \in Owned}

\* The kernel's tables are a tree.
OwnTables == \E T : Tree(T, mem, free, pool) /\ T[Root] = KERNEL_PML4

\* The boot tables stay what they were, the kernel's are a tree with leaves
\* that fit, hardening has reached every boot leaf, and no stale translation
\* that is GLOBAL lets through more.
VmmInv ==
  /\ nx \in BOOLEAN
  /\ mem \in Mem /\ free \in SUBSET Frames /\ pool \in SUBSET Frames
  /\ free \cap Fixed = {}
  /\ Boot(mem)
  /\ todo \in Seq(Proper)
  /\ KERNEL_PML4 = None => cr3 = BOOT_PML4 /\ phase \in {"boot", "stopped"}
  /\ KERNEL_PML4 # None => /\ OwnTables /\ phase # "boot"
                           /\ cr3 \in {BOOT_PML4, KERNEL_PML4}
  /\ nx_param /\ phase \in {"hardened", "running"} => Hardened(mem)
  /\ nx => \A t \in cached : t.g => ~ (t.to.w /\ t.to.x)
  /\ HardenedMeansNoWX

\* Every walk the processor makes has the shape of a walk.
LEMMA CpuWalks ==
  ASSUME VmmInv, NEW v \in Pages
  PROVE  WalkShape(mem, v, walk(mem, cr3, v))
<1>1. CASE cr3 = BOOT_PML4
  BY Zenon, <1>1, FirstRootWalk DEF VmmInv
<1>2. CASE cr3 # BOOT_PML4
  <2>1. OwnTables /\ cr3 = KERNEL_PML4 /\ nx \in BOOLEAN /\ mem \in Mem /\ Boot(mem)
    BY Zenon, <1>2 DEF VmmInv
  <2>2. PICK T : Tree(T, mem, free, pool) /\ T[Root] = cr3
    BY Zenon, <2>1 DEF OwnTables
  <2>. QED  BY Zenon, <2>1, <2>2, KernelWalk
<1>. QED  BY Zenon, <1>1, <1>2

\* At boot only the tables of boot.asm exist.
LEMMA VmmInvInit == Init => VmmInv
<1>1. SUFFICES ASSUME Init PROVE VmmInv
  OBVIOUS
<1>2. nx \in BOOLEAN /\ mem \in Mem /\ Boot(mem)
  BY Zenon, <1>1, BootTablesFacts DEF Init
<1>3. free \in SUBSET Frames /\ pool \in SUBSET Frames /\ free \cap Fixed = {}
  BY Zenon, <1>1, FrameFacts DEF Init
<1>4. todo \in Seq(Proper) /\ cached = {} /\ phase = "boot" /\ KERNEL_PML4 = None
      /\ cr3 = BOOT_PML4
  BY <1>1 DEF Init
<1>. QED  BY Zenon, <1>2, <1>3, <1>4 DEF VmmInv, HardenedMeansNoWX

\* A step that leaves tables and a TLB of the right kind keeps the invariant.
LEMMA TablesStep ==
  ASSUME VmmInv, nx' = nx, mem' \in Mem, Boot(mem'),
         free' \subseteq free, pool' \in SUBSET Frames, todo' \in Seq(Proper),
         \/ KERNEL_PML4' = None /\ cr3' = BOOT_PML4 /\ phase' \in {"boot", "stopped"}
         \/ /\ KERNEL_PML4' # None /\ cr3' \in {BOOT_PML4, KERNEL_PML4'} /\ phase' # "boot"
            /\ \E T : Tree(T, mem', free', pool') /\ T[Root] = KERNEL_PML4',
         nx_param' /\ phase' \in {"hardened", "running"} => Hardened(mem'),
         NEW kept \in SUBSET cached, TlbFill(kept),
         nx /\ nx_param' /\ phase' \in {"hardened", "running"}
           => \A t \in kept : ~ (t.to.w /\ t.to.x)
  PROVE  VmmInv'
<1>1. nx \in BOOLEAN /\ (nx => \A t \in kept : t.g => ~ (t.to.w /\ t.to.x))
  BY Zenon DEF VmmInv
<1>2. \A v \in Pages : WalkShape(mem', v, walk(mem', cr3', v))
  BY Zenon, <1>1, RootWalk
<1>3. nx => \A t \in cached' : t.g => ~ (t.to.w /\ t.to.x)
  BY Zenon, <1>1, <1>2, TlbStep
<1>4. nx /\ nx_param' /\ phase' \in {"hardened", "running"}
        => \A t \in cached' : ~ (t.to.w /\ t.to.x)
  BY Zenon, <1>1, <1>2, TlbStep
<1>5. HardenedMeansNoWX'
  BY Zenon, <1>4 DEF HardenedMeansNoWX
<1>6. /\ nx' \in BOOLEAN /\ free' \in SUBSET Frames /\ free' \cap Fixed = {}
  BY Zenon DEF VmmInv
<1>7. Boot(mem)' /\ (nx_param' /\ phase' \in {"hardened", "running"} => Hardened(mem)')
  BY Zenon, NxSame
<1>8. KERNEL_PML4' # None => OwnTables'
  BY Zenon, NxSame DEF OwnTables
<1>9. (nx => \A t \in cached : t.g => ~ (t.to.w /\ t.to.x))'
  BY Zenon, <1>3
<1>. QED  BY Zenon, <1>5, <1>6, <1>7, <1>8, <1>9 DEF VmmInv

\* A step that touches neither tables nor TLB.
LEMMA QuietStep ==
  ASSUME VmmInv, UNCHANGED <<mem, free, pool, KERNEL_PML4, cr3, nx, nx_param, cached>>,
         todo' \in Seq(Proper),
         phase \notin {"boot", "stopped"}, phase' # "boot",
         nx_param /\ phase' \in {"hardened", "running"} => phase \in {"hardened", "running"}
  PROVE  VmmInv'
<1>1. KERNEL_PML4 # None
  BY Zenon DEF VmmInv
<1>2. Boot(mem)' /\ (Hardened(mem) => Hardened(mem)')
  <2>1. nx' = nx /\ mem' = mem
    OBVIOUS
  <2>. QED  BY Zenon, <2>1, NxSame DEF VmmInv
<1>3. OwnTables'
  <2>1. nx' = nx /\ mem' = mem /\ free' = free /\ pool' = pool /\ KERNEL_PML4' = KERNEL_PML4
    OBVIOUS
  <2>2. OwnTables
    BY Zenon, <1>1 DEF VmmInv
  <2>. QED  BY Zenon, <2>1, <2>2, NxSame DEF OwnTables
<1>4. HardenedMeansNoWX'
  BY Zenon DEF VmmInv, HardenedMeansNoWX
<1>5. (nx => \A t \in cached : t.g => ~ (t.to.w /\ t.to.x))'
  BY Zenon DEF VmmInv
<1>6. nx_param' /\ phase' \in {"hardened", "running"} => Hardened(mem)'
  BY Zenon, <1>2 DEF VmmInv
<1>. QED  BY Zenon, <1>1, <1>2, <1>3, <1>4, <1>5, <1>6 DEF VmmInv

-----------------------------------------------------------------------------
(* The map calls. *)

\* The tables of a page of the kernel half, down to its PD.
LEMMA DescendTwice ==
  ASSUME VmmInv, NEW T, Tree(T, mem, free, pool), T[Root] = KERNEL_PML4,
         NEW v \in Pages, v >= E3 * E2 * E1
  PROVE  LET i == indices(v)
             s == descend(descend(here, i[1]), i[2])
         IN  \E U : /\ Better(here, T, s, U)
                    /\ s.at # None => s.at = U[<<2, i[1], i[2], 0>>]
<1> DEFINE i == indices(v)
           s1 == descend(here, i[1])
           s2 == descend(s1, i[2])
           p3 == <<3, i[1], 0, 0>>
           p2 == <<2, i[1], i[2], 0>>
<1>1. i[1] \in Slots /\ i[2] \in Slots /\ i[1] # 0 /\ 0 \in Slots
  BY SMTT(60), IndexSlots, IndexFacts, SlotFacts
<1>2. /\ Root \in Positions /\ p3 \in Positions /\ Child(Root, i[1]) = p3 /\ Child(p3, i[2]) = p2
      /\ Root[1] = 4 /\ p3[1] = 3 /\ p3 # Root
  BY <1>1, PositionFacts DEF Child, Root, Positions
<1>3. /\ nx \in BOOLEAN /\ free \cap Fixed = {}
      /\ mem \in Mem /\ free \in SUBSET Frames /\ pool \in SUBSET Frames
  BY Zenon DEF VmmInv
<1>4. T[Root] \in Frames \cup {None}
  BY Zenon, <1>2 DEF Tree
<1>5. /\ here \in Walker /\ here.mem = mem /\ here.free = free /\ here.pool = pool
      /\ here.at = T[Root]
  BY Zenon, <1>3, <1>4 DEF here, Walker
<1> HIDE DEF i
<1>6. \E U : Better(here, T, s1, U) /\ (s1.at # None => s1.at = U[p3])
  <2>1. Root[1] # 1 /\ Root[1] # 2 /\ ~ (Root = Root /\ i[1] = 0)
    BY <1>1, <1>2
  <2>2. /\ here.free \cap Fixed = {} /\ Tree(T, here.mem, here.free, here.pool)
        /\ (here.at # None => here.at = T[Root])
    BY Zenon, <1>3, <1>5
  <2> HIDE DEF p3
  <2>3. \E U : /\ Better(here, T, descend(here, i[1]), U)
               /\ descend(here, i[1]).at # None => descend(here, i[1]).at = U[Child(Root, i[1])]
    <3>1. nx \in BOOLEAN /\ here \in Walker /\ Root \in Positions /\ i[1] \in Slots
      BY Zenon, <1>1, <1>2, <1>3, <1>5
    <3>. QED  BY ZenonT(60), <2>1, <2>2, <3>1, DescendFacts
  <2>. QED  BY Zenon, <1>2, <2>3
<1>7. PICK U : Better(here, T, s1, U) /\ (s1.at # None => s1.at = U[p3])
  BY Zenon, <1>6
<1> HIDE DEF s1
<1>8. s1 \in Walker /\ s1.free \cap Fixed = {} /\ Tree(U, s1.mem, s1.free, s1.pool)
  BY Zenon, <1>3, <1>5, <1>7 DEF Better
<1>9. \E W : Better(s1, U, s2, W) /\ (s2.at # None => s2.at = W[p2])
  <2>1. p3[1] # 1 /\ p3[1] # 2 /\ ~ (p3 = Root /\ i[2] = 0)
    BY <1>2
  <2> HIDE DEF p3, p2
  <2>2. \E W : /\ Better(s1, U, descend(s1, i[2]), W)
               /\ descend(s1, i[2]).at # None => descend(s1, i[2]).at = W[Child(p3, i[2])]
    <3>1. nx \in BOOLEAN /\ p3 \in Positions /\ i[2] \in Slots
      BY Zenon, <1>1, <1>2, <1>3
    <3>. QED  BY ZenonT(60), <1>7, <1>8, <2>1, <3>1, DescendFacts
  <2>. QED  BY Zenon, <1>2, <2>2
<1>10. PICK W : Better(s1, U, s2, W) /\ (s2.at # None => s2.at = W[p2])
  BY Zenon, <1>9
<1>11. Better(here, T, s2, W)
  BY <1>7, <1>10, BetterStill
<1>. QED  BY Zenon, <1>10, <1>11 DEF s1, i

\* And down to its PT, or to the memory its large page maps.
LEMMA DescendThrice ==
  ASSUME VmmInv, NEW T, Tree(T, mem, free, pool), T[Root] = KERNEL_PML4,
         NEW v \in Pages, v >= E3 * E2 * E1
  PROVE  LET i == indices(v)
             s == descend(descend(descend(here, i[1]), i[2]), i[3])
         IN  \E U : /\ Better(here, T, s, U)
                    /\ s.at # None => s.at = U[<<1, i[1], i[2], i[3]>>] \/ s.at \in Owned
<1> DEFINE i == indices(v)
           s2 == descend(descend(here, i[1]), i[2])
           s3 == descend(s2, i[3])
           p2 == <<2, i[1], i[2], 0>>
           p1 == <<1, i[1], i[2], i[3]>>
<1>1. i[1] \in Slots /\ i[2] \in Slots /\ i[3] \in Slots /\ 0 \in Slots
  BY Zenon, IndexSlots, SlotFacts
<1>2. p2 \in Positions /\ Child(p2, i[3]) = p1 /\ p2[1] = 2 /\ p2 # Root
      /\ p2[2] = i[1] /\ p2[3] = i[2]
  BY <1>1 DEF Child, Root, Positions
<1>4. PICK U : Better(here, T, s2, U) /\ (s2.at # None => s2.at = U[p2])
  BY Zenon, DescendTwice
<1>5. nx \in BOOLEAN /\ here.free \cap Fixed = {}
  BY Zenon DEF VmmInv, here
<1> HIDE DEF s2, i
<1>6. s2 \in Walker /\ s2.free \cap Fixed = {} /\ Tree(U, s2.mem, s2.free, s2.pool)
  BY Zenon, <1>4, <1>5 DEF Better
<1>7. \E W : Better(s2, U, s3, W) /\ (s3.at # None => s3.at = W[p1] \/ s3.at \in Owned)
  <2>1. p2[1] # 1
    BY <1>2
  <2> HIDE DEF p2, p1
  <2>2. \E W : /\ Better(s2, U, descend(s2, i[3]), W)
               /\ descend(s2, i[3]).at # None => \/ descend(s2, i[3]).at = W[Child(p2, i[3])]
                                                 \/ p2[1] = 2 /\ descend(s2, i[3]).at \in Owned
    BY ZenonT(60), <1>1, <1>2, <1>4, <1>5, <1>6, <2>1, DescendFacts
  <2>. QED  BY Zenon, <1>2, <2>2
<1>8. PICK W : Better(s2, U, s3, W) /\ (s3.at # None => s3.at = W[p1] \/ s3.at \in Owned)
  BY Zenon, <1>7
<1>9. Better(here, T, s3, W)
  BY <1>4, <1>8, BetterStill
<1>. QED  BY Zenon, <1>8, <1>9 DEF s2, i

\* A page of the identity map: the three descents find the boot tables and the
\* large page, and take nothing.
LEMMA LowDescend ==
  ASSUME VmmInv, NEW T, Tree(T, mem, free, pool), T[Root] = KERNEL_PML4,
         NEW v \in Pages, v < E3 * E2 * E1, identity_page(v)
  PROVE  LET i == indices(v)
             s == descend(descend(descend(here, i[1]), i[2]), i[3])
         IN  Better(here, T, s, T) /\ s.at \in Owned
<1> DEFINE i == indices(v)
           b == boot_tables(FALSE)
           s1 == descend(here, i[1])
           s2 == descend(s1, i[2])
           s3 == descend(s2, i[3])
<1>1. i[1] = 0 /\ i[2] \in Slots /\ i[3] \in Slots /\ 0 \in Slots
  BY SMTT(60), IndexSlots, IndexFacts, SlotFacts
<1>2. nx \in BOOLEAN /\ mem \in Mem /\ free \in SUBSET Frames /\ pool \in SUBSET Frames /\ Boot(mem)
  BY Zenon DEF VmmInv
<1>3. Boot(b) /\ b[BOOT_PML4][0].addr = BOOT_PDPT /\ BOOT_PDPT \in Frames
  <2>1. Boot(b) /\ BOOT_PDPT \in Frames
    BY Zenon, <1>2, BootTablesFacts, FrameFacts DEF BootTables
  <2>. QED  BY Zenon, <2>1, TableEntries DEF Boot
<1> DEFINE e3 == b[BOOT_PDPT][i[2]]
           e2 == b[e3.addr][i[3]]
<1>4. is_present(e3) /\ e2.addr \in Owned
  <2> DEFINE path == walk(b, BOOT_PML4, v)
             e4 == b[BOOT_PML4][0]
             e1 == b[e2.addr][i[4]]
  <2>1. Len(path) = 3 /\ leaf_of(path).addr \in Owned
    BY Zenon DEF identity_page
  <2>2. path = IF ~is_present(e4) THEN <<e4>>
               ELSE IF ~is_present(e3) \/ e3.huge THEN <<e4, e3>>
               ELSE IF ~is_present(e2) \/ e2.huge THEN <<e4, e3, e2>>
               ELSE <<e4, e3, e2, e1>>
    BY Zenon, <1>1, <1>3 DEF walk
  <2> HIDE DEF path, e4, e3, e2, e1
  <2>3. path = <<e4, e3, e2>> /\ is_present(e3)
    BY <2>1, <2>2
  <2>4. leaf_of(path) = e2
    BY <2>3 DEF leaf_of
  <2>. QED  BY Zenon, <2>1, <2>3, <2>4
<1>5. e3.addr \in Range(BOOT_PDS) /\ e3.addr \in BootTables
  <2>1. PICK f \in Range(BOOT_PDS) : e3 = boot_entry(f)
    <3>1. e3 # absent
      BY Zenon, <1>2, <1>4, EntryFacts
    <3>. QED  BY Zenon, <1>1, <1>3, <3>1 DEF Boot
  <2>2. f \in Frames /\ f \in BootTables
    BY Zenon, FrameFacts DEF BootTables
  <2>3. boot_entry(f).addr = f
    BY Zenon, <2>2, TableEntries
  <2> HIDE DEF e3
  <2>. QED  BY Zenon, <2>1, <2>2, <2>3
<1>6. mem[BOOT_PDPT][i[2]].addr = e3.addr /\ mem[e3.addr][i[3]].addr = e2.addr
  <2>1. BOOT_PDPT \in BootTables
    BY Zenon DEF BootTables
  <2>. QED  BY Zenon, <1>1, <1>2, <1>5, <2>1 DEF Boot
<1>7. T[Root] # None /\ T[Root] \in Frames /\ mem[T[Root]][0].addr = BOOT_PDPT
  <2>1. Root[1] # 1 /\ Root \in Positions
    BY PositionFacts DEF Root
  <2>2. /\ T \in [Positions -> Frames \cup {None}] /\ T[Root] # None
        /\ EntryFits(T, Root, 0, mem[T[Root]][0])
    BY Zenon, <1>1, <2>1 DEF Tree
  <2>3. mem[T[Root]][0] = boot_entry(BOOT_PDPT)
    BY Zenon, <2>1, <2>2 DEF EntryFits
  <2>4. boot_entry(BOOT_PDPT).addr = BOOT_PDPT
    BY Zenon, <1>3, TableEntries
  <2>5. T[Root] \in Frames
    BY Zenon, <2>1, <2>2
  <2>. QED  BY Zenon, <2>2, <2>3, <2>4, <2>5
<1>8. BOOT_PDPT # None /\ e3.addr # None /\ e2.addr # None /\ e3.addr \in Frames /\ e2.addr \in Frames
  BY Zenon, <1>3, <1>4, <1>5, FrameFacts
<1> HIDE DEF e3, e2, i, b
<1> DEFINE at(f) == [mem |-> mem, free |-> free, pool |-> pool, at |-> f]
<1>9. ASSUME NEW f \in Frames, NEW j, mem[f][j].addr # None
      PROVE  descend(at(f), j) = at(mem[f][j].addr)
  <2>1. f # None
    BY Zenon, FrameFacts
  <2>2. at(f).at = f /\ at(f).mem = mem /\ is_present(mem[f][j])
    BY Zenon, <1>9 DEF is_present
  <2>3. descend(at(f), j) = [at(f) EXCEPT !.at = mem[f][j].addr]
    BY Zenon, <2>1, <2>2 DEF descend
  <2>. QED  BY <2>3
<1>10. here = at(T[Root])
  BY Zenon DEF here
<1> HIDE DEF at
<1>11. s1 = at(BOOT_PDPT)
  BY Zenon, <1>1, <1>7, <1>8, <1>9, <1>10
<1>12. s2 = at(e3.addr)
  BY Zenon, <1>3, <1>6, <1>8, <1>9, <1>11
<1>13. s3 = at(e2.addr)
  BY Zenon, <1>6, <1>8, <1>9, <1>12
<1>14. Better(here, T, s3, T) /\ s3.at \in Owned
  <2>1. /\ s3 = [mem |-> mem, free |-> free, pool |-> pool, at |-> e2.addr]
        /\ here.mem = mem /\ here.free = free /\ here.pool = pool
    BY Zenon, <1>13 DEF at, here
  <2> HIDE DEF s3
  <2>2. s3 \in Walker /\ s3.mem = mem /\ s3.free = free /\ s3.pool = pool /\ s3.at = e2.addr
    BY Zenon, <1>2, <1>8, <2>1 DEF Walker
  <2>. QED  BY Zenon, <1>4, <2>1, <2>2 DEF Better, Grows
<1>. QED  BY Zenon, <1>14 DEF i

\* The rest of a call asks for the rest of its pages.
LEMMA RestIsProper ==
  ASSUME todo \in Seq(Proper), todo # << >>
  PROVE  /\ Head(todo) \in Proper /\ Head(todo).va \in pages_of(Head(todo))
         /\ rest_of(Head(todo)) \in Seq(Proper)
<1> DEFINE c == Head(todo)
           z == size(c)
           d == call(c.large, c.va + z, c.pa + z, c.n - 1, c.perm)
<1>1. c \in Proper /\ Tail(todo) \in Seq(Proper)
  OBVIOUS
<1>2. /\ c.large \in BOOLEAN /\ c.va \in Nat /\ c.pa \in Nat /\ c.n \in Nat /\ c.n # 0
      /\ c.perm \in DOMAIN bits
  BY Zenon, <1>1 DEF Proper, Calls
<1> HIDE DEF c
<1>3. z \in Nat /\ z # 0
  BY <1>2, GeometryAssumption DEF size
<1>4. pages_of(c) = c.va .. (c.va + c.n * z - 1)
  BY Zenon DEF pages_of
<1>5. z <= c.n * z /\ (c.n - 1) * z + z = c.n * z /\ c.n * z \in Nat /\ (c.n - 1) * z \in Int
  <2> HIDE DEF z
  <2>1. c.n >= 1
    BY <1>2
  <2>2. (c.n - 1) * z + z = c.n * z /\ c.n * z \in Nat
    BY <1>2, <1>3
  <2>3. (c.n - 1) * z \in Nat
    BY <1>2, <1>3, <2>1
  <2>. QED  BY <1>3, <2>2, <2>3
<1>6. c.va \in pages_of(c)
  <2> HIDE DEF z
  <2> DEFINE t == c.n * z
  <2>1. t \in Nat /\ t >= 1
    BY <1>3, <1>5
  <2> HIDE DEF t
  <2>2. pages_of(c) = c.va .. (c.va + t - 1)
    BY Zenon, <1>4 DEF t
  <2>. QED  BY <1>2, <2>1, <2>2
<1>7. ASSUME c.n # 1 PROVE d \in Proper
  <2>1. /\ d.large = c.large /\ d.va = c.va + z /\ d.pa = c.pa + z /\ d.n = c.n - 1
        /\ d.perm = c.perm
    BY Zenon DEF call
  <2>2. d \in Calls
    <3> HIDE DEF z
    <3>. QED  BY <1>2, <1>3, <1>7 DEF call, Calls
  <2>3. size(d) = z
    BY Zenon, <2>1 DEF size
  <2>4. pages_of(d) \subseteq pages_of(c)
    <3>1. pages_of(d) = (c.va + z) .. (c.va + z + (c.n - 1) * z - 1)
      BY Zenon, <2>1, <2>3 DEF pages_of
    <3> HIDE DEF z, d
    <3> DEFINE t == (c.n - 1) * z
               w == c.n * z
    <3>2. t + z = w /\ t \in Int /\ w \in Nat
      BY Zenon, <1>5
    <3> HIDE DEF t, w
    <3>3. pages_of(d) = (c.va + z) .. (c.va + z + t - 1) /\ pages_of(c) = c.va .. (c.va + w - 1)
      BY Zenon, <1>4, <3>1 DEF t, w
    <3>. QED  BY <1>2, <1>3, <3>2, <3>3
  <2>5. \A v \in pages_of(c) : d.pa + (v - d.va) = c.pa + (v - c.va)
    <3>1. pages_of(c) \subseteq Int
      <4>1. pages_of(c) \subseteq Pages
        BY Zenon, <1>1 DEF Proper
      <4>2. Pages \subseteq Int
        BY DEF Pages
      <4>. QED  BY Zenon, <4>1, <4>2
    <3> HIDE DEF z, d
    <3>. QED  BY <1>2, <1>3, <2>1, <3>1
  <2> HIDE DEF d, z
  <2>6. ASSUME NEW v \in pages_of(d)
        PROVE  /\ v \in Pages
               /\ v >= E3 * E2 * E1 \/ (~d.large /\ identity_page(v))
               /\ d.large => d.pa + (v - d.va) \in Owned
    BY Zenon, <1>1, <2>1, <2>4, <2>5 DEF Proper
  <2>. QED  BY Zenon, <2>2, <2>6 DEF Proper
<1>8. rest_of(c) = IF c.n = 1 THEN Tail(todo) ELSE <<d>> \o Tail(todo)
  BY Zenon DEF rest_of
<1> HIDE DEF d
<1>9. rest_of(c) \in Seq(Proper)
  BY <1>1, <1>7, <1>8
<1>. QED  BY Zenon, <1>1, <1>6, <1>9 DEF c

\* The tables a map call reaches and extends, without its leaf.
LEMMA WalkerKeeps ==
  ASSUME VmmInv, NEW T, NEW s, NEW U, Better(here, T, s, U), Tree(T, mem, free, pool),
         T[Root] = KERNEL_PML4
  PROVE  /\ s.mem \in Mem /\ s.free \subseteq free /\ s.pool \in SUBSET Frames
         /\ Tree(U, s.mem, s.free, s.pool) /\ U[Root] = KERNEL_PML4
         /\ \A f \in Fixed : s.mem[f] = mem[f]
<1>1. s \in Walker /\ Tree(U, s.mem, s.free, s.pool) /\ Grows(T, U)
      /\ s.free \subseteq here.free /\ \A f \in Fixed : s.mem[f] = here.mem[f]
  BY Zenon DEF Better
<1>2. here.free = free /\ here.mem = mem
  BY Zenon DEF here
<1>3. T[Root] # None /\ Root \in Positions
  BY Zenon, PositionFacts DEF Tree
<1>4. U[Root] = KERNEL_PML4
  BY Zenon, <1>1, <1>3 DEF Grows
<1>. QED  BY Zenon, <1>1, <1>2, <1>4 DEF Walker

\* Permissions of calls are permissions.
LEMMA CallPerms == DOMAIN bits = Perms
BY Zenon DEF bits, Perms

\* What is written to memory of a caller is no part of the tables.
LEMMA WriteOwned ==
  ASSUME nx \in BOOLEAN, NEW m \in Mem, NEW fr, NEW po, NEW T, Tree(T, m, fr, po),
         NEW f \in Owned, NEW i \in Slots, NEW e \in Entry
  PROVE  /\ [m EXCEPT ![f][i] = e] \in Mem
         /\ Tree(T, [m EXCEPT ![f][i] = e], fr, po)
         /\ \A h \in BootTables : [m EXCEPT ![f][i] = e][h] = m[h]
<1> DEFINE m2 == [m EXCEPT ![f][i] = e]
<1>1. f \in Frames /\ f \in Fixed /\ f \notin BootTables
  BY Zenon, FrameFacts
<1>2. m2 \in Mem
  BY <1>1, Poke
<1>3. \A h \in Frames : h # f => m2[h] = m[h]
  BY Zenon, <1>1 DEF Mem
<1> HIDE DEF m2
<1>4. Tree(T, m2, fr, po)
  BY Zenon, <1>1, <1>3, TreeSame
<1>5. \A h \in BootTables : m2[h] = m[h]
  BY Zenon, <1>1, <1>3, FrameFacts
<1>. QED  BY Zenon, <1>2, <1>4, <1>5 DEF m2

\* One iteration of map_4k.
LEMMA Map4kTables ==
  ASSUME VmmInv, KERNEL_PML4 # None, todo # << >>, map_4k(Head(todo)), UNCHANGED nx
  PROVE  /\ mem' \in Mem /\ free' \subseteq free /\ pool' \in SUBSET Frames
         /\ todo' \in Seq(Proper)
         /\ \E U : Tree(U, mem', free', pool') /\ U[Root] = KERNEL_PML4
         /\ \A f \in BootTables : mem'[f] = mem[f]
         /\ phase' \in {phase, "stopped"}
<1> DEFINE c == Head(todo)
           i == indices(c.va)
           s == descend(descend(descend(here, i[1]), i[2]), i[3])
           e == leaf(c.pa, effective(c.perm), FALSE)
           p == <<1, i[1], i[2], i[3]>>
<1>1. /\ c \in Proper /\ c.va \in pages_of(c) /\ rest_of(c) \in Seq(Proper)
      /\ todo \in Seq(Proper) /\ nx \in BOOLEAN
  BY Zenon, RestIsProper DEF VmmInv
<1>2. PICK T : Tree(T, mem, free, pool) /\ T[Root] = KERNEL_PML4
  BY SMTT(60) DEF VmmInv, OwnTables
<1>3. /\ ~ c.large
      /\ free' = s.free /\ pool' = s.pool /\ phase' \in {phase, "stopped"}
      /\ \/ mem' = s.mem /\ todo' = todo
         \/ s.at # None /\ mem' = [s.mem EXCEPT ![s.at][i[4]] = e] /\ todo' = rest_of(c)
  BY Zenon DEF map_4k, goes_to, Panic
<1>4. c.va \in Pages /\ (c.va >= E3 * E2 * E1 \/ (c.va < E3 * E2 * E1 /\ identity_page(c.va)))
  <2>1. c.va \in Pages /\ (c.va >= E3 * E2 * E1 \/ identity_page(c.va))
    BY Zenon, <1>1, <1>3 DEF Proper
  <2>2. \A m \in Nat, n \in Nat : m >= n \/ m < n
    OBVIOUS
  <2>3. c.va \in Nat /\ E3 * E2 * E1 \in Nat
    <3>1. c.va \in Nat
      BY Zenon, <1>1 DEF Proper, Calls
    <3>. QED  BY <3>1, GeometryAssumption
  <2>. QED  BY Zenon, <2>1, <2>2, <2>3
<1>5. c.pa \in Nat /\ c.perm \in Perms
  BY Zenon, <1>1, CallPerms DEF Proper, Calls
<1>6. i[1] \in Slots /\ i[2] \in Slots /\ i[3] \in Slots /\ i[4] \in Slots
  BY Zenon, <1>4, IndexSlots
<1>7. p \in Positions /\ p[1] = 1
  BY <1>6 DEF Positions
<1>8. \E U : Better(here, T, s, U) /\ (s.at # None => s.at = U[p] \/ s.at \in Owned)
  <2> HIDE DEF c
  <2>1. CASE c.va >= E3 * E2 * E1
    BY Zenon, <1>2, <1>4, <2>1, DescendThrice
  <2>2. CASE c.va < E3 * E2 * E1 /\ identity_page(c.va)
    BY Zenon, <1>2, <1>4, <2>2, LowDescend
  <2>. QED  BY Zenon, <1>4, <2>1, <2>2
<1>13. PICK U : Better(here, T, s, U) /\ (s.at # None => s.at = U[p] \/ s.at \in Owned)
  BY Zenon, <1>8
<1> HIDE DEF s, i, c
<1>9. /\ s.mem \in Mem /\ s.free \subseteq free /\ s.pool \in SUBSET Frames
      /\ Tree(U, s.mem, s.free, s.pool) /\ U[Root] = KERNEL_PML4
      /\ \A f \in BootTables : s.mem[f] = mem[f]
  <2>1. \A f \in BootTables : f \in Fixed
    BY Zenon, FrameFacts
  <2>. QED  BY Zenon, <1>2, <1>13, <2>1, WalkerKeeps
<1>10. todo' \in Seq(Proper)
  BY Zenon, <1>1, <1>3
<1>11. CASE mem' = s.mem
  BY Zenon, <1>3, <1>9, <1>10, <1>11
<1>14. e \in Entry
  BY Zenon, <1>1, <1>5, EntryFacts
<1>15. CASE s.at \in Owned /\ mem' = [s.mem EXCEPT ![s.at][i[4]] = e]
  <2> HIDE DEF e
  <2>1. mem' \in Mem /\ Tree(U, mem', s.free, s.pool) /\ \A f \in BootTables : mem'[f] = s.mem[f]
    <3>1. /\ [s.mem EXCEPT ![s.at][i[4]] = e] \in Mem
          /\ Tree(U, [s.mem EXCEPT ![s.at][i[4]] = e], s.free, s.pool)
          /\ \A f \in BootTables : [s.mem EXCEPT ![s.at][i[4]] = e][f] = s.mem[f]
      <4>1. /\ nx \in BOOLEAN /\ s.mem \in Mem /\ Tree(U, s.mem, s.free, s.pool)
            /\ s.at \in Owned /\ i[4] \in Slots /\ e \in Entry
        BY Zenon, <1>1, <1>6, <1>9, <1>14, <1>15
      <4>. QED  BY ONLY <4>1, WriteOwned
    <3>. QED  BY Zenon, <1>15, <3>1
  <2>. QED  BY Zenon, <1>3, <1>9, <1>10, <2>1
<1>12. CASE s.at # None /\ s.at \notin Owned /\ mem' = [s.mem EXCEPT ![s.at][i[4]] = e]
  <2>1. s.at = U[p] /\ U[p] # None
    BY Zenon, <1>12, <1>13
  <2>2. e \in Entry
    BY Zenon, <1>1, <1>5, EntryFacts
  <2>3. EntryFits(U, p, i[4], e)
    <3>1. KernelLeaf(e, FALSE)
      BY Zenon, <1>5 DEF KernelLeaf
    <3> HIDE DEF e, p
    <3>. QED  BY Zenon, <1>7, <3>1 DEF EntryFits
  <2> HIDE DEF e, p
  <2>4. /\ [s.mem EXCEPT ![U[p]][i[4]] = e] \in Mem
        /\ Tree(U, [s.mem EXCEPT ![U[p]][i[4]] = e], s.free, s.pool)
        /\ \A f \in Fixed : [s.mem EXCEPT ![U[p]][i[4]] = e][f] = s.mem[f]
    BY <1>6, <1>7, <1>9, <2>1, <2>2, <2>3, WriteEntry
  <2>5. /\ mem' \in Mem /\ Tree(U, mem', s.free, s.pool)
        /\ \A f \in BootTables : mem'[f] = s.mem[f]
    BY Zenon, <1>12, <2>1, <2>4, FrameFacts
  <2>. QED  BY Zenon, <1>3, <1>9, <1>10, <2>5
<1>. QED  BY Zenon, <1>3, <1>11, <1>12, <1>15

\* One iteration of map_2m.
LEMMA Map2mTables ==
  ASSUME VmmInv, KERNEL_PML4 # None, todo # << >>, map_2m(Head(todo)), UNCHANGED nx
  PROVE  /\ mem' \in Mem /\ free' \subseteq free /\ pool' \in SUBSET Frames
         /\ todo' \in Seq(Proper)
         /\ \E U : Tree(U, mem', free', pool') /\ U[Root] = KERNEL_PML4
         /\ \A f \in BootTables : mem'[f] = mem[f]
         /\ phase' \in {phase, "stopped"}
<1> DEFINE c == Head(todo)
           i == indices(c.va)
           s == descend(descend(here, i[1]), i[2])
           e == leaf(c.pa, effective(c.perm), TRUE)
           p == <<2, i[1], i[2], 0>>
<1>1. /\ c \in Proper /\ c.va \in pages_of(c) /\ rest_of(c) \in Seq(Proper)
      /\ todo \in Seq(Proper) /\ nx \in BOOLEAN
  BY Zenon, RestIsProper DEF VmmInv
<1>2. PICK T : Tree(T, mem, free, pool) /\ T[Root] = KERNEL_PML4
  BY SMTT(60) DEF VmmInv, OwnTables
<1>3. /\ c.large /\ phase' \in {phase, "stopped"}
      /\ \/ UNCHANGED <<mem, free, pool, todo>>
         \/ mem' = s.mem /\ todo' = todo /\ free' = s.free /\ pool' = s.pool
         \/ /\ s.at # None /\ mem' = [s.mem EXCEPT ![s.at][i[3]] = e] /\ todo' = rest_of(c)
            /\ free' = s.free /\ pool' = s.pool
  BY Zenon DEF map_2m, goes_to, Panic
<1>5. c.va \in Nat /\ c.pa \in Nat /\ c.perm \in Perms
  BY Zenon, <1>1, CallPerms DEF Proper, Calls
<1>4. c.va \in Pages /\ c.va >= E3 * E2 * E1 /\ c.pa \in Owned
  <2>1. c.va \in Pages /\ c.va >= E3 * E2 * E1 /\ c.pa + (c.va - c.va) \in Owned
    BY Zenon, <1>1, <1>3 DEF Proper
  <2> HIDE DEF c
  <2>2. c.pa + (c.va - c.va) = c.pa
    BY <1>5
  <2>. QED  BY Zenon, <2>1, <2>2
<1>6. i[1] \in Slots /\ i[2] \in Slots /\ i[3] \in Slots /\ 0 \in Slots
  BY Zenon, <1>4, IndexSlots, SlotFacts
<1>7. p \in Positions /\ p[1] = 2
  BY <1>6 DEF Positions
<1>8. PICK U : Better(here, T, s, U) /\ (s.at # None => s.at = U[p])
  <2> HIDE DEF c
  <2>. QED  BY Zenon, <1>2, <1>4, DescendTwice
<1> HIDE DEF s, i, c
<1>10. /\ s.mem \in Mem /\ s.free \subseteq free /\ s.pool \in SUBSET Frames
       /\ Tree(U, s.mem, s.free, s.pool) /\ U[Root] = KERNEL_PML4
       /\ \A f \in BootTables : s.mem[f] = mem[f]
  <2>1. \A f \in BootTables : f \in Fixed
    BY Zenon, FrameFacts
  <2>. QED  BY Zenon, <1>2, <1>8, <2>1, WalkerKeeps
<1>11. todo' \in Seq(Proper)
  BY Zenon, <1>1, <1>3
<1>12. CASE UNCHANGED <<mem, free, pool, todo>>
  BY Zenon, <1>2, <1>3, <1>11, <1>12 DEF VmmInv
<1>13. CASE mem' = s.mem /\ free' = s.free /\ pool' = s.pool
  BY SMTT(60), <1>3, <1>10, <1>11, <1>13
<1>14. CASE /\ s.at # None /\ mem' = [s.mem EXCEPT ![s.at][i[3]] = e]
            /\ free' = s.free /\ pool' = s.pool
  <2>1. s.at = U[p] /\ U[p] # None
    BY Zenon, <1>8, <1>14
  <2>2. e \in Entry
    BY Zenon, <1>1, <1>5, EntryFacts
  <2>3. LargeLeaf(e)
    BY Zenon, <1>4, <1>5 DEF LargeLeaf
  <2> HIDE DEF e, p
  <2>4. mem' = [s.mem EXCEPT ![U[p]][i[3]] = e]
    BY Zenon, <1>14, <2>1
  <2>5. PICK W : /\ mem' \in Mem /\ Tree(W, mem', s.free, s.pool) /\ W[Root] = U[Root]
                 /\ \A f \in Fixed : mem'[f] = s.mem[f]
    <3>1. /\ [s.mem EXCEPT ![U[p]][i[3]] = e] \in Mem
          /\ \E W : Tree(W, [s.mem EXCEPT ![U[p]][i[3]] = e], s.free, s.pool) /\ W[Root] = U[Root]
          /\ \A f \in Fixed : [s.mem EXCEPT ![U[p]][i[3]] = e][f] = s.mem[f]
      BY <1>6, <1>7, <1>10, <2>1, <2>2, <2>3, WriteLarge
    <3>. QED  BY Zenon, <2>4, <3>1
  <2>6. /\ mem' \in Mem /\ Tree(W, mem', s.free, s.pool) /\ W[Root] = KERNEL_PML4
        /\ \A f \in BootTables : mem'[f] = s.mem[f]
    BY Zenon, <1>10, <2>5, FrameFacts
  <2>. QED  BY SMTT(60), <1>3, <1>10, <1>11, <1>14, <2>6
<1>. QED  BY Zenon, <1>3, <1>12, <1>13, <1>14

\* Both keep the invariant.
LEMMA MapPageStep == ASSUME VmmInv, map_page PROVE VmmInv'
<1>1. /\ todo # << >> /\ phase \in {"init", "running"} /\ TlbFill(cached)
      /\ UNCHANGED <<KERNEL_PML4, cr3, nx, nx_param>>
      /\ map_4k(Head(todo)) \/ map_2m(Head(todo))
  BY Zenon DEF map_page
<1>2. KERNEL_PML4 # None /\ cr3 \in {BOOT_PML4, KERNEL_PML4} /\ phase # "boot"
  BY Zenon, <1>1 DEF VmmInv
<1>3. /\ mem' \in Mem /\ free' \subseteq free /\ pool' \in SUBSET Frames
      /\ todo' \in Seq(Proper)
      /\ \E U : Tree(U, mem', free', pool') /\ U[Root] = KERNEL_PML4
      /\ \A f \in BootTables : mem'[f] = mem[f]
      /\ phase' \in {phase, "stopped"}
  BY Zenon, <1>1, <1>2, Map4kTables, Map2mTables
<1>4. Boot(mem') /\ (Hardened(mem) => Hardened(mem'))
  BY Zenon, <1>3, BootSame DEF VmmInv
<1>5. nx_param' /\ phase' \in {"hardened", "running"} => Hardened(mem')
  BY Zenon, <1>1, <1>3, <1>4 DEF VmmInv
<1>6. nx /\ nx_param' /\ phase' \in {"hardened", "running"}
        => \A t \in cached : ~ (t.to.w /\ t.to.x)
  BY Zenon, <1>1, <1>3 DEF VmmInv, HardenedMeansNoWX
<1>7. phase' # "boot" /\ KERNEL_PML4' # None /\ cr3' \in {BOOT_PML4, KERNEL_PML4'}
      /\ nx' = nx /\ \E U : Tree(U, mem', free', pool') /\ U[Root] = KERNEL_PML4'
  BY Zenon, <1>1, <1>2, <1>3
<1>. QED  BY Zenon, <1>1, <1>3, <1>4, <1>5, <1>6, <1>7, TablesStep

-----------------------------------------------------------------------------
(* The other actions. *)

\* The calls of init are calls as they should be.
LEMMA InitCallsProper == init_calls \in Seq(Proper)
<1> DEFINE a1 == call(FALSE, TEXT, virt_to_phys(TEXT), align_down(RODATA) - TEXT, "TextRoX")
           a2 == call(FALSE, RODATA, virt_to_phys(RODATA), align_down(DATA) - RODATA, "RoData")
           a3 == call(FALSE, DATA, virt_to_phys(DATA), align_down(BSS) - DATA, "DataRwNx")
           a4 == call(FALSE, BSS, virt_to_phys(BSS), align_up(VIRT_END) - BSS, "DataRwNx")
           S == {a1, a2, a3, a4, heap_region, vga_window}
           r1 == region(TEXT, align_down(RODATA), "TextRoX")
           r2 == region(RODATA, align_down(DATA), "RoData")
           r3 == region(DATA, align_down(BSS), "DataRwNx")
           r4 == region(BSS, align_up(VIRT_END), "DataRwNx")
<1>1. r1 \in {<< >>, <<a1>>} /\ r2 \in {<< >>, <<a2>>} /\ r3 \in {<< >>, <<a3>>} /\ r4 \in {<< >>, <<a4>>}
  BY Zenon DEF region
<1>2. init_calls = r1 \o r2 \o r3 \o r4 \o <<heap_region, vga_window>>
  BY Zenon DEF init_calls, regions
<1> HIDE DEF a1, a2, a3, a4, r1, r2, r3, r4
<1>4. /\ r1 \in Seq(S) /\ r2 \in Seq(S) /\ r3 \in Seq(S) /\ r4 \in Seq(S)
      /\ <<heap_region, vga_window>> \in Seq(S)
  <2>1. a1 \in S /\ a2 \in S /\ a3 \in S /\ a4 \in S /\ heap_region \in S /\ vga_window \in S
    OBVIOUS
  <2> HIDE DEF S
  <2>2. \A a \in S : << >> \in Seq(S) /\ <<a>> \in Seq(S)
    OBVIOUS
  <2>3. \A a, b \in S : <<a, b>> \in Seq(S)
    OBVIOUS
  <2>. QED  BY Zenon, <1>1, <2>1, <2>2, <2>3
<1> HIDE DEF S
<1>5. init_calls \in Seq(S)
  BY <1>2, <1>4
<1>6. ASSUME NEW k \in 1 .. Len(init_calls) PROVE init_calls[k] \in Proper
  <2> DEFINE c == init_calls[k]
  <2>1. c \in Range(init_calls)
    BY <1>5 DEF Range
  <2> HIDE DEF c
  <2>4. c \in Proper
    BY Zenon, <2>1, CallAssumption DEF Proper
  <2>. QED  BY Zenon, <2>4 DEF c
<1>. QED  BY <1>5, <1>6

\* A call of the running kernel is, too.
LEMMA RequestsProper == Requests \subseteq Proper
BY Zenon, CallAssumption DEF Proper

\* init: the new root, or no frame for it.
LEMMA InitStep == ASSUME VmmInv, init PROVE VmmInv'
<1> DEFINE b == [here EXCEPT !.at = cr3]
           s == alloc(b)
           f == s.at
<1>1. /\ phase = "boot" /\ free' = s.free /\ pool' = s.pool /\ TlbFill(cached)
      /\ UNCHANGED <<cr3, nx, nx_param>>
      /\ \/ /\ s.at = None /\ phase' = "stopped" /\ UNCHANGED <<mem, KERNEL_PML4, todo>>
         \/ /\ s.at # None /\ mem' = [s.mem EXCEPT ![s.at][0] = mem[cr3][0]]
            /\ KERNEL_PML4' = s.at /\ todo' = init_calls /\ phase' = "init"
  BY Zenon DEF init, goes_to, Panic
<1>2. /\ KERNEL_PML4 = None /\ cr3 = BOOT_PML4 /\ nx \in BOOLEAN
      /\ mem \in Mem /\ free \in SUBSET Frames /\ pool \in SUBSET Frames
      /\ free \cap Fixed = {} /\ Boot(mem) /\ todo \in Seq(Proper)
  BY Zenon, <1>1 DEF VmmInv
<1>3. BOOT_PML4 \in Frames /\ BOOT_PDPT \in Frames /\ BOOT_PML4 \in BootTables
  BY Zenon, FrameFacts DEF BootTables
<1>4. b \in Walker /\ b.mem = mem /\ b.free = free /\ b.pool = pool
  <2>1. b = [mem |-> mem, free |-> free, pool |-> pool, at |-> BOOT_PML4]
    BY <1>2 DEF here
  <2> HIDE DEF b
  <2>. QED  BY Zenon, <1>2, <1>3, <2>1 DEF Walker
<1> HIDE DEF b
<1>5. s \in Walker /\ (\/ s.at = None /\ s.mem = mem /\ s.free = free /\ s.pool = pool
                       \/ /\ s.at \in free /\ s.free = free \ {s.at}
                          /\ s.pool = pool \cup {s.at} /\ s.mem = zeroed(mem, s.at))
  BY Zenon, <1>4, AllocFacts
<1> HIDE DEF s
<1>6. nx_param' /\ phase' \in {"hardened", "running"} => FALSE
  BY Zenon, <1>1
<1>7. None \notin free
  BY Zenon, <1>2, FrameFacts
<1>8. CASE s.at = None
  <2>1. s.free = free /\ s.pool = pool
    BY Zenon, <1>5, <1>7, <1>8
  <2>2. /\ mem' \in Mem /\ Boot(mem') /\ free' \subseteq free /\ pool' \in SUBSET Frames
        /\ todo' \in Seq(Proper) /\ KERNEL_PML4' = None /\ cr3' = BOOT_PML4
        /\ phase' \in {"boot", "stopped"} /\ nx' = nx
    BY Zenon, <1>1, <1>2, <1>8, <2>1
  <2>. QED  BY Zenon, <1>1, <1>6, <2>2, TablesStep
<1>9. CASE s.at # None
  <2>1. /\ f \in free /\ free' = free \ {f} /\ pool' = pool \cup {f}
        /\ s.mem = zeroed(mem, f) /\ f \in Frames /\ f \notin Fixed
        /\ mem' = [s.mem EXCEPT ![f][0] = mem[cr3][0]]
        /\ KERNEL_PML4' = f /\ todo' = init_calls /\ phase' = "init"
    BY Zenon, <1>1, <1>2, <1>5, <1>9
  <2> HIDE DEF f
  <2>2. mem[cr3][0] = boot_entry(BOOT_PDPT) /\ boot_entry(BOOT_PDPT) \in Entry
    BY Zenon, <1>2, <1>3, EntryFacts DEF Boot
  <2>3. /\ s.mem \in Mem /\ \A i \in Slots : s.mem[f][i] = absent
        /\ \A h \in Frames : h # f => s.mem[h] = mem[h]
    BY <1>2, <2>1, ZeroedFacts
  <2>4. 0 \in Slots
    BY Zenon, SlotFacts
  <2>5. /\ mem' \in Mem /\ mem'[f][0] = boot_entry(BOOT_PDPT)
        /\ \A i \in Slots : i # 0 => mem'[f][i] = absent
        /\ \A h \in BootTables : mem'[h] = mem[h]
    <3>1. mem' = [s.mem EXCEPT ![f][0] = boot_entry(BOOT_PDPT)]
      BY Zenon, <2>1, <2>2
    <3>2. /\ mem' \in Mem /\ mem'[f][0] = boot_entry(BOOT_PDPT)
          /\ \A i \in Slots : i # 0 => mem'[f][i] = absent
      BY <2>1, <2>2, <2>3, <2>4, <3>1 DEF Mem
    <3>3. \A h \in Frames : h # f => mem'[h] = s.mem[h]
      BY Zenon, <2>1, <2>3, <3>1 DEF Mem
    <3>4. \A h \in BootTables : h \in Frames /\ h # f
      BY Zenon, <2>1, FrameFacts
    <3>. QED  BY Zenon, <2>3, <3>2, <3>3, <3>4
  <2>6. Boot(mem')
    BY Zenon, <1>2, <2>5, BootSame
  <2> DEFINE T == [p \in Positions |-> IF p = Root THEN f ELSE None]
  <2>7. f # None /\ Root \in Positions
    BY Zenon, <2>1, FrameFacts, PositionFacts
  <2>8. /\ T \in [Positions -> Frames \cup {None}] /\ T[Root] = f
        /\ \A p \in Positions : T[p] # None => p = Root
    BY Zenon, <2>1, <2>7
  <2> HIDE DEF T
  <2>9. Root[1] = 4
    BY Zenon DEF Root
  <2>10. \A i \in Slots : Child(Root, i) \in Positions /\ Child(Root, i) # Root /\ T[Child(Root, i)] = None
    BY <2>8, <2>9, PositionFacts
  <2>11. \A i \in Slots : EntryFits(T, Root, i, mem'[f][i])
    BY <2>5, <2>9, <2>10 DEF EntryFits
  <2>12. \A p \in Positions, i \in Slots : p[1] # 1 /\ T[Child(p, i)] # None => T[p] # None
    BY Zenon, <2>8, PositionFacts
  <2>13. Tree(T, mem', free', pool')
    <3>1. \A p \in Positions : T[p] # None => T[p] \in pool' \ (free' \cup Fixed)
      BY Zenon, <2>1, <2>8
    <3>2. \A p, q \in Positions : T[p] # None /\ T[p] = T[q] => p = q
      BY Zenon, <2>8
    <3>4. \A p \in Positions, i \in Slots : T[p] # None => EntryFits(T, p, i, mem'[T[p]][i])
      BY Zenon, <2>8, <2>11
    <3>5. T[Root] # None /\ T[Child(Root, 0)] = None
      BY SMTT(60), <2>4, <2>7, <2>8, <2>10
    <3>. QED  BY Zenon, <2>8, <2>12, <3>1, <3>2, <3>4, <3>5 DEF Tree
  <2>14. /\ KERNEL_PML4' # None /\ cr3' \in {BOOT_PML4, KERNEL_PML4'} /\ phase' # "boot"
         /\ \E U : Tree(U, mem', free', pool') /\ U[Root] = KERNEL_PML4'
    BY SMTT(60), <1>1, <1>2, <2>1, <2>7, <2>8, <2>13
  <2>15. free' \subseteq free /\ pool' \in SUBSET Frames /\ todo' \in Seq(Proper) /\ nx' = nx
    BY Zenon, <1>1, <1>2, <2>1, InitCallsProper
  <2>. QED  BY SMTT(60), <1>1, <1>6, <2>5, <2>6, <2>14, <2>15, TablesStep
<1>. QED  BY Zenon, <1>8, <1>9

\* The CR3 write.
LEMMA SwitchStep == ASSUME VmmInv, switch_cr3 PROVE VmmInv'
<1>1. /\ phase = "init" /\ cr3' = KERNEL_PML4 /\ phase' = "switched"
      /\ UNCHANGED <<mem, free, pool, KERNEL_PML4, nx, nx_param, todo>>
      /\ TlbFill(NotFlushed)
  BY Zenon DEF switch_cr3
<1>2. KERNEL_PML4 # None /\ OwnTables
  BY Zenon, <1>1 DEF VmmInv
<1>3. /\ KERNEL_PML4' # None /\ cr3' \in {BOOT_PML4, KERNEL_PML4'} /\ phase' # "boot"
      /\ \E T : Tree(T, mem', free', pool') /\ T[Root] = KERNEL_PML4'
  BY Zenon, <1>1, <1>2 DEF OwnTables
<1>4. nx' = nx /\ mem' \in Mem /\ Boot(mem') /\ free' \subseteq free /\ pool' \in SUBSET Frames
      /\ todo' \in Seq(Proper)
  BY Zenon, <1>1 DEF VmmInv
<1>5. NotFlushed \in SUBSET cached
  BY Zenon DEF NotFlushed
<1>6. ~ (phase' \in {"hardened", "running"})
  BY Zenon, <1>1
<1>. QED  BY Zenon, <1>1, <1>3, <1>4, <1>5, <1>6, TablesStep

\* harden_boot_map: after it no page of the boot map is executable, and no
\* translation that was survives in the TLB.
LEMMA HardenStep == ASSUME VmmInv, harden_boot_map PROVE VmmInv'
<1>1. /\ phase = "audited" /\ phase' = "hardened"
      /\ UNCHANGED <<free, pool, KERNEL_PML4, cr3, nx, nx_param, todo>>
      /\ TlbFill(NotFlushed)
      /\ mem' = [f \in Frames |->
                   IF f \in boot_pds
                   THEN [i \in Slots |-> IF i \in 0 .. (E2 - 1)
                                         THEN hardened(mem[f][i]) ELSE mem[f][i]]
                   ELSE mem[f]]
  BY Zenon DEF harden_boot_map, flush_all, hardened_entries
<1>2. /\ nx \in BOOLEAN /\ mem \in Mem /\ Boot(mem) /\ KERNEL_PML4 # None /\ OwnTables
      /\ cr3 \in {BOOT_PML4, KERNEL_PML4}
  BY Zenon, <1>1 DEF VmmInv
<1>3. PICK T : Tree(T, mem, free, pool) /\ T[Root] = KERNEL_PML4
  BY Zenon, <1>2 DEF OwnTables
<1>4. 0 \in Slots /\ Slots \subseteq Nat /\ Root \in Positions
      /\ BOOT_PDPT \in Frames /\ BOOT_PML4 \in Frames /\ Range(BOOT_PDS) \subseteq Frames
      /\ BOOT_PDPT \notin Range(BOOT_PDS) /\ BOOT_PML4 \notin Range(BOOT_PDS)
  BY Zenon, SlotFacts, PositionFacts, FrameFacts, GeometryAssumption DEF BootTables
<1>5. mem[cr3][0].addr = BOOT_PDPT
  <2>1. mem[BOOT_PML4][0] = boot_entry(BOOT_PDPT)
    BY Zenon, <1>2 DEF Boot
  <2>2. mem[T[Root]][0] = boot_entry(BOOT_PDPT)
    <3>1. EntryFits(T, Root, 0, mem[T[Root]][0])
      BY Zenon, <1>3, <1>4 DEF Tree
    <3>2. Root[1] # 1
      BY DEF Root
    <3>. QED  BY Zenon, <3>1, <3>2 DEF EntryFits
  <2>3. boot_entry(BOOT_PDPT).addr = BOOT_PDPT
    BY Zenon, <1>4, TableEntries
  <2>. QED  BY Zenon, <1>2, <1>3, <2>1, <2>2, <2>3
<1>6. boot_pds = {mem[BOOT_PDPT][i].addr : i \in {j \in 0 .. (E3 - 1) :
                                                   is_present(mem[BOOT_PDPT][j])}}
  BY Zenon, <1>5 DEF boot_pds
<1>7. \A i \in 0 .. (E3 - 1) : i \in Slots
  BY SlotFacts, GeometryAssumption
<1>8. boot_pds \subseteq Range(BOOT_PDS)
  <2>1. ASSUME NEW i \in 0 .. (E3 - 1), is_present(mem[BOOT_PDPT][i])
        PROVE  mem[BOOT_PDPT][i].addr \in Range(BOOT_PDS)
    <3>1. PICK f \in Range(BOOT_PDS) : mem[BOOT_PDPT][i] = boot_entry(f)
      BY Zenon, <1>2, <1>7, <2>1, EntryFacts DEF Boot
    <3>. QED  BY <1>4, <3>1, TableEntries
  <2>. QED  BY Zenon, <1>6, <2>1
<1>9. \A i \in 0 .. (E3 - 1) : is_present(mem[BOOT_PDPT][i]) => mem[BOOT_PDPT][i].addr \in boot_pds
  BY Zenon, <1>6
<1> HIDE DEF boot_pds
<1>10. \A f \in Range(BOOT_PDS), i \in Slots :
         /\ hardened(mem[f][i]) \in Entry /\ BootLeaf(hardened(mem[f][i]))
         /\ is_present(hardened(mem[f][i])) => hardened(mem[f][i]).nx = nx
         /\ hardened(mem[f][i]).addr = mem[f][i].addr
  <2>1. \A f \in Range(BOOT_PDS), i \in Slots : mem[f][i] \in Entry /\ BootLeaf(mem[f][i])
    BY Zenon, <1>2, <1>4 DEF Mem, Boot
  <2>. QED  BY Zenon, <1>2, <2>1, HardenedEntry
<1>11. /\ \A f \in boot_pds, i \in Slots :
            mem'[f][i] = IF i \in 0 .. (E2 - 1) THEN hardened(mem[f][i]) ELSE mem[f][i]
       /\ \A f \in Frames : f \notin boot_pds => mem'[f] = mem[f]
  BY Zenon, <1>1, <1>4, <1>8
<1>12. mem' \in Mem
  <2>1. \A f \in boot_pds : [i \in Slots |-> IF i \in 0 .. (E2 - 1)
                                             THEN hardened(mem[f][i]) ELSE mem[f][i]] \in [Slots -> Entry]
    BY Zenon, <1>2, <1>4, <1>8, <1>10 DEF Mem
  <2>. QED  BY Zenon, <1>1, <1>2, <2>1 DEF Mem
<1>13. /\ mem'[BOOT_PML4] = mem[BOOT_PML4] /\ mem'[BOOT_PDPT] = mem[BOOT_PDPT]
       /\ \A f \in Frames \ BootTables : mem'[f] = mem[f]
  BY Zenon, <1>4, <1>8, <1>11 DEF BootTables
<1>14. \A f \in Range(BOOT_PDS), i \in Slots : BootLeaf(mem'[f][i])
  <2>1. SUFFICES ASSUME NEW f \in Range(BOOT_PDS), NEW i \in Slots PROVE BootLeaf(mem'[f][i])
    OBVIOUS
  <2>2. BootLeaf(mem[f][i]) /\ BootLeaf(hardened(mem[f][i]))
    BY Zenon, <1>2, <1>10 DEF Boot
  <2>3. mem'[f][i] = mem[f][i] \/ mem'[f][i] = hardened(mem[f][i])
    BY Zenon, <1>4, <1>11
  <2>. QED  BY Zenon, <2>2, <2>3
<1>15. Boot(mem')
  <2>1. \A f \in BootTables, i \in Slots : mem'[f][i].addr = mem[f][i].addr
    <3>1. SUFFICES ASSUME NEW f \in BootTables, NEW i \in Slots
                   PROVE  mem'[f][i].addr = mem[f][i].addr
      OBVIOUS
    <3>2. CASE f \in boot_pds
      <4>1. mem'[f][i] = mem[f][i] \/ mem'[f][i] = hardened(mem[f][i])
        BY Zenon, <1>11, <3>2
      <4>. QED  BY Zenon, <1>8, <1>10, <3>2, <4>1
    <3>3. CASE f \notin boot_pds
      BY Zenon, <1>11, <3>3, FrameFacts
    <3>. QED  BY Zenon, <3>2, <3>3
  <2>. QED  BY Zenon, <1>2, <1>13, <1>14, <2>1 DEF Boot
<1>16. Hardened(mem')
  <2>1. SUFFICES ASSUME NEW i \in 0 .. (E3 - 1), NEW j \in 0 .. (E2 - 1),
                        is_present(mem'[BOOT_PDPT][i]),
                        is_present(mem'[mem'[BOOT_PDPT][i].addr][j])
                 PROVE  mem'[mem'[BOOT_PDPT][i].addr][j].nx = nx
    BY Zenon DEF Hardened
  <2> DEFINE f == mem'[BOOT_PDPT][i].addr
  <2>2. f \in boot_pds
    BY Zenon, <1>9, <1>13, <2>1
  <2>3. j \in Slots
    BY SlotFacts, GeometryAssumption
  <2> HIDE DEF f
  <2>4. mem'[f][j] = hardened(mem[f][j])
    BY SMTT(60), <1>11, <2>2, <2>3
  <2>5. mem'[f][j].nx = nx
    BY Zenon, <1>8, <1>10, <2>1, <2>2, <2>3, <2>4 DEF f
  <2>. QED  BY SMTT(60), <2>5 DEF f
<1>17. Tree(T, mem', free', pool')
  <2>1. Tree(T, mem', free, pool)
    BY Zenon, <1>3, <1>13, TreeSame, FrameFacts
  <2>. QED  BY Zenon, <1>1, <2>1
<1>18. /\ KERNEL_PML4' # None /\ cr3' \in {BOOT_PML4, KERNEL_PML4'} /\ phase' # "boot"
       /\ \E U : Tree(U, mem', free', pool') /\ U[Root] = KERNEL_PML4'
  BY Zenon, <1>1, <1>2, <1>3, <1>17
<1>19. nx' = nx /\ free' \subseteq free /\ pool' \in SUBSET Frames /\ todo' \in Seq(Proper)
  BY Zenon, <1>1 DEF VmmInv
<1>20. NotFlushed \in SUBSET cached /\ (nx => \A t \in NotFlushed : ~ (t.to.w /\ t.to.x))
  BY Zenon DEF NotFlushed, VmmInv
<1>. QED  BY Zenon, <1>1, <1>12, <1>15, <1>16, <1>18, <1>19, <1>20, TablesStep

-----------------------------------------------------------------------------
(* The theorems. *)

\* Every step keeps the invariant.
LEMMA VmmInvStep == VmmInv /\ [Next]_vars => VmmInv'
<1>1. SUFFICES ASSUME VmmInv, [Next]_vars PROVE VmmInv'
  OBVIOUS
<1>2. CASE init
  BY Zenon, <1>1, <1>2, InitStep
<1>3. CASE map_page
  BY Zenon, <1>1, <1>3, MapPageStep
<1>4. CASE switch_cr3
  BY Zenon, <1>1, <1>4, SwitchStep
<1>5. CASE harden_boot_map
  BY Zenon, <1>1, <1>5, HardenStep
<1>6. todo \in Seq(Proper)
  BY Zenon, <1>1 DEF VmmInv
<1>7. CASE report_vmm
  <2>1. /\ UNCHANGED <<mem, free, pool, KERNEL_PML4, cr3, nx, nx_param, cached>>
        /\ todo' = todo /\ phase = "switched" /\ phase' = "audited"
    BY Zenon, <1>7 DEF report_vmm
  <2>. QED  BY Zenon, <1>1, <1>6, <2>1, QuietStep
<1>8. CASE leave_boot_map
  <2>1. /\ UNCHANGED <<mem, free, pool, KERNEL_PML4, cr3, nx, nx_param, cached>>
        /\ todo' = todo /\ phase = "audited" /\ phase' = "hardened" /\ ~ nx_param
    BY Zenon, <1>8 DEF leave_boot_map
  <2>. QED  BY Zenon, <1>1, <1>6, <2>1, QuietStep
<1>9. CASE run_selftest
  <2>1. /\ UNCHANGED <<mem, free, pool, KERNEL_PML4, cr3, nx, nx_param, cached>>
        /\ todo' = todo /\ phase = "hardened" /\ phase' \in {"running", "stopped"}
    BY Zenon, <1>9 DEF run_selftest, Panic
  <2>. QED  BY Zenon, <1>1, <1>6, <2>1, QuietStep
<1>10. CASE skip_selftest
  <2>1. /\ UNCHANGED <<mem, free, pool, KERNEL_PML4, cr3, nx, nx_param, cached>>
        /\ todo' = todo /\ phase = "hardened" /\ phase' = "running"
    BY Zenon, <1>10 DEF skip_selftest
  <2>. QED  BY Zenon, <1>1, <1>6, <2>1, QuietStep
<1>11. CASE request
  <2>1. /\ UNCHANGED <<mem, free, pool, KERNEL_PML4, cr3, nx, nx_param, cached>>
        /\ phase = "running" /\ phase' = phase /\ \E c \in Requests : todo' = <<c>>
    BY Zenon, <1>11 DEF request
  <2>2. todo' \in Seq(Proper)
    BY <2>1, RequestsProper
  <2>. QED  BY Zenon, <1>1, <2>1, <2>2, QuietStep
<1>12. CASE UNCHANGED vars
  <2>1. UNCHANGED <<mem, free, pool, KERNEL_PML4, cr3, nx, nx_param, phase, todo, cached>>
    BY Zenon, <1>12 DEF vars
  <2>2. (\A T : Tree(T, mem, free, pool)' <=> Tree(T, mem, free, pool))
        /\ (Boot(mem)' <=> Boot(mem)) /\ (Hardened(mem)' <=> Hardened(mem))
    BY Zenon, <2>1, NxSame
  <2>3. OwnTables' <=> OwnTables
    BY Zenon, <2>1, <2>2 DEF OwnTables
  <2>4. HardenedMeansNoWX' <=> HardenedMeansNoWX
    BY Zenon, <2>1 DEF HardenedMeansNoWX
  <2>. QED  BY Zenon, <1>1, <2>1, <2>2, <2>3, <2>4 DEF VmmInv
<1>. QED  BY SMTT(60), <1>1, <1>2, <1>3, <1>4, <1>5, <1>7, <1>8, <1>9, <1>10, <1>11, <1>12 DEF Next

\* The kernel's tables form a tree of pool frames, the boot tables keep their
\* form, and the TLB holds no GLOBAL translation that is writable and
\* executable: in every state of vmm.rs, whatever is mapped and whenever the
\* PMM runs dry.
THEOREM PageTablesAreATree == Spec => []VmmInv
BY VmmInvInit, VmmInvStep, PTL DEF Spec

\* After harden_boot_map nothing the TLB may hold lets the kernel write and
\* execute a page: GLOBAL translations, which the CR3 reload keeps, never did.
THEOREM HardeningLeavesNoWX == Spec => []HardenedMeansNoWX
<1>1. VmmInv => HardenedMeansNoWX
  BY Zenon DEF VmmInv
<1>. QED  BY <1>1, PageTablesAreATree, PTL

\* On a CPU without NX no walk meets an entry with bit 63 set, which would fault.
THEOREM NoReservedBitIsSet == Spec => []NoReservedBit
<1>1. ASSUME VmmInv PROVE NoReservedBit
  <2>1. SUFFICES ASSUME ~ nx, NEW p \in Pages, NEW k \in DOMAIN walk(mem, cr3, p)
                 PROVE  ~ walk(mem, cr3, p)[k].nx
    BY Zenon DEF NoReservedBit
  <2> DEFINE path == walk(mem, cr3, p)
  <2>2. WalkShape(mem, p, path)
    BY Zenon, <1>1, CpuWalks
  <2>3. WalkEnd(mem, p, leaf_of(path)) /\ \A j \in DOMAIN path : path[j].nx => leaf_of(path).nx
    BY Zenon, <2>2, HardwareFacts
  <2>4. nx \in BOOLEAN
    BY Zenon, <1>1 DEF VmmInv
  <2> HIDE DEF path
  <2>5. ~ leaf_of(path).nx
    BY Zenon, <2>1, <2>3, <2>4, EndFacts
  <2>. QED  BY Zenon, <2>1, <2>3, <2>5 DEF path
<1>. QED  BY <1>1, PageTablesAreATree, PTL

\* The audit of count_wx_violations, which reads leaves only, counts exactly the
\* leaves the processor would let the kernel write and execute.
THEOREM TheAuditIsRight == Spec => []AuditMatchesHardware
<1>1. ASSUME VmmInv PROVE AuditMatchesHardware
  <2>1. SUFFICES ASSUME cr3 = KERNEL_PML4, nx
                 PROVE  count_wx_violations =
                          Cardinality({p \in Pages : /\ first_of_leaf(walk(mem, cr3, p), p)
                                                     /\ on_cpu(p).w /\ on_cpu(p).x})
    BY Zenon DEF AuditMatchesHardware
  <2>2. KERNEL_PML4 # None
    <3>1. BOOT_PML4 \in Frames /\ None \notin Frames
      BY Zenon, FrameFacts DEF BootTables
    <3>. QED  BY Zenon, <1>1, <2>1, <3>1 DEF VmmInv
  <2>3. ASSUME NEW p \in Pages
        PROVE  is_present(leaf_of(walk(mem, cr3, p))) /\ is_wx(leaf_of(walk(mem, cr3, p)))
                 <=> on_cpu(p).w /\ on_cpu(p).x
    <3> DEFINE e == leaf_of(walk(mem, cr3, p))
    <3>1. WalkShape(mem, p, walk(mem, cr3, p))
      BY Zenon, <1>1, CpuWalks
    <3>2. on_cpu(p).w /\ on_cpu(p).x <=> is_present(e) /\ e.w /\ ~ e.nx
      BY Zenon, <3>1, HardwareFacts DEF on_cpu
    <3> HIDE DEF e
    <3>3. is_wx(e) <=> e.w /\ ~ e.nx
      BY Zenon, <2>1 DEF is_wx
    <3>. QED  BY Zenon, <3>2, <3>3 DEF e
  <2> DEFINE A == {p \in Pages : LET path == walk(mem, KERNEL_PML4, p)
                                 IN  /\ first_of_leaf(path, p)
                                     /\ is_present(leaf_of(path))
                                     /\ is_wx(leaf_of(path))}
             B == {p \in Pages : /\ first_of_leaf(walk(mem, cr3, p), p)
                                 /\ on_cpu(p).w /\ on_cpu(p).x}
  <2>4. A = B
    BY Zenon, <2>1, <2>3
  <2>5. count_wx_violations = Cardinality(A)
    BY Zenon, <2>2 DEF count_wx_violations
  <2> HIDE DEF A, B
  <2>6. count_wx_violations = Cardinality(B)
    BY Zenon, <2>4, <2>5
  <2>. QED  BY Zenon, <2>6 DEF B
<1>. QED  BY <1>1, PageTablesAreATree, PTL

\* descend and PtPool::alloc never hand one frame out twice: every table below
\* the kernel root is a pool frame in exactly one place of the tree.
THEOREM TablesAlwaysHaveOneOwner == Spec => []TablesHaveOneOwner
<1>1. ASSUME VmmInv PROVE TablesHaveOneOwner
  <2>1. SUFFICES ASSUME KERNEL_PML4 # None
                 PROVE  /\ \A e \in Holders : mem[e[1]][e[2]].addr \in pool \ (free \cup BootTables)
                        /\ \A e, h \in Holders : mem[e[1]][e[2]].addr = mem[h[1]][h[2]].addr => e = h
    BY Zenon DEF TablesHaveOneOwner
  <2>2. PICK T : Tree(T, mem, free, pool) /\ T[Root] = KERNEL_PML4
    BY Zenon, <1>1, <2>1 DEF VmmInv, OwnTables
  <2>3. \A e \in Holders : \E p, i : Holds(T, p, i, e)
    BY Zenon, <1>1, <2>2, HolderPlaces DEF VmmInv
  <2>4. /\ \A p \in Positions : T[p] # None => T[p] \in pool \ (free \cup BootTables)
        /\ \A p, q \in Positions : T[p] # None /\ T[p] = T[q] => p = q
    BY Zenon, <2>2, FrameFacts DEF Tree
  <2>5. ASSUME NEW e \in Holders PROVE mem[e[1]][e[2]].addr \in pool \ (free \cup BootTables)
    <3>1. PICK p, i : Holds(T, p, i, e)
      BY Zenon, <2>3
    <3>2. Child(p, i) \in Positions
      BY Zenon, <3>1, PositionFacts DEF Holds
    <3>. QED  BY Zenon, <2>4, <3>1, <3>2 DEF Holds
  <2>6. ASSUME NEW e \in Holders, NEW h \in Holders, mem[e[1]][e[2]].addr = mem[h[1]][h[2]].addr
        PROVE  e = h
    <3>1. PICK p, i : Holds(T, p, i, e)
      BY Zenon, <2>3
    <3>2. PICK q, j : Holds(T, q, j, h)
      BY Zenon, <2>3
    <3>3. Child(p, i) \in Positions /\ Child(q, j) \in Positions
      BY Zenon, <3>1, <3>2, PositionFacts DEF Holds
    <3>4. Child(p, i) = Child(q, j)
      BY Zenon, <2>4, <2>6, <3>1, <3>2, <3>3 DEF Holds
    <3>5. p = q /\ i = j
      BY <3>1, <3>2, <3>4, PositionFacts DEF Holds
    <3>. QED  BY Zenon, <3>1, <3>2, <3>5 DEF Holds
  <2>. QED  BY Zenon, <2>5, <2>6
<1>. QED  BY <1>1, PageTablesAreATree, PTL

=============================================================================

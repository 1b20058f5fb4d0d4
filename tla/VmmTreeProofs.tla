--------------------------- MODULE VmmTreeProofs ---------------------------
(***************************************************************************)
(* Lemmas about page tables: the index arithmetic, the tree the kernel's   *)
(* tables form and how a map call extends it, walks through either set of  *)
(* tables, and what the TLB may load from them.                            *)
(***************************************************************************)
EXTENDS Vmm, TLAPS

-----------------------------------------------------------------------------
(* Arithmetic of the index decomposition. *)

\* Slots holds every index of every level.
LEMMA SlotFacts == /\ \A i \in Nat : i < E4 \/ i < E3 \/ i < E2 \/ i < E1 => i \in Slots
                   /\ 0 \in Slots /\ Slots \subseteq Nat
<1> DEFINE S == {E4, E3, E2, E1}
<1>1. S \subseteq Nat \ {0}
  BY Zenon, GeometryAssumption
<1>2. \E x \in S : \A y \in S : x >= y
  BY <1>1
<1>3. Max(S) \in S /\ \A y \in S : Max(S) >= y
  BY Zenon, <1>2 DEF Max
<1>4. Max(S) \in Nat \ {0} /\ Max(S) >= E4 /\ Max(S) >= E3 /\ Max(S) >= E2 /\ Max(S) >= E1
  BY Zenon, <1>1, <1>3
<1>5. Slots = 0 .. (Max(S) - 1)
  BY Zenon DEF Slots
<1>6. E4 \in Nat /\ E3 \in Nat /\ E2 \in Nat /\ E1 \in Nat
  BY Zenon, <1>1
<1> HIDE DEF S
<1>. QED  BY <1>4, <1>5, <1>6

\* A quotient lies below b when the dividend lies below b * c.
LEMMA QuotientBound ==
  ASSUME NEW a \in Nat, NEW b \in Nat, NEW c \in Nat \ {0}, a < b * c
  PROVE  a \div c \in Nat /\ a \div c < b /\ a % c \in 0 .. (c - 1) /\ a = c * (a \div c) + (a % c)
<1>1. a \div c \in Nat /\ a % c \in 0 .. (c - 1) /\ a = c * (a \div c) + (a % c)
  OBVIOUS
<1>2. ASSUME a \div c >= b PROVE FALSE
  <2>1. c * (a \div c) >= c * b
    BY <1>1, <1>2
  <2>. QED  BY <1>1, <2>1
<1>. QED  BY <1>1, <1>2

\* And it is positive when there is something to divide.
LEMMA QuotientPositive ==
  ASSUME NEW a \in Nat, NEW c \in Nat \ {0}, a >= c
  PROVE  a \div c # 0
<1>1. a % c \in 0 .. (c - 1) /\ a = c * (a \div c) + (a % c)
  OBVIOUS
<1>. QED  BY <1>1

\* The indices of a page are within their tables; the first one is 0 in the
\* identity map and not 0 in the kernel half.
LEMMA IndexFacts ==
  ASSUME NEW v \in Pages
  PROVE  /\ indices(v)[1] \in 0 .. (E4 - 1) /\ indices(v)[2] \in 0 .. (E3 - 1)
         /\ indices(v)[3] \in 0 .. (E2 - 1) /\ indices(v)[4] \in 0 .. (E1 - 1)
         /\ v >= E3 * E2 * E1 => indices(v)[1] # 0
         /\ v < E3 * E2 * E1 => indices(v)[1] = 0
<1>1. E4 \in Nat \ {0} /\ E3 \in Nat \ {0} /\ E2 \in Nat \ {0} /\ E1 \in Nat \ {0}
  BY Zenon, GeometryAssumption
<1>2. E3 * E2 * E1 \in Nat \ {0} /\ E2 * E1 \in Nat \ {0}
  BY <1>1
<1>3. v \in Nat /\ v < E4 * (E3 * E2 * E1)
  <2>1. E4 * (E3 * E2 * E1) = E4 * E3 * E2 * E1
    BY <1>1
  <2>. QED  BY <1>1, <2>1 DEF Pages
<1> DEFINE B == E3 * E2 * E1
           C == E2 * E1
<1>4. /\ indices(v)[1] = v \div B
      /\ indices(v)[2] = (v \div C) % E3
      /\ indices(v)[3] = (v \div E1) % E2
      /\ indices(v)[4] = v % E1
  BY Zenon DEF indices
<1>5. B \in Nat \ {0} /\ C \in Nat \ {0} /\ v < E4 * B
  BY Zenon, <1>2, <1>3
<1> HIDE DEF B, C
<1>6. v \div B \in Nat /\ v \div B < E4
  BY Zenon, <1>1, <1>3, <1>5, QuotientBound
<1>7. (v \div C) \in Nat /\ (v \div E1) \in Nat
  BY <1>1, <1>3, <1>5
<1>8. (v \div C) % E3 \in 0 .. (E3 - 1) /\ (v \div E1) % E2 \in 0 .. (E2 - 1)
      /\ v % E1 \in 0 .. (E1 - 1)
  BY <1>1, <1>3, <1>7
<1>9. v >= B => v \div B # 0
  BY Zenon, <1>3, <1>5, QuotientPositive
<1>10. E3 * E2 * E1 = B
  BY Zenon DEF B
<1>11. v < B => v \div B = 0
  <2>1. ASSUME v < B PROVE v < 1 * B
    BY <1>5, <2>1
  <2>2. ASSUME v < B PROVE v \div B \in Nat /\ v \div B < 1
    BY <1>3, <1>5, <2>1, <2>2, QuotientBound
  <2>. QED  BY <2>2
<1>. QED  BY <1>1, <1>4, <1>6, <1>8, <1>9, <1>10, <1>11

\* The same, as slots.
LEMMA IndexSlots ==
  ASSUME NEW v \in Pages
  PROVE  /\ indices(v)[1] \in Slots /\ indices(v)[2] \in Slots
         /\ indices(v)[3] \in Slots /\ indices(v)[4] \in Slots
<1>1. E4 \in Nat /\ E3 \in Nat /\ E2 \in Nat /\ E1 \in Nat
  BY Zenon, GeometryAssumption
<1>2. /\ indices(v)[1] \in Nat /\ indices(v)[1] < E4
      /\ indices(v)[2] \in Nat /\ indices(v)[2] < E3
      /\ indices(v)[3] \in Nat /\ indices(v)[3] < E2
      /\ indices(v)[4] \in Nat /\ indices(v)[4] < E1
  BY <1>1, IndexFacts
<1>. QED  BY Zenon, <1>2, SlotFacts

-----------------------------------------------------------------------------
(* The tree of the kernel's tables. *)

\* Permissions, table entries and memory.
Perms == {"TextRoX", "RoData", "DataRwNx", "Device", "BootIdentity"}
Entry == [addr : Int, w : BOOLEAN, nx : BOOLEAN, huge : BOOLEAN, g : BOOLEAN]
Mem == [Frames -> [Slots -> Entry]]

\* The place of a table in the tree: its level, and the indices that lead to
\* it, 0 where its level has none.
Positions == {p \in (1 .. 4) \X Slots \X Slots \X Slots :
                /\ p[1] = 4 => p[2] = 0
                /\ p[1] >= 3 => p[3] = 0
                /\ p[1] >= 2 => p[4] = 0}
\* The PML4, and the table an entry of another leads to.
Root == <<4, 0, 0, 0>>
Child(p, i) == IF p[1] = 4 THEN <<3, i, 0, 0>>
               ELSE IF p[1] = 3 THEN <<2, p[2], i, 0>> ELSE <<1, p[2], p[3], i>>

\* A leaf the map calls write: NX only where the CPU has it, and then writable
\* leaves are not executable.
KernelLeaf(e, huge) == \E a \in Nat, perm \in Perms : e = leaf(a, effective(perm), huge)

\* A large page of the map calls: it lies in memory of the caller.
LargeLeaf(e) == \E a \in Owned, perm \in Perms : e = leaf(a, effective(perm), TRUE)

\* The frames the PMM never has to give: the boot tables and the callers' own.
Fixed == Frames \ UNION Free

\* Entry i of the table at p, when T is the tree.
EntryFits(T, p, i, e) ==
  IF p[1] = 1 THEN e = absent \/ KernelLeaf(e, FALSE)
  ELSE IF p = Root /\ i = 0 THEN e = boot_entry(BOOT_PDPT)
  ELSE IF T[Child(p, i)] # None THEN e = table_entry(T[Child(p, i)])
  ELSE e = absent \/ (p[1] = 2 /\ LargeLeaf(e))

\* T gives every position of the tree its table, None where there is none.
Tree(T, m, fr, po) ==
  /\ T \in [Positions -> Frames \cup {None}]
  /\ T[Root] # None /\ T[Child(Root, 0)] = None
  /\ \A p \in Positions : T[p] # None => T[p] \in po \ (fr \cup Fixed)
  /\ \A p, q \in Positions : T[p] # None /\ T[p] = T[q] => p = q
  /\ \A p \in Positions, i \in Slots : p[1] # 1 /\ T[Child(p, i)] # None => T[p] # None
  /\ \A p \in Positions, i \in Slots : T[p] # None => EntryFits(T, p, i, m[T[p]][i])

\* Frames are numbers, None is not one of them.
LEMMA FrameFacts == /\ Frames \subseteq Nat /\ None \notin Frames /\ None \in Int
                    /\ BootTables \subseteq Frames
                    /\ \A F \in Free : F \subseteq Frames /\ F \cap Fixed = {}
                    /\ Fixed \subseteq Frames /\ BootTables \subseteq Fixed
                    /\ Owned \subseteq Fixed \ BootTables /\ Owned \subseteq Nat
<1>1. BOOT_MAPPED \in Nat
  BY GeometryAssumption DEF BOOT_MAPPED
<1>2. Frames \subseteq Nat /\ None \notin Frames /\ None \in Int
  BY <1>1 DEF Frames, None
<1>3. Range(BOOT_PDS) \subseteq Frames
  BY GeometryAssumption DEF Range
<1>4. BootTables \subseteq Frames /\ \A F \in Free : F \subseteq Frames \ BootTables
  BY Zenon, <1>3, GeometryAssumption DEF BootTables
<1>5. BootTables \subseteq Fixed /\ \A F \in Free : F \subseteq Frames /\ F \cap Fixed = {}
  BY Zenon, <1>4 DEF Fixed
<1>6. Fixed \subseteq Frames /\ Owned \subseteq Fixed \ BootTables
  BY Zenon DEF Fixed, Owned
<1>. QED  BY Zenon, <1>2, <1>4, <1>5, <1>6

\* Positions and their children.
LEMMA PositionFacts ==
  /\ Root \in Positions
  /\ \A p \in Positions, i \in Slots : p[1] # 1 => Child(p, i) \in Positions /\ Child(p, i) # Root
  /\ \A p, q \in Positions, i, j \in Slots :
       p[1] # 1 /\ q[1] # 1 /\ Child(p, i) = Child(q, j) => p = q /\ i = j
<1>1. 0 \in Slots /\ Slots \subseteq Nat
  BY Zenon, SlotFacts
<1>2. Root \in Positions
  BY <1>1 DEF Root, Positions
<1>3. ASSUME NEW p \in Positions, NEW i \in Slots, p[1] # 1
      PROVE  Child(p, i) \in Positions /\ Child(p, i) # Root
  BY <1>1, <1>3 DEF Child, Positions, Root
<1>4. ASSUME NEW p \in Positions, NEW q \in Positions, NEW i \in Slots, NEW j \in Slots,
             p[1] # 1, q[1] # 1, Child(p, i) = Child(q, j)
      PROVE  p = q /\ i = j
  <2>1. /\ p = <<p[1], p[2], p[3], p[4]>> /\ q = <<q[1], q[2], q[3], q[4]>>
        /\ p[1] \in 1 .. 4 /\ q[1] \in 1 .. 4
    BY DEF Positions
  <2>2. p[1] = q[1] /\ i = j
    BY <1>4, <2>1 DEF Child
  <2>3. p[2] = q[2] /\ p[3] = q[3] /\ p[4] = q[4]
    BY <1>4, <2>1, <2>2 DEF Child, Positions
  <2>. QED  BY Zenon, <2>1, <2>2, <2>3
<1>. QED  BY <1>2, <1>3, <1>4

\* Writing one entry.
LEMMA Poke ==
  ASSUME NEW m \in Mem, NEW f \in Frames, NEW i \in Slots, NEW e \in Entry
  PROVE  LET m2 == [m EXCEPT ![f][i] = e]
         IN  /\ m2 \in Mem
             /\ m2[f][i] = e
             /\ \A h \in Frames, j \in Slots : h # f \/ j # i => m2[h][j] = m[h][j]
BY Zenon DEF Mem

\* The entries the code writes.
LEMMA EntryFacts ==
  ASSUME nx \in BOOLEAN
  PROVE  /\ absent \in Entry /\ ~ is_present(absent)
         /\ \A f \in Frames : /\ table_entry(f) \in Entry /\ boot_entry(f) = table_entry(f)
                              /\ is_present(table_entry(f)) /\ table_entry(f).addr = f
                              /\ table_entry(f).w = TRUE /\ table_entry(f).nx = FALSE
                              /\ table_entry(f).huge = FALSE
         /\ \A a \in Nat, perm \in Perms, huge \in BOOLEAN :
              LET e == leaf(a, effective(perm), huge)
              IN  /\ e \in Entry /\ is_present(e) /\ e.addr = a /\ e.huge = huge
                  /\ e.nx => nx
                  /\ nx /\ e.w => e.nx
<1>1. absent \in Entry /\ ~ is_present(absent)
  BY DEF absent, Entry, is_present, None
<1>2. ASSUME NEW f \in Frames
      PROVE  /\ table_entry(f) \in Entry /\ boot_entry(f) = table_entry(f)
             /\ is_present(table_entry(f)) /\ table_entry(f).addr = f
             /\ table_entry(f).w = TRUE /\ table_entry(f).nx = FALSE
             /\ table_entry(f).huge = FALSE
  <2>1. f \in Nat /\ f # None
    BY Zenon, FrameFacts
  <2>2. table_entry(f) = [addr |-> f, w |-> TRUE, nx |-> FALSE, huge |-> FALSE, g |-> FALSE]
    BY Zenon DEF table_entry, leaf
  <2>3. boot_entry(f) = table_entry(f)
    BY Zenon DEF table_entry, boot_entry
  <2>4. table_entry(f) \in Entry
    BY <2>1, <2>2 DEF Entry
  <2>. QED  BY <2>1, <2>2, <2>3, <2>4 DEF is_present
<1>3. ASSUME NEW a \in Nat, NEW perm \in Perms, NEW huge \in BOOLEAN
      PROVE  LET e == leaf(a, effective(perm), huge)
             IN  /\ e \in Entry /\ is_present(e) /\ e.addr = a /\ e.huge = huge
                 /\ e.nx => nx
                 /\ nx /\ e.w => e.nx
  <2>1. /\ effective(perm).w \in BOOLEAN /\ effective(perm).nx \in BOOLEAN
        /\ effective(perm).g \in BOOLEAN
        /\ effective(perm).nx => nx
        /\ nx /\ effective(perm).w => effective(perm).nx
    <3>1. nx \in BOOLEAN /\ (FALSE /\ nx) = FALSE /\ (TRUE /\ nx) = nx
      OBVIOUS
    <3>2. CASE perm = "TextRoX"
      <4>1. effective(perm) = [w |-> FALSE, nx |-> FALSE, g |-> TRUE]
        BY Zenon, <3>1, <3>2 DEF effective, bits
      <4>. QED  BY <4>1
    <3>3. CASE perm = "RoData"
      <4>1. effective(perm) = [w |-> FALSE, nx |-> nx, g |-> TRUE]
        BY Zenon, <3>1, <3>3 DEF effective, bits
      <4>. QED  BY <4>1
    <3>4. CASE perm = "DataRwNx"
      <4>1. effective(perm) = [w |-> TRUE, nx |-> nx, g |-> TRUE]
        BY Zenon, <3>1, <3>4 DEF effective, bits
      <4>. QED  BY <4>1
    <3>5. CASE perm = "Device"
      <4>1. effective(perm) = [w |-> TRUE, nx |-> nx, g |-> FALSE]
        BY Zenon, <3>1, <3>5 DEF effective, bits
      <4>. QED  BY <4>1
    <3>6. CASE perm = "BootIdentity"
      <4>1. effective(perm) = [w |-> TRUE, nx |-> nx, g |-> FALSE]
        BY Zenon, <3>1, <3>6 DEF effective, bits
      <4>. QED  BY <4>1
    <3>. QED  BY Zenon, <3>2, <3>3, <3>4, <3>5, <3>6 DEF Perms
  <2>. QED  BY <2>1 DEF leaf, Entry, is_present, None
<1>. QED  BY Zenon, <1>1, <1>2, <1>3

\* boot.asm and descend write the same table entries.
LEMMA TableEntries ==
  \A f \in Frames : /\ boot_entry(f) = table_entry(f) /\ is_present(table_entry(f))
                    /\ table_entry(f).addr = f /\ table_entry(f).w = TRUE
                    /\ table_entry(f).nx = FALSE /\ table_entry(f).huge = FALSE
<1>1. ASSUME NEW f \in Frames
      PROVE  /\ boot_entry(f) = table_entry(f) /\ is_present(table_entry(f))
             /\ table_entry(f).addr = f /\ table_entry(f).w = TRUE
             /\ table_entry(f).nx = FALSE /\ table_entry(f).huge = FALSE
  <2>1. f # None
    BY Zenon, FrameFacts
  <2>2. boot_entry(f) = table_entry(f)
    BY Zenon DEF boot_entry, table_entry
  <2>. QED  BY Zenon, <2>1, <2>2 DEF table_entry, leaf, is_present
<1>. QED  BY Zenon, <1>1

\* A large page of the map calls is a leaf, in memory of the caller.
LEMMA LargeFacts ==
  ASSUME nx \in BOOLEAN, NEW e, LargeLeaf(e)
  PROVE  is_present(e) /\ e.addr \in Owned /\ e.huge = TRUE /\ KernelLeaf(e, TRUE)
<1>1. PICK a \in Owned, perm \in Perms : e = leaf(a, effective(perm), TRUE)
  BY Zenon DEF LargeLeaf
<1>2. a \in Nat
  BY Zenon, FrameFacts
<1>3. is_present(e) /\ e.addr = a /\ e.huge = TRUE
  BY Zenon, <1>1, <1>2, EntryFacts
<1>4. KernelLeaf(e, TRUE)
  BY Zenon, <1>1, <1>2 DEF KernelLeaf
<1>. QED  BY Zenon, <1>1, <1>3, <1>4

\* The record descend works on.
Walker == [mem : Mem, free : SUBSET Frames, pool : SUBSET Frames, at : Frames \cup {None}]

\* PtPool::alloc takes the frame from the PMM, zeroes it and keeps it.
LEMMA AllocFacts ==
  ASSUME NEW s \in Walker
  PROVE  /\ alloc(s) \in Walker
         /\ \/ /\ alloc(s).at = None /\ alloc(s).mem = s.mem
               /\ alloc(s).free = s.free /\ alloc(s).pool = s.pool
            \/ /\ alloc(s).at \in s.free
               /\ alloc(s).free = s.free \ {alloc(s).at}
               /\ alloc(s).pool = s.pool \cup {alloc(s).at}
               /\ alloc(s).mem = zeroed(s.mem, alloc(s).at)
<1>1. s.mem \in Mem /\ s.free \subseteq Frames /\ s.pool \subseteq Frames
  BY Zenon DEF Walker
<1>2. CASE s.free = {}
  <2>1. alloc(s) = [s EXCEPT !.at = None]
    BY Zenon, <1>2 DEF alloc
  <2>2. alloc(s) \in Walker /\ alloc(s).at = None /\ alloc(s).mem = s.mem
        /\ alloc(s).free = s.free /\ alloc(s).pool = s.pool
    BY Zenon, <2>1 DEF Walker
  <2>. QED  BY Zenon, <2>2
<1>3. CASE s.free # {}
  <2> DEFINE f == CHOOSE g \in s.free : TRUE
  <2>1. f \in s.free
    BY Zenon, <1>3
  <2>2. alloc(s) = [mem |-> zeroed(s.mem, f), free |-> s.free \ {f},
                    pool |-> s.pool \cup {f}, at |-> f]
    BY Zenon, <1>3 DEF alloc
  <2>3. f \in Frames
    BY Zenon, <1>1, <2>1
  <2> HIDE DEF f
  <2>4. zeroed(s.mem, f) \in Mem
    <3>1. absent \in Entry
      BY DEF absent, Entry, None
    <3>2. [i \in Slots |-> absent] \in [Slots -> Entry]
      BY Zenon, <3>1
    <3>. QED  BY Zenon, <1>1, <2>3, <3>2 DEF zeroed, Mem
  <2>5. alloc(s) \in Walker
    BY <1>1, <2>2, <2>3, <2>4 DEF Walker
  <2>. QED  BY <2>1, <2>2, <2>5
<1>. QED  BY Zenon, <1>2, <1>3

\* A zeroed frame is empty, the others are as they were.
LEMMA ZeroedFacts ==
  ASSUME NEW m \in Mem, NEW f \in Frames
  PROVE  /\ zeroed(m, f) \in Mem
         /\ \A i \in Slots : zeroed(m, f)[f][i] = absent
         /\ \A h \in Frames : h # f => zeroed(m, f)[h] = m[h]
<1>1. absent \in Entry
  BY DEF absent, Entry, None
<1>. QED  BY Zenon, <1>1 DEF zeroed, Mem

\* A table added at a free place of the tree, and hooked into its parent.
LEMMA GrowTree ==
  ASSUME nx \in BOOLEAN, NEW m \in Mem, NEW fr \in SUBSET Frames, NEW po \in SUBSET Frames,
         fr \cap Fixed = {},
         NEW T, Tree(T, m, fr, po), NEW p \in Positions, NEW i \in Slots,
         p[1] # 1, T[p] # None, ~ (p = Root /\ i = 0), T[Child(p, i)] = None,
         NEW f \in fr, NEW m3 \in Mem,
         m3[T[p]][i] = table_entry(f),
         \A h \in Frames, j \in Slots : h # f /\ (h # T[p] \/ j # i) => m3[h][j] = m[h][j],
         \A j \in Slots : m3[f][j] = absent
  PROVE  Tree([T EXCEPT ![Child(p, i)] = f], m3, fr \ {f}, po \cup {f})
<1> DEFINE c == Child(p, i)
           U == [T EXCEPT ![c] = f]
<1>1. /\ T \in [Positions -> Frames \cup {None}]
      /\ T[Root] # None /\ T[Child(Root, 0)] = None
      /\ \A q \in Positions : T[q] # None => T[q] \in po \ (fr \cup Fixed)
      /\ \A q, r \in Positions : T[q] # None /\ T[q] = T[r] => q = r
      /\ \A q \in Positions, j \in Slots : q[1] # 1 /\ T[Child(q, j)] # None => T[q] # None
  BY Zenon DEF Tree
<1>2. \A q \in Positions, j \in Slots : T[q] # None => EntryFits(T, q, j, m[T[q]][j])
  BY Zenon DEF Tree
<1>3. c \in Positions /\ c # Root /\ T[c] = None
  BY Zenon, PositionFacts
<1>4. f \in Frames /\ f # None /\ f \notin Fixed
  BY Zenon, FrameFacts
<1>5. Child(Root, 0) \in Positions /\ Child(Root, 0) # c
  <2>1. Root \in Positions /\ 0 \in Slots /\ Root[1] # 1
    BY PositionFacts, SlotFacts DEF Root
  <2>. QED  BY <2>1, PositionFacts
<1>6. /\ U \in [Positions -> Frames \cup {None}] /\ U[c] = f
      /\ \A q \in Positions : q # c => U[q] = T[q]
  BY Zenon, <1>1, <1>3, <1>4
<1>7. p # c
  BY Zenon, <1>3
<1> HIDE DEF U
<1>9. \A q \in Positions, j \in Slots : q[1] # 1 =>
        /\ Child(q, j) \in Positions
        /\ Child(q, j) = c => q = p /\ j = i
  BY PositionFacts
<1> HIDE DEF c
<1>10. U[Root] # None /\ U[Child(Root, 0)] = None
  BY Zenon, <1>1, <1>3, <1>5, <1>6, PositionFacts
<1>11. \A q \in Positions : U[q] # None => U[q] \in (po \cup {f}) \ ((fr \ {f}) \cup Fixed)
  BY Zenon, <1>1, <1>4, <1>6
<1>12. \A q, r \in Positions : U[q] # None /\ U[q] = U[r] => q = r
  BY <1>1, <1>4, <1>6
<1>13. \A q \in Positions, j \in Slots : q[1] # 1 /\ U[Child(q, j)] # None => U[q] # None
  BY <1>1, <1>4, <1>6, <1>7, <1>9
<1>15. ASSUME NEW q \in Positions, NEW j \in Slots, U[q] # None
       PROVE  EntryFits(U, q, j, m3[U[q]][j])
  <2>1. CASE q = c
    <3>1. m3[U[q]][j] = absent
      BY Zenon, <1>6, <2>1
    <3>2. q # Root
      BY Zenon, <1>3, <2>1
    <3>3. q[1] # 1 => U[Child(q, j)] = None
      BY Zenon, <1>1, <1>3, <1>6, <1>7, <1>9, <2>1
    <3>. QED  BY Zenon, <3>1, <3>2, <3>3 DEF EntryFits
  <2>2. CASE q = p /\ j = i
    <3>1. m3[U[q]][j] = table_entry(f) /\ U[Child(q, j)] = f
      BY Zenon, <1>6, <1>7, <2>2 DEF c
    <3>. QED  BY Zenon, <3>1, <1>4, <2>2 DEF EntryFits
  <2>3. CASE q # c /\ (q # p \/ j # i)
    <3>1. U[q] = T[q] /\ T[q] # None /\ T[q] \in Frames
      BY Zenon, <1>1, <1>6, <1>15, <2>3
    <3>2. T[q] # f /\ (T[q] # T[p] \/ j # i)
      BY Zenon, <1>1, <2>3, <3>1
    <3>3. m3[U[q]][j] = m[T[q]][j]
      BY Zenon, <3>1, <3>2
    <3>4. q[1] # 1 => U[Child(q, j)] = T[Child(q, j)]
      BY Zenon, <1>6, <1>9, <2>3
    <3>5. EntryFits(T, q, j, m[T[q]][j])
      BY Zenon, <1>2, <3>1
    <3>. QED  BY Zenon, <3>3, <3>4, <3>5 DEF EntryFits
  <2>. QED  BY Zenon, <2>1, <2>2, <2>3
<1>16. Tree(U, m3, fr \ {f}, po \cup {f})
  BY Zenon, <1>6, <1>10, <1>11, <1>12, <1>13, <1>15 DEF Tree
<1>. QED  BY Zenon, <1>16 DEF U, c

\* U has every table of T at its place.
Grows(T, U) == \A q \in Positions : T[q] # None => U[q] = T[q]

\* What a walk that creates tables may do: it keeps the tree a tree, takes
\* frames from the PMM into the pool, and leaves every other frame alone.
Better(s, T, n, U) ==
  /\ n \in Walker /\ Tree(U, n.mem, n.free, n.pool) /\ Grows(T, U)
  /\ n.free \subseteq s.free
  /\ \A f \in Fixed : n.mem[f] = s.mem[f]

\* descend, from a table of the tree, reaches the child or runs out of frames,
\* and the tree it leaves behind is a tree.  A large page it takes for a table
\* leads it into memory of a caller.
LEMMA DescendFacts ==
  ASSUME nx \in BOOLEAN, NEW s \in Walker, s.free \cap Fixed = {},
         NEW T, Tree(T, s.mem, s.free, s.pool),
         NEW p \in Positions, NEW i \in Slots, p[1] # 1, ~ (p = Root /\ i = 0),
         s.at # None => s.at = T[p]
  PROVE  \E U : /\ Better(s, T, descend(s, i), U)
                /\ descend(s, i).at # None => \/ descend(s, i).at = U[Child(p, i)]
                                              \/ p[1] = 2 /\ descend(s, i).at \in Owned
<1> DEFINE n == descend(s, i)
           a == alloc(s)
<1>1. /\ s.mem \in Mem /\ s.free \in SUBSET Frames /\ s.pool \in SUBSET Frames
      /\ s.at \in Frames \cup {None}
  BY Zenon DEF Walker
<1>2. Better(s, T, s, T)
  BY Zenon DEF Better, Grows
<1>3. CASE s.at = None
  <2>1. n = s
    BY Zenon, <1>3 DEF descend
  <2>. QED  BY Zenon, <1>2, <1>3, <2>1
<1>4. CASE s.at # None
  <2> DEFINE e == s.mem[s.at][i]
             c == Child(p, i)
  <2>1. /\ s.at = T[p] /\ T[p] # None /\ s.at \in Frames
        /\ T[p] \in s.pool \ (s.free \cup Fixed)
        /\ T \in [Positions -> Frames \cup {None}]
    BY Zenon, <1>1, <1>4 DEF Tree
  <2>2. c \in Positions
    BY Zenon, PositionFacts
  <2>3. EntryFits(T, p, i, e)
    BY Zenon, <2>1 DEF Tree
  <2>4. \/ T[c] # None /\ e = table_entry(T[c])
        \/ T[c] = None /\ e = absent
        \/ T[c] = None /\ p[1] = 2 /\ LargeLeaf(e)
    BY Zenon, <2>3 DEF EntryFits
  <2>5. CASE T[c] # None
    <3>1. T[c] \in Frames
      BY Zenon, <2>1, <2>2, <2>5
    <3>2. is_present(e) /\ e.addr = T[c]
      BY Zenon, <2>4, <2>5, <3>1, EntryFacts
    <3>3. n = [s EXCEPT !.at = T[c]]
      BY Zenon, <1>4, <3>2 DEF descend
    <3>4. /\ n \in Walker /\ n.mem = s.mem /\ n.free = s.free /\ n.pool = s.pool
          /\ n.at = T[c]
      BY Zenon, <1>1, <3>1, <3>3 DEF Walker
    <3>5. Better(s, T, n, T)
      BY Zenon, <3>4 DEF Better, Grows
    <3>. QED  BY Zenon, <3>4, <3>5
  <2>7. CASE p[1] = 2 /\ LargeLeaf(e)
    <3>1. is_present(e) /\ e.addr \in Owned
      BY Zenon, <2>7, LargeFacts
    <3>2. n = [s EXCEPT !.at = e.addr]
      BY Zenon, <1>4, <3>1 DEF descend
    <3> HIDE DEF e
    <3>3. e.addr \in Frames
      BY Zenon, <3>1, FrameFacts
    <3>4. /\ n \in Walker /\ n.mem = s.mem /\ n.free = s.free /\ n.pool = s.pool
          /\ n.at = e.addr
      BY Zenon, <1>1, <3>2, <3>3 DEF Walker
    <3>5. Better(s, T, n, T)
      BY Zenon, <3>4 DEF Better, Grows
    <3>. QED  BY Zenon, <2>7, <3>1, <3>4, <3>5
  <2>6. CASE T[c] = None /\ e = absent
    <3>1. ~ is_present(e)
      BY Zenon, <2>4, <2>6, EntryFacts
    <3>2. a \in Walker
      BY Zenon, AllocFacts
    <3>3. CASE a.at = None
      <4>1. n = a
        BY Zenon, <1>4, <3>1, <3>3 DEF descend
      <4>2. a.mem = s.mem /\ a.free = s.free /\ a.pool = s.pool
        <5>1. None \notin s.free
          BY Zenon, <1>1, FrameFacts
        <5>. QED  BY Zenon, <3>3, <5>1, AllocFacts
      <4>3. Better(s, T, n, T)
        BY Zenon, <3>2, <4>1, <4>2 DEF Better, Grows
      <4>. QED  BY Zenon, <3>3, <4>1, <4>3
    <3>4. CASE a.at # None
      <4> DEFINE f == a.at
                 m3 == [a.mem EXCEPT ![s.at][i] = table_entry(f)]
                 U == [T EXCEPT ![c] = f]
      <4>1. n = [a EXCEPT !.mem[s.at][i] = table_entry(a.at)]
        BY Zenon, <1>4, <3>1, <3>4 DEF descend
      <4>2. /\ f \in s.free /\ f \in Frames /\ a.free = s.free \ {f} /\ a.pool = s.pool \cup {f}
            /\ a.mem = zeroed(s.mem, f)
        BY Zenon, <1>1, <3>4, AllocFacts
      <4>3. f # s.at /\ f \notin Fixed
        BY Zenon, <2>1, <4>2
      <4>4. table_entry(f) \in Entry
        BY Zenon, <4>2, EntryFacts
      <4>5. /\ a.mem \in Mem /\ \A j \in Slots : a.mem[f][j] = absent
            /\ \A h \in Frames : h # f => a.mem[h] = s.mem[h]
        BY <1>1, <4>2, ZeroedFacts
      <4>6. /\ m3 \in Mem /\ m3[s.at][i] = table_entry(f)
            /\ \A h \in Frames, j \in Slots : h # s.at \/ j # i => m3[h][j] = a.mem[h][j]
        BY <2>1, <4>4, <4>5, Poke
      <4>7. /\ n.mem = m3 /\ n.free = a.free /\ n.pool = a.pool /\ n.at = f
            /\ n \in Walker
        <5>1. a.mem \in [Frames -> [Slots -> Entry]]
          BY Zenon, <4>5 DEF Mem
        <5>2. n.mem = m3 /\ n.free = a.free /\ n.pool = a.pool /\ n.at = f
          BY Zenon, <3>2, <4>1, <5>1 DEF Walker
        <5>3. n = [a EXCEPT !.mem = m3]
          BY Zenon, <4>1
        <5>4. n \in Walker
          BY Zenon, <3>2, <4>6, <5>3 DEF Walker
        <5>. QED  BY Zenon, <5>2, <5>4
      <4> HIDE DEF f, a, n
      <4>8. \A h \in Fixed : m3[h] = s.mem[h]
        <5>1. \A h \in Fixed : h \in Frames /\ h # s.at /\ h # f
          BY Zenon, <2>1, <4>3, FrameFacts
        <5>2. \A h \in Frames : h # s.at => m3[h] = a.mem[h]
          BY Zenon, <2>1, <4>5 DEF Mem
        <5>. QED  BY Zenon, <4>5, <5>1, <5>2
      <4> HIDE DEF m3
      <4>9. Tree(U, m3, s.free \ {f}, s.pool \cup {f})
        <5>1. /\ m3[T[p]][i] = table_entry(f)
              /\ \A h \in Frames, j \in Slots : h # f /\ (h # T[p] \/ j # i) => m3[h][j] = s.mem[h][j]
              /\ \A j \in Slots : m3[f][j] = absent
          BY <2>1, <4>2, <4>3, <4>5, <4>6
        <5>2. T[Child(p, i)] = None /\ T[p] # None /\ m3 \in Mem
          BY Zenon, <2>1, <2>6, <4>6
        <5>3. U = [T EXCEPT ![Child(p, i)] = f]
          OBVIOUS
        <5> HIDE DEF U
        <5>. QED  BY Zenon, <1>1, <4>2, <5>1, <5>2, <5>3, GrowTree
      <4>10. U[c] = f /\ Grows(T, U)
        BY Zenon, <2>1, <2>2, <2>6 DEF Grows
      <4>11. Better(s, T, n, U)
        BY Zenon, <4>2, <4>7, <4>8, <4>9, <4>10 DEF Better
      <4>. QED  BY Zenon, <4>7, <4>10, <4>11 DEF n, c
    <3>. QED  BY Zenon, <3>3, <3>4
  <2>. QED  BY Zenon, <2>4, <2>5, <2>6, <2>7
<1>. QED  BY Zenon, <1>3, <1>4

\* An entry that fits its place may be written there.
LEMMA WriteEntry ==
  ASSUME NEW m \in Mem, NEW fr, NEW po, NEW T, Tree(T, m, fr, po),
         NEW p \in Positions, NEW i \in Slots, T[p] # None,
         NEW e \in Entry, EntryFits(T, p, i, e)
  PROVE  /\ [m EXCEPT ![T[p]][i] = e] \in Mem
         /\ Tree(T, [m EXCEPT ![T[p]][i] = e], fr, po)
         /\ \A f \in Fixed : [m EXCEPT ![T[p]][i] = e][f] = m[f]
<1> DEFINE m2 == [m EXCEPT ![T[p]][i] = e]
<1>1. /\ T \in [Positions -> Frames \cup {None}]
      /\ \A q \in Positions : T[q] # None => T[q] \in po \ (fr \cup Fixed)
      /\ \A q, r \in Positions : T[q] # None /\ T[q] = T[r] => q = r
  BY Zenon DEF Tree
<1>2. T[p] \in Frames /\ T[p] \notin Fixed
  BY Zenon, <1>1
<1>3. /\ m2 \in Mem /\ m2[T[p]][i] = e
      /\ \A h \in Frames, j \in Slots : h # T[p] \/ j # i => m2[h][j] = m[h][j]
  BY <1>2, Poke
<1>4. \A f \in Fixed : m2[f] = m[f]
  BY Zenon, <1>2, FrameFacts DEF Mem
<1> HIDE DEF m2
<1>5. ASSUME NEW q \in Positions, NEW j \in Slots, T[q] # None
      PROVE  EntryFits(T, q, j, m2[T[q]][j])
  <2>1. CASE q = p /\ j = i
    BY Zenon, <1>3, <2>1
  <2>2. CASE q # p \/ j # i
    <3>1. T[q] \in Frames /\ (T[q] # T[p] \/ j # i)
      BY Zenon, <1>1, <1>5, <2>2
    <3>2. m2[T[q]][j] = m[T[q]][j]
      BY Zenon, <1>3, <3>1
    <3>. QED  BY Zenon, <1>5, <3>2 DEF Tree
  <2>. QED  BY Zenon, <2>1, <2>2
<1>6. Tree(T, m2, fr, po)
  BY Zenon, <1>5 DEF Tree
<1>. QED  BY Zenon, <1>3, <1>4, <1>6 DEF m2

\* A large page may be written over the entry of a PD, whatever it held: the
\* table it held is no longer part of the tree.
LEMMA WriteLarge ==
  ASSUME NEW m \in Mem, NEW fr, NEW po, NEW T, Tree(T, m, fr, po),
         NEW p \in Positions, p[1] = 2, NEW i \in Slots, T[p] # None,
         NEW e \in Entry, LargeLeaf(e)
  PROVE  /\ [m EXCEPT ![T[p]][i] = e] \in Mem
         /\ \E U : Tree(U, [m EXCEPT ![T[p]][i] = e], fr, po) /\ U[Root] = T[Root]
         /\ \A f \in Fixed : [m EXCEPT ![T[p]][i] = e][f] = m[f]
<1> DEFINE m2 == [m EXCEPT ![T[p]][i] = e]
           c == Child(p, i)
           U == [T EXCEPT ![c] = None]
<1>1. /\ T \in [Positions -> Frames \cup {None}]
      /\ T[Root] # None /\ T[Child(Root, 0)] = None
      /\ \A q \in Positions : T[q] # None => T[q] \in po \ (fr \cup Fixed)
      /\ \A q, r \in Positions : T[q] # None /\ T[q] = T[r] => q = r
      /\ \A q \in Positions, j \in Slots : q[1] # 1 /\ T[Child(q, j)] # None => T[q] # None
      /\ \A q \in Positions, j \in Slots : T[q] # None => EntryFits(T, q, j, m[T[q]][j])
  BY Zenon DEF Tree
<1>2. T[p] \in Frames /\ T[p] \notin Fixed
  BY Zenon, <1>1
<1>3. /\ m2 \in Mem /\ m2[T[p]][i] = e
      /\ \A h \in Frames, j \in Slots : h # T[p] \/ j # i => m2[h][j] = m[h][j]
  BY <1>2, Poke
<1>4. \A f \in Fixed : m2[f] = m[f]
  BY Zenon, <1>2, FrameFacts DEF Mem
<1>5. p[1] # 1 /\ p # Root /\ c[1] = 1
  BY DEF Root, Child
<1>6. c \in Positions /\ c # Root
  BY Zenon, <1>5, PositionFacts
<1>7. \A q \in Positions, j \in Slots : q[1] # 1 =>
        /\ Child(q, j) \in Positions
        /\ Child(q, j) = c => q = p /\ j = i
  BY <1>5, PositionFacts
<1> HIDE DEF m2, c
<1>8. /\ U \in [Positions -> Frames \cup {None}] /\ U[c] = None
      /\ \A q \in Positions : q # c => U[q] = T[q]
  BY Zenon, <1>1, <1>6
<1> HIDE DEF U
<1>9. /\ \A q \in Positions : U[q] # None => q # c /\ U[q] = T[q]
      /\ \A q \in Positions : T[q] # None /\ q # c => U[q] # None
  BY Zenon, <1>8
<1>10. Root \in Positions /\ Root # c /\ Child(Root, 0) \in Positions
  <2>1. Root \in Positions /\ 0 \in Slots /\ Root[1] # 1
    BY PositionFacts, SlotFacts DEF Root
  <2>. QED  BY <1>6, <2>1, PositionFacts
<1>11. U[Root] = T[Root] /\ U[Root] # None /\ U[Child(Root, 0)] = None
  BY Zenon, <1>1, <1>8, <1>10
<1>12. /\ \A q \in Positions : U[q] # None => U[q] \in po \ (fr \cup Fixed)
       /\ \A q, r \in Positions : U[q] # None /\ U[q] = U[r] => q = r
  <2>1. ASSUME NEW q \in Positions, U[q] # None PROVE U[q] \in po \ (fr \cup Fixed)
    BY Zenon, <1>1, <1>9, <2>1
  <2>2. ASSUME NEW q \in Positions, NEW r \in Positions, U[q] # None, U[q] = U[r]
        PROVE  q = r
    <3>1. U[q] = T[q] /\ U[r] = T[r]
      BY Zenon, <1>9, <2>2
    <3>2. T[q] # None /\ T[q] = T[r]
      BY Zenon, <2>2, <3>1
    <3>. QED  BY Zenon, <1>1, <3>2
  <2>. QED  BY Zenon, <2>1, <2>2
<1>13. ASSUME NEW q \in Positions, NEW j \in Slots, q[1] # 1, U[Child(q, j)] # None
       PROVE  U[q] # None
  <2>1. T[Child(q, j)] # None /\ q # c
    BY Zenon, <1>5, <1>7, <1>9, <1>13
  <2>. QED  BY Zenon, <1>1, <1>9, <1>13, <2>1
<1>14. ASSUME NEW q \in Positions, NEW j \in Slots, U[q] # None
       PROVE  EntryFits(U, q, j, m2[U[q]][j])
  <2>1. U[q] = T[q] /\ T[q] # None /\ T[q] \in Frames
    BY Zenon, <1>1, <1>9, <1>14
  <2>2. CASE q = p /\ j = i
    <3>1. m2[U[q]][j] = e /\ U[Child(q, j)] = None
      BY Zenon, <1>3, <1>8, <2>1, <2>2 DEF c
    <3>. QED  BY Zenon, <1>5, <2>2, <3>1 DEF EntryFits
  <2>3. CASE q # p \/ j # i
    <3>4. T[q] # T[p] \/ j # i
      BY Zenon, <1>1, <2>1, <2>3
    <3>5. m2[T[q]][j] = m[T[q]][j]
      BY Zenon, <1>3, <2>1, <3>4
    <3>1. m2[U[q]][j] = m[T[q]][j]
      BY Zenon, <2>1, <3>5
    <3>2. q[1] # 1 => U[Child(q, j)] = T[Child(q, j)]
      BY Zenon, <1>7, <1>8, <2>3
    <3>3. EntryFits(T, q, j, m[T[q]][j])
      BY Zenon, <1>1, <2>1
    <3>. QED  BY Zenon, <3>1, <3>2, <3>3 DEF EntryFits
  <2>. QED  BY Zenon, <2>2, <2>3
<1>15. Tree(U, m2, fr, po)
  BY Zenon, <1>8, <1>11, <1>12, <1>13, <1>14 DEF Tree
<1>. QED  BY Zenon, <1>3, <1>4, <1>11, <1>15 DEF m2

-----------------------------------------------------------------------------
(* The tables of boot.asm, and walks through either set of tables. *)

\* An entry of a boot PD: a large page, never GLOBAL, NX only where the CPU
\* has it.
BootLeaf(e) == \/ e = absent
               \/ e.addr \in Nat /\ e.w = TRUE /\ e.huge = TRUE /\ e.g = FALSE /\ (e.nx => nx)

\* The tables of boot.asm: only its own tables are below its root, and its
\* entries lead where they led at boot.
Boot(m) ==
  /\ \A f \in BootTables, i \in Slots : m[f][i].addr = boot_tables(FALSE)[f][i].addr
  /\ \A i \in Slots : m[BOOT_PML4][i] \in {absent, boot_entry(BOOT_PDPT)}
  /\ m[BOOT_PML4][0] = boot_entry(BOOT_PDPT)
  /\ \A i \in Slots : \/ m[BOOT_PDPT][i] = absent
                      \/ \E f \in Range(BOOT_PDS) : m[BOOT_PDPT][i] = boot_entry(f)
  /\ \A f \in Range(BOOT_PDS), i \in Slots : BootLeaf(m[f][i])

\* Every large page the identity map and its alias offer is not executable.
Hardened(m) ==
  \A i \in 0 .. (E3 - 1), j \in 0 .. (E2 - 1) :
    is_present(m[BOOT_PDPT][i]) /\ is_present(m[m[BOOT_PDPT][i].addr][j])
      => m[m[BOOT_PDPT][i].addr][j].nx = nx

\* Where a walk of page v can end: nowhere, at a leaf the map calls wrote, or
\* at a large page of the boot map.
WalkEnd(m, v, e) ==
  \/ e = absent
  \/ \E huge \in BOOLEAN : KernelLeaf(e, huge)
  \/ /\ BootLeaf(e) /\ is_present(m[BOOT_PDPT][indices(v)[2]])
     /\ e = m[m[BOOT_PDPT][indices(v)[2]].addr][indices(v)[3]]

\* A walk: every entry but the last is a table entry, and the last one is
\* where a walk can end.
WalkShape(m, v, path) ==
  \E n \in 1 .. 4 :
    /\ DOMAIN path = 1 .. n /\ Len(path) = n /\ leaf_of(path) = path[n]
    /\ \A k \in 1 .. (n - 1) : is_present(path[k]) /\ path[k].w = TRUE /\ path[k].nx = FALSE
    /\ WalkEnd(m, v, path[n])

\* Short paths have the shape when their entries do.
LEMMA ShortPaths ==
  ASSUME NEW m, NEW v
  PROVE  /\ \A a : WalkEnd(m, v, a) => WalkShape(m, v, <<a>>)
         /\ \A f \in Frames : \A a : WalkEnd(m, v, a) => WalkShape(m, v, <<table_entry(f), a>>)
         /\ \A f, g \in Frames : \A a : WalkEnd(m, v, a)
              => WalkShape(m, v, <<table_entry(f), table_entry(g), a>>)
         /\ \A f, g, h \in Frames : \A a : WalkEnd(m, v, a)
              => WalkShape(m, v, <<table_entry(f), table_entry(g), table_entry(h), a>>)
<1>0. \A f \in Frames : is_present(table_entry(f)) /\ table_entry(f).w = TRUE
                        /\ table_entry(f).nx = FALSE
  <2>1. \A f \in Frames : f # None
    BY Zenon, FrameFacts
  <2>. QED  BY Zenon, <2>1 DEF is_present, table_entry, leaf
<1>1. ASSUME NEW a, WalkEnd(m, v, a) PROVE WalkShape(m, v, <<a>>)
  <2>1. 1 \in 1 .. 4 /\ DOMAIN <<a>> = 1 .. 1 /\ Len(<<a>>) = 1 /\ leaf_of(<<a>>) = <<a>>[1]
        /\ <<a>>[1] = a
    BY DEF leaf_of
  <2>. QED  BY <1>1, <2>1 DEF WalkShape
<1>2. ASSUME NEW f \in Frames, NEW a, WalkEnd(m, v, a)
      PROVE  WalkShape(m, v, <<table_entry(f), a>>)
  <2> DEFINE path == <<table_entry(f), a>>
  <2>1. 2 \in 1 .. 4 /\ DOMAIN path = 1 .. 2 /\ Len(path) = 2 /\ leaf_of(path) = path[2]
        /\ path[2] = a /\ path[1] = table_entry(f)
    BY DEF leaf_of
  <2>2. \A k \in 1 .. (2 - 1) : k = 1
    OBVIOUS
  <2> HIDE DEF path
  <2>3. WalkShape(m, v, path)
    BY Zenon, <1>0, <1>2, <2>1, <2>2 DEF WalkShape
  <2>. QED  BY Zenon, <2>3 DEF path
<1>3. ASSUME NEW f \in Frames, NEW g \in Frames, NEW a, WalkEnd(m, v, a)
      PROVE  WalkShape(m, v, <<table_entry(f), table_entry(g), a>>)
  <2> DEFINE path == <<table_entry(f), table_entry(g), a>>
  <2>1. 3 \in 1 .. 4 /\ DOMAIN path = 1 .. 3 /\ Len(path) = 3 /\ leaf_of(path) = path[3]
        /\ path[3] = a /\ path[1] = table_entry(f) /\ path[2] = table_entry(g)
    BY DEF leaf_of
  <2>2. \A k \in 1 .. (3 - 1) : k = 1 \/ k = 2
    OBVIOUS
  <2> HIDE DEF path
  <2>3. WalkShape(m, v, path)
    BY <1>0, <1>3, <2>1, <2>2 DEF WalkShape
  <2>. QED  BY Zenon, <2>3 DEF path
<1>4. ASSUME NEW f \in Frames, NEW g \in Frames, NEW h \in Frames, NEW a, WalkEnd(m, v, a)
      PROVE  WalkShape(m, v, <<table_entry(f), table_entry(g), table_entry(h), a>>)
  <2> DEFINE path == <<table_entry(f), table_entry(g), table_entry(h), a>>
  <2>1. 4 \in 1 .. 4 /\ DOMAIN path = 1 .. 4 /\ Len(path) = 4 /\ leaf_of(path) = path[4]
        /\ path[4] = a /\ path[1] = table_entry(f) /\ path[2] = table_entry(g)
        /\ path[3] = table_entry(h)
    BY DEF leaf_of
  <2>2. \A k \in 1 .. (4 - 1) : k = 1 \/ k = 2 \/ k = 3
    OBVIOUS
  <2> HIDE DEF path
  <2>3. WalkShape(m, v, path)
    BY <1>0, <1>4, <2>1, <2>2 DEF WalkShape
  <2>. QED  BY Zenon, <2>3 DEF path
<1>. QED  BY Zenon, <1>1, <1>2, <1>3, <1>4

\* A walk that enters the boot PDPT.
LEMMA BootWalk ==
  ASSUME nx \in BOOLEAN, NEW m \in Mem, Boot(m), NEW v \in Pages, NEW root,
         m[root][indices(v)[1]] = boot_entry(BOOT_PDPT)
  PROVE  WalkShape(m, v, walk(m, root, v))
<1> DEFINE i == indices(v)
           e4 == m[root][i[1]]
           e3 == m[e4.addr][i[2]]
           e2 == m[e3.addr][i[3]]
           e1 == m[e2.addr][i[4]]
<1>1. walk(m, root, v) = IF ~is_present(e4) THEN <<e4>>
                         ELSE IF ~is_present(e3) \/ e3.huge THEN <<e4, e3>>
                         ELSE IF ~is_present(e2) \/ e2.huge THEN <<e4, e3, e2>>
                         ELSE <<e4, e3, e2, e1>>
  BY Zenon DEF walk
<1>2. i[1] \in Slots /\ i[2] \in Slots /\ i[3] \in Slots
  BY Zenon, IndexSlots
<1>3. BOOT_PDPT \in Frames /\ Range(BOOT_PDS) \subseteq Frames
  BY Zenon, FrameFacts DEF BootTables
<1>4. e4 = table_entry(BOOT_PDPT) /\ is_present(e4) /\ e4.addr = BOOT_PDPT
  <2> HIDE DEF e4
  <2>1. e4 = boot_entry(BOOT_PDPT)
    BY Zenon DEF e4
  <2>. QED  BY Zenon, <1>3, <2>1, TableEntries
<1>5. e3 = m[BOOT_PDPT][i[2]]
  BY Zenon, <1>4
<1>6. CASE e3 = absent
  <2>1. ~ is_present(e3)
    BY Zenon, <1>6, EntryFacts
  <2>2. walk(m, root, v) = <<table_entry(BOOT_PDPT), e3>>
    BY Zenon, <1>1, <1>4, <2>1
  <2>3. WalkEnd(m, v, e3)
    BY SMTT(60), <1>6 DEF WalkEnd
  <2>. QED  BY SMTT(60), <1>3, <2>2, <2>3, ShortPaths
<1>7. ASSUME NEW f \in Range(BOOT_PDS), e3 = boot_entry(f)
      PROVE  WalkShape(m, v, walk(m, root, v))
  <2>1. f \in Frames
    BY Zenon, <1>3
  <2>2. e3 = table_entry(f) /\ is_present(e3) /\ e3.addr = f /\ e3.huge = FALSE
    <3> HIDE DEF e3
    <3>. QED  BY Zenon, <1>7, <2>1, TableEntries
  <2>3. e2 = m[f][i[3]] /\ BootLeaf(e2)
    BY SMTT(60), <1>2, <2>2 DEF Boot
  <2>4. ~is_present(e2) \/ e2.huge
    BY Zenon, <2>3, EntryFacts DEF BootLeaf
  <2>5. walk(m, root, v) = <<table_entry(BOOT_PDPT), table_entry(f), e2>>
    <3> HIDE DEF e2, e3, e4, e1
    <3>. QED  BY Zenon, <1>1, <1>4, <2>2, <2>4
  <2>6. WalkEnd(m, v, e2)
    BY Zenon, <1>5, <2>2, <2>3 DEF WalkEnd
  <2>. QED  BY Zenon, <1>3, <2>1, <2>5, <2>6, ShortPaths
<1>8. e3 = absent \/ \E f \in Range(BOOT_PDS) : e3 = boot_entry(f)
  BY Zenon, <1>2, <1>5 DEF Boot
<1>. QED  BY Zenon, <1>6, <1>7, <1>8

\* A walk from the root boot.asm installed.
LEMMA FirstRootWalk ==
  ASSUME nx \in BOOLEAN, NEW m \in Mem, Boot(m), NEW v \in Pages
  PROVE  WalkShape(m, v, walk(m, BOOT_PML4, v))
<1> DEFINE e == m[BOOT_PML4][indices(v)[1]]
<1>1. e \in {absent, boot_entry(BOOT_PDPT)}
  BY Zenon, IndexSlots DEF Boot
<1>2. CASE e = absent
  <2>1. walk(m, BOOT_PML4, v) = <<e>>
    BY Zenon, <1>2, EntryFacts DEF walk
  <2>2. WalkEnd(m, v, e)
    BY Zenon, <1>2 DEF WalkEnd
  <2>. QED  BY SMTT(60), <2>1, <2>2, ShortPaths
<1>3. CASE e = boot_entry(BOOT_PDPT)
  BY Zenon, <1>3, BootWalk
<1>. QED  BY Zenon, <1>1, <1>2, <1>3

\* A walk from the kernel's own root.
LEMMA KernelWalk ==
  ASSUME nx \in BOOLEAN, NEW m \in Mem, Boot(m), NEW v \in Pages,
         NEW T, NEW fr, NEW po, Tree(T, m, fr, po)
  PROVE  WalkShape(m, v, walk(m, T[Root], v))
<1> DEFINE i == indices(v)
           p3 == <<3, i[1], 0, 0>>
           p2 == <<2, i[1], i[2], 0>>
           p1 == <<1, i[1], i[2], i[3]>>
           e4 == m[T[Root]][i[1]]
           e3 == m[e4.addr][i[2]]
           e2 == m[e3.addr][i[3]]
           e1 == m[e2.addr][i[4]]
<1>1. walk(m, T[Root], v) = IF ~is_present(e4) THEN <<e4>>
                            ELSE IF ~is_present(e3) \/ e3.huge THEN <<e4, e3>>
                            ELSE IF ~is_present(e2) \/ e2.huge THEN <<e4, e3, e2>>
                            ELSE <<e4, e3, e2, e1>>
  BY Zenon DEF walk
<1>2. i[1] \in Slots /\ i[2] \in Slots /\ i[3] \in Slots /\ i[4] \in Slots
  BY Zenon, IndexSlots
<1>3. Root \in Positions /\ p3 \in Positions /\ p2 \in Positions /\ p1 \in Positions
  BY <1>2, SlotFacts, PositionFacts DEF Positions
<1>4. Child(Root, i[1]) = p3 /\ Child(p3, i[2]) = p2 /\ Child(p2, i[3]) = p1
  BY DEF Child, Root
<1>5. /\ T \in [Positions -> Frames \cup {None}] /\ T[Root] # None
      /\ \A p \in Positions, j \in Slots : T[p] # None => EntryFits(T, p, j, m[T[p]][j])
  BY Zenon DEF Tree
<1>6. ~ is_present(absent)
  BY Zenon, EntryFacts
<1>7. \A f \in Frames : is_present(table_entry(f)) /\ table_entry(f).addr = f
                        /\ table_entry(f).huge = FALSE
  BY Zenon, EntryFacts
<1>8. WalkEnd(m, v, absent)
  BY Zenon DEF WalkEnd
<1>9. EntryFits(T, Root, i[1], e4)
  BY Zenon, <1>2, <1>3, <1>5
<1>10. \/ e4 = boot_entry(BOOT_PDPT) \/ e4 = absent
       \/ T[p3] # None /\ e4 = table_entry(T[p3])
  BY <1>4, <1>9 DEF EntryFits, Root
<1>11. CASE e4 = boot_entry(BOOT_PDPT)
  BY Zenon, <1>11, BootWalk
<1>14. /\ p3[1] = 3 /\ p3[1] # 1 /\ p3 # Root /\ p2[1] = 2 /\ p2[1] # 1 /\ p2 # Root
       /\ p1[1] = 1
  BY DEF Root
<1>15. /\ e3 = m[e4.addr][i[2]] /\ e2 = m[e3.addr][i[3]] /\ e1 = m[e2.addr][i[4]]
  OBVIOUS
<1> HIDE DEF i, p3, p2, p1, e4, e3, e2, e1
<1>12. CASE e4 = absent
  BY Zenon, <1>1, <1>6, <1>8, <1>12, ShortPaths
<1>13. CASE T[p3] # None /\ e4 = table_entry(T[p3])
  <2>1. T[p3] \in Frames /\ is_present(e4) /\ e4.addr = T[p3]
    BY Zenon, <1>3, <1>5, <1>7, <1>13
  <2>2. EntryFits(T, p3, i[2], e3)
    BY Zenon, <1>2, <1>3, <1>5, <1>13, <1>15, <2>1
  <2>3. e3 = absent \/ (T[p2] # None /\ e3 = table_entry(T[p2]))
    BY <1>4, <1>14, <2>2 DEF EntryFits
  <2>4. CASE e3 = absent
    <3>1. walk(m, T[Root], v) = <<table_entry(T[p3]), absent>>
      BY Zenon, <1>1, <1>6, <1>13, <2>1, <2>4
    <3>. QED  BY Zenon, <1>8, <2>1, <3>1, ShortPaths
  <2>5. CASE T[p2] # None /\ e3 = table_entry(T[p2])
    <3>1. T[p2] \in Frames /\ is_present(e3) /\ e3.addr = T[p2] /\ e3.huge = FALSE
      BY Zenon, <1>3, <1>5, <1>7, <2>5
    <3>2. EntryFits(T, p2, i[3], e2)
      BY Zenon, <1>2, <1>3, <1>5, <1>15, <2>5, <3>1
    <3>3. \/ e2 = absent \/ KernelLeaf(e2, TRUE)
          \/ T[p1] # None /\ e2 = table_entry(T[p1])
      BY Zenon, <1>4, <1>14, <3>2, LargeFacts DEF EntryFits
    <3>4. CASE e2 = absent \/ KernelLeaf(e2, TRUE)
      <4>1. ~ is_present(e2) \/ e2.huge
        <5>1. KernelLeaf(e2, TRUE) => e2.huge
          BY ZenonT(60), EntryFacts DEF KernelLeaf
        <5>. QED  BY Zenon, <1>6, <3>4, <5>1
      <4>2. walk(m, T[Root], v) = <<table_entry(T[p3]), table_entry(T[p2]), e2>>
        BY Zenon, <1>1, <1>13, <2>1, <2>5, <3>1, <4>1
      <4>3. WalkEnd(m, v, e2)
        BY Zenon, <3>4 DEF WalkEnd
      <4>. QED  BY Zenon, <2>1, <3>1, <4>2, <4>3, ShortPaths
    <3>5. CASE T[p1] # None /\ e2 = table_entry(T[p1])
      <4>1. T[p1] \in Frames /\ is_present(e2) /\ e2.addr = T[p1] /\ e2.huge = FALSE
        BY Zenon, <1>3, <1>5, <1>7, <3>5
      <4>2. EntryFits(T, p1, i[4], e1)
        BY Zenon, <1>2, <1>3, <1>5, <1>15, <3>5, <4>1
      <4>3. e1 = absent \/ KernelLeaf(e1, FALSE)
        BY Zenon, <1>14, <4>2 DEF EntryFits
      <4>4. walk(m, T[Root], v) = <<table_entry(T[p3]), table_entry(T[p2]), table_entry(T[p1]), e1>>
        BY Zenon, <1>1, <1>13, <2>1, <2>5, <3>1, <3>5, <4>1
      <4>5. WalkEnd(m, v, e1)
        BY Zenon, <4>3 DEF WalkEnd
      <4>. QED  BY Zenon, <2>1, <3>1, <4>1, <4>4, <4>5, ShortPaths
    <3>. QED  BY Zenon, <3>3, <3>4, <3>5
  <2>. QED  BY Zenon, <2>3, <2>4, <2>5
<1>. QED  BY Zenon, <1>10, <1>11, <1>12, <1>13

\* What a walk can end at: without NX no NX bit, with it no GLOBAL leaf that is
\* writable and executable, and outside the boot map none at all.
LEMMA EndFacts ==
  ASSUME nx \in BOOLEAN, NEW m, NEW v, NEW e, WalkEnd(m, v, e)
  PROVE  /\ e.nx => nx
         /\ nx /\ is_present(e) /\ e.w /\ ~ e.nx =>
              /\ ~ e.g
              /\ is_present(m[BOOT_PDPT][indices(v)[2]])
              /\ e = m[m[BOOT_PDPT][indices(v)[2]].addr][indices(v)[3]]
<1>1. CASE e = absent
  <2>1. ~ is_present(e) /\ e.nx = FALSE
    BY Zenon, <1>1 DEF absent, is_present
  <2>. QED  BY Zenon, <2>1
<1>2. ASSUME NEW huge \in BOOLEAN, KernelLeaf(e, huge)
      PROVE  (e.nx => nx) /\ (nx /\ e.w => e.nx)
  BY SMTT(60), <1>2, EntryFacts DEF KernelLeaf
<1>3. CASE BootLeaf(e) /\ e # absent
  <2>1. e.g = FALSE /\ (e.nx => nx)
    BY Zenon, <1>3 DEF BootLeaf
  <2>. QED  BY Zenon, <1>2, <1>3, <2>1 DEF WalkEnd
<1>. QED  BY Zenon, <1>1, <1>2, <1>3 DEF WalkEnd

\* The processor may write and execute a page exactly when the leaf lets it:
\* no entry above the leaf takes a permission away.
LEMMA HardwareFacts ==
  ASSUME NEW m, NEW root, NEW v, WalkShape(m, v, walk(m, root, v))
  PROVE  LET e == leaf_of(walk(m, root, v))
         IN  /\ WalkEnd(m, v, e)
             /\ hardware(m, root, v).w /\ hardware(m, root, v).x
                  <=> is_present(e) /\ e.w /\ ~ e.nx
             /\ \A k \in DOMAIN walk(m, root, v) : walk(m, root, v)[k].nx => e.nx
<1> DEFINE path == walk(m, root, v)
           e == leaf_of(path)
           fr == frame_at(path, v)
<1>1. hardware(m, root, v) = IF ~is_present(e) THEN NotMapped
                             ELSE [frame |-> fr, w |-> \A k \in DOMAIN path : path[k].w,
                                   x |-> ~\E k \in DOMAIN path : path[k].nx]
  BY Zenon DEF hardware
<1>2. WalkShape(m, v, path)
  OBVIOUS
<1> HIDE DEF path, fr
<1>3. PICK n \in 1 .. 4 :
        /\ DOMAIN path = 1 .. n /\ leaf_of(path) = path[n]
        /\ \A k \in 1 .. (n - 1) : is_present(path[k]) /\ path[k].w = TRUE /\ path[k].nx = FALSE
        /\ WalkEnd(m, v, path[n])
  BY Zenon, <1>2 DEF WalkShape
<1>4. e = path[n] /\ WalkEnd(m, v, e)
  BY Zenon, <1>3
<1> HIDE DEF e
<1>5. \A k \in DOMAIN path : k = n \/ (path[k].w = TRUE /\ path[k].nx = FALSE)
  BY <1>3
<1>6. n \in DOMAIN path
  BY <1>3
<1>7. \A k \in DOMAIN path : path[k].nx => e.nx
  BY Zenon, <1>4, <1>5
<1>8. CASE ~ is_present(e)
  <2>1. ~ hardware(m, root, v).w
    BY <1>1, <1>8 DEF NotMapped
  <2>. QED  BY Zenon, <1>4, <1>7, <1>8, <2>1 DEF e, path
<1>9. CASE is_present(e)
  <2>1. hardware(m, root, v).w = (\A k \in DOMAIN path : path[k].w)
    BY <1>1, <1>9
  <2>2. hardware(m, root, v).x = (~\E k \in DOMAIN path : path[k].nx)
    BY <1>1, <1>9
  <2>3. (\A k \in DOMAIN path : path[k].w) <=> e.w
    BY Zenon, <1>4, <1>5, <1>6
  <2>4. (~\E k \in DOMAIN path : path[k].nx) <=> ~ e.nx
    BY Zenon, <1>4, <1>5, <1>6
  <2>5. hardware(m, root, v).w /\ hardware(m, root, v).x <=> e.w /\ ~ e.nx
    BY Zenon, <2>1, <2>2, <2>3, <2>4
  <2>. QED  BY Zenon, <1>4, <1>7, <1>9, <2>5 DEF e, path
<1>. QED  BY Zenon, <1>8, <1>9

\* Once the boot map is hardened, no walk ends at a page that may be written
\* and executed.
LEMMA NoWXWalk ==
  ASSUME nx = TRUE, NEW m, NEW v \in Pages, NEW e, WalkEnd(m, v, e), Hardened(m)
  PROVE  ~ (is_present(e) /\ e.w /\ ~ e.nx)
<1>1. indices(v)[2] \in 0 .. (E3 - 1) /\ indices(v)[3] \in 0 .. (E2 - 1)
  BY Zenon, IndexFacts
<1>2. SUFFICES ASSUME is_present(e), e.w, ~ e.nx PROVE FALSE
  OBVIOUS
<1>3. /\ is_present(m[BOOT_PDPT][indices(v)[2]])
      /\ e = m[m[BOOT_PDPT][indices(v)[2]].addr][indices(v)[3]]
  BY Zenon, <1>2, EndFacts
<1>4. e.nx = nx
  BY Zenon, <1>1, <1>2, <1>3 DEF Hardened
<1>. QED  BY Zenon, <1>2, <1>4

\* Tables that agree on the boot tables have the same boot map.
LEMMA BootSame ==
  ASSUME nx \in BOOLEAN, NEW m, NEW m2, \A f \in BootTables : m2[f] = m[f], Boot(m)
  PROVE  Boot(m2) /\ (Hardened(m) => Hardened(m2))
<1>1. m2[BOOT_PML4] = m[BOOT_PML4] /\ m2[BOOT_PDPT] = m[BOOT_PDPT]
      /\ \A f \in Range(BOOT_PDS) : m2[f] = m[f]
  BY Zenon DEF BootTables
<1>2. Boot(m2)
  BY Zenon, <1>1 DEF Boot
<1>3. \A i \in 0 .. (E3 - 1) : is_present(m[BOOT_PDPT][i]) => m[BOOT_PDPT][i].addr \in Range(BOOT_PDS)
  <2>1. SUFFICES ASSUME NEW i \in 0 .. (E3 - 1), is_present(m[BOOT_PDPT][i])
                 PROVE  m[BOOT_PDPT][i].addr \in Range(BOOT_PDS)
    OBVIOUS
  <2>2. i \in Slots
    BY SlotFacts, GeometryAssumption
  <2>3. PICK f \in Range(BOOT_PDS) : m[BOOT_PDPT][i] = boot_entry(f)
    BY Zenon, <2>1, <2>2, EntryFacts DEF Boot
  <2>4. f \in Frames
    BY SMTT(60), FrameFacts DEF BootTables
  <2>. QED  BY <2>3, <2>4, TableEntries
<1>4. Hardened(m) => Hardened(m2)
  BY <1>1, <1>3 DEF Hardened
<1>. QED  BY Zenon, <1>2, <1>4

-----------------------------------------------------------------------------
(* What a step leaves, what boot.asm leaves, and who holds a table. *)

\* NX_AVAILABLE does not change, so what it decides does not.
LEMMA NxSame ==
  ASSUME nx' = nx
  PROVE  /\ Boot(mem)' <=> Boot(mem')
         /\ Hardened(mem)' <=> Hardened(mem')
         /\ \A T : Tree(T, mem, free, pool)' <=> Tree(T, mem', free', pool')
<1>1. \A perm : effective(perm)' = effective(perm)
  BY Zenon DEF effective
<1>2. \A e, huge : KernelLeaf(e, huge)' <=> KernelLeaf(e, huge)
  BY Zenon, <1>1 DEF KernelLeaf, leaf
<1>3. \A e : BootLeaf(e)' <=> BootLeaf(e)
  BY Zenon DEF BootLeaf
<1>4. Boot(mem)' <=> Boot(mem')
  BY Zenon, <1>3 DEF Boot, BootLeaf
<1>5. Hardened(mem)' <=> Hardened(mem')
  BY Zenon DEF Hardened
<1>6. \A T : Tree(T, mem, free, pool)' <=> Tree(T, mem', free', pool')
  <2>1. ASSUME NEW T, NEW p, NEW i PROVE EntryFits(T, p, i, mem[T[p]][i])' <=> EntryFits(T, p, i, mem'[T[p]][i])
    BY Zenon, <1>1 DEF EntryFits, KernelLeaf, LargeLeaf, leaf
  <2>. QED  BY Zenon, <2>1 DEF Tree
<1>. QED  BY Zenon, <1>4, <1>5, <1>6

\* What was in memory before boot does not show in the tables of boot.asm.
LEMMA BootTablesSame ==
  ASSUME NEW stale \in BOOLEAN, NEW f \in BootTables
  PROVE  boot_tables(stale)[f] = boot_tables(FALSE)[f]
<1> DEFINE rest(st) == [i \in Slots |-> IF st THEN boot_entry(0) ELSE absent]
           clear == [i \in Slots |-> absent]
           window(i) == (i % (E3 - Len(BOOT_PDS))) + 1
           top == [clear EXCEPT ![0] = boot_entry(BOOT_PDPT), ![E4 - 1] = boot_entry(BOOT_PDPT)]
           middle == [i \in Slots |-> IF window(i) \in DOMAIN BOOT_PDS /\ i < E3
                                      THEN boot_entry(BOOT_PDS[window(i)]) ELSE absent]
           pd(g) == CHOOSE d \in DOMAIN BOOT_PDS : BOOT_PDS[d] = g
           large(d, i) == [boot_entry(((d - 1) * E2 + i) * E1) EXCEPT !.huge = TRUE]
           low(g) == [i \in Slots |-> IF i < E2 THEN large(pd(g), i) ELSE absent]
           tables(st) == [g \in Frames |-> CASE g = BOOT_PML4 -> top
                                             [] g = BOOT_PDPT -> middle
                                             [] g \in Range(BOOT_PDS) -> low(g)
                                             [] OTHER -> rest(st)]
<1>1. boot_tables(stale) = tables(stale) /\ boot_tables(FALSE) = tables(FALSE)
  BY Zenon DEF boot_tables
<1>2. /\ f \in Frames /\ BOOT_PML4 # BOOT_PDPT
      /\ BOOT_PML4 \notin Range(BOOT_PDS) /\ BOOT_PDPT \notin Range(BOOT_PDS)
  BY Zenon, FrameFacts, GeometryAssumption
<1>3. f = BOOT_PML4 \/ f = BOOT_PDPT \/ f \in Range(BOOT_PDS)
  BY Zenon DEF BootTables
<1> HIDE DEF top, middle, low, rest
<1>4. CASE f = BOOT_PML4
  <2>1. tables(stale)[f] = top /\ tables(FALSE)[f] = top
    BY Zenon, <1>2, <1>4
  <2>. QED  BY Zenon, <1>1, <2>1
<1>5. CASE f = BOOT_PDPT
  <2>1. tables(stale)[f] = middle /\ tables(FALSE)[f] = middle
    BY Zenon, <1>2, <1>5
  <2>. QED  BY Zenon, <1>1, <2>1
<1>6. CASE f \in Range(BOOT_PDS)
  <2>1. tables(stale)[f] = low(f) /\ tables(FALSE)[f] = low(f)
    BY Zenon, <1>2, <1>6
  <2>. QED  BY Zenon, <1>1, <2>1
<1>. QED  BY Zenon, <1>3, <1>4, <1>5, <1>6

\* The tables boot.asm leaves.
LEMMA BootTablesFacts ==
  ASSUME nx \in BOOLEAN, NEW stale \in BOOLEAN
  PROVE  boot_tables(stale) \in Mem /\ Boot(boot_tables(stale))
<1> DEFINE b == boot_tables(stale)
           rest == [i \in Slots |-> IF stale THEN boot_entry(0) ELSE absent]
           clear == [i \in Slots |-> absent]
           window(i) == (i % (E3 - Len(BOOT_PDS))) + 1
           top == [clear EXCEPT ![0] = boot_entry(BOOT_PDPT), ![E4 - 1] = boot_entry(BOOT_PDPT)]
           middle == [i \in Slots |-> IF window(i) \in DOMAIN BOOT_PDS /\ i < E3
                                      THEN boot_entry(BOOT_PDS[window(i)]) ELSE absent]
           pd(f) == CHOOSE d \in DOMAIN BOOT_PDS : BOOT_PDS[d] = f
           large(d, i) == [boot_entry(((d - 1) * E2 + i) * E1) EXCEPT !.huge = TRUE]
           low(f) == [i \in Slots |-> IF i < E2 THEN large(pd(f), i) ELSE absent]
<1>1. b = [f \in Frames |-> CASE f = BOOT_PML4 -> top
                              [] f = BOOT_PDPT -> middle
                              [] f \in Range(BOOT_PDS) -> low(f)
                              [] OTHER -> rest]
  BY Zenon DEF boot_tables
<1>2. /\ BOOT_PML4 \in Frames /\ BOOT_PDPT \in Frames /\ BOOT_PML4 # BOOT_PDPT
      /\ BOOT_PML4 \notin Range(BOOT_PDS) /\ BOOT_PDPT \notin Range(BOOT_PDS)
      /\ Range(BOOT_PDS) \subseteq Frames
  BY Zenon, FrameFacts, GeometryAssumption DEF BootTables
<1>3. /\ b[BOOT_PML4] = top /\ b[BOOT_PDPT] = middle
      /\ \A f \in Range(BOOT_PDS) : b[f] = low(f)
      /\ \A f \in Frames \ BootTables : b[f] = rest
  <2> HIDE DEF top, middle, low, rest, b
  <2>. QED  BY Zenon, <1>1, <1>2 DEF BootTables
<1>4. 0 \in Slots /\ E4 - 1 \in Slots /\ Slots \subseteq Nat /\ E2 \in Nat \ {0} /\ E1 \in Nat \ {0}
  <2>1. E4 - 1 \in Nat /\ E4 - 1 < E4
    BY GeometryAssumption
  <2>. QED  BY Zenon, <2>1, SlotFacts, GeometryAssumption
<1>5. absent \in Entry /\ \A f \in Frames : boot_entry(f) \in Entry
  BY Zenon, EntryFacts
<1>6. /\ top \in [Slots -> Entry] /\ top[0] = boot_entry(BOOT_PDPT)
      /\ \A i \in Slots : top[i] \in {absent, boot_entry(BOOT_PDPT)}
  BY Zenon, <1>2, <1>4, <1>5
<1>7. \A i \in Slots : \/ middle[i] = absent
                       \/ \E f \in Range(BOOT_PDS) : middle[i] = boot_entry(f)
  <2>1. \A d \in DOMAIN BOOT_PDS : BOOT_PDS[d] \in Range(BOOT_PDS)
    BY Zenon DEF Range
  <2> HIDE DEF window
  <2>. QED  BY Zenon, <2>1
<1>8. middle \in [Slots -> Entry]
  <2>1. \A i \in Slots : middle[i] \in Entry
    <3> HIDE DEF middle
    <3>. QED  BY Zenon, <1>2, <1>5, <1>7
  <2> HIDE DEF window
  <2>. QED  BY Zenon, <2>1
<1>9. ASSUME NEW f \in Range(BOOT_PDS), NEW i \in Slots
      PROVE  low(f)[i] \in Entry /\ BootLeaf(low(f)[i])
  <2>1. CASE ~ (i < E2)
    BY Zenon, <1>5, <2>1 DEF BootLeaf
  <2>2. CASE i < E2
    <3>1. DOMAIN BOOT_PDS = 1 .. Len(BOOT_PDS) /\ Len(BOOT_PDS) \in Nat
      BY GeometryAssumption
    <3>2. \E d \in DOMAIN BOOT_PDS : BOOT_PDS[d] = f
      BY Zenon DEF Range
    <3>3. pd(f) \in DOMAIN BOOT_PDS
      BY Zenon, <3>2
    <3> DEFINE d == pd(f)
               a == ((d - 1) * E2 + i) * E1
    <3>4. d - 1 \in Nat
      BY <3>1, <3>3
    <3> HIDE DEF d
    <3>5. (d - 1) * E2 \in Nat
      BY <1>4, <3>4
    <3>6. a \in Nat
      <4>1. (d - 1) * E2 + i \in Nat
        BY <1>4, <3>5
      <4>. QED  BY <1>4, <4>1
    <3>7. low(f)[i] = [boot_entry(a) EXCEPT !.huge = TRUE]
      BY Zenon, <2>2 DEF d
    <3> HIDE DEF a
    <3>8. boot_entry(a) = [addr |-> a, w |-> TRUE, nx |-> FALSE, huge |-> FALSE, g |-> FALSE]
      BY Zenon DEF boot_entry, leaf
    <3> DEFINE e == low(f)[i]
               q == boot_entry(a)
    <3>9. q \in Entry /\ q.addr = a /\ q.w = TRUE /\ q.nx = FALSE /\ q.g = FALSE
      BY <3>6, <3>8 DEF Entry
    <3>10. e = [q EXCEPT !.huge = TRUE]
      BY Zenon, <3>7
    <3> HIDE DEF e, q
    <3>11. e \in Entry /\ e.addr = a /\ e.w = TRUE /\ e.nx = FALSE /\ e.huge = TRUE /\ e.g = FALSE
      BY Zenon, <3>9, <3>10 DEF Entry
    <3>12. BootLeaf(e)
      BY Zenon, <3>6, <3>11 DEF BootLeaf
    <3>. QED  BY Zenon, <3>11, <3>12 DEF e
  <2>. QED  BY Zenon, <2>1, <2>2
<1>10. \A f \in Range(BOOT_PDS) : low(f) \in [Slots -> Entry]
  <2>1. \A f \in Range(BOOT_PDS), i \in Slots : low(f)[i] \in Entry
    BY Zenon, <1>9
  <2> HIDE DEF large, pd
  <2>. QED  BY Zenon, <2>1
<1>11. rest \in [Slots -> Entry]
  <2>1. boot_entry(0) \in Entry
    BY DEF boot_entry, leaf, Entry
  <2>. QED  BY Zenon, <1>5, <2>1
<1> HIDE DEF top, middle, low, rest, b
<1>12. \A f \in Frames : b[f] \in [Slots -> Entry]
  BY Zenon, <1>3, <1>6, <1>8, <1>10, <1>11 DEF BootTables
<1>13. b \in Mem
  <2>1. b = [f \in Frames |-> b[f]]
    BY <1>1
  <2>. QED  BY Zenon, <1>12, <2>1 DEF Mem
<1>14. Boot(b)
  <2>1. \A f \in BootTables : b[f] = boot_tables(FALSE)[f]
    BY BootTablesSame DEF b
  <2>. QED  BY Zenon, <1>3, <1>6, <1>7, <1>9, <2>1 DEF Boot
<1>. QED  BY Zenon, <1>13, <1>14 DEF b

\* A walk from either root.
LEMMA RootWalk ==
  ASSUME nx \in BOOLEAN, NEW m \in Mem, Boot(m), NEW v \in Pages, NEW root,
         NEW fr, NEW po,
         root = BOOT_PML4 \/ \E T : Tree(T, m, fr, po) /\ T[Root] = root
  PROVE  WalkShape(m, v, walk(m, root, v))
<1>1. CASE root = BOOT_PML4
  BY Zenon, <1>1, FirstRootWalk
<1>2. ASSUME NEW T, Tree(T, m, fr, po), T[Root] = root
      PROVE  WalkShape(m, v, walk(m, root, v))
  BY Zenon, <1>2, KernelWalk
<1>. QED  BY Zenon, <1>1, <1>2

\* What the TLB may load, with walks that have their shape.
LEMMA TlbStep ==
  ASSUME nx \in BOOLEAN, NEW kept, TlbFill(kept),
         \A v \in Pages : WalkShape(mem', v, walk(mem', cr3', v))
  PROVE  /\ nx /\ (\A t \in kept : t.g => ~ (t.to.w /\ t.to.x))
              => \A t \in cached' : t.g => ~ (t.to.w /\ t.to.x)
         /\ nx /\ Hardened(mem') /\ (\A t \in kept : ~ (t.to.w /\ t.to.x))
              => \A t \in cached' : ~ (t.to.w /\ t.to.x)
<1> DEFINE fill(v) == [page |-> v, to |-> hardware(mem', cr3', v),
                       g |-> leaf_of(walk(mem', cr3', v)).g]
<1>1. \A t \in cached' : t \in kept \/ \E v \in Pages : t = fill(v)
  BY Zenon DEF TlbFill
<1>2. ASSUME NEW v \in Pages, nx
      PROVE  /\ fill(v).g => ~ (fill(v).to.w /\ fill(v).to.x)
             /\ Hardened(mem') => ~ (fill(v).to.w /\ fill(v).to.x)
  <2> DEFINE e == leaf_of(walk(mem', cr3', v))
             h == hardware(mem', cr3', v)
  <2>1. WalkEnd(mem', v, e) /\ (h.w /\ h.x <=> is_present(e) /\ e.w /\ ~ e.nx)
    BY Zenon, HardwareFacts
  <2>2. fill(v).g = e.g /\ fill(v).to = h
    OBVIOUS
  <2> HIDE DEF e, h, fill
  <2>3. is_present(e) /\ e.w /\ ~ e.nx => ~ e.g
    BY Zenon, <1>2, <2>1, EndFacts
  <2>4. Hardened(mem') => ~ (is_present(e) /\ e.w /\ ~ e.nx)
    <3>1. nx = TRUE
      BY Zenon, <1>2
    <3>. QED  BY Zenon, <2>1, <3>1, NoWXWalk
  <2>. QED  BY Zenon, <2>1, <2>2, <2>3, <2>4
<1> HIDE DEF fill
<1>. QED  BY Zenon, <1>1, <1>2

\* Two walks, one after the other.
LEMMA BetterStill ==
  ASSUME NEW s, NEW T, NEW n, NEW U, NEW k, NEW W, Better(s, T, n, U), Better(n, U, k, W)
  PROVE  Better(s, T, k, W)
<1>1. Grows(T, W)
  BY Zenon DEF Better, Grows, Tree
<1>. QED  BY Zenon, <1>1 DEF Better

\* The tree does not depend on frames the PMM never gives.
LEMMA TreeSame ==
  ASSUME NEW m, NEW m2, NEW fr, NEW po, NEW T, Tree(T, m, fr, po),
         \A f \in Frames \ Fixed : m2[f] = m[f]
  PROVE  Tree(T, m2, fr, po)
<1>1. \A p \in Positions : T[p] # None => m2[T[p]] = m[T[p]]
  <2>1. ASSUME NEW p \in Positions, T[p] # None PROVE T[p] \in Frames \ Fixed
    BY Zenon, <2>1 DEF Tree
  <2>. QED  BY Zenon, <2>1
<1>2. \A p \in Positions, i \in Slots : T[p] # None => EntryFits(T, p, i, m2[T[p]][i])
  BY Zenon, <1>1 DEF Tree
<1>. QED  BY Zenon, <1>2 DEF Tree

\* A hardened entry is NX when the CPU has NX.
LEMMA HardenedEntry ==
  ASSUME nx \in BOOLEAN, NEW e \in Entry, BootLeaf(e)
  PROVE  /\ hardened(e) \in Entry /\ BootLeaf(hardened(e)) /\ hardened(e).addr = e.addr
         /\ is_present(hardened(e)) => hardened(e).nx = nx
<1>1. CASE e = absent
  <2>1. hardened(e) = e /\ ~ is_present(e)
    BY Zenon, <1>1, EntryFacts DEF hardened
  <2>. QED  BY Zenon, <2>1
<1>2. CASE e # absent
  <2>1. e.addr \in Nat
    BY Zenon, <1>2 DEF BootLeaf
  <2>2. is_present(e)
    BY <2>1 DEF is_present, None
  <2>3. hardened(e) = leaf(e.addr, effective("BootIdentity"), TRUE)
    BY Zenon, <2>2 DEF hardened
  <2>4. effective("BootIdentity") = [w |-> TRUE, nx |-> nx, g |-> FALSE]
    <3>1. (TRUE /\ nx) = nx
      OBVIOUS
    <3>. QED  BY Zenon, <3>1 DEF effective, bits
  <2>5. hardened(e) = [addr |-> e.addr, w |-> TRUE, nx |-> nx, huge |-> TRUE, g |-> FALSE]
    <3> DEFINE f == effective("BootIdentity")
    <3>1. f.w = TRUE /\ f.nx = nx /\ f.g = FALSE
      BY <2>4
    <3>2. hardened(e) = [addr |-> e.addr, w |-> f.w, nx |-> f.nx, huge |-> TRUE, g |-> f.g]
      BY Zenon, <2>3 DEF leaf
    <3> HIDE DEF f
    <3>. QED  BY Zenon, <3>1, <3>2
  <2> DEFINE h == hardened(e)
  <2>6. h.addr = e.addr /\ h.w = TRUE /\ h.nx = nx /\ h.huge = TRUE /\ h.g = FALSE /\ h \in Entry
    <3>1. h.addr = e.addr /\ h.w = TRUE /\ h.nx = nx /\ h.huge = TRUE /\ h.g = FALSE
      BY <2>5
    <3>2. e.addr \in Int /\ TRUE \in BOOLEAN /\ FALSE \in BOOLEAN /\ nx \in BOOLEAN
      BY <2>1
    <3>3. [addr |-> e.addr, w |-> TRUE, nx |-> nx, huge |-> TRUE, g |-> FALSE] \in Entry
      BY Zenon, <3>2 DEF Entry
    <3>. QED  BY Zenon, <2>5, <3>1, <3>3
  <2> HIDE DEF h
  <2>7. BootLeaf(h)
    BY Zenon, <2>1, <2>6 DEF BootLeaf
  <2>. QED  BY Zenon, <2>6, <2>7 DEF h
<1>. QED  BY Zenon, <1>1, <1>2

\* Entry e of the tables is the one at slot i of the table at p, and holds a table.
Holds(T, p, i, e) ==
  /\ p \in Positions /\ i \in Slots /\ p[1] # 1 /\ T[p] # None /\ e = <<T[p], i>>
  /\ T[Child(p, i)] # None /\ mem[e[1]][e[2]].addr = T[Child(p, i)]

\* A present entry that is no leaf holds the child's table.
LEMMA HeldTable ==
  ASSUME nx \in BOOLEAN, NEW T, Tree(T, mem, free, pool), NEW p \in Positions, NEW i \in Slots,
         p[1] # 1, ~ (p = Root /\ i = 0), T[p] # None,
         is_present(mem[T[p]][i]), p[1] = 2 => ~ mem[T[p]][i].huge
  PROVE  Holds(T, p, i, <<T[p], i>>)
<1> DEFINE e == mem[T[p]][i]
<1>1. EntryFits(T, p, i, e)
  BY Zenon DEF Tree
<1>2. e # absent
  BY Zenon, EntryFacts
<1>3. p[1] = 2 => ~ LargeLeaf(e)
  <2>1. \A a \in Nat, perm \in Perms : leaf(a, effective(perm), TRUE).huge = TRUE
    BY Zenon DEF leaf
  <2>2. p[1] = 2 => ~ e.huge
    OBVIOUS
  <2> HIDE DEF e
  <2>. QED  BY Zenon, <2>1, <2>2, LargeFacts
<1>4. T[Child(p, i)] # None /\ e = table_entry(T[Child(p, i)])
  <2> HIDE DEF e
  <2>. QED  BY Zenon, <1>1, <1>2, <1>3 DEF EntryFits
<1>5. Child(p, i) \in Positions
  BY Zenon, PositionFacts
<1>6. T[Child(p, i)] \in Frames
  BY Zenon, <1>4, <1>5 DEF Tree
<1>7. e.addr = T[Child(p, i)]
  <2> HIDE DEF e
  <2>. QED  BY Zenon, <1>4, <1>6, TableEntries
<1>8. <<T[p], i>>[1] = T[p] /\ <<T[p], i>>[2] = i
  OBVIOUS
<1>. QED  BY Zenon, <1>4, <1>7, <1>8 DEF Holds

\* Every entry that holds a table has its place in the tree.
LEMMA HolderPlaces ==
  ASSUME nx \in BOOLEAN, NEW T, Tree(T, mem, free, pool), T[Root] = KERNEL_PML4,
         NEW e \in Holders
  PROVE  \E p, i : Holds(T, p, i, e)
<1>1. /\ \A j \in 1 .. (E4 - 1) : j \in Slots /\ j # 0
      /\ \A j \in 0 .. (E3 - 1) : j \in Slots
      /\ \A j \in 0 .. (E2 - 1) : j \in Slots
  BY SlotFacts, GeometryAssumption
<1>2. Root \in Positions /\ Root[1] = 4 /\ T[Root] # None
  BY Zenon, PositionFacts DEF Root, Tree
<1>3. ASSUME NEW d \in Level3
      PROVE  \E i : Holds(T, Root, i, d)
  <2>1. PICK j \in 1 .. (E4 - 1) : d = <<KERNEL_PML4, j>> /\ is_present(mem[KERNEL_PML4][j])
    BY Zenon DEF Level3
  <2>2. Holds(T, Root, j, <<T[Root], j>>)
    BY <1>1, <1>2, <2>1, HeldTable
  <2>. QED  BY Zenon, <2>1, <2>2
<1>4. ASSUME NEW d \in Level2
      PROVE  \E p, i : Holds(T, p, i, d) /\ p[1] = 3
  <2>1. PICK c \in Level3, i \in 0 .. (E3 - 1) : d = <<mem[c[1]][c[2]].addr, i>>
    BY DEF Level2, Held, Below
  <2>2. is_present(mem[d[1]][d[2]]) /\ ~ mem[d[1]][d[2]].huge
    BY Zenon DEF Level2, Held
  <2>3. PICK j : Holds(T, Root, j, c)
    BY Zenon, <1>3
  <2> DEFINE p == Child(Root, j)
  <2>4. p \in Positions /\ p[1] = 3 /\ p # Root /\ T[p] # None /\ d = <<T[p], i>>
    <3>1. j \in Slots
      BY Zenon, <2>3 DEF Holds
    <3>2. p \in Positions /\ p # Root
      BY <1>2, <3>1, PositionFacts
    <3>3. p[1] = 3
      BY Zenon, <1>2 DEF Child
    <3>. QED  BY Zenon, <2>1, <2>3, <3>2, <3>3 DEF Holds
  <2> HIDE DEF p
  <2>5. d[1] = T[p] /\ d[2] = i
    BY Zenon, <2>4
  <2>6. Holds(T, p, i, <<T[p], i>>)
    BY <1>1, <2>2, <2>4, <2>5, HeldTable
  <2>. QED  BY Zenon, <2>4, <2>6
<1>5. ASSUME NEW d \in Level1
      PROVE  \E p, i : Holds(T, p, i, d)
  <2>1. PICK c \in Level2, i \in 0 .. (E2 - 1) : d = <<mem[c[1]][c[2]].addr, i>>
    BY DEF Level1, Held, Below
  <2>2. is_present(mem[d[1]][d[2]]) /\ ~ mem[d[1]][d[2]].huge
    BY Zenon DEF Level1, Held
  <2>3. PICK q, j : Holds(T, q, j, c) /\ q[1] = 3
    BY Zenon, <1>4
  <2> DEFINE p == Child(q, j)
  <2>4. p \in Positions /\ p[1] = 2 /\ p # Root /\ T[p] # None /\ d = <<T[p], i>>
    <3>1. j \in Slots /\ q \in Positions /\ q[1] # 1
      BY Zenon, <2>3 DEF Holds
    <3>2. p \in Positions /\ p # Root
      BY Zenon, <3>1, PositionFacts
    <3>3. p[1] = 2
      BY <2>3 DEF Child
    <3>. QED  BY Zenon, <2>1, <2>3, <3>2, <3>3 DEF Holds
  <2> HIDE DEF p
  <2>5. d[1] = T[p] /\ d[2] = i
    BY Zenon, <2>4
  <2>6. Holds(T, p, i, <<T[p], i>>)
    BY <1>1, <2>2, <2>4, <2>5, HeldTable
  <2>. QED  BY Zenon, <2>4, <2>6
<1>. QED  BY Zenon, <1>3, <1>4, <1>5 DEF Holders

=============================================================================

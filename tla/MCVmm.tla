------------------------------- MODULE MCVmm -------------------------------
EXTENDS Vmm

\* 2 x 4 x 8 x 2 entries.  Frames 0 .. 15 lie behind the first boot PD and
\* 16 .. 31 behind the second.  The kernel window starts at entry 2 of the
\* last PDPT (510 in the kernel), the heap at entry 1 (508).
MCBootPds == <<18, 19>>

Window == 64 + 2 * 16
Section(slot) == Window + 2 * slot

MCText == Section(1)
MCRodata == Section(2)
MCData == Section(3)
MCBss == Section(4)
MCVirtEnd == Section(4) + 1
MCHeap == 64 + 16

Spare == (10 .. 15) \cup (24 .. 31)

FirstOf(n) == CHOOSE S \in SUBSET Spare :
                Cardinality(S) = n /\ \A a \in S, b \in Spare \ S : a < b

\* Enough frames, and every way to run out of them.
MCFree == {FirstOf(n) : n \in 0 .. 14}

\* A slot mapped by pages and as one large page, in either order; a mapped
\* page again, on its frame with another permission and on another frame; a
\* large page over the heap; a page of the identity map; an address that is
\* not aligned.
MCRequests == {
  call(FALSE, Section(6), 22, 2, "DataRwNx"),
  call(FALSE, Section(6) + 1, 23, 1, "RoData"),
  call(FALSE, Section(6), 20, 1, "DataRwNx"),
  call(TRUE, Section(6), 20, 2, "Device"),
  call(FALSE, MCHeap, 20, 1, "RoData"),
  call(TRUE, MCHeap, 22, 1, "DataRwNx"),
  call(FALSE, 22, 22, 2, "RoData"),
  call(TRUE, Section(6) + 1, 20, 1, "Device")}

============================================================================

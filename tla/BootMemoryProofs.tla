------------------------- MODULE BootMemoryProofs --------------------------
(***************************************************************************)
(* Proofs about the boot information and the reservations made from it,    *)
(* for every size of the structure, of its tags and of a page.             *)
(***************************************************************************)
EXTENDS BootMemory, TLAPS

-----------------------------------------------------------------------------
(* Numbers. *)

\* The larger of two numbers is at least each of them, and one of them.
LEMMA MaxOfTwo ==
  ASSUME NEW a \in Int, NEW b \in Int
  PROVE  /\ Max({a, b}) \in {a, b}
         /\ Max({a, b}) >= a /\ Max({a, b}) >= b
<1>1. \E x \in {a, b}: \A y \in {a, b}: x >= y
  <2>1. CASE a >= b BY <2>1
  <2>2. CASE b >= a BY <2>2
  <2>. QED  BY <2>1, <2>2
<1>. QED  BY <1>1 DEF Max

\* The smaller of two numbers is at most each of them, and one of them.
LEMMA MinOfTwo ==
  ASSUME NEW a \in Int, NEW b \in Int
  PROVE  /\ Min({a, b}) \in {a, b}
         /\ Min({a, b}) <= a /\ Min({a, b}) <= b
<1>1. \E x \in {a, b}: \A y \in {a, b}: x <= y
  <2>1. CASE a >= b BY <2>1
  <2>2. CASE b >= a BY <2>2
  <2>. QED  BY <2>1, <2>2
<1>. QED  BY <1>1 DEF Min

\* Rounding up to the alignment never goes back.
LEMMA AlignedUp ==
  ASSUME NEW e \in Nat
  PROVE  aligned_up(e) \in Nat /\ aligned_up(e) >= e
BY DEF aligned_up, ALIGN

-----------------------------------------------------------------------------
(* The walk. *)

Walk == [off: Nat, ty: Tags, size: Nat, es: Nat]

InfoType == [cmdline: Nat, loader_name: Nat, mmap: Seq(Nat), truncated: BOOLEAN,
             saw_mmap: BOOLEAN, framebuffer: Nat, acpi_rsdp: Nat,
             acpi_version: Nat, load_base_addr: Nat, tag_count: Nat]

rsdp_bytes(i) == IF i.acpi_version = 1 THEN 20 ELSE 36

\* The RSDP that was recorded lies inside the structure.
RsdpInside(i) == i.acpi_rsdp # None => i.acpi_rsdp + rsdp_bytes(i) <= total

\* The end of tag i of the walk.
TagEnd(i) == walked[i].off + walked[i].size

TypeInv == /\ phys \in Nat /\ total \in Nat /\ off \in Nat /\ eoff \in Nat /\ top \in Nat
           /\ info \in InfoType
           /\ walked \in Seq(Walk)
           /\ stage \in {"parse", "reserve", "ready", "panic"}
           /\ usable \subseteq BootFrames
           /\ fb.address \in Nat /\ fb.pitch \in Nat /\ fb.height \in Nat

\* The inductive invariant.  Tags are at least a header long; all of them end
\* before the walk's offset, except, during a memory map, the map's own tag.
WalkInv == /\ TypeInv
           /\ ReadsInsideStructure
           /\ RsdpInside(info)
           /\ status \in {"tags", "mmap", "ok"} => phys # 0
           /\ stage \in {"reserve", "ready"} => status = "ok"
           /\ status = "entry" => walked = <<>>
           /\ \A i \in 1 .. Len(walked): walked[i].size >= HEADER_LEN
           /\ \A i, j \in 1 .. Len(walked): i < j => TagEnd(i) <= walked[j].off
           /\ status = "tags" => \A i \in 1 .. Len(walked): TagEnd(i) <= off
           /\ status = "mmap" => /\ walked # <<>>
                                 /\ walked[Len(walked)].off = off
                                 /\ \A i \in 1 .. Len(walked) - 1: TagEnd(i) <= off

\* The initial state satisfies the invariant.
LEMMA InitEstablishesWalkInv == Init => WalkInv
<1> SUFFICES ASSUME Init PROVE WalkInv
  OBVIOUS
<1>1. walked = <<>> /\ Len(walked) = 0 /\ walked \in Seq(Walk)
  BY DEF Init, MbInit
<1>2. info \in InfoType /\ info.acpi_rsdp = None
  BY DEF Init, MbInit, InfoType, BootInfo, None
<1>3. TypeInv
  <2>1. fb.address \in Nat /\ fb.pitch \in Nat /\ fb.height \in Nat
    BY DEF Init, NoFramebuffer
  <2>2. phys \in Nat /\ total \in Nat /\ off \in Nat /\ eoff \in Nat /\ top \in Nat
    BY FieldsAssumption DEF Init, MbInit, HEADER_LEN
  <2>. QED  BY <1>1, <1>2, <2>1, <2>2 DEF Init, TypeInv
<1>4. ReadsInsideStructure
  BY <1>3 DEF Init, MbInit, TypeInv, ReadsInsideStructure
<1>5. status = "entry" /\ stage = "parse"
  BY DEF Init, MbInit
<1>. QED  BY <1>1, <1>2, <1>3, <1>4, <1>5 DEF WalkInv, RsdpInside

\* What parse records of a tag that ends inside the structure keeps the type of
\* BootInfo and the RSDP inside.
LEMMA RecordKeepsInfo ==
  ASSUME NEW i \in InfoType, RsdpInside(i), total \in Nat,
         NEW ty \in Tags, NEW b \in Nat, NEW len \in Nat, b + len <= total
  PROVE  record(i, ty, b, len) \in InfoType /\ RsdpInside(record(i, ty, b, len))
<1> DEFINE found(version) == [i EXCEPT !.acpi_rsdp = b, !.acpi_version = version]
<1>1. ASSUME NEW v \in {1, 2}, len >= (IF v = 1 THEN 20 ELSE 36)
      PROVE  found(v) \in InfoType /\ RsdpInside(found(v))
  <2>1. found(v) \in InfoType
    <3>1. PICK j \in InfoType: j = [i EXCEPT !.acpi_rsdp = b]
      BY Zenon DEF InfoType
    <3>2. found(v) = [j EXCEPT !.acpi_version = v]
      BY <3>1
    <3>3. v \in Nat
      BY <1>1
    <3>. HIDE DEF found
    <3>. QED  BY Zenon, <3>2, <3>3 DEF InfoType
  <2>2. found(v).acpi_rsdp = b /\ found(v).acpi_version = v
    BY DEF InfoType
  <2>. QED  BY <1>1, <2>1, <2>2 DEF RsdpInside, rsdp_bytes
<1>2. ASSUME NEW r \in InfoType, r.acpi_rsdp = i.acpi_rsdp, r.acpi_version = i.acpi_version
      PROVE  RsdpInside(r)
  BY <1>2 DEF RsdpInside, rsdp_bytes
<1>3. ASSUME NEW r \in {[i EXCEPT !.cmdline = b], [i EXCEPT !.loader_name = b],
                       [i EXCEPT !.saw_mmap = TRUE], [i EXCEPT !.framebuffer = b],
                       [i EXCEPT !.load_base_addr = b], [i EXCEPT !.load_base_addr = None], i}
      PROVE  r \in InfoType /\ RsdpInside(r)
  <2>1. r \in InfoType
    <3>1. CASE r = [i EXCEPT !.cmdline = b] BY Zenon, <3>1 DEF InfoType
    <3>2. CASE r = [i EXCEPT !.loader_name = b] BY Zenon, <3>2 DEF InfoType
    <3>3. CASE r = [i EXCEPT !.saw_mmap = TRUE] BY Zenon, <3>3 DEF InfoType
    <3>4. CASE r = [i EXCEPT !.framebuffer = b] BY Zenon, <3>4 DEF InfoType
    <3>5. CASE r = [i EXCEPT !.load_base_addr = b] BY Zenon, <3>5 DEF InfoType
    <3>6. CASE r = [i EXCEPT !.load_base_addr = None] BY Zenon, <3>6 DEF InfoType, None
    <3>. QED  BY <1>3, <3>1, <3>2, <3>3, <3>4, <3>5, <3>6
  <2>2. r.acpi_rsdp = i.acpi_rsdp /\ r.acpi_version = i.acpi_version
    BY <1>3 DEF InfoType
  <2>. QED  BY <2>1, <2>2, <1>2
<1>4. \/ record(i, ty, b, len) \in {[i EXCEPT !.cmdline = b], [i EXCEPT !.loader_name = b],
             [i EXCEPT !.saw_mmap = TRUE], [i EXCEPT !.framebuffer = b],
             [i EXCEPT !.load_base_addr = b], [i EXCEPT !.load_base_addr = None], i}
      \/ record(i, ty, b, len) = found(1) /\ len >= 20
      \/ record(i, ty, b, len) = found(2) /\ len >= 36
  BY DEF record
<1>. HIDE DEF found
<1>. QED  BY Zenon, <1>1, <1>3, <1>4

\* parse_mmap and the steps after the walk leave the tags alone.
LEMMA SameTags ==
  ASSUME UNCHANGED walked
  PROVE  \A i : TagEnd(i)' = TagEnd(i)
BY DEF TagEnd

\* One iteration of the tag loop keeps the invariant.
LEMMA ParseTagStep ==
  ASSUME WalkInv, NEW ty \in Tags, NEW size \in Nat, NEW es \in Nat, parse_tag(ty, size, es),
         UNCHANGED <<fb, usable>>, stage' \in {"parse", "panic"}
  PROVE  WalkInv'
<1> USE DEF HEADER_LEN
<1>1. /\ phys \in Nat /\ total \in Nat /\ off \in Nat /\ eoff \in Nat
      /\ info \in InfoType /\ walked \in Seq(Walk)
      /\ status = "tags" /\ off + HEADER_LEN <= total /\ UNCHANGED <<phys, total>>
  BY DEF WalkInv, TypeInv, parse_tag
<1>2. usable' \subseteq BootFrames /\ fb' = fb
      /\ fb'.address \in Nat /\ fb'.pitch \in Nat /\ fb'.height \in Nat
  BY DEF WalkInv, TypeInv
<1>3. phys # 0 /\ phys' # 0
  BY <1>1 DEF WalkInv
<1>4. CASE header_error(size) # "none"
  <2>1. /\ status' \in {"TagUndersize", "TagOverrun"} /\ top' = off + HEADER_LEN
        /\ UNCHANGED <<off, eoff, info, walked>>
    BY <1>4 DEF parse_tag, header_error
  <2>2. TypeInv' /\ ReadsInsideStructure'
    BY <1>1, <1>2, <2>1 DEF TypeInv, ReadsInsideStructure, WalkInv, BootFrames
  <2>3. RsdpInside(info)'
    BY <1>1, <2>1 DEF WalkInv, RsdpInside, rsdp_bytes
  <2>. QED  BY <1>1, <2>1, <2>2, <2>3, SameTags DEF WalkInv
<1>5. CASE header_error(size) = "none"
  <2> DEFINE t == [off |-> off, ty |-> ty, size |-> size, es |-> es]
             before == [info EXCEPT !.tag_count = @ + 1]
             e == aligned_up(off + size)
  <2>1. size >= HEADER_LEN /\ off + size <= total
    BY <1>1, <1>5 DEF header_error
  <2>2. e \in Nat /\ e >= off + size
    <3>1. off + size \in Nat
      BY <1>1
    <3>. QED  BY Zenon, <3>1, AlignedUp
  <2>3. /\ info' = record(before, ty, off + HEADER_LEN, size - HEADER_LEN)
        /\ walked' = Append(walked, t) /\ top' = off + size
        /\ off' = IF ty = "MMAP" THEN off ELSE e
        /\ eoff' = IF ty = "MMAP" THEN 8 ELSE eoff
        /\ status' \in {"BadMmapEntrySize", "mmap", "tags"}
        /\ status' = "mmap" => ty = "MMAP"
        /\ status' = "tags" => ty # "MMAP"
    BY <1>5 DEF parse_tag, mmap_error
  <2> HIDE DEF e
  <2>4. info' \in InfoType /\ RsdpInside(info)'
    <3>1. before \in InfoType /\ before.acpi_rsdp = info.acpi_rsdp
          /\ before.acpi_version = info.acpi_version
      <4>1. PICK n \in Nat: n = info.tag_count + 1
        BY <1>1 DEF InfoType
      <4>2. before = [info EXCEPT !.tag_count = n]
        BY <4>1
      <4> HIDE DEF before
      <4>3. before \in InfoType
        BY Zenon, <1>1, <4>2 DEF InfoType
      <4>. QED  BY <1>1, <4>2, <4>3 DEF InfoType
    <3>2. RsdpInside(before)
      BY <3>1 DEF WalkInv, RsdpInside, rsdp_bytes
    <3>3. info' \in InfoType /\ RsdpInside(info')
      <4> HIDE DEF before
      <4>1. off + HEADER_LEN \in Nat /\ size - HEADER_LEN \in Nat
            /\ (off + HEADER_LEN) + (size - HEADER_LEN) <= total
        BY <1>1, <2>1
      <4>. QED  BY <1>1, <2>3, <3>1, <3>2, <4>1, RecordKeepsInfo
    <3>. QED  BY <1>1, <3>3 DEF RsdpInside, rsdp_bytes
  <2>5. /\ walked' \in Seq(Walk) /\ Len(walked') = Len(walked) + 1 /\ Len(walked) \in Nat
        /\ \A i \in 1 .. Len(walked): walked'[i] = walked[i]
        /\ walked'[Len(walked) + 1] = t
    <3>1. t \in Walk
      BY <1>1 DEF Walk
    <3> HIDE DEF t
    <3>. QED  BY <1>1, <2>3, <3>1
  <2>6. TypeInv' /\ ReadsInsideStructure'
    <3>1. phys' \in Nat /\ total' \in Nat /\ off' \in Nat /\ eoff' \in Nat /\ top' \in Nat
      BY <1>1, <2>2, <2>3
    <3>2. ReadsInsideStructure'
      BY <1>1, <2>1, <2>3 DEF ReadsInsideStructure
    <3>. QED  BY SMTT(30), <1>2, <2>4, <2>5, <3>1, <3>2 DEF TypeInv, BootFrames
  <2>7. /\ t.off = off /\ t.size = size
        /\ \A i \in 1 .. Len(walked): walked[i].off \in Nat /\ walked[i].size \in Nat
    <3>1. \A i \in 1 .. Len(walked): walked[i] \in Walk
      BY <1>1
    <3>. QED  BY <3>1 DEF Walk
  <2> HIDE DEF t
  <2>8. \A i \in 1 .. Len(walked): TagEnd(i)' = TagEnd(i) /\ TagEnd(i) <= off
    BY <1>1, <2>5 DEF WalkInv, TagEnd
  <2>9. \A i: i = Len(walked) + 1 => TagEnd(i)' = off + size
    BY <2>5, <2>7 DEF TagEnd
  <2>10. \A i \in 1 .. Len(walked'): walked'[i].size >= HEADER_LEN
    BY <2>1, <2>5, <2>7 DEF WalkInv
  <2>11. \A i, j \in 1 .. Len(walked'): i < j => TagEnd(i)' <= walked'[j].off
    <3> TAKE i, j \in 1 .. Len(walked')
    <3> HAVE i < j
    <3>1. i \in 1 .. Len(walked)
      BY <2>5
    <3>2. CASE j \in 1 .. Len(walked)
      BY <2>5, <2>8, <3>1, <3>2 DEF WalkInv
    <3>3. CASE j = Len(walked) + 1
      BY <2>5, <2>7, <2>8, <3>1, <3>3
    <3>. QED  BY <2>5, <3>2, <3>3
  <2>12. status' = "tags" => \A i \in 1 .. Len(walked'): TagEnd(i)' <= off'
    <3> SUFFICES ASSUME status' = "tags", NEW i \in 1 .. Len(walked') PROVE TagEnd(i)' <= off'
      OBVIOUS
    <3>1. off' = e
      BY <2>3
    <3>2. CASE i \in 1 .. Len(walked)
      <4>1. TagEnd(i)' \in Nat
        BY <2>7, <2>8, <3>2 DEF TagEnd
      <4>. QED  BY SMTT(30), <1>1, <2>2, <2>8, <3>1, <3>2, <4>1
    <3>3. CASE i = Len(walked) + 1
      BY <2>2, <2>9, <3>1, <3>3
    <3>. QED  BY <2>5, <3>2, <3>3
  <2>13. status' = "mmap" => /\ walked' # <<>>
                            /\ walked'[Len(walked')].off = off'
                            /\ \A i \in 1 .. Len(walked') - 1: TagEnd(i)' <= off'
    BY <2>3, <2>5, <2>7, <2>8
  <2>. QED  BY SMTT(30), <1>1, <1>3, <2>3, <2>4, <2>6, <2>10, <2>11, <2>12, <2>13 DEF WalkInv
<1>. QED  BY <1>4, <1>5

\* One iteration of the loop of parse_mmap, or its end, keeps the invariant.
LEMMA ParseMmapStep ==
  ASSUME WalkInv, parse_mmap, UNCHANGED <<fb, usable>>, stage' \in {"parse", "panic"}
  PROVE  WalkInv'
<1> USE DEF HEADER_LEN
<1> DEFINE t == Last(walked)
<1>1. /\ phys \in Nat /\ total \in Nat /\ off \in Nat /\ eoff \in Nat /\ top \in Nat
      /\ info \in InfoType /\ walked \in Seq(Walk) /\ walked # <<>>
      /\ status = "mmap" /\ phys # 0
      /\ UNCHANGED <<phys, total, walked, top>>
  BY DEF WalkInv, TypeInv, parse_mmap
<1>2. t \in Walk /\ t = walked[Len(walked)] /\ Len(walked) \in Nat \ {0} /\ t.off = off
  BY <1>1 DEF Last, WalkInv
<1>3. t.size \in Nat /\ t.es \in Nat
  BY <1>2 DEF Walk
<1>4. \A i: TagEnd(i)' = TagEnd(i)
  BY <1>1, SameTags
<1>5. usable' \subseteq BootFrames
      /\ fb'.address \in Nat /\ fb'.pitch \in Nat /\ fb'.height \in Nat
  BY DEF WalkInv, TypeInv
<1>6. ReadsInsideStructure'
  BY <1>1 DEF WalkInv, ReadsInsideStructure
<1>7. ASSUME info' \in InfoType, info'.acpi_rsdp = info.acpi_rsdp,
             info'.acpi_version = info.acpi_version, off' \in Nat, eoff' \in Nat
      PROVE  TypeInv' /\ RsdpInside(info)'
  BY <1>1, <1>5, <1>7 DEF WalkInv, TypeInv, RsdpInside, rsdp_bytes, BootFrames
<1>8. ASSUME info' = [info EXCEPT !.mmap = Append(@, off + HEADER_LEN + eoff)],
             eoff' = eoff + entry_stride(t), UNCHANGED <<status, off>>
      PROVE  WalkInv'
  <2>1. PICK m \in Seq(Nat): m = Append(info.mmap, off + HEADER_LEN + eoff)
    <3>1. info.mmap \in Seq(Nat) /\ off + HEADER_LEN + eoff \in Nat
      BY <1>1 DEF InfoType
    <3>2. Append(info.mmap, off + HEADER_LEN + eoff) \in Seq(Nat)
      BY <3>1
    <3>. QED  BY Zenon, <3>2
  <2>2. info' = [info EXCEPT !.mmap = m]
    BY <1>8, <2>1
  <2>3. info' \in InfoType
    BY Zenon, <1>1, <2>2 DEF InfoType
  <2>4. info'.acpi_rsdp = info.acpi_rsdp /\ info'.acpi_version = info.acpi_version
    BY <1>1, <2>2 DEF InfoType
  <2>5. TypeInv' /\ RsdpInside(info)'
    BY <1>1, <1>3, <1>7, <1>8, <2>3, <2>4 DEF entry_stride
  <2>. QED  BY SMTT(30), <1>1, <1>4, <1>6, <1>8, <2>5 DEF WalkInv
<1>9. ASSUME NEW more \in BOOLEAN, info' = [info EXCEPT !.truncated = @ \/ more],
             status' = "tags", off' = aligned_up(off + t.size), UNCHANGED eoff
      PROVE  WalkInv'
  <2>1. PICK b \in BOOLEAN: b = (info.truncated \/ more)
    BY Zenon
  <2>2. info' = [info EXCEPT !.truncated = b]
    BY <1>9, <2>1
  <2>3. info' \in InfoType
    BY Zenon, <1>1, <2>2 DEF InfoType
  <2>4. info'.acpi_rsdp = info.acpi_rsdp /\ info'.acpi_version = info.acpi_version
    BY <1>1, <2>2 DEF InfoType
  <2>5. off' \in Nat /\ off' >= off + t.size
    <3>1. off + t.size \in Nat
      BY <1>1, <1>3
    <3>. QED  BY Zenon, <1>9, <3>1, AlignedUp
  <2>6. TypeInv' /\ RsdpInside(info)'
    BY SMTT(30), <1>1, <1>7, <1>9, <2>3, <2>4, <2>5
  <2>7. \A i \in 1 .. Len(walked): walked[i].off \in Nat /\ walked[i].size \in Nat
    <3>1. \A i \in 1 .. Len(walked): walked[i] \in Walk
      BY <1>1
    <3>. QED  BY <3>1 DEF Walk
  <2>8. \A i \in 1 .. Len(walked): TagEnd(i) <= off'
    <3> TAKE i \in 1 .. Len(walked)
    <3> HIDE DEF t
    <3>1. TagEnd(i) \in Nat
      BY <2>7 DEF TagEnd
    <3>2. CASE i \in 1 .. Len(walked) - 1
      <4>1. TagEnd(i) <= off
        BY <1>1, <3>2 DEF WalkInv
      <4>. QED  BY SMTT(30), <1>1, <1>3, <2>5, <3>1, <4>1
    <3>3. CASE i = Len(walked)
      <4>1. TagEnd(i) = off + t.size
        BY <1>2, <3>3 DEF TagEnd
      <4>. QED  BY <2>5, <4>1
    <3>. QED  BY <1>2, <3>2, <3>3
  <2>. QED  BY SMTT(30), <1>1, <1>4, <1>6, <1>9, <2>6, <2>8 DEF WalkInv
<1>. QED  BY Zenon, <1>8, <1>9 DEF parse_mmap

\* The checks of read_from, the END tag and everything after the walk.
LEMMA OtherSteps ==
  ASSUME WalkInv, UNCHANGED <<phys, total, info>>,
         top' \in Nat, top' <= total, off' \in Nat, eoff' \in Nat,
         walked' \in {walked, <<>>}, usable' \subseteq usable,
         fb'.address \in Nat, fb'.pitch \in Nat, fb'.height \in Nat,
         stage' \in {"parse", "reserve", "ready", "panic"},
         stage' \in {"reserve", "ready"} => status' = "ok",
         status' \in {"tags", "ok"} => phys # 0,
         status' = "entry" => status = "entry",
         status' = "mmap" => status = "mmap" /\ UNCHANGED <<walked, off>>,
         status' = "tags" => (status = "tags" /\ UNCHANGED <<walked, off>>) \/ walked = <<>>
  PROVE  WalkInv'
<1>1. TypeInv' /\ ReadsInsideStructure' /\ RsdpInside(info)'
  <2>1. phys' \in Nat /\ total' \in Nat /\ info' \in InfoType /\ usable' \subseteq BootFrames
    BY DEF WalkInv, TypeInv
  <2>2. walked' \in Seq(Walk)
    <3>1. walked \in Seq(Walk) /\ <<>> \in Seq(Walk)
      BY DEF WalkInv, TypeInv
    <3>. QED  BY Zenon, <3>1
  <2>3. ReadsInsideStructure'
    BY DEF ReadsInsideStructure
  <2>4. RsdpInside(info)'
    BY DEF WalkInv, RsdpInside, rsdp_bytes
  <2>. QED  BY SMTT(30), <2>1, <2>2, <2>3, <2>4 DEF TypeInv, BootFrames
<1>2. CASE walked' = walked
  <2>1. \A i: TagEnd(i)' = TagEnd(i)
    BY <1>2, SameTags
  <2>. QED  BY <1>1, <1>2, <2>1 DEF WalkInv
<1>3. CASE walked' = <<>> /\ walked # <<>>
  <2>1. Len(walked') = 0
    BY <1>3
  <2>. QED  BY <1>1, <1>3, <2>1 DEF WalkInv
<1>. QED  BY <1>2, <1>3

\* Every step keeps the invariant.
LEMMA NextPreservesWalkInv == WalkInv /\ [Next]_vars => WalkInv'
<1> SUFFICES ASSUME WalkInv, [Next]_vars PROVE WalkInv'
  OBVIOUS
<1>1. /\ phys \in Nat /\ total \in Nat /\ off \in Nat /\ eoff \in Nat /\ top \in Nat
      /\ top <= total
      /\ stage \in {"parse", "reserve", "ready", "panic"}
      /\ fb.address \in Nat /\ fb.pitch \in Nat /\ fb.height \in Nat
  BY DEF WalkInv, TypeInv, ReadsInsideStructure
<1>2. CASE parsing /\ read_from
  <2>1. /\ UNCHANGED <<phys, total, off, eoff, info, walked, top, fb, usable>>
        /\ walked = <<>> /\ stage' \in {"parse", "panic"}
        /\ status' \in {"TooShort", "SizeMismatch", "tags"}
    BY <1>2 DEF parsing, read_from, WalkInv
  <2>2. status' = "tags" => phys # 0
    BY <1>2 DEF read_from
  <2>3. /\ status' \in {"tags", "ok"} => phys # 0
        /\ status' \notin {"entry", "mmap"} /\ stage' \notin {"reserve", "ready"}
    BY <2>1, <2>2
  <2>. QED  BY SMTT(30), <1>1, <2>1, <2>3, OtherSteps
<1>3. ASSUME parsing, NEW ty \in Tags, NEW size \in TagSizes[ty],
             NEW es \in (IF ty = "MMAP" THEN EntrySizes ELSE {0}), parse_tag(ty, size, es)
      PROVE  WalkInv'
  <2>1. size \in Nat /\ es \in Nat
    BY FieldsAssumption
  <2>2. UNCHANGED <<fb, usable>> /\ stage' \in {"parse", "panic"}
    BY <1>3 DEF parsing
  <2>. QED  BY SMTT(30), <1>3, <2>1, <2>2, ParseTagStep
<1>4. CASE parsing /\ parse_mmap
  BY <1>4, ParseMmapStep DEF parsing
<1>5. CASE parsing /\ parse_done
  <2>1. /\ UNCHANGED <<phys, total, off, eoff, info, walked, fb, usable>>
        /\ stage' \in {"parse", "panic"} /\ status' \in {"ok", "NoMemoryMap"} /\ phys # 0
    BY <1>5 DEF parsing, parse_done, WalkInv
  <2>2. top' \in Nat /\ top' <= total
    BY <1>1, <1>5 DEF parse_done, HEADER_LEN
  <2>. QED  BY SMTT(30), <1>1, <2>1, <2>2, OtherSteps
<1>6. CASE apply_params
  <2>1. /\ UNCHANGED <<phys, total, info, status, usable>> /\ status = "ok" /\ phys # 0
        /\ off' = HEADER_LEN /\ eoff' = 0 /\ walked' = <<>> /\ top' = 0 /\ stage' = "reserve"
    BY <1>6 DEF apply_params, WalkInv
  <2>2. fb'.address \in Nat /\ fb'.pitch \in Nat /\ fb'.height \in Nat
    <3>1. fb' = NoFramebuffer \/ fb' \in Framebuffers
      BY <1>6 DEF apply_params
    <3>2. \A f \in Framebuffers: f.address \in Nat /\ f.pitch \in Nat /\ f.height \in Nat
      BY BootAssumption
    <3>. QED  BY <3>1, <3>2 DEF NoFramebuffer
  <2>. QED  BY SMTT(30), <1>1, <2>1, <2>2, OtherSteps DEF HEADER_LEN
<1>7. CASE reserve_boot_memory
  <2>1. /\ UNCHANGED <<phys, total, off, eoff, info, status, walked, top, fb>> /\ status = "ok"
        /\ phys # 0 /\ stage' \in {"ready", "panic"} /\ usable' \subseteq usable
    BY <1>7 DEF reserve_boot_memory, mbvars, WalkInv
  <2>. QED  BY <1>1, <2>1, OtherSteps
<1>8. CASE UNCHANGED vars
  <2>1. UNCHANGED <<phys, total, off, eoff, info, status, walked, top, stage, fb, usable>>
    BY <1>8 DEF vars, mbvars
  <2>2. /\ stage \in {"reserve", "ready"} => status = "ok"
        /\ status \in {"tags", "ok"} => phys # 0
    BY DEF WalkInv
  <2>. QED  BY <1>1, <2>1, <2>2, OtherSteps
<1>. QED  BY SMTT(30), <1>2, <1>3, <1>4, <1>5, <1>6, <1>7, <1>8 DEF Next, parsing, parse

\* The inductive invariant holds throughout.
LEMMA WalkInvariant == Spec => []WalkInv
BY InitEstablishesWalkInv, NextPreservesWalkInv, PTL DEF Spec

\* However large the structure and its tags claim to be, no byte belongs to two
\* tags that parse walks.
THEOREM NoTwoTagsShareAByte == Spec => []TagsNeverOverlap
<1>1. WalkInv => TagsNeverOverlap
  <2> SUFFICES ASSUME WalkInv, NEW i \in DOMAIN walked, NEW j \in DOMAIN walked, i < j
               PROVE  walked[i].off + Max({HEADER_LEN, walked[i].size}) <= walked[j].off
    BY DEF TagsNeverOverlap
  <2>1. walked \in Seq(Walk) /\ i \in 1 .. Len(walked) /\ j \in 1 .. Len(walked)
    BY DEF WalkInv, TypeInv
  <2>2. walked[i].size \in Nat /\ walked[i].off \in Nat
    <3>1. walked[i] \in Walk
      BY <2>1
    <3>. QED  BY <3>1 DEF Walk
  <2>3. walked[i].size >= HEADER_LEN
    BY <2>1 DEF WalkInv
  <2>4. Max({HEADER_LEN, walked[i].size}) = walked[i].size
    <3>1. ASSUME NEW n \in Nat, n >= 8 PROVE Max({8, n}) = n
      BY <3>1, MaxOfTwo
    <3>. QED  BY <2>2, <2>3, <3>1 DEF HEADER_LEN
  <2>. QED  BY <2>1, <2>4 DEF WalkInv, TagEnd
<1>. QED  BY <1>1, WalkInvariant, PTL

\* Whatever the sizes of the tags, parse reads only inside the declared size.
THEOREM ParserStaysInside == Spec => []ReadsInsideStructure
<1>1. WalkInv => ReadsInsideStructure
  BY DEF WalkInv
<1>. QED  BY <1>1, WalkInvariant, PTL

-----------------------------------------------------------------------------
(* The reservations. *)

\* Division by the page size rounds down.
LEMMA PageDivision ==
  ASSUME NEW n \in Nat
  PROVE  /\ n \div PAGE_SIZE \in Nat
         /\ (n \div PAGE_SIZE) * PAGE_SIZE <= n
         /\ n < (n \div PAGE_SIZE) * PAGE_SIZE + PAGE_SIZE
BY FieldsAssumption

\* Pages lie one after the other.
LEMMA PagesAreOrdered ==
  ASSUME NEW i \in Nat, NEW j \in Nat
  PROVE  /\ i * PAGE_SIZE \in Nat
         /\ (i + 1) * PAGE_SIZE = i * PAGE_SIZE + PAGE_SIZE
         /\ i < j => i * PAGE_SIZE + PAGE_SIZE <= j * PAGE_SIZE
         /\ i <= j => i * PAGE_SIZE <= j * PAGE_SIZE
BY FieldsAssumption

\* reserve_range rounds outward: a frame that it leaves has no byte of the range.
LEMMA FramesOfCovers ==
  ASSUME NEW a \in Nat, NEW b \in Nat, a < b, NEW f \in Nat, f \notin frames_of(<<a, b>>)
  PROVE  b <= f * PAGE_SIZE \/ (f + 1) * PAGE_SIZE <= a
<1> DEFINE first == a \div PAGE_SIZE
           last == (b + PAGE_SIZE - 1) \div PAGE_SIZE
<1>1. PAGE_SIZE \in Nat /\ b + PAGE_SIZE - 1 \in Nat
  BY FieldsAssumption
<1>2. /\ first \in Nat /\ first * PAGE_SIZE <= a
      /\ last \in Nat /\ b + PAGE_SIZE - 1 < last * PAGE_SIZE + PAGE_SIZE
  BY <1>1, PageDivision
<1>3. frames_of(<<a, b>>) = first .. last - 1
  BY DEF frames_of
<1> HIDE DEF first, last
<1>4. f < first \/ last <= f
  BY <1>2, <1>3
<1>5. /\ f * PAGE_SIZE \in Nat /\ first * PAGE_SIZE \in Nat /\ last * PAGE_SIZE \in Nat
      /\ (f + 1) * PAGE_SIZE = f * PAGE_SIZE + PAGE_SIZE
      /\ f < first => f * PAGE_SIZE + PAGE_SIZE <= first * PAGE_SIZE
      /\ last <= f => last * PAGE_SIZE <= f * PAGE_SIZE
  BY <1>2, PagesAreOrdered
<1>. QED  BY SMTT(30), <1>1, <1>2, <1>4, <1>5

\* A frame that stays usable touches nothing that was reserved.
LEMMA UsableAvoidsReserved ==
  ASSUME WalkInv, reserve_boot_memory, stage' = "ready", NEW f \in usable',
         NEW a \in Nat, NEW b \in Nat, a < b, <<a, b>> \in reserved
  PROVE  b <= f * PAGE_SIZE \/ (f + 1) * PAGE_SIZE <= a
<1>1. usable' = usable \ UNION {frames_of(r): r \in reserved}
  BY DEF reserve_boot_memory
<1>2. f \notin frames_of(<<a, b>>)
  BY <1>1
<1>3. f \in Nat
  <2>1. f \in BootFrames
    BY <1>1 DEF WalkInv, TypeInv
  <2>. QED  BY <2>1 DEF BootFrames
<1>. QED  BY <1>2, <1>3, FramesOfCovers

\* reserve_boot_memory protects everything live.  The page that is reserved for
\* the RSDP need not hold all of it; the reservation of the whole structure does.
LEMMA ReserveProtects ==
  ASSUME WalkInv, reserve_boot_memory, stage' = "ready"
  PROVE  NothingLiveIsUsable'
<1> DEFINE at == phys + info.acpi_rsdp
           screen == fb.pitch * fb.height
           Clear(a, b) == \A f \in usable': a < b => b <= f * PAGE_SIZE \/ (f + 1) * PAGE_SIZE <= a
<1>1. /\ phys \in Nat /\ total \in Nat /\ info \in InfoType /\ phys # 0
      /\ fb.address \in Nat /\ fb.pitch \in Nat /\ fb.height \in Nat
      /\ UNCHANGED <<phys, total, info, fb>>
  BY DEF WalkInv, TypeInv, reserve_boot_memory, mbvars
<1>2. ASSUME NEW a \in Nat, NEW b \in Nat, <<a, b>> \in reserved PROVE Clear(a, b)
  BY <1>2, UsableAvoidsReserved
<1>3. ASSUME NEW r \in Firmware \cup {KERNEL_IMAGE} PROVE Clear(r[1], r[2])
  <2>1. r[1] \in Nat /\ r[2] \in Nat /\ r = <<r[1], r[2]>>
    BY BootAssumption
  <2>2. r \in reserved
    BY DEF reserved
  <2>. QED  BY <1>2, <2>1, <2>2
<1>4. Clear(phys, phys + total)
  <2>1. <<phys, phys + total>> \in reserved
    BY <1>1 DEF reserved, mbi
  <2>. QED  BY <1>1, <1>2, <2>1
<1>5. ASSUME info.acpi_rsdp # None PROVE Clear(at, at + rsdp_bytes(info))
  <2>1. PICK n \in Nat: n = info.acpi_rsdp
    BY <1>1 DEF InfoType
  <2>2. PICK len \in Nat: len = rsdp_bytes(info)
    BY DEF rsdp_bytes
  <2>3. n + len <= total
    BY <1>5, <2>1, <2>2 DEF WalkInv, RsdpInside
  <2>4. ASSUME NEW f \in usable', phys + n < phys + n + len
        PROVE  phys + n + len <= f * PAGE_SIZE \/ (f + 1) * PAGE_SIZE <= phys + n
    <3>1. PICK x \in Nat, y \in Nat: x = f * PAGE_SIZE /\ y = (f + 1) * PAGE_SIZE
      <4>1. f \in Nat
        <5>1. f \in usable
          BY DEF reserve_boot_memory
        <5>2. f \in BootFrames
          BY <5>1 DEF WalkInv, TypeInv
        <5>. QED  BY <5>2 DEF BootFrames
      <4>. QED  BY <4>1, FieldsAssumption
    <3>2. phys + total <= x \/ y <= phys
      BY SMTT(30), <1>1, <1>4, <2>3, <2>4, <3>1
    <3>. QED  BY <1>1, <2>3, <3>1, <3>2
  <2>. QED  BY <2>1, <2>2, <2>4
<1>6. ASSUME info.framebuffer # None, fb.type # "EGA_TEXT"
      PROVE  Clear(fb.address, fb.address + screen)
  <2>1. PICK n \in Nat: n = screen
    BY <1>1
  <2>2. SUFFICES ASSUME n > 0 PROVE Clear(fb.address, fb.address + n)
    BY <1>1, <2>1
  <2>3. fb_size = Min({n, U64_MAX})
    <3>1. fb.height # 0
      BY <1>1, <2>1, <2>2
    <3>. QED  BY <2>1, <3>1 DEF fb_size
  <2>4. fb_size \in Nat \ {0} /\ (fb_size = n \/ fb_size = U64_MAX)
    <3>1. n \in Int /\ U64_MAX \in Int /\ U64_MAX \in Nat \ {0}
      BY BootAssumption
    <3>2. Min({n, U64_MAX}) \in {n, U64_MAX}
      BY Zenon, <3>1, MinOfTwo
    <3>. QED  BY <2>2, <2>3, <3>1, <3>2
  <2>5. <<fb.address, fb.address + fb_size>> \in reserved
    BY <1>6, <2>4 DEF reserved, framebuffer
  <2>6. fb.address + fb_size + PAGE_SIZE - 1 <= U64_MAX
    <3>1. ~ overflows(fb.address + fb_size + PAGE_SIZE - 1)
      BY <2>5 DEF reserve_boot_memory
    <3>. QED  BY SMTT(30), <1>1, <2>4, <3>1, FieldsAssumption, BootAssumption DEF overflows
  <2>7. fb_size = n
    BY SMTT(30), <1>1, <2>4, <2>6, FieldsAssumption, BootAssumption
  <2>. QED  BY <1>1, <1>2, <2>5, <2>7
<1> HIDE DEF Clear, at, screen
<1>7. SUFFICES ASSUME NEW r \in Firmware \cup {KERNEL_IMAGE, <<phys, phys + total>>}
                             \cup (IF info.acpi_rsdp = None THEN {}
                                   ELSE {<<at, at + rsdp_bytes(info)>>})
                             \cup (IF info.framebuffer = None \/ fb.type = "EGA_TEXT" THEN {}
                                   ELSE {<<fb.address, fb.address + screen>>})
               PROVE  Clear(r[1], r[2])
  BY <1>1 DEF NothingLiveIsUsable, Clear, at, screen, rsdp_bytes
<1>. QED  BY SMTT(30), <1>3, <1>4, <1>5, <1>6

\* For every structure, page size, framebuffer and firmware window: no frame
\* that reserve_boot_memory leaves usable holds a byte something else owns.
THEOREM LiveMemoryIsReserved == Spec => []NothingLiveIsUsable
<1>1. Init => NothingLiveIsUsable
  BY DEF Init, NothingLiveIsUsable
<1>2. WalkInv /\ NothingLiveIsUsable /\ [Next]_vars => NothingLiveIsUsable'
  <2> SUFFICES ASSUME WalkInv, NothingLiveIsUsable, [Next]_vars, stage' = "ready"
               PROVE  NothingLiveIsUsable'
    BY DEF NothingLiveIsUsable
  <2>1. reserve_boot_memory \/ UNCHANGED vars
    BY DEF Next, parsing, apply_params
  <2>2. CASE UNCHANGED vars
    BY <2>2 DEF vars, mbvars, NothingLiveIsUsable
  <2>. QED  BY SMTT(30), <2>1, <2>2, ReserveProtects
<1>. QED  BY <1>1, <1>2, WalkInvariant, PTL DEF Spec

=============================================================================

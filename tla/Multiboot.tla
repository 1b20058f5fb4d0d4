----------------------------- MODULE Multiboot -----------------------------
(***************************************************************************)
(* The Multiboot2 information-structure parser of                          *)
(* kernel/src/multiboot/info.rs: read_from, which turns GRUB's address     *)
(* into a slice, and parse, which walks the tags of the slice.             *)
(*                                                                         *)
(* Offsets and sizes are the program's, in bytes.  The structure itself is *)
(* not a constant: the header at an offset is chosen when the walk reads   *)
(* it.  The walk never reads an offset twice, so this is every structure,  *)
(* the malformed ones included.                                            *)
(***************************************************************************)
EXTENDS Integers, Sequences, SequencesExt, FiniteSetsExt

CONSTANTS Phys,          \* addresses GRUB may deliver in %ebx
          Totals,        \* values of the total_size field
          TagSizes,      \* values of a tag's size field, for each tag type
          EntrySizes,    \* values of a memory map's entry_size field
          BOOT_MAPPED,   \* BOOT_MAPPED_BYTES
          PAGE_SIZE,
          SPAN_CAP,      \* the 64 KiB cap of read_from
          MMAP_CAP       \* capacity of heapless::Vec

VARIABLES phys,      \* where the structure is
          total,     \* its total_size
          off,       \* parse: offset of the next tag
          eoff,      \* parse_mmap: offset of the next entry in the body
          info,      \* the BootInfo under construction
          status,    \* where the parser is, or its result
          walked,    \* history: the tags walked
          top        \* history: the end of the furthest read

mbvars == <<phys, total, off, eoff, info, status, walked, top>>

HEADER_LEN == 8
ALIGN == 8
MMAP_ENTRY == 24

Tags == DOMAIN TagSizes
None == 0       \* no tag body has offset 0

\* Every field of the structure is an unsigned number.
ASSUME FieldsAssumption == /\ {BOOT_MAPPED, SPAN_CAP, MMAP_CAP} \subseteq Nat
                           /\ PAGE_SIZE \in Nat \ {0, 1}
                           /\ Phys \subseteq Nat /\ Totals \subseteq Nat /\ EntrySizes \subseteq Nat
                           /\ TagSizes \in [Tags -> SUBSET Nat]

ParseErrors == {"TooShort", "SizeMismatch", "TagUndersize", "TagOverrun",
                "BadMmapEntrySize", "NoMemoryMap"}

BootInfo == [cmdline |-> None, loader_name |-> None, mmap |-> <<>>, truncated |-> FALSE,
             saw_mmap |-> FALSE, framebuffer |-> None, acpi_rsdp |-> None,
             acpi_version |-> 0, load_base_addr |-> None, tag_count |-> 0]

MbInit == /\ phys \in Phys /\ total \in Totals
          /\ off = HEADER_LEN /\ eoff = 0 /\ info = BootInfo
          /\ status = "entry" /\ walked = <<>> /\ top = 0

-----------------------------------------------------------------------------
\* read_from: the structure must start in the boot map; the slice is the
\* declared size and a page, at most SPAN_CAP.
span == Min({total + PAGE_SIZE, SPAN_CAP})

read_from == /\ status = "entry"
             /\ status' = IF phys = 0 \/ phys >= BOOT_MAPPED \/ total < HEADER_LEN
                          THEN "TooShort"
                          ELSE IF total > span THEN "SizeMismatch" ELSE "tags"
             /\ UNCHANGED <<phys, total, off, eoff, info, walked, top>>

\* Where the tag after one that ends at end starts.
aligned_up(end) == ((end + (ALIGN - 1)) \div ALIGN) * ALIGN

\* The checks of a tag header, in the order parse makes them.
header_error_any_size(size) == IF off + size > total THEN "TagOverrun" ELSE "none"
header_error_in_slice(size) == IF size < HEADER_LEN THEN "TagUndersize"
                               ELSE IF off + size > span THEN "TagOverrun" ELSE "none"
header_error(size) == IF size < HEADER_LEN THEN "TagUndersize"
                      ELSE IF off + size > total THEN "TagOverrun" ELSE "none"

mmap_error(len, es) == IF len < 8 \/ es < MMAP_ENTRY THEN "BadMmapEntrySize" ELSE "none"

\* What the match of parse records of a tag whose body is at b, len bytes long.
record(i, ty, b, len) ==
  LET rsdp(version) == IF i.acpi_rsdp # None THEN i
                       ELSE [i EXCEPT !.acpi_rsdp = b, !.acpi_version = version]
  IN CASE ty = "CMDLINE" -> [i EXCEPT !.cmdline = b]
       [] ty = "LOADER" -> [i EXCEPT !.loader_name = b]
       [] ty = "MMAP" -> [i EXCEPT !.saw_mmap = TRUE]
       [] ty = "FRAMEBUFFER" /\ len >= 24 /\ i.framebuffer = None
            -> [i EXCEPT !.framebuffer = b]
       [] ty = "ACPI_OLD" /\ len >= 20 -> rsdp(1)
       [] ty = "ACPI_NEW" /\ len >= 36 -> rsdp(2)
       [] ty = "LOAD_BASE" -> [i EXCEPT !.load_base_addr = IF len >= 4 THEN b ELSE None]
       [] OTHER -> i

\* One iteration of the tag loop on a tag other than END.
parse_tag(ty, size, es) ==
  /\ status = "tags" /\ off + HEADER_LEN <= total
  /\ LET bad == header_error(size)
         len == size - HEADER_LEN
         bad_map == IF ty = "MMAP" THEN mmap_error(len, es) ELSE "none"
     IN IF bad # "none"
        THEN /\ status' = bad /\ top' = off + HEADER_LEN
             /\ UNCHANGED <<off, eoff, info, walked>>
        ELSE /\ info' = record([info EXCEPT !.tag_count = @ + 1], ty, off + HEADER_LEN, len)
             /\ walked' = Append(walked, [off |-> off, ty |-> ty, size |-> size, es |-> es])
             /\ top' = off + size
             /\ off' = IF ty = "MMAP" THEN off ELSE aligned_up(off + size)
             /\ eoff' = IF ty = "MMAP" THEN 8 ELSE eoff
             /\ status' = IF bad_map # "none" THEN bad_map
                          ELSE IF ty = "MMAP" THEN "mmap" ELSE "tags"
  /\ UNCHANGED <<phys, total>>

\* How far parse_mmap moves after an entry, and when its loop ends: no room for
\* another entry, or a full vector.
entry_stride_packed(t) == MMAP_ENTRY
entry_stride(t) == t.es
map_ends_never_full(more) == ~more
map_ends(more) == ~more \/ Len(info.mmap) = MMAP_CAP

\* One iteration of the loop of parse_mmap; its end resumes the tag loop.
parse_mmap ==
  LET t == Last(walked)
      more == eoff + MMAP_ENTRY <= t.size - HEADER_LEN
  IN /\ status = "mmap"
     /\ \/ /\ more /\ Len(info.mmap) < MMAP_CAP
           /\ info' = [info EXCEPT !.mmap = Append(@, off + HEADER_LEN + eoff)]
           /\ eoff' = eoff + entry_stride(t)
           /\ UNCHANGED <<status, off>>
        \/ /\ map_ends(more)
           /\ info' = [info EXCEPT !.truncated = @ \/ more]
           /\ status' = "tags" /\ off' = aligned_up(off + t.size)
           /\ UNCHANGED eoff
     /\ UNCHANGED <<phys, total, walked, top>>

\* The END tag, or no room for another header.
parse_done ==
  /\ status = "tags"
  /\ status' = IF info.saw_mmap /\ info.mmap # <<>> THEN "ok" ELSE "NoMemoryMap"
  /\ top' = IF off + HEADER_LEN <= total THEN off + HEADER_LEN ELSE top
  /\ UNCHANGED <<phys, total, off, eoff, info, walked>>

parse == \/ \E ty \in Tags: \E size \in TagSizes[ty]:
              \E es \in (IF ty = "MMAP" THEN EntrySizes ELSE {0}): parse_tag(ty, size, es)
         \/ parse_mmap
         \/ parse_done

=============================================================================

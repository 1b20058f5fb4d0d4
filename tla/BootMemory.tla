----------------------------- MODULE BootMemory -----------------------------
(***************************************************************************)
(* Steps 7 and 8 of kernel_main (kernel/src/kmain.rs): parse the boot      *)
(* information, apply the parameters of its command line, and reserve the  *)
(* memory the kernel and the firmware own before anything is allocated.    *)
(* Composes Multiboot and BootParams.  The kernel is built with overflow   *)
(* checks, so an addition or a product past U64_MAX panics.                *)
(***************************************************************************)
EXTENDS Multiboot, BootParams

CONSTANTS Lines,         \* command lines GRUB may pass
          Framebuffers,  \* contents of a framebuffer tag
          MIB,           \* 1024 * 1024
          Firmware,      \* the fixed ranges of reserve_boot_memory
          KERNEL_IMAGE   \* [kernel_phys_start, kernel_phys_end)

VARIABLES stage,     \* where kernel_main is
          line,      \* what the CMDLINE tag holds
          fb,        \* what the framebuffer tag holds
          params,    \* the BootParams report_boot_info returned
          usable     \* frames the allocator may hand out

vars == <<mbvars, stage, line, fb, params, usable>>

NoFramebuffer == [address |-> 0, pitch |-> 0, height |-> 0, type |-> "none"]

BootFrames == 0 .. (BOOT_MAPPED \div PAGE_SIZE) - 1

ASSUME BootAssumption == /\ BOOT_MAPPED % PAGE_SIZE = 0
                         /\ U64_MAX \in Nat \ {0}
                         /\ Firmware \cup {KERNEL_IMAGE} \subseteq Nat \X Nat
                         /\ \A r \in Firmware \cup {KERNEL_IMAGE}: r[1] < r[2]
                         /\ \A f \in Framebuffers: {f.address, f.pitch, f.height} \subseteq Nat

Init == /\ MbInit /\ stage = "parse" /\ line = <<>> /\ fb = NoFramebuffer
        /\ params = Defaults /\ usable = BootFrames

\* kernel_main, step 7: the parser runs; an error is a panic.
parsing == /\ stage = "parse" /\ (read_from \/ parse)
           /\ stage' = IF status' \in ParseErrors THEN "panic" ELSE stage
           /\ UNCHANGED <<line, fb, params, usable>>

\* The command line BootInfo keeps: what fits of the last CMDLINE tag.
cmdline(l) == IF info.cmdline = None THEN <<>> ELSE push_str(l)

\* report_boot_info and apply_params.  What the CMDLINE and the framebuffer tag
\* hold is chosen here, where it is first looked at.  parse has returned, so its
\* locals and the history of its walk are gone.
apply_params == /\ stage = "parse" /\ status = "ok" /\ stage' = "reserve"
                /\ line' \in (IF info.cmdline = None THEN {<<>>} ELSE Lines)
                /\ fb' \in (IF info.framebuffer = None THEN {NoFramebuffer} ELSE Framebuffers)
                /\ params' = parse_params(cmdline(line'))
                /\ off' = HEADER_LEN /\ eoff' = 0 /\ walked' = <<>> /\ top' = 0
                /\ UNCHANGED <<phys, total, info, status, usable>>

-----------------------------------------------------------------------------
overflows(n) == n > U64_MAX

\* The frames pmm::reserve_range takes: rounded outward.
frames_of_inward(r) == ((r[1] + PAGE_SIZE - 1) \div PAGE_SIZE) .. (r[2] \div PAGE_SIZE) - 1
frames_of(r) == IF r[2] <= r[1] THEN {}
                ELSE (r[1] \div PAGE_SIZE) .. ((r[2] + PAGE_SIZE - 1) \div PAGE_SIZE) - 1

\* parse_framebuffer: the size comes from pitch * height, saturating.
fb_size == LET height == IF fb.height = 0 THEN 1 ELSE fb.height
           IN Min({fb.pitch * height, U64_MAX})

mem_limit_from_first == LET l == cmdline(line)
                        IN parse_params(SubSeq(l, 1, Min({1, Len(l)}))).mem_limit_mib
mem_limit_from == parse_params(cmdline(line)).mem_limit_mib

mbi == IF phys # 0 THEN {<<phys, phys + total>>} ELSE {}

framebuffer == IF info.framebuffer # None /\ fb.type # "EGA_TEXT" /\ fb_size > 0
               THEN {<<fb.address, fb.address + fb_size>>} ELSE {}

rsdp == IF info.acpi_rsdp # None
        THEN LET page == ((phys + info.acpi_rsdp) \div PAGE_SIZE) * PAGE_SIZE
             IN {<<page, page + PAGE_SIZE>>}
        ELSE {}

mem_limit == IF mem_limit_from # Unset THEN {<<mem_limit_from * MIB, BOOT_MAPPED>>} ELSE {}

reserved == Firmware \cup {KERNEL_IMAGE} \cup mbi \cup framebuffer \cup rsdp \cup mem_limit

reserve_boot_memory ==
  /\ stage = "reserve"
  /\ IF \E r \in reserved: overflows(r[1]) \/ overflows(r[2]) \/ overflows(r[2] + PAGE_SIZE - 1)
     THEN stage' = "panic" /\ UNCHANGED usable
     ELSE /\ stage' = "ready"
          /\ usable' = usable \ UNION {frames_of(r): r \in reserved}
  /\ UNCHANGED <<mbvars, line, fb, params>>

Next == parsing \/ apply_params \/ reserve_boot_memory

Spec == Init /\ [][Next]_vars /\ WF_vars(Next)

-----------------------------------------------------------------------------

\* The entries a memory-map tag declares: one every es bytes, each a whole
\* entry inside the tag.
declared(t) == LET room == t.size - HEADER_LEN - 8 - MMAP_ENTRY
               IN IF room < 0 THEN <<>>
                  ELSE [k \in 1 .. (room \div t.es) + 1 |-> t.off + HEADER_LEN + 8 + (k - 1) * t.es]

\* A parser with a wrong stride, or one that reads a partial entry, invents RAM.
\* Between tags the memory map is exactly what the tags walked so far declare,
\* in order, cut at the capacity, and a cut is flagged.
RamAsDeclared ==
  stage = "parse" /\ status \in {"tags", "ok"} =>
    LET maps == SelectSeq(walked, LAMBDA t: t.ty = "MMAP")
        all == FlattenSeq([k \in DOMAIN maps |-> declared(maps[k])])
    IN /\ info.mmap = SubSeq(all, 1, Min({MMAP_CAP, Len(all)}))
       /\ info.truncated <=> Len(all) > MMAP_CAP

\* No byte belongs to two tags: every tag walked starts after the header and
\* the body of the one before, so a size field of zero cannot hold the walk.
TagsNeverOverlap ==
  \A i, j \in DOMAIN walked:
    i < j => walked[i].off + Max({HEADER_LEN, walked[i].size}) <= walked[j].off

\* "only total_size bytes are read": no read of the walk ends past the
\* declared size, whatever the sizes of the tags, although the slice is a page
\* longer.
ReadsInsideStructure == top <= total

\* Nothing the kernel, the loader or the firmware still owns can be handed out
\* once reserve_boot_memory is done: the image, the information structure, the
\* whole RSDP (20 bytes or 36), the framebuffer and the firmware's windows.
NothingLiveIsUsable ==
  stage = "ready" =>
    LET rsdp_at == phys + info.acpi_rsdp
        rsdp_len == IF info.acpi_version = 1 THEN 20 ELSE 36
        live == Firmware \cup {KERNEL_IMAGE, <<phys, phys + total>>}
                \cup (IF info.acpi_rsdp = None THEN {} ELSE {<<rsdp_at, rsdp_at + rsdp_len>>})
                \cup (IF info.framebuffer = None \/ fb.type = "EGA_TEXT" THEN {}
                      ELSE {<<fb.address, fb.address + fb.pitch * fb.height>>})
    IN \A r \in live: \A f \in usable:
         r[1] < r[2] => r[2] <= f * PAGE_SIZE \/ (f + 1) * PAGE_SIZE <= r[1]

\* The cap reserve_boot_memory applies is the one report_boot_info parsed (the
\* line is parsed twice): no usable frame reaches past it, and without one
\* no frame is lost to it.
LimitHonoured ==
  stage = "ready" =>
    LET limit == IF params.mem_limit_mib = Unset THEN BOOT_MAPPED ELSE params.mem_limit_mib * MIB
        below == {f \in BootFrames: (f + 1) * PAGE_SIZE <= limit}
        owned == UNION {frames_of(r): r \in reserved \ mem_limit}
    IN usable = below \ owned

\* The walk of a structure, however malformed, ends, and the boot goes on or
\* panics: every tag that is accepted moves the walk forward.
BootInfoSettles == <>(stage \in {"ready", "panic"})
=============================================================================

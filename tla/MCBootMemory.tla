---------------------------- MODULE MCBootMemory ----------------------------
(* A small machine for BootMemory: 64-byte frames, a boot map of 64 of     *)
(* them, structures of up to 96 bytes.                                    *)
EXTENDS BootMemory

MCTagSizes == [CMDLINE |-> {4, 24}, LOADER |-> {16}, MMAP |-> {12, 16, 40, 64, 88},
               FRAMEBUFFER |-> {31, 32}, ACPI_OLD |-> {27, 28}, ACPI_NEW |-> {43, 44},
               LOAD_BASE |-> {12}, IGNORED |-> {0, 16, 200}]

MCFirmware == {<<0, 64>>, <<158, 160>>, <<160, 192>>, <<192, 256>>}
MCKernelImage == <<256, 700>>

nx(v) == [key |-> "nx", klen |-> 7, val |-> v]
memlimit(v) == [key |-> "memlimit", klen |-> 13, val |-> v]
log(v) == [key |-> "log", klen |-> 8, val |-> v]
single == [key |-> "single", klen |-> 11, val |-> <<>>]
foreign == [key |-> "foreign", klen |-> 5, val |-> <<>>]
typo == [key |-> "selftst", klen |-> 12, val |-> <<"o", "f", "f">>]
panic(v) == [key |-> "panic", klen |-> 10, val |-> v]
console(v) == [key |-> "console", klen |-> 12, val |-> v]
selftest(v) == [key |-> "selftest", klen |-> 13, val |-> v]

MCLevels == {<<"i", "n", "f", "o">>, <<"w", "a", "r", "n">>}
MCTargets == {<<"v", "g", "a">>}

MCLines ==
  {<<>>, <<foreign, typo>>,
   <<memlimit(<<"8">>), memlimit(<<"1", "2">>)>>,
   <<memlimit(<<"9", "9", "9", "9">>)>>, <<memlimit(<<"0">>)>>, <<memlimit(<<"-", "1">>)>>,
   <<memlimit(<<"+", "8">>), memlimit(<<"+">>)>>,
   <<nx(<<"o", "f", "f">>), log(<<"w", "a", "r", "n">>)>>,
   <<typo, log(<<"l", "o", "u", "d">>), typo>>,
   <<single, console(<<"v", "g", "a">>), selftest(<<"o", "f", "f">>)>>,
   <<panic(<<"r", "e", "b", "o", "o", "t">>), foreign, typo, memlimit(<<"1", "2">>)>>,
   <<typo, typo, console(<<"t", "v">>), nx(<<"o", "f", "f">>)>>}

MCFramebuffers == {[address |-> 1000, pitch |-> 30, height |-> 10, type |-> "RGB"],
                   [address |-> 3000, pitch |-> 100, height |-> 0, type |-> "RGB"],
                   [address |-> 160, pitch |-> 2, height |-> 8, type |-> "EGA_TEXT"],
                   [address |-> 40000, pitch |-> 300, height |-> 100, type |-> "RGB"]}
=============================================================================

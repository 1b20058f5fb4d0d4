# A TLA+ model of the Orin kernel (M1)

Orin M1 is a single-core x86_64 kernel in Rust. It boots through Multiboot2,
builds a frame allocator and page tables, installs interrupt handlers, sets up
the keyboard and then echoes it. Concurrency comes from interrupts and
exceptions: a handler runs on top of whatever it interrupted. The locks are
`spin::Mutex`, which is not re-entrant; the build checks arithmetic overflow and
a panic aborts without releasing anything.

## Parts and modules

| Part | Source | Modules | Status |
|---|---|---|---|
| Physical memory manager | `memory/pmm.rs` | `Pmm`, `FrameAllocator`, `PmmRefinement`, `PmmProofs` | modelled, proved |
| Virtual memory manager | `memory/vmm.rs`, tables of `boot.asm` | `Vmm`, `AddressSpace`, `VmmTreeProofs`, `VmmProofs` | modelled, safety proved |
| Multiboot2 parser, parameters, reservations | `multiboot/info.rs`, `kmain.rs` | `Multiboot`, `BootParams`, `BootMemory`, `BootMemoryProofs` | modelled, safety proved |
| PIC | `interrupts/pic.rs` | `Pic`, `DevicesProofs` | modelled, proved |
| Timer, keyboard controller, order of bring-up | `pit.rs`, `keyboard.rs`, `interrupts/mod.rs`, `kmain.rs` | `Devices`, `DevicesProofs` | partly: no `shutdown`, no unit conversions; safety proved |
| Scancode decoder | `drivers/keyboard.rs` | `Scancode`, `Set1Keys`, `Keyboard` | modelled |
| Scancode ring | `drivers/keyboard.rs` | `KeyRing`, `BoundedFifo`, `KeyRingProofs` | modelled, proved |
| IRQ1, drain, echo loop | `keyboard.rs`, `kmain.rs` | `EchoLoop` | modelled |
| Exceptions and panic | `interrupts/idt.rs`, `panic.rs`, `gdt.rs`, `heap.rs` | `PanicPath`, `PanicPathProofs` | modelled, the counting-only vectors left out; safety proved |
| Locks and contexts | `log.rs`, `pit.rs`, `panic.rs`, `idt.rs`, ... | `KernelLocks`, `KernelLocksProofs` | partly: lock operations only; proved |
| Consoles, CPU registers, self-test | `console/`, `cpu/`, `selftest.rs` | in the above, where they matter | partly |
| Syscall stub, build tools | `syscall/`, `tools/` | | not modelled |

How they meet: `BootMemory` composes the parser and the parameters into the set
of frames left usable, which is the kind of input `Pmm` takes; `Vmm` takes its
table frames from the set the allocator can still give; `Devices` composes `Pic`
with the keyboard controller up to the idle loop, where `EchoLoop` begins;
`EchoLoop` uses the queue that `KeyRing` is proved to implement.

### What each module models

**Pmm** - the bitmap is the set `free` of frames; the counters, the cursor and
the canary word of every frame are variables. `init` is taken one memory-map
entry at a time; each public function is one action, since it runs under the
`PMM` lock. Clients keep what they were given, write it, and may make the
mistakes the code detects. **FrameAllocator** is the abstract promise,
**PmmRefinement** the mapping.

**Vmm** - `mem` gives every frame its contents as a page table, and `walk`,
`descend`, `map_4k` and `map_2m` go through it entry by entry. A map call is one
step per page, so the pool can run dry in the middle. `cached` is everything the
TLB may hold: all translations offered since the last flush, global ones
surviving a CR3 write. `translate` is the walk of the code, `hardware` the walk
of the processor, which combines the permissions of all levels. The phases are
`kmain`'s: init, CR3 switch, W^X report, hardening (or not, with `orin.nx=off`),
self-test (or not), then map calls of a running kernel. **AddressSpace** is what
a caller may rely on: it follows the calls page by page. `map_4k` gives a page the
frame asked for and never moves it; `map_2m` overwrites a whole run unchecked; a
`map_4k` into a large page is lost, because `descend` takes the large page for a
table and the entry is written into the memory behind it. That memory must be the
caller's own for the tables to stay whole, which `CallAssumption` says; in the
kernel only `init` calls `map_4k` and nobody calls `map_2m`.

**Multiboot** - offsets and sizes are real numbers of bytes, contents are not:
each tag chooses its type and size when the walk reaches it. **BootParams** -
`parse_params` on lines of tokens, with values as sequences of characters where
parsing depends on them, and the fixed-capacity string that cuts the line.
**BootMemory** - `kmain` from `read_from` through `apply_params` to
`reserve_boot_memory`, with the overflow checks.

**Pic** - two cascaded 8259As (request, in-service and mask registers, vector
base: external) under `remap`, `unmask` and `end_of_interrupt`. **Devices** -
the boot program as a list of steps, the timer, the 8042 with one output byte
and late answers (external), and the interrupt handlers. Interrupt lines are
latched during the polled exchange and delivered when the flag is set.

**Scancode** - `translate` as a function of decoder state and byte; characters
reduced to whether Shift changes them. **Set1Keys** is the keyboard's side
(external); it also says which held keys the decoder no longer counts, because the
other key of the same modifier was released after them. **Keyboard** drives the
decoder with several keys down together.

**KeyRing** - the lock-free ring, one action for each atomic access. Interrupt
and loop interleave at every access, which is more than one core can do and what
the atomics promise. Each location has one writer and the acquire/release pairs
order the cells, so sequentially consistent steps are enough. **BoundedFifo** is
the queue.

**EchoLoop** - strokes, the IRQ1 handler with every early return, `drain`,
`handle_key` and `hlt`. The handler runs with interrupts off, so it is one
action.

**PanicPath** - code as sequences of operations (take a lock, allocate, print a
marker, panic, return) on a stack of contexts; each context knows the stack area
it lives on and whether an IST entry has overwritten it. Exceptions strike any
code; before `idt::init` they reset the machine. A stack has room for `DEPTH`
contexts. No page below a stack is unmapped: the IST stacks are one array in
`.bss`, and below the kernel stack lie the boot stack and the boot page tables. A
context that no longer fits is written over its neighbours; the machine is then
`"wild"`, and what happens after that is not followed.

**KernelLocks** - code reduced to its lock operations, every lock by itself.
Interrupts are off during boot, except while the timer self-test spins, and on
in the idle loop.

## Runs

Passing:

| Run | Shows | Bounds |
|---|---|---|
| `pmm` | one holder per frame, exact counters, only usable RAM, missed runs only at the cursor (so a single frame is never missed), aligned runs, refinement | debug build, 4 frames of 2 bytes, 2 bitmap words, 3 maps that overlap, clip and end inside a frame, 2 clients, every caller mistake |
| `vmm` | each table has one owner, the kernel survives the CR3 switch, the audit agrees with the processor, no W+X page and no stale one after hardening, no reserved bit without NX, the self-test passes exactly when W^X is enforced, refinement | tables of 2, 4, 8 and 2 entries, every size of frame pool from none to enough, NX present or not, `orin.nx` on or off, 2 later calls out of 8: small and large pages over each other in either order, over the heap and in the identity map, the same page again, an unaligned one |
| `boot_info` | the memory map is as declared, tags do not overlap, reads stay inside, nothing live is usable, the limit is honoured, boot settles | structures of up to 96 bytes with tags smaller, equal and larger than allowed, 2 map entries, 11 command lines, 4 framebuffers |
| `devices` | in-service bits, the keyboard verdict, set-1 codes, only keystrokes in the ring, boot reaches idle, no stranded byte | 5 kinds of hardware, 2 keys, 1 fault (late answer, bad byte or spurious interrupt), 6 lines |
| `panic` | the first report survives, nothing runs under it, handlers return only to intact stacks, no stack is overrun but by `triple_fault`, a marker appears | 1 exception of 11 kinds, 8 contexts to a stack, 2 frames of backtrace over corrupt frame pointers, 3 actions |
| `key_ring` | FIFO refinement, no overwrite, `pending` a lower bound | 4 slots, 2 bytes, drop counter modulo 3 |
| `keyboard` | each stroke is exactly its event | 12 keys, both keys of every modifier and one of each kind of sequence, 4 down together |
| `echo` | echo is what was typed, bytes conserved, input eventually served | 4 strokes, ring of 4, 2 events per drain, all faults |
| `locks` | nobody spins, locks nest in rank order | every boot and idle path, IRQ1 without faults |

The bounds let each hard case happen: the ring fills and wraps, the cursor wraps
and a run lies across it, the frame pool ends inside every map call, a tag ends
at, before and after the structure, a key is struck between any two commands, an
exception strikes before and after every operation of a panic.

Failing, each a disagreement between the code and its own text (the quotes are
in `PROJECT.json`, findings):

| Run | What happens |
|---|---|
| `pmm_canary` | the canary test is inverted: freeing a frame nobody wrote since its last free panics |
| `locks_timer` | a tick can spin on `ENABLED` |
| `panic_lock` | the panic report allocates; with no heap left `oom` logs, and a panic that struck a log record waits for itself |

## Properties that hold only in part

Some properties carry an exception because the code needs it. The exception is
stated in the property and is the exact extent of the trouble:

- `MissedRunsCrossTheCursor`: the second search of `allocate` stops at the
  cursor, so a free run across it is not found (comment at `pmm.rs:403`).
- `StrokeIsOneEvent`, `EchoIsWhatWasTyped`: the left and the right key of a
  modifier share one flag, so releasing one ends the effect of the other until
  either is pressed or repeats (`keyboard.rs:510`).
- `StrokeIsOneEvent`: the six bytes of Pause give several
  events (`keyboard.rs:462`), and an extended key above the tables leaves the
  prefix armed, so the keys after it may be misread (`keyboard.rs:477`).
- `StacksHold`: with `orin.panic=reboot` or `triple` the stack does overrun. The
  division in `triple_fault` is checked and panics again, and each panic calls
  the action again; the IDT is already gone, so the first exception resets the
  machine. `panic.rs:22` says a panic inside a panic does not recurse.
- `RawReportAppears` is about the first marker only: with `PMM`, `STATE` or a log
  lock held by the panicking code the report hangs after it.
- `FirstReportSurvives`: an exception between the swap of `PANICKING` and the
  first line hides the first message.
- `VerdictIsRight`, `ScancodesAreSet1`: not after a late answer, nor when a key is
  struck between the first flush and the self-test's answer.
- `NobodySpins`: with `Irqs = {"key_fault"}` in `MCKernelLocks.cfg` it fails, since
  the fault branches of the IRQ1 handler log; the ordinary path takes no lock.
- `RingIsServed` needs the timer: a key between `drain` and `hlt` waits for the
  next tick. `drain` also stops at a byte that makes no event, although its doc
  (`keyboard.rs:799`) says it drains every pending scancode.

## Smaller disagreements

Met while translating, without a run: the command byte kept for `shutdown` is
read after the port was disabled, so it has the disable bit set
(`keyboard.rs:818`); spurious IRQ7 and IRQ15 reach `on_irq_unexpected`, whose
comment (`idt.rs:675`) names only a stray line; `allocate` never looks at the canary
(`docs/MEMORY.md` 3.4 says it does); `allocate_contiguous(1, align)` ignores
`align`; the IST guard pages lie in `.bss`
and are mapped (`gdt.rs:76` and `gdt.rs:145` say they are not); bit 5 of the
controller's status, here `ST_FROM_DEVICE`, marks the auxiliary device on a real
8042 (`keyboard.rs:43`); nothing checks that the boot block lies inside the boot
map (`info.rs:499` relies on it); slot `ist::DEBUG` is assigned to
no handler; `fatal_exception` compares with `"page-fault"` but is given
`"page-fault (#PF)"` (`idt.rs:314`); several handlers log before the raw report
(`idt.rs:305`); a
frame pointer on the low kernel stack is never accepted by `backtrace`; `.text`
is GLOBAL, against the comment in `Perm::bits`; the W^X count is printed before
hardening; `pic::remap` discards the masks it saved; `orin.nx` given a misspelt
value is silently on; an `orin.memlimit` large enough to overflow panics; with
`orin.nx=off` the self-test always stops the boot; the raw writer's truncation
marker is never written.

## Fairness

`EchoLoop`: weak fairness of the idle loop (the only thread), of IRQ1 (the
controller keeps the line asserted while a byte waits) and of the timer tick (the
PIT is periodic). The last stands for a tick whose handler returns: that it may
fail to is what `locks_timer` shows.
`PanicPath`: weak fairness of the running context, because a processor executes
instructions; nothing is assumed of interrupts or exceptions.
`BootMemory`: weak fairness of the boot program, which runs alone.
`Devices`: the controller answers, the timer runs and handlers progress (weak);
the boot program progresses although ticks interrupt it, since ticks are one
millisecond apart and handlers short (strong); an interrupt that can be taken
again and again is taken (strong). `NoByteIsStranded` states the assumption that
the timer leaves the CPU time between ticks.

Deadlock is checked for the ring, the decoder and the devices. The others may
stop: a panic, a finished boot or the last key stroke ends them.

## Proofs

All proofs hold for every value of the constants that the named assumptions
allow: `SizesAssumption`, `InputsAssumption`, `RingAssumption` (positive sizes,
whole bitmap words, natural-number inputs), `FieldsAssumption`, `BootAssumption`
(fields and addresses are natural numbers), `PicAssumption` (the lines are
among 0 to 15 and include the ones the code names), `NamesAssumption` (exceptions
are not named like the other contexts), `GeometryAssumption` (boot.asm's tables are
distinct frames, none of them free) and `CallAssumption` (what is mapped lies in
the kernel half or in memory of the caller's own).

*PmmProofs.* The inductive invariant is `TypeOK`, `ExclusiveOwnership`,
`AccountingExact` and `BootOrder` (nothing is held before `init` ends). It is
needed because the counters only stay right if the frames given away were free,
which in turn rests on what the search returns. On top of it:
`FramesHaveOneHolder`, `NoFrameIsLost`, `NoSpuriousExhaustion`,
`ContiguousRunsAreAligned`, `OnlyUsableMemoryIsHandedOut` and
`PmmImplementsFrameAllocator`. `ContiguousSearchMissesOnlyAtCursor` rests on two
lemmas about the search: what one pass over an interval misses, and hence what
two passes split at the cursor miss.

*KeyRingProofs.* The invariant adds what each side knows at each program
counter: the producer's copy of the tail may be old, but an old tail only makes
the ring look fuller; the consumer's copy of the head only makes it look
emptier. Lemmas on modular distance say how the queue grows and shrinks. From
them: `NoUnreadByteIsOverwritten`, `PendingIsALowerBound`, `RingImplementsFifo`.

*BootMemoryProofs.* The invariant `WalkInv` says where the walk is: every tag
read starts where an earlier one ended or later, ends before the current offset
(but for the map tag whose entries are being read), is no smaller than its
header, and the RSDP copy lies inside the structure. From it:
`NoTwoTagsShareAByte`, `ParserStaysInside` and `LiveMemoryIsReserved`. The last
needs one argument more: the single page reserved for the RSDP need not hold all
of it, but the reservation of the whole structure does. For the framebuffer, the
overflow check stops the boot wherever the saturating sum would cut the range.

*DevicesProofs.* `ServiceInv` adds to `InServiceIsBeingServed` that handlers do
not nest, that the interrupt flag is off while one runs, and that the vectors
were moved before the flag was first set; without the last, a handler could be
entered on a vector from which the line cannot be told. From it:
`OnlyTheHandledLineIsInService`. `BringUpInv` says, for every step of
`keyboard::init`, what the output buffer, the pending answers, the command byte
and the keyboard's scancode set can be, as long as no answer came late; from it
`TheVerdictIsRight` and `ScancodesComeAsSet1`. `RingInv` numbers the keystrokes:
those in the ring are in order and before the one in the buffer; from it
`TheRingHoldsKeystrokes`.

*KernelLocksProofs.* Each program is `Disciplined`: a lock it takes is released
later and not taken in between, and ranks above the locks held at that point.
`LockInv` says that the rest of each context's program is disciplined and
releases exactly the locks the context owns. From it: `LocksAlwaysNestInOrder`
and `NobodyWaitsForItself`, for every set of interrupts and assertions.
`NobodyEverSpins` adds `QuietInv` and assumes ordinary IRQ1s and assertions that
fail outside locks, as its run does.

*PanicPathProofs.* `DyingInv` has three parts. `StackInv`: a context that can still
return lives on the stack of the context below it, and one is overwritten exactly
when the other is; the running context never is. `PanicInv`: above the first panic
interrupts were off at every entry, so no return turns them on. `ReportInv`: only
the first panic's context can write the first line, it has written nothing else
before, and only an exception can be above it until then. From them:
`ReturnsOnlyToIntactStacks`, `NothingEverRunsUnderAPanic`,
`TheFirstReportSurvives`, for any number of exceptions and any size of stack.

*VmmTreeProofs, VmmProofs.* A ghost assignment `T` of frames to the positions of a
tree of four levels describes the kernel's tables. `Tree` says that no frame has
two positions, that none is free, a boot table or memory a caller owns, and that
every entry is absent, a leaf, or points to the frame of the position below.
`VmmInv` says that some such `T` exists, that the tables of boot.asm still have the
shape they were built with, and what the TLB may hold in each phase. The first
module shows what `descend`, `alloc` and one written entry do to a tree; the second
takes the actions one by one. From it: `PageTablesAreATree`,
`TablesAlwaysHaveOneOwner`, `HardeningLeavesNoWX`, `NoReservedBitIsSet`,
`TheAuditIsRight`.

Only model-checked:

- `Keyboard`, `EchoLoop`, and of `BootMemory` `RamAsDeclared` and `LimitHonoured`:
  they rest on what recursive functions and folds compute, that is on induction
  over data.
- `StacksHold`: it counts the contexts that one exception can add, so it holds for
  the bounds of its run, not for every `DEPTH` and `MAX_EVENTS`.
- `KernelKeepsRunning`, `SelfTestMeansWX`, `ImplementsAddressSpace`: they follow a
  whole sequence of map calls to its result.
- all liveness, which is beyond the prover.

## Not modelled

- Text formatting, colours, the VGA cursor and scrolling: layout.
- `keyboard::shutdown` (no caller), the syscall stub (answers ENOSYS), the
  handlers of vectors 0x80 and 0xFF (they count), `on_irq_cascade` (unreachable).
- PIT unit conversions: 64-bit arithmetic beyond TLC's integers. The spin limit
  of the timer test and the flush guard of 32 bytes are not reached.
- The word-at-a-time scan of the bitmap: `next_free` is stated on the set.
- CPUID and MSR access, the mode switch, the descriptors of the GDT: constant or
  without state. The linker script appears as assumptions on constants.
- The heap's allocator: a library; only its lock and its failure appear.
- Build tools and the incubator: host-side file checkers.
- Memory orders weaker than acquire/release; diagnostic counters without effect.

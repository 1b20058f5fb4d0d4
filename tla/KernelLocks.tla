---------------------------- MODULE KernelLocks ----------------------------
(***************************************************************************)
(* The kernel's spin::Mutex locks on its single core: which locks each     *)
(* piece of code takes, in which order, and who can be interrupted while   *)
(* holding one.  A spin lock is not re-entrant and a handler runs to       *)
(* completion before the code it interrupted, so a context that meets a    *)
(* taken lock spins for ever.  Code is reduced to its lock operations; a   *)
(* program is the sequence of them along one path.                         *)
(***************************************************************************)
EXTENDS Integers, Sequences

CONSTANTS LOG_LEVEL,  \* CONFIG.level: 0 trace .. 5 critical, 6 panic
          TARGET,     \* CONFIG.target: "serial", "vga" or "both"
          Irqs,       \* the interrupts that are delivered
          RAISE       \* the assertions that may fail: "plain", or "locked" ones

Trace == 0
Debug == 1
Info == 2
Warn == 3
Error == 4

Locks == {"CONFIG", "ENABLED", "COM1", "WRITER", "STATE", "PMM", "PT_POOL",
          "KERNEL_PML4", "NX_AVAILABLE", "MASKS", "REMAPPED", "ALLOCATOR"}

VARIABLES stack,  \* contexts: the boot thread, then what interrupted it
          owner,  \* for each lock the depth of the context holding it, 0 if free
          intr,   \* RFLAGS.IF
          phase   \* "boot", "selftest", "idle" or "stopped"

vars == <<stack, owner, intr, phase>>

-----------------------------------------------------------------------------
\* Programs.

Lock(l) == <<[op |-> "lock", on |-> l]>>
Unlock(l) == <<[op |-> "unlock", on |-> l]>>
With(l, body) == Lock(l) \o body \o Unlock(l)
Touch(l) == With(l, <<>>)
Assert(site) == <<[op |-> "assert", on |-> site]>>

\* One record: the filter is behind CONFIG, the timestamp behind ENABLED, and
\* each console behind its own lock.  The variant keeps CONFIG throughout.
write_serial == IF TARGET \in {"serial", "both"} THEN Touch("COM1") ELSE <<>>
write_vga == IF TARGET \in {"vga", "both"} THEN Touch("WRITER") ELSE <<>>
now_micros == Touch("ENABLED")

log_under_config(level) ==
  IF level < LOG_LEVEL THEN Touch("CONFIG")
  ELSE With("CONFIG", now_micros \o write_serial \o write_vga)

log(level) ==
  IF level < LOG_LEVEL THEN Touch("CONFIG")
  ELSE Touch("CONFIG") \o now_micros \o write_serial \o write_vga

allocate_frame == With("PMM", Assert("locked"))

pt_alloc == With("PT_POOL", allocate_frame)

\* What the boot thread does before interrupts are on.
Boot == [console_init  |-> Touch("COM1") \o Touch("WRITER") \o log(Info),
         configure     |-> Touch("CONFIG"),
         pmm_init      |-> With("PMM", log(Warn) \o log(Debug) \o log(Info)),
         reserve_range |-> Touch("PMM"),
         vmm_init      |-> Assert("plain") \o pt_alloc \o Touch("KERNEL_PML4"),
         map_4k        |-> Touch("NX_AVAILABLE") \o pt_alloc \o log(Trace),
         heap_init     |-> Assert("plain") \o Touch("ALLOCATOR") \o log(Info),
         remap         |-> Touch("MASKS") \o Touch("REMAPPED") \o log(Info),
         pit_init      |-> Touch("ENABLED") \o log(Info),
         unmask        |-> With("MASKS", log(Debug)),
         keyboard_init |-> log(Info) \o Touch("STATE") \o log(Info)]

\* What the idle loop does with interrupts on.
Idle == [translate         |-> Touch("STATE"),
         translate_unknown |-> With("STATE", log(Trace)),
         handle_ctrl_c     |-> log(Info) \o Touch("STATE") \o log(Info),
         handle_no_char    |-> log(Debug),
         handle_escape     |-> log(Info) \o log(Warn),
         handle_char       |-> Touch("COM1") \o Touch("WRITER") \o log(Warn),
         report            |-> Touch("ENABLED") \o Touch("STATE") \o log(Trace)]

\* Interrupt handlers.  The ordinary keyboard path takes no lock; the variant
\* decodes in the handler.
irq_key_decoding == Touch("STATE")
irq_key == <<>>
irq_timer == Touch("ENABLED")

Handler == [key        |-> irq_key,
            key_fault  |-> log(Warn),
            key_noise  |-> log(Trace),
            timer      |-> irq_timer,
            heartbeat  |-> irq_timer \o Touch("ENABLED") \o log(Debug),
            unexpected |-> log(Error) \o Touch("MASKS")]

\* The panic handler's subsystem report.  The control registers are formatted
\* into a String first.
panic_report == Touch("ALLOCATOR") \o Touch("PMM") \o Touch("PMM") \o Touch("STATE") \o Touch("STATE")
                \o Touch("CONFIG")

ASSUME LocksAssumption ==
  /\ LOG_LEVEL \in 0 .. 6
  /\ TARGET \in {"serial", "vga", "both"}
  /\ Irqs \subseteq DOMAIN Handler
  /\ RAISE \subseteq {"plain", "locked"}

-----------------------------------------------------------------------------
Init == /\ stack = <<[who |-> "main", todo |-> <<>>]>>
        /\ owner = [l \in Locks |-> 0]
        /\ intr = FALSE
        /\ phase = "boot"

Depth == Len(stack)
Top == stack[Depth]

\* The boot thread takes up its next piece of work.
start == /\ phase \in {"boot", "idle"}
         /\ Depth = 1
         /\ Top.todo = <<>>
         /\ \E p \in (IF phase = "boot" THEN {Boot[b] : b \in DOMAIN Boot}
                                        ELSE {Idle[i] : i \in DOMAIN Idle}) :
              stack' = <<[who |-> "main", todo |-> p]>>
         /\ UNCHANGED <<owner, intr, phase>>

\* The timer self-test turns interrupts on, spins without a lock until two
\* ticks have come or its limit is reached, and turns them off again.
test_timer_interrupt == /\ phase = "boot"
                        /\ Depth = 1
                        /\ Top.todo = <<>>
                        /\ phase' = "selftest"
                        /\ intr' = TRUE
                        /\ UNCHANGED <<stack, owner>>

test_timer_done == /\ phase = "selftest"
                   /\ Depth = 1
                   /\ phase' = "boot"
                   /\ intr' = FALSE
                   /\ UNCHANGED <<stack, owner>>

enable_interrupts == /\ phase = "boot"
                     /\ Depth = 1
                     /\ Top.todo = <<>>
                     /\ phase' = "idle"
                     /\ intr' = TRUE
                     /\ UNCHANGED <<stack, owner>>

\* An interrupt gate clears IF, so handlers do not nest.
interrupt(i) == /\ intr
                /\ stack' = Append(stack, [who |-> i, todo |-> Handler[i]])
                /\ intr' = FALSE
                /\ UNCHANGED <<owner, phase>>

iret == /\ Top.who \in Irqs
        /\ Top.todo = <<>>
        /\ stack' = SubSeq(stack, 1, Depth - 1)
        /\ intr' = TRUE
        /\ UNCHANGED <<owner, phase>>

Rest == [stack EXCEPT ![Depth].todo = Tail(@)]

NextOp == Head(Top.todo)

lock == /\ Top.todo # <<>>
        /\ NextOp.op = "lock"
        /\ owner[NextOp.on] = 0
        /\ owner' = [owner EXCEPT ![NextOp.on] = Depth]
        /\ stack' = Rest
        /\ UNCHANGED <<intr, phase>>

unlock == /\ Top.todo # <<>>
          /\ NextOp.op = "unlock"
          /\ owner' = [owner EXCEPT ![NextOp.on] = 0]
          /\ stack' = Rest
          /\ UNCHANGED <<intr, phase>>

assert_holds == /\ Top.todo # <<>>
                /\ NextOp.op = "assert"
                /\ stack' = Rest
                /\ UNCHANGED <<owner, intr, phase>>

\* panic = "abort": no guard is dropped, the handler runs on top.
assert_fails == /\ Top.todo # <<>>
                /\ NextOp.op = "assert"
                /\ NextOp.on \in RAISE
                /\ stack' = Append(stack, [who |-> "panic", todo |-> panic_report])
                /\ intr' = FALSE
                /\ UNCHANGED <<owner, phase>>

panic_action == /\ Top.who = "panic"
                /\ Top.todo = <<>>
                /\ phase' = "stopped"
                /\ UNCHANGED <<stack, owner, intr>>

run == lock \/ unlock \/ assert_holds \/ assert_fails \/ iret \/ panic_action

Next == \/ start \/ test_timer_interrupt \/ test_timer_done \/ enable_interrupts
        \/ (\E i \in Irqs : interrupt(i)) \/ run

Spec == Init /\ [][Next]_vars

-----------------------------------------------------------------------------
Waiting == Top.todo # <<>> /\ NextOp.op = "lock" /\ owner[NextOp.on] # 0

\* No context ever waits for a lock that it, or the code it interrupted, holds.
NobodySpins == ~Waiting

\* The order in which locks nest: no lock is taken under one of a higher or the
\* same rank, so no two contexts can wait for each other once there are several.
Rank == [l \in Locks |-> CASE l \in {"PT_POOL", "MASKS", "STATE"} -> 1
                           [] l = "PMM" -> 2
                           [] OTHER -> 3]

LocksNestInOrder == [][\A l, m \in Locks : owner[l] = 0 /\ owner'[l] # 0 /\ owner[m] = owner'[l]
                         => Rank[m] < Rank[l]]_vars

\* "this is the safe point to enable them": no tick finds a lock taken.
TimerHandlerNeverWaits == Top.who \in {"timer", "heartbeat"} => ~Waiting

============================================================================

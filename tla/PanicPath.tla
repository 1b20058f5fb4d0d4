----------------------------- MODULE PanicPath -----------------------------
(***************************************************************************)
(* How the kernel dies: the exception handlers of interrupts/idt.rs, the   *)
(* panic handler of panic.rs and what they stand on - the stacks of        *)
(* interrupts/gdt.rs, the heap and the locks of the code they interrupted. *)
(*                                                                         *)
(* Code is a sequence of operations; stack is the control stack of the one *)
(* core, the running context last.  LOG stands for the locks of the log    *)
(* layer (KernelLocks has them one by one), the raw console needs none.    *)
(***************************************************************************)
EXTENDS Integers, Sequences, FiniteSets

CONSTANTS Exceptions,    \* the exceptions that may strike
          MAX_EVENTS,    \* bound: exceptions, NMIs and interrupts in a run
          DEPTH,         \* contexts one stack has room for
          MAX_FRAMES,    \* frames a backtrace prints
          Actions,       \* values of orin.panic
          CORRUPT        \* may the frame-pointer chain be corrupt

\* The contexts that are not exceptions have names of their own.
ASSUME NamesAssumption == Exceptions \cap {"main", "oom", "panic"} = {}

VARIABLES stack,         \* contexts: [who, area, todo, intact, intr]
          held,          \* locks taken
          intr,          \* RFLAGS.IF
          heap,          \* has heap::init run
          PANICKING, PANIC_COUNT,
          on_panic,      \* ACTION, chosen when it is first read
          base,          \* history: depth of the first panic's context
          marks,         \* history: the markers on the serial line
          idt,           \* is the loaded IDT usable
          machine,       \* "running", "halted", "reset" or "wild"
          events         \* exceptions and interrupts so far

vars == <<stack, held, intr, heap, PANICKING, PANIC_COUNT, on_panic, base, marks,
          idt, machine, events>>

Locks == {"LOG", "PMM", "STATE", "HEAP"}

\* Addresses of frame pointers: the kernel stack is at low addresses, the IST
\* stacks in the kernel half, where not every address is mapped.
KERNEL_VMA == 2
Mapped == {2, 3, 4}
Addresses == {0} \cup Mapped \cup {5}

-----------------------------------------------------------------------------
\* Programs.
Do(op, on) == <<[op |-> op, on |-> on, n |-> 0]>>
Lock(l) == Do("lock", l)
Unlock(l) == Do("unlock", l)
With(l, body) == Lock(l) \o body \o Unlock(l)
Touch(l) == With(l, <<>>)
Mark(m) == Do("mark", m)
Alloc == Do("alloc", "HEAP")
Panic == Do("panic", "-")
Return == Do("return", "-")
Act == Do("action", "-")

log == Touch("LOG")

\* heap::oom, on a failed allocation.
oom == log \o Panic

\* Registers are formatted into a String: format_control allocates.
fatal_exception == Mark("FATAL-BEGIN") \o Alloc \o Mark("FATAL-END") \o Panic

on_breakpoint == log \o Return
on_debug(attached) == IF attached THEN log \o Return ELSE fatal_exception
on_nmi == log \o log \o Panic
on_double_fault == log \o log \o log \o Panic
on_machine_check == log \o log \o Panic
on_page_fault == Alloc \o log \o log \o fatal_exception
on_unassigned == log \o log \o Panic
explained_fault == log \o fatal_exception

\* Which handler a vector runs; the rest of the table is fatal_exception alone.
handler(e) == CASE e = "BP" -> on_breakpoint
                [] e = "DB" -> on_debug(FALSE)
                [] e = "DB-debugger" -> on_debug(TRUE)
                [] e = "NMI" -> on_nmi
                [] e = "DF" -> on_double_fault
                [] e = "MC" -> on_machine_check
                [] e = "PF" -> on_page_fault
                [] e \in {"UD", "TS", "GP", "VC"} -> explained_fault
                [] e = "unassigned" -> on_unassigned
                [] e = "irq" -> Return
                [] OTHER -> fatal_exception

\* The stack a handler runs on: its IST stack, or the one it interrupts.
ist_of_breakpoint(e) == CASE e = "BP" -> "IST5" [] e = "PF" -> "IST5" [] OTHER -> "none"
ist_of(e) == CASE e = "DF" -> "IST1" [] e = "NMI" -> "IST2" [] e = "MC" -> "IST3"
               [] e = "PF" -> "IST5" [] OTHER -> "none"

\* The report, and what is left of it in a panic inside a panic.  The variants
\* allocate or log before the first line, and print registers again.
panic_report_late == Alloc \o Mark("BEGIN") \o Mark("END") \o Act
panic_report_logged == log \o Mark("BEGIN") \o Mark("END") \o Act
panic_report == Mark("BEGIN") \o Alloc \o Do("backtrace", "-") \o Touch("PMM") \o Touch("PMM")
                \o Touch("STATE") \o Touch("STATE") \o Touch("LOG") \o Mark("END") \o Act
recursive_report_registers == Mark("RECURSIVE") \o Alloc \o Mark("END") \o Act
recursive_report == Mark("RECURSIVE") \o Mark("END") \o Act

\* What the kernel may be doing.  A record's arguments are formatted under the
\* console's lock; pmm::init and translate log under theirs.
MainPrograms == {With("LOG", Do("assert", "-")), Touch("HEAP"), With("PMM", log \o Do("assert", "-")),
                 With("STATE", log), Alloc}

-----------------------------------------------------------------------------
Init == /\ stack = <<[who |-> "main", area |-> "kernel", todo |-> <<>>, intact |-> TRUE,
                      intr |-> FALSE]>>
        /\ held = {} /\ intr = FALSE /\ heap = FALSE
        /\ PANICKING = FALSE /\ PANIC_COUNT = 0 /\ on_panic = "unread"
        /\ base = 0 /\ marks = <<>> /\ idt = FALSE /\ machine = "running" /\ events = 0

Depth == Len(stack)
Top == stack[Depth]
Running == machine = "running"
Next1 == Head(Top.todo)
At(op) == Running /\ Top.todo # <<>> /\ Next1.op = op

\* The running context is past its next operation, or has ops put before it.
Done(s) == [s EXCEPT ![Len(s)].todo = Tail(@)]
Instead(s, o) == [s EXCEPT ![Len(s)].todo = o \o Tail(@)]

Used(s, area) == Cardinality({k \in DOMAIN s: s[k].area = area /\ s[k].intact})

\* The machine state left alone by everything but panic and action.
calm == <<PANICKING, PANIC_COUNT, on_panic, base>>

\* Is there memory of the stack in use for another context.  There is no unmapped
\* page below a stack: past its end lie the IST stack before it or the kernel's
\* data, and for the kernel stack the boot stack and the boot page tables.  A
\* stack that is full is written on into its neighbours, and there the model ends.
room(s) == Used(s, s[Len(s)].area) < DEPTH
overrun == machine' = "wild" /\ UNCHANGED <<stack, intr>>

\* The CPU delivers e to the code whose control stack is s: a gate clears IF,
\* and an IST stack is entered at its top, over whatever was on it.  With no
\* usable IDT the delivery faults, and the fault of the fault: reset.
deliver(e, s) ==
  LET ist == ist_of(e)
      area == IF ist = "none" THEN s[Len(s)].area ELSE ist
      over == [k \in DOMAIN s |-> IF ist # "none" /\ s[k].area = area
                                  THEN [s[k] EXCEPT !.intact = FALSE] ELSE s[k]]
  IN IF ~idt THEN machine' = "reset" /\ UNCHANGED <<stack, intr>>
     ELSE IF ist = "none" /\ ~room(s) THEN overrun
     ELSE /\ stack' = Append(over, [who |-> e, area |-> area, todo |-> handler(e),
                                    intact |-> TRUE, intr |-> intr])
          /\ machine' = "running" /\ intr' = FALSE

\* Calling a function that never returns: panic and oom run above the caller.
call(who, prog) ==
  /\ stack' = Append(stack, [who |-> who, area |-> Top.area, todo |-> prog, intact |-> TRUE,
                             intr |-> intr])
  /\ UNCHANGED machine

-----------------------------------------------------------------------------
\* The kernel takes up a piece of work.
main == /\ Running /\ Depth = 1 /\ Top.todo = <<>>
        /\ \E p \in MainPrograms: stack' = <<[stack[1] EXCEPT !.todo = p]>>
        /\ UNCHANGED <<held, intr, heap, calm, marks, idt, machine, events>>

heap_init == /\ Running /\ Depth = 1 /\ Top.todo = <<>> /\ ~heap /\ heap' = TRUE
             /\ UNCHANGED <<stack, held, intr, calm, marks, idt, machine, events>>

\* gdt::init and idt::init, after the heap: from here exceptions have handlers.
interrupts_init == /\ Running /\ Depth = 1 /\ Top.todo = <<>> /\ heap /\ ~idt /\ idt' = TRUE
                   /\ UNCHANGED <<stack, held, intr, heap, calm, marks, machine, events>>

enable_interrupts == /\ Running /\ Depth = 1 /\ Top.todo = <<>> /\ idt /\ ~intr /\ intr' = TRUE
                     /\ UNCHANGED <<stack, held, heap, calm, marks, idt, machine, events>>

\* Locks and markers; a taken lock is spun on for ever.
step == /\ \/ /\ At("lock") /\ Next1.on \notin held
              /\ held' = held \cup {Next1.on} /\ UNCHANGED marks
           \/ At("unlock") /\ held' = held \ {Next1.on} /\ UNCHANGED marks
           \/ At("mark") /\ marks' = Append(marks, Next1.on) /\ UNCHANGED held
           \/ At("assert") /\ UNCHANGED <<held, marks>>
        /\ stack' = Done(stack)
        /\ UNCHANGED <<intr, heap, calm, idt, machine, events>>

\* The global allocator: its lock, then success or, with no heap or a full
\* one, the error handler.
alloc == /\ At("alloc") /\ "HEAP" \notin held
         /\ \/ heap /\ stack' = Done(stack) /\ UNCHANGED <<intr, machine>>
            \/ IF room(stack) THEN call("oom", oom) /\ UNCHANGED intr ELSE overrun
         /\ UNCHANGED <<held, heap, calm, marks, idt, events>>

return == /\ At("return") /\ Depth > 1
          /\ stack' = SubSeq(stack, 1, Depth - 1) /\ intr' = Top.intr
          /\ UNCHANGED <<held, heap, calm, marks, idt, machine, events>>

disable_interrupts_not == UNCHANGED intr
disable_interrupts == intr' = FALSE

\* The panic handler, reached by panic! or a failed assertion.
report == IF PANICKING THEN recursive_report ELSE panic_report

panic == /\ At("panic") \/ At("assert")
         /\ IF room(stack)
            THEN /\ call("panic", report)
                 /\ disable_interrupts
                 /\ PANICKING' = TRUE
                 /\ PANIC_COUNT' = PANIC_COUNT + 1
                 /\ base' = IF PANICKING THEN base ELSE Depth + 1
            ELSE overrun /\ UNCHANGED <<PANICKING, PANIC_COUNT, base>>
         /\ UNCHANGED <<held, heap, on_panic, marks, idt, events>>

-----------------------------------------------------------------------------
\* backtrace: n frames printed, the frame pointer in on.
valid_frame_pointer(rbp) == rbp >= KERNEL_VMA

current_rbp == IF CORRUPT THEN Addresses ELSE IF Top.area = "kernel" THEN {0} ELSE {3}

backtrace_frame(rbp, n) ==
  \/ /\ ~valid_frame_pointer(rbp) \/ n = MAX_FRAMES
     /\ stack' = Done(stack) /\ UNCHANGED <<intr, machine>>
  \/ /\ valid_frame_pointer(rbp) /\ n < MAX_FRAMES /\ rbp \notin Mapped
     /\ deliver("PF", Done(stack))
  \/ /\ valid_frame_pointer(rbp) /\ n < MAX_FRAMES /\ rbp \in Mapped
     /\ \E saved \in (IF CORRUPT THEN Addresses ELSE {0}), in_text \in BOOLEAN:
          stack' = IF ~in_text \/ saved <= rbp THEN Done(stack)
                   ELSE Instead(stack, <<[op |-> "frame", on |-> saved, n |-> n + 1]>>)
     /\ UNCHANGED <<intr, machine>>

backtrace == /\ \/ At("backtrace") /\ \E rbp \in current_rbp: backtrace_frame(rbp, 0)
                \/ At("frame") /\ backtrace_frame(Next1.on, Next1.n)
             /\ UNCHANGED <<held, heap, calm, marks, idt, events>>

\* triple_fault loads an IDT nothing can be delivered through, then divides by
\* zero.  The division is checked, so what it raises first is a panic.
triple_fault == /\ idt' = FALSE
                /\ stack' = Instead(stack, Panic)
                /\ UNCHANGED machine

\* The reset line of the keyboard controller may be ignored; the triple fault
\* is behind it.
action == \/ on_panic' = "Halt" /\ machine' = "halted" /\ UNCHANGED <<stack, idt>>
          \/ on_panic' = "Reboot" /\ machine' = "reset" /\ UNCHANGED <<stack, idt>>
          \/ on_panic' \in {"Reboot", "Triple"} /\ triple_fault

panic_action == /\ At("action")
                /\ on_panic' \in (IF on_panic = "unread" THEN Actions ELSE {on_panic})
                /\ action
                /\ UNCHANGED <<held, intr, heap, PANICKING, PANIC_COUNT, base, marks, events>>

-----------------------------------------------------------------------------
\* An exception strikes the running code, whatever it is; NMIs wake a halted
\* core too, but not one that is handling an NMI.
exception(e) == /\ events < MAX_EVENTS /\ machine \in {"running", "halted"}
                /\ machine = "halted" => e = "NMI"
                /\ e = "NMI" => \A k \in DOMAIN stack: stack[k].who # "NMI"
                /\ e = "irq" => intr
                /\ events' = events + 1
                /\ deliver(e, stack)
                /\ UNCHANGED <<held, heap, calm, marks, idt>>

work == main \/ heap_init \/ interrupts_init \/ enable_interrupts
dying == step \/ alloc \/ return \/ panic \/ backtrace \/ panic_action
Next == work \/ dying \/ \E e \in Exceptions: exception(e)

\* The core executes: whatever is next in the running context happens.
Spec == Init /\ [][Next]_vars /\ WF_vars(dying)

-----------------------------------------------------------------------------

Count(m) == Cardinality({k \in DOMAIN marks: marks[k] = m})

\* The report of the first panic is begun once, and no failure of the handler
\* itself - an allocation, a lock, a frame pointer - comes before it: only an
\* exception between the swap of PANICKING and the first line can.
FirstReportSurvives ==
  /\ Count("BEGIN") <= 1
  /\ Count("RECURSIVE") > 0 /\ Count("BEGIN") = 0 =>
       stack[base + 1].who \notin {"oom", "panic"}

\* Once the panic handler runs, nothing returns into what it interrupted and no
\* device interrupt runs above it, so its lines are not interleaved.
NothingRunsUnderAPanic ==
  PANICKING => ~intr /\ Depth >= base /\ \A k \in base .. Depth: stack[k].who # "irq"

\* A handler returns only to a context whose stack is as it left it: handlers
\* that run on an IST stack, which a second exception overwrites, never return.
ReturnsToIntactStack ==
  At("return") /\ Depth > 1 => stack[Depth - 1].intact

Quiet == events = MAX_EVENTS

\* No stack is written past its end while exceptions have handlers: whatever fails
\* in a panic - an allocation, a frame pointer - and whatever strikes it, a panic
\* inside a panic goes straight to the action.  Only triple_fault recurs, without
\* an IDT, so that the next exception resets the machine.
StacksHold == machine = "wild" => on_panic \in {"Reboot", "Triple"} /\ ~idt

\* Whatever locks are held, a panic or an exception that goes straight to
\* fatal_exception gets its first marker out: the raw console takes no lock.
RawReportAppears ==
  (Running /\ Quiet /\ (Top.who = "panic" \/ At("panic") \/ At("mark"))) ~> (marks # <<>>)

\* "It must not take any lock": a panic that nothing else strikes does not wait
\* for one, so the code it interrupts may hold any.
PanicWaitsForNobody ==
  PANICKING /\ events = 0 => ~((At("lock") \/ At("alloc")) /\ Next1.on \in held)
=============================================================================

------------------------------ MODULE Devices ------------------------------
(***************************************************************************)
(* Bring-up of the interrupt-driven devices, from pic::remap in            *)
(* interrupts::init to the idle loop: the interrupt controllers (Pic), the *)
(* timer, and the PS/2 controller that keyboard::init probes and           *)
(* configures by polling while its line is already unmasked and only the   *)
(* CPU's interrupt flag holds IRQ1 back.                                   *)
(*                                                                         *)
(* The PS/2 controller and the keyboard are external.  The controller      *)
(* holds one byte for the CPU (obf), queues the answers to commands, and   *)
(* accepts every command within the poll limit; an answer may come after   *)
(* read_response has given up.  A keystroke may come at any moment the     *)
(* port is enabled.                                                        *)
(***************************************************************************)
EXTENDS Pic

CONSTANTS
    Hardware,       \* the PS/2 hardware the machine may have
    FirmwareBytes,  \* command bytes the firmware may leave
    MAX_KEYS,       \* keystrokes
    MAX_FAULTS,     \* late answers, bytes received with an error flag and
                    \* spurious interrupts, together
    MAX_TICKS       \* where the model stops counting ticks

ASSUME DevicesAssumption ==
    /\ {MAX_KEYS, MAX_FAULTS} \subseteq Nat
    /\ MAX_TICKS \in Nat \ {0, 1}
    /\ Hardware \subseteq [bus : {"ones", "zeros", "ps2"}, keyboard : BOOLEAN, takes_set_1 : BOOLEAN]
    /\ FirmwareBytes \subseteq SUBSET {"IRQ1", "TRANSLATE"}

VARIABLES
    pc,             \* where the boot program is
    start,          \* the tick count test_timer_interrupt starts from
    ENABLED_PIT, TICKS,
    hw, firmware,   \* this machine, and the command byte it was started with
    obf, answers, command_byte, set,
    cmd_byte, port_ok, acks,
    presence, saved_byte,
    ring,           \* what the interrupt handler pushed
    keys, noise, faults, late, stray, typed_over

probe == <<cmd_byte, port_ok, acks, presence, saved_byte>>
ps2 == <<obf, answers, command_byte, set, hw, firmware>>
clock == <<start, ENABLED_PIT, TICKS>>
history == <<keys, noise, faults, late, stray, typed_over>>
vars == <<picVars, pc, clock, ps2, probe, ring, history>>

NoByte == [what |-> "none", bits |-> {}, from |-> "controller", flag |-> "ok", n |-> 0]
byte(what, bits, from) == [NoByte EXCEPT !.what = what, !.bits = bits, !.from = from]

\* Three bits of the command byte matter: 0 (IRQ1), 4 (DISABLE, which the
\* commands AD and AE set and clear) and 6 (TRANSLATE).  Each byte carries
\* its own, for it may be read where the command byte is expected.
SELF_TEST_OK == byte("55", {"IRQ1", "DISABLE", "TRANSLATE"}, "controller")
PORT_OK      == byte("00", {}, "controller")
PORT_BAD     == byte("01", {"IRQ1"}, "controller")
ACK          == byte("FA", {"DISABLE", "TRANSLATE"}, "device")
RESEND       == byte("FE", {"DISABLE", "TRANSLATE"}, "device")
key(n, flag) == [byte("key", {}, "device") EXCEPT !.n = n, !.flag = flag]

\* The boot program.  A step that is a PS/2 command is named by its code.
Program == <<"remap", "pit_init", "unmask_timer", "unmask_keyboard",
             "flush", "AA", "self_test", "AD", "flush", "20", "read_command_byte",
             "AB", "port_test", "60_new", "F0", "ack", "01", "ack2",
             "60_translate", "AE", "flush", "finish", "rearm",
             "timer_test", "timer_wait", "enable", "idle">>
At(step) == Program[pc] = step
goto(step) == pc' = CHOOSE i \in 1..Len(Program) : Program[i] = step
next == pc' = pc + 1

disturbances == late + faults + noise
port_on == "DISABLE" \notin command_byte

\* The boot program runs when no handler does.
running == frames = << >>

Init ==
    /\ PicInit
    /\ pc = 1 /\ start = 0
    /\ ENABLED_PIT = FALSE /\ TICKS = 0
    /\ hw \in Hardware /\ firmware \in FirmwareBytes
    /\ obf \in IF hw.bus = "ps2" THEN {NoByte, ACK} ELSE {NoByte}
    /\ answers = << >> /\ command_byte = firmware /\ set = 2
    /\ cmd_byte = {} /\ port_ok = FALSE /\ acks = << >>
    /\ presence = "Unknown" /\ saved_byte = {}
    /\ ring = << >>
    /\ keys = 0 /\ noise = 0 /\ faults = 0 /\ late = 0 /\ stray = FALSE /\ typed_over = FALSE

-----------------------------------------------------------------------------
(* The hardware around the CPU.                                            *)

\* A byte for the CPU raises IRQ1 when the command byte says so.
fill(b) ==
    /\ obf' = b
    /\ irr' = IF "IRQ1" \in command_byte THEN irr \cup {KEYBOARD} ELSE irr

answer ==
    /\ obf = NoByte /\ answers # << >>
    /\ fill(Head(answers))
    /\ answers' = Tail(answers)
    /\ UNCHANGED <<isr, imr, base, MASKS, intr, frames, pc, clock, command_byte, set, hw,
                   firmware, probe, ring, history>>

keystroke ==
    /\ hw.bus = "ps2" /\ hw.keyboard /\ port_on
    /\ obf = NoByte /\ answers = << >> /\ keys < MAX_KEYS
    /\ \E flag \in {"ok", "timeout", "parity"} :
          /\ flag # "ok" => disturbances < MAX_FAULTS
          /\ fill(key(keys + 1, flag))
          /\ faults' = IF flag = "ok" THEN faults ELSE faults + 1
    /\ keys' = keys + 1
    /\ UNCHANGED <<isr, imr, base, MASKS, intr, frames, pc, clock, answers, command_byte, set,
                   hw, firmware, probe, ring, noise, late, stray, typed_over>>

\* Edges of the timer, and of a line nobody handles.  One on a masked line
\* has no effect before the line is unmasked, and comes then.
edge(n) ==
    /\ n \notin irr \cup imr
    /\ irr' = irr \cup {n}
    /\ UNCHANGED <<isr, imr, base, MASKS, intr, frames, pc, clock, ps2, probe, ring, history>>

\* Reading the data port empties the buffer and drops the line.  An edge
\* that was latched and not delivered may or may not outlive its line.
take ==
    /\ obf' = NoByte
    /\ irr' \in {irr, irr \ {KEYBOARD}}

deliver_irq(n) ==
    /\ deliver(n)
    /\ UNCHANGED <<pc, clock, ps2, probe, ring, history>>

spurious(chip) ==
    /\ disturbances < MAX_FAULTS /\ noise' = noise + 1
    /\ glitch(chip)
    /\ UNCHANGED <<pc, clock, ps2, probe, ring, keys, faults, late, stray, typed_over>>

\* The driver bug on_irq_unexpected is written for: a line unmasked with no
\* handler behind it.
stray_unmask ==
    /\ At("idle") /\ running
    /\ ~stray /\ stray' = TRUE
    /\ unmask(8)
    /\ UNCHANGED <<pc, clock, ps2, probe, ring, keys, noise, faults, late, typed_over>>

-----------------------------------------------------------------------------
(* The interrupt handlers.  A body, then the acknowledgement and the       *)
(* return, which are not interrupted either: the gate cleared the flag.    *)

Top == frames[Len(frames)]
in_handler(v, step) == frames # << >> /\ Top.vector = v /\ Top.pc = step
to_step(step) == frames' = [frames EXCEPT ![Len(frames)].pc = step]

iret(v) ==
    /\ isr' = in_service_after(v)
    /\ frames' = SubSeq(frames, 1, Len(frames) - 1)
    /\ intr' = TRUE

tick_count == IF ENABLED_PIT /\ TICKS < MAX_TICKS THEN TICKS + 1 ELSE TICKS

on_irq_timer ==
    /\ in_handler(vector_for_irq(TIMER), "body")
    /\ TICKS' = tick_count
    /\ iret(vector_for_irq(TIMER))
    /\ UNCHANGED <<irr, imr, base, MASKS, pc, start, ENABLED_PIT, ps2, probe, ring, history>>

on_parity_unread == UNCHANGED <<obf, irr, ring>>
on_parity == take /\ UNCHANGED ring

\* The interrupt of a byte that init has polled away.
on_empty_reads == ring' = Append(ring, ACK) /\ UNCHANGED <<obf, irr>>
on_empty == UNCHANGED <<obf, irr, ring>>

\* keyboard::interrupt_handler.  Not reading a byte that is there would leave
\* the line high, with no further edge.
interrupt_handler ==
    /\ in_handler(vector_for_irq(KEYBOARD), "body")
    /\ \/ obf.flag = "timeout" /\ to_step("flush") /\ UNCHANGED <<obf, irr, ring>>
       \/ obf.flag = "parity" /\ on_parity /\ to_step("eoi")
       \/ obf = NoByte /\ on_empty /\ to_step("eoi")
       \/ /\ obf # NoByte /\ obf.flag = "ok"
          /\ take
          /\ ring' = IF obf.from = "device" THEN Append(ring, obf) ELSE ring
          /\ to_step("eoi")
    /\ UNCHANGED <<isr, imr, base, MASKS, intr, pc, clock, answers, command_byte, set, hw,
                   firmware, probe, history>>

flush_in_handler ==
    /\ in_handler(vector_for_irq(KEYBOARD), "flush")
    /\ IF obf = NoByte THEN to_step("eoi") /\ UNCHANGED <<obf, irr>>
                       ELSE take /\ UNCHANGED frames
    /\ UNCHANGED <<isr, imr, base, MASKS, intr, pc, clock, answers, command_byte, set, hw,
                   firmware, probe, ring, history>>

on_irq_keyboard ==
    /\ in_handler(vector_for_irq(KEYBOARD), "eoi")
    /\ iret(vector_for_irq(KEYBOARD))
    /\ UNCHANGED <<irr, imr, base, MASKS, pc, clock, ps2, probe, ring, history>>

\* It does not know its vector, and acknowledges as for a line of the slave.
assumed_vector_master == vector_for_irq(7)
assumed_vector == vector_for_irq(8)

on_irq_unexpected ==
    /\ \E n \in Irqs \ {TIMER, KEYBOARD, CASCADE} : in_handler(vector_for_irq(n), "body")
    /\ mask_all({n \in Irqs : n >= 3})
    /\ iret(assumed_vector)
    /\ UNCHANGED <<irr, base, pc, clock, ps2, probe, ring, history>>

-----------------------------------------------------------------------------
(* interrupts::init from the controllers on, and what follows              *)
(* keyboard::init in kernel_main.                                          *)

boot_remap ==
    /\ At("remap") /\ running
    /\ remap /\ next
    /\ UNCHANGED <<clock, ps2, probe, ring, history>>

pit_init_unarmed ==
    /\ At("pit_init") /\ running /\ next
    /\ UNCHANGED <<picVars, clock, ps2, probe, ring, history>>
pit_init ==
    /\ At("pit_init") /\ running
    /\ ENABLED_PIT' = TRUE /\ next
    /\ UNCHANGED <<picVars, start, TICKS, ps2, probe, ring, history>>

boot_unmask ==
    /\ running /\ next
    /\ \/ At("unmask_timer") /\ unmask(TIMER)
       \/ (At("unmask_keyboard") \/ At("rearm")) /\ unmask(KEYBOARD)
    /\ UNCHANGED <<clock, ps2, probe, ring, history>>

\* Skipped when orin.selftest=off.
timer_test ==
    /\ At("timer_test") /\ running
    /\ \/ start' = TICKS /\ intr' = TRUE /\ next
       \/ goto("enable") /\ UNCHANGED <<start, intr>>
    /\ UNCHANGED <<irr, isr, imr, base, MASKS, frames, ENABLED_PIT, TICKS, ps2, probe, ring,
                   history>>

timer_wait ==
    /\ At("timer_wait") /\ running
    /\ TICKS >= start + 2
    /\ intr' = FALSE /\ next
    /\ UNCHANGED <<irr, isr, imr, base, MASKS, frames, clock, ps2, probe, ring, history>>

idle ==
    /\ At("enable") /\ running
    /\ intr' = TRUE /\ next
    /\ UNCHANGED <<irr, isr, imr, base, MASKS, frames, clock, ps2, probe, ring, history>>

-----------------------------------------------------------------------------
(* keyboard::init.                                                         *)

drained_at_once == TRUE
drained == obf = NoByte

\* A floating bus that reads as ones has a full buffer for ever: the loop of
\* flush_output gives up, and so does wait_input_empty.
flush_output ==
    /\ At("flush") /\ running
    /\ IF drained THEN next /\ UNCHANGED <<obf, irr>>
                  ELSE take /\ UNCHANGED pc
    /\ UNCHANGED <<isr, imr, base, MASKS, intr, frames, clock, answers, command_byte, set, hw,
                   firmware, probe, ring, history>>

\* What the controller and the keyboard do with each command.
set_command_byte(bits) ==
    /\ command_byte' = bits
    /\ irr' = IF obf # NoByte /\ "IRQ1" \in bits \ command_byte
              THEN irr \cup {KEYBOARD} ELSE irr
    /\ UNCHANGED <<answers, set>>

reply(b) ==
    /\ answers' = Append(answers, b)
    /\ UNCHANGED <<irr, command_byte, set>>

new_byte_translated == cmd_byte \cup {"IRQ1"}
new_byte == (cmd_byte \cup {"IRQ1"}) \ {"TRANSLATE"}
accepted == \A a \in Range(acks) : a = "FA"

device_reply == IF hw.takes_set_1 THEN ACK ELSE RESEND

obey(c) ==
    \/ c = "AA" /\ reply(SELF_TEST_OK)
    \/ c = "AD" /\ set_command_byte(command_byte \cup {"DISABLE"})
    \/ c = "AE" /\ set_command_byte(command_byte \ {"DISABLE"})
    \/ c = "20" /\ reply(byte("command_byte", command_byte, "controller"))
    \/ c = "AB" /\ reply(IF hw.keyboard THEN PORT_OK ELSE PORT_BAD)
    \/ c = "60_new" /\ set_command_byte(new_byte)
    \/ c = "60_translate" /\ set_command_byte(IF accepted THEN command_byte
                                               ELSE new_byte \cup {"TRANSLATE"})
    \/ c \in {"F0", "01"} /\ ~hw.keyboard /\ UNCHANGED <<irr, answers, command_byte, set>>
    \/ /\ c \in {"F0", "01"} /\ hw.keyboard
       /\ answers' = Append(answers, device_reply)
       /\ set' = IF c = "01" /\ hw.takes_set_1 THEN 1 ELSE set
       /\ UNCHANGED <<irr, command_byte>>

Commands == {"AA", "AD", "AE", "20", "AB", "60_new", "60_translate", "F0", "01"}

\* The locals of init are gone when it returns.
return_locals == cmd_byte' = {} /\ port_ok' = FALSE /\ acks' = << >>

give_up == presence' = "Absent" /\ goto("rearm") /\ return_locals

command ==
    /\ Program[pc] \in Commands /\ running
    /\ \/ /\ hw.bus = "ones" /\ At("AA")
          /\ give_up
          /\ UNCHANGED <<irr, answers, command_byte, set>>
       \/ /\ hw.bus = "zeros"
          /\ next
          /\ UNCHANGED <<irr, answers, command_byte, set, cmd_byte, port_ok, acks, presence>>
       \/ /\ hw.bus = "ps2"
          /\ obey(Program[pc])
          /\ next
          /\ UNCHANGED <<cmd_byte, port_ok, acks, presence>>
    /\ UNCHANGED <<isr, imr, base, MASKS, intr, frames, clock, obf, hw, firmware, saved_byte,
                   ring, history>>

\* What init makes of the byte it read, or of none.
conclude(b) ==
    \/ /\ At("self_test")
       /\ IF b.what = "55" THEN next /\ UNCHANGED <<cmd_byte, port_ok, acks, presence>>
                           ELSE give_up
    \/ /\ At("read_command_byte")
       /\ cmd_byte' = b.bits /\ next
       /\ UNCHANGED <<port_ok, acks, presence>>
    \/ /\ At("port_test")
       /\ port_ok' = (b.what = "00") /\ next
       /\ UNCHANGED <<cmd_byte, acks, presence>>
    \/ /\ At("ack") \/ At("ack2")
       /\ acks' = Append(acks, b.what) /\ next
       /\ UNCHANGED <<cmd_byte, port_ok, presence>>

\* The poll limit runs out when no answer is on its way, or, as a fault,
\* before an answer that is.
no_answer ==
    /\ obf = NoByte
    /\ answers # << >> => disturbances < MAX_FAULTS
    /\ late' = IF answers # << >> THEN late + 1 ELSE late
    /\ UNCHANGED <<obf, irr, typed_over>>

read_response ==
    /\ running
    /\ \/ no_answer /\ conclude(NoByte)
       \/ /\ obf # NoByte /\ take
          /\ conclude(obf)
          /\ typed_over' = (typed_over \/ (At("self_test") /\ obf.what = "key"))
          /\ UNCHANGED late
    /\ UNCHANGED <<isr, imr, base, MASKS, intr, frames, clock, answers, command_byte, set, hw,
                   firmware, saved_byte, ring, keys, noise, faults, stray>>

finish ==
    /\ At("finish") /\ running
    /\ presence' = IF port_ok THEN "Keyboard" ELSE "Controller"
    /\ saved_byte' = cmd_byte
    /\ return_locals
    /\ next
    /\ UNCHANGED <<picVars, clock, ps2, ring, history>>

-----------------------------------------------------------------------------
boot_step == \/ boot_remap \/ pit_init \/ boot_unmask \/ timer_test \/ timer_wait \/ idle
             \/ flush_output \/ command \/ read_response \/ finish

handler_step == \/ on_irq_timer \/ interrupt_handler \/ flush_in_handler
                \/ on_irq_keyboard \/ on_irq_unexpected

Next ==
    \/ boot_step
    \/ handler_step
    \/ answer
    \/ keystroke
    \/ edge(TIMER)
    \/ edge(8)
    \/ \E n \in Irqs : deliver_irq(n)
    \/ spurious(Master)
    \/ spurious(Slave)
    \/ stray_unmask

\* The CPU makes progress, in the boot program too: ticks are far apart and
\* handlers short.  The timer runs, and the controller answers.  An
\* interrupt that can be taken again and again is taken.
Spec ==
    /\ Init /\ [][Next]_vars
    /\ SF_vars(boot_step) /\ WF_vars(handler_step)
    /\ WF_vars(answer) /\ WF_vars(edge(TIMER))
    /\ SF_vars(deliver_irq(TIMER)) /\ SF_vars(deliver_irq(KEYBOARD))

-----------------------------------------------------------------------------
(* Properties.                                                             *)

\* The non-specific end-of-interrupt commands never acknowledge another
\* interrupt than the one handled, and none stays in service after its
\* handler: on_irq_unexpected acknowledges both controllers without knowing
\* the vector, spurious interrupts included, and that is harmless only
\* because handlers do not nest.
InServiceIsBeingServed ==
    LET serving == {irq_for_vector(frames[i].vector) : i \in DOMAIN frames}
        lines == serving \cup (IF serving \cap Slave # {} THEN {CASCADE} ELSE {})
    IN  isr \subseteq lines

\* What could make init misjudge the hardware: an answer later than the poll
\* limit, or a key struck between the first flush and the self-test answer.
Disturbed == late > 0 \/ typed_over

Truth == IF hw.bus # "ps2" THEN "Absent"
         ELSE IF hw.keyboard THEN "Keyboard" ELSE "Controller"

\* The verdict of keyboard::init is the hardware's, whatever bytes the
\* firmware left and whenever keys are struck, those two cases apart.
VerdictIsRight ==
    presence # "Unknown" /\ ~Disturbed => presence = Truth

\* Once init has found a keyboard, scancodes come through as set 1: the port
\* is enabled, IRQ1 is on, and the controller translates exactly when the
\* keyboard still speaks set 2.
ScancodesAreSet1 ==
    presence = "Keyboard" /\ ~Disturbed =>
        /\ port_on /\ "IRQ1" \in command_byte
        /\ (set = 2) <=> ("TRANSLATE" \in command_byte)

\* The ring receives keystrokes, in the order they were struck and each at
\* most once.  Answers to commands stay out of it although IRQ1 was latched
\* for them during the polled exchange, unless one came after init gave up.
RingHoldsKeystrokes ==
    /\ late = 0 => \A i \in DOMAIN ring : ring[i].what = "key"
    /\ \A i, j \in DOMAIN ring :
          i < j /\ ring[i].what = "key" /\ ring[j].what = "key" => ring[i].n < ring[j].n

\* The bring-up comes to the idle loop whatever the hardware: every poll is
\* bounded, and the timer test sees its two ticks.
ReachesIdle == <>At("idle")

\* A byte from the keyboard never stays in the controller once the idle loop
\* runs, where it would hold the line high with no new edge and silence the
\* keyboard: edges latched during the polled exchange, spurious interrupts,
\* error flags and a stray line do not lose an edge.  Assumes the timer
\* leaves the CPU time between ticks, and a command byte with IRQ1 on.
NoByteIsStranded ==
    []<>(TIMER \notin irr /\ intr) =>
        ((At("idle") /\ obf # NoByte /\ ~Disturbed) ~> (obf = NoByte))

=============================================================================

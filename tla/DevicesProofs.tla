--------------------------- MODULE DevicesProofs ---------------------------
(***************************************************************************)
(* The proofs about interrupts, the keyboard controller and the ring, for  *)
(* every set of interrupt lines, every machine and any number of keys,     *)
(* faults and spurious interrupts: an end-of-interrupt command never       *)
(* acknowledges another interrupt than the one handled; the verdict of     *)
(* keyboard::init is right; the scancodes come as set 1; only keystrokes   *)
(* reach the ring.                                                         *)
(***************************************************************************)
EXTENDS Devices, SequenceTheorems, WellFoundedInduction, TLAPS

-----------------------------------------------------------------------------
(* Minimum and maximum of a set of lines. *)

\* A nonempty set of lines has a least one, and Min is it.
LEMMA MinIsMember ==
  ASSUME NEW S \in SUBSET Nat, S # {}
  PROVE  Min(S) \in S
<1>1. PICK m \in S : \A n \in S : ~ (<<n, m>> \in OpToRel(<, Nat))
  BY Zenon, NatLessThanWellFounded, WFMin
<1>2. \A n \in S : ~ (n < m)
  BY Zenon, <1>1 DEF OpToRel
<1>3. \A n \in S : m <= n
  BY <1>2
<1>. QED  BY Zenon, <1>3 DEF Min

\* The least element of a singleton.
LEMMA MinOfOne ==
  ASSUME NEW n \in Nat
  PROVE  Min({n}) = n
BY DEF Min

\* The lowest-priority lines of the two controllers, which answer a spurious
\* interrupt.
LEMMA MaxOfChips == Max(Master) \in Master /\ Max(Slave) \in Slave
<1>1. 7 \in Master /\ \A n \in Master : n <= 7 /\ n \in Nat
  BY PicAssumption DEF Master
<1>2. 15 \in Slave /\ \A n \in Slave : n <= 15 /\ n \in Nat
  BY PicAssumption DEF Slave, Master
<1>3. \A n \in Master : 7 >= n
  BY Zenon, <1>1
<1>4. \A n \in Slave : 15 >= n
  BY Zenon, <1>2
<1>. QED  BY Zenon, <1>1, <1>2, <1>3, <1>4 DEF Max

-----------------------------------------------------------------------------
(* The inductive invariant. *)

\* The vectors after the remapping.
Moved == [master |-> MASTER_OFFSET, slave |-> SLAVE_OFFSET]

\* The steps of a handler.
Steps == {"body", "flush", "eoi"}

\* What may be in service while the handler of line n runs.
Lines(n) == {n} \cup (IF n \in Slave THEN {CASCADE} ELSE {})

\* At most one handler runs, and only its line is in service.
Serving ==
  \/ frames = << >> /\ isr = {}
  \/ \E n \in Irqs, s \in Steps :
        /\ frames = <<[vector |-> vector_for_irq(n), pc |-> s]>>
        /\ isr \subseteq Lines(n)

\* Interrupts come only after the vectors have moved, and not into a handler.
ServiceInv ==
  /\ pc \in Nat \ {0}
  /\ intr => frames = << >>
  /\ pc = 1 => ~ intr /\ frames = << >>
  /\ pc # 1 => base = Moved
  /\ Serving

\* At reset nothing is in service and the interrupt flag is off.
LEMMA InitEstablishesServiceInv == Init => ServiceInv
BY DEF Init, PicInit, ServiceInv, Serving

\* The first step of the boot program is to move the vectors.
LEMMA VectorsMoveFirst ==
  ASSUME pc = 1, NEW step, At(step)
  PROVE  step = "remap"
<1>1. Program[1] = "remap"
  BY Zenon DEF Program
<1>. QED  BY Zenon, <1>1 DEF At

\* No jump leads back to it.
LEMMA JumpsForward ==
  ASSUME NEW step \in {"enable", "rearm"}, goto(step)
  PROVE  pc' \in Nat \ {0, 1}
<1>1. /\ Len(Program) = 27 /\ Program[1] = "remap"
      /\ Program[23] = "rearm" /\ Program[26] = "enable"
  BY Zenon DEF Program
<1>2. \E i \in 1 .. Len(Program) : Program[i] = step
  BY <1>1
<1>3. pc' \in 1 .. Len(Program) /\ Program[pc'] = step
  BY Zenon, <1>2 DEF goto
<1>4. pc' # 1
  BY Zenon, <1>1, <1>3
<1>. QED  BY <1>1, <1>3, <1>4

\* Steps that leave the CPU and the in-service registers alone.
LEMMA QuietStep ==
  ASSUME ServiceInv, UNCHANGED <<isr, frames, intr, base>>,
         pc' = pc \/ (pc # 1 /\ pc' \in Nat \ {0, 1})
  PROVE  ServiceInv'
BY Zenon DEF ServiceInv, Serving

\* The vectors of the two controllers do not overlap: each gives its line back.
LEMMA VectorsAreDistinct ==
  ASSUME NEW n \in Irqs
  PROVE  /\ irq_for_vector(vector_for_irq(n)) = n
         /\ vector_for_irq(n) \in Nat
         /\ base = Moved => vector_of(n) = vector_for_irq(n)
BY PicAssumption
DEF vector_for_irq, irq_for_vector, vector_of, Moved, MASTER_OFFSET, SLAVE_OFFSET

\* The end-of-interrupt for one controller clears its only bit in service.
LEMMA EoiClears ==
  ASSUME NEW chip \in {Master, Slave}, NEW serving \in SUBSET Irqs, NEW n \in Nat,
         chip \cap serving \subseteq {n}
  PROVE  eoi(chip, serving) = serving \ chip
<1>1. CASE chip \cap serving = {}
  BY Zenon, <1>1 DEF eoi
<1>2. CASE chip \cap serving = {n}
  <2>1. Min(chip \cap serving) = n
    BY Zenon, <1>2, MinOfOne
  <2>. QED  BY Zenon, <1>2, <2>1 DEF eoi
<1>. QED  BY Zenon, <1>1, <1>2

\* An acknowledgement that reaches every controller the handled line went
\* through leaves nothing in service.
LEMMA AcknowledgeClears ==
  ASSUME NEW n \in Irqs, isr \subseteq Lines(n), NEW m \in Irqs, n \in Slave => m >= 8
  PROVE  in_service_after(vector_for_irq(m)) = {}
<1>1. /\ n \in Nat /\ m \in Nat /\ CASCADE \in Master /\ CASCADE \in Nat
      /\ Master \subseteq Irqs /\ Slave = Irqs \ Master
  BY PicAssumption DEF Master, Slave, CASCADE
<1>2. isr \in SUBSET Irqs
  BY Zenon, <1>1 DEF Lines
<1>3. in_service_after(vector_for_irq(m)) =
        eoi(Master, IF m >= 8 THEN eoi(Slave, isr) ELSE isr)
  BY <1>1, VectorsAreDistinct DEF in_service_after
<1>4. CASE m >= 8
  <2>1. eoi(Slave, isr) = isr \ Slave
    <3>1. Slave \cap isr \subseteq {n}
      BY Zenon, <1>1 DEF Lines
    <3>. QED  BY Zenon, <1>1, <1>2, <3>1, EoiClears
  <2>2. eoi(Master, isr \ Slave) = (isr \ Slave) \ Master
    <3>1. Master \cap (isr \ Slave) \subseteq {IF n \in Slave THEN CASCADE ELSE n}
      BY Zenon, <1>1 DEF Lines
    <3>2. (IF n \in Slave THEN CASCADE ELSE n) \in Nat
      BY Zenon, <1>1
    <3>. QED  BY Zenon, <1>2, <3>1, <3>2, EoiClears
  <2>. QED  BY Zenon, <1>1, <1>2, <1>3, <1>4, <2>1, <2>2
<1>5. CASE ~ (m >= 8)
  <2>1. n \in Master /\ isr \subseteq {n}
    BY Zenon, <1>1, <1>5 DEF Lines
  <2>2. eoi(Master, isr) = isr \ Master
    BY Zenon, <1>1, <1>2, <2>1, EoiClears
  <2>. QED  BY Zenon, <1>3, <1>5, <2>1, <2>2
<1>. QED  BY Zenon, <1>4, <1>5

\* In a handler, the frame is the only one and tells the line.
LEMMA HandlerFrame ==
  ASSUME ServiceInv, NEW m \in Irqs, NEW step, in_handler(vector_for_irq(m), step)
  PROVE  /\ frames = <<[vector |-> vector_for_irq(m), pc |-> step]>>
         /\ isr \subseteq Lines(m)
         /\ ~ intr /\ pc # 1
<1>1. frames # << >> /\ Top.vector = vector_for_irq(m) /\ Top.pc = step
  BY Zenon DEF in_handler
<1>2. PICK n \in Irqs, s \in Steps :
        /\ frames = <<[vector |-> vector_for_irq(n), pc |-> s]>>
        /\ isr \subseteq Lines(n)
  BY Zenon, <1>1 DEF ServiceInv, Serving
<1>3. vector_for_irq(n) = vector_for_irq(m) /\ s = step
  BY Zenon, <1>1, <1>2 DEF Top
<1>4. n = m
  BY Zenon, <1>3, VectorsAreDistinct
<1>. QED  BY Zenon, <1>1, <1>2, <1>3, <1>4 DEF ServiceInv

\* The end of a handler, whatever vector it acknowledges.
LEMMA IretStep ==
  ASSUME ServiceInv, NEW n \in Irqs, NEW step, in_handler(vector_for_irq(n), step),
         NEW m \in Irqs, n \in Slave => m >= 8, iret(vector_for_irq(m)), UNCHANGED <<base, pc>>
  PROVE  ServiceInv'
<1>1. /\ frames = <<[vector |-> vector_for_irq(n), pc |-> step]>>
      /\ isr \subseteq Lines(n) /\ pc # 1
  BY Zenon, HandlerFrame
<1>2. isr' = {}
  BY Zenon, <1>1, AcknowledgeClears DEF iret
<1>3. frames' = << >>
  BY <1>1 DEF iret
<1>. QED  BY Zenon, <1>1, <1>2, <1>3 DEF ServiceInv, Serving

\* A handler goes on to its next part.
LEMMA HandlerGoesOn ==
  ASSUME ServiceInv, NEW n \in Irqs, NEW step, in_handler(vector_for_irq(n), step),
         NEW s \in Steps, to_step(s) \/ UNCHANGED frames, UNCHANGED <<isr, intr, base, pc>>
  PROVE  ServiceInv'
<1>1. /\ frames = <<[vector |-> vector_for_irq(n), pc |-> step]>>
      /\ isr \subseteq Lines(n) /\ ~ intr /\ pc # 1
  BY Zenon, HandlerFrame
<1>2. CASE to_step(s)
  <2>1. frames' = <<[vector |-> vector_for_irq(n), pc |-> s]>>
    BY <1>1, <1>2 DEF to_step
  <2>. QED  BY Zenon, <1>1, <2>1 DEF ServiceInv, Serving, Lines
<1>3. CASE UNCHANGED frames
  BY Zenon, <1>3, QuietStep
<1>. QED  BY Zenon, <1>2, <1>3

\* A gate is entered with nothing in service and with the vectors moved.
LEMMA EnterStep ==
  ASSUME ServiceInv, intr, NEW n \in Irqs, enter(vector_of(n)), isr' \subseteq isr \cup Lines(n),
         UNCHANGED <<base, pc>>
  PROVE  ServiceInv'
<1>1. frames = << >> /\ isr = {} /\ pc # 1 /\ base = Moved
  BY DEF ServiceInv, Serving
<1>2. frames' = <<[vector |-> vector_for_irq(n), pc |-> "body"]>> /\ ~ intr'
  BY <1>1, VectorsAreDistinct DEF enter
<1>3. isr' \subseteq Lines(n)
  BY Zenon, <1>1
<1>4. Serving'
  BY Zenon, <1>2, <1>3 DEF Serving, Steps, Lines
<1>. QED  BY Zenon, <1>1, <1>2, <1>4 DEF ServiceInv

\* deliver takes the most urgent line; through the slave, the cascade with it.
LEMMA DeliverStep ==
  ASSUME ServiceInv, NEW n \in Irqs, deliver_irq(n)
  PROVE  ServiceInv'
<1> DEFINE top == ready(Master, requests_of_master)
           own == ready(Slave, irr)
<1>1. /\ intr /\ enter(vector_of(n)) /\ UNCHANGED <<base, pc>>
      /\ n = IF Min(top) = CASCADE /\ own # {} THEN Min(own) ELSE Min(top)
      /\ isr' = isr \cup {n, Min(top)}
  BY Zenon DEF deliver_irq, deliver
<1>2. own # {} => Min(own) \in Slave
  <2>1. own \subseteq Slave
    BY Zenon DEF ready
  <2>2. Irqs \subseteq Nat
    <3>1. \A n0 \in Irqs : n0 \in 0..15
      BY Zenon, PicAssumption
    <3>. QED  BY <3>1
  <2>3. Slave \subseteq Nat
    BY Zenon, <2>2 DEF Slave
  <2> HIDE DEF own
  <2>. QED  BY Zenon, <2>1, <2>3, MinIsMember
<1> HIDE DEF top, own
<1>3. isr' \subseteq isr \cup Lines(n)
  BY Zenon, <1>1, <1>2 DEF Lines
<1>. QED  BY Zenon, <1>1, <1>3, EnterStep

\* A spurious interrupt comes as the last line of a controller, with at most
\* the cascade in service.
LEMMA SpuriousStep ==
  ASSUME ServiceInv, NEW chip \in {Master, Slave}, spurious(chip)
  PROVE  ServiceInv'
<1>1. /\ intr /\ enter(vector_of(Max(chip))) /\ UNCHANGED <<base, pc>>
      /\ isr' = IF chip = Slave THEN isr \cup {CASCADE} ELSE isr
  BY Zenon DEF spurious, glitch
<1>2. PICK n \in Irqs : n = Max(chip) /\ (chip = Slave => n \in Slave)
  BY Zenon, MaxOfChips DEF Master, Slave
<1>3. isr' \subseteq isr \cup Lines(n)
  BY Zenon, <1>1, <1>2 DEF Lines
<1>. QED  BY Zenon, <1>1, <1>2, <1>3, EnterStep

\* The interrupt handlers.
LEMMA HandlerSteps ==
  ASSUME ServiceInv, handler_step
  PROVE  ServiceInv'
<1>1. /\ TIMER \in Irqs /\ KEYBOARD \in Irqs /\ 8 \in Irqs
      /\ TIMER \notin Slave /\ KEYBOARD \notin Slave
  BY PicAssumption DEF TIMER, KEYBOARD, Slave, Master
<1>2. CASE on_irq_timer
  BY Zenon, <1>1, <1>2, IretStep DEF on_irq_timer
<1>3. CASE interrupt_handler
  <2>1. /\ in_handler(vector_for_irq(KEYBOARD), "body")
        /\ to_step("flush") \/ to_step("eoi")
        /\ UNCHANGED <<isr, intr, base, pc>>
    BY Zenon, <1>3 DEF interrupt_handler
  <2>. QED  BY Zenon, <1>1, <2>1, HandlerGoesOn DEF Steps
<1>4. CASE flush_in_handler
  <2>1. /\ in_handler(vector_for_irq(KEYBOARD), "flush")
        /\ to_step("eoi") \/ UNCHANGED frames
        /\ UNCHANGED <<isr, intr, base, pc>>
    BY Zenon, <1>4 DEF flush_in_handler
  <2>. QED  BY Zenon, <1>1, <2>1, HandlerGoesOn DEF Steps
<1>5. CASE on_irq_keyboard
  BY Zenon, <1>1, <1>5, IretStep DEF on_irq_keyboard
<1>6. CASE on_irq_unexpected
  <2>1. PICK n \in Irqs : in_handler(vector_for_irq(n), "body")
    BY Zenon, <1>6 DEF on_irq_unexpected
  <2>2. iret(vector_for_irq(8)) /\ UNCHANGED <<base, pc>>
    BY Zenon, <1>6 DEF on_irq_unexpected, assumed_vector
  <2>. QED  BY <1>1, <2>1, <2>2, IretStep
<1>. QED  BY Zenon, <1>2, <1>3, <1>4, <1>5, <1>6 DEF handler_step

\* The boot program.
LEMMA BootSteps ==
  ASSUME ServiceInv, boot_step
  PROVE  ServiceInv'
<1> DEFINE Forward == pc # 1 /\ pc' \in Nat \ {0, 1}
<1>1. ASSUME NEW step, At(step), step # "remap", next \/ goto("enable") \/ goto("rearm")
      PROVE  Forward
  <2>1. pc # 1
    BY Zenon, <1>1, VectorsMoveFirst
  <2>2. next => pc' \in Nat \ {0, 1}
    BY <2>1 DEF next, ServiceInv
  <2>. QED  BY Zenon, <1>1, <2>1, <2>2, JumpsForward
<1>2. CASE boot_remap
  <2>1. /\ pc' = pc + 1 /\ frames = << >> /\ UNCHANGED <<intr, frames>>
        /\ base' = Moved /\ isr' = {}
    BY Zenon, <1>2 DEF boot_remap, remap, next, running, Moved
  <2>. QED  BY <2>1 DEF ServiceInv, Serving
<1>3. CASE pit_init
  BY Zenon, <1>1, <1>3, QuietStep DEF pit_init, picVars
<1>4. CASE boot_unmask
  BY Zenon, <1>1, <1>4, QuietStep DEF boot_unmask, unmask
<1>5. ASSUME timer_test \/ timer_wait \/ idle PROVE ServiceInv'
  <2>1. Forward
    BY Zenon, <1>1, <1>5 DEF timer_test, timer_wait, idle
  <2>2. frames = << >> /\ UNCHANGED <<frames, isr, base>>
    BY Zenon, <1>5 DEF timer_test, timer_wait, idle, running
  <2>. QED  BY Zenon, <2>1, <2>2 DEF ServiceInv, Serving
<1>6. CASE flush_output
  <2>1. UNCHANGED pc \/ Forward
    BY Zenon, <1>1, <1>6 DEF flush_output
  <2>. QED  BY Zenon, <1>6, <2>1, QuietStep DEF flush_output
<1>7. CASE command
  <2>1. At(Program[pc]) /\ Program[pc] # "remap"
    BY Zenon, <1>7 DEF command, At, Commands
  <2>2. next \/ goto("rearm")
    BY Zenon, <1>7 DEF command, give_up
  <2>3. Forward
    BY Zenon, <1>1, <2>1, <2>2
  <2>. QED  BY Zenon, <1>7, <2>3, QuietStep DEF command
<1>8. CASE read_response
  <2>1. PICK b : conclude(b)
    BY Zenon, <1>8 DEF read_response
  <2>2. Forward
    BY Zenon, <1>1, <2>1 DEF conclude, give_up
  <2>. QED  BY Zenon, <1>8, <2>2, QuietStep DEF read_response
<1>9. CASE finish
  BY Zenon, <1>1, <1>9, QuietStep DEF finish, picVars
<1>. QED  BY SMTT(30), <1>2, <1>3, <1>4, <1>5, <1>6, <1>7, <1>8, <1>9 DEF boot_step

\* Every step keeps the invariant.
LEMMA NextPreservesServiceInv == ServiceInv /\ [Next]_vars => ServiceInv'
<1> SUFFICES ASSUME ServiceInv, [Next]_vars PROVE ServiceInv'
  OBVIOUS
<1>1. CASE answer
  BY Zenon, <1>1, QuietStep DEF answer
<1>2. CASE keystroke
  BY Zenon, <1>2, QuietStep DEF keystroke
<1>3. CASE edge(TIMER) \/ edge(8)
  BY Zenon, <1>3, QuietStep DEF edge
<1>4. CASE stray_unmask
  BY Zenon, <1>4, QuietStep DEF stray_unmask, unmask
<1>5. CASE UNCHANGED vars
  BY Zenon, <1>5, QuietStep DEF vars, picVars
<1>. QED
  BY SMTT(30), <1>1, <1>2, <1>3, <1>4, <1>5,
     BootSteps, HandlerSteps, DeliverStep, SpuriousStep DEF Next

\* Whatever lines the machine has, and however often spurious and stray
\* interrupts strike: only the line being handled is in service, so the
\* end-of-interrupt commands of pic::end_of_interrupt acknowledge no other.
THEOREM OnlyTheHandledLineIsInService == Spec => []InServiceIsBeingServed
<1>1. ServiceInv => InServiceIsBeingServed
  <2> SUFFICES ASSUME ServiceInv PROVE InServiceIsBeingServed
    OBVIOUS
  <2>1. CASE isr = {}
    BY Zenon, <2>1 DEF InServiceIsBeingServed
  <2>2. ASSUME NEW n \in Irqs, NEW s \in Steps,
               frames = <<[vector |-> vector_for_irq(n), pc |-> s]>>, isr \subseteq Lines(n)
        PROVE  InServiceIsBeingServed
    <3>1. DOMAIN frames = {1} /\ frames[1].vector = vector_for_irq(n)
      BY <2>2
    <3>2. {irq_for_vector(frames[i].vector) : i \in DOMAIN frames} = {n}
      BY Zenon, <3>1, VectorsAreDistinct
    <3>. QED  BY Zenon, <2>2, <3>2 DEF InServiceIsBeingServed, Lines
  <2>. QED  BY Zenon, <2>1, <2>2 DEF ServiceInv, Serving
<1>2. ServiceInv /\ [Next]_vars => ServiceInv'
  BY Zenon, NextPreservesServiceInv
<1>. QED  BY <1>1, <1>2, InitEstablishesServiceInv, PTL DEF Spec

-----------------------------------------------------------------------------
(* What is between the controller and the CPU at each step of the boot     *)
(* program, as long as no answer has come later than the poll limit.       *)

\* A keystroke, whatever became of it on the line.
Flags == {"ok", "timeout", "parity"}
IsKey(b) == \E n \in Nat, f \in Flags : b = key(n, f)

\* The bytes on their way: none, a keystroke, or an answer.
Nothing == obf = NoByte /\ answers = << >>
Typed == (obf = NoByte \/ IsKey(obf)) /\ answers = << >>
LeftOver == (obf = NoByte \/ obf = ACK \/ IsKey(obf)) /\ answers = << >>
Coming(b) == (obf = NoByte /\ answers = <<b>>) \/ (obf = b /\ answers = << >>)
ComingOrTyped(b) == Coming(b) \/ (IsKey(obf) /\ answers = <<b>>)
Settled == /\ obf = NoByte \/ obf = SELF_TEST_OK \/ IsKey(obf)
           /\ answers = << >> \/ answers = <<SELF_TEST_OK>>

\* The answers expected.
commandByteRead == byte("command_byte", command_byte, "controller")
portVerdict == IF hw.keyboard THEN PORT_OK ELSE PORT_BAD
Acknowledging == IF hw.keyboard THEN Coming(device_reply) ELSE Nothing

\* The position of a step is its index in Program: 7 is the answer to the
\* self-test, 11 the command byte, 13 the port test, 16 and 18 the keyboard's
\* acknowledgements.  The port is disabled from 9 to 20.
Wires ==
  /\ pc \in 1 .. 5 => LeftOver
  /\ pc \in {6, 8, 9, 21, 22} => Typed
  /\ pc = 7 => ComingOrTyped(SELF_TEST_OK)
  /\ pc = 11 => Coming(commandByteRead)
  /\ pc = 13 => Coming(portVerdict)
  /\ pc \in {16, 18} => Acknowledging
  /\ pc \in {10, 12, 14, 15, 17, 19, 20} => Nothing
  /\ pc \in 23 .. 27 => Settled

\* What init knows and what it has set.
Settings ==
  /\ pc \in 9 .. 20 => ~port_on
  /\ pc \in 21 .. 22 => port_on
  /\ pc \in 12 .. 22 => "DISABLE" \in cmd_byte
  /\ pc \in 14 .. 22 => port_ok = hw.keyboard
  /\ pc \in 15 .. 22 => "IRQ1" \in command_byte
  /\ pc \in 15 .. 19 => "TRANSLATE" \notin command_byte
  /\ pc \in 1 .. 17 => set = 2
  /\ pc \in 18 .. 19 /\ hw.keyboard => set = IF hw.takes_set_1 THEN 1 ELSE 2
  /\ pc \in 1 .. 16 => acks = << >>
  /\ pc \in 17 .. 18 /\ hw.keyboard => acks = <<device_reply.what>>
  /\ pc = 19 /\ hw.keyboard => acks = <<device_reply.what, device_reply.what>>
  /\ pc \in 20 .. 22 /\ hw.keyboard => ((set = 2) <=> ("TRANSLATE" \in command_byte))
  /\ pc \in 23 .. 27 /\ presence = "Keyboard" =>
       /\ port_on /\ "IRQ1" \in command_byte
       /\ (set = 2) <=> ("TRANSLATE" \in command_byte)

\* Interrupts are off until the timer test; without a controller the exchange
\* ends at the self-test.
BringUpInv ==
  /\ pc \in 1 .. 27 /\ hw \in Hardware
  /\ intr \/ frames # << >> => pc \in {25, 27}
  /\ late \in Nat /\ keys \in Nat
  /\ pc \in 1 .. 22 => presence = "Unknown"
  /\ pc \in 23 .. 27 /\ late = 0 /\ ~typed_over => presence = Truth
  /\ hw.bus = "ps2" /\ late = 0 => Wires /\ Settings
  /\ hw.bus # "ps2" => Nothing /\ pc \notin 8 .. 22

\* The bytes of the exchange, told apart.
LEMMA Bytes ==
  /\ NoByte.what = "none" /\ NoByte.flag = "ok" /\ NoByte.bits = {}
  /\ SELF_TEST_OK.what = "55" /\ SELF_TEST_OK.from = "controller"
  /\ PORT_OK.what = "00" /\ PORT_BAD.what = "01" /\ ACK.what = "FA" /\ RESEND.what = "FE"
  /\ \A s : /\ byte("command_byte", s, "controller").what = "command_byte"
            /\ byte("command_byte", s, "controller").bits = s
  /\ \A n \in Nat, f \in Flags : /\ key(n, f).what = "key" /\ key(n, f).n = n
                                 /\ key(n, f).flag = f /\ key(n, f).from = "device"
BY Zenon DEF NoByte, SELF_TEST_OK, PORT_OK, PORT_BAD, ACK, RESEND, byte, key

\* The steps of the boot program.
LEMMA ProgramSteps ==
  /\ Len(Program) = 27
  /\ Program[1] = "remap" /\ Program[2] = "pit_init" /\ Program[3] = "unmask_timer"
  /\ Program[4] = "unmask_keyboard" /\ Program[5] = "flush" /\ Program[6] = "AA"
  /\ Program[7] = "self_test" /\ Program[8] = "AD" /\ Program[9] = "flush"
  /\ Program[10] = "20" /\ Program[11] = "read_command_byte" /\ Program[12] = "AB"
  /\ Program[13] = "port_test" /\ Program[14] = "60_new" /\ Program[15] = "F0"
  /\ Program[16] = "ack" /\ Program[17] = "01" /\ Program[18] = "ack2"
  /\ Program[19] = "60_translate" /\ Program[20] = "AE" /\ Program[21] = "flush"
  /\ Program[22] = "finish" /\ Program[23] = "rearm" /\ Program[24] = "timer_test"
  /\ Program[25] = "timer_wait" /\ Program[26] = "enable" /\ Program[27] = "idle"
  /\ \A i \in 1 .. 27 :
       \/ i = 1 \/ i = 2 \/ i = 3 \/ i = 4 \/ i = 5 \/ i = 6 \/ i = 7 \/ i = 8 \/ i = 9
       \/ i = 10 \/ i = 11 \/ i = 12 \/ i = 13 \/ i = 14 \/ i = 15 \/ i = 16 \/ i = 17
       \/ i = 18 \/ i = 19 \/ i = 20 \/ i = 21 \/ i = 22 \/ i = 23 \/ i = 24 \/ i = 25
       \/ i = 26 \/ i = 27
BY DEF Program

\* Where the program is when it is at a step.
LEMMA Positions ==
  ASSUME pc \in 1 .. 27
  PROVE  /\ At("remap") => pc = 1
         /\ At("pit_init") => pc = 2
         /\ At("unmask_timer") => pc = 3
         /\ At("unmask_keyboard") => pc = 4
         /\ At("flush") => pc \in {5, 9, 21}
         /\ At("self_test") => pc = 7
         /\ At("read_command_byte") => pc = 11
         /\ At("port_test") => pc = 13
         /\ At("ack") => pc = 16
         /\ At("ack2") => pc = 18
         /\ At("finish") => pc = 22
         /\ At("rearm") => pc = 23
         /\ At("timer_test") => pc = 24
         /\ At("timer_wait") => pc = 25
         /\ At("enable") => pc = 26
         /\ At("idle") => pc = 27
         /\ Program[pc] \in Commands => pc \in {6, 8, 10, 12, 14, 15, 17, 19, 20}
<1>1. (At("remap") => pc = 1) /\ (At("pit_init") => pc = 2)
  BY Zenon, ProgramSteps DEF At
<1>. QED  BY <1>1, ProgramSteps DEF At, Commands

\* Where the two jumps of the program lead.
LEMMA Jumps == (goto("enable") => pc' = 26) /\ (goto("rearm") => pc' = 23)
<1>1. \A i \in 1 .. 27 : (Program[i] = "rearm" => i = 23) /\ (Program[i] = "enable" => i = 26)
  BY Zenon, ProgramSteps
<1>2. ASSUME NEW step \in {"enable", "rearm"}, goto(step)
      PROVE  pc' \in 1 .. 27 /\ Program[pc'] = step
  <2>1. Len(Program) = 27 /\ Program[23] = "rearm" /\ Program[26] = "enable"
    BY Zenon, ProgramSteps
  <2>2. \E i \in 1 .. Len(Program) : Program[i] = step
    BY <2>1
  <2>3. pc' \in 1 .. Len(Program) /\ Program[pc'] = step
    BY Zenon, <1>2, <2>2 DEF goto
  <2>. QED  BY Zenon, <2>1, <2>3
<1>. QED  BY Zenon, <1>1, <1>2

\* At reset: nothing but a left-over acknowledgement is in the controller.
LEMMA InitEstablishesBringUpInv == Init => BringUpInv
<1> SUFFICES ASSUME Init PROVE BringUpInv
  OBVIOUS
<1>1. /\ pc = 1 /\ hw \in Hardware /\ intr = FALSE /\ frames = << >> /\ late = 0 /\ keys = 0
      /\ presence = "Unknown" /\ answers = << >> /\ set = 2 /\ acks = << >>
      /\ obf = NoByte \/ obf = ACK
      /\ hw.bus # "ps2" => obf = NoByte
  BY Zenon DEF Init, PicInit
<1>2. Wires
  BY <1>1 DEF Wires, LeftOver
<1>3. Settings
  BY <1>1 DEF Settings
<1>. QED  BY <1>1, <1>2, <1>3 DEF BringUpInv, Nothing

\* What is on the wires after a step that leaves the controller alone.
LEMMA WiresAlone ==
  ASSUME UNCHANGED <<obf, answers, command_byte, hw>>
  PROVE  /\ LeftOver' = LeftOver /\ Typed' = Typed /\ Nothing' = Nothing /\ Settled' = Settled
         /\ Coming(commandByteRead)' = Coming(commandByteRead)
         /\ Coming(portVerdict)' = Coming(portVerdict)
         /\ ComingOrTyped(SELF_TEST_OK)' = ComingOrTyped(SELF_TEST_OK)
         /\ Acknowledging' = Acknowledging
<1>1. LeftOver' = LeftOver /\ Typed' = Typed /\ Nothing' = Nothing /\ Settled' = Settled
  BY Zenon DEF LeftOver, Typed, Nothing, Settled
<1>2. Coming(commandByteRead)' = Coming(commandByteRead)
  BY Zenon DEF Coming, commandByteRead
<1>3. Coming(portVerdict)' = Coming(portVerdict)
  BY Zenon DEF Coming, portVerdict
<1>4. ComingOrTyped(SELF_TEST_OK)' = ComingOrTyped(SELF_TEST_OK)
  BY Zenon DEF Coming, ComingOrTyped
<1>5. Acknowledging' = Acknowledging
  BY Zenon DEF Acknowledging, Coming, Nothing, device_reply
<1>. QED  BY Zenon, <1>1, <1>2, <1>3, <1>4, <1>5

\* Steps that leave the keyboard controller and what init knows alone, and do
\* not leave the part of the program before the exchange or after it.
LEMMA ElsewhereStep ==
  ASSUME BringUpInv, UNCHANGED <<obf, answers, command_byte, set, hw, cmd_byte, port_ok, acks,
                                 presence, keys, late, typed_over>>,
         pc' = pc \/ (pc \in 1 .. 4 /\ pc' \in 1 .. 5) \/ (pc \in 23 .. 27 /\ pc' \in 23 .. 27),
         intr' \/ frames' # << >> => pc' \in {25, 27}
  PROVE  BringUpInv'
<1>1. Truth' = Truth /\ Nothing' = Nothing
  BY Zenon DEF Truth, Nothing
<1>2. ASSUME hw.bus = "ps2", late = 0 PROVE Wires'
  <2>1. Wires
    BY Zenon, <1>2 DEF BringUpInv
  <2>2. CASE pc' = pc
    BY <2>1, <2>2, WiresAlone DEF Wires
  <2>3. CASE pc \in 1 .. 4 /\ pc' \in 1 .. 5
    BY <2>1, <2>3, WiresAlone DEF Wires
  <2>4. CASE pc \in 23 .. 27 /\ pc' \in 23 .. 27
    BY <2>1, <2>4, WiresAlone DEF Wires
  <2>. QED  BY Zenon, <2>2, <2>3, <2>4
<1>3. ASSUME hw.bus = "ps2", late = 0 PROVE Settings'
  <2>1. Settings
    BY Zenon, <1>3 DEF BringUpInv
  <2>2. CASE pc' = pc
    BY <2>1, <2>2 DEF Settings, port_on, device_reply
  <2>3. CASE pc \in 1 .. 4 /\ pc' \in 1 .. 5
    BY <2>1, <2>3 DEF Settings
  <2>4. CASE pc \in 23 .. 27 /\ pc' \in 23 .. 27
    BY <2>1, <2>4 DEF Settings, port_on
  <2>. QED  BY Zenon, <2>2, <2>3, <2>4
<1>4. /\ pc \in 1 .. 27 /\ pc' \in 1 .. 27
      /\ pc' >= 23 <=> pc >= 23
      /\ pc' < 8 <=> pc < 8
  <2>1. pc \in 1 .. 27
    BY Zenon DEF BringUpInv
  <2>2. CASE pc' = pc
    BY Zenon, <2>1, <2>2
  <2>3. CASE pc \in 1 .. 4 /\ pc' \in 1 .. 5
    BY <2>3
  <2>4. CASE pc \in 23 .. 27 /\ pc' \in 23 .. 27
    BY <2>4
  <2>. QED  BY Zenon, <2>2, <2>3, <2>4
<1>. QED  BY <1>1, <1>2, <1>3, <1>4 DEF BringUpInv

\* A byte that leaves the output buffer outside the exchange, in a handler or
\* in flush_output.
LEMMA TakenStep ==
  ASSUME BringUpInv, take, pc \in {5, 9, 21} \/ pc \in 23 .. 27,
         UNCHANGED <<answers, command_byte, set, hw, cmd_byte, port_ok, acks,
                     presence, keys, late, typed_over, pc>>,
         intr' \/ frames' # << >> => pc \in {25, 27}
  PROVE  BringUpInv'
<1>1. Truth' = Truth /\ obf' = NoByte
  BY Zenon DEF Truth, take
<1>2. ASSUME hw.bus = "ps2", late = 0 PROVE Wires'
  <2>1. Wires
    BY Zenon, <1>2 DEF BringUpInv
  <2>2. /\ LeftOver => LeftOver'
        /\ Typed => Typed'
        /\ Settled => Settled'
    BY Zenon, <1>1 DEF LeftOver, Typed, Settled
  <2>3. CASE pc = 5
    <3>1. LeftOver' /\ pc' = 5
      BY <2>1, <2>2, <2>3 DEF Wires
    <3>. QED  BY <3>1 DEF Wires
  <2>4. CASE pc = 9 \/ pc = 21
    <3>1. Typed' /\ (pc' = 9 \/ pc' = 21)
      BY Zenon, <2>1, <2>2, <2>4 DEF Wires
    <3>. QED  BY SMTT(30), <3>1 DEF Wires
  <2>5. CASE pc \in 23 .. 27
    <3>1. Settled' /\ pc' \in 23 .. 27
      BY Zenon, <2>1, <2>2, <2>5 DEF Wires
    <3>. QED  BY <3>1 DEF Wires
  <2>. QED  BY Zenon, <2>3, <2>4, <2>5
<1>3. ASSUME hw.bus = "ps2", late = 0 PROVE Settings'
  <2>1. Settings
    BY Zenon, <1>3 DEF BringUpInv
  <2>. QED  BY <2>1 DEF Settings, port_on, device_reply
<1>. QED  BY Zenon, <1>1, <1>2, <1>3 DEF BringUpInv, Nothing

\* The flushes of init: before the self-test, and on either side of the time
\* the port is disabled.
LEMMA FlushStep ==
  ASSUME BringUpInv, flush_output
  PROVE  BringUpInv'
<1>1. pc \in {5, 9, 21} /\ frames = << >> /\ ~ intr
  BY Positions DEF BringUpInv, flush_output, running
<1>2. CASE ~ drained
  <2>1. take /\ UNCHANGED <<answers, command_byte, set, hw, cmd_byte, port_ok, acks,
                            presence, keys, late, typed_over, pc, intr, frames>>
    BY Zenon, <1>2 DEF flush_output, probe, history
  <2>. QED  BY Zenon, <1>1, <2>1, TakenStep
<1>3. CASE drained
  <2>1. /\ obf = NoByte /\ pc' = pc + 1
        /\ UNCHANGED <<obf, answers, command_byte, set, hw, cmd_byte, port_ok, acks,
                       presence, keys, late, typed_over, intr, frames>>
    BY Zenon, <1>3 DEF flush_output, probe, history, drained, next
  <2>2. ASSUME hw.bus = "ps2", late = 0 PROVE Wires' /\ Settings'
    <3>1. Wires /\ Settings
      BY Zenon, <2>2 DEF BringUpInv
    <3>2. Wires'
      <4>1. LeftOver \/ Typed => Nothing' /\ Typed'
        BY Zenon, <2>1 DEF LeftOver, Typed, Nothing
      <4>. QED  BY <1>1, <2>1, <3>1, <4>1 DEF Wires
    <3>3. Settings'
      BY <1>1, <2>1, <3>1 DEF Settings, port_on, device_reply
    <3>. QED  BY Zenon, <3>2, <3>3
  <2>3. pc' \in 1 .. 22
    BY <1>1, <2>1
  <2>. QED  BY <1>1, <2>1, <2>2, <2>3 DEF BringUpInv, Nothing
<1>. QED  BY Zenon, <1>2, <1>3

\* Each command of the exchange, with no answer late so far: what it leaves on
\* the wires and what it sets.
LEMMA ObeyStep ==
  ASSUME pc \in 1 .. 27, Program[pc] \in Commands, hw \in Hardware, Wires, Settings,
         obey(Program[pc]), pc' = pc + 1, UNCHANGED <<obf, hw, cmd_byte, port_ok, acks>>
  PROVE  Wires' /\ Settings'
<1>1. pc \in {6, 8, 10, 12, 14, 15, 17, 19, 20}
  BY Zenon, Positions
<1>2. CASE pc = 6
  <2>1. reply(SELF_TEST_OK) /\ Typed
    <3>1. Program[pc] = "AA"
      BY Zenon, <1>2, ProgramSteps
    <3>. QED  BY Zenon, <1>2, <3>1 DEF obey, Wires
  <2>2. ComingOrTyped(SELF_TEST_OK)'
    BY <2>1 DEF reply, Typed, ComingOrTyped, Coming
  <2>3. Wires'
    BY <1>2, <2>2 DEF Wires
  <2>. QED  BY <1>2, <2>1, <2>3 DEF Settings, reply
<1>3. CASE pc = 8
  <2>1. set_command_byte(command_byte \cup {"DISABLE"}) /\ Typed
    <3>1. Program[pc] = "AD"
      BY Zenon, <1>3, ProgramSteps
    <3>. QED  BY Zenon, <1>3, <3>1 DEF obey, Wires
  <2>2. Typed'
    BY Zenon, <2>1 DEF set_command_byte, Typed
  <2>3. Wires'
    BY <1>3, <2>2 DEF Wires
  <2>4. set' = 2 /\ acks' = << >> /\ ~ port_on'
    BY <1>3, <2>1 DEF Settings, set_command_byte, port_on
  <2>. QED  BY <1>3, <2>3, <2>4 DEF Settings
<1>4. CASE pc = 10
  <2>1. reply(commandByteRead) /\ Nothing
    <3>1. Program[pc] = "20"
      BY Zenon, <1>4, ProgramSteps
    <3>. QED  BY Zenon, <1>4, <3>1 DEF obey, Wires, commandByteRead
  <2>2. Coming(commandByteRead)'
    BY <2>1 DEF reply, Nothing, Coming, commandByteRead
  <2>3. Wires'
    BY <1>4, <2>2 DEF Wires
  <2>. QED  BY <1>4, <2>1, <2>3 DEF Settings, reply, port_on
<1>5. CASE pc = 12
  <2>1. reply(portVerdict) /\ Nothing
    <3>1. Program[pc] = "AB"
      BY Zenon, <1>5, ProgramSteps
    <3>. QED  BY Zenon, <1>5, <3>1 DEF obey, Wires, portVerdict
  <2>2. Coming(portVerdict)'
    BY <2>1 DEF reply, Nothing, Coming, portVerdict
  <2>3. Wires'
    BY <1>5, <2>2 DEF Wires
  <2>. QED  BY <1>5, <2>1, <2>3 DEF Settings, reply, port_on
<1>6. CASE pc = 14
  <2>1. set_command_byte(new_byte) /\ Nothing
    <3>1. Program[pc] = "60_new"
      BY Zenon, <1>6, ProgramSteps
    <3>. QED  BY Zenon, <1>6, <3>1 DEF obey, Wires
  <2>2. Nothing'
    BY Zenon, <2>1 DEF set_command_byte, Nothing
  <2>3. Wires'
    BY <1>6, <2>2 DEF Wires
  <2>4. /\ "IRQ1" \in command_byte' /\ "TRANSLATE" \notin command_byte'
        /\ ~ port_on'
    BY <1>6, <2>1 DEF Settings, set_command_byte, new_byte, port_on
  <2>. QED  BY <1>6, <2>1, <2>3, <2>4 DEF Settings, set_command_byte
<1>7. CASE pc \in {15, 17}
  <2>1. /\ Program[pc] = IF pc = 15 THEN "F0" ELSE "01"
        /\ Nothing
    BY <1>7, ProgramSteps DEF Wires
  <2>2. /\ answers' = IF hw.keyboard THEN Append(answers, device_reply) ELSE answers
        /\ set' = IF pc = 17 /\ hw.keyboard /\ hw.takes_set_1 THEN 1 ELSE set
        /\ UNCHANGED command_byte
    BY <1>7, <2>1 DEF obey
  <2>3. Acknowledging'
    BY <2>1, <2>2 DEF Acknowledging, Nothing, Coming, device_reply
  <2>4. Wires'
    BY <1>7, <2>3 DEF Wires
  <2>5. port_on' = port_on /\ device_reply' = device_reply
    BY Zenon, <2>2 DEF port_on, device_reply
  <2>6. CASE pc = 15
    BY <2>2, <2>4, <2>5, <2>6 DEF Settings
  <2>7. CASE pc = 17
    <3>1. hw.keyboard => set' = IF hw.takes_set_1 THEN 1 ELSE 2
      BY <2>2, <2>7 DEF Settings
    <3>. QED  BY <2>2, <2>4, <2>5, <2>7, <3>1 DEF Settings
  <2>. QED  BY Zenon, <1>7, <2>6, <2>7
<1>8. CASE pc = 19
  <2>1. /\ set_command_byte(IF accepted THEN command_byte ELSE new_byte \cup {"TRANSLATE"})
        /\ Nothing
    <3>1. Program[pc] = "60_translate"
      BY Zenon, <1>8, ProgramSteps
    <3>. QED  BY Zenon, <1>8, <3>1 DEF obey, Wires
  <2>2. Nothing'
    BY Zenon, <2>1 DEF set_command_byte, Nothing
  <2>3. Wires'
    BY <1>8, <2>2 DEF Wires
  <2>4. "IRQ1" \in command_byte' /\ ~ port_on'
    BY <1>8, <2>1 DEF Settings, set_command_byte, new_byte, port_on
  <2>5. hw.keyboard => (accepted <=> hw.takes_set_1)
    <3>1. SUFFICES ASSUME hw.keyboard PROVE accepted <=> hw.takes_set_1
      OBVIOUS
    <3>2. acks = <<device_reply.what, device_reply.what>>
      BY Zenon, <1>8, <3>1 DEF Settings
    <3>3. Range(acks) = {device_reply.what}
      BY <3>2 DEF Range
    <3>4. device_reply.what = "FA" <=> hw.takes_set_1
      BY Zenon, Bytes DEF device_reply
    <3>. QED  BY Zenon, <3>3, <3>4 DEF accepted
  <2>6. hw.keyboard => ((set' = 2) <=> ("TRANSLATE" \in command_byte'))
    BY <1>8, <2>1, <2>5 DEF Settings, set_command_byte
  <2>. QED  BY <1>8, <2>1, <2>3, <2>4, <2>6 DEF Settings
<1>9. CASE pc = 20
  <2>1. set_command_byte(command_byte \ {"DISABLE"}) /\ Nothing
    <3>1. Program[pc] = "AE"
      BY Zenon, <1>9, ProgramSteps
    <3>. QED  BY Zenon, <1>9, <3>1 DEF obey, Wires
  <2>2. Typed'
    BY Zenon, <2>1 DEF set_command_byte, Nothing, Typed
  <2>3. Wires'
    BY <1>9, <2>2 DEF Wires
  <2>. QED  BY <1>9, <2>1, <2>3 DEF Settings, set_command_byte, port_on
<1>. QED  BY Zenon, <1>1, <1>2, <1>3, <1>4, <1>5, <1>6, <1>7, <1>8, <1>9

\* A command: refused by a bus that reads as ones, unheard on one that reads
\* as zeros, obeyed by a controller.
LEMMA CommandStep ==
  ASSUME BringUpInv, command
  PROVE  BringUpInv'
<1>1. /\ pc \in {6, 8, 10, 12, 14, 15, 17, 19, 20} /\ pc \in 1 .. 27
      /\ Program[pc] \in Commands
      /\ frames = << >> /\ ~ intr /\ UNCHANGED <<frames, intr, obf, hw, keys, late, typed_over>>
      /\ presence = "Unknown" /\ late \in Nat /\ keys \in Nat /\ hw \in Hardware
  <2>1. pc \in {6, 8, 10, 12, 14, 15, 17, 19, 20}
    BY Zenon, Positions DEF BringUpInv, command
  <2>. QED  BY <2>1 DEF BringUpInv, command, running, history
<1>2. Truth' = Truth
  BY Zenon, <1>1 DEF Truth
<1>3. CASE hw.bus = "ones" /\ At("AA")
  <2>1. give_up /\ UNCHANGED answers
    BY Zenon, <1>3 DEF command
  <2>2. pc' = 23 /\ presence' = "Absent" /\ Truth = "Absent"
    BY Zenon, <1>3, <2>1, Jumps DEF give_up, Truth
  <2>. QED  BY <1>1, <1>2, <1>3, <2>1, <2>2 DEF BringUpInv, Nothing
<1>4. CASE hw.bus = "zeros"
  <2>1. pc' = pc + 1 /\ UNCHANGED <<answers, presence>>
    BY Zenon, <1>4 DEF command, next
  <2>2. pc = 6
    BY <1>1, <1>4 DEF BringUpInv
  <2>. QED  BY <1>1, <1>4, <2>1, <2>2 DEF BringUpInv, Nothing
<1>5. CASE hw.bus = "ps2"
  <2>1. obey(Program[pc]) /\ pc' = pc + 1 /\ UNCHANGED <<cmd_byte, port_ok, acks, presence>>
    BY Zenon, <1>5 DEF command, next
  <2>2. pc' \in 1 .. 22 /\ pc' \in 1 .. 27
    BY <1>1, <2>1
  <2>3. late' = 0 => Wires' /\ Settings'
    BY Zenon, <1>1, <1>5, <2>1, ObeyStep DEF BringUpInv
  <2>. QED  BY <1>1, <1>5, <2>1, <2>2, <2>3 DEF BringUpInv
<1>. QED
  <2>1. (hw.bus = "ones" /\ At("AA")) \/ hw.bus = "zeros" \/ hw.bus = "ps2"
    BY Zenon DEF command
  <2>. QED  BY Zenon, <1>3, <1>4, <1>5, <2>1

\* The second acknowledgement joins the first one.
LEMMA AppendSecond == ASSUME NEW a, NEW b PROVE Append(<<a>>, b) = <<a, b>>
<1> DEFINE S == {a, b}
           u == Append(<<a>>, b)
           v == <<a, b>>
<1>1. u \in Seq(S) /\ v \in Seq(S)
  OBVIOUS
<1>2. Len(u) = 2 /\ u[1] = a /\ u[2] = b
  OBVIOUS
<1>3. Len(v) = 2 /\ v[1] = a /\ v[2] = b
  OBVIOUS
<1> HIDE DEF u, v, S
<1>4. Len(u) = Len(v) /\ \A i \in 1 .. Len(u) : u[i] = v[i]
  BY <1>2, <1>3
<1>5. u = v
  BY Zenon, <1>1, <1>4, SeqEqual
<1>. QED  BY Zenon, <1>5 DEF u, v

\* What init makes of a byte, with no answer late so far: it reads what the
\* controller sent, unless a keystroke took the place of the self-test answer.
LEMMA ConcludeStep ==
  ASSUME pc \in 1 .. 27, hw \in Hardware, Wires, Settings,
         obf # NoByte \/ answers = << >>, conclude(obf), obf' = NoByte,
         UNCHANGED <<answers, command_byte, set, hw>>, presence = "Unknown"
  PROVE  /\ pc \in {7, 11, 13, 16, 18}
         /\ \/ pc' = pc + 1 /\ presence' = "Unknown"
            \/ pc' = 23 /\ presence' = "Absent"
         /\ pc' = 23 => pc = 7 /\ obf.what = "key"
         /\ Wires' /\ Settings'
<1>1. pc \in {7, 11, 13, 16, 18}
  BY Zenon, Positions DEF conclude
<1>2. CASE pc = 7
  <2>1. At("self_test") /\ ComingOrTyped(SELF_TEST_OK)
    BY Zenon, <1>2, ProgramSteps DEF At, Wires
  <2>2. IF obf.what = "55" THEN next /\ UNCHANGED <<cmd_byte, port_ok, acks, presence>>
                           ELSE give_up
    <3>1. ~ At("read_command_byte") /\ ~ At("port_test") /\ ~ At("ack") /\ ~ At("ack2")
      BY <1>2, Positions
    <3>. QED  BY Zenon, <2>1, <3>1 DEF conclude
  <2>3. CASE IsKey(obf) /\ answers = <<SELF_TEST_OK>>
    <3>1. obf.what = "key"
      BY <2>3, Bytes DEF IsKey
    <3>2. give_up
      BY Zenon, <2>2, <3>1
    <3>3. pc' = 23 /\ presence' = "Absent"
      BY Zenon, <3>2, Jumps DEF give_up
    <3>4. Settled'
      BY Zenon, <2>3 DEF Settled
    <3>5. Wires' /\ Settings'
      BY <3>3, <3>4 DEF Wires, Settings
    <3>. QED  BY Zenon, <1>2, <3>1, <3>3, <3>5
  <2>4. CASE Coming(SELF_TEST_OK)
    <3>1. obf = SELF_TEST_OK /\ answers = << >>
      BY <2>4 DEF Coming
    <3>2. pc' = 8 /\ UNCHANGED <<cmd_byte, port_ok, acks, presence>>
      BY <1>2, <2>2, <3>1, Bytes DEF next
    <3>3. Typed'
      BY Zenon, <3>1 DEF Typed
    <3>4. Wires'
      BY <3>2, <3>3 DEF Wires
    <3>5. Settings'
      BY <1>2, <3>2 DEF Settings
    <3>. QED  BY <1>2, <3>2, <3>4, <3>5
  <2>. QED  BY Zenon, <2>1, <2>3, <2>4 DEF ComingOrTyped
<1>3. CASE pc = 11
  <2>1. ~ At("self_test") /\ ~ At("port_test") /\ ~ At("ack") /\ ~ At("ack2")
    BY <1>3, Positions
  <2>2. /\ cmd_byte' = obf.bits /\ pc' = 12 /\ UNCHANGED <<port_ok, acks, presence>>
        /\ Coming(commandByteRead)
    BY <1>3, <2>1 DEF conclude, next, Wires
  <2>3. obf = commandByteRead /\ answers = << >>
    BY <2>2 DEF Coming
  <2>4. cmd_byte' = command_byte
    BY ZenonT(30), <2>2, <2>3, Bytes DEF commandByteRead
  <2>5. Wires'
    BY <2>2, <2>3 DEF Wires, Nothing
  <2>6. Settings'
    BY <1>3, <2>2, <2>4 DEF Settings, port_on
  <2>. QED  BY <1>3, <2>2, <2>5, <2>6
<1>4. CASE pc = 13
  <2>1. ~ At("self_test") /\ ~ At("read_command_byte") /\ ~ At("ack") /\ ~ At("ack2")
    BY <1>4, Positions
  <2>2. /\ port_ok' = (obf.what = "00") /\ pc' = 14 /\ UNCHANGED <<cmd_byte, acks, presence>>
        /\ Coming(portVerdict)
    BY <1>4, <2>1 DEF conclude, next, Wires
  <2>3. obf = portVerdict /\ answers = << >>
    BY <2>2 DEF Coming
  <2>4. port_ok' = hw.keyboard
    <3>1. hw.keyboard \in BOOLEAN
      BY Zenon, DevicesAssumption
    <3>2. (obf.what = "00") <=> hw.keyboard
      BY Zenon, <2>3, Bytes DEF portVerdict
    <3>. QED  BY Zenon, <2>2, <3>1, <3>2
  <2>5. Wires'
    BY <2>2, <2>3 DEF Wires, Nothing
  <2>6. Settings'
    BY <1>4, <2>2, <2>4 DEF Settings, port_on
  <2>. QED  BY <1>4, <2>2, <2>5, <2>6
<1>5. CASE pc \in {16, 18}
  <2>1. ~ At("self_test") /\ ~ At("read_command_byte") /\ ~ At("port_test")
    BY <1>5, Positions
  <2>2. /\ acks' = Append(acks, obf.what) /\ pc' = pc + 1 /\ UNCHANGED <<cmd_byte, port_ok, presence>>
        /\ Acknowledging
    BY Zenon, <1>5, <2>1 DEF conclude, next, Wires
  <2>3. answers = << >> /\ (hw.keyboard => obf = device_reply)
    <3>1. Acknowledging
      BY Zenon, <2>2
    <3>2. <<device_reply>> # << >>
      OBVIOUS
    <3>3. CASE hw.keyboard
      BY Zenon, <3>1, <3>2, <3>3 DEF Acknowledging, Coming
    <3>4. CASE ~ hw.keyboard
      BY Zenon, <3>1, <3>4 DEF Acknowledging, Nothing
    <3>. QED  BY Zenon, <3>3, <3>4
  <2>4. Wires'
    <3>1. Nothing'
      BY Zenon, <2>3 DEF Nothing
    <3>. QED  BY <1>5, <2>2, <3>1 DEF Wires
  <2>5. port_on' = port_on /\ device_reply' = device_reply
    BY Zenon DEF port_on, device_reply
  <2>6. CASE pc = 16
    <3>1. hw.keyboard => acks' = <<device_reply.what>>
      BY <2>2, <2>3, <2>6 DEF Settings
    <3>. QED  BY <2>2, <2>4, <2>5, <2>6, <3>1 DEF Settings
  <2>7. CASE pc = 18
    <3>1. hw.keyboard => acks' = <<device_reply.what, device_reply.what>>
      <4>1. hw.keyboard => acks = <<device_reply.what>>
        BY <2>7 DEF Settings
      <4>. QED  BY Zenon, <2>2, <2>3, <4>1, AppendSecond
    <3>. QED  BY <2>2, <2>4, <2>5, <2>7, <3>1 DEF Settings
  <2>. QED  BY Zenon, <1>5, <2>6, <2>7
<1>. QED  BY Zenon, <1>1, <1>2, <1>3, <1>4, <1>5

\* Whatever byte init reads, it goes on or gives up at the self-test.
LEMMA ConcludeAnyway ==
  ASSUME pc \in 1 .. 27, NEW b, conclude(b), presence = "Unknown"
  PROVE  /\ pc \in {7, 11, 13, 16, 18}
         /\ \/ pc' = pc + 1 /\ presence' = "Unknown"
            \/ pc' = 23 /\ presence' = "Absent"
         /\ pc = 7 => IF b.what = "55" THEN pc' = 8 ELSE pc' = 23
<1>1. pc \in {7, 11, 13, 16, 18}
  BY Zenon, Positions DEF conclude
<1>2. ASSUME pc = 7 PROVE IF b.what = "55" THEN pc' = 8 ELSE pc' = 23
  <2>1. ~ At("read_command_byte") /\ ~ At("port_test") /\ ~ At("ack") /\ ~ At("ack2")
    BY <1>2, Positions
  <2>. QED  BY <1>2, <2>1, Jumps DEF conclude, next, give_up
<1>3. \/ pc' = pc + 1 /\ presence' = "Unknown"
      \/ pc' = 23 /\ presence' = "Absent"
  BY Zenon, Jumps DEF conclude, next, give_up
<1>. QED  BY Zenon, <1>1, <1>2, <1>3

\* An answer read, or waited for in vain.
LEMMA ReadStep ==
  ASSUME BringUpInv, read_response
  PROVE  BringUpInv'
<1>1. /\ conclude(obf) /\ obf' = NoByte
      /\ frames = << >> /\ UNCHANGED <<frames, intr, answers, command_byte, set, hw, keys>>
  BY Zenon DEF read_response, running, no_answer, take
<1>2. pc \in 1 .. 27 /\ presence = "Unknown"
  <2>1. pc \in {7, 11, 13, 16, 18}
    BY Zenon, <1>1, Positions DEF conclude, BringUpInv
  <2>. QED  BY <2>1 DEF BringUpInv
<1>3. /\ pc \in {7, 11, 13, 16, 18}
      /\ \/ pc' = pc + 1 /\ presence' = "Unknown"
         \/ pc' = 23 /\ presence' = "Absent"
      /\ pc = 7 => IF obf.what = "55" THEN pc' = 8 ELSE pc' = 23
  BY Zenon, <1>1, <1>2, ConcludeAnyway
<1>4. /\ pc' \in 1 .. 27 /\ ~ intr
      /\ pc' \in 1 .. 22 => presence' = "Unknown"
      /\ pc' \in 23 .. 27 => pc' = 23 /\ presence' = "Absent"
  <2>1. pc' \in 1 .. 22 \/ pc' = 23
    BY <1>3
  <2>2. ~ intr
    BY <1>3 DEF BringUpInv
  <2>. QED  BY <1>3, <2>1, <2>2
<1>5. /\ late' \in Nat /\ (late' = 0 => late = 0 /\ (obf # NoByte \/ answers = << >>))
      /\ obf # NoByte /\ At("self_test") /\ obf.what = "key" => typed_over'
  <2>1. late \in Nat
    BY Zenon DEF BringUpInv
  <2>2. CASE no_answer
    BY <2>1, <2>2 DEF no_answer
  <2>3. CASE /\ obf # NoByte /\ UNCHANGED late
             /\ typed_over' = (typed_over \/ (At("self_test") /\ obf.what = "key"))
    BY Zenon, <2>1, <2>3
  <2>. QED  BY Zenon, <2>2, <2>3 DEF read_response
<1>6. Truth' = Truth
  BY Zenon, <1>1 DEF Truth
<1>7. CASE hw.bus # "ps2"
  <2>1. Nothing /\ pc = 7
    BY <1>3, <1>7 DEF BringUpInv
  <2>2. obf.what # "55" /\ obf = NoByte /\ answers = << >>
    BY Zenon, <2>1, Bytes DEF Nothing
  <2>3. pc' = 23 /\ presence' = "Absent" /\ Truth = "Absent"
    BY <1>3, <1>7, <2>1, <2>2 DEF Truth
  <2>. QED  BY <1>1, <1>2, <1>4, <1>5, <1>6, <1>7, <2>2, <2>3 DEF BringUpInv, Nothing
<1>8. CASE hw.bus = "ps2"
  <2>1. ASSUME late' = 0
        PROVE  Wires' /\ Settings' /\ (pc' = 23 => pc = 7 /\ obf.what = "key")
    <3>1. Wires /\ Settings /\ hw \in Hardware
      BY Zenon, <1>5, <1>8, <2>1 DEF BringUpInv
    <3>. QED  BY Zenon, <1>1, <1>2, <1>5, <2>1, <3>1, ConcludeStep
  <2>2. late' = 0 /\ ~ typed_over' => pc' # 23
    <3>1. SUFFICES ASSUME late' = 0, pc' = 23 PROVE typed_over'
      OBVIOUS
    <3>2. obf.what = "key" /\ pc = 7
      BY Zenon, <2>1, <3>1
    <3>3. obf # NoByte /\ At("self_test")
      BY Zenon, <3>2, Bytes, ProgramSteps DEF At
    <3>. QED  BY Zenon, <1>5, <3>2, <3>3
  <2>. QED  BY Zenon, <1>1, <1>2, <1>4, <1>5, <1>6, <1>8, <2>1, <2>2 DEF BringUpInv
<1>. QED  BY Zenon, <1>7, <1>8

\* The verdict.
LEMMA FinishStep ==
  ASSUME BringUpInv, finish
  PROVE  BringUpInv'
<1>1. /\ pc = 22 /\ pc' = 23 /\ frames = << >> /\ ~ intr
      /\ UNCHANGED <<frames, intr, obf, answers, command_byte, set, hw, keys, late, typed_over>>
      /\ presence' = IF port_ok THEN "Keyboard" ELSE "Controller"
  <2>1. pc = 22
    BY Zenon, Positions DEF finish, BringUpInv
  <2>. QED  BY <2>1 DEF finish, next, running, picVars, ps2, history, BringUpInv
<1>2. hw.bus = "ps2" /\ Truth' = Truth
  BY <1>1 DEF BringUpInv, Truth
<1>3. ASSUME late = 0 PROVE Wires' /\ Settings' /\ presence' = Truth
  <2>1. Wires /\ Settings
    BY Zenon, <1>2, <1>3 DEF BringUpInv
  <2>2. Settled'
    BY Zenon, <1>1, <2>1 DEF Wires, Typed, Settled
  <2>3. Wires'
    BY <1>1, <2>2 DEF Wires
  <2>4. port_ok = hw.keyboard
    BY <1>1, <2>1 DEF Settings
  <2>5. Settings'
    BY <1>1, <2>1, <2>4 DEF Settings, port_on
  <2>6. presence' = Truth
    BY Zenon, <1>1, <1>2, <2>4 DEF Truth
  <2>. QED  BY Zenon, <2>3, <2>5, <2>6
<1>. QED  BY <1>1, <1>2, <1>3 DEF BringUpInv

\* The controller hands over an answer.
LEMMA AnswerStep ==
  ASSUME BringUpInv, answer
  PROVE  BringUpInv'
<1>1. /\ obf = NoByte /\ answers # << >> /\ obf' = Head(answers) /\ answers' = Tail(answers)
      /\ UNCHANGED <<intr, frames, pc, command_byte, set, hw, cmd_byte, port_ok, acks, presence,
                     keys, late, typed_over>>
  BY Zenon DEF answer, fill, probe, history
<1>2. hw.bus = "ps2" /\ Truth' = Truth
  BY Zenon, <1>1 DEF BringUpInv, Nothing, Truth
<1>3. ASSUME late = 0 PROVE Wires' /\ Settings'
  <2>1. Wires /\ Settings
    BY Zenon, <1>2, <1>3 DEF BringUpInv
  <2>2. ASSUME NEW b, answers = <<b>> PROVE obf' = b /\ answers' = << >>
    BY <1>1, <2>2
  <2>3. NoByte # SELF_TEST_OK /\ ~ IsKey(NoByte)
    BY Zenon, Bytes DEF IsKey
  <2>4. ASSUME NEW b, Coming(b) PROVE obf' = b /\ answers' = << >>
    <3>1. answers = <<b>>
      BY Zenon, <1>1, <2>4 DEF Coming
    <3>. QED  BY Zenon, <2>2, <3>1
  <2>5. commandByteRead' = commandByteRead /\ portVerdict' = portVerdict
        /\ device_reply' = device_reply
    BY Zenon, <1>1 DEF commandByteRead, portVerdict, device_reply
  <2>6. Coming(commandByteRead) => Coming(commandByteRead)'
    BY Zenon, <2>4, <2>5 DEF Coming
  <2>7. Coming(portVerdict) => Coming(portVerdict)'
    BY Zenon, <2>4, <2>5 DEF Coming
  <2>8. Acknowledging => Acknowledging'
    <3>1. SUFFICES ASSUME Acknowledging PROVE Acknowledging'
      OBVIOUS
    <3>2. hw.keyboard /\ Coming(device_reply)
      BY Zenon, <1>1, <3>1 DEF Acknowledging, Nothing
    <3>3. obf' = device_reply' /\ answers' = << >>
      BY Zenon, <2>4, <2>5, <3>2
    <3>. QED  BY Zenon, <1>1, <3>2, <3>3 DEF Acknowledging, Coming
  <2>9. ComingOrTyped(SELF_TEST_OK) => ComingOrTyped(SELF_TEST_OK)'
    BY Zenon, <1>1, <2>3, <2>4 DEF ComingOrTyped, Coming
  <2>10. Settled => Settled'
    BY Zenon, <1>1, <2>2 DEF Settled
  <2>11. ~ Nothing /\ ~ Typed /\ ~ LeftOver
    BY Zenon, <1>1 DEF Nothing, Typed, LeftOver
  <2>12. Wires'
    BY SMTT(30), <1>1, <2>1, <2>6, <2>7, <2>8, <2>9, <2>10, <2>11 DEF Wires
  <2>13. Settings'
    BY <1>1, <2>1 DEF Settings, port_on, device_reply
  <2>. QED  BY Zenon, <2>12, <2>13
<1>. QED  BY Zenon, <1>1, <1>2, <1>3 DEF BringUpInv

\* A key is struck while the port is enabled and nothing is on the wires.
LEMMA KeystrokeStep ==
  ASSUME BringUpInv, keystroke
  PROVE  BringUpInv'
<1>1. /\ hw.bus = "ps2" /\ port_on /\ obf = NoByte /\ answers = << >>
      /\ UNCHANGED <<intr, frames, pc, answers, command_byte, set, hw, cmd_byte, port_ok, acks,
                     presence, late, typed_over>>
      /\ keys' = keys + 1 /\ keys \in Nat
  BY Zenon DEF keystroke, probe, BringUpInv
<1>2. IsKey(obf)'
  <2>1. PICK flag \in Flags : obf' = key(keys + 1, flag)
    BY Zenon DEF keystroke, fill, Flags
  <2>2. keys + 1 \in Nat
    BY <1>1
  <2>. QED  BY Zenon, <2>1, <2>2 DEF IsKey
<1>3. ASSUME late = 0 PROVE Wires' /\ Settings'
  <2>1. Wires /\ Settings
    BY Zenon, <1>1, <1>3 DEF BringUpInv
  <2>2. LeftOver' /\ Typed' /\ Settled'
    BY Zenon, <1>1, <1>2 DEF LeftOver, Typed, Settled
  <2>3. pc \in 1 .. 8 \/ pc \in 21 .. 27
    <3>1. pc \in 1 .. 27 /\ pc \notin 9 .. 20
      BY Zenon, <1>1, <2>1 DEF Settings, BringUpInv
    <3>. QED  BY <3>1
  <2>4. pc # 7
    <3>1. NoByte # SELF_TEST_OK /\ ~ IsKey(NoByte)
      BY Zenon, Bytes DEF IsKey
    <3>2. ~ ComingOrTyped(SELF_TEST_OK)
      BY Zenon, <1>1, <3>1 DEF ComingOrTyped, Coming
    <3>. QED  BY Zenon, <2>1, <3>2 DEF Wires
  <2>5. Wires'
    <3>1. CASE pc \in 1 .. 5
      BY <1>1, <2>2, <3>1 DEF Wires
    <3>2. CASE pc \in {6, 8, 21, 22}
      BY <1>1, <2>2, <3>2 DEF Wires
    <3>3. CASE pc \in 23 .. 27
      BY <1>1, <2>2, <3>3 DEF Wires
    <3>4. pc \in 1 .. 5 \/ pc \in {6, 8, 21, 22} \/ pc \in 23 .. 27
      BY <2>3, <2>4
    <3>. QED  BY Zenon, <3>1, <3>2, <3>3, <3>4
  <2>6. Settings'
    BY <1>1, <2>1 DEF Settings, port_on, device_reply
  <2>. QED  BY Zenon, <2>5, <2>6
<1>4. Truth' = Truth
  BY Zenon, <1>1 DEF Truth
<1>. QED  BY <1>1, <1>3, <1>4 DEF BringUpInv

\* The interrupt handlers run after the exchange.
LEMMA HandlersAfterwards ==
  ASSUME BringUpInv, handler_step
  PROVE  BringUpInv'
<1>1. pc \in {25, 27} /\ frames # << >>
  BY Zenon DEF handler_step, on_irq_timer, interrupt_handler, flush_in_handler, on_irq_keyboard,
         on_irq_unexpected, in_handler, BringUpInv
<1>2. UNCHANGED <<answers, command_byte, set, hw, cmd_byte, port_ok, acks, presence, keys, late,
                  typed_over, pc>>
  BY Zenon DEF handler_step, on_irq_timer, interrupt_handler, flush_in_handler, on_irq_keyboard,
         on_irq_unexpected, ps2, probe, history
<1>3. UNCHANGED obf \/ take
  BY Zenon DEF handler_step, on_irq_timer, interrupt_handler, flush_in_handler, on_irq_keyboard,
         on_irq_unexpected, ps2, on_parity, on_empty
<1>4. CASE UNCHANGED obf
  BY Zenon, <1>1, <1>2, <1>4, ElsewhereStep
<1>5. CASE take
  BY <1>1, <1>2, <1>5, TakenStep
<1>. QED  BY Zenon, <1>3, <1>4, <1>5

\* The steps of the boot program around the exchange.
LEMMA AroundSteps ==
  ASSUME BringUpInv, boot_remap \/ pit_init \/ boot_unmask \/ timer_test \/ timer_wait \/ idle
  PROVE  BringUpInv'
<1>1. pc \in 1 .. 27
  BY Zenon DEF BringUpInv
<1>2. UNCHANGED <<obf, answers, command_byte, set, hw, cmd_byte, port_ok, acks, presence, keys,
                  late, typed_over>>
  BY Zenon DEF boot_remap, pit_init, boot_unmask, timer_test, timer_wait, idle, ps2, probe, history
<1>3. frames = << >> /\ frames' = << >>
  BY Zenon DEF boot_remap, pit_init, boot_unmask, timer_test, timer_wait, idle, running, remap, unmask,
         picVars
<1>4. CASE boot_remap \/ pit_init
  <2>1. pc \in 1 .. 2 /\ pc' = pc + 1 /\ intr' = intr
    BY <1>1, <1>4, Positions DEF boot_remap, pit_init, next, remap, picVars
  <2>. QED  BY SMTT(30), <1>2, <1>3, <2>1, ElsewhereStep DEF BringUpInv
<1>5. CASE boot_unmask
  <2>1. (pc = 3 \/ pc = 4 \/ pc = 23) /\ pc' = pc + 1 /\ intr' = intr
    BY Zenon, <1>1, <1>5, Positions DEF boot_unmask, next, unmask
  <2>2. ~ intr
    BY <2>1 DEF BringUpInv
  <2>. QED  BY <1>2, <1>3, <2>1, <2>2, ElsewhereStep
<1>6. CASE timer_test
  <2>1. pc = 24 /\ (pc' = 25 \/ (pc' = 26 /\ intr' = intr))
    BY <1>1, <1>6, Positions, Jumps DEF timer_test, next
  <2>2. ~ intr
    BY <2>1 DEF BringUpInv
  <2>. QED  BY SMTT(30), <1>2, <1>3, <2>1, <2>2, ElsewhereStep
<1>7. CASE timer_wait
  <2>1. pc = 25 /\ pc' = 26 /\ ~ intr'
    BY <1>1, <1>7, Positions DEF timer_wait, next
  <2>. QED  BY <1>2, <1>3, <2>1, ElsewhereStep
<1>8. CASE idle
  <2>1. pc = 26 /\ pc' = 27
    BY <1>1, <1>8, Positions DEF idle, next
  <2>. QED  BY <1>2, <1>3, <2>1, ElsewhereStep
<1>. QED  BY Zenon, <1>4, <1>5, <1>6, <1>7, <1>8

\* Every step keeps the invariant.
LEMMA NextPreservesBringUpInv == BringUpInv /\ [Next]_vars => BringUpInv'
<1> SUFFICES ASSUME BringUpInv, [Next]_vars PROVE BringUpInv'
  OBVIOUS
<1> DEFINE Alone == UNCHANGED <<pc, obf, answers, command_byte, set, hw, cmd_byte, port_ok, acks,
                                presence, keys, late, typed_over>>
<1>1. CASE edge(TIMER) \/ edge(8) \/ stray_unmask \/ UNCHANGED vars
  <2>1. Alone /\ UNCHANGED <<intr, frames>>
    BY Zenon, <1>1 DEF edge, stray_unmask, unmask, vars, picVars, ps2, probe, history
  <2>. QED  BY Zenon, <2>1, ElsewhereStep DEF BringUpInv
<1>2. ASSUME NEW n \in Irqs, deliver_irq(n) PROVE BringUpInv'
  <2>1. Alone /\ intr
    BY Zenon, <1>2 DEF deliver_irq, deliver, ps2, probe, history
  <2>. QED  BY Zenon, <2>1, ElsewhereStep DEF BringUpInv
<1>3. ASSUME NEW chip, spurious(chip) PROVE BringUpInv'
  <2>1. Alone /\ intr
    BY Zenon, <1>3 DEF spurious, glitch, ps2, probe
  <2>. QED  BY Zenon, <2>1, ElsewhereStep DEF BringUpInv
<1>4. CASE boot_step
  BY Zenon, <1>4, AroundSteps, FlushStep, CommandStep, ReadStep, FinishStep DEF boot_step
<1>. QED
  BY Zenon, <1>1, <1>2, <1>3, <1>4, HandlersAfterwards, AnswerStep, KeystrokeStep DEF Next

\* BringUpInv holds throughout.
THEOREM BringUpInvariant == Spec => []BringUpInv
BY InitEstablishesBringUpInv, NextPreservesBringUpInv, PTL DEF Spec

\* keyboard::init judges the hardware as it is, whatever bytes the firmware
\* left in the controller and whenever keys are struck, unless an answer comes
\* after the poll limit or a keystroke takes the place of the self-test
\* answer.  For every machine and any number of keys and faults.
THEOREM TheVerdictIsRight == Spec => []VerdictIsRight
<1>1. BringUpInv => VerdictIsRight
  <2> SUFFICES ASSUME BringUpInv, presence # "Unknown", ~ Disturbed PROVE presence = Truth
    BY Zenon DEF VerdictIsRight
  <2>1. pc \in 1 .. 27 /\ pc \notin 1 .. 22
    BY Zenon DEF BringUpInv
  <2>2. pc \in 23 .. 27
    BY <2>1
  <2>3. late = 0 /\ ~ typed_over
    BY DEF Disturbed, BringUpInv
  <2>. QED  BY Zenon, <2>2, <2>3 DEF BringUpInv
<1>. QED  BY <1>1, BringUpInvariant, PTL

\* Once init has found a keyboard, its port is enabled, IRQ1 is on, and the
\* controller translates exactly when the keyboard still speaks set 2: the
\* scancodes are set 1, whether or not the keyboard accepted the change.
THEOREM ScancodesComeAsSet1 == Spec => []ScancodesAreSet1
<1>1. BringUpInv => ScancodesAreSet1
  <2> SUFFICES ASSUME BringUpInv, presence = "Keyboard", ~ Disturbed
               PROVE  /\ port_on /\ "IRQ1" \in command_byte
                      /\ (set = 2) <=> ("TRANSLATE" \in command_byte)
    BY Zenon DEF ScancodesAreSet1
  <2>1. pc \in 1 .. 27 /\ pc \notin 1 .. 22
    BY Zenon DEF BringUpInv
  <2>2. pc \in 23 .. 27
    BY <2>1
  <2>3. late = 0 /\ ~ typed_over
    BY DEF Disturbed, BringUpInv
  <2>4. Truth = "Keyboard"
    BY Zenon, <2>2, <2>3 DEF BringUpInv
  <2>5. hw.bus = "ps2"
    BY Zenon, <2>4 DEF Truth
  <2>6. Settings
    BY Zenon, <2>3, <2>5 DEF BringUpInv
  <2>. QED  BY Zenon, <2>2, <2>6 DEF Settings
<1>. QED  BY <1>1, BringUpInvariant, PTL

-----------------------------------------------------------------------------
(* What the ring receives. *)

\* The bytes the controller can hold.
Bits == {"IRQ1", "DISABLE", "TRANSLATE"}
ByteSet == [what : {"none", "55", "00", "01", "FA", "FE", "command_byte", "key"},
            bits : SUBSET Bits, from : {"controller", "device"}, flag : Flags, n : Nat]
Codes == {b \in ByteSet : b.what # "key"}

\* A keystroke in the output buffer is younger than every one in the ring.
RingInv ==
  /\ obf \in ByteSet /\ answers \in Seq(Codes) /\ ring \in Seq(ByteSet)
  /\ command_byte \in SUBSET Bits /\ cmd_byte \in SUBSET Bits
  /\ obf.what = "key" => obf.n <= keys
  /\ \A i \in 1 .. Len(ring) : ring[i].what = "key" =>
        ring[i].n <= keys /\ (obf.what = "key" => ring[i].n < obf.n)
  /\ \A i, j \in 1 .. Len(ring) :
        i < j /\ ring[i].what = "key" /\ ring[j].what = "key" => ring[i].n < ring[j].n
  /\ late = 0 => \A i \in 1 .. Len(ring) : ring[i].what = "key"

\* The answers to commands, and keystrokes, as bytes.
LEMMA ByteTypes ==
  /\ NoByte \in Codes /\ SELF_TEST_OK \in Codes /\ PORT_OK \in Codes /\ PORT_BAD \in Codes
  /\ ACK \in Codes /\ RESEND \in Codes
  /\ \A s \in SUBSET Bits : byte("command_byte", s, "controller") \in Codes
  /\ \A m \in Nat, f \in Flags : key(m, f) \in ByteSet
<1>1. NoByte \in Codes /\ SELF_TEST_OK \in Codes /\ PORT_OK \in Codes /\ PORT_BAD \in Codes
  BY Zenon DEF NoByte, SELF_TEST_OK, PORT_OK, PORT_BAD, byte, Codes, ByteSet, Bits, Flags
<1>2. ACK \in Codes /\ RESEND \in Codes
  BY Zenon DEF NoByte, ACK, RESEND, byte, Codes, ByteSet, Bits, Flags
<1>3. \A s \in SUBSET Bits : byte("command_byte", s, "controller") \in Codes
  BY Zenon DEF NoByte, byte, Codes, ByteSet, Bits, Flags
<1>4. \A m \in Nat, f \in Flags : key(m, f) \in ByteSet
  BY Zenon DEF NoByte, key, byte, ByteSet, Bits, Flags
<1>. QED  BY Zenon, <1>1, <1>2, <1>3, <1>4

\* At reset the ring is empty.
LEMMA InitEstablishesRingInv == Init => RingInv
<1> SUFFICES ASSUME Init PROVE RingInv
  OBVIOUS
<1>1. /\ obf = NoByte \/ obf = ACK
      /\ answers = << >> /\ ring = << >> /\ command_byte \in SUBSET Bits /\ cmd_byte = {}
  BY Zenon, DevicesAssumption DEF Init, Bits
<1>2. obf \in ByteSet /\ obf.what # "key"
  BY Zenon, <1>1, ByteTypes DEF Codes
<1>. QED  BY <1>1, <1>2 DEF RingInv

\* Steps that put no keystroke into the controller and none into the ring.
LEMMA RingAlone ==
  ASSUME RingInv, UNCHANGED <<ring, keys>>, obf' = obf \/ obf' \in Codes, answers' \in Seq(Codes),
         command_byte' \in SUBSET Bits, cmd_byte' \in SUBSET Bits, late' = 0 => late = 0
  PROVE  RingInv'
<1>1. CASE obf' = obf
  BY Zenon, <1>1 DEF RingInv
<1>2. CASE obf' \in Codes
  BY Zenon, <1>2 DEF RingInv, Codes
<1>. QED  BY Zenon, <1>1, <1>2

\* The interrupt handler moves a byte of the keyboard from the controller to
\* the ring; no answer of the keyboard is left there after the exchange.
LEMMA RingGrows ==
  ASSUME RingInv, BringUpInv, interrupt_handler, obf # NoByte, obf.flag = "ok",
         obf' = NoByte, obf.from = "device", ring' = Append(ring, obf)
  PROVE  RingInv'
<1>1. /\ UNCHANGED <<answers, command_byte, cmd_byte, keys, late, hw, pc>>
      /\ frames # << >>
  BY Zenon DEF interrupt_handler, in_handler, probe, history
<1>2. late = 0 => obf.what = "key"
  <2>1. SUFFICES ASSUME late = 0 PROVE obf.what = "key"
    OBVIOUS
  <2>2. pc \in {25, 27}
    BY Zenon, <1>1 DEF BringUpInv
  <2>3. hw.bus = "ps2"
    BY Zenon DEF BringUpInv, Nothing
  <2>4. Settled
    BY <2>1, <2>2, <2>3 DEF BringUpInv, Wires
  <2>5. IsKey(obf)
    BY Zenon, <2>4, Bytes DEF Settled
  <2>. QED  BY <2>5, Bytes DEF IsKey
<1>3. /\ Len(ring') = Len(ring) + 1 /\ ring'[Len(ring) + 1] = obf /\ ring' \in Seq(ByteSet)
      /\ \A i \in 1 .. Len(ring) : ring'[i] = ring[i]
      /\ Len(ring) \in Nat
  BY DEF RingInv
<1>4. \A i \in 1 .. Len(ring') : i \in 1 .. Len(ring) \/ i = Len(ring) + 1
  BY <1>3
<1>5. obf' \in ByteSet /\ obf'.what # "key"
  BY Zenon, ByteTypes DEF Codes
<1>6. \A i \in 1 .. Len(ring') : ring'[i].what = "key" => ring'[i].n <= keys'
  BY Zenon, <1>1, <1>3, <1>4 DEF RingInv
<1>7. ASSUME NEW i \in 1 .. Len(ring'), NEW j \in 1 .. Len(ring'), i < j,
             ring'[i].what = "key", ring'[j].what = "key"
      PROVE  ring'[i].n < ring'[j].n
  <2>1. i \in 1 .. Len(ring)
    BY <1>3, <1>7
  <2>2. CASE j \in 1 .. Len(ring)
    BY Zenon, <1>3, <1>7, <2>1, <2>2 DEF RingInv
  <2>3. CASE j = Len(ring) + 1
    BY Zenon, <1>3, <1>7, <2>1, <2>3 DEF RingInv
  <2>. QED  BY Zenon, <1>4, <2>2, <2>3
<1>8. late' = 0 => \A i \in 1 .. Len(ring') : ring'[i].what = "key"
  BY Zenon, <1>1, <1>2, <1>3, <1>4 DEF RingInv
<1>. QED  BY Zenon, <1>1, <1>3, <1>5, <1>6, <1>7, <1>8 DEF RingInv

\* A key is struck: it is younger than all before it.
LEMMA RingBeforeKey ==
  ASSUME RingInv, BringUpInv, keystroke
  PROVE  RingInv'
<1>1. /\ UNCHANGED <<answers, command_byte, cmd_byte, ring, late>>
      /\ keys' = keys + 1 /\ keys \in Nat
  BY Zenon DEF keystroke, probe, BringUpInv
<1>2. PICK flag \in Flags : obf' = key(keys + 1, flag)
  BY Zenon DEF keystroke, fill, Flags
<1>3. keys + 1 \in Nat
  BY <1>1
<1>4. obf' \in ByteSet /\ obf'.n = keys + 1
  BY Zenon, <1>2, <1>3, ByteTypes, Bytes
<1>5. \A i \in 1 .. Len(ring) : ring[i] \in ByteSet /\ ring[i].n \in Nat
  <2>1. \A i \in 1 .. Len(ring) : ring[i] \in ByteSet
    BY DEF RingInv
  <2>. QED  BY Zenon, <2>1 DEF ByteSet
<1>6. \A i \in 1 .. Len(ring) : ring[i].what = "key" => ring[i].n < keys + 1
  BY <1>1, <1>5 DEF RingInv
<1>. QED  BY <1>1, <1>4, <1>5, <1>6 DEF RingInv

\* The exchange: commands, and what init reads.
LEMMA RingInExchange ==
  ASSUME RingInv, BringUpInv, command \/ read_response
  PROVE  RingInv'
<1>1. CASE command
  <2>1. UNCHANGED <<ring, keys, obf, late>>
    BY Zenon, <1>1 DEF command, history
  <2>2. cmd_byte' \in SUBSET Bits
    BY Zenon, <1>1 DEF command, give_up, return_locals, RingInv
  <2>3. answers' \in Seq(Codes) /\ command_byte' \in SUBSET Bits
    <3>1. CASE UNCHANGED <<answers, command_byte>>
      BY Zenon, <3>1 DEF RingInv
    <3>2. CASE obey(Program[pc])
      <4>1. ASSUME NEW b \in Codes, reply(b)
            PROVE  answers' \in Seq(Codes) /\ command_byte' \in SUBSET Bits
        BY <4>1 DEF reply, RingInv
      <4>2. ASSUME NEW bits \in SUBSET Bits, set_command_byte(bits)
            PROVE  answers' \in Seq(Codes) /\ command_byte' \in SUBSET Bits
        BY Zenon, <4>2 DEF set_command_byte, RingInv
      <4>3. new_byte \in SUBSET Bits /\ command_byte \in SUBSET Bits
        BY Zenon DEF new_byte, RingInv, Bits
      <4>4. /\ command_byte \cup {"DISABLE"} \in SUBSET Bits
            /\ command_byte \ {"DISABLE"} \in SUBSET Bits
            /\ new_byte \cup {"TRANSLATE"} \in SUBSET Bits
        BY Zenon, <4>3 DEF Bits
      <4>5. (IF accepted THEN command_byte ELSE new_byte \cup {"TRANSLATE"}) \in SUBSET Bits
        BY Zenon, <4>3, <4>4
      <4>6. /\ device_reply \in Codes
            /\ (IF hw.keyboard THEN PORT_OK ELSE PORT_BAD) \in Codes
            /\ byte("command_byte", command_byte, "controller") \in Codes
            /\ SELF_TEST_OK \in Codes
        BY Zenon, <4>3, ByteTypes DEF device_reply
      <4>7. CASE \/ reply(SELF_TEST_OK) \/ reply(byte("command_byte", command_byte, "controller"))
                 \/ reply(IF hw.keyboard THEN PORT_OK ELSE PORT_BAD)
        BY Zenon, <4>1, <4>6, <4>7
      <4>8. CASE \/ set_command_byte(command_byte \cup {"DISABLE"})
                 \/ set_command_byte(command_byte \ {"DISABLE"})
                 \/ set_command_byte(new_byte)
                 \/ set_command_byte(IF accepted THEN command_byte ELSE new_byte \cup {"TRANSLATE"})
        BY ZenonT(60), <4>2, <4>3, <4>4, <4>5, <4>8
      <4>9. CASE answers' = Append(answers, device_reply) /\ UNCHANGED command_byte
        BY <4>6, <4>9 DEF RingInv
      <4>. QED  BY Zenon, <3>1, <3>2, <4>7, <4>8, <4>9 DEF obey
    <3>. QED  BY Zenon, <1>1, <3>1, <3>2 DEF command
  <2>. QED  BY Zenon, <2>1, <2>2, <2>3, RingAlone
<1>2. CASE read_response
  <2>1. /\ UNCHANGED <<ring, keys, answers, command_byte>>
        /\ obf' = obf \/ obf' = NoByte
        /\ late' = 0 => late = 0
    <3>1. late \in Nat
      BY Zenon DEF BringUpInv
    <3>. QED  BY <1>2, <3>1 DEF read_response, no_answer, take
  <2>2. PICK b \in {NoByte, obf} : conclude(b)
    BY Zenon, <1>2 DEF read_response
  <2>3. b.bits \in SUBSET Bits
    <3>1. b \in ByteSet
      BY Zenon, ByteTypes DEF RingInv, Codes
    <3>. QED  BY Zenon, <3>1 DEF ByteSet
  <2>4. cmd_byte' \in SUBSET Bits
    BY Zenon, <2>2, <2>3 DEF conclude, give_up, return_locals, RingInv
  <2>5. obf' = obf \/ obf' \in Codes
    BY Zenon, <2>1, ByteTypes
  <2>6. answers' \in Seq(Codes) /\ command_byte' \in SUBSET Bits
    BY Zenon, <2>1 DEF RingInv
  <2>. QED  BY Zenon, <2>1, <2>4, <2>5, <2>6, RingAlone
<1>. QED  BY Zenon, <1>1, <1>2

\* The interrupt handlers.
LEMMA RingInHandlers ==
  ASSUME RingInv, BringUpInv, handler_step
  PROVE  RingInv'
<1>1. UNCHANGED <<answers, command_byte, cmd_byte, keys, late>>
  BY Zenon DEF handler_step, on_irq_timer, interrupt_handler, flush_in_handler, on_irq_keyboard,
         on_irq_unexpected, ps2, probe, history
<1>2. /\ answers' \in Seq(Codes) /\ command_byte' \in SUBSET Bits /\ cmd_byte' \in SUBSET Bits
      /\ NoByte \in Codes
  BY Zenon, <1>1, ByteTypes DEF RingInv
<1>3. CASE UNCHANGED ring
  <2>1. obf' = obf \/ obf' = NoByte
    BY Zenon DEF handler_step, on_irq_timer, interrupt_handler, flush_in_handler, on_irq_keyboard,
           on_irq_unexpected, ps2, on_parity, on_empty, take
  <2>. QED  BY Zenon, <1>1, <1>2, <1>3, <2>1, RingAlone
<1>4. CASE ring' # ring
  <2>1. interrupt_handler
    BY Zenon, <1>4 DEF handler_step, on_irq_timer, flush_in_handler, on_irq_keyboard, on_irq_unexpected
  <2>2. /\ obf # NoByte /\ obf.flag = "ok" /\ obf' = NoByte
        /\ obf.from = "device" /\ ring' = Append(ring, obf)
    BY Zenon, <1>4, <2>1 DEF interrupt_handler, on_parity, on_empty, take
  <2>. QED  BY Zenon, <2>1, <2>2, RingGrows
<1>. QED  BY Zenon, <1>3, <1>4

\* Every step keeps the invariant.
LEMMA NextPreservesRingInv == RingInv /\ BringUpInv /\ [Next]_vars => RingInv'
<1> SUFFICES ASSUME RingInv, BringUpInv, [Next]_vars PROVE RingInv'
  OBVIOUS
<1>1. answers \in Seq(Codes) /\ command_byte \in SUBSET Bits /\ cmd_byte \in SUBSET Bits
  BY Zenon DEF RingInv
<1> DEFINE Alone == UNCHANGED <<ring, keys, late, obf, answers, command_byte, cmd_byte>>
<1>2. Alone => RingInv'
  BY Zenon, <1>1, RingAlone
<1>3. CASE edge(TIMER) \/ edge(8) \/ stray_unmask \/ UNCHANGED vars
  BY Zenon, <1>2, <1>3 DEF edge, stray_unmask, vars, ps2, probe, history
<1>4. ASSUME NEW n \in Irqs, deliver_irq(n) PROVE RingInv'
  BY Zenon, <1>2, <1>4 DEF deliver_irq, ps2, probe, history
<1>5. ASSUME NEW chip, spurious(chip) PROVE RingInv'
  BY Zenon, <1>2, <1>5 DEF spurious, ps2, probe
<1>6. CASE answer
  <2>1. /\ answers # << >> /\ obf' = Head(answers) /\ answers' = Tail(answers)
        /\ UNCHANGED <<ring, keys, late, command_byte, cmd_byte>>
    BY Zenon, <1>6 DEF answer, fill, probe, history
  <2>2. obf' \in Codes /\ answers' \in Seq(Codes)
    BY <1>1, <2>1
  <2>. QED  BY Zenon, <1>1, <2>1, <2>2, RingAlone
<1>7. CASE boot_remap \/ pit_init \/ boot_unmask \/ timer_test \/ timer_wait \/ idle
  BY Zenon, <1>2, <1>7
  DEF boot_remap, pit_init, boot_unmask, timer_test, timer_wait, idle, ps2, probe, history
<1>8. CASE flush_output
  <2>1. /\ obf' = obf \/ obf' = NoByte
        /\ UNCHANGED <<ring, keys, late, answers, command_byte, cmd_byte>>
    BY Zenon, <1>8 DEF flush_output, take, probe, history
  <2>. QED  BY Zenon, <1>1, <2>1, ByteTypes, RingAlone
<1>9. CASE finish
  <2>1. UNCHANGED <<ring, keys, late, obf, answers, command_byte>> /\ cmd_byte' = {}
    BY Zenon, <1>9 DEF finish, return_locals, ps2, history
  <2>. QED  BY Zenon, <1>1, <2>1, RingAlone
<1>10. CASE boot_step
  BY Zenon, <1>7, <1>8, <1>9, <1>10, RingInExchange DEF boot_step
<1>. QED
  BY Zenon, <1>3, <1>4, <1>5, <1>6, <1>10, RingInHandlers, RingBeforeKey DEF Next

\* The ring receives keystrokes only, in the order they were struck and each
\* at most once, although IRQ1 was latched for the answers of the polled
\* exchange; an answer gets in only if it came after init gave up on it.
THEOREM TheRingHoldsKeystrokes == Spec => []RingHoldsKeystrokes
<1>1. RingInv => RingHoldsKeystrokes
  <2> SUFFICES ASSUME RingInv PROVE RingHoldsKeystrokes
    OBVIOUS
  <2>1. DOMAIN ring = 1 .. Len(ring)
    BY DEF RingInv
  <2>. QED  BY Zenon, <2>1 DEF RingInv, RingHoldsKeystrokes
<1>. QED
  BY <1>1, InitEstablishesRingInv, NextPreservesRingInv, BringUpInvariant, PTL DEF Spec

=============================================================================

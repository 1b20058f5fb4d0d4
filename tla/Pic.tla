-------------------------------- MODULE Pic --------------------------------
(***************************************************************************)
(* The two 8259A interrupt controllers and their driver,                   *)
(* interrupts/pic.rs.  The controllers latch edges (irr), remember what    *)
(* the CPU has accepted and not acknowledged (isr), and hold back masked   *)
(* lines (imr).  The driver keeps its own copy of the masks (MASKS) and    *)
(* acknowledges with the non-specific end-of-interrupt command, which      *)
(* clears the highest-priority bit in service, whichever that is.          *)
(* The CPU side is the interrupt flag (intr) and the stack of handlers in  *)
(* progress (frames): every gate is an interrupt gate.                     *)
(***************************************************************************)
EXTENDS Integers, Sequences, FiniteSets, FiniteSetsExt

CONSTANTS
    Irqs,           \* the lines of the two controllers that are modelled
    FirmwareMasks   \* the lines the firmware leaves masked

VARIABLES irr, isr, imr, base, MASKS, intr, frames
picVars == <<irr, isr, imr, base, MASKS, intr, frames>>

TIMER    == 0
KEYBOARD == 1
CASCADE  == 2
MASTER_OFFSET == 32
SLAVE_OFFSET  == 40

Master == {n \in Irqs : n < 8}
Slave  == Irqs \ Master

ASSUME PicAssumption ==
    /\ {TIMER, KEYBOARD, CASCADE, 7, 8, 15} \subseteq Irqs
    /\ Irqs \subseteq 0..15
    /\ FirmwareMasks \subseteq Irqs

vector_for_irq(n) == IF n < 8 THEN MASTER_OFFSET + n ELSE SLAVE_OFFSET + n - 8

\* -1 stands for None: the vector is not one of the controllers'.
irq_for_vector(v) ==
    IF v \in MASTER_OFFSET .. SLAVE_OFFSET + 7 THEN v - MASTER_OFFSET ELSE -1

\* The firmware's vectors: the master's overlap the CPU exceptions.
FirmwareBase == [master |-> 8, slave |-> 112]

PicInit ==
    /\ irr = {} /\ isr = {} /\ imr = FirmwareMasks
    /\ base = FirmwareBase
    /\ MASKS = Irqs
    /\ intr = FALSE /\ frames = << >>

-----------------------------------------------------------------------------
(* The controllers.                                                        *)

\* The lines of a controller that may interrupt: requested, not masked, and
\* of higher priority than everything that controller has in service.
ready(chip, requests) ==
    {n \in (chip \cap requests) \ imr : \A s \in chip \cap isr : n < s}

requests_of_master ==
    irr \cup (IF ready(Slave, irr) # {} THEN {CASCADE} ELSE {})

vector_of(n) == IF n < 8 THEN base.master + n ELSE base.slave + n - 8

enter(v) ==
    /\ frames' = Append(frames, [vector |-> v, pc |-> "body"])
    /\ intr' = FALSE

\* The CPU acknowledges the most urgent line and enters its gate.
deliver(n) ==
    /\ intr
    /\ LET top == ready(Master, requests_of_master)
           own == ready(Slave, irr)
       IN  /\ top # {}
           /\ n = IF Min(top) = CASCADE /\ own # {} THEN Min(own) ELSE Min(top)
           /\ irr' = irr \ {n}
           /\ isr' = isr \cup {n, Min(top)}
           /\ enter(vector_of(n))
    /\ UNCHANGED <<imr, base, MASKS>>

\* A request that vanishes before the acknowledge cycle is answered with the
\* lowest-priority vector and no in-service bit.  On the slave the cascade
\* line of the master is in service all the same.
glitch(chip) ==
    /\ intr
    /\ chip \ imr # {}
    /\ chip = Slave => CASCADE \notin imr
    /\ isr' = IF chip = Slave THEN isr \cup {CASCADE} ELSE isr
    /\ enter(vector_of(Max(chip)))
    /\ UNCHANGED <<irr, imr, base, MASKS>>

\* The non-specific end-of-interrupt command, on one controller.
eoi(chip, serving) ==
    IF chip \cap serving = {} THEN serving ELSE serving \ {Min(chip \cap serving)}

-----------------------------------------------------------------------------
(* The driver.                                                             *)

\* Vectors moved, edges forgotten, every line masked.  The masks that were
\* read first are thrown away.
remap ==
    /\ base' = [master |-> MASTER_OFFSET, slave |-> SLAVE_OFFSET]
    /\ irr' = {} /\ isr' = {}
    /\ imr' = Irqs /\ MASKS' = Irqs
    /\ UNCHANGED <<intr, frames>>

chip_of(n) == IF n < 8 THEN Master ELSE Slave

\* Each data-port write copies the driver's masks of one controller.
written(chip, masks, hardware) == (hardware \ chip) \cup (masks \cap chip)

unmasked(n, masks) == masks \ ({n} \cup (IF n >= 8 THEN {CASCADE} ELSE {}))
unmask(n) ==
    /\ MASKS' = unmasked(n, MASKS)
    /\ imr' = written(chip_of(n), MASKS', IF n >= 8 THEN written(Master, MASKS', imr) ELSE imr)
    /\ UNCHANGED <<irr, isr, base, intr, frames>>

\* mask(n) for each of the lines 3 to 15, one after the other: both
\* controllers are written.
mask_all(lines) ==
    /\ MASKS' = MASKS \cup lines
    /\ imr' = written(Slave, MASKS', written(Master, MASKS', imr))

\* The in-service bits that remain after an end-of-interrupt for a vector.
in_service_after(v) ==
    LET n == irq_for_vector(v)
    IN  IF n = -1 THEN isr
        ELSE eoi(Master, IF n >= 8 THEN eoi(Slave, isr) ELSE isr)

=============================================================================

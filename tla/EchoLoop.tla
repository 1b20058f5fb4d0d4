------------------------------ MODULE EchoLoop ------------------------------
(***************************************************************************)
(* From a key stroke to its echo: the IRQ1 handler                         *)
(* (keyboard::interrupt_handler), the scancode ring, keyboard::drain and   *)
(* the idle loop of kmain.rs with its hlt.  The handler runs with          *)
(* interrupts off, so it is one action; it may fall between any two polls  *)
(* of the loop.  The ring is the bounded queue that KeyRing implements.    *)
(***************************************************************************)
EXTENDS Set1Keys, SequencesExt

CONSTANTS Keys,         \* keys that are typed
          MAX_STROKES,  \* bound: strokes typed in a behaviour
          RING_CAP,     \* slots of the ring
          OUT_LEN,      \* events the idle loop drains at a time
          Faults        \* controller faults that may happen

ASSUME EchoAssumption ==
  /\ Keys \subseteq AllKeys
  /\ {MAX_STROKES, RING_CAP, OUT_LEN} \subseteq Nat \ {0}
  /\ Faults \subseteq {"parity", "timeout", "response", "spurious"}

VARIABLES held,     \* keys that are down
          eclipsed, \* of them, those whose twin was released after them
          typed,    \* characters the strokes mean, in order
          strokes,  \* strokes so far
          device,   \* bytes sent by the keyboard, not yet read by the handler
          ring,     \* the scancode ring
          dropped,  \* bytes dropped on a full ring
          noise,    \* bytes the handler read and discarded
          polled,   \* bytes popped from the ring
          st,       \* decoder state
          pc,       \* where the idle loop is
          events,   \* events drained and not yet handled
          n,        \* events the last drain returned
          echoed    \* characters echoed, in order

keyboardVars == <<held, eclipsed, typed, strokes>>
irqVars == <<device, ring, dropped, noise>>
loopVars == <<polled, st, events, n, echoed>>
vars == <<held, eclipsed, typed, strokes, device, ring, dropped, noise,
          polled, st, pc, events, n, echoed>>

Init == /\ held = {} /\ eclipsed = {} /\ typed = <<>> /\ strokes = 0
        /\ device = <<>> /\ ring = <<>> /\ dropped = 0 /\ noise = 0
        /\ polled = 0 /\ st = Reset /\ events = <<>> /\ n = 0
        /\ echoed = <<>>
        /\ pc = "drain"

-----------------------------------------------------------------------------
\* The person at the keyboard.

Stroke(k, down) == /\ strokes < MAX_STROKES
                   /\ strokes' = strokes + 1
                   /\ device' = device \o (IF down THEN Make[k] ELSE Break(k))
                   /\ eclipsed' = Eclipse(eclipsed, held, k, down)
                   /\ UNCHANGED <<ring, dropped, noise, pc, loopVars>>

Press(k) == /\ k \notin held
            /\ Stroke(k, TRUE)
            /\ held' = held \cup {k}
            /\ LET ch == char_for(CodeOf(k), Counts(held' \ eclipsed', ShiftKeys))
               IN  typed' = IF ch = NoChar THEN typed ELSE Append(typed, ch)

Release(k) == /\ k \in held
              /\ Stroke(k, FALSE)
              /\ held' = held \ {k}
              /\ UNCHANGED typed

-----------------------------------------------------------------------------
\* Interrupts.  Any of them resumes a halted CPU.

Woken == IF pc = "halted" THEN "drain" ELSE pc

\* ring_push on the whole ring.  The variant keeps one slot too many free.
ring_push_early(r, b) == IF Len(r) >= RING_CAP - 2 THEN r ELSE Append(r, b)
ring_push(r, b) == IF Len(r) = RING_CAP - 1 THEN r ELSE Append(r, b)

\* A byte arrived: read it once and push it, or count the drop.
irq_key == /\ device # <<>>
           /\ device' = Tail(device)
           /\ ring' = ring_push(ring, Head(device))
           /\ dropped' = dropped + (IF Len(ring) = RING_CAP - 1 THEN 1 ELSE 0)
           /\ pc' = Woken
           /\ UNCHANGED <<noise, keyboardVars, loopVars>>

\* Parity error: the byte is read and discarded.
irq_parity == /\ "parity" \in Faults
              /\ device # <<>>
              /\ device' = Tail(device)
              /\ noise' = noise + 1
              /\ pc' = Woken
              /\ UNCHANGED <<ring, dropped, keyboardVars, loopVars>>

\* Timeout flag: the output buffer is flushed, however much has arrived.
irq_timeout == /\ "timeout" \in Faults
               /\ \E k \in 0 .. Len(device) :
                    /\ device' = SubSeq(device, k + 1, Len(device))
                    /\ noise' = noise + k
               /\ pc' = Woken
               /\ UNCHANGED <<ring, dropped, keyboardVars, loopVars>>

\* A controller response, or nothing at all: no keystroke is touched.
irq_no_key == /\ Faults \cap {"response", "spurious"} # {}
              /\ pc' = Woken
              /\ UNCHANGED <<irqVars, keyboardVars, loopVars>>

\* The timer tick only matters here as what ends a hlt.  The variant is a
\* timer that does not resume the loop.
irq_timer_masked == pc = "halted" /\ UNCHANGED vars
irq_timer == /\ pc = "halted"
             /\ pc' = "drain"
             /\ UNCHANGED <<irqVars, keyboardVars, loopVars>>

-----------------------------------------------------------------------------
\* The idle loop.

\* One turn of drain's while loop: poll is ring_pop, then translate.
drain_poll ==
  /\ pc = "drain"
  /\ Len(events) < OUT_LEN
  /\ IF ring = <<>>
     THEN /\ pc' = "handle" /\ n' = Len(events)
          /\ UNCHANGED <<ring, st, events, polled>>
     ELSE LET r == translate(st, Head(ring))
          IN  /\ ring' = Tail(ring)
              /\ polled' = polled + 1
              /\ st' = r.st
              /\ events' = events \o r.ev
              /\ IF r.ev = <<>>
                 THEN pc' = "handle" /\ n' = Len(events)
                 ELSE UNCHANGED <<pc, n>>
  /\ UNCHANGED <<device, dropped, noise, echoed, keyboardVars>>

\* out is full.
drain_full == /\ pc = "drain"
              /\ Len(events) = OUT_LEN
              /\ pc' = "handle" /\ n' = OUT_LEN
              /\ UNCHANGED <<irqVars, polled, st, events, echoed, keyboardVars>>

\* What handle_key prints for an event: releases and keys without a character
\* print nothing.  The variant echoes releases too.
echo_any(ev) == IF ev.ch = NoChar THEN <<>> ELSE <<ev.ch>>
echo(ev) == IF ~ev.pressed \/ ev.ch = NoChar THEN <<>> ELSE <<ev.ch>>

handle_key == /\ pc = "handle"
              /\ events # <<>>
              /\ echoed' = echoed \o echo(Head(events))
              /\ events' = Tail(events)
              /\ UNCHANGED <<irqVars, polled, st, n, pc, keyboardVars>>

loop_again == /\ pc = "handle" /\ events = <<>> /\ n > 0
              /\ pc' = "drain"
              /\ UNCHANGED <<irqVars, loopVars, keyboardVars>>

halt == /\ pc = "handle" /\ events = <<>> /\ n = 0
        /\ pc' = "halted"
        /\ UNCHANGED <<irqVars, loopVars, keyboardVars>>

idle == drain_poll \/ drain_full \/ handle_key \/ loop_again \/ halt

Next == \/ \E k \in Keys : Press(k) \/ Release(k)
        \/ irq_key \/ irq_parity \/ irq_timeout \/ irq_no_key \/ irq_timer
        \/ idle

\* The CPU runs the loop between interrupts, the controller keeps IRQ1 asserted
\* until its byte is read, and the PIT ticks for ever.
Fairness == WF_vars(idle) /\ WF_vars(irq_key) /\ WF_vars(irq_timer)

Spec == Init /\ [][Next]_vars /\ Fairness

-----------------------------------------------------------------------------

\* Without faults or drops the screen shows what was typed, in order, each
\* character once and with the Shift that was down when it was typed: a Shift
\* that is held counts until the other one is released, as their flag is one.
EchoIsWhatWasTyped == dropped = 0 /\ noise = 0 => IsPrefix(echoed, typed)

SentBytes == polled + Len(ring) + Len(device) + dropped + noise

\* No step of the handler, the ring or the loop makes a byte disappear without
\* a drop or a logged discard: only a stroke changes the total.
BytesAreConserved == [][strokes' = strokes => SentBytes' = SentBytes]_vars

\* Everything that reaches the ring is decoded in the end, although drain gives
\* up on a prefix byte and hlt may follow with bytes pending: the tick resumes it.
RingIsServed == ring # <<>> ~> ring = <<>>

============================================================================

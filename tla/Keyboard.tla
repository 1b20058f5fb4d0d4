------------------------------ MODULE Keyboard ------------------------------
(***************************************************************************)
(* A set-1 keyboard typing on the decoder of keyboard.rs.  A stroke puts   *)
(* the bytes of one press or release on the wire, in the order the source  *)
(* lists them; Decode feeds them to translate one at a time.               *)
(***************************************************************************)
EXTENDS Set1Keys, FiniteSets

CONSTANTS Keys,     \* the keys that are typed, a subset of AllKeys
          ROLLOVER  \* bound: keys that are down together

VARIABLES held,    \* keys that are physically down
          wire,    \* bytes sent and not yet decoded
          st,      \* STATE: modifiers and prefixes
          stroke,  \* the last stroke: its key and direction
          evs,     \* events decoded since that stroke
          eclipsed, \* keys still down whose twin was released after them
          astray   \* a key above the tables was struck: its E0 stays armed

vars == <<held, wire, st, stroke, evs, eclipsed, astray>>

ASSUME KeysAssumption == Keys \subseteq AllKeys /\ ROLLOVER \in Nat \ {0}

NoStroke == [key |-> "none", down |-> FALSE]

Init == /\ held = {}
        /\ wire = <<>>
        /\ st = Reset
        /\ stroke = NoStroke
        /\ evs = <<>>
        /\ eclipsed = {}
        /\ astray = FALSE

Send(k, down, bytes) == /\ wire = <<>>
                        /\ wire' = bytes
                        /\ stroke' = [key |-> k, down |-> down]
                        /\ evs' = <<>>
                        /\ eclipsed' = Eclipse(eclipsed, held, k, down)
                        /\ astray' = (astray \/ k = "media")
                        /\ UNCHANGED st

\* Pause has no release code, so it is never held.
Press(k) == /\ k \notin held
            /\ Cardinality(held) < ROLLOVER
            /\ Send(k, TRUE, Make[k])
            /\ held' = IF k = "pause" THEN held ELSE held \cup {k}

\* Typematic repeat of the key pressed last.
Repeat(k) == /\ k \in held
             /\ stroke = [key |-> k, down |-> TRUE]
             /\ Send(k, TRUE, Make[k])
             /\ UNCHANGED held

Release(k) == /\ k \in held
              /\ Send(k, FALSE, Break(k))
              /\ held' = held \ {k}

Decode == /\ wire # <<>>
          /\ LET r == translate(st, Head(wire))
             IN  st' = r.st /\ evs' = evs \o r.ev
          /\ wire' = Tail(wire)
          /\ UNCHANGED <<held, stroke, eclipsed, astray>>

Next == \/ \E k \in Keys : Press(k) \/ Repeat(k) \/ Release(k)
        \/ Decode

Spec == Init /\ [][Next]_vars

-----------------------------------------------------------------------------

Down(codes) == Counts(held \ eclipsed, codes)

Expected(k, down) ==
  [code |-> CodeOf(k), pressed |-> down, shift |-> Down(ShiftKeys),
   ctrl |-> Down(CtrlKeys), alt |-> Down(AltKeys),
   ch |-> char_for(CodeOf(k), Down(ShiftKeys))]

\* Once the bytes of a stroke are decoded, translate has produced exactly one
\* event: that key, that direction, the modifiers that are down, and the
\* character that goes with them.  Fake Shifts, prefixes and the order of the
\* modifier update are all in play.  There is one flag for the left and the
\* right key of a modifier: a key that is held stops counting when its twin is
\* released, and counts again from the next press or repeat of either; no
\* other overlap of the keys is noticed, and no flag outlives its keys.  Pause
\* is the other exception, but its six bytes, two of them Control's, leave
\* nothing behind that a later stroke could notice.
StrokeIsOneEvent ==
  wire = <<>> /\ ~astray /\ stroke.key \notin {"none", "pause"} =>
    evs = <<Expected(stroke.key, stroke.down)>>

============================================================================

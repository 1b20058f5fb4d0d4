------------------------------ MODULE Set1Keys ------------------------------
(***************************************************************************)
(* The keyboard at the other end of the wire: the bytes a set-1 keyboard   *)
(* sends for the keys the models type.                                     *)
(***************************************************************************)
EXTENDS Scancode

\* PrintScreen and Pause send the sequences of SCANCODE_E0_MAP's caveat and of
\* translate; "media" is an E0 key whose index lies above both tables.
Make == [a |-> <<30>>, enter |-> <<28>>, lshift |-> <<42>>, rshift |-> <<54>>,
         lctrl |-> <<29>>, rctrl |-> <<E0, 29>>, lalt |-> <<56>>,
         ralt |-> <<E0, 56>>,
         up |-> <<E0, 72>>, prtsc |-> <<E0, 42, E0, 55>>,
         pause |-> <<E1, 29, 69, E1, 157, 197>>, media |-> <<E0, 102>>]

AllKeys == DOMAIN Make

Broken(byte) == IF byte = E0 THEN byte ELSE byte + 128

Break(k) == IF k = "prtsc" THEN <<E0, 183, E0, 170>>
            ELSE [i \in DOMAIN Make[k] |-> Broken(Make[k][i])]

CodeOf(k) == CASE k = "pause" -> Pause
               [] k = "prtsc" -> Ext(55)
               [] k \notin {"pause", "prtsc"} /\ Len(Make[k]) = 1 -> Base(Make[k][1])
               [] OTHER -> Ext(Make[k][2])

\* The left and the right key of one modifier.
Twins(k) == {j \in AllKeys : \E S \in {ShiftKeys, CtrlKeys, AltKeys} :
                               {CodeOf(j), CodeOf(k)} \subseteq S}

\* Of the keys that are held, those whose twin was released after they were
\* struck: the two share one flag of the decoder, and it is off.
Eclipse(eclipsed, held, k, down) ==
  IF down THEN eclipsed \ Twins(k)
  ELSE (eclipsed \cup (Twins(k) \cap held)) \ {k}

Counts(keys, codes) == \E k \in keys : CodeOf(k) \in codes

============================================================================

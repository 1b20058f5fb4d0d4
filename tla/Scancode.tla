------------------------------ MODULE Scancode ------------------------------
(***************************************************************************)
(* The scancode decoder of kernel/src/drivers/keyboard.rs, as a function   *)
(* from a decoder state and a byte to the next state and an optional       *)
(* event.  A KeyCode is named by the table it comes from and its index:    *)
(* <<"base", idx>> or <<"E0", idx>>; both tables are injective.  The       *)
(* character a key produces is named by the key and the column chosen.     *)
(***************************************************************************)
EXTENDS Integers, Sequences

E0 == 224
E1 == 225

NoKey == <<"none", 0>>
Pause == <<"E1", 0>>
Base(idx) == <<"base", idx>>
Ext(idx) == <<"E0", idx>>
Unknown(idx) == <<"unknown", idx>>

SCANCODE_BASE(idx) ==
  IF idx = 0 \/ idx \in 84 .. 86 \/ idx \in 89 .. 95 THEN NoKey ELSE Base(idx)

ExtendedCodes == {28, 29, 53, 55, 56} \cup (71 .. 73) \cup {75, 77}
                 \cup (79 .. 83) \cup {91, 92}

lookup_e0(idx) == IF idx \in ExtendedCodes THEN Ext(idx) ELSE NoKey

ShiftKeys == {Base(42), Base(54)}
CtrlKeys == {Base(29), Ext(29)}
AltKeys == {Base(56), Ext(56)}

TwoForms == {Base(i) : i \in (2 .. 13) \cup (16 .. 27) \cup (30 .. 41) \cup (43 .. 53)}
OneForm == {Base(i) : i \in {1, 14, 15, 28, 55, 57} \cup (71 .. 83)} \cup {Ext(28), Ext(53)}

NoChar == <<NoKey, FALSE>>

char_for(code, shift) ==
  CASE code \in TwoForms -> <<code, shift>>
    [] code \in OneForm  -> <<code, FALSE>>
    [] OTHER             -> NoChar

\* reset_state_for_test, and the state at boot.
Reset == [shift |-> FALSE, ctrl |-> FALSE, alt |-> FALSE,
          extended |-> FALSE, pause_prefix |-> FALSE]

Event(st, code, pressed, ch) ==
  <<[code |-> code, pressed |-> pressed, shift |-> st.shift, ctrl |-> st.ctrl,
     alt |-> st.alt, ch |-> ch]>>

\* Modifiers follow both the press and the release of their key.
set_modifier(st, code, down) ==
  [st EXCEPT !.shift = IF code \in ShiftKeys THEN down ELSE @,
             !.ctrl  = IF code \in CtrlKeys THEN down ELSE @,
             !.alt   = IF code \in AltKeys THEN down ELSE @]

\* The tail of translate, once the key is known: modifiers first, then the
\* character.  The variant computes the event before the modifiers change.
deliver_event_first(st, code, released) ==
  [st |-> set_modifier(st, code, ~released),
   ev |-> IF code = NoKey THEN <<>>
          ELSE Event(st, code, ~released, char_for(code, st.shift))]

deliver(st, code, released) ==
  LET new == set_modifier(st, code, ~released)
  IN  [st |-> new,
       ev |-> IF code = NoKey THEN <<>>
              ELSE Event(new, code, ~released, char_for(code, new.shift))]

Swallow(st) == [st |-> st, ev |-> <<>>]

\* The branch of translate that follows an E0 prefix: index 0x2A is the Shift
\* that PrintScreen injects.
translate_extended(st, idx, released) ==
  LET new == [st EXCEPT !.extended = FALSE]
  IN  CASE idx = 42 -> Swallow(new)
        [] idx # 42 /\ lookup_e0(idx) = NoKey ->
             [st |-> new, ev |-> Event(new, Unknown(idx + 128), ~released, NoChar)]
        [] idx # 42 /\ lookup_e0(idx) # NoKey -> deliver(new, lookup_e0(idx), released)

\* One byte.  The event is a sequence of length 0 or 1; the two diagnostic
\* counters are left out.
translate(st, byte) ==
  LET released == byte >= 128
      idx      == byte % 128
  IN  IF byte = E0 THEN Swallow([st EXCEPT !.extended = TRUE])
      ELSE IF byte = E1 THEN Swallow([st EXCEPT !.pause_prefix = TRUE])
      ELSE IF st.pause_prefix
           THEN [st |-> [st EXCEPT !.pause_prefix = FALSE], ev |-> Event(st, Pause, TRUE, NoChar)]
      ELSE IF idx >= 96 THEN Swallow(st)
      ELSE IF st.extended THEN translate_extended(st, idx, released)
      ELSE deliver(st, SCANCODE_BASE(idx), released)

============================================================================

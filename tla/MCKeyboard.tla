----------------------------- MODULE MCKeyboard -----------------------------
(* Key sets for model checking the decoder. *)
EXTENDS Keyboard

\* Both keys of every modifier, a key of every table, the prefixes, the fake
\* Shift, and a key above the tables.
BothOfEach == {"a", "enter", "lshift", "rshift", "lctrl", "rctrl", "lalt",
               "ralt", "up", "prtsc", "pause", "media"}

============================================================================

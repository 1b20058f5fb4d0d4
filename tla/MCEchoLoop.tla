----------------------------- MODULE MCEchoLoop -----------------------------
(* A character, the two keys of a modifier and an E0 key. *)
EXTENDS EchoLoop

MCKeys == {"a", "lshift", "rshift", "up"}
AllFaults == {"parity", "timeout", "response", "spurious"}
NoFaults == {}

============================================================================

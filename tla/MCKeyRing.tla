----------------------------- MODULE MCKeyRing -----------------------------
(* A ring of four slots and two distinct bytes: it fills, wraps and drops. *)
EXTENDS KeyRing

CONSTANTS b1, b2, none

MCByte == {b1, b2}

============================================================================

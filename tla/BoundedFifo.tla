---------------------------- MODULE BoundedFifo ----------------------------
(***************************************************************************)
(* What the scancode ring promises: a first-in first-out queue of at most  *)
(* Capacity bytes.  A byte offered to a full queue is dropped and counted; *)
(* a byte offered otherwise is kept until it is taken; a taker is told     *)
(* that the queue is empty only when it is.                                *)
(***************************************************************************)
EXTENDS Integers, Sequences

CONSTANTS Capacity, Byte, NoByte, CountModulus

VARIABLES q,     \* bytes accepted and not yet taken, oldest first
          lost,  \* bytes dropped, as the wrapping counter reports it
          out    \* the answer to the last take

fvars == <<q, lost, out>>

FInit == q = <<>> /\ lost = 0 /\ out = NoByte

Accept(b) == /\ Len(q) < Capacity
             /\ q' = Append(q, b)
             /\ UNCHANGED <<lost, out>>

Drop == /\ Len(q) = Capacity
        /\ lost' = (lost + 1) % CountModulus
        /\ UNCHANGED <<q, out>>

Take == /\ q # <<>>
        /\ out' = Head(q)
        /\ q' = Tail(q)
        /\ UNCHANGED lost

TakeNothing == /\ q = <<>>
               /\ out' = NoByte
               /\ UNCHANGED <<q, lost>>

FNext == (\E b \in Byte : Accept(b)) \/ Drop \/ Take \/ TakeNothing

FSpec == FInit /\ [][FNext]_fvars

============================================================================

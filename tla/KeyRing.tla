------------------------------ MODULE KeyRing ------------------------------
(***************************************************************************)
(* The lock-free scancode ring of kernel/src/drivers/keyboard.rs, one      *)
(* action per atomic load or store.  The producer is the IRQ1 handler      *)
(* (ring_push), the consumer the main loop (ring_pop and pending).  The    *)
(* two interleave freely, which covers an interrupt between any two        *)
(* instructions of the consumer.  Release/acquire ordering on HEAD and     *)
(* TAIL makes the interleaving of atomic accesses the right memory model.  *)
(***************************************************************************)
EXTENDS Integers, Sequences

CONSTANTS RING_CAP,      \* slots in the ring; one always stays empty
          Byte,          \* scancode bytes
          NoByte,        \* None
          COUNT_MODULUS  \* DROPPED wraps at 2^64 in the code

ASSUME RingAssumption ==
  /\ RING_CAP \in Nat \ {0, 1}
  /\ COUNT_MODULUS \in Nat \ {0}
  /\ NoByte \notin Byte
  /\ Byte # {}

Slots == 0 .. RING_CAP - 1

VARIABLES RING,     \* the cells
          HEAD,     \* next slot to fill, written by the producer only
          TAIL,     \* next slot to read, written by the consumer only
          DROPPED,  \* bytes dropped on a full ring
          prod,     \* producer: where it is, its copy of HEAD, its byte
          cons,     \* consumer: where it is, its copies of TAIL and HEAD, its byte
          popped,   \* what the last ring_pop returned
          counted   \* what the last pending() returned

ringVars == <<RING, HEAD, TAIL, DROPPED, prod, cons, popped, counted>>

\* The successor of a slot; the variant lets the index run off the ring.
next_slot_unwrapped(i) == i + 1
next_slot(i) == (i + 1) % RING_CAP

\* Every cell starts with the same byte (0 in the code).
Init == /\ \E b \in Byte :
             /\ RING = [i \in Slots |-> b]
             /\ prod = [pc |-> "idle", head |-> 0, byte |-> b]
             /\ cons = [pc |-> "idle", tail |-> 0, head |-> 0, byte |-> b]
        /\ HEAD = 0
        /\ TAIL = 0
        /\ DROPPED = 0
        /\ popped = NoByte
        /\ counted = 0

-----------------------------------------------------------------------------
\* ring_push(b)

push_load_head(b) ==
  /\ prod.pc = "idle"
  /\ prod' = [pc |-> "loaded", head |-> HEAD, byte |-> b]
  /\ UNCHANGED <<RING, HEAD, TAIL, DROPPED, cons, popped, counted>>

\* Full when one more step of HEAD would meet TAIL.  The variant forgets to
\* check.
is_full_unchecked(head, tail) == FALSE
is_full(head, tail) == next_slot(head) = tail

push_load_tail ==
  /\ prod.pc = "loaded"
  /\ prod' = [prod EXCEPT !.pc = IF is_full(prod.head, TAIL) THEN "drop" ELSE "store"]
  /\ UNCHANGED <<RING, HEAD, TAIL, DROPPED, cons, popped, counted>>

push_drop ==
  /\ prod.pc = "drop"
  /\ DROPPED' = (DROPPED + 1) % COUNT_MODULUS
  /\ prod' = [prod EXCEPT !.pc = "idle"]
  /\ UNCHANGED <<RING, HEAD, TAIL, cons, popped, counted>>

push_store_cell ==
  /\ prod.pc = "store"
  /\ RING' = [RING EXCEPT ![prod.head] = prod.byte]
  /\ prod' = [prod EXCEPT !.pc = "publish"]
  /\ UNCHANGED <<HEAD, TAIL, DROPPED, cons, popped, counted>>

push_store_head ==
  /\ prod.pc = "publish"
  /\ HEAD' = next_slot(prod.head)
  /\ prod' = [prod EXCEPT !.pc = "idle"]
  /\ UNCHANGED <<RING, TAIL, DROPPED, cons, popped, counted>>

-----------------------------------------------------------------------------
\* ring_pop()

pop_load_tail ==
  /\ cons.pc = "idle"
  /\ cons' = [cons EXCEPT !.pc = "loaded", !.tail = TAIL]
  /\ UNCHANGED <<RING, HEAD, TAIL, DROPPED, prod, popped, counted>>

pop_load_head ==
  /\ cons.pc = "loaded"
  /\ IF cons.tail = HEAD
     THEN cons' = [cons EXCEPT !.pc = "idle"] /\ popped' = NoByte
     ELSE cons' = [cons EXCEPT !.pc = "read"] /\ UNCHANGED popped
  /\ UNCHANGED <<RING, HEAD, TAIL, DROPPED, prod, counted>>

\* The variant publishes the new tail before it has read the cell.
pop_load_cell_late ==
  /\ cons.pc = "read"
  /\ cons' = [cons EXCEPT !.pc = "publish"]
  /\ TAIL' = next_slot(cons.tail)
  /\ UNCHANGED <<RING, HEAD, DROPPED, prod, popped, counted>>

pop_load_cell ==
  /\ cons.pc = "read"
  /\ cons' = [cons EXCEPT !.pc = "publish", !.byte = RING[cons.tail]]
  /\ UNCHANGED <<RING, HEAD, TAIL, DROPPED, prod, popped, counted>>

pop_store_tail ==
  /\ cons.pc = "publish"
  /\ TAIL' = next_slot(cons.tail)
  /\ popped' = cons.byte
  /\ cons' = [cons EXCEPT !.pc = "idle"]
  /\ UNCHANGED <<RING, HEAD, DROPPED, prod, counted>>

-----------------------------------------------------------------------------
\* pending()

pending_load_head ==
  /\ cons.pc = "idle"
  /\ cons' = [cons EXCEPT !.pc = "count", !.head = HEAD]
  /\ UNCHANGED <<RING, HEAD, TAIL, DROPPED, prod, popped, counted>>

\* The variant swaps the operands once HEAD has wrapped below TAIL.
distance_swapped(head, tail) == IF head >= tail THEN head - tail ELSE RING_CAP - head + tail
distance(head, tail) == IF head >= tail THEN head - tail ELSE RING_CAP - tail + head

pending_load_tail ==
  /\ cons.pc = "count"
  /\ counted' = distance(cons.head, TAIL)
  /\ cons' = [cons EXCEPT !.pc = "idle"]
  /\ UNCHANGED <<RING, HEAD, TAIL, DROPPED, prod, popped>>

ring_push == \/ \E b \in Byte : push_load_head(b)
             \/ push_load_tail
             \/ push_drop
             \/ push_store_cell
             \/ push_store_head

ring_pop == pop_load_tail \/ pop_load_head \/ pop_load_cell \/ pop_store_tail

pending == pending_load_head \/ pending_load_tail

Next == ring_push \/ ring_pop \/ pending

Spec == Init /\ [][Next]_ringVars

-----------------------------------------------------------------------------
\* The cells, indices and locals stay in their types; in particular no index
\* leaves the ring, so RING[head] and RING[tail] never panic on a bounds check.
TypeOK ==
  /\ RING \in [Slots -> Byte]
  /\ HEAD \in Slots
  /\ TAIL \in Slots
  /\ DROPPED \in 0 .. COUNT_MODULUS - 1
  /\ prod \in [pc : {"idle", "loaded", "drop", "store", "publish"},
               head : Slots, byte : Byte]
  /\ cons \in [pc : {"idle", "loaded", "read", "publish", "count"},
               tail : Slots, head : Slots, byte : Byte]
  /\ popped \in Byte \cup {NoByte}
  /\ counted \in 0 .. RING_CAP - 1

\* The slots that hold accepted bytes: count of them from TAIL on.
Count == (HEAD - TAIL) % RING_CAP

\* ring_push never writes a cell that holds a byte the consumer has not taken:
\* while it is about to store, its slot is HEAD and HEAD is outside the live run.
StoreHitsAFreeSlot ==
  prod.pc \in {"store", "publish"} =>
    /\ prod.head = HEAD
    /\ next_slot(HEAD) # TAIL

\* What pending() returns is never more than what the ring holds: the bytes it
\* counts are still there, whatever the interrupt handler did in between.
PendingNeverOverstates ==
  cons.pc = "count" => distance(cons.head, TAIL) <= Count

\* The queue the ring implements, and the drops already decided.
Queue == [i \in 1 .. Count |-> RING[(TAIL + i - 1) % RING_CAP]]
Decided == IF prod.pc = "drop" THEN (DROPPED + 1) % COUNT_MODULUS ELSE DROPPED

Fifo == INSTANCE BoundedFifo WITH
  Capacity <- RING_CAP - 1, CountModulus <- COUNT_MODULUS,
  q <- Queue, lost <- Decided, out <- popped

\* The ring implements the bounded queue: bytes come out once each, in order and
\* uncorrupted, "empty" is answered only when it is, and drops happen only when
\* full.
ImplementsFifo == Fifo!FSpec

============================================================================

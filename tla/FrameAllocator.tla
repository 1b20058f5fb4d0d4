--------------------------- MODULE FrameAllocator ---------------------------
(***************************************************************************)
(* What the kernel relies on from a physical frame allocator, without      *)
(* bitmaps, cursors or counters: a pool of frames that is filled once,     *)
(* trimmed before the first frame is handed out, and from then on only     *)
(* moves frames between the pool and their holders.  pmm.rs is shown to    *)
(* implement it (module PmmRefinement).                                    *)
(***************************************************************************)
EXTENDS Integers

CONSTANTS Frame, Client

VARIABLES phase, pool, holds

avars == <<phase, pool, holds>>

AInit ==
  /\ phase = "filling"
  /\ pool = {}
  /\ holds = [c \in Client |-> {}]

\* RAM is added while the firmware memory map is read.
Fill(S) ==
  /\ phase = "filling"
  /\ pool' = pool \cup S
  /\ UNCHANGED <<phase, holds>>

Seal ==
  /\ phase = "filling"
  /\ phase' = "trimming"
  /\ UNCHANGED <<pool, holds>>

\* Frames are withdrawn for good before any frame is handed out.
Withdraw(S) ==
  /\ phase = "trimming"
  /\ pool' = pool \ S
  /\ UNCHANGED <<phase, holds>>

\* A client receives a run of consecutive frames, all from the pool.
Grant(c, first, last) ==
  /\ phase \in {"trimming", "serving"}
  /\ first .. last # {}
  /\ first .. last \subseteq pool
  /\ phase' = "serving"
  /\ pool' = pool \ (first .. last)
  /\ holds' = [holds EXCEPT ![c] = @ \cup (first .. last)]

\* A holder gives one frame back.
Return(c, f) ==
  /\ phase = "serving"
  /\ f \in holds[c]
  /\ pool' = pool \cup {f}
  /\ holds' = [holds EXCEPT ![c] = @ \ {f}]
  /\ UNCHANGED phase

ANext ==
  \/ \E S \in SUBSET Frame : Fill(S)
  \/ Seal
  \/ \E S \in SUBSET Frame : Withdraw(S)
  \/ \E c \in Client, first, last \in Frame : Grant(c, first, last)
  \/ \E c \in Client, f \in Frame : Return(c, f)

ASpec == AInit /\ [][ANext]_avars

============================================================================

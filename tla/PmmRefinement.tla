--------------------------- MODULE PmmRefinement ---------------------------
(***************************************************************************)
(* pmm.rs implements the abstract frame allocator.                         *)
(***************************************************************************)
EXTENDS Pmm

\* The bitmap is filled by pmm::init, trimmed by reserve_range while the
\* cursor has not moved, and serves callers from then on.
Phase == IF ~initialised THEN "filling"
         ELSE IF cursor = 0 THEN "trimming" ELSE "serving"

Abstract == INSTANCE FrameAllocator
              WITH Frame <- Frames, Client <- Clients,
                   phase <- Phase, pool <- free, holds <- own

\* Every behaviour of the bitmap allocator is one of the abstract allocator:
\* whatever the cursor, the word scan and the counters do, callers see frames
\* move only between the pool and a single holder.
ImplementsFrameAllocator == Abstract!ASpec

============================================================================

---------------------------- MODULE AddressSpace ----------------------------
(***************************************************************************)
(* What the virtual memory manager promises its callers, without page      *)
(* tables: a partial map from pages to frames and permissions, and the     *)
(* call in progress.  A page of a small call gets exactly the frame asked  *)
(* for, never in place of another frame; a large page replaces whatever    *)
(* its run of pages was; a small call that meets a large page is lost; no  *)
(* page is ever unmapped; and hardening only takes permissions away, from  *)
(* the inherited identity pages.                                           *)
(***************************************************************************)
EXTENDS Integers

CONSTANTS Pages, Frames,
          Inherited,   \* the inherited pages, each with its frame
          RUN,         \* pages per large page
          Writable,    \* the permissions that let the kernel write
          NoCall
VARIABLES space,   \* the mapping of every page
          large,   \* pages that lie in large pages
          asked    \* the call in progress: its next page, and what is left

vars == <<space, large, asked>>

NotMapped == [frame |-> -1, w |-> FALSE, x |-> FALSE]

Low == DOMAIN Inherited

Init == /\ space = [p \in Pages |-> NotMapped]
        /\ large = {}
        /\ asked = NoCall

\* The identity pages appear together.
Inherit == /\ \A p \in Pages : space[p] = NotMapped
           /\ space' = [p \in Pages |->
                          IF p \in Low
                          THEN [frame |-> Inherited[p], w |-> TRUE, x |-> TRUE]
                          ELSE NotMapped]
           /\ large' = Low

Accept == asked = NoCall /\ UNCHANGED <<space, large>>

Size == IF asked.large THEN RUN ELSE 1

\* The pages a turn of the call maps: one, or the run of a large page.
Turn == asked.va .. (asked.va + Size - 1)

\* The next turn is about the next pages.
Advance == asked.n > 1 => asked' = [asked EXCEPT !.va = @ + Size, !.pa = @ + Size,
                                                 !.n = @ - 1]

Map == \E x \in BOOLEAN :
         space' = [p \in Pages |->
                     IF p \in Turn
                     THEN [frame |-> asked.pa + (p - asked.va),
                           w |-> asked.perm \in Writable, x |-> x]
                     ELSE space[p]]

Place == /\ asked # NoCall /\ ~asked.large /\ asked.va \notin large
         /\ space[asked.va].frame \in {-1, asked.pa}
         /\ Map /\ UNCHANGED large
         /\ Advance

Replace == /\ asked # NoCall /\ asked.large
           /\ Map /\ large' = large \cup Turn
           /\ Advance

Lose == /\ asked # NoCall /\ ~asked.large /\ asked.va \in large
        /\ UNCHANGED <<space, large>>
        /\ Advance

Restrict(p) == /\ space[p].frame = space'[p].frame
               /\ space'[p].w => space[p].w
               /\ space'[p].x => space[p].x

Harden == /\ \A p \in Pages : space'[p] # space[p] => p \in Low /\ Restrict(p)
          /\ UNCHANGED <<large, asked>>

Next == Inherit \/ Accept \/ Place \/ Replace \/ Lose \/ Harden

Spec == Init /\ [][Next]_vars

=============================================================================

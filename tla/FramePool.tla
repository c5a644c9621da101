----------------------------- MODULE FramePool -----------------------------
(***************************************************************************)
(* What the physical memory manager promises its callers, as stated in     *)
(* kernel/include/allocator/pmm.h: a pool of page frames from which        *)
(* pmm_alloc takes one that nobody owns, "zero if out of physical memory", *)
(* and to which pmm_free "returns the allocated page".  Nothing is said of *)
(* the free list, its tail or the bitmap: module Pmm supplies those.       *)
(***************************************************************************)
CONSTANT Frames

VARIABLES
  free,    \* frames nobody owns and pmm_alloc may return
  held,    \* frames returned by pmm_alloc and not given back
  oom      \* did the last pmm_alloc return zero?

poolVars == <<free, held, oom>>

Init ==
  /\ free = {}
  /\ held = {}
  /\ oom = FALSE

(* A batch of frames becomes available: pmm_init and the two reclaims. *)
Donate(S) ==
  /\ free' = free \cup S
  /\ oom' = FALSE
  /\ UNCHANGED held

(* pmm_alloc returns a frame that nobody owns. *)
Take(f) ==
  /\ f \in free
  /\ free' = free \ {f}
  /\ held' = held \cup {f}
  /\ oom' = FALSE

(* pmm_alloc returns zero, and only when there is nothing left. *)
TakeFails ==
  /\ free = {}
  /\ oom' = TRUE
  /\ UNCHANGED <<free, held>>

(* pmm_free gives a frame back. *)
Give(f) ==
  /\ f \in held
  /\ held' = held \ {f}
  /\ free' = free \cup {f}
  /\ oom' = FALSE

Next ==
  \/ \E S \in SUBSET (Frames \ (free \cup held)) : Donate(S)
  \/ \E f \in Frames : Take(f) \/ Give(f)
  \/ TakeFails

Spec == Init /\ [][Next]_poolVars
=============================================================================

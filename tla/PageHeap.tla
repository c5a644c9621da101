------------------------------ MODULE PageHeap ------------------------------
(***************************************************************************)
(* What vmm_alloc and vmm_free promise: runs of whole pages of the kernel  *)
(* heap, no two live runs overlapping, every page of a live run backed by  *)
(* a frame of its own that stays the same until the run is freed.  Free    *)
(* address ranges are cut but never joined, so a page at which a run once  *)
(* began never lies inside a later run: a stale pointer to a run leads to  *)
(* an unmapped page or to the beginning of a run, never into the middle of *)
(* one.  Nothing is said of page tables or of the order of steps.          *)
(***************************************************************************)
EXTENDS Integers

CONSTANTS
  HeapPages,   \* pages of the heap's address range
  Frames       \* physical frames

Pages == 0..HeapPages - 1

Run == [base : Pages, pages : 1..HeapPages]

PagesOf(r) == r.base..r.base + r.pages - 1

PagesOfAll(S) == UNION {PagesOf(r) : r \in S}

Inside(r) == PagesOf(r) \ {r.base}

VARIABLES
  live,      \* the runs allocated and not freed
  backing,   \* the frame behind each of their pages
  starts     \* pages at which runs began or may begin

heapVars == <<live, backing, starts>>

Init == live = {} /\ backing = [p \in {} |-> 0] /\ starts = {}

(* A run that overlaps no live one, on frames that back nothing else. *)
Alloc(r) ==
  /\ PagesOf(r) \subseteq Pages
  /\ PagesOf(r) \cap PagesOfAll(live) = {}
  /\ Inside(r) \cap starts = {}
  /\ live' = live \cup {r}
  /\ starts' = starts \cup {r.base}
  /\ backing' \in [PagesOfAll(live) \cup PagesOf(r) -> Frames]
  /\ \A p \in PagesOfAll(live) : backing'[p] = backing[p]
  /\ \A p, q \in DOMAIN backing' : backing'[p] = backing'[q] => p = q

Free(r) ==
  /\ live' = live \ {r}
  /\ backing' = [p \in PagesOfAll(live \ {r}) |-> backing[p]]
  /\ UNCHANGED starts

(* Free address ranges are cut, outside the live runs. *)
Cut ==
  /\ starts \subseteq starts' /\ starts' \subseteq Pages
  /\ \A r \in live : starts' \cap Inside(r) = {}
  /\ UNCHANGED <<live, backing>>

Next ==
  \/ \E r \in Run : Alloc(r)
  \/ \E r \in live : Free(r)
  \/ Cut

Spec == Init /\ [][Next]_heapVars
=============================================================================

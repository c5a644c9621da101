-------------------------------- MODULE Pmm --------------------------------
(***************************************************************************)
(* The physical memory manager, kernel/src/allocator/pmm.c.                *)
(*                                                                         *)
(* Free page frames form a linked list threaded through their own first    *)
(* word (pmm_node_t.next); a bitmap kept beside the list says which frames *)
(* are free, and its assertions stop the kernel on a double free.  Pages   *)
(* enter the list when pmm_claim_pages walks the memory map for one type   *)
(* of region: usable memory at pmm_init, the ACPI and bootloader regions   *)
(* when they are reclaimed.  The arithmetic that sizes the bitmap and cuts *)
(* regions into pages is in module PmmBoot; here a region type is the      *)
(* sequence of its pages, in memory-map order.                             *)
(*                                                                         *)
(* The kernel is single-threaded, so every function runs to its end (or to *)
(* a failed assertion) without interruption and is one step.               *)
(***************************************************************************)
EXTENDS Integers, Sequences, FiniteSets, Functions

CONSTANTS
  Frames,    \* the page frames of the memory map's claimable regions
  Region,    \* Region[kind] is the sequence of pages of that type
  Data       \* what the owner of a page may leave in its first word

Kinds == {"usable", "bootloader", "acpi"}

(* Physical address zero ends the list and is what pmm_alloc returns when  *)
(* memory is exhausted; the boot protocol never offers that page.          *)
ASSUME FramesAssumption == IsFiniteSet(Frames) /\ 0 \notin Frames

(* Regions of the memory map do not overlap. *)
ASSUME RegionAssumption ==
  /\ Region \in [Kinds -> Seq(Frames)]
  /\ \A k, l \in Kinds : \A i \in DOMAIN Region[k], j \in DOMAIN Region[l] :
        Region[k][i] = Region[l][j] => k = l /\ i = j

VARIABLES
  head,       \* s_freelistHead
  tail,       \* s_freelistTail
  size,       \* s_freelistSize
  word,       \* first word of every page: the list's link, or its owner's data
  bitmap,     \* s_bitmap, as the set of frames whose bit is set
  panicked,   \* an assertion of the PMM failed: kpanic never returns
  held,       \* frames returned by pmm_alloc and not given back since
  claimed,    \* region types already claimed
  freed,      \* was pmm_free ever called?
  misfreed,   \* did a caller free a page that was already free?
  oom         \* did the last pmm_alloc return zero?

(* Only the first six are variables of the program. *)
callers == <<held, claimed, freed, misfreed, oom>>
vars == <<head, tail, size, word, bitmap, panicked, callers>>

Pages(kind) == Range(Region[kind])
ClaimedPages == UNION {Pages(kind) : kind \in claimed}

Init ==
  /\ head = 0
  /\ tail = 0
  /\ size = 0
  /\ word = [f \in Frames \cup {0} |-> 0]
  /\ bitmap = {}
  /\ panicked = FALSE
  /\ held = {}
  /\ claimed = {}
  /\ freed = FALSE
  /\ misfreed = FALSE
  /\ oom = FALSE
-----------------------------------------------------------------------------
(* Variants of the definitions below with one plausible mistake each.  The *)
(* specification never uses them: they show which property notices which   *)
(* mistake.                                                                *)
AlreadyFree_NoCheck(S) == FALSE
MarkUsed_Forgotten(f) == bitmap
WordsAfterFree_NoLink(f) == word
Exhausted_OnePageLeft == head = 0 \/ word[head] = 0
TailAfterClaim_First(kind) ==
  IF Region[kind] = << >> THEN tail ELSE Region[kind][1]
AppendsTo_Always(kind, f) == Region[kind] # << >> /\ f = tail
-----------------------------------------------------------------------------
(* bitmap_mark_free: "Double free detected" when a bit is set already. *)
AlreadyFree(S) == S \cap bitmap # {}

(* bitmap_mark_used: the bit of the allocated frame is cleared. *)
MarkUsed(f) == bitmap \ {f}

(* pmm_alloc takes its early return when the list has no head. *)
Exhausted == head = 0

(* The old tail, if the list is not empty, is linked to the region's first *)
(* page; the tail is believed, not checked.                                *)
AppendsTo(kind, f) == Region[kind] # << >> /\ head # 0 /\ f = tail

TailAfterClaim(kind) ==
  IF Region[kind] = << >> THEN tail ELSE Region[kind][Len(Region[kind])]

(* The link written into the page f of a region being claimed. *)
Successor(kind, f) ==
  LET i == CHOOSE i \in DOMAIN Region[kind] : Region[kind][i] = f
  IN  IF i = Len(Region[kind]) THEN 0 ELSE Region[kind][i + 1]

WordsAfterClaim(kind) ==
  [f \in Frames \cup {0} |->
     IF f \in Pages(kind) THEN Successor(kind, f)
     ELSE IF AppendsTo(kind, f) THEN Region[kind][1]
     ELSE word[f]]

(* pmm_claim_pages appends every page of the region type at the tail. *)
pmm_claim_pages(kind) ==
  /\ claimed' = claimed \cup {kind}
  /\ oom' = FALSE
  /\ UNCHANGED <<held, freed, misfreed>>
  /\ IF AlreadyFree(Pages(kind))
     THEN panicked' = TRUE /\ UNCHANGED <<head, tail, size, word, bitmap>>
     ELSE /\ bitmap' = bitmap \cup Pages(kind)
          /\ word' = WordsAfterClaim(kind)
          /\ head' = IF head = 0 /\ Region[kind] # << >>
                     THEN Region[kind][1] ELSE head
          /\ tail' = TailAfterClaim(kind)
          /\ size' = size + Len(Region[kind])
          /\ UNCHANGED panicked

(* Boot: the usable regions are claimed before anything is allocated. *)
pmm_init ==
  /\ ~panicked
  /\ claimed = {}
  /\ pmm_claim_pages("usable")

(* Each reclaim is called at most once: the kernel calls the ACPI one in   *)
(* acpi_init and nothing calls the other yet.                              *)
pmm_reclaim(kind) ==
  /\ "usable" \in claimed
  /\ kind \notin claimed
  /\ pmm_claim_pages(kind)

pmm_reclaim_bootloader_pages == ~panicked /\ pmm_reclaim("bootloader")

pmm_reclaim_acpi_pages == ~panicked /\ pmm_reclaim("acpi")

(* pmm_alloc pops the head of the list; the tail is reset only by a call   *)
(* that finds the list empty.                                              *)
pmm_alloc ==
  /\ ~panicked
  /\ "usable" \in claimed
  /\ UNCHANGED <<word, claimed, freed, misfreed>>
  /\ oom' = Exhausted
  /\ IF Exhausted
     THEN tail' = 0 /\ UNCHANGED <<head, size, bitmap, panicked, held>>
     ELSE /\ head' = word[head]
          /\ size' = size - 1
          /\ bitmap' = MarkUsed(head)
          /\ panicked' = (head \notin bitmap)
          /\ held' = IF head \in bitmap THEN held \cup {head} ELSE held
          /\ UNCHANGED tail

WordsAfterFree(f) == [word EXCEPT ![f] = head]

SizeAfterFree(f) == size + 1

(* pmm_free pushes the page at the head; the tail is not touched, even if  *)
(* the list was empty.  A caller frees a page it holds or, by mistake, one *)
(* that it has freed before.                                               *)
pmm_free(f) ==
  /\ ~panicked
  /\ freed' = TRUE
  /\ misfreed' = (misfreed \/ f \in bitmap)
  /\ oom' = FALSE
  /\ held' = held \ {f}
  /\ UNCHANGED <<tail, claimed>>
  /\ IF AlreadyFree({f})
     THEN panicked' = TRUE /\ UNCHANGED <<head, size, word, bitmap>>
     ELSE /\ bitmap' = bitmap \cup {f}
          /\ word' = WordsAfterFree(f)
          /\ size' = SizeAfterFree(f)
          /\ head' = f
          /\ UNCHANGED panicked

(* The owner of a page uses it, its first word included: for one, a page   *)
(* table is cleared as soon as its frame is allocated.                     *)
OwnerWrites(f, d) ==
  /\ ~panicked
  /\ word' = [word EXCEPT ![f] = d]
  /\ UNCHANGED <<head, tail, size, bitmap, panicked, callers>>

(* kpanic ends in halt_catchfire, which never returns. *)
halt_catchfire == panicked /\ UNCHANGED vars

Next ==
  \/ pmm_init
  \/ pmm_reclaim_bootloader_pages
  \/ pmm_reclaim_acpi_pages
  \/ pmm_alloc
  \/ \E f \in held \cup bitmap : pmm_free(f)
  \/ \E f \in held, d \in Data : OwnerWrites(f, d)
  \/ halt_catchfire

(* The functions of pmm.h called in any order. *)
Spec == Init /\ [][Next]_vars

(* Variant: reclaims come whenever they like; never used below. *)
ReclaimBeforeFree_Any == TRUE

(* kmain's order: acpi_init reclaims before the kernel frees anything. *)
ReclaimBeforeFree == claimed' # claimed => ~freed

KernelNext == Next /\ ReclaimBeforeFree
KernelSpec == Init /\ [][KernelNext]_vars
-----------------------------------------------------------------------------
(* Every variable keeps its type; in particular s_freelistSize never wraps *)
(* below zero, and the head is a frame or zero whatever owners wrote.      *)
TypeOK ==
  /\ head \in Frames \cup {0}
  /\ tail \in Frames \cup {0}
  /\ size \in Nat
  /\ word \in [Frames \cup {0} -> Frames \cup {0} \cup Data]
  /\ bitmap \in SUBSET Frames
  /\ held \in SUBSET Frames
  /\ claimed \in SUBSET Kinds
  /\ panicked \in BOOLEAN /\ freed \in BOOLEAN
  /\ misfreed \in BOOLEAN /\ oom \in BOOLEAN

(* The head, and every link of a free page, leads to a free page or ends.  *)
LinksStayFree ==
  /\ head \in bitmap \cup {0}
  /\ \A f \in bitmap : word[f] \in bitmap \cup {0}

(* No free page follows two pages, and none precedes the head: a page can  *)
(* be handed out by pmm_alloc only once.                                   *)
LinksDistinct ==
  \A f \in bitmap :
    /\ word[f] # 0 => word[f] # head
    /\ \A g \in bitmap : word[f] = word[g] /\ word[f] # 0 => f = g

(* The free list is sound in every order of calls: following it from the   *)
(* head meets only free pages, each at most once, although the links lie   *)
(* in pages that their owners overwrote while they had them.               *)
FreelistSound == LinksStayFree /\ LinksDistinct

(* Every page claimed has exactly one place: free, or held by a caller.    *)
OneOwner ==
  /\ held \cap bitmap = {}
  /\ held \cup bitmap = ClaimedPages

(* pmm_get_pages_count tells the number of free frames. *)
SizeCountsFree == size = Cardinality(bitmap)

(* The assertions stop the kernel exactly when a caller frees a page that  *)
(* is already free: every such call is caught, and no correct sequence of  *)
(* calls is stopped.                                                       *)
PanicIffDoubleFree == panicked <=> misfreed

(* Following links from the pages of S stays in S. *)
Closed(S) == \A f \in S : word[f] \in S \cup {0}

(* Every free page can be reached from the head: whatever set contains the *)
(* head and the successors of its members contains every free page.        *)
NoPageLost ==
  \A S \in SUBSET bitmap : head \in S \cup {0} /\ Closed(S) => S = bitmap

(* No PMM function writes into a page that a caller owns, nor to physical  *)
(* address zero: only the owner's own steps change such a page.            *)
OwnedPagesUntouched ==
  [][ (\E f \in held, d \in Data : OwnerWrites(f, d))
      \/ \A f \in (held \cap held') \cup {0} : word'[f] = word[f] ]_vars

(* pmm.h: pmm_alloc "returns a physical address to the free page, zero if  *)
(* out of physical memory", so it returns zero only when nothing is free.  *)
ZeroMeansOutOfMemory == oom => bitmap = {}

(* The pool of frames that pmm.h promises is what pmm.c implements. *)
Pool == INSTANCE FramePool WITH free <- bitmap

ImplementsFramePool == Pool!Spec
=============================================================================

------------------------------ MODULE PmmBoot ------------------------------
(***************************************************************************)
(* How pmm.c sizes its bitmap, where it puts it and how it cuts the        *)
(* regions of the memory map into pages: the arithmetic below module Pmm,  *)
(* in the widths the code computes it.  Addresses and sizes are size_t;    *)
(* div_ceil and div_floor take and return int, so every address, frame     *)
(* count and length is truncated on the way in and sign-extended on the    *)
(* way out.                                                                *)
(***************************************************************************)
EXTENDS Integers, Sequences, FiniteSets, FiniteSetsExt

CONSTANTS
  PageSize,   \* PAGE_SIZE
  ByteBits,   \* frames that one byte of the bitmap covers (8 in the code)
  IntValues,  \* values of an int (2^32 in the code)
  SizeValues, \* values of a size_t and of an address (2^64)
  MemMaps     \* the memory maps the boot loader may hand over

ASSUME WidthsAssumption ==
  /\ IntValues \in Nat \ {0} /\ SizeValues \in Nat /\ IntValues < SizeValues
  /\ {PageSize, ByteBits} \subseteq 1..(IntValues \div 2) - 1

Claimable == {"usable", "bootloader", "acpi"}
Entry == [base : Nat, length : Nat, kind : Claimable \cup {"reserved"}]

(* The boot protocol lists the regions in ascending order, not overlapping, *)
(* and never calls the first page of memory usable.                        *)
ASSUME MemMapsAssumption ==
  \A m \in MemMaps :
    /\ m \in Seq(Entry)
    /\ \A i, j \in DOMAIN m : i < j => m[i].base + m[i].length <= m[j].base
    /\ \A i \in DOMAIN m : m[i].kind = "usable" => m[i].base # 0

VARIABLES
  memmap,       \* the entries, which bitmap_bootstrap edits in place
  bitmapFrames, \* s_bitmapFrames
  bitmapAt,     \* s_bitmap as a physical address, 0 before bitmap_init
  bitmapBytes,  \* bytes of the bitmap that were cleared
  pages,        \* start addresses of the pages put into the free list
  claimed,      \* region types already claimed
  failed        \* the assertion or panic that stopped the kernel, or "no"

vars == <<memmap, bitmapFrames, bitmapAt, bitmapBytes, pages, claimed, failed>>

Init ==
  /\ memmap \in MemMaps
  /\ bitmapFrames = 0
  /\ bitmapAt = 0
  /\ bitmapBytes = 0
  /\ pages = {}
  /\ claimed = {}
  /\ failed = "no"
-----------------------------------------------------------------------------
(* C conversions: to int (the compiler wraps), to size_t, and a division   *)
(* that rounds toward zero.                                                *)
ToInt(n) ==
  LET m == n % IntValues
  IN  IF m < IntValues \div 2 THEN m ELSE m - IntValues

ToSize(n) == n % SizeValues

Quotient(a, b) == IF a >= 0 THEN a \div b ELSE -((-a) \div b)

(* Variants with one plausible mistake each, which no action uses. *)
pages_possible_Short(e) == ToSize(Quotient(ToInt(e.length) - 1, PageSize))
Relevant_UsableOnly == {"usable"}
InEntry_NotCut(i, at, needed) == memmap[i]
Fits_Strictly(e, needed) == e.kind = "usable" /\ e.length > needed

(* div_ceil: (a + b - 1) / b in int.  Where the sum overflows the compiler *)
(* may wrap it or compute it in a wider register.                          *)
div_ceil(a, b) ==
  LET sum == ToInt(a) + b - 1
  IN  {Quotient(s, b) : s \in {sum, ToInt(sum)}}

(* pagesPossible: div_floor in int, widened again to size_t. *)
pages_possible(e) == ToSize(Quotient(ToInt(e.length), PageSize))

frame_of(phys) == phys \div PageSize

(* bitmap_relevant_type: the types whose regions the bitmap must cover. *)
Relevant == {"usable", "bootloader", "acpi"}

(* The end of the last region that the bitmap must cover. *)
highest(m) ==
  LET ends == {m[i].base + m[i].length :
                 i \in {j \in DOMAIN m : m[j].kind \in Relevant}}
  IN  Max(ends \cup {0})

(* A region bitmap_bootstrap accepts. *)
Fits(e, needed) == e.kind = "usable" /\ e.length >= needed

(* The region that holds the bitmap loses its first pages. *)
InEntry(i, at, needed) ==
  IF i = at
  THEN [memmap[i] EXCEPT !.base = @ + needed, !.length = @ - needed]
  ELSE memmap[i]

(* bitmap_bootstrap: the first region that fits, or a panic. *)
bitmap_bootstrap(bytes) ==
  \E q \in div_ceil(bytes, PageSize) :
    LET needed == ToSize(q * PageSize)
        fitting == {i \in DOMAIN memmap : Fits(memmap[i], needed)}
    IN  IF fitting = {}
        THEN /\ failed' = "no usable region large enough"
             /\ UNCHANGED <<memmap, bitmapAt, bitmapBytes>>
        ELSE LET at == Min(fitting)
             IN  /\ bitmapAt' = memmap[at].base
                 /\ bitmapBytes' = bytes
                 /\ memmap' = [i \in DOMAIN memmap |-> InEntry(i, at, needed)]
                 /\ UNCHANGED failed

(* bitmap_init: one bit for every frame below the highest address. *)
bitmap_init ==
  /\ failed = "no"
  /\ bitmapAt = 0
  /\ \E frames \in div_ceil(highest(memmap), PageSize) :
       /\ bitmapFrames' = ToSize(frames)
       /\ \E bytes \in div_ceil(ToSize(frames), ByteBits) :
            bitmap_bootstrap(ToSize(bytes))
  /\ UNCHANGED <<pages, claimed>>

(* The pages that pmm_claim_pages cuts a region into, in ascending order   *)
(* but for a count so large that the addresses wrap.                       *)
Cut(e) ==
  {ToSize(e.base + j * PageSize) : j \in 0..pages_possible(e) - 1}

(* bitmap_mark_free stops at the first page out of the bitmap's range or   *)
(* marked already; the pages before it are in the free list by then.       *)
pmm_claim_pages(kind) ==
  LET cut == UNION {Cut(memmap[i]) :
                      i \in {j \in DOMAIN memmap : memmap[j].kind = kind}}
      outside == {p \in cut : frame_of(p) >= bitmapFrames}
      twice == {p \in cut : \/ \E q \in pages : frame_of(p) = frame_of(q)
                            \/ \E q \in cut : q < p /\ frame_of(p) = frame_of(q)}
      stop == outside \cup twice
  IN  /\ claimed' = claimed \cup {kind}
      /\ pages' = pages \cup {p \in cut : \A q \in stop : p < q}
      /\ failed' = IF stop = {} THEN failed
                   ELSE IF Min(stop) \in outside THEN "frame out of range"
                   ELSE "double free"
      /\ UNCHANGED <<memmap, bitmapFrames, bitmapAt, bitmapBytes>>

Booted == failed = "no" /\ bitmapAt # 0

pmm_init_claim == Booted /\ claimed = {} /\ pmm_claim_pages("usable")

pmm_reclaim_acpi_pages ==
  /\ Booted
  /\ "usable" \in claimed /\ "acpi" \notin claimed
  /\ pmm_claim_pages("acpi")

pmm_reclaim_bootloader_pages ==
  /\ Booted
  /\ "usable" \in claimed /\ "bootloader" \notin claimed
  /\ pmm_claim_pages("bootloader")

(* Every region is claimed, or the kernel has stopped. *)
Done == (failed # "no" \/ claimed = Claimable) /\ UNCHANGED vars

Next ==
  \/ bitmap_init
  \/ pmm_init_claim
  \/ pmm_reclaim_acpi_pages
  \/ pmm_reclaim_bootloader_pages
  \/ Done

Spec == Init /\ [][Next]_vars
-----------------------------------------------------------------------------
(* Sizes and addresses fit the types of pmm.c. *)
TypeOK ==
  /\ memmap \in Seq(Entry)
  /\ bitmapFrames \in 0..SizeValues - 1
  /\ bitmapAt \in Nat /\ bitmapBytes \in Nat
  /\ \A p \in pages : p \in Nat
  /\ claimed \in SUBSET Claimable
  /\ failed \in {"no", "no usable region large enough",
                 "frame out of range", "double free"}

(* The bytes of the bitmap that bitmap_test, _set and _clear touch for a   *)
(* page of the list are bytes that bitmap_bootstrap cleared.               *)
BitmapLargeEnough ==
  \A p \in pages : frame_of(p) \div ByteBits < bitmapBytes

(* pmm.c:43: any region that may be handed to the free list is covered by  *)
(* the bitmap; claiming it never fails, no page is marked twice, and every *)
(* byte of the bitmap that is looked at has been cleared.                  *)
ClaimsSucceed ==
  /\ TypeOK
  /\ BitmapLargeEnough
  /\ failed \notin {"frame out of range", "double free"}

(* No page of the list holds a byte of the bitmap itself. *)
BitmapNotHandedOut ==
  \A p \in pages :
    p + PageSize <= bitmapAt \/ bitmapAt + bitmapBytes <= p

(* No two pages of the list overlap, and each lies inside a region of a    *)
(* type that has been claimed.                                             *)
PagesInsideRegions ==
  \A p \in pages :
    /\ \A q \in pages : p < q => p + PageSize <= q
    /\ \E i \in DOMAIN memmap :
         /\ memmap[i].kind \in claimed
         /\ memmap[i].base <= p
         /\ p + PageSize <= memmap[i].base + memmap[i].length

(* A whole page of a claimed region is never left out: what the list has   *)
(* of a region falls short of it by less than a page.                      *)
NoPageLeftOut ==
  failed = "no" =>
    \A i \in DOMAIN memmap : memmap[i].kind \in claimed =>
      Cardinality({p \in pages : /\ memmap[i].base <= p
                                 /\ p < memmap[i].base + memmap[i].length})
        = memmap[i].length \div PageSize

(* Regions are cut into all their whole pages, and into nothing else. *)
RegionsCutExactly == PagesInsideRegions /\ NoPageLeftOut

(* The boot panics with "No usable region large enough for PMM bitmap"     *)
(* only if no usable region has room for one bit per frame.                *)
RoomPanicIsReal ==
  LET Ceil(a, b) == (a + b - 1) \div b
      frames == Ceil(highest(memmap), PageSize)
      bytes == Ceil(frames, ByteBits)
  IN  failed = "no usable region large enough" =>
        \A i \in DOMAIN memmap :
          memmap[i].kind = "usable" =>
            memmap[i].length < Ceil(bytes, PageSize) * PageSize
=============================================================================

--------------------------- MODULE VmmHeapProofs ---------------------------
(***************************************************************************)
(* Proofs about the kernel heap, for every size of the heap, every number  *)
(* of slots and frames, every set of run lengths and every page-table      *)
(* layout: the pages are partitioned, mapped exactly while they are live,  *)
(* every frame is accounted for, and the abstract page heap is implemented.*)
(***************************************************************************)
EXTENDS VmmHeap, WellFoundedInduction, TLAPS

(* What the fields of the call in progress may be. *)
CallInRange ==
  /\ call.pages # 0 /\ call.done <= call.pages
  /\ call.op = "none" => call = Idle
  /\ call.frame # NoFrame => call.op = "alloc" /\ call.done < call.pages
  /\ panicked = "heap_exhausted" =>
       call.op = "alloc" /\ call.base = 0 /\ call.done = 0

(* A mapped page has every table on its walk. *)
WalksComplete == \A p \in Mapped : Missing(p) = {}

(* The inductive invariant. *)
Inv ==
  /\ TypeOK
  /\ CallInRange
  /\ HeapPartition
  /\ MappedIffLive
  /\ WalksComplete
  /\ FramesAccountedFor
-----------------------------------------------------------------------------
LEMMA MinIn ==
  ASSUME NEW S \in SUBSET Nat, S # {}
  PROVE  Min(S) \in S
<1>1. PICK x \in S : \A y \in S : ~(<<y, x>> \in OpToRel(<, Nat))
  BY WFMin, NatLessThanWellFounded
<1>2. \A y \in S : ~(y < x)
  BY <1>1 DEF OpToRel
<1>3. \A y \in S : x <= y
  BY <1>2
<1>4. QED  BY <1>3 DEF Min

(* What TypeOK says of the numbers, in the form that arithmetic needs. *)
SlotRange == [base : Pages, pages : 1..HeapPages, used : BOOLEAN]

LEMMA NumbersOK ==
  ASSUME TypeOK
  PROVE  /\ HeapPages \in Nat /\ HeapPages # 0
         /\ bump \in Nat /\ bump <= HeapPages
         /\ call.base \in Nat /\ call.base < HeapPages
         /\ call.pages \in Nat /\ call.done \in Nat
         /\ call.frame \in Frames \cup {NoFrame}
         /\ Page \in Nat
         /\ Pages \subseteq Nat
         /\ DOMAIN ranges = 1..Len(ranges) /\ Len(ranges) \in Nat
         /\ \A i \in DOMAIN ranges : ranges[i] \in SlotRange
<1>1. HeapPages \in Nat /\ HeapPages # 0
  BY HeapAssumption
<1>2. bump \in Nat /\ bump <= HeapPages
  <2>1. bump \in 0..HeapPages
    BY DEF TypeOK
  <2>2. QED  BY <1>1, <2>1
<1>3. /\ call.base \in Nat /\ call.base < HeapPages
      /\ call.pages \in Nat /\ call.done \in Nat
      /\ call.frame \in Frames \cup {NoFrame}
  <2>1. call \in [op : {"none", "alloc", "free"}, base : Pages, pages : Nat,
                  done : Nat, frame : Frames \cup {NoFrame}]
    BY DEF TypeOK
  <2>2. /\ call.base \in Pages /\ call.pages \in Nat /\ call.done \in Nat
        /\ call.frame \in Frames \cup {NoFrame}
    BY <2>1
  <2>3. QED  BY <1>1, <2>2 DEF Pages
<1>4. Page \in Nat
  BY <1>3 DEF Page
<1>5. ranges \in Seq(SlotRange)
  BY DEF TypeOK, SlotRange
<1>6. /\ DOMAIN ranges = 1..Len(ranges) /\ Len(ranges) \in Nat
      /\ \A i \in DOMAIN ranges : ranges[i] \in SlotRange
  BY <1>5
<1>7. QED  BY <1>1, <1>2, <1>3, <1>4, <1>6 DEF Pages

(* A run below the bump pointer is a run of heap pages. *)
LEMMA RangeBounds ==
  ASSUME TypeOK, HeapPartition, NEW i \in FreeSlots
  PROVE  /\ ranges[i] \in SlotRange
         /\ ranges[i].base \in Nat /\ ranges[i].pages \in Nat
         /\ ranges[i].pages # 0 /\ ranges[i].used
         /\ PagesOf(ranges[i]) \subseteq FreePages
         /\ ranges[i].base + ranges[i].pages <= bump
<1>1. i \in DOMAIN ranges /\ ranges[i].used
  BY DEF FreeSlots
<1>2. ranges[i] \in SlotRange
  BY <1>1, NumbersOK
<1>3. /\ ranges[i].base \in Nat /\ ranges[i].pages \in Nat
      /\ ranges[i].pages # 0
  <2>1. PICK b \in Pages, n \in 1..HeapPages : ranges[i].base = b /\ ranges[i].pages = n
    BY <1>2 DEF SlotRange
  <2>2. b \in Nat
    BY NumbersOK
  <2>3. n \in Nat /\ n # 0
    BY HeapAssumption
  <2>4. QED  BY <2>1, <2>2, <2>3
<1>4. PagesOf(ranges[i]) \subseteq FreePages
  BY DEF FreePages
<1>5. PagesOf(ranges[i]) \subseteq 0..bump - 1
  BY <1>4 DEF HeapPartition
<1>6. ranges[i].base + ranges[i].pages - 1 \in PagesOf(ranges[i])
  <2>1. PICK b \in Nat, n \in Nat : ranges[i].base = b /\ ranges[i].pages = n
    BY <1>3
  <2>2. n # 0 /\ PagesOf(ranges[i]) = b..b + n - 1
    BY <1>3, <2>1 DEF PagesOf
  <2>3. b + n - 1 \in b..b + n - 1
    BY <2>2
  <2>4. QED  BY <2>1, <2>2, <2>3
<1>7. ranges[i].base + ranges[i].pages <= bump
  <2>1. PICK b \in Nat, n \in Nat : ranges[i].base = b /\ ranges[i].pages = n
    BY <1>3
  <2>2. b + n - 1 \in 0..bump - 1
    BY <1>5, <1>6, <2>1
  <2>3. bump \in Nat
    BY NumbersOK
  <2>4. b + n <= bump
    BY <2>2, <2>3
  <2>5. QED  BY <2>1, <2>4
<1>8. QED  BY <1>1, <1>2, <1>3, <1>4, <1>7

(* The pages of the call in progress lie below the bump pointer. *)
LEMMA CallBounds ==
  ASSUME TypeOK, CallInRange, HeapPartition,
         call.op # "none", panicked # "heap_exhausted"
  PROVE  /\ PagesOf(call) \subseteq Pages
         /\ call.base + call.pages <= bump
         /\ call.pages \in 1..HeapPages
         /\ PagesOf(call) \cap (LivePages \cup FreePages) = {}
         /\ call.done < call.pages => Page \in PagesOf(call)
<1>1. PagesOf(call) \subseteq 0..bump - 1
  BY DEF HeapPartition, CallPages
<1>2. /\ call.base \in Nat /\ call.pages \in Nat /\ call.pages # 0
      /\ call.done \in Nat /\ bump \in Nat /\ bump <= HeapPages
      /\ HeapPages \in Nat
  BY NumbersOK DEF CallInRange
<1>3. call.base + call.pages - 1 \in PagesOf(call)
  BY <1>2 DEF PagesOf
<1>4. call.base + call.pages <= bump
  BY <1>1, <1>2, <1>3
<1>5. call.pages \in 1..HeapPages
  BY <1>2, <1>4
<1>6. call.done < call.pages => Page \in PagesOf(call)
  BY <1>2 DEF Page, PagesOf
<1>7. PagesOf(call) \subseteq Pages
  BY <1>1, <1>2 DEF Pages
<1>8. PagesOf(call) \cap (LivePages \cup FreePages) = {}
  BY DEF HeapPartition, CallPages
<1>9. QED  BY <1>4, <1>5, <1>6, <1>7, <1>8

LEMMA InitInv == Init => Inv
<1> SUFFICES ASSUME Init PROVE Inv
  OBVIOUS
<1> USE DEF Init
<1>1. TypeOK
  BY HeapAssumption DEF TypeOK, Pages, Idle
<1>2. CallInRange
  BY DEF CallInRange, Idle
<1>3. HeapPartition
  <2>1. LivePages = {} /\ FreePages = {} /\ CallPages = {} /\ FreeSlots = {}
    BY DEF LivePages, FreePages, FreeSlots, CallPages, Idle
  <2>2. QED  BY <2>1 DEF HeapPartition
<1>4. MappedIffLive
  BY DEF MappedIffLive, LivePages, Idle
<1>5. WalksComplete
  BY DEF WalksComplete, Mapped
<1>6. FramesAccountedFor
  BY DEF FramesAccountedFor, Mapped, Present, Idle
<1>7. QED  BY <1>1, <1>2, <1>3, <1>4, <1>5, <1>6 DEF Inv

(* Steps that change neither tables nor entries nor who holds a frame keep *)
(* the frames' accounts.                                                   *)
LEMMA SameFrames ==
  ASSUME FramesAccountedFor, UNCHANGED <<free, held, table, leaf>>,
         call'.frame = call.frame
  PROVE  FramesAccountedFor'
BY DEF FramesAccountedFor, Mapped, Present

LEMMA SameWalks ==
  ASSUME WalksComplete, UNCHANGED <<table, leaf>>
  PROVE  WalksComplete'
BY DEF WalksComplete, Mapped, Missing
-----------------------------------------------------------------------------
(* vmm_alloc: a run is cut from a free range, or taken at the bump pointer. *)
LEMMA AllocKeepsInv ==
  ASSUME Inv, NEW n \in Sizes, vmm_alloc(n)
  PROVE  Inv'
<1> USE DEF Inv
<1> DEFINE large == {i \in DOMAIN ranges : ranges[i].used /\ ranges[i].pages >= n}
           i == Min(large)
<1>1. n \in Nat \ {0}
  BY HeapAssumption
<1>2. call = Idle /\ panicked = "no" /\ UNCHANGED <<free, held, oom, table, leaf, live>>
  BY DEF vmm_alloc, pool
<1>3. LivePages' = LivePages /\ CallPages = {}
  BY <1>2 DEF LivePages, CallPages, Idle
<1>4. CASE large # {}
                /\ Start("alloc", ranges[i].base, n)
                /\ ranges' = [ranges EXCEPT ![i] = Shrunk(@, n)]
                /\ UNCHANGED <<bump, table, leaf, live, panicked>>
  <2>1. i \in DOMAIN ranges /\ ranges[i].used /\ ranges[i].pages >= n
    <3>1. large \in SUBSET Nat
      BY NumbersOK
    <3>2. i \in large
      BY <1>4, <3>1, MinIn
    <3>3. QED  BY <3>2
  <2> HIDE DEF i, large
  <2> DEFINE r == ranges[i]
  <2>2. i \in FreeSlots
    BY <2>1 DEF FreeSlots
  <2>3. /\ r \in SlotRange /\ r.base \in Nat /\ r.pages \in Nat /\ r.pages # 0
        /\ r.used /\ PagesOf(r) \subseteq FreePages
    BY <2>2, RangeBounds
  <2>4. r.base + r.pages <= bump
    BY <2>2, RangeBounds
  <2>5. call' = [op |-> "alloc", base |-> r.base, pages |-> n, done |-> 0,
                 frame |-> NoFrame]
    BY <1>4 DEF Start
  <2>6. DOMAIN ranges' = DOMAIN ranges
        /\ ranges'[i] = Shrunk(r, n)
        /\ \A j \in DOMAIN ranges \ {i} : ranges'[j] = ranges[j]
    <3>1. ranges \in Seq(SlotRange)
      BY DEF TypeOK, SlotRange
    <3>2. QED  BY <1>4, <2>1, <3>1
  <2>7. Shrunk(r, n) \in SlotRange
    <3>1. CASE r.pages > n
      <4>1. r.base + n \in Pages /\ r.pages - n \in 1..HeapPages
        <5>1. /\ bump \in Nat /\ bump <= HeapPages /\ HeapPages \in Nat
              /\ r.pages <= HeapPages
          BY <2>3, NumbersOK DEF SlotRange
        <5>2. QED  BY <1>1, <2>3, <2>4, <3>1, <5>1 DEF Pages
      <4>2. QED  BY <2>3, <3>1, <4>1 DEF Shrunk, SlotRange
    <3>2. CASE ~(r.pages > n)
      BY <2>3, <3>2 DEF Shrunk, SlotRange
    <3>3. QED  BY <3>1, <3>2
  <2>8. TypeOK'
    <3>1. ranges \in Seq(SlotRange)
      BY DEF TypeOK, SlotRange
    <3>2. ranges' \in Seq(SlotRange)
      BY <1>4, <2>1, <2>7, <3>1
    <3>3. call' \in [op : {"none", "alloc", "free"}, base : Pages, pages : Nat,
                     done : Nat, frame : Frames \cup {NoFrame}]
      BY <1>1, <2>3, <2>5 DEF SlotRange
    <3>4. QED  BY <1>2, <1>4, <3>2, <3>3 DEF TypeOK, SlotRange
  <2>9. CallInRange'
    BY <1>1, <1>2, <1>4, <2>5 DEF CallInRange
  <2>10. /\ PagesOf(r) = PagesOf(call') \cup
                            (IF r.pages > n THEN PagesOf(Shrunk(r, n)) ELSE {})
         /\ PagesOf(call') \cap PagesOf(Shrunk(r, n)) = {} \/ ~(r.pages > n)
    <3>1. CASE r.pages > n
      <4>1. Shrunk(r, n).base = r.base + n /\ Shrunk(r, n).pages = r.pages - n
        BY <2>3, <3>1 DEF Shrunk, SlotRange
      <4>2. QED  BY <1>1, <2>3, <2>5, <3>1, <4>1 DEF PagesOf
    <3>2. CASE ~(r.pages > n)
      <4>1. r.pages = n
        BY <1>1, <2>1, <2>3, <3>2
      <4>2. QED  BY <2>5, <3>2, <4>1 DEF PagesOf
    <3>3. QED  BY <3>1, <3>2
  <2>11. FreeSlots' = IF r.pages > n THEN FreeSlots ELSE FreeSlots \ {i}
    <3>1. Shrunk(r, n).used <=> r.pages > n
      BY <2>3 DEF Shrunk, SlotRange
    <3>2. QED  BY <2>1, <2>2, <2>6, <3>1 DEF FreeSlots
  <2>12. CallPages' = PagesOf(call')
    BY <1>2, <1>4, <2>5 DEF CallPages
  <2>13. \A j \in FreeSlots' \ {i} :
            /\ j \in FreeSlots
            /\ ranges'[j] = ranges[j]
            /\ PagesOf(ranges'[j]) \cap PagesOf(r) = {}
    <3>1. \A j \in FreeSlots' \ {i} : j \in FreeSlots /\ j # i
      BY <2>11
    <3>2. QED  BY <2>2, <2>6, <3>1 DEF HeapPartition, FreeSlots
  <2>14. FreePages = PagesOf(r) \cup UNION {PagesOf(ranges[j]) : j \in FreeSlots \ {i}}
    BY <2>2 DEF FreePages
  <2>15. FreePages' = (IF r.pages > n THEN PagesOf(Shrunk(r, n)) ELSE {})
                        \cup UNION {PagesOf(ranges[j]) : j \in FreeSlots \ {i}}
    <3>1. FreeSlots' \ {i} = FreeSlots \ {i}
      BY <2>11
    <3>2. UNION {PagesOf(ranges'[j]) : j \in FreeSlots' \ {i}}
            = UNION {PagesOf(ranges[j]) : j \in FreeSlots \ {i}}
      BY <2>13, <3>1
    <3>3. CASE r.pages > n
      <4>1. i \in FreeSlots'
        BY <2>2, <2>11, <3>3
      <4>2. FreePages' = PagesOf(ranges'[i]) \cup UNION {PagesOf(ranges'[j]) : j \in FreeSlots' \ {i}}
        BY <4>1 DEF FreePages
      <4>3. QED  BY <2>6, <3>2, <3>3, <4>2
    <3>4. CASE ~(r.pages > n)
      <4>1. FreeSlots' = FreeSlots' \ {i}
        BY <2>11, <3>4
      <4>2. FreePages' = UNION {PagesOf(ranges'[j]) : j \in FreeSlots' \ {i}}
        BY <4>1 DEF FreePages
      <4>3. QED  BY <3>2, <3>4, <4>2
    <3>5. QED  BY <3>3, <3>4
  <2>16. \A p \in PagesOf(r) :
            p \notin UNION {PagesOf(ranges[j]) : j \in FreeSlots \ {i}}
    BY <2>2 DEF HeapPartition
  <2>17. \A j, k \in FreeSlots' :
            j # k => PagesOf(ranges'[j]) \cap PagesOf(ranges'[k]) = {}
    <3>1. \A j, k \in FreeSlots' \ {i} :
             j # k => PagesOf(ranges'[j]) \cap PagesOf(ranges'[k]) = {}
      BY <2>13 DEF HeapPartition
    <3>2. i \in FreeSlots' => PagesOf(ranges'[i]) \subseteq PagesOf(r)
      BY <2>6, <2>10, <2>11
    <3>3. QED  BY <2>13, <3>1, <3>2
  <2>18. LivePages \cup FreePages' \cup PagesOf(call') = 0..bump - 1
    BY <1>3, <2>10, <2>14, <2>15 DEF HeapPartition
  <2>19. LivePages \cap FreePages' = {} /\ PagesOf(call') \cap LivePages = {}
    BY <2>3, <2>10, <2>14, <2>15 DEF HeapPartition
  <2>20. PagesOf(call') \cap FreePages' = {}
    BY <2>10, <2>15, <2>16
  <2>21. HeapPartition'
    BY <1>2, <1>3, <1>4, <2>12, <2>17, <2>18, <2>19, <2>20 DEF HeapPartition
  <2>22. MappedIffLive'
    BY <1>2, <1>3, <2>3, <2>5, NumbersOK DEF MappedIffLive, Page, Idle
  <2>23. WalksComplete' /\ FramesAccountedFor'
    BY <1>2, <2>5, SameFrames, SameWalks DEF Idle
  <2>24. QED  BY <2>8, <2>9, <2>21, <2>22, <2>23
<1>5. CASE Holds(bump + n)
                /\ Start("alloc", bump, n)
                /\ bump' = bump + n
                /\ UNCHANGED <<ranges, table, leaf, live, panicked>>
  <2>1. call' = [op |-> "alloc", base |-> bump, pages |-> n, done |-> 0,
                 frame |-> NoFrame]
    BY <1>5 DEF Start
  <2>2. bump \in Pages /\ bump' \in 0..HeapPages
    BY <1>1, <1>5, NumbersOK DEF Holds, Pages
  <2>3. TypeOK'
    <3>1. call' \in [op : {"none", "alloc", "free"}, base : Pages, pages : Nat,
                     done : Nat, frame : Frames \cup {NoFrame}]
      BY <1>1, <2>1, <2>2
    <3>2. QED  BY <1>2, <1>5, <2>2, <3>1 DEF TypeOK
  <2>4. CallInRange'
    BY <1>1, <1>2, <1>5, <2>1 DEF CallInRange
  <2>5. HeapPartition'
    <3>1. CallPages' = bump..bump + n - 1
      BY <1>2, <1>5, <2>1 DEF CallPages, PagesOf
    <3>2. FreePages' = FreePages /\ FreeSlots' = FreeSlots
      BY <1>5 DEF FreePages, FreeSlots
    <3>3. LivePages \cup FreePages = 0..bump - 1
      BY <1>3 DEF HeapPartition
    <3>4. 0..bump' - 1 = (0..bump - 1) \cup (bump..bump + n - 1)
      BY <1>1, <1>5, NumbersOK
    <3>5. (0..bump - 1) \cap (bump..bump + n - 1) = {}
      BY <1>1, NumbersOK
    <3>6. QED  BY <1>2, <1>3, <1>5, <3>1, <3>2, <3>3, <3>4, <3>5 DEF HeapPartition
  <2>6. MappedIffLive'
    BY <1>2, <1>3, <2>1, <2>2, NumbersOK DEF MappedIffLive, Page, Idle
  <2>7. WalksComplete' /\ FramesAccountedFor'
    BY <1>2, <2>1, SameFrames, SameWalks DEF Idle
  <2>8. QED  BY <2>3, <2>4, <2>5, <2>6, <2>7
<1>6. CASE panicked' = "heap_exhausted"
                /\ call' = [Idle EXCEPT !.op = "alloc", !.pages = n]
                /\ UNCHANGED <<bump, ranges, table, leaf, live>>
  <2>1. call' = [op |-> "alloc", base |-> 0, pages |-> n, done |-> 0,
                 frame |-> NoFrame]
    BY <1>6 DEF Idle
  <2>2. TypeOK'
    <3>1. call' \in [op : {"none", "alloc", "free"}, base : Pages, pages : Nat,
                     done : Nat, frame : Frames \cup {NoFrame}]
      BY <1>1, <2>1, HeapAssumption DEF Pages
    <3>2. QED  BY <1>2, <1>6, <3>1 DEF TypeOK
  <2>3. CallInRange'
    <3>1. panicked' = "heap_exhausted"
      BY <1>6
    <3>2. QED  BY <1>1, <2>1 DEF CallInRange
  <2>4. HeapPartition'
    <3>1. CallPages' = {}
      BY <1>6 DEF CallPages
    <3>2. FreePages' = FreePages /\ FreeSlots' = FreeSlots
      BY <1>6 DEF FreePages, FreeSlots
    <3>3. QED  BY <1>3, <1>6, <3>1, <3>2 DEF HeapPartition
  <2>5. MappedIffLive'
    BY <1>2, <1>3, <2>1, NumbersOK DEF MappedIffLive, Page, Idle, Pages
  <2>6. WalksComplete' /\ FramesAccountedFor'
    BY <1>2, <2>1, SameFrames, SameWalks DEF Idle
  <2>7. QED  BY <2>2, <2>3, <2>4, <2>5, <2>6
<1>7. QED
  BY <1>4, <1>5, <1>6 DEF vmm_alloc
-----------------------------------------------------------------------------
(* Steps that move no run keep the partition, and steps that neither map   *)
(* nor unmap a page and do not advance the call keep the mapping.          *)
LEMMA SameLayout ==
  ASSUME HeapPartition, UNCHANGED <<bump, ranges, live>>,
         call'.op = call.op, call'.base = call.base, call'.pages = call.pages,
         panicked # "heap_exhausted", panicked' # "heap_exhausted"
  PROVE  HeapPartition'
<1>1. LivePages' = LivePages /\ FreeSlots' = FreeSlots /\ FreePages' = FreePages
  BY DEF LivePages, FreeSlots, FreePages
<1>2. CallPages' = CallPages
  BY DEF CallPages, PagesOf
<1>3. QED  BY <1>1, <1>2 DEF HeapPartition

LEMMA SameMapping ==
  ASSUME MappedIffLive, UNCHANGED <<leaf, live>>, call'.op = call.op,
         call'.base = call.base, call'.pages = call.pages, call'.done = call.done
  PROVE  MappedIffLive'
<1>1. LivePages' = LivePages /\ Page' = Page
  BY DEF LivePages, Page
<1>2. QED  BY <1>1 DEF MappedIffLive

(* Stopping the kernel in the middle of a call changes nothing else. *)
LEMMA PanicKeepsInv ==
  ASSUME Inv, panicked = "no", UNCHANGED <<free, held>>,
         NEW why \in {"no_frame", "no_frame_for_table", "no_slot"}, Panic(why)
  PROVE  Inv'
<1> USE DEF Inv
<1>1. /\ UNCHANGED <<bump, ranges, table, leaf, call, live>>
      /\ panicked' = why /\ panicked' # "heap_exhausted"
      /\ panicked # "heap_exhausted"
  BY DEF Panic
<1>2. TypeOK'
  BY <1>1 DEF TypeOK
<1>3. CallInRange'
  BY <1>1 DEF CallInRange
<1>4. HeapPartition' /\ MappedIffLive'
  BY <1>1, SameLayout, SameMapping
<1>5. WalksComplete' /\ FramesAccountedFor'
  BY <1>1, SameFrames, SameWalks
<1>6. QED  BY <1>2, <1>3, <1>4, <1>5

(* vmm_map_new_pages: the frame for the next page is taken from the pool. *)
LEMMA NewFrameKeepsInv ==
  ASSUME Inv, vmm_map_new_pages
  PROVE  Inv'
<1> USE DEF Inv
<1>1. /\ panicked = "no" /\ call.op = "alloc" /\ call.done < call.pages
      /\ call.frame = NoFrame
  BY DEF vmm_map_new_pages, Calling
<1>2. CASE Pool!TakeFails /\ Panic("no_frame")
  <2>1. UNCHANGED <<free, held>>
    BY <1>2 DEF Pool!TakeFails
  <2>2. QED  BY <1>1, <1>2, <2>1, PanicKeepsInv
<1>3. ASSUME NEW f \in free, Pool!Take(f), call' = [call EXCEPT !.frame = f],
             UNCHANGED <<bump, ranges, table, leaf, live, panicked>>
      PROVE  Inv'
  <2>1. /\ free' = free \ {f} /\ held' = held \cup {f} /\ f \in Frames
        /\ f # NoFrame
    BY <1>3, HeapAssumption DEF Pool!Take, TypeOK
  <2>2. call \in [op : {"none", "alloc", "free"}, base : Pages, pages : Nat,
                  done : Nat, frame : Frames \cup {NoFrame}]
    BY DEF TypeOK
  <2>3. /\ call'.op = call.op /\ call'.base = call.base /\ call'.pages = call.pages
        /\ call'.done = call.done /\ call'.frame = f
    BY <1>3, <2>2
  <2>4. TypeOK'
    <3>1. call' \in [op : {"none", "alloc", "free"}, base : Pages, pages : Nat,
                     done : Nat, frame : Frames \cup {NoFrame}]
      BY <1>3, <2>1, <2>2
    <3>2. QED  BY <1>3, <2>1, <3>1 DEF TypeOK
  <2>5. CallInRange'
    BY <1>1, <1>3, <2>3 DEF CallInRange
  <2>6. HeapPartition' /\ MappedIffLive'
    BY <1>1, <1>3, <2>3, SameLayout, SameMapping
  <2>7. WalksComplete'
    BY <1>3, SameWalks
  <2>8. FramesAccountedFor'
    <3>1. Mapped' = Mapped /\ Present' = Present
      BY <1>3 DEF Mapped, Present
    <3>2. f \notin held
      BY <1>3 DEF FramesAccountedFor
    <3>3. \A p \in Mapped : leaf[p] # f
      BY <3>2 DEF FramesAccountedFor
    <3>4. \A t \in Present : table[t] # f
      BY <3>2 DEF FramesAccountedFor
    <3>5. held' = {leaf[p] : p \in Mapped} \cup {table[t] : t \in Present} \cup {f}
      BY <1>1, <2>1 DEF FramesAccountedFor
    <3>6. free' = Frames \ held'
      BY <2>1 DEF FramesAccountedFor
    <3>7. QED  BY <1>3, <2>1, <2>3, <3>1, <3>3, <3>4, <3>5, <3>6 DEF FramesAccountedFor
  <2>9. QED  BY <2>4, <2>5, <2>6, <2>7, <2>8
<1>4. QED  BY <1>2, <1>3 DEF vmm_map_new_pages

(* get_next_level: the first missing table gets a frame. *)
LEMMA NewTableKeepsInv ==
  ASSUME Inv, get_next_level
  PROVE  Inv'
<1> USE DEF Inv
<1>1. /\ panicked = "no" /\ call.op = "alloc" /\ call.frame # NoFrame
      /\ Missing(Page) # {}
  BY DEF get_next_level, Calling
<1>2. CASE Pool!TakeFails /\ Panic("no_frame_for_table")
  <2>1. UNCHANGED <<free, held>>
    BY <1>2 DEF Pool!TakeFails
  <2>2. QED  BY <1>1, <1>2, <2>1, PanicKeepsInv
<1> DEFINE t == Walk[Page][Min(Missing(Page))]
<1>3. ASSUME NEW f \in free, Pool!Take(f), table' = [table EXCEPT ![t] = f],
             UNCHANGED <<bump, ranges, leaf, call, live, panicked>>
      PROVE  Inv'
  <2>1. /\ free' = free \ {f} /\ held' = held \cup {f} /\ f \in Frames
        /\ f # NoFrame
    BY <1>3, HeapAssumption DEF Pool!Take, TypeOK
  <2>2. t \in Tables /\ table[t] = NoFrame
    <3>1. Page \in Pages
      BY <1>1, CallBounds DEF CallInRange
    <3>2. Walk[Page] \in Seq(Tables)
      BY <3>1, HeapAssumption
    <3>3. Missing(Page) \in SUBSET Nat
      BY <3>2 DEF Missing
    <3>4. Min(Missing(Page)) \in Missing(Page)
      BY <1>1, <3>3, MinIn
    <3>5. /\ Min(Missing(Page)) \in DOMAIN Walk[Page]
          /\ table[Walk[Page][Min(Missing(Page))]] = NoFrame
      BY <3>4 DEF Missing
    <3>6. QED  BY <3>2, <3>5
  <2> HIDE DEF t
  <2>3. /\ table' \in [Tables -> Frames \cup {NoFrame}] /\ table'[t] = f
        /\ \A u \in Tables \ {t} : table'[u] = table[u]
    BY <1>3, <2>1, <2>2 DEF TypeOK
  <2>4. TypeOK'
    BY <1>3, <2>1, <2>3 DEF TypeOK
  <2>5. CallInRange' /\ HeapPartition' /\ MappedIffLive'
    BY <1>1, <1>3, SameLayout, SameMapping DEF CallInRange
  <2>6. WalksComplete'
    <3>1. Mapped' = Mapped
      BY <1>3 DEF Mapped
    <3>2. \A p \in Mapped : Missing(p)' = {}
      <4>1. SUFFICES ASSUME NEW p \in Mapped, NEW l \in DOMAIN Walk[p]
                     PROVE  table'[Walk[p][l]] # NoFrame
        BY DEF Missing
      <4>2. table[Walk[p][l]] # NoFrame
        BY DEF WalksComplete, Missing
      <4>3. Walk[p][l] \in Tables
        <5>1. Walk[p] \in Seq(Tables)
          BY HeapAssumption DEF Mapped
        <5>2. QED  BY <5>1
      <4>4. QED  BY <2>2, <2>3, <4>2, <4>3
    <3>3. QED  BY <3>1, <3>2 DEF WalksComplete
  <2>7. FramesAccountedFor'
    <3>1. Mapped' = Mapped
      BY <1>3 DEF Mapped
    <3>2. Present' = Present \cup {t} /\ t \notin Present
      BY <2>1, <2>2, <2>3 DEF Present
    <3>3. f \notin held
      BY <1>3 DEF FramesAccountedFor
    <3>4. /\ \A p \in Mapped : leaf[p] # f
          /\ \A u \in Present : table[u] # f
          /\ call.frame # f
      BY <1>1, <3>3 DEF FramesAccountedFor
    <3>5. \A u \in Present : table'[u] = table[u]
      BY <2>3, <3>2 DEF Present
    <3>6. held' = {leaf[p] : p \in Mapped} \cup {table'[u] : u \in Present'}
                    \cup ({call.frame} \ {NoFrame})
      <4>1. {table'[u] : u \in Present'} = {table[u] : u \in Present} \cup {f}
        BY <2>3, <3>2, <3>5
      <4>2. QED  BY <2>1, <4>1 DEF FramesAccountedFor
    <3>7. free' = Frames \ held'
      BY <2>1 DEF FramesAccountedFor
    <3>8. /\ \A u, v \in Present' : table'[u] = table'[v] => u = v
          /\ \A p \in Mapped, u \in Present' : leaf[p] # table'[u]
          /\ \A u \in Present' : table'[u] # call.frame
      BY <2>3, <3>2, <3>4, <3>5 DEF FramesAccountedFor
    <3>9. QED
      BY <1>3, <3>1, <3>6, <3>7, <3>8 DEF FramesAccountedFor
  <2>8. QED  BY <2>4, <2>5, <2>6, <2>7
<1>4. QED  BY <1>2, <1>3 DEF get_next_level

(* vmm_map_page: the page gets the frame, and the call goes to the next. *)
LEMMA MapKeepsInv ==
  ASSUME Inv, vmm_map_page
  PROVE  Inv'
<1> USE DEF Inv
<1>1. /\ panicked = "no" /\ call.op = "alloc" /\ call.frame # NoFrame
      /\ Missing(Page) = {} /\ leaf' = [leaf EXCEPT ![Page] = call.frame]
      /\ call' = [call EXCEPT !.done = @ + 1, !.frame = NoFrame]
      /\ UNCHANGED <<free, held, bump, ranges, table, live, panicked>>
      /\ panicked # "heap_exhausted" /\ panicked' # "heap_exhausted"
  BY DEF vmm_map_page, Calling, PageDone, pool
<1>2. call \in [op : {"none", "alloc", "free"}, base : Pages, pages : Nat,
                done : Nat, frame : Frames \cup {NoFrame}]
  BY DEF TypeOK
<1>3. /\ call'.op = call.op /\ call'.base = call.base /\ call'.pages = call.pages
      /\ call'.done = call.done + 1 /\ call'.frame = NoFrame
  BY <1>1, <1>2
<1>4. call.done < call.pages
  BY <1>1 DEF CallInRange
<1>5. /\ Page \in Pages /\ Page \in PagesOf(call)
      /\ PagesOf(call) \cap LivePages = {}
  BY <1>1, <1>4, CallBounds
<1>6. /\ leaf'[Page] = call.frame
      /\ \A p \in Pages \ {Page} : leaf'[p] = leaf[p]
      /\ leaf' \in [Pages -> Frames \cup {NoFrame}]
  BY <1>1, <1>2, <1>5 DEF TypeOK
<1>7. TypeOK'
  <2>1. call' \in [op : {"none", "alloc", "free"}, base : Pages, pages : Nat,
                   done : Nat, frame : Frames \cup {NoFrame}]
    <3>1. call.done + 1 \in Nat
      BY <1>2
    <3>2. QED  BY <1>1, <1>2, <3>1
  <2>2. QED  BY <1>1, <1>6, <2>1 DEF TypeOK
<1>8. CallInRange'
  BY <1>1, <1>2, <1>3, <1>4 DEF CallInRange
<1>9. HeapPartition'
  BY <1>1, <1>3, SameLayout
<1>10. Page \notin LivePages /\ leaf[Page] = NoFrame
  <2>1. Page \notin LivePages
    BY <1>5
  <2>2. Page \in Nat
    BY NumbersOK
  <2>3. QED  BY <1>1, <1>5, <2>1, <2>2 DEF MappedIffLive
<1>11. MappedIffLive'
  <2>1. LivePages' = LivePages
    BY <1>1 DEF LivePages
  <2>2. Page' = Page + 1 /\ Page \in Nat /\ call.base \in Nat /\ call.base <= Page
    BY <1>2, <1>3, NumbersOK DEF Page
  <2>3. ASSUME NEW p \in Pages
        PROVE  leaf'[p] # NoFrame <=>
                 p \in LivePages \/ (call.base <= p /\ p < Page + 1)
    <3>1. CASE p = Page
      BY <1>1, <1>6, <2>2, <3>1
    <3>2. CASE p # Page
      <4>1. p \in Nat /\ (p < Page + 1 <=> p < Page)
        BY <2>2, <3>2, NumbersOK
      <4>2. QED  BY <1>1, <1>6, <3>2, <4>1 DEF MappedIffLive
    <3>3. QED  BY <3>1, <3>2
  <2>4. QED  BY <1>1, <1>3, <2>1, <2>2, <2>3 DEF MappedIffLive
<1>12. Mapped' = Mapped \cup {Page}
  BY <1>1, <1>5, <1>6 DEF Mapped
<1>13. WalksComplete'
  BY <1>1, <1>12 DEF WalksComplete, Missing
<1>14. FramesAccountedFor'
  <2>1. Present' = Present /\ \A t \in Present : table'[t] = table[t]
    BY <1>1 DEF Present
  <2>2. \A p \in Mapped : leaf'[p] = leaf[p]
    BY <1>6, <1>10 DEF Mapped
  <2>3. {leaf'[p] : p \in Mapped'} = {leaf[p] : p \in Mapped} \cup {call.frame}
    BY <1>6, <1>12, <2>2
  <2>4. NoFrame \notin {leaf'[p] : p \in Mapped'} /\ \A t \in Present : table[t] # NoFrame
    BY DEF Mapped, Present
  <2>5. held' = {leaf'[p] : p \in Mapped'} \cup {table[t] : t \in Present}
    BY <1>1, <2>3 DEF FramesAccountedFor
  <2>6. /\ \A p, q \in Mapped' : leaf'[p] = leaf'[q] => p = q
        /\ \A p \in Mapped', t \in Present : leaf'[p] # table[t]
    BY <1>6, <1>12, <2>2 DEF FramesAccountedFor
  <2>7. QED
    BY <1>1, <1>3, <2>1, <2>4, <2>5, <2>6 DEF FramesAccountedFor
<1>15. QED  BY <1>7, <1>8, <1>9, <1>11, <1>13, <1>14

(* vmm_alloc returns: the run is live. *)
LEMMA AllocReturnsKeepsInv ==
  ASSUME Inv, vmm_alloc_returns
  PROVE  Inv'
<1> USE DEF Inv
<1> DEFINE r == [base |-> call.base, pages |-> call.pages]
<1>1. /\ panicked = "no" /\ call.op = "alloc" /\ call.done = call.pages
      /\ live' = live \cup {r} /\ call' = Idle
      /\ UNCHANGED <<free, held, bump, ranges, table, leaf, panicked>>
      /\ panicked # "heap_exhausted"
  BY DEF vmm_alloc_returns, Calling, pool
<1>2. call.frame = NoFrame
  <2>1. call.done \in Nat
    BY NumbersOK
  <2>2. ~(call.done < call.pages)
    BY <1>1, <2>1
  <2>3. QED  BY <2>2 DEF CallInRange
<1>3. /\ r \in Run /\ PagesOf(r) = PagesOf(call)
      /\ PagesOf(r) \cap LivePages = {} /\ PagesOf(r) \cap FreePages = {}
  <2>1. call.base \in Pages
    BY DEF TypeOK
  <2>2. QED  BY <1>1, <2>1, CallBounds DEF Run, PagesOf
<1> HIDE DEF r
<1>4. /\ LivePages' = LivePages \cup PagesOf(r)
      /\ FreeSlots' = FreeSlots /\ FreePages' = FreePages
      /\ CallPages' = {} /\ CallPages = PagesOf(r)
  BY <1>1, <1>3 DEF LivePages, FreeSlots, FreePages, CallPages, Idle
<1>5. TypeOK'
  <2>1. call' \in [op : {"none", "alloc", "free"}, base : Pages, pages : Nat,
                   done : Nat, frame : Frames \cup {NoFrame}]
    BY <1>1, HeapAssumption DEF Idle, Pages
  <2>2. QED  BY <1>1, <1>3, <2>1 DEF TypeOK
<1>6. CallInRange'
  BY <1>1 DEF CallInRange, Idle
<1>7. HeapPartition'
  <2>1. \A s \in live : PagesOf(s) \subseteq LivePages
    BY DEF LivePages
  <2>2. \A s, u \in live' : s # u => PagesOf(s) \cap PagesOf(u) = {}
    BY <1>1, <1>3, <2>1 DEF HeapPartition
  <2>3. QED  BY <1>1, <1>3, <1>4, <2>2 DEF HeapPartition
<1>8. MappedIffLive'
  <2>1. \A p \in Pages : p \in PagesOf(r) <=> call.base <= p /\ p < Page
    <3>1. /\ call.base \in Nat /\ call.pages \in Nat
          /\ Page = call.base + call.pages /\ Pages \subseteq Nat
      BY <1>1, NumbersOK DEF Page
    <3>2. \A p \in Pages : p \in PagesOf(call) <=> call.base <= p /\ p < Page
      BY <3>1 DEF PagesOf
    <3>3. QED  BY <1>3, <3>2
  <2>2. QED  BY <1>1, <1>4, <2>1 DEF MappedIffLive, Idle
<1>9. WalksComplete' /\ FramesAccountedFor'
  BY <1>1, <1>2, SameFrames, SameWalks DEF Idle
<1>10. QED  BY <1>5, <1>6, <1>7, <1>8, <1>9

(* vmm_free: the run is no longer the caller's. *)
LEMMA FreeKeepsInv ==
  ASSUME Inv, NEW r \in live, vmm_free(r)
  PROVE  Inv'
<1> USE DEF Inv
<1>1. /\ panicked = "no" /\ call = Idle /\ live' = live \ {r}
      /\ call' = [op |-> "free", base |-> r.base, pages |-> r.pages,
                  done |-> 0, frame |-> NoFrame]
      /\ UNCHANGED <<free, held, bump, ranges, table, leaf, panicked>>
      /\ panicked # "heap_exhausted"
  BY DEF vmm_free, Start, pool
<1>2. /\ r \in Run /\ r.base \in Pages /\ r.pages \in 1..HeapPages
      /\ r.base \in Nat /\ r.pages \in Nat /\ r.pages # 0
  <2>1. r \in Run
    BY DEF TypeOK
  <2>2. r.base \in Pages /\ r.pages \in 1..HeapPages
    BY <2>1 DEF Run
  <2>3. QED  BY <2>1, <2>2, NumbersOK
<1>3. /\ LivePages = LivePages' \cup PagesOf(r)
      /\ LivePages' \cap PagesOf(r) = {}
  <2>1. \A s \in live' : PagesOf(s) \cap PagesOf(r) = {}
    BY <1>1 DEF HeapPartition
  <2>2. QED  BY <1>1, <2>1 DEF LivePages
<1>4. /\ FreeSlots' = FreeSlots /\ FreePages' = FreePages
      /\ CallPages = {} /\ CallPages' = PagesOf(r)
  BY <1>1 DEF FreeSlots, FreePages, CallPages, Idle, PagesOf
<1>5. TypeOK'
  <2>1. call' \in [op : {"none", "alloc", "free"}, base : Pages, pages : Nat,
                   done : Nat, frame : Frames \cup {NoFrame}]
    BY <1>1, <1>2
  <2>2. QED  BY <1>1, <2>1 DEF TypeOK
<1>6. CallInRange'
  BY <1>1, <1>2 DEF CallInRange
<1>7. HeapPartition'
  BY <1>1, <1>3, <1>4 DEF HeapPartition
<1>8. MappedIffLive'
  <2>1. \A p \in Pages : p \in PagesOf(r) <=>
                           r.base <= p /\ p < r.base + r.pages
    <3>1. PICK b \in Nat, n \in Nat : r.base = b /\ r.pages = n
      BY <1>2
    <3>2. PagesOf(r) = b..b + n - 1
      BY <3>1 DEF PagesOf
    <3>3. Pages \subseteq Nat
      BY NumbersOK
    <3>4. \A p \in Nat : p \in b..b + n - 1 <=> b <= p /\ p < b + n
      OBVIOUS
    <3>5. QED  BY <3>1, <3>2, <3>3, <3>4
  <2>2. Page' = r.base
    BY <1>1, <1>2 DEF Page
  <2>3. QED  BY <1>1, <1>3, <2>1, <2>2 DEF MappedIffLive, Idle
<1>9. WalksComplete' /\ FramesAccountedFor'
  BY <1>1, SameFrames, SameWalks DEF Idle
<1>10. QED  BY <1>5, <1>6, <1>7, <1>8, <1>9

(* vmm_free's loop never meets an unmapped page of its run: each turn gives *)
(* back the frame of a mapped page and unmaps the page.                    *)
LEMMA PageOfFreedRun ==
  ASSUME Inv, vmm_free_page
  PROVE  /\ Page \in Pages /\ Page \notin LivePages
         /\ leaf[Page] # NoFrame /\ leaf[Page] \in held
         /\ Missing(Page) = {} /\ call.frame = NoFrame
<1> USE DEF Inv
<1>1. /\ call.op = "free" /\ call.op # "none" /\ call.op # "alloc"
      /\ call.done < call.pages /\ panicked # "heap_exhausted"
  BY DEF vmm_free_page, Calling
<1>2. Page \in Pages /\ Page \notin LivePages
  BY <1>1, CallBounds
<1>3. Page <= Page /\ Page < call.base + call.pages
  BY <1>1, NumbersOK DEF Page
<1>4. leaf[Page] # NoFrame
  BY <1>1, <1>2, <1>3 DEF MappedIffLive
<1>5. Page \in Mapped
  BY <1>2, <1>4 DEF Mapped
<1>6. Missing(Page) = {} /\ leaf[Page] \in held
  BY <1>5 DEF WalksComplete, FramesAccountedFor
<1>7. call.frame = NoFrame
  BY <1>1 DEF CallInRange
<1>8. QED  BY <1>2, <1>4, <1>6, <1>7

LEMMA FreePageKeepsInv ==
  ASSUME Inv, vmm_free_page
  PROVE  Inv'
<1> USE DEF Inv
<1>1. /\ panicked = "no" /\ call.op = "free" /\ call.done < call.pages
      /\ UNCHANGED <<bump, ranges, table, live, panicked>>
      /\ panicked # "heap_exhausted" /\ panicked' # "heap_exhausted"
      /\ call' = [call EXCEPT !.done = @ + 1, !.frame = NoFrame]
  BY DEF vmm_free_page, Calling, PageDone
<1>2. /\ Page \in Pages /\ Page \notin LivePages
      /\ leaf[Page] # NoFrame /\ leaf[Page] \in held
      /\ Missing(Page) = {} /\ call.frame = NoFrame
  BY PageOfFreedRun
<1>3. Pool!Give(leaf[Page]) /\ leaf' = [leaf EXCEPT ![Page] = NoFrame]
  BY <1>2 DEF vmm_free_page, FrameFreed, Unmapped
<1>4. held' = held \ {leaf[Page]} /\ free' = free \cup {leaf[Page]}
  BY <1>3 DEF Pool!Give
<1>5. call \in [op : {"none", "alloc", "free"}, base : Pages, pages : Nat,
                done : Nat, frame : Frames \cup {NoFrame}]
  BY DEF TypeOK
<1>6. /\ call'.op = call.op /\ call'.base = call.base /\ call'.pages = call.pages
      /\ call'.done = call.done + 1 /\ call'.frame = NoFrame
  BY <1>1, <1>5
<1>7. /\ leaf'[Page] = NoFrame
      /\ \A p \in Pages \ {Page} : leaf'[p] = leaf[p]
      /\ leaf' \in [Pages -> Frames \cup {NoFrame}]
  BY <1>2, <1>3 DEF TypeOK
<1>8. TypeOK'
  <2>1. call.done + 1 \in Nat
    BY <1>5
  <2>2. call' \in [op : {"none", "alloc", "free"}, base : Pages, pages : Nat,
                   done : Nat, frame : Frames \cup {NoFrame}]
    BY <1>1, <1>5, <2>1
  <2>3. free' \subseteq Frames /\ held' \subseteq Frames
    BY <1>2, <1>4 DEF TypeOK
  <2>4. QED  BY <1>1, <1>7, <2>2, <2>3 DEF TypeOK
<1>9. CallInRange'
  BY <1>1, <1>5, <1>6 DEF CallInRange
<1>10. HeapPartition'
  BY <1>1, <1>6, SameLayout
<1>11. MappedIffLive'
  <2>1. LivePages' = LivePages
    BY <1>1 DEF LivePages
  <2>2. Page' = Page + 1 /\ Page \in Nat
    BY <1>5, <1>6, NumbersOK DEF Page
  <2>3. ASSUME NEW p \in Pages
        PROVE  leaf'[p] # NoFrame <=>
                 p \in LivePages \/ (Page + 1 <= p /\ p < call.base + call.pages)
    <3>1. CASE p = Page
      BY <1>2, <1>7, <2>2, <3>1
    <3>2. CASE p # Page
      <4>1. p \in Nat /\ (Page + 1 <= p <=> Page <= p)
        BY <2>2, <3>2, NumbersOK
      <4>2. QED  BY <1>1, <1>7, <3>2, <4>1 DEF MappedIffLive
    <3>3. QED  BY <3>1, <3>2
  <2>4. QED  BY <1>1, <1>6, <2>1, <2>2, <2>3 DEF MappedIffLive
<1>12. Mapped' = Mapped \ {Page} /\ \A p \in Mapped' : leaf'[p] = leaf[p]
  BY <1>2, <1>7 DEF Mapped
<1>13. WalksComplete'
  BY <1>1, <1>12 DEF WalksComplete, Missing
<1>14. FramesAccountedFor'
  <2>1. Present' = Present /\ \A t \in Present : table'[t] = table[t]
    BY <1>1 DEF Present
  <2>2. Page \in Mapped
    BY <1>2 DEF Mapped
  <2>3. {leaf'[p] : p \in Mapped'} = {leaf[p] : p \in Mapped} \ {leaf[Page]}
    BY <1>12, <2>2 DEF FramesAccountedFor
  <2>4. leaf[Page] \notin {table[t] : t \in Present}
    BY <2>2 DEF FramesAccountedFor
  <2>5. held' = {leaf'[p] : p \in Mapped'} \cup {table[t] : t \in Present}
    BY <1>2, <1>4, <2>3, <2>4 DEF FramesAccountedFor
  <2>6. free' = Frames \ held'
    BY <1>2, <1>4 DEF FramesAccountedFor, TypeOK
  <2>7. /\ \A p \in Mapped' : leaf'[p] # NoFrame
        /\ \A t \in Present : table[t] # NoFrame
    BY DEF Mapped, Present
  <2>8. /\ \A p, q \in Mapped' : leaf'[p] = leaf'[q] => p = q
        /\ \A p \in Mapped', t \in Present : leaf'[p] # table[t]
    BY <1>12 DEF FramesAccountedFor
  <2>9. QED
    BY <1>6, <2>1, <2>5, <2>6, <2>7, <2>8 DEF FramesAccountedFor
<1>15. QED  BY <1>8, <1>9, <1>10, <1>11, <1>13, <1>14

(* vmm_free returns: the run's pages are a free range. *)
LEMMA FreeReturnsKeepsInv ==
  ASSUME Inv, vmm_free_returns
  PROVE  Inv'
<1> USE DEF Inv
<1> DEFINE r == [base |-> call.base, pages |-> call.pages, used |-> TRUE]
<1>1. /\ panicked = "no" /\ call.op = "free" /\ call.done = call.pages
      /\ UNCHANGED <<free, held>> /\ panicked # "heap_exhausted"
  BY DEF vmm_free_returns, Calling, pool
<1>2. CASE Panic("no_slot")
  BY <1>1, <1>2, PanicKeepsInv
<1>3. CASE /\ ranges' = Append(ranges, r) /\ call' = Idle
           /\ UNCHANGED <<bump, table, leaf, live, panicked>>
  <2>1. call.frame = NoFrame
    BY <1>1 DEF CallInRange
  <2>2. /\ r \in SlotRange /\ r.used /\ PagesOf(r) = PagesOf(call)
        /\ PagesOf(r) \cap LivePages = {} /\ PagesOf(r) \cap FreePages = {}
    <3>1. call.base \in Pages
      BY DEF TypeOK
    <3>2. QED  BY <1>1, <3>1, CallBounds DEF SlotRange, PagesOf
  <2> HIDE DEF r
  <2> DEFINE k == Len(ranges) + 1
  <2>3. /\ ranges' \in Seq(SlotRange) /\ k \notin DOMAIN ranges
        /\ DOMAIN ranges' = DOMAIN ranges \cup {k} /\ ranges'[k] = r
        /\ \A i \in DOMAIN ranges : ranges'[i] = ranges[i]
    <3>1. ranges \in Seq(SlotRange)
      BY DEF TypeOK, SlotRange
    <3>2. QED  BY <1>3, <2>2, <3>1
  <2> HIDE DEF k
  <2>4. TypeOK'
    <3>1. call' \in [op : {"none", "alloc", "free"}, base : Pages, pages : Nat,
                     done : Nat, frame : Frames \cup {NoFrame}]
      BY <1>3, HeapAssumption DEF Idle, Pages
    <3>2. QED  BY <1>1, <1>3, <2>3, <3>1 DEF TypeOK, SlotRange
  <2>5. CallInRange'
    BY <1>1, <1>3 DEF CallInRange, Idle
  <2>6. FreeSlots' = FreeSlots \cup {k} /\ k \notin FreeSlots
    BY <2>2, <2>3 DEF FreeSlots
  <2>7. \A i \in FreeSlots : ranges'[i] = ranges[i]
    BY <2>3 DEF FreeSlots
  <2>8. FreePages' = FreePages \cup PagesOf(r)
    BY <2>3, <2>6, <2>7 DEF FreePages
  <2>9. LivePages' = LivePages /\ CallPages' = {} /\ CallPages = PagesOf(r)
    BY <1>1, <1>3, <2>2 DEF LivePages, CallPages, Idle
  <2>10. HeapPartition'
    <3>1. \A i \in FreeSlots : PagesOf(ranges[i]) \subseteq FreePages
      BY DEF FreePages
    <3>2. \A i, j \in FreeSlots' :
             i # j => PagesOf(ranges'[i]) \cap PagesOf(ranges'[j]) = {}
      BY <2>2, <2>3, <2>6, <2>7, <3>1 DEF HeapPartition
    <3>3. QED  BY <1>3, <2>2, <2>8, <2>9, <3>2 DEF HeapPartition
  <2>11. MappedIffLive'
    <3>1. /\ call.base \in Nat /\ call.pages \in Nat
          /\ Page = call.base + call.pages /\ Pages \subseteq Nat
      BY <1>1, NumbersOK DEF Page
    <3>2. \A p \in Pages : ~(Page <= p /\ p < call.base + call.pages)
      BY <3>1
    <3>3. QED  BY <1>1, <1>3, <2>9, <3>2 DEF MappedIffLive, Idle
  <2>12. WalksComplete' /\ FramesAccountedFor'
    BY <1>1, <1>3, <2>1, SameFrames, SameWalks DEF Idle
  <2>13. QED  BY <2>4, <2>5, <2>10, <2>11, <2>12
<1>4. QED  BY <1>2, <1>3 DEF vmm_free_returns
-----------------------------------------------------------------------------
LEMMA NextKeepsInv == Inv /\ [Next]_vars => Inv'
<1> SUFFICES ASSUME Inv, [Next]_vars PROVE Inv'
  OBVIOUS
<1>1. ASSUME NEW n \in Sizes, vmm_alloc(n) PROVE Inv'
  BY <1>1, AllocKeepsInv
<1>2. ASSUME NEW r \in live, vmm_free(r) PROVE Inv'
  BY <1>2, FreeKeepsInv
<1>3. CASE InCall
  BY <1>3, NewFrameKeepsInv, NewTableKeepsInv, MapKeepsInv, AllocReturnsKeepsInv,
     FreePageKeepsInv, FreeReturnsKeepsInv DEF InCall
<1>4. CASE UNCHANGED vars
  <2>1. UNCHANGED <<free, held, bump, ranges, table, leaf, call, live, panicked>>
    BY <1>4 DEF vars, pool
  <2>2. TypeOK' /\ CallInRange'
    BY <2>1 DEF Inv, TypeOK, CallInRange
  <2>3. LivePages' = LivePages /\ FreeSlots' = FreeSlots /\ FreePages' = FreePages
        /\ CallPages' = CallPages /\ Page' = Page
    BY <2>1 DEF LivePages, FreeSlots, FreePages, CallPages, PagesOf, Page
  <2>4. HeapPartition' /\ MappedIffLive'
    BY <2>1, <2>3 DEF Inv, HeapPartition, MappedIffLive
  <2>5. WalksComplete' /\ FramesAccountedFor'
    BY <2>1, SameFrames, SameWalks DEF Inv
  <2>6. QED  BY <2>2, <2>4, <2>5 DEF Inv
<1>5. CASE halt_catchfire
  BY <1>4, <1>5 DEF halt_catchfire
<1>6. QED
  BY <1>1, <1>2, <1>3, <1>4, <1>5 DEF Next

(* The invariant holds in every state of the kernel heap. *)
THEOREM Invariance == Spec => []Inv
BY InitInv, NextKeepsInv, PTL DEF Spec

(* Every variable keeps its type, for every size of the heap. *)
THEOREM TypeCorrect == Spec => []TypeOK
BY Invariance, PTL DEF Inv

(* However vmm_alloc splits and reuses free ranges, the pages below the    *)
(* bump pointer are always partitioned among the live runs, the free       *)
(* ranges and the run of the call in progress.                             *)
THEOREM HeapIsPartitioned == Spec => []HeapPartition
BY Invariance, PTL DEF Inv

(* A page is mapped exactly while the run it belongs to is live, also when *)
(* the kernel stops in the middle of vmm_alloc or vmm_free.                *)
THEOREM MappedExactlyWhileLive == Spec => []MappedIffLive
BY Invariance, PTL DEF Inv

(* No frame is leaked, shared by two purposes, or given back in use.       *)
THEOREM NoFrameIsLost == Spec => []FramesAccountedFor
BY Invariance, PTL DEF Inv
-----------------------------------------------------------------------------
LEMMA HeapInit == Init => Heap!Init
<1> SUFFICES ASSUME Init PROVE Heap!Init
  OBVIOUS
<1>1. live = {} /\ LivePages = {} /\ CallPages = {} /\ FreeSlots = {}
  BY DEF Init, LivePages, CallPages, Idle, FreeSlots
<1>2. Backing = [p \in {} |-> 0]
  BY <1>1 DEF Backing
<1>3. Starts = {}
  BY <1>1 DEF Starts
<1>4. QED  BY <1>1, <1>2, <1>3 DEF Heap!Init

(* Runs and ranges begin on pages of their own, so none begins inside      *)
(* another one.                                                            *)
LEMMA StartsOutside ==
  ASSUME Inv
  PROVE  /\ Starts \subseteq Pages
         /\ \A r \in live : Starts \cap (PagesOf(r) \ {r.base}) = {}
         /\ Starts \cap (CallPages \ {call.base}) = {}
<1> USE DEF Inv
<1>1. \A i \in FreeSlots : ranges[i].base \in PagesOf(ranges[i])
                           /\ PagesOf(ranges[i]) \subseteq FreePages
  <2>1. ASSUME NEW i \in FreeSlots
        PROVE  ranges[i].base \in PagesOf(ranges[i])
    <3>1. /\ ranges[i].base \in Nat /\ ranges[i].pages \in Nat
          /\ ranges[i].pages # 0
      BY RangeBounds
    <3>2. QED  BY <3>1 DEF PagesOf
  <2>2. QED  BY <2>1, RangeBounds
<1>2. \A r \in live : r.base \in PagesOf(r) /\ PagesOf(r) \subseteq LivePages
  <2>1. ASSUME NEW r \in live
        PROVE  r.base \in PagesOf(r)
    <3>1. r.base \in Pages /\ r.pages \in 1..HeapPages
      BY DEF TypeOK, Run
    <3>2. r.base \in Nat /\ r.pages \in Nat /\ r.pages # 0
      BY <3>1, NumbersOK
    <3>3. QED  BY <3>2 DEF PagesOf
  <2>2. QED  BY <2>1 DEF LivePages
<1>3. CallPages # {} => call.base \in CallPages
  <2>1. SUFFICES ASSUME CallPages # {} PROVE call.base \in PagesOf(call)
    BY DEF CallPages
  <2>2. call.base \in Nat /\ call.pages \in Nat /\ call.pages # 0
    BY NumbersOK DEF CallInRange
  <2>3. QED  BY <2>2 DEF PagesOf
<1>4. LivePages \cup FreePages \cup CallPages \subseteq Pages
  <2>1. /\ LivePages \cup FreePages \cup CallPages = 0..bump - 1
        /\ bump \in Nat /\ bump <= HeapPages /\ HeapPages \in Nat
    BY NumbersOK DEF HeapPartition
  <2>2. QED  BY <2>1 DEF Pages
<1>5. ASSUME NEW s \in Starts
      PROVE  /\ s \in Pages
             /\ \A r \in live : s \in PagesOf(r) => s = r.base
             /\ s \in CallPages => s = call.base
  <2>1. CASE \E i \in FreeSlots : s = ranges[i].base
    <3>1. s \in FreePages
      BY <1>1, <2>1
    <3>2. s \notin LivePages /\ s \notin CallPages
      BY <3>1 DEF HeapPartition
    <3>3. QED  BY <1>2, <1>4, <3>1, <3>2
  <2>2. CASE \E r \in live : s = r.base
    <3>1. PICK r \in live : s = r.base
      BY <2>2
    <3>2. s \in PagesOf(r) /\ s \in LivePages
      BY <1>2, <3>1
    <3>3. s \notin CallPages
      BY <3>2 DEF HeapPartition
    <3>4. \A u \in live : s \in PagesOf(u) => u = r
      BY <3>2 DEF HeapPartition
    <3>5. QED  BY <1>4, <3>1, <3>2, <3>3, <3>4
  <2>3. CASE CallPages # {} /\ s = call.base
    <3>1. s \in CallPages
      BY <1>3, <2>3
    <3>2. s \notin LivePages
      BY <3>1 DEF HeapPartition
    <3>3. QED  BY <1>2, <1>4, <2>3, <3>1, <3>2
  <2>4. QED  BY <2>1, <2>2, <2>3 DEF Starts
<1>6. QED  BY <1>5

(* A live page is backed by a frame, and no two by the same one. *)
LEMMA LiveBacked ==
  ASSUME Inv
  PROVE  /\ LivePages \subseteq Pages
         /\ \A p \in LivePages : leaf[p] \in Frames
         /\ \A p, q \in LivePages : leaf[p] = leaf[q] => p = q
<1> USE DEF Inv
<1>1. LivePages \subseteq Pages
  <2>1. LivePages \subseteq 0..bump - 1
    BY DEF HeapPartition
  <2>2. bump \in Nat /\ bump <= HeapPages /\ HeapPages \in Nat
    BY NumbersOK
  <2>3. QED  BY <2>1, <2>2 DEF Pages
<1>2. \A p \in LivePages : p \in Mapped
  BY <1>1 DEF MappedIffLive, Mapped
<1>3. \A p \in LivePages : leaf[p] \in Frames
  BY <1>1, <1>2 DEF TypeOK, Mapped
<1>4. QED  BY <1>1, <1>2, <1>3 DEF FramesAccountedFor

(* vmm_alloc begins new runs and ranges only outside the live runs. *)
LEMMA AllocCuts ==
  ASSUME Inv, NEW n \in Sizes, vmm_alloc(n)
  PROVE  /\ Starts \subseteq Starts'
         /\ \A s \in Starts' \ Starts : s \in Pages \ LivePages
<1> USE DEF Inv
<1> DEFINE large == {i \in DOMAIN ranges : ranges[i].used /\ ranges[i].pages >= n}
           i == Min(large)
<1>1. /\ n \in Nat /\ n # 0 /\ bump \in Nat /\ bump <= HeapPages /\ HeapPages \in Nat
  BY HeapAssumption, NumbersOK
<1>2. call = Idle /\ panicked = "no" /\ UNCHANGED live /\ CallPages = {}
  BY DEF vmm_alloc, CallPages, Idle
<1>3. LivePages \cup FreePages = 0..bump - 1 /\ LivePages \cap FreePages = {}
  BY <1>2 DEF HeapPartition
<1>4. CASE large # {}
                /\ Start("alloc", ranges[i].base, n)
                /\ ranges' = [ranges EXCEPT ![i] = Shrunk(@, n)]
                /\ UNCHANGED panicked
  <2>1. i \in DOMAIN ranges /\ ranges[i].used /\ ranges[i].pages >= n
    <3>1. large \in SUBSET Nat
      BY NumbersOK
    <3>2. i \in large
      BY <1>4, <3>1, MinIn
    <3>3. QED  BY <3>2
  <2> HIDE DEF i, large
  <2> DEFINE r == ranges[i]
  <2>2. i \in FreeSlots
    BY <2>1 DEF FreeSlots
  <2>3. /\ r \in SlotRange /\ r.base \in Nat /\ r.pages \in Nat /\ r.pages # 0
        /\ r.used /\ PagesOf(r) \subseteq FreePages
    BY <2>2, RangeBounds
  <2>4. call' = [op |-> "alloc", base |-> r.base, pages |-> n, done |-> 0,
                 frame |-> NoFrame]
    BY <1>4 DEF Start
  <2>5. DOMAIN ranges' = DOMAIN ranges
        /\ ranges'[i] = Shrunk(r, n)
        /\ \A j \in DOMAIN ranges \ {i} : ranges'[j] = ranges[j]
    <3>1. ranges \in Seq(SlotRange)
      BY DEF TypeOK, SlotRange
    <3>2. QED  BY <1>4, <2>1, <3>1
  <2>6. FreeSlots' \ {i} = FreeSlots \ {i}
    BY <2>5 DEF FreeSlots
  <2>7. CallPages' # {} /\ call'.base = r.base
    <3>1. r.base \in PagesOf(call')
      BY <1>1, <2>3, <2>4 DEF PagesOf
    <3>2. QED  BY <1>2, <1>4, <2>4, <3>1 DEF CallPages
  <2>8. Starts = {ranges[j].base : j \in FreeSlots \ {i}} \cup {r.base}
                   \cup {u.base : u \in live}
    BY <1>2, <2>2 DEF Starts
  <2>9. CASE r.pages > n
    <3>1. Shrunk(r, n).used /\ Shrunk(r, n).base = r.base + n
      BY <2>3, <2>9 DEF Shrunk, SlotRange
    <3>2. i \in FreeSlots'
      BY <2>1, <2>5, <3>1 DEF FreeSlots
    <3>3. Starts' = Starts \cup {r.base + n}
      <4>1. {ranges'[j].base : j \in FreeSlots'}
              = {ranges[j].base : j \in FreeSlots \ {i}} \cup {r.base + n}
        <5>1. FreeSlots' = (FreeSlots \ {i}) \cup {i}
          BY <2>6, <3>2
        <5>2. \A j \in FreeSlots \ {i} : ranges'[j] = ranges[j]
          BY <2>5 DEF FreeSlots
        <5>3. QED  BY <2>5, <3>1, <5>1, <5>2
      <4>2. Starts' = {ranges'[j].base : j \in FreeSlots'}
                        \cup {u.base : u \in live} \cup {r.base}
        BY <1>2, <2>7 DEF Starts
      <4>3. QED  BY <2>8, <4>1, <4>2
    <3>4. r.base + n \in PagesOf(r)
      BY <1>1, <2>3, <2>9 DEF PagesOf
    <3>5. r.base + n \in Pages \ LivePages
      BY <1>1, <1>3, <2>3, <3>4 DEF Pages
    <3>6. QED  BY <3>3, <3>5
  <2>10. CASE ~(r.pages > n)
    <3>1. ~Shrunk(r, n).used
      BY <2>3, <2>10 DEF Shrunk, SlotRange
    <3>2. i \notin FreeSlots'
      BY <2>5, <3>1 DEF FreeSlots
    <3>3. Starts' = Starts
      <4>1. {ranges'[j].base : j \in FreeSlots'}
              = {ranges[j].base : j \in FreeSlots \ {i}}
        <5>1. FreeSlots' = FreeSlots \ {i}
          BY <2>6, <3>2
        <5>2. \A j \in FreeSlots \ {i} : ranges'[j] = ranges[j]
          BY <2>5 DEF FreeSlots
        <5>3. QED  BY <5>1, <5>2
      <4>2. Starts' = {ranges'[j].base : j \in FreeSlots'}
                        \cup {u.base : u \in live} \cup {r.base}
        BY <1>2, <2>7 DEF Starts
      <4>3. QED  BY <2>8, <4>1, <4>2
    <3>4. QED  BY <3>3
  <2>11. QED  BY <2>9, <2>10
<1>5. CASE Holds(bump + n)
                /\ Start("alloc", bump, n)
                /\ UNCHANGED <<ranges, panicked>>
  <2>1. FreeSlots' = FreeSlots
    BY <1>5 DEF FreeSlots
  <2>2. call' = [op |-> "alloc", base |-> bump, pages |-> n, done |-> 0,
                 frame |-> NoFrame]
    BY <1>5 DEF Start
  <2>3. CallPages' # {} /\ call'.base = bump
    <3>1. bump \in PagesOf(call')
      BY <1>1, <2>2 DEF PagesOf
    <3>2. QED  BY <1>2, <1>5, <2>2, <3>1 DEF CallPages
  <2>4. Starts' = Starts \cup {bump}
    BY <1>2, <1>5, <2>1, <2>3 DEF Starts
  <2>5. bump \in Pages \ LivePages
    BY <1>1, <1>3, <1>5 DEF Holds, Pages
  <2>6. QED  BY <2>4, <2>5
<1>6. CASE panicked' = "heap_exhausted" /\ UNCHANGED ranges
  <2>1. FreeSlots' = FreeSlots /\ CallPages' = {}
    BY <1>6 DEF FreeSlots, CallPages
  <2>2. Starts' = Starts
    BY <1>2, <1>6, <2>1 DEF Starts
  <2>3. QED  BY <2>2
<1>7. QED
  BY <1>4, <1>5, <1>6 DEF vmm_alloc

(* vmm_free's last step turns the run into a range that begins where it did. *)
LEMMA FreeReturnCutsNothing ==
  ASSUME Inv, vmm_free_returns
  PROVE  Starts' = Starts
<1> USE DEF Inv
<1> DEFINE r == [base |-> call.base, pages |-> call.pages, used |-> TRUE]
<1>1. /\ panicked = "no" /\ call.op = "free" /\ UNCHANGED live
  BY DEF vmm_free_returns, Calling, Panic
<1>2. CASE Panic("no_slot")
  <2>1. UNCHANGED <<ranges, call>> /\ panicked' # "heap_exhausted"
    BY <1>2 DEF Panic
  <2>2. FreeSlots' = FreeSlots /\ CallPages' = CallPages
    BY <1>1, <2>1 DEF FreeSlots, CallPages, PagesOf
  <2>3. QED  BY <1>1, <2>1, <2>2 DEF Starts
<1>3. CASE ranges' = Append(ranges, r) /\ call' = Idle
  <2> DEFINE k == Len(ranges) + 1
  <2>1. r.base = call.base /\ r.used /\ r \in SlotRange
    <3>1. call.base \in Pages
      BY DEF TypeOK
    <3>2. QED  BY <1>1, <3>1, CallBounds DEF SlotRange
  <2> HIDE DEF r
  <2>2. /\ k \notin DOMAIN ranges
        /\ DOMAIN ranges' = DOMAIN ranges \cup {k} /\ ranges'[k] = r
        /\ \A i \in DOMAIN ranges : ranges'[i] = ranges[i]
    <3>1. ranges \in Seq(SlotRange)
      BY DEF TypeOK, SlotRange
    <3>2. QED  BY <1>3, <2>1, <3>1
  <2> HIDE DEF k
  <2>3. FreeSlots' = FreeSlots \cup {k} /\ \A i \in FreeSlots : ranges'[i] = ranges[i]
    BY <2>1, <2>2 DEF FreeSlots
  <2>4. CallPages # {} /\ CallPages' = {}
    <3>1. call.base \in Nat /\ call.pages \in Nat /\ call.pages # 0
      BY NumbersOK DEF CallInRange
    <3>2. call.base \in PagesOf(call)
      BY <3>1 DEF PagesOf
    <3>3. QED  BY <1>1, <1>3, <3>2 DEF CallPages, Idle
  <2>5. {ranges'[i].base : i \in FreeSlots'} = {ranges[i].base : i \in FreeSlots} \cup {call.base}
    BY <2>1, <2>2, <2>3
  <2>6. QED  BY <1>1, <2>4, <2>5 DEF Starts
<1>4. QED  BY <1>2, <1>3 DEF vmm_free_returns

LEMMA HeapNext ==
  ASSUME Inv, [Next]_vars
  PROVE  [Heap!Next]_(Heap!heapVars)
<1> USE DEF Inv
<1>1. CASE vmm_alloc_returns
  <2> DEFINE r == [base |-> call.base, pages |-> call.pages]
  <2>1. /\ call.op = "alloc" /\ panicked # "heap_exhausted"
        /\ live' = live \cup {r} /\ leaf' = leaf /\ call.done = call.pages
    BY <1>1 DEF vmm_alloc_returns, Calling
  <2>2. /\ r \in Run /\ PagesOf(r) = PagesOf(call) /\ PagesOf(r) \subseteq Pages
        /\ PagesOf(r) \cap LivePages = {}
    <3>1. call.base \in Pages
      BY DEF TypeOK
    <3>2. QED  BY <2>1, <3>1, CallBounds DEF Run, PagesOf
  <2> HIDE DEF r
  <2>3. /\ r \in Heap!Run /\ Heap!PagesOf(r) = PagesOf(r)
        /\ Heap!PagesOfAll(live) = LivePages
    BY <2>2 DEF Heap!Run, Heap!Pages, Run, Pages, Heap!PagesOf, PagesOf, Heap!PagesOfAll, LivePages
  <2>4. LivePages' = LivePages \cup PagesOf(r)
    BY <2>1 DEF LivePages
  <2>5. /\ \A p \in LivePages' : leaf[p] \in Frames
        /\ \A p, q \in LivePages' : leaf[p] = leaf[q] => p = q
    <3>1. /\ call.base \in Nat /\ call.pages \in Nat
          /\ Page = call.base + call.pages /\ Pages \subseteq Nat
      BY <2>1, NumbersOK DEF Page
    <3>2. \A p \in PagesOf(call) : p \in Nat /\ call.base <= p /\ p < Page
      BY <3>1 DEF PagesOf
    <3>3. \A p \in PagesOf(r) : p \in Pages /\ leaf[p] # NoFrame
      BY <2>1, <2>2, <3>2 DEF MappedIffLive
    <3>4. \A p \in LivePages' : p \in Pages /\ leaf[p] # NoFrame
      BY <2>4, <3>3, LiveBacked, HeapAssumption
    <3>5. \A p \in LivePages' : p \in Mapped /\ leaf[p] \in Frames
      BY <3>4 DEF Mapped, TypeOK
    <3>6. QED  BY <3>5 DEF FramesAccountedFor
  <2>6. Backing' = [p \in LivePages \cup PagesOf(r) |-> leaf[p]]
    BY <2>1, <2>4 DEF Backing
  <2>7. /\ Backing' \in [LivePages \cup PagesOf(r) -> Frames]
        /\ \A p \in LivePages : Backing'[p] = Backing[p]
        /\ \A p, q \in DOMAIN Backing' : Backing'[p] = Backing'[q] => p = q
    BY <2>4, <2>5, <2>6 DEF Backing
  <2>8. PagesOf(r) \subseteq Heap!Pages
    BY <2>2 DEF Pages, Heap!Pages
  <2>9. CallPages = PagesOf(r) /\ r.base = call.base /\ CallPages # {}
    <3>1. call.base \in Nat /\ call.pages \in Nat /\ call.pages # 0
      BY NumbersOK DEF CallInRange
    <3>2. call.base \in PagesOf(call)
      BY <3>1 DEF PagesOf
    <3>3. r.base = call.base
      BY DEF r
    <3>4. CallPages = PagesOf(r)
      BY <2>1, <2>2 DEF CallPages
    <3>5. QED  BY <2>2, <3>2, <3>3, <3>4
  <2>10. Heap!Inside(r) \cap Starts = {}
    BY <2>3, <2>9, StartsOutside DEF Heap!Inside
  <2>11. Starts' = Starts \cup {r.base}
    <3>1. UNCHANGED ranges /\ call'.op = "none"
      BY <1>1 DEF vmm_alloc_returns, Idle
    <3>2. FreeSlots' = FreeSlots /\ CallPages' = {}
      BY <3>1 DEF FreeSlots, CallPages
    <3>3. QED  BY <2>1, <2>9, <3>1, <3>2 DEF Starts
  <2>12. Heap!Alloc(r)
    BY <2>1, <2>2, <2>3, <2>7, <2>8, <2>10, <2>11 DEF Heap!Alloc
  <2>13. QED  BY <2>3, <2>12 DEF Heap!Next
<1>2. ASSUME NEW r \in live, vmm_free(r)
      PROVE  Heap!Next
  <2>1. /\ live' = live \ {r} /\ UNCHANGED <<leaf, ranges>>
        /\ call = Idle /\ panicked' = "no"
        /\ call' = [op |-> "free", base |-> r.base, pages |-> r.pages,
                    done |-> 0, frame |-> NoFrame]
    BY <1>2 DEF vmm_free, Start
  <2>2. LivePages' \subseteq LivePages /\ LivePages' = Heap!PagesOfAll(live \ {r})
    BY <2>1 DEF LivePages, PagesOf, Heap!PagesOfAll, Heap!PagesOf
  <2>3. Backing' = [p \in Heap!PagesOfAll(live \ {r}) |-> Backing[p]]
    BY <2>1, <2>2 DEF Backing
  <2>4. CallPages = {} /\ CallPages' = PagesOf(r) /\ r.base \in PagesOf(r)
    <3>1. r.base \in Pages /\ r.pages \in 1..HeapPages
      BY DEF TypeOK, Run
    <3>2. r.base \in Nat /\ r.pages \in Nat /\ r.pages # 0
      BY <3>1, NumbersOK
    <3>3. r.base \in PagesOf(r)
      BY <3>2 DEF PagesOf
    <3>4. QED  BY <2>1, <3>3 DEF CallPages, PagesOf, Idle
  <2>5. Starts' = Starts
    <3>1. FreeSlots' = FreeSlots
      BY <2>1 DEF FreeSlots
    <3>2. QED  BY <2>1, <2>4, <3>1 DEF Starts
  <2>6. Heap!Free(r)
    BY <2>1, <2>3, <2>5 DEF Heap!Free
  <2>7. QED  BY <2>6 DEF Heap!Next
<1>3. ASSUME UNCHANGED live, \A p \in LivePages : leaf'[p] = leaf[p]
      PROVE  UNCHANGED <<live, Backing>>
  <2>1. LivePages' = LivePages
    BY <1>3 DEF LivePages
  <2>2. Backing' = Backing
    BY <1>3, <2>1 DEF Backing
  <2>3. QED  BY <1>3, <2>2
<1>4. ASSUME UNCHANGED <<ranges, live>>,
             call'.op = call.op, call'.base = call.base, call'.pages = call.pages,
             panicked # "heap_exhausted", panicked' # "heap_exhausted"
      PROVE  Starts' = Starts
  <2>1. FreeSlots' = FreeSlots /\ CallPages' = CallPages
    BY <1>4 DEF FreeSlots, CallPages, PagesOf
  <2>2. QED  BY <1>4, <2>1 DEF Starts
<1>5. ASSUME NEW n \in Sizes, vmm_alloc(n)
      PROVE  Heap!Cut
  <2>1. UNCHANGED <<leaf, live>>
    BY <1>5 DEF vmm_alloc
  <2>2. UNCHANGED <<live, Backing>>
    BY <1>3, <2>1
  <2>3. Starts \subseteq Starts' /\ \A s \in Starts' \ Starts : s \in Pages \ LivePages
    BY <1>5, AllocCuts
  <2>4. Starts' \subseteq Heap!Pages
    BY <2>3, StartsOutside DEF Pages, Heap!Pages
  <2>5. \A r \in live : Starts' \cap Heap!Inside(r) = {}
    <3>1. \A r \in live : PagesOf(r) \subseteq LivePages
                         /\ Heap!Inside(r) = PagesOf(r) \ {r.base}
      BY DEF LivePages, Heap!Inside, Heap!PagesOf, PagesOf
    <3>2. QED  BY <2>3, <3>1, StartsOutside
  <2>6. QED  BY <2>2, <2>3, <2>4, <2>5 DEF Heap!Cut
<1>6. CASE vmm_map_new_pages \/ get_next_level
  <2>1. UNCHANGED <<leaf, live, ranges>> /\ panicked = "no" /\ panicked' # "heap_exhausted"
    BY <1>6 DEF vmm_map_new_pages, get_next_level, Panic, Calling
  <2>2. call'.op = call.op /\ call'.base = call.base /\ call'.pages = call.pages
    <3>1. call \in [op : {"none", "alloc", "free"}, base : Pages, pages : Nat,
                    done : Nat, frame : Frames \cup {NoFrame}]
      BY DEF TypeOK
    <3>2. call' = call \/ \E f \in free : call' = [call EXCEPT !.frame = f]
      BY <1>6 DEF vmm_map_new_pages, get_next_level, Panic
    <3>3. QED  BY <3>1, <3>2
  <2>3. UNCHANGED <<live, Backing>> /\ Starts' = Starts
    BY <1>3, <1>4, <2>1, <2>2
  <2>4. QED  BY <2>3 DEF Heap!heapVars
<1>7. CASE vmm_map_page \/ vmm_free_page
  <2>1. /\ panicked = "no" /\ call.op # "none" /\ call.done < call.pages
        /\ panicked # "heap_exhausted" /\ panicked' # "heap_exhausted"
        /\ UNCHANGED <<live, ranges>> /\ call' = PageDone
    BY <1>7 DEF vmm_map_page, vmm_free_page, Calling, CallInRange
  <2>2. Page \notin LivePages
    BY <2>1, CallBounds
  <2>3. \E v : leaf' = [leaf EXCEPT ![Page] = v]
    <3>1. CASE vmm_map_page
      BY <3>1 DEF vmm_map_page
    <3>2. CASE vmm_free_page
      <4>1. Missing(Page) = {}
        BY <3>2, PageOfFreedRun
      <4>2. QED  BY <3>2, <4>1 DEF vmm_free_page, Unmapped
    <3>3. QED  BY <1>7, <3>1, <3>2
  <2>4. \A p \in LivePages : leaf'[p] = leaf[p]
    BY <2>2, <2>3, LiveBacked DEF TypeOK
  <2>5. call'.op = call.op /\ call'.base = call.base /\ call'.pages = call.pages
    <3>1. call \in [op : {"none", "alloc", "free"}, base : Pages, pages : Nat,
                    done : Nat, frame : Frames \cup {NoFrame}]
      BY DEF TypeOK
    <3>2. QED  BY <2>1, <3>1 DEF PageDone
  <2>6. UNCHANGED <<live, Backing>> /\ Starts' = Starts
    BY <1>3, <1>4, <2>1, <2>4, <2>5
  <2>7. QED  BY <2>6 DEF Heap!heapVars
<1>8. CASE vmm_free_returns
  <2>1. UNCHANGED <<leaf, live>> /\ panicked = "no"
    BY <1>8 DEF vmm_free_returns, Panic, Calling
  <2>2. UNCHANGED <<live, Backing>>
    BY <1>3, <2>1
  <2>3. Starts' = Starts
    BY <1>8, FreeReturnCutsNothing
  <2>4. QED  BY <2>2, <2>3 DEF Heap!heapVars
<1>9. CASE UNCHANGED vars \/ halt_catchfire
  <2>1. UNCHANGED <<leaf, live, ranges, call, panicked>>
    BY <1>9 DEF vars, halt_catchfire
  <2>2. FreeSlots' = FreeSlots /\ CallPages' = CallPages
    BY <2>1 DEF FreeSlots, CallPages, PagesOf
  <2>3. UNCHANGED <<live, Backing>> /\ Starts' = Starts
    BY <1>3, <2>1, <2>2 DEF Starts
  <2>4. QED  BY <2>3 DEF Heap!heapVars
<1>10. QED
  BY <1>1, <1>2, <1>5, <1>6, <1>7, <1>8, <1>9 DEF Next, InCall, Heap!Next

(* vmm_alloc and vmm_free implement the page heap: runs handed out never   *)
(* overlap and keep the frames behind them until they are freed.           *)
THEOREM VmmImplementsPageHeap == Spec => ImplementsPageHeap
<1>1. Inv /\ [Next]_vars => [Heap!Next]_(Heap!heapVars)
  BY HeapNext
<1>2. QED
  BY <1>1, HeapInit, Invariance, PTL DEF Spec, ImplementsPageHeap, Heap!Spec
=============================================================================

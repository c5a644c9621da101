------------------------------ MODULE VmmHeap ------------------------------
(***************************************************************************)
(* The kernel heap's pages: vmm_alloc and vmm_free of                      *)
(* kernel/src/allocator/vmm.c, on top of the frames of the PMM (module     *)
(* FramePool, which Pmm implements).  Addresses count pages from           *)
(* VMM_HEAP_START.  A call runs alone, but it asks the PMM for one frame   *)
(* at a time and any of these requests may stop the kernel, so a call is   *)
(* several steps: the address range is chosen first, then each page gets   *)
(* its frame, its missing page tables, and its entry.                      *)
(***************************************************************************)
EXTENDS Integers, Sequences, FiniteSets, FiniteSetsExt

CONSTANTS
  HeapPages,   \* pages between VMM_HEAP_START and VMM_HEAP_END
  MaxRanges,   \* VMM_MAX_FREE_RANGES
  Sizes,       \* run lengths, in pages, that callers ask for
  Frames,      \* the frames left to the heap when vmm_init is done
  NoFrame,     \* an entry without VMM_PRESENT
  Tables,      \* page tables below the PML4 that the heap's range may need
  Walk         \* Walk[page] is the sequence of tables from the PML4 to the entry

Pages == 0..HeapPages - 1

ASSUME HeapAssumption ==
  /\ HeapPages \in Nat \ {0} /\ MaxRanges \in Nat
  /\ Sizes \subseteq Nat \ {0}
  /\ NoFrame \notin Frames
  /\ Walk \in [Pages -> Seq(Tables)]

VARIABLES
  free, held, oom,   \* the PMM's pool of frames
  bump,              \* s_heap_bump
  ranges,            \* s_free_ranges, up to s_free_range_count
  table,             \* the frame of each page table
  leaf,              \* the last-level entry of each heap page
  call,              \* the call in progress: what, which run, pages done
  live,              \* runs that callers hold
  panicked           \* the assertion that stopped the kernel, or "no"

pool == <<free, held, oom>>
vars == <<pool, bump, ranges, table, leaf, call, live, panicked>>

Pool == INSTANCE FramePool

Run == [base : Pages, pages : 1..HeapPages]
PagesOf(r) == r.base..r.base + r.pages - 1

Idle == [op |-> "none", base |-> 0, pages |-> 1, done |-> 0, frame |-> NoFrame]

Init ==
  /\ free = Frames /\ held = {} /\ oom = FALSE
  /\ bump = 0
  /\ ranges = << >>
  /\ table = [t \in Tables |-> NoFrame]
  /\ leaf = [p \in Pages |-> NoFrame]
  /\ call = Idle
  /\ live = {}
  /\ panicked = "no"

Panic(why) ==
  /\ panicked' = why
  /\ UNCHANGED <<bump, ranges, table, leaf, call, live>>
-----------------------------------------------------------------------------
(* Variants with one plausible mistake each, which no action uses. *)
Shrunk_SameBase(r, n) ==
  IF r.pages > n THEN [r EXCEPT !.pages = @ - n] ELSE [r EXCEPT !.used = FALSE]
Shrunk_KeepsExact(r, n) ==
  IF r.pages > n THEN [r EXCEPT !.base = @ + n, !.pages = @ - n] ELSE r
Unmapped_StaysPresent(p) == leaf
FrameFreed_Walked(p) == table[Walk[p][Len(Walk[p])]]
PageDone_Stuck == call

(* A free range from which a run of n pages was cut: its tail, or nothing. *)
Shrunk(r, n) ==
  IF r.pages > n
  THEN [r EXCEPT !.base = @ + n, !.pages = @ - n]
  ELSE [r EXCEPT !.used = FALSE]

(* base + pages * PAGE_SIZE <= VMM_HEAP_END, which is the address of the   *)
(* heap's last byte and not the one after it.                              *)
Holds(end) == end < HeapPages

Start(op, base, n) ==
  call' = [op |-> op, base |-> base, pages |-> n, done |-> 0, frame |-> NoFrame]

(* vmm_alloc chooses an address: the first free range that is large enough *)
(* or, failing that, fresh pages at the bump pointer.                      *)
vmm_alloc(n) ==
  LET large == {i \in DOMAIN ranges : ranges[i].used /\ ranges[i].pages >= n}
      i == Min(large)
  IN  /\ panicked = "no" /\ call = Idle
      /\ UNCHANGED pool
      /\ \/ /\ large # {}
            /\ Start("alloc", ranges[i].base, n)
            /\ ranges' = [ranges EXCEPT ![i] = Shrunk(@, n)]
            /\ UNCHANGED <<bump, table, leaf, live, panicked>>
         \/ /\ large = {} /\ Holds(bump + n)
            /\ Start("alloc", bump, n)
            /\ bump' = bump + n
            /\ UNCHANGED <<ranges, table, leaf, live, panicked>>
         \/ /\ large = {} /\ ~Holds(bump + n)
            /\ panicked' = "heap_exhausted"
            /\ call' = [Idle EXCEPT !.op = "alloc", !.pages = n]
            /\ UNCHANGED <<bump, ranges, table, leaf, live>>

Calling(op) == panicked = "no" /\ call.op = op
Page == call.base + call.done
Missing(p) == {l \in DOMAIN Walk[p] : table[Walk[p][l]] = NoFrame}

PageDone == [call EXCEPT !.done = @ + 1, !.frame = NoFrame]

(* vmm_map_new_pages: the frame for the next page. *)
vmm_map_new_pages ==
  /\ Calling("alloc") /\ call.done < call.pages /\ call.frame = NoFrame
  /\ \/ \E f \in free :
          /\ Pool!Take(f)
          /\ call' = [call EXCEPT !.frame = f]
          /\ UNCHANGED <<bump, ranges, table, leaf, live, panicked>>
     \/ Pool!TakeFails /\ Panic("no_frame")

(* get_next_level, allocating: the first table missing on the page's walk. *)
get_next_level ==
  /\ Calling("alloc") /\ call.frame # NoFrame /\ Missing(Page) # {}
  /\ \/ \E f \in free :
          /\ Pool!Take(f)
          /\ table' = [table EXCEPT ![Walk[Page][Min(Missing(Page))]] = f]
          /\ UNCHANGED <<bump, ranges, leaf, call, live, panicked>>
     \/ Pool!TakeFails /\ Panic("no_frame_for_table")

(* vmm_map_page writes the entry when the walk is complete. *)
vmm_map_page ==
  /\ Calling("alloc") /\ call.frame # NoFrame /\ Missing(Page) = {}
  /\ leaf' = [leaf EXCEPT ![Page] = call.frame]
  /\ call' = PageDone
  /\ UNCHANGED <<pool, bump, ranges, table, live, panicked>>

vmm_alloc_returns ==
  /\ Calling("alloc") /\ call.done = call.pages
  /\ live' = live \cup {[base |-> call.base, pages |-> call.pages]}
  /\ call' = Idle
  /\ UNCHANGED <<pool, bump, ranges, table, leaf, panicked>>

(* A caller gives a run back; from then on it does not touch its pages. *)
vmm_free(r) ==
  /\ panicked = "no" /\ call = Idle
  /\ live' = live \ {r}
  /\ Start("free", r.base, r.pages)
  /\ UNCHANGED <<pool, bump, ranges, table, leaf, panicked>>

(* The frame that vmm_free reads from a page's entry. *)
FrameFreed(p) == leaf[p]

Unmapped(p) == [leaf EXCEPT ![p] = NoFrame]

(* One turn of vmm_free's loop: the page's frame goes back to the PMM, if  *)
(* the page is mapped, and the page is unmapped; tables are never freed.   *)
vmm_free_page ==
  /\ Calling("free") /\ call.done < call.pages
  /\ IF Missing(Page) = {} /\ leaf[Page] # NoFrame
     THEN Pool!Give(FrameFreed(Page)) ELSE UNCHANGED pool
  /\ leaf' = IF Missing(Page) = {} THEN Unmapped(Page) ELSE leaf
  /\ call' = PageDone
  /\ UNCHANGED <<bump, ranges, table, live, panicked>>

(* The range is recorded in a new slot; slots are never used again. *)
vmm_free_returns ==
  /\ Calling("free") /\ call.done = call.pages
  /\ UNCHANGED pool
  /\ \/ /\ Len(ranges) < MaxRanges
        /\ ranges' = Append(ranges, [base |-> call.base, pages |-> call.pages,
                                     used |-> TRUE])
        /\ call' = Idle
        /\ UNCHANGED <<bump, table, leaf, live, panicked>>
     \/ /\ Len(ranges) >= MaxRanges
        /\ Panic("no_slot")

(* kpanic halts the machine. *)
halt_catchfire == panicked # "no" /\ UNCHANGED vars

InCall ==
  \/ vmm_map_new_pages \/ get_next_level \/ vmm_map_page \/ vmm_alloc_returns
  \/ vmm_free_page \/ vmm_free_returns

Next ==
  \/ \E n \in Sizes : vmm_alloc(n)
  \/ \E r \in live : vmm_free(r)
  \/ InCall
  \/ halt_catchfire

(* The processor keeps executing a call that has begun. *)
Spec == Init /\ [][Next]_vars /\ WF_vars(InCall)
-----------------------------------------------------------------------------
TypeOK ==
  /\ free \subseteq Frames /\ held \subseteq Frames
  /\ bump \in 0..HeapPages
  /\ ranges \in Seq([base : Pages, pages : 1..HeapPages, used : BOOLEAN])
  /\ table \in [Tables -> Frames \cup {NoFrame}]
  /\ leaf \in [Pages -> Frames \cup {NoFrame}]
  /\ call \in [op : {"none", "alloc", "free"}, base : Pages, pages : Nat,
               done : Nat, frame : Frames \cup {NoFrame}]
  /\ live \in SUBSET Run
  /\ panicked \in {"no", "no_frame",
                   "no_frame_for_table",
                   "heap_exhausted", "no_slot"}

FreeSlots == {i \in DOMAIN ranges : ranges[i].used}
FreePages == UNION {PagesOf(ranges[i]) : i \in FreeSlots}
LivePages == UNION {PagesOf(r) : r \in live}
CallPages ==
  IF call.op = "none" \/ panicked = "heap_exhausted"
  THEN {} ELSE PagesOf(call)

(* Every page below the bump pointer belongs to exactly one live run, one  *)
(* free range or the run of the call in progress: none is handed out twice *)
(* and none is forgotten, however runs were split and reused.              *)
HeapPartition ==
  /\ \A r, s \in live : r # s => PagesOf(r) \cap PagesOf(s) = {}
  /\ \A i, j \in FreeSlots :
        i # j => PagesOf(ranges[i]) \cap PagesOf(ranges[j]) = {}
  /\ LivePages \cap FreePages = {}
  /\ CallPages \cap (LivePages \cup FreePages) = {}
  /\ LivePages \cup FreePages \cup CallPages = 0..bump - 1

(* A page is mapped exactly while its run is live, or while the call that  *)
(* maps or unmaps its run has done with it or has not come to it.          *)
MappedIffLive ==
  \A p \in Pages :
    leaf[p] # NoFrame <=>
      \/ p \in LivePages
      \/ call.op = "alloc" /\ call.base <= p /\ p < Page
      \/ call.op = "free" /\ Page <= p /\ p < call.base + call.pages

Mapped == {p \in Pages : leaf[p] # NoFrame}
Present == {t \in Tables : table[t] # NoFrame}

(* A frame the PMM has given out serves one purpose, as the frame of one   *)
(* page, one page table or the page being mapped; a frame the PMM may give *)
(* out serves none.  No frame is shared, leaked or freed while in use.     *)
FramesAccountedFor ==
  /\ \A p, q \in Mapped : leaf[p] = leaf[q] => p = q
  /\ \A t, u \in Present : table[t] = table[u] => t = u
  /\ \A p \in Mapped, t \in Present : leaf[p] # table[t]
  /\ \A p \in Mapped : leaf[p] # call.frame
  /\ \A t \in Present : table[t] # call.frame
  /\ held = {leaf[p] : p \in Mapped} \cup {table[t] : t \in Present}
              \cup ({call.frame} \ {NoFrame})
  /\ free = Frames \ held

(* A call that has begun returns to its caller, unless an assertion stops  *)
(* the kernel.                                                             *)
CallsEnd == call.op # "none" ~> (call = Idle \/ panicked # "no")

(* vmm.c:233 stops the kernel with "Out of free-range tracking slots" only *)
(* when every slot tracks a free range.                                    *)
SlotPanicIsReal ==
  panicked = "no_slot" =>
    Cardinality(FreeSlots) = MaxRanges

(* Pages at which a run or a free range begins. *)
Starts ==
  {ranges[i].base : i \in FreeSlots} \cup {r.base : r \in live}
    \cup (IF CallPages = {} THEN {} ELSE {call.base})

(* The page heap that vmm.h offers is what vmm.c implements. *)
Backing == [p \in LivePages |-> leaf[p]]

Heap == INSTANCE PageHeap WITH backing <- Backing, starts <- Starts

ImplementsPageHeap == Heap!Spec
=============================================================================

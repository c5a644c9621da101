-------------------------------- MODULE Slab --------------------------------
(***************************************************************************)
(* The kernel's allocator: kmalloc, kzalloc, krealloc and kfree of         *)
(* kernel/src/allocator/slab.c, on pages from vmm_alloc (module PageHeap,  *)
(* which VmmHeap implements).  The memory of the heap is modelled cell by  *)
(* cell, because the allocator keeps its headers and its free lists in it, *)
(* next to and inside the blocks that owners write.  Address a lies in     *)
(* page a \div PageSize; zero is the null pointer.  A call runs alone, but *)
(* asks the VMM for pages, which may stop the kernel, so a call that needs *)
(* memory is several steps.                                                *)
(***************************************************************************)
EXTENDS Integers, Sequences, FiniteSets, FiniteSetsExt

CONSTANTS
  HeapPages,     \* pages of the heap's address range
  PageSize,      \* cells of a page, PAGE_SIZE
  HeaderSize,    \* KMALLOC_HEADER_SIZE
  BucketSizes,   \* s_bucket_sizes
  SizeLimit,     \* size_t holds the numbers below it
  Sizes,         \* what callers ask for
  Values,        \* what owners write into their blocks
  Unknown,       \* what a fresh page happens to hold
  MaxBlocks      \* bound on the blocks live at a time

Buckets == DOMAIN BucketSizes
Addresses == 0..HeapPages * PageSize - 1
Null == 0

ASSUME SlabAssumption ==
  /\ {HeapPages, PageSize, HeaderSize, SizeLimit, MaxBlocks} \subseteq Nat \ {0}
  /\ BucketSizes \in Seq(Nat \ {0})
  /\ \A b \in Buckets : HeaderSize + BucketSizes[b] <= PageSize
  /\ \A b, c \in Buckets : b < c => BucketSizes[b] < BucketSizes[c]
  /\ Sizes \subseteq Nat /\ Values \subseteq Nat /\ Unknown \in Nat

VARIABLES
  runs, starts,   \* the pages that the VMM has given out
  mem,            \* the heap's memory
  list,           \* the free_list of each bucket
  call,           \* the call in progress: what, old block, size, new block
  live,           \* live[p] is the size that p's owner asked for
  bucketOf,       \* the bucket whose chunks a page was cut into, or 0
  misused,        \* has a caller passed a pointer that is not live?
  panicked        \* why the kernel stopped, or "no"

pages == <<runs, starts>>
vars == <<pages, mem, list, call, live, bucketOf, misused, panicked>>

Pages == INSTANCE PageHeap
  WITH Frames <- 0..HeapPages - 1, live <- runs,
       backing <- [p \in UNION {r.base..r.base + r.pages - 1 : r \in runs} |-> p]

(* A cell holds a number, or the header that a magic number marks with the *)
(* header's bucket index or size beside it.                                *)
Data(v) == [kind |-> "data", val |-> v]
FreeHeader == [kind |-> "free", val |-> 0]
UsedHeader(b) == [kind |-> "used", val |-> b]
RawHeader(n) == [kind |-> "raw", val |-> n]

Idle == [op |-> "none", from |-> Null, size |-> 0, to |-> Null]

Init ==
  /\ runs = {} /\ starts = {}
  /\ mem = [a \in Addresses |-> Data(Unknown)]
  /\ list = [b \in Buckets |-> Null]
  /\ call = Idle
  /\ live = [p \in {} |-> 0]
  /\ bucketOf = [p \in 0..HeapPages - 1 |-> 0]
  /\ misused = FALSE
  /\ panicked = "no"
-----------------------------------------------------------------------------
(* In this module a definition with an underscore after the name of        *)
(* another one is that one with a plausible mistake; no action uses it.    *)

(* The first bucket whose chunks are large enough, if there is one. *)
Fitting(size) == {b \in Buckets : size <= BucketSizes[b]}

find_bucket(size) == Min(Fitting(size))

SlotSize(b) == HeaderSize + BucketSizes[b]

(* The chunks of a page, in the order in which bucket_grow cuts them. *)
Chunks(page, b) ==
  [i \in 1..PageSize \div SlotSize(b) |->
     page * PageSize + (i - 1) * SlotSize(b) + HeaderSize]

ChunkSet(page, b) == {Chunks(page, b)[i] : i \in DOMAIN Chunks(page, b)}

Header(p) == mem[p - HeaderSize]

hdr_capacity_WithHeader(p) ==
  IF Header(p).kind = "raw" THEN Header(p).val ELSE BucketSizes[Header(p).val]

hdr_capacity(p) ==
  IF Header(p).kind = "raw"
  THEN Header(p).val - HeaderSize
  ELSE BucketSizes[Header(p).val]

InRun(a, r) == a \div PageSize \in Pages!PagesOf(r)
IsMapped(a) == \E r \in runs : InRun(a, r)
RunAt(p) == [base |-> (p - HeaderSize) \div PageSize,
             pages |-> Header(p).val \div PageSize]

(* The kernel stops; memory m is as it was then. *)
Stops(why, m) ==
  /\ panicked' = why
  /\ mem' = m
  /\ UNCHANGED <<pages, list>>

(* Memory m after the cells of f were written. *)
Written(m, f) == [a \in DOMAIN m |-> IF a \in DOMAIN f THEN f[a] ELSE m[a]]

-----------------------------------------------------------------------------
(* A caller asks for a block; a size of zero is answered with NULL at once. *)
Begins(op, from, size) ==
  call' = [op |-> op, from |-> from, size |-> size, to |-> Null]

Calls == panicked = "no" /\ call = Idle

kmalloc(op, size) ==
  /\ Calls /\ size # 0 /\ Cardinality(DOMAIN live) < MaxBlocks
  /\ Begins(op, Null, size)
  /\ UNCHANGED <<pages, mem, list, live, bucketOf, misused, panicked>>

Allocating == panicked = "no" /\ call # Idle /\ call.to = Null
Bucket == find_bucket(call.size)

(* The memory of a page cut into chunks: headers, and links that lead from *)
(* each chunk to the one before it and from the first to the old list.     *)
Threaded(page, b) ==
  LET headers == [a \in {p - HeaderSize : p \in ChunkSet(page, b)} |-> FreeHeader]
      links == [p \in ChunkSet(page, b) |->
                  Data(IF p = Chunks(page, b)[1] THEN list[b] ELSE p - SlotSize(b))]
  IN  Written(Written(mem, headers), links)

LastChunk(page, b) == Chunks(page, b)[Len(Chunks(page, b))]

(* An empty bucket gets a fresh page. *)
bucket_grow ==
  /\ Allocating /\ Fitting(call.size) # {} /\ list[Bucket] = Null
  /\ \/ \E page \in Pages!Pages :
          /\ Pages!Alloc([base |-> page, pages |-> 1])
          /\ mem' = Threaded(page, Bucket)
          /\ list' = [list EXCEPT ![Bucket] = LastChunk(page, Bucket)]
          /\ bucketOf' = [bucketOf EXCEPT ![page] = Bucket]
          /\ UNCHANGED panicked
     \/ Stops("no_pages", mem) /\ UNCHANGED bucketOf
  /\ UNCHANGED <<call, live, misused>>

(* The first chunk of the bucket's list is handed out. *)
kmalloc_chunk ==
  /\ Allocating /\ Fitting(call.size) # {} /\ list[Bucket] # Null
  /\ LET p == list[Bucket] IN
     \/ /\ Header(p).kind = "free"
        /\ list' = [list EXCEPT ![Bucket] = mem[p].val]
        /\ mem' = [mem EXCEPT ![p - HeaderSize] = UsedHeader(Bucket)]
        /\ call' = [call EXCEPT !.to = p]
        /\ UNCHANGED <<pages, panicked>>
     \/ /\ Header(p).kind # "free"
        /\ Stops("bad_list", mem) /\ UNCHANGED call
  /\ UNCHANGED <<live, bucketOf, misused>>

(* total + PAGE_SIZE - 1 rounded down to pages, in a size_t. *)
RawPages(size) ==
  ((((HeaderSize + size) % SizeLimit) + PageSize - 1) % SizeLimit) \div PageSize

(* A block that fits no bucket gets pages of its own.  No pages at all are *)
(* granted, but writing the header then faults.                            *)
kmalloc_raw ==
  /\ Allocating /\ Fitting(call.size) = {}
  /\ \/ \E r \in Pages!Run :
          /\ r.pages = RawPages(call.size)
          /\ Pages!Alloc(r)
          /\ mem' = [mem EXCEPT ![r.base * PageSize] = RawHeader(r.pages * PageSize)]
          /\ call' = [call EXCEPT !.to = r.base * PageSize + HeaderSize]
          /\ UNCHANGED <<list, panicked>>
     \/ /\ Stops(IF RawPages(call.size) = 0 THEN "page_fault" ELSE "no_pages", mem)
        /\ UNCHANGED call
  /\ UNCHANGED <<live, bucketOf, misused>>

(* The new block replaces the old one, which is NULL but for krealloc. *)
Delivered == [p \in (DOMAIN live \ {call.from}) \cup {call.to} |->
                IF p = call.to THEN call.size ELSE live[p]]

Returns ==
  /\ panicked = "no" /\ call.to # Null
  /\ live' = Delivered
  /\ call' = Idle
  /\ UNCHANGED <<bucketOf, misused>>

kmalloc_returns ==
  /\ call.op = "kmalloc" /\ Returns
  /\ UNCHANGED <<pages, mem, list, panicked>>

Zeroed(p, n) == Written(mem, [a \in p..p + n - 1 |-> Data(0)])

kzalloc_returns ==
  /\ call.op = "kzalloc" /\ Returns
  /\ mem' = Zeroed(call.to, call.size)
  /\ UNCHANGED <<pages, list, panicked>>
-----------------------------------------------------------------------------
(* All chunks of a bucket. *)
ChunksOf(b) ==
  UNION {ChunkSet(p, b) : p \in {q \in Pages!Pages : bucketOf[q] = b}}

(* The pointers that callers may hold, live or stale: a pointer, once      *)
(* returned, stays among these, because a bucket's pages are never given   *)
(* back and starts only grows.                                             *)
Returnable ==
  (UNION {ChunksOf(b) : b \in Buckets})
    \cup {s * PageSize + HeaderSize : s \in starts}

ChunkFreed_KeepsMagic(m, p) ==
  /\ Header(p).kind = "used"
  /\ LET b == Header(p).val IN
       /\ mem' = [m EXCEPT ![p] = Data(list[b])]
       /\ list' = [list EXCEPT ![b] = p]
  /\ UNCHANGED <<pages, panicked>>

ChunkFreed_NoLink(m, p) ==
  /\ Header(p).kind = "used"
  /\ mem' = [m EXCEPT ![p - HeaderSize] = FreeHeader]
  /\ list' = [list EXCEPT ![Header(p).val] = p]
  /\ UNCHANGED <<pages, panicked>>

RunFreed_Forgotten(m, p) ==
  /\ Header(p).kind = "raw"
  /\ mem' = m
  /\ UNCHANGED <<pages, list, panicked>>

(* What kfree and krealloc find wrong with the header before p, if anything. *)
Refusal(p) ==
  IF ~IsMapped(p - HeaderSize) THEN "page_fault"
  ELSE [free |-> "double_free", data |-> "bad_magic",
        used |-> "no", raw |-> "no"][Header(p).kind]

(* kfree of the block at p, in memory m. *)
ChunkFreed(m, p) ==
  /\ Header(p).kind = "used"
  /\ LET b == Header(p).val IN
       /\ mem' = [m EXCEPT ![p - HeaderSize] = FreeHeader, ![p] = Data(list[b])]
       /\ list' = [list EXCEPT ![b] = p]
  /\ UNCHANGED <<pages, panicked>>

(* vmm_free gives the pages back and may then stop the kernel for want of  *)
(* a slot for the range.                                                   *)
RunFreed(m, p) ==
  /\ Header(p).kind = "raw"
  /\ RunAt(p) \in runs
  /\ Pages!Free(RunAt(p))
  /\ mem' = [a \in Addresses |-> IF InRun(a, RunAt(p)) THEN Data(Unknown) ELSE m[a]]
  /\ panicked' \in {"no", "no_slot"}
  /\ UNCHANGED list

Freed(m, p) ==
  \/ Refusal(p) # "no" /\ Stops(Refusal(p), m)
  \/ Refusal(p) = "no" /\ (ChunkFreed(m, p) \/ RunFreed(m, p))

Without(p) == [q \in DOMAIN live \ {p} |-> live[q]]

kfree(p) ==
  /\ Calls
  /\ Freed(mem, p)
  /\ live' = Without(p)
  /\ misused' = (p \notin DOMAIN live)
  /\ UNCHANGED <<call, bucketOf>>

(* krealloc checks the old block's header and keeps the block if it is     *)
(* large enough; otherwise a new block is allocated first.  A size of zero *)
(* is a kfree.                                                             *)
krealloc(p, size) ==
  /\ Calls /\ size # 0
  /\ misused' = (p \notin DOMAIN live)
  /\ \/ Refusal(p) # "no" /\ Stops(Refusal(p), mem) /\ UNCHANGED <<call, live>>
     \/ /\ Refusal(p) = "no"
        /\ IF size <= hdr_capacity(p)
           THEN /\ live' = [q \in DOMAIN live \cup {p} |->
                              IF q = p THEN size ELSE live[q]]
                /\ UNCHANGED call
           ELSE Begins("krealloc", p, size) /\ UNCHANGED live
        /\ UNCHANGED <<pages, mem, list, panicked>>
  /\ UNCHANGED bucketOf

Copied_OneShort(to, from, n) ==
  Written(mem, [a \in to..to + n - 2 |-> mem[a - to + from]])

(* memcpy of the old block's capacity. *)
Copied(to, from, n) ==
  Written(mem, [a \in to..to + n - 1 |-> mem[a - to + from]])

krealloc_returns ==
  /\ call.op = "krealloc" /\ Returns
  /\ Freed(Copied(call.to, call.from, hdr_capacity(call.from)), call.from)

(* Between calls an owner writes its block. *)
OwnerWrites(p, v) ==
  /\ Calls
  /\ mem' = Written(mem, [a \in p..p + live[p] - 1 |-> Data(v)])
  /\ UNCHANGED <<pages, list, call, live, bucketOf, misused, panicked>>

(* kpanic halts the machine. *)
halt_catchfire == panicked # "no" /\ UNCHANGED vars

Next ==
  \/ \E op \in {"kmalloc", "kzalloc"}, size \in Sizes : kmalloc(op, size)
  \/ bucket_grow \/ kmalloc_chunk \/ kmalloc_raw
  \/ kmalloc_returns \/ kzalloc_returns \/ krealloc_returns
  \/ \E p \in Returnable : kfree(p) \/ \E size \in Sizes : krealloc(p, size)
  \/ \E p \in DOMAIN live, v \in Values : OwnerWrites(p, v)
  \/ halt_catchfire

Spec == Init /\ [][Next]_vars
-----------------------------------------------------------------------------
Cell == {Data(v) : v \in Values \cup Addresses \cup {Unknown}}
          \cup {FreeHeader} \cup {UsedHeader(b) : b \in Buckets}
          \cup {RawHeader(n * PageSize) : n \in 1..HeapPages}

TypeOK ==
  /\ runs \subseteq Pages!Run /\ starts \subseteq Pages!Pages
  /\ mem \in [Addresses -> Cell]
  /\ list \in [Buckets -> Addresses]
  /\ call \in [op : {"none", "kmalloc", "kzalloc", "krealloc"},
               from : Addresses, size : Sizes \cup {0}, to : Addresses]
  /\ DOMAIN live \subseteq Returnable
  /\ \A p \in DOMAIN live : live[p] \in Sizes
  /\ bucketOf \in [Pages!Pages -> Buckets \cup {0}]
  /\ misused \in BOOLEAN
  /\ panicked \in {"no", "no_pages", "no_slot", "page_fault", "bad_list",
                   "double_free", "bad_magic"}

(* The chunks whose header says that they are free. *)
FreeChunks(b) == {p \in ChunksOf(b) : Header(p).kind = "free"}

Closed(S, b) ==
  /\ list[b] # Null => list[b] \in S
  /\ \A p \in S : mem[p].val # Null => mem[p].val \in S

(* The free list of a bucket visits each of the bucket's free chunks, and  *)
(* nothing else, once: whatever owners wrote into their blocks, the links  *)
(* that were put there afterwards are intact, and no chunk is lost.        *)
FreeListsExact ==
  /\ TypeOK
  /\ \A b \in Buckets :
       /\ Closed(FreeChunks(b), b)
       /\ \A p, q \in FreeChunks(b) :
            p # q /\ mem[p].val = mem[q].val => mem[p].val = Null
       /\ \A p \in FreeChunks(b) : mem[p].val = list[b] => mem[p].val = Null
       /\ \A S \in SUBSET FreeChunks(b) : Closed(S, b) => S = FreeChunks(b)

Blocks == DOMAIN live \cup ({call.to} \ {Null})

Footprint(p, n) == p - HeaderSize..p + n - 1

(* The blocks handed out, with their headers, and the free chunks, with    *)
(* theirs, occupy memory of their own; every block is as large as its      *)
(* owner asked for.                                                        *)
BlocksApart ==
  /\ \A p, q \in Blocks :
       p # q => Footprint(p, hdr_capacity(p)) \cap Footprint(q, hdr_capacity(q)) = {}
  /\ \A b \in Buckets : \A p \in Blocks, q \in FreeChunks(b) :
       Footprint(p, hdr_capacity(p)) \cap Footprint(q, BucketSizes[b]) = {}
  /\ \A p \in DOMAIN live : hdr_capacity(p) >= live[p]

(* A page that the VMM gave out is the page of a bucket, every chunk of    *)
(* which is handed out or free, or belongs to a block that is handed out.  *)
PagesAccountedFor ==
  /\ \A r \in runs :
       \/ r.pages = 1 /\ bucketOf[r.base] # 0
       \/ r.base * PageSize + HeaderSize \in Blocks
          /\ r = RunAt(r.base * PageSize + HeaderSize)
  /\ \A b \in Buckets : \A p \in ChunksOf(b) :
       IsMapped(p) /\ (p \in Blocks \/ p \in FreeChunks(b))

(* A pointer that is not live, however long ago it was freed, stops the    *)
(* kernel when it is passed to kfree or krealloc; nothing else does except *)
(* the VMM's want of pages or of slots.                                    *)
StopsIffMisused == misused <=> panicked \notin {"no", "no_pages", "no_slot"}

(* The block heap that callers rely on is what slab.c implements. *)
Contents ==
  [p \in DOMAIN live |-> [i \in 0..live[p] - 1 |-> mem[p + i]]]

Heap == INSTANCE BlockHeap WITH size <- live, content <- Contents

ImplementsBlockHeap == Heap!Spec
=============================================================================

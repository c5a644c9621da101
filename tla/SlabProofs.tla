----------------------------- MODULE SlabProofs -----------------------------
(***************************************************************************)
(* Proofs about the kernel's allocator, for every size of the heap, of a   *)
(* page and of a header, every list of bucket sizes and every set of sizes *)
(* that a size_t holds with a header and a page on top: blocks, headers    *)
(* and free chunks lie apart, the free lists are exact, no page is lost    *)
(* and only misuse is stopped.  The last part proves that the allocator    *)
(* implements the block heap that its callers rely on: what a block holds  *)
(* stays as its owner left it while headers and links are written around   *)
(* it, pages are cut into chunks, other blocks are freed and krealloc      *)
(* moves the block itself.                                                 *)
(***************************************************************************)
EXTENDS Slab, WellFoundedInduction, TLAPS

(* No request wraps a size_t when its header and a page are added.  A      *)
(* request that does is given a block smaller than it asked for, and its   *)
(* owner then writes over others' headers: kmalloc does not look.          *)
SizesFit == \A size \in Sizes : HeaderSize + size + PageSize - 1 < SizeLimit

(* What a heap is, of given runs R, of which bo says which are cut into    *)
(* chunks, with given memory m, lists l and blocks B handed out.  The      *)
(* lemmas compose what one step does from changes of such a heap.          *)
ChunksIn(bo, b) ==
  UNION {ChunkSet(p, b) : p \in {q \in Pages!Pages : bo[q] = b}}

RawIn(R, bo) == {r \in R : bo[r.base] = 0}

RawPointer(r) == r.base * PageSize + HeaderSize

(* The pages: runs of the heap that do not overlap, a bucket's page being  *)
(* a run of its own.                                                       *)
RunsApart(R, bo) ==
  /\ R \subseteq Pages!Run
  /\ bo \in [Pages!Pages -> Buckets \cup {0}]
  /\ \A r \in R : Pages!PagesOf(r) \subseteq Pages!Pages
  /\ \A r, s \in R : r # s => Pages!PagesOf(r) \cap Pages!PagesOf(s) = {}
  /\ \A page \in Pages!Pages : bo[page] # 0 => [base |-> page, pages |-> 1] \in R

(* There is a place for a block of n cells at p. *)
Place(R, bo, p, n) ==
  \/ \E b \in Buckets : p \in ChunksIn(bo, b) /\ n = BucketSizes[b]
  \/ \E r \in RawIn(R, bo) :
       p = RawPointer(r) /\ n = r.pages * PageSize - HeaderSize

(* The header of every place says what is in it. *)
HeadersTrue(R, bo, m, B) ==
  /\ \A b \in Buckets : \A p \in ChunksIn(bo, b) :
       m[p - HeaderSize] = IF p \in B THEN UsedHeader(b) ELSE FreeHeader
  /\ \A r \in RawIn(R, bo) :
       /\ RawPointer(r) \in B
       /\ HeaderSize < r.pages * PageSize
       /\ m[r.base * PageSize] = RawHeader(r.pages * PageSize)
  /\ \A p \in B : \/ \E b \in Buckets : p \in ChunksIn(bo, b)
                  \/ \E r \in RawIn(R, bo) : p = RawPointer(r)

(* A list with head h and links nx visits each member of F once. *)
ClosedIn(S, h, nx) ==
  /\ h # Null => h \in S
  /\ \A p \in S : nx[p] # Null => nx[p] \in S

Exact(F, h, nx) ==
  /\ ClosedIn(F, h, nx)
  /\ \A p, q \in F : p # q /\ nx[p] = nx[q] => nx[p] = Null
  /\ \A p \in F : nx[p] = h => nx[p] = Null
  /\ \A S \in SUBSET F : ClosedIn(S, h, nx) => S = F

FreeIn(bo, B, b) == ChunksIn(bo, b) \ B

Links(bo, m, B, b) == [p \in FreeIn(bo, B, b) |-> m[p].val]

ListsExact(bo, m, l, B) ==
  \A b \in Buckets : Exact(FreeIn(bo, B, b), l[b], Links(bo, m, B, b))

HeapOK(R, bo, m, l, B) ==
  /\ RunsApart(R, bo)
  /\ m \in [Addresses -> Cell]
  /\ l \in [Buckets -> Addresses]
  /\ HeadersTrue(R, bo, m, B)
  /\ ListsExact(bo, m, l, B)

(* The capacity that the header in memory m tells. *)
CapacityIn(m, p) ==
  IF m[p - HeaderSize].kind = "raw"
  THEN m[p - HeaderSize].val - HeaderSize
  ELSE BucketSizes[m[p - HeaderSize].val]

(* A run begins where the VMM has begun one, and none began inside it. *)
StartsOutside ==
  \A r \in runs : r.base \in starts /\ Pages!Inside(r) \cap starts = {}

(* Every block is as large as it was asked to be. *)
LargeEnough ==
  /\ \A p \in DOMAIN live : live[p] \in Sizes \ {0} /\ live[p] <= CapacityIn(mem, p)
  /\ call.to # Null => call.size <= CapacityIn(mem, call.to)

(* What is true of the call in progress. *)
CallOK ==
  /\ call.op = "none" => call = Idle
  /\ call.op # "none" => call.size # 0
  /\ call.to \notin DOMAIN live
  /\ (call.op = "krealloc") <=> (call.from # Null)
  /\ call.from # Null =>
       call.from \in DOMAIN live /\ CapacityIn(mem, call.from) < call.size

(* The parts of TypeOK that the other conjuncts of Inv do not say. *)
Ranges ==
  /\ starts \subseteq Pages!Pages
  /\ call \in [op : {"none", "kmalloc", "kzalloc", "krealloc"},
               from : Addresses, size : Sizes \cup {0}, to : Addresses]
  /\ misused \in BOOLEAN
  /\ panicked \in {"no", "no_pages", "no_slot", "page_fault", "bad_list",
                   "double_free", "bad_magic"}

(* The inductive invariant. *)
Inv ==
  /\ SizesFit
  /\ Ranges
  /\ HeapOK(runs, bucketOf, mem, list, Blocks)
  /\ StartsOutside
  /\ LargeEnough
  /\ CallOK
  /\ StopsIffMisused
-----------------------------------------------------------------------------
(* Arithmetic of pages. *)

LEMMA Monotone ==
  ASSUME NEW i \in Nat, NEW j \in Nat, NEW k \in Nat, i <= j
  PROVE  i * k <= j * k /\ i * k \in Nat /\ j * k \in Nat
  OBVIOUS

LEMMA NextMultiple ==
  ASSUME NEW i \in Nat, NEW j \in Nat, NEW k \in Nat
  PROVE  (i + j) * k = i * k + j * k
  OBVIOUS

LEMMA Quotient ==
  ASSUME NEW a \in Nat, NEW q \in Nat, NEW k \in Nat \ {0},
         q * k <= a, a < q * k + k
  PROVE  a \div k = q
  OBVIOUS

LEMMA QuotientBounds ==
  ASSUME NEW a \in Nat, NEW k \in Nat \ {0}
  PROVE  /\ a \div k \in Nat
         /\ (a \div k) * k <= a /\ a < (a \div k) * k + k
  OBVIOUS

LEMMA ConstantsOK ==
  /\ HeapPages \in Nat \ {0} /\ PageSize \in Nat \ {0}
  /\ HeaderSize \in Nat \ {0} /\ SizeLimit \in Nat \ {0}
  /\ HeapPages * PageSize \in Nat
  /\ Buckets = 1..Len(BucketSizes) /\ Len(BucketSizes) \in Nat
  /\ \A b \in Buckets : /\ b \in Nat \ {0} /\ BucketSizes[b] \in Nat \ {0}
                        /\ SlotSize(b) \in Nat \ {0} /\ SlotSize(b) <= PageSize
                        /\ SlotSize(b) = HeaderSize + BucketSizes[b]
  /\ Pages!Pages = 0..HeapPages - 1
  /\ Addresses = 0..HeapPages * PageSize - 1
<1>1. /\ HeapPages \in Nat \ {0} /\ PageSize \in Nat \ {0}
      /\ HeaderSize \in Nat \ {0} /\ SizeLimit \in Nat \ {0}
      /\ BucketSizes \in Seq(Nat \ {0})
      /\ \A b \in Buckets : HeaderSize + BucketSizes[b] <= PageSize
  BY SlabAssumption
<1>2. HeapPages * PageSize \in Nat
  BY <1>1
<1>3. Buckets = 1..Len(BucketSizes) /\ Len(BucketSizes) \in Nat
  BY <1>1 DEF Buckets
<1>4. \A b \in Buckets : b \in Nat \ {0} /\ BucketSizes[b] \in Nat \ {0}
  BY <1>1, <1>3
<1>5. QED
  BY <1>1, <1>2, <1>3, <1>4 DEF SlotSize, Pages!Pages, Addresses

LEMMA Numbers ==
  /\ HeapPages \in Nat \ {0} /\ PageSize \in Nat \ {0}
  /\ HeaderSize \in Nat \ {0}
  BY SlabAssumption

(* A chunk lies with its header in its page. *)
LEMMA ChunkFacts ==
  ASSUME NEW page \in Pages!Pages, NEW b \in Buckets
  PROVE  /\ PageSize \div SlotSize(b) \in Nat \ {0}
         /\ \A i \in 1..PageSize \div SlotSize(b) :
              /\ (i - 1) * SlotSize(b) \in Nat
              /\ i * SlotSize(b) = (i - 1) * SlotSize(b) + SlotSize(b)
              /\ i * SlotSize(b) <= PageSize
              /\ Chunks(page, b)[i]
                   = page * PageSize + (i - 1) * SlotSize(b) + HeaderSize
<1> DEFINE S == SlotSize(b)
           n == PageSize \div SlotSize(b)
<1>1. S \in Nat \ {0} /\ S <= PageSize /\ PageSize \in Nat
  BY ConstantsOK
<1> HIDE DEF S
<1>2. PageSize \div S \in Nat /\ (PageSize \div S) * S <= PageSize
      /\ PageSize < (PageSize \div S) * S + S
  BY <1>1, QuotientBounds
<1>3. PageSize \div S # 0
  BY <1>1, <1>2
<1>4. ASSUME NEW i \in 1..PageSize \div S
      PROVE  /\ (i - 1) * S \in Nat
             /\ i * S = (i - 1) * S + S
             /\ i * S <= PageSize
  <2>1. i \in Nat /\ i - 1 \in Nat /\ i <= PageSize \div S
    BY <1>2
  <2>2. i * S <= (PageSize \div S) * S
    BY <2>1, <1>1, <1>2, Monotone
  <2>3. i * S \in Nat
    BY <2>1, <1>1
  <2>4. i * S = (i - 1) * S + S /\ (i - 1) * S \in Nat
    BY <2>1, <1>1
  <2>5. QED  BY <2>2, <2>3, <2>4, <1>1, <1>2
<1>5. QED  BY <1>2, <1>3, <1>4 DEF S, Chunks
-----------------------------------------------------------------------------
(* Places for blocks lie within runs, and apart. *)

LEMMA RunFacts ==
  ASSUME NEW R, NEW bo, RunsApart(R, bo), NEW r \in R
  PROVE  /\ r.base \in Nat /\ r.pages \in Nat \ {0}
         /\ r.base \in Pages!Pages
         /\ r = [base |-> r.base, pages |-> r.pages]
         /\ Pages!PagesOf(r) = r.base..r.base + r.pages - 1
         /\ r.base + r.pages <= HeapPages
         /\ r.base * PageSize \in Nat /\ r.pages * PageSize \in Nat
         /\ r.pages * PageSize >= PageSize
         /\ (r.base + r.pages) * PageSize = r.base * PageSize + r.pages * PageSize
         /\ (r.base + r.pages) * PageSize \in Nat
         /\ HeapPages * PageSize \in Nat
         /\ (r.base + r.pages) * PageSize <= HeapPages * PageSize
<1>1. r \in [base : Pages!Pages, pages : 1..HeapPages]
  BY DEF RunsApart, Pages!Run
<1>2. /\ r.base \in Pages!Pages /\ r.base \in Nat
      /\ r.pages \in Nat \ {0} /\ r = [base |-> r.base, pages |-> r.pages]
  BY <1>1, ConstantsOK
<1>3. Pages!PagesOf(r) = r.base..r.base + r.pages - 1
  BY DEF Pages!PagesOf
<1>4. Pages!PagesOf(r) \subseteq 0..HeapPages - 1
  BY ConstantsOK DEF RunsApart
<1>5. r.base + r.pages - 1 \in Pages!PagesOf(r)
  BY <1>2, <1>3
<1>6. r.base + r.pages <= HeapPages
  BY <1>2, <1>4, <1>5, Numbers
<1>7. /\ r.base * PageSize \in Nat /\ r.pages * PageSize \in Nat
      /\ (r.base + r.pages) * PageSize = r.base * PageSize + r.pages * PageSize
  BY <1>2, Numbers, NextMultiple
<1>8. r.pages * PageSize >= PageSize
  <2>1. 1 \in Nat /\ 1 <= r.pages /\ r.pages \in Nat /\ PageSize \in Nat
    BY <1>2, Numbers
  <2>2. 1 * PageSize <= r.pages * PageSize
    BY <2>1, Monotone
  <2>3. QED  BY <2>1, <2>2, <1>7
<1>9. /\ (r.base + r.pages) * PageSize \in Nat /\ HeapPages * PageSize \in Nat
      /\ (r.base + r.pages) * PageSize <= HeapPages * PageSize
  <2>1. r.base + r.pages \in Nat /\ HeapPages \in Nat /\ PageSize \in Nat
    BY <1>2, Numbers
  <2>2. QED  BY <2>1, <1>6, Monotone
<1>10. QED  BY <1>2, <1>3, <1>6, <1>7, <1>8, <1>9

LEMMA RunsOrdered ==
  ASSUME NEW R, NEW bo, RunsApart(R, bo), NEW r \in R, NEW s \in R, r # s
  PROVE  \/ (r.base + r.pages) * PageSize <= s.base * PageSize
         \/ (s.base + s.pages) * PageSize <= r.base * PageSize
<1>1. Pages!PagesOf(r) \cap Pages!PagesOf(s) = {}
  BY DEF RunsApart
<1>2. /\ r.base \in Nat /\ r.pages \in Nat \ {0}
      /\ s.base \in Nat /\ s.pages \in Nat \ {0}
      /\ Pages!PagesOf(r) = r.base..r.base + r.pages - 1
      /\ Pages!PagesOf(s) = s.base..s.base + s.pages - 1
  BY RunFacts
<1>3. PICK a \in Nat, m \in Nat \ {0} : a = r.base /\ m = r.pages
  BY <1>2
<1>4. PICK x \in Nat, n \in Nat \ {0} : x = s.base /\ n = s.pages
  BY <1>2
<1>5. PICK k \in Nat : k = PageSize
  BY Numbers
<1>6. (a..a + m - 1) \cap (x..x + n - 1) = {}
  BY <1>1, <1>2, <1>3, <1>4
<1>7. a \notin x..x + n - 1 /\ x \notin a..a + m - 1
  <2>1. a \in a..a + m - 1 /\ x \in x..x + n - 1
    OBVIOUS
  <2>2. QED  BY <1>6, <2>1
<1>8. PICK b \in Nat, y \in Nat : b = a + m /\ y = x + n
  OBVIOUS
<1>9. b <= x \/ y <= a
  BY <1>7, <1>8
<1>10. b * k <= x * k \/ y * k <= a * k
  BY <1>9, Monotone
<1>11. QED  BY <1>3, <1>4, <1>5, <1>8, <1>10

(* What a run holds: a block of its own, or chunks. *)
Holds(bo, r, p, n) ==
  \/ /\ bo[r.base] = 0 /\ p = RawPointer(r)
     /\ n = r.pages * PageSize - HeaderSize
  \/ /\ bo[r.base] \in Buckets /\ r.pages = 1
     /\ p \in ChunkSet(r.base, bo[r.base]) /\ n = BucketSizes[bo[r.base]]

Within(r, p, n) ==
  /\ p - HeaderSize \in Nat /\ p \in Nat /\ n \in Int
  /\ p # Null /\ p - HeaderSize < p + n
  /\ r.base * PageSize <= p - HeaderSize
  /\ p + n <= (r.base + r.pages) * PageSize

LEMMA ChunkWithin ==
  ASSUME NEW page \in Pages!Pages, NEW b \in Buckets, NEW p \in ChunkSet(page, b)
  PROVE  /\ p - HeaderSize \in Nat /\ p \in Nat /\ p # Null
         /\ page * PageSize <= p - HeaderSize
         /\ p + BucketSizes[b] <= page * PageSize + PageSize
         /\ BucketSizes[b] \in Nat \ {0}
<1>1. PICK i \in 1..PageSize \div SlotSize(b) : p = Chunks(page, b)[i]
  BY DEF ChunkSet, Chunks
<1>2. /\ (i - 1) * SlotSize(b) \in Nat
      /\ i * SlotSize(b) = (i - 1) * SlotSize(b) + SlotSize(b)
      /\ i * SlotSize(b) <= PageSize
      /\ p = page * PageSize + (i - 1) * SlotSize(b) + HeaderSize
  BY <1>1, ChunkFacts
<1>3. page \in Nat /\ PageSize \in Nat /\ page * PageSize \in Nat
  BY ConstantsOK
<1>4. /\ SlotSize(b) = HeaderSize + BucketSizes[b]
      /\ HeaderSize \in Nat \ {0} /\ BucketSizes[b] \in Nat \ {0}
  BY ConstantsOK
<1> DEFINE x == page * PageSize
           y == (i - 1) * SlotSize(b)
           z == i * SlotSize(b)
<1>5. /\ x \in Nat /\ y \in Nat /\ z = y + (HeaderSize + BucketSizes[b])
      /\ z <= PageSize /\ p = x + y + HeaderSize
  BY <1>2, <1>3, <1>4
<1> HIDE DEF x, y, z
<1>6. /\ p - HeaderSize \in Nat /\ p \in Nat /\ p # Null
      /\ x <= p - HeaderSize /\ p + BucketSizes[b] <= x + PageSize
  BY <1>3, <1>4, <1>5 DEF Null
<1>7. QED  BY <1>4, <1>6 DEF x

LEMMA PlaceRun ==
  ASSUME NEW R, NEW bo, RunsApart(R, bo), NEW p, NEW n, Place(R, bo, p, n)
  PROVE  \E r \in R : Holds(bo, r, p, n) /\ Within(r, p, n)
<1>1. CASE \E b \in Buckets : p \in ChunksIn(bo, b) /\ n = BucketSizes[b]
  <2>1. PICK b \in Buckets : p \in ChunksIn(bo, b) /\ n = BucketSizes[b]
    BY <1>1
  <2>2. PICK page \in Pages!Pages : bo[page] = b /\ p \in ChunkSet(page, b)
    BY <2>1 DEF ChunksIn
  <2> DEFINE r == [base |-> page, pages |-> 1]
  <2>3. b # 0
    BY ConstantsOK
  <2>4. r \in R /\ r.base = page /\ r.pages = 1
    BY <2>2, <2>3 DEF RunsApart
  <2>5. Holds(bo, r, p, n)
    BY <2>1, <2>2, <2>4 DEF Holds
  <2>6. (page + 1) * PageSize = page * PageSize + PageSize
    BY ConstantsOK
  <2>7. Within(r, p, n)
    <3>1. /\ p - HeaderSize \in Nat /\ p \in Nat /\ p # Null
          /\ page * PageSize <= p - HeaderSize
          /\ p + n <= page * PageSize + PageSize /\ n \in Nat \ {0}
      BY <2>1, <2>2, ChunkWithin
    <3>2. p - HeaderSize < p + n
      BY <3>1, Numbers
    <3>3. p + n <= (page + 1) * PageSize
      BY <2>6, <3>1
    <3>4. QED  BY <2>4, <3>1, <3>2, <3>3 DEF Within
  <2>8. QED  BY <2>4, <2>5, <2>7
<1>2. CASE \E r \in RawIn(R, bo) :
             p = RawPointer(r) /\ n = r.pages * PageSize - HeaderSize
  <2>1. PICK r \in RawIn(R, bo) :
             p = RawPointer(r) /\ n = r.pages * PageSize - HeaderSize
    BY <1>2
  <2>2. r \in R /\ bo[r.base] = 0
    BY DEF RawIn
  <2>3. Holds(bo, r, p, n)
    BY <2>1, <2>2 DEF Holds
  <2>4. /\ r.base * PageSize \in Nat /\ r.pages * PageSize \in Nat
        /\ r.pages * PageSize >= PageSize
        /\ (r.base + r.pages) * PageSize = r.base * PageSize + r.pages * PageSize
    BY <2>2, RunFacts
  <2> DEFINE x == r.base * PageSize
             y == r.pages * PageSize
  <2>5. /\ x \in Nat /\ y \in Nat /\ y > 0
        /\ (r.base + r.pages) * PageSize = x + y
        /\ p = x + HeaderSize /\ n = y - HeaderSize
    BY <2>1, <2>4, Numbers DEF RawPointer
  <2> HIDE DEF x, y
  <2>6. /\ p - HeaderSize \in Nat /\ p \in Nat /\ n \in Int
        /\ p # Null /\ p - HeaderSize < p + n
        /\ x <= p - HeaderSize /\ p + n <= x + y
    BY <2>5, Numbers DEF Null
  <2>7. Within(r, p, n)
    BY <2>5, <2>6 DEF Within, x
  <2>8. QED  BY <2>2, <2>3, <2>7
<1>3. QED  BY <1>1, <1>2 DEF Place
LEMMA ChunksApart ==
  ASSUME NEW page \in Pages!Pages, NEW b \in Buckets,
         NEW p \in ChunkSet(page, b), NEW q \in ChunkSet(page, b), p # q
  PROVE  \/ p + BucketSizes[b] <= q - HeaderSize
         \/ q + BucketSizes[b] <= p - HeaderSize
<1> DEFINE S == SlotSize(b)
           x == page * PageSize
<1>1. /\ S \in Nat \ {0} /\ S = HeaderSize + BucketSizes[b]
      /\ BucketSizes[b] \in Nat \ {0} /\ HeaderSize \in Nat \ {0}
  BY ConstantsOK
<1>2. PICK i \in 1..PageSize \div S : p = Chunks(page, b)[i]
  BY DEF ChunkSet, Chunks
<1>3. PICK j \in 1..PageSize \div S : q = Chunks(page, b)[j]
  BY DEF ChunkSet, Chunks
<1>4. /\ p = x + (i - 1) * S + HeaderSize /\ q = x + (j - 1) * S + HeaderSize
      /\ (i - 1) * S \in Nat /\ (j - 1) * S \in Nat
      /\ i * S = (i - 1) * S + S /\ j * S = (j - 1) * S + S
  BY <1>2, <1>3, ChunkFacts
<1>5. i \in Nat \ {0} /\ j \in Nat \ {0} /\ x \in Nat
  BY Numbers, ConstantsOK
<1> HIDE DEF S, x
<1>6. i # j
  BY <1>4
<1>7. CASE i < j
  <2>1. i * S <= (j - 1) * S
    <3>1. i <= j - 1 /\ i \in Nat /\ j - 1 \in Nat
      BY <1>5, <1>7
    <3>2. QED  BY <1>1, <3>1, Monotone
  <2> DEFINE y == (i - 1) * S
             z == (j - 1) * S
  <2>2. /\ y \in Nat /\ z \in Nat /\ y + S <= z
        /\ p = x + y + HeaderSize /\ q = x + z + HeaderSize
    BY <1>4, <2>1
  <2> HIDE DEF y, z
  <2>3. QED  BY <1>1, <1>5, <2>2
<1>8. CASE j < i
  <2>1. j * S <= (i - 1) * S
    <3>1. j <= i - 1 /\ j \in Nat /\ i - 1 \in Nat
      BY <1>5, <1>8
    <3>2. QED  BY <1>1, <3>1, Monotone
  <2> DEFINE y == (i - 1) * S
             z == (j - 1) * S
  <2>2. /\ y \in Nat /\ z \in Nat /\ z + S <= y
        /\ p = x + y + HeaderSize /\ q = x + z + HeaderSize
    BY <1>4, <2>1
  <2> HIDE DEF y, z
  <2>3. QED  BY <1>1, <1>5, <2>2
<1>9. QED  BY <1>5, <1>6, <1>7, <1>8

(* No two places overlap, and a place has one size. *)
LEMMA PlacesApart ==
  ASSUME NEW R, NEW bo, RunsApart(R, bo),
         NEW p, NEW n, Place(R, bo, p, n), NEW q, NEW k, Place(R, bo, q, k)
  PROVE  /\ p # q => p + n <= q - HeaderSize \/ q + k <= p - HeaderSize
         /\ p = q => n = k
<1>1. PICK r \in R : Holds(bo, r, p, n) /\ Within(r, p, n)
  BY PlaceRun
<1>2. PICK s \in R : Holds(bo, s, q, k) /\ Within(s, q, k)
  BY PlaceRun
<1>3. CASE r # s
  <2> DEFINE a == r.base * PageSize
             b == (r.base + r.pages) * PageSize
             c == s.base * PageSize
             d == (s.base + s.pages) * PageSize
  <2>1. b <= c \/ d <= a
    BY <1>3, RunsOrdered
  <2>2. a \in Nat /\ b \in Nat /\ c \in Nat /\ d \in Nat
    BY RunFacts
  <2>3. /\ p - HeaderSize \in Nat /\ p \in Nat /\ n \in Int
        /\ p - HeaderSize < p + n /\ a <= p - HeaderSize /\ p + n <= b
        /\ q - HeaderSize \in Nat /\ q \in Nat /\ k \in Int
        /\ q - HeaderSize < q + k /\ c <= q - HeaderSize /\ q + k <= d
    BY <1>1, <1>2 DEF Within
  <2> HIDE DEF a, b, c, d
  <2>4. QED  BY <2>1, <2>2, <2>3, Numbers
<1>4. CASE r = s
  <2>1. CASE bo[r.base] = 0
    <3>1. bo[r.base] \notin Buckets
      BY <2>1, ConstantsOK
    <3>2. QED  BY <1>1, <1>2, <1>4, <2>1, <3>1 DEF Holds
  <2>2. CASE bo[r.base] # 0
    <3>1. /\ bo[r.base] \in Buckets
          /\ p \in ChunkSet(r.base, bo[r.base]) /\ n = BucketSizes[bo[r.base]]
          /\ q \in ChunkSet(r.base, bo[r.base]) /\ k = BucketSizes[bo[r.base]]
      BY <1>1, <1>2, <1>4, <2>2 DEF Holds
    <3>2. r.base \in Pages!Pages
      BY RunFacts
    <3>3. QED  BY <3>1, <3>2, ChunksApart
  <2>3. QED  BY <2>1, <2>2
<1>5. QED  BY <1>3, <1>4

(* A place and its header are addresses of the heap. *)
LEMMA PlaceBounds ==
  ASSUME NEW R, NEW bo, RunsApart(R, bo), NEW p, NEW n, Place(R, bo, p, n)
  PROVE  /\ p - HeaderSize \in Addresses /\ p - HeaderSize \in Nat
         /\ p \in Nat /\ n \in Int /\ p # Null
         /\ p - HeaderSize < p /\ p - HeaderSize < p + n
         /\ \A a \in p..p + n - 1 : a \in Addresses
<1>1. PICK r \in R : Within(r, p, n)
  BY PlaceRun
<1> DEFINE top == HeapPages * PageSize
           end == (r.base + r.pages) * PageSize
<1>2. end <= top /\ end \in Nat /\ top \in Nat
  BY RunFacts
<1>3. /\ p - HeaderSize \in Nat /\ p \in Nat /\ n \in Int /\ p # Null
      /\ p - HeaderSize < p + n /\ p + n <= end
  BY <1>1 DEF Within
<1>4. Addresses = 0..top - 1
  BY DEF Addresses
<1> HIDE DEF top, end
<1>5. p - HeaderSize \in Addresses /\ p - HeaderSize < p
  BY <1>2, <1>3, <1>4, Numbers
<1>6. \A a \in p..p + n - 1 : a \in Addresses
  BY <1>2, <1>3, <1>4
<1>7. QED  BY <1>3, <1>5, <1>6
-----------------------------------------------------------------------------
(* Free lists. *)

LEMMA Least ==
  ASSUME NEW S \in SUBSET Nat, S # {}
  PROVE  \E x \in S : \A y \in S : x <= y
<1>1. PICK x \in S : \A y \in S : ~(<<y, x>> \in OpToRel(<, Nat))
  BY WFMin, NatLessThanWellFounded
<1>2. \A y \in S : ~(y < x)
  BY <1>1 DEF OpToRel
<1>3. QED  BY <1>2

LEMMA ExactEmpty ==
  ASSUME NEW F, NEW nx, Exact(F, Null, nx)
  PROVE  F = {}
<1>1. ClosedIn({}, Null, nx) /\ {} \in SUBSET F
  BY DEF ClosedIn
<1>2. QED  BY <1>1 DEF Exact

(* Taking the head away leaves a list of the others. *)
LEMMA ExactPop ==
  ASSUME NEW F, NEW h, NEW nx, Exact(F, h, nx), h # Null,
         NEW nx2, \A p \in F \ {h} : nx2[p] = nx[p]
  PROVE  h \in F /\ Exact(F \ {h}, nx[h], nx2)
<1>1. h \in F /\ nx[h] # h
  BY DEF Exact, ClosedIn
<1>2. ClosedIn(F \ {h}, nx[h], nx2)
  BY <1>1 DEF Exact, ClosedIn
<1>3. /\ \A p, q \in F \ {h} : p # q /\ nx2[p] = nx2[q] => nx2[p] = Null
      /\ \A p \in F \ {h} : nx2[p] = nx[h] => nx2[p] = Null
  BY <1>1 DEF Exact
<1>4. ASSUME NEW S \in SUBSET (F \ {h}), ClosedIn(S, nx[h], nx2)
      PROVE  S = F \ {h}
  <2>1. ClosedIn(S \cup {h}, h, nx)
    BY <1>4 DEF ClosedIn
  <2>2. S \cup {h} \in SUBSET F
    BY <1>1
  <2>3. S \cup {h} = F
    BY <2>1, <2>2 DEF Exact
  <2>4. QED  BY <2>3
<1>5. QED  BY <1>1, <1>2, <1>3, <1>4 DEF Exact

(* So does putting a new head before the old one. *)
LEMMA ExactPush ==
  ASSUME NEW F, NEW h, NEW nx, Exact(F, h, nx),
         NEW p, p \notin F, p # Null,
         NEW nx2, nx2[p] = h, \A q \in F : nx2[q] = nx[q]
  PROVE  Exact(F \cup {p}, p, nx2)
<1>1. ClosedIn(F \cup {p}, p, nx2)
  BY DEF Exact, ClosedIn
<1>2. \A q, r \in F \cup {p} : q # r /\ nx2[q] = nx2[r] => nx2[q] = Null
  BY DEF Exact
<1>3. \A q \in F \cup {p} : nx2[q] = p => nx2[q] = Null
  BY DEF Exact, ClosedIn
<1>4. ASSUME NEW S \in SUBSET (F \cup {p}), ClosedIn(S, p, nx2)
      PROVE  S = F \cup {p}
  <2>1. p \in S
    BY <1>4 DEF ClosedIn
  <2>2. ClosedIn(S \ {p}, h, nx)
    <3>1. h # Null => h \in S \ {p}
      BY <1>4, <2>1 DEF ClosedIn, Exact
    <3>2. ASSUME NEW q \in S \ {p}, nx[q] # Null
          PROVE  nx[q] \in S \ {p}
      <4>1. q \in F /\ nx2[q] = nx[q]
        BY <1>4
      <4>2. nx[q] \in F /\ nx[q] \in S
        BY <1>4, <3>2, <4>1 DEF ClosedIn, Exact
      <4>3. QED  BY <4>2
    <3>3. QED  BY <3>1, <3>2 DEF ClosedIn
  <2>3. S \ {p} \in SUBSET F
    BY <1>4
  <2>4. S \ {p} = F
    BY <2>2, <2>3 DEF Exact
  <2>5. QED  BY <2>1, <2>4
<1>5. QED  BY <1>1, <1>2, <1>3, <1>4 DEF Exact

(* The list is the same one when the links of its members are. *)
LEMMA ExactSame ==
  ASSUME NEW F, NEW h, NEW nx, Exact(F, h, nx),
         NEW nx2, \A q \in F : nx2[q] = nx[q]
  PROVE  Exact(F, h, nx2)
<1>1. ClosedIn(F, h, nx2)
  BY DEF Exact, ClosedIn
<1>2. /\ \A p, q \in F : p # q /\ nx2[p] = nx2[q] => nx2[p] = Null
      /\ \A p \in F : nx2[p] = h => nx2[p] = Null
  BY DEF Exact
<1>3. ASSUME NEW S \in SUBSET F, ClosedIn(S, h, nx2)
      PROVE  S = F
  <2>1. ClosedIn(S, h, nx)
    BY <1>3 DEF ClosedIn
  <2>2. QED  BY <2>1 DEF Exact
<1>4. QED  BY <1>1, <1>2, <1>3 DEF Exact

(* A chain of addresses, each linked to the one before it, is a list. *)
LEMMA ExactChain ==
  ASSUME NEW n \in Nat \ {0}, NEW c, NEW nx,
         \A i \in 1..n : c[i] # Null,
         \A i, j \in 1..n : c[i] = c[j] => i = j,
         nx[c[1]] = Null,
         \A i \in 2..n : nx[c[i]] = c[i - 1]
  PROVE  Exact({c[i] : i \in 1..n}, c[n], nx)
<1> DEFINE F == {c[i] : i \in 1..n}
<1>1. ClosedIn(F, c[n], nx)
  <2>1. ASSUME NEW i \in 1..n, nx[c[i]] # Null
        PROVE  nx[c[i]] \in F
    <3>1. i \in 2..n /\ i - 1 \in 1..n
      BY <2>1
    <3>2. QED  BY <3>1
  <2>2. QED  BY <2>1 DEF ClosedIn
<1>2. ASSUME NEW i \in 1..n, NEW j \in 1..n, c[i] # c[j], nx[c[i]] = nx[c[j]]
      PROVE  nx[c[i]] = Null
  <2>1. CASE i = 1 \/ j = 1
    BY <1>2, <2>1
  <2>2. CASE i \in 2..n /\ j \in 2..n
    <3>1. c[i - 1] = c[j - 1] /\ i - 1 \in 1..n /\ j - 1 \in 1..n
      BY <1>2, <2>2
    <3>2. i - 1 = j - 1
      BY <3>1
    <3>3. QED  BY <1>2, <2>2, <3>2
  <2>3. QED  BY <2>1, <2>2
<1>3. ASSUME NEW i \in 1..n, nx[c[i]] = c[n]
      PROVE  nx[c[i]] = Null
  <2>1. CASE i = 1
    BY <2>1
  <2>2. CASE i \in 2..n
    <3>1. c[i - 1] = c[n] /\ i - 1 \in 1..n /\ n \in 1..n
      BY <1>3, <2>2
    <3>2. i - 1 = n
      BY <3>1
    <3>3. QED  BY <2>2, <3>2
  <2>3. QED  BY <2>1, <2>2
<1>4. ASSUME NEW S \in SUBSET F, ClosedIn(S, c[n], nx)
      PROVE  S = F
  <2> DEFINE Missing == {k \in Nat : k < n /\ c[n - k] \notin S}
  <2>1. SUFFICES Missing = {}
    <3>1. ASSUME NEW i \in 1..n
          PROVE  c[i] \in S
      <4>1. n - i \in Nat /\ n - i < n /\ n - (n - i) = i
        OBVIOUS
      <4>2. n - i \notin Missing
        BY <2>1
      <4>3. QED  BY <4>1, <4>2
    <3>2. QED  BY <3>1
  <2>2. SUFFICES ASSUME Missing # {} PROVE FALSE
    OBVIOUS
  <2>3. PICK k \in Missing : \A j \in Missing : k <= j
    <3>1. Missing \in SUBSET Nat
      OBVIOUS
    <3> HIDE DEF Missing
    <3>2. QED  BY <2>2, <3>1, Least
  <2>4. k # 0
    <3>1. c[n] \in S
      BY <1>4 DEF ClosedIn
    <3>2. n - 0 = n
      OBVIOUS
    <3>3. QED  BY <3>1, <3>2
  <2>5. k - 1 \in Nat /\ k - 1 < n /\ k - 1 \notin Missing
    <3>1. k - 1 \in Nat /\ k - 1 < k
      BY <2>4
    <3>2. k - 1 \notin Missing
      <4>1. ~(k <= k - 1)
        OBVIOUS
      <4> HIDE DEF Missing
      <4>2. QED  BY <2>3, <4>1
    <3>3. k < n
      OBVIOUS
    <3>4. QED  BY <3>1, <3>2, <3>3
  <2>6. c[n - (k - 1)] \in S
    BY <2>5
  <2>7. n - (k - 1) \in 2..n /\ n - (k - 1) - 1 = n - k /\ n - k \in 1..n
    BY <2>4
  <2>8. nx[c[n - (k - 1)]] = c[n - k]
    BY <2>7
  <2>9. c[n - k] \in S
    BY <1>4, <2>6, <2>7, <2>8 DEF ClosedIn
  <2>10. QED  BY <2>9
<1>5. QED  BY <1>1, <1>2, <1>3, <1>4 DEF Exact
-----------------------------------------------------------------------------
(* What a change of one block does to the heap. *)

(* The cells of two places, the headers included, are apart. *)
LEMMA CellsApart ==
  ASSUME NEW R, NEW bo, RunsApart(R, bo),
         NEW p, NEW n, Place(R, bo, p, n), NEW q, NEW k, Place(R, bo, q, k)
  PROVE  /\ p # q => (q - HeaderSize..q + k - 1) \cap (p - HeaderSize..p + n - 1) = {}
         /\ q - HeaderSize \notin p..p + n - 1
         /\ q - HeaderSize \in q - HeaderSize..q + k - 1
         /\ q..q + k - 1 \subseteq q - HeaderSize..q + k - 1
<1>1. /\ p - HeaderSize \in Nat /\ p \in Nat /\ n \in Int
      /\ p - HeaderSize < p /\ p - HeaderSize < p + n
  BY PlaceBounds
<1>2. /\ q - HeaderSize \in Nat /\ q \in Nat /\ k \in Int
      /\ q - HeaderSize < q /\ q - HeaderSize < q + k
  BY PlaceBounds
<1>3. p # q => p + n <= q - HeaderSize \/ q + k <= p - HeaderSize
  BY PlacesApart
<1>4. HeaderSize \in Nat
  BY Numbers
<1>5. p # q => (q - HeaderSize..q + k - 1) \cap (p - HeaderSize..p + n - 1) = {}
  BY <1>1, <1>2, <1>3, <1>4
<1>6. q - HeaderSize \notin p..p + n - 1
  BY <1>1, <1>2, <1>3, <1>4
<1>7. QED  BY <1>1, <1>2, <1>4, <1>5, <1>6

(* A chunk is a place with room, of one bucket. *)
LEMMA ChunkPlace ==
  ASSUME NEW R, NEW bo, RunsApart(R, bo),
         NEW b \in Buckets, NEW p \in ChunksIn(bo, b)
  PROVE  /\ Place(R, bo, p, BucketSizes[b])
         /\ p \in Addresses /\ p \in p..p + BucketSizes[b] - 1
         /\ p # Null
         /\ \A c \in Buckets : p \in ChunksIn(bo, c) => c = b
<1>1. Place(R, bo, p, BucketSizes[b])
  BY DEF Place
<1>2. p \in Nat /\ p # Null /\ \A a \in p..p + BucketSizes[b] - 1 : a \in Addresses
  BY <1>1, PlaceBounds
<1>3. p \in p..p + BucketSizes[b] - 1
  BY <1>2, ConstantsOK
<1>4. ASSUME NEW c \in Buckets, p \in ChunksIn(bo, c)
      PROVE  c = b
  <2>1. BucketSizes[c] = BucketSizes[b]
    <3>1. Place(R, bo, p, BucketSizes[c])
      BY <1>4 DEF Place
    <3>2. QED  BY <1>1, <3>1, PlacesApart
  <2>2. /\ b < c => BucketSizes[b] < BucketSizes[c]
        /\ c < b => BucketSizes[c] < BucketSizes[b]
    BY SlabAssumption
  <2>3. b \in Nat /\ c \in Nat /\ BucketSizes[b] \in Nat /\ BucketSizes[c] \in Nat
    BY ConstantsOK
  <2>4. QED  BY <2>1, <2>2, <2>3
<1>5. QED  BY <1>1, <1>2, <1>3, <1>4

LEMMA RawPlace ==
  ASSUME NEW R, NEW bo, RunsApart(R, bo), NEW r \in RawIn(R, bo)
  PROVE  /\ Place(R, bo, RawPointer(r), r.pages * PageSize - HeaderSize)
         /\ RawPointer(r) - HeaderSize = r.base * PageSize
         /\ RawPointer(r) # Null
<1>1. Place(R, bo, RawPointer(r), r.pages * PageSize - HeaderSize)
  BY DEF Place
<1>2. r.base * PageSize \in Nat /\ HeaderSize \in Nat \ {0}
  BY Numbers, RunFacts DEF RawIn
<1>3. QED  BY <1>1, <1>2 DEF RawPointer, Null

LEMMA BlockPlace ==
  ASSUME NEW R, NEW bo, NEW m, NEW l, NEW B, HeapOK(R, bo, m, l, B), NEW p \in B
  PROVE  /\ Place(R, bo, p, CapacityIn(m, p))
         /\ \/ /\ m[p - HeaderSize].kind = "used"
               /\ m[p - HeaderSize].val \in Buckets
               /\ p \in ChunksIn(bo, m[p - HeaderSize].val)
            \/ /\ m[p - HeaderSize].kind = "raw"
               /\ \E r \in RawIn(R, bo) :
                    /\ p = RawPointer(r)
                    /\ m[p - HeaderSize].val = r.pages * PageSize
<1>1. RunsApart(R, bo) /\ HeadersTrue(R, bo, m, B)
  BY DEF HeapOK
<1>2. CASE \E b \in Buckets : p \in ChunksIn(bo, b)
  <2>1. PICK b \in Buckets : p \in ChunksIn(bo, b)
    BY <1>2
  <2>2. m[p - HeaderSize] = UsedHeader(b)
    BY <1>1, <2>1 DEF HeadersTrue
  <2>3. CapacityIn(m, p) = BucketSizes[b]
    BY <2>2 DEF CapacityIn, UsedHeader
  <2>4. QED  BY <1>1, <2>1, <2>2, <2>3, ChunkPlace DEF UsedHeader
<1>3. CASE \E r \in RawIn(R, bo) : p = RawPointer(r)
  <2>1. PICK r \in RawIn(R, bo) : p = RawPointer(r)
    BY <1>3
  <2>2. m[p - HeaderSize] = RawHeader(r.pages * PageSize)
    BY <1>1, <2>1, RawPlace DEF HeadersTrue
  <2>3. CapacityIn(m, p) = r.pages * PageSize - HeaderSize
    BY <2>2 DEF CapacityIn, RawHeader
  <2>4. QED  BY <1>1, <2>1, <2>2, <2>3, RawPlace DEF RawHeader
<1>4. QED  BY <1>1, <1>2, <1>3 DEF HeadersTrue
(* What lies under no header and in no free chunk may change. *)
LEMMA CellsKept ==
  ASSUME NEW R, NEW bo, NEW m, NEW l, NEW B, HeapOK(R, bo, m, l, B),
         NEW m2 \in [Addresses -> Cell],
         \A b \in Buckets : \A p \in ChunksIn(bo, b) :
           m2[p - HeaderSize] = m[p - HeaderSize],
         \A r \in RawIn(R, bo) : m2[r.base * PageSize] = m[r.base * PageSize],
         \A b \in Buckets : \A p \in FreeIn(bo, B, b) : m2[p] = m[p]
  PROVE  HeapOK(R, bo, m2, l, B)
<1>1. RunsApart(R, bo) /\ l \in [Buckets -> Addresses]
  BY DEF HeapOK
<1>2. HeadersTrue(R, bo, m2, B)
  BY DEF HeapOK, HeadersTrue
<1>3. ListsExact(bo, m2, l, B)
  <2>1. SUFFICES ASSUME NEW b \in Buckets
                 PROVE  Exact(FreeIn(bo, B, b), l[b], Links(bo, m2, B, b))
    BY DEF ListsExact
  <2>2. Exact(FreeIn(bo, B, b), l[b], Links(bo, m, B, b))
    BY DEF HeapOK, ListsExact
  <2>3. \A q \in FreeIn(bo, B, b) : Links(bo, m2, B, b)[q] = Links(bo, m, B, b)[q]
    BY DEF Links
  <2>4. QED  BY <2>2, <2>3, ExactSame
<1>4. QED  BY <1>1, <1>2, <1>3 DEF HeapOK

(* An owner may write every cell of its block. *)
LEMMA BlockWritten ==
  ASSUME NEW R, NEW bo, NEW m, NEW l, NEW B, HeapOK(R, bo, m, l, B), NEW p \in B,
         NEW m2 \in [Addresses -> Cell],
         \A a \in Addresses :
           a \notin p..p + CapacityIn(m, p) - 1 => m2[a] = m[a]
  PROVE  /\ HeapOK(R, bo, m2, l, B)
         /\ \A q \in B : m2[q - HeaderSize] = m[q - HeaderSize]
<1> DEFINE n == CapacityIn(m, p)
<1>1. RunsApart(R, bo) /\ Place(R, bo, p, n)
  BY BlockPlace DEF HeapOK
<1>2. \A a \in Addresses : a \notin p..p + n - 1 => m2[a] = m[a]
  OBVIOUS
<1> HIDE DEF n
<1>3. ASSUME NEW q, NEW k, Place(R, bo, q, k)
      PROVE  m2[q - HeaderSize] = m[q - HeaderSize]
  BY <1>1, <1>2, <1>3, CellsApart, PlaceBounds
<1>4. \A b \in Buckets : \A q \in ChunksIn(bo, b) :
        m2[q - HeaderSize] = m[q - HeaderSize]
  BY <1>1, <1>3, ChunkPlace
<1>5. \A r \in RawIn(R, bo) : m2[r.base * PageSize] = m[r.base * PageSize]
  BY <1>1, <1>3, RawPlace
<1>6. ASSUME NEW b \in Buckets, NEW q \in FreeIn(bo, B, b)
      PROVE  m2[q] = m[q]
  <2>1. q \in ChunksIn(bo, b) /\ q # p
    BY DEF FreeIn
  <2>2. /\ Place(R, bo, q, BucketSizes[b]) /\ q \in Addresses
        /\ q \in q..q + BucketSizes[b] - 1
    BY <1>1, <2>1, ChunkPlace
  <2>3. q \in q - HeaderSize..q + BucketSizes[b] - 1
    BY <1>1, <2>2, CellsApart
  <2>4. q \notin p - HeaderSize..p + n - 1
    BY <1>1, <2>1, <2>2, <2>3, CellsApart
  <2>5. p..p + n - 1 \subseteq p - HeaderSize..p + n - 1
    BY <1>1, CellsApart
  <2>6. QED  BY <1>2, <2>2, <2>4, <2>5
<1>7. HeapOK(R, bo, m2, l, B)
  BY <1>4, <1>5, <1>6, CellsKept
<1>8. \A q \in B : m2[q - HeaderSize] = m[q - HeaderSize]
  BY <1>3, BlockPlace
<1>9. QED  BY <1>7, <1>8

(* The cells of a header or of a chunk belong to no other place. *)
LEMMA OthersCells ==
  ASSUME NEW R, NEW bo, RunsApart(R, bo),
         NEW b \in Buckets, NEW p \in ChunksIn(bo, b),
         NEW q, NEW k, Place(R, bo, q, k), q # p
  PROVE  /\ q - HeaderSize \notin {p - HeaderSize, p}
         /\ \A a \in q..q + k - 1 : a \notin {p - HeaderSize, p}
<1> DEFINE n == BucketSizes[b]
<1>1. Place(R, bo, p, n) /\ p \in p..p + n - 1
  BY ChunkPlace
<1> HIDE DEF n
<1>2. p - HeaderSize \in p - HeaderSize..p + n - 1
  BY <1>1, CellsApart
<1>3. p \in p - HeaderSize..p + n - 1
  BY <1>1, CellsApart
<1>4. (q - HeaderSize..q + k - 1) \cap (p - HeaderSize..p + n - 1) = {}
  BY <1>1, CellsApart
<1>5. /\ q - HeaderSize \in q - HeaderSize..q + k - 1
      /\ q..q + k - 1 \subseteq q - HeaderSize..q + k - 1
  BY <1>1, CellsApart
<1>6. QED  BY <1>2, <1>3, <1>4, <1>5

LEMMA HeadersInCell ==
  /\ FreeHeader \in Cell
  /\ \A b \in Buckets : UsedHeader(b) \in Cell
  /\ \A n \in 1..HeapPages : RawHeader(n * PageSize) \in Cell
  /\ \A a \in Addresses : Data(a) \in Cell
  /\ \A v \in Values : Data(v) \in Cell
  /\ Data(Unknown) \in Cell
  /\ Null \in Addresses
<1>1. Null \in Addresses
  <2>1. 1 * PageSize <= HeapPages * PageSize
    <3>1. 1 \in Nat /\ 1 <= HeapPages /\ HeapPages \in Nat /\ PageSize \in Nat
      BY Numbers
    <3>2. QED  BY <3>1, Monotone
  <2> DEFINE top == HeapPages * PageSize
  <2>2. top >= 1 /\ top \in Nat
    BY <2>1, Numbers
  <2>3. Addresses = 0..top - 1
    BY DEF Addresses
  <2> HIDE DEF top
  <2>4. QED  BY <2>2, <2>3 DEF Null
<1>2. QED  BY <1>1 DEF Cell

(* The first chunk of a list is handed out. *)
LEMMA ChunkTaken ==
  ASSUME NEW R, NEW bo, NEW m, NEW l, NEW B, HeapOK(R, bo, m, l, B),
         NEW b \in Buckets, l[b] # Null
  PROVE  /\ l[b] \in FreeIn(bo, B, b)
         /\ m[l[b] - HeaderSize] = FreeHeader
         /\ HeapOK(R, bo, [m EXCEPT ![l[b] - HeaderSize] = UsedHeader(b)],
                   [l EXCEPT ![b] = m[l[b]].val], B \cup {l[b]})
<1> DEFINE p == l[b]
           m2 == [m EXCEPT ![p - HeaderSize] = UsedHeader(b)]
           l2 == [l EXCEPT ![b] = m[p].val]
           B2 == B \cup {p}
<1>1. /\ RunsApart(R, bo) /\ m \in [Addresses -> Cell]
      /\ l \in [Buckets -> Addresses]
      /\ HeadersTrue(R, bo, m, B) /\ ListsExact(bo, m, l, B)
  BY DEF HeapOK
<1>2. Exact(FreeIn(bo, B, b), p, Links(bo, m, B, b))
  BY <1>1 DEF ListsExact
<1>3. p \in FreeIn(bo, B, b)
  BY <1>2 DEF Exact, ClosedIn
<1>4. p \in ChunksIn(bo, b) /\ p \notin B
  BY <1>3 DEF FreeIn
<1>5. m[p - HeaderSize] = FreeHeader
  BY <1>1, <1>4 DEF HeadersTrue
<1>6. p - HeaderSize \in Addresses /\ p \in Addresses
  BY <1>1, <1>4, ChunkPlace, PlaceBounds
<1>7. m2 \in [Addresses -> Cell] /\ m2[p - HeaderSize] = UsedHeader(b)
  BY <1>1, <1>6, HeadersInCell
<1>8. ASSUME NEW q, NEW k, Place(R, bo, q, k), q # p
      PROVE  /\ m2[q - HeaderSize] = m[q - HeaderSize]
             /\ \A a \in q..q + k - 1 : m2[a] = m[a]
  <2>1. /\ q - HeaderSize # p - HeaderSize
        /\ \A a \in q..q + k - 1 : a # p - HeaderSize
    BY <1>1, <1>4, <1>8, OthersCells
  <2>2. QED  BY <1>1, <2>1
<1> HIDE DEF m2
<1>9. HeadersTrue(R, bo, m2, B2)
  <2>1. ASSUME NEW c \in Buckets, NEW q \in ChunksIn(bo, c)
        PROVE  m2[q - HeaderSize] = IF q \in B2 THEN UsedHeader(c) ELSE FreeHeader
    <3>1. CASE q = p
      BY <1>1, <1>4, <1>7, <3>1, ChunkPlace
    <3>2. CASE q # p
      <4>1. m2[q - HeaderSize] = m[q - HeaderSize]
        BY <1>1, <1>8, <3>2, ChunkPlace
      <4>2. QED  BY <1>1, <3>2, <4>1 DEF HeadersTrue
    <3>3. QED  BY <3>1, <3>2
  <2>2. ASSUME NEW r \in RawIn(R, bo)
        PROVE  /\ RawPointer(r) \in B2
               /\ HeaderSize < r.pages * PageSize
               /\ m2[r.base * PageSize] = RawHeader(r.pages * PageSize)
    <3>1. /\ RawPointer(r) \in B /\ HeaderSize < r.pages * PageSize
          /\ m[r.base * PageSize] = RawHeader(r.pages * PageSize)
      BY <1>1 DEF HeadersTrue
    <3>2. RawPointer(r) # p
      BY <1>4, <3>1
    <3>3. m2[r.base * PageSize] = m[r.base * PageSize]
      BY <1>1, <1>8, <3>2, RawPlace
    <3>4. QED  BY <3>1, <3>3
  <2>3. \A q \in B2 : \/ \E c \in Buckets : q \in ChunksIn(bo, c)
                      \/ \E r \in RawIn(R, bo) : q = RawPointer(r)
    BY <1>1, <1>4 DEF HeadersTrue
  <2>4. QED  BY <2>1, <2>2, <2>3 DEF HeadersTrue
<1>10. m[p].val \in Addresses
  <2>1. m[p].val = Links(bo, m, B, b)[p]
    BY <1>3 DEF Links
  <2>2. m[p].val # Null => m[p].val \in FreeIn(bo, B, b)
    BY <1>2, <1>3, <2>1 DEF Exact, ClosedIn
  <2>3. \A q \in FreeIn(bo, B, b) : q \in Addresses
    BY <1>1, ChunkPlace DEF FreeIn
  <2>4. QED  BY <2>2, <2>3, HeadersInCell
<1>11. ListsExact(bo, m2, l2, B2)
  <2>1. ASSUME NEW c \in Buckets, NEW q \in FreeIn(bo, B2, c)
        PROVE  /\ q \in FreeIn(bo, B, c)
               /\ Links(bo, m2, B2, c)[q] = Links(bo, m, B, c)[q]
    <3>1. q \in ChunksIn(bo, c) /\ q \notin B /\ q # p
      BY DEF FreeIn
    <3>2. m2[q] = m[q]
      BY <1>1, <1>8, <3>1, ChunkPlace
    <3>3. QED  BY <3>1, <3>2 DEF FreeIn, Links
  <2>2. ASSUME NEW c \in Buckets
        PROVE  Exact(FreeIn(bo, B2, c), l2[c], Links(bo, m2, B2, c))
    <3>1. CASE c = b
      <4>1. FreeIn(bo, B2, b) = FreeIn(bo, B, b) \ {p}
        BY DEF FreeIn
      <4>2. l2[b] = Links(bo, m, B, b)[p]
        BY <1>1, <1>3 DEF Links
      <4>3. \A q \in FreeIn(bo, B, b) \ {p} :
              Links(bo, m2, B2, b)[q] = Links(bo, m, B, b)[q]
        BY <2>1, <4>1
      <4>4. Exact(FreeIn(bo, B, b) \ {p}, Links(bo, m, B, b)[p],
                  Links(bo, m2, B2, b))
        BY <1>2, <4>3, ExactPop
      <4>5. QED  BY <3>1, <4>1, <4>2, <4>4
    <3>2. CASE c # b
      <4>1. p \notin ChunksIn(bo, c)
        BY <1>1, <1>4, <3>2, ChunkPlace
      <4>2. FreeIn(bo, B2, c) = FreeIn(bo, B, c)
        BY <4>1 DEF FreeIn
      <4>3. l2[c] = l[c]
        BY <1>1, <3>2
      <4>4. Exact(FreeIn(bo, B, c), l[c], Links(bo, m, B, c))
        BY <1>1 DEF ListsExact
      <4>5. \A q \in FreeIn(bo, B, c) :
              Links(bo, m2, B2, c)[q] = Links(bo, m, B, c)[q]
        BY <2>1, <4>2
      <4>6. Exact(FreeIn(bo, B, c), l[c], Links(bo, m2, B2, c))
        BY <4>4, <4>5, ExactSame
      <4>7. QED  BY <4>2, <4>3, <4>6
    <3>3. QED  BY <3>1, <3>2
  <2>3. QED  BY <2>2 DEF ListsExact
<1>12. l2 \in [Buckets -> Addresses]
  BY <1>1, <1>10
<1>13. HeapOK(R, bo, m2, l2, B2)
  BY <1>1, <1>7, <1>9, <1>11, <1>12 DEF HeapOK
<1>14. QED  BY <1>3, <1>5, <1>13 DEF m2
(* A chunk is given back: it becomes the first of its bucket's list. *)
LEMMA ChunkGivenBack ==
  ASSUME NEW R, NEW bo, NEW m, NEW l, NEW B, HeapOK(R, bo, m, l, B),
         NEW b \in Buckets, NEW p \in ChunksIn(bo, b), p \in B
  PROVE  HeapOK(R, bo, [m EXCEPT ![p - HeaderSize] = FreeHeader, ![p] = Data(l[b])],
                [l EXCEPT ![b] = p], B \ {p})
<1> DEFINE m2 == [m EXCEPT ![p - HeaderSize] = FreeHeader, ![p] = Data(l[b])]
           l2 == [l EXCEPT ![b] = p]
           B2 == B \ {p}
<1>1. /\ RunsApart(R, bo) /\ m \in [Addresses -> Cell]
      /\ l \in [Buckets -> Addresses]
      /\ HeadersTrue(R, bo, m, B) /\ ListsExact(bo, m, l, B)
  BY DEF HeapOK
<1>2. /\ p - HeaderSize \in Addresses /\ p \in Addresses
      /\ p - HeaderSize # p /\ p # Null
  <2>1. /\ Place(R, bo, p, BucketSizes[b]) /\ p \in Addresses /\ p # Null
    BY <1>1, ChunkPlace
  <2>2. /\ p - HeaderSize \in Addresses /\ p - HeaderSize \in Nat /\ p \in Nat
        /\ p - HeaderSize < p
    BY <1>1, <2>1, PlaceBounds
  <2>3. QED  BY <2>1, <2>2
<1>3. /\ m2 \in [Addresses -> Cell]
      /\ m2[p - HeaderSize] = FreeHeader /\ m2[p] = Data(l[b])
  <2>1. l[b] \in Addresses
    BY <1>1
  <2>2. Data(l[b]) \in Cell /\ FreeHeader \in Cell
    BY <2>1, HeadersInCell
  <2>3. QED  BY <1>1, <1>2, <2>2
<1>4. ASSUME NEW q, NEW k, Place(R, bo, q, k), q # p
      PROVE  /\ m2[q - HeaderSize] = m[q - HeaderSize]
             /\ \A a \in q..q + k - 1 : m2[a] = m[a]
  <2>1. /\ q - HeaderSize \notin {p - HeaderSize, p}
        /\ \A a \in q..q + k - 1 : a \notin {p - HeaderSize, p}
    BY <1>1, <1>4, OthersCells
  <2>2. /\ q - HeaderSize \in Addresses
        /\ \A a \in q..q + k - 1 : a \in Addresses
    BY <1>1, <1>4, PlaceBounds
  <2>3. \A a \in Addresses : a \notin {p - HeaderSize, p} => m2[a] = m[a]
    BY <1>1
  <2> HIDE DEF m2
  <2>4. QED  BY <2>1, <2>2, <2>3
<1> HIDE DEF m2
<1>5. m[p - HeaderSize] = UsedHeader(b)
  BY <1>1 DEF HeadersTrue
<1>6. HeadersTrue(R, bo, m2, B2)
  <2>1. ASSUME NEW c \in Buckets, NEW q \in ChunksIn(bo, c)
        PROVE  m2[q - HeaderSize] = IF q \in B2 THEN UsedHeader(c) ELSE FreeHeader
    <3>1. CASE q = p
      BY <1>3, <3>1
    <3>2. CASE q # p
      <4>1. m2[q - HeaderSize] = m[q - HeaderSize]
        BY <1>1, <1>4, <3>2, ChunkPlace
      <4>2. QED  BY <1>1, <3>2, <4>1 DEF HeadersTrue
    <3>3. QED  BY <3>1, <3>2
  <2>2. ASSUME NEW r \in RawIn(R, bo)
        PROVE  /\ RawPointer(r) \in B2
               /\ HeaderSize < r.pages * PageSize
               /\ m2[r.base * PageSize] = RawHeader(r.pages * PageSize)
    <3>1. /\ RawPointer(r) \in B /\ HeaderSize < r.pages * PageSize
          /\ m[r.base * PageSize] = RawHeader(r.pages * PageSize)
      BY <1>1 DEF HeadersTrue
    <3>2. RawPointer(r) - HeaderSize = r.base * PageSize
      BY <1>1, RawPlace
    <3>3. RawPointer(r) # p
      BY <1>5, <3>1, <3>2 DEF UsedHeader, RawHeader
    <3>4. m2[r.base * PageSize] = m[r.base * PageSize]
      BY <1>1, <1>4, <3>2, <3>3, RawPlace
    <3>5. QED  BY <3>1, <3>3, <3>4
  <2>3. \A q \in B2 : \/ \E c \in Buckets : q \in ChunksIn(bo, c)
                      \/ \E r \in RawIn(R, bo) : q = RawPointer(r)
    BY <1>1 DEF HeadersTrue
  <2>4. QED  BY <2>1, <2>2, <2>3 DEF HeadersTrue
<1>7. ListsExact(bo, m2, l2, B2)
  <2>1. ASSUME NEW c \in Buckets, NEW q \in FreeIn(bo, B, c)
        PROVE  /\ q # p /\ q \in FreeIn(bo, B2, c)
               /\ Links(bo, m2, B2, c)[q] = Links(bo, m, B, c)[q]
    <3>1. q \in ChunksIn(bo, c) /\ q \notin B /\ q # p
      BY DEF FreeIn
    <3>2. m2[q] = m[q]
      BY <1>1, <1>4, <3>1, ChunkPlace
    <3>3. QED  BY <3>1, <3>2 DEF FreeIn, Links
  <2>2. ASSUME NEW c \in Buckets
        PROVE  Exact(FreeIn(bo, B2, c), l2[c], Links(bo, m2, B2, c))
    <3>1. Exact(FreeIn(bo, B, c), l[c], Links(bo, m, B, c))
      BY <1>1 DEF ListsExact
    <3>2. CASE c = b
      <4>1. FreeIn(bo, B2, b) = FreeIn(bo, B, b) \cup {p}
        BY DEF FreeIn
      <4>2. Links(bo, m2, B2, b)[p] = l[b]
        <5>1. p \in FreeIn(bo, B2, b)
          BY <4>1
        <5>2. m2[p].val = l[b]
          BY <1>3 DEF Data
        <5> HIDE DEF B2
        <5>3. QED  BY <5>1, <5>2 DEF Links
      <4>3. \A q \in FreeIn(bo, B, b) :
              Links(bo, m2, B2, b)[q] = Links(bo, m, B, b)[q]
        BY <2>1
      <4>4. p \notin FreeIn(bo, B, b)
        BY <2>1
      <4>5. Exact(FreeIn(bo, B, b) \cup {p}, p, Links(bo, m2, B2, b))
        BY <1>2, <3>1, <3>2, <4>2, <4>3, <4>4, ExactPush
      <4>6. l2[b] = p
        BY <1>1
      <4>7. QED  BY <3>2, <4>1, <4>5, <4>6
    <3>3. CASE c # b
      <4>1. p \notin ChunksIn(bo, c)
        BY <1>1, <3>3, ChunkPlace
      <4>2. FreeIn(bo, B2, c) = FreeIn(bo, B, c)
        BY <4>1 DEF FreeIn
      <4>3. l2[c] = l[c]
        BY <1>1, <3>3
      <4>4. \A q \in FreeIn(bo, B, c) :
              Links(bo, m2, B2, c)[q] = Links(bo, m, B, c)[q]
        BY <2>1
      <4>5. Exact(FreeIn(bo, B, c), l[c], Links(bo, m2, B2, c))
        BY <3>1, <4>4, ExactSame
      <4>6. QED  BY <4>2, <4>3, <4>5
    <3>4. QED  BY <3>2, <3>3
  <2>3. QED  BY <2>2 DEF ListsExact
<1>8. l2 \in [Buckets -> Addresses]
  BY <1>1, <1>2
<1>9. HeapOK(R, bo, m2, l2, B2)
  BY <1>1, <1>3, <1>6, <1>7, <1>8 DEF HeapOK
<1>10. QED  BY <1>9 DEF m2

LEMMA CellInRun ==
  ASSUME NEW R, NEW bo, RunsApart(R, bo), NEW s \in R, NEW a \in Nat,
         s.base * PageSize <= a, a < (s.base + s.pages) * PageSize
  PROVE  a \div PageSize \in Pages!PagesOf(s)
<1> DEFINE q == a \div PageSize
           x == s.base
           y == s.base + s.pages
<1>1. q \in Nat /\ q * PageSize <= a /\ a < q * PageSize + PageSize
  BY Numbers, QuotientBounds
<1>2. x \in Nat /\ y \in Nat /\ PageSize \in Nat
  <2>1. s.base \in Nat /\ s.pages \in Nat
    <3>1. s.base \in Nat /\ s.pages \in Nat \ {0}
      BY Zenon, RunFacts
    <3>2. QED  BY <3>1
  <2>2. PageSize \in Nat
    BY Numbers
  <2>3. QED  BY <2>1, <2>2
<1>3. x * PageSize <= a /\ a < y * PageSize
  OBVIOUS
<1>4. Pages!PagesOf(s) = x..y - 1
  BY RunFacts
<1> HIDE DEF q, x, y
<1>5. x <= q
  <2>1. SUFFICES ASSUME q + 1 <= x PROVE FALSE
    BY <1>1, <1>2
  <2>2. (q + 1) * PageSize <= x * PageSize
    <3>1. q + 1 \in Nat
      BY <1>1
    <3>2. QED  BY <1>2, <2>1, <3>1, Monotone
  <2>3. (q + 1) * PageSize = q * PageSize + PageSize
    BY <1>1, <1>2
  <2> DEFINE u == q * PageSize
             v == x * PageSize
  <2>4. u \in Nat /\ v \in Nat /\ u + PageSize <= v /\ v <= a /\ a < u + PageSize
    BY <1>1, <1>2, <1>3, <2>2, <2>3
  <2> HIDE DEF u, v
  <2>5. QED  BY <1>2, <2>4
<1>6. q < y
  <2>1. SUFFICES ASSUME y <= q PROVE FALSE
    BY <1>1, <1>2
  <2>2. y * PageSize <= q * PageSize
    BY <1>1, <1>2, <2>1, Monotone
  <2> DEFINE u == q * PageSize
             v == y * PageSize
  <2>3. u \in Nat /\ v \in Nat /\ v <= u /\ u <= a /\ a < v
    BY <1>1, <1>2, <1>3, <2>2
  <2> HIDE DEF u, v
  <2>4. QED  BY <2>3
<1>7. q \in Pages!PagesOf(s)
  BY <1>1, <1>2, <1>4, <1>5, <1>6
<1>8. QED  BY <1>7 DEF q
(* The cells of a place are in pages of one run. *)
LEMMA PlaceInRun ==
  ASSUME NEW R, NEW bo, RunsApart(R, bo), NEW p, NEW n, Place(R, bo, p, n)
  PROVE  \E r \in R :
           /\ Holds(bo, r, p, n)
           /\ \A a \in p - HeaderSize..p + n - 1 :
                a \in Addresses /\ a \div PageSize \in Pages!PagesOf(r)
<1>1. PICK r \in R : Holds(bo, r, p, n) /\ Within(r, p, n)
  BY PlaceRun
<1>2. ASSUME NEW a \in p - HeaderSize..p + n - 1
      PROVE  a \in Addresses /\ a \div PageSize \in Pages!PagesOf(r)
  <2> DEFINE x == r.base * PageSize
             y == (r.base + r.pages) * PageSize
             top == HeapPages * PageSize
  <2>1. /\ p - HeaderSize \in Nat /\ p \in Nat /\ n \in Int
        /\ x <= p - HeaderSize /\ p + n <= y
    BY <1>1 DEF Within
  <2>2. x \in Nat /\ y \in Nat /\ top \in Nat /\ y <= top
    BY RunFacts
  <2>3. Addresses = 0..top - 1
    BY DEF Addresses
  <2> HIDE DEF x, y, top
  <2>4. a \in Nat /\ x <= a /\ a < y /\ a \in Addresses
    BY <2>1, <2>2, <2>3
  <2>5. QED  BY <2>4, CellInRun DEF x, y
<1>3. QED  BY <1>1, <1>2

(* A run is given back: its pages, and nothing else, are lost. *)
LEMMA RunGivenBack ==
  ASSUME NEW R, NEW bo, NEW m, NEW l, NEW B, HeapOK(R, bo, m, l, B),
         NEW r \in RawIn(R, bo)
  PROVE  HeapOK(R \ {r}, bo,
                [a \in Addresses |-> IF InRun(a, r) THEN Data(Unknown) ELSE m[a]],
                l, B \ {RawPointer(r)})
<1> DEFINE m2 == [a \in Addresses |-> IF InRun(a, r) THEN Data(Unknown) ELSE m[a]]
           p == RawPointer(r)
           B2 == B \ {p}
           R2 == R \ {r}
<1>1. /\ RunsApart(R, bo) /\ m \in [Addresses -> Cell]
      /\ l \in [Buckets -> Addresses]
      /\ HeadersTrue(R, bo, m, B) /\ ListsExact(bo, m, l, B)
  BY DEF HeapOK
<1>2. r \in R /\ bo[r.base] = 0
  BY DEF RawIn
<1>3. m2 \in [Addresses -> Cell]
  BY <1>1, HeadersInCell
<1>4. ASSUME NEW q, NEW k, Place(R, bo, q, k), q # p
      PROVE  \A a \in q - HeaderSize..q + k - 1 : m2[a] = m[a]
  <2>1. PICK s \in R :
          /\ Holds(bo, s, q, k)
          /\ \A a \in q - HeaderSize..q + k - 1 :
               a \in Addresses /\ a \div PageSize \in Pages!PagesOf(s)
    BY <1>1, <1>4, PlaceInRun
  <2>2. s # r
    BY <1>2, <1>4, <2>1, ConstantsOK DEF Holds
  <2>3. Pages!PagesOf(s) \cap Pages!PagesOf(r) = {}
    BY <1>1, <1>2, <2>2 DEF RunsApart
  <2>4. QED  BY <2>1, <2>3 DEF InRun
<1> HIDE DEF m2
<1>5. ASSUME NEW q, NEW k, Place(R, bo, q, k), q # p
      PROVE  m2[q - HeaderSize] = m[q - HeaderSize]
  BY <1>1, <1>4, <1>5, CellsApart
<1>6. p \in B /\ m[r.base * PageSize] = RawHeader(r.pages * PageSize)
      /\ p - HeaderSize = r.base * PageSize
  BY <1>1, RawPlace DEF HeadersTrue
<1>7. \A b \in Buckets : p \notin ChunksIn(bo, b)
  <2> HIDE DEF p
  <2>1. ASSUME NEW b \in Buckets, p \in ChunksIn(bo, b)
        PROVE  m[p - HeaderSize].kind = "used"
    <3>1. m[p - HeaderSize] = UsedHeader(b)
      BY <1>1, <1>6, <2>1 DEF HeadersTrue
    <3>2. QED  BY <3>1 DEF UsedHeader
  <2>2. m[p - HeaderSize].kind = "raw"
    BY <1>6 DEF RawHeader
  <2>3. QED  BY <2>1, <2>2
<1>8. RunsApart(R2, bo)
  BY <1>1, <1>2 DEF RunsApart
<1>9. RawIn(R2, bo) = RawIn(R, bo) \ {r}
  BY DEF RawIn
<1>10. \A s \in RawIn(R2, bo) : RawPointer(s) # p
  <2>1. SUFFICES ASSUME NEW s \in R, s # r, RawPointer(s) = p PROVE FALSE
    BY DEF RawIn
  <2> DEFINE x == r.base * PageSize
             y == s.base * PageSize
             xx == (r.base + r.pages) * PageSize
             yy == (s.base + s.pages) * PageSize
  <2>2. xx <= y \/ yy <= x
    BY <1>1, <1>2, <2>1, RunsOrdered
  <2>3. /\ x \in Nat /\ y \in Nat /\ xx >= x + PageSize /\ yy >= y + PageSize
        /\ xx \in Nat /\ yy \in Nat
    <3>1. /\ r.base * PageSize \in Nat /\ r.pages * PageSize \in Nat
          /\ r.pages * PageSize >= PageSize
          /\ xx = r.base * PageSize + r.pages * PageSize
      BY <1>1, <1>2, RunFacts
    <3>2. /\ s.base * PageSize \in Nat /\ s.pages * PageSize \in Nat
          /\ s.pages * PageSize >= PageSize
          /\ yy = s.base * PageSize + s.pages * PageSize
      BY <1>1, RunFacts
    <3>3. QED  BY <3>1, <3>2, Numbers
  <2>4. x + HeaderSize = y + HeaderSize
    BY <2>1 DEF RawPointer
  <2> HIDE DEF x, y, xx, yy
  <2>5. QED  BY <2>2, <2>3, <2>4, Numbers
<1>11. HeadersTrue(R2, bo, m2, B2)
  <2>1. ASSUME NEW c \in Buckets, NEW q \in ChunksIn(bo, c)
        PROVE  m2[q - HeaderSize] = IF q \in B2 THEN UsedHeader(c) ELSE FreeHeader
    <3>1. q # p
      BY <1>7
    <3>2. m2[q - HeaderSize] = m[q - HeaderSize]
      BY <1>1, <1>5, <3>1, ChunkPlace
    <3>3. QED  BY <1>1, <3>1, <3>2 DEF HeadersTrue
  <2>2. ASSUME NEW s \in RawIn(R2, bo)
        PROVE  /\ RawPointer(s) \in B2
               /\ HeaderSize < s.pages * PageSize
               /\ m2[s.base * PageSize] = RawHeader(s.pages * PageSize)
    <3>1. s \in RawIn(R, bo) /\ RawPointer(s) # p
      BY <1>9, <1>10
    <3>2. m2[s.base * PageSize] = m[s.base * PageSize]
      BY <1>1, <1>5, <3>1, RawPlace
    <3>3. QED  BY <1>1, <3>1, <3>2 DEF HeadersTrue
  <2>3. \A q \in B2 : \/ \E c \in Buckets : q \in ChunksIn(bo, c)
                      \/ \E s \in RawIn(R2, bo) : q = RawPointer(s)
    BY <1>1, <1>9 DEF HeadersTrue
  <2>4. QED  BY <2>1, <2>2, <2>3 DEF HeadersTrue
<1>12. ListsExact(bo, m2, l, B2)
  <2>1. ASSUME NEW c \in Buckets
        PROVE  Exact(FreeIn(bo, B2, c), l[c], Links(bo, m2, B2, c))
    <3>1. Exact(FreeIn(bo, B, c), l[c], Links(bo, m, B, c))
      BY <1>1 DEF ListsExact
    <3>2. FreeIn(bo, B2, c) = FreeIn(bo, B, c)
      BY <1>7 DEF FreeIn
    <3>3. ASSUME NEW q \in FreeIn(bo, B, c)
          PROVE  Links(bo, m2, B2, c)[q] = Links(bo, m, B, c)[q]
      <4>1. q \in ChunksIn(bo, c) /\ q # p
        BY <1>7 DEF FreeIn
      <4>2. /\ Place(R, bo, q, BucketSizes[c])
            /\ q \in q..q + BucketSizes[c] - 1
        BY <1>1, <4>1, ChunkPlace
      <4>3. q \in q - HeaderSize..q + BucketSizes[c] - 1
        BY <1>1, <4>2, CellsApart
      <4>4. m2[q] = m[q]
        BY <1>4, <4>1, <4>2, <4>3
      <4>5. QED  BY <3>2, <4>4 DEF Links
    <3>4. Exact(FreeIn(bo, B, c), l[c], Links(bo, m2, B2, c))
      BY <3>1, <3>3, ExactSame
    <3>5. QED  BY <3>2, <3>4
  <2>2. QED  BY <2>1 DEF ListsExact
<1>13. HeapOK(R2, bo, m2, l, B2)
  BY <1>1, <1>3, <1>8, <1>11, <1>12 DEF HeapOK
<1>14. QED  BY <1>13 DEF m2
(* A run that the VMM has just given out is apart from the others, and     *)
(* from every place there was.                                             *)
Fresh(r, R) ==
  /\ r \in Pages!Run /\ Pages!PagesOf(r) \subseteq Pages!Pages
  /\ \A s \in R : Pages!PagesOf(r) \cap Pages!PagesOf(s) = {}

PlacesOutside(R, bo, r) ==
  \A p, n : Place(R, bo, p, n) =>
    \A a \in p - HeaderSize..p + n - 1 :
      a \in Addresses /\ a \div PageSize \notin Pages!PagesOf(r)

LEMMA FreshRun ==
  ASSUME NEW R, NEW bo, RunsApart(R, bo), NEW r, Fresh(r, R)
  PROVE  /\ r.base \in Pages!Pages /\ bo[r.base] = 0 /\ r \notin R
         /\ \A s \in R : s.base # r.base
         /\ RunsApart(R \cup {r}, bo)
         /\ PlacesOutside(R, bo, r)
<1> USE DEF Fresh
<1>1. /\ r.base \in Pages!Pages /\ r.base \in Nat /\ r.pages \in Nat \ {0}
      /\ Pages!PagesOf(r) = r.base..r.base + r.pages - 1
  BY ConstantsOK DEF Pages!Run, Pages!PagesOf
<1>2. r.base \in Pages!PagesOf(r)
  BY <1>1
<1>3. \A s \in R : s.base \in Pages!PagesOf(s)
  BY RunFacts
<1>4. r \notin R /\ \A s \in R : s.base # r.base
  BY <1>2, <1>3
<1>5. bo[r.base] = 0
  <2>1. ASSUME bo[r.base] # 0 PROVE FALSE
    <3>1. [base |-> r.base, pages |-> 1] \in R
      BY <1>1, <2>1 DEF RunsApart
    <3>2. QED  BY <1>4, <3>1
  <2>2. QED  BY <2>1
<1>6. RunsApart(R \cup {r}, bo)
  BY <1>4 DEF RunsApart
<1>7. ASSUME NEW p, NEW n, Place(R, bo, p, n),
             NEW a \in p - HeaderSize..p + n - 1
      PROVE  a \in Addresses /\ a \div PageSize \notin Pages!PagesOf(r)
  <2>1. PICK s \in R :
          \A c \in p - HeaderSize..p + n - 1 :
            c \in Addresses /\ c \div PageSize \in Pages!PagesOf(s)
    BY <1>7, PlaceInRun
  <2>2. QED  BY <2>1
<1>8. QED  BY <1>1, <1>4, <1>5, <1>6, <1>7 DEF PlacesOutside

(* A run becomes a block of its own. *)
LEMMA RunTaken ==
  ASSUME NEW R, NEW bo, NEW m, NEW l, NEW B, HeapOK(R, bo, m, l, B),
         NEW r, Fresh(r, R), HeaderSize < r.pages * PageSize
  PROVE  /\ RawPointer(r) \notin B
         /\ \A n : ~Place(R, bo, RawPointer(r), n)
         /\ r \in RawIn(R \cup {r}, bo)
         /\ HeapOK(R \cup {r}, bo,
                   [m EXCEPT ![r.base * PageSize] = RawHeader(r.pages * PageSize)],
                   l, B \cup {RawPointer(r)})
<1> DEFINE m2 == [m EXCEPT ![r.base * PageSize] = RawHeader(r.pages * PageSize)]
           p == RawPointer(r)
           B2 == B \cup {p}
           R2 == R \cup {r}
<1>1. /\ RunsApart(R, bo) /\ m \in [Addresses -> Cell]
      /\ l \in [Buckets -> Addresses]
      /\ HeadersTrue(R, bo, m, B) /\ ListsExact(bo, m, l, B)
  BY DEF HeapOK
<1>2. /\ r.base \in Pages!Pages /\ bo[r.base] = 0 /\ r \notin R
      /\ \A s \in R : s.base # r.base
      /\ RunsApart(R2, bo)
      /\ PlacesOutside(R, bo, r)
  <2> HIDE DEF m2
  <2>1. QED  BY <1>1, FreshRun
<1>3. r \in RawIn(R2, bo) /\ RawIn(R2, bo) = RawIn(R, bo) \cup {r}
  BY <1>2 DEF RawIn
<1>4. /\ p - HeaderSize = r.base * PageSize
      /\ p - HeaderSize \in Addresses
      /\ (p - HeaderSize) \div PageSize \in Pages!PagesOf(r)
  <2>1. /\ Place(R2, bo, p, r.pages * PageSize - HeaderSize)
        /\ p - HeaderSize = r.base * PageSize
    BY <1>2, <1>3, RawPlace
  <2>2. p - HeaderSize \in Addresses
    BY <1>2, <2>1, PlaceBounds
  <2>3. (p - HeaderSize) \div PageSize = r.base
    <3>1. r.base \in Nat
      BY <1>2, ConstantsOK
    <3>2. (r.base * PageSize) \div PageSize = r.base
      BY <3>1, Numbers
    <3>3. QED  BY <2>1, <3>2
  <2>4. r.base \in Pages!PagesOf(r)
    BY <1>2, RunFacts
  <2>5. QED  BY <2>1, <2>2, <2>3, <2>4
<1>5. ASSUME NEW q, NEW k, Place(R, bo, q, k)
      PROVE  /\ q # p
             /\ \A a \in q - HeaderSize..q + k - 1 : m2[a] = m[a]
  <2>1. \A a \in q - HeaderSize..q + k - 1 :
          a \in Addresses /\ a # p - HeaderSize
    BY <1>2, <1>4, <1>5 DEF PlacesOutside
  <2>2. q - HeaderSize \in q - HeaderSize..q + k - 1
    BY <1>1, <1>5, CellsApart
  <2>3. q # p
    BY <2>1, <2>2
  <2>4. \A a \in q - HeaderSize..q + k - 1 : m2[a] = m[a]
    BY <1>1, <1>4, <2>1
  <2>5. QED  BY <2>3, <2>4
<1>6. /\ m2 \in [Addresses -> Cell]
      /\ m2[p - HeaderSize] = RawHeader(r.pages * PageSize)
  <2>1. r.pages \in 1..HeapPages
    BY DEF Pages!Run, Fresh
  <2>2. RawHeader(r.pages * PageSize) \in Cell
    BY <2>1, HeadersInCell
  <2>3. QED  BY <1>1, <1>4, <2>2
<1> HIDE DEF m2, p
<1>7. ASSUME NEW q, NEW k, Place(R, bo, q, k)
      PROVE  m2[q - HeaderSize] = m[q - HeaderSize]
  BY <1>1, <1>5, <1>7, CellsApart
<1>8. p \notin B
  BY <1>1, <1>5, BlockPlace
<1>9. HeadersTrue(R2, bo, m2, B2)
  <2>1. ASSUME NEW c \in Buckets, NEW q \in ChunksIn(bo, c)
        PROVE  m2[q - HeaderSize] = IF q \in B2 THEN UsedHeader(c) ELSE FreeHeader
    <3>1. q # p /\ m2[q - HeaderSize] = m[q - HeaderSize]
      BY <1>1, <1>5, <1>7, ChunkPlace
    <3>2. QED  BY <1>1, <3>1 DEF HeadersTrue
  <2>2. ASSUME NEW s \in RawIn(R2, bo)
        PROVE  /\ RawPointer(s) \in B2
               /\ HeaderSize < s.pages * PageSize
               /\ m2[s.base * PageSize] = RawHeader(s.pages * PageSize)
    <3>1. CASE s \in RawIn(R, bo)
      <4>1. m2[s.base * PageSize] = m[s.base * PageSize]
        BY <1>1, <1>7, <3>1, RawPlace
      <4>2. QED  BY <1>1, <3>1, <4>1 DEF HeadersTrue
    <3>2. CASE s = r
      BY <1>4, <1>6, <3>2 DEF p
    <3>3. QED  BY <1>3, <3>1, <3>2
  <2>3. \A q \in B2 : \/ \E c \in Buckets : q \in ChunksIn(bo, c)
                      \/ \E s \in RawIn(R2, bo) : q = RawPointer(s)
    <3>1. p = RawPointer(r)
      BY DEF p
    <3>2. QED  BY <1>1, <1>3, <3>1 DEF HeadersTrue
  <2>4. QED  BY <2>1, <2>2, <2>3 DEF HeadersTrue
<1>10. ListsExact(bo, m2, l, B2)
  <2>1. ASSUME NEW c \in Buckets
        PROVE  Exact(FreeIn(bo, B2, c), l[c], Links(bo, m2, B2, c))
    <3>1. Exact(FreeIn(bo, B, c), l[c], Links(bo, m, B, c))
      BY <1>1 DEF ListsExact
    <3>2. p \notin ChunksIn(bo, c)
      BY <1>1, <1>5, ChunkPlace
    <3>3. FreeIn(bo, B2, c) = FreeIn(bo, B, c)
      BY <3>2 DEF FreeIn
    <3>4. ASSUME NEW q \in FreeIn(bo, B, c)
          PROVE  Links(bo, m2, B2, c)[q] = Links(bo, m, B, c)[q]
      <4>1. q \in ChunksIn(bo, c)
        BY DEF FreeIn
      <4>2. /\ Place(R, bo, q, BucketSizes[c])
            /\ q \in q..q + BucketSizes[c] - 1
        BY <1>1, <4>1, ChunkPlace
      <4>3. q \in q - HeaderSize..q + BucketSizes[c] - 1
        BY <1>1, <4>2, CellsApart
      <4>4. m2[q] = m[q]
        BY <1>5, <4>2, <4>3
      <4>5. QED  BY <3>3, <4>4 DEF Links
    <3>5. Exact(FreeIn(bo, B, c), l[c], Links(bo, m2, B2, c))
      BY <3>1, <3>4, ExactSame
    <3>6. QED  BY <3>3, <3>5
  <2>2. QED  BY <2>1 DEF ListsExact
<1>11. HeapOK(R2, bo, m2, l, B2)
  BY <1>1, <1>2, <1>6, <1>9, <1>10 DEF HeapOK
<1>12. QED  BY <1>3, <1>5, <1>8, <1>11 DEF m2, p
(* The chunks of a page, cut in order, are a list. *)
LEMMA ChunkList ==
  ASSUME NEW page \in Pages!Pages, NEW b \in Buckets, NEW nx,
         \A p \in ChunkSet(page, b) :
           nx[p] = IF p = Chunks(page, b)[1] THEN Null ELSE p - SlotSize(b)
  PROVE  /\ LastChunk(page, b) \in ChunkSet(page, b)
         /\ Exact(ChunkSet(page, b), LastChunk(page, b), nx)
<1> DEFINE n == PageSize \div SlotSize(b)
           c == Chunks(page, b)
           S == SlotSize(b)
           x == page * PageSize
<1>1. n \in Nat \ {0}
  BY ChunkFacts
<1>2. ASSUME NEW i \in 1..n
      PROVE  /\ (i - 1) * S \in Nat /\ i * S = (i - 1) * S + S
             /\ c[i] = x + (i - 1) * S + HeaderSize
  BY ChunkFacts
<1>3. S \in Nat \ {0} /\ x \in Nat /\ HeaderSize \in Nat
  <2>1. page \in Nat /\ PageSize \in Nat /\ HeaderSize \in Nat
    BY ConstantsOK
  <2>2. QED  BY <2>1, ConstantsOK
<1>4. DOMAIN c = 1..n
  BY DEF Chunks
<1>5. ChunkSet(page, b) = {c[i] : i \in 1..n}
  BY <1>4 DEF ChunkSet
<1>6. LastChunk(page, b) = c[n]
  <2>1. Len(c) = n
    <3> HIDE DEF n
    <3>1. c = [i \in 1..n |-> c[i]]
      BY <1>4 DEF Chunks, n
    <3> HIDE DEF c
    <3>2. Len([i \in 1..n |-> c[i]]) = n
      BY <1>1
    <3>3. QED  BY <3>1, <3>2
  <2>2. QED  BY <2>1 DEF LastChunk
<1> HIDE DEF n, S, x
<1>7. ASSUME NEW i \in 1..n, NEW j \in 1..n, i < j
      PROVE  c[i] # c[j]
  <2>1. i * S <= (j - 1) * S
    <3>1. i \in Nat /\ j - 1 \in Nat /\ i <= j - 1
      BY <1>1, <1>7
    <3>2. QED  BY <1>3, <3>1, Monotone
  <2> DEFINE u == (i - 1) * S
             v == (j - 1) * S
  <2>2. /\ u \in Nat /\ v \in Nat /\ u + S <= v
        /\ c[i] = x + u + HeaderSize /\ c[j] = x + v + HeaderSize
    BY <1>2, <2>1
  <2> HIDE DEF u, v, c
  <2>3. QED  BY <1>3, <2>2
<1>8. \A i, j \in 1..n : c[i] = c[j] => i = j
  <2>1. ASSUME NEW i \in 1..n, NEW j \in 1..n, c[i] = c[j]
        PROVE  i = j
    <3>1. ~(i < j) /\ ~(j < i)
      BY <1>7, <2>1
    <3>2. QED  BY <1>1, <3>1
  <2>2. QED  BY <2>1
<1>9. \A i \in 1..n : c[i] # Null
  BY <1>5, ChunkWithin
<1>10. nx[c[1]] = Null
  <2>1. 1 \in 1..n
    BY <1>1
  <2>2. c[1] \in ChunkSet(page, b)
    BY <1>5, <2>1
  <2>3. QED  BY <2>2
<1>11. ASSUME NEW i \in 2..n
       PROVE  nx[c[i]] = c[i - 1]
  <2>1. i \in 1..n /\ 1 \in 1..n /\ i # 1 /\ i - 1 \in 1..n
    BY <1>1
  <2>2. c[i] # c[1] /\ c[i] \in ChunkSet(page, b)
    BY <1>5, <1>8, <2>1
  <2>3. nx[c[i]] = c[i] - S
    BY <2>2 DEF S
  <2>4. c[i] - S = c[i - 1]
    <3> DEFINE u == (i - 1) * S
               v == (i - 1 - 1) * S
    <3>1. /\ u \in Nat /\ c[i] = x + u + HeaderSize
          /\ v \in Nat /\ u = v + S /\ c[i - 1] = x + v + HeaderSize
      BY <1>2, <2>1
    <3> HIDE DEF u, v, c
    <3>2. QED  BY <1>3, <3>1
  <2>5. QED  BY <2>3, <2>4
<1> HIDE DEF c
<1>12. Exact({c[i] : i \in 1..n}, c[n], nx)
  BY <1>1, <1>8, <1>9, <1>10, <1>11, ExactChain
<1>13. n \in 1..n
  BY <1>1
<1>14. QED  BY <1>5, <1>6, <1>12, <1>13

(* Memory m2 is memory m with a page cut into the free chunks of a bucket  *)
(* whose list was empty.                                                   *)
CutInto(m2, m, page, b) ==
  /\ m2 \in [Addresses -> Cell]
  /\ \A p \in ChunkSet(page, b) :
       /\ m2[p - HeaderSize] = FreeHeader
       /\ m2[p].val = IF p = Chunks(page, b)[1] THEN Null ELSE p - SlotSize(b)
  /\ \A a \in Addresses : a \div PageSize # page => m2[a] = m[a]

LEMMA PageCut ==
  ASSUME NEW R, NEW bo, NEW m, NEW l, NEW B, HeapOK(R, bo, m, l, B),
         NEW page \in Pages!Pages, NEW b \in Buckets, l[b] = Null,
         \A s \in R : page \notin Pages!PagesOf(s),
         NEW m2, CutInto(m2, m, page, b)
  PROVE  /\ bo[page] = 0
         /\ HeapOK(R \cup {[base |-> page, pages |-> 1]}, [bo EXCEPT ![page] = b],
                   m2, [l EXCEPT ![b] = LastChunk(page, b)], B)
<1> DEFINE r == [base |-> page, pages |-> 1]
           bo2 == [bo EXCEPT ![page] = b]
           l2 == [l EXCEPT ![b] = LastChunk(page, b)]
           R2 == R \cup {r}
<1>0. /\ m2 \in [Addresses -> Cell]
      /\ \A p \in ChunkSet(page, b) :
           /\ m2[p - HeaderSize] = FreeHeader
           /\ m2[p].val = IF p = Chunks(page, b)[1] THEN Null ELSE p - SlotSize(b)
      /\ \A a \in Addresses : a \div PageSize # page => m2[a] = m[a]
  BY DEF CutInto
<1>1. /\ RunsApart(R, bo) /\ m \in [Addresses -> Cell]
      /\ l \in [Buckets -> Addresses]
      /\ HeadersTrue(R, bo, m, B) /\ ListsExact(bo, m, l, B)
      /\ bo \in [Pages!Pages -> Buckets \cup {0}]
  BY DEF HeapOK, RunsApart
<1>2. Fresh(r, R) /\ Pages!PagesOf(r) = {page}
  <2>1. page \in Nat /\ 1 \in 1..HeapPages
    BY ConstantsOK
  <2>2. page..page + 1 - 1 = {page}
    BY <2>1
  <2>3. QED  BY <2>1, <2>2 DEF Fresh, Pages!Run, Pages!PagesOf
<1> HIDE DEF r
<1>3. /\ bo[r.base] = 0 /\ r \notin R
      /\ \A s \in R : s.base # r.base
      /\ RunsApart(R2, bo)
      /\ PlacesOutside(R, bo, r)
  <2>1. RunsApart(R, bo)
    BY <1>1
  <2> HIDE DEF bo2, l2
  <2>2. QED  BY <1>2, <2>1, FreshRun
<1>4. r.base = page /\ r = [base |-> page, pages |-> 1]
  BY DEF r
<1>5. b \in Nat \ {0}
  BY ConstantsOK
<1>6. RunsApart(R2, bo2)
  <2>1. bo2 \in [Pages!Pages -> Buckets \cup {0}]
    BY <1>1
  <2>2. \A x \in Pages!Pages : bo2[x] # 0 => [base |-> x, pages |-> 1] \in R2
    BY <1>1, <1>4 DEF RunsApart
  <2> HIDE DEF bo2
  <2>3. QED  BY <1>3, <2>1, <2>2 DEF RunsApart
<1>7. RawIn(R2, bo2) = RawIn(R, bo)
  <2>1. ASSUME NEW s \in R
        PROVE  bo2[s.base] = bo[s.base]
    <3>1. s.base \in Pages!Pages /\ s.base # page
      BY <1>1, <1>3, <1>4, RunFacts
    <3>2. QED  BY <1>1, <3>1
  <2>2. bo2[r.base] # 0
    BY <1>1, <1>4, <1>5
  <2> HIDE DEF bo2
  <2>3. QED  BY <2>1, <2>2 DEF RawIn
<1>8. /\ ChunksIn(bo2, b) = ChunksIn(bo, b) \cup ChunkSet(page, b)
      /\ \A c \in Buckets \ {b} : ChunksIn(bo2, c) = ChunksIn(bo, c)
  <2>1. bo[page] = 0
    BY <1>3, <1>4
  <2>2. bo2[page] = b /\ \A x \in Pages!Pages : x # page => bo2[x] = bo[x]
    BY <1>1
  <2> HIDE DEF bo2
  <2>3. {x \in Pages!Pages : bo2[x] = b} = {x \in Pages!Pages : bo[x] = b} \cup {page}
    BY <2>2
  <2>4. \A c \in Buckets \ {b} :
          {x \in Pages!Pages : bo2[x] = c} = {x \in Pages!Pages : bo[x] = c}
    <3>1. ASSUME NEW c \in Buckets \ {b}, NEW x \in Pages!Pages
          PROVE  bo2[x] = c <=> bo[x] = c
      <4>1. c # 0
        BY ConstantsOK
      <4>2. QED  BY <2>1, <2>2, <4>1
    <3>2. QED  BY <3>1
  <2>5. QED  BY <2>3, <2>4 DEF ChunksIn
<1>9. ASSUME NEW q, NEW k, Place(R, bo, q, k)
      PROVE  /\ m2[q - HeaderSize] = m[q - HeaderSize]
             /\ q \notin ChunkSet(page, b)
  <2>1. q - HeaderSize \in q - HeaderSize..q + k - 1
    BY <1>1, <1>9, CellsApart
  <2>2. q - HeaderSize \in Addresses /\ (q - HeaderSize) \div PageSize # page
    BY <1>2, <1>3, <1>9, <2>1 DEF PlacesOutside
  <2>3. ASSUME q \in ChunkSet(page, b) PROVE FALSE
    <3>1. /\ q - HeaderSize \in Nat
          /\ page * PageSize <= q - HeaderSize
          /\ q + BucketSizes[b] <= page * PageSize + PageSize
          /\ q \in Nat /\ BucketSizes[b] \in Nat \ {0}
      BY <2>3, ChunkWithin
    <3> DEFINE x == page * PageSize
    <3>2. x \in Nat /\ page \in Nat
      BY ConstantsOK, Numbers
    <3>3. x <= q - HeaderSize /\ q + BucketSizes[b] <= x + PageSize
      BY <3>1
    <3> HIDE DEF x
    <3>4. q - HeaderSize < x + PageSize
      BY <3>1, <3>2, <3>3, Numbers
    <3>5. (q - HeaderSize) \div PageSize = page
      BY <3>1, <3>2, <3>3, <3>4, Numbers, Quotient DEF x
    <3>6. QED  BY <2>2, <3>5
  <2>4. QED  BY <1>0, <2>2, <2>3
<1> HIDE DEF bo2
<1>10. HeadersTrue(R2, bo2, m2, B)
  <2>1. ASSUME NEW c \in Buckets, NEW q \in ChunksIn(bo2, c)
        PROVE  m2[q - HeaderSize] = IF q \in B THEN UsedHeader(c) ELSE FreeHeader
    <3>1. CASE q \in ChunksIn(bo, c)
      <4>1. m2[q - HeaderSize] = m[q - HeaderSize]
        BY <1>1, <1>9, <3>1, ChunkPlace
      <4>2. QED  BY <1>1, <3>1, <4>1 DEF HeadersTrue
    <3>2. CASE c = b /\ q \in ChunkSet(page, b)
      <4>1. q \notin B
        BY <1>9, <3>2, BlockPlace
      <4>2. QED  BY <1>0, <3>2, <4>1
    <3>3. QED  BY <1>8, <3>1, <3>2
  <2>2. ASSUME NEW s \in RawIn(R, bo)
        PROVE  /\ RawPointer(s) \in B
               /\ HeaderSize < s.pages * PageSize
               /\ m2[s.base * PageSize] = RawHeader(s.pages * PageSize)
    <3>1. m2[s.base * PageSize] = m[s.base * PageSize]
      BY <1>1, <1>9, RawPlace
    <3>2. QED  BY <1>1, <3>1 DEF HeadersTrue
  <2>3. ASSUME NEW q \in B
        PROVE  \/ \E c \in Buckets : q \in ChunksIn(bo2, c)
               \/ \E s \in RawIn(R, bo) : q = RawPointer(s)
    BY <1>1, <1>8 DEF HeadersTrue
  <2>4. QED  BY <1>7, <2>1, <2>2, <2>3 DEF HeadersTrue
<1>11. FreeIn(bo2, B, b) = ChunkSet(page, b)
  <2>1. FreeIn(bo, B, b) = {}
    BY <1>1, ExactEmpty DEF ListsExact
  <2>2. \A q \in B : q \notin ChunkSet(page, b)
    BY <1>9, BlockPlace
  <2>3. QED  BY <1>8, <2>1, <2>2 DEF FreeIn
<1>12. /\ LastChunk(page, b) \in ChunkSet(page, b)
       /\ Exact(ChunkSet(page, b), LastChunk(page, b), Links(bo2, m2, B, b))
  <2>1. ASSUME NEW p \in ChunkSet(page, b)
        PROVE  Links(bo2, m2, B, b)[p]
                 = IF p = Chunks(page, b)[1] THEN Null ELSE p - SlotSize(b)
    <3>1. Links(bo2, m2, B, b)[p] = m2[p].val
      BY <1>11 DEF Links
    <3>2. QED  BY <1>0, <3>1
  <2>2. QED  BY <2>1, ChunkList
<1>13. l2 \in [Buckets -> Addresses]
  <2>1. LastChunk(page, b) \in ChunksIn(bo2, b)
    BY <1>8, <1>12
  <2>2. LastChunk(page, b) \in Addresses
    BY <1>6, <2>1, ChunkPlace
  <2>3. QED  BY <1>1, <2>2
<1>14. ListsExact(bo2, m2, l2, B)
  <2>1. ASSUME NEW c \in Buckets
        PROVE  Exact(FreeIn(bo2, B, c), l2[c], Links(bo2, m2, B, c))
    <3>1. CASE c = b
      <4>1. l2[b] = LastChunk(page, b)
        BY <1>1
      <4>2. QED  BY <1>11, <1>12, <3>1, <4>1
    <3>2. CASE c # b
      <4>1. Exact(FreeIn(bo, B, c), l[c], Links(bo, m, B, c))
        BY <1>1 DEF ListsExact
      <4>2. FreeIn(bo2, B, c) = FreeIn(bo, B, c)
        BY <1>8, <3>2 DEF FreeIn
      <4>3. ASSUME NEW q \in FreeIn(bo, B, c)
            PROVE  Links(bo2, m2, B, c)[q] = Links(bo, m, B, c)[q]
        <5>1. q \in ChunksIn(bo, c)
          BY DEF FreeIn
        <5>2. /\ Place(R, bo, q, BucketSizes[c])
              /\ q \in q..q + BucketSizes[c] - 1
          BY <1>1, <5>1, ChunkPlace
        <5>3. q \in q - HeaderSize..q + BucketSizes[c] - 1
          BY <1>1, <5>2, CellsApart
        <5>4. q \in Addresses /\ q \div PageSize # page
          BY <1>2, <1>3, <5>2, <5>3 DEF PlacesOutside
        <5>5. m2[q] = m[q]
          BY <1>0, <5>4
        <5>6. QED  BY <4>2, <5>5 DEF Links
      <4>4. Exact(FreeIn(bo, B, c), l[c], Links(bo2, m2, B, c))
        BY <4>1, <4>3, ExactSame
      <4>5. l2[c] = l[c]
        BY <1>1, <3>2
      <4>6. QED  BY <4>2, <4>4, <4>5
    <3>3. QED  BY <3>1, <3>2
  <2>2. QED  BY <2>1 DEF ListsExact
<1>15. HeapOK(R2, bo2, m2, l2, B)
  BY <1>0, <1>6, <1>10, <1>13, <1>14 DEF HeapOK
<1>16. QED  BY <1>3, <1>4, <1>15 DEF bo2, r
-----------------------------------------------------------------------------
(* What a step does to a state. *)

LEMMA InvImpliesTypeOK == Inv => TypeOK
<1> SUFFICES ASSUME Inv PROVE TypeOK
  OBVIOUS
<1> USE DEF Inv
<1>1. RunsApart(runs, bucketOf) /\ HeadersTrue(runs, bucketOf, mem, Blocks)
  BY DEF HeapOK
<1>2. ASSUME NEW p \in DOMAIN live
      PROVE  p \in Returnable
  <2>1. p \in Blocks
    BY DEF Blocks
  <2>2. CASE \E b \in Buckets : p \in ChunksIn(bucketOf, b)
    <3>1. PICK b \in Buckets : p \in ChunksOf(b)
      BY <2>2 DEF ChunksIn, ChunksOf
    <3>2. QED  BY <3>1 DEF Returnable
  <2>3. CASE \E r \in RawIn(runs, bucketOf) : p = RawPointer(r)
    <3>1. PICK r \in runs : p = r.base * PageSize + HeaderSize
      BY <2>3 DEF RawIn, RawPointer
    <3>2. r.base \in starts
      BY DEF StartsOutside
    <3>3. QED  BY <3>1, <3>2 DEF Returnable
  <2>4. QED  BY <1>1, <2>1, <2>2, <2>3 DEF HeadersTrue
<1>3. TypeOK
  <2>1. runs \subseteq Pages!Run /\ bucketOf \in [Pages!Pages -> Buckets \cup {0}]
    BY <1>1 DEF RunsApart
  <2>2. mem \in [Addresses -> Cell] /\ list \in [Buckets -> Addresses]
    BY DEF HeapOK
  <2>3. \A p \in DOMAIN live : live[p] \in Sizes
    BY DEF LargeEnough
  <2>4. QED  BY <1>2, <2>1, <2>2, <2>3 DEF TypeOK, Ranges
<1>4. QED  BY <1>3

LEMMA InvRanges ==
  ASSUME Inv
  PROVE  /\ Ranges
         /\ call.op \in {"none", "kmalloc", "kzalloc", "krealloc"}
         /\ call.from \in Addresses /\ call.size \in Sizes \cup {0}
         /\ call.to \in Addresses
         /\ runs \subseteq Pages!Run /\ bucketOf \in [Pages!Pages -> Buckets \cup {0}]
         /\ mem \in [Addresses -> Cell] /\ list \in [Buckets -> Addresses]
         /\ RunsApart(runs, bucketOf)
<1>1. call \in [op : {"none", "kmalloc", "kzalloc", "krealloc"},
                from : Addresses, size : Sizes \cup {0}, to : Addresses]
  BY DEF Inv, Ranges
<1>2. /\ call.op \in {"none", "kmalloc", "kzalloc", "krealloc"}
      /\ call.from \in Addresses /\ call.size \in Sizes \cup {0}
      /\ call.to \in Addresses
  BY <1>1
<1>3. QED  BY <1>1, <1>2 DEF Inv, HeapOK, RunsApart

(* The null pointer is no block; a block that is asked to hold something   *)
(* is an address.                                                          *)
LEMMA BlockFacts ==
  ASSUME NEW R, NEW bo, NEW m, NEW l, NEW B, HeapOK(R, bo, m, l, B), NEW p \in B
  PROVE  /\ p # Null
         /\ CapacityIn(m, p) \in Int
         /\ \A n \in Nat \ {0} : n <= CapacityIn(m, p) =>
              p \in Addresses /\ p..p + n - 1 \subseteq Addresses
<1> DEFINE k == CapacityIn(m, p)
<1>1. Place(R, bo, p, k) /\ RunsApart(R, bo)
  BY BlockPlace DEF HeapOK
<1> HIDE DEF k
<1>2. /\ p # Null /\ k \in Int /\ p \in Nat
      /\ \A a \in p..p + k - 1 : a \in Addresses
  BY <1>1, PlaceBounds
<1>3. ASSUME NEW n \in Nat \ {0}, n <= k
      PROVE  p \in Addresses /\ p..p + n - 1 \subseteq Addresses
  <2>1. p \in p..p + k - 1 /\ p..p + n - 1 \subseteq p..p + k - 1
    BY <1>2, <1>3
  <2>2. QED  BY <1>2, <2>1
<1>4. QED  BY <1>2, <1>3 DEF k

(* A block keeps its capacity as long as it has its place. *)
LEMMA SameCapacity ==
  ASSUME NEW R, NEW bo, NEW m, NEW l, NEW B, HeapOK(R, bo, m, l, B),
         NEW R2, NEW bo2, NEW m2, NEW l2, NEW B2, HeapOK(R2, bo2, m2, l2, B2),
         NEW p \in B, p \in B2, Place(R2, bo2, p, CapacityIn(m, p))
  PROVE  CapacityIn(m2, p) = CapacityIn(m, p)
<1>1. RunsApart(R2, bo2) /\ Place(R2, bo2, p, CapacityIn(m2, p))
  BY BlockPlace DEF HeapOK
<1>2. QED  BY <1>1, PlacesApart

LEMMA InitInv == SizesFit /\ Init => Inv
<1> SUFFICES ASSUME SizesFit, Init PROVE Inv
  OBVIOUS
<1>1. Blocks = {} /\ call.to = Null /\ DOMAIN live = {}
  BY DEF Init, Blocks, Idle
<1>2. \A b \in Buckets : ChunksIn(bucketOf, b) = {}
  <2>1. ASSUME NEW b \in Buckets, NEW q \in Pages!Pages
        PROVE  bucketOf[q] # b
    <3>1. bucketOf[q] = 0
      BY ConstantsOK DEF Init
    <3>2. QED  BY <3>1, ConstantsOK
  <2>2. QED  BY <2>1 DEF ChunksIn
<1>3. RunsApart(runs, bucketOf)
  <2>1. bucketOf = [p \in Pages!Pages |-> 0]
    BY ConstantsOK DEF Init
  <2>2. QED  BY <2>1 DEF Init, RunsApart
<1>4. mem \in [Addresses -> Cell] /\ list \in [Buckets -> Addresses]
  BY HeadersInCell DEF Init
<1>5. HeadersTrue(runs, bucketOf, mem, Blocks)
  BY <1>1, <1>2 DEF HeadersTrue, RawIn, Init
<1>6. ListsExact(bucketOf, mem, list, Blocks)
  <2>1. ASSUME NEW b \in Buckets
        PROVE  Exact(FreeIn(bucketOf, Blocks, b), list[b],
                     Links(bucketOf, mem, Blocks, b))
    <3>1. FreeIn(bucketOf, Blocks, b) = {} /\ list[b] = Null
      BY <1>2 DEF FreeIn, Init
    <3>2. QED  BY <3>1 DEF Exact, ClosedIn
  <2>2. QED  BY <2>1 DEF ListsExact
<1>7. HeapOK(runs, bucketOf, mem, list, Blocks)
  BY <1>3, <1>4, <1>5, <1>6 DEF HeapOK
<1>8. StartsOutside /\ LargeEnough /\ CallOK /\ StopsIffMisused
  BY <1>1 DEF StartsOutside, LargeEnough, CallOK, StopsIffMisused, Init, Idle, Null
<1>9. Ranges
  BY HeadersInCell DEF Ranges, Init, Idle
<1>10. QED  BY <1>7, <1>8, <1>9 DEF Inv
(* Steps that leave pages, memory and lists alone. *)
LEMMA HeapKept ==
  ASSUME Inv, UNCHANGED <<runs, bucketOf, mem, list>>, Blocks' = Blocks
  PROVE  HeapOK(runs', bucketOf', mem', list', Blocks')
  BY DEF Inv

LEMMA IdleBlocks ==
  ASSUME Inv
  PROVE  /\ Null \notin Blocks
         /\ call = Idle => Blocks = DOMAIN live
         /\ call.to = Null => Blocks = DOMAIN live
         /\ call.to # Null => Blocks = DOMAIN live \cup {call.to}
<1>1. Null \notin Blocks
  BY BlockFacts DEF Inv
<1>2. QED  BY <1>1 DEF Blocks, Idle

LEMMA KmallocKeepsInv ==
  ASSUME Inv, NEW op \in {"kmalloc", "kzalloc"}, NEW size \in Sizes,
         kmalloc(op, size)
  PROVE  Inv'
<1>1. /\ call = Idle /\ size # 0 /\ panicked = "no"
      /\ call' = [op |-> op, from |-> Null, size |-> size, to |-> Null]
      /\ UNCHANGED <<runs, starts, mem, list, live, bucketOf, misused, panicked>>
  BY DEF kmalloc, Calls, Begins, pages
<1>2. call'.to = Null /\ call.to = Null /\ call'.from = Null /\ call'.op = op
      /\ call'.size = size
  BY <1>1 DEF Idle
<1>3. Blocks' = Blocks
  BY <1>1, <1>2 DEF Blocks
<1>4. HeapOK(runs, bucketOf, mem, list, Blocks)'
  BY <1>1, <1>3, HeapKept
<1>5. Ranges'
  BY <1>1, InvRanges, HeadersInCell DEF Ranges
<1>6. StartsOutside'
  BY <1>1 DEF Inv, StartsOutside
<1>7. LargeEnough'
  BY <1>1, <1>2 DEF Inv, LargeEnough
<1>8. CallOK'
  <2>1. Null \notin DOMAIN live
    BY IdleBlocks DEF Blocks
  <2>2. op # "none" /\ op # "krealloc"
    OBVIOUS
  <2>3. QED  BY <1>1, <1>2, <2>1, <2>2 DEF CallOK
<1>9. StopsIffMisused' /\ SizesFit'
  BY <1>1 DEF Inv, StopsIffMisused, SizesFit
<1>10. QED  BY <1>4, <1>5, <1>6, <1>7, <1>8, <1>9 DEF Inv

(* The kernel stops for want of pages. *)
LEMMA NoPagesKeepsInv ==
  ASSUME Inv, panicked = "no", panicked' = "no_pages",
         UNCHANGED <<runs, starts, mem, list, call, live, bucketOf, misused>>
  PROVE  Inv'
<1>1. Blocks' = Blocks
  BY DEF Blocks
<1>2. HeapOK(runs, bucketOf, mem, list, Blocks)'
  BY <1>1, HeapKept
<1>3. Ranges'
  BY InvRanges DEF Ranges
<1>4. StartsOutside' /\ LargeEnough' /\ CallOK'
  BY DEF Inv, StartsOutside, LargeEnough, CallOK
<1>5. StopsIffMisused' /\ SizesFit'
  BY DEF Inv, StopsIffMisused, SizesFit
<1>6. QED  BY <1>2, <1>3, <1>4, <1>5 DEF Inv

(* The bucket that is searched for a block is the first that is large      *)
(* enough.                                                                 *)
LEMMA BucketFits ==
  ASSUME NEW size \in Nat, Fitting(size) # {}
  PROVE  find_bucket(size) \in Buckets /\ size <= BucketSizes[find_bucket(size)]
<1>1. Fitting(size) \in SUBSET Nat
  BY ConstantsOK DEF Fitting
<1>2. PICK x \in Fitting(size) : \A y \in Fitting(size) : x <= y
  BY <1>1, Least
<1>3. Min(Fitting(size)) \in Fitting(size)
  BY <1>2 DEF Min
<1>4. QED  BY <1>3 DEF find_bucket, Fitting

LEMMA AllocatingFacts ==
  ASSUME Inv, Allocating
  PROVE  /\ panicked = "no" /\ call.to = Null /\ call.op # "none"
         /\ call.size \in Sizes \ {0} /\ call.size \in Nat \ {0}
         /\ Fitting(call.size) # {} =>
              Bucket \in Buckets /\ call.size <= BucketSizes[Bucket]
<1>1. /\ panicked = "no" /\ call.to = Null /\ call.op # "none"
  BY DEF Allocating, Inv, CallOK
<1>2. call.size \in Sizes \ {0} /\ call.size \in Nat \ {0}
  BY <1>1, InvRanges, SlabAssumption DEF Inv, CallOK
<1>3. QED  BY <1>1, <1>2, BucketFits DEF Bucket

(* The cells of a page's chunks, in the page; a chunk after the first is   *)
(* linked to another.                                                      *)
LEMMA ChunkCells ==
  ASSUME NEW page \in Pages!Pages, NEW b \in Buckets, NEW p \in ChunkSet(page, b)
  PROVE  /\ p - HeaderSize \in Addresses /\ p \in Addresses
         /\ (p - HeaderSize) \div PageSize = page /\ p \div PageSize = page
         /\ \A q \in ChunkSet(page, b) : p - HeaderSize # q
         /\ p # Chunks(page, b)[1] => p - SlotSize(b) \in ChunkSet(page, b)
<1>1. /\ p - HeaderSize \in Nat /\ p \in Nat
      /\ page * PageSize <= p - HeaderSize
      /\ p + BucketSizes[b] <= page * PageSize + PageSize
      /\ BucketSizes[b] \in Nat \ {0}
  BY ChunkWithin
<1> DEFINE x == page * PageSize
           top == HeapPages * PageSize
<1>2. page \in Nat /\ x \in Nat /\ top \in Nat /\ x + PageSize <= top
  <2>1. page \in Nat /\ page + 1 \in Nat /\ page + 1 <= HeapPages
    BY ConstantsOK
  <2>2. /\ (page + 1) * PageSize <= HeapPages * PageSize
        /\ (page + 1) * PageSize \in Nat /\ HeapPages * PageSize \in Nat
    BY <2>1, Numbers, Monotone
  <2>3. (page + 1) * PageSize = page * PageSize + PageSize /\ page * PageSize \in Nat
    BY <2>1, Numbers
  <2>4. QED  BY <2>1, <2>2, <2>3
<1>3. /\ x <= p - HeaderSize /\ p + BucketSizes[b] <= x + PageSize
      /\ Addresses = 0..top - 1
  BY <1>1 DEF Addresses
<1> HIDE DEF x, top
<1>4. /\ p - HeaderSize < x + PageSize /\ p < x + PageSize /\ x <= p
      /\ p - HeaderSize \in Addresses /\ p \in Addresses
  BY <1>1, <1>2, <1>3, Numbers
<1>5. (p - HeaderSize) \div PageSize = page /\ p \div PageSize = page
  BY <1>1, <1>2, <1>3, <1>4, Numbers, Quotient DEF x
<1>6. ASSUME NEW q \in ChunkSet(page, b)
      PROVE  p - HeaderSize # q
  <2>1. q \in Nat
    BY ChunkWithin
  <2>2. p # q => p + BucketSizes[b] <= q - HeaderSize \/ q + BucketSizes[b] <= p - HeaderSize
    BY ChunksApart
  <2>3. QED  BY <1>1, <2>1, <2>2, Numbers
<1>7. ASSUME p # Chunks(page, b)[1]
      PROVE  p - SlotSize(b) \in ChunkSet(page, b)
  <2>1. PICK i \in 1..PageSize \div SlotSize(b) : p = Chunks(page, b)[i]
    BY DEF ChunkSet, Chunks
  <2>2. PageSize \div SlotSize(b) \in Nat
    BY ChunkFacts
  <2>3. i - 1 \in 1..PageSize \div SlotSize(b) /\ i - 1 \in Nat
    BY <1>7, <2>1, <2>2
  <2> DEFINE S == SlotSize(b)
             u == (i - 1) * S
             v == (i - 1 - 1) * S
  <2>4. /\ u \in Nat /\ p = x + u + HeaderSize
        /\ v \in Nat /\ u = v + S /\ Chunks(page, b)[i - 1] = x + v + HeaderSize
    BY <2>1, <2>3, ChunkFacts DEF x
  <2>5. S \in Nat
    BY ConstantsOK
  <2>6. Chunks(page, b)[i - 1] \in ChunkSet(page, b)
    BY <2>3 DEF ChunkSet, Chunks
  <2> HIDE DEF S, u, v
  <2>7. p - S = Chunks(page, b)[i - 1]
    BY <1>2, <2>4, <2>5, Numbers
  <2>8. QED  BY <2>6, <2>7 DEF S
<1>8. QED  BY <1>4, <1>5, <1>6, <1>7

LEMMA ThreadedFacts ==
  ASSUME mem \in [Addresses -> Cell],
         NEW page \in Pages!Pages, NEW b \in Buckets, list[b] = Null
  PROVE  CutInto(Threaded(page, b), mem, page, b)
<1> DEFINE C == ChunkSet(page, b)
           H == {p - HeaderSize : p \in C}
           link(p) == IF p = Chunks(page, b)[1] THEN Null ELSE p - SlotSize(b)
           headers == [a \in H |-> FreeHeader]
           links == [p \in C |-> Data(link(p))]
           m1 == Written(mem, headers)
<1>1. Threaded(page, b) = Written(m1, links)
  BY DEF Threaded
<1>2. \A p \in C : /\ p - HeaderSize \in Addresses /\ p \in Addresses
                   /\ (p - HeaderSize) \div PageSize = page
                   /\ p \div PageSize = page
                   /\ p - HeaderSize \notin C
                   /\ link(p) \in Addresses
  BY ChunkCells, HeadersInCell
<1>3. \A p \in C : Data(link(p)) \in Cell
  BY <1>2, HeadersInCell
<1> HIDE DEF C, link
<1>4. m1 = [a \in Addresses |-> IF a \in H THEN FreeHeader ELSE mem[a]]
  BY DEF Written
<1>5. Written(m1, links)
        = [a \in Addresses |-> IF a \in C THEN Data(link(a)) ELSE m1[a]]
  BY <1>4 DEF Written
<1> HIDE DEF m1, links
<1>6. /\ Threaded(page, b) \in [Addresses -> Cell]
      /\ \A a \in Addresses : a \in C => Threaded(page, b)[a] = Data(link(a))
      /\ \A a \in Addresses : a \notin C /\ a \in H => Threaded(page, b)[a] = FreeHeader
      /\ \A a \in Addresses : a \notin C /\ a \notin H => Threaded(page, b)[a] = mem[a]
  BY <1>1, <1>3, <1>4, <1>5, HeadersInCell
<1>7. \A p \in C : Threaded(page, b)[p - HeaderSize] = FreeHeader
  BY <1>2, <1>6
<1>8. \A p \in C : Threaded(page, b)[p].val = link(p)
  BY <1>2, <1>6 DEF Data
<1>9. \A a \in Addresses :
        a \div PageSize # page => Threaded(page, b)[a] = mem[a]
  BY <1>2, <1>6
<1>10. QED  BY <1>6, <1>7, <1>8, <1>9 DEF C, link, CutInto
(* Places do not go away when runs are added, or when another is freed. *)
LEMMA PlaceKept ==
  ASSUME NEW R, NEW bo, NEW R2, NEW bo2, NEW p, NEW n, Place(R, bo, p, n),
         RawIn(R, bo) \subseteq RawIn(R2, bo2),
         \A b \in Buckets : ChunksIn(bo, b) \subseteq ChunksIn(bo2, b)
  PROVE  Place(R2, bo2, p, n)
  BY DEF Place

LEMMA GrowKeepsInv ==
  ASSUME Inv, bucket_grow
  PROVE  Inv'
<1> DEFINE b == Bucket
<1>1. /\ Allocating /\ Fitting(call.size) # {} /\ list[b] = Null
      /\ UNCHANGED <<call, live, misused>>
  BY DEF bucket_grow
<1>2. /\ panicked = "no" /\ b \in Buckets
  BY <1>1, AllocatingFacts
<1>3. CASE Stops("no_pages", mem) /\ UNCHANGED bucketOf
  BY <1>1, <1>2, <1>3, NoPagesKeepsInv DEF Stops, pages
<1>4. ASSUME NEW page \in Pages!Pages,
             Pages!Alloc([base |-> page, pages |-> 1]),
             mem' = Threaded(page, b),
             list' = [list EXCEPT ![b] = LastChunk(page, b)],
             bucketOf' = [bucketOf EXCEPT ![page] = b],
             UNCHANGED panicked
      PROVE  Inv'
  <2> DEFINE r == [base |-> page, pages |-> 1]
  <2> HIDE DEF b
  <2>1. /\ runs' = runs \cup {r} /\ starts' = starts \cup {page}
        /\ \A s \in runs : Pages!PagesOf(r) \cap Pages!PagesOf(s) = {}
        /\ Pages!Inside(r) \cap starts = {}
    BY <1>4 DEF Pages!Alloc, Pages!PagesOfAll
  <2>2. /\ page \in Pages!PagesOf(r) /\ Pages!Inside(r) = {} /\ r.base = page
    <3>1. page \in Nat
      BY ConstantsOK
    <3>2. Pages!PagesOf(r) = {page}
      BY <3>1 DEF Pages!PagesOf
    <3>3. QED  BY <3>2 DEF Pages!Inside
  <2>3. /\ RunsApart(runs, bucketOf) /\ mem \in [Addresses -> Cell]
        /\ bucketOf \in [Pages!Pages -> Buckets \cup {0}]
        /\ HeapOK(runs, bucketOf, mem, list, Blocks)
    BY InvRanges DEF Inv
  <2>4. CutInto(mem', mem, page, b)
    BY <1>1, <1>2, <1>4, <2>3, ThreadedFacts
  <2>5. \A s \in runs : page \notin Pages!PagesOf(s)
    BY <2>1, <2>2
  <2>6. /\ bucketOf[page] = 0
        /\ HeapOK(runs', bucketOf', mem', list', Blocks)
    <3>1. list[b] = Null
      BY <1>1 DEF b
    <3>2. /\ bucketOf[page] = 0
          /\ HeapOK(runs \cup {[base |-> page, pages |-> 1]},
                    [bucketOf EXCEPT ![page] = b], mem',
                    [list EXCEPT ![b] = LastChunk(page, b)], Blocks)
      BY <1>2, <2>3, <2>4, <2>5, <3>1, PageCut
    <3>3. QED  BY <1>4, <2>1, <3>2
  <2>7. Blocks' = Blocks
    BY <1>1 DEF Blocks
  <2>8. \A p \in Blocks : CapacityIn(mem', p) = CapacityIn(mem, p)
    <3>1. ASSUME NEW p \in Blocks
          PROVE  CapacityIn(mem', p) = CapacityIn(mem, p)
      <4>1. Place(runs, bucketOf, p, CapacityIn(mem, p))
        BY <2>3, BlockPlace
      <4>2. RawIn(runs, bucketOf) \subseteq RawIn(runs', bucketOf')
        <5>1. ASSUME NEW s \in runs
              PROVE  bucketOf'[s.base] = bucketOf[s.base]
          <6>1. s.base \in Pages!Pages /\ s.base \in Pages!PagesOf(s)
            BY <2>3, RunFacts
          <6>2. s.base # page
            BY <2>5, <6>1
          <6>3. QED  BY <1>4, <2>3, <6>1, <6>2
        <5>2. QED  BY <2>1, <5>1 DEF RawIn
      <4>3. \A c \in Buckets : ChunksIn(bucketOf, c) \subseteq ChunksIn(bucketOf', c)
        <5>1. ASSUME NEW c \in Buckets, NEW x \in Pages!Pages, bucketOf[x] = c
              PROVE  bucketOf'[x] = c
          <6>1. c # 0
            BY ConstantsOK
          <6>2. x # page
            BY <2>6, <5>1, <6>1
          <6>3. QED  BY <1>4, <2>3, <5>1, <6>2
        <5>2. QED  BY <5>1 DEF ChunksIn
      <4>4. Place(runs', bucketOf', p, CapacityIn(mem, p))
        BY <4>1, <4>2, <4>3, PlaceKept
      <4>5. QED  BY <2>3, <2>6, <4>4, SameCapacity
    <3>2. QED  BY <3>1
  <2>9. Ranges'
    BY <1>1, <1>4, <2>1, InvRanges DEF Ranges
  <2>10. StartsOutside'
    <3>1. ASSUME NEW s \in runs
          PROVE  s.base \in starts' /\ Pages!Inside(s) \cap starts' = {}
      BY <2>1, <2>5 DEF Inv, StartsOutside, Pages!Inside
    <3>2. r.base \in starts' /\ Pages!Inside(r) \cap starts' = {}
      BY <2>1, <2>2
    <3>3. QED  BY <2>1, <3>1, <3>2 DEF StartsOutside
  <2>11. LargeEnough' /\ CallOK'
    <3>1. DOMAIN live \subseteq Blocks /\ (call.to # Null => call.to \in Blocks)
      BY DEF Blocks
    <3>2. LargeEnough'
      BY <1>1, <2>8, <3>1 DEF Inv, LargeEnough
    <3>3. CallOK'
      BY <1>1, <2>8, <3>1 DEF Inv, CallOK
    <3>4. QED  BY <3>2, <3>3
  <2>12. StopsIffMisused' /\ SizesFit'
    BY <1>1, <1>4 DEF Inv, StopsIffMisused, SizesFit
  <2>13. QED  BY <2>6, <2>7, <2>9, <2>10, <2>11, <2>12 DEF Inv
<1>5. QED
  BY <1>3, <1>4 DEF bucket_grow

LEMMA ChunkKeepsInv ==
  ASSUME Inv, kmalloc_chunk
  PROVE  Inv'
<1> DEFINE b == Bucket
           p == list[b]
<1>1. /\ Allocating /\ Fitting(call.size) # {} /\ p # Null
      /\ UNCHANGED <<live, bucketOf, misused>>
  BY DEF kmalloc_chunk
<1>2. /\ panicked = "no" /\ b \in Buckets /\ call.to = Null
      /\ call.size <= BucketSizes[b] /\ call.op # "none"
  BY <1>1, AllocatingFacts
<1>3. HeapOK(runs, bucketOf, mem, list, Blocks)
  BY DEF Inv
<1> HIDE DEF b
<1>4. /\ p \in FreeIn(bucketOf, Blocks, b)
      /\ mem[p - HeaderSize] = FreeHeader
      /\ HeapOK(runs, bucketOf, [mem EXCEPT ![p - HeaderSize] = UsedHeader(b)],
                [list EXCEPT ![b] = mem[p].val], Blocks \cup {p})
  BY <1>1, <1>2, <1>3, ChunkTaken
<1>5. Header(p).kind = "free"
  BY <1>4 DEF Header, FreeHeader
<1>6. /\ list' = [list EXCEPT ![b] = mem[p].val]
      /\ mem' = [mem EXCEPT ![p - HeaderSize] = UsedHeader(b)]
      /\ call' = [call EXCEPT !.to = p]
      /\ UNCHANGED <<runs, starts, panicked>>
  BY <1>5 DEF kmalloc_chunk, pages, b
<1> HIDE DEF p
<1>7. /\ call'.to = p /\ call'.op = call.op /\ call'.from = call.from
      /\ call'.size = call.size
      /\ call' \in [op : {"none", "kmalloc", "kzalloc", "krealloc"},
               from : Addresses, size : Sizes \cup {0}, to : Addresses]
  <2>1. call \in [op : {"none", "kmalloc", "kzalloc", "krealloc"},
               from : Addresses, size : Sizes \cup {0}, to : Addresses]
    BY InvRanges DEF Ranges
  <2>2. p \in Addresses
    BY <1>2, <1>3 DEF HeapOK, p
  <2>3. QED  BY <1>6, <2>1, <2>2
<1>8. Blocks' = Blocks \cup {p}
  BY <1>1, <1>2, <1>7 DEF Blocks
<1>9. HeapOK(runs', bucketOf', mem', list', Blocks')
  BY <1>1, <1>4, <1>6, <1>8
<1>10. /\ RunsApart(runs, bucketOf) /\ p \in ChunksIn(bucketOf, b)
       /\ p \notin Blocks
  BY <1>3, <1>4 DEF HeapOK, FreeIn
<1>11. \A q \in Blocks : CapacityIn(mem', q) = CapacityIn(mem, q)
  <2>1. ASSUME NEW q \in Blocks
        PROVE  CapacityIn(mem', q) = CapacityIn(mem, q)
    <3>1. Place(runs', bucketOf', q, CapacityIn(mem, q)) /\ q \in Blocks'
      BY <1>1, <1>3, <1>6, <1>8, BlockPlace
    <3>2. QED  BY <1>3, <1>9, <3>1, SameCapacity
  <2>2. QED  BY <2>1
<1>12. CapacityIn(mem', p) = BucketSizes[b]
  <2>1. mem'[p - HeaderSize] = UsedHeader(b)
    <3>1. p - HeaderSize \in Addresses
      BY <1>2, <1>10, ChunkPlace, PlaceBounds
    <3>2. QED  BY <1>3, <1>6, <3>1 DEF HeapOK
  <2>2. QED  BY <2>1 DEF CapacityIn, UsedHeader
<1>13. Ranges'
  BY <1>1, <1>6, <1>7, InvRanges DEF Ranges
<1>14. StartsOutside'
  BY <1>6 DEF Inv, StartsOutside
<1>15. DOMAIN live \subseteq Blocks
  BY DEF Blocks
<1>16. LargeEnough'
  BY <1>1, <1>2, <1>7, <1>11, <1>12, <1>15 DEF Inv, LargeEnough
<1>17. CallOK'
  BY <1>1, <1>2, <1>7, <1>10, <1>11, <1>15 DEF Inv, CallOK
<1>18. StopsIffMisused' /\ SizesFit'
  BY <1>1, <1>6 DEF Inv, StopsIffMisused, SizesFit
<1>19. QED  BY <1>9, <1>13, <1>14, <1>16, <1>17, <1>18 DEF Inv

(* A run is as large as the request, when nothing wraps. *)
LEMMA RawPagesEnough ==
  ASSUME SizesFit, NEW size \in Sizes
  PROVE  /\ RawPages(size) \in Nat \ {0}
         /\ HeaderSize + size <= RawPages(size) * PageSize
<1>1. /\ size \in Nat /\ HeaderSize \in Nat \ {0} /\ PageSize \in Nat \ {0}
      /\ SizeLimit \in Nat \ {0}
      /\ HeaderSize + size + PageSize - 1 < SizeLimit
  BY SlabAssumption DEF SizesFit
<1> DEFINE n == HeaderSize + size
           m == n + PageSize - 1
<1>2. /\ n \in Nat /\ n < SizeLimit /\ m \in Nat /\ m < SizeLimit
      /\ n + PageSize - 1 = m /\ PageSize <= m /\ n <= m
  BY <1>1
<1>3. RawPages(size) = (((n % SizeLimit) + PageSize - 1) % SizeLimit) \div PageSize
  BY DEF RawPages
<1> HIDE DEF n, m
<1>4. n % SizeLimit = n /\ m % SizeLimit = m
  BY <1>1, <1>2
<1>5. RawPages(size) = m \div PageSize
  BY <1>2, <1>3, <1>4
<1> DEFINE q == m \div PageSize
<1>6. q \in Nat /\ q * PageSize <= m /\ m < q * PageSize + PageSize
  BY <1>1, <1>2, QuotientBounds
<1> HIDE DEF q
<1>7. q # 0
  BY <1>1, <1>2, <1>6
<1>8. n <= q * PageSize
  <2> DEFINE y == q * PageSize
  <2>1. y \in Nat /\ m < y + PageSize
    BY <1>1, <1>6
  <2> HIDE DEF y
  <2>2. n <= y
    BY <1>1, <1>2, <2>1 DEF m
  <2>3. QED  BY <2>2 DEF y
<1>9. QED  BY <1>5, <1>6, <1>7, <1>8 DEF q, n

LEMMA RawKeepsInv ==
  ASSUME Inv, kmalloc_raw
  PROVE  Inv'
<1>1. Allocating /\ UNCHANGED <<live, bucketOf, misused>>
  BY DEF kmalloc_raw
<1>2. /\ panicked = "no" /\ call.to = Null /\ call.op # "none"
      /\ call.size \in Sizes \ {0} /\ call.size \in Nat \ {0}
  BY <1>1, AllocatingFacts
<1>3. /\ RawPages(call.size) \in Nat \ {0}
      /\ HeaderSize + call.size <= RawPages(call.size) * PageSize
  BY <1>2, RawPagesEnough DEF Inv
<1>4. CASE Stops(IF RawPages(call.size) = 0 THEN "page_fault" ELSE "no_pages", mem)
           /\ UNCHANGED call
  <2>1. Stops("no_pages", mem)
    BY <1>3, <1>4
  <2>2. QED  BY <1>1, <1>2, <1>4, <2>1, NoPagesKeepsInv DEF Stops, pages
<1>5. ASSUME NEW r \in Pages!Run,
             r.pages = RawPages(call.size),
             Pages!Alloc(r),
             mem' = [mem EXCEPT ![r.base * PageSize] = RawHeader(r.pages * PageSize)],
             call' = [call EXCEPT !.to = r.base * PageSize + HeaderSize],
             UNCHANGED <<list, panicked>>
      PROVE  Inv'
  <2> DEFINE p == RawPointer(r)
  <2>1. /\ runs' = runs \cup {r} /\ starts' = starts \cup {r.base}
        /\ Fresh(r, runs)
        /\ Pages!Inside(r) \cap starts = {}
    BY <1>5 DEF Pages!Alloc, Pages!PagesOfAll, Fresh
  <2>2. /\ RunsApart(runs, bucketOf) /\ mem \in [Addresses -> Cell]
        /\ HeapOK(runs, bucketOf, mem, list, Blocks)
    BY InvRanges DEF Inv
  <2>3. HeaderSize < r.pages * PageSize
    <3> DEFINE y == RawPages(call.size) * PageSize
    <3>1. y = r.pages * PageSize /\ y \in Nat
      BY <1>3, <1>5, Numbers
    <3>2. HeaderSize + call.size <= y
      BY <1>3
    <3> HIDE DEF y
    <3>3. HeaderSize < y
      BY <1>2, <3>1, <3>2, Numbers
    <3>4. QED  BY <3>1, <3>3
  <2>4. /\ p \notin Blocks
        /\ \A n : ~Place(runs, bucketOf, p, n)
        /\ r \in RawIn(runs \cup {r}, bucketOf)
        /\ HeapOK(runs \cup {r}, bucketOf,
                  [mem EXCEPT ![r.base * PageSize] = RawHeader(r.pages * PageSize)],
                  list, Blocks \cup {p})
    <3> HIDE DEF p
    <3>1. QED  BY <2>1, <2>2, <2>3, RunTaken DEF p
  <2>5. r.base \in Pages!Pages /\ \A s \in runs : s.base # r.base
    BY <2>1, <2>2, FreshRun
  <2>6. HeapOK(runs', bucketOf', mem', list', Blocks \cup {p})
    BY <1>1, <1>5, <2>1, <2>4
  <2>7. RunsApart(runs', bucketOf') /\ r \in RawIn(runs', bucketOf')
    BY <1>1, <2>1, <2>4, <2>6 DEF HeapOK
  <2>8. p # Null /\ p - HeaderSize = r.base * PageSize
    BY <2>7, RawPlace
  <2>9. CapacityIn(mem', p) >= call.size /\ CapacityIn(mem', p) \in Int
    <3>1. mem'[p - HeaderSize] = RawHeader(r.pages * PageSize)
      BY <2>6, <2>7, <2>8 DEF HeapOK, HeadersTrue
    <3>2. CapacityIn(mem', p) = r.pages * PageSize - HeaderSize
      BY <3>1 DEF CapacityIn, RawHeader
    <3> DEFINE y == RawPages(call.size) * PageSize
    <3>3. y = r.pages * PageSize /\ y \in Nat
      BY <1>3, <1>5, Numbers
    <3>4. HeaderSize + call.size <= y
      BY <1>3
    <3>5. CapacityIn(mem', p) = y - HeaderSize
      BY <3>2, <3>3
    <3> HIDE DEF y, p
    <3>6. QED  BY <1>2, <3>3, <3>4, <3>5, Numbers
  <2>10. p \in Addresses
    <3> HIDE DEF p
    <3>1. p \in Blocks \cup {p} /\ call.size <= CapacityIn(mem', p)
      BY <1>2, <2>9
    <3>2. QED  BY <1>2, <2>6, <3>1, BlockFacts
  <2>11. /\ call'.to = p /\ call'.op = call.op /\ call'.from = call.from
         /\ call'.size = call.size
         /\ call' \in [op : {"none", "kmalloc", "kzalloc", "krealloc"},
                  from : Addresses, size : Sizes \cup {0}, to : Addresses]
    <3>1. call \in [op : {"none", "kmalloc", "kzalloc", "krealloc"},
                 from : Addresses, size : Sizes \cup {0}, to : Addresses]
      BY InvRanges DEF Ranges
    <3>2. call' = [call EXCEPT !.to = p]
      BY <1>5 DEF RawPointer
    <3> HIDE DEF p
    <3>3. QED  BY <2>10, <3>1, <3>2
  <2> HIDE DEF p
  <2>12. Blocks' = Blocks \cup {p}
    BY <1>1, <1>2, <2>8, <2>11 DEF Blocks
  <2>13. HeapOK(runs', bucketOf', mem', list', Blocks')
    BY <2>6, <2>12
  <2>14. \A q \in Blocks : CapacityIn(mem', q) = CapacityIn(mem, q)
    <3>1. ASSUME NEW q \in Blocks
          PROVE  CapacityIn(mem', q) = CapacityIn(mem, q)
      <4>1. Place(runs, bucketOf, q, CapacityIn(mem, q)) /\ q \in Blocks'
        BY <2>2, <2>12, BlockPlace
      <4>2. /\ RawIn(runs, bucketOf) \subseteq RawIn(runs', bucketOf')
            /\ \A c \in Buckets : ChunksIn(bucketOf, c) \subseteq ChunksIn(bucketOf', c)
        BY <1>1, <2>1 DEF RawIn
      <4>3. Place(runs', bucketOf', q, CapacityIn(mem, q))
        BY <4>1, <4>2, PlaceKept
      <4>4. QED  BY <2>2, <2>13, <4>1, <4>3, SameCapacity
    <3>2. QED  BY <3>1
  <2>15. Ranges'
    BY <1>1, <1>5, <2>1, <2>5, <2>11, InvRanges DEF Ranges
  <2>16. StartsOutside'
    <3>1. ASSUME NEW s \in runs
          PROVE  s.base \in starts' /\ Pages!Inside(s) \cap starts' = {}
      <4>1. r.base \in Pages!PagesOf(r)
        BY <2>1, <2>7, RunFacts
      <4>2. r.base \notin Pages!PagesOf(s)
        BY <2>1, <4>1 DEF Fresh
      <4>3. QED  BY <2>1, <4>2 DEF Inv, StartsOutside, Pages!Inside
    <3>2. r.base \in starts' /\ Pages!Inside(r) \cap starts' = {}
      BY <2>1 DEF Pages!Inside
    <3>3. QED  BY <2>1, <3>1, <3>2 DEF StartsOutside
  <2>17. DOMAIN live \subseteq Blocks
    BY DEF Blocks
  <2>18. LargeEnough'
    <3>1. call.size <= CapacityIn(mem', p)
      BY <1>2, <2>9
    <3>2. QED  BY <1>1, <2>11, <2>14, <2>17, <3>1 DEF Inv, LargeEnough
  <2>19. CallOK'
    BY <1>1, <1>2, <2>4, <2>8, <2>11, <2>14, <2>17 DEF Inv, CallOK
  <2>20. StopsIffMisused' /\ SizesFit'
    BY <1>1, <1>5 DEF Inv, StopsIffMisused, SizesFit
  <2>21. QED  BY <2>13, <2>15, <2>16, <2>18, <2>19, <2>20 DEF Inv
<1>6. QED  BY <1>4, <1>5 DEF kmalloc_raw
LEMMA DivTimes ==
  ASSUME NEW i \in Nat, NEW k \in Nat \ {0}
  PROVE  (i * k) \div k = i
<1> DEFINE x == i * k
<1>1. x \in Nat /\ i * k <= x /\ x < i * k + k
  OBVIOUS
<1> HIDE DEF x
<1>2. x \div k = i
  BY <1>1, Quotient
<1>3. QED  BY <1>2 DEF x

(* A block that is handed out is never refused. *)
LEMMA BlockAccepted ==
  ASSUME Inv, NEW p \in Blocks
  PROVE  Refusal(p) = "no"
<1>1. /\ RunsApart(runs, bucketOf)
      /\ HeapOK(runs, bucketOf, mem, list, Blocks)
  BY InvRanges DEF Inv
<1>2. /\ Place(runs, bucketOf, p, CapacityIn(mem, p))
      /\ Header(p).kind \in {"used", "raw"}
  BY <1>1, BlockPlace DEF Header
<1>3. p - HeaderSize \in p - HeaderSize..p + CapacityIn(mem, p) - 1
  BY <1>1, <1>2, CellsApart
<1>4. \E r \in runs : (p - HeaderSize) \div PageSize \in Pages!PagesOf(r)
  BY <1>1, <1>2, <1>3, PlaceInRun
<1>5. IsMapped(p - HeaderSize)
  BY <1>4 DEF IsMapped, InRun
<1>6. QED  BY <1>2, <1>5 DEF Refusal

(* The run of a block that has one of its own, found from its header. *)
LEMMA RunFound ==
  ASSUME Inv, NEW r \in RawIn(runs, bucketOf), NEW p, p = RawPointer(r)
  PROVE  RunAt(p) = r
<1>1. /\ RunsApart(runs, bucketOf) /\ r \in runs
      /\ mem[r.base * PageSize] = RawHeader(r.pages * PageSize)
  BY InvRanges DEF Inv, HeapOK, HeadersTrue, RawIn
<1>2. /\ r.base \in Nat /\ r.pages \in Nat \ {0}
      /\ r = [base |-> r.base, pages |-> r.pages]
  BY <1>1, RunFacts
<1>3. p - HeaderSize = r.base * PageSize
  BY <1>1, RawPlace
<1>4. Header(p).val = r.pages * PageSize
  BY <1>1, <1>3 DEF Header, RawHeader
<1>5. /\ (r.base * PageSize) \div PageSize = r.base
      /\ (r.pages * PageSize) \div PageSize = r.pages
  BY <1>2, Numbers, DivTimes
<1>6. QED  BY <1>2, <1>3, <1>4, <1>5 DEF RunAt

(* Freeing a block takes it, and nothing else, out of the heap. *)
LEMMA FreedFacts ==
  ASSUME Inv, panicked = "no", bucketOf' = bucketOf,
         NEW p \in Blocks, NEW m, HeapOK(runs, bucketOf, m, list, Blocks),
         m[p - HeaderSize] = mem[p - HeaderSize], Freed(m, p)
  PROVE  /\ HeapOK(runs', bucketOf', mem', list', Blocks \ {p})
         /\ runs' \subseteq runs /\ starts' = starts
         /\ panicked' \in {"no", "no_slot"}
         /\ \A q \in Blocks \ {p} : CapacityIn(mem', q) = CapacityIn(m, q)
<1>1. RunsApart(runs, bucketOf)
  BY InvRanges
<1>2. ChunkFreed(m, p) \/ RunFreed(m, p)
  BY BlockAccepted DEF Freed
<1>3. CASE ChunkFreed(m, p)
  <2> DEFINE b == m[p - HeaderSize].val
  <2>1. m[p - HeaderSize].kind = "used"
    BY <1>3 DEF ChunkFreed, Header
  <2>2. b \in Buckets /\ p \in ChunksIn(bucketOf, b)
    BY <2>1, BlockPlace
  <2>3. /\ mem' = [m EXCEPT ![p - HeaderSize] = FreeHeader, ![p] = Data(list[b])]
        /\ list' = [list EXCEPT ![b] = p]
        /\ UNCHANGED <<runs, starts, panicked>>
    BY <1>3 DEF ChunkFreed, Header, pages
  <2> HIDE DEF b
  <2>4. HeapOK(runs, bucketOf,
               [m EXCEPT ![p - HeaderSize] = FreeHeader, ![p] = Data(list[b])],
               [list EXCEPT ![b] = p], Blocks \ {p})
    BY <2>2, ChunkGivenBack
  <2>5. HeapOK(runs', bucketOf', mem', list', Blocks \ {p})
    BY <2>3, <2>4
  <2>6. ASSUME NEW q \in Blocks \ {p}
        PROVE  CapacityIn(mem', q) = CapacityIn(m, q)
    <3>1. Place(runs', bucketOf', q, CapacityIn(m, q))
      BY <2>3, BlockPlace
    <3>2. QED  BY <2>5, <3>1, SameCapacity
  <2>7. QED  BY <2>3, <2>5, <2>6
<1>4. CASE RunFreed(m, p)
  <2>1. mem[p - HeaderSize].kind = "raw"
    BY <1>4 DEF RunFreed, Header
  <2>2. PICK r \in RawIn(runs, bucketOf) : p = RawPointer(r)
    BY <2>1, BlockPlace
  <2>3. RunAt(p) = r
    BY <2>2, RunFound
  <2>4. /\ runs' = runs \ {r} /\ starts' = starts /\ list' = list
        /\ mem' = [a \in Addresses |-> IF InRun(a, r) THEN Data(Unknown) ELSE m[a]]
        /\ panicked' \in {"no", "no_slot"}
    BY <1>4, <2>3 DEF RunFreed, Pages!Free
  <2>5. HeapOK(runs \ {r}, bucketOf,
               [a \in Addresses |-> IF InRun(a, r) THEN Data(Unknown) ELSE m[a]],
               list, Blocks \ {p})
    BY <2>2, RunGivenBack
  <2>6. HeapOK(runs', bucketOf', mem', list', Blocks \ {p})
    BY <2>4, <2>5
  <2>7. ASSUME NEW q \in Blocks \ {p}
        PROVE  CapacityIn(mem', q) = CapacityIn(m, q)
    <3>1. Place(runs, bucketOf, q, CapacityIn(m, q))
      BY BlockPlace
    <3>2. Place(runs', bucketOf', q, CapacityIn(m, q))
      BY <2>2, <2>4, <3>1 DEF Place, RawIn
    <3>3. QED  BY <2>6, <3>2, SameCapacity
  <2>8. QED  BY <2>4, <2>6, <2>7
<1>5. QED  BY <1>2, <1>3, <1>4
LEMMA ReturnsFacts ==
  ASSUME Inv, Returns
  PROVE  /\ panicked = "no" /\ call.to # Null /\ call.op # "none"
         /\ call.to \in Blocks /\ call.to # call.from
         /\ call.size \in Sizes \ {0} /\ call.size \in Nat \ {0}
         /\ Blocks = DOMAIN live \cup {call.to}
         /\ Blocks' = Blocks \ {call.from}
         /\ DOMAIN live' = Blocks \ {call.from}
         /\ live'[call.to] = call.size
         /\ \A q \in DOMAIN live \ {call.from} : live'[q] = live[q]
         /\ call' = Idle
<1>1. /\ panicked = "no" /\ call.to # Null /\ call' = Idle
      /\ live' = Delivered
  BY DEF Returns
<1>2. call.op # "none" /\ call.size # 0
  BY <1>1 DEF Inv, CallOK, Idle
<1>3. call.size \in Sizes \ {0} /\ call.size \in Nat \ {0}
  <2>1. call.size \in Sizes \cup {0} /\ Sizes \subseteq Nat
    BY InvRanges, SlabAssumption
  <2>2. QED  BY <1>2, <2>1
<1>4. Blocks = DOMAIN live \cup {call.to} /\ Null \notin Blocks
  BY <1>1, IdleBlocks
<1>5. call.to # call.from
  BY <1>1 DEF Inv, CallOK
<1>6. DOMAIN live' = (DOMAIN live \ {call.from}) \cup {call.to}
  BY <1>1 DEF Delivered
<1>7. live'[call.to] = call.size
  BY <1>1 DEF Delivered
<1>8. \A q \in DOMAIN live \ {call.from} : live'[q] = live[q]
  BY <1>1 DEF Delivered, Inv, CallOK
<1>9. Blocks' = DOMAIN live'
  BY <1>1 DEF Blocks, Idle
<1>10. QED
  BY <1>1, <1>2, <1>3, <1>4, <1>5, <1>6, <1>7, <1>8, <1>9

(* A block is delivered, and an old one may be gone. *)
LEMMA ReturnsKeepsInv ==
  ASSUME Inv, Returns,
         HeapOK(runs', bucketOf', mem', list', Blocks \ {call.from}),
         runs' \subseteq runs, starts' = starts, panicked' \in {"no", "no_slot"},
         \A q \in Blocks \ {call.from} : CapacityIn(mem', q) = CapacityIn(mem, q)
  PROVE  Inv'
<1>1. /\ panicked = "no" /\ call.to # Null
      /\ call.to \in Blocks /\ call.to # call.from
      /\ call.size \in Sizes \ {0}
      /\ Blocks = DOMAIN live \cup {call.to}
      /\ Blocks' = Blocks \ {call.from}
      /\ DOMAIN live' = Blocks \ {call.from}
      /\ live'[call.to] = call.size
      /\ \A q \in DOMAIN live \ {call.from} : live'[q] = live[q]
      /\ call' = Idle
  BY ReturnsFacts
<1>2. HeapOK(runs', bucketOf', mem', list', Blocks')
  BY <1>1
<1>3. misused' = misused /\ misused \in BOOLEAN
  BY InvRanges DEF Returns, Ranges
<1>4. Null \in Addresses
  BY HeadersInCell
<1>5. Ranges'
  BY <1>1, <1>3, <1>4, InvRanges DEF Ranges, Idle
<1>6. StartsOutside'
  BY DEF Inv, StartsOutside
<1>7. LargeEnough'
  <2>1. ASSUME NEW q \in DOMAIN live'
        PROVE  live'[q] \in Sizes \ {0} /\ live'[q] <= CapacityIn(mem', q)
    <3>1. CapacityIn(mem', q) = CapacityIn(mem, q)
      BY <1>1, <2>1
    <3>2. CASE q = call.to
      BY <1>1, <3>1, <3>2 DEF Inv, LargeEnough
    <3>3. CASE q \in DOMAIN live \ {call.from}
      BY <1>1, <3>1, <3>3 DEF Inv, LargeEnough
    <3>4. QED  BY <1>1, <3>2, <3>3
  <2>2. call'.to = Null
    BY <1>1 DEF Idle
  <2>3. QED  BY <2>1, <2>2 DEF LargeEnough
<1>8. CallOK'
  <2>1. Null \notin Blocks'
    BY <1>1, IdleBlocks
  <2>2. QED  BY <1>1, <2>1 DEF CallOK, Idle
<1>9. StopsIffMisused' /\ SizesFit'
  BY <1>1, <1>3 DEF Inv, StopsIffMisused, SizesFit
<1>10. QED  BY <1>2, <1>5, <1>6, <1>7, <1>8, <1>9 DEF Inv

LEMMA KmallocReturnsKeepsInv ==
  ASSUME Inv, kmalloc_returns
  PROVE  Inv'
<1>1. /\ Returns /\ call.op = "kmalloc"
      /\ UNCHANGED <<runs, starts, mem, list, panicked, bucketOf>>
  BY DEF kmalloc_returns, Returns, pages
<1>2. call.from = Null /\ Blocks \ {Null} = Blocks
  BY <1>1, IdleBlocks DEF Inv, CallOK
<1>3. HeapOK(runs', bucketOf', mem', list', Blocks \ {call.from})
  BY <1>1, <1>2 DEF Inv
<1>4. panicked = "no"
  BY <1>1, ReturnsFacts
<1>5. QED  BY <1>1, <1>3, <1>4, ReturnsKeepsInv

LEMMA KzallocReturnsKeepsInv ==
  ASSUME Inv, kzalloc_returns
  PROVE  Inv'
<1>1. /\ Returns /\ call.op = "kzalloc"
      /\ mem' = Zeroed(call.to, call.size)
      /\ UNCHANGED <<runs, starts, list, panicked, bucketOf>>
  BY DEF kzalloc_returns, Returns, pages
<1>2. call.from = Null /\ Blocks \ {Null} = Blocks
  BY <1>1, IdleBlocks DEF Inv, CallOK
<1>3. /\ panicked = "no" /\ call.to \in Blocks /\ call.to # Null
      /\ call.size \in Nat \ {0}
  BY <1>1, ReturnsFacts
<1>4. /\ mem \in [Addresses -> Cell]
      /\ HeapOK(runs, bucketOf, mem, list, Blocks)
  BY InvRanges DEF Inv
<1>5. mem' = [a \in Addresses |->
                IF a \in call.to..call.to + call.size - 1 THEN Data(0) ELSE mem[a]]
  BY <1>1, <1>4 DEF Zeroed, Written
<1>6. Data(0) \in Cell
  BY HeadersInCell DEF Null
<1>7. mem' \in [Addresses -> Cell]
  BY <1>4, <1>5, <1>6
<1>8. \A a \in Addresses :
        a \notin call.to..call.to + CapacityIn(mem, call.to) - 1 => mem'[a] = mem[a]
  <2>1. call.size <= CapacityIn(mem, call.to)
    BY <1>3 DEF Inv, LargeEnough
  <2>2. CapacityIn(mem, call.to) \in Int /\ call.to \in Nat
    BY <1>3, <1>4, <2>1, BlockFacts, ConstantsOK
  <2>3. ASSUME NEW a \in call.to..call.to + call.size - 1
        PROVE  a \in call.to..call.to + CapacityIn(mem, call.to) - 1
    BY <1>3, <2>1, <2>2
  <2>4. QED  BY <1>5, <2>3
<1>9. /\ HeapOK(runs, bucketOf, mem', list, Blocks)
      /\ \A q \in Blocks : mem'[q - HeaderSize] = mem[q - HeaderSize]
  BY <1>3, <1>4, <1>7, <1>8, BlockWritten
<1>10. \A q \in Blocks : CapacityIn(mem', q) = CapacityIn(mem, q)
  BY <1>9 DEF CapacityIn
<1>11. HeapOK(runs', bucketOf', mem', list', Blocks \ {call.from})
  BY <1>1, <1>2, <1>9
<1>12. QED  BY <1>1, <1>3, <1>10, <1>11, ReturnsKeepsInv

(* Memory after krealloc has copied the old block, which fits the new one. *)
LEMMA CopiedFacts ==
  ASSUME Inv, Returns, call.op = "krealloc", NEW n, n = hdr_capacity(call.from),
         NEW m, m = Copied(call.to, call.from, n)
  PROVE  /\ call.from \in DOMAIN live /\ call.from \in Blocks
         /\ call.from # Null
         /\ HeapOK(runs, bucketOf, m, list, Blocks)
         /\ \A q \in Blocks : m[q - HeaderSize] = mem[q - HeaderSize]
         /\ \A a \in call.to..call.to + n - 1 : m[a] = mem[a - call.to + call.from]
         /\ \A a \in Addresses :
              a \notin call.to..call.to + CapacityIn(mem, call.to) - 1 => m[a] = mem[a]
         /\ n = CapacityIn(mem, call.from)
<1> DEFINE to == call.to
           from == call.from
<1>1. /\ panicked = "no" /\ to \in Blocks /\ to # Null /\ to # from
      /\ call.size \in Nat \ {0} /\ Blocks = DOMAIN live \cup {to}
  BY ReturnsFacts
<1>2. /\ from # Null /\ from \in DOMAIN live /\ from \in Blocks
      /\ CapacityIn(mem, from) < call.size
  BY <1>1 DEF Inv, CallOK
<1>3. /\ mem \in [Addresses -> Cell]
      /\ HeapOK(runs, bucketOf, mem, list, Blocks)
  BY InvRanges DEF Inv
<1>4. n = CapacityIn(mem, from)
  BY DEF hdr_capacity, CapacityIn, Header
<1>5. n \in Int /\ n < CapacityIn(mem, to) /\ CapacityIn(mem, to) \in Int
      /\ to \in Nat /\ from \in Nat
  <2>1. call.size <= CapacityIn(mem, to)
    BY <1>1 DEF Inv, LargeEnough
  <2>2. CapacityIn(mem, to) \in Int /\ CapacityIn(mem, from) \in Int
    BY <1>1, <1>2, <1>3, BlockFacts
  <2>3. to \in Nat /\ from \in Nat
    BY InvRanges, ConstantsOK
  <2>4. QED  BY <1>1, <1>2, <1>4, <2>1, <2>2, <2>3
<1>6. m = [a \in Addresses |->
             IF a \in to..to + n - 1 THEN mem[a - to + from] ELSE mem[a]]
  BY <1>3 DEF Copied, Written
<1>7. \A a \in to..to + n - 1 : a \in to..to + CapacityIn(mem, to) - 1
  BY <1>5
<1>8. \A a \in to..to + CapacityIn(mem, to) - 1 : a \in Addresses
  <2>1. Place(runs, bucketOf, to, CapacityIn(mem, to)) /\ RunsApart(runs, bucketOf)
    BY <1>1, <1>3, BlockPlace, InvRanges
  <2>2. QED  BY <2>1, PlaceBounds
<1>9. ASSUME NEW a \in to..to + n - 1
      PROVE  a - to + from \in Addresses
  <2>1. Place(runs, bucketOf, from, CapacityIn(mem, from)) /\ RunsApart(runs, bucketOf)
    BY <1>2, <1>3, BlockPlace, InvRanges
  <2>2. a - to + from \in from..from + n - 1
    BY <1>5
  <2>3. QED  BY <1>4, <2>1, <2>2, PlaceBounds
<1>10. m \in [Addresses -> Cell]
  BY <1>3, <1>6, <1>9
<1>11. \A a \in Addresses :
         a \notin to..to + CapacityIn(mem, to) - 1 => m[a] = mem[a]
  BY <1>6, <1>7
<1>12. \A a \in to..to + n - 1 : m[a] = mem[a - to + from]
  BY <1>6, <1>7, <1>8
<1>13. /\ HeapOK(runs, bucketOf, m, list, Blocks)
       /\ \A q \in Blocks : m[q - HeaderSize] = mem[q - HeaderSize]
  BY <1>1, <1>3, <1>10, <1>11, BlockWritten
<1>14. QED  BY <1>2, <1>4, <1>11, <1>12, <1>13

LEMMA KreallocReturnsKeepsInv ==
  ASSUME Inv, krealloc_returns
  PROVE  Inv'
<1> DEFINE from == call.from
           n == hdr_capacity(from)
           m == Copied(call.to, from, n)
<1>1. /\ Returns /\ call.op = "krealloc" /\ Freed(m, from)
      /\ bucketOf' = bucketOf
  BY DEF krealloc_returns, Returns
<1>2. panicked = "no"
  BY <1>1, ReturnsFacts
<1>3. /\ from \in Blocks
      /\ HeapOK(runs, bucketOf, m, list, Blocks)
      /\ \A q \in Blocks : m[q - HeaderSize] = mem[q - HeaderSize]
  <2> HIDE DEF m, n
  <2>1. QED  BY <1>1, CopiedFacts DEF m, n
<1> HIDE DEF m
<1>4. /\ HeapOK(runs', bucketOf', mem', list', Blocks \ {from})
      /\ runs' \subseteq runs /\ starts' = starts
      /\ panicked' \in {"no", "no_slot"}
      /\ \A q \in Blocks \ {from} : CapacityIn(mem', q) = CapacityIn(m, q)
  <2>1. m[from - HeaderSize] = mem[from - HeaderSize]
    BY <1>3
  <2> HIDE DEF from
  <2>2. QED  BY <1>1, <1>2, <1>3, <2>1, FreedFacts
<1>5. \A q \in Blocks \ {from} : CapacityIn(mem', q) = CapacityIn(mem, q)
  BY <1>3, <1>4 DEF CapacityIn
<1>6. QED  BY <1>1, <1>4, <1>5, ReturnsKeepsInv

(* A pointer that was once returned and is no block leads to an unmapped   *)
(* page or to the header of a free chunk, never into another block.        *)
LEMMA StaleRefused ==
  ASSUME Inv, NEW p \in Returnable, p \notin Blocks
  PROVE  Refusal(p) \in {"page_fault", "double_free"}
<1>1. /\ RunsApart(runs, bucketOf)
      /\ HeadersTrue(runs, bucketOf, mem, Blocks)
      /\ bucketOf \in [Pages!Pages -> Buckets \cup {0}]
  BY InvRanges DEF Inv, HeapOK
<1>2. ASSUME NEW b \in Buckets, p \in ChunksIn(bucketOf, b)
      PROVE  Refusal(p) \in {"page_fault", "double_free"}
  <2>1. Header(p).kind = "free"
    BY <1>1, <1>2 DEF HeadersTrue, Header, FreeHeader
  <2>2. QED  BY <2>1 DEF Refusal
<1>3. ASSUME NEW s \in starts, p = s * PageSize + HeaderSize
      PROVE  Refusal(p) \in {"page_fault", "double_free"}
  <2>1. CASE ~IsMapped(p - HeaderSize)
    BY <2>1 DEF Refusal
  <2>2. CASE IsMapped(p - HeaderSize)
    <3>1. s \in Pages!Pages /\ s \in Nat
      BY InvRanges, ConstantsOK DEF Ranges
    <3>2. p - HeaderSize = s * PageSize
      <4> DEFINE x == s * PageSize
      <4>1. x \in Nat /\ p = x + HeaderSize
        BY <1>3, <3>1, Numbers
      <4> HIDE DEF x
      <4>2. p - HeaderSize = x
        BY <4>1, Numbers
      <4>3. QED  BY <4>2 DEF x
    <3>3. (p - HeaderSize) \div PageSize = s
      BY <3>1, <3>2, Numbers, DivTimes
    <3>4. PICK r \in runs : s \in Pages!PagesOf(r)
      BY <2>2, <3>3 DEF IsMapped, InRun
    <3>5. s = r.base
      BY <3>4 DEF Inv, StartsOutside, Pages!Inside
    <3>6. CASE bucketOf[s] = 0
      <4>1. r \in RawIn(runs, bucketOf) /\ p = RawPointer(r)
        BY <1>3, <3>4, <3>5, <3>6 DEF RawIn, RawPointer
      <4>2. QED  BY <1>1, <4>1 DEF HeadersTrue
    <3>7. CASE bucketOf[s] # 0
      <4>1. bucketOf[s] \in Buckets
        BY <1>1, <3>1, <3>7
      <4>2. p \in ChunkSet(s, bucketOf[s])
        <5> DEFINE b == bucketOf[s]
                   z == SlotSize(b)
                   x == s * PageSize
        <5>1. /\ PageSize \div z \in Nat \ {0} /\ z \in Nat
              /\ Chunks(s, b)[1] = x + (1 - 1) * z + HeaderSize
          <6>1. b \in Buckets
            BY <4>1
          <6> HIDE DEF b
          <6>2. /\ PageSize \div SlotSize(b) \in Nat \ {0}
                /\ SlotSize(b) \in Nat
            BY <3>1, <6>1, ChunkFacts, ConstantsOK
          <6>3. QED  BY <3>1, <6>1, <6>2, ChunkFacts
        <5>2. 1 \in DOMAIN Chunks(s, b)
          BY <5>1 DEF Chunks
        <5>3. x \in Nat /\ p = x + HeaderSize
          BY <1>3, <3>1, Numbers
        <5>4. p = Chunks(s, b)[1]
          <6> HIDE DEF x, z
          <6>1. (1 - 1) * z = 0
            BY <5>1
          <6>2. QED  BY <5>1, <5>3, <6>1, Numbers
        <5>5. QED  BY <5>2, <5>4 DEF ChunkSet
      <4>3. p \in ChunksIn(bucketOf, bucketOf[s])
        BY <3>1, <4>2 DEF ChunksIn
      <4>4. QED  BY <1>2, <4>1, <4>3
    <3>8. QED  BY <3>6, <3>7
  <2>3. QED  BY <2>1, <2>2
<1>4. QED  BY <1>2, <1>3 DEF Returnable, ChunksOf, ChunksIn

(* A step of the kernel stopping at a pointer that is no block. *)
LEMMA MisuseKeepsInv ==
  ASSUME Inv, Calls, NEW p \in Returnable, p \notin DOMAIN live,
         Stops(Refusal(p), mem), misused' = TRUE, UNCHANGED <<call, bucketOf>>,
         DOMAIN live' = DOMAIN live, \A q \in DOMAIN live : live'[q] = live[q]
  PROVE  Inv'
<1>1. /\ call = Idle /\ Blocks = DOMAIN live
      /\ UNCHANGED <<runs, starts, mem, list>> /\ panicked' = Refusal(p)
  BY IdleBlocks DEF Calls, Stops, pages
<1>2. panicked' \in {"page_fault", "double_free"}
  BY <1>1, StaleRefused
<1>3. Blocks' = Blocks
  BY DEF Blocks
<1>4. HeapOK(runs', bucketOf', mem', list', Blocks')
  BY <1>1, <1>3 DEF Inv
<1>5. Ranges' /\ StartsOutside' /\ LargeEnough' /\ CallOK' /\ SizesFit'
  BY <1>1, <1>2, InvRanges
     DEF Inv, Ranges, StartsOutside, LargeEnough, CallOK, SizesFit, CapacityIn
<1>6. StopsIffMisused'
  BY <1>2 DEF StopsIffMisused
<1>7. QED  BY <1>4, <1>5, <1>6 DEF Inv

LEMMA KfreeKeepsInv ==
  ASSUME Inv, NEW p \in Returnable, kfree(p)
  PROVE  Inv'
<1>1. /\ Calls /\ Freed(mem, p) /\ live' = Without(p)
      /\ misused' = (p \notin DOMAIN live) /\ UNCHANGED <<call, bucketOf>>
      /\ panicked = "no" /\ call = Idle /\ Blocks = DOMAIN live
  BY IdleBlocks DEF kfree, Calls
<1>2. CASE p \notin DOMAIN live
  <2>1. Refusal(p) # "no"
    BY <1>1, <1>2, StaleRefused
  <2>2. /\ Stops(Refusal(p), mem)
        /\ DOMAIN live' = DOMAIN live /\ \A q \in DOMAIN live : live'[q] = live[q]
    BY <1>1, <1>2, <2>1 DEF Freed, Without
  <2>3. QED  BY <1>1, <1>2, <2>2, MisuseKeepsInv
<1>3. CASE p \in DOMAIN live
  <2>1. HeapOK(runs, bucketOf, mem, list, Blocks) /\ p \in Blocks
    BY <1>1, <1>3 DEF Inv
  <2>2. /\ HeapOK(runs', bucketOf', mem', list', Blocks \ {p})
        /\ runs' \subseteq runs /\ starts' = starts
        /\ panicked' \in {"no", "no_slot"}
        /\ \A q \in Blocks \ {p} : CapacityIn(mem', q) = CapacityIn(mem, q)
    BY <1>1, <2>1, FreedFacts
  <2>3. /\ DOMAIN live' = DOMAIN live \ {p}
        /\ \A q \in DOMAIN live' : live'[q] = live[q]
    BY <1>1 DEF Without
  <2>4. Blocks' = Blocks \ {p}
    BY <1>1, <2>3 DEF Blocks, Idle
  <2>5. HeapOK(runs', bucketOf', mem', list', Blocks')
    BY <2>2, <2>4
  <2>6. misused' = FALSE
    BY <1>1, <1>3
  <2>7. Ranges' /\ StartsOutside' /\ SizesFit' /\ StopsIffMisused'
    BY <1>1, <2>2, <2>6, InvRanges
       DEF Inv, Ranges, StartsOutside, SizesFit, StopsIffMisused
  <2>8. LargeEnough'
    BY <1>1, <2>2, <2>3 DEF Inv, LargeEnough, Idle
  <2>9. CallOK'
    BY <1>1, <2>3 DEF Inv, CallOK, Idle
  <2>10. QED  BY <2>5, <2>7, <2>8, <2>9 DEF Inv
<1>4. QED  BY <1>2, <1>3
LEMMA KreallocKeepsInv ==
  ASSUME Inv, NEW p \in Returnable, NEW size \in Sizes, krealloc(p, size)
  PROVE  Inv'
<1>1. /\ Calls /\ misused' = (p \notin DOMAIN live) /\ size # 0
      /\ UNCHANGED bucketOf
      /\ panicked = "no" /\ call = Idle /\ Blocks = DOMAIN live
  BY IdleBlocks DEF krealloc, Calls
<1>2. CASE p \notin DOMAIN live
  <2>1. Refusal(p) # "no"
    BY <1>1, <1>2, StaleRefused
  <2>2. Stops(Refusal(p), mem) /\ UNCHANGED <<call, live>>
    BY <2>1 DEF krealloc
  <2>3. QED  BY <1>1, <1>2, <2>2, MisuseKeepsInv
<1>3. CASE p \in DOMAIN live
  <2>1. /\ Refusal(p) = "no" /\ p \in Blocks
        /\ HeapOK(runs, bucketOf, mem, list, Blocks)
    BY <1>1, <1>3, BlockAccepted DEF Inv
  <2>2. /\ UNCHANGED <<runs, starts, mem, list, panicked>>
        /\ misused' = FALSE
    BY <1>1, <1>3, <2>1 DEF krealloc, pages
  <2>3. hdr_capacity(p) = CapacityIn(mem, p) /\ CapacityIn(mem, p) \in Int
    BY <2>1, BlockFacts DEF hdr_capacity, CapacityIn, Header
  <2>4. size \in Nat
    BY SlabAssumption
  <2>5. CASE size <= hdr_capacity(p)
    <3>1. /\ DOMAIN live' = DOMAIN live /\ call' = Idle
          /\ \A q \in DOMAIN live :
               live'[q] = IF q = p THEN size ELSE live[q]
      BY <1>1, <1>3, <2>1, <2>5 DEF krealloc
    <3>2. Blocks' = Blocks
      BY <1>1, <3>1 DEF Blocks
    <3>3. HeapOK(runs', bucketOf', mem', list', Blocks')
      BY <1>1, <2>1, <2>2, <3>2
    <3>4. Ranges' /\ StartsOutside' /\ SizesFit' /\ StopsIffMisused'
      BY <1>1, <2>2, <3>1, InvRanges
         DEF Inv, Ranges, StartsOutside, SizesFit, StopsIffMisused
    <3>5. LargeEnough'
      BY <1>1, <2>2, <2>3, <2>5, <3>1 DEF Inv, LargeEnough, Idle
    <3>6. CallOK'
      BY <1>1, <3>1 DEF Inv, CallOK, Idle
    <3>7. QED  BY <3>3, <3>4, <3>5, <3>6 DEF Inv
  <2>6. CASE ~(size <= hdr_capacity(p))
    <3>1. Begins("krealloc", p, size) /\ live' = live
      BY <2>1, <2>6 DEF krealloc
    <3>2. call' = [op |-> "krealloc", from |-> p, size |-> size, to |-> Null]
      BY <3>1 DEF Begins
    <3>3. p # Null /\ CapacityIn(mem, p) < size
      BY <2>1, <2>3, <2>4, <2>6, IdleBlocks
    <3>4. p \in Addresses
      <4>1. live[p] \in Nat \ {0} /\ live[p] <= CapacityIn(mem, p)
        BY <1>3, SlabAssumption DEF Inv, LargeEnough
      <4>2. QED  BY <2>1, <4>1, BlockFacts
    <3>5. Blocks' = Blocks
      BY <1>1, <3>1, <3>2 DEF Blocks, Idle
    <3>6. HeapOK(runs', bucketOf', mem', list', Blocks')
      BY <1>1, <2>1, <2>2, <3>5
    <3>7. Ranges'
      BY <2>2, <3>2, <3>4, HeadersInCell, InvRanges DEF Ranges
    <3>8. StartsOutside' /\ SizesFit' /\ StopsIffMisused'
      BY <1>1, <2>2 DEF Inv, StartsOutside, SizesFit, StopsIffMisused
    <3>9. LargeEnough'
      BY <2>2, <3>1, <3>2 DEF Inv, LargeEnough
    <3>10. CallOK'
      BY <1>1, <1>3, <2>2, <3>1, <3>2, <3>3, IdleBlocks DEF CallOK
    <3>11. QED  BY <3>6, <3>7, <3>8, <3>9, <3>10 DEF Inv
  <2>7. QED  BY <2>5, <2>6
<1>4. QED  BY <1>2, <1>3

LEMMA OwnerKeepsInv ==
  ASSUME Inv, NEW p \in DOMAIN live, NEW v \in Values, OwnerWrites(p, v)
  PROVE  Inv'
<1>1. /\ mem' = Written(mem, [a \in p..p + live[p] - 1 |-> Data(v)])
      /\ UNCHANGED <<runs, starts, list, call, live, bucketOf, misused, panicked>>
  BY DEF OwnerWrites, pages
<1>2. /\ mem \in [Addresses -> Cell]
      /\ HeapOK(runs, bucketOf, mem, list, Blocks)
  BY InvRanges DEF Inv
<1>3. /\ p \in Blocks /\ live[p] \in Nat \ {0} /\ live[p] <= CapacityIn(mem, p)
  BY SlabAssumption DEF Inv, LargeEnough, Blocks
<1>4. CapacityIn(mem, p) \in Int /\ p \in Nat
  BY <1>2, <1>3, BlockFacts, ConstantsOK
<1>5. mem' = [a \in Addresses |->
                IF a \in p..p + live[p] - 1 THEN Data(v) ELSE mem[a]]
  BY <1>1, <1>2 DEF Written
<1>6. mem' \in [Addresses -> Cell]
  BY <1>2, <1>5, HeadersInCell
<1>7. \A a \in Addresses : a \notin p..p + CapacityIn(mem, p) - 1 => mem'[a] = mem[a]
  <2>1. \A a \in p..p + live[p] - 1 : a \in p..p + CapacityIn(mem, p) - 1
    BY <1>3, <1>4
  <2>2. QED  BY <1>5, <2>1
<1>8. /\ HeapOK(runs, bucketOf, mem', list, Blocks)
      /\ \A q \in Blocks : mem'[q - HeaderSize] = mem[q - HeaderSize]
  BY <1>2, <1>3, <1>6, <1>7, BlockWritten
<1>9. \A q \in Blocks : CapacityIn(mem', q) = CapacityIn(mem, q)
  BY <1>8 DEF CapacityIn
<1>10. Blocks' = Blocks /\ DOMAIN live \subseteq Blocks
       /\ (call.to # Null => call.to \in Blocks)
  BY <1>1 DEF Blocks
<1>11. HeapOK(runs', bucketOf', mem', list', Blocks')
  BY <1>1, <1>8, <1>10
<1>12. Ranges' /\ StartsOutside' /\ SizesFit' /\ StopsIffMisused'
  BY <1>1 DEF Inv, Ranges, StartsOutside, SizesFit, StopsIffMisused
<1>13. LargeEnough' /\ CallOK'
  BY <1>1, <1>9, <1>10 DEF Inv, LargeEnough, CallOK
<1>14. QED  BY <1>11, <1>12, <1>13 DEF Inv

LEMMA StutterKeepsInv ==
  ASSUME Inv, UNCHANGED vars
  PROVE  Inv'
<1>1. UNCHANGED <<runs, starts, mem, list, call, live, bucketOf, misused, panicked>>
  BY DEF vars, pages
<1>2. Blocks' = Blocks
  BY <1>1 DEF Blocks
<1>3. HeapOK(runs', bucketOf', mem', list', Blocks')
  BY <1>1, <1>2, HeapKept
<1>4. Ranges' /\ StartsOutside' /\ LargeEnough' /\ CallOK' /\ StopsIffMisused'
      /\ SizesFit'
  BY <1>1 DEF Inv, Ranges, StartsOutside, LargeEnough, CallOK, StopsIffMisused,
              SizesFit, CapacityIn
<1>5. QED  BY <1>3, <1>4 DEF Inv

LEMMA NextKeepsInv == Inv /\ [Next]_vars => Inv'
<1> SUFFICES ASSUME Inv, [Next]_vars PROVE Inv'
  OBVIOUS
<1>1. ASSUME NEW op \in {"kmalloc", "kzalloc"}, NEW size \in Sizes, kmalloc(op, size)
      PROVE  Inv'
  BY <1>1, KmallocKeepsInv
<1>2. CASE bucket_grow
  BY <1>2, GrowKeepsInv
<1>3. CASE kmalloc_chunk
  BY <1>3, ChunkKeepsInv
<1>4. CASE kmalloc_raw
  BY <1>4, RawKeepsInv
<1>5. CASE kmalloc_returns
  BY <1>5, KmallocReturnsKeepsInv
<1>6. CASE kzalloc_returns
  BY <1>6, KzallocReturnsKeepsInv
<1>7. CASE krealloc_returns
  BY <1>7, KreallocReturnsKeepsInv
<1>8. ASSUME NEW p \in Returnable, kfree(p)
      PROVE  Inv'
  BY <1>8, KfreeKeepsInv
<1>9. ASSUME NEW p \in Returnable, NEW size \in Sizes, krealloc(p, size)
      PROVE  Inv'
  BY <1>9, KreallocKeepsInv
<1>10. ASSUME NEW p \in DOMAIN live, NEW v \in Values, OwnerWrites(p, v)
       PROVE  Inv'
  BY <1>10, OwnerKeepsInv
<1>11. CASE halt_catchfire
  BY <1>11, StutterKeepsInv DEF halt_catchfire
<1>12. CASE UNCHANGED vars
  BY <1>12, StutterKeepsInv
<1>13. QED
  BY <1>1, <1>2, <1>3, <1>4, <1>5, <1>6, <1>7, <1>8, <1>9, <1>10, <1>11, <1>12
     DEF Next

LEMMA Invariance == SizesFit => (Spec => []Inv)
<1>1. SizesFit /\ Init => Inv
  BY InitInv
<1>2. Inv /\ [Next]_vars => Inv'
  BY NextKeepsInv
<1>3. QED  BY <1>1, <1>2, PTL DEF Spec
-----------------------------------------------------------------------------
(* What the invariant says of the heap that the code's own lists and       *)
(* headers describe.                                                       *)

LEMMA FreeChunksFree ==
  ASSUME Inv, NEW b \in Buckets
  PROVE  FreeChunks(b) = FreeIn(bucketOf, Blocks, b)
<1>1. HeadersTrue(runs, bucketOf, mem, Blocks)
  BY DEF Inv, HeapOK
<1>2. ChunksOf(b) = ChunksIn(bucketOf, b)
  BY DEF ChunksOf, ChunksIn
<1>3. ASSUME NEW p \in ChunksIn(bucketOf, b)
      PROVE  Header(p).kind = "free" <=> p \notin Blocks
  <2>1. Header(p) = IF p \in Blocks THEN UsedHeader(b) ELSE FreeHeader
    BY <1>1 DEF HeadersTrue, Header
  <2>2. UsedHeader(b).kind = "used" /\ FreeHeader.kind = "free"
    BY DEF FreeHeader, UsedHeader
  <2>3. QED  BY <2>1, <2>2
<1>4. QED  BY <1>2, <1>3 DEF FreeChunks, FreeIn

LEMMA InvImpliesFreeListsExact == Inv => FreeListsExact
<1> SUFFICES ASSUME Inv PROVE FreeListsExact
  OBVIOUS
<1>1. ASSUME NEW b \in Buckets
      PROVE  /\ Closed(FreeChunks(b), b)
             /\ \A p, q \in FreeChunks(b) :
                  p # q /\ mem[p].val = mem[q].val => mem[p].val = Null
             /\ \A p \in FreeChunks(b) : mem[p].val = list[b] => mem[p].val = Null
             /\ \A S \in SUBSET FreeChunks(b) : Closed(S, b) => S = FreeChunks(b)
  <2> DEFINE F == FreeIn(bucketOf, Blocks, b)
             nx == Links(bucketOf, mem, Blocks, b)
  <2>1. Exact(F, list[b], nx)
    BY DEF Inv, HeapOK, ListsExact
  <2>2. \A p \in F : nx[p] = mem[p].val
    BY DEF Links
  <2>3. FreeChunks(b) = F
    BY FreeChunksFree
  <2> HIDE DEF F, nx
  <2>4. ASSUME NEW S \in SUBSET F
        PROVE  Closed(S, b) <=> ClosedIn(S, list[b], nx)
    BY <2>2 DEF Closed, ClosedIn
  <2>5. Closed(F, b)
    BY <2>1, <2>4 DEF Exact
  <2>6. QED  BY <2>1, <2>2, <2>3, <2>4, <2>5 DEF Exact
<1>2. QED  BY <1>1, InvImpliesTypeOK DEF FreeListsExact

LEMMA InvImpliesBlocksApart == Inv => BlocksApart
<1> SUFFICES ASSUME Inv PROVE BlocksApart
  OBVIOUS
<1>1. /\ RunsApart(runs, bucketOf)
      /\ HeapOK(runs, bucketOf, mem, list, Blocks)
  BY InvRanges DEF Inv
<1>2. \A p : hdr_capacity(p) = CapacityIn(mem, p)
  BY DEF hdr_capacity, CapacityIn, Header
<1>3. \A p \in Blocks : Place(runs, bucketOf, p, hdr_capacity(p))
  BY <1>1, <1>2, BlockPlace
<1>4. ASSUME NEW p \in Blocks, NEW q \in Blocks, p # q
      PROVE  Footprint(p, hdr_capacity(p)) \cap Footprint(q, hdr_capacity(q)) = {}
  BY <1>1, <1>3, <1>4, CellsApart DEF Footprint
<1>5. ASSUME NEW b \in Buckets, NEW p \in Blocks, NEW q \in FreeChunks(b)
      PROVE  Footprint(p, hdr_capacity(p)) \cap Footprint(q, BucketSizes[b]) = {}
  <2>1. q \in ChunksIn(bucketOf, b) /\ q # p
    BY FreeChunksFree DEF FreeIn
  <2>2. Place(runs, bucketOf, q, BucketSizes[b])
    BY <1>1, <2>1, ChunkPlace
  <2>3. QED  BY <1>1, <1>3, <2>1, <2>2, CellsApart DEF Footprint
<1>6. ASSUME NEW p \in DOMAIN live
      PROVE  hdr_capacity(p) >= live[p]
  <2>1. live[p] \in Nat /\ live[p] <= CapacityIn(mem, p) /\ p \in Blocks
    BY SlabAssumption DEF Inv, LargeEnough, Blocks
  <2>2. CapacityIn(mem, p) \in Int
    BY <1>1, <2>1, BlockFacts
  <2>3. QED  BY <1>2, <2>1, <2>2
<1>7. QED  BY <1>4, <1>5, <1>6 DEF BlocksApart

LEMMA InvImpliesPagesAccountedFor == Inv => PagesAccountedFor
<1> SUFFICES ASSUME Inv PROVE PagesAccountedFor
  OBVIOUS
<1>1. /\ RunsApart(runs, bucketOf)
      /\ HeadersTrue(runs, bucketOf, mem, Blocks)
      /\ bucketOf \in [Pages!Pages -> Buckets \cup {0}]
  BY InvRanges DEF Inv, HeapOK
<1>2. ASSUME NEW r \in runs
      PROVE  \/ r.pages = 1 /\ bucketOf[r.base] # 0
             \/ r.base * PageSize + HeaderSize \in Blocks
                /\ r = RunAt(r.base * PageSize + HeaderSize)
  <2>1. CASE bucketOf[r.base] = 0
    <3>1. r \in RawIn(runs, bucketOf)
      BY <2>1 DEF RawIn
    <3>2. RawPointer(r) \in Blocks /\ RunAt(RawPointer(r)) = r
      BY <1>1, <3>1, RunFound DEF HeadersTrue
    <3>3. QED  BY <3>2 DEF RawPointer
  <2>2. CASE bucketOf[r.base] # 0
    <3> DEFINE s == [base |-> r.base, pages |-> 1]
    <3>1. r.base \in Pages!Pages /\ r.base \in Nat /\ r.base \in Pages!PagesOf(r)
      BY <1>1, RunFacts
    <3>2. s \in runs /\ s.base = r.base
      BY <1>1, <2>2, <3>1 DEF RunsApart
    <3>3. r.base \in Pages!PagesOf(s)
      <4> HIDE DEF s
      <4>1. s.base \in Pages!PagesOf(s)
        <5>1. s.base \in Nat /\ s.pages \in Nat \ {0}
              /\ Pages!PagesOf(s) = s.base..s.base + s.pages - 1
          BY <1>1, <3>2, RunFacts, Zenon
        <5>2. PICK b \in Nat, n \in Nat \ {0} : s.base = b /\ s.pages = n
          BY <5>1
        <5>3. b \in b..b + n - 1
          OBVIOUS
        <5>4. QED  BY <5>1, <5>2, <5>3
      <4>2. QED  BY <3>2, <4>1
    <3>4. r = s
      BY <1>1, <3>1, <3>2, <3>3 DEF RunsApart
    <3>5. QED  BY <2>2, <3>4
  <2>3. QED  BY <2>1, <2>2
<1>3. ASSUME NEW b \in Buckets, NEW p \in ChunksOf(b)
      PROVE  IsMapped(p) /\ (p \in Blocks \/ p \in FreeChunks(b))
  <2>1. p \in ChunksIn(bucketOf, b)
    BY DEF ChunksOf, ChunksIn
  <2>2. /\ Place(runs, bucketOf, p, BucketSizes[b])
        /\ p \in p..p + BucketSizes[b] - 1
    BY <1>1, <2>1, ChunkPlace
  <2>3. p \in p - HeaderSize..p + BucketSizes[b] - 1
    BY <1>1, <2>2, CellsApart
  <2>4. IsMapped(p)
    BY <1>1, <2>2, <2>3, PlaceInRun DEF IsMapped, InRun
  <2>5. QED  BY <2>1, <2>4, FreeChunksFree DEF FreeIn
<1>4. QED  BY <1>2, <1>3 DEF PagesAccountedFor
-----------------------------------------------------------------------------
(* The variables of the allocator keep their types: every pointer that a   *)
(* caller holds is one that was returned, and every cell of the heap is    *)
(* data or a header.                                                       *)
THEOREM SlabTypeCorrect == SizesFit => (Spec => []TypeOK)
BY Invariance, InvImpliesTypeOK, PTL

(* The free list of every bucket visits each free chunk of it once and     *)
(* nothing else, whatever kmalloc, kfree, krealloc and the blocks' owners  *)
(* do: no chunk is lost, and none is handed out twice.                     *)
THEOREM SlabFreeListsExact == SizesFit => (Spec => []FreeListsExact)
BY Invariance, InvImpliesFreeListsExact, PTL

(* Blocks with their headers overlap neither each other nor a free chunk,  *)
(* and each is as large as it was asked to be.                             *)
THEOREM SlabBlocksApart == SizesFit => (Spec => []BlocksApart)
BY Invariance, InvImpliesBlocksApart, PTL

(* No page is lost: each that the VMM gave out is cut into chunks, all of  *)
(* them handed out or free, or belongs to a block that is handed out and   *)
(* whose header says how many pages to give back.                          *)
THEOREM SlabPagesAccountedFor == SizesFit => (Spec => []PagesAccountedFor)
BY Invariance, InvImpliesPagesAccountedFor, PTL

(* kfree and krealloc stop the kernel for every pointer that is not live,  *)
(* however long ago it was freed, and for no other.                        *)
THEOREM SlabStopsIffMisused == SizesFit => (Spec => []StopsIffMisused)
<1>1. Inv => StopsIffMisused
  BY DEF Inv
<1>2. QED  BY <1>1, Invariance, PTL
-----------------------------------------------------------------------------
(* The refinement: what live is at every step, and then block by block.    *)
LiveIsFunction == live = [q \in DOMAIN live |-> live[q]]

LEMMA LiveStaysFunction == Inv /\ LiveIsFunction /\ [Next]_vars => LiveIsFunction'
<1> SUFFICES ASSUME LiveIsFunction, [Next]_vars PROVE LiveIsFunction'
  OBVIOUS
<1>1. ASSUME live' = live PROVE LiveIsFunction'
  BY <1>1 DEF LiveIsFunction
<1>2. ASSUME NEW op \in {"kmalloc", "kzalloc"}, NEW size \in Sizes, kmalloc(op, size)
      PROVE  LiveIsFunction'
  BY <1>1, <1>2 DEF kmalloc
<1>3. CASE bucket_grow \/ kmalloc_chunk \/ kmalloc_raw
  BY <1>1, <1>3 DEF bucket_grow, kmalloc_chunk, kmalloc_raw
<1>4. CASE kmalloc_returns \/ kzalloc_returns \/ krealloc_returns
  <2>1. live' = Delivered
    BY <1>4 DEF kmalloc_returns, kzalloc_returns, krealloc_returns, Returns
  <2>2. QED  BY <2>1 DEF Delivered, LiveIsFunction
<1>5. ASSUME NEW p \in Returnable, kfree(p)
      PROVE  LiveIsFunction'
  BY <1>5 DEF kfree, Without, LiveIsFunction
<1>6. ASSUME NEW p \in Returnable, NEW size \in Sizes, krealloc(p, size)
      PROVE  LiveIsFunction'
  <2>1. CASE live' = live
    BY <1>1, <2>1
  <2>2. CASE live' = [q \in DOMAIN live \cup {p} |-> IF q = p THEN size ELSE live[q]]
    BY <2>2 DEF LiveIsFunction
  <2>3. QED  BY <1>6, <2>1, <2>2 DEF krealloc
<1>7. ASSUME NEW p \in DOMAIN live, NEW v \in Values, OwnerWrites(p, v)
      PROVE  LiveIsFunction'
  BY <1>1, <1>7 DEF OwnerWrites
<1>8. CASE halt_catchfire \/ UNCHANGED vars
  BY <1>1, <1>8 DEF halt_catchfire, vars
<1>9. QED
  BY <1>2, <1>3, <1>4, <1>5, <1>6, <1>7, <1>8 DEF Next
-----------------------------------------------------------------------------
(* The cells of block p, as far as its owner asked for them, are the same  *)
(* in m2 as in m.                                                          *)
Same(m2, m, p, n) == \A a \in p..p + n - 1 : m2[a] = m[a]

(* A step that leaves a block's size and cells alone leaves its content.   *)
LEMMA ContentKept ==
  ASSUME NEW S, S \subseteq DOMAIN live, S \subseteq DOMAIN live',
         \A q \in S : q \in Nat /\ live[q] \in Nat,
         \A q \in S : live'[q] = live[q] /\ Same(mem', mem, q, live[q])
  PROVE  Heap!Untouched(S)
<1>1. ASSUME NEW q \in S
      PROVE  live'[q] = live[q] /\ Contents'[q] = Contents[q]
  <2>1. Contents[q] = [i \in 0..live[q] - 1 |-> mem[q + i]]
    BY DEF Contents
  <2>2. Contents'[q] = [i \in 0..live'[q] - 1 |-> mem'[q + i]]
    BY DEF Contents
  <2>3. \A i \in 0..live[q] - 1 : mem'[q + i] = mem[q + i]
    BY DEF Same
  <2>4. QED  BY <2>1, <2>2, <2>3
<1>2. QED  BY <1>1 DEF Heap!Untouched

LEMMA ContentsSame ==
  ASSUME live' = live,
         \A q \in DOMAIN live : q \in Nat /\ live[q] \in Nat,
         \A q \in DOMAIN live : Same(mem', mem, q, live[q])
  PROVE  UNCHANGED Heap!blockVars
<1>1. ASSUME NEW q \in DOMAIN live
      PROVE  [i \in 0..live'[q] - 1 |-> mem'[q + i]]
               = [i \in 0..live[q] - 1 |-> mem[q + i]]
  BY DEF Same
<1>2. Contents' = Contents
  BY <1>1 DEF Contents
<1>3. QED  BY <1>2 DEF Heap!blockVars

LEMMA ApartAlways ==
  ASSUME Inv PROVE Heap!Apart
<1>1. ASSUME NEW p \in DOMAIN live, NEW q \in DOMAIN live, p # q
      PROVE  Heap!Extent(p) \cap Heap!Extent(q) = {}
  <2>1. /\ RunsApart(runs, bucketOf)
        /\ HeapOK(runs, bucketOf, mem, list, Blocks)
        /\ p \in Blocks /\ q \in Blocks
    BY InvRanges DEF Inv, Blocks
  <2>2. /\ Place(runs, bucketOf, p, CapacityIn(mem, p))
        /\ Place(runs, bucketOf, q, CapacityIn(mem, q))
    BY <2>1, BlockPlace
  <2>3. \/ p + CapacityIn(mem, p) <= q - HeaderSize
        \/ q + CapacityIn(mem, q) <= p - HeaderSize
    BY <1>1, <2>1, <2>2, PlacesApart
  <2>4. /\ CapacityIn(mem, p) \in Int /\ CapacityIn(mem, q) \in Int
        /\ p \in Nat /\ q \in Nat
    BY <2>1, <2>2, PlaceBounds
  <2>5. /\ live[p] \in Nat /\ live[p] <= CapacityIn(mem, p)
        /\ live[q] \in Nat /\ live[q] <= CapacityIn(mem, q)
    BY SlabAssumption DEF Inv, LargeEnough
  <2>6. p + live[p] <= q \/ q + live[q] <= p
    BY <2>3, <2>4, <2>5, Numbers
  <2>7. QED  BY <2>4, <2>5, <2>6 DEF Heap!Extent
<1>2. QED  BY <1>1 DEF Heap!Apart, Heap!Live
(* A live block lies in the capacity that its header tells. *)
LEMMA LiveCells ==
  ASSUME Inv, NEW q \in DOMAIN live
  PROVE  /\ q \in Blocks /\ q \in Nat /\ q # Null /\ live[q] \in Nat \ {0}
         /\ CapacityIn(mem, q) \in Int /\ live[q] <= CapacityIn(mem, q)
         /\ Place(runs, bucketOf, q, CapacityIn(mem, q))
         /\ q..q + live[q] - 1 \subseteq q..q + CapacityIn(mem, q) - 1
         /\ q..q + live[q] - 1 \subseteq Addresses
<1>1. /\ HeapOK(runs, bucketOf, mem, list, Blocks) /\ RunsApart(runs, bucketOf)
      /\ q \in Blocks
  BY InvRanges DEF Inv, Blocks
<1>2. live[q] \in Nat \ {0} /\ live[q] <= CapacityIn(mem, q)
  BY SlabAssumption DEF Inv, LargeEnough
<1>3. Place(runs, bucketOf, q, CapacityIn(mem, q))
  BY <1>1, BlockPlace
<1>4. /\ q \in Nat /\ CapacityIn(mem, q) \in Int /\ q # Null
      /\ \A a \in q..q + CapacityIn(mem, q) - 1 : a \in Addresses
  BY <1>1, <1>3, PlaceBounds
<1>5. q..q + live[q] - 1 \subseteq q..q + CapacityIn(mem, q) - 1
  BY <1>2, <1>4
<1>6. QED  BY <1>1, <1>2, <1>3, <1>4, <1>5

(* A step that leaves every live block's size and cells alone is none of   *)
(* the abstract heap.                                                      *)
LEMMA Stutters ==
  ASSUME Inv, live' = live,
         \A q \in DOMAIN live : Same(mem', mem, q, CapacityIn(mem, q))
  PROVE  UNCHANGED Heap!blockVars
<1>1. \A q \in DOMAIN live : q \in Nat /\ live[q] \in Nat
  BY LiveCells
<1>2. \A q \in DOMAIN live : Same(mem', mem, q, live[q])
  BY LiveCells DEF Same
<1>3. QED  BY <1>1, <1>2, ContentsSame

(* A fresh page is cut outside every block. *)
LEMMA GrowStutters ==
  ASSUME Inv, bucket_grow
  PROVE  UNCHANGED Heap!blockVars
<1>1. live' = live
  BY DEF bucket_grow
<1>2. CASE mem' = mem
  BY <1>1, <1>2, Stutters DEF Same
<1>3. ASSUME NEW page \in Pages!Pages,
             Pages!Alloc([base |-> page, pages |-> 1]),
             mem' = Threaded(page, Bucket)
      PROVE  UNCHANGED Heap!blockVars
  <2> DEFINE r == [base |-> page, pages |-> 1]
             b == Bucket
  <2>1. Fresh(r, runs)
    <3>1. 1 \in 1..HeapPages
      BY Numbers
    <3>2. r \in Pages!Run
      BY <3>1 DEF Pages!Run
    <3>3. QED  BY <1>3, <3>2 DEF Pages!Alloc, Pages!PagesOfAll, Fresh
  <2>2. page \in Pages!PagesOf(r)
    BY ConstantsOK DEF Pages!PagesOf
  <2>3. RunsApart(runs, bucketOf) /\ mem \in [Addresses -> Cell]
    BY InvRanges
  <2>4. PlacesOutside(runs, bucketOf, r)
    <3> HIDE DEF r
    <3>1. QED  BY <2>1, <2>3, FreshRun
  <2>5. b \in Buckets /\ list[b] = Null
    BY AllocatingFacts DEF bucket_grow
  <2>6. CutInto(mem', mem, page, b)
    <3> HIDE DEF b
    <3>1. QED  BY <1>3, <2>3, <2>5, ThreadedFacts DEF b
  <2>7. ASSUME NEW q \in DOMAIN live, NEW a \in q..q + CapacityIn(mem, q) - 1
        PROVE  mem'[a] = mem[a]
    <3>1. Place(runs, bucketOf, q, CapacityIn(mem, q))
      BY LiveCells
    <3>2. a \in q - HeaderSize..q + CapacityIn(mem, q) - 1
      BY <2>3, <3>1, CellsApart
    <3>3. a \in Addresses /\ a \div PageSize \notin Pages!PagesOf(r)
      BY <2>4, <3>1, <3>2 DEF PlacesOutside
    <3>4. QED  BY <2>2, <2>6, <3>3 DEF CutInto
  <2>8. QED  BY <1>1, <2>7, Stutters DEF Same
<1>4. QED  BY <1>2, <1>3 DEF bucket_grow, Stops

(* So is the header of a chunk that is handed out. *)
LEMMA ChunkStutters ==
  ASSUME Inv, kmalloc_chunk
  PROVE  UNCHANGED Heap!blockVars
<1> DEFINE b == Bucket
           p == list[b]
<1>1. live' = live /\ b \in Buckets /\ p # Null
  BY AllocatingFacts DEF kmalloc_chunk
<1>2. HeapOK(runs, bucketOf, mem, list, Blocks) /\ RunsApart(runs, bucketOf)
      /\ mem \in [Addresses -> Cell]
  BY InvRanges DEF Inv
<1>3. mem' = mem \/ mem' = [mem EXCEPT ![p - HeaderSize] = UsedHeader(b)]
  BY DEF kmalloc_chunk, Stops
<1> HIDE DEF b
<1>4. p \in FreeIn(bucketOf, Blocks, b)
  BY <1>1, <1>2, ChunkTaken
<1> HIDE DEF p
<1>5. p \in ChunksIn(bucketOf, b) /\ p \notin Blocks
  BY <1>4 DEF FreeIn
<1>6. ASSUME NEW q \in DOMAIN live, NEW a \in q..q + CapacityIn(mem, q) - 1
      PROVE  mem'[a] = mem[a]
  <2>1. Place(runs, bucketOf, q, CapacityIn(mem, q)) /\ q \in Blocks
    BY LiveCells
  <2>2. a # p - HeaderSize
    BY <1>1, <1>2, <1>5, <2>1, OthersCells
  <2>3. a \in Addresses
    BY <1>2, <2>1, PlaceBounds
  <2>4. QED  BY <1>2, <1>3, <2>2, <2>3
<1>7. QED  BY <1>1, <1>6, Stutters DEF Same

(* And the header of a run. *)
LEMMA RawStutters ==
  ASSUME Inv, kmalloc_raw
  PROVE  UNCHANGED Heap!blockVars
<1>1. live' = live
  BY DEF kmalloc_raw
<1>2. CASE mem' = mem
  BY <1>1, <1>2, Stutters DEF Same
<1>3. ASSUME NEW r \in Pages!Run, Pages!Alloc(r),
             mem' = [mem EXCEPT ![r.base * PageSize] = RawHeader(r.pages * PageSize)]
      PROVE  UNCHANGED Heap!blockVars
  <2>1. Fresh(r, runs)
    BY <1>3 DEF Pages!Alloc, Pages!PagesOfAll, Fresh
  <2>2. RunsApart(runs, bucketOf) /\ mem \in [Addresses -> Cell]
    BY InvRanges
  <2>3. PlacesOutside(runs, bucketOf, r) /\ RunsApart(runs \cup {r}, bucketOf)
    BY <2>1, <2>2, FreshRun
  <2>4. r.base \in Nat /\ r.base \in Pages!PagesOf(r)
    BY <2>3, RunFacts
  <2>5. (r.base * PageSize) \div PageSize = r.base
    BY <2>4, Numbers, DivTimes
  <2>6. ASSUME NEW q \in DOMAIN live, NEW a \in q..q + CapacityIn(mem, q) - 1
        PROVE  mem'[a] = mem[a]
    <3>1. Place(runs, bucketOf, q, CapacityIn(mem, q))
      BY LiveCells
    <3>2. a \in q - HeaderSize..q + CapacityIn(mem, q) - 1
      BY <2>2, <3>1, CellsApart
    <3>3. a \in Addresses /\ a \div PageSize \notin Pages!PagesOf(r)
      BY <2>3, <3>1, <3>2 DEF PlacesOutside
    <3>4. a # r.base * PageSize
      BY <2>4, <2>5, <3>3
    <3>5. QED  BY <1>3, <2>2, <3>3, <3>4
  <2>7. QED  BY <1>1, <2>6, Stutters DEF Same
<1>4. QED  BY <1>2, <1>3 DEF kmalloc_raw, Stops
LEMMA ApartAfter == Inv' => Heap!Apart'
<1>1. Inv => Heap!Apart
  BY ApartAlways
<1>2. QED  BY <1>1, PTL

(* Freeing a block writes into no other. *)
LEMMA FreedCells ==
  ASSUME Inv, NEW p \in Blocks, NEW m, HeapOK(runs, bucketOf, m, list, Blocks),
         m[p - HeaderSize] = mem[p - HeaderSize], Freed(m, p),
         NEW q \in Blocks, q # p
  PROVE  Same(mem', m, q, CapacityIn(m, q))
<1>1. /\ RunsApart(runs, bucketOf) /\ m \in [Addresses -> Cell]
      /\ Place(runs, bucketOf, q, CapacityIn(m, q))
  BY BlockPlace, InvRanges DEF HeapOK
<1>2. ChunkFreed(m, p) \/ RunFreed(m, p)
  BY BlockAccepted DEF Freed
<1>3. ASSUME NEW a \in q..q + CapacityIn(m, q) - 1
      PROVE  mem'[a] = m[a]
  <2>1. a \in Addresses
    BY <1>1, PlaceBounds
  <2>2. CASE ChunkFreed(m, p)
    <3> DEFINE b == m[p - HeaderSize].val
    <3>1. m[p - HeaderSize].kind = "used"
      BY <2>2 DEF ChunkFreed, Header
    <3>2. b \in Buckets /\ p \in ChunksIn(bucketOf, b)
      BY <3>1, BlockPlace
    <3>3. mem' = [m EXCEPT ![p - HeaderSize] = FreeHeader, ![p] = Data(list[b])]
      BY <2>2 DEF ChunkFreed, Header
    <3> HIDE DEF b
    <3>4. a \notin {p - HeaderSize, p}
      BY <1>1, <3>2, OthersCells
    <3>5. QED  BY <1>1, <2>1, <3>3, <3>4
  <2>3. CASE RunFreed(m, p)
    <3>1. mem[p - HeaderSize].kind = "raw"
      BY <2>3 DEF RunFreed, Header
    <3>2. PICK r \in RawIn(runs, bucketOf) : p = RawPointer(r)
      BY <3>1, BlockPlace
    <3>3. mem' = [x \in Addresses |-> IF InRun(x, r) THEN Data(Unknown) ELSE m[x]]
      BY <2>3, <3>2, RunFound DEF RunFreed
    <3>4. a \in q - HeaderSize..q + CapacityIn(m, q) - 1
      BY <1>1, CellsApart
    <3>5. PICK s \in runs : /\ Holds(bucketOf, s, q, CapacityIn(m, q))
                            /\ a \div PageSize \in Pages!PagesOf(s)
      BY <1>1, <3>4, PlaceInRun
    <3>6. r \in runs /\ bucketOf[r.base] = 0
      BY DEF RawIn
    <3>7. s # r
      <4>1. 0 \notin Buckets
        BY ConstantsOK
      <4>2. QED  BY <3>2, <3>5, <3>6, <4>1 DEF Holds
    <3>8. a \div PageSize \notin Pages!PagesOf(r)
      BY <1>1, <3>5, <3>6, <3>7 DEF RunsApart
    <3>9. QED  BY <2>1, <3>3, <3>8 DEF InRun
  <2>4. QED  BY <1>2, <2>2, <2>3
<1>4. QED  BY <1>3 DEF Same

(* What the owner of one block writes is in no other. *)
LEMMA WrittenCells ==
  ASSUME Inv, NEW p \in Blocks, NEW q \in Blocks, q # p,
         NEW a \in q..q + CapacityIn(mem, q) - 1
  PROVE  a \notin p..p + CapacityIn(mem, p) - 1 /\ a \in Addresses
<1>1. /\ RunsApart(runs, bucketOf)
      /\ HeapOK(runs, bucketOf, mem, list, Blocks)
  BY InvRanges DEF Inv
<1>2. /\ Place(runs, bucketOf, q, CapacityIn(mem, q))
      /\ Place(runs, bucketOf, p, CapacityIn(mem, p))
  BY <1>1, BlockPlace
<1>3. a \in q - HeaderSize..q + CapacityIn(mem, q) - 1
  BY <1>1, <1>2, CellsApart
<1>4. p..p + CapacityIn(mem, p) - 1
        \subseteq p - HeaderSize..p + CapacityIn(mem, p) - 1
  BY <1>1, <1>2, CellsApart
<1>5. QED  BY <1>1, <1>2, <1>3, <1>4, CellsApart, PlaceBounds
-----------------------------------------------------------------------------
(* Steps of the block heap. *)

(* A block is delivered and nothing else changes: Alloc. *)
LEMMA DeliveryIsAlloc ==
  ASSUME Inv, Inv', Returns, call.from = Null,
         \A q \in DOMAIN live : Same(mem', mem, q, live[q])
  PROVE  Heap!Alloc
<1>1. /\ call.to \in Blocks /\ Blocks = DOMAIN live \cup {call.to}
      /\ DOMAIN live' = Blocks \ {call.from}
      /\ \A q \in DOMAIN live \ {call.from} : live'[q] = live[q]
      /\ call.to # Null
  BY ReturnsFacts
<1>2. call.to \notin DOMAIN live
  BY DEF Inv, CallOK
<1>3. Null \notin DOMAIN live
  BY <1>1, IdleBlocks
<1>4. DOMAIN live' = DOMAIN live \cup {call.to}
  BY <1>1, <1>3
<1>5. Heap!Untouched(DOMAIN live)
  <2>1. \A q \in DOMAIN live : q \in Nat /\ live[q] \in Nat
    BY LiveCells
  <2>2. \A q \in DOMAIN live : live'[q] = live[q]
    BY <1>1, <1>3
  <2>3. QED  BY <1>4, <2>1, <2>2, ContentKept
<1>6. Heap!Apart'
  BY ApartAfter
<1>7. QED  BY <1>2, <1>4, <1>5, <1>6 DEF Heap!Alloc, Heap!Live

LEMMA KmallocReturnsImplements ==
  ASSUME Inv, Inv', kmalloc_returns
  PROVE  Heap!Alloc
<1>1. Returns /\ mem' = mem /\ call.op = "kmalloc"
  BY DEF kmalloc_returns
<1>2. call.from = Null
  BY <1>1 DEF Inv, CallOK
<1>3. QED  BY <1>1, <1>2, DeliveryIsAlloc DEF Same

LEMMA KzallocReturnsImplements ==
  ASSUME Inv, Inv', kzalloc_returns
  PROVE  Heap!Alloc
<1>1. Returns /\ mem' = Zeroed(call.to, call.size) /\ call.op = "kzalloc"
  BY DEF kzalloc_returns
<1>2. call.from = Null
  BY <1>1 DEF Inv, CallOK
<1>3. /\ call.to \in Blocks /\ call.to # Null /\ call.size \in Nat \ {0}
      /\ call.to \notin DOMAIN live
  BY <1>1, ReturnsFacts DEF Inv, CallOK
<1>4. /\ mem \in [Addresses -> Cell]
      /\ HeapOK(runs, bucketOf, mem, list, Blocks)
  BY InvRanges DEF Inv
<1>5. mem' = [a \in Addresses |->
                IF a \in call.to..call.to + call.size - 1 THEN Data(0) ELSE mem[a]]
  BY <1>1, <1>4 DEF Zeroed, Written
<1>6. \A a \in call.to..call.to + call.size - 1 :
        a \in call.to..call.to + CapacityIn(mem, call.to) - 1
  <2>1. call.size <= CapacityIn(mem, call.to)
    BY <1>3 DEF Inv, LargeEnough
  <2>2. CapacityIn(mem, call.to) \in Int /\ call.to \in Nat
    BY <1>3, <1>4, <2>1, BlockFacts, ConstantsOK
  <2>3. QED  BY <1>3, <2>1, <2>2
<1>7. ASSUME NEW q \in DOMAIN live, NEW a \in q..q + live[q] - 1
      PROVE  mem'[a] = mem[a]
  <2>1. q \in Blocks /\ q # call.to /\ a \in q..q + CapacityIn(mem, q) - 1
    BY <1>3, LiveCells
  <2>2. /\ a \notin call.to..call.to + CapacityIn(mem, call.to) - 1
        /\ a \in Addresses
    BY <1>3, <2>1, WrittenCells
  <2>3. QED  BY <1>5, <1>6, <2>2
<1>8. QED  BY <1>1, <1>2, <1>7, DeliveryIsAlloc DEF Same
(* krealloc copies what the old block held into the new one and frees the  *)
(* old one: Resize.                                                        *)
LEMMA KreallocReturnsImplements ==
  ASSUME Inv, Inv', krealloc_returns
  PROVE  Heap!Resize
<1> DEFINE to == call.to
           from == call.from
           n == hdr_capacity(from)
           m == Copied(to, from, n)
<1>1. Returns /\ call.op = "krealloc" /\ Freed(m, from)
  BY DEF krealloc_returns
<1>2. /\ to \in Blocks /\ to # from /\ call.size \in Nat \ {0} /\ to # Null
      /\ Blocks = DOMAIN live \cup {to} /\ to \notin DOMAIN live
      /\ DOMAIN live' = Blocks \ {from} /\ live'[to] = call.size
      /\ \A q \in DOMAIN live \ {from} : live'[q] = live[q]
  BY <1>1, ReturnsFacts DEF Inv, CallOK
<1>3. /\ from \in DOMAIN live /\ from \in Blocks
      /\ HeapOK(runs, bucketOf, m, list, Blocks)
      /\ \A q \in Blocks : m[q - HeaderSize] = mem[q - HeaderSize]
      /\ \A a \in to..to + n - 1 : m[a] = mem[a - to + from]
      /\ \A a \in Addresses :
           a \notin to..to + CapacityIn(mem, to) - 1 => m[a] = mem[a]
      /\ n = CapacityIn(mem, from)
  <2> HIDE DEF m, n
  <2>1. QED  BY <1>1, CopiedFacts DEF m, n
<1> HIDE DEF m, n
<1>4. \A q \in Blocks : CapacityIn(m, q) = CapacityIn(mem, q)
  BY <1>3 DEF CapacityIn
<1>5. \A q \in Blocks \ {from} : Same(mem', m, q, CapacityIn(mem, q))
  <2>1. m[from - HeaderSize] = mem[from - HeaderSize]
    BY <1>3
  <2> HIDE DEF from
  <2>2. ASSUME NEW q \in Blocks \ {from}
        PROVE  Same(mem', m, q, CapacityIn(m, q))
    BY <1>1, <1>3, <2>1, FreedCells
  <2>3. QED  BY <1>4, <2>2
<1> HIDE DEF from, to
<1>6. ASSUME NEW q \in DOMAIN live \ {from}, NEW a \in q..q + live[q] - 1
      PROVE  mem'[a] = mem[a]
  <2>1. q \in Blocks \ {from} /\ a \in q..q + CapacityIn(mem, q) - 1 /\ q # to
    BY <1>2, LiveCells
  <2>2. mem'[a] = m[a]
    BY <1>5, <2>1 DEF Same
  <2>3. a \notin to..to + CapacityIn(mem, to) - 1 /\ a \in Addresses
    BY <1>2, <2>1, WrittenCells
  <2>4. QED  BY <1>3, <2>2, <2>3
<1>7. Heap!Untouched(DOMAIN live \ {from})
  <2> DEFINE S == DOMAIN live \ {from}
  <2>1. S \subseteq DOMAIN live /\ S \subseteq DOMAIN live'
    BY <1>2
  <2>2. \A q \in S : q \in Nat /\ live[q] \in Nat
    BY LiveCells
  <2>3. \A q \in S : live'[q] = live[q] /\ Same(mem', mem, q, live[q])
    BY <1>2, <1>6 DEF Same
  <2> HIDE DEF S
  <2>4. Heap!Untouched(S)
    BY <2>1, <2>2, <2>3, ContentKept
  <2>5. QED  BY <2>4 DEF S
<1>8. ASSUME NEW i \in 0..live[from] - 1, i < live'[to]
      PROVE  Contents'[to][i] = Contents[from][i]
  <2>1. /\ live[from] \in Nat /\ live[from] <= n /\ n \in Int /\ from \in Nat
    BY <1>3, LiveCells
  <2>2. /\ to \in Nat /\ live'[to] = call.size /\ i \in Nat
        /\ CapacityIn(mem, to) \in Int /\ call.size <= CapacityIn(mem, to)
    <3>1. to \in Addresses
      BY InvRanges DEF to
    <3>2. call.size <= CapacityIn(mem, to)
      BY <1>2 DEF Inv, LargeEnough, to
    <3>3. CapacityIn(mem, to) \in Int
      BY <1>2, BlockFacts DEF Inv
    <3>4. QED  BY <1>2, <3>1, <3>2, <3>3, ConstantsOK
  <2>3. to + i \in to..to + CapacityIn(mem, to) - 1 /\ to + i \in to..to + n - 1
        /\ (to + i) - to + from = from + i
    BY <1>2, <1>8, <2>1, <2>2
  <2>4. mem'[to + i] = m[to + i]
    BY <1>2, <1>5, <2>3 DEF Same
  <2>5. m[to + i] = mem[from + i]
    BY <1>3, <2>3
  <2>6. Contents[from][i] = mem[from + i]
    BY <1>3 DEF Contents
  <2>7. Contents'[to][i] = mem'[to + i]
    <3>1. to \in DOMAIN live' /\ i \in 0..live'[to] - 1
      BY <1>2, <1>8, <2>2
    <3>2. QED  BY <3>1 DEF Contents
  <2>8. QED  BY <2>4, <2>5, <2>6, <2>7
<1>9. DOMAIN live' = (DOMAIN live \ {from}) \cup {to}
  BY <1>2
<1>10. Heap!Apart'
  BY ApartAfter
<1>11. to \in DOMAIN live' /\ to \notin DOMAIN live \ {from}
  BY <1>2
<1>12. QED
  BY <1>3, <1>7, <1>8, <1>9, <1>10, <1>11 DEF Heap!Resize, Heap!Live

(* kfree of a block is Free; of anything else it stops the kernel. *)
LEMMA KfreeImplements ==
  ASSUME Inv, LiveIsFunction, NEW p \in Returnable, kfree(p)
  PROVE  Heap!Free \/ UNCHANGED Heap!blockVars
<1>1. /\ Freed(mem, p) /\ live' = Without(p) /\ Blocks = DOMAIN live
  BY IdleBlocks DEF kfree, Calls
<1>2. CASE p \notin DOMAIN live
  <2>1. Refusal(p) # "no"
    BY <1>1, <1>2, StaleRefused
  <2>2. mem' = mem
    BY <1>1, <2>1 DEF Freed, Stops
  <2>3. live' = live
    BY <1>1, <1>2 DEF Without, LiveIsFunction
  <2>4. QED  BY <2>2, <2>3, Stutters DEF Same
<1>3. CASE p \in DOMAIN live
  <2>1. /\ DOMAIN live' = DOMAIN live \ {p}
        /\ \A q \in DOMAIN live' : live'[q] = live[q]
    BY <1>1 DEF Without
  <2>2. HeapOK(runs, bucketOf, mem, list, Blocks)
    BY DEF Inv
  <2>3. ASSUME NEW q \in DOMAIN live'
        PROVE  Same(mem', mem, q, live[q])
    <3>1. Same(mem', mem, q, CapacityIn(mem, q))
      BY <1>1, <1>3, <2>1, <2>2, FreedCells
    <3>2. QED  BY <2>1, <3>1, LiveCells DEF Same
  <2>4. Heap!Untouched(DOMAIN live')
    <3> DEFINE S == DOMAIN live'
    <3>1. S \subseteq DOMAIN live /\ S \subseteq DOMAIN live'
      BY <2>1
    <3>2. \A q \in S : q \in Nat /\ live[q] \in Nat
      BY <2>1, LiveCells
    <3>3. \A q \in S : live'[q] = live[q] /\ Same(mem', mem, q, live[q])
      BY <2>1, <2>3
    <3> HIDE DEF S
    <3>4. Heap!Untouched(S)
      BY <3>1, <3>2, <3>3, ContentKept
    <3>5. QED  BY <3>4 DEF S
  <2>5. QED  BY <1>3, <2>1, <2>4 DEF Heap!Free, Heap!Live
<1>4. QED  BY <1>2, <1>3

(* krealloc that keeps the block is Resize of it in its place. *)
LEMMA KreallocImplements ==
  ASSUME Inv, Inv', LiveIsFunction,
         NEW p \in Returnable, NEW size \in Sizes, krealloc(p, size)
  PROVE  Heap!Resize \/ UNCHANGED Heap!blockVars
<1>1. mem' = mem /\ Blocks = DOMAIN live
  BY IdleBlocks DEF krealloc, Calls, Stops
<1>2. CASE live' = live
  BY <1>1, <1>2, Stutters DEF Same
<1>3. CASE Refusal(p) = "no"
           /\ live' = [q \in DOMAIN live \cup {p} |-> IF q = p THEN size ELSE live[q]]
  <2>1. p \in DOMAIN live
    BY <1>1, <1>3, StaleRefused
  <2>2. /\ DOMAIN live' = DOMAIN live
        /\ \A q \in DOMAIN live \ {p} : live'[q] = live[q]
    BY <1>3, <2>1
  <2>3. Heap!Untouched(DOMAIN live \ {p})
    <3> DEFINE S == DOMAIN live \ {p}
    <3>1. S \subseteq DOMAIN live /\ S \subseteq DOMAIN live'
      BY <2>2
    <3>2. \A q \in S : q \in Nat /\ live[q] \in Nat
      BY LiveCells
    <3>3. \A q \in S : live'[q] = live[q] /\ Same(mem', mem, q, live[q])
      BY <1>1, <2>2 DEF Same
    <3> HIDE DEF S
    <3>4. Heap!Untouched(S)
      BY <3>1, <3>2, <3>3, ContentKept
    <3>5. QED  BY <3>4 DEF S
  <2>4. ASSUME NEW i \in 0..live[p] - 1, i < live'[p]
        PROVE  Contents'[p][i] = Contents[p][i]
    <3>1. Contents[p][i] = mem[p + i]
      BY <2>1 DEF Contents
    <3>2. live'[p] = size /\ size \in Nat
      BY <1>3, SlabAssumption
    <3>3. i \in 0..live'[p] - 1 /\ p \in DOMAIN live'
      <4>1. live[p] \in Nat
        BY <2>1, LiveCells
      <4>2. QED  BY <2>1, <2>2, <2>4, <3>2, <4>1
    <3>4. Contents'[p][i] = mem'[p + i]
      BY <3>3 DEF Contents
    <3>5. QED  BY <1>1, <3>1, <3>4
  <2>5. Heap!Apart'
    BY ApartAfter
  <2>6. DOMAIN live' = (DOMAIN live \ {p}) \cup {p}
    BY <2>1, <2>2
  <2>7. QED
    BY <2>1, <2>2, <2>3, <2>4, <2>5, <2>6 DEF Heap!Resize, Heap!Live
<1>4. QED  BY <1>2, <1>3 DEF krealloc

(* What an owner writes stays in its block: Write. *)
LEMMA OwnerImplements ==
  ASSUME Inv, NEW p \in DOMAIN live, NEW v \in Values, OwnerWrites(p, v)
  PROVE  Heap!Write
<1>1. /\ mem' = Written(mem, [a \in p..p + live[p] - 1 |-> Data(v)])
      /\ live' = live
  BY DEF OwnerWrites
<1>2. mem \in [Addresses -> Cell]
  BY InvRanges
<1>3. \A a \in Addresses : a \notin p..p + live[p] - 1 => mem'[a] = mem[a]
  BY <1>1, <1>2 DEF Written
<1>4. p..p + live[p] - 1 \subseteq p..p + CapacityIn(mem, p) - 1 /\ p \in Blocks
  BY LiveCells
<1>5. ASSUME NEW q \in DOMAIN live \ {p}, NEW a \in q..q + live[q] - 1
      PROVE  mem'[a] = mem[a]
  <2>1. q \in Blocks /\ a \in q..q + CapacityIn(mem, q) - 1
    BY LiveCells
  <2>2. a \notin p..p + CapacityIn(mem, p) - 1 /\ a \in Addresses
    BY <1>4, <1>5, <2>1, WrittenCells
  <2>3. QED  BY <1>3, <1>4, <2>2
<1>6. Heap!Untouched(DOMAIN live \ {p})
  <2> DEFINE S == DOMAIN live \ {p}
  <2>1. S \subseteq DOMAIN live /\ S \subseteq DOMAIN live'
    BY <1>1
  <2>2. \A q \in S : q \in Nat /\ live[q] \in Nat
    BY LiveCells
  <2>3. \A q \in S : live'[q] = live[q] /\ Same(mem', mem, q, live[q])
    BY <1>1, <1>5 DEF Same
  <2> HIDE DEF S
  <2>4. Heap!Untouched(S)
    BY <2>1, <2>2, <2>3, ContentKept
  <2>5. QED  BY <2>4 DEF S
<1>7. QED  BY <1>1, <1>6 DEF Heap!Write, Heap!Live
-----------------------------------------------------------------------------
LEMMA HeapInit == Init => Heap!Init /\ LiveIsFunction
<1> SUFFICES ASSUME Init PROVE Heap!Init /\ LiveIsFunction
  OBVIOUS
<1>1. DOMAIN live = {} /\ LiveIsFunction
  BY DEF Init, LiveIsFunction
<1>2. DOMAIN Contents = {}
  BY <1>1 DEF Contents
<1>3. QED  BY <1>1, <1>2 DEF Heap!Init, Heap!Live

LEMMA HeapNext ==
  ASSUME Inv, Inv', LiveIsFunction, [Next]_vars
  PROVE  [Heap!Next]_(Heap!blockVars)
<1>1. ASSUME NEW op \in {"kmalloc", "kzalloc"}, NEW size \in Sizes, kmalloc(op, size)
      PROVE  UNCHANGED Heap!blockVars
  BY <1>1, Stutters DEF kmalloc, Same
<1>2. CASE bucket_grow
  BY <1>2, GrowStutters
<1>3. CASE kmalloc_chunk
  BY <1>3, ChunkStutters
<1>4. CASE kmalloc_raw
  BY <1>4, RawStutters
<1>5. CASE kmalloc_returns
  BY <1>5, KmallocReturnsImplements DEF Heap!Next
<1>6. CASE kzalloc_returns
  BY <1>6, KzallocReturnsImplements DEF Heap!Next
<1>7. CASE krealloc_returns
  BY <1>7, KreallocReturnsImplements DEF Heap!Next
<1>8. ASSUME NEW p \in Returnable, kfree(p)
      PROVE  [Heap!Next]_(Heap!blockVars)
  BY <1>8, KfreeImplements DEF Heap!Next
<1>9. ASSUME NEW p \in Returnable, NEW size \in Sizes, krealloc(p, size)
      PROVE  [Heap!Next]_(Heap!blockVars)
  BY <1>9, KreallocImplements DEF Heap!Next
<1>10. ASSUME NEW p \in DOMAIN live, NEW v \in Values, OwnerWrites(p, v)
       PROVE  [Heap!Next]_(Heap!blockVars)
  BY <1>10, OwnerImplements DEF Heap!Next
<1>11. CASE halt_catchfire \/ UNCHANGED vars
  BY <1>11, Stutters DEF halt_catchfire, vars, Same
<1>12. QED
  BY <1>1, <1>2, <1>3, <1>4, <1>5, <1>6, <1>7, <1>8, <1>9, <1>10, <1>11 DEF Next

(* kmalloc, kzalloc, krealloc and kfree implement the heap of blocks: what *)
(* an owner wrote is there until it writes again or gives the block back,  *)
(* and is still there when krealloc has moved the block.                   *)
THEOREM SlabImplementsBlockHeap == SizesFit => (Spec => ImplementsBlockHeap)
<1>1. Inv /\ Inv' /\ LiveIsFunction /\ [Next]_vars => [Heap!Next]_(Heap!blockVars)
  BY HeapNext
<1>2. QED
  BY <1>1, HeapInit, LiveStaysFunction, Invariance, PTL
     DEF Spec, ImplementsBlockHeap, Heap!Spec
=============================================================================

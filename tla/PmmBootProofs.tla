--------------------------- MODULE PmmBootProofs ---------------------------
(***************************************************************************)
(* Proofs about PmmBoot: for every memory map whose claimable regions end  *)
(* below the largest int, the bitmap covers them, is put where nothing     *)
(* else is, and each claim cuts its regions into all their whole pages.    *)
(***************************************************************************)
EXTENDS PmmBoot, FunctionTheorems, FiniteSetTheorems, WellFoundedInduction, TLAPS

Half == IntValues \div 2

(* What div_ceil and div_floor can be given without leaving an int: the    *)
(* memory that pmm.c supports.                                             *)
BelowInt ==
  \A m \in MemMaps : \A i \in DOMAIN m :
    m[i].kind \in Claimable =>
      /\ m[i].base + m[i].length + PageSize <= Half
      /\ m[i].base + m[i].length + ByteBits <= Half

(* The same quotients, rounded up, in numbers without a width. *)
Ceil(a, b) == (a + b - 1) \div b
FramesOf(m) == Ceil(highest(m), PageSize)
BytesOf(m) == Ceil(FramesOf(m), ByteBits)
NeededOf(m) == Ceil(BytesOf(m), PageSize) * PageSize

Whole(e) == e.length \div PageSize

(* All whole pages of the regions of the types in K. *)
PagesOf(K) ==
  UNION {Cut(memmap[i]) : i \in {j \in DOMAIN memmap : memmap[j].kind \in K}}

Ordered(m) ==
  \A i, j \in DOMAIN m : i < j => m[i].base + m[i].length <= m[j].base

(* Until bitmap_init has succeeded nothing is claimed, and if it has not,  *)
(* no usable region had room.                                              *)
BeforeBitmap ==
  /\ memmap \in MemMaps
  /\ bitmapFrames \in 0..SizeValues - 1 /\ bitmapBytes = 0
  /\ pages = {} /\ claimed = {}
  /\ failed \in {"no", "no usable region large enough"}
  /\ failed # "no" =>
       \A i \in DOMAIN memmap : ~Fits(memmap[i], NeededOf(memmap))

(* Afterwards there is a bit for every page, a cleared byte for every bit, *)
(* no region holds a byte of the bitmap, and the list holds the whole      *)
(* pages of what has been claimed.                                         *)
BitmapCovers ==
  /\ bitmapFrames \in 0..SizeValues - 1
  /\ bitmapFrames <= bitmapBytes * ByteBits
  /\ \A i \in DOMAIN memmap : memmap[i].kind \in Claimable =>
       /\ memmap[i].base + memmap[i].length < Half
       /\ memmap[i].base + memmap[i].length <= bitmapFrames * PageSize

BitmapApart ==
  \A i \in DOMAIN memmap :
    \/ memmap[i].base + memmap[i].length <= bitmapAt
    \/ bitmapAt + bitmapBytes <= memmap[i].base

AfterBitmap ==
  /\ memmap \in Seq(Entry) /\ Ordered(memmap)
  /\ bitmapAt \in Nat /\ bitmapBytes \in Nat
  /\ BitmapCovers /\ BitmapApart
  /\ claimed \subseteq Claimable
  /\ pages = PagesOf(claimed)
  /\ failed = "no"

(* The inductive invariant. *)
Inv == IF bitmapAt = 0 THEN BeforeBitmap ELSE AfterBitmap
-----------------------------------------------------------------------------
(* Numbers. *)

LEMMA Sizes ==
  /\ PageSize \in Nat \ {0} /\ ByteBits \in Nat \ {0}
  /\ Half \in Nat \ {0} /\ PageSize < Half /\ ByteBits < Half
  /\ IntValues \in Nat /\ SizeValues \in Nat /\ 2 * Half <= IntValues
  /\ IntValues < SizeValues
<1>1. IntValues \in Nat \ {0} /\ SizeValues \in Nat /\ IntValues < SizeValues
      /\ PageSize \in 1..Half - 1 /\ ByteBits \in 1..Half - 1
  BY WidthsAssumption DEF Half
<1>2. Half \in Nat /\ 2 * Half <= IntValues
  BY <1>1 DEF Half
<1>3. QED  BY <1>1, <1>2

LEMMA Least ==
  ASSUME NEW S \in SUBSET Nat, S # {}
  PROVE  \E x \in S : \A y \in S : x <= y
<1>1. PICK x \in S : \A y \in S : ~(<<y, x>> \in OpToRel(<, Nat))
  BY WFMin, NatLessThanWellFounded
<1>2. \A y \in S : ~(y < x)
  BY <1>1 DEF OpToRel
<1>3. QED  BY <1>2

(* A set of numbers with a bound has a largest one: its least bound. *)
LEMMA Greatest ==
  ASSUME NEW S \in SUBSET Nat, S # {}, NEW n \in Nat, \A s \in S : s <= n
  PROVE  \E x \in S : \A y \in S : x >= y
<1> DEFINE B == {u \in Nat : \A s \in S : s <= u}
<1>1. PICK u \in B : \A v \in B : u <= v
  <2>1. B \in SUBSET Nat /\ n \in B
    OBVIOUS
  <2> HIDE DEF B
  <2>2. QED  BY <2>1, Least
<1>2. u \in S
  <2>1. SUFFICES ASSUME u \notin S PROVE FALSE
    OBVIOUS
  <2>2. PICK s \in S : TRUE
    OBVIOUS
  <2>3. s \in Nat /\ s <= u /\ s # u /\ u \in Nat
    BY <2>1, <1>1
  <2>4. u - 1 \in Nat /\ \A t \in S : t <= u - 1
    <3>1. \A t \in S : t \in Nat /\ t <= u /\ t # u
      BY <2>1, <1>1
    <3>2. QED  BY <2>3, <3>1
  <2>5. u - 1 \in B
    BY <2>4
  <2>6. u <= u - 1
    BY <2>5, <1>1
  <2>7. QED  BY <2>6, <2>3
<1>3. QED  BY <1>1, <1>2

LEMMA QuotientBounds ==
  ASSUME NEW a \in Nat, NEW k \in Nat \ {0}
  PROVE  /\ a \div k \in Nat
         /\ a = (a \div k) * k + (a % k) /\ a % k \in 0..k - 1
  OBVIOUS

LEMMA RoundedDown ==
  ASSUME NEW a \in Nat, NEW k \in Nat \ {0}
  PROVE  a \div k \in Nat /\ (a \div k) * k <= a
<1> DEFINE q == a \div k
           r == a % k
<1>1. q \in Nat /\ a = q * k + r /\ r \in 0..k - 1
  BY QuotientBounds
<1> HIDE DEF q, r
<1>2. q * k \in Nat
  BY <1>1
<1>3. q * k <= a
  BY <1>1, <1>2
<1>4. QED  BY <1>1, <1>3 DEF q

LEMMA Monotone ==
  ASSUME NEW i \in Nat, NEW j \in Nat, NEW k \in Nat, i <= j
  PROVE  i * k <= j * k /\ i * k \in Nat /\ j * k \in Nat
  OBVIOUS

(* A product that is larger has the larger factor. *)
LEMMA Factor ==
  ASSUME NEW i \in Nat, NEW j \in Nat, NEW k \in Nat, i * k < j * k
  PROVE  i < j
<1>1. SUFFICES ASSUME j <= i PROVE FALSE
  OBVIOUS
<1>2. j * k <= i * k /\ j * k \in Nat /\ i * k \in Nat
  BY <1>1, Monotone
<1>3. QED  BY <1>2

LEMMA NextMultiple ==
  ASSUME NEW i \in Nat, NEW k \in Nat
  PROVE  (i + 1) * k = i * k + k /\ i * k \in Nat
  OBVIOUS

(* A quotient rounded up is the least that covers. *)
LEMMA CeilFacts ==
  ASSUME NEW a \in Nat, NEW b \in Nat \ {0}
  PROVE  /\ Ceil(a, b) \in Nat
         /\ a <= Ceil(a, b) * b /\ Ceil(a, b) * b < a + b
         /\ Ceil(a, b) * b \in Nat
         /\ Ceil(a, b) <= a
<1> DEFINE s == a + b - 1
           q == s \div b
           r == s % b
<1>1. s \in Nat
  OBVIOUS
<1> HIDE DEF s
<1>2. q \in Nat /\ s = q * b + r /\ r \in 0..b - 1
  BY <1>1, QuotientBounds
<1> HIDE DEF q, r
<1>3. q * b \in Nat
  BY <1>2, NextMultiple
<1>4. a <= q * b /\ q * b < a + b
  BY <1>2, <1>3 DEF s
<1>5. q <= a
  <2>1. (a + 1) * b = a * b + b /\ a * b \in Nat /\ a <= a * b
    <3>1. (a + 1) * b = a * b + b /\ a * b \in Nat
      BY NextMultiple
    <3>2. b - 1 \in Nat /\ a * b = a * (b - 1) + a /\ a * (b - 1) \in Nat
      OBVIOUS
    <3>3. QED  BY <3>1, <3>2
  <2>2. q * b < (a + 1) * b
    BY <2>1, <1>3, <1>4
  <2>3. q < a + 1
    BY <2>2, <1>2, Factor
  <2>4. QED  BY <2>3, <1>2
<1>6. q = Ceil(a, b)
  BY DEF q, s, Ceil
<1>7. QED  BY <1>2, <1>3, <1>4, <1>5, <1>6
-----------------------------------------------------------------------------
(* Conversions that lose nothing. *)

LEMMA SmallInt ==
  ASSUME NEW n \in 0..Half - 1
  PROVE  ToInt(n) = n
<1>1. n % IntValues = n
  BY Sizes
<1>2. QED  BY <1>1, Sizes DEF ToInt, Half

LEMMA SmallSize ==
  ASSUME NEW n \in 0..IntValues
  PROVE  ToSize(n) = n
  BY Sizes DEF ToSize

LEMMA SmallCeil ==
  ASSUME NEW a \in Nat, NEW b \in Nat \ {0}, a + b <= Half
  PROVE  div_ceil(a, b) = {Ceil(a, b)}
<1>1. a \in 0..Half - 1 /\ a + b - 1 \in 0..Half - 1 /\ a + b - 1 >= 0
  BY Sizes
<1>2. ToInt(a) = a /\ ToInt(a + b - 1) = a + b - 1
  BY <1>1, SmallInt
<1>3. Quotient(a + b - 1, b) = Ceil(a, b)
  BY <1>1 DEF Quotient, Ceil
<1>4. div_ceil(a, b) = {Quotient(s, b) : s \in {a + b - 1}}
  BY <1>2 DEF div_ceil
<1>5. QED  BY <1>3, <1>4

LEMMA SmallFloor ==
  ASSUME NEW e \in Entry, e.length < Half
  PROVE  pages_possible(e) = Whole(e) /\ Whole(e) \in Nat
         /\ Whole(e) * PageSize <= e.length /\ e.length < Whole(e) * PageSize + PageSize
<1>1. e.length \in 0..Half - 1 /\ e.length \in Nat /\ e.length >= 0
  BY Sizes DEF Entry
<1>2. ToInt(e.length) = e.length
  BY <1>1, SmallInt
<1>3. Whole(e) \in Nat /\ e.length = Whole(e) * PageSize + (e.length % PageSize)
      /\ e.length % PageSize \in 0..PageSize - 1
  BY <1>1, Sizes, QuotientBounds DEF Whole
<1>4. Whole(e) * PageSize \in Nat /\ Whole(e) <= Whole(e) * PageSize
  <2>1. \A q, k \in Nat : k # 0 => q * k \in Nat /\ q <= q * k
    <3>1. SUFFICES ASSUME NEW q \in Nat, NEW k \in Nat \ {0} PROVE q * k \in Nat /\ q <= q * k
      OBVIOUS
    <3>2. k - 1 \in Nat /\ q * k = q * (k - 1) + q /\ q * (k - 1) \in Nat
      OBVIOUS
    <3>3. QED  BY <3>2
  <2>2. QED  BY <2>1, <1>3, Sizes
<1>5. Whole(e) \in 0..IntValues
  BY <1>1, <1>3, <1>4, Sizes
<1>6. pages_possible(e) = Whole(e)
  BY <1>1, <1>2, <1>5, SmallSize DEF pages_possible, Quotient, Whole
<1>7. QED  BY <1>3, <1>4, <1>6, <1>1, Sizes
-----------------------------------------------------------------------------
(* The sizing of the bitmap. *)

LEMMA MapFacts ==
  ASSUME NEW m \in MemMaps
  PROVE  /\ m \in Seq(Entry) /\ Ordered(m) /\ DOMAIN m \in SUBSET Nat
         /\ \A i \in DOMAIN m :
              /\ m[i] \in Entry /\ m[i].base \in Nat /\ m[i].length \in Nat
              /\ m[i].kind \in Claimable \cup {"reserved"}
              /\ m[i].kind = "usable" => m[i].base # 0
<1>1. m \in Seq(Entry) /\ Ordered(m)
      /\ \A i \in DOMAIN m : m[i].kind = "usable" => m[i].base # 0
  BY MemMapsAssumption DEF Ordered
<1>2. DOMAIN m \in SUBSET Nat /\ \A i \in DOMAIN m : m[i] \in Entry
  BY <1>1
<1>3. \A e \in Entry : e.base \in Nat /\ e.length \in Nat /\ e.kind \in Claimable \cup {"reserved"}
  BY DEF Entry
<1>4. QED  BY <1>1, <1>2, <1>3

LEMMA HighestFacts ==
  ASSUME BelowInt, NEW m \in MemMaps
  PROVE  /\ highest(m) \in Nat
         /\ highest(m) + PageSize <= Half /\ highest(m) + ByteBits <= Half
         /\ \A i \in DOMAIN m : m[i].kind \in Claimable => m[i].base + m[i].length <= highest(m)
<1> DEFINE ends == {m[i].base + m[i].length : i \in {j \in DOMAIN m : m[j].kind \in Relevant}}
           S == ends \cup {0}
<1>1. \A i \in DOMAIN m : m[i].base \in Nat /\ m[i].length \in Nat
  BY MapFacts
<1>2. \A s \in S : s \in Nat /\ s + PageSize <= Half /\ s + ByteBits <= Half
  <2>1. \A s \in ends : s \in Nat /\ s + PageSize <= Half /\ s + ByteBits <= Half
    BY <1>1 DEF BelowInt, Relevant, Claimable
  <2>2. 0 + PageSize <= Half /\ 0 + ByteBits <= Half
    BY Sizes
  <2>3. QED  BY <2>1, <2>2
<1>3. S \in SUBSET Nat /\ S # {} /\ \A s \in S : s <= Half
  <2>1. 0 \in S
    OBVIOUS
  <2> HIDE DEF S
  <2>2. QED  BY <2>1, <1>2, Sizes
<1>4. highest(m) = Max(S)
  BY DEF highest
<1>5. \A i \in DOMAIN m : m[i].kind \in Claimable => m[i].base + m[i].length \in S
  BY DEF Relevant, Claimable
<1> HIDE DEF S
<1>6. \E x \in S : \A y \in S : x >= y
  BY <1>3, Sizes, Greatest
<1>7. Max(S) \in S /\ \A y \in S : Max(S) >= y
  BY <1>6 DEF Max
<1>8. QED
  <2>1. highest(m) \in Nat /\ highest(m) + PageSize <= Half /\ highest(m) + ByteBits <= Half
    BY <1>2, <1>4, <1>7
  <2>2. ASSUME NEW i \in DOMAIN m, m[i].kind \in Claimable
        PROVE  m[i].base + m[i].length <= highest(m)
    <3>1. m[i].base + m[i].length \in S /\ m[i].base + m[i].length \in Nat
      BY <1>1, <1>5, <2>2
    <3>2. QED  BY <3>1, <1>4, <1>7, <2>1
  <2>3. QED  BY <2>1, <2>2

(* How many frames, bytes and whole pages the bitmap of a map has; nothing *)
(* of it leaves an int.                                                    *)
LEMMA BitmapSizes ==
  ASSUME BelowInt, NEW m \in MemMaps
  PROVE  /\ FramesOf(m) \in Nat /\ BytesOf(m) \in Nat /\ NeededOf(m) \in Nat
         /\ highest(m) <= FramesOf(m) * PageSize
         /\ FramesOf(m) <= BytesOf(m) * ByteBits
         /\ BytesOf(m) <= NeededOf(m)
         /\ FramesOf(m) + ByteBits <= Half /\ BytesOf(m) + PageSize <= Half
         /\ NeededOf(m) <= Half
<1>1. highest(m) \in Nat /\ highest(m) + PageSize <= Half /\ highest(m) + ByteBits <= Half
  BY HighestFacts
<1>2. PageSize \in Nat \ {0} /\ ByteBits \in Nat \ {0} /\ Half \in Nat
  BY Sizes
<1>3. /\ FramesOf(m) \in Nat /\ highest(m) <= FramesOf(m) * PageSize
      /\ FramesOf(m) <= highest(m)
  BY <1>1, <1>2, CeilFacts DEF FramesOf
<1>4. /\ BytesOf(m) \in Nat /\ FramesOf(m) <= BytesOf(m) * ByteBits
      /\ BytesOf(m) <= FramesOf(m)
  BY <1>2, <1>3, CeilFacts DEF BytesOf
<1>5. /\ NeededOf(m) \in Nat /\ BytesOf(m) <= NeededOf(m)
      /\ NeededOf(m) < BytesOf(m) + PageSize
  BY <1>2, <1>4, CeilFacts DEF NeededOf
<1>6. QED  BY <1>1, <1>2, <1>3, <1>4, <1>5

(* What bitmap_init does if it loses nothing. *)
BitmapPlaced(at) ==
  /\ at \in DOMAIN memmap /\ Fits(memmap[at], NeededOf(memmap))
  /\ bitmapAt' = memmap[at].base
  /\ bitmapBytes' = BytesOf(memmap)
  /\ memmap' = [i \in DOMAIN memmap |-> InEntry(i, at, NeededOf(memmap))]
  /\ failed' = failed

NoRoom ==
  /\ \A i \in DOMAIN memmap : ~Fits(memmap[i], NeededOf(memmap))
  /\ failed' = "no usable region large enough"
  /\ UNCHANGED <<memmap, bitmapAt, bitmapBytes>>

LEMMA bitmap_initExact ==
  ASSUME BelowInt, memmap \in MemMaps, bitmap_init
  PROVE  /\ bitmapFrames' = FramesOf(memmap)
         /\ UNCHANGED <<pages, claimed>>
         /\ NoRoom \/ \E at \in DOMAIN memmap : BitmapPlaced(at)
<1> DEFINE frames == FramesOf(memmap)
           bytes == BytesOf(memmap)
           needed == NeededOf(memmap)
<1>1. /\ highest(memmap) \in Nat /\ highest(memmap) + PageSize <= Half
      /\ frames \in Nat /\ bytes \in Nat /\ needed \in Nat
      /\ frames + ByteBits <= Half /\ bytes + PageSize <= Half /\ needed <= Half
  BY HighestFacts, BitmapSizes
<1>2. PageSize \in Nat \ {0} /\ ByteBits \in Nat \ {0} /\ Half \in Nat /\ 2 * Half <= IntValues
      /\ IntValues \in Nat
  BY Sizes
<1>3. div_ceil(highest(memmap), PageSize) = {frames}
  BY <1>1, <1>2, SmallCeil DEF FramesOf
<1>4. ToSize(frames) = frames
  <2>1. frames \in 0..IntValues
    BY <1>1, <1>2
  <2>2. QED  BY <2>1, SmallSize
<1>5. div_ceil(frames, ByteBits) = {bytes}
  <2> HIDE DEF frames
  <2>1. div_ceil(frames, ByteBits) = {Ceil(frames, ByteBits)}
    BY <1>1, <1>2, SmallCeil
  <2>2. QED  BY <2>1 DEF frames, BytesOf
<1>6. ToSize(bytes) = bytes
  <2>1. bytes \in 0..IntValues
    BY <1>1, <1>2
  <2>2. QED  BY <2>1, SmallSize
<1>7. /\ bitmapFrames' = frames
      /\ bitmap_bootstrap(bytes)
      /\ UNCHANGED <<pages, claimed>>
  BY <1>3, <1>4, <1>5, <1>6 DEF bitmap_init
<1>8. div_ceil(bytes, PageSize) = {Ceil(bytes, PageSize)}
  <2> HIDE DEF bytes
  <2>1. QED  BY <1>1, <1>2, SmallCeil
<1>9. ToSize(Ceil(bytes, PageSize) * PageSize) = needed
  <2>1. needed \in 0..IntValues
    BY <1>1, <1>2
  <2>2. ToSize(needed) = needed
    BY <2>1, SmallSize
  <2>3. QED  BY <2>2 DEF NeededOf
<1> DEFINE fitting == {i \in DOMAIN memmap : Fits(memmap[i], needed)}
<1>10. IF fitting = {}
       THEN /\ failed' = "no usable region large enough"
            /\ UNCHANGED <<memmap, bitmapAt, bitmapBytes>>
       ELSE /\ bitmapAt' = memmap[Min(fitting)].base
            /\ bitmapBytes' = bytes
            /\ memmap' = [i \in DOMAIN memmap |-> InEntry(i, Min(fitting), needed)]
            /\ UNCHANGED failed
  BY <1>7, <1>8, <1>9 DEF bitmap_bootstrap
<1>11. CASE fitting = {}
  BY <1>7, <1>10, <1>11 DEF NoRoom
<1>12. CASE fitting # {}
  <2>1. fitting \in SUBSET Nat
    BY MapFacts
  <2>2. \E x \in fitting : \A y \in fitting : x <= y
    <3> HIDE DEF fitting
    <3>1. QED  BY <2>1, <1>12, Least
  <2>3. Min(fitting) \in fitting
    <3> HIDE DEF fitting
    <3>1. QED  BY <2>2 DEF Min
  <2>4. BitmapPlaced(Min(fitting)) /\ Min(fitting) \in DOMAIN memmap
    <3>1. Min(fitting) \in DOMAIN memmap /\ Fits(memmap[Min(fitting)], needed)
      BY <2>3
    <3>2. QED  BY <3>1, <1>10, <1>12 DEF BitmapPlaced
  <2>5. QED  BY <2>4, <1>7
<1>13. QED  BY <1>11, <1>12

(* The region that loses its front keeps its end, so the order stays, and  *)
(* what it lost lies apart from all regions.                               *)
LEMMA PlacedFacts ==
  ASSUME BelowInt, memmap \in MemMaps, NEW at \in DOMAIN memmap, BitmapPlaced(at)
  PROVE  /\ memmap' \in Seq(Entry) /\ DOMAIN memmap' = DOMAIN memmap
         /\ bitmapAt' \in Nat \ {0}
         /\ \A i \in DOMAIN memmap :
              /\ memmap'[i].kind = memmap[i].kind
              /\ memmap'[i].base \in Nat /\ memmap'[i].length \in Nat
              /\ memmap[i].base <= memmap'[i].base
              /\ memmap'[i].base + memmap'[i].length = memmap[i].base + memmap[i].length
         /\ memmap'[at].base = bitmapAt' + NeededOf(memmap)
<1> DEFINE needed == NeededOf(memmap)
           e == memmap[at]
           cut == [e EXCEPT !.base = @ + needed, !.length = @ - needed]
<1>1. needed \in Nat
  BY BitmapSizes
<1>2. e \in Entry /\ e.base \in Nat /\ e.length \in Nat /\ e.length >= needed
      /\ e.kind = "usable" /\ e.base # 0
  BY MapFacts DEF BitmapPlaced, Fits
<1>3. /\ cut \in Entry /\ cut.base = e.base + needed /\ cut.length = e.length - needed
      /\ cut.kind = e.kind
  <2> HIDE DEF needed, e
  <2>1. e.length - needed \in Nat /\ e.base + needed \in Nat
    BY <1>1, <1>2
  <2>2. QED  BY <2>1, <1>2 DEF Entry
<1>4. memmap'[at] = cut
  BY DEF BitmapPlaced, InEntry
<1>5. \A i \in DOMAIN memmap : i # at => memmap'[i] = memmap[i]
  BY DEF BitmapPlaced, InEntry
<1>6. DOMAIN memmap' = DOMAIN memmap
  BY DEF BitmapPlaced
<1>7. \A i \in DOMAIN memmap : memmap'[i] \in Entry
  BY <1>2, <1>3, <1>4, <1>5, MapFacts
<1>8. memmap' \in Seq(Entry)
  <2>1. memmap \in Seq(Entry)
    BY MapFacts
  <2>2. Len(memmap) \in Nat /\ DOMAIN memmap = 1..Len(memmap)
    BY <2>1
  <2>3. memmap' \in [1..Len(memmap) -> Entry]
    <3>1. memmap' = [i \in 1..Len(memmap) |-> memmap'[i]]
      BY <2>2 DEF BitmapPlaced
    <3>2. QED  BY <3>1, <2>2, <1>7
  <2>4. QED  BY <2>2, <2>3
<1>9. bitmapAt' = e.base
  BY DEF BitmapPlaced
<1>10. ASSUME NEW i \in DOMAIN memmap
       PROVE  /\ memmap'[i].kind = memmap[i].kind
              /\ memmap'[i].base \in Nat /\ memmap'[i].length \in Nat
              /\ memmap[i].base <= memmap'[i].base
              /\ memmap'[i].base + memmap'[i].length = memmap[i].base + memmap[i].length
  <2>1. CASE i = at
    <3> HIDE DEF needed, cut
    <3>1. memmap'[i] = cut /\ memmap[i] = e
      BY <2>1, <1>4
    <3> HIDE DEF e
    <3>2. QED  BY <3>1, <1>1, <1>2, <1>3
  <2>2. CASE i # at
    <3>1. memmap'[i] = memmap[i] /\ memmap[i].base \in Nat /\ memmap[i].length \in Nat
      BY <2>2, <1>5, MapFacts
    <3>2. QED  BY <3>1
  <2>3. QED  BY <2>1, <2>2
<1>11. memmap'[at].base = bitmapAt' + needed
  BY <1>3, <1>4, <1>9
<1>12. QED  BY <1>6, <1>8, <1>9, <1>2, <1>10, <1>11

LEMMA bitmap_initKeepsInv ==
  ASSUME BelowInt, Inv, bitmap_init
  PROVE  Inv'
<1>1. bitmapAt = 0 /\ BeforeBitmap
  BY DEF Inv, bitmap_init
<1>2. memmap \in MemMaps /\ pages = {} /\ claimed = {} /\ bitmapBytes = 0 /\ failed = "no"
  BY <1>1 DEF BeforeBitmap, bitmap_init
<1>3. /\ bitmapFrames' = FramesOf(memmap)
      /\ UNCHANGED <<pages, claimed>>
      /\ NoRoom \/ \E at \in DOMAIN memmap : BitmapPlaced(at)
  BY <1>2, bitmap_initExact
<1>4. /\ FramesOf(memmap) \in Nat /\ BytesOf(memmap) \in Nat /\ NeededOf(memmap) \in Nat
      /\ highest(memmap) <= FramesOf(memmap) * PageSize
      /\ FramesOf(memmap) <= BytesOf(memmap) * ByteBits
      /\ BytesOf(memmap) <= NeededOf(memmap)
      /\ FramesOf(memmap) + ByteBits <= Half
  BY <1>2, BitmapSizes
<1>5. bitmapFrames' \in 0..SizeValues - 1
  BY <1>3, <1>4, Sizes
<1>6. CASE NoRoom
  <2>1. bitmapAt' = 0 /\ memmap' = memmap /\ bitmapBytes' = 0 /\ pages' = {} /\ claimed' = {}
        /\ failed' = "no usable region large enough"
    BY <1>1, <1>2, <1>3, <1>6 DEF NoRoom
  <2>2. \A i \in DOMAIN memmap : ~Fits(memmap[i], NeededOf(memmap))
    BY <1>6 DEF NoRoom
  <2>3. BeforeBitmap'
    BY <2>1, <2>2, <1>2, <1>5 DEF BeforeBitmap
  <2>4. QED  BY <2>1, <2>3 DEF Inv
<1>7. ASSUME NEW at \in DOMAIN memmap, BitmapPlaced(at) PROVE Inv'
  <2>1. /\ memmap' \in Seq(Entry) /\ DOMAIN memmap' = DOMAIN memmap
        /\ bitmapAt' \in Nat \ {0}
        /\ \A i \in DOMAIN memmap :
             /\ memmap'[i].kind = memmap[i].kind
             /\ memmap'[i].base \in Nat /\ memmap'[i].length \in Nat
             /\ memmap[i].base <= memmap'[i].base
             /\ memmap'[i].base + memmap'[i].length = memmap[i].base + memmap[i].length
        /\ memmap'[at].base = bitmapAt' + NeededOf(memmap)
    BY <1>2, <1>7, PlacedFacts
  <2>2. \A i \in DOMAIN memmap : memmap[i].base \in Nat /\ memmap[i].length \in Nat
    BY <1>2, MapFacts
  <2>3. DOMAIN memmap \in SUBSET Nat /\ Ordered(memmap)
    BY <1>2, MapFacts
  <2>4. bitmapBytes' = BytesOf(memmap) /\ failed' = "no" /\ bitmapAt' = memmap[at].base
    BY <1>2, <1>7 DEF BitmapPlaced
  <2>5. Ordered(memmap)'
    <3>1. SUFFICES ASSUME NEW i \in DOMAIN memmap, NEW j \in DOMAIN memmap, i < j
                   PROVE  memmap'[i].base + memmap'[i].length <= memmap'[j].base
      BY <2>1 DEF Ordered
    <3>2. memmap[i].base + memmap[i].length <= memmap[j].base
      BY <3>1, <2>3 DEF Ordered
    <3>3. /\ memmap[i].base + memmap[i].length = memmap'[i].base + memmap'[i].length
          /\ memmap[j].base <= memmap'[j].base
      BY <2>1
    <3>4. /\ memmap'[i].base + memmap'[i].length \in Nat
          /\ memmap[j].base \in Nat /\ memmap'[j].base \in Nat
      BY <2>1, <2>2
    <3>5. QED  BY <3>2, <3>3, <3>4
  <2>6. BitmapCovers'
    <3>1. bitmapFrames' <= bitmapBytes' * ByteBits
      BY <1>3, <1>4, <2>4
    <3>2. ASSUME NEW i \in DOMAIN memmap, memmap'[i].kind \in Claimable
          PROVE  /\ memmap'[i].base + memmap'[i].length < Half
                 /\ memmap'[i].base + memmap'[i].length <= bitmapFrames' * PageSize
      <4>1. memmap[i].kind \in Claimable
            /\ memmap'[i].base + memmap'[i].length = memmap[i].base + memmap[i].length
            /\ memmap[i].base + memmap[i].length \in Nat
        BY <3>2, <2>1, <2>2
      <4>2. memmap[i].base + memmap[i].length <= highest(memmap)
            /\ highest(memmap) \in Nat /\ highest(memmap) + PageSize <= Half
        BY <4>1, <1>2, HighestFacts
      <4>3. FramesOf(memmap) * PageSize \in Nat
        BY <1>4, Sizes
      <4>4. QED  BY <4>1, <4>2, <4>3, <1>3, <1>4, Sizes
    <3>3. QED  BY <3>1, <3>2, <2>1, <1>5 DEF BitmapCovers
  <2>7. BitmapApart'
    <3>1. SUFFICES ASSUME NEW i \in DOMAIN memmap
                   PROVE  \/ memmap'[i].base + memmap'[i].length <= bitmapAt'
                          \/ bitmapAt' + bitmapBytes' <= memmap'[i].base
      BY <2>1 DEF BitmapApart
    <3>2. CASE i < at
      <4>1. memmap[i].base + memmap[i].length <= memmap[at].base
        BY <3>2, <2>3 DEF Ordered
      <4>2. QED  BY <4>1, <2>1, <2>4
    <3>3. CASE i = at
      BY <3>3, <2>1, <2>4, <1>4
    <3>4. CASE at < i
      <4>1. memmap[at].base + memmap[at].length <= memmap[i].base
        BY <3>4, <2>3 DEF Ordered
      <4>2. /\ memmap[i].base \in Nat /\ memmap'[i].base \in Nat
            /\ memmap[i].base <= memmap'[i].base
        BY <2>1, <2>2
      <4>3. PICK b \in Nat, n \in Nat : memmap'[at].base = b /\ memmap'[at].length = n
        BY <2>1
      <4>4. b + n = memmap[at].base + memmap[at].length
        BY <2>1, <4>3
      <4>5. b + n <= memmap'[i].base
        BY <4>1, <4>2, <4>4
      <4>6. bitmapAt' + bitmapBytes' <= b
        BY <2>1, <2>4, <1>4, <4>3
      <4>7. bitmapAt' + bitmapBytes' \in Nat
        BY <2>1, <2>4, <1>4
      <4>8. QED  BY <4>2, <4>5, <4>6, <4>7
    <3>5. i \in Nat /\ at \in Nat
      BY <2>3
    <3>6. QED  BY <3>2, <3>3, <3>4, <3>5
  <2>8. claimed' = {} /\ pages' = PagesOf(claimed)'
    <3>1. claimed' = {} /\ pages' = {}
      BY <1>2, <1>3
    <3>2. PagesOf(claimed)' = {}
      BY <3>1 DEF PagesOf
    <3>3. QED  BY <3>1, <3>2
  <2>9. AfterBitmap'
    BY <2>1, <2>4, <2>5, <2>6, <2>7, <2>8, <1>4 DEF AfterBitmap
  <2>10. QED  BY <2>1, <2>9 DEF Inv
<1>8. QED  BY <1>3, <1>6, <1>7
-----------------------------------------------------------------------------
(* The claims. *)

(* The whole pages of a claimable region: multiples of the page size from  *)
(* its start, all inside it.                                               *)
LEMMA CutFacts ==
  ASSUME AfterBitmap, NEW i \in DOMAIN memmap, memmap[i].kind \in Claimable
  PROVE  /\ memmap[i].base \in Nat /\ memmap[i].length \in Nat
         /\ Whole(memmap[i]) \in Nat
         /\ Cut(memmap[i]) = {memmap[i].base + k * PageSize : k \in 0..Whole(memmap[i]) - 1}
         /\ \A p \in Cut(memmap[i]) :
              /\ p \in Nat /\ memmap[i].base <= p
              /\ p + PageSize <= memmap[i].base + memmap[i].length
         /\ \A p, q \in Cut(memmap[i]) : p < q => p + PageSize <= q
<1> DEFINE e == memmap[i]
           n == Whole(e)
<1>1. e \in Entry /\ e.base \in Nat /\ e.length \in Nat
  <2>1. \A S : \A s \in Seq(S) : \A k \in DOMAIN s : s[k] \in S
    OBVIOUS
  <2>2. e \in Entry
    BY <2>1 DEF AfterBitmap
  <2>3. QED  BY <2>2 DEF Entry
<1>2. e.base + e.length < Half
  BY DEF AfterBitmap, BitmapCovers
<1> HIDE DEF e
<1>3. e.length < Half
  BY <1>1, <1>2, Sizes
<1>4. /\ pages_possible(e) = n /\ n \in Nat
      /\ n * PageSize <= e.length
  BY <1>1, <1>3, SmallFloor
<1> HIDE DEF n
<1>5. PageSize \in Nat \ {0} /\ Half \in Nat /\ 2 * Half <= IntValues /\ IntValues \in Nat
  BY Sizes
<1>6. ASSUME NEW k \in 0..n - 1
      PROVE  /\ k * PageSize \in Nat
             /\ e.base + k * PageSize + PageSize <= e.base + e.length
             /\ ToSize(e.base + k * PageSize) = e.base + k * PageSize
  <2>1. k \in Nat /\ k + 1 \in Nat /\ k + 1 <= n
    BY <1>4
  <2>2. (k + 1) * PageSize <= n * PageSize /\ n * PageSize \in Nat
    BY <2>1, <1>4, <1>5, Monotone
  <2>3. (k + 1) * PageSize = k * PageSize + PageSize /\ k * PageSize \in Nat
    BY <2>1, <1>5, NextMultiple
  <2>4. k * PageSize + PageSize <= e.length
    BY <2>2, <2>3, <1>1, <1>4, <1>5
  <2>5. e.base + k * PageSize \in 0..IntValues
    BY <2>3, <2>4, <1>1, <1>2, <1>5
  <2>6. ToSize(e.base + k * PageSize) = e.base + k * PageSize
    BY <2>5, SmallSize
  <2>7. QED  BY <2>3, <2>4, <2>6, <1>1, <1>5
<1>7. Cut(e) = {e.base + k * PageSize : k \in 0..n - 1}
  BY <1>4, <1>6 DEF Cut
<1>8. \A p \in Cut(e) : p \in Nat /\ e.base <= p /\ p + PageSize <= e.base + e.length
  BY <1>1, <1>6, <1>7
<1>9. ASSUME NEW j \in 0..n - 1, NEW k \in 0..n - 1,
             e.base + j * PageSize < e.base + k * PageSize
      PROVE  e.base + j * PageSize + PageSize <= e.base + k * PageSize
  <2>1. j * PageSize \in Nat /\ k * PageSize \in Nat
    BY <1>6
  <2>2. j * PageSize < k * PageSize
    BY <2>1, <1>1, <1>9
  <2>3. j \in Nat /\ k \in Nat /\ PageSize \in Nat
    BY <1>4, <1>5
  <2>4. j < k
    BY <2>2, <2>3, Factor
  <2>5. (j + 1) * PageSize <= k * PageSize
    BY <2>3, <2>4, Monotone
  <2>6. (j + 1) * PageSize = j * PageSize + PageSize
    BY <2>3, NextMultiple
  <2>7. QED  BY <2>1, <2>5, <2>6, <1>1, <1>5
<1>10. \A p, q \in Cut(e) : p < q => p + PageSize <= q
  BY <1>7, <1>9
<1>11. QED  BY <1>1, <1>4, <1>7, <1>8, <1>10 DEF e, n

LEMMA RegionsApart ==
  ASSUME AfterBitmap, NEW i \in DOMAIN memmap, NEW j \in DOMAIN memmap,
         memmap[i].kind \in Claimable, memmap[j].kind \in Claimable, i # j,
         NEW p \in Cut(memmap[i]), NEW q \in Cut(memmap[j])
  PROVE  p + PageSize <= q \/ q + PageSize <= p
<1>1. /\ p \in Nat /\ memmap[i].base <= p
      /\ p + PageSize <= memmap[i].base + memmap[i].length
      /\ memmap[i].base \in Nat /\ memmap[i].length \in Nat
  BY CutFacts
<1>2. /\ q \in Nat /\ memmap[j].base <= q
      /\ q + PageSize <= memmap[j].base + memmap[j].length
      /\ memmap[j].base \in Nat /\ memmap[j].length \in Nat
  BY CutFacts
<1>3. i \in Nat /\ j \in Nat /\ Ordered(memmap)
  BY DEF AfterBitmap
<1>4. CASE i < j
  <2>1. memmap[i].base + memmap[i].length <= memmap[j].base
    BY <1>3, <1>4 DEF Ordered
  <2>2. QED  BY <2>1, <1>1, <1>2, Sizes
<1>5. CASE j < i
  <2>1. memmap[j].base + memmap[j].length <= memmap[i].base
    BY <1>3, <1>5 DEF Ordered
  <2>2. QED  BY <2>1, <1>1, <1>2, Sizes
<1>6. QED  BY <1>3, <1>4, <1>5

(* A page of the list is a whole page of one region. *)
LEMMA PagesOfFacts ==
  ASSUME NEW K \in SUBSET Claimable, NEW p \in PagesOf(K)
  PROVE  \E i \in DOMAIN memmap : memmap[i].kind \in K /\ p \in Cut(memmap[i])
  BY DEF PagesOf

LEMMA PagesApart ==
  ASSUME AfterBitmap, NEW K \in SUBSET Claimable, NEW p \in PagesOf(K), NEW q \in PagesOf(K)
  PROVE  p \in Nat /\ q \in Nat /\ (p < q => p + PageSize <= q)
<1>1. PICK i \in DOMAIN memmap : memmap[i].kind \in K /\ p \in Cut(memmap[i])
  BY PagesOfFacts
<1>2. PICK j \in DOMAIN memmap : memmap[j].kind \in K /\ q \in Cut(memmap[j])
  BY PagesOfFacts
<1>3. memmap[i].kind \in Claimable /\ memmap[j].kind \in Claimable
  BY <1>1, <1>2
<1>4. p \in Nat /\ q \in Nat
  BY <1>1, <1>2, <1>3, CutFacts
<1>5. CASE i = j
  BY <1>1, <1>2, <1>3, <1>4, <1>5, CutFacts
<1>6. CASE i # j
  <2>1. p + PageSize <= q \/ q + PageSize <= p
    BY <1>1, <1>2, <1>3, <1>6, RegionsApart
  <2>2. QED  BY <2>1, <1>4, Sizes
<1>7. QED  BY <1>4, <1>5, <1>6

LEMMA FrameBounds ==
  ASSUME NEW p \in Nat
  PROVE  /\ frame_of(p) \in Nat /\ frame_of(p) * PageSize \in Nat
         /\ frame_of(p) * PageSize <= p /\ p < frame_of(p) * PageSize + PageSize
<1>1. PageSize \in Nat \ {0}
  BY Sizes
<1>2. frame_of(p) \in Nat /\ p = frame_of(p) * PageSize + (p % PageSize)
      /\ p % PageSize \in 0..PageSize - 1
  BY <1>1, QuotientBounds DEF frame_of
<1>3. frame_of(p) * PageSize \in Nat
  BY <1>1, <1>2, NextMultiple
<1>4. QED  BY <1>1, <1>2, <1>3

(* Pages that do not overlap lie in different frames, also if they do not  *)
(* begin where a frame does.                                               *)
LEMMA FramesDiffer ==
  ASSUME NEW p \in Nat, NEW q \in Nat, p + PageSize <= q
  PROVE  frame_of(p) # frame_of(q)
<1>1. SUFFICES ASSUME frame_of(p) = frame_of(q) PROVE FALSE
  OBVIOUS
<1>2. q < frame_of(p) * PageSize + PageSize /\ frame_of(p) * PageSize <= p
      /\ frame_of(p) * PageSize \in Nat
  BY <1>1, FrameBounds
<1>3. QED  BY <1>2, Sizes

LEMMA FrameHasBit ==
  ASSUME AfterBitmap, NEW K \in SUBSET Claimable, NEW p \in PagesOf(K)
  PROVE  frame_of(p) < bitmapFrames
<1>1. PICK i \in DOMAIN memmap : memmap[i].kind \in K /\ p \in Cut(memmap[i])
  BY PagesOfFacts
<1>2. /\ p \in Nat /\ p + PageSize <= memmap[i].base + memmap[i].length
      /\ memmap[i].base \in Nat /\ memmap[i].length \in Nat
  BY <1>1, CutFacts
<1>3. memmap[i].base + memmap[i].length <= bitmapFrames * PageSize
      /\ bitmapFrames \in Nat
  BY <1>1, Sizes DEF AfterBitmap, BitmapCovers
<1>4. frame_of(p) \in Nat /\ frame_of(p) * PageSize \in Nat /\ frame_of(p) * PageSize <= p
  BY <1>2, FrameBounds
<1>5. PageSize \in Nat \ {0} /\ bitmapFrames * PageSize \in Nat
  BY <1>3, Sizes
<1>6. frame_of(p) * PageSize < bitmapFrames * PageSize
  BY <1>2, <1>3, <1>4, <1>5
<1>7. QED  BY <1>3, <1>4, <1>5, <1>6, Factor

(* A claim of a type that was not claimed before takes all whole pages of  *)
(* its regions.                                                            *)
LEMMA ClaimExact ==
  ASSUME AfterBitmap, NEW kind \in Claimable \ claimed, pmm_claim_pages(kind)
  PROVE  /\ claimed' = claimed \cup {kind}
         /\ pages' = PagesOf(claimed \cup {kind}) /\ failed' = "no"
         /\ UNCHANGED <<memmap, bitmapFrames, bitmapAt, bitmapBytes>>
<1> DEFINE cut == UNION {Cut(memmap[i]) :
                           i \in {j \in DOMAIN memmap : memmap[j].kind = kind}}
           outside == {p \in cut : frame_of(p) >= bitmapFrames}
           twice == {p \in cut : \/ \E q \in pages : frame_of(p) = frame_of(q)
                                 \/ \E q \in cut : q < p /\ frame_of(p) = frame_of(q)}
           stop == outside \cup twice
<1>1. claimed \subseteq Claimable /\ pages = PagesOf(claimed) /\ failed = "no"
      /\ bitmapFrames \in Nat
  BY Sizes DEF AfterBitmap, BitmapCovers
<1>2. claimed \cup {kind} \in SUBSET Claimable /\ {kind} \in SUBSET Claimable
  BY <1>1
<1>3. cut = PagesOf({kind})
  BY DEF PagesOf
<1>4. PagesOf(claimed \cup {kind}) = pages \cup cut
  BY <1>1 DEF PagesOf
<1>5. outside = {}
  <2>1. SUFFICES ASSUME NEW p \in cut, frame_of(p) >= bitmapFrames PROVE FALSE
    OBVIOUS
  <2>2. frame_of(p) < bitmapFrames
    BY <2>1, <1>2, <1>3, FrameHasBit
  <2>3. p \in Nat
    BY <2>1, <1>2, <1>3, PagesApart
  <2>4. frame_of(p) \in Nat
    BY <2>3, FrameBounds
  <2>5. QED  BY <2>1, <2>2, <2>4, <1>1
<1>6. twice = {}
  <2>1. ASSUME NEW p \in cut, NEW q \in cut, q < p PROVE frame_of(p) # frame_of(q)
    <3>1. p \in Nat /\ q \in Nat /\ q + PageSize <= p
      BY <2>1, <1>2, <1>3, PagesApart
    <3>2. QED  BY <3>1, FramesDiffer
  <2>2. ASSUME NEW p \in cut, NEW q \in pages PROVE frame_of(p) # frame_of(q)
    <3>1. PICK i \in DOMAIN memmap : memmap[i].kind \in {kind} /\ p \in Cut(memmap[i])
      BY <1>2, <1>3, PagesOfFacts
    <3>2. PICK j \in DOMAIN memmap : memmap[j].kind \in claimed /\ q \in Cut(memmap[j])
      BY <1>1, PagesOfFacts
    <3>3. i # j /\ memmap[i].kind \in Claimable /\ memmap[j].kind \in Claimable
      BY <3>1, <3>2, <1>1
    <3>4. p + PageSize <= q \/ q + PageSize <= p
      BY <3>1, <3>2, <3>3, RegionsApart
    <3>5. p \in Nat /\ q \in Nat
      BY <3>1, <3>2, <3>3, CutFacts
    <3>6. QED  BY <3>4, <3>5, FramesDiffer
  <2>3. QED  BY <2>1, <2>2
<1>7. stop = {}
  BY <1>5, <1>6
<1>8. /\ claimed' = claimed \cup {kind}
      /\ pages' = pages \cup {p \in cut : \A q \in stop : p < q}
      /\ failed' = IF stop = {} THEN failed
                   ELSE IF Min(stop) \in outside THEN "frame out of range"
                   ELSE "double free"
      /\ UNCHANGED <<memmap, bitmapFrames, bitmapAt, bitmapBytes>>
  BY DEF pmm_claim_pages
<1> HIDE DEF cut, stop, outside
<1>9. pages' = pages \cup cut
  BY <1>7, <1>8
<1>10. QED  BY <1>1, <1>4, <1>7, <1>8, <1>9

LEMMA ClaimKeepsInv ==
  ASSUME Inv, bitmapAt # 0, NEW kind \in Claimable \ claimed, pmm_claim_pages(kind)
  PROVE  Inv'
<1>1. AfterBitmap
  BY DEF Inv
<1>2. /\ claimed' = claimed \cup {kind}
      /\ pages' = PagesOf(claimed \cup {kind}) /\ failed' = "no"
      /\ UNCHANGED <<memmap, bitmapFrames, bitmapAt, bitmapBytes>>
  BY <1>1, ClaimExact
<1>3. PagesOf(claimed)' = PagesOf(claimed \cup {kind})
  BY <1>2 DEF PagesOf
<1>4. AfterBitmap'
  BY <1>1, <1>2, <1>3 DEF AfterBitmap, BitmapCovers, BitmapApart, Ordered
<1>5. QED  BY <1>2, <1>4 DEF Inv

LEMMA InitInv == Init => Inv
<1>1. SUFFICES ASSUME Init PROVE BeforeBitmap /\ bitmapAt = 0
  BY DEF Inv
<1>2. 0 \in 0..SizeValues - 1
  BY Sizes
<1>3. QED  BY <1>1, <1>2 DEF Init, BeforeBitmap

LEMMA NextInv == BelowInt /\ Inv /\ [Next]_vars => Inv'
<1>1. SUFFICES ASSUME BelowInt, Inv, [Next]_vars PROVE Inv'
  OBVIOUS
<1>2. CASE bitmap_init
  BY <1>1, <1>2, bitmap_initKeepsInv
<1>3. CASE pmm_init_claim
  <2>1. bitmapAt # 0 /\ "usable" \in Claimable \ claimed /\ pmm_claim_pages("usable")
    BY <1>3 DEF pmm_init_claim, Booted, Claimable
  <2>2. QED  BY <1>1, <2>1, ClaimKeepsInv
<1>4. CASE pmm_reclaim_acpi_pages
  <2>1. bitmapAt # 0 /\ "acpi" \in Claimable \ claimed /\ pmm_claim_pages("acpi")
    BY <1>4 DEF pmm_reclaim_acpi_pages, Booted, Claimable
  <2>2. QED  BY <1>1, <2>1, ClaimKeepsInv
<1>5. CASE pmm_reclaim_bootloader_pages
  <2>1. bitmapAt # 0 /\ "bootloader" \in Claimable \ claimed /\ pmm_claim_pages("bootloader")
    BY <1>5 DEF pmm_reclaim_bootloader_pages, Booted, Claimable
  <2>2. QED  BY <1>1, <2>1, ClaimKeepsInv
<1>6. CASE UNCHANGED vars
  <2>1. UNCHANGED <<memmap, bitmapFrames, bitmapAt, bitmapBytes, pages, claimed, failed>>
    BY <1>6 DEF vars
  <2>2. PagesOf(claimed)' = PagesOf(claimed)
    BY <2>1 DEF PagesOf
  <2>3. BeforeBitmap => BeforeBitmap'
    BY <2>1 DEF BeforeBitmap
  <2>4. AfterBitmap => AfterBitmap'
    BY <2>1, <2>2 DEF AfterBitmap, BitmapCovers, BitmapApart, Ordered
  <2>5. QED  BY <1>1, <2>1, <2>3, <2>4 DEF Inv
<1>7. QED  BY <1>1, <1>2, <1>3, <1>4, <1>5, <1>6 DEF Next, Done

LEMMA Invariance == BelowInt => (Spec => []Inv)
<1>1. SUFFICES ASSUME BelowInt PROVE Spec => []Inv
  OBVIOUS
<1>2. Inv /\ [Next]_vars => Inv'
  BY <1>1, NextInv
<1>3. QED  BY <1>2, InitInv, PTL DEF Spec
-----------------------------------------------------------------------------
(* What follows from the invariant. *)

LEMMA InvImpliesClaimsSucceed == Inv => ClaimsSucceed
<1>1. CASE bitmapAt = 0 /\ BeforeBitmap
  <2>1. memmap \in Seq(Entry)
    BY <1>1, MapFacts DEF BeforeBitmap
  <2>2. pages = {} /\ claimed = {} /\ bitmapAt \in Nat /\ bitmapBytes \in Nat
        /\ bitmapFrames \in 0..SizeValues - 1
        /\ failed \in {"no", "no usable region large enough"}
    BY <1>1 DEF BeforeBitmap
  <2>3. TypeOK
    BY <2>1, <2>2 DEF TypeOK
  <2>4. QED  BY <2>2, <2>3 DEF ClaimsSucceed, BitmapLargeEnough
<1>2. CASE AfterBitmap
  <2>1. claimed \in SUBSET Claimable /\ pages = PagesOf(claimed) /\ failed = "no"
        /\ memmap \in Seq(Entry) /\ bitmapAt \in Nat /\ bitmapBytes \in Nat
        /\ bitmapFrames \in 0..SizeValues - 1
    BY <1>2 DEF AfterBitmap, BitmapCovers
  <2>2. \A p \in pages : p \in Nat
    BY <1>2, <2>1, PagesApart
  <2>3. TypeOK
    BY <2>1, <2>2 DEF TypeOK
  <2>4. ASSUME NEW p \in pages PROVE frame_of(p) \div ByteBits < bitmapBytes
    <3>1. frame_of(p) < bitmapFrames
      BY <1>2, <2>1, FrameHasBit
    <3>2. frame_of(p) \in Nat
      BY <2>2, FrameBounds
    <3>3. ByteBits \in Nat \ {0} /\ bitmapFrames \in Nat
      BY <2>1, Sizes
    <3>4. frame_of(p) \div ByteBits \in Nat
          /\ (frame_of(p) \div ByteBits) * ByteBits <= frame_of(p)
      BY <3>2, <3>3, RoundedDown
    <3>5. bitmapFrames <= bitmapBytes * ByteBits
      BY <1>2 DEF AfterBitmap, BitmapCovers
    <3>6. (frame_of(p) \div ByteBits) * ByteBits \in Nat /\ bitmapBytes * ByteBits \in Nat
      BY <3>3, <3>4, <2>1
    <3>7. (frame_of(p) \div ByteBits) * ByteBits < bitmapBytes * ByteBits
      BY <3>1, <3>2, <3>3, <3>4, <3>5, <3>6
    <3>8. QED  BY <3>3, <3>4, <3>7, <2>1, Factor
  <2>5. QED  BY <2>1, <2>3, <2>4 DEF ClaimsSucceed, BitmapLargeEnough
<1>3. QED  BY <1>1, <1>2 DEF Inv

LEMMA InvImpliesBitmapNotHandedOut == Inv => BitmapNotHandedOut
<1>1. CASE bitmapAt = 0 /\ BeforeBitmap
  BY <1>1 DEF BeforeBitmap, BitmapNotHandedOut
<1>2. CASE AfterBitmap
  <2>1. SUFFICES ASSUME NEW p \in pages
                 PROVE  p + PageSize <= bitmapAt \/ bitmapAt + bitmapBytes <= p
    BY DEF BitmapNotHandedOut
  <2>2. claimed \in SUBSET Claimable /\ p \in PagesOf(claimed)
        /\ bitmapAt \in Nat /\ bitmapBytes \in Nat
    BY <1>2, <2>1 DEF AfterBitmap
  <2>3. PICK i \in DOMAIN memmap : memmap[i].kind \in claimed /\ p \in Cut(memmap[i])
    BY <2>2, PagesOfFacts
  <2>4. /\ p \in Nat /\ memmap[i].base <= p
        /\ p + PageSize <= memmap[i].base + memmap[i].length
        /\ memmap[i].base \in Nat /\ memmap[i].length \in Nat
    BY <1>2, <2>2, <2>3, CutFacts
  <2>5. \/ memmap[i].base + memmap[i].length <= bitmapAt
        \/ bitmapAt + bitmapBytes <= memmap[i].base
    BY <1>2 DEF AfterBitmap, BitmapApart
  <2>6. QED  BY <2>2, <2>4, <2>5, Sizes
<1>3. QED  BY <1>1, <1>2 DEF Inv

(* What the list has of a region is just the region's cut: pages of other  *)
(* regions lie outside it.                                                 *)
LEMMA PagesOfRegion ==
  ASSUME AfterBitmap, NEW i \in DOMAIN memmap, memmap[i].kind \in claimed
  PROVE  {p \in pages : memmap[i].base <= p /\ p < memmap[i].base + memmap[i].length}
           = Cut(memmap[i])
<1>1. claimed \in SUBSET Claimable /\ pages = PagesOf(claimed)
      /\ memmap[i].kind \in Claimable
  BY DEF AfterBitmap
<1>2. ASSUME NEW p \in Cut(memmap[i])
      PROVE  p \in pages /\ memmap[i].base <= p /\ p < memmap[i].base + memmap[i].length
  <2>1. p \in pages
    BY <1>1 DEF PagesOf
  <2>2. /\ p \in Nat /\ memmap[i].base <= p
        /\ p + PageSize <= memmap[i].base + memmap[i].length
        /\ memmap[i].base \in Nat /\ memmap[i].length \in Nat
    BY <1>1, CutFacts
  <2>3. QED  BY <2>1, <2>2, Sizes
<1>3. ASSUME NEW p \in pages, memmap[i].base <= p, p < memmap[i].base + memmap[i].length
      PROVE  p \in Cut(memmap[i])
  <2>1. PICK j \in DOMAIN memmap : memmap[j].kind \in claimed /\ p \in Cut(memmap[j])
    BY <1>1, PagesOfFacts
  <2>2. /\ p \in Nat /\ memmap[j].base <= p
        /\ p + PageSize <= memmap[j].base + memmap[j].length
        /\ memmap[j].base \in Nat /\ memmap[j].length \in Nat
    BY <1>1, <2>1, CutFacts
  <2>3. memmap[i].base \in Nat /\ memmap[i].length \in Nat
    BY <1>1, CutFacts
  <2>4. Ordered(memmap) /\ i \in Nat /\ j \in Nat
    BY DEF AfterBitmap
  <2>5. ~(i < j)
    <3>1. i < j => memmap[i].base + memmap[i].length <= memmap[j].base
      BY <2>4 DEF Ordered
    <3>2. QED  BY <3>1, <2>2, <2>3, <1>3
  <2>6. ~(j < i)
    <3>1. j < i => memmap[j].base + memmap[j].length <= memmap[i].base
      BY <2>4 DEF Ordered
    <3>2. QED  BY <3>1, <2>2, <2>3, <1>3, Sizes
  <2>7. i = j
    BY <2>4, <2>5, <2>6
  <2>8. QED  BY <2>1, <2>7
<1>4. QED  BY <1>2, <1>3

LEMMA CutCardinality ==
  ASSUME AfterBitmap, NEW i \in DOMAIN memmap, memmap[i].kind \in Claimable
  PROVE  Cardinality(Cut(memmap[i])) = Whole(memmap[i])
<1> DEFINE e == memmap[i]
           n == Whole(e)
           place == [k \in 0..n - 1 |-> e.base + k * PageSize]
<1>1. /\ e.base \in Nat /\ n \in Nat
      /\ Cut(e) = {e.base + k * PageSize : k \in 0..n - 1}
  BY CutFacts
<1>2. PageSize \in Nat \ {0}
  BY Sizes
<1> HIDE DEF e, n
<1>3. ASSUME NEW j \in 0..n - 1, NEW k \in 0..n - 1, place[j] = place[k]
      PROVE  j = k
  <2>1. j \in Nat /\ k \in Nat /\ j * PageSize \in Nat /\ k * PageSize \in Nat
    BY <1>1, <1>2
  <2>2. j * PageSize = k * PageSize
    BY <2>1, <1>1, <1>3
  <2>3. ASSUME NEW a \in Nat, NEW b \in Nat, a < b, a * PageSize = b * PageSize PROVE FALSE
    <3>1. (a + 1) * PageSize <= b * PageSize
      BY <2>3, <1>2, Monotone
    <3>2. (a + 1) * PageSize = a * PageSize + PageSize /\ a * PageSize \in Nat
      BY <1>2, NextMultiple
    <3>3. QED  BY <3>1, <3>2, <2>3, <1>2
  <2>4. QED  BY <2>1, <2>2, <2>3
<1>4. place \in [0..n - 1 -> Cut(e)] /\ \A p \in Cut(e) : \E k \in 0..n - 1 : place[k] = p
  BY <1>1
<1>5. place \in Bijection(0..n - 1, Cut(e))
  <2> HIDE DEF place
  <2>1. QED  BY <1>3, <1>4, Fun_IsBij
<1>6. ExistsBijection(0..n - 1, Cut(e))
  BY <1>5 DEF ExistsBijection
<1>7. IsFiniteSet(0..n - 1) /\ Cardinality(0..n - 1) = n
  <2>1. 0 \in Int /\ n - 1 \in Int
    BY <1>1
  <2>2. IsFiniteSet(0..n - 1)
        /\ Cardinality(0..n - 1) = IF 0 > n - 1 THEN 0 ELSE (n - 1) - 0 + 1
    BY <2>1, FS_Interval
  <2>3. QED  BY <2>2, <1>1
<1>8. Cardinality(Cut(e)) = n
  BY <1>6, <1>7, FS_Bijection
<1>9. QED  BY <1>8 DEF e, n

LEMMA InvImpliesRegionsCutExactly == Inv => RegionsCutExactly
<1>1. CASE bitmapAt = 0 /\ BeforeBitmap
  <2>1. pages = {} /\ claimed = {}
    BY <1>1 DEF BeforeBitmap
  <2>2. QED  BY <2>1 DEF RegionsCutExactly, PagesInsideRegions, NoPageLeftOut
<1>2. CASE AfterBitmap
  <2>1. claimed \in SUBSET Claimable /\ pages = PagesOf(claimed)
    BY <1>2 DEF AfterBitmap
  <2>2. PagesInsideRegions
    <3>1. SUFFICES ASSUME NEW p \in pages
                   PROVE  /\ \A q \in pages : p < q => p + PageSize <= q
                          /\ \E i \in DOMAIN memmap :
                               /\ memmap[i].kind \in claimed
                               /\ memmap[i].base <= p
                               /\ p + PageSize <= memmap[i].base + memmap[i].length
      BY DEF PagesInsideRegions
    <3>2. \A q \in pages : p < q => p + PageSize <= q
      BY <1>2, <2>1, PagesApart
    <3>3. PICK i \in DOMAIN memmap : memmap[i].kind \in claimed /\ p \in Cut(memmap[i])
      BY <2>1, PagesOfFacts
    <3>4. memmap[i].base <= p /\ p + PageSize <= memmap[i].base + memmap[i].length
      BY <1>2, <2>1, <3>3, CutFacts
    <3>5. QED  BY <3>2, <3>3, <3>4
  <2>3. NoPageLeftOut
    <3>1. SUFFICES ASSUME NEW i \in DOMAIN memmap, memmap[i].kind \in claimed
                   PROVE  Cardinality({p \in pages : /\ memmap[i].base <= p
                                                     /\ p < memmap[i].base + memmap[i].length})
                            = memmap[i].length \div PageSize
      BY DEF NoPageLeftOut
    <3>2. {p \in pages : memmap[i].base <= p /\ p < memmap[i].base + memmap[i].length}
            = Cut(memmap[i])
      BY <1>2, <3>1, PagesOfRegion
    <3>3. Cardinality(Cut(memmap[i])) = Whole(memmap[i])
      BY <1>2, <2>1, <3>1, CutCardinality
    <3>4. QED  BY <3>2, <3>3 DEF Whole
  <2>4. QED  BY <2>2, <2>3 DEF RegionsCutExactly
<1>3. QED  BY <1>1, <1>2 DEF Inv

LEMMA InvImpliesRoomPanicIsReal == BelowInt /\ Inv => RoomPanicIsReal
<1>1. SUFFICES ASSUME BelowInt, Inv, failed = "no usable region large enough",
                      NEW i \in DOMAIN memmap, memmap[i].kind = "usable"
               PROVE  memmap[i].length < NeededOf(memmap)
  BY DEF RoomPanicIsReal, NeededOf, BytesOf, FramesOf, Ceil
<1>2. BeforeBitmap
  BY <1>1 DEF Inv, AfterBitmap
<1>3. memmap \in MemMaps /\ ~Fits(memmap[i], NeededOf(memmap))
  BY <1>1, <1>2 DEF BeforeBitmap
<1>4. memmap[i].length \in Nat /\ NeededOf(memmap) \in Nat
  BY <1>1, <1>3, MapFacts, BitmapSizes
<1>5. ~(memmap[i].length >= NeededOf(memmap))
  BY <1>1, <1>3 DEF Fits
<1>6. QED  BY <1>4, <1>5
-----------------------------------------------------------------------------
(* pmm.c:43: any region that may be handed to the free list is covered by  *)
(* the bitmap.  In the memory that an int can measure no claim fails, no   *)
(* frame is marked twice, whether or not regions begin where frames do,    *)
(* and the bits that are looked at lie in bytes that were cleared.         *)
THEOREM BitmapCoversMemory == BelowInt => (Spec => []ClaimsSucceed)
<1>1. SUFFICES ASSUME BelowInt PROVE Spec => []ClaimsSucceed
  OBVIOUS
<1>2. Spec => []Inv
  BY <1>1, Invariance
<1>3. QED  BY <1>2, InvImpliesClaimsSucceed, PTL

(* The edit that bitmap_bootstrap makes in the memory map keeps the bitmap *)
(* out of the free list: no page of it ever holds a byte of the bitmap.    *)
THEOREM BitmapStaysPrivate == BelowInt => (Spec => []BitmapNotHandedOut)
<1>1. SUFFICES ASSUME BelowInt PROVE Spec => []BitmapNotHandedOut
  OBVIOUS
<1>2. Spec => []Inv
  BY <1>1, Invariance
<1>3. QED  BY <1>2, InvImpliesBitmapNotHandedOut, PTL

(* pmm_claim_pages cuts each region of the types it is called for into all *)
(* its whole pages, which overlap nothing, and hands out nothing else.     *)
THEOREM WholePagesOnly == BelowInt => (Spec => []RegionsCutExactly)
<1>1. SUFFICES ASSUME BelowInt PROVE Spec => []RegionsCutExactly
  OBVIOUS
<1>2. Spec => []Inv
  BY <1>1, Invariance
<1>3. QED  BY <1>2, InvImpliesRegionsCutExactly, PTL

(* The panic of bitmap_bootstrap is justified in that memory: no usable    *)
(* region has room for a bit per frame.                                    *)
THEOREM PanicsOnlyWithoutRoom == BelowInt => (Spec => []RoomPanicIsReal)
<1>1. SUFFICES ASSUME BelowInt PROVE Spec => []RoomPanicIsReal
  OBVIOUS
<1>2. Spec => []Inv
  BY <1>1, Invariance
<1>3. Inv => RoomPanicIsReal
  BY <1>1, InvImpliesRoomPanicIsReal
<1>4. QED  BY <1>2, <1>3, PTL
=============================================================================

-------------------------- MODULE PageTablesProofs --------------------------
(***************************************************************************)
(* Proofs about the kernel's page tables, for every number of levels and   *)
(* of entries, every layout of memory and every set of frames: tables are  *)
(* accounted for, the TLB is never stale, and the tables implement the     *)
(* address space that vmm.h offers.                                        *)
(***************************************************************************)
EXTENDS PageTables, SequenceTheorems, WellFoundedInduction, TLAPS

Slots == 0..Fanout - 1

Entries ==
  [kind : {"table"}, to : Frames, flags : Flags]
    \cup [kind : {"none", "huge", "page"}, to : PhysPages, flags : Flags]

Link(m, f, i) == m[f][i].kind = "table"

(* A label says of a table on which level it is, and names one page whose  *)
(* walk leads to it.                                                       *)
Labels == [level : 1..Levels, page : VPages]

(* Two pages have the same indexes on the levels down to k. *)
SamePath(v, w, k) == \A l \in 1..k : Index(v, l) = Index(w, l)

(* Table f is on the walk of page v. *)
OnPath(lab, f, v) == SamePath(v, lab[f].page, lab[f].level - 1)

(* The tables H, in memory m, are a tree with root r. *)
Tree(r, m, H, lab) ==
  /\ lab \in [H -> Labels]
  /\ r \in H /\ lab[r].level = 1
  /\ \A f \in H, i \in Slots : Link(m, f, i) =>
       LET g == m[f][i].to IN
         /\ g \in H /\ g # r /\ lab[g].level = lab[f].level + 1
         /\ OnPath(lab, f, lab[g].page) /\ Index(lab[g].page, lab[f].level) = i
  /\ \A g \in H \ {r} : \E f \in H, i \in Slots : Link(m, f, i) /\ m[f][i].to = g
  /\ \A f, g \in H, i, j \in Slots :
       Link(m, f, i) /\ Link(m, g, j) /\ m[f][i].to = m[g][j].to => f = g /\ i = j

(* Entries that map pages are where they belong, and map pages there are. *)
Leaves(m, H, lab) ==
  \A f \in H, i \in Slots :
    /\ m[f][i].kind = "page" => lab[f].level = Levels
    /\ m[f][i].kind = "huge" =>
         lab[f].level = Levels - 1 /\ m[f][i].to + Fanout - 1 \in PhysPages

(* Requests for huge pages come first, and only from vmm_init. *)
Requests ==
  [op : {"map", "map_huge", "unmap"}, virt : VPages, phys : PhysPages, flags : Flags]

RequestOK(r) ==
  /\ r \in Requests
  /\ r.op = "map_huge" =>
       /\ r.virt % Fanout = 0 /\ r.virt + Fanout - 1 \in VPages
       /\ r.phys + Fanout - 1 \in PhysPages

TodoOK ==
  /\ todo \in Seq(Requests)
  /\ \A i \in 1..Len(todo) : RequestOK(todo[i])
  /\ \A i, j \in 1..Len(todo) :
       i < j /\ todo[j].op = "map_huge" => todo[i].op = "map_huge"
  /\ active => \A i \in 1..Len(todo) : todo[i].op # "map_huge"

(* The walk has come to a table on the path of the page that is asked for, *)
(* or to the root when nothing is.                                         *)
WalkOK(lab) ==
  /\ todo = << >> => walk = AtRoot(root)
  /\ todo # << >> =>
       /\ walk.table \in held /\ lab[walk.table].level = walk.level
       /\ walk.level <= Depth
       /\ OnPath(lab, walk.table, Now.virt)

(* While huge pages are mapped there are no tables on the last level. *)
HugeFirst(H, lab) ==
  todo # << >> /\ Now.op = "map_huge" => \A f \in H : lab[f].level < Levels

TreeOK ==
  root # 0 =>
    \E lab \in [held -> Labels] :
      /\ Tree(root, mem, held, lab) /\ Leaves(mem, held, lab)
      /\ WalkOK(lab) /\ HugeFirst(held, lab)

Rootless == root = 0 => held = {} /\ ~active /\ todo = << >>

TlbOK == cached # Unmapped => active /\ cached = Translate(watched)

(* The parts of TypeOK that the other conjuncts of Inv do not say. *)
Ranges ==
  /\ free \subseteq Frames /\ held \subseteq Frames /\ free \cap held = {}
  /\ oom \in BOOLEAN
  /\ mem \in [Frames -> [Slots -> Entries]]
  /\ root \in Frames \cup {0} /\ active \in BOOLEAN
  /\ walk \in [level : 1..Levels, table : Frames \cup {0}]
  /\ watched \in VPages
  /\ cached \in [phys : PhysPages, flags : Flags]
  /\ calls \in 0..MaxCalls
  /\ panicked \in {"no", "no_pml4", "no_frame_for_split", "no_frame_for_table",
                   "huge_page", "page_fault"}

(* The inductive invariant. *)
Inv == Ranges /\ TodoOK /\ Rootless /\ TreeOK /\ TlbOK
-----------------------------------------------------------------------------
(* Numbers. *)

LEMMA Numbers ==
  /\ Levels \in Nat \ {0, 1} /\ Fanout \in Nat \ {0, 1}
  /\ Levels - 1 \in Nat \ {0}
  BY TablesAssumption

LEMMA Least ==
  ASSUME NEW S \in SUBSET Nat, S # {}
  PROVE  \E x \in S : \A y \in S : x <= y
<1>1. PICK x \in S : \A y \in S : ~(<<y, x>> \in OpToRel(<, Nat))
  BY WFMin, NatLessThanWellFounded
<1>2. \A y \in S : ~(y < x)
  BY <1>1 DEF OpToRel
<1>3. QED  BY <1>2

LEMMA QuotientBounds ==
  ASSUME NEW a \in Nat, NEW k \in Nat \ {0}
  PROVE  /\ a \div k \in Nat
         /\ a = (a \div k) * k + (a % k) /\ a % k \in 0..k - 1
  OBVIOUS

LEMMA Quotient ==
  ASSUME NEW a \in Nat, NEW q \in Nat, NEW k \in Nat \ {0},
         q * k <= a, a < q * k + k
  PROVE  a \div k = q
  OBVIOUS

LEMMA Monotone ==
  ASSUME NEW i \in Nat, NEW j \in Nat, NEW k \in Nat, i <= j
  PROVE  i * k <= j * k /\ i * k \in Nat /\ j * k \in Nat
  OBVIOUS

LEMMA NestedQuotient ==
  ASSUME NEW a \in Nat, NEW b \in Nat \ {0}, NEW c \in Nat \ {0}
  PROVE  (a \div b) \div c = a \div (c * b)
<1> DEFINE q == a \div b
           r == a % b
           s == q \div c
           t == q % c
<1>1. q \in Nat /\ a = q * b + r /\ r \in 0..b - 1
  BY QuotientBounds
<1> HIDE DEF q, r
<1>2. s \in Nat /\ q = s * c + t /\ t \in 0..c - 1
  BY <1>1, QuotientBounds
<1> HIDE DEF s, t
<1>3. q * b = (s * c) * b + t * b
  BY <1>1, <1>2
<1>4. (s * c) * b = s * (c * b)
  BY <1>2
<1>5. t * b \in Nat /\ t * b + b <= c * b
  <2>1. t \in Nat /\ t + 1 \in Nat /\ t + 1 <= c /\ b \in Nat /\ c \in Nat
    BY <1>2
  <2>2. (t + 1) * b <= c * b
    BY <2>1, Monotone
  <2>3. (t + 1) * b = t * b + b /\ t * b \in Nat
    BY <2>1
  <2>4. QED  BY <2>2, <2>3
<1> DEFINE x == s * (c * b)
           y == t * b
           z == c * b
<1>6. x \in Nat /\ y \in Nat /\ z \in Nat \ {0} /\ a = x + y + r /\ y + b <= z
  <2>1. x \in Nat /\ z \in Nat \ {0}
    BY <1>2
  <2>2. QED  BY <2>1, <1>1, <1>3, <1>4, <1>5
<1> HIDE DEF x, y
<1>7. x <= a /\ a < x + z
  <2> HIDE DEF z
  <2>1. QED  BY <1>6, <1>1
<1>8. a \div z = s
  <2> HIDE DEF z
  <2>1. s * z <= a /\ a < s * z + z
    BY <1>7 DEF x, z
  <2>2. QED  BY <2>1, <1>6, <1>2, Quotient
<1>9. QED  BY <1>8 DEF s, q, z

(* A function that is what the definition of Span asks for, from level k   *)
(* down.                                                                   *)
SpansFrom(k, f) ==
  /\ f \in [k..Levels -> Nat \ {0}]
  /\ f[Levels] = 1
  /\ \A l \in k..Levels - 1 : f[l] = Fanout * f[l + 1]

LEMMA SpansExist == \E f : SpansFrom(0, f)
<1> DEFINE S == {n \in 0..Levels : ~ \E f : SpansFrom(Levels - n, f)}
<1>1. S = {}
  <2> SUFFICES ASSUME S # {} PROVE FALSE
    OBVIOUS
  <2>1. S \in SUBSET Nat
    BY Numbers
  <2>2. PICK n \in S : \A y \in S : n <= y
    BY <2>1, Least
  <2>3. n \in 0..Levels /\ ~ \E f : SpansFrom(Levels - n, f)
    OBVIOUS
  <2>4. n # 0
    <3> SUFFICES ASSUME n = 0 PROVE FALSE
      OBVIOUS
    <3> DEFINE f == [l \in Levels..Levels |-> 1]
    <3>1. SpansFrom(Levels, f)
      BY Numbers DEF SpansFrom
    <3>2. Levels - n = Levels
      BY Numbers
    <3>3. QED  BY <3>1, <3>2, <2>3
  <2>5. n - 1 \in 0..Levels /\ n - 1 \notin S
    BY <2>2, <2>3, <2>4, Numbers
  <2>6. PICK f : SpansFrom(Levels - (n - 1), f)
    BY <2>5
  <2> DEFINE k == Levels - n
             g == [l \in k..Levels |-> IF l = k THEN Fanout * f[k + 1] ELSE f[l]]
  <2>7. k \in Nat /\ k < Levels /\ Levels - (n - 1) = k + 1 /\ Levels \in Nat
    BY <2>3, <2>4, Numbers
  <2> HIDE DEF k
  <2>8. f \in [k + 1..Levels -> Nat \ {0}] /\ f[Levels] = 1
        /\ \A l \in k + 1..Levels - 1 : f[l] = Fanout * f[l + 1]
    BY <2>6, <2>7 DEF SpansFrom
  <2>9. Fanout * f[k + 1] \in Nat \ {0}
    <3>1. f[k + 1] \in Nat \ {0}
      BY <2>7, <2>8
    <3>2. QED  BY <3>1, Numbers
  <2>10. g \in [k..Levels -> Nat \ {0}]
    BY <2>7, <2>8, <2>9
  <2>11. g[Levels] = 1
    BY <2>7, <2>8
  <2>12. \A l \in k..Levels - 1 : g[l] = Fanout * g[l + 1]
    BY <2>7, <2>8
  <2>13. SpansFrom(k, g)
    BY <2>10, <2>11, <2>12 DEF SpansFrom
  <2>14. QED  BY <2>13, <2>3 DEF k
<1>2. Levels \in 0..Levels /\ Levels - Levels = 0
  BY Numbers
<1>3. QED  BY <1>1, <1>2

LEMMA SpanFacts ==
  /\ \A l \in 0..Levels : Span[l] \in Nat \ {0}
  /\ Span[Levels] = 1 /\ Span[Levels - 1] = Fanout
  /\ \A l \in 1..Levels : Span[l - 1] = Fanout * Span[l]
<1>1. PICK f : SpansFrom(0, f)
  BY SpansExist
<1>2. f = [l \in 0..Levels |-> IF l = Levels THEN 1 ELSE Fanout * f[l + 1]]
  BY <1>1, Numbers DEF SpansFrom
<1>3. Span = [l \in 0..Levels |-> IF l = Levels THEN 1 ELSE Fanout * Span[l + 1]]
  BY <1>2 DEF Span
<1>4. Span[Levels] = 1
  BY <1>3, Numbers
<1>5. \A l \in 0..Levels - 1 : Span[l] = Fanout * Span[l + 1]
  BY <1>3, Numbers
<1>6. \A l \in 1..Levels : Span[l - 1] = Fanout * Span[l]
  <2> TAKE l \in 1..Levels
  <2>1. l - 1 \in 0..Levels - 1 /\ (l - 1) + 1 = l
    BY Numbers
  <2>2. QED  BY <2>1, <1>5
<1>7. \A l \in 0..Levels : Span[l] \in Nat \ {0}
  <2> DEFINE S == {n \in 0..Levels : Span[Levels - n] \notin Nat \ {0}}
  <2>1. S = {}
    <3> SUFFICES ASSUME S # {} PROVE FALSE
      OBVIOUS
    <3>1. S \in SUBSET Nat
      BY Numbers
    <3>2. PICK n \in S : \A y \in S : n <= y
      BY <3>1, Least
    <3>3. n \in 0..Levels /\ Span[Levels - n] \notin Nat \ {0}
      OBVIOUS
    <3>4. n # 0
      BY <3>3, <1>4, Numbers
    <3>5. n - 1 \in 0..Levels /\ n - 1 \notin S
      BY <3>2, <3>3, <3>4, Numbers
    <3>6. Span[Levels - (n - 1)] \in Nat \ {0}
      BY <3>5
    <3>7. Levels - n \in 0..Levels - 1 /\ (Levels - n) + 1 = Levels - (n - 1)
      BY <3>3, <3>4, Numbers
    <3>8. Span[Levels - n] = Fanout * Span[Levels - (n - 1)]
      BY <3>7, <1>5
    <3>9. QED  BY <3>3, <3>6, <3>8, Numbers
  <2>2. ASSUME NEW l \in 0..Levels PROVE Span[l] \in Nat \ {0}
    <3>1. Levels - l \in 0..Levels /\ Levels - (Levels - l) = l
      BY Numbers
    <3>2. QED  BY <3>1, <2>1
  <2>3. QED  BY <2>2
<1>8. Span[Levels - 1] = Fanout
  <2>1. Levels \in 1..Levels
    BY Numbers
  <2>2. QED  BY <2>1, <1>6, <1>4, Numbers
<1>9. QED  BY <1>4, <1>6, <1>7, <1>8
-----------------------------------------------------------------------------
(* Indexes. *)

Block(v, l) == v \div Span[l]

LEMMA IndexRange ==
  ASSUME NEW v \in Nat, NEW l \in 0..Levels
  PROVE  Index(v, l) \in Slots /\ Block(v, l) \in Nat
<1>1. Span[l] \in Nat \ {0}
  BY SpanFacts
<1>2. v \div Span[l] \in Nat
  BY <1>1, QuotientBounds
<1>3. QED  BY <1>2, Numbers DEF Index, Slots, Block

LEMMA PagesAreNumbers ==
  VPages \subseteq Nat /\ \A v \in VPages : Block(v, 0) = 0
<1>1. Span[0] \in Nat \ {0}
  BY SpanFacts, Numbers
<1>2. VPages = 0..Span[0] - 1
  BY DEF VPages
<1>3. ASSUME NEW v \in VPages PROVE v \in Nat /\ v < Span[0]
  BY <1>1, <1>2
<1>4. ASSUME NEW v \in VPages PROVE Block(v, 0) = 0
  <2> DEFINE s == Span[0]
  <2>1. v \in Nat /\ s \in Nat \ {0} /\ v < s
    BY <1>1, <1>3
  <2> HIDE DEF s
  <2>2. v \div s = 0
    BY <2>1, Quotient
  <2>3. QED  BY <2>2 DEF s, Block
<1>5. QED  BY <1>3, <1>4

LEMMA BlockAbove ==
  ASSUME NEW v \in Nat, NEW l \in 1..Levels
  PROVE  /\ Block(v, l - 1) = Block(v, l) \div Fanout
         /\ Block(v, l) = Block(v, l - 1) * Fanout + Index(v, l)
<1> DEFINE s == Span[l]
           q == v \div s
<1>1. s \in Nat \ {0} /\ Span[l - 1] = Fanout * s
  BY SpanFacts, Numbers
<1> HIDE DEF s
<1>2. (v \div s) \div Fanout = v \div (Fanout * s)
  <2>1. s \in Nat \ {0} /\ Fanout \in Nat \ {0}
    BY <1>1, Numbers
  <2>2. QED  BY <2>1, NestedQuotient, Zenon
<1>3. q \in Nat
  BY <1>1, QuotientBounds
<1>4. Block(v, l) = q /\ Block(v, l - 1) = q \div Fanout /\ Index(v, l) = q % Fanout
  BY <1>1, <1>2 DEF Block, Index, s
<1> HIDE DEF q
<1>5. q = (q \div Fanout) * Fanout + (q % Fanout)
  BY <1>3, Numbers, QuotientBounds
<1>6. QED  BY <1>4, <1>5

LEMMA SamePathSameBlock ==
  ASSUME NEW v \in VPages, NEW w \in VPages, NEW k \in 0..Levels
  PROVE  SamePath(v, w, k) <=> Block(v, k) = Block(w, k)
<1> DEFINE S == {n \in 0..Levels : ~(SamePath(v, w, n) <=> Block(v, n) = Block(w, n))}
<1>0. v \in Nat /\ w \in Nat
  BY PagesAreNumbers
<1>1. S = {}
  <2> SUFFICES ASSUME S # {} PROVE FALSE
    OBVIOUS
  <2>1. S \in SUBSET Nat
    BY Numbers
  <2>2. PICK n \in S : \A y \in S : n <= y
    BY <2>1, Least
  <2>3. n \in 0..Levels /\ ~(SamePath(v, w, n) <=> Block(v, n) = Block(w, n))
    OBVIOUS
  <2>4. n # 0
    <3>1. SamePath(v, w, 0)
      BY DEF SamePath
    <3>2. Block(v, 0) = Block(w, 0)
      BY PagesAreNumbers
    <3>3. QED  BY <3>1, <3>2, <2>3
  <2>5. n - 1 \in 0..Levels /\ n - 1 \notin S /\ n \in 1..Levels
    BY <2>2, <2>3, <2>4, Numbers
  <2>6. SamePath(v, w, n - 1) <=> Block(v, n - 1) = Block(w, n - 1)
    BY <2>5
  <2>7. SamePath(v, w, n) <=> SamePath(v, w, n - 1) /\ Index(v, n) = Index(w, n)
    <3>1. 1..n = (1..n - 1) \cup {n}
      BY <2>5, Numbers
    <3>2. QED  BY <3>1 DEF SamePath
  <2>8. /\ Block(v, n) \in Nat /\ Block(w, n) \in Nat
        /\ Block(v, n - 1) \in Nat /\ Block(w, n - 1) \in Nat
        /\ Index(v, n) \in Slots /\ Index(w, n) \in Slots
    BY <1>0, <2>3, <2>5, IndexRange
  <2>9. /\ Block(v, n) = Block(v, n - 1) * Fanout + Index(v, n)
        /\ Block(w, n) = Block(w, n - 1) * Fanout + Index(w, n)
        /\ Block(v, n - 1) = Block(v, n) \div Fanout
        /\ Block(w, n - 1) = Block(w, n) \div Fanout
    BY <1>0, <2>5, BlockAbove
  <2>10. CASE Block(v, n) = Block(w, n)
    <3>1. Block(v, n - 1) = Block(w, n - 1)
      BY <2>9, <2>10
    <3>2. Index(v, n) = Index(w, n)
      <4> DEFINE x == Block(v, n - 1) * Fanout
      <4>1. x \in Nat
        BY <2>8, Numbers
      <4>2. x + Index(v, n) = x + Index(w, n)
        BY <2>9, <2>10, <3>1
      <4>3. Index(v, n) \in Nat /\ Index(w, n) \in Nat
        BY <2>8, Numbers DEF Slots
      <4> HIDE DEF x
      <4>4. QED  BY <4>1, <4>2, <4>3
    <3>3. QED  BY <2>3, <2>6, <2>7, <2>10, <3>1, <3>2
  <2>11. CASE Block(v, n) # Block(w, n)
    <3>1. ~(Block(v, n - 1) = Block(w, n - 1) /\ Index(v, n) = Index(w, n))
      BY <2>9, <2>11
    <3>2. QED  BY <2>3, <2>6, <2>7, <2>11, <3>1
  <2>12. QED  BY <2>10, <2>11
<1>2. QED  BY <1>1

LEMMA Offset == \A v \in Nat : Index(v, Levels) = v % Fanout
<1>1. ASSUME NEW v \in Nat PROVE v \div 1 = v
  <2>1. v * 1 <= v /\ v < v * 1 + 1 /\ 1 \in Nat \ {0}
    OBVIOUS
  <2>2. QED  BY <2>1, Quotient
<1>2. QED  BY <1>1, SpanFacts DEF Index

(* The indexes on all levels tell pages apart. *)
LEMMA PagesApart ==
  ASSUME NEW v \in VPages, NEW w \in VPages, SamePath(v, w, Levels)
  PROVE  v = w
<1>1. Block(v, Levels) = Block(w, Levels)
  BY SamePathSameBlock, Numbers
<1>2. v \in Nat /\ w \in Nat
  BY PagesAreNumbers
<1>3. v \div 1 = v /\ w \div 1 = w
  <2>1. v * 1 <= v /\ v < v * 1 + 1 /\ w * 1 <= w /\ w < w * 1 + 1 /\ 1 \in Nat \ {0}
    BY <1>2
  <2>2. QED  BY <2>1, <1>2, Quotient
<1>4. QED  BY <1>1, <1>3, SpanFacts DEF Block

(* Those on all levels but the last tell the pages of a huge one. *)
LEMMA HugePagesApart ==
  ASSUME NEW v \in VPages, NEW w \in VPages, w % Fanout = 0
  PROVE  /\ SamePath(v, w, Levels - 1) <=> v \in w..w + Fanout - 1
         /\ v \in w..w + Fanout - 1 => v % Fanout = v - w
<1>0. v \in Nat /\ w \in Nat /\ Fanout \in Nat \ {0, 1}
  BY PagesAreNumbers, Numbers
<1>1. SamePath(v, w, Levels - 1) <=> v \div Fanout = w \div Fanout
  BY SamePathSameBlock, SpanFacts, Numbers DEF Block
<1> DEFINE a == v \div Fanout
           b == w \div Fanout
           x == a * Fanout
           y == b * Fanout
           r == v % Fanout
<1>2. /\ a \in Nat /\ x \in Nat /\ b \in Nat /\ y \in Nat
      /\ v = x + r /\ r \in 0..Fanout - 1 /\ w = y
  <2>1. a \in Nat /\ v = a * Fanout + r /\ r \in 0..Fanout - 1
    BY <1>0, QuotientBounds
  <2>2. b \in Nat /\ w = b * Fanout + (w % Fanout)
    BY <1>0, QuotientBounds
  <2>3. x \in Nat /\ y \in Nat
    BY <1>0, <2>1, <2>2, Monotone
  <2>4. QED  BY <2>1, <2>2, <2>3
<1> HIDE DEF r
<1>3. CASE a = b
  <2>1. x = y
    BY <1>3
  <2> HIDE DEF x, y
  <2>2. v \in w..w + Fanout - 1 /\ r = v - w
    BY <1>0, <1>2, <2>1
  <2>3. QED  BY <2>2, <1>1, <1>3 DEF r
<1>4. CASE a # b
  <2>1. v \notin w..w + Fanout - 1
    <3> SUFFICES ASSUME v \in w..w + Fanout - 1 PROVE FALSE
      OBVIOUS
    <3>1. b * Fanout <= v /\ v < b * Fanout + Fanout
      BY <1>0, <1>2
    <3>2. a = b
      BY <3>1, <1>0, <1>2, Quotient
    <3>3. QED  BY <3>2, <1>4
  <2>2. QED  BY <2>1, <1>1, <1>4
<1>5. QED  BY <1>3, <1>4
-----------------------------------------------------------------------------
(* Walks. *)

(* What the definition of Resolved asks for, on the levels down to k. *)
ResolvesTo(k, f, m, r, v) ==
  f = [l \in 0..k |->
        IF l = 0 THEN Entry("table", r, "wu")
        ELSE IF f[l - 1].kind = "table" THEN m[f[l - 1].to][Index(v, l)]
        ELSE f[l - 1]]

LEMMA ResolvedExists ==
  ASSUME NEW m, NEW r, NEW v
  PROVE  \E f : ResolvesTo(Levels, f, m, r, v)
<1> DEFINE S == {n \in 0..Levels : ~ \E f : ResolvesTo(n, f, m, r, v)}
<1>1. S = {}
  <2> SUFFICES ASSUME S # {} PROVE FALSE
    OBVIOUS
  <2>1. S \in SUBSET Nat
    BY Numbers
  <2>2. PICK n \in S : \A y \in S : n <= y
    BY <2>1, Least
  <2>3. n \in 0..Levels /\ ~ \E f : ResolvesTo(n, f, m, r, v)
    OBVIOUS
  <2>4. n # 0
    <3> DEFINE f == [l \in 0..0 |-> Entry("table", r, "wu")]
    <3>1. ResolvesTo(0, f, m, r, v)
      BY DEF ResolvesTo
    <3>2. QED  BY <3>1, <2>3
  <2>5. n - 1 \in 0..Levels /\ n - 1 \notin S
    BY <2>2, <2>3, <2>4, Numbers
  <2>6. PICK f : ResolvesTo(n - 1, f, m, r, v)
    BY <2>5
  <2> DEFINE last == IF f[n - 1].kind = "table"
                     THEN m[f[n - 1].to][Index(v, n)] ELSE f[n - 1]
             g == [l \in 0..n |-> IF l = n THEN last ELSE f[l]]
  <2>7. /\ \A l \in 0..n - 1 : f[l] =
              IF l = 0 THEN Entry("table", r, "wu")
              ELSE IF f[l - 1].kind = "table" THEN m[f[l - 1].to][Index(v, l)]
              ELSE f[l - 1]
    BY <2>6 DEF ResolvesTo
  <2>8. g[n] = last /\ \A l \in 0..n - 1 : g[l] = f[l]
    BY <2>3, <2>4, Numbers
  <2> HIDE DEF last
  <2>9. \A l \in 0..n : g[l] =
              IF l = 0 THEN Entry("table", r, "wu")
              ELSE IF g[l - 1].kind = "table" THEN m[g[l - 1].to][Index(v, l)]
              ELSE g[l - 1]
    <3> TAKE l \in 0..n
    <3>1. CASE l = n
      <4>1. n - 1 \in 0..n - 1
        BY <2>3, <2>4, Numbers
      <4>2. g[n - 1] = f[n - 1]
        BY <4>1, <2>8
      <4>3. g[n] = IF g[n - 1].kind = "table"
                   THEN m[g[n - 1].to][Index(v, n)] ELSE g[n - 1]
        BY <4>2, <2>8 DEF last
      <4>4. QED  BY <3>1, <4>3, <2>4
    <3>2. CASE l # n
      <4>1. l \in 0..n - 1 /\ (l # 0 => l - 1 \in 0..n - 1)
        BY <3>2, <2>3, Numbers
      <4>2. g[l] = f[l] /\ (l # 0 => g[l - 1] = f[l - 1])
        BY <4>1, <2>8
      <4>3. QED  BY <4>1, <4>2, <2>7
    <3>3. QED  BY <3>1, <3>2
  <2> DEFINE rest == [l \in 0..n |->
                        IF l = 0 THEN Entry("table", r, "wu")
                        ELSE IF g[l - 1].kind = "table"
                        THEN m[g[l - 1].to][Index(v, l)]
                        ELSE g[l - 1]]
  <2>10. g = rest
    <3>1. \A l \in 0..n : g[l] = rest[l]
      BY <2>9
    <3>2. g = [l \in 0..n |-> g[l]] /\ rest = [l \in 0..n |-> rest[l]]
      OBVIOUS
    <3> HIDE DEF g, rest
    <3>3. QED  BY <3>1, <3>2
  <2>11. ResolvesTo(n, g, m, r, v)
    <3> HIDE DEF g
    <3>1. QED  BY <2>10 DEF ResolvesTo
  <2>12. QED  BY <2>11, <2>3
<1>2. Levels \in 0..Levels
  BY Numbers
<1>3. QED  BY <1>1, <1>2

LEMMA ResolvedFacts ==
  ASSUME NEW m, NEW r, NEW v
  PROVE  /\ Resolved(m, r, v)[0] = Entry("table", r, "wu")
         /\ \A l \in 1..Levels : Resolved(m, r, v)[l] =
              IF Resolved(m, r, v)[l - 1].kind = "table"
              THEN m[Resolved(m, r, v)[l - 1].to][Index(v, l)]
              ELSE Resolved(m, r, v)[l - 1]
<1> DEFINE P(e) == e = [l \in 0..Levels |->
                     IF l = 0 THEN Entry("table", r, "wu")
                     ELSE IF e[l - 1].kind = "table" THEN m[e[l - 1].to][Index(v, l)]
                     ELSE e[l - 1]]
<1>1. \E e : P(e)
  <2>1. PICK f : ResolvesTo(Levels, f, m, r, v)
    BY ResolvedExists
  <2>2. P(f)
    BY <2>1 DEF ResolvesTo
  <2> HIDE DEF P
  <2>3. QED  BY <2>2
<1>2. P(CHOOSE e : P(e))
  <2> HIDE DEF P
  <2>1. QED  BY <1>1
<1>3. Resolved(m, r, v) = CHOOSE e : P(e)
  BY DEF Resolved
<1>4. P(Resolved(m, r, v))
  BY <1>2, <1>3
<1> DEFINE R == Resolved(m, r, v)
<1>5. R = [l \in 0..Levels |->
             IF l = 0 THEN Entry("table", r, "wu")
             ELSE IF R[l - 1].kind = "table" THEN m[R[l - 1].to][Index(v, l)]
             ELSE R[l - 1]]
  BY <1>4
<1> HIDE DEF R
<1>6. R[0] = Entry("table", r, "wu")
  <2>1. 0 \in 0..Levels
    BY Numbers
  <2>2. QED  BY <1>5, <2>1
<1>7. \A l \in 1..Levels : R[l] =
        IF R[l - 1].kind = "table" THEN m[R[l - 1].to][Index(v, l)] ELSE R[l - 1]
  <2>1. SUFFICES ASSUME NEW l \in 1..Levels
                 PROVE  R[l] = IF R[l - 1].kind = "table"
                               THEN m[R[l - 1].to][Index(v, l)] ELSE R[l - 1]
    OBVIOUS
  <2>2. l \in 0..Levels /\ l # 0
    BY Numbers
  <2>3. QED  BY <1>5, <2>2
<1>8. QED  BY <1>6, <1>7 DEF R
-----------------------------------------------------------------------------
(* Trees of tables. *)

Shape(r, m, H, lab) ==
  /\ H \subseteq Frames /\ m \in [Frames -> [Slots -> Entries]]
  /\ Tree(r, m, H, lab)

(* The entry at which the walk of page v ends. *)
EndsAt(m, H, lab, v, f) ==
  /\ f \in H /\ OnPath(lab, f, v)
  /\ ~ Link(m, f, Index(v, lab[f].level))

LEMMA LevelFacts ==
  ASSUME NEW r, NEW m, NEW H, NEW lab, Tree(r, m, H, lab), NEW f \in H,
         NEW v \in VPages
  PROVE  /\ lab[f].level \in 1..Levels /\ lab[f].level \in 0..Levels
         /\ lab[f].level - 1 \in 0..Levels
         /\ lab[f].page \in VPages /\ Index(v, lab[f].level) \in Slots
<1>1. lab[f] \in Labels
  BY DEF Tree
<1>2. lab[f].level \in 1..Levels /\ lab[f].page \in VPages
  BY <1>1 DEF Labels
<1>3. lab[f].level \in 0..Levels /\ lab[f].level - 1 \in 0..Levels
  BY <1>2, Numbers
<1>4. QED  BY <1>2, <1>3, PagesAreNumbers, IndexRange

(* A table on the walk of a page leads to a table on it. *)
LEMMA LinkOnPath ==
  ASSUME NEW r, NEW m, NEW H, NEW lab, Tree(r, m, H, lab), NEW f \in H,
         NEW i \in Slots, Link(m, f, i), NEW v \in VPages
  PROVE  LET g == m[f][i].to IN
         /\ g \in H /\ lab[g].level = lab[f].level + 1
         /\ OnPath(lab, g, v) <=> OnPath(lab, f, v) /\ Index(v, lab[f].level) = i
<1> DEFINE g == m[f][i].to
           k == lab[f].level
           p == lab[g].page
<1>1. /\ g \in H /\ lab[g].level = k + 1
      /\ OnPath(lab, f, p) /\ Index(p, k) = i
  BY DEF Tree
<1>2. k \in 1..Levels
  BY LevelFacts
<1> HIDE DEF k, g
<1>3. lab[g].level - 1 = k /\ 1..k = (1..k - 1) \cup {k}
  BY <1>1, <1>2, Numbers
<1>4. OnPath(lab, g, v) <=> SamePath(v, p, k - 1) /\ Index(v, k) = Index(p, k)
  BY <1>3 DEF OnPath, SamePath
<1>5. SamePath(p, lab[f].page, k - 1)
  BY <1>1 DEF OnPath, k
<1>6. SamePath(v, p, k - 1) <=> SamePath(v, lab[f].page, k - 1)
  BY <1>5 DEF SamePath
<1>7. QED  BY <1>1, <1>4, <1>6 DEF OnPath, k, g

(* Every walk ends. *)
LEMMA WalkEnds ==
  ASSUME NEW r, NEW m, NEW H, NEW lab, Tree(r, m, H, lab), NEW v \in VPages
  PROVE  \E f \in H : EndsAt(m, H, lab, v, f)
<1> DEFINE S == {Levels - lab[f].level : f \in {g \in H : OnPath(lab, g, v)}}
<1>1. S \in SUBSET Nat
  BY LevelFacts, Numbers
<1>2. r \in H /\ OnPath(lab, r, v)
  <2>1. r \in H /\ lab[r].level = 1
    BY DEF Tree
  <2>2. 1..lab[r].level - 1 = {}
    BY <2>1
  <2>3. QED  BY <2>1, <2>2 DEF OnPath, SamePath
<1>3. PICK x \in S : \A y \in S : x <= y
  <2>1. Levels - lab[r].level \in S
    BY <1>2
  <2>2. S # {}
    BY <2>1, Zenon
  <2> HIDE DEF S
  <2>3. QED  BY <1>1, <2>2, Least, Zenon
<1>4. PICK f \in H : OnPath(lab, f, v) /\ x = Levels - lab[f].level
  OBVIOUS
<1>5. Index(v, lab[f].level) \in Slots /\ lab[f].level \in 1..Levels
  BY LevelFacts
<1>6. ~ Link(m, f, Index(v, lab[f].level))
  <2> SUFFICES ASSUME Link(m, f, Index(v, lab[f].level)) PROVE FALSE
    OBVIOUS
  <2> DEFINE g == m[f][Index(v, lab[f].level)].to
  <2>1. g \in H /\ lab[g].level = lab[f].level + 1 /\ OnPath(lab, g, v)
    BY <1>4, <1>5, LinkOnPath
  <2> HIDE DEF g
  <2>2. Levels - lab[g].level \in S
    BY <2>1
  <2>3. x <= Levels - lab[g].level
    BY <2>2, <1>3
  <2>4. QED  BY <2>1, <2>3, <1>4, <1>5, Numbers
<1>7. QED  BY <1>4, <1>6 DEF EndsAt

(* The walk of a page comes to the tables on its path. *)
LEMMA WalkReaches ==
  ASSUME NEW r, NEW m, NEW H, NEW lab, Tree(r, m, H, lab), NEW v \in VPages,
         NEW f \in H, OnPath(lab, f, v)
  PROVE  /\ Resolved(m, r, v)[lab[f].level - 1].kind = "table"
         /\ Resolved(m, r, v)[lab[f].level - 1].to = f
<1> DEFINE R == Resolved(m, r, v)
           Reaches(g) == R[lab[g].level - 1].kind = "table"
                         /\ R[lab[g].level - 1].to = g
           S == {lab[g].level : g \in {h \in H : OnPath(lab, h, v) /\ ~ Reaches(h)}}
<1>1. R[0] = Entry("table", r, "wu")
  BY ResolvedFacts
<1>2. \A l \in 1..Levels : R[l] =
        IF R[l - 1].kind = "table" THEN m[R[l - 1].to][Index(v, l)] ELSE R[l - 1]
  BY ResolvedFacts
<1> HIDE DEF R
<1>3. S = {}
  <2> SUFFICES ASSUME S # {} PROVE FALSE
    OBVIOUS
  <2>1. S \in SUBSET Nat
    <3>1. \A g \in H : lab[g].level \in Nat
      BY LevelFacts, Numbers
    <3>2. QED  BY <3>1
  <2>2. PICK x \in S : \A y \in S : x <= y
    BY <2>1, Least
  <2>3. PICK g \in H : OnPath(lab, g, v) /\ ~ Reaches(g) /\ x = lab[g].level
    OBVIOUS
  <2>4. g # r
    <3>1. lab[r].level - 1 = 0
      BY DEF Tree
    <3>2. Reaches(r)
      BY <3>1, <1>1 DEF Entry
    <3>3. QED  BY <3>2, <2>3
  <2>5. PICK p \in H, i \in Slots : Link(m, p, i) /\ m[p][i].to = g
    BY <2>4 DEF Tree
  <2>6. /\ lab[g].level = lab[p].level + 1
        /\ OnPath(lab, p, v) /\ Index(v, lab[p].level) = i
    BY <2>3, <2>5, LinkOnPath
  <2>7. lab[p].level \in 1..Levels /\ lab[p].level \notin S
    <3>1. lab[p].level \in 1..Levels
      BY LevelFacts
    <3>2. ~(x <= lab[p].level)
      BY <3>1, <2>3, <2>6, Numbers
    <3>3. QED  BY <3>1, <3>2, <2>2
  <2>8. R[lab[p].level - 1].kind = "table" /\ R[lab[p].level - 1].to = p
    BY <2>6, <2>7
  <2>9. R[lab[p].level] = m[p][i]
    BY <2>6, <2>7, <2>8, <1>2
  <2>10. lab[g].level - 1 = lab[p].level
    BY <2>6, <2>7, Numbers
  <2>11. Reaches(g)
    BY <2>5, <2>9, <2>10 DEF Link
  <2>12. QED  BY <2>3, <2>11
<1>4. Reaches(f)
  BY <1>3
<1>5. QED  BY <1>4 DEF R

(* The entry at which the walk of a page ends decides its translation. *)
LEMMA EndDecides ==
  ASSUME NEW r, NEW m, NEW H, NEW lab, Tree(r, m, H, lab), NEW v \in VPages,
         NEW f, EndsAt(m, H, lab, v, f)
  PROVE  Resolved(m, r, v)[Levels] = m[f][Index(v, lab[f].level)]
<1> DEFINE R == Resolved(m, r, v)
           k == lab[f].level
           e == m[f][Index(v, k)]
           S == {l \in k..Levels : R[l] # e}
<1>1. f \in H /\ OnPath(lab, f, v) /\ e.kind # "table"
  BY DEF EndsAt, Link
<1>2. k \in 1..Levels
  BY <1>1, LevelFacts
<1>3. R[k - 1].kind = "table" /\ R[k - 1].to = f
  BY <1>1, WalkReaches
<1>4. \A l \in 1..Levels : R[l] =
        IF R[l - 1].kind = "table" THEN m[R[l - 1].to][Index(v, l)] ELSE R[l - 1]
  BY ResolvedFacts
<1> HIDE DEF R, k
<1>5. R[k] = e
  BY <1>2, <1>3, <1>4
<1> HIDE DEF e
<1>6. S = {}
  <2> SUFFICES ASSUME S # {} PROVE FALSE
    OBVIOUS
  <2>1. S \in SUBSET Nat
    BY <1>2, Numbers
  <2>2. PICK x \in S : \A y \in S : x <= y
    BY <2>1, Least
  <2>3. x \in k..Levels /\ R[x] # e
    OBVIOUS
  <2>4. x - 1 \in k..Levels /\ x - 1 \notin S
    BY <2>2, <2>3, <1>2, <1>5, Numbers
  <2>5. R[x - 1] = e
    BY <2>4
  <2>6. x \in 1..Levels
    BY <2>3, <1>2, Numbers
  <2>7. QED  BY <2>3, <2>5, <2>6, <1>1, <1>4
<1>7. Levels \in k..Levels
  BY <1>2, Numbers
<1>8. R[Levels] = e
  BY <1>6, <1>7
<1>9. QED  BY <1>8 DEF R, e, k

TranslateIn(m, r, v) == TranslationBy(Resolved(m, r, v)[Levels], v)

LEMMA EndTranslates ==
  ASSUME NEW r, NEW m, NEW H, NEW lab, Tree(r, m, H, lab), NEW v \in VPages,
         NEW f, EndsAt(m, H, lab, v, f)
  PROVE  TranslateIn(m, r, v) = TranslationBy(m[f][Index(v, lab[f].level)], v)
  BY EndDecides DEF TranslateIn
-----------------------------------------------------------------------------
(* What changes of entries do to a tree. *)

Written(m, f, i, e) == [m EXCEPT ![f][i] = e]

DiffersAt(n, m, f, i, e) ==
  /\ n \in [Frames -> [Slots -> Entries]]
  /\ \A g \in Frames, j \in Slots :
       n[g][j] = IF g = f /\ j = i THEN e ELSE m[g][j]

LEMMA WrittenFacts ==
  ASSUME NEW m \in [Frames -> [Slots -> Entries]], NEW f \in Frames,
         NEW i \in Slots, NEW e \in Entries
  PROVE  DiffersAt(Written(m, f, i, e), m, f, i, e)
<1> DEFINE row == [m[f] EXCEPT ![i] = e]
<1>1. m[f] \in [Slots -> Entries]
  OBVIOUS
<1>2. row \in [Slots -> Entries] /\ \A j \in Slots : row[j] = IF j = i THEN e ELSE m[f][j]
  BY <1>1
<1>3. Written(m, f, i, e) = [m EXCEPT ![f] = row]
  BY DEF Written
<1> HIDE DEF row
<1>4. QED  BY <1>2, <1>3 DEF DiffersAt

(* A leaf is written. *)
LEMMA WriteKeepsTree ==
  ASSUME NEW r, NEW m, NEW H, NEW lab, Shape(r, m, H, lab), NEW f \in H,
         NEW i \in Slots, ~ Link(m, f, i), NEW e \in Entries, e.kind # "table"
  PROVE  /\ Shape(r, Written(m, f, i, e), H, lab)
         /\ \A v \in VPages : TranslateIn(Written(m, f, i, e), r, v) =
              IF OnPath(lab, f, v) /\ Index(v, lab[f].level) = i
              THEN TranslationBy(e, v) ELSE TranslateIn(m, r, v)
<1> DEFINE n == Written(m, f, i, e)
<1>0. H \subseteq Frames /\ m \in [Frames -> [Slots -> Entries]] /\ Tree(r, m, H, lab)
  BY DEF Shape
<1>1. /\ n \in [Frames -> [Slots -> Entries]]
      /\ \A g \in Frames, j \in Slots :
           n[g][j] = IF g = f /\ j = i THEN e ELSE m[g][j]
  <2>1. f \in Frames
    BY <1>0
  <2>2. DiffersAt(n, m, f, i, e)
    BY <1>0, <2>1, WrittenFacts
  <2>3. QED  BY <2>2 DEF DiffersAt
<1> HIDE DEF n
<1>2. \A g \in H, j \in Slots :
        /\ Link(n, g, j) <=> Link(m, g, j)
        /\ Link(n, g, j) => n[g][j].to = m[g][j].to
  BY <1>0, <1>1 DEF Link
<1>3. Tree(r, n, H, lab)
  <2>1. \A g \in H, j \in Slots : Link(n, g, j) =>
          LET h == n[g][j].to IN
            /\ h \in H /\ h # r /\ lab[h].level = lab[g].level + 1
            /\ OnPath(lab, g, lab[h].page) /\ Index(lab[h].page, lab[g].level) = j
    BY <1>0, <1>2 DEF Tree
  <2>2. \A g \in H \ {r} : \E h \in H, j \in Slots :
          Link(n, h, j) /\ n[h][j].to = g
    <3> TAKE g \in H \ {r}
    <3>1. PICK h \in H, j \in Slots : Link(m, h, j) /\ m[h][j].to = g
      BY <1>0 DEF Tree
    <3>2. Link(n, h, j) /\ n[h][j].to = g
      BY <1>2, <3>1
    <3>3. QED  BY <3>2
  <2>3. \A g, h \in H, j, l \in Slots :
          Link(n, g, j) /\ Link(n, h, l) /\ n[g][j].to = n[h][l].to
            => g = h /\ j = l
    <3> TAKE g, h \in H, j, l \in Slots
    <3> HAVE Link(n, g, j) /\ Link(n, h, l) /\ n[g][j].to = n[h][l].to
    <3>1. Link(m, g, j) /\ Link(m, h, l) /\ m[g][j].to = m[h][l].to
      BY <1>2
    <3>2. QED  BY <1>0, <3>1 DEF Tree
  <2>4. lab \in [H -> Labels] /\ r \in H /\ lab[r].level = 1
    BY <1>0 DEF Tree
  <2>5. QED  BY <2>1, <2>2, <2>3, <2>4 DEF Tree
<1>4. ASSUME NEW v \in VPages
      PROVE  TranslateIn(n, r, v) =
               IF OnPath(lab, f, v) /\ Index(v, lab[f].level) = i
               THEN TranslationBy(e, v) ELSE TranslateIn(m, r, v)
  <2>1. PICK g \in H : EndsAt(m, H, lab, v, g)
    BY <1>0, WalkEnds
  <2>2. Index(v, lab[f].level) \in Slots /\ Index(v, lab[g].level) \in Slots
    BY <1>0, LevelFacts
  <2>3. EndsAt(n, H, lab, v, g)
    BY <1>2, <2>1, <2>2 DEF EndsAt
  <2>4. /\ TranslateIn(n, r, v) = TranslationBy(n[g][Index(v, lab[g].level)], v)
        /\ TranslateIn(m, r, v) = TranslationBy(m[g][Index(v, lab[g].level)], v)
    BY <1>0, <1>3, <2>1, <2>3, EndTranslates
  <2>5. CASE OnPath(lab, f, v) /\ Index(v, lab[f].level) = i
    <3>1. EndsAt(n, H, lab, v, f)
      BY <1>2, <2>5 DEF EndsAt
    <3>2. TranslateIn(n, r, v) = TranslationBy(n[f][i], v)
      BY <1>3, <2>5, <3>1, EndTranslates
    <3>3. n[f][i] = e
      BY <1>0, <1>1
    <3>4. QED  BY <3>2, <3>3, <2>5
  <2>6. CASE ~(OnPath(lab, f, v) /\ Index(v, lab[f].level) = i)
    <3>1. ~(g = f /\ Index(v, lab[g].level) = i)
      BY <2>1, <2>6 DEF EndsAt
    <3>2. n[g][Index(v, lab[g].level)] = m[g][Index(v, lab[g].level)]
      BY <1>0, <1>1, <2>2, <3>1
    <3>3. QED  BY <3>2, <2>4, <2>6
  <2>7. QED  BY <2>5, <2>6
<1>5. QED  BY <1>0, <1>1, <1>3, <1>4 DEF Shape, n

(* What may be written into table f. *)
LeafAt(lab, f, e) ==
  /\ e.kind = "page" => lab[f].level = Levels
  /\ e.kind = "huge" =>
       lab[f].level = Levels - 1 /\ e.to + Fanout - 1 \in PhysPages

LEMMA WriteKeepsLeaves ==
  ASSUME NEW m, m \in [Frames -> [Slots -> Entries]],
         NEW H, H \subseteq Frames, NEW lab, Leaves(m, H, lab),
         NEW f \in H, NEW i \in Slots, NEW e \in Entries, LeafAt(lab, f, e)
  PROVE  Leaves(Written(m, f, i, e), H, lab)
<1> DEFINE n == Written(m, f, i, e)
<1>1. /\ n \in [Frames -> [Slots -> Entries]]
      /\ \A g \in Frames, j \in Slots :
           n[g][j] = IF g = f /\ j = i THEN e ELSE m[g][j]
  <2>1. f \in Frames /\ m \in [Frames -> [Slots -> Entries]]
    OBVIOUS
  <2>2. DiffersAt(n, m, f, i, e)
    BY <2>1, WrittenFacts
  <2>3. QED  BY <2>2 DEF DiffersAt
<1> HIDE DEF n
<1>2. \A g \in H, j \in Slots : n[g][j] = IF g = f /\ j = i THEN e ELSE m[g][j]
  BY <1>1
<1>3. Leaves(n, H, lab)
  BY <1>2 DEF Leaves, LeafAt
<1>4. QED  BY <1>3 DEF n

(* A new table takes the place of a leaf. *)
GrownBy(m, f, i, g, c) == [m EXCEPT ![f][i] = Entry("table", g, "wu"), ![g] = c]

LabelledToo(H, lab, f, g, w) ==
  [x \in H \cup {g} |->
     IF x = g THEN [level |-> lab[f].level + 1, page |-> w] ELSE lab[x]]

LEMMA GrownFacts ==
  ASSUME NEW m \in [Frames -> [Slots -> Entries]], NEW f \in Frames,
         NEW i \in Slots, NEW g \in Frames, f # g, NEW c \in [Slots -> Entries]
  PROVE  /\ GrownBy(m, f, i, g, c) \in [Frames -> [Slots -> Entries]]
         /\ \A h \in Frames, j \in Slots : GrownBy(m, f, i, g, c)[h][j] =
              IF h = g THEN c[j]
              ELSE IF h = f /\ j = i THEN Entry("table", g, "wu") ELSE m[h][j]
<1> DEFINE e == Entry("table", g, "wu")
           w == Written(m, f, i, e)
<1>1. e \in Entries
  BY DEF Entry, Entries, Flags
<1> HIDE DEF e
<1>2. /\ w \in [Frames -> [Slots -> Entries]]
      /\ \A h \in Frames, j \in Slots :
           w[h][j] = IF h = f /\ j = i THEN e ELSE m[h][j]
  <2>1. DiffersAt(w, m, f, i, e)
    BY <1>1, WrittenFacts
  <2>2. QED  BY <2>1 DEF DiffersAt
<1>3. GrownBy(m, f, i, g, c) = [w EXCEPT ![g] = c]
  BY DEF GrownBy, Written, e
<1> HIDE DEF w
<1>4. QED  BY <1>2, <1>3 DEF e

(* Entry i of table f, on the walk of page w, may become a table g. *)
CanGrow(r, m, H, lab, f, i, g, c, w) ==
  /\ Shape(r, m, H, lab)
  /\ f \in H /\ i \in Slots /\ ~ Link(m, f, i)
  /\ g \in Frames /\ g \notin H
  /\ c \in [Slots -> Entries] /\ \A j \in Slots : c[j].kind # "table"
  /\ w \in VPages /\ OnPath(lab, f, w) /\ Index(w, lab[f].level) = i
  /\ lab[f].level < Levels

TranslatesThrough(r, n, m, lab, f, i, c) ==
  \A v \in VPages : TranslateIn(n, r, v) =
    IF OnPath(lab, f, v) /\ Index(v, lab[f].level) = i
    THEN TranslationBy(c[Index(v, lab[f].level + 1)], v)
    ELSE TranslateIn(m, r, v)

HasGrown(r, n, m, H, lab, f, i, g, c, w, lb) ==
  /\ Shape(r, n, H \cup {g}, lb)
  /\ lb[g].level = lab[f].level + 1 /\ OnPath(lb, g, w)
  /\ \A h \in H : lb[h] = lab[h]
  /\ TranslatesThrough(r, n, m, lab, f, i, c)

LEMMA GrowKeepsTree ==
  ASSUME NEW r, NEW m, NEW H, NEW lab, NEW f, NEW i, NEW g, NEW c, NEW w,
         CanGrow(r, m, H, lab, f, i, g, c, w)
  PROVE  HasGrown(r, GrownBy(m, f, i, g, c), m, H, lab, f, i, g, c, w,
                  LabelledToo(H, lab, f, g, w))
<1> USE DEF CanGrow
<1>l. PICK lb : lb = LabelledToo(H, lab, f, g, w)
  OBVIOUS
<1> DEFINE n == GrownBy(m, f, i, g, c)
           G == H \cup {g}
           k == lab[f].level
           label == [level |-> k + 1, page |-> w]
<1>0. H \subseteq Frames /\ m \in [Frames -> [Slots -> Entries]] /\ Tree(r, m, H, lab)
  BY DEF Shape
<1>1. /\ n \in [Frames -> [Slots -> Entries]]
      /\ \A h \in Frames, j \in Slots : n[h][j] =
           IF h = g THEN c[j]
           ELSE IF h = f /\ j = i THEN Entry("table", g, "wu") ELSE m[h][j]
  <2>1. f \in Frames /\ f # g /\ i \in Slots /\ g \in Frames /\ c \in [Slots -> Entries]
    BY <1>0
  <2>2. QED  BY <1>0, <2>1, GrownFacts
<1> HIDE DEF n
<1>2. k \in 1..Levels /\ k + 1 \in 1..Levels
  BY <1>0, LevelFacts, Numbers
<1>3. label \in Labels
  BY <1>2 DEF Labels
<1>4. lb[g] = label /\ \A h \in H : lb[h] = lab[h]
  BY <1>l DEF LabelledToo
<1>5. lb \in [G -> Labels]
  <2>1. lab \in [H -> Labels]
    BY <1>0 DEF Tree
  <2> HIDE DEF label
  <2>2. QED  BY <2>1, <1>3, <1>l DEF LabelledToo, label
<1>6. \A h \in H : \A v : OnPath(lb, h, v) <=> OnPath(lab, h, v)
  BY <1>4 DEF OnPath
<1>7. \A j \in Slots : ~ Link(n, g, j)
  BY <1>1 DEF Link
<1>8. Link(n, f, i) /\ n[f][i].to = g
  BY <1>0, <1>1 DEF Link, Entry
<1>9. \A h \in H, j \in Slots : ~(h = f /\ j = i) =>
        /\ Link(n, h, j) <=> Link(m, h, j)
        /\ n[h][j] = m[h][j]
  BY <1>0, <1>1 DEF Link
<1>10. \A h \in H, j \in Slots : Link(m, h, j) => m[h][j].to \in H
  BY <1>0 DEF Tree
<1>11. lb[g].level = k + 1 /\ lb[g].page = w /\ lb[f].level = k
  BY <1>4
<1> HIDE DEF label
<1>12. Tree(r, n, G, lb)
  <2>1. r \in H /\ lab[r].level = 1
    BY <1>0 DEF Tree
  <2>2. ASSUME NEW h \in G, NEW j \in Slots, Link(n, h, j)
        PROVE  LET x == n[h][j].to IN
               /\ x \in G /\ x # r /\ lb[x].level = lb[h].level + 1
               /\ OnPath(lb, h, lb[x].page) /\ Index(lb[x].page, lb[h].level) = j
    <3>1. h \in H
      BY <2>2, <1>7
    <3>2. CASE h = f /\ j = i
      <4>1. n[h][j].to = g
        BY <3>2, <1>8
      <4>2. OnPath(lb, f, w) /\ Index(w, k) = i
        BY <1>6
      <4>3. QED  BY <4>1, <4>2, <3>2, <2>1, <1>11
    <3>3. CASE ~(h = f /\ j = i)
      <4>1. Link(m, h, j) /\ n[h][j] = m[h][j]
        BY <2>2, <3>1, <3>3, <1>9
      <4> DEFINE x == m[h][j].to
      <4>2. /\ x \in H /\ x # r /\ lab[x].level = lab[h].level + 1
            /\ OnPath(lab, h, lab[x].page) /\ Index(lab[x].page, lab[h].level) = j
        BY <4>1, <3>1, <1>0 DEF Tree
      <4> HIDE DEF x
      <4>3. lb[x] = lab[x] /\ lb[h] = lab[h]
        BY <4>2, <3>1, <1>4
      <4>4. OnPath(lb, h, lb[x].page)
        BY <4>2, <4>3, <3>1, <1>6
      <4>5. QED  BY <4>1, <4>2, <4>3, <4>4 DEF x
    <3>4. QED  BY <3>2, <3>3
  <2>3. ASSUME NEW x \in G \ {r}
        PROVE  \E h \in G, j \in Slots : Link(n, h, j) /\ n[h][j].to = x
    <3>1. CASE x = g
      BY <3>1, <1>8
    <3>2. CASE x # g
      <4>1. PICK h \in H, j \in Slots : Link(m, h, j) /\ m[h][j].to = x
        BY <3>2, <1>0 DEF Tree
      <4>2. QED  BY <4>1, <1>9
    <3>3. QED  BY <3>1, <3>2
  <2>4. ASSUME NEW a \in G, NEW b \in G, NEW j \in Slots, NEW l \in Slots,
               Link(n, a, j), Link(n, b, l), n[a][j].to = n[b][l].to
        PROVE  a = b /\ j = l
    <3>1. a \in H /\ b \in H
      BY <2>4, <1>7
    <3>2. CASE a = f /\ j = i
      BY <3>1, <3>2, <2>4, <1>8, <1>9, <1>10
    <3>3. CASE b = f /\ l = i
      BY <3>1, <3>3, <2>4, <1>8, <1>9, <1>10
    <3>4. CASE ~(a = f /\ j = i) /\ ~(b = f /\ l = i)
      <4>1. Link(m, a, j) /\ Link(m, b, l) /\ m[a][j].to = m[b][l].to
        BY <3>1, <3>4, <2>4, <1>9
      <4>2. QED  BY <4>1, <3>1, <1>0 DEF Tree
    <3>5. QED  BY <3>2, <3>3, <3>4
  <2>5. lb[r].level = 1
    BY <2>1, <1>4
  <2> HIDE DEF G
  <2>6. QED  BY <1>5, <2>1, <2>2, <2>3, <2>4, <2>5 DEF Tree, G
<1>13. OnPath(lb, g, w)
  BY <1>11 DEF OnPath, SamePath
<1>14. ASSUME NEW v \in VPages
       PROVE  TranslateIn(n, r, v) =
                IF OnPath(lab, f, v) /\ Index(v, k) = i
                THEN TranslationBy(c[Index(v, k + 1)], v) ELSE TranslateIn(m, r, v)
  <2>1. CASE OnPath(lab, f, v) /\ Index(v, k) = i
    <3>1. OnPath(lb, g, v)
      BY <2>1, <1>6, <1>8, <1>11, <1>12, LinkOnPath
    <3>2. Index(v, k + 1) \in Slots
      BY <1>11, <1>12, LevelFacts
    <3>3. EndsAt(n, G, lb, v, g)
      BY <3>1, <3>2, <1>7, <1>11 DEF EndsAt
    <3>4. TranslateIn(n, r, v) = TranslationBy(n[g][Index(v, k + 1)], v)
      BY <3>3, <1>11, <1>12, EndTranslates
    <3>5. QED  BY <3>2, <3>4, <2>1, <1>1
  <2>2. CASE ~(OnPath(lab, f, v) /\ Index(v, k) = i)
    <3>1. PICK h \in H : EndsAt(m, H, lab, v, h)
      BY <1>0, WalkEnds
    <3> DEFINE j == Index(v, lab[h].level)
    <3>2. j \in Slots
      BY <1>0, LevelFacts
    <3>3. ~(h = f /\ j = i) /\ lb[h] = lab[h]
      BY <3>1, <2>2, <1>4 DEF EndsAt
    <3>4. n[h][j] = m[h][j]
      BY <3>2, <3>3, <1>9
    <3>5. EndsAt(n, G, lb, v, h)
      BY <3>1, <3>2, <3>3, <1>6, <1>9 DEF EndsAt
    <3>6. /\ TranslateIn(n, r, v) = TranslationBy(n[h][j], v)
          /\ TranslateIn(m, r, v) = TranslationBy(m[h][j], v)
      BY <3>1, <3>3, <3>5, <1>0, <1>12, EndTranslates
    <3>7. QED  BY <3>4, <3>6, <2>2
  <2>3. QED  BY <2>1, <2>2
<1>15. Shape(r, n, G, lb)
  <2>1. G \subseteq Frames
    BY <1>0
  <2>2. QED  BY <2>1, <1>1, <1>12 DEF Shape
<1>16. TranslatesThrough(r, n, m, lab, f, i, c)
  BY <1>14 DEF TranslatesThrough
<1>17. HasGrown(r, n, m, H, lab, f, i, g, c, w, lb)
  BY <1>4, <1>11, <1>13, <1>15, <1>16 DEF HasGrown
<1>18. QED  BY <1>17, <1>l DEF n

(* A table on its own. *)
LEMMA RootAlone ==
  ASSUME NEW r \in Frames, NEW m \in [Frames -> [Slots -> Entries]],
         \A i \in Slots : m[r][i] = Absent,
         NEW lab, lab = [x \in {r} |-> [level |-> 1, page |-> 0]]
  PROVE  /\ Shape(r, m, {r}, lab)
         /\ \A v \in VPages : TranslateIn(m, r, v) = Unmapped
<1>1. 0 \in VPages /\ 1 \in 1..Levels
  <2>1. Span[0] \in Nat \ {0}
    BY SpanFacts, Numbers
  <2>2. QED  BY <2>1, Numbers DEF VPages
<1>2. lab \in [{r} -> Labels] /\ lab[r] = [level |-> 1, page |-> 0]
  BY <1>1 DEF Labels
<1>3. \A i \in Slots : ~ Link(m, r, i)
  BY DEF Link, Absent, Entry
<1>4. Tree(r, m, {r}, lab)
  BY <1>2, <1>3 DEF Tree
<1>5. ASSUME NEW v \in VPages PROVE TranslateIn(m, r, v) = Unmapped
  <2>1. PICK f \in {r} : EndsAt(m, {r}, lab, v, f)
    BY <1>4, WalkEnds
  <2>2. Index(v, lab[f].level) \in Slots
    BY <1>4, LevelFacts
  <2>3. TranslateIn(m, r, v) = TranslationBy(m[f][Index(v, lab[f].level)], v)
    BY <1>4, <2>1, EndTranslates
  <2>4. m[f][Index(v, lab[f].level)] = Absent
    BY <2>1, <2>2
  <2>5. QED  BY <2>3, <2>4 DEF TranslationBy, Absent, Entry
<1>6. QED  BY <1>4, <1>5 DEF Shape
-----------------------------------------------------------------------------
(* The invariant, part by part. *)

LEMMA TranslateIs ==
  root # 0 => \A v \in VPages : Translate(v) = TranslateIn(mem, root, v)
  BY DEF Translate, TranslateIn

LEMMA TablesShape ==
  ASSUME Ranges, root # 0, NEW lab, Tree(root, mem, held, lab)
  PROVE  Shape(root, mem, held, lab)
  BY DEF Ranges, Shape

(* What a page translates to is a translation. *)
Translations == [phys : PhysPages, flags : Flags]

LEMMA UnmappedIsTranslation == Unmapped \in Translations
  BY TablesAssumption DEF Unmapped, Translations, Flags

LEMMA TranslateType ==
  ASSUME Ranges, TreeOK, NEW v \in VPages
  PROVE  Translate(v) \in Translations
<1>1. CASE root = 0
  BY <1>1, UnmappedIsTranslation DEF Translate
<1>2. CASE root # 0
  <2>1. PICK lab \in [held -> Labels] :
          Tree(root, mem, held, lab) /\ Leaves(mem, held, lab)
    BY <1>2 DEF TreeOK
  <2>2. PICK f \in held : EndsAt(mem, held, lab, v, f)
    BY <2>1, WalkEnds
  <2> DEFINE i == Index(v, lab[f].level)
             e == mem[f][i]
  <2>3. i \in Slots
    BY <2>1, LevelFacts
  <2>4. Translate(v) = TranslationBy(e, v)
    BY <1>2, <2>1, <2>2, EndTranslates, TranslateIs
  <2>5. e \in Entries
    BY <2>3 DEF Ranges
  <2>6. e.kind # "table" /\ (e.kind = "huge" => e.to + Fanout - 1 \in PhysPages)
    BY <2>1, <2>2, <2>3 DEF EndsAt, Link, Leaves
  <2> HIDE DEF e
  <2>7. e.to \in PhysPages /\ e.flags \in Flags
    BY <2>5, <2>6 DEF Entries
  <2>8. CASE e.kind = "none"
    BY <2>4, <2>8, UnmappedIsTranslation DEF TranslationBy
  <2>9. CASE e.kind = "huge"
    <3> DEFINE x == v % Fanout
    <3>1. x \in 0..Fanout - 1
      BY PagesAreNumbers, Numbers
    <3> HIDE DEF x
    <3>2. e.to \in Nat /\ e.to + Fanout - 1 \in PhysPages
      BY <2>6, <2>7, <2>9, TablesAssumption
    <3>3. e.to + x \in 0..e.to + Fanout - 1
      BY <3>1, <3>2, Numbers
    <3>4. e.to + x \in PhysPages
      BY <3>2, <3>3, TablesAssumption
    <3>5. Translate(v) = [phys |-> e.to + x, flags |-> e.flags]
      BY <2>4, <2>9 DEF TranslationBy, x
    <3>6. QED  BY <2>7, <3>4, <3>5 DEF Translations
  <2>10. CASE e.kind \notin {"none", "huge"}
    BY <2>4, <2>7, <2>10 DEF TranslationBy, Translations
  <2>11. QED  BY <2>8, <2>9, <2>10
<1>3. QED  BY <1>1, <1>2

LEMMA NowFacts ==
  ASSUME TodoOK, todo # << >>
  PROVE  /\ RequestOK(Now) /\ Now \in Requests
         /\ Now.virt \in VPages /\ Now.phys \in PhysPages /\ Now.flags \in Flags
         /\ Now.op \in {"map", "map_huge", "unmap"}
         /\ Depth \in 1..Levels
         /\ Depth = IF Now.op = "map_huge" THEN Levels - 1 ELSE Levels
<1>1. todo \in Seq(Requests) /\ Len(todo) \in Nat \ {0} /\ Now = todo[1]
  BY DEF TodoOK, Now
<1>2. RequestOK(Now)
  BY <1>1 DEF TodoOK
<1>3. QED  BY <1>2, Numbers DEF RequestOK, Requests, Depth

LEMMA TailFacts ==
  ASSUME TodoOK, todo # << >>, todo' = Tail(todo), active' = active
  PROVE  /\ TodoOK'
         /\ todo' # << >> /\ Now'.op = "map_huge" => Now.op = "map_huge"
<1> DEFINE n == Len(todo)
<1>1. /\ todo \in Seq(Requests) /\ n \in Nat \ {0} /\ Now = todo[1]
      /\ todo' \in Seq(Requests) /\ Len(todo') = n - 1
      /\ \A i \in 1..n - 1 : todo'[i] = todo[i + 1]
  BY HeadTailProperties DEF TodoOK, Now
<1> HIDE DEF n
<1>2. \A i \in 1..n - 1 : i + 1 \in 1..n
  BY <1>1
<1>3. \A i \in 1..n : RequestOK(todo[i]) /\ (active => todo[i].op # "map_huge")
  BY DEF TodoOK, n
<1>4. \A i, j \in 1..n : i < j /\ todo[j].op = "map_huge" => todo[i].op = "map_huge"
  BY DEF TodoOK, n
<1>5. \A i \in 1..n - 1 : RequestOK(todo'[i]) /\ (active' => todo'[i].op # "map_huge")
  BY <1>1, <1>2, <1>3
<1>6. \A i, j \in 1..n - 1 :
        i < j /\ todo'[j].op = "map_huge" => todo'[i].op = "map_huge"
  BY <1>1, <1>2, <1>4
<1>7. TodoOK'
  BY <1>1, <1>5, <1>6 DEF TodoOK
<1>8. ASSUME todo' # << >>, Now'.op = "map_huge" PROVE Now.op = "map_huge"
  <2>1. Now' = todo'[1] /\ Len(todo') # 0
    BY <1>1, <1>8 DEF Now
  <2>2. 1 \in 1..n - 1 /\ 1 \in 1..n /\ 1 + 1 \in 1..n
    BY <1>1, <2>1
  <2>3. todo[1 + 1].op = "map_huge"
    BY <1>1, <1>8, <2>1, <2>2
  <2>4. QED  BY <1>1, <1>4, <2>2, <2>3
<1>9. QED  BY <1>7, <1>8

(* The next walk begins at the root. *)
LEMMA NextRequestFacts ==
  ASSUME TodoOK, todo # << >>, NextRequest, UNCHANGED <<root, held, active>>,
         NEW lab, Tree(root, mem', held, lab), HugeFirst(held, lab)
  PROVE  TodoOK' /\ WalkOK(lab)' /\ HugeFirst(held, lab)'
<1>1. todo' = Tail(todo) /\ walk' = [level |-> 1, table |-> root]
  BY DEF NextRequest, AtRoot
<1>2. TodoOK' /\ (todo' # << >> /\ Now'.op = "map_huge" => Now.op = "map_huge")
  BY <1>1, TailFacts
<1>3. HugeFirst(held, lab)'
  BY <1>2 DEF HugeFirst
<1>4. WalkOK(lab)'
  <2> SUFFICES ASSUME todo' # << >> PROVE WalkOK(lab)'
    BY <1>1 DEF WalkOK, AtRoot
  <2>1. root \in held /\ lab[root].level = 1
    BY DEF Tree
  <2>2. Depth' = IF Now'.op = "map_huge" THEN Levels - 1 ELSE Levels
    BY DEF Depth
  <2>3. 1 <= Depth'
    BY <2>2, Numbers
  <2>4. 1..lab[root].level - 1 = {}
    BY <2>1
  <2>5. walk'.table = root /\ walk'.level = 1 /\ held' = held
    BY <1>1
  <2>6. OnPath(lab, root, Now.virt)'
    BY <2>4 DEF OnPath, SamePath
  <2>7. QED  BY <2>1, <2>3, <2>5, <2>6 DEF WalkOK
<1>5. QED  BY <1>2, <1>3, <1>4

(* The pages that the request covers are those whose walk comes by the     *)
(* entry that it is about.                                                 *)
LEMMA Covers ==
  ASSUME TodoOK, todo # << >>, NEW v \in VPages
  PROVE  v \in Promise!Covered(Now) <=> SamePath(v, Now.virt, Depth)
<1>1. /\ RequestOK(Now) /\ Now.virt \in VPages
      /\ Depth = IF Now.op = "map_huge" THEN Levels - 1 ELSE Levels
  BY NowFacts
<1>2. CASE Now.op = "map_huge"
  BY <1>1, <1>2, HugePagesApart DEF RequestOK, Promise!Covered
<1>3. CASE Now.op # "map_huge"
  <2>1. SamePath(v, v, Levels)
    BY DEF SamePath
  <2>2. QED  BY <1>1, <1>3, <2>1, PagesApart DEF Promise!Covered
<1>4. QED  BY <1>2, <1>3

LEMMA PathThrough ==
  ASSUME NEW lab, NEW f, NEW k \in 1..Levels, lab[f].level = k,
         NEW w, OnPath(lab, f, w), NEW v
  PROVE  OnPath(lab, f, v) /\ Index(v, k) = Index(w, k) <=> SamePath(v, w, k)
<1>1. 1..k = (1..k - 1) \cup {k}
  BY Numbers
<1>2. SamePath(v, w, k) <=> SamePath(v, w, k - 1) /\ Index(v, k) = Index(w, k)
  BY <1>1 DEF SamePath
<1>3. SamePath(w, lab[f].page, k - 1)
  BY DEF OnPath
<1>4. SamePath(v, w, k - 1) <=> SamePath(v, lab[f].page, k - 1)
  BY <1>3 DEF SamePath
<1>5. QED  BY <1>2, <1>4 DEF OnPath
-----------------------------------------------------------------------------
(* Every step keeps the invariant, and does with the translations what it  *)
(* should.                                                                 *)

SameTranslations == \A v \in VPages : Translate(v)' = Translate(v)

LEMMA RangesFacts ==
  ASSUME Ranges
  PROVE  /\ mem \in [Frames -> [Slots -> Entries]] /\ held \subseteq Frames
         /\ watched \in VPages /\ cached \in Translations
  BY DEF Ranges, Translations

LEMMA TlbKept ==
  ASSUME Inv, SameTranslations, UNCHANGED <<tlb, active>>
  PROVE  TlbOK'
<1>1. PICK w \in VPages : w = watched
  BY DEF Inv, Ranges
<1>2. Translate(w)' = Translate(w)
  BY DEF SameTranslations
<1>3. watched' = w
  BY <1>1 DEF tlb
<1>4. Translate(watched)' = Translate(w)' /\ Translate(watched) = Translate(w)
  BY <1>1, <1>3 DEF Translate
<1>5. QED  BY <1>2, <1>4 DEF Inv, TlbOK, tlb

(* Steps that leave the tables and requests as they are. *)
LEMMA TablesKept ==
  ASSUME Inv, UNCHANGED <<mem, root, held, todo, walk, active>>
  PROVE  TodoOK' /\ Rootless' /\ TreeOK' /\ SameTranslations
<1>1. TodoOK'
  BY DEF Inv, TodoOK
<1>2. Rootless'
  BY DEF Inv, Rootless
<1>3. TreeOK'
  <2>1. TreeOK
    BY DEF Inv
  <2>2. QED
    BY <2>1 DEF TreeOK, WalkOK, HugeFirst, Now, Depth
<1>4. SameTranslations
  BY DEF SameTranslations, Translate
<1>5. QED  BY <1>1, <1>2, <1>3, <1>4

(* What is known when an entry is looked at. *)
LEMMA AtEntry ==
  ASSUME Inv, todo # << >>
  PROVE  /\ root # 0 /\ root \in Frames
         /\ Slot \in Slots /\ Here \in Entries /\ walk.level \in 1..Levels
         /\ \E lab \in [held -> Labels] :
              /\ Shape(root, mem, held, lab) /\ Leaves(mem, held, lab)
              /\ WalkOK(lab) /\ HugeFirst(held, lab)
              /\ walk.table \in held /\ lab[walk.table].level = walk.level
              /\ OnPath(lab, walk.table, Now.virt) /\ walk.level <= Depth
<1>1. root # 0
  BY DEF Inv, Rootless
<1>2. PICK lab \in [held -> Labels] :
        /\ Tree(root, mem, held, lab) /\ Leaves(mem, held, lab)
        /\ WalkOK(lab) /\ HugeFirst(held, lab)
  BY <1>1 DEF Inv, TreeOK
<1>3. /\ walk.table \in held /\ lab[walk.table].level = walk.level
      /\ OnPath(lab, walk.table, Now.virt) /\ walk.level <= Depth
  BY <1>2 DEF WalkOK
<1>4. Now.virt \in VPages
  BY NowFacts DEF Inv
<1>5. Slot \in Slots /\ walk.level \in 1..Levels
  BY <1>2, <1>3, <1>4, LevelFacts DEF Slot
<1>6. Here \in Entries /\ root \in Frames
  BY <1>1, <1>3, <1>5 DEF Inv, Ranges, Here
<1>7. Shape(root, mem, held, lab)
  BY <1>1, <1>2, TablesShape DEF Inv
<1>8. QED  BY <1>1, <1>2, <1>3, <1>5, <1>6, <1>7

(* A walk goes down to the next table. *)
LEMMA DescendKeepsInv ==
  ASSUME Inv, Walking, Here.kind = "table", Descends(Here.to),
         UNCHANGED <<pool, mem, todo, panicked, root, active, tlb, calls>>
  PROVE  Inv' /\ SameTranslations
<1>0. todo # << >> /\ walk.level < Depth
  BY DEF Walking
<1>1. PICK lab \in [held -> Labels] :
        /\ Shape(root, mem, held, lab) /\ Leaves(mem, held, lab)
        /\ WalkOK(lab) /\ HugeFirst(held, lab)
        /\ walk.table \in held /\ lab[walk.table].level = walk.level
        /\ OnPath(lab, walk.table, Now.virt) /\ walk.level <= Depth
  BY <1>0, AtEntry
<1>2. Slot \in Slots /\ root # 0 /\ walk.level \in 1..Levels
  BY <1>0, AtEntry
<1>3. Tree(root, mem, held, lab)
  BY <1>1 DEF Shape
<1>4. Now.virt \in VPages /\ Depth \in 1..Levels
  BY <1>0, NowFacts DEF Inv
<1> DEFINE g == Here.to
<1>5. /\ g \in held /\ lab[g].level = walk.level + 1
      /\ OnPath(lab, g, Now.virt)
  <2>1. Link(mem, walk.table, Slot) /\ g = mem[walk.table][Slot].to
    BY DEF Link, Here
  <2>2. Index(Now.virt, lab[walk.table].level) = Slot
    BY <1>1 DEF Slot
  <2>3. QED  BY <1>1, <1>2, <1>3, <1>4, <2>1, <2>2, LinkOnPath
<1> HIDE DEF g
<1>6. walk' = [level |-> walk.level + 1, table |-> g] /\ g \in Frames
  BY <1>5 DEF Descends, g, Inv, Ranges
<1>7. walk.level + 1 \in 1..Levels /\ walk.level + 1 <= Depth
  BY <1>0, <1>2, <1>4, Numbers
<1>8. Ranges'
  BY <1>6, <1>7 DEF Inv, Ranges, pool, tlb
<1>9. TodoOK' /\ Rootless'
  BY DEF Inv, TodoOK, Rootless, pool
<1>10. TreeOK'
  <2>1. /\ Tree(root', mem', held', lab) /\ Leaves(mem', held', lab)
        /\ HugeFirst(held, lab)' /\ held' = held
    BY <1>1, <1>3 DEF pool, HugeFirst, Now
  <2>2. WalkOK(lab)'
    BY <1>0, <1>5, <1>6, <1>7 DEF WalkOK, pool, Now, Depth
  <2>3. QED  BY <2>1, <2>2 DEF TreeOK
<1>11. SameTranslations
  BY DEF SameTranslations, Translate
<1>12. TlbOK'
  BY <1>11, TlbKept
<1>13. QED  BY <1>8, <1>9, <1>10, <1>11, <1>12 DEF Inv

(* A new table takes the place of an entry, whose translations it has.     *)
LEMMA GrowKeepsInv ==
  ASSUME Inv, Walking, Here.kind # "table",
         NEW c \in [Slots -> Entries],
         \A j \in Slots : c[j].kind \in {"page", "none"},
         \A j \in Slots : c[j].kind = "page" => walk.level + 1 = Levels,
         \A v \in VPages :
           TranslationBy(c[Index(v, walk.level + 1)], v) = TranslationBy(Here, v),
         Takes, mem' = Grown(NewFrame, c), Descends(NewFrame),
         UNCHANGED <<todo, root, active, tlb, calls>>
  PROVE  Inv' /\ SameTranslations
<1>0. todo # << >> /\ walk.level < Depth
  BY DEF Walking
<1>1. PICK lab \in [held -> Labels] :
        /\ Shape(root, mem, held, lab) /\ Leaves(mem, held, lab)
        /\ WalkOK(lab) /\ HugeFirst(held, lab)
        /\ walk.table \in held /\ lab[walk.table].level = walk.level
        /\ OnPath(lab, walk.table, Now.virt) /\ walk.level <= Depth
  BY <1>0, AtEntry
<1>2. Slot \in Slots /\ root # 0 /\ walk.level \in 1..Levels
  BY <1>0, AtEntry
<1>3. Tree(root, mem, held, lab)
  BY <1>1 DEF Shape
<1>4. Now.virt \in VPages /\ Depth \in 1..Levels
      /\ Depth = IF Now.op = "map_huge" THEN Levels - 1 ELSE Levels
  BY <1>0, NowFacts DEF Inv
<1>a. PICK f : f = walk.table
  OBVIOUS
<1>b. PICK g : g = NewFrame
  OBVIOUS
<1>c. PICK i : i = Slot
  OBVIOUS
<1>d. PICK w : w = Now.virt
  OBVIOUS
<1>e. PICK n : n = GrownBy(mem, f, i, g, c)
  OBVIOUS
<1>f. PICK lb : lb = LabelledToo(held, lab, f, g, w)
  OBVIOUS
<1>5. /\ g \in Frames /\ g \notin held
      /\ held' = held \cup {g} /\ free' = free \ {g} /\ oom' = FALSE
      /\ UNCHANGED panicked
  BY <1>b DEF Takes, Pool!Take, Inv, Ranges
<1>6. mem' = n
  BY <1>a, <1>b, <1>c, <1>e DEF Grown, GrownBy
<1>7. /\ ~ Link(mem, f, i) /\ Index(w, lab[f].level) = i /\ i \in Slots
      /\ f \in held /\ w \in VPages /\ OnPath(lab, f, w)
      /\ lab[f].level = walk.level /\ lab[f].level < Levels
  <2>1. f \in held /\ w \in VPages /\ OnPath(lab, f, w) /\ i \in Slots
        /\ lab[f].level = walk.level
    BY <1>a, <1>c, <1>d, <1>1, <1>2, <1>4
  <2>2. ~ Link(mem, f, i)
    BY <1>a, <1>c DEF Link, Here
  <2>3. Index(w, lab[f].level) = i
    BY <2>1, <1>c, <1>d DEF Slot
  <2>4. walk.level < Levels
    BY <1>0, <1>2, <1>4, Numbers
  <2>5. QED  BY <2>1, <2>2, <2>3, <2>4
<1>8. \A j \in Slots : c[j].kind # "table"
  OBVIOUS
<1>9. /\ Shape(root, n, held \cup {g}, lb)
      /\ lb[g].level = lab[f].level + 1 /\ OnPath(lb, g, w)
      /\ \A h \in held : lb[h] = lab[h]
      /\ \A v \in VPages : TranslateIn(n, root, v) =
           IF OnPath(lab, f, v) /\ Index(v, lab[f].level) = i
           THEN TranslationBy(c[Index(v, lab[f].level + 1)], v)
           ELSE TranslateIn(mem, root, v)
  <2>1. Shape(root, mem, held, lab) /\ g \in Frames /\ g \notin held
    BY <1>1, <1>5
  <2>2. CanGrow(root, mem, held, lab, f, i, g, c, w)
    BY <1>7, <1>8, <2>1 DEF CanGrow
  <2>3. HasGrown(root, GrownBy(mem, f, i, g, c), mem, held, lab, f, i, g, c, w,
                 LabelledToo(held, lab, f, g, w))
    BY <2>2, GrowKeepsTree
  <2>4. HasGrown(root, n, mem, held, lab, f, i, g, c, w, lb)
    BY <1>e, <1>f, <2>3
  <2>5. QED  BY <2>4 DEF HasGrown, TranslatesThrough
<1>10. SameTranslations
  <2>1. ASSUME NEW v \in VPages,
               OnPath(lab, f, v), Index(v, lab[f].level) = i
        PROVE  TranslateIn(mem, root, v) = TranslationBy(Here, v)
    <3>1. EndsAt(mem, held, lab, v, f)
      BY <1>1, <1>7, <2>1 DEF EndsAt
    <3>2. QED  BY <1>3, <1>a, <1>c, <2>1, <3>1, EndTranslates DEF Here
  <2>2. \A v \in VPages : TranslateIn(n, root, v) = TranslateIn(mem, root, v)
    <3> TAKE v \in VPages
    <3>1. TranslationBy(c[Index(v, lab[f].level + 1)], v) = TranslationBy(Here, v)
      BY <1>7
    <3>2. QED  BY <1>9, <2>1, <3>1
  <2>3. \A v \in VPages : Translate(v)' = TranslateIn(n, root, v)
    BY <1>2, <1>6 DEF Translate, TranslateIn
  <2>4. \A v \in VPages : Translate(v) = TranslateIn(mem, root, v)
    BY <1>2, TranslateIs
  <2>5. QED  BY <2>2, <2>3, <2>4 DEF SameTranslations
<1>11. walk' = [level |-> walk.level + 1, table |-> g]
       /\ walk.level + 1 \in 1..Levels /\ walk.level + 1 <= Depth
  BY <1>0, <1>2, <1>4, <1>b, Numbers DEF Descends
<1>12. Ranges'
  <2>1. n \in [Frames -> [Slots -> Entries]]
    BY <1>9 DEF Shape
  <2>2. walk' \in [level : 1..Levels, table : Frames \cup {0}]
    BY <1>5, <1>11
  <2>3. /\ free' \subseteq Frames /\ held' \subseteq Frames
        /\ free' \cap held' = {} /\ oom' \in BOOLEAN
    BY <1>5 DEF Inv, Ranges
  <2>4. QED  BY <1>5, <1>6, <2>1, <2>2, <2>3 DEF Inv, Ranges, tlb
<1>13. TodoOK' /\ Rootless'
  BY <1>2 DEF Inv, TodoOK, Rootless
<1>14. TreeOK'
  <2>1. Tree(root', mem', held', lb)
    BY <1>5, <1>6, <1>9 DEF Shape
  <2>2. lb \in [held' -> Labels]
    BY <2>1 DEF Tree
  <2>3. Leaves(mem', held', lb)
    <3>1. \A h \in Frames, j \in Slots : n[h][j] =
            IF h = g THEN c[j]
            ELSE IF h = f /\ j = i THEN Entry("table", g, "wu") ELSE mem[h][j]
      <4>1. f # g /\ f \in Frames /\ mem \in [Frames -> [Slots -> Entries]]
        BY <1>5, <1>7 DEF Inv, Ranges
      <4>2. QED  BY <1>5, <1>7, <1>e, <4>1, GrownFacts
    <3>2. held \subseteq Frames
      BY DEF Inv, Ranges
    <3>3. ASSUME NEW h \in held', NEW j \in Slots
          PROVE  /\ n[h][j].kind = "page" => lb[h].level = Levels
                 /\ n[h][j].kind = "huge" =>
                      lb[h].level = Levels - 1 /\ n[h][j].to + Fanout - 1 \in PhysPages
      <4>1. CASE h = g
        <5>1. n[h][j] = c[j] /\ lb[h].level = walk.level + 1
          BY <4>1, <3>1, <1>5, <1>7, <1>9
        <5>2. QED  BY <5>1
      <4>2. CASE h # g /\ h = f /\ j = i
        <5>1. n[h][j].kind = "table"
          BY <4>2, <3>1, <3>2, <1>7 DEF Entry
        <5>2. QED  BY <5>1
      <4>3. CASE h # g /\ ~(h = f /\ j = i)
        <5>1. h \in held /\ n[h][j] = mem[h][j] /\ lb[h] = lab[h]
          BY <4>3, <3>1, <3>2, <1>5, <1>9
        <5>2. QED  BY <5>1, <1>1 DEF Leaves
      <4>4. QED  BY <4>1, <4>2, <4>3
    <3>4. QED  BY <3>3, <1>6 DEF Leaves
  <2>4. WalkOK(lb)'
    <3>1. /\ walk'.table = g /\ walk'.level = walk.level + 1
          /\ lb[g].level = walk.level + 1 /\ OnPath(lb, g, w)
      BY <1>7, <1>9, <1>11
    <3>2. Now' = Now /\ Depth' = Depth
      BY DEF Now, Depth
    <3>3. QED  BY <1>0, <1>5, <1>11, <1>d, <3>1, <3>2 DEF WalkOK
  <2>5. HugeFirst(held, lb)'
    <3>1. ASSUME Now.op = "map_huge", NEW h \in held \cup {g}
          PROVE  lb[h].level < Levels
      <4>1. CASE h = g
        BY <4>1, <3>1, <1>2, <1>4, <1>7, <1>9, <1>11, Numbers
      <4>2. CASE h # g
        BY <4>2, <3>1, <1>0, <1>1, <1>9 DEF HugeFirst
      <4>3. QED  BY <4>1, <4>2
    <3>2. QED  BY <3>1, <1>5 DEF HugeFirst, Now
  <2>6. QED  BY <2>1, <2>2, <2>3, <2>4, <2>5 DEF TreeOK
<1>15. TlbOK'
  BY <1>10, TlbKept
<1>16. QED  BY <1>10, <1>12, <1>13, <1>14, <1>15 DEF Inv
(* What the promise makes of a step: nothing, or what the request says, or *)
(* a new request when there was none.                                      *)
Stays == SameTranslations /\ todo' = todo

Carried ==
  /\ todo # << >> /\ todo' = Tail(todo)
  /\ \A v \in VPages : Translate(v)' =
       IF v \in Promise!Covered(Now) THEN Promise!Translation(Now, v) ELSE Translate(v)

Asked == SameTranslations /\ todo = << >>

LEMMA ZeroedFacts ==
  /\ Zeroed \in [Slots -> Entries]
  /\ \A j \in Slots : Zeroed[j] = Absent /\ Zeroed[j].kind = "none"
<1>1. Absent \in Entries /\ Absent.kind = "none"
  BY TablesAssumption DEF Absent, Entry, Entries, Flags
<1>2. QED  BY <1>1 DEF Zeroed, Slots

LEMMA SplitFacts ==
  ASSUME NEW e \in Entries, e.kind = "huge", e.to + Fanout - 1 \in PhysPages
  PROVE  /\ Split(e) \in [Slots -> Entries]
         /\ \A j \in Slots : Split(e)[j] = Entry("page", e.to + j, e.flags)
         /\ \A v \in VPages :
              TranslationBy(Split(e)[Index(v, Levels)], v) = TranslationBy(e, v)
<1>1. e.to \in Nat /\ e.flags \in Flags
  BY TablesAssumption DEF Entries
<1>2. ASSUME NEW j \in Slots PROVE e.to + j \in PhysPages
  <2>1. e.to + j \in 0..e.to + Fanout - 1
    BY <1>1, Numbers DEF Slots
  <2>2. QED  BY <2>1, TablesAssumption
<1>3. \A j \in Slots : Split(e)[j] = Entry("page", e.to + j, e.flags)
  BY DEF Split, Slots
<1>4. \A j \in Slots : Entry("page", e.to + j, e.flags) \in Entries
  BY <1>1, <1>2 DEF Entry, Entries
<1>5. Split(e) \in [Slots -> Entries]
  <2>1. Split(e) = [j \in Slots |-> Entry("page", e.to + j, e.flags)]
    BY DEF Split, Slots
  <2>2. QED  BY <2>1, <1>4
<1>6. ASSUME NEW v \in VPages
      PROVE  TranslationBy(Split(e)[Index(v, Levels)], v) = TranslationBy(e, v)
  <2> DEFINE x == v % Fanout
  <2>1. v \in Nat /\ Index(v, Levels) = x /\ x \in Slots
    BY PagesAreNumbers, Offset, Numbers DEF Slots
  <2>2. TranslationBy(e, v) = [phys |-> e.to + x, flags |-> e.flags]
    BY DEF TranslationBy
  <2> HIDE DEF x
  <2>3. Split(e)[x] = Entry("page", e.to + x, e.flags)
    BY <2>1, <1>3
  <2>4. TranslationBy(Split(e)[x], v) = [phys |-> e.to + x, flags |-> e.flags]
    BY <2>3 DEF TranslationBy, Entry
  <2>5. QED  BY <2>1, <2>2, <2>4
<1>7. QED  BY <1>3, <1>5, <1>6

(* The kernel stops. *)
LEMMA StopKeepsInv ==
  ASSUME Inv, UNCHANGED <<mem, root, todo, walk, active, tlb, calls, free, held>>,
         oom' \in BOOLEAN,
         panicked' \in {"no", "no_pml4", "no_frame_for_split", "no_frame_for_table",
                        "huge_page", "page_fault"}
  PROVE  Inv' /\ Stays
<1>1. TodoOK' /\ Rootless' /\ TreeOK' /\ SameTranslations
  BY TablesKept
<1>2. Ranges'
  BY DEF Inv, Ranges, tlb
<1>3. TlbOK'
  BY <1>1, TlbKept
<1>4. QED  BY <1>1, <1>2, <1>3 DEF Inv, Stays

LEMMA FailsFacts ==
  ASSUME NEW why, Fails(why)
  PROVE  UNCHANGED <<free, held>> /\ oom' \in BOOLEAN /\ panicked' = why
  BY DEF Fails, Pool!TakeFails

LEMMA get_next_levelKeepsInv ==
  ASSUME Inv, get_next_level
  PROVE  Inv' /\ (Stays \/ Carried)
<1>1. Walking /\ UNCHANGED <<root, active, tlb, calls>>
  BY DEF get_next_level
<1>0. todo # << >> /\ walk.level < Depth
  BY <1>1 DEF Walking
<1>2. PICK lab \in [held -> Labels] :
        /\ Shape(root, mem, held, lab) /\ Leaves(mem, held, lab)
        /\ WalkOK(lab) /\ HugeFirst(held, lab)
        /\ walk.table \in held /\ lab[walk.table].level = walk.level
        /\ OnPath(lab, walk.table, Now.virt) /\ walk.level <= Depth
  BY <1>0, AtEntry
<1>3. Slot \in Slots /\ root # 0 /\ walk.level \in 1..Levels /\ Here \in Entries
  BY <1>0, AtEntry
<1>4. CASE Here.kind = "table" /\ Descends(Here.to)
           /\ UNCHANGED <<pool, mem, todo, panicked>>
  BY <1>1, <1>4, DescendKeepsInv DEF Stays
<1>5. CASE Here.kind = "huge" /\ Now.op # "unmap"
           /\ Grows(Split(Here), "no_frame_for_split") /\ UNCHANGED todo
  <2>1. CASE Fails("no_frame_for_split") /\ UNCHANGED <<mem, walk>>
    BY <1>1, <1>5, <2>1, FailsFacts, StopKeepsInv
  <2>2. CASE Takes /\ mem' = Grown(NewFrame, Split(Here)) /\ Descends(NewFrame)
    <3>1. walk.level = Levels - 1 /\ Here.to + Fanout - 1 \in PhysPages
      BY <1>2, <1>3, <1>5 DEF Leaves, Here
    <3>2. walk.level + 1 = Levels
      BY <3>1, Numbers
    <3>3. PICK c : c = Split(Here)
      OBVIOUS
    <3>4. /\ c \in [Slots -> Entries]
          /\ \A j \in Slots : c[j] = Entry("page", Here.to + j, Here.flags)
          /\ \A v \in VPages :
               TranslationBy(c[Index(v, Levels)], v) = TranslationBy(Here, v)
      BY <1>3, <1>5, <3>1, <3>3, SplitFacts
    <3>5. \A j \in Slots : c[j].kind = "page"
      BY <3>4 DEF Entry
    <3>6. /\ \A j \in Slots : c[j].kind \in {"page", "none"}
          /\ \A j \in Slots : c[j].kind = "page" => walk.level + 1 = Levels
          /\ \A v \in VPages :
               TranslationBy(c[Index(v, walk.level + 1)], v) = TranslationBy(Here, v)
      BY <3>2, <3>4, <3>5
    <3>7. Here.kind # "table" /\ mem' = Grown(NewFrame, c)
      BY <1>5, <2>2, <3>3
    <3>8. QED  BY <1>1, <1>5, <2>2, <3>4, <3>6, <3>7, GrowKeepsInv DEF Stays
  <2>3. QED  BY <1>5, <2>1, <2>2 DEF Grows
<1>6. CASE Here.kind = "huge" /\ Now.op = "unmap" /\ panicked' = "huge_page"
           /\ UNCHANGED <<pool, mem, todo, walk>>
  <2>1. oom' \in BOOLEAN
    BY <1>6 DEF Inv, Ranges, pool
  <2>2. QED  BY <1>1, <1>6, <2>1, StopKeepsInv DEF pool
<1>7. CASE Here.kind = "none" /\ Now.op # "unmap"
           /\ Grows(Zeroed, "no_frame_for_table") /\ UNCHANGED todo
  <2>1. CASE Fails("no_frame_for_table") /\ UNCHANGED <<mem, walk>>
    BY <1>1, <1>7, <2>1, FailsFacts, StopKeepsInv
  <2>2. CASE Takes /\ mem' = Grown(NewFrame, Zeroed) /\ Descends(NewFrame)
    <3>1. walk.level + 1 \in 0..Levels
      <4>1. Depth \in 1..Levels
        BY <1>0, NowFacts DEF Inv
      <4>2. QED  BY <1>0, <1>3, <4>1, Numbers
    <3>2. \A v \in VPages : TranslationBy(Zeroed[Index(v, walk.level + 1)], v)
                              = TranslationBy(Here, v)
      <4> TAKE v \in VPages
      <4>1. Index(v, walk.level + 1) \in Slots
        BY <3>1, PagesAreNumbers, IndexRange
      <4>2. TranslationBy(Zeroed[Index(v, walk.level + 1)], v) = Unmapped
        BY <4>1, ZeroedFacts DEF TranslationBy
      <4>3. TranslationBy(Here, v) = Unmapped
        BY <1>7 DEF TranslationBy
      <4>4. QED  BY <4>2, <4>3
    <3>3. PICK c : c = Zeroed
      OBVIOUS
    <3>4. /\ c \in [Slots -> Entries]
          /\ \A j \in Slots : c[j].kind \in {"page", "none"}
          /\ \A j \in Slots : c[j].kind = "page" => walk.level + 1 = Levels
          /\ \A v \in VPages :
               TranslationBy(c[Index(v, walk.level + 1)], v) = TranslationBy(Here, v)
      BY <3>2, <3>3, ZeroedFacts
    <3>5. Here.kind # "table" /\ mem' = Grown(NewFrame, c)
      BY <1>7, <2>2, <3>3
    <3>6. QED  BY <1>1, <1>7, <2>2, <3>4, <3>5, GrowKeepsInv DEF Stays
  <2>3. QED  BY <1>7, <2>1, <2>2 DEF Grows
<1>8. CASE Here.kind = "none" /\ Now.op = "unmap"
           /\ NextRequest /\ UNCHANGED <<pool, mem, panicked>>
  <2>1. TodoOK /\ Tree(root, mem, held, lab)
    BY <1>2 DEF Inv, Shape
  <2>2. Tree(root, mem', held, lab) /\ UNCHANGED <<root, held, active>>
    BY <1>1, <1>8, <2>1 DEF pool
  <2>3. TodoOK' /\ WalkOK(lab)' /\ HugeFirst(held, lab)'
    BY <1>0, <1>2, <1>8, <2>1, <2>2, NextRequestFacts
  <2>4. TreeOK'
    <3>1. /\ Tree(root', mem', held', lab) /\ Leaves(mem', held', lab)
          /\ lab \in [held' -> Labels]
      BY <1>2, <1>8, <2>2
    <3>2. QED  BY <2>3, <3>1 DEF TreeOK
  <2>5. walk' = [level |-> 1, table |-> root] /\ 1 \in 1..Levels
    BY <1>8, Numbers DEF NextRequest, AtRoot
  <2>6. Ranges'
    BY <1>1, <1>8, <2>5 DEF Inv, Ranges, pool, tlb
  <2>7. Rootless'
    BY <1>1, <1>3 DEF Rootless
  <2>8. SameTranslations
    BY <1>1, <1>8 DEF SameTranslations, Translate
  <2>9. TlbOK'
    BY <1>1, <2>8, TlbKept
  <2>10. Now.virt \in VPages
    BY <1>0, NowFacts DEF Inv
  <2>11. Translate(Now.virt) = Unmapped
    <3>1. Slot = Index(Now.virt, lab[walk.table].level)
      BY <1>2 DEF Slot
    <3>2. EndsAt(mem, held, lab, Now.virt, walk.table)
      BY <1>2, <1>8, <3>1 DEF EndsAt, Link, Here
    <3>3. TranslateIn(mem, root, Now.virt) = TranslationBy(Here, Now.virt)
      BY <2>1, <2>10, <3>1, <3>2, EndTranslates DEF Here
    <3>4. QED  BY <1>3, <1>8, <2>10, <3>3, TranslateIs DEF TranslationBy
  <2>12. Carried
    BY <1>0, <1>8, <2>8, <2>11
       DEF Carried, SameTranslations, NextRequest, Promise!Covered, Promise!Translation
  <2>13. QED  BY <2>3, <2>4, <2>6, <2>7, <2>9, <2>12 DEF Inv
<1>9. QED  BY <1>4, <1>5, <1>6, <1>7, <1>8 DEF get_next_level
(* The entry at the end of a walk is written. *)
LEMMA WritesKeepsInv ==
  ASSUME Inv, todo # << >>, walk.level = Depth,
         NEW e \in Entries, e.kind # "table", Writes(e),
         e.kind = "page" => Now.op # "map_huge",
         e.kind = "huge" => Now.op = "map_huge" /\ e.to + Fanout - 1 \in PhysPages
  PROVE  /\ Inv'
         /\ todo' = Tail(todo)
         /\ \A v \in VPages : Translate(v)' =
              IF v \in Promise!Covered(Now) THEN TranslationBy(e, v) ELSE Translate(v)
<1>1. PICK lab \in [held -> Labels] :
        /\ Shape(root, mem, held, lab) /\ Leaves(mem, held, lab)
        /\ WalkOK(lab) /\ HugeFirst(held, lab)
        /\ walk.table \in held /\ lab[walk.table].level = walk.level
        /\ OnPath(lab, walk.table, Now.virt) /\ walk.level <= Depth
  BY AtEntry
<1>2. Slot \in Slots /\ root # 0
  BY AtEntry
<1>3. /\ Now.virt \in VPages /\ Depth \in 1..Levels
      /\ Depth = IF Now.op = "map_huge" THEN Levels - 1 ELSE Levels
      /\ TodoOK
  BY NowFacts DEF Inv
<1>4. Tree(root, mem, held, lab) /\ mem \in [Frames -> [Slots -> Entries]]
      /\ held \subseteq Frames
  BY <1>1 DEF Shape
<1>5. PICK f \in held, i \in Slots : f = walk.table /\ i = Slot
  BY <1>1, <1>2
<1>6. ~ Link(mem, f, i)
  <2> SUFFICES ASSUME Link(mem, f, i) PROVE FALSE
    OBVIOUS
  <2> DEFINE g == mem[f][i].to
  <2>1. g \in held /\ lab[g].level = Depth + 1
    BY <1>1, <1>4, <1>5 DEF Tree
  <2> HIDE DEF g
  <2>2. lab[g].level \in 1..Levels
    BY <1>3, <1>4, <2>1, LevelFacts
  <2>3. CASE Now.op = "map_huge"
    BY <1>1, <1>3, <2>1, <2>3, Numbers DEF HugeFirst
  <2>4. CASE Now.op # "map_huge"
    BY <1>3, <2>1, <2>2, <2>4, Numbers
  <2>5. QED  BY <2>3, <2>4
<1>7. PICK n : n = Written(mem, f, i, e)
  OBVIOUS
<1>8. /\ mem' = n /\ NextRequest
      /\ UNCHANGED <<root, held, free, oom, active, watched, calls, panicked>>
  BY <1>5, <1>7 DEF Writes, Written, pool
<1>9. /\ Shape(root, n, held, lab)
      /\ \A v \in VPages : TranslateIn(n, root, v) =
           IF OnPath(lab, f, v) /\ Index(v, lab[f].level) = i
           THEN TranslationBy(e, v) ELSE TranslateIn(mem, root, v)
  BY <1>1, <1>6, <1>7, WriteKeepsTree
<1>10. \A v \in VPages :
         OnPath(lab, f, v) /\ Index(v, lab[f].level) = i <=> v \in Promise!Covered(Now)
  <2> TAKE v \in VPages
  <2>1. lab[f].level = Depth /\ OnPath(lab, f, Now.virt) /\ i = Index(Now.virt, Depth)
    BY <1>1, <1>5 DEF Slot
  <2>2. OnPath(lab, f, v) /\ Index(v, Depth) = Index(Now.virt, Depth)
          <=> SamePath(v, Now.virt, Depth)
    BY <1>3, <2>1, PathThrough
  <2>3. QED  BY <1>3, <2>1, <2>2, Covers
<1>11. \A v \in VPages : Translate(v)' =
         IF v \in Promise!Covered(Now) THEN TranslationBy(e, v) ELSE Translate(v)
  <2>1. \A v \in VPages : Translate(v)' = TranslateIn(n, root, v)
    BY <1>2, <1>8 DEF Translate, TranslateIn
  <2>2. \A v \in VPages : Translate(v) = TranslateIn(mem, root, v)
    BY <1>2, TranslateIs
  <2>3. QED  BY <1>9, <1>10, <2>1, <2>2
<1>12. TodoOK' /\ WalkOK(lab)' /\ HugeFirst(held, lab)'
  <2>1. Tree(root, mem', held, lab)
    BY <1>8, <1>9 DEF Shape
  <2>2. QED  BY <1>1, <1>3, <1>8, <2>1, NextRequestFacts
<1>13. Leaves(n, held, lab)
  <2>1. LeafAt(lab, f, e)
    BY <1>1, <1>3, <1>5 DEF LeafAt
  <2>2. QED  BY <1>1, <1>4, <1>7, <2>1, WriteKeepsLeaves
<1>14. TreeOK'
  <2>1. /\ Tree(root', mem', held', lab) /\ Leaves(mem', held', lab)
        /\ lab \in [held' -> Labels]
    BY <1>8, <1>9, <1>13 DEF Shape
  <2>2. QED  BY <1>12, <2>1 DEF TreeOK
<1>15. cached' = IF active /\ Now.virt = watched THEN Unmapped ELSE cached
  BY DEF Writes, flush_if_active
<1>16. Ranges'
  <2>1. walk' = [level |-> 1, table |-> root] /\ 1 \in 1..Levels
    BY <1>8, Numbers DEF NextRequest, AtRoot
  <2>2. n \in [Frames -> [Slots -> Entries]]
    BY <1>9 DEF Shape
  <2>3. cached' \in Translations
    BY <1>15, UnmappedIsTranslation, RangesFacts DEF Inv
  <2>4. QED  BY <1>8, <2>1, <2>2, <2>3 DEF Inv, Ranges, Translations
<1>17. Rootless'
  BY <1>2, <1>8 DEF Rootless
<1>18. TlbOK'
  <2> SUFFICES ASSUME cached' # Unmapped
      PROVE  active' /\ cached' = Translate(watched)'
    BY DEF TlbOK
  <2>1. cached' = cached /\ active /\ cached = Translate(watched)
    BY <1>15 DEF Inv, TlbOK
  <2>2. Now.virt # watched
    BY <1>15, <2>1
  <2>3. Now.op # "map_huge"
    <3>1. todo \in Seq(Requests) /\ Now = todo[1] /\ 1 \in 1..Len(todo)
      BY <1>3 DEF TodoOK, Now
    <3>2. QED  BY <1>3, <2>1, <3>1 DEF TodoOK
  <2>4. PICK w \in VPages : w = watched
    BY DEF Inv, Ranges
  <2>5. w \notin Promise!Covered(Now)
    BY <2>2, <2>3, <2>4 DEF Promise!Covered
  <2>6. Translate(w)' = Translate(w)
    BY <1>11, <2>5
  <2>7. watched' = w
    BY <1>8, <2>4
  <2>8. Translate(watched)' = Translate(w)' /\ Translate(watched) = Translate(w)
    BY <2>4, <2>7 DEF Translate
  <2>9. QED  BY <1>8, <2>1, <2>6, <2>8
<1>19. todo' = Tail(todo)
  BY <1>8 DEF NextRequest
<1>20. QED  BY <1>11, <1>12, <1>14, <1>16, <1>17, <1>18, <1>19 DEF Inv

LEMMA vmm_map_pageKeepsInv ==
  ASSUME Inv, vmm_map_page
  PROVE  Inv' /\ Carried
<1> DEFINE e == Entry("page", Now.phys, Now.flags)
<1>1. todo # << >> /\ walk.level = Depth /\ Now.op = "map" /\ Writes(e)
  BY DEF vmm_map_page, Arrived
<1>2. Now.phys \in PhysPages /\ Now.flags \in Flags /\ Now.virt \in VPages
  BY <1>1, NowFacts DEF Inv
<1>3. PICK x : x = e
  OBVIOUS
<1>4. x \in Entries /\ x.kind = "page" /\ x.to = Now.phys /\ x.flags = Now.flags
  BY <1>2, <1>3 DEF Entry, Entries
<1>5. Writes(x)
  BY <1>1, <1>3
<1>6. /\ Inv' /\ todo' = Tail(todo)
      /\ \A v \in VPages : Translate(v)' =
           IF v \in Promise!Covered(Now) THEN TranslationBy(x, v) ELSE Translate(v)
  BY <1>1, <1>4, <1>5, WritesKeepsInv
<1>7. \A v \in VPages : v \in Promise!Covered(Now) =>
        TranslationBy(x, v) = Promise!Translation(Now, v)
  <2>1. Now.phys \in Nat /\ Now.virt \in Nat
    BY <1>2, TablesAssumption, PagesAreNumbers
  <2>2. QED
    BY <1>1, <1>4, <2>1 DEF Promise!Covered, Promise!Translation, TranslationBy
<1>8. QED  BY <1>1, <1>6, <1>7 DEF Carried

LEMMA vmm_map_page_2mbKeepsInv ==
  ASSUME Inv, vmm_map_page_2mb
  PROVE  Inv' /\ Carried
<1> DEFINE e == Entry("huge", Now.phys, Now.flags)
<1>1. todo # << >> /\ walk.level = Depth /\ Now.op = "map_huge" /\ Writes(e)
  BY DEF vmm_map_page_2mb, Arrived
<1>2. Now.phys \in PhysPages /\ Now.flags \in Flags /\ Now.virt \in VPages
      /\ RequestOK(Now)
  BY <1>1, NowFacts DEF Inv
<1>3. PICK x : x = e
  OBVIOUS
<1>4. x \in Entries /\ x.kind = "huge" /\ x.to = Now.phys /\ x.flags = Now.flags
  BY <1>2, <1>3 DEF Entry, Entries
<1>5. Writes(x) /\ x.to + Fanout - 1 \in PhysPages
  BY <1>1, <1>2, <1>3, <1>4 DEF RequestOK
<1>6. /\ Inv' /\ todo' = Tail(todo)
      /\ \A v \in VPages : Translate(v)' =
           IF v \in Promise!Covered(Now) THEN TranslationBy(x, v) ELSE Translate(v)
  BY <1>1, <1>4, <1>5, WritesKeepsInv
<1>7. \A v \in VPages : v \in Promise!Covered(Now) =>
        TranslationBy(x, v) = Promise!Translation(Now, v)
  <2> SUFFICES ASSUME NEW v \in VPages, v \in Promise!Covered(Now)
      PROVE  TranslationBy(x, v) = Promise!Translation(Now, v)
    OBVIOUS
  <2>1. v \in Now.virt..Now.virt + Fanout - 1 /\ Now.virt % Fanout = 0
    BY <1>1, <1>2 DEF Promise!Covered, RequestOK
  <2>2. v % Fanout = v - Now.virt
    BY <1>2, <2>1, HugePagesApart
  <2>3. TranslationBy(x, v) = [phys |-> Now.phys + (v % Fanout), flags |-> Now.flags]
    BY <1>4 DEF TranslationBy
  <2>4. QED  BY <1>1, <2>2, <2>3 DEF Promise!Translation
<1>8. QED  BY <1>1, <1>6, <1>7 DEF Carried

LEMMA vmm_unmap_pageKeepsInv ==
  ASSUME Inv, vmm_unmap_page
  PROVE  Inv' /\ Carried
<1>1. todo # << >> /\ walk.level = Depth /\ Now.op = "unmap" /\ Writes(Absent)
  BY DEF vmm_unmap_page, Arrived
<1>2. PICK x : x = Absent
  OBVIOUS
<1>3. x \in Entries /\ x.kind = "none"
  BY <1>2, TablesAssumption DEF Absent, Entry, Entries, Flags
<1>4. Writes(x)
  BY <1>1, <1>2
<1>5. /\ Inv' /\ todo' = Tail(todo)
      /\ \A v \in VPages : Translate(v)' =
           IF v \in Promise!Covered(Now) THEN TranslationBy(x, v) ELSE Translate(v)
  BY <1>1, <1>3, <1>4, WritesKeepsInv
<1>6. \A v \in VPages : TranslationBy(x, v) = Promise!Translation(Now, v)
  BY <1>1, <1>3 DEF TranslationBy, Promise!Translation
<1>7. QED  BY <1>1, <1>5, <1>6 DEF Carried
-----------------------------------------------------------------------------
(* What vmm_init asks for. *)

LEMMA BootNumbers ==
  /\ MemoryPages \in Nat /\ KernelPages \in Nat /\ FbPages \in Nat
  /\ KernelPhys \in Nat /\ FbPhys \in Nat /\ Fanout \in Nat \ {0, 1}
  /\ DirectMap \in VPages /\ KernelVirt \in VPages
  /\ DirectMap \in Nat /\ KernelVirt \in Nat /\ DirectMap % Fanout = 0
  /\ div_ceil(MemoryPages, Fanout) \in Nat
  /\ div_ceil(MemoryPages, Fanout) * Fanout \in Nat
<1>1. /\ MemoryPages \in Nat /\ KernelPages \in Nat /\ FbPages \in Nat
      /\ KernelPhys \in Nat /\ FbPhys \in Nat /\ Fanout \in Nat \ {0, 1}
      /\ DirectMap \in VPages /\ KernelVirt \in VPages /\ DirectMap % Fanout = 0
  BY TablesAssumption
<1>2. DirectMap \in Nat /\ KernelVirt \in Nat
  BY <1>1, PagesAreNumbers
<1>3. PICK d : d = div_ceil(MemoryPages, Fanout)
  OBVIOUS
<1>4. d \in Nat
  <2>1. MemoryPages + Fanout - 1 \in Nat
    BY <1>1
  <2>2. QED  BY <1>1, <1>3, <2>1, QuotientBounds DEF div_ceil
<1>5. d * Fanout \in Nat
  BY <1>1, <1>4
<1>6. QED  BY <1>1, <1>2, <1>3, <1>4, <1>5

LEMMA DirectMapRequestsFacts ==
  /\ DirectMapRequests \in Seq(Requests)
  /\ Len(DirectMapRequests) = div_ceil(MemoryPages, Fanout)
  /\ \A i \in 1..Len(DirectMapRequests) :
       RequestOK(DirectMapRequests[i]) /\ DirectMapRequests[i].op = "map_huge"
<1>1. PICK n : n = div_ceil(MemoryPages, Fanout)
  OBVIOUS
<1>2. n \in Nat /\ n * Fanout \in Nat
  BY <1>1, BootNumbers
<1>3. DirectMapRequests =
        [i \in 1..n |-> Request("map_huge", DirectMap + (i - 1) * Fanout,
                                (i - 1) * Fanout, "w")]
  BY <1>1 DEF DirectMapRequests
<1>4. ASSUME NEW i \in 1..n
      PROVE  LET r == Request("map_huge", DirectMap + (i - 1) * Fanout,
                              (i - 1) * Fanout, "w")
             IN  r \in Requests /\ RequestOK(r) /\ r.op = "map_huge"
  <2>1. i - 1 \in Nat /\ i \in Nat /\ i <= n
    BY <1>2
  <2> DEFINE x == (i - 1) * Fanout
             y == i * Fanout
             z == n * Fanout
  <2>2. x \in Nat /\ y \in Nat /\ z \in Nat /\ y = x + Fanout /\ y <= z
    <3>1. y = x + Fanout /\ x \in Nat
      BY <2>1, Numbers
    <3>2. y <= z /\ y \in Nat /\ z \in Nat
      BY <1>2, <2>1, Numbers, Monotone
    <3>3. QED  BY <3>1, <3>2
  <2>3. (DirectMap + x) % Fanout = 0
    <3>1. PICK q \in Nat : DirectMap = q * Fanout
      <4>1. DirectMap = (DirectMap \div Fanout) * Fanout + (DirectMap % Fanout)
            /\ DirectMap \div Fanout \in Nat
        BY BootNumbers, QuotientBounds
      <4>2. (DirectMap \div Fanout) * Fanout \in Nat
        BY <4>1, BootNumbers, Monotone
      <4>3. QED  BY <4>1, <4>2, BootNumbers
    <3>2. DirectMap + x = (q + (i - 1)) * Fanout
      BY <2>1, <3>1, Numbers
    <3>3. PICK k \in Nat : k = q + (i - 1)
      BY <2>1
    <3>4. (DirectMap + x) % Fanout = (k * Fanout) % Fanout
      BY <3>2, <3>3
    <3>5. (k * Fanout) % Fanout = 0
      <4>1. PICK a \in Nat : a = k * Fanout
        BY Numbers
      <4>2. a \div Fanout = k
        BY <4>1, Numbers, Quotient
      <4>3. a = (a \div Fanout) * Fanout + (a % Fanout) /\ a % Fanout \in 0..Fanout - 1
        BY <4>1, Numbers, QuotientBounds
      <4>4. a = a + (a % Fanout)
        BY <4>1, <4>2, <4>3
      <4>5. a % Fanout = 0
        BY <4>1, <4>3, <4>4, Numbers
      <4>6. QED  BY <4>1, <4>5
    <3>6. QED  BY <3>4, <3>5
  <2> HIDE DEF x, y, z
  <2>4. x \in 0..z - 1 /\ x + (Fanout - 1) \in 0..z - 1
    BY <2>2, Numbers
  <2>5. /\ DirectMap + x \in VPages /\ x \in PhysPages
        /\ DirectMap + (x + (Fanout - 1)) \in VPages /\ x + (Fanout - 1) \in PhysPages
    BY <1>1, <2>4, LayoutAssumption DEF z
  <2>6. /\ DirectMap + x + Fanout - 1 = DirectMap + (x + (Fanout - 1))
        /\ x + Fanout - 1 = x + (Fanout - 1)
    BY <2>2, BootNumbers
  <2>7. PICK r : r = Request("map_huge", DirectMap + x, x, "w")
    OBVIOUS
  <2>8. /\ r.op = "map_huge" /\ r.virt = DirectMap + x /\ r.phys = x
        /\ r \in Requests
    BY <2>5, <2>7 DEF Request, Requests, Flags
  <2>9. RequestOK(r)
    BY <2>3, <2>5, <2>6, <2>8 DEF RequestOK
  <2>10. QED  BY <2>7, <2>8, <2>9 DEF x
<1>5. \A i \in 1..n : DirectMapRequests[i] \in Requests
        /\ RequestOK(DirectMapRequests[i]) /\ DirectMapRequests[i].op = "map_huge"
  BY <1>3, <1>4
<1>6. DirectMapRequests \in [1..n -> Requests]
  BY <1>3, <1>5
<1>7. DirectMapRequests \in Seq(Requests) /\ Len(DirectMapRequests) = n
  BY <1>2, <1>6
<1>8. QED  BY <1>1, <1>5, <1>7

(* Requests for single pages. *)
SingleRequests(s) ==
  /\ s \in Seq(Requests)
  /\ \A i \in 1..Len(s) : RequestOK(s[i]) /\ s[i].op # "map_huge"

LEMMA SinglesFacts ==
  ASSUME NEW n \in Nat, NEW s, s = [i \in 1..n |-> s[i]],
         \A i \in 1..n : s[i] \in Requests /\ s[i].op # "map_huge"
  PROVE  SingleRequests(s) /\ Len(s) = n
<1>1. s \in [1..n -> Requests]
  OBVIOUS
<1>2. s \in Seq(Requests) /\ Len(s) = n
  BY <1>1
<1>3. QED  BY <1>2 DEF SingleRequests, RequestOK

LEMMA KernelRequestsFacts == SingleRequests(KernelRequests)
<1>1. ASSUME NEW i \in 1..KernelPages
      PROVE  KernelRequests[i] \in Requests /\ KernelRequests[i].op # "map_huge"
  <2>1. i - 1 \in 0..KernelPages - 1
    BY BootNumbers
  <2>2. KernelVirt + (i - 1) \in VPages /\ KernelPhys + (i - 1) \in PhysPages
    BY <2>1, LayoutAssumption
  <2>3. KernelVirt + i - 1 = KernelVirt + (i - 1)
        /\ KernelPhys + i - 1 = KernelPhys + (i - 1)
    BY BootNumbers
  <2>4. QED  BY <2>2, <2>3 DEF KernelRequests, Request, Requests, Flags
<1>2. KernelRequests = [i \in 1..KernelPages |-> KernelRequests[i]]
  BY DEF KernelRequests
<1>3. QED  BY <1>1, <1>2, BootNumbers, SinglesFacts

LEMMA FramebufferRequestsFacts == SingleRequests(FramebufferRequests)
<1>1. ASSUME NEW i \in 1..FbPages
      PROVE  FramebufferRequests[i] \in Requests /\ FramebufferRequests[i].op # "map_huge"
  <2>1. i - 1 \in 0..FbPages - 1
    BY BootNumbers
  <2>2. DirectMap + FbPhys + (i - 1) \in VPages /\ FbPhys + (i - 1) \in PhysPages
    BY <2>1, LayoutAssumption
  <2>3. DirectMap + FbPhys + i - 1 = DirectMap + FbPhys + (i - 1)
        /\ FbPhys + i - 1 = FbPhys + (i - 1)
    BY BootNumbers
  <2>4. QED  BY <2>2, <2>3 DEF FramebufferRequests, Request, Requests, Flags
<1>2. FramebufferRequests = [i \in 1..FbPages |-> FramebufferRequests[i]]
  BY DEF FramebufferRequests
<1>3. QED  BY <1>1, <1>2, BootNumbers, SinglesFacts

LEMMA SinglesConcat ==
  ASSUME NEW s, NEW t, SingleRequests(s), SingleRequests(t)
  PROVE  SingleRequests(s \o t)
<1>1. /\ s \in Seq(Requests) /\ t \in Seq(Requests) /\ s \o t \in Seq(Requests)
      /\ Len(s) \in Nat /\ Len(t) \in Nat /\ Len(s \o t) = Len(s) + Len(t)
      /\ \A i \in 1..Len(s) + Len(t) :
           (s \o t)[i] = IF i <= Len(s) THEN s[i] ELSE t[i - Len(s)]
  BY ConcatProperties DEF SingleRequests
<1>2. ASSUME NEW i \in 1..Len(s) + Len(t)
      PROVE  RequestOK((s \o t)[i]) /\ (s \o t)[i].op # "map_huge"
  <2>1. CASE i <= Len(s)
    <3>1. i \in 1..Len(s)
      BY <1>1, <2>1
    <3>2. QED  BY <1>1, <2>1, <3>1 DEF SingleRequests
  <2>2. CASE ~(i <= Len(s))
    <3>1. i - Len(s) \in 1..Len(t)
      BY <1>1, <2>2
    <3>2. QED  BY <1>1, <2>2, <3>1 DEF SingleRequests
  <2>3. QED  BY <2>1, <2>2
<1>3. QED  BY <1>1, <1>2 DEF SingleRequests

(* All requests of vmm_init, of which the huge ones come first. *)
HugeOnesFirst(q) ==
  /\ q \in Seq(Requests)
  /\ \A i \in 1..Len(q) : RequestOK(q[i])
  /\ \A i, j \in 1..Len(q) :
       i < j /\ q[j].op = "map_huge" => q[i].op = "map_huge"

(* Concatenations regroup. *)
Regrouped(s, t, u) == (s \o t) \o u = s \o (t \o u)

LEMMA Regroup == \A S : \A s, t, u \in Seq(S) : Regrouped(s, t, u)
  BY ConcatAssociative DEF Regrouped

LEMMA BootRequests ==
  HugeOnesFirst(DirectMapRequests \o KernelRequests \o FramebufferRequests)
<1>0. PICK q : q = DirectMapRequests \o KernelRequests \o FramebufferRequests
  OBVIOUS
<1>1. PICK s : s = DirectMapRequests
  OBVIOUS
<1>2. PICK t : t = KernelRequests \o FramebufferRequests
  OBVIOUS
<1>3. /\ s \in Seq(Requests)
      /\ \A i \in 1..Len(s) : RequestOK(s[i]) /\ s[i].op = "map_huge"
  BY <1>1, DirectMapRequestsFacts
<1>4. SingleRequests(t)
  BY <1>2, KernelRequestsFacts, FramebufferRequestsFacts, SinglesConcat
<1>5. q = s \o t
  <2>1. KernelRequests \in Seq(Requests) /\ FramebufferRequests \in Seq(Requests)
    BY KernelRequestsFacts, FramebufferRequestsFacts DEF SingleRequests
  <2>2. (s \o KernelRequests) \o FramebufferRequests = s \o t
    <3>1. s \in Seq(Requests)
      BY <1>3
    <3>2. Regrouped(s, KernelRequests, FramebufferRequests)
      BY Zenon, <2>1, <3>1, Regroup
    <3>3. QED  BY Zenon, <1>2, <3>2 DEF Regrouped
  <2>3. QED  BY <1>0, <1>1, <2>2
<1>6. /\ t \in Seq(Requests) /\ q \in Seq(Requests)
      /\ Len(s) \in Nat /\ Len(t) \in Nat /\ Len(q) = Len(s) + Len(t)
      /\ \A i \in 1..Len(s) + Len(t) :
           q[i] = IF i <= Len(s) THEN s[i] ELSE t[i - Len(s)]
  BY <1>3, <1>4, <1>5, ConcatProperties DEF SingleRequests
<1>7. ASSUME NEW i \in 1..Len(q)
      PROVE  RequestOK(q[i]) /\ (q[i].op = "map_huge" <=> i <= Len(s))
  <2>1. CASE i <= Len(s)
    <3>1. i \in 1..Len(s) /\ q[i] = s[i]
      BY <1>6, <2>1
    <3>2. QED  BY <1>3, <2>1, <3>1
  <2>2. CASE ~(i <= Len(s))
    <3>1. i - Len(s) \in 1..Len(t) /\ q[i] = t[i - Len(s)]
      BY <1>6, <2>2
    <3>2. QED  BY <1>4, <2>2, <3>1 DEF SingleRequests
  <2>3. QED  BY <2>1, <2>2
<1>8. \A i, j \in 1..Len(q) :
        i < j /\ q[j].op = "map_huge" => q[i].op = "map_huge"
  BY <1>6, <1>7
<1>9. HugeOnesFirst(q)
  BY <1>6, <1>7, <1>8 DEF HugeOnesFirst
<1>10. QED  BY <1>0, <1>9
-----------------------------------------------------------------------------
LEMMA InitInv == Init => Inv
<1> SUFFICES ASSUME Init PROVE Inv
  OBVIOUS
<1>1. 0 \in PhysPages /\ Unmapped \in Translations /\ 0 \in 0..MaxCalls
  BY TablesAssumption, UnmappedIsTranslation
<1>2. mem \in [Frames -> [Slots -> Entries]]
  <2>1. Entry("page", 0, "w") \in Entries
    BY <1>1 DEF Entry, Entries, Flags
  <2>2. mem = [f \in Frames |-> [i \in Slots |-> Entry("page", 0, "w")]]
    BY DEF Init, Slots
  <2>3. QED  BY <2>1, <2>2
<1>3. walk \in [level : 1..Levels, table : Frames \cup {0}]
  BY Numbers DEF Init, AtRoot
<1>4. free \subseteq Frames
  BY TablesAssumption DEF Init
<1>5. Ranges
  BY <1>1, <1>2, <1>3, <1>4 DEF Init, Ranges, Translations
<1>6. TodoOK
  BY DEF Init, TodoOK
<1>7. QED
  BY <1>5, <1>6 DEF Init, Inv, Rootless, TreeOK, TlbOK

LEMMA vmm_initKeepsInv ==
  ASSUME Inv, vmm_init
  PROVE  Inv' /\ (Stays \/ Asked)
<1>1. root = 0 /\ UNCHANGED <<active, tlb, calls>>
  BY DEF vmm_init
<1>2. held = {} /\ ~active /\ todo = << >>
  BY <1>1 DEF Inv, Rootless
<1>3. CASE Fails("no_pml4") /\ UNCHANGED <<root, mem, todo, walk>>
  BY <1>1, <1>3, FailsFacts, StopKeepsInv
<1>4. CASE /\ Takes
           /\ root' = NewFrame
           /\ mem' = [mem EXCEPT ![NewFrame] = Zeroed]
           /\ todo' = DirectMapRequests \o KernelRequests \o FramebufferRequests
           /\ walk' = AtRoot(NewFrame)
  <2>1. PICK g : g = NewFrame
    OBVIOUS
  <2>2. /\ g \in Frames /\ held' = {g} /\ free' = free \ {g} /\ oom' = FALSE
        /\ UNCHANGED panicked
    BY <1>2, <1>4, <2>1 DEF Takes, Pool!Take, Inv, Ranges
  <2>3. /\ root' = g /\ walk' = [level |-> 1, table |-> g]
        /\ mem' = [mem EXCEPT ![g] = Zeroed] /\ g # 0
    BY <1>4, <2>1, <2>2, TablesAssumption DEF AtRoot
  <2>4. /\ mem' \in [Frames -> [Slots -> Entries]]
        /\ \A i \in Slots : mem'[g][i] = Absent /\ mem'[g][i].kind = "none"
    <3>1. mem \in [Frames -> [Slots -> Entries]]
      BY DEF Inv, Ranges
    <3>2. Zeroed \in [Slots -> Entries]
      BY ZeroedFacts
    <3>3. mem' \in [Frames -> [Slots -> Entries]] /\ mem'[g] = Zeroed
      BY <2>2, <2>3, <3>1, <3>2
    <3>4. QED  BY <3>3, ZeroedFacts
  <2>5. PICK lab : lab = [x \in {g} |-> [level |-> 1, page |-> 0]]
    OBVIOUS
  <2>6. PICK m : m = mem'
    OBVIOUS
  <2>7. /\ Shape(g, m, {g}, lab)
        /\ \A v \in VPages : TranslateIn(m, g, v) = Unmapped
    BY <2>2, <2>4, <2>5, <2>6, RootAlone
  <2>8. SameTranslations
    <3>1. \A v \in VPages : Translate(v)' = TranslateIn(m, g, v)
      BY <2>3, <2>6 DEF Translate, TranslateIn
    <3>2. \A v \in VPages : Translate(v) = Unmapped
      BY <1>1 DEF Translate
    <3>3. QED  BY <2>7, <3>1, <3>2 DEF SameTranslations
  <2>9. TodoOK'
    <3>1. HugeOnesFirst(todo')
      BY <1>4, BootRequests
    <3>2. ~ active'
      BY <1>1, <1>2
    <3>3. QED  BY <3>1, <3>2 DEF TodoOK, HugeOnesFirst
  <2>10. lab[g].level = 1 /\ Tree(g, m, {g}, lab) /\ lab \in [{g} -> Labels]
    BY <2>5, <2>7 DEF Shape, Tree
  <2>11. TreeOK'
    <3>1. Tree(root', mem', held', lab) /\ lab \in [held' -> Labels]
      BY <2>2, <2>3, <2>6, <2>10
    <3>2. Leaves(mem', held', lab)
      BY <2>2, <2>4 DEF Leaves
    <3>3. WalkOK(lab)'
      <4>1. walk'.table \in held' /\ lab[walk'.table].level = walk'.level
            /\ walk'.level = 1 /\ lab[walk'.table].level = 1
        BY <2>2, <2>3, <2>10
      <4>2. 1 <= Depth'
        <5>1. Depth' = IF Now'.op = "map_huge" THEN Levels - 1 ELSE Levels
          BY DEF Depth
        <5>2. QED  BY <5>1, Numbers
      <4>3. 1..lab[walk'.table].level - 1 = {}
        BY <4>1
      <4>4. OnPath(lab, walk.table, Now.virt)'
        BY <4>3 DEF OnPath, SamePath
      <4>5. QED  BY <2>3, <4>1, <4>2, <4>4 DEF WalkOK, AtRoot
    <3>4. HugeFirst(held, lab)'
      BY <2>2, <2>10, Numbers DEF HugeFirst
    <3>5. QED  BY <3>1, <3>2, <3>3, <3>4 DEF TreeOK
  <2>12. Ranges'
    <3>1. /\ free' \subseteq Frames /\ held' \subseteq Frames
          /\ free' \cap held' = {} /\ oom' \in BOOLEAN
      BY <2>2 DEF Inv, Ranges
    <3>2. walk' \in [level : 1..Levels, table : Frames \cup {0}]
      BY <2>2, <2>3, Numbers
    <3>3. QED  BY <1>1, <2>2, <2>3, <2>4, <3>1, <3>2 DEF Inv, Ranges, tlb
  <2>13. Rootless'
    BY <2>3 DEF Rootless
  <2>14. TlbOK'
    BY <1>1, <2>8, TlbKept
  <2>15. QED
    BY <1>2, <2>8, <2>9, <2>11, <2>12, <2>13, <2>14 DEF Inv, Asked
<1>5. QED  BY <1>3, <1>4 DEF vmm_init

(* Loading CR3 empties the TLB. *)
LEMMA vmm_switch_pagemapKeepsInv ==
  ASSUME Inv, vmm_switch_pagemap
  PROVE  Inv' /\ Stays
<1>1. /\ root # 0 /\ todo = << >> /\ active' = TRUE /\ cached' = Unmapped
      /\ UNCHANGED <<pool, mem, root, todo, walk, watched, calls, panicked>>
  BY DEF vmm_switch_pagemap
<1>2. Ranges'
  BY <1>1, UnmappedIsTranslation DEF Inv, Ranges, Translations, pool
<1>3. TodoOK'
  BY <1>1 DEF Inv, TodoOK
<1>4. Rootless' /\ TlbOK'
  BY <1>1 DEF Rootless, TlbOK
<1>5. TreeOK'
  <2>1. TreeOK
    BY DEF Inv
  <2>2. QED  BY <1>1, <2>1 DEF TreeOK, WalkOK, HugeFirst, Now, Depth, pool
<1>6. SameTranslations
  BY <1>1 DEF SameTranslations, Translate
<1>7. QED  BY <1>1, <1>2, <1>3, <1>4, <1>5, <1>6 DEF Inv, Stays
-----------------------------------------------------------------------------
(* Callers. *)

(* A caller asks for single pages. *)
LEMMA AsksKeepsInv ==
  ASSUME Inv, NEW v, NEW n, Asks(v, n), SingleRequests(todo')
  PROVE  Inv' /\ Asked
<1>1. /\ active /\ todo = << >> /\ calls' = calls + 1 /\ calls < MaxCalls
      /\ UNCHANGED <<pool, mem, root, active, walk, tlb, panicked>>
  BY DEF Asks
<1>2. calls' \in 0..MaxCalls
  BY <1>1, TablesAssumption DEF Inv, Ranges
<1>3. Ranges'
  BY <1>1, <1>2 DEF Inv, Ranges, pool, tlb
<1>4. TodoOK'
  BY DEF TodoOK, SingleRequests
<1>5. Rootless'
  BY <1>1 DEF Inv, Rootless, pool
<1>6. SameTranslations
  BY <1>1 DEF SameTranslations, Translate
<1>7. TlbOK'
  BY <1>1, <1>6, TlbKept
<1>8. TreeOK'
  <2>1. root # 0
    BY <1>1 DEF Inv, Rootless
  <2>2. PICK lab \in [held -> Labels] :
          Tree(root, mem, held, lab) /\ Leaves(mem, held, lab) /\ WalkOK(lab)
    BY <2>1 DEF Inv, TreeOK
  <2>3. walk' = [level |-> 1, table |-> root]
    BY <1>1, <2>2 DEF WalkOK, AtRoot
  <2>4. root \in held /\ lab[root].level = 1
    BY <2>2 DEF Tree
  <2>5. held' = held /\ root' = root /\ mem' = mem
    BY <1>1 DEF pool
  <2>6. HugeFirst(held, lab)'
    <3> SUFFICES ASSUME todo' # << >> PROVE Now'.op # "map_huge"
      BY DEF HugeFirst
    <3>1. todo' \in Seq(Requests)
      BY DEF SingleRequests
    <3>2. Now' = todo'[1] /\ 1 \in 1..Len(todo')
      BY <3>1 DEF Now
    <3>3. QED  BY <3>2 DEF SingleRequests
  <2>7. WalkOK(lab)'
    <3> SUFFICES ASSUME todo' # << >> PROVE WalkOK(lab)'
      BY <2>3, <2>5 DEF WalkOK, AtRoot
    <3>1. Depth' = IF Now'.op = "map_huge" THEN Levels - 1 ELSE Levels
      BY DEF Depth
    <3>2. 1 <= Depth'
      BY <3>1, Numbers
    <3>3. walk'.table = root /\ walk'.level = 1 /\ 1..lab[root].level - 1 = {}
      BY <2>3, <2>4
    <3>4. OnPath(lab, walk.table, Now.virt)'
      BY <3>3 DEF OnPath, SamePath
    <3>5. QED  BY <2>4, <2>5, <3>2, <3>3, <3>4 DEF WalkOK
  <2>8. QED  BY <2>2, <2>5, <2>6, <2>7 DEF TreeOK
<1>9. QED  BY <1>1, <1>3, <1>4, <1>5, <1>6, <1>7, <1>8 DEF Inv, Asked
LEMMA CallsKeepsInv ==
  ASSUME Inv, Calls
  PROVE  Inv' /\ Asked
<1>1. PICK v \in VPages, n \in 1..MaxPages :
        vmm_unmap_range(v, n) \/ \E p \in Devices : vmm_map_range(v, p, n)
  BY DEF Calls
<1>2. n \in Nat \ {0} /\ v \in Nat
  BY TablesAssumption, PagesAreNumbers
<1>3. ASSUME v + n - 1 \in VPages, NEW i \in 1..n
      PROVE  v + i - 1 \in VPages
  <2>1. Span[0] \in Nat /\ VPages = 0..Span[0] - 1
    BY SpanFacts, Numbers DEF VPages
  <2>2. PICK s \in Nat : s = Span[0]
    BY <2>1
  <2>3. QED  BY <1>2, <1>3, <2>1, <2>2
<1>4. CASE vmm_unmap_range(v, n)
  <2>1. Asks(v, n) /\ v + n - 1 \in VPages
        /\ todo' = [i \in 1..n |-> Request("unmap", v + i - 1, 0, "none")]
    BY <1>4 DEF vmm_unmap_range, Asks
  <2>2. \A i \in 1..n : todo'[i] \in Requests /\ todo'[i].op # "map_huge"
    BY <1>3, <2>1, TablesAssumption DEF Request, Requests, Flags
  <2>3. PICK s : s = todo'
    OBVIOUS
  <2>4. s = [i \in 1..n |-> s[i]] /\ n \in Nat
        /\ \A i \in 1..n : s[i] \in Requests /\ s[i].op # "map_huge"
    BY <1>2, <2>1, <2>2, <2>3
  <2>5. SingleRequests(todo')
    BY <2>3, <2>4, SinglesFacts
  <2>6. QED  BY <2>1, <2>5, AsksKeepsInv
<1>5. ASSUME NEW p \in Devices, vmm_map_range(v, p, n)
      PROVE  Inv' /\ Asked
  <2>1. /\ Asks(v, n) /\ v + n - 1 \in VPages /\ p + n - 1 \in PhysPages
        /\ todo' = [i \in 1..n |-> Request("map", v + i - 1, p + i - 1, "wc")]
    BY <1>5 DEF vmm_map_range, Asks
  <2>2. ASSUME NEW i \in 1..n PROVE p + i - 1 \in PhysPages
    <3>1. p \in Nat
      BY TablesAssumption
    <3>2. p + i - 1 \in 0..p + n - 1
      BY <1>2, <3>1
    <3>3. QED  BY <2>1, <3>2, TablesAssumption
  <2>3. \A i \in 1..n : todo'[i] \in Requests /\ todo'[i].op # "map_huge"
    BY <1>3, <2>1, <2>2 DEF Request, Requests, Flags
  <2>4. PICK s : s = todo'
    OBVIOUS
  <2>5. s = [i \in 1..n |-> s[i]] /\ n \in Nat
        /\ \A i \in 1..n : s[i] \in Requests /\ s[i].op # "map_huge"
    BY <1>2, <2>1, <2>3, <2>4
  <2>6. SingleRequests(todo')
    BY <2>4, <2>5, SinglesFacts
  <2>7. QED  BY <2>1, <2>6, AsksKeepsInv
<1>6. QED  BY <1>1, <1>4, <1>5

(* The processor uses an address. *)
LEMMA AccessKeepsInv ==
  ASSUME Inv, Access
  PROVE  Inv' /\ Stays
<1>1. /\ active /\ cached' = Translate(watched)
      /\ UNCHANGED <<pool, mem, root, active, todo, walk, watched, calls, panicked>>
  BY DEF Access
<1>2. TodoOK' /\ Rootless' /\ TreeOK' /\ SameTranslations
  BY <1>1, TablesKept DEF pool
<1>3. PICK w \in VPages : w = watched
  BY DEF Inv, Ranges
<1>4. Translate(w) \in Translations /\ Translate(watched) = Translate(w)
  BY <1>3, TranslateType DEF Inv
<1>5. Ranges'
  BY <1>1, <1>4 DEF Inv, Ranges, Translations, pool
<1>6. TlbOK'
  <2>1. Translate(watched)' = Translate(w)'
    BY <1>1, <1>3 DEF Translate
  <2>2. Translate(w)' = Translate(w)
    BY <1>2 DEF SameTranslations
  <2>3. QED  BY <1>1, <1>4, <2>1, <2>2 DEF TlbOK
<1>7. QED  BY <1>1, <1>2, <1>5, <1>6 DEF Inv, Stays

LEMMA vmm_page_fault_handlerKeepsInv ==
  ASSUME Inv, vmm_page_fault_handler
  PROVE  Inv' /\ Stays
<1>1. panicked' = "page_fault"
      /\ UNCHANGED <<pool, mem, root, active, todo, walk, tlb, calls>>
  BY DEF vmm_page_fault_handler
<1>2. oom' \in BOOLEAN
  BY <1>1 DEF Inv, Ranges, pool
<1>3. QED  BY <1>1, <1>2, StopKeepsInv DEF pool

LEMMA StutterKeepsInv ==
  ASSUME Inv, UNCHANGED vars
  PROVE  Inv' /\ Stays
<1>1. UNCHANGED <<mem, root, todo, walk, active, tlb, calls, free, held, oom, panicked>>
  BY DEF vars, pool
<1>2. oom' \in BOOLEAN
      /\ panicked' \in {"no", "no_pml4", "no_frame_for_split", "no_frame_for_table",
                        "huge_page", "page_fault"}
  BY <1>1 DEF Inv, Ranges
<1>3. QED  BY <1>1, <1>2, StopKeepsInv

LEMMA StepFacts ==
  ASSUME Inv, [Next]_vars
  PROVE  Inv' /\ (Stays \/ Carried \/ Asked)
<1>1. CASE vmm_init
  BY <1>1, vmm_initKeepsInv
<1>2. CASE get_next_level
  BY <1>2, get_next_levelKeepsInv
<1>3. CASE vmm_map_page
  BY <1>3, vmm_map_pageKeepsInv
<1>4. CASE vmm_map_page_2mb
  BY <1>4, vmm_map_page_2mbKeepsInv
<1>5. CASE vmm_unmap_page
  BY <1>5, vmm_unmap_pageKeepsInv
<1>6. CASE vmm_switch_pagemap
  BY <1>6, vmm_switch_pagemapKeepsInv
<1>7. CASE Calls
  BY <1>7, CallsKeepsInv
<1>8. CASE Access
  BY <1>8, AccessKeepsInv
<1>9. CASE vmm_page_fault_handler
  BY <1>9, vmm_page_fault_handlerKeepsInv
<1>10. CASE halt_catchfire \/ Rests \/ UNCHANGED vars
  BY <1>10, StutterKeepsInv DEF halt_catchfire, Rests
<1>11. QED
  BY <1>1, <1>2, <1>3, <1>4, <1>5, <1>6, <1>7, <1>8, <1>9, <1>10 DEF Next, InCall

LEMMA NextKeepsInv == Inv /\ [Next]_vars => Inv'
  BY StepFacts

LEMMA Invariance == Spec => []Inv
  BY InitInv, NextKeepsInv, PTL DEF Spec
-----------------------------------------------------------------------------
(* What the invariant says of the properties. *)

LEMMA InvImpliesTypeOK == Inv => TypeOK
<1> SUFFICES ASSUME Inv PROVE TypeOK
  OBVIOUS
<1>1. /\ free \subseteq Frames /\ held \subseteq Frames /\ oom \in BOOLEAN
      /\ mem \in [Frames -> [0..Fanout - 1 ->
           [kind : {"table"}, to : Frames, flags : Flags]
             \cup [kind : {"none", "huge", "page"}, to : PhysPages, flags : Flags]]]
      /\ root \in Frames \cup {0} /\ active \in BOOLEAN
  BY DEF Inv, Ranges, Entries, Slots
<1>2. \A i \in DOMAIN todo : todo[i] \in Requests
  BY DEF Inv, TodoOK, RequestOK
<1>3. QED  BY <1>1, <1>2 DEF Inv, Ranges, Requests, TypeOK

LEMMA InvImpliesTablesAccountedFor == Inv => TablesAccountedFor
<1> SUFFICES ASSUME Inv PROVE TablesAccountedFor
  OBVIOUS
<1>1. TypeOK
  BY InvImpliesTypeOK
<1>2. CASE root = 0
  <2>1. held = {} /\ Links = {}
    BY <1>2 DEF Inv, Rootless, Links
  <2>2. QED  BY <1>1, <1>2, <2>1 DEF TablesAccountedFor
<1>3. CASE root # 0
  <2>1. PICK lab \in [held -> Labels] : Tree(root, mem, held, lab)
    BY <1>3 DEF Inv, TreeOK
  <2>2. ASSUME NEW l \in Links
        PROVE  /\ l[1] \in held /\ l[2] \in Slots /\ l = <<l[1], l[2]>>
               /\ Link(mem, l[1], l[2]) /\ Target(l) = mem[l[1]][l[2]].to
               /\ Target(l) \in held /\ Target(l) # root
    <3>1. l[1] \in held /\ l[2] \in Slots /\ l = <<l[1], l[2]>>
          /\ Link(mem, l[1], l[2]) /\ Target(l) = mem[l[1]][l[2]].to
      BY DEF Links, Slots, Link, Target
    <3>2. QED  BY <2>1, <3>1 DEF Tree
  <2>3. ASSUME NEW g \in held \ {root} PROVE \E l \in Links : Target(l) = g
    <3>1. PICK f \in held, i \in Slots : Link(mem, f, i) /\ mem[f][i].to = g
      BY <2>1 DEF Tree
    <3>2. <<f, i>> \in Links /\ Target(<<f, i>>) = g
      BY <3>1 DEF Links, Target, Link, Slots
    <3>3. QED  BY <3>2
  <2>4. root \in held
    BY <2>1 DEF Tree
  <2>5. held = {Target(l) : l \in Links} \cup ({root} \ {0})
    BY <1>3, <2>2, <2>3, <2>4
  <2>6. ASSUME NEW l \in Links, NEW m \in Links, Target(l) = Target(m) PROVE l = m
    <3>1. l[1] = m[1] /\ l[2] = m[2]
      BY <2>1, <2>2, <2>6 DEF Tree
    <3>2. QED  BY <2>2, <3>1
  <2>7. QED  BY <1>1, <2>2, <2>5, <2>6 DEF TablesAccountedFor
<1>4. QED  BY <1>2, <1>3

(* Every variable stays in its range, requests and entries included, for   *)
(* every layout of memory that the boot loader may report.                 *)
THEOREM TablesTypeCorrect == Spec => []TypeOK
  BY Invariance, InvImpliesTypeOK, PTL

(* No frame that the PMM gave out for a table is lost, and no two entries  *)
(* lead to the same table, whatever splits and failures there were.        *)
THEOREM TablesNeverLeaked == Spec => []TablesAccountedFor
  BY Invariance, InvImpliesTablesAccountedFor, PTL

(* The TLB holds for a page what the tables say, at every moment of a call *)
(* and for every page: splitting a huge entry needs no flush.              *)
THEOREM TlbNeverStale == Spec => []TlbCoherent
<1>1. Inv => TlbCoherent
  BY DEF Inv, TlbOK, TlbCoherent
<1>2. QED  BY Invariance, <1>1, PTL

(* Every step is, for the address space that vmm.h offers, nothing, a new  *)
(* request, or the request at the head of the queue, done completely.      *)
THEOREM TablesImplementAddressSpace == Spec => ImplementsAddressSpace
<1>1. Init => Promise!Init
  BY DEF Init, Promise!Init, Space, Translate
<1>2. Inv /\ [Next]_vars => [Promise!Next]_<<Space, todo>>
  <2> SUFFICES ASSUME Inv, [Next]_vars PROVE [Promise!Next]_<<Space, todo>>
    OBVIOUS
  <2>1. Space = [v \in VPages |-> Translate(v)]
        /\ Space' = [v \in VPages |-> Translate(v)']
    BY DEF Space
  <2>2. CASE Stays
    BY <2>1, <2>2 DEF Stays, SameTranslations
  <2>3. CASE Carried
    <3>1. Space' = Promise!After(Now)
      BY <2>1, <2>3 DEF Carried, Promise!After
    <3>2. QED  BY <2>3, <3>1 DEF Carried, Promise!Next, Promise!Carry, Now
  <2>4. CASE Asked
    <3>1. UNCHANGED Space
      BY <2>1, <2>4 DEF Asked, SameTranslations
    <3>2. QED  BY <2>4, <3>1 DEF Asked, Promise!Next, Promise!Ask
  <2>5. QED  BY <2>2, <2>3, <2>4, StepFacts
<1>3. QED
  BY <1>1, <1>2, Invariance, PTL
     DEF Spec, ImplementsAddressSpace, Promise!Spec, Promise!spaceVars
-----------------------------------------------------------------------------
(* The tables are complete when they come into use. *)

Boot == DirectMapRequests \o KernelRequests \o FramebufferRequests

(* All but the first k requests of vmm_init are still to be done. *)
Remaining(k) ==
  /\ Len(todo) = Len(Boot) - k
  /\ \A i \in 1..Len(todo) : todo[i] = Boot[k + i]

(* The last one of them that covers a page decides what it translates to.  *)
LastAt(j, k, v) ==
  /\ v \in Promise!Covered(Boot[j])
  /\ \A l \in j + 1..k : v \notin Promise!Covered(Boot[l])

Done(k) ==
  \A v \in VPages, j \in 1..k :
    LastAt(j, k, v) => Translate(v) = Promise!Translation(Boot[j], v)

BootOK ==
  root # 0 /\ ~active => \E k \in 0..Len(Boot) : Remaining(k) /\ Done(k)

LEMMA BootLength == Boot \in Seq(Requests) /\ Len(Boot) \in Nat
<1>1. Boot \in Seq(Requests)
  BY BootRequests DEF HugeOnesFirst, Boot
<1>2. QED  BY <1>1

LEMMA DoneOne ==
  ASSUME NEW k \in 0..Len(Boot), Remaining(k), Done(k), Carried, TodoOK
  PROVE  k + 1 \in 0..Len(Boot) /\ Remaining(k + 1)' /\ Done(k + 1)'
<1>1. Len(Boot) \in Nat
  BY BootLength
<1>2. PICK n \in Nat : n = Len(Boot)
  BY <1>1
<1>3. todo \in Seq(Requests) /\ todo # << >> /\ todo' = Tail(todo)
  BY DEF Carried, TodoOK
<1>4. PICK t \in Nat \ {0} : t = Len(todo)
  BY <1>3
<1>5. /\ Len(todo') = t - 1 /\ Now = todo[1]
      /\ \A i \in 1..t - 1 : todo'[i] = todo[i + 1]
  BY <1>3, <1>4, HeadTailProperties DEF Now
<1>6. t = n - k /\ k \in Nat /\ \A i \in 1..t : todo[i] = Boot[k + i]
  BY <1>2, <1>4 DEF Remaining
<1>7. k + 1 \in 0..n
  BY <1>6, <1>4
<1>8. Now = Boot[k + 1]
  BY <1>4, <1>5, <1>6
<1>9. Remaining(k + 1)'
  <2>1. \A i \in 1..t - 1 : i + 1 \in 1..t /\ k + (i + 1) = (k + 1) + i
    BY <1>6, <1>4
  <2>2. \A i \in 1..t - 1 : todo'[i] = Boot[(k + 1) + i]
    BY <1>5, <1>6, <2>1
  <2>3. t - 1 = n - (k + 1)
    BY <1>6
  <2>4. Len(todo') = Len(Boot) - (k + 1)
    BY <2>3, <1>2, <1>5
  <2>5. QED  BY <1>5, <2>2, <2>4 DEF Remaining
<1>10. ASSUME NEW v \in VPages, NEW j \in 1..k + 1, LastAt(j, k + 1, v)
       PROVE  Translate(v)' = Promise!Translation(Boot[j], v)
  <2>1. CASE j = k + 1
    <3>1. v \in Promise!Covered(Now)
      BY <1>8, <1>10, <2>1 DEF LastAt
    <3>2. QED  BY <1>8, <2>1, <3>1 DEF Carried
  <2>2. CASE j # k + 1
    <3>1. j \in 1..k /\ k + 1 \in j + 1..k + 1 /\ j + 1..k \subseteq j + 1..k + 1
      BY <1>6, <2>2
    <3>2. LastAt(j, k, v) /\ v \notin Promise!Covered(Now)
      BY <1>8, <1>10, <3>1 DEF LastAt
    <3>3. Translate(v) = Promise!Translation(Boot[j], v)
      BY <3>1, <3>2 DEF Done
    <3>4. QED  BY <3>2, <3>3 DEF Carried
  <2>3. QED  BY <2>1, <2>2
<1>11. Done(k + 1)'
  BY <1>10 DEF Done, LastAt
<1>12. QED  BY <1>2, <1>7, <1>9, <1>11

LEMMA BootStays ==
  ASSUME Inv, BootOK, Stays \/ Carried, root' = root, active' = active
  PROVE  BootOK'
<1> SUFFICES ASSUME root # 0, ~active
    PROVE  \E k \in 0..Len(Boot) : Remaining(k)' /\ Done(k)'
  BY DEF BootOK
<1>1. PICK k \in 0..Len(Boot) : Remaining(k) /\ Done(k)
  BY DEF BootOK
<1>2. CASE Stays
  <2>1. Remaining(k)'
    BY <1>1, <1>2 DEF Stays, Remaining
  <2>2. Done(k)'
    BY <1>1, <1>2 DEF Stays, SameTranslations, Done, LastAt
  <2>3. QED  BY <2>1, <2>2
<1>3. CASE Carried
  BY <1>1, <1>3, DoneOne DEF Inv
<1>4. QED  BY <1>2, <1>3

LEMMA BootKept ==
  ASSUME Inv, BootOK, [Next]_vars
  PROVE  BootOK'
<1>1. CASE vmm_init
  <2>1. CASE Fails("no_pml4") /\ UNCHANGED <<root, mem, todo, walk>>
    BY <1>1, <2>1 DEF vmm_init, BootOK
  <2>2. CASE /\ root' = NewFrame
             /\ todo' = Boot
    <3>1. Len(Boot) \in Nat
      BY BootLength
    <3>2. PICK b : b = Boot
      OBVIOUS
    <3>3. Remaining(0)'
      <4>1. Len(b) \in Nat /\ \A i \in 1..Len(b) : b[i] = b[0 + i]
        BY <3>1, <3>2
      <4>2. QED  BY <2>2, <3>2, <4>1 DEF Remaining
    <3>4. Done(0)'
      BY DEF Done
    <3>5. 0 \in 0..Len(Boot)
      BY <3>1
    <3>6. QED  BY <3>3, <3>4, <3>5 DEF BootOK
  <2>3. QED  BY <1>1, <2>1, <2>2 DEF vmm_init, Boot
<1>2. CASE InCall
  <2>1. Stays \/ Carried
    BY <1>2, get_next_levelKeepsInv, vmm_map_pageKeepsInv, vmm_map_page_2mbKeepsInv,
       vmm_unmap_pageKeepsInv DEF InCall
  <2>2. root' = root /\ active' = active
    BY <1>2 DEF InCall, get_next_level, vmm_map_page, vmm_map_page_2mb,
       vmm_unmap_page, Writes
  <2>3. QED  BY <2>1, <2>2, BootStays
<1>3. CASE vmm_switch_pagemap
  BY <1>3 DEF vmm_switch_pagemap, BootOK
<1>4. CASE Calls
  <2>1. active /\ active' = active
    BY <1>4 DEF Calls, vmm_map_range, vmm_unmap_range, Asks
  <2>2. QED  BY <2>1 DEF BootOK
<1>5. CASE Access
  <2>1. active /\ active' = active
    BY <1>5 DEF Access
  <2>2. QED  BY <2>1 DEF BootOK
<1>6. CASE vmm_page_fault_handler
  <2>1. active /\ active' = active
    BY <1>6 DEF vmm_page_fault_handler
  <2>2. QED  BY <2>1 DEF BootOK
<1>7. CASE halt_catchfire \/ Rests \/ UNCHANGED vars
  <2>1. UNCHANGED vars
    BY <1>7 DEF halt_catchfire, Rests
  <2>2. Stays /\ root' = root /\ active' = active
    BY <2>1, StutterKeepsInv DEF vars
  <2>3. QED  BY <2>2, BootStays
<1>8. QED
  BY <1>1, <1>2, <1>3, <1>4, <1>5, <1>6, <1>7 DEF Next
LEMMA BootInvariance == Spec => []BootOK
<1>1. Init => BootOK
  BY DEF Init, BootOK
<1>2. Inv /\ BootOK /\ [Next]_vars => BootOK'
  BY BootKept
<1>3. QED  BY <1>1, <1>2, Invariance, PTL DEF Spec

(* The three parts of vmm_init's requests. *)
HugePart == div_ceil(MemoryPages, Fanout)

LEMMA BootParts ==
  /\ HugePart \in Nat
  /\ Len(Boot) = HugePart + KernelPages + FbPages
  /\ \A i \in 1..HugePart : Boot[i] = DirectMapRequests[i]
  /\ \A i \in 1..KernelPages : Boot[HugePart + i] = KernelRequests[i]
  /\ \A i \in 1..FbPages : Boot[HugePart + KernelPages + i] = FramebufferRequests[i]
<1>1. PICK s : s = DirectMapRequests
  OBVIOUS
<1>2. PICK t : t = KernelRequests
  OBVIOUS
<1>3. PICK u : u = FramebufferRequests
  OBVIOUS
<1>4. s \in Seq(Requests) /\ Len(s) = HugePart /\ HugePart \in Nat
  BY <1>1, DirectMapRequestsFacts, BootNumbers DEF HugePart
<1>5. t \in Seq(Requests) /\ Len(t) = KernelPages
  <2>1. t \in Seq(Requests)
    BY <1>2, KernelRequestsFacts DEF SingleRequests
  <2>2. DOMAIN t = 1..KernelPages /\ KernelPages \in Nat
    BY <1>2, BootNumbers DEF KernelRequests
  <2>3. QED  BY <2>1, <2>2
<1>6. u \in Seq(Requests) /\ Len(u) = FbPages
  <2>1. u \in Seq(Requests)
    BY <1>3, FramebufferRequestsFacts DEF SingleRequests
  <2>2. DOMAIN u = 1..FbPages /\ FbPages \in Nat
    BY <1>3, BootNumbers DEF FramebufferRequests
  <2>3. QED  BY <2>1, <2>2
<1>7. PICK w : w = s \o t
  OBVIOUS
<1>8. /\ w \in Seq(Requests) /\ Len(w) = HugePart + KernelPages
      /\ \A i \in 1..HugePart + KernelPages :
           w[i] = IF i <= HugePart THEN s[i] ELSE t[i - HugePart]
  BY <1>4, <1>5, <1>7, ConcatProperties
<1>9. PICK b : b = w \o u
  OBVIOUS
<1>10. /\ b \in Seq(Requests) /\ Len(b) = HugePart + KernelPages + FbPages
       /\ \A i \in 1..HugePart + KernelPages + FbPages :
            b[i] = IF i <= HugePart + KernelPages THEN w[i]
                   ELSE u[i - (HugePart + KernelPages)]
  BY <1>6, <1>8, <1>9, ConcatProperties
<1>11. Boot = b
  <2>1. (s \o t) \o u = s \o (t \o u)
    <3>1. s \in Seq(Requests) /\ t \in Seq(Requests) /\ u \in Seq(Requests)
      BY <1>4, <1>5, <1>6
    <3>2. Regrouped(s, t, u)
      BY Zenon, <3>1, Regroup
    <3>3. QED  BY Zenon, <3>2 DEF Regrouped
  <2>2. QED  BY <2>1, <1>1, <1>2, <1>3, <1>7, <1>9 DEF Boot
<1>12. \A i \in 1..HugePart : b[i] = s[i]
  <2>1. \A i \in 1..HugePart :
          i \in 1..HugePart + KernelPages /\ i \in 1..HugePart + KernelPages + FbPages
          /\ i <= HugePart /\ i <= HugePart + KernelPages
    BY <1>4, BootNumbers
  <2>2. QED  BY <1>8, <1>10, <2>1
<1>13. ASSUME NEW i \in 1..KernelPages PROVE b[HugePart + i] = t[i]
  <2>1. PICK j : j = HugePart + i
    OBVIOUS
  <2>2. j \in 1..HugePart + KernelPages /\ j \in 1..HugePart + KernelPages + FbPages
        /\ ~(j <= HugePart) /\ j <= HugePart + KernelPages /\ j - HugePart = i
    BY <1>4, <2>1, BootNumbers
  <2>3. QED  BY <1>8, <1>10, <2>1, <2>2
<1>14. ASSUME NEW i \in 1..FbPages PROVE b[HugePart + KernelPages + i] = u[i]
  <2>1. PICK j : j = HugePart + KernelPages + i
    OBVIOUS
  <2>2. j \in 1..HugePart + KernelPages + FbPages
        /\ ~(j <= HugePart + KernelPages) /\ j - (HugePart + KernelPages) = i
    BY <1>4, <2>1, BootNumbers
  <2>3. QED  BY <1>10, <2>1, <2>2
<1>15. QED
  BY <1>1, <1>2, <1>3, <1>4, <1>10, <1>11, <1>12, <1>13, <1>14

(* What a request r makes of a page v that it covers. *)
Maps(r, v, p, flags) ==
  v \in Promise!Covered(r) /\ Promise!Translation(r, v) = [phys |-> p, flags |-> flags]

LEMMA HugePartMaps ==
  /\ \A i \in 1..HugePart, v \in VPages :
       v \in Promise!Covered(Boot[i]) => Maps(Boot[i], v, v - DirectMap, "w")
  /\ \A p \in 0..MemoryPages - 1 :
       \E i \in 1..HugePart : DirectMap + p \in Promise!Covered(Boot[i])
<1>1. ASSUME NEW i \in 1..HugePart
      PROVE  \E x \in Nat :
               /\ x = (i - 1) * Fanout
               /\ Boot[i] = Request("map_huge", DirectMap + x, x, "w")
  <2>1. Boot[i] = DirectMapRequests[i] /\ HugePart \in Nat
    BY BootParts
  <2>2. i - 1 \in Nat
    BY <2>1
  <2>3. PICK x \in Nat : x = (i - 1) * Fanout
    BY <2>2, Numbers
  <2>4. DirectMapRequests[i] = Request("map_huge", DirectMap + x, x, "w")
    BY <2>3 DEF DirectMapRequests, HugePart
  <2>5. QED  BY <2>1, <2>3, <2>4
<1>2. ASSUME NEW i \in 1..HugePart, NEW v \in VPages, v \in Promise!Covered(Boot[i])
      PROVE  Maps(Boot[i], v, v - DirectMap, "w")
  <2>1. PICK x \in Nat : Boot[i] = Request("map_huge", DirectMap + x, x, "w")
    BY <1>1
  <2>2. v \in Nat /\ DirectMap \in Nat
    BY PagesAreNumbers, BootNumbers
  <2>3. x + (v - (DirectMap + x)) = v - DirectMap
    BY <2>1, <2>2
  <2>4. QED  BY <1>2, <2>1, <2>3 DEF Maps, Promise!Translation, Request
<1>3. ASSUME NEW p \in 0..MemoryPages - 1
      PROVE  \E i \in 1..HugePart : DirectMap + p \in Promise!Covered(Boot[i])
  <2>0. p \in Nat
    BY BootNumbers
  <2>1. PICK a \in Nat : a = p \div Fanout
    BY <2>0, BootNumbers, QuotientBounds
  <2>2. PICK y \in Nat : y = a * Fanout
    BY <2>1, Numbers
  <2>3. y <= p /\ p < y + Fanout /\ p \in Nat
    BY <2>1, <2>2, BootNumbers, QuotientBounds
  <2>4. a + 1 \in 1..HugePart
    <3>1. PICK m \in Nat : m = MemoryPages + Fanout - 1
      BY BootNumbers
    <3>2. PICK z \in Nat : z = HugePart * Fanout
      BY BootNumbers DEF HugePart
    <3>3. /\ HugePart = m \div Fanout /\ m = z + (m % Fanout)
          /\ m % Fanout \in 0..Fanout - 1
      <4>1. HugePart = m \div Fanout
        BY <3>1 DEF HugePart, div_ceil
      <4>2. QED  BY <3>1, <3>2, <4>1, BootNumbers, QuotientBounds
    <3>4. MemoryPages <= z
      BY <3>1, <3>2, <3>3, BootNumbers
    <3>5. y < z
      BY <2>3, <3>4, BootNumbers
    <3>6. ASSUME ~(a < HugePart) PROVE FALSE
      <4>1. HugePart <= a /\ HugePart \in Nat
        BY <3>6, BootParts
      <4>2. z <= y
        BY <2>1, <2>2, <3>2, <4>1, Numbers, Monotone
      <4>3. QED  BY <2>2, <3>2, <3>5, <4>2
    <3>7. QED  BY <3>6, BootParts
  <2>5. (a + 1) - 1 = a
    OBVIOUS
  <2>6. Boot[a + 1] = Request("map_huge", DirectMap + y, y, "w")
    BY <1>1, <2>2, <2>4, <2>5
  <2>7. DirectMap + p \in DirectMap + y..DirectMap + y + Fanout - 1
    BY <2>2, <2>3, BootNumbers
  <2>8. DirectMap + p \in Promise!Covered(Boot[a + 1])
    BY <2>6, <2>7 DEF Promise!Covered, Request
  <2>9. QED  BY <2>4, <2>8
<1>4. QED  BY <1>2, <1>3

LEMMA SinglePartsMap ==
  /\ \A i \in 1..KernelPages :
       /\ Promise!Covered(Boot[HugePart + i]) = {KernelVirt + (i - 1)}
       /\ Maps(Boot[HugePart + i], KernelVirt + (i - 1), KernelPhys + (i - 1), "wx")
  /\ \A i \in 1..FbPages :
       /\ Promise!Covered(Boot[HugePart + KernelPages + i])
            = {DirectMap + FbPhys + (i - 1)}
       /\ Maps(Boot[HugePart + KernelPages + i], DirectMap + FbPhys + (i - 1),
               FbPhys + (i - 1), "wc")
<1>1. ASSUME NEW r, NEW v \in Nat, NEW p \in Nat, NEW flags,
             r = Request("map", v, p, flags)
      PROVE  Promise!Covered(r) = {v} /\ Maps(r, v, p, flags)
  <2>1. Promise!Covered(r) = {v}
    BY <1>1 DEF Promise!Covered, Request
  <2>2. p + (v - v) = p
    OBVIOUS
  <2>3. Promise!Translation(r, v) = [phys |-> p, flags |-> flags]
    BY <1>1, <2>2 DEF Promise!Translation, Request
  <2>4. QED  BY <2>1, <2>3 DEF Maps
<1>2. ASSUME NEW i \in 1..KernelPages
      PROVE  Boot[HugePart + i]
               = Request("map", KernelVirt + (i - 1), KernelPhys + (i - 1), "wx")
             /\ KernelVirt + (i - 1) \in Nat /\ KernelPhys + (i - 1) \in Nat
  <2>1. KernelVirt + i - 1 = KernelVirt + (i - 1)
        /\ KernelPhys + i - 1 = KernelPhys + (i - 1)
        /\ KernelVirt + (i - 1) \in Nat /\ KernelPhys + (i - 1) \in Nat
    BY BootNumbers
  <2>2. KernelRequests[i]
          = Request("map", KernelVirt + i - 1, KernelPhys + i - 1, "wx")
    BY DEF KernelRequests
  <2>3. QED  BY <2>1, <2>2, BootParts
<1>3. ASSUME NEW i \in 1..FbPages
      PROVE  Boot[HugePart + KernelPages + i]
               = Request("map", DirectMap + FbPhys + (i - 1), FbPhys + (i - 1), "wc")
             /\ DirectMap + FbPhys + (i - 1) \in Nat /\ FbPhys + (i - 1) \in Nat
  <2>1. DirectMap + FbPhys + i - 1 = DirectMap + FbPhys + (i - 1)
        /\ FbPhys + i - 1 = FbPhys + (i - 1)
        /\ DirectMap + FbPhys + (i - 1) \in Nat /\ FbPhys + (i - 1) \in Nat
    BY BootNumbers
  <2>2. FramebufferRequests[i]
          = Request("map", DirectMap + FbPhys + i - 1, FbPhys + i - 1, "wc")
    BY DEF FramebufferRequests
  <2>3. QED  BY <2>1, <2>2, BootParts
<1>4. QED  BY <1>1, <1>2, <1>3
(* Every page that a request covers has a last one that does. *)
LEMMA LastOne ==
  ASSUME NEW k \in 0..Len(Boot), NEW i \in 1..k, NEW v,
         v \in Promise!Covered(Boot[i])
  PROVE  \E j \in i..k : LastAt(j, k, v)
<1>1. k \in Nat /\ i \in Nat
  BY BootLength
<1> DEFINE S == {d \in 0..k - 1 : v \in Promise!Covered(Boot[k - d])}
<1>2. k - i \in S
  <2>1. k - i \in 0..k - 1 /\ k - (k - i) = i
    BY <1>1
  <2>2. QED  BY <2>1
<1>3. S \in SUBSET Nat
  BY <1>1
<1>4. PICK d \in S : \A e \in S : d <= e
  BY <1>2, <1>3, Least
<1>5. k - d \in i..k /\ v \in Promise!Covered(Boot[k - d])
  <2>1. d <= k - i /\ d \in Nat
    BY <1>1, <1>2, <1>4
  <2>2. QED  BY <1>1, <1>4, <2>1
<1>6. ASSUME NEW l \in k - d + 1..k, v \in Promise!Covered(Boot[l]) PROVE FALSE
  <2>1. k - l \in 0..k - 1 /\ k - (k - l) = l /\ k - l < d
    BY <1>1, <1>4
  <2>2. k - l \in S
    BY <1>6, <2>1
  <2>3. d <= k - l
    BY <1>4, <2>2
  <2>4. QED  BY <1>1, <1>4, <2>1, <2>3
<1>7. LastAt(k - d, k, v)
  BY <1>5, <1>6 DEF LastAt
<1>8. QED  BY <1>5, <1>7

Reaches(v, p, flags) == Translate(v) = [phys |-> p, flags |-> flags]

LEMMA DoneTranslates ==
  ASSUME NEW v \in VPages, NEW j \in 1..Len(Boot), NEW p, NEW flags,
         Done(Len(Boot)), LastAt(j, Len(Boot), v), Maps(Boot[j], v, p, flags)
  PROVE  Reaches(v, p, flags)
  BY DEF Done, Maps, Reaches

(* A page of memory is reached through the direct map, as the framebuffer  *)
(* says where that lies.                                                   *)
LEMMA MemoryReached ==
  ASSUME Done(Len(Boot)), NEW p \in 0..MemoryPages - 1
  PROVE  Reaches(DirectMap + p, p,
                 IF p \in FbPhys..FbPhys + FbPages - 1 THEN "wc" ELSE "w")
<1>1. PICK v : v = DirectMap + p
  OBVIOUS
<1>2. PICK h \in Nat : h = HugePart
  BY BootParts
<1>3. PICK n \in Nat : n = Len(Boot) /\ n = h + KernelPages + FbPages
  BY <1>2, BootParts, BootLength
<1>4. v \in VPages /\ v \in Nat /\ v - DirectMap = p
  <2>1. p \in 0..div_ceil(MemoryPages, Fanout) * Fanout - 1
    <3>1. PICK m \in Nat : m = MemoryPages + Fanout - 1
      BY BootNumbers
    <3>2. PICK z \in Nat : z = div_ceil(MemoryPages, Fanout) * Fanout
      BY BootNumbers
    <3>3. z = (m \div Fanout) * Fanout
      BY <3>1, <3>2 DEF div_ceil
    <3>4. m = (m \div Fanout) * Fanout + (m % Fanout) /\ m % Fanout \in 0..Fanout - 1
      BY <3>1, BootNumbers, QuotientBounds
    <3>5. m = z + (m % Fanout)
      BY <3>3, <3>4
    <3>6. MemoryPages <= z
      BY <3>1, <3>2, <3>4, <3>5, BootNumbers
    <3>7. p \in 0..z - 1
      BY <3>2, <3>6, BootNumbers
    <3>8. QED  BY <3>2, <3>7
  <2>2. v \in VPages
    BY <1>1, <2>1, LayoutAssumption
  <2>3. QED  BY <1>1, <2>2, BootNumbers
<1>5. PICK i \in 1..h : v \in Promise!Covered(Boot[i])
  BY <1>1, <1>2, HugePartMaps
<1>6. i \in 1..n /\ n \in 0..n
  BY <1>3, BootNumbers
<1>7. PICK j \in i..n : LastAt(j, n, v)
  BY <1>3, <1>5, <1>6, LastOne
<1>8. /\ j \in 1..n /\ v \in Promise!Covered(Boot[j])
      /\ \A l \in j + 1..n : v \notin Promise!Covered(Boot[l])
  BY <1>6, <1>7 DEF LastAt
<1>9. CASE j <= h
  <2>1. j \in 1..h
    BY <1>8, <1>9
  <2>2. Maps(Boot[j], v, p, "w")
    BY <1>2, <1>4, <1>8, <2>1, HugePartMaps
  <2>3. Reaches(v, p, "w")
    BY <1>3, <1>4, <1>7, <1>8, <2>2, DoneTranslates
  <2>4. ASSUME p \in FbPhys..FbPhys + FbPages - 1 PROVE FALSE
    <3>1. PICK l \in 1..FbPages : p = FbPhys + (l - 1)
      <4>1. p - FbPhys + 1 \in 1..FbPages /\ p = FbPhys + ((p - FbPhys + 1) - 1)
        BY <2>4, BootNumbers
      <4>2. QED  BY <4>1
    <3>2. h + KernelPages + l \in j + 1..n
      BY <1>3, <2>1, BootNumbers
    <3>3. DirectMap + FbPhys + (l - 1) = v
      BY <1>1, <3>1, BootNumbers
    <3>4. v \in Promise!Covered(Boot[h + KernelPages + l])
      BY <1>2, <3>3, SinglePartsMap
    <3>5. QED  BY <1>8, <3>2, <3>4
  <2>5. QED  BY <1>1, <2>3, <2>4
<1>10. CASE h < j /\ j <= h + KernelPages
  <2>1. PICK l \in 1..KernelPages : j = h + l
    <3>1. KernelPages \in Nat /\ j \in Nat
      BY <1>3, <1>8, BootNumbers
    <3>2. PICK l \in Int : l = j - h
      BY <3>1
    <3>3. 1 <= l /\ l <= KernelPages /\ j = h + l
      BY <1>10, <3>1, <3>2
    <3>4. QED  BY <3>1, <3>3
  <2>2. v = KernelVirt + (l - 1)
    <3>1. Promise!Covered(Boot[j]) = {KernelVirt + (l - 1)}
      BY <1>2, <2>1, SinglePartsMap
    <3>2. QED  BY <1>8, <3>1
  <2>3. l - 1 \in 0..KernelPages - 1
    BY BootNumbers
  <2>4. QED  BY <1>1, <2>2, <2>3, LayoutAssumption
<1>11. CASE h + KernelPages < j
  <2>1. PICK l \in 1..FbPages : j = h + KernelPages + l
    <3>1. j - (h + KernelPages) \in 1..FbPages /\ j = h + KernelPages + (j - (h + KernelPages))
      BY <1>3, <1>8, <1>11, BootNumbers
    <3>2. QED  BY <3>1
  <2>2. v = DirectMap + FbPhys + (l - 1)
        /\ Maps(Boot[j], DirectMap + FbPhys + (l - 1), FbPhys + (l - 1), "wc")
    <3>1. Promise!Covered(Boot[j]) = {DirectMap + FbPhys + (l - 1)}
          /\ Maps(Boot[j], DirectMap + FbPhys + (l - 1), FbPhys + (l - 1), "wc")
      BY <1>2, <2>1, SinglePartsMap
    <3>2. QED  BY <1>8, <3>1
  <2>3. p = FbPhys + (l - 1) /\ p \in FbPhys..FbPhys + FbPages - 1
    BY <1>1, <2>2, BootNumbers
  <2>4. Maps(Boot[j], v, p, "wc")
    BY <2>2, <2>3
  <2>5. Reaches(v, p, "wc")
    BY <1>3, <1>4, <1>7, <1>8, <2>4, DoneTranslates
  <2>6. QED  BY <1>1, <2>3, <2>5
<1>12. QED  BY <1>8, <1>9, <1>10, <1>11, BootNumbers

LEMMA KernelReached ==
  ASSUME Done(Len(Boot)), NEW i \in 0..KernelPages - 1
  PROVE  Reaches(KernelVirt + i, KernelPhys + i, "wx")
<1>1. PICK v : v = KernelVirt + i
  OBVIOUS
<1>2. PICK h \in Nat : h = HugePart
  BY BootParts
<1>3. PICK n \in Nat : n = Len(Boot) /\ n = h + KernelPages + FbPages
  BY <1>2, BootParts, BootLength
<1>4. v \in VPages
  BY <1>1, LayoutAssumption
<1>5. PICK m \in 1..KernelPages : m = i + 1 /\ m - 1 = i
  <2>1. i + 1 \in 1..KernelPages /\ (i + 1) - 1 = i
    BY BootNumbers
  <2>2. QED  BY <2>1
<1>6. v \in Promise!Covered(Boot[h + m]) /\ Maps(Boot[h + m], v, KernelPhys + i, "wx")
  BY <1>1, <1>2, <1>5, SinglePartsMap
<1>7. h + m \in 1..n /\ n \in 0..n
  BY <1>3, BootNumbers
<1>8. PICK j \in h + m..n : LastAt(j, n, v)
  BY <1>3, <1>6, <1>7, LastOne
<1>9. j \in 1..n /\ v \in Promise!Covered(Boot[j])
  BY <1>7, <1>8 DEF LastAt
<1>10. CASE j <= h + KernelPages
  <2>1. PICK l \in 1..KernelPages : j = h + l
    <3>1. KernelPages \in Nat /\ j \in Nat /\ h + m <= j /\ m \in 1..KernelPages
      BY <1>3, <1>8, <1>9, BootNumbers
    <3>2. PICK l \in Int : l = j - h
      BY <3>1
    <3>3. 1 <= l /\ l <= KernelPages /\ j = h + l
      BY <1>10, <3>1, <3>2
    <3>4. QED  BY <3>1, <3>3
  <2>2. v = KernelVirt + (l - 1)
    <3>1. Promise!Covered(Boot[j]) = {KernelVirt + (l - 1)}
      BY <1>2, <2>1, SinglePartsMap
    <3>2. QED  BY <1>9, <3>1
  <2>3. l = m
    BY <1>1, <1>5, <2>2, BootNumbers
  <2>4. QED  BY <1>1, <1>3, <1>4, <1>6, <1>8, <1>9, <2>1, <2>3, DoneTranslates
<1>11. CASE h + KernelPages < j
  <2>1. PICK l \in 1..FbPages : j = h + KernelPages + l
    <3>1. j - (h + KernelPages) \in 1..FbPages /\ j = h + KernelPages + (j - (h + KernelPages))
      BY <1>3, <1>8, <1>11, BootNumbers
    <3>2. QED  BY <3>1
  <2>2. v = DirectMap + FbPhys + (l - 1)
    BY <1>2, <1>9, <2>1, SinglePartsMap
  <2>3. l - 1 \in 0..FbPages - 1
    BY BootNumbers
  <2>4. QED  BY <1>1, <2>2, <2>3, LayoutAssumption
<1>12. QED  BY <1>9, <1>10, <1>11, BootNumbers

(* When CR3 is loaded all that vmm_init asks for has been done: memory is  *)
(* reached through the direct map, the kernel's image where it runs, and   *)
(* of the memory exactly the framebuffer is not cached.                    *)
THEOREM TablesReadyWhenActive == Spec => ReadyWhenActive
<1> DEFINE Ready ==
      /\ \A p \in 0..MemoryPages - 1 : Reached(DirectMap + p, p)
      /\ \A i \in 0..KernelPages - 1 : Reached(KernelVirt + i, KernelPhys + i)
      /\ \A p \in 0..MemoryPages - 1 :
           Translate(DirectMap + p).flags = "wc" <=> p \in FbPhys..FbPhys + FbPages - 1
<1>1. ASSUME Done(Len(Boot)) PROVE Ready
  <2>1. ASSUME NEW v, NEW p, NEW flags, Reaches(v, p, flags), flags \in {"w", "wx", "wc"}
        PROVE  Reached(v, p) /\ Translate(v).flags = flags
    BY <2>1 DEF Reaches, Reached, Unmapped
  <2>2. ASSUME NEW p \in 0..MemoryPages - 1
        PROVE  /\ Reached(DirectMap + p, p)
               /\ Translate(DirectMap + p).flags = "wc"
                    <=> p \in FbPhys..FbPhys + FbPages - 1
    <3>1. PICK flags : flags = IF p \in FbPhys..FbPhys + FbPages - 1 THEN "wc" ELSE "w"
      OBVIOUS
    <3>2. Reaches(DirectMap + p, p, flags)
      BY <1>1, <3>1, MemoryReached
    <3>3. Reached(DirectMap + p, p) /\ Translate(DirectMap + p).flags = flags
      BY <2>1, <3>1, <3>2
    <3>4. QED  BY <3>1, <3>3
  <2>3. ASSUME NEW i \in 0..KernelPages - 1
        PROVE  Reached(KernelVirt + i, KernelPhys + i)
    BY <1>1, <2>1, KernelReached
  <2>4. QED  BY <2>2, <2>3
<1>2. ASSUME Inv, BootOK, [Next]_vars, ~active, active'
      PROVE  Ready
  <2>1. root # 0 /\ todo = << >>
    <3>1. CASE vmm_switch_pagemap
      BY <3>1 DEF vmm_switch_pagemap
    <3>2. CASE ~vmm_switch_pagemap
      <4>1. active' = active
        BY <1>2, <3>2
           DEF Next, vmm_init, InCall, get_next_level, vmm_map_page, vmm_map_page_2mb,
               vmm_unmap_page, Writes, Calls, vmm_map_range, vmm_unmap_range, Asks,
               Access, vmm_page_fault_handler, halt_catchfire, Rests, vars
      <4>2. QED  BY <1>2, <4>1
    <3>3. QED  BY <3>1, <3>2
  <2>2. PICK k \in 0..Len(Boot) : Remaining(k) /\ Done(k)
    BY <1>2, <2>1 DEF BootOK
  <2>3. k = Len(Boot)
    BY <2>1, <2>2, BootLength DEF Remaining
  <2>4. QED  BY <1>1, <2>2, <2>3
<1>3. Inv /\ BootOK /\ [Next]_vars => [~active /\ active' => Ready]_vars
  BY <1>2
<1>4. QED
  BY <1>3, Invariance, BootInvariance, PTL DEF Spec, ReadyWhenActive
=============================================================================

----------------------------- MODULE PmmProofs -----------------------------
(***************************************************************************)
(* Proofs about the physical memory manager, for every set of frames and   *)
(* every memory map.  Inv is inductive under every order of calls (Spec);  *)
(* KernelInv adds what holds in the kernel's own order (KernelSpec): the   *)
(* tail is the last page, and every free page is reachable from the head.  *)
(***************************************************************************)
EXTENDS Pmm, FiniteSetTheorems, WellFoundedInduction, TLAPS

(* The inductive invariant for every order of calls. *)
Inv ==
  /\ TypeOK
  /\ FreelistSound
  /\ OneOwner
  /\ SizeCountsFree
  /\ PanicIffDoubleFree

(* Until something is freed, the tail is the last page of the list. *)
TailIsLast == ~freed /\ head # 0 => tail \in bitmap /\ word[tail] = 0

(* The inductive invariant for the kernel's order of calls. *)
KernelInv ==
  /\ Inv
  /\ TailIsLast
  /\ NoPageLost
  /\ ZeroMeansOutOfMemory
-----------------------------------------------------------------------------
(* Facts about the memory map. *)

(* The pages of a region type are frames, and position i holds one. *)
LEMMA RegionFacts ==
  ASSUME NEW kind \in Kinds
  PROVE  /\ Region[kind] \in Seq(Frames)
         /\ Len(Region[kind]) \in Nat
         /\ DOMAIN Region[kind] = 1..Len(Region[kind])
         /\ Pages(kind) \subseteq Frames
         /\ \A i \in DOMAIN Region[kind] : Region[kind][i] \in Pages(kind)
         /\ \A f \in Pages(kind) :
               \E i \in DOMAIN Region[kind] : Region[kind][i] = f
         /\ Region[kind] # << >> <=> Len(Region[kind]) # 0
         /\ Region[kind] = << >> <=> Pages(kind) = {}
<1>1. Region[kind] \in Seq(Frames)
  BY RegionAssumption
<1>2. /\ Len(Region[kind]) \in Nat
      /\ DOMAIN Region[kind] = 1..Len(Region[kind])
      /\ Region[kind] # << >> <=> Len(Region[kind]) # 0
  BY <1>1
<1>3. \A i \in DOMAIN Region[kind] : Region[kind][i] \in Frames
  BY <1>1
<1>4. /\ \A i \in DOMAIN Region[kind] : Region[kind][i] \in Pages(kind)
      /\ \A f \in Pages(kind) :
            \E i \in DOMAIN Region[kind] : Region[kind][i] = f
  BY DEF Pages, Range
<1>5. Region[kind] = << >> <=> Pages(kind) = {}
  <2>1. CASE Len(Region[kind]) = 0
    BY <1>2, <1>4, <2>1
  <2>2. CASE Len(Region[kind]) # 0
    BY <1>2, <1>4, <2>2, 1 \in 1..Len(Region[kind])
  <2>3. QED  BY <2>1, <2>2
<1>6. QED  BY <1>1, <1>2, <1>3, <1>4, <1>5

(* The link written into the page at position i is the page at i + 1. *)
LEMMA SuccessorFacts ==
  ASSUME NEW kind \in Kinds, NEW i \in DOMAIN Region[kind]
  PROVE  Successor(kind, Region[kind][i]) =
            IF i = Len(Region[kind]) THEN 0 ELSE Region[kind][i + 1]
<1> DEFINE j == CHOOSE j \in DOMAIN Region[kind] :
                          Region[kind][j] = Region[kind][i]
<1>1. j \in DOMAIN Region[kind] /\ Region[kind][j] = Region[kind][i]
  OBVIOUS
<1>2. j = i
  BY <1>1, RegionAssumption
<1>3. QED  BY <1>2 DEF Successor

(* A region has as many pages as its sequence has positions. *)
LEMMA PagesCount ==
  ASSUME NEW kind \in Kinds
  PROVE  /\ IsFiniteSet(Pages(kind))
         /\ Cardinality(Pages(kind)) = Len(Region[kind])
<1>1. IsFiniteSet(Pages(kind))
  BY RegionFacts, FramesAssumption, FS_Subset
<1>2. Region[kind] \in Bijection(1..Len(Region[kind]), Pages(kind))
  <2>1. Region[kind] \in [1..Len(Region[kind]) -> Pages(kind)]
    BY RegionFacts
  <2>2. \A a, b \in 1..Len(Region[kind]) :
           Region[kind][a] = Region[kind][b] => a = b
    BY RegionFacts, RegionAssumption
  <2>3. \A f \in Pages(kind) :
           \E a \in 1..Len(Region[kind]) : Region[kind][a] = f
    BY RegionFacts
  <2>4. QED  BY <2>1, <2>2, <2>3 DEF Bijection, Injection, Surjection, IsInjective
<1>3. Cardinality(Pages(kind)) = Len(Region[kind])
  BY <1>2, RegionFacts, FS_CountingElements DEF ExistsBijection
<1>4. QED  BY <1>1, <1>3

(* A type that was never claimed has no page that is free or held. *)
LEMMA UnclaimedPages ==
  ASSUME OneOwner, claimed \in SUBSET Kinds, NEW kind \in Kinds \ claimed
  PROVE  Pages(kind) \cap (held \cup bitmap) = {}
<1>1. \A l \in claimed : Pages(l) \cap Pages(kind) = {}
  BY RegionAssumption, RegionFacts
<1>2. QED  BY <1>1 DEF OneOwner, ClaimedPages

(* A set that holds the first page of a region, and with each page of it   *)
(* the successor that the claim wrote, holds the whole region.             *)
LEMMA RegionFollows ==
  ASSUME NEW kind \in Kinds, Region[kind] # << >>, NEW S,
         Region[kind][1] \in S,
         \A f \in Pages(kind) \cap S : Successor(kind, f) \in S \cup {0}
  PROVE  Pages(kind) \subseteq S
<1> DEFINE Missing == {i \in DOMAIN Region[kind] : Region[kind][i] \notin S}
<1>1. SUFFICES Missing = {}
  BY <1>1, RegionFacts
<1>2. SUFFICES ASSUME Missing # {} PROVE FALSE
  OBVIOUS
<1>3. Missing \subseteq Nat
  BY RegionFacts
<1>4. PICK i \in Missing : \A j \in Missing : ~(<<j, i>> \in OpToRel(<, Nat))
  BY <1>2, <1>3, WFMin, NatLessThanWellFounded
<1>5. i \in 2..Len(Region[kind])
  BY RegionFacts
<1>6. i - 1 \in DOMAIN Region[kind] /\ i - 1 \notin Missing
  <2>1. i - 1 \in DOMAIN Region[kind]
    BY <1>5, RegionFacts
  <2>2. <<i - 1, i>> \in OpToRel(<, Nat)
    BY <1>5 DEF OpToRel
  <2>3. QED  BY <2>1, <2>2, <1>4
<1>7. Region[kind][i - 1] \in Pages(kind) \cap S
  BY <1>6, RegionFacts
<1>8. Successor(kind, Region[kind][i - 1]) = Region[kind][i]
  BY <1>5, <1>6, SuccessorFacts
<1>9. Region[kind][i] \in Frames
  BY RegionFacts
<1>10. QED
  BY <1>4, <1>7, <1>8, <1>9, FramesAssumption
-----------------------------------------------------------------------------
(* The invariant for every order of calls. *)

LEMMA InitInv == Init => Inv
<1> SUFFICES ASSUME Init PROVE Inv
  OBVIOUS
<1>1. TypeOK
  BY DEF Init, TypeOK
<1>2. FreelistSound /\ OneOwner /\ PanicIffDoubleFree
  BY DEF Init, FreelistSound, LinksStayFree, LinksDistinct, OneOwner,
         ClaimedPages, PanicIffDoubleFree
<1>3. SizeCountsFree
  BY FS_EmptySet DEF Init, SizeCountsFree
<1>4. QED  BY <1>1, <1>2, <1>3 DEF Inv

(* Claiming the pages of a type that was not claimed before. *)
LEMMA ClaimKeepsInv ==
  ASSUME Inv, ~panicked, NEW kind \in Kinds \ claimed, pmm_claim_pages(kind)
  PROVE  Inv'
<1> USE DEF Inv
<1> DEFINE R == Region[kind]
<1>1. /\ Pages(kind) \cap held = {}
      /\ Pages(kind) \cap bitmap = {}
      /\ Pages(kind) \subseteq Frames
      /\ Pages(kind) \cap {0} = {}
  BY UnclaimedPages, RegionFacts, FramesAssumption DEF TypeOK
<1>2. /\ bitmap' = bitmap \cup Pages(kind)
      /\ word' = WordsAfterClaim(kind)
      /\ head' = IF head = 0 /\ R # << >> THEN R[1] ELSE head
      /\ tail' = TailAfterClaim(kind)
      /\ size' = size + Len(R)
      /\ UNCHANGED <<panicked, held, freed, misfreed>>
      /\ claimed' = claimed \cup {kind}
      /\ oom' = FALSE
  BY <1>1 DEF pmm_claim_pages, AlreadyFree
<1>3. \A f \in Pages(kind) :
         \E i \in DOMAIN R : /\ R[i] = f
                             /\ word'[f] = IF i = Len(R) THEN 0 ELSE R[i + 1]
  BY <1>1, <1>2, RegionFacts, SuccessorFacts DEF WordsAfterClaim
<1>4. \A f \in (Frames \cup {0}) \ Pages(kind) :
         word'[f] = IF AppendsTo(kind, f) THEN R[1] ELSE word[f]
  BY <1>2 DEF WordsAfterClaim
<1>5. R # << >> => R[1] \in Pages(kind)
  BY RegionFacts
<1>6. \A f \in Pages(kind) : word'[f] \in Pages(kind) \cup {0}
  BY <1>3, RegionFacts
<1>7. TypeOK'
  <2>1. tail' \in Frames \cup {0}
    BY <1>1, <1>2, RegionFacts, Len(R) \in DOMAIN R \/ R = << >>
    DEF TypeOK, TailAfterClaim
  <2>2. word' \in [Frames \cup {0} -> Frames \cup {0} \cup Data]
    BY <1>1, <1>2, <1>4, <1>5, <1>6 DEF TypeOK, WordsAfterClaim, AppendsTo
  <2>3. head' \in Frames \cup {0}
    BY <1>1, <1>2, <1>5 DEF TypeOK
  <2>4. size' \in Nat
    BY <1>2, RegionFacts DEF TypeOK
  <2>5. QED  BY <1>1, <1>2, <2>1, <2>2, <2>3, <2>4 DEF TypeOK
<1>8. LinksStayFree'
  BY <1>1, <1>2, <1>4, <1>5, <1>6
  DEF TypeOK, FreelistSound, LinksStayFree, AppendsTo
<1>9. LinksDistinct'
  <2>1. \A f \in Pages(kind) : word'[f] # 0 => word'[f] # R[1]
    BY <1>3, RegionFacts, RegionAssumption
  <2>2. ASSUME NEW f \in Pages(kind), NEW g \in Pages(kind),
               word'[f] = word'[g], word'[f] # 0
        PROVE  f = g
    <3>1. PICK i \in DOMAIN R : R[i] = f /\ word'[f] = IF i = Len(R) THEN 0 ELSE R[i + 1]
      BY <1>3
    <3>2. PICK j \in DOMAIN R : R[j] = g /\ word'[g] = IF j = Len(R) THEN 0 ELSE R[j + 1]
      BY <1>3
    <3>3. i # Len(R) /\ j # Len(R) /\ R[i + 1] = R[j + 1]
      BY <2>2, <3>1, <3>2
    <3>4. i \in Nat /\ j \in Nat /\ i + 1 \in DOMAIN R /\ j + 1 \in DOMAIN R
      <4>1. PICK n \in Nat : n = Len(R)
        BY RegionFacts
      <4>2. DOMAIN R = 1..n
        BY <4>1, RegionFacts
      <4>3. i \in 1..n /\ j \in 1..n /\ i # n /\ j # n
        BY <3>1, <3>2, <3>3, <4>1, <4>2
      <4>4. i + 1 \in 1..n /\ j + 1 \in 1..n /\ i \in Nat /\ j \in Nat
        BY <4>3
      <4>5. QED  BY <4>2, <4>4
    <3>5. i + 1 = j + 1
      BY <3>3, <3>4, RegionAssumption
    <3>6. QED  BY <3>1, <3>2, <3>4, <3>5
  <2>3. \A f \in bitmap :
           \/ AppendsTo(kind, f) /\ word'[f] = R[1] /\ R # << >>
           \/ word'[f] = word[f] /\ word[f] \in bitmap \cup {0}
    BY <1>1, <1>4 DEF TypeOK, FreelistSound, LinksStayFree, AppendsTo
  <2>4. \A f \in bitmap : word'[f] # 0 => word'[f] # head'
    BY <1>1, <1>2, <1>5, <2>3
    DEF FreelistSound, LinksStayFree, LinksDistinct, AppendsTo
  <2>5. \A f \in Pages(kind) : word'[f] # 0 => word'[f] # head'
    BY <1>1, <1>2, <1>6, <2>1 DEF FreelistSound, LinksStayFree
  <2>6. \A f, g \in bitmap : word'[f] = word'[g] /\ word'[f] # 0 => f = g
    BY <1>1, <1>5, <2>3 DEF FreelistSound, LinksDistinct, AppendsTo
  <2>7. \A f \in Pages(kind), g \in bitmap :
           ~(word'[f] = word'[g] /\ word'[f] # 0)
    BY <1>1, <1>6, <2>1, <2>3
  <2>8. QED  BY <1>2, <2>2, <2>4, <2>5, <2>6, <2>7 DEF LinksDistinct
<1>10. OneOwner'
  BY <1>1, <1>2 DEF OneOwner, ClaimedPages
<1>11. SizeCountsFree'
  <2>1. IsFiniteSet(bitmap)
    BY FramesAssumption, FS_Subset DEF TypeOK
  <2>2. IsFiniteSet(Pages(kind)) /\ Cardinality(Pages(kind)) = Len(R)
    BY PagesCount
  <2>3. Cardinality(bitmap \cap Pages(kind)) = 0
    BY <1>1, FS_EmptySet, bitmap \cap Pages(kind) = {}
  <2>4. Cardinality(bitmap \cup Pages(kind)) = Cardinality(bitmap) + Len(R)
    <3>1. /\ Cardinality(bitmap) \in Nat
          /\ Len(R) \in Nat
      BY <2>1, FS_CardinalityType, RegionFacts
    <3>2. Cardinality(bitmap \cup Pages(kind)) =
             Cardinality(bitmap) + Cardinality(Pages(kind))
                - Cardinality(bitmap \cap Pages(kind))
      BY <2>1, <2>2, FS_Union
    <3>3. QED  BY <2>2, <2>3, <3>1, <3>2
  <2>5. QED  BY <1>2, <2>4 DEF SizeCountsFree
<1>12. PanicIffDoubleFree'
  BY <1>2 DEF PanicIffDoubleFree
<1>13. QED
  BY <1>7, <1>8, <1>9, <1>10, <1>11, <1>12 DEF FreelistSound

LEMMA AllocKeepsInv == Inv /\ pmm_alloc => Inv'
<1> SUFFICES ASSUME Inv, pmm_alloc PROVE Inv'
  OBVIOUS
<1> USE DEF Inv
<1>1. CASE Exhausted
  <2>1. TypeOK'
    BY <1>1 DEF pmm_alloc, TypeOK
  <2>2. QED
    BY <1>1, <2>1
    DEF pmm_alloc, FreelistSound, LinksStayFree, LinksDistinct, OneOwner,
        ClaimedPages, SizeCountsFree, PanicIffDoubleFree
<1>2. CASE ~Exhausted
  <2>1. head \in bitmap /\ head # 0 /\ head \in Frames
    BY <1>2, FramesAssumption
    DEF Exhausted, FreelistSound, LinksStayFree, TypeOK
  <2>2. /\ head' = word[head]
        /\ size' = size - 1
        /\ bitmap' = bitmap \ {head}
        /\ held' = held \cup {head}
        /\ UNCHANGED <<tail, word, claimed, freed, misfreed>>
        /\ ~panicked /\ ~panicked' /\ ~oom'
    BY <1>2, <2>1, Zenon DEF pmm_alloc, MarkUsed
  <2>10. panicked' \in BOOLEAN /\ oom' \in BOOLEAN
    BY <1>2, Zenon DEF pmm_alloc, Exhausted
  <2>3. head' \in bitmap' \cup {0}
    BY <2>1, <2>2 DEF FreelistSound, LinksStayFree, LinksDistinct
  <2>4. Cardinality(bitmap') = Cardinality(bitmap) - 1 /\ Cardinality(bitmap') \in Nat
    <3>1. IsFiniteSet(bitmap)
      BY FramesAssumption, FS_Subset DEF TypeOK
    <3>2. IsFiniteSet(bitmap \ {head})
          /\ Cardinality(bitmap \ {head}) = Cardinality(bitmap) - 1
      BY <2>1, <3>1, FS_RemoveElement
    <3>3. QED  BY <2>2, <3>2, FS_CardinalityType
  <2>5. SizeCountsFree' /\ size' \in Nat
    BY <2>2, <2>4 DEF SizeCountsFree
  <2>6. TypeOK'
    BY <2>1, <2>2, <2>3, <2>5, <2>10 DEF TypeOK
  <2>7. FreelistSound'
    BY <2>1, <2>2, <2>3 DEF FreelistSound, LinksStayFree, LinksDistinct
  <2>8. OneOwner' /\ PanicIffDoubleFree'
    BY <2>1, <2>2 DEF OneOwner, ClaimedPages, PanicIffDoubleFree
  <2>9. QED  BY <2>5, <2>6, <2>7, <2>8
<1>3. QED  BY <1>1, <1>2

LEMMA FreeKeepsInv ==
  ASSUME Inv, NEW f \in held \cup bitmap, pmm_free(f)
  PROVE  Inv'
<1> USE DEF Inv
<1>1. CASE f \in bitmap
  <2>1. f \notin held
    BY <1>1 DEF OneOwner
  <2>2. /\ panicked' = TRUE /\ misfreed' = TRUE /\ freed' = TRUE /\ oom' = FALSE
        /\ held' = held
        /\ UNCHANGED <<head, tail, size, word, bitmap, claimed>>
    BY <1>1, <2>1 DEF pmm_free, AlreadyFree
  <2>3. TypeOK'
    <3>1. /\ panicked' \in BOOLEAN /\ misfreed' \in BOOLEAN
          /\ freed' \in BOOLEAN /\ oom' \in BOOLEAN
      BY <2>2, Zenon
    <3>2. /\ head' \in Frames \cup {0} /\ tail' \in Frames \cup {0}
          /\ size' \in Nat
          /\ word' \in [Frames \cup {0} -> Frames \cup {0} \cup Data]
          /\ bitmap' \in SUBSET Frames /\ held' \in SUBSET Frames
          /\ claimed' \in SUBSET Kinds
      BY <2>2, Zenon DEF TypeOK
    <3>3. QED  BY <3>1, <3>2, Zenon DEF TypeOK
  <2>4. QED
    BY <2>2, <2>3
    DEF FreelistSound, LinksStayFree, LinksDistinct, OneOwner, ClaimedPages,
        SizeCountsFree, PanicIffDoubleFree
<1>2. CASE f \notin bitmap
  <2>1. f \in held /\ f \in Frames
    BY <1>2 DEF TypeOK
  <2>2. /\ head' = f
        /\ size' = size + 1
        /\ word' = [word EXCEPT ![f] = head]
        /\ bitmap' = bitmap \cup {f}
        /\ held' = held \ {f}
        /\ misfreed' = misfreed
        /\ freed' = TRUE /\ oom' = FALSE
        /\ UNCHANGED <<tail, claimed, panicked>>
    BY <1>2, Zenon DEF pmm_free, AlreadyFree, WordsAfterFree, SizeAfterFree, TypeOK
  <2>3. TypeOK'
    <3>1. /\ panicked' \in BOOLEAN /\ misfreed' \in BOOLEAN
          /\ freed' \in BOOLEAN /\ oom' \in BOOLEAN
      BY <2>2, Zenon DEF TypeOK
    <3>2. /\ size' \in Nat
          /\ word' \in [Frames \cup {0} -> Frames \cup {0} \cup Data]
      BY <2>1, <2>2 DEF TypeOK
    <3>3. /\ head' \in Frames \cup {0} /\ tail' \in Frames \cup {0}
          /\ bitmap' \in SUBSET Frames /\ held' \in SUBSET Frames
          /\ claimed' \in SUBSET Kinds
      BY <2>1, <2>2 DEF TypeOK
    <3>4. QED  BY <3>1, <3>2, <3>3, Zenon DEF TypeOK
  <2>4. word'[f] = head /\ \A g \in bitmap : word'[g] = word[g]
    BY <1>2, <2>1, <2>2 DEF TypeOK
  <2>5. FreelistSound'
    BY <1>2, <2>1, <2>2, <2>4, FramesAssumption
    DEF TypeOK, FreelistSound, LinksStayFree, LinksDistinct
  <2>6. OneOwner' /\ PanicIffDoubleFree'
    BY <2>1, <2>2 DEF OneOwner, ClaimedPages, PanicIffDoubleFree
  <2>7. SizeCountsFree'
    <3>1. IsFiniteSet(bitmap)
      BY FramesAssumption, FS_Subset DEF TypeOK
    <3>2. Cardinality(bitmap \cup {f}) = Cardinality(bitmap) + 1
      BY <1>2, <3>1, FS_AddElement
    <3>3. QED  BY <2>2, <3>2 DEF SizeCountsFree
  <2>8. QED  BY <2>3, <2>5, <2>6, <2>7
<1>3. QED  BY <1>1, <1>2

LEMMA OwnerKeepsInv ==
  ASSUME Inv, NEW f \in held, NEW d \in Data, OwnerWrites(f, d)
  PROVE  Inv'
<1> USE DEF Inv
<1>1. f \in Frames /\ f \notin bitmap
  BY DEF TypeOK, OneOwner
<1>2. /\ word' = [word EXCEPT ![f] = d]
      /\ UNCHANGED <<head, tail, size, bitmap, panicked,
                     held, claimed, freed, misfreed, oom>>
  BY DEF OwnerWrites, callers
<1>3. \A g \in bitmap : word'[g] = word[g]
  BY <1>1, <1>2 DEF TypeOK
<1>4. TypeOK'
  BY <1>1, <1>2 DEF TypeOK
<1>5. FreelistSound'
  BY <1>2, <1>3 DEF FreelistSound, LinksStayFree, LinksDistinct
<1>6. QED
  BY <1>2, <1>4, <1>5
  DEF OneOwner, ClaimedPages, SizeCountsFree, PanicIffDoubleFree

LEMMA StutterKeepsInv == Inv /\ UNCHANGED vars => Inv'
BY DEF Inv, vars, callers, TypeOK, FreelistSound, LinksStayFree, LinksDistinct,
       OneOwner, ClaimedPages, SizeCountsFree, PanicIffDoubleFree

LEMMA NextKeepsInv == Inv /\ [Next]_vars => Inv'
<1> SUFFICES ASSUME Inv, [Next]_vars PROVE Inv'
  OBVIOUS
<1> USE DEF Kinds
<1>1. CASE pmm_init
  <2>1. "usable" \in Kinds \ claimed /\ pmm_claim_pages("usable") /\ ~panicked
    BY <1>1 DEF pmm_init
  <2>2. QED  BY <2>1, ClaimKeepsInv
<1>2. CASE pmm_reclaim_bootloader_pages
  BY <1>2, ClaimKeepsInv DEF pmm_reclaim_bootloader_pages, pmm_reclaim
<1>3. CASE pmm_reclaim_acpi_pages
  BY <1>3, ClaimKeepsInv DEF pmm_reclaim_acpi_pages, pmm_reclaim
<1>4. CASE pmm_alloc
  BY <1>4, AllocKeepsInv
<1>5. CASE \E f \in held \cup bitmap : pmm_free(f)
  BY <1>5, FreeKeepsInv
<1>6. CASE \E f \in held, d \in Data : OwnerWrites(f, d)
  BY <1>6, OwnerKeepsInv
<1>7. CASE halt_catchfire
  BY <1>7, StutterKeepsInv DEF halt_catchfire
<1>8. CASE UNCHANGED vars
  BY <1>8, StutterKeepsInv
<1>9. QED
  BY <1>1, <1>2, <1>3, <1>4, <1>5, <1>6, <1>7, <1>8 DEF Next

(* Inv holds in every state that calls in any order can reach. *)
THEOREM Invariance == Spec => []Inv
<1>1. Init => Inv
  BY InitInv
<1>2. Inv /\ [Next]_vars => Inv'
  BY NextKeepsInv
<1>3. QED  BY <1>1, <1>2, PTL DEF Spec

(* Types are kept: no size below zero, no link out of the frames. *)
THEOREM TypeCorrect == Spec => []TypeOK
BY Invariance, PTL DEF Inv

(* The free list is sound whatever the callers do. *)
THEOREM FreelistAlwaysSound == Spec => []FreelistSound
BY Invariance, PTL DEF Inv

(* No page is both free and held, and none drops out of the books. *)
THEOREM PagesHaveOneOwner == Spec => []OneOwner
BY Invariance, PTL DEF Inv

(* The counter is the number of free pages. *)
THEOREM SizeIsRight == Spec => []SizeCountsFree
BY Invariance, PTL DEF Inv

(* Every double free is caught and nothing else stops the kernel. *)
THEOREM DoubleFreesAreCaught == Spec => []PanicIffDoubleFree
BY Invariance, PTL DEF Inv
-----------------------------------------------------------------------------
(* The kernel's order of calls: nothing is claimed after the first free.   *)

(* With everything reachable, an empty list means that no page is free. *)
LEMMA EmptyListIsEmpty ==
  ASSUME NoPageLost, head = 0
  PROVE  bitmap = {}
<1>1. {} \in SUBSET bitmap /\ head \in {} \cup {0} /\ Closed({})
  BY DEF Closed
<1>2. QED  BY <1>1 DEF NoPageLost

LEMMA InitKernelInv == Init => KernelInv
<1> SUFFICES ASSUME Init PROVE KernelInv
  OBVIOUS
<1>1. Inv
  BY InitInv
<1>2. QED
  BY <1>1 DEF KernelInv, Init, TailIsLast, NoPageLost, ZeroMeansOutOfMemory

(* A claim appends its region behind the true last page. *)
LEMMA ClaimKeepsKernelInv ==
  ASSUME KernelInv, ~panicked, ~freed, NEW kind \in Kinds \ claimed,
         pmm_claim_pages(kind)
  PROVE  KernelInv'
<1> USE DEF KernelInv
<1> DEFINE R == Region[kind]
<1>1. /\ Pages(kind) \cap bitmap = {}
      /\ Pages(kind) \subseteq Frames
      /\ 0 \notin Frames
  BY UnclaimedPages, RegionFacts, FramesAssumption DEF Inv, TypeOK
<1>2. /\ bitmap' = bitmap \cup Pages(kind)
      /\ word' = WordsAfterClaim(kind)
      /\ head' = IF head = 0 /\ R # << >> THEN R[1] ELSE head
      /\ tail' = TailAfterClaim(kind)
      /\ ~freed' /\ ~oom'
  BY <1>1 DEF pmm_claim_pages, AlreadyFree
<1>3. Inv'
  BY ClaimKeepsInv
<1>4. \A f \in Pages(kind) : word'[f] = Successor(kind, f)
  BY <1>1, <1>2 DEF WordsAfterClaim
<1>5. \A f \in bitmap :
         word'[f] = IF AppendsTo(kind, f) THEN R[1] ELSE word[f]
  BY <1>1, <1>2 DEF WordsAfterClaim, Inv, TypeOK
<1>6. R # << >> => R[1] \in Pages(kind)
  BY RegionFacts
<1>7. ZeroMeansOutOfMemory'
  BY <1>2 DEF ZeroMeansOutOfMemory
<1>8. CASE R = << >>
  <2>1. Pages(kind) = {}
    BY <1>8, RegionFacts
  <2>2. /\ bitmap' = bitmap
        /\ head' = head /\ tail' = tail
        /\ \A f \in bitmap : word'[f] = word[f]
    BY <1>2, <1>5, <1>8, <2>1 DEF AppendsTo, TailAfterClaim
  <2>3. TailIsLast'
    BY <1>2, <2>2 DEF TailIsLast
  <2>4. NoPageLost'
    BY <2>2 DEF NoPageLost, Closed
  <2>5. QED  BY <1>3, <1>7, <2>3, <2>4
<1>9. CASE R # << >>
  <2>1. TailIsLast'
    <3>1. Len(R) \in DOMAIN R /\ tail' = R[Len(R)]
      BY <1>2, <1>9, RegionFacts DEF TailAfterClaim
    <3>2. tail' \in Pages(kind) /\ Successor(kind, tail') = 0
      BY <3>1, RegionFacts, SuccessorFacts
    <3>3. QED  BY <1>2, <1>4, <3>2 DEF TailIsLast
  <2>2. NoPageLost'
    <3> SUFFICES ASSUME NEW S \in SUBSET bitmap',
                        head' \in S \cup {0},
                        Closed(S)'
                 PROVE  S = bitmap'
      BY DEF NoPageLost
    <3>1. \A f \in S : word'[f] \in S \cup {0}
      BY DEF Closed
    <3>2. bitmap \subseteq S /\ R[1] \in S
      <4>1. CASE head = 0
        <5>1. bitmap = {}
          BY <4>1, EmptyListIsEmpty
        <5>2. head' = R[1] /\ R[1] # 0
          BY <1>1, <1>2, <1>6, <1>9, <4>1
        <5>3. QED  BY <5>1, <5>2
      <4>2. CASE head # 0
        <5>1. head \in S \cap bitmap
          BY <1>2, <4>2 DEF Inv, FreelistSound, LinksStayFree
        <5>2. tail \in bitmap /\ word[tail] = 0
          BY <1>2, <4>2 DEF TailIsLast, pmm_claim_pages
        <5>3. Closed(S \cap bitmap)
          <6> SUFFICES ASSUME NEW f \in S \cap bitmap
                       PROVE  word[f] \in (S \cap bitmap) \cup {0}
            BY DEF Closed
          <6>1. word[f] \in bitmap \cup {0}
            BY DEF Inv, FreelistSound, LinksStayFree
          <6>2. f = tail \/ word'[f] = word[f]
            BY <1>5 DEF AppendsTo
          <6>3. QED  BY <3>1, <5>2, <6>1, <6>2
        <5>4. S \cap bitmap = bitmap
          BY <5>1, <5>3 DEF NoPageLost
        <5>5. word'[tail] = R[1]
          BY <1>5, <1>9, <4>2, <5>2 DEF AppendsTo
        <5>6. QED  BY <1>1, <1>6, <1>9, <3>1, <5>2, <5>4, <5>5
      <4>3. QED  BY <4>1, <4>2
    <3>3. \A f \in Pages(kind) \cap S : Successor(kind, f) \in S \cup {0}
      BY <1>4, <3>1
    <3>4. Pages(kind) \subseteq S
      BY <1>9, <3>2, <3>3, RegionFollows
    <3>5. QED  BY <1>2, <3>2, <3>4
  <2>3. QED  BY <1>3, <1>7, <2>1, <2>2
<1>10. QED  BY <1>8, <1>9

LEMMA AllocKeepsKernelInv == KernelInv /\ pmm_alloc => KernelInv'
<1> SUFFICES ASSUME KernelInv, pmm_alloc PROVE KernelInv'
  OBVIOUS
<1> USE DEF KernelInv
<1>1. Inv'
  BY AllocKeepsInv
<1>2. CASE head = 0
  <2>1. UNCHANGED <<head, word, bitmap, freed>>
    BY <1>2 DEF pmm_alloc, Exhausted
  <2>2. bitmap = {}
    BY <1>2, EmptyListIsEmpty
  <2>3. TailIsLast'
    BY <1>2, <2>1 DEF TailIsLast
  <2>4. NoPageLost'
    BY <2>1 DEF NoPageLost, Closed
  <2>5. ZeroMeansOutOfMemory'
    BY <2>1, <2>2 DEF ZeroMeansOutOfMemory
  <2>6. QED  BY <1>1, <2>3, <2>4, <2>5
<1>3. CASE head # 0
  <2>1. head \in bitmap
    BY <1>3 DEF Inv, FreelistSound, LinksStayFree
  <2>2. /\ head' = word[head]
        /\ bitmap' = bitmap \ {head}
        /\ UNCHANGED <<tail, word, freed>>
        /\ ~oom'
    BY <1>3, Zenon DEF pmm_alloc, Exhausted, MarkUsed
  <2>3. TailIsLast'
    BY <1>3, <2>2 DEF TailIsLast
  <2>4. NoPageLost'
    <3> SUFFICES ASSUME NEW S \in SUBSET bitmap',
                        head' \in S \cup {0},
                        Closed(S)'
                 PROVE  S = bitmap'
      BY DEF NoPageLost
    <3>1. Closed(S \cup {head})
      BY <2>2 DEF Closed
    <3>2. S \cup {head} = bitmap
      BY <2>1, <2>2, <3>1 DEF NoPageLost
    <3>3. QED  BY <2>2, <3>2
  <2>5. ZeroMeansOutOfMemory'
    BY <2>2 DEF ZeroMeansOutOfMemory
  <2>6. QED  BY <1>1, <2>3, <2>4, <2>5
<1>4. QED  BY <1>2, <1>3

LEMMA FreeKeepsKernelInv ==
  ASSUME KernelInv, NEW f \in held \cup bitmap, pmm_free(f)
  PROVE  KernelInv'
<1> USE DEF KernelInv
<1>1. Inv'
  BY FreeKeepsInv
<1>2. TailIsLast' /\ ZeroMeansOutOfMemory'
  BY DEF pmm_free, TailIsLast, ZeroMeansOutOfMemory
<1>3. CASE f \in bitmap
  <2>1. UNCHANGED <<head, word, bitmap>>
    BY <1>3 DEF pmm_free, AlreadyFree
  <2>2. QED  BY <1>1, <1>2, <2>1 DEF NoPageLost, Closed
<1>4. CASE f \notin bitmap
  <2>1. /\ head' = f
        /\ word' = [word EXCEPT ![f] = head]
        /\ bitmap' = bitmap \cup {f}
    BY <1>4 DEF pmm_free, AlreadyFree, WordsAfterFree
  <2>2. f \in Frames /\ f # 0
    BY FramesAssumption DEF Inv, TypeOK
  <2>3. word'[f] = head /\ \A g \in bitmap : word'[g] = word[g]
    BY <1>4, <2>1, <2>2 DEF Inv, TypeOK
  <2>4. NoPageLost'
    <3> SUFFICES ASSUME NEW S \in SUBSET bitmap',
                        head' \in S \cup {0},
                        Closed(S)'
                 PROVE  S = bitmap'
      BY DEF NoPageLost
    <3>1. f \in S
      BY <2>1, <2>2
    <3>2. head \in (S \ {f}) \cup {0}
      BY <1>4, <2>3, <3>1 DEF Closed, Inv, FreelistSound, LinksStayFree
    <3>3. Closed(S \ {f})
      BY <1>4, <2>1, <2>2, <2>3 DEF Closed, Inv, FreelistSound, LinksStayFree
    <3>4. S \ {f} = bitmap
      BY <2>1, <3>2, <3>3 DEF NoPageLost
    <3>5. QED  BY <2>1, <3>1, <3>4
  <2>5. QED  BY <1>1, <1>2, <2>4
<1>5. QED  BY <1>3, <1>4

LEMMA OwnerKeepsKernelInv ==
  ASSUME KernelInv, NEW f \in held, NEW d \in Data, OwnerWrites(f, d)
  PROVE  KernelInv'
<1> USE DEF KernelInv
<1>1. Inv'
  BY OwnerKeepsInv
<1>2. UNCHANGED <<head, tail, bitmap, freed, oom>>
  BY DEF OwnerWrites, callers
<1>3. \A g \in bitmap : word'[g] = word[g]
  BY DEF OwnerWrites, Inv, TypeOK, OneOwner
<1>4. TailIsLast'
  BY <1>2, <1>3 DEF TailIsLast
<1>5. NoPageLost'
  BY <1>2, <1>3 DEF NoPageLost, Closed
<1>6. ZeroMeansOutOfMemory'
  BY <1>2 DEF ZeroMeansOutOfMemory
<1>7. QED  BY <1>1, <1>4, <1>5, <1>6

LEMMA StutterKeepsKernelInv == KernelInv /\ UNCHANGED vars => KernelInv'
BY StutterKeepsInv
DEF KernelInv, vars, callers, TailIsLast, NoPageLost, Closed, ZeroMeansOutOfMemory

(* A claim in the kernel's order finds its type unclaimed and nothing freed, *)
(* unless its region type has been claimed already, which no claim does.     *)
LEMMA ClaimInOrder ==
  ASSUME KernelInv, ReclaimBeforeFree,
         pmm_init \/ pmm_reclaim_bootloader_pages \/ pmm_reclaim_acpi_pages
  PROVE  /\ ~panicked /\ ~freed
         /\ \E kind \in Kinds \ claimed : pmm_claim_pages(kind)
<1>1. ~panicked /\ \E kind \in Kinds \ claimed : pmm_claim_pages(kind)
  BY DEF pmm_init, pmm_reclaim_bootloader_pages, pmm_reclaim_acpi_pages,
         pmm_reclaim, Kinds
<1>2. ~freed
  BY <1>1 DEF ReclaimBeforeFree, pmm_claim_pages
<1>3. QED  BY <1>1, <1>2

LEMMA KernelNextKeepsInv == KernelInv /\ [KernelNext]_vars => KernelInv'
<1> SUFFICES ASSUME KernelInv, [KernelNext]_vars PROVE KernelInv'
  OBVIOUS
<1>1. CASE ReclaimBeforeFree /\ (\/ pmm_init
                                 \/ pmm_reclaim_bootloader_pages
                                 \/ pmm_reclaim_acpi_pages)
  BY <1>1, ClaimInOrder, ClaimKeepsKernelInv
<1>2. CASE pmm_alloc
  BY <1>2, AllocKeepsKernelInv
<1>3. CASE \E f \in held \cup bitmap : pmm_free(f)
  BY <1>3, FreeKeepsKernelInv
<1>4. CASE \E f \in held, d \in Data : OwnerWrites(f, d)
  BY <1>4, OwnerKeepsKernelInv
<1>5. CASE halt_catchfire \/ UNCHANGED vars
  BY <1>5, StutterKeepsKernelInv DEF halt_catchfire
<1>6. QED
  BY <1>1, <1>2, <1>3, <1>4, <1>5 DEF KernelNext, Next

LEMMA KernelInvariance == KernelSpec => []KernelInv
<1>1. Init => KernelInv
  BY InitKernelInv
<1>2. KernelInv /\ [KernelNext]_vars => KernelInv'
  BY KernelNextKeepsInv
<1>3. QED  BY <1>1, <1>2, PTL DEF KernelSpec

(* In the kernel's order of calls no free page becomes unreachable. *)
THEOREM NoPageIsLost == KernelSpec => []NoPageLost
BY KernelInvariance, PTL DEF KernelInv

(* In the kernel's order of calls pmm_alloc fails only without free pages. *)
THEOREM AllocFailsOnlyWhenEmpty == KernelSpec => []ZeroMeansOutOfMemory
BY KernelInvariance, PTL DEF KernelInv
-----------------------------------------------------------------------------
(* Steps: whom the PMM writes to, and what its steps mean to its callers. *)

LEMMA StepLeavesOwnedPages ==
  ASSUME KernelInv, [KernelNext]_vars
  PROVE  \/ \E f \in held, d \in Data : OwnerWrites(f, d)
         \/ \A f \in (held \cap held') \cup {0} : word'[f] = word[f]
<1> USE DEF KernelInv
<1>1. CASE ReclaimBeforeFree /\ (\/ pmm_init
                                 \/ pmm_reclaim_bootloader_pages
                                 \/ pmm_reclaim_acpi_pages)
  <2>1. PICK kind \in Kinds \ claimed : pmm_claim_pages(kind)
    BY <1>1, ClaimInOrder
  <2>2. ~freed
    BY <1>1, ClaimInOrder
  <2>3. Pages(kind) \cap (held \cup {0}) = {} /\ Pages(kind) \cap bitmap = {}
    BY UnclaimedPages, RegionFacts, FramesAssumption DEF Inv, TypeOK
  <2>4. word' = WordsAfterClaim(kind)
    BY <2>1, <2>3 DEF pmm_claim_pages, AlreadyFree
  <2>5. \A f \in held \cup {0} : ~AppendsTo(kind, f)
    BY <2>2, FramesAssumption
    DEF AppendsTo, TailIsLast, Inv, OneOwner, TypeOK
  <2>6. QED  BY <2>3, <2>4, <2>5 DEF WordsAfterClaim, Inv, TypeOK
<1>2. CASE pmm_alloc
  BY <1>2 DEF pmm_alloc
<1>3. CASE \E f \in held \cup bitmap : pmm_free(f)
  <2>1. PICK f \in held \cup bitmap : pmm_free(f)
    BY <1>3
  <2>2. f \notin held' /\ f # 0 /\ f \in Frames
    BY <2>1, FramesAssumption DEF pmm_free, Inv, TypeOK
  <2>3. word' = word \/ word' = [word EXCEPT ![f] = head]
    BY <2>1, Zenon DEF pmm_free, WordsAfterFree
  <2>4. QED  BY <2>2, <2>3 DEF Inv, TypeOK
<1>4. CASE \E f \in held, d \in Data : OwnerWrites(f, d)
  BY <1>4
<1>5. CASE halt_catchfire \/ UNCHANGED vars
  BY <1>5 DEF halt_catchfire, vars
<1>6. QED
  BY <1>1, <1>2, <1>3, <1>4, <1>5 DEF KernelNext, Next

(* The PMM never writes into a page that a caller keeps, nor at address 0. *)
THEOREM OwnedPagesAreLeftAlone == KernelSpec => OwnedPagesUntouched
<1>1. KernelInv /\ [KernelNext]_vars
         => [ (\E f \in held, d \in Data : OwnerWrites(f, d))
              \/ \A f \in (held \cap held') \cup {0} : word'[f] = word[f] ]_vars
  BY StepLeavesOwnedPages
<1>2. QED
  BY <1>1, KernelInvariance, PTL DEF KernelSpec, OwnedPagesUntouched

LEMMA StepImplementsPool ==
  ASSUME KernelInv, [KernelNext]_vars
  PROVE  [Pool!Next]_(Pool!poolVars)
<1> USE DEF KernelInv, Pool!Next, Pool!poolVars
<1>1. CASE ReclaimBeforeFree /\ (\/ pmm_init
                                 \/ pmm_reclaim_bootloader_pages
                                 \/ pmm_reclaim_acpi_pages)
  <2>1. PICK kind \in Kinds \ claimed : pmm_claim_pages(kind)
    BY <1>1, ClaimInOrder
  <2>2. Pages(kind) \in SUBSET (Frames \ (bitmap \cup held))
    BY UnclaimedPages, RegionFacts DEF Inv, TypeOK
  <2>3. bitmap' = bitmap \cup Pages(kind) /\ oom' = FALSE /\ held' = held
    BY <2>1, <2>2, Zenon DEF pmm_claim_pages, AlreadyFree
  <2>4. Pool!Donate(Pages(kind))
    BY <2>3, Zenon DEF Pool!Donate
  <2>5. QED  BY <2>2, <2>4
<1>2. CASE pmm_alloc
  <2>1. CASE head = 0
    <3>1. Pool!TakeFails
      BY <1>2, <2>1, EmptyListIsEmpty DEF pmm_alloc, Exhausted, Pool!TakeFails
    <3>2. QED  BY <3>1
  <2>2. CASE head # 0
    <3>1. head \in bitmap
      BY <2>2 DEF Inv, FreelistSound, LinksStayFree
    <3>2. Pool!Take(head)
      BY <1>2, <2>2, <3>1 DEF pmm_alloc, Exhausted, MarkUsed, Pool!Take
    <3>3. QED  BY <3>1, <3>2 DEF Inv, TypeOK
  <2>3. QED  BY <2>1, <2>2
<1>3. CASE \E f \in held \cup bitmap : pmm_free(f)
  <2>1. PICK f \in held \cup bitmap : pmm_free(f)
    BY <1>3
  <2>2. CASE f \in bitmap
    <3>1. bitmap' = bitmap /\ held' = held /\ oom' = FALSE
      BY <2>1, <2>2 DEF pmm_free, AlreadyFree, Inv, OneOwner
    <3>2. Pool!Donate({})
      <4>1. bitmap' = bitmap \cup {}
        BY <3>1
      <4>2. QED  BY <3>1, <4>1, Zenon DEF Pool!Donate
    <3>3. {} \in SUBSET (Frames \ (bitmap \cup held))
      OBVIOUS
    <3>4. QED  BY <3>2, <3>3
  <2>3. CASE f \notin bitmap
    <3>1. Pool!Give(f)
      BY <2>1, <2>3 DEF pmm_free, AlreadyFree, Pool!Give
    <3>2. QED  BY <3>1 DEF Inv, TypeOK
  <2>4. QED  BY <2>2, <2>3
<1>4. CASE \E f \in held, d \in Data : OwnerWrites(f, d)
  BY <1>4 DEF OwnerWrites, callers
<1>5. CASE halt_catchfire \/ UNCHANGED vars
  BY <1>5 DEF halt_catchfire, vars, callers
<1>6. QED
  BY <1>1, <1>2, <1>3, <1>4, <1>5 DEF KernelNext, Next

(* The free list, its bitmap and their repairs implement the pool of       *)
(* frames that pmm.h promises.                                             *)
THEOREM PmmImplementsFramePool == KernelSpec => ImplementsFramePool
<1>1. Init => Pool!Init
  BY DEF Init, Pool!Init
<1>2. KernelInv /\ [KernelNext]_vars => [Pool!Next]_(Pool!poolVars)
  BY StepImplementsPool
<1>3. QED
  BY <1>1, <1>2, KernelInvariance, PTL
  DEF KernelSpec, ImplementsFramePool, Pool!Spec
=============================================================================

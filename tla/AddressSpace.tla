---------------------------- MODULE AddressSpace ----------------------------
(***************************************************************************)
(* What the mapping functions of vmm.h promise: an address space is a      *)
(* function from virtual pages to physical ones, and requests change it    *)
(* one after the other, in the order in which they were made, each at the  *)
(* pages it names and nowhere else.  Nothing is said of page tables, of    *)
(* the size of entries or of the frames that tables take.                  *)
(***************************************************************************)
EXTENDS Integers, Sequences

CONSTANTS
  VPages,      \* virtual pages
  HugePages,   \* pages that one huge mapping covers
  Unmapped     \* what a page that is not mapped translates to

VARIABLES
  space,       \* what each virtual page translates to
  pending      \* requests that are still to be carried out

spaceVars == <<space, pending>>

Init == space = [v \in VPages |-> Unmapped] /\ pending = << >>

Covered(r) == IF r.op = "map_huge" THEN r.virt..r.virt + HugePages - 1 ELSE {r.virt}

Translation(r, v) ==
  IF r.op = "unmap" THEN Unmapped
  ELSE [phys |-> r.phys + (v - r.virt), flags |-> r.flags]

After(r) ==
  [v \in VPages |-> IF v \in Covered(r) THEN Translation(r, v) ELSE space[v]]

Ask ==
  /\ pending = << >>
  /\ UNCHANGED space

Carry ==
  /\ pending # << >>
  /\ space' = After(Head(pending))
  /\ pending' = Tail(pending)

Next == Ask \/ Carry

Spec == Init /\ [][Next]_spaceVars
=============================================================================

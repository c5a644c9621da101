----------------------------- MODULE MCPmmBoot -----------------------------
(***************************************************************************)
(* Instance of PmmBoot with narrow integers: an int of 7 bits stands for   *)
(* the 32 of the machine, a size_t of 9 for 64, pages of 4 bytes for 4096, *)
(* and a byte of the bitmap covers 2 frames, so that bitmaps take one to   *)
(* three pages.  Maps of three regions, with gaps, lengths that are not    *)
(* whole pages, and every order of the types.                              *)
(***************************************************************************)
EXTENDS PmmBoot

CONSTANT Limit   \* the largest address a claimable region may end at

Types == {"usable", "acpi", "bootloader"}

Map(b1, l1, k1, g2, l2, k2, g3, l3, k3) ==
  LET b2 == b1 + l1 + g2
      b3 == b2 + l2 + g3
  IN  << [base |-> b1, length |-> l1, kind |-> k1],
         [base |-> b2, length |-> l2, kind |-> k2],
         [base |-> b3, length |-> l3, kind |-> k3] >>

Ends(m) == m[3].base + m[3].length <= Limit

(* The boot protocol aligns usable and bootloader regions to whole pages;  *)
(* the ACPI ones come as the firmware reports them.                        *)
AlignedEntry(e) ==
  e.kind \in {"usable", "bootloader"} => e.base % 4 = 0 /\ e.length % 4 = 0

MCMemMaps ==
  {m \in {Map(4, l1, k1, g2, l2, k2, g3, l3, k3) :
            l1 \in {4, 6, 8, 16}, k1 \in Types \cup {"reserved"},
            g2 \in {0, 2, 4}, l2 \in {3, 4, 8, 12}, k2 \in Types,
            g3 \in {0, 6, 8}, l3 \in {4, 7, 12, 20}, k3 \in Types} :
     Ends(m) /\ \A i \in 1..3 : AlignedEntry(m[i])}

(* Larger maps: the last region ends around the largest int, and beyond.   *)
MCLargeMaps ==
  {m \in {Map(4, l1, "usable", 0, l2, "acpi", g3, l3, k3) :
            l1 \in {16, 32}, l2 \in {4, 8}, g3 \in {0, 8, 24, 64, 128},
            l3 \in {4, 8, 24, 64}, k3 \in Types} :
     Ends(m) /\ \A i \in 1..3 : AlignedEntry(m[i])}

MCAllMaps == MCMemMaps \cup MCLargeMaps
=============================================================================

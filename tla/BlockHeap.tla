----------------------------- MODULE BlockHeap -----------------------------
(***************************************************************************)
(* What kmalloc, kzalloc, krealloc and kfree promise: blocks of at least   *)
(* the requested size that do not overlap, whose contents change only when *)
(* their owner writes them, and which krealloc may move but never loses:   *)
(* what fitted the old size and fits the new one is still there.  Nothing  *)
(* is said of buckets, headers, free lists or pages.                       *)
(***************************************************************************)
EXTENDS Integers

VARIABLES
  size,      \* size[p] is what the owner of the block at p asked for
  content    \* content[p][i] is what the block holds at offset i

blockVars == <<size, content>>

Live == DOMAIN size

Extent(p) == p..p + size[p] - 1

Apart == \A p, q \in Live : p # q => Extent(p) \cap Extent(q) = {}

Untouched(S) ==
  \A p \in S : size'[p] = size[p] /\ content'[p] = content[p]

Init == Live = {} /\ DOMAIN content = {}

Alloc ==
  \E p \in Live' \ Live :
    /\ Live' = Live \cup {p}
    /\ Untouched(Live)
    /\ Apart'

Free ==
  \E p \in Live :
    /\ Live' = Live \ {p}
    /\ Untouched(Live')

Resize ==
  \E p \in Live, q \in Live' :
    /\ Live' = (Live \ {p}) \cup {q}
    /\ q \notin Live \ {p}
    /\ Untouched(Live \ {p})
    /\ \A i \in 0..size[p] - 1 : i < size'[q] => content'[q][i] = content[p][i]
    /\ Apart'

Write ==
  \E p \in Live :
    /\ UNCHANGED size
    /\ Untouched(Live \ {p})

Next == Alloc \/ Free \/ Resize \/ Write

Spec == Init /\ [][Next]_blockVars
=============================================================================

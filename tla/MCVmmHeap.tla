----------------------------- MODULE MCVmmHeap -----------------------------
(***************************************************************************)
(* Instances of VmmHeap: a heap of five or seven pages, two to a page      *)
(* table, with one table above; five or six frames, so that memory runs    *)
(* out; three or four slots for free ranges, so that they run out too.     *)
(***************************************************************************)
EXTENDS VmmHeap, TLC

CONSTANTS f1, f2, f3, f4, f5, f6

MCFrames == {f1, f2, f3, f4, f5, f6}
MCFiveFrames == {f1, f2, f3, f4, f5}
MCSizes == {1, 2, 3}
MCTables == {"pd", "pt0", "pt1", "pt2", "pt3"}
PTs == <<"pt0", "pt1", "pt2", "pt3">>
MCWalk == [p \in 0..HeapPages - 1 |-> <<"pd", PTs[p \div 2 + 1]>>]
FrameSymmetry == Permutations(MCFrames)
=============================================================================

------------------------------- MODULE MCSlab -------------------------------
(***************************************************************************)
(* Instance of Slab: pages of five cells, of which a header takes one; a   *)
(* bucket of one-cell chunks, two to a page, and one of two-cell chunks,   *)
(* one to a page.  Callers ask for a size that fits each bucket exactly    *)
(* and for one that takes a run of two pages.                              *)
(***************************************************************************)
EXTENDS Slab

MCBucketSizes == <<1, 2>>
MCSizes == {1, 2, 6}
MCValues == {7}
=============================================================================

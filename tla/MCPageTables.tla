---------------------------- MODULE MCPageTables ----------------------------
(***************************************************************************)
(* Instance of PageTables: three levels of tables with two entries each,   *)
(* so eight virtual pages; three pages of memory, so that the direct map   *)
(* is rounded up to four; in the second page the framebuffer, so that the  *)
(* first huge entry is split; a kernel of one page.  Seven tables are the  *)
(* most that can be needed; the PMM has left any number up to that.        *)
(***************************************************************************)
EXTENDS PageTables

MCFrames == 1..7
MCFreeSets == {1..n : n \in 0..7}
MCPhysPages == 0..3
MCDevices == {1}
=============================================================================

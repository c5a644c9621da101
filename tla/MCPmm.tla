------------------------------- MODULE MCPmm -------------------------------
(***************************************************************************)
(* Instance of Pmm for model checking: five frames, two usable, two in     *)
(* ACPI tables and one of the bootloader, so that a region links pages of  *)
(* its own and the list can be emptied, refilled out of order, extended.   *)
(* Owners write one value that is not a frame address and one that is.     *)
(***************************************************************************)
EXTENDS Pmm

MCFrames == 1..5
MCRegion == [usable |-> <<1, 2>>, acpi |-> <<3, 4>>, bootloader |-> <<5>>]
MCData == {2, 9}
=============================================================================

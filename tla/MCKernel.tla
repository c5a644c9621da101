------------------------------ MODULE MCKernel ------------------------------
(***************************************************************************)
(* Instance of Kernel for model checking: two tables, and machines that    *)
(* differ in one respect at a time from one that boots: a request without  *)
(* response, little memory, every shape of root table, every set of driver *)
(* entries.  Four blocks of heap: the array, two clones and a driver's.    *)
(***************************************************************************)
EXTENDS Kernel

MCUsable == {1, 2, 3}
MCAcpiFrame == [t \in Tables |-> IF t = "madt" THEN 4 ELSE 5]

Firmware(revision, checksum, units, behind, empty) ==
  [revision |-> revision, checksum |-> checksum, units |-> units, behind |-> behind,
   empty |-> empty]
Driver(name, init, busy) == [name |-> name, init |-> init, busy |-> busy, exit |-> "null"]
Exit(name, exit) == [name |-> name, exit |-> exit]

Xsdt == <<"madt", "zero", "hpet", "zero">>

Good ==
  [missing |-> {}, usable |-> MCUsable, vmm |-> 1,
   firmware |-> Firmware(2, TRUE, Xsdt, "zero", {}),
   drivers |-> <<Driver("a", "0", FALSE), Driver("b", "null", FALSE), Driver("c", "0", FALSE)>>,
   exits |-> <<Exit("b", "exit_b"), Exit("c", "exit_c"), Exit("c", "exit_c2")>>]

Firmwares ==
  {Firmware(2, FALSE, Xsdt, "zero", {}), Firmware(2, TRUE, Xsdt, "zero", {"hpet"}),
   Firmware(2, TRUE, << >>, "zero", {})}
  \cup {Firmware(0, TRUE, units, behind, {}) :
          units \in {<< >>, <<"hpet">>, <<"madt", "hpet">>}, behind \in {"zero", "junk"}}

MCMachines ==
  {Good}
  \cup {[Good EXCEPT !.missing = {r}] : r \in {"framebuffer", "memmap", "rsdp"}}
  \cup {[Good EXCEPT !.usable = S] : S \in {{}, {1}, {1, 2}}}
  \cup {[Good EXCEPT !.firmware = f] : f \in Firmwares}
  \cup {[Good EXCEPT !.drivers = ds] :
          ds \in {<< >>, <<Driver("a", "fault", FALSE)>>,
                   <<Driver("a", "0", FALSE), Driver("c", "1", FALSE)>>,
                   <<Driver("c", "0", TRUE), Driver("c", "0", FALSE)>>}}
=============================================================================

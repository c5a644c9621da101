---------------------------- MODULE KernelProofs ----------------------------
(***************************************************************************)
(* Proofs about the boot, for every machine, every set of frames, tables   *)
(* and blocks.  How far kmain has come, that is, which routines have       *)
(* returned when one begins, decides that no stop is silent and that the   *)
(* ACPI pages are reclaimed before any page is freed.  On top of it: what  *)
(* becomes of the ACPI tables, what a boot comes to, which handlers of the *)
(* drivers are called, and what the handler of exceptions sees.            *)
(***************************************************************************)
EXTENDS Kernel, SequenceTheorems, FiniteSetTheorems, WellFoundedInduction, TLAPS

(* What the routines that have returned have set up. *)
Progress ==
  /\ stage \in 1..10
  /\ stage >= 3 => g_fb = TRUE
  /\ gates = IF stage >= 4 THEN Vectors ELSE {}
  /\ stage >= 8 => phase \in {"done", "cleaned"}

(* Before idt_init has returned no exception is delivered, and before      *)
(* acpi_init has returned nothing frees a page.                            *)
NotTooEarly ==
  /\ trap # NoTrap => stage >= 4
  /\ freed => stage >= 8

(* The inductive invariant. *)
Inv == Progress /\ NotTooEarly /\ StopsVisibly
-----------------------------------------------------------------------------
(* The routines of kmain and their order. *)
LEMMA StageOf ==
  ASSUME stage \in 1..10
  PROVE  /\ kmain[stage] = "request_asserts" => stage = 1
         /\ kmain[stage] = "fb_init" => stage = 2
         /\ kmain[stage] = "idt_init" => stage = 3
         /\ kmain[stage] = "pmm_init" => stage = 4
         /\ kmain[stage] = "vmm_init" => stage = 5
         /\ kmain[stage] = "allocator_init" => stage = 6
         /\ kmain[stage] = "acpi_init" => stage = 7
         /\ kmain[stage] = "init_drivers" => stage = 8
         /\ kmain[stage] = "cleanup_drivers" => stage = 9
         /\ kmain[stage] = "halt_catchfire" => stage = 10
  BY DEF kmain

(* A panic whose message can be shown keeps the invariant. *)
LEMMA PanicIsShown ==
  ASSUME Inv, g_fb = TRUE, NEW why, kpanic(why), UNCHANGED phase,
         gates' = gates, trap' = trap
  PROVE  Inv'
<1>1. log' = log \cup {<<"panic", why>>}
  BY DEF kpanic, Shown
<1>2. \E line \in log' : line[1] = "panic"
  <2>1. <<"panic", why>> \in log' /\ <<"panic", why>>[1] = "panic"
    BY <1>1
  <2>2. QED
    BY <2>1
<1>3. StopsVisibly'
  BY <1>2 DEF StopsVisibly, kpanic, StopsRunning
<1>4. Progress' /\ NotTooEarly'
  BY DEF Inv, Progress, NotTooEarly, kpanic
<1>5. QED
  BY <1>3, <1>4 DEF Inv

(* A fault with the gates set is delivered, and stops nothing itself. *)
LEMMA FaultIsDelivered ==
  ASSUME Inv, stage >= 4, NEW vector \in Vectors, Fault(vector),
         UNCHANGED <<phase, machine, stage, g_fb, log, nmi, freed>>
  PROVE  Inv'
<1>1. gates = Vectors
  BY DEF Inv, Progress
<1>2. stopped' = stopped /\ gates' = gates
  BY <1>1 DEF Fault, Deliver
<1>3. StopsVisibly'
  BY <1>2 DEF Inv, StopsVisibly
<1>4. Progress' /\ NotTooEarly'
  BY <1>2 DEF Inv, Progress, NotTooEarly
<1>5. QED
  BY <1>3, <1>4 DEF Inv

(* A step that stops nothing and goes on within a routine. *)
LEMMA StaysInRoutine ==
  ASSUME Inv, UNCHANGED <<trapVars, machine, stage, g_fb, stopped, nmi, freed>>,
         log \subseteq log',
         stage >= 8 => phase' \in {"done", "cleaned"}
  PROVE  Inv'
<1>1. Progress' /\ NotTooEarly'
  BY DEF Inv, Progress, NotTooEarly, trapVars
<1>2. StopsVisibly'
  BY DEF Inv, StopsVisibly
<1>3. QED
  BY <1>1, <1>2 DEF Inv

(* A routine other than idt_init returns. *)
LEMMA RoutineReturns ==
  ASSUME Inv, UNCHANGED <<trapVars, machine, stopped, nmi, freed>>,
         Return, stage \in 1..9, stage # 3, log \subseteq log',
         stage >= 2 => g_fb' = TRUE,
         stage >= 7 => phase' \in {"done", "cleaned"}
  PROVE  Inv'
<1>1. stage' = stage + 1
  BY DEF Return
<1>2. Progress'
  BY <1>1 DEF Inv, Progress, trapVars
<1>3. NotTooEarly'
  BY <1>1 DEF Inv, Progress, NotTooEarly, trapVars
<1>4. StopsVisibly'
  BY DEF Inv, StopsVisibly
<1>5. QED
  BY <1>2, <1>3, <1>4 DEF Inv
-----------------------------------------------------------------------------
LEMMA InitInv == Init => Inv
  BY DEF Init, Inv, Progress, NotTooEarly, StopsVisibly, TrapInit

(* The routines up to allocator_init. *)
LEMMA EarlyKeepsInv ==
  ASSUME Inv,
         request_asserts \/ fb_init \/ idt_init \/ pmm_init \/ vmm_init \/ allocator_init
  PROVE  Inv'
<1> USE DEF Shown
<1>1. stage \in 1..10
  BY DEF Inv, Progress
<1>2. CASE request_asserts
  <2>1. stage = 1 /\ UNCHANGED <<trapVars, phase>>
    BY <1>1, <1>2, StageOf DEF request_asserts, At, acpiVars
  <2>2. CASE Return /\ UNCHANGED <<machine, made, g_fb, log, stopped, nmi, freed>>
    BY <2>1, <2>2, RoutineReturns
  <2>3. CASE (\E r \in Requests : ~Holds(r)) /\ kpanic("assertion")
    <3>1. machine.missing # {}
      BY <2>3 DEF Holds
    <3>2. StopsVisibly'
      BY <2>3, <3>1 DEF kpanic, StopsRunning, StopsVisibly
    <3>3. Progress' /\ NotTooEarly'
      BY <2>1, <2>3 DEF kpanic, Inv, Progress, NotTooEarly, trapVars
    <3>4. QED
      BY <3>2, <3>3 DEF Inv
  <2>4. QED
    BY <1>2, <2>2, <2>3 DEF request_asserts
<1>3. CASE fb_init
  <2>1. stage = 2 /\ UNCHANGED <<trapVars, phase>>
    BY <1>1, <1>3, StageOf DEF fb_init, At, acpiVars
  <2>2. QED
    BY <1>3, <2>1, RoutineReturns DEF fb_init
<1>4. CASE idt_init
  <2>1. stage = 3 /\ stage' = 4 /\ UNCHANGED <<phase, trap, g_fb, machine, stopped, nmi, freed>>
    BY <1>1, <1>4, StageOf DEF idt_init, At, Return, acpiVars, idt_set_descriptors
  <2>2. gates' = Vectors
    BY <1>4 DEF idt_init, idt_set_descriptors, Described, Vectors
  <2>3. Progress' /\ NotTooEarly'
    BY <2>1, <2>2 DEF Inv, Progress, NotTooEarly
  <2>4. log \subseteq log'
    BY <1>4 DEF idt_init
  <2>5. StopsVisibly'
    BY <2>1, <2>4 DEF Inv, StopsVisibly
  <2>6. QED
    BY <2>3, <2>5 DEF Inv
<1>5. CASE pmm_init
  <2>1. stage = 4 /\ g_fb = TRUE /\ UNCHANGED <<trapVars, phase>>
    BY <1>1, <1>5, StageOf DEF pmm_init, At, acpiVars, Inv, Progress
  <2>2. CASE Return /\ UNCHANGED <<machine, made, g_fb, log, stopped, nmi, freed>>
    BY <2>1, <2>2, RoutineReturns
  <2>3. CASE kpanic("no_region")
    BY <2>1, <2>3, PanicIsShown DEF trapVars
  <2>4. QED
    BY <1>5, <2>2, <2>3 DEF pmm_init
<1>6. CASE vmm_init
  <2>1. stage = 5 /\ g_fb = TRUE /\ UNCHANGED <<trapVars, phase>>
    BY <1>1, <1>6, StageOf DEF vmm_init, At, acpiVars, Inv, Progress
  <2>2. CASE UNCHANGED <<machine, stage, g_fb, log, stopped, nmi, freed>>
    BY <2>1, <2>2, StaysInRoutine
  <2>3. CASE OutOfFrames
    BY <2>1, <2>3, PanicIsShown DEF OutOfFrames, trapVars
  <2>4. CASE /\ Shown(<<"ok", "vmm">>) /\ Return
             /\ UNCHANGED <<machine, made, g_fb, stopped, nmi, freed>>
    BY <2>1, <2>4, RoutineReturns
  <2>5. QED
    BY <1>6, <2>2, <2>3, <2>4 DEF vmm_init
<1>7. CASE allocator_init
  <2>1. stage = 6 /\ g_fb = TRUE /\ UNCHANGED <<trapVars, phase>>
    BY <1>1, <1>7, StageOf DEF allocator_init, At, acpiVars, Inv, Progress
  <2>2. QED
    BY <1>7, <2>1, RoutineReturns DEF allocator_init
<1>8. QED
  BY <1>2, <1>3, <1>4, <1>5, <1>6, <1>7

(* acpi_init. *)
LEMMA AcpiKeepsInv ==
  ASSUME Inv,
         acpi_init_allocates \/ acpi_init_goes_on \/ acpi_init_faults \/ acpi_init_reclaims
  PROVE  Inv'
<1> USE DEF Shown
<1>1. stage = 7 /\ g_fb = TRUE
  BY StageOf DEF Inv, Progress, acpi_init_allocates, acpi_init_goes_on, acpi_init_faults,
                 acpi_init_reclaims, AcpiRuns, At
<1>2. CASE acpi_init_allocates
  <2>1. CASE Quietly /\ UNCHANGED trapVars
    BY <1>1, <2>1, StaysInRoutine DEF Quietly
  <2>2. CASE OutOfFrames /\ UNCHANGED <<acpiVars, trapVars>>
    BY <1>1, <2>2, PanicIsShown DEF OutOfFrames, acpiVars, trapVars
  <2>3. QED
    BY <1>2, <2>1, <2>2 DEF acpi_init_allocates
<1>3. CASE acpi_init_goes_on
  <2>1. UNCHANGED trapVars
    BY <1>3 DEF acpi_init_goes_on
  <2>2. CASE Quietly
    BY <1>1, <2>1, <2>2, StaysInRoutine DEF Quietly
  <2>3. CASE /\ Shown(<<"error", "clone">>) \/ Shown(<<"ok", "tables">>)
             /\ UNCHANGED <<machine, stage, made, g_fb, stopped, nmi, freed>>
    BY <1>1, <2>1, <2>3, StaysInRoutine
  <2>4. CASE kpanic("assertion") /\ UNCHANGED acpiVars
    BY <1>1, <2>1, <2>4, PanicIsShown DEF acpiVars, trapVars
  <2>5. QED
    BY <1>3, <2>2, <2>3, <2>4 DEF acpi_init_goes_on
<1>4. CASE acpi_init_faults
  <2>1. PICK vector \in {13, 14} : Fault(vector)
    BY <1>4 DEF acpi_init_faults
  <2>2. vector \in Vectors
    BY DEF Vectors
  <2>3. QED
    BY <1>1, <1>4, <2>1, <2>2, FaultIsDelivered DEF acpi_init_faults, acpiVars
<1>5. CASE acpi_init_reclaims
  <2>1. phase' = "done" /\ UNCHANGED trapVars
    BY <1>5 DEF acpi_init_reclaims, PagesReclaimed
  <2>2. QED
    BY <1>1, <1>5, <2>1, RoutineReturns DEF acpi_init_reclaims
<1>6. QED
  BY <1>2, <1>3, <1>4, <1>5

(* The loops over the drivers, and the end of kmain. *)
LEMMA DriversKeepInv ==
  ASSUME Inv,
         \/ init_drivers \/ init_drivers_skips \/ init_drivers_calls \/ init_drivers_faults
         \/ init_drivers_returns \/ cleanup_drivers \/ halt_catchfire
  PROVE  Inv'
<1> USE DEF Shown
<1>1. stage \in 8..10 /\ g_fb = TRUE /\ phase' = phase /\ phase \in {"done", "cleaned"}
  BY StageOf DEF Inv, Progress, init_drivers, init_drivers_skips, init_drivers_calls,
                 init_drivers_faults, init_drivers_returns, cleanup_drivers, halt_catchfire,
                 InitRuns, At, acpiVars
<1>2. CASE init_drivers
  BY <1>1, <1>2, StaysInRoutine DEF init_drivers
<1>3. CASE init_drivers_skips
  BY <1>1, <1>3, StaysInRoutine DEF init_drivers_skips, Quietly
<1>4. CASE init_drivers_calls
  <2>1. UNCHANGED <<machine, stage, g_fb, nmi, freed>>
    BY <1>4 DEF init_drivers_calls
  <2>2. CASE log \subseteq log' /\ UNCHANGED <<stopped, trapVars>>
    BY <1>1, <2>1, <2>2, StaysInRoutine
  <2>3. CASE Fault(14) /\ UNCHANGED log
    BY <1>1, <2>1, <2>3, FaultIsDelivered DEF Vectors
  <2>4. QED
    BY <1>4, <2>2, <2>3 DEF init_drivers_calls
<1>5. CASE init_drivers_faults
  BY <1>1, <1>5, FaultIsDelivered DEF init_drivers_faults
<1>6. CASE init_drivers_returns
  <2>1. stage = 8
    BY <1>1, <1>6, StageOf DEF init_drivers_returns, InitRuns, At
  <2>2. QED
    BY <1>1, <1>6, <2>1, RoutineReturns DEF init_drivers_returns
<1>7. CASE cleanup_drivers
  <2>1. stage = 9
    BY <1>1, <1>7, StageOf DEF cleanup_drivers, At
  <2>2. CASE UNCHANGED stage
    BY <1>1, <1>7, <2>2, StaysInRoutine DEF cleanup_drivers
  <2>3. CASE Return
    BY <1>1, <1>7, <2>1, <2>3, RoutineReturns DEF cleanup_drivers
  <2>4. QED
    BY <1>7, <2>2, <2>3 DEF cleanup_drivers
<1>8. CASE halt_catchfire
  <2>1. stopped' = "halt" /\ UNCHANGED <<trapVars, machine, stage, g_fb, log, nmi, freed>>
    BY <1>8 DEF halt_catchfire
  <2>2. StopsVisibly'
    BY <2>1 DEF StopsVisibly
  <2>3. Progress' /\ NotTooEarly'
    BY <1>1, <2>1 DEF Inv, Progress, NotTooEarly, trapVars
  <2>4. QED
    BY <2>2, <2>3 DEF Inv
<1>9. QED
  BY <1>2, <1>3, <1>4, <1>5, <1>6, <1>7, <1>8

(* What the handlers of drivers do. *)
LEMMA MeanwhileKeepsInv ==
  ASSUME Inv, DriverAllocates \/ DriverFrees \/ DriverUsesHeap \/ DriverCleansAcpi
  PROVE  Inv'
<1>1. InitMeanwhile
  BY DEF DriverAllocates, DriverFrees, DriverUsesHeap, DriverCleansAcpi
<1>2. stage = 8 /\ UNCHANGED trapVars
  BY <1>1, StageOf DEF InitMeanwhile, InitRuns, At, Inv, Progress
<1>3. phase' \in {"done", "cleaned"}
  BY <1>2 DEF Inv, Progress, DriverAllocates, DriverFrees, DriverUsesHeap,
              DriverCleansAcpi, acpi_cleanup, acpiVars
<1>4. UNCHANGED <<machine, stage, g_fb, log, stopped, nmi>>
  BY DEF DriverAllocates, DriverFrees, DriverUsesHeap, DriverCleansAcpi, FrameGiven, Quietly
<1>5. Progress' /\ NotTooEarly'
  BY <1>2, <1>3, <1>4 DEF Inv, Progress, NotTooEarly, trapVars
<1>6. StopsVisibly'
  BY <1>4 DEF Inv, StopsVisibly
<1>7. QED
  BY <1>5, <1>6 DEF Inv

(* The delivery of exceptions. *)
LEMMA TrapsKeepInv ==
  ASSUME Inv, Nmi \/ TrapEntered \/ c_exception_handler
  PROVE  Inv'
<1>1. CASE Nmi
  <2>1. nmi' = TRUE /\ Fault(2) /\ UNCHANGED <<phase, machine, stage, g_fb, log, freed>>
    BY <1>1 DEF Nmi, acpiVars
  <2>2. gates' = gates /\ (trap' # NoTrap => 2 \in gates)
    BY <2>1 DEF Fault, Deliver
  <2>3. StopsVisibly'
    BY <2>1 DEF Inv, StopsVisibly, Fault
  <2>4. gates # {} => stage >= 4
    BY DEF Inv, Progress
  <2>5. QED
    BY <2>1, <2>2, <2>3, <2>4 DEF Inv, Progress, NotTooEarly
<1>2. CASE TrapEntered
  <2>1. trap # NoTrap /\ gates' = gates /\ UNCHANGED <<phase, kernelVars>>
    BY <1>2 DEF TrapEntered, exception_handler, common_exception_wrapper, NoTrap, acpiVars
  <2>2. Progress' /\ NotTooEarly' /\ StopsVisibly'
    BY <2>1 DEF Inv, Progress, NotTooEarly, StopsVisibly, kernelVars
  <2>3. QED
    BY <2>2 DEF Inv
<1>3. CASE c_exception_handler
  <2>1. trap # NoTrap
    BY <1>3 DEF c_exception_handler, NoTrap
  <2>2. g_fb = TRUE
    BY <2>1 DEF Inv, Progress, NotTooEarly
  <2>3. QED
    BY <1>3, <2>2, PanicIsShown DEF c_exception_handler, acpiVars, trapVars
<1>4. QED
  BY <1>1, <1>2, <1>3

LEMMA NextKeepsInv == Inv /\ [Next]_vars => Inv'
<1> SUFFICES ASSUME Inv, [Next]_vars PROVE Inv'
  OBVIOUS
<1>1. CASE BootStep
  BY <1>1, EarlyKeepsInv, AcpiKeepsInv, DriversKeepInv, TrapsKeepInv DEF BootStep
<1>2. CASE DriverAllocates \/ DriverFrees \/ DriverUsesHeap \/ DriverCleansAcpi
  BY <1>2, MeanwhileKeepsInv
<1>3. CASE Nmi
  BY <1>3, TrapsKeepInv
<1>4. CASE UNCHANGED vars
  <2>1. UNCHANGED <<gates, trap, phase, machine, stage, g_fb, log, stopped, nmi, freed>>
    BY <1>4 DEF vars, trapVars, acpiVars, kernelVars
  <2>2. QED
    BY <2>1 DEF Inv, Progress, NotTooEarly, StopsVisibly
<1>5. QED
  BY <1>1, <1>2, <1>3, <1>4 DEF Next, Stopped
-----------------------------------------------------------------------------
(* On every machine: once the requests are answered, whatever panics in    *)
(* whatever routine is on the screen, and only a non-maskable interrupt    *)
(* can come before the gates are set (main.c:36-37).                       *)
THEOREM NoStopIsSilent == Spec => []StopsVisibly
<1>1. Inv => StopsVisibly
  BY DEF Inv
<1>2. QED
  BY InitInv, NextKeepsInv, <1>1, PTL DEF Spec

(* On every machine, and whatever the drivers do: pages are reclaimed      *)
(* before any page is freed, the order of calls that Pmm's KernelSpec      *)
(* takes for granted (main.c:40-46).                                       *)
THEOREM PagesAreReclaimedFirst == Spec => []ReclaimPrecedesFrees
<1>1. Inv => ReclaimPrecedesFrees
  BY DEF Inv, Progress, NotTooEarly, ReclaimPrecedesFrees
<1>2. QED
  BY InitInv, NextKeepsInv, <1>1, PTL DEF Spec
-----------------------------------------------------------------------------
(* The ACPI tables.                                                        *)

AcpiTypeOK ==
  /\ phase \in {"sdp", "clone", "output", "reclaim", "done", "cleaned"}
  /\ page \in [Tables -> {"table", "link", "driver"}]
  /\ heap \in [Blocks -> {"none", "acpi", "driver"}]
  /\ content \in [Blocks -> {<<"none", "old">>, <<"driver", "new">>}
                              \cup (Tables \X {"table", "link", "driver"})]
  /\ tables \in Seq(Blocks \cup {"null"})

(* How far acpi_init has come.  An RSDT is read beyond its first entry only*)
(* if it has no second and zeros lie behind it.                            *)
CountOK ==
  /\ phase = "sdp" => table_count = 0 /\ tables = << >> /\ array = "null"
  /\ phase # "sdp" => table_count = Entries /\ firmware.checksum = TRUE
  /\ Len(tables) <= table_count
  /\ phase \notin {"sdp", "clone"} => Len(tables) = table_count
  /\ ~IsXsdp /\ Len(tables) > 0 => Len(firmware.units) = 1 /\ firmware.behind = "zero"

PagesKept == phase \in {"sdp", "clone", "output", "reclaim"} => \A t \in Tables : page[t] = "table"

(* The blocks of the tables are those that acpi_cleanup would free. *)
HeapOK ==
  /\ \A b \in Blocks : content[b][1] = "driver" => heap[b] = "driver"
  /\ phase # "cleaned" => \A b \in Blocks : heap[b] = "acpi" <=> b \in Freed
  /\ phase = "cleaned" => \A b \in Blocks : heap[b] # "acpi"

ClonesOK ==
  /\ \A k \in 1..Len(tables) : tables[k] = "null" <=> Listed(k) \in firmware.empty
  /\ phase # "cleaned" =>
       /\ \A k \in 1..Len(tables) : tables[k] # "null" => content[tables[k]] = <<Listed(k), "table">>
       /\ \A j, k \in 1..Len(tables) : j # k /\ tables[j] # "null" => tables[j] # tables[k]
  /\ phase \in {"reclaim", "done", "cleaned"} => \A k \in 1..Len(tables) : tables[k] # "null"

AcpiInv ==
  RootTable(firmware) /\ AcpiTypeOK /\ CountOK /\ PagesKept /\ HeapOK /\ ClonesOK

(* A block that kzalloc can return is one. *)
LEMMA FreeBlockIsFree ==
  ASSUME \E b \in Blocks : heap[b] = "none"
  PROVE  FreeBlock \in Blocks /\ heap[FreeBlock] = "none"
  BY DEF FreeBlock

LEMMA UnitsAreUnits ==
  ASSUME RootTable(firmware)
  PROVE  firmware.units \in Seq(Tables \cup {"zero"}) /\ Len(firmware.units) \in Nat
<1>1. firmware.units \in Seq(Tables \cup {"zero"})
  BY DEF RootTable
<1>2. QED
  BY <1>1

LEMMA HalfAsMany ==
  ASSUME NEW n \in Nat
  PROVE  /\ n \div 1 = n /\ n \div 2 \in Nat
         /\ \A k \in Nat \ {0} : k <= n \div 2 =>
              /\ k \in 1..n \div 2 /\ 2 * k - 1 \in 1..n /\ 2 * k \in 1..n
              /\ 2 * k - 1 <= n /\ 2 * k <= n
  OBVIOUS

LEMMA NumberOfEntries ==
  ASSUME RootTable(firmware)
  PROVE  /\ IsXsdp => Entries = Len(firmware.units) \div 2
         /\ ~IsXsdp => Entries = Len(firmware.units)
         /\ Entries \in Nat
<1>1. Len(firmware.units) \in Nat
  BY UnitsAreUnits
<1>2. CASE IsXsdp
  <2>1. Entries = Len(firmware.units) \div 2
    BY <1>2 DEF Entries
  <2>2. QED
    BY <1>1, <1>2, <2>1, HalfAsMany
<1>3. CASE ~IsXsdp
  <2>1. Entries = Len(firmware.units) \div 1
    BY <1>3 DEF Entries
  <2>2. QED
    BY <1>1, <1>3, <2>1, HalfAsMany
<1>4. QED
  BY <1>2, <1>3

(* An entry of an XSDT holds the address of its table. *)
LEMMA XsdtEntry ==
  ASSUME RootTable(firmware), IsXsdp, NEW k \in Nat \ {0}, k <= Entries
  PROVE  EntryAddress(k) = <<Listed(k), "zero">> /\ Listed(k) \in Tables
<1> DEFINE n == Len(firmware.units)
<1>1. n \in Nat /\ k \in 1..n \div 2 /\ 2 * k - 1 <= n /\ 2 * k <= n
  <2>1. n \in Nat /\ k <= n \div 2
    BY UnitsAreUnits, NumberOfEntries
  <2>2. QED
    BY <2>1, HalfAsMany
<1>2. \A j \in 1..n \div 2 : firmware.units[2 * j - 1] \in Tables /\ firmware.units[2 * j] = "zero"
  BY DEF RootTable, IsXsdp
<1>3. firmware.units[2 * k - 1] \in Tables /\ firmware.units[2 * k] = "zero"
  BY <1>1, <1>2
<1>4. QED
  BY <1>1, <1>3 DEF EntryAddress, Unit, Listed

(* In an RSDT only a last entry whose neighbour is not one looks like an   *)
(* address.                                                                *)
LEMMA RsdtEntry ==
  ASSUME RootTable(firmware), ~IsXsdp, NEW k \in Nat \ {0}, k <= Entries,
         Mapped(EntryAddress(k))
  PROVE  Len(firmware.units) = 2 * k - 1 /\ firmware.behind = "zero"
<1> DEFINE n == Len(firmware.units)
<1>1. n \in Nat /\ k <= n
  BY UnitsAreUnits, NumberOfEntries
<1>9. \A j \in 1..n : firmware.units[j] \in Tables
  <2>1. firmware.revision < 2
    BY DEF RootTable, IsXsdp
  <2>2. QED
    BY <2>1 DEF RootTable
<1>2. EntryAddress(k)[1] = Unit(2 * k - 1) /\ EntryAddress(k)[2] = Unit(2 * k)
  BY DEF EntryAddress
<1>3. Unit(2 * k - 1) \in Tables /\ Unit(2 * k) = "zero" /\ "zero" \notin Tables
  BY <1>2, NamesAssumption DEF Mapped
<1>4. ~(2 * k <= n) /\ firmware.behind = "zero"
  BY <1>1, <1>9, <1>3 DEF Unit
<1>5. 2 * k - 1 <= n
  BY <1>1, <1>9, <1>3, <1>4 DEF Unit
<1>6. QED
  BY <1>1, <1>4, <1>5

(* The entry of the next round, if it can be read, is the next table.      *)
LEMMA RoundIsListed ==
  ASSUME RootTable(firmware), AcpiTypeOK, CountOK, Cloning, Mapped(EntryAddress(Round))
  PROVE  /\ Table = Listed(Round) /\ Table \in Tables
         /\ ~IsXsdp => Len(firmware.units) = 1 /\ firmware.behind = "zero" /\ Round = 1
<1>1. Len(tables) \in Nat /\ Round \in Nat \ {0} /\ Round = Len(tables) + 1
  BY DEF AcpiTypeOK, Round
<1>2. Round <= Entries
  BY DEF Cloning, CountOK
<1>3. CASE IsXsdp
  <2>1. EntryAddress(Round) = <<Listed(Round), "zero">> /\ Listed(Round) \in Tables
    BY <1>1, <1>2, <1>3, XsdtEntry
  <2>2. QED
    BY <2>1, <1>3 DEF Table
<1>4. CASE ~IsXsdp
  <2>1. Len(firmware.units) = 2 * Round - 1 /\ firmware.behind = "zero"
    BY <1>1, <1>2, <1>4, RsdtEntry
  <2>2. Len(firmware.units) = Entries /\ Len(firmware.units) \in Nat
    BY <1>4, UnitsAreUnits, NumberOfEntries
  <2>3. Round = 1
    BY <2>1, <1>4, <1>1, <2>2, <1>2 DEF CountOK
  <2>4. Listed(1) = firmware.units[1] /\ EntryAddress(1)[1] = Unit(1) /\ Unit(1) = firmware.units[1]
    BY <1>4, <2>1, <2>3 DEF Listed, EntryAddress, Unit
  <2>5. QED
    BY <2>1, <2>3, <2>4, <1>4 DEF Table, Mapped
<1>5. QED
  BY <1>3, <1>4
(* What happens to the tables in a step of the system: a step of acpi_init,*)
(* acpi_cleanup, or a driver that writes a page or a block of its own.     *)
DriverWritesPage ==
  /\ phase \in {"done", "cleaned"}
  /\ page' \in [Tables -> {"table", "link", "driver"}]
  /\ UNCHANGED <<firmware, table_count, tables, array, heap, content, phase>>

DriverWritesBlock ==
  /\ phase \in {"done", "cleaned"}
  /\ kzalloc("driver")
  /\ content' = [content EXCEPT ![FreeBlock] = <<"driver", "new">>]
  /\ UNCHANGED <<firmware, page, table_count, tables, array, phase>>

PhaseGoesOn ==
  /\ NoEntries \/ CloningEnds \/ output_tables
  /\ UNCHANGED <<firmware, page, table_count, tables, array, heap, content>>

LEMMA StepsOnTables ==
  ASSUME Inv, AcpiTypeOK, [Next]_vars
  PROVE  \/ handle_sdp \/ acpi_clone_table \/ CloneEmpty \/ PhaseGoesOn
         \/ PagesReclaimed \/ acpi_cleanup \/ DriverWritesPage \/ DriverWritesBlock
         \/ UNCHANGED acpiVars
<1>1. CASE acpi_init_allocates \/ acpi_init_goes_on
  BY <1>1 DEF acpi_init_allocates, acpi_init_goes_on, PhaseGoesOn, NoEntries, CloningEnds,
              output_tables
<1>2. CASE acpi_init_faults \/ acpi_init_reclaims
  BY <1>2 DEF acpi_init_faults, acpi_init_reclaims
<1>3. CASE DriverAllocates \/ DriverUsesHeap
  <2>1. stage = 8 /\ phase \in {"done", "cleaned"}
    BY <1>3, StageOf DEF DriverAllocates, DriverUsesHeap, InitMeanwhile, InitRuns, At, Inv,
                         Progress
  <2>2. CASE DriverAllocates
    <3>1. PICK f \in free : page' = [t \in Tables |-> IF AcpiFrame[t] = f THEN "driver" ELSE page[t]]
      BY <2>2 DEF DriverAllocates
    <3>2. page' \in [Tables -> {"table", "link", "driver"}]
      BY <3>1 DEF AcpiTypeOK
    <3>3. QED
      BY <2>1, <2>2, <3>2 DEF DriverWritesPage, DriverAllocates
  <2>3. CASE DriverUsesHeap
    BY <2>1, <2>3 DEF DriverUsesHeap, DriverWritesBlock
  <2>4. QED
    BY <1>3, <2>2, <2>3
<1>4. CASE DriverFrees \/ DriverCleansAcpi
  BY <1>4 DEF DriverFrees, DriverCleansAcpi
<1>5. CASE request_asserts \/ fb_init \/ idt_init \/ pmm_init \/ vmm_init \/ allocator_init
  BY <1>5 DEF request_asserts, fb_init, idt_init, pmm_init, vmm_init, allocator_init
<1>6. CASE \/ init_drivers \/ init_drivers_skips \/ init_drivers_calls \/ init_drivers_faults
           \/ init_drivers_returns \/ cleanup_drivers \/ halt_catchfire
  BY <1>6 DEF init_drivers, init_drivers_skips, init_drivers_calls, init_drivers_faults,
              init_drivers_returns, cleanup_drivers, halt_catchfire
<1>7. CASE Nmi \/ TrapEntered \/ c_exception_handler
  BY <1>7 DEF Nmi, TrapEntered, c_exception_handler
<1>8. CASE UNCHANGED vars
  BY <1>8 DEF vars
<1>9. QED
  BY <1>1, <1>2, <1>3, <1>4, <1>5, <1>6, <1>7, <1>8 DEF Next, BootStep, Stopped

(* With the firmware and the tables listed, the parts that speak of them   *)
(* stand or fall with what they are stated about.                          *)
LEMMA ListedStays ==
  ASSUME UNCHANGED firmware
  PROVE  /\ RootTable(firmware) => RootTable(firmware)'
         /\ Entries' = Entries /\ IsXsdp' = IsXsdp
         /\ \A k : Listed(k)' = Listed(k)
  BY DEF RootTable, Entries, IsXsdp, Listed

LEMMA PhaseKeepsTables ==
  ASSUME AcpiInv, PhaseGoesOn PROVE AcpiInv'
<1>1. /\ phase \in {"sdp", "clone", "output"} /\ phase' \in {"output", "reclaim"}
      /\ phase = "sdp" => Entries = 0 /\ firmware.checksum
      /\ phase = "clone" => Round > table_count /\ phase' = "output"
      /\ phase' = "reclaim" => \A k \in DOMAIN tables : tables[k] # "null"
  BY DEF PhaseGoesOn, NoEntries, CloningEnds, output_tables, OutputFaults
<1>2. UNCHANGED <<firmware, page, table_count, tables, array, heap, content>>
  BY DEF PhaseGoesOn
<1>3. Len(tables) \in Nat /\ DOMAIN tables = 1..Len(tables)
  BY DEF AcpiInv, AcpiTypeOK
<1>4. RootTable(firmware)' /\ Entries' = Entries /\ IsXsdp' = IsXsdp /\ \A k : Listed(k)' = Listed(k)
  BY <1>2, ListedStays DEF AcpiInv
<1>5. AcpiTypeOK'
  BY <1>1, <1>2 DEF AcpiInv, AcpiTypeOK
<1>6. CountOK'
  <2>1. phase' # "sdp" => table_count' = Entries' /\ firmware'.checksum = TRUE
    BY <1>1, <1>2, <1>4 DEF AcpiInv, CountOK, RootTable
  <2>2. Len(tables') = table_count'
    BY <1>1, <1>2, <1>3, <1>4, NumberOfEntries DEF AcpiInv, CountOK, Round
  <2>3. QED
    BY <1>1, <1>2, <1>3, <1>4, <2>1, <2>2 DEF AcpiInv, CountOK
<1>7. PagesKept' /\ HeapOK'
  BY <1>1, <1>2 DEF AcpiInv, PagesKept, HeapOK, Freed
<1>8. ClonesOK'
  BY <1>1, <1>2, <1>3, <1>4 DEF AcpiInv, ClonesOK
<1>9. QED
  BY <1>4, <1>5, <1>6, <1>7, <1>8 DEF AcpiInv

LEMMA HandleSdpKeepsTables ==
  ASSUME AcpiInv, handle_sdp PROVE AcpiInv'
<1>1. /\ phase = "sdp" /\ phase' = "clone" /\ firmware.checksum
      /\ tables' = << >> /\ table_count' = Entries /\ array' = FreeBlock
      /\ heap' = [heap EXCEPT ![FreeBlock] = "acpi"]
      /\ UNCHANGED <<firmware, page, content>>
  BY DEF handle_sdp, kzalloc
<1>2. FreeBlock \in Blocks /\ heap[FreeBlock] = "none"
  BY FreeBlockIsFree DEF handle_sdp, kzalloc
<1>3. Len(tables') = 0 /\ Entries \in Nat
  BY <1>1, NumberOfEntries DEF AcpiInv
<1>4. RootTable(firmware)' /\ Entries' = Entries
  BY <1>1, ListedStays DEF AcpiInv
<1>5. AcpiTypeOK'
  BY <1>1, <1>2 DEF AcpiInv, AcpiTypeOK
<1>6. CountOK'
  BY <1>1, <1>3, <1>4 DEF AcpiInv, CountOK, RootTable
<1>7. PagesKept'
  BY <1>1 DEF AcpiInv, PagesKept
<1>8. HeapOK'
  <2>1. \A b \in Blocks : heap[b] # "acpi"
    BY <1>1, NamesAssumption DEF AcpiInv, HeapOK, CountOK, Freed
  <2>2. Freed' = {FreeBlock}
    BY <1>1, <1>2, <1>3 DEF Freed
  <2>3. QED
    BY <1>1, <1>2, <2>1, <2>2 DEF AcpiInv, AcpiTypeOK, HeapOK
<1>9. ClonesOK'
  BY <1>1, <1>3 DEF ClonesOK
<1>10. QED
  BY <1>4, <1>5, <1>6, <1>7, <1>8, <1>9 DEF AcpiInv
(* A further entry of tables.                                              *)
LEMMA EntryIsAdded ==
  ASSUME AcpiInv, Cloning, Mapped(EntryAddress(Round)), NEW p \in Blocks \cup {"null"},
         tables' = Append(tables, p), UNCHANGED <<firmware, page, table_count, array, phase>>
  PROVE  /\ Len(tables) \in Nat /\ Round = Len(tables) + 1 /\ Len(tables') = Round
         /\ tables' \in Seq(Blocks \cup {"null"})
         /\ tables'[Round] = p /\ \A k \in 1..Len(tables) : tables'[k] = tables[k]
         /\ phase = "clone" /\ CountOK' /\ PagesKept' /\ RootTable(firmware)'
         /\ \A k : Listed(k)' = Listed(k)
<1>1. /\ tables \in Seq(Blocks \cup {"null"}) /\ Len(tables) \in Nat /\ Round = Len(tables) + 1
      /\ phase = "clone" /\ Round <= table_count
  BY DEF AcpiInv, AcpiTypeOK, Round, Cloning
<1>2. /\ Len(tables') = Round /\ tables' \in Seq(Blocks \cup {"null"})
      /\ tables'[Round] = p /\ \A k \in 1..Len(tables) : tables'[k] = tables[k]
  BY <1>1
<1>3. RootTable(firmware)' /\ Entries' = Entries /\ IsXsdp' = IsXsdp /\ \A k : Listed(k)' = Listed(k)
  BY ListedStays DEF AcpiInv
<1>4. ~IsXsdp => Len(firmware.units) = 1 /\ firmware.behind = "zero"
  BY RoundIsListed DEF AcpiInv
<1>5. CountOK'
  BY <1>1, <1>2, <1>3, <1>4 DEF AcpiInv, CountOK
<1>6. PagesKept'
  BY DEF AcpiInv, PagesKept
<1>7. QED
  BY <1>1, <1>2, <1>3, <1>5, <1>6

LEMMA CloneKeepsTables ==
  ASSUME AcpiInv, acpi_clone_table PROVE AcpiInv'
<1> DEFINE b == FreeBlock
<1>1. /\ Cloning /\ Mapped(EntryAddress(Round)) /\ Table \notin firmware.empty
      /\ heap' = [heap EXCEPT ![b] = "acpi"]
      /\ content' = [content EXCEPT ![b] = <<Table, page[Table]>>]
      /\ tables' = Append(tables, b)
      /\ UNCHANGED <<firmware, page, table_count, array, phase>>
  BY DEF acpi_clone_table, kzalloc, ClonedTo
<1>2. b \in Blocks /\ heap[b] = "none"
  BY FreeBlockIsFree DEF acpi_clone_table, kzalloc
<1>3. /\ Len(tables) \in Nat /\ Round = Len(tables) + 1 /\ Len(tables') = Round
      /\ tables' \in Seq(Blocks \cup {"null"})
      /\ tables'[Round] = b /\ \A k \in 1..Len(tables) : tables'[k] = tables[k]
      /\ phase = "clone" /\ CountOK' /\ PagesKept' /\ RootTable(firmware)'
      /\ \A k : Listed(k)' = Listed(k)
  BY <1>1, <1>2, EntryIsAdded
<1>4. Table = Listed(Round) /\ Table \in Tables
  BY <1>1, RoundIsListed DEF AcpiInv
<1>5. page[Table] = "table"
  BY <1>3, <1>4 DEF AcpiInv, PagesKept
<1> HIDE DEF b
<1>6. content'[b] = <<Listed(Round), "table">> /\ \A x \in Blocks : x # b => content'[x] = content[x]
  BY <1>1, <1>2, <1>4, <1>5 DEF AcpiInv, AcpiTypeOK
<1>7. heap'[b] = "acpi" /\ \A x \in Blocks : x # b => heap'[x] = heap[x]
  BY <1>1, <1>2 DEF AcpiInv, AcpiTypeOK
<1>8. AcpiTypeOK'
  <2>1. heap' \in [Blocks -> {"none", "acpi", "driver"}]
    BY <1>1, <1>2 DEF AcpiInv, AcpiTypeOK
  <2>2. <<Table, page[Table]>> \in Tables \X {"table", "link", "driver"}
    BY <1>4, <1>5
  <2>3. content' \in [Blocks -> {<<"none", "old">>, <<"driver", "new">>}
                                  \cup (Tables \X {"table", "link", "driver"})]
    BY <1>1, <1>2, <2>2 DEF AcpiInv, AcpiTypeOK
  <2>4. QED
    BY <1>1, <1>3, <2>1, <2>3 DEF AcpiInv, AcpiTypeOK
<1>9. b \notin Freed
  BY <1>2, <1>3 DEF AcpiInv, HeapOK
<1>10. DOMAIN tables = 1..Len(tables) /\ DOMAIN tables' = 1..Round
  BY <1>3 DEF AcpiInv, AcpiTypeOK
<1>11. HeapOK'
  <2>1. \A x \in Blocks : x \in Freed' <=> x = b \/ x \in Freed
    BY <1>1, <1>2, <1>3, <1>10 DEF Freed
  <2>2. Listed(Round) # "driver"
    BY <1>4, NamesAssumption
  <2>3. \A x \in Blocks : content'[x][1] = "driver" => heap'[x] = "driver"
    BY <1>6, <1>7, <2>2 DEF AcpiInv, HeapOK
  <2>4. \A x \in Blocks : heap'[x] = "acpi" <=> x \in Freed'
    BY <1>3, <1>7, <2>1 DEF AcpiInv, HeapOK
  <2>5. QED
    BY <1>1, <1>3, <2>3, <2>4 DEF HeapOK
<1>12. ClonesOK'
  <2>1. \A k \in 1..Len(tables) : tables[k] # b
    BY <1>2, <1>9, <1>10 DEF Freed
  <2>2. \A k \in 1..Round : k \in 1..Len(tables) \/ k = Round
    BY <1>3
  <2>3. \A k \in 1..Round : tables'[k] = "null" <=> Listed(k)' \in firmware'.empty
    BY <1>1, <1>2, <1>3, <1>4, <2>2, NamesAssumption DEF AcpiInv, ClonesOK
  <2>4. \A k \in 1..Len(tables) : tables[k] # "null" => tables[k] \in Blocks
    BY <1>3, <1>10 DEF AcpiInv, AcpiTypeOK
  <2>5. ASSUME NEW k \in 1..Round, tables'[k] # "null"
        PROVE  content'[tables'[k]] = <<Listed(k)', "table">>
    <3>1. Listed(k)' = Listed(k)
      BY <1>3
    <3>2. CASE k = Round
      BY <1>3, <1>6, <3>1, <3>2
    <3>3. CASE k \in 1..Len(tables)
      <4>1. tables'[k] = tables[k] /\ tables[k] \in Blocks /\ tables[k] # b
        BY <1>3, <2>1, <2>4, <2>5, <3>3
      <4>2. content[tables[k]] = <<Listed(k), "table">>
        BY <1>3, <2>5, <3>3, <4>1 DEF AcpiInv, ClonesOK
      <4>3. QED  BY <1>6, <3>1, <4>1, <4>2
    <3>4. QED  BY <2>2, <3>2, <3>3
  <2>6. \A j, k \in 1..Round : j # k /\ tables'[j] # "null" => tables'[j] # tables'[k]
    BY <1>3, <2>1, <2>2 DEF AcpiInv, ClonesOK
  <2>7. QED
    BY <1>1, <1>3, <2>3, <2>5, <2>6 DEF ClonesOK
<1>13. QED
  BY <1>3, <1>8, <1>11, <1>12 DEF AcpiInv

LEMMA CloneEmptyKeepsTables ==
  ASSUME AcpiInv, CloneEmpty PROVE AcpiInv'
<1>1. /\ Cloning /\ Mapped(EntryAddress(Round)) /\ Table \in firmware.empty
      /\ tables' = Append(tables, "null")
      /\ UNCHANGED <<firmware, page, table_count, array, heap, content, phase>>
  BY DEF CloneEmpty
<1>2. /\ Len(tables) \in Nat /\ Round = Len(tables) + 1 /\ Len(tables') = Round
      /\ tables' \in Seq(Blocks \cup {"null"})
      /\ tables'[Round] = "null" /\ \A k \in 1..Len(tables) : tables'[k] = tables[k]
      /\ phase = "clone" /\ CountOK' /\ PagesKept' /\ RootTable(firmware)'
      /\ \A k : Listed(k)' = Listed(k)
  BY <1>1, EntryIsAdded
<1>3. Table = Listed(Round)
  BY <1>1, RoundIsListed DEF AcpiInv
<1>4. AcpiTypeOK'
  BY <1>1, <1>2 DEF AcpiInv, AcpiTypeOK
<1>5. DOMAIN tables = 1..Len(tables) /\ DOMAIN tables' = 1..Round
  BY <1>2 DEF AcpiInv, AcpiTypeOK
<1>6. HeapOK'
  <2>1. \A x \in Blocks : x \in Freed' <=> x \in Freed
    BY <1>1, <1>2, <1>5, NamesAssumption DEF Freed
  <2>2. QED
    BY <1>1, <2>1 DEF AcpiInv, HeapOK
<1>7. ClonesOK'
  <2>1. \A k \in 1..Round : k \in 1..Len(tables) \/ k = Round
    BY <1>2
  <2>2. \A k \in 1..Round : tables'[k] = "null" <=> Listed(k)' \in firmware'.empty
    BY <1>1, <1>2, <1>3, <2>1 DEF AcpiInv, ClonesOK
  <2>3. \A k \in 1..Round : tables'[k] # "null" => content'[tables'[k]] = <<Listed(k)', "table">>
    BY <1>1, <1>2, <2>1 DEF AcpiInv, ClonesOK
  <2>4. \A j, k \in 1..Round : j # k /\ tables'[j] # "null" => tables'[j] # tables'[k]
    BY <1>2, <2>1 DEF AcpiInv, ClonesOK
  <2>5. QED
    BY <1>1, <1>2, <2>2, <2>3, <2>4 DEF ClonesOK
<1>8. QED
  BY <1>2, <1>4, <1>6, <1>7 DEF AcpiInv

LEMMA ReclaimKeepsTables ==
  ASSUME AcpiInv, PagesReclaimed \/ DriverWritesPage PROVE AcpiInv'
<1>1. /\ phase \in {"reclaim", "done", "cleaned"}
      /\ phase' \in {"done", "cleaned"} /\ (phase' = "cleaned" <=> phase = "cleaned")
      /\ UNCHANGED <<firmware, table_count, tables, array, heap, content>>
  BY DEF PagesReclaimed, DriverWritesPage
<1>2. page' \in [Tables -> {"table", "link", "driver"}]
  BY DEF PagesReclaimed, DriverWritesPage
<1>3. RootTable(firmware)' /\ Entries' = Entries /\ IsXsdp' = IsXsdp /\ \A k : Listed(k)' = Listed(k)
  BY <1>1, ListedStays DEF AcpiInv
<1>4. AcpiTypeOK' /\ PagesKept'
  BY <1>1, <1>2 DEF AcpiInv, AcpiTypeOK, PagesKept
<1>5. CountOK'
  BY <1>1, <1>3 DEF AcpiInv, CountOK
<1>6. HeapOK'
  BY <1>1 DEF AcpiInv, HeapOK, Freed
<1>7. ClonesOK'
  BY <1>1, <1>3 DEF AcpiInv, ClonesOK
<1>8. QED
  BY <1>3, <1>4, <1>5, <1>6, <1>7 DEF AcpiInv

LEMMA CleanupKeepsTables ==
  ASSUME AcpiInv, acpi_cleanup PROVE AcpiInv'
<1>1. /\ phase = "done" /\ phase' = "cleaned"
      /\ heap' = [b \in Blocks |-> IF b \in Freed THEN "none" ELSE heap[b]]
      /\ UNCHANGED <<firmware, page, table_count, tables, array, content>>
  BY DEF acpi_cleanup
<1>2. RootTable(firmware)' /\ Entries' = Entries /\ IsXsdp' = IsXsdp /\ \A k : Listed(k)' = Listed(k)
  BY <1>1, ListedStays DEF AcpiInv
<1>3. AcpiTypeOK' /\ PagesKept'
  BY <1>1 DEF AcpiInv, AcpiTypeOK, PagesKept
<1>4. CountOK'
  BY <1>1, <1>2 DEF AcpiInv, CountOK
<1>5. HeapOK'
  BY <1>1 DEF AcpiInv, HeapOK
<1>6. ClonesOK'
  BY <1>1, <1>2 DEF AcpiInv, ClonesOK
<1>7. QED
  BY <1>2, <1>3, <1>4, <1>5, <1>6 DEF AcpiInv

LEMMA DriverBlockKeepsTables ==
  ASSUME AcpiInv, DriverWritesBlock PROVE AcpiInv'
<1> DEFINE b == FreeBlock
<1>1. /\ phase \in {"done", "cleaned"}
      /\ heap' = [heap EXCEPT ![b] = "driver"]
      /\ content' = [content EXCEPT ![b] = <<"driver", "new">>]
      /\ UNCHANGED <<firmware, page, table_count, tables, array, phase>>
  BY DEF DriverWritesBlock, kzalloc
<1>2. b \in Blocks /\ heap[b] = "none"
  BY FreeBlockIsFree DEF DriverWritesBlock, kzalloc
<1> HIDE DEF b
<1>3. /\ heap'[b] = "driver" /\ content'[b] = <<"driver", "new">>
      /\ \A x \in Blocks : x # b => heap'[x] = heap[x] /\ content'[x] = content[x]
  BY <1>1, <1>2 DEF AcpiInv, AcpiTypeOK
<1>4. RootTable(firmware)' /\ Entries' = Entries /\ IsXsdp' = IsXsdp /\ \A k : Listed(k)' = Listed(k)
  BY <1>1, ListedStays DEF AcpiInv
<1>5. AcpiTypeOK' /\ PagesKept'
  <2>1. heap' \in [Blocks -> {"none", "acpi", "driver"}]
    BY <1>1, <1>2 DEF AcpiInv, AcpiTypeOK
  <2>2. content' \in [Blocks -> {<<"none", "old">>, <<"driver", "new">>}
                                  \cup (Tables \X {"table", "link", "driver"})]
    BY <1>1, <1>2 DEF AcpiInv, AcpiTypeOK
  <2>3. QED
    BY <1>1, <2>1, <2>2 DEF AcpiInv, AcpiTypeOK, PagesKept
<1>6. CountOK'
  BY <1>1, <1>4 DEF AcpiInv, CountOK
<1>7. Freed' = Freed
  BY <1>1 DEF Freed
<1>8. HeapOK'
  <2>1. \A x \in Blocks : content'[x][1] = "driver" => heap'[x] = "driver"
    BY <1>3 DEF AcpiInv, HeapOK
  <2>2. phase # "cleaned" => \A x \in Blocks : heap'[x] = "acpi" <=> x \in Freed'
    BY <1>2, <1>3, <1>7 DEF AcpiInv, HeapOK
  <2>3. phase = "cleaned" => \A x \in Blocks : heap'[x] # "acpi"
    BY <1>3 DEF AcpiInv, HeapOK
  <2>4. QED
    BY <1>1, <2>1, <2>2, <2>3 DEF HeapOK
<1>9. ClonesOK'
  <2>1. DOMAIN tables = 1..Len(tables)
        /\ \A k \in 1..Len(tables) : tables[k] # "null" => tables[k] \in Blocks
    BY DEF AcpiInv, AcpiTypeOK
  <2>2. phase # "cleaned" => \A k \in 1..Len(tables) : tables[k] # b
    BY <1>2, <2>1 DEF AcpiInv, HeapOK, Freed
  <2>3. phase # "cleaned" =>
          \A k \in 1..Len(tables) : tables[k] # "null" => content'[tables[k]] = <<Listed(k), "table">>
    BY <1>3, <2>1, <2>2 DEF AcpiInv, ClonesOK
  <2>4. QED
    BY <1>1, <1>4, <2>3 DEF AcpiInv, ClonesOK
<1>10. QED
  BY <1>4, <1>5, <1>6, <1>8, <1>9 DEF AcpiInv
LEMMA InitTables == Init => AcpiInv
<1> SUFFICES ASSUME Init PROVE AcpiInv
  OBVIOUS
<1>1. RootTable(firmware)
  BY MachinesAssumption DEF Init, AcpiInit
<1>2. /\ page = [t \in Tables |-> "table"] /\ table_count = 0 /\ tables = << >>
      /\ array = "null" /\ heap = [b \in Blocks |-> "none"]
      /\ content = [b \in Blocks |-> <<"none", "old">>] /\ phase = "sdp"
  BY DEF Init, AcpiInit
<1>3. AcpiTypeOK /\ CountOK /\ PagesKept /\ ClonesOK
  BY <1>2 DEF AcpiTypeOK, CountOK, PagesKept, ClonesOK
<1>4. HeapOK
  BY <1>2, NamesAssumption DEF HeapOK, Freed
<1>5. QED
  BY <1>1, <1>3, <1>4 DEF AcpiInv

LEMMA NextKeepsTables == Inv /\ AcpiInv /\ [Next]_vars => AcpiInv'
<1> SUFFICES ASSUME Inv, AcpiInv, [Next]_vars PROVE AcpiInv'
  OBVIOUS
<1>1. CASE UNCHANGED acpiVars
  <2>1. UNCHANGED <<firmware, page, table_count, tables, array, heap, content, phase>>
    BY <1>1 DEF acpiVars
  <2>2. RootTable(firmware)' /\ Entries' = Entries /\ IsXsdp' = IsXsdp /\ \A k : Listed(k)' = Listed(k)
    BY <2>1, ListedStays DEF AcpiInv
  <2>3. AcpiTypeOK' /\ CountOK' /\ PagesKept'
    BY <2>1, <2>2 DEF AcpiInv, AcpiTypeOK, CountOK, PagesKept
  <2>4. HeapOK'
    BY <2>1 DEF AcpiInv, HeapOK, Freed
  <2>5. ClonesOK'
    BY <2>1, <2>2 DEF AcpiInv, ClonesOK
  <2>6. QED
    BY <2>2, <2>3, <2>4, <2>5 DEF AcpiInv
<1>2. AcpiTypeOK
  BY DEF AcpiInv
<1>3. QED
  BY <1>1, <1>2, StepsOnTables, PhaseKeepsTables, HandleSdpKeepsTables, CloneKeepsTables,
     CloneEmptyKeepsTables, ReclaimKeepsTables, CleanupKeepsTables, DriverBlockKeepsTables

LEMMA TablesIntact == AcpiInv => ClonesIntact
<1> SUFFICES ASSUME AcpiInv PROVE ClonesIntact
  OBVIOUS
<1>1. DOMAIN tables = 1..Len(tables)
      /\ \A k \in 1..Len(tables) : tables[k] # "null" => tables[k] \in Blocks
  BY DEF AcpiInv, AcpiTypeOK
<1>2. CleanupFreesAll
  BY DEF AcpiInv, HeapOK, CleanupFreesAll
<1>3. ASSUME phase # "cleaned"
      PROVE  /\ \A k \in DOMAIN tables :
                  tables[k] # "null" => Pointee(tables[k]) = <<Listed(k), "table">>
             /\ \A j, k \in DOMAIN tables : j # k /\ tables[j] # "null" => tables[j] # tables[k]
  BY <1>1, <1>3 DEF AcpiInv, ClonesOK, Pointee
<1>4. phase \in {"output", "reclaim", "done"} => Len(tables) = table_count
  BY DEF AcpiInv, CountOK
<1>5. QED
  BY <1>2, <1>3, <1>4 DEF ClonesIntact

(* On every machine: the copies of the ACPI tables are and stay what the   *)
(* firmware's tables were, each in a block of its own, when the pages of   *)
(* the firmware have long been drivers' (table.c:62-99), and acpi_cleanup  *)
(* frees their blocks, all of them and no others (table.c:101-108).        *)
THEOREM ClonesStayIntact == Spec => []ClonesIntact
<1>1. Init => Inv /\ AcpiInv
  BY InitInv, InitTables
<1>2. Inv /\ AcpiInv /\ [Next]_vars => (Inv /\ AcpiInv)'
  BY NextKeepsInv, NextKeepsTables
<1>3. QED
  BY <1>1, <1>2, TablesIntact, PTL DEF Spec
-----------------------------------------------------------------------------
(* What a boot comes to.                                                   *)

MachineOK ==
  /\ machine \in Machines /\ firmware = machine.firmware
  /\ linked = FALSE => drivers = machine.drivers
  /\ DOMAIN drivers = DOMAIN machine.drivers
  /\ \A i \in DOMAIN machine.drivers : drivers[i].init = machine.drivers[i].init

FramesOK ==
  /\ free \subseteq Frames /\ held \subseteq Frames
  /\ user \in [Frames -> {"none", "vmm", "heap", "driver"}]
  /\ \A f \in Frames : user[f] # "none" <=> f \in held

(* The machine can be booted as far as kmain has come. *)
GoodSoFar ==
  /\ stage >= 2 => machine.missing = {}
  /\ stage >= 5 => machine.usable # {}
  /\ stage >= 8 => ~TablesTroubled
  /\ stage = 8 /\ trap = NoTrap =>
       \A i \in DOMAIN machine.drivers : i < d => machine.drivers[i].init \in {"null", "0"}
  /\ stage >= 9 => ~DriversTroubled

CausesKnown ==
  /\ trap # NoTrap => Troubled \/ nmi = TRUE
  /\ stopped = "halt" => ~Troubled
  /\ stopped = "panic" => Troubled \/ oom = TRUE \/ nmi = TRUE

CountsOK ==
  /\ made \in 0..machine.vmm
  /\ d \in Nat \ {0} /\ (stage < 8 => d = 1)
  /\ stopped \in {"no", "halt", "panic", "lost"}
  /\ g_fb \in BOOLEAN /\ nmi \in BOOLEAN /\ freed \in BOOLEAN
  /\ "at" \in DOMAIN trap

OutcomeInv == MachineOK /\ FramesOK /\ GoodSoFar /\ CausesKnown /\ CountsOK

LEMMA EntryOfUnit ==
  ASSUME NEW n \in Nat, n % 2 = 0, NEW k \in 1..n
  PROVE  \E j \in 1..n \div 2 : k = 2 * j - 1 \/ k = 2 * j
<1> DEFINE j == (k + 1) \div 2
<1>1. j \in Int /\ 2 * j <= k + 1 /\ k + 1 <= 2 * j + 1
  OBVIOUS
<1>2. n = 2 * (n \div 2) /\ n \div 2 \in Int
  OBVIOUS
<1> HIDE DEF j
<1>3. j \in 1..n \div 2 /\ (k = 2 * j - 1 \/ k = 2 * j)
  BY <1>1, <1>2
<1>4. QED
  BY <1>3

(* Nothing can be wrong with tables that have been read to their end. *)
LEMMA ReadTablesAreSound ==
  ASSUME AcpiInv, phase \in {"reclaim", "done", "cleaned"}, firmware = machine.firmware
  PROVE  ~TablesTroubled
<1> DEFINE n == Len(firmware.units)
<1>1. /\ n \in Nat /\ firmware.units \in Seq(Tables \cup {"zero"}) /\ DOMAIN firmware.units = 1..n
      /\ firmware.empty \subseteq Tables
  BY UnitsAreUnits DEF AcpiInv, RootTable
<1>2. firmware.checksum = TRUE /\ Len(tables) = Entries
  BY DEF AcpiInv, CountOK
<1>3. \A k \in 1..Entries : Listed(k) \notin firmware.empty
  BY <1>2 DEF AcpiInv, ClonesOK
<1>4. CASE IsXsdp
  <2>1. ~(firmware.revision < 2)
    BY <1>4 DEF AcpiInv, RootTable, IsXsdp
  <2>2. ASSUME NEW k \in 1..n PROVE firmware.units[k] \notin firmware.empty
    <3>1. PICK j \in 1..n \div 2 : k = 2 * j - 1 \/ k = 2 * j
      <4>1. n % 2 = 0
        BY <1>4 DEF AcpiInv, RootTable, IsXsdp
      <4>2. QED
        BY <1>1, <4>1, EntryOfUnit
    <3>2. \A m \in 1..n \div 2 : firmware.units[2 * m] = "zero"
      BY <1>4 DEF AcpiInv, RootTable, IsXsdp
    <3>3. CASE k = 2 * j
      BY <3>2, <3>3, <1>1, NamesAssumption
    <3>4. CASE k = 2 * j - 1
      <4>1. j \in 1..Entries /\ Listed(j) = firmware.units[k]
        BY <1>4, <3>4, NumberOfEntries DEF Listed, AcpiInv
      <4>2. QED
        BY <4>1, <1>3
    <3>5. QED
      BY <3>1, <3>3, <3>4
  <2>3. QED
    BY <1>1, <1>2, <2>1, <2>2 DEF TablesTroubled
<1>5. CASE ~IsXsdp
  <2>1. Entries = n /\ \A k \in 1..n : firmware.units[k] \notin firmware.empty
    BY <1>3, <1>5, NumberOfEntries DEF Listed, AcpiInv
  <2>2. n > 0 => n = 1 /\ firmware.behind = "zero"
    BY <1>2, <1>5, <2>1 DEF AcpiInv, CountOK
  <2>3. QED
    BY <1>1, <1>2, <2>1, <2>2 DEF TablesTroubled
<1>6. QED
  BY <1>4, <1>5

(* What faults in acpi_init is a table that the kernel cannot boot with.   *)
LEMMA UnreadableTables ==
  ASSUME AcpiInv, EntryFaults \/ OutputFaults \/ ChecksumBad, firmware = machine.firmware
  PROVE  TablesTroubled
<1>1. Len(firmware.units) \in Nat /\ DOMAIN firmware.units = 1..Len(firmware.units)
  BY UnitsAreUnits DEF AcpiInv
<1>2. CASE ChecksumBad
  BY <1>2 DEF ChecksumBad, TablesTroubled
<1>3. CASE EntryFaults
  <2>1. Round \in Nat \ {0} /\ Round = Len(tables) + 1 /\ Round <= Entries /\ ~Mapped(EntryAddress(Round))
    BY <1>3 DEF EntryFaults, Cloning, Round, AcpiInv, AcpiTypeOK, CountOK
  <2>2. ~IsXsdp
    BY <2>1, XsdtEntry DEF AcpiInv, Mapped
  <2>3. firmware.revision < 2 /\ Entries = Len(firmware.units)
    <3>1. RootTable(firmware)
      BY DEF AcpiInv
    <3>2. firmware.revision < 2
      BY <2>2, <3>1 DEF RootTable, IsXsdp
    <3>3. QED
      BY <2>2, <3>1, <3>2, NumberOfEntries
  <2>4. CASE Len(firmware.units) > 1
    BY <2>3, <2>4 DEF TablesTroubled
  <2>5. CASE Len(firmware.units) = 1
    <3>1. Round = 1 /\ Unit(1) = firmware.units[1] /\ Unit(2) = firmware.behind
      BY <2>1, <2>3, <2>5 DEF Unit
    <3>2. EntryAddress(Round) = <<firmware.units[1], firmware.behind>>
      BY <3>1 DEF EntryAddress
    <3>3. firmware.units[1] \in Tables
      BY <2>3, <2>5 DEF AcpiInv, RootTable
    <3>4. firmware.behind # "zero"
      BY <2>1, <3>2, <3>3 DEF Mapped
    <3>5. QED
      BY <2>3, <2>5, <3>4 DEF TablesTroubled
  <2>6. 1 <= Len(firmware.units)
    BY <2>1, <2>3
  <2>7. \A n \in Nat : 1 <= n => n = 1 \/ n > 1
    OBVIOUS
  <2>8. QED
    BY <1>1, <2>4, <2>5, <2>6, <2>7
<1>4. CASE OutputFaults
  <2>1. PICK k \in DOMAIN tables : tables[k] = "null"
    BY <1>4 DEF OutputFaults
  <2>2. k \in Nat \ {0} /\ k <= Entries /\ Listed(k) \in firmware.empty
    BY <2>1, <1>4 DEF OutputFaults, AcpiInv, AcpiTypeOK, ClonesOK, CountOK
  <2>3. \E j \in 1..Len(firmware.units) : firmware.units[j] = Listed(k)
    <3>1. CASE IsXsdp
      <4>1. k <= Len(firmware.units) \div 2
        BY <2>2, <3>1, NumberOfEntries DEF AcpiInv
      <4>2. 2 * k - 1 \in 1..Len(firmware.units)
        BY <1>1, <2>2, <4>1, HalfAsMany
      <4>3. QED
        BY <3>1, <4>2 DEF Listed
    <3>2. CASE ~IsXsdp
      BY <2>2, <3>2, NumberOfEntries DEF AcpiInv, Listed
    <3>3. QED
      BY <3>1, <3>2
  <2>4. QED
    BY <1>1, <2>2, <2>3 DEF TablesTroubled
<1>5. QED
  BY <1>2, <1>3, <1>4
LEMMA InitOutcome == Init => OutcomeInv
<1> SUFFICES ASSUME Init PROVE OutcomeInv
  OBVIOUS
<1>1. MachineOK
  BY DEF Init, AcpiInit, DriversInit, MachineOK
<1>2. FramesOK
  BY DEF Init, Pool!Init, FramesOK
<1>3. GoodSoFar /\ CausesKnown
  BY DEF Init, TrapInit, GoodSoFar, CausesKnown
<1>4. CountsOK
  <2>1. machine.vmm \in Nat /\ made = 0
    BY MachinesAssumption DEF Init
  <2>2. d = 1 /\ stopped = "no" /\ g_fb = FALSE /\ nmi = FALSE /\ freed = FALSE
    BY DEF Init, DriversInit
  <2>3. g_fb \in BOOLEAN /\ nmi \in BOOLEAN /\ freed \in BOOLEAN
    BY <2>2
  <2>4. made \in 0..machine.vmm
    BY <2>1
  <2>5. "at" \in DOMAIN trap
    BY DEF Init, TrapInit, NoTrap
  <2>6. QED
    BY <2>2, <2>3, <2>4, <2>5 DEF CountsOK
<1>5. QED
  BY <1>1, <1>2, <1>3, <1>4 DEF OutcomeInv

(* No step changes the machine. *)
LEMMA MachineStays ==
  ASSUME [Next]_vars PROVE machine' = machine
  BY DEF Next, BootStep, Stopped, vars, kernelVars, request_asserts, fb_init, idt_init, pmm_init,
         vmm_init, allocator_init, acpi_init_allocates, acpi_init_goes_on, acpi_init_faults,
         acpi_init_reclaims, init_drivers, init_drivers_skips, init_drivers_calls,
         init_drivers_faults, init_drivers_returns, cleanup_drivers, halt_catchfire,
         TrapEntered, c_exception_handler, kpanic, OutOfFrames, Quietly,
         DriverAllocates, DriverFrees, DriverUsesHeap, DriverCleansAcpi, FrameGiven, Nmi

(* The machine stays, and its drivers keep their init handlers.            *)
LEMMA NextKeepsMachine ==
  ASSUME Inv, AcpiInv, OutcomeInv, [Next]_vars
  PROVE  MachineOK' /\ machine' = machine
<1>1. machine' = machine
  BY MachineStays
<1>2. firmware' = firmware
  <2>1. AcpiTypeOK
    BY DEF AcpiInv
  <2>2. QED
    BY <2>1, StepsOnTables DEF handle_sdp, acpi_clone_table, CloneEmpty, PhaseGoesOn,
       PagesReclaimed, acpi_cleanup, DriverWritesPage, DriverWritesBlock, acpiVars
<1>3. link_driver_callbacks \/ UNCHANGED <<drivers, linked>>
  BY DEF Next, BootStep, Stopped, vars, driverVars, request_asserts, fb_init, idt_init, pmm_init,
         vmm_init, allocator_init, acpi_init_allocates, acpi_init_goes_on, acpi_init_faults,
         acpi_init_reclaims, AcpiRuns, init_drivers, init_drivers_skips, init_drivers_calls,
         init_drivers_faults, init_drivers_returns, cleanup_drivers, halt_catchfire,
         TrapEntered, c_exception_handler, InitMeanwhile,
         DriverAllocates, DriverFrees, DriverUsesHeap, DriverCleansAcpi, Nmi,
         SkipInit, CallInit, LoopEnds, CleanupDriver
<1>4. CASE UNCHANGED <<drivers, linked>>
  BY <1>1, <1>2, <1>4 DEF OutcomeInv, MachineOK
<1>5. CASE link_driver_callbacks
  <2>1. linked' = TRUE /\ drivers = machine.drivers
    BY <1>5 DEF link_driver_callbacks, OutcomeInv, MachineOK
  <2>2. machine.drivers \in Seq(DriverType({"null"}))
    BY MachinesAssumption DEF OutcomeInv, MachineOK
  <2>3. DOMAIN drivers' = DOMAIN drivers
    BY <1>5 DEF link_driver_callbacks
  <2>4. ASSUME NEW i \in DOMAIN drivers PROVE drivers'[i].init = drivers[i].init
    <3>1. drivers[i] \in DriverType({"null"})
      <4>1. \A S : \A s \in Seq(S) : \A k \in DOMAIN s : s[k] \in S
        OBVIOUS
      <4>2. QED
        BY <2>1, <2>2, <2>4, <4>1
    <3>2. \A x : [drivers[i] EXCEPT !.exit = x].init = drivers[i].init
      BY <3>1 DEF DriverType
    <3>3. drivers'[i] = IF Matches(i) = {} THEN drivers[i]
                        ELSE [drivers[i] EXCEPT !.exit = exit_entries[ExitEntry(i)].exit]
      BY <1>5, <2>4 DEF link_driver_callbacks
    <3>4. QED
      BY <3>2, <3>3
  <2>5. QED
    BY <1>1, <1>2, <2>1, <2>3, <2>4 DEF OutcomeInv, MachineOK
<1>6. QED
  BY <1>1, <1>3, <1>4, <1>5

(* Frames come and go, and their users with them.                          *)
LEMMA FrameComes ==
  ASSUME FramesOK, NEW f \in free, NEW who \in {"vmm", "heap", "driver"},
         Pool!Take(f), user' = [user EXCEPT ![f] = who]
  PROVE  FramesOK'
<1>1. f \in Frames
  BY DEF FramesOK
<1>2. user' \in [Frames -> {"none", "vmm", "heap", "driver"}]
  BY <1>1 DEF FramesOK
<1>3. \A g \in Frames : user'[g] # "none" <=> g \in held'
  BY <1>1 DEF FramesOK, Pool!Take
<1>4. QED
  BY <1>1, <1>2, <1>3 DEF FramesOK, Pool!Take

LEMMA FrameGoes ==
  ASSUME FramesOK, NEW who, FrameGiven(who)
  PROVE  FramesOK'
<1>1. PICK f \in held : Pool!Give(f) /\ user' = [user EXCEPT ![f] = "none"]
  BY DEF FrameGiven
<1>2. f \in Frames
  BY DEF FramesOK
<1>3. user' \in [Frames -> {"none", "vmm", "heap", "driver"}]
  BY <1>1, <1>2 DEF FramesOK
<1>4. \A g \in Frames : user'[g] # "none" <=> g \in held'
  BY <1>1, <1>2 DEF FramesOK, Pool!Give
<1>5. QED
  BY <1>1, <1>2, <1>3, <1>4 DEF FramesOK, Pool!Give

LEMMA FramesAreGiven ==
  ASSUME FramesOK, NEW S \in SUBSET Frames, Pool!Donate(S), UNCHANGED user
  PROVE  FramesOK'
  BY DEF FramesOK, Pool!Donate

LEMMA NextKeepsFrames ==
  ASSUME OutcomeInv, [Next]_vars
  PROVE  FramesOK'
<1>1. FramesOK
  BY DEF OutcomeInv
<1>2. CASE UNCHANGED <<free, held, user>>
  BY <1>1, <1>2 DEF FramesOK
<1>3. CASE pmm_init
  <2>1. machine.usable \in SUBSET Frames
    BY MachinesAssumption DEF OutcomeInv, MachineOK, Frames
  <2>2. QED
    BY <1>1, <1>2, <1>3, <2>1, FramesAreGiven DEF pmm_init, pool
<1>4. CASE vmm_init
  BY <1>1, <1>2, <1>4, FrameComes DEF vmm_init, NewFrame, OutOfFrames, Pool!TakeFails, pool
<1>5. CASE acpi_init_allocates
  BY <1>1, <1>2, <1>5, FrameComes DEF acpi_init_allocates, HeapPage, NewFrame, OutOfFrames,
                                      Pool!TakeFails, pool
<1>6. CASE acpi_init_reclaims
  <2>1. {AcpiFrame[t] : t \in Tables} \in SUBSET Frames
    BY DEF Frames
  <2>2. QED
    BY <1>1, <1>6, <2>1, FramesAreGiven DEF acpi_init_reclaims
<1>7. CASE DriverAllocates
  BY <1>1, <1>7, FrameComes DEF DriverAllocates
<1>8. CASE DriverFrees \/ DriverCleansAcpi
  BY <1>1, <1>2, <1>8, FrameGoes DEF DriverFrees, DriverCleansAcpi, pool
<1>9. CASE \/ request_asserts \/ fb_init \/ idt_init \/ allocator_init \/ acpi_init_goes_on
           \/ acpi_init_faults \/ init_drivers \/ init_drivers_skips \/ init_drivers_calls
           \/ init_drivers_faults \/ init_drivers_returns \/ cleanup_drivers \/ halt_catchfire
           \/ TrapEntered \/ c_exception_handler \/ DriverUsesHeap \/ Nmi \/ UNCHANGED vars
  BY <1>2, <1>9 DEF request_asserts, fb_init, idt_init, allocator_init, acpi_init_goes_on,
     acpi_init_faults, init_drivers, init_drivers_skips, init_drivers_calls,
     init_drivers_faults, init_drivers_returns, cleanup_drivers, halt_catchfire,
     TrapEntered, c_exception_handler, DriverUsesHeap, Nmi, vars, pool
<1>10. QED
  BY <1>3, <1>4, <1>5, <1>6, <1>7, <1>8, <1>9 DEF Next, BootStep, Stopped
LEMMA TroubleStays ==
  ASSUME machine' = machine
  PROVE  /\ TablesTroubled' = TablesTroubled /\ DriversTroubled' = DriversTroubled
         /\ Troubled' = Troubled
  BY DEF TablesTroubled, DriversTroubled, Troubled

(* The parts of the outcome that are about how far kmain has come.         *)
OutcomeSoFar == GoodSoFar /\ CausesKnown /\ CountsOK

(* A step that stops nothing and goes on within a routine. *)
LEMMA OutcomeStays ==
  ASSUME OutcomeInv, machine' = machine, UNCHANGED <<stage, trap, stopped, nmi, d>>,
         stopped = "no", made' \in 0..machine.vmm, g_fb' \in BOOLEAN, freed' \in BOOLEAN
  PROVE  OutcomeSoFar'
<1>1. GoodSoFar'
  BY TroubleStays DEF OutcomeInv, GoodSoFar
<1>2. CausesKnown'
  BY TroubleStays DEF OutcomeInv, CausesKnown
<1>3. CountsOK'
  BY DEF OutcomeInv, CountsOK
<1>4. QED
  BY <1>1, <1>2, <1>3 DEF OutcomeSoFar

(* A routine before the drivers' returns, and passes over no trouble. *)
LEMMA OutcomeReturns ==
  ASSUME OutcomeInv, machine' = machine, UNCHANGED <<trap, stopped, nmi, d, made, freed>>,
         stopped = "no", stage \in 1..7, stage' = stage + 1, g_fb' \in BOOLEAN,
         stage = 1 => machine.missing = {},
         stage = 4 => machine.usable # {},
         stage = 7 => ~TablesTroubled
  PROVE  OutcomeSoFar'
<1>1. d = 1
  BY DEF OutcomeInv, CountsOK
<1>2. \A i \in DOMAIN machine.drivers : i \in Nat \ {0}
  <2>1. machine.drivers \in Seq(DriverType({"null"}))
    BY MachinesAssumption DEF OutcomeInv, MachineOK
  <2>2. QED
    BY <2>1
<1>3. GoodSoFar'
  BY <1>1, <1>2, TroubleStays DEF OutcomeInv, GoodSoFar
<1>4. CausesKnown'
  BY TroubleStays DEF OutcomeInv, CausesKnown
<1>5. CountsOK'
  BY <1>1 DEF OutcomeInv, CountsOK
<1>6. QED
  BY <1>3, <1>4, <1>5 DEF OutcomeSoFar

(* A panic that has a cause. *)
LEMMA OutcomePanics ==
  ASSUME OutcomeInv, NEW why, kpanic(why), UNCHANGED <<trap, d>>,
         Troubled \/ oom' = TRUE \/ nmi = TRUE
  PROVE  OutcomeSoFar'
<1>1. stopped' = "panic" /\ UNCHANGED <<machine, stage, made, g_fb, nmi, freed>>
  BY DEF kpanic, StopsRunning
<1>2. GoodSoFar'
  BY <1>1, TroubleStays DEF OutcomeInv, GoodSoFar
<1>3. CausesKnown'
  BY <1>1, TroubleStays DEF OutcomeInv, CausesKnown
<1>4. CountsOK'
  BY <1>1 DEF OutcomeInv, CountsOK
<1>5. QED
  BY <1>2, <1>3, <1>4 DEF OutcomeSoFar

(* An exception that has a cause ends the routine where it is. *)
LEMMA OutcomeFaults ==
  ASSUME Inv, OutcomeInv, stage >= 4, stopped = "no", Troubled,
         NEW vector \in Vectors, Fault(vector),
         UNCHANGED <<machine, stage, made, g_fb, nmi, freed>>,
         d' \in Nat \ {0}, stage < 8 => d' = d
  PROVE  OutcomeSoFar'
<1>1. gates = Vectors
  BY DEF Inv, Progress
<1>2. trap'.at = "stub" /\ stopped' = stopped
  BY <1>1 DEF Fault, Deliver
<1>3. trap' # NoTrap
  BY <1>2 DEF NoTrap
<1>4. GoodSoFar'
  BY <1>3, TroubleStays DEF OutcomeInv, GoodSoFar
<1>5. CausesKnown'
  BY <1>2, TroubleStays DEF OutcomeInv, CausesKnown
<1>6. "at" \in DOMAIN trap'
  BY <1>1 DEF Fault, Deliver
<1>7. CountsOK'
  BY <1>2, <1>6 DEF OutcomeInv, CountsOK
<1>8. QED
  BY <1>4, <1>5, <1>7 DEF OutcomeSoFar

LEMMA EarlyKeepsOutcome ==
  ASSUME Inv, OutcomeInv, machine' = machine,
         request_asserts \/ fb_init \/ idt_init \/ pmm_init \/ vmm_init \/ allocator_init
  PROVE  OutcomeSoFar'
<1>1. stage \in 1..10
  BY DEF Inv, Progress
<1>2. g_fb \in BOOLEAN /\ freed \in BOOLEAN /\ made \in 0..machine.vmm
  BY DEF OutcomeInv, CountsOK
<1>3. CASE request_asserts
  <2>1. stage = 1 /\ stopped = "no" /\ UNCHANGED <<trap, d>>
    BY <1>1, <1>3, StageOf DEF request_asserts, At, trapVars, driverVars
  <2>2. machine.missing \subseteq Requests
    BY MachinesAssumption DEF OutcomeInv, MachineOK
  <2>3. CASE /\ \A r \in Requests : Holds(r)
             /\ Return /\ UNCHANGED <<machine, made, g_fb, log, stopped, nmi, freed>>
    <3>1. machine.missing = {}
      BY <2>2, <2>3 DEF Holds
    <3>2. QED
      BY <1>2, <2>1, <2>3, <3>1, OutcomeReturns DEF Return
  <2>4. CASE (\E r \in Requests : ~Holds(r)) /\ kpanic("assertion")
    <3>1. Troubled
      BY <2>4 DEF Holds, Troubled
    <3>2. QED
      BY <2>1, <2>4, <3>1, OutcomePanics
  <2>5. QED
    BY <1>3, <2>3, <2>4 DEF request_asserts
<1>4. CASE fb_init
  <2>1. stage = 2 /\ stopped = "no" /\ UNCHANGED <<trap, d>>
    BY <1>1, <1>4, StageOf DEF fb_init, At, trapVars, driverVars
  <2>2. g_fb' \in BOOLEAN
    BY <1>4 DEF fb_init
  <2>3. QED
    BY <1>4, <2>1, <2>2, OutcomeReturns DEF Return, fb_init
<1>5. CASE idt_init
  <2>1. stage = 3 /\ stopped = "no" /\ UNCHANGED <<trap, d, g_fb, made, stopped, nmi, freed>>
    BY <1>1, <1>5, StageOf DEF idt_init, At, idt_set_descriptors, driverVars
  <2>2. QED
    BY <1>2, <1>5, <2>1, OutcomeReturns DEF Return, idt_init
<1>6. CASE pmm_init
  <2>1. stage = 4 /\ stopped = "no" /\ UNCHANGED <<trap, d>>
    BY <1>1, <1>6, StageOf DEF pmm_init, At, trapVars, driverVars
  <2>2. CASE /\ machine.usable # {}
             /\ Return /\ UNCHANGED <<machine, made, g_fb, log, stopped, nmi, freed>>
    BY <1>2, <2>1, <2>2, OutcomeReturns DEF Return
  <2>3. CASE machine.usable = {} /\ kpanic("no_region")
    BY <2>1, <2>3, OutcomePanics DEF Troubled
  <2>4. QED
    BY <1>6, <2>2, <2>3 DEF pmm_init
<1>7. CASE vmm_init
  <2>1. stage = 5 /\ stopped = "no" /\ UNCHANGED <<trap, d>>
    BY <1>1, <1>7, StageOf DEF vmm_init, At, trapVars, driverVars
  <2>2. CASE /\ made < machine.vmm /\ made' = made + 1
             /\ UNCHANGED <<machine, stage, g_fb, log, stopped, nmi, freed>>
    <3>1. machine.vmm \in Nat
      BY MachinesAssumption DEF OutcomeInv, MachineOK
    <3>2. made' \in 0..machine.vmm
      BY <1>2, <2>2, <3>1
    <3>3. QED
      BY <1>2, <2>1, <2>2, <3>2, OutcomeStays
  <2>3. CASE OutOfFrames
    BY <2>1, <2>3, OutcomePanics DEF OutOfFrames, Pool!TakeFails
  <2>4. CASE Return /\ UNCHANGED <<machine, made, g_fb, stopped, nmi, freed>>
    BY <1>2, <2>1, <2>4, OutcomeReturns DEF Return
  <2>5. QED
    BY <1>7, <2>2, <2>3, <2>4 DEF vmm_init
<1>8. CASE allocator_init
  <2>1. stage = 6 /\ stopped = "no" /\ UNCHANGED <<trap, d>>
    BY <1>1, <1>8, StageOf DEF allocator_init, At, trapVars, driverVars
  <2>2. QED
    BY <1>2, <1>8, <2>1, OutcomeReturns DEF allocator_init, Return
<1>9. QED
  BY <1>3, <1>4, <1>5, <1>6, <1>7, <1>8
LEMMA AcpiKeepsOutcome ==
  ASSUME Inv, AcpiInv, OutcomeInv, machine' = machine,
         acpi_init_allocates \/ acpi_init_goes_on \/ acpi_init_faults \/ acpi_init_reclaims
  PROVE  OutcomeSoFar'
<1>1. stage = 7 /\ stopped = "no" /\ UNCHANGED <<d>>
  BY StageOf DEF Inv, Progress, acpi_init_allocates, acpi_init_goes_on, acpi_init_faults,
                 acpi_init_reclaims, AcpiRuns, At, driverVars
<1>2. g_fb \in BOOLEAN /\ freed \in BOOLEAN /\ made \in 0..machine.vmm /\ d \in Nat \ {0}
  BY DEF OutcomeInv, CountsOK
<1>3. firmware = machine.firmware
  BY DEF OutcomeInv, MachineOK
<1>4. CASE acpi_init_allocates
  <2>1. UNCHANGED trap
    BY <1>4 DEF acpi_init_allocates, trapVars
  <2>2. CASE Quietly
    BY <1>1, <1>2, <2>1, <2>2, OutcomeStays DEF Quietly
  <2>3. CASE OutOfFrames
    BY <1>1, <2>1, <2>3, OutcomePanics DEF OutOfFrames, Pool!TakeFails
  <2>4. QED
    BY <1>4, <2>2, <2>3 DEF acpi_init_allocates
<1>5. CASE acpi_init_goes_on
  <2>1. UNCHANGED trap
    BY <1>5 DEF acpi_init_goes_on, trapVars
  <2>2. CASE UNCHANGED <<machine, stage, made, g_fb, stopped, nmi, freed>>
    BY <1>1, <1>2, <2>1, <2>2, OutcomeStays
  <2>3. CASE ChecksumBad /\ kpanic("assertion")
    <3>1. Troubled
      BY <1>3, <2>3, UnreadableTables DEF Troubled
    <3>2. QED
      BY <1>1, <2>1, <2>3, <3>1, OutcomePanics
  <2>4. QED
    BY <1>5, <2>2, <2>3 DEF acpi_init_goes_on, Quietly
<1>6. CASE acpi_init_faults
  <2>1. Troubled
    BY <1>3, <1>6, UnreadableTables DEF acpi_init_faults, Troubled
  <2>2. PICK vector \in {13, 14} : Fault(vector)
    BY <1>6 DEF acpi_init_faults
  <2>3. vector \in Vectors
    BY DEF Vectors
  <2>4. UNCHANGED <<machine, stage, made, g_fb, nmi, freed>>
    BY <1>6 DEF acpi_init_faults
  <2>5. QED
    BY <1>1, <1>2, <2>1, <2>2, <2>3, <2>4, OutcomeFaults
<1>7. CASE acpi_init_reclaims
  <2>1. phase = "reclaim" /\ UNCHANGED <<trap, made, g_fb, stopped, nmi, freed>> /\ stage' = stage + 1
    BY <1>7 DEF acpi_init_reclaims, PagesReclaimed, trapVars, Return
  <2>2. ~TablesTroubled
    BY <1>3, <2>1, ReadTablesAreSound
  <2>3. QED
    BY <1>1, <1>2, <2>1, <2>2, OutcomeReturns
<1>8. QED
  BY <1>4, <1>5, <1>6, <1>7

(* The loop of init_drivers passes a driver that is no trouble.            *)
LEMMA OutcomeNextDriver ==
  ASSUME OutcomeInv, machine' = machine, UNCHANGED <<stage, trap, stopped, nmi, made, g_fb, freed>>,
         stage = 8, stopped = "no", trap = NoTrap, d' = d + 1,
         machine.drivers[d].init \in {"null", "0"}
  PROVE  OutcomeSoFar'
<1>1. d \in Nat \ {0}
  BY DEF OutcomeInv, CountsOK
<1>2. \A i \in DOMAIN machine.drivers : i \in Nat \ {0}
  <2>1. machine.drivers \in Seq(DriverType({"null"}))
    BY MachinesAssumption DEF OutcomeInv, MachineOK
  <2>2. QED
    BY <2>1
<1>3. \A i \in DOMAIN machine.drivers : i < d' => i < d \/ i = d
  BY <1>1, <1>2
<1>4. GoodSoFar'
  BY <1>3, TroubleStays DEF OutcomeInv, GoodSoFar
<1>5. CausesKnown'
  BY TroubleStays DEF OutcomeInv, CausesKnown
<1>6. CountsOK'
  BY <1>1 DEF OutcomeInv, CountsOK
<1>7. QED
  BY <1>4, <1>5, <1>6 DEF OutcomeSoFar

(* An error that is to be reported faults: %s is given a number.           *)
LEMMA FailureIsNotPrintable == ~Printable(<<"s", "d">>, FailureArguments)
  BY DEF Printable, FailureArguments

LEMMA InitLoopKeepsOutcome ==
  ASSUME Inv, OutcomeInv, machine' = machine,
         init_drivers \/ init_drivers_skips \/ init_drivers_calls \/ init_drivers_faults
  PROVE  OutcomeSoFar'
<1>1. stage = 8 /\ stopped = "no" /\ trap = NoTrap
  BY StageOf DEF Inv, Progress, init_drivers, init_drivers_skips, init_drivers_calls,
                 init_drivers_faults, InitRuns, At
<1>2. g_fb \in BOOLEAN /\ freed \in BOOLEAN /\ made \in 0..machine.vmm /\ d \in Nat \ {0}
  BY DEF OutcomeInv, CountsOK
<1>3. DOMAIN drivers = DOMAIN machine.drivers
      /\ \A i \in DOMAIN drivers : drivers[i].init = machine.drivers[i].init
  BY DEF OutcomeInv, MachineOK
<1>4. d \in DOMAIN drivers /\ drivers[d].init \notin {"null", "0"} => Troubled
  BY <1>3 DEF Troubled, DriversTroubled
<1>5. CASE init_drivers
  <2>1. UNCHANGED <<d, trap, stage, stopped, nmi, made, g_fb, freed>>
    BY <1>5 DEF init_drivers, link_driver_callbacks, trapVars
  <2>2. QED
    BY <1>1, <1>2, <2>1, OutcomeStays
<1>6. CASE init_drivers_skips
  <2>1. d' = d + 1 /\ UNCHANGED <<trap, stage, stopped, nmi, made, g_fb, freed>>
    BY <1>6 DEF init_drivers_skips, SkipInit, Quietly, trapVars
  <2>2. machine.drivers[d].init = "null"
    BY <1>3, <1>6 DEF init_drivers_skips, SkipInit, More
  <2>3. QED
    BY <1>1, <2>1, <2>2, OutcomeNextDriver
<1>7. CASE init_drivers_calls
  <2>1. /\ d' = d + 1 /\ d \in DOMAIN drivers
        /\ UNCHANGED <<machine, stage, made, g_fb, nmi, freed>>
    BY <1>7 DEF init_drivers_calls, CallInit, More
  <2>2. CASE drivers[d].init = "0" /\ UNCHANGED <<stopped, trapVars>>
    BY <1>1, <1>3, <2>1, <2>2, OutcomeNextDriver DEF trapVars
  <2>3. CASE drivers[d].init \notin {"null", "0"} /\ Fault(14)
    BY <1>1, <1>2, <1>4, <2>1, <2>3, OutcomeFaults DEF Vectors
  <2>4. QED
    BY <1>7, <2>2, <2>3, FailureIsNotPrintable DEF init_drivers_calls
<1>8. CASE init_drivers_faults
  <2>1. /\ Troubled /\ d' = d /\ \E vector \in Vectors : Fault(vector)
        /\ UNCHANGED <<machine, stage, made, g_fb, nmi, freed>>
    BY <1>4, <1>8 DEF init_drivers_faults, More, driverVars
  <2>2. QED
    BY <1>1, <1>2, <2>1, OutcomeFaults
<1>9. QED
  BY <1>5, <1>6, <1>7, <1>8

LEMMA EndKeepsOutcome ==
  ASSUME Inv, OutcomeInv, machine' = machine,
         init_drivers_returns \/ cleanup_drivers \/ halt_catchfire
  PROVE  OutcomeSoFar'
<1>1. stage \in 8..10 /\ stopped = "no" /\ trap = NoTrap
  BY StageOf DEF Inv, Progress, init_drivers_returns, cleanup_drivers, halt_catchfire, InitRuns, At
<1>2. d \in Nat \ {0}
  BY DEF OutcomeInv, CountsOK
<1>3. CASE init_drivers_returns
  <2>1. /\ stage = 8 /\ stage' = 9 /\ d' = 1 /\ d \notin DOMAIN machine.drivers
        /\ UNCHANGED <<trap, made, g_fb, stopped, nmi, freed, oom>>
    BY <1>1, <1>3, StageOf DEF init_drivers_returns, InitRuns, At, LoopEnds, More, Return, trapVars,
                               pool, OutcomeInv, MachineOK
  <2>2. ~DriversTroubled
    <3>1. PICK n \in Nat : DOMAIN machine.drivers = 1..n
      <4>1. machine.drivers \in Seq(DriverType({"null"}))
        BY MachinesAssumption DEF OutcomeInv, MachineOK
      <4>2. QED
        BY <4>1
    <3>2. \A i \in 1..n : i < d
      BY <1>2, <2>1, <3>1
    <3>3. QED
      BY <1>1, <2>1, <3>1, <3>2 DEF OutcomeInv, GoodSoFar, DriversTroubled
  <2>3. GoodSoFar'
    BY <2>1, <2>2, TroubleStays DEF OutcomeInv, GoodSoFar
  <2>4. CausesKnown'
    BY <2>1, TroubleStays DEF OutcomeInv, CausesKnown
  <2>5. CountsOK'
    BY <2>1 DEF OutcomeInv, CountsOK
  <2>6. QED
    BY <2>3, <2>4, <2>5 DEF OutcomeSoFar
<1>4. CASE cleanup_drivers
  <2>1. /\ stage = 9 /\ stage' \in {9, 10} /\ d' \in Nat \ {0}
        /\ UNCHANGED <<trap, made, g_fb, stopped, nmi, freed, oom>>
    BY <1>1, <1>2, <1>4, StageOf DEF cleanup_drivers, At, LoopEnds, CleanupDriver, Return, trapVars,
                                     pool
  <2>2. GoodSoFar'
    BY <2>1, TroubleStays DEF OutcomeInv, GoodSoFar
  <2>3. CausesKnown'
    BY <2>1, TroubleStays DEF OutcomeInv, CausesKnown
  <2>4. CountsOK'
    BY <2>1 DEF OutcomeInv, CountsOK
  <2>5. QED
    BY <2>2, <2>3, <2>4 DEF OutcomeSoFar
<1>5. CASE halt_catchfire
  <2>1. /\ stage = 10 /\ stopped' = "halt"
        /\ UNCHANGED <<trap, d, stage, made, g_fb, nmi, freed>>
    BY <1>1, <1>5, StageOf DEF halt_catchfire, At, trapVars, driverVars
  <2>2. ~Troubled
    BY <2>1 DEF OutcomeInv, GoodSoFar, Troubled
  <2>3. GoodSoFar'
    BY <2>1, TroubleStays DEF OutcomeInv, GoodSoFar
  <2>4. CausesKnown'
    BY <2>1, <2>2, TroubleStays DEF OutcomeInv, CausesKnown
  <2>5. CountsOK'
    BY <2>1 DEF OutcomeInv, CountsOK
  <2>6. QED
    BY <2>3, <2>4, <2>5 DEF OutcomeSoFar
<1>6. QED
  BY <1>3, <1>4, <1>5

LEMMA MeanwhileKeepsOutcome ==
  ASSUME Inv, OutcomeInv, machine' = machine,
         DriverAllocates \/ DriverFrees \/ DriverUsesHeap \/ DriverCleansAcpi
  PROVE  OutcomeSoFar'
<1>1. InitMeanwhile
  BY DEF DriverAllocates, DriverFrees, DriverUsesHeap, DriverCleansAcpi
<1>2. stopped = "no" /\ UNCHANGED <<trap, d>>
  BY <1>1 DEF InitMeanwhile, InitRuns, At, trapVars, driverVars
<1>3. UNCHANGED <<stage, stopped, nmi, made, g_fb>>
  BY DEF DriverAllocates, DriverFrees, DriverUsesHeap, DriverCleansAcpi, FrameGiven, Quietly
<1>4. freed' \in BOOLEAN
  <2>1. freed' = freed \/ freed' = TRUE
    BY DEF DriverAllocates, DriverFrees, DriverUsesHeap, DriverCleansAcpi, FrameGiven, Quietly
  <2>2. QED
    BY <2>1, Zenon DEF OutcomeInv, CountsOK
<1>5. g_fb \in BOOLEAN /\ made \in 0..machine.vmm
  BY DEF OutcomeInv, CountsOK
<1>6. QED
  BY <1>2, <1>3, <1>4, <1>5, OutcomeStays

LEMMA TrapsKeepOutcome ==
  ASSUME Inv, OutcomeInv, machine' = machine, Nmi \/ TrapEntered \/ c_exception_handler
  PROVE  OutcomeSoFar'
<1>1. CASE Nmi
  <2>1. /\ nmi' = TRUE /\ trap = NoTrap /\ stopped \in {"no", "halt"}
        /\ stopped' = stopped \/ stopped' = "lost"
        /\ UNCHANGED <<d, oom, stage, made, g_fb, freed>>
    BY <1>1 DEF Nmi, Fault, driverVars, pool
  <2>2. GoodSoFar'
    BY <2>1, TroubleStays DEF OutcomeInv, GoodSoFar
  <2>3. CausesKnown'
    BY <2>1, TroubleStays DEF OutcomeInv, CausesKnown
  <2>4. nmi' \in BOOLEAN /\ "at" \in DOMAIN trap'
    <3>1. Fault(2)
      BY <1>1 DEF Nmi
    <3>2. QED
      BY <2>1, <3>1 DEF Fault, Deliver, NoTrap
  <2>5. CountsOK'
    BY <2>1, <2>4 DEF OutcomeInv, CountsOK
  <2>6. QED
    BY <2>2, <2>3, <2>5 DEF OutcomeSoFar
<1>2. CASE TrapEntered
  <2>1. trap # NoTrap /\ UNCHANGED <<d, oom, stage, made, g_fb, stopped, nmi, freed>>
    BY <1>2 DEF TrapEntered, exception_handler, common_exception_wrapper, NoTrap, driverVars,
                kernelVars, pool
  <2>2. trap'.at \in {"wrapper", "handler"} /\ "at" \in DOMAIN trap'
    <3>1. "at" \in DOMAIN trap
      BY DEF OutcomeInv, CountsOK
    <3>2. QED
      BY <1>2, <3>1 DEF TrapEntered, exception_handler, common_exception_wrapper
  <2>3. trap' # NoTrap
    BY <2>2 DEF NoTrap
  <2>4. GoodSoFar'
    BY <2>1, <2>3, TroubleStays DEF OutcomeInv, GoodSoFar
  <2>5. CausesKnown'
    BY <2>1, TroubleStays DEF OutcomeInv, CausesKnown
  <2>6. CountsOK'
    BY <2>1, <2>2 DEF OutcomeInv, CountsOK
  <2>7. QED
    BY <2>4, <2>5, <2>6 DEF OutcomeSoFar
<1>3. CASE c_exception_handler
  <2>1. trap # NoTrap /\ kpanic(Message) /\ UNCHANGED <<trap, d>>
    BY <1>3 DEF c_exception_handler, NoTrap, trapVars, driverVars
  <2>2. Troubled \/ nmi = TRUE
    BY <2>1 DEF OutcomeInv, CausesKnown
  <2>3. QED
    BY <2>1, <2>2, OutcomePanics
<1>4. QED
  BY <1>1, <1>2, <1>3
LEMMA NextKeepsOutcome == Inv /\ AcpiInv /\ OutcomeInv /\ [Next]_vars => OutcomeInv'
<1> SUFFICES ASSUME Inv, AcpiInv, OutcomeInv, [Next]_vars PROVE OutcomeInv'
  OBVIOUS
<1>1. MachineOK' /\ machine' = machine
  BY NextKeepsMachine
<1>2. FramesOK'
  BY NextKeepsFrames
<1>3. OutcomeSoFar'
  <2>1. CASE BootStep
    BY <1>1, <2>1, EarlyKeepsOutcome, AcpiKeepsOutcome, InitLoopKeepsOutcome, EndKeepsOutcome,
       TrapsKeepOutcome DEF BootStep
  <2>2. CASE DriverAllocates \/ DriverFrees \/ DriverUsesHeap \/ DriverCleansAcpi
    BY <1>1, <2>2, MeanwhileKeepsOutcome
  <2>3. CASE Nmi
    BY <1>1, <2>3, TrapsKeepOutcome
  <2>4. CASE UNCHANGED vars
    <3>1. UNCHANGED <<machine, stage, trap, stopped, nmi, d, made, g_fb, freed, oom>>
      BY <2>4 DEF vars, trapVars, driverVars, kernelVars, pool
    <3>2. GoodSoFar' /\ CausesKnown'
      BY <3>1, TroubleStays DEF OutcomeInv, GoodSoFar, CausesKnown
    <3>3. CountsOK'
      BY <3>1 DEF OutcomeInv, CountsOK
    <3>4. QED
      BY <3>2, <3>3 DEF OutcomeSoFar
  <2>5. QED
    BY <2>1, <2>2, <2>3, <2>4 DEF Next, Stopped
<1>4. QED
  BY <1>1, <1>2, <1>3 DEF OutcomeInv, OutcomeSoFar

LEMMA OutcomeIsKnown == Inv /\ AcpiInv /\ OutcomeInv => BootOutcome
<1> SUFFICES ASSUME Inv, AcpiInv, OutcomeInv PROVE BootOutcome
  OBVIOUS
<1>1. stage \in DOMAIN kmain
  BY DEF Inv, Progress, kmain
<1>2. gates \in {{}, Vectors}
  BY DEF Inv, Progress
<1>3. heap \in [Blocks -> {"none", "acpi", "driver"}]
  BY DEF AcpiInv, AcpiTypeOK
<1>4. /\ made \in 0..machine.vmm /\ stopped \in {"no", "halt", "panic", "lost"}
      /\ g_fb \in BOOLEAN /\ nmi \in BOOLEAN /\ freed \in BOOLEAN
  BY DEF OutcomeInv, CountsOK
<1>5. \A f \in Frames : user[f] # "none" <=> f \in held
  BY DEF OutcomeInv, FramesOK
<1>6. TypeOK
  BY <1>1, <1>2, <1>3, <1>4, <1>5 DEF TypeOK
<1>7. (stopped = "halt" => ~Troubled) /\ (stopped = "panic" => Troubled \/ oom \/ nmi)
  BY Zenon DEF OutcomeInv, CausesKnown
<1>8. QED
  BY <1>6, <1>7 DEF BootOutcome

(* On every machine: kmain comes to its end only on one that it can boot   *)
(* on, whatever kmain calls having looked at all of it, and whatever stops *)
(* it is trouble with the machine, lack of memory or an interrupt          *)
(* (main.c:20-54).                                                         *)
THEOREM BootOutcomeIsKnown == Spec => []BootOutcome
<1>1. Init => Inv /\ AcpiInv /\ OutcomeInv
  BY InitInv, InitTables, InitOutcome
<1>2. Inv /\ AcpiInv /\ OutcomeInv /\ [Next]_vars => (Inv /\ AcpiInv /\ OutcomeInv)'
  BY NextKeepsInv, NextKeepsTables, NextKeepsOutcome
<1>3. QED
  BY <1>1, <1>2, OutcomeIsKnown, PTL DEF Spec
-----------------------------------------------------------------------------
(* The calls of the exit handlers.                                         *)

LEMMA Least ==
  ASSUME NEW S \in SUBSET Nat, S # {}
  PROVE  \E x \in S : \A y \in S : x <= y
<1>1. PICK x \in S : \A y \in S : ~(<<y, x>> \in OpToRel(<, Nat))
  BY WFMin, NatLessThanWellFounded
<1>2. \A y \in S : ~(y < x)
  BY <1>1 DEF OpToRel
<1>3. QED
  BY <1>2

EntriesOK ==
  /\ exit_entries \in Seq([name : STRING, exit : STRING])
  /\ drivers \in Seq(DriverType(STRING \cup {"null"}))
  /\ linked \in BOOLEAN
  /\ linked = FALSE => drivers = machine.drivers
  /\ linked = TRUE => \A i \in DOMAIN drivers : drivers[i].exit = DeclaredExit(i)

(* Which handlers have been called when kmain has come so far. *)
CallsOK ==
  /\ d \in Nat \ {0}
  /\ stage < 9 =>
       exited = << >> /\ returned = {i \in DOMAIN drivers : i < d /\ drivers[i].init # "null"}
  /\ stage >= 9 =>
       linked = TRUE /\ returned = {i \in DOMAIN drivers : drivers[i].init # "null"}
  /\ stage = 9 => d - 1 <= Len(drivers) /\ InLinkOrder(exited, 1..d - 1)
  /\ stage = 10 => d = 1 /\ InLinkOrder(exited, DOMAIN drivers)
  /\ exited \in Seq(STRING \cup {"null"})

ExitsInv == machine \in Machines /\ EntriesOK /\ CallsOK

(* link_driver_callbacks finds the first entry with the driver's name,     *)
(* which is the one whose handler is declared.                             *)
LEMMA FirstEntry ==
  ASSUME exit_entries \in Seq([name : STRING, exit : STRING]), NEW i, Matches(i) # {}
  PROVE  exit_entries[ExitEntry(i)].exit = DeclaredExit(i)
<1>1. DOMAIN exit_entries = 1..Len(exit_entries) /\ Matches(i) \in SUBSET Nat
  BY DEF Matches
<1>2. \E j \in Matches(i) : \A k \in Matches(i) : j <= k
  BY <1>1, Least
<1>3. ExitEntry(i) \in Matches(i) /\ \A k \in Matches(i) : ExitEntry(i) <= k
  BY <1>2 DEF ExitEntry
<1> DEFINE e == ExitEntry(i)
<1>4. \A k \in 1..e - 1 : exit_entries[k].name # drivers[i].name
  BY <1>1, <1>3 DEF Matches
<1>5. \A j \in Matches(i) :
        (\A k \in 1..j - 1 : exit_entries[k].name # drivers[i].name) => j = e
  BY <1>1, <1>3 DEF Matches
<1> HIDE DEF e
<1>6. DeclaredExit(i) =
        CHOOSE h \in {exit_entries[j].exit : j \in Matches(i)} :
          \E j \in Matches(i) : /\ exit_entries[j].exit = h
                               /\ \A k \in 1..j - 1 : exit_entries[k].name # drivers[i].name
  BY DEF DeclaredExit
<1>7. \A h \in {exit_entries[j].exit : j \in Matches(i)} :
        (\E j \in Matches(i) : /\ exit_entries[j].exit = h
                              /\ \A k \in 1..j - 1 : exit_entries[k].name # drivers[i].name)
        <=> h = exit_entries[e].exit
  BY <1>3, <1>4, <1>5 DEF e
<1>8. exit_entries[e].exit \in {exit_entries[j].exit : j \in Matches(i)}
  BY <1>3 DEF e
<1>9. DeclaredExit(i) = exit_entries[e].exit
  BY <1>6, <1>7, <1>8
<1>10. QED
  BY <1>9 DEF e

(* The call of the next driver's handler keeps the order. *)
LEMMA NextCall ==
  ASSUME NEW n \in Nat, InLinkOrder(exited, 1..n), exited \in Seq(STRING \cup {"null"}),
         DeclaredExit(n + 1) \in STRING \cup {"null"},
         NEW calls,
         calls = IF DeclaredExit(n + 1) = "null" THEN exited
                 ELSE Append(exited, DeclaredExit(n + 1))
  PROVE  InLinkOrder(calls, 1..n + 1)
<1> DEFINE H == {i \in 1..n : DeclaredExit(i) # "null"}
           G == {i \in 1..n + 1 : DeclaredExit(i) # "null"}
<1>1. Len(exited) = Cardinality(H)
      /\ \A i \in H : exited[Cardinality({j \in H : j <= i})] = DeclaredExit(i)
  BY DEF InLinkOrder
<1>2. IsFiniteSet(H)
  BY FS_Interval, FS_Subset
<1>3. CASE DeclaredExit(n + 1) = "null"
  <2>1. G = H
    BY <1>3
  <2>2. QED
    BY <1>1, <1>3, <2>1 DEF InLinkOrder
<1>4. CASE DeclaredExit(n + 1) # "null"
  <2>1. G = H \cup {n + 1} /\ n + 1 \notin H
    BY <1>4
  <2>2. Cardinality(G) = Cardinality(H) + 1 /\ Cardinality(H) \in Nat
    BY <1>2, <2>1, FS_AddElement, FS_CardinalityType
  <2>3. Len(calls) = Len(exited) + 1 /\ calls[Len(exited) + 1] = DeclaredExit(n + 1)
        /\ \A k \in 1..Len(exited) : calls[k] = exited[k]
    BY <1>4
  <2>4. ASSUME NEW i \in G PROVE calls[Cardinality({j \in G : j <= i})] = DeclaredExit(i)
    <3>1. CASE i = n + 1
      <4>1. {j \in G : j <= i} = G
        BY <3>1
      <4>2. QED
        BY <1>1, <2>2, <2>3, <3>1, <4>1
    <3>2. CASE i # n + 1
      <4> DEFINE B == {j \in H : j <= i}
      <4>1. i \in H /\ {j \in G : j <= i} = B
        BY <2>1, <3>2
      <4>2. i \in B /\ B \in SUBSET H
        BY <4>1
      <4>3. IsFiniteSet(B) /\ Cardinality(B) <= Cardinality(H)
        BY <1>2, <4>2, FS_Subset
      <4>4. Cardinality(B) \in Nat /\ Cardinality(B) # 0
        BY <4>2, <4>3, FS_CardinalityType, FS_EmptySet
      <4> HIDE DEF B
      <4>5. Cardinality(B) \in 1..Len(exited)
        BY <1>1, <2>2, <4>3, <4>4
      <4>6. exited[Cardinality(B)] = DeclaredExit(i)
        BY <1>1, <4>1 DEF B
      <4>7. QED
        BY <2>3, <4>1, <4>5, <4>6
    <3>3. QED
      BY <3>1, <3>2
  <2>5. QED
    BY <1>1, <2>2, <2>3, <2>4 DEF InLinkOrder
<1>5. QED
  BY <1>3, <1>4
LEMMA InitExits == Init => ExitsInv
<1> SUFFICES ASSUME Init PROVE ExitsInv
  OBVIOUS
<1>1. machine \in Machines /\ drivers = machine.drivers /\ exit_entries = machine.exits
      /\ linked = FALSE /\ d = 1 /\ returned = {} /\ exited = << >> /\ stage = 1
  BY DEF Init, DriversInit
<1>2. drivers \in Seq(DriverType({"null"})) /\ exit_entries \in Seq([name : STRING, exit : STRING])
  BY <1>1, MachinesAssumption
<1>3. drivers \in Seq(DriverType(STRING \cup {"null"}))
  <2>1. DriverType({"null"}) \subseteq DriverType(STRING \cup {"null"})
    BY DEF DriverType
  <2>2. \A S, R : S \subseteq R => Seq(S) \subseteq Seq(R)
    OBVIOUS
  <2>3. QED
    BY <1>2, <2>1, <2>2
<1>4. EntriesOK
  <2>1. linked \in BOOLEAN
    BY <1>1
  <2>2. QED
    BY <1>1, <1>2, <1>3, <2>1 DEF EntriesOK
<1>5. \A i \in DOMAIN drivers : i \in Nat \ {0}
  BY <1>3
<1>6. CallsOK
  BY <1>1, <1>5 DEF CallsOK
<1>7. QED
  BY <1>1, <1>4, <1>6 DEF ExitsInv

(* What is declared depends on names and entries alone.                    *)
LEMMA DeclaredStays ==
  ASSUME UNCHANGED exit_entries, NEW i, drivers'[i].name = drivers[i].name
  PROVE  DeclaredExit(i)' = DeclaredExit(i) /\ Matches(i)' = Matches(i)
  BY DEF DeclaredExit, Matches

LEMMA OrderStays ==
  ASSUME UNCHANGED <<drivers, exit_entries>>, NEW calls, NEW S
  PROVE  InLinkOrder(calls, S)' = InLinkOrder(calls, S)
  BY DEF InLinkOrder, DeclaredExit, Matches

LEMMA LinkKeepsEntries ==
  ASSUME EntriesOK, machine \in Machines, machine' = machine, link_driver_callbacks
  PROVE  EntriesOK' /\ DOMAIN drivers' = DOMAIN drivers
         /\ \A i \in DOMAIN drivers : drivers'[i].init = drivers[i].init
<1> DEFINE N == Len(drivers)
           All == DriverType(STRING \cup {"null"})
<1>1. /\ linked = FALSE /\ linked' = TRUE /\ exit_entries' = exit_entries
      /\ drivers = machine.drivers /\ drivers \in Seq(All)
      /\ DOMAIN drivers' = DOMAIN drivers /\ DOMAIN drivers = 1..N /\ N \in Nat
  <2>1. linked = FALSE
    BY Zenon DEF link_driver_callbacks, EntriesOK
  <2>2. QED
    BY <2>1 DEF link_driver_callbacks, EntriesOK
<1>2. drivers' = [i \in 1..N |->
        IF Matches(i) = {} THEN drivers[i]
        ELSE [drivers[i] EXCEPT !.exit = exit_entries[ExitEntry(i)].exit]]
  BY <1>1 DEF link_driver_callbacks
<1>3. ASSUME NEW i \in DOMAIN drivers
      PROVE  /\ drivers'[i] \in All /\ drivers'[i].init = drivers[i].init
             /\ drivers'[i].exit = DeclaredExit(i)'
  <2>1. drivers[i] \in DriverType({"null"})
    <3>1. drivers \in Seq(DriverType({"null"}))
      BY <1>1, MachinesAssumption
    <3>2. \A S : \A s \in Seq(S) : \A k \in DOMAIN s : s[k] \in S
      OBVIOUS
    <3>3. QED
      BY <1>3, <3>1, <3>2
  <2> DEFINE x == exit_entries[ExitEntry(i)].exit
  <2>2. Matches(i) # {} => x \in STRING /\ x = DeclaredExit(i)
    <3>1. ASSUME Matches(i) # {} PROVE ExitEntry(i) \in DOMAIN exit_entries
      <4>1. Matches(i) \in SUBSET Nat
        BY DEF Matches, EntriesOK
      <4>2. ExitEntry(i) \in Matches(i)
        BY <3>1, <4>1, Least DEF ExitEntry
      <4>3. QED
        BY <4>2 DEF Matches
    <3>2. exit_entries \in Seq([name : STRING, exit : STRING])
      BY DEF EntriesOK
    <3>3. \A k \in DOMAIN exit_entries : exit_entries[k].exit \in STRING
      <4>1. \A S : \A s \in Seq(S) : \A k \in DOMAIN s : s[k] \in S
        OBVIOUS
      <4>2. \A k \in DOMAIN exit_entries : exit_entries[k] \in [name : STRING, exit : STRING]
        BY <3>2, <4>1
      <4>3. QED
        BY <4>2
    <3>4. QED
      BY <3>1, <3>2, <3>3, FirstEntry
  <2>3. drivers'[i] = IF Matches(i) = {} THEN drivers[i] ELSE [drivers[i] EXCEPT !.exit = x]
    BY <1>1, <1>2, <1>3
  <2> HIDE DEF x
  <2>4. /\ [drivers[i] EXCEPT !.exit = x].name = drivers[i].name
        /\ [drivers[i] EXCEPT !.exit = x].init = drivers[i].init
        /\ [drivers[i] EXCEPT !.exit = x].exit = x
    BY <2>1 DEF DriverType
  <2>5. x \in STRING => [drivers[i] EXCEPT !.exit = x] \in All
    BY <2>1 DEF DriverType
  <2>6. drivers[i] \in All /\ drivers[i].exit = "null"
    BY <2>1 DEF DriverType
  <2>7. DeclaredExit(i)' = DeclaredExit(i)
    <3>1. drivers'[i].name = drivers[i].name
      BY <2>3, <2>4
    <3>2. QED
      BY <1>1, <3>1, DeclaredStays
  <2>8. Matches(i) = {} => DeclaredExit(i) = "null"
    BY DEF DeclaredExit
  <2>9. QED
    BY <2>2, <2>3, <2>4, <2>5, <2>6, <2>7, <2>8
<1>4. drivers' \in Seq(All)
  <2> HIDE DEF All, N
  <2>1. \A i \in 1..N : drivers'[i] \in All
    BY <1>1, <1>3
  <2>2. drivers' \in [1..N -> All]
    BY <1>2, <2>1
  <2>3. QED
    BY <1>1, <2>2
<1>5. linked' \in BOOLEAN
  BY <1>1
<1>6. QED
  BY <1>1, <1>3, <1>4, <1>5 DEF EntriesOK
(* A step that leaves the entries and the calls as they are. *)
LEMMA ExitsStay ==
  ASSUME ExitsInv, machine' = machine, UNCHANGED driverVars,
         stage' = stage \/ (stage < 8 /\ stage' = stage + 1), stage \in 1..10
  PROVE  ExitsInv'
<1>1. UNCHANGED <<drivers, exit_entries, linked, d, returned, exited>>
  BY DEF driverVars
<1>2. \A i : DeclaredExit(i)' = DeclaredExit(i)
  BY <1>1, DeclaredStays
<1>3. EntriesOK'
  BY <1>1, <1>2 DEF ExitsInv, EntriesOK
<1>4. /\ InLinkOrder(exited, 1..d - 1)' = InLinkOrder(exited, 1..d - 1)
      /\ InLinkOrder(exited, DOMAIN drivers)' = InLinkOrder(exited, DOMAIN drivers)
  BY <1>1, <1>2 DEF InLinkOrder
<1>5. CallsOK'
  BY <1>1, <1>4 DEF ExitsInv, CallsOK
<1>6. QED
  BY <1>3, <1>5 DEF ExitsInv

LEMMA InitLoopKeepsExits ==
  ASSUME ExitsInv, machine' = machine, stage = 8,
         \/ init_drivers \/ init_drivers_skips \/ init_drivers_calls \/ init_drivers_returns
  PROVE  ExitsInv'
<1>1. /\ EntriesOK /\ CallsOK /\ machine \in Machines
      /\ d \in Nat \ {0} /\ exited = << >>
      /\ returned = {i \in DOMAIN drivers : i < d /\ drivers[i].init # "null"}
  BY DEF ExitsInv, CallsOK
<1>2. PICK n \in Nat : n = Len(drivers) /\ DOMAIN drivers = 1..n
  BY <1>1 DEF EntriesOK
<1>3. CASE init_drivers
  <2>1. link_driver_callbacks /\ stage' = stage /\ UNCHANGED <<d, returned, exited>>
    BY <1>3 DEF init_drivers, link_driver_callbacks
  <2>2. EntriesOK' /\ DOMAIN drivers' = DOMAIN drivers
        /\ \A i \in DOMAIN drivers : drivers'[i].init = drivers[i].init
    BY <1>1, <2>1, LinkKeepsEntries
  <2>3. CallsOK'
    BY <1>1, <2>1, <2>2 DEF CallsOK
  <2>4. QED
    BY <1>1, <2>2, <2>3 DEF ExitsInv
<1>4. CASE init_drivers_skips \/ init_drivers_calls
  <2>1. /\ d \in DOMAIN drivers /\ d' = d + 1 /\ stage' = stage
        /\ UNCHANGED <<drivers, exit_entries, linked, exited>>
        /\ returned' = IF drivers[d].init = "null" THEN returned ELSE returned \cup {d}
    BY <1>4 DEF init_drivers_skips, init_drivers_calls, SkipInit, CallInit, More, Quietly
  <2>2. EntriesOK'
    <3>1. \A i : DeclaredExit(i)' = DeclaredExit(i)
      BY <2>1, DeclaredStays
    <3>2. QED
      BY <1>1, <2>1, <3>1 DEF EntriesOK
  <2>3. returned' = {i \in DOMAIN drivers : i < d + 1 /\ drivers[i].init # "null"}
    BY <1>1, <1>2, <2>1
  <2>4. CallsOK'
    BY <1>1, <2>1, <2>3 DEF CallsOK
  <2>5. QED
    BY <1>1, <2>2, <2>4 DEF ExitsInv
<1>5. CASE init_drivers_returns
  <2>1. /\ linked = TRUE /\ d \notin DOMAIN drivers /\ d' = 1 /\ stage' = 9
        /\ UNCHANGED <<drivers, exit_entries, linked, returned, exited>>
    <3>1. linked = TRUE
      BY <1>1, <1>5, Zenon DEF init_drivers_returns, LoopEnds, EntriesOK
    <3>2. QED
      BY <1>5, <3>1 DEF init_drivers_returns, LoopEnds, More, Return
  <2>2. EntriesOK'
    <3>1. \A i : DeclaredExit(i)' = DeclaredExit(i)
      BY <2>1, DeclaredStays
    <3>2. QED
      BY <1>1, <2>1, <3>1 DEF EntriesOK
  <2>3. returned' = {i \in DOMAIN drivers : drivers[i].init # "null"}
    BY <1>1, <1>2, <2>1
  <2>4. InLinkOrder(exited, 1..d - 1)'
    <3>1. {i \in 1..0 : DeclaredExit(i)' # "null"} = {}
      OBVIOUS
    <3>2. exited' = << >> /\ d' - 1 = 0
      BY <1>1, <2>1
    <3>3. QED
      BY <3>1, <3>2, FS_EmptySet DEF InLinkOrder
  <2>5. CallsOK'
    BY <1>1, <1>2, <2>1, <2>3, <2>4 DEF CallsOK
  <2>6. QED
    BY <1>1, <2>2, <2>5 DEF ExitsInv
<1>6. QED
  BY <1>3, <1>4, <1>5

LEMMA CleanupKeepsExits ==
  ASSUME ExitsInv, machine' = machine, stage = 9, cleanup_drivers
  PROVE  ExitsInv'
<1>1. /\ EntriesOK /\ CallsOK /\ machine \in Machines
      /\ d \in Nat \ {0} /\ linked = TRUE /\ d - 1 <= Len(drivers)
      /\ returned = {i \in DOMAIN drivers : drivers[i].init # "null"}
      /\ InLinkOrder(exited, 1..d - 1) /\ exited \in Seq(STRING \cup {"null"})
  BY DEF ExitsInv, CallsOK
<1>2. PICK n \in Nat : n = Len(drivers) /\ DOMAIN drivers = 1..n
  BY <1>1 DEF EntriesOK
<1>3. UNCHANGED <<drivers, exit_entries, linked, returned>>
  BY DEF cleanup_drivers, CleanupDriver, LoopEnds
<1>4. \A i : DeclaredExit(i)' = DeclaredExit(i)
  BY <1>3, DeclaredStays
<1>5. EntriesOK'
  BY <1>1, <1>3, <1>4 DEF EntriesOK
<1>6. CASE CleanupDriver /\ UNCHANGED stage
  <2>1. /\ d \in DOMAIN drivers /\ d' = d + 1
        /\ exited' = IF drivers[d].exit = "null" THEN exited ELSE Append(exited, drivers[d].exit)
    BY <1>6 DEF CleanupDriver, More
  <2>2. drivers[d].exit = DeclaredExit(d)
    BY <1>1, <2>1 DEF EntriesOK
  <2>3. drivers[d].exit \in STRING \cup {"null"}
    <3>1. \A S : \A s \in Seq(S) : \A k \in DOMAIN s : s[k] \in S
      OBVIOUS
    <3>2. drivers[d] \in DriverType(STRING \cup {"null"})
      BY <1>1, <2>1, <3>1 DEF EntriesOK
    <3>3. QED
      BY <3>2 DEF DriverType
  <2>4. InLinkOrder(exited', 1..d)
    <3>1. d - 1 \in Nat /\ (d - 1) + 1 = d
      BY <1>1
    <3>2. PICK m \in Nat : m = d - 1 /\ m + 1 = d
      BY <3>1
    <3>3. InLinkOrder(exited, 1..m) /\ DeclaredExit(m + 1) \in STRING \cup {"null"}
      BY <1>1, <2>2, <2>3, <3>2
    <3>4. exited' = IF DeclaredExit(m + 1) = "null" THEN exited
                    ELSE Append(exited, DeclaredExit(m + 1))
      BY <2>1, <2>2, <3>2
    <3>5. InLinkOrder(exited', 1..m + 1)
      BY <1>1, <3>3, <3>4, NextCall
    <3>6. QED
      BY <3>2, <3>5
  <2>5. InLinkOrder(exited, 1..d - 1)'
    <3>1. d' - 1 = d
      BY <1>1, <2>1
    <3>2. QED
      BY <1>4, <2>4, <3>1 DEF InLinkOrder
  <2>6. exited' \in Seq(STRING \cup {"null"})
    BY <1>1, <2>1, <2>3
  <2>7. CallsOK'
    BY <1>1, <1>2, <1>3, <1>6, <2>1, <2>5, <2>6 DEF CallsOK
  <2>8. QED
    BY <1>1, <1>5, <2>7 DEF ExitsInv
<1>7. CASE LoopEnds /\ Return
  <2>1. d \notin DOMAIN drivers /\ d' = 1 /\ stage' = 10 /\ exited' = exited
    BY <1>7 DEF LoopEnds, More, Return
  <2>2. d - 1 = n
    BY <1>1, <1>2, <2>1
  <2>3. InLinkOrder(exited, DOMAIN drivers)
    BY <1>1, <1>2, <2>2
  <2>4. InLinkOrder(exited, DOMAIN drivers)'
    BY <1>3, <1>4, <2>1, <2>3 DEF InLinkOrder
  <2>5. CallsOK'
    BY <1>1, <1>3, <2>1, <2>4 DEF CallsOK
  <2>6. QED
    BY <1>1, <1>5, <2>5 DEF ExitsInv
<1>8. QED
  BY <1>6, <1>7 DEF cleanup_drivers

LEMMA NextKeepsExits == Inv /\ ExitsInv /\ [Next]_vars => ExitsInv'
<1> SUFFICES ASSUME Inv, ExitsInv, [Next]_vars PROVE ExitsInv'
  OBVIOUS
<1>1. stage \in 1..10
  BY DEF Inv, Progress
<1>2. machine' = machine
  BY MachineStays
<1>3. CASE init_drivers \/ init_drivers_skips \/ init_drivers_calls \/ init_drivers_returns
  <2>1. stage = 8
    BY <1>1, <1>3, StageOf DEF init_drivers, init_drivers_skips, init_drivers_calls,
                               init_drivers_returns, InitRuns, At
  <2>2. QED
    BY <1>2, <1>3, <2>1, InitLoopKeepsExits
<1>4. CASE cleanup_drivers
  <2>1. stage = 9
    BY <1>1, <1>4, StageOf DEF cleanup_drivers, At
  <2>2. QED
    BY <1>2, <1>4, <2>1, CleanupKeepsExits
<1>5. CASE request_asserts \/ fb_init \/ idt_init \/ pmm_init \/ vmm_init \/ allocator_init
  <2>1. stage < 8
    BY <1>1, <1>5, StageOf DEF request_asserts, fb_init, idt_init, pmm_init, vmm_init,
                               allocator_init, At
  <2>2. UNCHANGED driverVars /\ (stage' = stage \/ stage' = stage + 1)
    BY <1>5 DEF request_asserts, fb_init, idt_init, pmm_init, vmm_init, allocator_init, Return,
                kpanic, OutOfFrames
  <2>3. QED
    BY <1>1, <1>2, <2>1, <2>2, ExitsStay
<1>6. CASE acpi_init_allocates \/ acpi_init_goes_on \/ acpi_init_faults \/ acpi_init_reclaims
  <2>1. stage < 8
    BY <1>1, <1>6, StageOf DEF acpi_init_allocates, acpi_init_goes_on, acpi_init_faults,
                               acpi_init_reclaims, AcpiRuns, At
  <2>2. UNCHANGED driverVars /\ (stage' = stage \/ stage' = stage + 1)
    BY <1>6 DEF acpi_init_allocates, acpi_init_goes_on, acpi_init_faults, acpi_init_reclaims,
                AcpiRuns, Return, kpanic, OutOfFrames, Quietly
  <2>3. QED
    BY <1>1, <1>2, <2>1, <2>2, ExitsStay
<1>7. CASE \/ init_drivers_faults \/ halt_catchfire \/ TrapEntered \/ c_exception_handler \/ Nmi
           \/ DriverAllocates \/ DriverFrees \/ DriverUsesHeap \/ DriverCleansAcpi
           \/ UNCHANGED vars
  <2>1. UNCHANGED <<driverVars, stage>>
    BY <1>7 DEF init_drivers_faults, halt_catchfire, TrapEntered, c_exception_handler, Nmi, kpanic,
                DriverAllocates, DriverFrees, DriverUsesHeap, DriverCleansAcpi, InitMeanwhile,
                Quietly, FrameGiven, kernelVars, vars
  <2>2. QED
    BY <1>1, <1>2, <2>1, ExitsStay
<1>8. QED
  BY <1>3, <1>4, <1>5, <1>6, <1>7 DEF Next, BootStep, Stopped

(* On every machine, with any drivers and any exit handlers: none is       *)
(* called before the last init has returned, and cleanup_drivers calls, in *)
(* link order and once for each driver, the handler declared first under   *)
(* the driver's name (api.c:30-52).                                        *)
THEOREM ExitHandlersAreCalled == Spec => []ExitsCalled
<1>1. Init => Inv /\ ExitsInv
  BY InitInv, InitExits
<1>2. Inv /\ ExitsInv /\ [Next]_vars => (Inv /\ ExitsInv)'
  BY NextKeepsInv, NextKeepsExits
<1>3. Inv /\ ExitsInv => ExitsCalled
  BY DEF Inv, Progress, ExitsInv, CallsOK, ExitsCalled
<1>4. QED
  BY <1>1, <1>2, <1>3, PTL DEF Spec
-----------------------------------------------------------------------------
(* What the handler of exceptions sees.                                    *)

Registers == {Fields[k] : k \in 1..22}
SlotType == [reg : Registers, val : Int]
CpuFrame == <<"ss", "rsp", "rflags", "cs", "rip">>

(* The fields and the registers, one by one. *)
LEMMA FieldNames ==
  /\ Len(Fields) = 22 /\ DOMAIN Fields = 1..22
  /\ Fields[1] = "rax" /\ Fields[2] = "rbx" /\ Fields[3] = "rcx" /\ Fields[4] = "rdx"
  /\ Fields[5] = "rsi" /\ Fields[6] = "rdi" /\ Fields[7] = "r8" /\ Fields[8] = "r9"
  /\ Fields[9] = "r10" /\ Fields[10] = "r11" /\ Fields[11] = "r12" /\ Fields[12] = "r13"
  /\ Fields[13] = "r14" /\ Fields[14] = "r15" /\ Fields[15] = "rbp" /\ Fields[16] = "int_no"
  /\ Fields[17] = "error_code" /\ Fields[18] = "rip" /\ Fields[19] = "cs"
  /\ Fields[20] = "rflags" /\ Fields[21] = "rsp" /\ Fields[22] = "ss"
  BY DEF Fields

LEMMA FieldsDiffer ==
  ASSUME NEW k \in 1..22, NEW j \in 1..22, Fields[j] = Fields[k]
  PROVE  j = k
<1>1. \A i \in 1..22 : \/ i = 1 \/ i = 2 \/ i = 3 \/ i = 4 \/ i = 5 \/ i = 6 \/ i = 7 \/ i = 8
                       \/ i = 9 \/ i = 10 \/ i = 11 \/ i = 12 \/ i = 13 \/ i = 14 \/ i = 15
                       \/ i = 16 \/ i = 17 \/ i = 18 \/ i = 19 \/ i = 20 \/ i = 21 \/ i = 22
  OBVIOUS
<1>2. QED
  BY <1>1, FieldNames

LEMMA Mirrored ==
  /\ \A k \in 1..5 : CpuFrame[k] = Fields[23 - k]
  /\ \A k \in 1..15 : Pushes[k] = Fields[16 - k]
  BY FieldNames DEF CpuFrame, Pushes

LEMMA SlotsAre ==
  ASSUME NEW regs \in Seq(Registers)
  PROVE  /\ Slots(regs) \in Seq(SlotType)
         /\ Len(Slots(regs)) = Len(regs)
         /\ \A i \in 1..Len(regs) : Slots(regs)[i] = Slot(regs[i])
<1>1. \A k \in DOMAIN regs : Slot(regs[k]) \in SlotType
  BY DEF Slot, SlotType
<1> HIDE DEF SlotType
<1>2. QED
  BY <1>1 DEF Slots

IsJoin(u, s, t) ==
  /\ u \in Seq(SlotType) /\ Len(u) = Len(s) + Len(t)
  /\ \A i \in 1..Len(s) : u[i] = s[i]
  /\ \A i \in 1..Len(t) : u[Len(s) + i] = t[i]

LEMMA Joined ==
  ASSUME NEW s \in Seq(SlotType), NEW t \in Seq(SlotType)
  PROVE  IsJoin(s \o t, s, t)
<1>1. /\ s \o t \in Seq(SlotType)
      /\ Len(s \o t) = Len(s) + Len(t)
      /\ \A i \in 1 .. Len(s) + Len(t) : (s \o t)[i] = IF i <= Len(s) THEN s[i] ELSE t[i - Len(s)]
  BY ConcatProperties
<1>2. \A i \in 1..Len(s) : (s \o t)[i] = s[i]
  BY <1>1
<1>3. \A i \in 1..Len(t) : (s \o t)[Len(s) + i] = t[i]
  BY <1>1
<1>4. QED
  BY <1>1, <1>2, <1>3 DEF IsJoin

(* A number that the processor or a stub has pushed.                       *)
Pushed(name, number) == [reg |-> name, val |-> number]

(* What is on the stack when the stub, the wrapper and the handler begin:  *)
(* the processor's five, the error code and the number of the vector, the  *)
(* fifteen that the wrapper saves.                                         *)
StubStack(stack, vector, code) ==
  /\ stack \in Seq(SlotType)
  /\ Len(stack) = 5 + (IF vector \in CpuErrorCodes THEN 1 ELSE 0)
  /\ \A i \in 1..5 : stack[i] = Slot(CpuFrame[i])
  /\ vector \in CpuErrorCodes => stack[6] = Pushed("error_code", code)

WrapperStack(stack, vector, code) ==
  /\ stack \in Seq(SlotType) /\ Len(stack) = 7
  /\ \A i \in 1..5 : stack[i] = Slot(CpuFrame[i])
  /\ stack[6] = Pushed("error_code", code) /\ stack[7] = Pushed("int_no", vector)

HandlerStack(stack, vector, code) ==
  /\ stack \in Seq(SlotType) /\ Len(stack) = 22
  /\ \A i \in 1..5 : stack[i] = Slot(CpuFrame[i])
  /\ stack[6] = Pushed("error_code", code) /\ stack[7] = Pushed("int_no", vector)
  /\ \A i \in 1..15 : stack[7 + i] = Slot(Pushes[i])

LEMMA PushedIsSlot ==
  ASSUME NEW n \in Int
  PROVE  Pushed("error_code", n) \in SlotType /\ Pushed("int_no", n) \in SlotType
<1>1. "error_code" \in Registers /\ "int_no" \in Registers
  BY FieldNames DEF Registers
<1>2. QED
  BY <1>1 DEF SlotType, Pushed

LEMMA FrameIsPushed ==
  /\ CpuFrame \in Seq(Registers) /\ Len(CpuFrame) = 5
  /\ Pushes \in Seq(Registers) /\ Len(Pushes) = 15
<1>1. CpuFrame[1] \in Registers /\ CpuFrame[2] \in Registers /\ CpuFrame[3] \in Registers
      /\ CpuFrame[4] \in Registers /\ CpuFrame[5] \in Registers
  BY Mirrored DEF Registers
<1>2. \A k \in 1..15 : Pushes[k] \in Registers
  BY Mirrored DEF Registers
<1>3. CpuFrame \in Seq(Registers) /\ Len(CpuFrame) = 5
  BY <1>1 DEF CpuFrame
<1>4. Pushes \in Seq(Registers) /\ Len(Pushes) = 15
  <2>1. Len(Pushes) = 15 /\ Pushes = [k \in 1..15 |-> Pushes[k]]
    BY DEF Pushes
  <2>2. QED
    BY <1>2, <2>1
<1>5. QED
  BY <1>3, <1>4

(* Stubs and processor agree on who pushes an error code. *)
LEMMA AgreedCodes == WithErrorCode = CpuErrorCodes
  BY DEF WithErrorCode, CpuErrorCodes

LEMMA CpuStack ==
  ASSUME NEW vector \in Vectors, NEW code \in Int
  PROVE  StubStack(CpuPushes(vector, code), vector, code)
<1> DEFINE frame == Slots(CpuFrame)
<1>1. frame \in Seq(SlotType) /\ Len(frame) = 5 /\ \A i \in 1..5 : frame[i] = Slot(CpuFrame[i])
  BY FrameIsPushed, SlotsAre
<1>2. CpuPushes(vector, code) =
        frame \o (IF vector \in CpuErrorCodes THEN <<Pushed("error_code", code)>> ELSE << >>)
  BY DEF CpuPushes, CpuFrame, Pushed
<1> HIDE DEF frame
<1>3. CASE vector \in CpuErrorCodes
  <2> DEFINE e == Pushed("error_code", code)
  <2>1. e \in SlotType
    BY PushedIsSlot
  <2> HIDE DEF e
  <2>2. <<e>> \in Seq(SlotType) /\ Len(<<e>>) = 1 /\ <<e>>[1] = e
    BY <2>1
  <2>3. /\ frame \o <<e>> \in Seq(SlotType) /\ Len(frame \o <<e>>) = 5 + 1
        /\ \A i \in 1..5 : (frame \o <<e>>)[i] = frame[i]
        /\ \A i \in 1..1 : (frame \o <<e>>)[5 + i] = <<e>>[i]
    <3>1. IsJoin(frame \o <<e>>, frame, <<e>>)
      BY <1>1, <2>2, Joined
    <3>2. QED
      BY <1>1, <2>2, <3>1 DEF IsJoin
  <2>4. (frame \o <<e>>)[6] = e
    BY <2>2, <2>3
  <2>5. QED
    BY <1>1, <1>2, <1>3, <2>3, <2>4 DEF StubStack, e
<1>4. CASE vector \notin CpuErrorCodes
  <2>1. CpuPushes(vector, code) = frame
    BY <1>1, <1>2, <1>4, ConcatEmptySeq
  <2>2. QED
    BY <1>1, <1>4, <2>1 DEF StubStack
<1>5. QED
  BY <1>3, <1>4

LEMMA StubPushesTheRest ==
  ASSUME NEW vector \in Vectors, NEW code \in Int, vector \notin CpuErrorCodes => code = 0,
         NEW stack, StubStack(stack, vector, code)
  PROVE  WrapperStack(stack \o StubPushes(vector), vector, code)
<1> DEFINE e == Pushed("error_code", code)
           v == Pushed("int_no", vector)
<1>1. e \in SlotType /\ v \in SlotType
  BY PushedIsSlot DEF Vectors
<1>2. StubPushes(vector) = (IF vector \in CpuErrorCodes THEN << >> ELSE <<e>>) \o <<v>>
  BY AgreedCodes DEF StubPushes, Pushed, Slot
<1>3. stack \in Seq(SlotType) /\ \A i \in 1..5 : stack[i] = Slot(CpuFrame[i])
  BY DEF StubStack
<1> HIDE DEF e, v
<1>4. <<v>> \in Seq(SlotType) /\ Len(<<v>>) = 1 /\ <<v>>[1] = v
      /\ <<e>> \in Seq(SlotType) /\ Len(<<e>>) = 1 /\ <<e>>[1] = e
  BY <1>1
<1>5. CASE vector \in CpuErrorCodes
  <2>1. Len(stack) = 6 /\ stack[6] = e
    BY <1>5 DEF StubStack, e
  <2>2. StubPushes(vector) = <<v>>
    BY <1>2, <1>4, <1>5, ConcatEmptySeq
  <2>3. /\ stack \o <<v>> \in Seq(SlotType) /\ Len(stack \o <<v>>) = 6 + 1
        /\ \A i \in 1..6 : (stack \o <<v>>)[i] = stack[i]
        /\ \A i \in 1..1 : (stack \o <<v>>)[6 + i] = <<v>>[i]
    <3>1. IsJoin(stack \o <<v>>, stack, <<v>>)
      BY <1>3, <1>4, <2>1, Joined
    <3>2. QED
      BY <1>3, <1>4, <2>1, <3>1 DEF IsJoin
  <2>4. (stack \o <<v>>)[7] = v /\ (stack \o <<v>>)[6] = e
    BY <1>4, <2>1, <2>3
  <2>5. \A i \in 1..5 : (stack \o <<v>>)[i] = Slot(CpuFrame[i])
    BY <1>3, <2>3
  <2>6. QED
    BY <2>2, <2>3, <2>4, <2>5 DEF WrapperStack, e, v
<1>6. CASE vector \notin CpuErrorCodes
  <2> DEFINE t == <<e>> \o <<v>>
  <2>1. Len(stack) = 5
    BY <1>6 DEF StubStack
  <2>2. /\ t \in Seq(SlotType) /\ Len(t) = 1 + 1
        /\ \A i \in 1..1 : t[i] = <<e>>[i]
        /\ \A i \in 1..1 : t[1 + i] = <<v>>[i]
    BY <1>4, Joined
  <2>3. t[1] = e /\ t[2] = v /\ Len(t) = 2
    BY <1>4, <2>2
  <2>4. StubPushes(vector) = t
    BY <1>2, <1>6
  <2> HIDE DEF t
  <2>5. PICK w : w = stack \o t
    OBVIOUS
  <2>6. /\ w \in Seq(SlotType) /\ Len(w) = 5 + 2
        /\ \A i \in 1..5 : w[i] = stack[i]
        /\ \A i \in 1..2 : w[5 + i] = t[i]
    <3>1. IsJoin(stack \o t, stack, t)
      BY <1>3, <2>1, <2>2, <2>3, Joined
    <3>2. Len(stack) = 5 /\ Len(t) = 2 /\ IsJoin(w, stack, t)
      BY <2>1, <2>3, <2>5, <3>1
    <3>3. QED  BY <3>2 DEF IsJoin
  <2>7. w[6] = e /\ w[7] = v
    BY <2>3, <2>6
  <2>8. \A i \in 1..5 : w[i] = Slot(CpuFrame[i])
    BY <1>3, <2>6
  <2>9. WrapperStack(w, vector, code)
    BY <2>6, <2>7, <2>8 DEF WrapperStack, e, v
  <2>10. QED  BY <2>4, <2>5, <2>9
<1>7. QED
  BY <1>5, <1>6

LEMMA WrapperPushesRegisters ==
  ASSUME NEW vector, NEW code, NEW stack, WrapperStack(stack, vector, code)
  PROVE  HandlerStack(stack \o Slots(Pushes), vector, code)
<1>1. PICK saved \in Seq(SlotType) :
        saved = Slots(Pushes) /\ Len(saved) = 15 /\ \A i \in 1..15 : saved[i] = Slot(Pushes[i])
  BY FrameIsPushed, SlotsAre
<1>2. stack \in Seq(SlotType) /\ Len(stack) = 7
  BY DEF WrapperStack
<1>3. PICK w : w = stack \o saved
  OBVIOUS
<1>4. IsJoin(w, stack, saved)
  BY <1>2, <1>3, Joined
<1>5. /\ w \in Seq(SlotType) /\ Len(w) = 22
      /\ \A i \in 1..7 : w[i] = stack[i]
      /\ \A i \in 1..15 : w[7 + i] = saved[i]
  BY <1>1, <1>2, <1>4 DEF IsJoin
<1>6. \A i \in 1..15 : w[7 + i] = Slot(Pushes[i])
  BY <1>1, <1>5
<1>7. HandlerStack(w, vector, code)
  BY <1>5, <1>6 DEF WrapperStack, HandlerStack
<1>8. QED
  BY <1>1, <1>3, <1>7

(* The handler finds every register in its field. *)
LEMMA FieldsFound ==
  ASSUME NEW vector, NEW code, HandlerStack(trap.stack, vector, code)
  PROVE  /\ \A k \in DOMAIN Fields : Field(Fields[k]).reg = Fields[k]
         /\ Field("int_no").val = vector /\ Field("error_code").val = code
         /\ Len(trap.stack) % 2 = 0
<1>1. ASSUME NEW k \in 1..22 PROVE Field(Fields[k]) = trap.stack[23 - k]
  <2>1. (CHOOSE j \in DOMAIN Fields : Fields[j] = Fields[k]) = k
    BY FieldNames, FieldsDiffer
  <2>2. Field(Fields[k]) = trap.stack[Len(trap.stack) + 1 - k]
    BY <2>1 DEF Field
  <2>3. Len(trap.stack) = 22
    BY DEF HandlerStack
  <2>4. 22 + 1 - k = 23 - k
    OBVIOUS
  <2>5. QED
    BY <2>2, <2>3, <2>4
<1>2. Field("int_no") = trap.stack[7] /\ Field("error_code") = trap.stack[6]
  BY <1>1, FieldNames
<1>3. Field("int_no") = Pushed("int_no", vector) /\ Field("error_code") = Pushed("error_code", code)
  BY <1>2 DEF HandlerStack
<1>4. ASSUME NEW k \in 1..22 PROVE trap.stack[23 - k].reg = Fields[k]
  <2>1. CASE k \in 1..15
    <3>1. 16 - k \in 1..15 /\ 7 + (16 - k) = 23 - k /\ 16 - (16 - k) = k
      BY <2>1
    <3>2. trap.stack[23 - k] = Slot(Pushes[16 - k]) /\ Pushes[16 - k] = Fields[k]
      BY <3>1, Mirrored DEF HandlerStack
    <3>3. QED
      BY <3>2 DEF Slot
  <2>2. CASE k \in 18..22
    <3>1. 23 - k \in 1..5 /\ 23 - (23 - k) = k
      BY <2>2
    <3>2. trap.stack[23 - k] = Slot(CpuFrame[23 - k]) /\ CpuFrame[23 - k] = Fields[k]
      BY <3>1, Mirrored DEF HandlerStack
    <3>3. QED
      BY <3>2 DEF Slot
  <2>3. CASE k = 16 \/ k = 17
    BY <1>2, <1>3, <2>3, FieldNames DEF Pushed
  <2>4. QED
    BY <2>1, <2>2, <2>3
<1>5. Len(trap.stack) % 2 = 0
  BY DEF HandlerStack
<1>6. \A k \in DOMAIN Fields : Field(Fields[k]).reg = Fields[k]
  BY <1>1, <1>4, FieldNames
<1>7. Field("int_no").val = vector /\ Field("error_code").val = code
  BY <1>3 DEF Pushed
<1>8. QED
  BY <1>5, <1>6, <1>7

(* The exception on its way to the handler. *)
TrapOK ==
  /\ trap \in [at : {"none", "stub", "wrapper", "handler"}, vector : Vectors, code : Int,
               stack : Seq(SlotType)]
  /\ trap.vector \notin CpuErrorCodes => trap.code = 0
  /\ trap.at = "stub" => StubStack(trap.stack, trap.vector, trap.code)
  /\ trap.at = "wrapper" => WrapperStack(trap.stack, trap.vector, trap.code)
  /\ trap.at = "handler" => HandlerStack(trap.stack, trap.vector, trap.code)

LEMMA DeliverKeepsTrap ==
  ASSUME NEW vector \in Vectors, NEW code \in Int, Deliver(vector, code)
  PROVE  TrapOK'
<1> DEFINE c == IF vector \in CpuErrorCodes THEN code ELSE 0
<1>1. CASE vector \in gates
  <2>1. trap' = [at |-> "stub", vector |-> vector, code |-> c, stack |-> CpuPushes(vector, code)]
    BY <1>1 DEF Deliver
  <2>2. c \in Int /\ (vector \notin CpuErrorCodes => c = 0)
    OBVIOUS
  <2>3. CpuPushes(vector, code) = CpuPushes(vector, c)
    BY DEF CpuPushes
  <2> HIDE DEF c
  <2>4. StubStack(CpuPushes(vector, c), vector, c)
    BY <2>2, CpuStack
  <2>5. CpuPushes(vector, c) \in Seq(SlotType)
    BY <2>4 DEF StubStack
  <2>6. QED
    BY <2>1, <2>2, <2>3, <2>4, <2>5 DEF TrapOK
<1>2. CASE vector \notin gates
  BY <1>2 DEF Deliver, NoTrap, TrapOK, Vectors
<1>3. QED
  BY <1>1, <1>2

LEMMA StubKeepsTrap ==
  ASSUME TrapOK, exception_handler
  PROVE  TrapOK'
<1>1. /\ trap.at = "stub" /\ trap.vector \in Vectors /\ trap.code \in Int
      /\ StubStack(trap.stack, trap.vector, trap.code)
      /\ trap.vector \notin CpuErrorCodes => trap.code = 0
  BY DEF TrapOK, exception_handler
<1>2. PICK w : w = trap.stack \o StubPushes(trap.vector)
  OBVIOUS
<1>3. trap' = [trap EXCEPT !.at = "wrapper", !.stack = w]
  BY <1>2 DEF exception_handler
<1>4. WrapperStack(w, trap.vector, trap.code)
  BY <1>1, <1>2, StubPushesTheRest
<1>5. w \in Seq(SlotType)
  BY <1>4 DEF WrapperStack
<1>6. QED
  BY <1>1, <1>3, <1>4, <1>5 DEF TrapOK

LEMMA WrapperKeepsTrap ==
  ASSUME TrapOK, common_exception_wrapper
  PROVE  TrapOK'
<1>1. trap.at = "wrapper" /\ WrapperStack(trap.stack, trap.vector, trap.code)
      /\ (trap.vector \notin CpuErrorCodes => trap.code = 0)
  BY DEF TrapOK, common_exception_wrapper
<1>2. PICK w : w = trap.stack \o Slots(Pushes)
  OBVIOUS
<1>3. trap' = [trap EXCEPT !.at = "handler", !.stack = w]
  BY <1>2 DEF common_exception_wrapper
<1>4. HandlerStack(w, trap.vector, trap.code)
  BY <1>1, <1>2, WrapperPushesRegisters
<1>5. w \in Seq(SlotType)
  BY <1>4 DEF HandlerStack
<1>6. QED
  BY <1>1, <1>3, <1>4, <1>5 DEF TrapOK

LEMMA TrapIsSeen == TrapOK => HandlerSeesCpu
<1> SUFFICES ASSUME TrapOK, trap.at = "handler" PROVE HandlerSeesCpu
  BY DEF HandlerSeesCpu
<1>1. HandlerStack(trap.stack, trap.vector, trap.code)
  BY DEF TrapOK
<1>2. QED
  BY <1>1, FieldsFound DEF HandlerSeesCpu

LEMMA NextKeepsTrap == TrapOK /\ [Next]_vars => TrapOK'
<1> SUFFICES ASSUME TrapOK, [Next]_vars PROVE TrapOK'
  OBVIOUS
<1>1. \/ UNCHANGED trap \/ exception_handler \/ common_exception_wrapper
      \/ \E vector \in Vectors : Deliver(vector, 5)
  <2>1. CASE acpi_init_faults
    <3>1. {13, 14} \subseteq Vectors
      BY DEF Vectors
    <3>2. QED
      BY <2>1, <3>1 DEF acpi_init_faults, Fault, trapVars
  <2>2. CASE init_drivers_calls \/ Nmi
    <3>1. 14 \in Vectors /\ 2 \in Vectors
      BY DEF Vectors
    <3>2. QED
      BY <2>2, <3>1 DEF init_drivers_calls, Nmi, Fault, trapVars
  <2>3. CASE init_drivers_faults \/ TrapEntered
    BY <2>3 DEF init_drivers_faults, TrapEntered, Fault
  <2>4. CASE idt_init
    BY <2>4 DEF idt_init, idt_set_descriptors
  <2>5. CASE \/ request_asserts \/ fb_init \/ pmm_init \/ vmm_init \/ allocator_init
             \/ acpi_init_allocates \/ acpi_init_goes_on \/ acpi_init_reclaims
             \/ init_drivers \/ init_drivers_skips \/ init_drivers_returns \/ cleanup_drivers
             \/ halt_catchfire \/ c_exception_handler \/ UNCHANGED vars
    BY <2>5 DEF request_asserts, fb_init, pmm_init, vmm_init, allocator_init, acpi_init_allocates,
       acpi_init_goes_on, acpi_init_reclaims, init_drivers, init_drivers_skips,
       init_drivers_returns, cleanup_drivers, halt_catchfire, c_exception_handler, vars, trapVars
  <2>6. CASE DriverAllocates \/ DriverFrees \/ DriverUsesHeap \/ DriverCleansAcpi
    BY <2>6 DEF DriverAllocates, DriverFrees, DriverUsesHeap, DriverCleansAcpi, InitMeanwhile,
                trapVars
  <2>7. QED
    BY <2>1, <2>2, <2>3, <2>4, <2>5, <2>6 DEF Next, BootStep, Stopped
<1>2. CASE UNCHANGED trap
  BY <1>2 DEF TrapOK
<1>3. QED
  BY <1>1, <1>2, DeliverKeepsTrap, StubKeepsTrap, WrapperKeepsTrap

(* For every vector, at whatever instruction the exception comes: the      *)
(* stubs and the processor agree on who pushes an error code, so that the  *)
(* C handler finds every register, the vector and the error code in the    *)
(* fields of its argument, on an aligned stack (isr_stubs.asm:3-54).     *)
THEOREM HandlersSeeTheCpu == Spec => []HandlerSeesCpu
<1>1. Init => TrapOK
  BY DEF Init, TrapInit, NoTrap, TrapOK, Vectors
<1>2. QED
  BY <1>1, NextKeepsTrap, TrapIsSeen, PTL DEF Spec
=============================================================================

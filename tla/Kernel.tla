------------------------------- MODULE Kernel -------------------------------
(***************************************************************************)
(* The boot of the kernel: kmain (kernel/src/main.c) calls the components  *)
(* in a fixed order, any of which may end in kpanic (kernel/src/panic.c)   *)
(* or in an exception, and halts.  The PMM is the pool of frames that Pmm  *)
(* implements; the heap's blocks come from it; drivers are external code.  *)
(* One processor runs; a non-maskable interrupt may come at any time, once.*)
(***************************************************************************)
EXTENDS Exceptions, Drivers, Acpi, FiniteSets

CONSTANTS
  UsableFrames,
  AcpiFrame,   \* AcpiFrame[t] is the frame of the table t
  Machines     \* [missing, usable, vmm, firmware, drivers, exits]

Frames == UsableFrames \cup {AcpiFrame[t] : t \in Tables}

ASSUME KernelAssumption ==
  \A t \in Tables : AcpiFrame[t] \notin UsableFrames

VARIABLES
  machine,  \* the machine that boots; it never changes
  stage,    \* index of the routine of kmain in progress
  made,     \* page tables that vmm_init has made
  g_fb,     \* is the framebuffer in use?
  log,      \* what has been shown, of what properties need
  stopped,  \* "no", "halt", "panic", or "lost": no handler
  nmi,      \* has the non-maskable interrupt come?
  freed,    \* has pmm_free been called?  (for properties)
  user,     \* who took each frame from the PMM
  free, held, oom

pool == <<free, held, oom, user>>
kernelVars == <<machine, stage, made, g_fb, log, stopped, nmi, freed>>
vars == <<trapVars, driverVars, acpiVars, kernelVars, pool>>

Pool == INSTANCE FramePool

Init ==
  /\ machine \in Machines
  /\ TrapInit
  /\ DriversInit(machine.drivers, machine.exits)
  /\ AcpiInit(machine.firmware)
  /\ Pool!Init /\ user = [f \in Frames |-> "none"]
  /\ stage = 1 /\ made = 0 /\ g_fb = FALSE /\ log = {}
  /\ stopped = "no" /\ nmi = FALSE /\ freed = FALSE
-----------------------------------------------------------------------------
(* Variants with one plausible mistake each, never used below. *)
kmain_IdtLast ==
  <<"request_asserts", "fb_init", "pmm_init", "vmm_init", "allocator_init", "acpi_init",
    "init_drivers", "idt_init", "cleanup_drivers", "halt_catchfire">>
kmain_DriversFirst ==
  <<"request_asserts", "fb_init", "idt_init", "pmm_init", "vmm_init", "allocator_init",
    "init_drivers", "acpi_init", "cleanup_drivers", "halt_catchfire">>
Holds_NoMemmap(request) == request = "memmap" \/ request \notin machine.missing
FailureArguments_Named == <<"string", "int">>
StopsRunning_Never == stopped
-----------------------------------------------------------------------------
(* The calls of kmain. *)
kmain ==
  <<"request_asserts", "fb_init", "idt_init", "pmm_init", "vmm_init", "allocator_init",
    "acpi_init", "init_drivers", "cleanup_drivers", "halt_catchfire">>

At(routine) == stopped = "no" /\ trap = NoTrap /\ kmain[stage] = routine

Return == stage' = stage + 1

Shown(line) == log' = IF g_fb THEN log \cup {line} ELSE log

(* kpanic disables interrupts, prints its message and halts for good.      *)
StopsRunning == "panic"

kpanic(why) ==
  /\ stopped' = StopsRunning
  /\ Shown(<<"panic", why>>)
  /\ UNCHANGED <<machine, stage, made, g_fb, nmi, freed>>

(* An exception raised by the instruction that runs. *)
Fault(vector) ==
  /\ Deliver(vector, 5)
  /\ stopped' = IF vector \in gates THEN stopped ELSE "lost"

Requests == {"base_revision", "framebuffer", "memmap", "hhdm", "kernel_address", "rsdp"}

Holds(request) == request \notin machine.missing

ASSUME MachinesAssumption ==
  \A m \in Machines :
    /\ m.missing \subseteq Requests /\ m.usable \subseteq UsableFrames /\ m.vmm \in Nat
    /\ RootTable(m.firmware)
    /\ m.drivers \in Seq(DriverType({"null"}))
    /\ m.exits \in Seq([name : STRING, exit : STRING])

request_asserts ==
  /\ At("request_asserts")
  /\ UNCHANGED <<trapVars, driverVars, acpiVars, pool>>
  /\ \/ /\ \A r \in Requests : Holds(r)
        /\ Return /\ UNCHANGED <<machine, made, g_fb, log, stopped, nmi, freed>>
     \/ (\E r \in Requests : ~Holds(r)) /\ kpanic("assertion")

fb_init ==
  /\ At("fb_init")
  /\ g_fb' = TRUE
  /\ log' = log \cup {<<"info", "welcome">>}
  /\ Return
  /\ UNCHANGED <<trapVars, driverVars, acpiVars, pool, machine, made, stopped, nmi, freed>>

idt_init ==
  /\ At("idt_init")
  /\ idt_set_descriptors
  /\ Shown(<<"ok", "idt">>)
  /\ Return
  /\ UNCHANGED <<driverVars, acpiVars, pool, machine, made, g_fb, stopped, nmi, freed>>

(* Too little usable memory for the bitmap stops pmm_init (see PmmBoot). *)
pmm_init ==
  /\ At("pmm_init")
  /\ UNCHANGED <<trapVars, driverVars, acpiVars>>
  /\ \/ /\ machine.usable # {} /\ Pool!Donate(machine.usable) /\ UNCHANGED user
        /\ Return /\ UNCHANGED <<machine, made, g_fb, log, stopped, nmi, freed>>
     \/ machine.usable = {} /\ kpanic("no_region") /\ UNCHANGED pool

(* A frame from pmm_alloc, or the caller's assertion stops the kernel. *)
NewFrame(who) == \E f \in free : Pool!Take(f) /\ user' = [user EXCEPT ![f] = who]
OutOfFrames == Pool!TakeFails /\ kpanic("out_of_memory") /\ UNCHANGED user

vmm_init ==
  /\ At("vmm_init")
  /\ UNCHANGED <<trapVars, driverVars, acpiVars>>
  /\ \/ /\ made < machine.vmm /\ NewFrame("vmm")
        /\ made' = made + 1
        /\ UNCHANGED <<machine, stage, g_fb, log, stopped, nmi, freed>>
     \/ made < machine.vmm /\ OutOfFrames
     \/ /\ made = machine.vmm /\ Shown(<<"ok", "vmm">>) /\ Return
        /\ UNCHANGED <<pool, machine, made, g_fb, stopped, nmi, freed>>

allocator_init ==
  /\ At("allocator_init")
  /\ Return
  /\ UNCHANGED <<trapVars, driverVars, acpiVars, pool, machine, made, g_fb, log, stopped,
                 nmi, freed>>

(* kzalloc finds room in a page of the heap, or the heap grows by a page. *)
HeapPage ==
  \/ UNCHANGED pool
  \/ NewFrame("heap")

Quietly == UNCHANGED <<machine, stage, made, g_fb, log, stopped, nmi, freed>>

AcpiRuns == At("acpi_init") /\ UNCHANGED driverVars

acpi_init_allocates ==
  /\ AcpiRuns
  /\ \/ /\ handle_sdp \/ acpi_clone_table
        /\ HeapPage /\ Quietly /\ UNCHANGED trapVars
     \/ /\ \/ phase = "sdp" /\ firmware.checksum /\ Entries > 0
           \/ Cloning /\ Mapped(EntryAddress(Round)) /\ Table \notin firmware.empty
        /\ OutOfFrames /\ UNCHANGED <<acpiVars, trapVars>>

acpi_init_goes_on ==
  /\ AcpiRuns
  /\ UNCHANGED <<trapVars, pool>>
  /\ \/ (NoEntries \/ CloningEnds) /\ Quietly
     \/ /\ CloneEmpty /\ Shown(<<"error", "clone">>)
        /\ UNCHANGED <<machine, stage, made, g_fb, stopped, nmi, freed>>
     \/ /\ output_tables /\ Shown(<<"ok", "tables">>)
        /\ UNCHANGED <<machine, stage, made, g_fb, stopped, nmi, freed>>
     \/ ChecksumBad /\ kpanic("assertion") /\ UNCHANGED acpiVars

acpi_init_faults ==
  /\ AcpiRuns
  /\ \/ EntryFaults /\ \E vector \in {13, 14} : Fault(vector)
     \/ OutputFaults /\ Fault(14)
  /\ UNCHANGED <<acpiVars, pool, machine, stage, made, g_fb, log, nmi, freed>>

(* pmm_reclaim_acpi_pages, and acpi_init returns. *)
acpi_init_reclaims ==
  /\ AcpiRuns
  /\ PagesReclaimed
  /\ Pool!Donate({AcpiFrame[t] : t \in Tables}) /\ UNCHANGED user
  /\ Return
  /\ UNCHANGED <<trapVars, machine, made, g_fb, log, stopped, nmi, freed>>
-----------------------------------------------------------------------------
(* Drivers.                                                                *)

init_drivers ==
  /\ At("init_drivers")
  /\ link_driver_callbacks
  /\ UNCHANGED <<trapVars, acpiVars, pool, machine, stage, made, g_fb, log, stopped, nmi, freed>>

InitRuns == At("init_drivers") /\ linked

(* printf gets these arguments for these directives: %s takes a string,    *)
(* and a number in its place is an address that is not mapped.             *)
Printable(directives, arguments) ==
  \A k \in DOMAIN directives :
    directives[k] = "s" => k <= Len(arguments) /\ arguments[k] = "string"

FailureArguments == <<"int">>

init_drivers_skips ==
  /\ InitRuns /\ SkipInit
  /\ Quietly /\ UNCHANGED <<trapVars, acpiVars, pool>>

(* What an init handler returns is reported; a failure stops nothing. *)
init_drivers_calls ==
  /\ InitRuns /\ CallInit
  /\ UNCHANGED <<acpiVars, pool, machine, stage, made, g_fb, nmi, freed>>
  /\ \/ /\ drivers[d].init = "0"
        /\ Shown(<<"initialized", d>>) /\ UNCHANGED <<stopped, trapVars>>
     \/ /\ drivers[d].init \notin {"null", "0"}
        /\ IF Printable(<<"s", "d">>, FailureArguments)
           THEN Shown(<<"failed", d>>) /\ UNCHANGED <<stopped, trapVars>>
           ELSE Fault(14) /\ UNCHANGED log

(* An init handler may raise any exception. *)
init_drivers_faults ==
  /\ InitRuns /\ More /\ drivers[d].init = "fault"
  /\ \E vector \in Vectors : Fault(vector)
  /\ UNCHANGED <<driverVars, acpiVars, pool, machine, stage, made, g_fb, log, nmi, freed>>

init_drivers_returns ==
  /\ InitRuns /\ LoopEnds
  /\ Return
  /\ Shown(<<"ok", "drivers">>)
  /\ UNCHANGED <<trapVars, acpiVars, pool, machine, made, g_fb, stopped, nmi, freed>>

(* What init handlers may do meanwhile: take a page and write it, give it  *)
(* back, use the heap, clean up the ACPI tables.                           *)
InitMeanwhile ==
  /\ InitRuns /\ More /\ drivers[d].init # "null" /\ drivers[d].busy
  /\ UNCHANGED <<trapVars, driverVars>>

DriverAllocates ==
  /\ InitMeanwhile
  /\ \E f \in free :
       /\ Pool!Take(f) /\ user' = [user EXCEPT ![f] = "driver"]
       /\ page' = [t \in Tables |-> IF AcpiFrame[t] = f THEN "driver" ELSE page[t]]
  /\ Quietly
  /\ UNCHANGED <<firmware, table_count, tables, array, heap, content, phase>>

FrameGiven(who) ==
  /\ \E f \in held : user[f] = who /\ Pool!Give(f) /\ user' = [user EXCEPT ![f] = "none"]
  /\ freed' = TRUE
  /\ UNCHANGED <<machine, stage, made, g_fb, log, stopped, nmi>>

DriverFrees == InitMeanwhile /\ FrameGiven("driver") /\ UNCHANGED acpiVars

DriverUsesHeap ==
  /\ InitMeanwhile
  /\ kzalloc("driver")
  /\ content' = [content EXCEPT ![FreeBlock] = <<"driver", "new">>]
  /\ Quietly
  /\ UNCHANGED <<pool, firmware, page, table_count, tables, array, phase>>

(* Blocks of a page or more give their pages back. *)
DriverCleansAcpi ==
  /\ InitMeanwhile
  /\ acpi_cleanup
  /\ FrameGiven("heap") \/ (Quietly /\ UNCHANGED pool)

cleanup_drivers ==
  /\ At("cleanup_drivers")
  /\ UNCHANGED <<trapVars, acpiVars, pool, machine, made, g_fb, log, stopped, nmi, freed>>
  /\ \/ CleanupDriver /\ UNCHANGED stage
     \/ LoopEnds /\ Return

halt_catchfire ==
  /\ At("halt_catchfire")
  /\ stopped' = "halt"
  /\ UNCHANGED <<trapVars, driverVars, acpiVars, pool, machine, stage, made, g_fb, log, nmi, freed>>
-----------------------------------------------------------------------------
(* Exceptions.                                                             *)

(* A non-maskable interrupt, once, also while the finished kernel halts. *)
Nmi ==
  /\ ~nmi /\ trap = NoTrap /\ stopped \in {"no", "halt"}
  /\ nmi' = TRUE
  /\ Fault(2)
  /\ UNCHANGED <<driverVars, acpiVars, pool, machine, stage, made, g_fb, log, freed>>

TrapEntered ==
  /\ exception_handler \/ common_exception_wrapper
  /\ UNCHANGED <<driverVars, acpiVars, kernelVars, pool>>

c_exception_handler ==
  /\ trap.at = "handler" /\ stopped # "panic"
  /\ kpanic(Message)
  /\ UNCHANGED <<trapVars, driverVars, acpiVars, pool>>

(* hlt in an endless loop, or a machine without handler. *)
Stopped == stopped # "no" /\ UNCHANGED vars

(* What the processor goes on doing: init handlers return some time. *)
BootStep ==
  \/ request_asserts \/ fb_init \/ idt_init \/ pmm_init \/ vmm_init \/ allocator_init
  \/ acpi_init_allocates \/ acpi_init_goes_on \/ acpi_init_faults \/ acpi_init_reclaims
  \/ init_drivers \/ init_drivers_skips \/ init_drivers_calls \/ init_drivers_faults
  \/ init_drivers_returns \/ cleanup_drivers \/ halt_catchfire
  \/ TrapEntered \/ c_exception_handler

Next ==
  \/ BootStep
  \/ DriverAllocates \/ DriverFrees \/ DriverUsesHeap \/ DriverCleansAcpi
  \/ Nmi
  \/ Stopped

Spec == Init /\ [][Next]_vars /\ WF_vars(BootStep)
-----------------------------------------------------------------------------
(* The variables keep their types, and a frame has a user while it is held.*)
TypeOK ==
  /\ stage \in DOMAIN kmain /\ made \in 0..machine.vmm
  /\ stopped \in {"no", "halt", "panic", "lost"}
  /\ g_fb \in BOOLEAN /\ nmi \in BOOLEAN /\ freed \in BOOLEAN
  /\ gates \in {{}, Vectors}
  /\ heap \in [Blocks -> {"none", "acpi", "driver"}]
  /\ \A f \in Frames : user[f] # "none" <=> f \in held

(* What of the machine the kernel cannot boot with. *)
TablesTroubled ==
  LET fw == machine.firmware
      n == Len(fw.units)
  IN  \/ ~fw.checksum
      \/ fw.revision < 2 /\ (n > 1 \/ (n = 1 /\ fw.behind # "zero"))
      \/ \E k \in DOMAIN fw.units : fw.units[k] \in fw.empty

DriversTroubled == \E i \in DOMAIN machine.drivers : machine.drivers[i].init \notin {"null", "0"}

Troubled == machine.missing # {} \/ machine.usable = {} \/ TablesTroubled \/ DriversTroubled

(* The kernel boots to its end exactly on the machines it can boot on: a   *)
(* panic has one of the known causes, lack of memory or an interrupt, and  *)
(* none of the causes is ever passed over.                                 *)
BootOutcome ==
  /\ TypeOK
  /\ stopped = "halt" => ~Troubled
  /\ stopped = "panic" => Troubled \/ oom \/ nmi

(* Once the requests are answered, no stop is silent: whatever happens in  *)
(* any routine, the panic is on the screen, and no exception of the        *)
(* kernel's own comes before the gates are set (main.c:36-37).             *)
StopsVisibly ==
  /\ stopped = "panic" /\ machine.missing = {} => \E line \in log : line[1] = "panic"
  /\ stopped = "lost" => nmi

(* Pages are reclaimed before any page is freed: the order of calls under  *)
(* which Pmm (KernelSpec) loses no page.                                   *)
ReclaimPrecedesFrees == freed => phase \in {"done", "cleaned"}

(* A driver whose init fails is reported (api.c:13). *)
FailureIsReported ==
  \A i \in returned : drivers[i].init # "0" => <<"failed", i>> \in log

(* The tables of a firmware in good order are read without a fault: an     *)
(* RSDT's entries are 4 bytes, as handle_sdp counts them (table.c:74).     *)
SoundTablesAreRead ==
  LET fw == machine.firmware
  IN  fw.checksum /\ fw.empty = {} /\ kmain[stage] = "acpi_init" /\ ~nmi => trap = NoTrap

(* Whatever the machine, every boot comes to an end. *)
BootEnds == <>(stopped # "no")
=============================================================================

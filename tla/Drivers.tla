------------------------------ MODULE Drivers ------------------------------
(***************************************************************************)
(* The driver table of kernel/src/drivers/api.c: the linker gathers the    *)
(* entries that driver_init and driver_exit declare (api.h), the exit      *)
(* handlers are linked to the drivers by name, and two loops call the      *)
(* handlers.  Names and handlers are model values; init is what the init   *)
(* handler returns, "null" if there is none, "fault" if it never does, and *)
(* busy tells whether it uses the kernel's memory meanwhile.               *)
(***************************************************************************)
EXTENDS Integers, Sequences, FiniteSets

VARIABLES
  drivers,       \* from __drivers_start: [name, init, busy, exit]
  exit_entries,  \* from __drivers_exit_start: [name, exit]
  linked,        \* has link_driver_callbacks run?
  d,             \* the loops' index
  returned,      \* the drivers whose init has returned (for properties)
  exited         \* the exit handlers called so far     (for properties)

DriverType(exits) == [name : STRING, init : STRING, busy : BOOLEAN, exit : exits]

driverVars == <<drivers, exit_entries, linked, d, returned, exited>>

DriversInit(table, entries) ==
  /\ drivers = table /\ exit_entries = entries
  /\ linked = FALSE /\ d = 1 /\ returned = {} /\ exited = << >>

Matches(i) == {j \in DOMAIN exit_entries : exit_entries[j].name = drivers[i].name}
-----------------------------------------------------------------------------
(* Variants with one plausible mistake each, never used below. *)
ExitEntry_NoBreak(i) == CHOOSE j \in Matches(i) : \A k \in Matches(i) : k <= j
-----------------------------------------------------------------------------
(* The inner loop stops at the first entry with the driver's name. *)
ExitEntry(i) == CHOOSE j \in Matches(i) : \A k \in Matches(i) : j <= k

link_driver_callbacks ==
  /\ ~linked /\ linked' = TRUE
  /\ drivers' = [i \in DOMAIN drivers |->
       IF Matches(i) = {} THEN drivers[i]
       ELSE [drivers[i] EXCEPT !.exit = exit_entries[ExitEntry(i)].exit]]
  /\ UNCHANGED <<exit_entries, d, returned, exited>>

More == d \in DOMAIN drivers

(* One round of init_drivers: a driver without init is skipped. *)
SkipInit ==
  /\ linked /\ More /\ drivers[d].init = "null"
  /\ d' = d + 1
  /\ UNCHANGED <<drivers, exit_entries, linked, returned, exited>>

CallInit ==
  /\ linked /\ More /\ drivers[d].init \notin {"null", "fault"}
  /\ d' = d + 1
  /\ returned' = returned \cup {d}
  /\ UNCHANGED <<drivers, exit_entries, linked, exited>>

LoopEnds ==
  /\ linked /\ ~More
  /\ d' = 1
  /\ UNCHANGED <<drivers, exit_entries, linked, returned, exited>>

(* One round of cleanup_drivers: whether init ran or failed plays no role. *)
CleanupDriver ==
  /\ More
  /\ d' = d + 1
  /\ exited' = IF drivers[d].exit = "null" THEN exited ELSE Append(exited, drivers[d].exit)
  /\ UNCHANGED <<drivers, exit_entries, linked, returned>>
-----------------------------------------------------------------------------
(* The exit handler that driver_exit declared first for the driver's name. *)
DeclaredExit(i) ==
  IF Matches(i) = {} THEN "null"
  ELSE CHOOSE h \in {exit_entries[j].exit : j \in Matches(i)} :
         \E j \in Matches(i) : /\ exit_entries[j].exit = h
                              /\ \A k \in 1..j - 1 : exit_entries[k].name # drivers[i].name

(* The calls are the declared handlers of the drivers in S, in link order: *)
(* a handler's place is the number of drivers with one up to its own.      *)
InLinkOrder(calls, S) ==
  LET Having == {i \in S : DeclaredExit(i) # "null"}
  IN  /\ Len(calls) = Cardinality(Having)
      /\ \A i \in Having : calls[Cardinality({j \in Having : j <= i})] = DeclaredExit(i)

(* No exit handler is called before every init handler has returned, and   *)
(* exit handlers are called in link order, one for each driver that has    *)
(* one, the first declared under its name, whether or not it has an init.  *)
ExitsCalled ==
  exited # << >> =>
    /\ returned = {i \in DOMAIN drivers : drivers[i].init # "null"}
    /\ \/ InLinkOrder(exited, 1..d - 1)
       \/ d = 1 /\ InLinkOrder(exited, DOMAIN drivers)
=============================================================================

------------------------------ MODULE Library -------------------------------
(***************************************************************************)
(* kernel/src/utils: one call into the formatter or into the memory        *)
(* functions at a time.  They keep no state between calls, so every call   *)
(* is studied from its own beginning.                                      *)
(***************************************************************************)
EXTENDS Printf, MemUtils

NoCall == [fn |-> "none", format |-> <<"NUL">>, va |-> << >>, count |-> 0]
NoJob == [fn |-> "none", bytes |-> << >>]

MemIdle == job = NoJob /\ bytes = << >> /\ result = 0 /\ touched = {} /\ done = TRUE

FormatterIdle ==
  /\ call = NoCall /\ pos = 1 /\ va = << >> /\ idx = 0 /\ shown = << >>
  /\ mem = [i \in 0..MemSize - 1 |-> "old"]
  /\ status = "returned" /\ last = << >> /\ full = << >>

LibraryInit ==
  \/ Init /\ MemIdle
  \/ MemInit /\ FormatterIdle

LibraryNext ==
  \/ Next /\ UNCHANGED memVars
  \/ MemNext /\ UNCHANGED vars

LibrarySpec == LibraryInit /\ [][LibraryNext]_<<vars, memVars>>
=============================================================================

----------------------------- MODULE Exceptions -----------------------------
(***************************************************************************)
(* From an exception of the processor to the C handler: the gates that     *)
(* kernel/src/io/idt.c sets, the stubs of kernel/src/io/isr_stubs.asm and  *)
(* the stack they build, which c_exception_handler reads as a              *)
(* cpu_registers_x86_t.  A slot of the stack is a quadword: which register *)
(* it came from, and the value if the kernel looks at it.                  *)
(***************************************************************************)
EXTENDS Integers, Sequences

VARIABLES
  gates,  \* vectors with a gate in the table that lidt has loaded
  trap    \* the exception being delivered: [at, vector, code, stack]

trapVars == <<gates, trap>>

Vectors == 0..31
NoTrap == [at |-> "none", vector |-> 0, code |-> 0, stack |-> << >>]

Slot(reg) == [reg |-> reg, val |-> 0]
Slots(regs) == [k \in DOMAIN regs |-> Slot(regs[k])]

(* cpu_registers_x86_t, from the lowest address. *)
Fields == <<"rax", "rbx", "rcx", "rdx", "rsi", "rdi", "r8", "r9", "r10", "r11", "r12",
            "r13", "r14", "r15", "rbp", "int_no", "error_code",
            "rip", "cs", "rflags", "rsp", "ss">>

TrapInit == gates = {} /\ trap = NoTrap

(* The processor pushes an error code for these vectors. *)
CpuErrorCodes == {8, 10, 11, 12, 13, 14, 17, 21, 29, 30}

CpuPushes(vector, code) ==
  Slots(<<"ss", "rsp", "rflags", "cs", "rip">>)
  \o (IF vector \in CpuErrorCodes THEN <<[reg |-> "error_code", val |-> code]>> ELSE << >>)
-----------------------------------------------------------------------------
(* Variants with one plausible mistake each, never used below. *)
WithErrorCode_No21 == {8} \cup (10..14) \cup {17, 29, 30}
-----------------------------------------------------------------------------
(* The vectors whose stub pushes no zero of its own. *)
WithErrorCode == {8} \cup (10..14) \cup {17, 21, 29, 30}

StubPushes(vector) ==
  (IF vector \in WithErrorCode THEN << >> ELSE <<Slot("error_code")>>)
  \o <<[reg |-> "int_no", val |-> vector]>>

(* common_exception_wrapper. *)
Pushes == <<"rbp", "r15", "r14", "r13", "r12", "r11", "r10", "r9", "r8", "rdi", "rsi",
            "rdx", "rcx", "rbx", "rax">>

(* The loop of idt_init; then the table is loaded and interrupts are       *)
(* enabled, but the devices' ones stay masked.                             *)
Described == 0..31

idt_set_descriptors == gates' = Described /\ UNCHANGED trap

(* The processor finds a gate, or the machine is lost. *)
Deliver(vector, code) ==
  /\ trap' = IF vector \in gates
             THEN [at |-> "stub", vector |-> vector,
                   code |-> IF vector \in CpuErrorCodes THEN code ELSE 0,
                   stack |-> CpuPushes(vector, code)]
             ELSE NoTrap
  /\ UNCHANGED gates

exception_handler ==
  /\ trap.at = "stub"
  /\ trap' = [trap EXCEPT !.at = "wrapper", !.stack = @ \o StubPushes(trap.vector)]
  /\ UNCHANGED gates

common_exception_wrapper ==
  /\ trap.at = "wrapper"
  /\ trap' = [trap EXCEPT !.at = "handler", !.stack = @ \o Slots(Pushes)]
  /\ UNCHANGED gates

(* The handler's argument is the stack pointer.  *)
Field(name) ==
  LET k == CHOOSE k \in DOMAIN Fields : Fields[k] = name
  IN  trap.stack[Len(trap.stack) + 1 - k]

(* Which of its panics c_exception_handler ends in: it never returns, so   *)
(* the wrapper's pops and iretq are never reached.                         *)
Message == IF Field("int_no").val = 14 THEN "page_fault" ELSE "exception"
-----------------------------------------------------------------------------
(* The C handler finds every register in its field of the structure, the   *)
(* vector and the processor's error code (zero if it pushes none), and the *)
(* stack is aligned to 16 bytes at the call, as the C ABI demands: the     *)
(* stubs and the processor agree on who pushes an error code.              *)
HandlerSeesCpu ==
  trap.at = "handler" =>
    /\ \A k \in DOMAIN Fields : Field(Fields[k]).reg = Fields[k]
    /\ Field("int_no").val = trap.vector
    /\ Field("error_code").val = trap.code
    /\ Len(trap.stack) % 2 = 0
=============================================================================

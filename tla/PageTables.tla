----------------------------- MODULE PageTables -----------------------------
(***************************************************************************)
(* The kernel's page tables: vmm_init and the mapping functions of         *)
(* kernel/src/allocator/vmm.c, on frames from the PMM.  A table is a frame *)
(* with Fanout entries; a walk goes from the PML4 down, one level at a     *)
(* step, because each level may need a frame and so may stop the kernel.   *)
(* Addresses count pages.  An entry one level above the last one may map   *)
(* Fanout pages at once, as vmm_init does for the direct map, and is split *)
(* when one of these pages is mapped on its own.                           *)
(***************************************************************************)
EXTENDS Integers, Sequences, FiniteSets, FiniteSetsExt

CONSTANTS
  Levels,        \* levels of page tables
  Fanout,        \* entries of a table
  Frames,        \* frames that the PMM may have left for tables
  FreeSets,      \* which of them it has left when vmm_init is called
  PhysPages,     \* physical pages that an entry may map
  Devices,       \* those at which ranges begin that callers map
  MemoryPages,   \* end of the memory map, highest_phys
  DirectMap,     \* hhdm_offset
  KernelVirt, KernelPhys, KernelPages,   \* where the kernel's image lies
  FbPhys, FbPages,                       \* where the framebuffer lies
  MaxPages,      \* bound on the length of a caller's range
  MaxCalls       \* bound on the number of callers' requests

(* Pages that an entry of a table on level l covers; on level 0, the whole *)
(* address space.                                                          *)
Span[l \in 0..Levels] == IF l = Levels THEN 1 ELSE Fanout * Span[l + 1]

VPages == 0..Span[0] - 1

ASSUME TablesAssumption ==
  /\ Levels \in Nat \ {0, 1} /\ Fanout \in Nat \ {0, 1}
  /\ Frames \subseteq Nat \ {0} /\ FreeSets \subseteq SUBSET Frames
  /\ PhysPages \subseteq Nat /\ 0 \in PhysPages /\ Devices \subseteq PhysPages
  /\ \A p \in PhysPages : 0..p \subseteq PhysPages
  /\ {MemoryPages, KernelPhys, KernelPages, FbPhys, FbPages} \subseteq Nat
  /\ {DirectMap, KernelVirt} \subseteq VPages /\ DirectMap % Fanout = 0
  /\ MaxPages \in Nat /\ MaxCalls \in Nat

VARIABLES
  free, held, oom,   \* the PMM's pool of frames
  mem,               \* the frames that are used as tables, entry by entry
  root,              \* g_kernel_pagemap.pml4_phys, 0 before vmm_init
  active,            \* has CR3 been loaded with it?
  todo,              \* pages that the call in progress has still to do
  walk,              \* where its walk has come to
  watched, cached,   \* a page, and its translation in the TLB if it is there
  calls,             \* requests made by callers
  panicked           \* the assertion that stopped the kernel, or "no"

pool == <<free, held, oom>>
tlb == <<watched, cached>>
vars == <<pool, mem, root, active, todo, walk, tlb, calls, panicked>>

Pool == INSTANCE FramePool

Entry(kind, to, flags) == [kind |-> kind, to |-> to, flags |-> flags]
Absent == Entry("none", 0, "none")
Unmapped == [phys |-> 0, flags |-> "none"]

AtRoot(f) == [level |-> 1, table |-> f]

(* Frames hold whatever they were used for before.  The TLB is followed at *)
(* one page, any page, since its entries are independent of each other.    *)
Init ==
  /\ free \in FreeSets /\ held = {} /\ oom = FALSE
  /\ mem = [f \in Frames |-> [i \in 0..Fanout - 1 |-> Entry("page", 0, "w")]]
  /\ root = 0 /\ active = FALSE
  /\ todo = << >> /\ walk = AtRoot(0)
  /\ watched \in VPages /\ cached = Unmapped
  /\ calls = 0
  /\ panicked = "no"

Running == panicked = "no"

(* pmm_alloc: which frame it returns makes no difference here. *)
NewFrame == Min(free)
Takes == free # {} /\ Pool!Take(NewFrame) /\ UNCHANGED panicked
Fails(why) == Pool!TakeFails /\ panicked' = why
-----------------------------------------------------------------------------
(* In this module a definition with an underscore after the name of        *)
(* another one is that one with a plausible mistake; no action uses it.    *)
Request(op, v, p, flags) == [op |-> op, virt |-> v, phys |-> p, flags |-> flags]

div_ceil_Floor(a, b) == a \div b

div_ceil(a, b) == (a + b - 1) \div b

(* What the boot loader reports lies in the address spaces, and the image  *)
(* apart from the memory and the framebuffer in the direct map.            *)
ASSUME LayoutAssumption ==
  /\ \A p \in 0..div_ceil(MemoryPages, Fanout) * Fanout - 1 :
       DirectMap + p \in VPages /\ p \in PhysPages
  /\ \A i \in 0..KernelPages - 1 :
       KernelVirt + i \in VPages /\ KernelPhys + i \in PhysPages
  /\ \A i \in 0..FbPages - 1 :
       DirectMap + FbPhys + i \in VPages /\ FbPhys + i \in PhysPages
  /\ \A i \in 0..KernelPages - 1 :
       /\ \A p \in 0..MemoryPages - 1 : KernelVirt + i # DirectMap + p
       /\ \A j \in 0..FbPages - 1 : KernelVirt + i # DirectMap + FbPhys + j

(* vmm_init maps all memory, in huge pages, then the kernel's image and    *)
(* then, uncached and page by page, the framebuffer.                       *)
DirectMapRequests ==
  [i \in 1..div_ceil(MemoryPages, Fanout) |->
     Request("map_huge", DirectMap + (i - 1) * Fanout, (i - 1) * Fanout, "w")]

KernelRequests ==
  [i \in 1..KernelPages |->
     Request("map", KernelVirt + i - 1, KernelPhys + i - 1, "wx")]

FramebufferRequests ==
  [i \in 1..FbPages |->
     Request("map", DirectMap + FbPhys + i - 1, FbPhys + i - 1, "wc")]

Zeroed == [i \in 0..Fanout - 1 |-> Absent]

(* vmm_init begins: it takes and clears the PML4. *)
vmm_init ==
  /\ Running /\ root = 0
  /\ \/ /\ Takes
        /\ root' = NewFrame
        /\ mem' = [mem EXCEPT ![NewFrame] = Zeroed]
        /\ todo' = DirectMapRequests \o KernelRequests \o FramebufferRequests
        /\ walk' = AtRoot(NewFrame)
     \/ Fails("no_pml4") /\ UNCHANGED <<root, mem, todo, walk>>
  /\ UNCHANGED <<active, tlb, calls>>

(* vmm_init ends by loading CR3, which empties the TLB. *)
vmm_switch_pagemap ==
  /\ Running /\ root # 0 /\ ~active /\ todo = << >>
  /\ active' = TRUE
  /\ cached' = Unmapped
  /\ UNCHANGED <<pool, mem, root, todo, walk, watched, calls, panicked>>
-----------------------------------------------------------------------------
(* PML4_INDEX, PDPT_INDEX, PD_INDEX, PT_INDEX. *)
Index(v, level) == (v \div Span[level]) % Fanout

Now == Head(todo)
Depth == IF Now.op = "map_huge" THEN Levels - 1 ELSE Levels
Slot == Index(Now.virt, walk.level)
Here == mem[walk.table][Slot]

Walking == Running /\ todo # << >> /\ walk.level < Depth
Arrived(op) == Running /\ todo # << >> /\ walk.level = Depth /\ Now.op = op

Split_SamePage(e) == [i \in 0..Fanout - 1 |-> Entry("page", e.to, e.flags)]

(* A table with the translations that a huge entry had. *)
Split(e) == [i \in 0..Fanout - 1 |-> Entry("page", e.to + i, e.flags)]

Grown_Unlinked(f, contents) == [mem EXCEPT ![f] = contents]

(* A new table takes the place of the entry where the walk is. *)
Grown(f, contents) ==
  [mem EXCEPT ![walk.table][Slot] = Entry("table", f, "wu"), ![f] = contents]

Descends(f) == walk' = [level |-> walk.level + 1, table |-> f]

Grows(contents, why) ==
  \/ /\ Takes
     /\ mem' = Grown(NewFrame, contents)
     /\ Descends(NewFrame)
  \/ Fails(why) /\ UNCHANGED <<mem, walk>>

(* One request is done, the walk for the next one begins. *)
NextRequest ==
  /\ todo' = Tail(todo)
  /\ walk' = AtRoot(root)

(* One level of a walk.  Only the mapping functions have tables made, and  *)
(* huge entries split.                                                     *)
get_next_level ==
  /\ Walking
  /\ \/ /\ Here.kind = "table"
        /\ Descends(Here.to)
        /\ UNCHANGED <<pool, mem, todo, panicked>>
     \/ /\ Here.kind = "huge" /\ Now.op # "unmap"
        /\ Grows(Split(Here), "no_frame_for_split")
        /\ UNCHANGED todo
     \/ /\ Here.kind = "huge" /\ Now.op = "unmap"
        /\ panicked' = "huge_page"
        /\ UNCHANGED <<pool, mem, todo, walk>>
     \/ /\ Here.kind = "none" /\ Now.op # "unmap"
        /\ Grows(Zeroed, "no_frame_for_table")
        /\ UNCHANGED todo
     \/ /\ Here.kind = "none" /\ Now.op = "unmap"
        /\ NextRequest
        /\ UNCHANGED <<pool, mem, panicked>>
  /\ UNCHANGED <<root, active, tlb, calls>>

flush_if_active_Never(v) == UNCHANGED cached

(* invlpg, if the tables are the ones in use. *)
flush_if_active(v) == cached' = IF active /\ v = watched THEN Unmapped ELSE cached

(* The entry at the end of the walk is written. *)
Writes(e) ==
  /\ mem' = [mem EXCEPT ![walk.table][Slot] = e]
  /\ flush_if_active(Now.virt)
  /\ NextRequest
  /\ UNCHANGED <<pool, root, active, watched, calls, panicked>>

vmm_map_page == Arrived("map") /\ Writes(Entry("page", Now.phys, Now.flags))

vmm_map_page_2mb == Arrived("map_huge") /\ Writes(Entry("huge", Now.phys, Now.flags))

vmm_unmap_page == Arrived("unmap") /\ Writes(Absent)
-----------------------------------------------------------------------------
(* A caller asks for a range of pages, one page included. *)
Asks(v, n) ==
  /\ Running /\ active /\ todo = << >> /\ calls < MaxCalls
  /\ v + n - 1 \in VPages
  /\ calls' = calls + 1
  /\ UNCHANGED <<pool, mem, root, active, walk, tlb, panicked>>

vmm_map_range(v, p, n) ==
  /\ Asks(v, n)
  /\ p + n - 1 \in PhysPages
  /\ todo' = [i \in 1..n |-> Request("map", v + i - 1, p + i - 1, "wc")]

vmm_unmap_range(v, n) ==
  /\ Asks(v, n)
  /\ todo' = [i \in 1..n |-> Request("unmap", v + i - 1, 0, "none")]

(* The walk for a page in memory m, from the root r: the entry that        *)
(* decides it on each level.                                               *)
Resolved(m, r, v) ==
  LET resolved[l \in 0..Levels] ==
        IF l = 0 THEN Entry("table", r, "wu")
        ELSE IF resolved[l - 1].kind = "table"
        THEN m[resolved[l - 1].to][Index(v, l)]
        ELSE resolved[l - 1]
  IN  resolved

(* What a page translates to when e decides it. *)
TranslationBy(e, v) ==
  IF e.kind = "none" THEN Unmapped
  ELSE [phys |-> IF e.kind = "huge" THEN e.to + (v % Fanout) ELSE e.to,
        flags |-> e.flags]

Translate(v) ==
  IF root = 0 THEN Unmapped ELSE TranslationBy(Resolved(mem, root, v)[Levels], v)

(* The processor uses an address: its translation comes from the TLB or is *)
(* put there, at any moment, in the middle of a call too.                  *)
Access ==
  /\ Running /\ active
  /\ cached = Unmapped /\ Translate(watched) # Unmapped
  /\ cached' = Translate(watched)
  /\ UNCHANGED <<pool, mem, root, active, todo, walk, watched, calls, panicked>>

(* An address that is not mapped is used. *)
vmm_page_fault_handler ==
  /\ Running /\ active
  /\ cached = Unmapped /\ Translate(watched) = Unmapped
  /\ panicked' = "page_fault"
  /\ UNCHANGED <<pool, mem, root, active, todo, walk, tlb, calls>>

halt_catchfire == ~Running /\ UNCHANGED vars

(* Callers have made as many requests as the bound allows. *)
Rests == Running /\ todo = << >> /\ calls = MaxCalls /\ UNCHANGED vars

Calls ==
  \E v \in VPages, n \in 1..MaxPages :
    vmm_unmap_range(v, n) \/ \E p \in Devices : vmm_map_range(v, p, n)

InCall == get_next_level \/ vmm_map_page \/ vmm_map_page_2mb \/ vmm_unmap_page

Next ==
  \/ vmm_init \/ InCall \/ vmm_switch_pagemap
  \/ Calls \/ Access \/ vmm_page_fault_handler
  \/ halt_catchfire \/ Rests

Spec == Init /\ [][Next]_vars
-----------------------------------------------------------------------------
Flags == {"none", "w", "wx", "wc", "wu"}

TypeOK ==
  /\ free \subseteq Frames /\ held \subseteq Frames /\ oom \in BOOLEAN
  /\ mem \in [Frames -> [0..Fanout - 1 ->
       [kind : {"table"}, to : Frames, flags : Flags]
         \cup [kind : {"none", "huge", "page"}, to : PhysPages, flags : Flags]]]
  /\ root \in Frames \cup {0} /\ active \in BOOLEAN
  /\ \A i \in DOMAIN todo :
       todo[i] \in [op : {"map", "map_huge", "unmap"}, virt : VPages,
                    phys : PhysPages, flags : Flags]
  /\ walk \in [level : 1..Levels, table : Frames \cup {0}]
  /\ watched \in VPages
  /\ cached \in [phys : PhysPages, flags : Flags]
  /\ calls \in 0..MaxCalls
  /\ panicked \in {"no", "no_pml4", "no_frame_for_split", "no_frame_for_table",
                   "huge_page", "page_fault"}

Links == {l \in held \X (0..Fanout - 1) : mem[l[1]][l[2]].kind = "table"}
Target(l) == mem[l[1]][l[2]].to

(* The frames that the PMM gave out for tables are the PML4 and the tables *)
(* that one entry each leads to: none is leaked by a split or shared by    *)
(* two entries, also when a call is cut short.                             *)
TablesAccountedFor ==
  /\ TypeOK
  /\ held = {Target(l) : l \in Links} \cup ({root} \ {0})
  /\ \A l, m \in Links : Target(l) = Target(m) => l = m
  /\ \A l \in Links : Target(l) # root

(* What the TLB holds for a page is what the tables say, at every moment:  *)
(* a split, in the middle of which the huge entry is gone and nothing was  *)
(* flushed yet, does not make it stale.                                    *)
TlbCoherent == cached # Unmapped => cached = Translate(watched)

(* When the tables come into use, all memory is reached through the direct *)
(* map, or every table would be out of reach; the kernel's image is where  *)
(* it runs; and the framebuffer is not cached.                             *)
Reached(v, p) == Translate(v) # Unmapped /\ Translate(v).phys = p

ReadyWhenActive ==
  [][~active /\ active' =>
       /\ \A p \in 0..MemoryPages - 1 : Reached(DirectMap + p, p)
       /\ \A i \in 0..KernelPages - 1 : Reached(KernelVirt + i, KernelPhys + i)
       /\ \A p \in 0..MemoryPages - 1 :
            Translate(DirectMap + p).flags = "wc" <=> p \in FbPhys..FbPhys + FbPages - 1]_vars

(* The tables implement the address space that vmm.h offers: each request  *)
(* changes the translation of the page it names and of no other one, and   *)
(* splitting an entry, making a table or failing changes none.             *)
Space == [v \in VPages |-> Translate(v)]

Promise == INSTANCE AddressSpace WITH
  HugePages <- Fanout, space <- Space, pending <- todo

ImplementsAddressSpace == Promise!Spec
=============================================================================

# A TLA+ model of BalbDOS

BalbDOS is a small x86-64 kernel booted by Limine. This directory models the
parts of it that carry state and can go wrong in ways a test would hardly
reach, checks them with TLC on small instances, and proves what it can for
every instance with TLAPS. Paths below are relative to the repository
(`kernel/src/...` is `src/kernel/src/...` for the map in `PROJECT.json`).

## The system

The kernel is single-threaded. `kmain` (`kernel/src/main.c`) runs a fixed
sequence: check the boot loader's answers, framebuffer, interrupt table, PMM,
VMM, slab allocator, ACPI tables, drivers; then it halts. There is no
scheduler yet, no device interrupt is enabled, and every processor exception
and every failed `kassert` ends in `kpanic`, which never returns. What makes
the code hard is therefore not concurrency but long sequences of legal calls:
lists threaded through memory that others own, state repaired by one function
and assumed by another, arithmetic at the edges of a type, and failures in the
middle of a call that has already changed something.

| Component | State it keeps | Operations | What makes it correct |
|---|---|---|---|
| Physical memory manager (`allocator/pmm.c`) | head, tail and size of a list threaded through the first word of every free page; a bitmap of free frames; the edited memory map | `pmm_init`, `pmm_alloc`, `pmm_free`, two reclaims | a page has one owner; the list is intact whatever owners write; double frees are caught, nothing else is; no page is lost; the bitmap covers every page and is itself never handed out |
| VMM, kernel heap (`allocator/vmm.c`) | bump pointer, 256 slots of free ranges, page tables | `vmm_alloc`, `vmm_free` | pages below the bump pointer are live or free, never both; mapped exactly while live; every frame has one use |
| VMM, pagemaps (`allocator/vmm.c`) | four-level tables, huge entries, the active table and the TLB | map and unmap a page, a range, a 2 MB page; `vmm_init`; switch | a mapping changes one translation only; splitting a huge page keeps the other 511; no stale translation in the active map |
| Slab allocator (`allocator/slab.c`) | eight free lists threaded through the chunks, a header with a magic number before each | `kmalloc`, `kzalloc`, `krealloc`, `kfree` | live blocks never overlap, are large enough, keep their contents; frees are caught when repeated |
| ACPI (`acpi/table.c`) | array of cloned tables | `acpi_init`, `acpi_cleanup` | every table is cloned before its pages are reclaimed, and the clone survives it; no entry is read beyond the root table |
| Drivers (`drivers/api.c`) | two linker sections | link, init, cleanup | handlers run in link order, every exit after every init; failures are reported |
| Console (`fb/fbtext.c`, `utils/printk.c`) | cursor, pixels | put a character, scroll, clear, log | what was printed is what is seen, and no other memory changes |
| Formatted output (`utils/printf.c`) | none between calls | the `printf` family, `formatsize` | the text is what C says; a buffer is never overrun |
| Memory functions (`utils/memory.c`) | none | `memset`, `memcpy`, `strlen` | equal to their byte-wise definitions |
| Exceptions (`io/idt.c`, `io/isr_stubs.asm`) | descriptor table | `idt_init`, stubs, handler | the handler sees the registers of the code that was interrupted |
| Boot and panic (`main.c`, `panic.c`, `limine/limine.c`) | none | `kmain`, `kpanic` | the boot ends exactly where it must, and never silently |

Interactions: the slab takes pages from the VMM, the VMM takes frames from the
PMM, the ACPI code clones into the slab and then gives its old pages to the
PMM. All shared state is reached by calls; the one exception is memory itself,
since both allocators keep their lists inside the memory they manage.

## Modules

| Module | Models | Abstract specification it implements |
|---|---|---|
| `FramePool` | what `pmm.h` promises: a pool of frames | |
| `Pmm` | `pmm.c`: list, tail, bitmap, assertions | `FramePool` |
| `PmmBoot` | the arithmetic of `pmm.c`: sizing and placing the bitmap, cutting regions into pages, with the widths of `int` and `size_t` | |
| `PageHeap` | what `vmm_alloc`/`vmm_free` promise: disjoint runs of privately backed pages, the starts of which never lie inside a later run | |
| `AddressSpace` | what the mapping functions of `vmm.h` promise: one function from pages to pages, changed by one request at a time | |
| `PageTables` | the other half of `vmm.c`: tables, huge entries, `vmm_init`, the TLB | `AddressSpace` |
| `VmmHeap` | the heap half of `vmm.c`, taking frames from `FramePool` | `PageHeap` |
| `BlockHeap` | what `kmalloc` and its companions promise: disjoint blocks that keep their contents | |
| `Slab` | `slab.c`, taking pages from `PageHeap` | `BlockHeap` |
| `TextScreen` | what the console promises: a grid of characters that scrolls | |
| `Console` | `fbtext.c` and `printk.c`: pixels, cursor, log lines | `TextScreen` |
| `Printf` | `printf.c` and `formatsize` | |
| `MemUtils` | `memset`, `memcpy`, `strlen` of `memory.c` | |
| `Library` | a call into `Printf` or into `MemUtils` | |
| `Exceptions` | `idt.c`, `isr_stubs.asm` and the processor's part of an exception | |
| `Drivers` | `drivers/api.c` | |
| `Acpi` | `acpi/table.c` | |
| `Kernel` | `main.c`, `panic.c`, `limine.c`: composes `Exceptions`, `Drivers`, `Acpi` and `FramePool` | |
| `PmmProofs`, `PmmBootProofs`, `VmmHeapProofs`, `PageTablesProofs`, `SlabProofs`, `ConsoleProofs` | proofs about the modules they are named after | |
| `LibraryProofs` | proofs about `Printf` and `MemUtils` | |
| `KernelProofs` | proofs about `Kernel` and its parts `Acpi`, `Drivers` and `Exceptions` | |
| `MCPmm`, `MCPmmBoot`, `MCPageTables`, `MCVmmHeap`, `MCSlab`, `MCConsole`, `MCText`, `MCKernel` | instances for TLC | |

The chain is deliberate: `Pmm` implements `FramePool`, `VmmHeap` uses
`FramePool`'s actions for every call it makes to the PMM and implements
`PageHeap`, `Slab` uses `PageHeap`'s actions for every call it makes to the
VMM and implements `BlockHeap`. `Kernel` takes frames from `FramePool` too, and
`ReclaimPrecedesFrees`, which it checks for the whole boot, is the order of
calls that `Pmm`'s `KernelSpec` assumes.

### Pmm

A frame is a number; zero is the null address. `head`, `tail`, `size`,
`bitmap` are the static variables of `pmm.c`, and `word[f]` is the first word
of page `f`: the list's link while the page is free, and whatever its owner
writes (`OwnerWrites`) while it is not. `word[0]` is the word at physical
address zero, which a wrong tail could reach. Each function is one step,
because nothing interrupts it. `held`, `claimed`, `freed`, `misfreed`, `oom`
record what callers have seen and done; no action of the PMM reads them,
except that each region type is claimed at most once (`claimed`), which is how
the kernel uses the reclaims.

`Spec` lets callers use `pmm.h` in any order, frees of free pages included.
`KernelSpec` adds the order that `kmain` fixes: the ACPI pages are reclaimed
before the first free. The distinction matters, see the findings.

A region is the sequence of its pages. How many there are, and whether the
bitmap has a bit for each, is the business of `PmmBoot`, where addresses are
byte addresses, `div_ceil` and `div_floor` truncate to `int` as in the code,
a sum that overflows may come out wrapped or exact, and the first usable
region that fits loses its front to the bitmap. A claim stops at the first
page whose bit is missing or set. The widths are given as numbers of values
(`IntValues` is 2^32 in the code, `SizeValues` 2^64).

### PageTables

A table is a frame with `Fanout` entries and a walk has `Levels` levels; the
kernel has 512 and 4. `todo` is the list of pages that the call in progress
still has to map or unmap: for `vmm_init` the direct map in huge entries, the
image, the framebuffer; for a range its pages. A step is one level of one walk
(`get_next_level` descends, makes a table, splits a huge entry, or fails) or
the write and flush at its end. Fresh frames hold entries that look valid, so
a table that is not cleared would be noticed. `Span` is what an entry of each level
covers, and the index of a page on a level follows from it, as in the macros
`PML4_INDEX` to `PT_INDEX`. `Translate` is the processor's walk: `Resolved` is
the entry that decides a page on each level, and `TranslationBy` what the last of
them makes of it. The TLB may take in a translation between any two steps (`Access`); its
entries are independent, so one page, chosen at the start, is followed. `invlpg` is
assumed to drop that page alone, the least it does.

`LayoutAssumption` says of the boot loader that what `vmm_init` maps lies in
the address spaces, and that the kernel's image is not in the direct map of
memory or framebuffer. The framebuffer may lie in memory, and then its pages are
mapped twice by `vmm_init`, first in a huge page.

Physical addresses stand for pages here: which region a frame lies in is the
business of `Pmm`, and tables are read by their frame, not through the direct
map.

### VmmHeap

Pages of the heap are numbered from `VMM_HEAP_START`; callers ask for runs of
at least one page, as the slab does. A call is several steps, because every
request to the PMM in it may stop the kernel half-way: choose the range
(`vmm_alloc`: first fit in the slots, else the bump pointer), then per page
take a frame (`vmm_map_new_pages`), take a frame for each table missing on the
page's walk (`get_next_level`), write the entry (`vmm_map_page`), and return.
`vmm_free` gives back and unmaps one page per step, then records the range.
`call` holds the call in progress; no other call can begin before it ends.
Which frame the PMM returns is left open. After `vmm_init` the PML4 is in place
and the heap's part of it is empty; the huge mappings never overlap the heap.
So the walk of a page is a sequence of ordinary tables below the PML4, each
taken from the PMM when a page first needs it.

A free address range is cut when it is reused and never joined with another
one. `PageHeap` promises what follows from that: a page where a run began
(`starts`) never comes to lie inside a later run. The allocator above depends
on it: `kfree` reads a header in front of whatever pointer it is given, and
only this promise makes that header the first word of a run, or unmapped, when
the pointer is stale.

### Slab

`mem` is the memory of the heap, cell by cell, because that is where `slab.c`
keeps its headers and its free lists. A cell holds a number, or a header; the
magic numbers are the header's kind. An address is a number as in the code, so
overlap, capacity and the position of a chunk in its page are computed, not
assumed. A fresh page, and a page that was given back, hold `Unknown`.

`kmalloc`, `kzalloc` and `krealloc` are several steps, since the VMM may stop
the kernel in between: the call, `bucket_grow` when the bucket's list is empty,
taking the first chunk or a run of pages, and the return, in which `kzalloc`
clears the block and `krealloc` copies and frees the old one. `call` is the call
in progress. `kfree` is one step. `RawPages` adds in a `size_t`.

Callers may pass `kfree` and `krealloc` every pointer they were ever given,
live or stale (`Returnable`). A stale pointer whose chunk has been handed out
again is the one misuse that no header can reveal: it is live again, and counts
as the new owner's. `misused` records that a pointer was passed that is not
live, and `StopsIffMisused` says that this never goes unnoticed and that
nothing else is taken for it. NULL is left out: `kfree` ignores it and
`krealloc` answers it as `kmalloc` does.

### Console

`mem` is the framebuffer pixel by pixel, with what lies between the visible
width and the pitch and a few pixels behind it. A call queues characters with
their colours (`todo`); each `fb_putchar` is a step, with the drawing, the
cursor and the scrolling it causes. A log line is its tag in colour, its text
and a newline that `printk.c` prints in black on black. `fb_scroll` moves every
row of pixels up by the height of the font, the padding included, as the code
does, and clears the last `FBFONT_HEIGHT` rows of the frame, which are not the
rows of the last line if the height is no multiple of the font's. That what is
seen is still right is the refinement of `TextScreen`, together with
`StripIsPaper`. Nothing is printed before `fb_init`. The refinement and
`StripIsPaper` are about the default theme, in which the paper is the black that
the log functions print their newline in.

### Printf, MemUtils, Library

A step of `Printf` is one round of the loop in `_vsnprintf`: a character
copied, or a directive read (`Directive`: flags, width, precision, length) and
converted. Numbers are converted as the code does it, digit by digit from the
back into a buffer of limited size (`ntoa_format`), because the properties are
about that buffer. The two loops over a string are loops (`CharsRead`), which
test the character before the count as the code does. `AgreesWithC` compares each
conversion with what the C standard says of it (`CText`), of the directive as the
caller wrote it (`CDirective`: to C a negative precision is none), and says exactly
when they differ:

* `CutToBuffer`: digits, zeros, prefix and sign together are longer than 32
  characters, and the front is lost (that of a 64-bit number in binary, if its
  upper half is not zero); it does not show if the front is only the blank of
  the flag for it, and the width prints one there;
* `PrecisionLostWhenLeft`: with `-`, the zeros of the precision are not printed;
* `DigitsLostToPrefix`: with `#`, up to two characters are dropped to make room
  for the prefix when the number is just as long as its width (they are meant
  to be padding zeros, but can be digits: `%#4x` of 0x1234);
* `BinaryOneTooWide`, `OctalZero`: a prefix that is one character longer, or
  missing, or put before a zero of the precision that would do;
* `NegativeIsZero`: a precision given by a negative argument counts as zero
  (`printf.c:674-675`), where C 7.21.6.1 takes it as omitted: zero has no digit,
  other numbers lose their padding zeros, and of a string nothing is printed (that
  does not show if it is blanks and the width prints as many).

The first five are `Exceptional`. `ReadsLikeC` says which characters `%s` looks at:
those up to the NUL, or up to the precision that C sees and one more, but up to the
NUL if that precision is zero. `FormatSize` says that `formatsize` cuts its decimal,
and that the text is the one that `memory.h:18` documents, whose "2200 becomes 2.2K"
rounds up, just for whole numbers of tenths. In the calls of the run `text` a
negative precision meets integers of every base, strings and characters, and the sizes
are of both kinds.

No format in the repository is of these kinds. A format that ends in the middle
of a directive makes the walk go on behind its terminator; the model stops
there (`overrun`).

`MemUtils` takes each call as a step on a memory of bytes, computed as the code
does, the bytes up to a word boundary, the words, the bytes that are left;
`strlen` also records what it reads. Addresses count bytes, and memory consists
of whole words, as pages do; ranges are in memory, those of `memcpy` do not
overlap, a string has an end (`JobsAssumption`): outside of that C promises
nothing. `Library` puts both into one specification.

### Kernel, Acpi, Drivers, Exceptions

`stage` is the routine of `kmain` in progress. A machine (`Machines`) is what
the kernel cannot choose: which answers of the boot loader are missing, how
much memory there is, the shape of the firmware's tables, the drivers that were
linked. Any call that takes a frame may stop the kernel, each table is a step,
and any step may be followed by a non-maskable interrupt, once. `Acpi` reads
the root table in 32-bit units, which is what makes the difference between an
RSDT and an XSDT visible: an address is two units, and is valid if the first
names a table and the second is zero. Clones live in blocks of `kzalloc`, whose
promise (`BlockHeap`) is used rather than `Slab` itself; the heap may take a
frame with any block. Reclaiming writes a link into each table's page and gives
it to the pool, from which a driver can get it and write on.

What a driver does in its init handler is not the repository's code: the model
lets it take pages and write them, give them back, use the heap, clean up the
ACPI tables, return success or failure, or raise any of the 32 exceptions. Exit
handlers are only recorded, nothing runs after them that could notice.

An exception is followed slot by slot from the processor's frame through the
stub and the wrapper to the structure that the handler reads. Both endings of
`c_exception_handler` are panics, so the wrapper never returns (its pops and
`iretq` are dead code, and not modelled).

`ExitsCalled` compares the calls that were made with the entries as they were
declared: a handler's place among the calls is the number of drivers up to its
own that have one (`InLinkOrder`). A driver's entry has no exit handler before
`link_driver_callbacks` sets it (`api.h:59`).

Assumed of the outside: the boot loader masks the devices' interrupts before
the kernel enables interrupts; a root table is at least as long as its header
and consists of whole entries; tables lie below 4 GB; no entry is null
(`RootTable`, which leaves open what lies behind the root table). A heap page is
one frame: the tables that map it are `VmmHeap`'s business.

## Runs

| Run | Checks | Instance and bounds |
|---|---|---|
| `pmm_kernel_order` | `FreelistSound`, `OneOwner`, `PanicIffDoubleFree`, `NoPageLost`, `OwnedPagesUntouched`, refinement of `FramePool`, under `KernelSpec` | five frames in regions of 2, 2 and 1; owners write a frame's address or a value that is none |
| `boot_small_memory` | `ClaimsSucceed`, `BitmapNotHandedOut`, `RegionsCutExactly`, `RoomPanicIsReal` | `int` of 7 bits, `size_t` of 9, pages of 4 bytes, a bitmap byte per 2 frames; some 7000 maps of three regions that end below 60 |
| `boot_above_int` | finds `RoomPanicIsReal` violated | the same with maps that end as high as 250 |
| `page_tables` | `TablesAccountedFor`, `TlbCoherent`, `ReadyWhenActive`, refinement of `AddressSpace` | three levels of two entries, eight pages; three pages of memory with the framebuffer in the second; up to seven frames; two calls of one or two pages anywhere |
| `vmm_heap` | `HeapPartition`, `MappedIffLive`, `FramesAccountedFor`, refinement of `PageHeap`, `CallsEnd` | five pages, two per table, one table above; five frames; three slots; runs of 1 to 3 pages |
| `vmm_slots` | finds `SlotPanicIsReal` violated | the same with seven pages, six interchangeable frames, four slots |
| `slab` | `FreeListsExact`, `BlocksApart`, `PagesAccountedFor`, `StopsIffMisused`, refinement of `BlockHeap` | three pages of five cells, headers of one cell; two buckets, two chunks and one chunk to a page; three blocks; sizes 1, 2 and 6 (a run of two pages); fresh pages hold what an owner could have written; 620,000 states |
| `console` | `OnlyVisiblePixels`, `StripIsPaper`, refinement of `TextScreen` | a font of 2 x 2 on 7 x 7 visible pixels with a pitch of 10: three lines of three characters; characters, newlines, returns, tabs to behind the edge and log lines |
| `text` | `TruncatedLikeC`, `ReadsLikeC`, `FormatSize`, `AgreesWithC`, `MemoryAsByBytes`, `StrlenExact` | integers of 4, 8, 12 and 24 bits, a conversion buffer of 12; every conversion with sets of flags, widths, precisions, lengths and values, some of which fill that buffer; a mixed format cut at every count; words of four 4-bit bytes, every alignment and length up to 11 |
| `kernel` | `HandlerSeesCpu`, `ClonesIntact`, `ExitsCalled`, `BootOutcome`, `StopsVisibly`, `ReclaimPrecedesFrees`, `BootEnds` | 20 machines: one that boots, and others with a request missing, 0 to 2 usable frames, RSDTs and XSDTs of every shape, drivers that fail, fault or are busy; 143,000 states |
| `acpi_rsdt` | finds `SoundTablesAreRead` violated | the same |
| `driver_failure` | finds `FailureIsReported` violated | the same |

Type invariants of `PmmBoot`, `PageTables`, `Slab`, `Console`, `Printf` and
`Kernel` are the first conjunct of one of the properties above (of
`ClaimsSucceed`, `TablesAccountedFor`, `FreeListsExact`, `OnlyVisiblePixels`,
`TruncatedLikeC` and `BootOutcome`); those of `Pmm` and `VmmHeap`, and
`SizeCountsFree` and `ZeroMeansOutOfMemory` of `Pmm`, are proved for every
instance.

Why the bounds are enough. Of all passing runs but `text` the safety properties,
and all refinements, are also proved for every instance (under the hypotheses
named below), so the bounds matter for finding mistakes, for liveness and for
`text`. Two regions of two pages already have a first and
a last page that differ, a link inside the region, a link from an older tail,
and the list can become empty and be refilled in another order before the
third region is claimed. In `PmmBoot` the scaled widths keep the ratios that
matter: bitmaps of one to three pages, regions that are smaller than, equal to
and larger than the bitmap, and addresses on both sides of the largest `int`.
In `PageTables` the memory's end is rounded up, the framebuffer splits the first
huge entry before the switch, callers split the last one after it, unmap a
huge entry, unmap where there is no table, and share tables; frames run out at
each place where one is taken. A third level is needed for a table to be made
above the level of huge entries; more levels or entries repeat the same step.
In `VmmHeap` a heap of five pages over three tables lets a run cross tables,
a free range be split twice and be used up exactly, and frames, slots and
addresses each run out, in every step in which they can. In `Slab` three blocks
fill one bucket's first page and make it grow again while its list has a
history, so that links cross pages; a two-page run can be given back, become a
bucket's page or half of another run; a block moves from each bucket to the
next and to a run; pages run out in every call that needs them.

In `Console` three lines and columns have a first, a middle and a last one;
both strips and the padding are there, and tabs lead far enough to the right
that an unclipped glyph would land on the next row of pixels. In `text` the
widths keep the ratios that matter: an `int` in binary fills the conversion
buffer exactly, a `long` does not fit, sizes reach the last unit with more than
one digit. In `Kernel` two tables are the fewest from which an address can be
put together wrongly, five frames let the pool run out in every routine and a
driver get a table's page; the heap of four blocks is the array, two clones and
one more.

Fairness is used in two places: weak fairness of the steps of a call in
progress in `VmmHeap` (`InCall`), and of the steps of the boot in `Kernel`
(`BootStep`). The processor executes the kernel's only thread; nothing can
preempt it but an exception, the steps of which are boot steps too. In `Kernel`
this includes that init handlers return or fault some time, which is all the
kernel can hope for: it calls them and waits. No fairness is assumed of callers
of the allocators or of what drivers do meanwhile.

## What is proved

`PmmProofs` proves, for every finite set of frames, every division of them
into regions and every data owners may write:

* under `Spec`, `TypeOK`, `FreelistSound`, `OneOwner`, `SizeCountsFree` and
  `PanicIffDoubleFree`. Their conjunction `Inv` is inductive. Soundness of the
  list is stated locally (links of free pages lead to free pages, no two to
  the same, none to the head), which is what makes it inductive even where the
  tail is stale;
* under `KernelSpec`, `NoPageLost`, `ZeroMeansOutOfMemory`,
  `OwnedPagesUntouched` and the refinement of `FramePool`. These need
  `KernelInv`: until something is freed the tail is a free page whose link is
  zero (`TailIsLast`). Reachability of every free page is stated without
  recursion, as "every set that contains the head and is closed under links is
  the whole free set", so each action needs only one set to be exhibited; the
  claim of a region goes along its pages by a least counterexample
  (`RegionFollows`).

`VmmHeapProofs` proves, for every size of the heap, number of slots, set of
frames, layout of page tables and set of sizes that callers ask for: `TypeOK`,
`HeapPartition`, `MappedIffLive`, `FramesAccountedFor` and the refinement of
`PageHeap`. The inductive invariant `Inv` adds to the first four what they
need: how far the call in progress can be (`CallInRange`), and that every
mapped page has the tables of its walk (`WalksComplete`), without which mapping
and unmapping a page could touch a table that is not there. The partition is
proved for the pages below the bump pointer: live, free, or of the call in
progress. That no run or range begins inside a live run (`StartsOutside`)
follows from the partition; that cutting a range adds a start outside every
live run, and that no step removes one (`AllocCuts`, `FreeReturnCutsNothing`),
is proved per action.

`SlabProofs` proves, for every size of the heap, of a page and of a header, every
list of bucket sizes and every set of sizes, values and bound on the blocks: `TypeOK`, `FreeListsExact`, `BlocksApart`, `PagesAccountedFor`,
`StopsIffMisused` and the refinement of `BlockHeap`. One hypothesis is needed,
`SizesFit`: no request wraps a `size_t` when its header and a page are added;
without it `kmalloc` hands out a block smaller than the request (see the known
limits) and nothing below holds. The inductive invariant `Inv` is stated of a
heap given by its runs, memory, lists and blocks (`HeapOK`), so that a lemma
about one change of such a heap (a chunk taken or given back, a run taken or
given back, a page cut into chunks, a block written) serves every action that
makes the change:

* every page of a bucket is a run of its own, and runs do not overlap
  (`RunsApart`); from it follows that places for blocks, headers included, lie
  apart (`PlacesApart`), which is where the arithmetic is;
* the header of every chunk says whether it is handed out, and every other run
  begins with the header of a block (`HeadersTrue`);
* each free list is exact (`ListsExact`). As for the PMM, this is stated
  without recursion: every set that holds the head and is closed under links
  is the whole set of free chunks. That a page cut into chunks is such a list is
  shown with a least counterexample (`ExactChain`);
* runs begin at `starts` and contain no other (`StartsOutside`), which is why a
  stale pointer never leads into the middle of a block (`StaleRefused`);
* the call in progress asks for something that its block can hold
  (`LargeEnough`), and krealloc moves a block only to a larger one (`CallOK`):
  without it the copy of the old capacity could overrun the new block.

The refinement shows, action by action, that a step writes into no live block
but the one it is about; handing out pages, chunks and runs are stuttering
steps, and each return from a call is one step of the abstract heap.

`PmmBootProofs` proves, for all widths and page sizes and every list of memory maps,
`ClaimsSucceed`, `BitmapNotHandedOut`, `RegionsCutExactly` and `RoomPanicIsReal`,
under the hypothesis that each claimable region ends at least a page below the
largest `int` (`BelowInt`, which the instance of `boot_small_memory` just
meets and that of `boot_above_int` does not). It is needed: beyond it the
findings begin. Under it every conversion is shown to lose nothing
(`SmallInt`, `SmallCeil`, `SmallFloor`), so that `bitmap_init` comes down to its
two outcomes (`bitmap_initExact`). The inductive invariant says what it leaves
behind: a bit for each frame up to the end of each claimable region, a cleared
byte for each bit (`BitmapCovers`), a bitmap that no region overlaps
(`BitmapApart`), and a list that holds just the whole pages of what was claimed.
Regions need not begin where a frame does: pages that do not overlap lie in
different frames all the same (`FramesDiffer`), so no bit is found set. This is
what `Pmm` assumes of its regions, that they list distinct frames.

`PageTablesProofs` proves, for every number of levels and entries, every layout of
memory, image and framebuffer, and every sequence of requests: `TypeOK`,
`TablesAccountedFor`, `TlbCoherent`, `ReadyWhenActive` and the refinement of
`AddressSpace`. The inductive invariant is `Ranges /\ TodoOK /\ Rootless /\
TreeOK /\ TlbOK`:

* the tables form a tree. That is stated without recursion: each table has a
  label, its level and one page whose walk leads to it, and the entry that leads
  to a table agrees with its label. Tables on one level that different pages
  reach are therefore different;
* the entry at which a page's walk ends decides the translations of just the
  pages that it covers (`WalkEnds`, `EndDecides`; walks are followed by least
  counterexamples);
* the tables change in two ways only: an entry that leads to no table is
  written (`WriteKeepsTree`), or a new table takes its place (`GrowKeepsTree`).
  The first changes the translations of the pages the entry covers, the second
  none: a cleared table translates as little as the empty entry did, and a split
  one as the huge entry did, page by page. While huge pages are mapped there is
  no table of the last level that a huge entry could replace (`HugeFirst`);
* the arithmetic of the indices: two pages, or two huge pages, have the same
  index on every level only if they are the same (`PagesApart`,
  `HugePagesApart`).

`ReadyWhenActive` is about the whole of `vmm_init`. Its invariant (`BootOK`) says
that of the list of requests all but the first `k` remain, and that of those `k`
the last one that covers a page decides its translation; at the switch `k` is
all of them.

`ConsoleProofs` proves, for every size of font, frame, pitch and memory behind it,
and for all output: `OnlyVisiblePixels`, and, in the default theme (hypothesis
`DefaultTheme`, see above), `StripIsPaper` and the refinement of `TextScreen`.
Memory changes in three ways, by a glyph, by scrolling and by clearing, and a
lemma for each says what becomes of any pixel (`DrawnAt`, `ScrollAt`,
`ClearedAt`); what becomes of the cells of the screen follows from these
(`DrawnCells`, `ScrolledCells`, `ClearedCells`). `OnlyVisiblePixels` is
inductive as it stands. `StripIsPaper` needs that what is queued is printed on
paper (`PaperInv`), and the refinement needs `StripIsPaper`: the strip
below the last line is what scrolling pulls into view.

`LibraryProofs` proves, for all widths of the integer types, sizes of the conversion
buffer, formats, arguments and counts: `TruncatedLikeC`, `ReadsLikeC` and
`AgreesWithC`. The one hypothesis of these three is that the arguments fit the format, at every directive
(`[]ArgumentsMatch`): the compiler checks the same at calls of functions declared
with the attribute of `printf.h:64`. `ArgumentsMatch` is part of the type invariant
of the run `text`, so all its calls meet it, those included whose format ends in the
middle of a directive. Without it `va_arg` returns anything, and so does the model.
The argument:

* whatever the directive, its flags, width and precision, each function from
  `_atoi` to `_out_rev` gives a text of some length (`IntegerIsText`,
  `StringIsText` and the lemmas before them), and reading the directive ends
  behind its percent sign and at most at the NUL of the format
  (`DirectiveFacts`). Both hold for recursive definitions and for choices among
  characters by least counterexamples;
* the invariant `Inv` says that the buffer holds what was produced so far, up to
  `count`, and that nothing at or behind `count` has been touched (`Written`); a
  text put behind it keeps that (`PutKeeps`), and the NUL completes it as C
  asks (`Cut`), also where `count` is zero and `maxlen - 1` wraps;
* the loops over a string are recursive functions, so that such a function exists
  is proved first (`StopExists`), then that its value is the first place where the
  loop does not go on (`LoopEnds`, by a least counterexample); for the length and
  for the copy that gives the NUL or the place behind the precision
  (`LengthReads`, `StringReadFacts`), and `ReadsLikeC` with them;
* `AgreesWithC` is proved both ways: outside of the five cases of `Exceptional` and of
  `NegativeIsZero` the code's text is C's, and in each of them it is not. Both texts are brought to the
  same form, digits from the back, then zeros, then prefix and sign, reversed:
  C's by `CNumberBack`, which no buffer limits, and the code's by `CodePlain` and
  `CodePrefixed`, where `Fits` is what finds room in the conversion buffer and
  `Shortened` what is left when a prefix drops characters.
  Two such texts are equal just when they have the same length and the same
  characters at the places where they could differ, and that is settled by cases:
  no prefix, a letter, the octal zero, no digit at all (`IntegerAgrees`). Flags,
  width and precision that come from a directive are what C takes them for
  (`DirectiveFlags`), and `%s` takes as many characters as C (`TakenOnce`). For a
  precision that was negative the directive that C sees is the code's without the
  flag (`WithoutPrecision`, `CDirectiveFacts`), and C's own two texts are compared:
  they are equal unless the number is zero or padded (`NotPaddedInC`), and where
  they are not, the code's text is neither (`ZeroInC`, `PaddedInC`,
  `StringWithoutPrecision`).

It proves `FormatSize`, for every size that a `size_t` holds:

* the digits that the code produces from the back are C's from the front, and no
  digit is cut by the conversion buffer (`CDigitsAre`, `DigitsReversedAre`,
  `CountExists`);
* the loop that divides by 1024 ends at the one unit that the size reaches
  (`UnitFacts`, `OneUnit`), and quotient and remainder give the tenths of the size
  without a wrap (`TenthFacts`);
* `SizeInv` follows the call through its three formats, piece by piece; it ends at
  the NUL of the format and nowhere else (`EndsAtNul`);
* one tenth more is another text (`OneMoreTenth`), so that the documented text of a
  size that is no whole number of tenths is never written; for 2200 and a Kilo of
  1024 the text is 2.1K (`DocumentedSizeIsCut`).

It also proves, for words of four and of eight bytes, bytes of every width, and every
memory, alignment and length: `MemoryAsByBytes` and `StrlenExact`. A call is one
step, so the invariant (`MemInv`) says little, and the work is in what the functions
compute:

* a word is the sum of its bytes, and byte `k` of such a sum is the `k`-th summand
  (`WordIsSum`, `ByteOfSum`, `BytesOfWord`). So the doublings of `memset` put the
  byte everywhere in the word (`ByteInEveryByte`), and moving words moves their
  bytes (`CopyWordsByBytes`);
* the bytes up to the first aligned address, the words and the rest follow on each
  other and end where the range does (`memsetByBytes`, `CopyInParts`,
  `memcpyByBytes`);
* `(v - low_bits) & ~v & high_bits` is not zero just when a byte of `v` is
  (`HasZeroExact`). Below the lowest zero byte nothing is borrowed
  (`NothingBorrowed`), so without a zero byte each one is less by one and none
  gets a high bit it did not have (`NoZeroNoHit`); the lowest zero byte becomes the
  largest byte (`ZeroIsHit`). Higher bytes may be wrong by a borrow, which is why
  the code looks for the byte afterwards;
* hence `strlen` stops at the word in which the string ends (`HitFacts`), at its
  first zero byte (`LateEnd`, and `EarlyEnd` if that is before the first aligned
  address), and has read no other word (`strlenFinds`).

`KernelProofs` proves, for every set of machines (whatever their firmware, memory
and drivers), all safety properties of the run `kernel`:

* `StopsVisibly` and `ReclaimPrecedesFrees`. The argument is how far `kmain` has
  come: `Progress` says what the routines that have returned leave behind (the
  framebuffer, the gates, the reclaimed pages), `NotTooEarly` that no exception is
  delivered before the gates are set and nothing is freed before `acpi_init` has
  returned. The second discharges for the whole kernel the order of calls under
  which `PmmProofs` shows that no page is lost;
* `ClonesIntact`, by `AcpiInv`: the entry of a round of the cloning loop, if it can
  be read at all, is the table that the root table lists there (`RoundIsListed`;
  from an RSDT only when its one entry has zeros behind it); the tables' pages
  are as the firmware left them until they are reclaimed (`PagesKept`); and the blocks that
  ACPI has of the heap are just those that `acpi_cleanup` would free
  (`HeapOK`), so no driver can be given one of them, and none is leaked;
* `BootOutcome`, by `OutcomeInv`: what the machine offers suffices for all that
  `kmain` has passed (`GoodSoFar`), and every panic and every exception has its
  cause in the machine or in an event (`CausesKnown`). That an XSDT is always read
  and an RSDT of several tables never (`ReadTablesAreSound`, `UnreadableTables`)
  is part of it;
* `ExitsCalled`, by `ExitsInv`: the entries stay as they were linked and each call
  is appended at the place that counting gives it (`NextCall`);
* `HandlerSeesCpu`, by `TrapOK`: the stack after the processor's frame, the stub,
  and the wrapper, slot by slot, for vectors with and without an error code.

Assumed of the constants, by name:

| Module | Assumptions |
|---|---|
| `Pmm` | zero is not a claimable frame, frames are finite (`FramesAssumption`); regions list distinct frames (`RegionAssumption`) |
| `PmmBoot` | an `int` has fewer values than a `size_t`, page and byte sizes fit one (`WidthsAssumption`); regions are in order, apart, and the first page of memory is not called usable (`MemMapsAssumption`) |
| `VmmHeap` | at least one page, requests of at least one page, a walk of tables for each page (`HeapAssumption`) |
| `PageTables` | at least two levels and entries, frames and pages are numbers, the direct map begins at a huge page (`TablesAssumption`); the layout above (`LayoutAssumption`) |
| `Slab` | sizes that are not zero, buckets in ascending order, a chunk of each that fits a page (`SlabAssumption`) |
| `Console` | a font and a frame that are not empty, rows no longer than the pitch (`FontAssumption`, `FramebufferAssumption`); control characters are no glyphs (`CharAssumption`) |
| `Printf` | a format ends in a NUL, a count is a `size_t`, and powers of two are positive, which the provers do not know (`PrintfAssumption`); `formatsize` gets a `size_t`, ten times its largest unit fits one, and the digits of each fit the conversion buffer (`SizeAssumption`); an integer type has a sign bit and is no wider than `long`, which has no more digits than bits (`PowersAssumption`) |
| `MemUtils` | words of four or eight bytes, and powers of two that multiply as they do (`WordAssumption`); calls as C asks for (`JobsAssumption`) |
| `Kernel`, `Acpi` | names of tables, of users of pages and of blocks differ (`NamesAssumption`, `KernelAssumption`); the machines are as described above (`MachinesAssumption`) |

Every invariant and every action property that a passing run checks is the statement
of one of these theorems. Left to TLC is liveness (`BootEnds`, `CallsEnd`), which
TLAPS cannot prove.

## Findings

1. **Memory above 2 GB is not supported** (`boot_above_int`). `div_ceil` and
   `div_floor` of `pmm.c` work in `int`. Between 2 and 4 GB the sizes become
   negative, i.e. huge, and the boot panics with "No usable region large
   enough"; above 4 GB the bitmap covers the truncated size and a claim fails
   with "Frame out of bitmap range". The emulator's default of 2 GB in
   `GNUmakefile` hides it.
2. **Free-range slots leak** (`vmm_slots`). `s_free_range_count` only grows, so
   the 257th `vmm_free` stops the kernel whether or not slots are in use.
3. **An RSDT is read as if it were an XSDT** (`acpi_rsdt`). Its 4-byte entries
   are counted as such, but read 8 bytes at a time: with two tables or more the
   first address is made of two entries, and the boot ends in an exception. With
   one table it depends on what lies behind the root table.
4. **A driver that fails stops the kernel** (`driver_failure`). The log line
   that reports it lacks the argument for the driver's name and takes the error
   code for a string. `klog_error`'s format is not checked by the compiler.

Known limits that no run repeats, found with earlier instances of these modules
or while translating:

* A reclaim after the first free can lose its pages: `pmm_free` on an empty list
  leaves the tail, and the next claim links its region behind it. `kmain` never
  does this (`ReclaimPrecedesFrees`); with any other order `NoPageLost` fails,
  which is the mutant of that property. `pmm_reclaim_bootloader_pages`, which
  nothing calls yet, must not be called late.
* The last page of the kernel heap can never be allocated: `VMM_HEAP_END` is the
  address of the last byte and is compared with the end of a run (`vmm.c:208`).
  The model compares alike; `HeapPartition` is about the pages below the bump
  pointer and would not notice.
* Sizes close to the largest `size_t` wrap when `kmalloc` adds its header
  (`slab.c:96`). No caller in the kernel asks for such sizes, and neither does the
  model: `BlocksApart` is checked and proved where nothing wraps (`SizesFit`).
* That `kzalloc` clears its block is part of the model, but no property checks it:
  to `BlockHeap` a fresh block's contents may be anything.
* A failed assertion before `fb_init` stops the machine with nothing on the
  screen; `StopsVisibly` excludes only that.
* A table of length zero is stored as NULL and `output_tables` reads through it.
* `%.Ns` looks at one character behind the precision, `%.0s` has no limit.
* `memory.h:18` says that 2200 becomes 2.2K; the code cuts the decimal of 2.148 and
  makes it 2.1K (`FormatSize`, `DocumentedSizeIsCut`). The doc and the code disagree
  for each size that is no whole number of tenths.
* A negative precision argument is taken for zero (`NegativeIsZero`): `%.*d` of -1
  and 0 prints nothing, and so does `%.*s` of -1 and any string.

## Plan

1. *Done:* `FramePool`, `Pmm`, `PmmBoot`, `PageHeap`, `VmmHeap`, `BlockHeap`,
   `Slab`, `AddressSpace`, `PageTables`; `TextScreen`, `Console`, `Printf`, `MemUtils`,
   `Library`, `Exceptions`, `Drivers`, `Acpi`, `Kernel`; the proofs `PmmProofs`,
   `PmmBootProofs`, `VmmHeapProofs`, `PageTablesProofs`, `SlabProofs`,
   `ConsoleProofs`, `KernelProofs`, `LibraryProofs`.
2. Nothing of the model or of its safety properties is left. What would be next is
   what the note below lists as not modelled, should the kernel come to use it.

Not modelled: port I/O (`io/ports.h`, two instructions without state), `tcb.h`
(unused), the vendored protocol header, the font and the build files have no
behaviour of their own. Of the modelled components: the floating-point half of
`printf.c`, which no format reaches since `SFLOAT` is defined nowhere (lines
337 to 591 are dead code); functions that only display (`output_rsdp`,
`output_drivers`, `dump_registers`); `klog_debug`, which logs like the others
where it is enabled; the theme `FB_BLUE_THEME`, under which the black newline of
the log functions would leave a black line on blue paper.

Only model-checked: liveness (`CallsEnd`, `BootEnds`), as explained under "What is
proved".

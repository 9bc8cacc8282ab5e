# LumOS in TLA+

LumOS is a small kernel for the i386: a text terminal, a GDT and an IDT, the
8259 PIC, a timer, a keyboard, a serial port, a physical memory manager and a
C library of a dozen functions. This directory holds TLA+ models of it, the TLC
configurations that check them, and TLAPS proofs about all of these.
Paths below are relative to the repository (`lumos/arch/i386/pmm.c` is
`src/lumos/arch/i386/pmm.c` in `PROJECT.json`).

There are no threads. What makes the system hard is an interrupt that comes
between any two instructions of `kernel_main`, a boot sequence whose order
decides whether interrupts work at all, unsigned arithmetic at its edges, and
long runs of calls of the allocator.

## 1. Inventory

| Component | State | Operations | What would be wrong |
|---|---|---|---|
| Physical memory manager, `pmm.c` | the list of zones after `_kernel_end`: header, bitmap, counter `free` | `init_pmm`, `pmm_alloc`, `pmm_free`; `set_bits`, `unset_bits` | a block handed out twice, a block of the kernel or past the end of memory handed out, a block lost, a counter that drifts from its bitmap, a write outside the bitmap |
| Terminal, `tty.c` | `tty_row`, `tty_column`, `tty_buffer` | `terminal_init`, `terminal_putchar`, `terminal_scroll` | a line lost or doubled by a scroll, a cell outside the screen, the cursor changed by an interrupt in the middle of a character |
| Interrupts, `idt.c`, `isr.c`, `interrupts.S`, `loadIDT.S` | IDT, `handlers[]`, the PIC, the interrupt flag, the stack | `idt_init`, `irq_stub`, `irq_handler`, `sendEOI`, `isr_handler` | a line that falls silent, a handler that is missing, nesting, a stack `iret` cannot use |
| Keyboard, `keyboard.c` | `status` (modifier bits), the 8042's buffer | `init_keyboard`, `keyboard_handler` | a byte that blocks the keyboard, a byte lost or out of order, a modifier that sticks, the wrong character |
| Timer, `timer.c` | `ticks`, `CLOCKS_PER_SECOND` | `init_timer`, `timer_tick`, `sleep` | `sleep` that returns too early or never |
| Serial port, `com.c` | the UART | `init_com1`, `com1_send` | a wait that does not end, a byte lost to a full queue or a wrong rate, a byte of the set-up on the line |
| Kernel, `kernel.c`, `boot.S`, `linker.ld` | page tables, order of the initialisations | `_start`, `kernel_main` | an instruction or a screen that is not mapped, a physical address that still is, an interrupt served before what it needs is there |
| Segments, `gdt.c`, `loadGDT.S` | the GDT | `gdt_init` | a descriptor packed wrongly, that faults only far up in memory |
| C library, `libc/` | none | `itoa`, `printf`, `logf`, `memmove`, `ceilPowTwo`, ... | a result that differs from the C function's, text lost or doubled around a `%`, a count past an `int` |

How they interact. `kernel_main` calls the initialisations in a fixed order;
`idt_init` ends with `sti`, so everything after it runs with interrupts on. An
interrupt goes from the PIC through the entry of the IDT and `irq_stub` to
`irq_handler`, which calls what `register_interrupt_handler` put into
`handlers[]`, and ends with `sendEOI`. `keyboard_handler` prints, so the
terminal is shared between `kernel_main` and the interrupt, with no lock and
without `cli`. The memory manager is called by `kernel_main` only.

`logf` sends every
character through `com1_send`, which waits for the UART; `printf` and `puts` go to
the terminal through `putchar`.

`PROJECT.json` lists the hazards of each component at the line where they bite,
with the properties that would catch them.

## 2. Modules

| Module | Models | Uses |
|---|---|---|
| `FrameAllocator` | what the memory manager promises, abstractly | |
| `PMM` | `init_pmm`, `pmm_alloc`, `pmm_free` and a caller | refines `FrameAllocator` |
| `BitmapLoops` | the loops of `set_bits`, `unset_bits` and of the search, pass by pass | justifies the operators of `PMM` |
| `Console` | what the terminal promises: a page of lines | |
| `Terminal` | `tty.c`, one call at a time | refines `Console` |
| `TerminalRace` | `terminal_putchar` split at its loads and stores, with the interrupt's calls in between | extends `Terminal` |
| `Interrupts` | the order of the initialisations, the PIC, the stub, the handlers, the 8042's buffer | |
| `Timer` | `timer_tick` and `sleep` among the interrupts | extends `Interrupts` |
| `Boot` | `_start`: page tables, paging, the TLB; `gdt_init` | |
| `Kernel` | the machine from `_start` on | composes `Boot` and `Timer` |
| `Keyboard` | what `keyboard_handler` makes of scancodes | takes bytes one by one and in order, which `Interrupts` shows |
| `Libc` | `string/`, `itoa`, `ceilPowTwo` as operators | |
| `Format` | the loop of `printf` and `logf` | extends `Libc` |
| `Serial` | `init_com1`, `com1_send` and the UART | |
| `Log` | what the kernel writes: `logf`, `printf`, `puts` | composes `Format` and `Serial` |
| `PMMProofs`, `BitmapProofs` | theorems about `PMM` and `BitmapLoops` | these |
| `TerminalProofs` | theorems about `Terminal` and `TerminalRace` | `TerminalRace` |
| `KernelProofs` | theorems about `Boot`, `Interrupts` and `Timer` within `Kernel`, one part each | `Kernel` |
| `KeyboardProofs` | theorems about `Keyboard` | `Keyboard` |
| `LibcProofs` | theorems about the functions of `Libc`, and what induction and recursion need | `Libc` |
| `FormatProofs` | theorems about `Format` and `Libc` within `Log` | `Log`, `LibcProofs` |
| `LogProofs` | theorems about `Serial` within `Log` | `FormatProofs` |
| `MC...` | small instances for TLC | |

### PMM

A behaviour is one boot: `init_pmm` goes through the memory map (`SkipSection`,
`AddZone`, `RunAway`, `EndScan`), then through the zones to reserve the blocks
of the kernel and of the zones themselves (`ReserveZone`, `EndReserve`), then a
caller allocates and frees in any order. The caller is as careful as
`kernel_main`: it frees what it was given, and it passes a NULL on to `pmm_free`
(`FreeNull`), because `kernel_main` never tests a result. What `pmm_free` should do
with NULL is said nowhere: the refinement takes that call for `Break`, after which
the allocator promises nothing, so no property judges it.

A bitmap is the set of the offsets whose bit is 1. `bitmap` is its place, in
words from `_kernel_end`, so that a bit cleared through the wrong zone is
looked up where it really lies: `Cleared` is the frames it belongs to, and
`damage` records whether a call has written into another bitmap (`"bitmap"`) or
into a zone header, or beyond (`"wild"`, after which the code works on values
that are not modelled, and the model stops). The bits a new bitmap starts with
are whatever memory held: `AddZone` takes any.

`pmm_alloc2` is not called by anything and is `pmm_alloc` with `lastOffset`
spelled out as 0. The order of `zones` is the order of the map; `next` pointers
are the sequence. `length_high` is never read by the code, and `MapsAssumption`
says that available sections end within 4 GiB.

A block is named by its zone and its offset, and `BitmapExact` and `Implements` speak
of these names. `HeldApart` is about the bytes: two blocks that are handed out share
none. It holds if the available sections of the map share none (`Disjoint`), which
`init_pmm` takes for granted and does not test; a block in two sections would have
a bit in two zones.

`free` counts reserved blocks as free in the code, and does so in the model:
`FreeAccounting` states what holds (`free` plus the blocks held is the length),
not what one would expect.

### BitmapLoops

`PMM` takes `set_bits(b, first, last)` to be `b` with `first .. last` added, and
the search to take the first clear bit. `BitmapLoops` has the loops themselves,
one action per pass, with offsets that wrap at `WIDTH`, and shows that they
compute that, for every call with `offset + 1 + WORD < 2^32`. The one caller
that breaks the bound is `init_pmm` for an available section shorter than a
block (`InitShort`); `RunAway` in `PMM` is that call.

### Terminal and TerminalRace

`Terminal` has the functions of `tty.c` as operators on a record `tty`; a
newline on the last row leaves `tty_row` at `VGA_HEIGHT` and puts the scroll off
to the next character, a full last row scrolls at once. `scrolled` is a history
of the rows that left at the top, which is what the refinement of `Console`
compares with. `SpecOnLine` leaves out the tabs that end past their line: the
code has nothing to keep them there (see the findings; `TerminalRace` runs with them),
and the rest of what the terminal promises is shown without them.

`TerminalRace` splits the kernel's call at the loads and stores of `tty_row`,
`tty_column` and the cells as gcc `-O2 -ffreestanding` orders them for i386; the
interrupt's call is one step, since interrupt gates keep a handler from being
interrupted. Copying one cell of a scroll is one step. The text the kernel
prints with interrupts enabled today is that of `kernel.c:22`. The handlers print
every kind of character: letters, Backspace, Tab and Enter come out of `kbdus`
through `keyboard_handler`, and the message of `irq_handler` for an interrupt without
a handler (`isr.c:68`) is a line of letters with its newline, one `Interrupt` after
the other at the same place of the kernel.

A newline printed by a handler between the test of `tty.c:72` and `tty_row++` takes the
row past `VGA_HEIGHT`, where that test, an equality, fails for good: `RowOnScreen` is
violated (finding 5). `RowPassesByNewline` says that there is no other way.
`struck` remembers that a handler's newline has put the cursor below the screen while the
kernel was `Exposed`, that is, between its test and its last use of `tty_row`; without
it the row stays where the test can see it, whatever else handlers print and wherever,
scrolls of handlers inside a scroll of the kernel included.

### Interrupts

One action per step of the setup, and per step of the path of an interrupt. The
PIC latches edges (`request`), masks, and holds lines in `service` until
`sendEOI`. What the BIOS left is any combination of masked lines, latched edges
and an unread byte. Reading the 8042's buffer lowers the line; a PIC may drop
the latched edge then or keep it, and may present line 7 for an edge that went
away: both are in the model. `stack` holds what the processor, the entry of the
IDT and `pushal` push, so that `irq_stub`'s `add $8` is checked against it.

`kernel_main` always ends in a page fault: `*u` is a physical address that
`boot.S` does not map. `isr_handler` reports it and halts with interrupts off,
so `for(;;)` is never reached, and neither is the `add $4` in
`isr_stub_errCode`, which drops one of the two words above the return address.

A byte that came before `init_keyboard` has read the buffer may leave its edge
in the PIC: `keyboard_handler` is then called without a byte, does not look at
the status register, and reads the last one again. `InOrder` allows this
once, and TLC shows that it does not happen twice.

### Boot, Timer and Kernel

`Boot` is `_start` and `gdt_init`. A page is its two indices, a frame its number;
`FillEntry` is a pass of the loop, and what runs before paging is on, unseen by
anyone, is one action. The processor may `Remember` any translation it
could use, and uses what it remembers (`Reach`) until CR3 is written: without
`ReloadCR3` the low addresses stay reachable. The descriptors are packed byte by
byte as `gdt_create_entry` does and taken apart again as the processor does.

`Timer` adds the counter, which wraps at `TICKS`, and a call of `sleep` by the
kernel, at any count, for any `ms`. (Nothing calls `sleep` today.) An interrupt may
come between the test and `hlt`; then `hlt` waits for the next one, which
`SleptEnough` shows costs one tick at most, and `SleepReturns` shows loses no
target but the two highest. The product `ms * CLOCKS_PER_SECOND` wraps as in the
code; for calls whose numbers do not fit only `SleepReturns` claims anything.

`Kernel` runs `Boot` and then, from `idt_init` on, `Timer`. What devices do during
boot is what `Interrupts` starts from: any mask, latched edge and unread byte.

### Libc, Format, Serial and Log

`Format` has one action per path through the loop that `printf` and `logf` share,
and one for a character handed over by `print` or `log`. Texts are sequences of
character codes. `Rendered` is what C says of the same format, one character of it at
a time, with numerals by place value: nothing of the loop, of the scan for the
next `%` or of `itoa` is in it, and where a `%` begins something is told by how
many precede it. `va_end` is not reached on the way of the -1, which
means nothing on the i386. `print` never fails, as `putchar` never returns EOF.
A caller passes a parameter for every conversion, which `CallsAssumption` says.

A loop of the C library is `Loop`, so many passes over a start, and a memory is a
function; `itoa`'s digits and `Rendered` are recursive functions. None of them is a
RECURSIVE operator, so that they can be proved about.

`Serial` has the UART's registers and queues: `init_com1` is its list of
writes and then the loopback test. The port may be left by the BIOS with DLAB set
or looped back, and bytes may come in from the line. The test reads right after it
writes, so its byte may or may not have come round: either way is
a behaviour. If not, the port stays looped back, `com1_send` goes on working, and
nothing logged is ever seen; the code says nothing of this case, and the
properties promise delivery only for a test that read its own byte.

`Log` composes the two: a character of `logf` is handed over by `com1_send`, in
one step with its wait. The functions of `string/` and `ceilPowTwo`, which nothing in
the kernel calls, are checked as pure functions; `memcpy` only without overlap,
which its `restrict` rules out.

### Keyboard

A user presses, holds (the keyboard repeats the code) and releases keys while
`keyboard_handler` reads the bytes with any delay. The tables are abstracted to
which keys have an entry and which entries are letters; control, shift and alt
have two keys each, and the right control and alt keys send a prefix that the
driver ignores. `unsure` records what one bit per modifier cannot tell: both
keys of a modifier held at once, a key that was held when `init_keyboard` cleared
`status`, and a Caps Lock that was held until it was repeated, each repeat of
which toggles again. The properties claim nothing of these cases beyond
`NothingSticks`. Not modelled: the fake shift codes that a keyboard sends around
the cursor block, and single entries of the tables (`kbdus_shift` has `%` for 5
and for 6, and `^` for 7, where a US keyboard has `%`, `^` and `&`).

## 3. Runs

| Run | Checks | Bounds |
|---|---|---|
| `pmm` | `TypeOK`, `BitmapExact`, `FreeAccounting`, `HeldApart`, `IInv`, and that `PMM` implements `FrameAllocator` | eight maps: a PC's to scale; two zones without a gap, with a partial block in between; one zone from 0 and one off the grid of blocks; three zones with the kernel in the middle; no map; no available memory; a section shorter than a block. Blocks of 4 bytes, words of 2 bits, headers of 2 words: zones of up to 10 blocks, with and without padding bits, partial blocks and reserved words |
| `pmm_free_zone` | finding: `FreeFindsTheZone` is violated | the maps with several zones |
| `pmm_free_word` | finding: `FreeZoneHasAFreeWord` is violated | the maps with one zone |
| `bitmap_loops` | `TypeOK`, `OnlyTheRange`, `WholeRange`, `FirstUnsetBit`, `Terminates` | words of 4 bits, offsets below 24: heads, tails, no word, one or several words in between, and every bitmap of two words for the search |
| `bitmap_short` | finding: `Terminates` is violated by the call for a section without a block | same |
| `terminal` | `TypeOK`, `CleanBelow`, and that `Terminal` implements `Console` | 2 rows of 3 columns in a page of 8 cells, 10 characters: enough to fill the screen and to scroll more than once in both ways |
| `terminal_split` | `Uninterrupted`, `RowPassesByNewline` | 2 rows of 2 columns in a page of 5 cells, which ends within the row below the screen as the real one does; 5 characters of the kernel, 3 of the handlers (a letter, newline, tab, backspace): several inside one scroll, and enough for the row to pass `VGA_HEIGHT` |
| `terminal_race` | finding: `AtTheCursor` is violated | same |
| `terminal_newline` | finding: `RowOnScreen` is violated | same |
| `interrupts` | `TypeOK`, `OneAtATime`, `OwnHandler`, `KeyboardAlive`, `InOrder`, `CodeMapped`, `HighHalf`, `Flat`, `SleptEnough`, `SetupEnds`, `BytesAreRead`, `SleepReturns` | module `Kernel`. 6 bytes: some left from boot, some while the leftovers are read, some handled; 2 of them by the end of a sleep. Ticks are unbounded, counted modulo 8; `ms` below 8 at half a tick each: sleeps of no period and of one, targets that wrap or are never passed, products that overflow. Tables of 4 entries: first, inner and last |
| `log` | `TypeOK`, `OnTheLine`, `Formatted`, `Computed`, `Delivered` | integers of 4 bits (-8 to 7, so `INT_MAX` is 7), every format of up to 3 of `%`, `c`, `s`, `d`, `x`, `o` and `a`, which is no conversion, and of 4 of the first four, two lists of parameters with the smallest `int`, 0, a negative, an empty text, a text with `%` and one of 6 characters; queues of 2 bytes; memories of 4 bytes with every place and length |
| `keyboard` | `TypeOK`, `NothingSticks`, `NothingMissed`, `PrintedAsTyped` | every modifier and toggle, a letter and another key, 5 actions of the user from every set of held modifiers, 2 bytes waiting. The shortest ways to a wrong bit or character take 2 to 4 actions |

What the passing runs show: the bitmap of every zone is exact, and the counters
add up, until `pmm_free` is called for a block outside the first zone or for
NULL, and blocks handed out do not overlap; the loops over the bitmap are right at every word boundary; the screen
is the bottom of an endless page, whatever mixture of full lines, newlines,
backspaces and tabs that end on their line was printed; a call of `terminal_putchar` that no interrupt
hits is right even after others were hit, and the row leaves the screen only by a
handler's newline in one window of a call; interrupts never nest, always find the
right handler, and the keyboard cannot fall silent; the code is mapped at
every step of boot and nothing below the kernel is afterwards; `sleep` is never
short and oversleeps by a tick at most; what is logged is what the format says,
and all of it reaches a connected line in order; modifiers do not stick.

`CHECK_DEADLOCK FALSE` stands where a behaviour ends by design: `BitmapLoops` is
one call; the terminal and keyboard runs end at `MaxChars`, `MaxKeys` or
`MaxEvents`; `Log` makes one call. The `pmm` and `interrupts` runs check for deadlock: `PMM` has an
explicit `Stopped`, and the timer of `Kernel` never stops.

### Findings

Five places where the code does not do what its own comments say, each with a
run whose counterexample shows it (`PROJECT.json`, `findings`):

1. `pmm.c:233`: the loop that should find the zone of an address stops at the
   first zone, always. Blocks of other zones are freed in the first one's bitmap.
2. `pmm.c:123`/`202`: reserved blocks stay in `free`, so the path that "should
   never really happen" is taken when a zone fills up, and later zones are not
   tried.
3. `pmm.c:84`/`292`: a section shorter than a block makes `unset_bits` run away.
4. `tty.c:101`: a key printed by the interrupt handler moves the cursor under
   the kernel's `terminal_putchar`.
5. `tty.c:80`: a newline printed by a handler between the kernel's test of `tty_row` and
   its `tty_row++` takes the row past `VGA_HEIGHT` for good, and what is printed next
   lies behind the page of the video memory.

One more needs no run: a tab does not reset the column (`tty.c:86`). From column 76 on
the column reaches `VGA_WIDTH` or more; the next character is stored in the row below,
then the column is set to 0 and the row incremented, so that the characters after
it fill that same row from its start, over it if the tab ended at `VGA_WIDTH` exactly.

### Fairness

- `BitmapLoops`: `WF_vars(Next)`. A loop that runs is always resumed: an
  interrupt handler returns.
- `Kernel`: weak fairness of boot, of the handlers (nothing interrupts them), of
  taking an interrupt, and of the timer while the processor is halted. Strong
  fairness of the setup, of `sleep`'s own steps and of the keyboard's interrupt,
  together with
  `[]<>(pc \in Stopped \/ (pc \in KernelCode /\ Timer \notin request))`:
  ticks are 20 ms apart at 50 Hz (55 ms before), millions of instructions, so
  again and again kernel code runs with no tick pending, and whatever
  it or the keyboard needs such a moment for gets it. For the same reason a tick
  in `sleep` finds the last one served and `sleep` a step further (`TickInTime`).
  Nothing is assumed of keys being pressed or of how long the rest of `kernel_main`
  takes.
- `Log`: weak fairness of the kernel and of the UART's transmitter, nothing of
  how fast they are.
- `PMM`, `Terminal`, `TerminalRace`, `Keyboard` state safety only and have no
  fairness.

## 4. Proofs

Every safety property of the passing runs is a theorem, for every value of the
constants. An
assumption is named where it is declared; TLC evaluates all of them on the runs.
Theorems named `...Inductive` (and `BootIsExact`) state the strengthening that
the others are read off; `IInv` is checked by the run `pmm` as well.

| Module | Theorem | Statement |
|---|---|---|
| `PMMProofs` | `TypeCorrect` | `Spec => []TypeOK` |
| | `Inductive` | `Spec => []IInv` |
| | `BitmapIsExact` | `Spec => []BitmapExact` |
| | `CountersAdd` | `Spec => []FreeAccounting` |
| | `BlocksApart` | `Spec => []HeldApart` |
| | `Refinement` | `Spec => Implements` |
| `BitmapProofs` | `LoopsInductive` | `Spec => []LoopInv` |
| | `LoopTypes` | `Spec => []TypeOK` |
| | `LoopsStayInRange` | `Spec => []OnlyTheRange` |
| | `LoopsWriteAll` | `Spec => []WholeRange` |
| | `SearchFindsFirst` | `Spec => []FirstUnsetBit` |
| `TerminalProofs` | `ScreenInductive` | `SpecOnLine => []ScreenInv` |
| | `TerminalTypes` | `SpecOnLine => []TypeOK` |
| | `TerminalStaysClean` | `SpecOnLine => []CleanBelow` |
| | `TerminalRefines` | `SpecOnLine => Implements` |
| | `RaceInductive` | `SpecRace => []RaceInv` |
| | `RowPassesOnlyByNewline` | `SpecRace => []RowPassesByNewline` |
| | `CallsAreWhole` | `SpecRace => []Uninterrupted` |
| `KernelProofs` | `BootIsExact` | `KernelSpec => []BootInv` |
| | `CodeIsMapped` | `KernelSpec => []CodeMapped` |
| | `OnlyHighHalf` | `KernelSpec => []HighHalf` |
| | `SegmentsAreFlat` | `KernelSpec => []Flat` |
| | `InterruptsInductive` | `KernelSpec => []InterruptInv` |
| | `InterruptTypes` | `KernelSpec => []TypeOK` |
| | `InterruptsDoNotNest` | `KernelSpec => []OneAtATime` |
| | `HandlersOwnLines` | `KernelSpec => []OwnHandler` |
| | `KeyboardStaysAlive` | `KernelSpec => []KeyboardAlive` |
| | `BytesInOrder` | `KernelSpec => []InOrder` |
| | `SleepInductive` | `KernelSpec => []SleepInv` |
| | `SleepLongEnough` | `KernelSpec => []SleptEnough` |
| `KeyboardProofs` | `KeyboardInductive` | `Spec => []KeyboardInv` |
| | `KeyboardTypes` | `Spec => []TypeOK` |
| | `ModifiersNeverStick` | `Spec => []NothingSticks` |
| | `ModifiersNeverMissed` | `Spec => []NothingMissed` |
| | `PrintsAsTyped` | `Spec => []PrintedAsTyped` |
| `LibcProofs` | `Moves` | `memmove` and `memcpy` copy, for every memory, place and size |
| | `Sets` | `memset` fills the place and nothing else |
| | `Compares` | `memcmp` goes by the first difference |
| | `CeilPowTwo` | the least power of two that is not less, or 0 |
| `FormatProofs` | `ConvertedIs` | `Converted(letter, param) = Said(letter, param)` |
| | `LibcComputes` | `Spec => []Computed` |
| | `TextIsRight` | `Spec => []Formatted` |
| `LogProofs` | `LineInductive` | `Spec => []LineInv` |
| | `NothingIsLost` | `Spec => []OnTheLine` |
| | `LogTypes` | `Spec => []TypeOK` |

### PMMProofs

For all sizes of blocks, words and headers, for all positions of the kernel and
for all memory maps. Assumptions: `SizesAssumption` (sizes are positive, the
kernel is not empty) and `MapsAssumption` (entries of the map are of their C
types; available sections end within the address space).

`BitmapExact` speaks of the time after `init_pmm`; what has to be
carried through `init_pmm` is `Records`: in a zone that the reserving loop has
passed, a bit is clear exactly when its block is whole, not reserved and not
held; in one it has not passed, exactly when its block is whole and not at
address 0. That needs `Geometry` (a zone lies in the address space and has room
for its blocks, so that `GET_OFFSET` does not wrap and the rounded range of
`ReserveZone` covers exactly the reserved blocks, lemma `ReserveExact`), and
`BeforeReady`, `SomeZone` and the finiteness of `held` for the counters.
`AddZoneInv`, `ReserveZoneInv`, `AllocBlockInv`, `FreeInv` and `FreeNullInv` treat the
actions that change a bitmap; `FreeEffect` says what a call of `pmm_free` that
does no damage has done. For `BlocksApart`, while the map is read each zone comes from an
available section read before, so the next zone comes from another one and shares no
byte with it (`AddZoneApart`, `ApartStep`); and a block lies within its zone
(`BlockInZone`), because the length is rounded down. `Refinement` maps each action to `Open`, `Alloc`,
`Free`, `Fail`, `Break` or a stutter, under `IInv`.

### BitmapProofs

For every size of a word, every width of an offset and every content of memory.
Assumptions: `WidthAssumption` and `MemoriesAssumption`. `RangeInv` says that
memory is what it was with `first .. i - 1` written; that the middle loop starts
at the beginning of a word is what makes a pass over a whole word right.
`SearchInv` says that all bits before `i` are set, and of a word being searched
that it has a clear bit ahead, which lies in the zone because the padding bits
are set: so the path "this shouldn't happen either" is never taken. Lemma `NoWrap`
and the bound on the call keep every offset below `WIDTH`.

### TerminalProofs

For every size of the screen, of the page and of a tab; the theorems about `SpecOnLine`
for any text whose tabs end on their line, those about `SpecRace` for any text.
Assumptions: `ScreenAssumption` (two rows and columns at least, the screen
within the page), `CharsAssumption` (the control characters differ from
each other and from what is shown), `BoundAssumption`, and `RaceAssumption` (what
the kernel and the handlers print are characters).

`ScreenInv` is `Sound` once the terminal is set up: types, no fault, and
nothing below the cursor's row. `Sound` is what makes a put-off scroll
right: the row it comes to is blank. For the refinement each function has
a lemma that says what becomes of the endless page, `Page` (`ScrollKeeps`,
`NewlineKeeps`, `StoreKeeps`, `ColumnKeeps`, `GlyphKeeps`, `BackspaceKeeps`): a
scroll does not change it at all, a newline adds a row, a glyph edits its last row.

`RowPassesOnlyByNewline` has no hypothesis on what handlers print. `RaceRows` says that
from its test of `tty_row` to its last use of it the kernel finds the row on the
screen, and that a scroll finds it on the last row or below until it has lowered it;
handlers keep this, since their characters never move the row above the last one of
the screen once it is there, and only a newline moves it from the screen to the row below (`TypedNewline`), which in the window is
what `struck` records. After that nothing is claimed of the row: `RaceInv` has
`RaceRows` as long as the kernel is not struck.

`CallsAreWhole` holds of the calls after a struck one too. `Follows` says, at each
load and store, how what the call should leave follows from what is there; `Shifted` is the terminal in
the middle of a scroll to a row, after so many copies (`ShiftedAll`, `ShiftedOn`,
`ShiftedLast`), and that row may lie past the screen when a handler's newline
has taken the cursor there. Then a blank may be stored past the page and the
machine faults: `MeantInv` claims nothing of a call after that, and it does not return.

### KernelProofs

About `KernelSpec`, the composed machine without its fairness, for every size of
a page table and every place of the kernel in it, every number of bytes, every
width of `ticks` and every call of `sleep`. Assumptions: `FramesAssumption` (the
kernel and video memory are in the table, the high half is not the low one),
`BytesAssumption` (a number of bytes) and `ClockAssumption` (positive numbers,
more than two ticks).

`BootInv` says, for each place of `_start`, how many entries are filled, which
directory entries hold the table, and that the TLB remembers nothing the
finished table would not say. `CodeMapped` is not inductive without it: that
`RemoveLow` may drop the low entry rests on `Jump` having left it, and that
nothing low is reachable later rests on the TLB being empty after CR3 is
written. Lemma `Reached` turns it into what an access can reach. `Flat` follows
from `Loaded`, which descriptors the selectors name, by taking the bytes apart.

`InterruptInv` has four parts. `Types`; `Nesting`, which says what is on the
stack at every place and, by `Serving`, which line is in service as a function of
the vector on it; `Prepared`, which ties the mask and the table of handlers to
the place where `kernel_main` is or will go on (`Place`, read off the stack in a
handler); and `Pending`, the fact behind `KeyboardAlive`, which has to hold from
the test that ends the reading of leftovers and not only from the unmasking.
There is one lemma for each kind of step (`SetupSteps`, `FaultStep`,
`HandlerSteps`, `sendEOIStep`, `irq_stubStep`, `isr_handlerStep`, `DeviceSteps`,
`InterruptSteps`); `FrameFields` says what the pushed words are when they are
popped again. `InOrder` needs `Sequel` on top: the last byte handled is the one
before the unread one, and while a call without a byte may still come
(`OneTooMany`) none has.

`SleepInv` relates the counter to history: it is its value at the call plus the
ticks that have come, but for one that is presented and not yet counted, as long
as nothing wraps (`Clocked`). `Slack` is how far past the target it may be at each
of sleep's places: a tick between the test and `hlt` and one during it. Behind
that is `Asleep`: after a tick, sleep has to get on before the next.

### KeyboardProofs

For any tables and any number of keys and bytes. Assumptions: `KeysAssumption`,
and `TablesAssumption` (`kbdus` and `kbdus_shift` have 0 for the modifiers, the
toggles and the prefix).

The properties speak of moments with nothing left to read; what holds at all
others is about the future. `Foretold` is the course the driver will take over the
bytes still pending: the status after each, and how many characters it will have
printed. `KeyboardInv` says that such a course exists, that it ends in a
status that agrees with the keys held (`Agrees`), and that on the way every
character printed is one that was meant. A step of the user appends to the
course (`CourseGrows`), a step of the driver takes its head off (`CourseShrinks`).
That both keys of a modifier held means `unsure` is what a release of one of them
needs.

### LibcProofs

For every memory and every number of `BITS` bits. Assumption: `BitsAssumption`, 1 to
32 bits, since `ceilPowTwo` shifts by 16 at most; at 33 the theorem is false.

The library's theorems on induction take an operator, which the provers cannot
instantiate; here a property is a set instead. `Least` draws from
`NatLessThanWellFounded` and `WFMin` that a set of naturals has a least element, and
`Induction`, `MeasureInduction` and `BoundedInduction` follow for sets. `Recursion`
shows that a recursive definition whose every value depends on values of smaller
measure only has a solution, and so that the function TLA+ chooses is one;
`Passes` is the same for `Loop`. They are instantiated in `PowerIs`, `LowFirstIs`, and
the loops.

- `Moves`: after k passes the k places the loop has been to have the bytes that were
  at their sources at first, because none of these was overwritten before it
  was read. That is where the direction comes in.
- `CeilPowTwo`: if bit h of `num - 1` is the highest (`TopBit`), then after shifts by 1,
  2, 4, ... bits h to h - w + 1 are set for a w that doubles (`SmearTop`), and 32
  exceeds every h. The bits 0 to h add up to one less than a power of two
  (`ValueOfLow`). 0, whose predecessor has all bits set, comes out as 0.
- `LowFirstDigits`: `itoa`'s digits by repeated division are those by place value.

### FormatProofs

For every call that `CallsAssumption` allows: any format, parameters, text and
memory. `Rendered` is a recursive function over places in the format, and `RenderedIs`
gives it as a sequence p with p[i] what the format says from place i on.

`FormatInv` says of a call that has not returned (`Going`): the loop is at a place i
of the format that begins something, as many parameters are left as conversions
lie ahead, and what has been handed over, what is still to be handed over and p[i] make
up p[1]; `bytes_written` counts the first two. Each turn goes from one such place to a
later one (`PlainTurn`, `ConvertTurn`, `UnknownTurn`, from `Turned`), and p[i] splits
there: `PlainRun` takes a run of text as one piece, as `subLength` finds it, where
`Rendered` goes character by character, and `PairRun` the second `%` of a pair with
the text after it. A return of -1 means that the whole text is longer than `INT_MAX`.
`ConvertedIs` is the same for `itoa`: `Reverse` of the digits is `Numeral`.

### LogProofs

For every call, any text, any size of the UART's queues, whatever comes in from
the line and however fast. Assumption: `UARTAssumption`, and those of `FormatProofs`
for what is handed over. `LineInv` has four parts: types, with no queue over its size
(`Types`); which registers are set before each write of `init_com1`, so that no write
goes to a register with the wrong DLAB; before the test, that
nothing but the test's byte is under way, and only that can have come round;
after it, that the wire, the shift register and the queue together are what was
handed over, or that the port is still looped back with nothing on the wire. That
only bytes are handed over comes from `FormatInv`.

### Only model-checked

Liveness: `Terminates`, `SetupEnds`, `BytesAreRead`, `SleepReturns`, `Delivered`.
Fairness and ENABLED are out of the prover's reach.

What joins `PMM` and `BitmapLoops` is not a theorem: `WholeRange` and
`FirstUnsetBit` say of the loops what `PMM` writes as one step, to be read side by side.

## 5. Not modelled, and why

- What the machine does after a wild write of `pmm_free`, after a runaway
  `unset_bits`, or when the terminal writes past its page: it depends on the
  contents of memory. The models reach these states and stop there.
- The two halves of a handler's address in an entry of the IDT, and `_init`
  (`crti.S`, `crtn.S`), which has no constructor to run.
- Where the boot loader puts its information: `boot.S` passes it on at its
  address in the high half, mapped only if it lies in the first 4 MB.
- What `sleep` would do if a compiler loaded `ticks` once: it is not `volatile`
  and the `asm` clobbers no memory. gcc 15 -O2 loads it in every pass.
- Colours of the terminal: `tty_color` never changes.
- `printZone`, the text of messages.
- The vendored multiboot header beyond the memory map; build scripts.
- The 12 bytes `printf` gives `itoa`: at 32 bits the longest numbers, `-2147483648`
  and the octal ones of 11 digits, fill them with their final 0.

## 6. Plan

In order of importance; all of it is done.

1. `FrameAllocator`, `PMM`, `PMMProofs`: the kernel's largest piece of logic.
2. `BitmapLoops`: the loops `PMM` takes for granted.
3. `Console`, `Terminal`, `TerminalRace`.
4. `Interrupts`.
5. `Keyboard`.
6. `Timer`: the counter and `sleep`, composed with the interrupts in `Kernel`.
7. `Boot`: paging, the TLB and the segments, before the interrupts in `Kernel`.
8. `Libc`, `Format`, `Serial` and `Log`.
9. The proofs of each, the C library's last.

# A verification project for JarJar

JarJar ("JarJarvis") is a small x86_64 operating system in C: a kernel with physical and
virtual memory managers and a text console, a file system, an "AI core" with a knowledge base,
a shell, a graphical interface, and a C library of its own. This directory models its logic in
TLA+, checks the models with TLC and proves theorems about most of them with TLAPS, for every
value of their constants. `PROJECT.json` maps every definition to the lines it models and lists
the runs, mutants, findings, hazards and theorems. Paths below are relative to the root of the
repository.

## 1. Inventory

| Component | State | Operations | What makes it correct |
|---|---|---|---|
| Physical memory (`kernel/src/pmm.c`, `memory.c`) | memory map, bitmap inside the memory it administers | `memory_init`, `pmm_init`, `pmm_alloc_page`, `pmm_free_page` | bitmap exact, pages handed out once, bitmap never given away |
| Virtual memory (`kernel/src/vmm.c`) | trees of page tables, cr3, TLB | `vmm_init`, `vmm_create`, `vmm_map`, `vmm_switch` | translations current, kernel half shared, mappings local |
| Console (`kernel/src/console.c`) | consoles with cursor and colour, active console, hardware cursor | output, clear, cursor, scroll, switch | cursor and writes on the screen, hardware cursor follows, looks like a terminal |
| JARFS (`filesystem/src/jarfs.c`) | superblock and root inode on devices, mounts, files | format, mount, unmount, sync, open, close, read | sound layouts, root belongs to its superblock, no leak, reads in bounds |
| AI core (`ai_core/src/jarvis_core.c`) | singleton, knowledge base | init, add, query, process input | what was taught is found, answers do not change |
| Shell (`tools/src/shell.c`) | line and argv, colour, pending calls | parser, 49 command names | lines split right, joined arguments no longer than the line, colours restored, answers printed as the core wrote them |
| GUI (`gui/src/jarvis_gui.c`) | framebuffer, window manager, theme, windows on the heap | init, windows, render, shutdown, lines | no leak on any failing allocation, window list within its array, lines drawn and clipped right |
| C library (`libc/src`) | heap blocks, `strtok`'s static pointer, `gmtime`'s static result | `stdlib.c`: sorting, searching, number conversions, dynamic memory; `string.c`; `ctype.c`; `stdio.c`: `vsnprintf`; `time.c`: `gmtime`, `mktime`, `strftime`; `math.c`: rounding, `pow`, range reduction | results equal reference definitions, nothing is written outside an array or a block, loops end |
| Boot, stubs, interrupts, scheduler, drivers | — | — | declarations and stubs, not modelled (section 8) |

Interactions. The virtual memory manager takes its tables from the physical one.
Everything prints through the active console. The shell calls the AI core with a
response buffer of its own and changes the console's colour. GUI, file system,
AI core and `vmm_create` allocate with `kmalloc`, of which the repository has only
a stub that returns NULL; all models treat it as external: it fails or returns a
block not in use.

What is hard here. Nothing runs concurrently: the scheduler and the interrupts
are declarations. The hard cases are long sequences of legal calls, allocations
and transfers that fail in the middle of an operation, a loss of power between
two writes, cached copies that become stale (superblock, TLB, active console),
and arithmetic at borders. The list is in `PROJECT.json` under "hazards".

## 2. Modules

| Module | Models | Remarks |
|---|---|---|
| `PageAllocator` | abstract specification of a page allocator | sets of free and held frames |
| `Pmm`, `MCPmm`, `PmmProofs` | `pmm.c` | implements `PageAllocator` |
| `Vmm`, `MCVmm`, `VmmProofs` | `vmm.c`, page walk and TLB | pages come from the allocator that `PageAllocator` describes |
| `Terminal` | abstract specification of a screen in rows and columns | |
| `Console`, `ScrollLoops`, `MCConsole`, `ConsoleProofs` | `console.c` | implements `Terminal`; `ScrollLoops` checks the one-step scrolling of `Console` against the loops, cell by cell |
| `JarfsLayout`, `JarFS`, `MCJarFS`, `JarfsProofs` | `jarfs.c` | layout arithmetic; state machine |
| `JarvisCore`, `ShellParser`, `Shell`, `MCShell`, `ShellProofs` | AI core, `shell_parse_line`, shell | `Shell` extends and composes the other two |
| `Gui`, `MCGui`, `GuiProofs` | `jarvis_gui.c`, ownership of memory | |
| `Ctype`, `StrSearch` | `ctype.c`; comparisons and searches of `string.c` | operators; `StrSearch` checks them on pairs of strings |
| `Strings` | `memmove`, `strtok` | a step per byte, per call |
| `StringBuffer`, `Buffer` | abstract string of limited length; `strcpy`, `strncpy`, `strlcpy`, `strcat`, `strncat`, `strlcat`, `strtrim` called in sequence on one array | `Buffer` implements `StringBuffer` |
| `Heap` | `malloc`, `calloc`, `realloc`, `free`, `strdup`, `strndup` | one array of memory, so that overruns show |
| `Sort`, `Digits` | `qsort`, `bsearch`; `itoa` and its relatives, those of `console_vprintf`, `atoi`, `strtol`, `strtoul` | a step per iteration |
| `Printf`, `Calendar`, `Strftime` | `vsnprintf` and `console_vprintf`; `gmtime`, `mktime`; `strftime`, `asctime` | |
| `Maths` | rounding, `pow`, the loops of `sin` | floating point of a few bits, rounding to even |
| `Line` | `framebuffer_draw_line`, `framebuffer_draw_pixel` | |
| `Routines`, `MCRoutines`, `RoutinesInvariants`, `RoutinesProofs` | a program that makes the calls of one of these modules | composes them; the inductive invariants have a module of their own |
| `NaturalLemmas` | least elements, induction, recursive functions and division on the natural numbers | lemmas only |

State and actions. Variables carry the names of the C variables where there are
such. Every function that changes state is an action, with its error returns as
further actions or disjuncts; `history` variables, marked in the comments, record
what the properties need (who holds a page, which formats were torn) and are never
read by the modelled code. Undefined behaviour (NULL written, memory after free) ends
in a flag `faulted`, `crashed` or `wild`, or the location `"fault"`, after which the
component does nothing; the properties say when this may happen.

`Pmm` keeps for every bit the page it is stored in, so that an owner who writes
to a page that holds bits of the bitmap corrupts them; `pmm_init` may be called again
on the map the last call has changed. `Vmm` starts with junk in unused pages, has all
four levels, caches translations until `invlpg` or a write to cr3, and keeps in an
entry whether bit 63 (PAGE_NX) is set, which the code does not mask out when it follows
the entry. `Console` has consoles of different sizes and `main_console` before
`console_init`. In `JarFS` each of the two writes of a format may fail, power may be
lost between them, and `jarfs_open` leaves the position uninitialised. In `Shell`
a handler is a list of the calls it makes; text is reduced to whose voice it is.
Line 206 of `shell.c` enters "help" in place of a keyboard; the model takes any line.
In `Buffer` the callers pass the sizes that callers in the repository pass; two bytes
behind the array show what is written too much. In `Maths` a number is a count of the
smallest quantum and every sum, product and quotient is rounded to `Precision` bits:
that format has the cases that matter in a double (the largest number below 1, sums
that round up to an integer, numbers that vanish in a sum, integers whose neighbours are
no numbers, subtractions that change nothing). That `log2(2)` comes
out as the largest number below 1 was found by running the C code.

## 3. Runs

Passing runs:

- `pmm`: six memory maps (bitmap of whole pages, of a part of a page, and no place
  for a bitmap), up to three calls of `pmm_init`. `BitmapProtected`, `BitmapExact`,
  `AllocSound` and the refinement `Implements` speak of `Dependable` states: the bitmap
  fills whole pages and no `pmm_init` came while a page was held.
- `vmm`: two address spaces, eight pages, four addresses that share tables or do
  not, mappings with and without PAGE_NX, with allocation running out. `TlbCoherent`,
  `KernelShared`, `MapIsLocal`, `CrashesExplained`. A view leaves out the result of the
  last call, which no call reads.
- `console`: consoles of 2 x 2 and 1 x 3 cells, every character class, tabs of 2.
  `CursorOnScreen`, `WritesOnScreen`, `LoopsScroll`, `HwFollows`, `IsTerminal`.
- `jarfs`: one device of three sizes, one of them beyond the (reduced) 32-bit block
  number; two mounts, two files, failing writes and power loss. `SuperblocksSound`,
  `RootValid`, `MountListComplete`, `FilesOwned`, `NoFault`.
- `shell`: all lines of up to seven characters, and all sequences of commands with a
  knowledge base of two entries. Parser: `SplitsIntoPieces`, `JoinedInLine`,
  `Terminates`; core: `ShortConceptsFound`, `AnswersStable`; shell: `ColoursKept`,
  `AnswersWritten`.
- `gui`: ten heap blocks, three windows, two calls of `gui_init`, every allocation
  failing. `GuiBlocksOwned`, `WindowListSound`.
- `routines`: arrays of up to four elements; every day of ten years around the epoch and
  around two centuries; all 9-bit numbers, negative
  and unsigned ones, in four bases; formats of up to five
  characters into buffers of up to five; pairs of strings of up to four and two
  characters; three calls on a string array of four bytes; four calls on a heap of five
  bytes; time formats of three items and `asctime`'s own; all 4-bit floating-point numbers
  up to 20.0, integer exponents up to 11 and angles up to 125; lines on and around a 4 x 3
  screen. One property per module, and `Returns`.

Every property has a mutant: a variant of a definition with a plausible error
(a dropped check, an off-by-one, a forgotten reset), under which the same run
finds the property violated. Mutants stand directly before what they vary.

Runs that show a disagreement (section 6): `pmm_bitmap_page`, `vmm_out_of_pages`,
`vmm_permissions`, `shell_quotes`, `math_pow`.

Why the bounds are enough. They are chosen so that each limit is reached: the
allocator runs empty, lists and arrays fill up, the screen scrolls and wraps in
one step, a position and a block number pass the largest value of their type
(reduced to `U32`, `U64`, `SizeMod`, `IntMax`), a device is reformatted under a
mount. The theorems of section 5 remove the bounds for all properties but liveness.
Symmetry is used for heap blocks and address spaces, of which no definition
singles out one, and only in runs without liveness properties. Deadlock is not
checked: every component may stop, in a call that faults, in `panic`, after the
last permitted call, or when a routine has returned.

## 4. Fairness

Three specifications state fairness. `Routines` has
`WF_vars(Next)`, `Maths` on its own `WF_mathVars(MathNext)`, and `Shell`
`WF_parserVars(ParserNext)`: a called function goes on running until it returns, which holds
because the code is sequential and nothing preempts it. It gives `Returns` and `Terminates`,
and under it `PowReturns` fails. The other components only answer calls and nothing has to
happen.

## 5. Theorems

Every theorem holds for all values of the constants that satisfy the ASSUMEs of the
modules; TLC evaluates the same ASSUMEs on the instances of section 3. `PROJECT.json`
pairs each theorem with the property of a run that it states. All invariants were first
checked by TLC.

**`PmmProofs`**, for every page size, bitmap geometry, set of well-formed memory maps,
number of `pmm_init` calls and set of freed addresses: `TypeCorrect`, `Exactness`,
`Protection`, `AllocationSound` and `Refinement`. The inductive invariant adds to the
bitmap's exactness that nothing is held before `pmm_init` (`Fresh`), that managed pages
are disjoint from the bitmap's (`Layout`; this is why an owner's write leaves the bits
alone), that the map stays well formed while `pmm_init` changes it (`MapKept`), and that
a repeated call measures the same memory as the first (`Measured`; only the start of a
region moves, so the highest end stays). The lemmas are about division by the page size:
no page of a region lies in two regions, and after the shrinking the region still starts
on a page boundary if the bitmap fills whole pages. Assumed is the boot loader's contract
(`WellFormed`): aligned, disjoint usable regions that leave out page 0.

**`VmmProofs`**, for any number of spaces, pages, entries per table, addresses and flags:
`TlbIsCoherent`, `KernelIsShared`, `MapsLocally`, `CrashesAreExplained`. None of these is
inductive; what carries them is that the tables are layered (`Layered`): there is a level
for every page such that an entry of a table leads to a table of the next level, no table
has two parents except that PML4s share the kernel's, and free pages have no level. From
it follows that two walks end in the same entry only if they agree on all four indices
and on the space, or lie in the kernel half, so that the one entry `vmm_map` writes is the
one whose translation `invlpg` drops. `vmm_map` is followed through its three calls of
`get_or_create_table`, each with a page that is there, new, missing or wild. Assumed is
only that table indices are numbers and that a frame of a mapping is not 0.

**`ConsoleProofs`**, for every set of consoles and all sizes: `TypeCorrect`,
`CursorStays`, `WritesStay`, `HardwareFollows`, `LoopsAreScrolls`, `ConsoleIsTerminal`.
The invariant adds `Shape`, that a console that is set up has the width and height of its
screen. Each operation maps a good console to a good one (`Good`). For the copy loops the
argument is `InOrder`: no copy writes a cell that a later one reads or writes, which for
scrolling down follows from the uniqueness of row and column (`SameRow`). The refinement
takes the flat screen to rows (`GridOf`): the scrolls roll rows, one written cell is one
cell of the grid, the tab arithmetic gives the next tab stop, and what lines 83-96 make of
a cursor that left the row is a line feed of the terminal. Assumed is that sizes are small
against the largest u32.

**`JarfsProofs`**, for all devices, sizes, mounts and files: `LayoutSound` (pure
arithmetic, for every device size from the minimum on), `TypeCorrect`,
`SuperblocksStaySound`, `FilesAreOwned`, `ReadsAreSafe`, `RootsAreValid`,
`MountListIsComplete`. The invariant needs that the root of a mount belongs to that mount
(`RootsAtHome`) and that a file whose mount is gone exists only after a caller's
carelessness (`NoOrphans`). For the list of mounts, some walk along `next` (`Chain`) visits
every mount, and a walk longer by one step does after `jarfs_mount` puts one in front
(`CompleteLonger`).

**`GuiProofs`**, for any heap, window list and number of `gui_init` calls:
`GuiBlocksAreOwned`, `WindowListIsSound`. The invariant says which blocks nothing ever
frees (`Never`) and that `gui_shutdown` frees none of them (`Managed`, `Themed`).

**`ShellProofs`**, for any words, sizes of fields and capacity: `ColoursAreKept`,
`AnswersAreWritten`, `ShortConceptsAreFound`, `AnswersAreStable`. A script of calls is `Good`
if, from grey, it prints in the right colours, ends in grey and prints no answer it has not
asked for; every handler's script is, and taking the first call off keeps what is left in step
with the console. For the knowledge base every node holds what was accepted, as far as its
fields reach (`Holds`), whatever bytes follow a string that `strncpy` cut off.
`AnswersAreWritten` is exact: what is printed was written by the core for that command if there
is a core, and is the uninitialised buffer if there is none. The parser adds `LinesAreSplit`
and `JoinedArgumentsInLine`, for lines and limits of every length: up to the cursor the line
holds the text with a NUL for every separator and dropped quote, `argv` lists the starts of the
pieces passed so far, and a piece is open exactly if the last of them has not met its end.
Every argument then lies, with its NUL, before the next one starts, so that no join of them is
longer than the line was. Longer than its buffer it may well be
(section 6).

**`RoutinesProofs`**, about loops of the C library, each with the loop's invariant, which
`RoutinesInvariants` states (`SortInv`, `MoveInv`, `LineInv` and so on):

- `QsortSorts`: the areas still to be sorted are apart from each other, and everything
  outside them is in its final place; the array stays a permutation of the input.
- `MemmoveMoves`: in either direction, the bytes not yet moved are still those of the call.
- `LinesAreDrawn`: `err` always carries the pen's distance from the ideal line, and that
  is at most half a pixel (`OnCourse`).
- `PrefixIsPrinted`: the output is what fits of the text an endless buffer would hold. The
  property names what the code does where it goes wrong: an unknown conversion that is cut
  off takes one byte more, so that its NUL lands behind the buffer (section 6), size 0 is no limit at all, and a last "%l" is read past.
- `HeapIsSound`: blocks are apart, inside the heap, and hold what their owners rely on.
- `TimeIsFormatted`: as long as the format has no item that is counted wrongly, the
  count is the number of bytes written. The proof found that the exemption for
  `asctime`'s format holds only for its own 26 bytes; `FormatsTime` now says so.

- `BufferIsString`, the refinement of `StringBuffer`: the array starts with the string, its
  NUL is inside, and the bytes behind are those of the start. Each function is a write of a
  prefix and a NUL at the start or at the end of the string (`WriteWhole`, `WriteStart`).
- `TokensAreRight`: behind `saveptr` the line is as it was, and the tokens found are the runs
  that begin before it, each followed by a NUL.
- `SearchesAreRight`: two strings that part at a place are in the order of what they have
  there; a loop stops at the first place that does not go on; and what limits the search
  (a length, a NUL) lies behind the place that is found.
- `DatesAreRight`: the date of the reference is a date (`DateOf`), which a tomorrow keeps.
  The while loops count off lengths until the rest fits (`CountOff`, `CountOffStops`), the
  for loops add lengths up (`AddUp`), and both meet the closed form for the days before a
  year. The code's leap years are those of the reference. No year is too late, as long as it
  is an int.
- `DigitsAreRight`: what is left of the number and the digits produced determine the number
  (`Divides`), the second loop turns the digits round in place (`Turned`), and Horner's rule
  leads back along the same quotients, in `Meaning` as in `atoi` and `strtoul`. Unsigned
  arithmetic of the int's width loses nothing of its magnitude, the smallest int included.
  What is read back is what the text says (`Shown`): for a negative number in another base
  than 10 the absolute value, because `itoa` and `ltoa` write no sign there. The one number
  exempt is the smallest int in `console_vprintf`.
- `MathsAreRight`: powers of two multiply and divide each other (`PowersMultiply`,
  `PowersDivide`), a number between two of them is a multiple of the spacing there
  (`Representable`), and rounding is off by half a spacing at most and crosses no multiple of
  it (`RoundedBound`). So where the spacing is not above 1.0 rounding crosses no integer
  (`KeepsUnits`), which leaves the cases of `AlmostSum` (`floor`, `ceil`) and `HalfSum`
  (`round`): numbers that vanish in the sum, integers, numbers between integers, and numbers
  more than 1.0 apart. Pi is a number of the format, so no step of `sin` is rounded past it
  (`RoundedWithin`), and the one turn of an angle up to 3 pi is not rounded at all, because
  both are multiples of the spacing at pi (`TurnIsExact`); of the accuracy of larger angles
  nothing is stated. For `pow` (`PowersAreRight`) result and b, raised to the n that is left,
  make up the power that was asked for.

The prover's library has induction only as a theorem about operators, which the installed
provers cannot instantiate. `NaturalLemmas` states it for sets of numbers instead (proved
from the well-foundedness of < on Nat, for Nat and for intervals) and derives that functions
defined by recursion over a prefix of Nat or an interval exist, which is how the proofs reach
the recursive functions of `JarvisCore`, `ScrollLoops`, `Calendar`, `Digits`, `Maths` and
`ShellParser`; searches for the first match (a free page, a block, a node, the end of a
loop) are reached through the least element of a set of numbers.

Assumptions of the C library's modules: sizes and limits are natural numbers, the given strings
are strings of characters that end with their NUL (`SearchAssumption`, `StringsAssumption`,
`BufAssumption`), the units of time are not 0 and the clock starts in 1970
(`CalendarAssumption`), bases are between 2 and 36 (`DigitsAssumption`). The code relies on all
of it and checks only the base: for another one `itoa` and its kin return the empty string
(`stdlib.c:192`), while the console's functions are called with 10 and 16 only. Of the
floating-point format (`MathsAssumption`) the mantissa has at least two bits, 1.0 is a power of
two so large that the distance of the numbers below it is a whole count of quanta, and the
arguments lie below half the largest power, so that no sum leaves the format; pi is a positive
number of the format (`PiAssumption`).

What stays with TLC: liveness (`Returns`, `Terminates`) and ENABLED, which the prover does
not handle.

## 6. Findings

- The page in which the bitmap ends is handed out if the bitmap does not fill whole
  pages (`pmm.c:44`), that is unless memory ends at a multiple of 128 MiB.
- `vmm_map` follows a NULL table when pages run out (`vmm.c:75-76`) before it can return
  `JAR_NOMEM`.
- Table entries keep the flags of the first mapping below them (`vmm.c:64`), against
  the page-level permissions of `docs/ARCHITECTURE.md`.
- Quoted arguments, as the user guide shows them, arrive empty (`shell.c:144`).
- `pow` with a fractional exponent does not return (`math.c:78`): it recurses through
  `exp2`, and the exponent only loses its last bit at each turn.

Without a run of their own:

- A table made by a mapping with PAGE_NX is followed through a wild pointer
  (`vmm.c:58`), against the NX support of `docs/ARCHITECTURE.md`; `CrashesExplained`
  names the case.
- Nothing taught with `learn` is recalled with `jarvis`, because the question has a
  trailing blank (`shell.c:567`); `jarvis_learn` itself is not in the repository.
- Without a core `jarvis` and unknown commands print an uninitialised buffer (`shell.c:178`,
  `570`); `AnswersWritten` states that they do so then and only then.
- `itoa` and `ltoa` drop the minus sign in other bases than 10 (`stdlib.c:194`);
  `DigitsRight` states the absolute value for them.
- The arguments that `jarvis`, `learn` and `search` join are appended without a limit to
  1024 bytes (`shell.c:564`), while a line may have 4095 characters; `JoinedInLine` bounds
  them by the line only.
- `vsnprintf` writes its NUL behind the buffer when an unknown conversion is cut off
  (`stdio.c:140`): it takes two bytes where the loop made sure of one. `PrintsPrefix` states
  the case (`CutConversion`).
- `cd` with an argument changes nothing (`shell.c:329`).
- `floor` of a negative and `ceil` of a positive integer are off by one (`math.c:23`), and
  0 for negative and positive numbers below 2^-54; `round` is one too high for the odd
  integers from 2^52 on (`math.c:192`). An earlier `MathsRight` left out the second and third
  case, and its run had no number so small or so large; both now show in the run.
  `log10` divides where it should multiply (`math.c:110`).
- `strftime` writes "%02d" literally, because `vsnprintf` does not know it (`time.c:177`),
  and counts "%%" and unknown conversions twice, leaving bytes unwritten.

## 7. Plan

Written in the order: memory managers, console, file system, shell with AI core,
GUI, C library. Left for later:

1. `Vmm` over `Pmm` itself in place of the abstract allocator, with the bitmap's
   page handed out as a table.
2. `terminal_create` of the GUI, once something calls it.

## 8. Not modelled

`kmain` writes "OK" to the serial port, fills the first 500 x 500 pixels of the
framebuffer whatever its size (`main.c:28`), halts, and calls none of the components;
`memory_init`, which has no caller, is the initialisation of `Pmm`. Interrupts, scheduler
and drivers are headers with empty sources, and `jarfs.h` declares an interface that
nothing implements. Of `math.c` the series and iterations are left out (`sqrt`, `exp`,
`log`, `atan`, the second half of `sin`): their loops run a fixed number of times and
their accuracy is out of TLC's reach; the same holds for `draw_progress_ring` and the
network's weights, which no other code reads. `errno.c` is a table; `rand` makes no
promise. `jarfs_write`, the VFS functions and file input and output are stubs. The
checksum of a superblock is written and never read.

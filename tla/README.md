# NextBuild v8: verification of the Next runtime and its toolchain

NextBuild is a toolchain for writing Sinclair ZX Spectrum Next programs in
Boriel BASIC: a vendored copy of the zxbasic compiler (`zxbasic/`), a runtime
library in BASIC and Z80 assembly (`Scripts/nextlib*.bas`), Python scripts that
build a program and start an emulator (`Scripts/*.py`), and demos (`Sources/`).

What is hard to get right in it is the runtime: a BASIC program and an interrupt
routine share one set of MMU slots, one register-select port, one sound chip
select and single bytes of RAM, with nothing but `di`/`ei` between them; and the
heap under every string of the program is a hand-written free list in assembly.
What is hard in the tools is that they work on what others left: build scripts on
files of earlier builds, the assembler on labels that are still to come, the code
generator on operands in many places with many special cases. These are modelled
here; the rest of the repository is listed below with the reason it is not.

All paths below are relative to `src/`.

## 1. Inventory

| Part | State it keeps | Operations | Interacts through |
|---|---|---|---|
| Interrupt engine, `Scripts/nextlib_ints.bas` | enable and request bytes at `$fd40`, banks at `$fd3e`, `$fd50`, mailbox at `$fd58`, operands patched into its own code, the temporary stack | program: InitSFX, InitMusic, SetUpIM, DisableIM, StopMusic, PlayMusic, NewMusic, PlaySFX; interrupt: ISR, PlaySFXSys, CallbackSFX, playmusicnl | shared bytes; MMU slots `$50-$52`; port `$243B`; AY select; MyCustomISR callback |
| AYFX channels, same file | three descriptors of 4 bytes at `$fd02` | reset, allocate a channel, advance a frame | called by the ISR only, reset by InitSFX under `di` |
| Helpers, `Scripts/nextlib.bas` | `itbuff` | checkints, ReenableInts, GetReg, GetMMU, MMU8new, LoadSDBank | called by program and by MyCustomISR |
| Heap, `zxbasic/src/arch/zxnext/library-asm/{heapinit,alloc,free,realloc,calloc}.asm` | free list in the heap area, TEMP inside the code | init, alloc, free, realloc, calloc, memavail, maxavail | called by string code and `library/alloc.bas` |
| CTC engine, `Scripts/nextlib_ints_ctc2.bas` (older: `nextlib_ints_ctc.bas`) | as the interrupt engine, the request for a sample at `$fd3f`, bank, start, length and offset of the sample that plays | as above; SetUpCTC, PlaySample; second interrupt: ctc0, one byte of the sample | as above; a table of samples in the program; the DAC |
| Build scripts, `Scripts/{nextbuild,build}.py` | flags from directives, files on disk | parse directives, compile, pack, copy, run | files, exit codes |
| NEX creator, `zxbasic/tools/nextcreator.py` | table of banks | parse, pack, write | cfg file, NEX file |
| Helper scripts, `Scripts/{module,makenexcfg,txt2nextbasic,upload,gui}.py` | little | convert, upload, ask | files, serial port |
| Assembler, `zxbasic/src/zxbasm/` (vendored) | bytes and pending instructions per address, stack of label scopes, temporary labels, namespaces | labels, EQU, ORG, ALIGN, PROC, LOCAL, jumps, END, dump | source text, binary |
| Code generator, `zxbasic/src/arch/z80/backend/` (vendored) | none: a quad gives a list of instructions | one function per quad | the stack, the carry and the memory of the program; runtime routines |
| Compiler front end, preprocessor, optimisers, `zxbasic/src/` (vendored) | symbol table, conditionals, basic blocks | parse, check, rewrite | quads, files |
| Demos, emulator, tools | | | |

What makes each correct, and what makes it hard:

* **Interrupt engine.** The program must not see that an interrupt happened:
  not in its paging, not between the two instructions of a register read, not in
  the interrupt flag. What it requests must happen, once, with the right bank
  under the player. Hard because every routine saves what it overwrites in
  operands of its own code (one copy each), requests are single bytes that
  later requests overwrite, and `._ISR` can also be entered by a plain call.
* **AYFX channels.** A free channel first, else the longest sounding one.
  Hard because times are two bytes compared one by one.
* **Helpers.** `checkints` ... `ReenableInts` must give the caller back its
  interrupt state; the state sits in one byte shared by all callers.
* **Heap.** Blocks never overlap, nothing is lost, what is freed is joined with
  both neighbours, a request is refused only when no gap is long enough.
  Hard because the list is threaded through the blocks, walks remember
  addresses of fields (TEMP), and an off-by-one shows much later.
* **Build scripts.** What ends with exit code 0 was built, from the source as it
  is; the emulator is started on it. Hard because the steps talk only through
  files, which every build finds as the last one left them, and most exit codes
  are not read.
* **NEX creator.** Every file ends where the program will look for it. Hard
  because banks are written in the order 5, 2, 0, 1, 3, 4, 6, 7 and a file that
  crosses a bank goes on in that order.
* **Assembler.** Every operand is the value of the label its name stands for at
  that place, and every complaint is right. Hard because names are used before
  they are defined, may become LOCAL or public when a PROC ends, and temporary
  labels mean the nearest in one direction.
* **Code generator.** Code computes what its quad means and leaves the stack of
  the code around it alone. Hard because of the product of operations, kinds of
  operand and special cases for 0, 1, -1 and powers of two.
* **CTC engine.** As the interrupt engine, with a second handler at about 15 kHz:
  every sample arrives whole, in order, out of its own banks, while frames of
  effects and music page the same slots. Hard because each handler keeps slots
  and select in operands of its own, one resets the offset the other counts, and
  whether the interrupts come back is decided in the code around `._ISR`.
* **Compiler front end**: see the plan.

Every exposure found is in `PROJECT.json` under `hazards`, at its line.

## 2. The modules

| Module | Models |
|---|---|
| `NextLibInts` | the program side by side with `._ISR`, at the granularity of what cannot be interrupted |
| `MCNextLibInts` | pages and constants for TLC |
| `NextLibCtc2` | the engine with samples: the program, the line handler and CTC channel 0, in any order |
| `MCNextLibCtc2` | a sample across two banks and the pages of the program, for TLC |
| `NextLibIntsProofs` | theorems about `NextLibInts` |
| `NextLibCtc2Proofs` | theorems about `NextLibCtc2` |
| `AyFx` | the channel table |
| `AyFxProofs` | theorems about `AyFx` |
| `MemHeap` | the heap, one step per turn of a loop and per list update |
| `HeapSpec` | what a heap promises (abstract allocator) |
| `HeapBytes` | the same heap with its words in memory, reallocate, callocate, memavail, maxavail |
| `HeapBytesProofs` | theorems about `HeapBytes`: types, what is stored is kept; that it implements `MemHeap`; memavail and maxavail |
| `MCMemHeap` | `MemHeap` with a history of what the program asked for, and its refinement mapping to `HeapSpec` |
| `MemHeapProofs` | theorems about `MemHeap`: disjoint blocks, sorted list, joined, nothing lost, types; that it implements `HeapSpec` |
| `NexFile` | `nextcreator.py` as functions, and the loader that reads a NEX file |
| `Build` | `nextbuild.py` and `build.py` over a folder of files (extends `NexFile`) |
| `BuildNexProofs` | theorems about `NexFile` and `Build`: modules and processes, what is in a NEX file, and what a clean exit and the emulator stand for |
| `MCBuild` | programs, parts and pages for TLC; assumes the rules a folder keeps to |
| `Z80` | the processor, as far as generated code uses it |
| `CodeGen8`, `CodeGen16`, `CodeGen32`, `CodeGenF16` | the code generators for bytes, words, double words and fixed point numbers: operands in, instructions out; each extends the one before |
| `CodeGenCast` | the conversions between these types |
| `CodeGen` | a processor running the code of one quad, and what the quad means |
| `MCCodeGen` | the stack of the code around it, for TLC |
| `AsmMemory` | the memory of the assembler: labels, scopes, pending code, dump |
| `Assembler` | the statements that drive it, the calls of `_INIT`, the binary, and what a text means |
| `MCAssembler` | statements to make texts from, for TLC |
| `AssemblerProofs` | theorems about `Assembler`: types, no label is lost |
| `AssemblerNamesProofs` | theorem about `Assembler`: what it says of names is right |

### NextLibInts

Two program counters: `mpc` for the BASIC program, `ipc` for `._ISR`; the
processor runs the program only while `ipc = "idle"`. Variables are the
hardware (`slot`, `sel`, `ay`, `iff`, `line`), the bytes of RAM (`sfxOn`,
`music`, `sfxBank`, `playerBank`, `musicBank`, `mailbox`, `itbuff`) and the
self-modified operands, which are this code's local variables: `exitSlot`
(`exitplayernl`), `selCell` (`skipmusicplayer`), `launchCell` and `frameCell`
(the two `ayfxrestoreslot`), `slot6`. `own` and `ownSel` record what the program
itself last paged and selected, `caller` the interrupt state when it called
`checkints`; `tune` is the state of the external player: what `$4003` was last
called with.

A routine under `di`, like InitSFX, is one action. GetMMU and GetReg are two
(`Select`, `ReadSelected`), a banked routine is `CheckInts`, `BankedBody`,
`BankedReturn` or `BankedError`, because an interrupt can come between
`checkints` and its `di`. `._ISR` runs with interrupts off and is cut where it
branches and where paging changes, so that a property can speak of the moment
the player runs (`ipc = "play"`) or effects are paged (`"launch"`, `"frame"`).
MyCustomISR is the program's own: `CustomOps` says what it may do: nothing,
select another AY chip, page slots 0 and 1, or call a banked routine.

Set-up order is InitSFX, InitMusic, SetUpIM, as in the demos; the order is an
assumption on the program. After that the program may call anything.

Left out: the values the player and the effects send to the chip, the second
module of a TurboSound tune, the contents of banks, and a raster line that comes
at the very first instruction of the ISR() call of SetUpIM, which only runs the
routine twice.

### NextLibCtc2

State in records, as there is more of it: `hw` (slots, select, interrupts and the
vector the line takes), `ram` (the shared bytes), `smp` (the cells of PlayCTC) and
`cell` (the operands that keep slots and selects, one set per routine). A handler is
again cut where it branches and where paging changes; `ipc` says which handler and
where. Both run with interrupts off and never nest, so what matters is which of
them, and which store of the program, comes next: any may. ctc0 keeps two slots and
the select, plays the byte at `smp.offset`, and counts; `._ISR` is as in `NextLibInts`
with `TakeSample` at its end, which replaces the sample that plays. `Exit` gives the
interrupts back only if `raster_line` called `._ISR`. `heard` records bank and
address of every byte sent to the DAC since a sample was taken over, `want` whether
the program last left interrupts on.

Left out: what `NextLibInts` has already (MyCustomISR, banked routines, the state of the
player), the AY select, the TurboSound flag, sample numbers the table does not have.

### AyFx

An address is the number of frames its effect still has, 0 for "not playing".
`Byte` is the number of values of a byte, 256 in the code: times stay two bytes
with carry, compared as the code compares them, low byte first and each on its
own.

### MemHeap

`size` and `next` are the words the heap stores in its blocks, as partial
functions from addresses; `held` is what the program has pointers to. Registers
of the call under way are `hl`, `bc`, `temp` (TEMP) and, for realloc, `again`.
`Alloc`, `TooSmall`, `TakeWhole`, `TakeTail`, `OutOfMemory` are `__MEM_ALLOC`;
`Free`, `Search`, `LinkPrev`, `JoinNext`, `JoinPrev` are `__MEM_FREE`; realloc is
`Free` with a length to allocate afterwards. Address arithmetic is modulo `Top`.
Freeing a pointer the heap did not give out, or twice, is outside the contract
and not modelled.

`HeapBytes` follows the same steps over `mem`, a byte per address: a size or a
link is what `Word` reads, so an update at a wrong address hits what the program
stored. `stored` is what the program may rely on (what it wrote, and the zeros of
callocate), `before` what a block contained when reallocate was called. An
`ldir` is one step a byte, since source and destination overlap. `IsMemHeap` maps
it to `MemHeap`: the functions `size` and `next` are what is found by following
the words from the heap start, so the three modules form a chain from bytes to
promise. `Free` with a length in `MemHeap` is the list's view of reallocate.

`HeapSpec` promises an answer to the one request under way, `want`: a block for that
length, two to five bytes longer, of bytes no live block has, or NULL, which is allowed
only when no run of unused bytes has room for that length and its size word. A
deallocation makes the bytes unused, a reallocation does that and requests. `MCMemHeap`
gives `MemHeap` a history, `asked`: the length as the program passed it, from the call to
its return, whatever the registers of the call make of it. `want` is `asked`, so an answer
to another length, a second answer, or none before the next call is not a step of
`HeapSpec`.

### NexFile and Build

A file is a sequence of cells, `Page` of them to an 8K page, and a cell of a
compiled program is `<<unit, version, n>>`, so that a NEX file says what it was
made of and when. `NexFile` has a function for each line of a configuration, the
flat image with its order of banks, and the machine's loader (external), with
which `InPage` and `Seen` say what is where once the file is loaded.

`Build` has the files of a folder (`src`, `bin`, `cfg`, `nex`, `data`, `dest`,
`trims`), one `nextbuild.py` at a time (`job`, with the settings its directives
gave) and perhaps a `build.py` around it (`outer`). An action is one step of a
script: `ParseDirectives`, `Compile`, `ParseNEXCfg`, `CreateNEXFile`,
`CopyToDestination`, `AnythingToRun`, `Launch`; `BuildNext`, `BuildCopy`,
`StartEmulator`, `DeleteRelatedFiles`. Between scripts the programmer edits a
source, which raises its version. Every step that can fail has its failing
action, and what the scripts do then is theirs: the exit code, the files left. A copy that
fails is mostly reported and forgotten: a module without a binary leaves the file in
`data/` that was there (`nextbuild.py:238-241`). What ends a build instead: `loader.bas`
cannot be written, the message about the copied binary adds a tuple to a string
(`nextbuild.py:678`), the copy of `loader.bas` that `'!autostart` makes at the end fails
(688-696), or the NEX file cannot be opened (`nextcreator.py:550-552`).
A configuration that adds nothing writes no NEX file (511-512), and the build goes on.

A part is a stem and the four characters it ends in. `ParseNEXCfg` names a trimmed copy by
the stem alone and evaluates `trimmed+1` without assigning it (`nextbuild.py:324-328`), so
all trimmed copies of the parts of one stem are one file; `trims` records which part it was
last cut from, and where.

Four rules a folder has to keep to (`FolderRules` of `Build`, assumed in `MCBuild`)
are needed, since `ImageAsPromised` is false without them: a module has `'!module` in the
lines that are read and before any `'!origin=` (`MarkedModules`; else `-m` packs with the
configuration of an earlier build); all trimmed loads of one stem cut the same part at
one offset (`OneTrim`; they share their file); a part that starts below page 16 stays in its bank, as the system variables do
(`StaysInBank`; beyond it goes on in NEX order); and no part goes on beyond the last bank
(`StaysInMachine`). `ImageAsPromised` speaks of programs that lie in the RAM from 16384 to
65535 and are compiled to a binary (`InRam`): with `'!asm` and `'!nextzxos` together the
binary of an earlier build is packed (`nextbuild.py:552-593`). Also to know: the three
directives that compare `noemu == 1` (lines 455, 461, 468) do not keep the
emulator off; `LoadSDBank` lines that contain "sub" are skipped (line 301); the
length argument of `LoadSDBank` is not used; `'!slr` reads its picture over those of
`'!scr` and of the high resolution screen and keeps it nowhere else
(`nextcreator.py:343-362`), so `ScreensKept` is for configurations without one that is
there (`NoLowRes`); `'!pc` with a number other than 0 does nothing.
Left out: snapshots, colour and delay fields of the header, banks from 112, file
names that contain "sub", whose lines `ParseNEXCfg` skips (`nextbuild.py:301`), and parts
named like a trimmed copy (`tr_...0.bnk`).

### Z80, CodeGen8, CodeGen16, CodeGen32, CodeGenF16, CodeGenCast, CodeGen

An operand is a constant, a global variable, an address the assembler works out,
or a temporary on the stack, each direct or, in loads and stores, indirect. A
function of `CodeGen8`, `CodeGen16`, `CodeGen32` or `CodeGenF16` has the name of the
function of `_8bit.py`, `_16bit.py`, `_32bit.py` or `_f16.py` it stands for and
returns its instructions; `Mul8` is that of `arch/zxnext/backend/_8bit.py`, which
the Next uses. `Cast` is `_cast` of `generic.py` with `to_byte`, `to_word`, `to_long`
and `to_fixed` of `common.py`. A double word is in DE (high) and HL, or on the stack
with its low word on top, where the runtime routines take the other operand; a
fixed point number is one with its integer part in DE.

`CodeGen` chooses a quad, its operands with their values, and the carry the code
before it left, and runs the code instruction by instruction; runtime routines are
one step each, which gives their result and loses the other registers. What a
quad means (`Number`, `Truth`, `Converted`) is stated on numbers. The routines for
fixed point products, quotients and remainders (`mulf16.asm`, `divf16.asm`,
`modf16.asm`) lose bits as they shift; `Product`, `Quotient` and `Modulus` give what
they give, and a quad on fixed point numbers means that.

`Undefined` are quads without a meaning: division by zero and the remainder of a
negative number. `Wrong(e)` are the quads for which the code is wrong, under a
name `e` of `Exceptions`:

| Exception | What the code does |
|---|---|
| byte dividend, word dividend | a negative byte gets the wrong sign (section 5); division by 2 is a shift and rounds down |
| remainder by one | `modu16` by the number 1 stops the compiler |
| left in place | shifts of words by the number 0 and a mask of 65535 leave an operand that is not on the stack where it is |
| complement | `bxor16` with 65535 negates |
| shift by one | `shri16` by 1 brings in a 0 |
| swapped anyway | 32 bits, an address and a temporary (`@x - (a + b)`): swapped, although they did not change places (`_32bit.py:279`, and the same line in comparisons and divisions) |
| fixed address | `_f16_oper` takes an address for a temporary and pops it |
| fixed by minus one | `-1 * b` pops the number (`_f16.py:269`); `b / -1` negates a float of five bytes (`_f16.py:301`) |
| fixed remainder by one | `MOD 1` is 0 whatever the fraction (`_f16.py:313`) |

A configuration names in `Tried` the exceptions that are run all the same. The
passing run tries none, and TLC finds a property violated for each name alone
(except that on which the compiler stops). Indirect second operands of arithmetic
are not generated by the front end and left out; an immediate of a double word is a number
(for the address of a label, `_32bit.py:106-107` loads DE from the memory two bytes behind it).

### AsmMemory and Assembler

`mem` is the `Memory` object: `index`, `bytes` and `orgs` per address, `labels`
(an object is its number), `scopes` (a stack of name tables), the temporary
labels by line with those `waiting`, the namespaces, and the first error. An
operand is `label + number`, 0 for no label. Each grammar rule that touches the
memory is an action (`ReadLabel`, `ReadEqu`, `ReadReference`, `ReadProc`, ...) and
reads one statement of a text that is chosen as it is read; then `Assemble`,
`AddCalls` (the calls of `_INIT`) and `Write` (dump). What a text means, addresses,
scopes, values and faults, is computed from the text alone (`Places`, `Owner`,
`Gives`, `Temporaries`, `Faults`) and compared with what the one-pass tables give.

`KeepsRules` are the rules a text must keep for that, and each is a limit of the
assembler: LOCAL comes before the first use of its name; a PROC inside another
defines no public name the outer one has mentioned; a jump to a temporary label
ahead is not on the line of a label of that name (it takes that one); no ORG or
ALIGN after a use of a temporary label (it is forgotten); ORG goes up. Left out:
EQUs that refer to each other in a circle (`RecursionError`), instruction
encodings, output formats.

## 3. What is checked

| Run | Shows | Expected |
|---|---|---|
| `ints` | `Transparent`: whenever the program runs, slots and register select are as it left them. `PlaysTheTuneItKnows`: the player runs only with the tune paged it was initialised for, on the first chip. `InterruptsRestored`: a banked routine returns with the interrupts of its caller | pass |
| `ints_custom` | `TransparentUnderCustom`: with a paging, bank-calling MyCustomISR, a raster line inside SetUpIM and a program that overwrites requests, slot 2 and the register select still survive. `RequestsServed`: a queued effect and a new tune are picked up, as long as the interrupt stays enabled | pass |
| `ints_reentry` | SetUpIM's plain call of ISR() can be interrupted by `._ISR` itself | violation |
| `ayfx` | free channel first, longest sounding next, for effects that stay below the mark | pass |
| `heap` | blocks disjoint, list sorted and complete, coalesced, nothing leaked, every call returns; with the history of requests it implements `HeapSpec`: each is answered for its own length | pass |
| `heap_bytes` | no call changes what the program stored in other blocks or outside the heap, callocate clears, memavail and maxavail are exact, the words form the list of `MemHeap` | pass |
| `heap_realloc` | shrinking a block corrupts what it should keep | violation |
| `build` | `CleanExitMeansBuilt`, `ModulesUpToDate`, `EmulatorRunsThisBuild`: exit code 0, modules in `data/` and the emulator all stand for the source as it is, whatever earlier builds left and whichever step fails. `ImageAsPromised`, `ScreensKept`: the NEX file loads program, parts and pictures to where they belong | pass |
| `codegen` | `ResultAsSpecified`: code computes what its quad means. `StackKept`, `OnlyTargetWritten`: it leaves stack and memory of the rest alone | pass |
| `codegen_signed` | a negative byte divided gives a positive quotient | violation |
| `asm` | `OperandsAreRight`: every operand in the binary is what its name means there (`ImageSolved`), or is refused as undefined or out of reach exactly when it is. `NameComplaintsAreRight`: the seven errors about names, PROCs, namespaces and targets of ORG and ALIGN are given exactly for faults (code that runs past the end of the memory gets none: section 5). `WaitsReachable`: nothing waits for a label that can no longer be defined for it. `InitsRunFirst`: the binary starts with the calls of `_INIT`, if the text ends in code | pass |
| `ctc` | `Transparent`: neither handler shows in slots or register select. `SampleInOrder`: what goes to the DAC is the sample asked for, byte by byte. `RequestsServed`: after SetUpCTC effects and samples asked for are taken up, and a sample goes on | pass |

Ten more configurations are run by hand. In nine TLC finds the property of the
file false: `NextLibInts_hasty.cfg`, `NextLibInts_banked.cfg`, `AyFx_steal.cfg`,
`MemHeap_tiny.cfg`, `CodeGen_fixed.cfg` (fixed point numbers by -1) and
`Assembler_gap.cfg` drop one named assumption each; `NextLibCtc2_end.cfg`,
`NextLibCtc2_im.cfg` and `Assembler_behind.cfg` state what comments of the CTC engine and
a docstring of the assembler say (section 5). The last,
`NextLibCtc2_wide.cfg`, is the safety part of `ctc` on a larger instance (the program
pages slot 1 and calls InitSFX and InitMusic again) and passes.

Each property of a passing run has a mutant, a definition named after the slip it
stands for, placed in the module before the definition it changes, under which
TLC finds the property violated.

**Bounds.** `ints`: one effects bank, one player bank, two tune banks, so that
the wrong tune is distinguishable from the right one; one effect, since the
mailbox only tells empty from full; two pages for one slot the program pages
itself, a slot both the effects and the player page over; one register the
program reads that the ISR never selects. `ints_custom` and the violation runs
keep one tune bank where tunes do not matter. `ayfx`: a byte of 8 values and
effects of up to 6 frames, the longest that stay within the mark; 20 frames
pass a byte. `heap`: 24 bytes, 20 of them for use, hold up to
five blocks at a time, with requests of 2, 3 and 6 bytes: sizes 4, 5 and 8, so
that blocks are taken whole with 0 to 3 bytes over, split, refused because of
fragmentation, and joined on both sides. `heap_bytes`: 18 bytes, 14 for use,
three blocks of four at a time, an address space of 23, with bytes on both sides
of the heap that must stay as they are. `build`: pages of two cells; a main
program with ten variants that use every directive, a source it may redirect to,
one module; parts that cross one and two pages, two of them of one stem; one edit in all
(`MaxVersion`), of any source and at any time, so that it can fall between two builds and
leave files of the old source, while every other source stays as it was. `codegen`: bytes of three bits, all
of their values, words of six bits and double words of twelve, those at 0, at the sign, at the byte
or word and at the end of the range, fixed point numbers with and without a fraction
on both sides of 0; the constants of the special cases (0, 1, 2, -1, powers of
two, limits of unrolled loops) are among them. `asm`: texts of up to eight
statements from six pools, one for each subject (scopes, values and namespaces,
temporary labels, temporary labels with PROCs, origins, starts), every order of statements in each; relative
jumps reach eight bytes, so that a `DEFS` of seven puts a label out of reach.
`ctc`: one sample of which a byte lies in each of its banks, after the
cells of before the first request, which are a sample of their own; a page for
slot 0, which both handlers page, and a register `._ISR` selects too.
Every bound is a constant in a .cfg or a pool in an MC module.

**Deadlock** is checked except in `ints_custom`, where the machine is allowed to
crash into `ipc = "lost"` and stops. The modules of
the tools have an `Ended` step or a programmer who may always start again.

**Fairness.** `WF(ISR)`: the processor executes the routine it is in.
`WF(Interrupt)`: the raster line comes once a frame, so an interrupt that stays
enabled is taken; weak fairness is enough because nothing but the program's
own `di` disables it. The program has no fairness: it may stop or loop.
`SF` for both interrupts of `NextLibCtc2`: each is kept from the processor by the other
again and again, but in hardware IM2 it stays pending meanwhile, and both are quiet for
longer than the handlers take.
`WF(Call)` in `MemHeap` and `HeapBytes`: the processor goes on with the call it is in.
The tools state no fairness: a build may be broken off at any step.

## 4. What is proved

TLAPS checks the following for all values of the constants that satisfy the
named assumptions of the modules.

* **`TypeCorrect`**, **`TableTyped`**: the type invariants of `NextLibInts` and
  `AyFx`, action by action.
* **`ISRTransparent`** (`Transparent`), if MyCustomISR pages nothing and the
  raster line spares SetUpIM's call. `Transparent` is not inductive: during an
  interrupt it says nothing. `PagingInv` adds where the program's paging is while
  the ISR runs: in the slots, in `launchCell` or `frameCell` while effects are
  paged (with slot 0 untouched), in `exitSlot` while the player is paged, in
  `slot6` while the program has a bank mapped itself; and the register select in
  `selCell`.
* **`PlayerMatchesTune`** (`PlaysTheTuneItKnows`), for every MyCustomISR, if the
  program lets the ISR see a NewMusic request before it writes another. `TuneInv`:
  outside request 3 the player is initialised for the bank stored at
  `bankbuffersplayernl`, and from `playmusicnl` on that bank is the paged one.
* **`ReenableIntsCorrect`** (`InterruptsRestored`), if MyCustomISR runs no
  `checkints`. `MaskInv`: `itbuff` equals the caller's state from `checkints`
  to `ReenableInts`, and the interrupts are off while the bank is mapped.
* **`FreeChannelFirst`**, **`LongestIsStolen`** for effects of at most
  `Byte - 2` = 254 frames. `AgeInv`: a free channel has the same byte, `$fd` or
  `$ff`, in both bytes of its time, a playing one has high byte 0 and a low byte
  that with the frames left stays below the mark; then a bytewise comparison is a
  comparison.
* **`BlocksDisjoint`** (`Disjoint`) and **`FreeListSorted`** (`Sorted`), at every
  step of every call, for every heap and requests of at least two bytes.
  `HeapInv` adds that the list is well formed and what the registers mean: in the
  allocation loop TEMP belongs to the block before HL, in the search HL is listed
  and below the block freed, between the joins both blocks are listed. The two
  properties need each other: joining is safe because the list is sorted, and
  sorted because joining only removes a block.
* **`FullyJoined`** (`Coalesced`): `GapInv` says that two free blocks may touch
  only where a free under way has yet to test: at the block just linked, and
  after JoinNext at the block before it. Touching blocks are neighbours of the
  list because it is sorted, so two tests are enough.
* **`NothingLost`** (`NoLeak`): `SpaceInv` says every byte is in a block, and
  every block is held, free, or the one a free is about to link.
* **`HeapTyped`** (`TypeOK`): `RegisterInv`, what HL, BC and TEMP hold between
  the steps.
* **`HeapImplementsPromise`** (`KeepsPromise`): with the history `asked`, every step is a
  step of `HeapSpec` or leaves it alone, and so each call is answered for its own length.
  `AskedInv` says where that length is while the call runs: in `bc` with its size word
  during the walk, in `again` while reallocate frees. A grant is inside a free block, whose
  bytes nobody has. A refusal is the hard case: `WalkInv` says the blocks the walk
  has passed are too small; at its end all are; a run of unused bytes would by
  `SpaceInv` lie in free blocks and by `GapInv` in one of them, which is too
  small. Without joining, the heap would refuse what it has room for.

* **`HeapBytesProofs`: `StoredBytesKept`** (`OthersKept`) and **`TypeCorrect`**
  (`TypeOK`), the heap once more with its words in memory, where a list update
  could hit what the program stored. `ByteInv` says there is a set F of free blocks
  such that the words in memory make a heap of it: blocks lie apart, and the second
  word of a free block is the next of F above it; what the program stored and what
  lies around the heap is as it was; `Walk` and `Registers` say which words the call
  under way may write next. Four lemmas about rigid memories (`CarveTail`, `TakeOut`,
  `LinkIn`, `Absorb`) are the four list updates of `alloc.asm` and `free.asm`;
  `PutSize` and `PutLink` say that a word written into one header leaves every
  other header, `ContentsKept` that it leaves what is stored. F is
  quantified, not computed from the words, so these two need no induction over the list.
  `Moving` carries ldir: of a block from callocate the bytes before DE are zero
  and HL is one behind DE.
* **`WordsAreList`** (`IsMemHeap`): what a walk over the words
  finds takes the steps of `MemHeap`. First, the walk visits exactly F: where the second
  word of each block of F is the next of F above it, `k` links lead to the block of F
  with `k` below it (`ListedIs`), by induction over the number of links, which is the
  library's well-founded induction with the set of good numbers as its parameter. Then
  one lemma per action gives F after the step, and from it sizes and links of the
  abstract list. `TempInv` adds to `ByteInv` that TEMP is 0 outside the loop of
  allocate, as it is in `MemHeap`. With
  `HeapImplementsPromise`, which gives that list its history, the chain from bytes to
  promise is proved.
* **`MaxAvailAnswers`** (`MaxAvailDecides`): a walk of maxavail is the largest size
  in F (`PassedInv`: the loop of allocate has passed only blocks that are too small), so
  a request is granted exactly if it fits that.
* **`NothingLost`** (`MemAvailExact`): `AccountInv` says that the sizes of F, of the blocks
  the program has and of the one a call is about to link add up to the heap.
  memavail adds along the list and the property over a set in no particular order:
  `SumsAre` and `SummingTake` say that the order does not matter, by induction over finite
  sets, and `CutWhole` that cutting a block leaves the sum as it is.
* **`CustomISRTransparent`** (`TransparentUnderCustom`), with no hypothesis on
  the constants: whatever MyCustomISR pages or calls and wherever the raster line
  falls. `PagingInv` without slots 0 and 1 is its invariant.
* **`NextLibCtc2Proofs`: `TypeCorrect`** (`TypeOK`), with that no handler reads
  beyond slot 2 and no offset leaves 16 bits; **`HandlersTransparent`**
  (`Transparent`): `KeptInv` says in which operand each handler keeps what it
  pages over; and **`SampleHeardInOrder`** (`SampleInOrder`) for every sample
  that fits into its two banks, whatever else is in the table: `SampleInv`
  relates what was heard to bank, start and offset of the sample that plays.
* **`BuildNexProofs`: `ModulesDelivered`** (`ModulesUpToDate`), for every folder, all
  sources and whatever earlier builds left. `Phases`: build.py waits for its jobs.
  `Round`: a module no longer on the list of build.py -m is in `data/` or will be, by
  the copy at the end. What the directives at the head of a source set is a loop over its
  lines; that it keeps the settings typed, that only `'!asm` asks for a listing and that
  a module asks for no NEX file is an induction over the lines (`ReadSettings`, by the
  well-founded induction of the library with the set of good lengths as its parameter).
* **`TypeCorrect`** (`TypeOK`), of the same module: a NEX file has a block for every bank
  its header flags, for any configuration, also one packed by hand. Every loop of
  `NexFile` is a fold; `FoldingRuns` gives for each the states after 0, 1, 2, ... lines
  or cells, once for all of them. `CellsLaid`: a file goes to consecutive places of the
  image, across banks, since `NextBank` follows the order of the image (`BankTables`);
  `FileMatches`: writer and loader go through the flagged banks in the same order, so the
  block a bank gets is its own (`Written`).
* **`BuiltOnCleanExit`** (`CleanExitMeansBuilt`) and **`EmulatorGetsThisBuild`**
  (`EmulatorRunsThisBuild`), for every folder, every page size, all sources and parts and
  whatever earlier builds left. `FirstCellSeen`: the program's line is the last of a
  configuration, so whatever the lines before it load, the machine has the program where
  it was assembled. `Making` follows one nextbuild.py: binary, configuration and NEX
  file are each of this source and these settings once their step is done. `Delivery`
  is the same for `-m`, where what counts is the file in `data/`.
* **`WrittenAsPromised`** (`ImageAsPromised`), for every folder that keeps to
  `FolderRules`, every page size, all sources, parts, flags and earlier builds: cell by
  cell, a NEX file just written loads to what the source asks for. `Promised` knows 8K
  pages, the file knows 16K banks in an order of its own: `PlaceOf` takes a page and a
  cell of it to a place of the image, and no two to the same one (`PlaceInjective`), so
  that a file laid at consecutive places changes the cells of its own pages and no other
  (`LaidOver`). A line of a part then does to the image what `Over` does to the memory
  (`PartOver`, `StaysInBank` and `StaysInMachine` are used there), the program's line as
  well (`ProgramOver`), pictures and the entry point leave the image alone (`ImageLeft`),
  and `PartsPacked` is the induction over the lines of the configuration. `Packing` is
  the invariant around it: what nextbuild.py packs is its own configuration, its own
  binary and trimmed copies of the right part and offset (`TrimsDone`, from `OneTrim`), and a module
  never packs (`ReadModule`, from `MarkedModules`).
* **`PicturesKept`** (`ScreensKept`), for every configuration packed by hand without a
  low resolution picture that is there (`NoLowRes`) and whatever builds left in the
  folder: a line of another kind leaves a picture in its buffer and its kind in the
  header (`ScreenStays`), by induction from the last line of the kind on (`ScreenAtEnd`).
* **`AssemblerProofs`: `AssemblerTypes`** (`TypeOK`) and **`AssemblerLosesNoLabel`**
  (`WaitsReachable`), for every set of statements, texts of every length that keep to
  `KeepsRules`, every size of memory and every reach of a jump. `exit_proc` throws a scope
  away: its public labels become global, but where the name is global already only the value
  goes there and the label is dropped. So nothing is lost only if no public label without a
  value has a global namesake when its PROC ends, and no statement sees to that: it is a
  matter of what the text has mentioned where. The invariant `Inv` has two
  parts. `MemSound` is about the memory alone: names and EQUs lead to labels that exist
  (`ScopesName`, `Rooted`), and a label without a value is still in a scope or among those
  that wait (`Held`). `ReadInv` ties the memory to the text while it is read: the open scopes
  are the open PROCs; what an inner scope names is LOCAL in its PROC or mentioned in it;
  what two of them share is LOCAL in the inner one; no public name without a value is global
  (all in `Bound`); namespaces and index are what the text says there. `Bound`
  gives `ExitProcSound` its hypothesis (`EndpReads`); a new name
  keeps it because a lookup goes through all scopes and by `OwnNames` (`NewNameIsOwn`).
  `NoOrgAfterTemporary` and `OrgUp` are used where an ORG forgets the labels that wait
  and where code must not lie behind the index; the other two rules are not used. The
  recursive functions over a text (`Places`, `Opens`, `Spaces`) share one lemma: on the old
  lines they are what they were before the text grew (`StepsAgree`).
* **`AssemblerNamesProofs`: `AssemblerComplainsOfNames`** (`NameComplaintsAreRight`), for the
  same texts: each of the seven messages about a name, a PROC, a namespace or the target of an ORG or
  ALIGN names a
  fault of the text, and a text with such a fault gives no binary. A fault is a matter of the
  whole text and the owner of every line (`Owner`), while the assembler has only its scopes
  and reads each line once. The invariant `NamesInv`, beside `Inv`, says what the scopes know
  of the text: while it is read, `NamesOf` (a scope has a LOCAL label for exactly the LOCAL
  names of its PROC; a name has a value because one definition seated in that scope gives it,
  and each definition read has given one; a public name without a value stands there because
  a line uses it, and every public name used is in a scope; no two names share a label) and
  `FineYet` (none of the faults that reading finds); after ENDP of everything, `Globals`
  (the same for the scope that is left) and `Sound`, and after the calls that every name of
  `_INIT` is there too; at any time, `Justified` (the message there is has its fault). Reading
  a line is proved in two steps: the text grows by the line with the memory as it was
  (`NamesOfGrow`, `FaultsGrow`), then the memory takes the name (`DefinesAnswers`,
  `UseNames`). `EndpAnswers` and its lemmas move the definitions of a PROC to the scope around
  it; `OnlyGlobals` is the end of the text; `DumpTells` that dump finds every name left without
  a value (`GlobalsMissed`) and adds messages about operands only. `FaultsAre` says that the
  faults in these terms are those of `Faults`.

All heap theorems are for every heap and for requests of at least two bytes, those
of `HeapBytes` for a memory of up to 65536 bytes, so that a word holds every address. `Build`
assumes of its sources what the parser of the scripts accepts (`ProgramsAssumption`:
addresses below 64K, a switch or a unit or a part per directive), that what is built is a
file of the folder (`UnitsAssumption`), that `None` is none of the records
(`NoneAssumption`), that configurations packed by hand consist of lines nextcreator.py
knows (`HandWrittenAssumption`), that `Tools/sysvars.bin`, which is in the repository, is
there (`PartsAssumption`), and that a compiled program is never empty (the compiler writes
its start code). The rules of a folder are used for `WrittenAsPromised` alone, where they
are its hypothesis, and `NoLowRes` for `PicturesKept`; `MCBuild` asserts them, so folders
that keep to them exist.

The assumptions are needed: `ints_reentry` and `NextLibInts_hasty.cfg`,
`NextLibInts_banked.cfg`, `AyFx_steal.cfg` and `MemHeap_tiny.cfg` each drop one and find a
property false. `ModulesUpToDate` speaks of
modules that can be built (`Buildable`): one whose head has `'!asm` makes a listing and no
binary, one with `'!origin=` is compiled from another source.

Only model-checked: `RequestsServed` and `CallsReturn`, since liveness is out of
reach of the prover; the three properties of the code generator, since `Z80` uses
bitwise operators the prover does not have and values of operands are recursive; and of
`Assembler` the two invariants about the values in a binary, `OperandsAreRight` and
`InitsRunFirst`. `OperandsAreRight` does not hold for arbitrary pools, so there is nothing to
prove without more hypotheses: its `ImageSolved` fails with a `DEFS` of no bytes (item 8 of
section 5), and the value of EQUs that refer to each other in a circle is not defined.

## 5. Where the code disagrees with what it says

1. **SetUpIM** (`nextlib_ints.bas:270-274`) enables interrupts and then calls
   ISR(), whose single temporary stack (lines 294-297) does not survive a second
   entry.
2. **NewMusic then PlayMusic** within a frame: the request byte is overwritten,
   "re-init the player" (line 213) never happens, the new bank is played with the
   old tune's state.
3. **checkints** keeps its result in one byte, so a banked routine called from
   MyCustomISR, which line 313 allows, can make the program's ReenableInts leave
   interrupts off.
4. **Longest sounding** (line 381): wrong once a time passes 255 frames.
5. **Heap**: one-byte requests make blocks that cannot hold a free block's
   header (`heapinit.asm:15-28`).
6. **Reallocate** (`realloc.asm:88-90`) promises the content of the old block,
   but frees and allocates before it copies: when the freed block joins free
   space, the new block is cut from its tail and the new size word, then the copy,
   overwrite what was to be copied. Strings do not notice, since `strcpy.asm`
   overwrites the block afterwards; a program that calls `reallocate` does.

7. **Signed division of bytes** (`div8.asm:34`, `60`): the sign of the quotient is
   taken from the remainder instead of the dividend, so -4 / 2 = 2.
8. **dump** (`Assembler_gap.cfg`) completes only the first instruction stored for an address
   (`memory.py:187`): behind a `DEFS` of no bytes a jump to a label ahead goes to 0
   (`asm.py:97-98` promises a value or an error).
9. **Double words and fixed point** (`_32bit.py:279`, `_f16.py:269`, `301`): operands
   that are swapped although they did not change places, a temporary popped that
   was never pushed, and a division by -1 that is said to "do NEG32" (`_f16.py:289`)
   and negates a float instead. The table in section 2 lists them by name.

10. **Samples** (`nextlib_ints_ctc2.bas:1094`): "is sample_offset < sample_end? Then jr
   to playing" plays also when they are equal, a byte behind every sample and one
   at address 0 of bank 0 when SetUpCTC starts. The `jr c` below it makes the lines
   that "reset offset" (1098) unreachable: no sample loops, whatever its table says.
11. **SetUpIM of the CTC engine**: `._ISR` ends in a `ret` that "pops ei and reti"
   (`nextlib_ints_ctc2.bas:374`). That is so after SetUpCTC, whose vector leads
   through `raster_line`; the vector of SetUpIM is `._ISR` itself, and the first frame
   is the last.

12. **Code behind the memory** (`memory.py:75-77`): `__set_byte` "Raises an error if
   org > MAX_MEMORY". It does not; only the targets of ORG and ALIGN are tested. A text
   whose code runs past address 65535 is assembled without a word (`Assembler_behind.cfg`).
13. **Temporary labels** (`memory.py:85-88`) are said to be "forgotten" when a PROC
   ends, "and used ones must be resolved at this point". `exit_proc` does not touch them:
   they are found across PROC and ENDP, and forgotten at an ORG or ALIGN.
14. **Start behind a label** (`zxbasm.py:171`, `185`): where a text with `_INIT` lines ends
   in a label, a slot is opened there (`memory.py:117-120`) that counts as a byte, and the
   start of the program is set one byte behind the calls. `InitsRunFirst` leaves such
   texts out.

Items 2 to 5 and 8 to 12 are shown by the configurations run by hand, 1, 6 and 7 by runs,
and 13 and 14 were read in the code (that of 13 is what `asm` checks against).

Of the same engine, seen while reading: the fifth sample of the demos' table
(`Sources/ModuleDemo/ctctest.bas:64`) is longer than its two banks and ends in slot 2,
its program also asks for a sixth; SetCTCSampleTable (line 1000) stores the address
over the first entry of the table; NewMusic (46-62) leaves its second parameter on the
stack and reads it from HL, where the caller happens to have had it. And of
`nextlib.bas`: MMU8new (558) writes slot and bank into its own NEXTREG, so a call of it
from MyCustomISR can redirect one of the program.

The two rules for channels also stop holding at 254 frames, one below a byte:
a channel that ends is marked with `$fdfd` (line 640), and a channel that has
played 254 or 255 frames has a larger low byte and is taken before it. This is
the bound of the theorems in section 4.

Reallocating to 0 or 1 bytes is outside the model (`BytesAssumption`): the code
has no test for them (`realloc.asm:135-140`), counts its copy down from below
zero and leaves the heap. `realloc.asm:87` promises otherwise of 0.

## 6. Not modelled, and the plan

Not modelled: the compiler front end (its parser is a generated table; its
symbol table is next in the plan), the preprocessor, the optimisers, the
float, string and array back ends and parameters on the frame; graphics, text, sprite and DMA routines
of `nextlib.bas` (straight-line output, no shared state); text conversion and
upload scripts (formatting and I/O); demos, emulator and binary tools.

Of the Python lines of the repository about a third cannot be modelled at all:
`get-pip.py` is an archive in a string, `ply/` a copy of a parser generator, and the
parsers and lexers are generated tables or grammar rules without state.

Order of work:

1. *(done)* `NextLibInts`, `AyFx`, `MemHeap`/`HeapSpec`, `HeapBytes`, their runs and theorems.
2. *(done)* `NexFile`, `Build`.
3. *(done)* `Z80`, `CodeGen8`, `CodeGen16`, `CodeGen32`, `CodeGenF16`, `CodeGenCast`,
   `CodeGen`.
4. *(done)* `AsmMemory`, `Assembler`.
5. `SymbolScopes`: scopes, forward references and which functions are kept. Known
   already: a function whose address is only taken inside another one is dropped
   (`zxbparser.py:175`), and `@name` then `goto name` in a SUB stops the compiler.
6. *(done)* `NextLibCtc2`.
7. `NextLibInts` composed with `MemHeap`, and MMU8new called from both sides.
8. *(done)* Proofs about `NextLibCtc2`, `Build` and `HeapBytes`.
9. *(done)* The words of `HeapBytes` as the list of `MemHeap`.
10. *(done)* Proofs: NEX files, `CleanExitMeansBuilt`, `EmulatorRunsThisBuild`,
    `ImageAsPromised`, `ScreensKept`.
11. *(done)* Proofs: types of `Assembler`, no label is lost, what it says of names is right.
12. Proofs: what the binary of `Assembler` contains, for texts without gaps of no bytes and
    without circles of EQUs.

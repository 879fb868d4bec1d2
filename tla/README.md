# Verification of the AM335x PRU package

The repository holds two programs and some examples: **PASM**, the PRU assembler
(`pru_sw/utils/pasm_source`), **prussdrv**, the Linux user-space driver that loads
PRU programs and exchanges interrupts with them (`pru_sw/app_loader/interface`), and
example applications that use both (`pru_sw/example_apps`). This directory models
them in TLA+, checks the models with TLC and proves the central results with TLAPS.

Contents: 1 inventory, 2 the modules, 3 the runs and their bounds, 4 fairness and
other assumptions, 5 where the code and its own texts disagree, 6 proofs, 7 what is
not modelled, 8 plan.

## 1. Inventory

| Component | State | Operations | Interacts with |
|---|---|---|---|
| Two-pass engine (`pasm.c`, `pasmdot.c`, the label users of `pasmop.c`) | pass, code offset, entry point, label list, call register, program image, error count | pass start and end, one statement, output | reads the label list through expressions; every other PASM part reports errors to it |
| Preprocessor (`pasmpp.c`) | open source files and their conditional stacks, file records, equates | open, close, `#include`, `#define`, `#undef`, `#ifdef`, `#else`, `#endif` | feeds lines to the engine; cleared per pass, except file records |
| Macros (`pasmmacro.c`) | macro list, use flags, expansion counters | `.macro`, `.mparam`, `.endm`, expansion | reads lines through the preprocessor and feeds expanded lines to the engine |
| Scopes, structures, assignments (`pasmstruct.c`) | structure list, scopes and their assignments, current scope | `.struct`, `.ends`, `.assign`, `.enter`, `.leave`, `.using`, name lookup | names are unique over labels, equates, structures, assignments, scopes (`CheckName`) |
| Expressions (`pasmexp.c`) | none | parse and evaluate | labels, `SIZE`, `OFFSET`, `&` of structures |
| Instruction encoding (`pasmop.c`) | none | words of one instruction | label offsets, registers |
| Driver (`prussdrv.c`) | `prussdrv`: one descriptor and one thread per host interrupt, mapped base addresses | init, open, exit, PRU control, program load, memory access, interrupt controller, events, irq threads | uio kernel driver, INTC, PRUs |
| Driver, addresses (`prussdrv.c`) | none of its own | hardware version tables, map and translate addresses | mappings of the latest open |
| PRU-to-PRU example | PRU programs, flags in DDR memory | open, load, wait, clear, judge, exit | driver, both PRU programs |
| SPIScan server (`SPIScan.c`) | last command, five parameter structures, scan flag | receive a datagram, stop the running program, arm the DMA, write the parameters, start a program | UDP clients, driver, DMA device, PRU data memory |
| SPIScan PRU programs (`SPIScan.p`, `SnakeScan.p`, `TRIGScan.p`, `TRIGScanDACOUT.p`, `IV.p`, `SetV.p`, `ReadCH.p`) | registers: position, steps, counters | load parameters, step the DACs, wait for the trigger, sample, halt | data memory, ADC and DAC over SPI |
| Data RAM, shared RAM, `blink`, `blinkslave`, `SPItest`, `dmx` | cells of data RAM or DDR memory | open, prepare memory, load, wait, clear, judge, disable | driver, one PRU program each, whatever the example before left on the board |
| Output files, listing, debug file, command line (`pasm.c`, `pasmdbg.h`) | options, program image with its file and line numbers, labels, error count, exit status | read the options, raw listing during pass 2, then each file in turn | image and labels of the engine, file records of the preprocessor |
| Tokenizer (`ParseSourceLine`) | none | cut a line into terms | feeds every other PASM part |

What is hard about them, and the properties that make each correct:

* Engine: values depend on the pass (a forward label is 0 in pass 1), some state is
  reset per pass and some is not. Correct: both passes put every statement at the
  same offset; no word is overwritten; what is written is a correct assembly of the
  program; no error pattern is written out; PASM ends.
* Preprocessor and macros: nested inputs (includes, conditionals, expansions) can
  each end early, by an error or at a limit. Correct: a line is assembled exactly when
  all conditionals around it select it; both passes assemble the same text; records
  and in-use marks are not shared, and none is left behind without a report; local labels
  differ; everything ends.
* Scopes and structures: names become visible and invisible again, in any order.
  Correct: the current scope is open; a name means the same in both passes.
* Layout and encoding: the same byte is named in four ways, in two byte orders, and a
  move of a structure is put together from all of them. Correct: all agree, the move
  takes each element to its own bytes in memory, and a word has one reading.
* Output files: each is opened when the passes are over and may fail alone; the debug
  file and the listing find words through indices and offsets computed in advance.
  Correct: an output is whole or the old one, success means that all are new, and a
  reader of the debug file or the listing finds every word at its line.
* Driver: three processors and a kernel driver share the interrupt controller;
  register writes interleave with events; failures of `open` leave partial state;
  threads block on descriptors that another thread closes. Correct: no wake without
  an answer that no one clears away, no answer lost for good, what is in use is mapped,
  exit closes what open opened and nothing else, and waits for interrupts only.
* Examples: the board outlives the process. A `main` that is killed leaves its PRUs
  running, half a program in a memory, or an event pending. Correct: a PRU only ever
  executes a whole program, and an example that finds the board idle ends in success
  and leaves nothing behind.

* SPIScan: nothing waits for a scan to end, so commands meet programs at every point;
  words pass through a datagram, a structure, the data memory and a register, in an
  order written down four times; counts may be 0; the server may die while a program
  runs. Correct: a program uses the parameters and the DMA of its own command, samples
  at the points asked for and at all of them, is still once stopped, and ends.

`PROJECT.json` lists the hazards line by line.

## 2. The modules

### 2.1 The two-pass engine

`PasmProgram` describes statements and what they mean for a code offset and a label
table. `PasmPasses` is the engine: its actions are `BeginPass`/`OpenFails` (the loop
of `main`), one action per kind of statement, `EndPass` and `Finish`. `Assembly` says
what a correct assembly is, without passes; `PasmPasses!ImplementsAssembly` states
that the engine implements it. `MCPasmPasses` builds the bounded sets of programs and
`PasmPasses_proofs` holds the theorems.

A program is a sequence of statements; a statement has one expression
`mul * sym + add`, so it can write a constant, a label, a label plus an offset, or a
shifted label. An instruction word is a record of its kind and its value; how the
bits are put together is module `PasmOp`. The history variables `at` (the offset
before each statement, per pass) and `fresh` (image words stored in this pass) exist
for the properties only.

`Assembly` asks for a correct layout only of *regular* programs: those in which no
`.origin` and no 32-bit `MOV` takes its value from a label further down, and something
has set the code offset before the first quick branch. The engine does not promise
more; section 5 says what happens to the others.

### 2.2 Names: scopes and structures

`PasmScope` models `pasmstruct.c` and the name check of `pasm.c` over the two passes:
structures with their elements, scopes with their assignments, the current scope, and
the labels that survive into pass 2. `view` is a history of what each name stood for
at each statement. A program may start in an included file, because a failed line of
pass 2 ends the file it is in, not the pass. `Freed` is the value of a pointer whose
record has been freed: using it takes the model to the phase "undefined".

### 2.3 Layout, operands and encoding

`PasmRegister` has registers, fields and byte lanes. A *lane* is the place of a byte
in the register file: lane `4r + k` is bits `8k..8k+7` of `Rr`; the byte order decides
which address is in which lane. `PasmLayout` models `.assign` (where the elements of a
structure land) and the ways to refer to an element. `PasmOp` models `ProcessOp`:
operand checks (`Legal`), the forms an instruction is patched into (`Forms`), the bits
of a form (`Encode`), and the loop that cuts `ZERO` into pieces, one action per piece.
A word is the set of its bits that are 1.

`PasmUse` composes them: a program is one instruction, or it assigns a structure and
then moves it (`MoveAll`) or an element of it (`MovePart`) with a burst. `Move` is the
point where they meet: it writes the instruction with the register, `SIZE` and
`OFFSET` that `StructParamProcess` puts into the line, and `PasmOp` reads and encodes
it. The parts keep their own variables (`layoutVars`, `opVars`) and share `big`.
`MCPasmUse` gives the structures and the instructions.

### 2.4 Expressions

`PasmExp` models `Expression`: terms and operators are read into two arrays, then the
operator that binds tightest is applied and the gap closed, until one value is left.
`Meaning` is the value by the rules of C, which the operators and their precedence are
taken from; it is the reference the arrays are compared with. Unary operators and
parentheses are part of a term, that is, of the value it yields; so a term is missing only when it
stands alone: `-` or `~` before nothing yields a value in the code (section 5).

### 2.5 Macros

`PasmMacro` models definitions (`MacroEnter`, `MacroLine`), calls (`Call`) and the
stack of active expansions (`ProcessMacro` calls `ProcessSourceLine`, which calls
`ProcessMacro`: `stack` is that recursion). `Release` marks the macros of an unwound
stack as free again. The text of a renamed local label is the tuple of the label, the
number of its macro and the number of the expansion.

Files matter to macros because a definition ends with its file. `Include` enters the next `k` lines
as a file of their own (`last` is its end; `outer` holds the files that wait for it, each with the
definition it is in: the lines of a file included inside a definition are processed, not stored);
`IncludeEnds` goes back. `DefinitionFails` is `MacroEnter` returning -1: the file has ended, or a line
is too long, for which `GetSourceLine` also returns 0 (`pasmpp.c:413`), or there are too many errors. The
macro stays listed and in use, pass 1 goes on (`unended`, history, has these macros), and only
`EndPass`, a step of its own, clears the list. `unchecked` is on where lines are asked for without a
look at the error count: after an include (`pasmpp.c:387-389`) and after a line that is too long.

### 2.6 Preprocessor

`PasmPre` models the open files (`stack`), the conditionals they share (`cc`), the
file records that pass 2 finds again (`records`) and equates. A frame is `head` while
`ProcessSourceFile` is about to look at the error count: the count stops a file only
between two lines of text, not between directives. `own` and `by` of a conditional are
history: its own condition, and the depth of the file that opened it.

### 2.7 Output files

`PasmOutput` models what is around the passes: the options (`ReadArgs`, `Selected`),
the raw listing written during pass 2, and after the passes the image as C array, text,
binary in either byte order, debug file and annotated listing, in the order of the code
(`WriteOutput`). Pass 1 is only its error count. What pass 2 reads is a source file, a line at
a time: a line may be skipped, generate up to two words, declare a label, set the
origin, or include a file, itself as well. A file that is included again while it is
open has a second record; one that has been closed reuses its first (`Include`), and
words name their source by the number of the record. The passes themselves are
`PasmPasses`; here a line is accepted or `GiveUp` ends them. `emitted` is the history
the outputs are compared with. A word of code is its number in `emitted`, 0 where the
image has a hole, and a byte of it is a pair, so that byte orders show. `Keep` selects the elements
of a sequence that are in a set; it is a recursive function, which a proof can expand, where
`SelectSeq` of the library cannot be.

Modules that one proof module extends together have specifications with names of their own:
`Spec` (`PasmUse`), `ScopesSpec` (`PasmScope`) and `OutputSpec` (`PasmOutput`); `Spec` (`Prussdrv`)
and `RoundsSpec` (`PruEvents`).

### 2.8 Interrupt controller and events

`PruIntc` is the controller as prussdrv programs it, write by write, and the uio
driver's interrupt handler; both are external and taken from the way `prussdrv.c` and
the PRU programs use them. A host or channel number is the set of its bits, because
`__prussintc_set_cmr` and `_set_hmr` or into registers. `PruEvents` composes it with a main thread that
uses `prussdrv_pru_send_wait_clear_event` and a PRU that answers.

### 2.9 Examples

`Examples` puts whole applications on the board: the `main` of each, its PRU programs,
the controller and the kernel, one example after another. An example is a record of what
its `main` opens, prepares, loads, waits for and checks, and the actions are the calls of
`main` in the order of the code: `Open`, the writes of `pruintc_init` (`IntcWrite`),
`ExampleInit`, `prussdrv_exec_program` word by word (`ReadFile`, `WriteMemory`, `Enable`),
`EndProgram`, `Wait`, `Reenable`, `ClearEvent`, `ExamplePassed`, `Disable`. A PRU program
is the sequence of its effects on events and memory cells; `Execute` takes one, of the
program that the first word in the memory of the PRU belongs to. `blinkslave` is the one
program that loops, until `main` clears its cell. `SPItest` differs from `blink` in pins
only and is the same record.

`Kill` ends the process at any step; the PRUs, their memories, `memory` and the
controller stay, and `Start` begins the next example on top of them. A missing program
file ends the process too (`fseek` on a null pointer) and is an instance of `Kill`. An
empty one is the second alternative of `ReadFile`; `/dev/mem` that does not open is one
of `ExampleInit`. `clean` is history: none of these failures has happened
to the run, and it found both PRUs halted and no event pending that a host which is on listens
to (`IdleBoard`). That no interrupt is raised would not do: a `main` that is killed inside
`pruintc_init` leaves an answer pending with its host on and the way between them not yet
set; nothing is raised, and the next run sets that way and takes the old answer for its own.

`Rendezvous` is the abstract specification of the PRU-to-PRU example: PRU0 asks, PRU1
sets its flag, PRU0 sets its own, and only then the verdict may be "passed". `Again`
starts another.

### 2.10 Driver life cycle

`Prussdrv` models `prussdrv_init`, `_open` with every way it can fail, `_exit` (unmap,
then close and join interrupt by interrupt) and the irq threads, over the open
descriptors and live mappings of the process. The application opens and closes
descriptors of its own at any time (`own`), so that the numbers the kernel gives out are
used again, and holds addresses it got from `prussdrv_map_prumem` and the like
(`pointers`).

### 2.11 SPIScan

`ScanProgram` models the seven PRU programs. A program is a record of what it has of
the common parts (what LBCO loads, trigger, DAC output, turns) and its labels are the
values of `pc`; an action is the code from one label to the next, named for the label.
`regs` has the registers by the names of the `.hp` files; that `DY` of the snake is
also `r24`, the counter of the delays, is in `SUBLOOP2`. Waits for the SPI controllers
and converters are part of the step they delay.

`SpiScan` composes it with the server. Every call of a command of `LOCAL_udp_listen` that
changes something outside the server's locals is an action, in the order of the code, so that the
running program may take steps between any two. `cmd` is not initialised, so it starts with any
value. `Kill` and `Restart` leave the PRU, its memory and the DMA as they are. `SpiScan_proofs`
holds the theorems.
PASSVALUES reads the data memory in one step: the server only writes it while the PRU
is disabled, except when the program was left behind by a killed server. The ghost
`mine` sets those programs apart; `started` keeps the structure as it was at start.

## 3. Runs

Every run stops at the end of a program (`CHECK_DEADLOCK FALSE`): PASM, `main` of the
examples and an exited driver do stop; the SPIScan server waits for datagrams that no one sends any more.

| Run | Question | Bounds, and why they are enough |
|---|---|---|
| `pasm_passes` | Do the passes agree, is the output a correct assembly, does PASM end? | every program of up to 4 statements that move or read offsets and up to 3 with calls and rejected lines. Two labels and four statements hold a forward and a backward reference around a statement of either size; `MAX_PROGRAM` 16 with default origin 8 lets programs reach the end of the image; `QB_REACH` 3 and `MAX_ERRORS` 2 make both limits bite |
| `pasm_scopes` | Scope chain, meaning of names in both passes, also with unfinished structures | after a declared structure every sequence of 5 scope statements over two scopes and one assigned name, and every 4 structure statements; 0 or 2 lines in an included file. Reopening a scope, assigning again and leaving takes five |
| `pasm_operands` | Do layout, `OFFSET`, `SIZE`, `&`, register names and the burst that moves a structure agree? Does a word have one reading; are `ZERO`, wide `MOV` and bursts right? | all structures of up to 3 elements of 1, 2 and 4 bytes, from every field of R0 and of the last two registers, both byte orders: every alignment and both ends of the register file; each structure and each element moved by a load and a store. Every opcode with operands that are right, wrong in kind, or at a limit; every generated word is compared with those of one instruction or more per opcode and field that differs; `ZERO` of 0 to 9 bytes at each alignment and at the end of the register file |
| `pasm_expressions` | Is the value the one of C, and does an expression with a missing term have none? | up to 4 operators, at least one of each level and two where order matters (`*` and `/`), words of 4 bits so that products and shifts wrap; `MAXTERM` 4 is below the longest expression |
| `pasm_macros` | In-use marks, local labels, termination | two macros with bodies of up to two lines that may call each other, up to two uses; any 5 lines; limits of 1 argument, 1 label and 2 lines that programs exceed; any 5 lines among them files of 1 or 2 lines and lines that are too long (a definition in a file, its end, and a call after it take four; a file inside a definition that holds another five); files of up to 3 bad lines and calls after an error, against `MAX_ERRORS` 4: the limit is reached in a definition, in a file and after one |
| `pasm_preprocessor` | Conditionals, equates, file records, termination | main file of up to 4 lines and an included one of up to 2, `CC_MAX_DEPTH` 2, 3 open files, 4 records: self-inclusion meets each of the limits |
| `pasm_output` | Are outputs whole or old, and do debug file and listings name every word? | two files of one or two lines, the last one ended or not, each including the other or itself up to two deep; up to three words, one or two per line; holes before and after words, also at address 0; an image of 10 words that programs fill; all seven outputs in several combinations, each of them failing |
| `events_rounds` | No stale wake, at most two wakes per answer, every call returns | 4 rounds: a spurious wake of one round is consumed in the next, and its clear may drop the answer after it; the state repeats from there |
| `events_wait` (violation) | Is a wait an answer? | 2 rounds show it is not |
| `example_runs` | Does a PRU execute whole programs only? From an idle board, does an example end, in success, leaving nothing behind, and is the PRU-to-PRU example a rendezvous? | two runs, each of any example: every one after every other, killed at any step or not. Three kills in a row can leave what two cannot; the safety properties are proved for any number of runs (section 6). Images of two words: a load can be cut in the middle |
| `drv_lifecycle` | Are mappings and pointers in use mapped, does exit close its own descriptors only, what can it wait for? | two interrupts, three opens, one descriptor of the application, `FirstFd` 3 (0 to 2 are the standard streams): an open that succeeds, one that fails at each point, one repeated, and one after exit and init |
| `spi_scan` | Do parameters, points, samples and stops fit the commands? | two datagrams, `STOP_SCAN` besides at any time, and one kill: every pair of commands, the second at every point of the first's program or preparation, also after a restart. Registers of 8 values and DACs of 4 make positions and counts of 0 wrap; lines of one to three points and one to three lines let a snake turn both ways |

What they show, property by property:

* `TypeOK`, `PassesAgree`, `NeverOverwrites`, `ImplementsAssembly`, `Terminates`
  (`PasmPasses`). The bounds in `TypeOK` (offsets, image) are limits the code has to keep.
  The other modules state theirs to document the state; the properties run there are
  stronger. That no word of a rejected line is written out is part of `ImplementsAssembly`.
* `ScopeChain`, `SameMeaning` (`PasmScope`; the latter also across an unfinished
  structure); `InMemoryOrder`, `ReferencesAgree` (`PasmLayout`); `OneReading`,
  `ClearsItsRange`, `LoadsTheNumber`, `NamesAgree` (`PasmOp`); `MovesElements`
  (`PasmUse`); `StepsKeepMeaning` (`PasmExp`; also that an expression with a missing term has no value).
* `InUseWhileUsed`, `LocalLabels`, `Terminates` (`PasmMacro`); `SelectedByAll`, `SameText`,
  `RecordsReused`, `Terminates` (`PasmPre`).
* `WholeOrOld`, `DebugFileReads`, `ListsEveryWord` (`PasmOutput`).
* `FirstWakeIsReal`, `AtMostTwoWakes`, `AllRoundsEnd` (`PruEvents`); `EndsClean`,
  `RunsWholeImage`, `ImplementsRendezvous`, `RunsEnd` (`Examples`); `StaysMapped`,
  `ExitClosesItsOwn`, `ExitWaitsForInterrupts` (`Prussdrv`).
* `OwnParameters`, `OnGrid`, `AllSamples`, `StoppedMeansStill`, `ScanEnds` (`SpiScan`).

Each is stated with its comment and source lines in its module, and each is broken by a
mutant of the code it is about, which stands next to the definition it replaces
("Mutant:" comments) and is listed in `PROJECT.json`.

## 4. Fairness and other assumptions

* PASM is one sequential process that waits for nothing: `FairSpec` is weak fairness of
  `Next`.
* The ARM's main thread, each PRU and the kernel run on processors or in contexts of
  their own, so each has weak fairness of its own step. A blocked `read` and a `WBS` are
  disabled steps, and fairness asks nothing of them. No strong fairness is used: an
  interrupt stays raised until it is taken.
* A PRU that is enabled takes its next step, unless the next one is `WBC` of the trigger: nothing says
  the trigger comes. The server has no fairness: `ScanEnds` does not depend on it.
* Interrupt counts are what a descriptor has read, as the uio interface defines; `seen` is set at open.
* `Prussdrv` takes calls in the order the examples make them: `init` before any open
  and again after every exit, irq threads only for interrupts whose open has returned 0.
* In `Prussdrv` irq threads and the thread that exits are scheduled; nothing is assumed of
  interrupts, so `ExitWaitsForInterrupts` allows an exit that waits for one.
* In `Examples` nothing makes `main` start or be killed; a run ends because `main`, the
  PRUs and the kernel take their steps.
* Before a program of `PruEvents` starts the controller is as after reset or as an earlier
  program left it, with any set of events pending, but the kernel has no interrupt
  outstanding. `Examples` starts after reset, and what is left over comes from its own runs.
* The assumptions on constants say what the syntax gives: a structure has an element at least
  (`LayoutAssumption`; `pasmstruct.c:262` refuses an empty one), the operands of an instruction are
  registers, fields, numbers or addresses (`OpAssumption`, `Arguments`), and the names of a program are
  neither the root scope nor a register (`ScopeAssumption`).
* Values stay below 2^32 in the engine; words wrap in `PasmExp`. A shift by a word or more is undefined
  in C: `ShiftMasks` selects what the processor does, and the run uses that of x86, where PASM is built by default.

## 5. Where the code and its own texts disagree

One is a run of its own, with a TLC counterexample:

* `events_wait`: `prussdrv_pru_wait_event` enables the host interrupt while the event is
  still pending (`prussdrv.c:426`), so one answer of the PRU wakes two waits. The
  example calls it to "Wait until PRU0 has finished execution"
  (`PRU_PRUtoPRU_Interrupt.c:171`).

For the others the property that states the text is in the module, and fails there; add
it to the INVARIANTS or PROPERTIES of the run named to see the trace.

| Property (run) | The text | What the code does |
|---|---|---|
| `BranchesLand` (`pasm_passes`) | "Validates that the current offset is ready to be used" (`pasm.c:1131`) | `GetJmpOffset` subtracts `CodeOffset` before `ValidateOffset` has set it (`pasmop.c:1648`): a quick branch that is the first statement is encoded from -1 and stored at 8 |
| `LabelsStand` (`pasm_passes`) | "Offset changed between pass 1 and pass 2" (`pasm.c:382`) | only the offset at the end is compared; a later `.origin` hides that labels have moved |
| `ImageInBounds` (`pasm_passes`) | "Max instruction count" (`pasm.c:83`) | `.origin` is not held to `MAX_PROGRAM` (`pasmdot.c:262`): a program that ends in one is written out from beyond `ProgramImage` |
| `VisibleOnce` (`pasm_scopes`) | "already a structure or scope" (`pasm.c:1115`) | `.using` makes a scope visible without looking at its names (`pasmstruct.c:191`) |
| `ElementsInStructure` (`pasm_scopes`) | "Can not add element - missing .struct" (`pasmstruct.c:282`) | an unfinished structure of pass 1 leaves `pStructCurrent` pointing to a freed record (`pasmstruct.c:222`), to which elements of pass 2 are added |
| `MappedExists` (`pasm_operands`) | "returns a string of the proper register" (`pasmstruct.c:769`) | an assignment ending in `*` may run past R31 (`pasmstruct.c:773`) |
| `MoveSize` (`pasm_operands`) | "Arg[1] must not be larger than the move size" (`pasmop.c:576`) | bits 23..8 are missing from the cases of the switch (`pasmop.c:580`), so a source of that field keeps 16 bits in an `MVIB` |
| `LinesKept` (`pasm_macros`) | "Else store the line as part of the macro" (`pasmmacro.c:186`) | every line that begins with a dot is dropped without a report (`pasmmacro.c:168`) |
| `RefusedIsRecursive` (`pasm_macros`) | "Illegal recursive use of macro" (`pasmmacro.c:222`) | a definition that ends without `.endm` leaves its macro in the list and in use (`pasmmacro.c:147-148`). When that was in an included file or at a line too long, pass 1 goes on (`pasm.c:674`, `pasmpp.c:413`, `822`), and every later call is refused as recursive |
| `FileClosesItsOwn` (`pasm_preprocessor`) | "#endif mismatch in file" (`pasmpp.c:314`) | only depths are compared (`pasmpp.c:313`): a file may close its includer's conditional and open another |
| `DuplicatesIgnored` (`pasm_preprocessor`) | "ignore exact duplicates" (`pasmpp.c:894`) | `CheckName` refuses every name that is an equate already (`pasmpp.c:875`), so the code for redefinitions is never reached |
| `OpenReports` (`drv_lifecycle`) | "prussdrv_open open failed" (`PRU_PRUtoPRU_Interrupt.c:151`) | what `open()` returned is not looked at (`prussdrv.c:251`): a second interrupt that cannot be opened returns 0 |
| `OpenReturns` (`drv_lifecycle`) | the same message, line 145 | when the first one fails the memory is mapped through -1 and the version register read through that mapping (`prussdrv.c:96`) |
| `ExitUnmaps` (`drv_lifecycle`) | "Disable PRU and close memory mapping" (`PRU_PRUtoPRU_Interrupt.c:193`) | exit unmaps what the last open mapped (`prussdrv.c:578`) |
| `SnakeTurns` (`spi_scan`) | "It should work for both positive and negative values of dx and dy" (`SnakeScan.p:295`) | `DY` is `r24` (`SPISnake.hp:135`), which the delays count down to 0 (`SnakeScan.p:405-410`): from the third line on `dy` is 0 |

Three things about SPIScan that no text denies: the snake does not set `Fx` back, so on its way
back it samples at the columns 1 to `pF` (`OnGrid`); `STOP_SCAN` sent to a server that was
started again does not stop the program left behind, since `scanning` is 0; and the asserts of
`TEST_UDP.py:72-79` look at the ends of the first line and column, not at the far corner.

`ExitClosesItsOwn` holds for every `FirstFd` but 0 (section 6). In a process that has closed descriptor 0, `open()`
returns 0, which prussdrv takes for "not open": the property then fails.

Seen while modelling, and either part of the models or outside what they tell apart; no text denies them:

* After a kill, an old PRU1 program or a pending event may wake the next example early, and
  it may then report success from the results of the run before. `clean` excludes such runs.
* The shared RAM example does not clear the cells it compares before it loads its program.
* `main` of every example ignores what `prussdrv_exec_program` returns: with an empty file it
  waits for an event that may not come. A program always starts at its first word; the entry
  point of `.origin` and `.entrypoint` is in the debug file only.
* `.bin`, `.img`, `.h` and `.txt` are written without a look at what `fwrite` returned: a full
  disk leaves a short file and exit status 0. Only the debug file is checked.
* In the annotated listing a last line without a newline shows only its first word, which
  `ListsEveryWord` allows for, and the number of instructions it reports for the first file counts
  a hole at address 0 (`pasm.c:1234-1241`).
* `prussdrv_get_phys_addr` knows the mappings of the latest open; an address from an earlier one
  translates to 0. A failed open cannot be repeated: every later one returns -1.
* `-` and `~` before a term that is missing, as at the end of `5 + ~`, are applied to 0: `EXP_getValue` looks for
  an error there, not for a missing term (`pasmexp.c:303-322`), and the expression has a value.
* A burst is not checked to end within R31, and the command line never selects big-endian order
  nor a core but V1 (`pasm.c:277`); the models have all of them.

## 6. Proofs

`PasmPasses_proofs` proves, for every set of programs and every value of
`MAX_PROGRAM`, `QB_REACH` and `MAX_ERRORS`, from `ProgramAssumption` and
`PassesAssumption` alone:

* `TypeCorrect`: `Spec => []TypeOK`. It is inductive as it stands. The content is that
  every statement, failing or not, leaves offsets, image and history well formed; the
  lemmas `EmitType`, `NextLineType` and `RejectedType` are the shared parts of the actions.
* `PassesAgreement`: `Spec => []PassesAgree`. `PassesAgree` compares two histories and
  says nothing about labels, so it is not inductive. `AgreeInv` adds why it holds: while
  no error is reported, (a) the offset before the next statement is `CodeOffset`; (b)
  each label that pass 1 has been past stands at the offset it was met at, which needs
  that an accepted label was not in the list before; and (c) in a program with settled
  sizes each statement of pass 1 moved the offset as `After` says *with the labels as they
  are now*, because a label read for a size was defined before (`AfterStable`). Pass 2
  starts at the same offset and applies the same function, so the offsets stay equal.
  `CleanStatement` shows that every statement that reports nothing is one step of that
  shape, and `AgreeStatement` does the induction step once for all of them.

* `OffsetsGrow`: `Spec => NeverOverwrites`. `FreshBelow` says that what this pass has stored lies
  below the code offset, and `StatementForward` that no statement moves the offset back.
* `PassesImplementAssembly`: `Spec => ImplementsAssembly`, the refinement. Only the step that
  writes the output maps to a step of `Assembly`; all others stutter. `OutputInv` says what holds
  until then, without errors so far: the call register and the entry point are those of the
  statements passed (`CallInv`, `EntryInv`), each statement of pass 2 has its words in the image
  and nothing else is there (`ImageInv`: a word of pass 1 is overwritten, because the passes
  agree), and the offset is past the image only by an `.origin` (`RoomInv`). `CorrectAtEnd` is the
  last step.

`PruIntc_proofs` has the lemmas on the controller. With them `Prussdrv_proofs` proves of `PruEvents`,
for any number of rounds and whatever an earlier program left pending:

* `WakesBounded`: `RoundsSpec => []AtMostTwoWakes`, and `NoStaleWake`: `RoundsSpec => []FirstWakeIsReal`.
  Wakes are counted against answers; `Room` is how many interrupts the event that is pending, or
  the answer under way, can still raise, and the invariant (`Counted`) bounds the sum. It needs the
  state before the PRU starts (`BeforeExec`): an answer left over reaches no host that is on until
  the write that clears it, which takes the order of the nineteen writes of
  `prussdrv_pruintc_init` (`WritesAre`, `RoutingKept`).

`Examples_proofs` proves, for every number of runs and every length of a program, whichever are
killed:

* `WholePrograms`: `Spec => []RunsWholeImage`. `LoadInv` says where a load is: while `main`
  writes, the PRU is off and the words before `word` are the program's; when it enables the
  PRU all of them are. It also keeps the memory of a halted PRU full (`NotOff`), which is what
  `Execute` preserves. A kill leaves the PRU off or its memory full, at every step.
* `RunsEndClean`: `Spec => []EndsClean`. `CleanInv` follows a run that began on an idle board:
  before its programs start nothing is pending that it could hear (`BeforePrus`); then the PRUs are
  at places of their programs that fit the events pending and the cells written (`Alone` for one
  program, `Together` for the two that talk, where each fact names how far the other has come);
  and what `main` has heard is what they have said (`Heard`). The proof found the case that
  `IdleBoard` excludes (section 2.9); two runs are too few to reach it.
* `ExampleMeets`: `Spec => ImplementsRendezvous`, the refinement: `BoardMeets` maps every step to
  a step of `Rendezvous` or a stutter, from the same invariant.

`Prussdrv_proofs` also proves of `Prussdrv`, for any set of interrupts and any number of opens:

* `UsedIsMapped`: `Spec => []StaysMapped`. `MapInv` adds that mappings are named by the open
  that made them, so that the next open's are new (`OpenMaps`), and that a thread exists only
  for an interrupt whose open returned 0.
* `ExitKeepsFiles`: `Spec => ExitClosesItsOwn`, if `FirstFd > 0`. `FilesInv` splits the open
  descriptors into those of the application and those exit has not come to yet, each named by one
  interrupt. It needs that `open()` returns a number not in use (`FreeIsFree`, a pigeonhole
  argument over the finite set of descriptors) and that exit meets the interrupts in order
  (`Loops`). For descriptor 0 the theorem is false, see section 5.

`SpiScan_proofs` proves, for every set of datagrams, every bound and every register and DAC width:

* `StoppedStill`: `Spec => StoppedMeansStill`. The action property needs a state invariant,
  `StillInv`: while a program runs that this server has started, `scanning` is 1 and the
  server is waiting or on its way to `prussdrv_pru_disable`. `PruRuns` says that only a running
  program takes steps and `OutputsStill` that nothing else changes the outputs, so a stopped
  program and the server's preparations exclude every step that could.
* `ParametersAreOwn`: `Spec => []OwnParameters`. A parameter is followed from the structure
  through the data memory (`ServerInv`) into the registers (`Loaded`), against the DMA counts set
  before. That the four lists agree which word is which is `AllFit`, once for each command;
  `StepKeeps` says that no step of a program writes a register that holds a parameter.
* `SamplesAreAll`: `Spec => []AllSamples`. `CountsInv` relates the history variables `dots` and
  `taken` to the counters in the registers, program by program (`ScanCounts`, `SweepCounts`,
  `ReadCounts`). `TimesIs` is the point: a counter is decremented before it is tested, so 0 stands
  for the whole range; `RestLess` is the same for the sweep of IV, which counts from `Count` to
  `Stop` round the range.
* `PointsAreOnGrid`: `Spec => []OnGrid`. `GridInv` gives each position register as a function of the
  lines and points finished, modulo the range of a DAC (`Same`): registers wrap at a multiple of that
  range (`SamePlus`), and the inverse of the snake changes the sign in the low half only (`InverseIs`).
  The snake case needs that `Fx` is not set back, so that the end of one line is the start of
  the next. Both rest on `DatagramAssumption` (a word of a datagram fits a register) for the
  values and on `RegsInv` and `LabelInv` for which registers are set where.

`PasmMacro_proofs` proves, for every set of programs and every limit:

* `MarksFitUse`: `Spec => []InUseWhileUsed`. `UsedInv` adds that active calls name existing
  macros, that a file has no call while it is in a definition, and that no two files are in the
  same definition, so that `.endm` frees it for all of them. The second needs that no directive is
  stored in a macro (`Kept`, `AbsorbType`), so that an expansion never starts a definition. A mark
  belongs to one of three sets that stay apart: the definitions under way (`Open`, which entering
  and leaving a file do not change), the active calls, and the definitions given up. `ErrInv` says that
  there is none of the last kind without an error.
* `LabelsAreLocal`: `Spec => []LocalLabels`. That two expansions never share a name is
  `NamesInv`: a name carries the Id of a macro and a count no greater than that macro's, Ids differ,
  and an expansion under way has the latest count. That both passes give the same names compares a
  state with one of the pass before, so `SameInv` keeps the states of pass 1 (`Run`, a sequence that
  exists while there is no error): `NoErrorShows` says that a step without an error is determined
  by what both passes have in common (`View`, `Forward`), so pass 2, which starts where pass 1
  started, is always in one of them.

`PasmPre_proofs` proves, for any files, names and limits, from `PreAssumption`, which says of the
command line that it defines finitely many names:

* `SelectedTogether`: `Spec => []SelectedByAll`. Inductive as it stands: `CondStep` lists what a step
  can do to the conditionals, and `SelectedStep` goes through the list. The one case with content is
  `#else`, which turns the last flag over only if the ones outside are on.
* `PassesReadTheSame`: `Spec => []SameText`. As for the macros, `SameInv` keeps the states of pass 1.
  What both passes have in common is the equates, the conditionals, the files with their lines and the
  words so far (`View`); the labels and the records differ. `NoErrorShows` goes through the actions:
  without an error the next view is a function of this one (`Forward`), the labels being looked at in
  pass 1 only. A program cannot go on where pass 1 ended, because no file is open there (`FinishedEnds`).
* `RecordsAreReused`: `Spec => RecordsReused`. `RecInv` ties the open files to the records in use, one to
  one but for the records of absent files, which stay in use. That pass 2 finds a record
  for every file it opens needs all of the above: the files it has open are those of a state of
  pass 1, for each of which there was a record (`Housed`), records keep their files (`RecordsKeep`),
  so if all of the records of a file were in use, more of its instances would be open than are
  (`RoomFor`, a pigeonhole argument). `MinIs` shows that the record taken, the first free one, exists.

`PasmUse_proofs` is about what names stand for and what is written. Much of this is computed by
recursion or by a fold (`FoldLeft`, `SumFunction`, `FlattenSeq`, `Keep`, `Nearest`), and the induction
theorems of the library take an operator as parameter, which cannot be given here. The proofs use
least counterexamples instead: `LeastNumber` (from `WFMin` and `NatLessThanWellFounded`) gives every
non-empty set of numbers a least element, and from that a fold is the value of a function that exists
(`SumIs`, `KeepsExists`, `FlatsExists`, `ClimbExists`) and agrees with every other one that is built
the same way (`NarrowsAgree`, `KeepsAgree`).

Of `PasmUse`, for every structure, register file, instruction and byte order, from one inductive
invariant, `UseInv`: what `.assign` has accepted is aligned and in its range and `mapped` is the registers
of the elements (`LayoutInv`); the words are those of the instruction read, and while `ZERO` clears, what is
left is the end of its range (`OpInv`); and a move is one of an assigned structure.

* `StructuresAreInMemoryOrder`, `ReferencesMeanTheSame`, `NamesMeanTheSame`: `Spec => []InMemoryOrder`,
  `[]ReferencesAgree`, `[]NamesAgree`. A field, however many modifiers select it, has the lanes of the
  bytes that its first and last byte are computed for (`FieldLanesAre`), and the register that is named for
  bytes lying in one register is that field (`RegnameField`, `AddressIsField`). The elements fill the
  bytes from the first register on without a gap (`ElementsFill`).
* `MovesMeetTheirElements`: `Spec => []MovesElements`. A burst moves a range of bytes; ranges that
  do not meet have no lane in common (`LanesApart`), and every byte of a structure is one of
  exactly one element (`BeforeCovers`), so the elements moved are those meant.
* `ZeroClearsItsRange`: `Spec => []ClearsItsRange`. `ClearedMore` is the step: each piece clears the
  bytes that come next, and none that has been cleared before.
* `MovLoadsItsNumber`: `Spec => []LoadsTheNumber`. The words leave in the register what a fold over them
  gives; with two words the second fills the half that the first one does not.

Of `PasmScope`, for every set of programs:

* `AssignmentsGoToAnOpenScope`: `ScopesSpec => []ScopeChain`. `ScopeInv` adds that parents are older than
  their children and names of scopes are different, so the climb to an open scope ends (`ClimbEnds`,
  `NearestIsOpen`).
* `PassesAgreeOnNames`: `ScopesSpec => []SameMeaning`. `SameInv` names one run of the statements
  (`Run`, by `Effect` of each) and says that while there is no error both passes are on it, pass 2 from
  the start again. There is one difference between the passes that it has to allow: a structure that pass 1
  left unfinished is a freed pointer in pass 2, whose use is undefined (`UseFreed`), while every other
  statement has the same effect in both. The labels of pass 1 are apart from all other names
  (`Apart`), because pass 2 checks each new name against them.

Of `PasmOutput`, for every set of files, origins and size of the image, from `OutputInv`, whose parts
are needed because the properties speak of files only: the image holds the words generated so far, each at
its address and from a line its file has, and holes elsewhere (`ImageInv`); the raw listing shows the words
so far (`RawInv`); and before the passes end no image is written, and a file that was written after
them is `Data` of what they left, for which nothing may change any more (`StageInv`, `DataKept`).

* `OutputsAreWhole`: `OutputSpec => []WholeOrOld`. A byte of a binary file is found through the
  sequences of four that were put one behind the other (`FlattenFours`, `LittleIs`, `BinaryIs`).
* `DebugFilesRead`: `OutputSpec => []DebugFileReads`. The file is header, labels, sources and words
  (`DebugUnits`); the sum of the sizes before a unit grows evenly within each part (`EvenSteps`), so
  the units start where the header says (`DebugStarts`).
* `ListingsShowEveryWord`: `OutputSpec => []ListsEveryWord`. The lines of a file are laid one behind the
  other in the listing (`FlatLaid`); the first of the printed lines of a line is the only one with a
  number, so a reader finds the line of every word (`LineFound`), and what is kept of the image for a line
  is kept once and in order (`KeepAt`, `KeepUp`, `KeepAll`).

The runs use `FairSpec` (`FairRoundsSpec`) where they check liveness; it implies `Spec`, so the theorems
cover them.

Model-checked only:

* liveness (`Terminates`, `AllRoundsEnd`, `RunsEnd`, `ScanEnds`, `ExitWaitsForInterrupts`), which needs
  fairness and `ENABLED`;
* `StepsKeepMeaning`: `PasmExp` computes with `Bitwise`, whose operators are RECURSIVE, which a module
  with a theorem cannot use;
* `OneReading`: that no two of all instructions have the same word compares the bits of every pair of
  forms, whose fields stand at other places for each opcode. The run compares every generated
  word with its neighbours; a proof would be a case for each pair of opcodes.

## 7. What is not modelled

* The tokenizer: how a line is cut into terms, and a path into names. The other modules take
  the terms; it keeps no state, and what it does is character handling.
* Macros: the text of arguments. It may stand in place of the opcode of a stored line, also of a
  directive, which `PasmMacro` does not have; nor does it have includes that cannot be opened, or
  conditionals (`PasmPre` has both).
* Output: file names, the text of listings and headers, and the number of instructions a
  text file reports. `fwrite` that fails, see section 5.
* Driver: the hardware version and its tables of addresses, `prussdrv_get_phys_addr` and
  `_get_virt_addr`, reads and writes of data RAM by the application: address arithmetic
  without state. A program larger than the 8 KB buffer of `prussdrv_exec_program`, or than the
  instruction memory, writes past arrays the models do not have. Calls in an order no example
  uses (open without init, exit twice) work on descriptors of someone else; `Prussdrv` keeps
  to the order of the examples.
* SPIScan: the registers of the SPI controllers, the DMA transfer itself, the clients, and `SPIScanIV.p`,
  which the server does not start.
* Examples: the patterns on pins, the SPI and DMX waveforms, and `dmx`, whose `main` serves
  UDP for ever and never waits for its PRU.
* The Python tools and the device tree: the scripts talk to `/dev/spidev` and not to this code.

## 8. Plan

1. Proofs: `OneReading`, by first telling opcodes apart by the bits that select them and then the fields
   within each opcode. Everything else that is not liveness and not `PasmExp` is proved.
2. SPIScan: the parameter words loaded one by one against a restarted server; the server over the
   descriptors and mappings of `Prussdrv`; an abstract scan (a set of points, each sampled) that the
   programs implement.
3. Driver: `exec_program` against the size of the instruction memory, irq threads started
   twice, the hardware version and its addresses.
4. The tokenizer, as an operator over classes of characters.

# SageApple in TLA+

Models, model-checking runs and proofs for the SageApple repository: a 6502
microcomputer written in Sage (processor, bus, devices, file system, DOS, BASIC,
shell, Apple II machine) with a port of the processor and firmware to an AVR
microcontroller in C.

Paths below are relative to the repository. `tlc -workers 2 -config X.cfg M`
runs a configuration, `tlapm M.tla` checks a module's proofs; `PROJECT.json`
lists every run, the source lines behind every definition, the hazards and the
findings.

## 1. The system

| Component | State | Operations | What makes it correct |
|---|---|---|---|
| SAGEFS (`sageapple/storage.sage`) | 64 KB flash: 16 directory entries (name, size, start, type, flags) and 254 data blocks | format, save, load, delete, rename, lock, unlock | files are independent, inside the chip, unique by name, and read back as saved |
| DOS (`sageapple/dos.sage`) | open text buffers, the *indexes* of the active read and write buffer, limits | DOS 3.3 verbs; `print_line`, `input_line` called by BASIC | active indexes survive closing, no text is lost, locks hold |
| Status LEDs (`avr/led.c`, `avr/main.c`) | blink sequencer shared with the watchdog interrupt, stage row, latched fault | stages, faults, poll, one beat per interrupt | no interleaving derails a pattern; a fault code is told for ever, and apart from a stage |
| 6502 core (`sage6502/cpu.sage`, `flags.sage`) | registers, flags, IRQ and NMI latches; memory through the bus | `step`, `reset`, `interrupt`, `nmi` | instructions, and interrupts no program notices |
| C port of the core (`avr/sage6502.c`) | the same | the same, without autostart | the same registers, memory and cycles as the Sage core after every step |
| Apple 1 bus (`bus/applebus.sage`) | RAM, ROM, devices | read, write | ROM is constant; devices at their registers |
| Apple II bus (`bus/apple2bus.sage`; C port `avr/bus_apple2.c`) | keyboard queue, latch and strobe, video switches, language card, RESET | read, write (soft switches) | no key lost, doubled or reordered; the port's registers and language card agree with the reference |
| Apple II firmware (`sageapple/apple2_rom.sage`, image in `avr/rom_apple2.c`) and its host harness (`avr/apple2_host_main.c`) | cursor and column in page zero; receive ring, transmit buffer | boot, poll, echo, line editing | banner and echoes, each key once and in order; the cursor stays on its grid |
| UART (`devices/uart.sage`; harness `avr/host_uart.c`) | bytes received and not yet read, bytes sent | receive, status, read, write | each byte is read once, by the instruction that means to |
| Devices (`devices/`) | SPI and flash command state, display cursor, tones | byte at a time | protocol order, write-enable discipline |
| BASIC (`basic/basic.sage`) | program, GOSUB and FOR stacks, DATA pointer, ONERR and CONT state | statements, immediate commands | control flow returns where it should; errors leave a usable state |
| Shell (`sageapple/os.sage`, `boot`, `machine`, `terminal`, `monitor`) | mode, exit flag, EXEC nesting | a command line to DOS, BASIC or monitor | routing, EXEC terminates |
| Apple II machine, shell, video | memory switches, cursors | poke, render | switches bracket every access |
| Assembler, compiler backend, tools, Apple 1 ROM images | - | translators, generators | - |

How they interact. The shell hands each line to DOS or BASIC. BASIC calls DOS
for PRINT and INPUT while a text file is active, and DOS reads BASIC's program
for SAVE. DOS calls SAGEFS, which writes the flash array directly; 6502 code
reaches the same chip through the SPI registers of the bus. The processor calls
the bus for every byte, and hosts call `step` in a loop and set the interrupt
latches between steps. Everything in Sage runs in one thread, so its hard
behaviours are long sequences of legal calls, partial failures, indexes and
cached state that go stale, and interrupts between instructions. The firmware
has true concurrency: the watchdog interrupt and the main loop share the blink
sequencer without locking. The list of hazards, each at its line, is in
`PROJECT.json`.

## 2. Modules

| Module | Models |
|---|---|
| `Sagefs` | the file system on blocks and slots: one action per public operation |
| `FileOps`, `FileStore` | what a file system promises: a dictionary of files |
| `SagefsFiles` | the refinement of `Sagefs` to `FileStore` |
| `SagefsProofs` | proofs about `Sagefs` and of its refinement |
| `Dos` | the DOS verbs over a volume of `FileOps`, with its buffers |
| `DosProofs` | proofs about `Dos` |
| `Led` | blink sequencer, watchdog interrupt, main loop, resets |
| `LedProofs` | proofs about `Led` |
| `Alu`, `AluC` | the arithmetic of the Sage core and of the C port, as functions |
| `Accumulator` | both in lockstep under any arithmetic program |
| `AluProofs` | lemmas: `AluC` computes what `Alu` does, in bytes |
| `AccumulatorProofs` | proofs about `Accumulator` |
| `Core6502` | one instruction, all 151 opcodes, as a function of the machine |
| `Program` | what a program may rely on: a processor that nothing interrupts |
| `Cpu` | `step` with interrupts and autostart, refining `Program` |
| `CpuProofs` | proofs about `Cpu` |
| `CoreC` | the C core whole: table, fetch, dispatch, interrupts, cycles, over any bus |
| `Timing` | the cycles the Sage core counts |
| `Port` | both cores in lockstep, each on its own bus |
| `PortProofs` | proofs about `Port`: the C core is the Sage core |
| `BusApple2` | the Apple II bus of the AVR build, with the host's UART |
| `Apple2Bus` | the reference Apple II bus |
| `BusValues` | what the two buses have in common |
| `Buses` | both buses under one guest and one typist |
| `BusesProofs` | proofs about `Buses`: the language cards, video, keyboards and what a guest reads |
| `RomApple2` | the ROM image of the Apple II build |
| `Console` | C core, C bus and ROM put together: the Apple II build |
| `Terminal` | what that build promises at its serial line, which `Console` implements |
| `MCSagefs`, `MCDos`, `MCAccumulator`, `MCCpu`, `MCPort`, `MCConsole`, `MCBuses` | instances for TLC |

`Port` composes `Core6502`, `Timing` and `CoreC`; `Console` composes `CoreC`,
`BusApple2` and `RomApple2`; `Buses` composes `BusApple2` and `Apple2Bus`.

### Sagefs
`dir` is the directory, a function from slots to entries; `disk` says what each
block holds: erased, directory, or part *k* of a blob, so the byte-wise
writing, erasing and masking of addresses become operations on blocks. `ret` is
the return value. An entry keeps its length in blocks, the only use the code
makes of the size when it allocates. `Save(n, v, t)` is the whole of `_save`:
slot scan, run search for one block more than the data needs, erasure of the
old blocks if the file moves, the entry, the data. `find_free_run` looks for a
run of blocks not in the used list; blocks past the end of the chip are never
in that list, and `write_byte` masks the address, so the model wraps the write
as the code does (`PartAt`). After such an overrun the directory's bytes are
data; what the file system does then depends on them byte by byte, and the
guard `Intact` stops the operations (only `Format`, which repairs it, goes on).
Names longer than twelve characters are cut when stored (`Trunc`): the cut name
never compares equal to the full one, so such a file cannot be found and every
save of it takes another slot. The run uses names that are stored as they are.

### Dos
`buffers` is the sequence of open buffers, oldest first; `activeRead` and
`activeWrite` are indexes into it with 0 for nil. The volume is a dictionary
(`FileOps`), which `StoreSpec` of the run `fs` justifies; a save may also fail
(full) or overrun the chip (`lost`). A refused command, whatever its message,
is `Refused`. `CloseAll` is the loop that closes from the front and stops at
the first save that fails. A lock is stated by naming the commands: under every
`SparingVerb(n)`, that is all but UNLOCK n, RENAME n and INIT, a locked `n`
keeps its entry (`Kept`). `LockedKeptUntilClose` excuses the CLOSE of a buffer
with text opened under that name, which is the defect `dos_lock` shows, and the
save that overruns the chip; `LockedNotOverwritten` excuses only the latter.
`LoadText` is the effect of joining lines with CRLF and splitting them again: an
empty last line disappears. Verbs that change neither volume nor buffers are not
actions; EXEC, LOAD, RUN, BLOAD and BRUN wait for the modules of what they
change.

### Led
`seq` holds the `seq_` variables and the pin, `todo` the stores that `led_arm`
or `led_idle` have still to make, in program order: one store is one action
(`Store`), and the interrupt (`Tick`, all of `WDT_vect`) may come between any
two. A beat lasts 125 ms, the stores some microseconds, so at most one beat
falls among them (`interrupted`). Before `sei()` there is no interrupt, and
boot is one step. The main loop is `cpu_step`, `CheckMonitor`, `led_poll`;
during `cpu_step` the 6502 may read a waiting byte. The receiver and MCUSR are
the hardware as the code uses it. `shown` and `repeated` are history variables
for counting the pulses an observer sees. With several LEDs the row is
`led_state`, which the pins follow at the next beat; flashing on and off
is not modelled.

### Alu, AluC, Accumulator
The status register is the set of flags that are 1. Each operation is a
function that returns the byte and the flags; AND, OR and XOR work on the sets of
the bits that are 1 (`ones`). `AluC` keeps the port's own way
of computing (subtraction by complement, overflow from the result's sign
against both operands). `Accumulator` runs the same instruction on both, so
that their equality is an invariant.

### Core6502, Program, Cpu
The machine is a record `[a, x, y, sp, pc, p, mem, uart]`; each `proc` of the core is
a function on it. The instruction table is written by operation; it gives the
151 entries of `_build_opcodes`, and the other 105 opcodes do nothing. Memory is
RAM, ROM and UART of `applebus.sage`: the operand of an instruction that reads
$2001 takes a byte received (`rx_read`), writes to $2001 and $3000 send one. Cycle
counts are in `Timing`. `step` is one action with the order of the code: autostart,
fetch, decode, execute, then NMI or else IRQ. `interrupt`, `nmi` and
`request_autostart` set the latches between steps. `frames`, the open
activations with the machine each interrupted, is a history variable; it gives
the refinement mapping of `Transparent`: the program sees the machine under the
lowest open interrupt. `View` is what a program can observe: registers, flags
but B and bit 5 (which `PLP` and `RTI` set in P and which mean nothing outside
a pushed byte), its own RAM and the live stack. `Live` forgets bytes the stack
pointer has passed, to keep the state space finite and small.

### CoreC, Timing, Port
`CoreC` takes the bus as two operators, `bus_read` and `bus_write`, as the C
file links to one. A read returns a byte and the bus it leaves, because some
registers change when they are read; the operand of an instruction is read that
way, opcodes, pointers, the stack and vectors as memory. Operations keep the
numeric ids of the C table (`IDS`); the addressing mode, another table in the
code, is written as the rule it follows (`MODE`). `Timing` writes the cycle
table of `cpu.sage` as a rule too, while `CoreC` keeps it as a table (`CY`), so
that the two are written independently and their equality says something.
`Port` runs one step of each as one action, the Sage core on the bus of
`applebus.sage`, the C core on `bus.c` with the receive ring of `host_uart.c`;
`Interrupt`, `Nmi`, `Reset` and `Receive` (a byte comes in at both) come between
steps. Programs are in memory: a jump into the registers of a device ends the
comparison. The port's cycle counter wraps at `CYCOUNT_RANGE`, 2^32 in the code, and
the reference's does not. In `Console` nothing reads it, and its range is one. The `halted` flag is left out: nothing in either core sets it.

### BusApple2, Apple2Bus, Buses
A bus is a record; memory is a function of the cells written so far, the others
being zero. `BusApple2` is `bus_apple2.c` register by register. Behind it is the
UART of `apple2_host_main.c`, a ring that drops what does not fit. `Apple2Bus`
is the part of `apple2bus.sage` that the port has too, and RESET, the
autostart request and the write protection of $0200-$03FF, which it has not.
The video log of the reference, of which the port keeps the length and the last
entry, is a sequence. In `Buses` a guest reads and writes any of a set of
addresses in any order (`Programs`: one guest per register group, because the
groups do not interact), a typist types, and RESET may be pressed once. `typed`
and `took` are history variables: the keys, and how many the guest has taken.

### RomApple2, Terminal, Console
`RomApple2` holds the bytes of the image that are not zero. `Console` executes
them from reset on: the `Step` action is one instruction, and a key may come in
between any two (`Feed`). `Lead` types a long text unhurriedly, each letter when
the last one was taken, to bring the cursor to page ends. `due` is what the
serial line owes: the banner and the echo of each key the ring accepted. It
gives the refinement of `Terminal`, whose `out` is the transmit buffer.

## 3. Runs

| Run | Result | States | What it shows |
|---|---|---|---|
| `fs` | pass | 27 684 | `FilesInBounds`, `NoSharedBlock`, `FileWhole`, `UniqueNames`, and `StoreSpec`: the volume implements `FileStore` |
| `fs_overrun` | violation of `DirectorySurvives` | - | a save runs past the end of the chip and over the directory |
| `dos` | pass | 656 424 | `ActiveOK`, `BuffersDistinct`, `ActiveFollowsClose`, `ClosedTextIsSaved`, `LockedKeptUntilClose` |
| `dos_lock` | violation of `LockedNotOverwritten` | - | CLOSE overwrites and unlocks a locked file |
| `led` | pass | 61 016 | `PatternRuns`, `LongMeansFault`, `GroupsCount`, `RowIsTrace`, and the liveness properties `FaultKeepsBlinking`, `StageBurstEnds` |
| `led_steady` | violation of `SteadyMeansHealthy` | - | after a brownout the boot stages and one received byte leave the healthy light on, the fault still latched |
| `alu` | pass | 6 144 | `CoresAgree`, `BinaryExact`, `DecimalExact`, `RotateRing` over all bytes and flags |
| `cpu` | pass | 463 784 | `Transparent`, `OneIrqDeep`, `IrqServed` |
| `port` | pass | 285 653 | `CoresInStep`, `CyclesInStep`: the two cores agree on registers, flags, memory, latches, cycles, and the bytes they take and send |
| `console` | pass | 310 768 | `TerminalSpec` (the build implements `Terminal`), `AllEchoed`, `CursorOnGrid` |
| `buses` | pass | 53 262 | `KeysInOrder`, `ReadsAgree`, `CardAgree`, `VideoAgree`, `AllTaken` |
| `card` | violation of `BankHoldsItsBytes` | - | 128 addresses of a language-card bank share one byte |

`TypeOK` is checked in every passing run but `buses`, whose properties fix every
field of one bus by the other.

Bounds, and why they are enough:
* `fs`: six blocks (one of directory, five of data), three slots, two names,
  files of 0, 1 and 2 blocks. A save needs a block more than its data, so two
  large files already fragment the chip, fill it and reach its end; three slots
  for two names leave a free slot before a live entry. The proofs remove the
  bounds for every property of this run.
* `dos`: two names, lines `line` and `blank`, one line per buffer (`MaxLines`),
  three buffer numbers (`MaxId`), MAXFILES 3 (the default) or 2. No two buffers
  share a name, so at most two are open at once, enough for a close in front of
  an active buffer, and for CLOSE of all to stop half way. The third number is
  for a file that is opened again.
* `led`: builds of one and of four LEDs, one reset after power on (`MaxResets`),
  two bytes in the receiver, which is the hardware's limit.
* `alu`: no bound; every operand byte. The registers reach every combination.
* `cpu`: a ROM written for the purpose (a main program with decimal ADC, PHA and
  PLA around JSR, BRK, PHP and PLP; an IRQ handler that tells BRK by the pushed
  status; an NMI handler that changes A, D and memory). Requests are made while fewer
  than two activations are open (`MaxFrames`), so two can be nested and a third
  pending; one autostart (`MaxRestarts`). Every instruction boundary is an
  interruption point. The opcodes the program does not use were compared with
  the table only by their encoding; what they do rests on `Core6502` alone.

* `port`: every opcode with seven operands, in memory and on the UART registers,
  and three sets of registers and flags, chosen so that additions and indexes carry,
  pages are crossed both ways, the stack wraps, addresses wrap at 0 and $FFFF, and
  every branch is taken and not; two steps (`MaxSteps`), so that an interrupt, a
  byte or a reset falls before, between or after instructions, and both lines may be
  pending at once. The ring has two cells (`RXCAP`, 512 in the code): a byte comes
  in only while it fits. All 5 367 starts are machines a program can build with
  loads, PLP and TXS. Memory has the bytes these operands reach; the others read as
  zero and ignore writes on both sides. The cycle counter wraps at 16
  (`CYCOUNT_RANGE`), so that it does wrap. The proofs remove the bounds for every
  property of this run.
* `console`: seven keys, one of each kind the line editor tells apart; up to four
  (`MaxKeys`), into a ring of three cells (two keys; 64 in the code), so that the
  ring fills and drops; after 0, 37 or 253 letters typed before (`Leads`), so that
  the hurried keys meet the end of a row and of a page. The transmit
  buffer has 512 bytes: with the 256 of the harness the longest transcript would
  be cut, which is what its code does. `EVENT_MAX` is the code's $FFFF.
* `buses`: five guests, two byte values, four keys of three kinds, a ring of
  four cells (keys are typed while it has room), three video writes (`MaxEvents`)
  against a counter that stops at two (`EVENT_MAX`, $FFFF in the code), so that it
  does stop.
* `card`: a guest with two addresses of one bank, otherwise as `buses`.

No run turns deadlock checking off. `Port` ends in a step of its own (`Done`)
when the bound on its steps is reached.

Fairness. `Led`: weak fairness of `Tick` (the watchdog timer runs for ever) and
of `Main` (the main loop never waits); none of `Receive` or `Reset`, for nobody
has to send or reset. `Cpu`: the host calls `step` in a loop, so steps that
change the state occur for ever; this is written `[]<><<step>>_vars`, which
says the same as weak fairness since `step` is always possible. `IrqServed`
assumes in its own statement that from some time on no NMI and no autostart
request comes: `step` serves NMIs first, and a stream of them starves the IRQ.
`Console`: the harness calls `cpu_step` in a loop, written as in `Cpu`; keys need
not come. `Buses`: weak fairness of reading $C010 and of reading $C000, which is
how the ROM polls (`AllTaken` is about such a guest). A guest that polls only one
of them gets stuck on one or both buses; see section 5.

## 4. Proofs

Each proof has the same shape: an inductive invariant, a lemma for the initial
states, one step per action, and the property as a consequence. An action
property is proved of one step from the invariant. TLC checked every inductive
invariant on the run of its module before it was proved. Where a leaf of a proof
needs more time than the default, it says so (`SMTT`, `ZenonT`).

| Module | Theorems | Assumptions besides those of the modules |
|---|---|---|
| `SagefsProofs` | `TypeCorrect`, `FilesStayInBounds`, `NoBlockShared`, `FilesStayWhole`, `NamesStayUnique`, `ImplementsStore` | none; the last two `ShortNames` |
| `DosProofs` | `DosTyped`, `ActiveStaysOK`, `BuffersStayDistinct`, `ActiveFollows`, `ClosedTextSaved`, `LockedKept` | - |
| `LedProofs` | `LedTyped`, `PatternsRun`, `LongPulsesTell`, `GroupsTell`, `RowStaysTrace` | - |
| `AluProofs` | lemmas only | - |
| `AccumulatorProofs` | `RegistersTyped`, `PortIsFaithful`, `BinaryArithmeticExact`, `DecimalArithmeticExact`, `RotationsKeepBits` | - |
| `CpuProofs` | `WidthsKept`, `HandlerEnteredOnce`, `ReturnRestores` | `WholeStack` (the first and the last); `[]HandlersKeepI` (the second) |
| `BusesProofs` | `CardsStayAgreed`, `VideoStaysAgreed`, `KeysStayInOrder`, `BusesReadAlike` | `OneCellPerBank`; none; `KeyboardAlone`; `OneCellPerBank` and `CommonGround` |
| `PortProofs` | `AlwaysInStep`, `RegistersKeepTheirWidths`, `PortMirrorsTheCore`, `PortCountsTheSameCycles` | - |

The assumptions of the modules (`SagefsAssumption` and the others that end in
`Assumption`) say that bounds are numbers, that placeholders such as `NoName` or
`Missing` are no proper values, and what range the codes of keys and addresses
have, or what a bus has where: RAM below $0400, ROM from $E000, no device among
them (`BusAssumption`, `PortAssumption`), and that a program starts from registers,
memory and a ring that are bytes and fit (`StartsAssumption`). `ShortNames`
(`SagefsFiles`), a hypothesis of two theorems and not of the module, says that
names are stored as they are given; section 2 tells what becomes of longer ones.
`MCSagefs` has TLC evaluate it for the names of the run.

**SAGEFS**, for any number of blocks and slots, any names, contents and sizes.
That a file is whole is not inductive alone: it needs that no other file shares
its blocks, and that needs that the run found is free of all files *inside* the
chip. The invariant `IInv` is the conjunction of the type invariant and the
three, each but the types under "the directory is intact". The proof has a step
per operation; the ones about `Save` rest on lemmas about `find_free_run`,
`WriteData` (what the written run holds) and `erase_blocks`.

`FInv` adds to it that no two slots show one name and that the type
byte of a live entry is one a caller gave. With them the dictionary `StoredFiles`
changes only at the name an operation was given, and each operation is shown to
be the one of `FileStore` on it: a save is `Put` whether it reuses the slot and
its run or moves the file, a refusal is `Refused`, and a save that overruns the
chip is the loss `FileStore` allows. That an overwritten file is found again
needs the unique names, that it reads back needs `FileWhole`.

**DOS**, for any names, lines, programs and limits. `ActiveOK` and the types are not
inductive: OPEN fills a buffer from a file of type T, so such a file must hold
lines of text (`GoodVolume`), and a new buffer has a number of its own only if
every number in use is below `nextBuffer` (`GoodTable`, which says too that
numbers rise and names differ). CLOSE of all is treated as what it leaves: the table from some
position on, and the volume with the text of the buffers before it, by lemmas on
`CloseAll`. The action properties follow from a description of every step
(`StepShape`, `TableShape`): which buffers stay, and where. For the locks
`VerbsMindLocks` takes the verbs on files one by one.

**LEDs**, for any sets of builds and any number of resets. While `led_arm` or `led_idle` is at
work the sequencer is inconsistent, so the invariant follows it store by store:
`Arming` says that `todo` is the rest of one of two known jobs, `Stored` what
the stores made have left in the sequencer, each counter up to the one beat that
may have fallen among them. When the last store is made this gives `Runs`,
`Tells` and `Counts`: phases have beats to go, the fault told is the one
latched, and the pulses shown and those to come make up the code, where the
first group may be one short. The interrupt preserves the three from then on.

**Arithmetic**, for any set of operands. The invariant `LockStep` is the types
together with the equality of both accumulators and flags. Its lemmas show
operation by operation that the C expressions equal the Sage ones: the
complement is the borrow, the overflow tests are the same test. In decimal mode
the digits are taken apart, each digit's correction and carry proved, and the sum
put together. `RotationsKeepBits` shows that one rotation turns the ring
`2a + C` by a bit, and that nine such turns are the identity.

**Buses**, for any guests, values, keys and bounds.
`CardAgree` is not inductive alone: the bytes at a guest's addresses stay equal
only if no other address is written to the same cell, and whether a write
happens depends on the whole switch state. Hence `OneCellPerBank`, that a guest
uses one address in $D000-$D07F and none of $E100-$E1FF (the run `card` shows
that it is needed), and the invariant `IInv`, that program, switches and cells
of both banks agree, kept by lemmas about
`language_card_switch` against `soft_switch`, whose encodings of the two-read
sequence differ, and about the two offset functions.

`VideoAgree` needs only that the log is a sequence of events and the fields are
there (`SInv`); its proof goes through every register of both buses to show
which touch the screen. The count saturates on one side and the log grows on
the other, so the step adds one below `EVENT_MAX` and nothing at it.

`KeysInOrder` follows from `KInv`: on the reference, the keys after the first
`took.sage` are the latch, if its strobe is set, and the queue behind it
(`SageHolds`); on the port they are the ring, translated (`PortHolds`). Every
register that touches a keyboard is shown to take one key or none, and the
counting of the guest (`taken`) to agree. `KeyboardAlone` says that no guest uses
$C081, where the port has its UART's data register: a key read there passes by
the keyboard.

`ReadsAgree` rests on the three invariants above and on `TInv`: until RESET a
key is valid on the port exactly when it was acknowledged on the reference,
and then both latches hold it (`Together`). `CommonGround` keeps a guest to what
both buses have: not the port's UART ($C081), not the reference's write
protection ($C0EB), and of the card the 128 and 256 bytes the port has. The guests
of the run `buses` satisfy all three assumptions.

**Cores**, for any ROM and RAM in their ranges, any machines to start from, any number of
steps, any ring and counter. The invariant `InStep` says that the port is the twin
of the reference: the C core's record made from the Sage core's machine, with the
same latches and the cycles cut to the counter's width. The machine is a `Machine`
there is, so every register is in its width. The proof goes up from the tables:

* every entry of `IDS` and `MODE` against `OPCODES`, and of `CY` against the rule
  of `Timing` (`EveryEntry`, `EveryClock`: 256 opcodes each);
* reads and writes of the two buses, stack and words, with what a read of the UART
  does to the bus (`PeekAgrees`, `OperandAgrees`, `PokeAgrees`);
* the addressing modes: address, page crossing and length;
* operations by kind: immediate, on memory, shifts, branches, implied. They rest
  on `AluProofs` for the arithmetic;
* one instruction (`ExecAgrees`), then what is pending after it, NMI before IRQ
  (`PendingFollows`), and the step of each core (`StepFollows`).

The counter of the port is a remainder, and `CountWraps` says that counting on
from the remainder gives the remainder of the count.

**Processor loop**, for any ROM, any program, and interrupts and autostarts at
any time. Every operation is shown to leave a `Machine` and to keep I if it was
set (`Kept`), but for CLI, PLP and RTI (`ExecEnds`); that an opcode has an
operand where its operation needs one is a fact about the table (`DecodeFits`).
`WidthsKept` follows with the invariant `Types`. Its hypothesis `WholeStack` says
that all of page 1 is RAM, as it is on the machine, whose RAM starts at 0
(`applebus.sage`); the run, whose program stays near the top of the stack, has
$1E0-$1FF of it.

`HandlerEnteredOnce` cannot hold of any program: a handler may execute CLI, or
return with a status it made up. `HandlersKeepI` excludes just that: while an IRQ
handler is open and no autostart abandons it, the next instruction is no CLI, no
PLP of a status without I, and no RTI that pulls another status byte than its own
entry pushed. `OneIrqDeep` is not inductive. `HandlerInv` adds that
from the entry of an IRQ on I is set in P and in every status saved above it
(`Masked`), so that a return from an NMI or a BRK on top of the handler does not
clear it, and that the status an IRQ saved has I clear (`FoundClear`). Two open
IRQ handlers would contradict each other. TLC finds `Masked`,
`FoundClear` and `HandlersKeepI` true in every state of the run `cpu`. That a status comes back
from the stack as it was pushed is `StatusRestored` (`AluProofs`).

`ReturnRestores` is the step on which `Transparent` rests: an RTI that finds the
three bytes of the entry where the entry left them resumes the interrupted
instruction with the stack pointer and the flags the program had, B and bit 5
excepted, at every position of the stack pointer, also where the stack wraps. It
is about one entry and its return; that the handlers in between keep those bytes
and the registers is theirs to do, and checked for the programs of the run.

Only model-checked:
* liveness: `FaultKeepsBlinking`, `StageBurstEnds`, `IrqServed`, `AllEchoed`,
  `AllTaken`. The prover has no rule for ENABLED, so none for fairness;
* what holds of a particular program, because its bytes are what makes it hold:
  `Transparent` of `cpu`, and `CursorOnGrid` and `TerminalSpec` of `console`;
* `TypeOK` of `console`. Of its parts, the registers of the C core are proved for
  any ROM in `PortProofs` and the receive ring beside them, on the other bus.

`promote_keyboard` in `Apple2Bus` is written as updates of single fields, without
an update inside an update, whose inner `@` the prover expands wrongly.

## 5. Disagreements between the code and its documents

Shown by runs: `fs_overrun`, `dos_lock`, `led_steady`, `card` (see `findings`).

Seen while reading, without a run:
* `docs/sage6502.md:45` says BRK sets `halted`; `cpu.sage:1404` pushes and
  vectors through $FFFE, and nothing sets `halted`. The same page gives P after
  reset as B and I; `flags.sage:251` leaves I only.
* `led.c:211` says the bits of MCUSR "clear by writing a 1 to them"; nothing
  writes it, so a brownout is reported again after the next reset by button.
* `led.h:23-28` gives pulses of one and three beats and a gap of four; the code
  has 2, 6 and 8 (`led.c:29-32`).
* `led.h:46` and `main.c:52` speak of the monitor's banner; the stage is
  done when a byte is *received*.
* With several LEDs, fault codes 4 and 5 light none (`led.c:310`), and a fault
  darkens a finished MONITOR stage, after which the next byte makes the row solid.
* The first group of a fault code may be one pulse short, when a beat falls
  between two stores of `led_arm` (allowed by `GroupsCount`).
* `docs/os.md:162` says the directory takes 16 bytes of block 1; it takes 80.
* The autostart jump (`cpu.sage:455`) leaves SP and I as they are; requested in
  a handler it abandons the frames on the stack.
* INIT, RENAME and DELETE leave open buffers alone; a later CLOSE writes the
  old name back (`dos.sage:100`).

* `docs/sage6502.md:82` calls undefined opcodes "cycle-free"; both cores charge two to four cycles.
* JMP and JMP indirect both take four cycles in both cores; the unused
  `sage6502/cycles.sage` has 3 and 5, and `CHANGELOG.md:213-217` says that the table
  was rebuilt from the NMOS timings, JMP included.
* Offsets of $E100-$E1FF of the C language card lie past its array
  (`bus_apple2.c:172`, 512 bytes).
* Backspace in the Apple II ROM (`apple2_rom.sage:146-172`): DEC $10, BNE, DEC $11
  borrows when the low byte becomes zero, one cell too early; at column 0 it goes
  forty cells back and sets column 39. As the first key it writes $03DA.
  `CursorOnGrid` leaves backspace out.
* The header of `avr/bus.c` (line 9) says that unmapped addresses read 0xFF; the code
  returns 0 (line 65), as `applebus.sage` does, and says so there.
* The ring of `host_uart.c` is not tested for full: the byte that fills its last cell
  makes it look empty (`hu_feed`). The harness never feeds so much at a time.
* The cursor never returns to the top: after enough text it leaves the text page and
  in the end writes to the I/O page.
* A guest that polls only $C000 never sees a key on the C port; one that polls only
  $C010 sees one key on either bus. A RESET consumed by a write to $C010 is lost.

## 6. What is not modelled

Text formatting, messages, the renderers (pure functions of video
memory), the ROM images of the Apple 1 build (data), host tools. Of the buses: registers
that only store a value, the slot ROMs. Display, flash and SPI,
BASIC and the shell are planned, in the order below.

## 7. Plan

1. `BasicControl`: program counter over line and token, GOSUB, FOR, ON, ONERR,
   RESUME, STOP, CONT, RUN, NEW; frames belong to live lines, an error leaves a
   state from which RUN starts clean.
2. `Flash` with its SPI controller (write enable, page wrap, erase) and the
   display's command decoder, byte by byte.
3. The terminal pump of the Apple 1 machine over its UART.
4. `Shell`: routing of a line, EXEC nesting and its termination; composes `Dos`
   and `BasicControl`.
5. Proofs: the types of `Console` for any ROM, from the lemmas on `CoreC` in
   `PortProofs` and on `BusApple2` in `BusesProofs`.

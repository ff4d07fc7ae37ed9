# MazeOS in TLA+

MazeOS is a small x86 kernel: three terminals, round-robin scheduling of up to
six processes, ten system calls, a read-only file system. It has one CPU, no
locks, and interrupts that are on in user mode and in most system calls. What
makes it hard is that an interrupt can come between any two statements of such
a system call, that a tick may leave the interrupted code for long, and that
process state is kept in several places: a pid table, a stack of PCBs per
terminal, parent pointers, saved stack pointers, the TSS and the page tables.

This directory models the parts where that matters, checks them with TLC, and
proves their safety properties, and most of what must happen in the end, with
TLAPS: for any number of processes and terminals, any size of the screen, any
command and any file system image. `PROJECT.json` lists components, runs, hazards,
theorems and, in `map`, the source lines every definition stands for.

    tlc -workers 2 -config MCProcesses.cfg MCProcesses.tla
    tlapm Processes_proofs.tla

## The system

| Component | State | Operations | Interacts through |
|---|---|---|---|
| pid table and scheduler (`src/process.c`) | `available_pids`, `exec_term`, PCBs at the bottom of the 8 KB kernel stacks | `get_available_pid`, `free_pid`, `pit_interrupt_handler`, `context_switch` | terminals' `child_procs`, TSS, page directory |
| halt, execute (`src/syscalls/syscalls.c`) | the PCB: parent, retval, k_esp/k_ebp, esp0, descriptors, arguments | `halt`, `execute` | pid table, terminals, paging; `halt` jumps into the frame of the parent's `execute` |
| file system calls (same file) | `fds` of the PCB | `read`, `write`, `open`, `close`, `getargs` | drivers through function tables |
| vidmap (same file) | `vidmem_virt_addr` of the PCB | `vidmap` | the one user video page |
| terminals (`src/drivers/terminal.c`) | `curr_terminal`; per terminal cursor, line buffer, `ack`, `read_ack`, `child_procs`, `num_procs` | `switch_active_terminal`, `terminal_read`, `terminal_write` | keyboard, screen, `execute` |
| keyboard (`src/drivers/keyboard.c`) | modifier flags; the visible terminal's line | interrupt handler, `keyboard_read` | terminals |
| paging (`src/paging.c`) | page directory, user video and backup tables | `map_*`, `free_user_video_mem` | everyone who draws |
| console (`src/lib.c`) | cursor of a terminal, video memory | `putc` (visible terminal), `putc_buffer` (executing one), `clear_setpos` | terminals, paging |
| exceptions (`src/x86/idt.c`) | `retval` of the PCB | one handler each, all end in `halt` | `halt` |
| RTC (`src/drivers/rtc.c`) | `rtc_interrupt_occurred`, the rate | open, read, write, close, interrupt | PIC |
| PIC (`src/x86/i8259.c`) | the chips' requests, masks and lines in service | `enable_irq`, `disable_irq`, `send_eoi` | every driver |
| file system (`src/filesystem.c`) | the image, read-only | `read_data`, directory entries, `fs_read` | file calls, `execute` |
| boot (`src/kernel.c`) | | initialises all, starts the first shell | all |

What each of them must get right:

* *process core*: the tables describe the same processes; every suspended
  process can be resumed by the code that will resume it; the CPU's stack,
  TSS and user page belong to the process that runs; every terminal is
  served; a terminal that was opened keeps a process.
* *display*: output reaches the writer's own terminal and survives switches;
  the user video page is not mapped for longer than somebody asked for it.
* *keyboard*: a line that was announced is delivered, nothing of it leaks
  into the next one, the buffer's bound is respected, no announcement is lost.
* *console*: writes advance the cursor, backspaces undo keys, the cursor stays
  on the screen.
* *PIC*: a request is accepted in the end; what the kernel writes to the chips
  does what it is meant to, or at least nothing else.
* *RTC*: a reader returns after a tick of its own time, and does return; the
  clock has the rate that was asked for.
* *file system, descriptors*: `read_data` returns exactly the file's bytes;
  reads go on where the last one ended; a program is loaded whole and gets its
  arguments.

## Modules

| Module | Models |
|---|---|
| `ShellStacks` | abstract: stacks of processes, who runs, who is shown |
| `Processes` | the process core: pid table, scheduler, halt, execute, exceptions, terminal switch |
| `ProcessesRefinement` | `Processes` implements `ShellStacks` |
| `Processes_proofs` | TLAPS: inductive invariant and theorems of `Processes` |
| `Refinement_proofs` | TLAPS: every step of `Processes` is a step of `ShellStacks` |
| `Display` | extends `Processes`: screen, backup pages, user video page, `terminal_write`, `vidmap` |
| `Display_proofs` | TLAPS: `Display`, on top of the proofs of the core |
| `Keyboard`, `Keyboard_proofs` | the keyboard interrupt against the readers |
| `Cursor`, `Cursor_proofs` | the position of each terminal's cursor under its two writers |
| `Pic8259` | the interrupt controllers and the keyboard handler's two acknowledgements |
| `Rtc`, `Rtc_proofs` | extends `Pic8259`: the clock's ports, its interrupt and its driver |
| `ReadData` | `read_data()`, one step for each block |
| `CommandLine` | operators: how `execute()` takes a command apart, `getargs()` |
| `Files`, `Files_proofs` | extends both: one process, its program and its descriptors; the proofs of all three |
| `Numbers` | TLAPS: least and greatest number, induction, division; no model |
| `MC*` | instances for TLC |

### Processes

A PCB lies at a fixed place of its kernel stack, so one number stands for a
pid, its PCB and its stack. `available_pids`, `child_procs`, `num_procs`,
`exec_term`, `curr_terminal`, `parent`, `retval` and `k_esp` are the code's.
The CPU is `esp` (which kernel stack it is on), `tss_esp0` (which it will
enter) and `user_page` (which process's 4 MB frame is at 128 MB). `kstack`
says in which function a kernel stack was really left; `k_esp` says what the
PCB claims. They are separate because the code can get them wrong: three
functions save a stack pointer and two kinds of code jump to one.

`PitInterrupt`, `Execute`, `HaltChild`, `HaltRoot`, `ShowTerminal` and
`OpenTerminal` are the handlers from their `cli()` on; each runs with
interrupts off to its end (no `sti()` is reached inside; the ones at the ends
of `pit_interrupt_handler` and `switch_active_terminal` follow the last state
change), so each is one action. An exception is a halt that has written
`RETURN_EXCEPTION` first and may come in the kernel. Calls that are refused
(no pid, no such program) change none of this state and are stutters.
`Launch` is the part of `execute` that three callers share: the system call,
the restart of a root shell in `halt`, and the first shell of a terminal.

Not in the model: the words below the saved frame (a callee-saved register or
EFLAGS), the depth of a kernel stack, `k_ebp` (always saved with `k_esp`), the
loading of the image. `shell` is assumed to be a valid program in the image.
`Init` is the state after `entry()` has called `execute("shell")`.

### Display

A physical page is the set of marks on it: which terminal's process put
something there, by `terminal_write` or through its vidmap page. The four
steps of the switch (remap the old backup address, save, load, remap the new
one) are `SwitchScreen`; the user page is `SwitchUserPage`. `vidmap` is two
actions, because a switch can come between its change of the page table and
of the PCB. Each `putc_buffer` store is one action. `Watched` chooses the
kinds of marks that pages keep: the passing run follows what is written, the
finding's run what is drawn, so neither pays for the marks of the other. All
actions are in both.

### Keyboard

Each key is one action. `keyboard_read` is cut between its accesses to the
terminal: arm, reset the announcement, spin, clear, disarm, copy. Of a line
only the length matters to the driver. `disable_irq` does not hold keys back,
since it writes the PIC's command port (`Pic8259`). `ReadFault` is the page fault of
`memcpy` into a bad buffer, which `read` does not reject.

### Cursor

`putc` and `do_backspace` run in the keyboard interrupt and are one action;
`putc_buffer` is cut at every access to `x_pos` and `y_pos`, with the load and
the store of `++` apart, and so is the `clear_setpos` of a Ctrl-L. Besides the
column and the row a position counts the lines scrolled off (`up`), so that
"where the cursor was" can be said across a scroll. `goal` and `disturbed` are
history: where the running `putc_buffer` should end, and whether anyone else
has moved its cursor meanwhile. Backspace is possible at any time here (the code asks for a
line that is not empty), a superset of what a user can do. `MaxRow` bounds
how far a cursor that has left the screen is followed. Cell contents and the
VGA's hardware cursor are not in the model.

### Pic8259 and Rtc

`irr`, `isr` and `imr` are the chips' registers, the slave's lines as 8 to 15.
`enable_irq` and `disable_irq` appear as the bytes they write to the *command*
port; `MaskWritesIgnored` shows that the chip ignores them, which is why no
other action has to model them and why no mask ever holds an interrupt back.
Alt-Fn acknowledges, switches the terminal and returns to the handler later,
which acknowledges again: `KeyboardSwitch` and `KeyboardReturn`. The timer's
handler leaves for another process, too, but acknowledges first: `Timer`.

In `Rtc` each `inb`, `outb` and each access to `rtc_interrupt_occurred` of a
system call is an action; the handler is one. Register bytes are split into
their halves. `asked` is the rate of the last successful call, `ticked` whether
an interrupt came since a reader began (both history). The clock makes no
interrupt until register C has been read, as the real one.

### ReadData, CommandLine and Files

A byte is named by its block and offset, so a wrong copy shows. Block numbers
may point outside of the image, and the comparison with the end of the image
(`>`, not `>=`) is the code's. `Files` runs one process: `execute` parses the
command, looks the program up and loads it by calls of `read_data` for 1 KB
each (`LOAD_SIZE`), the program opens, reads and closes, `halt` ends it. One
process is enough: the image never changes and each process has its own table.
`open` copies a fresh descriptor over the slot; `close` leaves `inode` and
`pos`. `got` (history) is all that was read since a descriptor was opened,
`wanted` what the user typed behind the file name.

Assumed: a program in the image is whole (`ProgramsAssumption`), an inode has
room for its block numbers, and block addresses do not wrap at 2^32.

## Runs

| Run | Bounds | Shows |
|---|---|---|
| `processes_safety` | 5 pids, 3 terminals, 1.1 million states | the invariants of the core; terminals keep a process, turns come nearer |
| `processes_live` | 4 pids, 3 terminals | no terminal starves; refinement of `ShellStacks` with fairness |
| `display` | 3 pids, 3 terminals, 389 thousand states | written text stays home and is not lost; the user page has an owner |
| `display_draws` | 3 pids, 2 terminals | finding: vidmap draws on another terminal |
| `keyboard` | 2 terminals, buffer of 7 | lines start empty; announced lines return |
| `keyboard_bounds` | as `keyboard`, one byte more | finding: store past the buffer |
| `keyboard_wakeup` | as `keyboard`, one byte more | finding: Enter lost |
| `rtc` | 2 processes, lines 0, 1 and 8, 338 thousand states | reads wait for a tick and return; requests are accepted, the clock's while its event is unread; mask writes are ignored |
| `rtc_rate` | 1 process | finding: a rate goes to register C |
| `cursor` | 2 terminals, 3 rows of 2, 622 thousand states | writes advance, backspaces undo, cursors leave only by the race |
| `cursor_rows` | as `cursor` | finding: a cursor below the screen |
| `files` | blocks of 3, 6 files, 2 descriptors, 178 thousand states | reads, positions, descriptors, loader, arguments |

*Bounds.* Five pids on three terminals allow a full pid table, three processes
on one terminal (a child that has a parent and a child), and refusals; the
code's six pids are covered by the proofs. The display needs the visible
terminal, one that is shown next and one that stays in the background, and a
parent with a child: three pids on three terminals have all of them. A buffer of 7 bytes is the
smallest in which Tab's four blanks fit. `SizeLimit` bounds the line: behind the buffer
lie other fields of the terminal, and what happens after they are overwritten is
not modelled; the passing run stays inside the buffer, the other two go one
byte beyond.

Two processes at the clock are one that uses it and one that comes between;
both read, one also sets the rate. One terminal switch inside the keyboard
handler, then a second keyboard interrupt, is the case that a missing
acknowledgement breaks. Three rows have a
first, a middle and a last; two columns a first and a last; two rows more
(`MaxRow` 4) show that a cursor that left the screen does not come back by
itself. The image of `files` has a file that ends within a block, one that
ends with one, one whose second block is outside and a directory entry without
inode; the lengths asked for are one byte, a block and more than any file; the
commands are `sh` followed by up to four characters out of a letter, blank and
newline, also a wrong name and more than the three bytes for arguments.

*Deadlock* is not checked in `rtc` alone: when a half-written register has
stopped the clock, both processes may be in `rtc_read()`, which spins.

*Fairness.* `processes_live` assumes weak fairness of the tick alone: the PIT
is programmed in periodic mode, and every path that turns interrupts off ends
with an `iret` or `sti` that turns them on. It takes for granted that the
PIT's line was not pending while `i8259_init` ran, which would have left it
masked (see the hazards in `PROJECT.json`). Keys, system calls and exceptions
need not come. `keyboard` assumes that a reader that can go on does; that is
what `Scheduled` establishes for every terminal with a process. No key is
ever required. `rtc` assumes that a clock that is set to make interrupts makes
them, that an acceptable interrupt is accepted and its handler ends, and that a
process in the driver goes on (`Scheduled` again). `ReadReturns` is claimed for
a process that is in the end the only one at a running clock: with more, one reader may clear
the flag each time before the other looks.

*Mutants.* For each property of a passing run `PROJECT.json` names a faulty
version of a definition (`SwitchTo_OldTSS`: the TSS is not updated, ...) that
makes the property fail.

## Proofs

`Processes_proofs` proves `Spec => []IInv` for all `MAX_PROCESSES` and
`MAX_TERMINALS` above 0; the only assumption is `ProcessesAssumption`. `IInv`
conjoins the seven invariants of the safety run. None is inductive alone:

* `CpuRunsTop` after a tick needs `SavedContexts`: `esp` is loaded from a PCB,
  and is the top process's only if the PCB's context is its own.
* `SavedContexts` after a halt needs `ParentChain`: halt resumes
  `pcb->parent`, and it must be the process just below on `child_procs`.
* `ParentChain` after an execute needs `CpuRunsTop`: the parent is the process
  on whose stack the call runs.
* `TypeOK` after an execute needs `TablesAgree`: `child_procs` is indexed by
  `num_procs` without a check. `RoomForOne` shows by counting (the slots of a
  terminal hold different used pids, and the new pid is none of them) that a
  free pid leaves a free slot.
* `NoStaleException` needs `CpuRunsTop`, since a halt marks the PCB it runs on.

One lemma per action preserves `IInv`. The lemmas `PushTables`, `PopTables`,
`PushChain` and `PopChain` say what adding a process to a terminal and taking
one away does to the tables and to the parent chain, so `halt`, `execute` and
the terminal switch share them; `LaunchGives` collects the effect of
`Launch`. `OpenedForEver` proves the action property `TerminalsNeverDie`,
`TurnsComeNearer` the action property `TurnComesNearer`: terminals lie on a
circle, and going to the nearest that waits brings the others nearer (`Circle`,
`Nearer`). `TickFindsNext` adds that the nearest exists (`Least`) and is one.

`Refinement_proofs` proves `Spec => Abstract!Spec`, where the stack of a
terminal is the sequence of the lowest `num_procs` entries of its `child_procs`.
`LowestPush` and `LowestPop` say what storing a process and decrementing
`num_procs` do to that sequence; `OneStackChanges`, that a step that touches
one terminal changes one stack. That the mapped step is *allowed* needs `IInv`
again: `CpuRunsTop`, that a halt takes the process that runs off its stack and
an execute puts the new one on top of it; `TablesAgree`, that a free pid is on
no stack; `ParentChain`, that a process with a parent is not the lowest.
`CoreServesTerminals` adds the fairness (below).

`Display_proofs` builds on `IInv`: the core's invariant says that the CPU runs
the executing terminal's top process and that terminals are in range. `DInv`
adds that the backup address of every terminal leads to its own page
(`MapsHome`) and that every page holds its terminal's text only; a switch
keeps it because its four steps are in the right order. `OwnerStep` follows the
owner of the user page: a process that starts has a pid nobody owned
(`StartKeepsOwner`), one that halts unmaps the page if it was an owner. `DisplayRefinesCore`
shows that `Display` is a refinement of the core, so the core's theorems hold
of it as well.

`Keyboard_proofs`: `StartsEmpty` is inductive once one knows that a reader
that copies has cleared `read_ack` (`Disarmed`): a key in that moment then
stores nothing. Assumed: the buffer has room for three bytes.

`Cursor_proofs`: `OnTheWay` says for each point inside `putc_buffer` where an
undisturbed cursor stands relative to its goal. Backspace is pure geometry:
`PutCCases` and `BackThenPutC` show that a blank over the cell leads to where
one cell back begins. Assumed: at least two rows and two columns.

`Rtc_proofs`: the flag is news to every waiting reader (`FlagIsNews`), since
each has cleared it. `MaskWritesAreIgnored` needs that the only devices are
those the kernel names (clock, keyboard, timer). `RtcInv` is the invariant of
the whole: between two handlers no line is in service, although `KeyboardSwitch`
may leave any number of handlers behind, because each has acknowledged before
it left; no mask touches the clock; a raised event stands as a request. From it
follow `EventsAreHandled` (no clock is silent for a handler that cannot come)
and `NothingHeldBack`. That a byte written to register A is one (`RtcTypeOK`)
needs what the recursive divider computes: `DividersAreRight` unfolds it for
the ten powers of two and shows by induction over the frequency (`PowersPass`)
that nothing else passes `rtc_write`'s loop.

`Files_proofs`: the loop invariant of `read_data` is that the bytes read end
where the next block begins (`InLoop`), so that each copy continues the file;
the rest is division with remainder. `Files` implements `ReadData` (its calls
are legal and it leaves them alone while they run); the proof takes
`ReadsAreCorrect` from there, and adds whose call it is and where it continues
(`WhoCalls`, `TheOneRead`). `ReadsAdvance` and `LoadsAdvance` say that each
round of the two loops brings their end nearer. Assumed: `ImageAssumption`,
`FilesAssumption`, `ProgramsAssumption`.

The command line, in the same module: `execute` copies the arguments
up to a newline, NUL or the size of `args`, then takes blanks off the end; the
property says the same in words of the whole line. `FirstStop` and `ScanFacts`
say where a scan from the left stops (the least number of a set), `LengthFacts`
where one from the right does (the greatest), and `ShortArguments` that both
descriptions give the same characters when they are fewer than `ARGS_LENGTH`.
`ArgsInv` carries this to `getargs`. Assumed: a command is a sequence of
characters other than NUL (`CommandsAssumption`), as a C string is.

`Numbers`: induction theorems of the library take an operator as a parameter,
which the provers do not instantiate. The least-number principle is had
instead from the well-foundedness of inclusion on finite sets, applied to the
intervals `0 .. n`; induction over a *set* of numbers follows from it.

*What must happen in the end.* `ENABLED` is out of the provers' reach, so a
theorem cannot assume `WF_vars(A)` as it stands. It assumes instead
`[]([]CanA => <><<A>>_vars)`, where `CanA` is a written-out condition for the
step: what can always happen does. Each `CanA` is a state predicate about the
process, the flag or the line concerned (`CanTick`, `CanReadOn`, `Acceptable`,
`CanPeriodic`, `CanGoOn`). TLC, which can evaluate `ENABLED`, finds
`CanA <=> ENABLED <<A>>_vars` invariant on the instances of `processes_live`,
`keyboard` and `rtc` (tried by hand, not one of the runs). For these conditions
TLAPS proves

* `AckedReadsReturn`: a reader whose line was announced returns. The
  announcement survives what the keyboard does until the reader runs.
* `AllRequestsAccepted`: from `RtcInv`, which makes every unmasked request
  acceptable between two handlers.
* `AllReadsReturn`: the clock of a process that is alone raises its interrupt,
  is handled, sets the flag, and nobody takes the flag away (`FlagStays`).
* `ThreeAreScheduled`: `Scheduled` for `MAX_TERMINALS = 3`, which is the
  code's number (`terminal.h:16`), with any number of pids. The terminal that
  waits is at distance 2 or 1 of the one that executes; each tick lowers it.
* `CoreServesTerminals`: from it, all of the refinement of `ShellStacks`. No
  terminal stays in the state in which the abstract scheduler could serve it.

With any number of terminals, the last argument is an induction over temporal
formulas, which cannot be stated here; `TurnsComeNearer` and `TickFindsNext` are
its steps.

Only model-checked: `Scheduled` and the other liveness properties under the
`WF_` of the specifications (that the conditions `CanA` are `ENABLED` is not
proved), and with it `ImplementsShellStacks` as the run states it; and the five
violations, which are counterexamples.

## Findings

* `DrawsStayHome`: `vidmap` maps the screen whoever calls it and whichever
  terminal is visible.
* `BufferInBounds`: with the reader late, a key after the filling one stores
  past `buffer`.
* `NoLostWakeup`: `keyboard_read` arms before it resets `ack`.
* `RateSet`: the clock's handler between `rtc_write`'s two accesses sends the
  rate to register C.
* `StaysOnScreen`: a key between `putc_buffer`'s test and its increment puts the
  cursor below the screen, for good, since the masks do not mask.

Noticed on the way, listed as hazards: `halt` of one process unmaps the user
video page of all; the restart of a background shell and a late Ctrl-L clear
the visible terminal; a page fault in `keyboard_read` leaves the line to the
next reader; `i8259_init` saves requests as masks; with 128 bytes of arguments
their terminator is the low byte of `args_length`; `read_data` lets a block
number one too large pass and overruns its local inode for files of 252 KB.

## Not modelled

* The window between `entry()`'s `sti()` and the first `execute`: the models
  begin after it. Next, if the project goes on: a `Boot` module whose initial
  state has no process.
* `init_paging`'s tables, GDT, IDT and TSS set-up and the multiboot dump: constants, with
  no state to follow. That kernel stacks, PCBs, 4 MB frames and backup pages do
  not overlap is arithmetic on them.
* The TLB, the words on a kernel stack and its depth (nested ticks), `k_ebp`.
* The contents of screen cells and the VGA cursor registers, which
  `update_cursor` writes in pairs without protection, as the clock's.
* Handlers for interrupt lines that no device uses; spurious interrupts.
* `printf`, `itoa`, the `str*` and `mem*` functions: freestanding copies of C
  library functions. `set_handler` and `sigreturn`: stubs. User programs: not
  in the repository. Timing.

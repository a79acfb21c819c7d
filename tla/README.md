# A verification project for psychOS

psychOS (`src/student-distrib`) is a small 32-bit x86 kernel: three terminals on
one VGA text screen, each with a root shell; up to six processes in fixed
slots, scheduled by a 100 Hz timer; ten system calls; a read-only file system in
memory; and a real-time clock shared by all processes.  With it come a few user
programs (`src/syscalls`, `src/fish`).  The TLA+ modules here model the parts
that hold state over time and the algorithms that are hard to get right; TLC
checks them on small instances, and TLAPS proves the central invariants and
refinements for every value of the constants.

## The system and its parts

| part | code | how it interacts | model |
|---|---|---|---|
| process management | `arch/x86/task.c`, `kernel/syscall.c` | `execute` and `halt` take and free PCB slots, switch page directory and kernel stack | `Processes` |
| scheduler | `drivers/pit.c` | the timer interrupt saves one process and resumes another | `Processes`, `Interrupts` |
| paging, loading | `arch/x86/paging.c`, `task.c` | the directory of each slot, what programs can reach, what a load overwrites | `Memory` (over `Processes`) |
| boot, kernel entry and exit | `boot.S`, `kernel.c`, `interrupt.c`, `i8259.c`, the `*_wrapper.S` | devices, exceptions and system calls enter through gates and wrappers | `Interrupts` |
| keyboard driver | `tty/terminal.c`, `tty/keyboard_map.c` | scan codes become characters, switches of terminal, reprints | `Keyboard` (over `Console`) |
| terminal input | `tty/terminal.c` | the keyboard interrupt fills a buffer that `terminal_read` empties | `Terminal` |
| terminal output | `tty/terminal.c` | three terminals write to one screen and two buffers | `Cells`, `Console`, `TerminalScreens` |
| circular buffer | `lib/circular_buffer.c` | holds the typed line | `CircularBuffer`, `BoundedDeque` |
| real-time clock | `drivers/rtc.c`, `kernel/tests.c` | one interrupt counts down a clock in every PCB | `Rtc` (over `Processes`) |
| file descriptors | `kernel/syscall.c` | an array in each PCB, reused with the slot | `Descriptors` |
| file system | `fs/fs.c`, `fs/ece391_fs.c` | lookup by name, reading by block | `ReadData`, `Descriptors` |
| kernel library | `lib/lib.c` | memory routines in assembly, `printf` | `LibMemory`, `Lib` |
| cat, ls, syserr | `src/syscalls` | use the descriptors of a slot among other programs | `UserPrograms` (over `Descriptors`) |
| shell line, arguments, grep | `ece391shell.c`, `parse_command`, `getargs`, `ece391grep.c`, `ece391support.c` | a typed line becomes a search in files | `Grep` |
| fish | `src/fish` | a list of blinking characters driven by the clock | `Blink`, `Fish` |

All gates in the IDT are interrupt gates and the system call wrapper executes
`cli`, so that a handler runs to its end without being interrupted.  A step of
the models is therefore a whole handler, except where the code turns interrupts
on again (`terminal_read` and `rtc_read`, split at that point) and where a model
is about the inside of a routine (`ReadData`, `Lib`, `Grep`, `Keyboard`'s loop,
the booting in `Interrupts`).

## The modules

**Processes.**  The state is the fields of the PCB in every slot that the kernel
reads (`in_use`, `status`, `parent`, `terminal_num`, `regs`), the video entry of
its page table (`vmem`), and the CPU: the page directory loaded (`cr3`), the
stack the TSS names (`tss_esp0`, through which `get_current_pcb` finds the PCB)
and the program that runs (`running`).  `regs` records which code saved the
frame, because `halt_program` and `context_switch` resume frames differently.
Actions: `syscall_execute` (fails, or starts a child in the lowest free slot),
`syscall_halt` and `exception_handler` (return to the parent, restart a root
shell, or stop the machine), `pit_handler` (the loop of `scheduler`, including
its unreduced first index), `switch_active_terminal`.  `returned` keeps what
`execute` returned in the last step.

**Memory.**  `Processes` with the page directory that `execute` builds for each
slot, physical memory in 4 KB pages, and a step that loads a file: one that is
not an executable is refused after it was copied to the page of the slot.
What the MMU lets a program reach is computed from the directory.

**Interrupts.**  Registers, flags and kernel stacks of two programs, what the
wrappers push and pop, the IDT, both interrupt controllers (masks, requests,
service, priority, cascade), in the order in which `boot.S` and `entry` set them
up.  Device interrupts nest over waiting system calls; a timer interrupt may
change stacks between a wrapper's pushes and its pops.  `expect` is a history of
the contexts each program has to find again.  The controllers are modelled as
the machine has them: ICW1 clears masks, and the cascade is on line 2 whatever
ICW3 says (`i8259.c:31`).

**Terminal.**  One terminal: the buffered bytes, `new_line_ready`, the cursor
with its byte arithmetic, and where the reading process is (`pc`).  Every
branch of `keyboard_putc`, Ctrl+L, Ctrl+5 (`terminal_close`), `terminal_write`,
`reset_terminal`, and `terminal_read` in three steps, with interrupts between the
test of `new_line_ready` and `hlt`.  `regular` is a history variable: no short
read, tab or Ctrl+5 since the last reset.

**Cells, Console, TerminalScreens.**  `Cells` is what output does to one
screenful; `Console` has the frames, the pointers `video_memory`, the cursors and
the copies made by a switch; `TerminalScreens` is the abstract specification: one
screen per terminal, and which one is shown.  `video_buffer_putc` checks no
bounds, and a backspace in the top left corner of a screen makes the row, a byte,
255: behind a buffer other data is overwritten, and behind video memory, where no
page is present, the kernel faults.  `outside` records it.  What the machine
does afterwards is not followed; in the abstract specification such an erase
(`EraseTooFar`) ends what is promised.

**Keyboard.**  `keyboard_handler` over `Console`: it takes any number of scan
codes in one interrupt, keeps `terminal_num` over all of them, tracks modifiers
and caps lock, edits the line, switches terminals and reprints for Ctrl+L one
character at a time.  Ctrl+L compares with a lower-case l, so that it does
nothing while caps lock is on.  Shift and caps lock are modelled but not among
the keys of the instance.

**CircularBuffer, BoundedDeque.**  All operations on the array with its two
pointers and its count, and the bounded double-ended queue they implement.

**Rtc.**  The three clock fields of every PCB, an extension of `Processes`: the
processes that wait are scheduled, blocked and halted by its actions.  `owed` is a history variable: the ticks still to come since a clock
was loaded.  Ctrl+4 and Ctrl+5 are included, because they use the driver on
behalf of whatever process they interrupt.

**ReadData.**  `read_data`, one step per iteration, with 32-bit sums (`UINT`) and
block numbers that may be wrong.  A byte is named by its place on the disk.

**Descriptors, UserPrograms.**  The file array of one slot over the lifetimes of
all processes that use it: `open` (lookup with `strncmp`), `close`, `read` of
files and directories, start and halt.  `got` is a history of what was read.
`UserPrograms` runs cat, ls and the tests of syserr in that slot, after and
before programs that make any calls.

**LibMemory, Lib.**  `LibMemory` is one call of a memory routine, label by label
of its assembly, for every alignment, length and direction flag; memory holds a
different value at every address.  `Lib` adds calls of `printf`, conversion by
conversion, with `itoa`.

**Grep.**  From the typed line through `parse_command` and `getargs` to the
lines printed: the buffer that is refilled in the middle of a line, and what the
stack held behind it.

**Blink, Fish.**  The list of blinking characters in its array, with the ioctl
calls and the tasklet of `blink.S`; `add_frames`, which merges two files read
one byte at a time and keeps locations in 16 bits, and `main` with its calls in
any order.

`MC...` modules hold values of constants; `...Proofs` modules hold theorems.
Definitions with the suffix `_bug` are deliberately wrong variants of the
definition below them, used to see that each property can fail.

## The runs

| run | shows | bounds |
|---|---|---|
| Processes | chains of parents, CPU and tables agree, frames are resumed by matching code, return codes; programs out of each other's memory, live programs never overwritten; while the last slot is free every runnable process gets the CPU and stale video pages are repaired | 5 slots, 3 terminals, 2 function keys |
| Starvation | *violated*: with the last slot in use a process can starve | 6 slots, 3 terminals |
| StaleVideoPage | *violated*: after a switch the running process draws on the wrong screen | 6 slots, 3 terminals |
| Interrupts | contexts are restored, every interrupt is acknowledged, none is taken early, exceptions are reported as raised, devices are served | 2 programs, system calls of every kind, faults with and without an error code |
| CircularBuffer | the buffer implements the queue | 3 bytes: every pointer wraps |
| Terminal | lines are counted, kept, delivered one at a time; room for Enter; the reader wakes; the cursor stays on the screen | 4 bytes, 3 by 2 cells, all keys, reads of 0, 1 and 4 bytes: `new_line_ready` takes all 256 values |
| Keyboard | the user sees the line that will be read; terminals sharing a display behave as one display each | 2 terminals, 2 by 2 cells, lines of 2; programs write newlines and backspaces |
| ReadData | the right bytes, the right count, termination | blocks of 2 bytes, 2^32 scaled to 16, all arguments |
| Rtc | a read waits for exactly the ticks due and goes on; a freed slot has no clock running | 5 slots, 3 terminals, intervals 1 and 2, two descriptors, both test keys |
| Descriptors | reads in order, the file named; syserr's tests pass; cat and ls copy everything | 2 descriptors beside stdin and stdout, an entry of every type |
| Lib | exactly the bytes asked for; `printf` prints its arguments; grep finds the lines | 16 bytes, all alignments and lengths; numbers of 8 bits; grep's buffer of 4 with texts of up to 6 |
| Blink | the list stays intact; synchronised characters blink together; the screen follows; frames are merged as drawn | 3 elements, 4 places, rows of 2 |

Why the bounds are enough: the scheduler's loop depends on the number of slots
only through its wrap, and skips at most one slot below the current one and slot
0 after the last; five slots already contain all of these cases, with the last
slot free and in use.  Screens, buffers and blocks are larger than 1 in every
direction, so that each boundary is met from both sides and things wrap, scroll
and refill.  A full line fits on the small screens less one row, as 127
characters do on 80 by 24: where this failed, the bound and not the code would
show.  Deadlock is checked except where the system may stop: an exception in a
root shell halts the machine (Processes, Starvation, StaleVideoPage, Rtc,
Interrupts), and a library call ends (Lib).

**Fairness.**  Timer and clock interrupts are weakly fair: the devices are never
masked once enabled, and no handler waits (`MemFairSpec` has the ENABLED of the
timer interrupt written out, as `TimerDue`).  `rtc_read_returns` is strongly fair:
the waiting process polls thousands of times in each time slice, so it cannot
miss for ever that it may go on whenever it has the CPU.  In `Terminal`, the
reader's own steps are weakly fair, which is what `ScheduledWithoutLastSlot`
provides while the last slot is free.  In `ReadData` the loop is weakly fair: nothing in it waits.  In
`Interrupts`, an interrupt that the CPU could take again and again is taken;
the condition is written out in `FairSpec`, since handlers take microseconds and
the devices' periods are milliseconds.  Nothing is assumed of what programs do.

## Where the guarantees stop

Some properties hold under a condition that the code does not enforce.  The
properties or the instances state it, and these are the cases outside of it:

- `ScheduledWithoutLastSlot`, `ReadReturns`, `ReaderWakes` (through the fairness
  it assumes): slot 5 in use (run Starvation).
- `ReadyCountsLines`, `ReaderWakes`: a read shorter than a line takes part of it
  but still counts one line; Ctrl+5 empties the buffer and leaves the count.
- `CursorOnScreen`, `EchoStaysInside`: programs that write backspaces (none here
  does), and tabs.  `Keyboard` has the backspaces of programs, and `LineShown` and
  `ImplementsScreens` are checked up to the first write outside of a frame.  Ctrl+L prints a buffered tab as nothing, and erasing
  it then moves the cursor above row 0.  Tab echo uses `& 4` where the column
  modulo 4 is meant, so tabs do not end at multiples of four.
- `LineShown`: output of a program in the middle of a typed line.
- `ReturnsWhatIsLeft`: offset plus length at or above 2^32.
- `NeverLate`, `ReadReturns`: closing one of two clock descriptors turns the
  clock off for both; Ctrl+5 stops the clock of a waiting process.
- `FreedClockIsOff`: after Ctrl+4 or Ctrl+5, which act on whatever process runs.
- `OpensWhatWasNamed`: names longer than 32 characters are compared by their
  first 32.
- `FindsTheLines`: text files whose lines are shorter than the buffer, a pattern
  that is not empty, and a stack without a newline at `data[BUFSIZE]`, which grep
  reads before it was written (`ece391grep.c:33`).
- `ExactlyTheBytesAsked`: `memmove` towards higher addresses leaves the direction
  flag set; `scroll_screen`, its only caller, moves towards lower ones.
- `PrintsItsArguments`: a format does not end in a lone `%`.
- `CopiesWhole`: reads and writes that fail.  cat and grep then end with a message
  (`ece391cat.c:22-27`); on the image and the descriptors they open none does, and
  these exits are not steps.
- All of `Fish`: files so long that a location needs more than 16 bits.  The
  location is then cut off (`fish.c:126`), possibly to 0.
- `ScreenFollowsStatus`: between a sync and the next toggle, and where two
  elements share or shared a location.  A sync draws the off character
  whatever the status (`blink.S`: the flags tested never let the conditional move
  happen).  Location 0 also marks a free element: no character can blink there.

## The proofs

| module | theorems | what they state |
|---|---|---|
| ProcessesProofs | TypeCorrect, OneRunner, Chain, CpuConsistent, FramesMatch, NeverForeign, ReturnCodes, SlotKept | the safety of the process table, for any number of slots and terminals |
| | ImplementsProcesses, MemoryPrivate, KernelAlwaysMapped, ProgramsIntact | `Memory` implements `Processes`; programs are apart, for any number of slots that fits |
| | ClocksImplementProcesses, NotEarly, NotLate, StartsOff | `Rtc` implements `Processes`; the clocks, for any frequencies, slots and terminals |
| InterruptsProofs | ContextsKept, InterruptsAcknowledged, NoInterruptEarly, FaultsReported | the kernel's entries and exits, for any number of programs and any system calls and exceptions |
| LibraryProofs | TypeCorrect, Refinement | the circular buffer implements `BoundedDeque`, for any size |
| | RoutinesWriteWhatIsAsked | the memory routines, for any memory, addresses and lengths |
| KeyboardProofs | OnlyErasingLeaves, HardwareCursor, Refinement | `Console` implements `TerminalScreens`, for any screen and number of terminals; only a backspace in a corner writes outside of the frames |
| | EchoStays | the driver's own echo and erasing never do, as long as programs write no backspaces |
| | LineSeen, KeyboardRefinement | the keyboard driver shows the line that will be read, and implements `TerminalScreens` too |
| TerminalProofs | RoomKept, CountKept, OneLine, LinesKept, CursorKept | the input buffer and the cursor, for any size below 256, any keys and any sizes of reads |
| DescriptorsProofs | InOrder, RightFile, CleanStart | the file array, for any directory, files and number of descriptors |
| | TestsPass, WholeFileCopied, ProgramsKeepDescriptors | syserr, cat and ls on that array, after and before any other programs |
| ReadingProofs | TypeCorrect, CopiesRightBytes, ReturnValue | `read_data` is correct for any image and arguments |
| | LinesFound | grep prints the lines that hold the pattern, for any buffer size, texts and patterns |
| FishProofs | ListKept, SyncKept, ScreenKept | fish's list, for any array, screen, texts that fit 16 bits and calls |
| | FramesKept | the merged picture of the two files, for texts of any shape that fit 16 bits and any number of elements |

Assumptions: only the `ASSUME`s of the modules, which TLC evaluates in the runs.
Sizes are positive; there are at least as many slots as terminals, and at most 29;
the image's lengths fit its inodes, and names fit the directory; a full line
leaves one row of the screen free (`CursorAssumption`, `KeyboardAssumption`:
127 characters on 80 by 25); exceptions 21 and 29, of CPU features the kernel
never turns on, do not occur (`InterruptsAssumption`); the directory has "." and
neither the empty name nor the names that syserr misspells
(`UserProgramsAssumption`); texts and patterns have no NULs (`GrepAssumption`);
fish adds no character at location 0 (`BlinkAssumption`,
`FishAssumption`), and the locations of its files' characters are below 2^16
(`TextsAssumption`; the image's are below 1000); rows and columns are counted in
bytes (`CellsAssumption`).

- *Processes.*  No property is inductive alone.  That `halt_program` returns to a
  live process needs the chain of parents; that the chain is kept needs that the
  running process is the only runnable one of its terminal; and that a free slot
  is not somebody's parent needs that blocked processes wait for a live child.
  `ProcessInv` is the conjunction of these with the types and what is known of
  saved frames.
- *Memory.*  Every step is a step of `Processes` or a stutter, so `ProcessInv`
  carries over; added to it is that the directory of a live slot is the one
  `setup_process_paging` builds.  The rest is arithmetic on regions.
- *Rtc.*  Again every step is a step of `Processes` or a stutter.  `RtcInv`
  contains `ProcessInv`: a process that waits is alive and its slot is not given
  to another one; without that, a clock could be loaded for one process and
  counted for the next.
- *Interrupts.*  `ContextInv` says what lies on each kernel stack: of the running
  program, what it expects; of one that was switched away from, exactly what the
  wrapper of the timer interrupt and the call of `context_switch` push on top of
  that; of one that never ran, nothing.  So popping is only ever done on what was
  pushed, whichever program it is done for.  `PicInv` says that nothing is in
  service between handlers, and which lines are masked at each stage of booting.
- *LibMemory.*  `MemoryInv` says at every label how many bytes are written, as a
  function of the counters left in `ecx` and `edx`; for `memmove` from either
  end, according to the direction flag.
- *CircularBuffer.*  The type invariant ties `tail` to `head` and the count.  The
  refinement maps the array to the bytes from `head` on; each operation is one
  lemma, over lemmas on pointer arithmetic.
- *Console, Keyboard.*  `ConsoleInv` says that each terminal writes to its own
  frame: video memory for the active one, its buffer otherwise; and that cursors
  are on their screens until a write misses one.  `KeyboardInv` adds that the
  cells before the cursor show the line, up to what Ctrl+L has still to print; that
  the line cannot scroll away needs that it fits on the screen less a row.  If
  programs write no backspaces, there are also as many cells before the cursor as
  the line is long when output has joined it: so an erase never starts in the
  corner.  Every step of the driver is one of `Console` or a stutter.
- *Terminal.*  `BufferInv`: the buffer's type and bound, that a read in progress
  has room for a line as long as all is regular, and the two invariants, each of
  which needs it.  The lemmas say where the newlines of a buffer are after a byte
  was appended or erased and after a line was taken off.  `CursorInv` adds that
  the cursor is at least as far from the corner as the typed line is long: this
  is why a backspace never leaves row 0.
- *Descriptors, UserPrograms.*  `IInv` adds that whatever is open beyond the
  standard streams can be closed: this is why `halt_program` leaves nothing to the
  next process.  `UserInv` adds where each program is: which descriptors
  `err_open_lots` has opened and closed, and that what cat has written is what was
  read.
- *ReadData.*  The loop invariant: `file_pos` is `offset` plus the bytes written,
  and also block number times block size plus position in the block.
- *Grep.*  `GrepInv` says where the buffer lies in the file: it ends at the file
  position, and its unsearched part is the text from a start of a line on.  Before
  a read it holds the start of a single line; after a read it is full or the text
  is at its end: so the next line is whole, or it is the last one, or there is
  room to read on.  What was printed are the matching lines before that place, by
  an increasing function from the lines printed to their places in the text, which
  every search extends or keeps.
- *Blink, Fish.*  `BlinkInv` has an enumeration of the list in place of `List`: a
  sequence without repetitions whose neighbours are linked and whose elements are
  those in use.  Adding and unlinking change it in one place.  That `List`, which
  follows at most `NODES` links, is this sequence takes a pigeonhole argument.
  `SyncInv` needs the lengths of both elements and not only what `SyncedTogether`
  compares.  `ReadInv` and `FramesInv` are about `add_frames`: each file is read up
  to the place `<<row, col>>`, to its end before that place, or to the newline of
  that row; and the elements added are those of the picture before that place, or
  as many as there are.  `ReadInv` is part of `FishInv`, on which the theorems about
  the list rest too: it shows that the location of the next character is not cut
  off, so that none is added at 0.  That the counts of newlines and columns in `Place` follow the bytes
  read, and that later characters have later places, are lemmas about any text.

Facts about all elements of a sequence (the echo of a line, the list, the
pigeonhole argument) are proved by least counterexample: a non-empty set of
numbers has a least element (lemma `HasLeast`, from the library's theorems on
well-founded relations).

Only model-checked: all liveness (fairness and ENABLED are out of the prover's
reach), and `PrintsItsArguments`, whose reference definition recurses on the
format and on the digits of a number, so that a proof would be an induction over
data.  Proved but in no run, because a checked property implies them or is more
telling: `OneRunnerPerTerminal`, `KernelMapped`, `SlotKeptWhileInUse`,
`HardwareCursorFollows`, `LeavesByErasing`, `EchoStaysInside`,
`VideoPageNeverForeign`, `StandardStreams`, `NothingInherited`, and the type
invariants.

## Not modelled

- Descriptor tables (`x86_desc`), port instructions (`io.c`), what `entry` prints
  of the boot information, the text of the exception screen: no behaviour that a
  model would add to.  `disable_irq`, `terminal_open` and `RTC_FIND` are never
  called.
- Inline assembly that modifies registers it declares as inputs, and the missing
  `volatile` in `rtc_read`: properties of the compiler and of the build without
  optimisation, not of the source.
- hello, testprint, counter and pingpong, which only print; sigtest, since the
  kernel refuses signals; `ece391emulate.c` and the tools that build the image,
  which run on another system.  The models of the kernel let programs make any
  calls in their place.
- The screen of the exception handler and `human_readable_errors`; the self tests
  other than Ctrl+4 and Ctrl+5, which only print.

# A TLA+ model of the ECE 391 MP3 kernel

`src/student-distrib/` is a small x86 kernel: three text terminals, each with a
shell and the programs it starts, preempted by a 300 Hz timer; a keyboard, a
real-time clock and a read-only file system behind ten system calls. This
directory models it in TLA+, checks the models with TLC and proves their safety
properties, for any number of terminals, tasks, keys, files and rows, with TLAPS.

## The system

| Component | State | Operations | Hard part |
|---|---|---|---|
| Process manager (`sched.c`, `task.c`, `sys_calls_handlers.c`) | `scheduler` (pids in use, current task, current tree, task per tree), `task_t` per pid, the CPU's `cr3` and TSS | `create_task`, `execute_task`, `end_task`, `do_execute`, `do_halt` | long operations with interrupts on that switch stacks and page directories half way |
| PIT (`pit.c`, `hardware_intr.S`) | the interrupted frame, `task_t.tss`, `task_t.state` | `pit_process_interrupt`, `switch_task` | may land between any two of those steps |
| Exceptions (`intel_intr*`) | `task_t.state` | print, wait for a key, `halt` | the mark that an exception happened outlives many ticks |
| Video page (`paging.c`, `task.c`, `sched.c`) | one page directory entry per task | remapped by create, execute, end, tick | Alt-Fn moves the display without remapping |
| Terminal, input (`terminal.c`, `keyboard.c`) | per terminal: line, last line, state | `terminal_read`, `terminal_add_to_buffer`, `terminal_backspace` | reader polls, keyboard interrupts, Alt-Fn |
| Terminal, output (`terminal.c`, `lib.c`) | per terminal: cursor, counters, `video_buffer`; lib.c's own cursor; video memory | `terminal_write`, echo, erase, clear, Alt-Fn, `print_error` | two cursors per displayed terminal, two code paths for output |
| Keyboard (`keyboard.c`) | a pressed flag per key | `process_keypress` | flags survive between interrupts |
| RTC (`rtc.c`) | the chip's registers and its index, one interrupt flag | open, read, write, close, interrupt | shared by all processes; two port accesses per register |
| Interrupts (`i8259.c`, `kernel.c`, `lib.h`) | masks, requests and in-service bits of two controllers; the interrupt flag, saved in frames, in the tss and in local variables | `enable_irq`, `send_eoi`, the three handlers, `cli_and_save`, `restore_flags` | EOI before iret, and on the far side of a context switch |
| File system (`filesys.c`, `sys_calls_handlers.c`) | descriptors; constant image | open, close, read, directory read, program load | block boundaries |
| Command line (`sys_calls_handlers.c`, `task.c`) | `task_t.args` | the parsing loop of `do_execute`, `do_getargs` | reads on past the end of the line |

They meet in five places. The tick calls the scheduler. `terminal_read`,
`rtc_read` and the exception handlers busy-wait in kernel code with interrupts
on, so they rely on the scheduler for progress and on the keyboard or the RTC
interrupt for their answer. The keyboard interrupt edits the *displayed*
terminal, system calls work on the *executing* one (`scheduler.cur_ptree`).
`do_execute` loads programs through the file system. And all rely on the
interrupt flag: a handler or a section with interrupts off is one step of the
other modules because `Irq` shows that nothing interrupts it.

`PROJECT.json` lists every component with what is modelled of it, the hazards
with the line where each bites, and for every definition the lines it models.

## Modules

| Module | Models | Run by |
|---|---|---|
| `Sched` | process manager, tick, exceptions | `MCSched`, `MCSchedVideo` |
| `ProcTree` | abstract specification of execute and halt | (refined by `Sched`) |
| `SchedProofs` | theorems about `Sched` and `SchedVideo` | TLAPS |
| `SchedVideo` | `Sched` with the video page and Alt-Fn | `MCSchedVideo` |
| `Terminal` | line discipline | `MCTerminal` |
| `Screen` | text output, cursors, scrolling | `MCScreen` |
| `Keyboard` | keyboard interrupt | itself |
| `Rtc` | RTC driver | `MCRtc` |
| `Irq` | interrupt controllers, handlers, interrupt flag | itself |
| `FileSys` | file system, descriptors and program load | `MCFileSys` |
| `CmdLine` | the command line and its reference meaning | (extended by `FileSys`) |
| `TerminalProofs`, `ScreenProofs`, `KeyboardProofs`, `RtcProofs`, `IrqProofs`, `FileSysProofs` | theorems about the module of that name | TLAPS |
| `Induction` | induction and recursion over the rounds of a loop, for the proofs | TLAPS |

**Sched.** `cpu` is the position of the one CPU: a named point in the code, the
task on whose stack it is, the argument of an `execute_task` in progress, how
the thread came there and what it will return. System calls are entered through
a system gate, so interrupts stay on; an operation is one action per stretch
that a tick cannot divide observably: `CreateTask` (interrupts off), `ExecuteArm`,
`ExecuteSetCur`, `ExecuteSetTree`, `ExecuteFrame`, `ExecuteIret`; `Halt`,
`HaltReturn` (the stack switch of `return_from_halt`), `HaltStatus`, `EndTask`,
`ExecuteReturn`. `Tick` is the whole of `idt_pit`: it saves the frame into the
tss of `cur_task`, in the form `saved_state` says, moves to the next tree and
rebuilds a frame from the tss of that tree's task (`Resumed`). Registers are
abstracted to the position. A frame rebuilt in the wrong form is the point
`wild`: user code on another stack. The iret of `ExecuteFrame` and `ExecuteIret`
enters the child's tss, whatever is in it: when a tick between `set_cur_task` and
`setup_task_stack` (`ExecWindow`, the points `cur_set` and `tree_set`) has put a
kernel position there, `Entered` gives the outcomes of an iret between equal
privileges, which restores neither esp, ebp nor the registers: the steps after
`set_ptree_task` run again, or a "leave; ret" returns to the caller of execute, or
the kernel faults. `left` is a history variable: where each tree was when it lost
the CPU. User code is arbitrary: any system
call or fault at any time.

**SchedVideo** conjoins to each action what it does to the page at
`VIRTUAL_VID_MEM`. Its next-state relation contains every action of `Sched`, so
its run also checks the properties of `Sched`.

**Terminal.** One thread per terminal, at a point of `terminal_read` or of
`keyboard_wait_for_new_line`; the keyboard may interrupt between any two points.
A byte is represented by the terminal where it was typed. A read keeps the nbytes
it was asked for, so that what it returns can be compared with it.

**Screen.** `terminal_write` runs under `cli` and the keyboard code is an
interrupt handler, so each is one step; only the beginning of `terminal_read` is
cut in two. `putc` and `vputc` are translated separately, as in `lib.c`, with C's
remainder for negative columns; both take `'\r'` for a newline, of which
`terminal_write` knows nothing. A cell holds who wrote it. A store outside the page
changes no cell. For a hidden terminal such a store hits other fields of the same
`terminal` (`terminal.h:30-42`), and no module sees it: at a negative column in row
0 the bytes before `video_buffer`, which are `previous_input` (its line and
`input_pointer`) and the end of `input.line`, the state of `Terminal`; in row
`NUM_ROWS` the bytes behind it, `ptid`, which `switch_task` compares
(`sched.c:377`, in `SchedVideo`), and `input_history`, which nothing reads. What is
shown of `Terminal` and `SchedVideo` therefore holds as long as no hidden program
writes after its terminal's cursor has left the screen (findings below).

**Keyboard.** One step per interrupt. Keys that the code treats alike are
merged; the keymap keeps its four wrong break codes (Caps Lock, I,
Home, Delete).

**Rtc.** Processes at points of open and read; `rtc_init` is cut at each port
access, because it runs with interrupts on, while `rtc_set_frequency` and the
interrupt are single steps. The chip is external: registers A (divider and rate),
B (bit 6) and C (silence until it is read) and the index that selects among them.
`IndexResets` is what `rtc.c:116` says of it, that a data access resets the index;
the real chip keeps it. `granted` is a history variable: the frequency for which
`rtc_set_frequency` returned 0 last. `rtc_get_power_of_2` is a recursive function
with 32-bit wrap-around.

**Irq.** The two 8259s as sets of lines (`irr`, `isr`, `mask`) with their fixed
priorities, the stack of interrupt handlers in progress, and for every thread of
control the place it is at, the section with interrupts off it is in and every
copy of the interrupt flag it owns: in the frames of its system calls, in its tss
and in the variable of a `cli_and_save`. Gates, `iret` and the tick move the flag
between them. Handlers take three steps (work, end of interrupt, iret), so that
another interrupt could come in between. The handlers' work is in the other
modules; which tree a tick resumes is left open.

**CmdLine** and **FileSys.** `read_data` is a loop over positions with the code's
block-boundary reset; a byte is its position in the file, so a wrong, repeated or
missing byte shows. `nbytes` is any `int32_t`: `file_read` compares it with the
length as unsigned (`Unsigned`), so that a negative one asks for the whole length and
then moves the offset back, around the end of a `uint32_t` if need be, and 0 returns
0 anywhere. Descriptors are per task and the image is constant, so one
task is enough. A command is a sequence of characters in a buffer that still holds
older lines; `do_execute_parse` is the loop of `do_execute`, and `ProgramOf` and
`ArgumentsOf` say what a command means: the text before the first space, and the
text behind it without every space that follows a space. They look at the text
alone, never at what lies behind it, and skip no run of spaces ahead as the loop does.

## Runs

| Run | States | Time | What it shows |
|---|---|---|---|
| `sched_safety` | 952,585 | 30 s | with ticks anywhere but in `ExecWindow`: process tree, task count, exact resumption, isolation, halt's return, screen ownership; `Sched` implements `ProcTree` |
| `sched_live` | 153,707 | 65 s | with the same ticks: no tree starves, every loaded program starts, callers resume |
| `exec_window` | violation | | a tick at `cur_set` lets the caller run beside its child |
| `exception` | violation | | a tick hides that the program died of an exception |
| `term_read` | 995,968 | 70 s | a read that a newline ends returns that line, if it fits; a read returns once Enter has ended it |
| `term_other` | violation | | a read returns another terminal's line |
| `screen_output` | 281,814 | 30 s | drawing stays on screen, hidden output like displayed output, no terminal changes another's view |
| `keyboard_keys` | 471,240 | 47 s | no stuck modifier, what is typed and when, shortcuts |
| `rtc_read` | 149,782 | 37 s | no early return, reads return, the granted frequency stays set |
| `rtc_ports` | violation | | on a chip that keeps its index, an open writes register B's value to A |
| `irq_flags` | 61,085 | 17 s | no nested handlers, sections are never preempted and all else can be, every request is served |
| `file_read` | 430,944 | 75 s | for reads that do not cross into a block from inside another: bytes in order, whole file at end of file; directory, program load, the program and arguments of a command |

Every property of a passing run has a mutant of a definition under which TLC
finds it violated; the mutants stand before the definitions they replace and
are marked as such.

**Bounds.** Two terminals and four pids: the boot thread, two shells and one
program, so that pids run out, are reused, and both trees compete for the last
one; a chain of two programs under one shell needs no new kind of step, and the
theorems cover every size. `BUFFER_SIZE` 4 in `Terminal` and `Screen`: empty,
partial and full lines, type-ahead longer than the line read; reads of 1 byte (as
the exception handlers make), 2, and 5, more than the buffer. The screen has two
rows and two columns: every write is next to an edge, and the texts wrap.
`MaxOps` = 6 steps (ticks are free) reach both ways in which a cursor leaves the
screen, followed by Alt-Fn and hidden output. Blocks of 4 bytes with files of
length 0, 3, 4, 5 and 8; reads of 1, 2, 3, 4, 8, 0 and -3 bytes, with 5-bit
offsets (`SIGN_BIT` = 16) that wrap around. Three keys down: a modifier, a
function key and another. Frequencies: the smallest, a middle and the largest power of two, odd numbers
and numbers out of range (`PlainFreqs`). Two threads in `Irq`, each up to
`MaxDepth` = 2 programs on top of its shell. Commands with no, one and two
arguments and up to two spaces before, between and after the words, followed by
the rest of an older line with words and spaces of its own.

**Fairness.** `Sched`: strong fairness of `Tick`, because the PIC keeps a tick
that arrives while interrupts are off; and of the running tree's kernel steps
that wait for nothing, because a slice of 1/300 s lasts longer than one step. User
programs, blocking calls and the wait for a key get no fairness. `Terminal` and
`Rtc`: weak fairness of each thread, which is what `EveryTreeRuns` gives them, and
of the RTC interrupt. Nobody is assumed to type. `Irq`: weak fairness of the boot
code, the handlers and the steps with interrupts off, which only the CPU executes,
and strong fairness of taking a deliverable request, because interrupts may be on
for only a few instructions at a time. A device interrupts again only after a
lull in which nothing is served or waits: the handlers are far shorter than 1/300
s. Without it the timer, which has the highest priority, could shut out the others. `Served`
is what the strong fairness of `Tick` in `Sched` rests on.

## What the checks found

Four violations are runs of their own:

1. `execute_task` names the child in `cur_task` before it names it in
   `ptree_tasks` (`sched.c:406`). A tick in between stores the caller's kernel
   position in the child's tss and resumes the caller at an older one
   (`exec_window`).
2. `TASK_EXCEPTION` is kept in the field that every tick overwrites
   (`sched.c:418`, `pit.c:180`), so `execute` may return 0 for a crashed program
   (`exception`).
3. `terminal_read` waits for its own terminal but copies the displayed terminal's
   line (`terminal.c:393`; `term_other`).
4. `rtc_init` selects register B and writes its value in two port accesses with
   interrupts on (`rtc.c:117`, `:119`). Another process's `rtc_set_frequency` in
   between redirects the value to register A, which holds divider and rate
   (`rtc_ports`).

Six more are stated as formulas that TLC refutes when they replace the properties of
an existing configuration. The passing runs and the theorems exclude these cases by
an explicit condition.

| Formula | Configuration | What the code does |
|---|---|---|
| `Sched!ProgramStarts` | `Sched_live.cfg` with `TickPoints <- WithTreeSet` | A tick between `set_ptree_task` and `setup_task_stack` (`sched.c:407` to `:411`) replaces the entry point in the child's tss, from which the iret frame is built; the iret lands in the kernel again, with the wrong stack and registers, and the program need never start. |
| `Sched!ParentSuspended` | `Sched_exec_window.cfg` with `TickPoints <- WithTreeSet` | If that tick came in the epilogue of `set_ptree_task` or `load_tss`, the iret makes `execute_task` return to its caller while the child lives (`sched.c:414`). |
| `Terminal!ReadFitsBuffer` | `Terminal_read.cfg` | A read that a newline ends copies the whole line, whatever nbytes was (`terminal.c:93`): a line typed ahead is stored beyond a shorter buffer, such as the one-byte `key` of `do_common_intr` (`intel_intr_handlers.c:56`). `sys_calls_handlers.c:144` says "or as much as fits in the buffer". |
| `Terminal!ReadReturnsTyped` | `Terminal_read.cfg` | A read that is ended by the number of characters copies bytes of the line before (`terminal.c:95`, `keyboard.c:783`). |
| `FileSys!ReadsFromOffset` | `FileSys_read.cfg` | A read that starts inside a block and crosses into the next skips bytes of it (`filesys.c:291`), against `filesys.c:226`. `grep` reads `BUFSIZE - last` bytes (`src/syscalls/ece391grep.c:22`), and most files of `src/fsdir` are longer than one block. |
| `FileSys!ReadsStopAtEof` | `FileSys_read.cfg` | A read is clipped to the length of the file and not to what is left of it (`filesys.c:138`), so it may return padding as data, against `sys_calls_handlers.c:145`. |

Met while modelling and not stated as formulas: `rtc_get_power_of_2` adds 1 to its error
value, so even numbers that are no powers of two are accepted and set another rate
(`rtc.c:171`; `PlainFreqs` leaves them out); `do_getargs` refuses arguments that
fit exactly and copies ones that do not fit (`sys_calls_handlers.c:309`, its
comment at 292); a command that ends with a space and a newline gets the newline
as an argument (`:122`; `Plain` leaves it out, and the shell never sends one);
`is_user_ptr` compares virtual with physical addresses and its result is tested
the wrong way round, which cancels out (`:40`, `:150`); `create_task` returns with
interrupts off when pids run out (`sched.c:169`), which the iret of the system call
repairs; a read with a negative nbytes moves a file's offset back
(`filesys.c:138`, `:140`); the break code of Caps Lock is entered as a press
(`keyboard.c:508`), and those of I, Home and Delete release other keys; `end_task`
and `init_task_pd` give a hidden program the screen until its next tick
(`sched.c:217`, `task.c:90`); a terminal's own cursor may leave the screen
(`terminal.c:269`, `:349`), after which hidden output is stored outside
`video_buffer`; a full row continues in the same row (`lib.c:421`).

## Proofs

Every invariant that a run checks is a theorem for all values of the constants that
satisfy the modules' assumptions; so are the refinement `ImplementsProcTree` and the action property `OthersUntouched`.
`PROJECT.json` lists the theorem of each. They all have one form: an inductive
invariant `IInv`, true initially, kept by every step (one lemma per action, then one
lemma that collects them), and stronger than the property.

| Module | Theorems | Hypotheses beyond the modules' assumptions |
|---|---|---|
| `SchedProofs` | `TypeCorrect`, `TreeShape`, `CallerWaits`, `ResumeCorrect`, `Isolation`, `HaltCorrect`, `StatusCorrect`, `CountCorrect`, `Refinement`; `ScreenForDisplayed`, `HiddenFromScreen` | no tick in `ExecWindow` |
| | `VideoImplementsSched` | |
| `TerminalProofs` | `TerminalTypeCorrect`, `NoStale`, `LineCorrect` | |
| `ScreenProofs` | `TypeCorrect`, `OnScreen`, `HiddenSame`, `Untouched` | |
| `KeyboardProofs` | `KeyboardTypeCorrect`, `ModifiersReleased`, `TypedOnPress`, `ShortcutsExclusive` | |
| `RtcProofs` | `RtcTypeCorrect`, `FrequencyCorrect` | the index resets; writes ask for powers of two, odd numbers or numbers out of range |
| | `NoEarly`, `RefusesOdd` | |
| `IrqProofs` | `IrqTypeCorrect`, `HandlersDoNotNest`, `FlagCorrect` | |
| `FileSysProofs` | `TypeCorrect`, `FileInOrder`, `EofCorrect`, `DirectoryCorrect`, `LoadCorrect`, `CommandCorrect` | |

**Hypotheses.** `NoWindowTick`: no tick lands in `ExecWindow`, from the store of
`cur_task` to the push of the iret frame. It is several instructions long: at
`cur_set` the rest of `set_cur_task`, its return and the call of `set_ptree_task` up
to its store; at `tree_set` the return from there, `save_task_state` and `load_tss`.
Both halves are needed: `ParentSuspended` is violated with ticks in either one. So safety of the scheduler is shown only for behaviours
whose ticks stay out of the window; what happens behind a tick in it is modelled
only as far as the violations need (the kernel stack that each further iret leaks,
and registers that are lost, are not). The
two on the RTC are needed for the granted frequency to be the one in the chip
(`rtc_ports` violates it without the first; `RefusesOdd` shows what the second
leaves out), and not for `NoEarly`. `ASSUME`s say only what the constants are: sizes
that are not 0, texts that are sequences of characters, names of trees that differ
from the boot thread's.

**Process manager.** None of the invariants is inductive alone: what a tree resumes
is in a tss that was written many steps ago. All follow from `IInv`, the
conjunction of

- `IShells`, `IKids`, `IActive`: the shape of the trees;
- `IThreads`: each tree has one thread of control, on the CPU or in the tss of its
  active task, and its point fits that task;
- `IWaiting`: a task that is not active has a child or is being started;
- `IResume`: the state field selects the form of frame that was saved;
- `ICur`, `IRegs`: `cur_task`, `cr3` and the loaded TSS as functions of the point;
- `IRet`: where halt of a child will continue;
- `IFresh`: a child that has not started still has its entry point;
- `IExc`: the exception mark appears only on threads that came through
  `do_common_intr`.

`LocalStep` and `OtherThreads` carry the parts that belong to other trees, and
`TickMovesNoThread` is the heart: a tick changes which tree is on the CPU and leaves
the thread of every tree where it was. `VideoImplementsSched` carries all of it over
to `SchedVideo`, where only the video page is left to follow.

**Interrupts.** `FlagMatchesCode` speaks of the code that runs, but the flag that
will hold is in a saved frame, a tss or a local variable of another thread; `IInv`
says what each of these copies is at each point of each stack.

**Terminal, keyboard, RTC.** The invariants relate the history variables (when a
line was typed, which key is down, when the read began) to the state that the code
keeps, at each point of a reader. `NoStale` and
`LineCorrect` are about reads that a newline ends, the second only about lines that
fit `nbytes`; of a read that the number of characters ends nothing but its type is
proved (`ReadReturnsTyped` is false).

**File system.** `IInv` says of each open file, as long as its reads were plain
(`aligned`: for at least one byte, and from a block's first byte or inside one
block), that what they returned is as long as its offset, or the offset is past the end, and of the directory that the
names returned are as many as its position. The work is in `PlainRead`: for a read
that starts at a block boundary or stays in a block, round `i` of the loop of
`read_data` leaves the bytes `offset .. offset + i - 1`, and the block number and the
offset in it are quotient and remainder of the position. `LoadCorrect` applies it to a
read from 0 of the whole length.

**Command line.** `CommandCorrect` holds for every memory, so for every command and
whatever older lines have left behind it. `CommandShape` names the parts of a command:
the place `e` of its end, the place `g` where its first word ends, and the list `Q`
of the arguments of each beginning of the text. After `n` iterations the loop is in
one of two conditions. Either it has not passed `e` (`Clean`): it has copied a
beginning of the name, or the whole name and `Q` of the characters it has read, and
each iteration gets it further. Or it has met spaces before the end and copied the
NUL there (`Passed`): it reads on through the older lines, but `argsBuffer` begins with
`Q[e - 1]` and NUL, which no later iteration changes (`BeginsMore`) and which is all
that `do_getargs` hands out (`GetargsFacts`). `SpaceRun` is the step over several
spaces at once. The hypothesis `Plain` of the property (no space before a newline)
is used exactly there: behind such a space the code would copy the newline and go on.

**Screen.** `DrawsOnScreen` needs nothing but `set_cursor_pos`'s range check and
`putc`'s remainders, but the ranges of the terminals' own counters do: a backspace
subtracts without a check. `LineRoom` ties both counters to the line buffer: each key
that fills the line moves them as far as erasing it will. `HiddenSame` is an induction
over the text with `Alike`, which relates a terminal drawn by `vputc` to the same
terminal drawn by `putc`. `Untouched` uses that output on a hidden terminal changes
neither lib.c's cursor nor video memory (`Kept`).

**Loops.** The prover has no induction over operators, so `Induction` states it for
sets: `LeastNumber`, `SetInduction`, and `Recursion`, that a function over the rounds
of a loop exists when each round maps states to states. `read_loop`, `parse_loop`,
`Squeezed` and `WriteLoop` are such functions. `rtc_get_power_of_2` is compared with a closed form
(`PowerClosedForm`) by its least counterexample.

**Only model-checked.** Liveness, which is outside the prover: `EveryTreeRuns`,
`ProgramStarts`, `CallerResumes`, `LineDelivered`, `ReadReturns`, `Served`.

## Not modelled

The bit layout of descriptor tables and page directories, and the page directory
entries other than the video page; the PIC's initialisation words, and requests
raised before `i8259_init`; `disable_irq` and `pit_disable`, which nobody calls;
`printf`'s formats and the string functions; names and arguments longer than their
buffers; `vidmap`, which stores a constant, and pointer checks; the blinking
cursor and the input history, which nothing reads; faults of kernel code; user
programs, which are arbitrary.

## Plan

1. An abstract console specification (one screen per terminal) that `Screen`
   implements while the cursors stay on the screen, and an abstract line-at-a-time
   specification for `Terminal`.
2. A composition of `Terminal` with the scheduler's choice of thread in place of
   weak fairness.

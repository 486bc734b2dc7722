# A verification model of the l3c kernel

TLA+ models of the kernel in `student-distrib/`: a single-processor x86 kernel
with three terminals, six processes, pre-emptive round-robin scheduling,
signals, a read-only file system, a virtualised RTC and a small GUI. File names
below are relative to `src/student-distrib/`.

The kernel has one processor and no threads of its own, yet most of what can go
wrong in it is concurrency. System calls enter through a trap gate, so they run
with interrupts enabled; several handlers call `sti()` before they are done; and
the timer switches stacks wherever it finds the processor.

## 1. Inventory

| Part | Code | State | Operations | Module |
|---|---|---|---|---|
| Processes, scheduler | `syscall.c` 15-238, `scheduler.c` | `pid_arr`, the PCBs, `myScheduler`, `cnt`, `tss.esp0`, the page at 128MB, the kernel stacks | `execute`, `halt`, `pit_handler`, `scheduler` | `Sched`; what it promises: `Terminals` |
| Signals | `signal.c`, `interrupt_linkage.S`, `idt.c` 109-287, `syscall.c` 370-410 | `sig_pending`, `sig_masked`, `signal_handler`, the user stack | `send_signal`, `handle_signal`, `set_handler`, `sigreturn` | default actions: `Sched`; custom handlers and frames: `Signals` |
| Keyboard, terminals | `keyboard.c`, `terminal.c` | modifier keys, `kbd_buf`, `readkey`, `curr_term_id` | `keyboard_handler`, `terminal_read`, `terminal_write`, `terminal_switch` | the line: `LineInput`; Ctrl-C, Alt-Fn: `Sched`; text: `Screen`; Alt-F, piano: `Windows` |
| Command history, tab | `command_history.c`, `tab.c` | `history_buf`, three indices, `overload` | `press_up`, `press_down`, `update_index`, `press_tab` | `LineInput` |
| Video mapping, text output | `paging.c`, `lib.c` 21-38, 546-719, `terminal.c` | the PTE of 0xB8000, the pages and cursors of the terminals | `update_vidmem_paging`, `user_terminal_putc`, `clear`, `vidmap` | `Screen`; what it promises: `Console`; the mapping against the scheduler: `Sched` |
| Library | `lib.c` 40-545 | none | `memset`, `memcpy`, `memmove`, strings, `itoa`, `printf` | `Library` |
| Interrupt controller, boot | `i8259.c`, every `send_eoi()`, `kernel.c` `entry()` | request, in-service and mask bits | `send_eoi`, `enable_irq`, delivery by priority | `Interrupts` |
| RTC, clock | `rtc.c`, `time.c` | `rtc_ticks`, `rtc_virtual_rate`, `rtc_int_flag` per terminal; the CMOS registers | `rtc_handler`, `rtc_open/read/write`, `get_time` | `Rtc`, `Clock` |
| File system, descriptors | `filesys.c`, `syscall.c` 246-368 | `fd_arr` of each PCB; the image is read-only | `open`, `close`, `read`, `write`, `getargs`, `vidmap`, `read_data`, directory lookup | `Files` |
| GUI, mouse, piano | `gui.c`, `mouse.c`, `speaker.c` | window order and places, the drag, the speaker | `update_order`, `mouse_handler`, piano keys | `Windows` |
| Graphics mode, fonts | `vga.c`, `vbe.c`, `font.c` | none worth the name | port I/O, tables | not modelled |
| Self-tests | `tests.c` | | not called by the kernel as built | not modelled |
| User programs | `syscalls/`, `fish/` | | a program may start any system call or fault | as environment in every module; `sigtest` in `Signals`, the readers in `Files` |

How they interact. The timer handler calls `send_signal()` and `scheduler()`;
`scheduler()` calls `execute("shell")` for a vacant slot; every interrupt and
exception linkage, but not the system call's, ends in `handle_signal()`, whose
default action calls `halt()`; Ctrl-C reads the scheduler's table to find its
target; `terminal_read()`, `rtc_read()` and every write to the screen use
`myScheduler.cur_task` to know which terminal they are on; an echo maps the
visible terminal's page and then that of `cur_task`; the RTC handler redraws the
windows and reads the clock before it acknowledges; a click or Alt-F makes a
window the terminal that gets the keys.

What makes each part correct:

* processes: one chain of processes per terminal; the front of each chain is in
  the scheduler's table; the process that runs is the one the table, the page,
  the stack and `tss.esp0` name; a switch resumes what was saved; `halt()`
  returns to the `execute()` that waits for it;
* signals: a killing signal kills the process it was meant for, and eventually;
  a handler's frame survives until `sigreturn`, which continues where the
  handler interrupted;
* terminals: a line typed at a terminal is read once, whole, by that
  terminal's reader; history indices stay in their ring;
* text: what is written to a terminal is shown there, in order;
* interrupt controller: every interrupt taken is acknowledged once, by its own
  handler, so none is blocked for ever;
* RTC: a reader waits for no more than one virtual period; a time shown is a
  time it was;
* files: the bytes read are the file's, in order, to its end; a process starts
  with two descriptors;
* windows: the order is a permutation, the window on top has the keys, the one
  that is seen under the pointer is the one that is taken.

The hazards of `PROJECT.json` say where each of these is at risk.

## 2. Plan

The modules are independent of each other but for three refinements and one
composition: `TimeSharing` maps `Sched` to `Terminals`, `Screen` is mapped to
`Console`, and `Rtc` extends `Clock`. Each `MC` module adds the constants and the
constraint or view of one module's runs.

Done: `Sched`, `Terminals`, `TimeSharing` and `LineInput` first, as the heart of
the kernel; then `Signals`, `Interrupts`, `Rtc` with `Clock`, `Files`, `Screen` with
`Console`, `Windows` and `Library`.

Proved for every value of the constants: the safety of `Sched` and that it
implements `Terminals`, and all safety and action properties of `Signals`,
`Interrupts`, `Rtc` with `Clock`, `Files`, `Screen` (which implements `Console`),
`Windows` and `Library`; and, for one terminal, the safety of `LineInput`
(section 14).

## 3. `Sched`

### State

| Variable | Code |
|---|---|
| `pid_arr`, `tasks`, `cur_task`, `cnt`, `tss_esp0`, `curr_term_id` | the variables of the same name; `tss_esp0` is the 8KB block the pointer lies in |
| `parent_pcb`, `esp_val`, `sch_ebp`, `sig_pending` | fields of the PCB; a stack pointer is abstracted to the stack it points into and what will execute there |
| `page`, `vidmap` | the mappings of 128MB and of 0xB8000 |
| `stk` | `esp`: the PCB block in use. `get_cur_pcb()` is `stk` |
| `run`, `under` | what executes and what an alarm tick has interrupted, as a `Context` |
| `torn` | history, see below |

`sig_pending` keeps the killing signals only (DIV_ZERO, SEGFAULT, INTERRUPT, all
with the default action): ALARM and USER1 are ignored by default.

Interrupt windows decide the granularity. Code that runs with interrupts off is
one step; wherever the code enables them, a `Context` stands for the point:

* `kernel`: anywhere in a system call before its `cli()`;
* `enter`: between `sti()` (`syscall.c` 220) and `iret` in `execute()`;
* `return`: between `sti()` (`syscall.c` 80) and `leave; ret` in `halt()`;
* `trap`: in a handler after the `sti()` of `send_signal()` (`signal.c` 49);
* `switch`: in `scheduler()` on the tick that sent ALARM, where that `sti()`
  has left interrupts on after `cur_task` has moved.

At each of them the model takes a timer tick, a key or another interrupt. From
the timer `Pit` and `AlarmSwitch` do the whole of `scheduler()`: saving into the
PCB of the current stack, remapping, resuming `sch_ebp` or calling
`execute("shell")` for a vacant slot, with the fault that follows if that fails.

`sch_ebp` is *stale* when its frame has been used, or when the PCB has been
given to a new process: `execute()` does not initialise the field. Resuming a
stale frame makes `run` *wild*, where the model stops: it says nothing about
what executes after such a jump.

### Torn updates

The code has windows in which a tick or a kill finds the bookkeeping half done:
`enter` on a caller's stack, `return`, and `switch`. A kill that lands on a
terminal whose slot is not its own is the other accident. The history variable
`torn` records the first of them. The safety properties have the form
"until `torn`, ...": they say that these windows are the *only* way this
scheduler goes wrong, which is the strongest statement the code allows. Section 13
says what a tick in such a window, or a kill that goes astray, does.

### Properties

| Property | Says |
|---|---|
| `ProcessForest` | table, parents and pids: one chain per terminal, the front in the table, one child each, each `esp_val` on the parent's stack, no leaked pid |
| `RunningConsistent` | slot, stack, page and `tss.esp0` agree; in `execute()` and `halt()` all but the stack are already the other process's |
| `ReadyContexts` | every process a switch may pick has a frame to resume in its PCB |
| `NoStaleJump` | no switch and no return goes through a stale frame |
| `VideoFollows` | 0xB8000 shows the running or the visible terminal |
| `EveryTerminalRuns` | each terminal's process runs infinitely often, unless a vacant terminal is locked out by a full pid table |
| `ShellRestarts` | a vacant slot gets a shell, or pids run out |
| `SignalKills` | a killing signal ends the process in a slot, unless it starts a child first |

Two more conjuncts of the inductive invariant are proved and in no run: `TypeOK`
(ranges, even after a torn update: no index leaves its table, and user or system
code always has a kernel stack in `tss.esp0`) and `BetweenSwitches` (handlers and
alarm ticks run on the stack of a process in a slot, or of a base shell that has
exited and left its slot vacant).

Not modelled here: custom signal handlers (a `kill_task` or `ignore` handler is
assumed), Ctrl-C while the boot code still runs, a second alarm tick inside the
window of an earlier one (ten seconds of ticks lie between), the status value
and arguments, and overflow of a kernel stack: a base shell that exits faults
again and again in `halt()` until a tick arrives, each time one frame deeper.
`trap` after a switch lets interrupts in one step earlier than the code does;
this only adds behaviour.

### Runs

| Run | Constants | Result |
|---|---|---|
| `sched_safety` | 4 pids, 3 slots, alarm every 2 ticks, up to the first torn update | all invariants hold, 4.3 million states |
| `time_sharing` | 3 pids, 2 slots, alarm every 2 ticks, up to the first torn update | the three liveness properties and the refinement of section 4 hold |
| `sched_switch` | 3 pids, 2 slots | violated: section 13 |

Bounds. Four pids on three slots is the smallest instance with three chains, a
parent with a child, and a full pid table with and without a vacant slot; two
ticks per alarm make plain and alarm ticks alternate, so each meets every
context. Two slots of three pids leave one pid for a child or for a vacant
slot, so that both the full and the vacant case come up for liveness. Nothing is
capped by a counter.

`sched_safety` and `time_sharing` use the constraint `UntilTorn` (`MCSched`):
a state after a torn update is checked but not left. All properties of these
runs are implied by `torn`, so nothing they say is cut off; for liveness, the
behaviours that stop at a torn state satisfy the properties there.

Fairness: the timer keeps ticking (`WF` on `Pit \/ PitAlarm`, and on the rest of
an alarm tick), since the PIT is never masked and its handler acknowledges it
before switching (`TimerAndMouseKept` of `Interrupts`). The tail of `execute()`,
of `halt()` and `handle_signal()` are `SF` per stack: each is a few
instructions, ticks are 5ms apart, and a stack that is given the processor again
and again gets through. User code and system calls have no fairness: a program
may loop for ever, and no property relies on it.

## 4. `Terminals` and `TimeSharing`

`Terminals` is the kernel without time sharing: no timer, no `cur_task`, no
stack in use, no page. Each terminal has a process in `front`; every other live
process waits in `execute()` for the child whose `caller` it is; and each
process goes on by itself.

| `Terminals` | In `Sched` | Code |
|---|---|---|
| `front` | `tasks` | `myScheduler.tasks` |
| `caller[p]` | `parent_pcb[p]` of live processes | `parent_pcb` |
| `at[p]` | `run` or what `sch_ebp[p]` holds; on an alarm tick, `under[stk]` | the stacks |
| `pending` | live processes in `sig_pending` | `sig_pending` |

| Action | Steps of `Sched` |
|---|---|
| `Call`, `Return`, `Enter`, `Resumed` | `Syscall`, `SyscallReturn`, `EnterUser`, `HaltReturn` |
| `Execute`, `Exit` | `Execute`; `Halt` and `HandleSignal` |
| `Start` | a tick that finds a vacant slot and a free pid |
| `Post`, `Trap` | an interrupt or fault that posts a signal, without or with the interrupted process taken into a handler; `Trap` is also the tick that resumes a process with a signal, and the one whose shell cannot be started |
| none | every other tick; a handler without a signal; the repeated `halt()` on the stack of an exited base shell |

`Chains` (who runs, that every other live process waits for exactly one child, and
that no process waits for itself through its children) and `ChildrenFirst` (while a process waits nothing happens to it until its child
is gone, and then it is in the `execute()` that started it) are proved of
`Terminals` for all processes and terminals, and of `Sched` until an update is
torn (section 14), and so need no run.

`ImplementsTerminals` is the refinement, checked in the run `time_sharing` (3
pids, 2 slots: a chain of two beside a shell, a full table, vacant slots) and
proved for all constants. It is a safety refinement and holds up to the first
torn update: a step that tears may map to anything. The violation run
`sched_switch` is about such a step. What may be scheduled forever is the
business of the liveness properties of `Sched`.

## 5. `LineInput`

A line has two owners and no lock. The keyboard handler edits `kbd_buf` and
`kbd_buf_count` of the visible terminal with interrupts off; `terminal_read()`
clears, awaits, copies and clears them again with interrupts on; and every
terminal's reader writes the one command history.

### State and actions

The variables up to `overload` are the code's, `kbd_buf`, `kbd_buf_count` and
`readkey` indexed by terminal. `pc`, `want` and `i` are the reader's place in
`terminal_read()`, its `nbytes` and its loop counter. A character is `"none"`
(a zero byte), `"char"` or `"newline"`, which is all the code distinguishes. The
process that reads is the one in front of the terminal: `cur_task` is its
terminal whenever it runs, which is `RunningConsistent` of `Sched`.

| Action | Code |
|---|---|
| `Read`, `TestHistoryFull`, `Wrap` | entry; `curr_history_index == MAX_HISTORY` and the call of `update_index()` behind it |
| `Reset`, `EraseLine`; `Return` | the two calls of `reset_kbd_buf()`, count before bytes; `Return` is the end of the second |
| `Arm`, `Wait` | `readkey = 1`, the loop until it is 0 |
| `Copy`, `CopyDone` | one turn of the copy loop, and its end |
| `Record` | `update_index()` |
| `Killed` | the process ends inside any of these |
| `CharKey`, `EnterKey`, `Backspace`, `TabKey`, `UpKey`, `DownKey`, `TerminalSwitch` | one keyboard interrupt each |

A step of the reader is one access to what the handler also touches. The
`memset` of the buffer is one step, since only its outcome is read. `Copy` is
one turn although a tick may split it; what it reads in the turn is the one
byte at `i` and the count, and nothing of it is kept for a later turn.
`update_index()` turns interrupts off and is one step.

A Tab replaces the line by a command of any length; which one does not matter.
An index outside the history (`Recall`, `Copy`) reads anything, or makes the
reader *wild*: the model stops, as what is overwritten depends on the layout.

### Accidents

`astray` records the first of three: a key that changes the line after its Enter
and before `terminal_read()` has cleared it (or inside the first clearing), a
kill at such a point, and a recall from outside the history. The code guards
against none of them. Properties have the form "until `astray`, ...", so these
are shown to be the only ways the line of a single terminal goes wrong when
whole lines are read. What the accidents themselves do is in section 13.

| Property | Says |
|---|---|
| `CountMatches` | while the reader has it, `kbd_buf_count` characters are in the line and no hole |
| `LineRead` | what was copied is what ended in the Enter, up to `nbytes` and the size of the buffer |
| `UpAndDownAgree` | `print_history_index` and `num_count` name the same row, round the ring |
| `WritesInHistory` | no write behind `history_buf` |
| `LineReturns` | after Enter the read returns, though the terminal be hidden and others read |

### Runs

| Run | Constants | Result |
|---|---|---|
| `line_input` | 1 terminal, buffer 3, history 3, whole lines, until astray | holds, 1.1 million states |
| `line_two_readers` | 2 terminals, buffer 2, history 1, see below | `LineReturns` holds, 673 thousand states |

`WholeLines` is one more than a buffer, as programs ask (1023 for 128). That
matters: a reader killed while it waits leaves `readkey` set, so that an Enter can
come before the next reader has armed; after it a second Enter, which the reader
does wait for, ends the same line again, and behind a full buffer it is counted
though no buffer holds it. The read is right even then, since the copy stops at
the end of the buffer.

A buffer of three holds the empty line, a partial and a full one. Three rows
make the ring's wrap distinct from its neighbours in both directions. The
properties hold for reads of a whole line, which the shell and most programs
do. `sigtest` reads one byte, and `CountMatches` does not survive
that (add 1 to `ReadSizes` to see it): the row recorded has no `\n`, recalling
it fills the buffer with zeros and sets `kbd_buf_count` to its size, and the
next Enter is written behind the buffer.

`line_two_readers` is constrained to states that are not astray and in which
nobody types while no one reads (the line is empty then): what is typed then is
cleared by `Reset` anyway. Fairness is `WF` on each reader's next step: a reader
is a few instructions from its next step and `EveryTerminalRuns` of `Sched` gives
it the processor again and again. No key is fair: a reader may wait for ever.

### Two terminals

The safety properties are claimed for one terminal because with two the code
does not keep them. `terminal_read()` tests `curr_history_index` at its start
and uses it after an Enter, seconds later; in between, the reader of another
terminal may record the last free row, and the first then writes behind
`history_buf` (a trace of 19 states, with both readers past the test when one
row is left). Both readers write the same row when both have an ended line. And
`update_index()` looks at the count of the visible terminal (`command_history.c`
87): a line read on a hidden terminal is recorded only if something has been
typed on the visible one. To see the first, give `MCLineInput_one.cfg` two
terminals, one row of history and `WritesInHistory` alone.

## 6. `Signals`

One process, five signals and two stacks: the user stack, on which
`handle_signal()` pushes a frame for a program's handler, and the kernel stack,
on which the linkages push what `handle_signal()` takes for the interrupted
context. Other processes are seen only as what they do to this one.

| Variable | Code |
|---|---|
| `sig_pending`, `sig_masked`, `signal_handler` | fields of the PCB |
| `user` | the registers of the user context: which handler invocation (0 is `main()`), where in it, whether its next instruction will fault, and its `esp` as a depth of frames |
| `mem` | the user stack by depth: the signal number and the context that `handle_signal()` copied there |
| `kstack` | the frames on the kernel stack: vector, interrupted mode, interrupts on, switched out |
| `truth` | history: the contexts that handlers have really interrupted |

`StackWords` puts together what the processor pushes for a vector and what
`INTR_LINK` or `INTR_LINK_ERROR` pushes below it; `ContextField` is what
`handle_signal()` finds at an offset of its `hwcontext_t` in that. `Custom` asks it
for `esp`: a frame of interrupted kernel code has none, so that the test against
`USER_PROGRAM_IMG_START` (`signal.c` 96) reads a word of the kernel's. If that
word does not look like a user address the signal is lost, since it has been
cleared before (`signal.c` 64); if it does, the model is *wild* and stops. So is it
after a `sigreturn()` without a frame.

`Execute` is the next process in the same PCB. `Tick`, `SwitchBack` and
`CtrlCElsewhere` are the scheduler's share; `Repair` is the handler of `sigtest`,
which stores a pointer into the register its frame holds.

| Property | Says |
|---|---|
| `FramesIntact` | each running handler has its own frame and the frame holds the context that was interrupted, though handlers nest |
| `ReturnsToInterrupted` | `sigreturn()` continues exactly where the innermost handler interrupted |
| `ContextFound` | the linkages of every vector put the fields where `hwcontext_t` has them |
| `KillIsActedOn` | a killing signal with the default action ends the process, however many other signals and faults there are |

Run `signals`: the faults 0 (no error code), 14 and 17 (error code), handlers for
SEGFAULT and ALARM, at most two nested handlers and three kernel frames (constraint
`Nesting` of `Signals`, bounds `MAX_NEST` and `MAX_DEPTH`); 207 thousand states. Two handlers are
enough for one frame to lie between another and the stack pointer; three kernel
frames are a fault in a system call with an interrupt on top.

Fairness: `HandleSignal` and `SwitchBack` are weakly fair, as any handler gets to
its end and any process gets the processor again (`EveryTerminalRuns`). The timer
is strongly fair (`Tick(FALSE)`): while interrupts are off the controller holds the
request, and they come on again and again. No user instruction is fair.

## 7. `Interrupts`

The two controllers in fully nested mode with the cascade on line 2, the four
lines the kernel uses, their handlers on two stacks, and `entry()` from
`i8259_init()` on.

| Variable | Code |
|---|---|
| `irr`, `isr`, `unmasked` | request, in-service and (negated) mask registers; `CASCADE` in `isr` is the slave's bit on the master |
| `iflag`, `cur`, `stack` | IF, the stack in use, the handlers on each stack with the point they are at |
| `pending` | processes with INTERRUPT pending |
| `booted`, `beat`, `cnt` | steps of `entry()` done, an RTC interrupt seen by `play_note()`, ticks since the last ALARM |
| `rested` | bound: a line requests once before the processor is back in the interrupted code |
| `orphans` | history: lines in service whose handler a kill has thrown away |

What a handler does with interrupts off is one step with its delivery; a handler
that enables them stops at `eoi` (about to acknowledge; `eoi2` for the slave after
the master), `sched` (the ALARM tick before `scheduler()`) or `exit` (in
`handle_signal()`). That is where the handlers differ: the timer and the mouse
acknowledge first, the RTC last and with interrupts on, the keyboard last and after
a `sti()` if the key was Ctrl-C, Up or Down.

| Property | Says |
|---|---|
| `InServiceOwned` | a line is in service exactly while one handler on some stack has still to acknowledge it, or since a kill took that handler; no handler ends another's service |
| `TimerAndMouseKept` | a kill can lose the keyboard, the RTC and the cascade, never the timer or the mouse |
| `BootEnds` | the boot's music, which waits for the RTC, is given it |
| `EveryLineServed` | a request is served, though handlers are switched out before they acknowledge, unless a kill has lost one |

Run `interrupts`: two stacks, an alarm every second tick, three handlers nested;
131 thousand states. Three is a keyboard or RTC handler, a timer above it, and
one more. Fairness: the processor goes on (`Boot`, `UserStep`, `HandlerStep`, a
delivery), and the PIT and the RTC, which are periodic, request.

What `orphans` records is real. Ctrl-C's `sti()` comes before the keyboard's
`send_eoi()`; a tick in between resumes, later, or `handle_signal()` in a
handler nested above kills the process first. The keyboard is then in service
for ever, with every line below it; likewise the RTC. Not modelled: `sti()` at
the end of `i8259_init()` before there is paging (nothing is unmasked yet), and
Ctrl-C during the boot, when there is no process to mark.

## 8. `Rtc` and `Clock`

One physical interrupt serves a counter, a flag and a rate per terminal, and the
redrawing of the screen, which reads the time of day. `Clock` is `get_time()`
and the device it reads: the registers are read one by one, twice, until two
passes agree, and may change between any two reads. Seconds, minutes and hours
are modelled; the date is read in the same way and compared too. `Rtc` extends
`Clock` and calls it from the handler.

`Tick` is the first half of `rtc_handler()`, with interrupts off, on the stack of
some terminal's process; `ScreenTick`, `Redraw`, `Redrawn` and `Eoi` the rest, with
interrupts on, while the processes of the other terminals run. `Open`,
`Write`, `Read`, `Seen`, `Return` and `Killed` are the processes.
`rtc_read()` is three steps, so that a virtual interrupt falls before the first
clear, in the loop, or between the loop and the second clear, where it is lost.

| Property | Says |
|---|---|
| `WaitsOnePeriod` | a reader waits for less than one virtual period before its flag is set, whatever rates were set before and however far the counter had got |
| `TimeShownWasReal` | the time on the status bar is one the clock showed during the call |
| `ReadReturns` | a reader gets its interrupt, though handlers and redrawing come in between |
| `ScreenRedrawn` | the loop of `get_time()` does not hold the RTC handler for ever |

Run `rtc`: two terminals, two physical interrupts per second (so that rates 1
and 2 exist, and 3 and 0 are refused), a redraw every second interrupt, in BCD,
at 9:59:59 with at most two updates during one call (`MAX_UPDATES`), 127
thousand states. Two updates are one more than the loop can be caught by once.
Fairness: the RTC interrupts, its handler goes on, an update of the clock ends
(2ms), and a process that is not under the handler is scheduled.

Seen and left alone: the hour is moved by six time zones and the date is not
(`time.c`), a 12-hour clock would swap noon and midnight, and index 18 of the 18
characters of `time_buf` is written.

## 9. `Files`

The processes of one terminal, their descriptor tables and a small image. The
tables are kept when a process ends, as the PCB is, and the next process with
the same pid starts from them. `open()` is two steps, since a signal may end the
process between `flags = Busy` (`syscall.c` 264) and the operations (269). Every
other call is one step: the image is read-only and a table belongs to one
process.

| Variable | Code |
|---|---|
| `chain` | the processes of the terminal, each the parent of the next |
| `fd_arr`, `arg_buf` | fields of each PCB; `arg_buf` only as whether it is empty, or long enough to look like a descriptor in use |
| `opening` | the `open()` in progress |
| `last`, `got` | history: the last call's answer, what each descriptor has given |
| `status` | "wild" once the kernel calls through a bad pointer |

`read_data()` is the code's walk over blocks, byte by byte (`Walk`, `NextByte`),
with the sum of length and offset modulo `UINTS`, twice `INT_MAX + 1`; it is checked
against `Contents`, the file by division and remainder. `FilesAssumption` says what
the tool that makes the image guarantees: a file is no longer than an `int32_t`
counts and each of its blocks is there, the inode of an entry exists, and a name has
at most `FILENAME_LEN` characters.

| Property | Says |
|---|---|
| `FreePidsClosed` | a process starts with standard input and output and nothing else, wherever the last holder of its pid ended |
| `BytesInOrder` | what has been read from a descriptor is the beginning of its file, or of the list of names |
| `EofMeansAll` | a program that reads until it gets 0 bytes has read the whole file |
| `NameFits` | names fit the 33 bytes that `ls` and `grep` provide, the unterminated ones too |

Run `files`: two pids, four descriptors, a file of three bytes in two blocks out
of order with a name of the greatest length, an empty file, the directory and
the RTC; sizes -1, 1 and more than any file; `INT_MAX` 7; 173 thousand
states. The view of `MCFiles` drops what is overwritten before it is read.

Where the model is wild: `read()` or `write()` of descriptor `MAX_FILES`
(`syscall.c` 308), which overlays `arg_buf`, and `halt()` in the middle of the
first `open()` of a descriptor nobody has used, which calls through NULL. The
wrap of `length + offset` (`filesys.c` 116) cannot happen, because `read()`
refuses a negative `nbytes`; without that test `BytesInOrder` fails. Not
modelled: the 32 bytes `execute()` has for the first word of a command
(`syscall.c` 121).

## 10. `Screen` and `Console`

`Console` says what a terminal promises: a strip of text of which the last rows
are kept. `Screen` is the code: a page and two one-byte cursors per terminal,
the page at 0xB8000 through which all of them write, and the one where
`vidmap()` puts it. `user_terminal_putc()`, an echo, `clear()`,
`terminal_switch()` and the remapping by a tick run with interrupts off and are
one step each; the loop of `terminal_write()` does not, so that anything may
come between two characters.

`astray` records the first text that goes where it does not belong. There are
two ways: after a `terminal_switch()` in the middle of a process's turn, 0xB8000
shows the new terminal until the next tick or echo, and the characters written
meanwhile go there, by the cursor of the other; and the kernel's own `printf()`
in `halt()` writes by a position of its own over whatever is there.

| Property | Says |
|---|---|
| `BlankPastCursor` | until then, past the cursor a page is blank |
| `NoThirdTerminal` | 0xB8000 is the page of the running or the visible terminal, and never of a third |
| `CursorShown` | the hardware cursor is the visible terminal's, whoever writes |
| `ImplementsConsole` | up to the first text astray, every step is one of `Console` for one terminal, or none |

Run `screen`: three terminals of three rows by two columns, one character; 710
thousand states. Two columns have a first, a last and a full row, three rows a
scroll that keeps one row between the first and the last. Constraints: the model
is not left past `astray`, and one terminal of the three has no text
(`OneBlank`): no step involves three pages.

Not modelled: that `putc()` computes a position past the page after a newline at
the last row. A program that draws through `vidmap()` draws to the text memory
of the card, which nothing shows, until the next remapping; its bytes are not
modelled.

## 11. `Windows`

The mouse handler and the keys that move, raise and hide windows or play the
piano; both run with interrupts off and are one step. Coordinates are the
code's on a smaller screen.

`Packet` is one mouse packet: the click, judged where the pointer was, or the
release, and then the movement. A packet that overflowed is dropped after its first
byte only (`mouse.c` 139), so that its other bytes are taken for packets; those are
among `Packet`'s already. `grip` and `detuned` are history.

| Property | Says |
|---|---|
| `KeysGoToTop` | the top window's terminal has the keys, and the order is a permutation, whichever of Alt-F, the bar and a click raised it |
| `TakenIsSeen` | the window that a click takes is the one seen under the pointer from then on |
| `HeldByOnePoint` | a window is let go by the point at which it was taken |
| `NoteEnds` | a note sounds after its key only if the piano was turned on or off with the key down |

Run `windows`: three windows of 2 by 2 on a screen of 4 by 4, 610 thousand states.
Constraint `Few`: one window at most is away from its first place, and then one
at most is hidden; none is either while the piano is in use, which shares nothing
with the windows but the speaker's spot on the screen.

Seen and left alone: a click takes the *lowest* window under the pointer
(`mouse.c` 242), which it also raises; a window hidden while it has the keys
keeps them; with the button held on the bar or the speaker each packet toggles
again; the speaker can be clicked through a window; the branches for the other
buttons are never reached (`mouse.c` 157-163). Modifier keys and pixels are not
modelled.

## 12. `Library`

The routines of `lib.c` on bytes and text, as functions of a memory of bytes.
`memset()` and `memcpy()` work up to a boundary of four, then by double words,
then by the rest; a unit is read whole before it is written, which matters when
`memcpy()` is used on an overlap, as `scroll()` does. Each loop is a recursive
function of the number of its passes: what is left of a number after each digit
(`Rest`), the memory after each unit moved, the state of `printf()` after each
character of its format. `LibraryAssumption` says what the sizes of the buffers in
`printf()` take for granted: a number is at most eight digits long in hexadecimal,
and the buffers hold its digits behind the eight zeros of `%#x` or a sign.

| Property | Says |
|---|---|
| `BytesExact` | a call changes the bytes it is given and no other, to what they should be, at every alignment, length and overlap |
| `NumberReads` | a number that is printed reads back as the number, in its shortest form or with eight digits for `%#x` |

Run `library`: 14 bytes (each alignment, with a double word and bytes on both
sides of it), three memories whose bytes all differ, 16-bit numbers (0, 9, 10,
the largest, and both sides of the sign); 13 thousand states, each a call.
Preconditions of the callers, in the guards: blocks fit, and `memcpy()` overlaps
downwards only. Not modelled: port I/O; a format that ends in `%`, of which
there is none; the direction flag that a downward `memmove()` leaves set.

## 13. What the code does not keep

One run is expected to be violated:

* `sched_switch` (`SwitchResumesAProcess`). `execute()` puts the child in
  `tasks[]`, then enables interrupts (`syscall.c` 220) while still on the
  caller's stack. A tick saves into the caller's PCB (`scheduler.c` 89-91); when
  the slot comes round again `scheduler.c` 117-124 resumes the child through an
  `sch_ebp` that was never written. The window follows a long stretch with
  interrupts off (the program load), so a tick is often already pending when
  `sti()` opens it. The window `return` of `halt()` is the same (`sti()` at
  `syscall.c` 80, the parent's `esp` at 84-92): the parent is resumed from an
  older `sch_ebp`, or none, and never sees the status.

The modules also state what other comments say of the code and the code does not
do. Each is a definition with the quotation in its comment, is in no run, and
fails when it is added to one (`EndedLineKept` and `PrintIndexed` to
`line_input` without its constraint, `BaseShellReplaced` to `time_sharing`):

| Definition | What happens |
|---|---|
| `CtrlCHitsVisible` (`Sched`) | with a vacant visible terminal `send_signal(INTERRUPT)` (`signal.c` 43-48) writes to 8MB, faults, and SEGFAULT goes to the process of another terminal, not to the "current program" of `keyboard.c` 204 |
| `BaseShellReplaced` (`Sched`) | `syscall.c` 59 says that a base shell that exits is replaced; the call is commented out (line 65). The scheduler does it if a pid is free; while the other terminals hold every pid it never is, and each attempt (`scheduler.c` 93-117) kills the process the tick interrupted |
| `PrintIndexed` (`LineInput`) | at the oldest row `press_up()` undoes its decrement with `++` (`command_history.c` 43) after the decrement has wrapped: the index becomes `MAX_HISTORY`, and the next `press_down()` reads a row that is not there |
| `EndedLineKept` (`LineInput`) | between an Enter and the copy `readkey` is 0 and the line is still in the buffer; a second Enter is taken for one nobody waits for (`keyboard.c` 210) and clears the line |
| `OneHandlerAtATime` (`Signals`) | `sig_masked` (`signal.c` 62) is set and never read: handlers nest |
| `KeyboardCritical` (`Interrupts`) | Ctrl-C, Up and Down enable interrupts before "end of critical section" (`keyboard.c` 247) |
| `HaltCloses` (`Files`) | `halt()` in the middle of `open()` calls through NULL before it has closed all files (`syscall.c` 43) |

## 14. Proofs

The first half of `TimeSharingProofs` proves of `Sched`, for every number of
processes, slots and alarm ticks (`SchedAssumption`: each at least 1):

* `TypeCorrect`: `Spec => []TypeOK`, with no proviso about torn updates;
* `SchedCorrect`: `Spec => []SchedInv`, and from it `ForestCorrect`,
  `RunningCorrect`, `SwitchCorrect` (`ReadyContexts`), `JumpCorrect`
  (`NoStaleJump`) and `VideoCorrect`: every invariant of the run `sched_safety`.

`SchedInv` is the conjunction of `TypeOK` and the six safety properties. None
of the six is inductive alone. `ProcessForest` needs `RunningConsistent`,
because `execute()` and `halt()` write to slot `cur_task` what concerns process
`stk`. `RunningConsistent` after a switch needs `ReadyContexts`, which says what
will be running then. `ReadyContexts` after a switch needs `Steady`: whenever
bookkeeping is not half done, the process on the processor is the active one and
what it executes can be resumed. `NoStaleJump` for `halt()` needs
`ProcessForest`: the execution frame `esp_val` points to is that of a live
process, which is not the one that halts. `BetweenSwitches` carries the facts
across the two windows the others do not speak of, the exited base shell and the
alarm tick.

Layout: one typing lemma per shared operator, `TypeStep` by action; then
`Steady` and `SavedReady`, and one lemma per group of actions (`ExecuteInv`,
`HaltInv`, `ReturnInv`, `SwitchInv` with `TimerInv`, `LinkageInv`), collected in
`InvStep`. `TornStays` reduces every step to the case where no update has been
torn.

The second half proves `TimeSharingCorrect`: `Spec => ImplementsTerminals`.
The mapped state is a function of the tables and of the one running context, so
the argument is about what a step does *not* move. `DoingOfFront` and
`DoingOfOthers` say, from `SchedInv`, what the mapping gives for a process in a
slot and for any other. `OneMoves` and `NoneMoves` conclude that a step which
leaves the tables alone moves at most the process it names. Then one lemma per
group of actions: `ProceedStep`, `ExecuteStep`, `ExitStep`, `SwitchStep` (a tick:
the context saved and the context resumed are both where the mapping already
had them, which is `ReadyContexts` and `Steady` at work), `TimerStep` and
`LinkageStep`.

The third part carries the promises of `Terminals` over to the kernel.
`OnTerminals`, the types and `Chains` of the mapped state, is inductive for the steps of
`Terminals`: the two that matter are `ExecuteKeeps` (the child takes the place of
the one process that starts to wait for it) and `ExitKeeps` (whoever ends was in
front, hence nobody it called is left). Since a step of `Sched` that tears nothing
is such a step or none, `ChainsCorrect` and `ChildrenFirstCorrect` hold of `Sched`
until an update is torn; `TerminalsChains` and `TerminalsChildrenFirst` are the same
of `Terminals` itself. That no chain is a ring is stated over sets, since induction
along a chain is out of the prover's reach: of any processes, one was called by none
of them and one calls none of them. `ExecuteKeeps` takes the new child out of the
set, which has called nobody; `ExitKeeps` only takes a call away.

`SignalsProofs` (`SignalsAssumption`: any faults, any bounds) proves
`FramesKept`, `ReturnsWhereInterrupted` and `ContextsFound`. The inductive fact is
`Saved(d)`: on level `d` of the user stack lies the context of handler `d - 1`,
which is what the innermost handlers down to it interrupted, but for `eax`, where
a system call's result may already be. The user stack of the model ends at level
`MAX_NEST + 1`, so the theorems assume `[]Nesting`, handlers at most `MAX_NEST`
deep. This is no loss: the depth grows by one at a time, so any finite behaviour
satisfies it for some value of the constant, and for safety that is every case.

`InterruptsProofs` (any number of stacks, depth, device counts) proves
`ServiceIsOwned` and `TimerAndMouseServed`. `InServiceOwned` is inductive with
`OneOwner` (two handlers on two stacks never owe the same line, and none owes a
line lost to a kill), `LateOnes` (only the keyboard and the RTC still owe while
they run with interrupts on) and `Others` (which registers bits outside the four
lines can have). The step that matters is a delivery: priorities keep a line that
is still in service from being delivered again.

`RtcProofs` (any terminals, any power of two up to 1024 as the physical rate, any
frequencies asked for, any time of day, and up to 59 updates during one call of
`get_time()`) proves `EveryWaitOnePeriod` and `ShownTimeIsReal` from `RtcInv`.
`WaitsOnePeriod` is not inductive: a rate can be lowered below what the counter
has reached. `Waits` adds that what a reader has waited is at most the counter,
and that the counter is below the rate once a tick has come since the read began.
`TimeShownWasReal` needs what each pass of `get_time()` has read so far,
`ReadSoFar`: the seconds at one moment, the other fields at that moment or later
but within the pass. The seconds of the second pass come after all of the first;
if they are the same less than a minute apart, no second has passed
(`SecondTells`), and all of the first pass was read at one moment (`SameMoment`).
The bound of 59 updates is what the code relies on: it does not notice a read
held up for a whole minute between two registers.

`FilesProofs` (any well-formed image, block size, number of processes and
descriptors, and sizes of reads) proves `FreePids`, `ReadsInOrder`, `EofIsAll` and
`NamesFit`. `BytesInOrder` needs the position: in `InOrder` what has been read is the
first `pos` elements of the file or directory, which `open()`
in progress (`Opens`) makes true by its first assignment and `ReadData` keeps.
`WalkIs` shows that the code's walk from block to block is division and
remainder, by descent from the least byte where it would not be; `Unsigned` that
the sum that decides where a read is cut never wraps for a size that `read()` lets
through. `Standards` is `FreePidsClosed` with the current `open()` kept off
descriptors 0 and 1. After a call through a bad pointer nothing is claimed.

`ScreenProofs` (any number of terminals and characters, 2 to 255 rows, 1 to 254
columns: the cursors are one byte) proves `ThirdTerminalSafe`, `CursorFollows`,
`NothingPastCursor` and `ScreenImplementsConsole`. `Blanks` (past the cursor of a
page there are blanks, unless text has gone astray) is inductive only with the
ranges of the cursors, since a backspace at the left edge goes to the row above
and a full row wraps. The refinement goes by what a page means, the text above
the cursor without its trailing blanks: one lemma for each of a character, a new
line, a scroll, a backspace and a clearing, then one step for every action, in
which only the terminal that is written to moves.

The second half of `ScreenProofs` is about `lib.c` (any memory, width of a number and
contents: `LibraryAssumption`) and proves `BytesExactCorrect` and
`NumberReadsCorrect`. The invariant is small (`Ready`: the memory is one the caller may
have when it makes a call); the work is to find what the loops compute. A set of
numbers that is not empty has a least one (`LeastNat`), so that two recursions that
start and go on alike are the same (`SameRecursion`), and each loop gets a closed
form: `MovedUpIs` and `MovedDownIs` (all at once what is moved unit by unit, for
overlaps in the one direction), `StrRevIs`, `RestIs`, `FormattedIs` (for the formats of
one conversion). `MemcpyIs` and `MemsetIs` then join the bytes before the boundary, the
double words and the rest. `ItoaIs` says which digit is where; `NumeralReads` reads
any numeral from its first digit on: what has been read after each digit is what is
left of the number after the others, so that the last gives the number. `FirstDigit`
is why no zero comes first, and `AlignedReads` why the zeros of `%#x` end where the
digits begin, also for 0.

`WindowsProofs` (any number and size of windows on any screen they fit, with
the pointer inside it: `WindowsAssumption`) proves `WindowsOrder`, `WindowsTaken`,
`WindowsHeld` and `NotesEnd`. Raising a window permutes the order, which is where
`TakenIsSeen` rests: the one raised is above all others under the pointer.
`HeldByOnePoint` needs `Placed`, the pointer and a dragged window at the same
distance as when it was taken.

`LineInputProofs` (any buffer of at least two characters, any history of at least
one row) proves `LineTypes` for any number of terminals and programs, and for one
terminal (`OneTerminal`) `HistoryKept`, `LinesCounted`, `LinesRead` and
`ShownRowRight`; the last three for programs that read whole lines
(`WholeLineReads`). Section 5 says how each hypothesis fails and what then
happens. `LineInv` is inductive. Its parts lean on each other in a ring: the line
has no hole (`LineKept`) because what Up recalls has an end (`RowsEnded`), a row has
an end because a line that has ended was copied to it whole (`CopyKept`), and it is
copied whole because it has no hole. `ShownKept` is `UpAndDownAgree` without the
remainder: `print_history_index + num_count` is the row of the line being read, or
one or two rings more, or one ring less.

## 15. Model-checked only, and not modelled

Model-checked only: all liveness under fairness, which is out of the prover's reach:
`EveryTerminalRuns`, `ShellRestarts`, `SignalKills`, `LineReturns`, `KillIsActedOn`,
`BootEnds`, `EveryLineServed`, `ReadReturns` and `ScreenRedrawn`. So are the formats of
`printf()` with more than one conversion and, of `LineInput`, what concerns two
terminals at once.

Not modelled: the descriptor tables of `x86_desc.*` and the exceptions' messages
(constants and text); `vga.c`, `vbe.c` and `font.c`, which are port I/O and a
table; what is drawn, pixel by pixel; the program image and its entry point;
`tests.c`, which the kernel as built does not call; programs but for what they
may ask of the kernel.

------------------------------- MODULE Sched -------------------------------
(***************************************************************************)
(* Processes and the round-robin scheduler of the kernel: execute and halt  *)
(* (syscall.c), the timer interrupt that switches between the terminals     *)
(* (scheduler.c), the default signal action that kills a process            *)
(* (signal.c), and the two keys that reach into them, Ctrl-C and Alt-Fn     *)
(* (keyboard.c, terminal.c).                                                *)
(*                                                                         *)
(* One processor runs on one kernel stack at a time.  The stack of process  *)
(* p and its PCB share an 8KB block, so "which process am I" is the block   *)
(* esp points into (get_cur_pcb), never a variable.  The hazard of this     *)
(* code is that the scheduler's table (tasks), the current stack (stk), the *)
(* stack for the next trap (tss_esp0), the mapped program page (page) and   *)
(* the saved contexts (sch_ebp) change one after the other, with interrupts *)
(* enabled again before the last of them has changed.                       *)
(***************************************************************************)
EXTENDS Integers

CONSTANTS
    MAX_PROCESSES,  \* processes the kernel can hold (syscall.h: 6)
    NUM_SCHES,      \* slots of the scheduler, one per terminal (scheduler.h: 3)
    ALARM_TICKS     \* timer ticks between two ALARM signals (scheduler.c: 1000)

ASSUME SchedAssumption ==
    /\ MAX_PROCESSES \in Nat \ {0}
    /\ NUM_SCHES \in Nat \ {0}
    /\ ALARM_TICKS \in Nat \ {0}

Pids == 0 .. MAX_PROCESSES - 1
Slots == 0 .. NUM_SCHES - 1

NOT_EXIST == -1     \* scheduler.h: a slot without a process
NULL == -1          \* no parent, no child, no argument

VARIABLES
    pid_arr,        \* pid_arr[p] = 1: the pid is taken
    parent_pcb,     \* PCB: the parent, NULL for a base shell
    esp_val,        \* PCB: the stack whose execute() frame halt() returns to
    sch_ebp,        \* PCB: what the scheduler resumes
    sig_pending,    \* the processes with a killing signal pending
    tasks,          \* myScheduler.tasks
    cur_task,       \* myScheduler.cur_task
    cnt,            \* timer ticks since the last ALARM
    tss_esp0,       \* the stack block tss.esp0 points into
    page,           \* the process whose 4MB page is mapped at 128MB
    vidmap,         \* the terminal whose buffer 0xB8000 is mapped to
    curr_term_id,   \* the visible terminal
    stk,            \* the stack block in use; in user mode, the next trap's
    run,            \* what the processor executes: a Context
    under,          \* what an alarm tick interrupted, per stack
    torn            \* history: a switch has hit half-done bookkeeping

pcbs == <<parent_pcb, esp_val>>
screen == <<vidmap, curr_term_id>>
vars == <<pid_arr, parent_pcb, esp_val, sch_ebp, sig_pending, tasks, cur_task,
          cnt, tss_esp0, page, vidmap, curr_term_id, stk, run, under, torn>>

(***************************************************************************)
(* What can be executing, or saved on a stack to be resumed:                *)
(*   boot    the hlt loop at the end of entry(), on the stack of pid 0;     *)
(*   user    user code;                                                     *)
(*   kernel  a system call, interrupts enabled (its IDT entry is a trap     *)
(*           gate);                                                         *)
(*   enter   execute() after its sti(), before its iret; arg is the child;  *)
(*   return  halt() after its sti(), before it restores the parent's esp;   *)
(*   trap    an interrupt or exception handler that has posted a signal     *)
(*           with send_signal(), which ends in sti(); handle_signal() next; *)
(*   switch  scheduler() on an alarm tick, whose send_signal(ALARM) left    *)
(*           interrupts enabled; arg is next_pointer, cur_task has moved;   *)
(*   stale   (saved only) memory that is not a saved context;               *)
(*   wild    (running only) a switch or return went through such memory.    *)
(***************************************************************************)
Context ==
    [at : {"boot", "user", "kernel", "return", "trap", "stale", "wild"}, arg : {NULL}]
    \cup [at : {"enter"}, arg : Pids]
    \cup [at : {"switch"}, arg : Slots]

At(where) == [at |-> where, arg |-> NULL]
Stale == At("stale")
Wild == At("wild")

TypeOK ==
    /\ pid_arr \in [Pids -> {0, 1}]
    /\ parent_pcb \in [Pids -> Pids \cup {NULL}]
    /\ esp_val \in [Pids -> Pids \cup {NULL}]
    /\ sch_ebp \in [Pids -> Context]
    /\ sig_pending \subseteq Pids
    /\ tasks \in [Slots -> Pids \cup {NOT_EXIST}]
    /\ cur_task \in Slots
    /\ cnt \in 0 .. ALARM_TICKS - 1
    /\ tss_esp0 \in Pids \cup {NOT_EXIST}
    /\ page \in Pids \cup {NOT_EXIST}
    /\ vidmap \in Slots
    /\ curr_term_id \in Slots
    /\ stk \in Pids
    /\ run \in Context /\ run.at # "stale"
    /\ under \in [Pids -> Context]
    /\ torn \in BOOLEAN
    /\ run.at \in {"boot", "user", "kernel", "enter", "return"} => tss_esp0 \in Pids

(* scheduler_initialize(), terminal_init() and the TSS set up by entry():   *)
(* the boot code runs on the block below 8MB, which is that of pid 0.        *)
Init ==
    /\ pid_arr = [p \in Pids |-> 0]
    /\ parent_pcb = [p \in Pids |-> NULL]
    /\ esp_val = [p \in Pids |-> NULL]
    /\ sch_ebp = [p \in Pids |-> Stale]
    /\ sig_pending = {}
    /\ tasks = [s \in Slots |-> NOT_EXIST]
    /\ cur_task = 0
    /\ cnt = 0
    /\ tss_esp0 = 0
    /\ page = NOT_EXIST
    /\ vidmap = 0
    /\ curr_term_id = 0
    /\ stk = 0
    /\ run = At("boot")
    /\ under = [p \in Pids |-> Stale]
    /\ torn = FALSE

-----------------------------------------------------------------------------
(* The points where a switch or a kill finds the bookkeeping half done. *)
MidUpdate ==
    \/ run.at \in {"return", "switch"}
    \/ run.at = "enter" /\ run.arg # stk

(* Mutant: the search stops at MAX_PROCESSES - 1 or earlier, taken or not. *)
FirstFreeUnchecked(c) == \A p \in Pids : p < c => pid_arr[p] # 0

(* The search for a free pid in execute(). *)
FirstFree(c) ==
    /\ pid_arr[c] = 0
    /\ \A p \in Pids : p < c => pid_arr[p] # 0

PidsFull == \A p \in Pids : pid_arr[p] # 0

(* Mutant: tss.esp0 is left where it was. *)
InstallNoStack(p) ==
    /\ page' = p
    /\ UNCHANGED tss_esp0

(* Map the program page of p and point tss.esp0 at its kernel stack. *)
Install(p) ==
    /\ page' = p
    /\ tss_esp0' = p

(* execute() from the pid search to its sti(), on stack caller, while t is   *)
(* the current slot.  A base shell never returns to the execute() frame of   *)
(* its caller.  sch_ebp is not initialised: what an earlier holder of the    *)
(* pid left there resumes nothing of this process.                           *)
Spawn(c, t, caller, saved) ==
    /\ FirstFree(c)
    /\ pid_arr' = [pid_arr EXCEPT ![c] = 1]
    /\ parent_pcb' = [parent_pcb EXCEPT ![c] =
                        IF tasks[t] = NOT_EXIST THEN NULL ELSE tasks[t]]
    /\ tasks' = [tasks EXCEPT ![t] = c]
    /\ esp_val' = [esp_val EXCEPT ![c] =
                     IF tasks[t] = NOT_EXIST THEN NULL ELSE caller]
    /\ sch_ebp' = [saved EXCEPT ![c] = Stale]
    /\ sig_pending' = sig_pending \ {c}
    /\ Install(c)
    /\ stk' = caller
    /\ run' = [at |-> "enter", arg |-> c]

(* halt() of the process whose stack is in use.  A base shell has no parent: *)
(* after the warning the code goes on to parent_pcb->pid, and the page fault *)
(* it takes posts SEGFAULT to the shell that is already gone.                *)
HaltCurrent ==
    LET parent == parent_pcb[stk] IN
    /\ pid_arr' = [pid_arr EXCEPT ![stk] = 0]
    /\ torn' = (torn \/ (pid_arr[stk] = 1 /\ tasks[cur_task] # stk))
    /\ \/ /\ parent = NULL
          /\ tasks' = [tasks EXCEPT ![cur_task] = NOT_EXIST]
          /\ sig_pending' = sig_pending \cup {stk}
          /\ run' = At("trap")
          /\ UNCHANGED <<page, tss_esp0>>
       \/ /\ parent # NULL
          /\ tasks' = [tasks EXCEPT ![cur_task] = parent]
          /\ sig_pending' = sig_pending \ {stk}
          /\ run' = At("return")
          /\ Install(parent)
    /\ UNCHANGED <<pcbs, sch_ebp, cur_task, cnt, screen, stk, under>>

-----------------------------------------------------------------------------
(* System calls. *)

(* int 0x80 from user code: the processor takes the stack in tss.esp0. *)
Syscall ==
    /\ run.at = "user"
    /\ run' = At("kernel")
    /\ UNCHANGED <<pid_arr, pcbs, sch_ebp, sig_pending, tasks, cur_task, cnt,
                   tss_esp0, page, screen, stk, under, torn>>

(* iret to user code: a system call that is done, or an execute() that       *)
(* failed on its command or found no free pid.                               *)
SyscallReturn ==
    /\ run.at = "kernel"
    /\ run' = At("user")
    /\ stk' = tss_esp0
    /\ UNCHANGED <<pid_arr, pcbs, sch_ebp, sig_pending, tasks, cur_task, cnt,
                   tss_esp0, page, screen, under, torn>>

Execute ==
    /\ run.at = "kernel"
    /\ \E c \in Pids : Spawn(c, cur_task, stk, sch_ebp)
    /\ UNCHANGED <<cur_task, cnt, screen, under, torn>>

(* The iret at the end of execute(). *)
EnterUser ==
    /\ run.at = "enter"
    /\ run' = At("user")
    /\ stk' = tss_esp0
    /\ UNCHANGED <<pid_arr, pcbs, sch_ebp, sig_pending, tasks, cur_task, cnt,
                   tss_esp0, page, screen, under, torn>>

Halt ==
    /\ run.at = "kernel"
    /\ HaltCurrent

(* Mutant: esp and ebp come from the parent's PCB. *)
ReturnStackOfParent == esp_val[parent_pcb[stk]]

(* The end of halt(): esp and ebp from the PCB of the halted process, leave, *)
(* ret.  That uses up the execute() frame which waited for it; the PCB of    *)
(* the halted process is dead data from here on.                             *)
ReturnStack == esp_val[stk]

HaltReturn ==
    LET caller == ReturnStack IN
    /\ run.at = "return"
    /\ esp_val' = [esp_val EXCEPT ![stk] = NULL]
    /\ parent_pcb' = [parent_pcb EXCEPT ![stk] = NULL]
    /\ \/ /\ caller \notin {NULL, stk}
          /\ stk' = caller
          /\ run' = At("kernel")
       \/ /\ caller \in {NULL, stk}
          /\ stk' = stk
          /\ run' = Wild
    /\ UNCHANGED <<pid_arr, sch_ebp, sig_pending, tasks, cur_task, cnt,
                   tss_esp0, page, screen, under, torn>>

-----------------------------------------------------------------------------
(* The timer. *)

(* Mutant: vacant slots are passed over. *)
NextSlotOccupied ==
    LET n == (cur_task + 1) % NUM_SCHES IN
    IF tasks[n] = NOT_EXIST THEN cur_task ELSE n

NextSlot == (cur_task + 1) % NUM_SCHES      \* scheduler_getnext()

(* Mutant: the PCB is found through the table, after cur_task has moved. *)
SaveContextByTable(k) == [sch_ebp EXCEPT ![tasks[cur_task]] = k]

(* The PCB of the stack in use (get_cur_pcb) takes the interrupted context. *)
SaveContext(k) == [sch_ebp EXCEPT ![stk] = k]

(* Mutant: the timer's linkage does not call handle_signal(). *)
ResumeUnhandled(k, p) == IF k.at = "stale" THEN Wild ELSE k

(* leave, ret through the saved frame: back in the timer's linkage, whose    *)
(* handle_signal() comes first.  (Unless ALARM enabled them, interrupts are  *)
(* off until that is done; "trap" lets them in, which only adds behaviour.)  *)
Resume(k, p) ==
    IF k.at = "stale" THEN Wild
    ELSE IF p \in sig_pending THEN At("trap")
    ELSE k

(* scheduler() after scheduler_getnext(): save context k for stack stk, then *)
(* resume the process of slot n, or execute the shell there.  t is cur_task. *)
SwitchTo(k, n, t) ==
    LET saved == SaveContext(k)
        next == tasks[n]
    IN
    /\ vidmap' = n
    /\ \/ /\ next # NOT_EXIST
          /\ Install(next)
          /\ stk' = next
          /\ sch_ebp' = [saved EXCEPT ![next] = Stale]
          /\ run' = Resume(saved[next], next)
          /\ UNCHANGED <<pid_arr, pcbs, sig_pending, tasks>>
       \/ /\ next = NOT_EXIST
          /\ \E c \in Pids : Spawn(c, t, stk, saved)
       \/ \* execute("shell") fails; the code goes on with pid -1, maps the
          \* kernel's own page and faults on the PCB at 8MB
          /\ next = NOT_EXIST
          /\ PidsFull
          /\ Install(NOT_EXIST)
          /\ sch_ebp' = saved
          /\ sig_pending' = sig_pending \cup {stk}
          /\ run' = At("trap")
          /\ UNCHANGED <<pid_arr, pcbs, tasks, stk>>

(* pit_handler(), on a tick that sends no ALARM. *)
Pit ==
    /\ run.at # "wild"
    /\ cnt + 1 < ALARM_TICKS
    /\ cnt' = cnt + 1
    /\ cur_task' = NextSlot
    /\ torn' = (torn \/ MidUpdate)
    /\ SwitchTo(run, NextSlot, NextSlot)
    /\ UNCHANGED <<curr_term_id, under>>

(* pit_handler() on the tick that sends ALARM, up to scheduler_getnext():    *)
(* send_signal() has enabled interrupts, and send_eoi() lets them through.   *)
(* ALARM itself is ignored by default.  A second alarm tick inside the       *)
(* window of an earlier one is left out.                                     *)
PitAlarm ==
    /\ run.at \notin {"wild", "switch"}
    /\ cnt + 1 = ALARM_TICKS
    /\ cnt' = 0
    /\ cur_task' = NextSlot
    /\ torn' = (torn \/ MidUpdate)
    /\ under' = [under EXCEPT ![stk] = run]
    /\ run' = [at |-> "switch", arg |-> NextSlot]
    /\ UNCHANGED <<pid_arr, pcbs, sch_ebp, sig_pending, tasks, tss_esp0, page,
                   screen, stk>>

(* The rest of scheduler() on that tick. *)
AlarmSwitch ==
    /\ run.at = "switch"
    /\ SwitchTo(under[stk], run.arg, cur_task)
    /\ under' = [under EXCEPT ![stk] = Stale]
    /\ UNCHANGED <<cur_task, cnt, curr_term_id, torn>>

-----------------------------------------------------------------------------
(* Signals. *)

(* A handler posts a signal to the processes in pend; at its end the linkage *)
(* calls handle_signal() for the process it interrupted.  If that has a      *)
(* signal, what was interrupted will not be resumed.                         *)
Linkage(pend) ==
    /\ sig_pending' = sig_pending \cup pend
    /\ \/ /\ stk \in sig_pending'
          /\ run' = At("trap")
          /\ under' = [under EXCEPT ![stk] = Stale]
          /\ torn' = (torn \/ MidUpdate)
       \/ /\ stk \notin sig_pending'
          /\ UNCHANGED <<run, under, torn>>
    /\ UNCHANGED <<pid_arr, pcbs, sch_ebp, tasks, cur_task, cnt, tss_esp0, page,
                   stk>>

(* A fault of the running process, in user code or in a system call. *)
Exception ==
    /\ run.at \in {"user", "kernel"}
    /\ Linkage({stk})
    /\ UNCHANGED screen

(* Any other interrupt, the RTC's say, once a signal waits to be handled. *)
Interrupt ==
    /\ run.at \notin {"boot", "trap", "wild"}
    /\ stk \in sig_pending
    /\ Linkage({})
    /\ UNCHANGED screen

(* handle_signal() in a handler that posted a signal, with the default       *)
(* action kill_task(): halt(0).                                              *)
HandleSignal ==
    /\ run.at = "trap"
    /\ stk \in sig_pending
    /\ HaltCurrent

(* Whom send_signal(INTERRUPT) reaches: the process of the visible terminal. *)
(* Without one the PCB address is 8MB, which is not mapped: the write        *)
(* faults, and SEGFAULT goes to whoever was interrupted.                     *)
InterruptTarget ==
    IF tasks[curr_term_id] = NOT_EXIST THEN stk ELSE tasks[curr_term_id]

(* Ctrl-C.  The boot code has no signal handlers to run it; that case is     *)
(* left out.                                                                 *)
CtrlC ==
    /\ run.at \notin {"boot", "wild"}
    /\ Linkage({InterruptTarget})
    /\ UNCHANGED screen

(* Mutant: the screen is mapped but the terminal is not made current. *)
TerminalSwitchMapOnly(t) ==
    /\ run.at # "wild"
    /\ vidmap' = t
    /\ UNCHANGED curr_term_id
    /\ Linkage({})

(* Alt-Fn: terminal_switch(). *)
TerminalSwitch(t) ==
    /\ run.at # "wild"
    /\ vidmap' = t
    /\ curr_term_id' = t
    /\ Linkage({})

(* A key that echoes: user_terminal_putc() maps the visible terminal and     *)
(* then that of cur_task.                                                    *)
KeyEcho ==
    /\ run.at # "wild"
    /\ vidmap' = cur_task
    /\ UNCHANGED curr_term_id
    /\ Linkage({})

(* After a jump through a stale frame this model says nothing more: run.at is *)
(* "wild", and no action is enabled.                                          *)
Next ==
    \/ Syscall \/ SyscallReturn \/ Execute \/ EnterUser \/ Halt \/ HaltReturn
    \/ Pit \/ PitAlarm \/ AlarmSwitch
    \/ Exception \/ Interrupt \/ HandleSignal \/ CtrlC
    \/ \E t \in Slots : TerminalSwitch(t)
    \/ KeyEcho

(* The timer keeps ticking.  A handler or the tail of a system call that is  *)
(* given the processor again and again gets to its end: ticks are 5ms apart, *)
(* and it needs microseconds.  User code and system calls may take forever.  *)
Fairness ==
    /\ WF_vars(Pit \/ PitAlarm)
    /\ WF_vars(AlarmSwitch)
    /\ \A p \in Pids :
        /\ SF_vars(stk = p /\ HandleSignal)
        /\ SF_vars(stk = p /\ EnterUser)
        /\ SF_vars(stk = p /\ HaltReturn)

Spec == Init /\ [][Next]_vars
FairSpec == Spec /\ Fairness

-----------------------------------------------------------------------------
(* Properties.  torn marks the two kinds of accident this code allows: the   *)
(* timer or a kill arriving mid-update, and a halt() charged to the wrong    *)
(* slot.  The safety properties say what holds until the first of them.      *)

Alive(p) == pid_arr[p] = 1
Front(p) == \E s \in Slots : tasks[s] = p
Waiting(p) == \E c \in Pids : Alive(c) /\ parent_pcb[c] = p

(* Every pid in the scheduler's table is taken and is in one slot only; the  *)
(* parent of a live process is alive, waits in the execute() frame halt()    *)
(* will return to, has no other child and is in no slot; and no pid is       *)
(* leaked: a live process is in a slot or waits for a child.                 *)
ProcessForest ==
    ~torn =>
      /\ \A s \in Slots : tasks[s] # NOT_EXIST => Alive(tasks[s])
      /\ \A s, t \in Slots : s # t /\ tasks[s] # NOT_EXIST => tasks[s] # tasks[t]
      /\ \A c \in Pids : Alive(c) /\ parent_pcb[c] # NULL =>
            /\ Alive(parent_pcb[c])
            /\ esp_val[c] = parent_pcb[c]
            /\ ~Front(parent_pcb[c])
            /\ \A d \in Pids : Alive(d) /\ parent_pcb[d] = parent_pcb[c] => d = c
      /\ \A p \in Pids : Alive(p) => Front(p) \/ Waiting(p)

(* The process the scheduler believes to run is the one whose kernel stack   *)
(* is in use, whose program page is mapped and whose stack the next trap     *)
(* takes; inside execute() and halt() all but the stack already belong to    *)
(* the process being entered or returned to.                                 *)
RunningConsistent ==
    ~torn =>
      /\ run.at \in {"user", "kernel"} =>
            tasks[cur_task] = stk /\ page = stk /\ tss_esp0 = stk
      /\ run.at = "enter" =>
            run.arg = tasks[cur_task] /\ page = run.arg /\ tss_esp0 = run.arg
      /\ run.at = "return" =>
            /\ ~Alive(stk)
            /\ parent_pcb[stk] = tasks[cur_task] /\ esp_val[stk] = tasks[cur_task]
            /\ page = tasks[cur_task] /\ tss_esp0 = tasks[cur_task]

(* A context that may be resumed for process p. *)
Resumable(k, p) ==
    \/ k.at \in {"user", "kernel", "trap"}
    \/ k.at = "enter" /\ k.arg = p

(* The process that is being run, entered or returned to. *)
Active ==
    IF run.at = "enter" THEN run.arg
    ELSE IF run.at = "return" THEN parent_pcb[stk]
    ELSE stk

(* Every process in a slot, other than the active one, has the context it    *)
(* was stopped in saved in its PCB.                                          *)
ReadyContexts ==
    ~torn => \A p \in Pids : Front(p) /\ p # Active => Resumable(sch_ebp[p], p)

(* Neither a switch nor the end of halt() ever goes through a stale frame.   *)
NoStaleJump == ~torn => run.at # "wild"

(* What the steps in between rely on: nothing runs before the first shell;   *)
(* halt() returns only for a process with a parent; a handler runs on the    *)
(* stack of a process in a slot or, after a base shell has halted, of a dead *)
(* process in its own vacant slot; an alarm tick interrupted something that  *)
(* can be resumed.                                                           *)
BetweenSwitches ==
    ~torn =>
      /\ run.at = "boot" => parent_pcb[stk] = NULL /\ \A p \in Pids : ~Alive(p)
      /\ run.at = "return" => parent_pcb[stk] # NULL
      /\ run.at \in {"trap", "switch"} /\ Alive(stk) => Front(stk)
      /\ run.at = "trap" /\ ~Alive(stk) =>
            parent_pcb[stk] = NULL /\ tasks[cur_task] = NOT_EXIST
      /\ run.at = "switch" =>
            /\ run.arg = cur_task
            /\ Front(stk) => Resumable(under[stk], stk)
            /\ ~Alive(stk) => parent_pcb[stk] = NULL

(* 0xB8000 shows the running terminal or, after Alt-Fn, the visible one.     *)
VideoFollows ==
    ~torn /\ run.at # "switch" => vidmap \in {cur_task, curr_term_id}

(* Every terminal's process runs again and again, unless the terminals that  *)
(* have one hold all pids while another has none.                            *)
LockedOut == PidsFull /\ \E s \in Slots : tasks[s] = NOT_EXIST
EveryTerminalRuns ==
    \A s \in Slots : []<>(torn \/ LockedOut \/ (tasks[s] # NOT_EXIST /\ stk = tasks[s]))

(* A terminal whose base shell exited gets a new one while pids are left.    *)
ShellRestarts ==
    \A s \in Slots : tasks[s] = NOT_EXIST ~> (torn \/ PidsFull \/ tasks[s] # NOT_EXIST)

(* A killing signal ends the process in a slot, unless that starts a child   *)
(* first.                                                                    *)
SignalKills ==
    \A p \in Pids :
        (p \in sig_pending /\ Alive(p) /\ Front(p)) ~> (torn \/ ~Alive(p) \/ Waiting(p))

(* scheduler.c: "change to next process": a switch resumes a process.        *)
SwitchResumesAProcess == run.at # "wild"

(* keyboard.c: "ctrl+c/C: terminate current program", the visible one.       *)
CtrlCHitsVisible ==
    [][CtrlC => sig_pending' \subseteq sig_pending \cup {tasks[curr_term_id]}]_vars

(* syscall.c, halt(): "if it's shell, close the shell and start a new one".  *)
BaseShellReplaced ==
    \A s \in Slots : tasks[s] = NOT_EXIST ~> (torn \/ tasks[s] # NOT_EXIST)
=============================================================================

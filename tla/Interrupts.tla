----------------------------- MODULE Interrupts -----------------------------
(***************************************************************************)
(* The two cascaded 8259 interrupt controllers (i8259.c) and the handlers   *)
(* they serve: timer (scheduler.c), keyboard (keyboard.c), RTC (rtc.c) and  *)
(* mouse (mouse.c), from the boot sequence of entry() on (kernel.c).        *)
(*                                                                         *)
(* A line in service blocks itself and the lines below it until send_eoi(). *)
(* The handlers differ in when they acknowledge and in when interrupts come *)
(* back on, the timer switches stacks under handlers that have not yet      *)
(* acknowledged, and handle_signal() may kill the process whose stack they  *)
(* are on: then nobody acknowledges.                                        *)
(***************************************************************************)
EXTENDS Integers, Sequences, FiniteSets, SequencesExt

CONSTANTS
    NumStacks,  \* processes the scheduler goes round, each with its stack
    ALARM_TICKS,\* timer ticks between two ALARM signals (scheduler.c: 1000)
    MAX_DEPTH   \* bound: handlers that nest on one stack

ASSUME InterruptsAssumption ==
    /\ NumStacks \in Nat \ {0}
    /\ ALARM_TICKS \in Nat \ {0}
    /\ MAX_DEPTH \in Nat \ {0}

Stacks == 0 .. NumStacks - 1

PIT_IRQ == 0
KEY_IRQ_NUM == 1
CASCADE == 2        \* where the slave is on the master (ICW3)
RTC_IRQ_NUM == 8
MOUSE_IRQ == 12
Lines == {PIT_IRQ, KEY_IRQ_NUM, RTC_IRQ_NUM, MOUSE_IRQ}

VARIABLES
    irr,        \* lines that request
    isr,        \* lines in service; CASCADE stands for the slave
    unmasked,   \* lines enabled by enable_irq()
    iflag,      \* the processor's interrupt flag
    cur,        \* the stack in use
    stack,      \* the handlers on each stack
    pending,    \* processes with INTERRUPT pending
    booted,     \* steps of entry() done
    beat,       \* the RTC has interrupted since the last step of entry()
    cnt,        \* ticks since the last ALARM
    rested,     \* lines that may request again, see Raise
    orphans     \* history: lines in service whose handler is gone

vars == <<irr, isr, unmasked, iflag, cur, stack, pending, booted, beat, cnt,
          rested, orphans>>

(***************************************************************************)
(* What a handler runs with interrupts off is one step with its delivery.   *)
(* Where they are on it has a pc: eoi, about to acknowledge (eoi2: the      *)
(* slave, after the master); sched, about to switch; exit, in               *)
(* handle_signal() and the return.                                          *)
(***************************************************************************)
Handler == [irq : Lines, pc : {"eoi", "eoi2", "sched", "exit"}]

TypeOK ==
    /\ irr \subseteq Lines
    /\ isr \subseteq Lines \cup {CASCADE}
    /\ unmasked \subseteq Lines \cup {CASCADE}
    /\ iflag \in BOOLEAN
    /\ cur \in Stacks
    /\ stack \in [Stacks -> Seq(Handler)]
    /\ pending \subseteq Stacks
    /\ booted \in 0 .. 10
    /\ beat \in BOOLEAN
    /\ cnt \in 0 .. ALARM_TICKS - 1
    /\ rested \subseteq Lines
    /\ orphans \subseteq Lines \cup {CASCADE}

Init ==
    /\ irr = {}
    /\ isr = {}
    /\ unmasked = {}
    /\ iflag = FALSE
    /\ cur = 0
    /\ stack = [s \in Stacks |-> <<>>]
    /\ pending = {}
    /\ booted = 0
    /\ beat = FALSE
    /\ cnt = 0
    /\ rested = Lines
    /\ orphans = {}

-----------------------------------------------------------------------------
(* Mutant: the music comes before the RTC is set up. *)
BootOrderMusicFirst ==
    <<"i8259_init", "Page_Initialize", "terminal_init", "scheduler_initialize",
      "mouse_init", "init_gui", "play_simple_music", "rtc_init", "keyboard_init",
      "pit_init">>

(* entry(), from the controller on. *)
BootOrder ==
    <<"i8259_init", "Page_Initialize", "terminal_init", "scheduler_initialize",
      "mouse_init", "init_gui", "rtc_init", "keyboard_init", "play_simple_music",
      "pit_init">>

(* enable_irq() as each step calls it; the controller's own enables the slave. *)
Enables(step) ==
    CASE step = "i8259_init" -> {CASCADE}
      [] step = "mouse_init" -> {MOUSE_IRQ}
      [] step = "rtc_init" -> {RTC_IRQ_NUM}
      [] step = "keyboard_init" -> {KEY_IRQ_NUM}
      [] step = "pit_init" -> {PIT_IRQ}
      [] OTHER -> {}

(* The next step of entry() waits for the RTC: play_note() reads it.  The    *)
(* fifteen notes of an eighth of a second each are one interrupt here.       *)
PlaysMusic ==
    /\ booted < Len(BootOrder)
    /\ BootOrder[booted + 1] = "play_simple_music"

(* Interrupts are on from the end of i8259_init(), so the rest of the boot   *)
(* is interrupted by the lines it has enabled.                               *)
Boot ==
    /\ booted < Len(BootOrder)
    /\ stack[0] = <<>>
    /\ PlaysMusic => beat
    /\ booted' = booted + 1
    /\ beat' = FALSE
    /\ unmasked' = unmasked \cup Enables(BootOrder[booted + 1])
    /\ iflag' = TRUE
    /\ rested' = Lines
    /\ UNCHANGED <<irr, isr, cur, stack, pending, cnt, orphans>>

Before(step) == \E i \in 1 .. booted : BootOrder[i] = step

-----------------------------------------------------------------------------
OnSlave(l) == l >= 8
MasterBit(l) == IF OnSlave(l) THEN CASCADE ELSE l

(* Fully nested mode: b in service holds back l. *)
Blocks(b, l) ==
    \/ b <= CASCADE /\ b <= MasterBit(l)
    \/ OnSlave(b) /\ OnSlave(l) /\ b <= l

Deliverable(l) ==
    /\ l \in irr
    /\ {l, MasterBit(l)} \subseteq unmasked
    /\ \A b \in isr : ~Blocks(b, l)

(* What a handler has still to acknowledge. *)
Owes(h) ==
    IF h.pc = "eoi" THEN {h.irq, MasterBit(h.irq)}
    ELSE IF h.pc = "eoi2" THEN {h.irq}
    ELSE {}

OwedOn(s) == UNION {Owes(stack[s][i]) : i \in DOMAIN stack[s]}

(* Bound: requests are far apart.  A line requests once before the processor *)
(* is next back in the code that interrupts interrupt.                       *)
Raise(l) ==
    /\ l \in unmasked \cap rested
    /\ irr' = irr \cup {l}
    /\ rested' = rested \ {l}
    /\ UNCHANGED <<isr, unmasked, iflag, cur, stack, pending, cnt, booted, beat, orphans>>

(* A process gets on, or play_note() spins on the flag of the RTC. *)
UserStep ==
    /\ booted = Len(BootOrder) \/ (PlaysMusic /\ ~beat)
    /\ stack[cur] = <<>>
    /\ \A l \in Lines : ~Deliverable(l)
    /\ rested' = Lines
    /\ UNCHANGED <<irr, isr, unmasked, iflag, cur, stack, pending, cnt, booted, beat, orphans>>

(* The controller offers its highest line; the gate turns interrupts off,    *)
(* and the handler runs to where it turns them on, at pc.                    *)
Take(l, pc) ==
    /\ iflag
    /\ Deliverable(l)
    /\ \A m \in Lines : Deliverable(m) => l <= m
    /\ Len(stack[cur]) < MAX_DEPTH
    /\ irr' = irr \ {l}
    /\ stack' = [stack EXCEPT ![cur] = Append(@, [irq |-> l, pc |-> pc])]
    /\ UNCHANGED <<unmasked, booted, rested, orphans>>

InService(l) == isr' = isr \cup {l, MasterBit(l)}

-----------------------------------------------------------------------------
(* Most keys: acknowledged at the end, then sti(). *)
Key ==
    /\ Take(KEY_IRQ_NUM, "exit")
    /\ UNCHANGED <<isr, iflag, cur, pending, beat, cnt>>

(* Ctrl-C: send_signal() ends in sti(), before send_eoi().  Once there are   *)
(* processes; without one it has no target to mark.                          *)
KeyCtrlC(target) ==
    /\ booted = Len(BootOrder)
    /\ Take(KEY_IRQ_NUM, "eoi")
    /\ InService(KEY_IRQ_NUM)
    /\ pending' = pending \cup {target}
    /\ UNCHANGED <<iflag, cur, beat, cnt>>

(* Up and Down: press_up() and press_down() end in sti() as well. *)
KeyBrowse ==
    /\ Take(KEY_IRQ_NUM, "eoi")
    /\ InService(KEY_IRQ_NUM)
    /\ UNCHANGED <<iflag, cur, pending, beat, cnt>>

(* The RTC counts with interrupts off, redraws with interrupts on and        *)
(* acknowledges last, the master before the slave.                           *)
Rtc ==
    /\ Take(RTC_IRQ_NUM, "eoi")
    /\ InService(RTC_IRQ_NUM)
    /\ beat' = PlaysMusic
    /\ UNCHANGED <<iflag, cur, pending, cnt>>

(* Mutant: the mouse acknowledges last, with interrupts on, as the RTC does. *)
MouseAckLast ==
    /\ Take(MOUSE_IRQ, "eoi")
    /\ InService(MOUSE_IRQ)
    /\ UNCHANGED <<iflag, cur, pending, beat, cnt>>

(* The mouse acknowledges first and never enables interrupts. *)
Mouse ==
    /\ Take(MOUSE_IRQ, "exit")
    /\ iflag' = FALSE
    /\ UNCHANGED <<isr, cur, pending, beat, cnt>>

(* scheduler(): the next stack continues where it was switched out, with the *)
(* interrupt flag as it is now; a process that starts gets it set.           *)
SwitchTo(flag) ==
    /\ cur' = (cur + 1) % NumStacks
    /\ iflag' = (stack[cur'] = <<>> \/ flag)

(* A tick: acknowledged, then the switch, with interrupts off. *)
Pit ==
    /\ cnt + 1 < ALARM_TICKS
    /\ cnt' = cnt + 1
    /\ Take(PIT_IRQ, "exit")
    /\ SwitchTo(FALSE)
    /\ UNCHANGED <<isr, pending, beat>>

(* The tick that sends ALARM acknowledges and goes on with interrupts on;    *)
(* before the acknowledgement the timer holds back every other line.         *)
PitAlarm ==
    /\ cnt + 1 = ALARM_TICKS
    /\ cnt' = 0
    /\ Take(PIT_IRQ, "sched")
    /\ UNCHANGED <<isr, iflag, cur, pending, beat>>

Depth == Len(stack[cur])
Running(l, pc) ==
    /\ stack[cur] # <<>>
    /\ stack[cur][Depth] = [irq |-> l, pc |-> pc]

GoTo(pc) == stack' = [stack EXCEPT ![cur][Depth].pc = pc]
Rest == <<irr, unmasked, booted, beat, cnt, rested, orphans>>

KeyEoi ==
    /\ Running(KEY_IRQ_NUM, "eoi")
    /\ isr' = isr \ {KEY_IRQ_NUM}
    /\ iflag' = TRUE
    /\ GoTo("exit")
    /\ UNCHANGED <<Rest, cur, pending>>

(* Mutant: the slave is acknowledged, the master is not. *)
EoiMasterSkipped ==
    /\ \E l \in Lines : OnSlave(l) /\ Running(l, "eoi")
    /\ GoTo("eoi2")
    /\ UNCHANGED <<Rest, isr, iflag, cur, pending>>

(* send_eoi() for a slave line: the master, then the slave. *)
EoiMaster ==
    /\ \E l \in Lines : OnSlave(l) /\ Running(l, "eoi")
    /\ isr' = isr \ {CASCADE}
    /\ GoTo("eoi2")
    /\ UNCHANGED <<Rest, iflag, cur, pending>>

EoiSlave ==
    /\ \E l \in Lines : Running(l, "eoi2") /\ isr' = isr \ {l}
    /\ GoTo("exit")
    /\ UNCHANGED <<Rest, iflag, cur, pending>>

PitSwitch ==
    /\ Running(PIT_IRQ, "sched")
    /\ GoTo("exit")
    /\ SwitchTo(TRUE)
    /\ UNCHANGED <<Rest, isr, pending>>

(* handle_signal() without a signal, and iret. *)
Return ==
    /\ \E l \in Lines : Running(l, "exit")
    /\ cur \notin pending
    /\ stack' = [stack EXCEPT ![cur] = Front(@)]
    /\ iflag' = TRUE
    /\ UNCHANGED <<Rest, isr, cur, pending>>

(* handle_signal() kills the process: the handlers below on the stack are    *)
(* gone, acknowledged or not, and the parent or a new shell runs.            *)
Kill ==
    /\ \E l \in Lines : Running(l, "exit")
    /\ cur \in pending
    /\ pending' = pending \ {cur}
    /\ orphans' = orphans \cup OwedOn(cur)
    /\ stack' = [stack EXCEPT ![cur] = <<>>]
    /\ iflag' = TRUE
    /\ UNCHANGED <<irr, isr, unmasked, cur, booted, beat, cnt, rested>>

Deliver(l) ==
    \/ l = KEY_IRQ_NUM /\ (Key \/ KeyBrowse \/ \E s \in Stacks : KeyCtrlC(s))
    \/ l = RTC_IRQ_NUM /\ Rtc
    \/ l = MOUSE_IRQ /\ Mouse
    \/ l = PIT_IRQ /\ (Pit \/ PitAlarm)

HandlerStep ==
    KeyEoi \/ EoiMaster \/ EoiSlave \/ PitSwitch \/ Return \/ Kill

Next ==
    \/ Boot
    \/ UserStep
    \/ \E l \in Lines : Raise(l) \/ Deliver(l)
    \/ HandlerStep

Spec == Init /\ [][Next]_vars

(* The processor goes on, the timer ticks and so does the RTC. *)
FairSpec ==
    /\ Spec
    /\ WF_vars(Boot)
    /\ WF_vars(UserStep)
    /\ WF_vars(HandlerStep)
    /\ WF_vars(\E l \in Lines : Deliver(l))
    /\ WF_vars(Raise(PIT_IRQ))
    /\ WF_vars(Raise(RTC_IRQ_NUM))

-----------------------------------------------------------------------------
(* A line is in service exactly while one handler, on some stack, has still  *)
(* to acknowledge it, or since a kill threw that handler away: no handler    *)
(* ends another's service and none forgets its own, whatever stack it is     *)
(* continued on (every send_eoi()).                                          *)
(* The state is well formed besides: TypeOK, checked here once.             *)
InServiceOwned ==
    /\ TypeOK
    /\ isr = orphans \cup UNION {OwedOn(s) : s \in Stacks}
    /\ \A s, t \in Stacks : \A i \in DOMAIN stack[s], j \in DOMAIN stack[t] :
          Owes(stack[s][i]) \cap Owes(stack[t][j]) # {} => s = t /\ i = j

(* A kill never loses the timer or the mouse, whose handlers acknowledge     *)
(* before anything can end them: time sharing survives every Ctrl-C.         *)
TimerAndMouseKept == orphans \subseteq {KEY_IRQ_NUM, CASCADE, RTC_IRQ_NUM}

(* entry() gets to its end: the music, the one step that waits for an        *)
(* interrupt, waits for a line that is already served by then, though the    *)
(* keyboard and the mouse are on as well (kernel.c 153-182, speaker.c 33-37). *)
BootEnds == <>(booted = Len(BootOrder))

(* A line that requests is served, though its handler, or one above it, may  *)
(* be switched out before it acknowledges; unless a kill has lost a handler. *)
EveryLineServed ==
    \A l \in Lines : l \in irr ~> (l \notin irr \/ orphans # {})

(* keyboard.c 247, "end of critical section", at the sti() after send_eoi(): *)
(* nothing interrupts the handler before it.                                 *)
KeyboardCritical ==
    \A s \in Stacks : \A i \in DOMAIN stack[s] :
        stack[s][i].irq = KEY_IRQ_NUM /\ stack[s][i].pc = "eoi"
            => i = Len(stack[s])
=============================================================================

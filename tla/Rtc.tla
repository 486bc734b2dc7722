-------------------------------- MODULE Rtc --------------------------------
(***************************************************************************)
(* The virtual real-time clocks (rtc.c): one physical interrupt drives a    *)
(* counter, a flag and a rate per terminal, and redraws the screen at a     *)
(* rate of its own; redrawing reads the time of day (Clock).  Processes     *)
(* open the RTC, set its rate and wait for its next virtual interrupt, as   *)
(* play_simple_music() (speaker.c), fish and pingpong do.                   *)
(*                                                                         *)
(* Flag and rate belong to the terminal: the processes of one terminal, a   *)
(* parent waiting for its child, share them.                                *)
(***************************************************************************)
EXTENDS Clock

CONSTANTS
    Terms,          \* the terminals
    BASE,           \* physical interrupts per second, a power of two (1024)
    SCREEN_RATE,    \* physical interrupts between two redraws (40)
    Frequencies     \* the frequencies a program may ask for

ASSUME RtcAssumption ==
    /\ BASE \in {2, 4, 8, 16, 32, 64, 128, 256, 512, 1024}
    /\ SCREEN_RATE \in Nat \ {0}
    /\ Frequencies \subseteq Nat

VARIABLES
    rtc_ticks,          \* physical interrupts since the last virtual one
    rtc_int_flag,       \* a virtual interrupt has occurred
    rtc_virtual_rate,   \* physical interrupts per virtual one
    screen_ticks,       \* rtc_ticks[4]
    handler,            \* where rtc_handler() is, "none" if it does not run
    on,                 \* the terminal whose process it interrupted
    pc,                 \* where each terminal's process is
    waited              \* history: physical interrupts rtc_read() waited for its flag, up to BASE

rtc == <<rtc_ticks, rtc_int_flag, rtc_virtual_rate>>
vars == <<rtc, screen_ticks, handler, on, pc, waited, clock>>

Init ==
    /\ rtc_ticks = [t \in Terms |-> 0]
    /\ rtc_int_flag = [t \in Terms |-> FALSE]
    /\ rtc_virtual_rate = [t \in Terms |-> BASE]
    /\ screen_ticks = 0
    /\ handler = "none"
    /\ on = "nobody"
    /\ pc = [t \in Terms |-> "user"]
    /\ waited = [t \in Terms |-> 0]
    /\ ClockInit

(* A process runs unless the handler is on its stack. *)
Runs(t) == on # t

-----------------------------------------------------------------------------
(* Mutant: a counter that a lower rate has left behind never matches. *)
DueExactly(t) == rtc_ticks[t] + 1 = rtc_virtual_rate[t]

(* One virtual interrupt is due. *)
Due(t) == rtc_ticks[t] + 1 >= rtc_virtual_rate[t]

(* The first half of rtc_handler(), with interrupts off, over the process of *)
(* some terminal.                                                            *)
Tick(t) ==
    /\ handler = "none"
    /\ on' = t
    /\ handler' = "screen"
    /\ rtc_int_flag' = [u \in Terms |-> Due(u) \/ rtc_int_flag[u]]
    /\ rtc_ticks' = [u \in Terms |-> IF Due(u) THEN 0 ELSE rtc_ticks[u] + 1]
    /\ waited' = [u \in Terms |-> IF pc[u] = "spin" /\ ~rtc_int_flag[u] /\ waited[u] < BASE
                                   THEN waited[u] + 1 ELSE waited[u]]
    /\ UNCHANGED <<rtc_virtual_rate, screen_ticks, pc, clock>>

(* The second half, with interrupts on: the screen's own counter. *)
ScreenTick ==
    /\ handler = "screen"
    /\ at = "idle"
    /\ screen_ticks' = screen_ticks + 1
    /\ IF screen_ticks + 1 >= SCREEN_RATE
       THEN handler' = "redraw" /\ GetTime
       ELSE handler' = "eoi" /\ UNCHANGED clock
    /\ UNCHANGED <<rtc, on, pc, waited>>

(* update_screen() calls get_time(); the clock meanwhile goes on. *)
Redraw ==
    /\ handler = "redraw"
    /\ ClockStep
    /\ UNCHANGED <<rtc, screen_ticks, handler, on, pc, waited>>

ClockTicks ==
    /\ at # "idle" /\ BeginUpdate
    /\ UNCHANGED <<rtc, screen_ticks, handler, on, pc, waited>>

UpdateEnds ==
    /\ at # "idle" /\ EndUpdate
    /\ UNCHANGED <<rtc, screen_ticks, handler, on, pc, waited>>

Redrawn ==
    /\ handler = "redraw"
    /\ GotTime
    /\ handler' = "eoi"
    /\ screen_ticks' = 0
    /\ UNCHANGED <<rtc, on, pc, waited>>

(* send_eoi() and the return from the interrupt: the RTC may interrupt again. *)
Eoi ==
    /\ handler = "eoi"
    /\ handler' = "none"
    /\ on' = "nobody"
    /\ UNCHANGED <<rtc, screen_ticks, pc, waited, clock>>

-----------------------------------------------------------------------------
(* Mutant: rtc_open() takes every flag down. *)
FlagsAtOpenNone(t) == [u \in Terms |-> FALSE]

FlagsAtOpen(t) == [rtc_int_flag EXCEPT ![t] = FALSE]

(* rtc_open(): frequency 2, and the counter goes on from where it is. *)
Open(t) ==
    /\ pc[t] = "user" /\ Runs(t)
    /\ rtc_int_flag' = FlagsAtOpen(t)
    /\ rtc_virtual_rate' = [rtc_virtual_rate EXCEPT ![t] = BASE \div 2]
    /\ UNCHANGED <<rtc_ticks, screen_ticks, handler, on, pc, waited, clock>>

(* The test of rtc_write(): one bit set, in 1 .. 1024. *)
Accepted(f) == f > 0 /\ f <= BASE /\ \E k \in 0 .. 10 : f = 2 ^ k

(* The rate after a write of f: unchanged when it returns -1. *)
RateOf(t, f) == IF Accepted(f) THEN BASE \div f ELSE rtc_virtual_rate[t]

Write(t, f) ==
    /\ pc[t] = "user" /\ Runs(t)
    /\ rtc_virtual_rate' = [rtc_virtual_rate EXCEPT ![t] = RateOf(t, f)]
    /\ UNCHANGED <<rtc_ticks, rtc_int_flag, screen_ticks, handler, on, pc, waited, clock>>

FlagAtRead(t) == FALSE

(* rtc_read(): the first statement; a virtual interrupt since the last read  *)
(* is forgotten.                                                             *)
Read(t) ==
    /\ pc[t] = "user" /\ Runs(t)
    /\ rtc_int_flag' = [rtc_int_flag EXCEPT ![t] = FlagAtRead(t)]
    /\ pc' = [pc EXCEPT ![t] = "spin"]
    /\ waited' = [waited EXCEPT ![t] = 0]
    /\ UNCHANGED <<rtc_ticks, rtc_virtual_rate, screen_ticks, handler, on, clock>>

(* The loop ends. *)
Seen(t) ==
    /\ pc[t] = "spin" /\ Runs(t)
    /\ rtc_int_flag[t]
    /\ pc' = [pc EXCEPT ![t] = "seen"]
    /\ UNCHANGED <<rtc, screen_ticks, handler, on, waited, clock>>

(* The last statement; a virtual interrupt between the two is forgotten too. *)
Return(t) ==
    /\ pc[t] = "seen" /\ Runs(t)
    /\ rtc_int_flag' = [rtc_int_flag EXCEPT ![t] = FALSE]
    /\ pc' = [pc EXCEPT ![t] = "user"]
    /\ waited' = [waited EXCEPT ![t] = 0]
    /\ UNCHANGED <<rtc_ticks, rtc_virtual_rate, screen_ticks, handler, on, clock>>

(* A signal ends the process in its spin; the terminal goes on with another. *)
Killed(t) ==
    /\ pc[t] # "user" /\ Runs(t)
    /\ pc' = [pc EXCEPT ![t] = "user"]
    /\ waited' = [waited EXCEPT ![t] = 0]
    /\ UNCHANGED <<rtc, screen_ticks, handler, on, clock>>

Next ==
    \/ \E t \in Terms : Tick(t)
    \/ ScreenTick \/ Redraw \/ ClockTicks \/ UpdateEnds \/ Redrawn \/ Eoi
    \/ \E t \in Terms :
          \/ Open(t) \/ Read(t) \/ Seen(t) \/ Return(t) \/ Killed(t)
          \/ \E f \in Frequencies : Write(t, f)

Spec == Init /\ [][Next]_vars

Handler == ScreenTick \/ Redraw \/ Redrawn \/ Eoi

(* The physical interrupt keeps coming and its handler gets on, an update of *)
(* the clock takes no more than 2ms, and a process that is not under the     *)
(* handler is scheduled (EveryTerminalRuns of Sched).                        *)
FairSpec ==
    /\ Spec
    /\ WF_vars(\E t \in Terms : Tick(t))
    /\ WF_vars(Handler)
    /\ WF_vars(UpdateEnds)
    /\ \A t \in Terms : SF_vars(Seen(t) \/ Return(t))

-----------------------------------------------------------------------------
TypeOK ==
    /\ rtc_ticks \in [Terms -> 0 .. BASE - 1]
    /\ rtc_int_flag \in [Terms -> BOOLEAN]
    /\ rtc_virtual_rate \in [Terms -> 1 .. BASE]
    /\ screen_ticks \in 0 .. SCREEN_RATE
    /\ handler \in {"none", "screen", "redraw", "eoi"}
    /\ on \in Terms \cup {"nobody"}
    /\ pc \in [Terms -> {"user", "spin", "seen"}]
    /\ waited \in [Terms -> 0 .. BASE]
    /\ ClockTypeOK

(* A process waits for less than one virtual period before its flag is set,  *)
(* whatever rate was set before it began and however far the counter had     *)
(* got, also beyond a rate that has just been lowered (rtc.c 66-70, 116).    *)
(* The state is well formed besides: TypeOK, checked here once.             *)
WaitsOnePeriod ==
    /\ TypeOK
    /\ \A t \in Terms :
          pc[t] = "spin" /\ ~rtc_int_flag[t] => waited[t] < rtc_virtual_rate[t]

(* A process that waits gets its virtual interrupt, whichever terminals'     *)
(* processes the handler and the redrawing interrupt in the meantime, unless *)
(* it is killed first.                                                       *)
ReadReturns == \A t \in Terms : pc[t] = "spin" ~> pc[t] # "spin"

(* The screen is redrawn again and again, and each redrawing ends: the loop  *)
(* of get_time() does not hold the handler, and with it the RTC, for ever.   *)
ScreenRedrawn == []<>(handler = "redraw") /\ []<>(handler = "none")
=============================================================================

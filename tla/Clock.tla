------------------------------- MODULE Clock -------------------------------
(***************************************************************************)
(* Reading the CMOS clock for the status bar: get_time() (time.c) and       *)
(* int_to_char() (gui.c).                                                   *)
(*                                                                         *)
(* The clock counts on while its registers are read one by one, and the     *)
(* reader may be held up between any two of them: it runs in the RTC        *)
(* handler, with interrupts on.  Seconds, minutes and hours are modelled;   *)
(* day, month and year are read, compared and converted alike.              *)
(***************************************************************************)
EXTENDS Integers, Sequences

CONSTANTS
    START,          \* the time of day, in seconds, when get_time() is called
    MAX_UPDATES,    \* bound: seconds that pass during one call
    BCD             \* whether bit 2 of register B says binary-coded decimal

ASSUME ClockAssumption ==
    /\ START \in Nat /\ START < 86400
    /\ MAX_UPDATES \in 0 .. 59
    /\ BCD \in BOOLEAN

VARIABLES
    passed,     \* seconds that have passed since the call
    updating,   \* the update-in-progress flag of register A
    at,         \* where get_time() is
    regs,       \* second, minute and hour, as read
    last,       \* last_second, last_minute and last_hour
    time_buf    \* the characters of the status bar's time

clock == <<passed, updating, at, regs, last, time_buf>>

Fields == <<"second", "minute", "hour">>
Blank == [f \in {"second", "minute", "hour"} |-> 0]
Digits == 0 .. 9

(* Where get_time() is about to read each field, in its two passes. *)
Reading ==
    [first |-> <<"first second", "first minute", "first hour">>,
     again |-> <<"again second", "again minute", "again hour">>]

-----------------------------------------------------------------------------
(* The clock itself, as QEMU emulates it (kernel.c names QEMU):              *)
(* the registers keep the old time until the update ends.                    *)
TimeOfDay(n) ==
    LET t == (START + n) % 86400
    IN [second |-> t % 60, minute |-> (t \div 60) % 60, hour |-> t \div 3600]

ToBcd(v) == 16 * (v \div 10) + (v % 10)
Register(f) == LET v == TimeOfDay(passed)[f] IN IF BCD THEN ToBcd(v) ELSE v

BeginUpdate ==
    /\ ~updating /\ passed < MAX_UPDATES
    /\ updating' = TRUE
    /\ UNCHANGED <<passed, at, regs, last, time_buf>>

EndUpdate ==
    /\ updating
    /\ updating' = FALSE
    /\ passed' = passed + 1
    /\ UNCHANGED <<at, regs, last, time_buf>>

-----------------------------------------------------------------------------
(* The conversion from BCD; x & 0x0F is x % 16.  The hour keeps its bit 7,   *)
(* which only a 12-hour clock sets.                                          *)
FromBcd(v) == IF BCD THEN (v % 16) + 10 * (v \div 16) ELSE v

(* int_to_char(): the two decimal digits of num < 100, padded with 0. *)
int_to_char(buf, num, end_i, start_i) ==
    [i \in DOMAIN buf |-> IF i = end_i THEN num % 10
                          ELSE IF i = start_i + 1 THEN (num \div 10) % 10
                          ELSE buf[i]]

(* The hour is shown in the time zone of the authors, the date is not. *)
Shown(buf, r) ==
    int_to_char(int_to_char(int_to_char(buf, (FromBcd(r["hour"]) + 18) % 24, 12, 10),
                            FromBcd(r["minute"]), 15, 13),
                FromBcd(r["second"]), 18, 16)

ClockInit ==
    /\ passed = 0
    /\ updating = FALSE
    /\ at = "idle"
    /\ regs = Blank
    /\ last = Blank
    /\ time_buf = [i \in 11 .. 18 |-> 0]

(* The call.  Each call starts at START with blank registers: what they held *)
(* before is overwritten.                                                    *)
GetTime ==
    /\ at' = "first"
    /\ passed' = 0
    /\ UNCHANGED <<updating, regs, last, time_buf>>

(* while (get_update_in_progress_flag()) before each pass; nothing holds the  *)
(* clock back after it.                                                      *)
FlagClear == at \in {"first", "again"} /\ ~updating

StartReading ==
    /\ FlagClear
    /\ at' = Reading[at][1]
    /\ UNCHANGED <<passed, updating, regs, last, time_buf>>

ReadRegister(pass, i) ==
    /\ at = Reading[pass][i]
    /\ regs' = [regs EXCEPT ![Fields[i]] = Register(Fields[i])]
    /\ at' = IF i < 3 THEN Reading[pass][i + 1]
             ELSE IF pass = "first" THEN "save" ELSE "compare"
    /\ UNCHANGED <<passed, updating, last, time_buf>>

Save ==
    /\ at = "save"
    /\ last' = regs
    /\ at' = "again"
    /\ UNCHANGED <<passed, updating, regs, time_buf>>

(* Mutant: only the seconds are compared. *)
SameSeconds == last["second"] = regs["second"]

(* Mutant: the loop goes on as long as the two passes agree. *)
SameInverted == last # regs

(* The condition of the do loop, negated. *)
Same == last = regs

Compare ==
    /\ at = "compare"
    /\ IF Same
       THEN /\ at' = "done"
            /\ time_buf' = Shown(time_buf, regs)
       ELSE /\ at' = "save"
            /\ UNCHANGED time_buf
    /\ UNCHANGED <<passed, updating, regs, last>>

(* The end of the call; what is forgotten is overwritten by the next one. *)
GotTime ==
    /\ at = "done"
    /\ at' = "idle"
    /\ passed' = 0
    /\ updating' = FALSE
    /\ regs' = Blank
    /\ last' = Blank
    /\ time_buf' = [i \in 11 .. 18 |-> 0]

ClockStep ==
    \/ StartReading
    \/ \E pass \in {"first", "again"}, i \in 1 .. 3 : ReadRegister(pass, i)
    \/ Save
    \/ Compare

ClockTypeOK ==
    /\ passed \in 0 .. MAX_UPDATES
    /\ updating \in BOOLEAN
    /\ at \in {"idle", "first", "again", "save", "compare", "done"}
              \cup {Reading[p][i] : p \in {"first", "again"}, i \in 1 .. 3}
    /\ regs \in [{"second", "minute", "hour"} -> 0 .. 255]
    /\ last \in [{"second", "minute", "hour"} -> 0 .. 255]
    /\ time_buf \in [11 .. 18 -> Digits]

(* The time put on the status bar is a time the clock showed during the call *)
(* (time.c 32-48), its digits are those of that time six hours earlier: no   *)
(* 9:00:00 or 10:59:59 for a read across 9:59:59, however the reads and the  *)
(* clock interleave.                                                         *)
TimeShownWasReal ==
    at = "done" =>
        \E n \in 0 .. passed :
            LET t == TimeOfDay(n)
                two(v) == <<v \div 10, v % 10>>
            IN /\ <<time_buf[11], time_buf[12]>> = two((t["hour"] + 18) % 24)
               /\ <<time_buf[14], time_buf[15]>> = two(t["minute"])
               /\ <<time_buf[17], time_buf[18]>> = two(t["second"])
=============================================================================

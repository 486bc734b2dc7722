----------------------------- MODULE RtcProofs -----------------------------
(***************************************************************************)
(* The virtual clocks and the time of day, for any number of terminals, any *)
(* base frequency that the device has, any rates that programs ask for and  *)
(* any time of day.                                                         *)
(***************************************************************************)
EXTENDS Rtc, TLAPS

Names == {"second", "minute", "hour"}
Byte == 0 .. 255
Registers == [Names -> Byte]

(* What the register of a field holds n seconds into the call. *)
Val(f, n) == LET v == TimeOfDay(n)[f] IN IF BCD THEN ToBcd(v) ELSE v

(* The first k fields of r were read between lo and hi, the seconds at lo.   *)
Pass(r, k, lo, hi) ==
    /\ r["second"] = Val("second", lo)
    /\ k >= 2 => \E a \in lo .. hi : r["minute"] = Val("minute", a)
    /\ k >= 3 => \E a \in lo .. hi : r["hour"] = Val("hour", a)

(* What the pass so far, or the one before and the pass so far, have read.   *)
Half(r, k, p) == \E lo \in 0 .. p : Pass(r, k, lo, p)
Both(l, r, k, p) ==
    \E lo \in 0 .. p : \E mid \in lo .. p : Pass(l, 3, lo, mid) /\ Pass(r, k, mid, p)

ReadSoFar ==
    /\ at = "first minute" => Half(regs, 1, passed)
    /\ at = "first hour" => Half(regs, 2, passed)
    /\ at = "save" => Half(regs, 3, passed)
    /\ at \in {"again", "again second"} => Half(last, 3, passed)
    /\ at = "again minute" => Both(last, regs, 1, passed)
    /\ at = "again hour" => Both(last, regs, 2, passed)
    /\ at = "compare" => Both(last, regs, 3, passed)

(* The digits of a time. *)
Shows(buf, t) ==
    /\ buf[11] = ((t["hour"] + 18) % 24) \div 10 /\ buf[12] = ((t["hour"] + 18) % 24) % 10
    /\ buf[14] = t["minute"] \div 10 /\ buf[15] = t["minute"] % 10
    /\ buf[17] = t["second"] \div 10 /\ buf[18] = t["second"] % 10

ShowsATime == at = "done" => \E n \in 0 .. passed : Shows(time_buf, TimeOfDay(n))

(* An update that has begun ends within the bound. *)
Ends == updating => passed < MAX_UPDATES

(* A reader whose flag is down has seen each tick since it began counted, on *)
(* top of what the counter had reached; if there was one, it was not due.    *)
Waits ==
    \A t \in Terms :
        pc[t] = "spin" /\ ~rtc_int_flag[t] =>
            /\ waited[t] <= rtc_ticks[t]
            /\ waited[t] = 0 \/ rtc_ticks[t] < rtc_virtual_rate[t]

(* The redrawing sets the screen's counter back. *)
Redraws == handler # "redraw" => screen_ticks < SCREEN_RATE

(* The places of get_time(), and the state of the clock. *)
Places ==
    {"idle", "first", "again", "save", "compare", "done"}
      \cup {Reading[p][i] : p \in {"first", "again"}, i \in 1 .. 3}
Times == 0 .. MAX_UPDATES
Texts == [11 .. 18 -> Digits]
ClockTyped ==
    /\ passed \in Times /\ updating \in BOOLEAN /\ at \in Places
    /\ regs \in Registers /\ last \in Registers /\ time_buf \in Texts

ClockInv == ClockTyped /\ Ends /\ ReadSoFar /\ ShowsATime

RtcTyped ==
    /\ rtc_ticks \in [Terms -> 0 .. BASE - 1]
    /\ rtc_int_flag \in [Terms -> BOOLEAN]
    /\ rtc_virtual_rate \in [Terms -> 1 .. BASE]
    /\ screen_ticks \in 0 .. SCREEN_RATE
    /\ handler \in {"none", "screen", "redraw", "eoi"}
    /\ on \in Terms \cup {"nobody"}
    /\ pc \in [Terms -> {"user", "spin", "seen"}]
    /\ waited \in [Terms -> 0 .. BASE]

Inv == RtcTyped /\ Waits /\ Redraws /\ ClockInv

-----------------------------------------------------------------------------
(* Arithmetic of the time of day.                                            *)

LEMMA Numbers ==
    /\ START \in Nat /\ START < 86400 /\ MAX_UPDATES \in 0 .. 59
    /\ BASE \in Nat /\ BASE >= 2 /\ SCREEN_RATE \in Nat /\ SCREEN_RATE > 0
    /\ \A f \in Frequencies : f \in Nat
  <1>1. START \in Nat /\ START < 86400 /\ MAX_UPDATES \in 0 .. 59
    BY ClockAssumption
  <1>2. BASE \in {2, 4, 8, 16, 32, 64, 128, 256, 512, 1024}
        /\ SCREEN_RATE \in Nat \ {0} /\ Frequencies \subseteq Nat
    BY RtcAssumption, Zenon
  <1> QED
    BY <1>1, <1>2

Moments == {t \in Nat : t < 86400}
HourOf(t) == t \div 3600

LEMMA Hours ==
    ASSUME NEW t \in Moments
    PROVE  HourOf(t) \in 0 .. 23
  <1>1. t \in Int /\ 0 <= t /\ t <= 86399
    BY DEF Moments
  <1> DEFINE h == t \div 3600
  <1>2. h \in Int /\ 3600 * h <= t /\ t < 3600 * h + 3600
    BY <1>1
  <1> HIDE DEF h
  <1>3. 0 <= h /\ h <= 23
    BY <1>1, <1>2
  <1> QED
    BY <1>2, <1>3 DEF h, HourOf

LEMMA TimeType ==
    ASSUME NEW n \in Nat
    PROVE  /\ TimeOfDay(n)["second"] \in 0 .. 59
           /\ TimeOfDay(n)["minute"] \in 0 .. 59
           /\ TimeOfDay(n)["hour"] \in 0 .. 23
  <1> DEFINE m == START + n
             t == m % 86400
  <1>1. m \in Nat
    BY Numbers
  <1> HIDE DEF m
  <1>2. t \in Nat /\ t < 86400
    BY <1>1
  <1>3. TimeOfDay(n) = [second |-> t % 60, minute |-> (t \div 60) % 60, hour |-> t \div 3600]
    BY DEF TimeOfDay, m
  <1> HIDE DEF t
  <1>4. t % 60 \in 0 .. 59
    BY <1>2
  <1>5. (t \div 60) % 60 \in 0 .. 59
    BY <1>2
  <1>6. HourOf(t) \in 0 .. 23
    <2>1. t \in Moments
      BY <1>2 DEF Moments
    <2> QED
      BY <2>1, Hours, Zenon
  <1> QED
    BY <1>3, <1>4, <1>5, <1>6 DEF HourOf

LEMMA BcdIs ==
    ASSUME NEW v \in 0 .. 59
    PROVE  /\ ToBcd(v) \in Byte /\ v \in Byte
           /\ (ToBcd(v) % 16) + 10 * (ToBcd(v) \div 16) = v
  BY DEF ToBcd, Byte

LEMMA ValIs ==
    ASSUME NEW n \in Nat, NEW f \in Names
    PROVE  Val(f, n) \in Byte /\ FromBcd(Val(f, n)) = TimeOfDay(n)[f]
  <1> DEFINE v == TimeOfDay(n)[f]
  <1>1. v \in 0 .. 59
    <2>1. TimeOfDay(n)["second"] \in 0 .. 59 /\ TimeOfDay(n)["minute"] \in 0 .. 59
          /\ TimeOfDay(n)["hour"] \in 0 .. 59
      <3>1. 0 .. 23 \subseteq 0 .. 59
        OBVIOUS
      <3> QED
        BY <3>1, TimeType, Zenon
    <2> QED
      BY <2>1, Zenon DEF Names
  <1>2. Val(f, n) = IF BCD THEN ToBcd(v) ELSE v
    BY Zenon DEF Val
  <1> HIDE DEF v
  <1>3. CASE BCD
    BY <1>1, <1>2, <1>3, BcdIs, Zenon DEF FromBcd, v
  <1>4. CASE ~BCD
    BY <1>1, <1>2, <1>4, BcdIs, Zenon DEF FromBcd, v
  <1> QED
    BY <1>3, <1>4

(* Within a minute the seconds tell the time. *)
LEMMA SecondTells ==
    ASSUME NEW a \in 0 .. MAX_UPDATES, NEW b \in a .. MAX_UPDATES,
           Val("second", a) = Val("second", b)
    PROVE  a = b
  <1>1. /\ a \in Nat /\ b \in Nat /\ a <= b /\ b - a <= 59
        /\ START \in Nat
    BY Numbers
  <1>2. TimeOfDay(a)["second"] = TimeOfDay(b)["second"]
    <2>1. "second" \in Names
      BY DEF Names
    <2> QED
      BY <1>1, <2>1, ValIs, Zenon
  <1>3. \A n \in Nat : TimeOfDay(n)["second"] = (START + n) % 60
    <2> TAKE n \in Nat
    <2> DEFINE t == (START + n) % 86400
    <2>1. t % 60 = (START + n) % 60
      BY <1>1
    <2>2. TimeOfDay(n) = [second |-> t % 60, minute |-> (t \div 60) % 60, hour |-> t \div 3600]
      BY DEF TimeOfDay
    <2> HIDE DEF t
    <2> QED
      BY <2>1, <2>2
  <1>4. (START + a) % 60 = (START + b) % 60
    BY <1>1, <1>2, <1>3, Zenon
  <1> QED
    BY <1>1, <1>4

-----------------------------------------------------------------------------
(* The passes.                                                               *)

LEMMA RegistersChange ==
    ASSUME NEW r \in Registers, NEW f \in Names, NEW v \in Byte, NEW new,
           new = [r EXCEPT ![f] = v]
    PROVE  new \in Registers /\ new[f] = v /\ \A g \in Names : g # f => new[g] = r[g]
  BY DEF Registers

LEMMA NamesAre ==
    /\ "second" \in Names /\ "minute" \in Names /\ "hour" \in Names
    /\ "second" # "minute" /\ "minute" # "hour" /\ "second" # "hour"
    /\ Fields[1] = "second" /\ Fields[2] = "minute" /\ Fields[3] = "hour"
  BY DEF Names, Fields

LEMMA ReadingIs ==
    /\ Reading["first"][1] = "first second" /\ Reading["first"][2] = "first minute"
    /\ Reading["first"][3] = "first hour"
    /\ Reading["again"][1] = "again second" /\ Reading["again"][2] = "again minute"
    /\ Reading["again"][3] = "again hour"
  BY DEF Reading

(* The clock goes on. *)
LEMMA Later ==
    ASSUME NEW r, NEW k \in Nat, NEW lo \in Nat, NEW p \in Nat, Pass(r, k, lo, p)
    PROVE  Pass(r, k, lo, p + 1)
  <1>1. lo .. p \subseteq lo .. p + 1
    OBVIOUS
  <1> QED
    BY <1>1, Zenon DEF Pass

LEMMA HalfLater ==
    ASSUME NEW r, NEW k \in Nat, NEW p \in Nat, Half(r, k, p)
    PROVE  Half(r, k, p + 1)
  <1>1. 0 .. p \subseteq 0 .. p + 1 /\ 0 .. p \subseteq Nat
    OBVIOUS
  <1> QED
    BY <1>1, Later, Zenon DEF Half

LEMMA BothLater ==
    ASSUME NEW l, NEW r, NEW k \in Nat, NEW p \in Nat, Both(l, r, k, p)
    PROVE  Both(l, r, k, p + 1)
  <1>1. PICK lo \in 0 .. p : \E mid \in lo .. p : Pass(l, 3, lo, mid) /\ Pass(r, k, mid, p)
    BY Zenon DEF Both
  <1>2. PICK mid \in lo .. p : Pass(l, 3, lo, mid) /\ Pass(r, k, mid, p)
    BY <1>1, Zenon
  <1>3. mid \in Nat /\ mid \in lo .. p + 1 /\ lo \in 0 .. p + 1
    OBVIOUS
  <1>4. Pass(r, k, mid, p + 1)
    BY <1>2, <1>3, Later, Zenon
  <1> QED
    BY <1>2, <1>3, <1>4, Zenon DEF Both

(* A field more: now is p, and the other fields stay. *)
LEMMA MinuteRead ==
    ASSUME NEW r, NEW s, NEW lo \in Nat, NEW p \in Nat, lo <= p, Pass(r, 1, lo, p),
           s["second"] = r["second"], s["minute"] = Val("minute", p)
    PROVE  Pass(s, 2, lo, p)
  <1>1. p \in lo .. p /\ ~(2 >= 3)
    OBVIOUS
  <1> QED
    BY <1>1, Zenon DEF Pass

LEMMA HourRead ==
    ASSUME NEW r, NEW s, NEW lo \in Nat, NEW p \in Nat, lo <= p, Pass(r, 2, lo, p),
           s["second"] = r["second"], s["minute"] = r["minute"], s["hour"] = Val("hour", p)
    PROVE  Pass(s, 3, lo, p)
  <1>1. p \in lo .. p /\ 2 >= 2
    OBVIOUS
  <1> QED
    BY <1>1, Zenon DEF Pass

LEMMA SecondRead ==
    ASSUME NEW s, NEW p \in Nat, s["second"] = Val("second", p)
    PROVE  Pass(s, 1, p, p)
  <1>1. ~(1 >= 2) /\ ~(1 >= 3)
    OBVIOUS
  <1> QED
    BY <1>1, Zenon DEF Pass

LEMMA PlacesAre ==
    {"idle", "first", "again", "save", "compare", "done", "first second", "first minute",
     "first hour", "again second", "again minute", "again hour"} \subseteq Places
  <1>1. 1 \in 1 .. 3 /\ 2 \in 1 .. 3 /\ 3 \in 1 .. 3
    OBVIOUS
  <1>2. /\ "first second" \in Places /\ "first minute" \in Places /\ "first hour" \in Places
        /\ "again second" \in Places /\ "again minute" \in Places /\ "again hour" \in Places
    <2>1. \A p \in {"first", "again"}, i \in 1 .. 3 : Reading[p][i] \in Places
      BY DEF Places
    <2>2. "first" \in {"first", "again"} /\ "again" \in {"first", "again"}
      OBVIOUS
    <2> QED
      BY <1>1, <2>1, <2>2, ReadingIs, Zenon
  <1>3. /\ "idle" \in Places /\ "first" \in Places /\ "again" \in Places
        /\ "save" \in Places /\ "compare" \in Places /\ "done" \in Places
    BY DEF Places
  <1> QED
    BY <1>2, <1>3

-----------------------------------------------------------------------------
(* The steps of the clock and of get_time().                                *)

LEMMA BeginStep ==
    ASSUME ClockInv, BeginUpdate
    PROVE  ClockInv'
  <1>1. passed' = passed /\ updating' = TRUE /\ UNCHANGED <<at, regs, last, time_buf>>
        /\ passed < MAX_UPDATES
    BY Zenon DEF BeginUpdate
  <1>2. ClockTyped'
    BY <1>1, Zenon DEF ClockInv, ClockTyped
  <1>3. Ends'
    BY <1>1, Zenon DEF Ends
  <1>4. ReadSoFar' /\ ShowsATime'
    BY <1>1, Zenon DEF ClockInv, ReadSoFar, ShowsATime
  <1> QED
    BY <1>2, <1>3, <1>4, Zenon DEF ClockInv

LEMMA EndStep ==
    ASSUME ClockInv, EndUpdate
    PROVE  ClockInv'
  <1>1. updating = TRUE /\ updating' = FALSE /\ passed' = passed + 1
        /\ UNCHANGED <<at, regs, last, time_buf>>
    BY Zenon DEF EndUpdate, ClockInv, ClockTyped
  <1>2. passed \in 0 .. MAX_UPDATES /\ passed < MAX_UPDATES
    BY <1>1, Zenon DEF ClockInv, ClockTyped, Times, Ends
  <1>3. passed \in Nat /\ passed' \in Times /\ 0 .. passed \subseteq 0 .. passed + 1
        /\ 1 \in Nat /\ 2 \in Nat /\ 3 \in Nat
    BY <1>1, <1>2, Numbers DEF Times
  <1>4. ClockTyped'
    BY <1>1, <1>3, Zenon DEF ClockInv, ClockTyped
  <1>5. Ends'
    BY <1>1, Zenon DEF Ends
  <1>6. ReadSoFar'
    BY <1>1, <1>3, HalfLater, BothLater, Zenon DEF ClockInv, ReadSoFar
  <1>7. ShowsATime'
    BY <1>1, <1>3, Zenon DEF ClockInv, ShowsATime
  <1> QED
    BY <1>4, <1>5, <1>6, <1>7, Zenon DEF ClockInv

LEMMA GetTimeStep ==
    ASSUME ClockInv, GetTime
    PROVE  ClockInv'
  <1>1. at' = "first" /\ passed' = 0 /\ UNCHANGED <<updating, regs, last, time_buf>>
    BY Zenon DEF GetTime
  <1>2. 0 \in Times /\ (updating => 0 < MAX_UPDATES)
    <2>1. passed \in Times /\ (updating => passed < MAX_UPDATES)
      BY Zenon DEF ClockInv, ClockTyped, Ends
    <2> QED
      BY <2>1, Numbers DEF Times
  <1>3. ClockTyped'
    <2>1. at' \in Places
      BY <1>1, PlacesAre
    <2> QED
      BY <1>1, <1>2, <2>1, Zenon DEF ClockInv, ClockTyped
  <1>4. Ends'
    BY <1>1, <1>2, Zenon DEF Ends
  <1>5. ReadSoFar' /\ ShowsATime'
    BY <1>1 DEF ReadSoFar, ShowsATime
  <1> QED
    BY <1>3, <1>4, <1>5, Zenon DEF ClockInv

LEMMA GotTimeStep ==
    ASSUME ClockInv, GotTime
    PROVE  ClockInv'
  <1>1. at' = "idle" /\ passed' = 0 /\ updating' = FALSE /\ regs' = Blank /\ last' = Blank
        /\ time_buf' = [i \in 11 .. 18 |-> 0]
    BY Zenon DEF GotTime
  <1>2. 0 \in Times /\ Blank \in Registers /\ [i \in 11 .. 18 |-> 0] \in Texts
    BY Numbers DEF Blank, Registers, Byte, Names, Texts, Times, Digits
  <1>3. at' \in Places
    BY <1>1, PlacesAre
  <1>4. ClockTyped'
    BY <1>1, <1>2, <1>3, Zenon DEF ClockTyped
  <1>5. Ends' /\ ReadSoFar' /\ ShowsATime'
    BY <1>1 DEF Ends, ReadSoFar, ShowsATime
  <1> QED
    BY <1>4, <1>5, Zenon DEF ClockInv

LEMMA StartStep ==
    ASSUME ClockInv, StartReading
    PROVE  ClockInv'
  <1>1. at \in {"first", "again"} /\ at' = Reading[at][1]
        /\ UNCHANGED <<passed, updating, regs, last, time_buf>>
    BY Zenon DEF StartReading, FlagClear
  <1>2. CASE at = "first"
    <2>1. at' = "first second"
      BY <1>1, <1>2, ReadingIs, Zenon
    <2>2. at' \in Places
      BY <2>1, PlacesAre
    <2>3. ReadSoFar' /\ ShowsATime'
      BY <2>1 DEF ReadSoFar, ShowsATime
    <2> QED
      BY <1>1, <2>2, <2>3, Zenon DEF ClockInv, ClockTyped, Ends
  <1>3. CASE at = "again"
    <2>1. at' = "again second"
      BY <1>1, <1>3, ReadingIs, Zenon
    <2>2. at' \in Places
      BY <2>1, PlacesAre
    <2>3. Half(last, 3, passed)
      BY <1>3 DEF ClockInv, ReadSoFar
    <2>4. Half(last', 3, passed')
      BY <1>1, <2>3, Zenon
    <2>5. ReadSoFar' /\ ShowsATime'
      BY <2>1, <2>4 DEF ReadSoFar, ShowsATime
    <2> QED
      BY <1>1, <2>2, <2>5, Zenon DEF ClockInv, ClockTyped, Ends
  <1> QED
    BY <1>1, <1>2, <1>3, Zenon

LEMMA SaveStep ==
    ASSUME ClockInv, Save
    PROVE  ClockInv'
  <1>1. at = "save" /\ last' = regs /\ at' = "again"
        /\ UNCHANGED <<passed, updating, regs, time_buf>>
    BY Zenon DEF Save
  <1>2. Half(regs, 3, passed)
    BY <1>1, Zenon DEF ClockInv, ReadSoFar
  <1>3. Half(last', 3, passed')
    BY <1>1, <1>2, Zenon
  <1>4. at' \in Places
    BY <1>1, PlacesAre
  <1>5. ReadSoFar' /\ ShowsATime'
    BY <1>1, <1>3 DEF ReadSoFar, ShowsATime
  <1> QED
    BY <1>1, <1>4, <1>5, Zenon DEF ClockInv, ClockTyped, Ends

(* What reading one field does: the register of now. *)
LEMMA ReadIs ==
    ASSUME ClockInv, NEW pass \in {"first", "again"}, NEW i \in 1 .. 3, ReadRegister(pass, i)
    PROVE  /\ at = Reading[pass][i] /\ UNCHANGED <<passed, updating, last, time_buf>>
           /\ regs' \in Registers
           /\ regs'[Fields[i]] = Val(Fields[i], passed)
           /\ \A g \in Names : g # Fields[i] => regs'[g] = regs[g]
  <1> DEFINE f == Fields[i]
             v == Val(f, passed)
  <1>1. at = Reading[pass][i] /\ UNCHANGED <<passed, updating, last, time_buf>>
        /\ regs' = [regs EXCEPT ![f] = Register(f)]
    BY Zenon DEF ReadRegister
  <1>2. f \in Names
    <2>1. i = 1 \/ i = 2 \/ i = 3
      OBVIOUS
    <2> QED
      BY <2>1, NamesAre, Zenon
  <1>3. Register(f) = v
    BY Zenon DEF Register, Val
  <1>4. passed \in Nat /\ regs \in Registers
    <2>1. passed \in Times /\ regs \in Registers
      BY Zenon DEF ClockInv, ClockTyped
    <2> QED
      BY <2>1, Numbers DEF Times
  <1> HIDE DEF f
  <1>5. v \in Byte
    BY <1>2, <1>4, ValIs, Zenon
  <1> HIDE DEF v
  <1>6. regs' = [regs EXCEPT ![f] = v]
    BY <1>1, <1>3, Zenon
  <1>7. regs' \in Registers /\ regs'[f] = v /\ \A g \in Names : g # f => regs'[g] = regs[g]
    BY <1>2, <1>4, <1>5, <1>6 DEF Registers
  <1> QED
    BY <1>1, <1>7, Zenon DEF f, v

LEMMA ReadStep ==
    ASSUME ClockInv, NEW pass \in {"first", "again"}, NEW i \in 1 .. 3, ReadRegister(pass, i)
    PROVE  ClockInv'
  <1>1. /\ at = Reading[pass][i] /\ UNCHANGED <<passed, updating, last, time_buf>>
        /\ regs' \in Registers
        /\ regs'[Fields[i]] = Val(Fields[i], passed)
        /\ \A g \in Names : g # Fields[i] => regs'[g] = regs[g]
    BY ReadIs, Zenon
  <1>2. at' = IF i < 3 THEN Reading[pass][i + 1]
              ELSE IF pass = "first" THEN "save" ELSE "compare"
    BY Zenon DEF ReadRegister
  <1>3. ClockTyped /\ Ends /\ ReadSoFar
    BY Zenon DEF ClockInv
  <1>4. passed \in Nat /\ passed \in 0 .. passed /\ passed \in passed .. passed
    BY <1>3, Numbers DEF ClockTyped, Times
  <1>5. ASSUME at' \in Places, ReadSoFar', ShowsATime' PROVE ClockInv'
    BY <1>1, <1>3, <1>5, Zenon DEF ClockInv, ClockTyped, Ends
  <1>6. CASE i = 1
    <2>1. i < 3 /\ i + 1 = 2
      BY <1>6
    <2>2. regs'["second"] = Val("second", passed)
      BY <1>1, <1>6, NamesAre, Zenon
    <2>3. Pass(regs', 1, passed, passed)
      BY <1>4, <2>2, SecondRead, Zenon
    <2>4. CASE pass = "first"
      <3>1. at' = "first minute"
        BY <1>2, <2>1, <2>4, ReadingIs, Zenon
      <3>2. Half(regs', 1, passed')
        BY <1>1, <1>4, <2>3, Zenon DEF Half
      <3>3. at' \in Places /\ ReadSoFar' /\ ShowsATime'
        <4>1. at' \in Places
          BY <3>1, PlacesAre
        <4> QED
          BY <3>1, <3>2, <4>1 DEF ReadSoFar, ShowsATime
      <3> QED
        BY <1>5, <3>3
    <2>5. CASE pass = "again"
      <3>1. at = "again second" /\ at' = "again minute"
        BY <1>1, <1>2, <1>6, <2>1, <2>5, ReadingIs, Zenon
      <3>2. Half(last, 3, passed)
        BY <1>3, <3>1 DEF ReadSoFar
      <3>3. PICK lo \in 0 .. passed : Pass(last, 3, lo, passed)
        BY <3>2, Zenon DEF Half
      <3>4. passed \in lo .. passed
        BY <1>4
      <3>5. Both(last', regs', 1, passed')
        BY <1>1, <2>3, <3>3, <3>4, Zenon DEF Both
      <3>6. at' \in Places /\ ReadSoFar' /\ ShowsATime'
        <4>1. at' \in Places
          BY <3>1, PlacesAre
        <4> QED
          BY <3>1, <3>5, <4>1 DEF ReadSoFar, ShowsATime
      <3> QED
        BY <1>5, <3>6
    <2> QED
      BY <2>4, <2>5
  <1>7. CASE i = 2
    <2>1. i < 3 /\ i + 1 = 3
      BY <1>7
    <2>2. regs'["second"] = regs["second"] /\ regs'["minute"] = Val("minute", passed)
      BY <1>1, <1>7, NamesAre, Zenon
    <2>3. ASSUME NEW lo \in Nat, lo <= passed, Pass(regs, 1, lo, passed)
          PROVE  Pass(regs', 2, lo, passed)
      BY <1>4, <2>2, <2>3, MinuteRead, Zenon
    <2>4. CASE pass = "first"
      <3>1. at = "first minute" /\ at' = "first hour"
        BY <1>1, <1>2, <1>7, <2>1, <2>4, ReadingIs, Zenon
      <3>2. Half(regs, 1, passed)
        BY <1>3, <3>1 DEF ReadSoFar
      <3>3. PICK lo \in 0 .. passed : Pass(regs, 1, lo, passed)
        BY <3>2, Zenon DEF Half
      <3>4. lo \in Nat /\ lo <= passed
        BY <1>4
      <3>5. Half(regs', 2, passed')
        BY <1>1, <2>3, <3>3, <3>4, Zenon DEF Half
      <3>6. at' \in Places /\ ReadSoFar' /\ ShowsATime'
        <4>1. at' \in Places
          BY <3>1, PlacesAre
        <4> QED
          BY <3>1, <3>5, <4>1 DEF ReadSoFar, ShowsATime
      <3> QED
        BY <1>5, <3>6
    <2>5. CASE pass = "again"
      <3>1. at = "again minute" /\ at' = "again hour"
        BY <1>1, <1>2, <1>7, <2>1, <2>5, ReadingIs, Zenon
      <3>2. Both(last, regs, 1, passed)
        BY <1>3, <3>1 DEF ReadSoFar
      <3>3. PICK lo \in 0 .. passed : \E mid \in lo .. passed :
                    Pass(last, 3, lo, mid) /\ Pass(regs, 1, mid, passed)
        BY <3>2, Zenon DEF Both
      <3>4. PICK mid \in lo .. passed : Pass(last, 3, lo, mid) /\ Pass(regs, 1, mid, passed)
        BY <3>3, Zenon
      <3>5. mid \in Nat /\ mid <= passed
        BY <1>4
      <3>6. Both(last', regs', 2, passed')
        BY <1>1, <2>3, <3>4, <3>5, Zenon DEF Both
      <3>7. at' \in Places /\ ReadSoFar' /\ ShowsATime'
        <4>1. at' \in Places
          BY <3>1, PlacesAre
        <4> QED
          BY <3>1, <3>6, <4>1 DEF ReadSoFar, ShowsATime
      <3> QED
        BY <1>5, <3>7
    <2> QED
      BY <2>4, <2>5
  <1>8. CASE i = 3
    <2>1. ~(i < 3) /\ "again" # "first"
      BY <1>8
    <2>2. /\ regs'["second"] = regs["second"] /\ regs'["minute"] = regs["minute"]
          /\ regs'["hour"] = Val("hour", passed)
      BY <1>1, <1>8, NamesAre, Zenon
    <2>3. ASSUME NEW lo \in Nat, lo <= passed, Pass(regs, 2, lo, passed)
          PROVE  Pass(regs', 3, lo, passed)
      BY <1>4, <2>2, <2>3, HourRead, Zenon
    <2>4. CASE pass = "first"
      <3>1. at = "first hour" /\ at' = "save"
        BY <1>1, <1>2, <1>8, <2>1, <2>4, ReadingIs, Zenon
      <3>2. Half(regs, 2, passed)
        BY <1>3, <3>1 DEF ReadSoFar
      <3>3. PICK lo \in 0 .. passed : Pass(regs, 2, lo, passed)
        BY <3>2, Zenon DEF Half
      <3>4. lo \in Nat /\ lo <= passed
        BY <1>4
      <3>5. Half(regs', 3, passed')
        BY <1>1, <2>3, <3>3, <3>4, Zenon DEF Half
      <3>6. at' \in Places /\ ReadSoFar' /\ ShowsATime'
        <4>1. at' \in Places
          BY <3>1, PlacesAre
        <4> QED
          BY <3>1, <3>5, <4>1 DEF ReadSoFar, ShowsATime
      <3> QED
        BY <1>5, <3>6
    <2>5. CASE pass = "again"
      <3>1. at = "again hour" /\ at' = "compare"
        BY <1>1, <1>2, <1>8, <2>1, <2>5, ReadingIs, Zenon
      <3>2. Both(last, regs, 2, passed)
        BY <1>3, <3>1 DEF ReadSoFar
      <3>3. PICK lo \in 0 .. passed : \E mid \in lo .. passed :
                    Pass(last, 3, lo, mid) /\ Pass(regs, 2, mid, passed)
        BY <3>2, Zenon DEF Both
      <3>4. PICK mid \in lo .. passed : Pass(last, 3, lo, mid) /\ Pass(regs, 2, mid, passed)
        BY <3>3, Zenon
      <3>5. mid \in Nat /\ mid <= passed
        BY <1>4
      <3>6. Both(last', regs', 3, passed')
        BY <1>1, <2>3, <3>4, <3>5, Zenon DEF Both
      <3>7. at' \in Places /\ ReadSoFar' /\ ShowsATime'
        <4>1. at' \in Places
          BY <3>1, PlacesAre
        <4> QED
          BY <3>1, <3>6, <4>1 DEF ReadSoFar, ShowsATime
      <3> QED
        BY <1>5, <3>7
    <2> QED
      BY <2>4, <2>5
  <1> QED
    BY <1>6, <1>7, <1>8

TwoDigits == 0 .. 99

(* The text of an hour, a minute and a second. *)
Text(buf, h, m, s) == int_to_char(int_to_char(int_to_char(buf, h, 12, 10), m, 15, 13), s, 18, 16)

Says(buf, h, m, s) ==
    /\ buf \in Texts
    /\ buf[11] = h \div 10 /\ buf[12] = h % 10
    /\ buf[14] = m \div 10 /\ buf[15] = m % 10
    /\ buf[17] = s \div 10 /\ buf[18] = s % 10

(* The digits that int_to_char() leaves. *)
LEMMA DigitsAre ==
    ASSUME NEW buf \in Texts, NEW h \in TwoDigits, NEW m \in TwoDigits, NEW s \in TwoDigits
    PROVE  Says(Text(buf, h, m, s), h, m, s)
  <1> DEFINE a == int_to_char(buf, h, 12, 10)
             b == int_to_char(a, m, 15, 13)
             new == Text(buf, h, m, s)
  <1>0. \A n \in TwoDigits : n % 10 \in Digits /\ n \div 10 \in Digits /\ (n \div 10) % 10 = n \div 10
    BY DEF Digits, TwoDigits
  <1>1. a \in Texts /\ a[11] = h \div 10 /\ a[12] = h % 10
    BY <1>0 DEF int_to_char, Texts
  <1>2. new = int_to_char(b, s, 18, 16)
    BY DEF Text
  <1> HIDE DEF a
  <1>3. b \in Texts /\ b[14] = m \div 10 /\ b[15] = m % 10 /\ b[11] = a[11] /\ b[12] = a[12]
    BY <1>0, <1>1 DEF int_to_char, Texts
  <1> HIDE DEF b, new
  <1>4. new \in Texts /\ new[17] = s \div 10 /\ new[18] = s % 10
        /\ new[11] = b[11] /\ new[12] = b[12] /\ new[14] = b[14] /\ new[15] = b[15]
    BY <1>0, <1>2, <1>3 DEF int_to_char, Texts
  <1> QED
    BY <1>1, <1>3, <1>4, Zenon DEF Says, new

LEMMA ShownIs ==
    ASSUME NEW buf \in Texts, NEW r, NEW n \in Nat,
           r["second"] = Val("second", n), r["minute"] = Val("minute", n),
           r["hour"] = Val("hour", n)
    PROVE  Shown(buf, r) \in Texts /\ Shows(Shown(buf, r), TimeOfDay(n))
  <1> DEFINE s == TimeOfDay(n)["second"]
             m == TimeOfDay(n)["minute"]
             h == TimeOfDay(n)["hour"]
             z == (h + 18) % 24
             new == Shown(buf, r)
  <1>1. FromBcd(r["second"]) = s /\ FromBcd(r["minute"]) = m /\ FromBcd(r["hour"]) = h
    BY NamesAre, ValIs, Zenon
  <1>2. s \in 0 .. 59 /\ m \in 0 .. 59 /\ h \in 0 .. 23
    BY TimeType, Zenon
  <1>3. new = Text(buf, z, m, s)
    BY <1>1, Zenon DEF Shown, Text
  <1> HIDE DEF s, m, h, new
  <1>4. s \in TwoDigits /\ m \in TwoDigits /\ z \in TwoDigits
    BY <1>2 DEF TwoDigits
  <1> HIDE DEF z
  <1>5. Says(new, z, m, s)
    BY <1>3, <1>4, DigitsAre, Zenon
  <1> QED
    BY <1>5, Zenon DEF Says, Shows, s, m, h, z, new

(* Two passes that agree were one moment: the seconds of the first were read *)
(* before the rest, those of the second after it, and are the same.          *)
LEMMA SameMoment ==
    ASSUME NEW r, NEW p \in 0 .. MAX_UPDATES, NEW lo \in 0 .. p, NEW mid \in lo .. p,
           Pass(r, 3, lo, mid), r["second"] = Val("second", mid)
    PROVE  /\ r["second"] = Val("second", lo) /\ r["minute"] = Val("minute", lo)
           /\ r["hour"] = Val("hour", lo)
  <1>1. lo \in 0 .. MAX_UPDATES /\ mid \in lo .. MAX_UPDATES /\ 3 >= 2 /\ 3 >= 3
    BY Numbers
  <1>2. r["second"] = Val("second", lo)
    BY Zenon DEF Pass
  <1>3. lo = mid
    BY <1>1, <1>2, SecondTells, Zenon
  <1>4. \A a \in lo .. mid : a = lo
    BY <1>3
  <1> QED
    BY <1>1, <1>2, <1>4, Zenon DEF Pass

LEMMA CompareStep ==
    ASSUME ClockInv, Compare
    PROVE  ClockInv'
  <1>1. at = "compare" /\ UNCHANGED <<passed, updating, regs, last>>
    BY Zenon DEF Compare
  <1>2. ClockTyped /\ Ends /\ Both(last, regs, 3, passed)
    BY <1>1, Zenon DEF ClockInv, ReadSoFar
  <1>3. PICK lo \in 0 .. passed : \E mid \in lo .. passed :
                Pass(last, 3, lo, mid) /\ Pass(regs, 3, mid, passed)
    BY <1>2, Zenon DEF Both
  <1>4. PICK mid \in lo .. passed : Pass(last, 3, lo, mid) /\ Pass(regs, 3, mid, passed)
    BY <1>3, Zenon
  <1>5. passed \in Nat /\ passed \in 0 .. MAX_UPDATES
    BY <1>2, Numbers DEF ClockTyped, Times
  <1>6. CASE Same
    <2>1. at' = "done" /\ time_buf' = Shown(time_buf, regs) /\ last = regs
      BY <1>6, Zenon DEF Compare, Same
    <2>2. Pass(regs, 3, lo, mid) /\ regs["second"] = Val("second", mid)
      BY <1>4, <2>1, Zenon DEF Pass
    <2>3. /\ regs["second"] = Val("second", lo) /\ regs["minute"] = Val("minute", lo)
          /\ regs["hour"] = Val("hour", lo)
      BY <1>5, <2>2, SameMoment, Zenon
    <2>4. lo \in Nat
      BY <1>5
    <2>5. time_buf' \in Texts /\ Shows(time_buf', TimeOfDay(lo))
      BY <1>2, <2>1, <2>3, <2>4, ShownIs, Zenon DEF ClockTyped
    <2>6. at' \in Places
      BY <2>1, PlacesAre
    <2>7. ShowsATime'
      <3>1. TimeOfDay(lo)' = TimeOfDay(lo)
        BY Zenon
      <3> QED
        BY <1>1, <2>5, Zenon DEF ShowsATime
    <2>8. ReadSoFar'
      BY <2>1 DEF ReadSoFar
    <2> QED
      BY <1>1, <1>2, <2>5, <2>6, <2>7, <2>8, Zenon DEF ClockInv, ClockTyped, Ends
  <1>7. CASE ~Same
    <2>1. at' = "save" /\ time_buf' = time_buf
      BY <1>7, Zenon DEF Compare
    <2>2. mid \in 0 .. passed
      BY <1>5
    <2>3. Half(regs', 3, passed')
      BY <1>1, <1>4, <2>2, Zenon DEF Half
    <2>4. at' \in Places /\ ReadSoFar' /\ ShowsATime'
      <3>1. at' \in Places
        BY <2>1, PlacesAre
      <3> QED
        BY <2>1, <2>3, <3>1 DEF ReadSoFar, ShowsATime
    <2> QED
      BY <1>1, <1>2, <2>1, <2>4, Zenon DEF ClockInv, ClockTyped, Ends
  <1> QED
    BY <1>6, <1>7

-----------------------------------------------------------------------------
(* The steps of the handler and of the processes.                           *)

LEMMA ClockSame ==
    ASSUME ClockInv, UNCHANGED clock
    PROVE  ClockInv'
  <1>1. UNCHANGED <<passed, updating, at, regs, last, time_buf>>
    BY Zenon DEF clock
  <1>2. ClockTyped' /\ Ends'
    BY <1>1, Zenon DEF ClockInv, ClockTyped, Ends
  <1>3. ReadSoFar'
    BY <1>1, Zenon DEF ClockInv, ReadSoFar
  <1>4. ShowsATime'
    BY <1>1, Zenon DEF ClockInv, ShowsATime
  <1> QED
    BY <1>2, <1>3, <1>4, Zenon DEF ClockInv

LEMMA ClockSteps ==
    ASSUME ClockInv, ClockStep
    PROVE  ClockInv'
  <1>1. CASE StartReading
    BY <1>1, StartStep, Zenon
  <1>2. CASE \E pass \in {"first", "again"}, i \in 1 .. 3 : ReadRegister(pass, i)
    BY <1>2, ReadStep, Zenon
  <1>3. CASE Save
    BY <1>3, SaveStep, Zenon
  <1>4. CASE Compare
    BY <1>4, CompareStep, Zenon
  <1> QED
    BY <1>1, <1>2, <1>3, <1>4, Zenon DEF ClockStep

(* The rates that are set are at least one tick and at most a second. *)
LEMMA RateIs ==
    ASSUME NEW f \in 1 .. BASE
    PROVE  BASE \div f \in 1 .. BASE
  <1>1. BASE \in Nat /\ f \in Nat /\ f > 0 /\ f <= BASE
    BY Numbers
  <1> DEFINE q == BASE \div f
  <1>2. q \in Int /\ f * q <= BASE /\ BASE < f * q + f
    BY <1>1
  <1> HIDE DEF q
  <1>3. q >= 1
    <2>1. SUFFICES ASSUME q <= 0 PROVE FALSE
      BY <1>2
    <2>2. f * q <= 0
      BY <1>1, <1>2, <2>1
    <2> QED
      BY <1>1, <1>2, <2>2
  <1>4. q <= BASE
    <2>1. q <= f * q
      BY <1>1, <1>2, <1>3
    <2> QED
      BY <1>1, <1>2, <2>1
  <1> QED
    BY <1>1, <1>2, <1>3, <1>4 DEF q

LEMMA TickStep ==
    ASSUME Inv, NEW t \in Terms, Tick(t)
    PROVE  Inv'
  <1>1. handler = "none" /\ on' = t /\ handler' = "screen"
        /\ UNCHANGED <<rtc_virtual_rate, screen_ticks, pc, clock>>
    BY Zenon DEF Tick
  <1>2. /\ rtc_int_flag' = [u \in Terms |-> Due(u) \/ rtc_int_flag[u]]
        /\ rtc_ticks' = [u \in Terms |-> IF Due(u) THEN 0 ELSE rtc_ticks[u] + 1]
        /\ waited' = [u \in Terms |-> IF pc[u] = "spin" /\ ~rtc_int_flag[u] /\ waited[u] < BASE
                                        THEN waited[u] + 1 ELSE waited[u]]
    BY Zenon DEF Tick
  <1>3. RtcTyped /\ Waits /\ Redraws /\ ClockInv
    BY Zenon DEF Inv
  <1>4. \A u \in Terms :
          /\ rtc_ticks[u] \in Nat /\ rtc_ticks[u] < BASE
          /\ rtc_virtual_rate[u] \in Nat /\ rtc_virtual_rate[u] <= BASE
          /\ waited[u] \in Nat /\ waited[u] <= BASE
    BY <1>3, Numbers DEF RtcTyped
  <1>5. RtcTyped'
    <2>1. rtc_ticks' \in [Terms -> 0 .. BASE - 1]
      <3>1. \A u \in Terms : (IF Due(u) THEN 0 ELSE rtc_ticks[u] + 1) \in 0 .. BASE - 1
        BY <1>4, Numbers DEF Due
      <3> QED
        BY <1>2, <3>1, Zenon
    <2>2. rtc_int_flag' \in [Terms -> BOOLEAN]
      BY <1>2, Zenon
    <2>3. waited' \in [Terms -> 0 .. BASE]
      <3>1. \A u \in Terms : (IF pc[u] = "spin" /\ ~rtc_int_flag[u] /\ waited[u] < BASE
                               THEN waited[u] + 1 ELSE waited[u]) \in 0 .. BASE
        BY <1>4, Numbers
      <3> QED
        BY <1>2, <3>1, Zenon
    <2> QED
      BY <1>1, <1>3, <2>1, <2>2, <2>3 DEF RtcTyped
  <1>6. Waits'
    <2> SUFFICES ASSUME NEW u \in Terms, pc'[u] = "spin", ~rtc_int_flag'[u]
                 PROVE  /\ waited'[u] <= rtc_ticks'[u]
                        /\ waited'[u] = 0 \/ rtc_ticks'[u] < rtc_virtual_rate'[u]
      BY DEF Waits
    <2>1. pc[u] = "spin" /\ ~rtc_int_flag[u] /\ ~Due(u)
      BY <1>1, <1>2, Zenon
    <2>2. waited[u] <= rtc_ticks[u]
      BY <1>3, <2>1, Zenon DEF Waits
    <2>3. waited[u] < BASE
      BY <1>4, <2>2, Numbers
    <2>4. rtc_ticks'[u] = rtc_ticks[u] + 1 /\ waited'[u] = waited[u] + 1
      BY <1>2, <2>1, <2>3, Zenon
    <2>5. rtc_ticks[u] + 1 < rtc_virtual_rate[u]
      BY <1>4, <2>1 DEF Due
    <2> QED
      BY <1>1, <1>4, <2>2, <2>4, <2>5
  <1>7. Redraws'
    BY <1>1, <1>3 DEF Redraws
  <1>8. ClockInv'
    BY <1>1, <1>3, ClockSame, Zenon
  <1> QED
    BY <1>5, <1>6, <1>7, <1>8, Zenon DEF Inv

(* The steps that leave the terminals' clocks and processes alone. *)
LEMMA OthersStep ==
    ASSUME Inv, UNCHANGED <<rtc, pc, waited>>
    PROVE  /\ UNCHANGED <<rtc_ticks, rtc_int_flag, rtc_virtual_rate, pc, waited>>
           /\ Waits'
  <1>1. UNCHANGED <<rtc_ticks, rtc_int_flag, rtc_virtual_rate, pc, waited>>
    BY Zenon DEF rtc
  <1> QED
    BY <1>1, Zenon DEF Inv, Waits

LEMMA ScreenTickStep ==
    ASSUME Inv, ScreenTick
    PROVE  Inv'
  <1>1. handler = "screen" /\ at = "idle" /\ screen_ticks' = screen_ticks + 1
        /\ UNCHANGED <<rtc, on, pc, waited>>
    BY Zenon DEF ScreenTick
  <1>2. RtcTyped /\ Waits /\ Redraws /\ ClockInv
    BY Zenon DEF Inv
  <1>3. screen_ticks \in Nat /\ screen_ticks < SCREEN_RATE
    BY <1>1, <1>2, Numbers DEF RtcTyped, Redraws
  <1>4. /\ UNCHANGED <<rtc_ticks, rtc_int_flag, rtc_virtual_rate, pc, waited>>
        /\ Waits'
    BY <1>1, OthersStep, Zenon
  <1>5. CASE screen_ticks + 1 >= SCREEN_RATE
    <2>1. handler' = "redraw" /\ GetTime
      BY <1>5, Zenon DEF ScreenTick
    <2>2. ClockInv'
      BY <1>2, <2>1, GetTimeStep, Zenon
    <2>3. screen_ticks' \in 0 .. SCREEN_RATE
      BY <1>1, <1>3, Numbers
    <2>4. RtcTyped' /\ Redraws'
      <3>1. "redraw" \in {"none", "screen", "redraw", "eoi"}
        OBVIOUS
      <3> QED
        BY <1>1, <1>2, <1>4, <2>1, <2>3, <3>1, Zenon DEF RtcTyped, Redraws
    <2> QED
      BY <1>4, <2>2, <2>4, Zenon DEF Inv
  <1>6. CASE ~(screen_ticks + 1 >= SCREEN_RATE)
    <2>1. handler' = "eoi" /\ UNCHANGED clock
      BY <1>6, Zenon DEF ScreenTick
    <2>2. ClockInv'
      BY <1>2, <2>1, ClockSame, Zenon
    <2>3. screen_ticks' \in 0 .. SCREEN_RATE /\ screen_ticks' < SCREEN_RATE
      BY <1>1, <1>3, <1>6, Numbers
    <2>4. RtcTyped' /\ Redraws'
      <3>1. "eoi" \in {"none", "screen", "redraw", "eoi"}
        OBVIOUS
      <3> QED
        BY <1>1, <1>2, <1>4, <2>1, <2>3, <3>1, Zenon DEF RtcTyped, Redraws
    <2> QED
      BY <1>4, <2>2, <2>4, Zenon DEF Inv
  <1> QED
    BY <1>5, <1>6

LEMMA ClockOnlyStep ==
    ASSUME Inv, ClockInv', UNCHANGED <<rtc, screen_ticks, handler, on, pc, waited>>
    PROVE  Inv'
  <1>1. /\ UNCHANGED <<rtc_ticks, rtc_int_flag, rtc_virtual_rate, pc, waited>>
        /\ UNCHANGED <<screen_ticks, handler, on>> /\ Waits'
    BY OthersStep, Zenon
  <1>2. RtcTyped' /\ Redraws'
    BY <1>1, Zenon DEF Inv, RtcTyped, Redraws
  <1> QED
    BY <1>1, <1>2, Zenon DEF Inv

LEMMA RedrawnStep ==
    ASSUME Inv, Redrawn
    PROVE  Inv'
  <1>1. handler = "redraw" /\ GotTime /\ handler' = "eoi" /\ screen_ticks' = 0
        /\ UNCHANGED <<rtc, on, pc, waited>>
    BY Zenon DEF Redrawn
  <1>2. /\ UNCHANGED <<rtc_ticks, rtc_int_flag, rtc_virtual_rate, pc, waited>>
        /\ Waits'
    BY <1>1, OthersStep, Zenon
  <1>3. RtcTyped' /\ Redraws'
    <2>1. 0 \in 0 .. SCREEN_RATE /\ 0 < SCREEN_RATE
      BY Numbers
    <2>2. RtcTyped'
      <3>1. RtcTyped /\ "eoi" \in {"none", "screen", "redraw", "eoi"}
        BY Zenon DEF Inv
      <3> QED
        BY <1>1, <1>2, <2>1, <3>1, Zenon DEF RtcTyped
    <2> QED
      BY <1>1, <2>1, <2>2, Zenon DEF Redraws
  <1>4. ClockInv'
    BY <1>1, GotTimeStep, Zenon DEF Inv
  <1> QED
    BY <1>2, <1>3, <1>4, Zenon DEF Inv

LEMMA EoiStep ==
    ASSUME Inv, Eoi
    PROVE  Inv'
  <1>1. handler = "eoi" /\ handler' = "none" /\ on' = "nobody"
        /\ UNCHANGED <<rtc, screen_ticks, pc, waited, clock>>
    BY Zenon DEF Eoi
  <1>2. /\ UNCHANGED <<rtc_ticks, rtc_int_flag, rtc_virtual_rate, pc, waited>>
        /\ UNCHANGED screen_ticks /\ Waits'
    BY <1>1, OthersStep, Zenon
  <1>3. RtcTyped' /\ Redraws'
    <2>1. RtcTyped /\ Redraws /\ "none" \in {"none", "screen", "redraw", "eoi"}
          /\ "nobody" \in Terms \cup {"nobody"} /\ "eoi" # "redraw"
      BY Zenon DEF Inv
    <2> QED
      BY <1>1, <1>2, <2>1, Zenon DEF RtcTyped, Redraws
  <1>4. ClockInv'
    BY <1>1, ClockSame, Zenon DEF Inv
  <1> QED
    BY <1>2, <1>3, <1>4, Zenon DEF Inv

(* What the processes do to their own clocks: the counters, the screen and   *)
(* the clock stay as they are.                                               *)
LEMMA ProcessStep ==
    ASSUME Inv, RtcTyped', Waits', UNCHANGED <<screen_ticks, handler, clock>>
    PROVE  Inv'
  <1>1. ClockInv'
    BY ClockSame, Zenon DEF Inv
  <1>2. Redraws'
    BY Zenon DEF Inv, Redraws
  <1> QED
    BY <1>1, <1>2, Zenon DEF Inv

LEMMA RateStep ==
    ASSUME Inv, NEW t \in Terms, NEW rate \in 1 .. BASE, pc[t] = "user",
           rtc_virtual_rate' = [rtc_virtual_rate EXCEPT ![t] = rate],
           rtc_int_flag' \in [Terms -> BOOLEAN],
           \A u \in Terms : u # t => rtc_int_flag'[u] = rtc_int_flag[u],
           UNCHANGED <<rtc_ticks, screen_ticks, handler, on, pc, waited, clock>>
    PROVE  Inv'
  <1>1. RtcTyped /\ Waits
    BY Zenon DEF Inv
  <1>2. RtcTyped'
    BY <1>1 DEF RtcTyped
  <1>3. Waits'
    <2> SUFFICES ASSUME NEW u \in Terms, pc'[u] = "spin", ~rtc_int_flag'[u]
                 PROVE  /\ waited'[u] <= rtc_ticks'[u]
                        /\ waited'[u] = 0 \/ rtc_ticks'[u] < rtc_virtual_rate'[u]
      BY DEF Waits
    <2>1. pc[u] = "spin" /\ u # t
      BY DEF RtcTyped
    <2>2. ~rtc_int_flag[u] /\ rtc_virtual_rate'[u] = rtc_virtual_rate[u]
      BY <1>1, <2>1 DEF RtcTyped
    <2>3. /\ waited[u] <= rtc_ticks[u]
          /\ waited[u] = 0 \/ rtc_ticks[u] < rtc_virtual_rate[u]
      BY <1>1, <2>1, <2>2, Zenon DEF Waits
    <2> QED
      BY <2>2, <2>3, Zenon
  <1> QED
    BY <1>2, <1>3, ProcessStep, Zenon

LEMMA OpenStep ==
    ASSUME Inv, NEW t \in Terms, Open(t)
    PROVE  Inv'
  <1>1. /\ pc[t] = "user"
        /\ rtc_int_flag' = [rtc_int_flag EXCEPT ![t] = FALSE]
        /\ rtc_virtual_rate' = [rtc_virtual_rate EXCEPT ![t] = BASE \div 2]
        /\ UNCHANGED <<rtc_ticks, screen_ticks, handler, on, pc, waited, clock>>
    BY DEF Open, FlagsAtOpen
  <1>2. BASE \div 2 \in 1 .. BASE
    BY Numbers
  <1>3. rtc_int_flag \in [Terms -> BOOLEAN]
    BY Zenon DEF Inv, RtcTyped
  <1>4. /\ rtc_int_flag' \in [Terms -> BOOLEAN]
        /\ \A u \in Terms : u # t => rtc_int_flag'[u] = rtc_int_flag[u]
    BY <1>1, <1>3
  <1> QED
    BY <1>1, <1>2, <1>4, RateStep

LEMMA WriteStep ==
    ASSUME Inv, NEW t \in Terms, NEW f \in Frequencies, Write(t, f)
    PROVE  Inv'
  <1>1. /\ pc[t] = "user"
        /\ rtc_virtual_rate' = [rtc_virtual_rate EXCEPT ![t] = RateOf(t, f)]
        /\ UNCHANGED <<rtc_ticks, rtc_int_flag, screen_ticks, handler, on, pc, waited, clock>>
    BY Zenon DEF Write
  <1>2. rtc_int_flag \in [Terms -> BOOLEAN] /\ rtc_virtual_rate \in [Terms -> 1 .. BASE]
    BY Zenon DEF Inv, RtcTyped
  <1>3. RateOf(t, f) \in 1 .. BASE
    <2>1. CASE Accepted(f)
      <3>1. f > 0 /\ f <= BASE
        BY <2>1, Zenon DEF Accepted
      <3>2. f \in 1 .. BASE
        BY <3>1, Numbers
      <3>3. RateOf(t, f) = BASE \div f
        BY <2>1, Zenon DEF RateOf
      <3> QED
        BY <3>2, <3>3, RateIs, Zenon
    <2>2. CASE ~Accepted(f)
      BY <1>2, <2>2, Zenon DEF RateOf
    <2> QED
      BY <2>1, <2>2
  <1>4. rtc_int_flag' = rtc_int_flag
    BY <1>1, Zenon
  <1> HIDE DEF RateOf
  <1> QED
    BY <1>1, <1>2, <1>3, <1>4, RateStep

(* A process that stops or begins waiting. *)
LEMMA WaitStep ==
    ASSUME Inv, NEW t \in Terms, NEW place \in {"user", "spin", "seen"}, NEW flag \in BOOLEAN,
           pc' = [pc EXCEPT ![t] = place],
           rtc_int_flag' = [rtc_int_flag EXCEPT ![t] = flag],
           waited' = [waited EXCEPT ![t] = 0],
           UNCHANGED <<rtc_ticks, rtc_virtual_rate, screen_ticks, handler, on, clock>>
    PROVE  Inv'
  <1>1. RtcTyped /\ Waits
    BY Zenon DEF Inv
  <1>2. RtcTyped'
    BY <1>1, Numbers DEF RtcTyped
  <1>3. Waits'
    <2> SUFFICES ASSUME NEW u \in Terms, pc'[u] = "spin", ~rtc_int_flag'[u]
                 PROVE  /\ waited'[u] <= rtc_ticks'[u]
                        /\ waited'[u] = 0 \/ rtc_ticks'[u] < rtc_virtual_rate'[u]
      BY DEF Waits
    <2>1. rtc_ticks[u] \in Nat
      BY <1>1, Numbers DEF RtcTyped
    <2>2. CASE u = t
      BY <1>1, <2>1, <2>2 DEF RtcTyped
    <2>3. CASE u # t
      <3>1. pc[u] = "spin" /\ ~rtc_int_flag[u] /\ waited'[u] = waited[u]
        BY <1>1, <2>3 DEF RtcTyped
      <3>2. /\ waited[u] <= rtc_ticks[u]
            /\ waited[u] = 0 \/ rtc_ticks[u] < rtc_virtual_rate[u]
        BY <1>1, <3>1, Zenon DEF Waits
      <3> QED
        BY <3>1, <3>2, Zenon
    <2> QED
      BY <2>2, <2>3
  <1> QED
    BY <1>2, <1>3, ProcessStep, Zenon

LEMMA ReadRtcStep ==
    ASSUME Inv, NEW t \in Terms, Read(t)
    PROVE  Inv'
  BY WaitStep DEF Read, FlagAtRead

LEMMA ReturnStep ==
    ASSUME Inv, NEW t \in Terms, Return(t)
    PROVE  Inv'
  BY WaitStep DEF Return

LEMMA KilledStep ==
    ASSUME Inv, NEW t \in Terms, Killed(t)
    PROVE  Inv'
  <1>1. /\ pc' = [pc EXCEPT ![t] = "user"] /\ waited' = [waited EXCEPT ![t] = 0]
        /\ UNCHANGED <<rtc, screen_ticks, handler, on, clock>>
    BY Zenon DEF Killed
  <1>2. rtc_int_flag[t] \in BOOLEAN /\ rtc_int_flag \in [Terms -> BOOLEAN]
    BY Zenon DEF Inv, RtcTyped
  <1>3. UNCHANGED <<rtc_ticks, rtc_virtual_rate, rtc_int_flag>>
    BY <1>1, Zenon DEF rtc
  <1>4. rtc_int_flag' = [rtc_int_flag EXCEPT ![t] = rtc_int_flag[t]]
    BY <1>2, <1>3
  <1>5. "user" \in {"user", "spin", "seen"}
    OBVIOUS
  <1> QED
    BY <1>1, <1>2, <1>3, <1>4, <1>5, WaitStep

LEMMA SeenStep ==
    ASSUME Inv, NEW t \in Terms, Seen(t)
    PROVE  Inv'
  <1>1. /\ pc' = [pc EXCEPT ![t] = "seen"]
        /\ UNCHANGED <<rtc, screen_ticks, handler, on, waited, clock>>
    BY Zenon DEF Seen
  <1>2. RtcTyped /\ Waits
    BY Zenon DEF Inv
  <1>3. UNCHANGED <<rtc_ticks, rtc_virtual_rate, rtc_int_flag>>
    BY <1>1, Zenon DEF rtc
  <1>4. RtcTyped'
    BY <1>1, <1>2, <1>3 DEF RtcTyped
  <1>5. \A u \in Terms : pc'[u] = "spin" => pc[u] = "spin"
    BY <1>1, <1>2 DEF RtcTyped
  <1>6. Waits'
    BY <1>1, <1>2, <1>3, <1>5, Zenon DEF Waits
  <1> QED
    BY <1>1, <1>4, <1>6, ProcessStep, Zenon

-----------------------------------------------------------------------------
LEMMA InitInv ==
    ASSUME Init
    PROVE  Inv
  <1>1. /\ rtc_ticks = [t \in Terms |-> 0]
        /\ rtc_int_flag = [t \in Terms |-> FALSE]
        /\ rtc_virtual_rate = [t \in Terms |-> BASE]
        /\ screen_ticks = 0 /\ handler = "none" /\ on = "nobody"
        /\ pc = [t \in Terms |-> "user"]
        /\ waited = [t \in Terms |-> 0]
        /\ ClockInit
    BY Zenon DEF Init
  <1>2. RtcTyped
    BY <1>1, Numbers DEF RtcTyped
  <1>3. Waits /\ Redraws
    BY <1>1, Numbers DEF Waits, Redraws
  <1>4. ClockInv
    <2>1. passed = 0 /\ updating = FALSE /\ at = "idle" /\ regs = Blank /\ last = Blank
          /\ time_buf = [i \in 11 .. 18 |-> 0]
      BY <1>1, Zenon DEF ClockInit
    <2>2. 0 \in Times /\ Blank \in Registers /\ [i \in 11 .. 18 |-> 0] \in Texts
      BY Numbers DEF Blank, Registers, Byte, Names, Texts, Times, Digits
    <2>3. at \in Places
      BY <2>1, PlacesAre
    <2>4. ClockTyped
      BY <2>1, <2>2, <2>3, Zenon DEF ClockTyped
    <2>5. Ends /\ ReadSoFar /\ ShowsATime
      BY <2>1 DEF Ends, ReadSoFar, ShowsATime
    <2> QED
      BY <2>4, <2>5, Zenon DEF ClockInv
  <1> QED
    BY <1>2, <1>3, <1>4, Zenon DEF Inv

LEMMA NextInv ==
    ASSUME Inv, [Next]_vars
    PROVE  Inv'
  <1>1. CASE UNCHANGED vars
    <2>1. UNCHANGED <<rtc, screen_ticks, handler, on, pc, waited>> /\ UNCHANGED clock
      BY <1>1, Zenon DEF vars
    <2>2. ClockInv'
      BY <2>1, ClockSame, Zenon DEF Inv
    <2> QED
      BY <2>1, <2>2, ClockOnlyStep, Zenon
  <1>2. CASE \E t \in Terms : Tick(t)
    BY <1>2, TickStep, Zenon
  <1>3. CASE ScreenTick
    BY <1>3, ScreenTickStep, Zenon
  <1>4. CASE Redraw
    BY <1>4, ClockSteps, ClockOnlyStep, Zenon DEF Redraw, Inv
  <1>5. CASE ClockTicks
    BY <1>5, BeginStep, ClockOnlyStep, Zenon DEF ClockTicks, Inv
  <1>6. CASE UpdateEnds
    BY <1>6, EndStep, ClockOnlyStep, Zenon DEF UpdateEnds, Inv
  <1>7. CASE Redrawn
    BY <1>7, RedrawnStep, Zenon
  <1>8. CASE Eoi
    BY <1>8, EoiStep, Zenon
  <1>9. CASE \E t \in Terms :
               \/ Open(t) \/ Read(t) \/ Seen(t) \/ Return(t) \/ Killed(t)
               \/ \E f \in Frequencies : Write(t, f)
    BY <1>9, OpenStep, ReadRtcStep, SeenStep, ReturnStep, KilledStep, WriteStep, Zenon
  <1> QED
    BY <1>1, <1>2, <1>3, <1>4, <1>5, <1>6, <1>7, <1>8, <1>9, Zenon DEF Next

(* The inductive invariant: what each wait has counted of the period, and    *)
(* what each pass of get_time() has read of the time since the call.         *)
THEOREM RtcInv == Spec => []Inv
  <1>1. Init => Inv
    BY InitInv
  <1>2. Inv /\ [Next]_vars => Inv'
    BY NextInv
  <1> QED
    BY <1>1, <1>2, PTL DEF Spec

(* A read of the RTC never waits a whole virtual period for its flag,        *)
(* whatever rates were set before it (rtc_handler(), rtc_read()).            *)
THEOREM EveryWaitOnePeriod == Spec => []WaitsOnePeriod
  <1>1. Inv => WaitsOnePeriod
    <2> SUFFICES ASSUME Inv PROVE WaitsOnePeriod
      OBVIOUS
    <2>1. RtcTyped /\ Waits /\ ClockTyped
      BY Zenon DEF Inv, ClockInv
    <2>2. ClockTypeOK
      <3>1. /\ regs \in [{"second", "minute", "hour"} -> 0 .. 255]
            /\ last \in [{"second", "minute", "hour"} -> 0 .. 255]
        BY <2>1 DEF ClockTyped, Registers, Names, Byte
      <3>2. /\ passed \in 0 .. MAX_UPDATES /\ updating \in BOOLEAN
            /\ time_buf \in [11 .. 18 -> Digits]
        BY <2>1 DEF ClockTyped, Times, Texts
      <3>3. at \in Places
        BY <2>1 DEF ClockTyped
      <3> QED
        BY <3>1, <3>2, <3>3 DEF ClockTypeOK, Places
    <2>3. TypeOK
      BY <2>1, <2>2, Zenon DEF TypeOK, RtcTyped
    <2>4. ASSUME NEW t \in Terms, pc[t] = "spin", ~rtc_int_flag[t]
          PROVE  waited[t] < rtc_virtual_rate[t]
      <3>1. rtc_ticks[t] \in Nat /\ rtc_virtual_rate[t] \in Nat /\ waited[t] \in Nat
            /\ rtc_virtual_rate[t] >= 1
        BY <2>1, Numbers DEF RtcTyped
      <3>2. /\ waited[t] <= rtc_ticks[t]
            /\ waited[t] = 0 \/ rtc_ticks[t] < rtc_virtual_rate[t]
        BY <2>1, <2>4, Zenon DEF Waits
      <3> QED
        BY <3>1, <3>2
    <2> QED
      BY <2>3, <2>4, Zenon DEF WaitsOnePeriod
  <1> QED
    BY <1>1, RtcInv, PTL

(* The time put on the status bar is one that the clock showed during the    *)
(* call, at any time of day and for up to 59 updates during it (get_time()). *)
THEOREM ShownTimeIsReal == Spec => []TimeShownWasReal
  <1>1. Inv => TimeShownWasReal
    <2> SUFFICES ASSUME Inv, at = "done" PROVE TimeShownWasReal
      BY Zenon DEF TimeShownWasReal
    <2>1. PICK n \in 0 .. passed : Shows(time_buf, TimeOfDay(n))
      BY Zenon DEF Inv, ClockInv, ShowsATime
    <2> DEFINE t == TimeOfDay(n)
    <2>2. /\ <<time_buf[11], time_buf[12]>>
                = <<((t["hour"] + 18) % 24) \div 10, ((t["hour"] + 18) % 24) % 10>>
          /\ <<time_buf[14], time_buf[15]>> = <<t["minute"] \div 10, t["minute"] % 10>>
          /\ <<time_buf[17], time_buf[18]>> = <<t["second"] \div 10, t["second"] % 10>>
      <3> HIDE DEF t
      <3> QED
        BY <2>1, Zenon DEF Shows, t
    <2> QED
      BY <2>2, Zenon DEF TimeShownWasReal
  <1> QED
    BY <1>1, RtcInv, PTL
=============================================================================

-------------------------- MODULE InterruptsProofs --------------------------
(***************************************************************************)
(* What module Interrupts promises of lines in service, for any number of   *)
(* stacks, any depth of nesting and any period of ALARM.                    *)
(***************************************************************************)
EXTENDS Interrupts, SequenceTheorems, TLAPS

Typed == cur \in Stacks /\ stack \in [Stacks -> Seq(Handler)]

OwesAt(s, i) == Owes(stack[s][i])

(* A line in service has exactly one owner: the handler that has still to    *)
(* acknowledge it or, thrown away with its stack, none for ever.             *)
OneOwner ==
    /\ \A b : b \in isr <=>
          b \in orphans \/ \E s \in Stacks : \E i \in DOMAIN stack[s] : b \in OwesAt(s, i)
    /\ \A s, t \in Stacks : \A i \in DOMAIN stack[s], j \in DOMAIN stack[t] :
          \A b \in OwesAt(s, i) : b \in OwesAt(t, j) => s = t /\ i = j
    /\ \A s \in Stacks : \A i \in DOMAIN stack[s] :
          \A b \in OwesAt(s, i) : b \notin orphans

(* Only the keyboard and the RTC put the acknowledgement off, and only the   *)
(* RTC has two to give.                                                      *)
LateOnes ==
    \A s \in Stacks : \A i \in DOMAIN stack[s] :
        /\ stack[s][i].pc = "eoi" => stack[s][i].irq \in {KEY_IRQ_NUM, RTC_IRQ_NUM}
        /\ stack[s][i].pc = "eoi2" => stack[s][i].irq = RTC_IRQ_NUM

Others ==
    /\ irr \subseteq Lines
    /\ isr \subseteq Lines \cup {CASCADE}
    /\ unmasked \subseteq Lines \cup {CASCADE}
    /\ iflag \in BOOLEAN
    /\ pending \subseteq Stacks
    /\ booted \in 0 .. 10
    /\ beat \in BOOLEAN
    /\ cnt \in 0 .. ALARM_TICKS - 1
    /\ rested \subseteq Lines
    /\ orphans \subseteq Lines \cup {CASCADE}

Inv == Typed /\ Others /\ OneOwner /\ LateOnes /\ TimerAndMouseKept

-----------------------------------------------------------------------------
(* The numbers of the lines. *)
LEMMA LineNumbers ==
    /\ PIT_IRQ = 0 /\ KEY_IRQ_NUM = 1 /\ CASCADE = 2 /\ RTC_IRQ_NUM = 8 /\ MOUSE_IRQ = 12
    /\ Lines = {0, 1, 8, 12}
    /\ MasterBit(0) = 0 /\ MasterBit(1) = 1 /\ MasterBit(8) = 2 /\ MasterBit(12) = 2
    /\ OnSlave(8) /\ OnSlave(12) /\ ~OnSlave(0) /\ ~OnSlave(1)
  BY DEF PIT_IRQ, KEY_IRQ_NUM, CASCADE, RTC_IRQ_NUM, MOUSE_IRQ, Lines, MasterBit, OnSlave

(* A line that is delivered is not in service, nor is its bit of the master. *)
LEMMA DeliveredIsFree ==
    ASSUME NEW l \in Lines, Deliverable(l)
    PROVE  l \notin isr /\ MasterBit(l) \notin isr
  <1>1. l \in {0, 1, 8, 12}
    BY LineNumbers
  <1>2. Blocks(l, l)
    BY <1>1 DEF Blocks, CASCADE, MasterBit, OnSlave
  <1>3. Blocks(MasterBit(l), l)
    BY <1>1 DEF Blocks, CASCADE, MasterBit, OnSlave
  <1> QED
    BY <1>2, <1>3 DEF Deliverable

(* What a handler owes is determined by where it is.                         *)
LEMMA WhatIsOwed ==
    ASSUME NEW l \in Lines
    PROVE  /\ [irq |-> l, pc |-> "eoi"] \in Handler
           /\ [irq |-> l, pc |-> "eoi2"] \in Handler
           /\ [irq |-> l, pc |-> "sched"] \in Handler
           /\ [irq |-> l, pc |-> "exit"] \in Handler
           /\ Owes([irq |-> l, pc |-> "eoi"]) = {l, MasterBit(l)}
           /\ Owes([irq |-> l, pc |-> "eoi2"]) = {l}
           /\ Owes([irq |-> l, pc |-> "sched"]) = {}
           /\ Owes([irq |-> l, pc |-> "exit"]) = {}
  BY DEF Handler, Owes

-----------------------------------------------------------------------------
(* What the three ways to change a stack do to its elements.                 *)

LEMMA Pushed ==
    ASSUME Typed, NEW h \in Handler, stack' = [stack EXCEPT ![cur] = Append(@, h)]
    PROVE  /\ stack' \in [Stacks -> Seq(Handler)]
           /\ \A s \in Stacks : s # cur => stack'[s] = stack[s]
           /\ Len(stack[cur]) \in Nat
           /\ DOMAIN stack[cur] = 1 .. Len(stack[cur])
           /\ DOMAIN stack'[cur] = 1 .. Len(stack[cur]) + 1
           /\ \A i \in DOMAIN stack[cur] : stack'[cur][i] = stack[cur][i]
           /\ stack'[cur][Len(stack[cur]) + 1] = h
  <1>1. stack[cur] \in Seq(Handler) /\ cur \in Stacks
    BY DEF Typed
  <1>2. Append(stack[cur], h) \in Seq(Handler)
    BY <1>1
  <1>3. stack' \in [Stacks -> Seq(Handler)] /\ stack'[cur] = Append(stack[cur], h)
    BY <1>1, <1>2 DEF Typed
  <1>4. \A s \in Stacks : s # cur => stack'[s] = stack[s]
    BY DEF Typed
  <1>5. /\ Len(stack[cur]) \in Nat
        /\ DOMAIN stack[cur] = 1 .. Len(stack[cur])
        /\ DOMAIN Append(stack[cur], h) = 1 .. Len(stack[cur]) + 1
        /\ \A i \in 1 .. Len(stack[cur]) : Append(stack[cur], h)[i] = stack[cur][i]
        /\ Append(stack[cur], h)[Len(stack[cur]) + 1] = h
    BY <1>1
  <1> QED
    BY <1>3, <1>4, <1>5

LEMMA Moved ==
    ASSUME Typed, stack[cur] # <<>>, NEW pc \in {"eoi", "eoi2", "sched", "exit"}, GoTo(pc)
    PROVE  /\ stack' \in [Stacks -> Seq(Handler)]
           /\ \A s \in Stacks : s # cur => stack'[s] = stack[s]
           /\ Depth \in DOMAIN stack[cur]
           /\ stack[cur][Depth] \in Handler
           /\ DOMAIN stack'[cur] = DOMAIN stack[cur]
           /\ \A i \in DOMAIN stack[cur] : i # Depth => stack'[cur][i] = stack[cur][i]
           /\ stack'[cur][Depth] = [irq |-> stack[cur][Depth].irq, pc |-> pc]
  <1>1. stack[cur] \in Seq(Handler) /\ cur \in Stacks
    BY DEF Typed
  <1>2. Depth \in 1 .. Len(stack[cur]) /\ DOMAIN stack[cur] = 1 .. Len(stack[cur])
    BY <1>1 DEF Depth
  <1>3. stack[cur][Depth] \in Handler
    BY <1>1, <1>2
  <1> DEFINE h == [irq |-> stack[cur][Depth].irq, pc |-> pc]
             q == [stack[cur] EXCEPT ![Depth] = h]
  <1>4. [stack[cur][Depth] EXCEPT !.pc = pc] = h /\ h \in Handler
    BY <1>3 DEF Handler
  <1>5. stack' = [stack EXCEPT ![cur] = q]
    BY <1>4 DEF GoTo
  <1> HIDE DEF h
  <1>6. q \in Seq(Handler) /\ DOMAIN q = DOMAIN stack[cur] /\ q[Depth] = h
    BY <1>1, <1>2, <1>4
  <1>7. \A i \in DOMAIN stack[cur] : i # Depth => q[i] = stack[cur][i]
    BY <1>1
  <1>8. stack' \in [Stacks -> Seq(Handler)] /\ stack'[cur] = q
    BY <1>1, <1>5, <1>6 DEF Typed
  <1>9. \A s \in Stacks : s # cur => stack'[s] = stack[s]
    BY <1>5 DEF Typed
  <1> QED
    BY <1>2, <1>3, <1>6, <1>7, <1>8, <1>9 DEF h

LEMMA Popped ==
    ASSUME Typed, stack[cur] # <<>>, stack' = [stack EXCEPT ![cur] = Front(@)]
    PROVE  /\ stack' \in [Stacks -> Seq(Handler)]
           /\ \A s \in Stacks : s # cur => stack'[s] = stack[s]
           /\ Depth \in DOMAIN stack[cur]
           /\ DOMAIN stack'[cur] = DOMAIN stack[cur] \ {Depth}
           /\ \A i \in DOMAIN stack'[cur] : stack'[cur][i] = stack[cur][i]
  <1>1. stack[cur] \in Seq(Handler) /\ cur \in Stacks
    BY DEF Typed
  <1>2. Depth \in Nat \ {0} /\ DOMAIN stack[cur] = 1 .. Depth
    BY <1>1 DEF Depth
  <1>3. Front(stack[cur]) = SubSeq(stack[cur], 1, Depth - 1)
    BY DEF Front, Depth
  <1>4. /\ Front(stack[cur]) \in Seq(Handler)
        /\ DOMAIN Front(stack[cur]) = 1 .. Depth - 1
        /\ \A i \in 1 .. Depth - 1 : Front(stack[cur])[i] = stack[cur][i]
    BY <1>1, <1>2, <1>3
  <1>5. stack' \in [Stacks -> Seq(Handler)] /\ stack'[cur] = Front(stack[cur])
    BY <1>1, <1>4 DEF Typed
  <1>6. \A s \in Stacks : s # cur => stack'[s] = stack[s]
    BY DEF Typed
  <1> QED
    BY <1>2, <1>4, <1>5, <1>6

-----------------------------------------------------------------------------
(* Ownership through each of them. *)

LEMMA Unique ==
    ASSUME OneOwner, NEW s \in Stacks, NEW t \in Stacks,
           NEW i \in DOMAIN stack[s], NEW j \in DOMAIN stack[t],
           NEW b \in Owes(stack[s][i]), b \in Owes(stack[t][j])
    PROVE  s = t /\ i = j
  BY DEF OneOwner, OwesAt

LEMMA OwnerPushed ==
    ASSUME Typed, OneOwner, UNCHANGED orphans,
           NEW h \in Handler, stack' = [stack EXCEPT ![cur] = Append(@, h)],
           \A b : b \in isr' <=> b \in isr \/ b \in Owes(h),
           \A b \in Owes(h) : b \notin isr
    PROVE  OneOwner'
  <1> DEFINE k == Len(stack[cur]) + 1
  <1>1. /\ cur \in Stacks
        /\ k \notin DOMAIN stack[cur] /\ k \in DOMAIN stack'[cur]
        /\ Owes(stack'[cur][k]) = Owes(h)
    BY Pushed DEF Typed
  <1>2. \A s \in Stacks : \A i \in DOMAIN stack[s] :
            i \in DOMAIN stack'[s] /\ Owes(stack'[s][i]) = Owes(stack[s][i])
    BY Pushed
  <1>3. \A s \in Stacks : \A i \in DOMAIN stack'[s] :
            i \in DOMAIN stack[s] \/ (s = cur /\ i = k)
    BY Pushed
  <1> HIDE DEF k
  <1>4. \A b \in Owes(h) : \A s \in Stacks : \A i \in DOMAIN stack[s] : b \notin Owes(stack[s][i])
    BY DEF OneOwner, OwesAt
  <1>5. ASSUME NEW b
        PROVE  b \in isr' <=>
                 b \in orphans' \/ \E s \in Stacks : \E i \in DOMAIN stack'[s] : b \in Owes(stack'[s][i])
    BY <1>1, <1>2, <1>3 DEF OneOwner, OwesAt
  <1>6. ASSUME NEW s \in Stacks, NEW t \in Stacks, NEW i \in DOMAIN stack'[s],
               NEW j \in DOMAIN stack'[t], NEW b \in Owes(stack'[s][i]), b \in Owes(stack'[t][j])
        PROVE  s = t /\ i = j
    <2>1. CASE i \in DOMAIN stack[s] /\ j \in DOMAIN stack[t]
      <3>1. b \in Owes(stack[s][i]) /\ b \in Owes(stack[t][j])
        BY <1>2, <1>6, <2>1
      <3> QED
        BY <2>1, <3>1, Unique
    <2>2. CASE i \in DOMAIN stack[s] /\ j \notin DOMAIN stack[t]
      BY <1>1, <1>2, <1>3, <1>4, <1>6, <2>2
    <2>3. CASE i \notin DOMAIN stack[s] /\ j \in DOMAIN stack[t]
      BY <1>1, <1>2, <1>3, <1>4, <1>6, <2>3
    <2>4. CASE i \notin DOMAIN stack[s] /\ j \notin DOMAIN stack[t]
      BY <1>3, <2>4
    <2> QED
      BY <2>1, <2>2, <2>3, <2>4
  <1>7. ASSUME NEW s \in Stacks, NEW i \in DOMAIN stack'[s], NEW b \in Owes(stack'[s][i])
        PROVE  b \notin orphans'
    BY <1>1, <1>2, <1>3, <1>7 DEF OneOwner, OwesAt
  <1> QED
    BY <1>5, <1>6, <1>7 DEF OneOwner, OwesAt

LEMMA OwnerMoved ==
    ASSUME Typed, OneOwner, UNCHANGED orphans, stack[cur] # <<>>,
           NEW pc \in {"eoi", "eoi2", "sched", "exit"}, GoTo(pc),
           NEW gone, isr' = isr \ gone,
           \A b : b \in Owes(stack[cur][Depth]) <=>
                    b \in gone \/ b \in Owes([irq |-> stack[cur][Depth].irq, pc |-> pc]),
           \A b \in gone : b \notin Owes([irq |-> stack[cur][Depth].irq, pc |-> pc])
    PROVE  OneOwner'
  <1> DEFINE was == Owes(stack[cur][Depth])
             is == Owes([irq |-> stack[cur][Depth].irq, pc |-> pc])
  <1>1. /\ cur \in Stacks /\ Depth \in DOMAIN stack[cur] /\ Depth \in DOMAIN stack'[cur]
        /\ Owes(stack'[cur][Depth]) = is
        /\ \A b : b \in was <=> b \in gone \/ b \in is
        /\ \A b \in gone : b \notin is
    BY Moved DEF Typed
  <1>2. \A s \in Stacks : DOMAIN stack'[s] = DOMAIN stack[s]
    BY Moved
  <1>3. \A s \in Stacks : \A i \in DOMAIN stack[s] :
            s # cur \/ i # Depth => Owes(stack'[s][i]) = Owes(stack[s][i])
    BY Moved
  <1>4. \A s \in Stacks : \A i \in DOMAIN stack[s] : \A b \in Owes(stack'[s][i]) :
            b \in Owes(stack[s][i]) /\ b \notin gone
    <2> SUFFICES ASSUME NEW s \in Stacks, NEW i \in DOMAIN stack[s], NEW b \in Owes(stack'[s][i])
                 PROVE  b \in Owes(stack[s][i]) /\ b \notin gone
      OBVIOUS
    <2>1. CASE s = cur /\ i = Depth
      BY <1>1, <2>1
    <2>2. CASE s # cur \/ i # Depth
      BY <1>1, <1>3, <2>2, SMTT(30) DEF OneOwner, OwesAt
    <2> QED
      BY <2>1, <2>2
  <1>5. \A s \in Stacks : \A i \in DOMAIN stack[s] : \A b \in Owes(stack[s][i]) :
            b \in Owes(stack'[s][i]) \/ b \in gone
    BY <1>1, <1>3
  <1>6. \A b \in gone : b \notin orphans
    BY <1>1 DEF OneOwner, OwesAt
  <1> HIDE DEF was, is
  <1>7. ASSUME NEW b
        PROVE  b \in isr' <=>
                 b \in orphans' \/ \E s \in Stacks : \E i \in DOMAIN stack'[s] : b \in Owes(stack'[s][i])
    BY <1>2, <1>4, <1>5, <1>6, SMTT(30) DEF OneOwner, OwesAt
  <1>8. ASSUME NEW s \in Stacks, NEW t \in Stacks, NEW i \in DOMAIN stack'[s],
               NEW j \in DOMAIN stack'[t], NEW b \in Owes(stack'[s][i]), b \in Owes(stack'[t][j])
        PROVE  s = t /\ i = j
    BY <1>2, <1>4, <1>8, ZenonT(60) DEF OneOwner, OwesAt
  <1>9. ASSUME NEW s \in Stacks, NEW i \in DOMAIN stack'[s], NEW b \in Owes(stack'[s][i])
        PROVE  b \notin orphans'
    BY <1>2, <1>4, <1>9 DEF OneOwner, OwesAt
  <1> QED
    BY <1>7, <1>8, <1>9 DEF OneOwner, OwesAt

LEMMA OwnerPopped ==
    ASSUME Typed, OneOwner, UNCHANGED <<orphans, isr>>, stack[cur] # <<>>,
           stack' = [stack EXCEPT ![cur] = Front(@)], Owes(stack[cur][Depth]) = {}
    PROVE  OneOwner'
  <1>1. cur \in Stacks
    BY DEF Typed
  <1>2. \A s \in Stacks : \A i \in DOMAIN stack'[s] :
            i \in DOMAIN stack[s] /\ Owes(stack'[s][i]) = Owes(stack[s][i])
    BY Popped
  <1>3. \A s \in Stacks : \A i \in DOMAIN stack[s] : \A b \in Owes(stack[s][i]) :
            i \in DOMAIN stack'[s]
    BY Popped
  <1>4. ASSUME NEW b
        PROVE  b \in isr' <=>
                 b \in orphans' \/ \E s \in Stacks : \E i \in DOMAIN stack'[s] : b \in Owes(stack'[s][i])
    BY <1>2, <1>3 DEF OneOwner, OwesAt
  <1>5. ASSUME NEW s \in Stacks, NEW t \in Stacks, NEW i \in DOMAIN stack'[s],
               NEW j \in DOMAIN stack'[t], NEW b \in Owes(stack'[s][i]), b \in Owes(stack'[t][j])
        PROVE  s = t /\ i = j
    <2>1. /\ i \in DOMAIN stack[s] /\ b \in Owes(stack[s][i])
          /\ j \in DOMAIN stack[t] /\ b \in Owes(stack[t][j])
      BY <1>2, <1>5
    <2> QED
      BY <2>1, Unique
  <1>6. ASSUME NEW s \in Stacks, NEW i \in DOMAIN stack'[s], NEW b \in Owes(stack'[s][i])
        PROVE  b \notin orphans'
    BY <1>2, <1>6 DEF OneOwner, OwesAt
  <1> QED
    BY <1>4, <1>5, <1>6 DEF OneOwner, OwesAt

LEMMA OwnerKilled ==
    ASSUME Typed, OneOwner, UNCHANGED isr, stack' = [stack EXCEPT ![cur] = <<>>],
           orphans' = orphans \cup OwedOn(cur)
    PROVE  OneOwner'
  <1>1. cur \in Stacks
    BY DEF Typed
  <1>2. \A s \in Stacks : \A i \in DOMAIN stack'[s] :
            s # cur /\ i \in DOMAIN stack[s] /\ Owes(stack'[s][i]) = Owes(stack[s][i])
    BY <1>1 DEF Typed
  <1>3. \A s \in Stacks : \A i \in DOMAIN stack[s] :
            s # cur => i \in DOMAIN stack'[s] /\ Owes(stack'[s][i]) = Owes(stack[s][i])
    BY <1>1 DEF Typed
  <1>4. \A b : b \in OwedOn(cur) <=> \E i \in DOMAIN stack[cur] : b \in Owes(stack[cur][i])
    BY DEF OwedOn
  <1>5. \A b : b \in orphans' <=> b \in orphans \/ b \in OwedOn(cur)
    OBVIOUS
  <1>6. ASSUME NEW b
        PROVE  b \in isr' <=>
                 b \in orphans' \/ \E s \in Stacks : \E i \in DOMAIN stack'[s] : b \in Owes(stack'[s][i])
    BY <1>1, <1>2, <1>3, <1>4, <1>5 DEF OneOwner, OwesAt
  <1>7. ASSUME NEW s \in Stacks, NEW t \in Stacks, NEW i \in DOMAIN stack'[s],
               NEW j \in DOMAIN stack'[t], NEW b \in Owes(stack'[s][i]), b \in Owes(stack'[t][j])
        PROVE  s = t /\ i = j
    <2>1. /\ i \in DOMAIN stack[s] /\ b \in Owes(stack[s][i])
          /\ j \in DOMAIN stack[t] /\ b \in Owes(stack[t][j])
      BY <1>2, <1>7
    <2> QED
      BY <2>1, Unique
  <1>8. ASSUME NEW s \in Stacks, NEW i \in DOMAIN stack'[s], NEW b \in Owes(stack'[s][i])
        PROVE  b \notin orphans'
    BY <1>1, <1>2, <1>4, <1>5, <1>8 DEF OneOwner, OwesAt
  <1> QED
    BY <1>6, <1>7, <1>8 DEF OneOwner, OwesAt

-----------------------------------------------------------------------------
(* The parts of the invariant, action by action. *)

LEMMA LatePushed ==
    ASSUME Typed, LateOnes, NEW h \in Handler,
           stack' = [stack EXCEPT ![cur] = Append(@, h)],
           h.pc = "eoi" => h.irq \in {KEY_IRQ_NUM, RTC_IRQ_NUM},
           h.pc = "eoi2" => h.irq = RTC_IRQ_NUM
    PROVE  LateOnes'
  <1>1. \A s \in Stacks : \A i \in DOMAIN stack'[s] :
            \/ i \in DOMAIN stack[s] /\ stack'[s][i] = stack[s][i]
            \/ stack'[s][i] = h
    BY Pushed
  <1> QED
    BY <1>1 DEF LateOnes

LEMMA LateMoved ==
    ASSUME Typed, LateOnes, stack[cur] # <<>>,
           NEW pc \in {"eoi", "eoi2", "sched", "exit"}, GoTo(pc),
           pc # "eoi", pc = "eoi2" => stack[cur][Depth].irq = RTC_IRQ_NUM
    PROVE  LateOnes'
  <1>1. \A s \in Stacks : \A i \in DOMAIN stack'[s] :
            \/ i \in DOMAIN stack[s] /\ stack'[s][i] = stack[s][i]
            \/ stack'[s][i] = [irq |-> stack[cur][Depth].irq, pc |-> pc]
    BY Moved
  <1> QED
    BY <1>1 DEF LateOnes

(* The step that delivers line l to a handler that goes on at pc.            *)
LEMMA TakeKeeps ==
    ASSUME Inv, NEW l \in Lines, NEW pc \in {"eoi", "sched", "exit"}, Take(l, pc),
           cur' \in Stacks,
           pc = "eoi" => l \in {KEY_IRQ_NUM, RTC_IRQ_NUM} /\ InService(l),
           pc # "eoi" => UNCHANGED isr
    PROVE  /\ Typed' /\ OneOwner' /\ LateOnes' /\ TimerAndMouseKept'
           /\ irr' \subseteq Lines /\ isr' \subseteq Lines \cup {CASCADE}
           /\ UNCHANGED <<unmasked, booted, rested, orphans>>
  <1> DEFINE h == [irq |-> l, pc |-> pc]
  <1>1. /\ h \in Handler /\ h.irq = l /\ h.pc = pc
        /\ Owes(h) = IF pc = "eoi" THEN {l, MasterBit(l)} ELSE {}
    BY WhatIsOwed
  <1>2. /\ stack' = [stack EXCEPT ![cur] = Append(@, h)]
        /\ Deliverable(l) /\ irr' = irr \ {l}
        /\ UNCHANGED <<unmasked, booted, rested, orphans>>
    BY DEF Take
  <1> HIDE DEF h
  <1>3. Typed /\ OneOwner /\ LateOnes /\ Others /\ TimerAndMouseKept
    BY DEF Inv
  <1>4. \A b : b \in isr' <=> b \in isr \/ b \in Owes(h)
    BY <1>1 DEF InService
  <1>5. \A b \in Owes(h) : b \notin isr
    BY <1>1, <1>2, DeliveredIsFree
  <1>6. Typed'
    BY <1>1, <1>2, <1>3, Pushed DEF Typed
  <1>7. OneOwner'
    BY <1>1, <1>2, <1>3, <1>4, <1>5, OwnerPushed
  <1>8. LateOnes'
    BY <1>1, <1>2, <1>3, LatePushed
  <1>9. MasterBit(l) \in Lines \cup {CASCADE}
    BY LineNumbers
  <1>10. irr' \subseteq Lines /\ isr' \subseteq Lines \cup {CASCADE}
    BY <1>2, <1>3, <1>9 DEF Others, InService
  <1> QED
    BY <1>2, <1>3, <1>6, <1>7, <1>8, <1>10 DEF TimerAndMouseKept

(* The step that moves the running handler on, with bits gone from service.  *)
LEMMA MoveKeeps ==
    ASSUME Inv, NEW l \in Lines, NEW from \in {"eoi", "eoi2", "sched", "exit"}, Running(l, from),
           NEW pc \in {"eoi2", "exit"}, GoTo(pc), UNCHANGED orphans, cur' \in Stacks,
           NEW gone, isr' = isr \ gone,
           \A b : b \in Owes([irq |-> l, pc |-> from]) <=>
                    b \in gone \/ b \in Owes([irq |-> l, pc |-> pc]),
           \A b \in gone : b \notin Owes([irq |-> l, pc |-> pc]),
           pc = "eoi2" => l = RTC_IRQ_NUM
    PROVE  Typed' /\ OneOwner' /\ LateOnes' /\ TimerAndMouseKept'
  <1>1. /\ Typed /\ OneOwner /\ LateOnes /\ TimerAndMouseKept
        /\ stack[cur] # <<>> /\ stack[cur][Depth] = [irq |-> l, pc |-> from]
        /\ stack[cur][Depth].irq = l
    BY DEF Inv, Running
  <1>2. Typed'
    BY <1>1, Moved DEF Typed
  <1>3. OneOwner'
    BY <1>1, OwnerMoved
  <1>4. LateOnes'
    BY <1>1, LateMoved
  <1> QED
    BY <1>1, <1>2, <1>3, <1>4 DEF TimerAndMouseKept

LEMMA StillKeeps ==
    ASSUME Inv, UNCHANGED <<isr, cur, stack, orphans>>
    PROVE  Typed' /\ OneOwner' /\ LateOnes' /\ TimerAndMouseKept'
  <1>1. Typed' /\ LateOnes' /\ TimerAndMouseKept'
    BY DEF Inv, Typed, LateOnes, TimerAndMouseKept
  <1>2. OneOwner'
    BY DEF Inv, OneOwner, OwesAt
  <1> QED
    BY <1>1, <1>2

LEMMA NextStack ==
    ASSUME NEW flag \in BOOLEAN, Inv, SwitchTo(flag)
    PROVE  cur' \in Stacks /\ iflag' \in BOOLEAN
  <1>1. cur' \in Stacks
    BY InterruptsAssumption DEF SwitchTo, Inv, Typed, Stacks
  <1>2. iflag' \in BOOLEAN
    BY Zenon DEF SwitchTo
  <1> QED
    BY <1>1, <1>2

LEMMA BootLength == Len(BootOrder) = 10
  BY DEF BootOrder

LEMMA EnablesLines ==
    ASSUME NEW step
    PROVE  Enables(step) \subseteq Lines \cup {CASCADE}
  BY DEF Enables, Lines

LEMMA BootKeeps ==
    ASSUME Inv, Boot
    PROVE  Inv'
  <1>1. booted' \in 0 .. 10
    BY BootLength DEF Inv, Others, Boot
  <1>2. unmasked' \subseteq Lines \cup {CASCADE}
    BY EnablesLines DEF Inv, Others, Boot
  <1>3. Others'
    BY <1>1, <1>2 DEF Inv, Others, Boot
  <1> QED
    BY <1>3, StillKeeps DEF Boot, Inv

LEMMA UserStepKeeps ==
    ASSUME Inv, UserStep
    PROVE  Inv'
  <1>1. Others'
    BY DEF Inv, Others, UserStep
  <1> QED
    BY <1>1, StillKeeps DEF UserStep, Inv

LEMMA RaiseKeeps ==
    ASSUME Inv, NEW l \in Lines, Raise(l)
    PROVE  Inv'
  <1>1. Others'
    BY DEF Inv, Others, Raise
  <1> QED
    BY <1>1, StillKeeps DEF Raise, Inv

(* Every delivery but that of the timer without ALARM leaves the stack in use. *)
LEMMA DeliverKeeps ==
    ASSUME Inv, NEW l \in Lines, Deliver(l)
    PROVE  Inv'
  <1>1. Typed /\ Others /\ cur \in Stacks
    BY DEF Inv, Typed
  <1>2. CASE Key
    <2>1. Take(KEY_IRQ_NUM, "exit") /\ UNCHANGED <<isr, iflag, cur, pending, beat, cnt>>
      BY <1>2 DEF Key
    <2> QED
      BY <1>1, <2>1, TakeKeeps, LineNumbers DEF Inv, Others
  <1>3. CASE KeyBrowse
    <2>1. /\ Take(KEY_IRQ_NUM, "eoi") /\ InService(KEY_IRQ_NUM)
          /\ UNCHANGED <<iflag, cur, pending, beat, cnt>>
      BY <1>3 DEF KeyBrowse
    <2> QED
      BY <1>1, <2>1, TakeKeeps, LineNumbers DEF Inv, Others
  <1>4. ASSUME NEW s \in Stacks, KeyCtrlC(s)
        PROVE  Inv'
    <2>1. /\ Take(KEY_IRQ_NUM, "eoi") /\ InService(KEY_IRQ_NUM)
          /\ pending' = pending \cup {s} /\ UNCHANGED <<iflag, cur, beat, cnt>>
      BY <1>4 DEF KeyCtrlC
    <2> QED
      BY <1>1, <2>1, TakeKeeps, LineNumbers DEF Inv, Others
  <1>5. CASE Rtc
    <2>1. /\ Take(RTC_IRQ_NUM, "eoi") /\ InService(RTC_IRQ_NUM)
          /\ UNCHANGED <<iflag, cur, pending, cnt>>
      BY <1>5 DEF Rtc
    <2>2. beat' \in BOOLEAN
      BY <1>5, Zenon DEF Rtc, PlaysMusic
    <2> QED
      BY <1>1, <2>1, <2>2, TakeKeeps, LineNumbers DEF Inv, Others
  <1>6. CASE Mouse
    <2>1. /\ Take(MOUSE_IRQ, "exit") /\ iflag' = FALSE
          /\ UNCHANGED <<isr, cur, pending, beat, cnt>>
      BY <1>6 DEF Mouse
    <2> QED
      BY <1>1, <2>1, TakeKeeps, LineNumbers DEF Inv, Others
  <1>7. CASE Pit
    <2>1. /\ Take(PIT_IRQ, "exit") /\ SwitchTo(FALSE)
          /\ UNCHANGED <<isr, pending, beat>>
      BY <1>7 DEF Pit
    <2>2. cur' \in Stacks /\ iflag' \in BOOLEAN
      BY <2>1, NextStack
    <2>3. cnt' \in 0 .. ALARM_TICKS - 1
      BY <1>1, <1>7, InterruptsAssumption DEF Pit, Others
    <2> QED
      BY <1>1, <2>1, <2>2, <2>3, TakeKeeps, LineNumbers DEF Inv, Others
  <1>8. CASE PitAlarm
    <2>1. Take(PIT_IRQ, "sched") /\ UNCHANGED <<isr, iflag, cur, pending, beat>>
      BY <1>8 DEF PitAlarm
    <2>2. cnt' \in 0 .. ALARM_TICKS - 1
      BY <1>8, InterruptsAssumption DEF PitAlarm
    <2> QED
      BY <1>1, <2>1, <2>2, TakeKeeps, LineNumbers DEF Inv, Others
  <1> QED
    BY <1>2, <1>3, <1>4, <1>5, <1>6, <1>7, <1>8 DEF Deliver

LEMMA KeyEoiKeeps ==
    ASSUME Inv, KeyEoi
    PROVE  Inv'
  <1>1. /\ Running(KEY_IRQ_NUM, "eoi") /\ GoTo("exit") /\ isr' = isr \ {KEY_IRQ_NUM}
        /\ iflag' = TRUE /\ cur' = cur /\ pending' = pending /\ UNCHANGED Rest
    BY DEF KeyEoi
  <1>2. /\ Owes([irq |-> KEY_IRQ_NUM, pc |-> "eoi"]) = {KEY_IRQ_NUM}
        /\ Owes([irq |-> KEY_IRQ_NUM, pc |-> "exit"]) = {}
    BY WhatIsOwed, LineNumbers
  <1>3. Typed' /\ OneOwner' /\ LateOnes' /\ TimerAndMouseKept'
    BY <1>1, <1>2, MoveKeeps, LineNumbers DEF Rest, Inv, Typed
  <1> QED
    BY <1>1, <1>3 DEF Inv, Others, Rest

LEMMA EoiMasterKeeps ==
    ASSUME Inv, EoiMaster
    PROVE  Inv'
  <1>1. PICK l \in Lines : OnSlave(l) /\ Running(l, "eoi")
    BY DEF EoiMaster
  <1>2. /\ GoTo("eoi2") /\ isr' = isr \ {CASCADE}
        /\ iflag' = iflag /\ cur' = cur /\ pending' = pending /\ UNCHANGED Rest
    BY DEF EoiMaster
  <1>3. l = RTC_IRQ_NUM
    <2>1. stack[cur] # <<>> /\ stack[cur][Depth] = [irq |-> l, pc |-> "eoi"]
      BY <1>1 DEF Running
    <2>2. Depth \in DOMAIN stack[cur] /\ cur \in Stacks
      BY <1>2, <2>1, Moved DEF Inv, Typed
    <2>3. l \in {KEY_IRQ_NUM, RTC_IRQ_NUM}
      BY <2>1, <2>2 DEF Inv, LateOnes
    <2> QED
      BY <1>1, <2>3, LineNumbers
  <1>4. /\ Owes([irq |-> l, pc |-> "eoi"]) = {l, CASCADE}
        /\ Owes([irq |-> l, pc |-> "eoi2"]) = {l}
        /\ CASCADE # l
    BY <1>3, WhatIsOwed, LineNumbers
  <1>5. /\ \A b : b \in Owes([irq |-> l, pc |-> "eoi"]) <=>
                    b \in {CASCADE} \/ b \in Owes([irq |-> l, pc |-> "eoi2"])
        /\ \A b \in {CASCADE} : b \notin Owes([irq |-> l, pc |-> "eoi2"])
    BY <1>4
  <1>6. UNCHANGED orphans /\ cur' \in Stacks
    BY <1>2 DEF Rest, Inv, Typed
  <1>7. Typed' /\ OneOwner' /\ LateOnes' /\ TimerAndMouseKept'
    BY <1>1, <1>2, <1>3, <1>5, <1>6, MoveKeeps
  <1> QED
    BY <1>2, <1>7 DEF Inv, Others, Rest

LEMMA EoiSlaveKeeps ==
    ASSUME Inv, EoiSlave
    PROVE  Inv'
  <1>1. PICK l \in Lines : Running(l, "eoi2") /\ isr' = isr \ {l}
    BY DEF EoiSlave
  <1>2. /\ GoTo("exit") /\ iflag' = iflag /\ cur' = cur /\ pending' = pending
        /\ UNCHANGED Rest
    BY DEF EoiSlave
  <1>3. /\ Owes([irq |-> l, pc |-> "eoi2"]) = {l}
        /\ Owes([irq |-> l, pc |-> "exit"]) = {}
    BY WhatIsOwed
  <1>4. Typed' /\ OneOwner' /\ LateOnes' /\ TimerAndMouseKept'
    BY <1>1, <1>2, <1>3, MoveKeeps DEF Rest, Inv, Typed
  <1> QED
    BY <1>1, <1>2, <1>4 DEF Inv, Others, Rest

LEMMA PitSwitchKeeps ==
    ASSUME Inv, PitSwitch
    PROVE  Inv'
  <1>1. /\ Running(PIT_IRQ, "sched") /\ GoTo("exit") /\ SwitchTo(TRUE)
        /\ isr' = isr /\ pending' = pending /\ UNCHANGED Rest
    BY DEF PitSwitch
  <1>2. /\ Owes([irq |-> PIT_IRQ, pc |-> "sched"]) = {}
        /\ Owes([irq |-> PIT_IRQ, pc |-> "exit"]) = {}
    BY WhatIsOwed, LineNumbers
  <1>3. cur' \in Stacks /\ iflag' \in BOOLEAN
    BY <1>1, NextStack
  <1>4. isr' = isr \ {}
    BY <1>1
  <1>5. Typed' /\ OneOwner' /\ LateOnes' /\ TimerAndMouseKept'
    BY <1>1, <1>2, <1>3, <1>4, MoveKeeps, LineNumbers DEF Rest
  <1> QED
    BY <1>1, <1>3, <1>5 DEF Inv, Others, Rest

LEMMA ReturnKeeps ==
    ASSUME Inv, Return
    PROVE  Inv'
  <1>1. PICK l \in Lines : Running(l, "exit")
    BY DEF Return
  <1>2. /\ stack' = [stack EXCEPT ![cur] = Front(@)] /\ iflag' = TRUE
        /\ isr' = isr /\ cur' = cur /\ pending' = pending /\ UNCHANGED Rest
    BY DEF Return
  <1>3. stack[cur] # <<>> /\ Owes(stack[cur][Depth]) = {}
    BY <1>1, WhatIsOwed DEF Running
  <1>4. Typed /\ OneOwner /\ LateOnes /\ orphans' = orphans
    BY <1>2 DEF Inv, Rest
  <1>5. Typed' /\ OneOwner'
    BY <1>2, <1>3, <1>4, Popped, OwnerPopped DEF Typed
  <1>6. LateOnes'
    <2>1. \A s \in Stacks : \A i \in DOMAIN stack'[s] :
              i \in DOMAIN stack[s] /\ stack'[s][i] = stack[s][i]
      BY <1>2, <1>3, <1>4, Popped
    <2> QED
      BY <1>4, <2>1 DEF LateOnes
  <1> QED
    BY <1>2, <1>5, <1>6 DEF Inv, Others, Rest, TimerAndMouseKept

(* What a kill throws away is what the keyboard or the RTC still owed.       *)
LEMMA KillKeeps ==
    ASSUME Inv, Kill
    PROVE  Inv'
  <1>1. /\ stack' = [stack EXCEPT ![cur] = <<>>] /\ orphans' = orphans \cup OwedOn(cur)
        /\ pending' = pending \ {cur} /\ iflag' = TRUE
        /\ UNCHANGED <<irr, isr, unmasked, cur, booted, beat, cnt, rested>>
    BY DEF Kill
  <1>2. Typed /\ OneOwner /\ LateOnes /\ cur \in Stacks /\ stack[cur] \in Seq(Handler)
    BY DEF Inv, Typed
  <1>3. Typed'
    BY <1>1, <1>2 DEF Typed
  <1>4. OneOwner'
    BY <1>1, <1>2, OwnerKilled
  <1>5. LateOnes'
    <2>1. \A s \in Stacks : \A i \in DOMAIN stack'[s] :
              i \in DOMAIN stack[s] /\ stack'[s][i] = stack[s][i]
      BY <1>1, <1>2 DEF Typed
    <2> QED
      BY <1>2, <2>1 DEF LateOnes
  <1>6. OwedOn(cur) \subseteq {KEY_IRQ_NUM, CASCADE, RTC_IRQ_NUM}
    <2>1. ASSUME NEW i \in DOMAIN stack[cur]
          PROVE  Owes(stack[cur][i]) \subseteq {KEY_IRQ_NUM, CASCADE, RTC_IRQ_NUM}
      <3>1. /\ stack[cur][i].pc = "eoi" => stack[cur][i].irq \in {KEY_IRQ_NUM, RTC_IRQ_NUM}
            /\ stack[cur][i].pc = "eoi2" => stack[cur][i].irq = RTC_IRQ_NUM
        BY <1>2 DEF LateOnes
      <3>2. MasterBit(KEY_IRQ_NUM) = KEY_IRQ_NUM /\ MasterBit(RTC_IRQ_NUM) = CASCADE
        BY LineNumbers
      <3> QED
        BY <3>1, <3>2 DEF Owes
    <2> QED
      BY <2>1 DEF OwedOn
  <1>7. TimerAndMouseKept'
    BY <1>1, <1>6 DEF Inv, TimerAndMouseKept
  <1>8. Others'
    BY <1>1, <1>7, LineNumbers DEF Inv, Others, TimerAndMouseKept
  <1> QED
    BY <1>3, <1>4, <1>5, <1>7, <1>8 DEF Inv

LEMMA InitInv == Init => Inv
  <1> SUFFICES ASSUME Init
               PROVE  Inv
    OBVIOUS
  <1>1. Typed /\ \A s \in Stacks : stack[s] = <<>>
    BY InterruptsAssumption DEF Init, Typed, Stacks
  <1>2. \A s \in Stacks : DOMAIN stack[s] = {}
    BY <1>1
  <1>3. Others
    <2>1. iflag \in BOOLEAN /\ beat \in BOOLEAN
      BY DEF Init
    <2>2. irr = {} /\ isr = {} /\ unmasked = {} /\ pending = {} /\ orphans = {} /\ rested = Lines
      BY DEF Init
    <2>3. booted \in 0 .. 10 /\ cnt \in 0 .. ALARM_TICKS - 1
      BY InterruptsAssumption DEF Init
    <2> QED
      BY <2>1, <2>2, <2>3, Zenon DEF Others
  <1>4. OneOwner /\ LateOnes /\ TimerAndMouseKept
    <2>1. isr = {} /\ orphans = {}
      BY DEF Init
    <2>2. OneOwner
      BY <1>2, <2>1 DEF OneOwner
    <2>3. LateOnes
      BY <1>2 DEF LateOnes
    <2> QED
      BY <2>1, <2>2, <2>3 DEF TimerAndMouseKept
  <1> QED
    BY <1>1, <1>3, <1>4 DEF Inv

LEMMA NextInv == Inv /\ [Next]_vars => Inv'
  <1> SUFFICES ASSUME Inv, [Next]_vars
               PROVE  Inv'
    OBVIOUS
  <1>1. CASE UNCHANGED vars
    BY <1>1, StillKeeps DEF vars, Inv, Others
  <1> QED
    BY <1>1, BootKeeps, UserStepKeeps, RaiseKeeps, DeliverKeeps, KeyEoiKeeps, EoiMasterKeeps,
       EoiSlaveKeeps, PitSwitchKeeps, ReturnKeeps, KillKeeps
    DEF Next, HandlerStep

-----------------------------------------------------------------------------
(* The registers of the controllers agree with the handlers that are still   *)
(* to acknowledge, on every stack (i8259.c; every handler's send_eoi()).     *)
THEOREM InterruptsInv == Spec => []Inv
  BY InitInv, NextInv, PTL DEF Spec

(* A line is in service exactly while one handler on some stack has still to *)
(* acknowledge it, or since a kill threw that handler away (send_eoi() in    *)
(* every handler; scheduler() between them).                                 *)
THEOREM ServiceIsOwned == Spec => []InServiceOwned
  <1>1. Inv => InServiceOwned
    <2> SUFFICES ASSUME Inv
                 PROVE  InServiceOwned
      OBVIOUS
    <2>1. TypeOK
      BY DEF Inv, Typed, Others, TypeOK
    <2>2. isr = orphans \cup UNION {OwedOn(s) : s \in Stacks}
      <3>1. \A b : b \in UNION {OwedOn(s) : s \in Stacks} <=>
                     \E s \in Stacks : \E i \in DOMAIN stack[s] : b \in OwesAt(s, i)
        BY DEF OwedOn, OwesAt
      <3> QED
        BY <3>1 DEF Inv, OneOwner
    <2>3. ASSUME NEW s \in Stacks, NEW t \in Stacks, NEW i \in DOMAIN stack[s],
                 NEW j \in DOMAIN stack[t], Owes(stack[s][i]) \cap Owes(stack[t][j]) # {}
          PROVE  s = t /\ i = j
      BY <2>3, Unique DEF Inv
    <2> QED
      BY <2>1, <2>2, <2>3 DEF InServiceOwned
  <1> QED
    BY <1>1, InterruptsInv, PTL

(* The timer and the mouse are never lost to a kill: their handlers          *)
(* acknowledge first (scheduler.c, mouse.c).                                 *)
THEOREM TimerAndMouseServed == Spec => []TimerAndMouseKept
  <1>1. Inv => TimerAndMouseKept
    BY DEF Inv
  <1> QED
    BY <1>1, InterruptsInv, PTL
=============================================================================

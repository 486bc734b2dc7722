------------------------- MODULE TimeSharingProofs -------------------------
(***************************************************************************)
(* Machine-checked proofs about Sched, for any number of processes, slots   *)
(* and alarm ticks: its invariants, and that it implements Terminals up to  *)
(* the first torn update.                                                   *)
(***************************************************************************)
EXTENDS TimeSharing, TLAPS

-----------------------------------------------------------------------------
(* The invariants of Sched.                                                  *)

(* scheduler_getnext() stays inside the table of slots. *)
LEMMA NextSlotType ==
    ASSUME cur_task \in Slots
    PROVE  NextSlot \in Slots
  BY SchedAssumption DEF Slots, NextSlot

(* The contexts the actions build are contexts. *)
LEMMA ContextType ==
    /\ \A where \in {"boot", "user", "kernel", "return", "trap", "stale", "wild"} :
          At(where) \in Context /\ At(where).at = where
    /\ \A c \in Pids : [at |-> "enter", arg |-> c] \in Context
    /\ \A n \in Slots : [at |-> "switch", arg |-> n] \in Context
  BY DEF At, Context

(* execute() leaves every part of the state it writes well typed. *)
LEMMA SpawnType ==
    ASSUME TypeOK,
           NEW c \in Pids, NEW t \in Slots, NEW saved \in [Pids -> Context],
           Spawn(c, t, stk, saved)
    PROVE  /\ pid_arr' \in [Pids -> {0, 1}]
           /\ parent_pcb' \in [Pids -> Pids \cup {NULL}]
           /\ esp_val' \in [Pids -> Pids \cup {NULL}]
           /\ sch_ebp' \in [Pids -> Context]
           /\ sig_pending' \subseteq Pids
           /\ tasks' \in [Slots -> Pids \cup {NOT_EXIST}]
           /\ page' \in Pids /\ tss_esp0' \in Pids
           /\ stk' \in Pids
           /\ run' \in Context /\ run'.at # "stale"
  <1>1. tasks[t] \in Pids \cup {NULL}
    BY DEF TypeOK, NOT_EXIST, NULL
  <1>2. Stale \in Context
    BY ContextType DEF Stale
  <1>3. run' \in Context /\ run'.at # "stale"
    BY ContextType DEF Spawn
  <1>4. QED
    BY <1>1, <1>2, <1>3 DEF TypeOK, Spawn, Install

(* So does halt(). *)
LEMMA HaltType ==
    ASSUME TypeOK, HaltCurrent
    PROVE  TypeOK'
  <1>1. parent_pcb[stk] \in Pids \cup {NULL}
    BY DEF TypeOK
  <1>2. /\ At("trap") \in Context /\ At("trap").at = "trap"
        /\ At("return") \in Context /\ At("return").at = "return"
    BY ContextType
  <1>3. torn' \in BOOLEAN
    BY DEF TypeOK, HaltCurrent
  <1>4. CASE parent_pcb[stk] = NULL
    BY <1>2, <1>3, <1>4 DEF TypeOK, HaltCurrent, NOT_EXIST, NULL, pcbs, screen
  <1>5. CASE parent_pcb[stk] # NULL
    BY <1>1, <1>2, <1>3, <1>5 DEF TypeOK, HaltCurrent, Install, pcbs, screen
  <1>6. QED
    BY <1>4, <1>5

(* And the part of scheduler() after scheduler_getnext(). *)
LEMMA SwitchType ==
    ASSUME TypeOK,
           NEW k \in Context, NEW n \in Slots, NEW t \in Slots,
           SwitchTo(k, n, t)
    PROVE  /\ pid_arr' \in [Pids -> {0, 1}]
           /\ parent_pcb' \in [Pids -> Pids \cup {NULL}]
           /\ esp_val' \in [Pids -> Pids \cup {NULL}]
           /\ sch_ebp' \in [Pids -> Context]
           /\ sig_pending' \subseteq Pids
           /\ tasks' \in [Slots -> Pids \cup {NOT_EXIST}]
           /\ tss_esp0' \in Pids \cup {NOT_EXIST}
           /\ page' \in Pids \cup {NOT_EXIST}
           /\ vidmap' \in Slots
           /\ stk' \in Pids
           /\ run' \in Context /\ run'.at # "stale"
           /\ tss_esp0' \in Pids \/ run'.at = "trap"
  <1> DEFINE saved == SaveContext(k)
             next == tasks[n]
  <1>1. saved \in [Pids -> Context]
    BY DEF TypeOK, SaveContext
  <1>2. next \in Pids \cup {NOT_EXIST}
    BY DEF TypeOK
  <1>3. /\ At("trap") \in Context /\ At("trap").at = "trap"
        /\ Stale \in Context /\ Stale.at = "stale"
        /\ Wild \in Context /\ Wild.at = "wild"
    BY ContextType DEF Stale, Wild
  <1>4. vidmap' \in Slots
    BY DEF SwitchTo
  <1>5. CASE /\ next # NOT_EXIST
             /\ Install(next)
             /\ stk' = next
             /\ sch_ebp' = [saved EXCEPT ![next] = Stale]
             /\ run' = Resume(saved[next], next)
             /\ UNCHANGED <<pid_arr, pcbs, sig_pending, tasks>>
    <2>1. next \in Pids
      BY <1>2, <1>5
    <2>2. run' \in Context /\ run'.at # "stale"
      BY <2>1, <1>1, <1>3, <1>5 DEF Resume
    <2>3. sch_ebp' \in [Pids -> Context]
      BY <2>1, <1>1, <1>3, <1>5
    <2>4. QED
      BY <2>1, <2>2, <2>3, <1>4, <1>5 DEF TypeOK, Install, pcbs
  <1>6. CASE next = NOT_EXIST /\ \E c \in Pids : Spawn(c, t, stk, saved)
    <2>1. PICK c \in Pids : Spawn(c, t, stk, saved)
      BY <1>6
    <2> HIDE DEF saved
    <2>2. QED
      BY <2>1, <1>1, <1>4, SpawnType
  <1>7. CASE /\ Install(NOT_EXIST)
             /\ sch_ebp' = saved
             /\ sig_pending' = sig_pending \cup {stk}
             /\ run' = At("trap")
             /\ UNCHANGED <<pid_arr, pcbs, tasks, stk>>
    BY <1>1, <1>3, <1>4, <1>7 DEF TypeOK, Install, pcbs
  <1>8. QED
    BY <1>5, <1>6, <1>7 DEF SwitchTo

(* A handler that posts a signal and its linkage. *)
LEMMA LinkageType ==
    ASSUME TypeOK, NEW pend \in SUBSET Pids, Linkage(pend),
           vidmap' \in Slots, curr_term_id' \in Slots
    PROVE  TypeOK'
  <1>1. At("trap") \in Context /\ At("trap").at = "trap" /\ Stale \in Context
    BY ContextType DEF Stale
  <1>2. torn' \in BOOLEAN
    BY DEF TypeOK, Linkage
  <1>3. CASE stk \in sig_pending'
    BY <1>1, <1>2, <1>3 DEF TypeOK, Linkage, pcbs
  <1>4. CASE stk \notin sig_pending'
    BY <1>2, <1>4 DEF TypeOK, Linkage, pcbs
  <1>5. QED
    BY <1>3, <1>4

(* The initial state is well typed. *)
LEMMA TypeInit ==
    Init => TypeOK
  <1>1. Stale \in Context /\ At("boot") \in Context /\ At("boot").at = "boot"
    BY ContextType DEF Stale
  <1>2. 0 \in Pids /\ 0 \in Slots /\ 0 \in 0 .. ALARM_TICKS - 1
    BY SchedAssumption DEF Pids, Slots
  <1>3. QED
    BY <1>1, <1>2 DEF Init, TypeOK, NULL, NOT_EXIST

(* Every step keeps the state well typed. *)
LEMMA TypeStep ==
    TypeOK /\ [Next]_vars => TypeOK'
  <1> SUFFICES ASSUME TypeOK, [Next]_vars
               PROVE  TypeOK'
    OBVIOUS
  <1> USE DEF pcbs, screen
  <1>0. \A where \in {"boot", "user", "kernel", "return", "trap", "stale", "wild"} :
           At(where) \in Context /\ At(where).at = where
    BY ContextType
  <1>1. CASE Syscall
    BY <1>0, <1>1 DEF TypeOK, Syscall
  <1>2. CASE SyscallReturn
    BY <1>0, <1>2 DEF TypeOK, SyscallReturn
  <1>3. CASE Execute
    <2>1. PICK c \in Pids : Spawn(c, cur_task, stk, sch_ebp)
      BY <1>3 DEF Execute
    <2>2. sch_ebp \in [Pids -> Context] /\ cur_task \in Slots
      BY DEF TypeOK
    <2>3. UNCHANGED <<cur_task, cnt, screen, under, torn>>
      BY <1>3 DEF Execute
    <2>4. QED
      BY <2>1, <2>2, <2>3, SpawnType DEF TypeOK
  <1>4. CASE EnterUser
    BY <1>0, <1>4 DEF TypeOK, EnterUser
  <1>5. CASE Halt
    BY <1>5, HaltType DEF Halt
  <1>6. CASE HaltReturn
    <2>1. run' \in Context /\ run'.at # "stale" /\ stk' \in Pids
      BY <1>0, <1>6 DEF TypeOK, HaltReturn, ReturnStack, Wild
    <2>2. esp_val' \in [Pids -> Pids \cup {NULL}] /\ parent_pcb' \in [Pids -> Pids \cup {NULL}]
      BY <1>6 DEF TypeOK, HaltReturn
    <2>3. tss_esp0' \in Pids
      BY <1>6 DEF TypeOK, HaltReturn
    <2>4. QED
      BY <2>1, <2>2, <2>3, <1>6 DEF TypeOK, HaltReturn
  <1>7. CASE Pit
    <2>1. NextSlot \in Slots /\ run \in Context /\ torn' \in BOOLEAN
      BY <1>7, NextSlotType DEF TypeOK, Pit
    <2>2. cnt' \in 0 .. ALARM_TICKS - 1
      BY <1>7, SchedAssumption DEF TypeOK, Pit
    <2>3. QED
      BY <2>1, <2>2, <1>7, SwitchType DEF TypeOK, Pit
  <1>8. CASE PitAlarm
    <2>1. NextSlot \in Slots
      BY NextSlotType DEF TypeOK
    <2>2. run' \in Context /\ run'.at = "switch" /\ torn' \in BOOLEAN
      BY <1>8, <2>1, ContextType DEF PitAlarm, TypeOK
    <2>3. cnt' \in 0 .. ALARM_TICKS - 1
      BY <1>8, SchedAssumption DEF PitAlarm
    <2>4. QED
      BY <2>1, <2>2, <2>3, <1>8 DEF TypeOK, PitAlarm
  <1>9. CASE AlarmSwitch
    <2>1. run.arg \in Slots
      BY <1>9 DEF TypeOK, AlarmSwitch, Context
    <2>2. under[stk] \in Context /\ under' \in [Pids -> Context]
      BY <1>0, <1>9 DEF TypeOK, AlarmSwitch, Stale
    <2>3. cur_task \in Slots
      BY DEF TypeOK
    <2>4. SwitchTo(under[stk], run.arg, cur_task)
          /\ UNCHANGED <<cur_task, cnt, curr_term_id, torn>>
      BY <1>9 DEF AlarmSwitch
    <2>5. QED
      BY <2>1, <2>2, <2>3, <2>4, SwitchType DEF TypeOK
  <1>10. CASE Exception
    <2>1. {stk} \in SUBSET Pids /\ Linkage({stk}) /\ vidmap' \in Slots /\ curr_term_id' \in Slots
      BY <1>10 DEF TypeOK, Exception
    <2>2. QED
      BY <2>1, LinkageType
  <1>11. CASE Interrupt
    <2>1. {} \in SUBSET Pids /\ Linkage({}) /\ vidmap' \in Slots /\ curr_term_id' \in Slots
      BY <1>11 DEF TypeOK, Interrupt
    <2>2. QED
      BY <2>1, LinkageType
  <1>12. CASE HandleSignal
    BY <1>12, HaltType DEF HandleSignal
  <1>13. CASE CtrlC
    <2>1. /\ {InterruptTarget} \in SUBSET Pids /\ Linkage({InterruptTarget})
          /\ vidmap' \in Slots /\ curr_term_id' \in Slots
      BY <1>13 DEF TypeOK, CtrlC, InterruptTarget
    <2>2. QED
      BY <2>1, LinkageType
  <1>14. ASSUME NEW t \in Slots, TerminalSwitch(t) PROVE TypeOK'
    <2>1. {} \in SUBSET Pids /\ Linkage({}) /\ vidmap' \in Slots /\ curr_term_id' \in Slots
      BY <1>14 DEF TerminalSwitch
    <2>2. QED
      BY <2>1, LinkageType
  <1>15. CASE KeyEcho
    <2>1. {} \in SUBSET Pids /\ Linkage({}) /\ vidmap' \in Slots /\ curr_term_id' \in Slots
      BY <1>15 DEF KeyEcho, TypeOK
    <2>2. QED
      BY <2>1, LinkageType
  <1>16. CASE UNCHANGED vars
    BY <1>16 DEF TypeOK, vars
  <1>17. QED
    BY <1>1, <1>2, <1>3, <1>4, <1>5, <1>6, <1>7, <1>8, <1>9, <1>10, <1>11,
       <1>12, <1>13, <1>14, <1>15, <1>16 DEF Next

(* Whatever the timer, the keyboard and the programs do, torn updates        *)
(* included, every table index and stack the scheduler, execute() and halt() *)
(* use is in range, and a trap always finds a kernel stack in tss.esp0.      *)
THEOREM TypeCorrect == Spec => []TypeOK
  <1>1. QED
    BY TypeInit, TypeStep, PTL DEF Spec

-----------------------------------------------------------------------------
(* The inductive invariant: up to the first torn update, each property needs *)
(* the others.                                                               *)
SchedInv ==
    /\ TypeOK
    /\ ProcessForest
    /\ RunningConsistent
    /\ ReadyContexts
    /\ NoStaleJump
    /\ BetweenSwitches
    /\ VideoFollows

(* A step cannot undo a torn update. *)
LEMMA TornStays ==
    ASSUME TypeOK, [Next]_vars, ~torn'
    PROVE  ~torn
  <1>1. CASE UNCHANGED vars
    BY <1>1 DEF vars
  <1>2. CASE Next
    BY <1>2 DEF Next, Syscall, SyscallReturn, Execute, EnterUser, Halt,
       HaltReturn, Pit, PitAlarm, AlarmSwitch, Exception, Interrupt,
       HandleSignal, CtrlC, TerminalSwitch, KeyEcho, Linkage,
       HaltCurrent, vars
  <1>3. QED
    BY <1>1, <1>2

(* When the bookkeeping is not half done, the process in use is the active   *)
(* one, its context can be saved, and if it is dead its slot is vacant.      *)
LEMMA Steady ==
    ASSUME SchedInv, ~torn, ~MidUpdate
    PROVE  /\ Active = stk
           /\ Front(stk) => Resumable(run, stk)
           /\ Alive(stk) => Front(stk)
           /\ ~Alive(stk) => parent_pcb[stk] = NULL /\ tasks[cur_task] = NOT_EXIST
  <1> USE DEF SchedInv
  <1>1. run.at \in {"boot", "user", "kernel", "enter", "trap"}
    BY DEF TypeOK, Context, MidUpdate, NoStaleJump
  <1>2. run.at = "enter" => run.arg = stk
    BY DEF MidUpdate
  <1>3. stk \in Pids /\ stk # NOT_EXIST /\ cur_task \in Slots
    BY DEF TypeOK, Pids, NOT_EXIST
  <1>4. Active = stk
    BY <1>1, <1>2 DEF Active
  <1>5. \A s \in Slots : tasks[s] # NOT_EXIST => Alive(tasks[s])
    BY DEF ProcessForest
  <1>6. CASE run.at = "boot"
    <2>1. \A p \in Pids : ~Alive(p)
      BY <1>6 DEF BetweenSwitches
    <2>2. ~Front(stk)
      BY <2>1, <1>3, <1>5 DEF Front
    <2>3. parent_pcb[stk] = NULL
      BY <1>6 DEF BetweenSwitches
    <2>4. tasks[cur_task] = NOT_EXIST
      BY <2>1, <1>3, <1>5 DEF TypeOK
    <2>5. QED
      BY <1>3, <1>4, <2>1, <2>2, <2>3, <2>4
  <1>7. CASE run.at \in {"user", "kernel", "enter"}
    <2>1. tasks[cur_task] = stk
      BY <1>7, <1>2 DEF RunningConsistent
    <2>2. Alive(stk)
      BY <2>1, <1>3, <1>5
    <2>3. QED
      BY <1>2, <1>3, <1>4, <1>7, <2>1, <2>2 DEF Resumable, Front
  <1>8. CASE run.at = "trap"
    BY <1>4, <1>8 DEF BetweenSwitches, Resumable
  <1>9. QED
    BY <1>1, <1>6, <1>7, <1>8

(* What is saved for the process in use makes every process that the         *)
(* scheduler can pick resumable.                                             *)
LEMMA SavedReady ==
    ASSUME TypeOK, ReadyContexts, ~torn, Active = stk, NEW k \in Context,
           Front(stk) => Resumable(k, stk)
    PROVE  \A p \in Pids : Front(p) => Resumable(SaveContext(k)[p], p)
  <1> SUFFICES ASSUME NEW p \in Pids, Front(p)
               PROVE  Resumable(SaveContext(k)[p], p)
    OBVIOUS
  <1>1. CASE p = stk
    BY <1>1 DEF TypeOK, SaveContext
  <1>2. CASE p # stk
    <2>1. SaveContext(k)[p] = sch_ebp[p]
      BY <1>2 DEF TypeOK, SaveContext
    <2>2. QED
      BY <1>2, <2>1 DEF ReadyContexts
  <1>3. QED
    BY <1>1, <1>2

(* scheduler(), from a state in which every process it can pick is resumable *)
(* and the process in use is in a slot or, if it is dead, has no parent.     *)
LEMMA SwitchInv ==
    ASSUME SchedInv, TypeOK', ~torn, NEW k \in Context, NEW n \in Slots,
           SwitchTo(k, n, n), cur_task' = n,
           \A p \in Pids : Front(p) => Resumable(SaveContext(k)[p], p),
           Alive(stk) => Front(stk),
           ~Alive(stk) => parent_pcb[stk] = NULL
    PROVE  SchedInv'
  <1> DEFINE saved == SaveContext(k)
             next == tasks[n]
  <1> USE DEF SchedInv
  <1>1. saved \in [Pids -> Context]
    BY DEF TypeOK, SaveContext
  <1>2. NOT_EXIST \notin Pids /\ NULL \notin Pids /\ NULL = NOT_EXIST
    BY DEF Pids, NOT_EXIST, NULL
  <1>3. vidmap' = n
    BY DEF SwitchTo
  <1>4. VideoFollows'
    BY <1>3 DEF VideoFollows
  <1>5. CASE /\ next # NOT_EXIST
             /\ Install(next)
             /\ stk' = next
             /\ sch_ebp' = [saved EXCEPT ![next] = Stale]
             /\ run' = Resume(saved[next], next)
             /\ UNCHANGED <<pid_arr, pcbs, sig_pending, tasks>>
    <2>1. next \in Pids /\ Front(next) /\ Alive(next)
      BY <1>5 DEF TypeOK, Front, ProcessForest
    <2>2. Resumable(saved[next], next)
      BY <2>1
    <2>3. run' = saved[next] \/ run' = At("trap")
      BY <1>5, <2>2 DEF Resume, Resumable
    <2>4. At("trap").at = "trap"
      BY DEF At
    <2>5. Resumable(run', next)
      BY <2>2, <2>3, <2>4 DEF Resumable
    <2>6. ProcessForest'
      BY <1>5 DEF ProcessForest, Alive, Front, Waiting, pcbs
    <2>7. RunningConsistent'
      BY <1>5, <2>5 DEF RunningConsistent, Resumable, Install
    <2>8. ReadyContexts'
      <3>1. Active' = next
        BY <1>5, <2>5 DEF Active, Resumable
      <3>2. ASSUME NEW p \in Pids, p # next, Front(p)
            PROVE  sch_ebp'[p] = saved[p]
        BY <1>1, <1>5, <3>2
      <3>3. QED
        BY <1>5, <3>1, <3>2 DEF ReadyContexts, Front, Resumable
    <2>9. NoStaleJump' /\ BetweenSwitches'
      BY <1>5, <2>1, <2>5 DEF NoStaleJump, BetweenSwitches, Resumable, Alive, Front
    <2>10. QED
      BY <1>4, <2>6, <2>7, <2>8, <2>9
  <1>6. CASE next = NOT_EXIST /\ \E c \in Pids : Spawn(c, n, stk, saved)
    <2> PICK c \in Pids : Spawn(c, n, stk, saved)
      BY <1>6
    <2>1. /\ ~Alive(c) /\ pid_arr' = [pid_arr EXCEPT ![c] = 1]
          /\ parent_pcb' = [parent_pcb EXCEPT ![c] = NULL]
          /\ esp_val' = [esp_val EXCEPT ![c] = NULL]
          /\ tasks' = [tasks EXCEPT ![n] = c]
          /\ sch_ebp' = [saved EXCEPT ![c] = Stale]
          /\ page' = c /\ tss_esp0' = c
          /\ run' = [at |-> "enter", arg |-> c]
      BY <1>6 DEF Spawn, FirstFree, Install, Alive
    <2>2. Alive(c)' /\ \A p \in Pids : p # c => (Alive(p)' <=> Alive(p))
      BY <2>1 DEF Alive, TypeOK
    <2>3. tasks'[n] = c /\ \A s \in Slots : s # n => tasks'[s] = tasks[s]
      BY <2>1 DEF TypeOK
    <2>4. \A s \in Slots : tasks[s] # c
      BY <1>2, <2>1 DEF ProcessForest
    <2>5. \A p \in Pids : p # c => (Front(p)' <=> Front(p))
      BY <1>2, <1>6, <2>3 DEF Front
    <2>6. /\ parent_pcb'[c] = NULL
          /\ \A p \in Pids : p # c => parent_pcb'[p] = parent_pcb[p] /\ esp_val'[p] = esp_val[p]
      BY <2>1 DEF TypeOK
    <2>7. ProcessForest'
      <3>1. \A s \in Slots : tasks'[s] # NOT_EXIST => Alive(tasks[s])'
        BY <2>2, <2>3, <2>4 DEF ProcessForest, TypeOK
      <3>2. \A s, t \in Slots : s # t /\ tasks'[s] # NOT_EXIST => tasks'[s] # tasks'[t]
        BY <2>3, <2>4 DEF ProcessForest
      <3>3. ASSUME NEW d \in Pids, Alive(d)', parent_pcb'[d] # NULL
            PROVE  /\ Alive(parent_pcb[d])'
                   /\ esp_val'[d] = parent_pcb'[d]
                   /\ ~Front(parent_pcb[d])'
                   /\ \A e \in Pids : Alive(e)' /\ parent_pcb'[e] = parent_pcb'[d] => e = d
        <4>1. d # c /\ Alive(d) /\ parent_pcb[d] # NULL
          BY <2>2, <2>6, <3>3
        <4>2. /\ parent_pcb[d] \in Pids /\ Alive(parent_pcb[d]) /\ ~Front(parent_pcb[d])
              /\ parent_pcb[d] # c
          BY <2>1, <4>1 DEF ProcessForest, TypeOK
        <4>3. QED
          BY <2>2, <2>5, <2>6, <4>1, <4>2 DEF ProcessForest
      <3>4. ASSUME NEW p \in Pids, Alive(p)'
            PROVE  Front(p)' \/ Waiting(p)'
        <4>1. CASE p = c
          BY <2>3, <4>1 DEF Front
        <4>2. CASE p # c /\ Front(p)
          BY <2>5, <4>2
        <4>3. CASE p # c /\ Waiting(p)
          BY <2>1, <2>2, <2>6, <4>3 DEF Waiting
        <4>4. QED
          BY <2>2, <3>4, <4>1, <4>2, <4>3 DEF ProcessForest
      <3>5. QED
        BY <3>1, <3>2, <3>3, <3>4 DEF ProcessForest
    <2>8. RunningConsistent'
      BY <2>1, <2>3 DEF RunningConsistent
    <2>9. ReadyContexts'
      <3>1. Active' = c
        BY <2>1 DEF Active
      <3>2. \A p \in Pids : p # c => sch_ebp'[p] = saved[p]
        BY <1>1, <2>1
      <3>3. QED
        BY <2>5, <3>1, <3>2 DEF ReadyContexts, Resumable
    <2>10. NoStaleJump' /\ BetweenSwitches'
      BY <2>1 DEF NoStaleJump, BetweenSwitches
    <2>11. QED
      BY <1>4, <2>7, <2>8, <2>9, <2>10
  <1>7. CASE /\ next = NOT_EXIST
             /\ sch_ebp' = saved
             /\ run' = At("trap")
             /\ UNCHANGED <<pid_arr, pcbs, tasks, stk>>
    <2>1. run'.at = "trap"
      BY <1>7 DEF At
    <2>2. ProcessForest'
      BY <1>7 DEF ProcessForest, Alive, Front, Waiting, pcbs
    <2>3. ReadyContexts'
      BY <1>7, <2>1 DEF ReadyContexts, Front, Active, Resumable
    <2>4. RunningConsistent' /\ NoStaleJump'
      BY <2>1 DEF RunningConsistent, NoStaleJump
    <2>5. BetweenSwitches'
      BY <1>7, <2>1 DEF BetweenSwitches, Alive, Front, pcbs
    <2>6. QED
      BY <1>4, <2>2, <2>3, <2>4, <2>5
  <1>8. QED
    BY <1>5, <1>6, <1>7 DEF SwitchTo

(* halt(), charged to the right slot, of the active process; or, in a        *)
(* handler on the stack of a base shell that has halted, once more.          *)
LEMMA HaltInv ==
    ASSUME SchedInv, TypeOK', ~torn, ~torn', run.at \in {"kernel", "trap"}, HaltCurrent
    PROVE  SchedInv'
  <1> DEFINE parent == parent_pcb[stk]
  <1> USE DEF SchedInv
  <1>1. /\ NOT_EXIST \notin Pids /\ NULL \notin Pids /\ NULL = NOT_EXIST
        /\ stk \in Pids /\ cur_task \in Slots /\ parent \in Pids \cup {NULL}
    BY DEF TypeOK, Pids, NOT_EXIST, NULL
  <1>2. /\ At("trap").at = "trap" /\ At("return").at = "return"
    BY DEF At
  <1>3. Active = stk
    BY DEF Active
  <1>4. ~Alive(stk)' /\ \A p \in Pids : p # stk => (Alive(p)' <=> Alive(p))
    BY <1>1 DEF HaltCurrent, Alive, TypeOK
  <1>5. /\ parent_pcb' = parent_pcb /\ esp_val' = esp_val /\ sch_ebp' = sch_ebp
        /\ cur_task' = cur_task /\ vidmap' = vidmap /\ curr_term_id' = curr_term_id
        /\ stk' = stk /\ run' \in {At("trap"), At("return")}
    BY DEF HaltCurrent, pcbs, screen
  <1>6. VideoFollows'
    BY <1>5 DEF VideoFollows
  <1>7. CASE ~Alive(stk)
    <2>1. parent = NULL /\ tasks[cur_task] = NOT_EXIST /\ run.at = "trap"
      BY <1>1, <1>7 DEF BetweenSwitches, RunningConsistent, ProcessForest
    <2>2. tasks' = tasks /\ run' = At("trap")
      BY <1>1, <2>1 DEF HaltCurrent, TypeOK
    <2>3. pid_arr' = pid_arr
      BY <1>7, <1>1 DEF HaltCurrent, Alive, TypeOK
    <2>4. ProcessForest'
      BY <1>5, <2>2, <2>3 DEF ProcessForest, Alive, Front, Waiting
    <2>5. ReadyContexts'
      BY <1>2, <1>3, <1>5, <2>2 DEF ReadyContexts, Front, Active, Resumable
    <2>6. RunningConsistent' /\ NoStaleJump' /\ BetweenSwitches'
      BY <1>2, <1>4, <1>5, <2>1, <2>2 DEF RunningConsistent, NoStaleJump, BetweenSwitches
    <2>7. QED
      BY <1>6, <2>4, <2>5, <2>6
  <1>8. CASE Alive(stk)
    <2>1. tasks[cur_task] = stk
      BY <1>8 DEF HaltCurrent, Alive
    <2>2. tasks' = [tasks EXCEPT ![cur_task] = parent]
      BY <1>1 DEF HaltCurrent
    <2>3. tasks'[cur_task] = parent /\ \A s \in Slots : s # cur_task => tasks'[s] = tasks[s]
      BY <1>1, <2>2 DEF TypeOK
    <2>4. Front(stk) /\ \A s \in Slots : tasks[s] = stk => s = cur_task
      BY <1>1, <2>1 DEF ProcessForest, Front
    <2>5. parent # NULL => parent \in Pids /\ parent # stk /\ Alive(parent) /\ ~Front(parent)
      BY <1>1, <1>8, <2>4 DEF ProcessForest
    <2>6. \A p \in Pids : p # stk /\ p # parent => (Front(p)' <=> Front(p))
      BY <1>1, <2>1, <2>3 DEF Front
    <2>7. ~Front(stk)'
      BY <1>1, <1>5, <2>3, <2>4, <2>5 DEF Front
    <2>8. ProcessForest'
      <3>1. \A s \in Slots : tasks'[s] # NOT_EXIST => Alive(tasks[s])'
        BY <1>1, <1>4, <2>3, <2>4, <2>5 DEF ProcessForest, TypeOK
      <3>2. \A s, t \in Slots : s # t /\ tasks'[s] # NOT_EXIST => tasks'[s] # tasks'[t]
        BY <1>1, <2>3, <2>5 DEF ProcessForest, Front
      <3>3. ASSUME NEW d \in Pids, Alive(d)', parent_pcb'[d] # NULL
            PROVE  /\ Alive(parent_pcb[d])'
                   /\ esp_val'[d] = parent_pcb'[d]
                   /\ ~Front(parent_pcb[d])'
                   /\ \A e \in Pids : Alive(e)' /\ parent_pcb'[e] = parent_pcb'[d] => e = d
        <4>1. d # stk /\ Alive(d) /\ parent_pcb[d] # NULL
          BY <1>4, <1>5, <3>3
        <4>2. parent_pcb[d] \in Pids /\ Alive(parent_pcb[d]) /\ ~Front(parent_pcb[d])
          BY <1>1, <4>1 DEF ProcessForest, TypeOK
        <4>3. parent_pcb[d] # stk
          BY <2>4, <4>2
        <4>4. parent_pcb[d] # parent
          BY <1>1, <1>8, <4>1 DEF ProcessForest
        <4>5. QED
          BY <1>4, <1>5, <2>6, <4>1, <4>2, <4>3, <4>4 DEF ProcessForest
      <3>4. ASSUME NEW p \in Pids, Alive(p)'
            PROVE  Front(p)' \/ Waiting(p)'
        <4>1. p # stk /\ Alive(p)
          BY <1>4, <1>5, <3>4
        <4>2. CASE p = parent
          BY <1>1, <2>3, <4>2 DEF Front
        <4>3. CASE p # parent /\ Front(p)
          BY <2>6, <4>1, <4>3
        <4>4. CASE p # parent /\ Waiting(p)
          <5>1. PICK c \in Pids : Alive(c) /\ parent_pcb[c] = p
            BY <4>4 DEF Waiting
          <5>2. c # stk
            BY <4>4, <5>1
          <5>3. QED
            BY <1>4, <1>5, <5>1, <5>2 DEF Waiting
        <4>5. QED
          BY <4>1, <4>2, <4>3, <4>4 DEF ProcessForest
      <3>5. QED
        BY <3>1, <3>2, <3>3, <3>4 DEF ProcessForest
    <2>9. CASE parent = NULL
      <3>1. run' = At("trap")
        BY <2>9 DEF HaltCurrent
      <3>2. ReadyContexts'
        BY <1>1, <1>2, <1>3, <1>5, <2>6, <2>7, <2>9, <3>1
           DEF ReadyContexts, Active, Resumable
      <3>3. RunningConsistent' /\ NoStaleJump' /\ BetweenSwitches'
        BY <1>1, <1>2, <1>4, <1>5, <2>3, <2>9, <3>1
           DEF RunningConsistent, NoStaleJump, BetweenSwitches
      <3>4. QED
        BY <1>6, <2>8, <3>2, <3>3
    <2>10. CASE parent # NULL
      <3>1. run' = At("return") /\ page' = parent /\ tss_esp0' = parent
        BY <2>10 DEF HaltCurrent, Install
      <3>2. Active' = parent
        BY <1>2, <1>5, <3>1 DEF Active
      <3>3. ReadyContexts'
        BY <1>3, <1>5, <2>6, <2>7, <3>2 DEF ReadyContexts, Resumable
      <3>4. RunningConsistent'
        <4>1. esp_val[stk] = parent
          BY <1>1, <1>8, <2>10 DEF ProcessForest
        <4>2. QED
          BY <1>2, <1>4, <1>5, <2>3, <3>1, <4>1 DEF RunningConsistent
      <3>5. NoStaleJump' /\ BetweenSwitches'
        BY <1>2, <1>5, <2>10, <3>1 DEF NoStaleJump, BetweenSwitches
      <3>6. QED
        BY <1>6, <2>8, <3>3, <3>4, <3>5
    <2>11. QED
      BY <2>9, <2>10
  <1>9. QED
    BY <1>7, <1>8

(* An interrupt handler and its linkage. *)
LEMMA LinkageInv ==
    ASSUME SchedInv, TypeOK', VideoFollows', ~torn, ~torn',
           NEW pend, Linkage(pend)
    PROVE  SchedInv'
  <1> USE DEF SchedInv
  <1>1. /\ pid_arr' = pid_arr /\ parent_pcb' = parent_pcb /\ esp_val' = esp_val
        /\ sch_ebp' = sch_ebp /\ tasks' = tasks /\ cur_task' = cur_task
        /\ tss_esp0' = tss_esp0 /\ page' = page /\ stk' = stk
    BY DEF Linkage, pcbs
  <1>2. ProcessForest'
    BY <1>1 DEF ProcessForest, Alive, Front, Waiting
  <1>3. CASE stk \in sig_pending'
    <2>1. run' = At("trap") /\ run'.at = "trap"
      BY <1>3 DEF Linkage, At
    <2>2. ~MidUpdate
      BY <1>3 DEF Linkage
    <2>3. /\ Active = stk
          /\ Alive(stk) => Front(stk)
          /\ ~Alive(stk) => parent_pcb[stk] = NULL /\ tasks[cur_task] = NOT_EXIST
      BY <2>2, Steady
    <2>4. Active' = stk
      BY <1>1, <2>1 DEF Active
    <2>5. ReadyContexts'
      BY <1>1, <2>3, <2>4 DEF ReadyContexts, Front, Resumable
    <2>6. RunningConsistent' /\ NoStaleJump' /\ BetweenSwitches'
      BY <1>1, <2>1, <2>3 DEF RunningConsistent, NoStaleJump, BetweenSwitches, Alive, Front
    <2>7. QED
      BY <1>2, <2>5, <2>6
  <1>4. CASE stk \notin sig_pending'
    <2>1. run' = run /\ under' = under
      BY <1>4 DEF Linkage
    <2>2. ReadyContexts'
      BY <1>1, <2>1 DEF ReadyContexts, Front, Active, Resumable
    <2>3. RunningConsistent'
      BY <1>1, <2>1 DEF RunningConsistent, Alive
    <2>4. NoStaleJump' /\ BetweenSwitches'
      BY <1>1, <2>1 DEF NoStaleJump, BetweenSwitches, Alive, Front, Resumable
    <2>5. QED
      BY <1>2, <2>2, <2>3, <2>4
  <1>5. QED
    BY <1>3, <1>4

(* execute(), called by a program. *)
LEMMA ExecuteInv ==
    ASSUME SchedInv, TypeOK', ~torn, Execute
    PROVE  SchedInv'
  <1> USE DEF SchedInv
  <1> PICK c \in Pids : Spawn(c, cur_task, stk, sch_ebp)
    BY DEF Execute
  <1>1. /\ NOT_EXIST \notin Pids /\ NULL \notin Pids /\ NULL = NOT_EXIST
        /\ stk \in Pids /\ cur_task \in Slots
    BY DEF TypeOK, Pids, NOT_EXIST, NULL
  <1>2. run.at = "kernel" /\ tasks[cur_task] = stk /\ Active = stk
    BY DEF Execute, RunningConsistent, Active
  <1>3. Alive(stk) /\ Front(stk) /\ \A s \in Slots : tasks[s] = stk => s = cur_task
    BY <1>1, <1>2 DEF ProcessForest, Front
  <1>4. /\ ~Alive(c) /\ pid_arr' = [pid_arr EXCEPT ![c] = 1]
        /\ parent_pcb' = [parent_pcb EXCEPT ![c] = stk]
        /\ esp_val' = [esp_val EXCEPT ![c] = stk]
        /\ tasks' = [tasks EXCEPT ![cur_task] = c]
        /\ sch_ebp' = [sch_ebp EXCEPT ![c] = Stale]
        /\ page' = c /\ tss_esp0' = c
        /\ run' = [at |-> "enter", arg |-> c]
        /\ cur_task' = cur_task /\ vidmap' = vidmap /\ curr_term_id' = curr_term_id
    <2>1. tasks[cur_task] # NOT_EXIST
      BY <1>1, <1>2
    <2>2. ~Alive(c)
      BY DEF Spawn, FirstFree, Alive
    <2>3. QED
      BY <1>2, <2>1, <2>2 DEF Execute, Spawn, Install, screen
  <1>5. c # stk
    BY <1>3, <1>4
  <1>6. Alive(c)' /\ \A p \in Pids : p # c => (Alive(p)' <=> Alive(p))
    BY <1>4 DEF Alive, TypeOK
  <1>7. tasks'[cur_task] = c /\ \A s \in Slots : s # cur_task => tasks'[s] = tasks[s]
    BY <1>1, <1>4 DEF TypeOK
  <1>8. \A s \in Slots : tasks[s] # c
    BY <1>1, <1>4 DEF ProcessForest
  <1>9. \A s \in Slots : tasks'[s] # stk
    BY <1>3, <1>5, <1>7
  <1>10. \A p \in Pids : p # c /\ p # stk => (Front(p)' <=> Front(p))
    BY <1>1, <1>2, <1>7 DEF Front
  <1>11. /\ parent_pcb'[c] = stk /\ esp_val'[c] = stk
         /\ \A p \in Pids : p # c => parent_pcb'[p] = parent_pcb[p] /\ esp_val'[p] = esp_val[p]
    BY <1>4 DEF TypeOK
  <1>12. ProcessForest'
    <2>1. \A s \in Slots : tasks'[s] # NOT_EXIST => Alive(tasks[s])'
      BY <1>6, <1>7, <1>8 DEF ProcessForest, TypeOK
    <2>2. \A s, t \in Slots : s # t /\ tasks'[s] # NOT_EXIST => tasks'[s] # tasks'[t]
      BY <1>7, <1>8 DEF ProcessForest
    <2>3. ASSUME NEW d \in Pids, Alive(d)', parent_pcb'[d] # NULL
          PROVE  /\ Alive(parent_pcb[d])'
                 /\ esp_val'[d] = parent_pcb'[d]
                 /\ ~Front(parent_pcb[d])'
                 /\ \A e \in Pids : Alive(e)' /\ parent_pcb'[e] = parent_pcb'[d] => e = d
      <3>1. CASE d = c
        <4>1. \A e \in Pids : Alive(e) => parent_pcb[e] # stk
          BY <1>1, <1>3 DEF ProcessForest
        <4>2. Alive(parent_pcb[d])' /\ ~Front(parent_pcb[d])'
          BY <1>1, <1>3, <1>5, <1>6, <1>9, <1>11, <3>1 DEF Front
        <4>3. QED
          BY <1>6, <1>11, <3>1, <4>1, <4>2
      <3>2. CASE d # c
        <4>1. Alive(d) /\ parent_pcb[d] # NULL
          BY <1>6, <1>11, <2>3, <3>2
        <4>2. /\ parent_pcb[d] \in Pids /\ Alive(parent_pcb[d]) /\ ~Front(parent_pcb[d])
              /\ parent_pcb[d] # c /\ parent_pcb[d] # stk
          BY <1>3, <1>4, <4>1 DEF ProcessForest, TypeOK
        <4>3. QED
          BY <1>6, <1>10, <1>11, <3>2, <4>1, <4>2 DEF ProcessForest
      <3>3. QED
        BY <3>1, <3>2
    <2>4. ASSUME NEW p \in Pids, Alive(p)'
          PROVE  Front(p)' \/ Waiting(p)'
      <3>1. CASE p = c
        BY <1>1, <1>7, <3>1 DEF Front
      <3>2. CASE p = stk
        BY <1>6, <1>11, <3>2 DEF Waiting
      <3>3. CASE p # c /\ p # stk /\ Front(p)
        BY <1>10, <3>3
      <3>4. CASE p # c /\ Waiting(p)
        BY <1>4, <1>6, <1>11, <3>4 DEF Waiting
      <3>5. QED
        BY <1>6, <2>4, <3>1, <3>2, <3>3, <3>4 DEF ProcessForest
    <2>5. QED
      BY <2>1, <2>2, <2>3, <2>4 DEF ProcessForest
  <1>13. RunningConsistent'
    BY <1>4, <1>7 DEF RunningConsistent
  <1>14. ReadyContexts'
    <2>1. Active' = c
      BY <1>4 DEF Active
    <2>2. \A p \in Pids : p # c => sch_ebp'[p] = sch_ebp[p]
      BY <1>4 DEF TypeOK
    <2>3. \A p \in Pids : Front(p)' => p # stk
      BY <1>9 DEF Front
    <2>4. QED
      BY <1>2, <1>10, <2>1, <2>2, <2>3 DEF ReadyContexts, Resumable
  <1>15. NoStaleJump' /\ BetweenSwitches' /\ VideoFollows'
    BY <1>2, <1>4 DEF NoStaleJump, BetweenSwitches, VideoFollows
  <1>16. QED
    BY <1>12, <1>13, <1>14, <1>15

(* The ends of system calls: the iret to user code, and halt() going back to *)
(* the execute() that waits on the parent's stack.                           *)
LEMMA ReturnInv ==
    ASSUME SchedInv, TypeOK', ~torn,
           Syscall \/ SyscallReturn \/ EnterUser \/ HaltReturn
    PROVE  SchedInv'
  <1> USE DEF SchedInv
  <1>1. /\ At("kernel").at = "kernel" /\ At("user").at = "user" /\ Wild.at = "wild"
        /\ NULL \notin Pids /\ NOT_EXIST \notin Pids /\ NULL = NOT_EXIST
        /\ stk \in Pids /\ cur_task \in Slots
    BY DEF At, Wild, TypeOK, Pids, NULL, NOT_EXIST
  <1>2. /\ pid_arr' = pid_arr /\ sch_ebp' = sch_ebp /\ tasks' = tasks
        /\ cur_task' = cur_task /\ tss_esp0' = tss_esp0 /\ page' = page
        /\ vidmap' = vidmap /\ curr_term_id' = curr_term_id
    BY DEF Syscall, SyscallReturn, EnterUser, HaltReturn, screen
  <1>3. VideoFollows'
    <2>1. run.at # "switch"
      BY DEF Syscall, SyscallReturn, EnterUser, HaltReturn
    <2>2. QED
      BY <1>2, <2>1 DEF VideoFollows
  <1>4. CASE Syscall \/ SyscallReturn \/ EnterUser
    <2>1. parent_pcb' = parent_pcb /\ esp_val' = esp_val
      BY <1>4 DEF Syscall, SyscallReturn, EnterUser, pcbs
    <2>2. /\ run.at \in {"user", "kernel", "enter"}
          /\ run'.at \in {"user", "kernel"}
          /\ stk' = tasks[cur_task] /\ Active = tasks[cur_task]
          /\ page = tasks[cur_task] /\ tss_esp0 = tasks[cur_task]
      BY <1>1, <1>4 DEF Syscall, SyscallReturn, EnterUser, RunningConsistent, Active
    <2>3. ProcessForest'
      BY <1>2, <2>1 DEF ProcessForest, Alive, Front, Waiting
    <2>4. Active' = tasks[cur_task]
      BY <2>2 DEF Active
    <2>5. ReadyContexts'
      BY <1>2, <2>2, <2>4 DEF ReadyContexts, Front, Resumable
    <2>6. RunningConsistent' /\ NoStaleJump' /\ BetweenSwitches'
      BY <1>2, <2>2 DEF RunningConsistent, NoStaleJump, BetweenSwitches
    <2>7. QED
      BY <1>3, <2>3, <2>5, <2>6
  <1>5. CASE HaltReturn
    <2> DEFINE caller == esp_val[stk]
    <2>1. /\ run.at = "return" /\ ~Alive(stk) /\ caller = tasks[cur_task]
          /\ parent_pcb[stk] = caller /\ caller # NULL
          /\ page = caller /\ tss_esp0 = caller
      BY <1>5 DEF HaltReturn, RunningConsistent, BetweenSwitches
    <2>2. Alive(caller) /\ caller # stk
      BY <1>1, <2>1 DEF ProcessForest
    <2>3. /\ stk' = caller /\ run' = At("kernel")
          /\ esp_val' = [esp_val EXCEPT ![stk] = NULL]
          /\ parent_pcb' = [parent_pcb EXCEPT ![stk] = NULL]
      BY <1>5, <2>1, <2>2 DEF HaltReturn, ReturnStack
    <2>4. \A p \in Pids : Alive(p) =>
             parent_pcb'[p] = parent_pcb[p] /\ esp_val'[p] = esp_val[p]
      BY <2>1, <2>3 DEF TypeOK
    <2>5. \A p \in Pids : /\ Alive(p)' <=> Alive(p)
                          /\ Front(p)' <=> Front(p)
                          /\ Waiting(p)' <=> Waiting(p)
      BY <1>2, <2>4 DEF Alive, Front, Waiting
    <2>6. ProcessForest'
      <3>1. /\ \A s \in Slots : tasks'[s] # NOT_EXIST => Alive(tasks[s])'
            /\ \A s, t \in Slots : s # t /\ tasks'[s] # NOT_EXIST => tasks'[s] # tasks'[t]
            /\ \A p \in Pids : Alive(p)' => Front(p)' \/ Waiting(p)'
        BY <1>2, <2>5 DEF ProcessForest, Alive
      <3>2. ASSUME NEW c \in Pids, Alive(c)', parent_pcb'[c] # NULL
            PROVE  /\ Alive(parent_pcb[c])'
                   /\ esp_val'[c] = parent_pcb'[c]
                   /\ ~Front(parent_pcb[c])'
                   /\ \A d \in Pids : Alive(d)' /\ parent_pcb'[d] = parent_pcb'[c] => d = c
        <4>1. Alive(c) /\ parent_pcb'[c] = parent_pcb[c] /\ esp_val'[c] = esp_val[c]
          BY <2>4, <2>5, <3>2
        <4>2. parent_pcb[c] \in Pids
          BY <3>2, <4>1 DEF TypeOK
        <4>3. QED
          BY <2>4, <2>5, <3>2, <4>1, <4>2 DEF ProcessForest
      <3>3. QED
        BY <3>1, <3>2 DEF ProcessForest
    <2>7. Active = caller /\ Active' = caller
      BY <1>1, <2>1, <2>3 DEF Active
    <2>8. ReadyContexts'
      BY <1>2, <2>5, <2>7 DEF ReadyContexts, Resumable
    <2>9. RunningConsistent' /\ NoStaleJump' /\ BetweenSwitches'
      BY <1>1, <1>2, <2>1, <2>3 DEF RunningConsistent, NoStaleJump, BetweenSwitches
    <2>10. QED
      BY <1>3, <2>6, <2>8, <2>9
  <1>6. QED
    BY <1>4, <1>5

(* The timer. *)
LEMMA TimerInv ==
    ASSUME SchedInv, TypeOK', ~torn, ~torn', Pit \/ PitAlarm \/ AlarmSwitch
    PROVE  SchedInv'
  <1> USE DEF SchedInv
  <1>1. run \in Context /\ stk \in Pids /\ NextSlot \in Slots
    BY NextSlotType DEF TypeOK
  <1>2. CASE Pit
    <2>1. /\ Active = stk
          /\ Front(stk) => Resumable(run, stk)
          /\ Alive(stk) => Front(stk)
          /\ ~Alive(stk) => parent_pcb[stk] = NULL
      BY <1>2, Steady DEF Pit
    <2>2. \A p \in Pids : Front(p) => Resumable(SaveContext(run)[p], p)
      BY <1>1, <2>1, SavedReady
    <2>3. SwitchTo(run, NextSlot, NextSlot) /\ cur_task' = NextSlot
      BY <1>2 DEF Pit
    <2>4. QED
      BY <1>1, <2>1, <2>2, <2>3, SwitchInv
  <1>3. CASE PitAlarm
    <2>1. /\ Active = stk
          /\ Front(stk) => Resumable(run, stk)
          /\ Alive(stk) => Front(stk)
          /\ ~Alive(stk) => parent_pcb[stk] = NULL
      BY <1>3, Steady DEF PitAlarm
    <2>2. /\ run' = [at |-> "switch", arg |-> NextSlot] /\ cur_task' = NextSlot
          /\ under'[stk] = run /\ stk' = stk
          /\ pid_arr' = pid_arr /\ parent_pcb' = parent_pcb /\ esp_val' = esp_val
          /\ sch_ebp' = sch_ebp /\ tasks' = tasks
      BY <1>1, <1>3 DEF PitAlarm, pcbs, TypeOK
    <2>3. ProcessForest'
      BY <2>2 DEF ProcessForest, Alive, Front, Waiting
    <2>4. ReadyContexts'
      BY <2>1, <2>2 DEF ReadyContexts, Active, Front, Resumable
    <2>5. RunningConsistent' /\ NoStaleJump' /\ VideoFollows'
      BY <2>2 DEF RunningConsistent, NoStaleJump, VideoFollows
    <2>6. BetweenSwitches'
      BY <2>1, <2>2 DEF BetweenSwitches, Front, Alive, Resumable
    <2>7. QED
      BY <2>3, <2>4, <2>5, <2>6
  <1>4. CASE AlarmSwitch
    <2>1. /\ run.at = "switch" /\ run.arg = cur_task /\ Active = stk
          /\ SwitchTo(under[stk], cur_task, cur_task) /\ cur_task' = cur_task
      BY <1>4 DEF AlarmSwitch, BetweenSwitches, Active
    <2>2. /\ Front(stk) => Resumable(under[stk], stk)
          /\ Alive(stk) => Front(stk)
          /\ ~Alive(stk) => parent_pcb[stk] = NULL
      BY <2>1 DEF BetweenSwitches
    <2>3. under[stk] \in Context /\ cur_task \in Slots
      BY <1>1 DEF TypeOK
    <2>4. \A p \in Pids : Front(p) => Resumable(SaveContext(under[stk])[p], p)
      BY <2>1, <2>2, <2>3, SavedReady
    <2>5. QED
      BY <2>1, <2>2, <2>3, <2>4, SwitchInv
  <1>5. QED
    BY <1>2, <1>3, <1>4

(* The initial state satisfies the invariant. *)
LEMMA InvInit ==
    Init => SchedInv
  <1> SUFFICES ASSUME Init
               PROVE  SchedInv
    OBVIOUS
  <1>1. TypeOK
    BY TypeInit
  <1>2. run.at = "boot"
    BY DEF Init, At
  <1>3. /\ \A s \in Slots : tasks[s] = NOT_EXIST
        /\ \A p \in Pids : ~Alive(p) /\ parent_pcb[p] = NULL
        /\ \A p \in Pids : ~Front(p)
    BY DEF Init, Alive, Front, Pids, NOT_EXIST
  <1>4. stk \in Pids /\ vidmap = cur_task
    BY <1>1 DEF Init, TypeOK
  <1>5. ProcessForest /\ ReadyContexts
    BY <1>3 DEF ProcessForest, ReadyContexts
  <1>6. RunningConsistent /\ NoStaleJump /\ BetweenSwitches /\ VideoFollows
    BY <1>2, <1>3, <1>4 DEF RunningConsistent, NoStaleJump, BetweenSwitches, VideoFollows
  <1>7. QED
    BY <1>1, <1>5, <1>6 DEF SchedInv

(* Every step preserves it. *)
LEMMA InvStep ==
    SchedInv /\ [Next]_vars => SchedInv'
  <1> SUFFICES ASSUME SchedInv, [Next]_vars
               PROVE  SchedInv'
    OBVIOUS
  <1>1. TypeOK /\ TypeOK'
    BY TypeStep DEF SchedInv
  <1>2. CASE torn'
    BY <1>1, <1>2 DEF SchedInv, ProcessForest, RunningConsistent, ReadyContexts,
       NoStaleJump, BetweenSwitches, VideoFollows
  <1>3. CASE ~torn'
    <2>0. ~torn
      BY <1>1, <1>3, TornStays
    <2> USE <1>1, <1>3, <2>0
    <2>1. CASE Syscall \/ SyscallReturn \/ EnterUser \/ HaltReturn
      BY <2>1, ReturnInv
    <2>2. CASE Execute
      BY <2>2, ExecuteInv
    <2>3. CASE Halt \/ HandleSignal
      BY <2>3, HaltInv DEF Halt, HandleSignal
    <2>4. CASE Pit \/ PitAlarm \/ AlarmSwitch
      BY <2>4, TimerInv
    <2>5. CASE Exception \/ Interrupt \/ CtrlC
      <3>1. PICK pend : Linkage(pend)
        BY <2>5 DEF Exception, Interrupt, CtrlC
      <3>2. /\ vidmap' = vidmap /\ curr_term_id' = curr_term_id /\ cur_task' = cur_task
            /\ run'.at # "switch" => run.at # "switch"
        <4>1. /\ vidmap' = vidmap /\ curr_term_id' = curr_term_id
              /\ cur_task' = cur_task
          BY <2>5, <3>1 DEF Exception, Interrupt, CtrlC, Linkage, screen
        <4>2. run' = run \/ ~MidUpdate
          BY <3>1 DEF Linkage
        <4>3. QED
          BY <4>1, <4>2 DEF MidUpdate
      <3>3. VideoFollows'
        BY <3>2 DEF VideoFollows, SchedInv
      <3>4. QED
        BY <3>1, <3>3, LinkageInv
    <2>6. ASSUME NEW t \in Slots, TerminalSwitch(t) PROVE SchedInv'
      <3>1. Linkage({}) /\ VideoFollows'
        BY <2>6 DEF TerminalSwitch, VideoFollows
      <3>2. QED
        BY <3>1, LinkageInv
    <2>7. CASE KeyEcho
      <3>1. Linkage({}) /\ VideoFollows'
        BY <2>7 DEF KeyEcho, VideoFollows, Linkage
      <3>2. QED
        BY <3>1, LinkageInv
    <2>8. CASE UNCHANGED vars
      <3>1. /\ ProcessForest' /\ ReadyContexts' /\ RunningConsistent'
            /\ NoStaleJump' /\ BetweenSwitches' /\ VideoFollows'
        BY <2>8 DEF SchedInv, vars, ProcessForest, ReadyContexts,
           RunningConsistent, NoStaleJump, BetweenSwitches, VideoFollows, Alive,
           Front, Waiting, Active, Resumable
      <3>2. QED
        BY <3>1 DEF SchedInv
    <2>9. QED
      BY <2>1, <2>2, <2>3, <2>4, <2>5, <2>6, <2>7, <2>8 DEF Next
  <1>4. QED
    BY <1>2, <1>3

(* The inductive invariant holds in every reachable state. *)
THEOREM SchedCorrect == Spec => []SchedInv
  <1>1. QED
    BY InvInit, InvStep, PTL DEF Spec

(* Up to the first torn update, execute() and halt() keep one chain of       *)
(* processes per terminal: the scheduler's slot holds its last one, each     *)
(* other waits for exactly one child, and no pid is leaked.                  *)
THEOREM ForestCorrect == Spec => []ProcessForest
  <1>1. SchedInv => ProcessForest
    BY DEF SchedInv
  <1>2. QED
    BY <1>1, SchedCorrect, PTL

(* Up to the first torn update, the slot, the kernel stack, the program page *)
(* and tss.esp0 belong to one process.                                       *)
THEOREM RunningCorrect == Spec => []RunningConsistent
  <1>1. SchedInv => RunningConsistent
    BY DEF SchedInv
  <1>2. QED
    BY <1>1, SchedCorrect, PTL

(* Up to the first torn update, every process the timer can switch to has    *)
(* been saved where scheduler() looks for it.                                *)
THEOREM SwitchCorrect == Spec => []ReadyContexts
  <1>1. SchedInv => ReadyContexts
    BY DEF SchedInv
  <1>2. QED
    BY <1>1, SchedCorrect, PTL

(* Up to the first torn update, a switch or the end of halt() never goes     *)
(* through memory that is not a saved frame.                                 *)
THEOREM JumpCorrect == Spec => []NoStaleJump
  <1>1. SchedInv => NoStaleJump
    BY DEF SchedInv
  <1>2. QED
    BY <1>1, SchedCorrect, PTL

(* Up to the first torn update, video memory shows the running terminal or   *)
(* the visible one.                                                          *)
THEOREM VideoCorrect == Spec => []VideoFollows
  <1>1. SchedInv => VideoFollows
    BY DEF SchedInv
  <1>2. QED
    BY <1>1, SchedCorrect, PTL

-----------------------------------------------------------------------------
(* The refinement of Terminals.                                              *)

(* A process in a slot does not wait, and does what its context says.        *)
LEMMA DoingOfFront ==
    ASSUME SchedInv, ~torn, NEW p \in Pids, Front(p)
    PROVE  /\ Alive(p) /\ ~Waiting(p)
           /\ Doing(p) = IF p = Active THEN RunningAt ELSE sch_ebp[p].at
  <1>1. Alive(p)
    BY DEF SchedInv, ProcessForest, Front, Pids, NOT_EXIST
  <1>2. ~Waiting(p)
    BY DEF SchedInv, ProcessForest, Waiting, Pids, NULL
  <1>3. QED
    BY <1>1, <1>2 DEF Doing

(* A process that is in no slot is free or waits.                            *)
LEMMA DoingOfOthers ==
    ASSUME SchedInv, ~torn, NEW p \in Pids, ~Front(p)
    PROVE  Doing(p) = IF Alive(p) THEN "waiting" ELSE "free"
  BY DEF SchedInv, ProcessForest, Doing

(* The mapped state changes in one place when one process in a slot moves    *)
(* on and the others stay where they were saved.                             *)
LEMMA OneMoves ==
    ASSUME SchedInv, ~torn, SchedInv', ~torn',
           UNCHANGED <<pid_arr, tasks>>,
           \A q \in Pids : Alive(q) => parent_pcb'[q] = parent_pcb[q],
           NEW p \in Pids, Front(p),
           \A q \in Pids : q # p /\ Front(q) => Doing(q)' = Doing(q)
    PROVE  /\ callers' = callers
           /\ doing' = [doing EXCEPT ![p] = Doing(p)']
  <1>1. \A q \in Pids : (Alive(q)' <=> Alive(q)) /\ (Front(q)' <=> Front(q))
    BY DEF Alive, Front
  <1>2. callers' = callers
    BY <1>1 DEF callers
  <1>3. ASSUME NEW q \in Pids, q # p
        PROVE  Doing(q)' = Doing(q)
    <2>1. CASE Front(q)
      BY <1>3, <2>1
    <2>2. CASE ~Front(q)
      <3>1. Doing(q) = IF Alive(q) THEN "waiting" ELSE "free"
        BY <2>2, DoingOfOthers
      <3>2. Doing(q)' = IF Alive(q)' THEN "waiting" ELSE "free"
        <4>1. ~Front(q)'
          BY <1>1, <2>2
        <4>2. QED
          BY <4>1 DEF SchedInv, ProcessForest, Doing
      <3>3. QED
        BY <1>1, <3>1, <3>2
    <2>3. QED
      BY <2>1, <2>2
  <1>4. doing' = [doing EXCEPT ![p] = Doing(p)']
    BY <1>3 DEF doing
  <1>5. QED
    BY <1>2, <1>4

(* Nobody moves. *)
LEMMA NoneMoves ==
    ASSUME SchedInv, ~torn, SchedInv', ~torn',
           UNCHANGED <<pid_arr, tasks>>,
           \A q \in Pids : Alive(q) => parent_pcb'[q] = parent_pcb[q],
           \A q \in Pids : Front(q) => Doing(q)' = Doing(q)
    PROVE  callers' = callers /\ doing' = doing
  <1>1. \A q \in Pids : (Alive(q)' <=> Alive(q)) /\ (Front(q)' <=> Front(q))
    BY DEF Alive, Front
  <1>2. callers' = callers
    BY <1>1 DEF callers
  <1>3. ASSUME NEW q \in Pids
        PROVE  Doing(q)' = Doing(q)
    <2>1. CASE Front(q)
      BY <2>1
    <2>2. CASE ~Front(q)
      <3>1. Doing(q) = IF Alive(q) THEN "waiting" ELSE "free"
        BY <2>2, DoingOfOthers
      <3>2. Doing(q)' = IF Alive(q)' THEN "waiting" ELSE "free"
        <4>1. ~Front(q)'
          BY <1>1, <2>2
        <4>2. QED
          BY <4>1 DEF SchedInv, ProcessForest, Doing
      <3>3. QED
        BY <1>1, <3>1, <3>2
    <2>3. QED
      BY <2>1, <2>2
  <1>4. QED
    BY <1>2, <1>3 DEF doing

(* The primed form of DoingOfFront, for use after a step. *)
LEMMA DoingOfFrontNext ==
    ASSUME SchedInv', ~torn', NEW p \in Pids, Front(p)'
    PROVE  /\ Alive(p)' /\ ~Waiting(p)'
           /\ Doing(p)' = IF p = Active' THEN RunningAt' ELSE sch_ebp'[p].at
  <1>1. Alive(p)'
    BY DEF SchedInv, ProcessForest, Front, Pids, NOT_EXIST
  <1>2. ~Waiting(p)'
    BY DEF SchedInv, ProcessForest, Waiting, Pids, NULL
  <1>3. QED
    BY <1>1, <1>2 DEF Doing

(* Into a system call and back, the end of execute() and the end of halt()   *)
(* move the active process.                                                  *)
LEMMA ProceedStep ==
    ASSUME SchedInv, ~torn, SchedInv', ~torn',
           Syscall \/ SyscallReturn \/ EnterUser \/ HaltReturn
    PROVE  T!Next
  <1>1. /\ UNCHANGED <<pid_arr, tasks, sch_ebp, sig_pending, cur_task>>
        /\ run.at # "switch"
    BY DEF Syscall, SyscallReturn, EnterUser, HaltReturn
  <1>2. /\ stk \in Pids /\ cur_task \in Slots /\ tasks[cur_task] \in Pids \cup {NOT_EXIST}
        /\ NOT_EXIST \notin Pids /\ NULL = NOT_EXIST
    BY DEF SchedInv, TypeOK, Pids, NULL, NOT_EXIST
  <1>3. PICK p \in Pids : p = tasks[cur_task] /\ Active = p
    <2>1. CASE Syscall \/ SyscallReturn
      BY <1>2, <2>1 DEF Syscall, SyscallReturn, SchedInv, RunningConsistent, Active
    <2>2. CASE EnterUser
      <3>1. run.arg = tasks[cur_task] /\ run.at = "enter"
        BY <2>2 DEF EnterUser, SchedInv, RunningConsistent
      <3>2. run.arg \in Pids
        BY <3>1 DEF SchedInv, TypeOK, Context
      <3>3. QED
        BY <3>1, <3>2 DEF Active
    <2>3. CASE HaltReturn
      BY <1>2, <2>3 DEF HaltReturn, SchedInv, RunningConsistent, BetweenSwitches, Active
    <2>4. QED
      BY <2>1, <2>2, <2>3
  <1>4. Front(p)
    BY <1>2, <1>3 DEF Front
  <1>5. \A q \in Pids : Alive(q) => parent_pcb'[q] = parent_pcb[q]
    <2>1. CASE HaltReturn
      <3>1. ~Alive(stk)
        BY <2>1 DEF HaltReturn, SchedInv, RunningConsistent
      <3>2. QED
        BY <2>1, <3>1 DEF HaltReturn, SchedInv, TypeOK
    <2>2. CASE ~HaltReturn
      BY <2>2 DEF Syscall, SyscallReturn, EnterUser, pcbs
    <2>3. QED
      BY <2>1, <2>2
  <1>6. run'.at \in {"user", "kernel"}
    <2>1. CASE HaltReturn
      BY <2>1 DEF HaltReturn, SchedInv, NoStaleJump, Wild, At
    <2>2. CASE ~HaltReturn
      BY <2>2 DEF Syscall, SyscallReturn, EnterUser, At
    <2>3. QED
      BY <2>1, <2>2
  <1>7. Active' = p
    BY <1>1, <1>3, <1>6 DEF SchedInv, RunningConsistent, Active
  <1>8. Front(p)' /\ Doing(p)' = run'.at /\ Doing(p) = run.at
    <2>1. Front(p)'
      BY <1>1, <1>4 DEF Front
    <2>2. Doing(p)' = run'.at
      BY <1>3, <1>6, <1>7, <2>1, DoingOfFrontNext DEF RunningAt
    <2>3. QED
      BY <1>1, <1>3, <1>4, <2>1, <2>2, DoingOfFront DEF RunningAt
  <1>9. ASSUME NEW q \in Pids, q # p, Front(q)
        PROVE  Doing(q)' = Doing(q)
    <2>1. Front(q)'
      BY <1>1, <1>9 DEF Front
    <2>2. QED
      BY <1>1, <1>3, <1>7, <1>9, <2>1, DoingOfFront, DoingOfFrontNext
  <1>10. callers' = callers /\ doing' = [doing EXCEPT ![p] = run'.at]
    <2>1. callers' = callers /\ doing' = [doing EXCEPT ![p] = Doing(p)']
      BY <1>1, <1>3, <1>4, <1>5, <1>9, OneMoves
    <2>2. QED
      BY <1>8, <2>1
  <1>11. signalled' = signalled /\ doing[p] = run.at
    BY <1>1, <1>3, <1>8 DEF signalled, doing, Alive
  <1>12. \/ run.at = "user" /\ run'.at = "kernel"
         \/ run.at = "kernel" /\ run'.at = "user"
         \/ run.at = "enter" /\ run'.at = "user"
         \/ run.at = "return" /\ run'.at = "kernel"
    <2>1. CASE HaltReturn
      BY <1>6, <2>1 DEF HaltReturn, At, Wild
    <2>2. CASE ~HaltReturn
      BY <2>2 DEF Syscall, SyscallReturn, EnterUser, At
    <2>3. QED
      BY <2>1, <2>2
  <1>13. T!Call(p) \/ T!Return(p) \/ T!Enter(p) \/ T!Resumed(p)
    BY <1>1, <1>10, <1>11, <1>12
       DEF T!Call, T!Return, T!Enter, T!Resumed, T!Proceed
  <1>14. QED
    BY <1>3, <1>13 DEF T!Next

(* execute(), called by a program, is Execute of Terminals.                  *)
LEMMA ExecuteStep ==
    ASSUME SchedInv, ~torn, SchedInv', ~torn', Execute
    PROVE  T!Next
  <1>1. PICK c \in Pids : Spawn(c, cur_task, stk, sch_ebp)
    BY DEF Execute
  <1>2. /\ NOT_EXIST \notin Pids /\ NULL = NOT_EXIST
        /\ stk \in Pids /\ cur_task \in Slots
    BY DEF SchedInv, TypeOK, Pids, NOT_EXIST, NULL
  <1>3. run.at = "kernel" /\ tasks[cur_task] = stk /\ Active = stk
    BY DEF Execute, SchedInv, RunningConsistent, Active
  <1>4. Front(stk) /\ Alive(stk) /\ Doing(stk) = "kernel"
    BY <1>2, <1>3, DoingOfFront DEF Front, RunningAt
  <1>5. ~Alive(c) /\ c # stk
    BY <1>1, <1>4 DEF Spawn, FirstFree, Alive
  <1>6. /\ pid_arr' = [pid_arr EXCEPT ![c] = 1]
        /\ parent_pcb' = [parent_pcb EXCEPT ![c] = stk]
        /\ tasks' = [tasks EXCEPT ![cur_task] = c]
        /\ sch_ebp' = [sch_ebp EXCEPT ![c] = Stale]
        /\ sig_pending' = sig_pending \ {c}
        /\ run' = [at |-> "enter", arg |-> c]
    BY <1>1, <1>2, <1>3 DEF Spawn
  <1>7. Active' = c /\ RunningAt' = "enter"
    BY <1>6 DEF Active, RunningAt
  <1>8. tasks'[cur_task] = c /\ \A s \in Slots : s # cur_task => tasks'[s] = tasks[s]
    BY <1>2, <1>6 DEF SchedInv, TypeOK
  <1>9. Alive(c)' /\ \A q \in Pids : q # c => (Alive(q)' <=> Alive(q))
    BY <1>6 DEF Alive, SchedInv, TypeOK
  <1>10. Front(c)' /\ \A q \in Pids : q # c /\ q # stk => (Front(q)' <=> Front(q))
    BY <1>2, <1>3, <1>8 DEF Front
  <1>11. \A s \in Slots : tasks'[s] # stk
    BY <1>2, <1>3, <1>5, <1>8 DEF SchedInv, ProcessForest
  <1>12. callers' = [callers EXCEPT ![c] = stk]
    BY <1>6, <1>9 DEF callers, SchedInv, TypeOK
  <1>13. doing' = [doing EXCEPT ![c] = "enter", ![stk] = "waiting"]
    <2>1. Doing(c)' = "enter"
      BY <1>7, <1>10, DoingOfFrontNext
    <2>2. \A q \in Pids : q = stk => Doing(q)' = "waiting"
      <3>1. SUFFICES ASSUME NEW q \in Pids, q = stk
                     PROVE  Doing(q)' = "waiting"
        OBVIOUS
      <3>2. ~Front(q)' /\ Alive(q)'
        BY <1>4, <1>5, <1>9, <1>11, <3>1 DEF Front
      <3>3. QED
        BY <3>2 DEF SchedInv, ProcessForest, Doing
    <2>3. ASSUME NEW q \in Pids, q # c, q # stk
          PROVE  Doing(q)' = Doing(q)
      <3>1. CASE Front(q)
        <4>1. Front(q)' /\ sch_ebp'[q] = sch_ebp[q]
          BY <1>6, <1>10, <2>3, <3>1 DEF SchedInv, TypeOK
        <4>2. QED
          BY <1>3, <1>7, <2>3, <3>1, <4>1, DoingOfFront, DoingOfFrontNext
      <3>2. CASE ~Front(q)
        <4>1. Doing(q)' = IF Alive(q)' THEN "waiting" ELSE "free"
          BY <1>10, <2>3, <3>2 DEF SchedInv, ProcessForest, Doing
        <4>2. QED
          BY <1>9, <2>3, <3>2, <4>1, DoingOfOthers
      <3>3. QED
        BY <3>1, <3>2
    <2>4. \A q \in Pids : Doing(q)' = IF q = stk THEN "waiting"
                                      ELSE IF q = c THEN "enter" ELSE Doing(q)
      BY <1>5, <2>1, <2>2, <2>3
    <2>5. QED
      BY <1>2, <1>5, <2>4 DEF doing
  <1>14. signalled' = signalled
    BY <1>5, <1>6, <1>9 DEF signalled, SchedInv, TypeOK
  <1>15. doing[stk] = "kernel" /\ doing[c] = "free"
    BY <1>2, <1>4, <1>5 DEF doing, Doing
  <1>16. T!Execute(cur_task, c)
    BY <1>2, <1>3, <1>6, <1>12, <1>13, <1>14, <1>15 DEF T!Execute
  <1>17. QED
    BY <1>2, <1>16 DEF T!Next

(* halt() of a live process is Exit; halt() once more, on the stack of a     *)
(* base shell that is gone, changes nothing.                                 *)
LEMMA ExitStep ==
    ASSUME SchedInv, ~torn, SchedInv', ~torn', Halt \/ HandleSignal
    PROVE  T!Next \/ UNCHANGED T!vars
  <1>1. /\ HaltCurrent
        /\ run.at = "kernel" \/ (run.at = "trap" /\ stk \in sig_pending)
    BY DEF Halt, HandleSignal
  <1>2. /\ NOT_EXIST \notin Pids /\ NULL = NOT_EXIST
        /\ stk \in Pids /\ cur_task \in Slots
        /\ parent_pcb[stk] \in Pids \cup {NULL}
    BY DEF SchedInv, TypeOK, Pids, NOT_EXIST, NULL
  <1>3. Active = stk
    BY <1>1 DEF Active
  <1>4. /\ parent_pcb' = parent_pcb /\ sch_ebp' = sch_ebp /\ stk' = stk
        /\ pid_arr' = [pid_arr EXCEPT ![stk] = 0]
    BY <1>1 DEF HaltCurrent, pcbs
  <1>5. \A q \in Pids : Alive(q)' <=> (Alive(q) /\ q # stk)
    BY <1>2, <1>4 DEF Alive, SchedInv, TypeOK
  <1>6. CASE ~Alive(stk)
    <2>1. run.at = "trap" /\ parent_pcb[stk] = NULL /\ tasks[cur_task] = NOT_EXIST
      BY <1>1, <1>2, <1>6 DEF SchedInv, RunningConsistent, ProcessForest, BetweenSwitches
    <2>2. /\ tasks' = tasks /\ run' = At("trap")
          /\ sig_pending' = sig_pending \cup {stk}
      BY <1>1, <1>2, <2>1 DEF HaltCurrent, SchedInv, TypeOK
    <2>3. pid_arr' = pid_arr
      BY <1>2, <1>4, <1>6 DEF Alive, SchedInv, TypeOK
    <2>4. Active' = stk
      BY <1>4, <2>2 DEF Active, At
    <2>5. ASSUME NEW q \in Pids, Front(q)
          PROVE  Doing(q)' = Doing(q)
      <3>1. q # stk /\ Front(q)'
        BY <1>6, <2>2, <2>5, DoingOfFront DEF Front
      <3>2. QED
        BY <1>3, <1>4, <2>4, <2>5, <3>1, DoingOfFront, DoingOfFrontNext
    <2>6. callers' = callers /\ doing' = doing
      BY <1>4, <2>2, <2>3, <2>5, NoneMoves
    <2>7. signalled' = signalled
      BY <1>5, <1>6, <2>2, <2>3 DEF signalled, Alive
    <2>8. QED
      BY <2>2, <2>6, <2>7 DEF T!vars
  <1>7. CASE Alive(stk)
    <2>1. tasks[cur_task] = stk
      BY <1>1, <1>7 DEF HaltCurrent, Alive
    <2>2. Front(stk) /\ \A s \in Slots : tasks[s] = stk => s = cur_task
      BY <1>2, <2>1 DEF Front, SchedInv, ProcessForest
    <2>3. tasks' = [tasks EXCEPT ![cur_task] = parent_pcb[stk]]
      BY <1>1, <1>2 DEF HaltCurrent
    <2>4. /\ tasks'[cur_task] = parent_pcb[stk]
          /\ \A s \in Slots : s # cur_task => tasks'[s] = tasks[s]
      BY <1>2, <2>3 DEF SchedInv, TypeOK
    <2>5. \A q \in Pids : q # stk /\ q # parent_pcb[stk] => (Front(q)' <=> Front(q))
      BY <1>2, <2>1, <2>4 DEF Front
    <2>6. Doing(stk) = run.at
      BY <1>1, <1>2, <1>3, <2>2, DoingOfFront DEF RunningAt
    <2>7. callers' = [callers EXCEPT ![stk] = NULL] /\ callers[stk] = parent_pcb[stk]
      BY <1>2, <1>4, <1>5, <1>7 DEF callers
    <2>8. signalled' = signalled \ {stk}
      <3>1. sig_pending' = sig_pending \cup {stk} \/ sig_pending' = sig_pending \ {stk}
        BY <1>1 DEF HaltCurrent
      <3>2. sig_pending \subseteq Pids
        BY DEF SchedInv, TypeOK
      <3>3. pid_arr'[stk] # 1 /\ \A q \in Pids : q # stk => pid_arr'[q] = pid_arr[q]
        BY <1>2, <1>4 DEF SchedInv, TypeOK
      <3>4. signalled' = {q \in sig_pending' : pid_arr'[q] = 1}
        BY DEF signalled, Alive
      <3>5. signalled = {q \in sig_pending : pid_arr[q] = 1}
        BY DEF signalled, Alive
      <3>6. QED
        BY <1>2, <3>1, <3>2, <3>3, <3>4, <3>5
    <2>9. Active' = parent_pcb[stk] \/ (parent_pcb[stk] = NULL /\ Active' = stk)
      BY <1>1, <1>4 DEF HaltCurrent, Active, At
    <2>10. ASSUME NEW q \in Pids
           PROVE  Doing(q)' = IF q = stk THEN "free"
                              ELSE IF q = parent_pcb[stk] THEN "return"
                              ELSE Doing(q)
      <3>1. CASE q = stk
        BY <1>5, <3>1 DEF Doing
      <3>2. CASE q # stk /\ q = parent_pcb[stk]
        <4>1. Front(q)' /\ Active' = q
          BY <1>2, <2>4, <2>9, <3>2 DEF Front
        <4>2. run' = At("return")
          BY <1>1, <1>2, <3>2 DEF HaltCurrent
        <4>3. QED
          BY <3>2, <4>1, <4>2, DoingOfFrontNext DEF RunningAt, At
      <3>3. CASE q # stk /\ q # parent_pcb[stk] /\ Front(q)
        <4>1. Front(q)' /\ Active' # q
          BY <2>5, <2>9, <3>3
        <4>2. QED
          BY <1>3, <1>4, <3>3, <4>1, DoingOfFront, DoingOfFrontNext
      <3>4. CASE q # stk /\ q # parent_pcb[stk] /\ ~Front(q)
        <4>1. Doing(q)' = IF Alive(q)' THEN "waiting" ELSE "free"
          BY <2>5, <3>4 DEF SchedInv, ProcessForest, Doing
        <4>2. QED
          BY <1>5, <3>4, <4>1, DoingOfOthers
      <3>5. QED
        BY <3>1, <3>2, <3>3, <3>4
    <2>11. doing' = [q \in Pids |-> IF q = stk THEN "free"
                                    ELSE IF q = callers[stk] THEN "return"
                                    ELSE doing[q]]
      BY <2>7, <2>10 DEF doing
    <2>12. doing[stk] = "kernel" \/ (doing[stk] = "trap" /\ stk \in signalled)
      BY <1>1, <1>2, <1>7, <2>6 DEF doing, signalled
    <2>13. T!Exit(cur_task)
      BY <1>2, <2>1, <2>3, <2>7, <2>8, <2>11, <2>12 DEF T!Exit
    <2>14. QED
      BY <1>2, <2>13 DEF T!Next
  <1>8. QED
    BY <1>6, <1>7

(* scheduler() after scheduler_getnext(), saving context k of the process    *)
(* that runs: the others stay where they were, the resumed one acts on its   *)
(* signal if it has one, and a vacant slot gets its shell.  When no pid is   *)
(* left for that shell, the process that runs is killed.                     *)
LEMMA SwitchStep ==
    ASSUME SchedInv, ~torn, SchedInv', ~torn', NEW k \in Context, NEW n \in Slots,
           SwitchTo(k, n, n), Active = stk,
           \A p \in Pids : Front(p) => Resumable(SaveContext(k)[p], p),
           Alive(stk) => Front(stk),
           Front(stk) => k.at = RunningAt
    PROVE  T!Next \/ UNCHANGED T!vars
  <1> DEFINE saved == SaveContext(k)
             next == tasks[n]
  <1>1. /\ NOT_EXIST \notin Pids /\ NULL = NOT_EXIST /\ stk \in Pids
        /\ next \in Pids \cup {NOT_EXIST}
        /\ saved \in [Pids -> Context]
        /\ saved = [sch_ebp EXCEPT ![stk] = k]
        /\ sig_pending \subseteq Pids
    BY DEF SchedInv, TypeOK, Pids, NOT_EXIST, NULL, SaveContext
  <1>2. \A p \in Pids : Front(p) => Doing(p) = saved[p].at
    <2>1. SUFFICES ASSUME NEW p \in Pids, Front(p)
                   PROVE  Doing(p) = saved[p].at
      OBVIOUS
    <2>2. Doing(p) = IF p = stk THEN RunningAt ELSE sch_ebp[p].at
      BY <2>1, DoingOfFront
    <2>3. saved[p] = IF p = stk THEN k ELSE sch_ebp[p]
      BY <1>1 DEF SchedInv, TypeOK
    <2>4. QED
      BY <2>1, <2>2, <2>3
  <1>3. \A p \in Pids : Front(p) => saved[p].at \in T!Interruptible
    BY DEF Resumable, T!Interruptible
  <1> HIDE DEF saved, next
  <1>4. CASE next # NOT_EXIST
    <2>1. PICK p \in Pids : p = next
      BY <1>1, <1>4
    <2>2. /\ pid_arr' = pid_arr /\ parent_pcb' = parent_pcb
          /\ sig_pending' = sig_pending /\ tasks' = tasks /\ stk' = p
          /\ sch_ebp' = [saved EXCEPT ![p] = Stale]
          /\ run' = Resume(saved[p], p)
      BY <1>4, <2>1 DEF SwitchTo, pcbs, saved, next
    <2>3. Front(p) /\ \A q \in Pids : Front(q)' <=> Front(q)
      BY <2>1, <2>2 DEF Front, next
    <2>4. Resumable(saved[p], p)
      BY <2>3 DEF saved
    <2>5. run' = IF p \in sig_pending THEN At("trap") ELSE saved[p]
      BY <2>2, <2>4 DEF Resume, Resumable
    <2>6. Active' = p /\ RunningAt' = run'.at
      BY <2>2, <2>4, <2>5 DEF Active, RunningAt, Resumable, At
    <2>7. ASSUME NEW q \in Pids, q # p, Front(q)
          PROVE  Doing(q)' = Doing(q)
      <3>1. Doing(q)' = sch_ebp'[q].at
        BY <2>3, <2>6, <2>7, DoingOfFrontNext
      <3>2. sch_ebp'[q] = saved[q]
        BY <1>1, <2>2, <2>7
      <3>3. QED
        BY <1>2, <2>7, <3>1, <3>2
    <2>8. Doing(p)' = run'.at
      BY <2>3, <2>6, DoingOfFrontNext
    <2>9. signalled' = signalled
      BY <2>2 DEF signalled, Alive
    <2>10. CASE p \notin sig_pending
      <3>1. Doing(p)' = Doing(p)
        BY <1>2, <2>3, <2>5, <2>8, <2>10
      <3>2. \A q \in Pids : Front(q) => Doing(q)' = Doing(q)
        BY <2>7, <3>1
      <3>3. callers' = callers /\ doing' = doing
        BY <2>2, <3>2, NoneMoves
      <3>4. QED
        BY <2>2, <2>9, <3>3 DEF T!vars
    <2>11. CASE p \in sig_pending
      <3>1. callers' = callers /\ doing' = [doing EXCEPT ![p] = Doing(p)']
        BY <2>2, <2>3, <2>7, OneMoves
      <3>2. Doing(p)' = "trap"
        BY <2>5, <2>8, <2>11 DEF At
      <3>3. p \in signalled /\ doing[p] \in T!Interruptible
        BY <1>2, <1>3, <2>3, <2>11, DoingOfFront DEF signalled, doing
      <3>4. T!Trap(p, {})
        BY <2>2, <2>9, <3>1, <3>2, <3>3 DEF T!Trap
      <3>5. QED
        BY <3>4 DEF T!Next
    <2>12. QED
      BY <2>10, <2>11
  <1>5. CASE next = NOT_EXIST /\ \E c \in Pids : Spawn(c, n, stk, saved)
    <2>1. PICK c \in Pids : Spawn(c, n, stk, saved)
      BY <1>5
    <2>2. /\ pid_arr[c] = 0 /\ pid_arr' = [pid_arr EXCEPT ![c] = 1]
          /\ parent_pcb' = [parent_pcb EXCEPT ![c] = NULL]
          /\ tasks' = [tasks EXCEPT ![n] = c]
          /\ sch_ebp' = [saved EXCEPT ![c] = Stale]
          /\ sig_pending' = sig_pending \ {c}
          /\ run' = [at |-> "enter", arg |-> c]
      BY <1>5, <2>1 DEF Spawn, FirstFree, next
    <2>3. Active' = c /\ RunningAt' = "enter"
      BY <2>2 DEF Active, RunningAt
    <2>4. pid_arr'[c] = 1 /\ \A q \in Pids : q # c => pid_arr'[q] = pid_arr[q]
      BY <2>2 DEF SchedInv, TypeOK
    <2>5. tasks'[n] = c /\ \A s \in Slots : s # n => tasks'[s] = tasks[s]
      BY <2>2 DEF SchedInv, TypeOK
    <2>6. Front(c)' /\ \A q \in Pids : q # c => (Front(q)' <=> Front(q))
      BY <1>1, <1>5, <2>5 DEF Front, next
    <2>7. Doing(c)' = "enter"
      BY <2>3, <2>6, DoingOfFrontNext
    <2>8. ASSUME NEW q \in Pids, q # c
          PROVE  Doing(q)' = Doing(q)
      <3>1. CASE Front(q)
        <4>1. Doing(q)' = sch_ebp'[q].at
          BY <2>3, <2>6, <2>8, <3>1, DoingOfFrontNext
        <4>2. sch_ebp'[q] = saved[q]
          BY <1>1, <2>2, <2>8
        <4>3. QED
          BY <1>2, <3>1, <4>1, <4>2
      <3>2. CASE ~Front(q)
        <4>1. Doing(q)' = IF Alive(q)' THEN "waiting" ELSE "free"
          BY <2>6, <2>8, <3>2 DEF SchedInv, ProcessForest, Doing
        <4>2. QED
          BY <2>4, <2>8, <3>2, <4>1, DoingOfOthers DEF Alive
      <3>3. QED
        BY <3>1, <3>2
    <2>9. doing' = [doing EXCEPT ![c] = "enter"]
      BY <2>7, <2>8 DEF doing
    <2>10. callers' = callers
      BY <2>2, <2>4 DEF callers, Alive, SchedInv, TypeOK
    <2>11. signalled' = signalled
      <3>1. signalled' = {q \in sig_pending' : pid_arr'[q] = 1}
        BY DEF signalled, Alive
      <3>2. signalled = {q \in sig_pending : pid_arr[q] = 1}
        BY DEF signalled, Alive
      <3>3. QED
        BY <1>1, <2>2, <2>4, <3>1, <3>2
    <2>12. doing[c] = "free"
      BY <2>2 DEF doing, Doing, Alive
    <2>13. T!Start(n, c)
      BY <1>1, <1>5, <2>2, <2>9, <2>10, <2>11, <2>12 DEF T!Start, next
    <2>14. QED
      BY <2>13 DEF T!Next
  <1>6. CASE next = NOT_EXIST /\ ~\E c \in Pids : Spawn(c, n, stk, saved)
    <2>1. /\ PidsFull /\ sch_ebp' = saved /\ run' = At("trap")
          /\ sig_pending' = sig_pending \cup {stk}
          /\ pid_arr' = pid_arr /\ parent_pcb' = parent_pcb
          /\ tasks' = tasks /\ stk' = stk
      BY <1>6 DEF SwitchTo, pcbs, saved, next
    <2>2. PICK p \in Pids : p = stk
      BY <1>1
    <2>3. Alive(p) /\ Front(p)
      BY <2>1, <2>2 DEF PidsFull, Alive, SchedInv, TypeOK
    <2>4. Active' = p /\ RunningAt' = "trap"
      BY <2>1, <2>2 DEF Active, RunningAt, At
    <2>5. \A q \in Pids : Front(q)' <=> Front(q)
      BY <2>1 DEF Front
    <2>6. Doing(p)' = "trap"
      BY <2>3, <2>4, <2>5, DoingOfFrontNext
    <2>7. ASSUME NEW q \in Pids, q # p, Front(q)
          PROVE  Doing(q)' = Doing(q)
      BY <1>2, <2>1, <2>4, <2>5, <2>7, DoingOfFrontNext
    <2>8. callers' = callers /\ doing' = [doing EXCEPT ![p] = Doing(p)']
      BY <2>1, <2>3, <2>7, OneMoves
    <2>9. signalled' = signalled \cup {p}
      <3>1. signalled' = {q \in sig_pending' : pid_arr[q] = 1}
        BY <2>1 DEF signalled, Alive
      <3>2. QED
        BY <2>1, <2>2, <2>3, <3>1 DEF signalled, Alive
    <2>10. doing[p] \in T!Interruptible /\ doing[p] # "free"
      BY <1>2, <1>3, <2>3 DEF doing, T!Interruptible
    <2>11. T!Trap(p, {p})
      BY <2>1, <2>6, <2>8, <2>9, <2>10 DEF T!Trap, T!Alive
    <2>12. QED
      BY <2>11 DEF T!Next
  <1>7. QED
    BY <1>4, <1>5, <1>6

(* The timer interrupt, in one piece or with an ALARM in the middle.         *)
LEMMA TimerStep ==
    ASSUME SchedInv, ~torn, SchedInv', ~torn', Pit \/ PitAlarm \/ AlarmSwitch
    PROVE  T!Next \/ UNCHANGED T!vars
  <1>1. /\ run \in Context /\ stk \in Pids /\ NextSlot \in Slots
        /\ TypeOK /\ ReadyContexts
    BY NextSlotType DEF SchedInv, TypeOK
  <1>2. CASE Pit
    <2>1. /\ ~MidUpdate /\ SwitchTo(run, NextSlot, NextSlot)
      BY <1>2 DEF Pit
    <2>2. /\ Active = stk
          /\ Front(stk) => Resumable(run, stk)
          /\ Alive(stk) => Front(stk)
      BY <2>1, Steady
    <2>3. \A p \in Pids : Front(p) => Resumable(SaveContext(run)[p], p)
      BY <1>1, <2>2, SavedReady
    <2>4. run.at = RunningAt
      BY <2>1 DEF MidUpdate, RunningAt
    <2>5. QED
      BY <1>1, <2>1, <2>2, <2>3, <2>4, SwitchStep
  <1>3. CASE PitAlarm
    <2>1. /\ ~MidUpdate /\ pid_arr' = pid_arr /\ parent_pcb' = parent_pcb
          /\ sig_pending' = sig_pending /\ tasks' = tasks /\ stk' = stk
          /\ sch_ebp' = sch_ebp /\ under' = [under EXCEPT ![stk] = run]
          /\ run' = [at |-> "switch", arg |-> NextSlot]
      BY <1>3 DEF PitAlarm, pcbs
    <2>2. Active = stk /\ RunningAt = run.at
      BY <2>1, Steady DEF MidUpdate, RunningAt
    <2>3. Active' = stk /\ RunningAt' = run.at
      BY <1>1, <2>1 DEF Active, RunningAt, TypeOK
    <2>4. ASSUME NEW q \in Pids, Front(q)
          PROVE  Doing(q)' = Doing(q)
      <3>1. Front(q)'
        BY <2>1, <2>4 DEF Front
      <3>2. QED
        BY <2>1, <2>2, <2>3, <2>4, <3>1, DoingOfFront, DoingOfFrontNext
    <2>5. callers' = callers /\ doing' = doing
      BY <2>1, <2>4, NoneMoves
    <2>6. signalled' = signalled
      BY <2>1 DEF signalled, Alive
    <2>7. QED
      BY <2>1, <2>5, <2>6 DEF T!vars
  <1>4. CASE AlarmSwitch
    <2>1. run.at = "switch" /\ SwitchTo(under[stk], run.arg, cur_task)
      BY <1>4 DEF AlarmSwitch
    <2>2. /\ run.arg = cur_task /\ cur_task \in Slots
          /\ Front(stk) => Resumable(under[stk], stk)
          /\ Alive(stk) => Front(stk)
      BY <2>1 DEF SchedInv, TypeOK, BetweenSwitches
    <2>3. under[stk] \in Context
      BY <1>1 DEF TypeOK
    <2>4. Active = stk /\ under[stk].at = RunningAt
      BY <2>1 DEF Active, RunningAt
    <2>5. \A p \in Pids : Front(p) => Resumable(SaveContext(under[stk])[p], p)
      BY <1>1, <2>2, <2>3, <2>4, SavedReady
    <2>6. SwitchTo(under[stk], cur_task, cur_task)
      BY <2>1, <2>2
    <2>7. QED
      BY <2>2, <2>3, <2>4, <2>5, <2>6, SwitchStep
  <1>5. QED
    BY <1>2, <1>3, <1>4

(* A handler that posts a signal posts it to those of pend that are alive,   *)
(* and may take the process that runs away from what it did.                 *)
LEMMA LinkageStep ==
    ASSUME SchedInv, ~torn, SchedInv', ~torn', NEW pend \in SUBSET Pids, Linkage(pend)
    PROVE  T!Next \/ UNCHANGED T!vars
  <1> DEFINE posted == {p \in pend : Alive(p)}
  <1>1. /\ pid_arr' = pid_arr /\ parent_pcb' = parent_pcb /\ tasks' = tasks
        /\ sch_ebp' = sch_ebp /\ stk' = stk
        /\ sig_pending' = sig_pending \cup pend
    BY DEF Linkage, pcbs
  <1>2. /\ posted \in SUBSET Pids
        /\ signalled' = signalled \cup posted
        /\ \A q \in posted : T!Alive(q)
    <2>1. posted \in SUBSET Pids
      OBVIOUS
    <2>2. signalled' = signalled \cup posted
      BY <1>1 DEF signalled, Alive
    <2>3. ASSUME NEW q \in posted
          PROVE  T!Alive(q)
      <3>1. q \in Pids /\ Alive(q)
        OBVIOUS
      <3>2. Doing(q) # "free"
        <4>1. CASE Front(q)
          <5>1. q # Active => Resumable(sch_ebp[q], q)
            BY <3>1, <4>1 DEF SchedInv, ReadyContexts
          <5>2. q = Active => RunningAt # "free"
            <6>1. run \in Context /\ (run.at = "switch" => under[stk] \in Context)
              BY DEF SchedInv, TypeOK
            <6>2. QED
              BY <6>1 DEF RunningAt, Context
          <5>3. QED
            BY <3>1, <4>1, <5>1, <5>2, DoingOfFront DEF Resumable
        <4>2. CASE ~Front(q)
          BY <3>1, <4>2, DoingOfOthers
        <4>3. QED
          BY <4>1, <4>2
      <3>3. QED
        BY <3>1, <3>2 DEF T!Alive, doing
    <2>4. QED
      BY <2>1, <2>2, <2>3
  <1> HIDE DEF posted
  <1>3. \A q \in Pids : Front(q)' <=> Front(q)
    BY <1>1 DEF Front
  <1>4. ASSUME \A q \in Pids : Front(q) => Doing(q)' = Doing(q)
        PROVE  T!Next
    <2>1. callers' = callers /\ doing' = doing
      BY <1>1, <1>4, NoneMoves
    <2>2. T!Post(posted)
      BY <1>1, <1>2, <2>1 DEF T!Post
    <2>3. QED
      BY <1>2, <2>2 DEF T!Next
  <1>5. CASE stk \notin sig_pending'
    <2>1. run' = run /\ under' = under
      BY <1>5 DEF Linkage
    <2>2. Active' = Active /\ RunningAt' = RunningAt
      BY <1>1, <2>1 DEF Active, RunningAt
    <2>3. ASSUME NEW q \in Pids, Front(q)
          PROVE  Doing(q)' = Doing(q)
      BY <1>1, <1>3, <2>2, <2>3, DoingOfFront, DoingOfFrontNext
    <2>4. QED
      BY <1>4, <2>3
  <1>6. CASE stk \in sig_pending'
    <2>1. run' = At("trap") /\ ~MidUpdate
      BY <1>6 DEF Linkage
    <2>2. /\ Active = stk /\ RunningAt = run.at
          /\ Front(stk) => Resumable(run, stk)
          /\ Alive(stk) => Front(stk)
      BY <2>1, Steady DEF MidUpdate, RunningAt
    <2>3. Active' = stk /\ RunningAt' = "trap"
      BY <1>1, <2>1 DEF Active, RunningAt, At
    <2>4. ASSUME NEW q \in Pids, q # stk, Front(q)
          PROVE  Doing(q)' = Doing(q)
      BY <1>1, <1>3, <2>2, <2>3, <2>4, DoingOfFront, DoingOfFrontNext
    <2>5. PICK p \in Pids : p = stk
      BY DEF SchedInv, TypeOK
    <2>6. CASE ~Front(p)
      BY <1>4, <2>4, <2>5, <2>6
    <2>7. CASE Front(p)
      <3>1. Doing(p) = run.at /\ Doing(p)' = "trap" /\ Alive(p)
        BY <1>3, <2>2, <2>3, <2>5, <2>7, DoingOfFront, DoingOfFrontNext
      <3>2. callers' = callers /\ doing' = [doing EXCEPT ![p] = "trap"]
        <4>1. callers' = callers /\ doing' = [doing EXCEPT ![p] = Doing(p)']
          BY <1>1, <2>4, <2>5, <2>7, OneMoves
        <4>2. QED
          BY <3>1, <4>1
      <3>3. doing[p] \in T!Interruptible
        BY <2>2, <2>5, <2>7, <3>1 DEF doing, Resumable, T!Interruptible
      <3>4. p \in signalled \cup posted
        <4>1. p \in signalled'
          BY <1>1, <1>6, <2>5, <3>1 DEF signalled, Alive
        <4>2. QED
          BY <1>2, <4>1
      <3>5. T!Trap(p, posted)
        BY <1>1, <1>2, <3>2, <3>3, <3>4 DEF T!Trap
      <3>6. QED
        BY <1>2, <3>5 DEF T!Next
    <2>8. QED
      BY <2>6, <2>7
  <1>7. QED
    BY <1>5, <1>6

(* No process, no signal.                                                    *)
LEMMA TerminalsInit ==
    Init => T!Init
  <1> SUFFICES ASSUME Init
               PROVE  T!Init
    OBVIOUS
  <1>1. \A p \in Pids : ~Alive(p)
    BY DEF Init, Alive
  <1>2. callers = [p \in Pids |-> NULL] /\ doing = [p \in Pids |-> "free"]
    BY <1>1 DEF callers, doing, Doing
  <1>3. QED
    BY <1>2 DEF Init, T!Init, signalled, NOT_EXIST, NULL

(* Every step of Sched is a step of Terminals, or none, or torn.             *)
LEMMA TerminalsStep ==
    SchedInv /\ SchedInv' /\ [Next]_vars => [T!Next \/ torn']_T!vars
  <1> SUFFICES ASSUME SchedInv, SchedInv', [Next]_vars, ~torn'
               PROVE  T!Next \/ UNCHANGED T!vars
    OBVIOUS
  <1>1. ~torn
    BY TornStays DEF SchedInv
  <1> USE <1>1
  <1>2. TypeOK
    BY DEF SchedInv
  <1>3. CASE Syscall \/ SyscallReturn \/ EnterUser \/ HaltReturn
    BY <1>3, ProceedStep
  <1>4. CASE Execute
    BY <1>4, ExecuteStep
  <1>5. CASE Halt \/ HandleSignal
    BY <1>5, ExitStep
  <1>6. CASE Pit \/ PitAlarm \/ AlarmSwitch
    BY <1>6, TimerStep
  <1>7. CASE \E pend \in SUBSET Pids : Linkage(pend)
    BY <1>7, LinkageStep
  <1>8. CASE Exception
    <2>1. {stk} \in SUBSET Pids
      BY <1>2 DEF TypeOK
    <2>2. QED
      BY <1>7, <1>8, <2>1 DEF Exception
  <1>9. CASE Interrupt \/ KeyEcho \/ \E t \in Slots : TerminalSwitch(t)
    <2>1. {} \in SUBSET Pids
      OBVIOUS
    <2>2. QED
      BY <1>7, <1>9, <2>1 DEF Interrupt, KeyEcho, TerminalSwitch
  <1>10. CASE CtrlC
    <2>1. {InterruptTarget} \in SUBSET Pids
      BY <1>2 DEF TypeOK, InterruptTarget, NOT_EXIST
    <2>2. QED
      BY <1>7, <1>10, <2>1 DEF CtrlC
  <1>11. CASE UNCHANGED vars
    <2>1. UNCHANGED <<pid_arr, parent_pcb, sch_ebp, sig_pending, tasks, stk, run, under>>
      BY <1>11 DEF vars, pcbs
    <2>2. \A q \in Pids : Doing(q)' = Doing(q)
      BY <2>1 DEF Doing, Alive, Waiting, Active, RunningAt
    <2>3. doing' = doing
      BY <2>2 DEF doing
    <2>4. callers' = callers /\ signalled' = signalled
      BY <2>1 DEF callers, signalled, Alive
    <2>5. QED
      BY <2>1, <2>3, <2>4 DEF T!vars
  <1>12. QED
    BY <1>3, <1>4, <1>5, <1>6, <1>8, <1>9, <1>10, <1>11 DEF Next

(* Up to the first torn update, every process goes through the steps it      *)
(* would take on a processor of its own: what scheduler(), execute(),        *)
(* halt() and handle_signal() do to the tables, the PCBs and the stacks      *)
(* amounts to the steps of Terminals.                                        *)
THEOREM TimeSharingCorrect == Spec => ImplementsTerminals
  <1>1. QED
    BY TerminalsInit, TerminalsStep, SchedCorrect, PTL DEF Spec, ImplementsTerminals
-----------------------------------------------------------------------------
(* What Sched has from Terminals: the chains of processes, as mapped.        *)

OnTerminals == T!TypeOK /\ T!Chains

(* A process that moves on by itself stays in front: its chain and every      *)
(* other one are what they were.                                              *)
LEMMA MovesAlone ==
    ASSUME OnTerminals, NEW p \in Pids, NEW v \in T!Interruptible,
           doing[p] \notin {"free", "waiting"},
           doing' = [doing EXCEPT ![p] = v], UNCHANGED <<tasks, callers>>,
           signalled' \subseteq Pids
    PROVE  OnTerminals'
  <1>1. T!TypeOK'
    BY DEF OnTerminals, T!TypeOK, T!Interruptible
  <1>2. \A q \in Pids : doing'[q] = "free" <=> doing[q] = "free"
    BY DEF OnTerminals, T!TypeOK, T!Interruptible
  <1>3. \A q \in Pids : doing'[q] = "waiting" <=> doing[q] = "waiting"
    BY DEF OnTerminals, T!TypeOK, T!Interruptible
  <1> QED
    BY <1>1, <1>2, <1>3 DEF OnTerminals, T!Chains, T!Alive

(* A base shell: its process was free, so nothing waited for it, and it was   *)
(* in front of no other terminal.                                             *)
LEMMA StartKeeps ==
    ASSUME NULL \notin Pids, OnTerminals, NEW s \in Slots, NEW c \in Pids, T!Start(s, c)
    PROVE  OnTerminals'
  <1> USE DEF T!Start
  <1>1. T!TypeOK'
    BY DEF OnTerminals, T!TypeOK, T!Interruptible
  <1>2. c # NULL /\ \A t \in Slots : tasks[t] # c
    BY DEF OnTerminals, T!Chains
  <1>3. \A q \in Pids : q # c => doing'[q] = doing[q]
    BY DEF OnTerminals, T!TypeOK
  <1>4. doing'[c] = "enter" /\ callers' = callers /\ ~\E d \in Pids : callers[d] = c
    BY DEF OnTerminals, T!TypeOK, T!Chains
  <1>5. tasks'[s] = c /\ \A t \in Slots : t # s => tasks'[t] = tasks[t]
    BY DEF OnTerminals, T!TypeOK
  <1>6. \A t, u \in Slots : t # u /\ tasks'[t] # NULL => tasks'[t] # tasks'[u]
    BY <1>2, <1>5 DEF OnTerminals, T!Chains
  <1>7. \A q \in Pids : doing'[q] \notin {"free", "waiting"} <=> \E t \in Slots : tasks'[t] = q
    BY <1>2, <1>3, <1>4, <1>5 DEF OnTerminals, T!Chains
  <1>8. \A q \in Pids : doing'[q] = "waiting" <=> \E d \in Pids : callers'[d] = q
    BY <1>3, <1>4 DEF OnTerminals, T!Chains
  <1>9. \A d \in Pids : callers'[d] # NULL => doing'[d] # "free"
    BY <1>3, <1>4 DEF OnTerminals, T!Chains, T!Alive
  <1>10. \A S \in (SUBSET Pids) \ {{}} : /\ \E p \in S : callers'[p] \notin S
                                       /\ \E p \in S : \A d \in S : callers'[d] # p
    BY <1>4 DEF OnTerminals, T!Chains
  <1> QED
    BY <1>1, <1>4, <1>6, <1>7, <1>8, <1>9, <1>10 DEF OnTerminals, T!Chains, T!Alive

(* execute(): the child is in front in its caller's place, and is the only    *)
(* process the caller waits for.                                              *)
LEMMA ExecuteKeeps ==
    ASSUME NULL \notin Pids, OnTerminals, NEW s \in Slots, NEW c \in Pids, T!Execute(s, c)
    PROVE  OnTerminals'
  <1> DEFINE p == tasks[s]
  <1>1. p \in Pids /\ p # c /\ doing[p] = "kernel" /\ doing[c] = "free" /\ c # NULL
    BY DEF T!Execute, OnTerminals, T!TypeOK
  <1>2. /\ tasks' = [tasks EXCEPT ![s] = c]
        /\ callers' = [callers EXCEPT ![c] = p]
        /\ doing' = [doing EXCEPT ![c] = "enter", ![p] = "waiting"]
        /\ signalled' = signalled
    BY DEF T!Execute
  <1>3. T!TypeOK'
    BY <1>1, <1>2 DEF OnTerminals, T!TypeOK, T!Interruptible
  <1>4. /\ doing'[c] = "enter" /\ doing'[p] = "waiting"
        /\ \A q \in Pids : q # c /\ q # p => doing'[q] = doing[q]
        /\ callers'[c] = p /\ \A q \in Pids : q # c => callers'[q] = callers[q]
        /\ tasks'[s] = c /\ \A t \in Slots : t # s => tasks'[t] = tasks[t]
    BY <1>1, <1>2 DEF OnTerminals, T!TypeOK
  <1>5. \A t \in Slots : tasks[t] # c /\ (t # s => tasks[t] # p)
    BY <1>1 DEF OnTerminals, T!Chains
  <1>6. \A d \in Pids : callers[d] # c /\ callers[d] # p
    BY <1>1 DEF OnTerminals, T!Chains
  <1>7. \A t, u \in Slots : t # u /\ tasks'[t] # NULL => tasks'[t] # tasks'[u]
    BY <1>4, <1>5 DEF OnTerminals, T!Chains
  <1>8. \A q \in Pids : doing'[q] \notin {"free", "waiting"} <=> \E t \in Slots : tasks'[t] = q
    BY <1>1, <1>4, <1>5 DEF OnTerminals, T!Chains
  <1>9. \A q \in Pids : doing'[q] = "waiting" <=> \E d \in Pids : callers'[d] = q
    <2> SUFFICES ASSUME NEW q \in Pids
                 PROVE  doing'[q] = "waiting" <=> \E d \in Pids : callers'[d] = q
      OBVIOUS
    <2>1. CASE q = p
      BY <1>4, <2>1
    <2>2. CASE q # p
      <3>1. callers[c] = NULL
        BY <1>1 DEF OnTerminals, T!Chains, T!Alive
      <3>2. doing'[q] = "waiting" <=> doing[q] = "waiting"
        BY <1>1, <1>4, <2>2
      <3>3. (\E d \in Pids : callers'[d] = q) <=> \E d \in Pids : callers[d] = q
        BY <1>4, <2>2, <3>1
      <3> QED
        BY <3>2, <3>3 DEF OnTerminals, T!Chains
    <2> QED
      BY <2>1, <2>2
  <1>10. \A d, e \in Pids : d # e /\ callers'[d] # NULL => callers'[d] # callers'[e]
    BY <1>4, <1>6 DEF OnTerminals, T!Chains
  <1>11. \A d \in Pids : callers'[d] # NULL => doing'[d] # "free"
    BY <1>1, <1>4 DEF OnTerminals, T!Chains, T!Alive
  <1>12. ASSUME NEW S \in (SUBSET Pids) \ {{}}
         PROVE  (\E q \in S : callers'[q] \notin S) /\ (\E q \in S : \A d \in S : callers'[d] # q)
    <2>1. CASE c \notin S
      BY <1>4, <2>1 DEF OnTerminals, T!Chains
    <2>2. CASE c \in S
      <3>1. \A d \in S : callers'[d] # c
        BY <1>1, <1>4, <1>6
      <3>2. CASE S = {c}
        BY <1>1, <1>4, <3>1, <3>2
      <3>3. CASE S # {c}
        <4>1. PICK q \in S \ {c} : callers[q] \notin S \ {c}
          <5>1. S \ {c} \in (SUBSET Pids) \ {{}}
            BY <3>3
          <5> QED
            BY <5>1, Zenon DEF OnTerminals, T!Chains
        <4>2. callers'[q] \notin S
          BY <1>4, <1>6, <4>1
        <4> QED
          BY <2>2, <3>1, <4>1, <4>2
      <3> QED
        BY <3>2, <3>3
    <2> QED
      BY <2>1, <2>2
  <1> QED
    BY <1>3, <1>7, <1>8, <1>9, <1>10, <1>11, <1>12 DEF OnTerminals, T!Chains, T!Alive

(* halt(): what ends was in front, so nothing it calls is left; the process   *)
(* that waited for it alone, if there is one, takes its place.                *)
LEMMA ExitKeeps ==
    ASSUME NULL \notin Pids, OnTerminals, NEW s \in Slots, T!Exit(s)
    PROVE  OnTerminals'
  <1> DEFINE p == tasks[s]
             q == callers[p]
  <1>1. /\ p \in Pids /\ doing[p] \in {"kernel", "trap"}
        /\ tasks' = [tasks EXCEPT ![s] = q]
        /\ callers' = [callers EXCEPT ![p] = NULL]
        /\ doing' = [r \in Pids |-> IF r = p THEN "free" ELSE IF r = q THEN "return" ELSE doing[r]]
        /\ signalled' = signalled \ {p}
    BY DEF T!Exit, OnTerminals, T!TypeOK
  <1>2. q \in Pids \cup {NULL}
    BY <1>1 DEF OnTerminals, T!TypeOK
  <1>3. T!TypeOK'
    BY <1>1, <1>2 DEF OnTerminals, T!TypeOK, T!Interruptible
  <1>4. q # NULL => q \in Pids /\ doing[q] = "waiting" /\ q # p
    BY <1>1, <1>2 DEF OnTerminals, T!Chains
  <1>5. /\ callers'[p] = NULL /\ \A r \in Pids : r # p => callers'[r] = callers[r]
        /\ tasks'[s] = q /\ \A t \in Slots : t # s => tasks'[t] = tasks[t]
        /\ doing'[p] = "free" /\ (q # NULL => doing'[q] = "return")
        /\ \A r \in Pids : r # p /\ r # q => doing'[r] = doing[r]
    BY <1>1, <1>4 DEF OnTerminals, T!TypeOK
  <1>6. \A t \in Slots : (q # NULL => tasks[t] # q) /\ (t # s => tasks[t] # p)
    BY <1>1, <1>4 DEF OnTerminals, T!Chains
  <1>7. \A d \in Pids : callers[d] # p /\ (d # p /\ q # NULL => callers[d] # q)
    BY <1>1 DEF OnTerminals, T!Chains
  <1>8. \A t, u \in Slots : t # u /\ tasks'[t] # NULL => tasks'[t] # tasks'[u]
    BY <1>5, <1>6 DEF OnTerminals, T!Chains
  <1>9. \A r \in Pids : doing'[r] \notin {"free", "waiting"} <=> \E t \in Slots : tasks'[t] = r
    <2> SUFFICES ASSUME NEW r \in Pids
                 PROVE  doing'[r] \notin {"free", "waiting"} <=> \E t \in Slots : tasks'[t] = r
      OBVIOUS
    <2>1. CASE r = p
      BY <1>4, <1>5, <1>6, <2>1
    <2>2. CASE r = q
      BY <1>5, <2>2
    <2>3. CASE r # p /\ r # q
      <3>1. \A t \in Slots : tasks'[t] = r <=> tasks[t] = r
        BY <1>5, <2>3
      <3> QED
        BY <1>5, <2>3, <3>1 DEF OnTerminals, T!Chains
    <2> QED
      BY <2>1, <2>2, <2>3
  <1>10. \A r \in Pids : doing'[r] = "waiting" <=> \E d \in Pids : callers'[d] = r
    <2> SUFFICES ASSUME NEW r \in Pids
                 PROVE  doing'[r] = "waiting" <=> \E d \in Pids : callers'[d] = r
      OBVIOUS
    <2>1. CASE r = p
      BY <1>5, <1>7, <2>1
    <2>2. CASE r = q
      BY <1>5, <1>7, <2>2
    <2>3. CASE r # p /\ r # q
      <3>1. \A d \in Pids : callers'[d] = r <=> callers[d] = r
        BY <1>5, <2>3
      <3> QED
        BY <1>5, <2>3, <3>1 DEF OnTerminals, T!Chains
    <2> QED
      BY <2>1, <2>2, <2>3
  <1>11. \A d, e \in Pids : d # e /\ callers'[d] # NULL => callers'[d] # callers'[e]
    BY <1>5 DEF OnTerminals, T!Chains
  <1>12. \A d \in Pids : callers'[d] # NULL => doing'[d] # "free"
    BY <1>4, <1>5 DEF OnTerminals, T!Chains, T!Alive
  <1>13. ASSUME NEW S \in (SUBSET Pids) \ {{}}
         PROVE  (\E r \in S : callers'[r] \notin S) /\ (\E r \in S : \A d \in S : callers'[d] # r)
    <2>1. PICK first \in S : callers[first] \notin S
      BY DEF OnTerminals, T!Chains
    <2>2. PICK last \in S : \A d \in S : callers[d] # last
      BY DEF OnTerminals, T!Chains
    <2>3. callers'[first] \notin S /\ \A d \in S : callers'[d] # last
      BY <1>5, <2>1, <2>2
    <2> QED
      BY <2>3
  <1> QED
    BY <1>3, <1>8, <1>9, <1>10, <1>11, <1>12, <1>13 DEF OnTerminals, T!Chains, T!Alive

LEMMA OnTerminalsInit ==
    ASSUME NULL \notin Pids, T!Init
    PROVE  OnTerminals
  BY DEF T!Init, OnTerminals, T!TypeOK, T!Chains, T!Alive

LEMMA OnTerminalsNext ==
    ASSUME NULL \notin Pids, OnTerminals, T!Next \/ UNCHANGED T!vars
    PROVE  OnTerminals'
  <1>1. ASSUME NEW p \in Pids, T!Call(p) \/ T!Return(p) \/ T!Enter(p) \/ T!Resumed(p)
        PROVE  OnTerminals'
    <2>1. /\ doing[p] \notin {"free", "waiting"}
          /\ \E v \in T!Interruptible : doing' = [doing EXCEPT ![p] = v]
          /\ UNCHANGED <<tasks, callers>> /\ signalled' \subseteq Pids
      BY <1>1 DEF T!Call, T!Return, T!Enter, T!Resumed, T!Proceed, T!Interruptible, OnTerminals, T!TypeOK
    <2> QED
      BY <2>1, MovesAlone
  <1>2. ASSUME NEW s \in Slots, NEW c \in Pids, T!Start(s, c)
        PROVE  OnTerminals'
    BY <1>2, StartKeeps
  <1>3. ASSUME NEW s \in Slots, NEW c \in Pids, T!Execute(s, c)
        PROVE  OnTerminals'
    BY <1>3, ExecuteKeeps
  <1>4. ASSUME NEW s \in Slots, T!Exit(s)
        PROVE  OnTerminals'
    BY <1>4, ExitKeeps
  <1>5. ASSUME NEW posted \in SUBSET Pids, T!Post(posted)
        PROVE  OnTerminals'
    BY <1>5 DEF T!Post, OnTerminals, T!TypeOK, T!Chains, T!Alive
  <1>6. ASSUME NEW posted \in SUBSET Pids, NEW p \in Pids, T!Trap(p, posted)
        PROVE  OnTerminals'
    <2>1. /\ doing[p] \notin {"free", "waiting"} /\ "trap" \in T!Interruptible
          /\ doing' = [doing EXCEPT ![p] = "trap"]
          /\ UNCHANGED <<tasks, callers>> /\ signalled' \subseteq Pids
      BY <1>6 DEF T!Trap, T!Interruptible, OnTerminals, T!TypeOK
    <2> QED
      BY <2>1, MovesAlone
  <1>7. CASE UNCHANGED T!vars
    BY <1>7 DEF T!vars, OnTerminals, T!TypeOK, T!Chains, T!Alive
  <1> QED
    BY <1>1, <1>2, <1>3, <1>4, <1>5, <1>6, <1>7, Zenon DEF T!Next

LEMMA NoNullPid == NULL \notin Pids
  BY DEF NULL, Pids

LEMMA WaiterGoesOn ==
    ASSUME OnTerminals, T!Next
    PROVE  T!GoesOnAfterChild
  <1> SUFFICES ASSUME NEW p \in Pids, doing[p] = "waiting", doing'[p] # "waiting"
               PROVE  doing'[p] = "return" /\ \E c \in Pids : callers[c] = p /\ doing'[c] = "free"
    BY DEF T!GoesOnAfterChild
  <1>1. PICK s \in Slots : T!Exit(s)
    <2>1. ASSUME NEW q \in Pids, NEW v, doing[q] # "waiting", doing' = [doing EXCEPT ![q] = v]
          PROVE  FALSE
      BY <2>1 DEF OnTerminals, T!TypeOK
    <2>2. ASSUME NEW q \in Pids, T!Call(q) \/ T!Return(q) \/ T!Enter(q) \/ T!Resumed(q)
          PROVE  FALSE
      BY <2>1, <2>2 DEF T!Call, T!Return, T!Enter, T!Resumed, T!Proceed
    <2>3. ASSUME NEW s \in Slots, NEW c \in Pids, T!Start(s, c)
          PROVE  FALSE
      BY <2>1, <2>3 DEF T!Start
    <2>4. ASSUME NEW s \in Slots, NEW c \in Pids, T!Execute(s, c)
          PROVE  FALSE
      BY <2>4 DEF T!Execute, OnTerminals, T!TypeOK
    <2>5. ASSUME NEW posted \in SUBSET Pids, NEW q \in Pids, T!Post(posted) \/ T!Trap(q, posted)
          PROVE  FALSE
      BY <2>1, <2>5 DEF T!Post, T!Trap, T!Interruptible
    <2> QED
      BY <2>2, <2>3, <2>4, <2>5 DEF T!Next
  <1>2. tasks[s] \in Pids /\ doing'[tasks[s]] = "free" /\ p = callers[tasks[s]]
    BY <1>1 DEF T!Exit, OnTerminals, T!TypeOK, T!Chains
  <1> QED
    BY <1>1, <1>2 DEF T!Exit, OnTerminals, T!TypeOK, T!Chains

(* Of Terminals itself, on these processes and slots: exactly the processes   *)
(* in front run, each on one terminal, every other one waits for exactly one *)
(* child, and no chain is a ring.                                             *)
THEOREM TerminalsChains == T!Spec => []T!Chains
  <1>1. T!Init => OnTerminals
    BY NoNullPid, OnTerminalsInit
  <1>2. OnTerminals /\ [T!Next]_T!vars => OnTerminals'
    BY NoNullPid, OnTerminalsNext
  <1>3. OnTerminals => T!Chains
    BY DEF OnTerminals
  <1> QED
    BY <1>1, <1>2, <1>3, PTL DEF T!Spec

(* Of Terminals itself: what waits goes on only when its child has ended, and *)
(* then in its execute().                                                     *)
THEOREM TerminalsChildrenFirst == T!Spec => T!ChildrenFirst
  <1>1. T!Init => OnTerminals
    BY NoNullPid, OnTerminalsInit
  <1>2. OnTerminals /\ [T!Next]_T!vars => OnTerminals'
    BY NoNullPid, OnTerminalsNext
  <1>3. OnTerminals /\ [T!Next]_T!vars => [T!GoesOnAfterChild]_T!vars
    BY WaiterGoesOn
  <1> QED
    BY <1>1, <1>2, <1>3, PTL DEF T!Spec, T!ChildrenFirst

(* A step of Sched, up to the first torn update, keeps the chains.           *)
LEMMA OnTerminalsStep ==
    ASSUME SchedInv, SchedInv', [Next]_vars, torn \/ OnTerminals
    PROVE  torn' \/ OnTerminals'
  <1>1. CASE torn \/ torn'
    BY <1>1, TornStays DEF SchedInv
  <1>2. CASE ~torn /\ ~torn'
    <2>1. T!Next \/ UNCHANGED T!vars
      BY <1>2, TerminalsStep
    <2> QED
      BY <1>2, <2>1, NoNullPid, OnTerminalsNext, Zenon
  <1> QED
    BY <1>1, <1>2

(* Up to the first torn update, exactly the processes in the scheduler's     *)
(* slots run, each on one terminal, every other one waits in execute() for   *)
(* exactly one child, and no chain of callers (syscall.c) is a ring.         *)
THEOREM ChainsCorrect == Spec => [](torn \/ T!Chains)
  <1>1. Init => OnTerminals
    BY TerminalsInit, NoNullPid, OnTerminalsInit
  <1>2. OnTerminals => T!Chains
    BY DEF OnTerminals
  <1> QED
    BY <1>1, <1>2, OnTerminalsStep, SchedCorrect, PTL DEF Spec

(* Up to the first torn update, nothing happens to a process that waits until *)
(* its child has ended; then it goes on in the execute() it waits in (halt()  *)
(* in syscall.c).                                                             *)
THEOREM ChildrenFirstCorrect == Spec => [][T!GoesOnAfterChild \/ torn']_T!vars
  <1>1. Init => OnTerminals
    BY TerminalsInit, NoNullPid, OnTerminalsInit
  <1>2. SchedInv /\ SchedInv' /\ [Next]_vars /\ (torn \/ OnTerminals)
        => [T!GoesOnAfterChild \/ torn']_T!vars
    BY TerminalsStep, WaiterGoesOn, TornStays DEF SchedInv
  <1> QED
    BY <1>1, <1>2, OnTerminalsStep, SchedCorrect, PTL DEF Spec
=============================================================================

---------------------------- MODULE TimeSharing ----------------------------
(***************************************************************************)
(* Sched implements Terminals until the first torn update: every process    *)
(* goes through the steps it would take on a processor of its own.  The     *)
(* mapping says, from the tables, the PCBs and the stack in use, what each  *)
(* process is doing.  A tick of the timer maps to nothing at all, to a      *)
(* signal acted on at the start of a turn, or to the shell it starts in a   *)
(* vacant slot.                                                             *)
(***************************************************************************)
EXTENDS Sched

(* What is being run, entered or returned to; on an alarm tick, what it will *)
(* have saved.                                                               *)
RunningAt == IF run.at = "switch" THEN under[stk].at ELSE run.at

Doing(p) ==
    IF ~Alive(p) THEN "free"
    ELSE IF Waiting(p) THEN "waiting"
    ELSE IF p = Active THEN RunningAt
    ELSE sch_ebp[p].at

callers == [p \in Pids |-> IF Alive(p) THEN parent_pcb[p] ELSE NULL]
doing == [p \in Pids |-> Doing(p)]
signalled == {p \in sig_pending : Alive(p)}

T == INSTANCE Terminals WITH front <- tasks, caller <- callers, at <- doing,
                             pending <- signalled

(* Sched implements Terminals, up to the first torn update. *)
ImplementsTerminals == T!Init /\ [][T!Next \/ torn']_T!vars
=============================================================================

----------------------------- MODULE Terminals -----------------------------
(***************************************************************************)
(* What the scheduler of the kernel is there to provide: on each terminal   *)
(* a chain of processes, of which the last one runs and every other waits   *)
(* for its child, each as if it had a processor of its own.  There is no    *)
(* timer, no current process and no shared stack here.  Module TimeSharing  *)
(* relates Sched to this specification.                                     *)
(***************************************************************************)
EXTENDS Naturals, FiniteSets

CONSTANTS
    Pids,       \* process ids
    Slots,      \* terminals
    NULL        \* no process, and no member of Pids

VARIABLES
    front,      \* the process that runs on each terminal, if any
    caller,     \* the process that waits in execute() for this one, if any
    at,         \* what each process is doing
    pending     \* the processes with a killing signal pending

vars == <<front, caller, at, pending>>

Interruptible == {"user", "kernel", "enter", "trap"}
Alive(p) == at[p] # "free"

TypeOK ==
    /\ front \in [Slots -> Pids \cup {NULL}]
    /\ caller \in [Pids -> Pids \cup {NULL}]
    /\ at \in [Pids -> Interruptible \cup {"free", "waiting", "return"}]
    /\ pending \subseteq Pids

Init ==
    /\ front = [s \in Slots |-> NULL]
    /\ caller = [p \in Pids |-> NULL]
    /\ at = [p \in Pids |-> "free"]
    /\ pending = {}

-----------------------------------------------------------------------------
(* A process on its own: into a system call and back; from execute() to the  *)
(* first instruction of the program; from the halt() of a child back into    *)
(* the execute() that started it.                                            *)
Proceed(p, from, to) ==
    /\ at[p] = from
    /\ at' = [at EXCEPT ![p] = to]
    /\ UNCHANGED <<front, caller, pending>>

Call(p) == Proceed(p, "user", "kernel")
Return(p) == Proceed(p, "kernel", "user")
Enter(p) == Proceed(p, "enter", "user")
Resumed(p) == Proceed(p, "return", "kernel")

(* A terminal without a process gets a base shell. *)
Start(s, c) ==
    /\ front[s] = NULL
    /\ at[c] = "free"
    /\ front' = [front EXCEPT ![s] = c]
    /\ at' = [at EXCEPT ![c] = "enter"]
    /\ UNCHANGED <<caller, pending>>

(* execute(): the caller waits, the child takes its place. *)
Execute(s, c) ==
    /\ front[s] # NULL
    /\ at[front[s]] = "kernel"
    /\ at[c] = "free"
    /\ front' = [front EXCEPT ![s] = c]
    /\ caller' = [caller EXCEPT ![c] = front[s]]
    /\ at' = [at EXCEPT ![c] = "enter", ![front[s]] = "waiting"]
    /\ UNCHANGED pending

(* halt(), called or as the action of a signal: the process that waits, if   *)
(* any, is back in front.                                                    *)
Exit(s) ==
    LET p == front[s] IN
    /\ p # NULL
    /\ at[p] = "kernel" \/ (at[p] = "trap" /\ p \in pending)
    /\ front' = [front EXCEPT ![s] = caller[p]]
    /\ caller' = [caller EXCEPT ![p] = NULL]
    /\ at' = [q \in Pids |-> IF q = p THEN "free"
                             ELSE IF q = caller[p] THEN "return"
                             ELSE at[q]]
    /\ pending' = pending \ {p}

(* A killing signal for the processes in posted. *)
Post(posted) ==
    /\ \A p \in posted : Alive(p)
    /\ pending' = pending \cup posted
    /\ UNCHANGED <<front, caller, at>>

(* An interrupt, a fault or a new turn on the processor takes p into a       *)
(* handler, after which a pending signal is acted on; it may post one.       *)
Trap(p, posted) ==
    /\ \A q \in posted : Alive(q)
    /\ at[p] \in Interruptible
    /\ p \in pending \cup posted
    /\ pending' = pending \cup posted
    /\ at' = [at EXCEPT ![p] = "trap"]
    /\ UNCHANGED <<front, caller>>

Next ==
    \/ \E p \in Pids : Call(p) \/ Return(p) \/ Enter(p) \/ Resumed(p)
    \/ \E s \in Slots, c \in Pids : Start(s, c) \/ Execute(s, c)
    \/ \E s \in Slots : Exit(s)
    \/ \E posted \in SUBSET Pids : Post(posted) \/ \E p \in Pids : Trap(p, posted)

Spec == Init /\ [][Next]_vars

-----------------------------------------------------------------------------
(* Exactly the processes in front run, each on one terminal; every other     *)
(* live process waits for exactly one child; and no chain is a ring: of any  *)
(* processes one was called by none of them, and one calls none of them.     *)
Chains ==
    /\ \A s, t \in Slots : s # t /\ front[s] # NULL => front[s] # front[t]
    /\ \A p \in Pids : at[p] \notin {"free", "waiting"} <=> \E s \in Slots : front[s] = p
    /\ \A p \in Pids : at[p] = "waiting" <=> \E c \in Pids : caller[c] = p
    /\ \A c, d \in Pids : c # d /\ caller[c] # NULL => caller[c] # caller[d]
    /\ \A c \in Pids : caller[c] # NULL => Alive(c)
    /\ \A S \in (SUBSET Pids) \ {{}} : /\ \E p \in S : caller[p] \notin S
                                      /\ \E p \in S : \A c \in S : caller[c] # p

(* While a process waits nothing happens to it until its child is gone; then *)
(* it continues in the execute() it waits in, and only a process without     *)
(* children ends.                                                            *)
GoesOnAfterChild ==
    \A p \in Pids : at[p] = "waiting" /\ at'[p] # "waiting" =>
        at'[p] = "return" /\ \E c \in Pids : caller[c] = p /\ at'[c] = "free"

ChildrenFirst == [][GoesOnAfterChild]_vars
=============================================================================

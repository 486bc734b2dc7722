------------------------------ MODULE Signals ------------------------------
(***************************************************************************)
(* Signals of one process: send_signal() and handle_signal() (signal.c),    *)
(* the interrupt and exception linkage that calls the latter on the way out *)
(* (interrupt_linkage.S), set_handler() and sigreturn() (syscall.c), and a  *)
(* program that installs handlers as ece391sigtest.c does.                  *)
(*                                                                         *)
(* Other processes are seen only as what they do to this one: a tick may    *)
(* switch it out, and a Ctrl-C that it does not see may mark it meanwhile.  *)
(* The user stack is memory: a frame is written below the stack pointer of  *)
(* the context found on the kernel stack and read back by sigreturn() at    *)
(* whatever the stack pointer is then.                                      *)
(***************************************************************************)
EXTENDS Integers, Sequences, FiniteSets, FiniteSetsExt, SequencesExt

CONSTANTS
    Faults,     \* the exception vectors that user code may raise
    Handled,    \* the signals the program may install a handler for
    MAX_NEST,   \* bound: handlers of the program that nest
    MAX_DEPTH   \* bound: frames on the kernel stack

ASSUME SignalsAssumption ==
    /\ Faults \subseteq 0 .. 19
    /\ Handled \subseteq 0 .. 4
    /\ MAX_NEST \in Nat \ {0}
    /\ MAX_DEPTH \in Nat \ {0}

DIV_ZERO == 0
SEGFAULT == 1
INTERRUPT == 2
ALARM == 3
Signals == 0 .. 4

PIT_VEC == 32
KEYBOARD_VEC == 33
MOUSE_VEC == 44
SYSTEM_CALL_VEC == 128
OK == -1        \* eax: an operand that the next instruction can use

VARIABLES
    sig_pending,    \* signals posted and not yet taken
    sig_masked,     \* set with every signal taken; no code reads it
    signal_handler, \* "kill_task", "ignore" or "user"
    user,           \* the user context that runs or will run next
    mem,            \* the user stack: what lies at each depth
    kstack,         \* the frames on the kernel stack
    state,          \* "alive", "dead" or "wild" (jumped into nowhere)
    truth           \* history: the contexts that handlers have interrupted

sigs == <<sig_pending, sig_masked, signal_handler>>
vars == <<sig_pending, sig_masked, signal_handler, user, mem, kstack, state, truth>>

(* act numbers the handler invocations, 0 is main(); eax is OK or the vector *)
(* of the exception that the next instruction will raise on it.              *)
Start(a, e) == [act |-> a, pc |-> 0, eax |-> OK, esp |-> e]
Context == [act : 0 .. MAX_NEST + 1, pc : {0, 1}, eax : Faults \cup {OK},
            esp : 0 .. MAX_NEST + 1]
Empty == [sig |-> -1, context |-> Start(0, 0)]
Frame == [sig : Signals \cup {-1}, context : Context]

(***************************************************************************)
(* The words of hwcontext_t, lowest address first.  The linkage pushes the  *)
(* registers; what lies above them depends on the vector.                   *)
(***************************************************************************)
Registers == <<"ebx", "ecx", "edx", "esi", "edi", "ebp", "eax", "ds", "es", "fs">>
hwcontext_t == Registers \o
    <<"error_code", "return_address", "cs", "eflags", "esp", "ss">>

(* The vectors for which the processor pushes an error code. *)
PushedByCpu(v, from) ==
    (IF v \in {8, 10, 11, 12, 13, 14, 17} THEN <<"error_code">> ELSE <<>>)
    \o <<"return_address", "cs", "eflags">>
    \o (IF from = "user" THEN <<"esp", "ss">> ELSE <<"kernel word">>)

(* Mutant: the page fault's linkage is built with INTR_LINK. *)
LinkagePageFault(v) ==
    IF v \in {8, 10, 11, 12, 13, 17} THEN Registers
    ELSE Registers \o <<"error_code">>

(* INTR_LINK_ERROR and INTR_LINK, and the system call's own linkage. *)
Linkage(v) ==
    IF v \in {8, 10, 11, 12, 13, 14, 17} THEN Registers
    ELSE Registers \o <<"error_code">>

StackWords(f) == Linkage(f.vec) \o PushedByCpu(f.vec, f.from)

(* What handle_signal() finds in a field of its hwcontext_t. *)
ContextField(f, field) ==
    LET i == CHOOSE j \in DOMAIN hwcontext_t : hwcontext_t[j] = field
    IN IF i \in DOMAIN StackWords(f) THEN StackWords(f)[i] ELSE "kernel word"

(* exception_handler_de() and the eighteen others. *)
FaultSignal(v) == IF v = 0 THEN DIV_ZERO ELSE SEGFAULT

Top == kstack[Len(kstack)]
InUser == state = "alive" /\ kstack = <<>>
InCall == state = "alive" /\ kstack # <<>> /\ Top.vec = SYSTEM_CALL_VEC
InHandler == state = "alive" /\ kstack # <<>> /\ Top.vec # SYSTEM_CALL_VEC
From == IF kstack = <<>> THEN "user" ELSE "kernel"

(* Interrupts come when they are enabled: in user code, in a system call and *)
(* in a handler after a sti().                                               *)
Interruptible ==
    /\ state = "alive"
    /\ kstack # <<>> => Top.on /\ ~Top.out
    /\ Len(kstack) < MAX_DEPTH

(* on: the handler has enabled interrupts; out: another process runs. *)
Enter(v, on, out) ==
    kstack' = Append(kstack, [vec |-> v, from |-> From, on |-> on, out |-> out])

-----------------------------------------------------------------------------
(* The memory a process starts with is its own only from its first frame on. *)
Init ==
    /\ sig_pending = {}
    /\ sig_masked = FALSE
    /\ signal_handler = [s \in Signals |-> IF s <= 2 THEN "kill_task" ELSE "ignore"]
    /\ user = Start(0, 0)
    /\ mem = [d \in 1 .. MAX_NEST + 1 |-> Empty]
    /\ kstack = <<>>
    /\ state = "alive"
    /\ truth = <<>>

(* execute() gives the next process of this PCB no signals and the default   *)
(* handlers.                                                                 *)
Execute ==
    /\ state = "dead"
    /\ sig_pending' = {}
    /\ sig_masked' = FALSE
    /\ signal_handler' = [s \in Signals |-> IF s <= 2 THEN "kill_task" ELSE "ignore"]
    /\ user' = Start(0, 0)
    /\ mem' = [d \in 1 .. MAX_NEST + 1 |-> Empty]
    /\ kstack' = <<>>
    /\ state' = "alive"
    /\ truth' = <<>>

(* One instruction of user code.  The next one may fault, in main() only. *)
UserStep ==
    /\ InUser
    /\ user.eax = OK
    /\ \E operand \in IF user.act = 0 THEN Faults \cup {OK} ELSE {OK} :
          user' = [user EXCEPT !.pc = 1 - @, !.eax = operand]
    /\ UNCHANGED <<sigs, mem, kstack, state, truth>>

(* A handler stores a usable pointer seven words above its argument, into    *)
(* the context that sigreturn() will restore (segfault_sighandler).          *)
Repair ==
    /\ InUser
    /\ user.act > 0
    /\ mem[user.esp].sig = SEGFAULT
    /\ hwcontext_t[7] = "eax"
    /\ mem' = [mem EXCEPT ![user.esp].context.eax = OK]
    /\ UNCHANGED <<sigs, user, kstack, state, truth>>

(* A system call runs with interrupts on and does not end in handle_signal. *)
SystemCall ==
    /\ InUser
    /\ user.eax = OK
    /\ Enter(SYSTEM_CALL_VEC, TRUE, FALSE)
    /\ UNCHANGED <<sigs, user, mem, state, truth>>

SystemReturn ==
    /\ InCall
    /\ kstack' = <<>>
    /\ UNCHANGED <<sigs, user, mem, state, truth>>

(* set_handler(); there is no way back to the default. *)
SetHandler(s) ==
    /\ InCall
    /\ signal_handler' = [signal_handler EXCEPT ![s] = "user"]
    /\ kstack' = <<>>
    /\ UNCHANGED <<sig_pending, sig_masked, user, mem, state, truth>>

(* Mutant: the whole context comes from the handler's own stack pointer less *)
(* one, as if the return address were still there.                           *)
SavedContextBelow == mem[IF user.esp > 1 THEN user.esp - 1 ELSE 1].context

(* hwcontext at user_esp + 4, once the handler has popped its return address. *)
SavedContext == mem[user.esp].context

(* sigreturn(): unmask, then the context on the user stack replaces the one  *)
(* on the kernel stack.  Without a frame it is whatever the stack holds.     *)
Sigreturn ==
    /\ InCall
    /\ sig_masked' = FALSE
    /\ IF user.esp = 0
       THEN state' = "wild" /\ UNCHANGED <<user, kstack, truth>>
       ELSE /\ user' = SavedContext
            /\ kstack' = <<>>
            /\ truth' = IF truth = <<>> THEN truth ELSE Front(truth)
            /\ UNCHANGED state
    /\ UNCHANGED <<sig_pending, signal_handler, mem>>

-----------------------------------------------------------------------------
(* send_signal() to this process: pending signals of a kind are one. *)
Post(s) == sig_pending' = sig_pending \cup {s}

(* The exception of the next user instruction.  send_signal() ends in sti(). *)
Fault ==
    /\ InUser
    /\ user.eax # OK
    /\ Enter(user.eax, TRUE, FALSE)
    /\ Post(FaultSignal(user.eax))
    /\ UNCHANGED <<sig_masked, signal_handler, user, mem, state, truth>>

(* A system call uses a bad pointer of the user's. *)
KernelFault(v) ==
    /\ InCall
    /\ Len(kstack) < MAX_DEPTH
    /\ Enter(v, TRUE, FALSE)
    /\ Post(FaultSignal(v))
    /\ UNCHANGED <<sig_masked, signal_handler, user, mem, state, truth>>

(* A key that is not Ctrl-C, or a mouse packet: the keyboard enables         *)
(* interrupts before it returns, the mouse does not.                         *)
Device(v) ==
    /\ Interruptible
    /\ Enter(v, v = KEYBOARD_VEC, FALSE)
    /\ UNCHANGED <<sigs, user, mem, state, truth>>

(* Ctrl-C while this process has the visible terminal. *)
CtrlC ==
    /\ Interruptible
    /\ Enter(KEYBOARD_VEC, TRUE, FALSE)
    /\ Post(INTERRUPT)
    /\ UNCHANGED <<sig_masked, signal_handler, user, mem, state, truth>>

(* A tick, or the tick that sends ALARM and leaves interrupts on; either     *)
(* switches to another process before it returns.                            *)
Tick(alarm) ==
    /\ Interruptible
    /\ Enter(PIT_VEC, alarm, TRUE)
    /\ IF alarm THEN Post(ALARM) ELSE UNCHANGED sig_pending
    /\ UNCHANGED <<sig_masked, signal_handler, user, mem, state, truth>>

(* Another process runs: Ctrl-C may name this one. *)
CtrlCElsewhere ==
    /\ InHandler
    /\ Top.out
    /\ Post(INTERRUPT)
    /\ UNCHANGED <<sig_masked, signal_handler, user, mem, kstack, state, truth>>

SwitchBack ==
    /\ InHandler
    /\ Top.out
    /\ kstack' = [kstack EXCEPT ![Len(kstack)].out = FALSE]
    /\ UNCHANGED <<sigs, user, mem, state, truth>>

-----------------------------------------------------------------------------
Leave == kstack' = Front(kstack)

(* The scan of sig_pending from 0. *)
NextSignal == Min(sig_pending)

(* Mutant: all pending signals are cleared with the one that is taken. *)
TakeAll == sig_pending' = {} /\ sig_masked' = TRUE

(* The signal is cleared before anything is known about its handler. *)
Take == sig_pending' = sig_pending \ {NextSignal} /\ sig_masked' = TRUE

(* Mutant: context->esp is not moved below the frame. *)
PushFrameInPlace(s) ==
    /\ mem' = [mem EXCEPT ![user.esp + 1] = [sig |-> s, context |-> user]]
    /\ user' = Start(Len(truth) + 1, user.esp)

(* The frame below the interrupted stack pointer, and the jump to the        *)
(* handler when iret pops the changed context.                               *)
PushFrame(s) ==
    /\ mem' = [mem EXCEPT ![user.esp + 1] = [sig |-> s, context |-> user]]
    /\ user' = Start(Len(truth) + 1, user.esp + 1)

(* handle_signal() at the end of a handler, and the return from it. *)
NoSignal ==
    /\ InHandler /\ ~Top.out
    /\ sig_pending = {}
    /\ Leave
    /\ UNCHANGED <<sigs, user, mem, state, truth>>

Default ==
    /\ InHandler /\ ~Top.out
    /\ sig_pending # {}
    /\ signal_handler[NextSignal] # "user"
    /\ sig_pending' = sig_pending \ {NextSignal}
    /\ sig_masked' = FALSE
    /\ IF signal_handler[NextSignal] = "kill_task"
       THEN state' = "dead" /\ UNCHANGED kstack
       ELSE Leave /\ UNCHANGED state
    /\ UNCHANGED <<signal_handler, user, mem, truth>>

(* A program's handler.  An interrupt of kernel code pushed no esp: the test *)
(* against USER_PROGRAM_IMG_START reads a word of the interrupted code, and  *)
(* takes it for a user stack if it looks like one.                           *)
Custom ==
    /\ InHandler /\ ~Top.out
    /\ sig_pending # {}
    /\ signal_handler[NextSignal] = "user"
    /\ Take
    /\ \/ /\ ContextField(Top, "esp") = "esp"
          /\ PushFrame(NextSignal)
          /\ truth' = Append(truth, user)
          /\ Leave
          /\ UNCHANGED state
       \/ /\ ContextField(Top, "esp") # "esp"
          /\ Leave
          /\ UNCHANGED <<user, mem, state, truth>>
       \/ /\ ContextField(Top, "esp") # "esp"
          /\ state' = "wild"
          /\ UNCHANGED <<user, mem, kstack, truth>>
    /\ UNCHANGED signal_handler

HandleSignal == NoSignal \/ Default \/ Custom

(* After a wild jump the model says nothing. *)
WildStep == state = "wild" /\ UNCHANGED vars

Next ==
    \/ Execute \/ UserStep \/ Repair
    \/ SystemCall \/ SystemReturn \/ Sigreturn
    \/ \E s \in Handled : SetHandler(s)
    \/ Fault
    \/ \E v \in Faults : KernelFault(v)
    \/ \E v \in {KEYBOARD_VEC, MOUSE_VEC} : Device(v)
    \/ CtrlC \/ CtrlCElsewhere
    \/ \E alarm \in BOOLEAN : Tick(alarm)
    \/ SwitchBack
    \/ HandleSignal
    \/ WildStep

Spec == Init /\ [][Next]_vars

(* The bound: no more than MAX_NEST handlers interrupt one another.  The     *)
(* next one would write above the stack the model has.                       *)
Nesting == Len(truth) <= MAX_NEST

(* A handler runs to its end, a process that was switched out is resumed,    *)
(* and the timer, which the controller holds while interrupts are off, gets  *)
(* through.                                                                  *)
FairSpec ==
    /\ Spec
    /\ WF_vars(HandleSignal)
    /\ WF_vars(SwitchBack)
    /\ SF_vars(Tick(FALSE))

-----------------------------------------------------------------------------
TypeOK ==
    /\ sig_pending \subseteq Signals
    /\ sig_masked \in BOOLEAN
    /\ signal_handler \in [Signals -> {"kill_task", "ignore", "user"}]
    /\ user \in Context
    /\ mem \in [1 .. MAX_NEST + 1 -> Frame]
    /\ kstack \in Seq([vec : Nat, from : {"user", "kernel"}, on : BOOLEAN, out : BOOLEAN])
    /\ state \in {"alive", "dead", "wild"}
    /\ truth \in Seq(Context)

(* Each handler that runs has its own frame on the user stack, and the frame *)
(* holds the context that the signal interrupted, up to a repaired operand:  *)
(* handlers that nest, one interrupting another, do not write over each      *)
(* other's frames (signal.c 101-110).                                        *)
(* The state is well formed besides: TypeOK, checked here once.             *)
FramesIntact ==
    /\ TypeOK
    /\ state = "alive" =>
          /\ user.esp = Len(truth)
          /\ \A d \in DOMAIN truth :
                /\ mem[d].context = [truth[d] EXCEPT !.eax = mem[d].context.eax]
                /\ mem[d].context.eax \in {truth[d].eax, OK}

(* sigreturn() continues exactly where the innermost handler interrupted:    *)
(* same code, same stack, registers included.                                *)
ReturnsToInterrupted ==
    [][Len(truth') < Len(truth) /\ state = "alive" /\ state' = "alive" =>
           LET was == truth[Len(truth)]
           IN user' \in {was, [was EXCEPT !.eax = OK]}]_vars

(* Every handler reads its context where the linkage put it: a frame of user *)
(* code has its stack pointer and its return address at the offsets of       *)
(* hwcontext_t, whatever the vector, so nothing runs wild but through kernel *)
(* code or a sigreturn() without a frame.                                    *)
ContextFound ==
    \A i \in DOMAIN kstack :
        kstack[i].vec # SYSTEM_CALL_VEC =>
            /\ ContextField(kstack[i], "return_address") = "return_address"
            /\ kstack[i].from = "user" => ContextField(kstack[i], "esp") = "esp"

(* A killing signal with the default action ends the process, however many   *)
(* other signals, handlers and faults there are, a system call that faults   *)
(* for ever included.                                                        *)
KillIsActedOn ==
    \A s \in {DIV_ZERO, SEGFAULT, INTERRUPT} :
        (s \in sig_pending /\ signal_handler[s] = "kill_task")
            ~> (state # "alive" \/ signal_handler[s] # "kill_task")

(* signal.c 62, "mask all other signals": one handler at a time. *)
OneHandlerAtATime == Len(truth) <= 1
=============================================================================

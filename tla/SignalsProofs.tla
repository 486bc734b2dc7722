--------------------------- MODULE SignalsProofs ---------------------------
(***************************************************************************)
(* The frames of module Signals, for any faults, any handlers and any bound *)
(* on how deep they nest.  The stack of the model ends MAX_NEST + 1 frames   *)
(* up, so the theorems about it assume []Nesting; every finite behaviour    *)
(* satisfies it for some MAX_NEST.                                          *)
(***************************************************************************)
EXTENDS Signals, SequenceTheorems, TLAPS

KernelFrame == [vec : Nat, from : {"user", "kernel"}, on : BOOLEAN, out : BOOLEAN]
KernelTyped == kstack \in Seq(KernelFrame)

SigsTyped ==
    /\ sig_pending \subseteq Signals
    /\ sig_masked \in BOOLEAN
    /\ signal_handler \in [Signals -> {"kill_task", "ignore", "user"}]

StackTyped ==
    /\ user \in Context
    /\ mem \in [1 .. MAX_NEST + 1 -> Frame]
    /\ state \in {"alive", "dead", "wild"}
    /\ truth \in Seq(Context)

(* The handlers nest as they are numbered: the context on level d of the     *)
(* user stack is that of handler d - 1, whose stack pointer was at d - 1.    *)
Saved(d) ==
    /\ truth[d].esp = d - 1 /\ truth[d].act = d - 1
    /\ mem[d].context = [truth[d] EXCEPT !.eax = mem[d].context.eax]
    /\ mem[d].context.eax \in {truth[d].eax, OK}

Nested ==
    /\ user.esp = Len(truth) /\ user.act = Len(truth)
    /\ \A d \in DOMAIN truth : Saved(d)

StackInv == StackTyped /\ (state = "alive" => Nested)

Inv == KernelTyped /\ SigsTyped /\ StackInv

-----------------------------------------------------------------------------
(* Where the words of a kernel frame are. *)

Words == {"ebx", "ecx", "edx", "esi", "edi", "ebp", "eax", "ds", "es", "fs", "error_code",
          "return_address", "cs", "eflags", "esp", "ss", "kernel word"}

LEMMA ConcatAt ==
    ASSUME NEW s \in Seq(Words), NEW t \in Seq(Words)
    PROVE  /\ s \o t \in Seq(Words) /\ Len(s \o t) = Len(s) + Len(t)
           /\ \A j \in 1 .. Len(s) : (s \o t)[j] = s[j]
           /\ \A j \in 1 .. Len(t) : (s \o t)[Len(s) + j] = t[j]
  <1>1. s \o t \in Seq(Words) /\ Len(s \o t) = Len(s) + Len(t)
    OBVIOUS
  <1>2. \A j \in 1 .. Len(s) : (s \o t)[j] = s[j]
    OBVIOUS
  <1>3. \A j \in 1 .. Len(t) : (s \o t)[Len(s) + j] = t[j]
    OBVIOUS
  <1> QED
    BY <1>1, <1>2, <1>3, Zenon

LEMMA RegistersAre ==
    /\ Registers \in Seq(Words) /\ Len(Registers) = 10
    /\ \A j \in 1 .. 10 : Registers[j] # "esp" /\ Registers[j] # "return_address"
  <1>1. Registers \in Seq(Words)
    BY DEF Registers, Words
  <1>2. Len(Registers) = 10 /\ \A j \in 1 .. 10 : Registers[j] # "esp" /\ Registers[j] # "return_address"
    BY DEF Registers
  <1> QED
    BY <1>1, <1>2

LEMMA ContextWords ==
    /\ hwcontext_t \in Seq(Words) /\ Len(hwcontext_t) = 16
    /\ hwcontext_t[12] = "return_address" /\ hwcontext_t[15] = "esp"
    /\ \A j \in 1 .. 16 : (j # 12 => hwcontext_t[j] # "return_address")
                       /\ (j # 15 => hwcontext_t[j] # "esp")
  <1> DEFINE rest == <<"error_code", "return_address", "cs", "eflags", "esp", "ss">>
  <1>1. rest \in Seq(Words) /\ Len(rest) = 6
    BY DEF Words
  <1>2. /\ rest[2] = "return_address" /\ rest[5] = "esp"
        /\ \A j \in 1 .. 6 : (j # 2 => rest[j] # "return_address") /\ (j # 5 => rest[j] # "esp")
    OBVIOUS
  <1>3. hwcontext_t = Registers \o rest
    BY DEF hwcontext_t
  <1> HIDE DEF rest
  <1>4. /\ hwcontext_t \in Seq(Words) /\ Len(hwcontext_t) = 16
        /\ \A j \in 1 .. 10 : hwcontext_t[j] = Registers[j]
        /\ \A j \in 1 .. 6 : hwcontext_t[10 + j] = rest[j]
    <2>1. /\ hwcontext_t \in Seq(Words) /\ Len(hwcontext_t) = 10 + 6
          /\ \A j \in 1 .. 10 : hwcontext_t[j] = Registers[j]
          /\ \A j \in 1 .. 6 : hwcontext_t[10 + j] = rest[j]
      <3>1. /\ Registers \o rest \in Seq(Words) /\ Len(Registers \o rest) = Len(Registers) + Len(rest)
            /\ \A j \in 1 .. Len(Registers) : (Registers \o rest)[j] = Registers[j]
            /\ \A j \in 1 .. Len(rest) : (Registers \o rest)[Len(Registers) + j] = rest[j]
        BY <1>1, RegistersAre, ConcatAt, Zenon
      <3> QED
        BY <1>1, <1>3, <3>1, RegistersAre, Zenon
    <2> QED
      BY <2>1
  <1>5. hwcontext_t[10 + 2] = "return_address" /\ hwcontext_t[10 + 5] = "esp"
    BY <1>2, <1>4
  <1>6. \A j \in 11 .. 16 : (j # 12 => hwcontext_t[j] # "return_address")
                          /\ (j # 15 => hwcontext_t[j] # "esp")
    <2> SUFFICES ASSUME NEW k \in 1 .. 6
                 PROVE  /\ k # 2 => hwcontext_t[10 + k] # "return_address"
                        /\ k # 5 => hwcontext_t[10 + k] # "esp"
      <3>1. \A j \in 11 .. 16 : j - 10 \in 1 .. 6 /\ 10 + (j - 10) = j
        OBVIOUS
      <3> QED
        BY <3>1
    <2> QED
      BY <1>2, <1>4
  <1> QED
    BY <1>4, <1>5, <1>6, RegistersAre

LEMMA FieldsAt ==
    /\ (CHOOSE j \in DOMAIN hwcontext_t : hwcontext_t[j] = "return_address") = 12
    /\ (CHOOSE j \in DOMAIN hwcontext_t : hwcontext_t[j] = "esp") = 15
  <1>1. DOMAIN hwcontext_t = 1 .. 16
    BY ContextWords
  <1>2. \A j \in DOMAIN hwcontext_t : hwcontext_t[j] = "return_address" <=> j = 12
    BY <1>1, ContextWords
  <1>3. \A j \in DOMAIN hwcontext_t : hwcontext_t[j] = "esp" <=> j = 15
    BY <1>1, ContextWords
  <1> QED
    BY <1>1, <1>2, <1>3

(* Whatever the vector, the linkage and the processor between them put the   *)
(* return address twelfth and, from user code, the stack pointer fifteenth.  *)
LEMMA WordsAt ==
    ASSUME NEW f
    PROVE  /\ 12 \in DOMAIN StackWords(f) /\ StackWords(f)[12] = "return_address"
           /\ f.from = "user" => 15 \in DOMAIN StackWords(f) /\ StackWords(f)[15] = "esp"
  <1> DEFINE hasCode == f.vec \in {8, 10, 11, 12, 13, 14, 17}
             code == IF hasCode THEN <<"error_code">> ELSE <<>>
             three == <<"return_address", "cs", "eflags">>
             last == IF f.from = "user" THEN <<"esp", "ss">> ELSE <<"kernel word">>
             c == Len(code)
             l == Len(last)
  <1>1. /\ <<"error_code">> \in Seq(Words) /\ <<>> \in Seq(Words)
        /\ three \in Seq(Words)
        /\ <<"esp", "ss">> \in Seq(Words) /\ <<"kernel word">> \in Seq(Words)
    BY DEF Words
  <1>2. code \in Seq(Words) /\ c = (IF hasCode THEN 1 ELSE 0)
    BY <1>1
  <1>3. last \in Seq(Words) /\ l \in {1, 2} /\ (f.from = "user" => l = 2 /\ last[1] = "esp")
    BY <1>1
  <1>4. Len(three) = 3 /\ three[1] = "return_address"
    OBVIOUS
  <1>5. PushedByCpu(f.vec, f.from) = (code \o three) \o last
    BY DEF PushedByCpu
  <1>6. Linkage(f.vec) = IF hasCode THEN Registers ELSE Registers \o <<"error_code">>
    BY DEF Linkage
  <1>7. Len(<<"error_code">>) = 1
    OBVIOUS
  <1>8. Registers \o <<"error_code">> \in Seq(Words) /\ Len(Registers \o <<"error_code">>) = 10 + 1
    <2>1. /\ Registers \o <<"error_code">> \in Seq(Words) /\ Len(Registers \o <<"error_code">>) = Len(Registers) + Len(<<"error_code">>)
          /\ \A j \in 1 .. Len(Registers) : (Registers \o <<"error_code">>)[j] = Registers[j]
          /\ \A j \in 1 .. Len(<<"error_code">>) : (Registers \o <<"error_code">>)[Len(Registers) + j] = <<"error_code">>[j]
      BY <1>1, RegistersAre, ConcatAt, Zenon
    <2> QED
      BY <1>7, <2>1, RegistersAre, Zenon
  <1> HIDE DEF hasCode, code, three, last
  <1>9. Linkage(f.vec) \in Seq(Words) /\ Len(Linkage(f.vec)) = 11 - c
    BY <1>2, <1>6, <1>8, RegistersAre
  <1>10. c \in {0, 1} /\ c \in Nat /\ l \in Nat /\ 3 \in Nat /\ c + 3 \in Nat /\ 11 - c \in Nat
    BY <1>2, <1>3
  <1> HIDE DEF c, l
  <1>11. /\ code \o three \in Seq(Words) /\ Len(code \o three) = c + 3
         /\ \A j \in 1 .. 3 : (code \o three)[c + j] = three[j]
    <2>1. /\ code \o three \in Seq(Words) /\ Len(code \o three) = Len(code) + Len(three)
          /\ \A j \in 1 .. Len(code) : (code \o three)[j] = code[j]
          /\ \A j \in 1 .. Len(three) : (code \o three)[Len(code) + j] = three[j]
      BY <1>1, <1>2, ConcatAt, Zenon
    <2> QED
      BY <1>4, <2>1, Zenon DEF c
  <1> DEFINE pushed == (code \o three) \o last
  <1>12. /\ pushed \in Seq(Words) /\ Len(pushed) = (c + 3) + l
         /\ \A j \in 1 .. c + 3 : pushed[j] = (code \o three)[j]
         /\ \A j \in 1 .. l : pushed[(c + 3) + j] = last[j]
    <2>1. /\ (code \o three) \o last \in Seq(Words) /\ Len((code \o three) \o last) = Len((code \o three)) + Len(last)
          /\ \A j \in 1 .. Len((code \o three)) : ((code \o three) \o last)[j] = (code \o three)[j]
          /\ \A j \in 1 .. Len(last) : ((code \o three) \o last)[Len((code \o three)) + j] = last[j]
      BY <1>3, <1>11, ConcatAt, Zenon
    <2> QED
      BY <1>11, <2>1, Zenon DEF l
  <1>13. StackWords(f) = Linkage(f.vec) \o pushed
    BY <1>5, Zenon DEF StackWords
  <1> HIDE DEF pushed
  <1> DEFINE n == (c + 3) + l
  <1>14. n \in Nat /\ c + 1 \in 1 .. c + 3 /\ 1 \in 1 .. 3 /\ 1 \in 1 .. l
    BY <1>3, <1>10
  <1>15. /\ StackWords(f) \in Seq(Words) /\ Len(StackWords(f)) = (11 - c) + n
         /\ \A j \in 1 .. n : StackWords(f)[(11 - c) + j] = pushed[j]
    <2>1. /\ Linkage(f.vec) \o pushed \in Seq(Words) /\ Len(Linkage(f.vec) \o pushed) = Len(Linkage(f.vec)) + Len(pushed)
          /\ \A j \in 1 .. Len(Linkage(f.vec)) : (Linkage(f.vec) \o pushed)[j] = Linkage(f.vec)[j]
          /\ \A j \in 1 .. Len(pushed) : (Linkage(f.vec) \o pushed)[Len(Linkage(f.vec)) + j] = pushed[j]
      BY <1>9, <1>12, ConcatAt, Zenon
    <2> QED
      BY <1>9, <1>12, <1>13, <2>1, Zenon
  <1>16. pushed[c + 1] = "return_address"
    BY <1>4, <1>11, <1>12, <1>14
  <1>17. f.from = "user" => pushed[(c + 3) + 1] = "esp"
    BY <1>3, <1>12, <1>14
  <1>18. DOMAIN StackWords(f) = 1 .. 14 + l
    BY <1>3, <1>10, <1>15
  <1>19. StackWords(f)[12] = "return_address"
    <2>1. c + 1 \in 1 .. n /\ (11 - c) + (c + 1) = 12
      BY <1>3, <1>10
    <2> QED
      BY <1>15, <1>16, <2>1
  <1>20. ASSUME f.from = "user"
         PROVE  StackWords(f)[15] = "esp"
    <2>1. (c + 3) + 1 \in 1 .. n /\ (11 - c) + ((c + 3) + 1) = 15
      BY <1>3, <1>10, <1>20
    <2> QED
      BY <1>15, <1>17, <1>20, <2>1
  <1> QED
    BY <1>3, <1>18, <1>19, <1>20

LEMMA FrameFound ==
    ASSUME NEW f
    PROVE  /\ ContextField(f, "return_address") = "return_address"
           /\ f.from = "user" => ContextField(f, "esp") = "esp"
  BY FieldsAt, WordsAt DEF ContextField

-----------------------------------------------------------------------------
(* The kernel stack and the signals. *)

LEMMA EnterKeeps ==
    ASSUME KernelTyped, NEW v \in Nat, NEW on \in BOOLEAN, NEW out \in BOOLEAN, Enter(v, on, out)
    PROVE  KernelTyped'
  <1>1. [vec |-> v, from |-> From, on |-> on, out |-> out] \in KernelFrame
    BY DEF KernelFrame, From
  <1> QED
    BY <1>1 DEF KernelTyped, Enter

LEMMA LeaveKeeps ==
    ASSUME KernelTyped, kstack # <<>>, Leave
    PROVE  KernelTyped'
  <1>1. Len(kstack) - 1 \in Nat /\ kstack \in Seq(KernelFrame)
    BY DEF KernelTyped
  <1>2. kstack' = SubSeq(kstack, 1, Len(kstack) - 1)
    BY DEF Leave, Front
  <1>3. SubSeq(kstack, 1, Len(kstack) - 1) \in Seq(KernelFrame)
    BY <1>1
  <1> QED
    BY <1>2, <1>3 DEF KernelTyped

LEMMA VectorsNat ==
    /\ PIT_VEC \in Nat /\ KEYBOARD_VEC \in Nat /\ MOUSE_VEC \in Nat /\ SYSTEM_CALL_VEC \in Nat
    /\ Faults \subseteq Nat /\ OK \notin Nat
  BY SignalsAssumption DEF PIT_VEC, KEYBOARD_VEC, MOUSE_VEC, SYSTEM_CALL_VEC, OK

LEMMA KernelKept ==
    ASSUME Inv, Next
    PROVE  KernelTyped'
  <1>1. KernelTyped /\ StackTyped
    BY DEF Inv, StackInv
  <1>2. CASE UNCHANGED kstack \/ kstack' = <<>>
    <2>1. <<>> \in Seq(KernelFrame) /\ kstack \in Seq(KernelFrame)
      BY <1>1 DEF KernelTyped
    <2> QED
      BY <1>2, <2>1, Zenon DEF KernelTyped
  <1>3. CASE SystemCall
    BY <1>1, <1>3, EnterKeeps, VectorsNat DEF SystemCall
  <1>4. CASE Fault
    <2>1. user.eax \in Nat
      BY <1>1, <1>4, VectorsNat DEF Fault, StackTyped, Context
    <2> QED
      BY <1>1, <1>4, <2>1, EnterKeeps DEF Fault
  <1>5. ASSUME NEW v \in Faults, KernelFault(v)
        PROVE  KernelTyped'
    BY <1>1, <1>5, EnterKeeps, VectorsNat DEF KernelFault
  <1>6. ASSUME NEW v \in {KEYBOARD_VEC, MOUSE_VEC}, Device(v)
        PROVE  KernelTyped'
    <2>1. Enter(v, v = KEYBOARD_VEC, FALSE) /\ v \in Nat
      BY <1>6, VectorsNat DEF Device
    <2>2. CASE v = KEYBOARD_VEC
      <3>1. Enter(v, TRUE, FALSE)
        BY <2>1, <2>2 DEF Enter
      <3> QED
        BY <1>1, <2>1, <3>1, EnterKeeps
    <2>3. CASE v # KEYBOARD_VEC
      <3>1. Enter(v, FALSE, FALSE)
        BY <2>1, <2>3 DEF Enter
      <3> QED
        BY <1>1, <2>1, <3>1, EnterKeeps
    <2> QED
      BY <2>2, <2>3
  <1>7. CASE CtrlC
    BY <1>1, <1>7, EnterKeeps, VectorsNat DEF CtrlC
  <1>8. ASSUME NEW alarm \in BOOLEAN, Tick(alarm)
        PROVE  KernelTyped'
    BY <1>1, <1>8, EnterKeeps, VectorsNat DEF Tick
  <1>9. CASE SwitchBack
    <2>1. kstack \in Seq(KernelFrame) /\ kstack # <<>>
      BY <1>1, <1>9 DEF SwitchBack, InHandler, KernelTyped
    <2>2. Len(kstack) \in DOMAIN kstack /\ kstack[Len(kstack)] \in KernelFrame
      BY <2>1
    <2>3. [kstack[Len(kstack)] EXCEPT !.out = FALSE] \in KernelFrame
      BY <2>2 DEF KernelFrame
    <2>4. kstack' = [kstack EXCEPT ![Len(kstack)] = [kstack[Len(kstack)] EXCEPT !.out = FALSE]]
      BY <1>9 DEF SwitchBack
    <2> QED
      BY <2>1, <2>2, <2>3, <2>4 DEF KernelTyped
  <1>10. CASE HandleSignal
    <2>1. kstack # <<>> /\ (UNCHANGED kstack \/ Leave)
      BY <1>10 DEF HandleSignal, NoSignal, Default, Custom, InHandler
    <2> QED
      BY <1>1, <1>2, <2>1, LeaveKeeps
  <1>11. CASE Execute \/ UserStep \/ Repair \/ SystemReturn \/ Sigreturn \/ CtrlCElsewhere \/ WildStep
              \/ \E s \in Handled : SetHandler(s)
    <2>1. UNCHANGED kstack \/ kstack' = <<>>
      BY <1>11 DEF Execute, UserStep, Repair, SystemReturn, Sigreturn, CtrlCElsewhere, WildStep,
                   SetHandler, vars
    <2> QED
      BY <1>2, <2>1
  <1> QED
    BY <1>3, <1>4, <1>5, <1>6, <1>7, <1>8, <1>9, <1>10, <1>11 DEF Next

LEMMA SigsKept ==
    ASSUME SigsTyped, Next
    PROVE  SigsTyped'
  <1>1. sig_pending' \subseteq Signals
    <2>1. \A v : FaultSignal(v) \in Signals
      BY DEF FaultSignal, Signals, DIV_ZERO, SEGFAULT
    <2>2. INTERRUPT \in Signals /\ ALARM \in Signals
      BY DEF INTERRUPT, ALARM, Signals
    <2>3. ASSUME NEW s \in Signals, Post(s)
          PROVE  sig_pending' \subseteq Signals
      BY <2>3 DEF SigsTyped, Post
    <2>4. CASE \/ Fault \/ CtrlC \/ CtrlCElsewhere \/ \E v \in Faults : KernelFault(v)
               \/ \E alarm \in BOOLEAN : Tick(alarm)
      <3>1. (\E s \in Signals : Post(s)) \/ UNCHANGED sig_pending
        BY <2>1, <2>2, <2>4 DEF Fault, CtrlC, CtrlCElsewhere, KernelFault, Tick
      <3> QED
        BY <2>3, <3>1 DEF SigsTyped
    <2>5. CASE HandleSignal
      <3>1. UNCHANGED sig_pending \/ sig_pending' = sig_pending \ {NextSignal}
        BY <2>5 DEF HandleSignal, NoSignal, Default, Custom, Take, sigs
      <3> QED
        BY <3>1 DEF SigsTyped
    <2>6. CASE UNCHANGED sig_pending \/ sig_pending' = {}
      BY <2>6 DEF SigsTyped
    <2> QED
      BY <2>4, <2>5, <2>6
      DEF Next, Execute, UserStep, Repair, SystemCall, SystemReturn, Sigreturn, SetHandler,
          Device, SwitchBack, WildStep, sigs, vars
  <1>2. sig_masked' \in BOOLEAN
    BY DEF SigsTyped, Next, Execute, UserStep, Repair, SystemCall, SystemReturn, Sigreturn, SetHandler,
          Fault, KernelFault, Device, CtrlC, CtrlCElsewhere, Tick, SwitchBack, HandleSignal,
          NoSignal, Default, Custom, Take, Post, WildStep, sigs, vars
  <1>3. signal_handler' \in [Signals -> {"kill_task", "ignore", "user"}]
    <2>1. CASE Execute
      BY <2>1 DEF Execute
    <2>2. ASSUME NEW s \in Handled, SetHandler(s)
          PROVE  signal_handler' \in [Signals -> {"kill_task", "ignore", "user"}]
      BY <2>2 DEF SetHandler, SigsTyped
    <2>3. CASE UNCHANGED signal_handler
      BY <2>3 DEF SigsTyped
    <2> QED
      BY <2>1, <2>2, <2>3
      DEF Next, UserStep, Repair, SystemCall, SystemReturn, Sigreturn,
          Fault, KernelFault, Device, CtrlC, CtrlCElsewhere, Tick, SwitchBack, HandleSignal,
          NoSignal, Default, Custom, WildStep, sigs, vars
  <1> QED
    BY <1>1, <1>2, <1>3 DEF SigsTyped

-----------------------------------------------------------------------------
(* The user stack. *)

LEMMA NextSignalPending ==
    ASSUME SigsTyped, sig_pending # {}
    PROVE  NextSignal \in sig_pending
  <1>1. \E m \in sig_pending : \A n \in sig_pending : m <= n
    <2>1. sig_pending \subseteq {0, 1, 2, 3, 4}
      BY DEF SigsTyped, Signals
    <2>2. CASE 0 \in sig_pending
      BY <2>1, <2>2
    <2>3. CASE 0 \notin sig_pending /\ 1 \in sig_pending
      BY <2>1, <2>3
    <2>4. CASE 0 \notin sig_pending /\ 1 \notin sig_pending /\ 2 \in sig_pending
      BY <2>1, <2>4
    <2>5. CASE 0 \notin sig_pending /\ 1 \notin sig_pending /\ 2 \notin sig_pending /\ 3 \in sig_pending
      BY <2>1, <2>5
    <2>6. CASE /\ 0 \notin sig_pending /\ 1 \notin sig_pending /\ 2 \notin sig_pending
               /\ 3 \notin sig_pending
      <3>1. PICK m \in sig_pending : TRUE
        OBVIOUS
      <3>2. \A n \in sig_pending : n = 4
        BY <2>1, <2>6
      <3> QED
        BY <3>1, <3>2
    <2> QED
      BY <2>2, <2>3, <2>4, <2>5, <2>6
  <1> QED
    BY <1>1 DEF NextSignal, Min

LEMMA StartContext ==
    ASSUME NEW a \in 0 .. MAX_NEST + 1, NEW e \in 0 .. MAX_NEST + 1
    PROVE  /\ Start(a, e) \in Context
           /\ Start(a, e).act = a /\ Start(a, e).esp = e
  BY DEF Start, Context

Fresh ==
    /\ user = Start(0, 0) /\ mem = [d \in 1 .. MAX_NEST + 1 |-> Empty]
    /\ state = "alive" /\ truth = <<>>

LEMMA FreshStack == Fresh => StackInv
  <1> SUFFICES ASSUME Fresh
               PROVE  StackInv
    OBVIOUS
  <1>1. 0 \in 0 .. MAX_NEST + 1
    BY SignalsAssumption
  <1>2. Empty \in Frame
    BY <1>1, StartContext DEF Empty, Frame
  <1>3. StackTyped
    BY <1>1, <1>2, StartContext DEF StackTyped, Fresh
  <1>4. Nested
    BY <1>1, StartContext DEF Nested, Fresh
  <1> QED
    BY <1>3, <1>4 DEF StackInv

(* A frame pushed saves the context that runs, one level up.                 *)
LEMMA PushKeeps ==
    ASSUME StackInv, state = "alive", Nesting, NEW s \in Signals, PushFrame(s),
           truth' = Append(truth, user), UNCHANGED state
    PROVE  StackInv'
  <1>1. StackTyped /\ Nested
    BY DEF StackInv
  <1> DEFINE n == Len(truth)
  <1>2. /\ truth \in Seq(Context) /\ user \in Context /\ n \in Nat /\ n <= MAX_NEST
        /\ MAX_NEST \in Nat /\ user.esp = n /\ user.act = n
        /\ DOMAIN truth = 1 .. n
    BY <1>1, SignalsAssumption DEF StackTyped, Nested, Nesting
  <1>3. n + 1 \in 1 .. MAX_NEST + 1 /\ n + 1 \in 0 .. MAX_NEST + 1
    BY <1>2
  <1>4. /\ truth' \in Seq(Context) /\ Len(truth') = n + 1 /\ DOMAIN truth' = 1 .. n + 1
        /\ truth'[n + 1] = user
        /\ \A d \in 1 .. n : truth'[d] = truth[d]
    BY <1>2
  <1>5. user' \in Context /\ user'.esp = n + 1 /\ user'.act = n + 1
    BY <1>2, <1>3, StartContext DEF PushFrame
  <1> DEFINE frame == [sig |-> s, context |-> user]
  <1>6. frame \in Frame /\ frame.context = user
    BY <1>2 DEF Frame
  <1>7. mem' = [mem EXCEPT ![n + 1] = frame]
    BY <1>2 DEF PushFrame
  <1> HIDE DEF frame, n
  <1>8. /\ mem' \in [1 .. MAX_NEST + 1 -> Frame] /\ mem'[n + 1] = frame
        /\ \A d \in 1 .. n : mem'[d] = mem[d]
    BY <1>1, <1>2, <1>3, <1>6, <1>7 DEF StackTyped
  <1>9. StackTyped'
    BY <1>1, <1>4, <1>5, <1>8 DEF StackTyped
  <1>10. ASSUME NEW d \in 1 .. n + 1
         PROVE  Saved(d)'
    <2>1. CASE d = n + 1
      <3>1. truth'[d] = user /\ mem'[d].context = user
        BY <1>4, <1>6, <1>8, <2>1
      <3>2. user.esp = d - 1 /\ user.act = d - 1
        BY <1>2, <2>1
      <3>3. user = [user EXCEPT !.eax = user.eax]
        BY <1>2 DEF Context
      <3> QED
        BY <3>1, <3>2, <3>3 DEF Saved
    <2>2. CASE d \in 1 .. n
      <3>1. truth'[d] = truth[d] /\ mem'[d] = mem[d]
        BY <1>4, <1>8, <2>2
      <3>2. Saved(d)
        BY <1>1, <1>2, <2>2 DEF Nested
      <3> QED
        BY <3>1, <3>2 DEF Saved
    <2> QED
      BY <1>2, <2>1, <2>2
  <1>11. Nested'
    BY <1>4, <1>5, <1>10 DEF Nested
  <1> QED
    BY <1>9, <1>11 DEF StackInv

(* sigreturn() pops the innermost frame: the context it restores is the one  *)
(* that was interrupted, up to a repaired operand.                           *)
LEMMA PopKeeps ==
    ASSUME StackInv, state = "alive", user.esp # 0, user' = SavedContext,
           truth' = (IF truth = <<>> THEN truth ELSE Front(truth)), UNCHANGED <<state, mem>>
    PROVE  /\ StackInv'
           /\ truth # <<>>
           /\ user' \in {truth[Len(truth)], [truth[Len(truth)] EXCEPT !.eax = OK]}
  <1>1. StackTyped /\ Nested
    BY DEF StackInv
  <1> DEFINE n == Len(truth)
  <1>2. /\ truth \in Seq(Context) /\ n \in Nat \ {0} /\ user.esp = n
        /\ DOMAIN truth = 1 .. n /\ truth # <<>>
    BY <1>1 DEF StackTyped, Nested
  <1>3. Saved(n)
    BY <1>1, <1>2 DEF Nested
  <1>4. user' = mem[n].context
    BY <1>2 DEF SavedContext
  <1>5. truth[n] \in Context /\ truth[n].esp = n - 1 /\ truth[n].act = n - 1
    BY <1>2, <1>3 DEF Saved
  <1>6. /\ user' = [truth[n] EXCEPT !.eax = mem[n].context.eax]
        /\ mem[n].context.eax \in {truth[n].eax, OK}
    BY <1>3, <1>4 DEF Saved
  <1>7. user' \in {truth[n], [truth[n] EXCEPT !.eax = OK]}
    <2>1. truth[n] = [truth[n] EXCEPT !.eax = truth[n].eax]
      BY <1>5 DEF Context
    <2> QED
      BY <1>6, <2>1
  <1>8. user' \in Context /\ user'.esp = n - 1 /\ user'.act = n - 1
    <2>1. [truth[n] EXCEPT !.eax = OK] \in Context
      BY <1>5 DEF Context
    <2>2. /\ [truth[n] EXCEPT !.eax = OK].esp = n - 1
          /\ [truth[n] EXCEPT !.eax = OK].act = n - 1
      BY <1>5 DEF Context
    <2> QED
      BY <1>5, <1>7, <2>1, <2>2
  <1>9. truth' = SubSeq(truth, 1, n - 1)
    BY <1>2 DEF Front
  <1>10. /\ truth' \in Seq(Context) /\ Len(truth') = n - 1 /\ DOMAIN truth' = 1 .. n - 1
         /\ \A d \in 1 .. n - 1 : truth'[d] = truth[d]
    <2>1. n - 1 \in Nat /\ n - 1 <= Len(truth)
      BY <1>2
    <2>2. SubSeq(truth, 1, n - 1) \in Seq(Context) /\ Len(SubSeq(truth, 1, n - 1)) = n - 1
      BY <1>2, <2>1
    <2>3. \A d \in 1 .. n - 1 : SubSeq(truth, 1, n - 1)[d] = truth[d]
      BY <1>2, <2>1
    <2>4. truth' \in Seq(Context) /\ Len(truth') = n - 1
      BY <1>9, <2>2, Zenon
    <2>5. \A d \in 1 .. n - 1 : truth'[d] = truth[d]
      BY <1>9, <2>3, Zenon
    <2> HIDE DEF n
    <2> QED
      BY <2>1, <2>4, <2>5
  <1> HIDE DEF n
  <1>11. StackTyped'
    BY <1>1, <1>8, <1>10 DEF StackTyped
  <1>12. ASSUME NEW d \in 1 .. n - 1
         PROVE  Saved(d)'
    <2>1. truth'[d] = truth[d] /\ mem'[d] = mem[d]
      BY <1>10
    <2>2. Saved(d)
      BY <1>1, <1>2 DEF Nested
    <2> QED
      BY <2>1, <2>2 DEF Saved
  <1>13. Nested'
    BY <1>8, <1>10, <1>12 DEF Nested
  <1> QED
    BY <1>2, <1>7, <1>11, <1>13 DEF StackInv, n

(* Steps that leave the user stack alone, but may end the process.           *)
LEMMA StackStill ==
    ASSUME StackInv, UNCHANGED <<user, mem, truth>>, state' \in {state, "dead", "wild"}
    PROVE  StackInv'
  <1>1. StackTyped'
    BY DEF StackInv, StackTyped
  <1>2. ASSUME state' = "alive"
        PROVE  Nested'
    <2>1. Nested
      BY <1>2 DEF StackInv
    <2> QED
      BY <2>1 DEF Nested, Saved
  <1> QED
    BY <1>1, <1>2 DEF StackInv

LEMMA UserStepKeeps ==
    ASSUME StackInv, UserStep
    PROVE  StackInv'
  <1>1. StackTyped /\ Nested /\ state = "alive"
    BY DEF StackInv, UserStep, InUser
  <1>2. PICK operand \in Faults \cup {OK} : user' = [user EXCEPT !.pc = 1 - @, !.eax = operand]
    BY DEF UserStep
  <1>3. user' \in Context /\ user'.esp = user.esp /\ user'.act = user.act
    <2>1. user.pc \in {0, 1} /\ user \in Context
      BY <1>1 DEF StackTyped, Context
    <2>2. 1 - user.pc \in {0, 1}
      BY <2>1
    <2> QED
      BY <1>2, <2>1, <2>2 DEF Context
  <1>4. UNCHANGED <<mem, truth, state>>
    BY DEF UserStep
  <1>5. StackTyped'
    BY <1>1, <1>3, <1>4 DEF StackTyped
  <1>6. Nested'
    BY <1>1, <1>3, <1>4 DEF Nested, Saved
  <1> QED
    BY <1>5, <1>6 DEF StackInv

LEMMA RepairKeeps ==
    ASSUME StackInv, Repair
    PROVE  StackInv'
  <1>1. StackTyped /\ Nested /\ state = "alive"
    BY DEF StackInv, Repair, InUser
  <1> DEFINE n == Len(truth)
  <1>2. /\ truth \in Seq(Context) /\ n \in Nat /\ DOMAIN truth = 1 .. n
        /\ user.esp = n /\ user.esp \in 0 .. MAX_NEST + 1 /\ user.act > 0 /\ user.act = n
    BY <1>1 DEF StackTyped, Nested, Repair, Context
  <1>3. n \in 1 .. MAX_NEST + 1
    BY <1>2
  <1>4. mem' = [mem EXCEPT ![n].context.eax = OK] /\ UNCHANGED <<user, truth, state>>
    BY <1>2 DEF Repair
  <1> HIDE DEF n
  <1> DEFINE repaired == [mem[n] EXCEPT !.context = [mem[n].context EXCEPT !.eax = OK]]
  <1>5. mem[n] \in Frame /\ mem[n].context \in Context
    BY <1>1, <1>3 DEF StackTyped, Frame
  <1>6. /\ [mem[n].context EXCEPT !.eax = OK] \in Context
        /\ [mem[n].context EXCEPT !.eax = OK].eax = OK
    BY <1>5 DEF Context
  <1>7. /\ repaired \in Frame
        /\ repaired.context = [mem[n].context EXCEPT !.eax = OK]
    BY <1>5, <1>6 DEF Frame
  <1>8. mem' = [mem EXCEPT ![n] = repaired]
    BY <1>4
  <1> HIDE DEF repaired
  <1>9. /\ mem' \in [1 .. MAX_NEST + 1 -> Frame] /\ mem'[n] = repaired
        /\ \A d \in 1 .. MAX_NEST + 1 : d # n => mem'[d] = mem[d]
    BY <1>1, <1>3, <1>7, <1>8 DEF StackTyped
  <1>10. StackTyped'
    BY <1>1, <1>4, <1>9 DEF StackTyped
  <1>11. ASSUME NEW d \in 1 .. n
         PROVE  Saved(d)'
    <2>1. Saved(d) /\ d \in 1 .. MAX_NEST + 1 /\ truth'[d] = truth[d]
      <3>1. d \in DOMAIN truth /\ d \in 1 .. MAX_NEST + 1
        BY <1>2, <1>3, SignalsAssumption
      <3> QED
        BY <1>1, <1>4, <3>1 DEF Nested
    <2>2. CASE d # n
      BY <1>9, <2>1, <2>2 DEF Saved
    <2>3. CASE d = n
      <3>1. /\ mem'[d].context = [mem[d].context EXCEPT !.eax = OK]
            /\ mem'[d].context.eax = OK
        BY <1>6, <1>7, <1>9, <2>3
      <3>2. /\ mem[d].context = [truth[d] EXCEPT !.eax = mem[d].context.eax]
            /\ truth[d] \in Context
        BY <1>2, <2>1 DEF Saved
      <3>3. [mem[d].context EXCEPT !.eax = OK] = [truth[d] EXCEPT !.eax = OK]
        <4> DEFINE e == mem[d].context.eax
        <4>1. mem[d].context = [truth[d] EXCEPT !.eax = e]
          BY <3>2
        <4> HIDE DEF e
        <4>2. [[truth[d] EXCEPT !.eax = e] EXCEPT !.eax = OK] = [truth[d] EXCEPT !.eax = OK]
          BY <3>2 DEF Context
        <4> QED
          BY <4>1, <4>2
      <3> QED
        BY <2>1, <3>1, <3>3 DEF Saved
    <2> QED
      BY <2>2, <2>3
  <1>12. Nested'
    BY <1>1, <1>2, <1>4, <1>11 DEF Nested
  <1> QED
    BY <1>10, <1>12 DEF StackInv

LEMMA SigreturnKeeps ==
    ASSUME StackInv, Sigreturn
    PROVE  /\ StackInv'
           /\ state' = "alive" =>
                /\ truth # <<>>
                /\ user' \in {truth[Len(truth)], [truth[Len(truth)] EXCEPT !.eax = OK]}
  <1>1. state = "alive" /\ mem' = mem
    BY DEF Sigreturn, InCall
  <1>2. CASE user.esp = 0
    BY <1>1, <1>2, StackStill DEF Sigreturn
  <1>3. CASE user.esp # 0
    BY <1>1, <1>3, PopKeeps DEF Sigreturn
  <1> QED
    BY <1>2, <1>3

LEMMA HandleSignalKeeps ==
    ASSUME StackInv, SigsTyped, Nesting, HandleSignal
    PROVE  StackInv'
  <1>1. state = "alive"
    BY DEF HandleSignal, NoSignal, Default, Custom, InHandler
  <1>2. CASE NoSignal
    BY <1>2, StackStill DEF NoSignal
  <1>3. CASE Default
    BY <1>3, StackStill DEF Default
  <1>4. CASE Custom
    <2>1. NextSignal \in Signals
      BY <1>4, NextSignalPending DEF Custom, SigsTyped
    <2>2. CASE PushFrame(NextSignal) /\ truth' = Append(truth, user) /\ UNCHANGED state
      BY <1>1, <2>1, <2>2, PushKeeps
    <2>3. CASE UNCHANGED <<user, mem, truth>> /\ state' \in {state, "wild"}
      BY <2>3, StackStill
    <2> QED
      BY <1>4, <2>2, <2>3 DEF Custom
  <1> QED
    BY <1>2, <1>3, <1>4 DEF HandleSignal

LEMMA StackKept ==
    ASSUME Inv, Nesting, Next
    PROVE  StackInv'
  <1>1. StackInv /\ SigsTyped
    BY DEF Inv
  <1>2. CASE Execute
    <2>1. Fresh'
      BY <1>2 DEF Execute, Fresh
    <2> QED
      BY <2>1, FreshStack, PTL
  <1>3. CASE UNCHANGED <<user, mem, truth, state>>
    BY <1>1, <1>3, StackStill
  <1> QED
    BY <1>1, <1>2, <1>3, UserStepKeeps, RepairKeeps, SigreturnKeeps, HandleSignalKeeps
    DEF Next, SystemCall, SystemReturn, SetHandler, Fault, KernelFault, Device, CtrlC,
        CtrlCElsewhere, Tick, SwitchBack, WildStep, vars

-----------------------------------------------------------------------------
LEMMA InitInv == Init => Inv
  <1> SUFFICES ASSUME Init
               PROVE  Inv
    OBVIOUS
  <1>1. KernelTyped
    BY DEF Init, KernelTyped
  <1>2. SigsTyped
    BY DEF Init, SigsTyped
  <1>3. StackInv
    BY FreshStack DEF Init, Fresh
  <1> QED
    BY <1>1, <1>2, <1>3 DEF Inv

LEMMA NextInv == Inv /\ Nesting /\ [Next]_vars => Inv'
  <1> SUFFICES ASSUME Inv, Nesting, [Next]_vars
               PROVE  Inv'
    OBVIOUS
  <1>1. CASE UNCHANGED vars
    BY <1>1, StackStill DEF vars, Inv, KernelTyped, SigsTyped
  <1> QED
    BY <1>1, KernelKept, SigsKept, StackKept DEF Inv

(* Each level of the user stack holds what one handler interrupted, however  *)
(* many faults and signals interrupt one another (signal.c 58-115).          *)
THEOREM SignalsInv == Spec /\ []Nesting => []Inv
  BY InitInv, NextInv, PTL DEF Spec

(* Handlers that interrupt one another do not write over each other's        *)
(* frames: each saves the context it interrupted, at the level where its own *)
(* stack pointer then is (signal.c 101-110).                                 *)
THEOREM FramesKept == Spec /\ []Nesting => []FramesIntact
  <1>1. Inv => FramesIntact
    BY DEF Inv, KernelTyped, KernelFrame, SigsTyped, StackInv, StackTyped, Nested, Saved,
           FramesIntact, TypeOK
  <1> QED
    BY <1>1, SignalsInv, PTL

(* sigreturn() continues where the innermost handler interrupted             *)
(* (syscall.c, sigreturn).                                                   *)
THEOREM ReturnsWhereInterrupted == Spec /\ []Nesting => ReturnsToInterrupted
  <1>1. Inv /\ [Next]_vars =>
          [Len(truth') < Len(truth) /\ state = "alive" /\ state' = "alive" =>
             LET was == truth[Len(truth)]
             IN user' \in {was, [was EXCEPT !.eax = OK]}]_vars
    <2> SUFFICES ASSUME Inv, Next, Len(truth') < Len(truth), state = "alive", state' = "alive"
                 PROVE  user' \in {truth[Len(truth)], [truth[Len(truth)] EXCEPT !.eax = OK]}
      OBVIOUS
    <2>1. Len(truth) \in Nat /\ truth \in Seq(Context) /\ user \in Context /\ StackInv
      BY DEF Inv, StackInv, StackTyped
    <2>2. truth' # truth
      BY <2>1
    <2>3. ~HandleSignal
      <3>1. Len(Append(truth, user)) = Len(truth) + 1
        BY <2>1
      <3>2. truth' # Append(truth, user)
        BY <2>1, <3>1
      <3> QED
        BY <2>2, <3>2 DEF HandleSignal, NoSignal, Default, Custom
    <2>4. Sigreturn
      BY <2>2, <2>3
      DEF Next, Execute, UserStep, Repair, SystemCall, SystemReturn, SetHandler, Fault, KernelFault,
          Device, CtrlC, CtrlCElsewhere, Tick, SwitchBack, WildStep, vars
    <2> QED
      BY <2>1, <2>4, SigreturnKeeps
  <1> QED
    BY <1>1, SignalsInv, PTL DEF Spec, ReturnsToInterrupted

(* The context is where hwcontext_t has it, whatever the vector: a fact      *)
(* about the linkage and the processor that no state can change              *)
(* (interrupt_linkage.S).                                                    *)
THEOREM ContextsFound == Spec => []ContextFound
  <1>1. ContextFound
    BY FrameFound DEF ContextFound
  <1> QED
    BY <1>1, PTL
=============================================================================

------------------------------ MODULE Library ------------------------------
(***************************************************************************)
(* The routines of lib.c that the kernel takes its bytes and its text from: *)
(* memset() and memcpy(), by bytes up to a boundary of four and by double   *)
(* words from there, memmove(), the strings, itoa() and printf().  They are *)
(* functions of the memory; a caller makes one call at a time.  A byte is a *)
(* number, 0 ends a string, and an int32_t value is its four bytes.         *)
(***************************************************************************)
EXTENDS Integers, Sequences

CONSTANTS
    SIZE,       \* bytes of memory
    WORD,       \* 2^w, w the bits of a number
    Memories,   \* what the memory may hold before a call
    Fills,      \* what memset() is given, as four bytes
    Prints      \* what printf() is given: formats and arguments

Address == 0 .. SIZE - 1
Octet == 0 .. 255

(* What is left of a number after each of its digits, the lowest first.      *)
Rest(value, radix) ==
    LET newval[i \in 0 .. SIZE] == IF i = 0 THEN value ELSE newval[i - 1] \div radix
    IN newval

(* A number is at most n digits long. *)
Digits(n, radix) == n \in 1 .. SIZE /\ Rest(WORD - 1, radix)[n] = 0

(* A number is at most eight hexadecimal digits long, and the buffers hold   *)
(* its digits: behind the room for eight zeros, and behind a sign.           *)
ASSUME LibraryAssumption ==
    /\ SIZE \in Nat /\ WORD \in Nat /\ WORD >= 2
    /\ Digits(8, 16) /\ Digits(SIZE - 9, 16) /\ Digits(SIZE - 2, 10)
    /\ Memories \subseteq [Address -> Octet]
    /\ \A m \in Memories : m[SIZE - 1] = 0
    /\ Fills \subseteq [1 .. 4 -> Octet]
    /\ \A p \in Prints : p.format \in Seq(Octet) /\ p.args \in Seq(0 .. WORD - 1)

VARIABLES
    mem,        \* the memory
    call,       \* the call that was made, until the caller goes on
    text        \* what it printed

libvars == <<mem, call, text>>

-----------------------------------------------------------------------------
(* Bytes.  rep stos and rep movs: k units, each read as a whole before it is *)
(* written.                                                                  *)
Stored(m, d, k, unit) ==
    [a \in Address |-> IF a \in d .. d + k * Len(unit) - 1
                       THEN unit[((a - d) % Len(unit)) + 1] ELSE m[a]]

MovedUp(m, d, s, k, w) ==
    LET after[i \in 0 .. k] ==
          IF i = 0 THEN m
          ELSE [a \in Address |-> IF a \in d + (i - 1) * w .. d + i * w - 1
                                  THEN after[i - 1][s + a - d] ELSE after[i - 1][a]]
    IN after[k]

MovedDown(m, d, s, n) ==
    LET after[i \in 0 .. n] ==
          IF i = 0 THEN m
          ELSE [after[i - 1] EXCEPT ![d + n - i] = after[i - 1][s + n - i]]
    IN after[n]

(* The bytes done one by one, before the boundary or before all n are done.  *)
Top(d, n) == LET gap == (4 - (d % 4)) % 4 IN IF gap < n THEN gap ELSE n

Memset(m, d, c, n) ==
    LET h == Top(d, n)  q == (n - h) \div 4  al == c[1]
    IN Stored(Stored(Stored(m, d, h, <<al>>), d + h, q, <<al, al, al, al>>),
              d + h + 4 * q, (n - h) % 4, <<al>>)

MemsetWord(m, d, c, n) == Stored(m, d, n, <<c[1], c[2]>>)
MemsetDword(m, d, c, n) == Stored(m, d, n, c)

Memcpy(m, d, s, n) ==
    LET h == Top(d, n)  q == (n - h) \div 4  b == h + 4 * q
    IN MovedUp(MovedUp(MovedUp(m, d, s, h, 1), d + h, s + h, q, 4), d + b, s + b, n - b, 1)

(* Mutant: always up. *)
MemmoveUp(m, d, s, n) == MovedUp(m, d, s, n, 1)
Memmove(m, d, s, n) == IF s >= d THEN MovedUp(m, d, s, n, 1) ELSE MovedDown(m, d, s, n)

-----------------------------------------------------------------------------
(* Strings.                                                                  *)
StrLen(m, s) == CHOOSE n \in 0 .. SIZE - 1 - s : m[s + n] = 0 /\ \A i \in 0 .. n - 1 : m[s + i] # 0
String(m, s) == [i \in 1 .. StrLen(m, s) |-> m[s + i - 1]]
Strcpy(m, d, s) == MovedUp(m, d, s, StrLen(m, s) + 1, 1)

(* Without a zero when the source has n bytes or more. *)
Strncpy(m, d, s, n) ==
    LET k == IF StrLen(m, s) < n THEN StrLen(m, s) ELSE n
    IN Stored(MovedUp(m, d, s, k, 1), d + k, n - k, <<0>>)

Strncmp(m, s1, s2, n) ==
    LET stops == {i \in 0 .. n - 1 : m[s1 + i] # m[s2 + i] \/ m[s1 + i] = 0}
    IN IF stops = {} THEN 0
       ELSE LET i == CHOOSE j \in stops : \A k \in stops : j <= k IN m[s1 + i] - m[s2 + i]

StrRev(m, s) ==
    LET end == StrLen(m, s) - 1
        swapped[beg \in 0 .. (end + 1) \div 2] ==
          IF beg = 0 THEN m
          ELSE [swapped[beg - 1] EXCEPT ![s + beg - 1] = m[s + end - beg + 1],
                                        ![s + end - beg + 1] = m[s + beg - 1]]
    IN swapped[(end + 1) \div 2]

-----------------------------------------------------------------------------
(* Numbers.  The digits of value, the lowest first, a zero, and then turned  *)
(* round.                                                                    *)
lookup(d) == IF d < 10 THEN 48 + d ELSE 55 + d

Itoa(m, value, buf, radix) ==
    LET newval == Rest(value, radix)
        k == CHOOSE n \in 1 .. SIZE : newval[n - 1] > 0 /\ newval[n] = 0
        low == [a \in Address |-> IF a \in buf .. buf + k - 1 THEN lookup(newval[a - buf] % radix)
                                  ELSE IF a = buf + k THEN 0 ELSE m[a]]
    IN IF value = 0 THEN [m EXCEPT ![buf] = 48, ![buf + 1] = 0] ELSE StrRev(low, buf)

(* The conversions, in a buffer at 0 that held anything before. *)
Unsigned(m, value, radix) == String(Itoa(m, value, 0, radix), 0)

(* Mutant: the zeros start one late. *)
AlignedHexShort(m, value) ==
    LET conv_buf == Itoa(m, value, 8, 16)
        start == StrLen(conv_buf, 8) + 1
    IN String([a \in Address |-> IF a \in start .. 7 THEN 48 ELSE conv_buf[a]], start)

AlignedHex(m, value) ==
    LET conv_buf == Itoa(m, value, 8, 16)
        start == StrLen(conv_buf, 8)
    IN String([a \in Address |-> IF a \in start .. 7 THEN 48 ELSE conv_buf[a]], start)

Signed(m, value) ==
    IF value >= WORD \div 2 THEN String(Itoa([m EXCEPT ![0] = 45], WORD - value, 1, 10), 0)
    ELSE Unsigned(m, value, 10)

(* The characters printf() tells apart. *)
Ascii == [newline |-> 10, return |-> 13, hash |-> 35, percent |-> 37, c |-> 99, d |-> 100,
          s |-> 115, u |-> 117, x |-> 120]

(* One character of the format.  What is open is a conversion, an alternate   *)
(* one or none; esp counts the arguments that are used up; m is the memory    *)
(* the strings and the buffers are in.                                        *)
Converted(m, st, c, args) ==
    LET arg == args[st.esp]
        Shown(t) == [open |-> "no", esp |-> st.esp + 1, out |-> st.out \o t]
    IN CASE c = Ascii.hash -> [st EXCEPT !.open = "alternate"]
         [] c = Ascii.percent -> [st EXCEPT !.open = "no", !.out = Append(@, c)]
         [] c = Ascii.x -> Shown(IF st.open = "alternate" THEN AlignedHex(m, arg)
                                 ELSE Unsigned(m, arg, 16))
         [] c = Ascii.u -> Shown(Unsigned(m, arg, 10))
         [] c = Ascii.d -> Shown(Signed(m, arg))
         [] c = Ascii.c -> Shown(<<arg % 256>>)
         [] c = Ascii.s -> Shown(String(m, arg))
         [] OTHER -> [st EXCEPT !.open = "no"]

OneChar(m, st, c, args) ==
    IF st.open # "no" THEN Converted(m, st, c, args)
    ELSE IF c = Ascii.percent THEN [st EXCEPT !.open = "plain"]
    ELSE [st EXCEPT !.out = Append(@, c)]

Formatted(m, format, args) ==
    LET st[i \in 0 .. Len(format)] ==
          IF i = 0 THEN [open |-> "no", esp |-> 1, out |-> << >>]
          ELSE OneChar(m, st[i - 1], format[i], args)
    IN st[Len(format)].out

-----------------------------------------------------------------------------
(* The calls.                                                                *)
NoCall == [op |-> "none"]

LibInit ==
    /\ mem \in Memories
    /\ call = NoCall
    /\ text = << >>

(* A call of one of the routines on bytes and strings that leaves after. *)
Stores(made, after) ==
    /\ call = NoCall
    /\ call' = made
    /\ mem' = after
    /\ UNCHANGED text

Fits(a, n) == a + n <= SIZE
Apart(a, b, n) == a + n <= b \/ b + n <= a

CallMemset(d, c, n) ==
    /\ Fits(d, n)
    /\ Stores([op |-> "memset", d |-> d, c |-> c, n |-> n], Memset(mem, d, c, n))

CallMemsetWord(d, c, n) ==
    /\ Fits(d, 2 * n)
    /\ Stores([op |-> "memset_word", d |-> d, c |-> c, n |-> n], MemsetWord(mem, d, c, n))

CallMemsetDword(d, c, n) ==
    /\ Fits(d, 4 * n)
    /\ Stores([op |-> "memset_dword", d |-> d, c |-> c, n |-> n], MemsetDword(mem, d, c, n))

(* scroll() copies a row onto the one before it. *)
CallMemcpy(d, s, n) ==
    /\ Fits(d, n) /\ Fits(s, n)
    /\ d <= s \/ Apart(d, s, n)
    /\ Stores([op |-> "memcpy", d |-> d, s |-> s, n |-> n], Memcpy(mem, d, s, n))

CallMemmove(d, s, n) ==
    /\ Fits(d, n) /\ Fits(s, n)
    /\ Stores([op |-> "memmove", d |-> d, s |-> s, n |-> n], Memmove(mem, d, s, n))

CallStrcpy(d, s) ==
    LET n == StrLen(mem, s) + 1 IN
    /\ call = NoCall
    /\ Fits(d, n) /\ Apart(d, s, n)
    /\ Stores([op |-> "strcpy", d |-> d, s |-> s, n |-> n], Strcpy(mem, d, s))

CallStrncpy(d, s, n) ==
    /\ Fits(d, n) /\ Fits(s, n) /\ Apart(d, s, n)
    /\ Stores([op |-> "strncpy", d |-> d, s |-> s, n |-> n], Strncpy(mem, d, s, n))

CallStrncmp(s1, s2, n) ==
    /\ Fits(s1, n) /\ Fits(s2, n)
    /\ Stores([op |-> "strncmp", d |-> s1, s |-> s2, n |-> n,
               result |-> Strncmp(mem, s1, s2, n)], mem)

CallPrintf(format, args) ==
    /\ call = NoCall
    /\ call' = [op |-> "printf", format |-> format, args |-> args]
    /\ text' = Formatted(mem, format, args)
    /\ UNCHANGED mem

(* The caller goes on, and makes the next call with any memory. *)
Left ==
    /\ call # NoCall
    /\ call' = NoCall
    /\ mem' \in Memories
    /\ text' = << >>

LibNext ==
    \/ \E d \in Address, n \in 0 .. SIZE :
          \/ \E c \in Fills : CallMemset(d, c, n) \/ CallMemsetWord(d, c, n)
                              \/ CallMemsetDword(d, c, n)
          \/ \E s \in Address : CallMemcpy(d, s, n) \/ CallMemmove(d, s, n)
                                \/ CallStrncpy(d, s, n) \/ CallStrncmp(d, s, n)
    \/ \E d, s \in Address : CallStrcpy(d, s)
    \/ \E p \in Prints : CallPrintf(p.format, p.args)
    \/ Left

LibSpec == LibInit /\ [][LibNext]_libvars

-----------------------------------------------------------------------------
(* What the callers rely on: a call changes the bytes it is given and no      *)
(* other, whatever the alignment, the number of bytes and, for memmove(), the *)
(* overlap; a copy is the source as it was, and compares equal to it.         *)
Exact ==
    LET c == call'
        Inside(a, n) == a - c.d \in 0 .. n - 1
        Is(n, value(_)) == \A a \in Address :
            mem'[a] = IF Inside(a, n) THEN value(a - c.d) ELSE mem[a]
        Source(i) == mem[c.s + i]
    IN /\ c.op = "memset" => Is(c.n, LAMBDA i : c.c[1])
       /\ c.op = "memset_word" => Is(2 * c.n, LAMBDA i : c.c[(i % 2) + 1])
       /\ c.op = "memset_dword" => Is(4 * c.n, LAMBDA i : c.c[(i % 4) + 1])
       /\ c.op \in {"memcpy", "memmove", "strcpy"} => Is(c.n, Source)
       /\ c.op = "strcpy" => Strncmp(mem', c.d, c.s, c.n) = 0
       /\ c.op = "strncpy" =>
             /\ \A a \in Address : ~Inside(a, c.n) => mem'[a] = mem[a]
             /\ Strncmp(mem', c.d, c.s, c.n) = 0
       /\ c.op = "strncmp" =>
             (c.result = 0 <=> \A i \in 0 .. c.n - 1 :
                 (\A j \in 0 .. i - 1 : Source(j) # 0) => mem[c.d + i] = Source(i))

BytesExact == [][Exact]_libvars

(* The number a text of digits stands for. *)
Reads(digits, radix) ==
    LET read[i \in 0 .. Len(digits)] ==
          IF i = 0 THEN 0
          ELSE read[i - 1] * radix + (IF digits[i] < 58 THEN digits[i] - 48 ELSE digits[i] - 55)
    IN read[Len(digits)]

(* A conversion of a number reads back as the number, without a zero in front *)
(* of it, or, for %#x, with eight digits (the comment of printf(), lib.c:48,  *)
(* and the addresses of the exception messages and of the boot).              *)
NumberReads ==
    LET v == call.args[1]
        Short == Len(text) > 1 => text[1] # 48
        f == Tail(call.format)
    IN (call.op = "printf" /\ Len(call.format) \in 2 .. 3 /\ call.format[1] = Ascii.percent
            /\ Len(call.args) = 1) =>
         /\ f = <<Ascii.u>> => Reads(text, 10) = v /\ Short
         /\ f = <<Ascii.x>> => Reads(text, 16) = v /\ Short
         /\ f = <<Ascii.hash, Ascii.x>> => Reads(text, 16) = v /\ Len(text) = 8
         /\ f = <<Ascii.d>> => IF text[1] = 45 THEN WORD - Reads(Tail(text), 10) = v
                               ELSE Reads(text, 10) = v /\ v < WORD \div 2
=============================================================================

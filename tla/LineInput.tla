----------------------------- MODULE LineInput -----------------------------
(***************************************************************************)
(* Typing a line: the keyboard handler (keyboard.c), the readers of the     *)
(* terminals (terminal.c) and the command history they share                *)
(* (command_history.c, tab.c).                                              *)
(*                                                                         *)
(* There is one reader per terminal, the process in its front, which runs   *)
(* as if it had a processor of its own (module TimeSharing), with           *)
(* interrupts enabled: any of its steps may come between two keys and any   *)
(* key between two of its steps.  The handler runs with interrupts off and  *)
(* is one step; so is update_index().                                       *)
(*                                                                         *)
(* Characters are abstracted to what the code asks of them: no character,   *)
(* a character, the end of the line.                                        *)
(***************************************************************************)
EXTENDS Naturals

CONSTANTS
    NUM_TERMS,      \* terminals (terminal.h: 3)
    MAX_CHA_BUF,    \* size of a line buffer (terminal.h: 128)
    MAX_HISTORY,    \* lines in the history (command_history.h: 30)
    ReadSizes       \* the lengths programs ask for

ASSUME LineInputAssumption ==
    /\ NUM_TERMS \in Nat \ {0}
    /\ MAX_CHA_BUF \in Nat /\ MAX_CHA_BUF > 1
    /\ MAX_HISTORY \in Nat \ {0}
    /\ ReadSizes \subseteq Nat \ {0}

Terms == 0 .. NUM_TERMS - 1
Columns == 0 .. MAX_CHA_BUF - 1
Rows == 0 .. MAX_HISTORY - 1
Lines == [Columns -> {"none", "char", "newline"}]

VARIABLES
    kbd_buf,                \* the line of each terminal
    kbd_buf_count,          \* how many characters are in it
    readkey,                \* a reader waits for the end of the line
    curr_term_id,           \* the visible terminal, where keys go
    history_buf,            \* the lines read, a ring
    curr_history_index,     \* the row for the line being read
    print_history_index,    \* the row shown last
    num_count,              \* how many rows up from the newest it is
    overload,               \* the ring has been filled
    pc,                     \* where in terminal_read() each reader is
    want,                   \* its nbytes
    i,                      \* what it has copied so far
    ended,                  \* history: kbd_buf_count at the Enter it waited for
    astray                  \* history: an accident, see InOtherHands

buffer == <<kbd_buf, kbd_buf_count>>
indices == <<curr_history_index, print_history_index, num_count, overload>>
reader == <<pc, want, i>>
vars == <<kbd_buf, kbd_buf_count, readkey, curr_term_id, history_buf,
          curr_history_index, print_history_index, num_count, overload,
          pc, want, i, ended, astray>>

(* "user" is any code outside terminal_read(); "wild", what runs after a     *)
(* write behind history_buf.                                                 *)
Places == {"user", "test", "wrap", "reset", "erase", "arm", "wait", "copy",
           "record", "reset again", "erase again", "wild"}

TypeOK ==
    /\ kbd_buf \in [Terms -> Lines]
    /\ kbd_buf_count \in [Terms -> 0 .. MAX_CHA_BUF + 1]
    /\ readkey \in [Terms -> {0, 1}]
    /\ curr_term_id \in Terms
    /\ history_buf \in [Rows -> Lines]
    /\ curr_history_index \in 0 .. MAX_HISTORY
    /\ num_count \in 0 .. MAX_HISTORY
    /\ print_history_index \in 0 .. 2 * MAX_HISTORY - num_count
    /\ overload \in {0, 1}
    /\ pc \in [Terms -> Places]
    /\ want \in [Terms -> ReadSizes \cup {0}]
    /\ i \in [Terms -> 0 .. MAX_CHA_BUF]
    /\ ended \in [Terms -> 0 .. MAX_CHA_BUF + 1]
    /\ astray \in BOOLEAN

Blank == [c \in Columns |-> "none"]

Init ==
    /\ kbd_buf = [t \in Terms |-> Blank]
    /\ kbd_buf_count = [t \in Terms |-> 0]
    /\ readkey = [t \in Terms |-> 0]
    /\ curr_term_id = 0
    /\ history_buf = [r \in Rows |-> Blank]
    /\ curr_history_index = 0
    /\ print_history_index = 0
    /\ num_count = 0
    /\ overload = 0
    /\ pc = [t \in Terms |-> "user"]
    /\ want = [t \in Terms |-> 0]
    /\ i = [t \in Terms |-> 0]
    /\ ended = [t \in Terms |-> 0]
    /\ astray = FALSE

-----------------------------------------------------------------------------
(* The line is in other hands from the Enter until terminal_read() has reset *)
(* it, and inside the first reset.  astray records the accidents this code   *)
(* allows: a key that changes the line then, a kill then, and a row shown    *)
(* from outside the history.                                                 *)
InOtherHands(t) ==
    \/ pc[t] \in {"erase", "copy", "record", "reset again", "erase again"}
    \/ pc[t] = "wait" /\ readkey[t] = 0

(* update_index(), which looks at the visible terminal whoever calls it.     *)

UpdateIndex ==
    \/ /\ curr_history_index = MAX_HISTORY
       /\ curr_history_index' = 0
       /\ overload' = 1
       /\ UNCHANGED <<print_history_index, num_count>>
    \/ /\ curr_history_index # MAX_HISTORY
       /\ kbd_buf_count[curr_term_id] = 0
       /\ print_history_index' = curr_history_index
       /\ UNCHANGED <<curr_history_index, num_count, overload>>
    \/ /\ curr_history_index # MAX_HISTORY
       /\ kbd_buf_count[curr_term_id] # 0
       /\ curr_history_index' = curr_history_index + 1
       /\ print_history_index' = curr_history_index + 1
       /\ num_count' = 0
       /\ UNCHANGED overload

(* reset_kbd_buf() is two writes. *)
ResetCount(t) == kbd_buf_count' = [kbd_buf_count EXCEPT ![t] = 0]
Erase(t) == kbd_buf' = [kbd_buf EXCEPT ![t] = Blank]

-----------------------------------------------------------------------------
(* terminal_read() of the process in front of terminal t.                    *)

(* The reader goes from one point to the next. *)
Goes(t, from, to) ==
    /\ pc[t] = from
    /\ pc' = [pc EXCEPT ![t] = to]
    /\ UNCHANGED <<curr_term_id, ended, astray>>

Read(t) ==
    /\ pc[t] = "user"
    /\ pc' = [pc EXCEPT ![t] = "test"]
    /\ ended' = [ended EXCEPT ![t] = 0]
    /\ \E n \in ReadSizes : want' = [want EXCEPT ![t] = n]
    /\ i' = [i EXCEPT ![t] = 0]
    /\ UNCHANGED <<buffer, readkey, history_buf, indices, curr_term_id, astray>>

(* Mutant: a full history is only noticed when the line has been read. *)
TestHistoryFullNever(t) ==
    /\ Goes(t, "test", "reset")
    /\ UNCHANGED <<buffer, readkey, history_buf, indices, want, i>>

TestHistoryFull(t) ==
    /\ \/ curr_history_index = MAX_HISTORY /\ Goes(t, "test", "wrap")
       \/ curr_history_index # MAX_HISTORY /\ Goes(t, "test", "reset")
    /\ UNCHANGED <<buffer, readkey, history_buf, indices, want, i>>

Wrap(t) ==
    /\ Goes(t, "wrap", "reset")
    /\ UpdateIndex
    /\ UNCHANGED <<buffer, readkey, history_buf, want, i>>

Reset(t) ==
    /\ Goes(t, "reset", "erase") \/ Goes(t, "reset again", "erase again")
    /\ ResetCount(t)
    /\ UNCHANGED <<kbd_buf, readkey, history_buf, indices, want, i>>

EraseLine(t) ==
    /\ Goes(t, "erase", "arm")
    /\ Erase(t)
    /\ UNCHANGED <<kbd_buf_count, readkey, history_buf, indices, want, i>>

Arm(t) ==
    /\ Goes(t, "arm", "wait")
    /\ readkey' = [readkey EXCEPT ![t] = 1]
    /\ UNCHANGED <<buffer, history_buf, indices, want, i>>

(* Mutant: the flag of the visible terminal. *)
WaitVisible(t) ==
    /\ readkey[curr_term_id] = 0
    /\ Goes(t, "wait", "copy")
    /\ UNCHANGED <<buffer, readkey, history_buf, indices, want, i>>

Wait(t) ==
    /\ readkey[t] = 0
    /\ Goes(t, "wait", "copy")
    /\ UNCHANGED <<buffer, readkey, history_buf, indices, want, i>>

CopyMore(t) ==
    /\ i[t] < want[t]
    /\ i[t] < MAX_CHA_BUF
    /\ kbd_buf[t][i[t]] # "none"

(* One turn of the loop that copies the line to the program and to the       *)
(* history.                                                                  *)
Copy(t) ==
    /\ CopyMore(t)
    /\ i' = [i EXCEPT ![t] = @ + 1]
    /\ \/ /\ i[t] < kbd_buf_count[t] /\ curr_history_index < MAX_HISTORY
          /\ Goes(t, "copy", "copy")
          /\ history_buf' =
                [history_buf EXCEPT ![curr_history_index][i[t]] = kbd_buf[t][i[t]]]
       \/ /\ i[t] < kbd_buf_count[t] /\ curr_history_index = MAX_HISTORY
          /\ Goes(t, "copy", "wild")
          /\ UNCHANGED history_buf
       \/ /\ i[t] >= kbd_buf_count[t]
          /\ Goes(t, "copy", "copy")
          /\ UNCHANGED history_buf
    /\ UNCHANGED <<buffer, readkey, indices, want>>

CopyDone(t) ==
    /\ ~CopyMore(t)
    /\ Goes(t, "copy", "record")
    /\ UNCHANGED <<buffer, readkey, history_buf, indices, want, i>>

Record(t) ==
    /\ Goes(t, "record", "reset again")
    /\ UpdateIndex
    /\ UNCHANGED <<buffer, readkey, history_buf, want, i>>

Return(t) ==
    /\ Goes(t, "erase again", "user")
    /\ Erase(t)
    /\ want' = [want EXCEPT ![t] = 0]
    /\ i' = [i EXCEPT ![t] = 0]
    /\ UNCHANGED <<kbd_buf_count, readkey, history_buf, indices>>

(* Ctrl-C or a fault ends the reader anywhere (module Sched); the process    *)
(* that follows it finds the terminal as it was left.                        *)
Killed(t) ==
    /\ pc[t] \notin {"user", "wild"}
    /\ astray' = (astray \/ InOtherHands(t))
    /\ pc' = [pc EXCEPT ![t] = "user"]
    /\ want' = [want EXCEPT ![t] = 0]
    /\ i' = [i EXCEPT ![t] = 0]
    /\ ended' = [ended EXCEPT ![t] = 0]
    /\ UNCHANGED <<buffer, readkey, history_buf, indices, curr_term_id>>

-----------------------------------------------------------------------------
(* The keyboard handler.                                                     *)

(* The line of the visible terminal becomes line, with n characters. *)
Replace(line, n) ==
    /\ kbd_buf' = [kbd_buf EXCEPT ![curr_term_id] = line]
    /\ kbd_buf_count' = [kbd_buf_count EXCEPT ![curr_term_id] = n]
    /\ UNCHANGED <<curr_term_id, reader, history_buf>>

Edit(line, n) ==
    /\ Replace(line, n)
    /\ astray' = (astray \/ InOtherHands(curr_term_id))

Line == kbd_buf[curr_term_id]
Count == kbd_buf_count[curr_term_id]

(* Mutant: the room for the end of the line is used too. *)
CharKeyToTheEnd ==
    /\ Count < MAX_CHA_BUF
    /\ Edit([Line EXCEPT ![Count] = "char"], Count + 1)
    /\ UNCHANGED <<readkey, indices, ended>>

CharKey ==
    /\ Count < MAX_CHA_BUF - 1
    /\ Edit([Line EXCEPT ![Count] = "char"], Count + 1)
    /\ UNCHANGED <<readkey, indices, ended>>

(* The character behind the buffer is padding; the next is a byte of         *)
(* kbd_buf_count.                                                            *)
PutAt(n, what) == [c \in Columns |-> IF c = n THEN what ELSE Line[c]]
CountAfter == IF Count <= MAX_CHA_BUF THEN {Count + 1} ELSE 0 .. MAX_CHA_BUF + 1

EnterKey ==
    \/ /\ readkey[curr_term_id] = 1
       /\ \E n \in CountAfter :
             /\ Edit(PutAt(Count, "newline"), n)
             /\ ended' = [ended EXCEPT ![curr_term_id] = n]
       /\ readkey' = [readkey EXCEPT ![curr_term_id] = 0]
       /\ UNCHANGED indices
    \/ /\ readkey[curr_term_id] = 0
       /\ Edit(Blank, 0)
       /\ UNCHANGED <<readkey, indices, ended>>

(* Mutant: the character stays in the buffer. *)
BackspaceCountOnly ==
    /\ Count > 0
    /\ Edit(Line, Count - 1)
    /\ UNCHANGED <<readkey, indices, ended>>

Backspace ==
    /\ Count > 0
    /\ Edit(PutAt(Count - 1, "none"), Count - 1)
    /\ UNCHANGED <<readkey, indices, ended>>

(* press_tab(): two characters that begin a command become the command. *)
TabKey ==
    /\ Line[0] = "char" /\ Line[1] = "char"
    /\ \E n \in 2 .. MAX_CHA_BUF - 1 :
          Edit([c \in Columns |-> IF c < n THEN "char" ELSE "none"], n)
    /\ UNCHANGED <<readkey, indices, ended>>

(* update_buf(): the row up to its end replaces the line.  A row outside the *)
(* history holds anything.                                                   *)
Recall(r) ==
    \E row \in IF r \in Rows THEN {history_buf[r]} ELSE Lines,
       n \in 0 .. MAX_CHA_BUF :
        /\ \A c \in Columns : c < n => row[c] # "newline"
        /\ n < MAX_CHA_BUF => row[n] = "newline"
        /\ Replace([c \in Columns |-> IF c < n THEN row[c] ELSE "none"], n)
        /\ astray' = (astray \/ InOtherHands(curr_term_id) \/ r \notin Rows)

(* Mutant: the oldest row is not followed by the newest. *)
RowAboveNoRing ==
    IF print_history_index > 0 THEN print_history_index - 1 ELSE 0

RowAbove ==
    IF print_history_index > 0 THEN print_history_index - 1 ELSE MAX_HISTORY - 1

UpKey ==
    /\ print_history_index > 0 \/ overload = 1
    /\ \/ /\ num_count = MAX_HISTORY
          /\ print_history_index' = RowAbove + 1
          /\ UNCHANGED <<num_count, buffer, curr_term_id, reader, history_buf, astray>>
       \/ /\ num_count # MAX_HISTORY
          /\ print_history_index' = RowAbove
          /\ num_count' = num_count + 1
          /\ Recall(RowAbove)
    /\ UNCHANGED <<readkey, curr_history_index, overload, ended>>

DownKey ==
    LET below == print_history_index + 1 IN
    /\ num_count > 0
    /\ num_count' = num_count - 1
    /\ \/ /\ num_count = 1
          /\ print_history_index' = below
          /\ Edit(Blank, 0)
       \/ /\ num_count > 1
          /\ print_history_index' = IF below = MAX_HISTORY THEN 0 ELSE below
          /\ Recall(print_history_index')
    /\ UNCHANGED <<readkey, curr_history_index, overload, ended>>

TerminalSwitch(t) ==
    /\ curr_term_id # t
    /\ curr_term_id' = t
    /\ UNCHANGED <<buffer, readkey, history_buf, indices, reader, ended, astray>>

Step(t) ==
    \/ TestHistoryFull(t) \/ Wrap(t) \/ Reset(t) \/ EraseLine(t) \/ Arm(t)
    \/ Wait(t) \/ Copy(t) \/ CopyDone(t) \/ Record(t) \/ Return(t)

Key == CharKey \/ EnterKey \/ Backspace \/ TabKey \/ UpKey \/ DownKey

InHistory == \A t \in Terms : pc[t] # "wild"

(* After a write behind the history this model says nothing more. *)
Crashed ==
    /\ ~InHistory
    /\ UNCHANGED vars

Next ==
    \/ InHistory /\ \E t \in Terms : Read(t) \/ Step(t) \/ Killed(t) \/ TerminalSwitch(t)
    \/ InHistory /\ Key
    \/ Crashed

Spec == Init /\ [][Next]_vars
(* Each step of a reader is a few instructions, and its process runs again   *)
(* and again (EveryTerminalRuns of module Sched).  Nobody need press a key.  *)
FairSpec == Spec /\ \A t \in Terms : WF_vars(InHistory /\ Step(t))

-----------------------------------------------------------------------------
(* While a reader has the line, kbd_buf_count is the number of characters in *)
(* it and there is no hole in it: keys, history and completion agree with    *)
(* reset_kbd_buf() on what the line is.                                      *)
(* The state is well formed besides: TypeOK, checked here once.             *)
CountMatches ==
    /\ TypeOK
    /\ ~astray => \A t \in Terms : pc[t] \in {"wait", "copy", "record"} =>
          \A c \in Columns : kbd_buf[t][c] # "none" <=> c < kbd_buf_count[t]

(* terminal_read() returns the line that ended in the Enter it waited for,   *)
(* whole, as far as it was asked for and its buffer goes: a second Enter is  *)
(* counted behind a full buffer, where nothing is copied from.               *)
Least(a, b) == IF a < b THEN a ELSE b
LineRead ==
    ~astray => \A t \in Terms : pc[t] = "record" =>
        i[t] = Least(want[t], Least(ended[t], MAX_CHA_BUF))

(* Up and down agree: num_count rows below the one shown last is the row of  *)
(* the line being typed.                                                     *)
UpAndDownAgree ==
    ~astray => (print_history_index + num_count) % MAX_HISTORY
                  = curr_history_index % MAX_HISTORY

(* terminal_read() writes to rows of the history only.                       *)
WritesInHistory ==
    \A t \in Terms : pc[t] = "copy" => curr_history_index < MAX_HISTORY

(* Once its line has ended, terminal_read() returns, on a hidden terminal    *)
(* too.                                                                      *)
LineReturns ==
    \A t \in Terms :
        (pc[t] = "wait" /\ readkey[t] = 0) ~>
            (pc[t] = "user" \/ astray \/ ~InHistory)

(* command_history.c: "denote command index to be printed": a row, or the    *)
(* line being typed.                                                         *)
PrintIndexed == print_history_index <= MAX_HISTORY

(* BugLog.md: "If terminal is reading, just put '\n' into buffer and wait    *)
(* for terminal to clean the buffer": the ended line stays for its reader.   *)
EndedLineKept ==
    \A t \in Terms : pc[t] = "copy" => kbd_buf_count[t] >= ended[t]
=============================================================================

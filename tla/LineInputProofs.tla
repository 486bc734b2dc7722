-------------------------- MODULE LineInputProofs --------------------------
(***************************************************************************)
(* What is proved of LineInput: its state is well formed for any terminals *)
(* and any programs; with one terminal no line is written behind the       *)
(* history; and with one terminal and programs that ask for whole lines,   *)
(* the line counted, the line read and the row shown are the right ones    *)
(* until one of the accidents of astray.                                   *)
(***************************************************************************)
EXTENDS LineInput, Integers, TLAPS

LEMMA Sizes ==
    /\ NUM_TERMS \in Nat /\ NUM_TERMS >= 1
    /\ MAX_CHA_BUF \in Nat /\ MAX_CHA_BUF >= 2
    /\ MAX_HISTORY \in Nat /\ MAX_HISTORY >= 1
    /\ \A n \in ReadSizes : n \in Nat /\ n >= 1
    /\ 0 \in Terms /\ 0 \in Columns /\ 1 \in Columns
  BY LineInputAssumption DEF Terms, Columns

Chars == {"none", "char", "newline"}
Counts == 0 .. MAX_CHA_BUF + 1

LEMMA CountsHave ==
    /\ 0 \in Counts
    /\ \A n \in 0 .. MAX_CHA_BUF : n \in Counts
    /\ \A n \in Counts : n \in Nat /\ n <= MAX_CHA_BUF + 1
    /\ \A n \in Nat : n <= MAX_CHA_BUF + 1 => n \in Counts
  BY Sizes DEF Counts

(* The parts of the state that one step changes together.                    *)
LinesTyped ==
    /\ kbd_buf \in [Terms -> Lines]
    /\ kbd_buf_count \in [Terms -> Counts]
IndicesTyped ==
    /\ curr_history_index \in 0 .. MAX_HISTORY
    /\ num_count \in 0 .. MAX_HISTORY
    /\ print_history_index \in 0 .. 2 * MAX_HISTORY - num_count
    /\ overload \in {0, 1}
ReaderTyped ==
    /\ pc \in [Terms -> Places]
    /\ want \in [Terms -> ReadSizes \cup {0}]
    /\ i \in [Terms -> 0 .. MAX_CHA_BUF]
HistoryTyped == history_buf \in [Rows -> Lines]
OthersTyped ==
    /\ readkey \in [Terms -> {0, 1}]
    /\ curr_term_id \in Terms
    /\ ended \in [Terms -> Counts]
    /\ astray \in BOOLEAN

LEMMA TypeParts ==
    TypeOK <=> LinesTyped /\ IndicesTyped /\ ReaderTyped /\ HistoryTyped /\ OthersTyped
  BY Zenon DEF TypeOK, LinesTyped, IndicesTyped, ReaderTyped, HistoryTyped, OthersTyped, Counts

LEMMA TypePartsNext ==
    TypeOK' <=> LinesTyped' /\ IndicesTyped' /\ ReaderTyped' /\ HistoryTyped' /\ OthersTyped'
  BY Zenon DEF TypeOK, LinesTyped, IndicesTyped, ReaderTyped, HistoryTyped, OthersTyped, Counts

LEMMA BlankType == Blank \in Lines
  BY DEF Blank, Lines

LEMMA UpdateIndexType ==
    ASSUME TypeOK, UpdateIndex
    PROVE  IndicesTyped'
  <1>1. IndicesTyped
    BY TypeParts
  <1>2. MAX_HISTORY \in Nat /\ MAX_HISTORY >= 1
    BY Sizes
  <1>3. CASE curr_history_index = MAX_HISTORY
    BY <1>1, <1>2, <1>3 DEF UpdateIndex, IndicesTyped
  <1>4. CASE curr_history_index # MAX_HISTORY /\ kbd_buf_count[curr_term_id] = 0
    BY <1>1, <1>2, <1>4 DEF UpdateIndex, IndicesTyped
  <1>5. CASE curr_history_index # MAX_HISTORY /\ kbd_buf_count[curr_term_id] # 0
    BY <1>1, <1>2, <1>5 DEF UpdateIndex, IndicesTyped
  <1> QED
    BY <1>3, <1>4, <1>5

(* A part that a step leaves alone. *)
LEMMA Untouched ==
    ASSUME TypeOK
    PROVE  /\ UNCHANGED buffer => LinesTyped'
           /\ UNCHANGED indices => IndicesTyped'
           /\ UNCHANGED <<pc, want, i>> => ReaderTyped'
           /\ UNCHANGED history_buf => HistoryTyped'
           /\ UNCHANGED <<readkey, curr_term_id, ended, astray>> => OthersTyped'
  <1>1. LinesTyped /\ IndicesTyped /\ ReaderTyped /\ HistoryTyped /\ OthersTyped
    BY TypeParts
  <1>2. UNCHANGED buffer => LinesTyped'
    BY <1>1, Zenon DEF buffer, LinesTyped
  <1>3. UNCHANGED indices => IndicesTyped'
    BY <1>1, Zenon DEF indices, IndicesTyped
  <1>4. UNCHANGED <<pc, want, i>> => ReaderTyped'
    BY <1>1, Zenon DEF ReaderTyped
  <1>5. UNCHANGED history_buf => HistoryTyped'
    BY <1>1, Zenon DEF HistoryTyped
  <1>6. UNCHANGED <<readkey, curr_term_id, ended, astray>> => OthersTyped'
    BY <1>1, Zenon DEF OthersTyped
  <1> QED
    BY <1>2, <1>3, <1>4, <1>5, <1>6

LEMMA GoesType ==
    ASSUME TypeOK, NEW t \in Terms, NEW from, NEW to \in Places, Goes(t, from, to)
    PROVE  /\ UNCHANGED <<curr_term_id, ended, astray>>
           /\ pc' \in [Terms -> Places]
           /\ UNCHANGED <<want, i>> => ReaderTyped'
           /\ UNCHANGED readkey => OthersTyped'
  <1>1. pc' = [pc EXCEPT ![t] = to] /\ UNCHANGED <<curr_term_id, ended, astray>>
    BY Zenon DEF Goes
  <1>2. ReaderTyped /\ OthersTyped
    BY TypeParts
  <1>3. pc' \in [Terms -> Places]
    BY <1>1, <1>2 DEF ReaderTyped
  <1> QED
    BY <1>1, <1>2, <1>3, Zenon DEF ReaderTyped, OthersTyped

LEMMA PlacesHave ==
    {"user", "test", "wrap", "reset", "erase", "arm", "wait", "copy",
     "record", "reset again", "erase again", "wild"} \subseteq Places
  BY DEF Places

LEMMA IdleType ==
    ASSUME ReaderTyped, NEW t \in Terms, want' = [want EXCEPT ![t] = 0], i' = [i EXCEPT ![t] = 0]
    PROVE  want' \in [Terms -> ReadSizes \cup {0}] /\ i' \in [Terms -> 0 .. MAX_CHA_BUF]
  <1>1. 0 \in ReadSizes \cup {0} /\ 0 \in 0 .. MAX_CHA_BUF
    BY Sizes
  <1> QED
    BY <1>1 DEF ReaderTyped

LEMMA StepType ==
    ASSUME TypeOK, NEW t \in Terms, Step(t)
    PROVE  TypeOK'
  <1>0. LinesTyped /\ IndicesTyped /\ ReaderTyped /\ HistoryTyped /\ OthersTyped
    BY TypeParts
  <1>a. \A p \in {"user", "test", "wrap", "reset", "erase", "arm", "wait", "copy",
                 "record", "reset again", "erase again", "wild"} : p \in Places
    BY PlacesHave
  <1>1. CASE TestHistoryFull(t)
    <2>1. /\ UNCHANGED <<buffer, readkey, history_buf, indices, want, i>>
          /\ Goes(t, "test", "wrap") \/ Goes(t, "test", "reset")
      BY <1>1, Zenon DEF TestHistoryFull
    <2> QED
      BY <1>a, <2>1, GoesType, Untouched, TypePartsNext
  <1>2. CASE Wrap(t)
    <2>1. Goes(t, "wrap", "reset") /\ UpdateIndex
          /\ UNCHANGED <<buffer, readkey, history_buf, want, i>>
      BY <1>2, Zenon DEF Wrap
    <2> QED
      BY <1>a, <2>1, GoesType, UpdateIndexType, Untouched, TypePartsNext
  <1>3. CASE Reset(t)
    <2>1. /\ Goes(t, "reset", "erase") \/ Goes(t, "reset again", "erase again")
          /\ kbd_buf_count' = [kbd_buf_count EXCEPT ![t] = 0]
          /\ UNCHANGED <<kbd_buf, readkey, history_buf, indices, want, i>>
      BY <1>3, Zenon DEF Reset, ResetCount
    <2>2. 0 \in Counts
      BY Sizes DEF Counts
    <2>3. LinesTyped'
      BY <1>0, <2>1, <2>2 DEF LinesTyped
    <2> QED
      BY <1>a, <2>1, <2>3, GoesType, Untouched, TypePartsNext
  <1>4. CASE EraseLine(t)
    <2>1. /\ Goes(t, "erase", "arm")
          /\ kbd_buf' = [kbd_buf EXCEPT ![t] = Blank]
          /\ UNCHANGED <<kbd_buf_count, readkey, history_buf, indices, want, i>>
      BY <1>4, Zenon DEF EraseLine, Erase
    <2>2. LinesTyped'
      BY <1>0, <2>1, BlankType DEF LinesTyped
    <2> QED
      BY <1>a, <2>1, <2>2, GoesType, Untouched, TypePartsNext
  <1>5. CASE Arm(t)
    <2>1. /\ Goes(t, "arm", "wait")
          /\ readkey' = [readkey EXCEPT ![t] = 1]
          /\ UNCHANGED <<buffer, history_buf, indices, want, i>>
      BY <1>5, Zenon DEF Arm
    <2>2. UNCHANGED <<curr_term_id, ended, astray>> /\ ReaderTyped'
      BY <1>a, <2>1, GoesType
    <2>3. OthersTyped'
      BY <1>0, <2>1, <2>2 DEF OthersTyped
    <2> QED
      BY <2>1, <2>2, <2>3, Untouched, TypePartsNext
  <1>6. CASE Wait(t)
    <2>1. Goes(t, "wait", "copy") /\ UNCHANGED <<buffer, readkey, history_buf, indices, want, i>>
      BY <1>6, Zenon DEF Wait
    <2> QED
      BY <1>a, <2>1, GoesType, Untouched, TypePartsNext
  <1>7. CASE Copy(t)
    <2>1. /\ i[t] < MAX_CHA_BUF
          /\ i' = [i EXCEPT ![t] = i[t] + 1]
          /\ Goes(t, "copy", "copy") \/ Goes(t, "copy", "wild")
          /\ UNCHANGED <<buffer, readkey, indices, want>>
      BY <1>7 DEF Copy, CopyMore
    <2>2. pc' \in [Terms -> Places] /\ OthersTyped'
      BY <1>a, <2>1, GoesType
    <2>3. i' \in [Terms -> 0 .. MAX_CHA_BUF]
      BY <1>0, <2>1, Sizes DEF ReaderTyped
    <2>4. ReaderTyped'
      BY <1>0, <2>1, <2>2, <2>3, Zenon DEF ReaderTyped
    <2>5. HistoryTyped'
      <3>1. \/ UNCHANGED history_buf
            \/ /\ curr_history_index < MAX_HISTORY
               /\ history_buf' =
                   [history_buf EXCEPT ![curr_history_index][i[t]] = kbd_buf[t][i[t]]]
        BY <1>7, Zenon DEF Copy
      <3>2. CASE UNCHANGED history_buf
        BY <3>2, Untouched
      <3>3. CASE /\ curr_history_index < MAX_HISTORY
                 /\ history_buf' =
                     [history_buf EXCEPT ![curr_history_index][i[t]] = kbd_buf[t][i[t]]]
        <4>1. curr_history_index \in Rows /\ i[t] \in Columns
          BY <1>0, <2>1, <3>3, Sizes DEF IndicesTyped, ReaderTyped, Rows, Columns
        <4>2. kbd_buf[t][i[t]] \in {"none", "char", "newline"}
          BY <1>0, <4>1 DEF LinesTyped, Lines
        <4> QED
          BY <1>0, <3>3, <4>1, <4>2 DEF HistoryTyped, Lines
      <3> QED
        BY <3>1, <3>2, <3>3
    <2> QED
      BY <2>1, <2>2, <2>4, <2>5, Untouched, TypePartsNext
  <1>8. CASE CopyDone(t)
    <2>1. Goes(t, "copy", "record") /\ UNCHANGED <<buffer, readkey, history_buf, indices, want, i>>
      BY <1>8, Zenon DEF CopyDone
    <2> QED
      BY <1>a, <2>1, GoesType, Untouched, TypePartsNext
  <1>9. CASE Record(t)
    <2>1. Goes(t, "record", "reset again") /\ UpdateIndex
          /\ UNCHANGED <<buffer, readkey, history_buf, want, i>>
      BY <1>9, Zenon DEF Record
    <2> QED
      BY <1>a, <2>1, GoesType, UpdateIndexType, Untouched, TypePartsNext
  <1>10. CASE Return(t)
    <2>1. /\ Goes(t, "erase again", "user")
          /\ kbd_buf' = [kbd_buf EXCEPT ![t] = Blank]
          /\ want' = [want EXCEPT ![t] = 0] /\ i' = [i EXCEPT ![t] = 0]
          /\ UNCHANGED <<kbd_buf_count, readkey, history_buf, indices>>
      BY <1>10, Zenon DEF Return, Erase
    <2>2. LinesTyped'
      BY <1>0, <2>1, BlankType DEF LinesTyped
    <2>3. pc' \in [Terms -> Places] /\ OthersTyped'
      BY <1>a, <2>1, GoesType
    <2>4. want' \in [Terms -> ReadSizes \cup {0}] /\ i' \in [Terms -> 0 .. MAX_CHA_BUF]
      BY <1>0, <2>1, IdleType
    <2> QED
      BY <2>1, <2>2, <2>3, <2>4, Untouched, TypePartsNext, Zenon DEF ReaderTyped
  <1> QED
    BY <1>1, <1>2, <1>3, <1>4, <1>5, <1>6, <1>7, <1>8, <1>9, <1>10 DEF Step

LEMMA ReadType ==
    ASSUME TypeOK, NEW t \in Terms, Read(t)
    PROVE  TypeOK'
  <1>0. ReaderTyped /\ OthersTyped
    BY TypeParts
  <1>1. PICK n \in ReadSizes : want' = [want EXCEPT ![t] = n]
    BY Zenon DEF Read
  <1>2. /\ pc' = [pc EXCEPT ![t] = "test"]
        /\ ended' = [ended EXCEPT ![t] = 0]
        /\ i' = [i EXCEPT ![t] = 0]
        /\ UNCHANGED <<buffer, readkey, history_buf, indices, curr_term_id, astray>>
    BY Zenon DEF Read
  <1>3. 0 \in 0 .. MAX_CHA_BUF /\ 0 \in Counts /\ "test" \in Places
    <2>1. 0 \in 0 .. MAX_CHA_BUF
      BY Sizes
    <2> QED
      BY <2>1, CountsHave, Zenon DEF Places
  <1>4. ReaderTyped'
    <2>1. pc' \in [Terms -> Places]
      BY <1>0, <1>2, <1>3 DEF ReaderTyped
    <2>2. want' \in [Terms -> ReadSizes \cup {0}]
      BY <1>0, <1>1 DEF ReaderTyped
    <2>3. i' \in [Terms -> 0 .. MAX_CHA_BUF]
      BY <1>0, <1>2, <1>3 DEF ReaderTyped
    <2> QED
      BY <2>1, <2>2, <2>3, Zenon DEF ReaderTyped
  <1>5. OthersTyped'
    BY <1>0, <1>2, <1>3 DEF OthersTyped
  <1> QED
    BY <1>2, <1>4, <1>5, Untouched, TypePartsNext, Zenon

LEMMA KilledType ==
    ASSUME TypeOK, NEW t \in Terms, Killed(t)
    PROVE  TypeOK'
  <1>0. ReaderTyped /\ OthersTyped
    BY TypeParts
  <1>2. /\ astray' = (astray \/ InOtherHands(t))
        /\ pc' = [pc EXCEPT ![t] = "user"]
        /\ want' = [want EXCEPT ![t] = 0] /\ i' = [i EXCEPT ![t] = 0]
        /\ ended' = [ended EXCEPT ![t] = 0]
        /\ UNCHANGED <<buffer, readkey, history_buf, indices, curr_term_id>>
    BY Zenon DEF Killed
  <1>3. 0 \in Counts /\ "user" \in Places
    BY CountsHave, Zenon DEF Places
  <1>4. ReaderTyped'
    <2>1. pc' \in [Terms -> Places]
      BY <1>0, <1>2, <1>3 DEF ReaderTyped
    <2>2. want' \in [Terms -> ReadSizes \cup {0}] /\ i' \in [Terms -> 0 .. MAX_CHA_BUF]
      BY <1>0, <1>2, IdleType
    <2> QED
      BY <2>1, <2>2, Zenon DEF ReaderTyped
  <1>5. ended' \in [Terms -> Counts]
    BY <1>0, <1>2, <1>3 DEF OthersTyped
  <1>6. astray' \in BOOLEAN
    BY <1>0, <1>2 DEF OthersTyped, InOtherHands
  <1>7. OthersTyped'
    BY <1>0, <1>2, <1>5, <1>6, Zenon DEF OthersTyped
  <1> QED
    BY <1>2, <1>4, <1>7, Untouched, TypePartsNext, Zenon

-----------------------------------------------------------------------------
(* The keys. *)

LEMMA HandsBoolean == \A t : InOtherHands(t) \in BOOLEAN
  BY DEF InOtherHands

(* What every key leaves behind: its line, its count, and the indices it     *)
(* may have moved.                                                           *)
LEMMA KeyType ==
    ASSUME TypeOK, NEW line \in Lines, NEW n \in Counts, Replace(line, n), IndicesTyped',
           readkey' \in [Terms -> {0, 1}], ended' \in [Terms -> Counts], astray' \in BOOLEAN
    PROVE  TypeOK'
  <1>0. LinesTyped /\ OthersTyped
    BY TypeParts
  <1>1. /\ kbd_buf' = [kbd_buf EXCEPT ![curr_term_id] = line]
        /\ kbd_buf_count' = [kbd_buf_count EXCEPT ![curr_term_id] = n]
        /\ UNCHANGED <<curr_term_id, pc, want, i, history_buf>>
    BY Zenon DEF Replace, reader
  <1>2. LinesTyped'
    BY <1>0, <1>1 DEF LinesTyped
  <1>3. OthersTyped'
    BY <1>0, <1>1, Zenon DEF OthersTyped
  <1> QED
    BY <1>1, <1>2, <1>3, Untouched, TypePartsNext, Zenon

LEMMA EditType ==
    ASSUME TypeOK, NEW line \in Lines, NEW n \in Counts, Edit(line, n), IndicesTyped',
           readkey' \in [Terms -> {0, 1}], ended' \in [Terms -> Counts]
    PROVE  TypeOK'
  <1>1. astray \in BOOLEAN
    BY TypeParts, Zenon DEF OthersTyped
  <1>2. Replace(line, n) /\ astray' = (astray \/ InOtherHands(curr_term_id))
    BY Zenon DEF Edit
  <1> QED
    BY <1>1, <1>2, KeyType

(* The visible line, its count, and the lines a key makes of it. *)
LEMMA LineType ==
    ASSUME TypeOK
    PROVE  /\ curr_term_id \in Terms /\ Line \in Lines /\ Count \in Counts
           /\ \A n : \A what \in Chars : PutAt(n, what) \in Lines
           /\ CountAfter \subseteq Counts
           /\ IndicesTyped /\ readkey \in [Terms -> {0, 1}] /\ ended \in [Terms -> Counts]
  <1>0. LinesTyped /\ OthersTyped /\ IndicesTyped
    BY TypeParts
  <1>1. curr_term_id \in Terms /\ Line \in Lines /\ Count \in Counts
    BY <1>0, Zenon DEF LinesTyped, OthersTyped, Line, Count
  <1>2. \A n : \A what \in Chars : PutAt(n, what) \in Lines
    <2> SUFFICES ASSUME NEW n, NEW what \in Chars PROVE PutAt(n, what) \in Lines
      OBVIOUS
    <2>1. PutAt(n, what) = [c \in Columns |-> IF c = n THEN what ELSE Line[c]]
      BY DEF PutAt
    <2> QED
      BY <1>1, <2>1 DEF Lines, Chars
  <1>3. CountAfter \subseteq Counts
    <2> SUFFICES ASSUME NEW n \in CountAfter PROVE n \in Counts
      OBVIOUS
    <2>1. CASE Count <= MAX_CHA_BUF
      <3>1. n = Count + 1 /\ Count \in Nat
        BY <1>1, <2>1, CountsHave DEF CountAfter
      <3> QED
        BY <2>1, <3>1, CountsHave, Sizes
    <2>2. CASE ~(Count <= MAX_CHA_BUF)
      BY <2>2, Zenon DEF CountAfter, Counts
    <2> QED
      BY <2>1, <2>2
  <1> QED
    BY <1>0, <1>1, <1>2, <1>3, Zenon DEF OthersTyped

LEMMA CharKeyType ==
    ASSUME TypeOK, CharKey
    PROVE  TypeOK'
  <1>1. /\ Count < MAX_CHA_BUF - 1
        /\ Edit([Line EXCEPT ![Count] = "char"], Count + 1)
        /\ UNCHANGED <<readkey, indices, ended>>
    BY Zenon DEF CharKey
  <1>2. [Line EXCEPT ![Count] = "char"] \in Lines
    BY LineType DEF Lines
  <1>3. Count + 1 \in Counts
    <2>1. Count \in Nat
      BY LineType, CountsHave
    <2> QED
      BY <1>1, <2>1, CountsHave, Sizes
  <1> QED
    BY <1>1, <1>2, <1>3, LineType, EditType, Untouched

LEMMA EnterKeyType ==
    ASSUME TypeOK, EnterKey
    PROVE  TypeOK'
  <1>1. CASE readkey[curr_term_id] = 1
    <2>1. PICK n \in CountAfter :
             /\ Edit(PutAt(Count, "newline"), n)
             /\ ended' = [ended EXCEPT ![curr_term_id] = n]
      BY <1>1 DEF EnterKey
    <2>2. readkey' = [readkey EXCEPT ![curr_term_id] = 0] /\ UNCHANGED indices
      BY <1>1 DEF EnterKey
    <2>3. PutAt(Count, "newline") \in Lines
      BY LineType, Zenon DEF Chars
    <2>4. n \in Counts
      BY LineType
    <2>5. readkey' \in [Terms -> {0, 1}] /\ ended' \in [Terms -> Counts]
      BY <2>1, <2>2, <2>4, LineType
    <2> QED
      BY <2>1, <2>2, <2>3, <2>4, <2>5, EditType, Untouched
  <1>2. CASE readkey[curr_term_id] # 1
    <2>1. Edit(Blank, 0) /\ UNCHANGED <<readkey, indices, ended>>
      BY <1>2, Zenon DEF EnterKey
    <2> QED
      BY <2>1, BlankType, CountsHave, LineType, EditType, Untouched
  <1> QED
    BY <1>1, <1>2

LEMMA BackspaceType ==
    ASSUME TypeOK, Backspace
    PROVE  TypeOK'
  <1>1. /\ Count > 0
        /\ Edit(PutAt(Count - 1, "none"), Count - 1)
        /\ UNCHANGED <<readkey, indices, ended>>
    BY Zenon DEF Backspace
  <1>2. PutAt(Count - 1, "none") \in Lines
    BY LineType, Zenon DEF Chars
  <1>3. Count - 1 \in Counts
    <2>1. Count \in Nat /\ Count <= MAX_CHA_BUF + 1
      BY LineType, CountsHave
    <2> QED
      BY <1>1, <2>1, CountsHave, Sizes
  <1> QED
    BY <1>1, <1>2, <1>3, LineType, EditType, Untouched

(* A line of n characters. *)
CharsTo(n) == [c \in Columns |-> IF c < n THEN "char" ELSE "none"]

LEMMA TabKeyType ==
    ASSUME TypeOK, TabKey
    PROVE  TypeOK'
  <1>1. PICK n \in 2 .. MAX_CHA_BUF - 1 : Edit(CharsTo(n), n)
    BY Zenon DEF TabKey, CharsTo
  <1>2. UNCHANGED <<readkey, indices, ended>>
    BY Zenon DEF TabKey
  <1>3. CharsTo(n) \in Lines
    BY DEF Lines, CharsTo
  <1>4. n \in Counts
    <2>1. n \in Nat /\ n <= MAX_CHA_BUF + 1
      BY Sizes
    <2> QED
      BY <2>1, CountsHave
  <1> QED
    BY <1>1, <1>2, <1>3, <1>4, LineType, EditType, Untouched

LEMMA RecallType ==
    ASSUME TypeOK, NEW r, Recall(r), UNCHANGED <<readkey, ended>>, IndicesTyped'
    PROVE  TypeOK'
  <1>1. PICK row \in IF r \in Rows THEN {history_buf[r]} ELSE Lines, n \in 0 .. MAX_CHA_BUF :
            /\ Replace([c \in Columns |-> IF c < n THEN row[c] ELSE "none"], n)
            /\ astray' = (astray \/ InOtherHands(curr_term_id) \/ r \notin Rows)
    BY Zenon DEF Recall
  <1>2. row \in Lines
    BY TypeParts DEF HistoryTyped
  <1>3. [c \in Columns |-> IF c < n THEN row[c] ELSE "none"] \in Lines
    BY <1>2 DEF Lines
  <1>4. n \in Counts
    BY CountsHave
  <1>5. astray' \in BOOLEAN
    BY <1>1
  <1> QED
    BY <1>1, <1>3, <1>4, <1>5, LineType, KeyType, Zenon

(* Up goes to the row above, or past the top of the ring. *)
LEMMA UpKeyIndices ==
    ASSUME IndicesTyped, UpKey
    PROVE  IndicesTyped'
  <1>1. MAX_HISTORY \in Nat /\ MAX_HISTORY >= 1
    BY Sizes
  <1>2. UNCHANGED <<curr_history_index, overload>>
    BY Zenon DEF UpKey
  <1>3. CASE num_count = MAX_HISTORY
    <2>1. print_history_index' = RowAbove + 1 /\ num_count' = num_count
      BY <1>3 DEF UpKey
    <2> QED
      BY <1>1, <1>2, <1>3, <2>1 DEF IndicesTyped, RowAbove
  <1>4. CASE num_count # MAX_HISTORY
    <2>1. print_history_index' = RowAbove /\ num_count' = num_count + 1
      BY <1>4 DEF UpKey
    <2> QED
      BY <1>1, <1>2, <1>4, <2>1 DEF IndicesTyped, RowAbove
  <1> QED
    BY <1>3, <1>4

LEMMA DownKeyIndices ==
    ASSUME IndicesTyped, DownKey
    PROVE  IndicesTyped'
  <1>1. MAX_HISTORY \in Nat /\ MAX_HISTORY >= 1
    BY Sizes
  <1>2. /\ UNCHANGED <<curr_history_index, overload>>
        /\ num_count > 0 /\ num_count' = num_count - 1
        /\ \/ print_history_index' = print_history_index + 1
           \/ print_history_index' = 0
    BY DEF DownKey
  <1> QED
    BY <1>1, <1>2 DEF IndicesTyped

LEMMA UpKeyType ==
    ASSUME TypeOK, UpKey
    PROVE  TypeOK'
  <1>1. IndicesTyped'
    BY TypeParts, UpKeyIndices
  <1>2. UNCHANGED <<readkey, ended>>
    BY Zenon DEF UpKey
  <1>3. UNCHANGED <<buffer, curr_term_id, reader, history_buf, astray>> \/ Recall(RowAbove)
    BY Zenon DEF UpKey
  <1>4. CASE UNCHANGED <<buffer, curr_term_id, reader, history_buf, astray>>
    BY <1>1, <1>2, <1>4, Untouched, TypePartsNext DEF reader
  <1>5. CASE Recall(RowAbove)
    BY <1>1, <1>2, <1>5, RecallType
  <1> QED
    BY <1>3, <1>4, <1>5

LEMMA DownKeyType ==
    ASSUME TypeOK, DownKey
    PROVE  TypeOK'
  <1>1. IndicesTyped'
    BY TypeParts, DownKeyIndices
  <1>2. UNCHANGED <<readkey, ended>>
    BY Zenon DEF DownKey
  <1>3. Edit(Blank, 0) \/ Recall(print_history_index')
    BY Zenon DEF DownKey
  <1>4. CASE Edit(Blank, 0)
    BY <1>1, <1>2, <1>4, BlankType, CountsHave, LineType, EditType
  <1>5. CASE Recall(print_history_index')
    BY <1>1, <1>2, <1>5, RecallType
  <1> QED
    BY <1>3, <1>4, <1>5

LEMMA TypeStep ==
    ASSUME TypeOK, [Next]_vars
    PROVE  TypeOK'
  <1>1. CASE UNCHANGED vars
    BY <1>1, Zenon DEF vars, TypeOK
  <1>2. CASE Next
    <2>1. \/ \E t \in Terms : Read(t) \/ Step(t) \/ Killed(t) \/ TerminalSwitch(t)
          \/ CharKey \/ EnterKey \/ Backspace \/ TabKey \/ UpKey \/ DownKey
          \/ UNCHANGED vars
      BY <1>2, Zenon DEF Next, Key, Crashed
    <2>2. ASSUME NEW t \in Terms, TerminalSwitch(t)
          PROVE  TypeOK'
      <3>1. /\ curr_term_id' = t
            /\ UNCHANGED <<buffer, readkey, history_buf, indices, pc, want, i, ended, astray>>
        BY <2>2, Zenon DEF TerminalSwitch, reader
      <3>2. OthersTyped'
        BY <3>1, TypeParts, Zenon DEF OthersTyped
      <3> QED
        BY <3>1, <3>2, Untouched, TypePartsNext, Zenon
    <2> QED
      BY <1>1, <2>1, <2>2, ReadType, StepType, KilledType, CharKeyType, EnterKeyType,
         BackspaceType, TabKeyType, UpKeyType, DownKeyType
  <1> QED
    BY <1>1, <1>2

LEMMA TypeInit ==
    ASSUME Init
    PROVE  TypeOK
  <1>1. Init
    OBVIOUS
  <1>2. LinesTyped
    BY <1>1, BlankType, CountsHave DEF Init, LinesTyped
  <1>3. IndicesTyped
    BY <1>1, Sizes DEF Init, IndicesTyped
  <1>4. ReaderTyped
    <2>1. "user" \in Places /\ 0 \in ReadSizes \cup {0}
      BY Zenon DEF Places
    <2>2. 0 \in 0 .. MAX_CHA_BUF
      BY Sizes
    <2> QED
      BY <1>1, <2>1, <2>2 DEF Init, ReaderTyped
  <1>5. HistoryTyped
    BY <1>1, BlankType DEF Init, HistoryTyped
  <1>6. OthersTyped
    BY <1>1, CountsHave, Sizes DEF Init, OthersTyped
  <1> QED
    BY <1>2, <1>3, <1>4, <1>5, <1>6, TypeParts

(* In every state the buffers, the history and its indices are in range,     *)
(* whatever is typed, switched or killed: curr_history_index never passes    *)
(* the end of the history, nor the row shown twice its length.               *)
THEOREM LineTypes == Spec => []TypeOK
  BY TypeInit, TypeStep, PTL DEF Spec

-----------------------------------------------------------------------------
(* One terminal, and programs that ask for a whole line, as the shell does.  *)
OneTerminal == NUM_TERMS = 1
WholeLineReads == \A n \in ReadSizes : n >= MAX_CHA_BUF

LEMMA One ==
    ASSUME OneTerminal, TypeOK
    PROVE  /\ Terms = {0} /\ curr_term_id = 0
           /\ Line = kbd_buf[0] /\ Count = kbd_buf_count[0]
           /\ DOMAIN pc = {0} /\ DOMAIN want = {0} /\ DOMAIN i = {0}
           /\ DOMAIN kbd_buf = {0} /\ DOMAIN kbd_buf_count = {0}
           /\ DOMAIN readkey = {0} /\ DOMAIN ended = {0}
           /\ kbd_buf[0] \in Lines /\ kbd_buf_count[0] \in Counts
           /\ want[0] \in ReadSizes \cup {0} /\ i[0] \in 0 .. MAX_CHA_BUF
           /\ readkey[0] \in {0, 1}
  <1>1. Terms = {0}
    BY DEF OneTerminal, Terms
  <1>2. LinesTyped /\ ReaderTyped /\ OthersTyped
    BY TypeParts
  <1>3. curr_term_id = 0
    BY <1>1, <1>2 DEF OthersTyped
  <1>4. Line = kbd_buf[0] /\ Count = kbd_buf_count[0]
    BY <1>3 DEF Line, Count
  <1>5. /\ DOMAIN kbd_buf = {0} /\ DOMAIN kbd_buf_count = {0}
        /\ kbd_buf[0] \in Lines /\ kbd_buf_count[0] \in Counts
    BY <1>1, <1>2 DEF LinesTyped
  <1>6. /\ DOMAIN pc = {0} /\ DOMAIN want = {0} /\ DOMAIN i = {0}
        /\ want[0] \in ReadSizes \cup {0} /\ i[0] \in 0 .. MAX_CHA_BUF
    BY <1>1, <1>2 DEF ReaderTyped
  <1>7. DOMAIN readkey = {0} /\ DOMAIN ended = {0} /\ readkey[0] \in {0, 1}
    BY <1>1, <1>2 DEF OthersTyped
  <1> QED
    BY <1>1, <1>3, <1>4, <1>5, <1>6, <1>7

(* A line that has ended: characters, then the end of the line.  In a line   *)
(* that has not, there is room for it.                                       *)
EndsAt(line, n) == line[n] = "newline" /\ \A c \in Columns : c < n => line[c] = "char"
EndedLine(line) == \E n \in Columns : EndsAt(line, n)
Filled(line, n) == \A c \in Columns : line[c] # "none" <=> c < n
Unended(line, n) == n < MAX_CHA_BUF /\ \A c \in Columns : c < n => line[c] = "char"
Typed(line, n) == Filled(line, n) /\ (EndedLine(line) \/ Unended(line, n))

LEMMA ColumnsAre ==
    /\ \A c \in Columns : c \in Nat /\ c < MAX_CHA_BUF
    /\ \A c \in Nat : c < MAX_CHA_BUF => c \in Columns
  BY Sizes DEF Columns

LEMMA BlankTyped == Typed(Blank, 0)
  <1>1. \A c \in Columns : Blank[c] = "none" /\ c \in Nat
    BY ColumnsAre DEF Blank
  <1> QED
    BY <1>1, Sizes DEF Typed, Filled, Unended

LEMMA CharTyped ==
    ASSUME NEW line \in Lines, NEW n \in Nat, n < MAX_CHA_BUF - 1, Typed(line, n)
    PROVE  Typed([line EXCEPT ![n] = "char"], n + 1)
  <1> DEFINE longer == [line EXCEPT ![n] = "char"]
  <1>1. n \in Columns /\ n + 1 < MAX_CHA_BUF
    BY ColumnsAre, Sizes
  <1>2. longer[n] = "char" /\ \A c \in Columns : c # n => longer[c] = line[c]
    BY <1>1 DEF Lines
  <1> HIDE DEF longer
  <1>3. Filled(longer, n + 1)
    BY <1>2, ColumnsAre DEF Typed, Filled
  <1>4. CASE EndedLine(line)
    <2>1. PICK k \in Columns : EndsAt(line, k)
      BY <1>4 DEF EndedLine
    <2>2. k < n
      BY <2>1 DEF EndsAt, Typed, Filled
    <2>3. EndsAt(longer, k)
      BY <1>2, <2>1, <2>2, ColumnsAre DEF EndsAt
    <2> QED
      BY <1>3, <2>3 DEF Typed, EndedLine, longer
  <1>5. CASE Unended(line, n)
    <2>1. Unended(longer, n + 1)
      BY <1>1, <1>2, <1>5, ColumnsAre DEF Unended
    <2> QED
      BY <1>3, <2>1 DEF Typed, longer
  <1> QED
    BY <1>4, <1>5 DEF Typed, longer

(* The Enter: it ends a line that has room for it, and is lost behind one    *)
(* that has none because it has ended before.                                *)
LEMMA EnterTyped ==
    ASSUME NEW line \in Lines, NEW n \in Nat, n <= MAX_CHA_BUF, Typed(line, n),
           NEW after, after = [c \in Columns |-> IF c = n THEN "newline" ELSE line[c]]
    PROVE  Typed(after, n + 1) /\ EndedLine(after)
  <1>1. \A c \in Columns : after[c] = IF c = n THEN "newline" ELSE line[c]
    OBVIOUS
  <1>2. Filled(after, n + 1)
    BY <1>1, ColumnsAre DEF Typed, Filled
  <1>3. CASE EndedLine(line)
    <2>1. PICK k \in Columns : EndsAt(line, k)
      BY <1>3 DEF EndedLine
    <2>2. k < n
      BY <2>1 DEF EndsAt, Typed, Filled
    <2>3. EndsAt(after, k)
      BY <1>1, <2>1, <2>2, ColumnsAre DEF EndsAt
    <2> QED
      BY <1>2, <2>3 DEF Typed, EndedLine
  <1>4. CASE Unended(line, n)
    <2>1. n \in Columns
      BY <1>4, ColumnsAre DEF Unended
    <2>2. EndsAt(after, n)
      BY <1>1, <1>4, <2>1, ColumnsAre DEF Unended, EndsAt
    <2> QED
      BY <1>2, <2>1, <2>2 DEF Typed, EndedLine
  <1> QED
    BY <1>3, <1>4 DEF Typed

LEMMA BackspaceTyped ==
    ASSUME NEW line \in Lines, NEW n \in Nat, 0 < n, n <= MAX_CHA_BUF, Typed(line, n),
           NEW after, after = [c \in Columns |-> IF c = n - 1 THEN "none" ELSE line[c]]
    PROVE  Typed(after, n - 1)
  <1>1. \A c \in Columns : after[c] = IF c = n - 1 THEN "none" ELSE line[c]
    OBVIOUS
  <1>2. Filled(after, n - 1)
    BY <1>1, ColumnsAre DEF Typed, Filled
  <1>3. CASE EndedLine(line)
    <2>1. PICK k \in Columns : EndsAt(line, k)
      BY <1>3 DEF EndedLine
    <2>2. k < n
      BY <2>1 DEF EndsAt, Typed, Filled
    <2>3. CASE k < n - 1
      <3>1. EndsAt(after, k)
        BY <1>1, <2>1, <2>3, ColumnsAre DEF EndsAt
      <3> QED
        BY <1>2, <3>1 DEF Typed, EndedLine
    <2>4. CASE k = n - 1
      <3>1. Unended(after, n - 1)
        BY <1>1, <2>1, <2>4, ColumnsAre, Sizes DEF EndsAt, Unended
      <3> QED
        BY <1>2, <3>1 DEF Typed
    <2> QED
      BY <2>2, <2>3, <2>4, ColumnsAre
  <1>4. CASE Unended(line, n)
    <2>1. Unended(after, n - 1)
      BY <1>1, <1>4, ColumnsAre, Sizes DEF Unended
    <2> QED
      BY <1>2, <2>1 DEF Typed
  <1> QED
    BY <1>3, <1>4 DEF Typed

LEMMA CharsToTyped ==
    ASSUME NEW n \in Nat, n < MAX_CHA_BUF
    PROVE  Typed(CharsTo(n), n)
  <1>1. \A c \in Columns : CharsTo(n)[c] = IF c < n THEN "char" ELSE "none"
    BY DEF CharsTo
  <1>2. Filled(CharsTo(n), n)
    BY <1>1 DEF Filled
  <1>3. Unended(CharsTo(n), n)
    BY <1>1 DEF Unended
  <1> QED
    BY <1>2, <1>3 DEF Typed

(* A row of the history that has ended comes back without its end.           *)
LEMMA RowTyped ==
    ASSUME NEW row \in Lines, EndedLine(row), NEW n \in 0 .. MAX_CHA_BUF,
           \A c \in Columns : c < n => row[c] # "newline",
           n < MAX_CHA_BUF => row[n] = "newline"
    PROVE  /\ n < MAX_CHA_BUF
           /\ Typed([c \in Columns |-> IF c < n THEN row[c] ELSE "none"], n)
  <1>1. PICK k \in Columns : EndsAt(row, k)
    BY DEF EndedLine
  <1>2. n <= k /\ k < MAX_CHA_BUF
    BY <1>1, ColumnsAre, Sizes DEF EndsAt
  <1>3. \A c \in Columns : c < n => row[c] = "char"
    BY <1>1, <1>2, ColumnsAre DEF EndsAt
  <1>4. [c \in Columns |-> IF c < n THEN row[c] ELSE "none"] = CharsTo(n)
    BY <1>3 DEF CharsTo
  <1>5. n \in Nat /\ n < MAX_CHA_BUF
    BY <1>2, ColumnsAre, Sizes
  <1> QED
    BY <1>4, <1>5, CharsToTyped

-----------------------------------------------------------------------------
(* The inductive invariant, for one terminal.                                *)

(* Where the reader is says whether there is a row for its line.             *)
RowKept ==
    /\ pc[0] # "wild"
    /\ pc[0] = "wrap" => curr_history_index = MAX_HISTORY
    /\ pc[0] \in {"reset", "erase", "arm", "wait", "copy", "record"} =>
          curr_history_index < MAX_HISTORY

Asked == pc[0] # "user" => want[0] \in ReadSizes

(* The line of a read, from the first reset to the last.  A flag that a      *)
(* killed reader left set lets an Enter end it before Arm, and another one   *)
(* after it.                                                                 *)
LineKept ==
    /\ pc[0] = "erase" => kbd_buf_count[0] = 0
    /\ pc[0] \in {"arm", "wait", "copy", "record"} => Typed(kbd_buf[0], kbd_buf_count[0])
    /\ pc[0] = "arm" /\ readkey[0] = 1 => kbd_buf_count[0] < MAX_CHA_BUF
    /\ pc[0] = "arm" \/ (pc[0] = "wait" /\ readkey[0] = 1) => kbd_buf_count[0] <= MAX_CHA_BUF
    /\ pc[0] \in {"copy", "record"} \/ (pc[0] = "wait" /\ readkey[0] = 0) =>
          EndedLine(kbd_buf[0]) /\ ended[0] = kbd_buf_count[0]

(* What has been copied of it is in the history too.                         *)
CopyKept ==
    /\ pc[0] \in {"copy", "record"} =>
          /\ i[0] <= kbd_buf_count[0] /\ i[0] <= want[0]
          /\ \A c \in Columns : c < i[0] =>
                history_buf[curr_history_index][c] = kbd_buf[0][c]
    /\ pc[0] = "record" => ~CopyMore(0)
    /\ pc[0] \in {"test", "wrap", "reset", "erase", "arm", "wait"} => i[0] = 0

(* The rows up to the one being written, or all once the ring is full, hold  *)
(* lines that have ended.                                                    *)
Written(r) ==
    /\ r < curr_history_index \/ overload = 1
    /\ pc[0] \in {"copy", "record"} => r # curr_history_index
RowsEnded == \A r \in Rows : Written(r) => EndedLine(history_buf[r])

(* The row shown last and its distance from the newest.                      *)
Shown == print_history_index + num_count
ShownKept ==
    /\ overload = 0 => Shown = curr_history_index
    /\ \/ Shown = curr_history_index
       \/ Shown = curr_history_index + MAX_HISTORY
       \/ Shown = curr_history_index + MAX_HISTORY + MAX_HISTORY
       \/ Shown + MAX_HISTORY = curr_history_index

Kept == LineKept /\ CopyKept /\ RowsEnded /\ ShownKept

LineInv == TypeOK /\ RowKept /\ Asked /\ (~astray => Kept)

LEMMA InvInit ==
    ASSUME OneTerminal, Init
    PROVE  LineInv
  <1>1. TypeOK /\ Terms = {0} /\ 0 \in Terms
    BY TypeInit, One
  <1>2. pc[0] = "user"
    BY <1>1 DEF Init
  <1>3. /\ curr_history_index = 0 /\ print_history_index = 0
        /\ num_count = 0 /\ overload = 0
    BY Zenon DEF Init
  <1>4. RowKept /\ Asked /\ LineKept /\ CopyKept
    BY <1>2 DEF RowKept, Asked, LineKept, CopyKept
  <1>5. RowsEnded
    BY <1>3, Sizes DEF RowsEnded, Written, Rows
  <1>6. ShownKept
    BY <1>3 DEF ShownKept, Shown
  <1> QED
    BY <1>1, <1>4, <1>5, <1>6, Zenon DEF LineInv, Kept

-----------------------------------------------------------------------------
(* The keys.                                                                 *)

LEMMA IndexTypes ==
    ASSUME TypeOK
    PROVE  /\ MAX_HISTORY \in Nat /\ MAX_HISTORY >= 1
           /\ curr_history_index \in Nat /\ curr_history_index <= MAX_HISTORY
           /\ num_count \in Nat /\ num_count <= MAX_HISTORY
           /\ print_history_index \in Nat /\ Shown <= MAX_HISTORY + MAX_HISTORY
           /\ overload \in {0, 1}
  BY Sizes, TypeParts DEF IndicesTyped, Shown

(* No key moves the reader or the row of its line.                           *)
LEMMA KeyLeaves ==
    ASSUME Key
    PROVE  UNCHANGED <<pc, want, i, curr_term_id, history_buf, curr_history_index, overload>>
  <1>1. CASE CharKey \/ EnterKey \/ Backspace \/ TabKey
    BY <1>1, Zenon DEF CharKey, EnterKey, Backspace, TabKey, Edit, Replace, reader, indices
  <1>2. CASE UpKey
    <2>1. UNCHANGED <<curr_history_index, overload>>
      BY <1>2, Zenon DEF UpKey
    <2>2. UNCHANGED <<buffer, curr_term_id, reader, history_buf, astray>> \/ Recall(RowAbove)
      BY <1>2, Zenon DEF UpKey
    <2> QED
      BY <2>1, <2>2, Zenon DEF Recall, Replace, reader
  <1>3. CASE DownKey
    <2>1. UNCHANGED <<curr_history_index, overload>>
      BY <1>3, Zenon DEF DownKey
    <2>2. Edit(Blank, 0) \/ Recall(print_history_index')
      BY <1>3, Zenon DEF DownKey
    <2> QED
      BY <2>1, <2>2, Zenon DEF Edit, Recall, Replace, reader
  <1> QED
    BY <1>1, <1>2, <1>3 DEF Key

(* A key that is no accident leaves the line alone or comes while the reader *)
(* is elsewhere, arms or waits.                                              *)
LEMMA KeyStep ==
    ASSUME LineInv, OneTerminal, Key, TypeOK',
           ~astray' => /\ ~astray /\ ShownKept' /\ LineKept'
                       /\ UNCHANGED buffer \/ ~InOtherHands(0)
    PROVE  LineInv'
  <1>1. UNCHANGED <<pc, want, i, curr_term_id, history_buf, curr_history_index, overload>>
    BY KeyLeaves, Zenon
  <1>2. RowKept' /\ Asked'
    BY <1>1, Zenon DEF LineInv, RowKept, Asked
  <1>3. ASSUME ~astray'
        PROVE  CopyKept' /\ RowsEnded'
    <2>1. CopyKept /\ RowsEnded
      BY <1>3, Zenon DEF LineInv, Kept
    <2>2. RowsEnded'
      BY <1>1, <2>1, Zenon DEF RowsEnded, Written
    <2>3. CASE UNCHANGED buffer
      BY <1>1, <2>1, <2>2, <2>3, Zenon DEF CopyKept, CopyMore, buffer
    <2>4. CASE ~InOtherHands(0)
      <3>1. pc'[0] \notin {"copy", "record"}
        BY <1>1, <2>4 DEF InOtherHands
      <3> QED
        BY <1>1, <2>1, <2>2, <3>1 DEF CopyKept
    <2> QED
      BY <1>3, <2>3, <2>4
  <1> QED
    BY <1>2, <1>3, Zenon DEF LineInv, Kept

LEMMA ShownSame ==
    ASSUME ShownKept, UNCHANGED <<curr_history_index, overload, print_history_index, num_count>>
    PROVE  ShownKept'
  BY Zenon DEF ShownKept, Shown

(* What most keys make of the line is a line that is being typed.            *)
LEMMA EditStep ==
    ASSUME LineInv, OneTerminal, Key, TypeOK', ~astray, ShownKept', UNCHANGED readkey,
           ~InOtherHands(0),
           pc[0] \in {"arm", "wait"} =>
              Typed(kbd_buf'[0], kbd_buf_count'[0]) /\ kbd_buf_count'[0] < MAX_CHA_BUF
    PROVE  LineInv'
  <1>1. pc'[0] = pc[0] /\ readkey'[0] = readkey[0]
    BY KeyLeaves, Zenon
  <1>2. pc[0] \notin {"erase", "copy", "record"} /\ ~(pc[0] = "wait" /\ readkey[0] = 0)
    BY DEF InOtherHands
  <1>3. kbd_buf_count'[0] < MAX_CHA_BUF => kbd_buf_count'[0] <= MAX_CHA_BUF
    <2>1. kbd_buf_count'[0] \in Counts
      BY One, TypePartsNext DEF LinesTyped, LineInv
    <2> QED
      BY <2>1, CountsHave, Sizes
  <1>4. LineKept'
    BY <1>1, <1>2, <1>3 DEF LineKept
  <1> QED
    BY <1>4, KeyStep

(* The line and the count after a key. *)
LEMMA ReplaceGives ==
    ASSUME LineInv, OneTerminal, NEW line, NEW n, Replace(line, n)
    PROVE  kbd_buf'[0] = line /\ kbd_buf_count'[0] = n
  <1>1. TypeOK
    BY Zenon DEF LineInv
  <1>2. kbd_buf' = [kbd_buf EXCEPT ![0] = line] /\ kbd_buf_count' = [kbd_buf_count EXCEPT ![0] = n]
    BY <1>1, One DEF Replace
  <1> QED
    BY <1>1, <1>2, One

(* An edit that is an accident leaves nothing to show. *)
LEMMA Accident ==
    ASSUME LineInv, OneTerminal, Key, TypeOK', astray'
    PROVE  LineInv'
  BY KeyStep

LEMMA CharKeyStep ==
    ASSUME LineInv, OneTerminal, CharKey
    PROVE  LineInv'
  <1>1. TypeOK /\ TypeOK' /\ Key
    BY CharKeyType DEF LineInv, Key
  <1>2. /\ kbd_buf_count[0] < MAX_CHA_BUF - 1
        /\ Edit([kbd_buf[0] EXCEPT ![kbd_buf_count[0]] = "char"], kbd_buf_count[0] + 1)
        /\ UNCHANGED <<readkey, indices, ended>>
    BY <1>1, One DEF CharKey
  <1>3. /\ kbd_buf'[0] = [kbd_buf[0] EXCEPT ![kbd_buf_count[0]] = "char"]
        /\ kbd_buf_count'[0] = kbd_buf_count[0] + 1
        /\ astray' = (astray \/ InOtherHands(0))
    BY <1>1, <1>2, ReplaceGives, One DEF Edit
  <1>4. CASE astray'
    BY <1>1, <1>4, Accident
  <1>5. CASE ~astray'
    <2>1. ~astray /\ ~InOtherHands(0) /\ LineKept /\ ShownKept
      BY <1>3, <1>5, Zenon DEF LineInv, Kept
    <2>2. kbd_buf[0] \in Lines /\ kbd_buf_count[0] \in Nat
      BY <1>1, One, CountsHave
    <2>3. ASSUME pc[0] \in {"arm", "wait"}
          PROVE  Typed(kbd_buf'[0], kbd_buf_count'[0]) /\ kbd_buf_count'[0] < MAX_CHA_BUF
      <3>1. Typed(kbd_buf[0], kbd_buf_count[0])
        BY <2>1, <2>3 DEF LineKept
      <3> QED
        BY <1>2, <1>3, <2>2, <3>1, CharTyped, Sizes
    <2>4. ShownKept'
      BY <1>2, <2>1, ShownSame DEF indices
    <2> QED
      BY <1>1, <1>2, <2>1, <2>3, <2>4, EditStep
  <1> QED
    BY <1>4, <1>5

LEMMA BackspaceStep ==
    ASSUME LineInv, OneTerminal, Backspace
    PROVE  LineInv'
  <1>1. TypeOK /\ TypeOK' /\ Key
    BY BackspaceType DEF LineInv, Key
  <1>2. /\ kbd_buf_count[0] > 0
        /\ Edit(PutAt(kbd_buf_count[0] - 1, "none"), kbd_buf_count[0] - 1)
        /\ UNCHANGED <<readkey, indices, ended>>
    BY <1>1, One DEF Backspace
  <1>3. /\ kbd_buf'[0] = PutAt(kbd_buf_count[0] - 1, "none")
        /\ kbd_buf_count'[0] = kbd_buf_count[0] - 1
        /\ astray' = (astray \/ InOtherHands(0))
    BY <1>1, <1>2, ReplaceGives, One DEF Edit
  <1>4. CASE astray'
    BY <1>1, <1>4, Accident
  <1>5. CASE ~astray'
    <2>1. ~astray /\ ~InOtherHands(0) /\ LineKept /\ ShownKept
      BY <1>3, <1>5, Zenon DEF LineInv, Kept
    <2>2. kbd_buf[0] \in Lines /\ kbd_buf_count[0] \in Nat
      BY <1>1, One, CountsHave
    <2>3. ASSUME pc[0] \in {"arm", "wait"}
          PROVE  Typed(kbd_buf'[0], kbd_buf_count'[0]) /\ kbd_buf_count'[0] < MAX_CHA_BUF
      <3>1. Typed(kbd_buf[0], kbd_buf_count[0]) /\ kbd_buf_count[0] <= MAX_CHA_BUF
        <4>1. pc[0] = "arm" \/ (pc[0] = "wait" /\ readkey[0] = 1)
          BY <1>1, <2>1, <2>3, One DEF InOtherHands
        <4> QED
          BY <2>1, <2>3, <4>1 DEF LineKept
      <3>2. kbd_buf'[0] =
              [c \in Columns |-> IF c = kbd_buf_count[0] - 1 THEN "none" ELSE kbd_buf[0][c]]
        BY <1>1, <1>3, One DEF PutAt
      <3>3. Typed(kbd_buf'[0], kbd_buf_count[0] - 1)
        BY <1>2, <2>2, <3>1, <3>2, BackspaceTyped
      <3> QED
        BY <1>3, <2>2, <3>1, <3>3, Sizes
    <2>4. ShownKept'
      BY <1>2, <2>1, ShownSame DEF indices
    <2> QED
      BY <1>1, <1>2, <2>1, <2>3, <2>4, EditStep
  <1> QED
    BY <1>4, <1>5

LEMMA TabKeyStep ==
    ASSUME LineInv, OneTerminal, TabKey
    PROVE  LineInv'
  <1>1. TypeOK /\ TypeOK' /\ Key
    BY TabKeyType DEF LineInv, Key
  <1>2. PICK n \in 2 .. MAX_CHA_BUF - 1 : Edit(CharsTo(n), n)
    BY Zenon DEF TabKey, CharsTo
  <1>3. UNCHANGED <<readkey, indices, ended>>
    BY Zenon DEF TabKey
  <1>4. /\ kbd_buf'[0] = CharsTo(n) /\ kbd_buf_count'[0] = n
        /\ astray' = (astray \/ InOtherHands(0))
    BY <1>1, <1>2, ReplaceGives, One DEF Edit
  <1>5. CASE astray'
    BY <1>1, <1>5, Accident
  <1>6. CASE ~astray'
    <2>1. ~astray /\ ~InOtherHands(0) /\ ShownKept
      BY <1>4, <1>6, Zenon DEF LineInv, Kept
    <2>2. Typed(kbd_buf'[0], kbd_buf_count'[0]) /\ kbd_buf_count'[0] < MAX_CHA_BUF
      BY <1>4, CharsToTyped, Sizes
    <2>3. ShownKept'
      BY <1>3, <2>1, ShownSame DEF indices
    <2> QED
      BY <1>1, <1>3, <2>1, <2>2, <2>3, EditStep
  <1> QED
    BY <1>5, <1>6

(* The line given up: Enter when nobody waits, and Down to the newest.       *)
LEMMA GivenUpStep ==
    ASSUME LineInv, OneTerminal, Key, TypeOK', Edit(Blank, 0), UNCHANGED readkey,
           ShownKept => ShownKept'
    PROVE  LineInv'
  <1>1. TypeOK
    BY DEF LineInv
  <1>2. /\ kbd_buf'[0] = Blank /\ kbd_buf_count'[0] = 0
        /\ astray' = (astray \/ InOtherHands(0))
    BY <1>1, ReplaceGives, One DEF Edit
  <1>3. CASE astray'
    BY <1>3, Accident
  <1>4. CASE ~astray'
    <2>1. ~astray /\ ~InOtherHands(0) /\ ShownKept
      BY <1>2, <1>4, Zenon DEF LineInv, Kept
    <2>2. Typed(kbd_buf'[0], kbd_buf_count'[0]) /\ kbd_buf_count'[0] < MAX_CHA_BUF
      BY <1>2, BlankTyped, Sizes
    <2> QED
      BY <2>1, <2>2, EditStep
  <1> QED
    BY <1>3, <1>4

LEMMA EnterKeyStep ==
    ASSUME LineInv, OneTerminal, EnterKey
    PROVE  LineInv'
  <1>1. TypeOK /\ TypeOK' /\ Key
    BY EnterKeyType DEF LineInv, Key
  <1>2. CASE readkey[0] = 0
    <2>1. Edit(Blank, 0) /\ UNCHANGED <<readkey, indices, ended>>
      BY <1>1, <1>2, One DEF EnterKey
    <2>2. ShownKept => ShownKept'
      BY <2>1, ShownSame DEF indices
    <2> QED
      BY <1>1, <2>1, <2>2, GivenUpStep
  <1>3. CASE readkey[0] = 1
    <2>1. PICK n \in CountAfter :
             /\ Edit(PutAt(kbd_buf_count[0], "newline"), n)
             /\ ended' = [ended EXCEPT ![0] = n]
      BY <1>1, <1>3, One DEF EnterKey
    <2>2. readkey' = [readkey EXCEPT ![0] = 0] /\ UNCHANGED indices
      BY <1>1, <1>3, One DEF EnterKey
    <2>3. /\ kbd_buf'[0] = PutAt(kbd_buf_count[0], "newline") /\ kbd_buf_count'[0] = n
          /\ astray' = (astray \/ InOtherHands(0))
          /\ readkey'[0] = 0 /\ ended'[0] = n
      BY <1>1, <2>1, <2>2, ReplaceGives, One DEF Edit
    <2>4. CASE astray'
      BY <1>1, <2>4, Accident
    <2>5. CASE ~astray'
      <3>1. ~astray /\ ~InOtherHands(0) /\ LineKept /\ ShownKept
        BY <2>3, <2>5, Zenon DEF LineInv, Kept
      <3>2. ShownKept'
        BY <2>2, <3>1, ShownSame DEF indices
      <3>3. pc'[0] = pc[0]
        BY <1>1, KeyLeaves, Zenon
      <3>4. kbd_buf[0] \in Lines /\ kbd_buf_count[0] \in Nat
        BY <1>1, One, CountsHave
      <3>5. ASSUME pc[0] \in {"arm", "wait"}
            PROVE  /\ Typed(kbd_buf'[0], n) /\ EndedLine(kbd_buf'[0])
                   /\ pc[0] = "arm" => n <= MAX_CHA_BUF
        <4>1. /\ Typed(kbd_buf[0], kbd_buf_count[0]) /\ kbd_buf_count[0] <= MAX_CHA_BUF
              /\ pc[0] = "arm" => kbd_buf_count[0] < MAX_CHA_BUF
          BY <1>3, <3>1, <3>5 DEF LineKept
        <4>2. n = kbd_buf_count[0] + 1
          BY <1>1, <4>1, One DEF CountAfter
        <4>3. kbd_buf'[0] =
              [c \in Columns |-> IF c = kbd_buf_count[0] THEN "newline" ELSE kbd_buf[0][c]]
          BY <1>1, <2>3, One DEF PutAt
        <4>4. Typed(kbd_buf'[0], kbd_buf_count[0] + 1) /\ EndedLine(kbd_buf'[0])
          BY <3>4, <4>1, <4>3, EnterTyped
        <4> QED
          BY <3>4, <4>1, <4>2, <4>4, Sizes
      <3>6. LineKept'
        <4>1. pc[0] \notin {"erase", "copy", "record"}
          BY <3>1 DEF InOtherHands
        <4> QED
          BY <2>3, <3>3, <3>5, <4>1 DEF LineKept
      <3> QED
        BY <1>1, <3>1, <3>2, <3>6, KeyStep
    <2> QED
      BY <2>4, <2>5
  <1> QED
    BY <1>1, <1>2, <1>3, One

(* A row of the history that replaces the line has ended.                    *)
LEMMA RecallStep ==
    ASSUME LineInv, OneTerminal, Key, TypeOK', NEW r, Recall(r), UNCHANGED readkey,
           ~astray => ShownKept',
           ~astray /\ ~InOtherHands(0) /\ r \in Rows => Written(r)
    PROVE  LineInv'
  <1>1. TypeOK
    BY DEF LineInv
  <1>2. PICK row \in IF r \in Rows THEN {history_buf[r]} ELSE Lines, n \in 0 .. MAX_CHA_BUF :
            /\ \A c \in Columns : c < n => row[c] # "newline"
            /\ n < MAX_CHA_BUF => row[n] = "newline"
            /\ Replace([c \in Columns |-> IF c < n THEN row[c] ELSE "none"], n)
            /\ astray' = (astray \/ InOtherHands(curr_term_id) \/ r \notin Rows)
    BY Zenon DEF Recall
  <1>3. /\ kbd_buf'[0] = [c \in Columns |-> IF c < n THEN row[c] ELSE "none"]
        /\ kbd_buf_count'[0] = n
    BY <1>2, ReplaceGives
  <1>4. CASE astray'
    BY <1>4, Accident
  <1>5. CASE ~astray'
    <2>1. ~astray /\ ~InOtherHands(0) /\ r \in Rows
      BY <1>1, <1>2, <1>5, One
    <2>2. row = history_buf[r] /\ RowsEnded
      BY <1>2, <2>1, Zenon DEF LineInv, Kept
    <2>3. EndedLine(row)
      BY <2>1, <2>2 DEF RowsEnded
    <2>4. row \in Lines
      BY <1>1, <2>1, <2>2, TypeParts DEF HistoryTyped
    <2>5. Typed(kbd_buf'[0], kbd_buf_count'[0]) /\ kbd_buf_count'[0] < MAX_CHA_BUF
      BY <1>2, <1>3, <2>3, <2>4, RowTyped
    <2> QED
      BY <2>1, <2>5, EditStep
  <1> QED
    BY <1>4, <1>5

LEMMA RowsAre ==
    /\ \A r \in Rows : r \in Nat /\ r < MAX_HISTORY
    /\ \A r \in Nat : r < MAX_HISTORY => r \in Rows
  BY Sizes DEF Rows

(* Up, in numbers.                                                           *)
LEMMA UpShown ==
    ASSUME TypeOK, UpKey, ShownKept
    PROVE  /\ ShownKept'
           /\ RowAbove < curr_history_index \/ overload = 1
  <1>1. /\ UNCHANGED <<curr_history_index, overload>>
        /\ print_history_index > 0 \/ overload = 1
    BY DEF UpKey
  <1>2. overload = 1 \/ (print_history_index > 0 /\ Shown = curr_history_index)
    BY <1>1, IndexTypes DEF ShownKept
  <1>3. RowAbove < curr_history_index \/ overload = 1
    BY <1>2, IndexTypes DEF Shown, RowAbove
  <1>4. CASE num_count = MAX_HISTORY
    <2>1. print_history_index' = RowAbove + 1 /\ num_count' = num_count
      BY <1>4 DEF UpKey
    <2>2. CASE print_history_index > 0
      <3>1. Shown' = Shown
        BY <2>1, <2>2, IndexTypes DEF RowAbove, Shown
      <3> QED
        BY <1>1, <1>3, <3>1 DEF ShownKept
    <2>3. CASE print_history_index = 0
      <3>1. overload = 1 /\ Shown' = Shown + MAX_HISTORY /\ Shown = MAX_HISTORY
        BY <1>2, <1>4, <2>1, <2>3, IndexTypes DEF RowAbove, Shown
      <3> QED
        BY <1>1, <1>3, <3>1, IndexTypes DEF ShownKept
    <2> QED
      BY <2>2, <2>3, IndexTypes
  <1>5. CASE num_count # MAX_HISTORY
    <2>1. print_history_index' = RowAbove /\ num_count' = num_count + 1
      BY <1>5 DEF UpKey
    <2>2. CASE print_history_index > 0
      <3>1. Shown' = Shown
        BY <2>1, <2>2, IndexTypes DEF RowAbove, Shown
      <3> QED
        BY <1>1, <1>3, <3>1 DEF ShownKept
    <2>3. CASE print_history_index = 0
      <3>1. overload = 1 /\ Shown' = Shown + MAX_HISTORY /\ Shown < MAX_HISTORY
        BY <1>2, <1>5, <2>1, <2>3, IndexTypes DEF RowAbove, Shown
      <3>2. Shown = curr_history_index \/ Shown + MAX_HISTORY = curr_history_index
        BY <3>1, IndexTypes DEF ShownKept, Shown
      <3> QED
        BY <1>1, <1>3, <3>1, <3>2, IndexTypes DEF ShownKept
    <2> QED
      BY <2>2, <2>3, IndexTypes
  <1> QED
    BY <1>3, <1>4, <1>5

LEMMA UpKeyStep ==
    ASSUME LineInv, OneTerminal, UpKey
    PROVE  LineInv'
  <1>1. TypeOK /\ TypeOK' /\ Key
    BY UpKeyType DEF LineInv, Key
  <1>2. UNCHANGED <<readkey, ended>>
    BY Zenon DEF UpKey
  <1>3. ~astray => ShownKept' /\ (RowAbove < curr_history_index \/ overload = 1)
    BY <1>1, UpShown DEF LineInv, Kept
  <1>4. UNCHANGED <<buffer, curr_term_id, reader, history_buf, astray>> \/ Recall(RowAbove)
    BY Zenon DEF UpKey
  <1>5. CASE UNCHANGED <<buffer, curr_term_id, reader, history_buf, astray>>
    <2>1. UNCHANGED <<kbd_buf, kbd_buf_count, pc, astray>>
      BY <1>5 DEF buffer, reader
    <2>2. ~astray => LineKept'
      BY <1>2, <2>1, Zenon DEF LineInv, Kept, LineKept
    <2> QED
      BY <1>1, <1>3, <1>5, <2>1, <2>2, KeyStep
  <1>6. CASE Recall(RowAbove)
    <2>1. ~astray /\ ~InOtherHands(0) => Written(RowAbove)
      BY <1>3 DEF Written, InOtherHands
    <2> QED
      BY <1>1, <1>2, <1>3, <1>6, <2>1, RecallStep
  <1> QED
    BY <1>4, <1>5, <1>6

LEMMA DownKeyStep ==
    ASSUME LineInv, OneTerminal, DownKey
    PROVE  LineInv'
  <1>1. TypeOK /\ TypeOK' /\ Key
    BY DownKeyType DEF LineInv, Key
  <1>2. /\ UNCHANGED <<readkey, curr_history_index, overload, ended>>
        /\ num_count > 0 /\ num_count' = num_count - 1
    BY DEF DownKey
  <1>3. CASE num_count = 1
    <2>1. Edit(Blank, 0) /\ print_history_index' = print_history_index + 1
      BY <1>3 DEF DownKey
    <2>2. Shown' = Shown
      BY <1>1, <1>2, <2>1, IndexTypes DEF Shown
    <2>3. ShownKept => ShownKept'
      BY <1>2, <2>2, Zenon DEF ShownKept
    <2> QED
      BY <1>1, <1>2, <2>1, <2>3, GivenUpStep
  <1>4. CASE num_count # 1
    <2>1. /\ print_history_index' = IF print_history_index + 1 = MAX_HISTORY THEN 0
                                    ELSE print_history_index + 1
          /\ Recall(print_history_index') /\ num_count > 1
      BY <1>4, Zenon DEF DownKey
    <2>2. ASSUME ShownKept
          PROVE  ShownKept' /\ (print_history_index' < curr_history_index \/ overload = 1)
      <3>1. CASE print_history_index + 1 = MAX_HISTORY
        <4>1. Shown' + MAX_HISTORY = Shown /\ Shown > MAX_HISTORY
          BY <1>1, <1>2, <2>1, <3>1, IndexTypes DEF Shown
        <4>2. overload = 1
          BY <1>1, <2>2, <4>1, IndexTypes DEF ShownKept
        <4>3. Shown \in Nat /\ Shown' \in Nat /\ overload' = 1
          BY <1>1, <1>2, <4>2, IndexTypes, TypePartsNext DEF Shown, IndicesTyped
        <4>4. \/ Shown' = curr_history_index
              \/ Shown' = curr_history_index + MAX_HISTORY
              \/ Shown' + MAX_HISTORY = curr_history_index
          <5>1. CASE Shown + MAX_HISTORY = curr_history_index
            BY <1>1, <4>1, <4>3, <5>1, IndexTypes
          <5>2. CASE Shown # curr_history_index - MAX_HISTORY
            BY <1>1, <2>2, <4>1, <4>3, <5>2, IndexTypes DEF ShownKept
          <5> QED
            BY <1>1, <4>3, <5>1, <5>2, IndexTypes
        <4> QED
          BY <1>2, <4>2, <4>3, <4>4 DEF ShownKept
      <3>2. CASE print_history_index + 1 # MAX_HISTORY
        <4>1. Shown' = Shown /\ print_history_index' < Shown
          BY <1>1, <1>2, <2>1, <3>2, IndexTypes DEF Shown
        <4>2. overload = 1 \/ Shown = curr_history_index
          BY <1>1, <2>2, IndexTypes DEF ShownKept
        <4> QED
          BY <1>2, <2>2, <4>1, <4>2 DEF ShownKept
      <3> QED
        BY <3>1, <3>2
    <2>3. ~astray => ShownKept' /\ (print_history_index' < curr_history_index \/ overload = 1)
      BY <2>2 DEF LineInv, Kept
    <2>4. ~astray /\ ~InOtherHands(0) => Written(print_history_index')
      BY <2>3 DEF Written, InOtherHands
    <2> QED
      BY <1>1, <1>2, <2>1, <2>3, <2>4, RecallStep
  <1> QED
    BY <1>3, <1>4

-----------------------------------------------------------------------------
(* The reader.                                                               *)

LEMMA GoesOn ==
    ASSUME TypeOK, OneTerminal, NEW from, NEW to, Goes(0, from, to)
    PROVE  pc[0] = from /\ pc'[0] = to /\ UNCHANGED <<curr_term_id, ended, astray>>
  BY One, Zenon DEF Goes

(* Between two points of terminal_read() where the line is nobody's.         *)
LEMMA IdleStep ==
    ASSUME LineInv, OneTerminal, TypeOK', RowKept', Asked',
           pc'[0] \in {"user", "test", "wrap", "reset", "reset again", "erase again"},
           ~astray' => ~astray,
           ~astray' /\ pc'[0] \in {"test", "wrap", "reset"} => i'[0] = 0,
           ~astray' => RowsEnded' /\ ShownKept'
    PROVE  LineInv'
  <1>1. ASSUME ~astray' PROVE LineKept' /\ CopyKept'
    BY <1>1 DEF LineKept, CopyKept
  <1> QED
    BY <1>1, Zenon DEF LineInv, Kept

LEMMA RowsSame ==
    ASSUME RowsEnded, UNCHANGED <<history_buf, curr_history_index, overload>>,
           pc[0] \in {"copy", "record"} => pc'[0] \in {"copy", "record"}
    PROVE  RowsEnded'
  BY DEF RowsEnded, Written

LEMMA ReadStep ==
    ASSUME LineInv, OneTerminal, Read(0)
    PROVE  LineInv'
  <1>1. TypeOK /\ TypeOK'
    BY ReadType, One DEF LineInv
  <1>2. /\ pc[0] = "user" /\ pc' = [pc EXCEPT ![0] = "test"]
        /\ i' = [i EXCEPT ![0] = 0]
        /\ \E n \in ReadSizes : want' = [want EXCEPT ![0] = n]
        /\ UNCHANGED <<buffer, readkey, history_buf, indices, curr_term_id, astray>>
    BY Zenon DEF Read
  <1>3. pc'[0] = "test" /\ i'[0] = 0 /\ want'[0] \in ReadSizes
    BY <1>1, <1>2, One
  <1>4. RowKept' /\ Asked'
    BY <1>3 DEF RowKept, Asked
  <1>5. ~astray => RowsEnded' /\ ShownKept'
    BY <1>2, RowsSame, ShownSame DEF LineInv, Kept, indices
  <1> QED
    BY <1>1, <1>2, <1>3, <1>4, <1>5, IdleStep

LEMMA TestHistoryFullStep ==
    ASSUME LineInv, OneTerminal, TestHistoryFull(0)
    PROVE  LineInv'
  <1>1. TypeOK /\ TypeOK'
    BY StepType, One DEF LineInv, Step
  <1>2. /\ \/ curr_history_index = MAX_HISTORY /\ Goes(0, "test", "wrap")
           \/ curr_history_index # MAX_HISTORY /\ Goes(0, "test", "reset")
        /\ UNCHANGED <<buffer, readkey, history_buf, indices, want, i>>
    BY Zenon DEF TestHistoryFull
  <1>3. /\ pc[0] = "test" /\ UNCHANGED <<curr_term_id, ended, astray>>
        /\ \/ pc'[0] = "wrap" /\ curr_history_index = MAX_HISTORY
           \/ pc'[0] = "reset" /\ curr_history_index # MAX_HISTORY
    BY <1>1, <1>2, GoesOn
  <1>4. RowKept' /\ Asked'
    BY <1>1, <1>2, <1>3, IndexTypes DEF LineInv, RowKept, Asked, indices
  <1>5. ~astray => RowsEnded' /\ ShownKept' /\ i[0] = 0
    BY <1>2, <1>3, RowsSame, ShownSame DEF LineInv, Kept, indices, CopyKept
  <1> QED
    BY <1>1, <1>2, <1>3, <1>4, <1>5, IdleStep

LEMMA WrapStep ==
    ASSUME LineInv, OneTerminal, Wrap(0)
    PROVE  LineInv'
  <1>1. TypeOK /\ TypeOK'
    BY StepType, One DEF LineInv, Step
  <1>2. /\ Goes(0, "wrap", "reset") /\ UpdateIndex
        /\ UNCHANGED <<buffer, readkey, history_buf, want, i>>
    BY Zenon DEF Wrap
  <1>3. /\ pc[0] = "wrap" /\ pc'[0] = "reset" /\ UNCHANGED <<curr_term_id, ended, astray>>
    BY <1>1, <1>2, GoesOn
  <1>4. curr_history_index = MAX_HISTORY
    BY <1>3 DEF LineInv, RowKept
  <1>5. /\ curr_history_index' = 0 /\ overload' = 1
        /\ UNCHANGED <<print_history_index, num_count>>
    BY <1>2, <1>4 DEF UpdateIndex
  <1>6. RowKept' /\ Asked'
    BY <1>1, <1>2, <1>3, <1>5, IndexTypes DEF LineInv, RowKept, Asked
  <1>7. ASSUME ~astray
        PROVE  RowsEnded' /\ ShownKept' /\ i[0] = 0
    <2>1. RowsEnded /\ ShownKept /\ i[0] = 0
      BY <1>3, <1>7 DEF LineInv, Kept, CopyKept
    <2>2. RowsEnded'
      BY <1>2, <1>3, <1>4, <2>1, RowsAre DEF RowsEnded, Written
    <2>3. Shown' = Shown
      BY <1>5, Zenon DEF Shown
    <2>4. ShownKept'
      BY <1>1, <1>4, <1>5, <2>1, <2>3, IndexTypes DEF ShownKept, Shown
    <2> QED
      BY <2>1, <2>2, <2>4
  <1> QED
    BY <1>1, <1>2, <1>3, <1>6, <1>7, IdleStep

LEMMA ResetStep ==
    ASSUME LineInv, OneTerminal, Reset(0)
    PROVE  LineInv'
  <1>1. TypeOK /\ TypeOK'
    BY StepType, One DEF LineInv, Step
  <1>2. /\ Goes(0, "reset", "erase") \/ Goes(0, "reset again", "erase again")
        /\ kbd_buf_count' = [kbd_buf_count EXCEPT ![0] = 0]
        /\ UNCHANGED <<kbd_buf, readkey, history_buf, indices, want, i>>
    BY Zenon DEF Reset, ResetCount
  <1>3. /\ \/ pc[0] = "reset" /\ pc'[0] = "erase"
           \/ pc[0] = "reset again" /\ pc'[0] = "erase again"
        /\ UNCHANGED <<curr_term_id, ended, astray>>
        /\ kbd_buf_count'[0] = 0
    BY <1>1, <1>2, GoesOn, One
  <1>4. RowKept' /\ Asked'
    BY <1>2, <1>3 DEF LineInv, RowKept, Asked, indices
  <1>5. ASSUME ~astray
        PROVE  Kept'
    <2>1. CopyKept /\ RowsEnded' /\ ShownKept'
      BY <1>2, <1>3, <1>5, RowsSame, ShownSame DEF LineInv, Kept, indices
    <2>2. LineKept'
      BY <1>3 DEF LineKept
    <2>3. CopyKept'
      BY <1>2, <1>3, <2>1 DEF CopyKept
    <2> QED
      BY <2>1, <2>2, <2>3 DEF Kept
  <1> QED
    BY <1>1, <1>3, <1>4, <1>5 DEF LineInv

LEMMA EraseLineStep ==
    ASSUME LineInv, OneTerminal, EraseLine(0)
    PROVE  LineInv'
  <1>1. TypeOK /\ TypeOK'
    BY StepType, One DEF LineInv, Step
  <1>2. /\ Goes(0, "erase", "arm") /\ kbd_buf' = [kbd_buf EXCEPT ![0] = Blank]
        /\ UNCHANGED <<kbd_buf_count, readkey, history_buf, indices, want, i>>
    BY Zenon DEF EraseLine, Erase
  <1>3. /\ pc[0] = "erase" /\ pc'[0] = "arm" /\ UNCHANGED <<curr_term_id, ended, astray>>
        /\ kbd_buf'[0] = Blank
    BY <1>1, <1>2, GoesOn, One
  <1>4. RowKept' /\ Asked'
    BY <1>2, <1>3 DEF LineInv, RowKept, Asked, indices
  <1>5. ASSUME ~astray
        PROVE  Kept'
    <2>1. CopyKept /\ RowsEnded' /\ ShownKept' /\ kbd_buf_count'[0] = 0
      BY <1>2, <1>3, <1>5, RowsSame, ShownSame DEF LineInv, Kept, indices, LineKept
    <2>2. LineKept'
      BY <1>3, <2>1, BlankTyped, Sizes DEF LineKept
    <2>3. CopyKept'
      BY <1>2, <1>3, <2>1 DEF CopyKept
    <2> QED
      BY <2>1, <2>2, <2>3 DEF Kept
  <1> QED
    BY <1>1, <1>3, <1>4, <1>5 DEF LineInv

LEMMA ArmStep ==
    ASSUME LineInv, OneTerminal, Arm(0)
    PROVE  LineInv'
  <1>1. TypeOK /\ TypeOK'
    BY StepType, One DEF LineInv, Step
  <1>2. /\ Goes(0, "arm", "wait") /\ readkey' = [readkey EXCEPT ![0] = 1]
        /\ UNCHANGED <<kbd_buf, kbd_buf_count, history_buf, indices, want, i>>
    BY Zenon DEF Arm, buffer
  <1>3. /\ pc[0] = "arm" /\ pc'[0] = "wait" /\ UNCHANGED <<curr_term_id, ended, astray>>
        /\ readkey'[0] = 1
    BY <1>1, <1>2, GoesOn, One
  <1>4. RowKept' /\ Asked'
    BY <1>2, <1>3 DEF LineInv, RowKept, Asked, indices
  <1>5. ASSUME ~astray
        PROVE  Kept'
    <2>1. LineKept /\ CopyKept /\ RowsEnded' /\ ShownKept'
      BY <1>2, <1>3, <1>5, RowsSame, ShownSame DEF LineInv, Kept, indices
    <2>2. LineKept'
      BY <1>2, <1>3, <2>1 DEF LineKept
    <2>3. CopyKept'
      BY <1>2, <1>3, <2>1 DEF CopyKept
    <2> QED
      BY <2>1, <2>2, <2>3 DEF Kept
  <1> QED
    BY <1>1, <1>3, <1>4, <1>5 DEF LineInv

LEMMA WaitStep ==
    ASSUME LineInv, OneTerminal, Wait(0)
    PROVE  LineInv'
  <1>1. TypeOK /\ TypeOK'
    BY StepType, One DEF LineInv, Step
  <1>2. /\ readkey[0] = 0 /\ Goes(0, "wait", "copy")
        /\ UNCHANGED <<kbd_buf, kbd_buf_count, readkey, history_buf, indices, want, i>>
    BY Zenon DEF Wait, buffer
  <1>3. /\ pc[0] = "wait" /\ pc'[0] = "copy" /\ UNCHANGED <<curr_term_id, ended, astray>>
    BY <1>1, <1>2, GoesOn, One
  <1>4. RowKept' /\ Asked'
    BY <1>2, <1>3 DEF LineInv, RowKept, Asked, indices
  <1>5. ASSUME ~astray
        PROVE  Kept'
    <2>1. LineKept /\ CopyKept /\ RowsEnded' /\ ShownKept'
      BY <1>2, <1>3, <1>5, RowsSame, ShownSame DEF LineInv, Kept, indices
    <2>2. LineKept'
      BY <1>2, <1>3, <2>1 DEF LineKept
    <2>3. i[0] = 0
      BY <1>3, <2>1 DEF CopyKept
    <2>4. 0 <= kbd_buf_count[0] /\ 0 <= want[0] /\ \A c \in Columns : ~(c < 0)
      BY <1>1, One, CountsHave, Sizes, ColumnsAre
    <2>5. CopyKept'
      BY <1>2, <1>3, <2>3, <2>4 DEF CopyKept
    <2> QED
      BY <2>1, <2>2, <2>5 DEF Kept
  <1> QED
    BY <1>1, <1>3, <1>4, <1>5 DEF LineInv

LEMMA CopyStep ==
    ASSUME LineInv, OneTerminal, Copy(0)
    PROVE  LineInv'
  <1>1. TypeOK /\ TypeOK'
    BY StepType, One DEF LineInv, Step
  <1>2. /\ i[0] < want[0] /\ i[0] < MAX_CHA_BUF /\ kbd_buf[0][i[0]] # "none"
        /\ i' = [i EXCEPT ![0] = i[0] + 1]
        /\ UNCHANGED <<kbd_buf, kbd_buf_count, readkey, indices, want>>
    BY DEF Copy, CopyMore, buffer
  <1>3. pc[0] = "copy"
    BY Zenon DEF Copy, Goes
  <1>4. curr_history_index < MAX_HISTORY
    BY <1>3 DEF LineInv, RowKept
  <1>5. Goes(0, "copy", "copy")
    BY <1>1, <1>4, IndexTypes DEF Copy
  <1>6. pc'[0] = "copy" /\ UNCHANGED <<curr_term_id, ended, astray>> /\ i'[0] = i[0] + 1
    BY <1>1, <1>2, <1>5, GoesOn, One
  <1>7. RowKept' /\ Asked'
    BY <1>2, <1>3, <1>6 DEF LineInv, RowKept, Asked, indices
  <1>8. ASSUME ~astray
        PROVE  Kept'
    <2>1. LineKept /\ CopyKept /\ RowsEnded /\ ShownKept'
      BY <1>2, <1>8, ShownSame DEF LineInv, Kept, indices
    <2>2. LineKept'
      BY <1>2, <1>3, <1>6, <2>1 DEF LineKept
    <2>3. /\ i[0] \in Nat /\ i[0] \in Columns /\ kbd_buf_count[0] \in Nat
          /\ want[0] \in Nat /\ curr_history_index \in Rows
      BY <1>1, <1>2, <1>4, One, CountsHave, Sizes, ColumnsAre, RowsAre, IndexTypes
    <2>4. i[0] < kbd_buf_count[0]
      BY <1>2, <1>3, <2>1, <2>3 DEF LineKept, Typed, Filled
    <2>5. history_buf' =
            [history_buf EXCEPT ![curr_history_index][i[0]] = kbd_buf[0][i[0]]]
      BY <1>1, <1>4, <2>3, <2>4, IndexTypes DEF Copy
    <2>6. history_buf \in [Rows -> Lines]
      BY <1>1, TypeParts DEF HistoryTyped
    <2>7. /\ history_buf'[curr_history_index] =
                [history_buf[curr_history_index] EXCEPT ![i[0]] = kbd_buf[0][i[0]]]
          /\ \A r \in Rows : r # curr_history_index => history_buf'[r] = history_buf[r]
      BY <2>3, <2>5, <2>6
    <2>8. RowsEnded'
      BY <1>2, <1>3, <1>6, <2>1, <2>7 DEF RowsEnded, Written, indices
    <2>9. history_buf[curr_history_index] \in [Columns -> {"none", "char", "newline"}]
      BY <2>3, <2>6 DEF Lines
    <2>10. \A c \in Columns : c < i[0] + 1 =>
              history_buf'[curr_history_index][c] = kbd_buf[0][c]
      <3>1. \A c \in Columns : c < i[0] => history_buf[curr_history_index][c] = kbd_buf[0][c]
        BY <1>3, <2>1 DEF CopyKept
      <3> QED
        BY <2>3, <2>7, <2>9, <3>1, ColumnsAre
    <2>11. i[0] + 1 <= kbd_buf_count[0] /\ i[0] + 1 <= want[0]
      BY <1>2, <2>3, <2>4
    <2>12. CopyKept'
      BY <1>2, <1>6, <2>10, <2>11 DEF CopyKept, indices
    <2> QED
      BY <2>1, <2>2, <2>8, <2>12 DEF Kept
  <1> QED
    BY <1>1, <1>6, <1>7, <1>8 DEF LineInv

LEMMA CopyDoneStep ==
    ASSUME LineInv, OneTerminal, CopyDone(0)
    PROVE  LineInv'
  <1>1. TypeOK /\ TypeOK'
    BY StepType, One DEF LineInv, Step
  <1>2. /\ ~CopyMore(0) /\ Goes(0, "copy", "record")
        /\ UNCHANGED <<kbd_buf, kbd_buf_count, readkey, history_buf, indices, want, i>>
    BY Zenon DEF CopyDone, buffer
  <1>3. /\ pc[0] = "copy" /\ pc'[0] = "record" /\ UNCHANGED <<curr_term_id, ended, astray>>
    BY <1>1, <1>2, GoesOn, One
  <1>4. RowKept' /\ Asked'
    BY <1>2, <1>3 DEF LineInv, RowKept, Asked, indices
  <1>5. ASSUME ~astray
        PROVE  Kept'
    <2>1. LineKept /\ CopyKept /\ RowsEnded' /\ ShownKept'
      BY <1>2, <1>3, <1>5, RowsSame, ShownSame DEF LineInv, Kept, indices
    <2>2. LineKept'
      BY <1>2, <1>3, <2>1 DEF LineKept
    <2>3. ~CopyMore(0)'
      BY <1>2, Zenon DEF CopyMore
    <2>4. CopyKept'
      BY <1>2, <1>3, <2>1, <2>3 DEF CopyKept, indices
    <2> QED
      BY <2>1, <2>2, <2>4 DEF Kept
  <1> QED
    BY <1>1, <1>3, <1>4, <1>5 DEF LineInv

(* A line that was read whole is a row that has ended.                       *)
LEMMA WholeRow ==
    ASSUME LineInv, OneTerminal, WholeLineReads, ~astray, pc[0] = "record"
    PROVE  EndedLine(history_buf[curr_history_index])
  <1>1. TypeOK /\ LineKept /\ CopyKept /\ want[0] \in ReadSizes
    BY DEF LineInv, Kept, Asked
  <1>2. EndedLine(kbd_buf[0]) /\ Filled(kbd_buf[0], kbd_buf_count[0])
    BY <1>1 DEF LineKept, Typed
  <1>3. /\ i[0] <= kbd_buf_count[0]
        /\ \A c \in Columns : c < i[0] => history_buf[curr_history_index][c] = kbd_buf[0][c]
        /\ ~CopyMore(0)
    BY <1>1 DEF CopyKept
  <1>4. /\ i[0] \in Nat /\ kbd_buf_count[0] \in Nat
        /\ want[0] \in Nat /\ want[0] >= MAX_CHA_BUF
    BY <1>1, One, CountsHave, Sizes DEF WholeLineReads
  <1>5. i[0] >= MAX_CHA_BUF \/ i[0] = kbd_buf_count[0]
    <2> SUFFICES ASSUME i[0] < MAX_CHA_BUF PROVE i[0] = kbd_buf_count[0]
      BY <1>4, Sizes
    <2>1. i[0] \in Columns /\ kbd_buf[0][i[0]] = "none"
      BY <1>3, <1>4, ColumnsAre, Sizes DEF CopyMore
    <2> QED
      BY <1>2, <1>3, <1>4, <2>1 DEF Filled
  <1>6. PICK n \in Columns : EndsAt(kbd_buf[0], n)
    BY <1>2 DEF EndedLine
  <1>7. n < i[0] /\ n \in Nat
    <2>1. n < kbd_buf_count[0] /\ n \in Nat /\ n < MAX_CHA_BUF
      BY <1>2, <1>6, ColumnsAre DEF EndsAt, Filled
    <2> QED
      BY <1>4, <1>5, <2>1, Sizes
  <1>8. \A c \in Columns : c < n => c < i[0]
    BY <1>4, <1>7, ColumnsAre
  <1> QED
    BY <1>3, <1>6, <1>7, <1>8 DEF EndsAt, EndedLine

LEMMA RecordStep ==
    ASSUME LineInv, OneTerminal, WholeLineReads, Record(0)
    PROVE  LineInv'
  <1>1. TypeOK /\ TypeOK'
    BY StepType, One DEF LineInv, Step
  <1>2. /\ Goes(0, "record", "reset again") /\ UpdateIndex
        /\ UNCHANGED <<buffer, readkey, history_buf, want, i>>
    BY Zenon DEF Record
  <1>3. /\ pc[0] = "record" /\ pc'[0] = "reset again" /\ UNCHANGED <<curr_term_id, ended, astray>>
    BY <1>1, <1>2, GoesOn
  <1>4. curr_history_index < MAX_HISTORY
    BY <1>3 DEF LineInv, RowKept
  <1>5. RowKept' /\ Asked'
    BY <1>2, <1>3 DEF LineInv, RowKept, Asked
  <1>6. ASSUME ~astray
        PROVE  RowsEnded' /\ ShownKept'
    <2>1. LineKept /\ RowsEnded
      BY <1>6 DEF LineInv, Kept
    <2>2. kbd_buf_count[0] # 0
      <3>1. PICK n \in Columns : EndsAt(kbd_buf[0], n)
        BY <1>3, <2>1 DEF LineKept, EndedLine
      <3>2. n < kbd_buf_count[0]
        BY <1>3, <2>1, <3>1 DEF LineKept, Typed, Filled, EndsAt
      <3> QED
        BY <3>2, ColumnsAre
    <2>3. /\ curr_history_index' = curr_history_index + 1
          /\ print_history_index' = curr_history_index + 1
          /\ num_count' = 0 /\ overload' = overload
      <3>1. curr_history_index # MAX_HISTORY /\ kbd_buf_count[curr_term_id] # 0
        BY <1>1, <1>4, <2>2, One, IndexTypes
      <3> QED
        BY <1>2, <3>1, Zenon DEF UpdateIndex
    <2>4. ShownKept'
      BY <1>1, <2>3, IndexTypes DEF ShownKept, Shown
    <2>5. EndedLine(history_buf[curr_history_index])
      BY <1>3, <1>6, WholeRow
    <2>6. ASSUME NEW r \in Rows, Written(r)'
          PROVE  EndedLine(history_buf'[r])
      <3>1. CASE r = curr_history_index
        BY <1>2, <2>5, <3>1
      <3>2. CASE r # curr_history_index
        <4>1. Written(r)
          BY <1>1, <2>3, <2>6, <3>2, RowsAre, IndexTypes DEF Written
        <4> QED
          BY <1>2, <2>1, <4>1 DEF RowsEnded
      <3> QED
        BY <3>1, <3>2
    <2> QED
      BY <2>4, <2>6 DEF RowsEnded
  <1> QED
    BY <1>1, <1>3, <1>5, <1>6, IdleStep

LEMMA ReturnStep ==
    ASSUME LineInv, OneTerminal, Return(0)
    PROVE  LineInv'
  <1>1. TypeOK /\ TypeOK'
    BY StepType, One DEF LineInv, Step
  <1>2. /\ Goes(0, "erase again", "user")
        /\ UNCHANGED <<kbd_buf_count, readkey, history_buf, indices>>
    BY Zenon DEF Return
  <1>3. /\ pc[0] = "erase again" /\ pc'[0] = "user" /\ UNCHANGED <<curr_term_id, ended, astray>>
    BY <1>1, <1>2, GoesOn
  <1>4. RowKept' /\ Asked'
    BY <1>3 DEF RowKept, Asked
  <1>5. ~astray => RowsEnded' /\ ShownKept'
    BY <1>2, <1>3, RowsSame, ShownSame DEF LineInv, Kept, indices
  <1> QED
    BY <1>1, <1>3, <1>4, <1>5, IdleStep

LEMMA KilledStep ==
    ASSUME LineInv, OneTerminal, Killed(0)
    PROVE  LineInv'
  <1>1. TypeOK /\ TypeOK'
    BY KilledType, One DEF LineInv
  <1>2. /\ astray' = (astray \/ InOtherHands(0))
        /\ pc' = [pc EXCEPT ![0] = "user"]
        /\ UNCHANGED <<buffer, readkey, history_buf, indices, curr_term_id>>
    BY Zenon DEF Killed
  <1>3. pc'[0] = "user"
    BY <1>1, <1>2, One
  <1>4. RowKept' /\ Asked'
    BY <1>3 DEF RowKept, Asked
  <1>5. ASSUME ~astray'
        PROVE  ~astray /\ RowsEnded' /\ ShownKept'
    <2>1. ~astray /\ pc[0] \notin {"copy", "record"}
      BY <1>2, <1>5 DEF InOtherHands
    <2> QED
      BY <1>2, <2>1, RowsSame, ShownSame DEF LineInv, Kept, indices
  <1> QED
    BY <1>1, <1>3, <1>4, <1>5, IdleStep

LEMMA InvStep ==
    ASSUME LineInv, OneTerminal, WholeLineReads, [Next]_vars
    PROVE  LineInv'
  <1>1. TypeOK /\ TypeOK'
    BY TypeStep DEF LineInv
  <1>2. CASE UNCHANGED vars
    <2>1. RowKept' /\ Asked'
      BY <1>2, Zenon DEF vars, LineInv, RowKept, Asked
    <2>2. ASSUME ~astray' PROVE Kept'
      <3>1. ~astray /\ Kept
        BY <1>2, <2>2, Zenon DEF vars, LineInv
      <3>2. LineKept'
        BY <1>2, <3>1, Zenon DEF vars, Kept, LineKept
      <3>3. CopyKept'
        BY <1>2, <3>1, Zenon DEF vars, Kept, CopyKept, CopyMore
      <3>4. RowsEnded'
        BY <1>2, <3>1, Zenon DEF vars, Kept, RowsEnded, Written
      <3>5. ShownKept'
        BY <1>2, <3>1, Zenon DEF vars, Kept, ShownKept, Shown
      <3> QED
        BY <3>2, <3>3, <3>4, <3>5, Zenon DEF Kept
    <2> QED
      BY <1>1, <2>1, <2>2, Zenon DEF LineInv
  <1>3. CASE Next
    <2>1. \/ \E t \in Terms : Read(t) \/ Step(t) \/ Killed(t) \/ TerminalSwitch(t)
          \/ CharKey \/ EnterKey \/ Backspace \/ TabKey \/ UpKey \/ DownKey
          \/ UNCHANGED vars
      BY <1>3, Zenon DEF Next, Key, Crashed
    <2>2. ASSUME NEW t \in Terms, Read(t) \/ Step(t) \/ Killed(t) \/ TerminalSwitch(t)
          PROVE  LineInv'
      <3>1. t = 0 /\ curr_term_id = 0
        BY <1>1, One
      <3>2. ~TerminalSwitch(t)
        BY <3>1 DEF TerminalSwitch
      <3>3. CASE Step(t)
        BY <3>1, <3>3, TestHistoryFullStep, WrapStep, ResetStep, EraseLineStep, ArmStep, WaitStep,
           CopyStep, CopyDoneStep, RecordStep, ReturnStep DEF Step
      <3> QED
        BY <2>2, <3>1, <3>2, <3>3, ReadStep, KilledStep
    <2> QED
      BY <1>2, <2>1, <2>2, CharKeyStep, EnterKeyStep, BackspaceStep, TabKeyStep,
         UpKeyStep, DownKeyStep
  <1> QED
    BY <1>2, <1>3

THEOREM LineInvariant ==
    ASSUME OneTerminal, WholeLineReads
    PROVE  Spec => []LineInv
  BY InvInit, InvStep, PTL DEF Spec

-----------------------------------------------------------------------------
(* What the runs check of one terminal, from the invariant.                  *)

(* Whatever is typed, recalled, completed or killed: while a reader has the  *)
(* line, kbd_buf_count counts the characters in it and there is no hole in   *)
(* it, unless one of the named accidents has happened.                       *)
THEOREM LinesCounted ==
    ASSUME OneTerminal, WholeLineReads
    PROVE  Spec => []CountMatches
  <1>1. ASSUME LineInv PROVE CountMatches
    <2>1. TypeOK
      BY <1>1 DEF LineInv
    <2>2. ASSUME ~astray, NEW t \in Terms, pc[t] \in {"wait", "copy", "record"}
          PROVE  \A c \in Columns : kbd_buf[t][c] # "none" <=> c < kbd_buf_count[t]
      <3>1. t = 0
        BY <2>1, One
      <3>2. Typed(kbd_buf[0], kbd_buf_count[0])
        BY <1>1, <2>2, <3>1 DEF LineInv, Kept, LineKept
      <3> QED
        BY <3>1, <3>2, Zenon DEF Typed, Filled
    <2> QED
      BY <2>1, <2>2 DEF CountMatches
  <1> QED
    BY <1>1, LineInvariant, PTL

(* terminal_read() gives the program the line that ended in the Enter it     *)
(* waited for, no less and no more than was asked for and a buffer holds.    *)
THEOREM LinesRead ==
    ASSUME OneTerminal, WholeLineReads
    PROVE  Spec => []LineRead
  <1>1. ASSUME LineInv PROVE LineRead
    <2>1. TypeOK
      BY <1>1 DEF LineInv
    <2> SUFFICES ASSUME ~astray, NEW t \in Terms, pc[t] = "record"
                 PROVE  i[t] = Least(want[t], Least(ended[t], MAX_CHA_BUF))
      BY DEF LineRead
    <2>2. t = 0
      BY <2>1, One
    <2>3. LineKept /\ CopyKept /\ want[0] \in ReadSizes
      BY <1>1, <2>2 DEF LineInv, Kept, Asked
    <2>4. ended[0] = kbd_buf_count[0] /\ Filled(kbd_buf[0], kbd_buf_count[0])
      BY <2>2, <2>3 DEF LineKept, Typed
    <2>5. i[0] <= kbd_buf_count[0] /\ i[0] <= want[0] /\ ~CopyMore(0)
      BY <2>2, <2>3 DEF CopyKept
    <2>6. /\ i[0] \in Nat /\ i[0] <= MAX_CHA_BUF /\ kbd_buf_count[0] \in Nat
          /\ want[0] \in Nat /\ MAX_CHA_BUF \in Nat
      BY <2>1, <2>3, One, CountsHave, Sizes
    <2>7. i[0] = want[0] \/ i[0] = MAX_CHA_BUF \/ i[0] = kbd_buf_count[0]
      <3> SUFFICES ASSUME i[0] < want[0], i[0] < MAX_CHA_BUF
                   PROVE  i[0] = kbd_buf_count[0]
        BY <2>5, <2>6
      <3>1. i[0] \in Columns /\ kbd_buf[0][i[0]] = "none"
        BY <2>5, <2>6, ColumnsAre DEF CopyMore
      <3> QED
        BY <2>4, <2>5, <2>6, <3>1 DEF Filled
    <2> QED
      BY <2>2, <2>4, <2>5, <2>6, <2>7 DEF Least
  <1> QED
    BY <1>1, LineInvariant, PTL

(* Numbers that differ by less than m are not a multiple of m apart.         *)
LEMMA Apart ==
    ASSUME NEW m \in Nat, m >= 1, NEW a \in Int, NEW b \in Int, NEW r \in 0 .. m - 1,
           NEW s \in 0 .. m - 1, m * a + r = m * b + s
    PROVE  r = s
  <1>1. m * (a - b) = s - r
    OBVIOUS
  <1>2. CASE a = b
    BY <1>2
  <1>3. CASE a >= b + 1
    <2>1. a - b >= 1
      BY <1>3
    <2>2. m * (a - b) >= m
      BY <2>1
    <2> QED
      BY <1>1, <2>2
  <1>4. CASE b >= a + 1
    <2>1. b - a >= 1
      BY <1>4
    <2>2. m * (b - a) >= m
      BY <2>1
    <2>3. m * (b - a) = r - s
      OBVIOUS
    <2> QED
      BY <2>3, <2>2
  <1> QED
    BY <1>2, <1>3, <1>4

LEMMA DivMod ==
    ASSUME NEW m \in Nat, m >= 1, NEW x \in Nat
    PROVE  x \div m \in Int /\ x % m \in 0 .. m - 1 /\ x = m * (x \div m) + (x % m)
  OBVIOUS

LEMMA AddModulus ==
    ASSUME NEW m \in Nat, m >= 1, NEW x \in Nat
    PROVE  (x + m) % m = x % m
  <1> DEFINE q == x \div m
             r == x % m
             p == (x + m) \div m
             s == (x + m) % m
  <1>1. q \in Int /\ r \in 0 .. m - 1 /\ x = m * q + r
    BY DivMod
  <1>2. p \in Int /\ s \in 0 .. m - 1 /\ x + m = m * p + s
    <2>1. x + m \in Nat
      OBVIOUS
    <2> QED
      BY <2>1, DivMod
  <1> HIDE DEF q, r, p, s
  <1>3. m * (q + 1) + r = m * p + s /\ q + 1 \in Int
    BY <1>1, <1>2
  <1>4. r = s
    BY <1>1, <1>2, <1>3, Apart
  <1> QED
    BY <1>4 DEF r, s

(* Up and Down agree on where in the ring they are, however often it wrapped. *)
THEOREM ShownRowRight ==
    ASSUME OneTerminal, WholeLineReads
    PROVE  Spec => []UpAndDownAgree
  <1>1. ASSUME LineInv PROVE UpAndDownAgree
    <2>1. TypeOK
      BY <1>1 DEF LineInv
    <2> SUFFICES ASSUME ~astray
                 PROVE  Shown % MAX_HISTORY = curr_history_index % MAX_HISTORY
      BY DEF UpAndDownAgree, Shown
    <2>2. ShownKept
      BY <1>1 DEF LineInv, Kept
    <2>3. /\ MAX_HISTORY \in Nat /\ MAX_HISTORY >= 1 /\ curr_history_index \in Nat
          /\ Shown \in Nat
      BY <2>1, IndexTypes DEF Shown
    <2>4. (curr_history_index + MAX_HISTORY) % MAX_HISTORY = curr_history_index % MAX_HISTORY
      BY <2>3, AddModulus
    <2>5. (curr_history_index + MAX_HISTORY + MAX_HISTORY) % MAX_HISTORY
            = curr_history_index % MAX_HISTORY
      <3>1. curr_history_index + MAX_HISTORY \in Nat
        BY <2>3
      <3> QED
        BY <2>3, <2>4, <3>1, AddModulus
    <2>6. (Shown + MAX_HISTORY) % MAX_HISTORY = Shown % MAX_HISTORY
      BY <2>3, AddModulus
    <2> QED
      BY <2>2, <2>4, <2>5, <2>6, Zenon DEF ShownKept
  <1> QED
    BY <1>1, LineInvariant, PTL

(* The row of a line is there however little of it a program asks for.       *)
LEMMA RowStep ==
    ASSUME TypeOK, RowKept, OneTerminal, [Next]_vars
    PROVE  RowKept'
  <1>1. CASE UNCHANGED vars
    BY <1>1, Zenon DEF vars, RowKept
  <1>2. CASE Key
    BY <1>2, KeyLeaves, Zenon DEF RowKept
  <1>3. ASSUME NEW t \in Terms, Read(t) \/ Step(t) \/ Killed(t) \/ TerminalSwitch(t)
        PROVE  RowKept'
    <2>1. t = 0 /\ ~TerminalSwitch(t)
      BY One DEF TerminalSwitch
    <2>2. CASE Read(0) \/ Killed(0)
      <3>1. pc' = [pc EXCEPT ![0] = "test"] \/ pc' = [pc EXCEPT ![0] = "user"]
        BY <2>2, Zenon DEF Read, Killed
      <3> QED
        BY <3>1, One DEF RowKept
    <2>3. CASE TestHistoryFull(0)
      <3>1. /\ UNCHANGED indices
            /\ \/ curr_history_index = MAX_HISTORY /\ pc'[0] = "wrap"
               \/ curr_history_index # MAX_HISTORY /\ pc'[0] = "reset"
        BY <2>3, GoesOn DEF TestHistoryFull
      <3> QED
        BY <3>1, IndexTypes DEF RowKept, indices
    <2>4. CASE Wrap(0)
      <3>1. pc[0] = "wrap" /\ pc'[0] = "reset" /\ UpdateIndex
        BY <2>4, GoesOn DEF Wrap
      <3>2. curr_history_index' = 0
        BY <3>1 DEF RowKept, UpdateIndex
      <3> QED
        BY <3>1, <3>2, IndexTypes DEF RowKept
    <2>5. CASE Reset(0) \/ EraseLine(0) \/ Arm(0) \/ Wait(0) \/ CopyDone(0)
      <3>1. UNCHANGED indices
        BY <2>5, Zenon DEF Reset, EraseLine, Arm, Wait, CopyDone
      <3>2. \/ Goes(0, "reset", "erase") \/ Goes(0, "reset again", "erase again")
            \/ Goes(0, "erase", "arm") \/ Goes(0, "arm", "wait")
            \/ Goes(0, "wait", "copy") \/ Goes(0, "copy", "record")
        BY <2>5, Zenon DEF Reset, EraseLine, Arm, Wait, CopyDone
      <3>3. \/ pc[0] = "reset again" /\ pc'[0] = "erase again"
            \/ /\ pc[0] \in {"reset", "erase", "arm", "wait", "copy"}
               /\ pc'[0] \in {"erase", "arm", "wait", "copy", "record"}
        BY <3>2, GoesOn
      <3> QED
        BY <3>1, <3>3 DEF RowKept, indices
    <2>6. CASE Copy(0)
      <3>1. pc[0] = "copy" /\ UNCHANGED indices
        BY <2>6, Zenon DEF Copy, Goes
      <3>2. curr_history_index < MAX_HISTORY
        BY <3>1 DEF RowKept
      <3>3. Goes(0, "copy", "copy")
        BY <2>6, <3>2, IndexTypes DEF Copy
      <3>4. pc'[0] = "copy"
        BY <3>3, GoesOn
      <3> QED
        BY <3>1, <3>2, <3>4 DEF RowKept, indices
    <2>7. CASE Record(0) \/ Return(0)
      <3>1. pc'[0] \in {"reset again", "user"}
        BY <2>7, GoesOn DEF Record, Return
      <3> QED
        BY <3>1 DEF RowKept
    <2> QED
      BY <1>3, <2>1, <2>2, <2>3, <2>4, <2>5, <2>6, <2>7 DEF Step
  <1> QED
    BY <1>1, <1>2, <1>3 DEF Next, Crashed

(* No line is written behind the history: one terminal never finds it full   *)
(* when its line has been read, whatever lengths its programs ask for.       *)
THEOREM HistoryKept ==
    ASSUME OneTerminal
    PROVE  Spec => []WritesInHistory
  <1>1. ASSUME Init PROVE RowKept
    BY <1>1, TypeInit, One DEF Init, RowKept
  <1>2. ASSUME TypeOK, RowKept PROVE WritesInHistory
    BY <1>2, One DEF WritesInHistory, RowKept
  <1> QED
    BY <1>1, <1>2, TypeInit, TypeStep, RowStep, PTL DEF Spec
=============================================================================

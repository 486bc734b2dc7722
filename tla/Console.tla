------------------------------ MODULE Console ------------------------------
(***************************************************************************)
(* What a terminal promises to show: a strip of text of which the last      *)
(* NUM_ROWS rows are kept.  text holds the complete rows, each filled up to *)
(* NUM_COLS; line is the row being written.  This is the abstract           *)
(* specification of the console of lib.c, which module Screen refines.      *)
(***************************************************************************)
EXTENDS Naturals, Sequences, SequencesExt

CONSTANTS
    NUM_ROWS,   \* rows of a terminal (lib.h: 25)
    NUM_COLS,   \* columns (lib.h: 80)
    Terms,      \* the terminals
    Chars       \* the characters that show, the blank apart

VARIABLES text, line

console == <<text, line>>

Row == [1 .. NUM_COLS -> Chars \cup {" "}]
Filled(s) == [k \in 1 .. NUM_COLS |-> IF k <= Len(s) THEN s[k] ELSE " "]

(* The rows above once the row being written is complete. *)
Above(t) == LET rows == Append(text[t], Filled(line[t]))
            IN  IF Len(rows) = NUM_ROWS THEN Tail(rows) ELSE rows

Is(t, rows, row) ==
    /\ text' = [text EXCEPT ![t] = rows]
    /\ line' = [line EXCEPT ![t] = row]

Init ==
    /\ text = [t \in Terms |-> <<>>]
    /\ line = [t \in Terms |-> <<>>]

Type(t, c) ==
    \/ Len(line[t]) < NUM_COLS /\ Is(t, text[t], Append(line[t], c))
    \/ Len(line[t]) = NUM_COLS /\ Is(t, Above(t), <<c>>)

NewLine(t) == Is(t, Above(t), <<>>)

(* Over the edge, the last column of the row above goes. *)
Erase(t) ==
    \/ line[t] # <<>> /\ Is(t, text[t], Front(line[t]))
    \/ /\ line[t] = <<>> /\ text[t] # <<>>
       /\ Is(t, Front(text[t]), Front(Last(text[t])))

Clear(t) == Is(t, <<>>, <<>>)

Next == \E t \in Terms :
    NewLine(t) \/ Erase(t) \/ Clear(t) \/ \E c \in Chars : Type(t, c)

Spec == Init /\ [][Next]_console
=============================================================================

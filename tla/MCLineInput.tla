---------------------------- MODULE MCLineInput ----------------------------
EXTENDS LineInput

(* More than a line, as programs ask that want one (ece391counter.c: 1023).  *)
WholeLines == {MAX_CHA_BUF + 1}
NotAstray == ~astray
EmptyBetweenReads ==
    ~astray /\ \A t \in Terms : pc[t] = "user" => kbd_buf_count[t] = 0
=============================================================================

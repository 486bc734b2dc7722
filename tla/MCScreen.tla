------------------------------ MODULE MCScreen ------------------------------
EXTENDS Screen

(* Bound: one terminal of the three at least has no text. *)
OneBlank == \E t \in Terms : cursor_x[t] = 0 /\ cursor_y[t] = 0
=============================================================================

----------------------------- MODULE MCWindows -----------------------------
EXTENDS Windows

Speaker == [x |-> 3, y |-> 1, w |-> 1, h |-> 1]
Corners == [t \in Terms |-> [x |-> t, y |-> t]]
OneStep == {<<0, 0>>, <<0, 14>>, <<1, 237>>}

(* Bound: one window at most is away from its first place, and then one at   *)
(* most is hidden; if the piano is on or sounds, none is either.             *)
Moved == {t \in Terms : window[t] # Start[t]}
Hidden == {t \in Terms : terminal_show[t] = 0}
Quiet == piano_button + numl + speaker + held = 0
Few == /\ Cardinality(Moved) <= 1
       /\ Moved = {} \/ Cardinality(Hidden) <= 1
       /\ Quiet \/ Moved \cup Hidden = {}

(* What was kept of a drag is overwritten before it is used again. *)
View == <<mouse, drag_term, IF drag_term = NONE THEN <<>> ELSE <<mouse_drag, grip>>,
          window, terminal_show, term_orders, curr_term_id, piano_button, numl,
          speaker, held, detuned>>
=============================================================================

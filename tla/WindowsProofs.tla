--------------------------- MODULE WindowsProofs ---------------------------
(***************************************************************************)
(* The order of the windows, the drag and the note of module Windows, for   *)
(* any number of windows on a screen of any size, any movements of the      *)
(* mouse and any start.                                                     *)
(***************************************************************************)
EXTENDS Windows, WellFoundedInduction, TLAPS

(* The order of the windows, without what lies about it.                     *)
Ordered ==
    /\ term_orders \in [Terms -> Terms]
    /\ curr_term_id \in Terms
    /\ term_orders[0] = curr_term_id
    /\ \A t \in Terms : \E n \in Terms : term_orders[n] = t

WindowPlace == [x : 1 - WINDOW_W .. VGA_DIMX, y : 1 - WINDOW_H .. VGA_DIMY]
Grips == [x : 0 .. WINDOW_W - 1, y : 0 .. WINDOW_H - 1]

(* While a window is dragged, grip is the difference between where the       *)
(* pointer was and where the window still is: the code keeps the former two. *)
(* That a window let go is still on the screen follows from it.              *)
Placed ==
    /\ mouse \in [x : PointerX, y : PointerY]
    /\ mouse_drag \in [x : PointerX, y : PointerY]
    /\ drag_term \in Terms \cup {NONE}
    /\ window \in [Terms -> WindowPlace]
    /\ grip \in Grips
    /\ drag_term # NONE =>
        /\ mouse_drag.x - window[drag_term].x = grip.x
        /\ mouse_drag.y - window[drag_term].y = grip.y

(* A note that sounds while the piano is off is one that the piano was       *)
(* turned off under: no key will end it.                                     *)
Noted ==
    /\ piano_button \in {0, 1} /\ numl \in {0, 1}
    /\ speaker \in {0, 1} /\ held \in {0, 1}
    /\ detuned \in BOOLEAN
    /\ NoteEnds
    /\ speaker = 1 /\ ~PianoOn => detuned

Inv == Ordered /\ Placed /\ Noted /\ terminal_show \in [Terms -> {0, 1}]

-----------------------------------------------------------------------------
LEMMA LeastNat ==
    ASSUME NEW T, T \subseteq Nat, T # {}
    PROVE  \E m \in T : \A n \in T : m <= n
  <1> DEFINE R == OpToRel(<, Nat)
  <1>1. IsWellFoundedOn(R, Nat)
    BY NatLessThanWellFounded
  <1>2. \A m, n \in Nat : m < n => <<m, n>> \in R
    BY DEF OpToRel
  <1> HIDE DEF R
  <1>3. PICK m \in T : \A n \in T : <<n, m>> \notin R
    BY <1>1, WFMin
  <1>4. m \in Nat /\ \A n \in T : n \in Nat
    OBVIOUS
  <1>5. \A n \in T : ~(n < m)
    BY <1>2, <1>3, <1>4, Zenon
  <1>6. \A n \in T : m <= n
    BY <1>4, <1>5
  <1> QED
    BY <1>6

LEMMA MaxIsIn ==
    ASSUME NEW N \in Nat, NEW S, S \subseteq 0 .. N, S # {}
    PROVE  Max(S) \in S
  <1> DEFINE T == {n \in Nat : N - n \in S}
  <1>1. \A n \in S : N - n \in T
    OBVIOUS
  <1>2. PICK m \in T : \A n \in T : m <= n
    <2>1. T # {} /\ T \subseteq Nat
      BY <1>1
    <2> HIDE DEF T
    <2> QED
      BY <2>1, LeastNat
  <1>3. N - m \in S /\ m \in Nat
    OBVIOUS
  <1>4. \A n \in S : N - m >= n
    <2> SUFFICES ASSUME NEW n \in S
                 PROVE  N - m >= n
      OBVIOUS
    <2>1. n \in 0 .. N /\ m <= N - n
      BY <1>1, <1>2
    <2> QED
      BY <2>1, <1>3
  <1> QED
    BY <1>3, <1>4 DEF Max

LEMMA MaxOfOrder ==
    ASSUME NEW S, S \subseteq Terms, S # {}
    PROVE  Max(S) \in S
  <1>1. NUM_TERMS - 1 \in Nat
    BY WindowsAssumption
  <1> QED
    BY <1>1, MaxIsIn DEF Terms

(* update_order(): the window raised is on top, and none is lost.            *)
LEMMA RaisedOrder ==
    ASSUME term_orders \in [Terms -> Terms],
           \A u \in Terms : \E n \in Terms : term_orders[n] = u,
           NEW t \in Terms
    PROVE  /\ Raised(t) \in [Terms -> Terms]
           /\ Raised(t)[0] = t
           /\ \A u \in Terms : \E n \in Terms : Raised(t)[n] = u
  <1> DEFINE at == CHOOSE n \in Terms : term_orders[n] = t
  <1>1. NUM_TERMS \in Nat \ {0}
    BY WindowsAssumption
  <1>2. at \in Terms /\ term_orders[at] = t
    OBVIOUS
  <1>3. Raised(t) = [n \in Terms |-> IF n = 0 THEN t
                                     ELSE IF n <= at THEN term_orders[n - 1] ELSE term_orders[n]]
    BY DEF Raised
  <1> HIDE DEF at
  <1>4. \A n \in Terms : n # 0 => n - 1 \in Terms
    BY <1>1 DEF Terms
  <1>5. 0 \in Terms
    BY <1>1 DEF Terms
  <1>6. Raised(t) \in [Terms -> Terms] /\ Raised(t)[0] = t
    BY <1>3, <1>4, <1>5
  <1>7. ASSUME NEW u \in Terms
        PROVE  \E n \in Terms : Raised(t)[n] = u
    <2>1. PICK n \in Terms : term_orders[n] = u
      OBVIOUS
    <2>2. CASE n = at
      BY <1>2, <1>5, <1>6, <2>1, <2>2
    <2>3. CASE n < at
      <3>1. n + 1 \in Terms /\ n + 1 # 0 /\ n + 1 <= at /\ (n + 1) - 1 = n
        BY <1>1, <1>2, <2>3 DEF Terms
      <3>2. Raised(t)[n + 1] = term_orders[(n + 1) - 1]
        BY <1>3, <3>1, Zenon
      <3> QED
        BY <2>1, <3>1, <3>2
    <2>4. CASE n > at
      <3>1. n # 0 /\ ~(n <= at)
        BY <1>1, <1>2, <2>4 DEF Terms
      <3>2. Raised(t)[n] = term_orders[n]
        BY <1>3, <3>1, Zenon
      <3> QED
        BY <2>1, <3>2
    <2> QED
      BY <1>1, <1>2, <2>2, <2>3, <2>4 DEF Terms
  <1> QED
    BY <1>6, <1>7

(* What TerminalSwitch gives, and what leaving the order alone keeps.        *)
LEMMA SwitchKeeps ==
    ASSUME Ordered, NEW t \in Terms, TerminalSwitch(t)
    PROVE  Ordered'
  <1>1. term_orders' = Raised(t) /\ curr_term_id' = t
    BY DEF TerminalSwitch
  <1>2. /\ Raised(t) \in [Terms -> Terms]
        /\ Raised(t)[0] = t
        /\ \A u \in Terms : \E n \in Terms : Raised(t)[n] = u
    BY RaisedOrder DEF Ordered
  <1> QED
    BY <1>1, <1>2, Zenon DEF Ordered

LEMMA OrderKeeps ==
    ASSUME Ordered, UNCHANGED order
    PROVE  Ordered'
  BY DEF Ordered, order

LEMMA ClampedIn ==
    ASSUME NEW n \in Int, NEW last \in Nat
    PROVE  Clamped(n, last) \in 0 .. last
  BY DEF Clamped

LEMMA MovementIsInt ==
    ASSUME NEW b \in Bytes
    PROVE  Movement(b) \in Int
  <1>1. b[1] \in {0, 1} /\ b[2] \in 0 .. 255
    BY WindowsAssumption
  <1> QED
    BY <1>1 DEF Movement

(* The pointer stays on the screen.                                          *)
LEMMA MoveKeeps ==
    ASSUME mouse \in [x : PointerX, y : PointerY],
           NEW x \in Bytes, NEW y \in Bytes, Move(x, y)
    PROVE  mouse' \in [x : PointerX, y : PointerY]
  <1>1. VGA_DIMX - POINTER \in Nat /\ VGA_DIMY - POINTER \in Nat
    BY WindowsAssumption
  <1>2. mouse.x + Movement(x) \in Int /\ mouse.y - Movement(y) \in Int
    <2>1. mouse.x \in Int /\ mouse.y \in Int
      BY <1>1 DEF PointerX, PointerY
    <2> QED
      BY <2>1, MovementIsInt
  <1>3. /\ Clamped(mouse.x + Movement(x), VGA_DIMX - POINTER) \in PointerX
        /\ Clamped(mouse.y - Movement(y), VGA_DIMY - POINTER) \in PointerY
    BY <1>1, <1>2, ClampedIn DEF PointerX, PointerY
  <1> QED
    BY <1>3 DEF Move

-----------------------------------------------------------------------------
LEMMA InvGivesOrder == Inv => KeysGoToTop
  BY DEF Inv, Ordered, Placed, Noted, KeysGoToTop, TypeOK, WindowPlace, Grips

LEMMA InitInv == Init => Inv
  <1> SUFFICES ASSUME Init
               PROVE  Inv
    OBVIOUS
  <1>1. /\ NUM_TERMS \in Nat \ {0} /\ VGA_DIMX \in Nat /\ VGA_DIMY \in Nat
        /\ WINDOW_W \in Nat \ {0} /\ WINDOW_H \in Nat \ {0}
        /\ POINTER \in Nat /\ 2 * POINTER <= VGA_DIMX /\ 2 * POINTER <= VGA_DIMY
        /\ Start \in [Terms -> [x : PointerX, y : PointerY]]
    BY WindowsAssumption DEF PointerX, PointerY
  <1>2. Ordered
    <2>1. 0 \in Terms
      BY <1>1 DEF Terms
    <2> QED
      BY <2>1 DEF Init, Ordered
  <1>3. Placed
    <2>1. VGA_DIMX \div 2 \in PointerX /\ VGA_DIMY \div 2 \in PointerY
      BY <1>1 DEF PointerX, PointerY
    <2>2. mouse \in [x : PointerX, y : PointerY] /\ mouse_drag = mouse
      BY <2>1 DEF Init
    <2>3. PointerX \subseteq 1 - WINDOW_W .. VGA_DIMX /\ PointerY \subseteq 1 - WINDOW_H .. VGA_DIMY
      BY <1>1 DEF PointerX, PointerY
    <2>4. window \in [Terms -> WindowPlace]
      BY <1>1, <2>3 DEF Init, WindowPlace
    <2>5. grip \in Grips
      BY <1>1 DEF Init, Grips
    <2> QED
      BY <2>2, <2>4, <2>5 DEF Init, Placed
  <1>4. Noted /\ terminal_show \in [Terms -> {0, 1}]
    <2>1. Noted
      <3>1. speaker = 0 /\ held = 0 /\ numl = 0 /\ piano_button = 0
        BY DEF Init
      <3>2. speaker # 1
        BY <3>1
      <3>3. detuned \in BOOLEAN
        BY DEF Init
      <3>4. /\ piano_button \in {0, 1} /\ numl \in {0, 1}
            /\ speaker \in {0, 1} /\ held \in {0, 1}
        BY <3>1
      <3> QED
        BY <3>2, <3>3, <3>4, Zenon DEF Noted, NoteEnds
    <2>2. terminal_show \in [Terms -> {0, 1}]
      BY DEF Init
    <2> QED
      BY <2>1, <2>2
  <1> QED
    BY <1>2, <1>3, <1>4 DEF Inv

(* A click takes one of the windows that are under the pointer.              *)
LEMMA HitIsUnder ==
    ASSUME Ordered, Hit # {}
    PROVE  /\ Max(Hit) \in Terms
           /\ term_orders[Max(Hit)] \in Terms
           /\ CheckInTerm(term_orders[Max(Hit)])
  <1>1. Hit \subseteq Terms
    BY DEF Hit
  <1>2. Max(Hit) \in Hit
    BY <1>1, MaxOfOrder
  <1> QED
    BY <1>2 DEF Hit, Ordered

LEMMA GrabKeeps ==
    ASSUME Placed, NEW t \in Terms, CheckInTerm(t), Grab(t), UNCHANGED window,
           mouse' \in [x : PointerX, y : PointerY]
    PROVE  Placed'
  <1>1. /\ drag_term' = t /\ mouse_drag' = mouse /\ window' = window
        /\ grip' = [x |-> mouse.x - window[t].x, y |-> mouse.y - window[t].y]
    BY DEF Grab
  <1>2. /\ WINDOW_W \in Nat \ {0} /\ WINDOW_H \in Nat \ {0}
        /\ VGA_DIMX \in Nat /\ VGA_DIMY \in Nat /\ POINTER \in Nat
    BY WindowsAssumption
  <1>3. /\ window[t].x \in Int /\ window[t].y \in Int /\ mouse.x \in Int /\ mouse.y \in Int
    BY <1>2 DEF Placed, WindowPlace, PointerX, PointerY
  <1>4. mouse.x - window[t].x \in 0 .. WINDOW_W - 1 /\ mouse.y - window[t].y \in 0 .. WINDOW_H - 1
    BY <1>2, <1>3 DEF CheckInTerm, CheckInArea
  <1>5. grip' \in Grips
    BY <1>1, <1>4 DEF Grips
  <1> QED
    BY <1>1, <1>5 DEF Placed

(* The window let go is where the pointer is, less the grip.                 *)
LEMMA ReleasePlaces ==
    ASSUME Placed, Release, drag_term # NONE
    PROVE  /\ window'[drag_term].x = mouse.x - grip.x
           /\ window'[drag_term].y = mouse.y - grip.y
           /\ window' \in [Terms -> WindowPlace]
  <1>1. drag_term \in Terms
    BY DEF Placed
  <1>2. /\ WINDOW_W \in Nat \ {0} /\ WINDOW_H \in Nat \ {0}
        /\ VGA_DIMX \in Nat /\ VGA_DIMY \in Nat /\ POINTER \in Nat
    BY WindowsAssumption
  <1> DEFINE w == window[drag_term]
             moved == [x |-> w.x + mouse.x - mouse_drag.x, y |-> w.y + mouse.y - mouse_drag.y]
  <1>3. window' = [window EXCEPT ![drag_term] = moved]
    BY DEF Release
  <1>4. /\ w.x \in Int /\ w.y \in Int /\ mouse_drag.x \in Int /\ mouse_drag.y \in Int
        /\ mouse.x \in 0 .. VGA_DIMX - POINTER /\ mouse.y \in 0 .. VGA_DIMY - POINTER
        /\ grip.x \in 0 .. WINDOW_W - 1 /\ grip.y \in 0 .. WINDOW_H - 1
    BY <1>1, <1>2 DEF Placed, WindowPlace, PointerX, PointerY, Grips
  <1>5. mouse_drag.x - w.x = grip.x /\ mouse_drag.y - w.y = grip.y
    BY DEF Placed
  <1>6. moved.x = mouse.x - grip.x /\ moved.y = mouse.y - grip.y
    BY <1>4, <1>5
  <1>7. moved \in WindowPlace
    BY <1>2, <1>4, <1>6 DEF WindowPlace
  <1>8. window \in [Terms -> WindowPlace]
    BY DEF Placed
  <1> HIDE DEF w, moved
  <1> QED
    BY <1>1, <1>3, <1>6, <1>7, <1>8

-----------------------------------------------------------------------------
(* Each part of the invariant, action by action. *)

LEMMA OrderedKept ==
    ASSUME Inv, [Next]_vars
    PROVE  Ordered'
  <1>1. Ordered
    BY DEF Inv
  <1>2. ASSUME NEW left \in BOOLEAN, NEW x \in Bytes, NEW y \in Bytes, Packet(left, x, y)
        PROVE  Ordered'
    <2>1. CASE left /\ ClickSpeaker
      BY <1>1, <2>1, OrderKeeps DEF ClickSpeaker
    <2>2. CASE left /\ ClickDesk
      <3>1. CASE Hit # {} /\ Grab(term_orders[Max(Hit)])
        BY <1>1, <3>1, HitIsUnder, SwitchKeeps DEF Grab
      <3>2. CASE UNCHANGED order
        BY <1>1, <3>2, OrderKeeps
      <3> QED
        BY <2>2, <3>1, <3>2 DEF ClickDesk
    <2>3. ASSUME left, NEW t \in Terms, ClickBar(t)
          PROVE  Ordered'
      BY <1>1, <2>3, OrderKeeps, SwitchKeeps DEF ClickBar
    <2>4. CASE ~left
      BY <1>1, <1>2, <2>4, OrderKeeps DEF Packet, Release
    <2> QED
      BY <1>2, <2>1, <2>2, <2>3, <2>4 DEF Packet, MouseLeftClick
  <1>3. ASSUME NEW t \in Terms, AltF(t)
        PROVE  Ordered'
    BY <1>1, <1>3, SwitchKeeps DEF AltF
  <1>4. CASE NumLock \/ DigitDown \/ DigitUp \/ OtherUp
    BY <1>1, <1>4, OrderKeeps DEF NumLock, DigitDown, DigitUp, OtherUp
  <1>5. CASE UNCHANGED vars
    BY <1>1, <1>5, OrderKeeps DEF vars, order
  <1> QED
    BY <1>2, <1>3, <1>4, <1>5 DEF Next

LEMMA PlacedKept ==
    ASSUME Inv, [Next]_vars
    PROVE  Placed'
  <1>1. Placed /\ Ordered
    BY DEF Inv
  <1>2. ASSUME UNCHANGED <<drag, window>>, mouse' \in [x : PointerX, y : PointerY]
        PROVE  Placed'
    BY <1>1, <1>2 DEF Placed, drag
  <1>3. ASSUME NEW left \in BOOLEAN, NEW x \in Bytes, NEW y \in Bytes, Packet(left, x, y)
        PROVE  Placed'
    <2>1. mouse' \in [x : PointerX, y : PointerY]
      BY <1>1, <1>3, MoveKeeps DEF Packet, Placed
    <2>2. CASE left
      <3>1. UNCHANGED window
        BY <1>3, <2>2 DEF Packet, MouseLeftClick
      <3>2. CASE UNCHANGED drag
        BY <1>2, <2>1, <3>1, <3>2
      <3>3. CASE Hit # {} /\ Grab(term_orders[Max(Hit)])
        BY <1>1, <2>1, <3>1, <3>3, HitIsUnder, GrabKeeps
      <3> QED
        BY <1>3, <2>2, <3>2, <3>3
        DEF Packet, MouseLeftClick, ClickSpeaker, ClickDesk, ClickBar
    <2>3. CASE ~left
      <3>1. Release
        BY <1>3, <2>3 DEF Packet
      <3>2. window' \in [Terms -> WindowPlace]
        <4>1. CASE drag_term = NONE
          BY <1>1, <3>1, <4>1 DEF Release, Placed
        <4> QED
          BY <1>1, <3>1, <4>1, ReleasePlaces
      <3> QED
        BY <1>1, <2>1, <3>1, <3>2 DEF Release, Placed
    <2> QED
      BY <2>2, <2>3
  <1>4. ASSUME UNCHANGED <<mouse, drag, window>>
        PROVE  Placed'
    BY <1>1, <1>2, <1>4 DEF Placed
  <1>5. ASSUME NEW t \in Terms, AltF(t)
        PROVE  Placed'
    BY <1>4, <1>5 DEF AltF
  <1>6. CASE NumLock \/ DigitDown \/ DigitUp \/ OtherUp
    BY <1>4, <1>6 DEF NumLock, DigitDown, DigitUp, OtherUp
  <1>7. CASE UNCHANGED vars
    BY <1>4, <1>7 DEF vars, drag
  <1> QED
    BY <1>3, <1>5, <1>6, <1>7 DEF Next

(* Turning the piano on or off with a key down is what the history records.  *)
LEMMA ToggleNoted ==
    ASSUME Noted, PianoToggled, UNCHANGED <<speaker, held>>,
           piano_button' \in {0, 1}, numl' \in {0, 1}
    PROVE  Noted'
  <1>1. speaker' = speaker /\ held' = held
    OBVIOUS
  <1>2. speaker \in {0, 1} /\ held \in {0, 1} /\ detuned \in BOOLEAN
    BY DEF Noted
  <1>3. detuned' \in BOOLEAN
    BY <1>2, Zenon DEF PianoToggled
  <1>4. speaker = 1 => detuned'
    BY Zenon DEF PianoToggled, Noted, NoteEnds
  <1> QED
    BY <1>1, <1>2, <1>3, <1>4, Zenon DEF Noted, NoteEnds

LEMMA NotedKept ==
    ASSUME Inv, [Next]_vars
    PROVE  Noted'
  <1>1. Noted
    BY DEF Inv
  <1>2. ASSUME UNCHANGED piano
        PROVE  Noted'
    BY <1>1, <1>2 DEF Noted, NoteEnds, PianoOn, piano
  <1>3. CASE ClickSpeaker
    <2>1. piano_button' \in {0, 1} /\ numl' \in {0, 1}
      BY <1>1, <1>3 DEF ClickSpeaker, Noted
    <2> QED
      BY <1>1, <1>3, <2>1, ToggleNoted DEF ClickSpeaker
  <1>4. CASE NumLock
    <2>1. piano_button' \in {0, 1} /\ numl' \in {0, 1}
      BY <1>1, <1>4 DEF NumLock, Noted
    <2> QED
      BY <1>1, <1>4, <2>1, ToggleNoted DEF NumLock
  <1>5. CASE DigitDown
    BY <1>1, <1>5 DEF DigitDown, SpeakerPlay, Noted, NoteEnds, PianoOn
  <1>6. CASE DigitUp
    BY <1>1, <1>6 DEF DigitUp, Noted, NoteEnds, PianoOn
  <1>7. CASE OtherUp
    BY <1>1, <1>7 DEF OtherUp, Noted, NoteEnds, PianoOn
  <1>8. ASSUME NEW left \in BOOLEAN, NEW x \in Bytes, NEW y \in Bytes, Packet(left, x, y)
        PROVE  Noted'
    BY <1>2, <1>3, <1>8 DEF Packet, MouseLeftClick, ClickDesk, ClickBar, Release
  <1>9. CASE (\E t \in Terms : AltF(t)) \/ UNCHANGED vars
    BY <1>2, <1>9 DEF AltF, vars, piano
  <1> QED
    BY <1>4, <1>5, <1>6, <1>7, <1>8, <1>9 DEF Next

LEMMA ShownKept ==
    ASSUME Inv, [Next]_vars
    PROVE  terminal_show' \in [Terms -> {0, 1}]
  <1>1. terminal_show \in [Terms -> {0, 1}]
    BY DEF Inv
  <1>2. CASE UNCHANGED terminal_show
    BY <1>1, <1>2
  <1>3. ASSUME NEW t \in Terms, ClickBar(t)
        PROVE  terminal_show' \in [Terms -> {0, 1}]
    <2>1. 1 - terminal_show[t] \in {0, 1}
      BY <1>1
    <2>2. terminal_show' = [terminal_show EXCEPT ![t] = 1 - terminal_show[t]]
      BY <1>3 DEF ClickBar
    <2> QED
      BY <1>1, <2>1, <2>2
  <1> QED
    BY <1>2, <1>3
    DEF Next, Packet, MouseLeftClick, ClickSpeaker, ClickDesk, Release, AltF, NumLock,
        DigitDown, DigitUp, OtherUp, vars

LEMMA NextInv == Inv /\ [Next]_vars => Inv'
  BY OrderedKept, PlacedKept, NotedKept, ShownKept DEF Inv

-----------------------------------------------------------------------------
(* The invariant holds in every reachable state. *)
THEOREM WindowsInv == Spec => []Inv
  BY InitInv, NextInv, PTL DEF Spec

(* The keys go to the window on top and every window keeps one place in the  *)
(* order (gui.c, update_order; terminal.c, terminal_switch).                 *)
THEOREM WindowsOrder == Spec => []KeysGoToTop
  BY WindowsInv, InvGivesOrder, PTL

(* No note outlives its key unless the piano was toggled under it            *)
(* (keyboard.c, "release piano key"; speaker.c).                             *)
THEOREM NotesEnd == Spec => []NoteEnds
  <1>1. Inv => NoteEnds
    BY DEF Inv, Noted
  <1> QED
    BY <1>1, WindowsInv, PTL

(* A window is let go by the point it was taken at (mouse.c, the drag).      *)
LEMMA HeldStep ==
    ASSUME Inv, [Next]_vars, drag_term # NONE, drag_term' = NONE
    PROVE  /\ mouse.x - window'[drag_term].x = grip.x
           /\ mouse.y - window'[drag_term].y = grip.y
  <1>1. Placed /\ Ordered
    BY DEF Inv
  <1>2. NONE \notin Terms
    BY WindowsAssumption DEF NONE, Terms
  <1>3. ASSUME UNCHANGED drag
        PROVE  FALSE
    BY <1>3 DEF drag
  <1>4. ASSUME NEW left \in BOOLEAN, NEW x \in Bytes, NEW y \in Bytes, Packet(left, x, y)
        PROVE  Release
    BY <1>1, <1>2, <1>3, <1>4, HitIsUnder
    DEF Packet, MouseLeftClick, ClickSpeaker, ClickDesk, ClickBar, Grab
  <1>5. CASE Release
    <2>1. /\ window'[drag_term].x = mouse.x - grip.x
          /\ window'[drag_term].y = mouse.y - grip.y
      BY <1>1, <1>5, ReleasePlaces
    <2>2. mouse.x \in Int /\ mouse.y \in Int /\ grip.x \in Int /\ grip.y \in Int
      <3>1. VGA_DIMX \in Nat /\ VGA_DIMY \in Nat /\ POINTER \in Nat /\ WINDOW_W \in Nat /\ WINDOW_H \in Nat
        BY WindowsAssumption
      <3> QED
        BY <1>1, <3>1 DEF Placed, PointerX, PointerY, Grips
    <2> QED
      BY <2>1, <2>2
  <1> QED
    BY <1>3, <1>4, <1>5 DEF Next, AltF, NumLock, DigitDown, DigitUp, OtherUp, vars, drag

(* A window that was dragged anywhere is let go by the point by which it was *)
(* taken, and so is not left behind by the pointer (mouse.c, the drag).      *)
THEOREM WindowsHeld == Spec => HeldByOnePoint
  <1>1. Inv /\ [Next]_vars =>
          [drag_term # NONE /\ drag_term' = NONE =>
             /\ mouse.x - window'[drag_term].x = grip.x
             /\ mouse.y - window'[drag_term].y = grip.y]_vars
    BY HeldStep
  <1> QED
    BY <1>1, WindowsInv, PTL DEF Spec, HeldByOnePoint

(* The window a click takes is the one seen at the pointer afterwards        *)
(* (mouse.c 242-253; gui.c, update_order and draw_terminals).                *)
LEMMA TakenStep ==
    ASSUME Inv, [Next]_vars, drag_term = NONE,
           NEW t \in Terms, NEW p \in [x : PointerX, y : PointerY],
           t = drag_term', p = mouse
    PROVE  SeenAt(t, p)'
  <1>1. Placed /\ Ordered
    BY DEF Inv
  <1>2. NONE \notin Terms
    BY WindowsAssumption DEF NONE, Terms
  <1>3. ASSUME UNCHANGED drag
        PROVE  FALSE
    BY <1>2, <1>3 DEF drag
  <1>4. ASSUME NEW left \in BOOLEAN, NEW x \in Bytes, NEW y \in Bytes, Packet(left, x, y)
        PROVE  ClickDesk /\ UNCHANGED window
    BY <1>2, <1>3, <1>4
    DEF Packet, MouseLeftClick, ClickSpeaker, ClickBar, Release
  <1>5. CASE ClickDesk /\ UNCHANGED window
    <2>1. Hit # {} /\ Grab(term_orders[Max(Hit)])
      BY <1>3, <1>5 DEF ClickDesk
    <2>2. drag_term' = term_orders[Max(Hit)]
      BY <2>1 DEF Grab
    <2>3. CheckInTerm(t)
      BY <1>1, <2>1, <2>2, HitIsUnder
    <2>4. Covers(t, p)'
      BY <1>5, <2>3 DEF CheckInTerm, CheckInArea, Covers, ClickDesk
    <2>5. term_orders'[0] = t
      BY <1>1, <2>1, <2>2, RaisedOrder DEF Grab, TerminalSwitch, Ordered
    <2>6. 0 \in Terms /\ 0 .. 0 - 1 = {}
      BY WindowsAssumption DEF Terms
    <2> QED
      BY <2>4, <2>5, <2>6 DEF SeenAt
  <1> QED
    BY <1>3, <1>4, <1>5 DEF Next, AltF, NumLock, DigitDown, DigitUp, OtherUp, vars, drag

(* The window that a click takes is the one that is seen under the pointer,  *)
(* however many others lie there (mouse.c 242-253; gui.c, update_order).     *)
THEOREM WindowsTaken == Spec => TakenIsSeen
  <1>1. Inv /\ [Next]_vars =>
          [drag_term = NONE =>
             \A t \in Terms, p \in [x : PointerX, y : PointerY] :
               t = drag_term' /\ p = mouse => SeenAt(t, p)']_vars
    BY TakenStep
  <1> QED
    BY <1>1, WindowsInv, PTL DEF Spec, TakenIsSeen
=============================================================================

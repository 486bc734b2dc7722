------------------------------ MODULE Windows ------------------------------
(***************************************************************************)
(* The windows of the terminals and the mouse that moves, raises and hides  *)
(* them (gui.c, mouse.c), with the keys that do the same or play the piano  *)
(* (keyboard.c, speaker.c).                                                 *)
(*                                                                         *)
(* Both handlers run with interrupts off, so that a packet of the mouse or  *)
(* a key is one step.  Coordinates are those of the code on a smaller       *)
(* screen; what is drawn is not modelled.                                   *)
(***************************************************************************)
EXTENDS Integers, FiniteSets, FiniteSetsExt

CONSTANTS
    NUM_TERMS,          \* terminals (terminal.h: 3)
    VGA_DIMX, VGA_DIMY, \* the screen (vga.h: 1024, 768)
    POINTER,            \* how near the edges the pointer stops (mouse.c: 17)
    STATUS_BAR_HEIGHT,  \* (gui.h: 22)
    STATUS_BAR_TERM_W,  \* (gui.h: 86)
    WINDOW_W, WINDOW_H, \* a window with its title (gui.h: 644, 424)
    SPEAKER,            \* left, top, width and height (gui.h: 800, 500, 20, 20)
    Start,              \* where init_gui() puts the windows
    Bytes               \* the movements of a packet: negative or not, low byte

Terms == 0 .. NUM_TERMS - 1

ASSUME WindowsAssumption ==
    /\ NUM_TERMS \in Nat \ {0}
    /\ {VGA_DIMX, VGA_DIMY, WINDOW_W, WINDOW_H} \subseteq Nat \ {0}
    /\ {POINTER, STATUS_BAR_HEIGHT, STATUS_BAR_TERM_W} \subseteq Nat
    /\ 2 * POINTER <= VGA_DIMX /\ 2 * POINTER <= VGA_DIMY
    /\ Start \in [Terms -> [x : 0 .. VGA_DIMX - POINTER, y : 0 .. VGA_DIMY - POINTER]]
    /\ Bytes \subseteq {0, 1} \X (0 .. 255)

PointerX == 0 .. VGA_DIMX - POINTER
PointerY == 0 .. VGA_DIMY - POINTER
NONE == -1

VARIABLES
    mouse,          \* where the pointer is
    drag_term,      \* the window that is being dragged
    mouse_drag,     \* where the pointer was when it was taken
    window,         \* the left top corner of each window
    terminal_show,
    term_orders,    \* the windows from the top one down
    curr_term_id,   \* the terminal that gets the keys
    piano_button,   \* the speaker on the screen has been clicked
    numl,           \* number lock
    speaker,        \* the speaker sounds
    held,           \* a digit key is down
    detuned,        \* history: the piano was turned on or off with a key down
    grip            \* history: the place of the window that was taken

drag == <<drag_term, mouse_drag, grip>>
order == <<term_orders, curr_term_id>>
piano == <<piano_button, numl, speaker, held, detuned>>
vars == <<mouse, drag_term, mouse_drag, window, terminal_show, term_orders,
          curr_term_id, piano_button, numl, speaker, held, detuned, grip>>

TypeOK ==
    /\ mouse \in [x : PointerX, y : PointerY]
    /\ drag_term \in Terms \cup {NONE}
    /\ mouse_drag \in [x : PointerX, y : PointerY]
    /\ window \in [Terms -> [x : 1 - WINDOW_W .. VGA_DIMX,
                             y : 1 - WINDOW_H .. VGA_DIMY]]
    /\ terminal_show \in [Terms -> {0, 1}]
    /\ term_orders \in [Terms -> Terms]
    /\ curr_term_id \in Terms
    /\ {piano_button, numl, speaker, held} \subseteq {0, 1}
    /\ detuned \in BOOLEAN
    /\ grip \in [x : 0 .. WINDOW_W - 1, y : 0 .. WINDOW_H - 1]

Init ==
    /\ mouse = [x |-> VGA_DIMX \div 2, y |-> VGA_DIMY \div 2]
    /\ drag_term = NONE
    /\ mouse_drag = mouse
    /\ window = Start
    /\ terminal_show = [t \in Terms |-> 1]
    /\ term_orders = [n \in Terms |-> n]
    /\ curr_term_id = 0
    /\ piano_button = 0 /\ numl = 0
    /\ speaker = 0 /\ held = 0
    /\ detuned = FALSE
    /\ grip = [x |-> 0, y |-> 0]

-----------------------------------------------------------------------------
(* update_order(): the windows above the one raised go down by one. *)

(* Mutant: one window too many is moved down. *)
RaisedTooFar(t) ==
    LET at == CHOOSE n \in Terms : term_orders[n] = t
    IN  [n \in Terms |-> IF n = 0 THEN t
                         ELSE IF n <= at + 1 THEN term_orders[n - 1] ELSE term_orders[n]]

Raised(t) ==
    LET at == CHOOSE n \in Terms : term_orders[n] = t
    IN  [n \in Terms |-> IF n = 0 THEN t
                         ELSE IF n <= at THEN term_orders[n - 1] ELSE term_orders[n]]

(* Mutant: the window gets the keys and is not raised. *)
TerminalSwitchUnordered(t) ==
    /\ curr_term_id' = t
    /\ UNCHANGED term_orders

TerminalSwitch(t) ==
    /\ curr_term_id' = t
    /\ term_orders' = Raised(t)

(* draw_one_terminal(): a window that is shown covers its rectangle. *)
Covers(t, p) ==
    /\ terminal_show[t] = 1
    /\ window[t].x <= p.x /\ p.x < window[t].x + WINDOW_W
    /\ window[t].y <= p.y /\ p.y < window[t].y + WINDOW_H

(* draw_terminals() goes from the end of the order to its start: of the      *)
(* windows that cover a point the first in the order is seen there.          *)
SeenAt(t, p) == \E n \in Terms :
    /\ term_orders[n] = t
    /\ Covers(t, p)
    /\ \A m \in 0 .. n - 1 : ~Covers(term_orders[m], p)

-----------------------------------------------------------------------------
(* The mouse. *)

CheckInArea(w, h, x, y) ==
    /\ x <= mouse.x /\ mouse.x < x + w
    /\ y <= mouse.y /\ mouse.y < y + h

CheckInSpeaker == CheckInArea(SPEAKER.w, SPEAKER.h, SPEAKER.x, SPEAKER.y)

CheckInBar(t) ==
    /\ STATUS_BAR_TERM_W * t <= mouse.x /\ mouse.x < STATUS_BAR_TERM_W * (t + 1)
    /\ mouse.y >= VGA_DIMY - STATUS_BAR_HEIGHT

CheckInTerm(t) ==
    /\ terminal_show[t] = 1
    /\ CheckInArea(WINDOW_W, WINDOW_H, window[t].x, window[t].y)

(* The piano is on by the number lock or the button. *)
PianoToggled == detuned' = (detuned \/ held = 1)

ClickSpeaker ==
    /\ CheckInSpeaker
    /\ piano_button' = 1 - piano_button
    /\ PianoToggled
    /\ UNCHANGED <<drag, terminal_show, order, numl, speaker, held>>

ClickBar(t) ==
    /\ ~CheckInSpeaker /\ CheckInBar(t)
    /\ terminal_show' = [terminal_show EXCEPT ![t] = 1 - @]
    /\ IF terminal_show[t] = 0 THEN TerminalSwitch(t) ELSE UNCHANGED order
    /\ UNCHANGED <<drag, piano>>

OnDesk == ~CheckInSpeaker /\ \A t \in Terms : ~CheckInBar(t)
Hit == {n \in Terms : CheckInTerm(term_orders[n])}

(* Mutant: every packet with the button down starts the drag again. *)
GrabAgain(t) ==
    /\ drag_term' = t
    /\ mouse_drag' = mouse
    /\ grip' = IF drag_term # NONE THEN grip
               ELSE [x |-> mouse.x - window[t].x, y |-> mouse.y - window[t].y]
    /\ TerminalSwitch(t)

Grab(t) ==
    /\ drag_term = NONE
    /\ drag_term' = t
    /\ mouse_drag' = mouse
    /\ grip' = [x |-> mouse.x - window[t].x, y |-> mouse.y - window[t].y]
    /\ TerminalSwitch(t)

(* Of the windows under the pointer the lowest is taken. *)
ClickDesk ==
    /\ OnDesk
    /\ \/ Hit # {} /\ Grab(term_orders[Max(Hit)])
       \/ (Hit = {} \/ drag_term # NONE) /\ UNCHANGED <<drag, order>>
    /\ UNCHANGED <<terminal_show, piano>>

MouseLeftClick ==
    /\ ClickSpeaker \/ ClickDesk \/ \E t \in Terms : ClickBar(t)
    /\ UNCHANGED window

(* The window goes where the pointer has gone since it was taken.  The       *)
(* branches of the other buttons are never reached.                          *)

Release ==
    /\ window' = IF drag_term = NONE THEN window
                 ELSE [window EXCEPT ![drag_term] =
                         [x |-> @.x + mouse.x - mouse_drag.x,
                          y |-> @.y + mouse.y - mouse_drag.y]]
    /\ drag_term' = NONE
    /\ UNCHANGED <<mouse_drag, grip, terminal_show, order, piano>>

(* C division of a signed number: towards zero. *)
Movement(b) == IF b[1] = 1 THEN -((256 - b[2]) \div 10) ELSE b[2] \div 10

Clamped(n, last) == IF n < 0 THEN 0 ELSE IF n > last THEN last ELSE n

Move(x, y) == mouse' =
    [x |-> Clamped(mouse.x + Movement(x), VGA_DIMX - POINTER),
     y |-> Clamped(mouse.y - Movement(y), VGA_DIMY - POINTER)]

(* The click counts where the pointer was before the packet moves it. *)
Packet(left, x, y) ==
    /\ IF left THEN MouseLeftClick ELSE Release
    /\ Move(x, y)

(* A packet that overflowed is dropped after its first byte.  The other two  *)
(* come with interrupts of their own and are taken for what they look like:  *)
(* for nothing (no change), or for a packet with any buttons and movement,   *)
(* which is one of Packet.                                                   *)

-----------------------------------------------------------------------------
(* The keyboard. *)

(* Alt-F1 to Alt-F3; the window may be hidden and stays so. *)
AltF(t) ==
    /\ TerminalSwitch(t)
    /\ UNCHANGED <<mouse, drag, window, terminal_show, piano>>

PianoOn == piano_button = 1 \/ numl = 1

NumLock ==
    /\ numl' = 1 - numl
    /\ PianoToggled
    /\ UNCHANGED <<mouse, drag, window, terminal_show, order, piano_button,
                   speaker, held>>

(* The bits of port 0x61 are set if they are not. *)
SpeakerPlay == speaker' = 1

(* A digit plays its note; without the piano it is typed (module LineInput). *)
DigitDown ==
    /\ held = 0
    /\ held' = 1
    /\ IF PianoOn THEN SpeakerPlay ELSE UNCHANGED speaker
    /\ detuned' = (detuned /\ speaker = 1)
    /\ UNCHANGED <<mouse, drag, window, terminal_show, order, piano_button, numl>>

(* Mutant: a key that is let go is no key. *)
DigitUpIgnored ==
    /\ held = 1
    /\ held' = 0
    /\ UNCHANGED <<mouse, drag, window, terminal_show, order, piano_button, numl,
                   speaker, detuned>>

(* Any key that is let go silences the piano, if it is on. *)
DigitUp ==
    /\ held = 1
    /\ held' = 0
    /\ speaker' = IF PianoOn THEN 0 ELSE speaker
    /\ UNCHANGED <<mouse, drag, window, terminal_show, order, piano_button, numl,
                   detuned>>

(* Another key is let go: it silences the piano too. *)
OtherUp ==
    /\ PianoOn
    /\ speaker' = 0
    /\ UNCHANGED <<mouse, drag, window, terminal_show, order, piano_button, numl,
                   held, detuned>>

Next ==
    \/ \E left \in BOOLEAN, x, y \in Bytes : Packet(left, x, y)
    \/ \E t \in Terms : AltF(t)
    \/ NumLock \/ DigitDown \/ DigitUp \/ OtherUp

Spec == Init /\ [][Next]_vars

-----------------------------------------------------------------------------
(* The keys go to the window on top, and every window has one place in the   *)
(* order, whichever of Alt-F, the status bar and a click raises it, in the   *)
(* middle of a drag too (gui.c, update_order; terminal.c, terminal_switch).  *)
(* The state is well formed besides: TypeOK, checked here once.             *)
KeysGoToTop ==
    /\ TypeOK
    /\ term_orders[0] = curr_term_id
    /\ \A t \in Terms : \E n \in Terms : term_orders[n] = t

(* The window that a click takes is the one seen under the pointer from then *)
(* on, though the click looked for it from the lowest window up, and hidden  *)
(* windows keep their places in the order (mouse.c 242-253; gui.c 183-237).  *)
TakenIsSeen ==
    [][drag_term = NONE =>
        \A t \in Terms, p \in [x : PointerX, y : PointerY] :
            t = drag_term' /\ p = mouse => SeenAt(t, p)']_vars

(* A window is let go by the point at which it was taken, whatever the       *)
(* packets, clicks on the bar and keys in between.                           *)
HeldByOnePoint ==
    [][drag_term # NONE /\ drag_term' = NONE =>
        /\ mouse.x - window'[drag_term].x = grip.x
        /\ mouse.y - window'[drag_term].y = grip.y]_vars

(* A note sounds after its key only if the piano was turned off or on with   *)
(* the key down (keyboard.c: "release piano key").                           *)
NoteEnds == speaker = 1 => held = 1 \/ detuned
=============================================================================

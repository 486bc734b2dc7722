------------------------------- MODULE Screen -------------------------------
(***************************************************************************)
(* The text of the terminals: user_terminal_putc() and what it calls        *)
(* (lib.c), terminal_write(), terminal_switch() and clear_redraw()          *)
(* (terminal.c), and the page at 0xB8000 through which all of them write    *)
(* (paging.c), which each tick points at the page of the process it         *)
(* switches to.  The windows (gui.c) show the pages themselves.             *)
(*                                                                         *)
(* Each of these runs with interrupts off, so that each is one step; the    *)
(* loop of terminal_write() is not, so that a tick, a key or a click may    *)
(* come between two of its characters.                                      *)
(***************************************************************************)
EXTENDS Integers, Sequences

CONSTANTS
    NUM_ROWS,   \* rows of a terminal (lib.h: 25)
    NUM_COLS,   \* columns (lib.h: 80)
    NUM_TERMS,  \* terminals (terminal.h: 3)
    Chars       \* the characters that show

ASSUME ScreenAssumption ==
    /\ NUM_ROWS \in 2 .. 255
    /\ NUM_COLS \in 1 .. 254
    /\ NUM_TERMS \in Nat \ {0}
    /\ " " \notin Chars /\ "newline" \notin Chars /\ "backspace" \notin Chars

Terms == 0 .. NUM_TERMS - 1
Rows == 0 .. NUM_ROWS - 1
Cols == 0 .. NUM_COLS - 1
Input == Chars \cup {"newline", "backspace"}

UNSHARED == -1  \* no program has called vidmap()
TEXT == -2      \* the text memory of the display card, which nothing shows

VARIABLES
    page,           \* the text of each terminal, at SVGA_MEM_LOC
    cursor_x,
    cursor_y,       \* 8 bits each
    curr_term_id,   \* the visible terminal
    cur_task,       \* the terminal of the process that runs
    video_mem,      \* the terminal whose page is at 0xB8000
    user_mem,       \* the one whose page is where vidmap() puts it
    vga,            \* the position that update_cursor() was given last
    astray          \* history: text has gone where it does not belong

cursors == <<cursor_x, cursor_y>>
vars == <<page, cursor_x, cursor_y, curr_term_id, cur_task, video_mem, user_mem,
          vga, astray>>

TypeOK ==
    /\ page \in [Terms -> [Rows -> [Cols -> Chars \cup {" "}]]]
    /\ cursor_x \in [Terms -> 0 .. NUM_COLS]
    /\ cursor_y \in [Terms -> Rows]
    /\ curr_term_id \in Terms
    /\ cur_task \in Terms
    /\ video_mem \in Terms
    /\ user_mem \in Terms \cup {UNSHARED, TEXT}
    /\ vga \in 0 .. NUM_ROWS * NUM_COLS
    /\ astray \in BOOLEAN

BlankRow == [k \in Cols |-> " "]
BlankPage == [r \in Rows |-> BlankRow]

(* Page_Initialize(): the page at 0xB8000 is that of terminal 0; the tables  *)
(* that vidmap() fills are empty.                                            *)
PageInitialize ==
    /\ video_mem = 0
    /\ user_mem = UNSHARED

Init ==
    /\ page = [t \in Terms |-> BlankPage]
    /\ cursor_x = [t \in Terms |-> 0]
    /\ cursor_y = [t \in Terms |-> 0]
    /\ curr_term_id = 0
    /\ cur_task = 0
    /\ PageInitialize
    /\ vga = 0
    /\ astray = FALSE

-----------------------------------------------------------------------------
(* One character: s is the page it goes to and the cursor it goes by.        *)

Byte(n) == n % 256

Scroll(s) ==
    [s EXCEPT !.page = [r \in Rows |-> IF r = NUM_ROWS - 1 THEN BlankRow
                                       ELSE s.page[r + 1]],
              !.y = IF Byte(@ - 1) = 255 THEN 0 ELSE Byte(@ - 1)]

(* Mutant: only as much as a line feed. *)
HandleNewlineKeepsColumn(s) ==
    LET t == [s EXCEPT !.y = Byte(@ + 1)]
    IN  IF t.y >= NUM_ROWS THEN Scroll(t) ELSE t

HandleNewline(s) ==
    LET t == [s EXCEPT !.x = 0, !.y = Byte(@ + 1)]
    IN  IF t.y >= NUM_ROWS THEN Scroll(t) ELSE t

(* Mutant: the cursor goes back, the character stays. *)
HandleBackspaceKeepsChar(s) ==
    IF s.x = 0 /\ s.y = 0 THEN s
    ELSE IF s.x > 0 THEN [s EXCEPT !.x = @ - 1]
    ELSE [s EXCEPT !.x = NUM_COLS - 1, !.y = @ - 1]

HandleBackspace(s) ==
    LET back == [s EXCEPT !.x = Byte(@ - 1)]
        t == IF back.x # 255 THEN back
             ELSE [back EXCEPT !.x = NUM_COLS - 1, !.y = Byte(@ - 1)]
    IN  IF s.x = 0 /\ s.y = 0 THEN s
        ELSE [t EXCEPT !.page[t.y][t.x] = " "]

Put(s, c) ==
    CASE c = "newline" -> HandleNewline(s)
      [] c = "backspace" -> HandleBackspace(s)
      [] OTHER -> LET t == IF s.x >= NUM_COLS THEN HandleNewline(s) ELSE s
                  IN  [t EXCEPT !.page[t.y][t.x] = c, !.x = @ + 1]

Position(s) == s.y * NUM_COLS + s.x

(* Mutant: the cursor of whoever writes. *)
PutsMovesCursor(t, p, c) ==
    LET s == Put([page |-> page[p], x |-> cursor_x[t], y |-> cursor_y[t]], c) IN
    /\ page' = [page EXCEPT ![p] = s.page]
    /\ cursor_x' = [cursor_x EXCEPT ![t] = s.x]
    /\ cursor_y' = [cursor_y EXCEPT ![t] = s.y]
    /\ vga' = Position(s)
    /\ astray' = (astray \/ p # t)

(* user_terminal_putc() by the cursor of terminal t on the page of p. *)
Puts(t, p, c) ==
    LET s == Put([page |-> page[p], x |-> cursor_x[t], y |-> cursor_y[t]], c) IN
    /\ page' = [page EXCEPT ![p] = s.page]
    /\ cursor_x' = [cursor_x EXCEPT ![t] = s.x]
    /\ cursor_y' = [cursor_y EXCEPT ![t] = s.y]
    /\ vga' = IF curr_term_id = t THEN Position(s) ELSE vga
    /\ astray' = (astray \/ p # t)

(* update_vidmem_paging(t): both windows on the video memory. *)
Remap(t) ==
    /\ video_mem' = t
    /\ user_mem' = IF user_mem = UNSHARED THEN UNSHARED ELSE t

-----------------------------------------------------------------------------
(* The process that runs writes a character of its terminal_write(). *)
Write(c) ==
    /\ Puts(cur_task, video_mem, c)
    /\ UNCHANGED <<curr_term_id, cur_task, video_mem, user_mem>>

(* The keyboard handler echoes a character. *)
Echo(c) ==
    /\ Puts(curr_term_id, curr_term_id, c)
    /\ Remap(cur_task)
    /\ UNCHANGED <<curr_term_id, cur_task>>

(* clear(), for Ctrl-L. *)
Clear ==
    /\ page' = [page EXCEPT ![curr_term_id] = BlankPage]
    /\ cursor_x' = [cursor_x EXCEPT ![curr_term_id] = 0]
    /\ cursor_y' = [cursor_y EXCEPT ![curr_term_id] = 0]
    /\ vga' = 0
    /\ Remap(cur_task)
    /\ UNCHANGED <<curr_term_id, cur_task, astray>>

(* terminal_switch(), for Alt-F1 to F3 or a click: the video memory is left  *)
(* on the new terminal until the next echo or tick.                          *)
TerminalSwitch(new) ==
    /\ Remap(new)
    /\ curr_term_id' = new
    /\ vga' = cursor_y[new] * NUM_COLS + cursor_x[new]
    /\ UNCHANGED <<page, cursors, cur_task, astray>>

(* Mutant: the next process writes where the last one did. *)
TickUnmapped ==
    /\ cur_task' = (cur_task + 1) % NUM_TERMS
    /\ UNCHANGED <<page, cursors, curr_term_id, video_mem, user_mem, vga, astray>>

(* scheduler(), as module Sched has it. *)
Tick ==
    /\ cur_task' = (cur_task + 1) % NUM_TERMS
    /\ Remap(cur_task')
    /\ UNCHANGED <<page, cursors, curr_term_id, vga, astray>>

(* vidmap() maps the text memory itself, not the page of the terminal. *)
Vidmap ==
    /\ user_mem' = TEXT
    /\ UNCHANGED <<page, cursors, curr_term_id, cur_task, video_mem, vga, astray>>

(* halt() of a base shell: printf() goes by a position of its own, wherever  *)
(* the messages of the boot have left it, and over the text.                 *)
Warn ==
    /\ \E r \in Rows, k \in Cols, c \in Chars :
        page' = [page EXCEPT ![video_mem][r][k] = c]
    /\ astray' = TRUE
    /\ UNCHANGED <<cursors, curr_term_id, cur_task, video_mem, user_mem, vga>>

Next ==
    \/ \E c \in Input : Write(c) \/ Echo(c)
    \/ \E new \in Terms : TerminalSwitch(new)
    \/ Clear \/ Tick \/ Vidmap \/ Warn

Spec == Init /\ [][Next]_vars

-----------------------------------------------------------------------------
(* The constraint of the run: once text has gone astray nothing is claimed   *)
(* of the pages.                                                             *)
NotAstray == ~astray

(* Past the cursor a page is blank, through scrolling, wrapping and erasing  *)
(* back over the end of a row: what is typed next never meets old text       *)
(* (lib.c, scroll, handle_newline and handle_backspace).                     *)
(* The state is well formed besides: TypeOK, checked here once.             *)
BlankPastCursor ==
    /\ TypeOK
    /\ ~astray => \A t \in Terms, r \in Rows, k \in Cols :
          r * NUM_COLS + k >= cursor_y[t] * NUM_COLS + cursor_x[t] =>
              page[t][r][k] = " "

(* The text memory is on the page of the process that runs or, after a       *)
(* terminal_switch() in the middle of its turn, on the visible one: however  *)
(* echoes, switches and ticks come between two characters of a writer, no    *)
(* third terminal is written.  A program that draws through vidmap() may     *)
(* besides write where nothing shows.                                        *)
NoThirdTerminal ==
    /\ video_mem \in {cur_task, curr_term_id}
    /\ user_mem \in {video_mem, UNSHARED, TEXT}

(* The cursor of the display is that of the visible terminal, whichever      *)
(* terminals write meanwhile (lib.c, user_terminal_putc(): "if               *)
(* (curr_term_id==term_id)").                                                *)
CursorShown ==
    vga = cursor_y[curr_term_id] * NUM_COLS + cursor_x[curr_term_id]

(* Each terminal shows the text that was written to it, whoever wrote it and *)
(* in whatever order, as long as no text goes astray: the 8-bit cursors, the *)
(* remapping and the copying of rows implement the strip of text of module   *)
(* Console.                                                                  *)
Text(t) == [r \in 1 .. cursor_y[t] |-> [k \in 1 .. NUM_COLS |-> page[t][r - 1][k - 1]]]
Line(t) == [k \in 1 .. cursor_x[t] |-> page[t][cursor_y[t]][k - 1]]

Abstract == INSTANCE Console WITH
    text <- [t \in Terms |-> Text(t)],
    line <- [t \in Terms |-> Line(t)]

ImplementsConsole ==
    /\ Abstract!Init
    /\ [][~astray' => Abstract!Next \/ UNCHANGED Abstract!console]_vars
=============================================================================

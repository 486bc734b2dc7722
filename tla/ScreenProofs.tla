---------------------------- MODULE ScreenProofs ----------------------------
(***************************************************************************)
(* The text of the terminals, for screens of any size that fits the 8-bit   *)
(* cursors, any number of terminals and any characters: what module Screen  *)
(* promises of the pages, and that it implements module Console; and the    *)
(* routines of lib.c that put it there: what module Library promises of the *)
(* bytes they copy and the numbers they print, for a memory and numbers of  *)
(* any size.                                                                *)
(***************************************************************************)
EXTENDS Screen, Library, SequenceTheorems, WellFoundedInduction, TLAPS

(* A page with its cursor; of a terminal, and in general. *)
Shown == Chars \cup {" "}
Page == [Rows -> [Cols -> Shown]]
Strip == [page : Page, x : 0 .. NUM_COLS, y : Rows]
Of(t) == [page |-> page[t], x |-> cursor_x[t], y |-> cursor_y[t]]

(* The cursor compared row by row, without the product. *)
Past(s, r, k) == r > s.y \/ (r = s.y /\ k >= s.x)
BlankPast(s) == \A r \in Rows, k \in Cols : Past(s, r, k) => s.page[r][k] = " "

Typed ==
    /\ page \in [Terms -> Page]
    /\ cursor_x \in [Terms -> 0 .. NUM_COLS]
    /\ cursor_y \in [Terms -> Rows]
    /\ curr_term_id \in Terms
    /\ cur_task \in Terms
    /\ video_mem \in Terms
    /\ user_mem \in Terms \cup {UNSHARED, TEXT}
    /\ astray \in BOOLEAN

Blanks == ~astray => \A t \in Terms : BlankPast(Of(t))

Inv == Typed /\ Blanks /\ NoThirdTerminal /\ CursorShown

-----------------------------------------------------------------------------
LEMMA Sizes ==
    /\ NUM_ROWS \in Nat /\ NUM_COLS \in Nat /\ NUM_TERMS \in Nat
    /\ 2 <= NUM_ROWS /\ NUM_ROWS <= 255
    /\ 1 <= NUM_COLS /\ NUM_COLS <= 254
    /\ 1 <= NUM_TERMS
  <1>1. NUM_ROWS \in 2 .. 255 /\ NUM_COLS \in 1 .. 254 /\ NUM_TERMS \in Nat \ {0}
    BY ScreenAssumption, Zenon
  <1> QED
    BY <1>1

LEMMA CharsShow == " " \notin Chars /\ "newline" \notin Chars /\ "backspace" \notin Chars
  BY ScreenAssumption, Zenon

LEMMA StripIs ==
    ASSUME NEW s \in Strip
    PROVE  /\ s.page \in Page /\ s.x \in 0 .. NUM_COLS /\ s.y \in Rows
           /\ s = [page |-> s.page, x |-> s.x, y |-> s.y]
  BY DEF Strip

LEMMA IsStrip ==
    ASSUME NEW p \in Page, NEW x \in 0 .. NUM_COLS, NEW y \in Rows
    PROVE  [page |-> p, x |-> x, y |-> y] \in Strip
  BY DEF Strip

LEMMA RowsBelow ==
    ASSUME NEW a \in Nat, NEW b \in Nat, a <= b
    PROVE  a * NUM_COLS \in Nat /\ a * NUM_COLS <= b * NUM_COLS
  <1> DEFINE d == b - a
  <1>1. d \in Nat /\ b = a + d /\ NUM_COLS \in Nat
    BY Sizes
  <1> HIDE DEF d
  <1>2. b * NUM_COLS = a * NUM_COLS + d * NUM_COLS
    BY <1>1
  <1>3. a * NUM_COLS \in Nat /\ d * NUM_COLS \in Nat
    BY <1>1
  <1> QED
    BY <1>2, <1>3

(* The position behind a cursor, as BlankPastCursor has it. *)
LEMMA PastPosition ==
    ASSUME NEW x \in 0 .. NUM_COLS, NEW y \in Rows, NEW r \in Rows, NEW k \in Cols
    PROVE  r * NUM_COLS + k >= y * NUM_COLS + x <=> r > y \/ (r = y /\ k >= x)
  <1>1. /\ x \in Nat /\ y \in Nat /\ r \in Nat /\ k \in Nat /\ NUM_COLS \in Nat
        /\ x <= NUM_COLS /\ k < NUM_COLS
    BY Sizes DEF Rows, Cols
  <1>2. r * NUM_COLS \in Nat /\ y * NUM_COLS \in Nat
    BY <1>1
  <1>3. CASE r < y
    <2>1. (r + 1) * NUM_COLS <= y * NUM_COLS
      BY <1>1, <1>3, RowsBelow
    <2>2. (r + 1) * NUM_COLS = r * NUM_COLS + NUM_COLS
      BY <1>1
    <2> QED
      BY <1>1, <1>2, <1>3, <2>1, <2>2
  <1>4. CASE r > y
    <2>1. (y + 1) * NUM_COLS <= r * NUM_COLS
      BY <1>1, <1>4, RowsBelow
    <2>2. (y + 1) * NUM_COLS = y * NUM_COLS + NUM_COLS
      BY <1>1
    <2> QED
      BY <1>1, <1>2, <1>4, <2>1, <2>2
  <1>5. CASE r = y
    BY <1>1, <1>2, <1>5
  <1> QED
    BY <1>1, <1>3, <1>4, <1>5

LEMMA PositionBound ==
    ASSUME NEW x \in 0 .. NUM_COLS, NEW y \in Rows
    PROVE  y * NUM_COLS + x \in 0 .. NUM_ROWS * NUM_COLS
  <1>1. x \in Nat /\ y \in Nat /\ y + 1 <= NUM_ROWS /\ x <= NUM_COLS /\ NUM_COLS \in Nat
        /\ NUM_ROWS \in Nat
    BY Sizes DEF Rows
  <1>2. (y + 1) * NUM_COLS <= NUM_ROWS * NUM_COLS
    BY <1>1, RowsBelow
  <1>3. (y + 1) * NUM_COLS = y * NUM_COLS + NUM_COLS /\ y * NUM_COLS \in Nat
        /\ NUM_ROWS * NUM_COLS \in Nat
    BY <1>1
  <1> QED
    BY <1>1, <1>2, <1>3

-----------------------------------------------------------------------------
(* The four ways a page changes: what the code of 8 bits comes to.           *)

Cell(p, r, k, c) == [p EXCEPT ![r][k] = c]
Scrolled(p) == [r \in Rows |-> IF r = NUM_ROWS - 1 THEN BlankRow ELSE p[r + 1]]

LEMMA NewlineIs ==
    ASSUME NEW s \in Strip
    PROVE  HandleNewline(s) =
             IF s.y < NUM_ROWS - 1 THEN [page |-> s.page, x |-> 0, y |-> s.y + 1]
             ELSE [page |-> Scrolled(s.page), x |-> 0, y |-> NUM_ROWS - 1]
  <1>1. s.y \in 0 .. NUM_ROWS - 1 /\ NUM_ROWS \in 2 .. 255
    BY ScreenAssumption DEF Strip, Rows
  <1>2. Byte(s.y + 1) = s.y + 1 /\ Byte(NUM_ROWS - 1) = NUM_ROWS - 1
    BY <1>1 DEF Byte
  <1> DEFINE t == [s EXCEPT !.x = 0, !.y = Byte(@ + 1)]
  <1>3. t = [page |-> s.page, x |-> 0, y |-> s.y + 1]
    <2> DEFINE u == [s EXCEPT !.x = 0]
    <2>1. u = [page |-> s.page, x |-> 0, y |-> s.y]
      BY StripIs
    <2>2. t = [u EXCEPT !.y = Byte(s.y + 1)]
      OBVIOUS
    <2> HIDE DEF u
    <2>3. [u EXCEPT !.y = Byte(s.y + 1)] = [page |-> s.page, x |-> 0, y |-> Byte(s.y + 1)]
      BY <2>1
    <2> QED
      BY <1>2, <2>2, <2>3, Zenon
  <1>4. HandleNewline(s) = IF t.y >= NUM_ROWS THEN Scroll(t) ELSE t
    BY DEF HandleNewline
  <1> HIDE DEF t
  <1>5. CASE s.y < NUM_ROWS - 1
    BY <1>1, <1>3, <1>4, <1>5
  <1>6. CASE s.y = NUM_ROWS - 1
    <2>1. t.y = NUM_ROWS /\ t.page = s.page
      BY <1>1, <1>3, <1>6
    <2>2. Byte(t.y - 1) = NUM_ROWS - 1 /\ NUM_ROWS - 1 # 255
      BY <1>1, <1>2, <2>1
    <2>3. Scroll(t) = [page |-> Scrolled(s.page), x |-> 0, y |-> NUM_ROWS - 1]
      <3> DEFINE b == IF Byte(t.y - 1) = 255 THEN 0 ELSE Byte(t.y - 1)
                 u == [t EXCEPT !.page = Scrolled(t.page)]
      <3>1. u = [page |-> Scrolled(s.page), x |-> 0, y |-> t.y]
        BY <1>3, <2>1
      <3>2. Scroll(t) = [u EXCEPT !.y = b]
        BY DEF Scroll, Scrolled
      <3>3. b = NUM_ROWS - 1
        BY <2>2
      <3> HIDE DEF u, b
      <3>4. [u EXCEPT !.y = b] = [page |-> Scrolled(s.page), x |-> 0, y |-> b]
        BY <3>1
      <3> QED
        BY <3>2, <3>3, <3>4, Zenon
    <2> QED
      BY <1>1, <1>4, <1>6, <2>1, <2>3
  <1> QED
    BY <1>1, <1>5, <1>6

(* The cell that a backspace goes back to. *)
BackX(s) == IF s.x > 0 THEN s.x - 1 ELSE NUM_COLS - 1
BackY(s) == IF s.x > 0 THEN s.y ELSE s.y - 1

LEMMA BackspaceIs ==
    ASSUME NEW s \in Strip
    PROVE  HandleBackspace(s) =
             IF s.x = 0 /\ s.y = 0 THEN s
             ELSE [page |-> Cell(s.page, BackY(s), BackX(s), " "),
                   x |-> BackX(s), y |-> BackY(s)]
  <1>1. /\ s.y \in 0 .. NUM_ROWS - 1 /\ NUM_ROWS \in 2 .. 255
        /\ s.x \in 0 .. NUM_COLS /\ NUM_COLS \in 1 .. 254
    BY ScreenAssumption DEF Strip, Rows
  <1>2. /\ s.x > 0 => Byte(s.x - 1) = s.x - 1 /\ Byte(s.x - 1) # 255
        /\ s.x = 0 => Byte(s.x - 1) = 255
        /\ s.y > 0 => Byte(s.y - 1) = s.y - 1
    BY <1>1 DEF Byte
  <1> DEFINE back == [s EXCEPT !.x = Byte(@ - 1)]
             t == IF back.x # 255 THEN back
                  ELSE [back EXCEPT !.x = NUM_COLS - 1, !.y = Byte(@ - 1)]
  <1>3. HandleBackspace(s) = IF s.x = 0 /\ s.y = 0 THEN s
                             ELSE [t EXCEPT !.page[t.y][t.x] = " "]
    BY DEF HandleBackspace
  <1>4. back = [page |-> s.page, x |-> Byte(s.x - 1), y |-> s.y]
    BY StripIs
  <1> HIDE DEF back
  <1>5. ASSUME ~(s.x = 0 /\ s.y = 0)
        PROVE  t = [page |-> s.page, x |-> BackX(s), y |-> BackY(s)]
    <2>1. CASE s.x > 0
      <3>1. back.x # 255 /\ Byte(s.x - 1) = s.x - 1
        BY <1>2, <1>4, <2>1
      <3> QED
        BY <1>4, <2>1, <3>1, Zenon DEF BackX, BackY
    <2>2. CASE s.x = 0 /\ s.y > 0
      <3>1. back.x = 255 /\ ~(s.x > 0) /\ Byte(s.y - 1) = s.y - 1
        BY <1>2, <1>4, <2>2
      <3>2. t = [back EXCEPT !.x = NUM_COLS - 1, !.y = Byte(@ - 1)]
        BY <3>1, Zenon
      <3> DEFINE u == [back EXCEPT !.x = NUM_COLS - 1]
      <3>3. u = [page |-> s.page, x |-> NUM_COLS - 1, y |-> s.y] /\ back.y = s.y
        BY <1>4
      <3>4. [back EXCEPT !.x = NUM_COLS - 1, !.y = Byte(@ - 1)] =
              [u EXCEPT !.y = Byte(back.y - 1)]
        OBVIOUS
      <3> HIDE DEF u, t
      <3>5. [u EXCEPT !.y = Byte(back.y - 1)] =
              [page |-> s.page, x |-> NUM_COLS - 1, y |-> Byte(back.y - 1)]
        BY <3>3
      <3>6. t = [page |-> s.page, x |-> NUM_COLS - 1, y |-> s.y - 1]
        BY <3>1, <3>2, <3>3, <3>4, <3>5, Zenon
      <3> QED
        BY <3>1, <3>6, Zenon DEF BackX, BackY
    <2> QED
      BY <1>1, <1>5, <2>1, <2>2
  <1> HIDE DEF t
  <1>6. ASSUME ~(s.x = 0 /\ s.y = 0)
        PROVE  [t EXCEPT !.page[t.y][t.x] = " "] =
                 [page |-> Cell(s.page, BackY(s), BackX(s), " "),
                  x |-> BackX(s), y |-> BackY(s)]
    <2>1. t = [page |-> s.page, x |-> BackX(s), y |-> BackY(s)]
      BY <1>5, <1>6
    <2>2. \A c : [t EXCEPT !.page[t.y][t.x] = c] =
                   [page |-> Cell(s.page, BackY(s), BackX(s), c),
                    x |-> BackX(s), y |-> BackY(s)]
      <3> TAKE c
      <3> DEFINE p == s.page
                 x == BackX(s)
                 y == BackY(s)
      <3>1. t = [page |-> p, x |-> x, y |-> y]
        BY <2>1
      <3> HIDE DEF p, x, y
      <3>2. [t EXCEPT !.page[t.y][t.x] = c] = [page |-> [p EXCEPT ![y][x] = c], x |-> x, y |-> y]
        BY <3>1
      <3>3. Cell(p, y, x, c) = [p EXCEPT ![y][x] = c]
        BY DEF Cell
      <3>4. [t EXCEPT !.page[t.y][t.x] = c] = [page |-> Cell(p, y, x, c), x |-> x, y |-> y]
        BY <3>2, <3>3, Zenon
      <3> QED
        BY <3>4, Zenon DEF p, x, y
    <2> QED
      BY <2>2, Zenon
  <1> QED
    BY <1>3, <1>6, Zenon

LEMMA CharIs ==
    ASSUME NEW s \in Strip, NEW c \in Chars, NEW t \in Strip, t.x < NUM_COLS,
           t = IF s.x >= NUM_COLS THEN HandleNewline(s) ELSE s
    PROVE  Put(s, c) = [page |-> Cell(t.page, t.y, t.x, c), x |-> t.x + 1, y |-> t.y]
  <1>1. c # "newline" /\ c # "backspace"
    BY CharsShow, Zenon
  <1>2. Put(s, c) = [t EXCEPT !.page[t.y][t.x] = c, !.x = @ + 1]
    BY <1>1 DEF Put
  <1> DEFINE u == [t EXCEPT !.page[t.y][t.x] = c]
  <1>3. u = [page |-> Cell(t.page, t.y, t.x, c), x |-> t.x, y |-> t.y]
    BY StripIs DEF Cell
  <1>4. Put(s, c) = [u EXCEPT !.x = t.x + 1]
    BY <1>2
  <1> HIDE DEF u
  <1>5. [u EXCEPT !.x = t.x + 1] =
          [page |-> Cell(t.page, t.y, t.x, c), x |-> t.x + 1, y |-> t.y]
    BY <1>3
  <1> QED
    BY <1>4, <1>5, Zenon

-----------------------------------------------------------------------------
(* Each of them keeps the page well formed and blank past the cursor.        *)

LEMMA CellType ==
    ASSUME NEW p \in Page, NEW r \in Rows, NEW k \in Cols, NEW c \in Shown
    PROVE  /\ Cell(p, r, k, c) \in Page
           /\ Cell(p, r, k, c)[r][k] = c
           /\ \A q \in Rows, j \in Cols :
                 q # r \/ j # k => Cell(p, r, k, c)[q][j] = p[q][j]
  BY DEF Cell, Page

LEMMA ScrolledType ==
    ASSUME NEW p \in Page
    PROVE  /\ Scrolled(p) \in Page
           /\ Scrolled(p)[NUM_ROWS - 1] = BlankRow
           /\ \A r \in Rows : r # NUM_ROWS - 1 => Scrolled(p)[r] = p[r + 1]
  <1>1. BlankRow \in [Cols -> Shown]
    BY DEF BlankRow, Shown
  <1>2. NUM_ROWS - 1 \in Rows /\ \A r \in Rows : r # NUM_ROWS - 1 => r + 1 \in Rows
    BY Sizes DEF Rows
  <1> QED
    BY <1>1, <1>2 DEF Scrolled, Page

LEMMA NewlineKeeps ==
    ASSUME NEW s \in Strip
    PROVE  /\ HandleNewline(s) \in Strip /\ HandleNewline(s).x = 0
           /\ BlankPast(s) => BlankPast(HandleNewline(s))
  <1>1. /\ s.page \in Page /\ s.x \in 0 .. NUM_COLS /\ s.y \in Rows
        /\ s.y \in 0 .. NUM_ROWS - 1 /\ NUM_ROWS \in Nat /\ 0 \in 0 .. NUM_COLS
        /\ NUM_ROWS - 1 \in Rows
    BY Sizes DEF Strip, Rows
  <1>2. CASE s.y < NUM_ROWS - 1
    <2>1. HandleNewline(s) = [page |-> s.page, x |-> 0, y |-> s.y + 1] /\ s.y + 1 \in Rows
      BY <1>1, <1>2, NewlineIs DEF Rows
    <2>2. HandleNewline(s) \in Strip
      BY <1>1, <2>1 DEF Strip
    <2>3. \A r \in Rows, k \in Cols : Past(HandleNewline(s), r, k) => Past(s, r, k)
      BY <1>1, <2>1 DEF Past, Rows
    <2>4. HandleNewline(s).page = s.page /\ HandleNewline(s).x = 0
      BY <2>1
    <2> QED
      BY <2>2, <2>3, <2>4, Zenon DEF BlankPast
  <1>3. CASE s.y = NUM_ROWS - 1
    <2>1. HandleNewline(s) = [page |-> Scrolled(s.page), x |-> 0, y |-> NUM_ROWS - 1]
      BY <1>1, <1>3, NewlineIs
    <2>2. HandleNewline(s) \in Strip
      BY <1>1, <2>1, ScrolledType DEF Strip
    <2>3. \A r \in Rows, k \in Cols : Past(HandleNewline(s), r, k) => r = NUM_ROWS - 1
      BY <1>1, <2>1 DEF Past, Rows
    <2>4. \A k \in Cols : Scrolled(s.page)[NUM_ROWS - 1][k] = " "
      BY <1>1, ScrolledType DEF BlankRow
    <2>5. HandleNewline(s).page = Scrolled(s.page) /\ HandleNewline(s).x = 0
      BY <2>1
    <2> QED
      BY <2>2, <2>3, <2>4, <2>5, Zenon DEF BlankPast
  <1> QED
    BY <1>1, <1>2, <1>3

LEMMA BackspaceKeeps ==
    ASSUME NEW s \in Strip
    PROVE  /\ HandleBackspace(s) \in Strip
           /\ BlankPast(s) => BlankPast(HandleBackspace(s))
  <1>1. CASE s.x = 0 /\ s.y = 0
    BY <1>1, BackspaceIs
  <1>2. CASE ~(s.x = 0 /\ s.y = 0)
    <2>1. /\ s.page \in Page /\ s.x \in 0 .. NUM_COLS /\ s.y \in 0 .. NUM_ROWS - 1
          /\ NUM_ROWS \in Nat /\ NUM_COLS \in Nat \ {0}
      BY Sizes DEF Strip, Rows
    <2>2. /\ BackX(s) \in Cols /\ BackY(s) \in Rows /\ BackX(s) \in 0 .. NUM_COLS
      BY <1>2, <2>1 DEF BackX, BackY, Rows, Cols
    <2> DEFINE p == Cell(s.page, BackY(s), BackX(s), " ")
    <2>3. HandleBackspace(s) = [page |-> p, x |-> BackX(s), y |-> BackY(s)]
      BY <1>2, BackspaceIs
    <2>4. /\ p \in Page /\ p[BackY(s)][BackX(s)] = " "
          /\ \A q \in Rows, j \in Cols :
                q # BackY(s) \/ j # BackX(s) => p[q][j] = s.page[q][j]
      <3>1. " " \in Shown
        BY Zenon DEF Shown
      <3>2. ASSUME NEW c \in Shown
            PROVE  /\ Cell(s.page, BackY(s), BackX(s), c) \in Page
                   /\ Cell(s.page, BackY(s), BackX(s), c)[BackY(s)][BackX(s)] = c
                   /\ \A q \in Rows, j \in Cols : q # BackY(s) \/ j # BackX(s) =>
                        Cell(s.page, BackY(s), BackX(s), c)[q][j] = s.page[q][j]
        BY <2>1, <2>2, CellType
      <3> QED
        BY <3>1, <3>2, Zenon
    <2> HIDE DEF p
    <2>5. HandleBackspace(s) \in Strip
      BY <2>2, <2>3, <2>4, IsStrip, Zenon
    <2>6. \A r \in Rows, k \in Cols : Past(HandleBackspace(s), r, k) =>
              Past(s, r, k) \/ (r = BackY(s) /\ k = BackX(s))
      BY <1>2, <2>1, <2>3 DEF Past, BackX, BackY, Rows, Cols
    <2>7. HandleBackspace(s).page = p
      BY <2>3
    <2> QED
      BY <2>4, <2>5, <2>6, <2>7, Zenon DEF BlankPast
  <1> QED
    BY <1>1, <1>2

LEMMA CharKeeps ==
    ASSUME NEW s \in Strip, NEW c \in Chars
    PROVE  /\ Put(s, c) \in Strip
           /\ BlankPast(s) => BlankPast(Put(s, c))
  <1> DEFINE t == IF s.x >= NUM_COLS THEN HandleNewline(s) ELSE s
  <1>1. s.x \in 0 .. NUM_COLS /\ NUM_COLS \in Nat \ {0}
    BY Sizes DEF Strip
  <1>2. t \in Strip /\ t.x < NUM_COLS /\ (BlankPast(s) => BlankPast(t))
    BY <1>1, NewlineKeeps
  <1>3. t = IF s.x >= NUM_COLS THEN HandleNewline(s) ELSE s
    OBVIOUS
  <1> HIDE DEF t
  <1>4. Put(s, c) = [page |-> Cell(t.page, t.y, t.x, c), x |-> t.x + 1, y |-> t.y]
    BY <1>2, <1>3, CharIs
  <1>5. t.page \in Page /\ t.x \in Cols /\ t.y \in Rows /\ t.x + 1 \in 0 .. NUM_COLS
    BY <1>1, <1>2 DEF Strip, Cols
  <1> DEFINE p == Cell(t.page, t.y, t.x, c)
  <1>6. /\ p \in Page
        /\ \A q \in Rows, j \in Cols : q # t.y \/ j # t.x => p[q][j] = t.page[q][j]
    <2>1. c \in Shown
      BY Zenon DEF Shown
    <2> QED
      BY <1>5, <2>1, CellType
  <1> HIDE DEF p
  <1>7. Put(s, c) = [page |-> p, x |-> t.x + 1, y |-> t.y]
    BY <1>4 DEF p
  <1>8. Put(s, c) \in Strip
    BY <1>5, <1>6, <1>7 DEF Strip
  <1>9. \A r \in Rows, k \in Cols : Past(Put(s, c), r, k) =>
            Past(t, r, k) /\ (r # t.y \/ k # t.x)
    BY <1>1, <1>5, <1>7 DEF Past, Rows, Cols
  <1>10. Put(s, c).page = p
    BY <1>7
  <1>11. BlankPast(t) => BlankPast(Put(s, c))
    <2> SUFFICES ASSUME BlankPast(t), NEW r \in Rows, NEW k \in Cols, Past(Put(s, c), r, k)
                 PROVE  p[r][k] = " "
      BY <1>10, Zenon DEF BlankPast
    <2>1. Past(t, r, k) /\ (r # t.y \/ k # t.x)
      BY <1>9, Zenon
    <2>2. p[r][k] = t.page[r][k]
      BY <1>6, <2>1, Zenon
    <2> QED
      BY <2>1, <2>2, Zenon DEF BlankPast
  <1> QED
    BY <1>2, <1>8, <1>11, Zenon

LEMMA PutKeeps ==
    ASSUME NEW s \in Strip, NEW c \in Input
    PROVE  /\ Put(s, c) \in Strip
           /\ BlankPast(s) => BlankPast(Put(s, c))
  <1>1. CASE c = "newline"
    BY <1>1, NewlineKeeps DEF Put
  <1>2. CASE c = "backspace"
    BY <1>2, BackspaceKeeps DEF Put
  <1>3. CASE c \in Chars
    BY <1>3, CharKeeps
  <1> QED
    BY <1>1, <1>2, <1>3 DEF Input

-----------------------------------------------------------------------------
(* The actions.                                                              *)

(* Wherever a character goes, and wherever else it ought to have gone. *)
LEMMA PutsStep ==
    ASSUME Typed, Blanks, CursorShown,
           NEW t \in Terms, NEW p \in Terms, NEW c \in Input, Puts(t, p, c)
    PROVE  /\ page' \in [Terms -> Page]
           /\ cursor_x' \in [Terms -> 0 .. NUM_COLS]
           /\ cursor_y' \in [Terms -> Rows]
           /\ astray' \in BOOLEAN
           /\ Blanks'
           /\ curr_term_id' = curr_term_id => CursorShown'
  <1> DEFINE s == [page |-> page[p], x |-> cursor_x[t], y |-> cursor_y[t]]
             z == Put(s, c)
  <1>1. /\ page' = [page EXCEPT ![p] = z.page]
        /\ cursor_x' = [cursor_x EXCEPT ![t] = z.x]
        /\ cursor_y' = [cursor_y EXCEPT ![t] = z.y]
        /\ vga' = IF curr_term_id = t THEN Position(z) ELSE vga
        /\ astray' = (astray \/ p # t)
    BY Zenon DEF Puts
  <1>2. /\ page[p] \in Page /\ cursor_x[t] \in 0 .. NUM_COLS /\ cursor_y[t] \in Rows
    BY Zenon DEF Typed
  <1>3. s \in Strip
    BY <1>2, IsStrip, Zenon
  <1>4. p = t => s = Of(t)
    BY Zenon DEF Of
  <1> HIDE DEF s
  <1>5. z \in Strip /\ (BlankPast(s) => BlankPast(z))
    BY <1>3, PutKeeps
  <1> HIDE DEF z
  <1>6. z.page \in Page /\ z.x \in 0 .. NUM_COLS /\ z.y \in Rows
    BY <1>5, StripIs, Zenon
  <1>7. /\ page' \in [Terms -> Page]
        /\ cursor_x' \in [Terms -> 0 .. NUM_COLS]
        /\ cursor_y' \in [Terms -> Rows]
    BY <1>1, <1>6 DEF Typed
  <1>8. astray' \in BOOLEAN
    BY <1>1, Zenon DEF Typed
  <1>9. Blanks'
    <2> SUFFICES ASSUME ~astray', NEW u \in Terms PROVE BlankPast(Of(u))'
      BY Zenon DEF Blanks
    <2>1. ~astray /\ p = t
      BY <1>1, Zenon
    <2>2. BlankPast(Of(u)) /\ BlankPast(z)
      BY <1>4, <1>5, <2>1, Zenon DEF Blanks
    <2>3. CASE u = t
      <3>1. page'[u] = z.page /\ cursor_x'[u] = z.x /\ cursor_y'[u] = z.y
        BY <1>1, <2>1, <2>3 DEF Typed
      <3> QED
        BY <2>2, <3>1 DEF BlankPast, Past, Of
    <2>4. CASE u # t
      <3>1. page'[u] = page[u] /\ cursor_x'[u] = cursor_x[u] /\ cursor_y'[u] = cursor_y[u]
        BY <1>1, <2>1, <2>4 DEF Typed
      <3> QED
        BY <2>2, <3>1 DEF BlankPast, Past, Of
    <2> QED
      BY <2>3, <2>4, Zenon
  <1>10. ASSUME curr_term_id' = curr_term_id PROVE CursorShown'
    <2>1. CASE curr_term_id = t
      <3>1. cursor_x'[t] = z.x /\ cursor_y'[t] = z.y
        BY <1>1 DEF Typed
      <3> QED
        BY <1>1, <1>10, <2>1, <3>1, Zenon DEF CursorShown, Position
    <2>2. CASE curr_term_id # t
      <3>1. /\ cursor_x'[curr_term_id] = cursor_x[curr_term_id]
            /\ cursor_y'[curr_term_id] = cursor_y[curr_term_id]
        BY <1>1, <2>2 DEF Typed
      <3> QED
        BY <1>1, <1>10, <2>2, <3>1, Zenon DEF CursorShown
    <2> QED
      BY <2>1, <2>2
  <1> QED
    BY <1>7, <1>8, <1>9, <1>10, Zenon

LEMMA RemapStep ==
    ASSUME NoThirdTerminal, Typed, NEW t \in Terms, Remap(t),
           t = cur_task' \/ t = curr_term_id'
    PROVE  /\ video_mem' \in Terms /\ user_mem' \in Terms \cup {UNSHARED, TEXT}
           /\ NoThirdTerminal'
  BY Zenon DEF NoThirdTerminal, Typed, Remap

LEMMA WriteStep ==
    ASSUME Inv, NEW c \in Input, Write(c)
    PROVE  Inv'
  <1>1. Typed /\ Blanks /\ CursorShown /\ NoThirdTerminal
    BY Zenon DEF Inv
  <1>2. Puts(cur_task, video_mem, c) /\ cur_task \in Terms /\ video_mem \in Terms
    BY <1>1, Zenon DEF Write, Typed
  <1>3. UNCHANGED <<curr_term_id, cur_task, video_mem, user_mem>>
    BY Zenon DEF Write
  <1>4. NoThirdTerminal'
    BY <1>1, <1>3, Zenon DEF NoThirdTerminal
  <1>5. /\ page' \in [Terms -> Page] /\ cursor_x' \in [Terms -> 0 .. NUM_COLS]
        /\ cursor_y' \in [Terms -> Rows] /\ astray' \in BOOLEAN
        /\ Blanks' /\ CursorShown'
    BY <1>1, <1>2, <1>3, PutsStep, Zenon
  <1>6. Typed'
    BY <1>1, <1>3, <1>5, Zenon DEF Typed
  <1> QED
    BY <1>4, <1>5, <1>6, Zenon DEF Inv

LEMMA EchoStep ==
    ASSUME Inv, NEW c \in Input, Echo(c)
    PROVE  Inv'
  <1>1. Typed /\ Blanks /\ CursorShown /\ NoThirdTerminal
    BY Zenon DEF Inv
  <1>2. /\ Puts(curr_term_id, curr_term_id, c) /\ Remap(cur_task)
        /\ curr_term_id \in Terms /\ cur_task \in Terms
    BY <1>1, Zenon DEF Echo, Typed
  <1>3. curr_term_id' = curr_term_id /\ cur_task' = cur_task
    BY Zenon DEF Echo
  <1>4. /\ video_mem' \in Terms /\ user_mem' \in Terms \cup {UNSHARED, TEXT}
        /\ NoThirdTerminal'
    BY <1>1, <1>2, <1>3, RemapStep, Zenon
  <1>5. /\ page' \in [Terms -> Page] /\ cursor_x' \in [Terms -> 0 .. NUM_COLS]
        /\ cursor_y' \in [Terms -> Rows] /\ astray' \in BOOLEAN
        /\ Blanks' /\ CursorShown'
    BY <1>1, <1>2, <1>3, PutsStep, Zenon
  <1>6. Typed'
    BY <1>1, <1>3, <1>4, <1>5, Zenon DEF Typed
  <1> QED
    BY <1>4, <1>5, <1>6, Zenon DEF Inv

LEMMA BlankPageIs ==
    BlankPage \in Page /\ \A r \in Rows, k \in Cols : BlankPage[r][k] = " "
  <1>1. BlankRow \in [Cols -> Shown] /\ \A k \in Cols : BlankRow[k] = " "
    BY DEF BlankRow, Shown
  <1> QED
    BY <1>1 DEF BlankPage, Page

LEMMA ClearStep ==
    ASSUME Inv, Clear
    PROVE  Inv'
  <1>1. Typed /\ Blanks /\ CursorShown /\ NoThirdTerminal
    BY Zenon DEF Inv
  <1> DEFINE t == curr_term_id
  <1>2. /\ page' = [page EXCEPT ![t] = BlankPage]
        /\ cursor_x' = [cursor_x EXCEPT ![t] = 0]
        /\ cursor_y' = [cursor_y EXCEPT ![t] = 0]
        /\ vga' = 0 /\ Remap(cur_task)
        /\ curr_term_id' = t /\ cur_task' = cur_task /\ astray' = astray
    BY Zenon DEF Clear
  <1>3. t \in Terms /\ cur_task \in Terms /\ astray \in BOOLEAN
    BY <1>1, Zenon DEF Typed
  <1>4. /\ video_mem' \in Terms /\ user_mem' \in Terms \cup {UNSHARED, TEXT}
        /\ NoThirdTerminal'
    BY <1>1, <1>2, <1>3, RemapStep, Zenon
  <1>5. 0 \in 0 .. NUM_COLS /\ 0 \in Rows
    BY Sizes DEF Rows
  <1>6. /\ page' \in [Terms -> Page] /\ cursor_x' \in [Terms -> 0 .. NUM_COLS]
        /\ cursor_y' \in [Terms -> Rows]
    BY <1>1, <1>2, <1>5, BlankPageIs DEF Typed
  <1>7. Typed'
    BY <1>2, <1>3, <1>4, <1>6, Zenon DEF Typed
  <1>8. Blanks'
    <2> SUFFICES ASSUME ~astray', NEW u \in Terms PROVE BlankPast(Of(u))'
      BY Zenon DEF Blanks
    <2>1. BlankPast(Of(u))
      BY <1>1, <1>2, Zenon DEF Blanks
    <2>2. CASE u = t
      <3>1. page'[u] = BlankPage
        BY <1>1, <1>2, <2>2 DEF Typed
      <3> QED
        BY <3>1, BlankPageIs DEF BlankPast, Of
    <2>3. CASE u # t
      <3>1. page'[u] = page[u] /\ cursor_x'[u] = cursor_x[u] /\ cursor_y'[u] = cursor_y[u]
        BY <1>1, <1>2, <2>3 DEF Typed
      <3> QED
        BY <2>1, <3>1 DEF BlankPast, Past, Of
    <2> QED
      BY <2>2, <2>3, Zenon
  <1>9. CursorShown'
    <2>1. cursor_x'[t] = 0 /\ cursor_y'[t] = 0
      BY <1>1, <1>2, <1>3 DEF Typed
    <2>2. 0 = 0 * NUM_COLS + 0
      BY Sizes
    <2> QED
      BY <1>2, <2>1, <2>2, Zenon DEF CursorShown
  <1> QED
    BY <1>4, <1>7, <1>8, <1>9, Zenon DEF Inv

LEMMA SwitchStep ==
    ASSUME Inv, NEW new \in Terms, TerminalSwitch(new)
    PROVE  Inv'
  <1>1. Typed /\ Blanks /\ CursorShown /\ NoThirdTerminal
    BY Zenon DEF Inv
  <1>2. /\ Remap(new) /\ curr_term_id' = new
        /\ vga' = cursor_y[new] * NUM_COLS + cursor_x[new]
        /\ UNCHANGED <<page, cursor_x, cursor_y, cur_task, astray>>
    BY Zenon DEF TerminalSwitch, cursors
  <1>3. /\ video_mem' \in Terms /\ user_mem' \in Terms \cup {UNSHARED, TEXT}
        /\ NoThirdTerminal'
    BY <1>1, <1>2, RemapStep, Zenon
  <1>4. Typed' /\ CursorShown'
    BY <1>1, <1>2, <1>3, Zenon DEF Typed, CursorShown
  <1>5. Blanks'
    BY <1>1, <1>2 DEF Blanks, BlankPast, Past, Of
  <1> QED
    BY <1>3, <1>4, <1>5, Zenon DEF Inv

LEMMA TickStep ==
    ASSUME Inv, Tick
    PROVE  Inv'
  <1>1. Typed /\ Blanks /\ CursorShown /\ NoThirdTerminal
    BY Zenon DEF Inv
  <1>2. /\ cur_task' = (cur_task + 1) % NUM_TERMS /\ Remap(cur_task')
        /\ UNCHANGED <<page, cursor_x, cursor_y, curr_term_id, vga, astray>>
    BY Zenon DEF Tick, cursors
  <1>3. cur_task' \in Terms
    BY <1>1, <1>2, Sizes DEF Typed, Terms
  <1>4. /\ video_mem' \in Terms /\ user_mem' \in Terms \cup {UNSHARED, TEXT}
        /\ NoThirdTerminal'
    BY <1>1, <1>2, <1>3, Zenon DEF NoThirdTerminal, Typed, Remap
  <1>5. Typed' /\ CursorShown'
    BY <1>1, <1>2, <1>3, <1>4, Zenon DEF Typed, CursorShown
  <1>6. Blanks'
    BY <1>1, <1>2 DEF Blanks, BlankPast, Past, Of
  <1> QED
    BY <1>4, <1>5, <1>6, Zenon DEF Inv

LEMMA VidmapStep ==
    ASSUME Inv, Vidmap
    PROVE  Inv'
  <1>1. Typed /\ Blanks /\ CursorShown /\ NoThirdTerminal
    BY Zenon DEF Inv
  <1>2. /\ user_mem' = TEXT
        /\ UNCHANGED <<page, cursor_x, cursor_y, curr_term_id, cur_task, video_mem, vga,
                       astray>>
    BY Zenon DEF Vidmap, cursors
  <1>3. Typed' /\ CursorShown' /\ NoThirdTerminal'
    BY <1>1, <1>2, Zenon DEF Typed, CursorShown, NoThirdTerminal
  <1>4. Blanks'
    BY <1>1, <1>2 DEF Blanks, BlankPast, Past, Of
  <1> QED
    BY <1>3, <1>4, Zenon DEF Inv

LEMMA WarnStep ==
    ASSUME Inv, Warn
    PROVE  Inv'
  <1>1. Typed /\ Blanks /\ CursorShown /\ NoThirdTerminal
    BY Zenon DEF Inv
  <1>2. /\ astray' = TRUE
        /\ UNCHANGED <<cursor_x, cursor_y, curr_term_id, cur_task, video_mem, user_mem, vga>>
    BY Zenon DEF Warn, cursors
  <1>3. PICK r \in Rows, k \in Cols, c \in Chars : page' = [page EXCEPT ![video_mem][r][k] = c]
    BY Zenon DEF Warn
  <1>4. page' \in [Terms -> Page]
    <2>1. Cell(page[video_mem], r, k, c) \in Page
      <3>1. c \in Shown /\ page[video_mem] \in Page
        BY <1>1, Zenon DEF Shown, Typed
      <3> QED
        BY <3>1, CellType
    <2>2. page' = [page EXCEPT ![video_mem] = Cell(page[video_mem], r, k, c)]
      BY <1>3 DEF Cell
    <2> QED
      BY <1>1, <2>1, <2>2 DEF Typed
  <1>5. Typed' /\ CursorShown' /\ NoThirdTerminal' /\ Blanks'
    BY <1>1, <1>2, <1>4, Zenon DEF Typed, CursorShown, NoThirdTerminal, Blanks
  <1> QED
    BY <1>5, Zenon DEF Inv

-----------------------------------------------------------------------------
LEMMA Start == Init => Inv
  <1> SUFFICES ASSUME Init PROVE Inv
    OBVIOUS
  <1>1. /\ page = [t \in Terms |-> BlankPage]
        /\ cursor_x = [t \in Terms |-> 0] /\ cursor_y = [t \in Terms |-> 0]
        /\ curr_term_id = 0 /\ cur_task = 0 /\ video_mem = 0 /\ user_mem = UNSHARED
        /\ vga = 0 /\ astray = FALSE
    BY Zenon DEF Init, PageInitialize
  <1>2. 0 \in Terms /\ 0 \in 0 .. NUM_COLS /\ 0 \in Rows
    BY Sizes DEF Terms, Rows
  <1>3. Typed
    <2>1. /\ page \in [Terms -> Page] /\ cursor_x \in [Terms -> 0 .. NUM_COLS]
          /\ cursor_y \in [Terms -> Rows]
      BY <1>1, <1>2, BlankPageIs
    <2> QED
      BY <1>1, <1>2, <2>1, Zenon DEF Typed
  <1>4. Blanks
    <2> SUFFICES ASSUME NEW t \in Terms PROVE BlankPast(Of(t))
      BY Zenon DEF Blanks
    <2>1. page[t] = BlankPage
      BY <1>1
    <2> QED
      BY <2>1, BlankPageIs DEF BlankPast, Of
  <1>5. CursorShown
    BY <1>1, <1>2, Sizes DEF CursorShown
  <1>6. NoThirdTerminal
    BY <1>1, Zenon DEF NoThirdTerminal
  <1> QED
    BY <1>3, <1>4, <1>5, <1>6, Zenon DEF Inv

(* Screens are well formed, blank past the cursors, remapped only to the     *)
(* terminal that runs or that shows, and the cursor of the display follows:  *)
(* whatever is written, echoed, switched, cleared and drawn (lib.c,          *)
(* terminal.c, paging.c, scheduler.c).                                       *)
THEOREM ScreenInv == Spec => []Inv
  <1>1. Inv /\ [Next]_vars => Inv'
    <2> SUFFICES ASSUME Inv, [Next]_vars PROVE Inv'
      OBVIOUS
    <2>1. ASSUME NEW c \in Input, Write(c) PROVE Inv'
      BY <2>1, WriteStep
    <2>2. ASSUME NEW c \in Input, Echo(c) PROVE Inv'
      BY <2>2, EchoStep
    <2>3. ASSUME NEW new \in Terms, TerminalSwitch(new) PROVE Inv'
      BY <2>3, SwitchStep
    <2>4. CASE Clear
      BY <2>4, ClearStep
    <2>5. CASE Tick
      BY <2>5, TickStep
    <2>6. CASE Vidmap
      BY <2>6, VidmapStep
    <2>7. CASE Warn
      BY <2>7, WarnStep
    <2>8. CASE UNCHANGED vars
      <3>1. UNCHANGED <<page, cursor_x, cursor_y, curr_term_id, cur_task, video_mem,
                        user_mem, vga, astray>>
        BY <2>8, Zenon DEF vars
      <3>2. Typed' /\ CursorShown' /\ NoThirdTerminal'
        BY <3>1, Zenon DEF Inv, Typed, CursorShown, NoThirdTerminal
      <3>3. Blanks'
        BY <3>1 DEF Inv, Blanks, BlankPast, Past, Of
      <3> QED
        BY <3>2, <3>3, Zenon DEF Inv
    <2> QED
      BY <2>1, <2>2, <2>3, <2>4, <2>5, <2>6, <2>7, <2>8, Zenon DEF Next
  <1> QED
    BY Start, <1>1, PTL DEF Spec

(* No third terminal is written through the text memory, however echoes,     *)
(* switches and ticks come between the characters of a writer.               *)
THEOREM ThirdTerminalSafe == Spec => []NoThirdTerminal
  <1>1. Inv => NoThirdTerminal
    BY Zenon DEF Inv
  <1> QED
    BY <1>1, ScreenInv, PTL

(* The cursor of the display is that of the visible terminal, whichever      *)
(* terminals write meanwhile.                                                *)
THEOREM CursorFollows == Spec => []CursorShown
  <1>1. Inv => CursorShown
    BY Zenon DEF Inv
  <1> QED
    BY <1>1, ScreenInv, PTL

(* What is typed next never meets old text, through every scroll, wrap and   *)
(* backspace over the end of a row, and every position fits the display.     *)
THEOREM NothingPastCursor == Spec => []BlankPastCursor
  <1>1. Inv => BlankPastCursor
    <2> SUFFICES ASSUME Inv PROVE BlankPastCursor
      OBVIOUS
    <2>1. Typed /\ Blanks /\ CursorShown
      BY Zenon DEF Inv
    <2>2. \A t \in Terms : cursor_x[t] \in 0 .. NUM_COLS /\ cursor_y[t] \in Rows
      BY <2>1, Zenon DEF Typed
    <2>3. vga \in 0 .. NUM_ROWS * NUM_COLS
      BY <2>1, <2>2, PositionBound, Zenon DEF CursorShown, Typed
    <2>4. TypeOK
      BY <2>1, <2>3, Zenon DEF Typed, TypeOK, Page, Shown
    <2>5. ASSUME ~astray, NEW t \in Terms, NEW r \in Rows, NEW k \in Cols,
                 r * NUM_COLS + k >= cursor_y[t] * NUM_COLS + cursor_x[t]
          PROVE  page[t][r][k] = " "
      <3>1. r > cursor_y[t] \/ (r = cursor_y[t] /\ k >= cursor_x[t])
        BY <2>2, <2>5, PastPosition, Zenon
      <3>2. BlankPast(Of(t))
        BY <2>1, <2>5, Zenon DEF Blanks
      <3> QED
        BY <3>1, <3>2 DEF BlankPast, Past, Of
    <2> QED
      BY <2>4, <2>5, Zenon DEF BlankPastCursor
  <1> QED
    BY <1>1, ScreenInv, PTL

-----------------------------------------------------------------------------
(* The text of a page and its cursor as sequences, which is what module      *)
(* Console speaks of.                                                        *)

Full == [1 .. NUM_COLS -> Shown]
RowAt(p, r) == [k \in 1 .. NUM_COLS |-> p[r][k - 1]]
RowsOf(s) == [r \in 1 .. s.y |-> RowAt(s.page, r - 1)]
LineOf(s) == [k \in 1 .. s.x |-> s.page[s.y][k - 1]]

(* Above of module Console, of any rows and any row being written. *)
AboveOf(rows, row) ==
    LET all == Append(rows, Abstract!Filled(row))
    IN  IF Len(all) = NUM_ROWS THEN Tail(all) ELSE all

LEMMA FunctionIsSeq ==
    ASSUME NEW S, NEW n \in Nat, NEW f \in [1 .. n -> S]
    PROVE  f \in Seq(S) /\ Len(f) = n
  OBVIOUS

LEMMA AppendIs ==
    ASSUME NEW S, NEW s \in Seq(S), NEW e \in S
    PROVE  /\ Append(s, e) \in Seq(S) /\ Len(Append(s, e)) = Len(s) + 1
           /\ \A i \in 1 .. Len(s) : Append(s, e)[i] = s[i]
           /\ Append(s, e)[Len(s) + 1] = e
  OBVIOUS

LEMMA FrontIs ==
    ASSUME NEW S, NEW s \in Seq(S), Len(s) > 0
    PROVE  /\ Abstract!Front(s) \in Seq(S) /\ Len(Abstract!Front(s)) = Len(s) - 1
           /\ \A i \in 1 .. Len(s) - 1 : Abstract!Front(s)[i] = s[i]
  <1> DEFINE n == Len(s) - 1
  <1>1. Len(s) \in Nat /\ n \in Nat /\ n <= Len(s)
    BY LenProperties
  <1> HIDE DEF n
  <1>2. SubSeq(s, 1, n) \in Seq(S)
    BY <1>1
  <1>3. Len(SubSeq(s, 1, n)) = n
    BY <1>1
  <1>4. \A i \in 1 .. n : SubSeq(s, 1, n)[i] = s[i]
    BY <1>1
  <1> QED
    BY <1>2, <1>3, <1>4, Zenon DEF Abstract!Front, n

LEMMA RowAtType ==
    ASSUME NEW p \in Page, NEW r \in Rows
    PROVE  RowAt(p, r) \in Full /\ RowAt(p, r) \in Seq(Shown) /\ Len(RowAt(p, r)) = NUM_COLS
  <1>1. \A k \in 1 .. NUM_COLS : k - 1 \in Cols
    BY Sizes DEF Cols
  <1>2. RowAt(p, r) \in Full
    BY <1>1 DEF RowAt, Full, Page
  <1> QED
    BY <1>2, Sizes, FunctionIsSeq DEF Full

LEMMA RowsOfType ==
    ASSUME NEW s \in Strip
    PROVE  RowsOf(s) \in Seq(Full) /\ Len(RowsOf(s)) = s.y
  <1>1. s.page \in Page /\ s.y \in Nat /\ \A r \in 1 .. s.y : r - 1 \in Rows
    BY StripIs, Sizes DEF Rows
  <1>2. RowsOf(s) \in [1 .. s.y -> Full]
    BY <1>1, RowAtType DEF RowsOf
  <1> QED
    BY <1>1, <1>2, FunctionIsSeq

LEMMA LineOfType ==
    ASSUME NEW s \in Strip
    PROVE  LineOf(s) \in Seq(Shown) /\ Len(LineOf(s)) = s.x
  <1>1. /\ s.page \in Page /\ s.x \in Nat /\ s.y \in Rows
        /\ \A k \in 1 .. s.x : k - 1 \in Cols
    BY StripIs, Sizes DEF Cols
  <1>2. LineOf(s) \in [1 .. s.x -> Shown]
    BY <1>1 DEF LineOf, Page
  <1> QED
    BY <1>1, <1>2, FunctionIsSeq

(* A row that is blank past the cursor is the line, filled up. *)
LEMMA FilledIs ==
    ASSUME NEW s \in Strip, BlankPast(s)
    PROVE  Abstract!Filled(LineOf(s)) = RowAt(s.page, s.y)
  <1>1. /\ s.page \in Page /\ s.x \in Nat /\ s.x <= NUM_COLS /\ s.y \in Rows
        /\ NUM_COLS \in Nat /\ Len(LineOf(s)) = s.x
    BY StripIs, Sizes, LineOfType
  <1>2. ASSUME NEW k \in 1 .. NUM_COLS
        PROVE  (IF k <= Len(LineOf(s)) THEN LineOf(s)[k] ELSE " ") = s.page[s.y][k - 1]
    <2>1. CASE k <= s.x
      <3>1. k \in 1 .. s.x
        BY <1>1, <2>1
      <3>2. LineOf(s)[k] = s.page[s.y][k - 1]
        BY <3>1 DEF LineOf
      <3> QED
        BY <1>1, <2>1, <3>2, Zenon
    <2>2. CASE ~(k <= s.x)
      <3>1. k - 1 \in Cols /\ k - 1 >= s.x
        BY <1>1, <2>2 DEF Cols
      <3>2. s.page[s.y][k - 1] = " "
        BY <1>1, <3>1, Zenon DEF BlankPast, Past
      <3> QED
        BY <1>1, <2>2, <3>2, Zenon
    <2> QED
      BY <2>1, <2>2
  <1> QED
    BY <1>2, Zenon DEF Abstract!Filled, RowAt

LEMMA NewlineRefines ==
    ASSUME NEW s \in Strip, BlankPast(s)
    PROVE  /\ RowsOf(HandleNewline(s)) = AboveOf(RowsOf(s), LineOf(s))
           /\ LineOf(HandleNewline(s)) = <<>>
  <1> DEFINE n == HandleNewline(s)
             all == Append(RowsOf(s), RowAt(s.page, s.y))
  <1>1. /\ s.page \in Page /\ s.x \in 0 .. NUM_COLS /\ s.y \in Rows
        /\ s.y \in 0 .. NUM_ROWS - 1 /\ NUM_ROWS \in Nat /\ NUM_ROWS >= 2
    BY StripIs, Sizes DEF Rows
  <1>2. n \in Strip /\ n.x = 0
    BY NewlineKeeps, Zenon
  <1>3. n = IF s.y < NUM_ROWS - 1 THEN [page |-> s.page, x |-> 0, y |-> s.y + 1]
            ELSE [page |-> Scrolled(s.page), x |-> 0, y |-> NUM_ROWS - 1]
    BY NewlineIs, Zenon
  <1>4. AboveOf(RowsOf(s), LineOf(s)) = IF Len(all) = NUM_ROWS THEN Tail(all) ELSE all
    BY FilledIs, Zenon DEF AboveOf
  <1>5. RowsOf(n) \in Seq(Full) /\ Len(RowsOf(n)) = n.y
    BY <1>2, RowsOfType, Zenon
  <1> HIDE DEF n
  <1>6. /\ all \in Seq(Full) /\ Len(all) = s.y + 1
        /\ \A i \in 1 .. s.y + 1 : all[i] = RowAt(s.page, i - 1)
    <2>1. /\ RowsOf(s) \in Seq(Full) /\ Len(RowsOf(s)) = s.y /\ RowAt(s.page, s.y) \in Full
          /\ \A i \in 1 .. s.y : RowsOf(s)[i] = RowAt(s.page, i - 1)
      BY <1>1, RowsOfType, RowAtType DEF RowsOf
    <2> DEFINE q == RowsOf(s)
               e == RowAt(s.page, s.y)
    <2> HIDE DEF q, e
    <2>2. /\ all \in Seq(Full) /\ Len(all) = Len(q) + 1
          /\ \A i \in 1 .. Len(q) : all[i] = q[i]
          /\ all[Len(q) + 1] = e
      BY <2>1, AppendIs, Zenon DEF q, e
    <2> HIDE DEF all
    <2>3. all[s.y + 1] = RowAt(s.page, (s.y + 1) - 1)
      <3>1. (s.y + 1) - 1 = s.y
        BY <1>1
      <3> QED
        BY <2>1, <2>2, <3>1, Zenon DEF q, e
    <2>4. \A i \in 1 .. s.y : all[i] = RowAt(s.page, i - 1)
      BY <2>1, <2>2, Zenon DEF q
    <2>5. \A i \in 1 .. s.y + 1 : i \in 1 .. s.y \/ i = s.y + 1
      BY <1>1
    <2> QED
      BY <2>1, <2>2, <2>3, <2>4, <2>5, Zenon DEF q
  <1> HIDE DEF all
  <1>7. LineOf(n) = <<>>
    BY <1>2, LineOfType, EmptySeq
  <1>8. CASE s.y < NUM_ROWS - 1
    <2>1. n.page = s.page /\ n.y = s.y + 1
      BY <1>3, <1>8
    <2>2. Len(all) # NUM_ROWS
      BY <1>1, <1>6, <1>8
    <2>3. \A i \in 1 .. s.y + 1 : RowsOf(n)[i] = all[i]
      BY <1>6, <2>1 DEF RowsOf
    <2>4. RowsOf(n) = all
      BY <1>5, <1>6, <2>1, <2>3, SeqEqual
    <2> QED
      BY <1>4, <1>7, <2>2, <2>4, Zenon DEF n
  <1>9. CASE s.y = NUM_ROWS - 1
    <2>1. n.page = Scrolled(s.page) /\ n.y = NUM_ROWS - 1
      BY <1>1, <1>3, <1>9
    <2>2. Len(all) = NUM_ROWS /\ all # <<>>
      BY <1>1, <1>6, <1>9
    <2>3. /\ Tail(all) \in Seq(Full) /\ Len(Tail(all)) = NUM_ROWS - 1
          /\ \A i \in 1 .. NUM_ROWS - 1 : Tail(all)[i] = all[i + 1]
      BY <1>6, <2>2, HeadTailProperties
    <2>4. ASSUME NEW i \in 1 .. NUM_ROWS - 1
          PROVE  RowsOf(n)[i] = Tail(all)[i]
      <3>1. /\ i - 1 \in Rows /\ i - 1 # NUM_ROWS - 1 /\ (i - 1) + 1 = i
            /\ i + 1 \in 1 .. s.y + 1 /\ (i + 1) - 1 = i
        BY <1>1, <1>9 DEF Rows
      <3>2. Scrolled(s.page)[i - 1] = s.page[i]
        BY <1>1, <3>1, ScrolledType
      <3>3. RowAt(Scrolled(s.page), i - 1) = RowAt(s.page, i)
        BY <3>2, Zenon DEF RowAt
      <3>4. RowsOf(n)[i] = RowAt(n.page, i - 1)
        BY <2>1 DEF RowsOf
      <3>5. Tail(all)[i] = RowAt(s.page, i)
        BY <1>6, <2>3, <3>1
      <3> QED
        BY <2>1, <3>3, <3>4, <3>5, Zenon
    <2>5. RowsOf(n) = Tail(all)
      BY <1>5, <2>1, <2>3, <2>4, SeqEqual
    <2> QED
      BY <1>4, <1>7, <2>2, <2>5, Zenon DEF n
  <1> QED
    BY <1>1, <1>8, <1>9

LEMMA CharRefines ==
    ASSUME NEW s \in Strip, NEW c \in Chars, BlankPast(s)
    PROVE  /\ s.x < NUM_COLS => /\ RowsOf(Put(s, c)) = RowsOf(s)
                               /\ LineOf(Put(s, c)) = Append(LineOf(s), c)
           /\ s.x = NUM_COLS => /\ RowsOf(Put(s, c)) = AboveOf(RowsOf(s), LineOf(s))
                               /\ LineOf(Put(s, c)) = <<c>>
  <1> DEFINE t == IF s.x >= NUM_COLS THEN HandleNewline(s) ELSE s
             z == Put(s, c)
  <1>1. s.x \in Nat /\ s.x <= NUM_COLS /\ NUM_COLS \in Nat /\ NUM_COLS >= 1
    BY StripIs, Sizes
  <1>2. t \in Strip /\ t.x < NUM_COLS
    BY <1>1, NewlineKeeps
  <1>3. t = IF s.x >= NUM_COLS THEN HandleNewline(s) ELSE s
    OBVIOUS
  <1> HIDE DEF t
  <1>4. z = [page |-> Cell(t.page, t.y, t.x, c), x |-> t.x + 1, y |-> t.y]
    BY <1>2, <1>3, CharIs
  <1>5. z \in Strip
    BY CharKeeps, Zenon
  <1> HIDE DEF z
  <1>6. /\ t.page \in Page /\ t.x \in Cols /\ t.y \in Rows /\ t.y \in Nat /\ t.x \in Nat
        /\ c \in Shown
    <2>1. c \in Shown
      BY Zenon DEF Shown
    <2> QED
      BY <1>1, <1>2, <2>1, StripIs, Sizes DEF Cols, Rows
  <1>7. z.page = Cell(t.page, t.y, t.x, c) /\ z.x = t.x + 1 /\ z.y = t.y
    BY <1>4
  <1>8. /\ z.page[t.y][t.x] = c
        /\ \A q \in Rows, j \in Cols : q # t.y \/ j # t.x => z.page[q][j] = t.page[q][j]
    BY <1>6, <1>7, CellType
  <1>9. RowsOf(z) = RowsOf(t)
    <2>1. ASSUME NEW r \in 1 .. t.y PROVE RowAt(z.page, r - 1) = RowAt(t.page, r - 1)
      <3>1. r - 1 \in Rows /\ r - 1 # t.y
        BY <1>6, Sizes DEF Rows
      <3>2. \A k \in 1 .. NUM_COLS : k - 1 \in Cols
        BY <1>1 DEF Cols
      <3>3. \A k \in 1 .. NUM_COLS : z.page[r - 1][k - 1] = t.page[r - 1][k - 1]
        BY <1>8, <3>1, <3>2, Zenon
      <3> QED
        BY <3>3, Zenon DEF RowAt
    <2> QED
      BY <1>7, <2>1, Zenon DEF RowsOf
  <1>10. LineOf(z) = Append(LineOf(t), c)
    <2>1. /\ LineOf(t) \in Seq(Shown) /\ Len(LineOf(t)) = t.x
          /\ LineOf(z) \in Seq(Shown) /\ Len(LineOf(z)) = t.x + 1
      BY <1>2, <1>5, <1>7, LineOfType
    <2>2. /\ Append(LineOf(t), c) \in Seq(Shown) /\ Len(Append(LineOf(t), c)) = t.x + 1
          /\ \A i \in 1 .. t.x : Append(LineOf(t), c)[i] = LineOf(t)[i]
          /\ Append(LineOf(t), c)[t.x + 1] = c
      BY <1>6, <2>1, AppendIs
    <2>3. ASSUME NEW i \in 1 .. t.x + 1 PROVE LineOf(z)[i] = Append(LineOf(t), c)[i]
      <3>1. LineOf(z)[i] = z.page[t.y][i - 1]
        BY <1>7 DEF LineOf
      <3>2. CASE i = t.x + 1
        <4>1. i - 1 = t.x
          BY <1>6, <3>2
        <4> QED
          BY <1>8, <2>2, <3>1, <3>2, <4>1, Zenon
      <3>3. CASE i # t.x + 1
        <4>1. i \in 1 .. t.x /\ i - 1 \in Cols /\ i - 1 # t.x
          BY <1>1, <1>6, <3>3 DEF Cols
        <4>2. z.page[t.y][i - 1] = t.page[t.y][i - 1]
          BY <1>6, <1>8, <4>1, Zenon
        <4>3. LineOf(t)[i] = t.page[t.y][i - 1]
          BY <4>1 DEF LineOf
        <4> QED
          BY <2>2, <3>1, <4>1, <4>2, <4>3, Zenon
      <3> QED
        BY <3>2, <3>3
    <2> QED
      BY <2>1, <2>2, <2>3, SeqEqual
  <1>11. CASE s.x < NUM_COLS
    <2>1. t = s
      BY <1>1, <1>3, <1>11
    <2> QED
      BY <1>1, <1>9, <1>10, <1>11, <2>1 DEF z
  <1>12. CASE s.x = NUM_COLS
    <2>1. t = HandleNewline(s)
      BY <1>1, <1>3, <1>12
    <2>2. RowsOf(t) = AboveOf(RowsOf(s), LineOf(s)) /\ LineOf(t) = <<>>
      BY <2>1, NewlineRefines
    <2>3. LineOf(z) = <<c>>
      BY <1>10, <2>2
    <2> QED
      BY <1>1, <1>9, <1>12, <2>2, <2>3 DEF z
  <1> QED
    BY <1>1, <1>11, <1>12

LEMMA BackspaceRefines ==
    ASSUME NEW s \in Strip
    PROVE  /\ s.x > 0 => /\ LineOf(s) # <<>>
                         /\ RowsOf(HandleBackspace(s)) = RowsOf(s)
                         /\ LineOf(HandleBackspace(s)) = Abstract!Front(LineOf(s))
           /\ s.x = 0 /\ s.y > 0 =>
                 /\ LineOf(s) = <<>> /\ RowsOf(s) # <<>>
                 /\ RowsOf(HandleBackspace(s)) = Abstract!Front(RowsOf(s))
                 /\ LineOf(HandleBackspace(s)) =
                       Abstract!Front(Abstract!Last(RowsOf(s)))
  <1> DEFINE z == HandleBackspace(s)
             x == BackX(s)
             y == BackY(s)
  <1>1. /\ s.page \in Page /\ s.x \in Nat /\ s.y \in Nat /\ s.x <= NUM_COLS /\ s.y \in Rows
        /\ NUM_COLS \in Nat /\ NUM_COLS >= 1 /\ s.y < NUM_ROWS /\ NUM_ROWS \in Nat
    BY StripIs, Sizes DEF Rows
  <1>2. /\ RowsOf(s) \in Seq(Full) /\ Len(RowsOf(s)) = s.y
        /\ LineOf(s) \in Seq(Shown) /\ Len(LineOf(s)) = s.x
    BY RowsOfType, LineOfType
  <1>3. ASSUME s.x > 0 \/ s.y > 0
        PROVE  /\ z \in Strip /\ z.x = x /\ z.y = y /\ y \in Rows
               /\ \A q \in Rows, j \in Cols : q # y \/ j # x => z.page[q][j] = s.page[q][j]
    <2> DEFINE p == Cell(s.page, y, x, " ")
    <2>1. z = [page |-> p, x |-> x, y |-> y]
      <3>1. ~(s.x = 0 /\ s.y = 0)
        BY <1>1, <1>3
      <3> QED
        BY <3>1, BackspaceIs, Zenon
    <2>2. z \in Strip
      BY BackspaceKeeps, Zenon
    <2>3. x \in Cols /\ y \in Rows
      BY <1>1, <1>3 DEF BackX, BackY, Rows, Cols
    <2>4. z.page = Cell(s.page, y, x, " ") /\ z.x = x /\ z.y = y
      <3> HIDE DEF z, p
      <3>1. z.page = p /\ z.x = x /\ z.y = y
        BY <2>1
      <3> QED
        BY <3>1, Zenon DEF p
    <2>5. ASSUME NEW c \in Shown, NEW q \in Rows, NEW j \in Cols, q # y \/ j # x
          PROVE  Cell(s.page, y, x, c)[q][j] = s.page[q][j]
      BY <1>1, <2>3, <2>5, CellType
    <2>6. " " \in Shown
      BY Zenon DEF Shown
    <2> HIDE DEF z, x, y
    <2> QED
      BY <2>2, <2>3, <2>4, <2>5, <2>6, ZenonT(40)
  <1> HIDE DEF z
  <1>4. ASSUME s.x > 0 \/ s.y > 0
        PROVE  /\ RowsOf(z) \in Seq(Full) /\ Len(RowsOf(z)) = y
               /\ LineOf(z) \in Seq(Shown) /\ Len(LineOf(z)) = x
               /\ \A i \in 1 .. y : RowsOf(z)[i] = RowAt(s.page, i - 1)
               /\ \A i \in 1 .. x : LineOf(z)[i] = s.page[y][i - 1]
    <2>1. /\ z \in Strip /\ z.x = x /\ z.y = y /\ y \in Rows
          /\ \A q \in Rows, j \in Cols : q # y \/ j # x => z.page[q][j] = s.page[q][j]
      BY <1>3, <1>4
    <2> HIDE DEF x, y
    <2>2. /\ RowsOf(z) \in Seq(Full) /\ Len(RowsOf(z)) = y
          /\ LineOf(z) \in Seq(Shown) /\ Len(LineOf(z)) = x
      BY <2>1, RowsOfType, LineOfType
    <2>3. /\ x \in Nat /\ x <= NUM_COLS /\ y \in Nat
      BY <1>1, <2>1, StripIs DEF Rows
    <2>4. ASSUME NEW i \in 1 .. y PROVE RowsOf(z)[i] = RowAt(s.page, i - 1)
      <3>1. i - 1 \in Rows /\ i - 1 # y
        BY <1>1, <2>1, <2>3 DEF Rows
      <3>2. \A k \in 1 .. NUM_COLS : k - 1 \in Cols
        BY <1>1 DEF Cols
      <3>3. \A k \in 1 .. NUM_COLS : z.page[i - 1][k - 1] = s.page[i - 1][k - 1]
        BY <2>1, <3>1, <3>2, Zenon
      <3>4. RowAt(z.page, i - 1) = RowAt(s.page, i - 1)
        BY <3>3, Zenon DEF RowAt
      <3>5. RowsOf(z)[i] = RowAt(z.page, i - 1)
        BY <2>1 DEF RowsOf
      <3> QED
        BY <3>4, <3>5, Zenon
    <2>5. ASSUME NEW i \in 1 .. x PROVE LineOf(z)[i] = s.page[y][i - 1]
      <3>1. i - 1 \in Cols /\ i - 1 # x
        BY <1>1, <2>3 DEF Cols
      <3>2. LineOf(z)[i] = z.page[y][i - 1]
        BY <2>1 DEF LineOf
      <3> QED
        BY <2>1, <3>1, <3>2, Zenon
    <2> QED
      BY <2>2, <2>4, <2>5, Zenon
  <1>5. ASSUME s.x > 0
        PROVE  /\ LineOf(s) # <<>> /\ RowsOf(z) = RowsOf(s)
               /\ LineOf(z) = Abstract!Front(LineOf(s))
    <2>1. x = s.x - 1 /\ y = s.y
      BY <1>5 DEF BackX, BackY
    <2> HIDE DEF x, y
    <2>2. /\ RowsOf(z) \in Seq(Full) /\ Len(RowsOf(z)) = s.y
          /\ LineOf(z) \in Seq(Shown) /\ Len(LineOf(z)) = s.x - 1
          /\ \A i \in 1 .. s.y : RowsOf(z)[i] = RowAt(s.page, i - 1)
          /\ \A i \in 1 .. s.x - 1 : LineOf(z)[i] = s.page[s.y][i - 1]
      BY <1>4, <1>5, <2>1
    <2>3. LineOf(s) # <<>>
      BY <1>2, <1>5, EmptySeq
    <2>4. RowsOf(z) = RowsOf(s)
      <3>1. \A i \in 1 .. s.y : RowsOf(s)[i] = RowAt(s.page, i - 1)
        BY DEF RowsOf
      <3> QED
        BY <1>2, <2>2, <3>1, SeqEqual
    <2>5. LineOf(z) = Abstract!Front(LineOf(s))
      <3>1. /\ Abstract!Front(LineOf(s)) \in Seq(Shown)
            /\ Len(Abstract!Front(LineOf(s))) = s.x - 1
            /\ \A i \in 1 .. s.x - 1 : Abstract!Front(LineOf(s))[i] = LineOf(s)[i]
        BY <1>2, <1>5, FrontIs
      <3>2. \A i \in 1 .. s.x - 1 : LineOf(s)[i] = s.page[s.y][i - 1]
        BY <1>1 DEF LineOf
      <3> QED
        BY <2>2, <3>1, <3>2, SeqEqual
    <2> QED
      BY <2>3, <2>4, <2>5
  <1>6. ASSUME s.x = 0, s.y > 0
        PROVE  /\ LineOf(s) = <<>> /\ RowsOf(s) # <<>>
               /\ RowsOf(z) = Abstract!Front(RowsOf(s))
               /\ LineOf(z) = Abstract!Front(Abstract!Last(RowsOf(s)))
    <2>1. x = NUM_COLS - 1 /\ y = s.y - 1
      BY <1>6 DEF BackX, BackY
    <2> HIDE DEF x, y
    <2>2. /\ RowsOf(z) \in Seq(Full) /\ Len(RowsOf(z)) = s.y - 1
          /\ LineOf(z) \in Seq(Shown) /\ Len(LineOf(z)) = NUM_COLS - 1
          /\ \A i \in 1 .. s.y - 1 : RowsOf(z)[i] = RowAt(s.page, i - 1)
          /\ \A i \in 1 .. NUM_COLS - 1 : LineOf(z)[i] = s.page[s.y - 1][i - 1]
      BY <1>4, <1>6, <2>1
    <2>3. LineOf(s) = <<>> /\ RowsOf(s) # <<>>
      BY <1>2, <1>6, EmptySeq
    <2>4. \A i \in 1 .. s.y : RowsOf(s)[i] = RowAt(s.page, i - 1)
      BY DEF RowsOf
    <2>5. RowsOf(z) = Abstract!Front(RowsOf(s))
      <3>1. /\ Abstract!Front(RowsOf(s)) \in Seq(Full)
            /\ Len(Abstract!Front(RowsOf(s))) = s.y - 1
            /\ \A i \in 1 .. s.y - 1 : Abstract!Front(RowsOf(s))[i] = RowsOf(s)[i]
        BY <1>2, <1>6, FrontIs
      <3>2. \A i \in 1 .. s.y - 1 : i \in 1 .. s.y
        BY <1>1
      <3> QED
        BY <2>2, <2>4, <3>1, <3>2, SeqEqual
    <2>6. LineOf(z) = Abstract!Front(Abstract!Last(RowsOf(s)))
      <3> DEFINE last == RowAt(s.page, s.y - 1)
      <3>1. s.y \in 1 .. s.y /\ s.y - 1 \in Rows
        BY <1>1, <1>6 DEF Rows
      <3>2. Abstract!Last(RowsOf(s)) = last
        BY <1>2, <2>4, <3>1, Zenon DEF Abstract!Last
      <3>3. /\ last \in Seq(Shown) /\ Len(last) = NUM_COLS
            /\ \A i \in 1 .. NUM_COLS : last[i] = s.page[s.y - 1][i - 1]
        BY <1>1, <3>1, RowAtType DEF RowAt
      <3> HIDE DEF last
      <3>4. /\ Abstract!Front(last) \in Seq(Shown) /\ Len(Abstract!Front(last)) = NUM_COLS - 1
            /\ \A i \in 1 .. NUM_COLS - 1 : Abstract!Front(last)[i] = last[i]
        <4>1. Len(last) > 0
          BY <1>1, <3>3
        <4> QED
          BY <3>3, <4>1, FrontIs, Zenon
      <3>5. LineOf(z) = Abstract!Front(last)
        <4>1. \A i \in 1 .. NUM_COLS - 1 : i \in 1 .. NUM_COLS
          BY <1>1
        <4>2. \A i \in 1 .. NUM_COLS - 1 : LineOf(z)[i] = Abstract!Front(last)[i]
          BY <2>2, <3>3, <3>4, <4>1, Zenon
        <4> QED
          BY <2>2, <3>4, <4>2, SeqEqual
      <3> QED
        BY <3>2, <3>5, Zenon
    <2> QED
      BY <2>3, <2>5, <2>6
  <1> QED
    BY <1>1, <1>5, <1>6, Zenon DEF z

-----------------------------------------------------------------------------
(* The mapping, and the steps under it.                                      *)

LEMMA Mapped ==
    ASSUME NEW t \in Terms
    PROVE  Text(t) = RowsOf(Of(t)) /\ Line(t) = LineOf(Of(t))
  <1>1. Of(t).page = page[t] /\ Of(t).x = cursor_x[t] /\ Of(t).y = cursor_y[t]
    BY DEF Of
  <1> QED
    BY <1>1, Zenon DEF Text, Line, RowsOf, LineOf, RowAt

LEMMA AboveIs ==
    ASSUME NEW t \in Terms
    PROVE  Abstract!Above(t) = AboveOf(RowsOf(Of(t)), LineOf(Of(t)))
  <1>1. /\ [u \in Terms |-> Text(u)][t] = RowsOf(Of(t))
        /\ [u \in Terms |-> Line(u)][t] = LineOf(Of(t))
    BY Mapped
  <1> QED
    BY <1>1, Zenon DEF Abstract!Above, AboveOf

LEMMA PlaceIs ==
    ASSUME Typed, NEW t \in Terms, NEW z \in Strip,
           page' = [page EXCEPT ![t] = z.page],
           cursor_x' = [cursor_x EXCEPT ![t] = z.x],
           cursor_y' = [cursor_y EXCEPT ![t] = z.y]
    PROVE  Abstract!Is(t, RowsOf(z), LineOf(z))
  <1>1. ASSUME NEW u \in Terms
        PROVE  /\ Text(u)' = IF u = t THEN RowsOf(z) ELSE Text(u)
               /\ Line(u)' = IF u = t THEN LineOf(z) ELSE Line(u)
    <2>1. CASE u = t
      <3>1. page'[u] = z.page /\ cursor_x'[u] = z.x /\ cursor_y'[u] = z.y
        BY <2>1 DEF Typed
      <3> QED
        BY <2>1, <3>1 DEF Text, Line, RowsOf, LineOf, RowAt
    <2>2. CASE u # t
      <3>1. page'[u] = page[u] /\ cursor_x'[u] = cursor_x[u] /\ cursor_y'[u] = cursor_y[u]
        BY <2>2 DEF Typed
      <3> QED
        BY <2>2, <3>1 DEF Text, Line
    <2> QED
      BY <2>1, <2>2
  <1>2. /\ [u \in Terms |-> Text(u)]' = [[u \in Terms |-> Text(u)] EXCEPT ![t] = RowsOf(z)]
        /\ [u \in Terms |-> Line(u)]' = [[u \in Terms |-> Line(u)] EXCEPT ![t] = LineOf(z)]
    BY <1>1
  <1> QED
    BY <1>2, Zenon DEF Abstract!Is

(* A character on the page of its own terminal is a step of the console, or  *)
(* a backspace on an empty one.                                              *)
LEMMA PutsRefines ==
    ASSUME Typed, NEW t \in Terms, BlankPast(Of(t)), NEW c \in Input, Puts(t, t, c)
    PROVE  Abstract!Next \/ UNCHANGED Abstract!console
  <1> DEFINE s == Of(t)
             z == Put(s, c)
  <1>1. s \in Strip /\ s.x = cursor_x[t] /\ s.y = cursor_y[t] /\ s.page = page[t]
    <2>1. page[t] \in Page /\ cursor_x[t] \in 0 .. NUM_COLS /\ cursor_y[t] \in Rows
      BY Zenon DEF Typed
    <2> QED
      BY <2>1, IsStrip DEF Of
  <1>2. z \in Strip
    BY <1>1, PutKeeps, Zenon
  <1>3. Abstract!Is(t, RowsOf(z), LineOf(z))
    <2>1. /\ page' = [page EXCEPT ![t] = z.page]
          /\ cursor_x' = [cursor_x EXCEPT ![t] = z.x]
          /\ cursor_y' = [cursor_y EXCEPT ![t] = z.y]
      BY Zenon DEF Puts, Of
    <2> HIDE DEF z
    <2> QED
      BY <1>2, <2>1, PlaceIs, Zenon
  <1>4. /\ [u \in Terms |-> Text(u)][t] = RowsOf(s)
        /\ [u \in Terms |-> Line(u)][t] = LineOf(s)
    BY Mapped
  <1>5. Abstract!Above(t) = AboveOf(RowsOf(s), LineOf(s))
    BY AboveIs
  <1>6. s.x \in Nat /\ s.x <= NUM_COLS /\ NUM_COLS \in Nat /\ s.y \in Nat
        /\ Len(LineOf(s)) = s.x
    BY <1>1, StripIs, LineOfType, Sizes DEF Rows
  <1> HIDE DEF s
  <1>7. CASE c = "newline"
    <2>1. z = HandleNewline(s)
      BY <1>7, Zenon DEF Put
    <2>2. RowsOf(z) = AboveOf(RowsOf(s), LineOf(s)) /\ LineOf(z) = <<>>
      BY <1>1, <2>1, NewlineRefines, Zenon DEF s
    <2>3. Abstract!NewLine(t)
      BY <1>3, <1>5, <2>2, Zenon DEF Abstract!NewLine
    <2> QED
      BY <2>3, Zenon DEF Abstract!Next
  <1>8. CASE c = "backspace"
    <2>1. z = HandleBackspace(s)
      <3>1. "backspace" # "newline"
        OBVIOUS
      <3> QED
        BY <1>8, <3>1, Zenon DEF Put
    <2>2. CASE s.x > 0
      <3>1. /\ LineOf(s) # <<>> /\ RowsOf(z) = RowsOf(s)
            /\ LineOf(z) = Abstract!Front(LineOf(s))
        BY <1>1, <2>1, <2>2, BackspaceRefines, Zenon
      <3>2. Abstract!Erase(t)
        BY <1>3, <1>4, <3>1, Zenon DEF Abstract!Erase
      <3> QED
        BY <3>2, Zenon DEF Abstract!Next
    <2>3. CASE s.x = 0 /\ s.y > 0
      <3>1. /\ LineOf(s) = <<>> /\ RowsOf(s) # <<>>
            /\ RowsOf(z) = Abstract!Front(RowsOf(s))
            /\ LineOf(z) = Abstract!Front(Abstract!Last(RowsOf(s)))
        BY <1>1, <2>1, <2>3, BackspaceRefines, Zenon
      <3>2. Abstract!Erase(t)
        BY <1>3, <1>4, <3>1, Zenon DEF Abstract!Erase
      <3> QED
        BY <3>2, Zenon DEF Abstract!Next
    <2>4. CASE s.x = 0 /\ s.y = 0
      <3>1. z = s
        BY <1>1, <2>1, <2>4, BackspaceIs, Zenon
      <3>2. page' = page /\ cursor_x' = cursor_x /\ cursor_y' = cursor_y
        <4>1. /\ page' = [page EXCEPT ![t] = z.page]
              /\ cursor_x' = [cursor_x EXCEPT ![t] = z.x]
              /\ cursor_y' = [cursor_y EXCEPT ![t] = z.y]
          BY Zenon DEF Puts, Of, s
        <4> HIDE DEF z
        <4> QED
          BY <1>1, <3>1, <4>1 DEF Typed
      <3> QED
        BY <3>2, Zenon DEF Abstract!console, Text, Line
    <2> QED
      BY <1>6, <2>2, <2>3, <2>4
  <1>9. CASE c \in Chars
    <2>1. /\ s.x < NUM_COLS => /\ RowsOf(z) = RowsOf(s)
                              /\ LineOf(z) = Append(LineOf(s), c)
          /\ s.x = NUM_COLS => /\ RowsOf(z) = AboveOf(RowsOf(s), LineOf(s))
                              /\ LineOf(z) = <<c>>
      BY <1>1, <1>9, CharRefines, Zenon DEF s
    <2>2. s.x < NUM_COLS \/ s.x = NUM_COLS
      BY <1>6
    <2> HIDE DEF z
    <2>3. Abstract!Type(t, c)
      BY <1>3, <1>4, <1>5, <1>6, <2>1, <2>2, Zenon DEF Abstract!Type
    <2> QED
      BY <1>9, <2>3, Zenon DEF Abstract!Next
  <1> QED
    BY <1>7, <1>8, <1>9, Zenon DEF Input

LEMMA ClearRefines ==
    ASSUME Typed, Clear
    PROVE  Abstract!Next
  <1> DEFINE t == curr_term_id
             z == [page |-> BlankPage, x |-> 0, y |-> 0]
  <1>1. t \in Terms /\ z \in Strip
    <2>1. 0 \in 0 .. NUM_COLS /\ 0 \in Rows
      BY Sizes DEF Rows
    <2> QED
      BY <2>1, BlankPageIs, IsStrip, Zenon DEF Typed
  <1>2. z.page = BlankPage /\ z.x = 0 /\ z.y = 0
    OBVIOUS
  <1> HIDE DEF z
  <1>3. /\ page' = [page EXCEPT ![t] = z.page]
        /\ cursor_x' = [cursor_x EXCEPT ![t] = z.x]
        /\ cursor_y' = [cursor_y EXCEPT ![t] = z.y]
    BY <1>2, Zenon DEF Clear
  <1>4. Abstract!Is(t, RowsOf(z), LineOf(z))
    BY <1>1, <1>3, PlaceIs, Zenon
  <1>5. RowsOf(z) = <<>> /\ LineOf(z) = <<>>
    BY <1>1, <1>2, RowsOfType, LineOfType, EmptySeq
  <1>6. Abstract!Clear(t)
    BY <1>4, <1>5, Zenon DEF Abstract!Clear
  <1> QED
    BY <1>1, <1>6, Zenon DEF Abstract!Next

LEMMA StartRefines == Init => Abstract!Init
  <1> SUFFICES ASSUME Init PROVE Abstract!Init
    OBVIOUS
  <1>1. ASSUME NEW t \in Terms PROVE Text(t) = <<>> /\ Line(t) = <<>>
    <2>1. /\ Inv /\ cursor_x = [u \in Terms |-> 0] /\ cursor_y = [u \in Terms |-> 0]
      BY Start, Zenon DEF Init
    <2>2. page[t] \in Page /\ cursor_x[t] \in 0 .. NUM_COLS /\ cursor_y[t] \in Rows
      BY <2>1, Zenon DEF Inv, Typed
    <2>3. Of(t) \in Strip /\ Of(t).x = 0 /\ Of(t).y = 0
      BY <2>1, <2>2, IsStrip DEF Of
    <2> QED
      BY <2>3, Mapped, RowsOfType, LineOfType, EmptySeq
  <1> QED
    BY <1>1, Zenon DEF Abstract!Init

(* Each terminal shows the text that was written to it, as long as none goes *)
(* astray: the 8-bit cursors, the remapping and the copying of rows          *)
(* implement the strip of text of module Console.                            *)
THEOREM ScreenImplementsConsole == Spec => ImplementsConsole
  <1> DEFINE Step == Abstract!Next \/ UNCHANGED Abstract!console
  <1>1. ASSUME Inv, [Next]_vars, ~astray' PROVE Step
    <2>1. Typed /\ Blanks
      BY <1>1, Zenon DEF Inv
    <2>2. ASSUME UNCHANGED <<page, cursor_x, cursor_y>> PROVE Step
      BY <2>2, Zenon DEF Abstract!console, Text, Line
    <2>3. ASSUME NEW t \in Terms, NEW p \in Terms, NEW c \in Input, Puts(t, p, c) PROVE Step
      <3>1. ~astray /\ p = t
        BY <1>1, <2>3, Zenon DEF Puts
      <3>2. BlankPast(Of(t))
        BY <2>1, <3>1, Zenon DEF Blanks
      <3> QED
        BY <2>1, <2>3, <3>1, <3>2, PutsRefines, Zenon
    <2>4. ASSUME NEW c \in Input, Write(c) PROVE Step
      BY <2>1, <2>3, <2>4, Zenon DEF Write, Typed
    <2>5. ASSUME NEW c \in Input, Echo(c) PROVE Step
      BY <2>1, <2>3, <2>5, Zenon DEF Echo, Typed
    <2>6. ASSUME NEW new \in Terms, TerminalSwitch(new) PROVE Step
      BY <2>2, <2>6, Zenon DEF TerminalSwitch, cursors
    <2>7. CASE Clear
      BY <2>1, <2>7, ClearRefines, Zenon
    <2>8. CASE Tick \/ Vidmap
      BY <2>2, <2>8, Zenon DEF Tick, Vidmap, cursors
    <2>9. CASE Warn
      BY <1>1, <2>9, Zenon DEF Warn
    <2>10. CASE UNCHANGED vars
      BY <2>2, <2>10, Zenon DEF vars
    <2> QED
      BY <1>1, <2>4, <2>5, <2>6, <2>7, <2>8, <2>9, <2>10, Zenon DEF Next
  <1>2. Inv /\ [Next]_vars => [~astray' => Step]_vars
    BY <1>1, Zenon
  <1> QED
    BY <1>2, ScreenInv, StartRefines, PTL DEF Spec, ImplementsConsole

-----------------------------------------------------------------------------
(* The routines of lib.c.  A set of numbers that is not empty has a least      *)
(* one: what stands in for induction.                                         *)
LEMMA LeastNat ==
    ASSUME NEW T, T \subseteq Nat, T # {}
    PROVE  \E m \in T : \A n \in T : m <= n
  <1> DEFINE R == OpToRel(<, Nat)
  <1>1. IsWellFoundedOn(R, Nat)
    BY NatLessThanWellFounded
  <1>2. \A m, n \in Nat : m < n => <<m, n>> \in R
    BY DEF OpToRel
  <1> HIDE DEF R
  <1>3. PICK m \in T : \A n \in T : <<n, m>> \notin R
    BY <1>1, WFMin
  <1>4. m \in Nat /\ \A n \in T : n \in Nat
    OBVIOUS
  <1>5. \A n \in T : ~(n < m)
    BY <1>2, <1>3, <1>4, Zenon
  <1>6. \A n \in T : m <= n
    BY <1>4, <1>5
  <1> QED
    BY <1>6

(* Induction up to k, over the members of a set, and for two recursions on    *)
(* 0 .. k that start alike and go on alike.                                   *)
LEMMA UpTo ==
    ASSUME NEW k \in Nat, NEW S, 0 \in S, \A i \in 1 .. k : i - 1 \in S => i \in S
    PROVE  \A i \in 0 .. k : i \in S
  <1> DEFINE T == {i \in 0 .. k : i \notin S}
  <1>1. CASE T = {}
    BY <1>1
  <1>2. CASE T # {}
    <2>1. T \subseteq Nat
      OBVIOUS
    <2>2. PICK i \in T : \A n \in T : i <= n
      <3> HIDE DEF T
      <3> QED
        BY <1>2, <2>1, LeastNat
    <2>3. i \in 1 .. k /\ i - 1 \in 0 .. k /\ i - 1 \notin T
      BY <2>2
    <2> QED
      BY <2>2, <2>3
  <1> QED
    BY <1>1, <1>2

LEMMA SameRecursion ==
    ASSUME NEW k \in Nat, NEW f, NEW g, f[0] = g[0],
           \A i \in 1 .. k : f[i - 1] = g[i - 1] => f[i] = g[i]
    PROVE  \A i \in 0 .. k : f[i] = g[i]
  <1> DEFINE S == {i \in 0 .. k : f[i] = g[i]}
  <1>1. 0 \in S /\ \A i \in 1 .. k : i - 1 \in S => i \in S
    OBVIOUS
  <1>2. \A i \in 0 .. k : i \in S
    <2> HIDE DEF S
    <2> QED
      BY <1>1, UpTo
  <1> QED
    BY <1>2

(* The double words, words and bytes that are stored or moved.               *)
Copied(m, d, s, n) ==
    [a \in Address |-> IF a \in d .. d + n - 1 THEN m[s + a - d] ELSE m[a]]

(* rep movs upwards, unit by unit, copies the source as it was before when    *)
(* the destination lies below it or apart from it.                            *)
LEMMA MovedUpIs ==
    ASSUME NEW m \in [Address -> Octet], NEW d \in Nat, NEW s \in Nat, NEW k \in Nat,
           NEW w \in {1, 4}, d + k * w <= SIZE, s + k * w <= SIZE,
           d <= s \/ s + k * w <= d
    PROVE  MovedUp(m, d, s, k, w) = Copied(m, d, s, k * w)
  <1> DEFINE Step(i, g) == [a \in Address |-> IF a \in d + (i - 1) * w .. d + i * w - 1
                                              THEN g[s + a - d] ELSE g[a]]
             Is(f) == f = [i \in 0 .. k |-> IF i = 0 THEN m ELSE Step(i, f[i - 1])]
             closed == [i \in 0 .. k |-> Copied(m, d, s, i * w)]
             after == CHOOSE f : Is(f)
  <1>1. SIZE \in Nat
    BY LibraryAssumption
  <1>2. closed[0] = m
    BY <1>1 DEF Copied, Address
  <1>3. \A i \in 1 .. k : Copied(m, d, s, i * w) = Step(i, Copied(m, d, s, (i - 1) * w))
    <2> SUFFICES ASSUME NEW i \in 1 .. k
                 PROVE  Copied(m, d, s, i * w) = Step(i, Copied(m, d, s, (i - 1) * w))
      OBVIOUS
    <2>1. /\ i * w \in Nat /\ (i - 1) * w \in Nat /\ k * w \in Nat
          /\ (i - 1) * w + w = i * w /\ i * w <= k * w
      <3>1. CASE w = 1
        BY <3>1
      <3>2. CASE w = 4
        BY <3>2
      <3> QED
        BY <3>1, <3>2
    <2> DEFINE h == (i - 1) * w
               b == Copied(m, d, s, h)
    <2>2. \A a \in Address : Copied(m, d, s, i * w)[a] = Step(i, b)[a]
      <3> SUFFICES ASSUME NEW a \in Address
                   PROVE  Copied(m, d, s, i * w)[a] = Step(i, b)[a]
        OBVIOUS
      <3>1. CASE a \in d + h .. d + i * w - 1
        <4>1. s + a - d \in Address /\ s + a - d \notin d .. d + h - 1
          BY <1>1, <2>1, <3>1 DEF Address
        <4>2. b[s + a - d] = m[s + a - d]
          BY <4>1 DEF Copied
        <4> QED
          BY <1>1, <2>1, <3>1, <4>2 DEF Copied, Address
      <3>2. CASE a \notin d + h .. d + i * w - 1
        BY <1>1, <2>1, <3>2 DEF Copied, Address
      <3> QED
        BY <3>1, <3>2
    <2> QED
      BY <2>2, Zenon DEF Copied
  <1>4. Is(closed)
    <2> HIDE DEF Step
    <2>1. \A i \in 0 .. k : closed[i] = Copied(m, d, s, i * w)
      OBVIOUS
    <2>2. closed = [i \in 0 .. k |-> closed[i]]
      OBVIOUS
    <2> HIDE DEF closed
    <2>3. \A i \in 1 .. k : closed[i] = Step(i, closed[i - 1])
      BY <1>3, <2>1
    <2>4. \A i \in 0 .. k : closed[i] = IF i = 0 THEN m ELSE Step(i, closed[i - 1])
      BY <1>2, <2>3
    <2> QED
      BY <2>2, <2>4
  <1>5. Is(after)
    <2> HIDE DEF Is
    <2> QED
      BY <1>4, Zenon
  <1>6. MovedUp(m, d, s, k, w) = after[k]
    BY Zenon DEF MovedUp
  <1>7. \A i \in 0 .. k : after[i] = closed[i]
    <2> HIDE DEF after, closed, Step
    <2>1. after[0] = closed[0]
      BY <1>2, <1>5
    <2>2. \A i \in 1 .. k : after[i] = Step(i, after[i - 1]) /\ closed[i] = Step(i, closed[i - 1])
      BY <1>4, <1>5
    <2>3. \A i \in 1 .. k : after[i - 1] = closed[i - 1] => after[i] = closed[i]
      BY <2>2, Zenon
    <2> QED
      BY <2>1, <2>3, SameRecursion
  <1> HIDE DEF after
  <1> QED
    BY <1>6, <1>7

(* The loop of memmove() from the end does so when the destination lies above. *)
LEMMA MovedDownIs ==
    ASSUME NEW m \in [Address -> Octet], NEW d \in Nat, NEW s \in Nat, NEW n \in Nat,
           d + n <= SIZE, s < d
    PROVE  MovedDown(m, d, s, n) = Copied(m, d, s, n)
  <1> DEFINE Step(i, g) == [g EXCEPT ![d + n - i] = g[s + n - i]]
             Is(f) == f = [i \in 0 .. n |-> IF i = 0 THEN m ELSE Step(i, f[i - 1])]
             Done(i) == [a \in Address |-> IF a \in d + n - i .. d + n - 1 THEN m[s + a - d] ELSE m[a]]
             closed == [i \in 0 .. n |-> Done(i)]
             after == CHOOSE f : Is(f)
  <1>1. SIZE \in Nat
    BY LibraryAssumption
  <1>2. closed[0] = m
    BY <1>1 DEF Address
  <1>3. \A i \in 1 .. n : Done(i) = Step(i, Done(i - 1))
    <2> SUFFICES ASSUME NEW i \in 1 .. n
                 PROVE  Done(i) = Step(i, Done(i - 1))
      OBVIOUS
    <2>1. /\ s + n - i \in Address /\ s + n - i \notin d + n - (i - 1) .. d + n - 1
          /\ s + (d + n - i) - d = s + n - i
      BY <1>1 DEF Address
    <2>2. Done(i - 1)[s + n - i] = m[s + n - i]
      BY <2>1
    <2>3. \A a \in Address : Done(i)[a] = Step(i, Done(i - 1))[a]
      BY <1>1, <2>1, <2>2 DEF Address
    <2> QED
      BY <2>3
  <1>4. Is(closed)
    <2> HIDE DEF Step, Done
    <2>1. \A i \in 0 .. n : closed[i] = Done(i)
      OBVIOUS
    <2>2. closed = [i \in 0 .. n |-> closed[i]]
      OBVIOUS
    <2> HIDE DEF closed
    <2>3. \A i \in 1 .. n : closed[i] = Step(i, closed[i - 1])
      BY <1>3, <2>1
    <2>4. \A i \in 0 .. n : closed[i] = IF i = 0 THEN m ELSE Step(i, closed[i - 1])
      BY <1>2, <2>3
    <2> QED
      BY <2>2, <2>4
  <1>5. Is(after)
    <2> HIDE DEF Is
    <2> QED
      BY <1>4, Zenon
  <1>6. MovedDown(m, d, s, n) = after[n]
    BY Zenon DEF MovedDown
  <1>7. \A i \in 0 .. n : after[i] = closed[i]
    <2> HIDE DEF after, closed, Step
    <2>1. after[0] = closed[0]
      BY <1>2, <1>5
    <2>2. \A i \in 1 .. n : after[i] = Step(i, after[i - 1]) /\ closed[i] = Step(i, closed[i - 1])
      BY <1>4, <1>5
    <2>3. \A i \in 1 .. n : after[i - 1] = closed[i - 1] => after[i] = closed[i]
      BY <2>2, Zenon
    <2>4. \A f, g : f[0] = g[0] /\ (\A i \in 1 .. n : f[i - 1] = g[i - 1] => f[i] = g[i])
                       => \A i \in 0 .. n : f[i] = g[i]
      BY SameRecursion
    <2> QED
      BY <2>1, <2>3, <2>4, Zenon
  <1>8. closed[n] = Copied(m, d, s, n)
    BY DEF Copied
  <1> HIDE DEF after
  <1> QED
    BY <1>6, <1>7, <1>8

(* Two copies, one behind the other. *)
LEMMA CopiedOn ==
    ASSUME NEW m \in [Address -> Octet], NEW d \in Nat, NEW s \in Nat, NEW h \in Nat, NEW k \in Nat,
           s + h + k <= SIZE, d <= s \/ s + h + k <= d
    PROVE  Copied(Copied(m, d, s, h), d + h, s + h, k) = Copied(m, d, s, h + k)
  <1> DEFINE b == Copied(m, d, s, h)
  <1>1. SIZE \in Nat
    BY LibraryAssumption
  <1>2. \A a \in Address : Copied(b, d + h, s + h, k)[a] = Copied(m, d, s, h + k)[a]
    <2> SUFFICES ASSUME NEW a \in Address
                 PROVE  Copied(b, d + h, s + h, k)[a] = Copied(m, d, s, h + k)[a]
      OBVIOUS
    <2>1. CASE a \in d + h .. d + h + k - 1
      <3>1. /\ s + h + a - (d + h) = s + a - d
            /\ s + a - d \in Address /\ s + a - d \notin d .. d + h - 1
        BY <1>1, <2>1 DEF Address
      <3>2. b[s + a - d] = m[s + a - d]
        BY <3>1 DEF Copied
      <3> QED
        BY <1>1, <2>1, <3>1, <3>2 DEF Copied, Address
    <2>2. CASE a \notin d + h .. d + h + k - 1
      BY <1>1, <2>2 DEF Copied, Address
    <2> QED
      BY <2>1, <2>2
  <1> QED
    BY <1>2, Zenon DEF Copied

LEMMA CopiedType ==
    ASSUME NEW m \in [Address -> Octet], NEW d \in Nat, NEW s \in Nat, NEW n \in Nat,
           s + n <= SIZE
    PROVE  Copied(m, d, s, n) \in [Address -> Octet]
  BY LibraryAssumption DEF Copied, Address

(* The bytes done before the boundary are among the n bytes.                  *)
LEMMA TopIs ==
    ASSUME NEW d \in Nat, NEW n \in Nat
    PROVE  Top(d, n) \in 0 .. n
  <1>1. d % 4 \in 0 .. 3 /\ (4 - (d % 4)) % 4 \in 0 .. 3
    OBVIOUS
  <1> QED
    BY <1>1 DEF Top

(* memcpy() and memmove() copy the source as it was: in the three parts of    *)
(* memcpy(), and from the end that an overlap allows.                         *)
LEMMA MemcpyIs ==
    ASSUME NEW m \in [Address -> Octet], NEW d \in Nat, NEW s \in Nat, NEW n \in Nat,
           d + n <= SIZE, s + n <= SIZE, d <= s \/ s + n <= d
    PROVE  Memcpy(m, d, s, n) = Copied(m, d, s, n)
  <1> DEFINE h == Top(d, n)
             q == (n - h) \div 4
             b == h + 4 * q
  <1>1. h \in Nat /\ h <= n /\ q \in Nat /\ b \in Nat /\ b <= n /\ n - b \in Nat
    <2>1. h \in 0 .. n
      BY TopIs
    <2> HIDE DEF h
    <2>2. n - h \in Nat /\ q \in Nat /\ 4 * q <= n - h
      BY <2>1
    <2> QED
      BY <2>1, <2>2
  <1>2. Memcpy(m, d, s, n) = MovedUp(MovedUp(MovedUp(m, d, s, h, 1), d + h, s + h, q, 4),
                                     d + b, s + b, n - b, 1)
    BY DEF Memcpy
  <1>3. b = h + q * 4
    BY <1>1
  <1> HIDE DEF h, q, b
  <1>4. h * 1 = h /\ q * 4 \in Nat /\ (n - b) * 1 = n - b /\ h + q * 4 = b /\ b + (n - b) = n
    BY <1>1, <1>3
  <1>5. SIZE \in Nat
    BY LibraryAssumption
  <1>6. MovedUp(m, d, s, h, 1) = Copied(m, d, s, h) /\ Copied(m, d, s, h) \in [Address -> Octet]
    BY <1>1, <1>4, <1>5, MovedUpIs, CopiedType
  <1>7. /\ MovedUp(Copied(m, d, s, h), d + h, s + h, q, 4) = Copied(m, d, s, b)
        /\ Copied(m, d, s, b) \in [Address -> Octet]
    <2>1. MovedUp(Copied(m, d, s, h), d + h, s + h, q, 4)
            = Copied(Copied(m, d, s, h), d + h, s + h, q * 4)
      BY <1>1, <1>4, <1>5, <1>6, MovedUpIs
    <2>2. Copied(Copied(m, d, s, h), d + h, s + h, q * 4) = Copied(m, d, s, h + q * 4)
      BY <1>1, <1>4, <1>5, CopiedOn
    <2>3. Copied(m, d, s, b) \in [Address -> Octet]
      BY <1>1, <1>5, CopiedType
    <2> QED
      BY <1>4, <2>1, <2>2, <2>3
  <1>8. MovedUp(Copied(m, d, s, b), d + b, s + b, n - b, 1) = Copied(m, d, s, n)
    <2>1. MovedUp(Copied(m, d, s, b), d + b, s + b, n - b, 1)
            = Copied(Copied(m, d, s, b), d + b, s + b, n - b)
      BY <1>1, <1>4, <1>5, <1>7, MovedUpIs
    <2>2. Copied(Copied(m, d, s, b), d + b, s + b, n - b) = Copied(m, d, s, b + (n - b))
      BY <1>1, <1>4, <1>5, CopiedOn
    <2> QED
      BY <1>4, <2>1, <2>2
  <1> QED
    BY <1>2, <1>6, <1>7, <1>8

LEMMA MemmoveIs ==
    ASSUME NEW m \in [Address -> Octet], NEW d \in Nat, NEW s \in Nat, NEW n \in Nat,
           d + n <= SIZE, s + n <= SIZE
    PROVE  Memmove(m, d, s, n) = Copied(m, d, s, n)
  <1>1. CASE s >= d
    <2>1. n * 1 = n /\ d <= s
      BY <1>1
    <2> QED
      BY <1>1, <2>1, MovedUpIs DEF Memmove
  <1>2. CASE ~(s >= d)
    BY <1>2, MovedDownIs DEF Memmove
  <1> QED
    BY <1>1, <1>2

(* memset() in its three parts, and by words and double words.               *)
LEMMA MemsetIs ==
    ASSUME NEW m \in [Address -> Octet], NEW d \in Nat, NEW n \in Nat, NEW c
    PROVE  \A a \in Address : Memset(m, d, c, n)[a] = IF a \in d .. d + n - 1 THEN c[1] ELSE m[a]
  <1> DEFINE h == Top(d, n)
             q == (n - h) \div 4
             r == (n - h) % 4
             al == c[1]
             Filled(f, e, k) == [a \in Address |-> IF a \in e .. e + k - 1 THEN al ELSE f[a]]
  <1>1. h \in Nat /\ q \in Nat /\ r \in Nat /\ h + 4 * q + r = n
    <2>1. h \in 0 .. n
      BY TopIs
    <2> HIDE DEF h
    <2> QED
      BY <2>1
  <1>2. ASSUME NEW f, NEW e \in Nat, NEW k \in Nat
        PROVE  /\ Stored(f, e, k, <<al>>) = Filled(f, e, k)
               /\ Stored(f, e, k, <<al, al, al, al>>) = Filled(f, e, 4 * k)
    <2>1. \A x \in Nat : (x % 1) + 1 = 1 /\ (x % 4) + 1 \in 1 .. 4
      OBVIOUS
    <2>2. \A a \in e .. e + 4 * k - 1 : a - e \in Nat
      OBVIOUS
    <2>3. k * Len(<<al>>) = k /\ k * Len(<<al, al, al, al>>) = 4 * k
      OBVIOUS
    <2>4. Stored(f, e, k, <<al>>) = Filled(f, e, k)
      <3>1. \A a \in e .. e + k - 1 : <<al>>[((a - e) % Len(<<al>>)) + 1] = al
        BY <2>1
      <3> QED
        BY <2>3, <3>1 DEF Stored
    <2>5. Stored(f, e, k, <<al, al, al, al>>) = Filled(f, e, 4 * k)
      <3>1. \A x \in 1 .. 4 : <<al, al, al, al>>[x] = al
        OBVIOUS
      <3>2. Len(<<al, al, al, al>>) = 4
        OBVIOUS
      <3>3. \A a \in e .. e + 4 * k - 1 : <<al, al, al, al>>[((a - e) % 4) + 1] = al
        BY <2>1, <2>2, <3>1
      <3> QED
        BY <2>3, <3>2, <3>3 DEF Stored
    <2> QED
      BY <2>4, <2>5
  <1>3. Memset(m, d, c, n) = Stored(Stored(Stored(m, d, h, <<al>>), d + h, q, <<al, al, al, al>>),
                                    d + h + 4 * q, r, <<al>>)
    BY DEF Memset
  <1> HIDE DEF h, q, r, al
  <1>4. Memset(m, d, c, n) = Filled(Filled(Filled(m, d, h), d + h, 4 * q), d + h + 4 * q, r)
    <2> HIDE DEF Filled
    <2> QED
      BY <1>1, <1>2, <1>3
  <1>5. Filled(Filled(Filled(m, d, h), d + h, 4 * q), d + h + 4 * q, r) = Filled(m, d, n)
    <2>1. SIZE \in Nat
      BY LibraryAssumption
    <2> QED
      BY <1>1, <2>1 DEF Address
  <1>6. \A a \in Address : Filled(m, d, n)[a] = IF a \in d .. d + n - 1 THEN al ELSE m[a]
    OBVIOUS
  <1> QED
    BY <1>4, <1>5, <1>6 DEF al

Tiled(m, after, d, c, n, w) ==
    \A a \in Address : after[a] = IF a \in d .. d + w * n - 1 THEN c[((a - d) % w) + 1] ELSE m[a]

(* memset_word() and memset_dword() lay the same unit n times.                *)
LEMMA UnitsStored ==
    ASSUME NEW m, NEW d \in Nat, NEW n \in Nat, NEW c \in [1 .. 4 -> Octet]
    PROVE  /\ Tiled(m, MemsetWord(m, d, c, n), d, c, n, 2)
           /\ Tiled(m, MemsetDword(m, d, c, n), d, c, n, 4)
  <1>1. Len(<<c[1], c[2]>>) = 2 /\ Len(c) = 4 /\ n * 2 = 2 * n /\ n * 4 = 4 * n
    OBVIOUS
  <1>2. \A a \in d .. d + 2 * n - 1 : <<c[1], c[2]>>[((a - d) % 2) + 1] = c[((a - d) % 2) + 1]
    OBVIOUS
  <1> QED
    BY <1>1, <1>2 DEF MemsetWord, MemsetDword, Stored, Tiled

-----------------------------------------------------------------------------
(* Strings. *)
LEMMA StrLenIs ==
    ASSUME NEW m \in [Address -> Octet], NEW s \in Address, m[SIZE - 1] = 0
    PROVE  /\ StrLen(m, s) \in 0 .. SIZE - 1 - s
           /\ m[s + StrLen(m, s)] = 0
           /\ \A i \in 0 .. StrLen(m, s) - 1 : m[s + i] # 0
  <1>1. SIZE \in Nat /\ s \in Nat /\ s <= SIZE - 1
    BY LibraryAssumption DEF Address
  <1> DEFINE Z == {n \in 0 .. SIZE - 1 - s : m[s + n] = 0}
  <1>2. Z \subseteq Nat /\ SIZE - 1 - s \in Z
    BY <1>1
  <1>3. PICK n \in Z : \A k \in Z : n <= k
    <2> HIDE DEF Z
    <2> QED
      BY <1>2, LeastNat
  <1>4. n \in 0 .. SIZE - 1 - s /\ m[s + n] = 0 /\ \A i \in 0 .. n - 1 : m[s + i] # 0
    BY <1>1, <1>3
  <1> HIDE DEF Z
  <1> QED
    BY <1>4 DEF StrLen

(* The length is where the first zero is.                                     *)
LEMMA StrLenAt ==
    ASSUME NEW m, NEW s \in Nat, NEW n \in Nat, s + n < SIZE,
           m[s + n] = 0, \A i \in 0 .. n - 1 : m[s + i] # 0
    PROVE  StrLen(m, s) = n
  <1> DEFINE IsLen(k) == m[s + k] = 0 /\ \A i \in 0 .. k - 1 : m[s + i] # 0
  <1>1. n \in 0 .. SIZE - 1 - s /\ IsLen(n)
    BY LibraryAssumption
  <1>2. ASSUME NEW k \in 0 .. SIZE - 1 - s, IsLen(k) PROVE k = n
    <2>1. ~(k < n) /\ ~(n < k)
      BY <1>2
    <2> QED
      BY <2>1
  <1>3. StrLen(m, s) = CHOOSE k \in 0 .. SIZE - 1 - s : IsLen(k)
    BY DEF StrLen
  <1> HIDE DEF IsLen
  <1> QED
    BY <1>1, <1>2, <1>3

(* strncmp() is 0 if no bytes differ up to the end of the second string.     *)
LEMMA StrncmpIs ==
    ASSUME NEW m, NEW s1 \in Nat, NEW s2 \in Nat, NEW n \in Nat,
           \A i \in 0 .. n - 1 : m[s1 + i] \in Octet /\ m[s2 + i] \in Octet
    PROVE  Strncmp(m, s1, s2, n) = 0 <=>
             \A i \in 0 .. n - 1 : (\A j \in 0 .. i - 1 : m[s2 + j] # 0) => m[s1 + i] = m[s2 + i]
  <1> DEFINE stops == {i \in 0 .. n - 1 : m[s1 + i] # m[s2 + i] \/ m[s1 + i] = 0}
             Least(j) == \A k \in stops : j <= k
  <1>1. CASE stops = {}
    BY <1>1 DEF Strncmp
  <1>2. CASE stops # {}
    <2>1. stops \subseteq Nat
      OBVIOUS
    <2>2. \E i \in stops : Least(i)
      <3> HIDE DEF stops
      <3> QED
        BY <1>2, <2>1, LeastNat
    <2> DEFINE i == CHOOSE j \in stops : Least(j)
    <2>3. i \in stops /\ Least(i)
      BY <2>2, Zenon
    <2>4. Strncmp(m, s1, s2, n) = m[s1 + i] - m[s2 + i]
      BY <1>2, Zenon DEF Strncmp
    <2> HIDE DEF i
    <2>5. /\ i \in 0 .. n - 1 /\ (m[s1 + i] # m[s2 + i] \/ m[s1 + i] = 0)
          /\ \A j \in 0 .. i - 1 : m[s1 + j] = m[s2 + j] /\ m[s1 + j] # 0
      BY <2>3
    <2> HIDE DEF stops, Least
    <2>6. m[s1 + i] \in Octet /\ m[s2 + i] \in Octet
      BY <2>5
    <2>7. Strncmp(m, s1, s2, n) = 0 <=> m[s1 + i] = m[s2 + i]
      <3>1. \A x, y \in Octet : x - y = 0 <=> x = y
        BY DEF Octet
      <3> QED
        BY <2>4, <2>6, <3>1, Zenon
    <2>8. CASE m[s1 + i] # m[s2 + i]
      <3>1. \A j \in 0 .. i - 1 : m[s2 + j] # 0
        BY <2>5
      <3> QED
        BY <2>5, <2>7, <2>8, <3>1
    <2>9. CASE m[s1 + i] = m[s2 + i]
      <3>1. m[s2 + i] = 0
        BY <2>5, <2>9
      <3>2. \A k \in 0 .. n - 1 : (\A j \in 0 .. k - 1 : m[s2 + j] # 0) => k <= i
        BY <2>5, <3>1
      <3>3. \A k \in 0 .. i : m[s1 + k] = m[s2 + k]
        BY <2>5, <2>9
      <3>4. \A k \in 0 .. n - 1 : (\A j \in 0 .. k - 1 : m[s2 + j] # 0) => m[s1 + k] = m[s2 + k]
        BY <3>2, <3>3
      <3> QED
        BY <2>7, <2>9, <3>4
    <2> QED
      BY <2>8, <2>9
  <1> QED
    BY <1>1, <1>2

(* strcpy() copies the string with its zero, and it compares equal.           *)
LEMMA StrcpyIs ==
    ASSUME NEW m \in [Address -> Octet], NEW d \in Address, NEW s \in Address, NEW n,
           m[SIZE - 1] = 0, n = StrLen(m, s) + 1, Fits(d, n), Apart(d, s, n)
    PROVE  /\ n \in Nat /\ Strcpy(m, d, s) = Copied(m, d, s, n)
           /\ Strncmp(Strcpy(m, d, s), d, s, n) = 0
  <1> DEFINE k == StrLen(m, s)
  <1>1. SIZE \in Nat /\ d \in Nat /\ s \in Nat
    BY LibraryAssumption DEF Address
  <1>2. k \in Nat /\ s + k < SIZE /\ m[s + k] = 0 /\ n = k + 1
    BY <1>1, StrLenIs
  <1>3. Strcpy(m, d, s) = MovedUp(m, d, s, n, 1)
    BY DEF Strcpy
  <1> HIDE DEF k
  <1>4. n \in Nat /\ n * 1 = n /\ s + n <= SIZE /\ d + n <= SIZE /\ (d <= s \/ s + n <= d)
    BY <1>1, <1>2 DEF Fits, Apart
  <1>5. Strcpy(m, d, s) = Copied(m, d, s, n) /\ Copied(m, d, s, n) \in [Address -> Octet]
    BY <1>1, <1>3, <1>4, MovedUpIs, CopiedType
  <1> DEFINE c == Copied(m, d, s, n)
  <1>6. \A i \in 0 .. n - 1 : c[d + i] = c[s + i] /\ c[d + i] \in Octet
    <2> SUFFICES ASSUME NEW i \in 0 .. n - 1
                 PROVE  c[d + i] = c[s + i] /\ c[d + i] \in Octet
      OBVIOUS
    <2>1. d + i \in Address /\ s + i \in Address /\ s + (d + i) - d = s + i
      BY <1>1, <1>4 DEF Address
    <2>2. s + i \notin d .. d + n - 1 /\ d + i \in d .. d + n - 1
      BY <1>1, <1>4 DEF Apart
    <2> QED
      BY <1>5, <2>1, <2>2 DEF Copied
  <1> HIDE DEF c
  <1>7. Strncmp(c, d, s, n) = 0
    <2>1. \A i \in 0 .. n - 1 : c[d + i] \in Octet /\ c[s + i] \in Octet
      BY <1>6, Zenon
    <2>2. \A i \in 0 .. n - 1 : (\A j \in 0 .. i - 1 : c[s + j] # 0) => c[d + i] = c[s + i]
      BY <1>6, Zenon
    <2>3. d \in Nat /\ s \in Nat /\ n \in Nat
      BY <1>1, <1>4
    <2> QED
      BY <2>1, <2>2, <2>3, StrncmpIs, Zenon
  <1> QED
    BY <1>4, <1>5, <1>7 DEF c

(* strncpy() changes n bytes and no other, and they compare equal as far as n. *)
LEMMA StrncpyIs ==
    ASSUME NEW m \in [Address -> Octet], NEW d \in Address, NEW s \in Address, NEW n \in Nat,
           m[SIZE - 1] = 0, Fits(d, n), Fits(s, n), Apart(d, s, n)
    PROVE  /\ \A a \in Address : a \notin d .. d + n - 1 => Strncpy(m, d, s, n)[a] = m[a]
           /\ Strncmp(Strncpy(m, d, s, n), d, s, n) = 0
  <1> DEFINE z == StrLen(m, s)
             k == IF z < n THEN z ELSE n
             c == Strncpy(m, d, s, n)
             F == [a \in Address |-> IF a \in d + k .. d + n - 1 THEN 0 ELSE Copied(m, d, s, k)[a]]
  <1>1. SIZE \in Nat /\ d \in Nat /\ s \in Nat /\ s + n <= SIZE /\ d + n <= SIZE
    BY LibraryAssumption DEF Address, Fits
  <1>2. z \in Nat /\ s + z < SIZE /\ m[s + z] = 0
    BY <1>1, StrLenIs
  <1>3. c = Stored(MovedUp(m, d, s, k, 1), d + k, n - k, <<0>>)
    BY DEF Strncpy
  <1> HIDE DEF z, c
  <1>4. k \in Nat /\ k <= n /\ (k < n => k = z)
    BY <1>2
  <1> HIDE DEF k
  <1>5. k * 1 = k /\ s + k <= SIZE /\ d + k <= SIZE /\ (d <= s \/ s + k <= d)
    BY <1>1, <1>4 DEF Apart
  <1>6. MovedUp(m, d, s, k, 1) = Copied(m, d, s, k)
    BY <1>1, <1>4, <1>5, MovedUpIs
  <1>7. c = F
    <2>1. Len(<<0>>) = 1 /\ d + k + (n - k) * Len(<<0>>) - 1 = d + n - 1
      <3>1. Len(<<0>>) = 1 /\ n - k \in Nat
        BY <1>4
      <3>2. (n - k) * Len(<<0>>) = n - k
        BY <3>1
      <3> QED
        BY <1>1, <1>4, <3>1, <3>2
    <2>2. \A a \in d + k .. d + n - 1 : <<0>>[((a - (d + k)) % 1) + 1] = 0
      BY <1>1, <1>4
    <2>3. Stored(Copied(m, d, s, k), d + k, n - k, <<0>>) = F
      <3> HIDE DEF F
      <3> DEFINE b == Copied(m, d, s, k)
      <3> HIDE DEF b
      <3>1. Stored(b, d + k, n - k, <<0>>)
              = [a \in Address |-> IF a \in d + k .. d + n - 1
                                   THEN <<0>>[((a - (d + k)) % 1) + 1] ELSE b[a]]
        BY <2>1 DEF Stored
      <3> QED
        BY <2>2, <3>1 DEF b, F
    <2> QED
      BY <1>3, <1>6, <2>3
  <1>8. \A a \in Address : c[a] = IF a \in d + k .. d + n - 1 THEN 0
                                 ELSE IF a \in d .. d + k - 1 THEN m[s + a - d] ELSE m[a]
    BY <1>7 DEF Copied
  <1>9. \A i \in 0 .. n - 1 : /\ d + i \in Address /\ s + i \in Address
                             /\ c[s + i] = m[s + i]
                             /\ c[d + i] = IF i < k THEN m[s + i] ELSE 0
    <2> SUFFICES ASSUME NEW i \in 0 .. n - 1
                 PROVE  /\ d + i \in Address /\ s + i \in Address
                        /\ c[s + i] = m[s + i]
                        /\ c[d + i] = IF i < k THEN m[s + i] ELSE 0
      OBVIOUS
    <2>1. d + i \in Address /\ s + i \in Address /\ s + (d + i) - d = s + i
      BY <1>1 DEF Address
    <2>2. s + i \notin d + k .. d + n - 1 /\ s + i \notin d .. d + k - 1
      BY <1>1, <1>4 DEF Apart
    <2>3. IF i < k THEN d + i \in d .. d + k - 1 /\ d + i \notin d + k .. d + n - 1
                   ELSE d + i \in d + k .. d + n - 1
      BY <1>1, <1>4
    <2> QED
      BY <1>8, <2>1, <2>2, <2>3
  <1>10. \A i \in 0 .. n - 1 : c[d + i] \in Octet /\ c[s + i] \in Octet
    BY <1>9 DEF Octet
  <1>11. ASSUME NEW i \in 0 .. n - 1, \A j \in 0 .. i - 1 : c[s + j] # 0
         PROVE  c[d + i] = c[s + i]
    <2>1. CASE i < k
      BY <1>9, <2>1
    <2>2. CASE ~(i < k)
      <3>1. k = z /\ k \in 0 .. n - 1 /\ c[s + k] = 0
        BY <1>2, <1>4, <1>9, <2>2
      <3>2. i = k
        BY <1>4, <1>11, <2>2, <3>1
      <3> QED
        BY <1>9, <2>2, <3>1, <3>2
    <2> QED
      BY <2>1, <2>2
  <1>12. Strncmp(c, d, s, n) = 0
    BY <1>1, <1>10, <1>11, StrncmpIs
  <1>13. \A a \in Address : a \notin d .. d + n - 1 => c[a] = m[a]
    BY <1>1, <1>4, <1>8 DEF Address
  <1> QED
    BY <1>12, <1>13 DEF c

-----------------------------------------------------------------------------
Ready == call = NoCall => mem \in Memories

LEMMA MemoryReady ==
    ASSUME mem \in Memories
    PROVE  mem \in [Address -> Octet] /\ mem[SIZE - 1] = 0
  BY LibraryAssumption, Zenon

(* Each call does what Exact says of it. *)
LEMMA MemsetExact ==
    ASSUME NEW d \in Address, NEW n \in 0 .. SIZE, NEW c \in Fills, mem \in Memories,
           CallMemset(d, c, n)
    PROVE  Exact
  <1>1. /\ call' = [op |-> "memset", d |-> d, c |-> c, n |-> n]
        /\ mem' = Memset(mem, d, c, n)
    BY Zenon DEF CallMemset, Stores
  <1>2. d \in Nat /\ n \in Nat /\ mem \in [Address -> Octet]
    BY LibraryAssumption, MemoryReady DEF Address
  <1>3. \A a \in Address : Memset(mem, d, c, n)[a] = IF a \in d .. d + n - 1 THEN c[1] ELSE mem[a]
    BY <1>2, MemsetIs
  <1>4. \A a \in Address : a \in d .. d + n - 1 <=> a - d \in 0 .. n - 1
    BY <1>2 DEF Address
  <1>5. call'.op = "memset" /\ call'.d = d /\ call'.n = n /\ call'.c = c
    BY <1>1
  <1>6. \A a \in Address : mem'[a] = IF a - d \in 0 .. n - 1 THEN c[1] ELSE mem[a]
    BY <1>1, <1>3, <1>4
  <1> QED
    BY <1>5, <1>6 DEF Exact

LEMMA UnitsExact ==
    ASSUME NEW d \in Address, NEW n \in 0 .. SIZE, NEW c \in Fills, mem \in Memories,
           CallMemsetWord(d, c, n) \/ CallMemsetDword(d, c, n)
    PROVE  Exact
  <1>1. d \in Nat /\ n \in Nat /\ mem \in [Address -> Octet] /\ c \in [1 .. 4 -> Octet]
    BY LibraryAssumption, MemoryReady DEF Address
  <1>2. ASSUME NEW w \in {2, 4}
        PROVE  \A a \in Address : a \in d .. d + w * n - 1 <=> a - d \in 0 .. w * n - 1
    BY <1>1 DEF Address
  <1>3. CASE CallMemsetWord(d, c, n)
    <2>1. /\ call' = [op |-> "memset_word", d |-> d, c |-> c, n |-> n]
          /\ mem' = MemsetWord(mem, d, c, n)
      BY <1>3, Zenon DEF CallMemsetWord, Stores
    <2>2. Tiled(mem, mem', d, c, n, 2)
      BY <1>1, <2>1, UnitsStored, Zenon
    <2>3. call'.op = "memset_word" /\ call'.d = d /\ call'.n = n /\ call'.c = c
      BY <2>1
    <2>4. \A a \in Address : mem'[a] = IF a - d \in 0 .. 2 * n - 1 THEN c[((a - d) % 2) + 1] ELSE mem[a]
      BY <1>2, <2>2 DEF Tiled
    <2> QED
      BY <2>3, <2>4 DEF Exact
  <1>4. CASE CallMemsetDword(d, c, n)
    <2>1. /\ call' = [op |-> "memset_dword", d |-> d, c |-> c, n |-> n]
          /\ mem' = MemsetDword(mem, d, c, n)
      BY <1>4, Zenon DEF CallMemsetDword, Stores
    <2>2. Tiled(mem, mem', d, c, n, 4)
      BY <1>1, <2>1, UnitsStored, Zenon
    <2>3. call'.op = "memset_dword" /\ call'.d = d /\ call'.n = n /\ call'.c = c
      BY <2>1
    <2>4. \A a \in Address : mem'[a] = IF a - d \in 0 .. 4 * n - 1 THEN c[((a - d) % 4) + 1] ELSE mem[a]
      BY <1>2, <2>2 DEF Tiled
    <2> QED
      BY <2>3, <2>4 DEF Exact
  <1> QED
    BY <1>3, <1>4

LEMMA CopyExact ==
    ASSUME NEW d \in Address, NEW s \in Address, NEW n \in Nat,
           call'.op \in {"memcpy", "memmove", "strcpy"},
           call'.d = d, call'.s = s, call'.n = n,
           mem' = Copied(mem, d, s, n),
           call'.op = "strcpy" => Strncmp(mem', d, s, n) = 0
    PROVE  Exact
  <1>1. d \in Nat /\ s \in Nat
    BY LibraryAssumption DEF Address
  <1>2. \A a \in Address : mem'[a] = IF a - d \in 0 .. n - 1 THEN mem[s + (a - d)] ELSE mem[a]
    <2> SUFFICES ASSUME NEW a \in Address
                 PROVE  mem'[a] = IF a - d \in 0 .. n - 1 THEN mem[s + (a - d)] ELSE mem[a]
      OBVIOUS
    <2>1. (a \in d .. d + n - 1 <=> a - d \in 0 .. n - 1) /\ s + a - d = s + (a - d)
      BY <1>1 DEF Address
    <2> QED
      BY <2>1 DEF Copied
  <1> QED
    BY <1>2 DEF Exact

LEMMA MovesExact ==
    ASSUME NEW d \in Address, NEW s \in Address, NEW n \in 0 .. SIZE, mem \in Memories,
           CallMemcpy(d, s, n) \/ CallMemmove(d, s, n)
    PROVE  Exact
  <1>1. d \in Nat /\ s \in Nat /\ n \in Nat /\ mem \in [Address -> Octet] /\ SIZE \in Nat
    BY LibraryAssumption, MemoryReady DEF Address
  <1>2. CASE CallMemcpy(d, s, n)
    <2>1. /\ call' = [op |-> "memcpy", d |-> d, s |-> s, n |-> n]
          /\ mem' = Memcpy(mem, d, s, n)
      BY <1>2, Zenon DEF CallMemcpy, Stores
    <2>2. d + n <= SIZE /\ s + n <= SIZE /\ (d <= s \/ s + n <= d)
      BY <1>1, <1>2 DEF CallMemcpy, Fits, Apart
    <2>3. mem' = Copied(mem, d, s, n)
      BY <1>1, <2>1, <2>2, MemcpyIs, Zenon
    <2> QED
      BY <1>1, <2>1, <2>3, CopyExact
  <1>3. CASE CallMemmove(d, s, n)
    <2>1. /\ call' = [op |-> "memmove", d |-> d, s |-> s, n |-> n]
          /\ mem' = Memmove(mem, d, s, n)
      BY <1>3, Zenon DEF CallMemmove, Stores
    <2>2. d + n <= SIZE /\ s + n <= SIZE
      BY <1>1, <1>3 DEF CallMemmove, Fits
    <2>3. mem' = Copied(mem, d, s, n)
      BY <1>1, <2>1, <2>2, MemmoveIs, Zenon
    <2> QED
      BY <1>1, <2>1, <2>3, CopyExact
  <1> QED
    BY <1>2, <1>3

LEMMA StrcpyExact ==
    ASSUME NEW d \in Address, NEW s \in Address, mem \in Memories, CallStrcpy(d, s)
    PROVE  Exact
  <1> DEFINE n == StrLen(mem, s) + 1
  <1>1. /\ call' = [op |-> "strcpy", d |-> d, s |-> s, n |-> n]
        /\ mem' = Strcpy(mem, d, s) /\ Fits(d, n) /\ Apart(d, s, n)
    BY Zenon DEF CallStrcpy, Stores
  <1>2. n \in Nat /\ mem' = Copied(mem, d, s, n) /\ Strncmp(mem', d, s, n) = 0
    BY <1>1, MemoryReady, StrcpyIs
  <1> HIDE DEF n
  <1> QED
    BY <1>1, <1>2, CopyExact

LEMMA StrncpyExact ==
    ASSUME NEW d \in Address, NEW s \in Address, NEW n \in 0 .. SIZE, mem \in Memories,
           CallStrncpy(d, s, n)
    PROVE  Exact
  <1>1. /\ call' = [op |-> "strncpy", d |-> d, s |-> s, n |-> n]
        /\ mem' = Strncpy(mem, d, s, n) /\ Fits(d, n) /\ Fits(s, n) /\ Apart(d, s, n)
    BY Zenon DEF CallStrncpy, Stores
  <1>2. d \in Nat /\ n \in Nat /\ mem \in [Address -> Octet] /\ mem[SIZE - 1] = 0
    BY LibraryAssumption, MemoryReady DEF Address
  <1>3. /\ \A a \in Address : a \notin d .. d + n - 1 => mem'[a] = mem[a]
        /\ Strncmp(mem', d, s, n) = 0
    BY <1>1, <1>2, StrncpyIs
  <1>4. \A a \in Address : a \in d .. d + n - 1 <=> a - d \in 0 .. n - 1
    BY <1>2 DEF Address
  <1>5. call'.op = "strncpy" /\ call'.d = d /\ call'.n = n /\ call'.s = s
    BY <1>1
  <1> QED
    BY <1>3, <1>4, <1>5 DEF Exact

LEMMA StrncmpExact ==
    ASSUME NEW d \in Address, NEW s \in Address, NEW n \in 0 .. SIZE, mem \in Memories,
           CallStrncmp(d, s, n)
    PROVE  Exact
  <1>1. call' = [op |-> "strncmp", d |-> d, s |-> s, n |-> n, result |-> Strncmp(mem, d, s, n)]
    BY Zenon DEF CallStrncmp, Stores
  <1>2. d \in Nat /\ s \in Nat /\ n \in Nat /\ SIZE \in Nat /\ mem \in [Address -> Octet]
    BY LibraryAssumption, MemoryReady DEF Address
  <1>3. \A i \in 0 .. n - 1 : mem[d + i] \in Octet /\ mem[s + i] \in Octet
    BY <1>2 DEF CallStrncmp, Fits, Address
  <1>4. Strncmp(mem, d, s, n) = 0 <=>
          \A i \in 0 .. n - 1 : (\A j \in 0 .. i - 1 : mem[s + j] # 0) => mem[d + i] = mem[s + i]
    BY <1>2, <1>3, StrncmpIs
  <1>5. /\ call'.op = "strncmp" /\ call'.d = d /\ call'.n = n /\ call'.s = s
        /\ call'.result = Strncmp(mem, d, s, n)
    BY <1>1
  <1> QED
    BY <1>4, <1>5 DEF Exact

(* Every step is one of these calls, or of printf(), or none.                 *)
LEMMA CallExact ==
    ASSUME Ready, LibNext
    PROVE  Exact
  <1>1. ASSUME call = NoCall PROVE mem \in Memories
    BY <1>1 DEF Ready
  <1>2. ASSUME NEW d \in Address, NEW n \in 0 .. SIZE, NEW c \in Fills,
               CallMemset(d, c, n) \/ CallMemsetWord(d, c, n) \/ CallMemsetDword(d, c, n)
        PROVE  Exact
    <2>1. mem \in Memories
      BY <1>1, <1>2, Zenon DEF CallMemset, CallMemsetWord, CallMemsetDword, Stores
    <2> QED
      BY <1>2, <2>1, MemsetExact, UnitsExact, Zenon
  <1>3. ASSUME NEW d \in Address, NEW n \in 0 .. SIZE, NEW s \in Address,
               \/ CallMemcpy(d, s, n) \/ CallMemmove(d, s, n)
               \/ CallStrncpy(d, s, n) \/ CallStrncmp(d, s, n)
        PROVE  Exact
    <2>1. mem \in Memories
      BY <1>1, <1>3, Zenon DEF CallMemcpy, CallMemmove, CallStrncpy, CallStrncmp, Stores
    <2> QED
      BY <1>3, <2>1, MovesExact, StrncpyExact, StrncmpExact, Zenon
  <1>4. ASSUME NEW d \in Address, NEW s \in Address, CallStrcpy(d, s)
        PROVE  Exact
    <2>1. mem \in Memories
      BY <1>1, <1>4, Zenon DEF CallStrcpy
    <2> QED
      BY <1>4, <2>1, StrcpyExact
  <1>5. ASSUME NEW p \in Prints, CallPrintf(p.format, p.args)
        PROVE  Exact
    <2>1. call'.op = "printf"
      BY <1>5 DEF CallPrintf
    <2> QED
      BY <2>1 DEF Exact
  <1>6. CASE Left
    <2>1. call'.op = "none"
      BY <1>6 DEF Left, NoCall
    <2> QED
      BY <2>1 DEF Exact
  <1> QED
    BY <1>2, <1>3, <1>4, <1>5, <1>6, Zenon DEF LibNext

(* The caller makes a call only with a memory it may have.                    *)
LEMMA ReadyNext ==
    ASSUME Ready, [LibNext]_libvars
    PROVE  Ready'
  <1>1. CASE Left
    BY <1>1 DEF Left, Ready
  <1>2. CASE UNCHANGED libvars
    BY <1>2 DEF Ready, libvars
  <1>3. ASSUME NEW made, NEW after, Stores(made, after), made # NoCall PROVE Ready'
    BY <1>3 DEF Stores, Ready
  <1>4. ASSUME NEW d \in Address, NEW n \in 0 .. SIZE, NEW c \in Fills,
               CallMemset(d, c, n) \/ CallMemsetWord(d, c, n) \/ CallMemsetDword(d, c, n)
        PROVE  Ready'
    BY <1>3, <1>4 DEF CallMemset, CallMemsetWord, CallMemsetDword, NoCall
  <1>5. ASSUME NEW d \in Address, NEW n \in 0 .. SIZE, NEW s \in Address,
               \/ CallMemcpy(d, s, n) \/ CallMemmove(d, s, n)
               \/ CallStrncpy(d, s, n) \/ CallStrncmp(d, s, n)
        PROVE  Ready'
    BY <1>3, <1>5 DEF CallMemcpy, CallMemmove, CallStrncpy, CallStrncmp, NoCall
  <1>6. ASSUME NEW d \in Address, NEW s \in Address, CallStrcpy(d, s)
        PROVE  Ready'
    BY <1>3, <1>6 DEF CallStrcpy, NoCall
  <1>7. ASSUME NEW p \in Prints, CallPrintf(p.format, p.args)
        PROVE  Ready'
    BY <1>7 DEF CallPrintf, Ready, NoCall
  <1> QED
    BY <1>1, <1>2, <1>4, <1>5, <1>6, <1>7, Zenon DEF LibNext

(* A call of memset(), memset_word(), memset_dword(), memcpy(), memmove(),     *)
(* strcpy(), strncpy() or strncmp() (lib.c:266-502) changes the bytes it is    *)
(* given and no other, wherever they begin in their double word, however many  *)
(* there are and whichever way the two areas overlap; a copy is the source as  *)
(* it was before, and strncmp() finds it equal.                                *)
THEOREM BytesExactCorrect == LibSpec => BytesExact
  <1>1. LibInit => Ready
    BY DEF LibInit, Ready
  <1>2. Ready /\ [LibNext]_libvars => Ready'
    BY ReadyNext
  <1>3. Ready /\ [LibNext]_libvars => [Exact]_libvars
    BY CallExact
  <1> QED
    BY <1>1, <1>2, <1>3, PTL DEF LibSpec, BytesExact

-----------------------------------------------------------------------------
(* strrev(). *)
LEMMA StrRevIs ==
    ASSUME NEW m \in [Address -> Octet], NEW s \in Nat, NEW n \in Nat,
           StrLen(m, s) = n, s + n < SIZE
    PROVE  StrRev(m, s) = [a \in Address |-> IF a \in s .. s + n - 1 THEN m[s + n - 1 - (a - s)] ELSE m[a]]
  <1> DEFINE end == n - 1
             half == (end + 1) \div 2
             Step(b, g) == [g EXCEPT ![s + b - 1] = m[s + end - b + 1], ![s + end - b + 1] = m[s + b - 1]]
             Is(f) == f = [b \in 0 .. half |-> IF b = 0 THEN m ELSE Step(b, f[b - 1])]
             Done(b) == [a \in Address |-> IF a \in s .. s + b - 1 \/ a \in s + n - b .. s + n - 1
                                          THEN m[s + n - 1 - (a - s)] ELSE m[a]]
             closed == [b \in 0 .. half |-> Done(b)]
             swapped == CHOOSE f : Is(f)
  <1>1. /\ SIZE \in Nat /\ half \in Nat /\ 2 * half <= n /\ n <= 2 * half + 1
    BY LibraryAssumption
  <1>2. closed[0] = m
    BY <1>1 DEF Address
  <1>3. StrRev(m, s) = swapped[half]
    BY Zenon DEF StrRev
  <1>4. \A b \in 1 .. half : Done(b) = Step(b, Done(b - 1))
    <2> HIDE DEF half
    <2> SUFFICES ASSUME NEW b \in 1 .. half
                 PROVE  Done(b) = Step(b, Done(b - 1))
      OBVIOUS
    <2>1. /\ s + b - 1 \in Address /\ s + end - b + 1 \in Address /\ s + b - 1 # s + end - b + 1
          /\ s + n - 1 - (s + b - 1 - s) = s + end - b + 1
          /\ s + n - 1 - (s + end - b + 1 - s) = s + b - 1
      BY <1>1 DEF Address
    <2>2. \A a \in Address : Done(b)[a] = Step(b, Done(b - 1))[a]
      <3> SUFFICES ASSUME NEW a \in Address
                   PROVE  Done(b)[a] = Step(b, Done(b - 1))[a]
        OBVIOUS
      <3>1. CASE a = s + b - 1
        BY <1>1, <2>1, <3>1
      <3>2. CASE a = s + end - b + 1
        BY <1>1, <2>1, <3>2
      <3>3. CASE a # s + b - 1 /\ a # s + end - b + 1
        <4>1. a \in Int
          BY <1>1 DEF Address
        <4>2. /\ a \in s .. s + b - 1 <=> a \in s .. s + (b - 1) - 1
              /\ a \in s + n - b .. s + n - 1 <=> a \in s + n - (b - 1) .. s + n - 1
          BY <1>1, <3>3, <4>1
        <4>3. Done(b)[a] = Done(b - 1)[a]
          BY <4>2
        <4>4. Step(b, Done(b - 1))[a] = Done(b - 1)[a]
          <5> DEFINE g == Done(b - 1)
          <5>1. g = [x \in Address |-> g[x]]
            OBVIOUS
          <5> HIDE DEF g
          <5> QED
            BY <3>3, <5>1
        <4> QED
          BY <4>3, <4>4
      <3> QED
        BY <3>1, <3>2, <3>3
    <2> QED
      BY <2>2
  <1>5. Is(closed)
    <2> HIDE DEF Step, Done, half
    <2>1. \A b \in 0 .. half : closed[b] = Done(b)
      OBVIOUS
    <2>2. closed = [b \in 0 .. half |-> closed[b]]
      OBVIOUS
    <2> HIDE DEF closed
    <2>3. \A b \in 1 .. half : closed[b] = Step(b, closed[b - 1])
      BY <1>1, <1>4, <2>1
    <2>4. \A b \in 0 .. half : closed[b] = IF b = 0 THEN m ELSE Step(b, closed[b - 1])
      BY <1>1, <1>2, <2>3
    <2> QED
      BY <2>2, <2>4
  <1>6. Is(swapped)
    <2> HIDE DEF Is
    <2> QED
      BY <1>5, Zenon
  <1>7. \A b \in 0 .. half : swapped[b] = closed[b]
    <2> HIDE DEF swapped, closed, Step, half
    <2>1. swapped[0] = closed[0]
      BY <1>1, <1>2, <1>6
    <2>2. \A b \in 1 .. half : swapped[b] = Step(b, swapped[b - 1]) /\ closed[b] = Step(b, closed[b - 1])
      BY <1>1, <1>5, <1>6
    <2>3. \A b \in 1 .. half : swapped[b - 1] = closed[b - 1] => swapped[b] = closed[b]
      BY <2>2, Zenon
    <2> QED
      BY <1>1, <2>1, <2>3, SameRecursion
  <1>8. closed[half] = [a \in Address |-> IF a \in s .. s + n - 1 THEN m[s + n - 1 - (a - s)] ELSE m[a]]
    <2>1. closed[half] = Done(half)
      BY <1>1
    <2> HIDE DEF half
    <2>2. \A a \in Address : Done(half)[a] = IF a \in s .. s + n - 1 THEN m[s + n - 1 - (a - s)] ELSE m[a]
      <3> SUFFICES ASSUME NEW a \in Address
                   PROVE  Done(half)[a] = IF a \in s .. s + n - 1 THEN m[s + n - 1 - (a - s)] ELSE m[a]
        OBVIOUS
      <3>1. CASE a = s + half /\ n = 2 * half + 1
        BY <1>1, <3>1
      <3>2. CASE ~(a = s + half /\ n = 2 * half + 1)
        BY <1>1, <3>2 DEF Address
      <3> QED
        BY <3>1, <3>2
    <2> QED
      BY <2>1, <2>2
  <1> HIDE DEF swapped, closed, half
  <1> QED
    BY <1>1, <1>3, <1>7, <1>8

(* The digits of a number. *)
LEMMA RestIs ==
    ASSUME NEW v \in Nat, NEW radix \in {10, 16}
    PROVE  /\ Rest(v, radix)[0] = v
           /\ \A i \in 1 .. SIZE : Rest(v, radix)[i] = Rest(v, radix)[i - 1] \div radix
           /\ \A i \in 0 .. SIZE : Rest(v, radix)[i] \in Nat
  <1> DEFINE Is(k, f) == f = [i \in 0 .. k |-> IF i = 0 THEN v ELSE f[i - 1] \div radix]
             S == {k \in Nat : \E f : Is(k, f)}
             newval == CHOOSE f : Is(SIZE, f)
  <1>1. SIZE \in Nat
    BY LibraryAssumption
  <1>2. 0 \in S
    <2>1. Is(0, [i \in 0 .. 0 |-> v])
      OBVIOUS
    <2> QED
      BY <2>1
  <1>3. ASSUME NEW k \in Nat \ {0}, k - 1 \in S PROVE k \in S
    <2>1. PICK f : Is(k - 1, f)
      BY <1>3
    <2> DEFINE g == [i \in 0 .. k |-> IF i = k THEN f[k - 1] \div radix ELSE f[i]]
    <2>2. \A i \in 0 .. k : g[i] = IF i = 0 THEN v ELSE g[i - 1] \div radix
      <3>1. \A i \in 0 .. k - 1 : f[i] = IF i = 0 THEN v ELSE f[i - 1] \div radix
        BY <2>1
      <3> QED
        BY <3>1
    <2>3. g = [i \in 0 .. k |-> g[i]]
      OBVIOUS
    <2> HIDE DEF g
    <2>4. Is(k, g)
      BY <2>2, <2>3
    <2> QED
      BY <2>4
  <1>4. Rest(v, radix) = newval
    BY Zenon DEF Rest
  <1>5. SIZE \in S
    <2> HIDE DEF S
    <2> QED
      BY <1>1, <1>2, <1>3, UpTo
  <1>6. Is(SIZE, newval)
    <2>1. \E f : Is(SIZE, f)
      BY <1>5
    <2> HIDE DEF Is
    <2> QED
      BY <2>1, Zenon
  <1> HIDE DEF newval, S
  <1>7. newval[0] = v /\ \A i \in 1 .. SIZE : newval[i] = newval[i - 1] \div radix
    <2>1. \A i \in 0 .. SIZE : newval[i] = IF i = 0 THEN v ELSE newval[i - 1] \div radix
      BY <1>6
    <2> HIDE DEF Is
    <2> QED
      BY <1>1, <2>1
  <1> HIDE DEF Is
  <1>8. \A i \in 0 .. SIZE : newval[i] \in Nat
    <2> DEFINE N == {i \in 0 .. SIZE : newval[i] \in Nat}
    <2>1. 0 \in N /\ \A i \in 1 .. SIZE : i - 1 \in N => i \in N
      BY <1>1, <1>7
    <2> HIDE DEF N
    <2>2. \A i \in 0 .. SIZE : i \in N
      BY <1>1, <2>1, UpTo
    <2> QED
      BY <2>2 DEF N
  <1> QED
    BY <1>4, <1>7, <1>8

(* Of a smaller number less is left.                                          *)
LEMMA RestGrows ==
    ASSUME NEW v \in Nat, NEW w \in Nat, v <= w, NEW radix \in {10, 16}
    PROVE  \A i \in 0 .. SIZE : Rest(v, radix)[i] <= Rest(w, radix)[i]
  <1> DEFINE f == Rest(v, radix)
             g == Rest(w, radix)
             N == {i \in 0 .. SIZE : f[i] <= g[i]}
  <1>1. SIZE \in Nat
    BY LibraryAssumption
  <1>2. /\ f[0] = v /\ g[0] = w
        /\ \A i \in 1 .. SIZE : f[i] = f[i - 1] \div radix /\ g[i] = g[i - 1] \div radix
        /\ \A i \in 0 .. SIZE : f[i] \in Nat /\ g[i] \in Nat
    BY RestIs
  <1> HIDE DEF f, g
  <1>3. \A x, y \in Nat : x <= y => x \div radix <= y \div radix
    <2>1. CASE radix = 10
      BY <2>1
    <2>2. CASE radix = 16
      BY <2>2
    <2> QED
      BY <2>1, <2>2
  <1>4. 0 \in N /\ \A i \in 1 .. SIZE : i - 1 \in N => i \in N
    BY <1>1, <1>2, <1>3
  <1>5. \A i \in 0 .. SIZE : i \in N
    <2> HIDE DEF N
    <2> QED
      BY <1>1, <1>4, UpTo
  <1> QED
    BY <1>5 DEF f, g

(* How many digits a number has. *)
Long(v, radix, k) ==
    /\ k \in 0 .. SIZE
    /\ Rest(v, radix)[k] = 0
    /\ \A i \in 0 .. k - 1 : Rest(v, radix)[i] > 0

(* Every number has a length, up to its highest digit, and that is at most n.  *)
LEMMA LongIs ==
    ASSUME NEW v \in 0 .. WORD - 1, NEW radix \in {10, 16}, NEW n, Digits(n, radix)
    PROVE  \E k \in 0 .. n : Long(v, radix, k)
  <1> DEFINE f == Rest(v, radix)
             Z == {k \in 0 .. n : f[k] = 0}
  <1>1. SIZE \in Nat /\ WORD \in Nat /\ n \in 1 .. SIZE /\ v \in Nat /\ WORD - 1 \in Nat
    BY LibraryAssumption DEF Digits
  <1>2. f[n] = 0
    <2>1. Rest(WORD - 1, radix)[n] = 0
      BY DEF Digits
    <2>2. f[n] \in Nat /\ f[n] <= Rest(WORD - 1, radix)[n]
      BY <1>1, RestIs, RestGrows
    <2> QED
      BY <2>1, <2>2
  <1>3. Z \subseteq Nat /\ n \in Z
    BY <1>1, <1>2
  <1>4. PICK k \in Z : \A j \in Z : k <= j
    <2> HIDE DEF Z
    <2> QED
      BY <1>3, LeastNat
  <1>5. k \in 0 .. n /\ f[k] = 0 /\ \A i \in 0 .. k - 1 : f[i] \in Nat /\ f[i] # 0
    BY <1>1, <1>4, RestIs
  <1> HIDE DEF f, Z
  <1> QED
    BY <1>1, <1>5 DEF Long, f

LEMMA LookupIs ==
    ASSUME NEW d \in 0 .. 15
    PROVE  /\ lookup(d) \in 48 .. 70 /\ (d > 0 => lookup(d) # 48)
           /\ (IF lookup(d) < 58 THEN lookup(d) - 48 ELSE lookup(d) - 55) = d
  BY DEF lookup

(* The digit of v at place i. *)
Digit(v, radix, i) == lookup(Rest(v, radix)[i] % radix)

LEMMA DigitIs ==
    ASSUME NEW v \in Nat, NEW radix \in {10, 16}, NEW i \in 0 .. SIZE
    PROVE  /\ Rest(v, radix)[i] \in Nat /\ Rest(v, radix)[i] % radix \in 0 .. 15
           /\ Digit(v, radix, i) \in 48 .. 70
  <1>1. Rest(v, radix)[i] \in Nat
    BY RestIs
  <1>2. \A x \in Nat : x % radix \in 0 .. 15
    <2>1. CASE radix = 10
      BY <2>1
    <2>2. CASE radix = 16
      BY <2>2
    <2> QED
      BY <2>1, <2>2
  <1>3. Rest(v, radix)[i] % radix \in 0 .. 15
    BY <1>1, <1>2, Zenon
  <1> QED
    BY <1>1, <1>3, LookupIs, Zenon DEF Digit

(* itoa(), for a number and for zero: the digits from the highest on, and a   *)
(* zero behind them.                                                          *)
Shows(m, buf, v, radix, k) ==
    /\ \A i \in 0 .. k - 1 : m[buf + i] = Digit(v, radix, k - 1 - i)
    /\ m[buf + k] = 0

(* itoa() leaves the digits of a number, the highest first, with a zero byte   *)
(* behind them, and does not touch what is in front of the buffer.            *)
LEMMA ItoaIs ==
    ASSUME NEW m \in [Address -> Octet], NEW v \in Nat \ {0}, NEW radix \in {10, 16},
           NEW k, Long(v, radix, k), NEW buf \in Nat, buf + k < SIZE
    PROVE  /\ Shows(Itoa(m, v, buf, radix), buf, v, radix, k)
           /\ \A a \in Address : a < buf => Itoa(m, v, buf, radix)[a] = m[a]
           /\ Itoa(m, v, buf, radix) \in [Address -> Octet]
  <1> DEFINE newval == Rest(v, radix)
             IsEnd(n) == newval[n - 1] > 0 /\ newval[n] = 0
             low == [a \in Address |-> IF a \in buf .. buf + k - 1 THEN lookup(newval[a - buf] % radix)
                                       ELSE IF a = buf + k THEN 0 ELSE m[a]]
  <1>1. SIZE \in Nat
    BY LibraryAssumption
  <1>2. /\ newval[0] = v /\ \A i \in 0 .. SIZE : newval[i] \in Nat
        /\ \A i \in 1 .. SIZE : newval[i] = newval[i - 1] \div radix
    BY RestIs
  <1>3. k \in 1 .. SIZE /\ newval[k] = 0 /\ \A i \in 0 .. k - 1 : newval[i] > 0
    <2> HIDE DEF newval
    <2>1. k \in 0 .. SIZE /\ newval[k] = 0 /\ \A i \in 0 .. k - 1 : newval[i] > 0
      BY DEF Long, newval
    <2> QED
      BY <1>2, <2>1
  <1>4. (CHOOSE n \in 1 .. SIZE : IsEnd(n)) = k
    <2> DEFINE Z == {i \in 0 .. SIZE : i >= k => newval[i] = 0}
    <2> HIDE DEF newval
    <2>1. 0 \div radix = 0
      OBVIOUS
    <2>2. 0 \in Z /\ \A i \in 1 .. SIZE : i - 1 \in Z => i \in Z
      <3>1. 0 \in Z
        BY <1>1, <1>3
      <3>2. ASSUME NEW i \in 1 .. SIZE, i - 1 \in Z PROVE i \in Z
        <4>1. CASE i <= k
          BY <1>3, <4>1
        <4>2. CASE ~(i <= k)
          <5>1. newval[i - 1] = 0
            BY <1>3, <3>2, <4>2
          <5> QED
            BY <1>2, <2>1, <5>1
        <4> QED
          BY <4>1, <4>2
      <3> QED
        BY <3>1, <3>2
    <2>3. \A i \in 0 .. SIZE : i \in Z
      <3> HIDE DEF Z
      <3> QED
        BY <1>1, <2>2, UpTo
    <2>4. IsEnd(k)
      BY <1>3
    <2>5. ASSUME NEW n \in 1 .. SIZE, IsEnd(n) PROVE n = k
      <3>1. ~(n < k)
        BY <1>3, <2>5
      <3>2. ~(n > k)
        <4>1. n > k => n - 1 \in 0 .. SIZE /\ n - 1 >= k
          BY <1>1, <1>3
        <4>2. n > k => newval[n - 1] = 0
          BY <2>3, <4>1
        <4> QED
          BY <2>5, <4>2
      <3> QED
        BY <1>3, <3>1, <3>2
    <2> HIDE DEF IsEnd
    <2> QED
      BY <1>3, <2>4, <2>5
  <1>5. Itoa(m, v, buf, radix) = StrRev(low, buf)
    <2> DEFINE n0 == CHOOSE n \in 1 .. SIZE : IsEnd(n)
    <2>1. Itoa(m, v, buf, radix)
            = StrRev([a \in Address |-> IF a \in buf .. buf + n0 - 1 THEN lookup(newval[a - buf] % radix)
                                        ELSE IF a = buf + n0 THEN 0 ELSE m[a]], buf)
      BY Zenon DEF Itoa
    <2>2. n0 = k
      BY <1>4
    <2> HIDE DEF n0, newval, IsEnd
    <2> QED
      BY <2>1, <2>2, Zenon
  <1>6. /\ \A i \in 0 .. k - 1 : low[buf + i] = Digit(v, radix, i)
        /\ low[buf + k] = 0
        /\ \A a \in Address : a < buf => low[a] = m[a]
    <2>1. \A i \in 0 .. k - 1 : buf + i \in Address /\ buf + i \in buf .. buf + k - 1 /\ buf + i - buf = i
      BY <1>1, <1>3 DEF Address
    <2>2. buf + k \in Address /\ buf + k \notin buf .. buf + k - 1
      BY <1>1, <1>3 DEF Address
    <2>3. \A a \in Address : a < buf => a \notin buf .. buf + k - 1 /\ a # buf + k
      BY <1>1, <1>3 DEF Address
    <2> HIDE DEF newval
    <2> QED
      BY <2>1, <2>2, <2>3 DEF Digit, newval
  <1>7. ASSUME NEW i \in 0 .. k - 1 PROVE Digit(v, radix, i) \in 48 .. 70
    <2>1. i \in 0 .. SIZE /\ v \in Nat
      BY <1>1, <1>3
    <2> QED
      BY <2>1, DigitIs, Zenon
  <1>8. low \in [Address -> Octet]
    <2>1. \A a \in Address : a \in buf .. buf + k - 1 => lookup(newval[a - buf] % radix) \in Octet
      <3> SUFFICES ASSUME NEW a \in buf .. buf + k - 1 PROVE lookup(newval[a - buf] % radix) \in Octet
        OBVIOUS
      <3>1. a - buf \in 0 .. k - 1
        BY <1>3
      <3> QED
        BY <1>7, <3>1 DEF Digit, Octet
    <2> QED
      BY <2>1 DEF Octet
  <1> HIDE DEF low, newval
  <1>9. StrLen(low, buf) = k
    <2>1. \A i \in 0 .. k - 1 : low[buf + i] # 0
      BY <1>6, <1>7
    <2>2. k \in Nat /\ low[buf + k] = 0
      BY <1>3, <1>6
    <2> QED
      BY <2>1, <2>2, StrLenAt
  <1>10. StrRev(low, buf) = [a \in Address |-> IF a \in buf .. buf + k - 1
                                              THEN low[buf + k - 1 - (a - buf)] ELSE low[a]]
    BY <1>3, <1>8, <1>9, StrRevIs
  <1> DEFINE r == StrRev(low, buf)
  <1>11. \A i \in 0 .. k - 1 : r[buf + i] = Digit(v, radix, k - 1 - i)
    <2> SUFFICES ASSUME NEW i \in 0 .. k - 1 PROVE r[buf + i] = Digit(v, radix, k - 1 - i)
      OBVIOUS
    <2>1. /\ buf + i \in Address /\ buf + i \in buf .. buf + k - 1 /\ k - 1 - i \in 0 .. k - 1
          /\ buf + k - 1 - (buf + i - buf) = buf + (k - 1 - i)
      BY <1>1, <1>3 DEF Address
    <2> QED
      BY <1>6, <1>10, <2>1
  <1>12. r[buf + k] = 0 /\ \A a \in Address : a < buf => r[a] = m[a]
    BY <1>1, <1>3, <1>6, <1>10 DEF Address
  <1>13. r \in [Address -> Octet]
    <2>1. \A a \in Address : a \in buf .. buf + k - 1 => buf + k - 1 - (a - buf) \in Address
      BY <1>1, <1>3 DEF Address
    <2> QED
      BY <1>8, <1>10, <2>1
  <1> QED
    BY <1>5, <1>11, <1>12, <1>13 DEF Shows

LEMMA ItoaZero ==
    ASSUME NEW m \in [Address -> Octet], NEW radix, NEW buf \in Nat, buf + 1 < SIZE
    PROVE  /\ Itoa(m, 0, buf, radix)[buf] = 48 /\ Itoa(m, 0, buf, radix)[buf + 1] = 0
           /\ Itoa(m, 0, buf, radix) \in [Address -> Octet]
           /\ \A a \in Address : a < buf => Itoa(m, 0, buf, radix)[a] = m[a]
  <1>1. Itoa(m, 0, buf, radix) = [m EXCEPT ![buf] = 48, ![buf + 1] = 0]
    BY DEF Itoa
  <1>2. buf \in Address /\ buf + 1 \in Address
    BY LibraryAssumption DEF Address
  <1>3. buf # buf + 1 /\ \A a \in Address : a < buf => a # buf /\ a # buf + 1
    BY DEF Address
  <1>4. 48 \in Octet /\ 0 \in Octet
    BY DEF Octet
  <1> QED
    BY <1>1, <1>2, <1>3, <1>4

(* A numeral: zeros, and the digits.  It reads as the number. *)
Numeral(t, v, radix, z, k) ==
    /\ t \in Seq(Octet) /\ Len(t) = z + k
    /\ \A i \in 1 .. z : t[i] = 48
    /\ \A i \in 1 .. k : t[z + i] = Digit(v, radix, k - i)

(* What has been read after each digit is what is left of the number after    *)
(* the digits to come.                                                        *)
LEMMA NumeralReads ==
    ASSUME NEW v \in Nat, NEW radix \in {10, 16}, NEW z \in Nat, NEW k \in 0 .. SIZE,
           Rest(v, radix)[k] = 0, NEW t, Numeral(t, v, radix, z, k)
    PROVE  Reads(t, radix) = v
  <1> DEFINE newval == Rest(v, radix)
             Value(i) == IF t[i] < 58 THEN t[i] - 48 ELSE t[i] - 55
             Is(f) == f = [i \in 0 .. Len(t) |-> IF i = 0 THEN 0 ELSE f[i - 1] * radix + Value(i)]
             Done(i) == IF i <= z THEN 0 ELSE newval[k - (i - z)]
             closed == [i \in 0 .. Len(t) |-> Done(i)]
             read == CHOOSE f : Is(f)
  <1>1. SIZE \in Nat /\ Len(t) = z + k /\ Len(t) \in Nat
    BY LibraryAssumption DEF Numeral
  <1>2. /\ newval[0] = v /\ newval[k] = 0 /\ \A i \in 0 .. SIZE : newval[i] \in Nat
        /\ \A i \in 1 .. SIZE : newval[i] = newval[i - 1] \div radix
    BY RestIs
  <1>3. Reads(t, radix) = read[Len(t)]
    BY Zenon DEF Reads
  <1>4. \A i \in 1 .. z : Value(i) = 0
    BY DEF Numeral
  <1>5. \A i \in 1 .. k : Value(z + i) = newval[k - i] % radix
    <2> SUFFICES ASSUME NEW i \in 1 .. k PROVE Value(z + i) = newval[k - i] % radix
      OBVIOUS
    <2>1. k - i \in 0 .. SIZE
      BY <1>1
    <2>2. t[z + i] = lookup(newval[k - i] % radix) /\ newval[k - i] % radix \in 0 .. 15
      BY <2>1, DigitIs DEF Numeral, Digit
    <2> HIDE DEF newval
    <2> QED
      BY <2>2, LookupIs
  <1> HIDE DEF newval, Value
  <1>6. \A x \in Nat : (x \div radix) * radix + (x % radix) = x
    <2>1. CASE radix = 10
      BY <2>1
    <2>2. CASE radix = 16
      BY <2>2
    <2> QED
      BY <2>1, <2>2
  <1>7. \A i \in 1 .. Len(t) : Done(i) = Done(i - 1) * radix + Value(i)
    <2> SUFFICES ASSUME NEW i \in 1 .. Len(t)
                 PROVE  Done(i) = Done(i - 1) * radix + Value(i)
      OBVIOUS
    <2>1. CASE i <= z
      BY <1>1, <1>4, <2>1
    <2>2. CASE ~(i <= z)
      <3> DEFINE j == i - z
      <3>1. /\ j \in 1 .. k /\ i = z + j /\ k - j \in 0 .. SIZE /\ k - j + 1 \in 1 .. SIZE
            /\ k - (i - 1 - z) = k - j + 1 /\ k - (i - z) = k - j
        BY <1>1, <2>2
      <3>2. Done(i) = newval[k - j] /\ Value(i) = newval[k - j] % radix
        BY <1>5, <2>2, <3>1
      <3>3. Done(i - 1) = newval[k - j + 1]
        <4>1. CASE i - 1 <= z
          <5>1. j = 1 /\ k - j + 1 = k
            BY <1>1, <2>2, <3>1, <4>1
          <5> QED
            BY <1>2, <4>1, <5>1
        <4>2. CASE ~(i - 1 <= z)
          BY <3>1, <4>2
        <4> QED
          BY <4>1, <4>2
      <3>4. newval[k - j + 1] = newval[k - j] \div radix /\ newval[k - j] \in Nat
        <4>1. k - j + 1 - 1 = k - j
          BY <3>1
        <4> QED
          BY <1>2, <3>1, <4>1
      <3> HIDE DEF j, Done
      <3> QED
        BY <1>6, <3>2, <3>3, <3>4
    <2> QED
      BY <2>1, <2>2
  <1>8. Done(0) = 0
    OBVIOUS
  <1>9. Is(closed)
    <2> HIDE DEF Done
    <2>1. \A i \in 0 .. Len(t) : closed[i] = Done(i)
      OBVIOUS
    <2>2. closed = [i \in 0 .. Len(t) |-> closed[i]]
      OBVIOUS
    <2> HIDE DEF closed
    <2>3. \A i \in 0 .. Len(t) : closed[i] = IF i = 0 THEN 0 ELSE closed[i - 1] * radix + Value(i)
      BY <1>1, <1>7, <1>8, <2>1
    <2> QED
      BY <2>2, <2>3
  <1>10. Is(read)
    <2> HIDE DEF Is
    <2> QED
      BY <1>9, Zenon
  <1>11. \A i \in 0 .. Len(t) : read[i] = closed[i]
    <2> HIDE DEF read, closed, Done
    <2>1. read[0] = closed[0]
      BY <1>1, <1>9, <1>10
    <2>2. \A i \in 1 .. Len(t) : /\ read[i] = read[i - 1] * radix + Value(i)
                                /\ closed[i] = closed[i - 1] * radix + Value(i)
      BY <1>1, <1>9, <1>10
    <2>3. \A i \in 1 .. Len(t) : read[i - 1] = closed[i - 1] => read[i] = closed[i]
      BY <2>2, Zenon
    <2>4. Len(t) \in Nat
      BY <1>1
    <2> DEFINE n == Len(t)
    <2>5. /\ n \in Nat /\ \A i \in 1 .. n : read[i - 1] = closed[i - 1] => read[i] = closed[i]
      BY <2>3, <2>4
    <2> HIDE DEF n
    <2>6. \A i \in 0 .. n : read[i] = closed[i]
      BY <2>1, <2>5, SameRecursion
    <2> QED
      BY <2>6 DEF n
  <1>12. closed[Len(t)] = v
    <2>1. closed[Len(t)] = Done(z + k)
      BY <1>1
    <2>2. Done(z + k) = v
      <3>1. CASE k = 0
        BY <1>2, <3>1
      <3>2. CASE k # 0
        BY <1>2, <3>2
      <3> QED
        BY <3>1, <3>2
    <2> QED
      BY <2>1, <2>2
  <1> HIDE DEF read, closed
  <1> QED
    BY <1>1, <1>3, <1>11, <1>12

(* The text at a place of the memory: a numeral, if there is one.            *)
LEMMA StringIs ==
    ASSUME NEW m \in [Address -> Octet], NEW s \in Nat, NEW n \in Nat, s + n < SIZE,
           m[s + n] = 0, \A i \in 0 .. n - 1 : m[s + i] # 0
    PROVE  /\ String(m, s) \in Seq(Octet) /\ Len(String(m, s)) = n
           /\ \A i \in 1 .. n : String(m, s)[i] = m[s + i - 1]
  <1>1. String(m, s) = [i \in 1 .. n |-> m[s + i - 1]]
    BY StrLenAt DEF String
  <1>2. \A i \in 1 .. n : s + i - 1 \in Address
    BY LibraryAssumption DEF Address
  <1> DEFINE t == [i \in 1 .. n |-> m[s + i - 1]]
  <1>3. t \in [1 .. n -> Octet]
    BY <1>2
  <1> HIDE DEF t
  <1>4. t \in Seq(Octet) /\ Len(t) = n
    BY <1>3
  <1> QED
    BY <1>1, <1>4 DEF t

(* A buffer with zeros and the digits of a number is a numeral.               *)
LEMMA NumberShown ==
    ASSUME NEW m \in [Address -> Octet], NEW v \in Nat, NEW radix \in {10, 16},
           NEW k, Long(v, radix, k), NEW buf \in Nat, NEW z \in Nat, buf + z + k < SIZE,
           Shows(m, buf + z, v, radix, k), \A i \in 0 .. z - 1 : m[buf + i] = 48
    PROVE  Numeral(String(m, buf), v, radix, z, k)
  <1>1. k \in Nat /\ \A i \in 0 .. k - 1 : Digit(v, radix, k - 1 - i) \in 48 .. 70
    <2>1. SIZE \in Nat /\ k \in 0 .. SIZE
      BY LibraryAssumption DEF Long
    <2>2. \A i \in 0 .. k - 1 : k - 1 - i \in 0 .. SIZE
      BY <2>1
    <2> QED
      BY <2>1, <2>2, DigitIs
  <1> DEFINE n == z + k
             t == String(m, buf)
  <1>2. \A i \in 0 .. n - 1 : m[buf + i] = IF i < z THEN 48 ELSE Digit(v, radix, k - 1 - (i - z))
    <2> SUFFICES ASSUME NEW i \in 0 .. n - 1
                 PROVE  m[buf + i] = IF i < z THEN 48 ELSE Digit(v, radix, k - 1 - (i - z))
      OBVIOUS
    <2>1. CASE i < z
      BY <2>1
    <2>2. CASE ~(i < z)
      <3>1. i - z \in 0 .. k - 1 /\ buf + z + (i - z) = buf + i
        BY <1>1, <2>2
      <3> QED
        BY <2>2, <3>1 DEF Shows
    <2> QED
      BY <2>1, <2>2
  <1>3. n \in Nat /\ buf + n < SIZE /\ m[buf + n] = 0
    <2>1. buf + z + k = buf + n
      BY <1>1
    <2> QED
      BY <1>1, <2>1 DEF Shows
  <1>4. \A i \in 0 .. n - 1 : m[buf + i] # 0
    <2> SUFFICES ASSUME NEW i \in 0 .. n - 1 PROVE m[buf + i] # 0
      OBVIOUS
    <2>1. i >= z => i - z \in 0 .. k - 1
      BY <1>1
    <2> QED
      BY <1>1, <1>2, <2>1
  <1> HIDE DEF n
  <1>5. t \in Seq(Octet) /\ Len(t) = n /\ \A i \in 1 .. n : t[i] = m[buf + i - 1]
    BY <1>3, <1>4, StringIs
  <1> HIDE DEF t
  <1>6. \A i \in 1 .. z : t[i] = 48
    <2> SUFFICES ASSUME NEW i \in 1 .. z PROVE t[i] = 48
      OBVIOUS
    <2>1. i \in 1 .. n /\ i - 1 \in 0 .. z - 1 /\ buf + i - 1 = buf + (i - 1)
      BY <1>1 DEF n
    <2> QED
      BY <1>5, <2>1
  <1>7. \A i \in 1 .. k : t[z + i] = Digit(v, radix, k - i)
    <2> SUFFICES ASSUME NEW i \in 1 .. k PROVE t[z + i] = Digit(v, radix, k - i)
      OBVIOUS
    <2>1. /\ z + i \in 1 .. n /\ z + i - 1 \in 0 .. n - 1 /\ ~(z + i - 1 < z)
          /\ k - 1 - (z + i - 1 - z) = k - i /\ buf + (z + i) - 1 = buf + (z + i - 1)
      BY <1>1 DEF n
    <2>2. t[z + i] = m[buf + (z + i - 1)]
      BY <1>5, <2>1, Zenon
    <2>3. m[buf + (z + i - 1)] = Digit(v, radix, k - 1 - (z + i - 1 - z))
      <3> DEFINE j == z + i - 1
      <3>1. j \in 0 .. n - 1 /\ ~(j < z)
        BY <2>1
      <3> HIDE DEF j
      <3>2. m[buf + j] = Digit(v, radix, k - 1 - (j - z))
        BY <1>2, <3>1
      <3> QED
        BY <3>2 DEF j
    <2> QED
      BY <2>1, <2>2, <2>3, Zenon
  <1> QED
    BY <1>5, <1>6, <1>7 DEF Numeral, n, t

(* What %u, %x, %#x and %d print. *)
LEMMA LongZero ==
    ASSUME NEW radix \in {10, 16}
    PROVE  Long(0, radix, 0)
  BY LibraryAssumption, RestIs DEF Long

(* itoa() writes a numeral without zeros in front of it, "0" for zero.       *)
LEMMA ItoaNumeral ==
    ASSUME NEW m \in [Address -> Octet], NEW v \in 0 .. WORD - 1, NEW radix \in {10, 16},
           NEW n, Digits(n, radix), NEW buf \in Nat, buf + n < SIZE
    PROVE  LET r == Itoa(m, v, buf, radix)
           IN \E k \in 0 .. n, z \in {0, 1} :
                /\ Long(v, radix, k) /\ z + k <= n
                /\ Shows(r, buf + z, v, radix, k)
                /\ z = 1 => k = 0 /\ r[buf] = 48
                /\ z = 0 => k > 0
                /\ r \in [Address -> Octet]
                /\ \A a \in Address : a < buf => r[a] = m[a]
  <1> DEFINE r == Itoa(m, v, buf, radix)
  <1>1. n \in 1 .. SIZE /\ SIZE \in Nat /\ v \in Nat
    BY LibraryAssumption DEF Digits
  <1>2. CASE v = 0
    <2>1. /\ r[buf] = 48 /\ r[buf + 1] = 0 /\ r \in [Address -> Octet]
          /\ \A a \in Address : a < buf => r[a] = m[a]
      BY <1>1, <1>2, ItoaZero
    <2>2. Long(v, radix, 0)
      BY <1>2, LongZero
    <2> HIDE DEF r
    <2>3. Shows(r, buf + 1, v, radix, 0)
      BY <2>1 DEF Shows
    <2>4. 0 \in 0 .. n /\ 1 + 0 <= n
      BY <1>1
    <2> QED
      BY <2>1, <2>2, <2>3, <2>4 DEF r
  <1>3. CASE v # 0
    <2>1. PICK k \in 0 .. n : Long(v, radix, k)
      BY LongIs
    <2>2. k \in Nat /\ buf + k < SIZE /\ v \in Nat \ {0} /\ buf + 0 = buf
      BY <1>1, <1>3
    <2>3. k > 0
      <3>1. Rest(v, radix)[0] = v
        BY <1>1, RestIs
      <3> QED
        BY <1>3, <2>2, <3>1, <2>1 DEF Long
    <2>4. /\ Shows(r, buf, v, radix, k)
          /\ \A a \in Address : a < buf => r[a] = m[a]
          /\ r \in [Address -> Octet]
      BY <2>1, <2>2, ItoaIs
    <2> HIDE DEF r
    <2>5. Shows(r, buf + 0, v, radix, k) /\ 0 + k <= n
      BY <1>1, <2>2, <2>4
    <2> QED
      BY <2>1, <2>3, <2>4, <2>5 DEF r
  <1> QED
    BY <1>2, <1>3

(* The first digit of a number is not 0. *)
LEMMA FirstDigit ==
    ASSUME NEW v \in Nat, NEW radix \in {10, 16}, NEW k, Long(v, radix, k), k > 0
    PROVE  Digit(v, radix, k - 1) \in 49 .. 70
  <1> DEFINE x == Rest(v, radix)[k - 1]
  <1>1. SIZE \in Nat /\ k \in 1 .. SIZE /\ k - 1 \in 0 .. k - 1 /\ k - 1 \in 0 .. SIZE
    BY LibraryAssumption DEF Long
  <1>2. x \in Nat /\ x > 0 /\ x \div radix = 0
    BY <1>1, RestIs DEF Long
  <1>3. x % radix \in 1 .. 15
    <2> HIDE DEF x
    <2>1. CASE radix = 10
      BY <1>2, <2>1
    <2>2. CASE radix = 16
      BY <1>2, <2>2
    <2> QED
      BY <2>1, <2>2
  <1> HIDE DEF x
  <1>4. lookup(x % radix) \in 49 .. 70
    BY <1>3 DEF lookup
  <1> QED
    BY <1>4 DEF Digit, x

(* %u and %x read back as the number, without a zero in front.                *)
LEMMA UnsignedReads ==
    ASSUME NEW m \in [Address -> Octet], NEW v \in 0 .. WORD - 1, NEW radix \in {10, 16},
           NEW n, Digits(n, radix), n < SIZE
    PROVE  LET t == Unsigned(m, v, radix)
           IN /\ t \in Seq(Octet)
              /\ Reads(t, radix) = v
              /\ Len(t) > 1 => t[1] # 48
              /\ t[1] \in 48 .. 70
  <1> DEFINE r == Itoa(m, v, 0, radix)
             t == Unsigned(m, v, radix)
  <1>1. n \in 1 .. SIZE /\ SIZE \in Nat /\ v \in Nat /\ 0 + n < SIZE /\ 0 \in Nat
    BY LibraryAssumption DEF Digits
  <1>2. PICK k \in 0 .. n, z \in {0, 1} :
          /\ Long(v, radix, k) /\ z + k <= n
          /\ Shows(r, 0 + z, v, radix, k)
          /\ z = 1 => k = 0 /\ r[0] = 48
          /\ z = 0 => k > 0
          /\ r \in [Address -> Octet]
    BY <1>1, ItoaNumeral
  <1>3. t = String(r, 0)
    BY DEF Unsigned
  <1> HIDE DEF r, t
  <1>4. z \in Nat /\ k \in 0 .. SIZE /\ 0 + z + k < SIZE /\ \A i \in 0 .. z - 1 : r[0 + i] = 48
    BY <1>1, <1>2
  <1>5. Numeral(t, v, radix, z, k)
    BY <1>1, <1>2, <1>3, <1>4, NumberShown
  <1>6. t \in Seq(Octet) /\ Reads(t, radix) = v
    <2>1. Rest(v, radix)[k] = 0
      BY <1>2 DEF Long
    <2>2. t \in Seq(Octet)
      BY <1>5 DEF Numeral
    <2> QED
      BY <1>1, <1>4, <1>5, <2>1, <2>2, NumeralReads
  <1>7. CASE z = 1
    <2>1. t[1] = 48 /\ Len(t) = 1
      BY <1>2, <1>5, <1>7 DEF Numeral
    <2> QED
      BY <1>6, <2>1 DEF t
  <1>8. CASE z = 0
    <2>1. t[1] = Digit(v, radix, k - 1)
      <3>1. 1 \in 1 .. k /\ z + 1 = 1
        BY <1>2, <1>8
      <3> QED
        BY <1>5, <3>1 DEF Numeral
    <2>2. Digit(v, radix, k - 1) \in 49 .. 70
      BY <1>1, <1>2, <1>8, FirstDigit
    <2>3. t[1] # 48 /\ t[1] \in 48 .. 70
      BY <2>1, <2>2
    <2> QED
      BY <1>6, <2>3 DEF t
  <1> QED
    BY <1>7, <1>8

(* %#x has eight digits: the zeros end where the digits of itoa() begin.      *)
LEMMA AlignedReads ==
    ASSUME NEW m \in [Address -> Octet], NEW v \in 0 .. WORD - 1
    PROVE  LET t == AlignedHex(m, v)
           IN t \in Seq(Octet) /\ Reads(t, 16) = v /\ Len(t) = 8
  <1> DEFINE n == IF SIZE - 9 < 8 THEN SIZE - 9 ELSE 8
             r == Itoa(m, v, 8, 16)
             start == StrLen(r, 8)
             conv == [a \in Address |-> IF a \in start .. 7 THEN 48 ELSE r[a]]
             t == AlignedHex(m, v)
  <1>1. Digits(n, 16) /\ SIZE \in Nat /\ v \in Nat
    BY LibraryAssumption
  <1>2. n \in Nat /\ n <= 8 /\ 8 + n < SIZE
    BY <1>1 DEF Digits
  <1>3. t = String(conv, start)
    BY DEF AlignedHex
  <1> HIDE DEF n, t
  <1>4. PICK k \in 0 .. n, z \in {0, 1} :
          /\ Long(v, 16, k) /\ z + k <= n
          /\ Shows(r, 8 + z, v, 16, k)
          /\ z = 1 => k = 0 /\ r[8] = 48
          /\ z = 0 => k > 0
          /\ r \in [Address -> Octet]
    BY <1>1, <1>2, ItoaNumeral
  <1> HIDE DEF r
  <1>5. /\ k \in Nat /\ k \in 0 .. SIZE /\ \A i \in 0 .. k - 1 : k - 1 - i \in 0 .. SIZE
        /\ z \in Nat /\ z + k \in Nat /\ 8 + (z + k) < SIZE /\ z + k <= 8
    <2>1. k \in Nat /\ k \in 0 .. SIZE
      BY <1>1, <1>4 DEF Long
    <2>2. z + k <= n
      BY <1>4
    <2> QED
      BY <1>1, <1>2, <2>1, <2>2
  <1>6. start = z + k
    <2>1. \A i \in 0 .. z + k - 1 : r[8 + i] # 0
      <3>1. CASE z = 1
        BY <1>4, <3>1
      <3>2. CASE z = 0
        <4>1. \A i \in 0 .. k - 1 : Digit(v, 16, k - 1 - i) \in 48 .. 70
          BY <1>1, <1>5, DigitIs
        <4>2. \A i \in 0 .. k - 1 : r[8 + i] = Digit(v, 16, k - 1 - i)
          BY <1>4, <3>2 DEF Shows
        <4> QED
          BY <3>2, <4>1, <4>2
      <3> QED
        BY <3>1, <3>2
    <2>2. r[8 + (z + k)] = 0 /\ z + k \in Nat /\ 8 + (z + k) < SIZE
      <3>1. 8 + z + k = 8 + (z + k)
        BY <1>5
      <3>2. r[8 + z + k] = 0
        BY <1>4 DEF Shows
      <3> QED
        BY <1>5, <3>1, <3>2
    <2> QED
      BY <2>1, <2>2, StrLenAt
  <1> HIDE DEF start
  <1>7. conv \in [Address -> Octet]
    BY <1>4 DEF Octet
  <1>8. /\ start \in Nat /\ 8 - k \in Nat /\ start + (8 - k) + k < SIZE
        /\ start + (8 - k) = 8 + z
    BY <1>5, <1>6
  <1>9. Shows(conv, 8 + z, v, 16, k)
    <2>1. \A i \in 0 .. k : 8 + z + i \in Address /\ 8 + z + i \notin start .. 7
      BY <1>1, <1>2, <1>4, <1>5 DEF Address
    <2>2. \A i \in 0 .. k : conv[8 + z + i] = r[8 + z + i]
      BY <2>1
    <2> QED
      BY <1>4, <1>5, <2>2 DEF Shows
  <1>10. \A i \in 0 .. 8 - k - 1 : conv[start + i] = 48
    <2> SUFFICES ASSUME NEW i \in 0 .. 8 - k - 1 PROVE conv[start + i] = 48
      OBVIOUS
    <2>1. start + i \in Address
      BY <1>1, <1>2, <1>5, <1>8 DEF Address
    <2>2. CASE start + i <= 7
      BY <1>8, <2>1, <2>2
    <2>3. CASE ~(start + i <= 7)
      <3>1. start + i = 8 /\ z = 1
        BY <1>4, <1>5, <1>6, <2>3
      <3> QED
        BY <1>4, <2>1, <3>1
    <2> QED
      BY <2>2, <2>3
  <1> HIDE DEF conv
  <1>11. Numeral(t, v, 16, 8 - k, k)
    BY <1>1, <1>3, <1>4, <1>7, <1>8, <1>9, <1>10, NumberShown
  <1>12. t \in Seq(Octet) /\ Len(t) = 8
    BY <1>5, <1>8, <1>11 DEF Numeral
  <1>13. Reads(t, 16) = v
    <2>1. Rest(v, 16)[k] = 0
      BY <1>4 DEF Long
    <2> QED
      BY <1>1, <1>5, <1>8, <1>11, <2>1, NumeralReads
  <1> QED
    BY <1>12, <1>13 DEF t

(* %d has a sign for the upper half of the numbers, and then their complement. *)
LEMMA SignedReads ==
    ASSUME NEW m \in [Address -> Octet], NEW v \in 0 .. WORD - 1
    PROVE  LET t == Signed(m, v)
           IN /\ t \in Seq(Octet)
              /\ IF t[1] = 45 THEN WORD - Reads(Tail(t), 10) = v
                              ELSE Reads(t, 10) = v /\ v < WORD \div 2
  <1> DEFINE t == Signed(m, v)
  <1>1. /\ SIZE \in Nat /\ WORD \in Nat /\ WORD >= 2 /\ Digits(SIZE - 2, 10) /\ v \in Nat
        /\ WORD \div 2 \in Nat /\ WORD \div 2 >= 1
    BY LibraryAssumption
  <1>2. SIZE - 2 \in Nat /\ 1 + (SIZE - 2) < SIZE /\ SIZE - 2 < SIZE /\ SIZE > 2
    BY <1>1 DEF Digits
  <1>3. CASE v >= WORD \div 2
    <2> DEFINE w == WORD - v
               sign == [m EXCEPT ![0] = 45]
               r == Itoa(sign, w, 1, 10)
    <2>1. w \in 0 .. WORD - 1 /\ w \in Nat /\ w # 0 /\ WORD - w = v
      BY <1>1, <1>3
    <2>2. t = String(r, 0)
      BY <1>3 DEF Signed
    <2>3. 0 \in Address /\ sign \in [Address -> Octet] /\ sign[0] = 45
      BY <1>1, <1>2 DEF Address, Octet
    <2> HIDE DEF sign, w, t
    <2>4. PICK k \in 0 .. SIZE - 2, z \in {0, 1} :
            /\ Long(w, 10, k) /\ z + k <= SIZE - 2
            /\ Shows(r, 1 + z, w, 10, k)
            /\ z = 1 => k = 0
            /\ z = 0 => k > 0
            /\ r \in [Address -> Octet]
            /\ \A a \in Address : a < 1 => r[a] = sign[a]
      BY <1>1, <1>2, <2>1, <2>3, ItoaNumeral
    <2> HIDE DEF r
    <2>5. z = 0 /\ k \in Nat /\ k \in 0 .. SIZE
      <3>1. Rest(w, 10)[0] = w
        BY <2>1, RestIs
      <3>2. k # 0
        BY <2>1, <2>4, <3>1 DEF Long
      <3> QED
        BY <1>1, <1>2, <2>4, <3>2
    <2>6. \A i \in 0 .. k - 1 : r[1 + i] = Digit(w, 10, k - 1 - i) /\ r[1 + i] \in 48 .. 70
      <3>1. \A i \in 0 .. k - 1 : k - 1 - i \in 0 .. SIZE
        BY <1>1, <2>5
      <3>2. \A i \in 0 .. k - 1 : Digit(w, 10, k - 1 - i) \in 48 .. 70
        BY <2>1, <3>1, DigitIs
      <3>3. \A i \in 0 .. k - 1 : r[1 + i] = Digit(w, 10, k - 1 - i)
        BY <2>4, <2>5 DEF Shows
      <3> QED
        BY <3>2, <3>3
    <2>7. r[0] = 45 /\ r[1 + k] = 0
      <3>1. 1 + 0 + k = 1 + k
        BY <2>5
      <3> QED
        BY <2>3, <2>4, <2>5, <3>1 DEF Shows
    <2>8. \A i \in 0 .. (k + 1) - 1 : r[0 + i] # 0
      <3> SUFFICES ASSUME NEW i \in 0 .. (k + 1) - 1 PROVE r[0 + i] # 0
        OBVIOUS
      <3>1. i = 0 \/ (i - 1 \in 0 .. k - 1 /\ 1 + (i - 1) = 0 + i)
        BY <2>5
      <3> QED
        BY <2>6, <2>7, <3>1
    <2>9. /\ t \in Seq(Octet) /\ Len(t) = k + 1
          /\ \A i \in 1 .. k + 1 : t[i] = r[0 + i - 1]
      <3>1. 0 \in Nat /\ k + 1 \in Nat /\ 0 + (k + 1) < SIZE /\ 0 + (k + 1) = 1 + k
        BY <1>1, <1>2, <2>5
      <3> QED
        BY <2>2, <2>4, <2>7, <2>8, <3>1, StringIs
    <2>10. t[1] = 45
      BY <2>5, <2>7, <2>9
    <2>11. Numeral(Tail(t), w, 10, 0, k)
      <3>1. t # <<>> /\ Tail(t) \in Seq(Octet) /\ Len(Tail(t)) = k /\ \A i \in 1 .. k : Tail(t)[i] = t[i + 1]
        BY <2>5, <2>9
      <3>2. \A i \in 1 .. k : t[i + 1] = Digit(w, 10, k - i)
        <4> SUFFICES ASSUME NEW i \in 1 .. k PROVE t[i + 1] = Digit(w, 10, k - i)
          OBVIOUS
        <4>1. /\ i + 1 \in 1 .. k + 1 /\ 0 + (i + 1) - 1 = 1 + (i - 1)
              /\ i - 1 \in 0 .. k - 1 /\ k - 1 - (i - 1) = k - i
          BY <2>5
        <4> QED
          BY <2>6, <2>9, <4>1
      <3>3. \A i \in 1 .. k : Tail(t)[0 + i] = Digit(w, 10, k - i)
        BY <3>1, <3>2
      <3> QED
        BY <2>5, <3>1, <3>3 DEF Numeral
    <2>12. Reads(Tail(t), 10) = w
      <3>1. Rest(w, 10)[k] = 0
        BY <2>4 DEF Long
      <3> QED
        BY <2>1, <2>5, <2>11, <3>1, NumeralReads
    <2> QED
      BY <2>1, <2>9, <2>10, <2>12 DEF t
  <1>4. CASE ~(v >= WORD \div 2)
    <2>1. t = Unsigned(m, v, 10)
      BY <1>4 DEF Signed
    <2>2. t \in Seq(Octet) /\ Reads(t, 10) = v /\ t[1] \in 48 .. 70
      BY <1>1, <1>2, <2>1, UnsignedReads
    <2>3. t[1] # 45 /\ v < WORD \div 2
      <3>1. t[1] # 45
        <4>1. \A c \in 48 .. 70 : c # 45
          OBVIOUS
        <4> QED
          BY <2>2, <4>1, Zenon
      <3>2. v < WORD \div 2
        BY <1>1, <1>4
      <3> QED
        BY <3>1, <3>2
    <2> QED
      BY <2>2, <2>3 DEF t
  <1> QED
    BY <1>3, <1>4

(* The conversion of a format of two or three characters.                    *)
LEMMA FormattedIs ==
    ASSUME NEW m, NEW format, Len(format) \in {2, 3}, NEW args
    PROVE  LET s0 == [open |-> "no", esp |-> 1, out |-> << >>]
               s2 == OneChar(m, OneChar(m, s0, format[1], args), format[2], args)
           IN Formatted(m, format, args)
                = IF Len(format) = 2 THEN s2.out ELSE OneChar(m, s2, format[3], args).out
  <1> DEFINE n == Len(format)
             s0 == [open |-> "no", esp |-> 1, out |-> << >>]
             Step(i, g) == OneChar(m, g, format[i], args)
             Is(f) == f = [i \in 0 .. n |-> IF i = 0 THEN s0 ELSE Step(i, f[i - 1])]
             s1 == Step(1, s0)
             s2 == Step(2, s1)
             s3 == Step(3, s2)
             run == [i \in 0 .. n |-> IF i = 0 THEN s0 ELSE IF i = 1 THEN s1 ELSE IF i = 2 THEN s2 ELSE s3]
             st == CHOOSE f : Is(f)
  <1>1. Formatted(m, format, args) = st[n].out
    BY Zenon DEF Formatted
  <1>2. n \in {2, 3}
    OBVIOUS
  <1> HIDE DEF n, s0
  <1>3. Is(run)
    <2>1. \A i \in 0 .. n : run[i] = IF i = 0 THEN s0 ELSE IF i = 1 THEN s1 ELSE IF i = 2 THEN s2 ELSE s3
      OBVIOUS
    <2>2. run = [i \in 0 .. n |-> run[i]]
      OBVIOUS
    <2>3. s1 = Step(1, s0) /\ s2 = Step(2, s1) /\ s3 = Step(3, s2)
      OBVIOUS
    <2> HIDE DEF run, s1, s2, s3, Step
    <2>4. \A i \in 0 .. n : run[i] = IF i = 0 THEN s0 ELSE Step(i, run[i - 1])
      <3>1. \A i \in 0 .. n : i \in {0, 1, 2, 3}
        BY <1>2
      <3>2. 0 \in 0 .. n /\ 1 \in 0 .. n /\ 2 \in 0 .. n
        BY <1>2
      <3> QED
        BY <2>1, <2>3, <3>1, <3>2
    <2> QED
      BY <2>2, <2>4
  <1>4. Is(st)
    <2> HIDE DEF Is
    <2> QED
      BY <1>3, Zenon
  <1>5. st[0] = s0 /\ st[1] = s1 /\ st[2] = s2 /\ (n = 3 => st[3] = s3)
    <2> HIDE DEF st, Step
    <2>1. \A i \in 0 .. n : st[i] = IF i = 0 THEN s0 ELSE Step(i, st[i - 1])
      BY <1>4
    <2>2. st[0] = s0
      BY <1>2, <2>1
    <2>3. st[1] = Step(1, st[0])
      BY <1>2, <2>1
    <2>4. st[2] = Step(2, st[1])
      BY <1>2, <2>1
    <2>5. n = 3 => st[3] = Step(3, st[2])
      BY <2>1
    <2> QED
      BY <2>2, <2>3, <2>4, <2>5
  <1> HIDE DEF st
  <1> QED
    BY <1>1, <1>2, <1>5 DEF n, s0

(* A per cent sign, and the conversion behind it or behind the #.            *)
LEMMA ConversionIs ==
    ASSUME NEW m, NEW format, NEW args, format[1] = Ascii.percent
    PROVE  LET out == Formatted(m, format, args)
           IN /\ Len(format) = 2 /\ format[2] = Ascii.u => out = << >> \o Unsigned(m, args[1], 10)
              /\ Len(format) = 2 /\ format[2] = Ascii.x => out = << >> \o Unsigned(m, args[1], 16)
              /\ Len(format) = 2 /\ format[2] = Ascii.d => out = << >> \o Signed(m, args[1])
              /\ Len(format) = 3 /\ format[2] = Ascii.hash /\ format[3] = Ascii.x
                    => out = << >> \o AlignedHex(m, args[1])
  <1> DEFINE s0 == [open |-> "no", esp |-> 1, out |-> << >>]
             plain == [open |-> "plain", esp |-> 1, out |-> << >>]
             alternate == [open |-> "alternate", esp |-> 1, out |-> << >>]
  <1>1. /\ Ascii.u = 117 /\ Ascii.x = 120 /\ Ascii.d = 100 /\ Ascii.hash = 35 /\ Ascii.percent = 37
        /\ Ascii.c = 99 /\ Ascii.s = 115
    BY DEF Ascii
  <1>2. OneChar(m, s0, format[1], args) = plain
    BY DEF OneChar
  <1>3. OneChar(m, plain, Ascii.u, args).out = << >> \o Unsigned(m, args[1], 10)
    BY <1>1 DEF OneChar, Converted
  <1>4. OneChar(m, plain, Ascii.x, args).out = << >> \o Unsigned(m, args[1], 16)
    BY <1>1 DEF OneChar, Converted
  <1>5. OneChar(m, plain, Ascii.d, args).out = << >> \o Signed(m, args[1])
    BY <1>1 DEF OneChar, Converted
  <1>6. OneChar(m, plain, Ascii.hash, args) = alternate
    BY <1>1 DEF OneChar, Converted
  <1>7. OneChar(m, alternate, Ascii.x, args).out = << >> \o AlignedHex(m, args[1])
    BY <1>1 DEF OneChar, Converted
  <1> DEFINE s2 == OneChar(m, plain, format[2], args)
  <1>8. ASSUME Len(format) \in {2, 3}
        PROVE  Formatted(m, format, args)
                 = IF Len(format) = 2 THEN s2.out ELSE OneChar(m, s2, format[3], args).out
    <2>1. plain = OneChar(m, s0, format[1], args)
      BY <1>2, Zenon
    <2> HIDE DEF plain
    <2> QED
      BY <1>8, <2>1, FormattedIs, SMT
  <1> HIDE DEF plain, alternate
  <1> QED
    BY <1>3, <1>4, <1>5, <1>6, <1>7, <1>8

(* A call of printf() with one argument prints a text that reads back.       *)
LEMMA PrintfReads ==
    ASSUME Ready, NEW p \in Prints, CallPrintf(p.format, p.args)
    PROVE  NumberReads'
  <1> DEFINE v == p.args[1]
  <1>1. /\ mem \in [Address -> Octet]
        /\ p.format \in Seq(Octet) /\ p.args \in Seq(0 .. WORD - 1)
    <2>1. mem \in [Address -> Octet]
      BY MemoryReady DEF CallPrintf, Ready
    <2>2. p.format \in Seq(Octet) /\ p.args \in Seq(0 .. WORD - 1)
      BY LibraryAssumption, Zenon
    <2> QED
      BY <2>1, <2>2
  <1>2. /\ call' = [op |-> "printf", format |-> p.format, args |-> p.args]
        /\ text' = Formatted(mem, p.format, p.args)
    BY DEF CallPrintf
  <1> SUFFICES ASSUME Len(p.format) \in 2 .. 3, p.format[1] = Ascii.percent, Len(p.args) = 1
               PROVE  LET Short == Len(text') > 1 => text'[1] # 48
                          f == Tail(p.format)
                      IN /\ f = <<Ascii.u>> => Reads(text', 10) = v /\ Short
                         /\ f = <<Ascii.x>> => Reads(text', 16) = v /\ Short
                         /\ f = <<Ascii.hash, Ascii.x>> => Reads(text', 16) = v /\ Len(text') = 8
                         /\ f = <<Ascii.d>> => IF text'[1] = 45 THEN WORD - Reads(Tail(text'), 10) = v
                                               ELSE Reads(text', 10) = v /\ v < WORD \div 2
    BY <1>2 DEF NumberReads
  <1> DEFINE f == Tail(p.format)
  <1>3. v \in 0 .. WORD - 1
    <2>1. \A S : \A a \in Seq(S) : Len(a) = 1 => a[1] \in S
      OBVIOUS
    <2> QED
      BY <1>1, <2>1
  <1>4. /\ Len(p.format) \in 2 .. 3 /\ Len(f) = Len(p.format) - 1
        /\ \A i \in 1 .. Len(f) : f[i] = p.format[i + 1]
    BY <1>1
  <1> HIDE DEF f, v
  <1>5. \A x : f = <<x>> => Len(p.format) = 2 /\ p.format[2] = x
    BY <1>4
  <1>6. \A x, y : f = <<x, y>> => Len(p.format) = 3 /\ p.format[2] = x /\ p.format[3] = y
    BY <1>4
  <1>7. Digits(SIZE - 2, 10) /\ SIZE - 2 < SIZE /\ Digits(8, 16) /\ 8 < SIZE
    BY LibraryAssumption DEF Digits
  <1>8. \A t \in Seq(Octet) : << >> \o t = t
    OBVIOUS
  <1> USE DEF v
  <1>9. ASSUME f = <<Ascii.u>> PROVE text' = Unsigned(mem, v, 10)
    <2>1. text' = << >> \o Unsigned(mem, v, 10)
      BY <1>2, <1>5, <1>9, ConversionIs
    <2> QED
      BY <1>1, <1>3, <1>7, <1>8, <2>1, UnsignedReads
  <1>10. ASSUME f = <<Ascii.x>> PROVE text' = Unsigned(mem, v, 16)
    <2>1. text' = << >> \o Unsigned(mem, v, 16)
      BY <1>2, <1>5, <1>10, ConversionIs
    <2> QED
      BY <1>1, <1>3, <1>7, <1>8, <2>1, UnsignedReads
  <1>11. ASSUME f = <<Ascii.hash, Ascii.x>> PROVE text' = AlignedHex(mem, v)
    <2>1. text' = << >> \o AlignedHex(mem, v)
      BY <1>2, <1>6, <1>11, ConversionIs
    <2> QED
      BY <1>1, <1>3, <1>8, <2>1, AlignedReads
  <1>12. ASSUME f = <<Ascii.d>> PROVE text' = Signed(mem, v)
    <2>1. text' = << >> \o Signed(mem, v)
      BY <1>2, <1>5, <1>12, ConversionIs
    <2> QED
      BY <1>1, <1>3, <1>8, <2>1, SignedReads
  <1> HIDE DEF f, v
  <1>13. f = <<Ascii.u>> => Reads(text', 10) = v /\ (Len(text') > 1 => text'[1] # 48)
    BY <1>1, <1>3, <1>7, <1>9, UnsignedReads
  <1>14. f = <<Ascii.x>> => Reads(text', 16) = v /\ (Len(text') > 1 => text'[1] # 48)
    BY <1>1, <1>3, <1>7, <1>10, UnsignedReads
  <1>15. f = <<Ascii.hash, Ascii.x>> => Reads(text', 16) = v /\ Len(text') = 8
    BY <1>1, <1>3, <1>11, AlignedReads
  <1>16. f = <<Ascii.d>> => IF text'[1] = 45 THEN WORD - Reads(Tail(text'), 10) = v
                            ELSE Reads(text', 10) = v /\ v < WORD \div 2
    BY <1>1, <1>3, <1>12, SignedReads
  <1> QED
    BY <1>13, <1>14, <1>15, <1>16 DEF f, v

(* Every other call, and the caller's next, is not one of printf().          *)
LEMMA OtherCalls ==
    ASSUME LibNext, ~(\E p \in Prints : CallPrintf(p.format, p.args))
    PROVE  call'.op # "printf"
  <1>1. Left => call'.op # "printf"
    BY DEF Left, NoCall
  <1>2. ASSUME NEW d \in Address, NEW n \in 0 .. SIZE, NEW c \in Fills,
               CallMemset(d, c, n) \/ CallMemsetWord(d, c, n) \/ CallMemsetDword(d, c, n)
        PROVE  call'.op # "printf"
    BY <1>2 DEF CallMemset, CallMemsetWord, CallMemsetDword, Stores
  <1>3. ASSUME NEW d \in Address, NEW n \in 0 .. SIZE, NEW s \in Address,
               CallMemcpy(d, s, n) \/ CallMemmove(d, s, n)
                  \/ CallStrncpy(d, s, n) \/ CallStrncmp(d, s, n)
        PROVE  call'.op # "printf"
    BY <1>3 DEF CallMemcpy, CallMemmove, CallStrncpy, CallStrncmp, Stores
  <1>4. ASSUME NEW d \in Address, NEW s \in Address, CallStrcpy(d, s)
        PROVE  call'.op # "printf"
    BY <1>4 DEF CallStrcpy, Stores
  <1> QED
    BY <1>1, <1>2, <1>3, <1>4 DEF LibNext

(* printf() (lib.c:54, with itoa() and strrev()) prints of a number, for      *)
(* every number of the word and whatever the buffers held before, a text      *)
(* that reads back as the number: the digits of itoa(), turned round, are     *)
(* all there, none is doubled, no zero is in front of them but the zeros that *)
(* %#x puts before them, and the buffers are long enough.                     *)
THEOREM NumberReadsCorrect == LibSpec => []NumberReads
  <1> DEFINE Both == Ready /\ NumberReads
  <1>1. LibInit => Both
    BY DEF LibInit, Ready, NumberReads, NoCall
  <1>2. Both /\ [LibNext]_libvars => Both'
    <2> SUFFICES ASSUME Ready, NumberReads, [LibNext]_libvars PROVE Ready' /\ NumberReads'
      OBVIOUS
    <2>1. Ready'
      BY ReadyNext
    <2>2. CASE UNCHANGED libvars
      BY <2>1, <2>2 DEF libvars, NumberReads
    <2>3. CASE LibNext
      <3>1. CASE \E p \in Prints : CallPrintf(p.format, p.args)
        BY <2>1, <3>1, PrintfReads
      <3>2. CASE ~(\E p \in Prints : CallPrintf(p.format, p.args))
        <4>1. call'.op # "printf"
          BY <2>3, <3>2, OtherCalls
        <4> QED
          BY <2>1, <4>1 DEF NumberReads
      <3> QED
        BY <2>1, <3>1, <3>2
    <2> QED
      BY <2>2, <2>3
  <1> QED
    BY <1>1, <1>2, PTL DEF LibSpec
=============================================================================

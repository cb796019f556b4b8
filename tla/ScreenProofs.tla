---------------------------- MODULE ScreenProofs ----------------------------
(***************************************************************************)
(* Proofs about text output for every number of terminals, every size of   *)
(* the screen and of the line buffer, and all texts.                       *)
(***************************************************************************)
EXTENDS Screen, SequenceTheorems, Induction

Pages == [Cells -> 0 .. NTerms]

\* A cursor on the screen
Cursors == [x : 0 .. NUM_COLS - 1, y : 0 .. NUM_ROWS - 1]

\* What lib.c draws with
DrawStates == [x : 0 .. NUM_COLS - 1, y : 0 .. NUM_ROWS - 1, page : Pages]

TermStates ==
    [screen_x        : 1 - BUFFER_SIZE .. NUM_COLS - 1,
     screen_y        : 0 .. NUM_ROWS,
     chars_printed   : 1 - BUFFER_SIZE .. NUM_COLS + 1,
     starting_offset : 0 .. NUM_COLS - 1,
     input_pointer   : 0 .. BUFFER_SIZE - 1,
     video_buffer    : Pages]

\* Erasing moves the cursor back as often as keys have filled the line: neither
\* the column nor the count falls further than the line buffer is long
LineRoom(term) ==
    /\ term.screen_x >= term.input_pointer - (BUFFER_SIZE - 1)
    /\ term.chars_printed >= term.input_pointer - (BUFFER_SIZE - 1)

TermOK(term) == term \in TermStates /\ LineRoom(term)

\* What the constants are
LEMMA Sizes ==
    /\ NTerms \in Nat \ {0} /\ NUM_COLS \in Nat \ {0} /\ NUM_ROWS \in Nat \ {0}
    /\ BUFFER_SIZE \in Nat \ {0} /\ SHELL_OFFSET \in 0 .. NUM_COLS - 1
    /\ MaxOps \in Nat \ {0} /\ Texts \subseteq Seq(Chars)
BY ScreenAssumption, Zenon

-----------------------------------------------------------------------------
(* lib.c                                                                   *)

\* C's remainder of a negative number is not positive and not less than it
LEMMA RemFacts ==
    ASSUME NEW a \in Int, NEW b \in Nat \ {0}
    PROVE  /\ Rem(a, b) \in Int /\ Rem(a, b) <= b - 1
           /\ a >= 0 => Rem(a, b) >= 0
           /\ a < 0 => Rem(a, b) >= a /\ Rem(a, b) <= 0
           /\ 0 <= a /\ a < b => Rem(a, b) = a
<1>1. CASE a >= 0
  <2>1. PICK m : m = a % b
    OBVIOUS
  <2>2. m \in 0 .. b - 1 /\ (a < b => m = a)
    BY <1>1, <2>1
  <2>3. Rem(a, b) = m
    BY <1>1, <2>1 DEF Rem
  <2> QED
    BY <1>1, <2>2, <2>3
<1>2. CASE a < 0
  <2>1. PICK n \in Nat : n = -a
    BY <1>2
  <2>2. PICK q : q = n \div b
    OBVIOUS
  <2>3. PICK m : m = n % b
    OBVIOUS
  <2>4. q \in Nat /\ m \in 0 .. b - 1 /\ n = b * q + m
    BY <2>1, <2>2, <2>3
  <2>5. b * q >= 0
    BY <2>4
  <2>6. m <= n
    BY <2>4, <2>5
  <2>7. Rem(a, b) = -m
    BY <1>2, <2>1, <2>3 DEF Rem
  <2> QED
    BY <1>2, <2>1, <2>4, <2>6, <2>7
<1> QED
  BY <1>1, <1>2

\* Storing a cell and scrolling make a page of a page
LEMMA PageFacts ==
    ASSUME NEW page \in Pages
    PROVE  /\ scroll_up(page) \in Pages
           /\ \A i, cell : cell \in 0 .. NTerms => Store(page, i, cell) \in Pages
<1>1. 0 \in 0 .. NTerms
  BY Sizes
<1>2. scroll_up(page) \in Pages
  BY <1>1 DEF scroll_up, Pages
<1>3. ASSUME NEW i, NEW cell \in 0 .. NTerms PROVE Store(page, i, cell) \in Pages
  BY DEF Store, Pages
<1> QED
  BY <1>2, <1>3

\* putc keeps the cursor on the screen, and moves it right, or to the first
\* column on a newline
LEMMA PutcFacts ==
    ASSUME NEW s \in DrawStates, NEW c, NEW cell \in 0 .. NTerms, NEW t, t = putc(s, c, cell)
    PROVE  /\ t \in DrawStates
           /\ c \notin Newlines => /\ t.x = Rem(s.x + 1, NUM_COLS) /\ t.y = s.y
                          /\ t.page = Store(s.page, NUM_COLS * s.y + s.x, cell)
           /\ c \in Newlines /\ s.y + 1 >= NUM_ROWS =>
                 t.x = 0 /\ t.y = s.y /\ t.page = scroll_up(s.page)
           /\ c \in Newlines /\ ~(s.y + 1 >= NUM_ROWS) =>
                 t.x = 0 /\ t.y = s.y + 1 /\ t.page = s.page
<1>1. s.x \in 0 .. NUM_COLS - 1 /\ s.y \in 0 .. NUM_ROWS - 1 /\ s.page \in Pages
  BY DEF DrawStates
<1>2. NUM_COLS \in Nat \ {0} /\ NUM_ROWS \in Nat \ {0}
  BY Sizes
<1>3. CASE c \notin Newlines
  <2>1. PICK x, y, p : /\ x = Rem(s.x + 1, NUM_COLS) /\ y = Rem(s.y, NUM_ROWS)
                       /\ p = Store(s.page, NUM_COLS * s.y + s.x, cell)
    OBVIOUS
  <2>2. x \in 0 .. NUM_COLS - 1
    <3>1. s.x + 1 \in Int /\ s.x + 1 >= 0
      BY <1>1, <1>2
    <3>2. x \in Int /\ x <= NUM_COLS - 1 /\ x >= 0
      BY <1>2, <2>1, <3>1, RemFacts, Zenon
    <3> QED
      BY <1>2, <3>2
  <2>3. y = s.y
    <3>1. s.y \in Int /\ 0 <= s.y /\ s.y < NUM_ROWS
      BY <1>1, <1>2
    <3> QED
      BY <1>2, <2>1, <3>1, RemFacts, Zenon
  <2>4. p \in Pages
    BY <1>1, <2>1, PageFacts, Zenon
  <2>5. t = [x |-> x, y |-> y, page |-> p]
    BY <1>3, <2>1, Zenon DEF putc
  <2>6. t.x = x /\ t.y = y /\ t.page = p /\ t \in DrawStates
    BY <1>1, <2>2, <2>3, <2>4, <2>5 DEF DrawStates
  <2> QED
    BY <1>3, <2>1, <2>3, <2>6
<1>4. CASE c \in Newlines /\ s.y + 1 >= NUM_ROWS
  <2>1. PICK p : p = scroll_up(s.page)
    OBVIOUS
  <2>2. t = [x |-> 0, y |-> s.y, page |-> p] /\ p \in Pages
    BY <1>1, <1>4, <2>1, PageFacts, Zenon DEF putc
  <2>3. t.x = 0 /\ t.y = s.y /\ t.page = p /\ t \in DrawStates
    BY <1>1, <1>2, <2>2 DEF DrawStates
  <2> QED
    BY <1>4, <2>1, <2>3
<1>5. CASE c \in Newlines /\ ~(s.y + 1 >= NUM_ROWS)
  <2>1. t = [x |-> 0, y |-> s.y + 1, page |-> s.page]
    BY <1>5, Zenon DEF putc
  <2>2. t.x = 0 /\ t.y = s.y + 1 /\ t.page = s.page /\ t \in DrawStates
    BY <1>1, <1>2, <1>5, <2>1 DEF DrawStates
  <2> QED
    BY <1>5, <2>2
<1> QED
  BY <1>3, <1>4, <1>5

\* The fields of a terminal
LEMMA TermFields ==
    ASSUME NEW term \in TermStates
    PROVE  /\ term.screen_x \in 1 - BUFFER_SIZE .. NUM_COLS - 1
           /\ term.screen_y \in 0 .. NUM_ROWS
           /\ term.chars_printed \in 1 - BUFFER_SIZE .. NUM_COLS + 1
           /\ term.starting_offset \in 0 .. NUM_COLS - 1
           /\ term.input_pointer \in 0 .. BUFFER_SIZE - 1
           /\ term.video_buffer \in Pages
BY DEF TermStates

\* vputc does to a terminal's own cursor and buffer what putc does to lib.c's;
\* a cursor to the left of the screen moves right
LEMMA VputcFacts ==
    ASSUME NEW term, TermOK(term), NEW c, NEW cell \in 0 .. NTerms,
           NEW t, t = vputc(term, c, cell)
    PROVE  /\ TermOK(t)
           /\ t.chars_printed = term.chars_printed
           /\ t.starting_offset = term.starting_offset
           /\ t.input_pointer = term.input_pointer
           /\ c \notin Newlines =>
                 /\ t.screen_x = Rem(term.screen_x + 1, NUM_COLS)
                 /\ t.screen_y = Rem(term.screen_y, NUM_ROWS)
                 /\ t.video_buffer = Store(term.video_buffer,
                                           NUM_COLS * term.screen_y + term.screen_x, cell)
           /\ c \in Newlines /\ term.screen_y + 1 >= NUM_ROWS =>
                 /\ t.screen_x = 0 /\ t.screen_y = term.screen_y
                 /\ t.video_buffer = scroll_up(term.video_buffer)
           /\ c \in Newlines /\ ~(term.screen_y + 1 >= NUM_ROWS) =>
                 /\ t.screen_x = 0 /\ t.screen_y = term.screen_y + 1
                 /\ t.video_buffer = term.video_buffer
<1>0. term \in TermStates /\ LineRoom(term)
  BY DEF TermOK
<1>1. /\ term.screen_x \in 1 - BUFFER_SIZE .. NUM_COLS - 1
      /\ term.screen_y \in 0 .. NUM_ROWS
      /\ term.chars_printed \in 1 - BUFFER_SIZE .. NUM_COLS + 1
      /\ term.input_pointer \in 0 .. BUFFER_SIZE - 1
      /\ term.video_buffer \in Pages
  BY <1>0, TermFields
<1>2. NUM_COLS \in Nat \ {0} /\ NUM_ROWS \in Nat \ {0} /\ BUFFER_SIZE \in Nat \ {0}
  BY Sizes
<1>3. PICK x, y, p :
        /\ x = IF c \notin Newlines THEN Rem(term.screen_x + 1, NUM_COLS) ELSE 0
        /\ y = IF c \notin Newlines THEN Rem(term.screen_y, NUM_ROWS)
               ELSE IF term.screen_y + 1 >= NUM_ROWS THEN term.screen_y ELSE term.screen_y + 1
        /\ p = IF c \notin Newlines THEN Store(term.video_buffer,
                                      NUM_COLS * term.screen_y + term.screen_x, cell)
               ELSE IF term.screen_y + 1 >= NUM_ROWS THEN scroll_up(term.video_buffer)
               ELSE term.video_buffer
  OBVIOUS
<1>4. t = [term EXCEPT !.screen_x = x, !.screen_y = y, !.video_buffer = p]
  <2>1. CASE c \notin Newlines
    BY <1>3, <2>1, Zenon DEF vputc
  <2>2. CASE c \in Newlines /\ term.screen_y + 1 >= NUM_ROWS
    <3>1. x = 0 /\ y = term.screen_y /\ p = scroll_up(term.video_buffer)
      BY <1>3, <2>2, Zenon
    <3>2. t = [term EXCEPT !.screen_x = 0, !.video_buffer = p]
      BY <2>2, <3>1, Zenon DEF vputc
    <3>3. [term EXCEPT !.screen_x = 0, !.video_buffer = p]
            = [term EXCEPT !.screen_x = 0, !.screen_y = term.screen_y, !.video_buffer = p]
      BY <1>0 DEF TermStates
    <3> QED
      BY <3>1, <3>2, <3>3, Zenon
  <2>3. CASE c \in Newlines /\ ~(term.screen_y + 1 >= NUM_ROWS)
    <3>1. x = 0 /\ y = term.screen_y + 1 /\ p = term.video_buffer
      BY <1>3, <2>3, Zenon
    <3>2. t = [term EXCEPT !.screen_x = 0, !.screen_y = y]
      BY <2>3, <3>1, Zenon DEF vputc
    <3>3. [term EXCEPT !.screen_x = 0, !.screen_y = y]
            = [term EXCEPT !.screen_x = 0, !.screen_y = y, !.video_buffer = term.video_buffer]
      BY <1>0 DEF TermStates
    <3> QED
      BY <3>1, <3>2, <3>3, Zenon
  <2> QED
    BY <2>1, <2>2, <2>3
<1>5. /\ x \in Int /\ x <= NUM_COLS - 1 /\ (x >= 0 \/ x >= term.screen_x)
  <2>1. PICK a \in Int : a = term.screen_x + 1
    BY <1>1, <1>2
  <2>2. /\ Rem(a, NUM_COLS) \in Int /\ Rem(a, NUM_COLS) <= NUM_COLS - 1
        /\ a >= 0 => Rem(a, NUM_COLS) >= 0
        /\ a < 0 => Rem(a, NUM_COLS) >= a /\ Rem(a, NUM_COLS) <= 0
    BY <1>2, RemFacts
  <2> QED
    BY <1>1, <1>2, <1>3, <2>1, <2>2
<1>6. y \in 0 .. NUM_ROWS
  <2>1. term.screen_y \in Int /\ term.screen_y >= 0
    BY <1>1, <1>2
  <2>2. Rem(term.screen_y, NUM_ROWS) \in Int /\ Rem(term.screen_y, NUM_ROWS) <= NUM_ROWS - 1
        /\ Rem(term.screen_y, NUM_ROWS) >= 0
    BY <1>2, <2>1, RemFacts
  <2> QED
    BY <1>1, <1>2, <1>3, <2>2
<1>7. p \in Pages
  BY <1>1, <1>3, PageFacts, Zenon
<1>8. x \in 1 - BUFFER_SIZE .. NUM_COLS - 1
  BY <1>1, <1>2, <1>5
<1>9. /\ t \in TermStates
      /\ t.screen_x = x /\ t.screen_y = y /\ t.video_buffer = p
      /\ t.chars_printed = term.chars_printed
      /\ t.starting_offset = term.starting_offset
      /\ t.input_pointer = term.input_pointer
  BY <1>0, <1>4, <1>6, <1>7, <1>8 DEF TermStates
<1>10. LineRoom(t)
  BY <1>0, <1>1, <1>2, <1>5, <1>9 DEF LineRoom
<1> QED
  BY <1>3, <1>9, <1>10 DEF TermOK

\* set_cursor_pos never leaves the screen, and follows a position on it
LEMMA CursorFacts ==
    ASSUME NEW cur \in Cursors, NEW x, NEW y, NEW c, c = set_cursor_pos(cur, x, y)
    PROVE  /\ c \in Cursors /\ c.x \in 0 .. NUM_COLS - 1 /\ c.y \in 0 .. NUM_ROWS - 1
           /\ x \in 0 .. NUM_COLS - 1 => c.x = x
           /\ y \in 0 .. NUM_ROWS - 1 => c.y = y
<1>1. cur.x \in 0 .. NUM_COLS - 1 /\ cur.y \in 0 .. NUM_ROWS - 1
  BY DEF Cursors
<1>2. PICK u, v : /\ u = IF x \in 0 .. NUM_COLS - 1 THEN x ELSE cur.x
                  /\ v = IF y \in 0 .. NUM_ROWS - 1 THEN y ELSE cur.y
  OBVIOUS
<1>3. u \in 0 .. NUM_COLS - 1 /\ v \in 0 .. NUM_ROWS - 1
  BY <1>1, <1>2, Zenon
<1>4. c = [x |-> u, y |-> v]
  BY <1>2, Zenon DEF set_cursor_pos
<1>5. c.x = u /\ c.y = v /\ c \in Cursors
  BY <1>3, <1>4 DEF Cursors
<1> QED
  BY <1>2, <1>3, <1>5

-----------------------------------------------------------------------------
(* terminal.c: writing                                                     *)

WStates == [term : TermStates, cur : Cursors, page : Pages]

WOK(w) == w \in WStates /\ LineRoom(w.term)

\* t and term agree on everything that drawing leaves alone
SameLine(t, term) ==
    /\ t.chars_printed = term.chars_printed
    /\ t.starting_offset = term.starting_offset
    /\ t.input_pointer = term.input_pointer

\* The parts of a writing state
LEMMA WFields ==
    ASSUME NEW w, WOK(w)
    PROVE  w.term \in TermStates /\ TermOK(w.term) /\ w.cur \in Cursors /\ w.page \in Pages
BY DEF WOK, WStates, TermOK

\* t is w with u drawn in its buffer
DrawnHidden(t, w, u) ==
    WOK(t) /\ SameLine(t.term, w.term) /\ t.cur = w.cur /\ t.page = w.page /\ t.term = u

\* Drawing on a hidden terminal changes neither the screen nor lib.c's cursor
LEMMA DrawHidden ==
    ASSUME NEW w, WOK(w), NEW c, NEW cell \in 0 .. NTerms, NEW t, t = Draw(w, c, cell, FALSE)
    PROVE  DrawnHidden(t, w, vputc(w.term, c, cell))
<1>1. PICK u : u = vputc(w.term, c, cell)
  OBVIOUS
<1>2. w.term \in TermStates /\ TermOK(w.term) /\ w.cur \in Cursors /\ w.page \in Pages
  BY WFields, Zenon
<1>3. TermOK(u) /\ SameLine(u, w.term)
  BY <1>1, <1>2, VputcFacts DEF SameLine
<1>4. t = [w EXCEPT !.term = u]
  BY <1>1, Zenon DEF Draw
<1>5. w \in WStates /\ u \in TermStates /\ LineRoom(u)
  BY <1>3 DEF WOK, TermOK
<1>6. t \in WStates /\ t.term = u /\ t.cur = w.cur /\ t.page = w.page
  BY <1>4, <1>5 DEF WStates
<1> QED
  BY <1>1, <1>3, <1>5, <1>6, Zenon DEF WOK, DrawnHidden

\* The drawing state that a displayed terminal hands to putc
Shown(w) ==
    LET cur == set_cursor_pos(w.cur, w.term.screen_x, w.term.screen_y)
    IN  [x |-> cur.x, y |-> cur.y, page |-> w.page]

\* t is w with s, the result of putc, drawn on the screen
DrawnAs(t, w, s) ==
    /\ WOK(t) /\ SameLine(t.term, w.term)
    /\ t.term.video_buffer = w.term.video_buffer
    /\ t.term.screen_x = s.x /\ t.term.screen_y = s.y /\ t.page = s.page
    /\ s.x \in 0 .. NUM_COLS - 1 /\ s.y \in 0 .. NUM_ROWS - 1

\* Drawing on the displayed terminal leaves its buffer alone and its cursor on
\* the screen, where lib.c's is
LEMMA DrawShown ==
    ASSUME NEW w, WOK(w), NEW c, NEW cell \in 0 .. NTerms, NEW t, t = Draw(w, c, cell, TRUE),
           NEW s, s = putc(Shown(w), c, cell)
    PROVE  Shown(w) \in DrawStates /\ DrawnAs(t, w, s)
<1>1. w.term \in TermStates /\ TermOK(w.term) /\ w.cur \in Cursors /\ w.page \in Pages
  BY WFields, Zenon
<1>2. PICK k : k = set_cursor_pos(w.cur, w.term.screen_x, w.term.screen_y)
  OBVIOUS
<1>3. k.x \in 0 .. NUM_COLS - 1 /\ k.y \in 0 .. NUM_ROWS - 1
  BY <1>1, <1>2, CursorFacts
<1>4. PICK e : e = Shown(w)
  OBVIOUS
<1>5. e = [x |-> k.x, y |-> k.y, page |-> w.page]
  BY <1>2, <1>4, Zenon DEF Shown
<1>6. e \in DrawStates
  BY <1>1, <1>3, <1>5 DEF DrawStates
<1>7. s \in DrawStates
  BY <1>4, <1>6, PutcFacts
<1>8. s.x \in 0 .. NUM_COLS - 1 /\ s.y \in 0 .. NUM_ROWS - 1 /\ s.page \in Pages
  BY <1>7 DEF DrawStates
<1>9. PICK u : u = [w.term EXCEPT !.screen_x = s.x, !.screen_y = s.y]
  OBVIOUS
<1>10. PICK v : v = [x |-> s.x, y |-> s.y]
  OBVIOUS
<1>11. t = [term |-> u, cur |-> v, page |-> s.page]
  BY <1>2, <1>4, <1>5, <1>9, <1>10, Zenon DEF Draw
<1>12. s.x \in 1 - BUFFER_SIZE .. NUM_COLS - 1 /\ s.y \in 0 .. NUM_ROWS
  BY <1>8, Sizes
<1>13. /\ u \in TermStates /\ u.screen_x = s.x /\ u.screen_y = s.y
       /\ u.video_buffer = w.term.video_buffer /\ SameLine(u, w.term)
  BY <1>1, <1>9, <1>12 DEF TermStates, SameLine
<1>14. v \in Cursors
  BY <1>8, <1>10 DEF Cursors
<1>15. LineRoom(u)
  <2>1. w.term.input_pointer \in 0 .. BUFFER_SIZE - 1
    BY <1>1, TermFields
  <2>2. LineRoom(w.term)
    BY <1>1 DEF TermOK
  <2> QED
    BY <1>8, <1>13, <2>1, <2>2, Sizes DEF LineRoom, SameLine
<1>16. t \in WStates /\ t.term = u /\ t.page = s.page
  <2>1. PICK p \in Pages : p = s.page
    BY <1>8
  <2>2. t = [term |-> u, cur |-> v, page |-> p] /\ u \in TermStates /\ v \in Cursors
    BY <1>11, <1>13, <1>14, <2>1, Zenon
  <2>3. \A z : z = [term |-> u, cur |-> v, page |-> p]
                => z \in WStates /\ z.term = u /\ z.page = p
    <3>1. u \in TermStates /\ v \in Cursors
      BY <2>2
    <3> QED
      BY <3>1 DEF WStates
  <2> QED
    BY <2>1, <2>2, <2>3, Zenon
<1> QED
  BY <1>4, <1>6, <1>8, <1>13, <1>15, <1>16, Zenon DEF WOK, DrawnAs

\* A terminal in a hidden state h and a displayed state d looks the same, with
\* its cursor on the screen
Alike(h, d) ==
    /\ WOK(h) /\ WOK(d)
    /\ h.term.video_buffer = d.page
    /\ h.term.screen_x = d.term.screen_x /\ h.term.screen_y = d.term.screen_y
    /\ h.term.chars_printed = d.term.chars_printed
    /\ d.term.screen_x \in 0 .. NUM_COLS - 1 /\ d.term.screen_y \in 0 .. NUM_ROWS - 1

\* A character keeps them alike: vputc and putc do the same
LEMMA DrawAlike ==
    ASSUME NEW h, NEW d, Alike(h, d), NEW c, NEW cell \in 0 .. NTerms
    PROVE  Alike(Draw(h, c, cell, FALSE), Draw(d, c, cell, TRUE))
<1>1. /\ WOK(h) /\ WOK(d) /\ h.term.video_buffer = d.page
      /\ h.term.screen_x = d.term.screen_x /\ h.term.screen_y = d.term.screen_y
      /\ h.term.chars_printed = d.term.chars_printed
      /\ d.term.screen_x \in 0 .. NUM_COLS - 1 /\ d.term.screen_y \in 0 .. NUM_ROWS - 1
  BY Zenon DEF Alike
<1>2. PICK i : i = Draw(h, c, cell, FALSE)
  OBVIOUS
<1>3. PICK e : e = Draw(d, c, cell, TRUE)
  OBVIOUS
<1>4. PICK s : s = putc(Shown(d), c, cell)
  OBVIOUS
<1>5. PICK x, y, p : x = d.term.screen_x /\ y = d.term.screen_y /\ p = d.page
  OBVIOUS
<1>6. Shown(d) = [x |-> x, y |-> y, page |-> p]
  <2>1. PICK cur : cur = set_cursor_pos(d.cur, x, y)
    OBVIOUS
  <2>2. d.cur \in Cursors
    BY <1>1, WFields, Zenon
  <2>3. cur.x = x /\ cur.y = y
    BY <1>1, <1>5, <2>1, <2>2, CursorFacts
  <2> QED
    BY <1>5, <2>1, <2>3, Zenon DEF Shown
<1>7. /\ WOK(e) /\ SameLine(e.term, d.term) /\ Shown(d) \in DrawStates
      /\ e.term.screen_x = s.x /\ e.term.screen_y = s.y /\ e.page = s.page
      /\ s.x \in 0 .. NUM_COLS - 1 /\ s.y \in 0 .. NUM_ROWS - 1
  <2>1. Shown(d) \in DrawStates /\ DrawnAs(e, d, s)
    BY <1>1, <1>3, <1>4, DrawShown, Zenon
  <2> QED
    BY <2>1, Zenon DEF DrawnAs
<1>8. WOK(i) /\ SameLine(i.term, h.term) /\ i.term = vputc(h.term, c, cell)
  <2>1. DrawnHidden(i, h, vputc(h.term, c, cell))
    BY <1>1, <1>2, DrawHidden, Zenon
  <2> QED
    BY <2>1, Zenon DEF DrawnHidden
<1>9. PICK f : f = Shown(d)
  OBVIOUS
<1>10. f \in DrawStates /\ f.x = x /\ f.y = y /\ f.page = p
  BY <1>6, <1>7, <1>9
<1>11. /\ c \notin Newlines => /\ s.x = Rem(x + 1, NUM_COLS) /\ s.y = y
                      /\ s.page = Store(p, NUM_COLS * y + x, cell)
       /\ c \in Newlines /\ y + 1 >= NUM_ROWS => s.x = 0 /\ s.y = y /\ s.page = scroll_up(p)
       /\ c \in Newlines /\ ~(y + 1 >= NUM_ROWS) => s.x = 0 /\ s.y = y + 1 /\ s.page = p
  BY <1>4, <1>9, <1>10, PutcFacts
<1>12. h.term.screen_x = x /\ h.term.screen_y = y /\ h.term.video_buffer = p /\ TermOK(h.term)
  BY <1>1, <1>5, WFields, Zenon
<1>13. PICK u, t : u = h.term /\ t = i.term
  OBVIOUS
<1>14. /\ c \notin Newlines => /\ t.screen_x = Rem(x + 1, NUM_COLS) /\ t.screen_y = Rem(y, NUM_ROWS)
                      /\ t.video_buffer = Store(p, NUM_COLS * y + x, cell)
       /\ c \in Newlines /\ y + 1 >= NUM_ROWS =>
             t.screen_x = 0 /\ t.screen_y = y /\ t.video_buffer = scroll_up(p)
       /\ c \in Newlines /\ ~(y + 1 >= NUM_ROWS) =>
             t.screen_x = 0 /\ t.screen_y = y + 1 /\ t.video_buffer = p
  <2>1. t = vputc(u, c, cell) /\ TermOK(u) /\ u.screen_x = x /\ u.screen_y = y
        /\ u.video_buffer = p
    BY <1>8, <1>12, <1>13, Zenon
  <2> QED
    BY <2>1, VputcFacts
<1>15. Rem(y, NUM_ROWS) = y
  <2>1. y \in Int /\ 0 <= y /\ y < NUM_ROWS /\ NUM_ROWS \in Nat \ {0}
    BY <1>1, <1>5, Sizes
  <2> QED
    BY <2>1, RemFacts
<1>16. t.screen_x = s.x /\ t.screen_y = s.y /\ t.video_buffer = s.page
  BY <1>11, <1>14, <1>15
<1>17. i.term.chars_printed = e.term.chars_printed
  BY <1>1, <1>7, <1>8, Zenon DEF SameLine
<1> QED
  BY <1>2, <1>3, <1>7, <1>8, <1>13, <1>16, <1>17, Zenon DEF Alike

\* What any drawing leaves alone, and where the cursor of the displayed terminal is
Drawn(t, w, shown) ==
    /\ WOK(t) /\ SameLine(t.term, w.term)
    /\ ~shown => t.cur = w.cur /\ t.page = w.page
    /\ shown => /\ t.term.video_buffer = w.term.video_buffer
                /\ t.term.screen_x \in 0 .. NUM_COLS - 1
                /\ t.term.screen_y \in 0 .. NUM_ROWS - 1

\* It holds of drawing on either terminal
LEMMA DrawAny ==
    ASSUME NEW w, WOK(w), NEW c, NEW cell \in 0 .. NTerms, NEW shown \in BOOLEAN
    PROVE  Drawn(Draw(w, c, cell, shown), w, shown)
<1>1. CASE shown = TRUE
  <2>1. PICK t : t = Draw(w, c, cell, TRUE)
    OBVIOUS
  <2>2. DrawnAs(t, w, putc(Shown(w), c, cell))
    BY <2>1, DrawShown, Zenon
  <2>3. Drawn(t, w, TRUE)
    BY <2>2, Zenon DEF DrawnAs, Drawn
  <2> QED
    BY <1>1, <2>1, <2>3, Zenon
<1>2. CASE shown = FALSE
  <2>1. PICK t : t = Draw(w, c, cell, FALSE)
    OBVIOUS
  <2>2. DrawnHidden(t, w, vputc(w.term, c, cell))
    BY <2>1, DrawHidden, Zenon
  <2>3. Drawn(t, w, FALSE)
    BY <2>2, Zenon DEF DrawnHidden, Drawn
  <2> QED
    BY <1>2, <2>1, <2>3, Zenon
<1> QED
  BY <1>1, <1>2, Zenon

SetChars(w, n) == [w EXCEPT !.term.chars_printed = n]

\* t is w with another count
Counted(t, w, n) ==
    /\ WOK(t) /\ t.cur = w.cur /\ t.page = w.page
    /\ t.term.chars_printed = n
    /\ t.term.screen_x = w.term.screen_x /\ t.term.screen_y = w.term.screen_y
    /\ t.term.starting_offset = w.term.starting_offset
    /\ t.term.input_pointer = w.term.input_pointer
    /\ t.term.video_buffer = w.term.video_buffer

\* A count in its range may be set
LEMMA CharsSet ==
    ASSUME NEW w, WOK(w), NEW n \in 1 - BUFFER_SIZE .. NUM_COLS + 1,
           n >= w.term.input_pointer - (BUFFER_SIZE - 1)
    PROVE  Counted(SetChars(w, n), w, n)
<1>1. w.term \in TermStates /\ w \in WStates /\ LineRoom(w.term)
  BY WFields, Zenon DEF WOK
<1>2. PICK u : u = [w.term EXCEPT !.chars_printed = n]
  OBVIOUS
<1>3. /\ u \in TermStates /\ u.chars_printed = n
      /\ u.screen_x = w.term.screen_x /\ u.screen_y = w.term.screen_y
      /\ u.starting_offset = w.term.starting_offset
      /\ u.input_pointer = w.term.input_pointer /\ u.video_buffer = w.term.video_buffer
  BY <1>1, <1>2 DEF TermStates
<1>4. PICK t : t = SetChars(w, n)
  OBVIOUS
<1>5. t = [w EXCEPT !.term = u]
  BY <1>2, <1>4, Zenon DEF SetChars
<1>6. t \in WStates /\ t.term = u /\ t.cur = w.cur /\ t.page = w.page
  BY <1>1, <1>3, <1>5 DEF WStates
<1>7. LineRoom(u)
  BY <1>1, <1>3, Zenon DEF LineRoom
<1> QED
  BY <1>3, <1>4, <1>6, <1>7, Zenon DEF Counted, WOK

\* The parts of WriteChar: the new line of a long one, the count, the character
Begun(w, cell, shown) ==
    IF w.term.chars_printed > NUM_COLS THEN Draw(w, "nl", cell, shown) ELSE w

Middle(w, c, cell, shown) ==
    IF w.term.chars_printed > NUM_COLS \/ c = "nl"
    THEN SetChars(Begun(w, cell, shown), 0) ELSE Begun(w, cell, shown)

Ended(w, c, cell, shown) == Draw(Middle(w, c, cell, shown), c, cell, shown)

\* WriteChar is made of them
LEMMA WriteCharParts ==
    ASSUME NEW w, NEW c, NEW cell, NEW shown
    PROVE  WriteChar(w, c, cell, shown) =
               IF ~(w.term.chars_printed > NUM_COLS) /\ c = "nul" THEN w
               ELSE SetChars(Ended(w, c, cell, shown),
                             Ended(w, c, cell, shown).term.chars_printed + 1)
BY Zenon DEF WriteChar, SetChars, Ended, Middle, Begun

\* 0 is in the range of the count
LEMMA ZeroCount ==
    ASSUME NEW w, WOK(w)
    PROVE  /\ 0 \in 1 - BUFFER_SIZE .. NUM_COLS + 1
           /\ 0 >= w.term.input_pointer - (BUFFER_SIZE - 1)
           /\ w.term.input_pointer \in 0 .. BUFFER_SIZE - 1
           /\ w.term.chars_printed \in 1 - BUFFER_SIZE .. NUM_COLS + 1
           /\ w.term.chars_printed >= w.term.input_pointer - (BUFFER_SIZE - 1)
<1>1. w.term \in TermStates /\ LineRoom(w.term)
  BY WFields, Zenon DEF WOK
<1>2. /\ w.term.input_pointer \in 0 .. BUFFER_SIZE - 1
      /\ w.term.chars_printed \in 1 - BUFFER_SIZE .. NUM_COLS + 1
  BY <1>1, TermFields
<1> QED
  BY <1>1, <1>2, Sizes DEF LineRoom

\* What writing leaves alone
Kept(t, w, shown) ==
    /\ WOK(t)
    /\ t.term.starting_offset = w.term.starting_offset
    /\ t.term.input_pointer = w.term.input_pointer
    /\ ~shown => t.cur = w.cur /\ t.page = w.page
    /\ shown => t.term.video_buffer = w.term.video_buffer

\* Where a character that is drawn leaves the cursor and the count
Moved(t, w, shown) ==
    /\ t.term.chars_printed = w.term.chars_printed + 1 \/ t.term.chars_printed = 1
    /\ shown => /\ t.term.screen_x \in 0 .. NUM_COLS - 1
                /\ t.term.screen_y \in 0 .. NUM_ROWS - 1

\* What the body of the loop does to a writing state
LEMMA WriteCharFacts ==
    ASSUME NEW w, WOK(w), NEW c, NEW cell \in 0 .. NTerms, NEW shown \in BOOLEAN
    PROVE  /\ Kept(WriteChar(w, c, cell, shown), w, shown)
           /\ c # "nul" => Moved(WriteChar(w, c, cell, shown), w, shown)
<1>1. PICK t : t = WriteChar(w, c, cell, shown)
  OBVIOUS
<1>2. PICK b, m, e : /\ b = Begun(w, cell, shown) /\ m = Middle(w, c, cell, shown)
                     /\ e = Ended(w, c, cell, shown)
  OBVIOUS
<1>3. t = IF ~(w.term.chars_printed > NUM_COLS) /\ c = "nul" THEN w
          ELSE SetChars(e, e.term.chars_printed + 1)
  BY <1>1, <1>2, WriteCharParts, Zenon
<1>4. CASE ~(w.term.chars_printed > NUM_COLS) /\ c = "nul"
  BY <1>1, <1>3, <1>4, Zenon DEF Kept
<1>5. CASE ~(~(w.term.chars_printed > NUM_COLS) /\ c = "nul")
  <2>1. WOK(b) /\ SameLine(b.term, w.term) /\ (~shown => b.cur = w.cur /\ b.page = w.page)
        /\ (shown => b.term.video_buffer = w.term.video_buffer)
    <3>1. CASE w.term.chars_printed > NUM_COLS
      <4>1. b = Draw(w, "nl", cell, shown)
        BY <1>2, <3>1, Zenon DEF Begun
      <4>2. Drawn(b, w, shown)
        BY <4>1, DrawAny, Zenon
      <4> QED
        BY <4>2, Zenon DEF Drawn
    <3>2. CASE ~(w.term.chars_printed > NUM_COLS)
      <4>1. b = w
        BY <1>2, <3>2, Zenon DEF Begun
      <4> QED
        BY <4>1, Zenon DEF SameLine
    <3> QED
      BY <3>1, <3>2, Zenon
  <2>2. PICK n : n = m.term.chars_printed
    OBVIOUS
  <2>3. /\ WOK(m) /\ (~shown => m.cur = w.cur /\ m.page = w.page)
        /\ (shown => m.term.video_buffer = w.term.video_buffer)
        /\ m.term.starting_offset = w.term.starting_offset
        /\ m.term.input_pointer = w.term.input_pointer
        /\ n = 0 \/ (n = w.term.chars_printed /\ ~(w.term.chars_printed > NUM_COLS))
    <3>1. CASE w.term.chars_printed > NUM_COLS \/ c = "nl"
      <4>1. m = SetChars(b, 0)
        BY <1>2, <3>1, Zenon DEF Middle
      <4>2. Counted(m, b, 0)
        BY <2>1, <4>1, ZeroCount, CharsSet, Zenon
      <4> QED
        BY <2>1, <2>2, <4>2, Zenon DEF Counted, SameLine
    <3>2. CASE ~(w.term.chars_printed > NUM_COLS \/ c = "nl")
      <4>1. m = b /\ ~(w.term.chars_printed > NUM_COLS)
        BY <1>2, <3>2, Zenon DEF Middle
      <4> QED
        BY <2>1, <2>2, <4>1, Zenon DEF SameLine
    <3> QED
      BY <3>1, <3>2, Zenon
  <2>4. Drawn(e, m, shown)
    <3>1. e = Draw(m, c, cell, shown)
      BY <1>2, Zenon DEF Ended
    <3> QED
      BY <2>3, <3>1, DrawAny, Zenon
  <2>5. WOK(e) /\ e.term.chars_printed = n
    BY <2>2, <2>4, Zenon DEF Drawn, SameLine
  <2>6. n + 1 \in 1 - BUFFER_SIZE .. NUM_COLS + 1
        /\ n + 1 >= e.term.input_pointer - (BUFFER_SIZE - 1)
    <3>1. /\ w.term.chars_printed \in 1 - BUFFER_SIZE .. NUM_COLS + 1
          /\ e.term.input_pointer \in 0 .. BUFFER_SIZE - 1
          /\ e.term.chars_printed >= e.term.input_pointer - (BUFFER_SIZE - 1)
      BY <2>5, ZeroCount, Zenon
    <3> QED
      BY <2>3, <2>5, <3>1, Sizes
  <2>7. t = SetChars(e, n + 1)
    BY <1>3, <1>5, <2>5, Zenon
  <2>8. Counted(t, e, n + 1)
    BY <2>5, <2>6, <2>7, CharsSet, Zenon
  <2>9. Kept(t, w, shown)
    BY <2>3, <2>4, <2>8, Zenon DEF Counted, Drawn, SameLine, Kept
  <2>10. n + 1 = w.term.chars_printed + 1 \/ n + 1 = 1
    BY <2>3
  <2>11. Moved(t, w, shown)
    BY <2>4, <2>8, <2>10, Zenon DEF Counted, Drawn, Moved
  <2> QED
    BY <1>1, <2>9, <2>11, Zenon
<1> QED
  BY <1>4, <1>5, Zenon

\* Setting the same count keeps states alike
LEMMA CharsAlike ==
    ASSUME NEW h, NEW d, Alike(h, d), NEW n \in 1 - BUFFER_SIZE .. NUM_COLS + 1,
           n >= h.term.input_pointer - (BUFFER_SIZE - 1),
           n >= d.term.input_pointer - (BUFFER_SIZE - 1)
    PROVE  Alike(SetChars(h, n), SetChars(d, n))
<1>1. WOK(h) /\ WOK(d)
  BY Zenon DEF Alike
<1>2. Counted(SetChars(h, n), h, n) /\ Counted(SetChars(d, n), d, n)
  BY <1>1, CharsSet, Zenon
<1> QED
  BY <1>2, Zenon DEF Alike, Counted

\* A character written on the hidden and on the displayed terminal looks alike
LEMMA WriteCharAlike ==
    ASSUME NEW h, NEW d, Alike(h, d), NEW c, NEW cell \in 0 .. NTerms
    PROVE  Alike(WriteChar(h, c, cell, FALSE), WriteChar(d, c, cell, TRUE))
<1>0. WOK(h) /\ WOK(d) /\ h.term.chars_printed = d.term.chars_printed
  BY Zenon DEF Alike
<1>1. PICK b, g : b = Begun(h, cell, FALSE) /\ g = Begun(d, cell, TRUE)
  OBVIOUS
<1>2. PICK m, o : m = Middle(h, c, cell, FALSE) /\ o = Middle(d, c, cell, TRUE)
  OBVIOUS
<1>3. PICK e, f : e = Ended(h, c, cell, FALSE) /\ f = Ended(d, c, cell, TRUE)
  OBVIOUS
<1>4. /\ WriteChar(h, c, cell, FALSE) =
            IF ~(h.term.chars_printed > NUM_COLS) /\ c = "nul" THEN h
            ELSE SetChars(e, e.term.chars_printed + 1)
      /\ WriteChar(d, c, cell, TRUE) =
            IF ~(d.term.chars_printed > NUM_COLS) /\ c = "nul" THEN d
            ELSE SetChars(f, f.term.chars_printed + 1)
  BY <1>3, WriteCharParts, Zenon
<1>5. CASE ~(d.term.chars_printed > NUM_COLS) /\ c = "nul"
  BY <1>0, <1>4, <1>5, Zenon
<1>6. CASE ~(~(d.term.chars_printed > NUM_COLS) /\ c = "nul")
  <2>1. Alike(b, g) /\ (~(d.term.chars_printed > NUM_COLS) => b = h /\ g = d)
    <3>1. CASE d.term.chars_printed > NUM_COLS
      <4>1. b = Draw(h, "nl", cell, FALSE) /\ g = Draw(d, "nl", cell, TRUE)
        BY <1>0, <1>1, <3>1, Zenon DEF Begun
      <4> QED
        BY <3>1, <4>1, DrawAlike, Zenon
    <3>2. CASE ~(d.term.chars_printed > NUM_COLS)
      BY <1>0, <1>1, <3>2, Zenon DEF Begun
    <3> QED
      BY <3>1, <3>2, Zenon
  <2>2. /\ Alike(m, o)
        /\ \/ o.term.chars_printed = 0
           \/ o.term.chars_printed = d.term.chars_printed
              /\ ~(d.term.chars_printed > NUM_COLS)
    <3>1. CASE d.term.chars_printed > NUM_COLS \/ c = "nl"
      <4>1. m = SetChars(b, 0) /\ o = SetChars(g, 0)
        BY <1>0, <1>1, <1>2, <3>1, Zenon DEF Middle
      <4>2. WOK(b) /\ WOK(g)
        BY <2>1, Zenon DEF Alike
      <4>3. Alike(m, o)
        BY <2>1, <4>1, <4>2, ZeroCount, CharsAlike, Zenon
      <4>4. Counted(o, g, 0)
        BY <4>1, <4>2, ZeroCount, CharsSet, Zenon
      <4> QED
        BY <4>3, <4>4, Zenon DEF Counted
    <3>2. CASE ~(d.term.chars_printed > NUM_COLS \/ c = "nl")
      BY <1>0, <1>1, <1>2, <2>1, <3>2, Zenon DEF Middle
    <3> QED
      BY <3>1, <3>2, Zenon
  <2>3. Alike(e, f) /\ SameLine(f.term, o.term)
    <3>1. e = Draw(m, c, cell, FALSE) /\ f = Draw(o, c, cell, TRUE)
      BY <1>2, <1>3, Zenon DEF Ended
    <3>2. Drawn(f, o, TRUE)
      BY <2>2, <3>1, DrawAny, Zenon DEF Alike
    <3> QED
      BY <2>2, <3>1, <3>2, DrawAlike, Zenon DEF Drawn
  <2>4. PICK n : n = f.term.chars_printed
    OBVIOUS
  <2>5. e.term.chars_printed = n /\ WOK(e) /\ WOK(f)
    BY <2>3, <2>4, Zenon DEF Alike
  <2>6. /\ n + 1 \in 1 - BUFFER_SIZE .. NUM_COLS + 1
        /\ n + 1 >= e.term.input_pointer - (BUFFER_SIZE - 1)
        /\ n + 1 >= f.term.input_pointer - (BUFFER_SIZE - 1)
    <3>1. /\ d.term.chars_printed \in 1 - BUFFER_SIZE .. NUM_COLS + 1
          /\ e.term.input_pointer \in 0 .. BUFFER_SIZE - 1
          /\ f.term.input_pointer \in 0 .. BUFFER_SIZE - 1
          /\ n >= e.term.input_pointer - (BUFFER_SIZE - 1)
          /\ n >= f.term.input_pointer - (BUFFER_SIZE - 1)
      BY <1>0, <2>4, <2>5, ZeroCount, Zenon
    <3>2. n = o.term.chars_printed
      BY <2>3, <2>4, Zenon DEF SameLine
    <3>3. PICK k : k = d.term.chars_printed
      OBVIOUS
    <3>4. n = 0 \/ (n = k /\ ~(k > NUM_COLS))
      BY <2>2, <3>2, <3>3, Zenon
    <3>5. PICK p, q : p = e.term.input_pointer /\ q = f.term.input_pointer
      OBVIOUS
    <3> QED
      BY <3>1, <3>3, <3>4, <3>5, Sizes, SMTT(30)
  <2>7. Alike(SetChars(e, n + 1), SetChars(f, n + 1))
    BY <2>3, <2>6, CharsAlike, Zenon
  <2> QED
    BY <1>0, <1>4, <1>6, <2>4, <2>5, <2>7, Zenon
<1> QED
  BY <1>5, <1>6, Zenon

\* L lists the states of a loop that writes
IsWriteLoop(L, start, text, cell, shown) ==
    /\ L[0] = start
    /\ \A i \in 1 .. Len(text) : L[i] = WriteChar(L[i - 1], text[i], cell, shown)
    /\ \A i \in 0 .. Len(text) : Kept(L[i], start, shown)

\* The recursion has a solution, so the loop is defined for every text
LEMMA WriteLoopDefined ==
    ASSUME NEW start, WOK(start), NEW text \in Seq(Chars), NEW cell \in 0 .. NTerms,
           NEW shown \in BOOLEAN, NEW L, L = WriteLoop(start, text, cell, shown)
    PROVE  IsWriteLoop(L, start, text, cell, shown)
<1>1. PICK n \in Nat : n = Len(text)
  BY LenProperties
<1> DEFINE S == {w \in WStates : LineRoom(w.term)}
<1>2. \A w : w \in S <=> WOK(w)
  BY DEF WOK
<1>3. start \in S
  BY <1>2
<1>4. PICK W : W = S
  OBVIOUS
<1>5. start \in W /\ \A w : w \in W <=> WOK(w)
  BY <1>2, <1>3, <1>4, Zenon
<1> HIDE DEF S
<1> DEFINE G == [x \in (1 .. n) \X W |-> WriteChar(x[2], text[x[1]], cell, shown)]
           Body(f) == [i \in 0 .. n |->
                         IF i = 0 THEN start ELSE WriteChar(f[i - 1], text[i], cell, shown)]
           Is(f) == f = Body(f)
<1>6. G \in [(1 .. n) \X W -> W]
  <2>1. ASSUME NEW x \in (1 .. n) \X W
        PROVE  WriteChar(x[2], text[x[1]], cell, shown) \in W
    <3>1. WOK(x[2])
      BY <1>5
    <3>2. Kept(WriteChar(x[2], text[x[1]], cell, shown), x[2], shown)
      BY <3>1, WriteCharFacts, Zenon
    <3> QED
      BY <1>5, <3>2, Zenon DEF Kept
  <2> QED
    BY <2>1
<1>7. PICK f : IsLoop(f, W, start, n, G)
  <2> HIDE DEF G
  <2> QED
    BY <1>5, <1>6, Recursion
<1>8. Is(f)
  <2>1. ASSUME NEW i \in 1 .. n PROVE f[i] = WriteChar(f[i - 1], text[i], cell, shown)
    <3>1. <<i, f[i - 1]>> \in (1 .. n) \X W
      BY <1>7 DEF IsLoop
    <3>2. G[<<i, f[i - 1]>>] = WriteChar(f[i - 1], text[i], cell, shown)
      BY <3>1
    <3> HIDE DEF G
    <3> QED
      BY <1>7, <3>2 DEF IsLoop
  <2> HIDE DEF G
  <2>2. \A i \in 0 .. n :
           f[i] = IF i = 0 THEN start ELSE WriteChar(f[i - 1], text[i], cell, shown)
    BY <1>7, <2>1 DEF IsLoop
  <2> QED
    BY <1>7, <2>2 DEF IsLoop
<1> HIDE DEF G
<1>9. L = CHOOSE g : Is(g)
  BY <1>1, Zenon DEF WriteLoop
<1>10. Is(L)
  <2> HIDE DEF Is
  <2> QED
    BY <1>8, <1>9, Zenon
<1>11. L[0] = start /\ \A i \in 1 .. n : L[i] = WriteChar(L[i - 1], text[i], cell, shown)
  <2>1. L = Body(L)
    BY <1>10
  <2>2. \A i \in 0 .. n :
           L[i] = IF i = 0 THEN start ELSE WriteChar(L[i - 1], text[i], cell, shown)
    BY <2>1
  <2> QED
    BY <2>2
<1> DEFINE T == {i \in 0 .. n : Kept(L[i], start, shown)}
<1>12. \A i \in 0 .. n : i \in T
  <2>1. 0 \in T
    <3>1. Kept(start, start, shown)
      BY DEF Kept
    <3> QED
      BY <1>11, <3>1
  <2>2. ASSUME NEW i \in 0 .. n - 1, i \in T PROVE i + 1 \in T
    <3>1. i + 1 \in 1 .. n /\ (i + 1) - 1 = i
      OBVIOUS
    <3>2. PICK w : w = L[i]
      OBVIOUS
    <3>3. L[i + 1] = WriteChar(w, text[i + 1], cell, shown)
      BY <1>11, <3>1, <3>2
    <3>4. Kept(w, start, shown)
      BY <2>2, <3>2
    <3>5. Kept(L[i + 1], w, shown)
      <4>1. WOK(w)
        BY <3>4, Zenon DEF Kept
      <4> QED
        BY <3>3, <4>1, WriteCharFacts, Zenon
    <3>6. Kept(L[i + 1], start, shown)
      BY <3>4, <3>5, Zenon DEF Kept
    <3> QED
      BY <3>1, <3>6
  <2> HIDE DEF T
  <2> QED
    BY <2>1, <2>2, SetInduction
<1> QED
  BY <1>1, <1>11, <1>12 DEF IsWriteLoop

\* A text written on the hidden and on the displayed terminal looks alike
LEMMA WriteTextAlike ==
    ASSUME NEW h, NEW d, Alike(h, d), NEW text \in Seq(Chars), NEW cell \in 0 .. NTerms
    PROVE  Alike(WriteLoop(h, text, cell, FALSE)[Len(text)],
                 WriteLoop(d, text, cell, TRUE)[Len(text)])
<1>1. PICK n \in Nat : n = Len(text)
  BY LenProperties
<1>2. PICK L, M : L = WriteLoop(h, text, cell, FALSE) /\ M = WriteLoop(d, text, cell, TRUE)
  OBVIOUS
<1>3. WOK(h) /\ WOK(d)
  BY Zenon DEF Alike
<1>4. IsWriteLoop(L, h, text, cell, FALSE) /\ IsWriteLoop(M, d, text, cell, TRUE)
  BY <1>2, <1>3, WriteLoopDefined, Zenon
<1>5. /\ L[0] = h /\ M[0] = d
      /\ \A i \in 1 .. n : /\ L[i] = WriteChar(L[i - 1], text[i], cell, FALSE)
                           /\ M[i] = WriteChar(M[i - 1], text[i], cell, TRUE)
  BY <1>1, <1>4, Zenon DEF IsWriteLoop
<1> DEFINE T == {i \in 0 .. n : Alike(L[i], M[i])}
<1>6. \A i \in 0 .. n : i \in T
  <2>1. 0 \in T
    BY <1>5
  <2>2. ASSUME NEW i \in 0 .. n - 1, i \in T PROVE i + 1 \in T
    <3>1. i + 1 \in 1 .. n /\ (i + 1) - 1 = i
      OBVIOUS
    <3>2. PICK u, v : u = L[i] /\ v = M[i]
      OBVIOUS
    <3>3. L[i + 1] = WriteChar(u, text[i + 1], cell, FALSE)
          /\ M[i + 1] = WriteChar(v, text[i + 1], cell, TRUE)
      BY <1>5, <3>1, <3>2
    <3>4. Alike(u, v)
      BY <2>2, <3>2
    <3>5. Alike(L[i + 1], M[i + 1])
      BY <3>3, <3>4, WriteCharAlike, Zenon
    <3> QED
      BY <3>1, <3>5
  <2> HIDE DEF T
  <2> QED
    BY <2>1, <2>2, SetInduction
<1>7. Alike(L[n], M[n])
  BY <1>6
<1> QED
  BY <1>1, <1>2, <1>7, Zenon

-----------------------------------------------------------------------------
(* The invariant                                                           *)

IInv == TypeOK /\ DrawsOnScreen /\ \A t \in Terms : LineRoom(terminal_list[t])

\* TypeOK for the variables that are neither a terminal, the cursor nor the screen
RestType ==
    /\ current_terminal_index \in Terms /\ cur_ptree \in Terms
    /\ at \in [Terms -> {"run", "exc", "read"}]
    /\ ops \in 0 .. MaxOps

\* The parts of the invariant
LEMMA InvParts ==
    ASSUME IInv
    PROVE  /\ terminal_list \in [Terms -> TermStates]
           /\ \A t \in Terms : TermOK(terminal_list[t])
           /\ cursor \in Cursors /\ video_mem \in Pages /\ RestType
<1>1. /\ terminal_list \in [Terms -> TermStates] /\ video_mem \in Pages
      /\ {current_terminal_index, cur_ptree} \subseteq Terms
      /\ at \in [Terms -> {"run", "exc", "read"}] /\ ops \in 0 .. MaxOps
      /\ \A t \in Terms : LineRoom(terminal_list[t])
  BY Zenon DEF IInv, TypeOK, TermStates, Pages
<1>2. cursor \in Cursors
  <2>1. cursor \in [x : Int, y : Int]
    BY Zenon DEF IInv, TypeOK
  <2>2. cursor.x \in 0 .. NUM_COLS - 1 /\ cursor.y \in 0 .. NUM_ROWS - 1
    BY Zenon DEF IInv, DrawsOnScreen
  <2> QED
    BY <2>1, <2>2 DEF Cursors
<1>3. RestType
  BY <1>1, Zenon DEF RestType
<1>4. \A t \in Terms : TermOK(terminal_list[t])
  BY <1>1 DEF TermOK
<1> QED
  BY <1>1, <1>2, <1>3, <1>4, Zenon

\* A step to a state with these parts keeps the invariant
LEMMA InvNext ==
    ASSUME terminal_list' \in [Terms -> TermStates],
           \A t \in Terms : TermOK(terminal_list'[t]),
           cursor' \in Cursors, video_mem' \in Pages, RestType'
    PROVE  IInv'
<1>1. cursor' \in [x : Int, y : Int]
  BY Sizes DEF Cursors
<1>2. DrawsOnScreen'
  BY DEF Cursors, DrawsOnScreen
<1>3. TypeOK'
  BY <1>1, Zenon DEF TypeOK, RestType, TermStates, Pages
<1>4. \A t \in Terms : LineRoom(terminal_list'[t])
  BY Zenon DEF TermOK
<1> QED
  BY <1>2, <1>3, <1>4, Zenon DEF IInv

\* A step that changes one terminal
LEMMA TermStep ==
    ASSUME IInv, NEW t \in Terms, NEW u, TermOK(u),
           terminal_list' = [terminal_list EXCEPT ![t] = u],
           cursor' \in Cursors, video_mem' \in Pages, RestType'
    PROVE  IInv'
<1>1. terminal_list \in [Terms -> TermStates] /\ \A e \in Terms : TermOK(terminal_list[e])
  BY InvParts, Zenon
<1>2. u \in TermStates
  BY Zenon DEF TermOK
<1>3. terminal_list' \in [Terms -> TermStates]
  BY <1>1, <1>2, Zenon
<1>4. \A e \in Terms : TermOK(terminal_list'[e])
  BY <1>1, Zenon
<1> QED
  BY <1>3, <1>4, InvNext, Zenon

\* Counting a step keeps the bound
LEMMA CountStep ==
    ASSUME IInv, Count, current_terminal_index' \in Terms, cur_ptree' \in Terms,
           at' \in [Terms -> {"run", "exc", "read"}]
    PROVE  RestType'
<1>1. ops \in 0 .. MaxOps /\ ops < MaxOps /\ ops' = ops + 1
  BY InvParts, Zenon DEF RestType, Count
<1>2. ops' \in 0 .. MaxOps
  BY <1>1, Sizes
<1> QED
  BY <1>2, Zenon DEF RestType

\* The state a writing loop starts from
Start(t) == [term |-> terminal_list[t], cur |-> cursor, page |-> video_mem]

\* What it is
LEMMA StartOK ==
    ASSUME IInv, NEW t \in Terms
    PROVE  /\ WOK(Start(t)) /\ t + 1 \in 0 .. NTerms
           /\ Start(t).term = terminal_list[t] /\ Start(t).cur = cursor
           /\ Start(t).page = video_mem
<1>1. TermOK(terminal_list[t]) /\ cursor \in Cursors /\ video_mem \in Pages
  BY InvParts, Zenon
<1>2. PICK u, v, p : u = terminal_list[t] /\ v = cursor /\ p = video_mem
  OBVIOUS
<1>3. u \in TermStates /\ LineRoom(u) /\ v \in Cursors /\ p \in Pages
  BY <1>1, <1>2, Zenon DEF TermOK
<1>4. \A z : z = [term |-> u, cur |-> v, page |-> p]
              => z \in WStates /\ z.term = u /\ z.cur = v /\ z.page = p
  BY <1>3 DEF WStates
<1>5. Start(t) = [term |-> u, cur |-> v, page |-> p]
  BY <1>2, Zenon DEF Start
<1>6. t + 1 \in 0 .. NTerms
  BY Sizes DEF Terms
<1>7. Start(t) \in WStates /\ Start(t).term = u /\ Start(t).cur = v /\ Start(t).page = p
  BY <1>4, <1>5, Zenon
<1> QED
  BY <1>2, <1>3, <1>6, <1>7, Zenon DEF WOK

\* What a text written on a terminal leaves alone
LEMMA TextKept ==
    ASSUME IInv, NEW t \in Terms, NEW text \in Seq(Chars), NEW shown \in BOOLEAN
    PROVE  Kept(WriteText(t, text, shown), Start(t), shown)
<1>1. WOK(Start(t)) /\ t + 1 \in 0 .. NTerms
  BY StartOK, Zenon
<1>2. PICK L : L = WriteLoop(Start(t), text, t + 1, shown)
  OBVIOUS
<1>3. IsWriteLoop(L, Start(t), text, t + 1, shown)
  BY <1>1, <1>2, WriteLoopDefined, Zenon
<1>4. WriteText(t, text, shown) = L[Len(text)]
  BY <1>2, Zenon DEF WriteText, Start
<1>5. Len(text) \in 0 .. Len(text)
  BY LenProperties
<1> QED
  BY <1>3, <1>4, <1>5, Zenon DEF IsWriteLoop

\* Where a single character leaves the displayed terminal
LEMMA KeyMoved ==
    ASSUME IInv, NEW t \in Terms, NEW c \in {"chr", "nl"}
    PROVE  Moved(WriteText(t, <<c>>, TRUE), Start(t), TRUE)
<1>1. WOK(Start(t)) /\ t + 1 \in 0 .. NTerms
  BY StartOK, Zenon
<1>2. PICK text : text = <<c>>
  OBVIOUS
<1>3. text \in Seq(Chars) /\ Len(text) = 1 /\ text[1] = c /\ c # "nul"
  BY <1>2 DEF Chars
<1>4. PICK L : L = WriteLoop(Start(t), text, t + 1, TRUE)
  OBVIOUS
<1>5. IsWriteLoop(L, Start(t), text, t + 1, TRUE)
  BY <1>1, <1>3, <1>4, WriteLoopDefined, Zenon
<1>6. WriteText(t, text, TRUE) = L[1]
  BY <1>3, <1>4, Zenon DEF WriteText, Start
<1>7. L[0] = Start(t) /\ L[1] = WriteChar(L[0], c, t + 1, TRUE)
  <2>1. L[0] = Start(t) /\ \A i \in 1 .. Len(text) : L[i] = WriteChar(L[i - 1], text[i], t + 1, TRUE)
    BY <1>5, Zenon DEF IsWriteLoop
  <2>2. 1 \in 1 .. Len(text) /\ 1 - 1 = 0
    BY <1>3
  <2> QED
    BY <1>3, <2>1, <2>2
<1>8. Moved(WriteChar(Start(t), c, t + 1, TRUE), Start(t), TRUE)
  BY <1>1, <1>3, WriteCharFacts, Zenon
<1> QED
  BY <1>2, <1>6, <1>7, <1>8, Zenon

\* Blank terminals, a blank screen, everything at its first position
LEMMA InitInv == Init => IInv
<1> SUFFICES ASSUME Init PROVE IInv
  OBVIOUS
<1>1. PICK page : page = BlankPage
  OBVIOUS
<1>2. page \in Pages
  BY <1>1, Sizes DEF BlankPage, Pages
<1>3. PICK term : term = [screen_x |-> 0, screen_y |-> 0, chars_printed |-> 0,
                          starting_offset |-> SHELL_OFFSET, input_pointer |-> 0,
                          video_buffer |-> page]
  OBVIOUS
<1>4. terminal_list = [t \in Terms |-> term] /\ cursor = [x |-> 0, y |-> 0]
      /\ video_mem = page /\ current_terminal_index = 0 /\ cur_ptree = 0
      /\ at = [t \in Terms |-> "run"] /\ ops = 0
  BY <1>1, <1>3, Zenon DEF Init
<1>5. term \in TermStates
  BY <1>2, <1>3, Sizes DEF TermStates
<1>6. LineRoom(term)
  BY <1>3, Sizes DEF LineRoom
<1>7. terminal_list \in [Terms -> TermStates] /\ \A t \in Terms : LineRoom(terminal_list[t])
  BY <1>4, <1>5, <1>6, Zenon
<1>8. DrawsOnScreen /\ cursor \in [x : Int, y : Int]
  BY <1>4, Sizes DEF DrawsOnScreen
<1>9. {current_terminal_index, cur_ptree} \subseteq Terms /\ ops \in 0 .. MaxOps
  BY <1>4, Sizes DEF Terms
<1>10. at \in [Terms -> {"run", "exc", "read"}]
  BY <1>4
<1>11. TypeOK
  BY <1>2, <1>4, <1>7, <1>8, <1>9, <1>10, Zenon DEF TypeOK, TermStates, Pages
<1> QED
  BY <1>7, <1>8, <1>11, Zenon DEF IInv

\* Writing a text on a terminal keeps the invariant
LEMMA TextInv ==
    ASSUME IInv, NEW t \in Terms, NEW text \in Seq(Chars), NEW shown \in BOOLEAN,
           Written(t, WriteText(t, text, shown)), RestType'
    PROVE  IInv'
<1>1. PICK w : w = WriteText(t, text, shown)
  OBVIOUS
<1>2. WOK(w)
  BY <1>1, TextKept, Zenon DEF Kept
<1>3. TermOK(w.term) /\ w.cur \in Cursors /\ w.page \in Pages
  BY <1>2, WFields, Zenon
<1>4. terminal_list' = [terminal_list EXCEPT ![t] = w.term] /\ cursor' = w.cur
      /\ video_mem' = w.page
  BY <1>1, Zenon DEF Written
<1> QED
  BY <1>3, <1>4, TermStep, Zenon

\* terminal_write of the executing program
LEMMA WriteInv ==
    ASSUME IInv, NEW text \in Seq(Chars), terminal_write(text)
    PROVE  IInv'
<1>1. RestType /\ cur_ptree \in Terms
  BY InvParts, Zenon DEF RestType
<1>2. PICK shown \in BOOLEAN : shown = (cur_ptree = current_terminal_index)
  OBVIOUS
<1>3. Count /\ Written(cur_ptree, WriteText(cur_ptree, text, shown))
      /\ current_terminal_index' = current_terminal_index /\ cur_ptree' = cur_ptree /\ at' = at
  BY <1>2, Zenon DEF terminal_write
<1>4. RestType'
  BY <1>1, <1>3, CountStep, Zenon DEF RestType
<1> QED
  BY <1>1, <1>3, <1>4, TextInv, Zenon

\* terminal_read: the echo of what was typed ahead
LEMMA EchoInv ==
    ASSUME IInv, ReadEcho
    PROVE  IInv'
<1>1. RestType /\ cur_ptree \in Terms /\ terminal_list[cur_ptree] \in TermStates
  BY InvParts, Zenon DEF RestType, TermOK
<1>2. PICK shown \in BOOLEAN : shown = (cur_ptree = current_terminal_index)
  OBVIOUS
<1>3. PICK n : n = terminal_list[cur_ptree].input_pointer
  OBVIOUS
<1>4. PICK text : text = [i \in 1 .. n |-> "chr"]
  OBVIOUS
<1>5. text \in Seq(Chars)
  <2>1. n \in Nat
    BY <1>1, <1>3, TermFields, Sizes
  <2> QED
    BY <1>4, <2>1 DEF Chars
<1>6. Count /\ Written(cur_ptree, WriteText(cur_ptree, text, shown))
      /\ current_terminal_index' = current_terminal_index /\ cur_ptree' = cur_ptree
      /\ at' = [at EXCEPT ![cur_ptree] = "run"]
  BY <1>2, <1>3, <1>4, Zenon DEF ReadEcho
<1>7. at' \in [Terms -> {"run", "exc", "read"}]
  BY <1>1, <1>6 DEF RestType
<1>8. RestType'
  BY <1>1, <1>6, <1>7, CountStep, Zenon DEF RestType
<1> QED
  BY <1>1, <1>5, <1>6, <1>8, TextInv, Zenon

\* terminal_read: the column of the prompt
LEMMA OffsetInv ==
    ASSUME IInv, ReadOffset
    PROVE  IInv'
<1>1. PICK t : t = current_terminal_index
  OBVIOUS
<1>2. RestType /\ t \in Terms /\ TermOK(terminal_list[t]) /\ cursor \in Cursors
      /\ video_mem \in Pages /\ cur_ptree \in Terms
  BY <1>1, InvParts, Zenon DEF RestType
<1>3. PICK u : u = [terminal_list[t] EXCEPT !.starting_offset = cursor.x]
  OBVIOUS
<1>4. Count /\ terminal_list' = [terminal_list EXCEPT ![t] = u]
      /\ current_terminal_index' = current_terminal_index /\ cur_ptree' = cur_ptree
      /\ at' = [at EXCEPT ![cur_ptree] = "read"] /\ cursor' = cursor /\ video_mem' = video_mem
  BY <1>1, <1>3, Zenon DEF ReadOffset
<1>5. TermOK(u)
  <2>1. cursor.x \in 0 .. NUM_COLS - 1 /\ terminal_list[t] \in TermStates
        /\ LineRoom(terminal_list[t])
    BY <1>2 DEF Cursors, TermOK
  <2>2. /\ u \in TermStates /\ u.screen_x = terminal_list[t].screen_x
        /\ u.chars_printed = terminal_list[t].chars_printed
        /\ u.input_pointer = terminal_list[t].input_pointer
    BY <1>3, <2>1 DEF TermStates
  <2> QED
    BY <2>1, <2>2, Zenon DEF TermOK, LineRoom
<1>6. at' \in [Terms -> {"run", "exc", "read"}]
  BY <1>2, <1>4 DEF RestType
<1>7. RestType'
  BY <1>1, <1>2, <1>4, <1>6, CountStep, Zenon DEF RestType
<1> QED
  BY <1>2, <1>4, <1>5, <1>7, TermStep, Zenon

\* A key: the line grows by one, and its echo moves the cursor and the count
\* as far
LEMMA KeyInv ==
    ASSUME IInv, NEW c \in {"chr", "nl"}, terminal_add_to_buffer(c)
    PROVE  IInv'
<1>1. PICK t : t = current_terminal_index
  OBVIOUS
<1>2. RestType /\ t \in Terms /\ TermOK(terminal_list[t])
  BY <1>1, InvParts, Zenon DEF RestType
<1>3. PICK w : w = WriteText(t, <<c>>, TRUE)
  OBVIOUS
<1>4. PICK n : n = terminal_list[t].input_pointer
  OBVIOUS
<1>5. PICK ptr : ptr = IF c = "nl" THEN 0 ELSE n + 1
  OBVIOUS
<1>6. PICK y : y = w.term.screen_y + 1
  OBVIOUS
<1>7. PICK z : z = IF w.term.screen_x = 0 /\ ptr >= NUM_COLS - w.term.starting_offset
                   THEN [w EXCEPT !.term.input_pointer = ptr,
                                  !.term.screen_y      = y,
                                  !.term.chars_printed = 0,
                                  !.page = IF y >= NUM_ROWS - 1 THEN scroll_up(@) ELSE @]
                   ELSE [w EXCEPT !.term.input_pointer = ptr]
  OBVIOUS
<1>8. Count /\ n < BUFFER_SIZE - 1 /\ Written(t, z)
      /\ current_terminal_index' = current_terminal_index /\ cur_ptree' = cur_ptree /\ at' = at
  BY <1>1, <1>3, <1>4, <1>5, <1>6, <1>7, Zenon DEF terminal_add_to_buffer, Displayed
<1>9. RestType'
  BY <1>2, <1>8, CountStep, Zenon DEF RestType
<1>10. Kept(w, Start(t), TRUE) /\ Moved(w, Start(t), TRUE) /\ Start(t).term = terminal_list[t]
  <2>1. <<c>> \in Seq(Chars)
    BY DEF Chars
  <2> QED
    BY <1>2, <1>3, <2>1, TextKept, KeyMoved, StartOK, Zenon
<1>11. /\ w \in WStates /\ w.term \in TermStates /\ w.cur \in Cursors /\ w.page \in Pages
       /\ w.term.screen_x \in 0 .. NUM_COLS - 1 /\ w.term.screen_y \in 0 .. NUM_ROWS - 1
       /\ \/ w.term.chars_printed = terminal_list[t].chars_printed + 1
          \/ w.term.chars_printed = 1
  BY <1>10, WFields, Zenon DEF Kept, Moved, WOK
<1>12. PICK u, v, p : u = w.term /\ v = w.cur /\ p = w.page
  OBVIOUS
<1>13. w = [term |-> u, cur |-> v, page |-> p]
  BY <1>11, <1>12 DEF WStates
<1>14. /\ ptr \in 0 .. BUFFER_SIZE - 1 /\ ptr <= n + 1 /\ n \in 0 .. BUFFER_SIZE - 1
       /\ terminal_list[t].chars_printed \in Int
       /\ terminal_list[t].chars_printed >= n - (BUFFER_SIZE - 1)
       /\ NUM_COLS \in Nat \ {0} /\ NUM_ROWS \in Nat \ {0} /\ BUFFER_SIZE \in Nat \ {0}
  <2>1. /\ n \in 0 .. BUFFER_SIZE - 1 /\ terminal_list[t].chars_printed \in Int
        /\ terminal_list[t].chars_printed >= n - (BUFFER_SIZE - 1)
    BY <1>2, <1>4, TermFields, Sizes DEF TermOK, LineRoom
  <2> QED
    BY <1>5, <1>8, <2>1, Sizes
<1>15. TermOK(z.term) /\ z.cur \in Cursors /\ z.page \in Pages
  <2>1. CASE w.term.screen_x = 0 /\ ptr >= NUM_COLS - w.term.starting_offset
    <3>1. PICK q : q = IF y >= NUM_ROWS - 1 THEN scroll_up(p) ELSE p
      OBVIOUS
    <3>2. q \in Pages
      BY <1>11, <1>12, <3>1, PageFacts, Zenon
    <3>3. PICK e : e = [u EXCEPT !.input_pointer = ptr, !.screen_y = y, !.chars_printed = 0]
      OBVIOUS
    <3>4. z.term = e /\ z.cur = v /\ z.page = q
      <4>1. z = [w EXCEPT !.term.input_pointer = ptr, !.term.screen_y = y,
                          !.term.chars_printed = 0,
                          !.page = IF y >= NUM_ROWS - 1 THEN scroll_up(@) ELSE @]
        BY <1>7, <2>1, Zenon
      <4> QED
        BY <1>13, <3>1, <3>3, <4>1
    <3>5. y \in 0 .. NUM_ROWS /\ 0 \in 1 - BUFFER_SIZE .. NUM_COLS + 1
      BY <1>6, <1>11, <1>14
    <3>6. u \in TermStates
      BY <1>11, <1>12
    <3>7. /\ e \in TermStates /\ e.screen_x = u.screen_x /\ e.chars_printed = 0
          /\ e.input_pointer = ptr
      BY <1>14, <3>3, <3>5, <3>6 DEF TermStates
    <3>8. LineRoom(e)
      BY <1>11, <1>12, <1>14, <3>7 DEF LineRoom
    <3> QED
      BY <1>11, <1>12, <3>2, <3>4, <3>7, <3>8, Zenon DEF TermOK
  <2>2. CASE ~(w.term.screen_x = 0 /\ ptr >= NUM_COLS - w.term.starting_offset)
    <3>1. PICK e : e = [u EXCEPT !.input_pointer = ptr]
      OBVIOUS
    <3>2. z.term = e /\ z.cur = v /\ z.page = p
      <4>1. z = [w EXCEPT !.term.input_pointer = ptr]
        BY <1>7, <2>2, Zenon
      <4> QED
        BY <1>13, <3>1, <4>1
    <3>3. u \in TermStates
      BY <1>11, <1>12
    <3>4. /\ e \in TermStates /\ e.screen_x = u.screen_x /\ e.chars_printed = u.chars_printed
          /\ e.input_pointer = ptr
      BY <1>14, <3>1, <3>3 DEF TermStates
    <3>5. LineRoom(e)
      BY <1>11, <1>12, <1>14, <3>4 DEF LineRoom
    <3> QED
      BY <1>11, <1>12, <3>2, <3>4, <3>5, Zenon DEF TermOK
  <2> QED
    BY <2>1, <2>2, Zenon
<1>16. terminal_list' = [terminal_list EXCEPT ![t] = z.term] /\ cursor' = z.cur
       /\ video_mem' = z.page
  BY <1>8, Zenon DEF Written
<1> QED
  BY <1>2, <1>9, <1>15, <1>16, TermStep, Zenon

\* Backspace: the line loses a character, the cursor and the count go back by
\* one, and lib.c's cursor stays on the screen
LEMMA BackspaceInv ==
    ASSUME IInv, terminal_backspace
    PROVE  IInv'
<1>1. PICK t : t = current_terminal_index
  OBVIOUS
<1>2. RestType /\ t \in Terms /\ TermOK(terminal_list[t]) /\ cursor \in Cursors
      /\ video_mem \in Pages
  BY <1>1, InvParts, Zenon DEF RestType
<1>3. PICK term : term = terminal_list[t]
  OBVIOUS
<1>4. PICK back : back = Back(term)
  OBVIOUS
<1>5. PICK cur : cur = set_cursor_pos(cursor, back.x, back.y)
  OBVIOUS
<1>6. PICK d : d = [x |-> cur.x, y |-> cur.y, page |-> video_mem]
  OBVIOUS
<1>7. PICK s : s = putc(d, "chr", 0)
  OBVIOUS
<1>8. PICK u : u = [term EXCEPT !.screen_x      = back.x,
                                !.screen_y      = back.y,
                                !.chars_printed = term.chars_printed - 1,
                                !.input_pointer = term.input_pointer - 1]
  OBVIOUS
<1>9. /\ term.input_pointer > 0 /\ Count
      /\ terminal_list' = [terminal_list EXCEPT ![t] = u]
      /\ cursor' = [x |-> s.x, y |-> s.y] /\ video_mem' = s.page
      /\ current_terminal_index' = current_terminal_index /\ cur_ptree' = cur_ptree /\ at' = at
  BY <1>1, <1>3, <1>4, <1>5, <1>6, <1>7, <1>8, Zenon
  DEF terminal_backspace, Erase, Displayed
<1>10. s \in DrawStates
  <2>1. cur.x \in 0 .. NUM_COLS - 1 /\ cur.y \in 0 .. NUM_ROWS - 1
    BY <1>2, <1>5, CursorFacts
  <2>2. d \in DrawStates
    BY <1>2, <1>6, <2>1 DEF DrawStates
  <2>3. 0 \in 0 .. NTerms
    BY Sizes
  <2> QED
    BY <1>7, <2>2, <2>3, PutcFacts
<1>11. cursor' \in Cursors /\ video_mem' \in Pages
  <2>1. s.x \in 0 .. NUM_COLS - 1 /\ s.y \in 0 .. NUM_ROWS - 1 /\ s.page \in Pages
    BY <1>10 DEF DrawStates
  <2> QED
    BY <1>9, <2>1 DEF Cursors
<1>12. PICK x, y, n, k : /\ x = term.screen_x /\ y = term.screen_y
                         /\ n = term.chars_printed /\ k = term.input_pointer
  OBVIOUS
<1>13. /\ x \in 1 - BUFFER_SIZE .. NUM_COLS - 1 /\ y \in 0 .. NUM_ROWS
       /\ n \in 1 - BUFFER_SIZE .. NUM_COLS + 1 /\ k \in 1 .. BUFFER_SIZE - 1
       /\ x >= k - (BUFFER_SIZE - 1) /\ n >= k - (BUFFER_SIZE - 1)
       /\ NUM_COLS \in Nat \ {0} /\ NUM_ROWS \in Nat \ {0} /\ BUFFER_SIZE \in Nat \ {0}
  BY <1>2, <1>3, <1>9, <1>12, TermFields, Sizes DEF TermOK, LineRoom
<1>14. PICK bx, by : bx = back.x /\ by = back.y
  OBVIOUS
<1>15. (bx = x - 1 \/ bx = NUM_COLS - 1) /\ (by = y \/ (y > 0 /\ by = y - 1))
  BY <1>4, <1>12, <1>14 DEF Back
<1>16. TermOK(u)
  <2>1. /\ bx \in 1 - BUFFER_SIZE .. NUM_COLS - 1 /\ by \in 0 .. NUM_ROWS
        /\ n - 1 \in 1 - BUFFER_SIZE .. NUM_COLS + 1 /\ k - 1 \in 0 .. BUFFER_SIZE - 1
        /\ bx >= (k - 1) - (BUFFER_SIZE - 1) /\ n - 1 >= (k - 1) - (BUFFER_SIZE - 1)
    BY <1>13, <1>15
  <2>2. PICK m, j : m = n - 1 /\ j = k - 1
    OBVIOUS
  <2>3. u = [term EXCEPT !.screen_x = bx, !.screen_y = by,
                         !.chars_printed = m, !.input_pointer = j]
    BY <1>8, <1>12, <1>14, <2>2, Zenon
  <2>4. term \in TermStates
    BY <1>2, <1>3 DEF TermOK
  <2>5. u \in TermStates /\ u.screen_x = bx /\ u.chars_printed = m /\ u.input_pointer = j
    BY <2>1, <2>2, <2>3, <2>4 DEF TermStates
  <2>6. LineRoom(u)
    BY <2>1, <2>2, <2>5 DEF LineRoom
  <2> QED
    BY <2>5, <2>6 DEF TermOK
<1>17. RestType'
  BY <1>2, <1>9, CountStep, Zenon DEF RestType
<1> QED
  BY <1>2, <1>9, <1>11, <1>16, <1>17, TermStep, Zenon

\* Control-L: the cursors go to the first position
LEMMA ClearInv ==
    ASSUME IInv, terminal_clear
    PROVE  IInv'
<1>1. PICK t : t = current_terminal_index
  OBVIOUS
<1>2. RestType /\ t \in Terms /\ TermOK(terminal_list[t])
      /\ terminal_list \in [Terms -> TermStates]
  BY <1>1, InvParts, Zenon DEF RestType
<1>3. PICK term : term = terminal_list[t]
  OBVIOUS
<1>4. PICK u : u = [term EXCEPT !.screen_x = 0, !.screen_y = 0]
  OBVIOUS
<1>5. /\ Count /\ cursor' = [x |-> 0, y |-> 0] /\ video_mem' = BlankPage
      /\ current_terminal_index' = current_terminal_index /\ cur_ptree' = cur_ptree /\ at' = at
      /\ terminal_list' = [terminal_list EXCEPT ![t].screen_x = 0, ![t].screen_y = 0]
  BY <1>1, Zenon DEF terminal_clear
<1>6. terminal_list' = [terminal_list EXCEPT ![t] = u]
  <2>1. terminal_list' = [[terminal_list EXCEPT ![t] = [terminal_list[t] EXCEPT !.screen_x = 0]]
                            EXCEPT ![t].screen_y = 0]
    BY <1>5
  <2> QED
    BY <1>2, <1>3, <1>4, <2>1
<1>7. TermOK(u)
  <2>1. term \in TermStates /\ LineRoom(term) /\ term.input_pointer \in 0 .. BUFFER_SIZE - 1
    BY <1>2, <1>3, TermFields DEF TermOK
  <2>2. 0 \in 1 - BUFFER_SIZE .. NUM_COLS - 1 /\ 0 \in 0 .. NUM_ROWS
    BY Sizes
  <2>3. /\ u \in TermStates /\ u.screen_x = 0 /\ u.chars_printed = term.chars_printed
        /\ u.input_pointer = term.input_pointer
    BY <1>4, <2>1, <2>2 DEF TermStates
  <2>4. LineRoom(u)
    BY <2>1, <2>3, Sizes DEF LineRoom
  <2> QED
    BY <2>3, <2>4 DEF TermOK
<1>8. cursor' \in Cursors /\ video_mem' \in Pages
  BY <1>5, Sizes DEF Cursors, BlankPage, Pages
<1>9. RestType'
  BY <1>2, <1>5, CountStep, Zenon DEF RestType
<1> QED
  BY <1>2, <1>6, <1>7, <1>8, <1>9, TermStep, Zenon

\* Alt-Fn: pages are exchanged
LEMMA SwitchInv ==
    ASSUME IInv, NEW n \in Terms, set_current_terminal(n)
    PROVE  IInv'
<1>1. PICK t : t = current_terminal_index
  OBVIOUS
<1>2. RestType /\ t \in Terms /\ TermOK(terminal_list[t]) /\ TermOK(terminal_list[n])
      /\ cursor \in Cursors /\ video_mem \in Pages
  BY <1>1, InvParts, Zenon DEF RestType
<1>3. PICK term : term = terminal_list[t]
  OBVIOUS
<1>4. PICK u : u = [term EXCEPT !.video_buffer = video_mem]
  OBVIOUS
<1>5. /\ Count /\ cursor' = cursor /\ video_mem' = terminal_list[n].video_buffer
      /\ current_terminal_index' = n /\ cur_ptree' = cur_ptree /\ at' = at
      /\ terminal_list' = [terminal_list EXCEPT ![t] = u]
  BY <1>1, <1>3, <1>4, Zenon DEF set_current_terminal
<1>6. TermOK(u)
  <2>1. term \in TermStates /\ LineRoom(term)
    BY <1>2, <1>3 DEF TermOK
  <2>2. /\ u \in TermStates /\ u.screen_x = term.screen_x
        /\ u.chars_printed = term.chars_printed /\ u.input_pointer = term.input_pointer
    BY <1>2, <1>4, <2>1 DEF TermStates
  <2> QED
    BY <2>1, <2>2, Zenon DEF TermOK, LineRoom
<1>7. video_mem' \in Pages
  BY <1>2, <1>5, TermFields DEF TermOK
<1>8. cursor' \in Cursors
  BY <1>2, <1>5, Zenon
<1>9. RestType'
  BY <1>2, <1>5, CountStep, Zenon DEF RestType
<1> QED
  BY <1>2, <1>5, <1>6, <1>7, <1>8, <1>9, TermStep, Zenon

\* The report of an exception ends in the last cell of the screen
LEMMA ErrorInv ==
    ASSUME IInv, print_error
    PROVE  IInv'
<1>1. RestType /\ cur_ptree \in Terms /\ terminal_list \in [Terms -> TermStates]
      /\ \A t \in Terms : TermOK(terminal_list[t])
  BY InvParts, Zenon DEF RestType
<1>2. /\ Count /\ video_mem' = [i \in Cells |-> cur_ptree + 1]
      /\ cursor' = [x |-> NUM_COLS - 1, y |-> NUM_ROWS - 1]
      /\ at' = [at EXCEPT ![cur_ptree] = "exc"]
      /\ terminal_list' = terminal_list /\ current_terminal_index' = current_terminal_index
      /\ cur_ptree' = cur_ptree
  BY Zenon DEF print_error
<1>3. cursor' \in Cursors
  BY <1>2, Sizes DEF Cursors
<1>4. video_mem' \in Pages
  BY <1>1, <1>2, Sizes DEF Terms, Pages
<1>5. at' \in [Terms -> {"run", "exc", "read"}]
  BY <1>1, <1>2 DEF RestType
<1>6. RestType'
  BY <1>1, <1>2, <1>5, CountStep, Zenon DEF RestType
<1> QED
  BY <1>1, <1>2, <1>3, <1>4, <1>6, InvNext, Zenon

\* A step that changes neither the terminals nor the screen
LEMMA QuietInv ==
    ASSUME IInv, UNCHANGED <<terminal_list, current_terminal_index, cursor, video_mem, at, ops>>,
           cur_ptree' \in Terms
    PROVE  IInv'
<1>1. RestType /\ terminal_list \in [Terms -> TermStates] /\ cursor \in Cursors
      /\ video_mem \in Pages /\ \A t \in Terms : TermOK(terminal_list[t])
  BY InvParts, Zenon
<1>2. /\ terminal_list' = terminal_list /\ current_terminal_index' = current_terminal_index
      /\ cursor' = cursor /\ video_mem' = video_mem /\ at' = at /\ ops' = ops
  BY Zenon
<1>3. RestType'
  BY <1>1, <1>2, Zenon DEF RestType
<1> QED
  BY <1>1, <1>2, <1>3, InvNext, Zenon

\* do_halt's newline is a text
LEMMA HaltText == do_halt => \E text \in Seq(Chars) : terminal_write(text)
<1>1. <<"nl">> \in Seq(Chars)
  BY DEF Chars
<1> QED
  BY <1>1, Zenon DEF do_halt

\* Every step keeps the invariant
LEMMA StepInv ==
    ASSUME IInv, [Next]_vars
    PROVE  IInv'
<1>1. CASE ProgramStep
  <2>1. Texts \subseteq Seq(Chars)
    BY Sizes
  <2>2. \/ \E text \in Seq(Chars) : terminal_write(text)
        \/ ReadOffset \/ ReadEcho
    BY <1>1, <2>1, HaltText, Zenon DEF ProgramStep
  <2> QED
    BY <2>2, WriteInv, OffsetInv, EchoInv, Zenon
<1>2. CASE KeyStep
  BY <1>2, KeyInv, BackspaceInv, ClearInv, Zenon DEF KeyStep
<1>3. ASSUME NEW t \in Terms, set_current_terminal(t)
      PROVE  IInv'
  BY <1>3, SwitchInv, Zenon
<1>4. ASSUME NEW t \in Terms, set_cur_ptree(t)
      PROVE  IInv'
  BY <1>4, QuietInv, Zenon DEF set_cur_ptree
<1>5. CASE print_error
  BY <1>5, ErrorInv, Zenon
<1>6. CASE UNCHANGED vars
  <2>1. cur_ptree' \in Terms
    BY <1>6, InvParts, Zenon DEF RestType, vars
  <2> QED
    BY <1>6, <2>1, QuietInv, Zenon DEF vars
<1> QED
  BY <1>1, <1>2, <1>3, <1>4, <1>5, <1>6, Zenon DEF Next

\* The inductive invariant: the types, lib.c's cursor on the screen, and for
\* every terminal the room that erasing its line needs
THEOREM Invariance == Spec => []IInv
BY InitInv, StepInv, PTL DEF Spec

\* The counters and pages stay in their ranges through any sequence of writes,
\* keys, erasures and switches: a terminal's cursor strays at most one row below
\* the screen and one line buffer to the left of it (terminal.c's arithmetic on
\* screen_x, screen_y and chars_printed)
THEOREM TypeCorrect == Spec => []TypeOK
<1>1. IInv => TypeOK
  BY Zenon DEF IInv
<1> QED
  BY <1>1, Invariance, PTL

\* lib.c's cursor, through which putc stores into video memory, is always on
\* the screen, wherever the terminals' own cursors are
THEOREM OnScreen == Spec => []DrawsOnScreen
<1>1. IInv => DrawsOnScreen
  BY Zenon DEF IInv
<1> QED
  BY <1>1, Invariance, PTL

\* A text looks the same written on a terminal by vputc and by putc
LEMMA HiddenAlike ==
    ASSUME IInv, NEW t \in Terms, NEW text \in Texts,
           terminal_list[t].screen_x >= 0, terminal_list[t].screen_y < NUM_ROWS,
           NEW hidden, hidden = [terminal_list[t] EXCEPT !.video_buffer = View(t)],
           NEW start, start = [term |-> hidden, cur |-> cursor, page |-> View(t)]
    PROVE  Alike(WriteLoop(start, text, t + 1, FALSE)[Len(text)],
                 WriteLoop(start, text, t + 1, TRUE)[Len(text)])
<1>1. PICK term, page, v : term = terminal_list[t] /\ page = View(t) /\ v = cursor
  OBVIOUS
<1>2. term \in TermStates /\ LineRoom(term) /\ v \in Cursors
  BY <1>1, InvParts, Zenon DEF TermOK
<1>3. page \in Pages
  <2>1. video_mem \in Pages /\ term.video_buffer \in Pages
    BY <1>2, InvParts, TermFields
  <2> QED
    BY <1>1, <2>1, Zenon DEF View
<1>4. hidden = [term EXCEPT !.video_buffer = page]
  BY <1>1
<1>5. /\ hidden \in TermStates /\ hidden.screen_x = term.screen_x
      /\ hidden.screen_y = term.screen_y /\ hidden.chars_printed = term.chars_printed
      /\ hidden.input_pointer = term.input_pointer /\ hidden.video_buffer = page
  BY <1>2, <1>3, <1>4 DEF TermStates
<1>6. /\ start = [term |-> hidden, cur |-> v, page |-> page]
  BY <1>1
<1>7. \A z : z = [term |-> hidden, cur |-> v, page |-> page]
              => z \in WStates /\ z.term = hidden /\ z.page = page
  <2>1. hidden \in TermStates
    BY <1>5
  <2> QED
    BY <1>2, <1>3, <2>1 DEF WStates
<1>8. start \in WStates /\ start.term = hidden /\ start.page = page
  BY <1>6, <1>7, Zenon
<1>9. LineRoom(hidden)
  BY <1>2, <1>5, Zenon DEF LineRoom
<1>10. term.screen_x \in 0 .. NUM_COLS - 1 /\ term.screen_y \in 0 .. NUM_ROWS - 1
  <2>1. term.screen_x >= 0 /\ term.screen_y < NUM_ROWS
    BY <1>1
  <2>2. /\ term.screen_x \in 1 - BUFFER_SIZE .. NUM_COLS - 1
        /\ term.screen_y \in 0 .. NUM_ROWS
    BY <1>2, TermFields, Zenon
  <2>3. NUM_COLS \in Nat /\ NUM_ROWS \in Nat /\ BUFFER_SIZE \in Nat
    BY Sizes
  <2>4. ASSUME NEW x \in 1 - BUFFER_SIZE .. NUM_COLS - 1, x >= 0,
               NEW y \in 0 .. NUM_ROWS, y < NUM_ROWS
        PROVE  x \in 0 .. NUM_COLS - 1 /\ y \in 0 .. NUM_ROWS - 1
    BY <2>3, <2>4
  <2> QED
    BY <2>1, <2>2, <2>4, Zenon
<1>11. WOK(start)
  BY <1>8, <1>9, Zenon DEF WOK
<1>12. Alike(start, start)
  BY <1>5, <1>8, <1>10, <1>11, Zenon DEF Alike
<1>13. text \in Seq(Chars) /\ t + 1 \in 0 .. NTerms
  BY Sizes, StartOK, Zenon
<1> QED
  BY <1>12, <1>13, WriteTextAlike, Zenon

\* A program's output looks the same whether its terminal is displayed or hidden,
\* for every text: vputc's loop over the terminal's own cursor and buffer draws
\* what putc's draws through lib.c's cursor in video memory
THEOREM HiddenSame == Spec => []HiddenLikeDisplayed
<1>1. IInv => HiddenLikeDisplayed
  <2> SUFFICES ASSUME IInv PROVE HiddenLikeDisplayed
    OBVIOUS
  <2> DEFINE hidden(t) == [terminal_list[t] EXCEPT !.video_buffer = View(t)]
             start(t) == [term |-> hidden(t), cur |-> cursor, page |-> View(t)]
             h(t, text) == WriteLoop(start(t), text, t + 1, FALSE)[Len(text)]
             d(t, text) == WriteLoop(start(t), text, t + 1, TRUE)[Len(text)]
             Same(u, v) ==
                 /\ u.term.video_buffer = v.page
                 /\ \A f \in {"screen_x", "screen_y", "chars_printed"} : u.term[f] = v.term[f]
  <2>1. ASSUME NEW u, NEW v, Alike(u, v) PROVE Same(u, v)
    <3>1. /\ u.term.video_buffer = v.page /\ u.term.screen_x = v.term.screen_x
          /\ u.term.screen_y = v.term.screen_y /\ u.term.chars_printed = v.term.chars_printed
      BY <2>1, Zenon DEF Alike
    <3> QED
      BY <3>1
  <2>2. ASSUME NEW t \in Terms, NEW text \in Texts,
               terminal_list[t].screen_x >= 0 /\ terminal_list[t].screen_y < NUM_ROWS
        PROVE  Alike(h(t, text), d(t, text))
    BY <2>2, HiddenAlike, Zenon
  <2>3. HiddenLikeDisplayed <=>
          \A t \in Terms, text \in Texts :
             terminal_list[t].screen_x >= 0 /\ terminal_list[t].screen_y < NUM_ROWS
                => Same(h(t, text), d(t, text))
    BY Zenon DEF HiddenLikeDisplayed
  <2> HIDE DEF h, d, Same
  <2> QED
    BY <2>1, <2>2, <2>3, Zenon
<1> QED
  BY <1>1, Invariance, PTL

-----------------------------------------------------------------------------
(* What the other terminals show                                           *)

\* A text written on terminal e leaves what every other terminal shows alone
LEMMA TextView ==
    ASSUME IInv, NEW e \in Terms, NEW text \in Seq(Chars), NEW t \in Terms, t # e,
           Written(e, WriteText(e, text, e = current_terminal_index)),
           current_terminal_index' = current_terminal_index
    PROVE  View(t)' = View(t)
<1>1. terminal_list'[t] = terminal_list[t]
  <2>1. terminal_list \in [Terms -> TermStates]
    BY InvParts, Zenon
  <2> QED
    BY <2>1, Zenon DEF Written
<1>2. CASE t = current_terminal_index
  <2>1. PICK w : w = WriteText(e, text, FALSE)
    OBVIOUS
  <2>2. video_mem' = w.page
    <3>1. (e = current_terminal_index) = FALSE
      BY <1>2
    <3> QED
      BY <2>1, <3>1, Zenon DEF Written
  <2>3. Kept(w, Start(e), FALSE) /\ Start(e).page = video_mem
    BY <2>1, TextKept, StartOK, Zenon
  <2>4. video_mem' = video_mem
    BY <2>2, <2>3, Zenon DEF Kept
  <2> QED
    BY <1>2, <2>4, Zenon DEF View
<1>3. CASE t # current_terminal_index
  BY <1>1, <1>3, Zenon DEF View
<1> QED
  BY <1>2, <1>3

\* A step on the displayed terminal leaves what every other terminal shows alone
LEMMA KeyView ==
    ASSUME IInv, NEW u, terminal_list' = [terminal_list EXCEPT ![current_terminal_index] = u],
           current_terminal_index' = current_terminal_index,
           NEW t \in Terms, t # current_terminal_index
    PROVE  View(t)' = View(t)
<1>1. terminal_list \in [Terms -> TermStates]
  BY InvParts, Zenon
<1>2. terminal_list'[t] = terminal_list[t]
  BY <1>1, Zenon
<1>3. t # current_terminal_index'
  OBVIOUS
<1> QED
  BY <1>2, <1>3 DEF View

\* terminal_read's two steps and a write do not touch the other terminals
LEMMA ProgramView ==
    ASSUME IInv, ProgramStep, NEW t \in Terms, t # cur_ptree
    PROVE  View(t)' = View(t)
<1>1. RestType /\ cur_ptree \in Terms /\ terminal_list \in [Terms -> TermStates]
      /\ terminal_list[cur_ptree] \in TermStates /\ current_terminal_index \in Terms
  BY InvParts, Zenon DEF RestType, TermOK
<1>2. ASSUME NEW text \in Seq(Chars), terminal_write(text)
      PROVE  View(t)' = View(t)
  BY <1>1, <1>2, TextView, Zenon DEF terminal_write
<1>3. CASE ReadEcho
  <2>1. PICK n : n = terminal_list[cur_ptree].input_pointer
    OBVIOUS
  <2>2. PICK text : text = [i \in 1 .. n |-> "chr"]
    OBVIOUS
  <2>3. n \in Nat
    BY <1>1, <2>1, TermFields, Sizes
  <2>4. text \in Seq(Chars)
    BY <2>2, <2>3 DEF Chars
  <2>5. Written(cur_ptree, WriteText(cur_ptree, text, cur_ptree = current_terminal_index))
        /\ current_terminal_index' = current_terminal_index
    BY <1>3, <2>1, <2>2, Zenon DEF ReadEcho
  <2> QED
    BY <1>1, <2>4, <2>5, TextView, Zenon
<1>4. CASE ReadOffset
  <2>1. PICK u : u = [terminal_list[current_terminal_index] EXCEPT !.starting_offset = cursor.x]
    OBVIOUS
  <2>2. /\ terminal_list' = [terminal_list EXCEPT ![current_terminal_index] = u]
        /\ current_terminal_index' = current_terminal_index /\ video_mem' = video_mem
    BY <1>4, <2>1, Zenon DEF ReadOffset
  <2>3. CASE t = current_terminal_index
    BY <2>2, <2>3, Zenon DEF View
  <2>4. CASE t # current_terminal_index
    BY <2>2, <2>4, KeyView, Zenon
  <2> QED
    BY <2>3, <2>4
<1>5. Texts \subseteq Seq(Chars)
  BY Sizes
<1> QED
  BY <1>2, <1>3, <1>4, <1>5, HaltText, Zenon DEF ProgramStep

\* The keys only touch the displayed terminal
LEMMA KeyStepView ==
    ASSUME IInv, KeyStep, NEW t \in Terms, t # current_terminal_index
    PROVE  View(t)' = View(t)
<1>1. terminal_list \in [Terms -> TermStates] /\ current_terminal_index \in Terms
  BY InvParts, Zenon DEF RestType
<1>2. ASSUME NEW c, terminal_add_to_buffer(c) PROVE View(t)' = View(t)
  <2>1. \E u : terminal_list' = [terminal_list EXCEPT ![current_terminal_index] = u]
    BY <1>2, Zenon DEF terminal_add_to_buffer, Written
  <2>2. current_terminal_index' = current_terminal_index
    BY <1>2, Zenon DEF terminal_add_to_buffer
  <2> QED
    BY <2>1, <2>2, KeyView, Zenon
<1>3. CASE terminal_backspace
  <2>1. \E u : terminal_list' = [terminal_list EXCEPT ![current_terminal_index] = u]
    BY <1>3, Zenon DEF terminal_backspace, Erase
  <2>2. current_terminal_index' = current_terminal_index
    BY <1>3, Zenon DEF terminal_backspace, Erase
  <2> QED
    BY <2>1, <2>2, KeyView, Zenon
<1>4. CASE terminal_clear
  <2>1. /\ terminal_list' = [terminal_list EXCEPT ![current_terminal_index].screen_x = 0,
                                                  ![current_terminal_index].screen_y = 0]
        /\ current_terminal_index' = current_terminal_index
    BY <1>4, Zenon DEF terminal_clear
  <2>2. terminal_list'[t] = terminal_list[t]
    BY <1>1, <2>1
  <2>3. t # current_terminal_index'
    BY <2>1
  <2> QED
    BY <2>2, <2>3 DEF View
<1> QED
  BY <1>2, <1>3, <1>4, Zenon DEF KeyStep

\* Alt-Fn restores the page of the terminal it displays and saves the other one
LEMMA SwitchView ==
    ASSUME IInv, NEW n \in Terms, set_current_terminal(n), NEW t \in Terms
    PROVE  View(t)' = View(t)
<1>1. PICK k : k = current_terminal_index
  OBVIOUS
<1>2. /\ n # k /\ video_mem' = terminal_list[n].video_buffer /\ current_terminal_index' = n
      /\ terminal_list' = [terminal_list EXCEPT ![k].video_buffer = video_mem]
  BY <1>1, Zenon DEF set_current_terminal
<1>3. terminal_list \in [Terms -> TermStates] /\ k \in Terms
  BY <1>1, InvParts, Zenon DEF RestType
<1>4. CASE t = k
  <2>1. terminal_list'[t].video_buffer = video_mem
    BY <1>2, <1>3, <1>4 DEF TermStates
  <2> QED
    BY <1>1, <1>2, <1>4, <2>1, Zenon DEF View
<1>5. CASE t # k
  <2>1. terminal_list'[t] = terminal_list[t]
    BY <1>2, <1>3, <1>5
  <2>2. View(t) = terminal_list[t].video_buffer
    BY <1>1, <1>5, Zenon DEF View
  <2>3. CASE t = n
    BY <1>2, <2>2, <2>3, Zenon DEF View
  <2>4. CASE t # n
    <3>1. t # current_terminal_index'
      BY <1>2, <2>4
    <3>2. View(t)' = terminal_list'[t].video_buffer
      BY <3>1, Zenon DEF View
    <3> QED
      BY <2>1, <2>2, <3>2, Zenon
  <2> QED
    BY <2>3, <2>4
<1> QED
  BY <1>4, <1>5

\* What a terminal shows is changed only by its own program, by a key while it is
\* displayed, and by the report of an exception (terminal_write's choice between
\* putc and vputc, and the copies of set_current_terminal)
THEOREM Untouched == Spec => OthersUntouched
<1> DEFINE Mine(t) == \/ View(t)' = View(t)
                      \/ ProgramStep /\ t = cur_ptree
                      \/ KeyStep /\ t = current_terminal_index
                      \/ print_error
<1>1. ASSUME IInv, [Next]_vars, NEW t \in Terms PROVE Mine(t)
  <2>1. CASE ProgramStep
    BY <1>1, <2>1, ProgramView, Zenon
  <2>2. CASE KeyStep
    BY <1>1, <2>2, KeyStepView, Zenon
  <2>3. ASSUME NEW n \in Terms, set_current_terminal(n) PROVE View(t)' = View(t)
    BY <1>1, <2>3, SwitchView, Zenon
  <2>4. ASSUME NEW n \in Terms, set_cur_ptree(n) PROVE View(t)' = View(t)
    BY <2>4, Zenon DEF set_cur_ptree, View
  <2>5. CASE UNCHANGED vars
    BY <2>5, Zenon DEF vars, View
  <2> QED
    BY <1>1, <2>1, <2>2, <2>3, <2>4, <2>5, Zenon DEF Next
<1>2. IInv /\ [Next]_vars => [\A t \in Terms : Mine(t)]_vars
  BY <1>1, Zenon
<1> QED
  BY <1>2, Invariance, PTL DEF Spec, OthersUntouched
=============================================================================

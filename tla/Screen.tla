------------------------------- MODULE Screen -------------------------------
(***************************************************************************)
(* Text output.  Every terminal has a cursor and a video_buffer; the       *)
(* displayed one is drawn in video memory through lib.c's own cursor, a    *)
(* hidden one in its buffer.  Programs write, the keyboard interrupt       *)
(* echoes, erases, clears and switches terminals, and ticks change the     *)
(* executing terminal.  terminal_write runs with interrupts off and the    *)
(* keyboard handlers are interrupts, so each is one action.                *)
(* A cell is 0 (a blank) or t + 1 (a character output on terminal t); the  *)
(* blinking hardware cursor is left out.                                   *)
(***************************************************************************)
EXTENDS Integers, Sequences

CONSTANTS
    NTerms,         \* MAX_SUPPORTED_TERMINALS
    NUM_COLS, NUM_ROWS, BUFFER_SIZE, SHELL_OFFSET,
    Texts,          \* what programs write: sequences over Chars
    MaxOps          \* bound on the number of steps other than ticks

\* A character with a shape, '\n', '\r' and the null byte
Chars == {"chr", "nl", "cr", "nul"}

ASSUME ScreenAssumption ==
    /\ {NTerms, NUM_COLS, NUM_ROWS, BUFFER_SIZE, MaxOps} \subseteq Nat \ {0}
    /\ SHELL_OFFSET \in 0 .. NUM_COLS - 1
    /\ Texts \subseteq Seq(Chars)

VARIABLES
    terminal_list,           \* terminal -> cursor, counters and video_buffer
    current_terminal_index,  \* the displayed terminal
    cur_ptree,               \* the executing terminal
    cursor,                  \* lib.c's static screen_x and screen_y
    video_mem,               \* video memory
    at,                      \* terminal -> its thread: in user code, in an exception
                             \* handler, or entering terminal_read
    ops                      \* number of steps so far, ticks not counted

vars ==
    <<terminal_list, current_terminal_index, cur_ptree, cursor, video_mem, at, ops>>

Terms     == 0 .. NTerms - 1
Cells     == 0 .. NUM_ROWS * NUM_COLS - 1
BlankPage == [i \in Cells |-> 0]
Displayed == terminal_list[current_terminal_index]

\* Every step but a tick counts towards the bound.
Count == ops < MaxOps /\ ops' = ops + 1

\* terminal_open
Init ==
    /\ terminal_list =
          [t \in Terms |-> [screen_x |-> 0, screen_y |-> 0, chars_printed |-> 0,
                            starting_offset |-> SHELL_OFFSET,
                            input_pointer |-> 0, video_buffer |-> BlankPage]]
    /\ current_terminal_index = 0
    /\ cur_ptree = 0
    /\ cursor = [x |-> 0, y |-> 0]
    /\ video_mem = BlankPage
    /\ at = [t \in Terms |-> "run"]
    /\ ops = 0

-----------------------------------------------------------------------------
(* lib.c                                                                   *)

\* The last row is cleared, the others move up.
scroll_up(page) ==
    [i \in Cells |-> IF i + NUM_COLS \in Cells THEN page[i + NUM_COLS] ELSE 0]

\* C's remainder, which keeps the sign of its left operand
Rem(a, b) == IF a >= 0 THEN a % b ELSE -((-a) % b)

\* A byte stored outside the page hits no cell.  Outside a hidden terminal's
\* video_buffer it hits that terminal's own previous_input and input.line (a
\* negative column in row 0) or ptid and input_history (row NUM_ROWS), which are
\* not state of this module.
Store(page, i, cell) == IF i \in Cells THEN [page EXCEPT ![i] = cell] ELSE page

\* Both begin a new row.
Newlines == {"nl", "cr"}

\* A drawing state s has a cursor (x, y) and a page.  The last column wraps to
\* the first one of the same row: screen_x / NUM_COLS is always 0.
putc(s, c, cell) ==
    IF c \notin Newlines THEN [x    |-> Rem(s.x + 1, NUM_COLS),
                               y    |-> Rem(s.y, NUM_ROWS),
                               page |-> Store(s.page, NUM_COLS * s.y + s.x, cell)]
    ELSE IF s.y + 1 >= NUM_ROWS THEN [x |-> 0, y |-> s.y, page |-> scroll_up(s.page)]
    ELSE [x |-> 0, y |-> s.y + 1, page |-> s.page]

\* Mutant: the last row is not scrolled
vputc_NoScroll(term, c, cell) ==
    IF c \notin Newlines
    THEN [term EXCEPT
            !.screen_x     = Rem(term.screen_x + 1, NUM_COLS),
            !.screen_y     = Rem(term.screen_y, NUM_ROWS),
            !.video_buffer = Store(@, NUM_COLS * term.screen_y + term.screen_x, cell)]
    ELSE [term EXCEPT !.screen_x = 0,
                      !.screen_y = IF @ + 1 >= NUM_ROWS THEN @ ELSE @ + 1]

\* The same for a hidden terminal, on its own cursor and buffer
vputc(term, c, cell) ==
    IF c \notin Newlines
    THEN [term EXCEPT
            !.screen_x     = Rem(term.screen_x + 1, NUM_COLS),
            !.screen_y     = Rem(term.screen_y, NUM_ROWS),
            !.video_buffer = Store(@, NUM_COLS * term.screen_y + term.screen_x, cell)]
    ELSE IF term.screen_y + 1 >= NUM_ROWS
    THEN [term EXCEPT !.screen_x = 0, !.video_buffer = scroll_up(@)]
    ELSE [term EXCEPT !.screen_x = 0, !.screen_y = @ + 1]

\* Mutant: no check of the range
set_cursor_pos_Unchecked(cur, x, y) == [x |-> x, y |-> y]

\* A coordinate off the screen is ignored and the old one stays.
set_cursor_pos(cur, x, y) ==
    [x |-> IF x \in 0 .. NUM_COLS - 1 THEN x ELSE cur.x,
     y |-> IF y \in 0 .. NUM_ROWS - 1 THEN y ELSE cur.y]

-----------------------------------------------------------------------------
(* terminal.c: writing.  w is a terminal with lib.c's cursor and page.     *)

\* One character drawn on the screen, or in the buffer of a hidden terminal
Draw(w, c, cell, shown) ==
    IF ~shown THEN [w EXCEPT !.term = vputc(w.term, c, cell)]
    ELSE LET cur == set_cursor_pos(w.cur, w.term.screen_x, w.term.screen_y)
             s   == putc([x |-> cur.x, y |-> cur.y, page |-> w.page], c, cell)
         IN  [term |-> [w.term EXCEPT !.screen_x = s.x, !.screen_y = s.y],
              cur  |-> [x |-> s.x, y |-> s.y],
              page |-> s.page]

\* The body of the loops of terminal_write and terminal_write_keypress.  Of the
\* two newlines they know only '\n', so '\r' leaves chars_printed to count on.
WriteChar(w, c, cell, shown) ==
    LET long  == w.term.chars_printed > NUM_COLS
        begun == IF long THEN Draw(w, "nl", cell, shown) ELSE w
        drawn == Draw(IF long \/ c = "nl"
                      THEN [begun EXCEPT !.term.chars_printed = 0] ELSE begun,
                      c, cell, shown)
    IN  IF ~long /\ c = "nul" THEN w
        ELSE [drawn EXCEPT !.term.chars_printed = @ + 1]

\* Their loops: the state after each character of text
WriteLoop(start, text, cell, shown) ==
    LET loop[i \in 0 .. Len(text)] ==
            IF i = 0 THEN start ELSE WriteChar(loop[i - 1], text[i], cell, shown)
    IN  loop

WriteText(t, text, shown) ==
    WriteLoop([term |-> terminal_list[t], cur |-> cursor, page |-> video_mem],
              text, t + 1, shown)[Len(text)]

Written(t, w) ==
    /\ terminal_list' = [terminal_list EXCEPT ![t] = w.term]
    /\ cursor' = w.cur
    /\ video_mem' = w.page

\* The write system call of the executing program
terminal_write(text) ==
    /\ Count
    /\ at[cur_ptree] = "run"
    /\ Written(cur_ptree, WriteText(cur_ptree, text, cur_ptree = current_terminal_index))
    /\ UNCHANGED <<current_terminal_index, cur_ptree, at>>

\* do_halt writes a newline unless lib.c's cursor, whichever terminal left it
\* there, is in the first column.
do_halt == cursor.x > 0 /\ terminal_write(<<"nl">>)

\* terminal_read notes the column of the prompt on the displayed terminal ...
ReadOffset ==
    /\ Count
    /\ at[cur_ptree] # "read"
    /\ terminal_list' = [terminal_list EXCEPT
                            ![current_terminal_index].starting_offset = cursor.x]
    /\ at' = [at EXCEPT ![cur_ptree] = "read"]
    /\ UNCHANGED <<current_terminal_index, cur_ptree, cursor, video_mem>>

\* ... and echoes what was typed ahead on its own
ReadEcho ==
    /\ Count
    /\ at[cur_ptree] = "read"
    /\ LET ahead == [i \in 1 .. terminal_list[cur_ptree].input_pointer |-> "chr"]
       IN  Written(cur_ptree,
                   WriteText(cur_ptree, ahead, cur_ptree = current_terminal_index))
    /\ at' = [at EXCEPT ![cur_ptree] = "run"]
    /\ UNCHANGED <<current_terminal_index, cur_ptree>>

-----------------------------------------------------------------------------
(* terminal.c: the keyboard interrupt                                      *)

\* terminal_add_to_buffer and the echo by terminal_write_keypress.  A line that
\* reaches the last column goes on in the next row; screen_y is not checked.
terminal_add_to_buffer(c) ==
    LET t     == current_terminal_index
        ptr   == IF c = "nl" THEN 0 ELSE Displayed.input_pointer + 1
        w     == WriteText(t, <<c>>, TRUE)
        wraps == w.term.screen_x = 0 /\ ptr >= NUM_COLS - w.term.starting_offset
        y     == w.term.screen_y + 1
    IN  /\ Count
        /\ Displayed.input_pointer < BUFFER_SIZE - 1
        /\ Written(t, IF wraps
                      THEN [w EXCEPT !.term.input_pointer = ptr,
                                     !.term.screen_y      = y,
                                     !.term.chars_printed = 0,
                                     !.page = IF y >= NUM_ROWS - 1 THEN scroll_up(@) ELSE @]
                      ELSE [w EXCEPT !.term.input_pointer = ptr])
        /\ UNCHANGED <<current_terminal_index, cur_ptree, at>>

\* The position that terminal_backspace steps back to
Back(term) ==
    IF term.input_pointer # NUM_COLS - term.starting_offset
    THEN [x |-> term.screen_x - 1, y |-> term.screen_y]
    ELSE [x |-> NUM_COLS - 1,
          y |-> IF term.screen_y > 0 THEN term.screen_y - 1 ELSE term.screen_y]

\* The character is erased through lib.c's cursor, which then moves on alone.
Erase ==
    LET back == Back(Displayed)
        cur  == set_cursor_pos(cursor, back.x, back.y)
        s    == putc([x |-> cur.x, y |-> cur.y, page |-> video_mem], "chr", 0)
    IN  /\ Count
        /\ terminal_list' = [terminal_list EXCEPT ![current_terminal_index] =
                                [Displayed EXCEPT
                                    !.screen_x      = back.x,
                                    !.screen_y      = back.y,
                                    !.chars_printed = Displayed.chars_printed - 1,
                                    !.input_pointer = Displayed.input_pointer - 1]]
        /\ cursor' = [x |-> s.x, y |-> s.y]
        /\ video_mem' = s.page
        /\ UNCHANGED <<current_terminal_index, cur_ptree, at>>

\* Mutant: an empty line is erased too
terminal_backspace_Empty == Erase

terminal_backspace == Displayed.input_pointer > 0 /\ Erase

\* Control-L
terminal_clear ==
    /\ Count
    /\ video_mem' = BlankPage
    /\ terminal_list' = [terminal_list EXCEPT ![current_terminal_index].screen_x = 0,
                                              ![current_terminal_index].screen_y = 0]
    /\ cursor' = [x |-> 0, y |-> 0]
    /\ UNCHANGED <<current_terminal_index, cur_ptree, at>>

\* Mutant: the screen that goes away is not saved
set_current_terminal_NoSave(t) ==
    /\ Count
    /\ t # current_terminal_index
    /\ video_mem' = terminal_list[t].video_buffer
    /\ current_terminal_index' = t
    /\ UNCHANGED <<terminal_list, cur_ptree, cursor, at>>

\* Alt-Fn: the screen goes to the old terminal's buffer and the new one's comes
\* back; lib.c's cursor stays.
set_current_terminal(t) ==
    /\ Count
    /\ t # current_terminal_index
    /\ terminal_list' = [terminal_list EXCEPT
                            ![current_terminal_index].video_buffer = video_mem]
    /\ video_mem' = terminal_list[t].video_buffer
    /\ current_terminal_index' = t
    /\ UNCHANGED <<cur_ptree, cursor, at>>

-----------------------------------------------------------------------------
\* An exception of the executing program fills the screen, whichever terminal
\* is displayed, and leaves lib.c's cursor at the end of the report, in the last
\* row; do_common_intr then calls terminal_read.
print_error ==
    /\ Count
    /\ at[cur_ptree] = "run"
    /\ video_mem' = [i \in Cells |-> cur_ptree + 1]
    /\ cursor' = [x |-> NUM_COLS - 1, y |-> NUM_ROWS - 1]
    /\ at' = [at EXCEPT ![cur_ptree] = "exc"]
    /\ UNCHANGED <<terminal_list, current_terminal_index, cur_ptree>>

\* A tick changes the executing terminal (Sched).
set_cur_ptree(t) ==
    /\ t # cur_ptree
    /\ cur_ptree' = t
    /\ UNCHANGED <<terminal_list, current_terminal_index, cursor, video_mem, at, ops>>

\* System calls of the executing program, and keys of the displayed terminal
ProgramStep ==
    \/ \E text \in Texts : terminal_write(text)
    \/ do_halt \/ ReadOffset \/ ReadEcho

KeyStep ==
    \/ \E c \in {"chr", "nl"} : terminal_add_to_buffer(c)
    \/ terminal_backspace
    \/ terminal_clear

Next ==
    \/ ProgramStep
    \/ KeyStep
    \/ \E t \in Terms : set_current_terminal(t) \/ set_cur_ptree(t)
    \/ print_error

Spec == Init /\ [][Next]_vars

-----------------------------------------------------------------------------
\* The counters stay in these ranges.  A terminal's own cursor may leave the
\* screen on the left (erased type-ahead) and at the bottom (a wrapped line).
TypeOK ==
    /\ terminal_list \in
          [Terms -> [screen_x        : 1 - BUFFER_SIZE .. NUM_COLS - 1,
                     screen_y        : 0 .. NUM_ROWS,
                     chars_printed   : 1 - BUFFER_SIZE .. NUM_COLS + 1,
                     starting_offset : 0 .. NUM_COLS - 1,
                     input_pointer   : 0 .. BUFFER_SIZE - 1,
                     video_buffer    : [Cells -> 0 .. NTerms]]]
    /\ {current_terminal_index, cur_ptree} \subseteq Terms
    /\ cursor \in [x : Int, y : Int]
    /\ video_mem \in [Cells -> 0 .. NTerms]
    /\ at \in [Terms -> {"run", "exc", "read"}]
    /\ ops \in 0 .. MaxOps

\* Wherever the terminals' own cursors have strayed, lib.c's cursor, through
\* which every displayed character is drawn, is on the screen.
DrawsOnScreen == cursor.x \in 0 .. NUM_COLS - 1 /\ cursor.y \in 0 .. NUM_ROWS - 1

\* What the user of terminal t sees, or will see after Alt-Fn
View(t) ==
    IF t = current_terminal_index THEN video_mem ELSE terminal_list[t].video_buffer

\* What a terminal shows is changed only by its own program, by a key while it
\* is displayed, and by the report of an exception: output on the other
\* terminals does not touch it, and Alt-Fn away and back restores every cell.
OthersUntouched ==
    [][\A t \in Terms :
          \/ View(t)' = View(t)
          \/ ProgramStep /\ t = cur_ptree
          \/ KeyStep /\ t = current_terminal_index
          \/ print_error]_vars

\* While the cursor of a terminal is on the screen, its program's output looks
\* the same whether it is displayed (putc) or hidden (vputc).
HiddenLikeDisplayed ==
    \A t \in Terms, text \in Texts :
        LET term   == terminal_list[t]
            hidden == [term EXCEPT !.video_buffer = View(t)]
            start  == [term |-> hidden, cur |-> cursor, page |-> View(t)]
            h == WriteLoop(start, text, t + 1, FALSE)[Len(text)]
            d == WriteLoop(start, text, t + 1, TRUE)[Len(text)]
        IN  term.screen_x >= 0 /\ term.screen_y < NUM_ROWS =>
                /\ h.term.video_buffer = d.page
                /\ \A f \in {"screen_x", "screen_y", "chars_printed"} : h.term[f] = d.term[f]
=============================================================================

------------------------------ MODULE Console ------------------------------
(***************************************************************************)
(* The text console of videoDriver.c: a cursor in pixels that drives what  *)
(* is drawn, and next to it a text log with a cursor of its own, which is  *)
(* what a scroll draws the screen from.  Nothing in the code ties the two  *)
(* cursors together; the properties say how far they agree.                *)
(*                                                                         *)
(* Lengths are counted in characters of size 1 (8 x 16 pixels), so that    *)
(* CHAR_WIDTH and CHAR_HEIGHT are both con.size.  A drawn character is     *)
(* kept in con.shown, by row and column at the current size: every change  *)
(* of size clears the screen.  Only printStd prints: print_str is never    *)
(* called with isErr, and video_write_stderr calls printStd too.           *)
(***************************************************************************)
EXTENDS Integers, Sequences

CONSTANTS SCREEN_WIDTH,   \* SCREEN_WIDTH_PIXELS / 8
          SCREEN_HEIGHT,  \* SCREEN_HEIGHT_PIXELS / 16
          CANT_COLORS,
          WORD,           \* the range of unsigned int, a bound of the model
          MaxPrinted      \* how many characters are printed

ASSUME ConsoleAssumption ==
  /\ SCREEN_WIDTH \in Nat \ {0} /\ SCREEN_WIDTH % 4 = 0
  /\ SCREEN_HEIGHT \in Nat /\ SCREEN_HEIGHT % 4 = 0 /\ SCREEN_HEIGHT >= 8
  /\ CANT_COLORS \in Nat /\ CANT_COLORS >= 3
  /\ WORD \in Nat /\ WORD > SCREEN_WIDTH + SCREEN_HEIGHT
  /\ MaxPrinted \in Nat

VARIABLES con,      \* the globals of videoDriver.c and the screen
          printed,  \* how many characters were printed
          aligned   \* ghost: no step that is known to part the cursors yet

consoleVars == <<con, printed, aligned>>

Blank == "blank"
Newline == "newline"
Backspace == "backspace"
Tab == "tab"
Glyph == "glyph"
Zero == "zero"     \* a byte of the log that was never written

MAX_WIDTH_LOG(s) == SCREEN_WIDTH \div s.size
MAX_HEIGHT_LOG(s) == SCREEN_HEIGHT \div s.size

Grid(c) == [y \in 0 .. SCREEN_HEIGHT - 1 |-> [x \in 0 .. SCREEN_WIDTH - 1 |-> c]]

Console0 ==
  [x |-> 0, y |-> 0, size |-> 1,
   currentX |-> 0, currentY |-> 0, top_left |-> 0, mooving |-> FALSE,
   log |-> Grid(Zero), shown |-> Grid(Blank),
   font |-> 0, background |-> 1, inside |-> TRUE]

-----------------------------------------------------------------------------
(* Drawing.                                                                *)

\* con.inside records that no pixel was written outside the screen.
put_glyph(s, c) ==
  LET inside == s.x + s.size <= SCREEN_WIDTH /\ s.y + s.size <= SCREEN_HEIGHT
      x == (s.x + s.size) % SCREEN_WIDTH
  IN [s EXCEPT !.inside = @ /\ inside,
               !.shown = IF inside THEN [@ EXCEPT ![s.y \div s.size][s.x \div s.size] = c]
                                   ELSE @,
               !.x = x,
               !.y = IF x = 0 THEN @ + s.size ELSE @]

next_line(s) == IF s.x > SCREEN_WIDTH - s.size
                  THEN [s EXCEPT !.x = 0, !.y = @ + s.size]
                  ELSE s

below(s) == s.y > SCREEN_HEIGHT - s.size

\* drawcharSize as scroll_down calls it.  It would call scroll_down again when
\* the cursor is below the screen: put_glyph then leaves the screen, which
\* DrawsInside shows never to happen, so the call does not nest.
draw_in_scroll(s, c) == put_glyph(next_line(s), c)

\* The characters of a text, one after the other.
draw_all(s, text) ==
  LET drawn[i \in 0 .. Len(text)] ==
        IF i = 0 THEN s ELSE draw_in_scroll(drawn[i - 1], text[i])
  IN drawn[Len(text)]

\* The characters of row y of the log up to the end of its line.
line_of(s, y) ==
  LET w == MAX_WIDTH_LOG(s)
      ends == {x \in 0 .. w - 1 : s.log[y][x] = Newline}
      n == IF ends = {} THEN w ELSE CHOOSE x \in ends : \A z \in ends : x <= z
  IN [i \in 1 .. n |-> s.log[y][i - 1]]

blanks(n) == [i \in 1 .. n |-> Blank]

\* The loops over a line, and over what is left of the row behind it.
padded(line, w) == [i \in 1 .. w |-> IF i <= Len(line) THEN line[i] ELSE Blank]

\* The lines from top_left on, in the order the loops visit them.
nth_line(s, i) == line_of(s, (s.top_left + i) % MAX_HEIGHT_LOG(s))

\* How many characters the first n of them have.
text_length(s, n) ==
  LET total[i \in 0 .. n] ==
        IF i = 0 THEN 0 ELSE total[i - 1] + Len(nth_line(s, i - 1))
  IN total[n]

\* The first n lines of a screen of width w, as one text.
text_of(s, n, w) ==
  [i \in 1 .. n * w |-> padded(nth_line(s, (i - 1) \div w), w)[((i - 1) % w) + 1]]

home(s) == [s EXCEPT !.x = 0, !.y = 0]

scroll_down(s) ==
  LET w == MAX_WIDTH_LOG(s)
      h == MAX_HEIGHT_LOG(s)
      wiped == draw_all(home(s), blanks(text_length(s, h)))
      lines == draw_all(home(wiped), text_of(s, h - 1, w))
      last == draw_all([lines EXCEPT !.y = SCREEN_HEIGHT - s.size], blanks(w))
  IN [last EXCEPT !.y = @ - s.size]

drawcharSize_unchecked(s, c) == put_glyph(next_line(s), c)

drawcharSize(s, c) ==
  LET t == next_line(s) IN put_glyph(IF below(t) THEN scroll_down(t) ELSE t, c)

deleteChar(s) ==
  IF s.x = 0 /\ s.y # 0
    THEN LET right(t) == [t EXCEPT !.x = SCREEN_WIDTH - s.size, !.y = @ - s.size]
         IN right(drawcharSize(right(s), Blank))
    ELSE LET left(t) == [t EXCEPT !.x = (@ - s.size) % WORD]
         IN left(drawcharSize(left(s), Blank))

-----------------------------------------------------------------------------
(* The text log.                                                           *)

down(s) == [s EXCEPT !.currentX = 0, !.currentY = @ + 1]

advance_top(s) == [s EXCEPT !.top_left = (@ + 1) % MAX_HEIGHT_LOG(s)]

store(s, c) == [s EXCEPT !.log[s.currentY][s.currentX] = c]

can_move_top_left_pointer(s) ==
  \/ s.currentY = MAX_HEIGHT_LOG(s)
  \/ /\ s.mooving
     /\ \/ s.currentY - s.top_left \in -1 .. 1
        \/ s.currentY = MAX_HEIGHT_LOG(s) - 1 /\ s.top_left = 0

\* The line is full: the next character opens a new one.
log_wrap(s) ==
  IF s.currentX < MAX_WIDTH_LOG(s) THEN s
  ELSE LET t == [down(s) EXCEPT !.currentY = @ % MAX_HEIGHT_LOG(s)]
       IN IF can_move_top_left_pointer(t) THEN advance_top(t) ELSE t

log_newline_stays(s) ==
  LET t == down(store(s, Newline))
  IN IF t.currentY >= MAX_HEIGHT_LOG(s) THEN advance_top([t EXCEPT !.currentY = 0]) ELSE t

log_newline(s) ==
  LET t == down(store(s, Newline))
  IN IF t.currentY >= MAX_HEIGHT_LOG(s) THEN advance_top([t EXCEPT !.currentY = 0])
     ELSE IF s.mooving THEN advance_top(t)
     ELSE t

log_backspace(s) ==
  LET last == MAX_WIDTH_LOG(s) - 1
      to(x, y) == store([s EXCEPT !.currentX = x, !.currentY = y], Blank)
  IN IF s.currentX # 0 THEN to(s.currentX - 1, s.currentY)
     ELSE IF s.currentY # 0 THEN to(last, s.currentY - 1)
     ELSE IF s.mooving THEN to(last, MAX_HEIGHT_LOG(s) - 1)
     ELSE s

tab_wrap(s) ==
  IF s.currentX < MAX_WIDTH_LOG(s) THEN s
  ELSE LET t == down(s)
       IN IF t.currentY >= MAX_HEIGHT_LOG(s) THEN advance_top([t EXCEPT !.currentY = 0])
          ELSE IF s.top_left # 0 \/ s.mooving THEN advance_top(t)
          ELSE t

log_char(s, c) == [store(s, c) EXCEPT !.currentX = @ + 1]

log_blank(s) == log_char(tab_wrap(s), Blank)

log_tab(s) == log_blank(log_blank(log_blank(log_blank(s))))

update_screen_text_log(s, c) ==
  LET w == log_wrap(s)
      t == CASE c = Newline -> log_newline(w)
             [] c = Backspace -> log_backspace(w)
             [] c = Tab -> log_tab(w)
             [] OTHER -> log_char(w, c)
  IN [t EXCEPT !.mooving = @ \/ t.top_left # 0]

-----------------------------------------------------------------------------
(* The operations.                                                         *)

print_newline(s) ==
  LET t == [s EXCEPT !.x = 0, !.y = @ + s.size]
  IN IF below(t) THEN scroll_down(t) ELSE t

draw_blank(s) == drawcharSize(s, Blank)

draw_tab(s) == draw_blank(draw_blank(draw_blank(draw_blank(s))))

\* One character of print.
print(s, c) ==
  LET t == update_screen_text_log(s, c)
  IN CASE c = Newline -> print_newline(t)
       [] c = Backspace -> deleteChar(t)
       [] c = Tab -> draw_tab(t)
       [] OTHER -> drawcharSize(t, c)

\* The log's bytes stay: only its cursor is reset.
clear_screen_text_log(s) ==
  [s EXCEPT !.currentX = 0, !.currentY = 0, !.top_left = 0, !.mooving = FALSE]

clear_screen(s) ==
  [clear_screen_text_log(s) EXCEPT !.shown = Grid(Blank), !.x = 0, !.y = 0]

zoom_in(s) == clear_screen([s EXCEPT !.size = IF @ = 1 THEN 2 ELSE 4])
zoom_out(s) == clear_screen([s EXCEPT !.size = IF @ = 4 THEN 2 ELSE 1])

\* The next colour of the table that is not the other one of the pair.
next_color(i, other) ==
  LET j == (i + 1) % CANT_COLORS
  IN IF j = other THEN (j + 1) % CANT_COLORS ELSE j

change_font_color(s) ==
  clear_screen([s EXCEPT !.font = next_color(@, s.background)])
change_bg_color(s) ==
  clear_screen([s EXCEPT !.background = next_color(@, s.font)])

\* The two places where the cursors part: the first scroll is caused by a full
\* line (log_wrap reduces currentY before it compares it with the height), and
\* a backspace takes back the start of a line after the log began to move, or
\* the start of the screen.
Parts(s, c) ==
  LET w == log_wrap(s)
  IN \/ w # s /\ ~s.mooving /\ s.currentY = MAX_HEIGHT_LOG(s) - 1
     \/ c = Backspace /\ w.currentX = 0 /\ (w.mooving \/ w.currentY = 0)

PrintChar ==
  /\ printed < MaxPrinted
  /\ \E c \in {Glyph, Newline, Backspace, Tab} :
       /\ con' = print(con, c)
       /\ aligned' = (aligned /\ ~Parts(con, c))
  /\ printed' = printed + 1

Cleared == aligned' = TRUE /\ UNCHANGED printed

ClearScreen == con' = clear_screen(con) /\ Cleared
Zoom == (con' = zoom_in(con) \/ con' = zoom_out(con)) /\ Cleared

\* Bound: the colours change once the text is printed; drawing treats every
\* colour alike, and the change clears the screen.
ChangeColor ==
  /\ printed = MaxPrinted
  /\ con' = change_bg_color(con) \/ con' = change_font_color(con)
  /\ Cleared

ConsoleInit == con = Console0 /\ printed = 0 /\ aligned = TRUE

ConsoleNext == PrintChar \/ ClearScreen \/ Zoom \/ ChangeColor

ConsoleSpec == ConsoleInit /\ [][ConsoleNext]_consoleVars

-----------------------------------------------------------------------------
(* Properties.                                                             *)

\* Whatever is printed, erased, tabbed and zoomed, drawcharSize never writes a
\* pixel outside the frame buffer, and the log's cursor always names a byte of
\* the log (the column after the last one is only ever left, not written).
DrawsInside ==
  /\ con.inside
  /\ con.currentX \in 0 .. MAX_WIDTH_LOG(con)
  /\ con.currentY \in 0 .. MAX_HEIGHT_LOG(con) - 1
  /\ con.top_left \in 0 .. MAX_HEIGHT_LOG(con) - 1

\* Until one of the two steps that part the cursors, the cursor of the screen
\* is the cursor of the log counted from top_left, and every line above and up
\* to the cursor shows what the log holds for it: a scroll loses and repeats
\* nothing, and no text from before a clear_screen comes back.
ScreenShowsLog ==
  aligned =>
    LET w == MAX_WIDTH_LOG(con)
        h == MAX_HEIGHT_LOG(con)
        row == (con.currentY - con.top_left) % h
        full == con.currentX = w
    IN /\ con.y \div con.size = IF full THEN row + 1 ELSE row
       /\ con.x \div con.size = IF full THEN 0 ELSE con.currentX
       /\ \A r \in 0 .. row :
            LET line == line_of(con, (con.top_left + r) % h)
            IN \A i \in 1 .. Len(line) :
                 (r < row \/ i <= con.currentX) => con.shown[r][i - 1] = line[i]

=============================================================================

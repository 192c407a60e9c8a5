--------------------------------- MODULE Tty --------------------------------
(***************************************************************************)
(* The terminal (tty.c, display.c): a ring of text rows drawn on the       *)
(* screen, and the buffer of typed characters.  What a call does is given  *)
(* as functions on the terminal's state: whole for the interrupt handler,  *)
(* and for a process in the pieces between which a key can come.           *)
(***************************************************************************)
EXTENDS Integers, Sequences, SequencesExt

CONSTANTS chars_width, chars_height,    \* of the screen, in characters
          InputLength                   \* INPUT_BUF_LENGTH
ASSUME TtyAssumption == chars_width \in Nat \ {0} /\ chars_height \in Nat \ {0}
                        /\ InputLength \in Nat \ {0}

Blank   == " "
Newline == "nl"
Erase   == "bs"
Rows == 0 .. chars_height - 1
Cols == 0 .. chars_width - 1
BlankRow == [x \in Cols |-> Blank]

-----------------------------------------------------------------------------
(* blit_row: what a row of the buffer looks like; nothing shows from a     *)
(* newline on.                                                             *)
blit_row(row) == [x \in Cols |-> IF \E i \in 0 .. x : row[i] = Newline THEN Blank ELSE row[x]]

(* The screen drawn from the row below the cursor's round to the cursor's. *)
Render(t) == [y \in Rows |-> blit_row(t.buf[(y + t.cy + 1) % chars_height])]

(* blit: all of it, or only the character left of the cursor. *)
blit(t) ==
    IF t.dirty = "all" THEN [t EXCEPT !.screen = Render(t)]
    ELSE IF t.cx = 0 THEN [t EXCEPT !.halt = TRUE]
    ELSE [t EXCEPT !.screen[chars_height - 1][t.cx - 1] = t.buf[t.cy][t.cx - 1]]

(* initialise_tty *)
initialise_tty ==
    LET t == [buf |-> [y \in Rows |-> BlankRow], cx |-> 0, cy |-> 0, run |-> 0,
              dirty |-> "all", screen |-> [y \in Rows |-> BlankRow], halt |-> FALSE]
    IN blit(t)

(* memset of chars_width cells from the cursor on: its row, if it stands at  *)
(* the row's start (the cells behind the last row are not the terminal's).  *)
ClearRow(t) ==
    LET start == t.cx + chars_width * t.cy IN
    [t EXCEPT !.buf = [y \in Rows |-> [x \in Cols |->
        IF x + chars_width * y \in start .. start + chars_width - 1 THEN Blank ELSE @[y][x]]]]
NextRow(t) == [t EXCEPT !.cy = (@ + 1) % chars_height]
do_newline(t) == [ClearRow([NextRow(t) EXCEPT !.cx = 0]) EXCEPT !.dirty = "all"]

(* Mutant: over the start of the row too, only one place is drawn again. *)
MutBackspace(t) ==
    LET y == IF t.cy = 0 THEN chars_height - 1 ELSE t.cy - 1
        x == chars_width - 1
    IN CASE t.run = 0 -> t
         [] t.run > 0 /\ t.cx > 0 -> blit([t EXCEPT !.run = @ - 1, !.cx = @ - 1,
                                               !.buf[t.cy][t.cx - 1] = Blank, !.dirty = "all"])
         [] OTHER -> blit([t EXCEPT !.run = @ - 1, !.cx = x, !.cy = y, !.buf[y][x] = Blank,
                                    !.dirty = "prev"])
(* write_from_multiple_sources, a backspace typed in canonical mode: back   *)
(* one place, over the start of the row if need be.                        *)
Backspace(t) ==
    IF t.run = 0 THEN t
    ELSE LET y == IF t.cx > 0 THEN t.cy ELSE IF t.cy = 0 THEN chars_height - 1 ELSE t.cy - 1
             x == IF t.cx > 0 THEN t.cx - 1 ELSE chars_width - 1
         IN blit([t EXCEPT !.run = @ - 1, !.cx = x, !.cy = y, !.buf[y][x] = Blank,
                           !.dirty = "all"])

(* Any other character: stored in its place, the run of typed ones counted, *)
(* the cursor moved and, at the edge, taken to the next row.               *)
Store(t, c) ==
    IF t.cx >= chars_width THEN [t EXCEPT !.halt = TRUE]
    ELSE [(IF t.cx = 0 THEN ClearRow(t) ELSE t) EXCEPT !.buf[t.cy][t.cx] = c]
Advance(t, x) == [t EXCEPT !.cx = x + 1]
(* Mutant: the edge is noticed one place late. *)
MutAtEdge(t) == t.cx > chars_width
AtEdge(t) == t.cx = chars_width

(* The whole of it, as the interrupt handler runs it. *)
Echo(t, c) ==
    IF c = Erase THEN Backspace(t)
    ELSE LET s == Store(t, c)
             u == IF c = Newline THEN do_newline([s EXCEPT !.run = 0])
                  ELSE [Advance(s, s.cx) EXCEPT !.run = @ + 1, !.dirty = "prev"]
         IN IF s.halt THEN s ELSE blit(IF AtEdge(u) THEN do_newline(u) ELSE u)

(* The same for a process, a statement at a time: interrupts are on.  w.pc  *)
(* is the next statement and w.x what was loaded from cursor_x, which the   *)
(* increment loads and stores; statements that touch only text are joined. *)
WriteStep(w, t) ==
    LET to(pc) == [w EXCEPT !.pc = pc]
        then(v, u) == [w |-> v, t |-> u]
        stop == [t EXCEPT !.halt = TRUE]
    IN CASE w.pc = "store"   -> then(to("run"), Store(t, w.c))
         [] w.pc = "run"     -> then(to(IF w.c = Newline THEN "end" ELSE "load"), [t EXCEPT !.run = 0])
         [] w.pc = "load"    -> then([to("advance") EXCEPT !.x = t.cx], t)
         [] w.pc = "advance" -> then(to("mark"), Advance(t, w.x))
         [] w.pc = "mark"    -> then(to("edge"), [t EXCEPT !.dirty = "prev"])
         [] w.pc = "edge"    -> then(to(IF AtEdge(t) THEN "row" ELSE "blit"), t)
         [] w.pc = "end"     -> then(to("row"), [t EXCEPT !.run = 0])
         [] w.pc = "row"     -> then(to("column"), NextRow(t))
         [] w.pc = "column"  -> then(to("all"), [t EXCEPT !.cx = 0])
         [] w.pc = "all"     -> then([to(IF w.c = Newline THEN "edge" ELSE "blit") EXCEPT !.c = Blank],
                                     [ClearRow(t) EXCEPT !.dirty = "all"])
         [] w.pc = "blit"    -> then([to(IF t.dirty = "all" THEN "draw" ELSE "index") EXCEPT !.x = 0], t)
         [] w.pc = "draw"    -> then(to("idle"), [t EXCEPT !.screen = Render(t)])
         [] w.pc = "index"   -> then(to("plot"), IF t.cx = 0 THEN stop ELSE t)
         [] w.pc = "plot"    -> then(to("idle"), IF t.cx = 0 THEN stop
                                                 ELSE [t EXCEPT !.screen[chars_height - 1][t.cx - 1] =
                                                                 t.buf[t.cy][t.cx - 1]])

-----------------------------------------------------------------------------
(* The input buffer: cells, and the number in use.                         *)
EmptyInput == [cell |-> [i \in 0 .. InputLength - 1 |-> Blank], next |-> 0, halt |-> FALSE]
Pending(in) == [i \in 1 .. in.next |-> in.cell[i - 1]]

(* tty_provide_stdin, after the echo. *)
Provide(in, c) ==
    CASE c = Erase -> [in EXCEPT !.next = IF @ = 0 THEN 0 ELSE @ - 1]
      [] c # Erase /\ in.next = InputLength -> [in EXCEPT !.halt = TRUE]
      [] OTHER -> [in EXCEPT !.cell[in.next] = c, !.next = @ + 1]

(* Where the first line ends, 0 if there is none. *)
find_newline_in_input_buffer(in) ==
    LET ends == {i \in 1 .. in.next : in.cell[i - 1] = Newline} IN
    IF ends = {} THEN 0 ELSE CHOOSE i \in ends : \A j \in ends : i <= j

(* tty_read: how much it takes, and the rest moved down.  The subtraction  *)
(* from next comes after.                                                  *)
ReadCount(in, num) == LET e == find_newline_in_input_buffer(in) IN IF e < num THEN e ELSE num
Shuffle(in, n) == [in EXCEPT !.cell = [i \in 0 .. InputLength - 1 |->
                      IF i < in.next - n THEN in.cell[i + n] ELSE in.cell[i]]]
=============================================================================

------------------------------ MODULE Terminal ------------------------------
(***************************************************************************)
(* vendors/st/st.c, the screen of the terminal: the lines of two screens,  *)
(* the history above the first of them, the cursor with its pending wrap,  *)
(* the scrolling region, the selection and the dirty lines, under what a   *)
(* program prints, the keys and the mouse of the user, and changes of size.*)
(*                                                                         *)
(* A glyph keeps its rune and the flags that say how lines end and which   *)
(* cells a wide rune takes; colours and character sets are left out.  The  *)
(* ring of the history is the sequence of its lines, newest last.  The     *)
(* coordinates of the selection are those of the window, so that scrolling *)
(* back moves them.                                                        *)
(***************************************************************************)
EXTENDS Integers, SequencesExt

CONSTANTS
  HISTSIZE, RESIZEBUFFER, \* of st.c, 2000 and 1000 there
  Tabspaces,              \* of config.h
  Wide,                   \* the runes that take two cells
  Instances               \* where behaviours begin: size, text, what may happen, and
                          \* the bound on the steps

ASSUME ScreenAssumption ==
  /\ HISTSIZE \in Nat \ {0} /\ RESIZEBUFFER \in Nat
  /\ Tabspaces \in Nat \ {0}
  /\ \A i \in Instances : i.row \in 1..HISTSIZE /\ i.col \in Nat \ {0} /\ i.steps \in Nat

VARIABLES
  term,  \* the struct of that name, with the selection
  may,   \* the kinds of steps of this behaviour
  did,   \* the kind of the last step (history)
  steps  \* steps that are left

termVars == <<term, may, did, steps>>

Space == [u |-> " ", mode |-> {}]

BlankLine(col) == [x \in 0..col-1 |-> Space]
BlankLines(row, col) == [y \in 0..row-1 |-> BlankLine(col)]

Limit(v, a, b) == Max({a, Min({v, b})})
Width(u) == IF u \in Wide THEN 2 ELSE 1

Home == [x |-> 0, y |-> 0, wrapnext |-> FALSE, origin |-> FALSE]

NoSel == [on |-> FALSE, mode |-> "idle", type |-> "regular", snap |-> "none",
          alt |-> FALSE, ob |-> [x |-> 0, y |-> 0], oe |-> [x |-> 0, y |-> 0],
          nb |-> [x |-> 0, y |-> 0], ne |-> [x |-> 0, y |-> 0]]

\* tnew and treset.
Fresh(row, col) ==
  [ row |-> row, col |-> col, line |-> BlankLines(row, col),
    other |-> [row |-> row, col |-> col, line |-> BlankLines(row, col)],
    alt |-> FALSE, hist |-> << >>, scr |-> 0,
    c |-> Home, saved |-> [a \in BOOLEAN |-> Home],
    top |-> 0, bot |-> row - 1,
    wrap |-> TRUE, insert |-> FALSE, crlf |-> FALSE,
    wrapcwidth |-> [a \in BOOLEAN |-> 0],
    tabs |-> {x \in 1..col-1 : x % Tabspaces = 0},
    lastc |-> "none", dirty |-> 0..row-1, sel |-> NoSel ]

----------------------------------------------------------------------------
(* Lines *)

LineLen(l) == Max({0} \cup {x + 1 : x \in {x \in DOMAIN l : l[x].mode \cap {"set", "wrap"} # {}}})

IsWrapped(l) == LineLen(l) > 0 /\ "wrap" \in l[LineLen(l) - 1].mode

\* TLINE: the line that row y of the window shows.
View(t, y) == IF y < t.scr THEN t.hist[Len(t.hist) - t.scr + y + 1] ELSE t.line[y - t.scr]

\* TLINEABS
Abs(t, y) == IF y < 0 THEN t.hist[Len(t.hist) + y + 1] ELSE t.line[y]

SetDirt(t, a, b) ==
  [t EXCEPT !.dirty = @ \cup (Limit(a, 0, t.row - 1)..Limit(b, 0, t.row - 1))]

FullDirt(t) == [t EXCEPT !.dirty = 0..t.row-1]

----------------------------------------------------------------------------
(* The selection *)

SelRemove(t) == [t EXCEPT !.sel.on = FALSE, !.sel.mode = "idle"]

SelDirt(t) == SetDirt(t, t.sel.nb.y, t.sel.ne.y)

SelClear(t) == IF t.sel.on THEN SelDirt(SelRemove(t)) ELSE t

SelMove(t, n) ==
  [t EXCEPT !.sel.ob.y = @ + n, !.sel.nb.y = @ + n, !.sel.oe.y = @ + n, !.sel.ne.y = @ + n]

RegionSelected(t, x1, y1, x2, y2) ==
  LET s == t.sel
  IN  /\ s.on /\ s.mode # "empty" /\ s.alt = t.alt
      /\ s.nb.y <= y2 /\ s.ne.y >= y1
      /\ IF s.type = "rectangular" THEN s.nb.x <= x2 /\ s.ne.x >= x1
         ELSE (s.nb.y = y2 => s.nb.x <= x2) /\ (s.ne.y = y1 => s.ne.x >= x1)

SelScrollBegin(t, top, bot, n) ==
  LET inside == t.scr + top .. t.scr + bot
  IN  CASE t.sel.nb.y \notin inside -> t
        [] OTHER -> IF t.sel.nb.y + n < t.scr + top \/ t.sel.ne.y + n > t.scr + bot
                    THEN SelClear(SelMove(t, n)) ELSE SelMove(t, n)

\* top and bot are lines of the screen.
SelScroll(t, top, bot, n) ==
  LET inside == t.scr + top .. t.scr + bot
  IN  CASE (t.sel.nb.y \in inside) # (t.sel.ne.y \in inside) -> SelClear(t)
        [] t.sel.nb.y \notin inside /\ t.sel.ne.y \notin inside -> t
        [] OTHER -> IF t.sel.nb.y + n < t.scr + top \/ t.sel.ne.y + n > t.scr + bot
                    THEN SelClear(SelMove(t, n)) ELSE SelMove(t, n)

\* The first and the last row of what the history and the screen hold.
FirstRow(t) == IF t.alt THEN 0 ELSE t.scr - Len(t.hist)
LastRow(t)  == IF t.alt THEN t.row - 1 ELSE t.scr + t.row - 1

\* SNAP_LINE: over the rows that are wrapped into each other.
SnapUp(t, y) ==
  Min({z \in FirstRow(t)..y : \A k \in z..y-1 : IsWrapped(View(t, k))} \cup {y})
SnapDown(t, y) ==
  Max({z \in y..LastRow(t) : \A k \in y..z-1 : IsWrapped(View(t, k))} \cup {y})

SelNormalize(t) ==
  LET s   == t.sel
      asc == s.ob.y < s.oe.y
      lines == s.type = "regular" /\ s.ob.y # s.oe.y
      y1  == Min({s.ob.y, s.oe.y})
      y2  == Max({s.ob.y, s.oe.y})
      x1  == IF lines THEN (IF asc THEN s.ob.x ELSE s.oe.x) ELSE Min({s.ob.x, s.oe.x})
      x2  == IF lines THEN (IF asc THEN s.oe.x ELSE s.ob.x) ELSE Max({s.ob.x, s.oe.x})
      nb  == IF s.snap = "line" THEN [x |-> 0, y |-> SnapUp(t, y1)] ELSE [x |-> x1, y |-> y1]
      ne  == IF s.snap = "line" THEN [x |-> t.col - 1, y |-> SnapDown(t, y2)]
             ELSE [x |-> x2, y |-> y2]
      \* over line breaks
      nbx == Min({nb.x, LineLen(View(t, nb.y))})
      nex == IF ne.x >= LineLen(View(t, ne.y)) THEN t.col - 1 ELSE ne.x
  IN  IF s.type = "rectangular" THEN [t EXCEPT !.sel.nb = nb, !.sel.ne = ne]
      ELSE [t EXCEPT !.sel.nb = [nb EXCEPT !.x = nbx], !.sel.ne = [ne EXCEPT !.x = nex]]

SelStart(t, x, y, snap) ==
  LET begun == [NoSel EXCEPT !.on = TRUE, !.mode = IF snap = "none" THEN "empty" ELSE "ready",
                  !.alt = t.alt, !.snap = snap, !.ob = [x |-> x, y |-> y], !.oe = [x |-> x, y |-> y]]
  IN  SelDirt(SelNormalize([SelClear(t) EXCEPT !.sel = begun]))

\* After the end of the selection old has moved: every row of either is drawn.
SelChanged(t, old) ==
  IF old.oe # t.sel.oe \/ old.type # t.sel.type \/ old.mode = "empty"
  THEN SetDirt(t, Min({t.sel.nb.y, old.nb.y}), Max({t.sel.ne.y, old.ne.y})) ELSE t

SelExtend(t, x, y, type, done) ==
  CASE t.sel.mode = "idle" -> t
    [] done /\ t.sel.mode = "empty" -> SelClear(t)
    [] OTHER -> [SelChanged(SelNormalize([t EXCEPT !.sel.oe = [x |-> x, y |-> y],
                                                   !.sel.type = type]), t.sel)
                   EXCEPT !.sel.mode = IF done THEN "idle" ELSE "ready"]

----------------------------------------------------------------------------
(* Clearing, scrolling and moving *)

\* The coordinates are those of the screen.
ClearRegion(t, x1, y1, x2, y2) ==
  LET s == IF RegionSelected(t, x1 + t.scr, y1 + t.scr, x2 + t.scr, y2 + t.scr)
           THEN SelRemove(t) ELSE t
  IN  [s EXCEPT !.dirty = @ \cup (y1..y2),
         !.line = [y \in DOMAIN @ |->
                     [x \in DOMAIN @[y] |->
                        IF y \in y1..y2 /\ x \in x1..x2 THEN Space ELSE @[y][x]]]]

OfScreen(t) == t.sel.on /\ t.sel.alt = t.alt

\* The lines below top move down by n; those that the bottom loses come in, cleared.
LinesDown(t, top, n) ==
  [t EXCEPT !.line = [y \in DOMAIN @ |->
     CASE y \in top+n..t.bot   -> @[y - n]
       [] y \in top..top+n-1   -> @[y + t.bot - top - n + 1]
       [] OTHER -> @[y]]]

ScrollDownFew(t, top, k) ==
  LET n == Min({k, t.bot - top + 1})
      cleared == ClearRegion(SetDirt(t, top, top + n - 1), 0, t.bot - n + 1, t.col - 1, t.bot)
      Rest(m) == IF OfScreen(m) THEN SelScroll(m, top, t.bot, n) ELSE m
  IN  IF k <= 0 THEN t ELSE Rest(LinesDown(cleared, top, n))

ScrollDown(t, top, k) ==
  LET n == Min({k, t.bot - top + 1})
      cleared == ClearRegion(SetDirt(t, top, t.bot - n), 0, t.bot - n + 1, t.col - 1, t.bot)
      Rest(m) == IF OfScreen(m) THEN SelScroll(m, top, t.bot, n) ELSE m
  IN  IF k <= 0 THEN t ELSE Rest(LinesDown(cleared, top, n))

\* The newest HISTSIZE lines of h.
Kept(h) == SubSeq(h, Max({1, Len(h) - HISTSIZE + 1}), Len(h))

FollowedNot(scr, n) == scr

\* A view of the history follows the lines that it shows.
Followed(scr, n) == IF scr > 0 THEN Min({scr + n, HISTSIZE}) ELSE 0

\* Lines that leave a region move up into the history ("save", "resize") or are
\* lost ("nosave").
ScrollUp(t, top, bot, k, mode) ==
  LET n == Min({k, bot - top + 1})
      save == ~t.alt /\ top = 0 /\ mode # "nosave"
      scr  == Followed(t.scr, n)
      saved == [(IF mode = "resize" THEN t ELSE FullDirt(t)) EXCEPT
                  !.hist = Kept(@ \o [i \in 1..n |-> t.line[i - 1]]), !.scr = scr]
      lost == SetDirt(ClearRegion(t, 0, top, t.col - 1, top + n - 1), top + n, bot)
      Up(s) == [s EXCEPT !.line = [y \in DOMAIN @ |->
                  IF y \in top..bot-n THEN @[y + n]
                  ELSE IF y \in bot-n+1..bot THEN BlankLine(t.col) ELSE @[y]]]
      OffHistory(m) == IF m.sel.nb.y - scr < -Len(m.hist) THEN SelRemove(m) ELSE m
      Sel(m) == CASE ~OfScreen(m) -> m
                  [] OfScreen(m) /\ ~save -> SelScroll(m, top, bot, -n)
                  [] OfScreen(m) /\ save /\ t.scr + n = scr -> m
                  [] OTHER -> OffHistory(SelMove(m, scr - t.scr - n))
  IN  IF k <= 0 THEN t ELSE Sel(Up(IF save THEN saved ELSE lost))

MoveTo(t, x, y) ==
  [t EXCEPT !.c.wrapnext = FALSE, !.c.x = Limit(x, 0, t.col - 1),
            !.c.y = IF t.c.origin THEN Limit(y, t.top, t.bot) ELSE Limit(y, 0, t.row - 1)]

MoveAto(t, x, y) == MoveTo(t, x, y + IF t.c.origin THEN t.top ELSE 0)

NewLine(t, first) ==
  LET x == IF first THEN 0 ELSE t.c.x
  IN  IF t.c.y = t.bot THEN MoveTo(ScrollUp(t, t.top, t.bot, 1, "save"), x, t.c.y)
      ELSE MoveTo(t, x, t.c.y + 1)

\* ESC D, and ESC M.
Index(t) == IF t.c.y = t.bot THEN ScrollUp(t, t.top, t.bot, 1, "save")
            ELSE MoveTo(t, t.c.x, t.c.y + 1)

ReverseIndex(t) == IF t.c.y = t.top THEN ScrollDown(t, t.top, 1)
                   ELSE MoveTo(t, t.c.x, t.c.y - 1)

\* tputtab: the next stop to the right, or the last column; to the left, the first.
PutTab(t, dir) ==
  [t EXCEPT !.c.x = IF dir > 0 THEN Min({x \in t.tabs : x > @} \cup {t.col - 1})
                    ELSE Max({x \in t.tabs : x < @} \cup {0})]

SetScroll(t, a, b) ==
  LET y1 == Limit(a, 0, t.row - 1)
      y2 == Limit(b, 0, t.row - 1)
  IN  MoveAto([t EXCEPT !.top = Min({y1, y2}), !.bot = Max({y1, y2})], 0, 0)

InsertLines(t, n) == IF t.c.y \in t.top..t.bot THEN ScrollDown(t, t.c.y, n) ELSE t

DeleteLines(t, n) ==
  IF t.c.y \in t.top..t.bot THEN ScrollUp(t, t.c.y, t.bot, n, "nosave") ELSE t

\* memmove inside the line of the cursor, then the cells that are free.
InsertBlank(t, n) ==
  LET dst == Min({t.c.x + n, t.col})
  IN  ClearRegion([t EXCEPT !.line[t.c.y] =
                     [x \in DOMAIN @ |-> IF x >= dst THEN @[x - n] ELSE @[x]]],
                  t.c.x, t.c.y, dst - 1, t.c.y)

DeleteChar(t, n) ==
  LET size == t.col - Min({t.c.x + n, t.col})
  IN  ClearRegion([t EXCEPT !.line[t.c.y] =
                     [x \in DOMAIN @ |-> IF x \in t.c.x..t.c.x+size-1 THEN @[x + n] ELSE @[x]]],
                  t.c.x + size, t.c.y, t.col - 1, t.c.y)

\* ED
EraseDisplay(t, arg) ==
  LET n == Max({-1} \cup {y \in 0..t.row-1 : LineLen(t.line[y]) > 0})
      below == ClearRegion(t, t.c.x, t.c.y, t.col - 1, t.c.y)
      above == IF t.c.y >= 1 THEN ClearRegion(t, 0, 0, t.col - 1, t.c.y - 1) ELSE t
  IN  CASE arg = 0 -> IF t.c.y < t.row - 1
                      THEN ClearRegion(below, 0, t.c.y + 1, t.col - 1, t.row - 1) ELSE below
        [] arg = 1 -> ClearRegion(above, 0, t.c.y, t.c.x, t.c.y)
        [] arg = 2 /\ t.alt -> ClearRegion(t, 0, 0, t.col - 1, t.row - 1)
        [] OTHER -> ScrollUp(ScrollUp(t, 0, t.row - 1, n + 1, "save"),
                             0, t.row - 1, t.row - n - 1, "nosave")

\* EL
EraseLine(t, arg) ==
  ClearRegion(t, IF arg = 0 THEN t.c.x ELSE 0, t.c.y,
                 IF arg = 1 THEN t.c.x ELSE t.col - 1, t.c.y)

\* ECH
EraseChars(t, n) == ClearRegion(t, t.c.x, t.c.y, Min({t.c.x + n, t.col}) - 1, t.c.y)

----------------------------------------------------------------------------
(* Printing *)

\* Half of a wide rune that is overwritten leaves a space in its other cell,
\* inside the line.
SetChar(t, u, x, y) ==
  LET l == t.line[y]
      half == [z \in DOMAIN l |->
                 CASE z = x + 1 /\ "wide" \in l[x].mode
                        -> [u |-> " ", mode |-> l[z].mode \ {"dummy"}]
                   [] z = x - 1 /\ "wide" \notin l[x].mode /\ "dummy" \in l[x].mode
                        -> [u |-> " ", mode |-> l[z].mode \ {"wide"}]
                   [] OTHER -> l[z]]
  IN  [t EXCEPT !.dirty = @ \cup {y},
                !.line[y] = [half EXCEPT ![x] = [u |-> u, mode |-> {"set"}]]]

\* The second cell of a wide rune at the cursor.  An older wide rune there keeps
\* its flag "set", so the test of gp[1].mode fails for it.
SetDummy(t) ==
  LET x == t.c.x
      y == t.c.y
      l == [t.line[y] EXCEPT ![x].mode = @ \cup {"wide"}]
      m == IF x + 2 < t.col /\ l[x + 1].mode = {"wide"}
           THEN [l EXCEPT ![x + 2] = [u |-> " ", mode |-> @.mode \ {"dummy"}]] ELSE l
  IN  [t EXCEPT !.line[y] = IF x + 1 < t.col
                            THEN [m EXCEPT ![x + 1] = [u |-> "", mode |-> {"dummy"}]] ELSE l]

\* The parts of tputc for a rune that belongs to no sequence, in their order.
Unselected(t) ==
  IF RegionSelected(t, t.c.x + t.scr, t.c.y + t.scr, t.c.x + t.scr, t.c.y + t.scr)
  THEN SelClear(t) ELSE t

Continued(t) ==
  IF t.wrap /\ t.c.wrapnext
  THEN NewLine([t EXCEPT !.line[t.c.y][t.c.x].mode = @ \cup {"wrap"}], TRUE) ELSE t

Inserted(t, w) ==
  IF t.insert /\ t.c.x + w < t.col
  THEN [t EXCEPT !.line[t.c.y] =
          [x \in DOMAIN @ |-> CASE x >= t.c.x + w -> @[x - w]
                               [] x = t.c.x -> [@[x] EXCEPT !.mode = @ \ {"wide"}]
                               [] OTHER -> @[x]]]
  ELSE t

Fitted(t, w) ==
  CASE t.c.x + w <= t.col -> t
    [] t.c.x + w > t.col /\ t.wrap -> NewLine(t, TRUE)
    [] OTHER -> MoveTo(t, t.col - w, t.c.y)

Advanced(t, w) ==
  IF t.c.x + w < t.col THEN MoveTo(t, t.c.x + w, t.c.y)
  ELSE [t EXCEPT !.wrapcwidth[t.alt] = w, !.c.wrapnext = TRUE]

Put(t, u) ==
  LET Place(s) == [SetChar(s, u, s.c.x, s.c.y) EXCEPT !.lastc = u]
      Both(s)  == IF Width(u) = 2 THEN SetDummy(s) ELSE s
  IN  Advanced(Both(Place(Fitted(Inserted(Continued(Unselected(t)), Width(u)), Width(u)))),
               Width(u))

\* REP
Repeat(t) == IF t.lastc = "none" THEN t ELSE Put(Put(t, t.lastc), t.lastc)

\* DECALN
Align(t) == FoldLeft(LAMBDA s, i : SetChar(s, "E", (i - 1) \div t.row, (i - 1) % t.row),
                     t, [i \in 1..t.row * t.col |-> i])

\* The control characters, after which there is no last rune to repeat.
Control(t, ch) ==
  [ CASE ch = "LF" -> NewLine(t, t.crlf)
      [] ch = "CR" -> MoveTo(t, 0, t.c.y)
      [] ch = "BS" -> MoveTo(t, t.c.x - 1, t.c.y)
      [] ch = "HT" -> PutTab(t, 1)
    EXCEPT !.lastc = "none" ]

\* A text: runes and control characters.
Feed(t, s) ==
  FoldLeft(LAMBDA a, ch : IF ch \in {"LF", "CR", "BS", "HT"} THEN Control(a, ch) ELSE Put(a, ch), t, s)

----------------------------------------------------------------------------
(* Two screens *)

SaveCursor(t) == [t EXCEPT !.saved[t.alt] = t.c]

LoadCursor(t) == LET s == [t EXCEPT !.c = t.saved[t.alt]] IN MoveTo(s, s.c.x, s.c.y)

SwapScreen(t) ==
  [t EXCEPT !.line = t.other.line, !.row = t.other.row, !.col = t.other.col,
            !.other = [line |-> t.line, row |-> t.row, col |-> t.col], !.alt = ~@]

\* UPDATEWRAPNEXT: a wrap that was pending moves the cursor into the new column.
UpdateWrapNext(t, alt, col) ==
  IF t.c.wrapnext /\ t.c.x + t.wrapcwidth[alt] < col
  THEN [t EXCEPT !.c.x = @ + t.wrapcwidth[alt], !.c.wrapnext = FALSE] ELSE t

\* The last lines of every resize.
Sized(t, col, row) ==
  FullDirt([t EXCEPT !.col = col, !.row = row, !.top = 0, !.bot = row - 1])

\* A line of another width, and the first rows of lines from row i on.
Widened(l, col) == [x \in 0..col-1 |-> IF x \in DOMAIN l THEN l[x] ELSE Space]
Rows(lines, i, row, col) ==
  [y \in 0..row-1 |-> IF y + i \in DOMAIN lines THEN Widened(lines[y + i], col) ELSE BlankLine(col)]

ResizeAlt(t, col, row) ==
  LET i == Max({0, t.c.y - row + 1})
      s == [(IF t.sel.alt THEN SelRemove(t) ELSE t) EXCEPT
              !.line = Rows(@, i, row, col), !.c.y = @ - i]
      m == IF t.c.x >= col THEN [s EXCEPT !.c.wrapnext = FALSE, !.c.x = col - 1]
           ELSE UpdateWrapNext(s, TRUE, col)
  IN  IF t.col = col /\ t.row = row THEN FullDirt(t) ELSE Sized(m, col, row)

\* Lines come back from the history; what was below the cursor gives way.
RScrollDown(t, k, row) ==
  LET n == Min({k, Len(t.hist)})
      h == Len(t.hist)
      s == [t EXCEPT !.line = [y \in 0..row-1 |->
                                 CASE y < n -> t.hist[h - n + y + 1]
                                   [] y \in n..t.c.y+n -> @[y - n]
                                   [] OTHER -> @[y]],
                     !.hist = SubSeq(@, 1, h - n), !.c.y = @ + n,
                     !.scr = Max({0, @ - n})]
  IN  IF n <= 0 THEN t
      ELSE IF t.scr < n /\ t.sel.on /\ ~t.sel.alt THEN SelMove(s, n - t.scr) ELSE s

CopiedText(t, y) == LET l == Abs(t, y) IN [i \in 1..LineLen(l) |-> l[i - 1]]

\* The cells of line y that treflow copies: those of the cursor's line reach to
\* the cursor.
Copied(t, y) ==
  LET l == Abs(t, y)
      n == IF y = t.c.y THEN Max({LineLen(l), t.c.x + 1}) ELSE LineLen(l)
  IN  [i \in 1..n |-> l[i - 1]]

\* One line is poured behind what the last one left in the unfinished line cur.
Pour(acc, cells, col) ==
  LET p == acc.cur \o cells
      k == Len(p) \div col
      full == [i \in 1..k |-> [x \in 0..col-1 |->
                 IF x = col - 1 /\ i * col < Len(p)
                 THEN [p[i * col] EXCEPT !.mode = @ \cup {"wrap"}] ELSE p[(i - 1) * col + x + 1]]]
      rest == SubSeq(p, k * col + 1, Len(p))
      pad  == [x \in 0..col-1 |-> IF x < Len(rest) THEN rest[x + 1] ELSE Space]
      ends == cells = << >> \/ "wrap" \notin Last(cells).mode
  IN  IF p # << >> /\ rest = << >> THEN [buf |-> acc.buf \o full, cur |-> << >>]
      ELSE IF ends THEN [buf |-> acc.buf \o full \o <<pad>>, cur |-> << >>]
      ELSE [buf |-> acc.buf \o full,
            cur |-> [rest EXCEPT ![Len(rest)].mode = @ \ {"wrap"}]]

\* The lines of the history and those to the end of the cursor's paragraph, which
\* is line oce, in the new width; and the place of the cursor among them.
Flow(t, oce, col, row) ==
  LET j   == (t.col + col - 1) \div col
      cap == HISTSIZE + RESIZEBUFFER + row
      oy  == IF col < t.col /\ j * (Len(t.hist) + oce + 1) > cap
             THEN oce + 1 - cap \div j ELSE -Len(t.hist)
      Poured(a, b, acc) ==
        FoldLeft(LAMBDA s, y : Pour(s, Copied(t, y), col), acc, [i \in 1..b-a+1 |-> a + i - 1])
      Ended(acc) ==
        IF acc.cur = << >> THEN acc.buf
        ELSE Append(acc.buf, [x \in 0..col-1 |-> IF x < Len(acc.cur) THEN acc.cur[x + 1] ELSE Space])
      From(before) ==
        [buf |-> Ended(Poured(t.c.y, oce, before)),
         cx  |-> (Len(before.cur) + t.c.x) % col,
         cy  |-> Len(before.buf) + (Len(before.cur) + t.c.x) \div col]
  IN  From(Poured(oy, t.c.y - 1, [buf |-> << >>, cur |-> << >>]))

\* f as the new screen and history.  Line nce of the screen is the end of the
\* paragraph; what of it would be below the screen is lost.
Placed(t, f, oce, col, row) ==
  LET ny  == Len(f.buf) - 1
      bot == Min({ny, row - 1})
      end == Min({oce + Max({row - t.row, 0}), bot})
      nce == IF end < ny - f.cy THEN Min({ny - f.cy, bot}) ELSE end
      last == Min({ny, f.cy + nce})
      FitView(m) == [m EXCEPT !.scr = Min({@, Len(m.hist)})]
  IN  FitView(UpdateWrapNext(
        [t EXCEPT !.line = [y \in 0..row-1 |-> IF y <= nce THEN f.buf[last - nce + y + 1]
                                                ELSE BlankLine(col)],
                  !.hist = Kept(SubSeq(f.buf, 1, last - nce)),
                  !.c.x = f.cx, !.c.y = nce - (last - f.cy)],
        FALSE, col))

Reflow(t, col, row) ==
  LET To(oce) == Placed(t, Flow(t, oce, col, row), oce, col, row)
  IN  To(Max({y \in t.c.y..t.row-1 : \A z \in t.c.y..y-1 : IsWrapped(t.line[z])}))

ResizeDef(t, col, row) ==
  LET up == IF t.c.y >= row
            THEN [ScrollUp(t, 0, t.row - 1, t.c.y - row + 1, "resize") EXCEPT !.c.y = row - 1]
            ELSE t
      s  == IF t.col # col THEN Reflow(IF t.sel.alt THEN t ELSE SelRemove(t), col, row)
            ELSE RScrollDown([up EXCEPT !.line = Rows(@, 0, row, col)], row - t.row, row)
  IN  IF t.col = col /\ t.row = row THEN FullDirt(t) ELSE Sized(s, col, row)

\* The stops of new columns follow the last one.
TabsOf(t, col) ==
  LET last == Max({0} \cup t.tabs)
  IN  IF col <= t.col THEN t.tabs \cap (0..col-1)
      ELSE t.tabs \cup {x \in last+1..col-1 : (x - last) % Tabspaces = 0}

Resize(t, col, row) ==
  LET In(s) == IF s.alt THEN ResizeAlt(s, col, row) ELSE ResizeDef(s, col, row)
  IN  In([t EXCEPT !.tabs = TabsOf(t, col)])

LoadAltScreen(t, clear, save) ==
  LET Enter(s) == IF s.alt THEN s ELSE ResizeAlt([SwapScreen(s) EXCEPT !.scr = 0], t.col, t.row)
      Clear(s) == IF clear THEN ClearRegion(s, 0, 0, s.col - 1, s.row - 1) ELSE s
  IN  Clear(Enter(IF save THEN SaveCursor(t) ELSE t))

LoadDefScreen(t, clear, load) ==
  LET cleared == IF clear THEN ClearRegion(t, 0, 0, t.col - 1, t.row - 1) ELSE t
      Load(s) == IF load THEN LoadCursor(s) ELSE s
  IN  IF t.alt THEN ResizeDef(Load(SwapScreen(cleared)), t.col, t.row) ELSE Load(t)

\* RIS: both screens are cleared, and what was the other one stays the other one.
Reset(t) ==
  [Fresh(t.row, t.col) EXCEPT
     !.other = [t.other EXCEPT !.line = BlankLines(t.other.row, t.other.col)],
     !.wrapcwidth = t.wrapcwidth, !.lastc = t.lastc, !.sel = SelRemove(t).sel]

----------------------------------------------------------------------------
(* The view *)

KScrollDown(t, n) ==
  LET k == Min({n, t.scr})
      s == [t EXCEPT !.scr = @ - k]
  IN  IF t.scr = 0 \/ t.alt THEN t
      ELSE FullDirt(IF t.sel.on /\ ~t.sel.alt THEN SelMove(s, -k) ELSE s)

KScrollUp(t, n) ==
  LET k == Min({n, Len(t.hist) - t.scr})
      s == [t EXCEPT !.scr = @ + k]
  IN  IF t.hist = << >> \/ t.alt THEN t
      ELSE FullDirt(IF t.sel.on /\ ~t.sel.alt THEN SelMove(s, k) ELSE s)

----------------------------------------------------------------------------

TermInit ==
  \E i \in Instances :
    /\ term = [Feed(Fresh(i.row, i.col), i.text) EXCEPT !.dirty = {}]
    /\ may = i.may /\ did = "none" /\ steps = i.steps

\* A step of kind k that makes the terminal t.
Does(k, t) ==
  /\ k \in may /\ steps > 0
  /\ term' = t /\ did' = k /\ steps' = steps - 1
  /\ UNCHANGED may

Runes == UNION {{u \in ToSet(i.text) \cup Wide : i.may = may} : i \in Instances}
         \ {"LF", "CR", "BS", "HT"}

Output ==
  \/ \E u \in Runes : Does("print", Put(term, u))
  \/ \E ch \in {"LF", "CR", "BS", "HT"} : Does("control", Control(term, ch))
  \/ Does("rep", Repeat(term))

Cells == (0..term.col-1) \X (0..term.row-1)

Moves ==
  \/ \E p \in Cells : Does("move", MoveAto(term, p[1], p[2]))
  \/ \E d \in {<<0, -1>>, <<0, 1>>, <<1, 0>>, <<-1, 0>>} :
       Does("step", MoveTo(term, term.c.x + d[1], term.c.y + d[2]))
  \/ Does("index", Index(term))
  \/ Does("index", ReverseIndex(term))
  \/ Does("index", NewLine(term, TRUE))
  \/ \E dir \in {1, -1} : Does("tab", PutTab(term, dir))
  \/ Does("tab", [term EXCEPT !.tabs = @ \cup {term.c.x}])
  \/ \E s \in {{term.c.x}, term.tabs} : Does("tab", [term EXCEPT !.tabs = @ \ s])

Edit ==
  \/ \E arg \in 0..2 : Does("erase", EraseDisplay(term, arg))
  \/ \E arg \in 0..2 : Does("erase", EraseLine(term, arg))
  \/ Does("erase", EraseChars(term, 2))
  \/ \E n \in 1..2 : \/ Does("shift", InsertBlank(term, n))
                     \/ Does("shift", DeleteChar(term, n))
                     \/ Does("lines", InsertLines(term, n))
                     \/ Does("lines", DeleteLines(term, n))
                     \/ Does("scroll", ScrollUp(term, term.top, term.bot, n, "save"))
                     \/ Does("scroll", ScrollDown(term, term.top, n))
  \/ Does("align", Align(term))

Modes ==
  \/ \E a, b \in 0..term.row-1 : Does("region", SetScroll(term, a, b))
  \/ \E on \in BOOLEAN :
       \/ Does("origin", MoveAto([term EXCEPT !.c.origin = on], 0, 0))
       \/ Does("modes", [term EXCEPT !.wrap = on])
       \/ Does("modes", [term EXCEPT !.insert = on])
       \/ Does("modes", [term EXCEPT !.crlf = on])
  \/ Does("cursor", SaveCursor(term))
  \/ Does("cursor", LoadCursor(term))
  \/ Does("reset", Reset(term))

\* The modes 1049, 47 and 1047, set and reset.
Screens ==
  \/ Does("alt", LoadAltScreen(term, TRUE, TRUE))
  \/ Does("alt", LoadDefScreen(term, FALSE, TRUE))
  \/ Does("swap", LoadAltScreen(term, FALSE, FALSE))
  \/ \E clear \in BOOLEAN : Does("swap", LoadDefScreen(term, clear, FALSE))

\* Keys that scroll by a line or by a page; every other key, and an answer to
\* the program, goes through ttywrite and so back to the screen.
User ==
  \/ \E n \in {1, term.row} : \/ Does("view", KScrollUp(term, n))
                              \/ Does("view", KScrollDown(term, n))
  \/ Does("type", KScrollDown(term, term.scr))
  \/ \E p \in Cells, snap \in {"none", "line"} : Does("select", SelStart(term, p[1], p[2], snap))
  \/ \E p \in Cells, type \in {"regular", "rectangular"}, done \in BOOLEAN :
       Does("select", SelExtend(term, p[1], p[2], type, done))

\* The window takes another size, or is drawn.
Window ==
  \/ \E col \in 1..4, row \in 1..3 : Does("resize", Resize(term, col, row))
  \/ \E row \in term.row..3 : Does("grow", Resize(term, term.col, row))
  \/ Does("draw", [term EXCEPT !.dirty = {}])

TermNext == Output \/ Moves \/ Edit \/ Modes \/ Screens \/ User \/ Window

TermSpec == TermInit /\ [][TermNext]_termVars

----------------------------------------------------------------------------

\* Everything the user can read up to the cursor: the history, the lines above,
\* and the line of the cursor up to where the next rune goes.  The second cell of
\* a wide rune is no text: at the end of a line it is copied as a space.  Cells
\* that nothing was written to are gaps, which do not count at the end of a line.
ToCursor(t) ==
  LET above == t.hist \o [i \in 1..t.c.y |-> t.line[i - 1]]
      First(l, n) == [i \in 1..n |-> l[i - 1]]
      Content(l) == First(l, LineLen(l)) \o IF IsWrapped(l) THEN << >>
                                          ELSE <<[u |-> "LF", mode |-> {}]>>
      all == FlattenSeq([i \in DOMAIN above |-> Content(above[i])])
               \o First(t.line[t.c.y], t.c.x + IF t.c.wrapnext THEN 1 ELSE 0)
      second(i) == \/ all[i].u = ""
                   \/ i > 1 /\ all[i].u = " " /\ "set" \notin all[i].mode
                            /\ "wide" \in all[i - 1].mode
      Trimmed(s) == SubSeq(s, 1, Max({0} \cup {k \in DOMAIN s : s[k] # "gap"}))
  IN  FoldLeft(LAMBDA s, i : CASE second(i) -> s
                               [] all[i].u = "LF" -> Append(Trimmed(s), "LF")
                               [] all[i].u = " " /\ "set" \notin all[i].mode -> Append(s, "gap")
                               [] OTHER -> Append(s, all[i].u),
               << >>, [i \in DOMAIN all |-> i])

\* Room in the buffer of treflow for every line at its most, and in the history.
HasRoom(t, s) ==
  /\ Len(s.hist) < HISTSIZE
  /\ s.col < t.col => ((t.col + s.col - 1) \div s.col) * (Len(t.hist) + t.row)
                        <= HISTSIZE + RESIZEBUFFER + s.row

\* A change of the size of the window keeps the text up to the cursor, however
\* its lines are broken, and the place in it where the program goes on; only the
\* oldest lines may be lost, for want of room.  (A tab and ESC D leave a pending
\* wrap pending at another rune: with the wrong width it moves the cursor too far.)
WrapOfRune(t) ==
  ~t.c.wrapnext \/ Width(t.line[t.c.y][t.c.x].u) = t.wrapcwidth[FALSE]

ReflowKeepsText ==
  [][did' \in {"resize", "grow"} /\ ~term.alt /\ WrapOfRune(term)
       => /\ IsSuffix(ToCursor(term'), ToCursor(term))
          /\ HasRoom(term, term') => ToCursor(term') = ToCursor(term)]_termVars

\* What row y of the window shows.
Shown(t, y) == [x \in 0..t.col-1 |-> [u |-> View(t, y)[x].u, mode |-> View(t, y)[x].mode \ {"wrap", "set"}]]

SameRow(y) == y < term.row /\ Shown(term', y) = Shown(term, y)

\* Every row of the window of which the contents change will be drawn again, as long
\* as the window shows the screen and not the history.
ScreenRowsDirty ==
  [][did' # "draw" /\ term.scr = 0 /\ term'.scr = 0
       => \A y \in 0..term'.row-1 : SameRow(y) \/ y \in term'.dirty]_termVars

\* Whoever has scrolled back goes on seeing the same lines of the history while
\* the program writes, until the history is full.
ViewStays ==
  [][term.scr > 0 /\ term'.scr > 0 /\ Len(term'.hist) < HISTSIZE
       /\ did' \notin {"view", "resize", "grow"}
       => \A y \in 0..Min({term.scr, term.row})-1 : View(term', y) = View(term, y)]_termVars

\* getsel
GetSel(t) ==
  LET s == t.sel
      Row(y) ==
        LET l == View(t, y)
            n == LineLen(l)
            x1 == IF s.type = "rectangular" \/ s.nb.y = y THEN s.nb.x ELSE 0
            x2 == IF s.type = "rectangular" \/ s.ne.y = y THEN s.ne.x ELSE t.col - 1
            z  == Min({x2, n - 1})
            cells == [i \in 1..z-x1+1 |-> l[x1 + i - 1].u]
        IN  IF n = 0 THEN <<"LF">>
            ELSE SelectSeq(cells, LAMBDA u : u # "")
                 \o IF (y < s.ne.y \/ x2 >= n) /\ ("wrap" \notin l[z].mode \/ s.type = "rectangular")
                    THEN <<"LF">> ELSE << >>
  IN  FlattenSeq([i \in 1..s.ne.y-s.nb.y+1 |-> Row(s.nb.y + i - 1)])

\* Without spaces and ends of lines, which change when a line is continued.
SelRunes(t) == SelectSeq(GetSel(t), LAMBDA u : u \notin {"LF", " "})

\* (A smaller window leaves a selection on rows that it has freed, a
\* higher one overwrites the lines below the cursor by those of the history.)
HasSelection(t) == t.sel.ne.y < t.scr + t.row /\ t.sel.on /\ t.sel.mode # "empty" /\ t.sel.alt = t.alt

\* A region that begins at the top of the first screen and ends above its bottom:
\* its lines go to the history, and selmove moves a selection below it as well.
TopRegion(t) == ~t.alt /\ t.top = 0 /\ t.bot < t.row - 1

\* A narrow rune is written over a narrow one, where the cursor is.
OneCell ==
  /\ ~term.c.wrapnext /\ term'.lastc \notin Wide
  /\ term.line[term.c.y][term.c.x].mode \cap {"wide", "dummy"} = {}

\* The steps of which the code takes care: not those under a region at the top,
\* that shift cells within their line, that write after a wrap, a wide rune or over
\* one, or while the history is in view (where the test of the selection takes a row
\* of the window for one of the screen), or that push lines out of a full history.
Tracked ==
  /\ did' \notin {"select", "shift", "rep", "align", "resize"} /\ ~term.insert
  /\ did' = "grow" => term.sel.ne.y <= term.scr + term.c.y
  /\ did' = "print" => OneCell
  /\ ~TopRegion(term)
  /\ term.scr > 0 =>
       /\ did' \in {"control", "index", "view", "type"} /\ term.bot = term.row - 1
       /\ Len(term.hist) < HISTSIZE

\* What is selected is the text that the user selected, or nothing, whatever the
\* program writes, erases and scrolls and however far the user scrolls back.
SelectionKept ==
  [][Tracked /\ HasSelection(term) /\ HasSelection(term') => SelRunes(term') = SelRunes(term)]_termVars

============================================================================

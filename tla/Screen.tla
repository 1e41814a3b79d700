-------------------------------- MODULE Screen --------------------------------
(***************************************************************************)
(* The Nokia display as the driver sees it (Adafruit_PCD8544.cpp) and the  *)
(* drawing of Adafruit_GFX.cpp.  Calls draw into a buffer and widen a box  *)
(* of what may have changed; display() sends the banks of eight rows that  *)
(* the box touches, between its columns, and empties the box.  The chip    *)
(* keeps what it is not sent.                                              *)
(*                                                                         *)
(* A pixel is <<column, row>>, the buffer and the memory of the chip are   *)
(* the sets of their black pixels.  Straight lines along an axis and       *)
(* rectangles are drawn in one step, slanted lines, circles and discs      *)
(* pixel by pixel, by the pen.                                             *)
(***************************************************************************)
EXTENDS Integers, FiniteSets, FiniteSetsExt

CONSTANTS
  Width, Height, \* LCDWIDTH, LCDHEIGHT
  Logo,          \* what the buffer holds at first
  Noise,         \* what the chip may hold at first
  Lines,         \* arguments of the calls: <<x0, y0, x1, y1>>
  Circles,       \*   <<x0, y0, r>>
  Rects,         \*   <<x, y, w, h>>
  Shifts,        \*   <<xpixels, ypixels>>
  Rotations,     \*   of setRotation()
  MaxCalls       \* bound: drawing calls

BankHeight == 8
Pixels == (0..(Width - 1)) \X (0..(Height - 1))

ASSUME SizeAssumption ==
  Width \in Nat \ {0} /\ Height \in Nat \ {0} /\ Logo \subseteq Pixels /\ Noise \subseteq SUBSET Pixels
ASSUME ArgumentAssumption ==
  /\ Lines \subseteq Int \X Int \X Int \X Int
  /\ Circles \subseteq Int \X Int \X Nat
  /\ Rects \subseteq Int \X Int \X Int \X Int
  /\ Shifts \subseteq Int \X Int
  /\ Rotations \subseteq 0..3
  /\ MaxCalls \in Nat

VARIABLES
  screen,   \* pcd8544_buffer, the memory of the chip, and the box of changes
  rotation,
  pen,      \* the loop of writeLine, drawCircle or fillCircleHelper, while one runs
  calls     \* bound: drawing calls made

vars == <<screen, rotation, pen, calls>>

BLACK == 1
WHITE == 0
Colours == {BLACK, WHITE}

Abs(n) == IF n < 0 THEN -n ELSE n

-----------------------------------------------------------------------------
(* setPixel, for many pixels of one colour *)

\* _width and _height
LogicalWidth(rot) == IF rot \in {0, 2} THEN Width ELSE Height
LogicalHeight(rot) == IF rot \in {0, 2} THEN Height ELSE Width

Rotated(rot, p) ==
  CASE rot = 0 -> p
    [] rot = 1 -> <<p[2], Height - 1 - p[1]>>
    [] rot = 2 -> <<Width - 1 - p[1], Height - 1 - p[2]>>
    [] rot = 3 -> <<Width - 1 - p[2], p[1]>>

\* faulty variant: nothing is outside
ClippedNot(rot, P) == {Rotated(rot, p) : p \in P}

\* what is drawn of some pixels: the rest is outside
Clipped(rot, P) ==
  {Rotated(rot, p) : p \in P \cap ((0..(LogicalWidth(rot) - 1)) \X (0..(LogicalHeight(rot) - 1)))}

FullBox == [xmin |-> 0, ymin |-> 0, xmax |-> Width - 1, ymax |-> Height - 1]
EmptyBox == [xmin |-> Width - 1, ymin |-> Height - 1, xmax |-> 0, ymax |-> 0]

\* faulty variant: a row is taken for the upper limit only
UpdateBoundingBoxUpwards(box, Q) ==
  LET xs == {q[1] : q \in Q}
      ys == {q[2] : q \in Q}
  IN [box EXCEPT !.xmin = Min({@} \cup xs), !.xmax = Max({@} \cup xs), !.ymin = Min({@} \cup ys)]

UpdateBoundingBox(box, Q) ==
  LET xs == {q[1] : q \in Q}
      ys == {q[2] : q \in Q}
  IN [xmin |-> Min({box.xmin} \cup xs), xmax |-> Max({box.xmax} \cup xs),
      ymin |-> Min({box.ymin} \cup ys), ymax |-> Max({box.ymax} \cup ys)]

SetPixels(s, rot, P, colour) ==
  LET Q == Clipped(rot, P) IN
  [s EXCEPT !.buffer = IF colour = BLACK THEN @ \cup Q ELSE @ \ Q,
            !.box = UpdateBoundingBox(@, Q)]

-----------------------------------------------------------------------------
(* Shapes *)

\* writeLine from a to b along an axis
Between(a, b) == IF a <= b THEN a..b ELSE b..a

\* drawFastHLine and drawFastVLine: with no length, or less, the line goes back
HLine(x, y, w) == Between(x, x + w - 1) \X {y}
VLine(x, y, h) == {x} \X Between(y, y + h - 1)

\* the vertical lines of all columns
FillRect(x, y, w, h) == (x..(x + w - 1)) \X Between(y, y + h - 1)

DrawRect(x, y, w, h) ==
  HLine(x, y, w) \cup HLine(x, y + h - 1, w) \cup VLine(x, y, h) \cup VLine(x + w - 1, y, h)

Area(x, y, w, h) == (x..(x + w - 1)) \X (y..(y + h - 1))

\* invertRect
InvertRect(s, rot, x, y, w, h) ==
  LET Q == Clipped(rot, Area(x, y, w, h)) IN
  [s EXCEPT !.buffer = (@ \ Q) \cup (Q \ @), !.box = UpdateBoundingBox(@, Q)]

ClearDisplay(s) == [s EXCEPT !.buffer = {}, !.box = FullBox]

\* scroll: into a new buffer, which is copied to the old one
Scroll(s, rot, xpixels, ypixels) ==
  LET P == (0..(LogicalWidth(rot) - 1)) \X (0..(LogicalHeight(rot) - 1))
      Lit == {p \in P : Rotated(rot, p) \in s.buffer}
  IN [s EXCEPT !.buffer = {Rotated(rot, <<(p[1] + xpixels) % LogicalWidth(rot),
                                          (p[2] + ypixels) % LogicalHeight(rot)>>) : p \in Lit},
               !.box = FullBox]

\* faulty variant: the last bank is left out
SentOneLess(box) == (box.xmin..box.xmax) \X {y \in 0..(Height - 1) :
  y \div BankHeight >= box.ymin \div BankHeight /\ y \div BankHeight < box.ymax \div BankHeight}

\* the banks of display()
Sent(box) == (box.xmin..box.xmax) \X {y \in 0..(Height - 1) :
  y \div BankHeight >= box.ymin \div BankHeight /\ y \div BankHeight <= box.ymax \div BankHeight}

SendPages(s) ==
  [s EXCEPT !.lcd = (@ \ Sent(s.box)) \cup (s.buffer \cap Sent(s.box)), !.box = EmptyBox]

-----------------------------------------------------------------------------
(* The pen *)

Off == [kind |-> "off"]
Ready == [kind |-> "idle"]

\* writeLine before its loop: a is the coordinate that grows by one, b the other
\* one; flip says that they are y and x
NewLine(x0, y0, x1, y1, colour) ==
  LET flip == Abs(y1 - y0) > Abs(x1 - x0)
      p == IF flip THEN <<y0, x0>> ELSE <<x0, y0>>
      q == IF flip THEN <<y1, x1>> ELSE <<x1, y1>>
      from == IF p[1] > q[1] THEN q ELSE p
      to == IF p[1] > q[1] THEN p ELSE q
  IN [kind |-> "line", flip |-> flip, from |-> from, to |-> to, colour |-> colour,
      a |-> from[1], b |-> from[2], err |-> (to[1] - from[1]) \div 2]

LengthA(l) == l.to[1] - l.from[1]
LengthB(l) == Abs(l.to[2] - l.from[2])

\* faulty variant: the error is not carried over
NextOfLineExact(l) ==
  LET err == l.err - LengthB(l) IN
  IF err < 0 THEN [l EXCEPT !.a = @ + 1, !.err = LengthA(l),
                            !.b = IF l.from[2] < l.to[2] THEN @ + 1 ELSE @ - 1]
             ELSE [l EXCEPT !.a = @ + 1, !.err = err]

\* what the loop does after a pixel
NextOfLine(l) ==
  LET err == l.err - LengthB(l) IN
  IF err < 0 THEN [l EXCEPT !.a = @ + 1, !.err = err + LengthA(l),
                            !.b = IF l.from[2] < l.to[2] THEN @ + 1 ELSE @ - 1]
             ELSE [l EXCEPT !.a = @ + 1, !.err = err]

PixelOfLine(l) == IF l.flip THEN <<l.b, l.a>> ELSE <<l.a, l.b>>

\* drawCircle and fillCircle before their loops; columns: those of the right half
\* of the disc that are drawn
NewArc(kind, x0, y0, r, colour) ==
  [kind |-> kind, x0 |-> x0, y0 |-> y0, r |-> r, colour |-> colour,
   x |-> 0, y |-> r, f |-> 1 - r, columns |-> {0}]

\* faulty variant: f is not corrected when the row changes
NextOfArcUncorrected(c) ==
  LET y == IF c.f >= 0 THEN c.y - 1 ELSE c.y
      x == c.x + 1
  IN [c EXCEPT !.x = x, !.y = y, !.f = c.f + 2 * x + 1]

\* ddF_y is -2y and ddF_x is 2x + 1
NextOfArc(c) ==
  LET y == IF c.f >= 0 THEN c.y - 1 ELSE c.y
      f == IF c.f >= 0 THEN c.f - 2 * y ELSE c.f
      x == c.x + 1
  IN [c EXCEPT !.x = x, !.y = y, !.f = f + 2 * x + 1]

Octants(c) ==
  LET Both(x, y) == {<<c.x0 + sx * x, c.y0 + sy * y>> : sx \in {1, -1}, sy \in {1, -1}}
  IN Both(c.x, c.y) \cup Both(c.y, c.x)

\* faulty variant: the steep columns are forgotten
NewColumnsFlat(c, d) == IF d.x < d.y + 1 THEN {d.x} ELSE {}

\* the columns that fillCircleHelper draws on its way from c to d
NewColumns(c, d) == (IF d.x < d.y + 1 THEN {d.x} ELSE {}) \cup (IF d.y # c.y THEN {c.y} ELSE {})

\* how far such a column reaches up and down
Reach(c, d, col) == IF col = d.x /\ d.x < d.y + 1 THEN d.y ELSE c.x

ColumnPixels(c, d) ==
  UNION {VLine(c.x0 + col, c.y0 - Reach(c, d, col), 2 * Reach(c, d, col) + 1) \cup
         VLine(c.x0 - col, c.y0 - Reach(c, d, col), 2 * Reach(c, d, col) + 1) :
           col \in NewColumns(c, d)}

-----------------------------------------------------------------------------
(* The calls *)

\* the box is that of an object with static storage
Init ==
  /\ screen \in {[buffer |-> Logo, lcd |-> n, box |-> [xmin |-> 0, ymin |-> 0, xmax |-> 0, ymax |-> 0]]
                   : n \in Noise}
  /\ rotation = 0 /\ pen = Off /\ calls = 0

Begin ==
  /\ pen = Off
  /\ pen' = Ready
  /\ screen' = SendPages([screen EXCEPT !.box = FullBox])
  /\ UNCHANGED <<rotation, calls>>

Call == pen = Ready /\ calls < MaxCalls /\ calls' = calls + 1

SetRotation(rot) == pen = Ready /\ rotation' = rot /\ UNCHANGED <<screen, pen, calls>>

Draw(s) == Call /\ screen' = s /\ UNCHANGED <<rotation, pen>>

Rectangle(r, colour) ==
  \/ Draw(SetPixels(screen, rotation, FillRect(r[1], r[2], r[3], r[4]), colour))
  \/ Draw(SetPixels(screen, rotation, DrawRect(r[1], r[2], r[3], r[4]), colour))
  \/ Draw(InvertRect(screen, rotation, r[1], r[2], r[3], r[4]))

\* drawLine takes lines along an axis as such
DrawLine(l, colour) ==
  IF l[1] = l[3] \/ l[2] = l[4]
    THEN Draw(SetPixels(screen, rotation,
           Between(l[1], l[3]) \X Between(l[2], l[4]), colour))
    ELSE /\ Call /\ pen' = NewLine(l[1], l[2], l[3], l[4], colour)
         /\ UNCHANGED <<screen, rotation>>

LineStep ==
  /\ pen.kind = "line"
  /\ screen' = SetPixels(screen, rotation, {PixelOfLine(pen)}, pen.colour)
  /\ pen' = IF pen.a = pen.to[1] THEN Ready ELSE NextOfLine(pen)
  /\ UNCHANGED <<rotation, calls>>

DrawCircle(c, colour) ==
  LET arc == NewArc("circle", c[1], c[2], c[3], colour) IN
  /\ Call /\ pen' = arc
  /\ screen' = SetPixels(screen, rotation, Octants(arc), colour)
  /\ UNCHANGED rotation

FillCircle(c, colour) ==
  LET arc == NewArc("disc", c[1], c[2], c[3], colour) IN
  /\ Call /\ pen' = arc
  /\ screen' = SetPixels(screen, rotation, VLine(c[1], c[2] - c[3], 2 * c[3] + 1), colour)
  /\ UNCHANGED rotation

ArcStep ==
  /\ pen.kind \in {"circle", "disc"}
  /\ IF pen.x < pen.y
       THEN LET d == NextOfArc(pen)
                P == IF pen.kind = "circle" THEN Octants(d) ELSE ColumnPixels(pen, d)
            IN /\ pen' = [d EXCEPT !.columns = @ \cup NewColumns(pen, d)]
               /\ screen' = SetPixels(screen, rotation, P, pen.colour)
       ELSE pen' = Ready /\ UNCHANGED screen
  /\ UNCHANGED <<rotation, calls>>

DisplayNow ==
  /\ pen = Ready
  /\ screen' = SendPages(screen)
  /\ UNCHANGED <<rotation, pen, calls>>

Next ==
  \/ Begin \/ LineStep \/ ArcStep \/ DisplayNow
  \/ \E rot \in Rotations : SetRotation(rot)
  \/ \E colour \in Colours :
       \/ \E l \in Lines : DrawLine(l, colour)
       \/ \E c \in Circles : DrawCircle(c, colour) \/ FillCircle(c, colour)
       \/ \E r \in Rects : Rectangle(r, colour)
  \/ Draw(ClearDisplay(screen))
  \/ \E d \in Shifts : Draw(Scroll(screen, rotation, d[1], d[2]))

Spec == Init /\ [][Next]_vars

-----------------------------------------------------------------------------
(* Properties. *)

Boxes == [xmin : 0..(Width - 1), ymin : 0..(Height - 1), xmax : 0..(Width - 1), ymax : 0..(Height - 1)]

\* Every variable stays in its range; no pixel outside is drawn, nor taken into the box.
TypeInv ==
  /\ screen \in [buffer : SUBSET Pixels, lcd : SUBSET Pixels, box : Boxes]
  /\ rotation \in 0..3
  /\ \/ pen \in {Off, Ready}
     \/ pen \in [kind : {"line"}, flip : BOOLEAN, from : Int \X Int, to : Int \X Int,
                 colour : Colours, a : Int, b : Int, err : Int]
     \/ pen \in [kind : {"circle", "disc"}, x0 : Int, y0 : Int, r : Nat, colour : Colours,
                 x : Nat, y : Nat, f : Int, columns : SUBSET Nat]
  /\ calls \in 0..MaxCalls

InBox(p, box) == p[1] \in box.xmin..box.xmax /\ p[2] \in box.ymin..box.ymax
Stale(s) == (s.buffer \ s.lcd) \cup (s.lcd \ s.buffer)

\* A pixel that the chip shows otherwise than the buffer has it is inside the box, in
\* every rotation: the next display() brings it to the chip.
BoxCovers == pen # Off => \A p \in Stale(screen) : InBox(p, screen.box)

\* display() leaves nothing behind, although it only sends banks and columns of the box.
DisplayShowsAll == [][DisplayNow \/ Begin => screen'.lcd = screen'.buffer]_vars

Rise(l) == Abs(l.b - l.from[2])

\* A line is as straight as pixels permit: no pixel is more than one half off, and the
\* last one is the end point, by the running error alone (writeLine).
LineIsStraight ==
  pen.kind = "line" =>
    /\ 2 * Abs(Rise(pen) * LengthA(pen) - (pen.a - pen.from[1]) * LengthB(pen)) <= LengthA(pen)
    /\ pen.a = pen.to[1] => pen.b = pen.to[2]

\* A circle is as round as pixels permit: in the octant that is computed the radius at
\* column x lies within half a pixel of row y (drawCircle, fillCircleHelper).
ArcIsRound ==
  pen.kind \in {"circle", "disc"} /\ pen.x <= pen.y =>
    /\ pen.y * pen.y - pen.y <= pen.r * pen.r - pen.x * pen.x
    /\ pen.r * pen.r - pen.x * pen.x <= pen.y * pen.y + pen.y

\* A disc has every column up to its radius (fillCircleHelper draws some from each octant).
DiscIsWhole ==
  pen.kind = "disc" /\ pen.x >= pen.y => pen.columns = 0..pen.r

\* No column of a disc is drawn twice: "important for the SSD1306 library which has an
\* INVERT drawing mode" (fillCircleHelper).
DiscIsDrawnOnce ==
  [][pen.kind = "disc" /\ pen'.kind = "disc" =>
       NewColumns(pen, pen') \cap pen.columns = {}]_vars
=============================================================================

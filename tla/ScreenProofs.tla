---------------------------- MODULE ScreenProofs ----------------------------
(***************************************************************************)
(* What holds of the display whatever its size and whatever is drawn: the  *)
(* box covers every pixel that the chip does not show as the buffer has    *)
(* it, so that display() leaves nothing behind; lines are straight,        *)
(* circles are round, and discs are drawn whole and once.  And on the      *)
(* cutter's display: each part of the screen is painted on a ground of its *)
(* own, so that the chip shows the picture that module Display speaks of.  *)
(***************************************************************************)
EXTENDS DisplayScreen, WellFoundedInduction, TLAPS

(* Least and greatest members *)

\* A nonempty set of natural numbers has a least member.
LEMMA LeastExists ==
  ASSUME NEW S \in SUBSET Nat, S # {}
  PROVE  \E m \in S : \A n \in S : m <= n
<1>1. PICK x \in S : \A y \in S : ~(<<y, x>> \in OpToRel(<, Nat))
  BY NatLessThanWellFounded, WFMin
<1>2. ASSUME NEW y \in S, y < x PROVE <<y, x>> \in OpToRel(<, Nat)
  <2>1. y \in Nat /\ x \in Nat
    OBVIOUS
  <2> QED BY <1>2, <2>1, Zenon DEF OpToRel
<1>3. \A y \in S : ~(y < x)
  BY <1>1, <1>2, Zenon
<1> QED BY <1>3

\* A nonempty set of natural numbers up to N has a greatest member.
LEMMA GreatestExists ==
  ASSUME NEW N \in Nat, NEW S \in SUBSET (0..N), S # {}
  PROVE  \E m \in S : \A n \in S : n <= m
<1> DEFINE T == {N - x : x \in S}
<1>1. \A x \in S : N - x \in Nat
  OBVIOUS
<1>2. PICK m \in T : \A n \in T : m <= n
  <2>1. T \in SUBSET Nat /\ T # {}
    BY <1>1
  <2> QED BY <2>1, LeastExists
<1>3. PICK x \in S : m = N - x
  BY <1>2
<1>4. \A y \in S : N - x <= N - y
  BY <1>2, <1>3
<1> QED BY <1>4

\* Min and Max of the community modules are such members.
LEMMA MinOf ==
  ASSUME NEW N \in Nat, NEW S \in SUBSET (0..N), S # {}
  PROVE  Min(S) \in S /\ \A n \in S : Min(S) <= n
<1>1. S \in SUBSET Nat
  OBVIOUS
<1>2. \E m \in S : \A n \in S : m <= n
  BY <1>1, LeastExists
<1> QED BY <1>2 DEF Min

LEMMA MaxOf ==
  ASSUME NEW N \in Nat, NEW S \in SUBSET (0..N), S # {}
  PROVE  Max(S) \in S /\ \A n \in S : n <= Max(S)
<1>1. \E m \in S : \A n \in S : n <= m
  BY GreatestExists
<1>2. \E m \in S : \A n \in S : m >= n
  BY <1>1
<1> QED BY <1>2 DEF Max

-----------------------------------------------------------------------------
(* Pixels and the box *)

\* The rotations turn the area that can be drawn in into the screen.
LEMMA RotatedOnScreen ==
  ASSUME NEW rot \in 0..3,
         NEW p \in (0..(LogicalWidth(rot) - 1)) \X (0..(LogicalHeight(rot) - 1))
  PROVE  Rotated(rot, p) \in Pixels
BY SizeAssumption DEF Rotated, LogicalWidth, LogicalHeight, Pixels

LEMMA ClippedOnScreen ==
  ASSUME NEW rot \in 0..3, NEW P
  PROVE  Clipped(rot, P) \subseteq Pixels
BY RotatedOnScreen DEF Clipped

\* The box that updateBoundingBox makes of pixels on the screen has room for them and
\* for what was in it before.
LEMMA BoxGrows ==
  ASSUME NEW box \in Boxes, NEW Q \in SUBSET Pixels
  PROVE  LET b == UpdateBoundingBox(box, Q) IN
         /\ b \in Boxes
         /\ \A p \in Pixels : p \in Q \/ InBox(p, box) => InBox(p, b)
<1> DEFINE xs == {q[1] : q \in Q}
           ys == {q[2] : q \in Q}
           b == UpdateBoundingBox(box, Q)
<1>1. Width - 1 \in Nat /\ Height - 1 \in Nat
  BY SizeAssumption
<1>2. /\ xs \subseteq 0..(Width - 1) /\ ys \subseteq 0..(Height - 1)
      /\ {box.xmin} \cup xs \in SUBSET (0..(Width - 1)) /\ {box.xmax} \cup xs \in SUBSET (0..(Width - 1))
      /\ {box.ymin} \cup ys \in SUBSET (0..(Height - 1)) /\ {box.ymax} \cup ys \in SUBSET (0..(Height - 1))
  BY DEF Pixels, Boxes
<1> HIDE DEF xs, ys
<1>3. /\ Min({box.xmin} \cup xs) \in 0..(Width - 1)
      /\ \A n \in {box.xmin} \cup xs : Min({box.xmin} \cup xs) <= n
  BY <1>1, <1>2, MinOf
<1>4. /\ Max({box.xmax} \cup xs) \in 0..(Width - 1)
      /\ \A n \in {box.xmax} \cup xs : n <= Max({box.xmax} \cup xs)
  BY <1>1, <1>2, MaxOf
<1>5. /\ Min({box.ymin} \cup ys) \in 0..(Height - 1)
      /\ \A n \in {box.ymin} \cup ys : Min({box.ymin} \cup ys) <= n
  BY <1>1, <1>2, MinOf
<1>6. /\ Max({box.ymax} \cup ys) \in 0..(Height - 1)
      /\ \A n \in {box.ymax} \cup ys : n <= Max({box.ymax} \cup ys)
  BY <1>1, <1>2, MaxOf
<1>7. b = [xmin |-> Min({box.xmin} \cup xs), xmax |-> Max({box.xmax} \cup xs),
           ymin |-> Min({box.ymin} \cup ys), ymax |-> Max({box.ymax} \cup ys)]
  BY DEF UpdateBoundingBox, xs, ys
<1> HIDE DEF b
<1>8. b \in Boxes
  BY <1>3, <1>4, <1>5, <1>6, <1>7 DEF Boxes
<1>9. /\ b.xmin \in Int /\ \A n \in {box.xmin} \cup xs : b.xmin <= n
      /\ b.xmax \in Int /\ \A n \in {box.xmax} \cup xs : n <= b.xmax
      /\ b.ymin \in Int /\ \A n \in {box.ymin} \cup ys : b.ymin <= n
      /\ b.ymax \in Int /\ \A n \in {box.ymax} \cup ys : n <= b.ymax
  <2>1. /\ b.xmin = Min({box.xmin} \cup xs) /\ b.xmax = Max({box.xmax} \cup xs)
        /\ b.ymin = Min({box.ymin} \cup ys) /\ b.ymax = Max({box.ymax} \cup ys)
    BY <1>7
  <2>2. b.xmin \in Int /\ \A n \in {box.xmin} \cup xs : b.xmin <= n
    <3>1. b.xmin \in 0..(Width - 1) /\ \A n \in {box.xmin} \cup xs : b.xmin <= n
      BY <1>3, <2>1, Zenon
    <3> QED BY <3>1
  <2>3. b.xmax \in Int /\ \A n \in {box.xmax} \cup xs : n <= b.xmax
    BY <1>4, <2>1
  <2>4. b.ymin \in Int /\ \A n \in {box.ymin} \cup ys : b.ymin <= n
    BY <1>5, <2>1
  <2>5. b.ymax \in Int /\ \A n \in {box.ymax} \cup ys : n <= b.ymax
    BY <1>6, <2>1
  <2> QED BY <2>2, <2>3, <2>4, <2>5
<1> HIDE DEF xs, ys
<1>10. ASSUME NEW p \in Pixels, p \in Q \/ InBox(p, box) PROVE InBox(p, b)
  <2>1. p[1] \in Int /\ p[2] \in Int /\ box.xmin \in Int /\ box.xmax \in Int /\ box.ymin \in Int
          /\ box.ymax \in Int
    BY <1>1 DEF Pixels, Boxes
  <2>2. CASE p \in Q
    <3>1. p[1] \in xs /\ p[2] \in ys
      BY <2>2 DEF xs, ys
    <3> QED BY <2>1, <3>1, <1>9 DEF InBox
  <2>3. CASE InBox(p, box)
    BY <2>1, <2>3, <1>9 DEF InBox
  <2> QED BY <1>10, <2>2, <2>3
<1> QED BY <1>8, <1>10 DEF b

-----------------------------------------------------------------------------
(* What every call leaves intact *)

Screens == [buffer : SUBSET Pixels, lcd : SUBSET Pixels, box : Boxes]
Covered(s) == s \in Screens /\ \A p \in Stale(s) : InBox(p, s.box)

LEMMA FullBoxCovers ==
  /\ FullBox \in Boxes /\ EmptyBox \in Boxes
  /\ \A p \in Pixels : InBox(p, FullBox)
BY SizeAssumption DEF FullBox, EmptyBox, Boxes, Pixels, InBox

\* A call that changes pixels Q of the buffer and widens the box by Q.
LEMMA ChangeCovered ==
  ASSUME NEW s, Covered(s), NEW Q \in SUBSET Pixels, NEW buffer \in SUBSET Pixels,
         \A p \in Pixels \ Q : p \in buffer <=> p \in s.buffer
  PROVE  Covered([s EXCEPT !.buffer = buffer, !.box = UpdateBoundingBox(s.box, Q)])
<1> DEFINE t == [s EXCEPT !.buffer = buffer, !.box = UpdateBoundingBox(s.box, Q)]
<1>1. s \in Screens
  BY DEF Covered
<1>2. s.box \in Boxes /\ s.lcd \in SUBSET Pixels
  BY <1>1 DEF Screens
<1>3. /\ UpdateBoundingBox(s.box, Q) \in Boxes
      /\ \A p \in Pixels : p \in Q \/ InBox(p, s.box) => InBox(p, UpdateBoundingBox(s.box, Q))
  BY <1>2, BoxGrows
<1>4. /\ t \in Screens /\ t.buffer = buffer /\ t.lcd = s.lcd
      /\ t.box = UpdateBoundingBox(s.box, Q)
  BY <1>1, <1>3 DEF Screens
<1> HIDE DEF t
<1>5. ASSUME NEW p \in Stale(t) PROVE InBox(p, t.box)
  <2>1. p \in Pixels
    BY <1>2, <1>4, <1>5 DEF Stale
  <2>2. p \in Q \/ p \in Stale(s)
    BY <2>1, <1>4, <1>5 DEF Stale
  <2>3. p \in Q \/ InBox(p, s.box)
    BY <2>2 DEF Covered
  <2> QED BY <2>1, <2>3, <1>3, <1>4
<1>6. Covered(t)
  BY <1>4, <1>5 DEF Covered
<1> QED BY <1>6 DEF t

LEMMA SetPixelsCovered ==
  ASSUME NEW s, Covered(s), NEW rot \in 0..3, NEW P, NEW colour
  PROVE  Covered(SetPixels(s, rot, P, colour))
<1> DEFINE Q == Clipped(rot, P)
           buffer == IF colour = BLACK THEN s.buffer \cup Q ELSE s.buffer \ Q
<1>1. Q \in SUBSET Pixels
  BY ClippedOnScreen
<1> HIDE DEF Q
<1>2. s.buffer \in SUBSET Pixels
  BY DEF Covered, Screens
<1>3. buffer \in SUBSET Pixels /\ \A p \in Pixels \ Q : p \in buffer <=> p \in s.buffer
  BY <1>1, <1>2
<1>4. Covered([s EXCEPT !.buffer = buffer, !.box = UpdateBoundingBox(s.box, Q)])
  <2> HIDE DEF buffer
  <2> QED BY <1>1, <1>3, ChangeCovered
<1> QED BY <1>4 DEF SetPixels, Q

LEMMA InvertRectCovered ==
  ASSUME NEW s, Covered(s), NEW rot \in 0..3, NEW x, NEW y, NEW w, NEW h
  PROVE  Covered(InvertRect(s, rot, x, y, w, h))
<1> DEFINE Q == Clipped(rot, Area(x, y, w, h))
           buffer == (s.buffer \ Q) \cup (Q \ s.buffer)
<1>1. Q \in SUBSET Pixels
  BY ClippedOnScreen
<1> HIDE DEF Q
<1>2. s.buffer \in SUBSET Pixels
  BY DEF Covered, Screens
<1>3. buffer \in SUBSET Pixels /\ \A p \in Pixels \ Q : p \in buffer <=> p \in s.buffer
  BY <1>1, <1>2
<1>4. Covered([s EXCEPT !.buffer = buffer, !.box = UpdateBoundingBox(s.box, Q)])
  <2> HIDE DEF buffer
  <2> QED BY <1>1, <1>3, ChangeCovered
<1> QED BY <1>4 DEF InvertRect, Q

\* A new buffer with the full box.
LEMMA ReplacedCovered ==
  ASSUME NEW s, s \in Screens, NEW buffer \in SUBSET Pixels
  PROVE  Covered([s EXCEPT !.buffer = buffer, !.box = FullBox])
<1> DEFINE t == [s EXCEPT !.buffer = buffer, !.box = FullBox]
<1>1. t \in Screens /\ t.buffer = buffer /\ t.box = FullBox
  BY FullBoxCovers DEF Screens
<1>2. Stale(t) \subseteq Pixels
  BY <1>1 DEF Screens, Stale
<1> QED BY <1>1, <1>2, FullBoxCovers DEF Covered

LEMMA ClearCovered ==
  ASSUME NEW s, Covered(s)
  PROVE  Covered(ClearDisplay(s))
<1>1. s \in Screens /\ {} \in SUBSET Pixels
  BY DEF Covered
<1> QED BY <1>1, ReplacedCovered DEF ClearDisplay

LEMMA ScrollCovered ==
  ASSUME NEW s, Covered(s), NEW rot \in 0..3, NEW dx \in Int, NEW dy \in Int
  PROVE  Covered(Scroll(s, rot, dx, dy))
<1> DEFINE w == LogicalWidth(rot)
           h == LogicalHeight(rot)
           P == (0..(w - 1)) \X (0..(h - 1))
           Lit == {p \in P : Rotated(rot, p) \in s.buffer}
           Moved(p) == <<(p[1] + dx) % w, (p[2] + dy) % h>>
           buffer == {Rotated(rot, Moved(p)) : p \in Lit}
<1>1. w \in Nat \ {0} /\ h \in Nat \ {0}
  BY SizeAssumption DEF LogicalWidth, LogicalHeight
<1> HIDE DEF w, h
<1>2. ASSUME NEW p \in P PROVE Moved(p) \in P
  <2>1. (p[1] + dx) % w \in 0..(w - 1) /\ (p[2] + dy) % h \in 0..(h - 1)
    BY <1>1
  <2> QED BY <2>1
<1>3. ASSUME NEW p \in P PROVE Rotated(rot, p) \in Pixels
  BY RotatedOnScreen DEF w, h
<1>4. buffer \in SUBSET Pixels
  <2> HIDE DEF P, Moved
  <2> QED BY <1>2, <1>3
<1>5. s \in Screens
  BY DEF Covered
<1>6. Covered([s EXCEPT !.buffer = buffer, !.box = FullBox])
  <2> HIDE DEF buffer
  <2> QED BY <1>4, <1>5, ReplacedCovered
<1> QED BY <1>6 DEF Scroll, w, h

\* display() sends every bank that the box touches, and so every pixel in the box.
LEMMA BoxIsSent ==
  ASSUME NEW box \in Boxes, NEW p \in Pixels, InBox(p, box)
  PROVE  p \in Sent(box)
<1>1. /\ p[1] \in box.xmin..box.xmax /\ p[2] \in 0..(Height - 1)
      /\ box.ymin \in Int /\ box.ymax \in Int /\ p[2] \in Int
      /\ box.ymin <= p[2] /\ p[2] <= box.ymax
  BY SizeAssumption DEF Pixels, Boxes, InBox
<1>2. box.ymin \div 8 <= p[2] \div 8 /\ p[2] \div 8 <= box.ymax \div 8
  BY <1>1
<1>3. p = <<p[1], p[2]>>
  BY DEF Pixels
<1> QED BY <1>1, <1>2, <1>3 DEF Sent, BankHeight

\* After display() the chip shows the buffer.
LEMMA SendPagesShowsAll ==
  ASSUME NEW s, Covered(s)
  PROVE  Covered(SendPages(s)) /\ SendPages(s).lcd = SendPages(s).buffer
<1> DEFINE t == SendPages(s)
<1>1. /\ s \in Screens /\ s.box \in Boxes
      /\ s.buffer \in SUBSET Pixels /\ s.lcd \in SUBSET Pixels
  BY DEF Covered, Screens
<1>2. \A p \in Stale(s) : p \in Sent(s.box)
  <2>1. \A p \in Stale(s) : p \in Pixels /\ InBox(p, s.box)
    BY <1>1 DEF Covered, Stale
  <2> QED BY <1>1, <2>1, BoxIsSent
<1>3. (s.lcd \ Sent(s.box)) \cup (s.buffer \cap Sent(s.box)) = s.buffer
  BY <1>2 DEF Stale
<1>4. t = [s EXCEPT !.lcd = s.buffer, !.box = EmptyBox]
  BY <1>3 DEF SendPages
<1>5. t \in Screens /\ t.lcd = s.buffer /\ t.buffer = s.buffer
  BY <1>1, <1>4, FullBoxCovers DEF Screens
<1>6. Stale(t) = {}
  BY <1>5 DEF Stale
<1> QED BY <1>5, <1>6 DEF Covered

-----------------------------------------------------------------------------
(* The pen *)

LineTypes == [kind : {"line"}, flip : BOOLEAN, from : Int \X Int, to : Int \X Int,
              colour : Colours, a : Int, b : Int, err : Int]
ArcTypes == [kind : {"circle", "disc"}, x0 : Int, y0 : Int, r : Nat, colour : Colours,
             x : Nat, y : Nat, f : Int, columns : SUBSET Nat]

\* The running error is the distance from the ideal line, and never reaches a whole pixel.
LineInv(l) ==
  /\ l.from[1] <= l.a /\ l.a <= l.to[1]
  /\ 0 < LengthA(l) /\ LengthB(l) <= LengthA(l)
  /\ IF l.from[2] < l.to[2] THEN l.b >= l.from[2] ELSE l.b <= l.from[2]
  /\ l.err = LengthA(l) \div 2 - (l.a - l.from[1]) * LengthB(l) + Rise(l) * LengthA(l)
  /\ 0 <= l.err /\ l.err < LengthA(l)

\* f says on which side of the circle the middle between the next two pixels lies; the
\* columns of a disc are drawn from both ends.
ArcInv(c) ==
  /\ c.x <= c.y + 1 /\ c.y <= c.r
  /\ c.f = c.x * c.x + 2 * c.x + 1 + c.y * c.y - c.y - c.r * c.r
  /\ c.r * c.r - c.x * c.x <= c.y * c.y + c.y
  /\ c.x <= c.y => c.y * c.y - c.y <= c.r * c.r - c.x * c.x
  /\ c.columns = {n \in Nat : n <= c.r /\ (n <= c.x \/ c.y < n)}

LEMMA AbsOf ==
  ASSUME NEW n \in Int
  PROVE  Abs(n) \in Nat /\ (n >= 0 => Abs(n) = n) /\ (n < 0 => Abs(n) = -n)
BY DEF Abs

\* A multiple of d between -d and d is zero.
LEMMA NoMultipleBetween ==
  ASSUME NEW n \in Int, NEW d \in Nat, -d < n * d, n * d < d
  PROVE  n = 0
<1>1. CASE n >= 1
  <2>1. n * d = (n - 1) * d + d /\ (n - 1) * d >= 0
    BY <1>1
  <2> QED BY <2>1
<1>2. CASE n <= -1
  <2>1. n * d = (n + 1) * d - d /\ (n + 1) * d <= 0
    BY <1>2
  <2> QED BY <2>1
<1> QED BY <1>1, <1>2

\* writeLine enters its loop in order.
LEMMA NewLineInv ==
  ASSUME NEW x0 \in Int, NEW y0 \in Int, NEW x1 \in Int, NEW y1 \in Int,
         x0 # x1, y0 # y1, NEW colour \in Colours
  PROVE  LET l == NewLine(x0, y0, x1, y1, colour) IN l \in LineTypes /\ LineInv(l)
<1> DEFINE l == NewLine(x0, y0, x1, y1, colour)
           flip == Abs(y1 - y0) > Abs(x1 - x0)
           p == IF flip THEN <<y0, x0>> ELSE <<x0, y0>>
           q == IF flip THEN <<y1, x1>> ELSE <<x1, y1>>
           from == IF p[1] > q[1] THEN q ELSE p
           to == IF p[1] > q[1] THEN p ELSE q
<1>1. /\ l \in LineTypes /\ l.from = from /\ l.to = to
      /\ l.a = from[1] /\ l.b = from[2] /\ l.err = (to[1] - from[1]) \div 2
  BY DEF NewLine, LineTypes
<1> HIDE DEF l
<1>2. from \in Int \X Int /\ to \in Int \X Int /\ from[1] < to[1]
  OBVIOUS
<1>3. Abs(to[2] - from[2]) <= to[1] - from[1]
  BY AbsOf DEF Abs
<1> HIDE DEF from, to
<1>4. LengthA(l) = to[1] - from[1] /\ LengthB(l) = Abs(to[2] - from[2])
  BY <1>1 DEF LengthA, LengthB
<1>5. Rise(l) = 0
  <2>1. from[2] - from[2] = 0
    BY <1>2
  <2> QED BY <1>1, <2>1, AbsOf DEF Rise
<1>6. LengthB(l) \in Nat
  BY <1>2, <1>4, AbsOf
<1>7. l.err = LengthA(l) \div 2 - (l.a - l.from[1]) * LengthB(l) + Rise(l) * LengthA(l)
  <2>1. l.a - l.from[1] = 0 /\ 0 * LengthB(l) = 0 /\ 0 * LengthA(l) = 0
    BY <1>1, <1>2, <1>4, <1>6
  <2> QED BY <1>1, <1>2, <1>4, <1>5, <1>6, <2>1
<1>8. 0 <= l.err /\ l.err < LengthA(l)
  BY <1>1, <1>2, <1>4
<1> QED BY <1>1, <1>2, <1>3, <1>4, <1>7, <1>8 DEF LineInv, l

\* Its loop keeps it so.
LEMMA NextOfLineInv ==
  ASSUME NEW l \in LineTypes, LineInv(l), l.a # l.to[1]
  PROVE  NextOfLine(l) \in LineTypes /\ LineInv(NextOfLine(l))
<1> DEFINE m == NextOfLine(l)
           A == LengthA(l)
           B == LengthB(l)
           i == l.a - l.from[1]
           k == Rise(l)
<1>1. /\ l.from[1] \in Int /\ l.from[2] \in Int /\ l.to[1] \in Int /\ l.to[2] \in Int
      /\ l.a \in Int /\ l.b \in Int /\ l.err \in Int
  BY DEF LineTypes
<1>2. A \in Int /\ B \in Nat /\ i \in Int /\ k \in Nat
  BY <1>1, AbsOf DEF LengthA, LengthB, Rise
<1>3. /\ m \in LineTypes /\ m.from = l.from /\ m.to = l.to /\ m.a = l.a + 1
      /\ m.b = (IF l.err - B < 0 THEN IF l.from[2] < l.to[2] THEN l.b + 1 ELSE l.b - 1 ELSE l.b)
      /\ m.err = (IF l.err - B < 0 THEN l.err - B + A ELSE l.err - B)
  <2>1. l.err - B \in Int /\ l.err - B + A \in Int /\ l.a + 1 \in Int /\ l.b + 1 \in Int /\ l.b - 1 \in Int
    BY <1>1, <1>2
  <2>2. CASE l.err - B < 0 /\ l.from[2] < l.to[2]
    <3>1. m = [l EXCEPT !.a = l.a + 1, !.err = l.err - B + A, !.b = l.b + 1]
      BY <2>2 DEF NextOfLine
    <3> HIDE DEF m, A, B
    <3> QED BY <2>1, <2>2, <3>1 DEF LineTypes
  <2>3. CASE l.err - B < 0 /\ ~(l.from[2] < l.to[2])
    <3>1. m = [l EXCEPT !.a = l.a + 1, !.err = l.err - B + A, !.b = l.b - 1]
      BY <2>3 DEF NextOfLine
    <3> HIDE DEF m, A, B
    <3> QED BY <2>1, <2>3, <3>1 DEF LineTypes
  <2>4. CASE ~(l.err - B < 0)
    <3>1. m = [l EXCEPT !.a = l.a + 1, !.err = l.err - B]
      BY <2>4 DEF NextOfLine
    <3> HIDE DEF m, A, B
    <3> QED BY <2>1, <2>4, <3>1 DEF LineTypes
  <2> QED BY <2>2, <2>3, <2>4
<1>4. LengthA(m) = A /\ LengthB(m) = B
  BY <1>3 DEF LengthA, LengthB
<1>5. Rise(m) = IF l.err - B < 0 THEN k + 1 ELSE k
  BY <1>1, <1>3 DEF LineInv, Rise, Abs
<1>6. m.a - m.from[1] = i + 1
  BY <1>1, <1>3
<1>7. (i + 1) * B = i * B + B /\ (k + 1) * A = k * A + A
  BY <1>2
<1>8. l.err = A \div 2 - i * B + k * A /\ 0 <= l.err /\ l.err < A /\ B <= A
  BY DEF LineInv
<1>9. m.err = A \div 2 - (i + 1) * B + Rise(m) * A
  <2> HIDE DEF A, B, i, k, m
  <2>1. i * B \in Int /\ k * A \in Int
    BY <1>2
  <2>2. CASE l.err - B < 0
    BY <1>1, <1>2, <1>3, <1>5, <1>7, <1>8, <2>1, <2>2
  <2>3. CASE ~(l.err - B < 0)
    BY <1>1, <1>2, <1>3, <1>5, <1>7, <1>8, <2>1, <2>3
  <2> QED BY <2>2, <2>3
<1>10. 0 <= m.err /\ m.err < A
  <2> HIDE DEF A, B, m
  <2> QED BY <1>1, <1>2, <1>3, <1>8
<1>11. /\ m.from[1] <= m.a /\ m.a <= m.to[1]
       /\ IF m.from[2] < m.to[2] THEN m.b >= m.from[2] ELSE m.b <= m.from[2]
       /\ 0 < A
  BY <1>1, <1>3 DEF LineInv
<1> HIDE DEF A, B, i, k, m
<1> QED BY <1>3, <1>4, <1>6, <1>8, <1>9, <1>10, <1>11 DEF LineInv, m

\* From the running error follows how far a pixel is off, and where the line ends.
LEMMA LineInvStraight ==
  ASSUME NEW l \in LineTypes, LineInv(l)
  PROVE  /\ 2 * Abs(Rise(l) * LengthA(l) - (l.a - l.from[1]) * LengthB(l)) <= LengthA(l)
         /\ l.a = l.to[1] => l.b = l.to[2]
<1> DEFINE A == LengthA(l)
           B == LengthB(l)
           i == l.a - l.from[1]
           k == Rise(l)
<1>1. /\ l.from[1] \in Int /\ l.from[2] \in Int /\ l.to[1] \in Int /\ l.to[2] \in Int
      /\ l.a \in Int /\ l.b \in Int /\ l.err \in Int
  BY DEF LineTypes
<1>2. A \in Int /\ B \in Nat /\ i \in Int /\ k \in Nat
  BY <1>1, AbsOf DEF LengthA, LengthB, Rise
<1>3. l.err = A \div 2 - i * B + k * A /\ 0 <= l.err /\ l.err < A
  BY DEF LineInv
<1>4. i * B \in Int /\ k * A \in Int /\ k * A - i * B = l.err - A \div 2
  <2> HIDE DEF A, B, i, k
  <2> QED BY <1>1, <1>2, <1>3
<1>5. 2 * Abs(k * A - i * B) <= A
  <2> HIDE DEF A, B, i, k
  <2> QED BY <1>1, <1>2, <1>3, <1>4, AbsOf DEF Abs
<1>6. ASSUME l.a = l.to[1] PROVE l.b = l.to[2]
  <2>1. i = A
    BY <1>6 DEF LengthA
  <2>2. (k - B) * A = k * A - i * B
    <3> HIDE DEF A, B, i, k
    <3> QED BY <1>2, <2>1
  <2>3. -A < (k - B) * A /\ (k - B) * A < A
    <3> HIDE DEF A, B, i, k
    <3> QED BY <1>1, <1>2, <1>3, <1>4, <2>2
  <2>4. k - B = 0
    <3>1. A \in Nat /\ k - B \in Int
      <4> HIDE DEF A, B, i, k
      <4> QED BY <1>1, <1>2, <1>3
    <3> HIDE DEF A, B, i, k
    <3> QED BY <2>3, <3>1, NoMultipleBetween
  <2>5. Rise(l) = LengthB(l)
    <3> HIDE DEF A
    <3> QED BY <1>2, <2>4
  <2>6. IF l.from[2] < l.to[2] THEN l.b >= l.from[2] ELSE l.b <= l.from[2]
    BY DEF LineInv
  <2>7. Abs(l.b - l.from[2]) = Abs(l.to[2] - l.from[2])
    BY <2>5 DEF Rise, LengthB
  <2> HIDE DEF A, B, i, k
  <2> QED BY <1>1, <2>6, <2>7 DEF Abs
<1> QED BY <1>5, <1>6

-----------------------------------------------------------------------------
(* Circles and discs *)

\* drawCircle and fillCircle enter their loops in order.
LEMMA NewArcInv ==
  ASSUME NEW kind \in {"circle", "disc"}, NEW x0 \in Int, NEW y0 \in Int, NEW r \in Nat,
         NEW colour \in Colours
  PROVE  LET c == NewArc(kind, x0, y0, r, colour) IN c \in ArcTypes /\ ArcInv(c)
<1> DEFINE c == NewArc(kind, x0, y0, r, colour)
<1>1. /\ c \in ArcTypes /\ c.x = 0 /\ c.y = r /\ c.r = r /\ c.f = 1 - r /\ c.columns = {0}
  BY DEF NewArc, ArcTypes
<1> HIDE DEF c
<1>2. r * r \in Int /\ r <= r * r + r /\ 0 * 0 = 0
  OBVIOUS
<1>3. {0} = {n \in Nat : n <= r /\ (n <= 0 \/ r < n)}
  OBVIOUS
<1>4. c.f = c.x * c.x + 2 * c.x + 1 + c.y * c.y - c.y - c.r * c.r
  BY <1>1, <1>2
<1> QED BY <1>1, <1>2, <1>3, <1>4 DEF ArcInv, c

\* Their loops keep it so.
LEMMA NextOfArcInv ==
  ASSUME NEW c \in ArcTypes, ArcInv(c), c.x < c.y
  PROVE  LET d == NextOfArc(c)
             e == [d EXCEPT !.columns = @ \cup NewColumns(c, d)]
         IN e \in ArcTypes /\ ArcInv(e) /\ NewColumns(c, d) \cap c.columns = {}
<1> DEFINE d == NextOfArc(c)
           e == [d EXCEPT !.columns = @ \cup NewColumns(c, d)]
           x == c.x
           y == c.y
           r == c.r
           X == x + 1
           Y == IF c.f >= 0 THEN y - 1 ELSE y
<1>1. /\ x \in Nat /\ y \in Nat /\ r \in Nat /\ c.f \in Int /\ c.columns \subseteq Nat
      /\ x < y /\ y <= r
  BY DEF ArcTypes, ArcInv
<1>2. X \in Nat /\ Y \in Nat /\ Y <= r /\ X <= Y + 1
  BY <1>1
<1>3. /\ d \in ArcTypes /\ d.x = X /\ d.y = Y /\ d.r = r /\ d.columns = c.columns
      /\ d.f = (IF c.f >= 0 THEN c.f - 2 * (y - 1) ELSE c.f) + 2 * X + 1
  <2>1. CASE c.f >= 0
    <3>1. d = [c EXCEPT !.x = X, !.y = y - 1, !.f = c.f - 2 * (y - 1) + 2 * X + 1]
      BY <2>1 DEF NextOfArc
    <3>2. y - 1 \in Nat /\ c.f - 2 * (y - 1) + 2 * X + 1 \in Int
      BY <1>1, <1>2
    <3> HIDE DEF d, X
    <3> QED BY <1>2, <2>1, <3>1, <3>2 DEF ArcTypes
  <2>2. CASE ~(c.f >= 0)
    <3>1. d = [c EXCEPT !.x = X, !.y = y, !.f = c.f + 2 * X + 1]
      BY <2>2 DEF NextOfArc
    <3>2. c.f + 2 * X + 1 \in Int
      BY <1>1, <1>2
    <3> HIDE DEF d, X
    <3> QED BY <1>1, <1>2, <2>2, <3>1, <3>2 DEF ArcTypes
  <2> QED BY <2>1, <2>2
<1>4. NewColumns(c, d) = (IF X < Y + 1 THEN {X} ELSE {}) \cup (IF Y # y THEN {y} ELSE {})
  BY <1>3 DEF NewColumns
<1> HIDE DEF d
<1>5. /\ e \in ArcTypes /\ e.x = X /\ e.y = Y /\ e.r = r /\ e.f = d.f
      /\ e.columns = c.columns \cup NewColumns(c, d)
  <2>1. NewColumns(c, d) \subseteq Nat
    BY <1>1, <1>2, <1>4
  <2> HIDE DEF X, Y
  <2> QED BY <1>1, <1>3, <2>1 DEF ArcTypes
<1> HIDE DEF e
<1>6. c.columns = {n \in Nat : n <= r /\ (n <= x \/ y < n)}
  BY DEF ArcInv
<1>7. NewColumns(c, d) \cap c.columns = {}
  BY <1>1, <1>4, <1>6
<1>8. e.columns = {n \in Nat : n <= r /\ (n <= X \/ Y < n)}
  <2>1. \A n \in NewColumns(c, d) : n \in Nat /\ n <= r /\ (n <= X \/ Y < n)
    BY <1>1, <1>2, <1>4
  <2>2. \A n \in c.columns : n \in Nat /\ n <= r /\ (n <= X \/ Y < n)
    BY <1>1, <1>2, <1>6
  <2>3. \A n \in Nat : n <= r /\ (n <= X \/ Y < n) => n \in c.columns \/ n \in NewColumns(c, d)
    BY <1>1, <1>2, <1>4, <1>6
  <2> QED BY <1>5, <2>1, <2>2, <2>3
<1>9. /\ c.f = x * x + 2 * x + 1 + y * y - y - r * r
      /\ r * r - x * x <= y * y + y
      /\ y * y - y <= r * r - x * x
  BY <1>1 DEF ArcInv
<1>10. /\ x * x \in Int /\ y * y \in Int /\ r * r \in Int
       /\ X * X = x * x + 2 * x + 1
       /\ (y - 1) * (y - 1) = y * y - 2 * y + 1
  BY <1>1
<1> HIDE DEF X
<1>11. /\ e.f = X * X + 2 * X + 1 + Y * Y - Y - r * r
       /\ r * r - X * X <= Y * Y + Y
       /\ X <= Y => Y * Y - Y <= r * r - X * X
  <2>1. X = x + 1 /\ X * X \in Int
    BY <1>1, <1>10 DEF X
  <2>2. CASE c.f >= 0
    <3>1. Y = y - 1 /\ Y * Y = y * y - 2 * y + 1
      BY <1>10, <2>2
    <3> HIDE DEF Y, x, y, r
    <3> QED BY <1>1, <1>2, <1>3, <1>5, <1>9, <1>10, <2>1, <2>2, <3>1
  <2>3. CASE ~(c.f >= 0)
    <3>1. Y = y
      BY <2>3
    <3> HIDE DEF Y, x, y, r
    <3> QED BY <1>1, <1>2, <1>3, <1>5, <1>9, <1>10, <2>1, <2>3, <3>1
  <2> QED BY <2>2, <2>3
<1>12. ArcInv(e)
  <2> HIDE DEF Y, x, y
  <2> QED BY <1>2, <1>5, <1>8, <1>11 DEF ArcInv
<1> QED BY <1>5, <1>7, <1>12 DEF e, d

-----------------------------------------------------------------------------
(* The calls of class Display *)

LEMMA FillCovered ==
  ASSUME NEW s, Covered(s), NEW x, NEW y, NEW w, NEW h, NEW colour
  PROVE  Covered(Fill(s, x, y, w, h, colour))
BY SetPixelsCovered, 0 \in 0..3 DEF Fill

LEMMA PrintCovered ==
  ASSUME NEW s, Covered(s), NEW at, NEW text, NEW size, NEW colour, NEW bg
  PROVE  Covered(PrintText(s, at, text, size, colour, bg))
<1> DEFINE Inked == UNION {UNION {Area(Cell(at, i, size)[1] + size * p[1], Cell(at, i, size)[2] + size * p[2],
                                       size, size) : p \in Ink(text, i)} : i \in 0..(text.length - 1)}
           Place == UNION {Area(Cell(at, i, size)[1], Cell(at, i, size)[2], 6 * size, 8 * size) :
                             i \in 0..(text.length - 1)}
           t == IF bg = colour THEN s ELSE SetPixels(s, 0, Place, bg)
<1>1. PrintText(s, at, text, size, colour, bg) = SetPixels(t, 0, Inked, colour)
  BY DEF PrintText
<1> HIDE DEF Inked, Place
<1>2. Covered(t)
  BY SetPixelsCovered, 0 \in 0..3
<1> HIDE DEF t
<1>3. Covered(SetPixels(t, 0, Inked, colour))
  BY <1>2, SetPixelsCovered, 0 \in 0..3
<1> QED BY <1>1, <1>3

LEMMA FieldCovered ==
  ASSUME NEW s, Covered(s), NEW x, NEW y, NEW w, NEW h, NEW at, NEW text,
         NEW style \in {"inverted", "framed", "static"}
  PROVE  Covered(Field(s, x, y, w, h, style, at, text))
<1>1. CASE style = "inverted"
  <2>1. Covered(PrintText(Fill(s, x, y, w, h, BLACK), at, text, 1, WHITE, BLACK))
    BY FillCovered, PrintCovered
  <2> QED BY <1>1, <2>1 DEF Field
<1>2. CASE style = "framed"
  <2>1. Covered(SetPixels(s, 0, DrawRect(x, y, w, h), BLACK))
    BY SetPixelsCovered, 0 \in 0..3
  <2>2. Covered(PrintText(SetPixels(s, 0, DrawRect(x, y, w, h), BLACK), at, text, 1, BLACK, BLACK))
    BY <2>1, PrintCovered
  <2> QED BY <1>2, <2>2 DEF Field
<1>3. CASE style = "static"
  <2>1. Covered(PrintText(s, at, text, 1, BLACK, BLACK))
    BY PrintCovered
  <2> QED BY <1>3, <2>1 DEF Field
<1> QED BY <1>1, <1>2, <1>3

\* The screens that module Display speaks of.
Styles == {"inverted", "framed", "static"}
Sound(view) ==
  view.view = "menu" =>
    view.rPerKit.style \in Styles /\ view.kits.style \in Styles /\ view.button.style \in Styles

LEMMA Line1Covered ==
  ASSUME NEW s, Covered(s), NEW input, input.style \in Styles
  PROVE  Covered(Line1(s, input)) /\ Line1(s, input).lcd = Line1(s, input).buffer
<1> DEFINE t == PrintText(Fill(s, 0, 0, 84, 11, WHITE), <<4, 2>>, Text("R per kit:", 0, 10), 1, BLACK, BLACK)
           u == Field(t, 64, 0, 15, 11, input.style, <<IF input.number < 10 THEN 69 ELSE 65, 2>>,
                      Number(input.number))
<1>1. Covered(t)
  BY FillCovered, PrintCovered
<1> HIDE DEF t
<1>2. Covered(u)
  BY <1>1, FieldCovered DEF Styles
<1> HIDE DEF u
<1>3. Covered(SendPages(u)) /\ SendPages(u).lcd = SendPages(u).buffer
  BY <1>2, SendPagesShowsAll
<1> QED BY <1>3 DEF Line1, t, u

LEMMA Line2Covered ==
  ASSUME NEW s, Covered(s), NEW input, input.style \in Styles
  PROVE  Covered(Line2(s, input)) /\ Line2(s, input).lcd = Line2(s, input).buffer
<1> DEFINE t == PrintText(Fill(s, 0, 12, 84, 11, WHITE), <<20, 14>>, Text("Kits:", 0, 5), 1, BLACK, BLACK)
           u == Field(t, 50, 12, 15, 11, input.style, <<IF input.number < 10 THEN 55 ELSE 52, 14>>,
                      Number(input.number))
<1>1. Covered(t)
  BY FillCovered, PrintCovered
<1> HIDE DEF t
<1>2. Covered(u)
  BY <1>1, FieldCovered DEF Styles
<1> HIDE DEF u
<1>3. Covered(SendPages(u)) /\ SendPages(u).lcd = SendPages(u).buffer
  BY <1>2, SendPagesShowsAll
<1> QED BY <1>3 DEF Line2, t, u

LEMMA ProgressCovered ==
  ASSUME NEW s, Covered(s), NEW bar
  PROVE  /\ Covered(Progress(s, bar))
         /\ bar # D!NoBar => Progress(s, bar).lcd = Progress(s, bar).buffer
<1> DEFINE x == IF bar < 10 THEN 36 ELSE IF bar < 100 THEN 33 ELSE 30
           frame == SetPixels(Fill(s, 0, 24, 84, 11, WHITE), 0, DrawRect(4, 24, 77, 11), BLACK)
           printed == PrintText(frame, <<x, 26>>, Percentage(bar), 1, BLACK, BLACK)
           inverted == InvertRect(printed, 0, 5, 25, (bar * 75) \div 100, 9)
<1>1. CASE bar = D!NoBar
  BY <1>1 DEF Progress
<1>2. CASE bar # D!NoBar
  <2>1. Covered(Fill(s, 0, 24, 84, 11, WHITE))
    BY FillCovered
  <2>2. Covered(frame)
    BY <2>1, SetPixelsCovered, 0 \in 0..3
  <2> HIDE DEF frame, x
  <2>3. Covered(printed)
    BY <2>2, PrintCovered
  <2> HIDE DEF printed
  <2>4. Covered(inverted)
    BY <2>3, InvertRectCovered, 0 \in 0..3
  <2> HIDE DEF inverted
  <2>5. Covered(SendPages(inverted)) /\ SendPages(inverted).lcd = SendPages(inverted).buffer
    BY <2>4, SendPagesShowsAll
  <2> QED BY <1>2, <2>5 DEF Progress, inverted, printed, frame, x
<1> QED BY <1>1, <1>2

LEMMA ButtonCovered ==
  ASSUME NEW s, Covered(s), NEW button, button.style \in Styles
  PROVE  Covered(Button(s, button)) /\ Button(s, button).lcd = Button(s, button).buffer
<1> DEFINE t == Fill(s, 25, 37, 33, 11, WHITE)
           u == Field(t, 25, 37, 33, 11, button.style,
                      IF button.text = "Stop" THEN <<30, 39>> ELSE <<27, 39>>,
                      Text(button.text, 0, IF button.text = "Stop" THEN 4 ELSE 5))
<1>1. Covered(t)
  BY FillCovered
<1> HIDE DEF t
<1>2. Covered(u)
  BY <1>1, FieldCovered DEF Styles
<1> HIDE DEF u
<1>3. Covered(SendPages(u)) /\ SendPages(u).lcd = SendPages(u).buffer
  BY <1>2, SendPagesShowsAll
<1> QED BY <1>3 DEF Button, t, u

LEMMA MenuCovered ==
  ASSUME NEW s, Covered(s), NEW view, view.view = "menu", Sound(view)
  PROVE  Covered(Menu(s, view)) /\ Menu(s, view).lcd = Menu(s, view).buffer
<1>1. Covered(Line1(s, view.rPerKit))
  BY Line1Covered DEF Sound
<1>2. Covered(Line2(Line1(s, view.rPerKit), view.kits))
  BY <1>1, Line2Covered DEF Sound
<1>3. Covered(Progress(Line2(Line1(s, view.rPerKit), view.kits), view.bar))
  BY <1>2, ProgressCovered
<1> QED BY <1>3, ButtonCovered DEF Menu, Sound

LEMMA PausedCovered ==
  ASSUME NEW s, Covered(s)
  PROVE  Covered(Paused(s)) /\ Paused(s).lcd = Paused(s).buffer
<1> DEFINE title == PrintText(s, <<7, 0>>, Text("PAUSED", 0, 6), 2, BLACK, BLACK)
           line == SetPixels(title, 0, HLine(0, 15, 85), BLACK)
           text == PrintText(line, <<0, 17>>, Text("Safety switch flipped", 0, 42), 1, BLACK, BLACK)
           all == PrintText(text, <<0, 41>>, Text("the issue!", 0, 10), 1, BLACK, BLACK)
<1>1. Covered(title)
  BY PrintCovered
<1> HIDE DEF title
<1>2. Covered(line)
  BY <1>1, SetPixelsCovered, 0 \in 0..3
<1> HIDE DEF line
<1>3. Covered(text)
  BY <1>2, PrintCovered
<1> HIDE DEF text
<1>4. Covered(all)
  BY <1>3, PrintCovered
<1> HIDE DEF all
<1>5. Covered(SendPages(all)) /\ SendPages(all).lcd = SendPages(all).buffer
  BY <1>4, SendPagesShowsAll
<1> QED BY <1>5 DEF Paused, all, text, line, title

\* The parts that module Display makes are sound.
LEMMA PartsSound ==
  ASSUME NEW number, NEW highlighted \in BOOLEAN, NEW running
  PROVE  /\ D!PrintLn(number, highlighted, running).style \in Styles
         /\ D!PrintButton(highlighted, running).style \in Styles
BY DEF D!PrintLn, D!PrintButton, Styles

LEMMA ViewsSound ==
  ASSUME NEW view \in Views
  PROVE  view.view \in {"menu", "paused"} /\ Sound(view)
<1>1. PICK h \in 0..2, r \in RPerKits, k \in Kits, p \in Percents, running \in 0..2 :
        view = D!UpdateAll(h, r, k, p, running)
  BY DEF Views
<1>2. CASE running = 2
  BY <1>1, <1>2 DEF D!UpdateAll, D!ShowPaused, Sound
<1>3. CASE running # 2
  <2>1. view = [view |-> "menu", rPerKit |-> D!PrintLn(r, h = 0, running),
                kits |-> D!PrintLn(k, h = 1, running), bar |-> D!Bar(p, running),
                button |-> D!PrintButton(h = 2, running)]
    BY <1>1, <1>3 DEF D!UpdateAll
  <2>2. (h = 0) \in BOOLEAN /\ (h = 1) \in BOOLEAN /\ (h = 2) \in BOOLEAN
    OBVIOUS
  <2> QED BY <2>1, <2>2, PartsSound DEF Sound
<1> QED BY <1>2, <1>3

-----------------------------------------------------------------------------
(* The inductive invariant *)

PenInv ==
  \/ pen \in {Off, Ready}
  \/ pen \in LineTypes /\ LineInv(pen)
  \/ pen \in ArcTypes /\ ArcInv(pen)

ScreenInv ==
  /\ screen \in Screens /\ (pen # Off => Covered(screen))
  /\ rotation \in 0..3 /\ calls \in 0..MaxCalls
  /\ PenInv
  /\ Sound(shown)

LEMMA PenKinds ==
  /\ Off # Ready /\ Off.kind = "off" /\ Ready.kind = "idle"
  /\ \A l \in LineTypes : l.kind = "line" /\ l # Off /\ l # Ready
  /\ \A c \in ArcTypes : c.kind \in {"circle", "disc"} /\ c # Off /\ c # Ready
<1>1. Off.kind = "off" /\ Ready.kind = "idle"
  BY DEF Off, Ready
<1>2. \A l \in LineTypes : l.kind = "line"
  BY DEF LineTypes
<1>3. \A c \in ArcTypes : c.kind \in {"circle", "disc"}
  BY DEF ArcTypes
<1>4. "off" # "idle" /\ "line" # "off" /\ "line" # "idle" /\ "circle" # "off" /\ "circle" # "idle"
        /\ "disc" # "off" /\ "disc" # "idle"
  OBVIOUS
<1> QED BY <1>1, <1>2, <1>3, <1>4

LEMMA InitInv == DSInit => ScreenInv
<1> SUFFICES ASSUME DSInit PROVE ScreenInv
  OBVIOUS
<1>1. PICK n \in Noise :
        screen = [buffer |-> Logo, lcd |-> n, box |-> [xmin |-> 0, ymin |-> 0, xmax |-> 0, ymax |-> 0]]
  BY DEF DSInit, Init
<1>2. [xmin |-> 0, ymin |-> 0, xmax |-> 0, ymax |-> 0] \in Boxes
  BY SizeAssumption DEF Boxes
<1>3. screen \in Screens
  BY <1>1, <1>2, SizeAssumption DEF Screens
<1>4. pen = Off /\ rotation = 0 /\ calls = 0 /\ Sound(shown)
  BY DEF DSInit, Init, Nothing, Sound
<1> QED BY <1>3, <1>4, ArgumentAssumption DEF ScreenInv, PenInv

\* A drawing call of the library that is done at once.
LEMMA DrawInv ==
  ASSUME ScreenInv, pen = Ready, NEW s, Covered(s), Draw(s), UNCHANGED shown
  PROVE  ScreenInv'
<1>1. calls' \in 0..MaxCalls
  BY ArgumentAssumption DEF ScreenInv, Draw, Call
<1>2. screen' = s /\ UNCHANGED <<rotation, pen, shown>>
  BY DEF Draw
<1>3. s \in Screens
  BY DEF Covered
<1> QED BY <1>1, <1>2, <1>3 DEF ScreenInv, PenInv

\* A call of class Display.
LEMMA ShowInv ==
  ASSUME ScreenInv, NEW s, Covered(s), NEW view, Sound(view), Show(s, view)
  PROVE  ScreenInv'
<1>1. screen' = s /\ shown' = view /\ UNCHANGED <<rotation, pen, calls>>
  BY DEF Show
<1>2. s \in Screens
  BY DEF Covered
<1> QED BY <1>1, <1>2 DEF ScreenInv, PenInv

\* One pixel, or one group of pixels, of the pen.
LEMMA PenDrawsInv ==
  ASSUME ScreenInv, pen # Off, NEW P, NEW colour,
         screen' = SetPixels(screen, rotation, P, colour), pen' # Off, PenInv',
         calls' \in 0..MaxCalls, rotation' = rotation, shown' = shown
  PROVE  ScreenInv'
<1>1. Covered(SetPixels(screen, rotation, P, colour))
  BY SetPixelsCovered DEF ScreenInv
<1>2. screen' \in Screens /\ Covered(screen')
  BY <1>1 DEF Covered
<1> QED BY <1>2 DEF ScreenInv

LEMMA CallsBounded == ScreenInv /\ Call => calls' \in 0..MaxCalls /\ pen = Ready
BY ArgumentAssumption DEF ScreenInv, Call

LEMMA LibraryStep == ScreenInv /\ Next /\ UNCHANGED shown => ScreenInv'
<1> SUFFICES ASSUME ScreenInv, Next, UNCHANGED shown PROVE ScreenInv'
  OBVIOUS
<1> USE PenKinds
<1>1. CASE Begin
  <2> DEFINE s == [screen EXCEPT !.buffer = screen.buffer, !.box = FullBox]
  <2>1. screen \in Screens /\ screen.buffer \in SUBSET Pixels
    BY DEF ScreenInv, Screens
  <2>2. s = [screen EXCEPT !.box = FullBox]
    BY <2>1 DEF Screens
  <2>3. Covered(s)
    BY <2>1, ReplacedCovered
  <2> HIDE DEF s
  <2>4. Covered(SendPages(s))
    BY <2>3, SendPagesShowsAll
  <2>5. screen' = SendPages(s) /\ pen' = Ready /\ UNCHANGED <<rotation, calls>>
    BY <1>1, <2>2 DEF Begin
  <2>6. SendPages(s) \in Screens
    BY <2>4 DEF Covered
  <2> QED BY <2>4, <2>5, <2>6 DEF ScreenInv, PenInv
<1>2. CASE LineStep
  <2>1. pen \in LineTypes /\ LineInv(pen) /\ calls' \in 0..MaxCalls
    BY <1>2 DEF LineStep, ScreenInv, PenInv
  <2>2. PenInv' /\ pen' # Off
    BY <1>2, <2>1, NextOfLineInv DEF LineStep, PenInv
  <2> QED BY <1>2, <2>1, <2>2, PenDrawsInv DEF LineStep
<1>3. CASE ArcStep
  <2> DEFINE d == NextOfArc(pen)
             e == [d EXCEPT !.columns = @ \cup NewColumns(pen, d)]
             P == IF pen.kind = "circle" THEN Octants(d) ELSE ColumnPixels(pen, d)
  <2>1. pen \in ArcTypes /\ ArcInv(pen) /\ UNCHANGED <<rotation, calls>> /\ calls' \in 0..MaxCalls
    BY <1>3 DEF ArcStep, ScreenInv, PenInv
  <2>2. CASE pen.x < pen.y
    <3>1. pen' = e /\ screen' = SetPixels(screen, rotation, P, pen.colour)
      BY <1>3, <2>2 DEF ArcStep
    <3>2. e \in ArcTypes /\ ArcInv(e)
      BY <2>1, <2>2, NextOfArcInv
    <3> HIDE DEF e, P
    <3>3. PenInv' /\ pen' # Off
      BY <3>1, <3>2 DEF PenInv
    <3> QED BY <2>1, <3>1, <3>3, PenDrawsInv
  <2>3. CASE ~(pen.x < pen.y)
    BY <1>3, <2>1, <2>3 DEF ArcStep, ScreenInv, PenInv
  <2> QED BY <2>2, <2>3
<1>4. CASE DisplayNow
  <2>1. pen = Ready /\ Covered(screen)
    BY <1>4 DEF DisplayNow, ScreenInv
  <2>2. Covered(SendPages(screen))
    BY <2>1, SendPagesShowsAll
  <2>3. SendPages(screen) \in Screens
    BY <2>2 DEF Covered
  <2> QED BY <1>4, <2>2, <2>3 DEF DisplayNow, ScreenInv, PenInv
<1>5. ASSUME NEW rot \in Rotations, SetRotation(rot) PROVE ScreenInv'
  BY <1>5, ArgumentAssumption DEF SetRotation, ScreenInv, PenInv
<1>6. ASSUME NEW colour \in Colours, NEW l \in Lines, DrawLine(l, colour) PROVE ScreenInv'
  <2>1. l[1] \in Int /\ l[2] \in Int /\ l[3] \in Int /\ l[4] \in Int
    BY ArgumentAssumption
  <2>2. CASE l[1] = l[3] \/ l[2] = l[4]
    <3> DEFINE s == SetPixels(screen, rotation, Between(l[1], l[3]) \X Between(l[2], l[4]), colour)
    <3>1. Draw(s)
      BY <1>6, <2>2 DEF DrawLine
    <3>2. pen = Ready /\ Covered(screen) /\ rotation \in 0..3
      BY <3>1 DEF Draw, Call, ScreenInv
    <3>3. Covered(s)
      BY <3>2, SetPixelsCovered
    <3> HIDE DEF s
    <3> QED BY <3>1, <3>2, <3>3, DrawInv
  <2>3. CASE ~(l[1] = l[3] \/ l[2] = l[4])
    <3>1. Call /\ pen' = NewLine(l[1], l[2], l[3], l[4], colour) /\ UNCHANGED <<screen, rotation>>
      BY <1>6, <2>3 DEF DrawLine
    <3>2. pen' \in LineTypes /\ LineInv(pen')
      BY <2>1, <2>3, <3>1, NewLineInv
    <3>3. PenInv'
      BY <3>2 DEF PenInv
    <3> QED BY <3>1, <3>3, CallsBounded DEF ScreenInv
  <2> QED BY <2>2, <2>3
<1>7. ASSUME NEW colour \in Colours, NEW c \in Circles, DrawCircle(c, colour) \/ FillCircle(c, colour)
      PROVE ScreenInv'
  <2>1. c[1] \in Int /\ c[2] \in Int /\ c[3] \in Nat
    BY ArgumentAssumption
  <2>2. CASE DrawCircle(c, colour)
    <3> DEFINE arc == NewArc("circle", c[1], c[2], c[3], colour)
    <3>1. Call /\ pen' = arc /\ screen' = SetPixels(screen, rotation, Octants(arc), colour)
            /\ UNCHANGED rotation
      BY <2>2 DEF DrawCircle
    <3>2. arc \in ArcTypes /\ ArcInv(arc)
      BY <2>1, NewArcInv
    <3> HIDE DEF arc
    <3>3. PenInv' /\ pen' # Off /\ pen # Off
      BY <3>1, <3>2, CallsBounded DEF PenInv
    <3> QED BY <3>1, <3>3, CallsBounded, PenDrawsInv
  <2>3. CASE FillCircle(c, colour)
    <3> DEFINE arc == NewArc("disc", c[1], c[2], c[3], colour)
    <3>1. Call /\ pen' = arc /\ UNCHANGED rotation
            /\ screen' = SetPixels(screen, rotation, VLine(c[1], c[2] - c[3], 2 * c[3] + 1), colour)
      BY <2>3 DEF FillCircle
    <3>2. arc \in ArcTypes /\ ArcInv(arc)
      BY <2>1, NewArcInv
    <3> HIDE DEF arc
    <3>3. PenInv' /\ pen' # Off /\ pen # Off
      BY <3>1, <3>2, CallsBounded DEF PenInv
    <3> QED BY <3>1, <3>3, CallsBounded, PenDrawsInv
  <2> QED BY <1>7, <2>2, <2>3
<1>8. ASSUME NEW colour \in Colours, NEW r \in Rects, Rectangle(r, colour) PROVE ScreenInv'
  <2>1. PICK s : /\ Draw(s)
                 /\ \/ s = SetPixels(screen, rotation, FillRect(r[1], r[2], r[3], r[4]), colour)
                    \/ s = SetPixels(screen, rotation, DrawRect(r[1], r[2], r[3], r[4]), colour)
                    \/ s = InvertRect(screen, rotation, r[1], r[2], r[3], r[4])
    BY <1>8 DEF Rectangle
  <2>2. pen = Ready /\ Covered(screen) /\ rotation \in 0..3
    BY <2>1 DEF Draw, Call, ScreenInv
  <2>3. Covered(s)
    BY <2>1, <2>2, SetPixelsCovered, InvertRectCovered
  <2> QED BY <2>1, <2>2, <2>3, DrawInv
<1>9. CASE Draw(ClearDisplay(screen))
  <2>1. pen = Ready /\ Covered(screen)
    BY <1>9 DEF Draw, Call, ScreenInv
  <2>2. Covered(ClearDisplay(screen))
    BY <2>1, ClearCovered
  <2> QED BY <1>9, <2>1, <2>2, DrawInv
<1>10. ASSUME NEW d \in Shifts, Draw(Scroll(screen, rotation, d[1], d[2])) PROVE ScreenInv'
  <2>1. d[1] \in Int /\ d[2] \in Int
    BY ArgumentAssumption
  <2>2. pen = Ready /\ Covered(screen) /\ rotation \in 0..3
    BY <1>10 DEF Draw, Call, ScreenInv
  <2>3. Covered(Scroll(screen, rotation, d[1], d[2]))
    BY <2>1, <2>2, ScrollCovered
  <2> QED BY <1>10, <2>2, <2>3, DrawInv
<1> QED BY <1>1, <1>2, <1>3, <1>4, <1>5, <1>6, <1>7, <1>8, <1>9, <1>10 DEF Next

LEMMA DisplayStep == ScreenInv /\ DisplayCall => ScreenInv'
<1> SUFFICES ASSUME ScreenInv, DisplayCall PROVE ScreenInv'
  OBVIOUS
<1>1. ASSUME NEW view \in Views, UpdateAll(view) PROVE ScreenInv'
  <2> DEFINE clear == ClearDisplay(screen)
             s == IF view.view = "paused" THEN Paused(clear) ELSE Menu(clear, view)
  <2>1. Show(s, view)
    BY <1>1 DEF UpdateAll
  <2>2. Covered(screen)
    BY <2>1, PenKinds DEF Show, ScreenInv
  <2>3. Covered(clear)
    BY <2>2, ClearCovered
  <2> HIDE DEF clear
  <2>4. view.view \in {"menu", "paused"} /\ Sound(view)
    BY ViewsSound
  <2>5. Covered(s)
    BY <2>3, <2>4, PausedCovered, MenuCovered
  <2> HIDE DEF s
  <2> QED BY <2>1, <2>4, <2>5, ShowInv
<1>2. ASSUME NEW n, NEW h \in BOOLEAN, NEW running, PrintLn1(n, h, running) PROVE ScreenInv'
  <2> DEFINE input == D!PrintLn(n, h, running)
             view == [shown EXCEPT !.rPerKit = input]
  <2>1. OnMenu /\ Show(Line1(screen, input), view)
    BY <1>2 DEF PrintLn1
  <2>2. input.style \in Styles
    BY PartsSound
  <2> HIDE DEF input
  <2>3. Covered(screen)
    BY <2>1, PenKinds DEF Show, ScreenInv
  <2>4. Covered(Line1(screen, input))
    BY <2>2, <2>3, Line1Covered
  <2>5. Sound(view)
    BY <2>1, <2>2 DEF ScreenInv, Sound, OnMenu
  <2> HIDE DEF view
  <2> QED BY <2>1, <2>4, <2>5, ShowInv
<1>3. ASSUME NEW n, NEW h \in BOOLEAN, NEW running, PrintLn2(n, h, running) PROVE ScreenInv'
  <2> DEFINE input == D!PrintLn(n, h, running)
             view == [shown EXCEPT !.kits = input]
  <2>1. OnMenu /\ Show(Line2(screen, input), view)
    BY <1>3 DEF PrintLn2
  <2>2. input.style \in Styles
    BY PartsSound
  <2> HIDE DEF input
  <2>3. Covered(screen)
    BY <2>1, PenKinds DEF Show, ScreenInv
  <2>4. Covered(Line2(screen, input))
    BY <2>2, <2>3, Line2Covered
  <2>5. Sound(view)
    BY <2>1, <2>2 DEF ScreenInv, Sound, OnMenu
  <2> HIDE DEF view
  <2> QED BY <2>1, <2>4, <2>5, ShowInv
<1>4. ASSUME NEW h \in BOOLEAN, NEW running, PrintButton(h, running) PROVE ScreenInv'
  <2> DEFINE button == D!PrintButton(h, running)
             view == [shown EXCEPT !.button = button]
  <2>1. OnMenu /\ Show(Button(screen, button), view)
    BY <1>4 DEF PrintButton
  <2>2. button.style \in Styles
    BY PartsSound
  <2> HIDE DEF button
  <2>3. Covered(screen)
    BY <2>1, PenKinds DEF Show, ScreenInv
  <2>4. Covered(Button(screen, button))
    BY <2>2, <2>3, ButtonCovered
  <2>5. Sound(view)
    BY <2>1, <2>2 DEF ScreenInv, Sound, OnMenu
  <2> HIDE DEF view
  <2> QED BY <2>1, <2>4, <2>5, ShowInv
<1>5. ASSUME NEW p \in Percents, PrintProgress(p) PROVE ScreenInv'
  <2> DEFINE view == D!PrintProgress(shown, p, 1)
  <2>1. OnMenu /\ Show(Progress(screen, view.bar), view)
    BY <1>5 DEF PrintProgress
  <2>2. Covered(screen)
    BY <2>1, PenKinds DEF Show, ScreenInv
  <2>3. Covered(Progress(screen, view.bar))
    BY <2>2, ProgressCovered
  <2>4. Sound(view)
    BY <2>1 DEF ScreenInv, Sound, OnMenu, D!PrintProgress
  <2> HIDE DEF view
  <2> QED BY <2>1, <2>3, <2>4, ShowInv
<1> QED BY <1>1, <1>2, <1>3, <1>4, <1>5 DEF DisplayCall

LEMMA StepInv == ScreenInv /\ [DSNext]_dsVars => ScreenInv'
<1>1. ScreenInv /\ UNCHANGED dsVars => ScreenInv'
  BY DEF dsVars, vars, ScreenInv, PenInv
<1> QED BY <1>1, LibraryStep, DisplayStep DEF DSNext

LEMMA ScreenInvariant == DSSpec => []ScreenInv
BY InitInv, StepInv, PTL DEF DSSpec

-----------------------------------------------------------------------------
(* The theorems *)

\* Every variable of the display stays in its range.
THEOREM TypeCorrect == DSSpec => []TypeInv
<1>1. ScreenInv => TypeInv
  BY DEF ScreenInv, PenInv, TypeInv, Screens, LineTypes, ArcTypes
<1> QED BY <1>1, ScreenInvariant, PTL

\* Whatever is drawn, by the program or by other calls of the library, the box covers
\* every pixel that the chip does not show as the buffer has it (updateBoundingBox).
THEOREM BoxAlwaysCovers == DSSpec => []BoxCovers
<1>1. ScreenInv => BoxCovers
  BY DEF ScreenInv, Covered, BoxCovers
<1> QED BY <1>1, ScreenInvariant, PTL

\* After display() the chip shows the buffer (Adafruit_PCD8544::display).
THEOREM NothingLeftBehind == DSSpec => DisplayShowsAll
<1>1. ScreenInv /\ (DisplayNow \/ Begin) => screen'.lcd = screen'.buffer
  <2>1. ASSUME ScreenInv, DisplayNow PROVE screen'.lcd = screen'.buffer
    BY <2>1, PenKinds, SendPagesShowsAll DEF DisplayNow, ScreenInv
  <2>2. ASSUME ScreenInv, Begin PROVE screen'.lcd = screen'.buffer
    <3> DEFINE s == [screen EXCEPT !.buffer = screen.buffer, !.box = FullBox]
    <3>1. screen \in Screens /\ screen.buffer \in SUBSET Pixels
      BY <2>2 DEF ScreenInv, Screens
    <3>2. s = [screen EXCEPT !.box = FullBox]
      BY <3>1 DEF Screens
    <3>3. Covered(s)
      BY <3>1, ReplacedCovered
    <3> HIDE DEF s
    <3> QED BY <2>2, <3>2, <3>3, SendPagesShowsAll DEF Begin
  <2> QED BY <2>1, <2>2
<1>2. ScreenInv /\ [DSNext]_dsVars => [DisplayNow \/ Begin => screen'.lcd = screen'.buffer]_vars
  BY <1>1
<1> QED BY <1>2, ScreenInvariant, PTL DEF DSSpec, DisplayShowsAll

\* No pixel of a line is more than half a pixel off, and the line ends where it should
\* (Adafruit_GFX::writeLine).
THEOREM LinesAreStraight == DSSpec => []LineIsStraight
<1>1. ScreenInv => LineIsStraight
  BY PenKinds, LineInvStraight DEF ScreenInv, PenInv, LineIsStraight
<1> QED BY <1>1, ScreenInvariant, PTL

\* The pixels of a circle lie within half a pixel of it (Adafruit_GFX::drawCircle).
THEOREM ArcsAreRound == DSSpec => []ArcIsRound
<1>1. ScreenInv => ArcIsRound
  BY PenKinds DEF ScreenInv, PenInv, ArcInv, ArcIsRound
<1> QED BY <1>1, ScreenInvariant, PTL

\* A disc that is done has all of its columns (Adafruit_GFX::fillCircleHelper).
THEOREM DiscsAreWhole == DSSpec => []DiscIsWhole
<1>1. ScreenInv => DiscIsWhole
  <2> SUFFICES ASSUME ScreenInv, pen.kind = "disc", pen.x >= pen.y
               PROVE  pen.columns = 0..pen.r
    BY DEF DiscIsWhole
  <2>1. pen \in ArcTypes /\ ArcInv(pen)
    BY PenKinds DEF ScreenInv, PenInv
  <2>2. pen.x \in Nat /\ pen.y \in Nat /\ pen.r \in Nat
    BY <2>1 DEF ArcTypes
  <2>3. pen.columns = {n \in Nat : n <= pen.r /\ (n <= pen.x \/ pen.y < n)}
    BY <2>1 DEF ArcInv
  <2> QED BY <2>2, <2>3
<1> QED BY <1>1, ScreenInvariant, PTL

\* ... and none of them is drawn twice.
THEOREM DiscsAreDrawnOnce == DSSpec => DiscIsDrawnOnce
<1> DEFINE A == pen.kind = "disc" /\ pen'.kind = "disc" => NewColumns(pen, pen') \cap pen.columns = {}
<1>1. ASSUME ScreenInv, [DSNext]_dsVars PROVE [A]_vars
  <2> SUFFICES ASSUME vars' # vars, pen.kind = "disc", pen'.kind = "disc"
               PROVE  NewColumns(pen, pen') \cap pen.columns = {}
    OBVIOUS
  <2>1. pen \in ArcTypes /\ ArcInv(pen) /\ pen # Ready /\ pen # Off
    BY <1>1, PenKinds DEF ScreenInv, PenInv
  <2>2. ~DisplayCall
    BY <2>1 DEF DisplayCall, UpdateAll, PrintLn1, PrintLn2, PrintProgress, PrintButton, Show
  <2>3. Next
    BY <1>1, <2>2 DEF DSNext, dsVars
  <2>4. ArcStep
    BY <2>1, <2>3 DEF Next, Begin, LineStep, DisplayNow, SetRotation, DrawLine, DrawCircle,
      FillCircle, Rectangle, Draw, Call
  <2>5. pen.x < pen.y
    BY <2>4, PenKinds DEF ArcStep
  <2>6. pen' = [NextOfArc(pen) EXCEPT !.columns = @ \cup NewColumns(pen, NextOfArc(pen))]
    BY <2>4, <2>5 DEF ArcStep
  <2>7. pen'.x = NextOfArc(pen).x /\ pen'.y = NextOfArc(pen).y
    BY <2>6 DEF NextOfArc
  <2>8. NewColumns(pen, NextOfArc(pen)) \cap pen.columns = {}
    BY <2>1, <2>5, NextOfArcInv
  <2> QED BY <2>7, <2>8 DEF NewColumns
<1>2. ScreenInv /\ [DSNext]_dsVars => [A]_vars
  BY <1>1
<1> QED BY <1>2, ScreenInvariant, PTL DEF DSSpec, DiscIsDrawnOnce

-----------------------------------------------------------------------------
(* The picture of what is shown *)

\* p is as black in s as in t.
Alike(s, t, p) == p \in s.buffer <=> p \in t.buffer

LEMMA AlikeChain ==
  ASSUME NEW p
  PROVE  /\ \A s : Alike(s, s, p)
         /\ \A s, t : Alike(s, t, p) => Alike(t, s, p)
         /\ \A s, t, u : Alike(s, t, p) /\ Alike(t, u, p) => Alike(s, u, p)
BY Zenon DEF Alike

\* Without rotation a call sets the pixels it names, as far as they are on the screen.
LEMMA SetPixelsAt ==
  ASSUME NEW s, Covered(s), NEW P, NEW colour, NEW p \in Pixels
  PROVE  p \in SetPixels(s, 0, P, colour).buffer <=>
           IF p \in P THEN colour = BLACK ELSE p \in s.buffer
<1>1. p \in Clipped(0, P) <=> p \in P
  <2>1. Clipped(0, P) = {Rotated(0, q) : q \in P \cap Pixels}
    BY DEF Clipped, LogicalWidth, LogicalHeight, Pixels
  <2>2. \A q : Rotated(0, q) = q
    BY DEF Rotated
  <2> QED BY <2>1, <2>2
<1>2. SetPixels(s, 0, P, colour).buffer
        = IF colour = BLACK THEN s.buffer \cup Clipped(0, P) ELSE s.buffer \ Clipped(0, P)
  BY DEF SetPixels, Covered, Screens
<1> QED BY <1>1, <1>2

LEMMA InvertRectAt ==
  ASSUME NEW s, Covered(s), NEW x, NEW y, NEW w, NEW h, NEW p \in Pixels
  PROVE  p \in InvertRect(s, 0, x, y, w, h).buffer <=>
           IF p \in Area(x, y, w, h) THEN ~(p \in s.buffer) ELSE p \in s.buffer
<1> DEFINE P == Area(x, y, w, h)
<1> HIDE DEF P
<1>1. p \in Clipped(0, P) <=> p \in P
  <2>1. Clipped(0, P) = {Rotated(0, q) : q \in P \cap Pixels}
    BY DEF Clipped, LogicalWidth, LogicalHeight, Pixels
  <2>2. \A q : Rotated(0, q) = q
    BY DEF Rotated
  <2> QED BY <2>1, <2>2
<1>2. InvertRect(s, 0, x, y, w, h).buffer
        = (s.buffer \ Clipped(0, P)) \cup (Clipped(0, P) \ s.buffer)
  BY DEF InvertRect, Covered, Screens, P
<1> QED BY <1>1, <1>2 DEF P

LEMMA SetPixelsAlike ==
  ASSUME NEW s, Covered(s), NEW P, NEW colour, NEW p \in Pixels
  PROVE  /\ p \notin P => Alike(s, SetPixels(s, 0, P, colour), p)
         /\ \A t : Covered(t) /\ (Alike(s, t, p) \/ p \in P) =>
              Alike(SetPixels(s, 0, P, colour), SetPixels(t, 0, P, colour), p)
BY SetPixelsAt, Zenon DEF Alike

LEMMA InvertRectAlike ==
  ASSUME NEW s, Covered(s), NEW x, NEW y, NEW w, NEW h, NEW p \in Pixels
  PROVE  /\ p \notin Area(x, y, w, h) => Alike(s, InvertRect(s, 0, x, y, w, h), p)
         /\ \A t : Covered(t) /\ Alike(s, t, p) =>
              Alike(InvertRect(s, 0, x, y, w, h), InvertRect(t, 0, x, y, w, h), p)
BY InvertRectAt, Zenon DEF Alike

LEMMA SendPagesAlike ==
  ASSUME NEW s, Covered(s), NEW p
  PROVE  Alike(s, SendPages(s), p)
BY DEF SendPages, Alike, Covered, Screens

\* Printing is done pixel by pixel: equal pixels stay equal.
LEMMA PrintAlike ==
  ASSUME NEW s, Covered(s), NEW t, Covered(t), NEW p \in Pixels, Alike(s, t, p),
         NEW at, NEW text, NEW size, NEW colour, NEW bg
  PROVE  Alike(PrintText(s, at, text, size, colour, bg), PrintText(t, at, text, size, colour, bg), p)
<1> DEFINE Inked == UNION {UNION {Area(Cell(at, i, size)[1] + size * q[1], Cell(at, i, size)[2] + size * q[2],
                                       size, size) : q \in Ink(text, i)} : i \in 0..(text.length - 1)}
           Place == UNION {Area(Cell(at, i, size)[1], Cell(at, i, size)[2], 6 * size, 8 * size) :
                             i \in 0..(text.length - 1)}
           Ground(u) == IF bg = colour THEN u ELSE SetPixels(u, 0, Place, bg)
<1>1. \A u : PrintText(u, at, text, size, colour, bg) = SetPixels(Ground(u), 0, Inked, colour)
  BY DEF PrintText
<1> HIDE DEF Inked, Place
<1>2. Covered(Ground(s)) /\ Covered(Ground(t))
  BY SetPixelsCovered, 0 \in 0..3
<1>3. Alike(Ground(s), Ground(t), p)
  BY SetPixelsAlike
<1> HIDE DEF Ground
<1>4. Alike(SetPixels(Ground(s), 0, Inked, colour), SetPixels(Ground(t), 0, Inked, colour), p)
  BY <1>2, <1>3, SetPixelsAlike
<1> QED BY <1>1, <1>4

\* A display as wide as the cutter's, and a font whose characters keep their place.
CutterDisplay ==
  /\ Width >= 84
  /\ \A text, i : Ink(text, i) \subseteq (0..5) \X (0..7)

\* A text that fits into its line stays in it.
LEMMA CellInLine ==
  ASSUME CutterDisplay, NEW x \in Nat, NEW y \in Nat, NEW n \in Nat, x + 6 * n <= 84, NEW i \in 0..(n - 1)
  PROVE  Cell(<<x, y>>, i, 1) = <<x + 6 * i, y>>
<1>1. Width \in Int /\ Width - x >= 6 * n
  BY SizeAssumption DEF CutterDisplay
<1>2. n <= (Width - x) \div 6
  BY <1>1
<1>3. i < (Width - x) \div (6 * 1)
  BY <1>2, <1>1
<1> QED BY <1>3 DEF Cell

LEMMA PrintKeeps ==
  ASSUME CutterDisplay, NEW s, Covered(s), NEW p \in Pixels,
         NEW x \in Nat, NEW y \in Nat, NEW text, text.length \in Nat, x + 6 * text.length <= 84,
         NEW colour, NEW bg, p \notin (x..(x + 6 * text.length - 1)) \X (y..(y + 7))
  PROVE  Alike(s, PrintText(s, <<x, y>>, text, 1, colour, bg), p)
<1> DEFINE at == <<x, y>>
           n == text.length
           R == (x..(x + 6 * n - 1)) \X (y..(y + 7))
           Inked == UNION {UNION {Area(Cell(at, i, 1)[1] + 1 * q[1], Cell(at, i, 1)[2] + 1 * q[2],
                                       1, 1) : q \in Ink(text, i)} : i \in 0..(n - 1)}
           Place == UNION {Area(Cell(at, i, 1)[1], Cell(at, i, 1)[2], 6 * 1, 8 * 1) :
                             i \in 0..(n - 1)}
           t == IF bg = colour THEN s ELSE SetPixels(s, 0, Place, bg)
<1>1. PrintText(s, <<x, y>>, text, 1, colour, bg) = SetPixels(t, 0, Inked, colour)
  BY DEF PrintText
<1>2. n \in Nat /\ p \notin R
  OBVIOUS
<1>3. \A i \in 0..(n - 1) : Cell(at, i, 1) = <<x + 6 * i, y>>
  BY CellInLine
<1>4. p \notin Place
  <2> SUFFICES ASSUME NEW i \in 0..(n - 1), p \in Area(Cell(at, i, 1)[1], Cell(at, i, 1)[2], 6 * 1, 8 * 1)
               PROVE  FALSE
    OBVIOUS
  <2>1. p \in Area(x + 6 * i, y, 6, 8)
    BY <1>3
  <2>2. /\ p \in ((x + 6 * i)..(x + 6 * i + 6 - 1)) \X (y..(y + 8 - 1))
        /\ 6 * i + 6 <= 6 * n
    BY <2>1, <1>2 DEF Area
  <2> QED BY <2>2, <1>2
<1>5. p \notin Inked
  <2> SUFFICES ASSUME NEW i \in 0..(n - 1), NEW q \in Ink(text, i),
                      p \in Area(Cell(at, i, 1)[1] + 1 * q[1], Cell(at, i, 1)[2] + 1 * q[2], 1, 1)
               PROVE  FALSE
    OBVIOUS
  <2>1. q \in (0..5) \X (0..7)
    BY DEF CutterDisplay
  <2>2. q[1] \in 0..5 /\ q[2] \in 0..7
    BY <2>1
  <2>3. p \in Area(x + 6 * i + q[1], y + q[2], 1, 1)
    BY <1>3, <2>2
  <2>4. /\ p \in ((x + 6 * i + q[1])..(x + 6 * i + q[1] + 1 - 1)) \X ((y + q[2])..(y + q[2] + 1 - 1))
        /\ 6 * i + 6 <= 6 * n
    BY <2>3, <1>2 DEF Area
  <2> QED BY <2>2, <2>4, <1>2
<1> HIDE DEF Inked, Place
<1>6. Covered(t) /\ Alike(s, t, p)
  BY <1>4, SetPixelsCovered, SetPixelsAlike, AlikeChain, 0 \in 0..3
<1> HIDE DEF t
<1>7. Alike(t, SetPixels(t, 0, Inked, colour), p)
  BY <1>5, <1>6, SetPixelsAlike
<1> QED BY <1>1, <1>6, <1>7, AlikeChain

LEMMA FieldAlike ==
  ASSUME NEW s, Covered(s), NEW t, Covered(t), NEW p \in Pixels, Alike(s, t, p),
         NEW x, NEW y, NEW w, NEW h, NEW at, NEW text, NEW style \in Styles
  PROVE  Alike(Field(s, x, y, w, h, style, at, text), Field(t, x, y, w, h, style, at, text), p)
<1>1. CASE style = "inverted"
  <2> DEFINE Black(u) == SetPixels(u, 0, FillRect(x, y, w, h), BLACK)
  <2>1. /\ Covered(Black(s)) /\ Covered(Black(t)) /\ Alike(Black(s), Black(t), p)
    BY SetPixelsCovered, SetPixelsAlike, 0 \in 0..3
  <2>2. \A u : Field(u, x, y, w, h, style, at, text) = PrintText(Black(u), at, text, 1, WHITE, BLACK)
    BY <1>1 DEF Field, Fill
  <2> HIDE DEF Black
  <2> QED BY <2>1, <2>2, PrintAlike
<1>2. CASE style = "framed"
  <2> DEFINE Frame(u) == SetPixels(u, 0, DrawRect(x, y, w, h), BLACK)
  <2>1. /\ Covered(Frame(s)) /\ Covered(Frame(t)) /\ Alike(Frame(s), Frame(t), p)
    BY SetPixelsCovered, SetPixelsAlike, 0 \in 0..3
  <2>2. \A u : Field(u, x, y, w, h, style, at, text) = PrintText(Frame(u), at, text, 1, BLACK, BLACK)
    BY <1>2 DEF Field
  <2> HIDE DEF Frame
  <2> QED BY <2>1, <2>2, PrintAlike
<1>3. CASE style = "static"
  <2>1. \A u : Field(u, x, y, w, h, style, at, text) = PrintText(u, at, text, 1, BLACK, BLACK)
    BY <1>3 DEF Field
  <2> QED BY <2>1, PrintAlike
<1> QED BY <1>1, <1>2, <1>3 DEF Styles

\* A field stays in its frame, if its text does.
LEMMA FieldKeeps ==
  ASSUME CutterDisplay, NEW s, Covered(s), NEW p \in Pixels,
         NEW x, NEW y, NEW w, NEW h, NEW style \in Styles,
         NEW ax \in Nat, NEW ay \in Nat, NEW text, text.length \in Nat, ax + 6 * text.length <= 84,
         p \notin (ax..(ax + 6 * text.length - 1)) \X (ay..(ay + 7)),
         p \notin FillRect(x, y, w, h), p \notin DrawRect(x, y, w, h)
  PROVE  Alike(s, Field(s, x, y, w, h, style, <<ax, ay>>, text), p)
<1> DEFINE at == <<ax, ay>>
<1>1. \A u, colour, bg : Covered(u) => Alike(u, PrintText(u, at, text, 1, colour, bg), p)
  BY PrintKeeps
<1> HIDE DEF at
<1>2. CASE style = "inverted"
  <2> DEFINE u == SetPixels(s, 0, FillRect(x, y, w, h), BLACK)
  <2>1. Covered(u) /\ Alike(s, u, p)
    BY SetPixelsCovered, SetPixelsAlike, 0 \in 0..3
  <2>2. Field(s, x, y, w, h, style, at, text) = PrintText(u, at, text, 1, WHITE, BLACK)
    BY <1>2 DEF Field, Fill
  <2> HIDE DEF u
  <2> QED BY <1>1, <2>1, <2>2, AlikeChain DEF at
<1>3. CASE style = "framed"
  <2> DEFINE u == SetPixels(s, 0, DrawRect(x, y, w, h), BLACK)
  <2>1. Covered(u) /\ Alike(s, u, p)
    BY SetPixelsCovered, SetPixelsAlike, 0 \in 0..3
  <2>2. Field(s, x, y, w, h, style, at, text) = PrintText(u, at, text, 1, BLACK, BLACK)
    BY <1>3 DEF Field
  <2> HIDE DEF u
  <2> QED BY <1>1, <2>1, <2>2, AlikeChain DEF at
<1>4. CASE style = "static"
  <2>1. Field(s, x, y, w, h, style, at, text) = PrintText(s, at, text, 1, BLACK, BLACK)
    BY <1>4 DEF Field
  <2> QED BY <1>1, <2>1 DEF at
<1> QED BY <1>2, <1>3, <1>4 DEF Styles

-----------------------------------------------------------------------------
(* The four parts of the menu *)

Row1 == (0..83) \X (0..10)
Row2 == (0..83) \X (12..22)
Row3 == (0..83) \X (24..34)
Corner == (25..57) \X (37..47)

Inputs == [number : Nat, style : Styles]
Buttons == [text : {"Start", "Stop"}, style : Styles]
Bars == -1..100

\* A part is painted on its ground, which is cleared first, and nowhere else.
LEMMA Line1Paints ==
  ASSUME CutterDisplay, NEW s, Covered(s), NEW input \in Inputs, NEW p \in Pixels
  PROVE  /\ p \notin Row1 => Alike(s, Line1(s, input), p)
         /\ \A t : Covered(t) /\ p \in Row1 => Alike(Line1(s, input), Line1(t, input), p)
<1> DEFINE x == IF input.number < 10 THEN 69 ELSE 65
           label == Text("R per kit:", 0, 10)
           Cleared(u) == Fill(u, 0, 0, 84, 11, WHITE)
           Labelled(u) == PrintText(Cleared(u), <<4, 2>>, label, 1, BLACK, BLACK)
           Whole(u) == Field(Labelled(u), 64, 0, 15, 11, input.style, <<x, 2>>, Number(input.number))
<1>1. \A u : Line1(u, input) = SendPages(Whole(u))
  BY DEF Line1
<1>2. input.style \in Styles /\ input.number \in Nat
  BY DEF Inputs
<1>3. /\ x \in Nat /\ Number(input.number).length \in Nat
      /\ 65 <= x /\ x + 6 * Number(input.number).length <= 84
  BY <1>2 DEF Number, Text, Digits
<1>4. FillRect(0, 0, 84, 11) = Row1
  BY DEF FillRect, Between, Row1
<1>5. label.length = 10
  BY DEF Text
<1> HIDE DEF x, label
<1>6. \A u : Covered(u) => Covered(Cleared(u))
  BY FillCovered
<1>7. \A u : Covered(u) => /\ p \notin Row1 => Alike(u, Cleared(u), p)
                           /\ \A t : Covered(t) /\ p \in Row1 => Alike(Cleared(u), Cleared(t), p)
  BY <1>4, SetPixelsAlike DEF Fill
<1> HIDE DEF Cleared
<1>8. \A u : Covered(u) => Covered(Labelled(u))
  BY <1>6, PrintCovered
<1>9. \A u : Covered(u) /\ p \notin Row1 => Alike(Cleared(u), Labelled(u), p)
  <2>1. p \notin Row1 => p \notin (4..(4 + 6 * label.length - 1)) \X (2..(2 + 7))
    BY <1>5 DEF Row1
  <2>2. 4 + 6 * label.length <= 84 /\ label.length \in Nat /\ 4 \in Nat /\ 2 \in Nat
    BY <1>5
  <2> QED BY <1>6, <2>1, <2>2, PrintKeeps
<1>10. \A u, t : Covered(u) /\ Covered(t) /\ Alike(Cleared(u), Cleared(t), p) => Alike(Labelled(u), Labelled(t), p)
  BY <1>6, PrintAlike
<1> HIDE DEF Labelled
<1>11. \A u : Covered(u) => Covered(Whole(u))
  BY <1>2, <1>8, FieldCovered DEF Styles
<1>12. \A u : Covered(u) /\ p \notin Row1 => Alike(Labelled(u), Whole(u), p)
  <2>1. p \notin Row1 => /\ p \notin (x..(x + 6 * Number(input.number).length - 1)) \X (2..(2 + 7))
                         /\ p \notin FillRect(64, 0, 15, 11) /\ p \notin DrawRect(64, 0, 15, 11)
    BY <1>3 DEF Row1, FillRect, DrawRect, HLine, VLine, Between
  <2> QED BY <1>2, <1>3, <1>8, <2>1, 2 \in Nat, FieldKeeps
<1>13. \A u, t : Covered(u) /\ Covered(t) /\ Alike(Labelled(u), Labelled(t), p) => Alike(Whole(u), Whole(t), p)
  BY <1>2, <1>8, FieldAlike
<1> HIDE DEF Whole
<1>14. \A u : Covered(u) => Alike(Whole(u), Line1(u, input), p)
  BY <1>1, <1>11, SendPagesAlike
<1>15. p \notin Row1 => Alike(s, Line1(s, input), p)
  BY <1>7, <1>9, <1>12, <1>14, AlikeChain
<1>16. ASSUME NEW t, Covered(t), p \in Row1 PROVE Alike(Line1(s, input), Line1(t, input), p)
  BY <1>7, <1>10, <1>13, <1>14, <1>16, AlikeChain
<1> QED BY <1>15, <1>16

LEMMA Line2Paints ==
  ASSUME CutterDisplay, NEW s, Covered(s), NEW input \in Inputs, NEW p \in Pixels
  PROVE  /\ p \notin Row2 => Alike(s, Line2(s, input), p)
         /\ \A t : Covered(t) /\ p \in Row2 => Alike(Line2(s, input), Line2(t, input), p)
<1> DEFINE x == IF input.number < 10 THEN 55 ELSE 52
           label == Text("Kits:", 0, 5)
           Cleared(u) == Fill(u, 0, 12, 84, 11, WHITE)
           Labelled(u) == PrintText(Cleared(u), <<20, 14>>, label, 1, BLACK, BLACK)
           Whole(u) == Field(Labelled(u), 50, 12, 15, 11, input.style, <<x, 14>>, Number(input.number))
<1>1. \A u : Line2(u, input) = SendPages(Whole(u))
  BY DEF Line2
<1>2. input.style \in Styles /\ input.number \in Nat
  BY DEF Inputs
<1>3. /\ x \in Nat /\ Number(input.number).length \in Nat
      /\ 52 <= x /\ x + 6 * Number(input.number).length <= 84
  BY <1>2 DEF Number, Text, Digits
<1>4. FillRect(0, 12, 84, 11) = Row2
  BY DEF FillRect, Between, Row2
<1>5. label.length = 5
  BY DEF Text
<1> HIDE DEF x, label
<1>6. \A u : Covered(u) => Covered(Cleared(u))
  BY FillCovered
<1>7. \A u : Covered(u) => /\ p \notin Row2 => Alike(u, Cleared(u), p)
                           /\ \A t : Covered(t) /\ p \in Row2 => Alike(Cleared(u), Cleared(t), p)
  BY <1>4, SetPixelsAlike DEF Fill
<1> HIDE DEF Cleared
<1>8. \A u : Covered(u) => Covered(Labelled(u))
  BY <1>6, PrintCovered
<1>9. \A u : Covered(u) /\ p \notin Row2 => Alike(Cleared(u), Labelled(u), p)
  <2>1. p \notin Row2 => p \notin (20..(20 + 6 * label.length - 1)) \X (14..(14 + 7))
    BY <1>5 DEF Row2
  <2>2. 20 + 6 * label.length <= 84 /\ label.length \in Nat /\ 20 \in Nat /\ 14 \in Nat
    BY <1>5
  <2> QED BY <1>6, <2>1, <2>2, PrintKeeps
<1>10. \A u, t : Covered(u) /\ Covered(t) /\ Alike(Cleared(u), Cleared(t), p) => Alike(Labelled(u), Labelled(t), p)
  BY <1>6, PrintAlike
<1> HIDE DEF Labelled
<1>11. \A u : Covered(u) => Covered(Whole(u))
  BY <1>2, <1>8, FieldCovered DEF Styles
<1>12. \A u : Covered(u) /\ p \notin Row2 => Alike(Labelled(u), Whole(u), p)
  <2>1. p \notin Row2 => /\ p \notin (x..(x + 6 * Number(input.number).length - 1)) \X (14..(14 + 7))
                         /\ p \notin FillRect(50, 12, 15, 11) /\ p \notin DrawRect(50, 12, 15, 11)
    BY <1>3 DEF Row2, FillRect, DrawRect, HLine, VLine, Between
  <2> QED BY <1>2, <1>3, <1>8, <2>1, 14 \in Nat, FieldKeeps
<1>13. \A u, t : Covered(u) /\ Covered(t) /\ Alike(Labelled(u), Labelled(t), p) => Alike(Whole(u), Whole(t), p)
  BY <1>2, <1>8, FieldAlike
<1> HIDE DEF Whole
<1>14. \A u : Covered(u) => Alike(Whole(u), Line2(u, input), p)
  BY <1>1, <1>11, SendPagesAlike
<1>15. p \notin Row2 => Alike(s, Line2(s, input), p)
  BY <1>7, <1>9, <1>12, <1>14, AlikeChain
<1>16. ASSUME NEW t, Covered(t), p \in Row2 PROVE Alike(Line2(s, input), Line2(t, input), p)
  BY <1>7, <1>10, <1>13, <1>14, <1>16, AlikeChain
<1> QED BY <1>15, <1>16

LEMMA ButtonPaints ==
  ASSUME CutterDisplay, NEW s, Covered(s), NEW button \in Buttons, NEW p \in Pixels
  PROVE  /\ p \notin Corner => Alike(s, Button(s, button), p)
         /\ \A t : Covered(t) /\ p \in Corner => Alike(Button(s, button), Button(t, button), p)
<1> DEFINE x == IF button.text = "Stop" THEN 30 ELSE 27
           label == Text(button.text, 0, IF button.text = "Stop" THEN 4 ELSE 5)
           Cleared(u) == Fill(u, 25, 37, 33, 11, WHITE)
           Whole(u) == Field(Cleared(u), 25, 37, 33, 11, button.style, <<x, 39>>, label)
<1>1. \A u : Button(u, button) = SendPages(Whole(u))
  <2>1. <<x, 39>> = IF button.text = "Stop" THEN <<30, 39>> ELSE <<27, 39>>
    OBVIOUS
  <2> QED BY <2>1 DEF Button
<1>2. button.style \in Styles
  BY DEF Buttons
<1>3. /\ x \in Nat /\ label.length \in Nat
      /\ 27 <= x /\ x + 6 * label.length <= 57
  BY DEF Text
<1>4. FillRect(25, 37, 33, 11) = Corner
  BY DEF FillRect, Between, Corner
<1> HIDE DEF x, label
<1>6. \A u : Covered(u) => Covered(Cleared(u))
  BY FillCovered
<1>7. \A u : Covered(u) => /\ p \notin Corner => Alike(u, Cleared(u), p)
                           /\ \A t : Covered(t) /\ p \in Corner => Alike(Cleared(u), Cleared(t), p)
  BY <1>4, SetPixelsAlike DEF Fill
<1> HIDE DEF Cleared
<1>11. \A u : Covered(u) => Covered(Whole(u))
  BY <1>2, <1>6, FieldCovered DEF Styles
<1>12. \A u : Covered(u) /\ p \notin Corner => Alike(Cleared(u), Whole(u), p)
  <2>1. p \notin Corner => /\ p \notin (x..(x + 6 * label.length - 1)) \X (39..(39 + 7))
                           /\ p \notin FillRect(25, 37, 33, 11) /\ p \notin DrawRect(25, 37, 33, 11)
    BY <1>3 DEF Corner, FillRect, DrawRect, HLine, VLine, Between
  <2>2. x + 6 * label.length <= 84 /\ 39 \in Nat
    BY <1>3
  <2> QED BY <1>2, <1>3, <1>6, <2>1, <2>2, FieldKeeps
<1>13. \A u, t : Covered(u) /\ Covered(t) /\ Alike(Cleared(u), Cleared(t), p) => Alike(Whole(u), Whole(t), p)
  BY <1>2, <1>6, FieldAlike
<1> HIDE DEF Whole
<1>14. \A u : Covered(u) => Alike(Whole(u), Button(u, button), p)
  BY <1>1, <1>11, SendPagesAlike
<1>15. p \notin Corner => Alike(s, Button(s, button), p)
  BY <1>7, <1>12, <1>14, AlikeChain
<1>16. ASSUME NEW t, Covered(t), p \in Corner PROVE Alike(Button(s, button), Button(t, button), p)
  BY <1>7, <1>13, <1>14, <1>16, AlikeChain
<1> QED BY <1>15, <1>16

LEMMA ProgressPaints ==
  ASSUME CutterDisplay, NEW s, Covered(s), NEW bar \in Bars, NEW p \in Pixels
  PROVE  /\ p \notin Row3 => Alike(s, Progress(s, bar), p)
         /\ \A t : Covered(t) /\ p \in Row3 => Alike(Progress(s, bar), Progress(t, bar), p)
<1> DEFINE x == IF bar < 10 THEN 36 ELSE IF bar < 100 THEN 33 ELSE 30
           w == (bar * 75) \div 100
           Cleared(u) == Fill(u, 0, 24, 84, 11, WHITE)
           Framed(u) == SetPixels(Cleared(u), 0, DrawRect(4, 24, 77, 11), BLACK)
           Printed(u) == PrintText(Framed(u), <<x, 26>>, Percentage(bar), 1, BLACK, BLACK)
           Whole(u) == InvertRect(Printed(u), 0, 5, 25, w, 9)
<1>1. \A u : Progress(u, bar) = SendPages(Whole(u))
  BY DEF Progress, D!NoBar, Bars
<1>2. /\ x \in Nat /\ Percentage(bar).length \in Nat
      /\ 30 <= x /\ x + 6 * Percentage(bar).length <= 84
  BY DEF Bars, Percentage, Text, Digits
<1>3. w \in Int /\ w <= 75
  BY DEF Bars
<1>4. FillRect(0, 24, 84, 11) = Row3
  BY DEF FillRect, Between, Row3
<1> HIDE DEF x, w
<1>5. \A u : Covered(u) => Covered(Cleared(u))
  BY FillCovered
<1>6. \A u : Covered(u) => /\ p \notin Row3 => Alike(u, Cleared(u), p)
                           /\ \A t : Covered(t) /\ p \in Row3 => Alike(Cleared(u), Cleared(t), p)
  BY <1>4, SetPixelsAlike DEF Fill
<1> HIDE DEF Cleared
<1>7. \A u : Covered(u) => Covered(Framed(u))
  BY <1>5, SetPixelsCovered, 0 \in 0..3
<1>8. \A u : Covered(u) /\ p \notin Row3 => Alike(Cleared(u), Framed(u), p)
  <2>1. p \notin Row3 => p \notin DrawRect(4, 24, 77, 11)
    BY DEF Row3, DrawRect, HLine, VLine, Between
  <2> QED BY <1>5, <2>1, SetPixelsAlike
<1>9. \A u, t : Covered(u) /\ Covered(t) /\ Alike(Cleared(u), Cleared(t), p) => Alike(Framed(u), Framed(t), p)
  BY <1>5, SetPixelsAlike
<1> HIDE DEF Framed
<1>10. \A u : Covered(u) => Covered(Printed(u))
  BY <1>7, PrintCovered
<1>11. \A u : Covered(u) /\ p \notin Row3 => Alike(Framed(u), Printed(u), p)
  <2>1. p \notin Row3 => p \notin (x..(x + 6 * Percentage(bar).length - 1)) \X (26..(26 + 7))
    BY <1>2 DEF Row3
  <2> QED BY <1>2, <1>7, <2>1, 26 \in Nat, PrintKeeps
<1>12. \A u, t : Covered(u) /\ Covered(t) /\ Alike(Framed(u), Framed(t), p) => Alike(Printed(u), Printed(t), p)
  BY <1>7, PrintAlike
<1> HIDE DEF Printed
<1>13. \A u : Covered(u) => Covered(Whole(u))
  BY <1>10, InvertRectCovered, 0 \in 0..3
<1>14. \A u : Covered(u) /\ p \notin Row3 => Alike(Printed(u), Whole(u), p)
  <2>1. p \notin Row3 => p \notin Area(5, 25, w, 9)
    BY <1>3 DEF Row3, Area
  <2> QED BY <1>10, <2>1, InvertRectAlike
<1>15. \A u, t : Covered(u) /\ Covered(t) /\ Alike(Printed(u), Printed(t), p) => Alike(Whole(u), Whole(t), p)
  BY <1>10, InvertRectAlike
<1> HIDE DEF Whole
<1>16. \A u : Covered(u) => Alike(Whole(u), Progress(u, bar), p)
  BY <1>1, <1>13, SendPagesAlike
<1>17. p \notin Row3 => Alike(s, Progress(s, bar), p)
  BY <1>6, <1>8, <1>11, <1>14, <1>16, AlikeChain
<1>18. ASSUME NEW t, Covered(t), p \in Row3 PROVE Alike(Progress(s, bar), Progress(t, bar), p)
  BY <1>6, <1>9, <1>12, <1>15, <1>16, <1>18, AlikeChain
<1> QED BY <1>17, <1>18

MenuViews == [view : {"menu"}, rPerKit : Inputs, kits : Inputs, bar : Bars \cup {D!NoBar}, button : Buttons]

\* Without a bar nothing is painted.
LEMMA AnyBarPaints ==
  ASSUME CutterDisplay, NEW s, Covered(s), NEW bar \in Bars \cup {D!NoBar}, NEW p \in Pixels
  PROVE  /\ p \notin Row3 => Alike(s, Progress(s, bar), p)
         /\ \A t : Covered(t) /\ Alike(s, t, p) => Alike(Progress(s, bar), Progress(t, bar), p)
<1>1. CASE bar = D!NoBar
  <2>1. \A u : Progress(u, bar) = u
    BY <1>1 DEF Progress
  <2> QED BY <2>1, AlikeChain
<1>2. CASE bar \in Bars
  <2>1. \A u : Covered(u) => (p \notin Row3 => Alike(u, Progress(u, bar), p))
    BY <1>2, ProgressPaints
  <2>2. \A t : Covered(t) /\ p \in Row3 => Alike(Progress(s, bar), Progress(t, bar), p)
    BY <1>2, ProgressPaints
  <2> QED BY <2>1, <2>2, AlikeChain
<1> QED BY <1>1, <1>2

\* The parts do not touch, so that each one can be read off the menu.
LEMMA RowsApart ==
  ASSUME NEW p \in Pixels
  PROVE  /\ ~(p \in Row1 /\ p \in Row2) /\ ~(p \in Row1 /\ p \in Row3) /\ ~(p \in Row2 /\ p \in Row3)
         /\ p \in Corner => p \notin Row1 /\ p \notin Row2 /\ p \notin Row3
BY DEF Row1, Row2, Row3, Corner

LEMMA MenuAt ==
  ASSUME CutterDisplay, NEW s, Covered(s), NEW view \in MenuViews, NEW p \in Pixels
  PROVE  /\ p \in Row1 => Alike(Menu(s, view), Line1(s, view.rPerKit), p)
         /\ p \in Row2 => Alike(Menu(s, view), Line2(s, view.kits), p)
         /\ p \in Row3 => Alike(Menu(s, view), Progress(s, view.bar), p)
         /\ p \in Corner => Alike(Menu(s, view), Button(s, view.button), p)
         /\ p \notin Row1 \cup Row2 \cup Row3 \cup Corner => Alike(Menu(s, view), s, p)
<1> DEFINE a == Line1(s, view.rPerKit)
           b == Line2(a, view.kits)
           c == Progress(b, view.bar)
           d == Button(c, view.button)
<1>1. /\ view.rPerKit \in Inputs /\ view.kits \in Inputs /\ view.button \in Buttons
      /\ view.bar \in Bars \cup {D!NoBar}
  BY DEF MenuViews
<1>2. view.rPerKit.style \in Styles /\ view.kits.style \in Styles /\ view.button.style \in Styles
  BY <1>1 DEF Inputs, Buttons
<1>3. Menu(s, view) = d
  BY DEF Menu
<1>4. Covered(a) /\ (p \notin Row1 => Alike(s, a, p))
  BY <1>1, <1>2, Line1Covered, Line1Paints
<1> HIDE DEF a
<1>5. /\ Covered(b) /\ (p \notin Row2 => Alike(a, b, p))
      /\ p \in Row2 => Alike(b, Line2(s, view.kits), p)
  BY <1>1, <1>2, <1>4, Line2Covered, Line2Paints
<1> HIDE DEF b
<1>6. /\ Covered(c) /\ (p \notin Row3 => Alike(b, c, p))
      /\ Alike(b, s, p) => Alike(c, Progress(s, view.bar), p)
  BY <1>1, <1>5, ProgressCovered, AnyBarPaints
<1> HIDE DEF c
<1>7. /\ p \notin Corner => Alike(c, d, p)
      /\ p \in Corner => Alike(d, Button(s, view.button), p)
  BY <1>1, <1>6, ButtonPaints
<1> HIDE DEF d
<1>8. CASE p \in Row1
  BY <1>3, <1>5, <1>6, <1>7, <1>8, RowsApart, AlikeChain DEF a
<1>9. CASE p \in Row2
  BY <1>3, <1>5, <1>6, <1>7, <1>9, RowsApart, AlikeChain
<1>10. CASE p \in Row3
  BY <1>3, <1>4, <1>5, <1>6, <1>7, <1>10, RowsApart, AlikeChain
<1>11. CASE p \in Corner
  BY <1>3, <1>7, <1>11, RowsApart
<1>12. CASE p \notin Row1 \cup Row2 \cup Row3 \cup Corner
  BY <1>3, <1>4, <1>5, <1>6, <1>7, <1>12, AlikeChain
<1> QED BY <1>8, <1>9, <1>10, <1>11, <1>12

\* Two menus differ only where the parts do that are not the same.
LEMMA MenusDiffer ==
  ASSUME CutterDisplay, NEW s, Covered(s), NEW v \in MenuViews, NEW w \in MenuViews, NEW p \in Pixels,
         p \in Row1 => v.rPerKit = w.rPerKit, p \in Row2 => v.kits = w.kits,
         p \in Row3 => v.bar = w.bar, p \in Corner => v.button = w.button
  PROVE  Alike(Menu(s, v), Menu(s, w), p)
<1>1. CASE p \in Row1
  BY <1>1, MenuAt, AlikeChain
<1>2. CASE p \in Row2
  BY <1>2, MenuAt, AlikeChain
<1>3. CASE p \in Row3
  BY <1>3, MenuAt, AlikeChain
<1>4. CASE p \in Corner
  BY <1>4, MenuAt, AlikeChain
<1>5. CASE p \notin Row1 \cup Row2 \cup Row3 \cup Corner
  BY <1>5, MenuAt, AlikeChain
<1> QED BY <1>1, <1>2, <1>3, <1>4, <1>5

LEMMA MenuAlike ==
  ASSUME CutterDisplay, NEW s, Covered(s), NEW t, Covered(t), NEW view \in MenuViews,
         NEW p \in Pixels, Alike(s, t, p)
  PROVE  Alike(Menu(s, view), Menu(t, view), p)
<1>1. /\ view.rPerKit \in Inputs /\ view.kits \in Inputs /\ view.button \in Buttons
      /\ view.bar \in Bars \cup {D!NoBar}
  BY DEF MenuViews
<1>2. CASE p \in Row1
  <2>1. Alike(Line1(s, view.rPerKit), Line1(t, view.rPerKit), p)
    BY <1>1, <1>2, Line1Paints
  <2>2. /\ Alike(Menu(s, view), Line1(s, view.rPerKit), p)
        /\ Alike(Menu(t, view), Line1(t, view.rPerKit), p)
    BY <1>2, MenuAt
  <2> QED BY <2>1, <2>2, AlikeChain
<1>3. CASE p \in Row2
  <2>1. Alike(Line2(s, view.kits), Line2(t, view.kits), p)
    BY <1>1, <1>3, Line2Paints
  <2>2. /\ Alike(Menu(s, view), Line2(s, view.kits), p)
        /\ Alike(Menu(t, view), Line2(t, view.kits), p)
    BY <1>3, MenuAt
  <2> QED BY <2>1, <2>2, AlikeChain
<1>4. CASE p \in Row3
  <2>1. Alike(Progress(s, view.bar), Progress(t, view.bar), p)
    BY <1>1, AnyBarPaints
  <2>2. /\ Alike(Menu(s, view), Progress(s, view.bar), p)
        /\ Alike(Menu(t, view), Progress(t, view.bar), p)
    BY <1>4, MenuAt
  <2> QED BY <2>1, <2>2, AlikeChain
<1>5. CASE p \in Corner
  <2>1. Alike(Button(s, view.button), Button(t, view.button), p)
    BY <1>1, <1>5, ButtonPaints
  <2>2. /\ Alike(Menu(s, view), Button(s, view.button), p)
        /\ Alike(Menu(t, view), Button(t, view.button), p)
    BY <1>5, MenuAt
  <2> QED BY <2>1, <2>2, AlikeChain
<1>6. CASE p \notin Row1 \cup Row2 \cup Row3 \cup Corner
  BY <1>6, MenuAt, AlikeChain
<1> QED BY <1>2, <1>3, <1>4, <1>5, <1>6

LEMMA PausedAlike ==
  ASSUME NEW s, Covered(s), NEW t, Covered(t), NEW p \in Pixels, Alike(s, t, p)
  PROVE  Alike(Paused(s), Paused(t), p)
<1> DEFINE title(u) == PrintText(u, <<7, 0>>, Text("PAUSED", 0, 6), 2, BLACK, BLACK)
           line(u) == SetPixels(title(u), 0, HLine(0, 15, 85), BLACK)
           text(u) == PrintText(line(u), <<0, 17>>, Text("Safety switch flipped", 0, 42), 1, BLACK, BLACK)
           all(u) == PrintText(text(u), <<0, 41>>, Text("the issue!", 0, 10), 1, BLACK, BLACK)
<1>1. \A u : Paused(u) = SendPages(all(u))
  BY DEF Paused
<1>2. Covered(title(s)) /\ Covered(title(t)) /\ Alike(title(s), title(t), p)
  BY PrintCovered, PrintAlike
<1> HIDE DEF title
<1>3. Covered(line(s)) /\ Covered(line(t)) /\ Alike(line(s), line(t), p)
  BY <1>2, SetPixelsCovered, SetPixelsAlike, 0 \in 0..3
<1> HIDE DEF line
<1>4. Covered(text(s)) /\ Covered(text(t)) /\ Alike(text(s), text(t), p)
  BY <1>3, PrintCovered, PrintAlike
<1> HIDE DEF text
<1>5. Covered(all(s)) /\ Covered(all(t)) /\ Alike(all(s), all(t), p)
  BY <1>4, PrintCovered, PrintAlike
<1> HIDE DEF all
<1> QED BY <1>1, <1>5, SendPagesAlike, AlikeChain

-----------------------------------------------------------------------------
(* What is shown *)

\* The chip shows the picture of what is shown.
Shows(s, view) ==
  view # Nothing =>
    /\ view \in MenuViews \cup {D!ShowPaused}
    /\ s.lcd = s.buffer /\ s.buffer = PictureOf(view)

LEMMA BlankCovered == Covered(Blank) /\ Blank.buffer = {}
BY FullBoxCovers DEF Blank, Covered, Screens, Stale

LEMMA SameBuffer ==
  ASSUME NEW s, Covered(s), NEW t, Covered(t), \A p \in Pixels : Alike(s, t, p)
  PROVE  s.buffer = t.buffer
BY DEF Covered, Screens, Alike

LEMMA ViewKinds ==
  /\ \A view \in MenuViews : view.view = "menu" /\ view # Nothing
  /\ D!ShowPaused.view = "paused" /\ D!ShowPaused # Nothing /\ Nothing.view = "none"
  /\ "menu" # "paused" /\ "menu" # "none"
<1>1. /\ \A view \in MenuViews : view.view = "menu"
      /\ D!ShowPaused.view = "paused" /\ Nothing.view = "none"
  BY DEF MenuViews, D!ShowPaused, Nothing
<1>2. "menu" # "paused" /\ "menu" # "none" /\ "paused" # "none"
  OBVIOUS
<1> QED BY <1>1, <1>2

LEMMA ViewsProper ==
  ASSUME NEW view \in Views
  PROVE  view \in MenuViews \cup {D!ShowPaused}
<1>1. PICK h \in 0..2, r \in RPerKits, k \in Kits, q \in Percents, running \in 0..2 :
        view = D!UpdateAll(h, r, k, q, running)
  BY DEF Views
<1>2. CASE running = 2
  BY <1>1, <1>2 DEF D!UpdateAll
<1>3. CASE running # 2
  <2>1. view = [view |-> "menu", rPerKit |-> D!PrintLn(r, h = 0, running),
                kits |-> D!PrintLn(k, h = 1, running), bar |-> D!Bar(q, running),
                button |-> D!PrintButton(h = 2, running)]
    BY <1>1, <1>3 DEF D!UpdateAll
  <2>2. r \in Nat /\ k \in Nat /\ q \in Nat \cup {-1}
    BY ValuesAssumption
  <2>3. D!Bar(q, running) \in Bars \cup {D!NoBar}
    BY <2>2 DEF D!Bar, Bars, D!FullBar
  <2>4. D!PrintLn(r, h = 0, running) \in Inputs /\ D!PrintLn(k, h = 1, running) \in Inputs
    BY <2>2 DEF D!PrintLn, Inputs, Styles
  <2>5. D!PrintButton(h = 2, running) \in Buttons
    BY DEF D!PrintButton, Buttons, Styles
  <2> QED BY <2>1, <2>3, <2>4, <2>5 DEF MenuViews
<1> QED BY <1>2, <1>3

LEMMA PictureOfMenu ==
  ASSUME NEW view \in MenuViews
  PROVE  PictureOf(view) = Menu(Blank, view).buffer
BY ViewKinds DEF PictureOf

\* One part of a menu that is shown is drawn anew.
LEMMA PartShown ==
  ASSUME CutterDisplay, NEW s, Covered(s), NEW v \in MenuViews, Shows(s, v),
         NEW w \in MenuViews, NEW t, Covered(t), t.lcd = t.buffer,
         \A p \in Pixels : \/ Alike(s, t, p) /\ Alike(Menu(Blank, v), Menu(Blank, w), p)
                           \/ Alike(t, Menu(Blank, w), p)
  PROVE  Shows(t, w)
<1>1. Covered(Menu(Blank, v)) /\ Covered(Menu(Blank, w))
  BY BlankCovered, MenuCovered, ViewKinds DEF MenuViews, Inputs, Buttons, Sound
<1>2. s.buffer = Menu(Blank, v).buffer
  BY PictureOfMenu, ViewKinds DEF Shows
<1>3. \A p \in Pixels : Alike(s, Menu(Blank, v), p)
  BY <1>2 DEF Alike
<1>4. \A p \in Pixels : Alike(t, Menu(Blank, w), p)
  BY <1>3, AlikeChain
<1>5. t.buffer = Menu(Blank, w).buffer
  BY <1>1, <1>4, SameBuffer
<1> QED BY <1>5, PictureOfMenu DEF Shows

LEMMA ScreenShown ==
  ASSUME CutterDisplay, ScreenInv, Shows(screen, shown), DisplayCall
  PROVE  Shows(screen, shown)'
<1> USE ViewKinds
<1>1. pen = Ready /\ Covered(screen)
  BY PenKinds DEF DisplayCall, UpdateAll, PrintLn1, PrintLn2, PrintProgress, PrintButton, Show, ScreenInv
<1>2. ASSUME NEW view \in Views, UpdateAll(view) PROVE Shows(screen, shown)'
  <2> DEFINE clear == ClearDisplay(screen)
  <2>1. Covered(clear) /\ clear.buffer = {}
    BY <1>1, ClearCovered DEF ClearDisplay, Covered, Screens
  <2>2. \A p \in Pixels : Alike(clear, Blank, p)
    BY <2>1, BlankCovered DEF Alike
  <2>3. shown' = view /\ screen' = IF view.view = "paused" THEN Paused(clear) ELSE Menu(clear, view)
    BY <1>2 DEF UpdateAll, Show
  <2> HIDE DEF clear
  <2>4. CASE view = D!ShowPaused
    <3>1. \A p \in Pixels : Alike(Paused(clear), Paused(Blank), p)
      BY <2>1, <2>2, BlankCovered, PausedAlike
    <3>2. /\ Covered(Paused(clear)) /\ Covered(Paused(Blank))
          /\ Paused(clear).lcd = Paused(clear).buffer
      BY <2>1, BlankCovered, PausedCovered
    <3>3. Paused(clear).buffer = Paused(Blank).buffer
      BY <3>1, <3>2, SameBuffer
    <3>4. PictureOf(view) = Paused(Blank).buffer
      BY <2>4 DEF PictureOf
    <3> QED BY <2>3, <2>4, <3>2, <3>3, <3>4 DEF Shows
  <2>5. CASE view \in MenuViews
    <3>1. \A p \in Pixels : Alike(Menu(clear, view), Menu(Blank, view), p)
      BY <2>1, <2>2, <2>5, BlankCovered, MenuAlike
    <3>2. /\ Covered(Menu(clear, view)) /\ Covered(Menu(Blank, view))
          /\ Menu(clear, view).lcd = Menu(clear, view).buffer
      BY <2>1, <2>5, BlankCovered, MenuCovered DEF MenuViews, Inputs, Buttons, Sound
    <3>3. Menu(clear, view).buffer = Menu(Blank, view).buffer
      BY <3>1, <3>2, SameBuffer
    <3> QED BY <2>3, <2>5, <3>2, <3>3, PictureOfMenu DEF Shows
  <2> QED BY <2>4, <2>5, ViewsProper
<1>3. ASSUME OnMenu PROVE shown \in MenuViews
  BY <1>3 DEF OnMenu, Shows
<1>4. ASSUME NEW n \in RPerKits, NEW h \in BOOLEAN, NEW running, PrintLn1(n, h, running)
      PROVE  Shows(screen, shown)'
  <2> DEFINE input == D!PrintLn(n, h, running)
             view == [shown EXCEPT !.rPerKit = input]
  <2>1. screen' = Line1(screen, input) /\ shown' = view /\ shown \in MenuViews
    BY <1>3, <1>4 DEF PrintLn1, Show
  <2>2. input \in Inputs /\ input.style \in Styles
    BY ValuesAssumption DEF D!PrintLn, Inputs, Styles
  <2> HIDE DEF input
  <2>3. /\ view \in MenuViews /\ view.rPerKit = input
        /\ view.kits = shown.kits /\ view.bar = shown.bar /\ view.button = shown.button
    BY <2>1, <2>2 DEF MenuViews
  <2> HIDE DEF view
  <2>4. /\ Covered(Line1(screen, input)) /\ Line1(screen, input).lcd = Line1(screen, input).buffer
        /\ Covered(Blank)
    BY <1>1, <2>2, Line1Covered, BlankCovered
  <2>5. ASSUME NEW p \in Pixels, p \in Row1 PROVE Alike(Line1(screen, input), Menu(Blank, view), p)
    <3>1. Alike(Line1(screen, input), Line1(Blank, input), p)
      BY <1>1, <2>2, <2>4, <2>5, Line1Paints
    <3>2. Alike(Menu(Blank, view), Line1(Blank, input), p)
      BY <2>3, <2>4, <2>5, MenuAt
    <3> QED BY <3>1, <3>2, AlikeChain
  <2>6. ASSUME NEW p \in Pixels, p \notin Row1
        PROVE  Alike(screen, Line1(screen, input), p) /\ Alike(Menu(Blank, shown), Menu(Blank, view), p)
    BY <1>1, <2>1, <2>2, <2>3, <2>4, <2>6, Line1Paints, MenusDiffer
  <2>7. Shows(Line1(screen, input), view)
    BY <1>1, <2>1, <2>3, <2>4, <2>5, <2>6, PartShown
  <2> QED BY <2>1, <2>7 DEF Shows
<1>5. ASSUME NEW n \in Kits, NEW h \in BOOLEAN, NEW running, PrintLn2(n, h, running)
      PROVE  Shows(screen, shown)'
  <2> DEFINE input == D!PrintLn(n, h, running)
             view == [shown EXCEPT !.kits = input]
  <2>1. screen' = Line2(screen, input) /\ shown' = view /\ shown \in MenuViews
    BY <1>3, <1>5 DEF PrintLn2, Show
  <2>2. input \in Inputs /\ input.style \in Styles
    BY ValuesAssumption DEF D!PrintLn, Inputs, Styles
  <2> HIDE DEF input
  <2>3. /\ view \in MenuViews /\ view.kits = input
        /\ view.rPerKit = shown.rPerKit /\ view.bar = shown.bar /\ view.button = shown.button
    BY <2>1, <2>2 DEF MenuViews
  <2> HIDE DEF view
  <2>4. /\ Covered(Line2(screen, input)) /\ Line2(screen, input).lcd = Line2(screen, input).buffer
        /\ Covered(Blank)
    BY <1>1, <2>2, Line2Covered, BlankCovered
  <2>5. ASSUME NEW p \in Pixels, p \in Row2 PROVE Alike(Line2(screen, input), Menu(Blank, view), p)
    <3>1. Alike(Line2(screen, input), Line2(Blank, input), p)
      BY <1>1, <2>2, <2>4, <2>5, Line2Paints
    <3>2. Alike(Menu(Blank, view), Line2(Blank, input), p)
      BY <2>3, <2>4, <2>5, MenuAt
    <3> QED BY <3>1, <3>2, AlikeChain
  <2>6. ASSUME NEW p \in Pixels, p \notin Row2
        PROVE  Alike(screen, Line2(screen, input), p) /\ Alike(Menu(Blank, shown), Menu(Blank, view), p)
    BY <1>1, <2>1, <2>2, <2>3, <2>4, <2>6, Line2Paints, MenusDiffer
  <2>7. Shows(Line2(screen, input), view)
    BY <1>1, <2>1, <2>3, <2>4, <2>5, <2>6, PartShown
  <2> QED BY <2>1, <2>7 DEF Shows
<1>6. ASSUME NEW h \in BOOLEAN, NEW running, PrintButton(h, running)
      PROVE  Shows(screen, shown)'
  <2> DEFINE button == D!PrintButton(h, running)
             view == [shown EXCEPT !.button = button]
  <2>1. screen' = Button(screen, button) /\ shown' = view /\ shown \in MenuViews
    BY <1>3, <1>6 DEF PrintButton, Show
  <2>2. button \in Buttons /\ button.style \in Styles
    BY DEF D!PrintButton, Buttons, Styles
  <2> HIDE DEF button
  <2>3. /\ view \in MenuViews /\ view.button = button
        /\ view.rPerKit = shown.rPerKit /\ view.bar = shown.bar /\ view.kits = shown.kits
    BY <2>1, <2>2 DEF MenuViews
  <2> HIDE DEF view
  <2>4. /\ Covered(Button(screen, button)) /\ Button(screen, button).lcd = Button(screen, button).buffer
        /\ Covered(Blank)
    BY <1>1, <2>2, ButtonCovered, BlankCovered
  <2>5. ASSUME NEW p \in Pixels, p \in Corner PROVE Alike(Button(screen, button), Menu(Blank, view), p)
    <3>1. Alike(Button(screen, button), Button(Blank, button), p)
      BY <1>1, <2>2, <2>4, <2>5, ButtonPaints
    <3>2. Alike(Menu(Blank, view), Button(Blank, button), p)
      BY <2>3, <2>4, <2>5, MenuAt
    <3> QED BY <3>1, <3>2, AlikeChain
  <2>6. ASSUME NEW p \in Pixels, p \notin Corner
        PROVE  Alike(screen, Button(screen, button), p) /\ Alike(Menu(Blank, shown), Menu(Blank, view), p)
    BY <1>1, <2>1, <2>2, <2>3, <2>4, <2>6, ButtonPaints, MenusDiffer
  <2>7. Shows(Button(screen, button), view)
    BY <1>1, <2>1, <2>3, <2>4, <2>5, <2>6, PartShown
  <2> QED BY <2>1, <2>7 DEF Shows
<1>7. ASSUME NEW q \in Percents, PrintProgress(q) PROVE Shows(screen, shown)'
  <2> DEFINE bar == D!Bar(q, 1)
             view == [shown EXCEPT !.bar = bar]
  <2>1. shown' = view /\ shown \in MenuViews /\ screen' = Progress(screen, view.bar)
    BY <1>3, <1>7 DEF PrintProgress, Show, D!PrintProgress
  <2>2. bar \in Bars /\ bar # D!NoBar
    BY ValuesAssumption DEF D!Bar, Bars, D!FullBar, D!NoBar
  <2> HIDE DEF bar
  <2>3. /\ view \in MenuViews /\ view.bar = bar
        /\ view.rPerKit = shown.rPerKit /\ view.button = shown.button /\ view.kits = shown.kits
    BY <2>1, <2>2 DEF MenuViews
  <2> HIDE DEF view
  <2>4. /\ Covered(Progress(screen, bar)) /\ Progress(screen, bar).lcd = Progress(screen, bar).buffer
        /\ Covered(Blank)
    BY <1>1, <2>2, ProgressCovered, BlankCovered
  <2>5. ASSUME NEW p \in Pixels, p \in Row3 PROVE Alike(Progress(screen, bar), Menu(Blank, view), p)
    <3>1. Alike(Progress(screen, bar), Progress(Blank, bar), p)
      BY <1>1, <2>2, <2>4, <2>5, ProgressPaints
    <3>2. Alike(Menu(Blank, view), Progress(Blank, bar), p)
      BY <2>3, <2>4, <2>5, MenuAt
    <3> QED BY <3>1, <3>2, AlikeChain
  <2>6. ASSUME NEW p \in Pixels, p \notin Row3
        PROVE  Alike(screen, Progress(screen, bar), p) /\ Alike(Menu(Blank, shown), Menu(Blank, view), p)
    BY <1>1, <2>1, <2>2, <2>3, <2>4, <2>6, ProgressPaints, MenusDiffer
  <2>7. Shows(Progress(screen, bar), view)
    BY <1>1, <2>1, <2>3, <2>4, <2>5, <2>6, PartShown
  <2> QED BY <2>1, <2>3, <2>7 DEF Shows
<1> QED BY <1>2, <1>4, <1>5, <1>6, <1>7 DEF DisplayCall

\* On a display as wide as the cutter's and with characters that keep their place, the
\* chip always shows the screen that module Display speaks of, whatever was shown before.
THEOREM ShowsWhatItShould ==
  ASSUME CutterDisplay
  PROVE  DSSpec => []ShowsItsState
<1>1. DSInit => Shows(screen, shown)
  BY DEF DSInit, Shows
<1>2. ASSUME ScreenInv, Shows(screen, shown), [DSNext]_dsVars PROVE Shows(screen, shown)'
  <2>1. CASE DisplayCall
    BY <1>2, <2>1, ScreenShown
  <2>2. CASE Next /\ shown = Nothing /\ UNCHANGED shown
    BY <2>2 DEF Shows
  <2>3. CASE UNCHANGED dsVars
    BY <1>2, <2>3 DEF dsVars, vars, Shows
  <2> QED BY <1>2, <2>1, <2>2, <2>3 DEF DSNext
<1>3. Shows(screen, shown) => ShowsItsState
  BY DEF Shows, ShowsItsState
<1> QED BY <1>1, <1>2, <1>3, ScreenInvariant, PTL DEF DSSpec
=============================================================================

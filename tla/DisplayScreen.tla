---------------------------- MODULE DisplayScreen ----------------------------
(***************************************************************************)
(* Class Display on the driver: the calls of Display.h as what they draw.  *)
(* shown is the screen in the terms of module Display; the pixels of the   *)
(* chip must be those of shown, whatever was drawn before.                 *)
(***************************************************************************)
EXTENDS Screen

CONSTANTS
  Ink(_, _), \* font: the black pixels of a character of a text
  RPerKits,  \* bound: values of the inputs
  Kits,
  Percents   \* bound: values of percent

\* the inputs count from one up; -1 is the percentage that loop() does not pass
ASSUME ValuesAssumption ==
  RPerKits \subseteq Nat \ {0} /\ Kits \subseteq Nat \ {0} /\ Percents \subseteq Nat \cup {-1}

D == INSTANCE Display

VARIABLE shown  \* what the chip shows; Nothing when that is not the doing of Display

dsVars == <<vars, shown>>

Nothing == [view |-> "none"]

-----------------------------------------------------------------------------
(* Text *)

Text(name, n, length) == [name |-> name, n |-> n, length |-> length]
\* its sign is a character of -1
Digits(n) == IF n \in 0..9 THEN 1 ELSE IF n < 100 THEN 2 ELSE 3
Number(n) == Text("number", n, Digits(n))
Percentage(n) == Text("percent", n, Digits(n) + 1)

\* write: where the character i of a text goes, with wrapping
Cell(at, i, size) ==
  LET first == (Width - at[1]) \div (6 * size)
      line == Width \div (6 * size)
  IN IF i < first THEN <<at[1] + 6 * size * i, at[2]>>
     ELSE <<6 * size * ((i - first) % line), at[2] + 8 * size * (1 + (i - first) \div line)>>

\* drawChar: the ink of a character, and all of its place when the text is opaque
PrintText(s, at, text, size, colour, bg) ==
  LET Inked == UNION {UNION {Area(Cell(at, i, size)[1] + size * p[1], Cell(at, i, size)[2] + size * p[2],
                                  size, size) : p \in Ink(text, i)} : i \in 0..(text.length - 1)}
      Place == UNION {Area(Cell(at, i, size)[1], Cell(at, i, size)[2], 6 * size, 8 * size) :
                        i \in 0..(text.length - 1)}
  IN SetPixels(IF bg = colour THEN s ELSE SetPixels(s, 0, Place, bg), 0, Inked, colour)

-----------------------------------------------------------------------------
(* The parts of the screen *)

Fill(s, x, y, w, h, colour) == SetPixels(s, 0, FillRect(x, y, w, h), colour)

\* a field that is selected is black, with white text; another one has a frame
Field(s, x, y, w, h, style, at, text) ==
  CASE style = "inverted" -> PrintText(Fill(s, x, y, w, h, BLACK), at, text, 1, WHITE, BLACK)
    [] style = "framed" -> PrintText(SetPixels(s, 0, DrawRect(x, y, w, h), BLACK), at, text, 1, BLACK, BLACK)
    [] style = "static" -> PrintText(s, at, text, 1, BLACK, BLACK)

\* printLn1
Line1(s, input) ==
  SendPages(Field(
    PrintText(Fill(s, 0, 0, 84, 11, WHITE), <<4, 2>>, Text("R per kit:", 0, 10), 1, BLACK, BLACK),
    64, 0, 15, 11, input.style, <<IF input.number < 10 THEN 69 ELSE 65, 2>>, Number(input.number)))

\* printLn2
Line2(s, input) ==
  SendPages(Field(
    PrintText(Fill(s, 0, 12, 84, 11, WHITE), <<20, 14>>, Text("Kits:", 0, 5), 1, BLACK, BLACK),
    50, 12, 15, 11, input.style, <<IF input.number < 10 THEN 55 ELSE 52, 14>>, Number(input.number)))

\* faulty variant: the text of the last percentage stays
ProgressUncleared(s, bar) ==
  IF bar = D!NoBar THEN s
  ELSE LET x == IF bar < 10 THEN 36 ELSE IF bar < 100 THEN 33 ELSE 30
           frame == SetPixels(s, 0, DrawRect(4, 24, 77, 11), BLACK)
       IN SendPages(InvertRect(PrintText(frame, <<x, 26>>, Percentage(bar), 1, BLACK, BLACK),
                               0, 5, 25, (bar * 75) \div 100, 9))

\* printProgress
Progress(s, bar) ==
  IF bar = D!NoBar THEN s
  ELSE LET x == IF bar < 10 THEN 36 ELSE IF bar < 100 THEN 33 ELSE 30
           frame == SetPixels(Fill(s, 0, 24, 84, 11, WHITE), 0, DrawRect(4, 24, 77, 11), BLACK)
       IN SendPages(InvertRect(PrintText(frame, <<x, 26>>, Percentage(bar), 1, BLACK, BLACK),
                               0, 5, 25, (bar * 75) \div 100, 9))

\* printButton
Button(s, button) ==
  SendPages(Field(
    Fill(s, 25, 37, 33, 11, WHITE), 25, 37, 33, 11, button.style,
    IF button.text = "Stop" THEN <<30, 39>> ELSE <<27, 39>>,
    Text(button.text, 0, IF button.text = "Stop" THEN 4 ELSE 5)))

\* updateAll, after clearDisplay()
Menu(s, view) == Button(Progress(Line2(Line1(s, view.rPerKit), view.kits), view.bar), view.button)

\* showPaused: the text goes over three lines, and one after the line feed
Paused(s) ==
  LET title == PrintText(s, <<7, 0>>, Text("PAUSED", 0, 6), 2, BLACK, BLACK)
      line == SetPixels(title, 0, HLine(0, 15, 85), BLACK)
  IN SendPages(
       PrintText(PrintText(line, <<0, 17>>, Text("Safety switch flipped", 0, 42), 1, BLACK, BLACK),
             <<0, 41>>, Text("the issue!", 0, 10), 1, BLACK, BLACK))

-----------------------------------------------------------------------------
(* The calls *)

Show(s, view) ==
  /\ pen = Ready /\ rotation = 0
  /\ screen' = s
  /\ shown' = view
  /\ UNCHANGED <<rotation, pen, calls>>

UpdateAll(view) ==
  LET clear == ClearDisplay(screen) IN
  Show(IF view.view = "paused" THEN Paused(clear) ELSE Menu(clear, view), view)

OnMenu == shown.view = "menu"

PrintLn1(number, highlighted, running) ==
  LET input == D!PrintLn(number, highlighted, running) IN
  OnMenu /\ Show(Line1(screen, input), [shown EXCEPT !.rPerKit = input])

PrintLn2(number, highlighted, running) ==
  LET input == D!PrintLn(number, highlighted, running) IN
  OnMenu /\ Show(Line2(screen, input), [shown EXCEPT !.kits = input])

\* only while running, as Interface calls it
PrintProgress(percent) ==
  LET view == D!PrintProgress(shown, percent, 1) IN
  OnMenu /\ Show(Progress(screen, view.bar), view)

PrintButton(highlighted, running) ==
  LET button == D!PrintButton(highlighted, running) IN
  OnMenu /\ Show(Button(screen, button), [shown EXCEPT !.button = button])

Views == {D!UpdateAll(h, r, k, p, running) :
            h \in 0..2, r \in RPerKits, k \in Kits, p \in Percents, running \in 0..2}

DisplayCall ==
  \/ \E view \in Views : UpdateAll(view)
  \/ \E h \in BOOLEAN, running \in {0, 1} :
       \/ \E n \in RPerKits : PrintLn1(n, h, running)
       \/ \E n \in Kits : PrintLn2(n, h, running)
       \/ PrintButton(h, running)
  \/ \E p \in Percents : PrintProgress(p)

DSInit == Init /\ shown = Nothing

\* the library is not called behind the back of Display
DSNext == DisplayCall \/ (Next /\ shown = Nothing /\ UNCHANGED shown)

DSSpec == DSInit /\ [][DSNext]_dsVars

-----------------------------------------------------------------------------
(* Properties. *)

Blank == [buffer |-> {}, lcd |-> {}, box |-> EmptyBox]

\* what the screen would be on a display that was blank
PictureOf(view) ==
  (IF view.view = "paused" THEN Paused(Blank) ELSE Menu(Blank, view)).buffer

\* The chip shows the screen that module Display speaks of, pixel by pixel: nothing is
\* left over of a longer number, of a percentage, of another screen, or of the logo.
ShowsItsState == shown # Nothing => screen.lcd = PictureOf(shown)
=============================================================================

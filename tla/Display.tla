------------------------------- MODULE Display -------------------------------
(***************************************************************************)
(* The screens of the Nokia display (class Display), as what the operator  *)
(* sees: two input fields, a progress bar and a button, or the screen of a *)
(* paused machine.  Pixels are the business of the vendored library.       *)
(***************************************************************************)
EXTENDS Integers

\* Display::printProgress shows no more than 100 %, and nothing when not running.
FullBar == 100

NoBar == -2

Bar(percent, running) ==
    IF running = 0 THEN NoBar
    ELSE IF percent > FullBar THEN FullBar ELSE percent

\* Display::printLn1 and printLn2: an input is static while running, else
\* inverted when selected and framed when not.
PrintLn(number, highlighted, running) ==
    [number |-> number,
     style  |-> CASE running # 0                -> "static"
                  [] running = 0 /\ highlighted  -> "inverted"
                  [] running = 0 /\ ~highlighted -> "framed"]

\* Display::printButton
PrintButton(highlighted, running) ==
    [text  |-> IF running # 0 THEN "Stop" ELSE "Start",
     style |-> IF highlighted THEN "inverted" ELSE "framed"]

\* Display::showPaused
ShowPaused == [view |-> "paused"]

\* Display::updateAll
UpdateAll(highlightNum, rPerKit, kits, percent, running) ==
    IF running = 2 THEN ShowPaused
    ELSE [view    |-> "menu",
          rPerKit |-> PrintLn(rPerKit, highlightNum = 0, running),
          kits    |-> PrintLn(kits, highlightNum = 1, running),
          bar     |-> Bar(percent, running),
          button  |-> PrintButton(highlightNum = 2, running)]

\* Display::printProgress called by itself, on the screen of a running machine
PrintProgress(screen, percent, running) == [screen EXCEPT !.bar = Bar(percent, running)]
=============================================================================

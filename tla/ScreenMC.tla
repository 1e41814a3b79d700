------------------------------- MODULE ScreenMC -------------------------------
(***************************************************************************)
(* The display of the cutter, for TLC: 84 columns and 48 rows, shapes near *)
(* the corners and across the edges, two patterns of ink that tell one     *)
(* number from another.                                                    *)
(***************************************************************************)
EXTENDS DisplayScreen

InkOf(text, i) ==
  IF (text.n + i) % 2 = 0 THEN {<<0, 0>>, <<4, 7>>} ELSE {<<4, 0>>, <<0, 6>>, <<2, 3>>}

LogoPixels == {<<40, 20>>, <<41, 27>>, <<10, 46>>}
NoisePixels == {{<<0, 0>>, <<83, 47>>, <<40, 20>>}}

\* all directions and slopes up to six pixels, some across an edge; and a long one
LineArguments ==
  {<<x, y, x + dx, y + dy>> : x \in {2}, y \in {45}, dx \in -3..5, dy \in -3..2}
    \cup {<<0, 15, 84, 15>>, <<70, 40, 90, 51>>}
CircleArguments == {<<20, 44, r>> : r \in 0..9}
RectArguments == {<<-2, 6, 5, 4>>, <<80, 44, 9, 0>>}
PercentValues == {-1, 9, 100}
ShiftArguments == {<<-3, 5>>}
=============================================================================

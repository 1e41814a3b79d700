SPECIFICATION DSSpec
CONSTANTS
  Width = 84
  Height = 48
  Logo <- LogoPixels
  Noise <- NoisePixels
  Lines <- LineArguments
  Circles <- CircleArguments
  Rects <- RectArguments
  Shifts <- ShiftArguments
  Rotations = {1, 2, 3}
  MaxCalls = 1
  Ink <- InkOf
  RPerKits = {3, 10}
  Kits = {50}
  Percents <- PercentValues
INVARIANTS TypeInv BoxCovers LineIsStraight ArcIsRound DiscIsWhole ShowsItsState
PROPERTY DisplayShowsAll

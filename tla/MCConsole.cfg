SPECIFICATION ConsoleSpec
CONSTANTS
  SCREEN_WIDTH = 8
  SCREEN_HEIGHT = 8
  CANT_COLORS = 3
  WORD = 64
  MaxPrinted = 7
INVARIANTS
  DrawsInside
  ScreenShowsLog
CHECK_DEADLOCK FALSE

CONSTANTS
  FBFONT_WIDTH = 2
  FBFONT_HEIGHT = 2
  FbWidth = 7
  FbHeight = 7
  Pitch = 10
  Beyond = 3
  Glyph <- MCGlyph
  Ink = "white"
  Paper = "black"
  Black = "black"
  LevelColor <- MCLevelColor
  Texts <- MCTexts
SPECIFICATION Spec
INVARIANTS
  OnlyVisiblePixels
  StripIsPaper
PROPERTIES
  ImplementsTextScreen

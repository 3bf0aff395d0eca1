SPECIFICATION Spec
CONSTANTS
  font_height = 2
  MaxWidth = 3
  Height = 7
  TabStop = 2
  Chars = {"a"}
  Background = Background
  MaxChars = 9
INVARIANT TypeOK
INVARIANT InBounds
PROPERTY ImplementsTextScreen
CHECK_DEADLOCK FALSE

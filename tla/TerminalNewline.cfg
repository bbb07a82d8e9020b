SPECIFICATION Spec
CONSTANTS
  Width = 2
  Height = 2
  Burst = 0
  Strings <- MCStrings
  Words <- NoWords
  Chars <- MCChars
  Colors = {7}
PROPERTY NewlineIsGlyph

SPECIFICATION Spec
CONSTANTS
  Width = 3
  Height = 2
  Burst = 2
  Strings <- MCStrings
  Words <- NoWords
  Chars <- OneChar
  Colors = {7}
INVARIANTS
  TypeOK
  CursorAtRest
  StrayBounded

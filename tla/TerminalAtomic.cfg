SPECIFICATION Spec
CONSTANTS
  Width = 2
  Height = 2
  Burst = 0
  Strings <- MCStrings
  Words <- MCWords
  Chars <- OneChar
  Colors <- MCColors
PROPERTY AtomicTerminal

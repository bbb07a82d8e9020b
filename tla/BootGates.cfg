SPECIFICATION Spec
CONSTANTS
  Entries = 8
  Page = 1024
  Dir = 53248
  Low = 54272
  Misc = 55296
  IndexRange = 65536
  Requests <- MCRequests
  MaxMaps = 9
  Nib = 4
  Setup = 1024
  Text <- MCText
  Stack <- MCStack
  Gdt <- MCGdt
  Idt <- MCIdt
  Vga = 512
  Vectors <- MCVectors
INVARIANT FiveGates

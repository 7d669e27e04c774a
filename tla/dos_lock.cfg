CONSTANTS
  fa = fa
  fb = fb
  line = line
  blank = blank
  prog = prog
  bin = bin
  Names <- MCNames
  Missing = Missing
  Lines <- MCLines
  Blank = blank
  Programs <- MCPrograms
  Binaries <- MCBinaries
  Hello = fa
  MaxfilesArgs = {2}
  MaxLines = 1
  MaxId = 3
SPECIFICATION Spec
PROPERTY LockedNotOverwritten

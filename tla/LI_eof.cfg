SPECIFICATION LibrarySpec
CONSTANTS
  x = x
  y = y
  Pad = Pad
  Letter = {x, y, Pad}
  Texts <- MCTexts
  Sizes = {0, 1, 2, 3}
  Targets <- MCTargets
  MaxWidth = 2
  MaxAmount = 2
  MaxLen = 4
  Modulus = 8
  BFILE = {f1, f2}
  DirAlias = {d1, d2}
  Filename = {n1, n2}
  MaxOpen = 1
  NoName = NoName
SYMMETRY Symmetry
INVARIANT EofAtEnd
CHECK_DEADLOCK FALSE

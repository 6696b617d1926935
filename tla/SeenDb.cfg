SPECIFICATION Spec
CONSTANTS
  Nicks = {n1, n2}
  Chans = {c1, c2}
  Limit = 1
  MaxTime = 3
  NoFile = NoFile
  Cut = Cut
SYMMETRY Symmetry
INVARIANTS
  TypeOK
  OneCopyIsWhole
  UnseenSticks
PROPERTIES
  NeverGoesBack
  ForgetsTheOldest
  KeepsAsStored

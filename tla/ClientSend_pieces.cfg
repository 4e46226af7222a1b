SPECIFICATION FairSpec
CONSTANTS
  Senders = {s1, s2}
  Sizes = {3}
  MaxPiece = 2
  ReqCap = 1
  Modes = {TRUE, FALSE}
  MaxBytes = 3
  Paced = TRUE
INVARIANTS TypeOK InOrder OkHanded StopsAtError
PROPERTIES SendEnds

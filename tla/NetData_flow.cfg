SPECIFICATION FairSpec
CONSTANTS
  Links = {l0, l1}
  NcLink = l0
  NoLink = nolink
  NumPackets = 3
  MaxLen = 2
  Lens = {2}
  RecvQLen = 2
  Replies = TRUE
  Resets = 1
INVARIANTS TypeOK  InOrder NoDoubleFree NoCrash
PROPERTIES PacketsFreed
CHECK_DEADLOCK FALSE

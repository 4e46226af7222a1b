SPECIFICATION FairSpec
CONSTANTS
  Links = {l0, l1}
  NcLink = l0
  NoLink = nolink
  NumPackets = 3
  MaxLen = 1
  Lens = {1}
  RecvQLen = 1
  Replies = TRUE
  Resets = 1
PROPERTIES PacketsFreed
CHECK_DEADLOCK FALSE

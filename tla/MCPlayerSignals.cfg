CONSTANTS
  Post = {c1, c2}
  Signals = {"FocusLost"}
  MaxPos = 2
SPECIFICATION FairSignals
PROPERTIES FurthestKept HiddenNoticed
CHECK_DEADLOCK FALSE

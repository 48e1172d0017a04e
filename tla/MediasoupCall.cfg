SPECIFICATION FairSpec
CHECK_DEADLOCK FALSE
CONSTANTS
  Convs = {c1, c2}
  OneOnOne = {c1}
  None = None
  MaxRooms = 2
  MaxServices = 2
  MaxInputs = 3
PROPERTIES CallKept HangUpDestroys UnansweredEnds

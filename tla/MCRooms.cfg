SPECIFICATION RoomsSpec
CONSTANTS
  MaxSweeps = 2
  MaxWatcherFaults = 1
  Flows = {f, g}
  None = None
  MaxSaves = 3
  MaxPosts = 2
  MaxJournalFaults = 1
  MaxLines = 7
  MaxRepeats = 1
  MaxEvents = 1
SYMMETRY FlowSymmetry
INVARIANTS SettledIsTrue EveryStatusHasALine PostedIsRecorded
PROPERTIES StrangersDoNotRepair
CHECK_DEADLOCK FALSE

SPECIFICATION Spec
CONSTANTS
  Procs = {1,2}
  Prio <- OneRank
  NSEM = 1
  Counts = {}
  MaxCount = 9
  IBLEN = 3
  Typed = {"/", "meta", "nl", "cr", "^D", "bs", "^W", "^R"}
  Lens = {1, 3}
INVARIANTS
  LineTaken
  ScreenFollows
PROPERTIES
  EditsLine

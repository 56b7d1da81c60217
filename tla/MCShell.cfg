SPECIFICATION Spec
CONSTANTS
  None = None
  Day = 5
  Timeout = 2
  MaxLaunches = 2
INVARIANTS
  TypeOK
  NoOldFileIsTaken
PROPERTIES
  NoFileIsMissed
  MacroEnds

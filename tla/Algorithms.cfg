CONSTANTS
  None = None
  Absent = Absent
  MaxU64 = 5
  MaxArg = 5
  MaxSize = 4
  Bodies <- MCBodies
SPECIFICATION MCSpec
INVARIANTS
  EditsAreExact
  NotesAreCutSoundly
  StreamsArriveWhole
  
  NamesMeanOneThing
  OperatorsAreHeeded
  RequestsAreJudged
CHECK_DEADLOCK FALSE

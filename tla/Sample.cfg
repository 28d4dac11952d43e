SPECIFICATION SampleSpec
CONSTANTS
  Core = {mscorlib}
  Assembly = {program, vita2d}
  Icall = {getenv}
  Worker = {}
  PoolWorker = {}
  Entry = {rootEntry}
  Path = {app0}
  NULL = NULL
  Program = program
  Vita2D = vita2d
  AppPath = app0
CHECK_DEADLOCK FALSE
INVARIANTS
  LogOpenWhileUsed
  ProgramPrepared
  ResultLogged
PROPERTIES
  SampleEnds
  UsesLoader

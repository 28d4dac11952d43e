SPECIFICATION FairSpec
CONSTANTS
  Core = {mscorlib}
  Assembly = {game}
  Icall = {getenv, setenv}
  Worker = {thread, poolThread}
  PoolWorker = {poolThread}
  Entry = {e1, e2}
  Path = {app0, ux0}
  NULL = NULL
CHECK_DEADLOCK FALSE
INVARIANTS
  TypeOK
  ManagedPrepared
  EntryRunsOnce
PROPERTIES
  DomainAsConfigured
  KeepsLife
  ShutdownReturns

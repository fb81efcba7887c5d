SPECIFICATION BudgetsSpec
CONSTANTS
  p1 = p1
  p2 = p2
  Pool = pool
  Pipelines = {p1, p2}
  NHolders = 3
  PipelineOf <- MCPipelineOf
  Pooled = {p1, p2}
  Capacity <- MCCapacity
  MaxRequest = 2
  out = out
  slot = slot
  Counters = {out, slot}
  OutputCounters = {out}
  Slots = {slot}
  NLeases = 3
  CounterOf <- MCCounterOf
  CounterCapacity <- MCCounterCapacity
  Ratio = 2
  MaxInputEntries = 1
  MaxInputBytes = 1
  EntryBytes = {0, 1, 2}
  MaxAmount = 2
  NoLimit = NoLimit
  Sources <- MCSources
  Limits = {0, 2, NoLimit}
  MaxRows = 4
  MemoryCapacity = 8
  SpillCapacity = 5
  BatchCap = 4
  Overhead = 1
  Chunk = 3
  ForeignMemory = {0, 5}
  ForeignSpill = {0, 3}
  NBatches = 3
  Capacities = {0, 1, 2}
INVARIANTS QuotaIsKept NothingIsLost TotalIsExact
INVARIANTS Conservation CountersConserved OutputWithinCeiling
PROPERTIES LedgerSpec StoppedProcessReturnsQuota ReadSpec StreamSpec ReadsAreAnswered

\* Two threads on one reply port, and a loop that keeps receiving.
SPECIFICATION FairSpec
CONSTANTS
  t1 = t1
  t2 = t2
  Threads = {t1, t2}
  Tag <- MCTag
  Blocks = {b1}
  NoBlock = NoBlock
  Handled = {"fadd", "fxch", "fldcw", "fbstp"}
  StockX87 = {"finit"}
  Arpl = "arpl"
  Bridges = {"mov"}
  Other = {"nop"}
  Unexpected = {"fxch"}
  CWWriters = {"fldcw"}
  Contents <- MCShort
  StockContents = {}
  Registers = {"scratch", "own"}
  Masks <- MCOneMask
  ScratchPool <- MCScratch
  CacheEnabled = TRUE
  SplitRuns = FALSE
  MaxGap = 1
  MaxBridges = 1
  MayRunDry = FALSE
  IrCacheOn = TRUE
  Window = 2
  Failures = {"signal", "tr", "writeback", "send", "crash"}
CHECK_DEADLOCK FALSE
INVARIANTS OneInFlight
PROPERTIES Translates Answered

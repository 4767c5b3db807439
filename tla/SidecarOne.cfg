\* One thread, blocks that share an address, everything that can fail.
SPECIFICATION Spec
CONSTANTS
  t1 = t1
  t2 = t2
  Threads = {t1}
  Tag <- MCTag
  Blocks = {b1}
  NoBlock = NoBlock
  Handled = {"fadd", "fxch", "fldcw", "fbstp"}
  StockX87 = {"finit"}
  Arpl = "arpl"
  Bridges = {"mov"}
  Other = {"nop"}
  Unexpected = {"fxch"}
  CWWriters = {"fldcw"}
  Contents <- MCRunsAndStock
  StockContents <- MCStockRuns
  Registers = {"scratch", "own"}
  Masks <- MCMasks
  ScratchPool <- MCScratch
  CacheEnabled = TRUE
  SplitRuns = TRUE
  MaxGap = 1
  MaxBridges = 1
  MayRunDry = TRUE
  IrCacheOn = TRUE
  Window = 4
  Failures = {"signal", "tr", "probe", "ir", "offsets", "buffer", "writeback", "send", "receive", "crash"}
CHECK_DEADLOCK FALSE
INVARIANTS TypeOK OneInFlight
PROPERTIES Translates MaskKept DeclinedToEnd

\* Blocks at one address with different first x87 instructions.
SPECIFICATION Spec
CONSTANTS
  t1 = t1
  t2 = t2
  Threads = {t1}
  Tag <- MCTag
  Blocks = {b1}
  NoBlock = NoBlock
  Handled = {"fadd", "fxch", "fldcw", "fbstp"}
  StockX87 = {"finit"}
  Arpl = "arpl"
  Bridges = {"mov"}
  Other = {"nop"}
  Unexpected = {"fxch"}
  CWWriters = {"fldcw"}
  Contents <- MCLate
  StockContents = {}
  Registers = {"scratch", "own"}
  Masks <- MCOneMask
  ScratchPool <- MCScratch
  CacheEnabled = TRUE
  SplitRuns = FALSE
  MaxGap = 1
  MaxBridges = 1
  MayRunDry = FALSE
  IrCacheOn = TRUE
  Window = 4
  Failures = {}
CHECK_DEADLOCK FALSE
PROPERTIES ScansBlock

\* Themes: the stack, small pools, deferrals before an attempt, conditions, rounding,
\* transcendentals, fused sums, stores side by side, integer instructions between runs.
SPECIFICATION Spec
CONSTANTS
  NSlots = 8
  Vals <- MCVals
  NoVal <- MCNoVal
  Zero = 0
  One = 1
  Add <- MCFAdd
  Sub <- MCFSub
  Un <- MCUn
  Vn <- MCVn
  Cmp <- MCCmp
  CacheEnabled = TRUE
  DeferFxch = TRUE
  MaxNodes = 14
  Fprs = {0, 1, 2, 3, 4, 5, 6, 7}
  Regs = {0, 1, 2}
  Cells <- MCCells
  Raw <- MCRaw
  Flag = {0, 1, 2}
  Cell <- MCCell
  LoadAs <- MCLoadAs
  StoreAs <- MCStoreAs
  Bin <- MCBin
  Una <- MCUna
  Rnd <- MCRnd
  RC <- MCRC
  CompareFlags <- MCCompareFlags
  Taken <- MCTaken
  Alu <- MCAlu
  AluFlags <- MCAluFlags
  Extend <- MCExtend
  Narrow <- MCNarrow
  Status <- MCStatus
  Cleared = 3
  Settings <- MCSettings
INVARIANTS Implements PoolSuffices RunWithinX87 RefusalRestores
PROPERTIES Finishes

\* FFREE after a deferred FXCH.
SPECIFICATION Spec
CONSTANTS
  NSlots = 3
  Vals = {0, 1}
  NoVal = NoVal
  Zero = 0
  One = 1
  Add <- MCAdd
  Sub <- MCSub
  Un <- MCUn
  Vn <- MCVn
  Cmp <- MCCmp
  CacheEnabled = TRUE
  DeferFxch = TRUE
  MaxRun = 4
  Images <- MCImages
  Shun = {"fxch_fxtract", "fxch_fstsw", "pops_fxam", "fxch_fused_twice", "fxch_fcomp_uncached", "fxch_fused_eager"}
INVARIANTS Simulates

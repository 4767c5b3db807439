\* Four registers told apart by their tags, runs of up to six instructions.
SPECIFICATION Spec
CONSTANTS
  NSlots = 4
  Vals = {0}
  NoVal = NoVal
  Zero = 0
  One = 0
  Add <- MCFirst
  Sub <- MCFirst
  Un <- MCSame
  Vn <- MCSame
  Cmp <- MCFirst
  CacheEnabled = TRUE
  DeferFxch = TRUE
  MaxRun = 6
  Images <- MCFullImage
  Shun = {"fxch_ffree", "fxch_fxtract", "fxch_fstsw", "pops_fxam", "fxch_fused_twice", "fxch_fcomp_uncached", "fxch_fused_eager"}
INVARIANTS Simulates MapEntry Exclusive

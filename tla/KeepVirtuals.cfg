\* Two updates with KEEP_VIRTUALS and no reader: the second may look at the
\* cachefile between the truncation and the first write of the first.
SPECIFICATION Spec
CONSTANTS
  w1 = w1
  w2 = w2
  r1 = r1
  r2 = r2
  Writers <- MCWriters
  Readers = {}
  N = 2
  Sizes <- TwoParts
  Old = Old
  Hole = Hole
  Gone = Gone
  Nobody = Nobody
INVARIANT KeepVirtuals

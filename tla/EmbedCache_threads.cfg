\* Three threads, two texts and a blank one; a cache for one text, for both, and without a limit.
SPECIFICATION Spec
CONSTANTS
  t1 = t1
  t2 = t2
  t3 = t3
  a = a
  b = b
  blank = blank
  Threads = {t1, t2, t3}
  Texts = {a, b, blank}
  Blank = {blank}
  Batches <- MCBatches
  CacheSizes = {0, 1, 2}
  BatchSize = 1
  Zero = Zero
  None = None
SYMMETRY ThreadSymmetry
INVARIANTS
  VectorsMatch CacheBounded FailsOnlyWhenFull

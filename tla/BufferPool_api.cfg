SPECIFICATION ApiSpec
CONSTANTS
  t1 = t1
  t2 = t2
  t3 = t3
  f1 = f1
  f2 = f2
  z = z
  d1 = d1
  nopage = nopage
  noframe = noframe
  nothread = nothread
  MaxPages = 3
  RingEntries = 2
  Zero = z
  NoPage = nopage
  NoFrame = noframe
  NoThread = nothread
  Data <- MCOneDatum
  Threads <- MCThreads
  Frames <- MCFrames
SYMMETRY MCSymmetry
INVARIANT TypeOK
INVARIANT PinnedPagesStay
INVARIANT ListsHoldUnusedFrames

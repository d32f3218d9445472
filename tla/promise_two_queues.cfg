SPECIFICATION FairSpec
CONSTANTS
  N = 2
  Promise = {p0, p1, p2, p3, p4}
  Root = p0
  NoPromise = nil
  Workers = {w1, w2}
  Builder = writer
  Calls = 1
INVARIANT HandlerAtMostOnce

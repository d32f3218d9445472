SPECIFICATION FairSpec
CONSTANTS
  N = 3
  Promise = {p0, p1, p2, p3, p4, p5, p6}
  Root = p0
  NoPromise = nil
  Workers = {w1}
  Builder = writer
  Calls = 2
INVARIANTS TypeOK MutualExclusion LeakOnlyByRefulfil HandlerAtMostOnce
PROPERTIES SettledOnce ImplementsChain CallsReturn
CHECK_DEADLOCK FALSE

SPECIFICATION FairSpec
CONSTANTS
  alice = alice
  wonderland = wonderland
  pk = pk
  good = good
  other = other
  bad = bad
  tx = tx
  odd = odd
  junk = junk
  trap = trap
  Nil = Nil
  Empty = Empty
  Garbled = Garbled
  Short = Short
  Pending = Pending
  Name <- MCName
  Key = {pk}
  Text = {Empty, Garbled}
  UInt32 <- MCUInt32
  Units = {0, 1}
  PbTransaction = {tx, odd, junk, trap}
  Acceptable = {tx, odd}
  Stray = {odd}
  Raising = {trap}
  Answers <- MCAnswers
  Statuses <- MCStatuses
  Commits <- MCCommits
  Transactions = {good, other, bad}
  Batches <- MCBatches
  Queries = {good, bad}
  Unsendable = {bad}
  MaxCalls = 2
  MaxEvents = 2
INVARIANTS TypeOK EndsOnce AllOrNothing ResponseOrError
PROPERTY EveryCallEnds
CHECK_DEADLOCK FALSE

SPECIFICATION Spec
CONSTANTS
  alice = alice
  wonderland = wonderland
  coin = coin
  admin = admin
  foo = foo
  hash = hash
  list = list
  alicesKey = alicesKey
  Nil = Nil
  Empty = Empty
  Garbled = Garbled
  Short = Short
  Foreign = Foreign
  Broken = Broken
  Name <- MCName
  Key = {hash}
  Text <- MCText
  UInt32 <- MCUInt32
  Units <- MCUnits
  Queries <- MCQueries
  Creators <- MCCreators
  Counters = {0, 3}
  Dates = {0}
  Lists = {list}
  Signatory = {alicesKey}
  TicksPerMillisecond = 2
  MaxBuilt = 2
  MaxRequests = 3
  MaxHashes = 1
  MaxTime = 2
INVARIANTS TypeOK StaleOnlyByCaller AsksAsBuilt DatedAtBuild QueriesDiffer
CHECK_DEADLOCK FALSE

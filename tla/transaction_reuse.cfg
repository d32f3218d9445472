SPECIFICATION Spec
CONSTANTS
  alice = alice
  wonderland = wonderland
  coin = coin
  pk = pk
  hello = hello
  alicesKey = alicesKey
  bobsKey = bobsKey
  Nil = Nil
  Empty = Empty
  Garbled = Garbled
  Short = Short
  Broken = Broken
  None = None
  Atomic = Atomic
  Ordered = Ordered
  Name <- MCName
  Key = {pk}
  Text <- MCText
  UInt32 <- MCUInt32
  Units <- MCUnits
  Commands <- MCCommands
  Creators <- MCCreators
  Dates <- MCDates
  Quorums <- MCQuorums
  Signings <- MCSignings
  PendingForms <- MCPendingForms
  Signatory = {alicesKey, bobsKey}
  Width = 4
  TicksPerMillisecond = 2
  MaxTransactions = 2
  MaxCommands = 2
  MaxHashes = 2
  WithOldValue = TRUE
  Reuse = TRUE
INVARIANTS SignaturesVerify

SPECIFICATION TripSpec
CONSTANTS
  alice = alice
  wonderland = wonderland
  pk = pk
  hello = hello
  Nil = Nil
  Empty = Empty
  Garbled = Garbled
  Short = Short
  Name <- MCName
  Key <- MCKey
  Text <- MCText
  UInt32 <- MCUInt32
  Units <- MCUnits
INVARIANTS OwnFormsParse PartsChecked
PROPERTY FormSettles

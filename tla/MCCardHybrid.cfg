CONSTANTS
  Cards = {0, 1}
  Kind <- MCHybrid
  BusRank <- MCBusRank
  NameRank <- MCNameRank
  Indexes = {0}
  Breakable = {}
  MaxChanges = 0
SPECIFICATION Spec
INVARIANTS
  NvidiaKeepsItsIndex

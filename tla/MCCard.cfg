CONSTANTS
  Cards = {0, 1, 2, 3, 10}
  Kind <- MCMixed
  BusRank <- MCBusRank
  NameRank <- MCNameRank
  Indexes = {0, 1, 2}
  Breakable = {0, 2, 3, 10}
  MaxChanges = 3
SPECIFICATION Spec
INVARIANTS
  TypeOK
  NoFaultDropsACard
  FaultsDoNotShiftTheIndex
  BlindOnlyWithItsCard

SPECIFICATION Spec
CONSTANTS
  Files <- GoodFiles
  MaxLocals = 8
  MaxScopeIds = 4
  MaxSyms = 10
  MaxData = 24
INVARIANTS TypeOK SlotsDisjoint SameScopes ReadsLastWrite LinkedAsC
PROPERTY SymbolsStay
CHECK_DEADLOCK FALSE

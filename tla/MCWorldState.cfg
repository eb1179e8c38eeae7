CONSTANTS
  none = none
  c1 = c1
  NoCode = none
  Code = {c1}
  Addr = {1, 2, 3}
  Slot = {1}
  ItemGas = 1
  Blocks <- MCBlocks
  Parent <- MCParent
  Sender = 1
  Creatable = {3}
  Value = {0, 1}
  Fee = 1
  Reward = 1
  MaxDepth = 2
SPECIFICATION ViewSpec
INVARIANT StateRootSeesWorld
INVARIANT AccessListDescribesBlock
PROPERTY AccessesStayListed
PROPERTY ImplementsLedger
CHECK_DEADLOCK FALSE

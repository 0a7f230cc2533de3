\* A root with every tree of three more grants below it, two levels deep.
CONSTANTS
  NoParent = NoParent
  Grant = {g1, g2, g3, g4}
  Scope <- Tools
  MaxToolCalls = 2
  MaxDepth = 2
SYMMETRY Symmetric
SPECIFICATION LedgerSpec
INVARIANT LineageAccounting
PROPERTY RevokedTreeIsFinal
CHECK_DEADLOCK FALSE

CONSTANTS
  N = 3
  MaxChildren = 2
  MaxDepth = 2
  MaxYields = 2
  Headers <- MCHeaders
  Network = "main"
  MaxEpochs = 2
  Instants = {0, 1, 2}
  Tokens = {x, y}
  MaxMoves = 3
  Badged = {0}
  UseRoot = FALSE
SPECIFICATION Spec
INVARIANTS
  ValidatorIsExact
  YieldsFollowTheTree
  EveryIntentFinishes

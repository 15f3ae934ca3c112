\* A transaction ends, in success or with an error: no deadlock check.
CONSTANTS
  rork = rork
  nft = nft
  n1 = n1
  n2 = n2
  Fungibles = {rork}
  NonFungibles = {nft}
  MaxUnits = 2
  Ids = {n1, n2}
  Accounts <- MCAccounts
  MaxBuckets = 2
  MaxProofs = 2
  MaxZone = 2
  Asserted = {rork}
SYMMETRY Symmetry
SPECIFICATION Spec
CHECK_DEADLOCK FALSE
INVARIANTS
  ValidatorFollowsProcessor
  ProofsBacked
  SupplyConserved
  NothingLeftBehind

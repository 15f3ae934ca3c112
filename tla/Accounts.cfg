CONSTANTS
  Fungibles = {rork}
  NonFungibles = {deed}
  MaxUnits = 1
  Ids = {i1, i2}
  Accounts = {a, b}
  Managed = {a}
  Depositing = {b}
  RORK = rork
  Freezable = {deed}
  Recallable = {deed}
  Mintable = {rork, deed}
  Burnable = {rork, deed}
  Badges = {"badge", "lost"}
  Held = {"badge"}
  Bottlenose = TRUE
  MaxChanges = 1
  InitialSettings <- MCInitialSettings
  Provable = {deed}
  MaxProofs = 2
SYMMETRY Symmetry
SPECIFICATION Spec
INVARIANTS
  SupplyIsHeld
  VaultCountsItsIndex
PROPERTIES
  FrozenVaultsHold
  UninvitedDepositsRefused
CHECK_DEADLOCK FALSE

SPECIFICATION Spec
CONSTANTS
  v1 = v1
  v2 = v2
  k1 = k1
  k2 = k2
  Validator = {v1, v2}
  Key = {k1, k2}
  SCALE = 2
  StakeDivisor = 2
  MaxSortKey = 2
  FeeFactors = {0, 1, 2}
  num_unstake_epochs = 1
  num_owner_stake_units_unlock_epochs = 1
  num_fee_increase_delay_epochs = 2
  min_validator_reliability = 0
  total_emission_xrd_per_epoch = 5
  Networks <- MCNetworks
  MILLIS_MEASURED = 1
  AddressOrder <- MCAddressOrder
  GenesisStake <- MCGenesisStake
  FirstKey <- MCFirstKey
  InitialLeaders <- MCInitialLeaders
  InitialWallet = 1
  FirstFee = 2
  Staking = {v1, v2}
  Locking = {v1, v2}
  Charging = {v2}
  Switching = {v2}
  MaxEpoch = 3
  MaxFee = 1
INVARIANTS IndexIsExact PromisesAreBacked RoundsAreAccounted
PROPERTIES SetIsByStake ValueIsPreserved FeeIncreasesAnnounced
CHECK_DEADLOCK FALSE

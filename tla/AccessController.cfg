SPECIFICATION FairSpec
CONSTANTS
    owner = owner
    friend = friend
    bank = bank
    Keys = {owner, friend, bank}
    RuleSets <- MCRuleSets
    Minutes = {2}
    BadgeIds = {1}
    MaxTime = 4
    MaxFee = 1
INVARIANTS
    AttemptsUnderCurrentRules
    WithdrawnMeansLocked
PROPERTIES
    TimedRecoveryWaits
    TimedRecoveryEnds

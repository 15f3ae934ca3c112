SPECIFICATION Spec
CONSTANTS
    t1 = t1
    t2 = t2
    s1 = s1
    Transactions = {t1, t2}
    Subintents = {s1}
    First = 5
    Last = 7
    EpochsPerPartition = 2
    MaxEpochRange = 4
    MaxEpoch = 8
SYMMETRY TransactionSymmetry
INVARIANTS
    NoReplay
    RingIsSound
CHECK_DEADLOCK FALSE

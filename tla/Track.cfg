SPECIFICATION Spec
CONSTANTS
    entry1 = entry1
    entry2 = entry2
    field = field
    vault = vault
    component = component
    index = index
    fields = fields
    None = None
    Values = {v1, v2}
    Nodes = {vault, component}
    PartitionOf <- MCPartitionOf
    NodeOf <- MCNodeOf
    Rank <- MCRank
    MaxLimit = 2
    Substates = {entry1, entry2, field}
    Partitions = {index, fields}
    TransientFields = {field}
SYMMETRY ValueSymmetry
INVARIANTS
    ViewIsEffect
    CommitInfoIsDifference
    ScansAgreeWithReads
PROPERTIES
    RevertKeepsOnlyForceWrites
    ImplementsAtomicStore

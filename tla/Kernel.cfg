CONSTANTS
    component = component  account = account  vault1 = vault1  bucket1 = bucket1
    proof1 = proof1  proof2 = proof2  object = object  inner = inner  kvstore = kvstore
    Global = {component, account}
    Internal = {vault1, bucket1, proof1, proof2, object, inner, kvstore}
    Proofs = {proof1, proof2}
    Buckets = {bucket1}
    Vaults = {vault1}
    KVStores = {kvstore}
    Outer <- OuterOfInner
    Transactions <- SomeTransactions
    Stacks = {1, 2}
    MaxDepth = 2
    MaxHandles = 2
    Values <- Contents
SPECIFICATION Spec
INVARIANTS StoreWellFormed HeapIsOwned ReferencesSound HandlesSound
SYMMETRY ProofSymmetry
CHECK_DEADLOCK FALSE

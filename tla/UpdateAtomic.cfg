SPECIFICATION Spec
CONSTANTS
    Shape <- ShippedUpdates
    MaxCrashes = 1
INVARIANTS
    BatchesAtomic
CHECK_DEADLOCK FALSE

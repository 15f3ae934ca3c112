SPECIFICATION FairSpec
CONSTANTS
    Shape <- ShippedUpdates
    MaxCrashes = 6
PROPERTIES
    ResumesAfterRecorded
    
CHECK_DEADLOCK FALSE

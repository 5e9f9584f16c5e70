\* Up to three sections, their erasures, and two processes that end anywhere.
SPECIFICATION StoreSpec
CONSTANTS
    MaxSections = 3
    MaxRecords = 6
    MaxCrashes = 2
INVARIANTS
    RecoversStored
    ErasedStaysErased
    PartsPointAtData
PROPERTY
    StartsAgain
CHECK_DEADLOCK FALSE

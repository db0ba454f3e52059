CONSTANTS
    t1 = t1
    t2 = t2
    t3 = t3
    None = None
    Unresolved = Unresolved
    NoImpl = NoImpl
    Unset = Unset
    PairWisdom = TRUE
    Threads <- ArmThreads
    MixFlavors <- ArmFlavors
    FlavorTest <- ArmTest
    FlavorFeatures <- ArmFeatures
    Functions <- ArmFunctions
    Tests <- ArmTests
SPECIFICATION Spec
\* Each thread makes one call; once every call has returned nothing is left
\* to do.
CHECK_DEADLOCK FALSE
INVARIANTS TypeOK ValidConfigNeverNone
PROPERTY Refines

CONSTANTS
    t1 = t1
    t2 = t2
    t3 = t3
    None = None
    Unresolved = Unresolved
    NoImpl = NoImpl
    Unset = Unset
    PairWisdom = FALSE
    Threads <- ExampleThreads
    MixFlavors <- ExampleFlavors
    FlavorTest <- ExampleTest
    FlavorFeatures <- ExampleFeatures
    Functions <- ExampleFunctions
    Tests <- ExampleTests
SPECIFICATION Spec
\* Each thread makes one call; once every call has returned nothing is left
\* to do.
CHECK_DEADLOCK FALSE
INVARIANT ExampleSelection

\* A driver registering f_aligned (aligned=True) and f (aligned=True).
CONSTANTS
    FeatureNames <- GoodFeatures
    UpperCase <- Upper
    FunctionDecls <- BadFunctions
    FlavorDecls <- Flavors
    MixDecls <- Mixes
    WisdomFiles <- Wisdom
    SourceFiles <- GoodSources
    MaxScans = 3
    IncludeArgs <- NoIncludes
    MaxIncludes = 0
    None = None
    MissingFile = MissingFile
SPECIFICATION Spec
INVARIANT AlignedPairsConsistent

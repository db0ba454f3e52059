\* A driver like src/dsp/starchgen.py over two C files, every order of
\* its calls, each file scanned up to MaxScans times in all.
CONSTANTS
    FeatureNames <- GoodFeatures
    UpperCase <- Upper
    FunctionDecls <- GoodFunctions
    FlavorDecls <- Flavors
    MixDecls <- Mixes
    WisdomFiles <- Wisdom
    SourceFiles <- GoodSources
    MaxScans = 3
    IncludeArgs <- DriverIncludes
    MaxIncludes = 2
    None = None
    MissingFile = MissingFile
SPECIFICATION Spec
INVARIANTS
    TypeOK
    AlignedPairsConsistent
    TwinImplsMirror
    FirstDefinitionWins
    ImplIndexConsistent

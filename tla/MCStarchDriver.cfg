\* Both driver scripts, as written, on their C files.
CONSTANTS
    FeatureNames <- NoIncludes
    UpperCase <- Upper
    FunctionDecls <- NoIncludes
    FlavorDecls <- NoIncludes
    MixDecls <- NoIncludes
    IncludeArgs <- NoIncludes
    WisdomFiles <- DriverWisdom
    SourceFiles <- DriverSources
    MaxScans = 4
    MaxIncludes = 2
    None = None
    MissingFile = MissingFile
    Drivers <- Scripts
SPECIFICATION DriverSpec
INVARIANT WisdomEntriesResolve
PROPERTY DriverReachesGenerate

\* A driver registering features neon and NEON.
CONSTANTS
    FeatureNames <- BadFeatures
    UpperCase <- Upper
    FunctionDecls <- GoodFunctions
    FlavorDecls <- Flavors
    MixDecls <- Mixes
    WisdomFiles <- Wisdom
    SourceFiles <- GoodSources
    MaxScans = 3
    IncludeArgs <- NoIncludes
    MaxIncludes = 0
    None = None
    MissingFile = MissingFile
SPECIFICATION Spec
INVARIANT FeatureMacroResolves

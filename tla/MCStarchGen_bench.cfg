\* Two benchmark files binding f (one through its twin f_aligned).
CONSTANTS
    FeatureNames <- GoodFeatures
    UpperCase <- Upper
    FunctionDecls <- GoodFunctions
    FlavorDecls <- Flavors
    MixDecls <- Mixes
    WisdomFiles <- Wisdom
    SourceFiles <- BadSources
    MaxScans = 3
    IncludeArgs <- NoIncludes
    MaxIncludes = 0
    None = None
    MissingFile = MissingFile
SPECIFICATION Spec
PROPERTY BindingKept

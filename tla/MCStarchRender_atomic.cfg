CONSTANTS
    C1 = C1
    C2 = C2
    C3 = C3
    Empty <- EmptyFile
    CR = CR
    LF = LF
    None = None
    MaxRuns = 3
    Configs <- RenderConfigs
    Order <- RenderOrder
    Text <- RenderText
    Raises <- RenderRaises
SPECIFICATION Spec
\* The generator is run at most MaxRuns times; after the last run the
\* directory stays as it is.
CHECK_DEADLOCK FALSE
INVARIANT ArtifactsAllOrNothing

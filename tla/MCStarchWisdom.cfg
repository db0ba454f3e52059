\* Every wisdom file of up to three lines, against two registry states.
CONSTANTS
    MaxLines = 3
    MissingFile = MissingFile
    NotLoaded = NotLoaded
SPECIFICATION Spec
INVARIANT WisdomMatchesFile
\* load_wisdom returns after the one Load step: the run ends there.
CHECK_DEADLOCK FALSE

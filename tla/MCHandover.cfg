SPECIFICATION Spec
CONSTANTS
    SizeT = 64
    MiB = 4
    Chars <- MCChars
    Configs <- MCConfigs
    Stray <- MCStray
    Outputs <- MCOutputs
    None = None
CHECK_DEADLOCK FALSE
INVARIANTS
    ArgvSurvives
    LimitsAsAsked
    OutputArrives

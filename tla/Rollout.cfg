SPECIFICATION Spec
CONSTANTS
    None = None
    MaxPods = 2
    MaxVersion = 1
    MaxInflight = 1
    OutCap = 1
    Surge = TRUE
CHECK_DEADLOCK FALSE
PROPERTY WarmRestart

SPECIFICATION Spec
CONSTANTS
    N = 2
    MaxFailures = 2
    MaxLag = 1
    RecoverAfter = 3
    Ledgers = {0, 2}
    Conditions <- MCConditions
    MaxChanges = 6
    None = None
PROPERTIES
    SettlesOnBest

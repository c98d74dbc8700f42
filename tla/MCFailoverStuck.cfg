SPECIFICATION Spec
CONSTANTS
    N = 2
    MaxFailures = 3
    MaxLag = 1
    RecoverAfter = 5
    Ledgers = {0, 2}
    Conditions <- MCConditions
    MaxChanges = 1
    None = None
PROPERTIES
    WorksWhileOneWorks

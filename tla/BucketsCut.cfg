CONSTANTS
    Scenarios <- MCCutScenarios
    Ours = {"first"}
    MaxRetries = 0
SPECIFICATION Spec
INVARIANT LocationIsRight

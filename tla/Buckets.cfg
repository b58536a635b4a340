CONSTANTS
    Scenarios <- MCScenarios
    Ours = {"first"}
    MaxRetries = 1
SPECIFICATION Spec
INVARIANTS
    ReportsWereTrue
    LocationIsRight
    CreateDoesNotContradict
    CarriedOutIsNotRefused

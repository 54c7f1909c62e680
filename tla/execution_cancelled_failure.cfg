SPECIFICATION Spec
CONSTANTS
    a = a
    b = b
    NoAgent = NoAgent
    Agents <- MCAgents
    MaxAgents = 2
    Checks <- MCChecks
    CheckPlans <- MCCheckPlans
    MaxFiles = 2
INVARIANT CancelledIsNoFailure

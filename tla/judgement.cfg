SPECIFICATION Spec
CONSTANTS
    Agents <- MCAgents
    RegistryIndex <- MCRegistryIndex
    Capability <- MCCapability
    Categories <- MCCategories
    Rules <- MCRules
    Fallback <- MCFallback
    MaxAgents = 3
    RoutingWeights <- MCRoutingWeights
    MinSamples = 2
    RecentSampleSize = 2
    Paths <- MCPaths
    Sensitive <- MCSensitive
    Outside <- MCOutside
    Checked <- MCChecked
    MaxChangedFiles = 1
    Histories <- MCHistories
    Works <- MCWorks
    Weights <- MCWeights
INVARIANTS
    WinnerIsClean
    OrderDecidesNothing
    ReviewAgrees
    FailureNeverHelps

CONSTANTS
    Pages <- AllPages
    MaxCalls <- Calls
    MaxChanges <- Changes
    Demotions = {"analyst"}
    Lists <- SomeLists
    PageSize = 1
    MaxRows = 2
    MaxSteps = 2
    Terms = {"one", "two"}
    MaxKeys = 4
    Forms <- EveryForm
    MaxTyped = 2
    MaxSaves = 2
    MaxWrites = 1
SPECIFICATION Spec
CHECK_DEADLOCK FALSE
INVARIANTS TypeOK ShownIsTrue
PROPERTIES RefusedOnlyIfBehind TypedTextIsSafe

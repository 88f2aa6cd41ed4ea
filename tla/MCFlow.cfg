CONSTANTS
    Files = {f1, f2}
    NewProjects = {n1, n2}
    Old = old
    None = none
    MaxAnalyses = 3
    MaxRenders = 1
SPECIFICATION Spec
INVARIANTS TypeOK HandoffMatches NoStuckSpinner RenderWasReviewed ShownCardsExist
CHECK_DEADLOCK FALSE

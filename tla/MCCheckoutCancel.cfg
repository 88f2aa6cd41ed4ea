CONSTANTS
    Plans = {starter, pro}
    Free = free
    MaxSubs = 2
    MaxEvents = 2
SPECIFICATION Spec
SYMMETRY Symmetry
PROPERTIES CancelAnytime
CHECK_DEADLOCK FALSE

CONSTANTS
    Plans = {starter, pro}
    Free = free
    MaxSubs = 2
    MaxEvents = 2
SPECIFICATION Spec
SYMMETRY Symmetry
INVARIANTS TypeOK PaidPlanHasPayment PayAsSeen CancelStopsRenewal
PROPERTIES KeepAccess
CHECK_DEADLOCK FALSE

CONSTANTS
    Tabs = {t1, t2}
    Requests = {r1, r2}
    MaxCalls = 2
    Channels = {"google"}
    MaxSessions = 3
SPECIFICATION Spec
INVARIANTS TypeOK WaitersHaveRefresh StoreFollowsStorage ExpiryHasCause
SYMMETRY Symmetry

CONSTANTS
    MaxShapes = 1
    Props = {0, 1}
    Puts = {u1, u2}
    MaxApprovals = 1
SPECIFICATION Spec
SYMMETRY Symmetry
INVARIANTS TypeOK HonestUnlessRaced UnlockedHasMask
PROPERTIES ShapesStayInReach
CHECK_DEADLOCK FALSE

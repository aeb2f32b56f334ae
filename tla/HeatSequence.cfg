SPECIFICATION Spec
CONSTANTS
    c1 = c1
    q1 = q1
    q2 = q2
    Course <- MCOneCourse
    Request <- MCTwoRequests
    Interval <- MCIntervals
    Delay <- MCDelays
    Instant <- MCInstants
    Offset <- MCOffsets
    MaxBatch = 2
    MaxHeats = 3
INVARIANTS
    DelayAnnounced
    ViewMovesTogether
PROPERTIES
    AutoHeatsGoLast
SYMMETRY Perms

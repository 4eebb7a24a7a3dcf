SPECIFICATION Spec
SYMMETRY ThreadSymmetry
CONSTANTS
    Offers = {o1}
    Storable = {o1}
    Threads = {w1, w2}
    MaxAge = 72
    Margin = 25
    Interval = 12
    MaxFails = 1
    Idle = Idle
INVARIANTS
    WatchesInTime

CONSTANTS
    Second = 2
    Intervals = {2, 3, 4, 5}
    MinIntervals = {0, 1, 2, 3, 4, 5}
    MaxDeltas = {1, 2}
SPECIFICATION Spec
INVARIANT JitterBounds MinNotAboveInterval

\* The store against its abstract map.
CONSTANTS
    k1 = k1
    k2 = k2
    v1 = v1
    v2 = v2
    Key <- MCKey
    Value <- MCValue
    Absent = Absent
SYMMETRY MCSymmetry
SPECIFICATION Spec
CONSTRAINT HistoryBound
INVARIANT DataIsReplayOfHistory

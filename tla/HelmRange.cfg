\* A dependency declared as a range.
SPECIFICATION Spec
CONSTANTS
    r = r  l = l  o = o  a = a  b = b  v1 = v1  v2 = v2  range = range
    NoLock = NoLock
    Name <- MCName
    RootChart <- MCRoot
    Outside <- MCOutside
    Worlds <- RangeWorlds
    MaxDepth = 2
INVARIANTS PackedChartIsClosed
CHECK_DEADLOCK FALSE

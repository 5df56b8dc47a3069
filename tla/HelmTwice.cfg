\* One chart depends on a library twice.
SPECIFICATION Spec
CONSTANTS
    r = r  l = l  o = o  a = a  b = b  v1 = v1  v2 = v2  range = range
    NoLock = NoLock
    Name <- MCName
    RootChart <- MCRoot
    Outside <- MCOutside
    Worlds <- TwiceWorlds
    MaxDepth = 2
INVARIANTS ReadsWhatItStaged
CHECK_DEADLOCK FALSE

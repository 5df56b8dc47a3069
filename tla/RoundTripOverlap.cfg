\* A tree's root is vendored after a module inside it was.
SPECIFICATION RoundTripSpec
CONSTANTS
    q = q  p = p  r = r  s = s  m = m  n = n  a = a  v = v  x = x  y = y  z = z  w = w  dot = dot
    t1 = t1  t2 = t2  t3 = t3  t4 = t4
    NoTree = NoTree
    Name <- MCNames
    Dirs <- TripDirs
    RootAbs <- MCRoot
    Ignored = {dot}
    Vendor = v
    Boundary = {}
    Addr = {t1, t2, t3, t4}
    TreeAt <- MCTreeAt
    Prefix <- MCPrefix
    Escaping = {t4}
    Worlds <- OverlapWorlds
    DirName <- MCDirName
    Places <- TripPlaces
INVARIANTS EveryPackIsClosed
CHECK_DEADLOCK FALSE

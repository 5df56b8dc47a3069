\* From a component on disk to the server's verdict on its tar.
SPECIFICATION RoundTripSpec
CONSTANTS
    q = q  p = p  r = r  s = s  m = m  n = n  a = a  v = v  x = x  y = y  z = z  w = w  dot = dot
    t1 = t1  t2 = t2  t3 = t3  t4 = t4
    NoTree = NoTree
    Name <- MCNames
    Dirs <- TripDirs
    RootAbs <- MCRoot
    Ignored = {dot}
    Vendor = v
    Boundary = {}
    Addr = {t1, t2, t3, t4}
    TreeAt <- MCTreeAt
    Prefix <- MCPrefix
    Escaping = {t4}
    Worlds <- TripWorlds
    DirName <- MCDirName
    Places <- TripPlaces
INVARIANTS PackedBundleAccepted ServerWalksWhatWasPacked
CHECK_DEADLOCK FALSE

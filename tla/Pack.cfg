\* Packing a component whose calls reach the host around it and fetched trees, with
\* links, a boundary and cycles; it ends.
SPECIFICATION FairSpec
CONSTANTS
    q = q  p = p  r = r  s = s  m = m  n = n  a = a  v = v  x = x  y = y  z = z  w = w  dot = dot
    t1 = t1  t2 = t2  t3 = t3  t4 = t4
    NoTree = NoTree
    Name <- MCNames
    Dirs <- MCDirs
    RootAbs <- MCRoot
    Ignored = {dot}
    Vendor = v
    Boundary <- MCBoundary
    Addr = {t1, t2, t3, t4}
    TreeAt <- MCTreeAt
    Prefix <- MCPrefix
    Escaping = {t4}
    Worlds <- MCWorlds
INVARIANTS HomesAreApart PackedWalkedReachable CallsLand StaysInBoundary
    RefusedForCause Homes TreeLayout PinsComplete
PROPERTIES PlacedNeverMoves Terminates
CHECK_DEADLOCK FALSE

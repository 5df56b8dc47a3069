\* Closing charts whose dependencies are directories, archives and downloads.
SPECIFICATION ChartSpec
CONSTANTS
    r = r  l = l  o = o  a = a  b = b  v1 = v1  v2 = v2  range = range
    NoLock = NoLock
    Name <- MCName
    RootChart <- MCRoot
    Outside <- MCOutside
    Worlds <- MCWorlds
    MaxDepth = 2
    h = h  cdn = cdn  g = g  local = local  stable = stable  st = st  index = index  tgz = tgz
    Online <- MCOnline
    Nets <- MCNets
    Subdomains <- MCSubdomains
    Begins <- MCBegins
    Loopback = local
    Index = index
    Bytes = {old, new}
    NoDigest = NoDigest
    NoCredential = NoCredential  Issued = Issued  NoNet = NoNet
    MaxHops = 3
INVARIANTS ChartFetchTypeOK ReadsWhatItStagedByName AuthorsChartsKept EveryDependencyPinned
    PackedChartAccepted StoredForThere ArrivesAsNamed
CHECK_DEADLOCK FALSE

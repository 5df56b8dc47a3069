\* Close on every bundle of MCCloseWalk.  A walk stops when it has a verdict.
SPECIFICATION FairSpec
CONSTANTS
    a = a
    b = b
    c = c
    Name <- MCName
    Dirs <- MCDirs
    Bundles <- MCBundles
INVARIANTS AcceptedIsClosed RefusedForCause CallsReportedOnce
PROPERTIES WalkSpec Terminates
CHECK_DEADLOCK FALSE

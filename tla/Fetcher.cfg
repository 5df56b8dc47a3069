\* Two calls resolved while the registry publishes and addresses move, and pulls.
SPECIFICATION Spec
CONSTANTS
    pk = pk  old = old  new = new  sub = sub
    Pkg = {pk}
    Version = {0, 1, 2, 3}
    Prerelease = {3}
    Base <- MCBase
    About <- MCAbout
    MayLead <- MCMayLead
    Location <- MCLocation
    Content = {old, new}
    NotCommit = NotCommit
    AnyRelease = AnyRelease
    Calls <- MCCalls
    Pulls <- MCPulls
    MaxCalls = 2
INVARIANTS FetcherTypeOK OneWorld SamePrefixSameTree PinsAreTheTrees ScratchIsOwned
CHECK_DEADLOCK FALSE

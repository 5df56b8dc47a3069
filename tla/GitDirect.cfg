\* Clones over ssh with a dialer, of a repository with submodules.
SPECIFICATION Spec
CONSTANTS
    d1 = d1  d2 = d2
    Clones = {c1, c2}
    Jobs <- SshJobs
    Dialer = {d1, d2}
    Direct = Direct
    Url <- MCUrl
    Scheme <- MCScheme
    Subs <- MCSubs
    Ref <- MCRef
    Kind <- MCKind
    MaxDepth = 2
INVARIANTS EveryConnectionDialed
CHECK_DEADLOCK FALSE

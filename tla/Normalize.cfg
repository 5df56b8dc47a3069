\* Every small tar, its entries in every order.
SPECIFICATION UntarSpec
CONSTANTS
    a = a  b = b  c = c  git = git
    BadName = BadName
    Name <- MCName
    IgnoredNames = {git}
    Tars <- MCTars
    MaxTar = 4
    MaxEntries = 4
    MaxBytes = 4
    MaxLinkDepth = 2
    MaxSymlinks = 4
INVARIANTS UntarTypeOK NormalizedIsTheTree VerdictIsOfTheTree UntarAgrees
CHECK_DEADLOCK FALSE

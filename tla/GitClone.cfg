\* Two clones at once, of every kind, from the first call to the last.
SPECIFICATION FairSpec
CONSTANTS
    d1 = d1  d2 = d2
    Clones = {c1, c2}
    Jobs <- MCJobs
    Dialer = {d1, d2}
    Direct = Direct
    Url <- MCUrl
    Scheme <- MCScheme
    Subs <- MCSubs
    Ref <- MCRef
    Kind <- MCKind
    MaxDepth = 2
INVARIANTS GitTypeOK TableIsOfRunning OwnDialer OwnCredentials CompleteWhenDone CheckoutKnowsPins
PROPERTIES EveryCloneEnds
CHECK_DEADLOCK FALSE

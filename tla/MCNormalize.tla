---------------------------- MODULE MCNormalize ----------------------------
(***************************************************************************)
(* Every tar of up to MaxTar entries out of a pool of files and links that *)
(* lead to each other, leave, loop, or lie below each other; and, of a     *)
(* smaller pool, the tars of one more, which pass the cap as they are      *)
(* read; and the tars out of two pools for a corner each.                  *)
(***************************************************************************)
EXTENDS Untar, FiniteSetsExt, TLC

CONSTANTS a, b, c, git, MaxTar

MCName == {a, b, c, git}

Entry(path, type, size, up, down, copy) ==
    [path |-> path, type |-> type, size |-> size, up |-> up, down |-> down, copy |-> copy]
File(path, size) == Entry(path, "file", size, 0, <<>>, 1)
Link(path, up, down) == Entry(path, "link", 0, up, down, 1)

Pool ==
    {File(<<a>>, 1), File(<<b>>, 1), File(<<b, a>>, 1), File(<<b, c>>, 2), File(<<git, a>>, 2),
     Entry(<<a>>, "file", 1, 0, <<>>, 2),
     Link(<<a>>, 0, <<b>>), Link(<<c>>, 0, <<a>>), Link(<<b>>, 0, <<c>>),
     Link(<<c>>, 0, <<b, a>>), Link(<<b, a>>, 1, <<a>>), Link(<<b, b>>, 1, <<>>),
     Link(<<b, b>>, 1, <<c>>), Link(<<b, b>>, 1, <<c, c>>), Link(<<c>>, 1, <<a>>), Link(<<c>>, 0, <<git, a>>),
     Link(<<c, b>>, 1, <<b>>),
     Entry(<<c>>, "dir", 0, 0, <<>>, 1), Entry(<<>>, "dir", 0, 0, <<>>, 1),
     Entry(<<a>>, "header", 0, 0, <<>>, 1), Entry(<<c>>, "other", 0, 0, <<>>, 1), Entry(BadName, "file", 1, 0, <<>>, 1)}

CapPool ==
    {File(<<a>>, 1), File(<<b>>, 1), File(<<b, a>>, 1), File(<<b, c>>, 2), File(<<git, a>>, 2),
     Link(<<c>>, 0, <<b>>), Link(<<b, b>>, 1, <<c, c>>), Link(<<c>>, 0, <<git, a>>),
     Entry(<<c>>, "dir", 0, 0, <<>>, 1), Entry(<<>>, "dir", 0, 0, <<>>, 1)}

(* A name that is both a link and a file, ignored or not.                  *)
ThroughPool ==
    {File(<<a>>, 1), File(<<git>>, 1), File(<<c>>, 1), Link(<<git>>, 0, <<a>>), Link(<<git>>, 0, <<b>>), Link(<<c>>, 0, <<a>>)}

(* A copy made for a link that lands on a file there is.                   *)
LandingPool ==
    {File(<<b, a>>, 1), File(<<c, a>>, 1), Link(<<c>>, 0, <<b>>), Link(<<a>>, 0, <<c>>)}

MCTars ==
    UNION {kSubset(n, Pool) : n \in 0 .. MaxTar} \cup kSubset(MaxTar + 1, CapPool)
    \cup SUBSET ThroughPool \cup SUBSET LandingPool
=============================================================================

---------------------------- MODULE MCCloseWalk ----------------------------
(***************************************************************************)
(* Close over every small bundle: a root, a module `a` with a module `b`   *)
(* inside it, and a sibling `c`.  The root makes up to two calls and the   *)
(* others up to one, among sources that stay, climb, climb out, name an    *)
(* absent directory, or are not local at all; any directory may hold no    *)
(* file of its own or fail to parse.                                       *)
(***************************************************************************)
EXTENDS CloseWalk, TLC

CONSTANTS a, b, c

MCName == {a, b, c}
MCDirs == {<<>>, <<a>>, <<a, b>>, <<c>>}

Local(up, down) == [local |-> TRUE, up |-> up, down |-> down]
Remote == [local |-> FALSE, up |-> 0, down |-> <<>>]

RootSources == {Local(0, <<a>>), Local(0, <<a, b>>), Local(0, <<c>>),
                Local(0, <<b>>), Local(1, <<a>>), Remote}
ModuleSources == {Local(0, <<b>>), Local(0, <<>>), Local(1, <<>>), Local(1, <<c>>),
                  Local(1, <<b>>), Local(2, <<>>), Remote}

UpTo1(S) == {<<>>} \cup {<<s>> : s \in S}
UpTo2(S) == UpTo1(S) \cup {<<s, t>> : s, t \in S}

(* A module with calls has a file that parses to them.                     *)
Modules(callLists) ==
    {[file |-> TRUE, parses |-> TRUE, calls |-> cs] : cs \in callLists}
      \cup {[file |-> TRUE, parses |-> FALSE, calls |-> <<>>]}
NoFile == [file |-> FALSE, parses |-> TRUE, calls |-> <<>>]

MCBundles ==
    {(<<>> :> r) @@ (<<a>> :> m1) @@ (<<a, b>> :> m2) @@ (<<c>> :> m3) :
        r \in Modules(UpTo2(RootSources)),
        m1, m2, m3 \in Modules(UpTo1(ModuleSources)) \cup {NoFile}}
=============================================================================

--------------------------- MODULE MCHelmClosure ---------------------------
(***************************************************************************)
(* Small charts: the root r, which may hold a chart a unpacked under       *)
(* charts/; the library l beside it, which may hold an a of its own and    *)
(* may depend on r again; and o, outside the boundary.                     *)
(***************************************************************************)
EXTENDS HelmClosure, TLC

CONSTANTS r, l, o, a, b, v1, v2, range

MCName == {r, l, o, a, b}
MCRoot == <<r>>
MCOutside == {<<o>>}

Repo(kind) == [kind |-> kind, dir |-> <<>>]
Directory(d) == [kind |-> "file", dir |-> d]
Dep(name, version, repo) == [name |-> name, version |-> version, repo |-> repo]

UpTo1(S) == {<<>>} \cup {<<c>> : c \in S}
UpTo2(S) == UpTo1(S) \cup {<<c, d>> : c, d \in S}

(* What `helm dependency update` writes: a range becomes a version.        *)
Resolved(d) == [d EXCEPT !.version = IF @ = range THEN v2 ELSE @]
Lock(deps) == [i \in DOMAIN deps |-> Resolved(deps[i])]
(* Locks to be found beside a declaration: its own, none, and two that     *)
(* went stale, one of them at the same length.                             *)
Locks(deps) ==
    {Lock(deps), NoLock, Tail(Append(Lock(deps), Dep(b, v1, Repo("http")))),
     [i \in DOMAIN deps |-> Lock(deps)[1]]}

ChartWith(deps, lock, tgz) == [chart |-> TRUE, deps |-> deps, lock |-> lock, tgz |-> tgz]
Fresh(deps) == ChartWith(deps, Lock(deps), {})
NoChart == [chart |-> FALSE, deps |-> <<>>, lock |-> NoLock, tgz |-> {}]

RootDeps ==
    UpTo2({Dep(a, v1, Directory(<<l>>)), Dep(a, v1, Repo("http")), Dep(b, range, Repo("oci")),
           Dep(b, v1, Repo("http")), Dep(a, v1, Repo("none"))})
      \cup {<<Dep(b, v1, Repo(kind))>> : kind \in {"alias", "other"}}
      \cup {<<Dep(b, v1, Directory(d))>> : d \in {<<o>>, <<b>>}}

LibraryDeps ==
    UpTo1({Dep(a, v1, Repo("http")), Dep(a, v1, Directory(<<r>>)), Dep(b, range, Repo("http"))})

(* A world: the root with or without an a of its own, the library with or  *)
(* without one.                                                            *)
World(root, ownA, library, libraryA) ==
    (<<r>> :> root) @@ (<<l>> :> library) @@ (<<o>> :> Fresh(<<>>))
      @@ (IF ownA = {} THEN <<>> ELSE <<r, a>> :> CHOOSE x \in ownA : TRUE)
      @@ (IF libraryA = {} THEN <<>> ELSE <<l, a>> :> CHOOSE x \in libraryA : TRUE)

OwnA == {{}, {NoChart}, {Fresh(<<>>)}, {Fresh(<<Dep(b, v1, Repo("http"))>>)}}

ChartWorlds ==
    UNION {
      {World(ChartWith(deps, lock, tgz), ownA, library, libraryA) :
          lock \in Locks(deps),
          tgz \in {{}, {<<a, v1>>}},
          ownA \in OwnA,
          library \in {Fresh(ds) : ds \in LibraryDeps} \cup {NoChart},
          libraryA \in {{}, {Fresh(<<>>)}}} : deps \in RootDeps}

(* A chart whose one dependency is declared as a range, and locked.        *)
RangeWorlds ==
    {World(Fresh(<<Dep(b, version, Repo(kind))>>), {}, Fresh(<<>>), {}) :
        version \in {v1, range}, kind \in {"http", "oci"}}

(* A library chart used twice, as aliases do.                              *)
TwiceWorlds ==
    {World(Fresh(ds), {}, Fresh(<<>>), {}) :
        ds \in UpTo2({Dep(a, v1, Directory(<<l>>)), Dep(b, v1, Repo("http"))})}

(* A directory under the root's charts/, a chart or none, that holds a     *)
(* chart; and a library to be brought in under its name, with one or none  *)
(* of the same name.                                                       *)
NestedWorlds ==
    {World(Fresh(<<Dep(a, v1, Directory(<<l>>))>>), {own}, Fresh(deps), {})
        @@ (<<r, a, b>> :> Fresh(<<>>)) @@ libraryB :
        own \in {NoChart, Fresh(<<>>), Fresh(<<Dep(b, v1, Repo("none"))>>)},
        deps \in UpTo1({Dep(b, v1, Repo("http"))}),
        libraryB \in {<<>>, <<l, b>> :> Fresh(<<>>)}}
=============================================================================

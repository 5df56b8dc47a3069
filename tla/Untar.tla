------------------------------- MODULE Untar -------------------------------
(***************************************************************************)
(* Untar (fetch.go), which lays an archive out on disk, and unpackChart    *)
(* (pull.go), which hands a chart unpacked so to its caller; then the same *)
(* archive is given to Normalize.  The two read one tar with different     *)
(* rules: Untar keeps links and ignored names, and counts every entry.     *)
(*                                                                         *)
(* An object on disk is a directory, a file, or a link with its target as  *)
(* path.Join reads it.  What the calls on os.Root do is the system's.      *)
(***************************************************************************)
EXTENDS Normalize

CONSTANT MaxSymlinks  \* how many links the system follows on one path
ASSUME MaxSymlinksAssumption == MaxSymlinks \in Nat

VARIABLES
    disk,      \* what has been created below the root of the unpacking
    unread,    \* entries not read yet
    written,   \* bytes the headers of the files written claim
    unpacked,  \* "reading", "done", or why Untar returned an error
    chart      \* what became of the chart: "none" yet, "handed" or "removed"

untarVars == <<disk, unread, written, unpacked, chart>>
allVars == <<vars, untarVars>>

(* Bound: a tar with an entry below a link's own name goes to Normalize    *)
(* only.  In any other, entries are created where their names say.         *)
Plain(t) ==
    \A l, e \in {f \in t : f.path # BadName} :
        l.type = "link" => ~StrictlyInside(l.path, e.path)

UntarInit ==
    /\ Init
    /\ disk = [p \in {} |-> {}]
    /\ unread = tar
    /\ written = 0
    /\ unpacked = "reading"
    /\ chart = IF Plain(tar) THEN "none" ELSE "not unpacked"

-----------------------------------------------------------------------------
(* What is at a path, links followed; none when there are too many.        *)
DiskLinks ==
    [p \in {q \in DOMAIN disk : disk[q].type = "link"} |->
        JoinSource(Parent(p), disk[p].up, disk[p].down)]
Follow(p) == Followed(p, DiskLinks, MaxSymlinks)

IsDirectory(p) == p = <<>> \/ (p \in DOMAIN disk /\ disk[p].type = "dir")
IsFile(p) == p \in DOMAIN disk /\ disk[p].type = "file"

(* MkdirAll: what is missing is made, what is there must be a directory.   *)
CanMake(p) ==
    \A i \in DOMAIN p : LET q == SubSeq(p, 1, i) IN q \in DOMAIN disk => IsDirectory(Follow(q))
WithDirs(p) ==
    LET dirs == {SubSeq(p, 1, i) : i \in DOMAIN p} IN
    [q \in DOMAIN disk \cup dirs |-> IF q \in DOMAIN disk THEN disk[q] ELSE [type |-> "dir"]]
WithObject(d, p, object) == [q \in DOMAIN d \cup {p} |-> IF q = p THEN object ELSE d[q]]

(* OpenFile follows a link in the file's place, and makes what is missing  *)
(* in a directory that is there.                                           *)
CanWrite(p) ==
    LET q == Follow(p) IN
    /\ CanMake(Parent(p))
    /\ q # Loops /\ ~IsDirectory(q)
    /\ IsFile(q) \/ q = p \/ IsDirectory(Parent(q))

(* The entry being read is counted first, whatever becomes of it.  Slip:   *)
(* what a bundle would drop is not counted.                                *)
Counted_Kept(e) == Cardinality({f \in tar \ unread : ~Dropped(f)}) + 1
Counted(e) == Cardinality(tar \ unread) + 1

UntarError(e) ==
    CASE Counted(e) > MaxEntries -> "entries"
      [] Counted(e) <= MaxEntries /\ e.path = BadName -> "path"
      [] Counted(e) <= MaxEntries /\ e.path # BadName ->
           IF e.path = <<>> THEN "none"
           ELSE CASE e.type = "header" -> "none"
                  [] e.type = "other" -> "kind"
                  [] e.type = "dir" -> IF CanMake(e.path) THEN "none" ELSE "io"
                  [] e.type = "link" ->
                       IF ~LinkStaysInside(e) THEN "path"
                       ELSE IF CanMake(Parent(e.path)) /\ e.path \notin DOMAIN disk THEN "none" ELSE "io"
                  [] e.type = "file" ->
                       IF written + e.size > MaxBytes THEN "large"
                       ELSE IF CanWrite(e.path) THEN "none" ELSE "io"

RefuseToUnpack(e) ==
    /\ UntarError(e) # "none"
    /\ unpacked' = UntarError(e)
    /\ UNCHANGED <<disk, written>>

PassOver(e) ==
    /\ UntarError(e) = "none"
    /\ e.path = <<>> \/ e.type = "header"
    /\ UNCHANGED <<disk, written, unpacked>>

MakeDirectory(e) ==
    /\ UntarError(e) = "none" /\ e.path # <<>> /\ e.type = "dir"
    /\ disk' = WithDirs(e.path)
    /\ UNCHANGED <<written, unpacked>>

MakeLink(e) ==
    /\ UntarError(e) = "none" /\ e.path # <<>> /\ e.type = "link"
    /\ disk' = WithObject(WithDirs(Parent(e.path)), e.path,
                          [type |-> "link", up |-> e.up, down |-> e.down])
    /\ UNCHANGED <<written, unpacked>>

WriteFile(e) ==
    /\ UntarError(e) = "none" /\ e.path # <<>> /\ e.type = "file"
    /\ disk' = WithObject(WithDirs(Parent(e.path)), Follow(e.path), [type |-> "file", from |-> e])
    /\ written' = written + e.size
    /\ UNCHANGED unpacked

UntarEntry ==
    /\ unpacked = "reading" /\ chart = "none"
    /\ \E e \in unread :
         /\ unread' = unread \ {e}
         /\ RefuseToUnpack(e) \/ PassOver(e) \/ MakeDirectory(e) \/ MakeLink(e) \/ WriteFile(e)
    /\ UNCHANGED <<vars, chart>>

UntarEnds ==
    /\ unpacked = "reading" /\ chart = "none"
    /\ unread = {}
    /\ unpacked' = "done"
    /\ UNCHANGED <<vars, disk, unread, written, chart>>

(* unpackChart: the archive is one directory, or it is removed again.      *)
TopLevel == {p \in DOMAIN disk : Len(p) = 1}
UnpackChart ==
    /\ unpacked # "reading"
    /\ chart = "none"
    /\ chart' = IF unpacked = "done" /\ Cardinality(TopLevel) = 1 /\ \A p \in TopLevel : IsDirectory(p)
                THEN "handed" ELSE "removed"
    /\ UNCHANGED <<vars, disk, unread, written, unpacked>>

UntarNext ==
    \/ UntarEntry \/ UntarEnds \/ UnpackChart
    \/ chart # "none" /\ Next /\ UNCHANGED untarVars

UntarSpec == UntarInit /\ [][UntarNext]_allVars

-----------------------------------------------------------------------------
(* What is kept in memory and what is made on disk is well formed.         *)
UntarTypeOK ==
    /\ NormalizeTypeOK
    /\ DOMAIN disk \subseteq Seq(Name) \ {<<>>}
    /\ \A p \in DOMAIN disk : IsDirectory(Parent(p)) /\ disk[p].type \in {"dir", "file", "link"}
    /\ unread \subseteq tar
    /\ written \in 0 .. MaxBytes
    /\ unpacked \in {"reading", "done", "path", "kind", "large", "entries", "io"}
    /\ chart \in {"none", "handed", "removed", "not unpacked"}

(* Where an archive is laid out and Normalize accepts it, the two agree:   *)
(* what Normalize keeps is read at its path on disk, links followed unless *)
(* the system gives up on them, and is that entry's; no file on disk is    *)
(* missing from it but for ignored names; a chart handed over is one       *)
(* directory to Normalize too.  But when one name is both a link and a     *)
(* file, Normalize accepts only if it ignores both, and Untar writes the   *)
(* file where the link leads, a name of the tree perhaps.                  *)
WrittenThrough ==
    \E l, f \in tar :
        /\ l.type = "link" /\ f.type = "file"
        /\ l.path = f.path /\ l.path \notin {<<>>, BadName}
SameTree ==
    unpacked = "done" /\ status = "done" /\ ~WrittenThrough =>
        /\ \A i \in DOMAIN files :
             LET p == Follow(files[i].path) IN p # Loops => IsFile(p) /\ disk[p].from = files[i].from
        /\ \A p \in DOMAIN disk : IsFile(p) /\ ~IsIgnored(p) => \E i \in DOMAIN files : files[i].path = p
        /\ chart = "handed" => \A i, j \in DOMAIN files : files[i].path[1] = files[j].path[1]

(* What Untar refuses of an archive Normalize accepts is for what it alone *)
(* counts or creates: directories and ignored names, and a name that is    *)
(* both a file and above another entry, or both a directory and a link.    *)
Sized == {AsFile(e) : e \in {f \in tar : f.path \notin {<<>>, BadName} /\ f.type = "file"}}
Conflict ==
    \E e, f \in tar \ {g \in tar : g.path = BadName} :
        /\ e.type \in {"file", "link"} /\ f.type \in {"dir", "file", "link"}
        /\ e # f /\ Inside(e.path, f.path)
RefusedMore ==
    status = "done" =>
        /\ unpacked = "entries" => Cardinality(tar) > MaxEntries
        /\ unpacked = "large" => Bytes(Sized) > MaxBytes
        /\ unpacked = "io" => Conflict
        /\ unpacked \in {"path", "kind"} => \E e \in tar : Dropped(e) /\ e.type \in {"link", "other"}

(* Nothing past the caps is laid out, and both readers agree on the rest.  *)
UntarAgrees ==
    /\ unpacked = "done" => Cardinality(tar) <= MaxEntries /\ Bytes(Sized) <= MaxBytes
    /\ SameTree
    /\ RefusedMore
=============================================================================

----------------------------- MODULE Normalize -----------------------------
(***************************************************************************)
(* Normalize (normalize.go): read an uploaded tar into the files of its    *)
(* canonical form.  Entries are read in the order they come, names that a  *)
(* bundle never carries are dropped, then each symlink is replaced by a    *)
(* copy of what it leads to.                                               *)
(*                                                                         *)
(* A file's bytes are the entry they came in.  A link's target is kept as  *)
(* path.Join reads it: how far it climbs from the link's directory and     *)
(* what it descends to; an absolute target is one that climbs too far.     *)
(***************************************************************************)
EXTENDS Paths, SequencesExt

CONSTANTS
    Name,          \* names, ignored ones included
    IgnoredNames,  \* .git, .terraform, .terragrunt-cache
    BadName,       \* a header name cleanPath refuses
    Tars,          \* the tars that may arrive: sets of entries
    MaxEntries,    \* maxEntries
    MaxBytes,      \* MaxUncompressed
    MaxLinkDepth   \* maxLinkDepth

(* `copy` tells two entries of one name apart.                             *)
IsEntry(e) ==
    /\ DOMAIN e = {"path", "type", "size", "up", "down", "copy"}
    /\ e.type \in {"dir", "header", "file", "link", "other"}
    /\ e.size \in Nat /\ e.up \in Nat

ASSUME LimitsAssumption == MaxEntries \in Nat /\ MaxBytes \in Nat /\ MaxLinkDepth \in Nat
ASSUME NamesAssumption == BadName \notin Name
ASSUME TarsAssumption ==
    \A t \in Tars :
        /\ IsFiniteSet(t)
        /\ \A e \in t : IsEntry(e) /\ e.down \in Seq(Name) /\ (e.path # BadName => e.path \in Seq(Name))

VARIABLES
    tar,      \* the entries that arrived; never changes
    todo,     \* entries not read yet
    files,    \* files kept, then the copies links become: path, and entry they are from
    links,    \* link -> where path.Join says it points
    total,    \* bytes counted: of the files read, then of those checked
    tree,     \* linkTree.files: the files as read
    pending,  \* links not replaced yet
    frames,   \* calls of expand not returned: dst, src, and links below src to do
    checked,  \* files looked at again after the links are replaced
    status    \* "reading", "linking", "checking", "done", or why it was refused

linkVars == <<tree, pending, frames, checked>>
vars == <<tar, todo, files, links, total, linkVars, status>>

Refusals == {"path", "kind", "large", "entries", "empty"}

(* Slip: only the last name on the path is looked at.                      *)
IsIgnored_LastName(p) == p # <<>> /\ p[Len(p)] \in IgnoredNames
IsIgnored(p) == \E i \in DOMAIN p : p[i] \in IgnoredNames
Parent(p) == SubSeq(p, 1, Len(p) - 1)

Init ==
    /\ tar \in Tars
    /\ todo = tar
    /\ files = <<>>
    /\ links = [p \in {} |-> <<>>]
    /\ total = 0
    /\ tree = {}
    /\ pending = {}
    /\ frames = <<>>
    /\ checked = 0
    /\ status = "reading"

Refuse(why) ==
    /\ status' = why
    /\ UNCHANGED <<tar, files, links, total, linkVars>>

-----------------------------------------------------------------------------
(* readTree, one entry.                                                    *)

Taken(p) == p \in DOMAIN links \/ \E i \in DOMAIN files : files[i].path = p
AtCap == Len(files) + Cardinality(DOMAIN links) >= MaxEntries
(* linkStaysInside.                                                        *)
LinkStaysInside(e) == ~Climbs(Parent(e.path), e.up)

Dropped(e) == e.path # BadName /\ (e.path = <<>> \/ IsIgnored(e.path))

EntryError(e) ==
    IF e.path = BadName THEN "path"
    ELSE IF Dropped(e) THEN "none"
    ELSE IF AtCap THEN "entries"
    ELSE IF e.type = "other" THEN "kind"
    ELSE IF e.type = "file" /\ total + e.size > MaxBytes THEN "large"
    ELSE IF e.type = "link" /\ ~LinkStaysInside(e) THEN "path"
    ELSE IF e.type \in {"file", "link"} /\ Taken(e.path) THEN "path"
    ELSE "none"

SkipEntry(e) ==
    /\ EntryError(e) = "none"
    /\ Dropped(e) \/ e.type \in {"dir", "header"}
    /\ UNCHANGED <<tar, files, links, total, linkVars, status>>

RefuseEntry(e) == EntryError(e) # "none" /\ Refuse(EntryError(e))

AsFile(e) == [path |-> e.path, from |-> e]
ReadFile(e) ==
    /\ EntryError(e) = "none" /\ ~Dropped(e)
    /\ e.type = "file"
    /\ files' = Append(files, AsFile(e))
    /\ total' = total + e.size
    /\ UNCHANGED <<tar, links, linkVars, status>>

PointsTo(e) == JoinSource(Parent(e.path), e.up, e.down)
ReadLink(e) ==
    /\ EntryError(e) = "none" /\ ~Dropped(e)
    /\ e.type = "link"
    /\ links' = [p \in DOMAIN links \cup {e.path} |-> IF p = e.path THEN PointsTo(e) ELSE links[p]]
    /\ UNCHANGED <<tar, files, total, linkVars, status>>

ReadEntry ==
    /\ status = "reading"
    /\ \E e \in todo :
         /\ todo' = todo \ {e}
         /\ SkipEntry(e) \/ RefuseEntry(e) \/ ReadFile(e) \/ ReadLink(e)

StartLinks ==
    /\ status = "reading"
    /\ todo = {}
    /\ status' = IF DOMAIN links # {} THEN "linking"
                 ELSE IF files = <<>> THEN "empty" ELSE "done"
    /\ tree' = {files[i] : i \in DOMAIN files}
    /\ pending' = DOMAIN links
    /\ UNCHANGED <<tar, todo, files, links, total, frames, checked>>

-----------------------------------------------------------------------------
(* resolveLinks: linkTree.real and linkTree.expand.                        *)

(* A path with the first link on it followed, `to` being where links point,*)
(* again and again; Loops when there is still one after `limit` of them.   *)
LinkedAt(p, to) == {i \in DOMAIN p : SubSeq(p, 1, i) \in DOMAIN to}
FollowFirst(p, to) ==
    LET i == CHOOSE j \in LinkedAt(p, to) : \A h \in LinkedAt(p, to) : j <= h IN
    to[SubSeq(p, 1, i)] \o SubSeq(p, i + 1, Len(p))
Loops == <<BadName>>
Followed(p, to, limit) ==
    LET at[depth \in 0 .. limit] ==
            IF depth = 0 THEN p
            ELSE IF LinkedAt(at[depth - 1], to) = {} THEN at[depth - 1]
            ELSE FollowFirst(at[depth - 1], to)
    IN IF LinkedAt(at[limit], to) = {} THEN at[limit] ELSE Loops
real(p) == Followed(p, links, MaxLinkDepth)

(* What expand finds at a real path: a file, or what is under a directory. *)
FileAt(src) == {f \in tree : f.path = src}
FilesUnder(src) == {f \in tree : StrictlyInside(src, f.path)}
Found(src) == IF FileAt(src) # {} THEN FileAt(src) ELSE FilesUnder(src)
LinksUnder(src) == {l \in DOMAIN links : StrictlyInside(src, l)}
Copies(dst, src) == {[f EXCEPT !.path = dst \o Rel(src, f.path)] : f \in Found(src)}

Active == {frames[i].src : i \in DOMAIN frames}
ExpandError(src) ==
    IF src = Loops THEN "path"
    ELSE IF Len(files) >= MaxEntries THEN "entries"
    ELSE IF FileAt(src) = {} /\ src \in Active THEN "path"
    ELSE IF Len(files) + Cardinality(Found(src)) > MaxEntries THEN "entries"
    ELSE IF Found(src) = {} /\ LinksUnder(src) = {} THEN "path"
    ELSE "none"

(* Slip: links inside a linked directory are left out.                     *)
Expand_FilesOnly(dst, src, callers) ==
    /\ files' = files \o SetToSeq(Copies(dst, src))
    /\ frames' = callers
    /\ UNCHANGED <<tar, links, total, tree, checked, status>>
Expand(dst, src, callers) ==
    /\ files' = files \o SetToSeq(Copies(dst, src))
    /\ frames' = IF FileAt(src) # {} THEN callers
                 ELSE Append(callers, [dst |-> dst, src |-> src, rest |-> LinksUnder(src)])
    /\ UNCHANGED <<tar, links, total, tree, checked, status>>

(* One link is replaced, or one below a directory that is being copied;    *)
(* the code goes through them by name.                                     *)
ResolveLink ==
    /\ status = "linking" /\ frames = <<>>
    /\ UNCHANGED todo
    /\ \E l \in pending :
         IF ExpandError(real(l)) # "none" THEN Refuse(ExpandError(real(l)))
         ELSE Expand(l, real(l), frames) /\ pending' = pending \ {l}

Top == frames[Len(frames)]
ResolveInner ==
    /\ status = "linking" /\ frames # <<>>
    /\ UNCHANGED <<todo, pending>>
    /\ \E l \in Top.rest :
         IF ExpandError(real(l)) # "none" THEN Refuse(ExpandError(real(l)))
         ELSE Expand(Top.dst \o Rel(Top.src, l), real(l),
                     [frames EXCEPT ![Len(frames)].rest = Top.rest \ {l}])

ReturnFromExpand ==
    /\ status = "linking" /\ frames # <<>>
    /\ Top.rest = {}
    /\ frames' = SubSeq(frames, 1, Len(frames) - 1)
    /\ UNCHANGED <<tar, todo, files, links, total, tree, pending, checked, status>>

LinksReplaced ==
    /\ status = "linking" /\ frames = <<>>
    /\ pending = {}
    /\ total' = 0
    /\ status' = "checking"
    /\ UNCHANGED <<tar, todo, files, links, linkVars>>

(* Every file is looked at again: two of one path, and what all weigh.     *)
(* Slip: what the copies make is not looked at again.                      *)
CheckFile_Unchecked ==
    /\ status = "checking" /\ checked < Len(files)
    /\ checked' = checked + 1
    /\ UNCHANGED <<tar, todo, files, links, total, tree, pending, frames, status>>
CheckFile ==
    /\ status = "checking" /\ checked < Len(files)
    /\ UNCHANGED todo
    /\ LET f == files[checked + 1] IN
       IF \E i \in 1 .. checked : files[i].path = f.path THEN Refuse("path")
       ELSE IF total + f.from.size > MaxBytes THEN Refuse("large")
       ELSE /\ checked' = checked + 1
            /\ total' = total + f.from.size
            /\ UNCHANGED <<tar, files, links, tree, pending, frames, status>>

FinishLinks ==
    /\ status = "checking" /\ checked = Len(files)
    /\ status' = "done"
    /\ UNCHANGED <<tar, todo, files, links, total, linkVars>>

Next ==
    \/ ReadEntry \/ StartLinks
    \/ ResolveLink \/ ResolveInner \/ ReturnFromExpand \/ LinksReplaced
    \/ CheckFile \/ FinishLinks

Spec == Init /\ [][Next]_vars

-----------------------------------------------------------------------------
(* The tree a tar means, whatever order its entries come in: the least set *)
(* of files in which a link's path holds what its target's path holds.  It *)
(* is found by adding, round after round, what links add; each round adds  *)
(* something until the set is that set, or larger than any tar may be.     *)

Kept == {e \in tar : e.path # BadName /\ ~Dropped(e)}
KeptFiles == {e \in Kept : e.type = "file"}
KeptLinks == {e \in Kept : e.type = "link"}
Start == {AsFile(e) : e \in KeptFiles}
Linked(S) ==
    UNION {{[f EXCEPT !.path = l.path \o Rel(PointsTo(l), f.path)] :
                f \in {g \in S : Inside(PointsTo(l), g.path)}} : l \in KeptLinks}
MeantFiles ==
    LET meant[round \in 0 .. MaxEntries + 1] ==
            IF round = 0 THEN Start
            ELSE IF Cardinality(meant[round - 1]) > MaxEntries THEN meant[round - 1]
            ELSE meant[round - 1] \cup Linked(meant[round - 1])
    IN meant[MaxEntries + 1]

TooMany == Cardinality(MeantFiles) > MaxEntries
Bytes(S) == Cardinality(UNION {{f} \X (1 .. f.from.size) : f \in S})
Dangling == \E l \in KeptLinks : ~\E f \in MeantFiles : Inside(l.path, f.path)
Repeated == \E e, f \in KeptFiles \cup KeptLinks : e # f /\ e.path = f.path
Escaping == \E l \in KeptLinks : ~LinkStaysInside(l)
(* A path that leads through more than maxLinkDepth links, repeated ones   *)
(* counted as often as they are met.                                       *)
LongChain == \E l \in DOMAIN links : real(l) = Loops

(* A file or a link that lies below a link's own name, or below a file's:  *)
(* not a tree, and Normalize does not look for either.                     *)
Overlaid == \E l \in KeptLinks, e \in KeptFiles \cup KeptLinks : StrictlyInside(l.path, e.path)
Blocked == \E f \in KeptFiles, e \in KeptFiles \cup KeptLinks : StrictlyInside(f.path, e.path)
TwoAtOnePath == \E i, j \in DOMAIN files : i # j /\ files[i].path = files[j].path

NormalizeTypeOK ==
    /\ todo \subseteq tar
    /\ \A i \in DOMAIN files : files[i].path \in Seq(Name \ IgnoredNames) /\ files[i].from \in KeptFiles
    /\ DOMAIN links \subseteq Seq(Name \ IgnoredNames) /\ \A l \in DOMAIN links : links[l] \in Seq(Name)
    /\ pending \subseteq DOMAIN links
    /\ \A i \in DOMAIN frames : frames[i].rest \subseteq LinksUnder(frames[i].src)
    /\ total \in 0 .. MaxBytes
    /\ checked \in 0 .. Len(files) /\ Len(files) <= MaxEntries
    /\ status \in {"reading", "linking", "checking", "done"} \cup Refusals

(* The canonical form is the tree the tar means and nothing else: a link's *)
(* path holds a copy of all its target holds, links on the way and links   *)
(* inside followed, and no ignored name comes back through a link.         *)
NormalizedIsTheTree ==
    status = "done" /\ ~Overlaid /\ ~Blocked =>
        /\ {files[i] : i \in DOMAIN files} = MeantFiles
        /\ ~TwoAtOnePath

(* What is accepted has none of the faults, and fits.                      *)
AcceptedHasNoFault ==
    status = "done" =>
        /\ \A e \in tar : e.path # BadName
        /\ \A e \in Kept : e.type # "other"
        /\ ~Repeated /\ ~Escaping /\ ~LongChain /\ KeptFiles # {}
        /\ ~Overlaid /\ ~Blocked => ~TooMany /\ ~Dangling /\ Bytes(MeantFiles) <= MaxBytes
        /\ Len(files) <= MaxEntries /\ Bytes({files[i] : i \in DOMAIN files}) <= MaxBytes
        /\ ~TwoAtOnePath

(* And what is refused has one.  At the cap an entry that would not have   *)
(* counted, a directory, refuses the tar if it comes last, and a link that *)
(* leads nowhere is one too many before it is looked at.                   *)
RefusedHasFault ==
    /\ status = "empty" => KeptFiles = {}
    /\ status = "kind" => \E e \in Kept : e.type = "other"
    /\ status = "large" => TooMany \/ Bytes(Start) > MaxBytes \/ Bytes(MeantFiles) > MaxBytes
    /\ status = "entries" =>
         \/ TooMany \/ Dangling \/ Overlaid
         \/ Cardinality(KeptFiles) + Cardinality(KeptLinks) > MaxEntries
         \/ /\ Cardinality(KeptFiles) + Cardinality(KeptLinks) = MaxEntries
            /\ \E e \in Kept : e.type \in {"dir", "header", "other"}
    /\ status = "path" =>
         \/ \E e \in tar : e.path = BadName
         \/ Repeated \/ Escaping \/ Dangling \/ TooMany \/ LongChain \/ Overlaid

(* The verdict is of the tree, not of the order its entries came in.       *)
VerdictIsOfTheTree == AcceptedHasNoFault /\ RefusedHasFault
=============================================================================

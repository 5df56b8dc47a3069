---------------------------- MODULE HelmClosure ----------------------------
(***************************************************************************)
(* closeHelm (helm.go): vendor a chart's locked dependencies under charts/ *)
(* of the staging copy, descending into each one that is a directory; and  *)
(* CloseChart (closure.go), the server's judgement of the chart packed.    *)
(*                                                                         *)
(* A chart directory is named by the charts/ it nests in: <<r, a>> is      *)
(* r/charts/a.  Its content is whether Chart.yaml is there, the            *)
(* dependencies it declares, Chart.lock, and the archives in its charts/,  *)
(* an archive being the name and version in its file name.                 *)
(***************************************************************************)
EXTENDS Paths

CONSTANTS
    RootChart,  \* the chart being packed
    Outside,    \* directories that really lie outside Options.Boundary
    Name,       \* what charts and the directories under charts/ are called
    Worlds,     \* what the disk may hold: functions from chart directories
    MaxDepth,   \* maxChartDepth
    NoLock      \* no Chart.lock

RepoKinds == {"none", "file", "oci", "http", "alias", "other"}
IsDependency(d) ==
    /\ DOMAIN d = {"name", "version", "repo"}
    /\ d.name \in Name
    /\ d.repo.kind \in RepoKinds
AreDependencies(list) ==
    /\ list \in Seq({list[i] : i \in DOMAIN list})
    /\ \A i \in DOMAIN list : IsDependency(list[i])
Chart(content) ==
    /\ content.chart \in BOOLEAN
    /\ AreDependencies(content.deps)
    /\ content.lock = NoLock \/ AreDependencies(content.lock)

ASSUME DepthAssumption == MaxDepth \in Nat
ASSUME ChartsAssumption ==
    \A w \in Worlds :
        /\ RootChart \in DOMAIN w
        /\ \A d \in DOMAIN w : d \in Seq(Name) /\ d # <<>> /\ Chart(w[d])

VARIABLES
    disk,     \* the chart directories of this world; never changes
    stage,    \* bundle chart directory -> where its files came from, its archives
    stack,    \* the charts being closed, innermost last
    pins,     \* what each locked dependency resolved to, in order
    out,      \* Vendored: what was brought in, and where
    status,   \* "staging", "closing", "packed" or "refused"
    reason    \* why it was refused

vars == <<disk, stage, stack, pins, out, status, reason>>

-----------------------------------------------------------------------------
IsChart(st, p) == p \in DOMAIN st /\ disk[st[p].from].chart

(* copyTree: every file below src, over what dst held.                     *)
Copy(st, src, dst) ==
    LET lands == {dst \o Rel(src, d) : d \in {e \in DOMAIN disk : Inside(src, e)}}
        Landing(p) ==
            LET d == src \o Rel(dst, p) IN
            [from  |-> IF IsChart(st, p) /\ ~disk[d].chart THEN st[p].from ELSE d,
             tgz   |-> disk[d].tgz \cup (IF p \in DOMAIN st THEN st[p].tgz ELSE {})] IN
    [p \in DOMAIN st \cup lands |-> IF p \in lands THEN Landing(p) ELSE st[p]]

(* findDependency, and the lock checked against the declaration.           *)
SameDependency(d, l) == d.name = l.name /\ d.repo = l.repo
LockMatches(meta) ==
    /\ Len(meta.deps) = Len(meta.lock)
    /\ \A j \in DOMAIN meta.lock : \E i \in DOMAIN meta.deps :
          SameDependency(meta.deps[i], meta.lock[j])

Top == stack[Len(stack)]
Below == SubSeq(stack, 1, Len(stack) - 1)
Meta == disk[Top.src]
Locked == Meta.lock[Top.next]
Archive(d) == <<d.name, d.version>>
Frame(src, at) == [src |-> src, at |-> at, next |-> 0]

Refuse(why) ==
    /\ status' = "refused"
    /\ reason' = why
    /\ UNCHANGED <<disk, stage, stack, pins, out>>

Init ==
    /\ disk \in Worlds
    /\ stage = [p \in {} |-> {}]
    /\ stack = <<>>
    /\ pins = <<>>
    /\ out = <<>>
    /\ status = "staging"
    /\ reason = "none"

(* PackContext stages the chart; closeHelm starts at its root.             *)
StageRoot ==
    /\ status = "staging"
    /\ stage' = Copy(stage, RootChart, <<>>)
    /\ stack' = <<Frame(RootChart, <<>>)>>
    /\ status' = "closing"
    /\ UNCHANGED <<disk, pins, out, reason>>

-----------------------------------------------------------------------------
(* closeChart, one chart: enter it, close its dependencies, return.        *)

Entering == status = "closing" /\ stack # <<>> /\ Top.next = 0

(* Slip: nesting is not bounded.                                           *)
ChartError_Unbounded ==
    CASE ~(Top.src \in DOMAIN disk /\ Meta.chart) -> "io"
      [] OTHER -> IF Meta.deps = <<>> THEN "none"
                  ELSE IF Meta.lock = NoLock THEN "lock"
                  ELSE IF ~LockMatches(Meta) THEN "stale" ELSE "none"
ChartError ==
    IF Len(stack) - 1 > MaxDepth THEN "depth"
    ELSE IF Top.src \notin DOMAIN disk THEN "io"
    ELSE IF ~Meta.chart THEN "io"
    ELSE IF Meta.deps = <<>> THEN "none"
    ELSE IF Meta.lock = NoLock THEN "lock"
    ELSE IF ~LockMatches(Meta) THEN "stale"
    ELSE "none"

RefuseChart == Entering /\ ChartError # "none" /\ Refuse(ChartError)

EnterChart ==
    /\ Entering
    /\ ChartError = "none"
    /\ stack' = IF Meta.deps = <<>> THEN Below ELSE [stack EXCEPT ![Len(stack)].next = 1]
    /\ UNCHANGED <<disk, stage, pins, out, status, reason>>

Closing == status = "closing" /\ stack # <<>> /\ Top.next > 0

ReturnFromChart ==
    /\ Closing
    /\ Top.next > Len(Meta.lock)
    /\ stack' = Below
    /\ UNCHANGED <<disk, stage, pins, out, status, reason>>

(* vendorChartDependency, one locked dependency.                           *)

At == Top.at \o <<Locked.name>>
OneDependency == Closing /\ Top.next <= Len(Meta.lock)
ArchiveThere == OneDependency /\ Archive(Locked) \in stage[Top.at].tgz
Absent(st) == OneDependency /\ ~ArchiveThere /\ ~IsChart(st, At)

Pinned == pins' = Append(pins, Archive(Locked))
Advanced == [stack EXCEPT ![Len(stack)].next = @ + 1]

(* Slip: a dependency that was there already is not pinned.                *)
KeepArchive_Unpinned ==
    /\ ArchiveThere
    /\ stack' = Advanced
    /\ UNCHANGED <<disk, stage, pins, out, status, reason>>
KeepArchive ==
    /\ ArchiveThere
    /\ Pinned
    /\ stack' = Advanced
    /\ UNCHANGED <<disk, stage, out, status, reason>>

(* A directory already under charts/ of the stage is closed from the same  *)
(* place of the chart on disk.  Slips: it is not closed; it is closed from *)
(* the root chart's own charts/.                                           *)
KeepUnpacked_NotClosed ==
    /\ OneDependency /\ ~ArchiveThere /\ IsChart(stage, At)
    /\ Pinned
    /\ stack' = Advanced
    /\ UNCHANGED <<disk, stage, out, status, reason>>
KeepUnpacked_FromRoot ==
    /\ OneDependency /\ ~ArchiveThere /\ IsChart(stage, At)
    /\ Pinned
    /\ stack' = Append(Advanced, Frame(RootChart \o <<Locked.name>>, At))
    /\ UNCHANGED <<disk, stage, out, status, reason>>
KeepUnpacked ==
    /\ OneDependency
    /\ ~ArchiveThere
    /\ IsChart(stage, At)
    /\ Pinned
    /\ stack' = Append(Advanced, Frame(Top.src \o <<Locked.name>>, At))
    /\ UNCHANGED <<disk, stage, out, status, reason>>

DependencyError ==
    CASE Locked.repo.kind = "none" -> "local"
      [] Locked.repo.kind \in {"alias", "other"} -> "unsupported"
      [] Locked.repo.kind = "file" ->
           IF Locked.repo.dir \notin DOMAIN disk THEN "missing"
           ELSE IF Locked.repo.dir \in Outside THEN "boundary"
           ELSE "none"
      [] OTHER -> "none"

RefuseDependency == Absent(stage) /\ DependencyError # "none" /\ Refuse(DependencyError)

(* Slip: the copy is made whether or not the chart is there already.       *)
FromDirectory_Overwrites ==
    /\ OneDependency /\ ~ArchiveThere /\ Locked.repo.kind = "file" /\ DependencyError = "none"
    /\ Pinned
    /\ stage' = Copy(stage, Locked.repo.dir, At)
    /\ out' = Append(out, [caller |-> Top.at, archive |-> Archive(Locked), into |-> At])
    /\ stack' = Append(Advanced, Frame(Locked.repo.dir, At))
    /\ UNCHANGED <<disk, status, reason>>
FromDirectory ==
    /\ Absent(stage)
    /\ Locked.repo.kind = "file"
    /\ DependencyError = "none"
    /\ Pinned
    /\ stage' = Copy(stage, Locked.repo.dir, At)
    /\ out' = Append(out, [caller |-> Top.at, archive |-> Archive(Locked), into |-> At])
    /\ stack' = Append(Advanced, Frame(Locked.repo.dir, At))
    /\ UNCHANGED <<disk, status, reason>>

(* From an OCI registry or a repository's index, as one archive named for  *)
(* the locked version; the network, the index and the digest may refuse.   *)
Downloading == Absent(stage) /\ Locked.repo.kind \in {"oci", "http"}
Brought ==
    /\ Pinned
    /\ stage' = [stage EXCEPT ![Top.at].tgz = @ \cup {Archive(Locked)}]
    /\ out' = Append(out, [caller |-> Top.at, archive |-> Archive(Locked), into |-> Top.at])
    /\ stack' = Advanced
    /\ UNCHANGED <<disk, status, reason>>
Download == Downloading /\ (Refuse("fetch") \/ Brought)

Packed ==
    /\ status = "closing"
    /\ stack = <<>>
    /\ status' = "packed"
    /\ UNCHANGED <<disk, stage, stack, pins, out, reason>>

(* Every step that needs no network.                                       *)
Offline ==
    \/ StageRoot \/ RefuseChart \/ EnterChart \/ ReturnFromChart
    \/ KeepArchive \/ KeepUnpacked \/ RefuseDependency \/ FromDirectory
    \/ Packed

Next == Offline \/ Download

Spec == Init /\ [][Next]_vars

-----------------------------------------------------------------------------
(* CloseChart on the tar: a chart, and every chart unpacked below it, has  *)
(* for each declared dependency a directory of its name or an archive of   *)
(* its name and declared version.                                          *)

ChartsIn(st) == {p \in DOMAIN st : \A i \in 0 .. Len(p) : IsChart(st, SubSeq(p, 1, i))}
Declared(st, p) == {disk[st[p].from].deps[i] : i \in DOMAIN disk[st[p].from].deps}
Present(st, p, d) == IsChart(st, p \o <<d.name>>) \/ Archive(d) \in st[p].tgz
CloseChart(st) == \A p \in ChartsIn(st) : \A d \in Declared(st, p) : Present(st, p, d)

-----------------------------------------------------------------------------
(* What packing a chart promises.                                          *)

(* The state is well formed; and however charts on disk name each other,   *)
(* what is staged nests no deeper than the bound and one directory as the  *)
(* author nested it.                                                       *)
HelmTypeOK ==
    /\ RootChart \in DOMAIN disk
    /\ \A p \in DOMAIN stage : stage[p].from \in DOMAIN disk
    /\ \A i \in DOMAIN stack : stack[i].at \in DOMAIN stage /\ stack[i].next \in Nat
    /\ \A i \in DOMAIN out : out[i].caller \in DOMAIN stage /\ out[i].into \in DOMAIN stage
    /\ status \in {"staging", "closing", "packed", "refused"}
    /\ \A p \in DOMAIN stage : \E d \in DOMAIN disk : Len(p) <= MaxDepth + Len(d)

LockEntries(meta) ==
    IF meta.lock = NoLock THEN {} ELSE {meta.lock[i] : i \in DOMAIN meta.lock}

(* The chart a frame reads on disk is the one staged where it writes.      *)
ReadsWhatItStaged == \A i \in DOMAIN stack : stage[stack[i].at].from = stack[i].src

(* It is, except where two dependencies of one chart have one name, or a   *)
(* directory under charts/ that is no chart holds one: what is decided     *)
(* from the chart on disk then holds for the chart in the bundle.          *)
NamesOnce(meta) ==
    meta.lock # NoLock =>
        \A i, j \in DOMAIN meta.lock : meta.lock[i].name = meta.lock[j].name => i = j
Charted(d) == d \in DOMAIN disk /\ disk[d].chart
ChartsHoldCharts ==
    \A d \in DOMAIN disk : Charted(d) => \A n \in 2 .. Len(d) : Charted(SubSeq(d, 1, n))
ReadsWhatItStagedByName ==
    (\A d \in DOMAIN disk : NamesOnce(disk[d])) /\ ChartsHoldCharts => ReadsWhatItStaged

(* Anything under charts/ in the working copy is kept as it is: every      *)
(* archive, and every chart that is under charts all the way.  (Over a     *)
(* directory that is no chart a dependency of its name is copied, and over *)
(* the charts in it.)                                                      *)
AuthorsChartsKept ==
    status # "staging" =>
        \A d \in DOMAIN disk : Inside(RootChart, d) =>
            LET p == Rel(RootChart, d) IN
            /\ p \in DOMAIN stage /\ disk[d].tgz \subseteq stage[p].tgz
            /\ (\A n \in Len(RootChart) .. Len(d) : Charted(SubSeq(d, 1, n))) => stage[p].from = d

(* A staged chart was closed if every directory on the way to it is a      *)
(* locked dependency of the chart above.                                   *)
IsLocked(d, name) == \E l \in LockEntries(disk[d]) : l.name = name
ClosedCharts ==
    {p \in ChartsIn(stage) : \A i \in 1 .. Len(p) :
        LET above == SubSeq(p, 1, i - 1) IN
        /\ disk[stage[above].from].deps # <<>>
        /\ IsLocked(stage[above].from, p[i])
        /\ \A l \in LockEntries(disk[stage[above].from]) :
              l.name = p[i] => Archive(l) \notin stage[above].tgz}

(* Every dependency of every chart closed is pinned at its locked version, *)
(* one that was already under charts/ included.                            *)
EveryDependencyPinned ==
    status = "packed" =>
        \A p \in ClosedCharts : disk[stage[p].from].deps # <<>> =>
            \A l \in LockEntries(disk[stage[p].from]) :
                \E i \in DOMAIN pins : pins[i] = Archive(l)

(* The chart packed is accepted by the server, if of each chart in it the  *)
(* lock names every dependency declared, at the declared version, and      *)
(* every directory under its charts/ is one of them.                       *)
Faithful(p) ==
    LET meta == disk[stage[p].from] IN
    /\ \A d \in Declared(stage, p) : d \in LockEntries(meta)
    /\ \A q \in ChartsIn(stage) :
          Len(q) = Len(p) + 1 /\ Inside(p, q) => q \in ClosedCharts \/ disk[stage[q].from].deps = <<>>
PackedChartAccepted ==
    status = "packed" /\ (\A p \in ChartsIn(stage) : Faithful(p)) => CloseChart(stage)

(* README.md:12-14, without a condition: every chart dependency of a       *)
(* packed component is under charts/, as the server looks for it.          *)
PackedChartIsClosed == status = "packed" => CloseChart(stage)
=============================================================================

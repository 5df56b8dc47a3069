-------------------------- MODULE TerraformClosure --------------------------
(***************************************************************************)
(* closeTerraform (pack.go) for one component, from PackContext's staging  *)
(* copy to the tree that is tarred: walk module calls from the root, bring *)
(* every directory that is not in the bundle into it, and point each call  *)
(* at where its module now lives.                                          *)
(*                                                                         *)
(* A module is known by two paths: where it really is (abs), which its own *)
(* relative sources resolve against, and where it sits in the bundle       *)
(* (rel), which rewritten sources point at.  The host and the fetcher's    *)
(* scratch are one set of absolute directories; a fetched tree is the      *)
(* directories at and below its scratch root.  A directory's content is    *)
(* its configuration (whether there is a file, in which syntax, whether it *)
(* parses, and its module calls in name order) and the directory it really *)
(* is once links are followed.                                             *)
(***************************************************************************)
EXTENDS Paths

CONSTANTS
    Name,      \* the names paths are made of
    Dirs,      \* every directory that exists, as absolute clean paths
    RootAbs,   \* the component being packed
    Ignored,   \* names a bundle never carries: .git, .terraform, ...
    Vendor,    \* the name "vendor"
    Boundary,  \* Options.Boundary as a set: empty when none is set
    Addr,      \* identities of remote trees: what the fetcher dedups by
    TreeAt,    \* Addr -> the scratch directory the tree is fetched into
    Prefix,    \* Addr -> the bundle directory the tree's root maps to
    Escaping,  \* addresses whose prefix cleans to a path outside the stage
    Worlds,    \* what the disk may hold: functions from Dirs to contents
    NoTree     \* the tree of a module that was not fetched

Kinds == {"local", "remote", "nonliteral", "unsupported"}

(* A call's source.  A local one is the clean relative path: `up` parents, *)
(* then `down`.  A remote one is a tree's address and the `//subdir` in    *)
(* it, whose `up` counts the `..` that would climb out of the tree.        *)
IsCall(c) ==
    /\ DOMAIN c = {"kind", "up", "down", "addr"}
    /\ c.kind \in Kinds
    /\ c.up \in Nat
    /\ c.down \in Seq(Name)
    /\ c.kind = "remote" => c.addr \in Addr

ASSUME DirsAssumption == Dirs \subseteq Seq(Name) /\ IsFiniteSet(Dirs)
(* A name that is numbered is another name.                                *)
ASSUME NamesAssumption == \A nm \in Name \cup {Vendor} : nm \notin {nm} \X Nat
ASSUME RootAssumption ==
    /\ RootAbs \in Dirs
    /\ NoTree \notin Addr
    /\ Boundary \subseteq Dirs
ASSUME TreeAssumption ==
    /\ DOMAIN TreeAt = Addr /\ DOMAIN Prefix = Addr /\ Escaping \subseteq Addr
    /\ \A t \in Addr : TreeAt[t] \in Dirs /\ Prefix[t] \in Seq(Name)
    /\ \A t, u \in Addr : t # u => ~Inside(TreeAt[t], TreeAt[u])
ASSUME WorldsAssumption ==
    \A w \in Worlds :
        /\ DOMAIN w = Dirs
        /\ \A d \in Dirs : w[d].real \in Dirs /\ w[d].file \in BOOLEAN
        /\ \A d \in Dirs : LET calls == w[d].calls IN
             /\ calls \in Seq({calls[i] : i \in DOMAIN calls})
             /\ ~w[d].file => calls = <<>>
             /\ \A i \in DOMAIN calls : IsCall(calls[i])

(* Apart from every scratch directory.  These get random names, so neither *)
(* the component nor what the host's modules call by path is one of them,  *)
(* in one, or around one.                                                  *)
OnHost(d) == \A t \in Addr : ~Inside(TreeAt[t], d) /\ ~Inside(d, TreeAt[t])
ASSUME HostAssumption ==
    /\ OnHost(RootAbs)
    /\ \A w \in Worlds : \A d \in {e \in Dirs : OnHost(e)} : \A i \in DOMAIN w[d].calls :
         LET c == w[d].calls[i]
             target == JoinSource(d, c.up, c.down) IN
         c.kind = "local" /\ target \in Dirs => OnHost(target)

VARIABLES
    disk,     \* the world this pack runs in; never changes
    stage,    \* bundle directory -> what was copied there, calls as rewritten
    placed,   \* abs -> the bundle directory it lives at
    used,     \* bundle directories vendorPath has handed out
    queue,    \* modules still to walk
    walked,   \* module directories whose own calls have been read
    cur,      \* the module being walked
    k,        \* the call of it to look at next
    trees,    \* addresses fetched so far
    pins,     \* the pins they recorded, in resolution order
    out,      \* Vendored: what was copied where, in order
    status,   \* "staging", "closing", "packed" or "refused"
    reason    \* why it was refused

vars == <<disk, stage, placed, used, queue, walked, cur, k, trees, pins, out, status, reason>>

-----------------------------------------------------------------------------
(* The file tree: copyTree, boundaries, and where a directory goes.        *)

(* filepath.EvalSymlinks.                                                  *)
Real(d) == disk[d].real

(* withinBoundary, every link followed.                                    *)
WithinBoundary(p) == \A b \in Boundary : Inside(Real(b), Real(p))

ResolvesInside(root, p) == Inside(Real(root), Real(p))

(* What copyTree carries of src: everything below it but ignored names.    *)
CopiedDirs(src) ==
    {d \in Dirs : Inside(src, d) /\ \A i \in (Len(src) + 1) .. Len(d) : d[i] \notin Ignored}

(* Slip: the boundary is compared with paths as spelled, links unread.     *)
CopyOK_Lexical(src, boundary) == \A d \in CopiedDirs(src) : Inside(boundary, d)

(* copyTree succeeds when no link leaves the boundary and none leads back  *)
(* to a directory on the way down to it.                                   *)
CopyOK(src, boundary) ==
    \A d \in CopiedDirs(src) :
        /\ Inside(Real(boundary), Real(d))
        /\ \A e \in CopiedDirs(src) : StrictlyInside(e, d) => Real(e) # Real(d)

(* The stage once src is copied to dst: a file lands over what was there,  *)
(* a directory merges into it.                                             *)
Copy(st, src, dst) ==
    LET lands == {dst \o Rel(src, d) : d \in CopiedDirs(src)}
        Origin(p) == CHOOSE d \in CopiedDirs(src) : p = dst \o Rel(src, d)
        Copied(d) == [from |-> d, file |-> disk[d].file, calls |-> disk[d].calls]
        Keeps(p) == p \in DOMAIN st /\ (p \in lands => ~disk[Origin(p)].file) IN
    [p \in DOMAIN st \cup lands |-> IF Keeps(p) THEN st[p] ELSE Copied(Origin(p))]

(* placedUnder: the deepest placed directory that holds d, if any.         *)
Holders(d) == {e \in DOMAIN placed : Inside(e, d)}
PlacedUnder(d) ==
    LET best == CHOOSE e \in Holders(d) : \A f \in Holders(d) : Len(f) <= Len(e) IN
    placed[best] \o Rel(best, d)

(* vendorPath: the path from the root with its `..` dropped, under vendor/,*)
(* numbered from 2 while the name is handed out or in the stage.           *)
Taken_HandedOut(p) == p \in used  \* slip: what the stage already holds is not asked
Taken(p) == p \in used \/ \E s \in DOMAIN stage : Inside(p, s)
Numbered(base, i) ==
    IF i = 1 THEN base ELSE [base EXCEPT ![Len(base)] = <<@, i>>]
BaseName(d) == IF d = <<>> THEN <<>> ELSE <<d[Len(d)]>>  \* path.Join drops that of /
VendorPath(d) ==
    LET keep == RelativeSource(RootAbs, d).down
        base == <<Vendor>> \o (IF keep = <<>> THEN BaseName(d) ELSE keep)
        i == CHOOSE n \in 1 .. (Cardinality(DOMAIN stage \cup used) + 1) :
                /\ ~Taken(Numbered(base, n))
                /\ \A m \in 1 .. (n - 1) : Taken(Numbered(base, m)) IN
    Numbered(base, i)

-----------------------------------------------------------------------------
(* One call of the module being walked.                                    *)

Call == disk[cur.abs].calls[k]
Calling == status = "closing" /\ k \in DOMAIN disk[cur.abs].calls

(* Where a call leads on disk, whoever makes it.                           *)
TargetOf(abs, c) ==
    IF c.kind = "remote" THEN TreeAt[c.addr] \o c.down ELSE JoinSource(abs, c.up, c.down)

Target == TargetOf(cur.abs, Call)

Local(s) == [kind |-> "local", up |-> s.up, down |-> s.down, addr |-> NoTree]

(* The call as it must read once its module lives at rel.                  *)
(* Slips: relative to the bundle's root; to the parent of the home.        *)
Rewritten_FromRoot(rel) == Local(RelativeSource(<<>>, rel))
Rewritten_ToParent(rel) ==
    Local(RelativeSource(cur.rel, IF Len(rel) > 2 THEN SubSeq(rel, 1, Len(rel) - 1) ELSE rel))
Rewritten(rel) == Local(RelativeSource(cur.rel, rel))
NeedsRewrite_RemoteOnly(rel) == Call.kind # "local"  \* slip: local escapes are left alone
NeedsRewrite(rel) == Call # Rewritten(rel)

(* rewriteSource edits the caller's copy, which must be there and in HCL.  *)
Rewritable(st) == cur.rel \in DOMAIN st /\ st[cur.rel].file /\ k \in DOMAIN st[cur.rel].calls

Refuse(why) ==
    /\ status' = "refused"
    /\ reason' = why
    /\ UNCHANGED <<disk, stage, placed, used, queue, walked, cur, k, trees, pins, out>>

(* A tree is pinned when it is fetched; slip: on every call to it.         *)
PinsAfter_EveryCall == IF Call.kind = "remote" THEN Append(pins, Call.addr) ELSE pins
PinsAfter ==
    IF Call.kind = "remote" /\ Call.addr \notin trees THEN Append(pins, Call.addr) ELSE pins

(* The end of every call: its target has a home at rel, the stage is st,   *)
(* and the call is pointed there, or cannot be.                            *)
Settle(tree, rel, st, vendored, names) ==
    \/ /\ NeedsRewrite(rel)
       /\ \/ disk[cur.abs].json /\ Refuse("unsupported")
          \/ ~disk[cur.abs].json /\ ~Rewritable(st) /\ Refuse("io")
    \/ /\ NeedsRewrite(rel) => ~disk[cur.abs].json /\ Rewritable(st)
       /\ stage' = IF NeedsRewrite(rel)
                     THEN [st EXCEPT ![cur.rel].calls[k] = Rewritten(rel)] ELSE st
       /\ placed' = [d \in DOMAIN placed \cup {Target} |-> IF d = Target THEN rel ELSE placed[d]]
       /\ used' = names
       /\ out' = out \o vendored
       /\ trees' = IF Call.kind = "remote" THEN trees \cup {Call.addr} ELSE trees
       /\ pins' = PinsAfter
       /\ queue' = Append(queue, [abs |-> Target, rel |-> rel, tree |-> tree])
       /\ k' = k + 1
       /\ UNCHANGED <<disk, walked, cur, status, reason>>

(* place: under a placed directory that already brought the target along,  *)
(* or copied to rel, its links bounded by boundary.                        *)
Place(tree, rel, boundary, names) ==
    IF Holders(Target) # {} THEN Settle(tree, PlacedUnder(Target), stage, <<>>, names)
    ELSE IF tree \in Escaping THEN Refuse("vendor")
    ELSE IF ~CopyOK(Target, boundary) THEN Refuse("link")
    ELSE \E st \in {Copy(stage, Target, rel)} :
           Settle(tree, rel, st, <<[caller |-> cur.rel, abs |-> Target, into |-> rel]>>, names)

(* A relative source of a fetched module may reach anywhere in its tree    *)
(* and nowhere else, links followed; it must name a directory.             *)
InTree == cur.tree # NoTree
(* Slip: a link to a directory is not one.                                 *)
SourceError_Lstat ==
    IF Call.kind \in {"nonliteral", "unsupported"} THEN Call.kind
    ELSE IF Target \notin Dirs THEN "missing"
    ELSE IF Real(Target) # Target THEN "missing"
    ELSE "none"
SourceError ==
    CASE Call.kind = "local" /\ InTree /\ ~Inside(TreeAt[cur.tree], Target) -> "escapes"
      [] Call.kind = "remote" /\ Call.up > 0 -> "escapes"
      [] Call.kind \in {"nonliteral", "unsupported"} -> Call.kind
      [] OTHER ->
           IF Target \notin Dirs THEN "missing"
           ELSE LET tree == IF Call.kind = "remote" THEN Call.addr ELSE cur.tree IN
                IF tree # NoTree /\ ~ResolvesInside(TreeAt[tree], Target) THEN "escapes"
                ELSE "none"

Sound == Calling /\ SourceError = "none"
SoundLocal == Sound /\ Call.kind = "local"

RefusedCall == Calling /\ SourceError # "none" /\ Refuse(SourceError)

(* Slips: the tree a module is confined to is dropped; a known outside     *)
(* directory is vendored again.                                            *)
LocalKnown_ForgetsTree ==
    /\ SoundLocal
    /\ Target \in DOMAIN placed
    /\ Settle(NoTree, placed[Target], stage, <<>>, used)
LocalKnown_VendorsAgain ==
    /\ SoundLocal
    /\ Target \in DOMAIN placed
    /\ LET rel == VendorPath(Target) IN Settle(cur.tree, rel, Copy(stage, Target, rel), <<>>, used)
LocalKnown ==
    /\ SoundLocal
    /\ Target \in DOMAIN placed
    /\ Settle(cur.tree, placed[Target], stage, <<>>, used)

(* Slip: the directory lands beside its siblings, whatever its depth.      *)
LocalInTree_Flat ==
    /\ SoundLocal /\ Target \notin DOMAIN placed /\ InTree
    /\ Place(cur.tree, Prefix[cur.tree] \o <<Target[Len(Target)]>>, TreeAt[cur.tree], used)
LocalInTree ==
    /\ SoundLocal
    /\ Target \notin DOMAIN placed
    /\ InTree
    /\ Place(cur.tree, Prefix[cur.tree] \o Rel(TreeAt[cur.tree], Target), TreeAt[cur.tree], used)

(* Slip: a module already in the stage is not walked.                      *)
LocalInRoot_NotQueued ==
    /\ SoundLocal /\ Target \notin DOMAIN placed /\ ~InTree /\ Inside(RootAbs, Target)
    /\ k' = k + 1
    /\ placed' = [d \in DOMAIN placed \cup {Target} |->
                     IF d = Target THEN Rel(RootAbs, Target) ELSE placed[d]]
    /\ UNCHANGED <<disk, stage, used, queue, walked, cur, trees, pins, out, status, reason>>

(* The staging copy brought everything under the root along.               *)
LocalInRoot ==
    /\ SoundLocal
    /\ Target \notin DOMAIN placed
    /\ ~InTree
    /\ Inside(RootAbs, Target)
    /\ Settle(NoTree, Rel(RootAbs, Target), stage, <<>>, used)

LocalOutside ==
    /\ SoundLocal
    /\ Target \notin DOMAIN placed
    /\ ~InTree
    /\ ~Inside(RootAbs, Target)
    /\ IF ~WithinBoundary(Target) THEN Refuse("boundary")
       ELSE IF Holders(Target) # {} THEN Place(NoTree, <<>>, Target, used)
       ELSE \E rel \in {VendorPath(Target)} : Place(NoTree, rel, Target, used \cup {rel})

(* A tree fetched before is found by its address; otherwise the fetch may  *)
(* fail.                                                                   *)
FetchFails ==
    /\ Calling
    /\ Call.kind = "remote" /\ Call.up = 0 /\ Call.addr \notin trees
    /\ Refuse("fetch")

Remote ==
    /\ Sound
    /\ Call.kind = "remote"
    /\ IF Target \in DOMAIN placed
         THEN Settle(Call.addr, placed[Target], stage, <<>>, used)
         ELSE Place(Call.addr, Prefix[Call.addr] \o Call.down, TreeAt[Call.addr], used)

-----------------------------------------------------------------------------
(* The walk.                                                               *)

RootModule == [abs |-> RootAbs, rel |-> <<>>, tree |-> NoTree]

Init ==
    /\ disk \in Worlds
    /\ stage = [p \in {} |-> {}]
    /\ placed = [d \in {RootAbs} |-> <<>>]
    /\ used = {<<>>}
    /\ queue = <<RootModule>>
    /\ walked = {}
    /\ cur = RootModule
    /\ k = 0
    /\ trees = {}
    /\ pins = <<>>
    /\ out = <<>>
    /\ status = "staging"
    /\ reason = "none"

(* PackContext copies the component, then closeTerraform checks its        *)
(* boundary before it walks.                                               *)
StageRoot ==
    /\ status = "staging"
    /\ IF ~CopyOK(RootAbs, RootAbs) THEN Refuse("link")
       ELSE IF ~WithinBoundary(RootAbs) THEN Refuse("boundary")
       ELSE /\ stage' = Copy(stage, RootAbs, <<>>)
            /\ status' = "closing"
            /\ UNCHANGED <<disk, placed, used, queue, walked, cur, k, trees, pins, out, reason>>

(* Between two modules: the first turn, or the last call was settled.      *)
AtLoopHead == status = "closing" /\ k \notin DOMAIN disk[cur.abs].calls

Cancelled ==
    /\ AtLoopHead
    /\ queue # <<>>
    /\ Refuse("cancelled")

(* Slip: the turn is skipped before the module is taken off the queue.     *)
SkipWalked_KeepsHead ==
    AtLoopHead /\ queue # <<>> /\ Head(queue).abs \in walked /\ UNCHANGED vars
SkipWalked ==
    /\ AtLoopHead
    /\ queue # <<>>
    /\ Head(queue).abs \in walked
    /\ queue' = Tail(queue)
    /\ UNCHANGED <<disk, stage, placed, used, walked, cur, k, trees, pins, out, status, reason>>

LoadModule ==
    /\ AtLoopHead
    /\ queue # <<>>
    /\ Head(queue).abs \notin walked
    /\ IF ~disk[Head(queue).abs].parses THEN Refuse("invalid")
       ELSE /\ cur' = Head(queue)
            /\ k' = 1
            /\ queue' = Tail(queue)
            /\ walked' = walked \cup {Head(queue).abs}
            /\ UNCHANGED <<disk, stage, placed, used, trees, pins, out, status, reason>>

(* packTree tars what the stage holds.                                     *)
Packed ==
    /\ AtLoopHead
    /\ queue = <<>>
    /\ status' = "packed"
    /\ UNCHANGED <<disk, stage, placed, used, queue, walked, cur, k, trees, pins, out, reason>>

OneCall ==
    \/ RefusedCall \/ FetchFails
    \/ LocalKnown \/ LocalInTree \/ LocalInRoot \/ LocalOutside \/ Remote

Step == StageRoot \/ SkipWalked \/ LoadModule \/ OneCall \/ Packed

Next == Step \/ Cancelled

Spec == Init /\ [][Next]_vars
(* One goroutine runs the loop to its end.  Nobody has to cancel it.       *)
FairSpec == Spec /\ WF_vars(Step)

-----------------------------------------------------------------------------
(* What the pack promises.                                                 *)

TreeOf(d) ==
    IF \E t \in Addr : Inside(TreeAt[t], d)
      THEN CHOOSE t \in Addr : Inside(TreeAt[t], d) ELSE NoTree

(* The module calls as the disk has them, and what they lead to.           *)
Named(d) == {c \in {disk[d].calls[i] : i \in DOMAIN disk[d].calls} :
                c.kind = "local" \/ (c.kind = "remote" /\ c.up = 0)}
Successors(d) == {TargetOf(d, c) : c \in Named(d)} \cap Dirs
Closed(S) == RootAbs \in S /\ \A d \in S : Successors(d) \subseteq S
(* The same, found by following calls for as many rounds as it can take.   *)
Reachable ==
    LET edges == UNION {{<<d, e>> : e \in Successors(d)} : d \in Dirs}
        within[i \in 0 .. Cardinality(Dirs)] ==
            IF i = 0 THEN {RootAbs}
            ELSE LET S == within[i - 1] IN S \cup {g[2] : g \in {e \in edges : e[1] \in S}} IN
    within[Cardinality(Dirs)]

TypeOK ==
    /\ DOMAIN disk = Dirs
    /\ \A p \in DOMAIN stage : stage[p].from \in Dirs /\ stage[p].file \in BOOLEAN
    /\ DOMAIN placed \subseteq Dirs
    /\ \A i \in DOMAIN queue : queue[i].abs \in Dirs /\ queue[i].tree \in Addr \cup {NoTree}
    /\ cur.abs \in Dirs /\ cur.tree \in Addr \cup {NoTree}
    /\ walked \subseteq Dirs
    /\ k \in Nat
    /\ trees \subseteq Addr
    /\ pins \in Seq(Addr)
    /\ status \in {"staging", "closing", "packed", "refused"}

(* Every module waiting, being walked or walked has one home: the bundle   *)
(* directory recorded for it, whichever call reached it, and the tree it   *)
(* is confined to is the one it lies in.                                   *)
HasHome(m) ==
    /\ m.abs \in DOMAIN placed
    /\ m.rel = placed[m.abs]
    /\ m.tree = TreeOf(m.abs)
Homes ==
    /\ \A i \in DOMAIN queue : HasHome(queue[i])
    /\ HasHome(cur)
    /\ walked \subseteq DOMAIN placed

(* Once a call has been pointed at a directory's home, that home never     *)
(* moves and is never forgotten.                                           *)
PlacedNeverMoves ==
    [][\A d \in DOMAIN placed : d \in DOMAIN placed' /\ placed'[d] = placed[d]]_vars

(* A fetched tree keeps its layout in the bundle, however its directories  *)
(* were reached: a module's relative sources within the tree stay right.   *)
TreeLayout ==
    \A d \in DOMAIN placed, t \in Addr :
        Inside(TreeAt[t], d) => placed[d] = Prefix[t] \o Rel(TreeAt[t], d)

(* Where a copy landed, by its place among those that vendored; a later    *)
(* one that landed on directories an earlier one had brought; a fetched    *)
(* tree that landed on what the component has under vendor/ itself: its    *)
(* prefix is compared with nothing, unlike vendorPath's names.             *)
Landed(i) == {out[i].into \o Rel(out[i].abs, d) : d \in CopiedDirs(out[i].abs)}
CopiedOver == \E i, j \in DOMAIN out : i < j /\ Landed(i) \cap Landed(j) # {}
TreeOverComponent ==
    \E i \in DOMAIN out :
        /\ TreeOf(out[i].abs) # NoTree
        /\ Landed(i) \cap {Rel(RootAbs, d) : d \in CopiedDirs(RootAbs)} # {}
Overlaid == CopiedOver \/ TreeOverComponent

(* Copies leave such a home out, so nothing keeps its name from being      *)
(* given to another directory.                                             *)
UnderIgnored(rel) == \E i \in DOMAIN rel : rel[i] \in Ignored

(* Two directories of the host never share a home, however their names     *)
(* flatten, and vendoring adds to the component and never overwrites it.   *)
HomesAreApart ==
    /\ \A d, e \in DOMAIN placed :
         /\ placed[d] = placed[e] /\ ~UnderIgnored(placed[d])
         /\ TreeOf(d) = NoTree /\ TreeOf(e) = NoTree
         => d = e
    /\ status \in {"closing", "packed"} /\ ~TreeOverComponent =>
         \A d \in CopiedDirs(RootAbs) :
             Rel(RootAbs, d) \in DOMAIN stage /\ stage[Rel(RootAbs, d)].from = d

(* A pack that finishes has read every module any chain of calls leads to, *)
(* and no other: the least set with the root that calls do not leave.      *)
PackedWalkedReachable ==
    status = "packed" =>
        /\ Closed(walked)
        /\ \A S \in SUBSET walked : Closed(S) => S = walked

(* In the packed tree, if no copy landed on another, each call of each     *)
(* walked module that is in it is a relative source that stays inside and  *)
(* leads to the home of the module it named, where that module's copy is.  *)
Bundled(d) == placed[d] \in DOMAIN stage /\ ~UnderIgnored(placed[d])
Lands(d, i) ==
    LET c == stage[placed[d]].calls[i]
        t == TargetOf(d, disk[d].calls[i]) IN
    /\ c.kind = "local"
    /\ ~Climbs(placed[d], c.up)
    /\ JoinSource(placed[d], c.up, c.down) = placed[t]
    /\ Bundled(t) => stage[placed[t]].from = t
CallsLand ==
    status = "packed" /\ ~Overlaid =>
        \A d \in walked : Bundled(d) => \A i \in DOMAIN disk[d].calls : Lands(d, i)

(* Nothing from outside the boundary is packed: what is staged is of a     *)
(* fetched tree, links followed, or really lies inside the boundary.       *)
StaysInBoundary ==
    status = "packed" =>
        \A p \in DOMAIN stage :
            LET d == stage[p].from IN
            IF TreeOf(d) # NoTree THEN ResolvesInside(TreeAt[TreeOf(d)], d)
                                  ELSE WithinBoundary(d)

(* Provenance is complete: each tree is pinned once, and no directory of a *)
(* tree without a pin is in the bundle.                                    *)
PinsComplete ==
    /\ \A i, j \in DOMAIN pins : pins[i] = pins[j] => i = j
    /\ \A p \in DOMAIN stage :
         TreeOf(stage[p].from) # NoTree => \E i \in DOMAIN pins : pins[i] = TreeOf(stage[p].from)

(* A refusal for what a source says is never spurious: some module that    *)
(* can be reached makes such a call.                                       *)
RefusedForCause ==
    LET Calls(d) == {disk[d].calls[i] : i \in DOMAIN disk[d].calls} IN
    /\ reason = "invalid" => \E d \in Reachable : ~disk[d].parses
    /\ reason \in {"nonliteral", "vendor"} => \E d \in Reachable : \E c \in Calls(d) :
         IF reason = "vendor" THEN c.kind = "remote" /\ c.addr \in Escaping
                              ELSE c.kind = "nonliteral"
    /\ reason = "unsupported" => \E d \in Reachable : \E c \in Calls(d) :
         c.kind = "unsupported" \/ disk[d].json
    /\ reason = "missing" => \E d \in Reachable : \E c \in Named(d) : TargetOf(d, c) \notin Dirs
    /\ reason = "boundary" => \E d \in Reachable : ~WithinBoundary(d)

(* Every pack ends, cycles of module calls included.                       *)
Terminates == <>(status \in {"packed", "refused"})
=============================================================================

--------------------------- MODULE RoundTrip_proofs ---------------------------
(***************************************************************************)
(* What holds of a pack over any host, any fetched trees and any module    *)
(* calls: where homes are, what is staged and pinned, what is walked, why  *)
(* packs are refused, and where the calls of the packed modules lead.      *)
(* Then client and server agree: what a pack without overlaid copies       *)
(* publishes is accepted if its modules travel, and the server reads the   *)
(* homes of the modules the client walked and nothing else.                *)
(***************************************************************************)
EXTENDS RoundTrip, Paths_proofs, FiniteSetTheorems

Statuses == {"staging", "closing", "packed", "refused"}

(* A stage entry is complete and comes from a directory that exists.       *)
IsStage(st) ==
    \A p \in DOMAIN st :
        /\ DOMAIN st[p] = {"from", "file", "calls"}
        /\ st[p].from \in Dirs
        /\ st[p].file \in BOOLEAN

(* Where a directory may lie: apart from every tree, or in one.            *)
InATree(d) == \E t \in Addr : Inside(TreeAt[t], d)

(* The modules as they may be queued: at home, confined to their tree.     *)
ModuleAt(d, rel) == [abs |-> d, rel |-> rel, tree |-> TreeOf(d)]
Modules == {ModuleAt(d, placed[d]) : d \in DOMAIN placed}

ShapeInv ==
    /\ disk \in Worlds
    /\ k \in Nat
    /\ trees \subseteq Addr
    /\ pins \in Seq(Addr)
    /\ status \in Statuses
    /\ IsStage(stage)
PlacedInv ==
    /\ DOMAIN placed \subseteq Dirs
    /\ \A d \in DOMAIN placed : OnHost(d) \/ InATree(d)
    /\ TreeLayout
ModulesInv ==
    /\ queue \in Seq(Modules)
    /\ cur \in Modules
    /\ walked \subseteq DOMAIN placed

IInv == ShapeInv /\ PlacedInv /\ ModulesInv

-----------------------------------------------------------------------------
(* Trees.                                                                  *)

(* Trees are apart, so a directory in one is in no other.                  *)
LEMMA TreeOfInside ==
    ASSUME NEW t \in Addr, NEW d \in Dirs, Inside(TreeAt[t], d)
    PROVE  TreeOf(d) = t
<1>1. ASSUME NEW u \in Addr, Inside(TreeAt[u], d) PROVE u = t
  <2>1. TreeAt[t] \in Seq(Name) /\ TreeAt[u] \in Seq(Name) /\ d \in Seq(Name)
    BY TreeAssumption, DirsAssumption
  <2>2. Inside(TreeAt[t], TreeAt[u]) \/ Inside(TreeAt[u], TreeAt[t])
    BY <1>1, <2>1, InsideIsAChain
  <2> QED BY <2>2, TreeAssumption
<1> QED BY <1>1 DEF TreeOf

LEMMA TreeOfHost ==
    ASSUME NEW d, OnHost(d)
    PROVE  TreeOf(d) = NoTree
BY DEF OnHost, TreeOf

LEMMA NoTreeOf ==
    ASSUME NEW d, TreeOf(d) = NoTree
    PROVE  ~InATree(d)
<1> SUFFICES ASSUME InATree(d) PROVE FALSE
  OBVIOUS
<1>1. TreeOf(d) \in Addr
  BY DEF InATree, TreeOf
<1> QED BY <1>1, RootAssumption

LEMMA TreeOfType ==
    ASSUME NEW d
    PROVE  TreeOf(d) \in Addr \cup {NoTree}
BY DEF TreeOf

(* A module record has what it was made of.                                *)
LEMMA ModuleFields ==
    ASSUME NEW d, NEW rel
    PROVE  LET m == ModuleAt(d, rel) IN m.abs = d /\ m.rel = rel /\ m.tree = TreeOf(d)
BY DEF ModuleAt

(* What the invariant says of the module being walked.                     *)
LEMMA CurAtHome ==
    ASSUME IInv
    PROVE  /\ cur.abs \in DOMAIN placed /\ cur.abs \in Dirs
           /\ cur.rel = placed[cur.abs]
           /\ cur.tree = TreeOf(cur.abs)
<1>1. PICK d \in DOMAIN placed : cur = ModuleAt(d, placed[d])
  BY DEF IInv, ModulesInv, Modules
<1> QED BY <1>1, ModuleFields DEF IInv, PlacedInv

(* A call that passed resolveSource leads to a directory of the host, or   *)
(* of the tree its caller is confined to, or of the tree it names.         *)
CallTree == IF Call.kind = "remote" THEN Call.addr ELSE cur.tree
LEMMA SoundTarget ==
    ASSUME IInv, Sound
    PROVE  /\ Target \in Dirs
           /\ CallTree = TreeOf(Target)
           /\ OnHost(Target) \/ (CallTree \in Addr /\ Inside(TreeAt[CallTree], Target))
           /\ Call.kind = "remote" =>
                Call.addr \in Addr /\ Rel(TreeAt[Call.addr], Target) = Call.down
<1>1. /\ cur.abs \in DOMAIN placed /\ cur.abs \in Dirs /\ cur.tree = TreeOf(cur.abs)
      /\ disk \in Worlds /\ k \in DOMAIN disk[cur.abs].calls /\ SourceError = "none"
  BY CurAtHome DEF IInv, ShapeInv, Sound, Calling
<1>2. IsCall(Call)
  BY <1>1, WorldsAssumption DEF Call
<1>3. /\ Call.kind \in {"local", "remote"}
      /\ Target \in Dirs
      /\ Call.kind = "local" /\ cur.tree # NoTree => Inside(TreeAt[cur.tree], Target)
  <2>1. ~(Call.kind = "local" /\ InTree /\ ~Inside(TreeAt[cur.tree], Target))
    BY <1>1 DEF SourceError
  <2>2. ~(Call.kind \in {"nonliteral", "unsupported"})
    BY <1>1 DEF SourceError
  <2>3. Target \in Dirs
    BY <1>1, <2>1, <2>2 DEF SourceError
  <2> QED BY <1>2, <2>1, <2>2, <2>3 DEF IsCall, Kinds, InTree
<1>4. CASE Call.kind = "remote"
  <2>1. /\ Call.addr \in Addr /\ Call.down \in Seq(Name) /\ TreeAt[Call.addr] \in Seq(Name)
        /\ Target = TreeAt[Call.addr] \o Call.down
    BY <1>2, <1>4, TreeAssumption, DirsAssumption DEF IsCall, Target, TargetOf
  <2>2. Inside(TreeAt[Call.addr], Target) /\ Rel(TreeAt[Call.addr], Target) = Call.down
    BY <2>1, RelOfConcat
  <2>3. TreeOf(Target) = Call.addr
    BY <1>3, <2>1, <2>2, TreeOfInside
  <2> QED BY <1>3, <1>4, <2>1, <2>2, <2>3 DEF CallTree
<1>5. CASE Call.kind = "local" /\ cur.tree # NoTree
  <2>1. cur.tree \in Addr
    BY <1>1, <1>5, TreeOfType
  <2>2. TreeOf(Target) = cur.tree
    BY <1>3, <1>5, <2>1, TreeOfInside
  <2> QED BY <1>3, <1>5, <2>1, <2>2 DEF CallTree
<1>6. CASE Call.kind = "local" /\ cur.tree = NoTree
  <2>1. OnHost(cur.abs)
    BY <1>1, <1>6, NoTreeOf DEF IInv, PlacedInv
  <2>2. Target = JoinSource(cur.abs, Call.up, Call.down)
    BY <1>6 DEF Target, TargetOf
  <2>3. OnHost(Target)
    BY <1>1, <1>3, <1>6, <2>1, <2>2, HostAssumption DEF Call
  <2>4. TreeOf(Target) = NoTree
    BY <2>3, TreeOfHost
  <2> QED BY <1>3, <1>6, <2>3, <2>4 DEF CallTree
<1> QED BY <1>3, <1>4, <1>5, <1>6
-----------------------------------------------------------------------------
(* Where directories go.                                                   *)

(* placedUnder asks the deepest directory around d that has a home.        *)
LEMMA BestHolder ==
    ASSUME DOMAIN placed \subseteq Dirs, NEW d \in Dirs, Holders(d) # {}
    PROVE  \E e \in Holders(d) : PlacedUnder(d) = placed[e] \o Rel(e, d)
<1> DEFINE lengths == {Len(e) : e \in Holders(d)}
<1>1. d \in Seq(Name) /\ Holders(d) \subseteq Seq(Name)
  BY DirsAssumption DEF Holders
<1>2. ASSUME NEW e \in Holders(d) PROVE Len(e) \in 0 .. Len(d)
  <2>1. Len(e) \in Nat /\ Len(d) \in Nat /\ Len(e) <= Len(d)
    BY <1>1 DEF Holders, Inside, IsPathPrefix
  <2> QED BY <2>1
<1>3. Len(d) \in Nat /\ lengths \in SUBSET (0 .. Len(d)) /\ lengths # {}
  BY <1>1, <1>2
<1>4. PICK n \in lengths : \A m \in lengths : m <= n
  BY <1>3, GreatestMember
<1>5. \E e \in Holders(d) : \A f \in Holders(d) : Len(f) <= Len(e)
  BY <1>4
<1> DEFINE best == CHOOSE e \in Holders(d) : \A f \in Holders(d) : Len(f) <= Len(e)
<1>6. best \in Holders(d)
  BY <1>5
<1>7. PlacedUnder(d) = placed[best] \o Rel(best, d)
  BY DEF PlacedUnder
<1> QED BY <1>6, <1>7

(* Under a placed directory of its tree, a directory lands where the       *)
(* tree's layout has it.                                                   *)
LEMMA UnderHolderKeepsLayout ==
    ASSUME PlacedInv, NEW d \in Dirs, Holders(d) # {}, NEW t \in Addr, Inside(TreeAt[t], d)
    PROVE  PlacedUnder(d) = Prefix[t] \o Rel(TreeAt[t], d)
<1>1. PICK e \in Holders(d) : PlacedUnder(d) = placed[e] \o Rel(e, d)
  BY BestHolder DEF PlacedInv
<1>2. e \in DOMAIN placed /\ e \in Dirs /\ Inside(e, d)
  BY DEF Holders, PlacedInv
<1>3. d \in Seq(Name) /\ e \in Seq(Name) /\ TreeAt[t] \in Seq(Name) /\ Prefix[t] \in Seq(Name)
  BY <1>2, DirsAssumption, TreeAssumption
<1>4. Inside(TreeAt[t], e)
  <2>1. Inside(TreeAt[t], e) \/ Inside(e, TreeAt[t])
    BY <1>2, <1>3, InsideIsAChain
  <2>2. CASE OnHost(e)
    BY <2>1, <2>2 DEF OnHost
  <2>3. CASE InATree(e)
    <3>1. PICK u \in Addr : Inside(TreeAt[u], e)
      BY <2>3 DEF InATree
    <3>2. Inside(TreeAt[u], d)
      <4>1. TreeAt[u] \in Seq(Name)
        BY DirsAssumption, TreeAssumption
      <4> QED BY <1>2, <1>3, <3>1, <4>1, InsideTransitive
    <3>3. u = TreeOf(d) /\ t = TreeOf(d)
      BY <3>2, TreeOfInside
    <3> QED BY <3>1, <3>3
  <2> QED BY <1>2, <2>2, <2>3 DEF PlacedInv
<1>5. placed[e] = Prefix[t] \o Rel(TreeAt[t], e)
  BY <1>2, <1>4 DEF PlacedInv, TreeLayout
<1>6. Rel(TreeAt[t], d) = Rel(TreeAt[t], e) \o Rel(e, d)
  BY <1>2, <1>3, <1>4, InsideTransitive
<1>7. Rel(TreeAt[t], e) \in Seq(Name) /\ Rel(e, d) \in Seq(Name)
  BY <1>2, <1>3, <1>4, InsideSplits
<1>8. ASSUME NEW x \in Seq(Name), NEW y \in Seq(Name), NEW z \in Seq(Name)
      PROVE  (x \o y) \o z = x \o (y \o z)
  BY ConcatAssociative
<1>9. (Prefix[t] \o Rel(TreeAt[t], e)) \o Rel(e, d) = Prefix[t] \o (Rel(TreeAt[t], e) \o Rel(e, d))
  BY <1>3, <1>7, <1>8, Zenon
<1> QED BY <1>1, <1>5, <1>6, <1>9

(* A copy of a directory that exists leaves a stage.                       *)
LEMMA CopyIsStage ==
    ASSUME disk \in Worlds, NEW st, IsStage(st), NEW src, NEW dst
    PROVE  IsStage(Copy(st, src, dst))
<1> DEFINE lands == {dst \o Rel(src, d) : d \in CopiedDirs(src)}
           Origin(p) == CHOOSE d \in CopiedDirs(src) : p = dst \o Rel(src, d)
           Copied(d) == [from |-> d, file |-> disk[d].file, calls |-> disk[d].calls]
           Keeps(p) == p \in DOMAIN st /\ (p \in lands => ~disk[Origin(p)].file)
<1>1. Copy(st, src, dst) =
        [p \in DOMAIN st \cup lands |-> IF Keeps(p) THEN st[p] ELSE Copied(Origin(p))]
  BY DEF Copy
<1>2. ASSUME NEW p \in lands PROVE Origin(p) \in Dirs
  <2>1. \E d \in CopiedDirs(src) : p = dst \o Rel(src, d)
    OBVIOUS
  <2>2. Origin(p) \in CopiedDirs(src)
    BY <2>1
  <2> QED BY <2>2 DEF CopiedDirs
<1>3. ASSUME NEW d \in Dirs
      PROVE  DOMAIN Copied(d) = {"from", "file", "calls"} /\ Copied(d).from \in Dirs /\ Copied(d).file \in BOOLEAN
  BY WorldsAssumption
<1>4. ASSUME NEW p \in DOMAIN st \cup lands, ~Keeps(p) PROVE p \in lands
  BY <1>4
<1> HIDE DEF Keeps, Copied, Origin, lands
<1>5. ASSUME NEW p \in DOMAIN st \cup lands
      PROVE  LET e == IF Keeps(p) THEN st[p] ELSE Copied(Origin(p)) IN
             DOMAIN e = {"from", "file", "calls"} /\ e.from \in Dirs /\ e.file \in BOOLEAN
  <2>1. CASE Keeps(p)
    BY <2>1 DEF IsStage, Keeps
  <2>2. CASE ~Keeps(p)
    BY <1>2, <1>3, <1>4, <2>2
  <2> QED BY <2>1, <2>2
<1>6. DOMAIN Copy(st, src, dst) = DOMAIN st \cup lands
  BY <1>1
<1>7. ASSUME NEW p \in DOMAIN st \cup lands
      PROVE  Copy(st, src, dst)[p] = IF Keeps(p) THEN st[p] ELSE Copied(Origin(p))
  BY <1>1
<1> QED BY <1>5, <1>6, <1>7 DEF IsStage
-----------------------------------------------------------------------------
(* Steps.                                                                  *)

(* No home moves and none is forgotten.                                    *)
Extends == \A d \in DOMAIN placed : d \in DOMAIN placed' /\ placed'[d] = placed[d]

LEMMA ModulesGrow ==
    ASSUME Extends
    PROVE  Modules \subseteq Modules'
<1> SUFFICES ASSUME NEW m \in Modules PROVE m \in Modules'
  OBVIOUS
<1>1. PICK d \in DOMAIN placed : m = ModuleAt(d, placed[d])
  BY DEF Modules
<1>2. d \in DOMAIN placed' /\ placed'[d] = placed[d]
  BY DEF Extends
<1>3. m = ModuleAt(d, placed'[d])
  BY <1>1, <1>2 DEF ModuleAt
<1> QED BY <1>2, <1>3 DEF Modules, ModuleAt

(* A step that only ends the pack, or only shortens the queue.             *)
LEMMA PlacesNothing ==
    ASSUME IInv, UNCHANGED <<disk, stage, placed, walked, cur, k, trees, pins>>,
           status' \in Statuses, queue' \in Seq(Modules)
    PROVE  IInv' /\ Extends
<1>1. Extends
  BY DEF Extends
<1>2. ShapeInv'
  BY DEF IInv, ShapeInv, IsStage
<1>3. PlacedInv'
  BY DEF IInv, PlacedInv, TreeLayout
<1>4. Modules' = Modules
  BY DEF Modules
<1>5. ModulesInv'
  BY <1>4 DEF IInv, ModulesInv
<1> QED BY <1>1, <1>2, <1>3, <1>5 DEF IInv

LEMMA RefuseKeeps ==
    ASSUME IInv, NEW why, Refuse(why)
    PROVE  IInv' /\ Extends
<1>1. /\ UNCHANGED <<disk, stage, placed, walked, cur, k, trees, pins>>
      /\ status' \in Statuses /\ queue' \in Seq(Modules)
  BY DEF Refuse, Statuses, IInv, ModulesInv
<1> QED BY <1>1, PlacesNothing

(* Settling a call whose target has, or gets, the home its tree's layout   *)
(* gives it.                                                               *)
LEMMA SettleKeeps ==
    ASSUME IInv, Calling,
           NEW tree, NEW rel, NEW st, NEW vendored, NEW names,
           Settle(tree, rel, st, vendored, names),
           IsStage(st), Target \in Dirs, tree = TreeOf(Target),
           OnHost(Target) \/ InATree(Target),
           Call.kind = "remote" => Call.addr \in Addr,
           Target \in DOMAIN placed => rel = placed[Target],
           \A t \in Addr : Inside(TreeAt[t], Target) => rel = Prefix[t] \o Rel(TreeAt[t], Target)
    PROVE  IInv' /\ Extends
<1>1. CASE Refuse("unsupported") \/ Refuse("io")
  BY <1>1, RefuseKeeps
<1>2. CASE ~(Refuse("unsupported") \/ Refuse("io"))
  <2>1. /\ stage' = IF NeedsRewrite(rel)
                      THEN [st EXCEPT ![cur.rel].calls[k] = Rewritten(rel)] ELSE st
        /\ placed' = [d \in DOMAIN placed \cup {Target} |-> IF d = Target THEN rel ELSE placed[d]]
        /\ trees' = IF Call.kind = "remote" THEN trees \cup {Call.addr} ELSE trees
        /\ pins' = PinsAfter
        /\ queue' = Append(queue, [abs |-> Target, rel |-> rel, tree |-> tree])
        /\ k' = k + 1
        /\ UNCHANGED <<disk, walked, cur, status, reason>>
    BY <1>2 DEF Settle
  <2>2. Extends
    BY <2>1 DEF Extends
  <2>3. IsStage(stage')
    <3>1. CASE NeedsRewrite(rel)
      <4>1. stage' = [st EXCEPT ![cur.rel].calls[k] = Rewritten(rel)]
        BY <2>1, <3>1
      <4>2. DOMAIN stage' = DOMAIN st
        BY <4>1
      <4>3. ASSUME NEW p \in DOMAIN st
            PROVE  DOMAIN stage'[p] = DOMAIN st[p] /\ stage'[p].from = st[p].from /\ stage'[p].file = st[p].file
        <5>1. DOMAIN st[p] = {"from", "file", "calls"}
          BY DEF IsStage
        <5>2. CASE p # cur.rel
          BY <4>1, <5>2
        <5>3. CASE p = cur.rel
          BY <4>1, <5>1, <5>3
        <5> QED BY <5>2, <5>3
      <4> QED BY <4>2, <4>3 DEF IsStage
    <3>2. CASE ~NeedsRewrite(rel)
      BY <2>1, <3>2
    <3> QED BY <3>1, <3>2
  <2>4. ShapeInv'
    <3>1. trees' \subseteq Addr
      BY <2>1 DEF IInv, ShapeInv
    <3>2. pins' \in Seq(Addr)
      BY <2>1 DEF PinsAfter, IInv, ShapeInv
    <3>3. IsStage(stage)'
      BY <2>3 DEF IsStage
    <3> QED BY <2>1, <3>1, <3>2, <3>3 DEF IInv, ShapeInv
  <2>5. PlacedInv'
    <3>1. /\ DOMAIN placed' = DOMAIN placed \cup {Target}
          /\ \A d \in DOMAIN placed' : placed'[d] = IF d = Target THEN rel ELSE placed[d]
      BY <2>1
    <3>2. \A d \in DOMAIN placed' : OnHost(d) \/ InATree(d)
      BY <3>1 DEF IInv, PlacedInv
    <3>3. TreeLayout'
      BY <3>1 DEF IInv, PlacedInv, TreeLayout
    <3> QED BY <3>1, <3>2, <3>3 DEF IInv, PlacedInv
  <2>6. ModulesInv'
    <3>1. Modules \subseteq Modules'
      BY <2>2, ModulesGrow
    <3>2. [abs |-> Target, rel |-> rel, tree |-> tree] \in Modules'
      <4>1. PICK d \in Dirs : d = Target
        OBVIOUS
      <4>2. d \in DOMAIN placed' /\ placed'[d] = rel
        BY <2>1, <4>1
      <4>3. [abs |-> Target, rel |-> rel, tree |-> tree] = ModuleAt(d, placed'[d])
        BY <4>1, <4>2 DEF ModuleAt
      <4> QED BY <4>2, <4>3 DEF Modules, ModuleAt
    <3>3. queue \in Seq(Modules')
      BY <3>1, SeqMonotonic DEF IInv, ModulesInv
    <3>4. queue' \in Seq(Modules')
      <4>1. PICK m \in Modules' : m = [abs |-> Target, rel |-> rel, tree |-> tree]
        BY <3>2
      <4>2. queue' = Append(queue, m)
        BY <2>1, <4>1
      <4> QED BY <3>3, <4>2, AppendProperties
    <3>5. cur' \in Modules' /\ walked' \subseteq DOMAIN placed'
      BY <2>1, <3>1 DEF IInv, ModulesInv
    <3> QED BY <3>4, <3>5 DEF ModulesInv
  <2> QED BY <2>2, <2>4, <2>5, <2>6 DEF IInv
<1> QED BY <1>1, <1>2
(* The common part of the call actions: the target is sound, and its home  *)
(* agrees with what is recorded and with its tree.                         *)
LEMMA SoundSettleKeeps ==
    ASSUME IInv, Sound,
           NEW tree, NEW rel, NEW st, NEW vendored, NEW names,
           Settle(tree, rel, st, vendored, names),
           IsStage(st), tree = CallTree,
           \/ Target \in DOMAIN placed /\ rel = placed[Target]
           \/ /\ Target \notin DOMAIN placed
              /\ CallTree \in Addr => rel = Prefix[CallTree] \o Rel(TreeAt[CallTree], Target)
    PROVE  IInv' /\ Extends
<1>1. /\ Target \in Dirs /\ CallTree = TreeOf(Target)
      /\ OnHost(Target) \/ (CallTree \in Addr /\ Inside(TreeAt[CallTree], Target))
      /\ Call.kind = "remote" => Call.addr \in Addr
  BY SoundTarget
<1>2. OnHost(Target) \/ InATree(Target)
  BY <1>1 DEF InATree
<1>3. ASSUME NEW t \in Addr, Inside(TreeAt[t], Target)
      PROVE  rel = Prefix[t] \o Rel(TreeAt[t], Target)
  <2>1. CASE Target \in DOMAIN placed /\ rel = placed[Target]
    BY <1>3, <2>1 DEF IInv, PlacedInv, TreeLayout
  <2>2. CASE /\ Target \notin DOMAIN placed
             /\ CallTree \in Addr => rel = Prefix[CallTree] \o Rel(TreeAt[CallTree], Target)
    <3>1. t = TreeOf(Target)
      BY <1>1, <1>3, TreeOfInside
    <3> QED BY <1>1, <2>2, <3>1
  <2> QED BY <2>1, <2>2
<1>4. Target \in DOMAIN placed => rel = placed[Target]
  OBVIOUS
<1>5. Calling
  BY DEF Sound
<1> QED BY <1>1, <1>2, <1>3, <1>4, <1>5, SettleKeeps

LEMMA PlaceKeeps ==
    ASSUME IInv, Sound, Target \notin DOMAIN placed,
           NEW tree, NEW rel, NEW boundary, NEW names,
           Place(tree, rel, boundary, names),
           tree = CallTree,
           CallTree \in Addr /\ Holders(Target) = {} =>
               rel = Prefix[CallTree] \o Rel(TreeAt[CallTree], Target)
    PROVE  IInv' /\ Extends
<1>1. disk \in Worlds /\ IsStage(stage)
  BY DEF IInv, ShapeInv
<1>2. CASE Holders(Target) # {}
  <2>1. PICK home, st : home = PlacedUnder(Target) /\ st = stage
    OBVIOUS
  <2>2. Settle(tree, home, st, <<>>, names)
    BY <1>2, <2>1 DEF Place, Settle
  <2>3. Target \in Dirs /\ CallTree \in Addr => Inside(TreeAt[CallTree], Target)
    BY SoundTarget, TreeOfHost, RootAssumption
  <2>4. CallTree \in Addr => home = Prefix[CallTree] \o Rel(TreeAt[CallTree], Target)
    BY <1>2, <2>1, <2>3, SoundTarget, UnderHolderKeepsLayout DEF IInv
  <2>5. IsStage(st)
    BY <1>1, <2>1
  <2> QED BY <2>2, <2>4, <2>5, SoundSettleKeeps
<1>3. CASE Holders(Target) = {} /\ tree \in Escaping
  BY <1>3, RefuseKeeps DEF Place
<1>4. CASE Holders(Target) = {} /\ tree \notin Escaping /\ ~CopyOK(Target, boundary)
  BY <1>4, RefuseKeeps DEF Place
<1>5. CASE Holders(Target) = {} /\ tree \notin Escaping /\ CopyOK(Target, boundary)
  <2>1. PICK st, vendored :
          st = Copy(stage, Target, rel) /\ vendored = <<[caller |-> cur.rel, abs |-> Target, into |-> rel]>>
    OBVIOUS
  <2>2. Settle(tree, rel, st, vendored, names)
    BY <1>5, <2>1 DEF Place, Settle
  <2>3. IsStage(st)
    <3>1. PICK s, d : s = stage /\ d = Target
      OBVIOUS
    <3>2. IsStage(Copy(s, d, rel))
      BY <1>1, <3>1, CopyIsStage
    <3> QED BY <2>1, <3>1, <3>2
  <2> QED BY <1>5, <2>2, <2>3, SoundSettleKeeps
<1> QED BY <1>2, <1>3, <1>4, <1>5
-----------------------------------------------------------------------------
(* Each action of the pack.                                                *)

LEMMA LocalCaller ==
    ASSUME IInv, SoundLocal
    PROVE  Sound /\ CallTree = cur.tree /\ (InTree <=> cur.tree \in Addr)
<1>1. Sound /\ Call.kind = "local"
  BY DEF SoundLocal
<1>2. cur.tree \in Addr \cup {NoTree}
  BY CurAtHome, TreeOfType
<1> QED BY <1>1, <1>2, RootAssumption DEF CallTree, InTree

LEMMA InitInv == Init => IInv
<1> SUFFICES ASSUME Init PROVE IInv
  OBVIOUS
<1>1. placed = [d \in {RootAbs} |-> <<>>] /\ OnHost(RootAbs) /\ RootAbs \in Dirs
  BY HostAssumption, RootAssumption DEF Init
<1>2. ShapeInv
  BY DEF Init, ShapeInv, IsStage, Statuses
<1>3. PlacedInv
  <2>1. TreeLayout
    BY <1>1 DEF TreeLayout, OnHost
  <2> QED BY <1>1, <2>1 DEF PlacedInv
<1>4. RootModule \in Modules
  <2>1. TreeOf(RootAbs) = NoTree
    BY <1>1, TreeOfHost
  <2>2. RootModule = ModuleAt(RootAbs, placed[RootAbs])
    BY <1>1, <2>1 DEF RootModule, ModuleAt
  <2> QED BY <1>1, <2>2 DEF Modules
<1>5. ModulesInv
  <2>1. <<RootModule>> \in Seq(Modules)
    BY <1>4
  <2> QED BY <1>4, <2>1 DEF Init, ModulesInv
<1> QED BY <1>2, <1>3, <1>5 DEF IInv

LEMMA StageRootKeeps ==
    ASSUME IInv, StageRoot
    PROVE  IInv' /\ Extends
<1>1. CASE Refuse("link") \/ Refuse("boundary")
  BY <1>1, RefuseKeeps
<1>2. CASE ~(Refuse("link") \/ Refuse("boundary"))
  <2>1. /\ stage' = Copy(stage, RootAbs, <<>>)
        /\ status' = "closing"
        /\ UNCHANGED <<disk, placed, used, queue, walked, cur, k, trees, pins, out, reason>>
    BY <1>2 DEF StageRoot
  <2>2. IsStage(stage')
    <3>1. PICK st : st = stage
      OBVIOUS
    <3>2. IsStage(Copy(st, RootAbs, <<>>))
      BY <3>1, CopyIsStage DEF IInv, ShapeInv
    <3>3. stage' = Copy(st, RootAbs, <<>>)
      BY <2>1, <3>1
    <3> QED BY <3>2, <3>3
  <2>3. ShapeInv'
    <3>1. IsStage(stage)'
      BY <2>2 DEF IsStage
    <3> QED BY <2>1, <3>1 DEF IInv, ShapeInv, Statuses
  <2>4. PlacedInv' /\ ModulesInv' /\ Extends
    BY <2>1 DEF IInv, PlacedInv, TreeLayout, ModulesInv, Modules, Extends
  <2> QED BY <2>3, <2>4 DEF IInv
<1> QED BY <1>1, <1>2

LEMMA LoopStepKeeps ==
    ASSUME IInv, Cancelled \/ SkipWalked \/ Packed
    PROVE  IInv' /\ Extends
<1>1. CASE Cancelled
  BY <1>1, RefuseKeeps DEF Cancelled
<1>2. CASE SkipWalked
  <2>1. Tail(queue) \in Seq(Modules)
    BY <1>2, HeadTailProperties DEF SkipWalked, IInv, ModulesInv
  <2> QED BY <1>2, <2>1, PlacesNothing DEF SkipWalked, IInv, ShapeInv
<1>3. CASE Packed
  BY <1>3, PlacesNothing DEF Packed, Statuses, IInv, ModulesInv
<1> QED BY <1>1, <1>2, <1>3

LEMMA LoadModuleKeeps ==
    ASSUME IInv, LoadModule
    PROVE  IInv' /\ Extends
<1>1. CASE Refuse("invalid")
  BY <1>1, RefuseKeeps
<1>2. CASE ~Refuse("invalid")
  <2>1. /\ queue # <<>>
        /\ cur' = Head(queue) /\ k' = 1 /\ queue' = Tail(queue)
        /\ walked' = walked \cup {Head(queue).abs}
        /\ UNCHANGED <<disk, stage, placed, used, trees, pins, out, status, reason>>
    BY <1>2 DEF LoadModule
  <2>2. Head(queue) \in Modules /\ Tail(queue) \in Seq(Modules)
    BY <2>1, HeadTailProperties DEF IInv, ModulesInv
  <2>3. Head(queue).abs \in DOMAIN placed
    <3>1. PICK d \in DOMAIN placed : Head(queue) = ModuleAt(d, placed[d])
      BY <2>2 DEF Modules
    <3> QED BY <3>1, ModuleFields
  <2>4. ShapeInv' /\ PlacedInv' /\ Extends
    BY <2>1 DEF IInv, ShapeInv, IsStage, PlacedInv, TreeLayout, Extends
  <2>5. ModulesInv'
    <3>1. Modules' = Modules
      BY <2>1 DEF Modules
    <3> QED BY <2>1, <2>2, <2>3, <3>1 DEF IInv, ModulesInv
  <2> QED BY <2>4, <2>5 DEF IInv
<1> QED BY <1>1, <1>2

LEMMA RefusedCallKeeps ==
    ASSUME IInv, RefusedCall \/ FetchFails
    PROVE  IInv' /\ Extends
<1>1. CASE RefusedCall
  <2>1. PICK why : why = SourceError
    OBVIOUS
  <2>2. Refuse(why)
    BY <1>1, <2>1 DEF RefusedCall, Refuse
  <2> QED BY <2>2, RefuseKeeps
<1>2. CASE FetchFails
  BY <1>2, RefuseKeeps DEF FetchFails
<1> QED BY <1>1, <1>2

LEMMA LocalKnownKeeps ==
    ASSUME IInv, LocalKnown
    PROVE  IInv' /\ Extends
<1>1. PICK tree, rel, st, names :
        tree = cur.tree /\ rel = placed[Target] /\ st = stage /\ names = used
  OBVIOUS
<1>2. Settle(tree, rel, st, <<>>, names)
  BY <1>1 DEF LocalKnown, Settle
<1>3. SoundLocal /\ Target \in DOMAIN placed
  BY DEF LocalKnown
<1>4. Sound /\ tree = CallTree /\ IsStage(st)
  BY <1>1, <1>3, LocalCaller DEF IInv, ShapeInv
<1> QED BY <1>1, <1>2, <1>3, <1>4, SoundSettleKeeps

LEMMA LocalInTreeKeeps ==
    ASSUME IInv, LocalInTree
    PROVE  IInv' /\ Extends
<1>1. PICK tree, rel, boundary, names :
        /\ tree = cur.tree /\ rel = Prefix[cur.tree] \o Rel(TreeAt[cur.tree], Target)
        /\ boundary = TreeAt[cur.tree] /\ names = used
  OBVIOUS
<1>2. Place(tree, rel, boundary, names)
  BY <1>1 DEF LocalInTree, Place, Settle
<1>3. SoundLocal /\ Target \notin DOMAIN placed
  BY DEF LocalInTree
<1>4. Sound /\ CallTree = cur.tree
  BY <1>3, LocalCaller
<1> QED BY <1>1, <1>2, <1>3, <1>4, PlaceKeeps

LEMMA LocalInRootKeeps ==
    ASSUME IInv, LocalInRoot
    PROVE  IInv' /\ Extends
<1>1. PICK rel, st, names : rel = Rel(RootAbs, Target) /\ st = stage /\ names = used
  OBVIOUS
<1>2. Settle(NoTree, rel, st, <<>>, names)
  BY <1>1 DEF LocalInRoot, Settle
<1>3. SoundLocal /\ Target \notin DOMAIN placed /\ ~InTree
  BY DEF LocalInRoot
<1>4. Sound /\ CallTree = NoTree /\ CallTree \notin Addr /\ IsStage(st)
  BY <1>1, <1>3, LocalCaller, RootAssumption DEF InTree, IInv, ShapeInv
<1> QED BY <1>2, <1>3, <1>4, SoundSettleKeeps

LEMMA LocalOutsideKeeps ==
    ASSUME IInv, LocalOutside
    PROVE  IInv' /\ Extends
<1>1. SoundLocal /\ Target \notin DOMAIN placed /\ ~InTree
  BY DEF LocalOutside
<1>2. Sound /\ CallTree = NoTree /\ CallTree \notin Addr
  BY <1>1, LocalCaller, RootAssumption DEF InTree
<1>3. CASE Refuse("boundary")
  BY <1>3, RefuseKeeps
<1>4. CASE ~Refuse("boundary")
  <2>1. PICK rel, boundary, names : Place(NoTree, rel, boundary, names)
    <3>1. CASE Holders(Target) # {}
      BY <1>4, <3>1 DEF LocalOutside
    <3>2. CASE Holders(Target) = {}
      BY <1>4, <3>2 DEF LocalOutside
    <3> QED BY <3>1, <3>2
  <2> QED BY <1>1, <1>2, <2>1, PlaceKeeps
<1> QED BY <1>3, <1>4

LEMMA RemoteKeeps ==
    ASSUME IInv, Remote
    PROVE  IInv' /\ Extends
<1>1. Sound /\ Call.kind = "remote" /\ CallTree = Call.addr
  BY DEF Remote, CallTree
<1>2. CASE Target \in DOMAIN placed
  <2>1. PICK tree, rel, st, names :
          tree = Call.addr /\ rel = placed[Target] /\ st = stage /\ names = used
    OBVIOUS
  <2>2. Settle(tree, rel, st, <<>>, names)
    BY <1>2, <2>1 DEF Remote, Settle
  <2> QED BY <1>1, <1>2, <2>1, <2>2, SoundSettleKeeps DEF IInv, ShapeInv
<1>3. CASE Target \notin DOMAIN placed
  <2>1. PICK tree, rel, boundary, names :
          /\ tree = Call.addr /\ rel = Prefix[Call.addr] \o Call.down
          /\ boundary = TreeAt[Call.addr] /\ names = used
    OBVIOUS
  <2>2. Place(tree, rel, boundary, names)
    BY <1>3, <2>1 DEF Remote, Place, Settle
  <2>3. rel = Prefix[CallTree] \o Rel(TreeAt[CallTree], Target)
    BY <1>1, <2>1, SoundTarget
  <2> QED BY <1>1, <1>3, <2>1, <2>2, <2>3, PlaceKeeps
<1> QED BY <1>2, <1>3

LEMMA StepKeeps ==
    ASSUME IInv, [Next]_vars
    PROVE  IInv' /\ Extends
<1>1. CASE StageRoot
  BY <1>1, StageRootKeeps
<1>2. CASE Cancelled \/ SkipWalked \/ Packed
  BY <1>2, LoopStepKeeps
<1>3. CASE LoadModule
  BY <1>3, LoadModuleKeeps
<1>4. CASE RefusedCall \/ FetchFails
  BY <1>4, RefusedCallKeeps
<1>5. CASE LocalKnown
  BY <1>5, LocalKnownKeeps
<1>6. CASE LocalInTree
  BY <1>6, LocalInTreeKeeps
<1>7. CASE LocalInRoot
  BY <1>7, LocalInRootKeeps
<1>8. CASE LocalOutside
  BY <1>8, LocalOutsideKeeps
<1>9. CASE Remote
  BY <1>9, RemoteKeeps
<1>10. CASE UNCHANGED vars
  BY <1>10, PlacesNothing DEF vars, IInv, ShapeInv, ModulesInv
<1> QED BY <1>1, <1>2, <1>3, <1>4, <1>5, <1>6, <1>7, <1>8, <1>9, <1>10 DEF Next, Step, OneCall

LEMMA PackInv == Spec => []IInv
<1>1. Init => IInv
  BY InitInv
<1>2. IInv /\ [Next]_vars => IInv'
  BY StepKeeps
<1> QED BY <1>1, <1>2, PTL DEF Spec

-----------------------------------------------------------------------------
(* The theorems.                                                           *)

(* A pack's state is well formed: what is staged comes from directories    *)
(* that exist, every module waiting or walked is one of them and in a      *)
(* known tree, and pins are of known addresses.                            *)
THEOREM PackTypeCorrect == Spec => []TypeOK
<1>1. IInv => TypeOK
  <2> SUFFICES ASSUME IInv PROVE TypeOK
    OBVIOUS
  <2>1. DOMAIN disk = Dirs
    BY WorldsAssumption DEF IInv, ShapeInv
  <2>2. ASSUME NEW m \in Modules PROVE m.abs \in Dirs /\ m.tree \in Addr \cup {NoTree}
    <3>1. PICK d \in DOMAIN placed : m = ModuleAt(d, placed[d])
      BY DEF Modules
    <3> QED BY <3>1, ModuleFields, TreeOfType DEF IInv, PlacedInv
  <2>3. \A i \in DOMAIN queue : queue[i] \in Modules
    BY DEF IInv, ModulesInv
  <2>4. cur \in Modules
    BY DEF IInv, ModulesInv
  <2>5. walked \subseteq Dirs
    BY DEF IInv, ModulesInv, PlacedInv
  <2> QED BY <2>1, <2>2, <2>3, <2>4, <2>5 DEF TypeOK, IInv, ShapeInv, PlacedInv, IsStage, Statuses
<1> QED BY <1>1, PackInv, PTL

(* Every module queued, being walked or walked has the home recorded for   *)
(* its directory, and is confined to the tree it lies in.                  *)
THEOREM ModulesAreAtHome == Spec => []Homes
<1>1. IInv => Homes
  <2> SUFFICES ASSUME IInv PROVE Homes
    OBVIOUS
  <2>1. ASSUME NEW m \in Modules PROVE HasHome(m)
    <3>1. PICK d \in DOMAIN placed : m = ModuleAt(d, placed[d])
      BY DEF Modules
    <3> QED BY <3>1, ModuleFields DEF HasHome
  <2>2. \A i \in DOMAIN queue : queue[i] \in Modules
    BY DEF IInv, ModulesInv
  <2>3. \A i \in DOMAIN queue : HasHome(queue[i])
    BY <2>1, <2>2 DEF HasHome
  <2>4. HasHome(cur)
    BY <2>1 DEF HasHome, IInv, ModulesInv
  <2>5. walked \subseteq DOMAIN placed
    BY DEF IInv, ModulesInv
  <2> QED BY <2>3, <2>4, <2>5 DEF Homes
<1> QED BY <1>1, PackInv, PTL

(* A fetched tree keeps its layout in the bundle, in whatever order its    *)
(* directories were reached, directly or under one brought along before.   *)
THEOREM TreesKeepTheirLayout == Spec => []TreeLayout
<1>1. IInv => TreeLayout
  BY DEF IInv, PlacedInv
<1> QED BY <1>1, PackInv, PTL

(* The home a call was pointed at never moves and is never forgotten.      *)
THEOREM HomesNeverMove == Spec => PlacedNeverMoves
<1>1. IInv /\ [Next]_vars => [Extends]_vars
  BY StepKeeps
<1> QED BY <1>1, PackInv, PTL DEF Spec, PlacedNeverMoves, Extends

-----------------------------------------------------------------------------
(* A call either refuses the pack or is settled.                           *)

Refused ==
    /\ status' = "refused"
    /\ UNCHANGED <<disk, stage, placed, queue, walked, cur, k, trees, pins>>

(* Each entry of st is one of old or was copied from within src.           *)
ComesFrom(st, old, src) ==
    \A p \in DOMAIN st :
        \/ \E q \in DOMAIN old : st[p].from = old[q].from
        \/ st[p].from \in CopiedDirs(src)

(* What had been checked of the target when it was copied.                 *)
Allowed ==
    IF CallTree = NoTree THEN WithinBoundary(Target) /\ CopyOK(Target, Target)
                         ELSE CopyOK(Target, TreeAt[CallTree])
SourcesKnown(st) ==
    \/ \A p \in DOMAIN st : \E q \in DOMAIN stage : st[p].from = stage[q].from
    \/ Allowed /\ ComesFrom(st, stage, Target)

Settled ==
    /\ Sound
    /\ SourcesKnown(stage')
    /\ \E rel : queue' = Append(queue, [abs |-> Target, rel |-> rel, tree |-> CallTree])
    /\ DOMAIN placed' = DOMAIN placed \cup {Target}
    /\ trees' = IF Call.kind = "remote" THEN trees \cup {Call.addr} ELSE trees
    /\ pins' = PinsAfter
    /\ k' = k + 1
    /\ UNCHANGED <<disk, walked, cur, status>>

LEMMA CopySources ==
    ASSUME NEW st, NEW src, NEW dst
    PROVE  ComesFrom(Copy(st, src, dst), st, src)
<1> DEFINE lands == {dst \o Rel(src, d) : d \in CopiedDirs(src)}
           Origin(p) == CHOOSE d \in CopiedDirs(src) : p = dst \o Rel(src, d)
           Copied(d) == [from |-> d, file |-> disk[d].file, calls |-> disk[d].calls]
           Keeps(p) == p \in DOMAIN st /\ (p \in lands => ~disk[Origin(p)].file)
<1>1. Copy(st, src, dst) =
        [p \in DOMAIN st \cup lands |-> IF Keeps(p) THEN st[p] ELSE Copied(Origin(p))]
  BY DEF Copy
<1>2. ASSUME NEW p \in lands PROVE Origin(p) \in CopiedDirs(src)
  <2>1. \E d \in CopiedDirs(src) : p = dst \o Rel(src, d)
    OBVIOUS
  <2> QED BY <2>1
<1>3. ASSUME NEW d PROVE Copied(d).from = d
  OBVIOUS
<1>4. ASSUME NEW p \in DOMAIN st \cup lands, ~Keeps(p) PROVE p \in lands
  BY <1>4
<1>5. ASSUME NEW p, Keeps(p) PROVE p \in DOMAIN st
  BY <1>5
<1> HIDE DEF Keeps, Copied, Origin, lands
<1>6. DOMAIN Copy(st, src, dst) = DOMAIN st \cup lands
  BY <1>1
<1>7. ASSUME NEW p \in DOMAIN st \cup lands
      PROVE  Copy(st, src, dst)[p] = IF Keeps(p) THEN st[p] ELSE Copied(Origin(p))
  BY <1>1
<1>8. ASSUME NEW p \in DOMAIN st \cup lands
      PROVE  \/ \E q \in DOMAIN st : Copy(st, src, dst)[p].from = st[q].from
             \/ Copy(st, src, dst)[p].from \in CopiedDirs(src)
  <2>1. CASE Keeps(p)
    BY <1>5, <1>7, <2>1
  <2>2. CASE ~Keeps(p)
    BY <1>2, <1>3, <1>4, <1>7, <2>2
  <2> QED BY <2>1, <2>2
<1> QED BY <1>6, <1>8 DEF ComesFrom

LEMMA RefuseRefuses ==
    ASSUME NEW why, Refuse(why)
    PROVE  Refused
BY DEF Refuse, Refused

LEMMA SettleSettles ==
    ASSUME Sound, NEW tree, NEW rel, NEW st, NEW vendored, NEW names,
           Settle(tree, rel, st, vendored, names),
           tree = CallTree, IsStage(st), SourcesKnown(st)
    PROVE  Refused \/ Settled
<1>1. CASE Refuse("unsupported") \/ Refuse("io")
  BY <1>1, RefuseRefuses
<1>2. CASE ~(Refuse("unsupported") \/ Refuse("io"))
  <2>1. /\ stage' = IF NeedsRewrite(rel)
                      THEN [st EXCEPT ![cur.rel].calls[k] = Rewritten(rel)] ELSE st
        /\ placed' = [d \in DOMAIN placed \cup {Target} |-> IF d = Target THEN rel ELSE placed[d]]
        /\ trees' = IF Call.kind = "remote" THEN trees \cup {Call.addr} ELSE trees
        /\ pins' = PinsAfter
        /\ queue' = Append(queue, [abs |-> Target, rel |-> rel, tree |-> tree])
        /\ k' = k + 1
        /\ UNCHANGED <<disk, walked, cur, status>>
    BY <1>2 DEF Settle
  <2>2. DOMAIN stage' = DOMAIN st
    BY <2>1
  <2>3. ASSUME NEW p \in DOMAIN st PROVE stage'[p].from = st[p].from
    <3>1. DOMAIN st[p] = {"from", "file", "calls"}
      BY DEF IsStage
    <3>2. CASE ~NeedsRewrite(rel) \/ p # cur.rel
      BY <2>1, <3>2
    <3>3. CASE NeedsRewrite(rel) /\ p = cur.rel
      <4>1. stage' = [st EXCEPT ![cur.rel].calls[k] = Rewritten(rel)]
        BY <2>1, <3>3
      <4> QED BY <3>1, <3>3, <4>1
    <3> QED BY <3>2, <3>3
  <2>4. SourcesKnown(stage')
    BY <2>2, <2>3 DEF SourcesKnown, ComesFrom
  <2>5. DOMAIN placed' = DOMAIN placed \cup {Target}
    BY <2>1
  <2>6. \E r : queue' = Append(queue, [abs |-> Target, rel |-> r, tree |-> CallTree])
    BY <2>1
  <2> QED BY <2>1, <2>4, <2>5, <2>6 DEF Settled
<1> QED BY <1>1, <1>2

LEMMA PlaceSettles ==
    ASSUME IInv, Sound, NEW tree, NEW rel, NEW boundary, NEW names,
           Place(tree, rel, boundary, names), tree = CallTree,
           Holders(Target) = {} /\ CopyOK(Target, boundary) => Allowed
    PROVE  Refused \/ Settled
<1>1. disk \in Worlds /\ IsStage(stage)
  BY DEF IInv, ShapeInv
<1>2. CASE Holders(Target) # {}
  <2>1. PICK home, st : home = PlacedUnder(Target) /\ st = stage
    OBVIOUS
  <2>2. Settle(tree, home, st, <<>>, names)
    BY <1>2, <2>1 DEF Place, Settle
  <2>3. IsStage(st) /\ SourcesKnown(st)
    BY <1>1, <2>1 DEF SourcesKnown
  <2> QED BY <2>2, <2>3, SettleSettles
<1>3. CASE Holders(Target) = {} /\ tree \in Escaping
  BY <1>3, RefuseRefuses DEF Place
<1>4. CASE Holders(Target) = {} /\ tree \notin Escaping /\ ~CopyOK(Target, boundary)
  BY <1>4, RefuseRefuses DEF Place
<1>5. CASE Holders(Target) = {} /\ tree \notin Escaping /\ CopyOK(Target, boundary)
  <2>1. PICK st, vendored :
          st = Copy(stage, Target, rel) /\ vendored = <<[caller |-> cur.rel, abs |-> Target, into |-> rel]>>
    OBVIOUS
  <2>2. Settle(tree, rel, st, vendored, names)
    BY <1>5, <2>1 DEF Place, Settle
  <2>3. IsStage(st) /\ ComesFrom(st, stage, Target)
    <3>1. PICK s, d : s = stage /\ d = Target
      OBVIOUS
    <3>2. IsStage(Copy(s, d, rel)) /\ ComesFrom(Copy(s, d, rel), s, d)
      BY <1>1, <3>1, CopyIsStage, CopySources
    <3> QED BY <2>1, <3>1, <3>2
  <2>4. SourcesKnown(st)
    BY <1>5, <2>3 DEF SourcesKnown
  <2> QED BY <2>2, <2>3, <2>4, SettleSettles
<1> QED BY <1>2, <1>3, <1>4, <1>5

LEMMA CallSettles ==
    ASSUME IInv, OneCall
    PROVE  Refused \/ Settled
<1>1. CASE RefusedCall \/ FetchFails
  <2>1. PICK why : why = SourceError
    OBVIOUS
  <2>2. Refuse(why) \/ Refuse("fetch")
    BY <1>1, <2>1 DEF RefusedCall, FetchFails, Refuse
  <2> QED BY <2>2, RefuseRefuses
<1>2. PICK st : st = stage
  OBVIOUS
<1>3. IsStage(st) /\ SourcesKnown(st)
  BY <1>2 DEF IInv, ShapeInv, SourcesKnown
<1>4. CASE LocalKnown
  <2>1. PICK tree, rel, names : tree = cur.tree /\ rel = placed[Target] /\ names = used
    OBVIOUS
  <2>2. Settle(tree, rel, st, <<>>, names) /\ SoundLocal
    BY <1>2, <1>4, <2>1 DEF LocalKnown, Settle
  <2> QED BY <1>3, <2>1, <2>2, LocalCaller, SettleSettles
<1>5. CASE LocalInTree
  <2>1. PICK tree, rel, boundary, names :
          /\ tree = cur.tree /\ rel = Prefix[cur.tree] \o Rel(TreeAt[cur.tree], Target)
          /\ boundary = TreeAt[cur.tree] /\ names = used
    OBVIOUS
  <2>2. Place(tree, rel, boundary, names)
    BY <1>5, <2>1 DEF LocalInTree, Place, Settle
  <2>3. Sound /\ CallTree = cur.tree /\ CallTree # NoTree
    BY <1>5, LocalCaller DEF LocalInTree, InTree
  <2>4. CopyOK(Target, boundary) => Allowed
    BY <2>1, <2>3 DEF Allowed
  <2> QED BY <2>1, <2>2, <2>3, <2>4, PlaceSettles
<1>6. CASE LocalInRoot
  <2>1. PICK rel, names : rel = Rel(RootAbs, Target) /\ names = used
    OBVIOUS
  <2>2. Settle(NoTree, rel, st, <<>>, names) /\ SoundLocal /\ ~InTree
    BY <1>2, <1>6, <2>1 DEF LocalInRoot, Settle
  <2>3. CallTree = NoTree /\ Sound
    BY <2>2, LocalCaller DEF InTree
  <2> QED BY <1>3, <2>2, <2>3, SettleSettles
<1>7. CASE LocalOutside
  <2>1. Sound /\ CallTree = NoTree
    BY <1>7, LocalCaller DEF LocalOutside, InTree
  <2>2. CASE ~WithinBoundary(Target)
    BY <1>7, <2>2, RefuseRefuses DEF LocalOutside
  <2>3. CASE WithinBoundary(Target)
    <3>1. PICK boundary : boundary = Target
      OBVIOUS
    <3>2. PICK rel, names : Place(NoTree, rel, boundary, names)
      <4>1. CASE Holders(Target) # {}
        BY <1>7, <2>3, <3>1, <4>1 DEF LocalOutside
      <4>2. CASE Holders(Target) = {}
        BY <1>7, <2>3, <3>1, <4>2 DEF LocalOutside
      <4> QED BY <4>1, <4>2
    <3>3. CopyOK(Target, boundary) => Allowed
      BY <2>1, <2>3, <3>1 DEF Allowed
    <3> QED BY <2>1, <3>2, <3>3, PlaceSettles
  <2> QED BY <2>2, <2>3
<1>8. CASE Remote
  <2>1. Sound /\ Call.kind = "remote" /\ CallTree = Call.addr /\ CallTree # NoTree
    BY <1>8, SoundTarget, RootAssumption DEF Remote, CallTree
  <2>2. CASE Target \in DOMAIN placed
    <3>1. PICK tree, rel, names : tree = Call.addr /\ rel = placed[Target] /\ names = used
      OBVIOUS
    <3>2. Settle(tree, rel, st, <<>>, names)
      BY <1>2, <1>8, <2>2, <3>1 DEF Remote, Settle
    <3> QED BY <1>3, <2>1, <3>1, <3>2, SettleSettles
  <2>3. CASE Target \notin DOMAIN placed
    <3>1. PICK tree, rel, boundary, names :
            /\ tree = Call.addr /\ rel = Prefix[Call.addr] \o Call.down
            /\ boundary = TreeAt[Call.addr] /\ names = used
      OBVIOUS
    <3>2. Place(tree, rel, boundary, names)
      BY <1>8, <2>3, <3>1 DEF Remote, Place, Settle
    <3>3. CopyOK(Target, boundary) => Allowed
      BY <2>1, <3>1 DEF Allowed
    <3> QED BY <2>1, <3>1, <3>2, <3>3, PlaceSettles
  <2> QED BY <2>2, <2>3
<1> QED BY <1>1, <1>4, <1>5, <1>6, <1>7, <1>8 DEF OneCall

(* Every step is one of these.                                             *)
Quiet ==
    /\ UNCHANGED <<disk, stage, placed, walked, cur, k, trees, pins>>
    /\ queue' = queue
StagedRoot ==
    /\ stage' = Copy(stage, RootAbs, <<>>)
    /\ CopyOK(RootAbs, RootAbs) /\ WithinBoundary(RootAbs)
    /\ status' = "closing"
    /\ UNCHANGED <<disk, placed, queue, walked, cur, k, trees, pins>>
Loaded ==
    /\ AtLoopHead
    /\ queue # <<>> /\ queue' = Tail(queue)
    /\ cur' = Head(queue) /\ k' = 1
    /\ walked' = walked \cup {Head(queue).abs}
    /\ UNCHANGED <<disk, stage, placed, trees, pins, status>>

LEMMA StepIs ==
    ASSUME IInv, [Next]_vars
    PROVE  \/ Quiet /\ (status' \in {status, "refused"} \/ Packed)
           \/ SkipWalked
           \/ StagedRoot \/ Loaded \/ Settled
<1>1. CASE StageRoot
  BY <1>1 DEF StageRoot, Refuse, Quiet, StagedRoot
<1>2. CASE Cancelled \/ Packed \/ UNCHANGED vars
  BY <1>2 DEF Cancelled, Refuse, Packed, vars, Quiet
<1>3. CASE LoadModule
  BY <1>3 DEF LoadModule, Refuse, Quiet, Loaded
<1>4. CASE OneCall
  BY <1>4, CallSettles DEF Refused, Quiet
<1> QED BY <1>1, <1>2, <1>3, <1>4 DEF Next, Step

-----------------------------------------------------------------------------
(* What is staged.                                                         *)

(* What a copy brings along lies where the directory that is copied lies.  *)
LEMMA CopiedTree ==
    ASSUME NEW src \in Dirs, OnHost(src) \/ InATree(src), NEW d \in CopiedDirs(src)
    PROVE  d \in Dirs /\ Inside(src, d) /\ TreeOf(d) = TreeOf(src)
<1>1. d \in Dirs /\ Inside(src, d)
  BY DEF CopiedDirs
<1>2. d \in Seq(Name) /\ src \in Seq(Name)
  BY <1>1, DirsAssumption
<1>3. CASE OnHost(src)
  <2>1. ASSUME NEW t \in Addr PROVE ~Inside(TreeAt[t], d)
    <3>1. TreeAt[t] \in Seq(Name)
      BY TreeAssumption, DirsAssumption
    <3> QED BY <1>1, <1>2, <1>3, <3>1, InsideIsAChain DEF OnHost
  <2>2. TreeOf(d) = NoTree
    BY <2>1 DEF TreeOf
  <2> QED BY <1>1, <1>3, <2>2, TreeOfHost
<1>4. CASE InATree(src)
  <2>1. PICK t \in Addr : Inside(TreeAt[t], src)
    BY <1>4 DEF InATree
  <2>2. Inside(TreeAt[t], d)
    <3>1. TreeAt[t] \in Seq(Name)
      BY TreeAssumption, DirsAssumption
    <3> QED BY <1>1, <1>2, <2>1, <3>1, InsideTransitive
  <2> QED BY <1>1, <2>1, <2>2, TreeOfInside
<1> QED BY <1>3, <1>4

(* A directory that may be in the bundle, as far as boundaries go.         *)
Bounded(d) ==
    IF TreeOf(d) # NoTree THEN ResolvesInside(TreeAt[TreeOf(d)], d) ELSE WithinBoundary(d)

LEMMA CopiedWithin ==
    ASSUME disk \in Worlds, NEW src \in Dirs, NEW d \in Dirs,
           WithinBoundary(src), Inside(Real(src), Real(d))
    PROVE  WithinBoundary(d)
<1>1. ASSUME NEW b \in Boundary PROVE Inside(Real(b), Real(d))
  <2>1. b \in Dirs
    BY RootAssumption
  <2>2. Real(b) \in Seq(Name) /\ Real(src) \in Seq(Name) /\ Real(d) \in Seq(Name)
    BY <2>1, WorldsAssumption, DirsAssumption DEF Real
  <2>3. Inside(Real(b), Real(src))
    BY DEF WithinBoundary
  <2> QED BY <2>2, <2>3, InsideTransitive
<1> QED BY <1>1 DEF WithinBoundary

(* What a settled call brought along is of the target's tree and bounded.  *)
LEMMA BroughtIsBounded ==
    ASSUME IInv, Sound, Allowed, NEW d \in CopiedDirs(Target)
    PROVE  TreeOf(d) = CallTree /\ Bounded(d)
<1>1. disk \in Worlds
  BY DEF IInv, ShapeInv
<1>2. /\ Target \in Dirs /\ CallTree = TreeOf(Target)
      /\ OnHost(Target) \/ InATree(Target)
  BY SoundTarget DEF InATree
<1>3. d \in Dirs /\ TreeOf(d) = CallTree
  <2>1. PICK src \in Dirs : src = Target
    BY <1>2
  <2>2. d \in CopiedDirs(src) /\ (OnHost(src) \/ InATree(src)) /\ TreeOf(src) = CallTree
    BY <1>2, <2>1
  <2> QED BY <2>2, CopiedTree
<1>4. CASE CallTree = NoTree
  <2>1. PICK src \in Dirs : src = Target
    BY <1>2
  <2>2. WithinBoundary(src) /\ CopyOK(src, src) /\ d \in CopiedDirs(src)
    BY <1>4, <2>1 DEF Allowed
  <2>3. Inside(Real(src), Real(d))
    BY <2>2 DEF CopyOK
  <2> QED BY <1>1, <1>3, <1>4, <2>2, <2>3, CopiedWithin DEF Bounded
<1>5. CASE CallTree # NoTree
  <2>1. CopyOK(Target, TreeAt[CallTree])
    BY <1>5 DEF Allowed
  <2>2. Inside(Real(TreeAt[CallTree]), Real(d))
    BY <2>1 DEF CopyOK
  <2> QED BY <1>3, <1>5, <2>2 DEF Bounded, ResolvesInside
<1> QED BY <1>3, <1>4, <1>5

(* A tree is known from its fetch on, is pinned then and only then, and no *)
(* directory of another tree has a home or was copied.                     *)
TreesInv ==
    /\ \A i, j \in DOMAIN pins : pins[i] = pins[j] => i = j
    /\ \A t \in Addr : t \in trees <=> \E i \in DOMAIN pins : pins[i] = t
    /\ \A d \in DOMAIN placed : TreeOf(d) # NoTree => TreeOf(d) \in trees
StagedInv ==
    \A p \in DOMAIN stage :
        /\ Bounded(stage[p].from)
        /\ TreeOf(stage[p].from) # NoTree => TreeOf(stage[p].from) \in trees

LEMMA SettledTrees ==
    ASSUME IInv, TreesInv, Settled
    PROVE  TreesInv' /\ trees \subseteq trees' /\ (CallTree # NoTree => CallTree \in trees')
<1>1. /\ Target \in Dirs /\ CallTree = TreeOf(Target)
      /\ Call.kind = "remote" => Call.addr \in Addr
      /\ cur.abs \in DOMAIN placed /\ cur.tree = TreeOf(cur.abs)
      /\ trees \subseteq Addr /\ pins \in Seq(Addr)
  BY SoundTarget, CurAtHome DEF Settled, IInv, ShapeInv
<1>2. trees \subseteq trees' /\ (CallTree # NoTree => CallTree \in trees')
  BY <1>1 DEF Settled, CallTree, TreesInv
<1>3. \A d \in DOMAIN placed' : TreeOf(d) # NoTree => TreeOf(d) \in trees'
  BY <1>1, <1>2 DEF Settled, TreesInv
<1>4. CASE Call.kind = "remote" /\ Call.addr \notin trees
  <2>1. PICK t \in Addr : t = Call.addr
    BY <1>1, <1>4
  <2>2. pins' = Append(pins, t) /\ trees' = trees \cup {t} /\ t \notin trees
    BY <1>4, <2>1 DEF Settled, PinsAfter
  <2>3. PICK n \in Nat : n = Len(pins) /\ DOMAIN pins = 1 .. n
    BY <1>1, LenProperties
  <2>4. /\ DOMAIN pins' = 1 .. (n + 1) /\ pins'[n + 1] = t
        /\ \A i \in 1 .. n : pins'[i] = pins[i]
    <3>1. /\ Append(pins, t) \in Seq(Addr) /\ Len(Append(pins, t)) = Len(pins) + 1
          /\ \A i \in 1 .. Len(pins) : Append(pins, t)[i] = pins[i]
          /\ Append(pins, t)[Len(pins) + 1] = t
      BY <1>1, AppendProperties
    <3> QED BY <2>2, <2>3, <3>1, LenProperties
  <2>5. \A i \in 1 .. n : pins[i] # t
    BY <2>2, <2>3 DEF TreesInv
  <2>6. \A i, j \in DOMAIN pins' : pins'[i] = pins'[j] => i = j
    <3> SUFFICES ASSUME NEW i \in 1 .. (n + 1), NEW j \in 1 .. (n + 1), pins'[i] = pins'[j]
        PROVE  i = j
      BY <2>4
    <3>1. i \in 1 .. n \/ i = n + 1
      OBVIOUS
    <3>2. j \in 1 .. n \/ j = n + 1
      OBVIOUS
    <3> QED BY <2>3, <2>4, <2>5, <3>1, <3>2 DEF TreesInv
  <2>7. ASSUME NEW u \in Addr PROVE u \in trees' <=> \E i \in DOMAIN pins' : pins'[i] = u
    <3>1. ASSUME u \in trees' PROVE \E i \in 1 .. (n + 1) : pins'[i] = u
      <4>1. CASE u = t
        BY <2>4, <4>1
      <4>2. CASE u \in trees
        <5>1. PICK i \in 1 .. n : pins[i] = u
          BY <2>3, <4>2 DEF TreesInv
        <5>2. i \in 1 .. (n + 1)
          OBVIOUS
        <5> QED BY <2>4, <5>1, <5>2
      <4> QED BY <2>2, <3>1, <4>1, <4>2
    <3>2. ASSUME NEW i \in 1 .. (n + 1), pins'[i] = u PROVE u \in trees'
      <4>1. CASE i = n + 1
        BY <2>2, <2>4, <3>2, <4>1
      <4>2. CASE i \in 1 .. n
        BY <2>2, <2>3, <2>4, <3>2, <4>2 DEF TreesInv
      <4> QED BY <4>1, <4>2
    <3> QED BY <2>4, <3>1, <3>2
  <2> QED BY <1>2, <1>3, <2>6, <2>7 DEF TreesInv
<1>5. CASE ~(Call.kind = "remote" /\ Call.addr \notin trees)
  <2>1. pins' = pins /\ trees' = trees
    BY <1>5 DEF Settled, PinsAfter
  <2> QED BY <1>2, <1>3, <2>1 DEF TreesInv
<1> QED BY <1>4, <1>5

LEMMA SettledStage ==
    ASSUME IInv, StagedInv, Settled, trees \subseteq trees', CallTree # NoTree => CallTree \in trees'
    PROVE  StagedInv'
<1>1. disk' = disk
  BY DEF Settled
<1>2. ASSUME NEW d PROVE Bounded(d)' <=> Bounded(d)
  BY <1>1 DEF Bounded, ResolvesInside, WithinBoundary, Real
<1>3. ASSUME NEW p \in DOMAIN stage'
      PROVE  LET d == stage'[p].from IN
             Bounded(d) /\ (TreeOf(d) # NoTree => TreeOf(d) \in trees')
  <2>1. CASE \E q \in DOMAIN stage : stage'[p].from = stage[q].from
    BY <2>1 DEF StagedInv
  <2>2. CASE Sound /\ Allowed /\ stage'[p].from \in CopiedDirs(Target)
    <3>1. PICK d \in CopiedDirs(Target) : d = stage'[p].from
      BY <2>2
    <3>2. TreeOf(d) = CallTree /\ Bounded(d)
      BY <2>2, BroughtIsBounded
    <3> QED BY <3>1, <3>2
  <2>3. Sound /\ SourcesKnown(stage')
    BY DEF Settled
  <2> QED BY <2>1, <2>2, <2>3 DEF SourcesKnown, ComesFrom
<1> QED BY <1>2, <1>3 DEF StagedInv

LEMMA StagedRootStage ==
    ASSUME IInv, StagedInv, StagedRoot
    PROVE  StagedInv'
<1>1. disk' = disk /\ trees' = trees /\ disk \in Worlds
  BY DEF StagedRoot, IInv, ShapeInv
<1>2. ASSUME NEW d PROVE Bounded(d)' <=> Bounded(d)
  BY <1>1 DEF Bounded, ResolvesInside, WithinBoundary, Real
<1>3. RootAbs \in Dirs /\ OnHost(RootAbs) /\ TreeOf(RootAbs) = NoTree
  BY RootAssumption, HostAssumption, TreeOfHost
<1>4. ASSUME NEW d \in CopiedDirs(RootAbs) PROVE Bounded(d) /\ TreeOf(d) = NoTree
  <2>1. d \in Dirs /\ TreeOf(d) = NoTree
    BY <1>3, CopiedTree
  <2>2. Inside(Real(RootAbs), Real(d)) /\ WithinBoundary(RootAbs)
    BY DEF StagedRoot, CopyOK
  <2> QED BY <1>1, <1>3, <2>1, <2>2, CopiedWithin DEF Bounded
<1>5. ComesFrom(stage', stage, RootAbs)
  <2>1. PICK st : st = stage
    OBVIOUS
  <2>2. ComesFrom(Copy(st, RootAbs, <<>>), st, RootAbs)
    BY CopySources
  <2>3. stage' = Copy(st, RootAbs, <<>>)
    BY <2>1 DEF StagedRoot
  <2> QED BY <2>1, <2>2, <2>3
<1>6. ASSUME NEW p \in DOMAIN stage'
      PROVE  LET d == stage'[p].from IN
             Bounded(d) /\ (TreeOf(d) # NoTree => TreeOf(d) \in trees')
  <2>1. CASE \E q \in DOMAIN stage : stage'[p].from = stage[q].from
    BY <1>1, <2>1 DEF StagedInv
  <2>2. CASE stage'[p].from \in CopiedDirs(RootAbs)
    BY <1>4, <2>2
  <2> QED BY <1>5, <2>1, <2>2 DEF ComesFrom
<1> QED BY <1>2, <1>6 DEF StagedInv

LEMMA BundleInv == Spec => [](IInv /\ TreesInv /\ StagedInv)
<1>1. Init => TreesInv /\ StagedInv
  <2> SUFFICES ASSUME Init PROVE TreesInv /\ StagedInv
    OBVIOUS
  <2>1. TreeOf(RootAbs) = NoTree
    BY HostAssumption, TreeOfHost
  <2> QED BY <2>1 DEF Init, TreesInv, StagedInv
<1>2. IInv /\ TreesInv /\ StagedInv /\ [Next]_vars => TreesInv' /\ StagedInv'
  <2> SUFFICES ASSUME IInv, TreesInv, StagedInv, [Next]_vars PROVE TreesInv' /\ StagedInv'
    OBVIOUS
  <2>1. CASE UNCHANGED <<disk, stage, placed, trees, pins>>
    BY <2>1 DEF TreesInv, StagedInv, Bounded, ResolvesInside, WithinBoundary, Real
  <2>2. CASE StagedRoot
    <3>1. TreesInv'
      BY <2>2 DEF StagedRoot, TreesInv
    <3> QED BY <2>2, <3>1, StagedRootStage
  <2>3. CASE Settled
    BY <2>3, SettledTrees, SettledStage
  <2>4. Quiet \/ SkipWalked \/ Loaded => UNCHANGED <<disk, stage, placed, trees, pins>>
    BY DEF Quiet, SkipWalked, Loaded
  <2> QED BY <2>1, <2>2, <2>3, <2>4, StepIs
<1> QED BY <1>1, <1>2, PackInv, PTL DEF Spec

(* Nothing from outside the boundary is packed, and no directory of a      *)
(* fetched tree that really is outside its tree, however links lead.       *)
THEOREM BundleStaysInBoundary == Spec => []StaysInBoundary
<1>1. StagedInv => StaysInBoundary
  BY DEF StagedInv, Bounded, StaysInBoundary
<1> QED BY <1>1, BundleInv, PTL

(* Each tree is pinned once, and a bundle holds no directory of a tree     *)
(* without its pin, in whichever order its modules are reached.            *)
THEOREM BundleIsPinned == Spec => []PinsComplete
<1>1. IInv /\ TreesInv /\ StagedInv => PinsComplete
  <2> SUFFICES ASSUME IInv, TreesInv, StagedInv PROVE PinsComplete
    OBVIOUS
  <2>1. trees \subseteq Addr
    BY DEF IInv, ShapeInv
  <2> QED BY <2>1 DEF TreesInv, StagedInv, PinsComplete
<1> QED BY <1>1, BundleInv, PTL

-----------------------------------------------------------------------------
(* What is walked.                                                         *)

(* A directory the pack has met: it is walked, or waits for its turn.      *)
Waits(e) == \E i \in DOMAIN queue : queue[i].abs = e
Met(e) == e \in walked \/ Waits(e)

(* Every call a module has made so far, to a directory there is, is of a   *)
(* module that was met: all calls of those walked before, and of the one   *)
(* at hand those before the k-th.                                          *)
CallsMet ==
    /\ \A d \in walked : d # cur.abs => \A e \in Successors(d) : Met(e)
    /\ k > 0 => \A i \in DOMAIN disk[cur.abs].calls :
         LET e == TargetOf(cur.abs, disk[cur.abs].calls[i]) IN
         i < k /\ e \in Dirs => Met(e)
(* And whatever was met is in every set that calls do not leave.           *)
NoMoreMet == \A S \in SUBSET Dirs : Closed(S) => \A e \in Dirs : Met(e) => e \in S
WalkInv ==
    /\ Met(RootAbs)
    /\ k = 0 => walked = {}
    /\ k > 0 => cur.abs \in walked
    /\ CallsMet
    /\ NoMoreMet
    /\ status = "packed" => queue = <<>> /\ k \notin DOMAIN disk[cur.abs].calls

LEMMA CallNumbers ==
    ASSUME disk \in Worlds, NEW d \in Dirs
    PROVE  \E n \in Nat : DOMAIN disk[d].calls = 1 .. n
<1>1. disk[d].calls \in Seq({disk[d].calls[i] : i \in DOMAIN disk[d].calls})
  BY WorldsAssumption
<1> QED BY <1>1, LenProperties

(* A queue taken from the front, and added to at the end.                  *)
LEMMA WaitingAfterTail ==
    ASSUME NEW S, NEW q \in Seq(S), q # <<>>
    PROVE  /\ Head(q) \in S
           /\ \A i \in DOMAIN q : q[i] = Head(q) \/ \E j \in DOMAIN Tail(q) : Tail(q)[j] = q[i]
           /\ \A j \in DOMAIN Tail(q) : \E i \in DOMAIN q : q[i] = Tail(q)[j]
           /\ \E i \in DOMAIN q : q[i] = Head(q)
<1>1. /\ Head(q) \in S /\ Tail(q) \in Seq(S) /\ Len(Tail(q)) = Len(q) - 1
      /\ \A i \in 1 .. Len(Tail(q)) : Tail(q)[i] = q[i + 1]
  BY HeadTailProperties
<1>2. Head(q) = q[1] /\ Len(q) \in Nat \ {0} /\ DOMAIN q = 1 .. Len(q)
      /\ DOMAIN Tail(q) = 1 .. (Len(q) - 1)
  BY <1>1, EmptySeq, LenProperties
<1>3. ASSUME NEW i \in DOMAIN q, i # 1 PROVE i - 1 \in DOMAIN Tail(q) /\ Tail(q)[i - 1] = q[i]
  BY <1>1, <1>2, <1>3
<1>4. ASSUME NEW j \in DOMAIN Tail(q) PROVE j + 1 \in DOMAIN q /\ Tail(q)[j] = q[j + 1]
  BY <1>1, <1>2
<1>5. 1 \in DOMAIN q
  BY <1>2
<1> QED BY <1>1, <1>2, <1>3, <1>4, <1>5

LEMMA WaitingAfterAppend ==
    ASSUME NEW S, NEW q \in Seq(S), NEW m
    PROVE  /\ \A i \in DOMAIN q : i \in DOMAIN Append(q, m) /\ Append(q, m)[i] = q[i]
           /\ \A j \in DOMAIN Append(q, m) : j \in DOMAIN q \/ Append(q, m)[j] = m
           /\ \E j \in DOMAIN Append(q, m) : Append(q, m)[j] = m
<1> DEFINE T == S \cup {m}
<1>1. q \in Seq(T) /\ m \in T
  BY SeqMonotonic
<1>2. /\ Append(q, m) \in Seq(T) /\ Len(Append(q, m)) = Len(q) + 1
      /\ \A i \in 1 .. Len(q) : Append(q, m)[i] = q[i]
      /\ Append(q, m)[Len(q) + 1] = m
  BY <1>1, AppendProperties
<1>3. PICK n \in Nat : n = Len(q) /\ DOMAIN q = 1 .. n
  BY LenProperties
<1>4. DOMAIN Append(q, m) = 1 .. (n + 1)
  BY <1>2, <1>3, LenProperties
<1>5. n + 1 \in 1 .. (n + 1) /\ \A j \in 1 .. (n + 1) : j \in 1 .. n \/ j = n + 1
  OBVIOUS
<1> QED BY <1>2, <1>3, <1>4, <1>5

(* A call that is settled is one of those that lead somewhere.             *)
LEMMA TargetSucceeds ==
    ASSUME IInv, Sound
    PROVE  Target \in Successors(cur.abs)
<1>1. Target \in Dirs /\ k \in DOMAIN disk[cur.abs].calls /\ SourceError = "none"
  BY SoundTarget DEF Sound, Calling
<1>2. cur.abs \in Dirs /\ disk \in Worlds
  BY CurAtHome DEF IInv, ShapeInv
<1>3. Call.kind \in Kinds
  BY <1>1, <1>2, WorldsAssumption DEF Call, IsCall
<1>4. ~(Call.kind = "remote" /\ Call.up > 0) /\ Call.kind \notin {"nonliteral", "unsupported"}
  <2>1. SourceError \notin {"escapes", "nonliteral", "unsupported"}
    BY <1>1
  <2> QED BY <1>1, <2>1 DEF SourceError
<1>5. Call.kind = "remote" => Call.up \in Nat
  BY <1>1, <1>2, WorldsAssumption DEF Call, IsCall
<1>6. Call \in Named(cur.abs)
  BY <1>1, <1>3, <1>4, <1>5 DEF Named, Call, Kinds
<1> QED BY <1>1, <1>6 DEF Successors, Target

LEMMA SameDisk ==
    ASSUME disk' = disk, NEW S
    PROVE  /\ Closed(S)' <=> Closed(S)
           /\ \A d : Successors(d)' = Successors(d)
BY DEF Closed, Successors, Named

LEMMA SkipKeepsWalk ==
    ASSUME IInv, WalkInv, SkipWalked
    PROVE  WalkInv'
<1>1. /\ queue # <<>> /\ queue' = Tail(queue) /\ queue \in Seq(Modules) /\ Head(queue).abs \in walked
      /\ status = "closing"
      /\ UNCHANGED <<disk, walked, cur, k, status>>
  BY DEF SkipWalked, AtLoopHead, IInv, ModulesInv
<1>2. /\ \A i \in DOMAIN queue : queue[i] = Head(queue) \/ \E j \in DOMAIN queue' : queue'[j] = queue[i]
      /\ \A j \in DOMAIN queue' : \E i \in DOMAIN queue : queue[i] = queue'[j]
  BY <1>1, WaitingAfterTail
<1>3. ASSUME NEW e PROVE Met(e)' <=> Met(e)
  BY <1>1, <1>2 DEF Met, Waits
<1>4. CallsMet'
  BY <1>1, <1>3, SameDisk DEF WalkInv, CallsMet, TargetOf
<1>5. NoMoreMet'
  BY <1>1, <1>3, SameDisk DEF WalkInv, NoMoreMet
<1> QED BY <1>1, <1>3, <1>4, <1>5 DEF WalkInv

LEMMA LoadKeepsWalk ==
    ASSUME IInv, WalkInv, Loaded
    PROVE  WalkInv'
<1>1. /\ queue # <<>> /\ queue' = Tail(queue) /\ queue \in Seq(Modules)
      /\ cur' = Head(queue) /\ k' = 1 /\ walked' = walked \cup {Head(queue).abs}
      /\ status = "closing" /\ k \notin DOMAIN disk[cur.abs].calls /\ k \in Nat
      /\ UNCHANGED <<disk, status>> /\ disk \in Worlds
  BY DEF Loaded, AtLoopHead, IInv, ModulesInv, ShapeInv
<1>2. /\ \A i \in DOMAIN queue : queue[i] = Head(queue) \/ \E j \in DOMAIN queue' : queue'[j] = queue[i]
      /\ \A j \in DOMAIN queue' : \E i \in DOMAIN queue : queue[i] = queue'[j]
      /\ \E i \in DOMAIN queue : queue[i] = Head(queue)
  BY <1>1, WaitingAfterTail
<1>3. ASSUME NEW e PROVE Met(e)' <=> Met(e)
  BY <1>1, <1>2 DEF Met, Waits
<1>4. ASSUME NEW d \in walked, d = cur.abs, NEW e \in Successors(d) PROVE Met(e)
  <2>1. k > 0
    BY <1>1, <1>4 DEF WalkInv
  <2>2. PICK n \in Nat : DOMAIN disk[cur.abs].calls = 1 .. n
    BY <1>1, CurAtHome, CallNumbers
  <2>3. PICK i \in DOMAIN disk[cur.abs].calls :
          e = TargetOf(cur.abs, disk[cur.abs].calls[i]) /\ e \in Dirs
    BY <1>4 DEF Successors, Named
  <2>4. i < k
    BY <1>1, <2>1, <2>2, <2>3
  <2> QED BY <2>1, <2>3, <2>4 DEF WalkInv, CallsMet
<1>5. ASSUME NEW d \in walked', d # cur'.abs, NEW e \in Successors(d) PROVE Met(e)
  <2>1. d \in walked
    BY <1>1, <1>5
  <2> QED BY <1>4, <1>5, <2>1 DEF WalkInv, CallsMet
<1>6. ASSUME NEW i \in DOMAIN disk[cur'.abs].calls PROVE ~(i < k')
  <2>1. Head(queue) \in Modules
    BY <1>1, WaitingAfterTail
  <2>2. cur'.abs \in Dirs
    <3>1. PICK d \in DOMAIN placed : Head(queue) = ModuleAt(d, placed[d])
      BY <2>1 DEF Modules
    <3> QED BY <1>1, <3>1, ModuleFields DEF IInv, PlacedInv
  <2>3. PICK n \in Nat : DOMAIN disk[cur'.abs].calls = 1 .. n
    BY <1>1, <2>2, CallNumbers
  <2> QED BY <1>1, <1>6, <2>3
<1>7. CallsMet'
  <2>1. \A d \in walked' : d # cur'.abs => \A e \in Successors(d)' : Met(e)'
    BY <1>1, <1>3, <1>5, SameDisk
  <2>2. \A i \in DOMAIN disk'[cur'.abs].calls : ~(i < k')
    BY <1>1, <1>6
  <2> QED BY <2>1, <2>2 DEF CallsMet
<1>8. NoMoreMet'
  BY <1>1, <1>3, SameDisk DEF WalkInv, NoMoreMet
<1> QED BY <1>1, <1>3, <1>7, <1>8 DEF WalkInv

LEMMA SettledKeepsWalk ==
    ASSUME IInv, WalkInv, Settled
    PROVE  WalkInv'
<1>1. PICK m : queue' = Append(queue, m) /\ m.abs = Target
  BY DEF Settled
<1>2. /\ queue \in Seq(Modules) /\ k \in Nat /\ k' = k + 1 /\ disk \in Worlds
      /\ k \in DOMAIN disk[cur.abs].calls /\ status = "closing"
      /\ UNCHANGED <<disk, walked, cur, status>> /\ cur.abs \in Dirs
  BY CurAtHome DEF Settled, Sound, Calling, IInv, ModulesInv, ShapeInv
<1>3. k > 0 /\ cur.abs \in walked
  <2>1. PICK n \in Nat : DOMAIN disk[cur.abs].calls = 1 .. n
    BY <1>2, CallNumbers
  <2>2. k > 0
    BY <1>2, <2>1
  <2> QED BY <2>2 DEF WalkInv
<1>4. /\ \A i \in DOMAIN queue : i \in DOMAIN queue' /\ queue'[i] = queue[i]
      /\ \A j \in DOMAIN queue' : j \in DOMAIN queue \/ queue'[j] = m
      /\ \E j \in DOMAIN queue' : queue'[j] = m
  BY <1>1, <1>2, WaitingAfterAppend
<1>5. ASSUME NEW e PROVE Met(e)' <=> Met(e) \/ e = Target
  BY <1>1, <1>2, <1>4 DEF Met, Waits
<1>6. Target \in Successors(cur.abs) /\ Target \in Dirs
  BY TargetSucceeds, SoundTarget DEF Settled
<1>7. CallsMet'
  <2>1. \A d \in walked' : d # cur'.abs => \A e \in Successors(d)' : Met(e)'
    BY <1>2, <1>5, SameDisk DEF WalkInv, CallsMet
  <2>2. ASSUME NEW e \in Dirs, NEW i \in DOMAIN disk[cur.abs].calls, i < k',
               e = TargetOf(cur.abs, disk[cur.abs].calls[i])
        PROVE  e \in walked' \/ \E j \in DOMAIN queue' : queue'[j].abs = e
    <3>1. PICK n \in Nat : DOMAIN disk[cur.abs].calls = 1 .. n
      BY <1>2, CallNumbers
    <3>2. i < k \/ i = k
      BY <1>2, <2>2, <3>1
    <3>3. Met(e) \/ e = Target
      <4>1. CASE i < k
        BY <1>3, <2>2, <4>1 DEF WalkInv, CallsMet
      <4>2. CASE i = k
        BY <2>2, <4>2 DEF Target, Call
      <4> QED BY <3>2, <4>1, <4>2
    <3> QED BY <1>5, <3>3 DEF Met, Waits
  <2>3. \A i \in DOMAIN disk'[cur'.abs].calls :
          LET e == TargetOf(cur'.abs, disk'[cur'.abs].calls[i]) IN
          i < k' /\ e \in Dirs => e \in walked' \/ \E j \in DOMAIN queue' : queue'[j].abs = e
    BY <1>2, <2>2
  <2> QED BY <2>1, <2>3 DEF CallsMet, Met, Waits
<1>8. NoMoreMet'
  <2> SUFFICES ASSUME NEW S \in SUBSET Dirs, Closed(S)', NEW e \in Dirs, Met(e)' PROVE e \in S
    BY DEF NoMoreMet
  <2>1. Closed(S)
    BY <1>2, SameDisk
  <2>2. cur.abs \in S
    BY <1>2, <1>3, <2>1 DEF WalkInv, NoMoreMet, Met
  <2>3. Target \in S
    BY <1>6, <2>1, <2>2 DEF Closed
  <2> QED BY <1>5, <2>1, <2>3 DEF WalkInv, NoMoreMet
<1>9. Met(RootAbs)' /\ k' > 0 /\ cur'.abs \in walked' /\ status' # "packed"
  BY <1>2, <1>3, <1>5 DEF WalkInv
<1> QED BY <1>2, <1>7, <1>8, <1>9 DEF WalkInv

LEMMA WalkKept == Spec => [](IInv /\ WalkInv)
<1>1. Init => WalkInv
  <2> SUFFICES ASSUME Init PROVE WalkInv
    OBVIOUS
  <2>1. /\ queue = <<RootModule>> /\ RootModule.abs = RootAbs
        /\ walked = {} /\ k = 0 /\ status = "staging"
    BY DEF Init, RootModule
  <2>2. DOMAIN queue = {1} /\ queue[1] = RootModule
    BY <2>1
  <2>3. \A e : Met(e) <=> e = RootAbs
    BY <2>1, <2>2 DEF Met, Waits
  <2>4. CallsMet
    BY <2>1 DEF CallsMet
  <2>5. NoMoreMet
    BY <2>3 DEF NoMoreMet, Closed
  <2> QED BY <2>1, <2>3, <2>4, <2>5 DEF WalkInv
<1>2. IInv /\ WalkInv /\ [Next]_vars => WalkInv'
  <2> SUFFICES ASSUME IInv, WalkInv, [Next]_vars PROVE WalkInv'
    OBVIOUS
  <2>1. CASE UNCHANGED <<disk, queue, walked, cur, k>> /\ (status' \in {status, "refused"} \/ Packed)
    <3>1. Met(RootAbs)' /\ (\A e : Met(e)' <=> Met(e))
      BY <2>1 DEF Met, Waits, WalkInv
    <3>2. CallsMet'
      BY <2>1, <3>1, SameDisk DEF WalkInv, CallsMet, TargetOf
    <3>3. NoMoreMet'
      BY <2>1, <3>1, SameDisk DEF WalkInv, NoMoreMet
    <3>4. status' = "packed" => queue' = <<>> /\ k' \notin DOMAIN disk'[cur'.abs].calls
      BY <2>1 DEF WalkInv, Packed, AtLoopHead
    <3> QED BY <2>1, <3>1, <3>2, <3>3, <3>4 DEF WalkInv
  <2>2. CASE StagedRoot
    <3>1. UNCHANGED <<disk, queue, walked, cur, k>> /\ status' # "packed"
      BY <2>2 DEF StagedRoot
    <3>2. Met(RootAbs)' /\ (\A e : Met(e)' <=> Met(e))
      BY <3>1 DEF Met, Waits, WalkInv
    <3>3. CallsMet'
      BY <3>1, <3>2, SameDisk DEF WalkInv, CallsMet, TargetOf
    <3>4. NoMoreMet'
      BY <3>1, <3>2, SameDisk DEF WalkInv, NoMoreMet
    <3> QED BY <3>1, <3>2, <3>3, <3>4 DEF WalkInv
  <2>3. CASE SkipWalked
    BY <2>3, SkipKeepsWalk
  <2>4. CASE Loaded
    BY <2>4, LoadKeepsWalk
  <2>5. CASE Settled
    BY <2>5, SettledKeepsWalk
  <2>6. Quiet => UNCHANGED <<disk, queue, walked, cur, k>>
    BY DEF Quiet
  <2> QED BY <2>1, <2>2, <2>3, <2>4, <2>5, <2>6, StepIs
<1> QED BY <1>1, <1>2, PackInv, PTL DEF Spec

(* A pack that finishes has read every module a chain of calls leads to    *)
(* and no other, whatever cycles, diamonds and links the calls make.       *)
THEOREM PackWalksReachable == Spec => []PackedWalkedReachable
<1>1. IInv /\ WalkInv => PackedWalkedReachable
  <2> SUFFICES ASSUME IInv, WalkInv, status = "packed"
      PROVE  Closed(walked) /\ \A S \in SUBSET walked : Closed(S) => S = walked
    BY DEF PackedWalkedReachable
  <2>1. queue = <<>> /\ k \notin DOMAIN disk[cur.abs].calls /\ walked \subseteq Dirs
        /\ disk \in Worlds /\ k \in Nat
    BY DEF WalkInv, IInv, ModulesInv, PlacedInv, ShapeInv
  <2>2. \A e : Met(e) <=> e \in walked
    BY <2>1 DEF Met, Waits
  <2>3. RootAbs \in walked /\ k > 0
    BY <2>1, <2>2 DEF WalkInv
  <2>4. ASSUME NEW d \in walked, NEW e \in Successors(d) PROVE e \in walked
    <3>1. CASE d # cur.abs
      BY <2>2, <2>4, <3>1 DEF WalkInv, CallsMet
    <3>2. CASE d = cur.abs
      <4>1. PICK n \in Nat : DOMAIN disk[cur.abs].calls = 1 .. n
        BY <2>1, CurAtHome, CallNumbers
      <4>2. PICK i \in DOMAIN disk[cur.abs].calls :
              e = TargetOf(cur.abs, disk[cur.abs].calls[i]) /\ e \in Dirs
        BY <2>4, <3>2 DEF Successors, Named
      <4>3. i < k
        BY <2>1, <2>3, <4>1, <4>2
      <4> QED BY <2>2, <2>3, <4>2, <4>3 DEF WalkInv, CallsMet
    <3> QED BY <3>1, <3>2
  <2>5. Closed(walked)
    BY <2>3, <2>4 DEF Closed
  <2>6. ASSUME NEW S \in SUBSET walked, Closed(S) PROVE S = walked
    BY <2>1, <2>2, <2>6 DEF WalkInv, NoMoreMet
  <2> QED BY <2>5, <2>6
<1> QED BY <1>1, WalkKept, PTL

-----------------------------------------------------------------------------
(* What can be reached, counted in rounds.                                 *)

Last == Cardinality(Dirs)
(* One round: what the calls of S lead to.                                 *)
Round(S) == S \cup UNION {Successors(d) : d \in S \cap Dirs}
IsRounds(f, n) ==
    f = [i \in 0 .. n |-> IF i = 0 THEN {RootAbs} ELSE Round(f[i - 1])]

LEMMA RoundsExist ==
    ASSUME NEW n \in Nat
    PROVE  \E f : IsRounds(f, n)
<1> DEFINE T == {i \in Nat : ~\E f : IsRounds(f, i)}
<1> SUFFICES ASSUME T # {} PROVE FALSE
  OBVIOUS
<1>1. PICK i \in T : \A j \in T : i <= j
  <2>1. T \in SUBSET Nat
    OBVIOUS
  <2> HIDE DEF T
  <2> QED BY <2>1, LeastMember
<1>2. IsRounds([j \in 0 .. 0 |-> {RootAbs}], 0)
  BY DEF IsRounds
<1>3. i # 0
  <2>1. 0 \notin T
    BY <1>2
  <2> QED BY <2>1
<1>4. i - 1 \in Nat /\ i - 1 \notin T
  BY <1>1, <1>3
<1>5. PICK f : IsRounds(f, i - 1)
  BY <1>4
<1> DEFINE g == [j \in 0 .. i |-> IF j = i THEN Round(f[i - 1]) ELSE f[j]]
<1>6. \A j \in 0 .. (i - 1) : f[j] = IF j = 0 THEN {RootAbs} ELSE Round(f[j - 1])
  BY <1>5 DEF IsRounds
<1>7. ASSUME NEW j \in 0 .. i PROVE g[j] = IF j = 0 THEN {RootAbs} ELSE Round(g[j - 1])
  <2>1. CASE j = i
    BY <1>3, <1>4, <2>1
  <2>2. CASE j # i
    <3>1. j \in 0 .. (i - 1) /\ g[j] = f[j] /\ (j # 0 => g[j - 1] = f[j - 1])
      BY <1>1, <2>2
    <3> QED BY <1>6, <3>1
  <2> QED BY <2>1, <2>2
<1>8. g = [j \in 0 .. i |-> IF j = 0 THEN {RootAbs} ELSE Round(g[j - 1])]
  <2>1. DOMAIN g = 0 .. i /\ g = [j \in 0 .. i |-> g[j]]
    OBVIOUS
  <2> HIDE DEF g
  <2> QED BY <1>7, <2>1
<1>9. IsRounds(g, i)
  <2> HIDE DEF g
  <2> QED BY <1>8 DEF IsRounds
<1> QED BY <1>1, <1>9

LEMMA SuccessorsAreDirs ==
    ASSUME NEW d
    PROVE  Successors(d) \subseteq Dirs
BY DEF Successors

(* Rounds grow, and there are enough of them: were each larger than the    *)
(* one before, the last would hold more directories than there are.        *)
LEMMA LastRoundIsClosed ==
    ASSUME NEW f, IsRounds(f, Last)
    PROVE  f[Last] \subseteq Dirs /\ Closed(f[Last])
<1>1. Last \in Nat /\ IsFiniteSet(Dirs)
  BY DirsAssumption, FS_CardinalityType DEF Last
<1>2. /\ f[0] = {RootAbs}
      /\ \A i \in 1 .. Last : f[i] = Round(f[i - 1])
  <2>1. PICK n \in Nat : n = Last
    BY <1>1
  <2>2. f = [i \in 0 .. n |-> IF i = 0 THEN {RootAbs} ELSE Round(f[i - 1])]
    BY <2>1 DEF IsRounds
  <2>3. \A i \in 0 .. n : f[i] = IF i = 0 THEN {RootAbs} ELSE Round(f[i - 1])
    BY <2>2
  <2>4. 0 \in 0 .. n /\ \A i \in 1 .. n : i \in 0 .. n /\ i # 0
    BY <2>1
  <2> QED BY <2>1, <2>3, <2>4
<1>3. ASSUME NEW i \in 0 .. Last PROVE f[i] \subseteq Dirs /\ RootAbs \in f[i]
  <2> DEFINE T == {j \in 0 .. Last : ~(f[j] \subseteq Dirs /\ RootAbs \in f[j])}
  <2> SUFFICES ASSUME T # {} PROVE FALSE
    OBVIOUS
  <2>1. PICK j \in T : \A m \in T : j <= m
    <3>1. T \in SUBSET Nat
      BY <1>1
    <3> HIDE DEF T
    <3> QED BY <3>1, LeastMember
  <2>2. j # 0
    BY <1>2, RootAssumption
  <2>3. j \in 1 .. Last /\ j - 1 \in 0 .. Last /\ j - 1 \notin T
    BY <1>1, <2>1, <2>2
  <2>4. f[j - 1] \subseteq Dirs /\ RootAbs \in f[j - 1]
    BY <2>3
  <2>5. f[j] \subseteq Dirs /\ RootAbs \in f[j]
    BY <1>2, <2>3, <2>4, SuccessorsAreDirs DEF Round
  <2> QED BY <2>1, <2>5
<1> DEFINE Stopped == {i \in 0 .. Last : Round(f[i]) = f[i]}
<1>4. Stopped # {}
  <2> SUFFICES ASSUME Stopped = {} PROVE FALSE
    OBVIOUS
  <2> DEFINE T == {j \in 0 .. Last : ~(Cardinality(f[j]) > j)}
  <2>1. ASSUME NEW j \in 0 .. Last PROVE IsFiniteSet(f[j]) /\ Cardinality(f[j]) \in Nat
    BY <1>1, <1>3, FS_Subset, FS_CardinalityType
  <2>2. T = {}
    <3> SUFFICES ASSUME T # {} PROVE FALSE
      OBVIOUS
    <3>1. PICK j \in T : \A m \in T : j <= m
      <4>1. T \in SUBSET Nat
        BY <1>1
      <4> HIDE DEF T
      <4> QED BY <4>1, LeastMember
    <3>2. j # 0
      <4>1. Cardinality({RootAbs}) = 1
        BY FS_Singleton
      <4> QED BY <1>2, <3>1, <4>1
    <3>3. j \in 1 .. Last /\ j - 1 \in 0 .. Last /\ j - 1 \notin T
      BY <1>1, <3>1, <3>2
    <3>4. f[j - 1] \subseteq f[j] /\ f[j - 1] # f[j]
      <4>1. Round(f[j - 1]) # f[j - 1]
        BY <3>3
      <4>2. f[j] = Round(f[j - 1])
        BY <1>2, <3>3
      <4> QED BY <4>1, <4>2 DEF Round
    <3>5. j \in 0 .. Last
      BY <3>1
    <3>6. Cardinality(f[j - 1]) <= Cardinality(f[j]) /\ Cardinality(f[j]) # Cardinality(f[j - 1])
      BY <2>1, <3>4, <3>5, FS_Subset
    <3>7. Cardinality(f[j - 1]) > j - 1 /\ ~(Cardinality(f[j]) > j)
      BY <3>1, <3>3
    <3>8. Cardinality(f[j]) \in Nat /\ Cardinality(f[j - 1]) \in Nat /\ j \in Nat
      BY <1>1, <2>1, <3>3, <3>5
    <3> QED BY <3>6, <3>7, <3>8
  <2>3. Last \in 0 .. Last /\ Last \notin T
    BY <1>1, <2>2
  <2>4. Cardinality(f[Last]) > Last /\ f[Last] \subseteq Dirs /\ Cardinality(f[Last]) \in Nat
    BY <1>3, <2>1, <2>3
  <2>5. Cardinality(f[Last]) <= Last
    BY <1>1, <2>4, FS_Subset DEF Last
  <2> QED BY <1>1, <2>4, <2>5
<1>5. PICK i \in 0 .. Last : Round(f[i]) = f[i]
  BY <1>4
<1>6. f[Last] = f[i]
  <2> DEFINE T == {j \in i .. Last : f[j] # f[i]}
  <2> SUFFICES ASSUME T # {} PROVE FALSE
    BY <1>1, <1>5
  <2>1. PICK j \in T : \A m \in T : j <= m
    <3>1. T \in SUBSET Nat
      BY <1>1, <1>5
    <3> HIDE DEF T
    <3> QED BY <3>1, LeastMember
  <2>2. j # i
    BY <2>1
  <2>3. j \in 1 .. Last /\ j - 1 \in i .. Last /\ j - 1 \notin T
    BY <1>1, <1>5, <2>1, <2>2
  <2>4. f[j - 1] = f[i]
    BY <2>3
  <2>5. f[j] = f[i]
    BY <1>2, <1>5, <2>3, <2>4
  <2> QED BY <2>1, <2>5
<1>7. f[i] \subseteq Dirs /\ RootAbs \in f[i]
  BY <1>3
<1>8. \A d \in f[i] : Successors(d) \subseteq f[i]
  BY <1>5, <1>7 DEF Round
<1> QED BY <1>6, <1>7, <1>8 DEF Closed

LEMMA ReachableIsRounds == \E f : IsRounds(f, Last) /\ Reachable = f[Last]
<1> DEFINE edges == UNION {{<<d, e>> : e \in Successors(d)} : d \in Dirs}
           IsWithin(f) ==
             f = [i \in 0 .. Cardinality(Dirs) |->
                    IF i = 0 THEN {RootAbs}
                    ELSE LET S == f[i - 1] IN S \cup {g[2] : g \in {e \in edges : e[1] \in S}}]
<1>1. Reachable = (CHOOSE f : IsWithin(f))[Cardinality(Dirs)]
  BY Zenon DEF Reachable
<1>2. ASSUME NEW S
      PROVE  S \cup {g[2] : g \in {e \in edges : e[1] \in S}} = Round(S)
  <2>1. ASSUME NEW g \in edges, g[1] \in S PROVE g[2] \in Round(S)
    BY <2>1 DEF Round
  <2>2. ASSUME NEW d \in S \cap Dirs, NEW e \in Successors(d)
        PROVE  e \in {g[2] : g \in {h \in edges : h[1] \in S}}
    <3>1. PICK g : g = <<d, e>>
      OBVIOUS
    <3>2. g \in edges /\ g[1] \in S /\ g[2] = e
      BY <1>2, <3>1
    <3> QED BY <3>2
  <2> HIDE DEF edges
  <2> QED BY <2>1, <2>2 DEF Round
<1>3. \A f : IsWithin(f) <=> IsRounds(f, Last)
  <2> SUFFICES ASSUME NEW f PROVE IsWithin(f) <=> IsRounds(f, Last)
    OBVIOUS
  <2>1. \A i : LET S == f[i - 1] IN S \cup {g[2] : g \in {e \in edges : e[1] \in S}} = Round(f[i - 1])
    BY <1>2
  <2> HIDE DEF edges
  <2> QED BY <2>1, Zenon DEF IsRounds, Last
<1>4. \E f : IsRounds(f, Last)
  BY RoundsExist, DirsAssumption, FS_CardinalityType DEF Last
<1> DEFINE w == CHOOSE f : IsWithin(f)
<1>5. IsRounds(w, Last)
  <2> HIDE DEF IsWithin
  <2> QED BY <1>3, <1>4
<1>6. Reachable = w[Last]
  BY <1>1 DEF Last
<1> QED BY <1>5, <1>6

LEMMA ReachableKept ==
    ASSUME disk' = disk
    PROVE  Reachable' = Reachable
BY DEF Reachable, Successors, Named, TargetOf

(* What was met can be reached.                                            *)
LEMMA MetIsReachable ==
    ASSUME WalkInv
    PROVE  /\ \A e \in Dirs : Met(e) => e \in Reachable
           /\ RootAbs \in Reachable
           /\ \A d \in Reachable : Successors(d) \subseteq Reachable
<1>1. Reachable \subseteq Dirs /\ Closed(Reachable)
  BY ReachableIsRounds, LastRoundIsClosed
<1> QED BY <1>1 DEF WalkInv, NoMoreMet, Closed

-----------------------------------------------------------------------------
(* Refusals.                                                               *)

CallsOf(d) == {disk[d].calls[i] : i \in DOMAIN disk[d].calls}
(* RefusedForCause, of any reason.                                         *)
HasCause(why) ==
    /\ why = "invalid" => \E d \in Reachable : ~disk[d].parses
    /\ why = "nonliteral" => \E d \in Reachable : \E c \in CallsOf(d) : c.kind = "nonliteral"
    /\ why = "vendor" =>
         \E d \in Reachable : \E c \in CallsOf(d) : c.kind = "remote" /\ c.addr \in Escaping
    /\ why = "unsupported" =>
         \E d \in Reachable : \E c \in CallsOf(d) : c.kind = "unsupported" \/ disk[d].json
    /\ why = "missing" => \E d \in Reachable : \E c \in Named(d) : TargetOf(d, c) \notin Dirs
    /\ why = "boundary" => \E d \in Reachable : ~WithinBoundary(d)
(* And no directory of a tree without a place in the bundle has a home.    *)
CauseInv ==
    /\ \A d \in DOMAIN placed : TreeOf(d) \notin Escaping
    /\ status # "refused" => reason = "none"
    /\ HasCause(reason)

(* A call ends in a refusal that has a cause, or gives its target a home.  *)
Explained == \E why : Refuse(why) /\ HasCause(why)
Went ==
    /\ UNCHANGED <<disk, status, reason>>
    /\ DOMAIN placed' = DOMAIN placed \cup {Target}

LEMMA CallerIsReached ==
    ASSUME IInv, WalkInv, Calling
    PROVE  cur.abs \in Reachable /\ Call \in CallsOf(cur.abs) /\ IsCall(Call)
<1>1. /\ disk \in Worlds /\ cur.abs \in Dirs /\ k \in DOMAIN disk[cur.abs].calls /\ k \in Nat
  BY CurAtHome DEF IInv, ShapeInv, Calling
<1>2. PICK n \in Nat : DOMAIN disk[cur.abs].calls = 1 .. n
  BY <1>1, CallNumbers
<1>3. Met(cur.abs)
  BY <1>1, <1>2 DEF WalkInv, Met
<1>4. IsCall(Call)
  BY <1>1, WorldsAssumption DEF Call
<1> QED BY <1>1, <1>3, <1>4, MetIsReachable DEF CallsOf, Call

LEMMA TargetIsReached ==
    ASSUME IInv, WalkInv, Sound
    PROVE  Target \in Reachable
<1>1. Target \in Successors(cur.abs) /\ cur.abs \in Reachable
  BY TargetSucceeds, CallerIsReached DEF Sound
<1> QED BY <1>1, MetIsReachable

LEMMA SettleExplained ==
    ASSUME IInv, WalkInv, Calling, NEW tree, NEW rel, NEW st, NEW vendored, NEW names,
           Settle(tree, rel, st, vendored, names)
    PROVE  Explained \/ Went
<1>1. CASE disk[cur.abs].json /\ Refuse("unsupported")
  <2>1. HasCause("unsupported")
    BY <1>1, CallerIsReached DEF HasCause
  <2> QED BY <1>1, <2>1 DEF Explained
<1>2. CASE Refuse("io")
  BY <1>2 DEF Explained, HasCause
<1>3. CASE ~(disk[cur.abs].json /\ Refuse("unsupported")) /\ ~Refuse("io")
  BY <1>3 DEF Settle, Went
<1> QED BY <1>1, <1>2, <1>3

LEMMA PlaceExplained ==
    ASSUME IInv, WalkInv, Sound, NEW tree, NEW rel, NEW boundary, NEW names,
           Place(tree, rel, boundary, names),
           tree \in Escaping => Call.kind = "remote" /\ tree = Call.addr
    PROVE  Explained \/ (Went /\ (Holders(Target) # {} \/ tree \notin Escaping))
<1>1. CASE Holders(Target) # {}
  <2>1. PICK home, st : home = PlacedUnder(Target) /\ st = stage
    OBVIOUS
  <2>2. Settle(tree, home, st, <<>>, names)
    BY <1>1, <2>1 DEF Place, Settle
  <2> QED BY <1>1, <2>2, SettleExplained DEF Sound
<1>2. CASE Holders(Target) = {} /\ tree \in Escaping
  <2>1. Refuse("vendor")
    BY <1>2 DEF Place
  <2>2. HasCause("vendor")
    BY <1>2, CallerIsReached DEF HasCause, Sound
  <2> QED BY <2>1, <2>2 DEF Explained
<1>3. CASE Holders(Target) = {} /\ tree \notin Escaping /\ ~CopyOK(Target, boundary)
  <2>1. Refuse("link") /\ HasCause("link")
    BY <1>3 DEF Place, HasCause
  <2> QED BY <2>1 DEF Explained
<1>4. CASE Holders(Target) = {} /\ tree \notin Escaping /\ CopyOK(Target, boundary)
  <2>1. PICK st, vendored :
          st = Copy(stage, Target, rel) /\ vendored = <<[caller |-> cur.rel, abs |-> Target, into |-> rel]>>
    OBVIOUS
  <2>2. Settle(tree, rel, st, vendored, names)
    BY <1>4, <2>1 DEF Place, Settle
  <2> QED BY <1>4, <2>2, SettleExplained DEF Sound
<1> QED BY <1>1, <1>2, <1>3, <1>4

LEMMA RefusedCallExplained ==
    ASSUME IInv, WalkInv, RefusedCall
    PROVE  Explained
<1>1. Calling /\ SourceError # "none" /\ cur.abs \in Reachable /\ Call \in CallsOf(cur.abs) /\ IsCall(Call)
  BY CallerIsReached DEF RefusedCall
<1>2. PICK why : why = SourceError /\ Refuse(why)
  <2>1. PICK why : why = SourceError
    OBVIOUS
  <2> QED BY <2>1 DEF RefusedCall, Refuse
<1>3. CASE why = "missing"
  <2>1. /\ Target \notin Dirs
        /\ ~(Call.kind = "remote" /\ Call.up > 0) /\ Call.kind \notin {"nonliteral", "unsupported"}
    BY <1>2, <1>3 DEF SourceError
  <2>2. Call \in Named(cur.abs)
    BY <1>1, <2>1 DEF Named, CallsOf, IsCall, Kinds
  <2>3. HasCause(why)
    BY <1>1, <1>3, <2>1, <2>2 DEF HasCause, Target
  <2> QED BY <1>2, <2>3 DEF Explained
<1>4. CASE why \in {"nonliteral", "unsupported"}
  <2>1. Call.kind = why
    BY <1>2, <1>4 DEF SourceError
  <2>2. HasCause(why)
    BY <1>1, <1>4, <2>1 DEF HasCause
  <2> QED BY <1>2, <2>2 DEF Explained
<1>5. CASE why \notin {"missing", "nonliteral", "unsupported"}
  <2>1. ASSUME Call.kind \in {"nonliteral", "unsupported"} PROVE SourceError = Call.kind
    BY <2>1 DEF SourceError
  <2>2. why = "escapes"
    <3> SUFFICES ASSUME why # "escapes" PROVE FALSE
      OBVIOUS
    <3>1. Call.kind \notin {"nonliteral", "unsupported"}
      BY <1>2, <1>5, <2>1
    <3>2. /\ ~(Call.kind = "local" /\ InTree /\ ~Inside(TreeAt[cur.tree], Target))
          /\ ~(Call.kind = "remote" /\ Call.up > 0)
      BY <1>2 DEF SourceError
    <3>3. SourceError \in {"missing", "escapes", "none"}
      BY <3>1, <3>2 DEF SourceError
    <3> QED BY <1>1, <1>2, <1>5, <3>3
  <2>3. HasCause(why)
    BY <2>2 DEF HasCause
  <2> QED BY <1>2, <2>3 DEF Explained
<1> QED BY <1>3, <1>4, <1>5

(* A directory that holds another lies where that one lies.                *)
LEMMA HolderIsOfTree ==
    ASSUME PlacedInv, NEW d \in Dirs, OnHost(d) \/ InATree(d), NEW e \in Holders(d)
    PROVE  e \in DOMAIN placed /\ e \in Dirs /\ Inside(e, d) /\ TreeOf(e) = TreeOf(d)
<1>1. e \in DOMAIN placed /\ e \in Dirs /\ Inside(e, d) /\ (OnHost(e) \/ InATree(e))
  BY DEF Holders, PlacedInv
<1>2. d \in Seq(Name) /\ e \in Seq(Name) /\ \A t \in Addr : TreeAt[t] \in Seq(Name)
  BY <1>1, DirsAssumption, TreeAssumption
<1>3. CASE InATree(e)
  <2>1. PICK t \in Addr : Inside(TreeAt[t], e)
    BY <1>3 DEF InATree
  <2>2. Inside(TreeAt[t], d)
    BY <1>1, <1>2, <2>1, InsideTransitive
  <2>3. TreeOf(e) = t /\ TreeOf(d) = t
    BY <1>1, <2>1, <2>2, TreeOfInside
  <2> QED BY <1>1, <2>3
<1>4. CASE OnHost(e)
  <2>1. ASSUME NEW t \in Addr PROVE ~Inside(TreeAt[t], d)
    BY <1>1, <1>2, <1>4, InsideIsAChain DEF OnHost
  <2>2. TreeOf(d) = NoTree
    BY <2>1 DEF TreeOf
  <2> QED BY <1>1, <1>4, <2>2, TreeOfHost
<1> QED BY <1>1, <1>3, <1>4

LEMMA CallExplained ==
    ASSUME IInv, WalkInv, CauseInv, OneCall
    PROVE  Explained \/ (Went /\ \A d \in DOMAIN placed' : TreeOf(d) \notin Escaping)
<1>1. CASE RefusedCall
  BY <1>1, RefusedCallExplained
<1>2. CASE FetchFails
  BY <1>2 DEF FetchFails, Explained, HasCause
<1>3. cur.tree \notin Escaping /\ Escaping \subseteq Addr /\ NoTree \notin Escaping
  BY CurAtHome, TreeAssumption, RootAssumption DEF CauseInv
<1>4. ASSUME Sound, Holders(Target) # {} PROVE CallTree \notin Escaping
  <2>1. PICK d \in Dirs : d = Target
    BY <1>4, SoundTarget
  <2>2. TreeOf(d) = CallTree /\ (OnHost(d) \/ InATree(d)) /\ Holders(d) # {}
    BY <1>4, <2>1, SoundTarget DEF InATree
  <2>3. PICK e \in Holders(d) : TRUE
    BY <2>2
  <2>4. e \in DOMAIN placed /\ TreeOf(e) = CallTree
    BY <2>2, HolderIsOfTree DEF IInv
  <2> QED BY <2>4 DEF CauseInv
<1>5. ASSUME Sound, Went, CallTree \notin Escaping
      PROVE  \A d \in DOMAIN placed' : TreeOf(d) \notin Escaping
  <2>1. CallTree = TreeOf(Target)
    BY <1>5, SoundTarget
  <2> QED BY <1>5, <2>1 DEF Went, CauseInv
<1>6. PICK st : st = stage
  OBVIOUS
<1>7. CASE LocalKnown
  <2>1. PICK tree, rel, names : tree = cur.tree /\ rel = placed[Target] /\ names = used
    OBVIOUS
  <2>2. Settle(tree, rel, st, <<>>, names) /\ SoundLocal
    BY <1>6, <1>7, <2>1 DEF LocalKnown, Settle
  <2>3. Sound /\ CallTree = cur.tree
    BY <2>2, LocalCaller
  <2> QED BY <1>3, <1>5, <2>2, <2>3, SettleExplained DEF Sound
<1>8. CASE LocalInTree
  <2>1. PICK tree, rel, boundary, names :
          /\ tree = cur.tree /\ rel = Prefix[cur.tree] \o Rel(TreeAt[cur.tree], Target)
          /\ boundary = TreeAt[cur.tree] /\ names = used
    OBVIOUS
  <2>2. Place(tree, rel, boundary, names)
    BY <1>8, <2>1 DEF LocalInTree, Place, Settle
  <2>3. Sound /\ CallTree = cur.tree
    BY <1>8, LocalCaller DEF LocalInTree
  <2> QED BY <1>3, <1>5, <2>1, <2>2, <2>3, PlaceExplained
<1>9. CASE LocalInRoot
  <2>1. PICK rel, names : rel = Rel(RootAbs, Target) /\ names = used
    OBVIOUS
  <2>2. Settle(NoTree, rel, st, <<>>, names) /\ SoundLocal
    BY <1>6, <1>9, <2>1 DEF LocalInRoot, Settle
  <2>3. Sound /\ CallTree = cur.tree
    BY <2>2, LocalCaller
  <2> QED BY <1>3, <1>5, <2>2, <2>3, SettleExplained DEF Sound
<1>10. CASE LocalOutside
  <2>1. Sound /\ CallTree = cur.tree
    BY <1>10, LocalCaller DEF LocalOutside
  <2>2. CASE ~WithinBoundary(Target)
    <3>1. Refuse("boundary") /\ Target \in Reachable
      BY <1>10, <2>1, <2>2, TargetIsReached DEF LocalOutside
    <3>2. HasCause("boundary")
      BY <2>2, <3>1 DEF HasCause
    <3> QED BY <3>1, <3>2 DEF Explained
  <2>3. CASE WithinBoundary(Target)
    <3>1. PICK boundary : boundary = Target
      OBVIOUS
    <3>2. PICK rel, names : Place(NoTree, rel, boundary, names)
      <4>1. CASE Holders(Target) # {}
        BY <1>10, <2>3, <3>1, <4>1 DEF LocalOutside
      <4>2. CASE Holders(Target) = {}
        BY <1>10, <2>3, <3>1, <4>2 DEF LocalOutside
      <4> QED BY <4>1, <4>2
    <3> QED BY <1>3, <1>5, <2>1, <3>2, PlaceExplained
  <2> QED BY <2>2, <2>3
<1>11. CASE Remote
  <2>1. Sound /\ Call.kind = "remote" /\ CallTree = Call.addr
    BY <1>11 DEF Remote, CallTree
  <2>2. CASE Target \in DOMAIN placed
    <3>1. PICK tree, rel, names : tree = Call.addr /\ rel = placed[Target] /\ names = used
      OBVIOUS
    <3>2. Settle(tree, rel, st, <<>>, names)
      BY <1>6, <1>11, <2>2, <3>1 DEF Remote, Settle
    <3>3. CallTree \notin Escaping
      BY <2>1, <2>2, SoundTarget DEF CauseInv
    <3> QED BY <1>5, <2>1, <3>2, <3>3, SettleExplained DEF Sound
  <2>3. CASE Target \notin DOMAIN placed
    <3>1. PICK tree, rel, boundary, names :
            /\ tree = Call.addr /\ rel = Prefix[Call.addr] \o Call.down
            /\ boundary = TreeAt[Call.addr] /\ names = used
      OBVIOUS
    <3>2. Place(tree, rel, boundary, names)
      BY <1>11, <2>3, <3>1 DEF Remote, Place, Settle
    <3> QED BY <1>4, <1>5, <2>1, <3>1, <3>2, PlaceExplained
  <2> QED BY <2>2, <2>3
<1> QED BY <1>1, <1>2, <1>7, <1>8, <1>9, <1>10, <1>11 DEF OneCall

LEMMA CauseKept ==
    ASSUME disk' = disk, NEW why
    PROVE  HasCause(why) => HasCause(why)'
<1>1. Reachable' = Reachable
  BY ReachableKept
<1> QED BY <1>1 DEF HasCause, CallsOf, Named, TargetOf, WithinBoundary, Real

LEMMA RefuseIsExplained ==
    ASSUME CauseInv, NEW why, Refuse(why), HasCause(why)
    PROVE  CauseInv'
<1>1. disk' = disk /\ reason' = why /\ placed' = placed /\ status' = "refused"
  BY DEF Refuse
<1>2. HasCause(why)'
  BY <1>1, CauseKept
<1>3. HasCause(reason)'
  BY <1>1, <1>2 DEF HasCause
<1> QED BY <1>1, <1>3 DEF CauseInv, TreeOf

LEMMA NothingToExplain ==
    ASSUME CauseInv, UNCHANGED <<disk, reason>>, status # "refused" \/ status' = status,
           \A d \in DOMAIN placed' : TreeOf(d) \notin Escaping
    PROVE  CauseInv'
<1>1. HasCause(reason)'
  <2>1. PICK why : why = reason /\ HasCause(why)
    BY DEF CauseInv
  <2>2. HasCause(why)' /\ reason' = why
    BY <2>1, CauseKept
  <2> QED BY <2>2 DEF HasCause
<1>2. status' # "refused" => reason' = "none"
  BY DEF CauseInv
<1> QED BY <1>1, <1>2 DEF CauseInv, TreeOf

LEMMA CauseStep ==
    ASSUME IInv, WalkInv, CauseInv, [Next]_vars
    PROVE  CauseInv'
<1>1. CASE OneCall
  <2>1. CASE Explained
    BY <2>1, RefuseIsExplained DEF Explained
  <2>2. CASE Went /\ \A d \in DOMAIN placed' : TreeOf(d) \notin Escaping
    BY <2>2, NothingToExplain DEF Went
  <2> QED BY <1>1, <2>1, <2>2, CallExplained
<1>2. CASE StageRoot
  <2>1. CASE ~CopyOK(RootAbs, RootAbs)
    <3>1. Refuse("link") /\ HasCause("link")
      BY <1>2, <2>1 DEF StageRoot, HasCause
    <3> QED BY <3>1, RefuseIsExplained
  <2>2. CASE CopyOK(RootAbs, RootAbs) /\ ~WithinBoundary(RootAbs)
    <3>1. Refuse("boundary") /\ HasCause("boundary")
      BY <1>2, <2>2, MetIsReachable DEF StageRoot, HasCause
    <3> QED BY <3>1, RefuseIsExplained
  <2>3. CASE CopyOK(RootAbs, RootAbs) /\ WithinBoundary(RootAbs)
    <3>1. UNCHANGED <<disk, placed, reason>> /\ status = "staging"
      BY <1>2, <2>3 DEF StageRoot
    <3> QED BY <3>1, NothingToExplain DEF CauseInv
  <2> QED BY <2>1, <2>2, <2>3
<1>3. CASE Cancelled
  <2>1. Refuse("cancelled") /\ HasCause("cancelled")
    BY <1>3 DEF Cancelled, HasCause
  <2> QED BY <2>1, RefuseIsExplained
<1>4. CASE SkipWalked \/ Packed \/ UNCHANGED vars
  <2>1. UNCHANGED <<disk, placed, reason>> /\ (status # "refused" \/ status' = status)
    BY <1>4 DEF SkipWalked, Packed, AtLoopHead, vars
  <2> QED BY <2>1, NothingToExplain DEF CauseInv
<1>5. CASE LoadModule
  <2>1. CASE Refuse("invalid") /\ ~disk[Head(queue).abs].parses
    <3>1. queue # <<>> /\ queue \in Seq(Modules)
      BY <1>5 DEF LoadModule, IInv, ModulesInv
    <3>2. Head(queue) \in Modules /\ \E i \in DOMAIN queue : queue[i] = Head(queue)
      BY <3>1, WaitingAfterTail
    <3>3. Head(queue).abs \in Dirs
      <4>1. PICK d \in DOMAIN placed : Head(queue) = ModuleAt(d, placed[d])
        BY <3>2 DEF Modules
      <4> QED BY <4>1, ModuleFields DEF IInv, PlacedInv
    <3>4. Head(queue).abs \in Reachable
      BY <3>2, <3>3, MetIsReachable DEF Met, Waits
    <3>5. HasCause("invalid")
      BY <2>1, <3>4 DEF HasCause
    <3> QED BY <2>1, <3>5, RefuseIsExplained
  <2>2. CASE UNCHANGED <<disk, placed, reason, status>>
    BY <2>2, NothingToExplain DEF CauseInv
  <2> QED BY <1>5, <2>1, <2>2 DEF LoadModule
<1> QED BY <1>1, <1>2, <1>3, <1>4, <1>5 DEF Next, Step

(* A refusal for what a source says is never spurious, however the module  *)
(* that says it was reached and whatever was placed before.                *)
THEOREM PackRefusalsHaveCause == Spec => []RefusedForCause
<1>1. Init => CauseInv
  <2> SUFFICES ASSUME Init PROVE CauseInv
    OBVIOUS
  <2>1. DOMAIN placed = {RootAbs} /\ reason = "none"
    BY DEF Init
  <2>2. TreeOf(RootAbs) \notin Escaping
    BY HostAssumption, TreeOfHost, RootAssumption, TreeAssumption
  <2>3. HasCause(reason)
    BY <2>1 DEF HasCause
  <2> QED BY <2>1, <2>2, <2>3 DEF CauseInv
<1>2. IInv /\ WalkInv /\ CauseInv /\ [Next]_vars => CauseInv'
  BY CauseStep
<1>3. CauseInv => RefusedForCause
  BY DEF CauseInv, HasCause, RefusedForCause, CallsOf
<1> QED BY <1>1, <1>2, <1>3, WalkKept, PTL DEF Spec

-----------------------------------------------------------------------------
(* Names under vendor/.                                                    *)

PlainName == Name \cup {Vendor}
BundleName == PlainName \cup (PlainName \X Nat)

(* What vendorPath counts up: names that end apart from each other.        *)
LEMMA NumberedIsPath ==
    ASSUME NEW base \in Seq(BundleName), base # <<>>, base[Len(base)] \in PlainName,
           NEW i \in Nat \ {0}
    PROVE  /\ Numbered(base, i) \in Seq(BundleName)
           /\ Len(Numbered(base, i)) = Len(base)
           /\ Numbered(base, i)[Len(base)] = IF i = 1 THEN base[Len(base)] ELSE <<base[Len(base)], i>>
<1>1. PICK n \in Nat \ {0} : n = Len(base) /\ base \in [1 .. n -> BundleName]
  BY EmptySeq, LenProperties
<1>2. CASE i = 1
  BY <1>2 DEF Numbered
<1>3. CASE i # 1
  <2>1. PICK last : last = <<base[n], i>>
    OBVIOUS
  <2>2. last \in BundleName
    BY <1>1, <2>1 DEF BundleName
  <2>3. Numbered(base, i) = [base EXCEPT ![n] = last]
    BY <1>1, <1>3, <2>1 DEF Numbered
  <2>4. [base EXCEPT ![n] = last] \in [1 .. n -> BundleName] /\ [base EXCEPT ![n] = last][n] = last
    BY <1>1, <2>2
  <2>5. \A s \in [1 .. n -> BundleName] : s \in Seq(BundleName) /\ Len(s) = n
    BY <1>1
  <2> QED BY <1>1, <1>3, <2>1, <2>3, <2>4, <2>5
<1> QED BY <1>2, <1>3

LEMMA NumberedApart ==
    ASSUME NEW base \in Seq(BundleName), base # <<>>, base[Len(base)] \in PlainName,
           NEW i \in Nat \ {0}, NEW j \in Nat \ {0}, Numbered(base, i) = Numbered(base, j)
    PROVE  i = j
<1>1. PICK x \in PlainName : x = base[Len(base)]
  OBVIOUS
<1>2. (IF i = 1 THEN x ELSE <<x, i>>) = (IF j = 1 THEN x ELSE <<x, j>>)
  BY <1>1, NumberedIsPath
<1>3. ASSUME NEW m \in Nat PROVE x # <<x, m>>
  <2>1. <<x, m>> \in {x} \X Nat
    OBVIOUS
  <2> QED BY <2>1, NamesAssumption DEF PlainName
<1> QED BY <1>2, <1>3

VendorBase(d) ==
    LET keep == RelativeSource(RootAbs, d).down IN
    <<Vendor>> \o (IF keep = <<>> THEN BaseName(d) ELSE keep)

LEMMA VendorBaseIsPath ==
    ASSUME NEW d \in Dirs
    PROVE  /\ VendorBase(d) \in Seq(BundleName) /\ VendorBase(d) # <<>>
           /\ VendorBase(d)[Len(VendorBase(d))] \in PlainName
<1>1. d \in Seq(Name) /\ RootAbs \in Seq(Name)
  BY DirsAssumption, RootAssumption
<1>2. PICK n \in Nat : n = CommonLen(RootAbs, d)
  BY <1>1, CommonLenIsCommon
<1>3. RelativeSource(RootAbs, d).down \in Seq(Name)
  <2>1. SubSeq(d, n + 1, Len(d)) \in Seq(Name)
    BY <1>1, <1>2, SubSeqProperties
  <2> QED BY <1>2, <2>1 DEF RelativeSource
<1>4. BaseName(d) \in Seq(Name)
  <2>1. CASE d = <<>>
    BY <2>1 DEF BaseName
  <2>2. CASE d # <<>>
    <3>1. d[Len(d)] \in Name
      BY <1>1, <2>2, EmptySeq
    <3> QED BY <2>2, <3>1 DEF BaseName
  <2> QED BY <2>1, <2>2
<1>5. PICK rest \in Seq(Name) : VendorBase(d) = <<Vendor>> \o rest
  BY <1>3, <1>4 DEF VendorBase
<1>6. rest \in Seq(PlainName) /\ <<Vendor>> \in Seq(PlainName)
  BY SeqMonotonic DEF PlainName
<1>7. <<Vendor>> \o rest \in Seq(PlainName) /\ Len(<<Vendor>> \o rest) = 1 + Len(rest)
  BY <1>6, ConcatProperties
<1>8. PICK s \in Seq(PlainName) : s = VendorBase(d) /\ Len(s) = 1 + Len(rest)
  BY <1>5, <1>7
<1>9. Len(rest) \in Nat /\ s \in Seq(BundleName)
  BY SeqMonotonic DEF BundleName
<1>10. s[Len(s)] \in PlainName /\ s # <<>>
  BY <1>8, <1>9
<1> QED BY <1>8, <1>9, <1>10

(* A directory that is vendored gets a home that nothing in the stage is   *)
(* at or below: of as many numbers as there are names taken and one more,  *)
(* one is free.                                                            *)
LEMMA VendorPathIsFresh ==
    ASSUME IsFiniteSet(DOMAIN stage), IsFiniteSet(used), NEW d \in Dirs
    PROVE  /\ VendorPath(d) \in Seq(BundleName)
           /\ \A s \in DOMAIN stage : ~Inside(VendorPath(d), s)
<1> DEFINE names == DOMAIN stage \cup used
           n == Cardinality(names) + 1
           base == VendorBase(d)
           Suits(i) == ~Taken(Numbered(base, i)) /\ \A m \in 1 .. (i - 1) : Taken(Numbered(base, m))
<1>1. base \in Seq(BundleName) /\ base # <<>> /\ base[Len(base)] \in PlainName
  BY VendorBaseIsPath
<1>2. VendorPath(d) = Numbered(base, CHOOSE i \in 1 .. n : Suits(i))
  BY DEF VendorPath, VendorBase
<1> HIDE DEF base
<1>3. IsFiniteSet(names) /\ n \in Nat \ {0}
  <2>1. IsFiniteSet(names)
    BY FS_Union
  <2> HIDE DEF names
  <2>2. Cardinality(names) \in Nat
    BY <2>1, FS_CardinalityType
  <2> QED BY <2>1, <2>2
<1>4. \E i \in 1 .. n : ~Taken(Numbered(base, i))
  <2> SUFFICES ASSUME \A i \in 1 .. n : Taken(Numbered(base, i)) PROVE FALSE
    OBVIOUS
  <2>1. ASSUME NEW i \in 1 .. n
        PROVE  \E s \in names : SubSeq(s, 1, Len(base)) = Numbered(base, i)
    <3>1. PICK p \in Seq(BundleName) : p = Numbered(base, i) /\ Len(p) = Len(base)
      <4> HIDE DEF n
      <4>1. i \in Nat \ {0}
        BY <1>3
      <4> QED BY <1>1, <4>1, NumberedIsPath
    <3>2. CASE p \in used
      <4>1. SubSeq(p, 1, Len(p)) = p
        OBVIOUS
      <4> QED BY <3>1, <3>2, <4>1
    <3>3. CASE \E s \in DOMAIN stage : Inside(p, s)
      BY <3>1, <3>3 DEF Inside, IsPathPrefix
    <3> QED BY <3>1, <3>2, <3>3 DEF Taken
  <2> DEFINE f == [i \in 1 .. n |-> CHOOSE s \in names : SubSeq(s, 1, Len(base)) = Numbered(base, i)]
  <2>2. ASSUME NEW i \in 1 .. n
        PROVE  f[i] \in names /\ SubSeq(f[i], 1, Len(base)) = Numbered(base, i)
    BY <2>1
  <2>3. f \in [1 .. n -> names]
    BY <2>2
  <2> HIDE DEF f
  <2>4. IsFiniteSet(1 .. n) /\ Cardinality(1 .. n) = n
    BY <1>3, FS_Interval
  <2>5. PICK i, j \in 1 .. n : i # j /\ f[i] = f[j]
    <3>1. Cardinality(names) < Cardinality(1 .. n)
      BY <1>3, <2>4, FS_CardinalityType
    <3> HIDE DEF names, n
    <3> QED BY <1>3, <2>3, <2>4, <3>1, FS_PigeonHole
  <2>6. Numbered(base, i) = Numbered(base, j)
    BY <2>2, <2>5
  <2>7. i \in Nat \ {0} /\ j \in Nat \ {0}
    BY <1>3
  <2> QED BY <1>1, <2>5, <2>6, <2>7, NumberedApart
<1>5. \E i \in 1 .. n : Suits(i)
  <2> DEFINE T == {i \in 1 .. n : ~Taken(Numbered(base, i))}
  <2>1. T # {} /\ T \in SUBSET Nat
    BY <1>3, <1>4
  <2>2. PICK i \in T : \A m \in T : i <= m
    <3> HIDE DEF T
    <3> QED BY <2>1, LeastMember
  <2>3. ASSUME NEW m \in 1 .. (i - 1) PROVE Taken(Numbered(base, m))
    <3>1. m \in 1 .. n /\ ~(i <= m)
      BY <1>3
    <3> QED BY <2>2, <3>1
  <2> QED BY <2>2, <2>3
<1>6. PICK i \in 1 .. n : i = (CHOOSE m \in 1 .. n : Suits(m)) /\ Suits(i)
  <2> HIDE DEF Suits, n
  <2> QED BY <1>5
<1>7. VendorPath(d) = Numbered(base, i) /\ ~Taken(Numbered(base, i)) /\ i \in Nat \ {0}
  BY <1>2, <1>3, <1>6
<1> QED BY <1>1, <1>7, NumberedIsPath DEF Taken

-----------------------------------------------------------------------------
(* What a settled call does, to the letter.                                *)

(* The stage st once the call at hand is pointed to rel.                   *)
Pointed(st, rel) ==
    IF NeedsRewrite(rel) THEN [st EXCEPT ![cur.rel].calls[k] = Rewritten(rel)] ELSE st
SettledAt(rel, st) ==
    /\ Sound
    /\ stage' = Pointed(st, rel)
    /\ NeedsRewrite(rel) => Rewritable(st)
    /\ placed' = [d \in DOMAIN placed \cup {Target} |-> IF d = Target THEN rel ELSE placed[d]]
    /\ k' = k + 1
    /\ UNCHANGED <<disk, walked, cur, status>>
(* The target has its home already, or was brought along with another.     *)
Stays(rel) ==
    /\ used' = used
    /\ out' = out \o <<>>
    /\ \/ Target \in DOMAIN placed /\ rel = placed[Target]
       \/ /\ Target \notin DOMAIN placed /\ CallTree = NoTree
          /\ Inside(RootAbs, Target) /\ rel = Rel(RootAbs, Target)
       \/ Target \notin DOMAIN placed /\ Holders(Target) # {} /\ rel = PlacedUnder(Target)
(* Or it is copied to rel.                                                 *)
Copied(rel) ==
    /\ Target \notin DOMAIN placed /\ Holders(Target) = {}
    /\ used' \in {used, used \cup {rel}}
    /\ out' = out \o <<[caller |-> cur.rel, abs |-> Target, into |-> rel]>>
    /\ CallTree = NoTree => rel = VendorPath(Target)
    /\ CallTree # NoTree => rel \in Seq(Name)
Halted ==
    /\ status' = "refused"
    /\ UNCHANGED <<disk, stage, placed, used, queue, walked, cur, k, trees, pins, out>>

LEMMA SettleAt ==
    ASSUME Sound, NEW tree, NEW rel, NEW st, NEW vendored, NEW names,
           Settle(tree, rel, st, vendored, names)
    PROVE  Halted \/ (SettledAt(rel, st) /\ out' = out \o vendored /\ used' = names)
<1>1. CASE Refuse("unsupported") \/ Refuse("io")
  BY <1>1 DEF Refuse, Halted
<1>2. CASE ~(Refuse("unsupported") \/ Refuse("io"))
  <2>1. /\ NeedsRewrite(rel) => ~disk[cur.abs].json /\ Rewritable(st)
        /\ stage' = IF NeedsRewrite(rel)
                      THEN [st EXCEPT ![cur.rel].calls[k] = Rewritten(rel)] ELSE st
        /\ placed' = [d \in DOMAIN placed \cup {Target} |-> IF d = Target THEN rel ELSE placed[d]]
        /\ used' = names
        /\ out' = out \o vendored
        /\ k' = k + 1
        /\ UNCHANGED <<disk, walked, cur, status>>
    BY <1>2 DEF Settle
  <2>2. stage' = Pointed(st, rel)
    BY <2>1 DEF Pointed
  <2> QED BY <2>1, <2>2 DEF SettledAt
<1> QED BY <1>1, <1>2

(* A call that is settled in one of these ways, at some home.              *)
WentTo(rel) ==
    \/ SettledAt(rel, stage) /\ Stays(rel)
    \/ SettledAt(rel, Copy(stage, Target, rel)) /\ Copied(rel)

LEMMA PlaceAt ==
    ASSUME Sound, Target \notin DOMAIN placed,
           NEW tree, NEW rel, NEW boundary, NEW names,
           Place(tree, rel, boundary, names), tree = CallTree,
           Holders(Target) # {} => names = used,
           Holders(Target) = {} =>
             /\ names \in {used, used \cup {rel}}
             /\ CallTree = NoTree => rel = VendorPath(Target)
             /\ CallTree # NoTree => rel \in Seq(Name)
    PROVE  Halted \/ \E home : WentTo(home)
<1>1. CASE Holders(Target) # {}
  <2>1. PICK home, st : home = PlacedUnder(Target) /\ st = stage
    OBVIOUS
  <2>2. Settle(tree, home, st, <<>>, names)
    BY <1>1, <2>1 DEF Place, Settle
  <2>3. Halted \/ (SettledAt(home, st) /\ out' = out \o <<>> /\ used' = names)
    BY <2>2, SettleAt
  <2>4. SettledAt(home, st) => SettledAt(home, stage)
    BY <2>1
  <2>5. out' = out \o <<>> /\ used' = names => Stays(home)
    BY <1>1, <2>1 DEF Stays
  <2> QED BY <2>3, <2>4, <2>5 DEF WentTo
<1>2. CASE Holders(Target) = {} /\ (tree \in Escaping \/ ~CopyOK(Target, boundary))
  BY <1>2 DEF Place, Refuse, Halted
<1>3. CASE Holders(Target) = {} /\ tree \notin Escaping /\ CopyOK(Target, boundary)
  <2>1. PICK st, vendored :
          st = Copy(stage, Target, rel) /\ vendored = <<[caller |-> cur.rel, abs |-> Target, into |-> rel]>>
    OBVIOUS
  <2>2. Settle(tree, rel, st, vendored, names)
    BY <1>3, <2>1 DEF Place, Settle
  <2>3. Halted \/ (SettledAt(rel, st) /\ out' = out \o vendored /\ used' = names)
    BY <2>2, SettleAt
  <2>4. SettledAt(rel, st) => SettledAt(rel, Copy(stage, Target, rel))
    BY <2>1
  <2>5. out' = out \o vendored /\ used' = names => Copied(rel)
    BY <1>3, <2>1 DEF Copied
  <2> QED BY <2>3, <2>4, <2>5 DEF WentTo
<1> QED BY <1>1, <1>2, <1>3

LEMMA CallGoes ==
    ASSUME IInv, OneCall
    PROVE  Halted \/ \E rel : WentTo(rel)
<1>1. CASE RefusedCall \/ FetchFails
  BY <1>1 DEF RefusedCall, FetchFails, Refuse, Halted
<1>2. ASSUME Sound, NEW tree, NEW rel, NEW st, NEW names, st = stage, names = used,
             Settle(tree, rel, st, <<>>, names),
             \/ Target \in DOMAIN placed /\ rel = placed[Target]
             \/ /\ Target \notin DOMAIN placed /\ CallTree = NoTree
                /\ Inside(RootAbs, Target) /\ rel = Rel(RootAbs, Target)
      PROVE  Halted \/ \E home : WentTo(home)
  <2>1. Halted \/ (SettledAt(rel, st) /\ out' = out \o <<>> /\ used' = names)
    BY <1>2, SettleAt
  <2>2. SettledAt(rel, st) => SettledAt(rel, stage)
    BY <1>2
  <2>3. out' = out \o <<>> /\ used' = names => Stays(rel)
    BY <1>2 DEF Stays
  <2> QED BY <2>1, <2>2, <2>3 DEF WentTo
<1>3. PICK st, names : st = stage /\ names = used
  OBVIOUS
<1>4. CASE LocalKnown
  <2>1. PICK tree, rel : tree = cur.tree /\ rel = placed[Target]
    OBVIOUS
  <2>2. Settle(tree, rel, st, <<>>, names) /\ SoundLocal /\ Target \in DOMAIN placed
    BY <1>3, <1>4, <2>1 DEF LocalKnown, Settle
  <2>3. Sound
    BY <2>2 DEF SoundLocal
  <2> QED BY <1>2, <1>3, <2>1, <2>2, <2>3
<1>5. CASE LocalInTree
  <2>1. PICK tree, rel, boundary :
          /\ tree = cur.tree /\ rel = Prefix[cur.tree] \o Rel(TreeAt[cur.tree], Target)
          /\ boundary = TreeAt[cur.tree]
    OBVIOUS
  <2>2. Place(tree, rel, boundary, names) /\ Target \notin DOMAIN placed
    BY <1>3, <1>5, <2>1 DEF LocalInTree, Place, Settle
  <2>3. Sound /\ CallTree = cur.tree /\ CallTree \in Addr
    BY <1>5, LocalCaller DEF LocalInTree
  <2>4. rel \in Seq(Name)
    <3>1. Target \in Seq(Name) /\ TreeAt[CallTree] \in Seq(Name) /\ Prefix[CallTree] \in Seq(Name)
      BY <2>3, SoundTarget, DirsAssumption, TreeAssumption
    <3>2. Inside(TreeAt[CallTree], Target)
      BY <2>3, SoundTarget, TreeOfHost, RootAssumption
    <3>3. Rel(TreeAt[CallTree], Target) \in Seq(Name)
      BY <3>1, <3>2, InsideSplits
    <3> QED BY <2>1, <2>3, <3>1, <3>3, ConcatProperties
  <2>5. CallTree # NoTree
    BY <2>3, RootAssumption
  <2> QED BY <1>3, <2>1, <2>2, <2>3, <2>4, <2>5, PlaceAt
<1>6. CASE LocalInRoot
  <2>1. PICK rel : rel = Rel(RootAbs, Target)
    OBVIOUS
  <2>2. /\ Settle(NoTree, rel, st, <<>>, names) /\ SoundLocal /\ ~InTree
        /\ Target \notin DOMAIN placed /\ Inside(RootAbs, Target)
    BY <1>3, <1>6, <2>1 DEF LocalInRoot, Settle
  <2>3. CallTree = NoTree /\ Sound
    BY <2>2, LocalCaller DEF InTree
  <2> QED BY <1>2, <1>3, <2>1, <2>2, <2>3
<1>7. CASE LocalOutside
  <2>1. Sound /\ CallTree = NoTree /\ Target \notin DOMAIN placed
    BY <1>7, LocalCaller DEF LocalOutside, InTree
  <2>2. CASE ~WithinBoundary(Target)
    BY <1>7, <2>2 DEF LocalOutside, Refuse, Halted
  <2>3. CASE WithinBoundary(Target) /\ Holders(Target) # {}
    <3>1. PICK rel, boundary : rel = <<>> /\ boundary = Target
      OBVIOUS
    <3>2. Place(NoTree, rel, boundary, names)
      BY <1>3, <1>7, <2>3, <3>1 DEF LocalOutside, Place, Settle
    <3> QED BY <1>3, <2>1, <2>3, <3>2, PlaceAt
  <2>4. CASE WithinBoundary(Target) /\ Holders(Target) = {}
    <3>1. PICK rel, boundary, all :
            rel = VendorPath(Target) /\ boundary = Target /\ all = used \cup {rel}
      OBVIOUS
    <3>2. Place(NoTree, rel, boundary, all)
      BY <1>7, <2>4, <3>1 DEF LocalOutside, Place, Settle
    <3> QED BY <2>1, <2>4, <3>1, <3>2, PlaceAt
  <2> QED BY <2>2, <2>3, <2>4
<1>8. CASE Remote
  <2>1. /\ Sound /\ Call.kind = "remote" /\ CallTree = Call.addr /\ CallTree # NoTree /\ CallTree \in Addr
    BY <1>8, SoundTarget, RootAssumption DEF Remote, CallTree
  <2>2. CASE Target \in DOMAIN placed
    <3>1. PICK tree, rel : tree = Call.addr /\ rel = placed[Target]
      OBVIOUS
    <3>2. Settle(tree, rel, st, <<>>, names)
      BY <1>3, <1>8, <2>2, <3>1 DEF Remote, Settle
    <3> QED BY <1>2, <1>3, <2>1, <2>2, <3>1, <3>2
  <2>3. CASE Target \notin DOMAIN placed
    <3>1. PICK tree, rel, boundary :
            /\ tree = Call.addr /\ rel = Prefix[Call.addr] \o Call.down
            /\ boundary = TreeAt[Call.addr]
      OBVIOUS
    <3>2. Place(tree, rel, boundary, names)
      BY <1>3, <1>8, <2>3, <3>1 DEF Remote, Place, Settle
    <3>3. rel \in Seq(Name)
      <4>1. Call.down \in Seq(Name)
        BY <2>1, CurAtHome, WorldsAssumption DEF Sound, Calling, Call, IsCall, IInv, ShapeInv
      <4>2. Prefix[Call.addr] \in Seq(Name)
        BY <2>1, TreeAssumption
      <4> QED BY <3>1, <4>1, <4>2, ConcatProperties
    <3> QED BY <1>3, <2>1, <2>3, <3>1, <3>2, <3>3, PlaceAt
  <2> QED BY <2>2, <2>3
<1> QED BY <1>1, <1>4, <1>5, <1>6, <1>7, <1>8 DEF OneCall

-----------------------------------------------------------------------------
(* Where copies land.                                                      *)

LEMMA NamesInBundle ==
    ASSUME NEW x \in Seq(Name)
    PROVE  x \in Seq(BundleName)
BY SeqMonotonic DEF BundleName, PlainName

LEMMA RelIsPath ==
    ASSUME NEW a \in Dirs, NEW d \in Dirs, Inside(a, d)
    PROVE  Rel(a, d) \in Seq(Name) /\ Rel(a, d) \in Seq(BundleName) /\ d = a \o Rel(a, d)
<1>1. a \in Seq(Name) /\ d \in Seq(Name)
  BY DirsAssumption
<1>2. Rel(a, d) \in Seq(Name) /\ d = a \o Rel(a, d)
  BY <1>1, InsideSplits
<1> QED BY <1>2, NamesInBundle

LEMMA RelSelf ==
    ASSUME NEW a \in Dirs
    PROVE  Inside(a, a) /\ Rel(a, a) = <<>>
<1>1. a \in Seq(Name) /\ <<>> \in Seq(Name)
  BY DirsAssumption
<1>2. a \o <<>> = a
  BY <1>1, ConcatEmptySeq
<1> QED BY <1>1, <1>2, RelOfConcat

(* Where the directories of a copy of a land when it is copied to h.       *)
Spread(a, h) == {h \o Rel(a, d) : d \in CopiedDirs(a)}

LEMMA LandsInside ==
    ASSUME NEW a \in Dirs, NEW h \in Seq(BundleName), NEW d \in Dirs, Inside(a, d)
    PROVE  /\ h \o Rel(a, d) \in Seq(BundleName)
           /\ Inside(h, h \o Rel(a, d))
           /\ Rel(h, h \o Rel(a, d)) = Rel(a, d)
<1>1. Rel(a, d) \in Seq(BundleName)
  BY RelIsPath
<1> QED BY <1>1, RelOfConcat, ConcatProperties

LEMMA LandsOnce ==
    ASSUME NEW a \in Dirs, NEW h \in Seq(BundleName),
           NEW d \in Dirs, NEW e \in Dirs, Inside(a, d), Inside(a, e),
           h \o Rel(a, d) = h \o Rel(a, e)
    PROVE  d = e
<1>1. Rel(h, h \o Rel(a, d)) = Rel(a, d)
  BY LandsInside
<1>2. Rel(h, h \o Rel(a, e)) = Rel(a, e)
  BY LandsInside
<1>3. Rel(a, d) = Rel(a, e)
  BY <1>1, <1>2
<1> QED BY <1>3, RelIsPath

LEMMA CopiedAreInside ==
    ASSUME NEW a, NEW d \in CopiedDirs(a)
    PROVE  d \in Dirs /\ Inside(a, d)
BY DEF CopiedDirs

LEMMA CopiesItself ==
    ASSUME NEW a \in Dirs
    PROVE  a \in CopiedDirs(a)
<1>1. Inside(a, a)
  BY RelSelf
<1>2. Len(a) \in Nat
  BY DirsAssumption, LenProperties
<1>3. (Len(a) + 1) .. Len(a) = {}
  BY <1>2
<1> QED BY <1>1, <1>3 DEF CopiedDirs

(* What a copy makes of a stage.                                           *)
Fresh(d) == [from |-> d, file |-> disk[d].file, calls |-> disk[d].calls]

LEMMA FreshFields ==
    ASSUME NEW d
    PROVE  /\ Fresh(d).from = d /\ Fresh(d).file = disk[d].file /\ Fresh(d).calls = disk[d].calls
           /\ DOMAIN Fresh(d) = {"from", "file", "calls"}
BY DEF Fresh

LEMMA CopyIs ==
    ASSUME NEW st, NEW a, NEW h
    PROVE  LET Origin(p) == CHOOSE d \in CopiedDirs(a) : p = h \o Rel(a, d)
               Keeps(p) == p \in DOMAIN st /\ (p \in Spread(a, h) => ~disk[Origin(p)].file) IN
           Copy(st, a, h) =
             [p \in DOMAIN st \cup Spread(a, h) |-> IF Keeps(p) THEN st[p] ELSE Fresh(Origin(p))]
BY DEF Copy, Spread, Fresh

LEMMA CopyMakes ==
    ASSUME NEW st, NEW a, NEW h
    PROVE  /\ DOMAIN Copy(st, a, h) = DOMAIN st \cup Spread(a, h)
           /\ \A p \in DOMAIN st : p \notin Spread(a, h) => Copy(st, a, h)[p] = st[p]
BY CopyIs

LEMMA CopyMakesFresh ==
    ASSUME NEW st, NEW a \in Dirs, NEW h \in Seq(BundleName), NEW d \in CopiedDirs(a),
           h \o Rel(a, d) \notin DOMAIN st
    PROVE  Copy(st, a, h)[h \o Rel(a, d)] = Fresh(d)
<1> DEFINE Origin(q) == CHOOSE e \in CopiedDirs(a) : q = h \o Rel(a, e)
<1>1. PICK p : p = h \o Rel(a, d)
  OBVIOUS
<1>2. PICK e : e = Origin(p) /\ e \in CopiedDirs(a) /\ p = h \o Rel(a, e)
  BY <1>1
<1>3. e = d
  BY <1>1, <1>2, CopiedAreInside, LandsOnce
<1>4. p \in Spread(a, h)
  BY <1>1 DEF Spread
<1>5. Copy(st, a, h)[p] = Fresh(Origin(p))
  BY <1>1, <1>4, CopyIs
<1> QED BY <1>1, <1>2, <1>3, <1>5

LEMMA SpreadIsFinite ==
    ASSUME NEW a \in Dirs, NEW h \in Seq(BundleName)
    PROVE  IsFiniteSet(Spread(a, h))
<1> DEFINE f == [p \in Spread(a, h) |-> CHOOSE d \in CopiedDirs(a) : p = h \o Rel(a, d)]
<1>1. ASSUME NEW p \in Spread(a, h) PROVE f[p] \in Dirs /\ p = h \o Rel(a, f[p])
  <2>1. \E d \in CopiedDirs(a) : p = h \o Rel(a, d)
    BY DEF Spread
  <2>2. f[p] \in CopiedDirs(a) /\ p = h \o Rel(a, f[p])
    BY <2>1
  <2> QED BY <2>2, CopiedAreInside
<1>2. f \in [Spread(a, h) -> Dirs]
  BY <1>1
<1> HIDE DEF f
<1>3. \A p, q \in Spread(a, h) : f[p] = f[q] => p = q
  BY <1>1
<1>4. f \in Injection(Spread(a, h), Dirs)
  BY <1>2, <1>3 DEF Injection, IsInjective
<1> QED BY <1>4, DirsAssumption, FS_Injection

-----------------------------------------------------------------------------
(* Homes, traced back to what was copied: the component, and each          *)
(* directory that was vendored.                                            *)

Vendoreds == [caller : Seq(BundleName), abs : Dirs, into : Seq(BundleName)]
Anchors == {RootAbs} \cup {out[i].abs : i \in DOMAIN out}
AnchoredAt(a, d) ==
    /\ Inside(a, d)
    /\ placed[d] = placed[a] \o Rel(a, d)
    /\ TreeOf(d) = TreeOf(a)
OutInv ==
    /\ out \in Seq(Vendoreds)
    /\ \A i \in DOMAIN out : out[i].into = placed[out[i].abs] /\ out[i].abs # RootAbs
    /\ \A i, j \in DOMAIN out : out[i].abs = out[j].abs => i = j
AnchorInv ==
    /\ IsFiniteSet(DOMAIN stage) /\ IsFiniteSet(used)
    /\ placed[RootAbs] = <<>>
    /\ OutInv
    /\ \A a \in Anchors : a \in DOMAIN placed /\ placed[a] \in Seq(BundleName)
    /\ \A d \in DOMAIN placed : \E a \in Anchors : AnchoredAt(a, d)

(* Where a directory below a home goes is where its anchor's copy has it.  *)
LEMMA AnchoredBelow ==
    ASSUME NEW a \in Dirs, NEW e \in Dirs, NEW d \in Dirs, placed[a] \in Seq(BundleName),
           AnchoredAt(a, e), Inside(e, d), TreeOf(d) = TreeOf(e)
    PROVE  /\ Inside(a, d) /\ TreeOf(d) = TreeOf(a)
           /\ placed[e] \o Rel(e, d) = placed[a] \o Rel(a, d)
<1>1. a \in Seq(Name) /\ e \in Seq(Name) /\ d \in Seq(Name) /\ Inside(a, e)
  BY DirsAssumption DEF AnchoredAt
<1>2. Inside(a, d) /\ Rel(a, d) = Rel(a, e) \o Rel(e, d)
  BY <1>1, InsideTransitive
<1>3. Rel(a, e) \in Seq(BundleName) /\ Rel(e, d) \in Seq(BundleName)
  BY <1>1, RelIsPath
<1>4. ASSUME NEW x \in Seq(BundleName), NEW y \in Seq(BundleName), NEW z \in Seq(BundleName)
      PROVE  (x \o y) \o z = x \o (y \o z)
  BY ConcatAssociative
<1>5. (placed[a] \o Rel(a, e)) \o Rel(e, d) = placed[a] \o (Rel(a, e) \o Rel(e, d))
  BY <1>3, <1>4, Zenon
<1> QED BY <1>2, <1>5 DEF AnchoredAt

LEMMA AnchoredIsPath ==
    ASSUME NEW a \in Dirs, NEW d \in Dirs, placed[a] \in Seq(BundleName), AnchoredAt(a, d)
    PROVE  placed[d] \in Seq(BundleName)
<1>1. Rel(a, d) \in Seq(BundleName)
  BY RelIsPath DEF AnchoredAt
<1> QED BY <1>1, ConcatProperties DEF AnchoredAt

LEMMA HomeIsPath ==
    ASSUME IInv, AnchorInv, NEW d \in DOMAIN placed
    PROVE  placed[d] \in Seq(BundleName)
<1>1. DOMAIN placed \subseteq Dirs
  BY DEF IInv, PlacedInv
<1>2. PICK a \in Anchors : AnchoredAt(a, d)
  BY DEF AnchorInv
<1>3. a \in Dirs /\ placed[a] \in Seq(BundleName)
  BY <1>1 DEF AnchorInv
<1> QED BY <1>1, <1>2, <1>3, AnchoredIsPath

(* The home of a target that was not copied is at an anchor too.           *)
LEMMA StayIsAnchored ==
    ASSUME IInv, AnchorInv, Sound, NEW rel, Stays(rel)
    PROVE  \E a \in Anchors :
             Inside(a, Target) /\ rel = placed[a] \o Rel(a, Target) /\ TreeOf(Target) = TreeOf(a)
<1>1. /\ Target \in Dirs /\ CallTree = TreeOf(Target) /\ (OnHost(Target) \/ InATree(Target))
      /\ PlacedInv /\ DOMAIN placed \subseteq Dirs
  BY SoundTarget DEF InATree, IInv, PlacedInv
<1>2. CASE Target \in DOMAIN placed /\ rel = placed[Target]
  <2>1. PICK a \in Anchors : AnchoredAt(a, Target)
    BY <1>2 DEF AnchorInv
  <2> QED BY <1>2, <2>1 DEF AnchoredAt
<1>3. CASE CallTree = NoTree /\ Inside(RootAbs, Target) /\ rel = Rel(RootAbs, Target)
  <2>1. Rel(RootAbs, Target) \in Seq(Name)
    BY <1>1, <1>3, RelIsPath, RootAssumption
  <2>2. rel = <<>> \o Rel(RootAbs, Target)
    BY <1>3, <2>1, ConcatEmptySeq
  <2>3. TreeOf(RootAbs) = NoTree /\ RootAbs \in Anchors /\ placed[RootAbs] = <<>>
    BY HostAssumption, TreeOfHost DEF Anchors, AnchorInv
  <2> QED BY <1>1, <1>3, <2>2, <2>3
<1>4. CASE Holders(Target) # {} /\ rel = PlacedUnder(Target)
  <2>1. PICK e \in Holders(Target) : rel = placed[e] \o Rel(e, Target)
    BY <1>1, <1>4, BestHolder
  <2>2. e \in DOMAIN placed /\ e \in Dirs /\ Inside(e, Target) /\ TreeOf(e) = TreeOf(Target)
    BY <1>1, HolderIsOfTree
  <2>3. PICK a \in Anchors : AnchoredAt(a, e)
    BY <2>2 DEF AnchorInv
  <2>4. a \in Dirs /\ placed[a] \in Seq(BundleName)
    BY <1>1 DEF AnchorInv
  <2>5. /\ Inside(a, Target) /\ TreeOf(Target) = TreeOf(a)
        /\ placed[e] \o Rel(e, Target) = placed[a] \o Rel(a, Target)
    BY <1>1, <2>2, <2>3, <2>4, AnchoredBelow
  <2> QED BY <2>1, <2>5
<1> QED BY <1>2, <1>3, <1>4 DEF Stays

LEMMA PointedDomain ==
    ASSUME NEW st, NEW rel
    PROVE  DOMAIN Pointed(st, rel) = DOMAIN st
BY DEF Pointed

(* A home is kept when the target gets one.                                *)
LEMMA WentPlaces ==
    ASSUME NEW rel, WentTo(rel)
    PROVE  /\ Sound /\ Extends
           /\ DOMAIN placed' = DOMAIN placed \cup {Target} /\ placed'[Target] = rel
           /\ UNCHANGED <<disk, walked, cur, status>> /\ k' = k + 1
<1>1. /\ Sound /\ UNCHANGED <<disk, walked, cur, status>> /\ k' = k + 1
      /\ placed' = [d \in DOMAIN placed \cup {Target} |-> IF d = Target THEN rel ELSE placed[d]]
      /\ Target \in DOMAIN placed => rel = placed[Target]
  BY DEF WentTo, SettledAt, Stays, Copied
<1> QED BY <1>1 DEF Extends

LEMMA TreesStay == \A d : TreeOf(d)' = TreeOf(d)
BY DEF TreeOf

LEMMA AnchoredKept ==
    ASSUME Extends, NEW a \in DOMAIN placed, NEW d \in DOMAIN placed, AnchoredAt(a, d)
    PROVE  AnchoredAt(a, d)'
<1>1. placed'[a] = placed[a] /\ placed'[d] = placed[d]
  BY DEF Extends
<1> QED BY <1>1 DEF AnchoredAt, TreeOf

(* The home a copy lands at, and the record of it.                         *)
LEMMA CopiedHome ==
    ASSUME IInv, AnchorInv, Sound, NEW rel, Copied(rel)
    PROVE  rel \in Seq(BundleName)
<1>1. Target \in Dirs
  BY SoundTarget
<1>2. CASE CallTree = NoTree
  BY <1>1, <1>2, VendorPathIsFresh DEF Copied, AnchorInv
<1>3. CASE CallTree # NoTree
  BY <1>3, NamesInBundle DEF Copied
<1> QED BY <1>2, <1>3

LEMMA CopiedOut ==
    ASSUME IInv, AnchorInv, Sound, NEW rel, Copied(rel)
    PROVE  LET last == Len(out) + 1 IN
           /\ out' \in Seq(Vendoreds)
           /\ last \notin DOMAIN out /\ DOMAIN out' = DOMAIN out \cup {last}
           /\ \A i \in DOMAIN out : out'[i] = out[i]
           /\ out'[last].abs = Target /\ out'[last].into = rel
<1>1. PICK v \in Vendoreds : v.abs = Target /\ v.into = rel /\ out' = out \o <<v>>
  <2>1. Target \in Dirs /\ rel \in Seq(BundleName) /\ cur.rel \in Seq(BundleName)
    BY SoundTarget, CopiedHome, CurAtHome, HomeIsPath
  <2>2. [caller |-> cur.rel, abs |-> Target, into |-> rel] \in Vendoreds
    BY <2>1 DEF Vendoreds
  <2> QED BY <2>2 DEF Copied
<1>2. out \in Seq(Vendoreds)
  BY DEF AnchorInv, OutInv
<1>3. out \o <<v>> = Append(out, v)
  BY <1>2
<1>4. PICK n \in Nat : n = Len(out) /\ DOMAIN out = 1 .. n
  BY <1>2, LenProperties
<1>5. /\ Append(out, v) \in Seq(Vendoreds)
      /\ DOMAIN Append(out, v) = 1 .. (n + 1)
      /\ \A i \in 1 .. n : Append(out, v)[i] = out[i]
      /\ Append(out, v)[n + 1] = v
  BY <1>2, <1>4, AppendProperties, LenProperties
<1> QED BY <1>1, <1>3, <1>4, <1>5

LEMMA CopiedAnchors ==
    ASSUME IInv, AnchorInv, Sound, NEW rel, Copied(rel)
    PROVE  Anchors' = Anchors \cup {Target}
<1>1. PICK last :
        /\ DOMAIN out' = DOMAIN out \cup {last}
        /\ \A i \in DOMAIN out : out'[i] = out[i]
        /\ out'[last].abs = Target
  BY CopiedOut
<1> QED BY <1>1 DEF Anchors

LEMMA StaysOut ==
    ASSUME AnchorInv, NEW rel, Stays(rel)
    PROVE  out' = out /\ used' = used /\ Anchors' = Anchors
<1>1. out' = out
  BY ConcatEmptySeq DEF Stays, AnchorInv, OutInv
<1> QED BY <1>1 DEF Stays, Anchors

LEMMA WentKeepsAnchors ==
    ASSUME IInv, AnchorInv, NEW rel, WentTo(rel)
    PROVE  AnchorInv'
<1>1. /\ Sound /\ Extends /\ Target \in Dirs /\ DOMAIN placed \subseteq Dirs
      /\ DOMAIN placed' = DOMAIN placed \cup {Target} /\ placed'[Target] = rel
  BY WentPlaces, SoundTarget DEF IInv, PlacedInv
<1>2. RootAbs \in DOMAIN placed /\ placed'[RootAbs] = <<>>
  BY <1>1 DEF AnchorInv, Anchors, Extends
<1>3. ASSUME NEW d \in DOMAIN placed PROVE \E a \in Anchors : AnchoredAt(a, d)'
  BY <1>1, AnchoredKept DEF AnchorInv
<1>4. \A a \in Anchors : a \in DOMAIN placed' /\ placed'[a] = placed[a] /\ placed[a] \in Seq(BundleName)
  BY <1>1 DEF AnchorInv, Extends
<1>5. ASSUME NEW i \in DOMAIN out
      PROVE  out[i].abs \in DOMAIN placed /\ out[i].into = placed'[out[i].abs]
  BY <1>1 DEF AnchorInv, OutInv, Anchors, Extends
<1>6. CASE SettledAt(rel, stage) /\ Stays(rel)
  <2>1. out' = out /\ used' = used /\ Anchors' = Anchors
    BY <1>6, StaysOut
  <2>2. DOMAIN stage' = DOMAIN stage
    BY <1>6, PointedDomain DEF SettledAt
  <2>3. OutInv'
    BY <1>5, <2>1 DEF AnchorInv, OutInv
  <2>4. PICK a \in Anchors :
          Inside(a, Target) /\ rel = placed[a] \o Rel(a, Target) /\ TreeOf(Target) = TreeOf(a)
    BY <1>1, <1>6, StayIsAnchored
  <2>5. PICK t : t = Target
    OBVIOUS
  <2>6. AnchoredAt(a, t)'
    BY <1>1, <1>4, <2>4, <2>5, TreesStay DEF AnchoredAt
  <2>7. ASSUME NEW d \in DOMAIN placed' PROVE \E b \in Anchors : AnchoredAt(b, d)'
    <3>1. d \in DOMAIN placed \/ d = t
      BY <1>1, <2>5
    <3> QED BY <1>3, <2>6, <3>1
  <2> QED BY <1>2, <1>4, <2>1, <2>2, <2>3, <2>7 DEF AnchorInv
<1>7. CASE SettledAt(rel, Copy(stage, Target, rel)) /\ Copied(rel)
  <2>1. rel \in Seq(BundleName) /\ Anchors' = Anchors \cup {Target} /\ Target \notin DOMAIN placed
    BY <1>1, <1>7, CopiedHome, CopiedAnchors DEF Copied
  <2>2. IsFiniteSet(DOMAIN stage')
    <3>1. PICK t \in Dirs : t = Target
      BY <1>1
    <3>2. PICK old, st : old = stage /\ st = Copy(old, t, rel)
      OBVIOUS
    <3>3. DOMAIN st = DOMAIN old \cup Spread(t, rel)
      BY <2>1, <3>2, CopyMakes
    <3>4. stage' = Pointed(st, rel)
      BY <1>7, <3>1, <3>2 DEF SettledAt
    <3>5. DOMAIN stage' = DOMAIN old \cup Spread(t, rel)
      BY <3>3, <3>4, PointedDomain
    <3>6. IsFiniteSet(Spread(t, rel)) /\ IsFiniteSet(DOMAIN old)
      BY <2>1, <3>2, SpreadIsFinite DEF AnchorInv
    <3> QED BY <3>5, <3>6, FS_Union
  <2>3. IsFiniteSet(used')
    <3>1. used' \in {used, used \cup {rel}} /\ IsFiniteSet(used) /\ IsFiniteSet({rel})
      BY <1>7, FS_Singleton DEF Copied, AnchorInv
    <3> QED BY <3>1, FS_Union
  <2>4. OutInv'
    <3>1. PICK last :
            /\ out' \in Seq(Vendoreds)
            /\ last \notin DOMAIN out /\ DOMAIN out' = DOMAIN out \cup {last}
            /\ \A i \in DOMAIN out : out'[i] = out[i]
            /\ out'[last].abs = Target /\ out'[last].into = rel
      BY <1>1, <1>7, CopiedOut
    <3>2. Target # RootAbs /\ \A i \in DOMAIN out : out[i].abs # Target
      BY <1>2, <1>5, <2>1
    <3> QED BY <1>1, <1>5, <3>1, <3>2 DEF AnchorInv, OutInv
  <2>5. PICK t \in Dirs : t = Target
    BY <1>1
  <2>6. AnchoredAt(t, t)'
    <3>1. Inside(t, t) /\ Rel(t, t) = <<>>
      BY RelSelf
    <3>2. rel \o <<>> = rel
      BY <2>1, ConcatEmptySeq
    <3> QED BY <1>1, <2>5, <3>1, <3>2, TreesStay DEF AnchoredAt
  <2>8. ASSUME NEW d \in DOMAIN placed' PROVE \E b \in Anchors' : AnchoredAt(b, d)'
    <3>1. d \in DOMAIN placed \/ d = t
      BY <1>1, <2>5
    <3> QED BY <1>3, <2>1, <2>5, <2>6, <3>1
  <2>7. ASSUME NEW a \in Anchors' PROVE a \in DOMAIN placed' /\ placed'[a] \in Seq(BundleName)
    BY <1>1, <1>4, <2>1
  <2> QED BY <1>2, <2>2, <2>3, <2>4, <2>7, <2>8 DEF AnchorInv
<1> QED BY <1>6, <1>7 DEF WentTo

-----------------------------------------------------------------------------
(* What is staged is where the copies put it; copies of directories of the *)
(* host are apart.                                                         *)

Going == status \in {"closing", "packed"}
Lies(a) == Spread(a, placed[a])
HostsApart ==
    \A a, b \in Anchors :
        a # b /\ TreeOf(a) = NoTree /\ TreeOf(b) = NoTree => Lies(a) \cap Lies(b) = {}
RootKept == \A d \in CopiedDirs(RootAbs) : stage[Rel(RootAbs, d)].from = d
SpreadInv ==
    /\ status = "staging" => out = <<>> /\ DOMAIN stage = {}
    /\ \A p \in DOMAIN stage : \E a \in Anchors : p \in Lies(a)
    /\ Going => \A a \in Anchors : Lies(a) \subseteq DOMAIN stage
    /\ HostsApart
    /\ Going /\ ~TreeOverComponent => RootKept

(* Every step is one of these.                                             *)
Loads ==
    /\ AtLoopHead /\ queue # <<>> /\ Head(queue).abs \notin walked
    /\ cur' = Head(queue) /\ k' = 1
    /\ walked' = walked \cup {Head(queue).abs}
Rests ==
    /\ UNCHANGED <<disk, stage, placed, used, out>>
    /\ status' \in {status, "refused"} \/ (status = "closing" /\ status' = "packed")
    /\ UNCHANGED <<walked, cur, k>> \/ Loads
RootStaged ==
    /\ status = "staging" /\ status' = "closing"
    /\ stage' = Copy(stage, RootAbs, <<>>)
    /\ UNCHANGED <<disk, placed, used, walked, cur, k, out>>
LEMMA StepPlaces ==
    ASSUME IInv, [Next]_vars
    PROVE  Rests \/ RootStaged \/ \E rel : WentTo(rel)
<1>1. CASE OneCall
  <2>1. CASE Halted
    BY <2>1 DEF Halted, Rests, IInv, ShapeInv
  <2> QED BY <1>1, <2>1, CallGoes
<1>2. CASE StageRoot
  BY <1>2 DEF StageRoot, Refuse, Rests, RootStaged
<1>3. CASE Cancelled \/ SkipWalked \/ LoadModule \/ Packed \/ UNCHANGED vars
  BY <1>3 DEF Cancelled, SkipWalked, LoadModule, Loads, Packed, vars, AtLoopHead, Refuse, Rests
<1> QED BY <1>1, <1>2, <1>3 DEF Next, Step

LEMMA PointedEntry ==
    ASSUME NEW st, IsStage(st), NEW rel, NEW p \in DOMAIN st
    PROVE  Pointed(st, rel)[p].from = st[p].from /\ Pointed(st, rel)[p].file = st[p].file
<1>1. DOMAIN st[p] = {"from", "file", "calls"}
  BY DEF IsStage
<1>2. CASE NeedsRewrite(rel)
  <2>1. Pointed(st, rel) = [st EXCEPT ![cur.rel].calls[k] = Rewritten(rel)]
    BY <1>2 DEF Pointed
  <2>2. CASE p # cur.rel
    BY <2>1, <2>2
  <2>3. CASE p = cur.rel
    BY <1>1, <2>1, <2>3
  <2> QED BY <2>2, <2>3
<1>3. CASE ~NeedsRewrite(rel)
  BY <1>3 DEF Pointed
<1> QED BY <1>2, <1>3

(* A directory of the host is copied to where nothing is staged.           *)
LEMMA FreshSpread ==
    ASSUME IInv, AnchorInv, Sound, NEW rel, Copied(rel), CallTree = NoTree,
           NEW p \in Spread(Target, rel)
    PROVE  p \notin DOMAIN stage
<1>1. Target \in Dirs /\ rel \in Seq(BundleName) /\ rel = VendorPath(Target)
  BY SoundTarget, CopiedHome DEF Copied
<1>2. PICK d \in CopiedDirs(Target) : p = rel \o Rel(Target, d)
  BY DEF Spread
<1>3. Inside(rel, p)
  BY <1>1, <1>2, CopiedAreInside, LandsInside
<1> QED BY <1>1, <1>3, VendorPathIsFresh DEF AnchorInv

(* The component's own directories lie where they lie in it.               *)
LEMMA RootLies ==
    ASSUME AnchorInv, NEW d \in CopiedDirs(RootAbs)
    PROVE  Rel(RootAbs, d) \in Lies(RootAbs)
<1>1. Rel(RootAbs, d) \in Seq(Name)
  BY CopiedAreInside, RelIsPath, RootAssumption
<1>2. <<>> \o Rel(RootAbs, d) = Rel(RootAbs, d)
  BY <1>1, ConcatEmptySeq
<1>3. placed[RootAbs] = <<>>
  BY DEF AnchorInv
<1> QED BY <1>2, <1>3 DEF Lies, Spread

(* A fetched tree that landed on the component stays where it landed.      *)
LEMMA OverKept ==
    ASSUME IInv, AnchorInv, NEW rel, WentTo(rel), TreeOverComponent
    PROVE  TreeOverComponent'
<1>1. PICK i \in DOMAIN out :
        /\ TreeOf(out[i].abs) # NoTree
        /\ Landed(i) \cap {Rel(RootAbs, d) : d \in CopiedDirs(RootAbs)} # {}
  BY DEF TreeOverComponent
<1>2. i \in DOMAIN out' /\ out'[i] = out[i]
  BY WentPlaces, StaysOut, CopiedOut DEF WentTo
<1>3. Landed(i)' = Landed(i)
  BY <1>2 DEF Landed
<1> QED BY <1>1, <1>2, <1>3 DEF TreeOverComponent, TreeOf

(* One that is copied now and does not land on it.                         *)
LEMMA NotOver ==
    ASSUME IInv, AnchorInv, Sound, NEW rel, Copied(rel), CallTree # NoTree, ~TreeOverComponent',
           NEW d \in CopiedDirs(RootAbs)
    PROVE  Rel(RootAbs, d) \notin Spread(Target, rel)
<1>1. PICK last \in DOMAIN out' : out'[last].abs = Target /\ out'[last].into = rel
  BY CopiedOut
<1>2. TreeOf(out'[last].abs) # NoTree
  BY <1>1, SoundTarget
<1>3. Landed(last)' = Spread(Target, rel)
  BY <1>1 DEF Landed, Spread
<1>4. Landed(last)' \cap {Rel(RootAbs, e) : e \in CopiedDirs(RootAbs)} = {}
  BY <1>1, <1>2 DEF TreeOverComponent, TreeOf
<1> QED BY <1>3, <1>4

LEMMA LiesKept ==
    ASSUME AnchorInv, Extends, NEW a \in Anchors
    PROVE  Lies(a)' = Lies(a)
<1>1. placed'[a] = placed[a]
  BY DEF AnchorInv, Extends
<1> QED BY <1>1 DEF Lies, Spread

LEMMA RestKeepsSpread ==
    ASSUME IInv, SpreadInv, Rests
    PROVE  SpreadInv'
<1>1. /\ UNCHANGED <<stage, placed, out>> /\ (Going' => Going)
      /\ status' = "staging" => status = "staging"
  BY DEF Rests, Going
<1>2. Anchors' = Anchors /\ \A a : Lies(a)' = Lies(a)
  BY <1>1 DEF Anchors, Lies, Spread
<1>3. TreeOverComponent' = TreeOverComponent
  BY <1>1 DEF TreeOverComponent, Landed, TreeOf
<1>4. HostsApart' /\ (RootKept => RootKept')
  BY <1>1, <1>2 DEF HostsApart, RootKept, TreeOf, SpreadInv
<1> QED BY <1>1, <1>2, <1>3, <1>4 DEF SpreadInv

LEMMA EmptySeqIsSeq == <<>> \in Seq(BundleName)
OBVIOUS

LEMMA RootStagedKeepsSpread ==
    ASSUME IInv, AnchorInv, SpreadInv, RootStaged
    PROVE  SpreadInv'
<1>1. /\ out = <<>> /\ DOMAIN stage = {} /\ UNCHANGED <<placed, out>> /\ status' = "closing"
      /\ stage' = Copy(stage, RootAbs, <<>>) /\ placed[RootAbs] = <<>>
  BY DEF RootStaged, SpreadInv, AnchorInv
<1>2. Anchors = {RootAbs} /\ Anchors' = {RootAbs}
  BY <1>1 DEF Anchors
<1>3. Lies(RootAbs) = Spread(RootAbs, <<>>) /\ Lies(RootAbs)' = Lies(RootAbs)
  BY <1>1 DEF Lies, Spread
<1>4. PICK home \in Seq(BundleName) : home = <<>>
  BY EmptySeqIsSeq
<1>5. /\ DOMAIN stage' = DOMAIN stage \cup Spread(RootAbs, home)
      /\ \A d \in CopiedDirs(RootAbs) :
           home \o Rel(RootAbs, d) \notin DOMAIN stage => stage'[home \o Rel(RootAbs, d)].from = d
  <2>1. PICK old, new : old = stage /\ new = stage' /\ new = Copy(old, RootAbs, home)
    BY <1>1, <1>4
  <2>2. RootAbs \in Dirs /\ new = Copy(old, RootAbs, home)
    BY <2>1, RootAssumption
  <2>3. DOMAIN new = DOMAIN old \cup Spread(RootAbs, home)
    BY <2>2, CopyMakes
  <2>4. ASSUME NEW d \in CopiedDirs(RootAbs), home \o Rel(RootAbs, d) \notin DOMAIN old
        PROVE  new[home \o Rel(RootAbs, d)].from = d
    <3>1. Copy(old, RootAbs, home)[home \o Rel(RootAbs, d)] = Fresh(d)
      BY <2>2, <2>4, CopyMakesFresh
    <3> QED BY <2>2, <3>1, FreshFields
  <2> QED BY <2>1, <2>3, <2>4
<1>6. DOMAIN stage' = Lies(RootAbs)
  BY <1>1, <1>3, <1>4, <1>5
<1>7. RootKept'
  <2> SUFFICES ASSUME NEW d \in CopiedDirs(RootAbs) PROVE stage'[Rel(RootAbs, d)].from = d
    BY DEF RootKept
  <2>1. Rel(RootAbs, d) \in Seq(Name)
    BY CopiedAreInside, RelIsPath, RootAssumption
  <2>2. <<>> \o Rel(RootAbs, d) = Rel(RootAbs, d)
    BY <2>1, ConcatEmptySeq
  <2> QED BY <1>1, <1>4, <1>5, <2>2
<1>8. HostsApart'
  BY <1>2 DEF HostsApart
<1> QED BY <1>1, <1>2, <1>3, <1>6, <1>7, <1>8 DEF SpreadInv

LEMMA StayKeepsSpread ==
    ASSUME IInv, AnchorInv, SpreadInv, NEW rel, SettledAt(rel, stage), Stays(rel)
    PROVE  SpreadInv'
<1>1. WentTo(rel) /\ Extends /\ UNCHANGED status
  BY WentPlaces DEF WentTo
<1>2. out' = out /\ Anchors' = Anchors /\ \A a \in Anchors : Lies(a)' = Lies(a)
  BY <1>1, StaysOut, LiesKept
<1>3. DOMAIN stage' = DOMAIN stage /\ \A p \in DOMAIN stage : stage'[p].from = stage[p].from
  BY PointedDomain, PointedEntry DEF SettledAt, IInv, ShapeInv
<1>4. HostsApart'
  BY <1>2 DEF HostsApart, TreeOf, SpreadInv
<1>5. ASSUME Going', ~TreeOverComponent' PROVE RootKept'
  <2>1. Going /\ ~TreeOverComponent
    BY <1>1, <1>5, OverKept DEF Going
  <2>2. Lies(RootAbs) \subseteq DOMAIN stage /\ RootKept
    BY <2>1 DEF SpreadInv, Anchors
  <2>3. ASSUME NEW d \in CopiedDirs(RootAbs) PROVE Rel(RootAbs, d) \in DOMAIN stage
    BY <2>2, RootLies
  <2> QED BY <1>3, <2>2, <2>3 DEF RootKept
<1> QED BY <1>1, <1>2, <1>3, <1>4, <1>5 DEF SpreadInv, Going

LEMMA CopyKeepsSpread ==
    ASSUME IInv, AnchorInv, SpreadInv, NEW rel,
           SettledAt(rel, Copy(stage, Target, rel)), Copied(rel)
    PROVE  SpreadInv'
<1>1. WentTo(rel) /\ Sound /\ Extends /\ UNCHANGED status
  BY WentPlaces DEF WentTo
<1>2. status = "closing" /\ Going /\ Going' /\ status' # "staging"
  BY <1>1 DEF Sound, Calling, Going
<1>3. PICK t \in Dirs : t = Target /\ CallTree = TreeOf(t)
  BY <1>1, SoundTarget
<1>4. /\ rel \in Seq(BundleName) /\ Anchors' = Anchors \cup {t}
      /\ placed'[t] = rel /\ \A a \in Anchors : Lies(a)' = Lies(a)
  BY <1>1, <1>3, WentPlaces, CopiedHome, CopiedAnchors, LiesKept
<1>5. Lies(t)' = Spread(t, rel)
  BY <1>4 DEF Lies, Spread
<1>6. PICK old, st :
        /\ old = stage /\ st = Copy(old, t, rel) /\ IsStage(old) /\ IsStage(st)
        /\ stage' = Pointed(st, rel)
  BY <1>3, CopyIsStage DEF IInv, ShapeInv, SettledAt
<1>7. /\ DOMAIN stage' = DOMAIN stage \cup Spread(t, rel)
      /\ \A p \in DOMAIN stage : p \notin Spread(t, rel) => stage'[p].from = stage[p].from
  <2>1. /\ DOMAIN st = DOMAIN old \cup Spread(t, rel)
        /\ \A p \in DOMAIN old : p \notin Spread(t, rel) => st[p] = old[p]
    <3>1. st = Copy(old, t, rel)
      BY <1>6
    <3>2. /\ DOMAIN Copy(old, t, rel) = DOMAIN old \cup Spread(t, rel)
          /\ \A p \in DOMAIN old : p \notin Spread(t, rel) => Copy(old, t, rel)[p] = old[p]
      BY CopyMakes
    <3> QED BY <3>1, <3>2
  <2>2. DOMAIN stage' = DOMAIN st /\ \A p \in DOMAIN st : stage'[p].from = st[p].from
    BY <1>6, PointedDomain, PointedEntry
  <2>3. DOMAIN stage' = DOMAIN old \cup Spread(t, rel)
    BY <2>1, <2>2
  <2>4. ASSUME NEW p \in DOMAIN old, p \notin Spread(t, rel) PROVE stage'[p].from = old[p].from
    <3>1. st[p] = old[p] /\ p \in DOMAIN st
      BY <2>1, <2>4
    <3> QED BY <2>2, <3>1
  <2> QED BY <1>6, <2>3, <2>4
<1>8. \A a \in Anchors : Lies(a) \subseteq DOMAIN stage
  BY <1>2 DEF SpreadInv
<1>9. ASSUME CallTree = NoTree, NEW p \in Spread(t, rel) PROVE p \notin DOMAIN stage
  BY <1>1, <1>3, <1>9, FreshSpread
<1>10. HostsApart'
  <2>1. ASSUME TreeOf(t) = NoTree, NEW a \in Anchors PROVE Lies(a) \cap Spread(t, rel) = {}
    BY <1>3, <1>8, <1>9, <2>1
  <2> SUFFICES ASSUME NEW a \in Anchors', NEW b \in Anchors', a # b,
                      TreeOf(a) = NoTree, TreeOf(b) = NoTree
               PROVE  Lies(a)' \cap Lies(b)' = {}
    BY TreesStay DEF HostsApart
  <2>2. CASE a \in Anchors /\ b \in Anchors
    BY <1>4, <2>2 DEF SpreadInv, HostsApart
  <2>3. CASE a = t /\ b \in Anchors
    BY <1>4, <1>5, <2>1, <2>3
  <2>4. CASE b = t /\ a \in Anchors
    BY <1>4, <1>5, <2>1, <2>4
  <2> QED BY <1>4, <2>2, <2>3, <2>4
<1>11. ASSUME ~TreeOverComponent' PROVE RootKept'
  <2>1. ~TreeOverComponent
    BY <1>1, <1>11, OverKept
  <2>2. Lies(RootAbs) \subseteq DOMAIN stage /\ RootKept
    BY <1>2, <2>1 DEF SpreadInv, Anchors
  <2>3. ASSUME NEW d \in CopiedDirs(RootAbs)
        PROVE  Rel(RootAbs, d) \in DOMAIN stage /\ Rel(RootAbs, d) \notin Spread(t, rel)
    <3>1. Rel(RootAbs, d) \in DOMAIN stage
      BY <2>2, RootLies
    <3>2. CASE CallTree = NoTree
      BY <1>9, <3>1, <3>2
    <3>3. CASE CallTree # NoTree
      BY <1>1, <1>3, <1>11, <3>1, <3>3, NotOver
    <3> QED BY <3>1, <3>2, <3>3
  <2> QED BY <1>7, <2>2, <2>3 DEF RootKept
<1>12. ASSUME NEW p \in DOMAIN stage' PROVE \E a \in Anchors' : p \in Lies(a)'
  <2>1. CASE p \in DOMAIN stage
    BY <1>4, <2>1 DEF SpreadInv
  <2>2. CASE p \in Spread(t, rel)
    BY <1>4, <1>5, <2>2
  <2> QED BY <1>7, <2>1, <2>2
<1>13. ASSUME NEW a \in Anchors' PROVE Lies(a)' \subseteq DOMAIN stage'
  <2>1. CASE a \in Anchors
    BY <1>4, <1>7, <1>8, <2>1
  <2>2. CASE a = t
    BY <1>5, <1>7, <2>2
  <2> QED BY <1>4, <2>1, <2>2
<1> QED BY <1>2, <1>10, <1>11, <1>12, <1>13 DEF SpreadInv

LEMMA AnchorsRest ==
    ASSUME AnchorInv, UNCHANGED <<placed, used, out>>, IsFiniteSet(DOMAIN stage')
    PROVE  AnchorInv'
<1>1. Anchors' = Anchors /\ OutInv'
  BY DEF Anchors, OutInv, AnchorInv
<1>2. \A a, d : AnchoredAt(a, d) => AnchoredAt(a, d)'
  BY TreesStay DEF AnchoredAt
<1> QED BY <1>1, <1>2 DEF AnchorInv

LEMMA HomesKept == Spec => [](IInv /\ AnchorInv /\ SpreadInv)
<1>1. Init => AnchorInv /\ SpreadInv
  <2> SUFFICES ASSUME Init PROVE AnchorInv /\ SpreadInv
    OBVIOUS
  <2>1. /\ DOMAIN stage = {} /\ DOMAIN placed = {RootAbs} /\ placed[RootAbs] = <<>>
        /\ used = {<<>>} /\ out = <<>> /\ status = "staging"
    BY DEF Init
  <2>2. Anchors = {RootAbs} /\ OutInv
    BY <2>1 DEF Anchors, OutInv
  <2>3. AnchoredAt(RootAbs, RootAbs)
    <3>1. Inside(RootAbs, RootAbs) /\ Rel(RootAbs, RootAbs) = <<>>
      BY RelSelf, RootAssumption
    <3>2. <<>> \o <<>> = <<>>
      OBVIOUS
    <3> QED BY <2>1, <3>1, <3>2 DEF AnchoredAt
  <2>4. IsFiniteSet(DOMAIN stage) /\ IsFiniteSet(used)
    BY <2>1, FS_EmptySet, FS_Singleton
  <2>5. AnchorInv
    BY <2>1, <2>2, <2>3, <2>4 DEF AnchorInv
  <2>6. SpreadInv
    BY <2>1, <2>2 DEF SpreadInv, HostsApart, Going
  <2> QED BY <2>5, <2>6
<1>2. IInv /\ AnchorInv /\ SpreadInv /\ [Next]_vars => AnchorInv' /\ SpreadInv'
  <2> SUFFICES ASSUME IInv, AnchorInv, SpreadInv, [Next]_vars PROVE AnchorInv' /\ SpreadInv'
    OBVIOUS
  <2>1. CASE Rests
    <3>1. UNCHANGED <<placed, used, out>> /\ IsFiniteSet(DOMAIN stage')
      BY <2>1 DEF Rests, AnchorInv
    <3>2. AnchorInv'
      BY <3>1, AnchorsRest
    <3> QED BY <2>1, <3>2, RestKeepsSpread
  <2>2. CASE RootStaged
    <3>1. UNCHANGED <<placed, used, out>> /\ stage' = Copy(stage, RootAbs, <<>>)
      BY <2>2 DEF RootStaged
    <3>2. IsFiniteSet(DOMAIN stage')
      <4>1. PICK home \in Seq(BundleName) : home = <<>>
        BY EmptySeqIsSeq
      <4>2. DOMAIN stage' = DOMAIN stage \cup Spread(RootAbs, home)
        BY <3>1, <4>1, CopyMakes, RootAssumption
      <4> QED BY <4>2, SpreadIsFinite, RootAssumption, FS_Union DEF AnchorInv
    <3>3. AnchorInv'
      BY <3>1, <3>2, AnchorsRest
    <3> QED BY <2>2, <3>3, RootStagedKeepsSpread
  <2>3. CASE \E rel : WentTo(rel)
    BY <2>3, WentKeepsAnchors, StayKeepsSpread, CopyKeepsSpread DEF WentTo
  <2> QED BY <2>1, <2>2, <2>3, StepPlaces
<1> QED BY <1>1, <1>2, PackInv, PTL DEF Spec

(* A home that is not under an ignored name is where its anchor's copy     *)
(* brought the directory.                                                  *)
LEMMA CarriedByAnchor ==
    ASSUME IInv, AnchorInv, NEW d \in DOMAIN placed, ~UnderIgnored(placed[d])
    PROVE  \E a \in Anchors :
             /\ a \in Dirs /\ placed[a] \in Seq(BundleName)
             /\ d \in CopiedDirs(a) /\ placed[d] = placed[a] \o Rel(a, d) /\ TreeOf(d) = TreeOf(a)
<1>1. DOMAIN placed \subseteq Dirs
  BY DEF IInv, PlacedInv
<1>2. PICK a \in Anchors : AnchoredAt(a, d)
  BY DEF AnchorInv
<1>3. a \in Dirs /\ placed[a] \in Seq(BundleName) /\ Inside(a, d)
  BY <1>1, <1>2 DEF AnchorInv, AnchoredAt
<1>4. Rel(a, d) \in Seq(BundleName) /\ Len(a) \in Nat /\ Len(d) \in Nat
  BY <1>1, <1>3, RelIsPath, DirsAssumption
<1>5. ASSUME NEW i \in (Len(a) + 1) .. Len(d) PROVE d[i] \notin Ignored
  <2>1. i - Len(a) \in 1 .. Len(Rel(a, d)) /\ Rel(a, d)[i - Len(a)] = d[i]
    BY <1>1, <1>4, DirsAssumption DEF Rel
  <2>2. /\ Len(placed[a]) + (i - Len(a)) \in DOMAIN placed[d]
        /\ placed[d][Len(placed[a]) + (i - Len(a))] = Rel(a, d)[i - Len(a)]
    BY <1>2, <1>3, <1>4, <2>1 DEF AnchoredAt
  <2> QED BY <2>1, <2>2 DEF UnderIgnored
<1>6. d \in CopiedDirs(a)
  BY <1>1, <1>3, <1>5 DEF CopiedDirs
<1> QED BY <1>2, <1>3, <1>6 DEF AnchoredAt

(* Two directories of the host share no home that copies carry, and what   *)
(* is vendored lands beside the component's own directories.               *)
THEOREM HostHomesAreApart == Spec => []HomesAreApart
<1>1. IInv /\ AnchorInv /\ SpreadInv => HomesAreApart
  <2> SUFFICES ASSUME IInv, AnchorInv, SpreadInv PROVE HomesAreApart
    OBVIOUS
  <2>1. ASSUME NEW d \in DOMAIN placed, NEW e \in DOMAIN placed,
               placed[d] = placed[e], ~UnderIgnored(placed[d]),
               TreeOf(d) = NoTree, TreeOf(e) = NoTree
        PROVE  d = e
    <3>1. PICK a \in Anchors :
            /\ a \in Dirs /\ placed[a] \in Seq(BundleName)
            /\ d \in CopiedDirs(a) /\ placed[d] = placed[a] \o Rel(a, d) /\ TreeOf(d) = TreeOf(a)
      BY <2>1, CarriedByAnchor
    <3>2. PICK b \in Anchors :
            /\ b \in Dirs /\ placed[b] \in Seq(BundleName)
            /\ e \in CopiedDirs(b) /\ placed[e] = placed[b] \o Rel(b, e) /\ TreeOf(e) = TreeOf(b)
      BY <2>1, CarriedByAnchor
    <3>3. placed[d] \in Lies(a) /\ placed[d] \in Lies(b)
      BY <2>1, <3>1, <3>2 DEF Lies, Spread
    <3>4. a = b
      BY <2>1, <3>1, <3>2, <3>3 DEF SpreadInv, HostsApart
    <3> QED BY <2>1, <3>1, <3>2, <3>4, LandsOnce, CopiedAreInside
  <2>2. ASSUME Going, ~TreeOverComponent, NEW d \in CopiedDirs(RootAbs)
        PROVE  Rel(RootAbs, d) \in DOMAIN stage /\ stage[Rel(RootAbs, d)].from = d
    BY <2>2, RootLies DEF SpreadInv, RootKept, Anchors
  <2> QED BY <2>1, <2>2 DEF HomesAreApart, Going
<1> QED BY <1>1, HomesKept, PTL

-----------------------------------------------------------------------------
(* What the calls of the packed modules say.                               *)

(* In the stage st, with the homes pl: the call numbered i of the module f *)
(* leads to where its target has its home.                                 *)
LeadsIn(st, pl, f, i) ==
    LET t == TargetOf(f, disk[f].calls[i]) IN
    /\ t \in DOMAIN pl
    /\ st[pl[f]].calls[i] = Local(RelativeSource(pl[f], pl[t]))
(* A call that was looked at: all those of a module walked before, and of  *)
(* the module at hand, c, those before the n-th.                           *)
Done(W, c, n, f, i) == f \in W /\ (f = c => i < n)
(* A call that was looked at leads home where its module is at home; every *)
(* other one is as it is on disk.                                          *)
Reads(st, pl, W, c, n, p, f, i) ==
    IF f \in DOMAIN pl /\ p = pl[f] /\ Done(W, c, n, f, i)
      THEN LeadsIn(st, pl, f, i) ELSE st[p].calls[i] = disk[f].calls[i]
ReadsRight(st, pl, W, c, n) ==
    \A p \in DOMAIN st :
        /\ DOMAIN st[p].calls = DOMAIN disk[st[p].from].calls
        /\ ~UnderIgnored(p) =>
             \A i \in DOMAIN disk[st[p].from].calls : Reads(st, pl, W, c, n, p, st[p].from, i)
Unmoved(st, pl, A) ==
    \A a \in A : \A f \in CopiedDirs(a) : st[pl[a] \o Rel(a, f)].from = f

CallsInv ==
    /\ status = "staging" => walked = {}
    /\ Going /\ ~Overlaid =>
         /\ Unmoved(stage, placed, Anchors)
         /\ ReadsRight(stage, placed, walked, cur.abs, k)

(* The copy that has a home as its path is of the directory it is home of. *)
LEMMA HomeHolds ==
    ASSUME IInv, AnchorInv, Unmoved(stage, placed, Anchors),
           NEW d \in DOMAIN placed, ~UnderIgnored(placed[d])
    PROVE  stage[placed[d]].from = d
<1>1. PICK a \in Anchors : d \in CopiedDirs(a) /\ placed[d] = placed[a] \o Rel(a, d)
  BY CarriedByAnchor
<1> QED BY <1>1 DEF Unmoved

(* Pointing a call at rel changes that call and nothing else.              *)
LEMMA PointedCalls ==
    ASSUME NEW st, IsStage(st), NEW rel, NeedsRewrite(rel) => Rewritable(st)
    PROVE  /\ \A p \in DOMAIN st : p # cur.rel => Pointed(st, rel)[p] = st[p]
           /\ \A p \in DOMAIN st :
                /\ DOMAIN Pointed(st, rel)[p].calls = DOMAIN st[p].calls
                /\ \A i \in DOMAIN st[p].calls : i # k => Pointed(st, rel)[p].calls[i] = st[p].calls[i]
           /\ cur.rel \in DOMAIN st /\ k \in DOMAIN st[cur.rel].calls
              /\ st[cur.rel].calls[k] = Call => Pointed(st, rel)[cur.rel].calls[k] = Rewritten(rel)
<1>1. CASE ~NeedsRewrite(rel)
  BY <1>1 DEF Pointed, NeedsRewrite
<1>2. CASE NeedsRewrite(rel)
  <2>1. /\ Pointed(st, rel) = [st EXCEPT ![cur.rel].calls[k] = Rewritten(rel)]
        /\ cur.rel \in DOMAIN st /\ k \in DOMAIN st[cur.rel].calls
        /\ DOMAIN st[cur.rel] = {"from", "file", "calls"}
    BY <1>2 DEF Pointed, Rewritable, IsStage
  <2>2. /\ Pointed(st, rel)[cur.rel].calls = [st[cur.rel].calls EXCEPT ![k] = Rewritten(rel)]
        /\ \A p \in DOMAIN st : p # cur.rel => Pointed(st, rel)[p] = st[p]
    BY <2>1
  <2>3. /\ DOMAIN Pointed(st, rel)[cur.rel].calls = DOMAIN st[cur.rel].calls
        /\ \A i \in DOMAIN st[cur.rel].calls :
             i # k => Pointed(st, rel)[cur.rel].calls[i] = st[cur.rel].calls[i]
        /\ Pointed(st, rel)[cur.rel].calls[k] = Rewritten(rel)
    BY <2>1, <2>2
  <2> QED BY <2>2, <2>3
<1> QED BY <1>1, <1>2

(* Once the call at hand is pointed at the target's home, one more call    *)
(* leads home, and every other reads as it did.                            *)
LEMMA PointReads ==
    ASSUME disk \in Worlds, NEW st, IsStage(st), NEW rel, NeedsRewrite(rel) => Rewritable(st),
           NEW pl, NEW pl2, NEW W, NEW c \in W, NEW n \in Nat, NEW t,
           c = cur.abs, n = k, t = Target,
           ReadsRight(st, pl, W, c, n),
           W \subseteq DOMAIN pl, pl[c] = cur.rel, DOMAIN pl \subseteq Dirs,
           DOMAIN pl2 = DOMAIN pl \cup {t}, pl2[t] = rel, \A d \in DOMAIN pl : pl2[d] = pl[d],
           cur.rel \in DOMAIN st /\ ~UnderIgnored(cur.rel) => st[cur.rel].from = c
    PROVE  ReadsRight(Pointed(st, rel), pl2, W, c, n + 1)
<1>1. PICK new : new = Pointed(st, rel)
  OBVIOUS
<1>2. DOMAIN new = DOMAIN st /\ \A p \in DOMAIN st : new[p].from = st[p].from
  BY <1>1, PointedDomain, PointedEntry
<1>3. /\ \A p \in DOMAIN st : p # cur.rel => new[p] = st[p]
      /\ \A p \in DOMAIN st :
           /\ DOMAIN new[p].calls = DOMAIN st[p].calls
           /\ \A i \in DOMAIN st[p].calls : i # k => new[p].calls[i] = st[p].calls[i]
      /\ cur.rel \in DOMAIN st /\ k \in DOMAIN st[cur.rel].calls
         /\ st[cur.rel].calls[k] = Call => new[cur.rel].calls[k] = Rewritten(rel)
  BY <1>1, PointedCalls
<1>4. SUFFICES ASSUME NEW p \in DOMAIN st, NEW f, f = st[p].from, ~UnderIgnored(p),
                      NEW i \in DOMAIN disk[f].calls
               PROVE  Reads(new, pl2, W, c, n + 1, p, f, i)
  <2>1. ASSUME NEW p \in DOMAIN st
        PROVE  /\ DOMAIN new[p].calls = DOMAIN disk[new[p].from].calls
               /\ ~UnderIgnored(p) => \A i \in DOMAIN disk[new[p].from].calls :
                                        Reads(new, pl2, W, c, n + 1, p, new[p].from, i)
    <3>1. PICK f : f = st[p].from /\ f = new[p].from
      BY <1>2
    <3>2. DOMAIN new[p].calls = DOMAIN disk[f].calls
      BY <1>3, <3>1 DEF ReadsRight
    <3>3. ~UnderIgnored(p) => \A i \in DOMAIN disk[f].calls : Reads(new, pl2, W, c, n + 1, p, f, i)
      BY <1>4, <3>1
    <3> QED BY <3>1, <3>2, <3>3
  <2> QED BY <1>1, <1>2, <2>1 DEF ReadsRight
<1>5. i \in DOMAIN st[p].calls /\ Reads(st, pl, W, c, n, p, f, i)
  BY <1>4 DEF ReadsRight
<1>6. i \in Nat
  <2>1. f \in Dirs
    BY <1>4 DEF IsStage
  <2>2. PICK m \in Nat : DOMAIN disk[f].calls = 1 .. m
    BY <2>1, CallNumbers
  <2> QED BY <1>4, <2>2
<1>7. CASE ~(f = c /\ i = n /\ p = cur.rel)
  <2>1. new[p].calls[i] = st[p].calls[i]
    <3>1. CASE p # cur.rel
      BY <1>3, <1>4, <3>1
    <3>2. CASE p = cur.rel
      <4>1. i # k
        BY <1>4, <1>7, <3>2
      <4> QED BY <1>3, <1>4, <1>5, <4>1
    <3> QED BY <3>1, <3>2
  <2>2. CASE f \in DOMAIN pl /\ p = pl[f] /\ Done(W, c, n, f, i)
    <3>1. PICK u : u = TargetOf(f, disk[f].calls[i])
      OBVIOUS
    <3>2. u \in DOMAIN pl /\ st[p].calls[i] = Local(RelativeSource(p, pl[u]))
      BY <1>5, <2>2, <3>1 DEF Reads, LeadsIn
    <3>3. p = pl2[f] /\ u \in DOMAIN pl2 /\ pl2[u] = pl[u] /\ f \in DOMAIN pl2
      BY <2>2, <3>2
    <3>4. new[p].calls[i] = Local(RelativeSource(p, pl2[u]))
      BY <2>1, <3>2, <3>3
    <3>5. Done(W, c, n + 1, f, i)
      BY <1>6, <2>2 DEF Done
    <3>6. LeadsIn(new, pl2, f, i)
      BY <3>1, <3>3, <3>4 DEF LeadsIn
    <3> QED BY <3>3, <3>5, <3>6 DEF Reads
  <2>3. CASE ~(f \in DOMAIN pl /\ p = pl[f] /\ Done(W, c, n, f, i))
    <3>1. new[p].calls[i] = disk[f].calls[i]
      BY <1>5, <2>1, <2>3 DEF Reads
    <3>2. ~(f \in DOMAIN pl2 /\ p = pl2[f] /\ Done(W, c, n + 1, f, i))
      <4> SUFFICES ASSUME f \in DOMAIN pl2, p = pl2[f], Done(W, c, n + 1, f, i) PROVE FALSE
        OBVIOUS
      <4>1. f \in W /\ (f = c => i < n + 1)
        BY DEF Done
      <4>2. f \in DOMAIN pl /\ p = pl[f]
        BY <4>1
      <4>3. f = c /\ ~(i < n)
        BY <2>3, <4>1, <4>2 DEF Done
      <4>4. i = n /\ p = cur.rel
        BY <1>6, <4>1, <4>2, <4>3
      <4> QED BY <1>7, <4>3, <4>4
    <3> QED BY <3>1, <3>2 DEF Reads
  <2> QED BY <2>2, <2>3
<1>8. CASE f = c /\ i = n /\ p = cur.rel
  <2>1. c \in DOMAIN pl /\ c \in DOMAIN pl2 /\ p = pl[c] /\ p = pl2[c]
    BY <1>8
  <2>2. ~Done(W, c, n, f, i)
    BY <1>8 DEF Done
  <2>3. st[p].calls[i] = Call
    BY <1>5, <1>8, <2>2 DEF Reads, Call
  <2>4. new[p].calls[i] = Rewritten(rel)
    BY <1>3, <1>4, <1>5, <1>8, <2>3
  <2>5. TargetOf(f, disk[f].calls[i]) = t
    BY <1>8 DEF Target, Call
  <2>6. Rewritten(rel) = Local(RelativeSource(p, pl2[t]))
    BY <1>8 DEF Rewritten
  <2>7. LeadsIn(new, pl2, f, i)
    BY <1>8, <2>1, <2>4, <2>5, <2>6 DEF LeadsIn
  <2>8. Done(W, c, n + 1, f, i)
    BY <1>8 DEF Done
  <2> QED BY <1>8, <2>1, <2>7, <2>8 DEF Reads
<1> QED BY <1>7, <1>8

(* A bundle once overlaid stays overlaid.                                  *)
LEMMA OverlaidKept ==
    ASSUME IInv, AnchorInv, NEW rel, WentTo(rel), ~Overlaid'
    PROVE  ~Overlaid
<1>1. ~CopiedOver' /\ ~TreeOverComponent'
  BY DEF Overlaid
<1>2. DOMAIN out \subseteq DOMAIN out' /\ \A i \in DOMAIN out : out'[i] = out[i]
  BY WentPlaces, StaysOut, CopiedOut DEF WentTo
<1>4. ~TreeOverComponent
  BY <1>1, OverKept
<1>5. ~CopiedOver
  <2> SUFFICES ASSUME NEW i \in DOMAIN out, NEW j \in DOMAIN out, i < j PROVE Landed(i) \cap Landed(j) = {}
    BY DEF CopiedOver
  <2>1. Landed(i)' = Landed(i) /\ Landed(j)' = Landed(j)
    BY <1>2 DEF Landed
  <2> QED BY <1>1, <1>2, <2>1 DEF CopiedOver
<1> QED BY <1>4, <1>5 DEF Overlaid

(* The module at hand, when it makes a call.                               *)
LEMMA AtHand ==
    ASSUME IInv, WalkInv, Sound
    PROVE  /\ status = "closing" /\ cur.abs \in walked /\ walked \subseteq DOMAIN placed
           /\ placed[cur.abs] = cur.rel /\ k \in Nat /\ disk \in Worlds /\ DOMAIN placed \subseteq Dirs
<1>1. status = "closing" /\ k \in DOMAIN disk[cur.abs].calls
  BY DEF Sound, Calling
<1>2. PICK n \in Nat : DOMAIN disk[cur.abs].calls = 1 .. n
  BY CurAtHome, CallNumbers DEF IInv, ShapeInv
<1>3. k > 0
  BY <1>1, <1>2
<1> QED BY <1>1, <1>3, CurAtHome DEF WalkInv, IInv, ShapeInv, PlacedInv, ModulesInv

LEMMA UnmovedKept ==
    ASSUME AnchorInv, Extends, Unmoved(stage, placed, Anchors), NEW new,
           \A a \in Anchors : Lies(a) \subseteq DOMAIN stage,
           \A p \in DOMAIN stage : new[p].from = stage[p].from
    PROVE  Unmoved(new, placed', Anchors)
<1> SUFFICES ASSUME NEW a \in Anchors, NEW f \in CopiedDirs(a)
             PROVE  new[placed'[a] \o Rel(a, f)].from = f
  BY DEF Unmoved
<1>1. placed'[a] = placed[a]
  BY DEF AnchorInv, Extends
<1>2. PICK p : p = placed[a] \o Rel(a, f)
  OBVIOUS
<1>3. p \in DOMAIN stage
  BY <1>2 DEF Lies, Spread
<1>4. stage[p].from = f
  BY <1>2 DEF Unmoved
<1> QED BY <1>1, <1>2, <1>3, <1>4

LEMMA StayKeepsCalls ==
    ASSUME IInv, WalkInv, AnchorInv, SpreadInv, CallsInv,
           NEW rel, SettledAt(rel, stage), Stays(rel)
    PROVE  CallsInv'
<1>1. /\ WentTo(rel) /\ Sound /\ Extends /\ UNCHANGED <<disk, walked, cur, status>> /\ k' = k + 1
      /\ DOMAIN placed' = DOMAIN placed \cup {Target} /\ placed'[Target] = rel
  BY WentPlaces DEF WentTo
<1>2. /\ status = "closing" /\ cur.abs \in walked /\ walked \subseteq DOMAIN placed
      /\ placed[cur.abs] = cur.rel /\ k \in Nat /\ disk \in Worlds /\ DOMAIN placed \subseteq Dirs
  BY <1>1, AtHand
<1> SUFFICES ASSUME ~Overlaid'
             PROVE  /\ Unmoved(stage', placed', Anchors')
                    /\ ReadsRight(stage', placed', walked, cur.abs, k + 1)
  BY <1>1, <1>2 DEF CallsInv, ReadsRight, Reads, LeadsIn, Done, Unmoved
<1>3. /\ ~Overlaid /\ Unmoved(stage, placed, Anchors)
      /\ ReadsRight(stage, placed, walked, cur.abs, k)
  BY <1>1, <1>2, OverlaidKept DEF Overlaid, CallsInv, Going
<1>4. PICK old, t : old = stage /\ t = Target
  OBVIOUS
<1>5. stage' = Pointed(old, rel) /\ IsStage(old) /\ (NeedsRewrite(rel) => Rewritable(old))
  BY <1>4 DEF SettledAt, IInv, ShapeInv
<1>6. Unmoved(stage', placed', Anchors')
  <2>1. \A p \in DOMAIN stage : stage'[p].from = stage[p].from
    BY <1>4, <1>5, PointedEntry
  <2>2. Anchors' = Anchors /\ \A a \in Anchors : Lies(a) \subseteq DOMAIN stage
    BY <1>2, StaysOut DEF SpreadInv, Going
  <2>3. PICK new : new = stage'
    OBVIOUS
  <2>4. Unmoved(new, placed', Anchors)
    BY <1>1, <1>3, <2>1, <2>2, <2>3, UnmovedKept
  <2> QED BY <2>2, <2>3, <2>4
<1>7. cur.rel \in DOMAIN old /\ ~UnderIgnored(cur.rel) => old[cur.rel].from = cur.abs
  BY <1>2, <1>3, <1>4, HomeHolds
<1>8. PICK pl, pl2, W, c, n : pl = placed /\ pl2 = placed' /\ W = walked /\ c = cur.abs /\ n = k
  OBVIOUS
<1>9. ReadsRight(old, pl, W, c, n)
  BY <1>3, <1>4, <1>8
<1>10. /\ DOMAIN pl2 = DOMAIN pl \cup {t} /\ pl2[t] = rel /\ \A d \in DOMAIN pl : pl2[d] = pl[d]
       /\ c \in W /\ W \subseteq DOMAIN pl /\ pl[c] = cur.rel /\ n \in Nat
       /\ disk \in Worlds /\ DOMAIN pl \subseteq Dirs
       /\ cur.rel \in DOMAIN old /\ ~UnderIgnored(cur.rel) => old[cur.rel].from = c
  BY <1>1, <1>2, <1>4, <1>7, <1>8 DEF Extends
<1>11. ReadsRight(Pointed(old, rel), pl2, W, c, n + 1)
  BY <1>4, <1>5, <1>8, <1>9, <1>10, PointReads
<1> QED BY <1>5, <1>6, <1>8, <1>11

(* A copy that lies over no other lands where nothing is staged.           *)
LEMMA LandsApart ==
    ASSUME IInv, AnchorInv, SpreadInv, NEW rel, SettledAt(rel, Copy(stage, Target, rel)), Copied(rel),
           ~Overlaid', NEW p \in DOMAIN stage
    PROVE  p \notin Spread(Target, rel)
<1>1. Sound /\ Target \in Dirs /\ rel \in Seq(BundleName)
  BY SoundTarget, CopiedHome DEF SettledAt
<1>2. CASE CallTree = NoTree
  BY <1>1, <1>2, FreshSpread
<1>3. CASE CallTree # NoTree
  <2>1. ~TreeOverComponent' /\ ~CopiedOver'
    BY DEF Overlaid
  <2>2. PICK a \in Anchors : p \in Lies(a)
    BY DEF SpreadInv
  <2>3. PICK d \in CopiedDirs(a) : p = placed[a] \o Rel(a, d)
    BY <2>2 DEF Lies, Spread
  <2>4. CASE a = RootAbs
    <3>1. Rel(RootAbs, d) \in Seq(Name) /\ placed[RootAbs] = <<>>
      BY <2>3, <2>4, CopiedAreInside, RelIsPath, RootAssumption DEF AnchorInv
    <3>2. p = Rel(RootAbs, d)
      BY <2>3, <2>4, <3>1, ConcatEmptySeq
    <3> QED BY <1>1, <1>3, <2>1, <2>3, <2>4, <3>2, NotOver
  <2>5. CASE \E i \in DOMAIN out : a = out[i].abs
    <3>1. PICK i \in DOMAIN out : a = out[i].abs
      BY <2>5
    <3>2. PICK last : /\ last = Len(out) + 1 /\ DOMAIN out' = DOMAIN out \cup {last}
                      /\ \A j \in DOMAIN out : out'[j] = out[j]
                      /\ out'[last].abs = Target /\ out'[last].into = rel
      BY <1>1, CopiedOut
    <3>3. i < last /\ i \in DOMAIN out' /\ last \in DOMAIN out'
      BY <3>1, <3>2 DEF AnchorInv, OutInv
    <3>4. Landed(i)' \cap Landed(last)' = {}
      BY <2>1, <3>3 DEF CopiedOver
    <3>5. Landed(last)' = Spread(Target, rel)
      BY <3>2 DEF Landed, Spread
    <3>6. p \in Landed(i)'
      <4>1. out'[i].abs = a /\ out'[i].into = placed[a]
        BY <3>1, <3>2 DEF AnchorInv, OutInv
      <4> QED BY <2>3, <4>1 DEF Landed
    <3> QED BY <3>4, <3>5, <3>6
  <2> QED BY <2>4, <2>5 DEF Anchors
<1> QED BY <1>2, <1>3

LEMMA CopyKeepsCalls ==
    ASSUME IInv, WalkInv, AnchorInv, SpreadInv, CallsInv,
           NEW rel, SettledAt(rel, Copy(stage, Target, rel)), Copied(rel)
    PROVE  CallsInv'
<1>1. /\ WentTo(rel) /\ Sound /\ Extends /\ UNCHANGED <<disk, walked, cur, status>> /\ k' = k + 1
      /\ DOMAIN placed' = DOMAIN placed \cup {Target} /\ placed'[Target] = rel
      /\ rel \in Seq(BundleName)
  BY WentPlaces, CopiedHome DEF WentTo
<1>2. /\ status = "closing" /\ cur.abs \in walked /\ walked \subseteq DOMAIN placed
      /\ placed[cur.abs] = cur.rel /\ k \in Nat /\ disk \in Worlds /\ DOMAIN placed \subseteq Dirs
  BY <1>1, AtHand
<1> SUFFICES ASSUME ~Overlaid'
             PROVE  /\ Unmoved(stage', placed', Anchors')
                    /\ ReadsRight(stage', placed', walked, cur.abs, k + 1)
  BY <1>1, <1>2 DEF CallsInv, ReadsRight, Reads, LeadsIn, Done, Unmoved
<1>3. /\ ~Overlaid /\ Unmoved(stage, placed, Anchors)
      /\ ReadsRight(stage, placed, walked, cur.abs, k)
  BY <1>1, <1>2, OverlaidKept DEF Overlaid, CallsInv, Going
<1>4. PICK t \in Dirs : t = Target
  BY <1>1, SoundTarget
<1>5. PICK old, st :
        /\ old = stage /\ st = Copy(old, t, rel) /\ IsStage(old) /\ IsStage(st)
        /\ stage' = Pointed(st, rel) /\ (NeedsRewrite(rel) => Rewritable(st))
  BY <1>4, CopyIsStage DEF IInv, ShapeInv, SettledAt
<1>6. \A p \in DOMAIN old : p \notin Spread(t, rel) /\ st[p] = old[p]
  <2>1. \A p \in DOMAIN old : p \notin Spread(t, rel)
    BY <1>4, <1>5, LandsApart
  <2>2. \A p \in DOMAIN old : p \notin Spread(t, rel) => st[p] = old[p]
    BY <1>5, CopyMakes
  <2> QED BY <2>1, <2>2
<1>7. DOMAIN st = DOMAIN old \cup Spread(t, rel)
  BY <1>5, CopyMakes
<1>8. ASSUME NEW d \in CopiedDirs(t) PROVE st[rel \o Rel(t, d)] = Fresh(d)
  <2>1. rel \o Rel(t, d) \notin DOMAIN old
    BY <1>6 DEF Spread
  <2>2. Copy(old, t, rel)[rel \o Rel(t, d)] = Fresh(d)
    BY <1>1, <2>1, CopyMakesFresh
  <2> QED BY <1>5, <2>2
<1>9. \A a \in Anchors : Lies(a) \subseteq DOMAIN stage
  BY <1>2 DEF SpreadInv, Going
(* A directory that has its home already is not the one copied to it.      *)
<1>10. ASSUME NEW d \in DOMAIN placed, ~UnderIgnored(placed[d]) PROVE placed[d] \notin Spread(t, rel)
  <2>1. PICK a \in Anchors : d \in CopiedDirs(a) /\ placed[d] = placed[a] \o Rel(a, d)
    BY <1>10, CarriedByAnchor
  <2>2. placed[d] \in DOMAIN old
    BY <1>5, <1>9, <2>1 DEF Lies, Spread
  <2> QED BY <1>6, <2>2
<1>11. Unmoved(stage', placed', Anchors')
  <2>1. PICK new : new = stage' /\ \A p \in DOMAIN st : new[p].from = st[p].from
    BY <1>5, PointedEntry
  <2>2. \A p \in DOMAIN stage : new[p].from = stage[p].from
    BY <1>5, <1>6, <1>7, <2>1
  <2>3. Unmoved(new, placed', Anchors)
    BY <1>1, <1>3, <1>9, <2>2, UnmovedKept
  <2>4. ASSUME NEW f \in CopiedDirs(t) PROVE new[placed'[t] \o Rel(t, f)].from = f
    <3>1. rel \o Rel(t, f) \in DOMAIN st
      BY <1>7 DEF Spread
    <3>2. st[rel \o Rel(t, f)].from = f
      BY <1>8, FreshFields
    <3> QED BY <1>1, <1>4, <2>1, <3>1, <3>2
  <2>5. Anchors' = Anchors \cup {t}
    BY <1>1, <1>4, CopiedAnchors
  <2> QED BY <2>1, <2>3, <2>4, <2>5 DEF Unmoved
<1>12. cur.rel \in DOMAIN st /\ ~UnderIgnored(cur.rel) => st[cur.rel].from = cur.abs
  <2> SUFFICES ASSUME cur.rel \in DOMAIN st, ~UnderIgnored(cur.rel) PROVE st[cur.rel].from = cur.abs
    OBVIOUS
  <2>1. cur.abs \in DOMAIN placed
    BY <1>2
  <2>2. cur.rel \in DOMAIN old
    BY <1>2, <1>7, <1>10, <2>1
  <2>3. stage[cur.rel].from = cur.abs
    BY <1>2, <1>3, <1>5, <2>1, <2>2, HomeHolds
  <2> QED BY <1>5, <1>6, <2>2, <2>3
<1>13. PICK pl, pl2, W, c, n : pl = placed /\ pl2 = placed' /\ W = walked /\ c = cur.abs /\ n = k
  OBVIOUS
<1>14. ReadsRight(old, pl, W, c, n)
  BY <1>3, <1>5, <1>13
<1>15. /\ DOMAIN pl2 = DOMAIN pl \cup {t} /\ pl2[t] = rel /\ \A d \in DOMAIN pl : pl2[d] = pl[d]
       /\ c \in W /\ W \subseteq DOMAIN pl /\ pl[c] = cur.rel /\ n \in Nat
       /\ disk \in Worlds /\ DOMAIN pl \subseteq Dirs
       /\ cur.rel \in DOMAIN st /\ ~UnderIgnored(cur.rel) => st[cur.rel].from = c
  BY <1>1, <1>2, <1>4, <1>12, <1>13 DEF Extends
<1>16. ReadsRight(st, pl, W, c, n)
  <2> SUFFICES ASSUME NEW p \in DOMAIN st, NEW f, f = st[p].from
               PROVE  /\ DOMAIN st[p].calls = DOMAIN disk[f].calls
                      /\ ~UnderIgnored(p) => \A i \in DOMAIN disk[f].calls : Reads(st, pl, W, c, n, p, f, i)
    BY DEF ReadsRight
  <2>1. CASE p \in DOMAIN old
    <3>1. st[p] = old[p] /\ f = old[p].from
      BY <1>6, <2>1
    <3>2. /\ DOMAIN old[p].calls = DOMAIN disk[f].calls
          /\ ~UnderIgnored(p) => \A i \in DOMAIN disk[f].calls : Reads(old, pl, W, c, n, p, f, i)
      BY <1>14, <2>1, <3>1 DEF ReadsRight
    <3> QED BY <3>1, <3>2 DEF Reads, LeadsIn
  <2>2. CASE p \in Spread(t, rel)
    <3>1. PICK d \in CopiedDirs(t) : p = rel \o Rel(t, d)
      BY <2>2 DEF Spread
    <3>2. st[p].from = d /\ st[p].calls = disk[d].calls
      BY <1>8, <3>1, FreshFields
    <3>3. ~UnderIgnored(p) => ~(f \in DOMAIN pl /\ p = pl[f])
      BY <1>10, <1>13, <2>2
    <3> QED BY <3>2, <3>3 DEF Reads
  <2> QED BY <1>7, <2>1, <2>2
<1>17. ReadsRight(Pointed(st, rel), pl2, W, c, n + 1)
  BY <1>4, <1>5, <1>13, <1>15, <1>16, PointReads
<1> QED BY <1>5, <1>11, <1>13, <1>17

LEMMA LoadKeepsDone ==
    ASSUME IInv, WalkInv, Loads, NEW f \in Dirs, NEW i \in DOMAIN disk[f].calls
    PROVE  Done(walked', cur'.abs, k', f, i) <=> Done(walked, cur.abs, k, f, i)
<1>1. PICK h : h = cur'.abs /\ k' = 1 /\ walked' = walked \cup {h} /\ h \notin walked
  BY DEF Loads
<1>2. PICK n \in Nat : DOMAIN disk[f].calls = 1 .. n
  BY CallNumbers DEF IInv, ShapeInv
<1>3. k \in Nat /\ k \notin DOMAIN disk[cur.abs].calls /\ (k = 0 => walked = {})
  BY DEF Loads, AtLoopHead, IInv, ShapeInv, WalkInv
<1>4. CASE f = h
  <2>1. ~(i < 1)
    BY <1>2
  <2> QED BY <1>1, <1>4, <2>1 DEF Done
<1>5. CASE f # h /\ f = cur.abs
  <2>1. k > 0 => i < k
    BY <1>2, <1>3, <1>5
  <2> QED BY <1>1, <1>3, <1>5, <2>1 DEF Done
<1>6. CASE f # h /\ f # cur.abs
  BY <1>1, <1>6 DEF Done
<1> QED BY <1>4, <1>5, <1>6

LEMMA RestKeepsCalls ==
    ASSUME IInv, WalkInv, CallsInv, Rests
    PROVE  CallsInv'
<1>1. /\ UNCHANGED <<disk, stage, placed, out>> /\ (Going' => Going)
      /\ UNCHANGED <<walked, cur, k>> \/ Loads
      /\ status' = "staging" => status = "staging"
  BY DEF Rests, Going
<1>2. Anchors' = Anchors /\ (Overlaid <=> Overlaid')
  BY <1>1 DEF Anchors, Overlaid, CopiedOver, TreeOverComponent, Landed, TreeOf
<1>3. status' = "staging" => walked' = {}
  BY <1>1 DEF CallsInv, Loads, AtLoopHead
<1>4. ASSUME NEW f \in Dirs, NEW i \in DOMAIN disk[f].calls
      PROVE  Done(walked', cur'.abs, k', f, i) <=> Done(walked, cur.abs, k, f, i)
  BY <1>1, LoadKeepsDone DEF Done
<1>5. ASSUME ReadsRight(stage, placed, walked, cur.abs, k)
      PROVE  ReadsRight(stage, placed, walked', cur'.abs, k')
  <2> SUFFICES ASSUME NEW p \in DOMAIN stage, NEW f, f = stage[p].from,
                      ~UnderIgnored(p), NEW i \in DOMAIN disk[f].calls
               PROVE  Reads(stage, placed, walked', cur'.abs, k', p, f, i)
    BY <1>5 DEF ReadsRight
  <2>1. f \in Dirs
    BY DEF IInv, ShapeInv, IsStage
  <2>2. Reads(stage, placed, walked, cur.abs, k, p, f, i)
    BY <1>5 DEF ReadsRight
  <2> QED BY <1>4, <2>1, <2>2 DEF Reads
<1>6. ASSUME Going', ~Overlaid'
      PROVE  Unmoved(stage, placed, Anchors) /\ ReadsRight(stage, placed, walked', cur'.abs, k')
  BY <1>1, <1>2, <1>5, <1>6 DEF CallsInv
<1>7. Unmoved(stage, placed, Anchors) => Unmoved(stage, placed, Anchors)'
  BY <1>1, <1>2 DEF Unmoved
<1>8. ReadsRight(stage, placed, walked', cur'.abs, k') => ReadsRight(stage, placed, walked, cur.abs, k)'
  BY <1>1 DEF ReadsRight, Reads, LeadsIn
<1> QED BY <1>3, <1>6, <1>7, <1>8 DEF CallsInv

LEMMA RootStagedKeepsCalls ==
    ASSUME IInv, AnchorInv, SpreadInv, CallsInv, RootStaged
    PROVE  CallsInv'
<1>1. /\ out = <<>> /\ DOMAIN stage = {} /\ UNCHANGED <<disk, placed, out, walked, cur, k>>
      /\ status' = "closing" /\ walked = {}
      /\ stage' = Copy(stage, RootAbs, <<>>) /\ placed[RootAbs] = <<>>
  BY DEF RootStaged, SpreadInv, AnchorInv, CallsInv
<1>2. Anchors' = {RootAbs}
  BY <1>1 DEF Anchors
<1>3. PICK home, old, new : home = <<>> /\ old = stage /\ new = stage'
  OBVIOUS
<1>4. home \in Seq(BundleName) /\ new = Copy(old, RootAbs, home) /\ DOMAIN old = {} /\ RootAbs \in Dirs
  BY <1>1, <1>3, EmptySeqIsSeq, RootAssumption
<1>5. DOMAIN new = Spread(RootAbs, home)
  <2>1. DOMAIN new = DOMAIN old \cup Spread(RootAbs, home)
    BY <1>4, CopyMakes
  <2> QED BY <1>4, <2>1
<1>6. ASSUME NEW d \in CopiedDirs(RootAbs) PROVE new[home \o Rel(RootAbs, d)] = Fresh(d)
  <2>1. home \o Rel(RootAbs, d) \notin DOMAIN old
    BY <1>4
  <2> QED BY <1>4, <2>1, CopyMakesFresh
<1>7. Unmoved(new, placed, {RootAbs})
  <2>1. placed[RootAbs] = home
    BY <1>1, <1>3
  <2>2. ASSUME NEW d \in CopiedDirs(RootAbs) PROVE new[home \o Rel(RootAbs, d)].from = d
    BY <1>6, FreshFields
  <2> QED BY <2>1, <2>2 DEF Unmoved
<1>8. ReadsRight(new, placed, {}, cur.abs, k)
  <2> SUFFICES ASSUME NEW p \in DOMAIN new, NEW f, f = new[p].from
               PROVE  /\ DOMAIN new[p].calls = DOMAIN disk[f].calls
                      /\ \A i \in DOMAIN disk[f].calls : Reads(new, placed, {}, cur.abs, k, p, f, i)
    BY DEF ReadsRight
  <2>1. PICK d \in CopiedDirs(RootAbs) : p = home \o Rel(RootAbs, d)
    BY <1>5 DEF Spread
  <2>2. new[p].from = d /\ new[p].calls = disk[d].calls
    BY <1>6, <2>1, FreshFields
  <2> QED BY <2>2 DEF Reads, Done
<1>9. Unmoved(stage, placed, Anchors)'
  BY <1>1, <1>2, <1>3, <1>7 DEF Unmoved
<1>10. ReadsRight(stage, placed, walked, cur.abs, k)'
  BY <1>1, <1>3, <1>8 DEF ReadsRight, Reads, LeadsIn
<1> QED BY <1>1, <1>9, <1>10 DEF CallsInv

LEMMA CallsKept == Spec => [](IInv /\ WalkInv /\ AnchorInv /\ SpreadInv /\ CallsInv)
<1>1. Init => CallsInv
  <2> SUFFICES ASSUME Init PROVE CallsInv
    OBVIOUS
  <2>1. status = "staging" /\ walked = {}
    BY DEF Init
  <2>2. ~Going
    BY <2>1 DEF Going
  <2> QED BY <2>1, <2>2 DEF CallsInv
<1>2. IInv /\ WalkInv /\ AnchorInv /\ SpreadInv /\ CallsInv /\ [Next]_vars => CallsInv'
  <2> SUFFICES ASSUME IInv, WalkInv, AnchorInv, SpreadInv, CallsInv, [Next]_vars PROVE CallsInv'
    OBVIOUS
  <2>1. CASE Rests
    BY <2>1, RestKeepsCalls
  <2>2. CASE RootStaged
    BY <2>2, RootStagedKeepsCalls
  <2>3. CASE \E rel : WentTo(rel)
    BY <2>3, StayKeepsCalls, CopyKeepsCalls DEF WentTo
  <2> QED BY <2>1, <2>2, <2>3, StepPlaces
<1> QED BY <1>1, <1>2, WalkKept, HomesKept, PTL DEF Spec

LEMMA WalkedCallLands ==
    ASSUME IInv, WalkInv, AnchorInv, SpreadInv, CallsInv, status = "packed", ~Overlaid,
           NEW d \in walked, Bundled(d), NEW i \in DOMAIN disk[d].calls
    PROVE  Lands(d, i) /\ TargetOf(d, disk[d].calls[i]) \in DOMAIN placed
<1>1. /\ Unmoved(stage, placed, Anchors)
      /\ ReadsRight(stage, placed, walked, cur.abs, k)
  BY DEF CallsInv, Going, Overlaid
<1>2. d \in DOMAIN placed /\ d \in Dirs /\ stage[placed[d]].from = d
      /\ placed[d] \in DOMAIN stage /\ ~UnderIgnored(placed[d])
  BY <1>1, HomeHolds DEF IInv, ModulesInv, PlacedInv, Bundled
<1>3. Done(walked, cur.abs, k, d, i)
  <2>1. PICK n \in Nat : DOMAIN disk[d].calls = 1 .. n
    BY <1>2, CallNumbers DEF IInv, ShapeInv
  <2>2. k \in Nat /\ k # 0 /\ k \notin DOMAIN disk[cur.abs].calls
    BY DEF WalkInv, IInv, ShapeInv
  <2>3. d = cur.abs => i < k
    BY <2>1, <2>2
  <2> QED BY <2>3 DEF Done
<1>4. PICK t : t = TargetOf(d, disk[d].calls[i])
  OBVIOUS
<1>5. t \in DOMAIN placed /\ stage[placed[d]].calls[i] = Local(RelativeSource(placed[d], placed[t]))
  BY <1>1, <1>2, <1>3, <1>4 DEF ReadsRight, Reads, LeadsIn
<1>6. PICK here, there, s :
        here = placed[d] /\ there = placed[t] /\ s = RelativeSource(here, there)
  OBVIOUS
<1>7. here \in Seq(BundleName) /\ there \in Seq(BundleName)
  BY <1>2, <1>5, <1>6, HomeIsPath
<1>8. ~Climbs(here, s.up) /\ JoinSource(here, s.up, s.down) = there
  BY <1>6, <1>7, RelativeSourceLeadsThere
<1>9. PICK c : c = stage[placed[d]].calls[i] /\ c.kind = "local" /\ c.up = s.up /\ c.down = s.down
  BY <1>5, <1>6 DEF Local
<1>10. Bundled(t) => stage[placed[t]].from = t
  BY <1>1, <1>5, HomeHolds DEF Bundled
<1> QED BY <1>4, <1>5, <1>6, <1>8, <1>9, <1>10 DEF Lands

(* In the packed tree, unless copies overlap, each call of each walked     *)
(* module that is in it stays inside and leads to the home of the module   *)
(* the original source named, where that module's own copy is.             *)
THEOREM EveryCallLands == Spec => []CallsLand
<1>1. IInv /\ WalkInv /\ AnchorInv /\ SpreadInv /\ CallsInv => CallsLand
  BY WalkedCallLands DEF CallsLand
<1> QED BY <1>1, CallsKept, PTL

-----------------------------------------------------------------------------
(* Content: what is staged has a file where its directory on disk has one, *)
(* what is walked parses, and whatever has a home is walked or waits.      *)

ContentInv ==
    /\ \A p \in DOMAIN stage : stage[p].file = disk[stage[p].from].file
    /\ \A d \in walked : disk[d].parses
    /\ \A d \in DOMAIN placed : Met(d)

LEMMA CopyKeepsFiles ==
    ASSUME NEW st, NEW a, NEW h, \A p \in DOMAIN st : st[p].file = disk[st[p].from].file
    PROVE  \A p \in DOMAIN Copy(st, a, h) :
             Copy(st, a, h)[p].file = disk[Copy(st, a, h)[p].from].file
<1> DEFINE Origin(p) == CHOOSE d \in CopiedDirs(a) : p = h \o Rel(a, d)
           Keeps(p) == p \in DOMAIN st /\ (p \in Spread(a, h) => ~disk[Origin(p)].file)
<1>1. Copy(st, a, h) =
        [p \in DOMAIN st \cup Spread(a, h) |-> IF Keeps(p) THEN st[p] ELSE Fresh(Origin(p))]
  BY CopyIs
<1>2. \A p : Fresh(Origin(p)).file = disk[Fresh(Origin(p)).from].file
  BY FreshFields
<1> HIDE DEF Origin
<1>3. ASSUME NEW p \in DOMAIN st \cup Spread(a, h)
      PROVE  Copy(st, a, h)[p].file = disk[Copy(st, a, h)[p].from].file
  <2>1. CASE Keeps(p)
    BY <1>1, <2>1
  <2>2. CASE ~Keeps(p)
    BY <1>1, <1>2, <2>2
  <2> QED BY <2>1, <2>2
<1>4. DOMAIN Copy(st, a, h) = DOMAIN st \cup Spread(a, h)
  BY CopyMakes
<1> QED BY <1>3, <1>4

LEMMA PointedKeepsFiles ==
    ASSUME NEW st, IsStage(st), NEW rel,
           \A p \in DOMAIN st : st[p].file = disk[st[p].from].file
    PROVE  \A p \in DOMAIN Pointed(st, rel) :
             Pointed(st, rel)[p].file = disk[Pointed(st, rel)[p].from].file
BY PointedDomain, PointedEntry

LEMMA StepParses ==
    ASSUME IInv, [Next]_vars, \A d \in walked : disk[d].parses
    PROVE  disk' = disk /\ \A d \in walked' : disk'[d].parses
<1>1. CASE LoadModule
  BY <1>1 DEF LoadModule, Refuse
<1>2. CASE OneCall
  <2>1. disk' = disk /\ walked' = walked
    BY <1>2, CallGoes DEF Halted, WentTo, SettledAt
  <2> QED BY <2>1
<1>3. CASE StageRoot \/ Cancelled \/ SkipWalked \/ Packed \/ UNCHANGED vars
  <2>1. disk' = disk /\ walked' = walked
    BY <1>3 DEF StageRoot, Cancelled, SkipWalked, Packed, Refuse, vars
  <2> QED BY <2>1
<1> QED BY <1>1, <1>2, <1>3 DEF Next, Step

LEMMA StepKeepsFiles ==
    ASSUME IInv, [Next]_vars, disk' = disk, ContentInv
    PROVE  \A p \in DOMAIN stage' : stage'[p].file = disk'[stage'[p].from].file
<1>1. PICK old : old = stage
  OBVIOUS
<1>2. IsStage(old) /\ \A p \in DOMAIN old : old[p].file = disk[old[p].from].file
  BY <1>1 DEF ContentInv, IInv, ShapeInv
<1>3. CASE Rests
  BY <1>3 DEF Rests, ContentInv
<1>4. CASE RootStaged
  <2>1. stage' = Copy(old, RootAbs, <<>>)
    BY <1>1, <1>4 DEF RootStaged
  <2> QED BY <1>2, <2>1, CopyKeepsFiles
<1>5. ASSUME NEW rel, WentTo(rel) PROVE \A p \in DOMAIN stage' : stage'[p].file = disk[stage'[p].from].file
  <2>1. PICK st : /\ stage' = Pointed(st, rel)
                  /\ st = old \/ st = Copy(old, Target, rel)
    BY <1>1, <1>5 DEF WentTo, SettledAt
  <2>2. IsStage(st) /\ \A p \in DOMAIN st : st[p].file = disk[st[p].from].file
    <3>1. CASE st = old
      BY <1>2, <3>1
    <3>2. CASE st = Copy(old, Target, rel)
      <4>1. disk \in Worlds
        BY DEF IInv, ShapeInv
      <4> QED BY <1>2, <3>2, <4>1, CopyIsStage, CopyKeepsFiles
    <3> QED BY <2>1, <3>1, <3>2
  <2> QED BY <2>1, <2>2, PointedKeepsFiles
<1> QED BY <1>3, <1>4, <1>5, StepPlaces

LEMMA StepKeepsMet ==
    ASSUME IInv, [Next]_vars, \A d \in DOMAIN placed : Met(d)
    PROVE  \A d \in DOMAIN placed' : Met(d)'
<1>1. queue \in Seq(Modules)
  BY DEF IInv, ModulesInv
<1>2. CASE Settled
  <2>1. PICK m : queue' = Append(queue, m) /\ m.abs = Target
    BY <1>2 DEF Settled
  <2>2. /\ \A i \in DOMAIN queue : i \in DOMAIN queue' /\ queue'[i] = queue[i]
        /\ \E j \in DOMAIN queue' : queue'[j] = m
    BY <1>1, <2>1, WaitingAfterAppend
  <2>3. walked' = walked /\ DOMAIN placed' = DOMAIN placed \cup {Target}
    BY <1>2 DEF Settled
  <2>4. \A e : Met(e) \/ e = Target => Met(e)'
    BY <2>1, <2>2, <2>3 DEF Met, Waits
  <2> QED BY <2>3, <2>4
<1>3. CASE SkipWalked \/ Loaded
  <2>1. /\ queue # <<>> /\ queue' = Tail(queue) /\ placed' = placed
        /\ walked \subseteq walked' /\ Head(queue).abs \in walked'
    BY <1>3 DEF SkipWalked, Loaded
  <2>2. \A i \in DOMAIN queue : queue[i] = Head(queue) \/ \E j \in DOMAIN queue' : queue'[j] = queue[i]
    BY <1>1, <2>1, WaitingAfterTail
  <2>3. \A e : Met(e) => Met(e)'
    BY <2>1, <2>2 DEF Met, Waits
  <2> QED BY <2>1, <2>3
<1>4. CASE Quiet \/ StagedRoot
  <2>1. UNCHANGED <<placed, queue, walked>>
    BY <1>4 DEF Quiet, StagedRoot
  <2> QED BY <2>1 DEF Met, Waits
<1> QED BY <1>2, <1>3, <1>4, StepIs

LEMMA ContentKept == Spec => [](IInv /\ ContentInv)
<1>1. Init => ContentInv
  <2> SUFFICES ASSUME Init PROVE ContentInv
    OBVIOUS
  <2>1. queue = <<RootModule>> /\ RootModule.abs = RootAbs /\ DOMAIN placed = {RootAbs}
        /\ DOMAIN stage = {} /\ walked = {}
    BY DEF Init, RootModule
  <2>2. 1 \in DOMAIN queue /\ queue[1] = RootModule
    BY <2>1
  <2>3. \A d \in DOMAIN placed : Met(d)
    BY <2>1, <2>2 DEF Met, Waits
  <2> QED BY <2>1, <2>3 DEF ContentInv
<1>2. IInv /\ ContentInv /\ [Next]_vars => ContentInv'
  BY StepParses, StepKeepsFiles, StepKeepsMet DEF ContentInv
<1> QED BY <1>1, <1>2, PackInv, PTL DEF Spec

-----------------------------------------------------------------------------
(* A finished pack, and the bundle it travels as.                          *)

Known == IInv /\ WalkInv /\ AnchorInv /\ SpreadInv /\ CallsInv /\ ContentInv

(* A walked module whose home is not under an ignored name is in the       *)
(* bundle, and all its calls lead to homes of walked modules.              *)
LEMMA PackedModule ==
    ASSUME Known, status = "packed", ~Overlaid, NEW d \in walked, ~UnderIgnored(placed[d])
    PROVE  /\ placed[d] \in DOMAIN stage /\ stage[placed[d]].from = d
           /\ stage[placed[d]].file = disk[d].file /\ disk[d].parses
           /\ DOMAIN stage[placed[d]].calls = DOMAIN disk[d].calls
           /\ \A i \in DOMAIN disk[d].calls :
                LET c == stage[placed[d]].calls[i]
                    t == TargetOf(d, disk[d].calls[i]) IN
                /\ t \in walked /\ c.kind = "local" /\ ~Climbs(placed[d], c.up)
                /\ JoinSource(placed[d], c.up, c.down) = placed[t]
<1>1. d \in DOMAIN placed
  BY DEF Known, IInv, ModulesInv
<1>2. PICK a \in Anchors : d \in CopiedDirs(a) /\ placed[d] = placed[a] \o Rel(a, d)
  BY <1>1, CarriedByAnchor DEF Known
<1>3. placed[d] \in DOMAIN stage
  BY <1>2 DEF Known, SpreadInv, Going, Lies, Spread
<1>4. /\ Unmoved(stage, placed, Anchors)
      /\ ReadsRight(stage, placed, walked, cur.abs, k)
  BY DEF Known, CallsInv, Going
<1>5. stage[placed[d]].from = d
  BY <1>1, <1>4, HomeHolds DEF Known
<1>6. DOMAIN stage[placed[d]].calls = DOMAIN disk[d].calls
  BY <1>3, <1>4, <1>5 DEF ReadsRight
<1>7. stage[placed[d]].file = disk[d].file /\ disk[d].parses
  BY <1>3, <1>5 DEF Known, ContentInv
<1>8. ASSUME NEW i \in DOMAIN disk[d].calls
      PROVE  /\ TargetOf(d, disk[d].calls[i]) \in walked
             /\ Lands(d, i)
  <2>1. Lands(d, i) /\ TargetOf(d, disk[d].calls[i]) \in DOMAIN placed
    BY <1>3, WalkedCallLands DEF Known, Bundled
  <2>2. queue = <<>>
    BY DEF Known, WalkInv
  <2>3. Met(TargetOf(d, disk[d].calls[i]))
    BY <2>1 DEF Known, ContentInv
  <2> QED BY <2>1, <2>2, <2>3 DEF Met, Waits
<1> QED BY <1>3, <1>5, <1>6, <1>7, <1>8 DEF Lands

(* What the server is given of a bundle directory.                         *)
LEMMA Delivered ==
    ASSUME bundle = Normalized, NEW p \in Places
    PROVE  IF Carried(p)
             THEN /\ bundle[p].file /\ bundle[p].parses = disk[stage[p].from].parses
                  /\ DOMAIN bundle[p].calls = DOMAIN stage[p].calls
                  /\ \A i \in DOMAIN stage[p].calls :
                       LET s == bundle[p].calls[i]
                           c == stage[p].calls[i] IN
                       s.local = (c.kind = "local") /\ s.up = c.up /\ s.down = c.down
             ELSE ~bundle[p].file /\ bundle[p].parses /\ bundle[p].calls = <<>>
<1>1. CASE Carried(p)
  <2>1. bundle[p] = [file |-> TRUE, parses |-> disk[stage[p].from].parses,
                     calls |-> [i \in DOMAIN stage[p].calls |-> AsSource(stage[p].calls[i])]]
    BY <1>1 DEF Normalized
  <2> QED BY <1>1, <2>1 DEF AsSource
<1>2. CASE ~Carried(p)
  BY <1>2 DEF Normalized
<1> QED BY <1>1, <1>2

LEMMA SameInside == \A a, b : Server!Inside(a, b) <=> Inside(a, b)
BY DEF Server!Inside, Server!IsPathPrefix, Inside, IsPathPrefix

LEMMA UnderCarried ==
    ASSUME NEW h \in Seq(DirName), NEW e \in Seq(DirName), Inside(h, e), ~UnderIgnored(e)
    PROVE  ~UnderIgnored(h)
<1>1. Len(h) \in Nat /\ Len(e) \in Nat /\ Len(h) <= Len(e) /\ SubSeq(e, 1, Len(h)) = h
  BY DEF Inside, IsPathPrefix
<1>2. ASSUME NEW i \in DOMAIN h PROVE i \in DOMAIN e /\ h[i] = e[i]
  BY <1>1
<1> QED BY <1>2 DEF UnderIgnored

(* What arrives is not under an ignored name.                              *)
LEMMA ArrivedNotIgnored ==
    ASSUME bundle = Normalized, NEW h \in Server!DirSet(bundle)
    PROVE  h \in Places /\ ~UnderIgnored(h)
<1>1. CASE h = <<>>
  BY <1>1, PlacesAssumption DEF UnderIgnored
<1>2. CASE h # <<>>
  <2>1. h \in Places /\ \E e \in Places : Inside(h, e) /\ bundle[e].file
    BY <1>2, SameInside DEF Server!DirSet, Server!Root
  <2>2. PICK e \in Places : Inside(h, e) /\ bundle[e].file
    BY <2>1
  <2>3. Carried(e)
    BY <2>2, Delivered
  <2>4. ~UnderIgnored(e)
    BY <2>3 DEF Carried, UnderIgnored
  <2> QED BY <2>1, <2>2, <2>4, UnderCarried, PlacesAssumption
<1> QED BY <1>1, <1>2

(* The home of a walked module, as the server reads it.                    *)
LEMMA DeliveredModule ==
    ASSUME Known, status = "packed", ~Overlaid, bundle = Normalized,
           NEW d \in walked, placed[d] \in Server!DirSet(bundle)
    PROVE  /\ placed[d] \in Places /\ bundle[placed[d]].parses
           /\ DOMAIN bundle[placed[d]].calls = DOMAIN disk[d].calls
           /\ \A i \in DOMAIN disk[d].calls :
                LET s == bundle[placed[d]].calls[i]
                    t == TargetOf(d, disk[d].calls[i]) IN
                /\ t \in walked /\ s.local /\ ~Server!Climbs(placed[d], s.up)
                /\ Server!Target(placed[d], s) = placed[t]
<1>1. placed[d] \in Places /\ ~UnderIgnored(placed[d])
  BY ArrivedNotIgnored
<1>2. /\ placed[d] \in DOMAIN stage /\ stage[placed[d]].from = d
      /\ stage[placed[d]].file = disk[d].file /\ disk[d].parses
      /\ DOMAIN stage[placed[d]].calls = DOMAIN disk[d].calls
      /\ \A i \in DOMAIN disk[d].calls :
           LET c == stage[placed[d]].calls[i]
               t == TargetOf(d, disk[d].calls[i]) IN
           /\ t \in walked /\ c.kind = "local" /\ ~Climbs(placed[d], c.up)
           /\ JoinSource(placed[d], c.up, c.down) = placed[t]
  BY <1>1, PackedModule
<1>3. CASE Carried(placed[d])
  <2>1. /\ bundle[placed[d]].parses /\ DOMAIN bundle[placed[d]].calls = DOMAIN disk[d].calls
        /\ \A i \in DOMAIN disk[d].calls :
             LET s == bundle[placed[d]].calls[i]
                 c == stage[placed[d]].calls[i] IN
             s.local = (c.kind = "local") /\ s.up = c.up /\ s.down = c.down
    BY <1>1, <1>2, <1>3, Delivered
  <2>2. \A h, s : /\ Server!Climbs(h, s.up) <=> Climbs(h, s.up)
                  /\ Server!Target(h, s) = JoinSource(h, s.up, s.down)
    BY DEF Server!Climbs, Climbs, Server!Target, Server!JoinSource, JoinSource
  <2>3. ASSUME NEW i \in DOMAIN disk[d].calls
        PROVE  LET s == bundle[placed[d]].calls[i]
                   t == TargetOf(d, disk[d].calls[i]) IN
               /\ t \in walked /\ s.local /\ ~Server!Climbs(placed[d], s.up)
               /\ Server!Target(placed[d], s) = placed[t]
    <3> DEFINE s == bundle[placed[d]].calls[i]
               c == stage[placed[d]].calls[i]
               t == TargetOf(d, disk[d].calls[i])
    <3>1. /\ t \in walked /\ c.kind = "local" /\ ~Climbs(placed[d], c.up)
          /\ JoinSource(placed[d], c.up, c.down) = placed[t]
      BY <1>2
    <3>2. s.local = (c.kind = "local") /\ s.up = c.up /\ s.down = c.down
      BY <2>1
    <3>3. /\ Server!Climbs(placed[d], s.up) <=> Climbs(placed[d], s.up)
          /\ Server!Target(placed[d], s) = JoinSource(placed[d], s.up, s.down)
      BY <2>2
    <3> QED BY <3>1, <3>2, <3>3
  <2> QED BY <1>1, <2>1, <2>3
<1>4. CASE ~Carried(placed[d])
  <2>1. ~disk[d].file
    BY <1>1, <1>2, <1>4 DEF Carried, UnderIgnored, Known, IInv, ShapeInv, IsStage
  <2>2. d \in Dirs /\ disk \in Worlds
    BY DEF Known, IInv, ShapeInv, ModulesInv, PlacedInv
  <2>3. disk[d].calls = <<>>
    BY <2>1, <2>2, WorldsAssumption
  <2> QED BY <1>1, <1>4, <2>3, Delivered
<1> QED BY <1>3, <1>4

LEMMA CopiedThrough ==
    ASSUME NEW a \in Dirs, NEW d \in CopiedDirs(a), NEW e \in CopiedDirs(d)
    PROVE  e \in CopiedDirs(a) /\ Rel(a, e) = Rel(a, d) \o Rel(d, e)
<1>1. d \in Dirs /\ e \in Dirs /\ Inside(a, d) /\ Inside(d, e)
  BY CopiedAreInside
<1>2. a \in Seq(Name) /\ d \in Seq(Name) /\ e \in Seq(Name)
  BY <1>1, DirsAssumption
<1>3. Inside(a, e) /\ Rel(a, e) = Rel(a, d) \o Rel(d, e)
  BY <1>1, <1>2, InsideTransitive
<1>4. Len(a) \in Nat /\ Len(d) \in Nat /\ Len(e) \in Nat /\ SubSeq(e, 1, Len(d)) = d
      /\ Len(d) <= Len(e)
  BY <1>1, <1>2 DEF Inside, IsPathPrefix
<1>5. ASSUME NEW i \in (Len(a) + 1) .. Len(e) PROVE e[i] \notin Ignored
  <2>1. CASE i <= Len(d)
    <3>1. e[i] = d[i] /\ i \in (Len(a) + 1) .. Len(d)
      BY <1>2, <1>4, <2>1
    <3> QED BY <3>1 DEF CopiedDirs
  <2>2. CASE ~(i <= Len(d))
    <3>1. i \in (Len(d) + 1) .. Len(e)
      BY <1>4, <2>2
    <3> QED BY <3>1 DEF CopiedDirs
  <2> QED BY <2>1, <2>2
<1> QED BY <1>1, <1>3, <1>5 DEF CopiedDirs

(* A path with no ignored name, extended by what a copy carries.           *)
LEMMA NoneIgnoredBelow ==
    ASSUME NEW h \in Seq(BundleName), ~UnderIgnored(h), NEW d \in Dirs, NEW e \in CopiedDirs(d)
    PROVE  ~UnderIgnored(h \o Rel(d, e))
<1>1. e \in Dirs /\ Inside(d, e) /\ Rel(d, e) \in Seq(BundleName)
  BY CopiedAreInside, RelIsPath
<1>2. d \in Seq(Name) /\ e \in Seq(Name) /\ Len(d) \in Nat /\ Len(e) \in Nat /\ Len(d) <= Len(e)
  BY <1>1, DirsAssumption DEF Inside, IsPathPrefix
<1>3. /\ Len(Rel(d, e)) = Len(e) - Len(d)
      /\ \A i \in 1 .. Len(Rel(d, e)) : Rel(d, e)[i] = e[i + Len(d)]
  BY <1>2 DEF Rel
<1>4. \A i \in 1 .. Len(Rel(d, e)) : Rel(d, e)[i] \notin Ignored
  BY <1>2, <1>3 DEF CopiedDirs
<1>5. \A i \in 1 .. Len(h) : h[i] \notin Ignored
  BY DEF UnderIgnored
<1>6. \A i \in DOMAIN (h \o Rel(d, e)) :
        \/ i \in 1 .. Len(h) /\ (h \o Rel(d, e))[i] = h[i]
        \/ i - Len(h) \in 1 .. Len(Rel(d, e)) /\ (h \o Rel(d, e))[i] = Rel(d, e)[i - Len(h)]
  BY <1>1
<1> QED BY <1>4, <1>5, <1>6 DEF UnderIgnored

(* A module that travels is there when the bundle arrives.                 *)
LEMMA TravelsArrives ==
    ASSUME Known, status = "packed", ~Overlaid, Fits, bundle = Normalized,
           NEW d \in walked, Travels(d)
    PROVE  placed[d] \in Server!DirSet(bundle)
<1>1. d \in DOMAIN placed /\ d \in Dirs /\ ~UnderIgnored(placed[d])
  BY DEF Known, IInv, ModulesInv, PlacedInv, Travels
<1>2. PICK a \in Anchors :
        /\ a \in Dirs /\ placed[a] \in Seq(BundleName)
        /\ d \in CopiedDirs(a) /\ placed[d] = placed[a] \o Rel(a, d)
  BY <1>1, CarriedByAnchor DEF Known
<1>3. PICK e \in CopiedDirs(d) : disk[e].file
  BY DEF Travels
<1>4. e \in CopiedDirs(a) /\ Rel(a, e) = Rel(a, d) \o Rel(d, e)
  BY <1>2, <1>3, CopiedThrough
<1>5. Rel(a, d) \in Seq(BundleName) /\ Rel(d, e) \in Seq(BundleName)
  BY <1>1, <1>2, <1>3, CopiedAreInside, RelIsPath
<1>6. PICK p : p = placed[d] \o Rel(d, e)
  OBVIOUS
<1>7. p = placed[a] \o Rel(a, e)
  <2>1. ASSUME NEW x \in Seq(BundleName), NEW y \in Seq(BundleName), NEW z \in Seq(BundleName)
        PROVE  (x \o y) \o z = x \o (y \o z)
    BY ConcatAssociative
  <2>2. (placed[a] \o Rel(a, d)) \o Rel(d, e) = placed[a] \o (Rel(a, d) \o Rel(d, e))
    BY <1>2, <1>5, <2>1, Zenon
  <2> QED BY <1>2, <1>4, <1>6, <2>2
<1>8. p \in DOMAIN stage /\ placed[d] \in DOMAIN stage
  BY <1>2, <1>4, <1>7 DEF Known, SpreadInv, Going, Lies, Spread
<1>9. p \in Places /\ placed[d] \in Places
  BY <1>8 DEF Fits
<1>10. placed[d] \in Seq(BundleName)
  BY <1>1, HomeIsPath DEF Known
<1>11. Inside(placed[d], p)
  BY <1>5, <1>6, <1>10, RelOfConcat
<1>12. Carried(p)
  <2>1. stage[p].from = e
    BY <1>4, <1>7 DEF Known, CallsInv, Going, Unmoved
  <2>2. stage[p].file
    BY <1>3, <1>8, <2>1 DEF Known, ContentInv
  <2>3. ~UnderIgnored(p)
    BY <1>1, <1>3, <1>6, <1>10, NoneIgnoredBelow
  <2> QED BY <1>8, <2>2, <2>3 DEF Carried, UnderIgnored
<1>13. bundle[p].file
  BY <1>9, <1>12, Delivered
<1> QED BY <1>9, <1>11, <1>13, SameInside DEF Server!DirSet

-----------------------------------------------------------------------------
(* The server's walk.                                                      *)

Queued(q) == {q[i] : i \in DOMAIN q}
Homely(b, h) == h \in Server!DirSet(b) /\ \E d \in walked : h = placed[d]
(* Every call of a directory of S leads to one of T.                       *)
Leads(b, S, T) ==
    \A h \in S : \A i \in DOMAIN b[h].calls : Server!Target(h, b[h].calls[i]) \in T

(* Nothing changes the bundle once it is published.                        *)
Served ==
    /\ verdict = "unpublished" => seen = {}
    /\ verdict # "unpublished" => status = "packed" /\ Fits /\ bundle = Normalized

(* The server met homes of walked modules only, and followed their calls.  *)
WalksHomes(b, s, q, v) ==
    /\ q \in Seq(Places)
    /\ \A h \in s \cup Queued(q) : Homely(b, h)
    /\ v \notin Server!Refusals => <<>> \in s \cup Queued(q) /\ Leads(b, s, s \cup Queued(q))
    /\ v = "closed" => q = <<>>
    /\ v \in Server!Refusals => \E d \in walked : ~Travels(d)
Agreed ==
    ~Overlaid /\ verdict # "unpublished" => WalksHomes(bundle, seen, toClose, verdict)

LEMMA QueuedTail ==
    ASSUME NEW S, NEW q \in Seq(S), q # <<>>
    PROVE  Head(q) \in S /\ Tail(q) \in Seq(S) /\ Queued(q) = {Head(q)} \cup Queued(Tail(q))
<1>1. /\ \A i \in DOMAIN q : q[i] = Head(q) \/ \E j \in DOMAIN Tail(q) : Tail(q)[j] = q[i]
      /\ \A j \in DOMAIN Tail(q) : \E i \in DOMAIN q : q[i] = Tail(q)[j]
      /\ \E i \in DOMAIN q : q[i] = Head(q)
  BY WaitingAfterTail
<1>2. Head(q) \in S /\ Tail(q) \in Seq(S)
  BY HeadTailProperties
<1>3. \A h : h \in Queued(q) <=> h = Head(q) \/ h \in Queued(Tail(q))
  BY <1>1 DEF Queued
<1> QED BY <1>2, <1>3

LEMMA QueuedConcat ==
    ASSUME NEW S, NEW s \in Seq(S), NEW t \in Seq(S)
    PROVE  s \o t \in Seq(S) /\ Queued(s \o t) = Queued(s) \cup Queued(t)
<1>1. /\ s \o t \in Seq(S) /\ Len(s \o t) = Len(s) + Len(t)
      /\ \A i \in 1 .. Len(s) + Len(t) :
           (s \o t)[i] = IF i <= Len(s) THEN s[i] ELSE t[i - Len(s)]
  BY ConcatProperties
<1>2. /\ DOMAIN s = 1 .. Len(s) /\ DOMAIN t = 1 .. Len(t)
      /\ DOMAIN (s \o t) = 1 .. Len(s) + Len(t)
      /\ Len(s) \in Nat /\ Len(t) \in Nat
  BY <1>1, LenProperties
<1>3. ASSUME NEW i \in DOMAIN (s \o t) PROVE (s \o t)[i] \in Queued(s) \cup Queued(t)
  <2>1. CASE i <= Len(s)
    BY <1>1, <1>2, <2>1 DEF Queued
  <2>2. CASE ~(i <= Len(s))
    <3>1. i - Len(s) \in DOMAIN t /\ (s \o t)[i] = t[i - Len(s)]
      BY <1>1, <1>2, <2>2
    <3> QED BY <3>1 DEF Queued
  <2> QED BY <2>1, <2>2
<1>4. ASSUME NEW i \in DOMAIN s PROVE s[i] \in Queued(s \o t)
  <2>1. i \in DOMAIN (s \o t) /\ (s \o t)[i] = s[i]
    BY <1>1, <1>2
  <2> QED BY <2>1 DEF Queued
<1>5. ASSUME NEW i \in DOMAIN t PROVE t[i] \in Queued(s \o t)
  <2>1. Len(s) + i \in DOMAIN (s \o t) /\ (s \o t)[Len(s) + i] = t[i]
    BY <1>1, <1>2
  <2> QED BY <2>1 DEF Queued
<1>6. Queued(s \o t) \subseteq Queued(s) \cup Queued(t)
  BY <1>3 DEF Queued
<1>7. Queued(s) \subseteq Queued(s \o t) /\ Queued(t) \subseteq Queued(s \o t)
  <2>1. \A h \in Queued(s) : \E i \in DOMAIN s : h = s[i]
    BY DEF Queued
  <2>2. \A h \in Queued(t) : \E i \in DOMAIN t : h = t[i]
    BY DEF Queued
  <2> QED BY <1>4, <1>5, <2>1, <2>2
<1> QED BY <1>1, <1>6, <1>7

(* The calls of a home the server visits lead to homes.                    *)
LEMMA HomelyTargets ==
    ASSUME Known, status = "packed", ~Overlaid, bundle = Normalized,
           NEW h, Homely(bundle, h), Server!AllResolve(bundle, h)
    PROVE  /\ Server!Targets(h) \in Seq(Places)
           /\ \A i \in DOMAIN bundle[h].calls :
                Server!Target(h, bundle[h].calls[i]) \in Queued(Server!Targets(h))
           /\ \A g \in Queued(Server!Targets(h)) : Homely(bundle, g)
<1>1. PICK d \in walked : h = placed[d] /\ placed[d] \in Server!DirSet(bundle)
  BY DEF Homely
<1>2. /\ DOMAIN bundle[h].calls = DOMAIN disk[d].calls
      /\ \A i \in DOMAIN disk[d].calls :
           LET t == TargetOf(d, disk[d].calls[i]) IN
           t \in walked /\ Server!Target(h, bundle[h].calls[i]) = placed[t]
  BY <1>1, DeliveredModule
<1>3. PICK n \in Nat : DOMAIN disk[d].calls = 1 .. n
  BY CallNumbers DEF Known, IInv, ShapeInv, ModulesInv, PlacedInv
<1>4. ASSUME NEW i \in 1 .. n
      PROVE  Server!Target(h, bundle[h].calls[i]) \in Places /\ Homely(bundle, Server!Target(h, bundle[h].calls[i]))
  <2>1. Server!ResolveSource(h, bundle[h].calls[i], bundle) = "ok"
    BY <1>2, <1>3 DEF Server!AllResolve, Server!CallsOf
  <2>2. Server!Target(h, bundle[h].calls[i]) \in Server!DirSet(bundle)
    BY <2>1 DEF Server!ResolveSource
  <2>3. Server!Target(h, bundle[h].calls[i]) \in Places
    BY <2>2, ArrivedNotIgnored
  <2> QED BY <1>2, <1>3, <2>2, <2>3 DEF Homely
<1>5. /\ Server!Targets(h) = [i \in 1 .. n |-> Server!Target(h, bundle[h].calls[i])]
  BY <1>2, <1>3 DEF Server!Targets
<1>6. Server!Targets(h) \in Seq(Places)
  BY <1>4, <1>5
<1>7. Queued(Server!Targets(h)) = {Server!Target(h, bundle[h].calls[i]) : i \in 1 .. n}
  BY <1>5 DEF Queued
<1> QED BY <1>2, <1>3, <1>4, <1>6, <1>7

LEMMA OverlaidRests == UNCHANGED vars => (Overlaid <=> Overlaid')
BY DEF vars, Overlaid, CopiedOver, TreeOverComponent, Landed, TreeOf

LEMMA Retold ==
    ASSUME UNCHANGED vars, NEW b, NEW s, NEW q, NEW v,
           b = bundle', s = seen', q = toClose', v = verdict',
           ~Overlaid /\ v # "unpublished" => WalksHomes(b, s, q, v)
    PROVE  Agreed'
<1>1. Overlaid <=> Overlaid'
  BY OverlaidRests
<1>2. walked' = walked /\ placed' = placed /\ disk' = disk
  BY DEF vars
<1>3. \A h : Homely(b, h) <=> Homely(bundle, h)'
  BY <1>2 DEF Homely
<1>4. \A d : Travels(d) <=> Travels(d)'
  BY <1>2 DEF Travels
<1>5. WalksHomes(b, s, q, v) => WalksHomes(bundle, seen, toClose, verdict)'
  BY <1>2, <1>3, <1>4 DEF WalksHomes, Leads, Queued
<1> QED BY <1>1, <1>5 DEF Agreed

LEMMA ServedRests ==
    ASSUME UNCHANGED vars, Served, verdict # "unpublished", UNCHANGED bundle, verdict' # "unpublished"
    PROVE  Served'
<1>1. status' = status /\ stage' = stage /\ disk' = disk
  BY DEF vars
<1>2. Normalized' = Normalized /\ (Fits <=> Fits')
  BY <1>1 DEF Normalized, Carried, Fits
<1> QED BY <1>1, <1>2 DEF Served

(* Once published, the pack does nothing more.                             *)
LEMMA PackedStops == status = "packed" => ~Next
BY DEF Next, Step, StageRoot, SkipWalked, LoadModule, OneCall, Packed, Cancelled, AtLoopHead,
       RefusedCall, FetchFails, LocalKnown, LocalInTree, LocalInRoot, LocalOutside, Remote,
       Calling, Sound, SoundLocal

LEMMA RootIsHome ==
    ASSUME Known, status = "packed"
    PROVE  RootAbs \in walked /\ placed[RootAbs] = <<>> /\ \A b : <<>> \in Server!DirSet(b)
<1>1. Met(RootAbs) /\ queue = <<>>
  BY DEF Known, WalkInv
<1>2. RootAbs \in walked
  BY <1>1 DEF Met, Waits
<1> QED BY <1>2 DEF Known, AnchorInv, Server!DirSet, Server!Root

LEMMA PublishAgrees ==
    ASSUME Known, Served, Publish
    PROVE  Served' /\ Agreed'
<1>1. /\ status = "packed" /\ Fits /\ verdict = "unpublished" /\ verdict' = "walking" /\ seen = {}
      /\ bundle' = Normalized /\ toClose' = <<Server!Root>> /\ seen' = seen /\ UNCHANGED vars
  BY DEF Publish, Served
<1>2. status' = status /\ stage' = stage /\ disk' = disk
  BY <1>1 DEF vars
<1>3. Normalized' = Normalized /\ (Fits <=> Fits')
  BY <1>2 DEF Normalized, Carried, Fits
<1>4. Served'
  BY <1>1, <1>2, <1>3 DEF Served
<1>5. PICK b, q, root : b = bundle' /\ root = <<>> /\ q = <<root>> /\ q = toClose'
  BY <1>1 DEF Server!Root
<1>6. q \in Seq(Places) /\ Queued(q) = {root}
  BY <1>5, PlacesAssumption DEF Queued
<1>7. Homely(b, root)
  BY <1>1, <1>5, RootIsHome DEF Homely
<1>8. WalksHomes(b, {}, q, "walking")
  BY <1>5, <1>6, <1>7 DEF WalksHomes, Leads, Server!Refusals
<1> QED BY <1>1, <1>4, <1>5, <1>8, Retold

LEMMA SkipAgrees ==
    ASSUME Served, Agreed, Server!SkipSeen, UNCHANGED vars
    PROVE  Served' /\ Agreed'
<1>1. /\ verdict = "walking" /\ toClose # <<>> /\ Head(toClose) \in seen
      /\ toClose' = Tail(toClose) /\ UNCHANGED <<bundle, seen, verdict>>
  BY DEF Server!SkipSeen
<1>2. PICK q : q = Tail(toClose)
  OBVIOUS
<1>3. ASSUME ~Overlaid PROVE WalksHomes(bundle, seen, q, "walking")
  <2>1. WalksHomes(bundle, seen, toClose, "walking")
    BY <1>1, <1>3 DEF Agreed
  <2>2. q \in Seq(Places) /\ seen \cup Queued(q) = seen \cup Queued(toClose)
    BY <1>1, <1>2, <2>1, QueuedTail DEF WalksHomes
  <2> QED BY <2>1, <2>2 DEF WalksHomes, Server!Refusals
<1>4. PICK b, s, v : b = bundle /\ s = seen /\ v = verdict
  OBVIOUS
<1> QED BY <1>1, <1>2, <1>3, <1>4, Retold, ServedRests

LEMMA AcceptAgrees ==
    ASSUME Served, Agreed, Server!Accept, UNCHANGED vars
    PROVE  Served' /\ Agreed'
<1>1. /\ verdict = "walking" /\ toClose = <<>> /\ verdict' = "closed"
      /\ UNCHANGED <<bundle, seen, toClose>>
  BY DEF Server!Accept
<1>2. ASSUME ~Overlaid PROVE WalksHomes(bundle, seen, toClose, "closed")
  BY <1>1, <1>2 DEF Agreed, WalksHomes, Server!Refusals
<1>3. PICK b, s, q : b = bundle /\ s = seen /\ q = toClose
  OBVIOUS
<1> QED BY <1>1, <1>2, <1>3, Retold, ServedRests

LEMMA VisitAgrees ==
    ASSUME Known, Served, Agreed, Server!Visit, UNCHANGED vars
    PROVE  Served' /\ Agreed'
<1>1. PICK h : h = Head(toClose)
  OBVIOUS
<1>2. /\ verdict = "walking" /\ toClose # <<>> /\ Server!AllResolve(bundle, h)
      /\ seen' = seen \cup {h} /\ toClose' = Tail(toClose) \o Server!Targets(h)
      /\ UNCHANGED <<bundle, verdict>>
  BY <1>1 DEF Server!Visit
<1>3. status = "packed" /\ bundle = Normalized
  BY <1>2 DEF Served
<1>4. PICK s, q, rest, ts :
        /\ s = seen \cup {h} /\ rest = Tail(toClose) /\ ts = Server!Targets(h) /\ q = rest \o ts
  OBVIOUS
<1>5. ASSUME ~Overlaid PROVE WalksHomes(bundle, s, q, "walking")
  <2>1. WalksHomes(bundle, seen, toClose, "walking")
    BY <1>2, <1>5 DEF Agreed
  <2>2. rest \in Seq(Places) /\ Queued(toClose) = {h} \cup Queued(rest)
    BY <1>1, <1>2, <1>4, <2>1, QueuedTail DEF WalksHomes
  <2>3. Homely(bundle, h)
    BY <2>1, <2>2 DEF WalksHomes
  <2>4. /\ ts \in Seq(Places)
        /\ \A i \in DOMAIN bundle[h].calls : Server!Target(h, bundle[h].calls[i]) \in Queued(ts)
        /\ \A g \in Queued(ts) : Homely(bundle, g)
    BY <1>2, <1>3, <1>4, <1>5, <2>3, HomelyTargets
  <2>5. q \in Seq(Places) /\ Queued(q) = Queued(rest) \cup Queued(ts)
    BY <1>4, <2>2, <2>4, QueuedConcat, ZenonT(30)
  <2>6. s \cup Queued(q) = seen \cup Queued(toClose) \cup Queued(ts)
    BY <1>4, <2>2, <2>5
  <2>7. Leads(bundle, s, s \cup Queued(q))
    BY <1>4, <2>1, <2>4, <2>6 DEF WalksHomes, Leads, Server!Refusals
  <2> QED BY <2>1, <2>4, <2>5, <2>6, <2>7 DEF WalksHomes, Server!Refusals
<1>6. PICK b, v : b = bundle /\ v = verdict
  OBVIOUS
<1> QED BY <1>2, <1>4, <1>5, <1>6, Retold, ServedRests

(* The server refuses only when some module did not arrive.                *)
LEMMA RefuseAgrees ==
    ASSUME Known, Served, Agreed, Server!Refuse, UNCHANGED vars
    PROVE  Served' /\ Agreed'
<1>1. PICK h : h = Head(toClose)
  OBVIOUS
<1>2. /\ verdict = "walking" /\ toClose # <<>>
      /\ seen' = seen \cup {h} /\ toClose' = Tail(toClose) /\ UNCHANGED bundle
      /\ \/ ~bundle[h].parses /\ verdict' = "invalid"
         \/ \E i \in DOMAIN bundle[h].calls :
              /\ Server!ResolveSource(h, bundle[h].calls[i], bundle) # "ok"
              /\ verdict' = Server!ResolveSource(h, bundle[h].calls[i], bundle)
  BY <1>1 DEF Server!Refuse
<1>3. status = "packed" /\ bundle = Normalized /\ Fits
  BY <1>2 DEF Served
<1>4. PICK s, q, v : s = seen \cup {h} /\ q = Tail(toClose) /\ v = verdict'
  OBVIOUS
<1>5. v \in Server!Refusals
  BY <1>2, <1>4 DEF Server!ResolveSource, Server!Refusals
<1>6. ASSUME ~Overlaid PROVE WalksHomes(bundle, s, q, v)
  <2>1. WalksHomes(bundle, seen, toClose, "walking")
    BY <1>2, <1>6 DEF Agreed
  <2>2. q \in Seq(Places) /\ Queued(toClose) = {h} \cup Queued(q)
    BY <1>1, <1>2, <1>4, <2>1, QueuedTail DEF WalksHomes
  <2>3. PICK d \in walked : h = placed[d] /\ placed[d] \in Server!DirSet(bundle)
    BY <2>1, <2>2 DEF WalksHomes, Homely
  <2>4. /\ bundle[h].parses /\ DOMAIN bundle[h].calls = DOMAIN disk[d].calls
        /\ \A i \in DOMAIN disk[d].calls :
             LET c == bundle[h].calls[i]
                 t == TargetOf(d, disk[d].calls[i]) IN
             /\ t \in walked /\ c.local /\ ~Server!Climbs(h, c.up)
             /\ Server!Target(h, c) = placed[t]
    BY <1>3, <1>6, <2>3, DeliveredModule
  <2>5. PICK i \in DOMAIN disk[d].calls : Server!ResolveSource(h, bundle[h].calls[i], bundle) # "ok"
    BY <1>2, <2>4
  <2>6. PICK t \in walked : placed[t] \notin Server!DirSet(bundle)
    BY <2>4, <2>5 DEF Server!ResolveSource
  <2>7. ~Travels(t)
    BY <1>3, <1>6, <2>6, TravelsArrives
  <2>8. v # "closed"
    BY <1>5 DEF Server!Refusals
  <2> QED BY <1>4, <1>5, <2>1, <2>2, <2>7, <2>8 DEF WalksHomes
<1>7. PICK b : b = bundle
  OBVIOUS
<1>8. v # "unpublished"
  BY <1>5 DEF Server!Refusals
<1> QED BY <1>2, <1>4, <1>6, <1>7, <1>8, Retold, ServedRests

LEMMA TripKept ==
    ASSUME Known, Served, Agreed, [RoundTripNext]_<<vars, serverVars>>
    PROVE  Served' /\ Agreed'
<1>1. CASE Packing
  <2>1. status # "packed" /\ UNCHANGED serverVars
    BY <1>1, PackedStops DEF Packing
  <2>2. verdict = "unpublished" /\ verdict' = verdict /\ seen' = seen
    BY <2>1 DEF Served, serverVars
  <2> QED BY <2>2 DEF Served, Agreed
<1>2. CASE Publish
  BY <1>2, PublishAgrees
<1>3. CASE Closing
  BY <1>3, SkipAgrees, VisitAgrees, RefuseAgrees, AcceptAgrees DEF Closing, Server!Next
<1>4. CASE UNCHANGED <<vars, serverVars>>
  <2>1. UNCHANGED vars /\ UNCHANGED <<bundle, toClose, seen, verdict>>
    BY <1>4 DEF serverVars
  <2>2. Served'
    BY <2>1, ServedRests DEF Served
  <2>3. PICK b, s, q, v : b = bundle /\ s = seen /\ q = toClose /\ v = verdict
    OBVIOUS
  <2> QED BY <2>1, <2>2, <2>3, Retold DEF Agreed
<1> QED BY <1>1, <1>2, <1>3, <1>4 DEF RoundTripNext

-----------------------------------------------------------------------------
(* The round trip.                                                         *)

LEMMA TripPacks == RoundTripSpec => Spec
<1>1. RoundTripInit => Init
  BY DEF RoundTripInit
<1>2. [RoundTripNext]_<<vars, serverVars>> => [Next]_vars
  BY DEF RoundTripNext, Packing, Publish, Closing
<1> QED BY <1>1, <1>2, PTL DEF RoundTripSpec, Spec

LEMMA TripInv == RoundTripSpec => [](Known /\ Served /\ Agreed)
<1>1. RoundTripInit => Served /\ Agreed
  BY DEF RoundTripInit, Served, Agreed
<1>2. RoundTripSpec => []Known
  <2>1. IInv /\ WalkInv /\ AnchorInv /\ SpreadInv /\ CallsInv /\ ContentInv <=> Known
    BY DEF Known
  <2> QED BY <2>1, TripPacks, CallsKept, ContentKept, PTL
<1>3. Known /\ Served /\ Agreed /\ [RoundTripNext]_<<vars, serverVars>> => Served' /\ Agreed'
  BY TripKept
<1> QED BY <1>1, <1>2, <1>3, PTL DEF RoundTripSpec

(* Whatever the client packs the server accepts, on any host, unless some  *)
(* walked module does not travel or one copy landed on another.            *)
THEOREM PackedIsAccepted == RoundTripSpec => []PackedBundleAccepted
<1>1. Served /\ Agreed => PackedBundleAccepted
  <2> SUFFICES ASSUME Agreed, verdict \in Server!Refusals, ~Overlaid
               PROVE  \E d \in walked : ~Travels(d)
    BY DEF PackedBundleAccepted
  <2> QED BY DEF Agreed, WalksHomes, Server!Refusals
<1> QED BY <1>1, TripInv, PTL

(* And a bundle it accepts it has judged on the homes of the modules the   *)
(* client walked, every one and nothing else.                              *)
THEOREM ServerWalksPacked == RoundTripSpec => []ServerWalksWhatWasPacked
<1>1. Known /\ Served /\ Agreed /\ PackedWalkedReachable => ServerWalksWhatWasPacked
  <2> SUFFICES ASSUME Known, Served, Agreed, PackedWalkedReachable, verdict = "closed", ~Overlaid
               PROVE  seen = {placed[d] : d \in walked}
    BY DEF ServerWalksWhatWasPacked
  <2>1. /\ status = "packed" /\ bundle = Normalized
        /\ WalksHomes(bundle, seen, toClose, "closed")
    BY DEF Served, Agreed
  <2>2. /\ \A h \in seen : Homely(bundle, h)
        /\ <<>> \in seen /\ Leads(bundle, seen, seen)
    <3>1. Queued(toClose) = {}
      BY <2>1 DEF WalksHomes, Queued
    <3> QED BY <2>1, <3>1 DEF WalksHomes, Server!Refusals
  <2>3. seen \subseteq {placed[d] : d \in walked}
    BY <2>2 DEF Homely
  <2> DEFINE S == {d \in walked : placed[d] \in seen}
  <2>4. Closed(S)
    <3>1. RootAbs \in S
      BY <2>1, <2>2, RootIsHome
    <3>2. ASSUME NEW d \in S, NEW e \in Successors(d) PROVE e \in S
      <4>1. PICK i \in DOMAIN disk[d].calls : e = TargetOf(d, disk[d].calls[i])
        BY <3>2 DEF Successors, Named
      <4>2. d \in walked /\ placed[d] \in seen /\ placed[d] \in Server!DirSet(bundle)
        BY <2>2 DEF Homely
      <4>3. /\ i \in DOMAIN bundle[placed[d]].calls /\ e \in walked
            /\ Server!Target(placed[d], bundle[placed[d]].calls[i]) = placed[e]
        BY <2>1, <4>1, <4>2, DeliveredModule
      <4>4. placed[e] \in seen
        BY <2>2, <4>2, <4>3 DEF Leads
      <4> QED BY <4>3, <4>4
    <3> QED BY <3>1, <3>2 DEF Closed
  <2>5. S = walked
    BY <2>1, <2>4 DEF PackedWalkedReachable
  <2> QED BY <2>3, <2>5
<1>2. RoundTripSpec => []PackedWalkedReachable
  BY TripPacks, PackWalksReachable, PTL
<1> QED BY <1>1, <1>2, TripInv, PTL
=============================================================================

-------------------------- MODULE CloseWalk_proofs --------------------------
(***************************************************************************)
(* Close, for every bundle over every set of directories: the walk is a    *)
(* graph exploration, and what it accepts is closed.                       *)
(***************************************************************************)
EXTENDS CloseWalk, SequenceTheorems, TLAPS

P == INSTANCE GraphWalk_proofs WITH
    Node <- Dirs, Start <- Root,
    graph <- CallGraph(bundle),
    seen <- seen,
    pending <- {queue[i] : i \in DOMAIN queue} \ seen,
    status <- IF verdict = "walking" THEN "walking"
              ELSE IF verdict = "closed" THEN "done" ELSE "abandoned"

Items(q) == {q[i] : i \in DOMAIN q}

LEMMA ItemsOfTail ==
    ASSUME NEW S, NEW q \in Seq(S), q # <<>>
    PROVE  /\ Head(q) \in S /\ Tail(q) \in Seq(S)
           /\ Items(q) = {Head(q)} \cup Items(Tail(q))
<1>1. /\ Head(q) \in S /\ Tail(q) \in Seq(S) /\ Len(Tail(q)) = Len(q) - 1
      /\ \A i \in 1 .. Len(Tail(q)) : Tail(q)[i] = q[i + 1]
  BY HeadTailProperties
<1>2. Head(q) = q[1] /\ Len(q) \in Nat \ {0} /\ DOMAIN q = 1 .. Len(q)
      /\ DOMAIN Tail(q) = 1 .. (Len(q) - 1)
  BY <1>1, EmptySeq, LenProperties
<1>3. ASSUME NEW i \in DOMAIN q PROVE q[i] \in {Head(q)} \cup Items(Tail(q))
  <2>1. CASE i = 1
    BY <2>1, <1>2
  <2>2. CASE i # 1
    <3>1. i - 1 \in DOMAIN Tail(q) /\ Tail(q)[i - 1] = q[i]
      BY <2>2, <1>1, <1>2
    <3> QED BY <3>1 DEF Items
  <2> QED BY <2>1, <2>2
<1>4. ASSUME NEW i \in DOMAIN Tail(q) PROVE Tail(q)[i] \in Items(q)
  <2>1. i + 1 \in DOMAIN q /\ Tail(q)[i] = q[i + 1]
    BY <1>1, <1>2
  <2> QED BY <2>1 DEF Items
<1>5. Head(q) \in Items(q)
  BY <1>2 DEF Items
<1> QED BY <1>1, <1>3, <1>4, <1>5 DEF Items

LEMMA ItemsOfConcat ==
    ASSUME NEW S, NEW s \in Seq(S), NEW t \in Seq(S)
    PROVE  s \o t \in Seq(S) /\ Items(s \o t) = Items(s) \cup Items(t)
<1>1. /\ s \o t \in Seq(S) /\ Len(s \o t) = Len(s) + Len(t)
      /\ \A i \in 1 .. Len(s) + Len(t) :
           (s \o t)[i] = IF i <= Len(s) THEN s[i] ELSE t[i - Len(s)]
  BY ConcatProperties
<1>2. /\ DOMAIN s = 1 .. Len(s) /\ DOMAIN t = 1 .. Len(t)
      /\ DOMAIN (s \o t) = 1 .. Len(s) + Len(t)
      /\ Len(s) \in Nat /\ Len(t) \in Nat
  BY <1>1, LenProperties
<1>3. ASSUME NEW i \in DOMAIN (s \o t) PROVE (s \o t)[i] \in Items(s) \cup Items(t)
  <2>1. CASE i <= Len(s)
    BY <2>1, <1>1, <1>2 DEF Items
  <2>2. CASE ~(i <= Len(s))
    <3>1. i - Len(s) \in DOMAIN t /\ (s \o t)[i] = t[i - Len(s)]
      BY <2>2, <1>1, <1>2
    <3> QED BY <3>1 DEF Items
  <2> QED BY <2>1, <2>2
<1>4. ASSUME NEW i \in DOMAIN s PROVE s[i] \in Items(s \o t)
  <2>1. i \in DOMAIN (s \o t) /\ (s \o t)[i] = s[i]
    BY <1>1, <1>2
  <2> QED BY <2>1 DEF Items
<1>5. ASSUME NEW i \in DOMAIN t PROVE t[i] \in Items(s \o t)
  <2>1. i + Len(s) \in DOMAIN (s \o t) /\ (s \o t)[i + Len(s)] = t[(i + Len(s)) - Len(s)]
    BY <1>1, <1>2
  <2>2. (i + Len(s)) - Len(s) = i
    BY <1>2
  <2> QED BY <2>1, <2>2 DEF Items
<1> QED BY <1>1, <1>3, <1>4, <1>5 DEF Items

(* A source that resolves leads to a directory.                            *)
LEMMA ResolvedTarget ==
    ASSUME NEW b, NEW dir, NEW s, ResolveSource(dir, s, b) = "ok"
    PROVE  Target(dir, s) \in Dirs
<1>1. Target(dir, s) \in DirSet(b)
  BY DEF ResolveSource
<1> QED BY <1>1, DirsAssumption DEF DirSet

(* What one visit appends: the targets of the calls, every one a successor,*)
(* and a record of each.                                                   *)
Found == [caller : Dirs, call : Nat \ {0}, dir : Dirs]
LEMMA VisitTargets ==
    ASSUME TypeOK, NEW dir \in Dirs, AllResolve(bundle, dir)
    PROVE  /\ Targets(dir) \in Seq(Dirs)
           /\ Items(Targets(dir)) = Successors(bundle, dir)
           /\ Records(dir) \in Seq(Found)
<1> DEFINE calls == bundle[dir].calls
<1>1. calls \in Seq(Source)
  BY DEF TypeOK, Module
<1>2. Len(calls) \in Nat /\ DOMAIN calls = 1 .. Len(calls)
  BY <1>1, LenProperties
<1>3. \A i \in DOMAIN calls : ResolveSource(dir, calls[i], bundle) = "ok"
  BY DEF AllResolve, CallsOf
<1>4. \A i \in 1 .. Len(calls) : Target(dir, calls[i]) \in Dirs
  BY <1>2, <1>3, ResolvedTarget
<1>5. [i \in 1 .. Len(calls) |-> Target(dir, calls[i])] \in Seq(Dirs)
  BY <1>2, <1>4, IsASeq
<1>6. Targets(dir) = [i \in 1 .. Len(calls) |-> Target(dir, calls[i])]
  BY <1>2 DEF Targets
<1>7. Items(Targets(dir)) = Successors(bundle, dir)
  BY <1>2, <1>3, <1>6 DEF Items, Successors, CallsOf
<1>8. \A i \in 1 .. Len(calls) :
         [caller |-> dir, call |-> i, dir |-> Target(dir, calls[i])] \in Found
  BY <1>2, <1>4 DEF Found
<1>9. [i \in 1 .. Len(calls) |->
         [caller |-> dir, call |-> i, dir |-> Target(dir, calls[i])]] \in Seq(Found)
  BY <1>2, <1>8, IsASeq
<1>10. Records(dir) = [i \in 1 .. Len(calls) |->
         [caller |-> dir, call |-> i, dir |-> Target(dir, calls[i])]]
  BY <1>2, <1>6 DEF Records
<1> QED BY <1>5, <1>6, <1>7, <1>9, <1>10

(* A refusal carries one of the reasons there are.                         *)
LEMMA RefuseNamesReason == Refuse => verdict' \in Refusals
<1> SUFFICES ASSUME Refuse, verdict' # "invalid" PROVE verdict' \in Refusals
  BY DEF Refusals
<1>1. PICK i \in DOMAIN bundle[Head(queue)].calls :
         LET r == ResolveSource(Head(queue), bundle[Head(queue)].calls[i], bundle) IN
         r # "ok" /\ verdict' = r
  BY DEF Refuse
<1> QED BY <1>1 DEF ResolveSource, Refusals

(* The walk's state is always well formed.                                 *)
THEOREM CloseTypeCorrect == Spec => []TypeOK
<1>1. Init => TypeOK
  BY DirsAssumption, BundlesAssumption DEF Init, TypeOK
<1>2. TypeOK /\ [Next]_vars => TypeOK'
  <2> SUFFICES ASSUME TypeOK, [Next]_vars PROVE TypeOK'
    OBVIOUS
  <2>1. CASE SkipSeen
    BY <2>1, ItemsOfTail DEF TypeOK, SkipSeen
  <2>2. CASE Visit
    <3>1. Head(queue) \in Dirs /\ Tail(queue) \in Seq(Dirs)
      BY <2>2, ItemsOfTail DEF TypeOK, Visit
    <3>2. PICK dir \in Dirs : dir = Head(queue)
      BY <3>1
    <3>3. PICK ts \in Seq(Dirs), rs \in Seq(Found) :
             queue' = Tail(queue) \o ts /\ found' = found \o rs
      BY <2>2, <3>2, VisitTargets DEF Visit
    <3>4. queue' \in Seq(Dirs)
      BY <3>1, <3>3, ConcatProperties
    <3>5. found' \in Seq(Found)
      <4>1. found \in Seq(Found)
        BY DEF TypeOK, Found
      <4> QED BY <4>1, <3>3, ConcatProperties
    <3> QED BY <2>2, <3>1, <3>4, <3>5 DEF TypeOK, Visit, Found
  <2>3. CASE Refuse
    <3>1. Head(queue) \in Dirs /\ Tail(queue) \in Seq(Dirs)
      BY <2>3, ItemsOfTail DEF TypeOK, Refuse
    <3>2. verdict' \in Refusals
      BY <2>3, RefuseNamesReason
    <3> QED BY <2>3, <3>1, <3>2 DEF TypeOK, Refuse
  <2>4. CASE Accept
    BY <2>4 DEF TypeOK, Accept
  <2>5. CASE UNCHANGED vars
    BY <2>5 DEF TypeOK, vars
  <2> QED BY <2>1, <2>2, <2>3, <2>4, <2>5 DEF Next
<1> QED BY <1>1, <1>2, PTL DEF Spec

(* Close is a graph exploration of the uploaded call graph: every turn of  *)
(* its loop visits one pending directory, skips one, or ends the walk.     *)
THEOREM CloseImplementsWalk == Spec => WalkSpec
<1> DEFINE graphBar == CallGraph(bundle)
           pendingBar == Items(queue) \ seen
           statusBar == IF verdict = "walking" THEN "walking"
                        ELSE IF verdict = "closed" THEN "done" ELSE "abandoned"
<1>1. TypeOK => graphBar \in [Dirs -> SUBSET Dirs]
  BY ResolvedTarget DEF CallGraph, Successors
<1>2. TypeOK /\ Init => Walk!Init
  <2>1. Init => Items(queue) = {Root}
    BY DEF Init, Items
  <2> QED BY <1>1, <2>1, DirsAssumption DEF Init, Walk!Init, Items
<1>3. TypeOK /\ [Next]_vars => [Walk!Next]_(Walk!vars)
  <2> SUFFICES ASSUME TypeOK, [Next]_vars PROVE [Walk!Next]_(Walk!vars)
    OBVIOUS
  <2>1. CASE SkipSeen
    <3>1. Items(queue) = {Head(queue)} \cup Items(Tail(queue))
      BY <2>1, ItemsOfTail DEF TypeOK, SkipSeen
    <3>2. pendingBar' = pendingBar
      BY <2>1, <3>1 DEF SkipSeen, Items
    <3> QED BY <2>1, <3>2 DEF SkipSeen, Walk!vars, Items
  <2>2. CASE Visit
    <3>1. /\ Head(queue) \in Dirs /\ Tail(queue) \in Seq(Dirs)
          /\ Items(queue) = {Head(queue)} \cup Items(Tail(queue))
      BY <2>2, ItemsOfTail DEF TypeOK, Visit
    <3>2. PICK dir \in Dirs : dir = Head(queue)
      BY <3>1
    <3>3. PICK targets \in Seq(Dirs) :
             /\ Items(targets) = Successors(bundle, dir)
             /\ queue' = Tail(queue) \o targets
      BY <2>2, <3>2, VisitTargets DEF Visit
    <3>4. Items(queue') = Items(Tail(queue)) \cup Successors(bundle, dir)
      <4>1. PICK rest \in Seq(Dirs) : rest = Tail(queue)
        BY <3>1
      <4>2. Items(rest \o targets) = Items(rest) \cup Items(targets)
        BY ItemsOfConcat
      <4> QED BY <3>3, <4>1, <4>2
    <3>5. graphBar[dir] = Successors(bundle, dir)
      BY <3>2 DEF CallGraph
    <3>6. dir \in pendingBar /\ seen' = seen \cup {dir}
      BY <2>2, <3>1, <3>2 DEF Visit
    <3>7. pendingBar' = (pendingBar \cup graphBar[dir]) \ (seen \cup {dir})
      BY <3>1, <3>2, <3>4, <3>5, <3>6 DEF Items
    <3>8. Walk!Visit(dir)
      BY <2>2, <3>6, <3>7 DEF Walk!Visit, Visit, Items
    <3> QED BY <3>8 DEF Walk!Next
  <2>3. CASE Refuse
    <3> DEFINE dir == Head(queue)
    <3>1. Items(queue) = {dir} \cup Items(Tail(queue))
      BY <2>3, ItemsOfTail DEF TypeOK, Refuse
    <3>2. dir \in pendingBar /\ seen' = seen \cup {dir} /\ pendingBar' = pendingBar \ {dir}
      BY <2>3, <3>1 DEF Refuse, Items
    <3>3. verdict' \in Refusals
      BY <2>3, RefuseNamesReason
    <3>4. statusBar = "walking" /\ statusBar' = "abandoned"
      BY <2>3, <3>3 DEF Refuse, Refusals
    <3>5. Walk!Abandon
      BY <2>3, <3>2, <3>4 DEF Walk!Abandon, Refuse, Items
    <3> QED BY <3>5 DEF Walk!Next
  <2>4. CASE Accept
    <3>1. Items(queue) = {}
      BY <2>4 DEF Accept, Items
    <3> QED BY <2>4, <3>1 DEF Accept, Walk!Next, Walk!Finish, Items
  <2>5. CASE UNCHANGED vars
    BY <2>5 DEF vars, Walk!vars
  <2> QED BY <2>1, <2>2, <2>3, <2>4, <2>5 DEF Next
<1> QED BY <1>2, <1>3, CloseTypeCorrect, PTL DEF Spec, WalkSpec, Walk!Spec

(* Every directory walked without a refusal had only calls that resolve.   *)
LEMMA WalkedResolve ==
    Spec => [](verdict \notin Refusals => \A dir \in seen : AllResolve(bundle, dir))
<1> DEFINE Inv == verdict \notin Refusals => \A dir \in seen : AllResolve(bundle, dir)
<1>1. Init => Inv
  BY DEF Init
<1>2. Inv /\ [Next]_vars => Inv'
  <2> SUFFICES ASSUME Inv, [Next]_vars PROVE Inv'
    OBVIOUS
  <2>1. CASE SkipSeen
    BY <2>1 DEF SkipSeen
  <2>2. CASE Visit
    BY <2>2 DEF Visit, Refusals
  <2>3. CASE Refuse
    BY <2>3, RefuseNamesReason
  <2>4. CASE Accept
    BY <2>4 DEF Accept, Refusals
  <2>5. CASE UNCHANGED vars
    BY <2>5 DEF vars
  <2> QED BY <2>1, <2>2, <2>3, <2>4, <2>5 DEF Next
<1> QED BY <1>1, <1>2, PTL DEF Spec

(* So that what is proved of any walk holds of this one.                   *)
LEMMA WalkIsProvedOf == Spec => P!Spec
<1>1. Walk!Spec => P!Spec
  BY DEF Walk!Spec, P!Spec, Walk!Init, P!Init, Walk!Next, P!Next, Walk!vars, P!vars,
         Walk!Visit, P!Visit, Walk!Finish, P!Finish, Walk!Abandon, P!Abandon
<1> QED BY <1>1, CloseImplementsWalk, PTL DEF WalkSpec

LEMMA ClosedSawReachable == Spec => [](verdict = "closed" => seen = Reachable(bundle))
<1>1. Spec => []P!DoneSawReachable
  BY WalkIsProvedOf, P!WalkSeesReachable, PTL
<1>2. P!DoneSawReachable => (verdict = "closed" => seen = Reachable(bundle))
  BY DEF P!DoneSawReachable, Reachable, Walk!ReachableIn, P!ReachableIn, Walk!ClosedSet, P!ClosedSet
<1> QED BY <1>1, <1>2, PTL

(* What Close accepts is closed, for every bundle: each module that any    *)
(* chain of calls from the root leads to parses, and each of its calls     *)
(* names a directory of the bundle.                                        *)
THEOREM AcceptedBundleIsClosed == Spec => []AcceptedIsClosed
<1>1. (verdict \notin Refusals => \A dir \in seen : AllResolve(bundle, dir))
      /\ (verdict = "closed" => seen = Reachable(bundle))
    => AcceptedIsClosed
  BY DEF AcceptedIsClosed, Refusals
<1> QED BY <1>1, WalkedResolve, ClosedSawReachable, PTL

-----------------------------------------------------------------------------
(* What is met on the way is reachable.                                    *)
LEMMA MetIsReachable ==
    Spec => [](seen \cup Items(queue) \subseteq Reachable(bundle))
<1>1. Spec => []P!Frontier
  BY WalkIsProvedOf, P!WalkFrontier, PTL
<1>2. P!Frontier => seen \cup Items(queue) \subseteq Reachable(bundle)
  BY DEF P!Frontier, P!Met, Items, Reachable, Walk!ReachableIn, P!ReachableIn,
         Walk!ClosedSet, P!ClosedSet
<1> QED BY <1>1, <1>2, PTL

(* A fault that an error may name.                                         *)
Faulty(dir) ==
    \/ verdict = "invalid" /\ ~bundle[dir].parses
    \/ \E s \in CallsOf(bundle, dir) : ResolveSource(dir, s, bundle) = verdict

(* Close refuses no bundle but for a fault of a module that really is      *)
(* reachable, and names that fault.                                        *)
THEOREM RefusalsHaveCause == Spec => []RefusedForCause
<1> DEFINE Blamed == verdict \in Refusals => \E dir \in seen : Faulty(dir)
<1>1. Init => Blamed
  BY DEF Init, Refusals
<1>2. Blamed /\ [Next]_vars => Blamed'
  <2> SUFFICES ASSUME Blamed, [Next]_vars PROVE Blamed'
    OBVIOUS
  <2>1. CASE SkipSeen \/ Visit \/ Accept
    <3>1. verdict' \notin Refusals
      BY <2>1 DEF SkipSeen, Visit, Accept, Refusals
    <3> QED BY <3>1
  <2>2. CASE Refuse
    <3>1. Head(queue) \in seen' /\ bundle' = bundle
      BY <2>2 DEF Refuse
    <3>2. PICK dir : dir = Head(queue)
      OBVIOUS
    <3>3. dir \in seen' /\ \/ verdict' = "invalid" /\ ~bundle[dir].parses
                           \/ \E s \in CallsOf(bundle, dir) : ResolveSource(dir, s, bundle) = verdict'
      BY <2>2, <3>2 DEF Refuse, CallsOf
    <3> QED BY <3>1, <3>3 DEF Faulty
  <2>3. CASE UNCHANGED vars
    BY <2>3 DEF vars, Faulty
  <2> QED BY <2>1, <2>2, <2>3 DEF Next
<1>3. Blamed /\ seen \cup Items(queue) \subseteq Reachable(bundle) => RefusedForCause
  BY DEF RefusedForCause, Faulty
<1> QED BY <1>1, <1>2, <1>3, MetIsReachable, PTL DEF Spec

(* What has been recorded: the calls of the directories walked, each once. *)
Recorded ==
    /\ \A k \in DOMAIN found :
         found[k].caller \in seen /\ found[k].call \in DOMAIN bundle[found[k].caller].calls
    /\ verdict \notin Refusals =>
         \A d \in seen : \A i \in DOMAIN bundle[d].calls :
            \E k \in DOMAIN found : found[k].caller = d /\ found[k].call = i
    /\ \A j, k \in DOMAIN found :
         found[j].caller = found[k].caller /\ found[j].call = found[k].call => j = k

LEMMA RecordsKept ==
    ASSUME TypeOK, Recorded, Visit
    PROVE  Recorded'
<1>1. PICK dir \in Dirs : dir = Head(queue)
  BY ItemsOfTail DEF TypeOK, Visit
<1>2. /\ dir \notin seen /\ seen' = seen \cup {dir} /\ bundle' = bundle
      /\ verdict' = verdict /\ verdict = "walking"
      /\ found' = found \o Records(dir) /\ AllResolve(bundle, dir)
  BY <1>1 DEF Visit
<1>3. Records(dir) \in Seq(Found) /\ found \in Seq(Found)
  BY <1>2, VisitTargets DEF TypeOK, Found
<1>4. PICK calls \in Seq(Source) : calls = bundle[dir].calls
  BY DEF TypeOK, Module
<1>5. PICK many \in Nat : DOMAIN calls = 1 .. many /\ many = Len(calls)
  BY LenProperties
<1>6. /\ DOMAIN Records(dir) = 1 .. many
      /\ \A i \in 1 .. many : Records(dir)[i].caller = dir /\ Records(dir)[i].call = i
  BY <1>4, <1>5 DEF Records
<1>7. PICK len \in Nat : DOMAIN found = 1 .. len /\ Len(found) = len
  BY <1>3, LenProperties
<1>8. Len(Records(dir)) = many
  BY <1>3, <1>5, <1>6, LenProperties
<1>9. /\ DOMAIN found' = 1 .. (len + many)
      /\ \A k \in 1 .. len : found'[k] = found[k]
      /\ \A k \in 1 .. (len + many) :
           k > len => found'[k].caller = dir /\ found'[k].call = k - len /\ k - len \in 1 .. many
  <2>1. PICK rs \in Seq(Found) : rs = Records(dir) /\ Len(rs) = many
    BY <1>3, <1>8
  <2>2. /\ found \o rs \in Seq(Found)
        /\ Len(found \o rs) = len + many
        /\ \A i \in 1 .. len + many : (found \o rs)[i] = IF i <= len THEN found[i] ELSE rs[i - len]
    BY <1>3, <1>7, <2>1, ConcatProperties
  <2>3. found' = found \o rs
    BY <1>2, <2>1
  <2>4. PICK both : both = found \o rs
    OBVIOUS
  <2>5. /\ found' = both /\ both \in Seq(Found) /\ Len(both) = len + many
        /\ \A i \in 1 .. len + many : both[i] = IF i <= len THEN found[i] ELSE rs[i - len]
    BY <2>2, <2>3, <2>4
  <2>6. DOMAIN both = 1 .. (len + many)
    BY <2>5, LenProperties
  <2>7. ASSUME NEW k \in 1 .. len PROVE both[k] = found[k]
    BY <2>5
  <2>8. ASSUME NEW k \in 1 .. (len + many), k > len
        PROVE  both[k].caller = dir /\ both[k].call = k - len /\ k - len \in 1 .. many
    <3>1. k - len \in 1 .. many /\ both[k] = rs[k - len]
      BY <2>5, <2>8
    <3> QED BY <1>6, <2>1, <3>1
  <2> QED BY <2>5, <2>6, <2>7, <2>8
<1>10. \A k \in 1 .. len : found[k].caller \in seen /\ found[k].caller # dir
  BY <1>2, <1>7 DEF Recorded
<1>11. ASSUME NEW k \in DOMAIN found'
       PROVE  found'[k].caller \in seen' /\ found'[k].call \in DOMAIN bundle[found'[k].caller].calls
  <2>1. CASE k \in 1 .. len
    BY <1>2, <1>7, <1>9, <2>1 DEF Recorded
  <2>2. CASE k > len
    BY <1>2, <1>4, <1>5, <1>9, <2>2
  <2> QED BY <1>9, <2>1, <2>2
<1>12. ASSUME NEW d \in seen', NEW i \in DOMAIN bundle[d].calls
       PROVE  \E k \in DOMAIN found' : found'[k].caller = d /\ found'[k].call = i
  <2>1. CASE d \in seen
    <3>1. PICK k \in 1 .. len : found[k].caller = d /\ found[k].call = i
      BY <1>2, <1>7, <2>1 DEF Recorded, Refusals
    <3>2. k \in 1 .. (len + many)
      OBVIOUS
    <3> QED BY <1>9, <3>1, <3>2
  <2>2. CASE d = dir
    <3>1. i \in 1 .. many
      BY <1>4, <1>5, <2>2
    <3>2. PICK k \in 1 .. (len + many) : k = len + i /\ k > len /\ k - len = i
      BY <3>1
    <3> QED BY <1>9, <2>2, <3>2
  <2> QED BY <1>2, <2>1, <2>2
<1>13. ASSUME NEW j \in DOMAIN found', NEW k \in DOMAIN found',
              found'[j].caller = found'[k].caller, found'[j].call = found'[k].call
       PROVE  j = k
  <2>1. CASE j \in 1 .. len /\ k \in 1 .. len
    BY <1>7, <1>9, <1>13, <2>1 DEF Recorded
  <2>2. CASE j > len /\ k > len
    BY <1>9, <1>13, <2>2
  <2>3. CASE (j \in 1 .. len /\ k > len) \/ (j > len /\ k \in 1 .. len)
    BY <1>9, <1>10, <1>13, <2>3
  <2> QED BY <1>9, <2>1, <2>2, <2>3
<1> QED BY <1>2, <1>11, <1>12, <1>13 DEF Recorded

(* Whatever the bundle, what Close reports of one it accepts is every call *)
(* of every reachable module, once.                                        *)
THEOREM EveryCallReportedOnce == Spec => []CallsReportedOnce
<1>1. Init => Recorded
  BY DEF Init, Recorded
<1>2. TypeOK /\ Recorded /\ [Next]_vars => Recorded'
  <2> SUFFICES ASSUME TypeOK, Recorded, [Next]_vars PROVE Recorded'
    OBVIOUS
  <2>1. CASE SkipSeen
    BY <2>1 DEF SkipSeen, Recorded
  <2>2. CASE Visit
    BY <2>2, RecordsKept
  <2>3. CASE Refuse
    BY <2>3, RefuseNamesReason DEF Refuse, Recorded
  <2>4. CASE Accept
    BY <2>4 DEF Accept, Recorded, Refusals
  <2>5. CASE UNCHANGED vars
    BY <2>5 DEF vars, Recorded
  <2> QED BY <2>1, <2>2, <2>3, <2>4, <2>5 DEF Next
<1>3. Recorded /\ (verdict = "closed" => seen = Reachable(bundle)) => CallsReportedOnce
  <2> SUFFICES ASSUME Recorded, verdict = "closed", seen = Reachable(bundle)
      PROVE  {<<found[k].caller, found[k].call>> : k \in DOMAIN found}
               = UNION {{<<d, i>> : i \in DOMAIN bundle[d].calls} : d \in seen}
    BY DEF CallsReportedOnce, Recorded
  <2>1. verdict \notin Refusals
    BY DEF Refusals
  <2> QED BY <2>1 DEF Recorded
<1> QED BY <1>1, <1>2, <1>3, ClosedSawReachable, CloseTypeCorrect, PTL DEF Spec
=============================================================================

--------------------------- MODULE Fetcher_proofs ---------------------------
(***************************************************************************)
(* What holds of a fetcher over any registries, addresses and calls,       *)
(* however they change while it resolves.                                  *)
(***************************************************************************)
EXTENDS Fetcher, FiniteSetTheorems, SequenceTheorems, TLAPS

Call == Calls \cup Pulls
RegistryKeys == {<<"registry", p, v>> : p \in Pkg, v \in Version}
RemoteKeys == {<<"remote", b>> : b \in Base}
Constraints ==
    {c.allowed : c \in {d \in Call : d.kind = "registry"}} \cup {About[b].checksum : b \in Base}
Pins == [source : Pkg \cup Base, constraint : Constraints,
         resolved : Version \cup Content \cup {"none"}]
SubOf(c, v) == Location[c.pkg][v].down \o c.down
Subs == {c.down : c \in Call} \cup {SubOf(c, v) : c \in Call, v \in Version}
AnswerSet == [call : Call, tree : RegistryKeys \cup RemoteKeys, sub : Subs]

-----------------------------------------------------------------------------
(* The inductive invariant.                                                *)

WorldInv ==
    /\ published \in [Pkg -> SUBSET Version]
    /\ leads \in [Base -> Content]
    /\ \A b \in Base : leads[b] \in MayLead[b]

ListsInv == \A p \in DOMAIN versions : p \in Pkg /\ versions[p] \in SUBSET Version

(* The version a call is resolved to, out of the list read for its package.*)
Fitting(c, lists) == lists[c.pkg] \cap Allowed(c)
Listed(c, lists) == c.kind = "registry" /\ c.pkg \in DOMAIN lists
Chosen(c, v, lists) ==
    Listed(c, lists) /\ v \in Fitting(c, lists) /\ v = Max(Fitting(c, lists))

CallInv ==
    /\ step \in {"idle", "listing", "selecting", "locating", "fetching", "failed"}
    /\ step \in {"listing", "selecting", "locating", "fetching"} => call \in Call
    /\ step = "selecting" => Listed(call, versions)
    /\ step = "locating" => Chosen(call, version, versions)
    /\ step = "fetching" =>
         \/ /\ Chosen(call, version, versions)
            /\ RegistryKey \notin DOMAIN trees
            /\ base = Location[call.pkg][version].base
         \/ /\ call.kind = "remote"
            /\ RemoteKey \notin DOMAIN trees
            /\ base = call.base

(* A scratch directory is named before its tree is fetched and pinned.     *)
CountInv ==
    /\ n \in Nat
    /\ pins \in Seq(Pins)
    /\ IsFiniteSet(DOMAIN trees)
    /\ Cardinality(DOMAIN trees) = Len(pins)
    /\ step \in {"idle", "listing", "selecting", "locating"} => Len(pins) = n
    /\ step = "fetching" => Len(pins) = n - 1
    /\ Len(pins) <= n

(* A tree is what its key says, at its directory in the bundle.            *)
RegistryTree(key) == key \in RegistryKeys /\ trees[key].prefix = key
RemoteTree(key) ==
    /\ key \in RemoteKeys
    /\ trees[key].of = key[2]
    /\ trees[key].prefix = FetchedPrefix(About[key[2]], trees[key].holds)
    /\ About[key[2]].scheme = "file" => trees[key].holds \in MayLead[key[2]]
PinOf(key) ==
    LET pin == pins[trees[key].abs] IN
    IF key[1] = "registry" THEN pin.source = key[2] /\ pin.resolved = key[3]
    ELSE pin.source = key[2] /\ (About[key[2]].scheme # "file" => pin.resolved = trees[key].holds)
TreeInv(key) ==
    /\ trees[key].abs \in 1 .. Len(pins)
    /\ trees[key].holds \in Content
    /\ trees[key].of \in Base
    /\ RegistryTree(key) \/ RemoteTree(key)
    /\ MayBeFetched(key)
    /\ PinOf(key)
TreesInv == \A key \in DOMAIN trees : TreeInv(key)

(* An answer is the function of the call and the list it was read from     *)
(* that resolve computes, whenever it was given.                           *)
AnswerInv(x, known, lists) ==
    /\ x.tree \in known
    /\ \/ \E v \in Version :
            /\ Chosen(x.call, v, lists)
            /\ x.tree = <<"registry", x.call.pkg, v>>
            /\ x.sub = SubOf(x.call, v)
       \/ /\ x.call.kind = "remote"
          /\ x.tree = <<"remote", x.call.base>>
          /\ x.sub = x.call.down
AnswersInv ==
    /\ answers \in Seq(AnswerSet)
    /\ \A i \in DOMAIN answers : AnswerInv(answers[i], DOMAIN trees, versions)

PullInv ==
    /\ pulled \in {"none", "handed", "refused"}
    /\ scratch \in BOOLEAN
    /\ pulled = "none" => scratch
    /\ ScratchIsOwned

IInv == WorldInv /\ ListsInv /\ CallInv /\ CountInv /\ TreesInv /\ AnswersInv /\ PullInv

-----------------------------------------------------------------------------
(* The newest version of a list is one of it, and no other is newer.       *)
LEMMA MaxIsNewest ==
    ASSUME NEW S \in SUBSET Version, S # {}
    PROVE  Max(S) \in S /\ \A w \in S : w <= Max(S)
<1>1. PICK v \in S : \A w \in S : w <= v
  BY VersionsAssumption
<1>2. S \subseteq Nat
  BY FetcherAssumption
<1>3. \A w \in S : v >= w
  BY <1>1, <1>2
<1>4. Max(S) \in S /\ \A w \in S : Max(S) >= w
  BY <1>3 DEF Max
<1> QED BY <1>2, <1>4

LEMMA AppendFacts ==
    ASSUME NEW S, NEW s \in Seq(S), NEW e \in S
    PROVE  /\ Append(s, e) \in Seq(S)
           /\ Len(Append(s, e)) = Len(s) + 1
           /\ DOMAIN Append(s, e) = 1 .. (Len(s) + 1)
           /\ \A i \in 1 .. Len(s) : Append(s, e)[i] = s[i]
           /\ Append(s, e)[Len(s) + 1] = e
  BY AppendProperties

(* What a call carries.                                                    *)
LEMMA CallFacts ==
    ASSUME NEW c \in Call
    PROVE  /\ c.kind \in {"registry", "remote", "unsupported", "nonliteral"}
           /\ c.kind = "registry" =>
                /\ c.pkg \in Pkg /\ c.allowed \in Constraints
                /\ \A v \in Version : /\ <<"registry", c.pkg, v>> \in RegistryKeys
                                      /\ Location[c.pkg][v].base \in Base
                                      /\ SubOf(c, v) \in Subs
           /\ c.kind = "remote" =>
                c.base \in Base /\ <<"remote", c.base>> \in RemoteKeys /\ c.down \in Subs
<1>1. IsCall(c)
  BY FetcherAssumption DEF Call
<1>2. c.kind = "registry" => c.pkg \in Pkg /\ c.allowed \in Constraints
  BY <1>1 DEF IsCall, Constraints
<1>3. ASSUME c.kind = "registry", NEW v \in Version
      PROVE  /\ <<"registry", c.pkg, v>> \in RegistryKeys
             /\ Location[c.pkg][v].base \in Base
             /\ SubOf(c, v) \in Subs
  <2>1. c.pkg \in Pkg
    BY <1>2, <1>3
  <2>2. <<"registry", c.pkg, v>> \in RegistryKeys
    BY <2>1 DEF RegistryKeys
  <2>3. Location[c.pkg][v].base \in Base
    BY <2>1, FetcherAssumption
  <2>4. SubOf(c, v) \in Subs
    BY DEF Subs
  <2> QED BY <2>2, <2>3, <2>4
<1>4. c.down \in Subs
  BY DEF Subs
<1>5. c.kind = "remote" =>
        c.base \in Base /\ <<"remote", c.base>> \in RemoteKeys /\ c.down \in Subs
  BY <1>1, <1>4 DEF IsCall, RemoteKeys
<1>6. c.kind \in {"registry", "remote", "unsupported", "nonliteral"}
  BY <1>1 DEF IsCall
<1> QED BY <1>2, <1>3, <1>5, <1>6

-----------------------------------------------------------------------------
(* One lemma for the start and one for each kind of step.                  *)

LEMMA InitInv == Init => IInv
<1> SUFFICES ASSUME Init PROVE IInv
  OBVIOUS
<1>1. WorldInv
  BY FetcherAssumption DEF Init, WorldInv
<1>2. ListsInv /\ CallInv
  BY DEF Init, ListsInv, CallInv
<1>3. CountInv
  BY FS_EmptySet, EmptySeq DEF Init, CountInv
<1>4. TreesInv /\ AnswersInv
  BY EmptySeq DEF Init, TreesInv, AnswersInv
<1>5. PullInv
  BY DEF Init, PullInv, ScratchIsOwned
<1> QED BY <1>1, <1>2, <1>3, <1>4, <1>5 DEF IInv

(* What the trees, the pins and the answers say depends on nothing else.   *)
LEMMA Frozen ==
    ASSUME IInv, UNCHANGED <<trees, pins, answers, versions, policy, pulling>>
    PROVE  TreesInv' /\ AnswersInv' /\ ListsInv'
<1>1. ASSUME NEW key \in DOMAIN trees PROVE TreeInv(key)'
  <2>1. TreeInv(key)
    BY DEF IInv, TreesInv
  <2> QED BY <2>1 DEF TreeInv, RegistryTree, RemoteTree, PinOf, MayBeFetched
<1>2. TreesInv'
  BY <1>1 DEF TreesInv
<1>3. ASSUME NEW x, AnswerInv(x, DOMAIN trees, versions) PROVE AnswerInv(x, DOMAIN trees', versions')
  BY <1>3 DEF AnswerInv, Chosen, Listed, Fitting
<1>4. AnswersInv'
  BY <1>3 DEF IInv, AnswersInv
<1>5. ListsInv'
  BY DEF IInv, ListsInv
<1> QED BY <1>2, <1>4, <1>5

LEMMA WorldStep == IInv /\ (Publish \/ Move) => IInv'
<1> SUFFICES ASSUME IInv, Publish \/ Move PROVE IInv'
  OBVIOUS
<1>1. WorldInv'
  <2>1. CASE Publish
    BY <2>1 DEF Publish, IInv, WorldInv
  <2>2. CASE Move
    <3>1. PICK b \in Base : \E c \in MayLead[b] : leads' = [leads EXCEPT ![b] = c]
      BY <2>2 DEF Move
    <3>2. PICK c \in MayLead[b] : leads' = [leads EXCEPT ![b] = c]
      BY <3>1
    <3>3. c \in Content
      BY <3>2, FetcherAssumption
    <3> QED BY <2>2, <3>2, <3>3 DEF Move, IInv, WorldInv
  <2> QED BY <2>1, <2>2
<1>2. UNCHANGED <<policy, pulling, versions, asking, trees, pins, n, answers, pull>>
  BY DEF Publish, Move
<1>3. TreesInv' /\ AnswersInv' /\ ListsInv'
  BY <1>2, Frozen
<1>4. CallInv'
  BY <1>2 DEF IInv, CallInv, asking, Listed, Chosen, Fitting, RegistryKey, RemoteKey
<1>5. CountInv' /\ PullInv'
  BY <1>2 DEF IInv, CountInv, PullInv, asking, pull, ScratchIsOwned
<1> QED BY <1>1, <1>3, <1>4, <1>5 DEF IInv

LEMMA FailStep == IInv /\ Fail => IInv'
<1> SUFFICES ASSUME IInv, Fail PROVE IInv'
  OBVIOUS
<1>1. step' = "failed" /\ UNCHANGED <<outside, versions, call, version, base, trees, pins, n, answers, pull>>
  BY DEF Fail
<1>2. WorldInv' /\ CallInv' /\ PullInv'
  BY <1>1 DEF IInv, WorldInv, CallInv, PullInv, outside, pull, ScratchIsOwned
<1>3. CountInv'
  BY <1>1 DEF IInv, CountInv
<1>4. TreesInv' /\ AnswersInv' /\ ListsInv'
  BY <1>1, Frozen DEF outside
<1> QED BY <1>2, <1>3, <1>4 DEF IInv

(* A step of a call that ends nowhere yet: nothing fetched, nothing        *)
(* answered.                                                               *)
LEMMA AskStep == IInv /\ Ask => IInv'
<1> SUFFICES ASSUME IInv, Ask PROVE IInv'
  OBVIOUS
<1>1. /\ call' \in Call /\ step' = "listing" /\ step = "idle"
      /\ UNCHANGED <<outside, versions, version, base, trees, pins, n, answers, pull>>
  BY DEF Ask, Call
<1>2. WorldInv' /\ CallInv' /\ PullInv'
  BY <1>1 DEF IInv, WorldInv, CallInv, PullInv, outside, pull, ScratchIsOwned
<1>3. CountInv'
  BY <1>1 DEF IInv, CountInv
<1>4. TreesInv' /\ AnswersInv' /\ ListsInv'
  BY <1>1, Frozen DEF outside
<1> QED BY <1>2, <1>3, <1>4 DEF IInv

LEMMA SelectStep == IInv /\ Select => IInv'
<1> SUFFICES ASSUME IInv, Select PROVE IInv'
  OBVIOUS
<1>1. step = "selecting" /\ call \in Call /\ Listed(call, versions)
  BY DEF Select, IInv, CallInv
<1>2. Fitting(call, versions) \in SUBSET Version
  BY <1>1 DEF Listed, Fitting, IInv, ListsInv
<1>3. CASE Fitting(call, versions) = {}
  BY <1>3, FailStep DEF Select, Fitting
<1>4. CASE Fitting(call, versions) # {}
  <2>1. /\ version' = Max(Fitting(call, versions)) /\ step' = "locating"
        /\ UNCHANGED <<outside, versions, call, base, trees, pins, n, answers, pull>>
    BY <1>4 DEF Select, Fitting
  <2>2. Max(Fitting(call, versions)) \in Fitting(call, versions)
    BY <1>2, <1>4, MaxIsNewest
  <2>3. Chosen(call, version, versions)'
    BY <1>1, <2>1, <2>2 DEF Chosen, Listed, Fitting
  <2>4. WorldInv' /\ CallInv' /\ PullInv'
    BY <1>1, <2>1, <2>3 DEF IInv, WorldInv, CallInv, PullInv, outside, pull, ScratchIsOwned
  <2>5. CountInv'
    BY <1>1, <2>1 DEF IInv, CountInv
  <2>6. TreesInv' /\ AnswersInv' /\ ListsInv'
    BY <2>1, Frozen DEF outside
  <2> QED BY <2>4, <2>5, <2>6 DEF IInv
<1> QED BY <1>3, <1>4

(* A list read now is of a package that had none: no answer and no choice  *)
(* rests on it yet.                                                        *)
LEMMA ListStep == IInv /\ List => IInv'
<1> SUFFICES ASSUME IInv, List PROVE IInv'
  OBVIOUS
<1>1. /\ step = "listing" /\ step' = "selecting"
      /\ UNCHANGED <<outside, call, version, base, trees, pins, n, answers, pull>>
      /\ call \in Call /\ call.kind = "registry"
  BY DEF List, IInv, CallInv
<1>2. call.pkg \in Pkg
  BY <1>1, CallFacts
<1>3. /\ DOMAIN versions' = DOMAIN versions \cup {call.pkg}
      /\ \A p \in DOMAIN versions : versions'[p] = versions[p]
      /\ ListsInv'
  BY <1>2 DEF List, IInv, ListsInv, WorldInv
<1>4. WorldInv' /\ CallInv' /\ PullInv'
  BY <1>1, <1>3 DEF IInv, WorldInv, CallInv, PullInv, Listed, outside, pull, ScratchIsOwned
<1>5. CountInv'
  BY <1>1 DEF IInv, CountInv
<1>6. ASSUME NEW key \in DOMAIN trees PROVE TreeInv(key)'
  <2>1. TreeInv(key)
    BY DEF IInv, TreesInv
  <2> QED BY <1>1, <2>1 DEF TreeInv, RegistryTree, RemoteTree, PinOf, MayBeFetched, outside
<1>7. TreesInv'
  BY <1>1, <1>6 DEF TreesInv
<1>8. ASSUME NEW x, AnswerInv(x, DOMAIN trees, versions) PROVE AnswerInv(x, DOMAIN trees', versions')
  BY <1>1, <1>3, <1>8 DEF AnswerInv, Chosen, Listed, Fitting
<1>9. AnswersInv'
  BY <1>1, <1>8 DEF IInv, AnswersInv
<1> QED BY <1>3, <1>4, <1>5, <1>7, <1>9 DEF IInv

(* A new scratch directory is named for a key that has no tree.            *)
LEMMA LocateStep == IInv /\ (Locate \/ RemoteNew) => IInv'
<1> SUFFICES ASSUME IInv, Locate \/ RemoteNew PROVE IInv'
  OBVIOUS
<1>1. /\ step \in {"listing", "locating"} /\ step' = "fetching" /\ n' = n + 1 /\ call \in Call
      /\ UNCHANGED <<outside, versions, call, version, trees, pins, answers, pull>>
  BY DEF Locate, RemoteNew, IInv, CallInv
<1>2. CallInv'
  <2>1. CASE Locate
    BY <1>1, <2>1 DEF Locate, IInv, CallInv, RegistryKey, Chosen, Listed, Fitting
  <2>2. CASE RemoteNew
    BY <1>1, <2>2 DEF RemoteNew, IInv, CallInv, RemoteKey
  <2> QED BY <2>1, <2>2
<1>3. WorldInv' /\ PullInv'
  BY <1>1 DEF IInv, WorldInv, PullInv, outside, pull, ScratchIsOwned
<1>4. CountInv'
  <2>1. n \in Nat /\ Len(pins) = n
    BY <1>1 DEF IInv, CountInv
  <2>2. n' - 1 = n /\ n' \in Nat /\ n <= n'
    BY <1>1, <2>1
  <2> QED BY <1>1, <2>1, <2>2 DEF IInv, CountInv
<1>5. TreesInv' /\ AnswersInv' /\ ListsInv'
  BY <1>1, Frozen DEF outside
<1> QED BY <1>2, <1>3, <1>4, <1>5 DEF IInv

(* A call answered: the answers so far, and one more.                      *)
LEMMA AnswerStep ==
    ASSUME IInv, call \in Call, NEW key \in RegistryKeys \cup RemoteKeys, NEW sub \in Subs,
           Answered(key, sub),
           \A x : AnswerInv(x, DOMAIN trees, versions) => AnswerInv(x, DOMAIN trees', versions'),
           AnswerInv([call |-> call, tree |-> key, sub |-> sub], DOMAIN trees', versions')
    PROVE  AnswersInv'
<1> DEFINE new == [call |-> call, tree |-> key, sub |-> sub]
<1>1. new \in AnswerSet
  BY DEF AnswerSet
<1>2. answers \in Seq(AnswerSet) /\ \A i \in DOMAIN answers : AnswerInv(answers[i], DOMAIN trees, versions)
  BY DEF IInv, AnswersInv
<1>3. answers' = Append(answers, new)
  BY DEF Answered
<1> HIDE DEF new
<1>4. /\ answers' \in Seq(AnswerSet)
      /\ DOMAIN answers' = 1 .. (Len(answers) + 1)
      /\ \A i \in 1 .. Len(answers) : answers'[i] = answers[i]
      /\ answers'[Len(answers) + 1] = new
  BY <1>1, <1>2, <1>3, AppendFacts
<1>5. PICK len \in Nat : len = Len(answers) /\ DOMAIN answers = 1 .. len
  BY <1>2, LenProperties
<1>6. \A i \in 1 .. len : AnswerInv(answers'[i], DOMAIN trees', versions')
  BY <1>2, <1>4, <1>5
<1>7. AnswerInv(answers'[len + 1], DOMAIN trees', versions')
  BY <1>4, <1>5 DEF new
<1>8. \A i \in DOMAIN answers' : i \in 1 .. len \/ i = len + 1
  BY <1>4, <1>5
<1> QED BY <1>4, <1>6, <1>7, <1>8 DEF AnswersInv

LEMMA KnownStep == IInv /\ (RegistryKnown \/ RemoteKnown) => IInv'
<1> SUFFICES ASSUME IInv, RegistryKnown \/ RemoteKnown PROVE IInv'
  OBVIOUS
<1>1. CASE RegistryKnown /\ Location[call.pkg][version].up > 0
  BY <1>1, FailStep DEF RegistryKnown
<1>2. ASSUME NEW key \in RegistryKeys \cup RemoteKeys, NEW sub \in Subs,
             call \in Call, step \in {"listing", "locating"},
             Answered(key, sub), AnswerInv([call |-> call, tree |-> key, sub |-> sub], DOMAIN trees, versions),
             UNCHANGED <<outside, versions, call, version, base, trees, pins, n, pull>>
      PROVE  IInv'
  <2>1. \A x : AnswerInv(x, DOMAIN trees, versions) => AnswerInv(x, DOMAIN trees', versions')
    BY <1>2 DEF AnswerInv, Chosen, Listed, Fitting
  <2>2. AnswersInv'
    BY <1>2, <2>1, AnswerStep
  <2>3. WorldInv' /\ CallInv' /\ PullInv' /\ ListsInv'
    BY <1>2 DEF IInv, WorldInv, CallInv, PullInv, ListsInv, Answered, outside, pull, ScratchIsOwned
  <2>4. CountInv'
    BY <1>2 DEF IInv, CountInv, Answered
  <2>5. ASSUME NEW key2 \in DOMAIN trees PROVE TreeInv(key2)'
    <3>1. TreeInv(key2)
      BY DEF IInv, TreesInv
    <3> QED BY <1>2, <3>1 DEF TreeInv, RegistryTree, RemoteTree, PinOf, MayBeFetched, outside
  <2>6. TreesInv'
    BY <1>2, <2>5 DEF TreesInv
  <2> QED BY <2>2, <2>3, <2>4, <2>6 DEF IInv
<1>3. CASE RegistryKnown /\ ~(Location[call.pkg][version].up > 0)
  <2>1. /\ step = "locating" /\ call \in Call /\ Chosen(call, version, versions)
        /\ RegistryKey \in DOMAIN trees
        /\ Answered(RegistryKey, SubOf(call, version))
        /\ UNCHANGED <<outside, versions, call, version, base, trees, pins, n, pull>>
    BY <1>3 DEF RegistryKnown, RegistrySubdir, SubOf, IInv, CallInv
  <2>2. version \in Version /\ call.kind = "registry"
    BY <2>1 DEF Chosen, Listed, Fitting, IInv, ListsInv
  <2>3. RegistryKey \in RegistryKeys /\ SubOf(call, version) \in Subs
    BY <2>1, <2>2, CallFacts DEF RegistryKey
  <2>4. AnswerInv([call |-> call, tree |-> RegistryKey, sub |-> SubOf(call, version)], DOMAIN trees, versions)
    BY <2>1, <2>2 DEF AnswerInv, RegistryKey
  <2> QED BY <1>2, <2>1, <2>3, <2>4
<1>4. CASE RemoteKnown
  <2>1. /\ step = "listing" /\ call \in Call /\ call.kind = "remote"
        /\ RemoteKey \in DOMAIN trees
        /\ Answered(RemoteKey, call.down)
        /\ UNCHANGED <<outside, versions, call, version, base, trees, pins, n, pull>>
    BY <1>4 DEF RemoteKnown, IInv, CallInv
  <2>2. RemoteKey \in RemoteKeys /\ call.down \in Subs
    BY <2>1, CallFacts DEF RemoteKey
  <2>3. AnswerInv([call |-> call, tree |-> RemoteKey, sub |-> call.down], DOMAIN trees, versions)
    BY <2>1 DEF AnswerInv, RemoteKey
  <2> QED BY <1>2, <2>1, <2>2, <2>3
<1> QED BY <1>1, <1>3, <1>4

LEMMA PullStep == IInv /\ (PullRefused \/ PullEnds) => IInv'
<1> SUFFICES ASSUME IInv, PullRefused \/ PullEnds PROVE IInv'
  OBVIOUS
<1>1. UNCHANGED <<outside, versions, asking, trees, pins, n, answers>>
  BY DEF PullRefused, PullEnds
<1>2. PullInv'
  BY DEF PullRefused, PullEnds, IInv, PullInv, ScratchIsOwned
<1>3. WorldInv' /\ CountInv'
  BY <1>1 DEF IInv, WorldInv, CountInv, outside, asking
<1>4. CallInv'
  BY <1>1 DEF IInv, CallInv, asking, Listed, Chosen, Fitting, RegistryKey, RemoteKey
<1>5. TreesInv' /\ AnswersInv' /\ ListsInv'
  BY <1>1, Frozen DEF outside
<1> QED BY <1>2, <1>3, <1>4, <1>5 DEF IInv

-----------------------------------------------------------------------------
(* A tree fetched: what was known stays, and the new tree is pinned last.  *)

LEMMA RecordStep ==
    ASSUME IInv, step = "fetching", NEW key, NEW prefix, NEW pin \in Pins, NEW got,
           key \notin DOMAIN trees, Record(key, prefix, pin, got)
    PROVE  /\ DOMAIN trees' = DOMAIN trees \cup {key}
           /\ trees'[key] = [abs |-> n, prefix |-> prefix, holds |-> got, of |-> base]
           /\ pins' \in Seq(Pins) /\ Len(pins') = n /\ n \in 1 .. n
           /\ pins'[n] = pin
           /\ IsFiniteSet(DOMAIN trees') /\ Cardinality(DOMAIN trees') = Len(pins')
           /\ \A k \in DOMAIN trees :
                /\ trees'[k] = trees[k]
                /\ trees[k].abs \in 1 .. n
                /\ pins'[trees[k].abs] = pins[trees[k].abs]
<1>1. DOMAIN trees' = DOMAIN trees \cup {key}
  BY DEF Record
<1>2. trees'[key] = [abs |-> n, prefix |-> prefix, holds |-> got, of |-> base]
  BY DEF Record
<1>3. PICK len \in Nat : len = Len(pins) /\ n = len + 1
  <2>1. PICK len \in Nat : len = Len(pins) /\ len = n - 1 /\ n \in Nat
    BY LenProperties DEF IInv, CountInv
  <2> QED BY <2>1
<1>4. /\ pins' \in Seq(Pins) /\ Len(pins') = len + 1 /\ pins'[len + 1] = pin
      /\ \A i \in 1 .. len : pins'[i] = pins[i]
  BY <1>3, AppendFacts DEF Record, IInv, CountInv
<1>5. IsFiniteSet(DOMAIN trees') /\ Cardinality(DOMAIN trees') = len + 1
  <2>1. /\ IsFiniteSet(DOMAIN trees \cup {key})
        /\ Cardinality(DOMAIN trees \cup {key}) = Cardinality(DOMAIN trees) + 1
    BY FS_AddElement DEF IInv, CountInv
  <2>2. Cardinality(DOMAIN trees) = len
    BY <1>3 DEF IInv, CountInv
  <2> QED BY <1>1, <2>1, <2>2
<1>6. ASSUME NEW k \in DOMAIN trees
      PROVE  /\ trees'[k] = trees[k]
             /\ trees[k].abs \in 1 .. n
             /\ pins'[trees[k].abs] = pins[trees[k].abs]
  <2>1. trees[k].abs \in 1 .. len
    BY <1>3 DEF IInv, TreesInv, TreeInv
  <2>2. trees'[k] = trees[k]
    BY DEF Record
  <2> QED BY <1>3, <1>4, <2>1, <2>2
<1>7. n \in 1 .. n
  BY <1>3
<1> QED BY <1>1, <1>2, <1>3, <1>4, <1>5, <1>6, <1>7

(* What arrived, whichever way the fetch goes on: the trees stay as they   *)
(* should be if the new one is.                                            *)
LEMMA TreesAfter ==
    ASSUME IInv, step = "fetching", NEW key, NEW prefix, NEW pin \in Pins, NEW got,
           key \notin DOMAIN trees, Record(key, prefix, pin, got),
           UNCHANGED <<policy, pulling>>, TreeInv(key)'
    PROVE  TreesInv'
<1>1. /\ DOMAIN trees' = DOMAIN trees \cup {key}
      /\ Len(pins') = n
      /\ \A k \in DOMAIN trees : /\ trees'[k] = trees[k]
                                 /\ trees[k].abs \in 1 .. n
                                 /\ pins'[trees[k].abs] = pins[trees[k].abs]
  BY RecordStep
<1>2. ASSUME NEW k \in DOMAIN trees PROVE TreeInv(k)'
  <2>1. TreeInv(k)
    BY DEF IInv, TreesInv
  <2> QED BY <1>1, <2>1 DEF TreeInv, RegistryTree, RemoteTree, PinOf, MayBeFetched
<1> QED BY <1>1, <1>2 DEF TreesInv

(* What may be fetched was asked before, and what arrived is content.      *)
LEMMA FetchAsked ==
    ASSUME IInv, base \in Base, ~FetchRefuses(About[base]),
           NEW got \in {leads[base]} \cup
                       (IF About[base].scheme \in {"git", "gitfile"} THEN {NotCommit} ELSE {}),
           Delivers(About[base], got)
    PROVE  /\ got \in Content /\ got \in MayLead[base]
           /\ About[base].scheme = "file" => call.kind = "remote" /\ ~pulling /\ ~About[base].outside
           /\ About[base].scheme = "gitfile" => ~policy
           /\ About[base].scheme = "http" /\ About[base].checksum # {} => got \in About[base].checksum
           /\ About[base].scheme # "none"
<1>1. got = leads[base]
  BY DEF Delivers
<1>2. got \in Content /\ got \in MayLead[base]
  BY <1>1 DEF IInv, WorldInv
<1>3. /\ About[base].scheme = "file" => call.kind = "remote" /\ ~pulling /\ ~About[base].outside
      /\ About[base].scheme = "gitfile" => ~policy
      /\ About[base].scheme # "none"
  BY DEF FetchRefuses, LocalWillDo
<1>4. About[base].scheme = "http" /\ About[base].checksum # {} => got \in About[base].checksum
  BY DEF Delivers
<1> QED BY <1>2, <1>3, <1>4

(* Calls answered before are answered the same now that there is one tree  *)
(* more.                                                                   *)
LEMMA AnswersKept ==
    ASSUME UNCHANGED versions, DOMAIN trees \subseteq DOMAIN trees'
    PROVE  \A x : AnswerInv(x, DOMAIN trees, versions) => AnswerInv(x, DOMAIN trees', versions')
  BY DEF AnswerInv, Chosen, Listed, Fitting

LEMMA FetchRegistry ==
    ASSUME IInv, step = "fetching", call \in Call, Chosen(call, version, versions),
           RegistryKey \notin DOMAIN trees, base = Location[call.pkg][version].base,
           ~FetchRefuses(About[base]),
           NEW got \in {leads[base]} \cup
                       (IF About[base].scheme \in {"git", "gitfile"} THEN {NotCommit} ELSE {}),
           Delivers(About[base], got),
           Record(RegistryKey, <<"registry", call.pkg, version>>,
                  [source |-> call.pkg, constraint |-> call.allowed, resolved |-> version], got),
           \/ step' = "failed" /\ UNCHANGED answers
           \/ Answered(RegistryKey, SubOf(call, version)),
           UNCHANGED <<outside, versions, call, version, base, n, pull>>
    PROVE  IInv'
<1> DEFINE pin == [source |-> call.pkg, constraint |-> call.allowed, resolved |-> version]
<1>1. version \in Version /\ call.kind = "registry" /\ call.pkg \in Pkg
  BY CallFacts DEF Chosen, Listed, Fitting, IInv, ListsInv
<1>2. /\ RegistryKey \in RegistryKeys /\ SubOf(call, version) \in Subs
      /\ base \in Base /\ call.allowed \in Constraints
  BY <1>1, CallFacts DEF RegistryKey
<1>3. pin \in Pins
  BY <1>1, <1>2 DEF Pins
<1>4. /\ got \in Content /\ About[base].scheme # "file"
      /\ About[base].scheme = "gitfile" => ~policy
      /\ About[base].scheme = "http" /\ About[base].checksum # {} => got \in About[base].checksum
  BY <1>1, <1>2, FetchAsked
<1> HIDE DEF pin
<1>5. PICK key : key = RegistryKey /\ key = <<"registry", call.pkg, version>>
  BY DEF RegistryKey
<1>6. Record(key, key, pin, got) /\ key \notin DOMAIN trees
  BY <1>5, Zenon DEF pin
<1>7. /\ DOMAIN trees' = DOMAIN trees \cup {key}
      /\ trees'[key] = [abs |-> n, prefix |-> key, holds |-> got, of |-> base]
      /\ pins' \in Seq(Pins) /\ Len(pins') = n /\ n \in 1 .. n
      /\ pins'[n] = pin
      /\ IsFiniteSet(DOMAIN trees') /\ Cardinality(DOMAIN trees') = Len(pins')
  BY <1>3, <1>6, RecordStep
<1>8. TreeInv(key)'
  <2>1. PICK tree : tree = trees'[key]
    OBVIOUS
  <2>2. tree.abs = n /\ tree.prefix = key /\ tree.holds = got /\ tree.of = base
    BY <1>7, <2>1
  <2>3. tree.abs \in 1 .. Len(pins') /\ tree.holds \in Content /\ tree.of \in Base
    BY <1>2, <1>4, <1>7, <2>2
  <2>4. RegistryTree(key)'
    BY <1>2, <1>5, <2>1, <2>2 DEF RegistryTree
  <2>5. key[1] = "registry" /\ key[2] = call.pkg /\ key[3] = version
    BY <1>5
  <2>6. MayBeFetched(key)'
    BY <1>4, <2>1, <2>2, <2>5 DEF MayBeFetched, outside
  <2>7. pins'[tree.abs].source = call.pkg /\ pins'[tree.abs].resolved = version
    BY <1>7, <2>2 DEF pin
  <2>8. PinOf(key)'
    BY <2>1, <2>5, <2>7 DEF PinOf
  <2> QED BY <2>1, <2>3, <2>4, <2>6, <2>8 DEF TreeInv
<1>9. TreesInv'
  BY <1>3, <1>6, <1>8, TreesAfter DEF outside
<1>10. CountInv'
  BY <1>7 DEF IInv, CountInv, Answered
<1>11. WorldInv' /\ ListsInv' /\ PullInv'
  BY DEF IInv, WorldInv, ListsInv, PullInv, outside, pull, ScratchIsOwned
<1>12. CallInv'
  BY DEF IInv, CallInv, Answered
<1>13. AnswersInv'
  <2>1. \A x : AnswerInv(x, DOMAIN trees, versions) => AnswerInv(x, DOMAIN trees', versions')
    BY <1>7, AnswersKept
  <2>2. CASE UNCHANGED answers
    BY <2>1, <2>2 DEF IInv, AnswersInv
  <2>3. CASE Answered(RegistryKey, SubOf(call, version))
    <3>1. AnswerInv([call |-> call, tree |-> RegistryKey, sub |-> SubOf(call, version)],
                    DOMAIN trees', versions')
      BY <1>1, <1>5, <1>7 DEF AnswerInv, RegistryKey, Chosen, Listed, Fitting
    <3> QED BY <1>2, <2>1, <2>3, <3>1, AnswerStep
  <2> QED BY <2>2, <2>3
<1> QED BY <1>9, <1>10, <1>11, <1>12, <1>13 DEF IInv

LEMMA FetchRemote ==
    ASSUME IInv, step = "fetching", call \in Call, call.kind = "remote",
           RemoteKey \notin DOMAIN trees, base = call.base,
           ~FetchRefuses(About[base]),
           NEW got \in {leads[base]} \cup
                       (IF About[base].scheme \in {"git", "gitfile"} THEN {NotCommit} ELSE {}),
           Delivers(About[base], got),
           Record(RemoteKey, FetchedPrefix(About[base], got),
                  [source |-> base, constraint |-> About[base].checksum,
                   resolved |-> IF About[base].scheme = "file" THEN "none" ELSE got], got),
           Answered(RemoteKey, call.down),
           UNCHANGED <<outside, versions, call, version, base, n, pull>>
    PROVE  IInv'
<1> DEFINE pin == [source |-> base, constraint |-> About[base].checksum,
                   resolved |-> IF About[base].scheme = "file" THEN "none" ELSE got]
<1>1. base \in Base /\ RemoteKey \in RemoteKeys /\ call.down \in Subs
  BY CallFacts DEF RemoteKey
<1>2. /\ got \in Content /\ got \in MayLead[base]
      /\ About[base].scheme = "file" => ~pulling /\ ~About[base].outside
      /\ About[base].scheme = "gitfile" => ~policy
      /\ About[base].scheme = "http" /\ About[base].checksum # {} => got \in About[base].checksum
  BY <1>1, FetchAsked
<1>3. pin \in Pins
  <2>1. About[base].checksum \in Constraints
    BY <1>1 DEF Constraints
  <2>2. (IF About[base].scheme = "file" THEN "none" ELSE got) \in Version \cup Content \cup {"none"}
    BY <1>2
  <2> QED BY <1>1, <2>1, <2>2 DEF Pins
<1>4. pin.source = base /\ (About[base].scheme # "file" => pin.resolved = got)
  OBVIOUS
<1> HIDE DEF pin
<1>5. PICK b \in Base : b = base
  BY <1>1
<1>6. PICK key : key = RemoteKey /\ key = <<"remote", b>>
  BY <1>5 DEF RemoteKey
<1>7. PICK prefix : prefix = FetchedPrefix(About[b], got)
  OBVIOUS
<1>8. Record(key, prefix, pin, got) /\ key \notin DOMAIN trees
  BY <1>5, <1>6, <1>7, Zenon DEF pin
<1>9. /\ DOMAIN trees' = DOMAIN trees \cup {key}
      /\ trees'[key] = [abs |-> n, prefix |-> prefix, holds |-> got, of |-> base]
      /\ pins' \in Seq(Pins) /\ Len(pins') = n /\ n \in 1 .. n
      /\ pins'[n] = pin
      /\ IsFiniteSet(DOMAIN trees') /\ Cardinality(DOMAIN trees') = Len(pins')
  BY <1>3, <1>8, RecordStep
<1>10. TreeInv(key)'
  <2>1. PICK tree : tree = trees'[key]
    OBVIOUS
  <2>2. tree.abs = n /\ tree.prefix = prefix /\ tree.holds = got /\ tree.of = b
    BY <1>5, <1>9, <2>1
  <2>3. tree.abs \in 1 .. Len(pins') /\ tree.holds \in Content /\ tree.of \in Base
    BY <1>2, <1>9, <2>2
  <2>4. key[1] = "remote" /\ key[2] = b
    BY <1>6
  <2>5. RemoteTree(key)'
    BY <1>1, <1>2, <1>5, <1>6, <1>7, <2>1, <2>2, <2>4 DEF RemoteTree
  <2>6. MayBeFetched(key)'
    BY <1>2, <1>5, <2>1, <2>2, <2>4 DEF MayBeFetched, outside
  <2>7. pins'[tree.abs] = pin
    BY <1>9, <2>2
  <2>8. PinOf(key)'
    BY <1>4, <1>5, <2>1, <2>2, <2>4, <2>7 DEF PinOf
  <2> QED BY <2>1, <2>3, <2>5, <2>6, <2>8 DEF TreeInv
<1>11. TreesInv'
  BY <1>3, <1>8, <1>10, TreesAfter DEF outside
<1>12. CountInv'
  BY <1>9 DEF IInv, CountInv, Answered
<1>13. WorldInv' /\ ListsInv' /\ PullInv'
  BY DEF IInv, WorldInv, ListsInv, PullInv, outside, pull, ScratchIsOwned
<1>14. CallInv'
  BY DEF IInv, CallInv, Answered
<1>15. AnswersInv'
  <2>1. \A x : AnswerInv(x, DOMAIN trees, versions) => AnswerInv(x, DOMAIN trees', versions')
    BY <1>9, AnswersKept
  <2>2. AnswerInv([call |-> call, tree |-> RemoteKey, sub |-> call.down], DOMAIN trees', versions')
    BY <1>6, <1>9 DEF AnswerInv, RemoteKey
  <2> QED BY <1>1, <2>1, <2>2, AnswerStep
<1> QED BY <1>11, <1>12, <1>13, <1>14, <1>15 DEF IInv

LEMMA FetchStep == IInv /\ Fetch => IInv'
<1> SUFFICES ASSUME IInv, Fetch PROVE IInv'
  OBVIOUS
<1>1. step = "fetching" /\ call \in Call
  BY DEF Fetch, IInv, CallInv
<1>2. CASE FetchRefuses(About[base])
  BY <1>2, FailStep DEF Fetch
<1>3. CASE ~FetchRefuses(About[base])
  <2>1. PICK got \in {leads[base]} \cup
                     (IF About[base].scheme \in {"git", "gitfile"} THEN {NotCommit} ELSE {}) :
          IF ~Delivers(About[base], got) THEN Fail
          ELSE IF call.kind = "registry"
            THEN LET loc == Location[call.pkg][version] IN
                 /\ Record(RegistryKey, <<"registry", call.pkg, version>>,
                           [source |-> call.pkg, constraint |-> call.allowed, resolved |-> version], got)
                 /\ IF loc.up > 0 THEN step' = "failed" /\ UNCHANGED answers
                    ELSE Answered(RegistryKey, RegistrySubdir(loc))
                 /\ UNCHANGED <<outside, versions, call, version, base, n, pull>>
            ELSE /\ Record(RemoteKey, FetchedPrefix(About[base], got),
                           [source |-> base, constraint |-> About[base].checksum,
                            resolved |-> IF About[base].scheme = "file" THEN "none" ELSE got], got)
                 /\ Answered(RemoteKey, call.down)
                 /\ UNCHANGED <<outside, versions, call, version, base, n, pull>>
    BY <1>3, Zenon DEF Fetch
  <2>2. CASE ~Delivers(About[base], got)
    BY <2>1, <2>2, FailStep
  <2>3. CASE Delivers(About[base], got) /\ call.kind = "registry"
    <3>1. /\ Chosen(call, version, versions)
          /\ RegistryKey \notin DOMAIN trees
          /\ base = Location[call.pkg][version].base
      BY <1>1, <2>3 DEF IInv, CallInv
    <3>2. /\ Record(RegistryKey, <<"registry", call.pkg, version>>,
                    [source |-> call.pkg, constraint |-> call.allowed, resolved |-> version], got)
          /\ \/ step' = "failed" /\ UNCHANGED answers
             \/ Answered(RegistryKey, RegistrySubdir(Location[call.pkg][version]))
          /\ UNCHANGED <<outside, versions, call, version, base, n, pull>>
      BY <2>1, <2>3, Zenon
    <3>3. RegistrySubdir(Location[call.pkg][version]) = SubOf(call, version)
      BY DEF RegistrySubdir, SubOf
    <3>4. \/ step' = "failed" /\ UNCHANGED answers
          \/ Answered(RegistryKey, SubOf(call, version))
      BY <3>2, <3>3
    <3> QED BY <1>1, <1>3, <2>3, <3>1, <3>2, <3>4, FetchRegistry
  <2>4. CASE Delivers(About[base], got) /\ call.kind # "registry"
    <3>1. call.kind = "remote" /\ RemoteKey \notin DOMAIN trees /\ base = call.base
      BY <1>1, <2>4 DEF IInv, CallInv, Chosen, Listed
    <3>2. /\ Record(RemoteKey, FetchedPrefix(About[base], got),
                    [source |-> base, constraint |-> About[base].checksum,
                     resolved |-> IF About[base].scheme = "file" THEN "none" ELSE got], got)
          /\ Answered(RemoteKey, call.down)
          /\ UNCHANGED <<outside, versions, call, version, base, n, pull>>
      BY <2>1, <2>4, Zenon
    <3> QED BY <1>1, <1>3, <2>4, <3>1, <3>2, FetchRemote
  <2> QED BY <2>2, <2>3, <2>4
<1> QED BY <1>2, <1>3

LEMMA NextStep == IInv /\ [Next]_vars => IInv'
<1> SUFFICES ASSUME IInv, [Next]_vars PROVE IInv'
  OBVIOUS
<1>1. CASE Publish \/ Move
  BY <1>1, WorldStep
<1>2. CASE PullRefused \/ PullEnds
  BY <1>2, PullStep
<1>3. CASE Ask
  BY <1>3, AskStep
<1>4. CASE RefuseKind \/ RegistryFails \/ RemoteClimbs \/ FetchFails
  BY <1>4, FailStep DEF RefuseKind, RegistryFails, RemoteClimbs, FetchFails
<1>5. CASE List
  BY <1>5, ListStep
<1>6. CASE Select
  BY <1>6, SelectStep
<1>7. CASE RegistryKnown \/ RemoteKnown
  BY <1>7, KnownStep
<1>8. CASE Locate \/ RemoteNew
  BY <1>8, LocateStep
<1>9. CASE Fetch
  BY <1>9, FetchStep
<1>10. CASE UNCHANGED vars
  <2>1. UNCHANGED <<outside, versions, asking, trees, pins, n, answers, pull>>
    BY <1>10 DEF vars
  <2>2. WorldInv' /\ CountInv' /\ PullInv'
    BY <2>1 DEF IInv, WorldInv, CountInv, PullInv, outside, asking, pull, ScratchIsOwned
  <2>3. CallInv'
    BY <2>1 DEF IInv, CallInv, asking, Listed, Chosen, Fitting, RegistryKey, RemoteKey
  <2>4. TreesInv' /\ AnswersInv' /\ ListsInv'
    BY <2>1, Frozen DEF outside
  <2> QED BY <2>2, <2>3, <2>4 DEF IInv
<1> QED
  BY <1>1, <1>2, <1>3, <1>4, <1>5, <1>6, <1>7, <1>8, <1>9, <1>10 DEF Next

LEMMA Inductive == Spec => []IInv
  BY InitInv, NextStep, PTL DEF Spec

-----------------------------------------------------------------------------
(* What the invariant gives.                                               *)

LEMMA TypeFollows == IInv => FetcherTypeOK
<1> SUFFICES ASSUME IInv PROVE FetcherTypeOK
  OBVIOUS
<1>1. ASSUME NEW key \in DOMAIN trees
      PROVE  trees[key].abs \in 1 .. n /\ trees[key].holds \in Content /\ MayBeFetched(key)
  <2>1. TreeInv(key)
    BY DEF IInv, TreesInv
  <2>2. PICK len \in Nat : len = Len(pins) /\ len <= n /\ n \in Nat
    BY LenProperties DEF IInv, CountInv
  <2> QED BY <2>1, <2>2 DEF TreeInv
<1>2. ASSUME NEW i \in DOMAIN answers
      PROVE  answers[i].tree \in DOMAIN trees /\ AnswersInKind(answers[i])
  <2>1. PICK x : x = answers[i]
    OBVIOUS
  <2>2. AnswerInv(x, DOMAIN trees, versions)
    BY <2>1 DEF IInv, AnswersInv
  <2>3. ASSUME NEW v, Chosen(x.call, v, versions) PROVE x.call.kind = "registry" /\ v \in Allowed(x.call)
    BY <2>3 DEF Chosen, Listed, Fitting
  <2>4. AnswersInKind(x)
    BY <2>2, <2>3 DEF AnswerInv, AnswersInKind
  <2> QED BY <2>1, <2>2, <2>4 DEF AnswerInv
<1>3. \A i \in DOMAIN pins : pins[i].source \in Pkg \cup Base
  <2>1. \A i \in DOMAIN pins : pins[i] \in Pins
    BY ElementOfSeq, LenProperties DEF IInv, CountInv
  <2> QED BY <2>1 DEF Pins
<1>4. /\ step \in {"idle", "listing", "selecting", "locating", "fetching", "failed"}
      /\ n \in Nat
      /\ pulled \in {"none", "handed", "refused"} /\ scratch \in BOOLEAN
  BY DEF IInv, CallInv, CountInv, PullInv
<1> QED BY <1>1, <1>2, <1>3, <1>4 DEF FetcherTypeOK

(* A registry's version is chosen from the call and the list alone.        *)
LEMMA SameAnswer ==
    ASSUME NEW x, NEW y, NEW known, NEW lists, x.call = y.call,
           AnswerInv(x, known, lists), AnswerInv(y, known, lists)
    PROVE  x.tree = y.tree /\ x.sub = y.sub
<1>1. CASE x.call.kind = "registry"
  BY <1>1 DEF AnswerInv, Chosen
<1>2. CASE x.call.kind # "registry"
  BY <1>2 DEF AnswerInv, Chosen, Listed
<1> QED BY <1>1, <1>2

LEMMA NoOlderThanAllowed ==
    ASSUME ListsInv, NEW x, NEW y, NEW known,
           AnswerInv(x, known, versions), AnswerInv(y, known, versions),
           x.tree[1] = "registry", y.tree[1] = "registry", x.tree[2] = y.tree[2],
           x.tree[3] \in Allowed(y.call)
    PROVE  x.tree[3] <= y.tree[3]
<1>1. PICK v \in Version : Chosen(x.call, v, versions) /\ x.tree = <<"registry", x.call.pkg, v>>
  BY DEF AnswerInv
<1>2. PICK w \in Version : Chosen(y.call, w, versions) /\ y.tree = <<"registry", y.call.pkg, w>>
  BY DEF AnswerInv
<1>3. x.call.pkg = y.call.pkg /\ x.tree[3] = v /\ y.tree[3] = w
  BY <1>1, <1>2
<1>4. v \in Fitting(y.call, versions)
  BY <1>1, <1>3 DEF Chosen, Fitting
<1>5. Fitting(y.call, versions) \in SUBSET Version
  BY <1>2 DEF Chosen, Listed, Fitting, ListsInv
<1>6. v <= Max(Fitting(y.call, versions))
  BY <1>4, <1>5, MaxIsNewest
<1> QED BY <1>2, <1>3, <1>6 DEF Chosen

LEMMA WorldFollows == IInv => OneWorld
<1> SUFFICES ASSUME IInv, NEW i \in DOMAIN answers, NEW j \in DOMAIN answers
    PROVE  LET x == answers[i]
               y == answers[j]
           IN  /\ x.call = y.call => x.tree = y.tree /\ x.sub = y.sub
               /\ x.tree[1] = "registry" /\ y.tree[1] = "registry" /\ x.tree[2] = y.tree[2]
                    /\ x.tree[3] \in Allowed(y.call)
                  => x.tree[3] <= y.tree[3]
  BY DEF OneWorld
<1>1. PICK x : x = answers[i] /\ AnswerInv(x, DOMAIN trees, versions)
  BY DEF IInv, AnswersInv
<1>2. PICK y : y = answers[j] /\ AnswerInv(y, DOMAIN trees, versions)
  BY DEF IInv, AnswersInv
<1>3. x.call = y.call => x.tree = y.tree /\ x.sub = y.sub
  BY <1>1, <1>2, SameAnswer
<1>4. ListsInv
  BY DEF IInv
<1>5. x.tree[1] = "registry" /\ y.tree[1] = "registry" /\ x.tree[2] = y.tree[2]
        /\ x.tree[3] \in Allowed(y.call)
      => x.tree[3] <= y.tree[3]
  BY <1>1, <1>2, <1>4, NoOlderThanAllowed
<1> QED BY <1>1, <1>2, <1>3, <1>5

LEMMA PinsFollow == IInv => PinsAreTheTrees
<1> SUFFICES ASSUME IInv PROVE PinsAreTheTrees
  OBVIOUS
<1>1. Len(pins) = Cardinality(DOMAIN trees)
  BY DEF IInv, CountInv
<1>2. ASSUME NEW key \in DOMAIN trees PROVE PinOf(key) /\ (key \in RegistryKeys \/ key \in RemoteKeys)
  BY DEF IInv, TreesInv, TreeInv, RegistryTree, RemoteTree
<1> QED BY <1>1, <1>2 DEF PinsAreTheTrees, PinOf

(* The prefix tells a directory from the rest, and the rest by their name  *)
(* and what was fetched.                                                   *)
LEMMA PrefixTells ==
    ASSUME NEW a, NEW c, NEW got, NEW other, FetchedPrefix(a, got) = FetchedPrefix(c, other)
    PROVE  /\ a.scheme = "file" /\ c.scheme = "file" => a.name = c.name
           /\ a.scheme # "file" /\ c.scheme # "file" => got = other
           /\ a.scheme = "file" /\ c.scheme # "file" => c.name = "file"
           /\ a.scheme # "file" /\ c.scheme = "file" => a.name = "file"
<1>1. \A p, q, r, t : <<p, q>> = <<r, t>> => p = r /\ q = t
  OBVIOUS
<1>2. a.scheme = "file" => FetchedPrefix(a, got) = <<"file", a.name>>
  BY DEF FetchedPrefix
<1>3. a.scheme # "file" => FetchedPrefix(a, got) = <<a.name, got>>
  BY DEF FetchedPrefix
<1>4. c.scheme = "file" => FetchedPrefix(c, other) = <<"file", c.name>>
  BY DEF FetchedPrefix
<1>5. c.scheme # "file" => FetchedPrefix(c, other) = <<c.name, other>>
  BY DEF FetchedPrefix
<1>6. CASE a.scheme = "file" /\ c.scheme = "file"
  <2>1. <<"file", a.name>> = <<"file", c.name>>
    BY <1>2, <1>4, <1>6
  <2> QED BY <1>1, <1>6, <2>1
<1>7. CASE a.scheme # "file" /\ c.scheme # "file"
  <2>1. <<a.name, got>> = <<c.name, other>>
    BY <1>3, <1>5, <1>7
  <2> QED BY <1>1, <1>7, <2>1
<1>8. CASE a.scheme = "file" /\ c.scheme # "file"
  <2>1. <<"file", a.name>> = <<c.name, other>>
    BY <1>2, <1>5, <1>8
  <2> QED BY <1>1, <1>8, <2>1
<1>9. CASE a.scheme # "file" /\ c.scheme = "file"
  <2>1. <<a.name, got>> = <<"file", c.name>>
    BY <1>3, <1>4, <1>9
  <2> QED BY <1>1, <1>9, <2>1
<1> QED BY <1>6, <1>7, <1>8, <1>9

LEMMA PrefixFollows == IInv => SamePrefixSameTree
<1> SUFFICES ASSUME IInv, NEW x \in DOMAIN trees, NEW y \in DOMAIN trees,
                    trees[x].prefix = trees[y].prefix
    PROVE  trees[x].holds = trees[y].holds
  BY DEF SamePrefixSameTree
<1>1. TreeInv(x) /\ TreeInv(y)
  BY DEF IInv, TreesInv
<1>2. CASE RegistryTree(x) /\ RegistryTree(y)
  BY <1>2 DEF RegistryTree
<1>3. ASSUME NEW k \in DOMAIN trees, NEW m \in DOMAIN trees, RegistryTree(k), RemoteTree(m)
      PROVE  trees[k].prefix # trees[m].prefix
  <2>1. PICK p \in Pkg, v \in Version : trees[k].prefix = <<"registry", p, v>>
    BY <1>3 DEF RegistryTree, RegistryKeys
  <2>2. \E b, c : trees[m].prefix = <<b, c>>
    BY <1>3 DEF RemoteTree, FetchedPrefix
  <2>3. Len(trees[k].prefix) = 3 /\ Len(trees[m].prefix) = 2
    BY <2>1, <2>2
  <2> QED BY <2>3
<1>4. CASE RemoteTree(x) /\ RemoteTree(y)
  <2>1. PICK b \in Base : x = <<"remote", b>>
    BY <1>4 DEF RemoteTree, RemoteKeys
  <2>2. PICK c \in Base : y = <<"remote", c>>
    BY <1>4 DEF RemoteTree, RemoteKeys
  <2>3. /\ trees[x].prefix = FetchedPrefix(About[b], trees[x].holds)
        /\ About[b].scheme = "file" => trees[x].holds \in MayLead[b]
    BY <1>4, <2>1 DEF RemoteTree
  <2>4. /\ trees[y].prefix = FetchedPrefix(About[c], trees[y].holds)
        /\ About[c].scheme = "file" => trees[y].holds \in MayLead[c]
    BY <1>4, <2>2 DEF RemoteTree
  <2>5. FetchedPrefix(About[b], trees[x].holds) = FetchedPrefix(About[c], trees[y].holds)
    BY <2>3, <2>4
  <2>6. CASE About[b].scheme # "file" /\ About[c].scheme # "file"
    BY <2>6, <2>5, PrefixTells
  <2>7. CASE About[b].scheme = "file" /\ About[c].scheme = "file"
    <3>1. About[b].name = About[c].name
      BY <2>7, <2>5, PrefixTells
    <3>2. \E d \in Content : MayLead[c] = {d} /\ MayLead[b] = {d}
      BY <2>7, <3>1, NamesAssumption
    <3> QED BY <2>3, <2>4, <2>7, <3>2
  <2>8. CASE (About[b].scheme = "file") # (About[c].scheme = "file")
    <3>1. About[b].scheme = "file" => About[c].name # "file"
      BY <2>8, NamesAssumption
    <3>2. About[c].scheme = "file" => About[b].name # "file"
      BY <2>8, NamesAssumption
    <3> QED BY <2>8, <2>5, <3>1, <3>2, PrefixTells
  <2> QED BY <2>6, <2>7, <2>8
<1> QED BY <1>1, <1>2, <1>3, <1>4 DEF TreeInv

-----------------------------------------------------------------------------

(* The state of a fetcher is well formed, and every tree is one the policy *)
(* and the address let it fetch: a directory only for the author's own     *)
(* call and inside the boundary, an archive only with the digest it names. *)
THEOREM FetcherTypeCorrect == Spec => []FetcherTypeOK
  BY Inductive, TypeFollows, PTL

(* Whatever is published and moves while it runs, a fetcher answers as of  *)
(* one world.                                                              *)
THEOREM OneWorldSeen == Spec => []OneWorld
  BY Inductive, WorldFollows, PTL

(* Provenance lists each tree once, with what was fetched for it.          *)
THEOREM PinsMatchTrees == Spec => []PinsAreTheTrees
  BY Inductive, PinsFollow, PTL

(* Two trees that share a directory of the bundle hold the same.           *)
THEOREM SharedPrefixSharedTree == Spec => []SamePrefixSameTree
  BY Inductive, PrefixFollows, PTL

(* A pull that is over leaves no scratch directory that nobody owns.       *)
THEOREM ScratchOwned == Spec => []ScratchIsOwned
<1>1. IInv => ScratchIsOwned
  BY DEF IInv, PullInv
<1> QED BY <1>1, Inductive, PTL
=============================================================================

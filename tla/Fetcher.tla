------------------------------ MODULE Fetcher ------------------------------
(***************************************************************************)
(* The fetcher (fetch.go) and its registry client (registry.go): resolve   *)
(* one module call after another to a fetched tree and a subdirectory of   *)
(* it, while what the registries list and what addresses lead to changes   *)
(* under them; and the pull of one tree through it (pull.go).              *)
(*                                                                         *)
(* A base is a go-getter address without its subdirectory.  What it leads  *)
(* to is a content: a commit, the digest of an archive, or what a local    *)
(* directory holds.  Versions are numbered from old to new.                *)
(***************************************************************************)
EXTENDS Paths, FiniteSetsExt

CONSTANTS
    Pkg,        \* registry packages
    Version,    \* version numbers
    Prerelease, \* the versions that are prereleases
    Base,       \* go-getter addresses
    About,      \* Base -> what can be read off the address itself
    Location,   \* Pkg -> Version -> the registry's download answer
    Content,    \* commits, digests and what local directories hold
    MayLead,    \* Base -> what it may lead to, now or later
    NotCommit,  \* what a git transport may answer that is no commit
    AnyRelease, \* the constraint of a call that has none
    Calls,      \* the calls a configuration may make
    Pulls,      \* the sources a Pull may name: one call each
    MaxCalls    \* bound: calls resolved by one fetcher

Schemes == {"git", "gitfile", "http", "file", "none"}

(* An address: the getter it is detected for ("gitfile" is git over        *)
(* file://, "none" is no getter), the repository, host or directory it     *)
(* names, and whether its ref reads as an option, a credential would ride  *)
(* cleartext, it is a directory outside Options.Boundary, and the checksum *)
(* it carries.                                                             *)
IsAbout(a) ==
    /\ DOMAIN a = {"scheme", "name", "badRef", "cleartext", "outside", "checksum"}
    /\ a.scheme \in Schemes
    /\ {a.badRef, a.cleartext, a.outside} \subseteq BOOLEAN
    /\ a.checksum \in SUBSET Content

(* A call, as classify tells them apart: by registry, constraint and       *)
(* subdirectory, or by base and subdirectory.                              *)
IsCall(c) ==
    \/ c.kind = "registry" /\ c.pkg \in Pkg /\ c.allowed \in (SUBSET Version) \cup {AnyRelease}
    \/ c.kind = "remote" /\ c.base \in Base /\ c.up \in Nat
    \/ c.kind \in {"unsupported", "nonliteral"}

ASSUME FetcherAssumption ==
    /\ Version \subseteq Nat
    /\ \A b \in Base : IsAbout(About[b]) /\ MayLead[b] \in (SUBSET Content) \ {{}}
    /\ \A p \in Pkg, v \in Version : Location[p][v].base \in Base
    /\ \A c \in Calls \cup Pulls : IsCall(c)
    /\ MaxCalls \in Nat

(* Lists of versions are finite, so that one of them is the newest.        *)
ASSUME VersionsAssumption ==
    \A S \in (SUBSET Version) \ {{}} : \E v \in S : \A w \in S : w <= v

(* A local directory holds one thing, by whichever address it is named,    *)
(* and no repository or host is called "file".                             *)
ASSUME NamesAssumption ==
    \A b, c \in Base :
        About[b].scheme = "file" =>
            /\ About[c].scheme # "file" => About[c].name # "file"
            /\ About[c].scheme = "file" /\ About[c].name = About[b].name =>
                  \E x \in Content : MayLead[b] = {x} /\ MayLead[c] = {x}

VARIABLES
    published,  \* what each registry lists
    leads,      \* Base -> what it leads to now
    policy,     \* Options.Dial is set
    pulling,    \* the fetcher serves a Pull
    versions,   \* the version lists read so far
    call,       \* the call being resolved
    version,    \* the version it was resolved to
    base,       \* the address being fetched
    step,       \* "idle", "listing", "selecting", "locating", "fetching" or "failed"
    trees,      \* key -> the tree fetched for it
    pins,       \* in resolution order
    n,          \* scratch directories named
    answers,    \* what each call was resolved to, in order
    pulled,     \* a Pull's outcome: "none" yet, "handed" over or "refused"
    scratch     \* the fetcher's scratch directory is there

asking == <<call, version, base, step>>
outside == <<published, leads, policy, pulling>>
pull == <<pulled, scratch>>
vars == <<outside, versions, asking, trees, pins, n, answers, pull>>

Init ==
    /\ published \in [Pkg -> (SUBSET Version) \ {{}}]
    /\ leads \in {f \in [Base -> Content] : \A b \in Base : f[b] \in MayLead[b]}
    /\ policy \in BOOLEAN
    /\ pulling \in BOOLEAN
    /\ versions = [p \in {} |-> {}]
    /\ call = [kind |-> "none"]
    /\ version = 0
    /\ base = "none"
    /\ step = "idle"
    /\ trees = [key \in {} |-> {}]
    /\ pins = <<>>
    /\ n = 0
    /\ answers = <<>>
    /\ pulled = "none"
    /\ scratch = TRUE

-----------------------------------------------------------------------------
(* The world outside: a version is published, a branch moves, a file at a  *)
(* URL is replaced.  Nobody edits a local directory while it is packed.    *)

Publish ==
    /\ \E p \in Pkg, v \in Version : published' = [published EXCEPT ![p] = @ \cup {v}]
    /\ UNCHANGED <<leads, policy, pulling, versions, asking, trees, pins, n, answers, pull>>

Move ==
    /\ \E b \in Base : \E c \in MayLead[b] :
         About[b].scheme # "file" /\ leads' = [leads EXCEPT ![b] = c]
    /\ UNCHANGED <<published, policy, pulling, versions, asking, trees, pins, n, answers, pull>>

-----------------------------------------------------------------------------
(* resolve, up to the fetch.                                               *)

Fail ==
    /\ step' = "failed"
    /\ UNCHANGED <<outside, versions, call, version, base, trees, pins, n, answers, pull>>

(* The key a tree is deduplicated by.                                      *)
RegistryKey == <<"registry", call.pkg, version>>
RemoteKey == <<"remote", call.base>>

Answered(key, sub) ==
    /\ answers' = Append(answers, [call |-> call, tree |-> key, sub |-> sub])
    /\ step' = "idle"

Ask ==
    /\ step = "idle"
    /\ Len(answers) < IF pulling THEN 1 ELSE MaxCalls
    /\ call' \in IF pulling THEN Pulls ELSE Calls
    /\ step' = "listing"
    /\ UNCHANGED <<outside, versions, version, base, trees, pins, n, answers, pull>>

RefuseKind ==
    /\ step = "listing"
    /\ call.kind \in {"unsupported", "nonliteral"}
    /\ Fail

(* Versions: a list is read once for a package.  Slip: on every call.      *)
List_EveryTime ==
    /\ step = "listing"
    /\ call.kind = "registry"
    /\ versions' = [p \in DOMAIN versions \cup {call.pkg} |->
                       IF p = call.pkg THEN published[p] ELSE versions[p]]
    /\ step' = "selecting"
    /\ UNCHANGED <<outside, call, version, base, trees, pins, n, answers, pull>>
List ==
    /\ step = "listing"
    /\ call.kind = "registry"
    /\ versions' = IF call.pkg \in DOMAIN versions THEN versions
                   ELSE [p \in DOMAIN versions \cup {call.pkg} |->
                            IF p = call.pkg THEN published[p] ELSE versions[p]]
    /\ step' = "selecting"
    /\ UNCHANGED <<outside, call, version, base, trees, pins, n, answers, pull>>

(* selectVersion: the newest the constraint allows.                        *)
Allowed(c) == IF c.allowed = AnyRelease THEN Version \ Prerelease ELSE c.allowed

Select ==
    /\ step = "selecting"
    /\ LET fit == versions[call.pkg] \cap Allowed(call) IN
       \/ fit = {} /\ Fail
       \/ /\ fit # {}
          /\ version' = Max(fit)
          /\ step' = "locating"
          /\ UNCHANGED <<outside, versions, call, base, trees, pins, n, answers, pull>>

(* cleanSubdir(path.Join(locSubdir, addr.Subdir)).                         *)
RegistrySubdir(loc) == loc.down \o call.down

(* A version fetched before answers from the tree; otherwise the registry  *)
(* says where the bytes are.  Slip: a tree that a module call fetched from *)
(* the same address answers too.                                           *)
RegistryKnown_ByAddress ==
    /\ step = "locating"
    /\ LET loc == Location[call.pkg][version]
           key == IF RegistryKey \in DOMAIN trees THEN RegistryKey ELSE <<"remote", loc.base>> IN
       /\ key \in DOMAIN trees
       /\ IF loc.up > 0 THEN Fail
          ELSE /\ Answered(key, RegistrySubdir(loc))
               /\ UNCHANGED <<outside, versions, call, version, base, trees, pins, n, pull>>
RegistryKnown ==
    /\ step = "locating"
    /\ RegistryKey \in DOMAIN trees
    /\ LET loc == Location[call.pkg][version] IN
       IF loc.up > 0 THEN Fail
       ELSE /\ Answered(RegistryKey, RegistrySubdir(loc))
            /\ UNCHANGED <<outside, versions, call, version, base, trees, pins, n, pull>>

Locate ==
    /\ step = "locating"
    /\ RegistryKey \notin DOMAIN trees
    /\ base' = Location[call.pkg][version].base
    /\ n' = n + 1
    /\ step' = "fetching"
    /\ UNCHANGED <<outside, versions, call, version, trees, pins, answers, pull>>

(* A registry that cannot be reached, or does not have the module.         *)
RegistryFails ==
    /\ call.kind = "registry"
    /\ \/ step = "listing" /\ call.pkg \notin DOMAIN versions
       \/ step = "locating" /\ RegistryKey \notin DOMAIN trees
    /\ Fail

(* resolveSource: a subdirectory that climbs is refused before any fetch.  *)
(* Slip: a tree known already is pinned again.                             *)
RemoteKnown_PinsAgain ==
    /\ step = "listing"
    /\ call.kind = "remote" /\ call.up = 0
    /\ RemoteKey \in DOMAIN trees
    /\ pins' = Append(pins, pins[trees[RemoteKey].abs])
    /\ Answered(RemoteKey, call.down)
    /\ UNCHANGED <<outside, versions, call, version, base, trees, n, pull>>
RemoteKnown ==
    /\ step = "listing"
    /\ call.kind = "remote" /\ call.up = 0
    /\ RemoteKey \in DOMAIN trees
    /\ Answered(RemoteKey, call.down)
    /\ UNCHANGED <<outside, versions, call, version, base, trees, pins, n, pull>>

RemoteClimbs ==
    /\ step = "listing"
    /\ call.kind = "remote" /\ call.up > 0
    /\ Fail

RemoteNew ==
    /\ step = "listing"
    /\ call.kind = "remote" /\ call.up = 0
    /\ RemoteKey \notin DOMAIN trees
    /\ base' = call.base
    /\ n' = n + 1
    /\ step' = "fetching"
    /\ UNCHANGED <<outside, versions, call, version, trees, pins, answers, pull>>

-----------------------------------------------------------------------------
(* fetch.                                                                  *)

(* Whether a local directory will do: the author's own call, not a         *)
(* registry's answer and not a Pull.                                       *)
LocalWillDo == call.kind = "remote" /\ ~pulling

FetchRefuses(a) ==
    \/ a.scheme = "none"
    \/ a.scheme = "gitfile" /\ policy
    \/ a.scheme \in {"git", "gitfile"} /\ a.badRef
    \/ a.scheme \in {"git", "http"} /\ a.cleartext
    \/ a.scheme = "file" /\ (~LocalWillDo \/ a.outside)

(* The check on what arrived: the archive has the digest its address says, *)
(* and what a git transport answers is a commit.                           *)
Delivers(a, got) ==
    /\ a.scheme \in {"git", "gitfile"} => got # NotCommit
    /\ a.scheme = "http" /\ a.checksum # {} => got \in a.checksum

(* Slip: the commit is left out of the prefix.                             *)
FetchedPrefix_NoCommit(a, got) ==
    IF a.scheme = "file" THEN <<"file", a.name>>
    ELSE IF a.scheme = "http" THEN <<a.name, got>> ELSE <<a.name>>
FetchedPrefix(a, got) == IF a.scheme = "file" THEN <<"file", a.name>> ELSE <<a.name, got>>

Record(key, prefix, pin, got) ==
    /\ trees' = [x \in DOMAIN trees \cup {key} |->
                    IF x = key THEN [abs |-> n, prefix |-> prefix, holds |-> got, of |-> base]
                    ELSE trees[x]]
    /\ pins' = Append(pins, pin)

(* What the transport brings: what the base leads to, if it brings         *)
(* anything; a git transport may answer with something that is no commit.  *)
Fetch ==
    /\ step = "fetching"
    /\ LET a == About[base] IN
       IF FetchRefuses(a) THEN Fail
       ELSE \E got \in {leads[base]} \cup (IF a.scheme \in {"git", "gitfile"} THEN {NotCommit} ELSE {}) :
         IF ~Delivers(a, got) THEN Fail
         ELSE IF call.kind = "registry"
           THEN LET loc == Location[call.pkg][version] IN
                /\ Record(RegistryKey, <<"registry", call.pkg, version>>,
                          [source |-> call.pkg, constraint |-> call.allowed, resolved |-> version], got)
                /\ IF loc.up > 0 THEN step' = "failed" /\ UNCHANGED answers
                   ELSE Answered(RegistryKey, RegistrySubdir(loc))
                /\ UNCHANGED <<outside, versions, call, version, base, n, pull>>
           ELSE /\ Record(RemoteKey, FetchedPrefix(a, got),
                          [source |-> base, constraint |-> a.checksum,
                           resolved |-> IF a.scheme = "file" THEN "none" ELSE got], got)
                /\ Answered(RemoteKey, call.down)
                /\ UNCHANGED <<outside, versions, call, version, base, n, pull>>

(* The transport fails: unreachable, refused, too large, not an archive.   *)
FetchFails == step = "fetching" /\ Fail

-----------------------------------------------------------------------------
(* pullTreeWith: the scratch directory goes to the caller with the tree,   *)
(* and is removed on every other way out.  Slip: a subdirectory the tree   *)
(* does not hold leaves it behind.                                         *)

PullRefused ==
    /\ pulling /\ pulled = "none" /\ step = "failed"
    /\ pulled' = "refused"
    /\ scratch' = FALSE
    /\ UNCHANGED <<outside, versions, asking, trees, pins, n, answers>>

PullEnds_LeavesScratch ==
    /\ pulling /\ pulled = "none" /\ step = "idle" /\ Len(answers) = 1
    /\ pulled' \in {"handed", "refused"}
    /\ UNCHANGED <<outside, versions, asking, trees, pins, n, answers, scratch>>
PullEnds ==
    /\ pulling /\ pulled = "none" /\ step = "idle" /\ Len(answers) = 1
    /\ \/ pulled' = "handed" /\ UNCHANGED scratch
       \/ pulled' = "refused" /\ scratch' = FALSE
    /\ UNCHANGED <<outside, versions, asking, trees, pins, n, answers>>

Next ==
    \/ Publish \/ Move
    \/ PullRefused \/ PullEnds
    \/ Ask \/ RefuseKind \/ List \/ Select \/ RegistryKnown \/ Locate \/ RegistryFails
    \/ RemoteKnown \/ RemoteClimbs \/ RemoteNew \/ Fetch \/ FetchFails

Spec == Init /\ [][Next]_vars

-----------------------------------------------------------------------------
(* What a pack relies on.                                                  *)

(* A local directory is packed only for the author's own call, inside the  *)
(* boundary; a repository on disk is read only without a dial policy; and  *)
(* an archive with a checksum is the one it says.                          *)
MayBeFetched(key) ==
    LET a == About[trees[key].of] IN
    /\ a.scheme = "file" => key[1] = "remote" /\ ~pulling /\ ~a.outside
    /\ a.scheme = "gitfile" => ~policy
    /\ a.scheme = "http" /\ a.checksum # {} => trees[key].holds \in a.checksum

(* A registry's call is answered with a version of its package that it     *)
(* allows, and never with what a module call fetched; a module call with   *)
(* what its own address led to.                                            *)
AnswersInKind(x) ==
    \/ x.call.kind = "registry" /\ \E v \in Allowed(x.call) : x.tree = <<"registry", x.call.pkg, v>>
    \/ x.call.kind = "remote" /\ x.tree = <<"remote", x.call.base>>

(* The state is well formed, and each tree is one that may be fetched for  *)
(* the calls it answers, also for those it answers later.                  *)
FetcherTypeOK ==
    /\ step \in {"idle", "listing", "selecting", "locating", "fetching", "failed"}
    /\ n \in Nat
    /\ \A key \in DOMAIN trees :
         trees[key].abs \in 1 .. n /\ trees[key].holds \in Content /\ MayBeFetched(key)
    /\ \A i \in DOMAIN answers : answers[i].tree \in DOMAIN trees /\ AnswersInKind(answers[i])
    /\ \A i \in DOMAIN pins : pins[i].source \in Pkg \cup Base
    /\ pulled \in {"none", "handed", "refused"} /\ scratch \in BOOLEAN

(* Trees that share a bundle directory hold the same: what packing relies  *)
(* on when two refs of a repository are one commit.                        *)
SamePrefixSameTree ==
    \A x, y \in DOMAIN trees :
        trees[x].prefix = trees[y].prefix => trees[x].holds = trees[y].holds

(* Provenance: the trees in the order they were fetched, each with the     *)
(* version, commit or digest that was fetched.                             *)
PinsAreTheTrees ==
    /\ Len(pins) = Cardinality(DOMAIN trees)
    /\ \A key \in DOMAIN trees :
         LET pin == pins[trees[key].abs] IN
         IF key[1] = "registry" THEN pin.source = key[2] /\ pin.resolved = key[3]
         ELSE /\ pin.source = key[2]
              /\ About[key[2]].scheme # "file" => pin.resolved = trees[key].holds

(* One pack sees one world, whatever was published or moved in between: a  *)
(* call made twice leads to the same directory of the same tree; and calls *)
(* with different constraints are answered as from one list of versions,   *)
(* none with a version older than another call's that it allows, so that a *)
(* module required twice is not bundled twice for want of a newer answer.  *)
OneWorld ==
    \A i, j \in DOMAIN answers :
        LET x == answers[i]
            y == answers[j]
        IN  /\ x.call = y.call => x.tree = y.tree /\ x.sub = y.sub
            /\ x.tree[1] = "registry" /\ y.tree[1] = "registry" /\ x.tree[2] = y.tree[2]
                 /\ x.tree[3] \in Allowed(y.call)
               => x.tree[3] <= y.tree[3]

(* A pull that is over has left its scratch directory to the caller or     *)
(* removed it, whichever step failed.                                      *)
ScratchIsOwned == pulled # "none" => (scratch <=> pulled = "handed")
=============================================================================

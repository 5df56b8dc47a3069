----------------------------- MODULE CloseWalk -----------------------------
(***************************************************************************)
(* Close (closure.go): the server's half of closure.  It walks module      *)
(* calls breadth first from the bundle's root and refuses the first call   *)
(* that is not a relative path to a directory the bundle holds.            *)
(*                                                                         *)
(* A bundle is its directories: whether a regular file sits directly in    *)
(* one, whether its configuration parses, and the sources of its module    *)
(* calls in the order of their names.  A source is local or an address;    *)
(* a local one is kept as path.Join reads it, clean: how far it climbs     *)
(* and what it descends to.                                                *)
(***************************************************************************)
EXTENDS Paths

CONSTANTS
    Name,     \* directory names
    Dirs,     \* every bundle directory considered, as clean paths
    Bundles   \* the bundles a walk may be given

Root == <<>>

Source == [local : BOOLEAN, up : Nat, down : Seq(Name)]
Module == [file : BOOLEAN, parses : BOOLEAN, calls : Seq(Source)]

ASSUME DirsAssumption == Root \in Dirs /\ Dirs \subseteq Seq(Name)
ASSUME BundlesAssumption == Bundles \subseteq [Dirs -> Module]

VARIABLES
    bundle,   \* the tree being judged; never changes
    queue,    \* directories still to walk
    seen,     \* directories walked: Closure.Modules
    found,    \* the calls recorded so far: Closure.Calls
    verdict   \* "walking", "closed", or why the bundle was refused

vars == <<bundle, queue, seen, found, verdict>>

Refusals == {"invalid", "remote", "escapes", "missing"}

(* dirSet: a tar holds a directory when some file lies in it or below it;  *)
(* the root is always there.                                               *)
DirSet(b) ==
    {Root} \cup {d \in Dirs : \E e \in Dirs : Inside(d, e) /\ b[e].file}

Target(dir, s) == JoinSource(dir, s.up, s.down)

(* resolveSource: what is wrong with a source, in the order it is asked.   *)
ResolveSource(dir, s, b) ==
    IF ~s.local THEN "remote"
    ELSE IF Climbs(dir, s.up) THEN "escapes"
    ELSE IF Target(dir, s) \notin DirSet(b) THEN "missing"
    ELSE "ok"

CallsOf(b, dir) == {b[dir].calls[i] : i \in DOMAIN b[dir].calls}

AllResolve(b, dir) ==
    b[dir].parses /\ \A s \in CallsOf(b, dir) : ResolveSource(dir, s, b) = "ok"

Init ==
    /\ bundle \in Bundles
    /\ queue = <<Root>>
    /\ seen = {}
    /\ found = <<>>
    /\ verdict = "walking"

(* One turn of the loop each, for the directory at the head of the queue.  *)

(* Slip: the turn is skipped before the directory is taken off the queue.  *)
SkipSeen_KeepsHead ==
    verdict = "walking" /\ queue # <<>> /\ Head(queue) \in seen /\ UNCHANGED vars

SkipSeen ==
    /\ verdict = "walking"
    /\ queue # <<>>
    /\ Head(queue) \in seen
    /\ queue' = Tail(queue)
    /\ UNCHANGED <<bundle, seen, found, verdict>>

Targets(dir) ==
    LET calls == bundle[dir].calls IN [i \in DOMAIN calls |-> Target(dir, calls[i])]
Records(dir) ==
    [i \in DOMAIN bundle[dir].calls |->
        [caller |-> dir, call |-> i, dir |-> Targets(dir)[i]]]

(* Slips: targets are marked seen when they are queued; what was queued is *)
(* replaced, not extended; a directory queued twice is walked twice.       *)
Visit_MarksTargets ==
    /\ verdict = "walking" /\ queue # <<>> /\ Head(queue) \notin seen
    /\ AllResolve(bundle, Head(queue))
    /\ LET dir == Head(queue) IN
       /\ seen' = seen \cup {dir} \cup {Targets(dir)[i] : i \in DOMAIN Targets(dir)}
       /\ queue' = Tail(queue) \o Targets(dir)
       /\ found' = found \o Records(dir)
    /\ UNCHANGED <<bundle, verdict>>
Visit_ReplacesQueue ==
    /\ verdict = "walking" /\ queue # <<>> /\ Head(queue) \notin seen
    /\ AllResolve(bundle, Head(queue))
    /\ LET dir == Head(queue) IN
       /\ seen' = seen \cup {dir}
       /\ queue' = Targets(dir)
       /\ found' = found \o Records(dir)
    /\ UNCHANGED <<bundle, verdict>>
Visit_Again ==
    /\ verdict = "walking" /\ queue # <<>>
    /\ AllResolve(bundle, Head(queue))
    /\ LET dir == Head(queue) IN
       /\ seen' = seen \cup {dir}
       /\ queue' = Tail(queue) \o Targets(dir)
       /\ found' = found \o Records(dir)
    /\ UNCHANGED <<bundle, verdict>>

Visit ==
    /\ verdict = "walking"
    /\ queue # <<>>
    /\ LET dir == Head(queue) IN
       /\ dir \notin seen
       /\ AllResolve(bundle, dir)
       /\ seen' = seen \cup {dir}
       /\ queue' = Tail(queue) \o Targets(dir)
       /\ found' = found \o Records(dir)
    /\ UNCHANGED <<bundle, verdict>>

(* Slip: every failure is reported as a missing directory.                 *)
Refuse_AlwaysMissing ==
    /\ verdict = "walking" /\ queue # <<>> /\ Head(queue) \notin seen
    /\ ~AllResolve(bundle, Head(queue))
    /\ seen' = seen \cup {Head(queue)}
    /\ queue' = Tail(queue)
    /\ verdict' = "missing"
    /\ UNCHANGED <<bundle, found>>

(* The first bad call in name order decides the error; an error returns    *)
(* nothing of the walk but its reason.                                     *)
Refuse ==
    /\ verdict = "walking"
    /\ queue # <<>>
    /\ LET dir == Head(queue)
           calls == bundle[dir].calls IN
       /\ dir \notin seen
       /\ seen' = seen \cup {dir}
       /\ queue' = Tail(queue)
       /\ \/ ~bundle[dir].parses /\ verdict' = "invalid"
          \/ /\ bundle[dir].parses
             /\ \E i \in DOMAIN calls :
                  /\ ResolveSource(dir, calls[i], bundle) # "ok"
                  /\ \A j \in 1 .. (i - 1) : ResolveSource(dir, calls[j], bundle) = "ok"
                  /\ verdict' = ResolveSource(dir, calls[i], bundle)
    /\ UNCHANGED <<bundle, found>>

Accept ==
    /\ verdict = "walking"
    /\ queue = <<>>
    /\ verdict' = "closed"
    /\ UNCHANGED <<bundle, queue, seen, found>>

Next == SkipSeen \/ Visit \/ Refuse \/ Accept

Spec == Init /\ [][Next]_vars
(* The walk is one goroutine's loop: it runs until it returns.             *)
FairSpec == Spec /\ WF_vars(Next)

-----------------------------------------------------------------------------
(* The call graph as it was uploaded, and its reachable part.              *)
Successors(b, dir) ==
    {Target(dir, s) : s \in {t \in CallsOf(b, dir) : ResolveSource(dir, t, b) = "ok"}}
CallGraph(b) == [dir \in Dirs |-> Successors(b, dir)]

Walk == INSTANCE GraphWalk WITH
    Node <- Dirs, Start <- Root,
    graph <- CallGraph(bundle),
    seen <- seen,
    pending <- {queue[i] : i \in DOMAIN queue} \ seen,
    status <- IF verdict = "walking" THEN "walking"
              ELSE IF verdict = "closed" THEN "done" ELSE "abandoned"

Reachable(b) == Walk!ReachableIn(CallGraph(b))

TypeOK ==
    /\ bundle \in [Dirs -> Module]
    /\ queue \in Seq(Dirs)
    /\ seen \subseteq Dirs
    /\ found \in Seq([caller : Dirs, call : Nat \ {0}, dir : Dirs])
    /\ verdict \in {"walking", "closed"} \cup Refusals

(* A bundle Close accepts is closed: every module any chain of calls from  *)
(* the root leads to parses, and each of its calls is a relative path to a *)
(* directory the bundle holds.  No call is missed because another reached  *)
(* its module first, or because calls form a cycle.                        *)
AcceptedIsClosed ==
    verdict = "closed" => \A dir \in Reachable(bundle) : AllResolve(bundle, dir)

(* A refusal is never spurious: some module that really is reachable has   *)
(* the fault the error names.                                              *)
RefusedForCause ==
    verdict \in Refusals =>
        \E dir \in Reachable(bundle) :
            \/ verdict = "invalid" /\ ~bundle[dir].parses
            \/ \E s \in CallsOf(bundle, dir) : ResolveSource(dir, s, bundle) = verdict

(* Closure.Calls of an accepted bundle lists every call of every reachable *)
(* module exactly once, with the directory it leads to, so provenance      *)
(* neither repeats nor loses a call however many ways a module is reached. *)
CallsReportedOnce ==
    verdict = "closed" =>
        /\ {<<found[k].caller, found[k].call>> : k \in DOMAIN found}
             = UNION {{<<d, i>> : i \in DOMAIN bundle[d].calls} : d \in Reachable(bundle)}
        /\ \A j, k \in DOMAIN found :
             found[j].caller = found[k].caller /\ found[j].call = found[k].call => j = k

(* Every walk ends, cycles of calls included.                              *)
Terminates == <>(verdict # "walking")

(* The walk is a graph exploration: each turn visits one pending directory *)
(* or skips one already visited.                                           *)
WalkSpec == Walk!Spec
=============================================================================

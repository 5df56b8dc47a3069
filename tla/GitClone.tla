------------------------------ MODULE GitClone ------------------------------
(***************************************************************************)
(* Git (git.go): the clones a process runs at the same time, and what they *)
(* share: the protocols go-git is installed with, the type of dialer it is *)
(* told of, the table that names the dialer of each ssh clone, and the     *)
(* checkout that answers for its own repository.                           *)
(*                                                                         *)
(* go-git has no dialer per call.  Over http the clone's dialer rides on   *)
(* the request's context; over ssh go-git dials a proxy whose URL is a     *)
(* token, and the token is looked up when the connection is opened.        *)
(***************************************************************************)
EXTENDS Integers, Sequences, FiniteSets

CONSTANTS
    Clones,    \* the calls of Clone running in one process
    Jobs,      \* what a call may be asked
    Dialer,    \* dialers a caller may set
    Direct,    \* the dialer of a caller that sets none
    Url,       \* repositories
    Scheme,    \* Url -> "ssh", "https" or "file"
    Subs,      \* Url -> the submodules of what is checked out of it
    Ref,       \* refs of the checkout's own repository
    Kind,      \* Ref -> "commit", "tag", "branch" or, at origin, "absent"
    MaxDepth   \* bound: maxSubmoduleDepth

Families == {"none", "key", "basic", "token"}

(* A call: what is cloned, at which ref, whether the checkout being        *)
(* published is of that repository, the dialer, whether an ssh agent runs, *)
(* the credential handed over, and what Lookup answers for a submodule.    *)
IsJob(j) ==
    /\ DOMAIN j = {"url", "ref", "own", "dial", "agent", "cred", "finds"}
    /\ j.url \in Url /\ j.ref \in Ref /\ j.dial \in Dialer \cup {Direct}
    /\ j.own \in BOOLEAN /\ j.agent \in BOOLEAN /\ j.cred \in Families
    /\ j.finds \in [Url -> Families \cup {"error"}]

ASSUME GitAssumption ==
    /\ \A j \in Jobs : IsJob(j) /\ Scheme[j.url] # "file"
    /\ Scheme \in [Url -> {"ssh", "https", "file"}]
    /\ Subs \in [Url -> Seq(Url)]
    /\ Kind \in [Ref -> {"commit", "tag", "branch", "absent"}]
    /\ Direct \notin Dialer
    /\ MaxDepth \in Nat

VARIABLES
    job,      \* what each clone was asked
    pc,       \* where each clone is
    once,     \* the two sync.Once: "new", "done", or the clone running it
    seq,      \* sshDialSeq
    dialers,  \* sshDialers: token -> dialer
    token,    \* each clone's token, 0 when it has none
    stack,    \* each clone's nesting of updateSubmodules
    updated,  \* the submodules each clone has brought in, by their path
    opened,   \* the connections each clone has opened
    store     \* the refs the checkout resolves

shared == <<once, seq, dialers, store>>
own == <<pc, token, stack, updated, opened>>
vars == <<job, shared, own>>

Onces == {"http", "ssh"}
Ended == {"done", "failed"}

Init ==
    /\ job \in [Clones -> Jobs]
    /\ pc = [c \in Clones |-> "start"]
    /\ once = [o \in Onces |-> "new"]
    /\ seq = 0
    /\ dialers = [t \in {} |-> Direct]
    /\ token = [c \in Clones |-> 0]
    /\ stack = [c \in Clones |-> <<>>]
    /\ updated = [c \in Clones |-> {}]
    /\ opened = [c \in Clones |-> {}]
    /\ store \in SUBSET Ref

Goto(c, place) == pc' = [pc EXCEPT ![c] = place]

-----------------------------------------------------------------------------
(* auth: what is presented to u, or a refusal: an ssh key goes to ssh and  *)
(* to nothing else, and ssh without a key takes the agent.                 *)
Accepts(u, family) == IF Scheme[u] = "ssh" THEN family = "key" ELSE family \in {"basic", "token"}
Refuses(j, u, family) ==
    IF family = "none" THEN Scheme[u] = "ssh" /\ ~j.agent ELSE ~Accepts(u, family)
Presented(u, family) ==
    IF family # "none" THEN [for |-> u, family |-> family]
    ELSE [for |-> u, family |-> IF Scheme[u] = "ssh" THEN "agent" ELSE "none"]

Open(c, what, u, how, dialer, cred) ==
    opened' = [opened EXCEPT ![c] =
                  @ \cup {[what |-> what, url |-> u, how |-> how, by |-> dialer, cred |-> cred]}]

(* Over http go-git takes the client that is installed, or its default.    *)
(* The installed one reads the dialer off the context when it dials; but   *)
(* it serves every clone, and keeps connections open for the next request  *)
(* to their host, whose ever it is; one that the same dialer opened is as  *)
(* good as a new one.  A repository stands for its host.                   *)
Kept(u) == {x.by : x \in {y \in UNION {opened[d] : d \in Clones} : y.url = u /\ y.how = "dialed"}}
OpenHttp(c, what, u, dialer, cred) ==
    \/ once["http"] # "done" /\ Open(c, what, u, "default", Direct, cred)
    \/ once["http"] = "done" /\ Open(c, what, u, "dialed", dialer, cred)
    \/ once["http"] = "done" /\ \E d \in Kept(u) \ {dialer} : Open(c, what, u, "kept", d, cred)

Policy(c) == job[c].dial # Direct
SSH(c) == Scheme[job[c].url] = "ssh"

(* Clone, up to its first connection; a key may be one that does not parse.*)
Start(c) ==
    /\ pc[c] = "start"
    /\ LET j == job[c] IN
       \/ j.own /\ Goto(c, "archive")
       \/ ~j.own /\ (Refuses(j, j.url, j.cred) \/ j.cred = "key") /\ Goto(c, "failed")
       \/ /\ ~j.own /\ ~Refuses(j, j.url, j.cred)
          /\ Goto(c, IF Policy(c) THEN "http" ELSE "cloning")
    /\ UNCHANGED <<job, shared, token, stack, updated, opened>>

(* sync.Once: the first to come runs it, and nobody passes before it ends. *)
(* Slip: a flag, tested and set before the work is done.                   *)
OnceBegins(c, o) ==
    /\ pc[c] = o
    /\ once[o] = "new"
    /\ once' = [once EXCEPT ![o] = c]
    /\ UNCHANGED <<job, seq, dialers, store, own>>

OnceEnds(c, o) ==
    /\ once[o] = c
    /\ once' = [once EXCEPT ![o] = "done"]
    /\ UNCHANGED <<job, seq, dialers, store, own>>

OncePassed_Begun(c, o) ==
    /\ pc[c] = o
    /\ once[o] # "new"
    /\ Goto(c, IF o = "ssh" THEN "numbering" ELSE IF SSH(c) THEN "ssh" ELSE "cloning")
    /\ UNCHANGED <<job, shared, token, stack, updated, opened>>
OncePassed(c, o) ==
    /\ pc[c] = o
    /\ once[o] = "done"
    /\ Goto(c, IF o = "ssh" THEN "numbering" ELSE IF SSH(c) THEN "ssh" ELSE "cloning")
    /\ UNCHANGED <<job, shared, token, stack, updated, opened>>

(* The token is taken in one step and the dialer stored in another.        *)
TakeToken(c) ==
    /\ pc[c] = "numbering"
    /\ seq' = seq + 1
    /\ token' = [token EXCEPT ![c] = seq + 1]
    /\ Goto(c, "storing")
    /\ UNCHANGED <<job, once, dialers, store, stack, updated, opened>>

StoreDialer(c) ==
    /\ pc[c] = "storing"
    /\ dialers' = [t \in DOMAIN dialers \cup {token[c]} |->
                      IF t = token[c] THEN job[c].dial ELSE dialers[t]]
    /\ Goto(c, "cloning")
    /\ UNCHANGED <<job, once, seq, store, token, stack, updated, opened>>

(* Every way out of the clone runs the release.  Slip: a clone that failed *)
(* leaves its dialer in the table.                                         *)
Release_NotOnFailure(c) ==
    /\ pc[c] \in {"leaving", "failing"}
    /\ dialers' = IF pc[c] = "failing" THEN dialers
                  ELSE [t \in DOMAIN dialers \ {token[c]} |-> dialers[t]]
    /\ token' = [token EXCEPT ![c] = 0]
    /\ Goto(c, IF pc[c] = "leaving" THEN "done" ELSE "failed")
    /\ UNCHANGED <<job, once, seq, store, stack, updated, opened>>
Release(c) ==
    /\ pc[c] \in {"leaving", "failing"}
    /\ dialers' = [t \in DOMAIN dialers \ {token[c]} |-> dialers[t]]
    /\ token' = [token EXCEPT ![c] = 0]
    /\ Goto(c, IF pc[c] = "leaving" THEN "done" ELSE "failed")
    /\ UNCHANGED <<job, once, seq, store, stack, updated, opened>>

-----------------------------------------------------------------------------
(* PlainCloneContext, then resolveRef and Checkout.  Over ssh there is no  *)
(* connection when the table has no dialer for the token; with one, the    *)
(* server may refuse, hang up, or not have the ref.                        *)
Fetched(c) ==
    \/ Goto(c, "failing") /\ UNCHANGED stack
    \/ /\ Goto(c, "submodules")
       /\ stack' = [stack EXCEPT ![c] = <<[url |-> job[c].url, next |-> 1, left |-> MaxDepth]>>]

CloneRepo(c) ==
    /\ pc[c] = "cloning"
    /\ LET j == job[c]
           cred == Presented(j.url, j.cred) IN
       \/ Scheme[j.url] = "https" /\ OpenHttp(c, "clone", j.url, j.dial, cred) /\ Fetched(c)
       \/ SSH(c) /\ ~Policy(c) /\ Open(c, "clone", j.url, "ssh", Direct, cred) /\ Fetched(c)
       \/ /\ SSH(c) /\ Policy(c) /\ token[c] \in DOMAIN dialers
          /\ Open(c, "clone", j.url, "ssh", dialers[token[c]], cred) /\ Fetched(c)
       \/ /\ SSH(c) /\ Policy(c) /\ token[c] \notin DOMAIN dialers
          /\ Goto(c, "failing") /\ UNCHANGED <<opened, stack>>
    /\ UNCHANGED <<job, shared, token, updated>>

-----------------------------------------------------------------------------
(* updateSubmodules: a frame is one call of it, at the submodule `next`.   *)

Top(c) == stack[c][Len(stack[c])]
SubmoduleUrl(c) == Subs[Top(c).url][Top(c).next]
PathOf(c) == [i \in 1 .. Len(stack[c]) |-> stack[c][i].next]

(* Slip: as far as they nest.                                              *)
TooDeep_Never(c) == FALSE
TooDeep(c) == Top(c).left = 0

RefuseDepth(c) ==
    /\ pc[c] = "submodules"
    /\ Top(c).next <= Len(Subs[Top(c).url])
    /\ TooDeep(c)
    /\ Goto(c, "failing")
    /\ UNCHANGED <<job, shared, token, stack, updated, opened>>

(* Each submodule is looked up by its own URL.  Slip: the credential the   *)
(* clone was handed goes along.                                            *)
SubmoduleCredential_Forwarded(c) ==
    IF job[c].cred # "none" THEN [for |-> job[c].url, family |-> job[c].cred]
    ELSE Presented(SubmoduleUrl(c), job[c].finds[SubmoduleUrl(c)])
SubmoduleCredential(c) == Presented(SubmoduleUrl(c), job[c].finds[SubmoduleUrl(c)])

SubmoduleRefused(c) ==
    LET found == job[c].finds[SubmoduleUrl(c)] IN
    found = "error" \/ Refuses(job[c], SubmoduleUrl(c), found)

(* The update is given no proxy: over ssh it is dialed directly.           *)
OpenSubmodule(c) ==
    LET u == SubmoduleUrl(c)
        cred == SubmoduleCredential(c) IN
    \/ Scheme[u] = "https" /\ OpenHttp(c, "submodule", u, job[c].dial, cred)
    \/ Scheme[u] = "ssh" /\ Open(c, "submodule", u, "ssh", Direct, cred)
    \/ Scheme[u] = "file" /\ Open(c, "submodule", u, "disk", Direct, cred)

RefuseSubmodule(c) ==
    /\ pc[c] = "submodules"
    /\ Top(c).next <= Len(Subs[Top(c).url])
    /\ ~TooDeep(c)
    /\ SubmoduleRefused(c)
    /\ Goto(c, "failing")
    /\ UNCHANGED <<job, shared, token, stack, updated, opened>>

UpdateSubmodule(c) ==
    /\ pc[c] = "submodules"
    /\ Top(c).next <= Len(Subs[Top(c).url])
    /\ ~TooDeep(c)
    /\ ~SubmoduleRefused(c)
    /\ OpenSubmodule(c)
    /\ \/ Goto(c, "failing") /\ UNCHANGED <<stack, updated>>
       \/ /\ updated' = [updated EXCEPT ![c] = @ \cup {PathOf(c)}]
          /\ stack' = [stack EXCEPT ![c] =
                          Append(@, [url |-> SubmoduleUrl(c), next |-> 1, left |-> Top(c).left - 1])]
          /\ UNCHANGED pc
    /\ UNCHANGED <<job, shared, token>>

(* Back from a submodule's own submodules to the next one, or to Clone.    *)
(* Slips: to the same one; past all that are left.                         *)
Resume_Same(frames) == frames
Resume_Last(frames) ==
    [frames EXCEPT ![Len(frames)].next = Len(Subs[frames[Len(frames)].url]) + 1]
Resume(frames) == [frames EXCEPT ![Len(frames)].next = @ + 1]

ReturnFromSubmodules(c) ==
    /\ pc[c] = "submodules"
    /\ Top(c).next > Len(Subs[Top(c).url])
    /\ IF Len(stack[c]) = 1
         THEN Goto(c, "leaving") /\ UNCHANGED stack
         ELSE /\ stack' = [stack EXCEPT ![c] = Resume(SubSeq(@, 1, Len(@) - 1))]
              /\ UNCHANGED pc
    /\ UNCHANGED <<job, shared, token, updated, opened>>

-----------------------------------------------------------------------------
(* Archive: the checkout's object store, and origin for what it lacks.     *)

ResolveLocally(c) ==
    /\ pc[c] = "archive"
    /\ Goto(c, IF job[c].ref \in store THEN "done" ELSE "fetching")
    /\ UNCHANGED <<job, shared, token, stack, updated, opened>>

(* No dialer rides on this context.                                        *)
FetchOpens(c) ==
    LET cred == [for |-> job[c].url, family |-> IF SSH(c) /\ job[c].agent THEN "agent" ELSE "none"]
    IN  \/ SSH(c) /\ Open(c, "checkout", job[c].url, "ssh", Direct, cred)
        \/ ~SSH(c) /\ OpenHttp(c, "checkout", job[c].url, Direct, cred)

(* The ref as it is written: only a commit can be asked for so, and only   *)
(* of a server that lets it.                                               *)
FetchExact(c) ==
    /\ pc[c] = "fetching"
    /\ FetchOpens(c)
    /\ \/ /\ Kind[job[c].ref] = "commit"
          /\ store' = store \cup {job[c].ref}
          /\ Goto(c, "again")
       \/ Goto(c, "fetching all") /\ UNCHANGED store
    /\ UNCHANGED <<job, once, seq, dialers, token, stack, updated>>

(* Every branch and tag: the commits and the tags resolve then; a branch   *)
(* does as origin's, which is not how the ref is written, and so does HEAD. *)
(* Slip: no tags.                                                          *)
Brings_NoTags == {r \in Ref : Kind[r] = "commit"}
Brings == {r \in Ref : Kind[r] \in {"commit", "tag"}}
FetchAll(c) ==
    /\ pc[c] = "fetching all"
    /\ FetchOpens(c)
    /\ \/ Goto(c, "failed") /\ UNCHANGED store
       \/ store' = store \cup Brings /\ Goto(c, "again")
    /\ UNCHANGED <<job, once, seq, dialers, token, stack, updated>>

ResolveAgain(c) ==
    /\ pc[c] = "again"
    /\ Goto(c, IF job[c].ref \in store THEN "done" ELSE "unknown")
    /\ UNCHANGED <<job, shared, token, stack, updated, opened>>

(* "unknown" is Archive's own refusal: the ref is not in the checkout.     *)
GiveUp(c) ==
    /\ pc[c] = "unknown"
    /\ Goto(c, "failed")
    /\ UNCHANGED <<job, shared, token, stack, updated, opened>>

-----------------------------------------------------------------------------
Step(c) ==
    \/ Start(c) \/ TakeToken(c) \/ StoreDialer(c) \/ CloneRepo(c) \/ Release(c)
    \/ \E o \in Onces : OnceBegins(c, o) \/ OnceEnds(c, o) \/ OncePassed(c, o)
    \/ RefuseDepth(c) \/ RefuseSubmodule(c) \/ UpdateSubmodule(c) \/ ReturnFromSubmodules(c)
    \/ ResolveLocally(c) \/ FetchExact(c) \/ FetchAll(c) \/ ResolveAgain(c) \/ GiveUp(c)

Next == \E c \in Clones : Step(c)

Spec == Init /\ [][Next]_vars
(* Each clone is a goroutine of its own; a connection answers or fails.    *)
FairSpec == Spec /\ \A c \in Clones : WF_vars(Step(c))

-----------------------------------------------------------------------------
Places == {"start", "http", "ssh", "numbering", "storing", "cloning", "submodules", "leaving",
           "failing", "archive", "fetching", "fetching all", "again", "unknown", "done", "failed"}

GitTypeOK ==
    /\ job \in [Clones -> Jobs]
    /\ pc \in [Clones -> Places]
    /\ once \in [Onces -> {"new", "done"} \cup Clones]
    /\ seq \in Nat
    /\ DOMAIN dialers \subseteq 1 .. seq
    /\ token \in [Clones -> 0 .. seq]
    /\ stack \in [Clones -> Seq([url : Url, next : Nat \ {0}, left : 0 .. MaxDepth])]
    /\ store \subseteq Ref

(* The table holds the dialers of the clones that run and no other: no two *)
(* clones share a token, a token names its clone's dialer from before the  *)
(* first connection on, and a clone that ended, however it ended, has left *)
(* nothing behind.                                                         *)
TableIsOfRunning ==
    /\ \A c, d \in Clones : token[c] = token[d] /\ token[c] # 0 => c = d
    /\ \A t \in DOMAIN dialers : \E c \in Clones :
         token[c] = t /\ pc[c] \notin Ended /\ dialers[t] = job[c].dial
    /\ \A c \in Clones : pc[c] = "cloning" /\ SSH(c) /\ Policy(c) => token[c] \in DOMAIN dialers

(* The repository's own connection, and every connection over http, when   *)
(* it is a new one, is opened with the clone's dialer and no other clone's; *)
(* a clone without one dials directly, whatever the others have installed. *)
OwnDialer ==
    \A c \in Clones : \A x \in opened[c] :
        /\ x.how # "kept"
        /\ x.what = "clone" \/ (x.what = "submodule" /\ Scheme[x.url] = "https")
        => x.by = job[c].dial

(* What is presented to a URL is what was handed over or looked up for it, *)
(* in a form its protocol takes: the repository's credential never goes to *)
(* a submodule.                                                            *)
OwnCredentials ==
    \A c \in Clones : \A x \in opened[c] :
        /\ x.cred.for = x.url
        /\ x.cred.family \in {"key", "agent"} => Scheme[x.url] = "ssh"
        /\ x.cred.family \in {"basic", "token"} => Scheme[x.url] # "ssh"

(* A clone that succeeds has brought in every submodule, at every level.   *)
UrlAt(c, p) ==
    LET at[i \in 0 .. Len(p)] == IF i = 0 THEN job[c].url ELSE Subs[at[i - 1]][p[i]] IN at[Len(p)]
CompleteWhenDone ==
    \A c \in Clones : pc[c] = "done" /\ ~job[c].own =>
        \A p \in updated[c] \cup {<<>>} : \A i \in 1 .. Len(Subs[UrlAt(c, p)]) :
            Append(p, i) \in updated[c]

(* The checkout answers for every commit and tag that origin has, once the *)
(* fetch went through: what is refused as not being there is the name of a *)
(* branch or origin's HEAD, or is not at origin either.                    *)
CheckoutKnowsPins ==
    \A c \in Clones : pc[c] = "unknown" => Kind[job[c].ref] \in {"branch", "absent"}

(* Every clone ends: the others cannot hold it up, and a repository that   *)
(* contains itself is followed only so far.                                *)
EveryCloneEnds == \A c \in Clones : <>(pc[c] \in Ended)

(* git.go:50-52: Dial makes every connection Clone opens, over http(s) and *)
(* ssh alike; README.md:171: it is the one every connection uses.  What is *)
(* read off the disk is no connection.                                     *)
EveryConnectionDialed ==
    \A c \in Clones : \A x \in opened[c] : Policy(c) /\ x.how # "disk" => x.by = job[c].dial
=============================================================================

# A formal model of admiral-bundle

Package `bundle` turns a component (a Terraform module, a Helm chart or raw
manifests) into a gzipped tar that is *closed* over everything it reaches, and
judges such a tar when it arrives at a registry. This directory models that
code in TLA+, checks the models with TLC on small instances and proves the
most important facts with TLAPS. `PROJECT.json` lists the parts, the runs,
the code each definition stands for, the hazards and the theorems.

## The system

| Component | State | Operations | Hard parts | What makes it correct |
| --- | --- | --- | --- | --- |
| Pack, Terraform (`pack.go`) | staging tree, `placed`, `used`, `queue`, `walked`, the fetcher's trees and pins | `PackContext`, `closeTerraform`, `copyTree`, `vendorPath`, `rewriteSource` | order of calls, overlapping copies, links, cycles, two coordinate systems for a module | each rewritten call leads to the module it named; nothing outside the boundary travels; pins are complete; it ends |
| Close (`closure.go`) | `queue`, `seen`, `Closure` | `Close`, `resolveSource` | cycles, diamonds, climbing sources | accepts exactly closed bundles, with a reason when not |
| Helm closure (`helm.go`, `closure.go`, `oci.go`) | the call stack, staged `charts/`, pins; one request at a time | `closeChart`, `vendorChartDependency`, `fetchChart`, `pullChart`, `CloseChart` | recursion, stage read back as if it were the working copy, ranges; a repository that changes between two requests | what is packed is what the server accepts; the author's charts are kept; what arrives is what was named |
| Normalize (`normalize.go`) | files, links, byte and entry totals | `readTree`, `resolveLinks`, `real`, `expand` | entry order, link chains and loops, caps | output is a function of the tree |
| Fetcher (`fetch.go`, `registry.go`) | `trees`, `pins`, scratch directories | `resolve`, `fetch`, `Untar` | one fetch per identity, a world that moves, failures, archives in any order | one pack sees one world, provenance is complete, an archive is laid out as the server would read it |
| Git (`git.go`) | process-wide: two `sync.Once`, the table of ssh dialers, one http client; per clone: a token, a nesting of submodules; the checkout's refs | `Clone`, `dialing`, `updateSubmodules`, `LocalRepo.Archive` | concurrent clones, tokens, kept connections, submodules that contain themselves | a clone dials with its own dialer and presents only what is for the URL; it is complete or fails; nothing of it stays in the table |
| Pull (`pull.go`) | one temporary directory | `pullTreeWith`, `unpackChart`, `Cleanup` | failure half way | the directory is removed exactly when nobody owns it |
| Network and credentials (`net.go`, `credentials.go`, `oci.go`) | redirect chains, stored credentials, the registry client's cache | `CheckRedirect`, `Lookup`, `authorize`, `credentialFor`, `DialPublic` | redirects, precedence of sources, challenges, one cache for all repositories | a credential stays where it is stored for, or goes to the token service of that registry, and out of cleartext |
| Inspect, provenance (`inspect.go`, `variables.go`, `provenance.go`) | none | static reports | none | not modelled: pure functions of syntax and I/O |

Pack runs on the client, Normalize, Close and CloseChart on the server. They
share no code that decides what closed means, only the tar, so the interesting
question is whether they agree; `RoundTrip` and the last part of `HelmClosure`
ask it, and `Untar` asks it of the two readers of a tar. A pack is one
goroutine that calls the fetcher synchronously; the only state shared between
packs is in `git.go`.

## Modules

| Module | What it is |
| --- | --- |
| `Paths` | slash paths as sequences of names: `inside`, `relativeSource`, `path.Join` of a source |
| `GraphWalk` | the abstract specification of a closure walk |
| `CloseWalk` | `Close`; `Walk == INSTANCE GraphWalk WITH ...` is what it implements |
| `TerraformClosure` | `PackContext` and `closeTerraform` for one component |
| `RoundTrip` | `TerraformClosure`, then the tar, then `CloseWalk` (by `INSTANCE`) |
| `HelmClosure` | `closeHelm`, and `CloseChart` on its result |
| `ChartFetch` | `HelmClosure` with its downloads request by request: credentials, challenges, redirects, digests |
| `Normalize` | `Normalize`: reading a tar and replacing its links |
| `Untar` | `Untar` and `unpackChart`, then `Normalize` on the same archive |
| `GitClone` | the clones of one process, and the checkout that answers for its own repository |
| `Fetcher` | the fetcher and the registry client, and a pull through them |
| `*_proofs` | the theorems; `ChartFetch_proofs` holds those of `HelmClosure` too, `RoundTrip_proofs` those of `TerraformClosure`, `Normalize_proofs` those of `Untar` |
| `MC*` | the small worlds TLC enumerates |

Operators whose name ends in `_Something` and whose comment says *slip* are
variants of the operator that follows them, each as a plausible mistake in the
code would make it. They are in no specification. `PROJECT.json` "mutants"
pairs each checked property with the slip that breaks it.

### Close

`bundle` is the uploaded tree: for each directory, whether a file lies directly
in it, whether its configuration parses, and its module calls in name order.
One action per way a turn of the loop can go: `SkipSeen`, `Visit`, `Refuse`,
`Accept`. A local source is kept as `path.Join` reads it, a number of `..` and
the names after them; anything else is one non-local value.

### Pack

A directory on disk has its configuration and the directory it *really* is
once links are followed. `stage` maps a bundle directory to the directory its
files came from and to its module calls as rewritten so far, so a copy over an
earlier copy undoes rewrites exactly as it does on disk. Each action is one
call of the current module (`LocalKnown`, `LocalInTree`, `LocalInRoot`,
`LocalOutside`, `Remote`, `RefusedCall`, `FetchFails`) or one step of the loop
(`StageRoot`, `SkipWalked`, `LoadModule`, `Cancelled`, `Packed`). `Place` and
`Settle` are the closure `place` and the rewrite at the end of the loop body.
The fetcher is seen from outside: a remote address is a tree's identity and a
subdirectory, a tree is fetched once and pinned then, and a fetch may fail.
Whether a fetched tree's bundle prefix leaves the stage (a registry version or
a URL path may carry `..`) is the constant `Escaping`. Two corners of the code
are named and are conditions of the properties they bear on. `TreeOverComponent`:
`vendorPath` numbers a name that the component has under `vendor/` already, but the prefix
of a fetched tree is compared with nothing, so a tree may be copied over the
component's own files. `UnderIgnored`: a home below an ignored name is left out of
the copies, so `vendorPath` does not see it taken and may give it away again. Sources of the worlds
checked do not climb through a link, so that joining a source lexically and
resolving it on disk name the same directory but for the links on the way.

### Helm

A chart directory is named by the `charts/` it nests in. The recursion of
`closeChart` is an explicit stack of frames: the chart read on disk, the chart
written in the stage, and the dependency to do next. `EnterChart`,
`ReturnFromChart`, `KeepArchive`, `KeepUnpacked`, `FromDirectory`, `Download`
and the two refusals are its steps. `CloseChart` is an operator on the stage.
A directory under `charts/` that is no chart is not the author's chart to
`vendorChartDependency`, and a dependency of its name is copied over it;
`ChartsHoldCharts` says where that matters.

`ChartFetch` takes `Download` apart, in the worlds `Online`: `Describe` asks for
the index or the manifest, `AskArchive` for what it names, `Redirect` follows
one redirect, `Arrives` checks the digest and hands over to `Brought`, the part
of `HelmClosure`'s `Download` that writes. In the other worlds `Download` stays
one step, so the two are composed rather than copied. `Republish` is the
repository: between two requests the archive may be replaced. `Lookup` is
`AmbientCredentials.Lookup` over a set of stored entries: which source answers,
in which order, with the longest repository prefix first; `CredentialFor` adds
docker's store for a registry. A path of `.git-credentials` is a prefix of text
(`TextPrefix`): the last name of it may be only the beginning of a name, which the
constant `Begins` says of two names. That a header does not
follow a redirect to another host is net/http's (`KeepsHeader`, external).

A chart repository is asked with what `Lookup` has (`AskRepository`, which is `get`). A registry is
asked by oras-go's client (external, from how `repository` configures it): without a
credential, or with what its cache has (`AskRegistry`, `Held`); when it answers
with a challenge, `credentialFor` is called, and what it returns is presented to
the registry itself (`PresentCredential`: a login for a basic challenge, a stored
bearer token for a bearer one), or taken to the token service that the challenge names
(`AskTokenService`, anonymously or with a login), whose token is then presented
(`TokenIssued`). `RefuseChallenge` is a login wanted where there is none, or an ssh
key. The challenge is that of whatever host answered, so a redirect may lead to one.
`granted` is the cache, one for all repositories of a pack as in `newOCIClient`:
a login is kept by host, a token by repository. Every request that carries something
stored leaves an entry in `wire`: for which URL it was looked up, where it began and where it is now.

`StoredForThere` does not use `Answers`. `StoredFor` says by itself, path by path and whole names
only, what an entry is stored for, and the two ways in which the code sends more
than that are disjuncts with names: `OnlySpelledFor`, an entry of `.git-credentials`
for `st` that goes to `stable`, and `StoredForNeighbour`, a login out of the
cache that was stored for, and presented to, another repository of the host. A token service is given a login only, and
only if the registry, or a host its redirects lead to, named it. The runs reach each of these.

### Normalize

A tar is a set of entries; `ReadEntry` takes any entry left, so every order is
explored. `SkipEntry`, `ReadFile`, `ReadLink` and `RefuseEntry` are the cases of
`readTree`. `StartLinks` begins `resolveLinks`. `real` follows the first link on a path
again and again, at most `MaxLinkDepth` times, and is `Followed`, a recursive
function over that bound. The recursion of `expand` is an explicit stack of frames:
where its copies go, the directory they are of, and the links below it still to do.
`ResolveLink` begins with one link of the tree, `ResolveInner` goes into a link
below the directory of the last frame, `ReturnFromExpand` leaves that frame; links are
taken in any order, the code goes by name. `LinksReplaced` resets the byte count,
`CheckFile` looks at one file again, `FinishLinks` ends.

`MeantFiles` is the reference: the least set of files that holds those in the tar
and, at the path of each link, all it holds at the path the link points to. It is computed from
the set of entries alone, in rounds that add something until nothing is missing or the cap is
passed; it shares nothing with `real` and `expand`. What the code does at corners
is named, not hidden. At the entry cap a directory entry refuses the
tar although it would not count. A file or a link below a link's own name (`Overlaid`) is
accepted or not as the links happen to expand. One below a
file's name (`Blocked`) is no tree, and the code does not look for it.

`Untar` reads the same set of entries, also in any order, onto a disk whose
objects are directories, files and links, through what `os.Root` allows
(external: `Follow`, `CanMake`, `CanWrite`; `MaxSymlinks` is how many links the
system follows on one path). It counts every entry and the
size a header claims, keeps links and ignored names, and refuses a link that
leaves. When it ends, `UnpackChart` hands the tree over or removes it, and
`Normalize` runs on the same entries. `UntarAgrees` relates the two outcomes. A tar with an
entry below the name of a link goes to `Normalize` only (`Plain`). When one name is
both a link and a file (`WrittenThrough`), `Untar` writes the file where the link leads if
the link came first; `Normalize` accepts such a tar only if it ignores the name, and the trees
may differ. A path on which the system gives up has no file on disk to compare.

### Git

Each clone is a process of its own with a program counter; a goroutine of the
code. `Start` is `Clone` up to its first connection, `OnceBegins`, `OnceEnds`
and `OncePassed` are the two `sync.Once` of `dialing`, `TakeToken` and
`StoreDialer` its two steps on the process-wide state, `CloneRepo` the clone,
`UpdateSubmodule`, `ReturnFromSubmodules` and the two refusals the recursion of
`updateSubmodules` as a stack, `Release` the deferred release. `ResolveLocally`
to `GiveUp` are `LocalRepo.Archive` and `fetch` over the refs the checkout
resolves (`store`), which the clones share. `opened` records every connection
with its dialer and what it presents. Over http the installed client serves
every clone and keeps connections by host, so a clone may be given one that
another clone opened (`Kept`); pools of go-git's default client, which dials
directly, make no difference and are left out.

### Fetcher

Each action is one step of `resolve`: `Ask` takes the next call, `List`,
`Select`, `Locate` and `RegistryKnown` are `resolveRegistry`, `RemoteKnown`,
`RemoteClimbs` and `RemoteNew` are `resolveSource`, `Fetch` is `fetch` with its
refusals and the check on what arrived. `Publish` and `Move` are the world:
between any two steps a registry may list another version and a branch or a
URL may lead elsewhere. An address is what can be read off it (`About`); what
it leads to is a value, a commit or a digest. `pulling` makes the same fetcher
serve one `Pull`: `PullEnds` and `PullRefused` are the ends of `pullTreeWith`.
`TerraformClosure` sees this from outside, as trees that have one identity,
one prefix and one pin each; `OneWorld`, `SamePrefixSameTree` and
`PinsAreTheTrees` are what it takes for granted.

## What TLC checks

A run that passes explores every state of its instance; where a system stops
by design (a verdict, a packed tar) deadlock checking is off.

| Run | Instance | Shows |
| --- | --- | --- |
| `close` | every bundle over a root, `a`, `a/b`, `c`, up to two calls from the root and one from each module | an accepted bundle is closed, refusals have a cause, calls are reported once, every walk ends, `CloseWalk` implements `GraphWalk` |
| `pack` | a component with neighbours that flatten to one vendor path and a `vendor/m` already there; links that stay, leave or lead back; a boundary; trees fetched at one prefix, at another and at one that escapes; cycles on the host and across trees; with fairness | homes are distinct and never move, own files survive, exactly the reachable modules are read, calls land, nothing that resolves outside is staged, trees keep their layout, pins are complete, refusals have a cause, every pack ends |
| `round_trip` | packs and the server's verdict on each | the server accepts what was packed but for the cases named, and walks the homes of what the client walked |
| `round_trip_overlap`, `round_trip_uncarried` | one hazard each | a packed component that the server refuses |
| `helm` | a chart, a subchart unpacked in it, a library with its own, a directory outside the boundary; locks that match, are missing or are stale; depth bound 2; downloads followed request by request, one from a repository and two from one registry, with up to two stored credentials out of fifteen (`.git-credentials` for the repository's path and for the beginning of its name among them), five chains of redirects through three hosts, and six challenges, of the registry and of a host it redirects to, naming services on other hosts, in cleartext too | the author's charts are kept, every dependency is pinned, the server accepts what was packed when locks name exact versions, cycles stop; credentials stay where they are stored for, archives are what was named |
| `helm_range`, `helm_twice` | one hazard each | see below |
| `normalize` | every tar out of a pool of files, links that chain, loop, leave or lie below each other, and other entries, in every order; small caps; a link and a file of one name; a copy that lands on a file; read by `Untar` and by `Normalize` | the canonical form is the tree the tar means; the verdict is of the tree; the two readers agree on the files, or `Untar` refuses for a reason of its own |
| `fetcher` | two calls, or one pull, over one package of four versions, one repository at two refs, an archive with a checksum and addresses that may be refused | one pack sees one world, shared directories hold the same, pins are the trees in order, only what may be fetched is, scratch has an owner |
| `git` | two clones at once out of twelve kinds: ssh and https, two dialers and none, keys, tokens and agents, submodules of every scheme, one that contains itself, a lookup that fails, the checkout itself; depth bound 2; with fairness | the table holds the running, new connections are dialed by their own clone's dialer, credentials go to their URL, a success is complete, the checkout knows every pin, every clone ends |
| `git_direct` | the ssh clones of `git` | see below |

Two calls from the root and one or two from every other module are enough for
two routes to one module, a cycle through every module, and an ancestor placed
before or after its descendant, which is what the code's decisions depend on.
The depth bounds are 2 instead of 10, of charts and of submodules, and a
redirect chain is followed for 3 requests instead of 10: the code only compares
them, and the redirects of the worlds reach their last host, or loop, by then. `Places`, the directories of a published bundle in `round_trip`, are every
directory its packs stage to, so the bound `Fits` refuses none of them.

Two calls are enough for what `fetcher` says, as each of its properties relates
two answers or two trees; the caps of `normalize` are within the reach of its
tars (every tar of up to 4 entries of one pool, of 5 of another, for caps of 4 entries,
4 bytes and 2 links followed instead of the 40 of the code), so each is met exactly, exceeded and not
met, and a path is followed through a link, through two, and refused. Two clones are enough for
`git`: its properties relate a clone to one other through the shared state.

Liveness is checked under weak fairness of the steps of the loop (`Step` of a
pack, `Next` of `Close`, `Step(c)` of each clone): one goroutine runs it until
it returns, and each clone is a goroutine of its own. Cancellation
is not a step of the loop and is not relied upon. A fetch either answers or
fails in one step; that it does is the deadline of its HTTP client or of the
caller's context. `Fetcher`, `Normalize` and `ChartFetch` have no liveness
property: their loops are over finite input.

## Where code and documentation disagree

`README.md:12-14` says every call of a bundle resolves inside the tar and every
chart dependency is under `charts/`. Four runs end in a violation of that, and a
fifth in one of what `git.go` says of `Dial`:

- `round_trip_overlap`: a module `x//a` of a tree is vendored and its remote
  call rewritten; then a call to `..` vendors the root of the tree, `copyTree`
  writes `a` again as fetched, and `walked` keeps it from being rewritten
  again. Pack succeeds, Close refuses. Two refs at one commit do the same.
- `round_trip_uncarried`: a directory that exists but holds no file, or whose
  name is ignored, satisfies `os.Stat` on the client and is not in the tar.
- `helm_range`: the archive is named by the locked version, and `CloseChart`
  looks for the declared one.
- `helm_twice`: the same directory dependency locked twice: the first copy
  makes the second look unpacked by the author, and the working copy has no
  such directory.
- `git_direct`: `git.go:50-52` and `README.md:171` say `Dial` makes every
  connection; the update of a submodule over ssh is given no proxy
  (`git.go:146`), so go-git dials it directly.

Others have no run of their own:

- `helm.go:380-382` says `lockMatches` checks that the lock names exactly what
  is declared. It compares lengths and looks up one way, so a lock that names one
  dependency twice passes for a chart that declares two, and the other is not
  packed. It is a condition of `PackedChartAccepted` that the lock does.
- `EveryConnectionDialed` fails over https too: the one http client keeps
  connections by host (`net.go:41`), so a clone with a dialer may be served over one
  that a clone with another dialer, or with none, opened before. `OwnDialer` is
  therefore of new connections.
- `README.md:169` and `pack.go:99-101` say that with `AllowInsecureHTTP` off a
  credential rides https or the fetch is refused. `newOCIClient` is not given
  the option, and a registry on `localhost` or `127.0.0.1` is spoken to over http
  (`oci.go:75-77`), credential and all; `StoredForThere` allows for that host.
- The fetches of `LocalRepo.fetch` are not dialed by `Git.Dial`, and a submodule
  at a `file://` URL is read off the disk although a dialer is set; `README.md:176`
  says such a repository is refused under one.
- `net.go:24-25` says a redirect from https to http is refused; the check looks
  at the first request only (`net.go:62`), so http to https to http passes. A
  credential is not sent in the clear by it unless `AllowInsecureHTTP` let the
  first request.
- Without `AllowInsecureHTTP` a submodule over http is still presented what
  `Lookup` has for it, and a token service that a registry names over http is
  given the login in the clear: nothing looks at the scheme of a challenge's realm.
- A registry that takes logins is given the one in the cache for every repository
  on its host, also where `repositories.yaml` has another one, or none, for that repository.
- `Archive` does not find a branch that the checkout knows only as
  `origin/<branch>`, nor origin's HEAD when the checkout has none.
- `credentials.go:97-98` says git and archives are not answered; `Lookup`
  answers them from netrc and `.git-credentials`. A path there is compared as text
  (`credentials.go:183`), so that of `org` is also sent to `organization`
  (`OnlySpelledFor`).
- `Normalize` accepts a file and entries below that file's name, which `Untar`
  cannot create; `Conflict` names the case. A link and a file of one ignored name are
  nothing to `Normalize`, and `Untar` may write the file over another of the tree.

## What is proved

- `RelativeSourceLeadsThere`: joining the relative source the packer writes to
  the caller's directory gives the target's directory, without climbing out.
- `WalkTypeCorrect`, `WalkSeesReachable`: over any graph a walk that finishes
  has seen exactly the reachable nodes. The invariant `Frontier` says that all
  it met is reachable and that successors of what it saw have been met.
- `CloseTypeCorrect`, `CloseImplementsWalk`, `AcceptedBundleIsClosed`: for any
  directories and bundles, Close implements the walk, and what it accepts is
  closed. `CloseImplementsWalk` needs the type invariant; `AcceptedBundleIsClosed`
  follows from `WalkSeesReachable` by the refinement and from the lemma that a
  directory that was walked had only calls that resolve.
- `RefusalsHaveCause`, `EveryCallReportedOnce`: of Close too. The first follows
  from `Frontier` by the same refinement: what Close met is reachable, and the
  directory it refused for was met. The second from the invariant `Recorded`
  (the calls of the directories seen, each once) and from `seen` being what is
  reachable when a bundle is accepted.

- `PackTypeCorrect`, `ModulesAreAtHome`, `TreesKeepTheirLayout`,
  `HomesNeverMove`: of a pack over any host, component, boundary, set of trees
  and module calls. None of these is inductive alone. `IInv` adds to them that
  a directory that has a home lies either in one fetched tree or apart from
  all of them, so that the module queued for it is confined to the right tree;
  that what is queued or walked is exactly a directory with its home and its
  tree (`Modules`); and that each staged entry comes from a directory there
  is. The one hard case is a directory placed under an ancestor that has a home
  already: its home keeps a tree's layout because the ancestor's does, and
  `InsideIsAChain` says the ancestor is within the tree or around it.
- `PackWalksReachable`, `BundleStaysInBoundary`, `BundleIsPinned`: of the same
  packs. `CallSettles` first reduces the five kinds of call to one step: a call
  refuses the pack, or queues its target and stages nothing but what was copied
  from a target that passed its checks. `WalkInv` then says that the calls made
  so far lead to modules walked or waiting (`CallsMet`), and that these are in
  every set of directories that calls do not leave (`NoMoreMet`). `TreesInv`
  says that the trees known, the trees pinned and the trees of placed
  directories agree, and `StagedInv` that a staged directory is bounded by its
  tree or by the boundary: `CopyOK` bounds the copied directories by the target,
  which was inside itself, and what a copy brings along is of the target's tree
  because trees are apart from the host and from each other.

- `PackRefusalsHaveCause`, `HostHomesAreApart`, `EveryCallLands`: of the same
  packs. A refusal blames a module that can be reached; `Reachable` counts rounds
  of calls, and that as many rounds as there are directories reach everything is
  a pigeonhole argument over growing finite sets, not an induction over data
  (`Round`, `IsRounds`). `CauseInv` then carries the cause to the verdict. For
  homes, `AnchorInv` says of each placed directory which vendored directory (or the
  component) brought it and that its home is at the same place below that one's;
  `SpreadInv` that no two of these spread over a common bundle directory unless
  one of them is of a fetched tree, which vendoring another keeps because the name `vendorPath`
  gives is not taken (`NamesAssumption` makes its numbered names other names). For
  calls, `CallsInv` says that until a copy overlaps another, every staged entry is
  still what was copied there, with the calls walked so far rewritten to the homes of
  what they named (`Unmoved`, `ReadsRight`), and `RelativeSourceLeadsThere` ends the argument.

- `PackedIsAccepted`, `ServerWalksPacked`: of a pack and the server's judgement
  of its tar, over any host and any bundle within `Places`. `Known` is what the
  theorems above say of the packed stage, with `ContentInv`: a staged file says what
  the disk says, walked modules parse, and every home belongs to a module walked or
  waiting. `Served` and `Agreed` relate the two walks while the server's goes on: what it
  has seen or waits for are homes of modules the client walked (`WalksHomes`), so every
  directory it opens is there, parses, and has only calls that lead to
  another. `TravelsArrives` is the bridge: a module that travels is in the
  normalized bundle as the client staged it. That the server misses none follows from
  `PackWalksReachable`: what it saw is a set that calls do not leave.

- `HelmStateIsWellFormed`, `ReadsTheChartItStaged`, `KeepsAuthorsCharts`,
  `PinsAreComplete`, `ServerAcceptsThePackedChart`: of a pack of a chart, of any
  depth, over any charts that name each other in any way. The properties speak of the
  stage when the recursion is over; the invariant speaks of the frames still open.
  `WellFormed` says how frames nest: each is in `charts/` of the one below
  it, at the dependency that one came to, and no deeper than `MaxDepth` beyond
  what the author nested. `FollowsDisk` says that what lies on the disk under the
  chart a frame reads lies in the stage under the chart it writes, the
  author's own included. `ReadsByName` says that the two are the same chart, where names
  are locked once and charts are in charts. `AllDone` says that the dependencies a
  frame has passed are pinned and there, and that every staged chart is
  either finished or still pending in a frame (`Handled`, `Tended`), so that with
  no frame left all are finished, which is what `CloseChart` looks for.

- `FetchesRefineDownload`, `FollowedChartsArePacked`: `ChartSpec => Spec`. The
  requests, redirects and answers of a download are stutters of
  `HelmClosure` up to the step that writes or refuses, so all of the above holds of
  packs followed request by request.
- `DownloadsAreWellFormed`, `CredentialsGoWhereStored`, `ArchivesArriveAsNamed`: of
  the same, over any repositories, redirects, challenges and stored credentials, while the
  repository changes. `FetchInv` says of the request out (`WellAsked`) that it is at a
  hop no later than allowed, and, unless it is to a token service, at a host that its own URL's redirects
  lead to: so a challenge met there is that registry's word. What it carries is on `wire` already,
  so a redirect has only to show that the new hop is no worse than the last. `GrantInv` says
  of the cache that a token in it is stored for its repository, and a login for one
  it has been sent to; entries never overlap. `AnsweredIsStored` is where the code's matching and
  `StoredFor` meet: they differ by `OnlySpelledFor` and nothing else. `ArrivalInv` says
  that each archive in the stage is on the disk or arrived with the digest named.

- `GitTypeCorrect`, `TableHoldsTheRunning`, `ClonesDialTheirOwn`,
  `CredentialsStayHome`, `CheckoutKnowsEveryPin`, `ClonesAreComplete`: of any number of
  clones at once, of any repositories
  with any submodules. The invariant adds that a token in hand is one given out
  and nobody else's, that the table's entries are exactly those of clones
  between `StoreDialer` and `Release`, that a clone with a dialer is past the
  installation before it opens anything, and that what a clone presents was
  accepted by `auth` on its way in. `OwnDialer` is not inductive without the
  first three. `KnowsInv` says that when the checkout is asked again it
  has the ref, or all that origin could bring. Completeness is of the recursion: a submodule passed by an open
  frame is done with everything below it, so when the last frame returns all are.

- `FetcherTypeCorrect`, `OneWorldSeen`, `PinsMatchTrees`,
  `SharedPrefixSharedTree`, `ScratchOwned`: of a fetcher over any registries,
  addresses and calls, with any number of calls, while the world changes at any
  step. The invariant says that an answer is a function of the call and the list
  of versions read for its package (`AnswerInv`), of a version it allows if it is a registry's, which is why a list read once
  makes equal calls equal; and that a tree is where its key and content say
  (`TreeInv`), pinned at the position its scratch directory is numbered.
  `MaxIsNewest` is the one fact about numbers.

- `NormalizeTypes`, `NormalizeIsTheTree`, `NormalizeVerdict`: of `Normalize`, over any tar,
  any names and caps, with entries and links in any order. The reference
  is computed in rounds, and the proofs need it as a least set: `RoundsGather` says that the
  rounds end in the least set closed under links (`Least`), unless that is larger than
  any tar may be. `ReadInv` says that what is in memory is exactly what was read. The rest is about
  the links, `LateInv`. Soundness is `HoldInv`: what is kept is
  between the files of the tar and `Least`, because what the tar means at the
  source of a frame it also means where the frame puts its copies (`Carries`). Completeness
  is `OpenInv`: at a link that was passed there is all that it means, or
  a frame that will bring it is still open (`Settled`). That an open frame counts is what the recursion
  needs, and why a source met again while it is open may be refused: `NestInv` says that frames nest along paths, so
  a link back to an open directory means a tree without end. `FreshInv` says, of tars
  that are not `Overlaid`, that nothing is yet at the places links will
  fill, and that no two of these places meet, so that nothing is kept twice.
  The reasons of a refusal (`RefusedHasFault`) are an invariant beside these,
  since they are of the moment the code refuses.

- `UntarTypes`, `TheTwoAgree`: of `Untar` beside `Normalize`, over any archive and any
  two orders of its entries. `DiskInv` says that directories lie above every object (`Rooted`), that each
  object was made for an entry that was read (`MadeFor`), that each entry read stands
  on the disk (`Stands`), that counts and bytes are those of the entries read, and that a refusal has its cause.
  When both are done, one disk and one set of links are two views of one set of entries.
  Following links on the disk stays within what the tar means, step by step, and ends
  at an entry of the tar, so it ends at the entry `Normalize` copied.
  `NormalizeUndisturbed` is the refinement `UntarSpec => Spec`: unpacking the archive changes
  nothing of what `Normalize` sees, so `NormalizedBeside` and `VerdictBeside` carry
  over what is proved of it.

The assumptions are those the modules name. The ones with content:
`HostAssumption`: no module of the host calls, by path, into or around a scratch
directory of the fetcher, whose names are random. `TreeAssumption`: fetched
trees are in scratch directories apart from each other, as numbered directories
are. `DirsAssumption`: a disk is finite. `WorldsAssumption`: a directory's module
calls are a sequence, each of one of four kinds, a directory without a file has
none, and a link leads to a directory there is. `NamesAssumption` of a pack: a numbered name
is another name; the model keeps the number beside the name, where the code
writes it after a dash. `PlacesAssumption`: bundle directories are paths of names.
`ChartsAssumption`: charts are named by paths, and the root is among them.
`NetsAssumption`: a repository is a URL, an index names an archive by a URL or by
a path beside it, redirects and token services are http or https, and chains of redirects are bounded by a number that is not
zero. `VersionsAssumption`: a list of versions has a newest. `TarsAssumption`: a tar has finitely
many entries, and the name of each is one `cleanPath` refuses or a path of names; `NamesAssumption` of `Normalize`: the refused one is no name. `LimitsAssumption` and
`MaxSymlinksAssumption`: caps are numbers, zero included. `NamesAssumption` of the
fetcher: a local directory holds one thing while it is packed, however it is
addressed, and no repository or host is named `file`.

Some properties were wrong as first stated, and attempts to prove them said so. A reference that follows
each link once misses a path that passes one link twice. `SameTree` does not hold of a name that is both
link and file, nor where the system follows fewer links than `Normalize`. Entries below a
link's name only matter if they are files or links, so `Overlaid` was narrowed to these.

Only model-checked: liveness. That every pack, every walk of `Close` and every clone ends
is checked under the fairness given above; the provers installed cannot reason about it.
Every invariant and action property of a passing run is a theorem.

## Not modelled

Byte contents, file modes and HCL formatting; I/O errors other than those that
decide a branch; removal of the temporary directories of a pack; links to
files; the dropped `.terraform.lock.hcl`; the decompressors and which of them
an archive's name selects; `Untar` of entries below a link's own name; the
addresses `DialPublic` refuses, a predicate without state; parsing of the
files credentials are kept in; identity tokens in docker's store, which are
taken for logins; scopes of a registry's tokens, and that one may expire; service discovery of module registries and
its cache; `writeTree`; the names and provenance a pull reports. A link of an ignored name is not looked at by `CopyOK`, where the code checks its
target first (`pack.go:592-598`) and may refuse: the model packs more than the
code. `HelmClosure` compares `file://` repositories by the directory they lead to,
the code by their text (`helm.go:398`): the worlds spell each in one way. Commits and
digests in prefixes are cut to 12 digits, which the models take to be as
distinct as the whole. `Detect`, `Inspect` and provenance are functions of syntax or
of a repository, without state. The table above and `PROJECT.json`
"components" say which whole parts are left out and why.

## Plan

1. Service discovery of module registries, its cache, and the credential of a
   registry across it.
2. The bundle prefixes cut to 12 digits, with collisions.

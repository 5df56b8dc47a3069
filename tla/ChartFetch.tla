---------------------------- MODULE ChartFetch ----------------------------
(***************************************************************************)
(* A chart dependency brought over the network (helm.go, oci.go), request  *)
(* by request: what each one presents out of what the machine has stored   *)
(* (credentials.go), where redirects take it (net.go), and what is accepted*)
(* at the end, while the repository may publish again in between.          *)
(*                                                                         *)
(* HelmClosure's Download, in the worlds `Online`, is one run of these     *)
(* steps.  A URL is a scheme, a host and a path; the bytes of an archive   *)
(* are their digest.                                                       *)
(***************************************************************************)
EXTENDS HelmClosure

CONSTANTS
    Online,       \* the worlds whose downloads are followed
    Nets,         \* what may surround a pack: the repositories and the machine
    Subdomains,   \* <<h, g>>: host h is a subdomain of host g
    Begins,       \* <<n, m>>: name m is spelled with name n first, and more
    Loopback,     \* the host a registry is spoken to in the clear
    Index,        \* the name index.yaml
    Bytes,        \* digests of what a repository may hold as the archive
    NoDigest,     \* an index entry without a digest
    NoCredential, \* an anonymous request
    Issued,       \* a token that a registry's token service issued
    NoNet,        \* surroundings of a world that is not followed
    MaxHops       \* requests a redirect may follow: 10 in the code

(* Where a credential is stored, in the order a lookup asks: "registered"  *)
(* is a Credentials the caller implements instead of the machine's, env    *)
(* TF_TOKEN_<host>, config the CLI configuration, helm repositories.yaml,  *)
(* and git .git-credentials.                                               *)
Sources == <<"registered", "env", "config", "helm", "netrc", "default", "git">>
IsPath(p) == p \in Seq({p[i] : i \in DOMAIN p})
IsStored(e) ==
    /\ DOMAIN e = {"by", "family", "scheme", "host", "path"}
    /\ IsPath(e.path)
    /\ e.by = "docker" \/ \E i \in DOMAIN Sources : Sources[i] = e.by
    /\ e.family \in {"bearer token", "basic auth", "ssh key"}
IsWeb(u) == u.scheme \in {"https", "http"}
IsURL(u) ==
    /\ DOMAIN u = {"scheme", "host", "path"}
    /\ IsWeb(u) \/ u.scheme = "oci"
    /\ IsPath(u.path)

(* What a registry answers a request with that it does not let through.    *)
IsChallenge(c) == c.scheme = "basic" \/ (c.scheme = "bearer" /\ IsURL(c.realm) /\ IsWeb(c.realm))

ASSUME NetsAssumption ==
    /\ Online \subseteq Worlds
    /\ MaxHops \in Nat \ {0}
    /\ \A x \in Nets :
         /\ IsURL(x.repo) /\ IsURL(x.registry) /\ x.registry.scheme = "oci"
         /\ IF x.names.absolute THEN IsURL(x.names.url)
                                ELSE x.names.up \in Nat /\ IsPath(x.names.down)
         /\ \A h \in DOMAIN x.redirects : IsURL(x.redirects[h]) /\ IsWeb(x.redirects[h])
         /\ \A h \in DOMAIN x.challenges : IsChallenge(x.challenges[h])
         /\ \A e \in x.stored : IsStored(e)
         /\ {x.insecure, x.digests} \subseteq BOOLEAN

VARIABLES
    net,      \* the surroundings of this pack; never change
    holds,    \* what the repository has as the archive now
    phase,    \* "idle", "describing", "described" or "fetching"
    request,  \* the request out: for what, where it began and is, what it carries
    named,    \* the digest the index or the manifest named
    granted,  \* the registry client's cache: what hosts were satisfied with
    wire,     \* every credential sent, with what it was looked up for
    arrived   \* the archives written: name, chart, digest and digest named

fetchVars == <<net, holds, phase, request, named, granted, wire, arrived>>

NoRequest == [url |-> NoCredential]

ChartInit ==
    /\ Init
    /\ net \in IF disk \in Online THEN Nets ELSE {NoNet}
    /\ holds \in IF disk \in Online THEN Bytes ELSE {NoDigest}
    /\ phase = "idle"
    /\ request = NoRequest
    /\ named = NoDigest
    /\ granted = {}
    /\ wire = {}
    /\ arrived = <<>>

-----------------------------------------------------------------------------
(* AmbientCredentials.Lookup.                                              *)

Rank(e) == CHOOSE i \in DOMAIN Sources : Sources[i] = e.by

(* strings.HasPrefix of two paths: the last name of one may be only the    *)
(* beginning of the other's.                                               *)
SpelledFirst(p, q) ==
    /\ p # <<>> /\ Len(p) <= Len(q)
    /\ \A i \in 1 .. Len(p) - 1 : p[i] = q[i]
    /\ <<p[Len(p)], q[Len(p)]>> \in Begins
TextPrefix(p, q) == Inside(p, q) \/ SpelledFirst(p, q)

(* Whether what is stored answers for a URL.  Slip: repositories.yaml is   *)
(* read by host.                                                           *)
Answers_AnyPath(e, u) ==
    \/ e.by \in {"registered", "env", "config"} /\ e.host = u.host
    \/ e.by = "helm" /\ e.scheme = u.scheme /\ e.host = u.host
    \/ e.by = "netrc" /\ IsWeb(u) /\ e.host = u.host
    \/ e.by = "default" /\ IsWeb(u)
    \/ e.by = "git" /\ IsWeb(u) /\ e.scheme = u.scheme /\ e.host = u.host /\ TextPrefix(e.path, u.path)
    \/ e.by = "docker" /\ u.scheme = "oci" /\ e.host = u.host
Answers(e, u) ==
    \/ e.by \in {"registered", "env", "config"} /\ e.host = u.host
    \/ e.by = "helm" /\ e.scheme = u.scheme /\ e.host = u.host /\ Inside(e.path, u.path)
    \/ e.by = "netrc" /\ IsWeb(u) /\ e.host = u.host
    \/ e.by = "default" /\ IsWeb(u)
    \/ e.by = "git" /\ IsWeb(u) /\ e.scheme = u.scheme /\ e.host = u.host /\ TextPrefix(e.path, u.path)
    \/ e.by = "docker" /\ u.scheme = "oci" /\ e.host = u.host

(* The first source that has something, and of repositories the longest.   *)
Precedes(e, f) ==
    \/ Rank(e) < Rank(f)
    \/ e.by = "helm" /\ f.by = "helm" /\ Len(e.path) > Len(f.path)
Lookup(u) ==
    LET fit == {e \in net.stored : e.by # "docker" /\ Answers(e, u)} IN
    IF fit = {} THEN NoCredential
    ELSE CHOOSE e \in fit : \A f \in fit : ~Precedes(f, e)

(* credentialFor: docker's store answers a registry when the lookup has    *)
(* nothing.                                                                *)
Docker(u) == {e \in net.stored : e.by = "docker" /\ Answers(e, u)}
CredentialFor(u) ==
    IF Lookup(u) = NoCredential /\ Docker(u) # {}
      THEN CHOOSE e \in Docker(u) : TRUE
      ELSE Lookup(u)

Family(e) == IF e = NoCredential THEN "none" ELSE e.family

-----------------------------------------------------------------------------
(* One request: sent, redirected, answered or failed.                      *)

(* A registry is spoken to over https but on the machine itself.           *)
Actual(u) ==
    IF u.scheme # "oci" THEN u
    ELSE [u EXCEPT !.scheme = IF u.host = Loopback THEN "http" ELSE "https"]

Request(u, first, e) ==
    [url |-> u, first |-> first, at |-> first, via |-> 1, carries |-> e,
     retried |-> FALSE, exchange |-> FALSE]

(* What a request puts on the wire of what the machine has stored.         *)
Sent(q) ==
    IF q.carries \in {NoCredential, Issued} THEN {}
    ELSE {[credential |-> q.carries, url |-> q.url, first |-> q.first, at |-> q.at,
           exchange |-> q.exchange]}
Send(q) == request' = q /\ wire' = wire \cup Sent(q)

RefuseFetch ==
    /\ Refuse("fetch")
    /\ phase' = "idle"
    /\ request' = NoRequest
    /\ UNCHANGED <<net, holds, named, granted, wire, arrived>>

Following == disk \in Online /\ Downloading
Waiting == Following /\ phase \in {"describing", "fetching"}
Http == Locked.repo.kind = "http"

(* A registry's challenge to a request, which one that carries something   *)
(* may be met with too.                                                    *)
Challenge == net.challenges[request.at.host]
Challenging == ~Http /\ ~request.exchange /\ request.at.host \in DOMAIN net.challenges
Passes == ~Challenging \/ request.carries # NoCredential

(* CheckRedirect: ten requests are enough, and what began on https stays   *)
(* on it.  net/http drops the header for good once the host is neither the *)
(* first nor below it.                                                     *)
Downgrades(from, to) == from.scheme = "https" /\ to.scheme # "https"
KeepsHeader(from, to) == to.host = from.host \/ <<to.host, from.host>> \in Subdomains
Redirect ==
    /\ Waiting /\ Passes
    /\ request.at.host \in DOMAIN net.redirects
    /\ LET to == net.redirects[request.at.host]
           e == IF KeepsHeader(request.first, to) THEN request.carries ELSE NoCredential IN
       IF request.via >= MaxHops \/ Downgrades(request.first, to) THEN RefuseFetch
       ELSE /\ Send([request EXCEPT !.at = to, !.via = @ + 1, !.carries = e])
            /\ UNCHANGED <<vars, net, holds, phase, named, granted, arrived>>

(* No connection, another status than 200, too large, not an index, no     *)
(* entry for the version, no chart layer, no token.                        *)
RequestFails == Waiting /\ RefuseFetch

Answered == Waiting /\ Passes /\ request.at.host \notin DOMAIN net.redirects

-----------------------------------------------------------------------------
(* To a chart repository: get and authorize.                               *)

Authorized(e, u) ==
    e # NoCredential =>
        /\ e.family # "ssh key"
        /\ u.scheme = "http" => net.insecure

AskRepository(u, e, next) ==
    IF ~IsWeb(u) \/ ~Authorized(e, u) THEN RefuseFetch
    ELSE /\ phase' = next
         /\ Send(Request(u, u, e))
         /\ UNCHANGED <<vars, net, holds, named, granted, arrived>>

-----------------------------------------------------------------------------
(* To a registry, through oras-go's client: asked without a credential, or *)
(* with what its cache has; once challenged it calls credentialFor and     *)
(* asks again.  A registry that wants a login is given it, one that wants a *)
(* token is given a bearer token as it is stored, or one that the service  *)
(* it names issues, to a login or to anybody.                              *)

Reference == [net.registry EXCEPT !.path = Append(@, Locked.name)]

(* The cache has one login for a host, or a token for each repository.     *)
Held(u) == {c \in granted : c.url.host = u.host /\ (c.basic \/ c.url = u)}
Cached(u) == IF Held(u) = {} THEN NoCredential ELSE (CHOOSE c \in Held(u) : TRUE).carries
Grant(c) ==
    granted' = {c} \cup {d \in granted : d.url.host # c.url.host
                                        \/ (~c.basic /\ ~d.basic /\ d.url # c.url)}

AskRegistry(next) ==
    /\ phase' = next
    /\ Send(Request(Reference, Actual(Reference), Cached(Reference)))
    /\ UNCHANGED <<vars, net, holds, named, granted, arrived>>

AskAgain(e, basic) ==
    /\ Send([Request(request.url, Actual(request.url), e) EXCEPT !.retried = TRUE])
    /\ Grant([url |-> request.url, basic |-> basic, carries |-> e])
    /\ UNCHANGED <<vars, net, holds, phase, named, arrived>>

Challenged == Waiting /\ Challenging /\ ~request.retried

PresentCredential ==
    /\ Challenged
    /\ LET e == CredentialFor(request.url)
           basic == Challenge.scheme = "basic" IN
       /\ Family(e) = IF basic THEN "basic auth" ELSE "bearer token"
       /\ AskAgain(e, basic)

AskTokenService ==
    /\ Challenged
    /\ Challenge.scheme = "bearer"
    /\ LET e == CredentialFor(request.url) IN
       /\ Family(e) \in {"none", "basic auth"}
       /\ Send([Request(request.url, Challenge.realm, e) EXCEPT !.exchange = TRUE])
    /\ UNCHANGED <<vars, net, holds, phase, named, granted, arrived>>

TokenIssued ==
    /\ Answered
    /\ request.exchange
    /\ AskAgain(Issued, FALSE)

(* An ssh key is refused, and a login is wanted where there is none.       *)
RefuseChallenge ==
    /\ Challenged
    /\ LET family == Family(CredentialFor(request.url)) IN
       family = "ssh key" \/ (Challenge.scheme = "basic" /\ family # "basic auth")
    /\ RefuseFetch

-----------------------------------------------------------------------------
(* fetchChart and pullChart: the index or the manifest first, then the     *)
(* archive it names.                                                       *)

IndexURL == [net.repo EXCEPT !.path = Append(@, Index)]
Describe ==
    /\ Following
    /\ phase = "idle"
    /\ IF Http THEN AskRepository(IndexURL, Lookup(IndexURL), "describing")
       ELSE AskRegistry("describing")

(* The index names the archive's digest or none, a manifest always does.   *)
Described ==
    /\ Answered
    /\ phase = "describing" /\ ~request.exchange
    /\ named' = IF Http /\ ~net.digests THEN NoDigest ELSE holds
    /\ phase' = "described"
    /\ request' = NoRequest
    /\ UNCHANGED <<vars, net, holds, granted, wire, arrived>>

(* resolveChartURL.                                                        *)
ChartURL ==
    IF net.names.absolute THEN net.names.url
    ELSE [net.repo EXCEPT !.path = JoinSource(@, net.names.up, net.names.down)]

AskArchive ==
    /\ Following
    /\ phase = "described"
    /\ IF Http THEN AskRepository(ChartURL, Lookup(ChartURL), "fetching")
       ELSE AskRegistry("fetching")

(* A registry is asked for the layer by digest; either way what comes is   *)
(* what is there now, and is checked against the digest named.             *)
(* Slip: only a layer is checked.                                          *)
Verified_LayersOnly(got) == ~Http => got = named
Verified(got) == named # NoDigest => got = named
Arrives ==
    /\ Answered
    /\ phase = "fetching" /\ ~request.exchange
    /\ \E got \in IF Http THEN {holds} ELSE {holds, named} :
         IF ~Verified(got) THEN RefuseFetch
         ELSE /\ Brought
              /\ arrived' = Append(arrived, [chart |-> Top.at, archive |-> Archive(Locked),
                                             holds |-> got, named |-> named])
              /\ phase' = "idle"
              /\ request' = NoRequest
              /\ UNCHANGED <<net, holds, named, granted, wire>>

(* The repository replaces the archive under the same version.             *)
Republish ==
    /\ Following
    /\ phase # "idle"
    /\ holds' \in Bytes
    /\ UNCHANGED <<vars, net, phase, request, named, granted, wire, arrived>>

ChartNext ==
    \/ Offline /\ UNCHANGED fetchVars
    \/ disk \notin Online /\ Download /\ UNCHANGED fetchVars
    \/ Describe \/ Described \/ AskArchive \/ Arrives
    \/ PresentCredential \/ AskTokenService \/ TokenIssued \/ RefuseChallenge
    \/ Redirect \/ RequestFails \/ Republish

ChartSpec == ChartInit /\ [][ChartNext]_<<vars, fetchVars>>

-----------------------------------------------------------------------------
(* What a download promises.                                               *)

(* HelmClosure's state is well formed, requests of several steps included; *)
(* a registry's cache has one login for a host or a token for each of its  *)
(* repositories.                                                           *)
ChartFetchTypeOK ==
    /\ HelmTypeOK
    /\ phase \in {"idle", "describing", "described", "fetching"}
    /\ {holds, named} \subseteq Bytes \cup {NoDigest}
    /\ phase # "idle" => Following
    /\ request # NoRequest <=> phase \in {"describing", "fetching"}
    /\ request # NoRequest => request.via \in 1 .. MaxHops
    /\ \A c, d \in granted : c.url.host = d.url.host => c = d \/ ~(c.basic \/ d.basic \/ c.url = d.url)

(* What an entry is stored for, path by path: a name is matched whole.     *)
StoredFor(e, u) ==
    /\ e.by # "default" => e.host = u.host
    /\ e.by \in {"netrc", "default", "git"} => IsWeb(u)
    /\ e.by \in {"helm", "git"} => e.scheme = u.scheme /\ Inside(e.path, u.path)
    /\ e.by = "docker" => u.scheme = "oci"

(* What it answers for besides: .git-credentials is matched as text.       *)
OnlySpelledFor(e, u) ==
    /\ e.by = "git" /\ IsWeb(u)
    /\ e.scheme = u.scheme /\ e.host = u.host
    /\ SpelledFirst(e.path, u.path)

(* A registry that takes logins itself is given the one in the cache for   *)
(* every repository on its host: it was stored for another one there.      *)
StoredForNeighbour(s) ==
    /\ s.url.scheme = "oci" /\ ~s.exchange
    /\ s.credential.family = "basic auth"
    /\ \E t \in wire :
         t.credential = s.credential /\ t.url.host = s.url.host /\ StoredFor(t.credential, t.url)

(* The hosts that a host's redirects lead to, itself included.             *)
LedTo(h) ==
    LET hosts == {h} \cup {net.redirects[x].host : x \in DOMAIN net.redirects}
        Closed(S) == h \in S /\ \A x \in S \cap DOMAIN net.redirects : net.redirects[x].host \in S IN
    {x \in hosts : \A S \in SUBSET hosts : Closed(S) => x \in S}

(* A token service is given a login, never a bearer token, and only by the *)
(* word of the registry or of a host its redirects lead to.                *)
NamedTokenService(s) ==
    /\ s.url.scheme = "oci"
    /\ s.credential.family = "basic auth"
    /\ \E x \in LedTo(s.url.host) \cap DOMAIN net.challenges :
         net.challenges[x].scheme = "bearer" /\ net.challenges[x].realm = s.first

(* A credential is sent only where it is stored for, whatever an index     *)
(* names, redirects lead to and a registry answers (but for entries that   *)
(* are only spelled for it, and a login in the cache).  It goes to the URL *)
(* it was looked up for, or to the token service of that registry, and     *)
(* from there along redirects that stay on that host or below it and on    *)
(* https; in the clear only where AllowInsecureHTTP says so, the registry  *)
(* is this machine, or a token service is spelled so; and never an ssh key.*)
StoredForThere ==
    \A s \in wire :
        /\ StoredFor(s.credential, s.url) \/ OnlySpelledFor(s.credential, s.url) \/ StoredForNeighbour(s)
        /\ s.credential.family # "ssh key"
        /\ IF s.exchange THEN NamedTokenService(s) ELSE s.first = Actual(s.url)
        /\ KeepsHeader(s.first, s.at)
        /\ s.at.scheme = "http" => s.first.scheme = "http"
        /\ s.first.scheme = "http" =>
             net.insecure \/ s.exchange \/ (s.url.scheme = "oci" /\ s.url.host = Loopback)

(* An archive in the bundle is the author's, or one whose bytes the index  *)
(* or the manifest named, though the repository published again between    *)
(* the two requests.                                                       *)
ArrivesAsNamed ==
    disk \in Online =>
        \A p \in DOMAIN stage : \A t \in stage[p].tgz :
            \/ \E d \in DOMAIN disk : t \in disk[d].tgz
            \/ \E i \in DOMAIN arrived :
                 /\ arrived[i].chart = p /\ arrived[i].archive = t
                 /\ arrived[i].named \in {NoDigest, arrived[i].holds}
=============================================================================

---------------------------- MODULE MCChartFetch ----------------------------
(***************************************************************************)
(* Charts that are downloaded from a repository on h, which may send the   *)
(* client to its subdomain, to another host or to cleartext, and from a    *)
(* registry there or on this machine, which may send it for a login or a   *)
(* token first; with what a machine may have stored for them.              *)
(***************************************************************************)
EXTENDS ChartFetch, MCHelmClosure

CONSTANTS h, cdn, g, local, stable, st, index, tgz

MCSubdomains == {<<cdn, h>>}

(* stable is spelled with st first.                                        *)
MCBegins == {<<st, stable>>}

(* A chart with one archive from a repository, one with two from a         *)
(* registry.                                                               *)
Online1(deps) == World(Fresh(deps), {}, Fresh(<<>>), {})
MCOnline ==
    {Online1(<<Dep(b, v1, Repo("http"))>>),
     Online1(<<Dep(a, v1, Repo("oci")), Dep(b, v1, Repo("oci"))>>)}

MCWorlds == ChartWorlds \cup NestedWorlds \cup MCOnline

URL(scheme, host, path) == [scheme |-> scheme, host |-> host, path |-> path]
Absolute(url) == [absolute |-> TRUE, url |-> url]
Relative(up, down) == [absolute |-> FALSE, up |-> up, down |-> down]

(* What a machine, or a server, may have stored.                           *)
Token(by, host) ==
    [by |-> by, family |-> "bearer token", scheme |-> "https", host |-> host, path |-> <<>>]
Login(by, scheme, host, path) ==
    [by |-> by, family |-> "basic auth", scheme |-> scheme, host |-> host, path |-> path]
Key(by, host) == [Token(by, host) EXCEPT !.family = "ssh key"]
Alone(S) == {{}} \cup {{e} : e \in S}
Pairs(S) == {{e, f} : e, f \in S}

RepositoryStored ==
    {Token("env", h), Token("config", g), Login("helm", "https", h, <<stable>>),
     Login("helm", "https", h, <<>>), Login("netrc", "https", h, <<>>),
     Login("default", "https", g, <<>>), Login("git", "https", h, <<st>>),
     Login("git", "https", h, <<stable>>)}
RegistryStored ==
    {Token("env", h), Login("helm", "oci", h, <<stable>>), Login("helm", "oci", h, <<stable, a>>),
     Login("netrc", "https", h, <<>>), Login("docker", "oci", h, <<>>), Login("docker", "oci", local, <<>>),
     Login("registered", "oci", local, <<>>)}

To(host) == host :> URL("https", host, <<tgz>>)
RepositoryRedirects ==
    {<<>>, h :> URL("https", cdn, <<tgz>>), To(h), h :> URL("http", h, <<tgz>>),
     (h :> URL("https", cdn, <<tgz>>)) @@ (cdn :> URL("https", g, <<tgz>>)),
     (h :> URL("https", g, <<tgz>>)) @@ (g :> URL("http", cdn, <<tgz>>))}
RegistryRedirects == {<<>>, h :> URL("https", g, <<tgz>>), cdn :> URL("https", g, <<tgz>>)}

Basic == [scheme |-> "basic"]
Bearer(scheme, host) == [scheme |-> "bearer", realm |-> URL(scheme, host, <<index>>)]
Challenges ==
    {<<>>, h :> Basic, h :> Bearer("https", cdn), h :> Bearer("http", g), g :> Bearer("https", g),
     local :> Basic, local :> Bearer("http", local)}

Repositories(stored, insecure, digests) ==
    [repo : {URL("https", h, <<stable>>), URL("http", h, <<stable>>)},
     registry : {URL("oci", h, <<stable>>)},
     names : {Relative(0, <<tgz>>), Relative(1, <<tgz>>), Absolute(URL("https", g, <<tgz>>)),
              Absolute(URL("http", h, <<tgz>>)), Absolute(URL("oci", h, <<stable>>))},
     redirects : RepositoryRedirects, challenges : {<<>>},
     stored : stored, insecure : insecure, digests : digests]
MCRepositories ==
    Repositories(Alone({Token("registered", h), Key("registered", h)}) \cup Pairs(RepositoryStored),
                 BOOLEAN, {TRUE})
      \cup Repositories({{}}, {FALSE}, {FALSE})

MCRegistries ==
    [repo : {URL("https", h, <<stable>>)},
     registry : {URL("oci", h, <<stable>>), URL("oci", local, <<stable>>)},
     names : {Relative(0, <<tgz>>)},
     redirects : RegistryRedirects, challenges : Challenges,
     stored : Alone({Key("registered", h), Token("registered", h)}) \cup Pairs(RegistryStored),
     insecure : {FALSE}, digests : {TRUE}]

MCNets == MCRepositories \cup MCRegistries
=============================================================================

---------------------------- MODULE MCGitClone ----------------------------
(***************************************************************************)
(* Clones with different dialers of repositories over ssh and https, with  *)
(* submodules of every scheme, one of them itself; and a checkout.         *)
(***************************************************************************)
EXTENDS GitClone, TLC

CONSTANTS d1, d2

MCUrl == {"main", "lib", "deep", "loop", "disk"}
MCScheme == ("main" :> "ssh") @@ ("lib" :> "https") @@ ("deep" :> "ssh") @@ ("loop" :> "https")
              @@ ("disk" :> "file")
MCSubs == ("main" :> <<"lib", "deep">>) @@ ("lib" :> <<"disk">>) @@ ("deep" :> <<>>)
              @@ ("loop" :> <<"loop">>) @@ ("disk" :> <<>>)

MCRef == {"sha", "v1", "dev", "nowhere"}
MCKind == ("sha" :> "commit") @@ ("v1" :> "tag") @@ ("dev" :> "branch") 
              @@ ("nowhere" :> "absent")

Nothing == [u \in MCUrl |-> "none"]
Clone(url, dial, agent, cred, finds) ==
    [url |-> url, ref |-> "sha", own |-> FALSE, dial |-> dial, agent |-> agent, cred |-> cred,
     finds |-> finds]

(* Over ssh by key or agent, with what Lookup finds for the submodules: a  *)
(* credential that fits, one that does not, none, or an error.             *)
SshJobs ==
    {Clone("main", d1, TRUE, "none", Nothing),
     Clone("main", d2, TRUE, "key", [Nothing EXCEPT !["lib"] = "basic", !["deep"] = "key"]),
     Clone("main", Direct, FALSE, "key", [Nothing EXCEPT !["lib"] = "token", !["deep"] = "basic"]),
     Clone("deep", d1, TRUE, "none", Nothing)}
HttpJobs ==
    {Clone("lib", d1, FALSE, "basic", Nothing),
     Clone("loop", d2, FALSE, "token", Nothing),
     Clone("loop", Direct, FALSE, "none", [Nothing EXCEPT !["loop"] = "basic"]),
     Clone("lib", d2, FALSE, "key", Nothing)}
OwnJobs ==
    {[Clone("main", d1, TRUE, "none", Nothing) EXCEPT !.own = TRUE, !.ref = r] : r \in MCRef}
    \cup {Clone("main", d1, FALSE, "none", Nothing),
          Clone("main", d1, TRUE, "none", [Nothing EXCEPT !["lib"] = "error"])}
MCJobs == SshJobs \cup HttpJobs \cup OwnJobs
=============================================================================

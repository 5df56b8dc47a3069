----------------------------- MODULE MCFetcher -----------------------------
(***************************************************************************)
(* One registry package, one repository at two refs, an archive with a     *)
(* checksum, and addresses of each kind that may be refused.               *)
(***************************************************************************)
EXTENDS Fetcher, TLC

CONSTANTS pk, old, new, sub

MCBase == {"main", "tag", "zip", "near", "far", "disk", "dash", "plain", "bucket"}

Address(scheme, name) ==
    [scheme |-> scheme, name |-> name, badRef |-> FALSE, cleartext |-> FALSE,
     outside |-> FALSE, checksum |-> {}]

MCAbout ==
    [main |-> Address("git", "repo"), tag |-> Address("git", "repo"),
     zip |-> [Address("http", "archive") EXCEPT !.checksum = {old}],
     near |-> Address("file", "near"),
     far |-> [Address("file", "far") EXCEPT !.outside = TRUE],
     disk |-> Address("gitfile", "disk"),
     dash |-> [Address("git", "repo") EXCEPT !.badRef = TRUE],
     plain |-> [Address("http", "plain") EXCEPT !.cleartext = TRUE],
     bucket |-> Address("none", "bucket")]

MCMayLead == [b \in MCBase |-> IF b \in {"main", "tag", "zip"} THEN {old, new} ELSE {old}]

(* Version 0 is at a location that climbs, and prerelease 3 at a directory.*)
MCLocation ==
    [package \in {pk} |->
        [v \in 0 .. 3 |->
            CASE v = 0 -> [base |-> "main", up |-> 1, down |-> <<>>]
              [] v = 1 -> [base |-> "tag", up |-> 0, down |-> <<>>]
              [] v = 2 -> [base |-> "main", up |-> 0, down |-> <<sub>>]
              [] v = 3 -> [base |-> "near", up |-> 0, down |-> <<>>]]]

Require(allowed, down) == [kind |-> "registry", pkg |-> pk, allowed |-> allowed, down |-> down]
From(address, up, down) == [kind |-> "remote", base |-> address, up |-> up, down |-> down]

MCCalls ==
    {Require(AnyRelease, <<>>), Require({0}, <<>>), Require({1}, <<sub>>), Require({1, 2}, <<>>),
     Require({2, 3}, <<>>), From("main", 1, <<>>), [kind |-> "nonliteral"], [kind |-> "unsupported"]}
    \cup {From(address, 0, <<sub>>) : address \in MCBase}
    \cup {From("main", 0, <<>>)}
MCPulls == {Require(AnyRelease, <<>>), Require({0, 3}, <<>>), [kind |-> "nonliteral"]}
    \cup {From(address, 0, <<sub>>) : address \in MCBase}
=============================================================================

----------------------------- MODULE RoundTrip -----------------------------
(***************************************************************************)
(* A component packed by the client, and the tar judged by the server:     *)
(* TerraformClosure, then what travels (packTree's files, less what        *)
(* Normalize drops), then CloseWalk on that tree.                          *)
(***************************************************************************)
EXTENDS TerraformClosure

CONSTANTS
    DirName,   \* names of bundle directories
    Places     \* bundle directories: bounds the packs that are published

ASSUME PlacesAssumption == <<>> \in Places /\ Places \subseteq Seq(DirName)

VARIABLES bundle, toClose, seen, found, verdict

serverVars == <<bundle, toClose, seen, found, verdict>>

Server == INSTANCE CloseWalk WITH
    Name <- DirName, Dirs <- Places, Bundles <- {},
    queue <- toClose

(* packTree carries regular files only, and Normalize drops an entry with  *)
(* an ignored name anywhere in its path.                                   *)
Carried(q) ==
    /\ q \in DOMAIN stage
    /\ stage[q].file
    /\ \A i \in DOMAIN q : q[i] \notin Ignored

AsSource(c) == [local |-> c.kind = "local", up |-> c.up, down |-> c.down]

Normalized ==
    [q \in Places |->
        IF Carried(q)
          THEN [file |-> TRUE, parses |-> disk[stage[q].from].parses,
                calls |-> [i \in DOMAIN stage[q].calls |-> AsSource(stage[q].calls[i])]]
          ELSE [file |-> FALSE, parses |-> TRUE, calls |-> <<>>]]

RoundTripInit ==
    /\ Init
    /\ bundle = <<>>
    /\ toClose = <<>>
    /\ seen = {}
    /\ found = <<>>
    /\ verdict = "unpublished"

Packing == Next /\ UNCHANGED serverVars

(* Bound: every directory of the bundle is one of Places.                  *)
Fits == DOMAIN stage \subseteq Places

(* The tar is uploaded, normalized, and Close starts on it.                *)
Publish ==
    /\ status = "packed"
    /\ Fits
    /\ verdict = "unpublished"
    /\ bundle' = Normalized
    /\ toClose' = <<Server!Root>>
    /\ verdict' = "walking"
    /\ UNCHANGED <<vars, seen, found>>

Closing == Server!Next /\ UNCHANGED vars

RoundTripNext == Packing \/ Publish \/ Closing

RoundTripSpec == RoundTripInit /\ [][RoundTripNext]_<<vars, serverVars>>

-----------------------------------------------------------------------------
(* A module directory whose copy has a file, and no ignored name on the    *)
(* way to it, travels.                                                     *)
Travels(d) ==
    /\ \E e \in CopiedDirs(d) : disk[e].file
    /\ ~UnderIgnored(placed[d])

(* What the client packs the server accepts, if every module it walked     *)
(* travels and no copy landed on another: client and server agree          *)
(* on what closed means, and every rewrite says where the module is.       *)
PackedBundleAccepted ==
    verdict \in Server!Refusals => Overlaid \/ \E d \in walked : ~Travels(d)

(* A bundle that is accepted has been judged on the modules the client     *)
(* walked: the server reads the home of each of them and nothing else.     *)
ServerWalksWhatWasPacked ==
    verdict = "closed" /\ ~Overlaid => seen = {placed[d] : d \in walked}

(* README.md:12-14, without a condition: a packed component is closed.     *)
EveryPackIsClosed == verdict \notin Server!Refusals
=============================================================================

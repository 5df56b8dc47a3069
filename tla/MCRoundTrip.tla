---------------------------- MODULE MCRoundTrip ----------------------------
(***************************************************************************)
(* Small disks for the round trip from a component to the server's verdict.*)
(***************************************************************************)
EXTENDS RoundTrip, MCTerraformClosure

MCDirName == {q, p, r, s, m, n, a, v, x, y, z, w, dot} \cup {<<m, 2>>, <<n, 2>>}

(* A component with a module s and a module under an ignored name, a       *)
(* neighbour p/m that may hold no file, a tree x with a inside it, the     *)
(* same commit at y, and z.                                                *)
TripDirs == {<<q, p, r>>, <<q, p, r, s>>, <<q, p, r, dot>>, <<q, p, m>>, <<q, p, m, n>>, <<x, a>>, <<y, a>>}
              \cup Scratch

TripPlaces ==
    {<<>>, <<s>>, <<dot>>, <<v, m>>, <<v, m, n>>, <<v, m, <<n, 2>>>>, <<v, <<m, 2>>>>, <<v, <<m, 2>>, n>>,
     <<v, x>>, <<v, x, a>>, <<v, z>>}

TripDisk(w0, w1, w2, w3, w4, w5) ==
    Disk([d \in TripDirs |->
            CASE d = <<q, p, r>> -> w0 [] d = <<q, p, r, s>> -> w1 [] d = <<q, p, m>> -> w2
              [] d = <<q, p, m, n>> -> w3 [] d \in {<<x>>, <<y>>} -> w4
              [] d \in {<<x, a>>, <<y, a>>} -> w5 [] OTHER -> Hcl(<<>>)], NoLinks)

TripWorlds ==
    {TripDisk(w0, w1, w2, w3, w4, w5) :
        w0 \in AllHcl(UpTo2({LocalCall(0, <<s>>), LocalCall(0, <<dot>>), LocalCall(1, <<m, n>>),
                             LocalCall(1, <<m>>), RemoteCall(t1, 0, <<a>>), RemoteCall(t2, 0, <<>>)})),
        w1 \in {Empty} \cup AllHcl(UpTo1({LocalCall(2, <<m, n>>), LocalCall(1, <<>>)})),
        w2 \in {Empty} \cup AllHcl(UpTo1({LocalCall(0, <<n>>), RemoteCall(t1, 0, <<a>>)})),
        w3 \in {Empty} \cup AllHcl(UpTo1({LocalCall(1, <<>>), LocalCall(2, <<r, s>>)})),
        w4 \in AllHcl(UpTo1({LocalCall(0, <<a>>)})),
        w5 \in {Empty} \cup AllHcl(UpTo2({LocalCall(1, <<>>), RemoteCall(t3, 0, <<>>)}))}

(* One hazard at a time, each a component a team could have.               *)
(* A module of a tree with a registry dependency, and a wrapper call up to *)
(* the tree's root.                                                        *)
OverlapWorlds ==
    {TripDisk(Hcl(<<RemoteCall(t1, 0, <<a>>)>>), Hcl(<<>>), Hcl(<<>>), Hcl(<<>>), w4,
              Hcl(<<RemoteCall(t3, 0, <<>>), LocalCall(1, <<>>)>>)) :
        w4 \in AllHcl(UpTo1({LocalCall(0, <<a>>), RemoteCall(t3, 0, <<>>)}))}
(* A module directory that is there and holds nothing, and one under an    *)
(* ignored name.                                                           *)
UncarriedWorlds ==
    {TripDisk(Hcl(cs), w1, w2, Hcl(<<>>), Hcl(<<>>), Hcl(<<>>)) :
        cs \in UpTo2({LocalCall(0, <<s>>), LocalCall(0, <<dot>>), LocalCall(1, <<m>>)}),
        w1 \in {Empty, Hcl(<<>>)},
        w2 \in {Hcl(<<>>), Hcl(<<LocalCall(1, <<r, dot>>)>>)}}
=============================================================================

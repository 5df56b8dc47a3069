------------------------ MODULE MCTerraformClosure ------------------------
(***************************************************************************)
(* Families of small disks for closeTerraform.                             *)
(***************************************************************************)
EXTENDS TerraformClosure, TLC

CONSTANTS
    q, p, r, s, m, n, a, v, x, y, z, w, dot,  \* directory names
    t1, t2, t3, t4                          \* remote trees

LocalCall(up, down) == [kind |-> "local", up |-> up, down |-> down, addr |-> NoTree]
RemoteCall(addr, up, down) == [kind |-> "remote", up |-> up, down |-> down, addr |-> addr]
OtherCall(kind) == [kind |-> kind, up |-> 0, down |-> <<>>, addr |-> NoTree]

UpTo1(S) == {<<>>} \cup {<<c>> : c \in S}
UpTo2(S) == UpTo1(S) \cup {<<c, d>> : c, d \in S}

(* A directory's configuration: HCL, JSON, broken, or none.                *)
Hcl(calls) == [file |-> TRUE, json |-> FALSE, parses |-> TRUE, calls |-> calls]
Json(calls) == [file |-> TRUE, json |-> TRUE, parses |-> TRUE, calls |-> calls]
Broken == [file |-> TRUE, json |-> FALSE, parses |-> FALSE, calls |-> <<>>]
Empty == [file |-> FALSE, json |-> FALSE, parses |-> TRUE, calls |-> <<>>]
AllHcl(lists) == {Hcl(cs) : cs \in lists}

(* A disk: each directory's configuration, and the links; a link holds     *)
(* what the directory it leads to holds.                                   *)
Disk(conf, links) ==
    [d \in DOMAIN conf |->
        LET at == IF d \in DOMAIN links THEN links[d] ELSE d IN
        [real |-> at, file |-> conf[at].file, json |-> conf[at].json,
         parses |-> conf[at].parses, calls |-> conf[at].calls]]
NoLinks == <<>>

MCNames == {q, p, r, s, m, n, a, v, x, y, z, w, dot}
MCRoot == <<q, p, r>>
MCBoundary == {<<q>>}
MCTreeAt == (t1 :> <<x>>) @@ (t2 :> <<y>>) @@ (t3 :> <<z>>) @@ (t4 :> <<w>>)
(* t1 and t2 are two refs at one commit: they map to one bundle directory. *)
MCPrefix == (t1 :> <<v, x>>) @@ (t2 :> <<v, x>>) @@ (t3 :> <<v, z>>) @@ (t4 :> <<v, w>>)
Scratch == {<<x>>, <<y>>, <<z>>, <<w>>}

-----------------------------------------------------------------------------
(* The host around the component.  The boundary is q: in it p/r, the       *)
(* component, with a module s inside it, its neighbour p/m with n and a    *)
(* inside it, and m beside p, which flattens to the same vendor path as    *)
(* p/m; the component already holds a vendor/m, and a module under an      *)
(* ignored name.  Outside the boundary there is another m.                 *)
MCDirs == {<<q>>, <<q, p>>, <<q, p, r>>, <<q, p, r, s>>, <<q, p, r, v, m>>, <<q, p, r, dot>>,
             <<q, p, m>>, <<q, p, m, n>>, <<q, p, m, a>>, <<q, m>>, <<m>>,
             <<x, a>>, <<x, n>>, <<x, a, n>>, <<y, a>>, <<y, a, n>>}
              \cup Scratch

(* What surrounds the component's root: local calls of every shape without *)
(* links, or links that stay, leave, or lead back up, on the host and in   *)
(* the tree x.  `roots` is what the root may call then.                    *)
LocalRoots == UpTo2({LocalCall(0, <<s>>), LocalCall(1, <<m>>), LocalCall(1, <<m, n>>),
                     LocalCall(2, <<m>>), LocalCall(1, <<>>)})
LinkRoots == UpTo2({LocalCall(0, <<s>>), LocalCall(1, <<m>>), LocalCall(1, <<m, n>>),
                    LocalCall(1, <<m, a>>), LocalCall(3, <<m>>), LocalCall(0, <<dot>>)})
TreeLinkRoots == UpTo2({LocalCall(1, <<m>>), LocalCall(1, <<m, n>>),
                        RemoteCall(t1, 0, <<a>>), RemoteCall(t1, 0, <<n>>)})
LocalScene(w1, w2, w3, w4) ==
    [conf |-> [d \in MCDirs |->
         CASE d = <<q, p, r, s>> -> w1 [] d = <<q, p, m>> -> w2
           [] d = <<q, p, m, n>> -> w3 [] d = <<q, m>> -> w4 [] OTHER -> Hcl(<<>>)],
     links |-> NoLinks, roots |-> LocalRoots]
LocalScenes ==
    {LocalScene(w1, w2, w3, w4) :
        w1 \in AllHcl(UpTo1({LocalCall(1, <<>>), LocalCall(2, <<m, n>>), LocalCall(0, <<n>>)})),
        w2 \in AllHcl(UpTo1({LocalCall(0, <<n>>), LocalCall(1, <<r, s>>), LocalCall(2, <<m>>)})),
        w3 \in AllHcl(UpTo1({LocalCall(1, <<>>), LocalCall(2, <<r>>), LocalCall(2, <<>>)})),
        w4 \in AllHcl(UpTo1({LocalCall(1, <<p, m>>), LocalCall(1, <<p, r, s>>)}))}
    \cup
    {LocalScene(w1, w2, Hcl(<<>>), Hcl(<<LocalCall(1, <<p, m>>)>>)) :
        w1 \in AllHcl({<<OtherCall("nonliteral")>>, <<OtherCall("unsupported")>>}) \cup {Broken},
        w2 \in {Json(<<LocalCall(0, <<n>>)>>), Json(<<LocalCall(1, <<r, s>>)>>)}}
LinkConf(w1, w2) ==
    [d \in MCDirs |->
        CASE d = <<q, p, m>> -> w1 [] d = <<x, a>> -> w2
          [] d = <<q, p, r, dot>> -> Hcl(<<LocalCall(2, <<m>>)>>) [] OTHER -> Hcl(<<>>)]
LinkScenes ==
    {[conf |-> LinkConf(w1, Hcl(<<>>)), links |-> (<<q, p, r, s>> :> l1) @@ (<<q, p, m, n>> :> l2),
      roots |-> LinkRoots] :
        w1 \in AllHcl(UpTo1({LocalCall(0, <<n>>), LocalCall(0, <<a>>)})),
        l1 \in {<<q, p, r, s>>, <<q, p, r>>, <<q, p, m>>},
        l2 \in {<<q, p, m, n>>, <<q, p, m, a>>, <<q, p, m>>, <<m>>, <<q, p, r>>}}
    \cup
    {[conf |-> LinkConf(Hcl(<<>>), w2), links |-> (<<q, p, m, n>> :> l2) @@ (<<x, n>> :> l3),
      roots |-> TreeLinkRoots] :
        w2 \in AllHcl(UpTo1({LocalCall(1, <<n>>)})),
        l2 \in {<<q, p, m, n>>, <<q, p, m, a>>, <<m>>},
        l3 \in {<<x, n>>, <<x, a>>, <<x>>, <<m>>}}

-----------------------------------------------------------------------------
(* Fetched trees: x with a and a/n inside it, the same commit again at y,  *)
(* z on its own, and w whose prefix cleans to a path outside the stage.    *)
TreeRoots ==
    UpTo2({RemoteCall(t1, 0, <<>>), RemoteCall(t1, 0, <<a>>), RemoteCall(t2, 0, <<a>>),
           RemoteCall(t3, 0, <<>>)})
      \cup UpTo1({RemoteCall(t1, 0, <<n>>), RemoteCall(t1, 1, <<>>), RemoteCall(t4, 0, <<>>)})
TreeScenes ==
    {[conf |-> [d \in MCDirs |->
          CASE d \in {<<x>>, <<y>>} -> w1 [] d \in {<<x, a>>, <<y, a>>} -> w2
            [] d \in {<<x, a, n>>, <<y, a, n>>} -> w3 [] d = <<z>> -> w4 [] OTHER -> Hcl(<<>>)],
      links |-> NoLinks, roots |-> TreeRoots] :
        w1 \in AllHcl(UpTo1({LocalCall(0, <<a>>), RemoteCall(t3, 0, <<>>)})),
        w2 \in AllHcl(UpTo1({LocalCall(1, <<>>), LocalCall(0, <<n>>), RemoteCall(t3, 0, <<>>),
                             LocalCall(2, <<z>>)})
                        \cup {<<LocalCall(1, <<>>), RemoteCall(t3, 0, <<>>)>>,
                              <<RemoteCall(t3, 0, <<>>), LocalCall(1, <<>>)>>,
                              <<LocalCall(0, <<n>>), LocalCall(1, <<>>)>>}),
        w3 \in AllHcl(UpTo1({LocalCall(1, <<>>), LocalCall(2, <<>>), RemoteCall(t2, 0, <<a>>)})),
        w4 \in AllHcl(UpTo1({RemoteCall(t1, 0, <<>>), LocalCall(1, <<x, a>>)}))}

(* The worlds: each scene with each list of calls its root may make.       *)
MCWorlds ==
    {Disk([i[2].conf EXCEPT ![MCRoot] = Hcl(i[1])], i[2].links) :
        i \in {j \in (LocalRoots \cup LinkRoots \cup TreeLinkRoots \cup TreeRoots)
                     \X (LocalScenes \cup LinkScenes \cup TreeScenes) : j[1] \in j[2].roots}}
=============================================================================

------------------------------- MODULE Paths -------------------------------
(***************************************************************************)
(* Slash-separated paths as the packer computes with them.  A path is the  *)
(* sequence of its names, "." is the empty sequence, and every path here   *)
(* is clean, as path.Clean and filepath.Clean leave it: no "." and no      *)
(* ".." inside.  A module source is not a path: it is how far it climbs    *)
(* and what it descends to from there.                                     *)
(***************************************************************************)
EXTENDS Integers, Sequences, FiniteSets

IsPathPrefix(s, t) ==
    /\ Len(s) <= Len(t)
    /\ SubSeq(t, 1, Len(s)) = s

(* p is root or lies under it, lexically.                                  *)
Inside(root, p) == IsPathPrefix(root, p)

StrictlyInside(root, p) == Inside(root, p) /\ p # root

(* filepath.Rel(root, p) of a p that lies inside root.                     *)
Rel(root, p) == SubSeq(p, Len(root) + 1, Len(p))

(* How many leading names two paths share.                                 *)
CommonLen(s, t) ==
    CHOOSE n \in 0 .. Len(s) :
        /\ n <= Len(t)
        /\ SubSeq(s, 1, n) = SubSeq(t, 1, n)
        /\ \A m \in (n + 1) .. Len(s) :
              m <= Len(t) => SubSeq(s, 1, m) # SubSeq(t, 1, m)

(* The clean relative source that leads from one bundle directory to       *)
(* another: climb to the last directory they share, then descend.          *)
RelativeSource(from, to) ==
    LET shared == CommonLen(from, to) IN
    [up |-> Len(from) - shared, down |-> SubSeq(to, shared + 1, Len(to))]

(* A relative source climbs out of the tree when its `..` outnumber the    *)
(* names of the directory it starts from.                                  *)
Climbs(dir, up) == up > Len(dir)

(* path.Join(dir, source) of a source that does not climb out.             *)
JoinSource(dir, up, down) == SubSeq(dir, 1, Len(dir) - up) \o down
=============================================================================

-------------------------- MODULE MCLibraryRefresh --------------------------
(*****************************************************************************)
(* Three paths, of which the second (a directory of its own) or all may      *)
(* become unreadable, and two contents of one size, so that only time and    *)
(* digest tell them apart.                                                   *)
(*****************************************************************************)
EXTENDS LibraryRefresh, TLC

CONSTANTS p1, p2, x, y

MCKind == [path \in Path |-> "nam"]

MCSizeOf == [content \in Content |-> 1]

MCUnreachable == {{}, {2}, Path}

MCWalkOrder == <<2, 1, 3>>

MCCommand == (p1 :> {"index"}) @@ (p2 :> {"index", "hash", "duplicates"})

Symmetry == Permutations(Content)
=============================================================================

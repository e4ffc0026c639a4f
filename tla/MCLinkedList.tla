---------------------------- MODULE MCLinkedList ----------------------------
(* LinkedList for TLC: three node addresses; p1 and p2 point to equal      *)
(* values (so Find and FindRef differ), p3 and p4 to another; the source  *)
(* list holds p3 and p1.                                                   *)
EXTENDS LinkedList, TLC

CONSTANTS p1, p2, p3, p4

MCPtrs == {p1, p2, p3, p4}
MCContent == (p1 :> "x" @@ p2 :> "x" @@ p3 :> "y" @@ p4 :> "y")
MCValues == {"x", "y"}
MCSource == <<p3, p1>>
MCSymmetry == Permutations(Nodes)
=============================================================================

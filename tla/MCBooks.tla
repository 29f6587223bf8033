------------------------------- MODULE MCBooks -------------------------------
(* An instance of Books for TLC: an event, the revision that replaces it and  *)
(* one that replaces (or withdraws) that one, and a journal of staff.         *)
EXTENDS Books, TLC

CONSTANTS e0, e1, e2, j1

MCEvents == {e0, e1, e2}
MCReplaces == (e1 :> e0) @@ (e2 :> e1)
MCPair == {e0, e1}
MCPairReplaces == e1 :> e0
=============================================================================

---------------------------- MODULE MCBlockManager ----------------------------
(***************************************************************************)
(* A block tree for BlockManager: the chain a - b - c on the start block g *)
(* and f, a sibling of b.                                                  *)
(***************************************************************************)
EXTENDS BlockManager

MCHash == {"g", "a", "b", "c", "f"}
MCBlock == {"a", "b", "c", "f"}
MCPrev == [a |-> "g", b |-> "a", c |-> "b", f |-> "a"]
MCDepth == [g |-> 0, a |-> 1, b |-> 2, c |-> 3, f |-> 2]
=============================================================================

------------------------------- MODULE MCLogic -------------------------------
(***************************************************************************)
(* A chain o - g - a - b - c - d whose start block is g, and the branch    *)
(* f - e - h that replaces b; o is older than every block the node keeps.  *)
(***************************************************************************)
EXTENDS Logic

MCHash == {"z", "o", "g", "a", "b", "c", "d", "f", "e", "h"}
MCBlock == MCHash \ {"z"}
MCPrev == [o |-> "z", g |-> "o", a |-> "g", b |-> "a", c |-> "b", d |-> "c",
           f |-> "a", e |-> "f", h |-> "e"]
MCDepth == [z |-> -2, o |-> -1, g |-> 0, a |-> 1, b |-> 2, c |-> 3, d |-> 4,
            f |-> 2, e |-> 3, h |-> 4]
MCTimestamp == [x \in MCBlock |-> MCDepth[x] + 2]
MCRecent == {"c", "d", "h"}

(* The peer mines c and d, or leaves b (and c) for the longer branch. *)
MainAndBranch == [b |-> <<"o", "g", "a", "b">>,
                  c |-> <<"o", "g", "a", "b", "c">>,
                  d |-> <<"o", "g", "a", "b", "c", "d">>,
                  h |-> <<"o", "g", "a", "f", "e", "h">>]
(* The peer leaves b for another branch and returns to it. *)
TwoReorgs == [b |-> <<"o", "g", "a", "b">>,
              e |-> <<"o", "g", "a", "f", "e">>,
              d |-> <<"o", "g", "a", "b", "c", "d">>]
=============================================================================

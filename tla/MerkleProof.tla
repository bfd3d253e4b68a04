------------------------------ MODULE MerkleProof ------------------------------
(***************************************************************************)
(* GET /tx/proof: the Merkle branch of a transaction, built by the Python  *)
(* service (python/src/merkle.py, get_tx_merkle_proof of tx_analyser.py)   *)
(* from the rows that the Rust writer inserts.                             *)
(*                                                                         *)
(* The writer inserts the header row of a block and then the rows of its   *)
(* transactions, one statement each (rust/src/uaas/database.rs).  The      *)
(* proof takes two queries, one for the block of the transaction and one   *)
(* for the list of the block's transactions, so that rows may appear       *)
(* before, between and after them.                                         *)
(*                                                                         *)
(* The hash of transaction i is <<i>>, hash256(left + right) is the pair   *)
(* <<left, right>>, and an unset node is <<>>.                             *)
(***************************************************************************)
EXTENDS Integers, Sequences, FiniteSetsExt

CONSTANTS MaxTxs   \* bound on the transactions of the block

ASSUME MerkleAssumption == MaxTxs \in Nat \ {0}

VARIABLES
    total,     \* the transactions of the block
    header,    \* its row is in the table blocks
    rows,      \* how many of its rows are in the table tx
    pc,        \* the request: idle, block, txs, calc, walk, done, missing
    hash,      \* the transaction asked for
    count,     \* length of the list that the second query returned
    nodes,     \* MerkleTree.nodes: depth -> index -> hash
    current_depth, current_index,
    start_node,
    branches   \* the answer: hashes with their side

writer == <<total, header, rows>>
tree == <<nodes, current_depth, current_index>>
vars == <<writer, pc, hash, count, tree, start_node, branches>>

Unset == <<>>
Leaf(i) == <<i>>
hash256(left, right) == <<left, right>>

Init ==
    /\ total \in 1..MaxTxs
    /\ header = FALSE
    /\ rows = 0
    /\ pc = "idle"
    /\ hash = Unset
    /\ count = 0
    /\ nodes = <<>>
    /\ current_depth = 0 /\ current_index = 0
    /\ start_node = Unset
    /\ branches = <<>>

-----------------------------------------------------------------------------
(* The writer. *)
WriteHeader ==
    /\ ~header
    /\ header' = TRUE
    /\ UNCHANGED <<total, rows, pc, hash, count, tree, start_node, branches>>
WriteTxRow ==
    /\ header /\ rows < total
    /\ rows' = rows + 1
    /\ UNCHANGED <<total, header, pc, hash, count, tree, start_node, branches>>

-----------------------------------------------------------------------------
(* The queries. *)
Ask ==
    /\ pc = "idle"
    /\ \E i \in 1..total : hash' = Leaf(i)
    /\ pc' = "block"
    /\ UNCHANGED <<writer, count, tree, start_node, branches>>

QueryBlock ==
    /\ pc = "block"
    /\ pc' = IF header /\ hash \in {Leaf(i) : i \in 1..rows} THEN "txs" ELSE "missing"
    /\ UNCHANGED <<writer, hash, count, tree, start_node, branches>>

(* The powers of two, math.ceil(math.log(total, 2)), and the lengths of the *)
(* rows of nodes.                                                           *)
Pow2[d \in 0..MaxTxs] == IF d = 0 THEN 1 ELSE 2 * Pow2[d - 1]
MaxDepth(n) == Min({d \in 0..n : Pow2[d] >= n})
CeilDiv(a, b) == (a + b - 1) \div b
NumItems(n, depth) == CeilDiv(n, Pow2[MaxDepth(n) - depth])

(* create_tree: a tree without hashes but for the bottom row. *)
CreateTree(n) ==
    [depth \in 0..MaxDepth(n) |->
        [i \in 0..(NumItems(n, depth) - 1) |-> IF depth = MaxDepth(n) THEN Leaf(i + 1) ELSE Unset]]

(* The second query, and create_merkle_branch up to the tree: a single      *)
(* transaction has an empty branch.                                         *)
QueryTxs ==
    /\ pc = "txs"
    /\ count' = rows
    /\ IF rows = 1
       THEN pc' = "done" /\ UNCHANGED nodes
       ELSE pc' = "calc" /\ nodes' = CreateTree(rows)
    /\ UNCHANGED <<writer, hash, current_depth, current_index, start_node, branches>>

-----------------------------------------------------------------------------
(* The tree. *)
Root == nodes[0][0]
IsLeaf == current_depth = MaxDepth(count)
LeftNode == nodes[current_depth + 1][current_index * 2]
RightNode == nodes[current_depth + 1][current_index * 2 + 1]
RightExists == current_index * 2 + 1 \in DOMAIN nodes[current_depth + 1]

Up == current_depth' = current_depth - 1 /\ current_index' = current_index \div 2

(* Mutant of Left: the index of the right child.                            *)
LeftOdd == current_depth' = current_depth + 1 /\ current_index' = current_index * 2 + 1
Left == current_depth' = current_depth + 1 /\ current_index' = current_index * 2

(* Mutant of Right: the pointer stays where it is.                          *)
RightStays == UNCHANGED <<current_depth, current_index>>
Right == current_depth' = current_depth + 1 /\ current_index' = current_index * 2 + 1

(* The hash of the current node; a last node without a partner is paired    *)
(* with itself.                                                             *)
Combine == hash256(LeftNode, IF RightExists THEN RightNode ELSE LeftNode)

(* One turn of the loop in calc_root: down to the first unset node whose    *)
(* children are set, set it, and up.                                        *)
CalcRoot ==
    /\ pc = "calc" /\ Root = Unset
    /\ IF IsLeaf THEN Up /\ UNCHANGED nodes
       ELSE IF LeftNode = Unset THEN Left /\ UNCHANGED nodes
       ELSE IF RightExists /\ RightNode = Unset THEN Right /\ UNCHANGED nodes
       ELSE Up /\ nodes' = [nodes EXCEPT ![current_depth][current_index] = Combine]
    /\ UNCHANGED <<writer, pc, hash, count, start_node, branches>>

(* The root is known: walk_tree_from_pos starts at the transaction. *)
StartWalk ==
    /\ pc = "calc" /\ Root # Unset
    /\ pc' = "walk"
    /\ current_depth' = MaxDepth(count)
    /\ current_index' = hash[1] - 1
    /\ start_node' = hash
    /\ UNCHANGED <<writer, hash, count, nodes, branches>>

(* The branch of the parent (d, i): the child that is not start_node. *)
Sibling(d, i) ==
    LET left == nodes[d + 1][i * 2]
        paired == i * 2 + 1 \in DOMAIN nodes[d + 1]
    IN IF paired /\ left = start_node
       THEN [hash |-> nodes[d + 1][i * 2 + 1], pos |-> "R"]
       ELSE [hash |-> left, pos |-> "L"]

(* Mutant of Walk: start_node stays the transaction.                        *)
WalkKeepsStart ==
    /\ pc = "walk"
    /\ Up
    /\ branches' = Append(branches, Sibling(current_depth', current_index'))
    /\ pc' = IF current_depth' = 0 THEN "done" ELSE "walk"
    /\ UNCHANGED <<writer, hash, count, nodes, start_node>>

(* One turn of the loop in walk_tree_from_pos. *)
Walk ==
    /\ pc = "walk"
    /\ Up
    /\ branches' = Append(branches, Sibling(current_depth', current_index'))
    /\ start_node' = nodes[current_depth'][current_index']
    /\ pc' = IF current_depth' = 0 /\ current_index' = 0 THEN "done" ELSE "walk"
    /\ UNCHANGED <<writer, hash, count, nodes>>

Request == QueryBlock \/ QueryTxs \/ CalcRoot \/ StartWalk \/ Walk

Next == WriteHeader \/ WriteTxRow \/ Ask \/ Request

(* The thread that serves the request runs; nothing is assumed of the       *)
(* writer, which may stop behind any row.                                   *)
Spec == Init /\ [][Next]_vars /\ WF_vars(Request)

-----------------------------------------------------------------------------
(* Python takes a negative index from the end of a list, so a pointer that  *)
(* leaves the tree would go unnoticed: it may do so only over a root that   *)
(* is set.                                                                  *)
TypeOK ==
    /\ total \in 1..MaxTxs /\ rows \in 0..total /\ count \in 0..total
    /\ header \in BOOLEAN
    /\ pc \in {"idle", "block", "txs", "calc", "walk", "done", "missing"}
    /\ pc \in {"calc", "walk"} =>
          \/ current_depth \in DOMAIN nodes /\ current_index \in DOMAIN nodes[current_depth]
          \/ current_depth = -1 /\ Root # Unset

(* The reference: the levels of a Merkle tree from the bottom up.  A level  *)
(* pairs the hashes of the one below, the last one with itself when it has  *)
(* no partner.                                                              *)
Pairs(level) ==
    [i \in 1..CeilDiv(Len(level), 2) |->
        hash256(level[2 * i - 1], level[Min({2 * i, Len(level)})])]
MerkleLevels(n) ==
    LET level[d \in 0..n] == IF d = 0 THEN [i \in 1..n |-> Leaf(i)] ELSE Pairs(level[d - 1])
    IN level
MerkleRoot(n) ==
    LET k == Min({d \in 0..n : Len(MerkleLevels(n)[d]) = 1}) IN MerkleLevels(n)[k][1]

(* What a client computes from a transaction and its branch. *)
Fold(h, steps) ==
    LET up[i \in 0..Len(steps)] ==
          IF i = 0 THEN h
          ELSE IF steps[i].pos = "L" THEN hash256(steps[i].hash, up[i - 1])
          ELSE hash256(up[i - 1], steps[i].hash)
    IN up[Len(steps)]

(* docs/SystemsRequirements.md, API-09.  The branch leads from the          *)
(* transaction to the Merkle root of the list that was read, for every      *)
(* number of transactions and every position: to merkle_root of the header  *)
(* when the writer was done with the block at the second query, and to      *)
(* another root before that.                                                *)
ProofLeadsToRoot == pc = "done" => Fold(hash, branches) = MerkleRoot(count)

(* Every request is answered: the loops of calc_root and of                 *)
(* walk_tree_from_pos come to an end.                                       *)
ProofAnswered == pc = "block" ~> pc \in {"done", "missing"}
=============================================================================

---------------------------- MODULE MerkleProofs ----------------------------
(***************************************************************************)
(* Proofs about the Merkle proof, for blocks of any number of              *)
(* transactions.                                                           *)
(***************************************************************************)
EXTENDS MerkleProof, SequenceLemmas, TLAPS

-----------------------------------------------------------------------------
(* The inductive invariant.  The tree has its shape, its bottom row is the  *)
(* list of the transactions, every node that is set is the one of the       *)
(* reference, and its children are set.  calc_root points at an inner node, *)
(* or over a root that is set; walk_tree_from_pos points at start_node, to  *)
(* which the branch so far leads.                                           *)
D == MaxDepth(count)
Items(d) == NumItems(count, d)
Reference(d, i) == MerkleLevels(count)[D - d][i + 1]
Shape ==
    /\ DOMAIN nodes = 0..D
    /\ \A d \in 0..D : DOMAIN nodes[d] = 0..(Items(d) - 1)
Hashes ==
    \A d \in 0..D : \A i \in 0..(Items(d) - 1) :
        nodes[d][i] = Reference(d, i) \/ (nodes[d][i] = Unset /\ d # D)
Children ==
    \A d \in 0..(D - 1) : \A i \in 0..(Items(d) - 1) :
        nodes[d][i] # Unset =>
            /\ nodes[d + 1][i * 2] # Unset
            /\ i * 2 + 1 \in 0..(Items(d + 1) - 1) => nodes[d + 1][i * 2 + 1] # Unset

BranchStep == [hash : UNION {Range(nodes[d]) : d \in DOMAIN nodes}, pos : {"L", "R"}]

Types ==
    /\ total \in 1..MaxTxs /\ rows \in 0..total /\ count \in 0..total
    /\ header \in BOOLEAN
    /\ pc \in {"idle", "block", "txs", "calc", "walk", "done", "missing"}
Asked ==
    /\ pc \in {"block", "txs", "calc", "walk", "done"} => \E i \in 1..total : hash = Leaf(i)
    /\ pc = "txs" => \E i \in 1..rows : hash = Leaf(i)
    /\ pc \in {"calc", "walk", "done"} => \E i \in 1..count : hash = Leaf(i)
BeforeTree ==
    pc \in {"idle", "block", "txs"} => current_depth = 0 /\ current_index = 0
BeforeWalk ==
    pc \in {"idle", "block", "txs", "calc"} => branches = <<>>
Calculating ==
    pc = "calc" =>
        /\ count > 1 /\ Shape /\ Hashes /\ Children
        /\ \/ current_depth \in 0..(D - 1) /\ current_index \in 0..(Items(current_depth) - 1)
           \/ current_depth = -1 /\ Root # Unset
Walking ==
    pc = "walk" =>
        /\ count > 1 /\ Shape
        /\ \A d \in 0..D : \A i \in 0..(Items(d) - 1) : nodes[d][i] = Reference(d, i)
        /\ current_depth \in 1..D /\ current_index \in 0..(Items(current_depth) - 1)
        /\ start_node = nodes[current_depth][current_index]
        /\ branches \in Seq(BranchStep) /\ Fold(hash, branches) = start_node
MInv ==
    /\ Types /\ Asked /\ BeforeTree /\ BeforeWalk /\ Calculating /\ Walking
    /\ ProofLeadsToRoot

-----------------------------------------------------------------------------
(* Pow2 as far as n.                                                        *)
IsPow2(f, n) == f = [d \in 0..n |-> IF d = 0 THEN 1 ELSE 2 * f[d - 1]]

(* Such a function exists: by induction on how far it goes.                 *)
LEMMA Pow2Exists == ASSUME NEW len \in Nat  PROVE \E f : IsPow2(f, len)
<1> DEFINE T == {n \in Nat : ~\E f : IsPow2(f, n)}
<1>1. \E f : IsPow2(f, 0)
  <2> DEFINE f == [d \in 0..0 |-> 1]
  <2>1. \A d \in 0..0 : d = 0
    OBVIOUS
  <2>2. IsPow2(f, 0)
    BY <2>1 DEF IsPow2
  <2> QED  BY <2>2
<1>2. ASSUME NEW n \in Nat, NEW f, IsPow2(f, n)  PROVE \E g : IsPow2(g, n + 1)
  <2> DEFINE g == [d \in 0..(n + 1) |-> IF d = 0 THEN 1 ELSE 2 * f[d - 1]]
  <2>1. ASSUME NEW d \in 0..n  PROVE f[d] = g[d]
    <3>1. f[d] = IF d = 0 THEN 1 ELSE 2 * f[d - 1]
      BY <1>2, Zenon DEF IsPow2
    <3>2. d \in 0..(n + 1)
      OBVIOUS
    <3> QED  BY <3>1, <3>2
  <2>2. ASSUME NEW d \in 0..(n + 1), d # 0  PROVE f[d - 1] = g[d - 1]
    <3>1. d - 1 \in 0..n
      BY <2>2
    <3> QED  BY <2>1, <3>1
  <2>3. g = [d \in 0..(n + 1) |-> IF d = 0 THEN 1 ELSE 2 * g[d - 1]]
    BY <2>2
  <2> QED  BY <2>3 DEF IsPow2
<1>3. T = {}
  <2> SUFFICES ASSUME T # {}  PROVE FALSE
    OBVIOUS
  <2>1. PICK n \in T : \A j \in T : n <= j
    BY LeastNat
  <2>2. n \in Nat /\ (~\E f : IsPow2(f, n)) /\ n # 0
    BY <1>1
  <2>3. n - 1 \in Nat /\ n - 1 \notin T /\ (n - 1) + 1 = n
    BY <2>1, <2>2
  <2>4. PICK f : IsPow2(f, n - 1)
    BY <2>3
  <2>5. \E g : IsPow2(g, n)
    BY <1>2, <2>3, <2>4
  <2> QED  BY <2>2, <2>5
<1> QED  BY <1>3

(* The powers of two, one by one.                                           *)
LEMMA Pow2Values ==
    /\ Pow2[0] = 1
    /\ \A d \in 1..MaxTxs : Pow2[d] = 2 * Pow2[d - 1]
<1>0. MaxTxs \in Nat
  BY MerkleAssumption
<1>1. \E f : IsPow2(f, MaxTxs)
  BY <1>0, Pow2Exists
<1>2. Pow2 = CHOOSE f : IsPow2(f, MaxTxs)
  BY DEF Pow2, IsPow2
<1>3. IsPow2(Pow2, MaxTxs)
  BY <1>1, <1>2
<1>4. \A d \in 0..MaxTxs : Pow2[d] = IF d = 0 THEN 1 ELSE 2 * Pow2[d - 1]
  BY <1>3, Zenon DEF IsPow2
<1>5. 0 \in 0..MaxTxs /\ \A d \in 1..MaxTxs : d \in 0..MaxTxs /\ d # 0
  BY <1>0
<1> QED  BY <1>4, <1>5, Zenon

(* They are positive, and above their exponents.                            *)
LEMMA Pow2Above == \A d \in 0..MaxTxs : Pow2[d] \in Nat /\ Pow2[d] > d
<1> DEFINE T == {d \in 0..MaxTxs : ~(Pow2[d] \in Nat /\ Pow2[d] > d)}
<1>0. MaxTxs \in Nat
  BY MerkleAssumption
<1> SUFFICES ASSUME T # {}  PROVE FALSE
  OBVIOUS
<1>1. PICK k \in T : \A j \in T : k <= j
  <2>1. T \in SUBSET Nat
    BY <1>0
  <2> QED  BY <2>1, LeastNat
<1>2. k \in 0..MaxTxs /\ ~(Pow2[k] \in Nat /\ Pow2[k] > k)
  OBVIOUS
<1>3. k # 0
  BY <1>2, Pow2Values
<1>4. k \in 1..MaxTxs /\ k - 1 \in 0..MaxTxs /\ k - 1 \notin T
  BY <1>0, <1>1, <1>2, <1>3
<1>5. Pow2[k - 1] \in Nat /\ Pow2[k - 1] > k - 1 /\ Pow2[k] = 2 * Pow2[k - 1]
  BY <1>4, Pow2Values
<1> QED  BY <1>2, <1>4, <1>5

-----------------------------------------------------------------------------
(* Rounding up twice is rounding up once.                                   *)
LEMMA CeilDivHalves ==
    ASSUME NEW n \in Nat \ {0}, NEW p \in Nat \ {0}
    PROVE  /\ CeilDiv(n, p) \in Nat \ {0}
           /\ CeilDiv(n, 2 * p) = CeilDiv(CeilDiv(n, p), 2)
           /\ CeilDiv(n, p) = 1 <=> p >= n
           /\ CeilDiv(n, 1) = n
BY DEF CeilDiv

(* The depth of the tree of n hashes, the least d with 2 ** d >= n.         *)
LEMMA DepthFacts ==
    ASSUME NEW n \in 1..MaxTxs
    PROVE  /\ MaxDepth(n) \in 0..n /\ MaxDepth(n) \in 0..MaxTxs /\ Pow2[MaxDepth(n)] >= n
           /\ \A d \in 0..(MaxDepth(n) - 1) : Pow2[d] < n
           /\ n > 1 => MaxDepth(n) > 0
<1> DEFINE T == {d \in 0..n : Pow2[d] >= n}
<1>0. MaxTxs \in Nat /\ n \in Nat /\ \A d \in 0..n : d \in 0..MaxTxs
  BY MerkleAssumption
<1>1. n \in T
  BY <1>0, Pow2Above
<1>2. T \in SUBSET Nat /\ T # {}
  BY <1>0, <1>1
<1>3. MaxDepth(n) \in T /\ \A k \in T : MaxDepth(n) <= k
  BY <1>2, MinIsLeast DEF MaxDepth
<1>4. MaxDepth(n) \in 0..n /\ Pow2[MaxDepth(n)] >= n
  BY <1>3
<1>5. \A d \in 0..(MaxDepth(n) - 1) : Pow2[d] < n
  <2> SUFFICES ASSUME NEW d \in 0..(MaxDepth(n) - 1)  PROVE Pow2[d] < n
    OBVIOUS
  <2>1. d \in 0..n /\ d < MaxDepth(n)
    BY <1>0, <1>4
  <2>2. d \notin T
    BY <1>3, <1>4, <2>1
  <2> QED  BY <1>0, <2>1, <2>2, Pow2Above
<1>6. n > 1 => MaxDepth(n) # 0
  BY <1>4, Pow2Values
<1> QED  BY <1>0, <1>4, <1>5, <1>6

(* The rows of the tree: one node in the top row, the n hashes in the       *)
(* bottom row, and half of the row below, rounded up, in every other.       *)
LEMMA ItemsFacts ==
    ASSUME NEW n \in 1..MaxTxs
    PROVE  /\ NumItems(n, MaxDepth(n)) = n
           /\ NumItems(n, 0) = 1
           /\ \A d \in 0..MaxDepth(n) : NumItems(n, d) \in Nat \ {0}
           /\ \A d \in 0..(MaxDepth(n) - 1) : NumItems(n, d) = CeilDiv(NumItems(n, d + 1), 2)
<1> DEFINE k == MaxDepth(n)
<1>0. k \in 0..MaxTxs /\ k \in Nat /\ Pow2[k] >= n /\ n \in Nat \ {0} /\ MaxTxs \in Nat
  BY DepthFacts, MerkleAssumption
<1>1. \A d \in 0..MaxTxs : Pow2[d] \in Nat \ {0}
  BY Pow2Above
<1> HIDE DEF k
<1>2. CeilDiv(n, Pow2[k - k]) = n
  <2>1. k - k = 0
    BY <1>0
  <2> QED  BY <1>0, <2>1, Pow2Values, CeilDivHalves
<1>3. CeilDiv(n, Pow2[k - 0]) = 1
  <2>1. k - 0 = k
    BY <1>0
  <2> QED  BY <1>0, <1>1, <2>1, CeilDivHalves
<1>4. \A d \in 0..k : CeilDiv(n, Pow2[k - d]) \in Nat \ {0}
  <2>1. \A d \in 0..k : k - d \in 0..MaxTxs
    BY <1>0
  <2> QED  BY <1>0, <1>1, <2>1, CeilDivHalves
<1>5. ASSUME NEW d \in 0..(k - 1)
      PROVE  CeilDiv(n, Pow2[k - d]) = CeilDiv(CeilDiv(n, Pow2[k - (d + 1)]), 2)
  <2>1. k - d \in 1..MaxTxs /\ k - (d + 1) = (k - d) - 1 /\ k - (d + 1) \in 0..MaxTxs
    BY <1>0
  <2>2. Pow2[k - d] = 2 * Pow2[k - (d + 1)] /\ Pow2[k - (d + 1)] \in Nat \ {0}
    BY <1>1, <2>1, Pow2Values
  <2> QED  BY <1>0, <2>2, CeilDivHalves
<1> QED  BY <1>2, <1>3, <1>4, <1>5 DEF NumItems, k

-----------------------------------------------------------------------------
(* The first k levels of the reference above the leaves.                    *)
IsLevels(f, n, k) ==
    f = [d \in 0..k |-> IF d = 0 THEN [i \in 1..n |-> Leaf(i)] ELSE Pairs(f[d - 1])]

(* The levels exist: by induction on how many they are.                     *)
LEMMA LevelsExist == ASSUME NEW n, NEW len \in Nat  PROVE \E f : IsLevels(f, n, len)
<1> DEFINE T == {k \in Nat : ~\E f : IsLevels(f, n, k)}
           leaves == [i \in 1..n |-> Leaf(i)]
<1>1. \E f : IsLevels(f, n, 0)
  <2> DEFINE f == [d \in 0..0 |-> leaves]
  <2>1. \A d \in 0..0 : d = 0
    OBVIOUS
  <2>2. IsLevels(f, n, 0)
    BY <2>1 DEF IsLevels
  <2> QED  BY <2>2
<1>2. ASSUME NEW k \in Nat, NEW f, IsLevels(f, n, k)  PROVE \E g : IsLevels(g, n, k + 1)
  <2> DEFINE g == [d \in 0..(k + 1) |-> IF d = 0 THEN leaves ELSE Pairs(f[d - 1])]
  <2>1. ASSUME NEW d \in 0..k  PROVE f[d] = g[d]
    <3>1. f[d] = IF d = 0 THEN leaves ELSE Pairs(f[d - 1])
      BY <1>2, Zenon DEF IsLevels
    <3>2. d \in 0..(k + 1)
      OBVIOUS
    <3>3. g[d] = IF d = 0 THEN leaves ELSE Pairs(f[d - 1])
      BY <3>2, Zenon
    <3> QED  BY <3>1, <3>3
  <2>2. ASSUME NEW d \in 0..(k + 1), d # 0  PROVE f[d - 1] = g[d - 1]
    <3>1. d - 1 \in 0..k
      BY <2>2
    <3> QED  BY <2>1, <3>1
  <2>3. g = [d \in 0..(k + 1) |-> IF d = 0 THEN leaves ELSE Pairs(g[d - 1])]
    BY <2>2
  <2> QED  BY <2>3 DEF IsLevels
<1>3. T = {}
  <2> SUFFICES ASSUME T # {}  PROVE FALSE
    OBVIOUS
  <2>1. PICK k \in T : \A j \in T : k <= j
    BY LeastNat
  <2>2. k \in Nat /\ (~\E f : IsLevels(f, n, k)) /\ k # 0
    BY <1>1
  <2>3. k - 1 \in Nat /\ k - 1 \notin T /\ (k - 1) + 1 = k
    BY <2>1, <2>2
  <2>4. PICK f : IsLevels(f, n, k - 1)
    BY <2>3
  <2>5. \E g : IsLevels(g, n, k)
    BY <1>2, <2>3, <2>4
  <2> QED  BY <2>2, <2>5
<1> QED  BY <1>3

(* The levels, one by one.                                                  *)
LEMMA LevelsValues ==
    ASSUME NEW n \in Nat
    PROVE  /\ MerkleLevels(n)[0] = [i \in 1..n |-> Leaf(i)]
           /\ \A d \in 1..n : MerkleLevels(n)[d] = Pairs(MerkleLevels(n)[d - 1])
<1>1. \E f : IsLevels(f, n, n)
  BY LevelsExist
<1>2. MerkleLevels(n) = CHOOSE f : IsLevels(f, n, n)
  BY DEF MerkleLevels, IsLevels
<1>3. IsLevels(MerkleLevels(n), n, n)
  BY <1>1, <1>2
<1>4. \A d \in 0..n : MerkleLevels(n)[d] = IF d = 0 THEN [i \in 1..n |-> Leaf(i)]
                                            ELSE Pairs(MerkleLevels(n)[d - 1])
  BY <1>3, Zenon DEF IsLevels
<1>5. 0 \in 0..n /\ \A d \in 1..n : d \in 0..n /\ d # 0
  OBVIOUS
<1> QED  BY <1>4, <1>5, Zenon

(* The length of a function on 1..m.                                        *)
LEMMA LengthIs ==
    ASSUME NEW m \in Nat, NEW f, f = [i \in 1..m |-> f[i]]
    PROVE  Len(f) = m
<1>1. f \in [1..m -> {f[i] : i \in 1..m}]
  OBVIOUS
<1>2. f \in Seq({f[i] : i \in 1..m})
  BY <1>1
<1> QED  BY <1>1, <1>2

(* A level has half the hashes of the one below, rounded up.                *)
LEMMA PairsLength ==
    ASSUME NEW level, Len(level) \in Nat \ {0}
    PROVE  Len(Pairs(level)) = CeilDiv(Len(level), 2) /\ DOMAIN Pairs(level) = 1..CeilDiv(Len(level), 2)
<1> DEFINE m == CeilDiv(Len(level), 2)
<1>1. m \in Nat
  BY CeilDivHalves
<1>2. Pairs(level) = [i \in 1..m |-> hash256(level[2 * i - 1], level[Min({2 * i, Len(level)})])]
  BY DEF Pairs
<1> HIDE DEF m
<1>3. Pairs(level) = [i \in 1..m |-> Pairs(level)[i]] /\ DOMAIN Pairs(level) = 1..m
  BY <1>2
<1>4. Len(Pairs(level)) = m
  BY <1>1, <1>3, LengthIs
<1> QED  BY <1>3, <1>4 DEF m

(* The length of level d of n hashes: n / 2 ** d, rounded up.               *)
LEMMA LevelsLength ==
    ASSUME NEW n \in 1..MaxTxs
    PROVE  \A d \in 0..n : Len(MerkleLevels(n)[d]) = CeilDiv(n, Pow2[d]) /\ CeilDiv(n, Pow2[d]) \in Nat \ {0}
<1> DEFINE L == MerkleLevels(n)
           T == {d \in 0..n : Len(L[d]) # CeilDiv(n, Pow2[d])}
<1>0. /\ n \in Nat \ {0} /\ MaxTxs \in Nat /\ \A d \in 0..n : d \in 0..MaxTxs
      /\ T \in SUBSET Nat
  BY MerkleAssumption
<1>1. /\ L[0] = [i \in 1..n |-> Leaf(i)]
      /\ \A d \in 1..n : L[d] = Pairs(L[d - 1])
  BY <1>0, LevelsValues
<1> HIDE DEF L
<1>2. \A d \in 0..n : Pow2[d] \in Nat \ {0} /\ CeilDiv(n, Pow2[d]) \in Nat \ {0}
  <2>1. \A d \in 0..n : Pow2[d] \in Nat \ {0}
    BY <1>0, Pow2Above
  <2> QED  BY <1>0, <2>1, CeilDivHalves, Zenon
<1>3. T = {}
  <2> SUFFICES ASSUME T # {}  PROVE FALSE
    OBVIOUS
  <2>1. PICK k \in T : \A j \in T : k <= j
    BY <1>0, LeastNat
  <2>2. k \in 0..n /\ Len(L[k]) # CeilDiv(n, Pow2[k])
    OBVIOUS
  <2>3. k # 0
    <3>1. L[0] = [i \in 1..n |-> L[0][i]]
      BY <1>1
    <3>2. Len(L[0]) = n
      BY <1>0, <3>1, LengthIs
    <3> QED  BY <1>0, <2>2, <3>2, Pow2Values, CeilDivHalves
  <2>4. k \in 1..n /\ k - 1 \in 0..n /\ k - 1 \notin T /\ k \in 1..MaxTxs
    BY <1>0, <2>1, <2>2, <2>3
  <2>5. Len(L[k - 1]) = CeilDiv(n, Pow2[k - 1])
    BY <2>4
  <2>6. Len(L[k]) = CeilDiv(CeilDiv(n, Pow2[k - 1]), 2)
    BY <1>1, <1>2, <2>4, <2>5, PairsLength
  <2>7. Pow2[k] = 2 * Pow2[k - 1]
    BY <2>4, Pow2Values
  <2>8. CeilDiv(n, 2 * Pow2[k - 1]) = CeilDiv(CeilDiv(n, Pow2[k - 1]), 2)
    BY <1>0, <1>2, <2>4, CeilDivHalves, ZenonT(60)
  <2> QED  BY <2>2, <2>6, <2>7, <2>8
<1> QED  BY <1>2, <1>3 DEF L

(* The root of the reference is at the depth of the tree.                   *)
LEMMA RootLevel ==
    ASSUME NEW n \in 1..MaxTxs
    PROVE  MerkleRoot(n) = MerkleLevels(n)[MaxDepth(n)][1]
<1>1. \A d \in 0..n : Len(MerkleLevels(n)[d]) = 1 <=> Pow2[d] >= n
  <2>1. n \in Nat \ {0} /\ \A d \in 0..n : Pow2[d] \in Nat \ {0}
    BY Pow2Above, MerkleAssumption
  <2>2. \A d \in 0..n : CeilDiv(n, Pow2[d]) = 1 <=> Pow2[d] >= n
    BY <2>1, CeilDivHalves, Zenon
  <2> QED  BY <2>2, LevelsLength
<1>2. {d \in 0..n : Len(MerkleLevels(n)[d]) = 1} = {d \in 0..n : Pow2[d] >= n}
  BY <1>1
<1> QED  BY <1>2 DEF MerkleRoot, MaxDepth

(* The smaller of two numbers.                                              *)
LEMMA SmallerOf ==
    ASSUME NEW a \in Nat, NEW b \in Nat
    PROVE  Min({a, b}) = IF a <= b THEN a ELSE b
<1>1. {a, b} \in SUBSET Nat /\ {a, b} # {}
  OBVIOUS
<1>2. Min({a, b}) \in {a, b} /\ \A k \in {a, b} : Min({a, b}) <= k
  BY <1>1, MinIsLeast
<1> QED  BY <1>2

(* Where the children of a node are: the left one is in the row below, the  *)
(* right one too unless the left one is the last.                           *)
LEMMA ChildPlaces ==
    ASSUME NEW m \in Nat \ {0}, NEW i \in 0..(CeilDiv(m, 2) - 1)
    PROVE  /\ i * 2 \in 0..(m - 1)
           /\ i * 2 + 1 \notin 0..(m - 1) => m = i * 2 + 1
BY DEF CeilDiv

(* Where the parent of a node is.                                           *)
LEMMA ParentPlace ==
    ASSUME NEW m \in Nat \ {0}, NEW j \in 0..(m - 1)
    PROVE  /\ j \div 2 \in 0..(CeilDiv(m, 2) - 1)
           /\ j = (j \div 2) * 2 \/ j = (j \div 2) * 2 + 1
BY DEF CeilDiv

(* A node of the reference is the hash of its children, the last one paired *)
(* with itself when it has no partner.                                      *)
LEMMA ReferenceStep ==
    ASSUME count \in 1..MaxTxs, NEW d \in 0..(D - 1), NEW i \in 0..(Items(d) - 1)
    PROVE  Reference(d, i) =
             hash256(Reference(d + 1, i * 2),
                     IF i * 2 + 1 \in 0..(Items(d + 1) - 1) THEN Reference(d + 1, i * 2 + 1)
                     ELSE Reference(d + 1, i * 2))
<1> DEFINE L == MerkleLevels(count)
           k == D - d
           m == Items(d + 1)
<1>1. /\ D \in 0..count /\ D \in Nat /\ count \in Nat /\ d \in Nat
      /\ \A e \in 0..D : e \in 0..MaxTxs
  BY DepthFacts, MerkleAssumption DEF D
<1>2. k \in 1..count /\ k - 1 \in 0..count /\ D - (d + 1) = k - 1
  BY <1>1
<1>3. L[k] = Pairs(L[k - 1])
  BY <1>1, <1>2, LevelsValues
<1>4. Len(L[k - 1]) = m /\ m \in Nat \ {0}
  BY <1>2, LevelsLength DEF Items, NumItems, D
<1>5. Items(d) = CeilDiv(m, 2)
  BY ItemsFacts DEF Items, D
<1>6. i \in Nat /\ i + 1 \in 1..CeilDiv(m, 2)
  <2>1. d \in 0..D
    BY <1>1
  <2>2. Items(d) \in Nat \ {0}
    BY <2>1, ItemsFacts DEF Items, D
  <2> QED  BY <1>5, <2>2
<1> HIDE DEF k, m, L
<1>7. L[k][i + 1] = hash256(L[k - 1][2 * (i + 1) - 1], L[k - 1][Min({2 * (i + 1), m})])
  BY <1>3, <1>4, <1>6 DEF Pairs
<1>8. 2 * (i + 1) - 1 = i * 2 + 1 /\ 2 * (i + 1) = (i * 2 + 1) + 1
  BY <1>6
<1>9. Min({2 * (i + 1), m}) = IF i * 2 + 1 \in 0..(m - 1) THEN (i * 2 + 1) + 1 ELSE i * 2 + 1
  <2>1. Min({2 * (i + 1), m}) = IF 2 * (i + 1) <= m THEN 2 * (i + 1) ELSE m
    BY <1>4, <1>6, SmallerOf
  <2>2. i * 2 + 1 \notin 0..(m - 1) => m = i * 2 + 1
    BY <1>4, <1>5, ChildPlaces
  <2> QED  BY <1>4, <1>6, <2>1, <2>2
<1>10. /\ Reference(d, i) = L[k][i + 1]
       /\ \A j : Reference(d + 1, j) = L[k - 1][j + 1]
  BY <1>2 DEF Reference, L, k
<1> QED  BY <1>7, <1>8, <1>9, <1>10 DEF m

-----------------------------------------------------------------------------
(* What a client computes step by step.                                     *)
StepUp(h, s) == IF s.pos = "L" THEN hash256(s.hash, h) ELSE hash256(h, s.hash)
IsFold(f, h, steps, n) == f = [i \in 0..n |-> IF i = 0 THEN h ELSE StepUp(f[i - 1], steps[i])]

(* It is defined for every branch: by induction on the steps.               *)
LEMMA FoldExists == ASSUME NEW h, NEW steps, NEW len \in Nat  PROVE \E f : IsFold(f, h, steps, len)
<1> DEFINE T == {n \in Nat : ~\E f : IsFold(f, h, steps, n)}
<1>1. \E f : IsFold(f, h, steps, 0)
  <2> DEFINE f == [i \in 0..0 |-> h]
  <2>1. \A i \in 0..0 : i = 0
    OBVIOUS
  <2>2. IsFold(f, h, steps, 0)
    BY <2>1 DEF IsFold
  <2> QED  BY <2>2
<1>2. ASSUME NEW n \in Nat, NEW f, IsFold(f, h, steps, n)  PROVE \E g : IsFold(g, h, steps, n + 1)
  <2> DEFINE g == [i \in 0..(n + 1) |-> IF i = 0 THEN h ELSE StepUp(f[i - 1], steps[i])]
  <2>1. ASSUME NEW i \in 0..n  PROVE f[i] = g[i]
    <3>1. f[i] = IF i = 0 THEN h ELSE StepUp(f[i - 1], steps[i])
      BY <1>2, Zenon DEF IsFold
    <3>2. i \in 0..(n + 1)
      OBVIOUS
    <3>3. g[i] = IF i = 0 THEN h ELSE StepUp(f[i - 1], steps[i])
      BY <3>2, Zenon
    <3> QED  BY <3>1, <3>3
  <2>2. ASSUME NEW i \in 0..(n + 1), i # 0  PROVE f[i - 1] = g[i - 1]
    <3>1. i - 1 \in 0..n
      BY <2>2
    <3> QED  BY <2>1, <3>1
  <2>3. g = [i \in 0..(n + 1) |-> IF i = 0 THEN h ELSE StepUp(g[i - 1], steps[i])]
    BY <2>2
  <2> QED  BY <2>3 DEF IsFold
<1>3. T = {}
  <2> SUFFICES ASSUME T # {}  PROVE FALSE
    OBVIOUS
  <2>1. PICK n \in T : \A j \in T : n <= j
    BY LeastNat
  <2>2. n \in Nat /\ (~\E f : IsFold(f, h, steps, n)) /\ n # 0
    BY <1>1
  <2>3. n - 1 \in Nat /\ n - 1 \notin T /\ (n - 1) + 1 = n
    BY <2>1, <2>2
  <2>4. PICK f : IsFold(f, h, steps, n - 1)
    BY <2>3
  <2>5. \E g : IsFold(g, h, steps, n)
    BY <1>2, <2>3, <2>4
  <2> QED  BY <2>2, <2>5
<1> QED  BY <1>3

(* Fold is the last value of such a function.                               *)
LEMMA FoldIs ==
    ASSUME NEW h, NEW steps, Len(steps) \in Nat
    PROVE  \E f : /\ Fold(h, steps) = f[Len(steps)] /\ f[0] = h
                 /\ \A i \in 1..Len(steps) : f[i] = StepUp(f[i - 1], steps[i])
<1>1. \E f : IsFold(f, h, steps, Len(steps))
  BY FoldExists
<1>2. Fold(h, steps) = (CHOOSE f : IsFold(f, h, steps, Len(steps)))[Len(steps)]
  BY DEF Fold, IsFold, StepUp
<1>3. PICK f : IsFold(f, h, steps, Len(steps)) /\ Fold(h, steps) = f[Len(steps)]
  BY <1>1, <1>2
<1>4. \A i \in 0..Len(steps) : f[i] = IF i = 0 THEN h ELSE StepUp(f[i - 1], steps[i])
  BY <1>3, Zenon DEF IsFold
<1>5. 0 \in 0..Len(steps) /\ \A i \in 1..Len(steps) : i \in 0..Len(steps) /\ i # 0
  OBVIOUS
<1>6. f[0] = h /\ \A i \in 1..Len(steps) : f[i] = StepUp(f[i - 1], steps[i])
  BY <1>4, <1>5, Zenon
<1> QED  BY <1>3, <1>6

(* The empty branch leads nowhere.                                          *)
LEMMA FoldEmpty == ASSUME NEW h  PROVE Fold(h, <<>>) = h
<1>1. Len(<<>>) = 0 /\ 0 \in Nat
  OBVIOUS
<1> QED  BY <1>1, FoldIs

(* A branch with one more entry leads a step further.                       *)
LEMMA FoldAppend ==
    ASSUME NEW S, NEW h, NEW steps \in Seq(S), NEW s \in S
    PROVE  Fold(h, Append(steps, s)) = StepUp(Fold(h, steps), s)
<1> DEFINE n == Len(steps)
           more == Append(steps, s)
<1>1. /\ n \in Nat /\ Len(more) = n + 1 /\ Len(more) \in Nat /\ more[n + 1] = s
      /\ \A i \in 1..n : more[i] = steps[i]
  OBVIOUS
<1> HIDE DEF n, more
<1>2. PICK f : /\ Fold(h, steps) = f[n] /\ f[0] = h
               /\ \A i \in 1..n : f[i] = StepUp(f[i - 1], steps[i])
  BY <1>1, FoldIs DEF n
<1>3. PICK g : /\ Fold(h, more) = g[n + 1] /\ g[0] = h
               /\ \A i \in 1..(n + 1) : g[i] = StepUp(g[i - 1], more[i])
  <2>0. Len(more) \in Nat
    BY <1>1
  <2>1. \E g : /\ Fold(h, more) = g[Len(more)] /\ g[0] = h
               /\ \A i \in 1..Len(more) : g[i] = StepUp(g[i - 1], more[i])
    BY <2>0, FoldIs
  <2> QED  BY <1>1, <2>1
<1> DEFINE T == {i \in 0..n : f[i] # g[i]}
<1>4. T = {}
  <2> SUFFICES ASSUME T # {}  PROVE FALSE
    OBVIOUS
  <2>1. T \in SUBSET Nat
    BY <1>1
  <2>2. PICK k \in T : \A j \in T : k <= j
    BY <2>1, LeastNat
  <2>3. k \in 0..n /\ f[k] # g[k]
    OBVIOUS
  <2>4. k # 0
    BY <1>2, <1>3, <2>3
  <2>5. k \in 1..n /\ k \in 1..(n + 1) /\ k - 1 \in 0..n /\ k - 1 \notin T
    BY <1>1, <2>2, <2>3, <2>4
  <2>6. f[k - 1] = g[k - 1]
    BY <2>5
  <2> QED  BY <1>1, <1>2, <1>3, <2>3, <2>5, <2>6
<1>5. f[n] = g[n]
  <2>1. n \in 0..n
    BY <1>1
  <2> QED  BY <1>4, <2>1
<1>6. n + 1 \in 1..(n + 1) /\ (n + 1) - 1 = n
  BY <1>1
<1> QED  BY <1>1, <1>2, <1>3, <1>5, <1>6 DEF more

-----------------------------------------------------------------------------
(* The tree before the first turn of calc_root.                             *)
LEMMA QueryTxsInv ==
    ASSUME MInv, QueryTxs
    PROVE  Calculating' /\ ProofLeadsToRoot'
<1>1. /\ rows \in 1..MaxTxs /\ rows \in Nat \ {0} /\ count' = rows /\ branches = <<>> /\ branches' = branches
      /\ current_depth' = 0 /\ current_index' = 0 /\ hash' = hash
  BY MerkleAssumption DEF MInv, Types, Asked, BeforeTree, BeforeWalk, QueryTxs
<1>2. PICK i \in 1..rows : hash = Leaf(i)
  BY DEF MInv, Asked, QueryTxs
<1>3. CASE rows = 1
  <2>1. pc' = "done" /\ hash = Leaf(1)
    BY <1>1, <1>2, <1>3 DEF QueryTxs
  <2>2. Fold(hash', branches') = Leaf(1)
    BY <1>1, <2>1, FoldEmpty
  <2>3. MaxDepth(1) = 0
    <3>1. 1 \in 1..MaxTxs /\ 0 \in 0..MaxTxs
      BY MerkleAssumption
    <3>2. MaxDepth(1) \in 0..1 /\ \A d \in 0..(MaxDepth(1) - 1) : Pow2[d] < 1
      BY <3>1, DepthFacts
    <3> QED  BY <3>2, Pow2Values
  <2>4. MerkleRoot(1) = MerkleLevels(1)[0][1]
    BY <1>1, <1>3, <2>3, RootLevel
  <2>5. MerkleLevels(1)[0] = [j \in 1..1 |-> Leaf(j)] /\ 1 \in 1..1
    <3>1. 1 \in Nat /\ 1 \in 1..1
      OBVIOUS
    <3> QED  BY <3>1, LevelsValues
  <2>6. MerkleRoot(1) = Leaf(1)
    BY <2>4, <2>5
  <2> QED  BY <1>1, <1>3, <2>1, <2>2, <2>6 DEF Calculating, ProofLeadsToRoot
<1>4. CASE rows # 1
  <2> DEFINE k == MaxDepth(rows)
             M(d) == NumItems(rows, d)
  <2>1. pc' = "calc" /\ nodes' = CreateTree(rows) /\ rows > 1
    BY <1>1, <1>4 DEF QueryTxs
  <2>2. /\ k \in 1..rows /\ k \in Nat /\ M(k) = rows /\ M(0) = 1
        /\ \A d \in 0..k : M(d) \in Nat \ {0}
    BY <1>1, <2>1, DepthFacts, ItemsFacts
  <2>3. /\ DOMAIN nodes' = 0..k
        /\ \A d \in 0..k : /\ DOMAIN nodes'[d] = 0..(M(d) - 1)
                            /\ \A j \in 0..(M(d) - 1) : nodes'[d][j] = IF d = k THEN Leaf(j + 1) ELSE Unset
    BY <2>1 DEF CreateTree
  <2>4. D' = k /\ \A d : Items(d)' = M(d)
    BY <1>1 DEF D, Items
  <2>5. \A j \in 0..(M(k) - 1) : MerkleLevels(rows)[k - k][j + 1] = Leaf(j + 1)
    <3>1. MerkleLevels(rows)[0] = [j \in 1..rows |-> Leaf(j)]
      BY <1>1, LevelsValues
    <3>2. k - k = 0 /\ \A j \in 0..(M(k) - 1) : j + 1 \in 1..rows
      BY <1>1, <2>2
    <3> QED  BY <3>1, <3>2
  <2> HIDE DEF k, M
  <2>6. Shape'
    BY <2>3, <2>4 DEF Shape
  <2>7. Hashes'
    <3>1. ASSUME NEW d \in 0..k, NEW j \in 0..(M(d) - 1)
          PROVE  nodes'[d][j] = MerkleLevels(rows)[k - d][j + 1] \/ (nodes'[d][j] = Unset /\ d # k)
      BY <2>3, <2>5, <3>1
    <3> QED  BY <1>1, <2>4, <3>1 DEF Hashes, Reference
  <2>8. Children'
    <3>1. \A d \in 0..(k - 1) : d \in 0..k /\ d # k
      BY <2>2
    <3>2. \A d \in 0..(k - 1) : \A j \in 0..(M(d) - 1) : nodes'[d][j] = Unset
      BY <2>3, <3>1
    <3> QED  BY <2>4, <3>2 DEF Children
  <2>9. 0 \in 0..(D' - 1) /\ 0 \in 0..(M(0) - 1)
    BY <2>2, <2>4
  <2> QED  BY <1>1, <2>1, <2>4, <2>6, <2>7, <2>8, <2>9 DEF Calculating, ProofLeadsToRoot
<1> QED  BY <1>3, <1>4

(* The facts that a turn of calc_root and of walk_tree_from_pos uses: the   *)
(* tree of more than one hash has a depth, and rows that halve.             *)
LEMMA TreeFacts ==
    ASSUME Types, count > 1
    PROVE  /\ count \in 1..MaxTxs /\ count \in Nat \ {0} /\ D \in Nat \ {0} /\ Items(0) = 1 /\ Items(D) = count
           /\ \A d \in 0..D : Items(d) \in Nat \ {0}
           /\ \A d \in 0..(D - 1) : d \in 0..D /\ d + 1 \in 0..D /\ Items(d) = CeilDiv(Items(d + 1), 2)
<1>1. count \in 1..MaxTxs /\ count \in Nat \ {0}
  BY MerkleAssumption DEF Types
<1>2. D \in Nat \ {0}
  BY <1>1, DepthFacts DEF D
<1>3. \A d \in 0..(D - 1) : d \in 0..D /\ d + 1 \in 0..D
  BY <1>2
<1> QED  BY <1>1, <1>2, <1>3, ItemsFacts DEF D, Items

(* The bottom row has no unset hash.                                        *)
LEMMA BottomIsSet ==
    ASSUME Types, count > 1, NEW j \in 0..(Items(D) - 1)
    PROVE  Reference(D, j) = Leaf(j + 1) /\ Reference(D, j) # Unset
<1>1. count \in Nat \ {0} /\ D \in Nat /\ Items(D) = count
  BY TreeFacts
<1>2. D - D = 0 /\ j + 1 \in 1..count
  BY <1>1
<1>3. MerkleLevels(count)[0] = [k \in 1..count |-> Leaf(k)]
  BY <1>1, LevelsValues
<1>4. Reference(D, j) = Leaf(j + 1)
  BY <1>2, <1>3 DEF Reference
<1> QED  BY <1>4 DEF Leaf, Unset

(* calc_root: the pointer goes down to unset inner nodes only, so never to  *)
(* the bottom row, and a node is set when its children are.                 *)
LEMMA CalcRootInv ==
    ASSUME MInv, CalcRoot
    PROVE  Calculating'
<1> DEFINE d == current_depth
           i == current_index
           m == Items(d + 1)
<1>1. /\ Types /\ count > 1 /\ Shape /\ Hashes /\ Children /\ Root = Unset /\ pc = "calc" /\ pc' = "calc"
      /\ count' = count /\ d \in 0..(D - 1) /\ i \in 0..(Items(d) - 1)
  BY DEF MInv, Calculating, CalcRoot
<1>2. /\ count \in 1..MaxTxs /\ D \in Nat \ {0} /\ Items(0) = 1
      /\ \A e \in 0..D : Items(e) \in Nat \ {0}
      /\ \A e \in 0..(D - 1) : e \in 0..D /\ e + 1 \in 0..D /\ Items(e) = CeilDiv(Items(e + 1), 2)
  BY <1>1, TreeFacts
<1>3. D' = D /\ \A e : Items(e)' = Items(e)
  BY <1>1 DEF D, Items
<1>4. /\ d \in 0..D /\ d + 1 \in 0..D /\ m \in Nat \ {0} /\ Items(d) = CeilDiv(m, 2)
      /\ DOMAIN nodes = 0..D /\ DOMAIN nodes[d] = 0..(Items(d) - 1) /\ DOMAIN nodes[d + 1] = 0..(m - 1)
  BY <1>1, <1>2 DEF Shape
<1>5. i * 2 \in 0..(m - 1)
  BY <1>1, <1>4, ChildPlaces
<1>6. ~IsLeaf
  BY <1>1, <1>2 DEF IsLeaf, D
<1>7. ASSUME NEW j \in 0..(m - 1), nodes[d + 1][j] = Unset, nodes' = nodes,
             current_depth' = d + 1, current_index' = j
      PROVE  Calculating'
  <2>1. d + 1 # D
    <3>1. ASSUME d + 1 = D  PROVE FALSE
      <4>1. nodes[d + 1][j] = Reference(D, j)
        BY <1>1, <1>4, <1>7, <3>1 DEF Hashes
      <4>2. Reference(D, j) # Unset
        BY <1>1, <1>4, <3>1, BottomIsSet
      <4> QED  BY <1>7, <4>1, <4>2
    <3> QED  BY <3>1
  <2>2. d + 1 \in 0..(D - 1)
    BY <1>1, <1>2, <2>1
  <2>3. Shape' /\ Hashes' /\ Children'
    BY <1>1, <1>3, <1>7 DEF Shape, Hashes, Children, Reference
  <2> QED  BY <1>1, <1>3, <1>7, <2>2, <2>3 DEF Calculating
<1>8. CASE LeftNode = Unset
  <2>1. current_depth' = d + 1 /\ current_index' = i * 2 /\ nodes' = nodes
    BY <1>6, <1>8 DEF CalcRoot, Left
  <2> QED  BY <1>5, <1>7, <1>8, <2>1 DEF LeftNode
<1>9. CASE LeftNode # Unset /\ RightExists /\ RightNode = Unset
  <2>1. current_depth' = d + 1 /\ current_index' = i * 2 + 1 /\ nodes' = nodes
    BY <1>6, <1>9 DEF CalcRoot, Right
  <2>2. i * 2 + 1 \in 0..(m - 1) /\ nodes[d + 1][i * 2 + 1] = Unset
    BY <1>4, <1>9 DEF RightExists, RightNode
  <2> QED  BY <1>7, <2>1, <2>2
<1>10. CASE LeftNode # Unset /\ ~(RightExists /\ RightNode = Unset)
  <2>1. /\ current_depth' = d - 1 /\ current_index' = i \div 2
        /\ nodes' = [nodes EXCEPT ![d][i] = Combine]
    BY <1>6, <1>10 DEF CalcRoot, Up
  <2>2. /\ nodes[d + 1][i * 2] # Unset
        /\ i * 2 + 1 \in 0..(m - 1) => nodes[d + 1][i * 2 + 1] # Unset
    BY <1>4, <1>10 DEF LeftNode, RightNode, RightExists
  <2>3. /\ nodes[d + 1][i * 2] = Reference(d + 1, i * 2)
        /\ i * 2 + 1 \in 0..(m - 1) => nodes[d + 1][i * 2 + 1] = Reference(d + 1, i * 2 + 1)
    BY <1>1, <1>4, <1>5, <2>2 DEF Hashes
  <2>4. Combine = Reference(d, i)
    <3>1. Combine = hash256(Reference(d + 1, i * 2),
                            IF i * 2 + 1 \in 0..(m - 1) THEN Reference(d + 1, i * 2 + 1)
                            ELSE Reference(d + 1, i * 2))
      BY <1>4, <2>3 DEF Combine, LeftNode, RightNode, RightExists
    <3>2. Reference(d, i) = hash256(Reference(d + 1, i * 2),
                            IF i * 2 + 1 \in 0..(m - 1) THEN Reference(d + 1, i * 2 + 1)
                            ELSE Reference(d + 1, i * 2))
      BY <1>1, <1>2, ReferenceStep
    <3> QED  BY <3>1, <3>2
  <2>5. Combine # Unset
    BY DEF Combine, hash256, Unset
  <2> HIDE DEF d, i, m
  <2>6. /\ DOMAIN nodes' = 0..D
        /\ \A e \in 0..D : DOMAIN nodes'[e] = DOMAIN nodes[e]
        /\ \A e \in 0..D : \A j \in DOMAIN nodes[e] :
              nodes'[e][j] = IF e = d /\ j = i THEN Reference(d, i) ELSE nodes[e][j]
    BY <1>4, <2>1, <2>4
  <2>7. Shape'
    BY <1>1, <1>3, <2>6 DEF Shape
  <2>8. \A e \in 0..D : \A j \in 0..(Items(e) - 1) :
           nodes'[e][j] = IF e = d /\ j = i THEN Reference(d, i) ELSE nodes[e][j]
    BY <1>1, <2>6 DEF Shape
  <2>9. Hashes'
    <3>1. \A e, j : Reference(e, j)' = Reference(e, j)
      BY <1>1, <1>3 DEF Reference
    <3>2. ASSUME NEW e \in 0..D, NEW j \in 0..(Items(e) - 1)
          PROVE  nodes'[e][j] = Reference(e, j) \/ (nodes'[e][j] = Unset /\ e # D)
      <4>1. nodes[e][j] = Reference(e, j) \/ (nodes[e][j] = Unset /\ e # D)
        BY <1>1, <3>2 DEF Hashes
      <4> QED  BY <2>8, <3>2, <4>1
    <3> QED  BY <1>3, <3>1, <3>2 DEF Hashes
  <2>10. \A e \in 0..D : \A j \in 0..(Items(e) - 1) : nodes[e][j] # Unset => nodes'[e][j] # Unset
    BY <2>4, <2>5, <2>8
  <2>11. Children'
    <3>1. ASSUME NEW e \in 0..(D - 1), NEW j \in 0..(Items(e) - 1), nodes'[e][j] # Unset
          PROVE  /\ nodes[e + 1][j * 2] # Unset
                 /\ j * 2 + 1 \in 0..(Items(e + 1) - 1) => nodes[e + 1][j * 2 + 1] # Unset
      <4>1. CASE e = d /\ j = i
        BY <2>2, <4>1 DEF m
      <4>2. CASE ~(e = d /\ j = i)
        <5>1. nodes[e][j] # Unset
          BY <1>2, <2>8, <3>1, <4>2
        <5> QED  BY <1>1, <3>1, <5>1 DEF Children
      <4> QED  BY <4>1, <4>2
    <3>2. ASSUME NEW e \in 0..(D - 1), NEW j \in 0..(Items(e) - 1)
          PROVE  j * 2 \in 0..(Items(e + 1) - 1) /\ e + 1 \in 0..D
      BY <1>2, <3>2, ChildPlaces
    <3>3. ASSUME NEW e \in 0..(D - 1), NEW j \in 0..(Items(e) - 1), nodes'[e][j] # Unset
          PROVE  /\ nodes'[e + 1][j * 2] # Unset
                 /\ j * 2 + 1 \in 0..(Items(e + 1) - 1) => nodes'[e + 1][j * 2 + 1] # Unset
      BY <2>10, <3>1, <3>2, <3>3
    <3> QED  BY <1>3, <3>3 DEF Children
  <2>12. CASE d = 0
    <3>1. i = 0 /\ 0 \in 0..D /\ 0 \in 0..(Items(0) - 1)
      BY <1>1, <1>2, <2>12 DEF i, d
    <3>2. Root' # Unset
      BY <2>4, <2>5, <2>8, <2>12, <3>1 DEF Root
    <3>3. current_depth' = -1
      BY <2>1, <2>12
    <3> QED  BY <1>1, <2>7, <2>9, <2>11, <3>2, <3>3 DEF Calculating
  <2>13. CASE d # 0
    <3>1. d - 1 \in 0..(D - 1) /\ (d - 1) + 1 = d
      BY <1>1, <1>2, <2>13 DEF d
    <3>2. i \div 2 \in 0..(CeilDiv(Items(d), 2) - 1)
      BY <1>1, <1>2, <1>4, ParentPlace DEF i, d
    <3>3. Items(d - 1) = CeilDiv(Items(d), 2)
      BY <1>2, <3>1
    <3>4. current_depth' \in 0..(D' - 1) /\ current_index' \in 0..(Items(current_depth') - 1)
      BY <1>3, <2>1, <3>1, <3>2, <3>3
    <3>5. Items(current_depth)' = Items(current_depth')
      BY <1>1 DEF Items
    <3> QED  BY <1>1, <2>7, <2>9, <2>11, <3>4, <3>5 DEF Calculating
  <2> QED  BY <2>12, <2>13
<1> QED  BY <1>8, <1>9, <1>10

(* Under a root that is set every node is set: by induction on the depth.   *)
LEMMA AllSet ==
    ASSUME Types, count > 1, Shape, Hashes, Children, Root # Unset
    PROVE  \A d \in 0..D : \A i \in 0..(Items(d) - 1) : nodes[d][i] = Reference(d, i)
<1> DEFINE T == {d \in 0..D : \E i \in 0..(Items(d) - 1) : nodes[d][i] = Unset}
<1>1. /\ D \in Nat \ {0} /\ Items(0) = 1
      /\ \A d \in 0..D : Items(d) \in Nat \ {0}
      /\ \A d \in 0..(D - 1) : d \in 0..D /\ d + 1 \in 0..D /\ Items(d) = CeilDiv(Items(d + 1), 2)
  BY TreeFacts
<1>2. T = {}
  <2> SUFFICES ASSUME T # {}  PROVE FALSE
    OBVIOUS
  <2>1. T \in SUBSET Nat
    BY <1>1
  <2>2. PICK k \in T : \A j \in T : k <= j
    BY <2>1, LeastNat
  <2>3. PICK i \in 0..(Items(k) - 1) : k \in 0..D /\ nodes[k][i] = Unset
    OBVIOUS
  <2>4. k # 0
    <3>1. ASSUME k = 0  PROVE FALSE
      <4>1. i = 0
        BY <1>1, <2>3, <3>1
      <4> QED  BY <2>3, <3>1, <4>1 DEF Root
    <3> QED  BY <3>1
  <2>5. k - 1 \in 0..(D - 1) /\ k - 1 \notin T /\ (k - 1) + 1 = k /\ k - 1 \in 0..D
    BY <1>1, <2>2, <2>3, <2>4
  <2>6. i \div 2 \in 0..(Items(k - 1) - 1) /\ (i = (i \div 2) * 2 \/ i = (i \div 2) * 2 + 1)
    <3>1. Items(k) \in Nat \ {0} /\ Items(k - 1) = CeilDiv(Items(k), 2)
      BY <1>1, <2>3, <2>5
    <3> QED  BY <2>3, <3>1, ParentPlace
  <2>7. nodes[k - 1][i \div 2] # Unset
    BY <2>5, <2>6
  <2>8. /\ nodes[(k - 1) + 1][(i \div 2) * 2] # Unset
        /\ (i \div 2) * 2 + 1 \in 0..(Items((k - 1) + 1) - 1) => nodes[(k - 1) + 1][(i \div 2) * 2 + 1] # Unset
    BY <2>5, <2>6, <2>7 DEF Children
  <2> QED  BY <2>3, <2>5, <2>6, <2>8
<1> QED  BY <1>2 DEF Hashes

(* walk_tree_from_pos starts at the transaction, in the bottom row.         *)
LEMMA StartWalkInv ==
    ASSUME MInv, StartWalk
    PROVE  Walking'
<1>1. /\ Types /\ count > 1 /\ Shape /\ Hashes /\ Children /\ Root # Unset /\ pc = "calc" /\ pc' = "walk"
      /\ branches = <<>> /\ current_depth' = D /\ current_index' = hash[1] - 1 /\ start_node' = hash
      /\ UNCHANGED <<count, nodes, hash, branches>>
  BY DEF MInv, Calculating, BeforeWalk, StartWalk, D
<1>2. PICK t \in 1..count : hash = Leaf(t)
  BY <1>1 DEF MInv, Asked
<1>3. count \in Nat \ {0} /\ D \in Nat \ {0} /\ Items(D) = count
  BY <1>1, TreeFacts
<1>4. D' = D /\ \A e : Items(e)' = Items(e)
  BY <1>1 DEF D, Items
<1>5. \A d \in 0..D : \A i \in 0..(Items(d) - 1) : nodes[d][i] = Reference(d, i)
  BY <1>1, AllSet
<1>6. current_index' = t - 1 /\ t - 1 \in 0..(Items(D) - 1) /\ (t - 1) + 1 = t /\ D \in 0..D
  BY <1>1, <1>2, <1>3 DEF Leaf
<1>7. nodes[D][t - 1] = hash
  BY <1>1, <1>2, <1>5, <1>6, BottomIsSet
<1>8. Shape' /\ \A d \in 0..D' : \A i \in 0..(Items(d)' - 1) : nodes'[d][i] = Reference(d, i)'
  BY <1>1, <1>4, <1>5 DEF Shape, Reference
<1>9. Fold(hash, <<>>) = hash /\ <<>> \in Seq(BranchStep')
  BY FoldEmpty
<1>10. Items(current_depth)' = Items(D)
  BY <1>1 DEF Items
<1>11. current_depth' \in 1..D' /\ current_index' \in 0..(Items(current_depth)' - 1) /\ start_node' = nodes'[current_depth'][current_index']
  BY <1>1, <1>3, <1>4, <1>6, <1>7, <1>10
<1> QED  BY <1>1, <1>8, <1>9, <1>11 DEF Walking

(* walk_tree_from_pos: the step added to the branch leads from start_node   *)
(* to its parent, whichever child start_node is and whether or not it has a *)
(* partner; also when both children are equal and the comparison of hashes  *)
(* takes the right one for the left.                                        *)
LEMMA SiblingLeadsUp ==
    ASSUME Types, count > 1, Shape, NEW d \in 0..(D - 1), NEW j \in 0..(Items(d + 1) - 1),
           \A e \in 0..D : \A i \in 0..(Items(e) - 1) : nodes[e][i] = Reference(e, i),
           start_node = nodes[d + 1][j]
    PROVE  /\ Sibling(d, j \div 2) \in BranchStep
           /\ StepUp(start_node, Sibling(d, j \div 2)) = nodes[d][j \div 2]
<1> DEFINE i == j \div 2
           m == Items(d + 1)
<1>1. /\ count \in 1..MaxTxs /\ d \in 0..D /\ d + 1 \in 0..D /\ m \in Nat \ {0} /\ Items(d) = CeilDiv(m, 2)
  BY TreeFacts
<1>2. i \in 0..(Items(d) - 1) /\ (j = i * 2 \/ j = i * 2 + 1)
  BY <1>1, ParentPlace
<1>3. i * 2 \in 0..(m - 1) /\ DOMAIN nodes = 0..D /\ DOMAIN nodes[d + 1] = 0..(m - 1)
  BY <1>1, <1>2, ChildPlaces DEF Shape
<1> DEFINE left == nodes[d + 1][i * 2]
           right == nodes[d + 1][i * 2 + 1]
           paired == i * 2 + 1 \in 0..(m - 1)
<1>4. nodes[d][i] = hash256(left, IF paired THEN right ELSE left)
  <2>1. Reference(d, i) = hash256(Reference(d + 1, i * 2),
                            IF i * 2 + 1 \in 0..(Items(d + 1) - 1) THEN Reference(d + 1, i * 2 + 1)
                            ELSE Reference(d + 1, i * 2))
    BY <1>1, <1>2, ReferenceStep
  <2> QED  BY <1>1, <1>2, <1>3, <2>1
<1>5. Sibling(d, i) = IF paired /\ left = start_node THEN [hash |-> right, pos |-> "R"]
                      ELSE [hash |-> left, pos |-> "L"]
  BY <1>3 DEF Sibling
<1>6. ~paired => j = i * 2
  BY <1>2
<1>7. left \in Range(nodes[d + 1]) /\ (paired => right \in Range(nodes[d + 1]))
  BY <1>3 DEF Range
<1>8. start_node = nodes[d + 1][j] /\ (j = i * 2 => start_node = left) /\ (j = i * 2 + 1 => start_node = right)
  OBVIOUS
<1> HIDE DEF left, right, paired, i
<1>9. Sibling(d, i) \in BranchStep
  <2>1. [hash |-> left, pos |-> "L"] \in BranchStep /\ (paired => [hash |-> right, pos |-> "R"] \in BranchStep)
    BY <1>1, <1>3, <1>7 DEF BranchStep
  <2> QED  BY <1>5, <2>1
<1>10. StepUp(start_node, Sibling(d, i)) = nodes[d][i]
  <2>1. CASE paired /\ left = start_node
    <3>1. Sibling(d, i) = [hash |-> right, pos |-> "R"]
      BY <1>5, <2>1
    <3> QED  BY <1>4, <2>1, <3>1 DEF StepUp
  <2>2. CASE ~(paired /\ left = start_node)
    <3>1. Sibling(d, i) = [hash |-> left, pos |-> "L"]
      BY <1>5, <2>2
    <3>2. start_node = IF paired THEN right ELSE left
      BY <1>2, <1>6, <1>8, <2>2
    <3> QED  BY <1>4, <3>1, <3>2 DEF StepUp
  <2> QED  BY <2>1, <2>2
<1> QED  BY <1>9, <1>10 DEF i

(* A turn of walk_tree_from_pos, up to the root.                            *)
LEMMA WalkInv ==
    ASSUME MInv, Walk
    PROVE  Walking' /\ ProofLeadsToRoot'
<1> DEFINE d == current_depth - 1
           j == current_index
           i == j \div 2
<1>1. /\ Types /\ count > 1 /\ Shape /\ pc = "walk"
      /\ \A e \in 0..D : \A k \in 0..(Items(e) - 1) : nodes[e][k] = Reference(e, k)
      /\ current_depth \in 1..D /\ j \in 0..(Items(current_depth) - 1)
      /\ start_node = nodes[current_depth][j] /\ branches \in Seq(BranchStep) /\ Fold(hash, branches) = start_node
  BY DEF MInv, Walking, Walk
<1>2. /\ current_depth' = d /\ current_index' = i /\ branches' = Append(branches, Sibling(d, i))
      /\ start_node' = nodes[d][i] /\ pc' = (IF d = 0 /\ i = 0 THEN "done" ELSE "walk")
      /\ UNCHANGED <<hash, count, nodes>>
  BY DEF Walk, Up
<1>3. /\ count \in 1..MaxTxs /\ D \in Nat \ {0} /\ Items(0) = 1
      /\ \A e \in 0..D : Items(e) \in Nat \ {0}
      /\ \A e \in 0..(D - 1) : e \in 0..D /\ e + 1 \in 0..D /\ Items(e) = CeilDiv(Items(e + 1), 2)
  BY <1>1, TreeFacts
<1>4. d \in 0..(D - 1) /\ d + 1 = current_depth /\ d \in 0..D
  BY <1>1, <1>3
<1>5. j \in 0..(Items(d + 1) - 1) /\ start_node = nodes[d + 1][j]
  BY <1>1, <1>4
<1>6. i \in 0..(Items(d) - 1)
  BY <1>3, <1>4, <1>5, ParentPlace
<1>7. Sibling(d, i) \in BranchStep /\ StepUp(start_node, Sibling(d, i)) = nodes[d][i]
  BY <1>1, <1>4, <1>5, SiblingLeadsUp
<1> HIDE DEF d, i, j
<1>8. branches' \in Seq(BranchStep) /\ Fold(hash, branches') = nodes[d][i]
  <2>1. \A S : branches \in Seq(S) /\ Sibling(d, i) \in S =>
           Fold(hash, Append(branches, Sibling(d, i))) = StepUp(Fold(hash, branches), Sibling(d, i))
    BY FoldAppend
  <2>2. Fold(hash, branches') = StepUp(start_node, Sibling(d, i))
    BY <1>1, <1>2, <1>7, <2>1
  <2> QED  BY <1>1, <1>2, <1>7, <2>2
<1>9. D' = D /\ \A e : Items(e)' = Items(e)
  BY <1>2 DEF D, Items
<1>10. CASE d = 0
  <2>1. i = 0 /\ pc' = "done"
    BY <1>2, <1>3, <1>6, <1>10
  <2>2. Fold(hash', branches') = Reference(0, 0)
    BY <1>1, <1>2, <1>4, <1>6, <1>8, <1>10, <2>1
  <2>3. Reference(0, 0) = MerkleRoot(count)
    <3>1. D - 0 = D /\ 0 + 1 = 1
      BY <1>3
    <3> QED  BY <1>3, <3>1, RootLevel DEF Reference, D
  <2> QED  BY <1>2, <2>1, <2>2, <2>3 DEF Walking, ProofLeadsToRoot
<1>11. CASE d # 0
  <2>1. pc' = "walk" /\ current_depth' \in 1..D' /\ Items(current_depth)' = Items(d)
    BY <1>2, <1>3, <1>4, <1>9, <1>11 DEF Items
  <2>2. Shape' /\ \A e \in 0..D' : \A k \in 0..(Items(e)' - 1) : nodes'[e][k] = Reference(e, k)'
    BY <1>1, <1>2, <1>9 DEF Shape, Reference
  <2>3. BranchStep' = BranchStep
    BY <1>2 DEF BranchStep
  <2>4. /\ start_node' = nodes'[current_depth'][current_index'] /\ current_index' \in 0..(Items(current_depth)' - 1)
        /\ branches' \in Seq(BranchStep') /\ Fold(hash', branches') = start_node'
    BY <1>2, <1>6, <1>8, <2>1, <2>3
  <2> QED  BY <1>1, <1>2, <2>1, <2>2, <2>4 DEF Walking, ProofLeadsToRoot
<1> QED  BY <1>10, <1>11

(* Every step keeps the types, and what is known of the transaction asked   *)
(* for: the rows of a block only become more.                               *)
LEMMA NextTypes ==
    ASSUME MInv, [Next]_vars
    PROVE  Types' /\ Asked' /\ BeforeTree' /\ BeforeWalk'
<1> USE DEF MInv, Types, writer, tree
<1>0. MaxTxs \in Nat /\ total \in Nat /\ rows \in Nat
  BY MerkleAssumption
<1>1. CASE WriteHeader
  BY <1>1 DEF WriteHeader, Asked, BeforeTree, BeforeWalk
<1>2. CASE WriteTxRow
  <2>1. rows' = rows + 1 /\ rows' \in 0..total /\ UNCHANGED <<total, header, pc, hash, count, tree, start_node, branches>>
    BY <1>0, <1>2 DEF WriteTxRow
  <2>2. \A i \in 1..rows : i \in 1..rows'
    BY <1>0, <2>1
  <2> QED  BY <2>1, <2>2 DEF Asked, BeforeTree, BeforeWalk
<1>3. CASE Ask
  BY <1>3 DEF Ask, Asked, BeforeTree, BeforeWalk
<1>4. CASE QueryBlock
  BY <1>4 DEF QueryBlock, Asked, BeforeTree, BeforeWalk
<1>5. CASE QueryTxs
  <2>1. /\ pc = "txs" /\ pc' \in {"calc", "done"} /\ count' = rows
        /\ UNCHANGED <<writer, hash, current_depth, current_index, start_node, branches>>
    BY <1>5 DEF QueryTxs
  <2> QED  BY <2>1 DEF Asked, BeforeTree, BeforeWalk
<1>6. CASE CalcRoot
  <2>1. pc = "calc" /\ UNCHANGED <<writer, pc, hash, count, start_node, branches>>
    BY <1>6 DEF CalcRoot
  <2> QED  BY <2>1 DEF Asked, BeforeTree, BeforeWalk
<1>7. CASE StartWalk
  BY <1>7 DEF StartWalk, Asked, BeforeTree, BeforeWalk
<1>8. CASE Walk
  <2>1. pc = "walk" /\ pc' \in {"walk", "done"} /\ UNCHANGED <<writer, hash, count, nodes>>
    BY <1>8 DEF Walk
  <2> QED  BY <2>1 DEF Asked, BeforeTree, BeforeWalk
<1>9. CASE UNCHANGED vars
  BY <1>9 DEF vars, Asked, BeforeTree, BeforeWalk
<1> QED  BY <1>1, <1>2, <1>3, <1>4, <1>5, <1>6, <1>7, <1>8, <1>9 DEF Next, Request

(* The steps of the writer leave the request alone.                         *)
LEMMA SameTree ==
    ASSUME Calculating, Walking, ProofLeadsToRoot,
           UNCHANGED <<pc, hash, count, tree, start_node, branches>>
    PROVE  Calculating' /\ Walking' /\ ProofLeadsToRoot'
<1>1. UNCHANGED <<pc, hash, count, nodes, current_depth, current_index, start_node, branches>>
  BY DEF tree
<1> QED  BY <1>1 DEF Calculating, Walking, ProofLeadsToRoot, Shape, Hashes, Children, Reference, Items, D, Root,
                     BranchStep

(* A service without a request.                                             *)
LEMMA InitMInv == Init => MInv
<1> SUFFICES ASSUME Init  PROVE MInv
  OBVIOUS
<1>1. total \in 1..MaxTxs /\ rows \in 0..total /\ count \in 0..total
  <2>1. total \in 1..MaxTxs /\ rows = 0 /\ count = 0
    BY DEF Init
  <2> QED  BY <2>1, MerkleAssumption
<1>2. Types
  BY <1>1 DEF Init, Types
<1> QED  BY <1>2 DEF Init, MInv, Asked, BeforeTree, BeforeWalk, Calculating, Walking, ProofLeadsToRoot

(* MInv is inductive.                                                       *)
LEMMA NextMInv ==
    ASSUME MInv, [Next]_vars
    PROVE  MInv'
<1>0. Types' /\ Asked' /\ BeforeTree' /\ BeforeWalk'
  BY NextTypes
<1>1. CASE WriteHeader \/ WriteTxRow \/ UNCHANGED vars
  <2>1. UNCHANGED <<pc, hash, count, tree, start_node, branches>>
    BY <1>1 DEF WriteHeader, WriteTxRow, vars
  <2> QED  BY <1>0, <2>1, SameTree DEF MInv
<1>2. CASE Ask \/ QueryBlock
  <2>1. pc' \in {"block", "txs", "missing"}
    BY <1>2 DEF Ask, QueryBlock
  <2> QED  BY <1>0, <2>1 DEF MInv, Calculating, Walking, ProofLeadsToRoot
<1>3. CASE QueryTxs
  <2>1. pc' # "walk"
    BY <1>3 DEF QueryTxs
  <2> QED  BY <1>0, <1>3, <2>1, QueryTxsInv DEF MInv, Walking
<1>4. CASE CalcRoot
  <2>1. pc' = "calc"
    BY <1>4 DEF CalcRoot
  <2> QED  BY <1>0, <1>4, <2>1, CalcRootInv DEF MInv, Walking, ProofLeadsToRoot
<1>5. CASE StartWalk
  <2>1. pc' = "walk"
    BY <1>5 DEF StartWalk
  <2> QED  BY <1>0, <1>5, <2>1, StartWalkInv DEF MInv, Calculating, ProofLeadsToRoot
<1>6. CASE Walk
  <2>1. pc' # "calc"
    BY <1>6 DEF Walk
  <2> QED  BY <1>0, <1>6, <2>1, WalkInv DEF MInv, Calculating
<1> QED  BY <1>1, <1>2, <1>3, <1>4, <1>5, <1>6 DEF Next, Request

(* The invariant holds throughout.                                          *)
LEMMA AlwaysMInv == Spec => []MInv
<1>1. MInv /\ [Next]_vars => MInv'
  BY NextMInv
<1> QED  BY <1>1, InitMInv, PTL DEF Spec

(* The pointer of the tree stays in the tree, or leaves it over a root that *)
(* is set: Python's negative indices are never used, for blocks of any      *)
(* number of transactions.                                                  *)
THEOREM PointerInTree == Spec => []TypeOK
<1>1. ASSUME MInv  PROVE TypeOK
  <2>1. Types
    BY <1>1 DEF MInv
  <2>2. ASSUME pc = "calc"
        PROVE  \/ current_depth \in DOMAIN nodes /\ current_index \in DOMAIN nodes[current_depth]
               \/ current_depth = -1 /\ Root # Unset
    <3>1. /\ count > 1 /\ Shape
          /\ \/ current_depth \in 0..(D - 1) /\ current_index \in 0..(Items(current_depth) - 1)
             \/ current_depth = -1 /\ Root # Unset
      BY <1>1, <2>2 DEF MInv, Calculating
    <3>2. \A d \in 0..(D - 1) : d \in 0..D
      BY <2>1, <3>1, TreeFacts
    <3> QED  BY <3>1, <3>2 DEF Shape
  <2>3. ASSUME pc = "walk"
        PROVE  current_depth \in DOMAIN nodes /\ current_index \in DOMAIN nodes[current_depth]
    <3>1. count > 1 /\ Shape /\ current_depth \in 1..D /\ current_index \in 0..(Items(current_depth) - 1)
      BY <1>1, <2>3 DEF MInv, Walking
    <3>2. current_depth \in 0..D
      <4>1. D \in Nat
        BY <2>1, <3>1, TreeFacts
      <4> QED  BY <3>1, <4>1
    <3> QED  BY <3>1, <3>2 DEF Shape
  <2> QED  BY <2>1, <2>2, <2>3 DEF Types, TypeOK
<1>2. MInv => TypeOK
  BY <1>1
<1> QED  BY <1>2, AlwaysMInv, PTL

(* The branch leads to the Merkle root of the list that was read, for every *)
(* number of transactions, every position, and rows that appear before,     *)
(* between and after the queries.                                           *)
THEOREM BranchLeadsToRoot == Spec => []ProofLeadsToRoot
<1>1. MInv => ProofLeadsToRoot
  BY DEF MInv
<1> QED  BY <1>1, AlwaysMInv, PTL
=============================================================================

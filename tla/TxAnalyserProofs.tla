--------------------------- MODULE TxAnalyserProofs ---------------------------
(***************************************************************************)
(* Theorems about the transaction analyser and the tables behind it, for   *)
(* any transactions, blocks, collections and monitors, any length of the   *)
(* channel, and with roll-backs, restarts, failing loads and a writer that *)
(* merges batches and drops the operation behind them.                     *)
(*                                                                         *)
(* The tables lag behind the memory by the operations in the channel.  For *)
(* each transaction, output and block the invariant says what the last     *)
(* operation about it, or its row when there is none, has to do with the   *)
(* memory.  Which operations the writer cannot drop is a matter of where   *)
(* they stand: those that do not follow a batch are safe.                  *)
(***************************************************************************)
EXTENDS TxAnalyser, SequenceLemmas, FiniteSetTheorems, TLAPS

(* No output of a block ever reaches the unspent outputs, so all that are   *)
(* there have height NOT_IN_BLOCK.                                          *)
Heights == {NOT_IN_BLOCK, None}

(* The operations that are sent. *)
OpNames == {"MempoolBatchWrite", "MempoolBatchDelete", "UtxoBatchWrite", "UtxoBatchDelete",
            "UtxoDelete", "TxBatchWrite", "TxDelete", "BlockHeaderWrite", "BlockHeaderDelete",
            "OrphanBlockHeaderWrite"}
OpRows == UNION {Tx, SUBSET Tx, SUBSET (Outpoint \X {NOT_IN_BLOCK}), Nat, Seq(Tx \X Nat),
                 Blk, Blk \X Nat}
Ops == {e \in [op : OpNames, rows : OpRows] :
          /\ e.op = "MempoolBatchWrite" => e.rows \in Tx
          /\ e.op = "MempoolBatchDelete" => e.rows \in SUBSET Tx
          /\ e.op = "UtxoBatchWrite" => e.rows \in SUBSET (Outpoint \X {NOT_IN_BLOCK})
          /\ e.op \in {"TxDelete", "UtxoDelete"} => e.rows \in Nat
          /\ e.op = "TxBatchWrite" => e.rows \in Seq(Tx \X Nat)
          /\ e.op = "BlockHeaderWrite" => e.rows \in Blk \X Nat
          /\ e.op = "BlockHeaderDelete" => e.rows \in Blk}

(* What an operation is about: the mempool row of t, the output o, the      *)
(* header of b, the deletion of b's header, a height taken or cleared.      *)
Writes(e, t) == e.op = "MempoolBatchWrite" /\ e.rows = t
Deletes(e, t) == e.op = "MempoolBatchDelete" /\ t \in e.rows
About(e, t) == Writes(e, t) \/ Deletes(e, t)
WritesOut(e, o) == e.op = "UtxoBatchWrite" /\ \E r \in e.rows : r[1] = o
Header(e, b, h) == e.op = "BlockHeaderWrite" /\ e.rows = <<b, h>>
HeaderGone(e, b) == e.op = "BlockHeaderDelete" /\ e.rows = b
Claims(e, h) == (e.op = "TxDelete" /\ e.rows = h) \/ \E b \in Blk : Header(e, b, h)

(* An operation the writer cannot drop. *)
Safe(c, i) == i = 1 \/ c[i - 1].op \notin Batches

-----------------------------------------------------------------------------
(* The inductive invariant: the types,                                      *)
Types ==
    /\ mempool \subseteq Tx /\ tMempool \subseteq Tx
    /\ txs \in [Tx -> Nat \cup {None}] /\ tTx \in [Tx -> Nat \cup {None}]
    /\ utxo \in [Outpoint -> Heights] /\ tUtxo \in [Outpoint -> Heights]
    /\ utxo_entries \subseteq {o \in Outpoint : utxo[o] = NOT_IN_BLOCK}
    /\ ready \in BOOLEAN
    /\ last_hash_processed \in Blk \cup {None}
    /\ tBlocks \in [Blk -> Nat \cup {None}] /\ IsFiniteSet(Rows)
    /\ chan \in Seq(Ops)
    /\ \A i \in 1..(Len(chan) - 1) : chan[i].op = "TxBatchWrite" => chan[i + 1].op # "TxBatchWrite"

(* the collections, which hold every monitor of the dynamic configuration,  *)
Entries == [name : Name, txs : SUBSET Tx]
Collections ==
    /\ collection \in Seq(Entries) /\ tCollection \subseteq Name \X Tx
    /\ dynamic \in Seq(Name) /\ configFile = dynamic
    /\ \A i, j \in 1..Len(dynamic) : dynamic[i] = dynamic[j] => i = j
    /\ \A i \in 1..Len(dynamic) : \E j \in 1..Len(collection) : collection[j].name = dynamic[i]

(* the mempool: the last operation about a transaction, or its row,         *)
Agrees(t) == /\ t \in mempool => t \in tMempool
             /\ t \in tMempool => t \in mempool \/ "mempool" \in failed
MempoolInStep ==
    /\ \A t \in Tx, i \in 1..Len(chan) :
          /\ Writes(chan[i], t) /\ (\A j \in (i + 1)..Len(chan) : ~Deletes(chan[j], t)) => t \in mempool
          /\ Deletes(chan[i], t) /\ (\A j \in (i + 1)..Len(chan) : ~Writes(chan[j], t)) => t \notin mempool
    /\ \A t \in Tx \ missed : (\A j \in 1..Len(chan) : ~About(chan[j], t)) => Agrees(t)

(* the outputs: a row that waits, was sent in Ready, is sent, or is there,  *)
UtxoInStep ==
    /\ \A o \in Outpoint : utxo[o] = NOT_IN_BLOCK =>
          \/ o \in utxo_entries \/ o \in risked \/ tUtxo[o] = NOT_IN_BLOCK
          \/ \E i \in 1..Len(chan) : WritesOut(chan[i], o) /\ Safe(chan, i)
    /\ \A o \in Outpoint : \A i \in 1..Len(chan) : WritesOut(chan[i], o) => utxo[o] = NOT_IN_BLOCK
    /\ \A o \in Outpoint : tUtxo[o] = NOT_IN_BLOCK => utxo[o] = NOT_IN_BLOCK \/ "utxo" \in failed

(* the chain of headers with their heights,                                 *)
ChainOrdered ==
    /\ chain \in Seq(Blk) /\ hash_to_index \in [Blk -> Nat \cup {None}] /\ height \in Nat
    /\ \A b \in Blk : hash_to_index[b] # None => \E i \in 1..Len(chain) : chain[i] = b
    /\ \A i \in 1..Len(chain) : hash_to_index[chain[i]] \in Nat /\ hash_to_index[chain[i]] < height
    /\ \A i, j \in 1..Len(chain) : i < j => hash_to_index[chain[i]] < hash_to_index[chain[j]]

(* and the header rows: one that is not about to be deleted is in memory,   *)
(* and a height is free when it is taken or cleared.                        *)
HeadersInStep ==
    /\ \A b \in Blk, h \in Nat : \A i \in 1..Len(chan) :
          Header(chan[i], b, h) /\ (\A j \in (i + 1)..Len(chan) : ~HeaderGone(chan[j], b))
             => hash_to_index[b] = h
    /\ \A b \in Blk : tBlocks[b] # None /\ (\A j \in 1..Len(chan) : ~HeaderGone(chan[j], b))
          => hash_to_index[b] = tBlocks[b]
    /\ \A b \in Blk : \A i \in 1..Len(chan) : HeaderGone(chan[i], b) => Safe(chan, i)
    /\ \A b \in Blk, h \in Nat : \A i, j \in 1..Len(chan) :
          Claims(chan[i], h) /\ Header(chan[j], b, h) /\ j < i
             => \E k \in (j + 1)..(i - 1) : HeaderGone(chan[k], b)
    /\ \A b \in Blk, h \in Nat : \A i \in 1..Len(chan) :
          Claims(chan[i], h) /\ tBlocks[b] = h => \E k \in 1..(i - 1) : HeaderGone(chan[k], b)
    /\ \A b, c \in Blk : tBlocks[b] # None /\ tBlocks[b] = tBlocks[c] => b = c

IInv == Types /\ Collections /\ MempoolInStep /\ UtxoInStep /\ ChainOrdered /\ HeadersInStep

-----------------------------------------------------------------------------
(* Operations sent behind the others.                                       *)
LEMMA SendFacts ==
    ASSUME NEW c \in Seq(Ops), NEW s \in Seq(Ops)
    PROVE  /\ c \o s \in Seq(Ops) /\ Len(c) \in Nat /\ Len(s) \in Nat /\ Len(c \o s) = Len(c) + Len(s)
           /\ \A i \in 1..Len(c) : (c \o s)[i] = c[i]
           /\ \A k \in 1..Len(s) : (c \o s)[Len(c) + k] = s[k]
           /\ \A i \in 1..Len(c \o s) : i \in 1..Len(c) \/ \E k \in 1..Len(s) : i = Len(c) + k
<1>1. /\ c \o s \in Seq(Ops) /\ Len(c) \in Nat /\ Len(s) \in Nat /\ Len(c \o s) = Len(c) + Len(s)
      /\ \A i \in 1..Len(c) : (c \o s)[i] = c[i]
  OBVIOUS
<1>2. \A k \in 1..Len(s) : (c \o s)[Len(c) + k] = s[k]
  OBVIOUS
<1>3. ASSUME NEW i \in 1..Len(c \o s), i \notin 1..Len(c)  PROVE \E k \in 1..Len(s) : i = Len(c) + k
  <2>1. i - Len(c) \in 1..Len(s) /\ i = Len(c) + (i - Len(c))
    BY <1>1, <1>3
  <2> QED  BY <2>1
<1> QED  BY <1>1, <1>2, <1>3

(* The mempool stays in step when what is sent about a transaction agrees   *)
(* with the memory.                                                         *)
LEMMA SendMempool ==
    ASSUME MempoolInStep, chan \in Seq(Ops), NEW s \in Seq(Ops), chan' = chan \o s,
           UNCHANGED <<tMempool, missed, failed>>,
           \A t \in Tx : \/ /\ \A k \in 1..Len(s) : ~About(s[k], t)
                            /\ t \in mempool' <=> t \in mempool
                         \/ /\ \E k \in 1..Len(s) : About(s[k], t)
                            /\ \A k \in 1..Len(s) : /\ Writes(s[k], t) => t \in mempool'
                                                    /\ Deletes(s[k], t) => t \notin mempool'
    PROVE  MempoolInStep'
<1> DEFINE c == chan'
<1>1. /\ Len(chan) \in Nat /\ Len(s) \in Nat /\ Len(c) = Len(chan) + Len(s)
      /\ \A i \in 1..Len(chan) : c[i] = chan[i]
      /\ \A k \in 1..Len(s) : c[Len(chan) + k] = s[k]
      /\ \A i \in 1..Len(c) : i \in 1..Len(chan) \/ \E k \in 1..Len(s) : i = Len(chan) + k
  BY SendFacts
<1> HIDE DEF c
<1>2. ASSUME NEW t \in Tx, NEW i \in 1..Len(c)
      PROVE  /\ Writes(c[i], t) /\ (\A j \in (i + 1)..Len(c) : ~Deletes(c[j], t)) => t \in mempool'
             /\ Deletes(c[i], t) /\ (\A j \in (i + 1)..Len(c) : ~Writes(c[j], t)) => t \notin mempool'
  <2>1. CASE i \in 1..Len(chan)
    <3>1. \A k \in 1..Len(s) : Len(chan) + k \in (i + 1)..Len(c)
      BY <1>1, <2>1
    <3>2. \A j \in (i + 1)..Len(chan) : j \in (i + 1)..Len(c) /\ j \in 1..Len(chan)
      BY <1>1, <2>1
    <3>3. ASSUME Writes(c[i], t), \A j \in (i + 1)..Len(c) : ~Deletes(c[j], t)  PROVE t \in mempool'
      <4>1. (\A k \in 1..Len(s) : ~Deletes(s[k], t)) /\ \A j \in (i + 1)..Len(chan) : ~Deletes(chan[j], t)
        BY <1>1, <3>1, <3>2, <3>3
      <4>2. t \in mempool
        BY <1>1, <2>1, <3>3, <4>1 DEF MempoolInStep
      <4> QED  BY <4>1, <4>2 DEF About
    <3>4. ASSUME Deletes(c[i], t), \A j \in (i + 1)..Len(c) : ~Writes(c[j], t)  PROVE t \notin mempool'
      <4>1. (\A k \in 1..Len(s) : ~Writes(s[k], t)) /\ \A j \in (i + 1)..Len(chan) : ~Writes(chan[j], t)
        BY <1>1, <3>1, <3>2, <3>4
      <4>2. t \notin mempool
        BY <1>1, <2>1, <3>4, <4>1 DEF MempoolInStep
      <4> QED  BY <4>1, <4>2 DEF About
    <3> QED  BY <3>3, <3>4
  <2>2. CASE i \notin 1..Len(chan)
    <3>1. PICK k \in 1..Len(s) : i = Len(chan) + k
      BY <1>1, <2>2
    <3>2. c[i] = s[k]
      BY <1>1, <3>1
    <3> QED  BY <3>2 DEF About
  <2> QED  BY <2>1, <2>2
<1>3. ASSUME NEW t \in Tx \ missed, \A j \in 1..Len(c) : ~About(c[j], t)  PROVE Agrees(t)'
  <2>1. \A k \in 1..Len(s) : Len(chan) + k \in 1..Len(c)
    BY <1>1
  <2>2. \A k \in 1..Len(s) : ~About(s[k], t)
    BY <1>1, <1>3, <2>1
  <2>3. \A j \in 1..Len(chan) : j \in 1..Len(c)
    BY <1>1
  <2>4. \A j \in 1..Len(chan) : ~About(chan[j], t)
    BY <1>1, <1>3, <2>3
  <2>5. Agrees(t) /\ (t \in mempool' <=> t \in mempool)
    BY <2>2, <2>4 DEF MempoolInStep
  <2> QED  BY <2>5 DEF Agrees
<1> QED  BY <1>2, <1>3 DEF MempoolInStep, c

(* The outputs stay in step when each new one waits, is at risk or is sent  *)
(* where the writer cannot drop it.                                         *)
LEMMA SendUtxo ==
    ASSUME UtxoInStep, chan \in Seq(Ops), NEW s \in Seq(Ops), chan' = chan \o s,
           UNCHANGED <<tUtxo, failed>>,
           \A o \in Outpoint : utxo[o] = NOT_IN_BLOCK => utxo'[o] = NOT_IN_BLOCK,
           \A o \in Outpoint : \A k \in 1..Len(s) : WritesOut(s[k], o) => utxo'[o] = NOT_IN_BLOCK,
           \A o \in Outpoint : utxo'[o] = NOT_IN_BLOCK =>
              \/ o \in utxo_entries' \/ o \in risked'
              \/ utxo[o] = NOT_IN_BLOCK /\ o \notin utxo_entries /\ o \notin risked
              \/ \E k \in 2..Len(s) : WritesOut(s[k], o) /\ s[k - 1].op \notin Batches
    PROVE  UtxoInStep'
<1> DEFINE c == chan'
<1>1. /\ Len(chan) \in Nat /\ Len(s) \in Nat /\ Len(c) = Len(chan) + Len(s)
      /\ \A i \in 1..Len(chan) : c[i] = chan[i]
      /\ \A k \in 1..Len(s) : c[Len(chan) + k] = s[k]
      /\ \A i \in 1..Len(c) : i \in 1..Len(chan) \/ \E k \in 1..Len(s) : i = Len(chan) + k
  BY SendFacts
<1> HIDE DEF c
<1>2. ASSUME NEW o \in Outpoint, utxo'[o] = NOT_IN_BLOCK
      PROVE  \/ o \in utxo_entries' \/ o \in risked' \/ tUtxo'[o] = NOT_IN_BLOCK
             \/ \E i \in 1..Len(c) : WritesOut(c[i], o) /\ Safe(c, i)
  <2>1. CASE utxo[o] = NOT_IN_BLOCK /\ o \notin utxo_entries /\ o \notin risked
    <3>1. CASE tUtxo[o] = NOT_IN_BLOCK
      BY <3>1
    <3>2. CASE \E i \in 1..Len(chan) : WritesOut(chan[i], o) /\ Safe(chan, i)
      <4>1. PICK i \in 1..Len(chan) : WritesOut(chan[i], o) /\ Safe(chan, i)
        BY <3>2
      <4>2. i \in 1..Len(c) /\ c[i] = chan[i] /\ (i = 1 \/ i - 1 \in 1..Len(chan))
        BY <1>1
      <4>3. Safe(c, i)
        BY <1>1, <4>1, <4>2 DEF Safe
      <4> QED  BY <4>1, <4>2, <4>3
    <3> QED  BY <2>1, <3>1, <3>2 DEF UtxoInStep
  <2>2. CASE \E k \in 2..Len(s) : WritesOut(s[k], o) /\ s[k - 1].op \notin Batches
    <3>1. PICK k \in 2..Len(s) : WritesOut(s[k], o) /\ s[k - 1].op \notin Batches
      BY <2>2
    <3>2. /\ k \in 1..Len(s) /\ k - 1 \in 1..Len(s) /\ Len(chan) + k \in 1..Len(c)
          /\ (Len(chan) + k) - 1 = Len(chan) + (k - 1)
      BY <1>1
    <3>3. c[Len(chan) + k] = s[k] /\ c[(Len(chan) + k) - 1] = s[k - 1]
      BY <1>1, <3>2
    <3> QED  BY <3>1, <3>2, <3>3 DEF Safe
  <2> QED  BY <1>2, <2>1, <2>2
<1>3. ASSUME NEW o \in Outpoint, NEW i \in 1..Len(c), WritesOut(c[i], o)  PROVE utxo'[o] = NOT_IN_BLOCK
  BY <1>1, <1>3 DEF UtxoInStep
<1>4. ASSUME NEW o \in Outpoint, tUtxo'[o] = NOT_IN_BLOCK
      PROVE  utxo'[o] = NOT_IN_BLOCK \/ "utxo" \in failed'
  BY <1>4 DEF UtxoInStep
<1> QED  BY <1>2, <1>3, <1>4 DEF UtxoInStep, c

(* The header rows stay in step when a header is sent for a block that      *)
(* memory takes, a deletion for one that it drops, behind an operation that *)
(* is no batch, and for heights that no block in memory has.                *)
LEMMA SendHeaders ==
    ASSUME HeadersInStep, chan \in Seq(Ops), NEW s \in Seq(Ops), chan' = chan \o s, tBlocks' = tBlocks,
           tBlocks \in [Blk -> Nat \cup {None}],
           \A b \in Blk : (\A k \in 1..Len(s) : ~HeaderGone(s[k], b)) =>
              /\ hash_to_index[b] # None => hash_to_index'[b] = hash_to_index[b]
              /\ \A h \in Nat : \A k \in 1..Len(s) : Header(s[k], b, h) => hash_to_index'[b] = h,
           \A b \in Blk, h \in Nat : \A j, k \in 1..Len(s) :
              Header(s[j], b, h) => ~HeaderGone(s[k], b) /\ (j < k => ~Claims(s[k], h)),
           \A b \in Blk : \A k \in 1..Len(s) :
              HeaderGone(s[k], b) => k \in 2..Len(s) /\ s[k - 1].op \notin Batches,
           \A b \in Blk, h \in Nat : \A k \in 1..Len(s) : Claims(s[k], h) => hash_to_index[b] # h
    PROVE  HeadersInStep'
<1> DEFINE c == chan'
           n == Len(chan)
<1>1. /\ n \in Nat /\ Len(s) \in Nat /\ Len(c) = n + Len(s)
      /\ \A i \in 1..n : c[i] = chan[i]
      /\ \A k \in 1..Len(s) : c[n + k] = s[k]
      /\ \A i \in 1..Len(c) : i \in 1..n \/ \E k \in 1..Len(s) : i = n + k
  BY SendFacts
<1>2. None \notin Nat
  BY TxAssumption
<1>old. /\ \A b \in Blk, h \in Nat : \A i \in 1..n :
             Header(chan[i], b, h) /\ (\A j \in (i + 1)..n : ~HeaderGone(chan[j], b))
                => hash_to_index[b] = h
        /\ \A b \in Blk : tBlocks[b] # None /\ (\A j \in 1..n : ~HeaderGone(chan[j], b))
                => hash_to_index[b] = tBlocks[b]
        /\ \A b \in Blk : \A i \in 1..n : HeaderGone(chan[i], b) => Safe(chan, i)
        /\ \A b \in Blk, h \in Nat : \A i, j \in 1..n :
             Claims(chan[i], h) /\ Header(chan[j], b, h) /\ j < i
                => \E k \in (j + 1)..(i - 1) : HeaderGone(chan[k], b)
        /\ \A b \in Blk, h \in Nat : \A i \in 1..n :
             Claims(chan[i], h) /\ tBlocks[b] = h => \E k \in 1..(i - 1) : HeaderGone(chan[k], b)
        /\ \A b, d \in Blk : tBlocks[b] # None /\ tBlocks[b] = tBlocks[d] => b = d
  BY DEF HeadersInStep
<1> HIDE DEF c, n
<1>3. \A k \in 1..Len(s) : n + k \in 1..Len(c) /\ \A i \in 1..n : n + k \in (i + 1)..Len(c)
  BY <1>1
<1>4. \A j \in 1..n : j \in 1..Len(c)
  BY <1>1
<1>5. ASSUME NEW b \in Blk, NEW h \in Nat, NEW i \in 1..Len(c), Header(c[i], b, h),
             \A j \in (i + 1)..Len(c) : ~HeaderGone(c[j], b)
      PROVE  hash_to_index'[b] = h
  <2>1. CASE i \in 1..n
    <3>1. \A k \in 1..Len(s) : ~HeaderGone(s[k], b)
      BY <1>1, <1>3, <1>5, <2>1
    <3>2. \A j \in (i + 1)..n : j \in (i + 1)..Len(c) /\ j \in 1..n
      BY <1>1, <2>1
    <3>3. \A j \in (i + 1)..n : ~HeaderGone(chan[j], b)
      BY <1>1, <1>5, <3>2
    <3>4. hash_to_index[b] = h
      BY <1>1, <1>5, <1>old, <2>1, <3>3
    <3> QED  BY <1>2, <3>1, <3>4
  <2>2. CASE i \notin 1..n
    <3>1. PICK k \in 1..Len(s) : i = n + k
      BY <1>1, <2>2
    <3>2. Header(s[k], b, h)
      BY <1>1, <1>5, <3>1
    <3> QED  BY <3>2
  <2> QED  BY <2>1, <2>2
<1>6. ASSUME NEW b \in Blk, tBlocks[b] # None, \A j \in 1..Len(c) : ~HeaderGone(c[j], b)
      PROVE  hash_to_index'[b] = tBlocks[b]
  <2>1. \A k \in 1..Len(s) : ~HeaderGone(s[k], b)
    BY <1>1, <1>3, <1>6
  <2>2. \A j \in 1..n : ~HeaderGone(chan[j], b)
    BY <1>1, <1>4, <1>6
  <2>3. hash_to_index[b] = tBlocks[b]
    BY <1>6, <1>old, <2>2
  <2> QED  BY <1>6, <2>1, <2>3
<1>7. ASSUME NEW b \in Blk, NEW i \in 1..Len(c), HeaderGone(c[i], b)  PROVE Safe(c, i)
  <2>1. CASE i \in 1..n
    <3>1. Safe(chan, i) /\ (i = 1 \/ i - 1 \in 1..n)
      BY <1>1, <1>7, <1>old, <2>1
    <3> QED  BY <1>1, <3>1 DEF Safe
  <2>2. CASE i \notin 1..n
    <3>1. PICK k \in 1..Len(s) : i = n + k
      BY <1>1, <2>2
    <3>2. k \in 2..Len(s) /\ s[k - 1].op \notin Batches
      BY <1>1, <1>7, <3>1
    <3>3. k - 1 \in 1..Len(s) /\ i - 1 = n + (k - 1)
      BY <1>1, <3>1, <3>2
    <3> QED  BY <1>1, <3>2, <3>3 DEF Safe
  <2> QED  BY <2>1, <2>2
<1>8. ASSUME NEW b \in Blk, NEW h \in Nat, NEW i \in 1..Len(c), NEW j \in 1..Len(c),
             Claims(c[i], h), Header(c[j], b, h), j < i
      PROVE  \E k \in (j + 1)..(i - 1) : HeaderGone(c[k], b)
  <2>1. CASE i \in 1..n
    <3>1. j \in 1..n
      BY <1>1, <1>8, <2>1
    <3>2. PICK k \in (j + 1)..(i - 1) : HeaderGone(chan[k], b)
      BY <1>1, <1>8, <1>old, <2>1, <3>1
    <3>3. k \in 1..n
      BY <1>1, <2>1, <3>1
    <3> QED  BY <1>1, <3>2, <3>3
  <2>2. CASE i \notin 1..n
    <3>1. PICK p \in 1..Len(s) : i = n + p
      BY <1>1, <2>2
    <3>2. Claims(s[p], h)
      BY <1>1, <1>8, <3>1
    <3>3. hash_to_index[b] # h
      BY <3>2
    <3>4. j \in 1..n
      <4> SUFFICES ASSUME j \notin 1..n  PROVE FALSE
        OBVIOUS
      <4>1. PICK q \in 1..Len(s) : j = n + q
        BY <1>1
      <4>2. Header(s[q], b, h) /\ q < p
        BY <1>1, <1>8, <3>1, <4>1
      <4> QED  BY <3>2, <4>2
    <3>5. PICK k \in (j + 1)..n : HeaderGone(chan[k], b)
      BY <1>1, <1>8, <1>old, <3>3, <3>4
    <3>6. k \in 1..n /\ k \in (j + 1)..(i - 1)
      BY <1>1, <3>1, <3>4
    <3> QED  BY <1>1, <3>5, <3>6
  <2> QED  BY <2>1, <2>2
<1>9. ASSUME NEW b \in Blk, NEW h \in Nat, NEW i \in 1..Len(c), Claims(c[i], h), tBlocks[b] = h
      PROVE  \E k \in 1..(i - 1) : HeaderGone(c[k], b)
  <2>1. CASE i \in 1..n
    <3>1. PICK k \in 1..(i - 1) : HeaderGone(chan[k], b)
      BY <1>1, <1>9, <1>old, <2>1
    <3>2. k \in 1..n
      BY <1>1, <2>1
    <3> QED  BY <1>1, <3>1, <3>2
  <2>2. CASE i \notin 1..n
    <3>1. PICK p \in 1..Len(s) : i = n + p
      BY <1>1, <2>2
    <3>2. hash_to_index[b] # h
      BY <1>1, <1>9, <3>1
    <3>3. PICK k \in 1..n : HeaderGone(chan[k], b)
      BY <1>2, <1>9, <1>old, <3>2
    <3>4. k \in 1..(i - 1)
      BY <1>1, <3>1
    <3> QED  BY <1>1, <3>3, <3>4
  <2> QED  BY <2>1, <2>2
<1> QED  BY <1>5, <1>6, <1>7, <1>8, <1>9, <1>old, ZenonT(60) DEF HeadersInStep, c

(* The operations of each handler, in order.                                *)
LEMMA FlushOps ==
    ASSUME NEW rows \in SUBSET (Outpoint \X {NOT_IN_BLOCK}), NEW mined \in SUBSET Tx,
           NEW entries \in Seq(Tx \X Nat)
    PROVE  LET s == FlushDatabaseCache(rows, mined, entries) IN
           /\ s \in Seq(Ops) /\ Len(s) \in {3, 4}
           /\ s[1] = Op("UtxoBatchWrite", rows) /\ s[2] = Op("UtxoBatchDelete", {})
           /\ s[3] = Op("MempoolBatchDelete", mined)
           /\ Len(s) = 4 => s[4] = Op("TxBatchWrite", entries)
<1> DEFINE a == Op("UtxoBatchWrite", rows)
           b == Op("UtxoBatchDelete", {})
           c == Op("MempoolBatchDelete", mined)
           d == Op("TxBatchWrite", entries)
<1>1. a \in Ops /\ b \in Ops /\ c \in Ops /\ d \in Ops
  BY DEF Ops, Op, OpNames, OpRows
<1>2. FlushDatabaseCache(rows, mined, entries) =
        <<a, b>> \o <<c>> \o (IF SaveTxs THEN <<d>> ELSE <<>>)
  BY DEF FlushDatabaseCache, UpdateDb
<1> HIDE DEF a, b, c, d
<1>3. CASE SaveTxs
  BY <1>1, <1>2, <1>3 DEF a, b, c, d
<1>4. CASE ~SaveTxs
  BY <1>1, <1>2, <1>4 DEF a, b, c, d
<1> QED  BY <1>3, <1>4

(* The places of the operations of a broadcast transaction.                 *)
LEMMA Places ==
    ASSUME NEW n \in {3, 4}, NEW m, m = 3 + n
    PROVE  /\ m \in 1..7
           /\ \A k \in 2..m : k \in {2, 3, 4, 5, 6} \/ (n = 4 /\ k = 7)
           /\ \A k \in 1..(m - 1) : k \in {1, 2, 3, 4, 5, 6}
<1>1. CASE n = 3
  BY <1>1
<1>2. CASE n = 4
  BY <1>2
<1> QED  BY <1>1, <1>2

(* on_tx: the mempool row first; nothing else it sends is about a           *)
(* transaction or a header.                                                 *)
LEMMA OnTxOpsFacts ==
    ASSUME NEW t \in Tx, NEW broadcast \in BOOLEAN, ready \in BOOLEAN,
           NEW rows \in SUBSET (Outpoint \X {NOT_IN_BLOCK})
    PROVE  LET s == OnTxOps(t, broadcast, rows) IN
           /\ s \in Seq(Ops) /\ Len(s) \in 1..7 /\ s[1] = Op("MempoolBatchWrite", t)
           /\ \A k \in 2..Len(s) :
                 /\ s[k].op \in {"UtxoBatchWrite", "UtxoBatchDelete", "MempoolBatchDelete", "TxBatchWrite"}
                 /\ s[k].op = "MempoolBatchDelete" => s[k].rows = {}
                 /\ s[k].op = "UtxoBatchWrite" => s[k].rows \in {rows, {}} /\ ready
           /\ \A k \in 1..(Len(s) - 1) : s[k].op # "TxBatchWrite"
<1> DEFINE a == Op("MempoolBatchWrite", t)
           b == Op("UtxoBatchWrite", rows)
           c == Op("UtxoBatchDelete", {})
           f == FlushDatabaseCache({}, {}, <<>>)
           s == OnTxOps(t, broadcast, rows)
<1>1. a \in Ops /\ b \in Ops /\ c \in Ops
  BY DEF Ops, Op, OpNames, OpRows
<1>2. /\ a.op = "MempoolBatchWrite" /\ b.op = "UtxoBatchWrite" /\ b.rows = rows /\ c.op = "UtxoBatchDelete"
  BY DEF Op
<1>3. s = <<a>> \o (IF ready THEN <<b, c>> ELSE <<>>) \o (IF ready /\ broadcast THEN f ELSE <<>>)
  BY DEF OnTxOps, UpdateDb
<1>0. {} \in SUBSET (Outpoint \X {NOT_IN_BLOCK}) /\ {} \in SUBSET Tx /\ <<>> \in Seq(Tx \X Nat)
  OBVIOUS
<1>4. /\ f \in Seq(Ops) /\ Len(f) \in {3, 4}
      /\ f[1] = Op("UtxoBatchWrite", {}) /\ f[2] = Op("UtxoBatchDelete", {})
      /\ f[3] = Op("MempoolBatchDelete", {}) /\ (Len(f) = 4 => f[4] = Op("TxBatchWrite", <<>>))
  BY <1>0, FlushOps, ZenonT(60)
<1>5. /\ f[1].op = "UtxoBatchWrite" /\ f[1].rows = {} /\ f[2].op = "UtxoBatchDelete"
      /\ f[3].op = "MempoolBatchDelete" /\ f[3].rows = {} /\ (Len(f) = 4 => f[4].op = "TxBatchWrite")
  BY <1>4 DEF Op
<1> HIDE DEF a, b, c, f, s
<1> SUFFICES /\ s \in Seq(Ops) /\ Len(s) \in 1..7 /\ s[1] = a
             /\ \A k \in 2..Len(s) :
                 /\ s[k].op \in {"UtxoBatchWrite", "UtxoBatchDelete", "MempoolBatchDelete", "TxBatchWrite"}
                 /\ s[k].op = "MempoolBatchDelete" => s[k].rows = {}
                 /\ s[k].op = "UtxoBatchWrite" => s[k].rows \in {rows, {}} /\ ready
             /\ \A k \in 1..(Len(s) - 1) : s[k].op # "TxBatchWrite"
  BY DEF a, s
<1>6. CASE ~ready
  BY <1>1, <1>2, <1>3, <1>6
<1>7. CASE ready /\ ~broadcast
  <2>1. s = <<a>> \o <<b, c>> \o <<>>
    BY <1>3, <1>7
  <2>2. s \in Seq(Ops) /\ Len(s) = 3 /\ s[1] = a /\ s[2] = b /\ s[3] = c
    BY <1>1, <2>1
  <2>3. (\A k \in 2..3 : k = 2 \/ k = 3) /\ (\A k \in 1..(3 - 1) : k = 1 \/ k = 2)
    OBVIOUS
  <2> QED  BY <1>2, <1>7, <2>2, <2>3
<1>8. CASE ready /\ broadcast
  <2>1. s = <<a>> \o <<b, c>> \o f
    BY <1>3, <1>8
  <2>2. /\ s \in Seq(Ops) /\ Len(s) = 3 + Len(f) /\ s[1] = a /\ s[2] = b /\ s[3] = c
        /\ s[4] = f[1] /\ s[5] = f[2] /\ s[6] = f[3] /\ (Len(f) = 4 => s[7] = f[4])
    BY <1>1, <1>4, <2>1
  <2>3. Len(f) \in {3, 4} /\ Len(s) = 3 + Len(f)
    BY <1>4, <2>2
  <2>4. /\ Len(s) \in 1..7
        /\ \A k \in 2..Len(s) : k \in {2, 3, 4, 5, 6} \/ (Len(f) = 4 /\ k = 7)
        /\ \A k \in 1..(Len(s) - 1) : k \in {1, 2, 3, 4, 5, 6}
    BY <2>3, Places, Zenon
  <2>5. \A k \in 1..(Len(s) - 1) : k \in {1, 2, 3, 4, 5, 6}
    BY <2>4
  <2>6. \A k \in 2..Len(s) :
          /\ s[k].op \in {"UtxoBatchWrite", "UtxoBatchDelete", "MempoolBatchDelete", "TxBatchWrite"}
          /\ s[k].op = "MempoolBatchDelete" => s[k].rows = {}
          /\ s[k].op = "UtxoBatchWrite" => s[k].rows \in {rows, {}} /\ ready
    BY <1>2, <1>5, <1>8, <2>2, <2>4
  <2>7. \A k \in 1..(Len(s) - 1) : s[k].op # "TxBatchWrite"
    BY <1>2, <1>5, <2>2, <2>5
  <2> QED  BY <2>2, <2>4, <2>6, <2>7
<1> QED  BY <1>6, <1>7, <1>8

(* What is sent keeps the channel's type, and no TxBatchWrite follows       *)
(* another.                                                                 *)
LEMMA SendTypes ==
    ASSUME Types, NEW s \in Seq(Ops), Len(s) >= 1, s[1].op # "TxBatchWrite",
           \A k \in 1..(Len(s) - 1) : s[k].op # "TxBatchWrite"
    PROVE  LET c == chan \o s IN
           /\ c \in Seq(Ops)
           /\ \A i \in 1..(Len(c) - 1) : c[i].op = "TxBatchWrite" => c[i + 1].op # "TxBatchWrite"
<1> DEFINE c == chan \o s
           n == Len(chan)
<1>1. /\ c \in Seq(Ops) /\ n \in Nat /\ Len(s) \in Nat /\ Len(c) = n + Len(s)
      /\ \A i \in 1..n : c[i] = chan[i]
      /\ \A k \in 1..Len(s) : c[n + k] = s[k]
      /\ \A i \in 1..Len(c) : i \in 1..n \/ \E k \in 1..Len(s) : i = n + k
  BY SendFacts DEF Types
<1>2. \A i \in 1..(n - 1) : chan[i].op = "TxBatchWrite" => chan[i + 1].op # "TxBatchWrite"
  BY DEF Types
<1> HIDE DEF c, n
<1>3. ASSUME NEW i \in 1..(Len(c) - 1), c[i].op = "TxBatchWrite"  PROVE c[i + 1].op # "TxBatchWrite"
  <2>0. i \in 1..Len(c)
    BY <1>1
  <2>1. CASE i \in 1..(n - 1)
    <3>1. i \in 1..n /\ i + 1 \in 1..n
      BY <1>1, <2>1
    <3> QED  BY <1>1, <1>2, <1>3, <2>1, <3>1
  <2>2. CASE i = n
    <3>1. c[i + 1] = s[1]
      BY <1>1, <2>2
    <3> QED  BY <3>1
  <2>3. CASE i \notin 1..n
    <3>1. PICK k \in 1..Len(s) : i = n + k
      BY <1>1, <2>0, <2>3
    <3>2. k \in 1..(Len(s) - 1)
      BY <1>1, <3>1
    <3> QED  BY <1>1, <1>3, <3>1, <3>2
  <2> QED  BY <1>1, <2>0, <2>1, <2>2, <2>3
<1> QED  BY <1>1, <1>3 DEF c

-----------------------------------------------------------------------------
(* The outputs that go to the utxo are outpoints.                           *)
LEMMA SpendableFacts ==
    ASSUME NEW t \in Tx
    PROVE  SpendableOutputs(t) \subseteq Outpoint
BY DEF SpendableOutputs, Outpoint

(* The rows that update_db sends are those of the outputs that wait.        *)
LEMMA UtxoRowsFacts ==
    ASSUME NEW heights, NEW entries \in SUBSET {o \in Outpoint : heights[o] = NOT_IN_BLOCK}
    PROVE  /\ UtxoRows(entries, heights) \in SUBSET (Outpoint \X {NOT_IN_BLOCK})
           /\ \A o : (\E r \in UtxoRows(entries, heights) : r[1] = o) <=> o \in entries
<1> DEFINE rows == UtxoRows(entries, heights)
<1>1. rows = {<<o, NOT_IN_BLOCK>> : o \in entries}
  BY DEF UtxoRows
<1> HIDE DEF rows
<1>2. ASSUME NEW o \in entries  PROVE \E r \in rows : r[1] = o
  <2>1. <<o, NOT_IN_BLOCK>> \in rows /\ <<o, NOT_IN_BLOCK>>[1] = o
    BY <1>1
  <2> QED  BY <2>1
<1>3. \A r \in rows : r[1] \in entries
  BY <1>1
<1>4. rows \in SUBSET (Outpoint \X {NOT_IN_BLOCK})
  BY <1>1
<1> QED  BY <1>2, <1>3, <1>4 DEF rows

(* A transaction: its mempool row is sent, its outputs wait, or are sent    *)
(* and at risk.                                                             *)
LEMMA OnTxInv ==
    ASSUME NEW t \in Tx, NEW broadcast \in BOOLEAN, IInv, OnTx(t, broadcast)
    PROVE  Types' /\ MempoolInStep' /\ UtxoInStep' /\ ChainOrdered' /\ HeadersInStep'
<1> DEFINE entries == utxo_entries \cup SpendableOutputs(t)
           rows == UtxoRows(entries, utxo')
           s == OnTxOps(t, broadcast, rows)
<1>1. /\ mempool' = mempool \cup {t} /\ utxo' = AddOutputs(t, NOT_IN_BLOCK)
      /\ utxo_entries' = IF ready THEN {} ELSE entries
      /\ risked' = IF ready THEN risked \cup entries ELSE risked
      /\ chan' = chan \o s
      /\ UNCHANGED <<txs, ready, chain, hash_to_index, height, last_hash_processed,
                     tMempool, tTx, tUtxo, tBlocks, failed, missed>>
  BY DEF OnTx, blockManager
<1>2. Types /\ MempoolInStep /\ UtxoInStep /\ ChainOrdered /\ HeadersInStep /\ chan \in Seq(Ops)
      /\ tBlocks \in [Blk -> Nat \cup {None}] /\ ready \in BOOLEAN
  BY DEF IInv, Types
<1>3. /\ utxo' \in [Outpoint -> Heights] /\ entries \in SUBSET {o \in Outpoint : utxo'[o] = NOT_IN_BLOCK}
      /\ \A o \in Outpoint : utxo[o] = NOT_IN_BLOCK => utxo'[o] = NOT_IN_BLOCK
      /\ \A o \in Outpoint : utxo'[o] = NOT_IN_BLOCK => utxo[o] = NOT_IN_BLOCK \/ o \in entries
  <2>1. utxo' = [o \in Outpoint |-> IF o \in SpendableOutputs(t) THEN NOT_IN_BLOCK ELSE utxo[o]]
    BY <1>1 DEF AddOutputs
  <2>2. utxo \in [Outpoint -> Heights] /\ utxo_entries \subseteq {o \in Outpoint : utxo[o] = NOT_IN_BLOCK}
    BY <1>2 DEF Types
  <2>3. NOT_IN_BLOCK \in Heights
    BY DEF Heights
  <2> HIDE DEF NOT_IN_BLOCK
  <2> QED  BY <2>1, <2>2, <2>3, SpendableFacts
<1>4. rows \in SUBSET (Outpoint \X {NOT_IN_BLOCK}) /\ \A o : (\E r \in rows : r[1] = o) <=> o \in entries
  BY <1>3, UtxoRowsFacts
<1> HIDE DEF rows, entries
<1>5. /\ s \in Seq(Ops) /\ Len(s) \in 1..7 /\ s[1] = Op("MempoolBatchWrite", t)
      /\ \A k \in 2..Len(s) :
            /\ s[k].op \in {"UtxoBatchWrite", "UtxoBatchDelete", "MempoolBatchDelete", "TxBatchWrite"}
            /\ s[k].op = "MempoolBatchDelete" => s[k].rows = {}
            /\ s[k].op = "UtxoBatchWrite" => s[k].rows \in {rows, {}} /\ ready
      /\ \A k \in 1..(Len(s) - 1) : s[k].op # "TxBatchWrite"
  BY <1>2, <1>4, OnTxOpsFacts
<1> HIDE DEF s
<1>6. s[1].op = "MempoolBatchWrite" /\ s[1].rows = t /\ 1 \in 1..Len(s) /\ Len(s) >= 1
      /\ \A k \in 1..Len(s) : k = 1 \/ k \in 2..Len(s)
  BY <1>5 DEF Op
<1>7. Types'
  <2>1. /\ chan' \in Seq(Ops)
        /\ \A i \in 1..(Len(chan') - 1) : chan'[i].op = "TxBatchWrite" => chan'[i + 1].op # "TxBatchWrite"
    BY <1>1, <1>2, <1>5, <1>6, SendTypes
  <2>2. mempool' \subseteq Tx /\ utxo_entries' \subseteq {o \in Outpoint : utxo'[o] = NOT_IN_BLOCK}
    BY <1>1, <1>2, <1>3 DEF Types
  <2>3. Rows' = Rows
    BY <1>1 DEF Rows
  <2>4. ready' \in BOOLEAN
    BY <1>1, <1>2
  <2> QED  BY <1>1, <1>2, <1>3, <2>1, <2>2, <2>3, <2>4 DEF Types
<1>8. MempoolInStep'
  <2>1. \A u \in Tx, k \in 2..Len(s) : ~About(s[k], u)
    BY <1>5 DEF About, Writes, Deletes
  <2>2. \A u \in Tx : ~Deletes(s[1], u) /\ (Writes(s[1], u) <=> u = t)
    BY <1>6 DEF Writes, Deletes
  <2>3. ASSUME NEW u \in Tx
        PROVE  \/ /\ \A k \in 1..Len(s) : ~About(s[k], u)
                  /\ u \in mempool' <=> u \in mempool
               \/ /\ \E k \in 1..Len(s) : About(s[k], u)
                  /\ \A k \in 1..Len(s) : /\ Writes(s[k], u) => u \in mempool'
                                          /\ Deletes(s[k], u) => u \notin mempool'
    <3>1. CASE u = t
      <4>1. u \in mempool' /\ About(s[1], u) /\ \A k \in 1..Len(s) : ~Deletes(s[k], u)
        BY <1>1, <1>6, <2>1, <2>2, <3>1 DEF About
      <4> QED  BY <1>6, <4>1
    <3>2. CASE u # t
      BY <1>1, <1>6, <2>1, <2>2, <3>2 DEF About
    <3> QED  BY <3>1, <3>2
  <2> QED  BY <1>1, <1>2, <1>5, <2>3, SendMempool
<1>9. UtxoInStep'
  <2>1. ASSUME NEW o \in Outpoint, NEW k \in 1..Len(s), WritesOut(s[k], o)  PROVE utxo'[o] = NOT_IN_BLOCK
    <3>1. k \in 2..Len(s) /\ s[k].rows \in {rows, {}}
      BY <1>5, <1>6, <2>1 DEF WritesOut
    <3>2. o \in entries
      BY <1>4, <2>1, <3>1 DEF WritesOut
    <3> QED  BY <1>3, <3>2
  <2>2. ASSUME NEW o \in Outpoint, utxo'[o] = NOT_IN_BLOCK
        PROVE  \/ o \in utxo_entries' \/ o \in risked'
               \/ utxo[o] = NOT_IN_BLOCK /\ o \notin utxo_entries /\ o \notin risked
    <3>1. o \in entries \/ (utxo[o] = NOT_IN_BLOCK /\ o \notin utxo_entries)
      BY <1>3, <2>2 DEF entries
    <3> QED  BY <1>1, <3>1
  <2> QED  BY <1>1, <1>2, <1>3, <1>5, <2>1, <2>2, SendUtxo
<1>10. ChainOrdered'
  BY <1>1, <1>2 DEF ChainOrdered
<1>11. HeadersInStep'
  <2>1. \A b \in Blk, h \in Nat, k \in 1..Len(s) :
           ~Header(s[k], b, h) /\ ~HeaderGone(s[k], b) /\ ~Claims(s[k], h)
    BY <1>5, <1>6 DEF Header, HeaderGone, Claims
  <2> QED  BY <1>1, <1>2, <1>5, <2>1, SendHeaders
<1> QED  BY <1>7, <1>8, <1>9, <1>10, <1>11

-----------------------------------------------------------------------------
(* The collections of a start hold the configured and the dynamic names,    *)
(* each with transactions of its rows.                                      *)
LEMMA LoadFacts ==
    ASSUME NEW names \in Seq(Name), NEW rows \in SUBSET (Name \X Tx)
    PROVE  /\ LoadCollections(names, rows) \in Seq(Entries)
           /\ \A i \in 1..Len(names) : \E j \in 1..Len(LoadCollections(names, rows)) :
                 LoadCollections(names, rows)[j].name = names[i]
           /\ \A j \in 1..Len(LoadCollections(names, rows)) :
                 \A t \in LoadCollections(names, rows)[j].txs :
                    <<LoadCollections(names, rows)[j].name, t>> \in rows
<1> DEFINE all == Static \o names \o <<"broadcast">>
           E(i) == [name |-> all[i], txs |-> {t \in Tx : <<all[i], t>> \in rows}]
           loaded == [i \in 1..Len(all) |-> E(i)]
<1>1. Static \in Seq(Name) /\ "broadcast" \in Name
  BY TxAssumption DEF Name
<1>2. all \in Seq(Name) /\ Len(all) \in Nat
  BY <1>1
<1>3. ASSUME NEW i \in 1..Len(names)  PROVE \E j \in 1..Len(all) : all[j] = names[i]
  <2>1. Len(Static) + i \in 1..Len(all) /\ all[Len(Static) + i] = names[i]
    BY <1>1
  <2> QED  BY <2>1
<1>4. LoadCollections(names, rows) = loaded
  <2>1. DOMAIN all = 1..Len(all)
    BY <1>2
  <2> QED  BY <2>1 DEF LoadCollections
<1> HIDE DEF all
<1>5. \A i \in 1..Len(all) : E(i) \in Entries /\ E(i).name = all[i]
                             /\ \A t \in E(i).txs : <<all[i], t>> \in rows
  BY <1>2 DEF Entries
<1> HIDE DEF E
<1>6. loaded \in Seq(Entries) /\ Len(loaded) = Len(all) /\ \A i \in 1..Len(all) : loaded[i] = E(i)
  BY <1>2, <1>5
<1> HIDE DEF loaded
<1> QED  BY <1>3, <1>4, <1>5, <1>6

(* At the first start memory and tables are empty.                          *)
LEMMA InitInv == Init => IInv
<1> SUFFICES ASSUME Init  PROVE IInv
  OBVIOUS
<1>1. /\ mempool = {} /\ utxo_entries = {} /\ chain = <<>> /\ chan = <<>> /\ tMempool = {}
      /\ last_hash_processed = None /\ height = 1 /\ dynamic = <<>> /\ configFile = <<>>
      /\ tCollection = {} /\ collection = LoadCollections(<<>>, {})
  BY DEF Init
<1>2. /\ txs = [t \in Tx |-> None] /\ tTx = [t \in Tx |-> None]
      /\ utxo = [o \in Outpoint |-> None] /\ tUtxo = [o \in Outpoint |-> None]
      /\ hash_to_index = [b \in Blk |-> None] /\ tBlocks = [b \in Blk |-> None]
  BY DEF Init
<1>3. Types
  <2>1. Rows = {}
    BY <1>2 DEF Rows
  <2>2. IsFiniteSet(Rows)
    BY <2>1, FS_EmptySet
  <2>3. ready \in BOOLEAN
    BY DEF Init
  <2>4. chan \in Seq(Ops) /\ Len(chan) = 0
    BY <1>1
  <2>5. /\ txs \in [Tx -> Nat \cup {None}] /\ tTx \in [Tx -> Nat \cup {None}]
        /\ utxo \in [Outpoint -> Heights] /\ tUtxo \in [Outpoint -> Heights]
        /\ tBlocks \in [Blk -> Nat \cup {None}]
    BY <1>2 DEF Heights
  <2> QED  BY <1>1, <2>2, <2>3, <2>4, <2>5 DEF Types
<1>4. Collections
  <2>1. <<>> \in Seq(Name) /\ {} \in SUBSET (Name \X Tx)
    OBVIOUS
  <2>2. collection \in Seq(Entries)
    BY <1>1, <2>1, LoadFacts
  <2> QED  BY <1>1, <2>1, <2>2 DEF Collections
<1>5. MempoolInStep
  BY <1>1 DEF MempoolInStep, Agrees
<1>6. NOT_IN_BLOCK # None
  <2>1. None \notin Int
    BY TxAssumption
  <2> QED  BY <2>1 DEF NOT_IN_BLOCK
<1>7. UtxoInStep
  BY <1>1, <1>2, <1>6 DEF UtxoInStep
<1>8. ChainOrdered
  BY <1>1, <1>2 DEF ChainOrdered
<1>9. HeadersInStep
  <2>1. Len(chan) = 0 /\ \A b \in Blk : tBlocks[b] = None
    BY <1>1, <1>2
  <2>2. None \notin Nat
    BY TxAssumption
  <2> QED  BY <2>1, <2>2 DEF HeadersInStep
<1> QED  BY <1>3, <1>4, <1>5, <1>7, <1>8, <1>9 DEF IInv

(* process_collection: what a collection takes has its row.                 *)
LEMMA ProcessCollectionInv ==
    ASSUME NEW t \in Tx, NEW broadcast \in BOOLEAN, Collections, ProcessCollection(t, broadcast),
           dynamic' = dynamic, configFile' = configFile
    PROVE  Collections'
<1> DEFINE i == Taker(t, broadcast)
<1>0. collection \in Seq(Entries) /\ DOMAIN collection = 1..Len(collection)
  BY DEF Collections
<1>1. CASE i = None
  <2>1. collection' = collection /\ tCollection' = tCollection
    BY <1>1 DEF ProcessCollection
  <2> QED  BY <2>1 DEF Collections
<1>2. CASE i # None
  <2> DEFINE hits == {k \in DOMAIN collection : t \in collection[k].txs \/ Wants(collection[k], t)}
             named == {k \in DOMAIN collection : collection[k].name = "broadcast"}
  <2>1. hits \in SUBSET Nat /\ named \in SUBSET Nat
    BY <1>0
  <2>2. i \in 1..Len(collection)
    <3>1. (i = Min(hits) /\ hits # {}) \/ (i = Min(named) /\ named # {})
      <4>1. i = IF hits # {} THEN IF t \in collection[Min(hits)].txs THEN None ELSE Min(hits)
                ELSE IF broadcast /\ named # {} THEN Min(named) ELSE None
        BY DEF Taker
      <4> HIDE DEF i, hits, named
      <4> QED  BY <1>2, <4>1
    <3>2. hits # {} => Min(hits) \in hits
      BY <2>1, MinIsLeast
    <3>3. named # {} => Min(named) \in named
      BY <2>1, MinIsLeast
    <3>4. hits \subseteq DOMAIN collection /\ named \subseteq DOMAIN collection
      OBVIOUS
    <3> HIDE DEF hits, named
    <3> QED  BY <1>0, <3>1, <3>2, <3>3, <3>4
  <2>3. /\ collection' = [collection EXCEPT ![i].txs = @ \cup {t}]
        /\ tCollection' \in {tCollection, tCollection \cup {<<collection[i].name, t>>}}
    BY <1>2 DEF ProcessCollection
  <2> HIDE DEF i
  <2>4. collection[i] \in Entries /\ collection[i].name \in Name /\ collection[i].txs \in SUBSET Tx
    <3>1. collection[i] \in Entries
      BY <1>0, <2>2
    <3> QED  BY <3>1 DEF Entries
  <2>5. /\ collection' \in Seq(Entries) /\ Len(collection') = Len(collection)
        /\ DOMAIN collection' = 1..Len(collection)
        /\ collection'[i].name = collection[i].name /\ collection'[i].txs = collection[i].txs \cup {t}
        /\ \A k \in 1..Len(collection) : k # i => collection'[k] = collection[k]
    <3> DEFINE e == [collection[i] EXCEPT !.txs = @ \cup {t}]
    <3>1. e \in Entries /\ e.name = collection[i].name /\ e.txs = collection[i].txs \cup {t}
      BY <2>4 DEF Entries
    <3>2. collection' = [collection EXCEPT ![i] = e]
      BY <2>3
    <3> HIDE DEF e
    <3>3. /\ collection' \in Seq(Entries) /\ Len(collection') = Len(collection)
          /\ DOMAIN collection' = 1..Len(collection) /\ collection'[i] = e
          /\ \A k \in 1..Len(collection) : k # i => collection'[k] = collection[k]
      BY <1>0, <2>2, <3>1, <3>2
    <3> QED  BY <3>1, <3>3
  <2>6. tCollection' \subseteq Name \X Tx
    BY <2>3, <2>4 DEF Collections
  <2>8. \A k \in 1..Len(collection) : collection'[k].name = collection[k].name
    BY <2>5
  <2> QED  BY <2>5, <2>6, <2>8 DEF Collections
<1> QED  BY <1>1, <1>2

(* A step that leaves collections and configuration.                        *)
LEMMA CollectionsUnchanged ==
    ASSUME Collections, UNCHANGED <<collection, tCollection, dynamic, configFile>>
    PROVE  Collections'
BY DEF Collections

(* add_monitor: a name that is not there yet joins collections and          *)
(* configuration.                                                           *)
LEMMA AddMonitorInv == ASSUME NEW m \in Monitors, IInv, AddMonitor(m)  PROVE Collections'
<1> DEFINE new == [name |-> m, txs |-> {}]
<1>1. /\ collection \in Seq(Entries) /\ DOMAIN collection = 1..Len(collection)
      /\ dynamic \in Seq(Name) /\ m \in Name /\ new \in Entries
      /\ \A i \in 1..Len(collection) : collection[i].name # m
  BY DEF IInv, Collections, AddMonitor, Name, Entries
<1>2. /\ collection' = Append(collection, new) /\ dynamic' = Append(dynamic, m)
      /\ configFile' = dynamic' /\ tCollection' = tCollection
  BY DEF AddMonitor
<1> HIDE DEF new
<1>3. /\ collection' \in Seq(Entries) /\ Len(collection') = Len(collection) + 1
      /\ collection'[Len(collection) + 1] = new
      /\ \A i \in 1..Len(collection) : collection'[i] = collection[i]
      /\ DOMAIN collection' = 1..Len(collection')
  BY <1>1, <1>2
<1>4. /\ dynamic' \in Seq(Name) /\ Len(dynamic') = Len(dynamic) + 1
      /\ dynamic'[Len(dynamic) + 1] = m
      /\ \A i \in 1..Len(dynamic) : dynamic'[i] = dynamic[i]
  BY <1>1, <1>2
<1>5. new.name = m /\ new.txs = {}
  BY DEF new
<1>6. \A i \in 1..Len(dynamic) : dynamic[i] # m
  BY <1>1 DEF IInv, Collections
<1>7. \A i, j \in 1..Len(dynamic') : dynamic'[i] = dynamic'[j] => i = j
  <2> SUFFICES ASSUME NEW i \in 1..Len(dynamic'), NEW j \in 1..Len(dynamic'),
                      dynamic'[i] = dynamic'[j]
               PROVE  i = j
    OBVIOUS
  <2>1. (i \in 1..Len(dynamic) \/ i = Len(dynamic) + 1) /\ (j \in 1..Len(dynamic) \/ j = Len(dynamic) + 1)
    BY <1>1, <1>4
  <2> QED  BY <1>4, <1>6, <2>1 DEF IInv, Collections
<1>8. ASSUME NEW i \in 1..Len(dynamic')
      PROVE  \E j \in 1..Len(collection') : collection'[j].name = dynamic'[i]
  <2>1. CASE i = Len(dynamic) + 1
    <3>1. Len(collection) + 1 \in 1..Len(collection')
      BY <1>1, <1>3
    <3> QED  BY <1>3, <1>4, <1>5, <2>1, <3>1
  <2>2. CASE i # Len(dynamic) + 1
    <3>1. i \in 1..Len(dynamic)
      BY <1>1, <1>4, <2>2
    <3>2. PICK j \in 1..Len(collection) : collection[j].name = dynamic[i]
      BY <3>1 DEF IInv, Collections
    <3>3. j \in 1..Len(collection') /\ collection'[j].name = dynamic'[i]
      BY <1>1, <1>3, <1>4, <3>1, <3>2
    <3> QED  BY <3>3
  <2> QED  BY <2>1, <2>2
<1> QED  BY <1>2, <1>3, <1>4, <1>7, <1>8 DEF IInv, Collections

(* delete_monitor: the name leaves configuration and collections.           *)
LEMMA DeleteMonitorInv == ASSUME NEW m \in Monitors, IInv, DeleteMonitor(m)  PROVE Collections'
<1> DEFINE T == {i \in DOMAIN collection : collection[i].name = m}
<1>1. /\ collection \in Seq(Entries) /\ DOMAIN collection = 1..Len(collection)
      /\ dynamic \in Seq(Name) /\ DOMAIN dynamic = 1..Len(dynamic)
  BY DEF IInv, Collections
<1>2. \E i \in 1..Len(dynamic) : dynamic[i] = m
  BY <1>1 DEF DeleteMonitor, Range
<1>3. T # {} /\ T \in SUBSET Nat
  <2>1. PICK i \in 1..Len(dynamic) : dynamic[i] = m
    BY <1>2
  <2>2. PICK j \in 1..Len(collection) : collection[j].name = m
    BY <2>1 DEF IInv, Collections
  <2>3. j \in T
    BY <1>1, <2>2
  <2>4. T \in SUBSET Nat
    BY <1>1
  <2> QED  BY <2>3, <2>4
<1>4. PICK f \in 1..Len(collection) : f = Min(T) /\ collection[f].name = m
  BY <1>1, <1>3, MinIsLeast
<1>5. /\ collection' = RemoveAt(collection, f) /\ dynamic' = RemoveFirst(dynamic, m)
      /\ configFile' = dynamic' /\ tCollection' = tCollection
  BY <1>4 DEF DeleteMonitor
<1>6. PICK k \in 1..Len(dynamic) : dynamic[k] = m /\ dynamic' = RemoveAt(dynamic, k)
  BY <1>1, <1>2, <1>5, RemoveFirstIs
<1>7. /\ collection' \in Seq(Entries) /\ Len(collection') = Len(collection) - 1
      /\ \A i \in 1..(Len(collection) - 1) :
            collection'[i] = IF i < f THEN collection[i] ELSE collection[i + 1]
  BY <1>1, <1>5, RemoveAtFacts
<1>8. /\ dynamic' \in Seq(Name) /\ Len(dynamic') = Len(dynamic) - 1
      /\ \A i \in 1..(Len(dynamic) - 1) : dynamic'[i] = IF i < k THEN dynamic[i] ELSE dynamic[i + 1]
  BY <1>1, <1>6, RemoveAtFacts
<1>9. Len(collection) \in Nat /\ Len(dynamic) \in Nat
  BY <1>1
<1>10. \A i, j \in 1..Len(dynamic) : dynamic[i] = dynamic[j] => i = j
  BY DEF IInv, Collections
<1>11. \A i, j \in 1..Len(dynamic') : dynamic'[i] = dynamic'[j] => i = j
  <2> SUFFICES ASSUME NEW i \in 1..Len(dynamic'), NEW j \in 1..Len(dynamic'),
                      dynamic'[i] = dynamic'[j]
               PROVE  i = j
    OBVIOUS
  <2> DEFINE p == IF i < k THEN i ELSE i + 1
             q == IF j < k THEN j ELSE j + 1
  <2>1. p \in 1..Len(dynamic) /\ q \in 1..Len(dynamic) /\ dynamic'[i] = dynamic[p] /\ dynamic'[j] = dynamic[q]
    BY <1>8, <1>9
  <2>2. p = q
    BY <1>10, <2>1
  <2> QED  BY <1>8, <1>9, <2>2
<1>12. ASSUME NEW i \in 1..Len(dynamic')
       PROVE  \E j \in 1..Len(collection') : collection'[j].name = dynamic'[i]
  <2> DEFINE p == IF i < k THEN i ELSE i + 1
  <2>1. p \in 1..Len(dynamic) /\ dynamic'[i] = dynamic[p] /\ p # k
    BY <1>8, <1>9
  <2>2. dynamic[p] # m
    BY <1>6, <1>10, <2>1
  <2> HIDE DEF p
  <2>3. PICK g \in 1..Len(collection) : collection[g].name = dynamic[p]
    BY <2>1 DEF IInv, Collections
  <2>4. g # f
    BY <1>4, <2>2, <2>3
  <2>5. CASE g < f
    <3>1. g \in 1..Len(collection') /\ collection'[g] = collection[g]
      BY <1>7, <1>9, <2>5
    <3> QED  BY <2>1, <2>3, <3>1
  <2>6. CASE g > f
    <3>1. g - 1 \in 1..Len(collection') /\ collection'[g - 1] = collection[(g - 1) + 1] /\ (g - 1) + 1 = g
      BY <1>7, <1>9, <2>6
    <3> QED  BY <2>1, <2>3, <3>1
  <2> QED  BY <2>4, <2>5, <2>6
<1> QED  BY <1>5, <1>7, <1>8, <1>11, <1>12 DEF IInv, Collections


-----------------------------------------------------------------------------
(* The operations of a block.                                               *)
LEMMA OnBlockOpsFacts ==
    ASSUME NEW b \in Blk, Types, height \in Nat
    PROVE  LET s == OnBlockOps(b)
               mined == mempool \cap Range(Txns[b])
           IN
           /\ s \in Seq(Ops) /\ Len(s) \in {4, 5} /\ s[1] = Op("BlockHeaderWrite", <<b, height>>)
           /\ s[2] = Op("UtxoBatchWrite", UtxoRows(utxo_entries, utxo)) /\ s[3].op = "UtxoBatchDelete"
           /\ s[4] = Op("MempoolBatchDelete", mined)
           /\ Len(s) = 5 => s[5].op = "TxBatchWrite"
<1> DEFINE h == Op("BlockHeaderWrite", <<b, height>>)
           rows == UtxoRows(utxo_entries, utxo)
           mined == mempool \cap Range(Txns[b])
           entries == [i \in DOMAIN Txns[b] |-> <<Txns[b][i], height>>]
           f == FlushDatabaseCache(rows, mined, entries)
           s == OnBlockOps(b)
<1>1. h \in Ops
  BY DEF Ops, Op, OpNames, OpRows
<1>2. rows \in SUBSET (Outpoint \X {NOT_IN_BLOCK}) /\ mined \in SUBSET Tx
  BY UtxoRowsFacts DEF Types
<1>3. entries \in Seq(Tx \X Nat)
  <2>1. Txns[b] \in Seq(Tx)
    BY TxAssumption
  <2>2. DOMAIN Txns[b] = 1..Len(Txns[b]) /\ \A i \in 1..Len(Txns[b]) : Txns[b][i] \in Tx
    BY <2>1
  <2>3. \A i \in 1..Len(Txns[b]) : <<Txns[b][i], height>> \in Tx \X Nat
    BY <2>2
  <2> QED  BY <2>1, <2>2, <2>3
<1> HIDE DEF rows, mined, entries
<1>4. /\ f \in Seq(Ops) /\ Len(f) \in {3, 4}
      /\ f[1] = Op("UtxoBatchWrite", rows) /\ f[2] = Op("UtxoBatchDelete", {})
      /\ f[3] = Op("MempoolBatchDelete", mined)
      /\ Len(f) = 4 => f[4] = Op("TxBatchWrite", entries)
  BY <1>2, <1>3, FlushOps, ZenonT(60)
<1>5. s = <<h>> \o f
  BY DEF OnBlockOps, rows, mined, entries
<1>6. f[2].op = "UtxoBatchDelete" /\ (Len(f) = 4 => f[4].op = "TxBatchWrite")
  BY <1>4 DEF Op
<1> HIDE DEF h, f, s
<1>7. /\ s \in Seq(Ops) /\ Len(s) = 1 + Len(f) /\ s[1] = h
      /\ \A k \in 1..Len(f) : s[k + 1] = f[k]
  BY <1>1, <1>4, <1>5
<1>8. /\ s[2] = f[1] /\ s[3] = f[2] /\ s[4] = f[3] /\ Len(s) \in {4, 5}
      /\ Len(s) = 5 => Len(f) = 4 /\ s[5] = f[4]
  <2>1. CASE Len(f) = 3
    BY <1>7, <2>1
  <2>2. CASE Len(f) = 4
    BY <1>7, <2>2
  <2> QED  BY <1>4, <2>1, <2>2
<1> QED  BY <1>4, <1>6, <1>7, <1>8 DEF h, rows, mined, s

(* No block in memory has a height above the others'.                       *)
LEMMA NextHeightFree ==
    ASSUME ChainOrdered, NEW b \in Blk
    PROVE  hash_to_index[b] # height
BY TxAssumption DEF ChainOrdered

(* A block: its header is taken, and its rows are sent, the outputs behind  *)
(* the header.                                                              *)
LEMMA OnBlockInv ==
    ASSUME NEW b \in Blk, IInv, OnBlock(b)
    PROVE  Types' /\ MempoolInStep' /\ UtxoInStep' /\ ChainOrdered' /\ HeadersInStep'
<1> DEFINE mined == mempool \cap Range(Txns[b])
           rows == UtxoRows(utxo_entries, utxo)
           s == OnBlockOps(b)
<1>1. /\ hash_to_index[b] = None /\ chain' = Append(chain, b)
      /\ hash_to_index' = [hash_to_index EXCEPT ![b] = height] /\ height' = height + 1
      /\ last_hash_processed' = b /\ mempool' = mempool \ Range(Txns[b])
      /\ txs' = IF SaveTxs THEN [t \in Tx |-> IF t \in Range(Txns[b]) THEN height ELSE txs[t]] ELSE txs
      /\ utxo_entries' = {} /\ risked' = risked \ utxo_entries /\ chan' = chan \o s
      /\ UNCHANGED <<utxo, ready, tMempool, tTx, tUtxo, tBlocks, failed, missed>>
  BY DEF OnBlock, tables
<1>2. /\ Types /\ MempoolInStep /\ UtxoInStep /\ ChainOrdered /\ HeadersInStep /\ chan \in Seq(Ops)
      /\ tBlocks \in [Blk -> Nat \cup {None}] /\ ready \in BOOLEAN /\ height \in Nat
      /\ hash_to_index \in [Blk -> Nat \cup {None}] /\ chain \in Seq(Blk)
  BY DEF IInv, Types, ChainOrdered
<1>3. \A o : (\E r \in rows : r[1] = o) <=> o \in utxo_entries
  BY <1>2, UtxoRowsFacts DEF Types
<1>4. /\ s \in Seq(Ops) /\ Len(s) \in {4, 5} /\ s[1] = Op("BlockHeaderWrite", <<b, height>>)
      /\ s[2] = Op("UtxoBatchWrite", rows) /\ s[3].op = "UtxoBatchDelete"
      /\ s[4] = Op("MempoolBatchDelete", mined)
      /\ Len(s) = 5 => s[5].op = "TxBatchWrite"
  BY <1>2, OnBlockOpsFacts
<1> HIDE DEF s, rows
<1>5. /\ s[1].op = "BlockHeaderWrite" /\ s[1].rows = <<b, height>>
      /\ s[2].op = "UtxoBatchWrite" /\ s[2].rows = rows /\ s[4].op = "MempoolBatchDelete" /\ s[4].rows = mined
  BY <1>4 DEF Op
<1>6. \A k \in 1..Len(s) : k \in {1, 2, 3, 4} \/ (Len(s) = 5 /\ k = 5)
  <2>1. CASE Len(s) = 4
    BY <2>1
  <2>2. CASE Len(s) = 5
    BY <2>2
  <2> QED  BY <1>4, <2>1, <2>2
<1>7. Len(s) >= 1 /\ 1 \in 1..Len(s) /\ 2 \in 2..Len(s) /\ 4 \in 1..Len(s) /\ \A k \in 1..(Len(s) - 1) : k \in {1, 2, 3, 4}
  <2>1. CASE Len(s) = 4
    BY <2>1
  <2>2. CASE Len(s) = 5
    BY <2>2
  <2> QED  BY <1>4, <2>1, <2>2
<1>8. Types'
  <2>1. /\ chan' \in Seq(Ops)
        /\ \A i \in 1..(Len(chan') - 1) : chan'[i].op = "TxBatchWrite" => chan'[i + 1].op # "TxBatchWrite"
    <3>1. \A k \in 1..(Len(s) - 1) : s[k].op # "TxBatchWrite"
      BY <1>4, <1>5, <1>7
    <3> QED  BY <1>1, <1>2, <1>4, <1>5, <1>7, <3>1, SendTypes
  <2>2. mempool' \subseteq Tx /\ utxo_entries' \subseteq {o \in Outpoint : utxo'[o] = NOT_IN_BLOCK}
    BY <1>1, <1>2 DEF Types
  <2>3. Rows' = Rows
    BY <1>1 DEF Rows
  <2>4. txs' \in [Tx -> Nat \cup {None}]
    BY <1>1, <1>2 DEF Types
  <2>5. ready' \in BOOLEAN
    BY <1>1, <1>2
  <2> QED  BY <1>1, <1>2, <2>1, <2>2, <2>3, <2>4, <2>5 DEF Types
<1>9. MempoolInStep'
  <2>1. \A u \in Tx, k \in 1..Len(s) : ~Writes(s[k], u) /\ (Deletes(s[k], u) <=> k = 4 /\ u \in mined)
    BY <1>4, <1>5, <1>6 DEF Writes, Deletes
  <2>2. ASSUME NEW u \in Tx
        PROVE  \/ /\ \A k \in 1..Len(s) : ~About(s[k], u)
                  /\ u \in mempool' <=> u \in mempool
               \/ /\ \E k \in 1..Len(s) : About(s[k], u)
                  /\ \A k \in 1..Len(s) : /\ Writes(s[k], u) => u \in mempool'
                                          /\ Deletes(s[k], u) => u \notin mempool'
    <3>1. CASE u \in mined
      <4>1. u \notin mempool' /\ About(s[4], u)
        BY <1>1, <1>7, <2>1, <3>1 DEF About
      <4> QED  BY <1>7, <2>1, <4>1
    <3>2. CASE u \notin mined
      BY <1>1, <2>1, <3>2 DEF About
    <3> QED  BY <3>1, <3>2
  <2> QED  BY <1>1, <1>2, <1>4, <2>2, SendMempool
<1>10. UtxoInStep'
  <2>1. ASSUME NEW o \in Outpoint, NEW k \in 1..Len(s), WritesOut(s[k], o)  PROVE utxo'[o] = NOT_IN_BLOCK
    <3>1. k = 2
      BY <1>4, <1>5, <1>6, <2>1 DEF WritesOut
    <3>2. o \in utxo_entries
      BY <1>3, <1>5, <2>1, <3>1 DEF WritesOut
    <3> QED  BY <1>1, <1>2, <3>2 DEF Types
  <2>2. ASSUME NEW o \in Outpoint, utxo'[o] = NOT_IN_BLOCK
        PROVE  \/ o \in utxo_entries' \/ o \in risked'
               \/ utxo[o] = NOT_IN_BLOCK /\ o \notin utxo_entries /\ o \notin risked
               \/ \E k \in 2..Len(s) : WritesOut(s[k], o) /\ s[k - 1].op \notin Batches
    <3>1. CASE o \in utxo_entries
      <4>1. WritesOut(s[2], o)
        BY <1>3, <1>5, <3>1 DEF WritesOut
      <4>2. s[2 - 1].op \notin Batches
        BY <1>5 DEF Batches
      <4> QED  BY <1>7, <4>1, <4>2
    <3>2. CASE o \notin utxo_entries
      BY <1>1, <2>2, <3>2
    <3> QED  BY <3>1, <3>2
  <2> QED  BY <1>1, <1>2, <1>4, <2>1, <2>2, SendUtxo
<1>11. ChainOrdered'
  <2>1. /\ chain' \in Seq(Blk) /\ Len(chain) \in Nat /\ Len(chain') = Len(chain) + 1
        /\ chain'[Len(chain) + 1] = b /\ \A i \in 1..Len(chain) : chain'[i] = chain[i]
    BY <1>1, <1>2
  <2>2. hash_to_index' \in [Blk -> Nat \cup {None}] /\ hash_to_index'[b] = height
        /\ \A x \in Blk : x # b => hash_to_index'[x] = hash_to_index[x]
    BY <1>1, <1>2
  <2>3. \A i \in 1..Len(chain) : /\ chain[i] \in Blk /\ chain[i] # b
                                 /\ hash_to_index[chain[i]] \in Nat /\ hash_to_index[chain[i]] < height
    <3>1. None \notin Nat
      BY TxAssumption
    <3> QED  BY <1>1, <1>2, <3>1 DEF ChainOrdered
  <2>4. \A i \in 1..Len(chain') : i \in 1..Len(chain) \/ i = Len(chain) + 1
    BY <2>1
  <2>5. \A x \in Blk : hash_to_index'[x] # None => \E i \in 1..Len(chain') : chain'[i] = x
    <3> SUFFICES ASSUME NEW x \in Blk, hash_to_index'[x] # None
                 PROVE  \E i \in 1..Len(chain') : chain'[i] = x
      OBVIOUS
    <3>1. CASE x = b
      <4>1. Len(chain) + 1 \in 1..Len(chain')
        BY <2>1
      <4> QED  BY <2>1, <3>1, <4>1
    <3>2. CASE x # b
      <4>1. PICK i \in 1..Len(chain) : chain[i] = x
        BY <1>2, <2>2, <3>2 DEF ChainOrdered
      <4>2. i \in 1..Len(chain')
        BY <2>1
      <4> QED  BY <2>1, <4>1, <4>2
    <3> QED  BY <3>1, <3>2
  <2>6. \A i \in 1..Len(chain') : hash_to_index'[chain'[i]] \in Nat /\ hash_to_index'[chain'[i]] < height'
    <3>1. ASSUME NEW i \in 1..Len(chain)
          PROVE  hash_to_index'[chain'[i]] \in Nat /\ hash_to_index'[chain'[i]] < height'
      <4>1. hash_to_index'[chain'[i]] = hash_to_index[chain[i]]
        BY <2>1, <2>2, <2>3
      <4> QED  BY <1>1, <1>2, <2>3, <4>1
    <3>2. hash_to_index'[chain'[Len(chain) + 1]] = height
      BY <2>1, <2>2
    <3> QED  BY <1>1, <1>2, <2>4, <3>1, <3>2
  <2>7. \A i, j \in 1..Len(chain') : i < j => hash_to_index'[chain'[i]] < hash_to_index'[chain'[j]]
    <3> SUFFICES ASSUME NEW i \in 1..Len(chain'), NEW j \in 1..Len(chain'), i < j
                 PROVE  hash_to_index'[chain'[i]] < hash_to_index'[chain'[j]]
      OBVIOUS
    <3>1. i \in 1..Len(chain)
      BY <2>1, <2>4
    <3>2. hash_to_index'[chain'[i]] = hash_to_index[chain[i]]
      BY <2>1, <2>2, <2>3, <3>1
    <3>3. CASE j \in 1..Len(chain)
      <4>1. hash_to_index'[chain'[j]] = hash_to_index[chain[j]]
        BY <2>1, <2>2, <2>3, <3>3
      <4> QED  BY <1>2, <3>1, <3>2, <3>3, <4>1 DEF ChainOrdered
    <3>4. CASE j = Len(chain) + 1
      <4>1. hash_to_index'[chain'[j]] = height
        BY <2>1, <2>2, <3>4
      <4> QED  BY <2>3, <3>1, <3>2, <4>1
    <3> QED  BY <2>4, <3>3, <3>4
  <2>8. height' \in Nat
    BY <1>1, <1>2
  <2> QED  BY <2>1, <2>2, <2>5, <2>6, <2>7, <2>8 DEF ChainOrdered
<1>12. HeadersInStep'
  <2>1. \A x \in Blk, h \in Nat, k \in 1..Len(s) :
          /\ Header(s[k], x, h) => k = 1 /\ x = b /\ h = height
          /\ Claims(s[k], h) => k = 1 /\ h = height
          /\ ~HeaderGone(s[k], x)
    <3>1. ASSUME NEW x \in Blk, NEW h \in Nat, NEW k \in 1..Len(s)
          PROVE  (Header(s[k], x, h) => k = 1 /\ x = b /\ h = height) /\ ~HeaderGone(s[k], x)
      <4>1. s[k].op = "BlockHeaderWrite" => k = 1
        BY <1>4, <1>5, <1>6
      <4>2. s[k].op # "BlockHeaderDelete"
        BY <1>4, <1>5, <1>6
      <4>3. <<b, height>> = <<x, h>> => x = b /\ h = height
        OBVIOUS
      <4> QED  BY <1>5, <4>1, <4>2, <4>3 DEF Header, HeaderGone
    <3>2. ASSUME NEW h \in Nat, NEW k \in 1..Len(s), Claims(s[k], h)  PROVE k = 1 /\ h = height
      <4>1. s[k].op # "TxDelete"
        BY <1>4, <1>5, <1>6
      <4> QED  BY <3>1, <3>2, <4>1 DEF Claims
    <3> QED  BY <3>1, <3>2
  <2>2. \A x \in Blk : hash_to_index[x] # height
    BY <1>2, NextHeightFree
  <2>3. hash_to_index'[b] = height /\ \A x \in Blk : hash_to_index[x] # None => hash_to_index'[x] = hash_to_index[x]
    BY <1>1, <1>2
  <2>4. \A x \in Blk : (\A k \in 1..Len(s) : ~HeaderGone(s[k], x)) =>
              /\ hash_to_index[x] # None => hash_to_index'[x] = hash_to_index[x]
              /\ \A h \in Nat : \A k \in 1..Len(s) : Header(s[k], x, h) => hash_to_index'[x] = h
    BY <2>1, <2>3
  <2>5. \A x \in Blk, h \in Nat : \A j, k \in 1..Len(s) :
              Header(s[j], x, h) => ~HeaderGone(s[k], x) /\ (j < k => ~Claims(s[k], h))
    BY <2>1
  <2> QED  BY <1>1, <1>2, <1>4, <2>1, <2>2, <2>4, <2>5, SendHeaders, ZenonT(60)
<1> QED  BY <1>8, <1>9, <1>10, <1>11, <1>12

(* Removing by a height that nothing has changes nothing.                   *)
LEMMA NothingAtHeight ==
    ASSUME NEW f \in [Outpoint -> Heights], NEW h \in Nat
    PROVE  RemoveAtHeight(f, h) = f
<1>1. NOT_IN_BLOCK # h /\ None # h
  <2>1. NOT_IN_BLOCK # h
    BY DEF NOT_IN_BLOCK
  <2>2. None # h
    BY TxAssumption
  <2> QED  BY <2>1, <2>2
<1>2. \A o \in Outpoint : f[o] # h
  BY <1>1 DEF Heights
<1> QED  BY <1>2 DEF RemoveAtHeight

(* Removing by height leaves heights.                                       *)
LEMMA RemoveAtHeightType ==
    ASSUME NEW f \in [Tx -> Nat \cup {None}], NEW h
    PROVE  RemoveAtHeight(f, h) \in [Tx -> Nat \cup {None}]
BY DEF RemoveAtHeight

(* The operations of a roll-back.                                           *)
LEMMA OrphanOpsFacts ==
    ASSUME NEW b \in Blk, height \in Nat
    PROVE  LET s == OrphanOps(b) IN
           /\ s \in Seq(Ops) /\ Len(s) = 4
           /\ s[1].op = "OrphanBlockHeaderWrite"
           /\ s[2].op = "BlockHeaderDelete" /\ s[2].rows = b
           /\ s[3].op = "TxDelete" /\ s[3].rows = height
           /\ s[4].op = "UtxoDelete"
<1> DEFINE a == Op("OrphanBlockHeaderWrite", b)
           c == Op("BlockHeaderDelete", b)
           d == Op("TxDelete", height)
           e == Op("UtxoDelete", height)
<1>1. a \in Ops /\ c \in Ops /\ d \in Ops /\ e \in Ops
  BY DEF Ops, Op, OpNames, OpRows
<1>2. /\ a.op = "OrphanBlockHeaderWrite" /\ c.op = "BlockHeaderDelete" /\ c.rows = b
      /\ d.op = "TxDelete" /\ d.rows = height /\ e.op = "UtxoDelete"
  BY DEF Op
<1>3. OrphanOps(b) = <<a, c, d, e>>
  BY DEF OrphanOps
<1> HIDE DEF a, c, d, e
<1> QED  BY <1>1, <1>2, <1>3

(* A roll-back: the last header leaves memory, and its deletion is sent     *)
(* behind the orphan row.                                                   *)
LEMMA HandleOrphanBlockInv ==
    ASSUME IInv, HandleOrphanBlock
    PROVE  Types' /\ MempoolInStep' /\ UtxoInStep' /\ ChainOrdered' /\ HeadersInStep'
<1> DEFINE n == Len(chain)
           b == chain[n]
           s == OrphanOps(b)
<1>1. /\ chain # <<>> /\ chain' = SubSeq(chain, 1, n - 1)
      /\ hash_to_index' = [hash_to_index EXCEPT ![b] = None] /\ height' = height - 1
      /\ txs' = RemoveAtHeight(txs, height) /\ utxo' = RemoveAtHeight(utxo, height)
      /\ chan' = chan \o s
      /\ UNCHANGED <<mempool, utxo_entries, last_hash_processed, ready, tMempool, tTx, tUtxo, tBlocks,
                     failed, missed, risked>>
  BY DEF HandleOrphanBlock, tables, history
<1>2. /\ Types /\ MempoolInStep /\ UtxoInStep /\ ChainOrdered /\ HeadersInStep /\ chan \in Seq(Ops)
      /\ tBlocks \in [Blk -> Nat \cup {None}] /\ ready \in BOOLEAN /\ height \in Nat
      /\ hash_to_index \in [Blk -> Nat \cup {None}] /\ chain \in Seq(Blk)
      /\ txs \in [Tx -> Nat \cup {None}] /\ utxo \in [Outpoint -> Heights]
  BY DEF IInv, Types, ChainOrdered
<1>3. n \in Nat \ {0} /\ n \in 1..n /\ b \in Blk /\ n - 1 \in 0..n
  BY <1>1, <1>2
<1> HIDE DEF n, b
<1>4. /\ s \in Seq(Ops) /\ Len(s) = 4
      /\ s[1].op = "OrphanBlockHeaderWrite"
      /\ s[2].op = "BlockHeaderDelete" /\ s[2].rows = b
      /\ s[3].op = "TxDelete" /\ s[3].rows = height
      /\ s[4].op = "UtxoDelete"
  BY <1>2, <1>3, OrphanOpsFacts
<1> HIDE DEF s
<1>5. /\ Len(s) >= 1 /\ 2 \in 2..Len(s) /\ \A k \in 1..Len(s) : k \in {1, 2, 3, 4}
      /\ \A k \in 1..(Len(s) - 1) : k \in {1, 2, 3, 4}
  BY <1>4
<1>6. utxo' = utxo
  BY <1>1, <1>2, NothingAtHeight
<1>7. Types'
  <2>1. /\ chan' \in Seq(Ops)
        /\ \A i \in 1..(Len(chan') - 1) : chan'[i].op = "TxBatchWrite" => chan'[i + 1].op # "TxBatchWrite"
    <3>1. \A k \in 1..(Len(s) - 1) : s[k].op # "TxBatchWrite"
      BY <1>4, <1>5
    <3> QED  BY <1>1, <1>2, <1>4, <1>5, <3>1, SendTypes
  <2>2. Rows' = Rows
    BY <1>1 DEF Rows
  <2>3. txs' \in [Tx -> Nat \cup {None}]
    BY <1>1, <1>2, RemoveAtHeightType
  <2>4. ready' \in BOOLEAN
    BY <1>1, <1>2
  <2> QED  BY <1>1, <1>2, <1>6, <2>1, <2>2, <2>3, <2>4 DEF Types
<1>8. MempoolInStep'
  <2>1. \A u \in Tx, k \in 1..Len(s) : ~About(s[k], u)
    BY <1>4, <1>5 DEF About, Writes, Deletes
  <2> QED  BY <1>1, <1>2, <1>4, <2>1, SendMempool
<1>9. UtxoInStep'
  <2>1. \A o \in Outpoint, k \in 1..Len(s) : ~WritesOut(s[k], o)
    BY <1>4, <1>5 DEF WritesOut
  <2>2. ASSUME NEW o \in Outpoint, utxo'[o] = NOT_IN_BLOCK
        PROVE  \/ o \in utxo_entries' \/ o \in risked'
               \/ utxo[o] = NOT_IN_BLOCK /\ o \notin utxo_entries /\ o \notin risked
    BY <1>1, <1>6, <2>2
  <2> QED  BY <1>1, <1>2, <1>4, <1>6, <2>1, <2>2, SendUtxo
<1>10. /\ \A i \in 1..n : chain[i] \in Blk /\ hash_to_index[chain[i]] \in Nat /\ hash_to_index[chain[i]] < height
       /\ \A i, j \in 1..n : i < j => hash_to_index[chain[i]] < hash_to_index[chain[j]]
       /\ \A x \in Blk : hash_to_index[x] # None => \E i \in 1..n : chain[i] = x
  BY <1>2 DEF ChainOrdered, n
<1>11. hash_to_index' \in [Blk -> Nat \cup {None}] /\ hash_to_index'[b] = None
       /\ \A x \in Blk : x # b => hash_to_index'[x] = hash_to_index[x]
  BY <1>1, <1>2, <1>3
<1>12. ChainOrdered'
  <2>1. chain' \in Seq(Blk) /\ Len(chain') = n - 1 /\ \A i \in 1..(n - 1) : chain'[i] = chain[i]
    BY <1>1, <1>2, <1>3, FrontFacts, ZenonT(60) DEF n
  <2>2. ASSUME NEW i \in 1..(n - 1)
        PROVE  /\ i \in 1..n /\ chain[i] # b /\ hash_to_index[chain[i]] < hash_to_index[b]
               /\ hash_to_index'[chain'[i]] = hash_to_index[chain[i]]
    <3>1. i \in 1..n /\ i < n
      BY <1>3
    <3>2. /\ hash_to_index[chain[i]] < hash_to_index[b] /\ hash_to_index[b] \in Nat
          /\ hash_to_index[chain[i]] \in Nat /\ chain[i] \in Blk
      BY <1>3, <1>10, <3>1 DEF b
    <3>3. chain[i] # b
      BY <3>2
    <3> QED  BY <1>11, <2>1, <3>1, <3>2, <3>3
  <2>3. hash_to_index[b] \in Nat /\ hash_to_index[b] < height
    BY <1>3, <1>10 DEF b
  <2>4. height' \in Nat
    BY <1>1, <1>2, <2>3
  <2>5. \A i \in 1..(n - 1) : hash_to_index'[chain'[i]] \in Nat /\ hash_to_index'[chain'[i]] < height'
    <3> TAKE i \in 1..(n - 1)
    <3>1. hash_to_index[chain[i]] \in Nat /\ hash_to_index[chain[i]] < hash_to_index[b]
      BY <1>10, <2>2
    <3>2. hash_to_index[chain[i]] < height'
      BY <1>1, <1>2, <2>3, <3>1
    <3> QED  BY <2>2, <3>1, <3>2
  <2>6. \A i, j \in 1..(n - 1) : i < j => hash_to_index'[chain'[i]] < hash_to_index'[chain'[j]]
    BY <1>10, <2>2
  <2>7. ASSUME NEW x \in Blk, hash_to_index'[x] # None  PROVE \E i \in 1..(n - 1) : chain'[i] = x
    <3>1. x # b /\ hash_to_index[x] # None
      BY <1>11, <2>7
    <3>2. PICK i \in 1..n : chain[i] = x
      BY <1>10, <3>1
    <3>3. i # n
      BY <3>1, <3>2 DEF b
    <3>4. i \in 1..(n - 1)
      BY <1>3, <3>3
    <3> QED  BY <2>1, <3>2, <3>4
  <2> QED  BY <1>11, <2>1, <2>4, <2>5, <2>6, <2>7 DEF ChainOrdered
<1>13. HeadersInStep'
  <2>1. \A x \in Blk, h \in Nat, k \in 1..Len(s) :
          /\ ~Header(s[k], x, h)
          /\ Claims(s[k], h) => h = height
          /\ HeaderGone(s[k], x) <=> k = 2 /\ x = b
    BY <1>4, <1>5 DEF Header, Claims, HeaderGone
  <2>2. \A x \in Blk : hash_to_index[x] # height
    BY <1>2, NextHeightFree
  <2>3. s[2 - 1].op \notin Batches /\ 2 \in 1..Len(s)
    BY <1>4 DEF Batches
  <2>4. ASSUME NEW x \in Blk, \A k \in 1..Len(s) : ~HeaderGone(s[k], x)
        PROVE  hash_to_index'[x] = hash_to_index[x]
    <3>1. x # b
      BY <2>1, <2>3, <2>4, <1>2
    <3> QED  BY <1>11, <3>1
  <2>5. \A x \in Blk : \A k \in 1..Len(s) :
              HeaderGone(s[k], x) => k \in 2..Len(s) /\ s[k - 1].op \notin Batches
    BY <1>2, <1>5, <2>1, <2>3
  <2> QED  BY <1>1, <1>2, <1>4, <2>1, <2>2, <2>4, <2>5, SendHeaders, ZenonT(60)
<1> QED  BY <1>7, <1>8, <1>9, <1>12, <1>13

(* A step that leaves all this but the state alone.                         *)
LEMMA StateUnchanged ==
    ASSUME IInv, ready' \in BOOLEAN,
           UNCHANGED <<mempool, txs, utxo, utxo_entries, chain, hash_to_index, height,
                       last_hash_processed, chan, tMempool, tTx, tUtxo, tBlocks, failed, missed, risked>>
    PROVE  Types' /\ MempoolInStep' /\ UtxoInStep' /\ ChainOrdered' /\ HeadersInStep'
<1>1. Types'
  <2>1. Rows' = Rows
    BY DEF Rows
  <2> QED  BY <2>1 DEF IInv, Types
<1>2. MempoolInStep'
  BY DEF IInv, MempoolInStep, Agrees
<1>3. UtxoInStep'
  BY DEF IInv, UtxoInStep
<1>4. ChainOrdered'
  BY DEF IInv, ChainOrdered
<1>5. HeadersInStep'
  BY DEF IInv, HeadersInStep
<1> QED  BY <1>1, <1>2, <1>3, <1>4, <1>5

-----------------------------------------------------------------------------
(* An INSERT of a batch of transactions adds heights, and overwrites none.  *)
LEMMA InsertTxFacts ==
    ASSUME tTx \in [Tx -> Nat \cup {None}], NEW rows \in Seq(Tx \X Nat)
    PROVE  /\ InsertTx(rows) \in [Tx -> Nat \cup {None}]
           /\ \A t \in Tx : tTx[t] # None => InsertTx(rows)[t] = tTx[t]
<1> DEFINE keys == [i \in DOMAIN rows |-> rows[i][1]]
           tried == Tried(keys, {t \in Tx : tTx[t] # None})
           row(t) == (CHOOSE r \in Range(rows) : r[1] = t)[2]
<1>1. InsertTx(rows) = [t \in Tx |-> IF tTx[t] = None /\ \E i \in tried : keys[i] = t
                                     THEN row(t) ELSE tTx[t]]
  BY DEF InsertTx
<1>2. ASSUME NEW t \in Tx, \E i \in tried : keys[i] = t  PROVE row(t) \in Nat
  <2>1. PICK i \in tried : keys[i] = t
    BY <1>2
  <2>2. i \in DOMAIN rows
    BY <2>1 DEF Tried
  <2>3. rows[i] \in Range(rows) /\ rows[i][1] = t
    BY <2>1, <2>2 DEF Range
  <2>4. \A r \in Range(rows) : r \in Tx \X Nat
    BY DEF Range
  <2>5. (CHOOSE r \in Range(rows) : r[1] = t) \in Range(rows)
    BY <2>3
  <2>6. \A r \in Tx \X Nat : r[2] \in Nat
    OBVIOUS
  <2> QED  BY <2>4, <2>5, <2>6
<1> HIDE DEF row, tried, keys
<1> QED  BY <1>1, <1>2

(* What is left of a sequence behind its first m elements.                  *)
LEMMA RestFacts ==
    ASSUME NEW S, NEW s \in Seq(S), NEW m \in Nat, m <= Len(s)
    PROVE  LET r == SubSeq(s, m + 1, Len(s)) IN
           r \in Seq(S) /\ Len(r) = Len(s) - m /\ \A i \in 1..Len(r) : r[i] = s[m + i]
<1> DEFINE r == SubSeq(s, m + 1, Len(s))
<1>1. Len(s) \in Nat
  OBVIOUS
<1>2. r \in Seq(S)
  OBVIOUS
<1>3. Len(r) = Len(s) - m
  BY <1>1
<1>4. \A i \in 1..(Len(s) - m) : r[i] = s[m + i]
  <2> TAKE i \in 1..(Len(s) - m)
  <2>1. (m + 1) + i - 1 = m + i
    BY <1>1
  <2> QED  BY <1>1, <2>1
<1> QED  BY <1>2, <1>3, <1>4

(* The channel moves by the operations that were taken.  The one performed  *)
(* is the first; those merged with it write mempool rows, and the one that  *)
(* was dropped followed a batch.                                            *)
LEMMA Taken ==
    ASSUME IInv, NEW n \in 1..Len(chan), NEW lost \in {0, 1}, DbPerform(n, lost)
    PROVE  LET m == n + lost IN
           /\ m \in 1..Len(chan) /\ Len(chan) \in Nat
           /\ chan' \in Seq(Ops) /\ Len(chan') = Len(chan) - m
           /\ \A i \in 1..Len(chan') : m + i \in 1..Len(chan) /\ chan'[i] = chan[m + i]
           /\ \A k \in 2..n : chan[k].op = "MempoolBatchWrite"
           /\ n > 1 => chan[1].op = "MempoolBatchWrite"
           /\ \A k \in 1..m : k = 1 \/ k \in 2..n \/ (lost = 1 /\ k = n + 1)
           /\ \A k \in 2..m : k \in 2..n \/ ~Safe(chan, k)
           /\ lost = 1 => chan[1].op \in Batches
<1> DEFINE m == n + lost
<1>1. /\ n + lost <= Len(chan) /\ chan' = SubSeq(chan, n + lost + 1, Len(chan))
      /\ n > 1 => \A i \in 1..n : chan[i].op = "MempoolBatchWrite"
      /\ lost = 1 => chan[1].op \in Batches
  BY DEF DbPerform
<1>2. chan \in Seq(Ops) /\ Len(chan) \in Nat
  BY DEF IInv, Types
<1>3. m \in 1..Len(chan)
  BY <1>1, <1>2
<1>4. /\ chan' \in Seq(Ops) /\ Len(chan') = Len(chan) - m
      /\ \A i \in 1..Len(chan') : chan'[i] = chan[m + i]
  <2>1. m \in Nat /\ m <= Len(chan) /\ chan' = SubSeq(chan, m + 1, Len(chan))
    BY <1>1, <1>3
  <2> QED  BY <1>2, <2>1, RestFacts
<1>5. \A i \in 1..Len(chan') : m + i \in 1..Len(chan)
  BY <1>2, <1>3, <1>4
<1>6. \A k \in 2..n : chan[k].op = "MempoolBatchWrite"
  BY <1>1
<1>7. n > 1 => chan[1].op = "MempoolBatchWrite"
  BY <1>1
<1>8. \A k \in 1..m : k = 1 \/ k \in 2..n \/ (lost = 1 /\ k = n + 1)
  OBVIOUS
<1>9. ASSUME NEW k \in 2..m, k \notin 2..n  PROVE ~Safe(chan, k)
  <2>1. lost = 1 /\ k = n + 1 /\ k - 1 = n /\ k # 1
    BY <1>9
  <2>2. n = 1 \/ n \in 2..n
    OBVIOUS
  <2>3. chan[n].op \in Batches
    BY <1>1, <1>6, <2>1, <2>2 DEF Batches
  <2> QED  BY <2>1, <2>3 DEF Safe
<1> QED  BY <1>1, <1>2, <1>3, <1>4, <1>5, <1>6, <1>7, <1>8, <1>9

(* What an operation concerns is what it is about.                          *)
LEMMA ConcernsIsAbout ==
    ASSUME NEW e \in Ops, NEW t \in Tx
    PROVE  t \in Concerns(e) <=> About(e, t)
BY DEF Concerns, About, Writes, Deletes

(* A position between two operations that stay in the channel stays too.    *)
LEMMA BetweenShift ==
    ASSUME NEW m \in Nat, NEW l \in Nat, NEW i \in Int, NEW j \in Int, m + i <= l, j >= 1,
           NEW k \in ((m + j) + 1)..((m + i) - 1)
    PROVE  k \in 1..l /\ k \notin 1..m /\ k - m \in (j + 1)..(i - 1)
OBVIOUS

(* Safe operations stay safe when those before them are taken.              *)
LEMMA SafeShift ==
    ASSUME NEW c, NEW d, NEW m \in Nat, NEW i \in Nat, m + i <= Len(c), Len(c) \in Nat, i >= 1,
           Len(d) = Len(c) - m, \A k \in 1..Len(d) : d[k] = c[m + k], Safe(c, m + i)
    PROVE  Safe(d, i)
<1>1. CASE i = 1
  BY <1>1 DEF Safe
<1>2. CASE i # 1
  <2>1. m + i # 1 /\ i - 1 \in 1..Len(d) /\ (m + i) - 1 = m + (i - 1)
    BY <1>2
  <2>2. c[(m + i) - 1].op \notin Batches
    BY <2>1 DEF Safe
  <2>3. d[i - 1] = c[(m + i) - 1]
    BY <2>1
  <2> QED  BY <2>2, <2>3 DEF Safe
<1> QED  BY <1>1, <1>2

(* The mempool table after the writer's step.                               *)
LEMMA DbMempool ==
    ASSUME IInv, NEW n \in 1..Len(chan), NEW lost \in {0, 1}, DbPerform(n, lost)
    PROVE  tMempool' \subseteq Tx /\ MempoolInStep'
<1> DEFINE m == n + lost
           op == chan[1].op
           rows == chan[1].rows
           keys == [i \in 1..n |-> chan[i].rows]
           tried == Tried(keys, tMempool)
           reached == IF op = "MempoolBatchWrite" THEN {keys[i] : i \in tried} ELSE Concerns(chan[1])
           passed == (UNION {Concerns(chan[i]) : i \in 1..n}) \ reached
<1>1. /\ m \in 1..Len(chan) /\ Len(chan) \in Nat
      /\ chan' \in Seq(Ops) /\ Len(chan') = Len(chan) - m
      /\ \A i \in 1..Len(chan') : m + i \in 1..Len(chan) /\ chan'[i] = chan[m + i]
      /\ \A k \in 2..n : chan[k].op = "MempoolBatchWrite"
      /\ n > 1 => chan[1].op = "MempoolBatchWrite"
      /\ \A k \in 1..m : k = 1 \/ k \in 2..n \/ (lost = 1 /\ k = n + 1)
  BY Taken
<1>2. /\ tMempool' = CASE op = "MempoolBatchWrite" -> tMempool \cup reached
                       [] op = "MempoolBatchDelete" -> tMempool \ rows
                       [] OTHER -> tMempool
      /\ missed' = (missed \ reached) \cup passed \cup
                   (IF lost = 1 THEN Concerns(chan[n + 1]) ELSE {})
      /\ mempool' = mempool /\ failed' = failed
  BY DEF DbPerform, memory
<1>3. \A i \in 1..Len(chan) : chan[i] \in Ops
  BY DEF IInv, Types
<1>4. tMempool \subseteq Tx
  BY DEF IInv, Types
<1>old. /\ \A t \in Tx, i \in 1..Len(chan) :
             /\ Writes(chan[i], t) /\ (\A j \in (i + 1)..Len(chan) : ~Deletes(chan[j], t)) => t \in mempool
             /\ Deletes(chan[i], t) /\ (\A j \in (i + 1)..Len(chan) : ~Writes(chan[j], t)) => t \notin mempool
        /\ \A t \in Tx \ missed : (\A j \in 1..Len(chan) : ~About(chan[j], t)) => Agrees(t)
  BY DEF IInv, MempoolInStep
<1>5. op = "MempoolBatchWrite" => \A t \in reached : \E i \in 1..n : Writes(chan[i], t) /\ t \in Tx
  <2> SUFFICES ASSUME op = "MempoolBatchWrite", NEW t \in reached
               PROVE  \E i \in 1..n : Writes(chan[i], t) /\ t \in Tx
    OBVIOUS
  <2>1. PICK i \in tried : t = keys[i]
    OBVIOUS
  <2>2. i \in 1..n
    BY <2>1 DEF Tried
  <2>3. chan[i].op = "MempoolBatchWrite" /\ t = chan[i].rows
    <3>1. i = 1 \/ i \in 2..n
      BY <2>2
    <3> QED  BY <1>1, <2>1, <2>2, <3>1
  <2>4. chan[i] \in Ops
    BY <1>1, <1>3, <2>2
  <2> QED  BY <2>2, <2>3, <2>4 DEF Writes, Ops
<1>6. op = "MempoolBatchDelete" => reached = rows
  BY DEF Concerns
<1>7. op \notin {"MempoolBatchWrite", "MempoolBatchDelete"} => reached = {}
  BY DEF Concerns
<1>concern. \A t, i : i \in 1..n /\ t \in Concerns(chan[i]) /\ t \notin reached => t \in passed
  <2> HIDE DEF reached
  <2> QED  BY Zenon
<1> HIDE DEF reached, keys, tried, passed
<1>8. tMempool' \subseteq Tx
  BY <1>2, <1>4, <1>5
<1>9. ASSUME NEW t \in Tx, NEW i \in 1..Len(chan')
      PROVE  /\ Writes(chan'[i], t) /\ (\A j \in (i + 1)..Len(chan') : ~Deletes(chan'[j], t)) => t \in mempool'
             /\ Deletes(chan'[i], t) /\ (\A j \in (i + 1)..Len(chan') : ~Writes(chan'[j], t)) => t \notin mempool'
  <2>1. ASSUME NEW j \in ((m + i) + 1)..Len(chan)
        PROVE  j - m \in (i + 1)..Len(chan') /\ chan[j] = chan'[j - m]
    <3>1. j - m \in (i + 1)..Len(chan') /\ j - m \in 1..Len(chan') /\ m + (j - m) = j
      BY <1>1
    <3> QED  BY <1>1, <3>1
  <2>2. m + i \in 1..Len(chan) /\ chan'[i] = chan[m + i]
    BY <1>1
  <2>3. ASSUME Writes(chan'[i], t), \A j \in (i + 1)..Len(chan') : ~Deletes(chan'[j], t)  PROVE t \in mempool
    <3>1. \A j \in ((m + i) + 1)..Len(chan) : ~Deletes(chan[j], t)
      BY <2>1, <2>3
    <3> QED  BY <1>old, <2>2, <2>3, <3>1
  <2>4. ASSUME Deletes(chan'[i], t), \A j \in (i + 1)..Len(chan') : ~Writes(chan'[j], t)  PROVE t \notin mempool
    <3>1. \A j \in ((m + i) + 1)..Len(chan) : ~Writes(chan[j], t)
      BY <2>1, <2>4
    <3> QED  BY <1>old, <2>2, <2>4, <3>1
  <2> QED  BY <1>2, <2>3, <2>4
<1>10. ASSUME NEW t \in Tx \ missed', \A j \in 1..Len(chan') : ~About(chan'[j], t)
       PROVE  Agrees(t)'
  <2>1. t \notin passed /\ (lost = 1 => t \notin Concerns(chan[n + 1])) /\ (t \in reached \/ t \notin missed)
    BY <1>2, <1>10
  <2>2. ASSUME NEW j \in 1..Len(chan), j \notin 1..m  PROVE ~About(chan[j], t)
    <3>1. j - m \in 1..Len(chan') /\ m + (j - m) = j
      BY <1>1, <2>2
    <3> QED  BY <1>1, <1>10, <3>1
  <2>3. lost = 1 => ~About(chan[n + 1], t)
    <3>1. lost = 1 => n + 1 \in 1..Len(chan)
      BY <1>1
    <3> QED  BY <1>3, <2>1, <3>1, ConcernsIsAbout
  <2>4. CASE t \in reached /\ op = "MempoolBatchWrite"
    <3>1. PICK i \in 1..n : Writes(chan[i], t)
      BY <1>5, <2>4
    <3>2. \A j \in 1..n : ~Deletes(chan[j], t)
      <4>1. \A j \in 1..n : j = 1 \/ j \in 2..n
        OBVIOUS
      <4> QED  BY <1>1, <2>4, <4>1 DEF Deletes
    <3>3. \A j \in (i + 1)..Len(chan) : j \in 1..n \/ (lost = 1 /\ j = n + 1) \/ (j \in 1..Len(chan) /\ j \notin 1..m)
      BY <1>1
    <3>4. \A j \in (i + 1)..Len(chan) : ~Deletes(chan[j], t)
      BY <2>2, <2>3, <3>2, <3>3 DEF About
    <3>5. i \in 1..Len(chan)
      BY <1>1
    <3>6. t \in mempool
      BY <1>old, <3>1, <3>4, <3>5
    <3>7. t \in tMempool'
      BY <1>2, <2>4
    <3> QED  BY <1>2, <3>6, <3>7 DEF Agrees
  <2>5. CASE t \in reached /\ op = "MempoolBatchDelete"
    <3>1. Deletes(chan[1], t) /\ n = 1
      BY <1>1, <1>6, <2>5 DEF Deletes
    <3>2. \A j \in (1 + 1)..Len(chan) : (lost = 1 /\ j = n + 1) \/ (j \in 1..Len(chan) /\ j \notin 1..m)
      BY <1>1, <3>1
    <3>3. \A j \in (1 + 1)..Len(chan) : ~Writes(chan[j], t)
      BY <2>2, <2>3, <3>2 DEF About
    <3>4. 1 \in 1..Len(chan)
      BY <1>1
    <3>5. t \notin mempool
      BY <1>old, <3>1, <3>3, <3>4
    <3>6. t \notin tMempool'
      BY <1>2, <1>6, <2>5
    <3> QED  BY <1>2, <3>5, <3>6 DEF Agrees
  <2>6. CASE t \notin reached
    <3>1. \A j \in 1..n : ~About(chan[j], t)
      <4>1. ASSUME NEW j \in 1..n, t \in Concerns(chan[j])  PROVE FALSE
        BY <1>concern, <2>1, <2>6, <4>1
      <4>2. \A j \in 1..n : j \in 1..Len(chan)
        BY <1>1
      <4> QED  BY <1>3, <4>1, <4>2, ConcernsIsAbout
    <3>2. \A j \in 1..Len(chan) : j \in 1..n \/ (lost = 1 /\ j = n + 1) \/ j \notin 1..m
      BY <1>1
    <3>3. \A j \in 1..Len(chan) : ~About(chan[j], t)
      BY <2>2, <2>3, <3>1, <3>2
    <3>4. Agrees(t)
      BY <1>old, <2>1, <2>6, <3>3
    <3>5. t \in tMempool' <=> t \in tMempool
      BY <1>2, <1>6, <2>6
    <3> QED  BY <1>2, <3>4, <3>5 DEF Agrees
  <2> QED  BY <1>7, <2>4, <2>5, <2>6
<1>11. MempoolInStep'
  BY <1>9, <1>10 DEF MempoolInStep
<1> QED  BY <1>8, <1>11

(* The utxo table after the writer's step.                                  *)
LEMMA DbUtxo ==
    ASSUME IInv, NEW n \in 1..Len(chan), NEW lost \in {0, 1}, DbPerform(n, lost)
    PROVE  tUtxo' \in [Outpoint -> Heights] /\ UtxoInStep'
<1> DEFINE m == n + lost
           op == chan[1].op
           rows == chan[1].rows
<1>1. /\ m \in 1..Len(chan) /\ Len(chan) \in Nat
      /\ Len(chan') = Len(chan) - m
      /\ \A i \in 1..Len(chan') : m + i \in 1..Len(chan) /\ chan'[i] = chan[m + i]
      /\ \A k \in 2..n : chan[k].op = "MempoolBatchWrite"
      /\ \A k \in 2..m : k \in 2..n \/ ~Safe(chan, k)
  BY Taken
<1>2. /\ tUtxo' = CASE op = "UtxoBatchWrite" ->
                         [o \in Outpoint |-> IF \E r \in rows : r[1] = o
                                             THEN (CHOOSE r \in rows : r[1] = o)[2] ELSE tUtxo[o]]
                    [] op = "UtxoDelete" -> RemoveAtHeight(tUtxo, rows)
                    [] OTHER -> tUtxo
      /\ UNCHANGED <<utxo, utxo_entries, risked, failed>>
  BY DEF DbPerform, memory
<1>3. chan[1] \in Ops /\ tUtxo \in [Outpoint -> Heights]
  BY <1>1 DEF IInv, Types
<1>4. /\ tUtxo' \in [Outpoint -> Heights]
      /\ \A o \in Outpoint : tUtxo[o] = NOT_IN_BLOCK => tUtxo'[o] = NOT_IN_BLOCK
      /\ \A o \in Outpoint : WritesOut(chan[1], o) => tUtxo'[o] = NOT_IN_BLOCK
      /\ \A o \in Outpoint : tUtxo'[o] = NOT_IN_BLOCK => tUtxo[o] = NOT_IN_BLOCK \/ WritesOut(chan[1], o)
  <2>1. CASE op = "UtxoBatchWrite"
    <3>1. rows \in SUBSET (Outpoint \X {NOT_IN_BLOCK})
      BY <1>3, <2>1 DEF Ops
    <3>2. \A o \in Outpoint : (\E r \in rows : r[1] = o) <=> WritesOut(chan[1], o)
      BY <2>1 DEF WritesOut
    <3>3. tUtxo' = [o \in Outpoint |-> IF \E r \in rows : r[1] = o
                                       THEN (CHOOSE r \in rows : r[1] = o)[2] ELSE tUtxo[o]]
      BY <1>2, <2>1
    <3>4. NOT_IN_BLOCK \in Heights
      BY DEF Heights
    <3> HIDE DEF rows, NOT_IN_BLOCK, op
    <3>5. ASSUME NEW o \in Outpoint, \E r \in rows : r[1] = o
          PROVE  (CHOOSE r \in rows : r[1] = o)[2] = NOT_IN_BLOCK
      <4>1. (CHOOSE r \in rows : r[1] = o) \in rows
        BY <3>5
      <4> QED  BY <3>1, <4>1
    <3> QED  BY <1>3, <3>2, <3>3, <3>4, <3>5
  <2>2. CASE op = "UtxoDelete"
    <3>1. rows \in Nat
      BY <1>3, <2>2 DEF Ops
    <3>2. tUtxo' = tUtxo
      BY <1>2, <1>3, <2>2, <3>1, NothingAtHeight
    <3> QED  BY <1>3, <2>2, <3>2 DEF WritesOut
  <2>3. CASE op \notin {"UtxoBatchWrite", "UtxoDelete"}
    <3>1. tUtxo' = tUtxo
      BY <1>2, <2>3
    <3> QED  BY <1>3, <2>3, <3>1 DEF WritesOut
  <2> QED  BY <2>1, <2>2, <2>3
<1>old. /\ \A o \in Outpoint : utxo[o] = NOT_IN_BLOCK =>
             \/ o \in utxo_entries \/ o \in risked \/ tUtxo[o] = NOT_IN_BLOCK
             \/ \E i \in 1..Len(chan) : WritesOut(chan[i], o) /\ Safe(chan, i)
        /\ \A o \in Outpoint : \A i \in 1..Len(chan) : WritesOut(chan[i], o) => utxo[o] = NOT_IN_BLOCK
        /\ \A o \in Outpoint : tUtxo[o] = NOT_IN_BLOCK => utxo[o] = NOT_IN_BLOCK \/ "utxo" \in failed
  BY DEF IInv, UtxoInStep
<1>5. ASSUME NEW o \in Outpoint, NEW i \in 1..Len(chan), WritesOut(chan[i], o), Safe(chan, i)
      PROVE  tUtxo'[o] = NOT_IN_BLOCK \/ \E k \in 1..Len(chan') : WritesOut(chan'[k], o) /\ Safe(chan', k)
  <2>1. CASE i = 1
    BY <1>4, <1>5, <2>1
  <2>2. CASE i \in 2..m
    <3>1. i \in 2..n
      BY <1>1, <1>5, <2>2
    <3> QED  BY <1>1, <1>5, <3>1 DEF WritesOut
  <2>3. CASE i \notin 1..m
    <3> DEFINE k == i - m
    <3>1. k \in 1..Len(chan') /\ m + k = i /\ k \in Nat /\ m \in Nat /\ k >= 1 /\ m + k <= Len(chan)
      BY <1>1, <2>3
    <3> HIDE DEF k
    <3>2. chan'[k] = chan[i]
      BY <1>1, <3>1
    <3>3. \A q \in 1..Len(chan') : chan'[q] = chan[m + q]
      BY <1>1
    <3>4. Safe(chan', k)
      BY <1>1, <1>5, <3>1, <3>3, SafeShift
    <3> QED  BY <1>5, <3>1, <3>2, <3>4
  <2>4. i = 1 \/ i \in 2..m \/ i \notin 1..m
    BY <1>1
  <2> QED  BY <2>1, <2>2, <2>3, <2>4
<1>6. ASSUME NEW o \in Outpoint, utxo'[o] = NOT_IN_BLOCK
      PROVE  \/ o \in utxo_entries' \/ o \in risked' \/ tUtxo'[o] = NOT_IN_BLOCK
             \/ \E i \in 1..Len(chan') : WritesOut(chan'[i], o) /\ Safe(chan', i)
  BY <1>2, <1>4, <1>5, <1>6, <1>old
<1>7. \A o \in Outpoint : \A i \in 1..Len(chan') : WritesOut(chan'[i], o) => utxo'[o] = NOT_IN_BLOCK
  BY <1>1, <1>2, <1>old
<1>8. ASSUME NEW o \in Outpoint, tUtxo'[o] = NOT_IN_BLOCK
      PROVE  utxo'[o] = NOT_IN_BLOCK \/ "utxo" \in failed'
  <2>1. 1 \in 1..Len(chan)
    BY <1>1
  <2> QED  BY <1>2, <1>4, <1>8, <1>old, <2>1
<1> QED  BY <1>4, <1>6, <1>7, <1>8 DEF UtxoInStep

(* The header rows after the writer's step.                                 *)
LEMMA DbHeaders ==
    ASSUME IInv, NEW n \in 1..Len(chan), NEW lost \in {0, 1}, DbPerform(n, lost)
    PROVE  tBlocks' \in [Blk -> Nat \cup {None}] /\ IsFiniteSet(Rows') /\ HeadersInStep'
<1> DEFINE m == n + lost
           op == chan[1].op
           rows == chan[1].rows
<1>1. /\ m \in 1..Len(chan) /\ Len(chan) \in Nat
      /\ Len(chan') = Len(chan) - m
      /\ \A i \in 1..Len(chan') : m + i \in 1..Len(chan) /\ chan'[i] = chan[m + i]
      /\ \A k \in 2..n : chan[k].op = "MempoolBatchWrite"
      /\ \A k \in 2..m : k \in 2..n \/ ~Safe(chan, k)
  BY Taken
<1>2. /\ tBlocks' = CASE op = "BlockHeaderWrite" /\ tBlocks[rows[1]] = None ->
                           [tBlocks EXCEPT ![rows[1]] = rows[2]]
                      [] op = "BlockHeaderDelete" -> [tBlocks EXCEPT ![rows] = None]
                      [] OTHER -> tBlocks
      /\ hash_to_index' = hash_to_index
  BY DEF DbPerform, memory, blockManager
<1>3. chan[1] \in Ops /\ tBlocks \in [Blk -> Nat \cup {None}] /\ IsFiniteSet(Rows) /\ 1 \in 1..Len(chan)
  BY <1>1 DEF IInv, Types
<1>none. None \notin Nat
  BY TxAssumption
<1>old. /\ \A b \in Blk, h \in Nat : \A i \in 1..Len(chan) :
             Header(chan[i], b, h) /\ (\A j \in (i + 1)..Len(chan) : ~HeaderGone(chan[j], b))
                => hash_to_index[b] = h
        /\ \A b \in Blk : tBlocks[b] # None /\ (\A j \in 1..Len(chan) : ~HeaderGone(chan[j], b))
                => hash_to_index[b] = tBlocks[b]
        /\ \A b \in Blk : \A i \in 1..Len(chan) : HeaderGone(chan[i], b) => Safe(chan, i)
        /\ \A b \in Blk, h \in Nat : \A i, j \in 1..Len(chan) :
             Claims(chan[i], h) /\ Header(chan[j], b, h) /\ j < i
                => \E k \in (j + 1)..(i - 1) : HeaderGone(chan[k], b)
        /\ \A b \in Blk, h \in Nat : \A i \in 1..Len(chan) :
             Claims(chan[i], h) /\ tBlocks[b] = h => \E k \in 1..(i - 1) : HeaderGone(chan[k], b)
        /\ \A b, c \in Blk : tBlocks[b] # None /\ tBlocks[b] = tBlocks[c] => b = c
  BY DEF IInv, HeadersInStep
<1>4. /\ tBlocks' \in [Blk -> Nat \cup {None}]
      /\ \A b \in Blk : \/ tBlocks'[b] = tBlocks[b] /\ ~HeaderGone(chan[1], b)
                        \/ tBlocks'[b] = None
                        \/ tBlocks'[b] \in Nat /\ tBlocks[b] = None /\ Header(chan[1], b, tBlocks'[b])
      /\ \A b, c \in Blk : tBlocks'[b] # tBlocks[b] /\ tBlocks'[c] # tBlocks[c] => b = c
  <2>1. CASE op = "BlockHeaderWrite" /\ tBlocks[rows[1]] = None
    <3>1. rows \in Blk \X Nat
      BY <1>3, <2>1 DEF Ops
    <3>2. PICK x \in Blk, h \in Nat : rows = <<x, h>>
      BY <3>1
    <3>3. tBlocks' = [tBlocks EXCEPT ![x] = h] /\ tBlocks[x] = None
      BY <1>2, <2>1, <3>2
    <3>4. Header(chan[1], x, h) /\ \A b \in Blk : ~HeaderGone(chan[1], b)
      BY <2>1, <3>2 DEF Header, HeaderGone
    <3> HIDE DEF op, rows
    <3>5. tBlocks' \in [Blk -> Nat \cup {None}] /\ tBlocks'[x] = h /\ \A b \in Blk : b # x => tBlocks'[b] = tBlocks[b]
      BY <1>3, <3>3
    <3> QED  BY <3>3, <3>4, <3>5
  <2>2. CASE op = "BlockHeaderDelete"
    <3>1. rows \in Blk
      BY <1>3, <2>2 DEF Ops
    <3>2. tBlocks' = [tBlocks EXCEPT ![rows] = None]
      BY <1>2, <2>2
    <3>3. \A b \in Blk : HeaderGone(chan[1], b) <=> b = rows
      BY <2>2 DEF HeaderGone
    <3> HIDE DEF op, rows
    <3>4. tBlocks' \in [Blk -> Nat \cup {None}] /\ tBlocks'[rows] = None /\ \A b \in Blk : b # rows => tBlocks'[b] = tBlocks[b]
      BY <1>3, <3>1, <3>2
    <3> QED  BY <3>3, <3>4
  <2>3. CASE op # "BlockHeaderDelete" /\ ~(op = "BlockHeaderWrite" /\ tBlocks[rows[1]] = None)
    <3>1. tBlocks' = tBlocks
      BY <1>2, <2>3
    <3>2. \A b \in Blk : ~HeaderGone(chan[1], b)
      BY <2>3 DEF HeaderGone
    <3> QED  BY <1>3, <3>1, <3>2
  <2> QED  BY <2>1, <2>2, <2>3
<1>5. IsFiniteSet(Rows')
  <2>1. CASE \E x \in Blk : tBlocks'[x] # tBlocks[x]
    <3>1. PICK x \in Blk : tBlocks'[x] # tBlocks[x]
      BY <2>1
    <3>2. \A b \in Blk : b # x => tBlocks'[b] = tBlocks[b]
      BY <1>4, <3>1
    <3>3. Rows' \subseteq Rows \cup {x}
      BY <3>2 DEF Rows
    <3>4. IsFiniteSet(Rows \cup {x})
      BY <1>3, FS_AddElement
    <3> QED  BY <3>3, <3>4, FS_Subset
  <2>2. CASE \A x \in Blk : tBlocks'[x] = tBlocks[x]
    <3>1. Rows' = Rows
      BY <2>2 DEF Rows
    <3> QED  BY <1>3, <3>1
  <2> QED  BY <2>1, <2>2
<1> HIDE DEF op, rows
<1>6. ASSUME NEW b \in Blk, NEW k \in 2..m  PROVE ~HeaderGone(chan[k], b)
  <2>1. CASE k \in 2..n
    BY <1>1, <2>1 DEF HeaderGone
  <2>2. CASE ~Safe(chan, k)
    <3>1. k \in 1..Len(chan)
      BY <1>1
    <3> QED  BY <1>old, <2>2, <3>1
  <2> QED  BY <1>1, <2>1, <2>2
<1>7. ASSUME NEW i \in 1..Len(chan), i \notin 1..m
      PROVE  i - m \in 1..Len(chan') /\ chan'[i - m] = chan[i]
  <2>1. i - m \in 1..Len(chan') /\ m + (i - m) = i
    BY <1>1, <1>7
  <2> QED  BY <1>1, <2>1
<1>8. \A i \in 1..Len(chan) : i = 1 \/ i \in 2..m \/ i \notin 1..m
  BY <1>1
<1>9. ASSUME NEW b \in Blk, NEW h \in Nat, NEW i \in 1..Len(chan'), Header(chan'[i], b, h),
             \A j \in (i + 1)..Len(chan') : ~HeaderGone(chan'[j], b)
      PROVE  hash_to_index[b] = h
  <2>1. ASSUME NEW j \in ((m + i) + 1)..Len(chan)  PROVE ~HeaderGone(chan[j], b)
    <3>1. j \in 1..Len(chan) /\ j \notin 1..m /\ j - m \in (i + 1)..Len(chan')
      BY <1>1
    <3> QED  BY <1>7, <1>9, <3>1
  <2>2. m + i \in 1..Len(chan) /\ Header(chan[m + i], b, h)
    BY <1>1, <1>9
  <2> QED  BY <1>old, <2>1, <2>2
<1>10. ASSUME NEW b \in Blk, tBlocks'[b] # None, \A j \in 1..Len(chan') : ~HeaderGone(chan'[j], b)
       PROVE  hash_to_index[b] = tBlocks'[b]
  <2>1. \A j \in 1..Len(chan) : j # 1 => ~HeaderGone(chan[j], b)
    BY <1>6, <1>7, <1>8, <1>10
  <2>2. CASE tBlocks'[b] = tBlocks[b] /\ ~HeaderGone(chan[1], b)
    BY <1>10, <1>old, <2>1, <2>2
  <2>3. CASE tBlocks'[b] \in Nat /\ Header(chan[1], b, tBlocks'[b])
    <3>1. \A j \in (1 + 1)..Len(chan) : j \in 1..Len(chan) /\ j # 1
      BY <1>1
    <3> QED  BY <1>3, <1>old, <2>1, <2>3, <3>1
  <2> QED  BY <1>4, <1>10, <2>2, <2>3
<1>11. ASSUME NEW b \in Blk, NEW i \in 1..Len(chan'), HeaderGone(chan'[i], b)  PROVE Safe(chan', i)
  <2>1. /\ m + i \in 1..Len(chan) /\ chan'[i] = chan[m + i] /\ m + i <= Len(chan)
        /\ m \in Nat /\ i \in Nat /\ i >= 1
    BY <1>1
  <2>2. Safe(chan, m + i)
    BY <1>11, <1>old, <2>1
  <2>3. \A q \in 1..Len(chan') : chan'[q] = chan[m + q]
    BY <1>1
  <2> QED  BY <1>1, <2>1, <2>2, <2>3, SafeShift
<1>12. ASSUME NEW b \in Blk, NEW h \in Nat, NEW i \in 1..Len(chan'), NEW j \in 1..Len(chan'),
              Claims(chan'[i], h), Header(chan'[j], b, h), j < i
       PROVE  \E k \in (j + 1)..(i - 1) : HeaderGone(chan'[k], b)
  <2>1. /\ m + i \in 1..Len(chan) /\ m + j \in 1..Len(chan) /\ m + j < m + i
        /\ Claims(chan[m + i], h) /\ Header(chan[m + j], b, h)
    BY <1>1, <1>12
  <2>2. PICK k \in ((m + j) + 1)..((m + i) - 1) : HeaderGone(chan[k], b)
    BY <1>old, <2>1
  <2>3. k \in 1..Len(chan) /\ k \notin 1..m /\ k - m \in (j + 1)..(i - 1)
    <3>1. /\ m \in Nat /\ Len(chan) \in Nat /\ i \in Int /\ j \in Int
          /\ m + i <= Len(chan) /\ j >= 1
      BY <1>1, <2>1, SMTT(30)
    <3> QED  BY <3>1, BetweenShift
  <2> QED  BY <1>7, <2>2, <2>3
<1>13. ASSUME NEW b \in Blk, NEW h \in Nat, NEW i \in 1..Len(chan'), Claims(chan'[i], h), tBlocks'[b] = h
       PROVE  \E k \in 1..(i - 1) : HeaderGone(chan'[k], b)
  <2>1. m + i \in 1..Len(chan) /\ Claims(chan[m + i], h) /\ 1 < m + i
    BY <1>1, <1>13
  <2>2. PICK k \in 1..((m + i) - 1) : HeaderGone(chan[k], b) /\ k # 1
    <3>1. CASE tBlocks'[b] = tBlocks[b] /\ ~HeaderGone(chan[1], b)
      BY <1>13, <1>old, <2>1, <3>1
    <3>2. CASE tBlocks'[b] \in Nat /\ Header(chan[1], b, tBlocks'[b])
      <4>1. PICK k \in (1 + 1)..((m + i) - 1) : HeaderGone(chan[k], b)
        BY <1>3, <1>13, <1>old, <2>1, <3>2
      <4>2. k \in 1..((m + i) - 1) /\ k # 1
        BY <1>1
      <4> QED  BY <4>1, <4>2
    <3> QED  BY <1>4, <1>13, <1>none, <3>1, <3>2
  <2>3. k \in 1..Len(chan) /\ k \notin 2..m => k \notin 1..m
    BY <1>1, <2>2
  <2>4. k \in 1..Len(chan)
    BY <1>1
  <2>5. k \notin 1..m
    BY <1>6, <2>2, <2>3, <2>4
  <2>6. k - m \in 1..(i - 1)
    BY <1>1, <2>5
  <2> QED  BY <1>7, <2>2, <2>4, <2>5, <2>6
<1>14. ASSUME NEW b \in Blk, NEW c \in Blk, tBlocks'[b] # None, tBlocks'[b] = tBlocks'[c]  PROVE b = c
  <2>1. \A x, y \in Blk : tBlocks'[x] # tBlocks[x] /\ tBlocks'[x] # None /\ tBlocks[y] = tBlocks'[x] => FALSE
    <3> SUFFICES ASSUME NEW x \in Blk, NEW y \in Blk, tBlocks'[x] # tBlocks[x], tBlocks'[x] # None,
                        tBlocks[y] = tBlocks'[x]
                 PROVE  FALSE
      OBVIOUS
    <3>1. tBlocks'[x] \in Nat /\ Header(chan[1], x, tBlocks'[x])
      BY <1>4
    <3>2. Claims(chan[1], tBlocks'[x])
      BY <3>1 DEF Claims
    <3>3. \E k \in 1..(1 - 1) : HeaderGone(chan[k], y)
      BY <1>3, <1>old, <3>1, <3>2
    <3> QED  BY <3>3
  <2>2. CASE tBlocks'[b] = tBlocks[b] /\ tBlocks'[c] = tBlocks[c]
    BY <1>14, <1>old, <2>2
  <2>3. CASE tBlocks'[b] # tBlocks[b] /\ tBlocks'[c] # tBlocks[c]
    BY <1>4, <2>3
  <2> QED  BY <1>14, <2>1, <2>2, <2>3
<1> QED  BY <1>2, <1>4, <1>5, <1>9, <1>10, <1>11, <1>12, <1>13, <1>14 DEF HeadersInStep

(* The writer's step keeps the invariant, and a deletion by height reaches  *)
(* no transaction at the height of a stored header.                         *)
LEMMA DbPerformStep ==
    ASSUME IInv, NEW n \in 1..Len(chan), NEW lost \in {0, 1}, DbPerform(n, lost)
    PROVE  /\ IInv'
           /\ \A t \in Tx : tTx[t] # None /\ tTx'[t] = None => \A b \in Blk : tBlocks[b] # tTx[t]
<1> DEFINE m == n + lost
           op == chan[1].op
           rows == chan[1].rows
<1>1. /\ m \in 1..Len(chan) /\ Len(chan) \in Nat /\ chan' \in Seq(Ops)
      /\ Len(chan') = Len(chan) - m
      /\ \A i \in 1..Len(chan') : m + i \in 1..Len(chan) /\ chan'[i] = chan[m + i]
  BY Taken
<1>2. /\ UNCHANGED <<mempool, txs, utxo, utxo_entries, chain, hash_to_index, height,
                     last_hash_processed, collection, dynamic, ready, tCollection, configFile>>
      /\ tTx' = CASE op = "TxBatchWrite" -> InsertTx(rows)
                  [] op = "TxDelete" -> RemoveAtHeight(tTx, rows)
                  [] OTHER -> tTx
  BY DEF DbPerform, memory, blockManager
<1>3. chan[1] \in Ops /\ 1 \in 1..Len(chan) /\ tTx \in [Tx -> Nat \cup {None}] /\ ready' \in BOOLEAN
  BY <1>1, <1>2 DEF IInv, Types
<1>4. /\ tTx' \in [Tx -> Nat \cup {None}]
      /\ \A t \in Tx : tTx[t] # None /\ tTx'[t] = None => \A b \in Blk : tBlocks[b] # tTx[t]
  <2>1. CASE op = "TxBatchWrite"
    <3>1. rows \in Seq(Tx \X Nat) /\ tTx' = InsertTx(rows)
      BY <1>2, <1>3, <2>1 DEF Ops
    <3> HIDE DEF rows
    <3> QED  BY <1>3, <3>1, InsertTxFacts
  <2>2. CASE op = "TxDelete"
    <3>1. rows \in Nat /\ tTx' = RemoveAtHeight(tTx, rows) /\ Claims(chan[1], rows)
      BY <1>2, <1>3, <2>2 DEF Ops, Claims
    <3> HIDE DEF rows
    <3>2. tTx' \in [Tx -> Nat \cup {None}]
      BY <1>3, <3>1, RemoveAtHeightType
    <3>3. \A t \in Tx : tTx[t] # None /\ tTx'[t] = None => tTx[t] = rows
      BY <1>3, <3>1 DEF RemoveAtHeight
    <3>4. ASSUME NEW b \in Blk, tBlocks[b] = rows  PROVE FALSE
      <4>1. \E k \in 1..(1 - 1) : HeaderGone(chan[k], b)
        BY <1>3, <3>1, <3>4 DEF IInv, HeadersInStep
      <4> QED  BY <4>1
    <3> QED  BY <3>2, <3>3, <3>4
  <2>3. CASE op \notin {"TxBatchWrite", "TxDelete"}
    <3>1. tTx' = tTx
      BY <1>2, <2>3
    <3> QED  BY <1>3, <3>1
  <2> QED  BY <2>1, <2>2, <2>3
<1>5. \A i \in 1..(Len(chan') - 1) : chan'[i].op = "TxBatchWrite" => chan'[i + 1].op # "TxBatchWrite"
  <2> TAKE i \in 1..(Len(chan') - 1)
  <2>1. /\ m + i \in 1..(Len(chan) - 1) /\ i \in 1..Len(chan') /\ i + 1 \in 1..Len(chan')
        /\ m + (i + 1) = (m + i) + 1
    BY <1>1
  <2>2. chan'[i] = chan[m + i] /\ chan'[i + 1] = chan[(m + i) + 1]
    BY <1>1, <2>1, SMTT(30)
  <2> QED  BY <2>1, <2>2 DEF IInv, Types
<1>6. tMempool' \subseteq Tx /\ MempoolInStep'
  BY DbMempool
<1>7. tUtxo' \in [Outpoint -> Heights] /\ UtxoInStep'
  BY DbUtxo
<1>8. tBlocks' \in [Blk -> Nat \cup {None}] /\ IsFiniteSet(Rows') /\ HeadersInStep'
  BY DbHeaders
<1>9. Types'
  BY <1>1, <1>2, <1>3, <1>4, <1>5, <1>6, <1>7, <1>8 DEF IInv, Types
<1>10. Collections'
  BY <1>2, CollectionsUnchanged DEF IInv
<1>11. ChainOrdered'
  BY <1>2 DEF IInv, ChainOrdered
<1> QED  BY <1>4, <1>6, <1>7, <1>8, <1>9, <1>10, <1>11 DEF IInv

-----------------------------------------------------------------------------
(* A start: the memory is loaded from the tables, the headers in the order  *)
(* of their heights.                                                        *)
LEMMA RestartInv == ASSUME NEW fails, IInv, Restart(fails)  PROVE IInv'
<1>1. /\ mempool' = LoadMempool(fails) /\ txs' = LoadTx(fails) /\ utxo' = LoadUtxo(fails)
      /\ utxo_entries' = {} /\ ready' = FALSE /\ hash_to_index' = tBlocks
      /\ dynamic' = configFile /\ collection' = LoadCollections(configFile, LoadTxs(fails))
      /\ chan' = <<>> /\ failed' = fails /\ missed' = {} /\ risked' = {}
      /\ tMempool' = tMempool /\ tTx' = tTx /\ tUtxo' = tUtxo /\ tBlocks' = tBlocks
      /\ tCollection' = tCollection /\ configFile' = configFile
  BY DEF Restart, tables
<1>2. PICK s \in RowOrders :
          /\ chain' = s
          /\ height' = IF s = <<>> THEN 1 ELSE tBlocks[s[Len(s)]] + 1
          /\ last_hash_processed' = IF s = <<>> THEN None ELSE s[Len(s)]
  BY DEF Restart
<1>3. /\ tMempool \in SUBSET Tx /\ tUtxo \in [Outpoint -> Heights] /\ tTx \in [Tx -> Nat \cup {None}]
      /\ tBlocks \in [Blk -> Nat \cup {None}] /\ IsFiniteSet(Rows)
  BY DEF IInv, Types
<1>none. None \notin Nat
  BY TxAssumption
<1>4. /\ s \in Seq(Blk) /\ Len(s) \in Nat
      /\ \A i \in 1..Len(s) : s[i] \in Blk /\ tBlocks[s[i]] \in Nat
      /\ \A b \in Rows : \E i \in 1..Len(s) : s[i] = b
      /\ \A i, j \in 1..Len(s) : i # j => s[i] # s[j]
      /\ \A i, j \in 1..Len(s) : i <= j => tBlocks[s[i]] <= tBlocks[s[j]]
  <2> DEFINE n == Cardinality(Rows)
  <2>1. n \in Nat
    BY <1>3, FS_CardinalityType
  <2>2. /\ s \in [1..n -> Rows] /\ {s[i] : i \in DOMAIN s} = Rows
        /\ \A i, j \in DOMAIN s : i # j => s[i] # s[j]
        /\ \A i, j \in DOMAIN s : i <= j => tBlocks[s[i]] <= tBlocks[s[j]]
    BY DEF RowOrders
  <2> HIDE DEF n
  <2>3. DOMAIN s = 1..n /\ Len(s) = n /\ s \in Seq(Rows)
    BY <2>1, <2>2
  <2>4. Rows \subseteq Blk /\ \A b \in Rows : tBlocks[b] \in Nat
    BY <1>3 DEF Rows
  <2>5. s \in Seq(Blk)
    BY <2>3, <2>4
  <2>6. \A b \in Rows : \E i \in 1..n : s[i] = b
    BY <2>2, <2>3
  <2> QED  BY <2>1, <2>2, <2>3, <2>4, <2>5, <2>6
<1>5. \A i, j \in 1..Len(s) : i < j => tBlocks[s[i]] < tBlocks[s[j]]
  <2> SUFFICES ASSUME NEW i \in 1..Len(s), NEW j \in 1..Len(s), i < j
               PROVE  tBlocks[s[i]] < tBlocks[s[j]]
    OBVIOUS
  <2>1. /\ s[i] \in Blk /\ s[j] \in Blk /\ tBlocks[s[i]] \in Nat /\ tBlocks[s[j]] \in Nat
        /\ s[i] # s[j] /\ tBlocks[s[i]] <= tBlocks[s[j]]
    BY <1>4
  <2>2. tBlocks[s[i]] # tBlocks[s[j]]
    BY <1>none, <2>1 DEF IInv, HeadersInStep
  <2> QED  BY <2>1, <2>2
<1>6. /\ height' \in Nat /\ last_hash_processed' \in Blk \cup {None}
      /\ \A i \in 1..Len(s) : tBlocks[s[i]] < height'
  <2>1. CASE s = <<>>
    BY <1>2, <2>1
  <2>2. CASE s # <<>>
    <3>1. Len(s) \in 1..Len(s) /\ \A i \in 1..Len(s) : i <= Len(s)
      BY <1>4, <2>2
    <3>2. s[Len(s)] \in Blk /\ tBlocks[s[Len(s)]] \in Nat /\ \A i \in 1..Len(s) : tBlocks[s[i]] <= tBlocks[s[Len(s)]]
      BY <1>4, <3>1
    <3>3. height' = tBlocks[s[Len(s)]] + 1 /\ last_hash_processed' = s[Len(s)]
      BY <1>2, <2>2
    <3>4. \A i \in 1..Len(s) : tBlocks[s[i]] < height'
      BY <1>4, <3>2, <3>3
    <3> QED  BY <3>2, <3>3, <3>4
  <2> QED  BY <2>1, <2>2
<1>7. ChainOrdered'
  <2>1. \A b \in Blk : tBlocks[b] # None => \E i \in 1..Len(s) : s[i] = b
    BY <1>4 DEF Rows
  <2> QED  BY <1>1, <1>2, <1>3, <1>4, <1>5, <1>6, <2>1 DEF ChainOrdered
<1>8. Types'
  <2>1. mempool' \subseteq Tx
    BY <1>1, <1>3 DEF LoadMempool
  <2>2. txs' \in [Tx -> Nat \cup {None}]
    BY <1>1, <1>3 DEF LoadTx
  <2>3. utxo' \in [Outpoint -> Heights]
    BY <1>1, <1>3 DEF LoadUtxo, Heights
  <2>4. chan' \in Seq(Ops) /\ Len(chan') = 0
    BY <1>1
  <2>5. utxo_entries' \subseteq {o \in Outpoint : utxo'[o] = NOT_IN_BLOCK}
    BY <1>1
  <2>6. ready' \in BOOLEAN
    BY <1>1
  <2>7. Rows' = Rows
    BY <1>1 DEF Rows
  <2> QED  BY <1>1, <1>3, <1>6, <2>1, <2>2, <2>3, <2>4, <2>5, <2>6, <2>7 DEF Types
<1>9. Collections'
  <2> DEFINE rows == LoadTxs(fails)
             loaded == LoadCollections(configFile, rows)
  <2>1. /\ configFile \in Seq(Name) /\ configFile = dynamic /\ tCollection \subseteq Name \X Tx
        /\ \A i, j \in 1..Len(dynamic) : dynamic[i] = dynamic[j] => i = j
    BY DEF IInv, Collections
  <2>2. rows \in SUBSET (Name \X Tx)
    BY <2>1 DEF LoadTxs
  <2> HIDE DEF rows
  <2>3. /\ loaded \in Seq(Entries)
        /\ \A i \in 1..Len(configFile) : \E j \in 1..Len(loaded) : loaded[j].name = configFile[i]
    BY <2>1, <2>2, LoadFacts
  <2>4. collection' = loaded
    BY <1>1 DEF rows
  <2> HIDE DEF loaded
  <2> QED  BY <1>1, <2>1, <2>3, <2>4 DEF Collections
<1>10. MempoolInStep'
  <2>1. mempool' = tMempool \/ (mempool' = {} /\ "mempool" \in failed')
    BY <1>1 DEF LoadMempool
  <2>2. \A t \in Tx : Agrees(t)'
    BY <1>1, <2>1 DEF Agrees
  <2>3. Len(chan') = 0
    BY <1>1
  <2> QED  BY <2>2, <2>3 DEF MempoolInStep
<1>11. UtxoInStep'
  <2>1. \A o \in Outpoint : utxo'[o] = tUtxo[o] \/ (utxo'[o] = None /\ "utxo" \in failed')
    BY <1>1 DEF LoadUtxo
  <2>2. NOT_IN_BLOCK # None
    <3>1. None \notin Int
      BY TxAssumption
    <3> QED  BY <3>1 DEF NOT_IN_BLOCK
  <2>3. Len(chan') = 0
    BY <1>1
  <2> HIDE DEF NOT_IN_BLOCK
  <2> QED  BY <1>1, <2>1, <2>2, <2>3 DEF UtxoInStep
<1>12. HeadersInStep'
  <2>1. Len(chan') = 0
    BY <1>1
  <2> QED  BY <1>1, <2>1 DEF IInv, HeadersInStep
<1> QED  BY <1>7, <1>8, <1>9, <1>10, <1>11, <1>12 DEF IInv

(* Every step keeps the invariant.                                          *)
LEMMA NextInv == IInv /\ [Next]_vars => IInv'
<1> SUFFICES ASSUME IInv, [Next]_vars  PROVE IInv'
  OBVIOUS
<1>1. ASSUME NEW t \in Tx, TxEvent(t) \/ TxForBroadcast(t)  PROVE IInv'
  <2>1. PICK broadcast \in BOOLEAN : OnTx(t, broadcast)
    BY <1>1 DEF TxEvent, TxForBroadcast
  <2>2. ProcessCollection(t, broadcast) /\ dynamic' = dynamic /\ configFile' = configFile
    BY <2>1 DEF OnTx
  <2>3. Collections'
    BY <2>2, ProcessCollectionInv DEF IInv
  <2> QED  BY <2>1, <2>3, OnTxInv DEF IInv
<1>2. ASSUME NEW b \in Blk, OnBlock(b)  PROVE IInv'
  <2>1. Collections'
    BY <1>2, CollectionsUnchanged DEF OnBlock, tables, IInv
  <2> QED  BY <1>2, <2>1, OnBlockInv DEF IInv
<1>3. CASE HandleOrphanBlock
  <2>1. Collections'
    BY <1>3, CollectionsUnchanged DEF HandleOrphanBlock, tables, IInv
  <2> QED  BY <1>3, <2>1, HandleOrphanBlockInv DEF IInv
<1>4. CASE SetState
  <2>1. ready' \in BOOLEAN
    BY <1>4 DEF SetState
  <2>2. Types' /\ MempoolInStep' /\ UtxoInStep' /\ ChainOrdered' /\ HeadersInStep'
    BY <1>4, <2>1, StateUnchanged DEF SetState, memory, blockManager, tables, history
  <2>3. Collections'
    BY <1>4, CollectionsUnchanged DEF SetState, memory, tables, IInv
  <2> QED  BY <2>2, <2>3 DEF IInv
<1>5. ASSUME NEW m \in Monitors, AddMonitor(m) \/ DeleteMonitor(m)  PROVE IInv'
  <2>1. ready' \in BOOLEAN
    BY <1>5 DEF AddMonitor, DeleteMonitor, IInv, Types
  <2>2. Types' /\ MempoolInStep' /\ UtxoInStep' /\ ChainOrdered' /\ HeadersInStep'
    BY <1>5, <2>1, StateUnchanged DEF AddMonitor, DeleteMonitor, blockManager, history
  <2> QED  BY <1>5, <2>2, AddMonitorInv, DeleteMonitorInv DEF IInv
<1>6. ASSUME NEW n \in 1..Len(chan), NEW lost \in {0, 1}, DbPerform(n, lost)  PROVE IInv'
  BY <1>6, DbPerformStep
<1>7. ASSUME NEW fails, Restart(fails)  PROVE IInv'
  BY <1>7, RestartInv
<1>8. CASE UNCHANGED vars
  <2>1. ready' \in BOOLEAN
    BY <1>8 DEF vars, IInv, Types
  <2>2. Types' /\ MempoolInStep' /\ UtxoInStep' /\ ChainOrdered' /\ HeadersInStep'
    BY <1>8, <2>1, StateUnchanged DEF vars, memory, blockManager, tables, history
  <2>3. Collections'
    BY <1>8, CollectionsUnchanged DEF vars, memory, tables, IInv
  <2> QED  BY <2>2, <2>3 DEF IInv
<1>9. FromPeers \subseteq Tx /\ FromClients \subseteq Tx
  BY TxAssumption
<1> QED  BY <1>1, <1>2, <1>3, <1>4, <1>5, <1>6, <1>7, <1>8, <1>9 DEF Next

(* The invariant holds in every state.                                      *)
LEMMA InvHolds == Spec => []IInv
<1>1. Init => IInv
  BY InitInv
<1>2. IInv /\ [Next]_vars => IInv'
  BY NextInv
<1> QED  BY <1>1, <1>2, PTL DEF Spec

-----------------------------------------------------------------------------
(* Transactions, outputs, blocks, collections and rows stay what they are,  *)
(* whatever is handled, rolled back, stored and reloaded, and no            *)
(* TxBatchWrite follows another in the channel.                             *)
THEOREM TypeCorrect == Spec => []TypeOK
<1>1. IInv => TypeOK
  <2> SUFFICES ASSUME IInv  PROVE TypeOK
    OBVIOUS
  <2>1. chain \in Seq(Blk) /\ hash_to_index \in [Blk -> Nat \cup {None}] /\ height \in Nat
    BY DEF IInv, ChainOrdered
  <2>2. \A i \in DOMAIN collection : collection[i].name \in Name /\ collection[i].txs \subseteq Tx
    <3>1. collection \in Seq(Entries)
      BY DEF IInv, Collections
    <3>2. \A i \in DOMAIN collection : collection[i] \in Entries
      BY <3>1
    <3> QED  BY <3>2 DEF Entries
  <2>3. utxo \in [Outpoint -> {NOT_IN_BLOCK} \cup Nat \cup {None}]
    <3>1. utxo \in [Outpoint -> {NOT_IN_BLOCK, None}]
      BY DEF IInv, Types, Heights
    <3> QED  BY <3>1
  <2>4. ready \in BOOLEAN
    BY DEF IInv, Types
  <2> QED  BY <2>1, <2>2, <2>3, <2>4 DEF IInv, Types, Collections, TypeOK
<1> QED  BY <1>1, InvHolds, PTL

(* Once the writer has caught up with what add_to_mempool and process_block *)
(* sent, the mempool table and the mempool agree on every transaction but   *)
(* those whose last operation it dropped or did not reach.                  *)
THEOREM MempoolFollows == Spec => []MempoolTableFollows
<1>1. IInv => MempoolTableFollows
  <2> SUFFICES ASSUME IInv, chan = <<>>, NEW t \in Tx \ missed
               PROVE  /\ t \in mempool => t \in tMempool
                      /\ t \in tMempool => t \in mempool \/ "mempool" \in failed
    BY DEF MempoolTableFollows
  <2>1. Len(chan) = 0
    OBVIOUS
  <2> QED  BY <2>1 DEF IInv, MempoolInStep, Agrees
<1> QED  BY <1>1, InvHolds, PTL

(* Once the writer has caught up with what update_db sent, the utxo table   *)
(* differs from the unspent outputs only in the rows that wait and in those *)
(* last sent in Ready state: a block's flush is never dropped.              *)
THEOREM UtxoFollows == Spec => []UtxoTableFollows
<1>1. IInv => UtxoTableFollows
  <2> SUFFICES ASSUME IInv, chan = <<>>, NEW o \in Outpoint, tUtxo[o] # utxo[o],
                      o \notin utxo_entries \cup risked
               PROVE  "utxo" \in failed /\ utxo[o] = None
    BY DEF UtxoTableFollows
  <2>1. Len(chan) = 0
    OBVIOUS
  <2>2. tUtxo[o] \in {NOT_IN_BLOCK, None} /\ utxo[o] \in {NOT_IN_BLOCK, None}
    BY DEF IInv, Types, Heights
  <2>3. utxo[o] = NOT_IN_BLOCK => tUtxo[o] = NOT_IN_BLOCK
    BY <2>1 DEF IInv, UtxoInStep
  <2>4. tUtxo[o] = NOT_IN_BLOCK => utxo[o] = NOT_IN_BLOCK \/ "utxo" \in failed
    BY DEF IInv, UtxoInStep
  <2> HIDE DEF NOT_IN_BLOCK
  <2> QED  BY <2>2, <2>3, <2>4
<1> QED  BY <1>1, InvHolds, PTL

(* Once the writer has caught up, every header row is a header in memory at *)
(* its height: it never drops the deletion of a block that                  *)
(* handle_orphan_block rolled back.                                         *)
THEOREM NoRolledBackRow == Spec => []RolledBackStaysGone
<1>1. IInv => RolledBackStaysGone
  <2> SUFFICES ASSUME IInv, chan = <<>>, NEW b \in Blk, tBlocks[b] # None
               PROVE  hash_to_index[b] = tBlocks[b]
    BY DEF RolledBackStaysGone
  <2>1. Len(chan) = 0
    OBVIOUS
  <2> QED  BY <2>1 DEF IInv, HeadersInStep
<1> QED  BY <1>1, InvHolds, PTL

(* handle_orphan_block reaches no transaction at the height of a block that *)
(* stays stored, neither in memory nor, when the writer gets to it, in the  *)
(* table.                                                                   *)
THEOREM RollbackSpares == Spec => RollbackSparesStored
<1> DEFINE InMemory == Len(chan') > Len(chan) =>
                          \A t \in Tx : txs[t] # None /\ txs'[t] = None =>
                             \A b \in Blk : hash_to_index'[b] # txs[t]
           InTable == \A t \in Tx : tTx[t] # None /\ tTx'[t] = None => \A b \in Blk : tBlocks[b] # tTx[t]
<1>1. IInv /\ [Next]_vars => [InMemory /\ InTable]_vars
  <2> SUFFICES ASSUME IInv, Next  PROVE InMemory /\ InTable
    OBVIOUS
  <2>1. chan \in Seq(Ops) /\ Len(chan) \in Nat
    BY DEF IInv, Types
  <2>2. height \in Nat /\ ChainOrdered /\ hash_to_index \in [Blk -> Nat \cup {None}]
        /\ txs \in [Tx -> Nat \cup {None}] /\ None \notin Nat
    BY TxAssumption DEF IInv, ChainOrdered, Types
  <2>3. ASSUME NEW t \in Tx, TxEvent(t) \/ TxForBroadcast(t)  PROVE InMemory /\ InTable
    <3>1. txs' = txs /\ tTx' = tTx
      BY <2>3 DEF TxEvent, TxForBroadcast, OnTx
    <3> QED  BY <3>1
  <2>4. ASSUME NEW b \in Blk, OnBlock(b)  PROVE InMemory /\ InTable
    <3>1. /\ txs' = IF SaveTxs THEN [t \in Tx |-> IF t \in Range(Txns[b]) THEN height ELSE txs[t]]
                    ELSE txs
          /\ tTx' = tTx
      BY <2>4 DEF OnBlock, tables
    <3>2. height # None
      BY <2>2
    <3>3. \A t \in Tx : txs[t] # None => txs'[t] # None
      BY <3>1, <3>2
    <3> QED  BY <3>1, <3>3
  <2>5. CASE HandleOrphanBlock
    <3>1. /\ txs' = RemoveAtHeight(txs, height) /\ tTx' = tTx
          /\ hash_to_index' = [hash_to_index EXCEPT ![chain[Len(chain)]] = None]
      BY <2>5 DEF HandleOrphanBlock, tables
    <3>2. \A t \in Tx : txs[t] # None /\ txs'[t] = None => txs[t] = height
      BY <2>2, <3>1 DEF RemoveAtHeight
    <3>3. \A b \in Blk : hash_to_index'[b] # height
      <4> TAKE b \in Blk
      <4>1. hash_to_index'[b] = hash_to_index[b] \/ hash_to_index'[b] = None
        BY <2>2, <3>1
      <4>2. hash_to_index[b] # height
        BY <2>2, NextHeightFree
      <4> QED  BY <2>2, <4>1, <4>2
    <3> QED  BY <3>1, <3>2, <3>3
  <2>6. CASE SetState
    BY <2>1, <2>6 DEF SetState, memory, tables
  <2>7. ASSUME NEW m \in Monitors, AddMonitor(m) \/ DeleteMonitor(m)  PROVE InMemory /\ InTable
    <3>1. txs' = txs /\ tTx' = tTx
      BY <2>7 DEF AddMonitor, DeleteMonitor
    <3> QED  BY <3>1
  <2>8. ASSUME NEW n \in 1..Len(chan), NEW lost \in {0, 1}, DbPerform(n, lost)  PROVE InMemory /\ InTable
    <3>1. txs' = txs
      BY <2>8 DEF DbPerform, memory
    <3> QED  BY <2>8, <3>1, DbPerformStep
  <2>9. ASSUME NEW fails, Restart(fails)  PROVE InMemory /\ InTable
    <3>1. chan' = <<>> /\ tTx' = tTx
      BY <2>9 DEF Restart, tables
    <3>2. ~(Len(chan') > Len(chan))
      BY <2>1, <3>1
    <3> QED  BY <3>1, <3>2
  <2>10. FromPeers \subseteq Tx /\ FromClients \subseteq Tx
    BY TxAssumption
  <2> QED  BY <2>3, <2>4, <2>5, <2>6, <2>7, <2>8, <2>9, <2>10 DEF Next
<1>2. IInv /\ [Next]_vars
      => [/\ Len(chan') > Len(chan) =>
               \A t \in Tx : txs[t] # None /\ txs'[t] = None => \A b \in Blk : hash_to_index'[b] # txs[t]
          /\ \A t \in Tx : tTx[t] # None /\ tTx'[t] = None => \A b \in Blk : tBlocks[b] # tTx[t]]_vars
  BY <1>1
<1> HIDE DEF InMemory, InTable
<1> QED  BY <1>2, InvHolds, PTL DEF Spec, RollbackSparesStored
=============================================================================

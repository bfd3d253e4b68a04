------------------------------ MODULE TxAnalyser ------------------------------
(***************************************************************************)
(* The transaction analyser (rust/src/uaas/tx_analyser.rs) with the parts  *)
(* it owns: the transactions and the mempool (txdb.rs), the unspent        *)
(* outputs (utxo.rs), the collections and their monitors (collection.rs,   *)
(* dynamic_config.rs), and the tables behind them.                         *)
(*                                                                         *)
(* Each handler runs to its end on the peer manager thread; the writer     *)
(* thread and a restart come between handlers.  Rows to be written are     *)
(* sent at the end of the handler that made them, except those of          *)
(* utxo_entries, which wait for the Ready state or the next block.         *)
(*                                                                         *)
(* Two loops of the source are built with Iterator::map and never consumed *)
(* (`let _ = ....map(...)`), so Rust never runs them: the one over the     *)
(* inputs in process_tx_inputs and the one over the transactions in        *)
(* process_block.  The model has no step for their bodies either.          *)
(*                                                                         *)
(* The writer performs the operations in order, but merges batches of one  *)
(* type and drops the operation behind them (database.rs:182-246), so all  *)
(* operations are sent here, the empty batches too.  A statement that      *)
(* fails for another reason than a taken key is the subject of             *)
(* Database.tla.                                                           *)
(***************************************************************************)
EXTENDS Integers, FiniteSets, Sequences, SequencesExt

CONSTANTS
    Tx,            \* transactions
    FromPeers,     \* those that peers send
    FromClients,   \* those that clients submit for broadcast
    Inputs,        \* the outpoints <<tx, index>> each transaction spends
    Outputs,       \* the indexes of the outputs of each transaction
    Unspendable,   \* outpoints whose script starts with OP_FALSE OP_RETURN
    Blk,           \* blocks
    Prev,          \* the block before each block, None for the start block
    Txns,          \* the transactions of each block, in order
    SaveTxs,       \* settings.save_txs
    Static,        \* the configured collections, a sequence of names
    Monitors,      \* names of the monitors that clients add and delete
    Matches,       \* the transactions whose scripts match each name's pattern
    Tracks,        \* the names with track_descendants
    Rollbacks,     \* whether the block manager rolls blocks back
    Restarts,      \* whether the process can stop and start again
    FailingLoads,  \* sets of tables whose SELECTs at a start may fail together
    None,
    MaxChan        \* bound on the operations in the channel

Name == {Static[i] : i \in DOMAIN Static} \cup Monitors \cup {"broadcast"}

ASSUME TxAssumption ==
    /\ FromPeers \subseteq Tx /\ FromClients \subseteq Tx
    /\ Static \in Seq(Name)
    /\ Inputs \in [Tx -> SUBSET (Tx \X Nat)]
    /\ Outputs \in [Tx -> SUBSET Nat]
    /\ Txns \in [Blk -> Seq(Tx)]
    /\ Prev \in [Blk -> Blk \cup {None}]
    /\ Matches \in [Name -> SUBSET Tx]
    /\ Tracks \subseteq Name
    /\ FailingLoads \subseteq SUBSET {"mempool", "tx", "utxo", "collection"}
    /\ MaxChan \in Nat
    /\ None \notin Int

VARIABLES
    mempool,        \* transactions not yet seen in a block
    txs,            \* tx -> height of its block, or None
    utxo,           \* outpoint -> height, or None
    utxo_entries,   \* outpoints whose row is still to be written
    ready,          \* Logic is in state Ready
    chain,          \* the headers the block manager holds
    hash_to_index,  \* block -> its height, or None
    height,         \* the height the next block gets
    last_hash_processed,
    collection,     \* the working collections, in order: name and txs
    dynamic,        \* dynamic_config.collection: names, in order
    chan,           \* operations sent to the database writer
    tMempool, tTx, tUtxo, tBlocks, tCollection, configFile,
    failed,         \* history: the tables whose SELECT failed at the last start,
    missed,         \* the transactions whose last mempool operation had no effect,
    risked          \* the outpoints whose row was last sent in Ready state

blockManager == <<chain, hash_to_index, height, last_hash_processed>>
memory == <<mempool, txs, utxo, utxo_entries, blockManager, collection, dynamic>>
tables == <<tMempool, tTx, tUtxo, tBlocks, tCollection, configFile>>
history == <<failed, missed, risked>>
vars == <<memory, ready, chan, tables, history>>

NOT_IN_BLOCK == -1
Outpoint == UNION {{<<t, n>> : n \in Outputs[t]} : t \in Tx}

-----------------------------------------------------------------------------
(* The collections a start builds: configured, dynamic, then broadcast,     *)
(* each with the transactions of its rows.                                  *)
LoadCollections(names, rows) ==
    LET all == Static \o names \o <<"broadcast">>
    IN [i \in DOMAIN all |-> [name |-> all[i],
                              txs |-> {t \in Tx : <<all[i], t>> \in rows}]]

Init ==
    /\ mempool = {}
    /\ txs = [t \in Tx |-> None]
    /\ utxo = [o \in Outpoint |-> None]
    /\ utxo_entries = {}
    /\ ready = FALSE
    /\ chain = <<>>
    /\ hash_to_index = [b \in Blk |-> None]
    /\ height = 1
    /\ last_hash_processed = None
    /\ collection = LoadCollections(<<>>, {})
    /\ dynamic = <<>>
    /\ chan = <<>>
    /\ tMempool = {}
    /\ tTx = [t \in Tx |-> None]
    /\ tUtxo = [o \in Outpoint |-> None]
    /\ tBlocks = [b \in Blk |-> None]
    /\ tCollection = {}
    /\ configFile = <<>>
    /\ failed = {}
    /\ missed = {}
    /\ risked = {}

(* DBOperationType *)
Op(op, rows) == [op |-> op, rows |-> rows]

(* Mutant of UtxoRows: the rows of unconfirmed outputs get height 0.        *)
UtxoRowsAtZero(entries, heights) ==
    {<<o, IF heights[o] = NOT_IN_BLOCK THEN 0 ELSE heights[o]>> : o \in entries}

(* utxo.update_db: the rows that wait, with their heights. *)
UtxoRows(entries, heights) == {<<o, heights[o]>> : o \in entries}

(* utxo.update_db sends both batches, empty or not; no outpoint is ever     *)
(* deleted.                                                                 *)
UpdateDb(rows) == <<Op("UtxoBatchWrite", rows), Op("UtxoBatchDelete", {})>>

(* flush_database_cache: no row of the mempool waits for it. *)
FlushDatabaseCache(rows, mined, entries) ==
    UpdateDb(rows) \o <<Op("MempoolBatchDelete", mined)>>
                   \o (IF SaveTxs THEN <<Op("TxBatchWrite", entries)>> ELSE <<>>)

(* Mutant of SpendableOutputs: outputs are counted from 1.                  *)
OutputsFromOne(t) == {<<t, n + 1>> : n \in Outputs[t]} \ Unspendable

(* process_tx_outputs with utxo.add: every spendable output is unspent. *)
SpendableOutputs(t) == {<<t, n>> : n \in Outputs[t]} \ Unspendable
AddOutputs(t, h) == [o \in Outpoint |-> IF o \in SpendableOutputs(t) THEN h ELSE utxo[o]]

(* process_collection: the first collection that has the transaction ends   *)
(* the search, the first that wants it takes it, and a broadcast one that   *)
(* nobody took goes to "broadcast".                                         *)
Wants(c, t) ==
    \/ c.name \in Tracks /\ \E o \in Inputs[t] : o[1] \in c.txs
    \/ t \in Matches[c.name]
Taker(t, broadcast) ==
    LET hits == {i \in DOMAIN collection : t \in collection[i].txs \/ Wants(collection[i], t)}
        named == {i \in DOMAIN collection : collection[i].name = "broadcast"}
    IN IF hits # {}
       THEN IF t \in collection[Min(hits)].txs THEN None ELSE Min(hits)
       ELSE IF broadcast /\ named # {} THEN Min(named) ELSE None

(* push and write_tx_to_database, whose INSERT fails on an existing row,    *)
(* and may fail for good on a new one; both are only logged.                *)
ProcessCollection(t, broadcast) ==
    LET i == Taker(t, broadcast) IN
    IF i = None THEN UNCHANGED <<collection, tCollection>>
    ELSE /\ collection' = [collection EXCEPT ![i].txs = @ \cup {t}]
         /\ \/ tCollection' = tCollection \cup {<<collection[i].name, t>>}
            \/ UNCHANGED tCollection

(* Mutant of OnTx: the mempool rows are sent in Ready state only.           *)
OnTxWhenReady(t, broadcast) ==
    /\ Len(chan) < MaxChan
    /\ mempool' = mempool \cup {t}
    /\ utxo' = AddOutputs(t, NOT_IN_BLOCK)
    /\ LET entries == utxo_entries \cup SpendableOutputs(t) IN
       /\ utxo_entries' = IF ready THEN {} ELSE entries
       /\ risked' = IF ready THEN risked \cup entries ELSE risked
       /\ chan' = IF ready THEN chan \o <<Op("MempoolBatchWrite", t)>>
                                   \o UpdateDb(UtxoRows(entries, utxo')) ELSE chan
    /\ ProcessCollection(t, broadcast)
    /\ UNCHANGED <<txs, ready, blockManager, dynamic, tMempool, tTx, tUtxo, tBlocks, configFile,
                   failed, missed>>

(* The operations of a transaction: its mempool row, and in Ready state the *)
(* utxo rows that wait.  A broadcast one is followed by                     *)
(* Logic::flush_database_cache, which finds nothing left to write.          *)
OnTxOps(t, broadcast, rows) ==
    <<Op("MempoolBatchWrite", t)>>
        \o (IF ready THEN UpdateDb(rows) ELSE <<>>)
        \o (IF ready /\ broadcast THEN FlushDatabaseCache({}, {}, <<>>) ELSE <<>>)

(* Logic::on_tx with process_standalone_tx: to the mempool, its outputs to  *)
(* the utxo, its collection, and in Ready state the utxo rows are sent.     *)
OnTx(t, broadcast) ==
    /\ Len(chan) < MaxChan
    /\ mempool' = mempool \cup {t}
    /\ utxo' = AddOutputs(t, NOT_IN_BLOCK)
    /\ LET entries == utxo_entries \cup SpendableOutputs(t) IN
       /\ utxo_entries' = IF ready THEN {} ELSE entries
       /\ risked' = IF ready THEN risked \cup entries ELSE risked
       /\ chan' = chan \o OnTxOps(t, broadcast, UtxoRows(entries, utxo'))
    /\ ProcessCollection(t, broadcast)
    /\ UNCHANGED <<txs, ready, blockManager, dynamic, tMempool, tTx, tUtxo, tBlocks, configFile,
                   failed, missed>>

TxExists(t) == \/ txs[t] # None
               \/ t \in mempool
               \/ \E i \in DOMAIN collection : t \in collection[i].txs

(* A transaction from the network, and one from the REST interface: the     *)
(* latter is handled only when it is new and was sent to a peer.            *)
TxEvent(t) == OnTx(t, FALSE)
TxForBroadcast(t) == ~TxExists(t) /\ OnTx(t, TRUE)

(* The operations of a block: its header row, then the flush of what waits. *)
OnBlockOps(b) ==
    <<Op("BlockHeaderWrite", <<b, height>>)>>
        \o FlushDatabaseCache(UtxoRows(utxo_entries, utxo), mempool \cap Range(Txns[b]),
                              [i \in DOMAIN Txns[b] |-> <<Txns[b][i], height>>])

(* BlockManager::on_block with TxAnalyser::process_block: the header,       *)
(* txdb.process_block and the flush.                                        *)
OnBlock(b) ==
    LET mined == Range(Txns[b]) IN
    /\ Len(chan) < MaxChan
    /\ hash_to_index[b] = None /\ Prev[b] = last_hash_processed
    /\ chain' = Append(chain, b)
    /\ hash_to_index' = [hash_to_index EXCEPT ![b] = height]
    /\ height' = height + 1
    /\ last_hash_processed' = b
    /\ mempool' = mempool \ mined
    /\ txs' = IF SaveTxs THEN [t \in Tx |-> IF t \in mined THEN height ELSE txs[t]] ELSE txs
    /\ utxo_entries' = {}
    /\ risked' = risked \ utxo_entries
    /\ chan' = chan \o OnBlockOps(b)
    /\ UNCHANGED <<utxo, ready, collection, dynamic, tables, failed, missed>>

(* Mutant of RemoveAtHeight: the height of the block below.                 *)
RemoveBelow(f, h) == [x \in DOMAIN f |-> IF f[x] = h - 2 THEN None ELSE f[x]]

(* retain in memory, DELETE ... WHERE height in a table *)
RemoveAtHeight(f, h) == [x \in DOMAIN f |-> IF f[x] = h THEN None ELSE f[x]]

(* Mutant of OrphanOps: the row is deleted before it is copied.             *)
DeletedFirst(b) ==
    <<Op("BlockHeaderDelete", b), Op("OrphanBlockHeaderWrite", b),
      Op("TxDelete", height), Op("UtxoDelete", height)>>

(* The operations of a roll-back. *)
OrphanOps(b) ==
    <<Op("OrphanBlockHeaderWrite", b), Op("BlockHeaderDelete", b),
      Op("TxDelete", height), Op("UtxoDelete", height)>>

(* handle_orphan_block: the block manager passes its next height, which is  *)
(* one above the block it removes, and keeps last_hash_processed.           *)
HandleOrphanBlock ==
    LET b == chain[Len(chain)] IN
    /\ Rollbacks /\ chain # <<>> /\ Len(chan) < MaxChan
    /\ chain' = SubSeq(chain, 1, Len(chain) - 1)
    /\ hash_to_index' = [hash_to_index EXCEPT ![b] = None]
    /\ height' = height - 1
    /\ txs' = RemoveAtHeight(txs, height)
    /\ utxo' = RemoveAtHeight(utxo, height)
    /\ chan' = chan \o OrphanOps(b)
    /\ UNCHANGED <<mempool, utxo_entries, last_hash_processed, ready, collection, dynamic,
                   tables, history>>

(* Logic reaches or leaves the Ready state. *)
SetState ==
    /\ ready' = ~ready
    /\ UNCHANGED <<memory, chan, tables, history>>

(* add_monitor: refused when a collection has the name; the new collection  *)
(* goes behind the others and starts without transactions.                  *)
AddMonitor(m) ==
    /\ \A i \in DOMAIN collection : collection[i].name # m
    /\ collection' = Append(collection, [name |-> m, txs |-> {}])
    /\ dynamic' = Append(dynamic, m)
    /\ configFile' = Append(dynamic, m)
    /\ UNCHANGED <<mempool, txs, utxo, utxo_entries, blockManager, ready, chan,
                   tMempool, tTx, tUtxo, tBlocks, tCollection, history>>

(* delete_monitor: only a dynamic one; its rows stay in the table. *)
DeleteMonitor(m) ==
    LET first == Min({i \in DOMAIN collection : collection[i].name = m}) IN
    /\ m \in Range(dynamic)
    /\ collection' = RemoveAt(collection, first)
    /\ dynamic' = RemoveFirst(dynamic, m)
    /\ configFile' = RemoveFirst(dynamic, m)
    /\ UNCHANGED <<mempool, txs, utxo, utxo_entries, blockManager, ready, chan,
                   tMempool, tTx, tUtxo, tBlocks, tCollection, history>>

-----------------------------------------------------------------------------
(* The rows an INSERT of a batch gets to: it stops at the first one whose   *)
(* key is taken, by the table or by a row before it.                        *)
Tried(keys, taken) ==
    {i \in DOMAIN keys : \A j \in 1..(i - 1) :
        keys[j] \notin taken /\ \A k \in 1..(j - 1) : keys[k] # keys[j]}

InsertTx(rows) ==
    LET keys == [i \in DOMAIN rows |-> rows[i][1]]
        tried == Tried(keys, {t \in Tx : tTx[t] # None})
    IN [t \in Tx |-> IF tTx[t] = None /\ \E i \in tried : keys[i] = t
                     THEN (CHOOSE r \in Range(rows) : r[1] = t)[2] ELSE tTx[t]]

(* The transactions whose mempool row an operation is about.                *)
Concerns(e) == CASE e.op = "MempoolBatchWrite" -> {e.rows}
                 [] e.op = "MempoolBatchDelete" -> e.rows
                 [] OTHER -> {}

Batches == {"UtxoBatchWrite", "UtxoBatchDelete", "TxBatchWrite",
            "MempoolBatchWrite", "MempoolBatchDelete"}

(* The writer performs the next operation.  Behind a batch it takes more    *)
(* batches of the type, as far as they have been sent, and loses the        *)
(* operation it takes to see that there is no further one.  Merged REPLACE  *)
(* and DELETE batches do what they do one by one, and no TxBatchWrite       *)
(* follows another; n counts the merged MempoolBatchWrites, one row each.   *)
DbPerform(n, lost) ==
    LET op == chan[1].op
        rows == chan[1].rows
        keys == [i \in 1..n |-> chan[i].rows]
        tried == Tried(keys, tMempool)
        reached == IF op = "MempoolBatchWrite" THEN {keys[i] : i \in tried} ELSE Concerns(chan[1])
        passed == (UNION {Concerns(chan[i]) : i \in 1..n}) \ reached
    IN
    /\ n + lost <= Len(chan)
    /\ n > 1 => \A i \in 1..n : chan[i].op = "MempoolBatchWrite"
    /\ lost = 1 => op \in Batches /\ chan[n + 1].op # op
    /\ chan' = SubSeq(chan, n + lost + 1, Len(chan))
    /\ tMempool' = CASE op = "MempoolBatchWrite" -> tMempool \cup reached
                     [] op = "MempoolBatchDelete" -> tMempool \ rows
                     [] OTHER -> tMempool
    /\ tUtxo' = CASE op = "UtxoBatchWrite" ->
                       [o \in Outpoint |-> IF \E r \in rows : r[1] = o
                                           THEN (CHOOSE r \in rows : r[1] = o)[2] ELSE tUtxo[o]]
                  [] op = "UtxoDelete" -> RemoveAtHeight(tUtxo, rows)
                  [] OTHER -> tUtxo
    /\ tTx' = CASE op = "TxBatchWrite" -> InsertTx(rows)
                [] op = "TxDelete" -> RemoveAtHeight(tTx, rows)
                [] OTHER -> tTx
    /\ tBlocks' = CASE op = "BlockHeaderWrite" /\ tBlocks[rows[1]] = None ->
                         [tBlocks EXCEPT ![rows[1]] = rows[2]]
                    [] op = "BlockHeaderDelete" -> [tBlocks EXCEPT ![rows] = None]
                    [] OTHER -> tBlocks
    /\ missed' = (missed \ reached) \cup passed \cup
                 (IF lost = 1 THEN Concerns(chan[n + 1]) ELSE {})
    /\ UNCHANGED <<memory, ready, tCollection, configFile, failed, risked>>

(* The SELECTs of a start.  One that fails is logged, and the service goes  *)
(* on without what the table holds.                                         *)
LoadMempool(fails) == IF "mempool" \in fails THEN {} ELSE tMempool
LoadTx(fails) == IF ~SaveTxs \/ "tx" \in fails THEN [t \in Tx |-> None] ELSE tTx
LoadUtxo(fails) == IF "utxo" \in fails THEN [o \in Outpoint |-> None] ELSE tUtxo
LoadTxs(fails) == IF "collection" \in fails THEN {} ELSE tCollection

(* SELECT * FROM blocks ORDER BY height *)
Rows == {b \in Blk : tBlocks[b] # None}
RowOrders ==
    {s \in [1..Cardinality(Rows) -> Rows] :
        /\ {s[i] : i \in DOMAIN s} = Rows
        /\ \A i, j \in DOMAIN s : i # j => s[i] # s[j]
        /\ \A i, j \in DOMAIN s : i <= j => tBlocks[s[i]] <= tBlocks[s[j]]}

(* The process ends and starts again: new, setup and read_tables.  What the *)
(* writer had not performed is gone.                                        *)
Restart(fails) ==
    /\ Restarts
    /\ mempool' = LoadMempool(fails)
    /\ txs' = LoadTx(fails)
    /\ utxo' = LoadUtxo(fails)
    /\ utxo_entries' = {}
    /\ ready' = FALSE
    /\ \E s \in RowOrders :
          /\ chain' = s
          /\ height' = IF s = <<>> THEN 1 ELSE tBlocks[s[Len(s)]] + 1
          /\ last_hash_processed' = IF s = <<>> THEN None ELSE s[Len(s)]
    /\ hash_to_index' = tBlocks
    /\ dynamic' = configFile
    /\ collection' = LoadCollections(configFile, LoadTxs(fails))
    /\ chan' = <<>>
    /\ failed' = fails
    /\ missed' = {}
    /\ risked' = {}
    /\ UNCHANGED tables

Next ==
    \/ \E t \in FromPeers : TxEvent(t)
    \/ \E t \in FromClients : TxForBroadcast(t)
    \/ \E b \in Blk : OnBlock(b)
    \/ HandleOrphanBlock
    \/ SetState
    \/ \E m \in Monitors : AddMonitor(m) \/ DeleteMonitor(m)
    \/ \E n \in 1..Len(chan), lost \in {0, 1} : DbPerform(n, lost)
    \/ \E fails \in {{}} \cup FailingLoads : Restart(fails)

Spec == Init /\ [][Next]_vars

-----------------------------------------------------------------------------
TypeOK ==
    /\ mempool \subseteq Tx
    /\ txs \in [Tx -> Nat \cup {None}]
    /\ utxo \in [Outpoint -> {NOT_IN_BLOCK} \cup Nat \cup {None}]
    /\ utxo_entries \subseteq Outpoint
    /\ ready \in BOOLEAN
    /\ chain \in Seq(Blk)
    /\ hash_to_index \in [Blk -> Nat \cup {None}] /\ height \in Nat
    /\ last_hash_processed \in Blk \cup {None}
    /\ \A i \in DOMAIN collection : collection[i].name \in Name /\ collection[i].txs \subseteq Tx
    /\ tCollection \subseteq Name \X Tx
    /\ \A i \in 1..(Len(chan) - 1) : chan[i].op = "TxBatchWrite" => chan[i + 1].op # "TxBatchWrite"

(* Once the writer has caught up, the mempool table and the mempool in      *)
(* memory agree on every transaction but those whose last operation the     *)
(* writer dropped behind a batch or did not reach behind a taken key,       *)
(* however transactions are repeated, mined and reloaded.  After a start    *)
(* that could not read the table it may hold more.                          *)
MempoolTableFollows ==
    chan = <<>> => \A t \in Tx \ missed :
        /\ t \in mempool => t \in tMempool
        /\ t \in tMempool => t \in mempool \/ "mempool" \in failed

(* Once the writer has caught up, the utxo table differs from the memory    *)
(* only in the outputs whose rows wait, and in those whose rows were last   *)
(* sent in Ready state: behind MempoolBatchWrite the writer may drop them,  *)
(* and utxo_entries has forgotten them.  The rows that a block flushes are  *)
(* never dropped, as they follow its header, which is no batch.  After a    *)
(* start that could not read the table it holds outputs that the memory     *)
(* does not know.                                                           *)
UtxoTableFollows ==
    chan = <<>> => \A o \in Outpoint : tUtxo[o] # utxo[o] =>
        o \in utxo_entries \cup risked \/ ("utxo" \in failed /\ utxo[o] = None)

(* Once the writer has caught up, every header row is a header in memory,   *)
(* at its height: the writer can drop the header of a new block, but never  *)
(* the deletion of a rolled-back one, which follows the orphan row.  So no  *)
(* restart from here brings a rolled-back block back.                       *)
RolledBackStaysGone ==
    chan = <<>> => \A b \in Blk : tBlocks[b] # None => hash_to_index[b] = tBlocks[b]

(* A roll-back deletes transactions by a height that is one above the block *)
(* it removes.  Neither in memory nor, when the writer gets to it, in the   *)
(* table does it reach a transaction at the height of a block that stays    *)
(* stored, whatever headers the writer has dropped.                         *)
RollbackSparesStored ==
    [][/\ Len(chan') > Len(chan) =>
             \A t \in Tx : txs[t] # None /\ txs'[t] = None =>
                \A b \in Blk : hash_to_index'[b] # txs[t]
       /\ \A t \in Tx : tTx[t] # None /\ tTx'[t] = None => \A b \in Blk : tBlocks[b] # tTx[t]]_vars
=============================================================================

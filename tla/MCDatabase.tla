------------------------------ MODULE MCDatabase ------------------------------
(***************************************************************************)
(* What the handlers send: two blocks with the flush that follows each     *)
(* header (tx t1 of the first block leaves the mempool), two standalone    *)
(* transactions in Ready state, and the roll-back of an orphan.            *)
(***************************************************************************)
EXTENDS Database

Write(type, rows) == [op |-> type, rows |-> rows]
FlushOps(entries, deletes, mined, confirmed) ==
    <<Write("UtxoBatchWrite", entries), Write("UtxoBatchDelete", deletes),
      Write("MempoolBatchDelete", mined), Write("TxBatchWrite", confirmed)>>
BlockOps(b, h, mined) ==
    <<Write("BlockHeaderWrite", <<<<b, h>>>>)>> \o FlushOps(<<>>, <<>>, mined,
        [i \in DOMAIN mined |-> <<mined[i][1], h>>])
TxOps(t) ==
    <<Write("MempoolBatchWrite", <<<<t, 0>>>>), Write("UtxoBatchWrite", <<<<t, -1>>>>),
      Write("UtxoBatchDelete", <<>>)>>
OrphanOps(b, h) ==
    <<Write("OrphanBlockHeaderWrite", <<<<b, h + 1>>>>), Write("BlockHeaderDelete", <<<<b, 0>>>>),
      Write("TxDelete", <<<<"", h + 1>>>>), Write("UtxoDelete", <<<<"", h + 1>>>>)>>

MCPrograms ==
    {TxOps("t1") \o BlockOps("a", 1, <<<<"t1", 0>>>>) \o BlockOps("b", 2, <<>>),
     BlockOps("a", 1, <<>>) \o BlockOps("b", 2, <<>>) \o OrphanOps("b", 2),
     <<Write("MempoolBatchWrite", <<<<"t1", 0>>>>), Write("MempoolBatchWrite", <<<<"t2", 0>>>>),
       Write("MempoolBatchWrite", <<<<"t1", 0>>>>)>> \o BlockOps("a", 1, <<<<"t2", 0>>, <<"t1", 0>>>>)}
=============================================================================

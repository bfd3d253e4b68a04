----------------------------- MODULE MCTxAnalyser -----------------------------
(***************************************************************************)
(* Two transactions: peers send t, any number of times, and a client       *)
(* submits u, which spends an output of t.  Block B holds t, and C on top  *)
(* of it u.  The monitor m wants u.                                        *)
(***************************************************************************)
EXTENDS TxAnalyser

MCTx == {"t", "u"}
MCInputs == [t |-> {}, u |-> {<<"t", 0>>}]
MCOutputs == [t |-> {0, 1}, u |-> {}]
MCUnspendable == {<<"t", 1>>}
MCTxns == [B |-> <<"t">>, C |-> <<"u">>]
MCPrev == [B |-> None, C |-> "B"]
NoStatic == <<>>
MCMatches == [n \in Name |-> IF n = "m" THEN {"u"} ELSE {}]
FailLoads == {{"mempool", "utxo"}}
=============================================================================

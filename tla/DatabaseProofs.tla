---------------------------- MODULE DatabaseProofs ----------------------------
(***************************************************************************)
(* Theorems about the database writer thread, for every sequence of        *)
(* operations the handlers send, every number of retries and every pattern *)
(* of statement failures.                                                  *)
(***************************************************************************)
EXTENDS Database, SequenceLemmas, TLAPS

-----------------------------------------------------------------------------
(* A batch is a sequence of rows; without an operation it is empty, and for *)
(* one operation it is the rows of that.                                    *)
BatchOf(m, p) == FlattenSeq([n \in 1..Len(m) |-> p[m[n]].rows])

(* Batch, as a function of the operations merged and the program; of this   *)
(* step and of the next.                                                    *)
LEMMA BatchIs == Batch = BatchOf(merged, program) /\ Batch' = BatchOf(merged', program')
BY DEF Batch, BatchOf

(* The rows of the merged operations; of none and of one operation.         *)
LEMMA BatchFacts ==
    ASSUME NEW m \in Seq(Nat), NEW p,
           \A i \in 1..Len(m) : p[m[i]].rows \in Seq(Rows)
    PROVE  /\ BatchOf(m, p) \in Seq(Rows)
           /\ Len(m) = 0 => BatchOf(m, p) = <<>>
           /\ Len(m) = 1 => BatchOf(m, p) = p[m[1]].rows
<1> DEFINE ss == [n \in 1..Len(m) |-> p[m[n]].rows]
<1>1. ss \in Seq(Seq(Rows)) /\ Len(ss) = Len(m) /\ Len(m) \in Nat
  OBVIOUS
<1>2. Len(m) = 0 => ss = <<>>
  BY <1>1
<1>3. Len(m) = 1 => ss[1] = p[m[1]].rows
  OBVIOUS
<1>4. BatchOf(m, p) = FlattenSeq(ss)
  BY DEF BatchOf
<1> HIDE DEF ss
<1> QED  BY <1>1, <1>2, <1>3, <1>4, FlattenSeqType, FlattenSeqEmpty, FlattenSeqSingle

-----------------------------------------------------------------------------
(* The inductive invariant.  The positions up to Taken have left the        *)
(* channel, those behind it are in it, in order.                            *)
Taken == sent - Len(chan)

ChannelInOrder ==
    /\ program \in Programs /\ sent \in 0..Len(program)
    /\ chan \in Seq(Nat) /\ Len(chan) <= sent
    /\ \A i \in 1..Len(chan) : chan[i] = Taken + i

(* What is in the writer's hands in each place of its loop.  In a           *)
(* coalescing loop the last operation that was taken is one of the batch.   *)
WriterHolds ==
    /\ pc \in {"recv", "coalesce", "exec"} /\ done \in Nat /\ tries \in 0..Retries
    /\ op \in OpTypes \cup {"none"} /\ (pc # "recv" => op \in OpTypes)
    /\ merged \in Seq(Nat)
    /\ \A i \in 1..Len(merged) : merged[i] \in 1..Taken /\ program[merged[i]].op = op
    /\ pc = "recv" => merged = <<>> /\ done = 0
    /\ pc = "coalesce" => /\ done = 0 /\ op \in BatchTypes
                          /\ Taken \in Nat \ {0} /\ program[Taken].op = op
                          /\ Taken \notin dropped
    /\ pc = "exec" /\ op \notin BatchTypes => Len(merged) = 1
    /\ dropped \subseteq 1..Taken /\ failed \subseteq 1..Taken

(* What the first n rows of a batch have done to the table.                 *)
Performed(table, verb, rows, n) ==
    /\ verb \in {"insert", "append"} => \A i \in 1..n : rows[i] \in table
    /\ verb = "replace" =>
          \A i \in 1..n : \E j \in 1..n : rows[j] \in table /\ rows[j][1] = rows[i][1]
    /\ verb = "delete" => \A i \in 1..n, x \in table : x[1] # rows[i][1]
    /\ verb = "delete at height" => \A i \in 1..n, x \in table : x[2] # rows[i][2]

InEffect ==
    /\ db \in [Tables -> SUBSET Rows]
    /\ done <= Len(Batch)
    /\ pc = "exec" => Performed(db[Statement[op].table], Statement[op].verb, Batch, done)

IInv == ChannelInOrder /\ WriterHolds /\ DropsOnlyBehindABatch /\ InEffect

-----------------------------------------------------------------------------
(* What the assumption says of an operation that was sent.                  *)
LEMMA ProgramFacts ==
    ASSUME NEW p \in Programs
    PROVE  /\ p \in Seq(Ops) /\ Len(p) \in Nat
           /\ \A i \in 1..Len(p) : /\ p[i] \in Ops /\ p[i].op \in OpTypes
                                   /\ p[i].rows \in Seq(Rows)
                                   /\ p[i].op \in HeaderTypes => Len(p[i].rows) = 1
<1>1. p \in Seq(Ops)
  BY DatabaseAssumption
<1>2. \A i \in 1..Len(p) : p[i] \in Ops
  BY <1>1
<1> QED  BY <1>1, <1>2, DatabaseAssumption

(* The table and the verb of each statement.                                *)
LEMMA StatementFacts ==
    ASSUME NEW o \in OpTypes
    PROVE  /\ Statement[o].table \in Tables
           /\ Statement[o].verb \in {"replace", "delete", "insert", "append", "delete at height"}
           /\ o \notin HeaderTypes => Statement[o].table \notin {"blocks", "orphans"}
           /\ o = "BlockHeaderWrite" => Statement[o].table = "blocks" /\ Statement[o].verb = "insert"
           /\ o = "OrphanBlockHeaderWrite" => Statement[o].table = "orphans" /\ Statement[o].verb = "append"
           /\ o = "BlockHeaderDelete" => Statement[o].table = "blocks" /\ Statement[o].verb = "delete"
<1>1. /\ Statement["UtxoBatchWrite"].table = "utxo"
      /\ Statement["UtxoBatchWrite"].verb = "replace"
  BY DEF Statement
<1>2. /\ Statement["UtxoBatchDelete"].table = "utxo"
      /\ Statement["UtxoBatchDelete"].verb = "delete"
  BY DEF Statement
<1>3. /\ Statement["TxBatchWrite"].table = "tx"
      /\ Statement["TxBatchWrite"].verb = "insert"
  BY DEF Statement
<1>4. /\ Statement["MempoolBatchDelete"].table = "mempool"
      /\ Statement["MempoolBatchDelete"].verb = "delete"
  BY DEF Statement
<1>5. /\ Statement["MempoolBatchWrite"].table = "mempool"
      /\ Statement["MempoolBatchWrite"].verb = "insert"
  BY DEF Statement
<1>6. /\ Statement["BlockHeaderWrite"].table = "blocks"
      /\ Statement["BlockHeaderWrite"].verb = "insert"
  BY DEF Statement
<1>7. /\ Statement["OrphanBlockHeaderWrite"].table = "orphans"
      /\ Statement["OrphanBlockHeaderWrite"].verb = "append"
  BY DEF Statement
<1>8. /\ Statement["BlockHeaderDelete"].table = "blocks"
      /\ Statement["BlockHeaderDelete"].verb = "delete"
  BY DEF Statement
<1>9. /\ Statement["TxDelete"].table = "tx"
      /\ Statement["TxDelete"].verb = "delete at height"
  BY DEF Statement
<1>10. /\ Statement["UtxoDelete"].table = "utxo"
       /\ Statement["UtxoDelete"].verb = "delete at height"
  BY DEF Statement
<1> HIDE DEF Statement
<1>11. CASE o = "UtxoBatchWrite"
  BY <1>1, <1>11 DEF Tables, HeaderTypes
<1>12. CASE o = "UtxoBatchDelete"
  BY <1>2, <1>12 DEF Tables, HeaderTypes
<1>13. CASE o = "TxBatchWrite"
  BY <1>3, <1>13 DEF Tables, HeaderTypes
<1>14. CASE o = "MempoolBatchDelete"
  BY <1>4, <1>14 DEF Tables, HeaderTypes
<1>15. CASE o = "MempoolBatchWrite"
  BY <1>5, <1>15 DEF Tables, HeaderTypes
<1>16. CASE o = "BlockHeaderWrite"
  BY <1>6, <1>16 DEF Tables, HeaderTypes
<1>17. CASE o = "OrphanBlockHeaderWrite"
  BY <1>7, <1>17 DEF Tables, HeaderTypes
<1>18. CASE o = "BlockHeaderDelete"
  BY <1>8, <1>18 DEF Tables, HeaderTypes
<1>19. CASE o = "TxDelete"
  BY <1>9, <1>19 DEF Tables, HeaderTypes
<1>20. CASE o = "UtxoDelete"
  BY <1>10, <1>20 DEF Tables, HeaderTypes
<1> QED  BY <1>11, <1>12, <1>13, <1>14, <1>15, <1>16, <1>17, <1>18, <1>19, <1>20 DEF OpTypes, BatchTypes, HeaderTypes

(* The batch in hand is a sequence of rows, before and after a step.        *)
LEMMA BatchType ==
    ASSUME ChannelInOrder, WriterHolds
    PROVE  Batch \in Seq(Rows) /\ Len(Batch) \in Nat
<1>1. \A i \in 1..Len(merged) : program[merged[i]].rows \in Seq(Rows)
  BY ProgramFacts DEF ChannelInOrder, WriterHolds, Taken
<1>2. merged \in Seq(Nat)
  BY DEF WriterHolds
<1> QED  BY <1>1, <1>2, BatchFacts, BatchIs

(* The batch after a step is a sequence of rows.                            *)
LEMMA BatchTypeNext ==
    ASSUME ChannelInOrder', WriterHolds'
    PROVE  Batch' \in Seq(Rows) /\ Len(Batch') \in Nat
<1>1. \A i \in 1..Len(merged') : program'[merged'[i]].rows \in Seq(Rows)
  BY ProgramFacts DEF ChannelInOrder, WriterHolds, Taken
<1>2. merged' \in Seq(Nat)
  BY DEF WriterHolds
<1> QED  BY <1>1, <1>2, BatchFacts, BatchIs
(* One more row, one more row in effect.                                    *)
LEMMA PerformedStep ==
    ASSUME NEW table \in SUBSET Rows, NEW verb, NEW rows \in Seq(Rows), NEW n \in Nat,
           n < Len(rows)
    PROVE  Performed(table, verb, rows, n)
           /\ verb \in {"replace", "delete", "insert", "append", "delete at height"} =>
           /\ TableAfter(table, verb, rows[n + 1]) \in SUBSET Rows
           /\ Performed(TableAfter(table, verb, rows[n + 1]), verb, rows, n + 1)
<1> DEFINE r == rows[n + 1]
           after == TableAfter(table, verb, r)
<1>0. n + 1 \in 1..Len(rows)
  OBVIOUS
<1>1. /\ r \in Rows /\ n + 1 \in Nat /\ n + 1 \in 1..(n + 1) /\ 1..n \subseteq 1..(n + 1)
      /\ \A i \in 1..(n + 1) : i = n + 1 \/ i \in 1..n
  BY <1>0
<1> SUFFICES ASSUME Performed(table, verb, rows, n),
                    verb \in {"replace", "delete", "insert", "append", "delete at height"}
             PROVE  after \in SUBSET Rows /\ Performed(after, verb, rows, n + 1)
  OBVIOUS
<1>2. CASE verb = "replace"
  <2>1. after = {x \in table : x[1] # r[1]} \cup {r}
    BY <1>2 DEF TableAfter
  <2> HIDE DEF after
  <2>2. ASSUME NEW i \in 1..(n + 1)
        PROVE  \E j \in 1..(n + 1) : rows[j] \in after /\ rows[j][1] = rows[i][1]
    <3>1. CASE rows[i][1] = r[1]
      <4>1. n + 1 \in 1..(n + 1) /\ rows[n + 1] \in after
        BY <1>1, <2>1
      <4> QED  BY <3>1, <4>1
    <3>2. CASE rows[i][1] # r[1]
      <4>1. i \in 1..n
        BY <1>1, <3>2
      <4>2. PICK j \in 1..n : rows[j] \in table /\ rows[j][1] = rows[i][1]
        BY <1>2, <4>1 DEF Performed
      <4>3. rows[j] \in after /\ j \in 1..(n + 1)
        BY <1>1, <2>1, <3>2, <4>2
      <4> QED  BY <4>2, <4>3
    <3> QED  BY <3>1, <3>2
  <2>3. after \in SUBSET Rows
    BY <1>1, <2>1
  <2>4. Performed(after, verb, rows, n + 1)
    BY <1>2, <2>2 DEF Performed
  <2> QED  BY <2>3, <2>4 DEF after
<1>3. CASE verb \in {"insert", "append"}
  <2>1. after = table \cup {r}
    BY <1>3 DEF TableAfter
  <2> QED  BY <1>1, <1>3, <2>1 DEF Performed
<1>4. CASE verb = "delete"
  <2>1. after = {x \in table : x[1] # r[1]}
    BY <1>4 DEF TableAfter
  <2> QED  BY <1>1, <1>4, <2>1 DEF Performed
<1>5. CASE verb = "delete at height"
  <2>1. after = {x \in table : x[2] # r[2]}
    BY <1>5 DEF TableAfter
  <2> QED  BY <1>1, <1>5, <2>1 DEF Performed
<1> QED  BY <1>2, <1>3, <1>4, <1>5

(* Before the first row a batch has done nothing.                           *)
LEMMA PerformedNone ==
    ASSUME NEW table, NEW verb, NEW rows
    PROVE  Performed(table, verb, rows, 0)
BY DEF Performed

-----------------------------------------------------------------------------
(* At the start nothing is sent and nothing is in hand.                     *)
LEMMA InitInv == Init => IInv
<1> SUFFICES ASSUME Init  PROVE IInv
  OBVIOUS
<1>1. ChannelInOrder
  BY ProgramFacts DEF Init, ChannelInOrder, Taken
<1>2. WriterHolds
  BY DatabaseAssumption DEF Init, WriterHolds, Taken
<1>3. Batch \in Seq(Rows) /\ Len(Batch) \in Nat
  BY <1>1, <1>2, BatchType
<1>4. InEffect
  BY <1>3 DEF Init, InEffect
<1> QED  BY <1>1, <1>2, <1>4 DEF Init, IInv, DropsOnlyBehindABatch

(* A handler sends the next operation of the program.                       *)
LEMMA SendInv == IInv /\ Send => IInv'
<1> SUFFICES ASSUME IInv, Send  PROVE IInv'
  OBVIOUS
<1>1. Taken' = Taken /\ Len(chan') = Len(chan) + 1 /\ Len(chan) \in Nat /\ sent \in Nat
  BY ProgramFacts DEF IInv, ChannelInOrder, Send, Taken
<1>2. ChannelInOrder'
  <2>1. program' \in Programs /\ sent' \in 0..Len(program') /\ chan' \in Seq(Nat) /\ Len(chan') <= sent'
    BY <1>1, ProgramFacts DEF IInv, ChannelInOrder, Send
  <2>2. ASSUME NEW i \in 1..Len(chan')  PROVE chan'[i] = Taken' + i
    BY <1>1 DEF IInv, ChannelInOrder, Send, Taken
  <2> QED  BY <2>1, <2>2 DEF ChannelInOrder
<1>3. WriterHolds' /\ DropsOnlyBehindABatch'
  BY <1>1 DEF IInv, WriterHolds, DropsOnlyBehindABatch, Send
<1>4. InEffect'
  BY BatchIs DEF IInv, InEffect, Send
<1> QED  BY <1>2, <1>3, <1>4 DEF IInv

(* Taking the first operation off the channel.                              *)
LEMMA TakeFirst ==
    ASSUME ChannelInOrder, chan # <<>>, chan' = Tail(chan), program' = program, sent' = sent
    PROVE  /\ ChannelInOrder' /\ Taken' = Taken + 1 /\ Head(chan) = Taken + 1
           /\ Taken \in Nat /\ Taken + 1 \in 1..Len(program)
           /\ program[Taken + 1].op \in OpTypes
<1>1. /\ Len(chan) \in Nat \ {0} /\ Tail(chan) \in Seq(Nat) /\ Len(Tail(chan)) = Len(chan) - 1
      /\ Head(chan) = chan[1] /\ \A i \in 1..Len(Tail(chan)) : Tail(chan)[i] = chan[i + 1]
  BY DEF ChannelInOrder
<1>2. sent \in Nat /\ Len(program) \in Nat /\ sent <= Len(program) /\ Len(chan) <= sent
  BY ProgramFacts DEF ChannelInOrder
<1>3. Taken' = Taken + 1 /\ Taken \in Nat /\ Taken + 1 \in 1..Len(program)
  BY <1>1, <1>2 DEF Taken
<1>4. Head(chan) = Taken + 1
  BY <1>1 DEF ChannelInOrder
<1>5. ASSUME NEW i \in 1..Len(chan')  PROVE chan'[i] = Taken' + i
  <2>1. i + 1 \in 1..Len(chan) /\ chan'[i] = chan[i + 1]
    BY <1>1
  <2>2. chan[i + 1] = Taken + (i + 1)
    BY <2>1 DEF ChannelInOrder
  <2> QED  BY <1>3, <2>1, <2>2
<1>6. ChannelInOrder'
  BY <1>1, <1>2, <1>5 DEF ChannelInOrder
<1> QED  BY <1>3, <1>4, <1>6, ProgramFacts DEF ChannelInOrder

(* perform_db_operations takes an operation in hand.                        *)
LEMMA RecvInv == IInv /\ Recv => IInv'
<1> SUFFICES ASSUME IInv, Recv  PROVE IInv'
  OBVIOUS
<1>1. /\ ChannelInOrder' /\ Taken' = Taken + 1 /\ Head(chan) = Taken + 1
      /\ Taken \in Nat /\ Taken + 1 \in 1..Len(program)
      /\ program[Taken + 1].op \in OpTypes
  BY TakeFirst DEF IInv, Recv
<1>2. WriterHolds'
  <2>1. merged' = <<Taken + 1>> /\ op' = program[Taken + 1].op /\ op' \in OpTypes /\ program' = program
    BY <1>1 DEF Recv
  <2>2. /\ merged' \in Seq(Nat) /\ Len(merged') = 1
        /\ \A i \in 1..Len(merged') : merged'[i] \in 1..Taken' /\ program'[merged'[i]].op = op'
    BY <1>1, <2>1
  <2>3. dropped' \subseteq 1..Taken /\ failed' \subseteq 1..Taken
    BY DEF IInv, WriterHolds, Recv
  <2>4. pc' = IF op' \in BatchTypes THEN "coalesce" ELSE "exec"
    BY DEF Recv
  <2>5. done' = 0 /\ tries' = 0 /\ tries' \in 0..Retries
    BY DatabaseAssumption DEF Recv
  <2>6. Taken' \notin dropped' /\ dropped' \subseteq 1..Taken' /\ failed' \subseteq 1..Taken'
    BY <1>1, <2>3
  <2> QED  BY <1>1, <2>1, <2>2, <2>4, <2>5, <2>6 DEF WriterHolds
<1>3. DropsOnlyBehindABatch'
  BY DEF IInv, DropsOnlyBehindABatch, Recv
<1>4. Batch' \in Seq(Rows) /\ Len(Batch') \in Nat
  BY <1>1, <1>2, BatchTypeNext
<1>5. InEffect'
  BY <1>4, PerformedNone DEF IInv, InEffect, Recv
<1> QED  BY <1>1, <1>2, <1>3, <1>5 DEF IInv

(* One turn of a coalesce_* loop: merged, or taken and dropped behind a     *)
(* batch.                                                                   *)
LEMMA CoalesceInv == IInv /\ Coalesce => IInv'
<1> SUFFICES ASSUME IInv, Coalesce  PROVE IInv'
  OBVIOUS
<1>0. /\ pc = "coalesce" /\ done = 0 /\ op \in BatchTypes /\ op \in OpTypes
      /\ Taken \in Nat \ {0} /\ program[Taken].op = op /\ Taken \notin dropped
      /\ program' = program /\ sent' = sent /\ op' = op /\ done' = 0 /\ tries' = tries
      /\ db' = db /\ failed' = failed
  BY DEF IInv, WriterHolds, Coalesce
<1>1. CASE chan = <<>>
  <2>1. chan' = chan /\ merged' = merged /\ dropped' = dropped /\ pc' = "exec" /\ Taken' = Taken
    BY <1>0, <1>1 DEF Coalesce, Taken
  <2>2. ChannelInOrder'
    BY <1>0, <2>1 DEF IInv, ChannelInOrder
  <2>3. WriterHolds'
    BY <1>0, <2>1 DEF IInv, WriterHolds
  <2>4. DropsOnlyBehindABatch'
    BY <1>0, <2>1 DEF IInv, DropsOnlyBehindABatch
  <2>5. InEffect'
    BY <1>0, <2>1, BatchIs, PerformedNone DEF IInv, InEffect
  <2> QED  BY <2>2, <2>3, <2>4, <2>5 DEF IInv
<1>2. CASE chan # <<>>
  <2>1. /\ ChannelInOrder' /\ Taken' = Taken + 1 /\ Head(chan) = Taken + 1
        /\ Taken \in Nat /\ Taken + 1 \in 1..Len(program)
        /\ program[Taken + 1].op \in OpTypes
    BY <1>0, <1>2, TakeFirst DEF IInv, Coalesce
  <2>2. CASE program[Taken + 1].op = op
    <3>1. merged' = Append(merged, Taken + 1) /\ pc' = pc /\ dropped' = dropped
      BY <1>2, <2>1, <2>2 DEF Coalesce
    <3>2. merged \in Seq(Nat) /\ \A i \in 1..Len(merged) : merged[i] \in 1..Taken /\ program[merged[i]].op = op
      BY DEF IInv, WriterHolds
    <3>3. /\ merged' \in Seq(Nat)
          /\ \A i \in 1..Len(merged') : merged'[i] \in 1..(Taken + 1) /\ program[merged'[i]].op = op
      BY <2>1, <2>2, <3>1, <3>2
    <3>4. /\ dropped \subseteq 1..Taken /\ failed \subseteq 1..Taken
          /\ tries \in 0..Retries
      BY DEF IInv, WriterHolds
    <3>5. /\ dropped \subseteq 1..(Taken + 1) /\ failed \subseteq 1..(Taken + 1)
          /\ Taken + 1 \notin dropped /\ Taken + 1 \in Nat \ {0}
      BY <2>1, <3>4
    <3>6. WriterHolds'
      BY <1>0, <2>1, <2>2, <3>1, <3>3, <3>4, <3>5 DEF WriterHolds
    <3>7. DropsOnlyBehindABatch'
      BY <1>0, <3>1 DEF IInv, DropsOnlyBehindABatch
    <3>8. Batch' \in Seq(Rows) /\ Len(Batch') \in Nat
      BY <2>1, <3>6, BatchTypeNext
    <3>9. InEffect'
      BY <1>0, <3>1, <3>8 DEF IInv, InEffect
    <3> QED  BY <2>1, <3>6, <3>7, <3>9 DEF IInv
  <2>3. CASE program[Taken + 1].op # op
    <3>1. merged' = merged /\ pc' = "exec" /\ dropped' = dropped \cup {Taken + 1}
      BY <1>2, <2>1, <2>3 DEF Coalesce
    <3>2. merged \in Seq(Nat) /\ \A i \in 1..Len(merged) : merged[i] \in 1..Taken /\ program[merged[i]].op = op
      BY DEF IInv, WriterHolds
    <3>3. \A i \in 1..Len(merged) : merged[i] \in 1..(Taken + 1) /\ program[merged[i]].op = op
      BY <2>1, <3>2
    <3>4. /\ dropped \subseteq 1..Taken /\ failed \subseteq 1..Taken
          /\ tries \in 0..Retries
      BY DEF IInv, WriterHolds
    <3>5. dropped' \subseteq 1..(Taken + 1) /\ failed \subseteq 1..(Taken + 1)
      BY <2>1, <3>1, <3>4
    <3>6. WriterHolds'
      BY <1>0, <2>1, <3>1, <3>2, <3>3, <3>4, <3>5 DEF WriterHolds
    <3>7. DropsOnlyBehindABatch'
      <4>1. ASSUME NEW i \in dropped'
            PROVE  /\ i > 1
                   /\ program[i - 1].op \in BatchTypes \ {program[i].op}
                   /\ i - 1 \notin dropped'
        <5>1. CASE i = Taken + 1
          <6>1. i - 1 = Taken /\ i > 1
            BY <1>0, <5>1
          <6> QED  BY <1>0, <2>3, <3>1, <5>1, <6>1
        <5>2. CASE i \in dropped
          <6>1. i \in 1..Taken /\ i - 1 # Taken + 1
            BY <1>0, <3>4, <5>2
          <6> QED  BY <3>1, <5>2, <6>1 DEF IInv, DropsOnlyBehindABatch
        <5> QED  BY <3>1, <5>1, <5>2
      <4> QED  BY <1>0, <4>1 DEF DropsOnlyBehindABatch
    <3>9. InEffect'
      BY <1>0, <3>1, BatchIs, PerformedNone DEF IInv, InEffect
    <3> QED  BY <2>1, <3>6, <3>7, <3>9 DEF IInv
  <2> QED  BY <2>2, <2>3
<1> QED  BY <1>1, <1>2

(* One statement of the batch.                                              *)
LEMMA ExecRowInv == IInv /\ ExecRow => IInv'
<1> SUFFICES ASSUME IInv, ExecRow  PROVE IInv'
  OBVIOUS
<1> DEFINE table == Statement[op].table
           verb == Statement[op].verb
<1>1. /\ pc = "exec" /\ done < Len(Batch) /\ done' = done + 1
      /\ db' = [db EXCEPT ![table] = TableAfter(db[table], verb, Batch[done + 1])]
      /\ program' = program /\ sent' = sent /\ chan' = chan /\ pc' = pc /\ op' = op
      /\ merged' = merged /\ tries' = tries /\ dropped' = dropped /\ failed' = failed
  BY DEF ExecRow
<1>2. Batch' = Batch /\ Taken' = Taken /\ Batch \in Seq(Rows) /\ Len(Batch) \in Nat /\ done \in Nat
  BY <1>1, BatchIs, BatchType DEF IInv, WriterHolds, Taken
<1>3. op \in OpTypes /\ table \in Tables
      /\ verb \in {"replace", "delete", "insert", "append", "delete at height"}
  BY <1>1, StatementFacts DEF IInv, WriterHolds
<1>4. db \in [Tables -> SUBSET Rows] /\ Performed(db[table], verb, Batch, done)
  BY <1>1 DEF IInv, InEffect
<1> HIDE DEF table, verb
<1>5. /\ TableAfter(db[table], verb, Batch[done + 1]) \in SUBSET Rows
      /\ Performed(TableAfter(db[table], verb, Batch[done + 1]), verb, Batch, done + 1)
  <2>1. db[table] \in SUBSET Rows
    BY <1>3, <1>4
  <2> QED  BY <1>1, <1>2, <1>3, <1>4, <2>1, PerformedStep
<1>6. /\ db' \in [Tables -> SUBSET Rows]
      /\ db'[table] = TableAfter(db[table], verb, Batch[done + 1])
  BY <1>1, <1>3, <1>4, <1>5
<1>7. Performed(db'[table], verb, Batch', done')
  BY <1>1, <1>2, <1>5, <1>6
<1>8. InEffect'
  <2>1. done' <= Len(Batch')
    BY <1>1, <1>2
  <2> QED  BY <1>1, <1>6, <1>7, <2>1 DEF InEffect, table, verb
<1>9. ChannelInOrder' /\ DropsOnlyBehindABatch'
  BY <1>1, <1>2 DEF IInv, ChannelInOrder, DropsOnlyBehindABatch
<1>10. WriterHolds'
  BY <1>1, <1>2 DEF IInv, WriterHolds
<1> QED  BY <1>8, <1>9, <1>10 DEF IInv

(* The writer goes back to recv with nothing in its hands.                  *)
LEMMA BackToRecv ==
    ASSUME IInv, pc' = "recv", merged' = <<>>, done' = 0, tries' = tries, op' = op,
           program' = program, sent' = sent, chan' = chan, db' = db, dropped' = dropped,
           failed' \subseteq 1..Taken
    PROVE  IInv'
<1>1. Taken' = Taken
  BY DEF Taken
<1>2. ChannelInOrder' /\ DropsOnlyBehindABatch'
  BY <1>1 DEF IInv, ChannelInOrder, DropsOnlyBehindABatch
<1>3. WriterHolds'
  BY <1>1 DEF IInv, WriterHolds
<1>4. Batch' \in Seq(Rows) /\ Len(Batch') \in Nat
  BY <1>2, <1>3, BatchTypeNext
<1>5. InEffect'
  BY <1>4 DEF IInv, InEffect
<1> QED  BY <1>2, <1>3, <1>5 DEF IInv

(* A statement fails: the batch begins again or is given up.                *)
LEMMA ExecFailsInv == IInv /\ ExecFails => IInv'
<1> SUFFICES ASSUME IInv, ExecFails  PROVE IInv'
  OBVIOUS
<1>1. CASE tries < Retries
  <2>1. /\ tries' = tries + 1 /\ done' = 0 /\ Taken' = Taken
        /\ pc' = pc /\ merged' = merged /\ failed' = failed
        /\ program' = program /\ sent' = sent /\ chan' = chan /\ op' = op /\ db' = db
        /\ dropped' = dropped
    BY <1>1 DEF ExecFails, Taken
  <2>2. tries' \in 0..Retries
    BY <1>1, <2>1, DatabaseAssumption DEF IInv, WriterHolds
  <2>3. ChannelInOrder' /\ DropsOnlyBehindABatch'
    BY <2>1 DEF IInv, ChannelInOrder, DropsOnlyBehindABatch
  <2>4. WriterHolds'
    BY <2>1, <2>2 DEF IInv, WriterHolds
  <2>5. Batch' \in Seq(Rows) /\ Len(Batch') \in Nat
    BY <2>3, <2>4, BatchTypeNext
  <2>6. InEffect'
    BY <2>1, <2>5, PerformedNone DEF IInv, InEffect
  <2> QED  BY <2>3, <2>4, <2>6 DEF IInv
<1>2. CASE ~(tries < Retries)
  <2>1. failed' = failed \cup {merged[i] : i \in DOMAIN merged}
    BY <1>2 DEF ExecFails
  <2>2. DOMAIN merged = 1..Len(merged) /\ \A i \in 1..Len(merged) : merged[i] \in 1..Taken
    BY DEF IInv, WriterHolds
  <2>3. failed' \subseteq 1..Taken
    BY <2>1, <2>2 DEF IInv, WriterHolds
  <2> QED  BY <1>2, <2>3, BackToRecv DEF ExecFails
<1> QED  BY <1>1, <1>2

(* The batch is through.                                                    *)
LEMMA ExecDoneInv == IInv /\ ExecDone => IInv'
<1> SUFFICES ASSUME IInv, ExecDone  PROVE IInv'
  OBVIOUS
<1>1. failed' \subseteq 1..Taken
  BY DEF IInv, WriterHolds, ExecDone
<1> QED  BY <1>1, BackToRecv DEF ExecDone

(* A step that changes nothing.                                             *)
LEMMA StutterInv == IInv /\ UNCHANGED vars => IInv'
<1> SUFFICES ASSUME IInv, UNCHANGED vars  PROVE IInv'
  OBVIOUS
<1>1. Taken' = Taken /\ Batch' = Batch
  BY BatchIs DEF Taken, vars
<1>2. ChannelInOrder' /\ DropsOnlyBehindABatch'
  BY <1>1 DEF IInv, ChannelInOrder, DropsOnlyBehindABatch, vars
<1>3. WriterHolds' /\ InEffect'
  BY <1>1 DEF IInv, WriterHolds, InEffect, vars
<1> QED  BY <1>2, <1>3 DEF IInv

(* The invariant holds in every state.                                      *)
LEMMA InvHolds == Spec => []IInv
<1>1. IInv /\ [Next]_vars => IInv'
  BY SendInv, RecvInv, CoalesceInv, ExecRowInv, ExecFailsInv, ExecDoneInv, StutterInv
     DEF Next, Writer, Waiting
<1> QED  BY <1>1, InitInv, PTL DEF Spec

-----------------------------------------------------------------------------
(* The type invariant of the writer thread: in particular the executed rows *)
(* never exceed the batch, the failed attempts never exceed                 *)
(* config.database.retries, and only operations that were sent are counted  *)
(* as dropped or failed.                                                    *)
THEOREM TypeCorrect == Spec => []TypeOK
<1>1. IInv => TypeOK
  <2> SUFFICES ASSUME IInv  PROVE TypeOK
    OBVIOUS
  <2>1. Taken \in 0..sent /\ sent \in Nat
    BY ProgramFacts DEF IInv, ChannelInOrder, Taken
  <2>2. ASSUME NEW i \in DOMAIN chan  PROVE chan[i] \in 1..sent
    <3>1. i \in 1..Len(chan) /\ Len(chan) \in Nat /\ Len(chan) <= sent
      BY DEF IInv, ChannelInOrder
    <3>2. chan[i] = (sent - Len(chan)) + i
      BY <3>1 DEF IInv, ChannelInOrder, Taken
    <3> QED  BY <2>1, <3>1, <3>2
  <2>3. done \in 0..Len(Batch)
    BY BatchType DEF IInv, WriterHolds, InEffect
  <2>4. dropped \cup failed \subseteq 1..sent
    BY <2>1 DEF IInv, WriterHolds
  <2> QED  BY <2>2, <2>3, <2>4 DEF TypeOK, IInv, ChannelInOrder, WriterHolds
<1> QED  BY <1>1, InvHolds, PTL

(* Whatever is sent and however the threads interleave, the coalescing      *)
(* loops throw away only an operation that was sent right behind a batch    *)
(* operation of another type, and never two in a row.                       *)
THEOREM DropsAreIsolated == Spec => []DropsOnlyBehindABatch
<1>1. IInv => DropsOnlyBehindABatch
  BY DEF IInv
<1> QED  BY <1>1, InvHolds, PTL

(* A batch whose last row was executed is in effect as a whole, whatever    *)
(* the number of rows, of retries, and the place of the failures.           *)
THEOREM RetryCompletes == Spec => []RetriedBatchIsComplete
<1>1. IInv => RetriedBatchIsComplete
  <2> SUFFICES ASSUME IInv, pc = "exec", done = Len(Batch)
               PROVE  RetriedBatchIsComplete
    BY DEF RetriedBatchIsComplete
  <2> DEFINE table == db[Statement[op].table]
             verb == Statement[op].verb
             rows == {Batch[i] : i \in DOMAIN Batch}
  <2>1. Performed(table, verb, Batch, Len(Batch)) /\ Batch \in Seq(Rows)
    BY BatchType DEF IInv, InEffect
  <2>2. DOMAIN Batch = 1..Len(Batch)
    BY <2>1
  <2>3. verb \in {"replace", "delete", "insert", "append", "delete at height"}
    BY StatementFacts DEF IInv, WriterHolds
  <2> HIDE DEF table, verb
  <2>4. verb \in {"insert", "append"} => rows \subseteq table
    BY <2>1, <2>2 DEF Performed
  <2>5. verb = "replace" => \A r \in rows : \E x \in table : x[1] = r[1] /\ x \in rows
    <3> SUFFICES ASSUME verb = "replace", NEW r \in rows
                 PROVE  \E x \in table : x[1] = r[1] /\ x \in rows
      OBVIOUS
    <3>1. PICK i \in 1..Len(Batch) : r = Batch[i]
      BY <2>2
    <3>2. PICK j \in 1..Len(Batch) : Batch[j] \in table /\ Batch[j][1] = Batch[i][1]
      BY <2>1 DEF Performed
    <3>3. Batch[j] \in rows
      BY <2>2
    <3> QED  BY <3>1, <3>2, <3>3
  <2>6. verb = "delete" => \A r \in rows, x \in table : x[1] # r[1]
    BY <2>1, <2>2 DEF Performed
  <2>7. verb = "delete at height" => \A r \in rows, x \in table : x[2] # r[2]
    BY <2>1, <2>2 DEF Performed
  <2> QED  BY <2>3, <2>4, <2>5, <2>6, <2>7 DEF RetriedBatchIsComplete, table, verb
<1> QED  BY <1>1, InvHolds, PTL
-----------------------------------------------------------------------------
(* The refinement.  What HeaderWriter calls pending are the header          *)
(* operations among the one in hand and those in the channel.               *)
HeaderOps == {HeaderOp(o) : o \in {x \in Ops : x.op \in HeaderTypes}}
HeadersAt(x, p) == IF p[x].op \in HeaderTypes THEN <<HeaderOp(p[x])>> ELSE <<>>
HeadersOf(s, p) == FlattenSeq([n \in 1..Len(s) |-> HeadersAt(s[n], p)])

(* The header operations not yet performed, as a function of the positions  *)
(* and the program.                                                         *)
LEMMA PendingIs ==
    /\ PendingHeaderOps = HeadersOf(InHand \o chan, program)
    /\ PendingHeaderOps' = HeadersOf(InHand' \o chan', program')
BY DEF PendingHeaderOps, HeaderOpsOf, HeadersOf, HeadersAt

(* What one operation of the program means for HeaderWriter.                *)
LEMMA HeadersAtType ==
    ASSUME NEW p \in Programs, NEW x \in 1..Len(p)
    PROVE  HeadersAt(x, p) \in Seq(HeaderOps)
<1>1. p[x] \in Ops
  BY ProgramFacts
<1>2. CASE p[x].op \in HeaderTypes
  <2>1. HeaderOp(p[x]) \in HeaderOps
    BY <1>1, <1>2 DEF HeaderOps
  <2> QED  BY <1>2, <2>1 DEF HeadersAt
<1>3. CASE p[x].op \notin HeaderTypes
  BY <1>3 DEF HeadersAt
<1> QED  BY <1>2, <1>3

(* An empty channel has no header operations.                               *)
LEMMA HeadersEmpty == ASSUME NEW p  PROVE HeadersOf(<<>>, p) = <<>>
<1>1. [n \in 1..Len(<<>>) |-> HeadersAt(<<>>[n], p)] = <<>>
  OBVIOUS
<1> QED  BY <1>1, FlattenSeqEmpty DEF HeadersOf

(* The header operations of a channel are operations of HeaderWriter.       *)
LEMMA HeadersType ==
    ASSUME NEW p \in Programs, NEW s \in Seq(1..Len(p))
    PROVE  HeadersOf(s, p) \in Seq(HeaderOps)
<1> DEFINE ss == [n \in 1..Len(s) |-> HeadersAt(s[n], p)]
<1>1. \A n \in 1..Len(s) : s[n] \in 1..Len(p)
  OBVIOUS
<1>2. \A n \in 1..Len(s) : HeadersAt(s[n], p) \in Seq(HeaderOps)
  BY <1>1, HeadersAtType
<1>3. ss \in Seq(Seq(HeaderOps))
  BY <1>2
<1> QED  BY <1>3, FlattenSeqType DEF HeadersOf

(* An operation sent adds its header operations at the end.                 *)
LEMMA HeadersAppend ==
    ASSUME NEW p \in Programs, NEW s \in Seq(1..Len(p)), NEW x \in 1..Len(p)
    PROVE  HeadersOf(Append(s, x), p) = HeadersOf(s, p) \o HeadersAt(x, p)
<1> DEFINE ss == [n \in 1..Len(s) |-> HeadersAt(s[n], p)]
           tt == [n \in 1..Len(Append(s, x)) |-> HeadersAt(Append(s, x)[n], p)]
<1>1. \A n \in 1..Len(s) : s[n] \in 1..Len(p)
  OBVIOUS
<1>2. \A n \in 1..Len(s) : HeadersAt(s[n], p) \in Seq(HeaderOps)
  BY <1>1, HeadersAtType
<1>3. ss \in Seq(Seq(HeaderOps)) /\ HeadersAt(x, p) \in Seq(HeaderOps)
  BY <1>2, HeadersAtType
<1>4. tt = Append(ss, HeadersAt(x, p))
  OBVIOUS
<1>5. HeadersOf(s, p) = FlattenSeq(ss) /\ HeadersOf(Append(s, x), p) = FlattenSeq(tt)
  BY DEF HeadersOf
<1> HIDE DEF ss, tt
<1> QED  BY <1>3, <1>4, <1>5, FlattenSeqAppend

(* An operation received had the first of the header operations.            *)
LEMMA HeadersHeadTail ==
    ASSUME NEW p \in Programs, NEW s \in Seq(1..Len(p)), s # <<>>
    PROVE  /\ Head(s) \in 1..Len(p) /\ Tail(s) \in Seq(1..Len(p))
           /\ HeadersOf(s, p) = HeadersAt(Head(s), p) \o HeadersOf(Tail(s), p)
<1> DEFINE ss == [n \in 1..Len(s) |-> HeadersAt(s[n], p)]
           tt == [n \in 1..Len(Tail(s)) |-> HeadersAt(Tail(s)[n], p)]
<1>1. \A n \in 1..Len(s) : s[n] \in 1..Len(p)
  OBVIOUS
<1>2. \A n \in 1..Len(s) : HeadersAt(s[n], p) \in Seq(HeaderOps)
  BY <1>1, HeadersAtType
<1>3. ss \in Seq(Seq(HeaderOps)) /\ ss # <<>> /\ Len(ss) = Len(s)
  BY <1>2
<1>4. tt = Tail(ss) /\ Head(ss) = HeadersAt(Head(s), p)
  BY <1>3, SMTT(30)
<1>5. HeadersOf(s, p) = FlattenSeq(ss) /\ HeadersOf(Tail(s), p) = FlattenSeq(tt)
  BY DEF HeadersOf
<1>6. Head(s) \in 1..Len(p) /\ Tail(s) \in Seq(1..Len(p))
  OBVIOUS
<1> HIDE DEF ss, tt
<1> QED  BY <1>3, <1>4, <1>5, <1>6, FlattenSeqHeadTail

(* Leaving out the first header operation, or an operation that is none.    *)
LEMMA HeadersTail ==
    ASSUME NEW p \in Programs, NEW s \in Seq(1..Len(p)), s # <<>>
    PROVE  /\ p[Head(s)].op \notin HeaderTypes => HeadersOf(s, p) = HeadersOf(Tail(s), p)
           /\ p[Head(s)].op \in HeaderTypes =>
                 /\ HeadersOf(s, p) # <<>>
                 /\ Head(HeadersOf(s, p)) = HeaderOp(p[Head(s)])
                 /\ Tail(HeadersOf(s, p)) = HeadersOf(Tail(s), p)
<1>1. /\ HeadersOf(s, p) = HeadersAt(Head(s), p) \o HeadersOf(Tail(s), p)
      /\ HeadersOf(Tail(s), p) \in Seq(HeaderOps)
      /\ HeadersAt(Head(s), p) \in Seq(HeaderOps)
  BY HeadersHeadTail, HeadersType, HeadersAtType
<1>2. CASE p[Head(s)].op \notin HeaderTypes
  BY <1>1, <1>2 DEF HeadersAt
<1>3. CASE p[Head(s)].op \in HeaderTypes
  <2>1. HeadersAt(Head(s), p) = <<HeaderOp(p[Head(s)])>>
    BY <1>3 DEF HeadersAt
  <2>2. p[Head(s)] \in Ops
    BY HeadersHeadTail, ProgramFacts
  <2>3. HeaderOp(p[Head(s)]) \in HeaderOps
    BY <1>3, <2>2 DEF HeaderOps
  <2>4. HeadersOf(s, p) = <<HeaderOp(p[Head(s)])>> \o HeadersOf(Tail(s), p)
    BY <1>1, <2>1
  <2> QED  BY <1>1, <1>3, <2>3, <2>4, FirstThenRest
<1> QED  BY <1>2, <1>3

-----------------------------------------------------------------------------
(* What the steps do to the header operation in hand.                       *)
LEMMA ChanType ==
    ASSUME ChannelInOrder
    PROVE  chan \in Seq(1..Len(program)) /\ program \in Programs
<1>1. ASSUME NEW i \in 1..Len(chan)  PROVE chan[i] \in 1..Len(program)
  BY ProgramFacts DEF ChannelInOrder, Taken
<1>2. chan \in Seq(Nat)
  BY DEF ChannelInOrder
<1> QED  BY <1>1, <1>2 DEF ChannelInOrder

(* The header operation in hand, if there is one: alone in its batch, and   *)
(* not performed yet.                                                       *)
LEMMA InHandFacts ==
    ASSUME IInv
    PROVE  /\ InHand = <<>> \/ \E x \in 1..Len(program) :
                 /\ InHand = <<x>> /\ merged = <<x>> /\ Batch = program[x].rows
                 /\ program[x].op = op /\ pc = "exec" /\ done = 0
           /\ InHand \in Seq(1..Len(program))
<1>1. CASE pc = "exec" /\ op \in HeaderTypes /\ done < Len(Batch)
  <2>1. op \notin BatchTypes
    BY <1>1 DEF BatchTypes, HeaderTypes
  <2>0. merged \in Seq(Nat) /\ Len(merged) = 1 /\ done \in Nat
    BY <1>1, <2>1 DEF IInv, WriterHolds
  <2>2. /\ merged \in Seq(Nat) /\ Len(merged) = 1 /\ 1 \in 1..Len(merged)
        /\ merged[1] \in 1..Taken /\ program[merged[1]].op = op
    BY <2>0 DEF IInv, WriterHolds
  <2>3. merged[1] \in 1..Len(program) /\ program \in Programs
    BY <2>2, ProgramFacts DEF IInv, ChannelInOrder, Taken
  <2>4. program[merged[1]].rows \in Seq(Rows) /\ Len(program[merged[1]].rows) = 1
    BY <1>1, <2>2, <2>3, ProgramFacts
  <2>5. Batch = program[merged[1]].rows
    <3>1. \A i \in 1..Len(merged) : program[merged[i]].rows \in Seq(Rows)
      BY <2>2, <2>4
    <3> QED  BY <2>2, <3>1, BatchFacts, BatchIs
  <2>6. done = 0
    <3>1. done < 1
      BY <1>1, <2>4, <2>5
    <3> QED  BY <2>0, <3>1
  <2>7. InHand = merged /\ merged = <<merged[1]>>
    BY <1>1, <2>2 DEF InHand
  <2>8. InHand \in Seq(1..Len(program))
    <3>1. \A x \in 1..Len(program) : <<x>> \in Seq(1..Len(program))
      OBVIOUS
    <3> QED  BY <2>3, <2>7, <3>1, Zenon
  <2> QED  BY <1>1, <2>2, <2>3, <2>5, <2>6, <2>7, <2>8, Zenon
<1>2. CASE ~(pc = "exec" /\ op \in HeaderTypes /\ done < Len(Batch))
  <2>1. InHand = <<>>
    BY <1>2 DEF InHand
  <2> QED  BY <2>1
<1> QED  BY <1>1, <1>2

(* The steps of HeaderWriter that the steps of the writer are.              *)
LEMMA Stutters ==
    ASSUME PendingHeaderOps' = PendingHeaderOps, db'["blocks"] = db["blocks"],
           db'["orphans"] = db["orphans"]
    PROVE  UNCHANGED HW!hwvars
BY DEF HW!hwvars

(* Forgetting the oldest header operation is HeaderWriter's Lose.           *)
LEMMA Loses ==
    ASSUME PendingHeaderOps # <<>>, PendingHeaderOps' = Tail(PendingHeaderOps), db' = db
    PROVE  HW!Lose
BY DEF HW!Lose

(* When the first of the operations goes away without a statement: nothing  *)
(* happens, or a header operation is lost.                                  *)
LEMMA FirstGoes ==
    ASSUME NEW s \in Seq(1..Len(program)), s # <<>>, program \in Programs, db' = db,
           PendingHeaderOps = HeadersOf(s, program),
           PendingHeaderOps' = HeadersOf(Tail(s), program)
    PROVE  [HW!HWNext]_(HW!hwvars)
<1>1. CASE program[Head(s)].op \notin HeaderTypes
  <2>1. PendingHeaderOps' = PendingHeaderOps
    BY <1>1, HeadersTail
  <2> QED  BY <2>1, Stutters
<1>2. CASE program[Head(s)].op \in HeaderTypes
  <2>1. PendingHeaderOps # <<>> /\ PendingHeaderOps' = Tail(PendingHeaderOps)
    BY <1>2, HeadersTail
  <2> QED  BY <2>1, Loses DEF HW!HWNext
<1> QED  BY <1>1, <1>2

(* A send is HeaderWriter's Send of a header operation, or nothing to it.   *)
LEMMA SendRefines == IInv /\ Send => [HW!HWNext]_(HW!hwvars)
<1> SUFFICES ASSUME IInv, Send  PROVE [HW!HWNext]_(HW!hwvars)
  OBVIOUS
<1> DEFINE s == InHand \o chan
           x == sent + 1
           more == HeadersAt(x, program)
<1>1. /\ program' = program /\ merged' = merged /\ pc' = pc /\ op' = op /\ done' = done
      /\ db' = db /\ chan' = Append(chan, x) /\ sent < Len(program)
  BY DEF Send
<1>2. InHand' = InHand
  BY <1>1, BatchIs DEF InHand
<1>3. chan \in Seq(1..Len(program)) /\ InHand \in Seq(1..Len(program)) /\ program \in Programs
  BY ChanType, InHandFacts DEF IInv
<1>4. x \in 1..Len(program)
  BY <1>1, <1>3, ProgramFacts DEF IInv, ChannelInOrder
<1>5. s \in Seq(1..Len(program)) /\ InHand' \o chan' = Append(s, x)
  BY <1>1, <1>2, <1>3, <1>4
<1> HIDE DEF s, x
<1>6. PendingHeaderOps = HeadersOf(s, program) /\ PendingHeaderOps \in Seq(HeaderOps)
  BY <1>3, <1>5, PendingIs, HeadersType DEF s
<1>7. PendingHeaderOps' = PendingHeaderOps \o more
  BY <1>1, <1>3, <1>4, <1>5, <1>6, PendingIs, HeadersAppend
<1>8. more \in Seq(HeaderOps)
  BY <1>3, <1>4, HeadersAtType
<1>9. CASE more = <<>>
  <2>1. PendingHeaderOps' = PendingHeaderOps
    BY <1>6, <1>7, <1>9
  <2> QED  BY <1>1, <2>1, Stutters
<1>10. CASE more # <<>>
  <2> HIDE DEF more
  <2>1. Len(PendingHeaderOps') > Len(PendingHeaderOps)
    BY <1>6, <1>7, <1>8, <1>10
  <2>2. SubSeq(PendingHeaderOps', 1, Len(PendingHeaderOps)) = PendingHeaderOps
    BY <1>6, <1>7, <1>8
  <2>3. \A i \in (Len(PendingHeaderOps) + 1)..Len(PendingHeaderOps') : PendingHeaderOps'[i] \in HeaderOps
    BY <1>6, <1>7, <1>8
  <2>4. HW!Send
    BY <1>1, <2>1, <2>2, <2>3 DEF HW!Send, HeaderOps
  <2> QED  BY <2>4 DEF HW!HWNext
<1> QED  BY <1>9, <1>10

(* To receive an operation is nothing to HeaderWriter: it stays pending in  *)
(* hand.                                                                    *)
LEMMA RecvRefines == IInv /\ Recv => [HW!HWNext]_(HW!hwvars)
<1> SUFFICES ASSUME IInv, Recv  PROVE [HW!HWNext]_(HW!hwvars)
  OBVIOUS
<1>1. /\ pc = "recv" /\ chan # <<>> /\ op' = program[Head(chan)].op /\ merged' = <<Head(chan)>>
      /\ chan' = Tail(chan) /\ pc' = (IF op' \in BatchTypes THEN "coalesce" ELSE "exec")
      /\ done' = 0 /\ program' = program /\ db' = db
  BY DEF Recv
<1>2. chan \in Seq(1..Len(program)) /\ program \in Programs
  BY ChanType DEF IInv
<1>3. Head(chan) \in 1..Len(program) /\ Tail(chan) \in Seq(1..Len(program))
  BY <1>1, <1>2
<1>4. InHand = <<>> /\ PendingHeaderOps = HeadersOf(chan, program)
  <2>1. InHand = <<>>
    BY <1>1 DEF InHand
  <2> QED  BY <1>2, <2>1, PendingIs
<1>5. CASE op' \in HeaderTypes
  <2>1. pc' = "exec"
    BY <1>1, <1>5 DEF BatchTypes, HeaderTypes
  <2>2. program[Head(chan)].rows \in Seq(Rows) /\ Len(program[Head(chan)].rows) = 1
    BY <1>1, <1>2, <1>3, <1>5, ProgramFacts
  <2>3. Batch' = program[Head(chan)].rows
    <3>1. /\ merged' \in Seq(Nat) /\ Len(merged') = 1 /\ merged'[1] = Head(chan)
          /\ \A i \in 1..Len(merged') : program'[merged'[i]].rows \in Seq(Rows)
      BY <1>1, <1>3, <2>2
    <3> QED  BY <1>1, <3>1, BatchFacts, BatchIs
  <2>4. InHand' = <<Head(chan)>>
    <3>1. done' < Len(Batch')
      <4>1. Len(Batch') = 1
        BY <2>2, <2>3, Zenon
      <4> QED  BY <1>1, <4>1
    <3>2. InHand' = merged'
      BY <1>5, <2>1, <3>1 DEF InHand
    <3> QED  BY <1>1, <3>2
  <2>5. InHand' \o chan' = chan
    BY <1>1, <1>2, <2>4
  <2>6. PendingHeaderOps' = PendingHeaderOps
    BY <1>1, <1>4, <2>5, PendingIs
  <2> QED  BY <1>1, <2>6, Stutters
<1>6. CASE op' \notin HeaderTypes
  <2>1. InHand' = <<>>
    BY <1>6 DEF InHand
  <2>2. PendingHeaderOps' = HeadersOf(Tail(chan), program)
    BY <1>1, <1>3, <2>1, PendingIs
  <2> QED  BY <1>1, <1>2, <1>4, <2>2, FirstGoes
<1> QED  BY <1>5, <1>6

(* To merge an operation is nothing to HeaderWriter; to drop a header       *)
(* operation is Lose.                                                       *)
LEMMA CoalesceRefines == IInv /\ Coalesce => [HW!HWNext]_(HW!hwvars)
<1> SUFFICES ASSUME IInv, Coalesce  PROVE [HW!HWNext]_(HW!hwvars)
  OBVIOUS
<1>1. pc = "coalesce" /\ op \in BatchTypes /\ op' = op /\ program' = program /\ db' = db
  BY DEF IInv, WriterHolds, Coalesce
<1>2. InHand = <<>> /\ InHand' = <<>>
  BY <1>1 DEF InHand, BatchTypes, HeaderTypes
<1>3. chan \in Seq(1..Len(program)) /\ program \in Programs
  BY ChanType DEF IInv
<1>4. PendingHeaderOps = HeadersOf(chan, program)
  BY <1>2, <1>3, PendingIs
<1>5. CASE chan = <<>>
  <2>1. PendingHeaderOps' = PendingHeaderOps
    <3>1. chan' = chan
      BY <1>5 DEF Coalesce
    <3> QED  BY <1>1, <1>2, <3>1, PendingIs
  <2> QED  BY <1>1, <2>1, Stutters
<1>6. CASE chan # <<>>
  <2>1. chan' = Tail(chan) /\ Tail(chan) \in Seq(1..Len(program))
    BY <1>3, <1>6 DEF Coalesce
  <2>2. PendingHeaderOps' = HeadersOf(Tail(chan), program)
    BY <1>1, <1>2, <2>1, PendingIs
  <2> QED  BY <1>1, <1>3, <1>4, <1>6, <2>2, FirstGoes
<1> QED  BY <1>5, <1>6

(* A statement on a header is the first of the pending operations.          *)
LEMMA ExecRowRefines == IInv /\ ExecRow => [HW!HWNext]_(HW!hwvars)
<1> SUFFICES ASSUME IInv, ExecRow  PROVE [HW!HWNext]_(HW!hwvars)
  OBVIOUS
<1> DEFINE table == Statement[op].table
           verb == Statement[op].verb
           r == Batch[done + 1]
<1>1. /\ pc = "exec" /\ done < Len(Batch) /\ done' = done + 1 /\ ~Refused(r)
      /\ db' = [db EXCEPT ![table] = TableAfter(db[table], verb, r)]
      /\ program' = program /\ chan' = chan /\ pc' = pc /\ op' = op /\ merged' = merged
  BY DEF ExecRow
<1>2. Batch' = Batch /\ op \in OpTypes
  BY <1>1, BatchIs DEF IInv, WriterHolds
<1>3. db \in [Tables -> SUBSET Rows] /\ table \in Tables /\ {"blocks", "orphans"} \subseteq Tables
  BY <1>2, StatementFacts DEF IInv, InEffect, Tables
<1>4. chan \in Seq(1..Len(program)) /\ program \in Programs
  BY ChanType DEF IInv
<1>5. CASE op \notin HeaderTypes
  <2>1. InHand = <<>> /\ InHand' = <<>>
    BY <1>1, <1>5 DEF InHand
  <2>2. PendingHeaderOps' = PendingHeaderOps
    BY <1>1, <2>1, PendingIs
  <2>3. table \notin {"blocks", "orphans"}
    BY <1>2, <1>5, StatementFacts
  <2> HIDE DEF table
  <2>4. db'["blocks"] = db["blocks"] /\ db'["orphans"] = db["orphans"]
    BY <1>1, <1>3, <2>3
  <2> QED  BY <2>2, <2>4, Stutters
<1>6. CASE op \in HeaderTypes
  <2>1. InHand = merged
    BY <1>1, <1>6 DEF InHand
  <2>2. PICK x \in 1..Len(program) : /\ InHand = <<x>> /\ Batch = program[x].rows
                                     /\ program[x].op = op /\ done = 0
    <3>1. InHand # <<>>
      <4>1. op \notin BatchTypes
        BY <1>6 DEF BatchTypes, HeaderTypes
      <4>2. Len(merged) = 1
        BY <1>1, <4>1 DEF IInv, WriterHolds
      <4> QED  BY <2>1, <4>2
    <3> QED  BY <3>1, InHandFacts
  <2>3. program[x].rows \in Seq(Rows) /\ Len(program[x].rows) = 1
    BY <1>4, <1>6, <2>2, ProgramFacts
  <2>4. r = program[x].rows[1] /\ r \in Rows
    BY <2>2, <2>3
  <2>5. r = <<r[1], r[2]>>
    BY <2>4, DatabaseAssumption
  <2> DEFINE h == HeaderOp(program[x])
  <2>6. h.op = op /\ h.hash = r[1] /\ h.height = r[2]
    BY <2>2, <2>4 DEF HeaderOp
  <2>7. InHand' = <<>>
    <3>1. ~(done' < Len(Batch'))
      BY <1>1, <1>2, <2>2, <2>3
    <3> QED  BY <3>1 DEF InHand
  <2>8. /\ PendingHeaderOps # <<>> /\ Head(PendingHeaderOps) = h
        /\ PendingHeaderOps' = Tail(PendingHeaderOps)
    <3> DEFINE s == InHand \o chan
    <3>1. s \in Seq(1..Len(program)) /\ s # <<>> /\ Head(s) = x /\ Tail(s) = chan
      BY <1>4, <2>2
    <3>2. program[Head(s)].op \in HeaderTypes
      BY <1>6, <2>2, <3>1
    <3>3. InHand' \o chan' = chan
      BY <1>1, <1>4, <2>7
    <3> HIDE DEF s
    <3>4. PendingHeaderOps = HeadersOf(s, program) /\ PendingHeaderOps' = HeadersOf(chan, program)
      BY <1>1, <3>3, PendingIs DEF s
    <3>5. /\ HeadersOf(s, program) # <<>>
          /\ Head(HeadersOf(s, program)) = HeaderOp(program[Head(s)])
          /\ Tail(HeadersOf(s, program)) = HeadersOf(Tail(s), program)
      BY <1>4, <3>1, <3>2, HeadersTail
    <3> QED  BY <3>1, <3>4, <3>5
  <2> HIDE DEF h
  <2>9. CASE op = "BlockHeaderWrite"
    <3>1. table = "blocks" /\ verb = "insert"
      BY <1>2, <2>9, StatementFacts
    <3>2. db'["blocks"] = db["blocks"] \cup {r} /\ db'["orphans"] = db["orphans"]
      BY <1>1, <1>3, <3>1 DEF TableAfter
    <3>3. ~\E y \in db["blocks"] : y[1] = r[1]
      BY <1>1, <3>1 DEF Refused
    <3>4. HW!BlocksAfter(h) = db["blocks"] \cup {r} /\ HW!OrphansAfter(h) = db["orphans"]
      BY <2>5, <2>6, <2>9, <3>3 DEF HW!BlocksAfter, HW!OrphansAfter
    <3> QED  BY <2>8, <3>2, <3>4 DEF HW!HWNext, HW!Perform
  <2>10. CASE op = "BlockHeaderDelete"
    <3>1. table = "blocks" /\ verb = "delete"
      BY <1>2, <2>10, StatementFacts
    <3>2. /\ db'["blocks"] = {y \in db["blocks"] : y[1] # r[1]}
          /\ db'["orphans"] = db["orphans"]
      BY <1>1, <1>3, <3>1 DEF TableAfter
    <3>4. /\ HW!BlocksAfter(h) = {y \in db["blocks"] : y[1] # r[1]}
          /\ HW!OrphansAfter(h) = db["orphans"]
      BY <2>6, <2>10 DEF HW!BlocksAfter, HW!OrphansAfter
    <3> QED  BY <2>8, <3>2, <3>4 DEF HW!HWNext, HW!Perform
  <2>11. CASE op = "OrphanBlockHeaderWrite"
    <3>1. table = "orphans" /\ verb = "append"
      BY <1>2, <2>11, StatementFacts
    <3>2. db'["orphans"] = db["orphans"] \cup {r} /\ db'["blocks"] = db["blocks"]
      BY <1>1, <1>3, <3>1 DEF TableAfter
    <3>4. HW!OrphansAfter(h) = db["orphans"] \cup {r} /\ HW!BlocksAfter(h) = db["blocks"]
      BY <2>5, <2>6, <2>11 DEF HW!BlocksAfter, HW!OrphansAfter
    <3> QED  BY <2>8, <3>2, <3>4 DEF HW!HWNext, HW!Perform
  <2> QED  BY <1>6, <2>9, <2>10, <2>11 DEF HeaderTypes
<1> QED  BY <1>5, <1>6

(* The writer gives up, or is done with, what it has in hand.               *)
LEMMA BackToRecvRefines ==
    ASSUME IInv, pc' = "recv", program' = program, chan' = chan, db' = db
    PROVE  [HW!HWNext]_(HW!hwvars)
<1> DEFINE s == InHand \o chan
<1>1. InHand' = <<>>
  BY DEF InHand
<1>2. chan \in Seq(1..Len(program)) /\ program \in Programs
  BY ChanType DEF IInv
<1>3. PendingHeaderOps = HeadersOf(s, program) /\ PendingHeaderOps' = HeadersOf(chan, program)
  BY <1>1, <1>2, PendingIs
<1>4. CASE InHand = <<>>
  <2>1. s = chan
    BY <1>2, <1>4
  <2>2. PendingHeaderOps' = PendingHeaderOps
    BY <1>3, <2>1
  <2> QED  BY <2>2, Stutters
<1>5. CASE InHand # <<>>
  <2>1. PICK x \in 1..Len(program) : InHand = <<x>>
    BY <1>5, InHandFacts
  <2>2. s \in Seq(1..Len(program)) /\ s # <<>> /\ Tail(s) = chan
    BY <1>2, <2>1
  <2> HIDE DEF s
  <2> QED  BY <1>2, <1>3, <2>2, FirstGoes
<1> QED  BY <1>4, <1>5

(* A header operation that is given up is lost, one that is tried again     *)
(* still pending.                                                           *)
LEMMA ExecFailsRefines == IInv /\ ExecFails => [HW!HWNext]_(HW!hwvars)
<1> SUFFICES ASSUME IInv, ExecFails  PROVE [HW!HWNext]_(HW!hwvars)
  OBVIOUS
<1>1. CASE tries < Retries
  <2>1. /\ pc = "exec" /\ done < Len(Batch) /\ done' = 0 /\ pc' = pc /\ merged' = merged
        /\ program' = program /\ chan' = chan /\ op' = op /\ db' = db
    BY <1>1 DEF ExecFails
  <2>2. Batch' = Batch /\ Batch \in Seq(Rows) /\ done \in Nat
    BY <2>1, BatchIs, BatchType DEF IInv, WriterHolds
  <2>3. done' < Len(Batch')
    BY <2>1, <2>2
  <2>4. InHand' = InHand
    BY <2>1, <2>3 DEF InHand
  <2>5. PendingHeaderOps' = PendingHeaderOps
    BY <2>1, <2>4, PendingIs
  <2> QED  BY <2>1, <2>5, Stutters
<1>2. CASE ~(tries < Retries)
  BY <1>2, BackToRecvRefines DEF ExecFails
<1> QED  BY <1>1, <1>2

(* The end of a batch is nothing to HeaderWriter.                           *)
LEMMA ExecDoneRefines == IInv /\ ExecDone => [HW!HWNext]_(HW!hwvars)
BY BackToRecvRefines DEF ExecDone

(* A step that changes nothing.                                             *)
LEMMA UnchangedRefines == IInv /\ UNCHANGED vars => [HW!HWNext]_(HW!hwvars)
<1> SUFFICES ASSUME IInv, UNCHANGED vars  PROVE [HW!HWNext]_(HW!hwvars)
  OBVIOUS
<1>1. InHand' = InHand
  BY BatchIs DEF InHand, vars
<1>2. PendingHeaderOps' = PendingHeaderOps
  BY <1>1, PendingIs DEF vars
<1> QED  BY <1>2, Stutters DEF vars

(* The writer thread implements HeaderWriter, on which the block manager's  *)
(* recovery rests: whatever else is sent, coalesced, retried or given up,   *)
(* the operations on `blocks` and `orphans` are performed in the order they *)
(* were sent, each at most once, or lost.                                   *)
THEOREM WriterRefinesHeaderWriter == Spec => ImplementsHeaderWriter
<1>1. Init => HW!HWInit
  <2> SUFFICES ASSUME Init  PROVE HW!HWInit
    OBVIOUS
  <2>1. InHand = <<>> /\ chan = <<>>
    BY DEF Init, InHand
  <2>2. PendingHeaderOps = <<>>
    BY <2>1, PendingIs, HeadersEmpty
  <2>3. db["blocks"] = {} /\ db["orphans"] = {}
    BY DEF Init, Tables
  <2> QED  BY <2>2, <2>3 DEF HW!HWInit
<1>2. IInv /\ [Next]_vars => [HW!HWNext]_(HW!hwvars)
  BY SendRefines, RecvRefines, CoalesceRefines, ExecRowRefines, ExecFailsRefines,
     ExecDoneRefines, UnchangedRefines DEF Next, Writer, Waiting
<1> QED  BY <1>1, <1>2, InvHolds, PTL DEF Spec, ImplementsHeaderWriter, HW!HWSpec
=============================================================================

------------------------------ MODULE SyncProofs ------------------------------
(***************************************************************************)
(* Proofs about synchronisation.                                           *)
(*                                                                         *)
(* First the block manager, for every block tree, every setting and every  *)
(* combination of faults; then that it implements HeaderWriter; then the   *)
(* synchronisation logic that runs on top of it, for every block tree,     *)
(* every peer and every bound.                                             *)
(***************************************************************************)
EXTENDS Logic, FiniteSetTheorems, SequenceLemmas

-----------------------------------------------------------------------------
(* The inductive invariant of NoBlockTwice and QueueWaitsForOthers.  Two    *)
(* things are needed beside them: the block in hand is one that may be      *)
(* stored, with nothing in the queue that waits for the same block, and a   *)
(* start has an empty memory.  The table is finite, so that its rows can be *)
(* loaded as a sequence.                                                    *)
InHandIsNext ==
    pc \in {"write", "process"} =>
        /\ Prev[cur.block] = last_hash_processed
        /\ ~Known(cur.block)
        /\ block_queue[last_hash_processed] = None

SetupIsEmpty ==
    mode = "setup" =>
        /\ pc = "idle"
        /\ block_headers = <<>>
        /\ hash_to_index = [h \in Hash |-> None]
        /\ last_hash_processed = StartHash
        /\ height = StartHeight + 1
        /\ block_queue = [h \in Hash |-> None]

IInv ==
    /\ TypeOK
    /\ IsFiniteSet(Rows)
    /\ NoBlockTwice
    /\ QueueWaitsForOthers
    /\ InHandIsNext
    /\ SetupIsEmpty

-----------------------------------------------------------------------------
(* Every start of the process is in a state of the type, and so is every    *)
(* step of it: the handlers, the writer, the loss of an operation and a     *)
(* crash keep each variable in its type.  An order of the rows is a         *)
(* sequence of distinct blocks.                                             *)
LEMMA RowOrderIsSequence ==
    ASSUME TypeOK, IsFiniteSet(Rows), NEW s \in RowOrders
    PROVE  /\ s \in Seq(Block)
           /\ \A i, j \in DOMAIN s : i # j => s[i] # s[j]
           /\ {s[i] : i \in DOMAIN s} = Rows
<1>1. Cardinality(Rows) \in Nat
  BY FS_CardinalityType
<1>2. s \in [1..Cardinality(Rows) -> Rows]
  BY DEF RowOrders
<1>3. Rows \subseteq Block
  BY DEF Rows
<1>4. s \in Seq(Block)
  BY <1>1, <1>2, <1>3
<1> QED
  BY <1>4 DEF RowOrders

(* What Accept does to the types: the queue takes an entry, or the block is *)
(* in hand with the position it came with.                                  *)
LEMMA AcceptType ==
    ASSUME TypeOK, pc = "idle",
           NEW b \in Block, NEW p \in Position \cup {None}, Accept(b, p)
    PROVE  /\ block_headers' = block_headers /\ hash_to_index' = hash_to_index
           /\ last_hash_processed' = last_hash_processed /\ height' = height
           /\ block_queue' \in [Hash -> Entry \cup {None}]
           /\ cur' \in Entry \cup {None}
           /\ pc' \in {"idle", "write", "process"}
           /\ pc' \in {"write", "process"} => cur' # None
           /\ pc' = "process" => cur'.position # None
<1> DEFINE e == [block |-> b, position |-> p]
<1>1. e \in Entry /\ e # None /\ e.position = p
  <2>1. e \in Entry BY DEF Entry
  <2>2. e # None
    BY <2>1, BlockAssumption
  <2> QED BY <2>1, <2>2
<1>2. Prev[b] \in Hash
  BY BlockAssumption
<1>3. CASE /\ ~Known(b) /\ Prev[b] = last_hash_processed
           /\ Begin(e) /\ UNCHANGED memory
  BY <1>1, <1>3 DEF TypeOK, Begin, memory
<1>4. CASE /\ ~Known(b) /\ Prev[b] # last_hash_processed
           /\ block_queue' = IF block_queue[Prev[b]] = None
                             THEN [block_queue EXCEPT ![Prev[b]] = e] ELSE block_queue
           /\ UNCHANGED <<block_headers, hash_to_index, last_hash_processed, height, pc, cur>>
  BY <1>1, <1>2, <1>4 DEF TypeOK
<1>5. CASE Known(b) /\ UNCHANGED <<memory, pc, cur>>
  BY <1>5 DEF TypeOK, memory
<1> QED
  BY <1>3, <1>4, <1>5 DEF Accept

(* The writer keeps the types of the tables and a finite number of rows.    *)
LEMMA PerformType ==
    ASSUME TypeOK, IsFiniteSet(Rows), NEW op \in Op, Perform(op)
    PROVE  blocks' \in [Block -> Row \cup {None}] /\ orphans' \subseteq Block \X Nat
           /\ IsFiniteSet(Rows)'
<1>1. op.hash \in Block /\ op.height \in Nat /\ op.position \in Nat
  BY DEF Op, Position
<1>2. blocks' \in [Block -> Row \cup {None}]
  BY <1>1 DEF TypeOK, Perform, Row, Position
<1>3. orphans' \subseteq Block \X Nat
  BY <1>1 DEF TypeOK, Perform
<1>4. Rows' \subseteq Rows \cup {op.hash}
  BY <1>1 DEF TypeOK, Perform, Rows
<1>5. IsFiniteSet(Rows \cup {op.hash})
  BY FS_AddElement
<1>6. IsFiniteSet(Rows')
  BY <1>4, <1>5, FS_Subset
<1> QED
  BY <1>2, <1>3, <1>6

(* Every action keeps every variable in its type and the table finite. *)
LEMMA NextType ==
    ASSUME TypeOK, IsFiniteSet(Rows), [Next]_vars
    PROVE  TypeOK' /\ IsFiniteSet(Rows)'
<1> USE DEF memory, control, tables
<1>1. CASE LoadBlockheaders
  <2>1. PICK s \in RowOrders :
           /\ block_headers' = s
           /\ hash_to_index' = [h \in Hash |-> IF h \in Rows THEN blocks[h].height ELSE None]
           /\ height' = IF s = <<>> THEN height ELSE blocks[s[Len(s)]].height + 1
           /\ last_hash_processed' = IF s = <<>> THEN last_hash_processed ELSE s[Len(s)]
    BY <1>1 DEF LoadBlockheaders
  <2>2. s \in Seq(Block) /\ {s[i] : i \in DOMAIN s} = Rows
    BY RowOrderIsSequence
  <2>3. \A h \in Rows : blocks[h].height \in Nat
    BY DEF TypeOK, Rows, Row
  <2>4. s # <<>> => s[Len(s)] \in Rows
    BY <2>2
  <2>5. /\ height' \in Nat
        /\ last_hash_processed' \in Hash
        /\ hash_to_index' \in [Hash -> Nat \cup {None}]
        /\ block_headers' \in Seq(Block)
    <3>1. height \in Nat /\ last_hash_processed \in Hash /\ Rows \subseteq Hash
      BY BlockAssumption DEF TypeOK, Rows
    <3>2. hash_to_index' \in [Hash -> Nat \cup {None}] /\ block_headers' \in Seq(Block)
      BY <2>1, <2>2, <2>3
    <3>3. s # <<>> => s[Len(s)] \in Hash /\ blocks[s[Len(s)]].height + 1 \in Nat
      BY <2>3, <2>4, <3>1
    <3> QED
      BY <2>1, <3>1, <3>2, <3>3
  <2>6. UNCHANGED <<block_queue, pc, cur, rpos, block_file, chan, blocks, orphans>>
        /\ mode' = "run"
    BY <1>1 DEF LoadBlockheaders
  <2> QED
    BY <2>5, <2>6 DEF TypeOK, Rows
<1>2. CASE LoadFails \/ OpenBlockFile \/ EndOfFile
  BY <1>2 DEF TypeOK, LoadFails, OpenBlockFile, EndOfFile, Rows
<1>3. CASE ProcessReadBlock
  <2>1. block_file[rpos + 1] \in Block /\ rpos \in Position \cup {None} /\ rpos' \in Nat
    <3>1. rpos \in Nat /\ rpos < Len(block_file) /\ block_file \in Seq(Block \cup {Torn})
          /\ block_file[rpos + 1] # Torn /\ rpos' = rpos + 1
      BY <1>3 DEF ProcessReadBlock, TypeOK
    <3>2. block_file[rpos + 1] \in Block \cup {Torn}
      BY <3>1
    <3> QED
      BY <3>1, <3>2 DEF Position
  <2>2. Accept(block_file[rpos + 1], rpos) /\ pc = "idle"
        /\ UNCHANGED <<mode, block_file, chan, blocks, orphans>>
    BY <1>3 DEF ProcessReadBlock
  <2> QED
    BY <2>1, <2>2, AcceptType DEF TypeOK, Rows
<1>4. ASSUME NEW b \in Block, OnBlock(b) PROVE TypeOK' /\ IsFiniteSet(Rows)'
  <2>1. Accept(b, None) /\ pc = "idle"
        /\ UNCHANGED <<mode, rpos, block_file, chan, blocks, orphans>>
    BY <1>4 DEF OnBlock
  <2> QED
    BY <2>1, AcceptType DEF TypeOK, Rows
<1>5. CASE WriteBlockToFile
  <2>1. cur \in Entry
    BY <1>5 DEF WriteBlockToFile, TypeOK
  <2>2. cur' \in Entry /\ cur'.position # None /\ block_file' \in Seq(Block \cup {Torn})
    <3>1. \A n \in Nat : /\ [cur EXCEPT !.position = n] \in Entry
                         /\ [cur EXCEPT !.position = n].position = n
      BY <2>1 DEF Entry, Position
    <3>2. Len(block_file) \in Nat /\ cur.block \in Block /\ block_file \in Seq(Block \cup {Torn})
      BY <2>1 DEF TypeOK, Entry
    <3>3. \E n \in Nat : cur' = [cur EXCEPT !.position = n]
      BY <1>5, <3>2 DEF WriteBlockToFile
    <3>4. block_file' \in Seq(Block \cup {Torn})
      BY <1>5, <3>2 DEF WriteBlockToFile, TearBlock
    <3> QED
      BY <3>1, <3>3, <3>4, BlockAssumption
  <2>3. cur' # None
    BY <2>2, BlockAssumption
  <2> QED
    BY <1>5, <2>2, <2>3 DEF WriteBlockToFile, TypeOK, Rows
<1>6. CASE ProcessBlock
  <2>1. cur \in Entry /\ cur.block \in Block /\ cur.position \in Nat
    BY <1>6 DEF ProcessBlock, TypeOK, Entry, Position
  <2>2. chan' \in Seq(Op)
    <3> DEFINE o == [op |-> "BlockHeaderWrite", hash |-> cur.block,
                     height |-> height, position |-> cur.position]
    <3>1. o \in Op /\ chan \in Seq(Op)
      BY <2>1 DEF TypeOK, Op, Position
    <3>2. chan' = chan \/ chan' = Append(chan, o)
      BY <1>6 DEF ProcessBlock, WriteBlockheader
    <3> QED
      BY <3>1, <3>2
  <2>3. /\ block_headers' \in Seq(Block)
        /\ hash_to_index' \in [Hash -> Nat \cup {None}]
        /\ last_hash_processed' \in Hash
        /\ height' \in Nat
        /\ block_queue' = block_queue
    <3>1. CASE Prev[cur.block] # last_hash_processed
      BY <1>6, <3>1 DEF ProcessBlock, StoreBlock, TypeOK
    <3>2. CASE Prev[cur.block] = last_hash_processed /\ height > MaxI32
      BY <1>6, <2>1, <3>2, BlockAssumption DEF ProcessBlock, StoreBlock, TypeOK
    <3>3. CASE Prev[cur.block] = last_hash_processed /\ ~(height > MaxI32)
      <4>1. /\ last_hash_processed' = cur.block
            /\ hash_to_index' = [hash_to_index EXCEPT ![cur.block] = height]
            /\ block_headers' = Append(block_headers, cur.block)
            /\ height' = height + 1
            /\ block_queue' = block_queue
        BY <1>6, <3>3 DEF ProcessBlock, StoreBlock
      <4> QED
        BY <2>1, <4>1, BlockAssumption DEF TypeOK
    <3> QED
      BY <3>1, <3>2, <3>3
  <2> QED
    BY <1>6, <2>2, <2>3 DEF ProcessBlock, TypeOK, Rows
<1>7. CASE ProcessBlockQueue
  <2> DEFINE e == block_queue[last_hash_processed]
  <2>1. e \in Entry \cup {None}
    BY DEF TypeOK
  <2>2. CASE e # None
    BY <1>7, <2>1, <2>2 DEF ProcessBlockQueue, TypeOK, Begin, Rows
  <2>3. CASE e = None
    BY <1>7, <2>3 DEF ProcessBlockQueue, TypeOK, Rows
  <2> QED
    BY <2>2, <2>3
<1>8. CASE HandleOrphanBlock
  <2>1. block_queue' \in [Hash -> Entry \cup {None}]
        /\ UNCHANGED <<last_hash_processed, mode, pc, cur, rpos, block_file, blocks, orphans>>
    BY <1>8 DEF HandleOrphanBlock
  <2>2. CASE block_headers = <<>>
    BY <1>8, <2>1, <2>2 DEF HandleOrphanBlock, TypeOK, Rows
  <2>3. CASE block_headers # <<>>
    <3> DEFINE b == block_headers[Len(block_headers)]
               ops == <<[op |-> "OrphanBlockHeaderWrite", hash |-> b, height |-> height, position |-> 0],
                        [op |-> "BlockHeaderDelete", hash |-> b, height |-> 0, position |-> 0]>>
    <3>1. b \in Block
      BY <2>3 DEF TypeOK
    <3>2. /\ block_headers' = SubSeq(block_headers, 1, Len(block_headers) - 1)
          /\ hash_to_index' = [hash_to_index EXCEPT ![b] = None]
          /\ chan' = chan \o ops
          /\ height' = (height - 1) % U32
      BY <1>8, <2>3 DEF HandleOrphanBlock
    <3>3. ops \in Seq(Op)
      BY <3>1 DEF TypeOK, Op, Position
    <3>4. chan' \in Seq(Op)
      BY <3>2, <3>3 DEF TypeOK
    <3>5. height' \in Nat
      <4>1. height - 1 \in Int /\ U32 \in Nat /\ U32 > 0
        BY ConfigAssumption DEF TypeOK
      <4> QED
        BY <3>2, <4>1
    <3>6. block_headers' \in Seq(Block) /\ hash_to_index' \in [Hash -> Nat \cup {None}]
      <4>1. hash_to_index' \in [Hash -> Nat \cup {None}]
        BY <3>2 DEF TypeOK
      <4>2. Len(block_headers) - 1 \in Int /\ block_headers \in Seq(Block)
        BY DEF TypeOK
      <4>3. SubSeq(block_headers, 1, Len(block_headers) - 1) \in Seq(Block)
        BY <4>2
      <4> QED
        BY <3>2, <4>1, <4>3
    <3> QED
      BY <2>1, <3>4, <3>5, <3>6 DEF TypeOK, Rows
  <2> QED
    BY <2>2, <2>3
<1>9. CASE DbPerform
  <2>1. Head(chan) \in Op /\ Tail(chan) \in Seq(Op)
    BY <1>9 DEF DbPerform, TypeOK
  <2>2. Perform(Head(chan)) /\ chan' = Tail(chan)
        /\ UNCHANGED <<memory, control, block_file>>
    BY <1>9 DEF DbPerform
  <2> QED
    BY <2>1, <2>2, PerformType DEF TypeOK
<1>10. CASE DbLose
  BY <1>10 DEF DbLose, TypeOK, Rows
<1>11. CASE Crash
  <2>1. block_file' \in Seq(Block \cup {Torn})
    <3>1. block_file \in Seq(Block \cup {Torn})
      BY DEF TypeOK
    <3>2. block_file' = block_file \/ block_file' = Append(block_file, Torn)
      BY <1>11 DEF Crash, TearBlock
    <3> QED
      BY <3>1, <3>2
  <2> QED
    BY <1>11, <2>1, BlockAssumption, ConfigAssumption, SMTT(30) DEF Crash, TypeOK, Rows
<1>12. CASE UNCHANGED vars
  BY <1>12 DEF vars, TypeOK, Rows
<1> QED
  BY <1>1, <1>2, <1>3, <1>4, <1>5, <1>6, <1>7, <1>8, <1>9, <1>10, <1>11, <1>12 DEF Next

(* A first start, with empty memory and tables, satisfies the invariant.    *)
LEMMA InitIInv == Init => IInv
<1> SUFFICES ASSUME Init PROVE IInv
  OBVIOUS
<1>1. TypeOK
  BY BlockAssumption, ConfigAssumption DEF Init, TypeOK
<1>2. IsFiniteSet(Rows)
  <2>1. Rows = {}
    BY DEF Init, Rows
  <2> QED
    BY <2>1, FS_EmptySet
<1>3. NoBlockTwice /\ QueueWaitsForOthers /\ InHandIsNext /\ SetupIsEmpty
  BY BlockAssumption DEF Init, NoBlockTwice, QueueWaitsForOthers, InHandIsNext, SetupIsEmpty, Known, Headers
<1> QED
  BY <1>1, <1>2, <1>3 DEF IInv

(* What a delivered block leaves true: it is in hand, it waits, or it is    *)
(* ignored.                                                                 *)
LEMMA AcceptInv ==
    ASSUME IInv, pc = "idle", mode \in {"read", "run"}, mode' = mode,
           NEW b \in Block, NEW p \in Position \cup {None}, Accept(b, p)
    PROVE  (NoBlockTwice /\ QueueWaitsForOthers /\ InHandIsNext /\ SetupIsEmpty)'
<1> DEFINE e == [block |-> b, position |-> p]
<1> USE DEF IInv
<1>1. /\ UNCHANGED <<block_headers, hash_to_index, last_hash_processed>>
      /\ block_queue[last_hash_processed] = None
  BY AcceptType DEF QueueWaitsForOthers
<1>2. NoBlockTwice' /\ SetupIsEmpty'
  BY <1>1 DEF NoBlockTwice, SetupIsEmpty, Known, Headers
<1>3. CASE /\ ~Known(b) /\ Prev[b] = last_hash_processed
           /\ Begin(e) /\ UNCHANGED memory
  BY <1>1, <1>2, <1>3 DEF QueueWaitsForOthers, InHandIsNext, Begin, memory, Known
<1>4. CASE /\ ~Known(b) /\ Prev[b] # last_hash_processed
           /\ block_queue' = IF block_queue[Prev[b]] = None
                             THEN [block_queue EXCEPT ![Prev[b]] = e] ELSE block_queue
           /\ UNCHANGED <<block_headers, hash_to_index, last_hash_processed, height, pc, cur>>
  <2>1. QueueWaitsForOthers'
    BY <1>1, <1>4 DEF QueueWaitsForOthers, TypeOK, Known
  <2> QED
    BY <1>2, <1>4, <2>1 DEF InHandIsNext
<1>5. CASE Known(b) /\ UNCHANGED <<memory, pc, cur>>
  BY <1>1, <1>2, <1>5 DEF QueueWaitsForOthers, InHandIsNext, memory, Known
<1> QED
  BY <1>3, <1>4, <1>5 DEF Accept

(* A step that leaves the chain, the queue and the block in hand alone. *)
LEMMA IdleInv ==
    ASSUME IInv, UNCHANGED <<memory, pc, cur>>, mode' = "setup" => mode = "setup"
    PROVE  (NoBlockTwice /\ QueueWaitsForOthers /\ InHandIsNext /\ SetupIsEmpty)'
<1>1. NoBlockTwice'
  BY DEF IInv, NoBlockTwice, Known, Headers, memory
<1>2. QueueWaitsForOthers'
  BY DEF IInv, QueueWaitsForOthers, Known, memory
<1>3. InHandIsNext' /\ SetupIsEmpty'
  BY DEF IInv, InHandIsNext, SetupIsEmpty, Known, memory
<1> QED
  BY <1>1, <1>2, <1>3

(* process_block on the block in hand: it is new, and nothing in the queue  *)
(* is the same block, since all of it would wait for the same prev_hash.    *)
LEMMA ProcessBlockInv ==
    ASSUME IInv, ProcessBlock
    PROVE  (NoBlockTwice /\ QueueWaitsForOthers /\ InHandIsNext /\ SetupIsEmpty)'
<1> DEFINE b == cur.block
<1> USE DEF IInv
<1>1. b \in Block /\ b \in Hash /\ height \in Nat /\ height # None
  BY BlockAssumption DEF ProcessBlock, TypeOK, Entry
<1>2. Prev[b] = last_hash_processed /\ ~Known(b) /\ block_queue[last_hash_processed] = None
  BY DEF ProcessBlock, InHandIsNext
<1>3. /\ block_queue' = block_queue /\ pc' = "drain" /\ mode' = mode
      /\ last_hash_processed' = b
  BY <1>2 DEF ProcessBlock, StoreBlock
<1>4. \/ UNCHANGED <<block_headers, hash_to_index>>
      \/ /\ hash_to_index' = [hash_to_index EXCEPT ![b] = height]
         /\ block_headers' = Append(block_headers, b)
  BY <1>2 DEF ProcessBlock, StoreBlock
<1>5. NoBlockTwice'
  <2>1. CASE UNCHANGED <<block_headers, hash_to_index>>
    BY <2>1 DEF NoBlockTwice, Known, Headers
  <2>2. CASE /\ hash_to_index' = [hash_to_index EXCEPT ![b] = height]
             /\ block_headers' = Append(block_headers, b)
    <3>1. \A i \in DOMAIN block_headers : block_headers[i] # b
      BY <1>1, <1>2 DEF NoBlockTwice, Headers
    <3>2. block_headers \in Seq(Block)
      BY DEF TypeOK
    <3>3. /\ DOMAIN block_headers' = 1..(Len(block_headers) + 1)
          /\ \A i \in 1..Len(block_headers) : block_headers'[i] = block_headers[i]
          /\ block_headers'[Len(block_headers) + 1] = b
          /\ DOMAIN block_headers = 1..Len(block_headers)
          /\ Len(block_headers) \in Nat
      BY <1>1, <2>2, <3>2
    <3>4. \A i, j \in DOMAIN block_headers' : i # j => block_headers'[i] # block_headers'[j]
      BY <3>1, <3>3 DEF NoBlockTwice
    <3>5. Headers' = Headers \cup {b}
      BY <3>3 DEF Headers
    <3>6. \A h \in Hash : hash_to_index'[h] = IF h = b THEN height ELSE hash_to_index[h]
      BY <1>1, <2>2 DEF TypeOK
    <3> QED
      BY <1>1, <3>4, <3>5, <3>6 DEF NoBlockTwice, Known
  <2> QED
    BY <1>4, <2>1, <2>2
<1>6. QueueWaitsForOthers'
  <2>1. \A h \in Hash : block_queue[h] # None => block_queue[h].block # b
    BY <1>2 DEF QueueWaitsForOthers
  <2>2. \A h \in Hash : block_queue[h] # None => block_queue[h].block \in Hash
    BY BlockAssumption DEF TypeOK, Entry
  <2>3. \A h \in Hash : h # b => hash_to_index'[h] = hash_to_index[h]
    BY <1>1, <1>4 DEF TypeOK
  <2> QED
    BY <1>3, <2>1, <2>2, <2>3 DEF QueueWaitsForOthers, Known
<1>7. InHandIsNext' /\ SetupIsEmpty'
  BY <1>3 DEF InHandIsNext, SetupIsEmpty, ProcessBlock
<1> QED
  BY <1>5, <1>6, <1>7

(* The last index of a sequence of length m, and the ones before it. *)
LEMMA LastIndex ==
    \A m \in Nat \ {0} : m \in 1..m /\ \A i \in 1..(m - 1) : i \in 1..m /\ i # m
OBVIOUS

(* handle_orphan_block: the queue is empty afterwards, and the header that  *)
(* leaves was held once.                                                    *)
LEMMA HandleOrphanBlockInv ==
    ASSUME IInv, HandleOrphanBlock
    PROVE  (NoBlockTwice /\ QueueWaitsForOthers /\ InHandIsNext /\ SetupIsEmpty)'
<1>0. TypeOK /\ NoBlockTwice
  BY DEF IInv
<1>1. /\ block_queue' = [h \in Hash |-> None] /\ last_hash_processed' = last_hash_processed
      /\ pc = "idle" /\ pc' = "idle" /\ mode' = "run"
  BY DEF HandleOrphanBlock, control
<1>2. QueueWaitsForOthers' /\ InHandIsNext' /\ SetupIsEmpty'
  BY <1>0, <1>1 DEF QueueWaitsForOthers, InHandIsNext, SetupIsEmpty, TypeOK
<1>3. NoBlockTwice'
  <2>1. CASE block_headers = <<>>
    BY <1>0, <2>1 DEF HandleOrphanBlock, NoBlockTwice, Known, Headers
  <2>2. CASE block_headers # <<>>
    <3> DEFINE n == Len(block_headers)
               b == block_headers[n]
    <3>1. /\ block_headers \in Seq(Block) /\ n \in Nat /\ n > 0
          /\ DOMAIN block_headers = 1..n
      BY <1>0, <2>2 DEF TypeOK
    <3>2. /\ block_headers' = SubSeq(block_headers, 1, n - 1)
          /\ hash_to_index' = [hash_to_index EXCEPT ![b] = None]
      BY <2>2 DEF HandleOrphanBlock
    <3>3. /\ DOMAIN block_headers' = 1..(n - 1)
          /\ \A i \in 1..(n - 1) : block_headers'[i] = block_headers[i]
      BY <3>1, <3>2
    <3>4. b \in Hash /\ \A i \in 1..(n - 1) : block_headers[i] # b
      <4>1. b \in Hash
        BY <3>1, BlockAssumption
      <4> n \in Nat \ {0}
        BY <3>1
      <4> HIDE DEF n
      <4>2. n \in 1..n /\ \A i \in 1..(n - 1) : i \in 1..n /\ i # n
        BY LastIndex
      <4> QED
        BY <1>0, <3>1, <4>1, <4>2 DEF NoBlockTwice
    <3>5. Headers' = Headers \ {b}
      BY <3>1, <3>3, <3>4 DEF Headers
    <3>6. \A h \in Hash : hash_to_index'[h] = IF h = b THEN None ELSE hash_to_index[h]
      BY <1>0, <3>2 DEF TypeOK
    <3>7. \A i, j \in DOMAIN block_headers' : i # j => block_headers'[i] # block_headers'[j]
      BY <1>0, <3>1, <3>3 DEF NoBlockTwice
    <3> QED
      BY <1>0, <3>5, <3>6, <3>7 DEF NoBlockTwice, Known
  <2> QED
    BY <2>1, <2>2
<1> QED
  BY <1>2, <1>3

(* What process_read_block is given is a whole block.                       *)
LEMMA ReadsBlock ==
    ASSUME TypeOK, ProcessReadBlock
    PROVE  /\ rpos \in Nat /\ rpos < Len(block_file) /\ block_file[rpos + 1] # Torn
           /\ block_file[rpos + 1] \in Block
<1>1. rpos \in Nat /\ rpos < Len(block_file) /\ block_file \in Seq(Block \cup {Torn})
      /\ block_file[rpos + 1] # Torn
  BY DEF ProcessReadBlock, TypeOK
<1>2. block_file[rpos + 1] \in Block \cup {Torn}
  BY <1>1
<1> QED
  BY <1>1, <1>2

(* The inductive step, action by action. *)
LEMMA NextIInv ==
    ASSUME IInv, [Next]_vars
    PROVE  IInv'
<1> USE DEF IInv
<1>0. TypeOK' /\ IsFiniteSet(Rows)'
  BY NextType
<1> DEFINE Rest == NoBlockTwice /\ QueueWaitsForOthers /\ InHandIsNext /\ SetupIsEmpty
<1>1. CASE LoadBlockheaders
  <2>1. PICK s \in RowOrders :
           /\ block_headers' = s
           /\ hash_to_index' = [h \in Hash |-> IF h \in Rows THEN blocks[h].height ELSE None]
    BY <1>1 DEF LoadBlockheaders
  <2>2. /\ \A i, j \in DOMAIN s : i # j => s[i] # s[j]
        /\ {s[i] : i \in DOMAIN s} = Rows
    BY RowOrderIsSequence
  <2>3. \A h \in Rows : blocks[h].height # None /\ h \in Hash
    BY BlockAssumption DEF TypeOK, Rows, Row
  <2>4. NoBlockTwice'
    BY <2>1, <2>2, <2>3 DEF NoBlockTwice, Known, Headers
  <2>5. block_queue' = [h \in Hash |-> None] /\ pc' = "idle" /\ mode' = "run"
    BY <1>1 DEF LoadBlockheaders, SetupIsEmpty
  <2> QED
    BY <1>0, <2>4, <2>5 DEF QueueWaitsForOthers, InHandIsNext, SetupIsEmpty, TypeOK
<1>2. CASE LoadFails \/ OpenBlockFile \/ EndOfFile
  BY <1>0, <1>2, IdleInv DEF LoadFails, OpenBlockFile, EndOfFile
<1>3. CASE ProcessReadBlock
  <2>1. block_file[rpos + 1] \in Block /\ rpos \in Position \cup {None}
    BY <1>3, ReadsBlock DEF Position
  <2> QED
    BY <1>0, <1>3, <2>1, AcceptInv DEF ProcessReadBlock
<1>4. ASSUME NEW b \in Block, OnBlock(b) PROVE IInv'
  BY <1>0, <1>4, AcceptInv DEF OnBlock
<1>5. CASE WriteBlockToFile
  <2>1. cur \in Entry
    BY <1>5 DEF WriteBlockToFile, TypeOK
  <2>2. cur'.block = cur.block /\ pc = "write" /\ pc' = "process" /\ mode' = mode
    BY <1>5, <2>1 DEF WriteBlockToFile, Entry
  <2>3. UNCHANGED <<block_headers, hash_to_index, last_hash_processed, block_queue>>
    BY <1>5 DEF WriteBlockToFile, memory
  <2>4. NoBlockTwice' /\ QueueWaitsForOthers'
    BY <2>2, <2>3 DEF NoBlockTwice, QueueWaitsForOthers, Known, Headers
  <2>5. InHandIsNext' /\ SetupIsEmpty'
    BY <2>2, <2>3 DEF InHandIsNext, SetupIsEmpty, Known
  <2> QED
    BY <1>0, <2>4, <2>5
<1>6. CASE ProcessBlock
  BY <1>0, <1>6, ProcessBlockInv
<1>7. CASE ProcessBlockQueue
  <2> DEFINE e == block_queue[last_hash_processed]
  <2>1. UNCHANGED <<block_headers, hash_to_index, last_hash_processed>> /\ pc = "drain" /\ mode' = mode
    BY <1>7 DEF ProcessBlockQueue
  <2>2. NoBlockTwice' /\ SetupIsEmpty'
    BY <2>1 DEF NoBlockTwice, SetupIsEmpty, Known, Headers
  <2>3. CASE e # None
    <3>1. /\ cur' = e /\ pc' \in {"write", "process"}
          /\ block_queue' = [block_queue EXCEPT ![last_hash_processed] = None]
      BY <1>7, <2>3 DEF ProcessBlockQueue, Begin
    <3>2. InHandIsNext'
      BY <2>1, <2>3, <3>1 DEF InHandIsNext, QueueWaitsForOthers, TypeOK, Known
    <3>3. QueueWaitsForOthers'
      BY <2>1, <3>1 DEF QueueWaitsForOthers, TypeOK, Known
    <3> QED
      BY <1>0, <2>2, <3>2, <3>3
  <2>4. CASE e = None
    BY <1>0, <1>7, <2>1, <2>2, <2>4 DEF ProcessBlockQueue, QueueWaitsForOthers, InHandIsNext, Known
  <2> QED
    BY <2>3, <2>4
<1>8. CASE HandleOrphanBlock
  BY <1>0, <1>8, HandleOrphanBlockInv
<1>9. CASE DbPerform \/ DbLose
  BY <1>0, <1>9, IdleInv DEF DbPerform, DbLose, control
<1>10. CASE Crash
  <2>1. NoBlockTwice' /\ QueueWaitsForOthers'
    BY <1>10, BlockAssumption DEF Crash, NoBlockTwice, QueueWaitsForOthers, Known, Headers
  <2>2. InHandIsNext' /\ SetupIsEmpty'
    BY <1>10 DEF Crash, InHandIsNext, SetupIsEmpty
  <2> QED
    BY <1>0, <2>1, <2>2
<1>11. CASE UNCHANGED vars
  BY <1>0, <1>11, IdleInv DEF vars, control
<1> QED
  BY <1>1, <1>2, <1>3, <1>4, <1>5, <1>6, <1>7, <1>8, <1>9, <1>10, <1>11 DEF Next

(* IInv is an invariant of the block manager, whatever its settings and     *)
(* whatever crashes, losses, load errors and file errors it meets.          *)
THEOREM Invariance == Spec => []IInv
<1>1. Init => IInv
  BY InitIInv
<1>2. IInv /\ [Next]_vars => IInv'
  BY NextIInv
<1> QED
  BY <1>1, <1>2, PTL DEF Spec

(* Every variable of the block manager stays in its type: heights never     *)
(* leave the naturals and a block in hand always has its data.              *)
THEOREM TypeCorrect == Spec => []TypeOK
<1>1. IInv => TypeOK
  BY DEF IInv
<1> QED
  BY <1>1, Invariance, PTL

(* No block is stored twice, and the index is exact, for every order of     *)
(* arrival, roll-back, restart and loss.                                    *)
THEOREM NoBlockStoredTwice == Spec => []NoBlockTwice
<1>1. IInv => NoBlockTwice
  BY DEF IInv
<1> QED
  BY <1>1, Invariance, PTL

(* Between handlers no waiting block could be processed, and no stored      *)
(* block waits, for every order of arrival, roll-back, restart and loss.    *)
THEOREM QueueDrained == Spec => []QueueWaitsForOthers
<1>1. IInv => QueueWaitsForOthers
  BY DEF IInv
<1> QED
  BY <1>1, Invariance, PTL

-----------------------------------------------------------------------------
(* Heights.  With IInv, TrueHeights is inductive as long as no block is     *)
(* rolled back: the height of the next block is one more than the true      *)
(* height of last_hash_processed, the block in hand is the successor of it, *)
(* and what a start loads is what an earlier start wrote.                   *)
TrueHeight(h, x) == x <= MaxI32 => x = StartHeight + Depth[h]

(* At a first start the next height is the one above the start block's.     *)
LEMMA InitHeights == Init => TrueHeights
<1> SUFFICES ASSUME Init PROVE TrueHeights
  OBVIOUS
<1>1. height = StartHeight + 1 + Depth[last_hash_processed]
  BY BlockAssumption, ConfigAssumption DEF Init
<1>2. \A h \in Block : ~Known(h)
  BY BlockAssumption DEF Init, Known
<1>3. Rows = {} /\ chan = <<>>
  BY DEF Init, Rows
<1> QED
  BY <1>1, <1>2, <1>3 DEF TrueHeights

(* The row and the index entry of a processed block have its true height.   *)
LEMMA ProcessBlockHeights ==
    ASSUME IInv, TrueHeights, ProcessBlock
    PROVE  TrueHeights'
<1> DEFINE b == cur.block
<1>1. /\ TypeOK /\ InHandIsNext
  BY DEF IInv
<1>2. /\ b \in Block /\ b \in Hash /\ height \in Nat
      /\ Prev[b] = last_hash_processed /\ ~Known(b)
  BY <1>1, BlockAssumption DEF ProcessBlock, TypeOK, Entry, InHandIsNext
<1>3. Depth[b] = Depth[last_hash_processed] + 1 /\ Depth[last_hash_processed] \in Int
      /\ Depth[b] \in Int
  BY <1>1, <1>2, BlockAssumption DEF TypeOK
<1>4. TrueHeight(b, height)
  BY <1>2, <1>3, ConfigAssumption DEF TrueHeights, TrueHeight
<1>5. /\ last_hash_processed' = b /\ blocks' = blocks
      /\ chan' = Append(chan, [op |-> "BlockHeaderWrite", hash |-> b,
                               height |-> height, position |-> cur.position])
      /\ \/ height > MaxI32 /\ UNCHANGED <<hash_to_index, height>>
         \/ /\ ~(height > MaxI32)
            /\ hash_to_index' = [hash_to_index EXCEPT ![b] = height]
            /\ height' = height + 1
  BY <1>2 DEF ProcessBlock, StoreBlock, WriteBlockheader, tables
<1>6. \A h \in Block : Known(h)' => TrueHeight(h, hash_to_index'[h])
  <2>1. \A h \in Block : h \in Hash
    BY BlockAssumption
  <2> QED
    BY <1>1, <1>4, <1>5, <2>1 DEF TrueHeights, TrueHeight, Known, TypeOK
<1>7. \A h \in Rows' : TrueHeight(h, blocks'[h].height)
  BY <1>5 DEF TrueHeights, TrueHeight, Rows
<1>8. \A i \in DOMAIN chan' :
          chan'[i].op = "BlockHeaderWrite" => TrueHeight(chan'[i].hash, chan'[i].height)
  <2>1. chan \in Seq(Op)
    BY <1>1 DEF TypeOK
  <2>2. ASSUME NEW i \in DOMAIN chan', chan'[i].op = "BlockHeaderWrite"
        PROVE  TrueHeight(chan'[i].hash, chan'[i].height)
    <3>1. CASE i = Len(chan) + 1
      BY <1>4, <1>5, <2>1, <3>1
    <3>2. CASE i # Len(chan) + 1
      <4>1. i \in DOMAIN chan /\ chan'[i] = chan[i]
        BY <1>5, <2>1, <2>2, <3>2
      <4> QED
        BY <2>2, <4>1 DEF TrueHeights, TrueHeight
    <3> QED
      BY <3>1, <3>2
  <2> QED
    BY <2>2
<1>9. height' <= MaxI32 => height' = StartHeight + 1 + Depth[last_hash_processed']
  BY <1>2, <1>3, <1>4, <1>5, ConfigAssumption DEF TrueHeight
<1> QED
  BY <1>6, <1>7, <1>8, <1>9 DEF TrueHeights, TrueHeight

(* A start that loads the rows takes their heights and goes on from the     *)
(* last of them.                                                            *)
LEMMA LoadHeights ==
    ASSUME IInv, TrueHeights, LoadBlockheaders
    PROVE  TrueHeights'
<1>1. TypeOK /\ IsFiniteSet(Rows)
  BY DEF IInv
<1>2. PICK s \in RowOrders :
         /\ hash_to_index' = [h \in Hash |-> IF h \in Rows THEN blocks[h].height ELSE None]
         /\ height' = IF s = <<>> THEN height ELSE blocks[s[Len(s)]].height + 1
         /\ last_hash_processed' = IF s = <<>> THEN last_hash_processed ELSE s[Len(s)]
  BY DEF LoadBlockheaders
<1>3. UNCHANGED <<blocks, chan>>
  BY DEF LoadBlockheaders, tables
<1>4. \A h \in Rows : h \in Hash /\ blocks[h].height \in Nat /\ TrueHeight(h, blocks[h].height)
  BY <1>1, BlockAssumption DEF TrueHeights, TrueHeight, Rows, TypeOK, Row
<1>5. s # <<>> => s[Len(s)] \in Rows
  BY <1>1, RowOrderIsSequence
<1>6. \A h \in Block : Known(h)' => TrueHeight(h, hash_to_index'[h])
  BY <1>2, <1>4, BlockAssumption DEF Known
<1>7. height' <= MaxI32 => height' = StartHeight + 1 + Depth[last_hash_processed']
  <2>1. CASE s = <<>>
    BY <1>2, <2>1 DEF TrueHeights
  <2>2. CASE s # <<>>
    <3>1. /\ height' = blocks[s[Len(s)]].height + 1 /\ last_hash_processed' = s[Len(s)]
          /\ TrueHeight(s[Len(s)], blocks[s[Len(s)]].height)
          /\ blocks[s[Len(s)]].height \in Nat /\ Depth[s[Len(s)]] \in Int
      BY <1>2, <1>4, <1>5, <2>2, BlockAssumption
    <3>2. \A x \in Nat : \A d \in Int :
            (x <= MaxI32 => x = StartHeight + d) => (x + 1 <= MaxI32 => x + 1 = StartHeight + 1 + d)
      BY ConfigAssumption
    <3> DEFINE x == blocks[s[Len(s)]].height
               d == Depth[s[Len(s)]]
    <3>3. x \in Nat /\ d \in Int /\ (x <= MaxI32 => x = StartHeight + d)
      BY <3>1 DEF TrueHeight
    <3> HIDE DEF x, d
    <3>4. x + 1 <= MaxI32 => x + 1 = StartHeight + 1 + d
      BY <3>2, <3>3
    <3> QED
      BY <3>1, <3>4 DEF x, d
  <2> QED
    BY <2>1, <2>2
<1> QED
  BY <1>3, <1>6, <1>7 DEF TrueHeights, TrueHeight, Rows

(* The writer puts the height of the operation in the row. *)
LEMMA WriterHeights ==
    ASSUME IInv, TrueHeights, DbPerform \/ DbLose
    PROVE  TrueHeights'
<1>1. TypeOK /\ chan \in Seq(Op) /\ chan # <<>>
  BY DEF IInv, TypeOK, DbPerform, DbLose
<1>2. /\ chan' = Tail(chan)
      /\ UNCHANGED <<hash_to_index, height, last_hash_processed>>
  BY DEF DbPerform, DbLose, memory
<1>3. \A i \in DOMAIN chan' : i + 1 \in DOMAIN chan /\ chan'[i] = chan[i + 1]
  BY <1>1, <1>2
<1>4. \A i \in DOMAIN chan' :
          chan'[i].op = "BlockHeaderWrite" => TrueHeight(chan'[i].hash, chan'[i].height)
  BY <1>3 DEF TrueHeights, TrueHeight
<1>5. 1 \in DOMAIN chan /\ Head(chan) = chan[1] /\ Head(chan) \in Op
  BY <1>1
<1>6. Head(chan).op = "BlockHeaderWrite" => TrueHeight(Head(chan).hash, Head(chan).height)
  BY <1>5 DEF TrueHeights, TrueHeight
<1>7. \A h \in Rows' : TrueHeight(h, blocks'[h].height)
  <2>1. CASE DbLose
    BY <2>1 DEF DbLose, tables, TrueHeights, TrueHeight, Rows
  <2>2. CASE DbPerform
    <3>1. Head(chan).hash \in Block /\ Head(chan).height \in Nat
      BY <1>5 DEF Op
    <3>2. \/ blocks' = blocks
          \/ blocks' = [blocks EXCEPT ![Head(chan).hash] = None]
          \/ /\ Head(chan).op = "BlockHeaderWrite"
             /\ blocks' = [blocks EXCEPT ![Head(chan).hash] =
                             [height |-> Head(chan).height, position |-> Head(chan).position]]
      BY <2>2 DEF DbPerform, Perform
    <3>3. ASSUME NEW h \in Rows' PROVE TrueHeight(h, blocks'[h].height)
      <4>1. h \in Block /\ blocks'[h] # None
        BY <3>3 DEF Rows
      <4>2. CASE blocks'[h] = blocks[h]
        <5>1. h \in Rows
          BY <4>1, <4>2 DEF Rows
        <5> QED
          BY <4>2, <5>1 DEF TrueHeights, TrueHeight
      <4>3. CASE blocks'[h] # blocks[h]
        <5>1. h = Head(chan).hash /\ Head(chan).op = "BlockHeaderWrite"
              /\ blocks'[h].height = Head(chan).height
          BY <1>1, <3>1, <3>2, <4>1, <4>3 DEF TypeOK
        <5> QED
          BY <1>6, <5>1
      <4> QED
        BY <4>2, <4>3
    <3> QED
      BY <3>3
  <2> QED
    BY <2>1, <2>2
<1> QED
  BY <1>2, <1>4, <1>7 DEF TrueHeights, TrueHeight, Known

(* A step that leaves the heights, the index, the rows and the channel.     *)
LEMMA SameHeights ==
    ASSUME TrueHeights, UNCHANGED <<hash_to_index, height, last_hash_processed, blocks, chan>>
    PROVE  TrueHeights'
BY DEF TrueHeights, Known, Rows

(* Every step keeps the heights true, as long as no block is rolled back    *)
(* (handle_orphan_block moves the height and not last_hash_processed).      *)
LEMMA NextHeights ==
    ASSUME ~DetectOrphans, IInv, TrueHeights, [Next]_vars
    PROVE  TrueHeights'
<1> USE DEF memory, control, tables
<1>1. CASE LoadBlockheaders
  BY <1>1, LoadHeights
<1>2. CASE LoadFails \/ OpenBlockFile \/ EndOfFile \/ WriteBlockToFile \/ UNCHANGED vars
  BY <1>2, SameHeights DEF LoadFails, OpenBlockFile, EndOfFile, WriteBlockToFile, vars
<1>3. CASE ProcessReadBlock
  BY <1>3, SameHeights DEF ProcessReadBlock, Accept
<1>4. ASSUME NEW b \in Block, OnBlock(b) PROVE TrueHeights'
  BY <1>4, SameHeights DEF OnBlock, Accept
<1>5. CASE ProcessBlock
  BY <1>5, ProcessBlockHeights
<1>6. CASE ProcessBlockQueue
  BY <1>6, SameHeights DEF ProcessBlockQueue
<1>7. CASE HandleOrphanBlock
  BY <1>7 DEF HandleOrphanBlock
<1>8. CASE DbPerform \/ DbLose
  BY <1>8, WriterHeights
<1>9. CASE Crash
  <2>1. height' = StartHeight + 1 + Depth[last_hash_processed']
    BY <1>9, BlockAssumption, ConfigAssumption DEF Crash
  <2>2. \A h \in Block : ~Known(h)'
    BY <1>9, BlockAssumption DEF Crash, Known
  <2>3. chan' = <<>> /\ blocks' = blocks
    BY <1>9 DEF Crash
  <2> QED
    BY <2>1, <2>2, <2>3 DEF TrueHeights, Rows
<1> QED
  BY <1>1, <1>2, <1>3, <1>4, <1>5, <1>6, <1>7, <1>8, <1>9 DEF Next

(* Without orphan roll-back, every height in memory, in the table and on    *)
(* its way there is the true one, whatever rows are lost and however often  *)
(* the process crashes, fails to load its headers or loses its block file   *)
(* writes.                                                                  *)
THEOREM HeightsAreTrue ==
    ASSUME ~DetectOrphans
    PROVE  Spec => []TrueHeights
<1>1. Init => TrueHeights
  BY InitHeights
<1>2. IInv /\ TrueHeights /\ [Next]_vars => TrueHeights'
  BY NextHeights
<1> QED
  BY <1>1, <1>2, Invariance, PTL DEF Spec

-----------------------------------------------------------------------------
(* The chain.  A node that does not load its headers from the table and     *)
(* does not roll back holds a linked chain: with IInv, ChainLinked is       *)
(* inductive.                                                               *)
LEMMA ProcessBlockChain ==
    ASSUME IInv, ChainLinked, ProcessBlock
    PROVE  ChainLinked'
<1> DEFINE b == cur.block
           n == Len(block_headers)
<1>1. /\ b \in Block /\ b \in Hash /\ height \in Nat /\ Prev[b] = last_hash_processed /\ ~Known(b)
      /\ block_headers \in Seq(Block) /\ n \in Nat /\ DOMAIN block_headers = 1..n
      /\ hash_to_index \in [Hash -> Nat \cup {None}]
  BY BlockAssumption DEF IInv, ProcessBlock, TypeOK, Entry, InHandIsNext
<1>2. /\ last_hash_processed' = b
      /\ \/ height > MaxI32 /\ UNCHANGED <<block_headers, hash_to_index, height>>
         \/ /\ ~(height > MaxI32)
            /\ hash_to_index' = [hash_to_index EXCEPT ![b] = height]
            /\ block_headers' = Append(block_headers, b)
            /\ height' = height + 1
  BY <1>1 DEF ProcessBlock, StoreBlock
<1>3. CASE height > MaxI32 /\ UNCHANGED <<block_headers, hash_to_index, height>>
  <2>1. ~(height' <= MaxI32)
    BY <1>1, <1>3, ConfigAssumption
  <2> QED
    BY <1>3, <2>1 DEF ChainLinked
<1>4. CASE /\ ~(height > MaxI32)
           /\ hash_to_index' = [hash_to_index EXCEPT ![b] = height]
           /\ block_headers' = Append(block_headers, b)
           /\ height' = height + 1
  <2>1. /\ Len(block_headers') = n + 1 /\ DOMAIN block_headers' = 1..(n + 1)
        /\ block_headers'[n + 1] = b /\ \A i \in 1..n : block_headers'[i] = block_headers[i]
    BY <1>1, <1>4
  <2>2. height = StartHeight + 1 + n /\ height <= MaxI32
    BY <1>1, <1>4, ConfigAssumption DEF ChainLinked
  <2>3. last_hash_processed = IF n = 0 THEN StartHash ELSE block_headers[n]
    BY <1>1, <2>2 DEF ChainLinked
  <2>4. \A i \in 1..n : block_headers[i] # b /\ block_headers[i] \in Hash
    <3>1. \A i \in 1..n : block_headers[i] \in Hash
      BY <1>1, BlockAssumption
    <3>2. b \notin Headers
      BY <1>1 DEF IInv, NoBlockTwice
    <3> QED
      BY <1>1, <3>1, <3>2 DEF Headers
  <2>5. \A i \in 1..n : hash_to_index'[block_headers[i]] = StartHeight + i
    BY <1>1, <1>4, <2>4 DEF ChainLinked
  <2>6. hash_to_index'[b] = StartHeight + (n + 1)
    <3>1. hash_to_index'[b] = height
      BY <1>1, <1>4
    <3> QED
      BY <1>1, <2>2, <3>1, ConfigAssumption
  <2>7. ASSUME NEW i \in 1..(n + 1)
        PROVE  /\ Prev[block_headers'[i]] = IF i = 1 THEN StartHash ELSE block_headers'[i - 1]
               /\ hash_to_index'[block_headers'[i]] = StartHeight + i
    <3>1. CASE i = n + 1
      <4>1. Prev[b] = IF n = 0 THEN StartHash ELSE block_headers[n]
        BY <1>1, <2>3
      <4>2. i - 1 = n /\ (i = 1 <=> n = 0) /\ (n # 0 => n \in 1..n)
        BY <1>1, <3>1
      <4> QED
        BY <2>1, <2>6, <3>1, <4>1, <4>2
    <3>2. CASE i # n + 1
      <4>1. i \in 1..n /\ (i # 1 => i - 1 \in 1..n)
        BY <1>1, <3>2
      <4>2. Prev[block_headers[i]] = IF i = 1 THEN StartHash ELSE block_headers[i - 1]
        BY <1>1, <4>1 DEF ChainLinked
      <4> QED
        BY <2>1, <2>5, <4>1, <4>2
    <3> QED
      BY <3>1, <3>2
  <2>8. height' = StartHeight + 1 + Len(block_headers')
    BY <1>1, <1>4, <2>1, <2>2, ConfigAssumption
  <2>9. block_headers' # <<>> /\ block_headers'[Len(block_headers')] = b
    BY <1>1, <2>1
  <2> QED
    BY <1>2, <2>1, <2>7, <2>8, <2>9 DEF ChainLinked
<1> QED
  BY <1>2, <1>3, <1>4

(* A step that leaves the chain, its index and its end.                     *)
LEMMA SameChain ==
    ASSUME ChainLinked, UNCHANGED <<block_headers, hash_to_index, height, last_hash_processed>>
    PROVE  ChainLinked'
BY DEF ChainLinked

(* Every step of such a node keeps the chain linked.                        *)
LEMMA NextChain ==
    ASSUME ~LoadFromDb, ~DetectOrphans, IInv, ChainLinked, [Next]_vars
    PROVE  ChainLinked'
<1> USE DEF memory, control, tables
<1>1. CASE LoadBlockheaders \/ LoadFails \/ HandleOrphanBlock
  BY <1>1 DEF LoadBlockheaders, LoadFails, HandleOrphanBlock
<1>2. CASE OpenBlockFile \/ EndOfFile \/ WriteBlockToFile \/ ProcessBlockQueue \/ DbPerform
           \/ DbLose \/ UNCHANGED vars
  BY <1>2, SameChain DEF OpenBlockFile, EndOfFile, WriteBlockToFile, ProcessBlockQueue, DbPerform, DbLose, vars
<1>3. CASE ProcessReadBlock
  BY <1>3, SameChain DEF ProcessReadBlock, Accept
<1>4. ASSUME NEW b \in Block, OnBlock(b) PROVE ChainLinked'
  BY <1>4, SameChain DEF OnBlock, Accept
<1>5. CASE ProcessBlock
  BY <1>5, ProcessBlockChain
<1>6. CASE Crash
  <2>1. /\ block_headers' = <<>> /\ last_hash_processed' = StartHash /\ height' = StartHeight + 1
    BY <1>6 DEF Crash
  <2> QED
    BY <2>1, ConfigAssumption DEF ChainLinked
<1> QED
  BY <1>1, <1>2, <1>3, <1>4, <1>5, <1>6 DEF Next

(* Without roll-backs, a node that starts from its block file processes     *)
(* blocks in chain order: its headers are linked from the configured start  *)
(* block on, at consecutive heights, whatever order blocks arrive in and    *)
(* are queued, and whatever crashes, losses and file errors there are.      *)
THEOREM HeadersAreLinked ==
    ASSUME ~LoadFromDb, ~DetectOrphans
    PROVE  Spec => []ChainLinked
<1>1. Init => ChainLinked
  BY ConfigAssumption DEF Init, ChainLinked
<1>2. IInv /\ ChainLinked /\ [Next]_vars => ChainLinked'
  BY NextChain
<1> QED
  BY <1>1, <1>2, Invariance, PTL DEF Spec

-----------------------------------------------------------------------------
(* The block file.  Such a node, when its writes to the file succeed, holds *)
(* the headers of the blocks that were in the file when it started, up to   *)
(* the first torn one, and of those it has appended since.  A start replays *)
(* the file block by block, with nothing left for the queue, and a block    *)
(* that arrives is appended before it is stored.                            *)
Replayed(k) == Len(block_headers) = k /\ \A i \in 1..k : block_headers[i] = block_file[i]

(* The headers, with the block in hand that is in the file already.         *)
Written == IF pc = "process" THEN Append(block_headers, cur.block) ELSE block_headers

FileInv ==
    /\ Len(block_file) <= MaxFile
    /\ \A i \in Readable :
          Prev[block_file[i]] = IF i = 1 THEN StartHash ELSE block_file[i - 1]
    /\ \A i, j \in Readable : block_file[i] = block_file[j] => i = j
    /\ mode = "setup" => rpos = 0
    /\ mode # "run" => block_queue = [h \in Hash |-> None]
    /\ \A h \in Hash : block_queue[h] # None => block_queue[h].position = None
    /\ mode = "read" =>
          /\ pc # "write"
          /\ rpos = 0 \/ rpos \in Readable
          /\ IF pc = "process"
             THEN rpos \in Readable /\ cur.block = block_file[rpos] /\ Replayed(rpos - 1)
             ELSE Replayed(rpos)
    /\ mode = "run" => FileHolds(Written)

FileSettings ==
    /\ ~LoadFromDb /\ ~DetectOrphans /\ SaveBlocks /\ "file" \notin Faults
    /\ StartHeight + MaxFile <= MaxI32

(* What is readable is a whole block, and so is everything before it.       *)
LEMMA ReadablePart ==
    ASSUME TypeOK
    PROVE  /\ Readable \subseteq 1..Len(block_file) /\ Len(block_file) \in Nat
           /\ DOMAIN block_file = 1..Len(block_file)
           /\ \A i \in Readable : block_file[i] \in Block /\ 1..i \subseteq Readable
<1>1. block_file \in Seq(Block \cup {Torn})
  BY DEF TypeOK
<1>2. /\ Readable \subseteq 1..Len(block_file) /\ Len(block_file) \in Nat
      /\ DOMAIN block_file = 1..Len(block_file)
  BY <1>1 DEF Readable
<1>3. ASSUME NEW i \in Readable
      PROVE  block_file[i] \in Block /\ 1..i \subseteq Readable
  <2>1. i \in 1..Len(block_file) /\ i \in 1..i /\ \A j \in 1..i : block_file[j] # Torn
    BY <1>2, <1>3 DEF Readable
  <2>2. block_file[i] \in Block \cup {Torn}
    BY <1>1, <2>1
  <2>3. ASSUME NEW k \in 1..i PROVE k \in Readable
    <3>1. k \in 1..Len(block_file) /\ \A j \in 1..k : j \in 1..i
      BY <1>2, <2>1
    <3> QED
      BY <1>2, <2>1, <3>1 DEF Readable
  <2> QED
    BY <2>1, <2>2, <2>3
<1> QED
  BY <1>2, <1>3

(* A torn block at the end of the file leaves what was readable.            *)
LEMMA TornBehind ==
    ASSUME TypeOK, block_file' = Append(block_file, Torn)
    PROVE  /\ Readable' = Readable
           /\ \A i \in Readable : block_file'[i] = block_file[i]
           /\ \A i \in Readable : i # 1 => block_file'[i - 1] = block_file[i - 1]
<1> DEFINE n == Len(block_file)
<1>1. block_file \in Seq(Block \cup {Torn}) /\ n \in Nat /\ DOMAIN block_file = 1..n
  BY DEF TypeOK
<1>2. /\ DOMAIN block_file' = 1..(n + 1) /\ block_file'[n + 1] = Torn
      /\ \A i \in 1..n : block_file'[i] = block_file[i]
  BY <1>1
<1> HIDE DEF n
<1>3. ASSUME NEW i \in Readable' PROVE i \in Readable
  <2>1. i \in 1..(n + 1) /\ i \in 1..i /\ \A j \in 1..i : block_file'[j] # Torn
    BY <1>1, <1>2, <1>3 DEF Readable
  <2>2. i \in 1..n /\ \A j \in 1..i : j \in 1..n
    BY <1>1, <1>2, <2>1
  <2> QED
    BY <1>1, <1>2, <2>1, <2>2 DEF Readable
<1>4. ASSUME NEW i \in Readable PROVE i \in Readable'
  <2>1. i \in 1..n /\ i \in 1..(n + 1) /\ \A j \in 1..i : j \in 1..n /\ block_file[j] # Torn
    BY <1>1 DEF Readable
  <2> QED
    BY <1>1, <1>2, <2>1 DEF Readable
<1>5. \A i \in Readable : i \in 1..n /\ (i # 1 => i - 1 \in 1..n)
  BY <1>1 DEF Readable
<1> QED
  BY <1>2, <1>3, <1>4, <1>5

(* As long as the file has room, last_hash_processed is the end of the      *)
(* chain, and the block that is stored next fits an i32 height.             *)
LEMMA ChainEnd ==
    ASSUME FileSettings, IInv, ChainLinked, Len(block_headers) < MaxFile
    PROVE  /\ height <= MaxI32 /\ height \in Nat
           /\ Len(block_headers) \in Nat
           /\ last_hash_processed = IF Len(block_headers) = 0 THEN StartHash
                                    ELSE block_headers[Len(block_headers)]
           /\ \A h \in Hash : Known(h) <=> \E i \in 1..Len(block_headers) : block_headers[i] = h
<1>1. /\ block_headers \in Seq(Block) /\ Len(block_headers) \in Nat
      /\ DOMAIN block_headers = 1..Len(block_headers) /\ height \in Nat
  BY DEF IInv, TypeOK
<1>2. height <= MaxI32
  BY <1>1, ConfigAssumption DEF ChainLinked, FileSettings
<1>3. block_headers = <<>> <=> Len(block_headers) = 0
  BY <1>1
<1>4. \A h \in Hash : Known(h) <=> h \in Headers
  BY DEF IInv, NoBlockTwice
<1> QED
  BY <1>1, <1>2, <1>3, <1>4 DEF Headers, ChainLinked

(* process_read_block takes the next block of the file: it extends the      *)
(* chain, so it is never left to the queue.                                 *)
LEMMA ReadFile ==
    ASSUME FileSettings, IInv, ChainLinked, FileInv, ProcessReadBlock
    PROVE  FileInv'
<1> DEFINE n == Len(block_file)
           b == block_file[rpos + 1]
<1>1. /\ mode = "read" /\ pc = "idle" /\ Accept(b, rpos) /\ mode' = mode /\ mode' # "run"
      /\ block_file' = block_file /\ rpos' = rpos + 1
  BY DEF ProcessReadBlock
<1>2. rpos < n /\ rpos \in Nat /\ b # Torn /\ b \in Block /\ b \in Hash
  BY ReadsBlock, BlockAssumption DEF IInv
<1>3. /\ n \in Nat /\ n <= MaxFile /\ DOMAIN block_file = 1..n
      /\ (rpos = 0 \/ rpos \in Readable) /\ Replayed(rpos)
  BY <1>1, ReadablePart DEF FileInv, IInv
<1>4. rpos + 1 \in Readable /\ 1..rpos \subseteq Readable
  <2>1. 1..rpos \subseteq Readable
    BY <1>2, <1>3, ReadablePart DEF IInv
  <2>2. \A j \in 1..rpos : block_file[j] # Torn
    <3>1. \A j \in 1..rpos : j \in Readable /\ block_file[j] \in Block
      BY <2>1, ReadablePart DEF IInv
    <3> QED
      BY <3>1, BlockAssumption DEF Torn
  <2>3. rpos + 1 \in 1..n /\ \A j \in 1..(rpos + 1) : j \in 1..rpos \/ j = rpos + 1
    BY <1>2, <1>3
  <2> QED
    BY <1>2, <1>3, <2>1, <2>2, <2>3 DEF Readable
<1>5. /\ last_hash_processed = IF rpos = 0 THEN StartHash ELSE block_file[rpos]
      /\ \A h \in Hash : Known(h) <=> \E i \in 1..rpos : block_file[i] = h
  <2>1. Len(block_headers) = rpos /\ rpos < MaxFile /\ \A i \in 1..rpos : block_headers[i] = block_file[i]
    BY <1>2, <1>3, ConfigAssumption DEF Replayed
  <2>2. rpos # 0 => rpos \in 1..rpos
    BY <1>2
  <2> QED
    BY <2>1, <2>2, ChainEnd
<1>6. (rpos + 1) - 1 = rpos /\ (rpos + 1 = 1 <=> rpos = 0)
  BY <1>2
<1>7. Prev[b] = last_hash_processed
  BY <1>4, <1>5, <1>6 DEF FileInv
<1>8. ~Known(b)
  <2>1. \A i \in 1..rpos : i \in Readable /\ i # rpos + 1
    BY <1>2, <1>4
  <2>2. \A i \in 1..rpos : block_file[i] # b
    BY <1>4, <2>1 DEF FileInv
  <2> QED
    BY <1>2, <1>5, <2>2
<1>9. cur' = [block |-> b, position |-> rpos] /\ pc' = "process" /\ UNCHANGED memory
  <2>1. Begin([block |-> b, position |-> rpos]) /\ UNCHANGED memory
    BY <1>1, <1>7, <1>8 DEF Accept
  <2>2. rpos # None
    BY <1>2, BlockAssumption
  <2> QED
    BY <2>1, <2>2 DEF Begin
<1>10. Readable' = Readable
  BY <1>1 DEF Readable
<1>11. cur'.block = block_file'[rpos'] /\ rpos' \in Readable'
  BY <1>1, <1>4, <1>9, <1>10
<1>12. Len(block_headers') = rpos' - 1 /\ \A i \in 1..(rpos' - 1) : block_headers'[i] = block_file'[i]
  BY <1>1, <1>3, <1>6, <1>9 DEF Replayed, memory
<1>13. block_queue' = block_queue
  BY <1>9 DEF memory
<1> QED
  BY <1>1, <1>9, <1>10, <1>11, <1>12, <1>13 DEF FileInv, Replayed

(* write_block_to_file appends the block in hand, which is new and, when    *)
(* nothing is torn, extends the last one of the file.                       *)
LEMMA WriteFile ==
    ASSUME FileSettings, IInv, ChainLinked, FileInv, WriteBlockToFile
    PROVE  FileInv'
<1> DEFINE n == Len(block_file)
           k == Len(block_headers)
           b == cur.block
<1>1. /\ pc = "write" /\ pc' = "process" /\ n < MaxFile /\ block_file' = Append(block_file, b)
      /\ cur' = [cur EXCEPT !.position = n] /\ UNCHANGED <<memory, mode, rpos>>
  BY DEF WriteBlockToFile, FileSettings
<1>2. /\ n \in Nat /\ cur \in Entry /\ b \in Block /\ b \in Hash /\ b # Torn
      /\ block_file \in Seq(Block \cup {Torn}) /\ block_headers \in Seq(Block) /\ k \in Nat
      /\ DOMAIN block_file = 1..n
      /\ Prev[b] = last_hash_processed /\ ~Known(b)
  BY <1>1, BlockAssumption DEF IInv, TypeOK, Entry, InHandIsNext, Torn
<1>3. mode = "run"
  BY <1>1 DEF FileInv, IInv, TypeOK, SetupIsEmpty
<1>4. /\ k <= n
      /\ \A i \in Readable : i <= k /\ block_headers[i] = block_file[i]
      /\ \A i \in 1..k : i \in Readable \/ block_headers[i] = block_file[i + (n - k)]
  BY <1>1, <1>3 DEF FileInv, Written, FileHolds
<1>5. /\ last_hash_processed = IF k = 0 THEN StartHash ELSE block_headers[k]
      /\ \A h \in Hash : Known(h) <=> \E i \in 1..k : block_headers[i] = h
  <2>1. k < MaxFile
    BY <1>1, <1>2, <1>4, ConfigAssumption
  <2> QED
    BY <2>1, ChainEnd
<1>6. /\ Len(block_file') = n + 1 /\ block_file'[n + 1] = b /\ DOMAIN block_file' = 1..(n + 1)
      /\ \A i \in 1..n : block_file'[i] = block_file[i]
  BY <1>1, <1>2
<1>7. /\ Written' = Append(block_headers, b) /\ Len(Written') = k + 1 /\ Written'[k + 1] = b
      /\ \A i \in 1..k : Written'[i] = block_headers[i]
  <2>1. cur'.block = b
    BY <1>1, <1>2 DEF Entry
  <2>2. Written' = Append(block_headers, b)
    BY <1>1, <2>1 DEF Written, memory
  <2> QED
    BY <1>2, <2>2
<1>8. Readable \subseteq 1..n /\ \A i \in Readable : block_file[i] \in Block /\ 1..i \subseteq Readable
  BY ReadablePart DEF IInv
<1> HIDE DEF n, k, b
<1>9. ASSUME NEW i \in Readable'
      PROVE  i \in Readable \/ (i = n + 1 /\ 1..n \subseteq Readable /\ k = n)
  <2>1. i \in 1..(n + 1) /\ \A j \in 1..i : block_file'[j] # Torn
    BY <1>6, <1>9 DEF Readable
  <2>2. CASE i # n + 1
    <3>1. i \in 1..n /\ \A j \in 1..i : j \in 1..n /\ block_file[j] # Torn
      BY <1>2, <1>6, <2>1, <2>2
    <3> QED
      BY <1>2, <3>1 DEF Readable
  <2>3. CASE i = n + 1
    <3>1. \A j \in 1..n : block_file[j] # Torn
      BY <1>2, <1>6, <2>1, <2>3
    <3>2. 1..n \subseteq Readable
      <4>1. \A j \in 1..n : \A l \in 1..j : l \in 1..n
        BY <1>2
      <4> QED
        BY <1>2, <3>1, <4>1 DEF Readable
    <3>3. k = n
      <4>1. n # 0 => n \in 1..n
        BY <1>2
      <4> QED
        BY <1>2, <1>4, <3>2, <4>1
    <3> QED
      BY <2>3, <3>2, <3>3
  <2> QED
    BY <2>2, <2>3
<1>10. ASSUME NEW i \in Readable'
       PROVE  Prev[block_file'[i]] = IF i = 1 THEN StartHash ELSE block_file'[i - 1]
  <2>1. CASE i \in Readable
    <3>1. i \in 1..n /\ (i # 1 => i - 1 \in 1..n)
      BY <1>2, <1>8, <2>1
    <3> QED
      BY <1>6, <2>1, <3>1 DEF FileInv
  <2>2. CASE i = n + 1 /\ 1..n \subseteq Readable /\ k = n
    <3>1. i - 1 = n /\ (i = 1 <=> n = 0) /\ (n # 0 => n \in 1..n)
      BY <1>2, <2>2
    <3>2. n # 0 => block_headers[n] = block_file[n] /\ block_file'[n] = block_file[n]
      BY <1>4, <1>6, <2>2, <3>1
    <3> QED
      BY <1>2, <1>5, <1>6, <2>2, <3>1, <3>2
  <2> QED
    BY <1>9, <2>1, <2>2
<1>11. ASSUME NEW i \in Readable', NEW j \in Readable', block_file'[i] = block_file'[j]
       PROVE  i = j
  <2>1. \A l \in Readable : block_file'[l] = block_file[l] /\ block_file[l] # b
    <3>1. \A l \in Readable : l \in 1..n /\ l \in 1..k /\ block_headers[l] = block_file[l]
      BY <1>2, <1>4, <1>8
    <3> QED
      BY <1>2, <1>5, <1>6, <3>1
  <2> QED
    BY <1>6, <1>9, <1>11, <2>1 DEF FileInv
<1>12. (FileHolds(Written))'
  <2>1. k + 1 <= n + 1
    BY <1>2, <1>4
  <2>2. ASSUME NEW i \in Readable' PROVE i <= k + 1 /\ Written'[i] = block_file'[i]
    <3>1. CASE i \in Readable
      <4>1. i \in 1..n /\ i \in 1..k /\ i <= k + 1
        BY <1>2, <1>4, <1>8, <3>1
      <4> QED
        BY <1>4, <1>6, <1>7, <3>1, <4>1
    <3>2. CASE i = n + 1 /\ 1..n \subseteq Readable /\ k = n
      BY <1>2, <1>6, <1>7, <3>2
    <3> QED
      BY <1>9, <3>1, <3>2
  <2>3. \A i \in Readable : i \in Readable'
    <3>1. \A i \in Readable : i \in 1..n /\ i \in 1..(n + 1) /\ \A j \in 1..i : j \in 1..n /\ block_file[j] # Torn
      BY <1>2, <1>8 DEF Readable
    <3> QED
      BY <1>6, <3>1 DEF Readable
  <2>4. ASSUME NEW i \in 1..(k + 1)
        PROVE  i \in Readable' \/ Written'[i] = block_file'[i + ((n + 1) - (k + 1))]
    <3>1. CASE i = k + 1
      <4>1. i + ((n + 1) - (k + 1)) = n + 1
        BY <1>2, <3>1
      <4> QED
        BY <1>6, <1>7, <3>1, <4>1
    <3>2. CASE i # k + 1 /\ i \notin Readable
      <4>1. i \in 1..k /\ i + ((n + 1) - (k + 1)) = i + (n - k) /\ i + (n - k) \in 1..n
        BY <1>2, <1>4, <3>2
      <4> QED
        BY <1>4, <1>6, <1>7, <3>2, <4>1
    <3> QED
      BY <2>3, <3>1, <3>2
  <2> QED
    BY <1>6, <1>7, <2>1, <2>2, <2>4 DEF FileHolds
<1>13. Len(block_file') <= MaxFile
  BY <1>1, <1>2, <1>6, ConfigAssumption DEF n
<1>14. block_queue' = block_queue /\ mode' = mode
  BY <1>1 DEF memory
<1> QED
  BY <1>3, <1>10, <1>11, <1>12, <1>13, <1>14 DEF FileInv

(* process_block stores the block that the file holds next.                 *)
LEMMA StoreFile ==
    ASSUME FileSettings, IInv, ChainLinked, FileInv, ProcessBlock
    PROVE  FileInv'
<1> DEFINE b == cur.block
           k == Len(block_headers)
<1>1. /\ pc = "process" /\ pc' = "drain" /\ UNCHANGED <<mode, rpos, block_file>>
      /\ StoreBlock(b) /\ mode # "setup"
  BY DEF ProcessBlock, IInv, SetupIsEmpty
<1>2. /\ b \in Block /\ Prev[b] = last_hash_processed /\ block_headers \in Seq(Block) /\ k \in Nat
      /\ Len(block_file) \in Nat /\ mode \in {"read", "run"}
  BY <1>1 DEF IInv, TypeOK, Entry, InHandIsNext
<1>3. mode = "read" => /\ rpos \in Readable /\ rpos \in 1..Len(block_file)
                       /\ b = block_file[rpos] /\ Replayed(rpos - 1)
  BY <1>1, ReadablePart DEF FileInv, IInv
<1>4. mode = "run" => FileHolds(Append(block_headers, b))
  BY <1>1 DEF FileInv, Written
<1>5. k < MaxFile
  <2>1. CASE mode = "read"
    BY <1>2, <1>3, <2>1, ConfigAssumption DEF FileInv, Replayed
  <2>2. CASE mode = "run"
    <3>1. Len(Append(block_headers, b)) = k + 1
      BY <1>2
    <3> QED
      BY <1>2, <1>4, <2>2, <3>1, ConfigAssumption DEF FileInv, FileHolds
  <2> QED
    BY <1>2, <2>1, <2>2
<1>6. block_headers' = Append(block_headers, b) /\ block_queue' = block_queue
  <2>1. ~(height > MaxI32)
    BY <1>5, ChainEnd, ConfigAssumption
  <2> QED
    BY <1>1, <1>2, <2>1 DEF StoreBlock
<1>7. Readable' = Readable
  BY <1>1 DEF Readable
<1>8. (mode = "run")' => (FileHolds(Written))'
  <2>1. Written' = Append(block_headers, b)
    BY <1>1, <1>6 DEF Written
  <2> QED
    BY <1>1, <1>4, <1>7, <2>1 DEF FileHolds
<1>9. (mode = "read")' => Replayed(rpos)'
  <2> SUFFICES ASSUME mode = "read" PROVE Replayed(rpos)'
    BY <1>1
  <2>1. /\ rpos \in Nat /\ rpos - 1 \in Nat /\ k = rpos - 1
        /\ \A i \in 1..(rpos - 1) : block_headers[i] = block_file[i]
    BY <1>2, <1>3 DEF Replayed
  <2>2. /\ Len(block_headers') = rpos /\ block_headers'[rpos] = b
        /\ \A i \in 1..(rpos - 1) : block_headers'[i] = block_headers[i]
    BY <1>2, <1>6, <2>1
  <2>3. \A i \in 1..rpos : i = rpos \/ i \in 1..(rpos - 1)
    BY <2>1
  <2>4. Len(block_headers') = rpos' /\ \A i \in 1..rpos' : block_headers'[i] = block_file'[i]
    BY <1>1, <1>3, <2>1, <2>2, <2>3
  <2> QED
    BY <2>4 DEF Replayed
<1> QED
  BY <1>1, <1>2, <1>6, <1>7, <1>8, <1>9 DEF FileInv

(* Steps that leave the chain and the file.                                 *)
LEMMA SameFile ==
    ASSUME FileInv, UNCHANGED <<block_headers, block_file, block_queue, mode, pc, cur, rpos>>
    PROVE  FileInv'
<1>1. Readable' = Readable /\ Written' = Written
  BY DEF Readable, Written
<1>2. (mode = "run" => FileHolds(Written))' /\ (Replayed(rpos) => Replayed(rpos)')
      /\ (Replayed(rpos - 1) => Replayed(rpos - 1)')
  BY <1>1 DEF FileInv, FileHolds, Replayed
<1> QED
  BY <1>1, <1>2 DEF FileInv

(* A block out of the queue has no position yet: it will be written first.  *)
LEMMA QueueFile ==
    ASSUME FileSettings, IInv, FileInv, ProcessBlockQueue
    PROVE  FileInv'
<1> DEFINE e == block_queue[last_hash_processed]
<1>1. /\ pc = "drain" /\ UNCHANGED <<block_headers, mode, rpos, block_file>> /\ mode # "setup"
      /\ last_hash_processed \in Hash /\ block_queue \in [Hash -> Entry \cup {None}]
  BY DEF ProcessBlockQueue, IInv, TypeOK, SetupIsEmpty
<1>2. Readable' = Readable
  BY <1>1 DEF Readable
<1>3. pc' \in {"write", "idle"} => (mode = "run" => FileHolds(Written)')
                                   /\ (mode = "read" => Replayed(rpos)')
  BY <1>1, <1>2 DEF FileInv, Written, Replayed, FileHolds
<1>4. CASE e # None
  <2>1. /\ mode = "run" /\ e.position = None
    BY <1>1, <1>4 DEF FileInv, IInv, TypeOK
  <2>2. pc' = "write" /\ block_queue' = [block_queue EXCEPT ![last_hash_processed] = None]
    BY <1>4, <2>1 DEF ProcessBlockQueue, Begin
  <2>3. \A h \in Hash : block_queue'[h] # None => block_queue'[h].position = None
    BY <1>1, <2>2 DEF FileInv
  <2> QED
    BY <1>1, <1>2, <1>3, <2>1, <2>2, <2>3 DEF FileInv
<1>5. CASE e = None
  <2>1. pc' = "idle" /\ block_queue' = block_queue
    BY <1>5 DEF ProcessBlockQueue
  <2> QED
    BY <1>1, <1>2, <1>3, <2>1 DEF FileInv
<1> QED
  BY <1>4, <1>5

(* on_block brings the block in hand without a position, or queues it.      *)
LEMMA ArriveFile ==
    ASSUME FileSettings, IInv, FileInv, NEW b \in Block, OnBlock(b)
    PROVE  FileInv'
<1> DEFINE e == [block |-> b, position |-> None]
<1>1. /\ mode = "run" /\ pc = "idle" /\ UNCHANGED <<mode, rpos, block_file>> /\ Accept(b, None)
      /\ block_queue \in [Hash -> Entry \cup {None}] /\ Prev[b] \in Hash
  BY BlockAssumption DEF OnBlock, IInv, TypeOK
<1>2. /\ block_headers' = block_headers /\ pc' # "process"
      /\ \/ block_queue' = block_queue
         \/ block_queue' = [block_queue EXCEPT ![Prev[b]] = e]
  BY <1>1 DEF Accept, Begin, memory
<1>3. Readable' = Readable
  BY <1>1 DEF Readable
<1>4. FileHolds(Written)'
  BY <1>1, <1>2, <1>3 DEF FileInv, Written, FileHolds
<1>5. \A h \in Hash : block_queue'[h] # None => block_queue'[h].position = None
  <2>1. \A h \in Hash : block_queue'[h] = block_queue[h] \/ block_queue'[h] = e
    BY <1>1, <1>2
  <2>2. e.position = None
    OBVIOUS
  <2> QED
    BY <2>1, <2>2 DEF FileInv
<1> QED
  BY <1>1, <1>2, <1>3, <1>4, <1>5 DEF FileInv

(* The loop over the file has come to the end of the readable part.         *)
LEMMA EndFile ==
    ASSUME IInv, FileInv, EndOfFile
    PROVE  FileInv'
<1>1. /\ mode = "read" /\ mode' = "run" /\ pc = "idle"
      /\ rpos < Len(block_file) => block_file[rpos + 1] = Torn
      /\ UNCHANGED <<block_headers, block_file, block_queue, pc, cur, rpos>>
  BY DEF EndOfFile, memory, control
<1>2. /\ rpos \in Nat /\ Len(block_file) \in Nat /\ (rpos = 0 \/ rpos \in Readable)
      /\ Readable \subseteq 1..Len(block_file) /\ Replayed(rpos) /\ Written = block_headers
  BY <1>1, ReadablePart DEF FileInv, IInv, TypeOK, Written
<1>3. 1..rpos \subseteq Readable /\ rpos <= Len(block_file)
  BY <1>2, ReadablePart DEF IInv
<1>4. ASSUME NEW i \in Readable PROVE i \in 1..rpos
  <2>1. i \in 1..Len(block_file) /\ \A j \in 1..i : block_file[j] # Torn
    BY <1>2 DEF Readable
  <2>2. i > rpos => rpos + 1 \in 1..i /\ rpos < Len(block_file)
    BY <1>2, <2>1
  <2> QED
    BY <1>1, <1>2, <2>1, <2>2
<1>5. FileHolds(block_headers)
  BY <1>2, <1>3, <1>4 DEF FileHolds, Replayed
<1>6. Readable' = Readable /\ Written' = block_headers
  BY <1>1, <1>2 DEF Readable, Written
<1>7. FileHolds(Written)'
  BY <1>1, <1>5, <1>6 DEF FileHolds
<1> QED
  BY <1>1, <1>6, <1>7 DEF FileInv

(* A crash may leave a torn block behind.                                   *)
LEMMA CrashFile ==
    ASSUME IInv, FileInv, Crash
    PROVE  FileInv'
<1>1. mode' = "setup" /\ rpos' = 0 /\ block_queue' = [h \in Hash |-> None]
  BY DEF Crash
<1>2. /\ Len(block_file') <= MaxFile /\ Readable' = Readable
      /\ \A i \in Readable : /\ block_file'[i] = block_file[i]
                             /\ i # 1 => block_file'[i - 1] = block_file[i - 1]
  <2>1. CASE block_file' = block_file
    BY <2>1 DEF FileInv, Readable
  <2>2. CASE TearBlock
    <3>1. block_file' = Append(block_file, Torn) /\ Len(block_file) < MaxFile
      BY <2>2 DEF TearBlock
    <3>2. Len(block_file') = Len(block_file) + 1 /\ Len(block_file) \in Nat
      BY <3>1 DEF IInv, TypeOK
    <3>3. Len(block_file') <= MaxFile
      BY <3>1, <3>2, ConfigAssumption
    <3> QED
      BY <3>1, <3>3, TornBehind DEF IInv
  <2> QED
    BY <2>1, <2>2 DEF Crash
<1> QED
  BY <1>1, <1>2 DEF FileInv

(* Every step of such a node keeps file and chain together.                 *)
LEMMA NextFile ==
    ASSUME FileSettings, IInv, ChainLinked, FileInv, [Next]_vars
    PROVE  FileInv'
<1> USE DEF memory, control, tables
<1>1. CASE LoadBlockheaders \/ LoadFails \/ HandleOrphanBlock
  BY <1>1 DEF LoadBlockheaders, LoadFails, HandleOrphanBlock, FileSettings
<1>2. CASE OpenBlockFile
  <2>1. /\ mode = "setup" /\ mode' = "read" /\ rpos = 0
        /\ UNCHANGED <<block_headers, block_file, block_queue, pc, cur, rpos>>
    BY <1>2 DEF OpenBlockFile, FileInv
  <2>2. block_headers = <<>> /\ pc = "idle" /\ block_queue = [h \in Hash |-> None]
    BY <2>1 DEF IInv, SetupIsEmpty
  <2>3. Replayed(rpos)' /\ Readable' = Readable
    BY <2>1, <2>2 DEF Replayed, Readable
  <2> QED
    BY <2>1, <2>2, <2>3 DEF FileInv
<1>3. CASE EndOfFile
  BY <1>3, EndFile
<1>4. CASE ProcessReadBlock
  BY <1>4, ReadFile
<1>5. ASSUME NEW b \in Block, OnBlock(b) PROVE FileInv'
  BY <1>5, ArriveFile
<1>6. CASE WriteBlockToFile
  BY <1>6, WriteFile
<1>7. CASE ProcessBlock
  BY <1>7, StoreFile
<1>8. CASE ProcessBlockQueue
  BY <1>8, QueueFile
<1>9. CASE DbPerform \/ DbLose \/ UNCHANGED vars
  BY <1>9, SameFile DEF DbPerform, DbLose, vars
<1>10. CASE Crash
  BY <1>10, CrashFile
<1> QED
  BY <1>1, <1>2, <1>3, <1>4, <1>5, <1>6, <1>7, <1>8, <1>9, <1>10 DEF Next

(* A node that saves its blocks and starts from its block file has, once it *)
(* runs, every block of the file up to the first torn one in its chain, in  *)
(* file order, and behind them only the blocks it has appended since:       *)
(* however often it crashed in write_block_to_file or between it and        *)
(* process_block; for as many blocks as fit an i32 height.                  *)
THEOREM FileIsReplayed ==
    ASSUME FileSettings
    PROVE  Spec => []FileReplayed
<1>0. ~LoadFromDb /\ ~DetectOrphans
  BY DEF FileSettings
<1>1. Init => FileInv
  BY ConfigAssumption DEF Init, FileInv, Readable
<1>2. IInv /\ ChainLinked /\ FileInv /\ [Next]_vars => FileInv'
  BY NextFile
<1>3. FileInv => FileReplayed
  BY DEF FileInv, FileReplayed, Written
<1>4. Spec => []ChainLinked
  BY <1>0, HeadersAreLinked
<1> QED
  BY <1>1, <1>2, <1>3, <1>4, Invariance, PTL DEF Spec

-----------------------------------------------------------------------------
(* Positions.  A row points at its block when the operation that made it    *)
(* did, the operation when the block in hand did, and the block in hand     *)
(* when it was read from there, written there, or waited in the queue with  *)
(* such a position.  The file only grows, so what points at a block goes on *)
(* doing so.                                                                *)
PointsAt(h, p) == p < Len(block_file) /\ block_file[p + 1] = h
PlacedRows == \A h \in Rows : PointsAt(h, blocks[h].position)
PlacedOps ==
    \A i \in DOMAIN chan :
        chan[i].op = "BlockHeaderWrite" => PointsAt(chan[i].hash, chan[i].position)
PlacedQueue ==
    \A h \in Hash : block_queue[h] # None /\ block_queue[h].position # None =>
        PointsAt(block_queue[h].block, block_queue[h].position)
PlacedInHand ==
    pc = "process" => PointsAt(cur.block, cur.position)
Placed == PlacedRows /\ PlacedOps /\ PlacedQueue /\ PlacedInHand

(* A step that leaves everything that has a position.                       *)
LEMMA SamePlaces ==
    ASSUME Placed, block_file' = block_file, UNCHANGED <<blocks, chan, block_queue, pc, cur>>
    PROVE  Placed'
BY DEF Placed, PlacedRows, PlacedOps, PlacedQueue, PlacedInHand, PointsAt, Rows

(* on_block and process_read_block, for a block that has no position or is  *)
(* in the file where it says.                                               *)
LEMMA AcceptPlaces ==
    ASSUME IInv, Placed, pc = "idle", UNCHANGED <<block_file, chan, blocks>>,
           NEW b \in Block, NEW p \in Position \cup {None}, Accept(b, p),
           p # None => PointsAt(b, p)
    PROVE  Placed'
<1> DEFINE e == [block |-> b, position |-> p]
<1>1. /\ block_queue \in [Hash -> Entry \cup {None}] /\ Prev[b] \in Hash
  BY BlockAssumption DEF IInv, TypeOK
<1>2. \/ block_queue' = block_queue
      \/ pc' = pc /\ block_queue' = [block_queue EXCEPT ![Prev[b]] = e]
  BY DEF Accept, memory
<1>3. pc' = "process" => cur' = e /\ p # None
  BY DEF Accept, Begin, memory
<1>4. PlacedInHand'
  BY <1>3 DEF PlacedInHand, PointsAt
<1>5. PlacedQueue'
  <2>1. \A h \in Hash : block_queue'[h] = block_queue[h] \/ block_queue'[h] = e
    BY <1>1, <1>2
  <2>2. e.block = b /\ e.position = p
    OBVIOUS
  <2> QED
    BY <2>1, <2>2 DEF Placed, PlacedQueue, PointsAt
<1>6. PlacedRows' /\ PlacedOps'
  BY DEF Placed, PlacedRows, PlacedOps, PointsAt, Rows
<1> QED
  BY <1>4, <1>5, <1>6 DEF Placed

(* write_block_to_file appends: the block in hand is where the file ended,  *)
(* and every other block stays where it was.                                *)
LEMMA WritePlaces ==
    ASSUME SaveBlocks, "file" \notin Faults, IInv, Placed, WriteBlockToFile
    PROVE  Placed'
<1>1. /\ pc = "write" /\ block_file \in Seq(Block \cup {Torn}) /\ Len(block_file) \in Nat
      /\ cur \in Entry /\ cur.block \in Block
  BY DEF WriteBlockToFile, IInv, TypeOK, Entry
<1>2. /\ block_file' = Append(block_file, cur.block)
      /\ cur' = [cur EXCEPT !.position = Len(block_file)]
      /\ UNCHANGED <<blocks, chan, block_queue>>
  BY DEF WriteBlockToFile, memory, tables
<1>3. cur'.block = cur.block /\ cur'.position = Len(block_file)
  BY <1>1, <1>2 DEF Entry
<1>4. Len(block_file') = Len(block_file) + 1 /\ block_file'[Len(block_file) + 1] = cur.block
  BY <1>1, <1>2
<1>5. PlacedInHand'
  BY <1>1, <1>3, <1>4 DEF PlacedInHand, PointsAt
<1>6. ASSUME NEW h, NEW p \in Nat, PointsAt(h, p)
      PROVE  p < Len(block_file') /\ block_file'[p + 1] = h
  BY <1>1, <1>2, <1>4, <1>6 DEF PointsAt
<1>7. PlacedRows'
  <2>1. \A h \in Rows : blocks[h].position \in Nat
    BY DEF IInv, TypeOK, Rows, Row, Position
  <2> QED
    BY <1>2, <1>6, <2>1 DEF Placed, PlacedRows, PointsAt, Rows
<1>8. PlacedOps'
  <2>1. \A i \in DOMAIN chan : chan[i] \in Op
    BY DEF IInv, TypeOK
  <2>2. \A i \in DOMAIN chan : chan[i].position \in Nat
    BY <2>1 DEF Op, Position
  <2> QED
    BY <1>2, <1>6, <2>2 DEF Placed, PlacedOps, PointsAt
<1>9. PlacedQueue'
  <2>1. \A h \in Hash : block_queue[h] # None /\ block_queue[h].position # None =>
            block_queue[h].position \in Nat
    BY DEF IInv, TypeOK, Entry, Position
  <2> QED
    BY <1>2, <1>6, <2>1 DEF Placed, PlacedQueue, PointsAt
<1> QED
  BY <1>5, <1>7, <1>8, <1>9 DEF Placed

(* The operation for the row takes the position of the block in hand.       *)
LEMMA ProcessPlaces ==
    ASSUME IInv, Placed, ProcessBlock
    PROVE  Placed'
<1>1. /\ chan \in Seq(Op) /\ pc = "process" /\ pc' = "drain"
      /\ UNCHANGED <<block_file, blocks, block_queue>>
  BY DEF ProcessBlock, StoreBlock, IInv, TypeOK, memory, tables
<1>2. PointsAt(cur.block, cur.position)
  BY <1>1 DEF Placed, PlacedInHand
<1> DEFINE o == [op |-> "BlockHeaderWrite", hash |-> cur.block,
                 height |-> height, position |-> cur.position]
<1>3. chan' = chan \/ chan' = Append(chan, o)
  BY DEF ProcessBlock, WriteBlockheader
<1>4. o.hash = cur.block /\ o.position = cur.position
  OBVIOUS
<1> HIDE DEF o
<1>5. \A i \in DOMAIN chan' : (i \in DOMAIN chan /\ chan'[i] = chan[i]) \/ chan'[i] = o
  BY <1>1, <1>3
<1>6. PlacedOps'
  BY <1>1, <1>2, <1>4, <1>5 DEF Placed, PlacedOps, PointsAt
<1> QED
  BY <1>1, <1>6 DEF Placed, PlacedRows, PlacedQueue, PlacedInHand, PointsAt, Rows

(* process_block_queue takes a block in hand with the position it waited    *)
(* with.                                                                    *)
LEMMA DrainPlaces ==
    ASSUME IInv, Placed, ProcessBlockQueue
    PROVE  Placed'
<1> DEFINE e == block_queue[last_hash_processed]
<1>1. /\ block_queue \in [Hash -> Entry \cup {None}] /\ last_hash_processed \in Hash
      /\ UNCHANGED <<block_file, blocks, chan>>
  BY DEF ProcessBlockQueue, IInv, TypeOK, tables
<1>2. pc' = "process" => cur' = e /\ e # None /\ e.position # None
  BY DEF ProcessBlockQueue, Begin
<1>3. \A h \in Hash : block_queue'[h] = block_queue[h] \/ block_queue'[h] = None
  BY <1>1 DEF ProcessBlockQueue
<1>4. PlacedInHand' /\ PlacedQueue'
  BY <1>1, <1>2, <1>3 DEF Placed, PlacedQueue, PlacedInHand, PointsAt
<1> QED
  BY <1>1, <1>4 DEF Placed, PlacedRows, PlacedOps, PointsAt, Rows

(* The writer puts the position of the operation in the row.                *)
LEMMA WriterPlaces ==
    ASSUME IInv, Placed, DbPerform \/ DbLose
    PROVE  Placed'
<1>1. /\ chan \in Seq(Op) /\ chan # <<>> /\ chan' = Tail(chan)
      /\ UNCHANGED <<block_file, block_queue, pc, cur>>
  BY DEF IInv, TypeOK, DbPerform, DbLose, memory, control
<1>2. \A i \in DOMAIN chan' : i + 1 \in DOMAIN chan /\ chan'[i] = chan[i + 1]
  BY <1>1
<1>3. 1 \in DOMAIN chan /\ Head(chan) = chan[1] /\ Head(chan) \in Op
  BY <1>1
<1>4. PlacedOps'
  BY <1>1, <1>2 DEF Placed, PlacedOps, PointsAt
<1>5. ASSUME NEW h \in Block, blocks'[h] # None
      PROVE  PointsAt(h, blocks'[h].position)
  <2>1. CASE blocks'[h] = blocks[h]
    BY <1>5, <2>1 DEF Placed, PlacedRows, Rows
  <2>2. CASE blocks'[h] # blocks[h]
    <3>1. /\ h = Head(chan).hash /\ Head(chan).op = "BlockHeaderWrite"
          /\ blocks'[h].position = Head(chan).position
      BY <1>3, <1>5, <2>2 DEF DbPerform, DbLose, Perform, IInv, TypeOK, tables
    <3> QED
      BY <1>3, <3>1 DEF Placed, PlacedOps
  <2> QED
    BY <2>1, <2>2
<1>6. PlacedRows'
  BY <1>1, <1>5 DEF PlacedRows, PointsAt, Rows
<1> QED
  BY <1>1, <1>4, <1>6 DEF Placed, PlacedQueue, PlacedInHand, PointsAt

(* Roll-back drops the queue and sends operations that make no row.         *)
LEMMA OrphanPlaces ==
    ASSUME IInv, Placed, HandleOrphanBlock
    PROVE  Placed'
<1>1. /\ chan \in Seq(Op) /\ UNCHANGED <<block_file, blocks, pc, cur>>
      /\ block_queue' = [h \in Hash |-> None]
  BY DEF HandleOrphanBlock, IInv, TypeOK, control, tables
<1> DEFINE b == block_headers[Len(block_headers)]
           o == [op |-> "OrphanBlockHeaderWrite", hash |-> b, height |-> height, position |-> 0]
           d == [op |-> "BlockHeaderDelete", hash |-> b, height |-> 0, position |-> 0]
<1>2. /\ chan' = chan \/ chan' = chan \o <<o, d>>
      /\ o.op = "OrphanBlockHeaderWrite" /\ d.op = "BlockHeaderDelete"
  BY DEF HandleOrphanBlock
<1> HIDE DEF o, d
<1>3. \A i \in DOMAIN chan' : (i \in DOMAIN chan /\ chan'[i] = chan[i]) \/ chan'[i] \in {o, d}
  BY <1>1, <1>2
<1>4. PlacedOps'
  BY <1>1, <1>2, <1>3 DEF Placed, PlacedOps, PointsAt
<1> QED
  BY <1>1, <1>4 DEF Placed, PlacedRows, PlacedQueue, PlacedInHand, PointsAt, Rows

(* Every step keeps positions, as long as the file takes what is written.   *)
LEMMA NextPlaces ==
    ASSUME SaveBlocks, "file" \notin Faults, IInv, Placed, [Next]_vars
    PROVE  Placed'
<1> USE DEF memory, control, tables
<1>1. CASE LoadBlockheaders \/ LoadFails \/ OpenBlockFile \/ EndOfFile \/ UNCHANGED vars
  BY <1>1, SamePlaces DEF LoadBlockheaders, LoadFails, OpenBlockFile, EndOfFile, vars
<1>2. CASE ProcessReadBlock
  <2>1. /\ pc = "idle" /\ UNCHANGED <<block_file, chan, blocks>>
        /\ rpos \in Position /\ rpos < Len(block_file)
        /\ Accept(block_file[rpos + 1], rpos)
    BY <1>2 DEF ProcessReadBlock, IInv, TypeOK, Position
  <2>2. block_file[rpos + 1] \in Block /\ PointsAt(block_file[rpos + 1], rpos)
    BY <1>2, <2>1, ReadsBlock DEF PointsAt, IInv
  <2> QED
    BY <2>1, <2>2, AcceptPlaces
<1>3. ASSUME NEW b \in Block, OnBlock(b) PROVE Placed'
  BY <1>3, AcceptPlaces DEF OnBlock
<1>4. CASE WriteBlockToFile
  BY <1>4, WritePlaces
<1>5. CASE ProcessBlock
  BY <1>5, ProcessPlaces
<1>6. CASE ProcessBlockQueue
  BY <1>6, DrainPlaces
<1>7. CASE HandleOrphanBlock
  BY <1>7, OrphanPlaces
<1>8. CASE DbPerform \/ DbLose
  BY <1>8, WriterPlaces
<1>9. CASE Crash
  <2>1. /\ block_queue' = [h \in Hash |-> None] /\ chan' = <<>> /\ pc' = "idle"
        /\ blocks' = blocks
        /\ block_file' = block_file \/ block_file' = Append(block_file, Torn)
    BY <1>9 DEF Crash, TearBlock
  <2>2. /\ block_file \in Seq(Block \cup {Torn})
        /\ \A h \in Rows : blocks[h].position \in Nat
    BY DEF IInv, TypeOK, Rows, Row, Position
  <2>3. ASSUME NEW h, NEW p \in Nat, PointsAt(h, p)
        PROVE  p < Len(block_file') /\ block_file'[p + 1] = h
    BY <2>1, <2>2, <2>3 DEF PointsAt
  <2>4. PlacedRows'
    BY <2>1, <2>2, <2>3 DEF Placed, PlacedRows, PointsAt, Rows
  <2> QED
    BY <2>1, <2>4 DEF Placed, PlacedOps, PlacedQueue, PlacedInHand
<1> QED
  BY <1>1, <1>2, <1>3, <1>4, <1>5, <1>6, <1>7, <1>8, <1>9 DEF Next

(* When blocks are saved and the writes to the file succeed, the offset in  *)
(* every row of the table blocks is where the file holds that block:        *)
(* through the queue (which keeps the position a block was read at), orphan *)
(* roll-back, lost operations, crashes between the append and the row, and  *)
(* starts from the table or from the file.                                  *)
THEOREM RowsPointAtBlocks ==
    ASSUME SaveBlocks, "file" \notin Faults
    PROVE  Spec => []PositionPointsAtBlock
<1>1. Init => Placed
  BY DEF Init, Placed, PlacedRows, PlacedOps, PlacedQueue, PlacedInHand, Rows
<1>2. IInv /\ Placed /\ [Next]_vars => Placed'
  BY NextPlaces
<1>3. Placed => PositionPointsAtBlock
  BY DEF Placed, PlacedRows, PointsAt, PositionPointsAtBlock
<1> QED
  BY <1>1, <1>2, <1>3, Invariance, PTL DEF Spec

-----------------------------------------------------------------------------
(* The index and the table.  A node that loads its headers from the table   *)
(* keeps the two in step, through roll-back and crashes, although roll-back *)
(* moves the height and not last_hash_processed, so that heights are no     *)
(* longer true.  The channel leads the table, version by version, to what   *)
(* the memory holds; a crash may leave any of the versions to be loaded.    *)
(* In each of them a higher row is a deeper block, so the last row loaded   *)
(* is the deepest block; and no version has a row for a block deeper than   *)
(* last_hash_processed, so a block that is stored finds no row of an        *)
(* earlier life in its way.                                                 *)
Table == [Block -> Row \cup {None}]
After(t, op) ==
    CASE op.op = "BlockHeaderWrite" /\ t[op.hash] = None ->
           [t EXCEPT ![op.hash] = [height |-> op.height, position |-> op.position]]
      [] op.op = "BlockHeaderDelete" -> [t EXCEPT ![op.hash] = None]
      [] OTHER -> t

Leads(v, c, t) ==
    /\ v \in Seq(Table) /\ Len(v) = Len(c) + 1
    /\ v[1] = t
    /\ \A i \in 1..Len(c) : v[i + 1] = After(v[i], c[i])

Higher(t) ==
    \A h \in Block : t[h] # None =>
        /\ t[h].height <= StartHeight + Depth[h]
        /\ \A k \in Block : k # h /\ t[k] # None /\ t[h].height <= t[k].height =>
              Depth[h] < Depth[k]
Remembered(t) ==
    \A h \in Block : t[h] # None =>
        /\ Depth[h] <= Depth[last_hash_processed]
        /\ Known(h) => t[h].height = hash_to_index[h]
Latest(t) == \A h \in Block : t[h] # None <=> Known(h)

HeadersRise ==
    /\ \A i, j \in DOMAIN block_headers :
          i < j => hash_to_index[block_headers[i]] < hash_to_index[block_headers[j]]
    /\ \A i \in DOMAIN block_headers : hash_to_index[block_headers[i]] < height

VersionsAgree ==
    \E v : /\ Leads(v, chan, blocks)
           /\ \A i \in 1..Len(v) : Higher(v[i])
           /\ mode # "setup" => Latest(v[Len(v)]) /\ \A i \in 1..Len(v) : Remembered(v[i])

IndexInv ==
    /\ mode = "setup" => chan = <<>>
    /\ last_hash_processed = StartHash \/ last_hash_processed \in Block
    /\ height <= StartHeight + 1 + Depth[last_hash_processed]
    /\ HeadersRise
    /\ VersionsAgree

(* Such a node: no operation is lost, no load fails, and every block has a  *)
(* height that fits an i32.                                                 *)
LoadSettings ==
    /\ LoadFromDb /\ "lose" \notin Faults /\ "load" \notin Faults
    /\ MaxI32 < U32
    /\ \A b \in Block : StartHeight + Depth[b] <= MaxI32

(* An operation sent adds a version, an operation performed removes one.    *)
LEMMA AfterType ==
    ASSUME NEW t \in Table, NEW o \in Op
    PROVE  After(t, o) \in Table
<1>1. o.hash \in Block /\ [height |-> o.height, position |-> o.position] \in Row
  BY DEF Op, Row
<1> QED
  BY <1>1 DEF After, Table

(* An operation sent leads to one more version.                             *)
LEMMA SendLeads ==
    ASSUME NEW c \in Seq(Op), NEW t \in Table, NEW v \in Seq(Table), Leads(v, c, t), NEW o \in Op
    PROVE  \E w \in Seq(Table) :
              /\ Leads(w, Append(c, o), t)
              /\ Len(w) = Len(v) + 1 /\ Len(v) > 0
              /\ w[Len(v) + 1] = After(v[Len(v)], o)
              /\ \A i \in 1..Len(v) : w[i] = v[i]
<1> DEFINE w == Append(v, After(v[Len(v)], o))
<1>1. /\ v \in Seq(Table) /\ Len(v) = Len(c) + 1 /\ v[1] = t /\ Len(c) \in Nat
      /\ \A i \in 1..Len(c) : v[i + 1] = After(v[i], c[i])
  BY DEF Leads
<1>2. Len(v) \in 1..Len(v) /\ v[Len(v)] \in Table /\ After(v[Len(v)], o) \in Table
  BY <1>1, AfterType
<1>3. /\ w \in Seq(Table) /\ Len(w) = Len(v) + 1 /\ w[Len(v) + 1] = After(v[Len(v)], o)
      /\ \A i \in 1..Len(v) : w[i] = v[i]
  BY <1>1, <1>2
<1>4. /\ Len(Append(c, o)) = Len(c) + 1 /\ Append(c, o)[Len(c) + 1] = o
      /\ \A i \in 1..Len(c) : Append(c, o)[i] = c[i]
  BY <1>1
<1>5. \A i \in 1..(Len(c) + 1) : w[i + 1] = After(w[i], Append(c, o)[i])
  <2> TAKE i \in 1..(Len(c) + 1)
  <2>1. CASE i = Len(c) + 1
    BY <1>1, <1>2, <1>3, <1>4, <2>1
  <2>2. CASE i \in 1..Len(c)
    <3>1. i \in 1..Len(v) /\ i + 1 \in 1..Len(v)
      BY <1>1, <2>2
    <3> QED
      BY <1>1, <1>3, <1>4, <2>2, <3>1
  <2> QED
    BY <1>1, <2>1, <2>2
<1>6. Leads(w, Append(c, o), t)
  BY <1>1, <1>3, <1>4, <1>5 DEF Leads
<1> HIDE DEF w
<1> QED
  BY <1>1, <1>3, <1>6

(* An operation performed is one version less to go.                        *)
LEMMA PerformLeads ==
    ASSUME NEW c \in Seq(Op), c # <<>>, NEW t \in Table, NEW v \in Seq(Table), Leads(v, c, t)
    PROVE  /\ Leads(Tail(v), Tail(c), After(t, Head(c)))
           /\ Len(Tail(v)) = Len(v) - 1 /\ Len(v) \in Nat /\ Len(v) > 1
           /\ \A i \in 1..Len(Tail(v)) : i + 1 \in 1..Len(v) /\ Tail(v)[i] = v[i + 1]
<1>1. /\ v \in Seq(Table) /\ Len(v) = Len(c) + 1 /\ v[1] = t /\ Len(c) \in Nat \ {0}
      /\ \A i \in 1..Len(c) : v[i + 1] = After(v[i], c[i])
  BY DEF Leads
<1>2. /\ Tail(v) \in Seq(Table) /\ Len(Tail(v)) = Len(v) - 1
      /\ \A i \in 1..Len(Tail(v)) : i + 1 \in 1..Len(v) /\ Tail(v)[i] = v[i + 1]
  BY <1>1
<1>3. /\ Len(Tail(c)) = Len(c) - 1 /\ Head(c) = c[1]
      /\ \A i \in 1..Len(Tail(c)) : i + 1 \in 1..Len(c) /\ Tail(c)[i] = c[i + 1]
  BY <1>1
<1>4. Tail(v)[1] = After(t, Head(c))
  BY <1>1, <1>2, <1>3
<1>5. \A i \in 1..Len(Tail(c)) : Tail(v)[i + 1] = After(Tail(v)[i], Tail(c)[i])
  <2> TAKE i \in 1..Len(Tail(c))
  <2>1. i \in 1..Len(Tail(v)) /\ i + 1 \in 1..Len(Tail(v)) /\ i + 1 \in 1..Len(c)
    BY <1>1, <1>2, <1>3
  <2>2. v[(i + 1) + 1] = After(v[i + 1], c[i + 1])
    BY <1>1, <2>1
  <2> QED
    BY <1>2, <1>3, <2>1, <2>2
<1> QED
  BY <1>1, <1>2, <1>3, <1>4, <1>5 DEF Leads

(* A step that leaves the index, the channel and the table.                 *)
LEMMA SameIndex ==
    ASSUME IndexInv, UNCHANGED <<block_headers, hash_to_index, last_hash_processed, height, mode,
                                 chan, blocks>>
    PROVE  IndexInv'
<1>1. PICK v : /\ Leads(v, chan, blocks)
               /\ \A i \in 1..Len(v) : Higher(v[i])
               /\ mode # "setup" => Latest(v[Len(v)]) /\ \A i \in 1..Len(v) : Remembered(v[i])
  BY DEF IndexInv, VersionsAgree
<1>2. mode' # "setup" => Latest(v[Len(v)])' /\ \A i \in 1..Len(v) : Remembered(v[i])'
  BY <1>1 DEF Latest, Remembered, Known
<1>3. VersionsAgree'
  BY <1>1, <1>2 DEF VersionsAgree
<1> QED
  BY <1>3 DEF IndexInv, HeadersRise

(* What is stored, at the height of the next block.                         *)
LEMMA ProcessIndex ==
    ASSUME LoadSettings, IInv, IndexInv, ProcessBlock
    PROVE  IndexInv'
<1>0. PICK b, o :
         /\ b = cur.block
         /\ o = [op |-> "BlockHeaderWrite", hash |-> b, height |-> height, position |-> cur.position]
  OBVIOUS
<1>1. /\ pc = "process" /\ mode' = mode /\ mode # "setup" /\ blocks' = blocks
      /\ chan \in Seq(Op) /\ height \in Nat /\ block_headers \in Seq(Block)
      /\ hash_to_index \in [Hash -> Nat \cup {None}] /\ last_hash_processed \in Hash
  BY DEF ProcessBlock, IInv, TypeOK, SetupIsEmpty, tables
<1>2. /\ b \in Block /\ b \in Hash /\ cur.position \in Position
      /\ Prev[b] = last_hash_processed /\ ~Known(b)
  BY <1>0, <1>1, BlockAssumption DEF IInv, TypeOK, Entry, InHandIsNext
<1>3. /\ Depth[b] = Depth[last_hash_processed] + 1
      /\ Depth[last_hash_processed] \in Int /\ Depth[b] \in Int
      /\ \A h \in Block : Depth[h] \in Int /\ h \in Hash
  BY <1>1, <1>2, BlockAssumption
<1>4. height <= StartHeight + Depth[b] /\ ~(height > MaxI32)
  <2>1. height <= StartHeight + 1 + Depth[last_hash_processed] /\ StartHeight + Depth[b] <= MaxI32
    BY <1>2 DEF IndexInv, LoadSettings
  <2> QED
    BY <1>1, <1>3, <2>1, ConfigAssumption
<1>5. /\ last_hash_processed' = b /\ chan' = Append(chan, o) /\ height' = height + 1
      /\ hash_to_index' = [hash_to_index EXCEPT ![b] = height]
      /\ block_headers' = Append(block_headers, b)
  BY <1>0, <1>2, <1>4 DEF ProcessBlock, StoreBlock, WriteBlockheader
<1>6. o \in Op
  BY <1>0, <1>1, <1>2 DEF Op
<1>7. PICK v : /\ Leads(v, chan, blocks)
               /\ \A i \in 1..Len(v) : Higher(v[i])
               /\ Latest(v[Len(v)]) /\ \A i \in 1..Len(v) : Remembered(v[i])
  BY <1>1 DEF IndexInv, VersionsAgree
<1> DEFINE t == v[Len(v)]
           u == After(t, o)
<1>8. PICK w \in Seq(Table) :
         /\ Leads(w, Append(chan, o), blocks) /\ Len(w) = Len(v) + 1 /\ Len(v) > 0
         /\ w[Len(v) + 1] = u /\ \A i \in 1..Len(v) : w[i] = v[i]
  <2>1. v \in Seq(Table) /\ blocks \in Table
    BY <1>7 DEF Leads, IInv, TypeOK, Table
  <2> QED
    BY <1>1, <1>6, <1>7, <2>1, SendLeads
<1>9. t \in Table /\ Len(v) \in 1..Len(v) /\ v \in Seq(Table) /\ Len(v) \in Nat
  BY <1>7, <1>8 DEF Leads
<1>10. /\ t[b] = None /\ o.op = "BlockHeaderWrite" /\ o.hash = b /\ o.height = height
       /\ o.position = cur.position
  BY <1>0, <1>2, <1>7 DEF Latest
<1>11. u = [t EXCEPT ![b] = [height |-> height, position |-> cur.position]]
  BY <1>10 DEF After
<1>12. /\ u[b] # None /\ u[b].height = height
       /\ \A h \in Block : h # b => u[h] = t[h]
  <2>1. [height |-> height, position |-> cur.position] \in Row
    BY <1>1, <1>2 DEF Row
  <2> QED
    BY <1>2, <1>9, <1>11, <2>1, BlockAssumption DEF Table
<1> HIDE DEF u, t
<1>13. \A h \in Block : Known(h) => hash_to_index[h] \in Nat /\ hash_to_index[h] < height
  BY <1>1, <1>3 DEF Known, IInv, NoBlockTwice, Headers, IndexInv, HeadersRise
<1>14. \A h \in Block : t[h] # None =>
          Known(h) /\ t[h].height = hash_to_index[h] /\ Depth[h] <= Depth[last_hash_processed]
  BY <1>7, <1>9 DEF Latest, Remembered, t
<1>15. Higher(u)
  <2> SUFFICES ASSUME NEW h \in Block, u[h] # None
               PROVE  /\ u[h].height <= StartHeight + Depth[h]
                      /\ \A k \in Block : k # h /\ u[k] # None /\ u[h].height <= u[k].height =>
                            Depth[h] < Depth[k]
    BY DEF Higher
  <2>1. CASE h = b
    <3>1. ASSUME NEW k \in Block, k # h, u[k] # None PROVE ~(u[h].height <= u[k].height)
      <4>1. u[k].height = hash_to_index[k] /\ Known(k)
        BY <1>12, <1>14, <2>1, <3>1
      <4> QED
        BY <1>1, <1>12, <1>13, <2>1, <4>1
    <3> QED
      BY <1>4, <1>12, <2>1, <3>1
  <2>2. CASE h # b
    <3>1. u[h] = t[h] /\ Depth[h] < Depth[b]
      BY <1>3, <1>12, <1>14, <2>2
    <3>2. Higher(t)
      BY <1>7, <1>9 DEF t
    <3> QED
      BY <1>12, <2>2, <3>1, <3>2 DEF Higher
  <2> QED
    BY <2>1, <2>2
<1>16. \A h \in Block : h # b => hash_to_index'[h] = hash_to_index[h] /\ Known(h)' = Known(h)
  BY <1>1, <1>3, <1>5 DEF Known
<1>17. hash_to_index'[b] = height /\ Known(b)'
  BY <1>1, <1>2, <1>5, BlockAssumption DEF Known
<1>18. ASSUME NEW i \in 1..Len(v) PROVE Remembered(v[i])'
  <2> SUFFICES ASSUME NEW h \in Block, v[i][h] # None
               PROVE  /\ Depth[h] <= Depth[b]
                      /\ Known(h)' => v[i][h].height = hash_to_index'[h]
    BY <1>5 DEF Remembered
  <2>1. Depth[h] <= Depth[last_hash_processed] /\ (Known(h) => v[i][h].height = hash_to_index[h])
    BY <1>7, <1>18 DEF Remembered
  <2>2. h # b /\ Depth[h] <= Depth[b]
    BY <1>3, <2>1
  <2> QED
    BY <1>16, <2>1, <2>2
<1>19. Remembered(u)'
  <2> SUFFICES ASSUME NEW h \in Block, u[h] # None
               PROVE  /\ Depth[h] <= Depth[b]
                      /\ Known(h)' => u[h].height = hash_to_index'[h]
    BY <1>5 DEF Remembered
  <2>1. CASE h = b
    BY <1>3, <1>12, <1>17, <2>1
  <2>2. CASE h # b
    BY <1>3, <1>12, <1>14, <1>16, <2>2
  <2> QED
    BY <2>1, <2>2
<1>20. Latest(u)'
  <2> SUFFICES ASSUME NEW h \in Block PROVE u[h] # None <=> Known(h)'
    BY DEF Latest
  <2>1. t[h] # None <=> Known(h)
    BY <1>7 DEF Latest, t
  <2> QED
    BY <1>12, <1>16, <1>17, <2>1
<1>21. \A i \in 1..Len(w) : i \in 1..Len(v) \/ i = Len(v) + 1
  BY <1>8, <1>9
<1>22. VersionsAgree'
  <2>1. Leads(w, chan', blocks')
    BY <1>1, <1>5, <1>8
  <2>2. \A i \in 1..Len(w) : Higher(w[i])
    BY <1>7, <1>8, <1>15, <1>21
  <2>3. \A i \in 1..Len(w) : Remembered(w[i])'
    BY <1>8, <1>18, <1>19, <1>21
  <2>4. Latest(w[Len(w)])'
    BY <1>8, <1>20
  <2> QED
    BY <2>1, <2>2, <2>3, <2>4 DEF VersionsAgree
<1>23. HeadersRise'
  <2>1. /\ DOMAIN block_headers' = 1..(Len(block_headers) + 1)
        /\ block_headers'[Len(block_headers) + 1] = b
        /\ \A i \in 1..Len(block_headers) :
              block_headers'[i] = block_headers[i] /\ block_headers[i] \in Block
    BY <1>1, <1>2, <1>5
  <2>2. \A i \in 1..Len(block_headers) : block_headers[i] # b /\ Known(block_headers[i])
    BY <1>1, <1>2, <1>3, <2>1 DEF IInv, NoBlockTwice, Headers
  <2>3. \A i \in 1..Len(block_headers) :
           /\ hash_to_index'[block_headers'[i]] = hash_to_index[block_headers[i]]
           /\ hash_to_index[block_headers[i]] \in Nat
           /\ hash_to_index[block_headers[i]] < height
    BY <1>13, <1>16, <2>1, <2>2
  <2>4. \A i \in DOMAIN block_headers' : i \in 1..Len(block_headers) \/ i = Len(block_headers) + 1
    BY <1>1, <2>1
  <2>5. ASSUME NEW i \in DOMAIN block_headers', NEW j \in DOMAIN block_headers', i < j
        PROVE  hash_to_index'[block_headers'[i]] < hash_to_index'[block_headers'[j]]
    <3>1. i \in 1..Len(block_headers)
      BY <1>1, <2>1, <2>5
    <3>2. CASE j = Len(block_headers) + 1
      BY <1>17, <2>1, <2>3, <3>1, <3>2
    <3>3. CASE j \in 1..Len(block_headers)
      <4>1. hash_to_index[block_headers[i]] < hash_to_index[block_headers[j]]
        BY <1>1, <2>5, <3>1, <3>3 DEF IndexInv, HeadersRise
      <4> QED
        BY <2>3, <3>1, <3>3, <4>1
    <3> QED
      BY <2>4, <3>2, <3>3
  <2>6. \A i \in DOMAIN block_headers' : hash_to_index'[block_headers'[i]] < height'
    BY <1>1, <1>5, <1>17, <2>1, <2>3, <2>4
  <2> QED
    BY <2>5, <2>6 DEF HeadersRise
<1>24. height' <= StartHeight + 1 + Depth[last_hash_processed']
  BY <1>1, <1>3, <1>4, <1>5, ConfigAssumption, SMTT(30)
<1> QED
  BY <1>1, <1>2, <1>5, <1>22, <1>23, <1>24 DEF IndexInv

(* A start takes the rows of the one version there is: the last of them is  *)
(* the highest, and so the deepest.                                         *)
LEMMA LoadIndex ==
    ASSUME IInv, IndexInv, LoadBlockheaders
    PROVE  IndexInv'
<1>1. /\ mode = "setup" /\ mode' = "run" /\ UNCHANGED <<chan, blocks>> /\ chan = <<>>
      /\ IsFiniteSet(Rows) /\ TypeOK /\ height \in Nat
      /\ last_hash_processed = StartHash /\ height = StartHeight + 1
  BY DEF LoadBlockheaders, IndexInv, IInv, TypeOK, SetupIsEmpty, tables
<1>2. PICK s \in RowOrders :
         /\ block_headers' = s
         /\ hash_to_index' = [h \in Hash |-> IF h \in Rows THEN blocks[h].height ELSE None]
         /\ height' = IF s = <<>> THEN height ELSE blocks[s[Len(s)]].height + 1
         /\ last_hash_processed' = IF s = <<>> THEN last_hash_processed ELSE s[Len(s)]
  BY DEF LoadBlockheaders
<1>3. PICK v : Leads(v, chan, blocks) /\ \A i \in 1..Len(v) : Higher(v[i])
  BY DEF IndexInv, VersionsAgree
<1>4. v \in Seq(Table) /\ Len(v) = 1 /\ v[1] = blocks /\ Higher(blocks)
  BY <1>1, <1>3 DEF Leads
<1>5. /\ s \in Seq(Block) /\ {s[i] : i \in DOMAIN s} = Rows
      /\ \A i, j \in DOMAIN s : i # j => s[i] # s[j]
      /\ \A i, j \in DOMAIN s : i <= j => blocks[s[i]].height <= blocks[s[j]].height
  BY <1>1, RowOrderIsSequence DEF RowOrders
<1>6. \A h \in Block : /\ h \in Rows <=> blocks[h] # None
                       /\ h \in Rows => blocks[h].height \in Nat
                       /\ h \in Hash /\ Depth[h] \in Int
  BY <1>1, BlockAssumption DEF Rows, TypeOK, Row
<1>7. \A h \in Block : /\ Known(h)' <=> h \in Rows
                       /\ h \in Rows => hash_to_index'[h] = blocks[h].height
  BY <1>2, <1>6, BlockAssumption DEF Known
<1>8. \A i \in DOMAIN s : s[i] \in Block /\ s[i] \in Rows
  BY <1>5
<1>9. ASSUME s # <<>>
      PROVE  /\ Len(s) \in DOMAIN s /\ s[Len(s)] \in Rows
             /\ \A i \in DOMAIN s : /\ i <= Len(s)
                                    /\ blocks[s[i]].height <= blocks[s[Len(s)]].height
                                    /\ Depth[s[i]] <= Depth[s[Len(s)]]
  <2>1. Len(s) \in DOMAIN s /\ \A i \in DOMAIN s : i <= Len(s)
    BY <1>5, <1>9
  <2>2. \A i \in DOMAIN s : blocks[s[i]].height <= blocks[s[Len(s)]].height
    BY <1>5, <2>1
  <2>3. ASSUME NEW i \in DOMAIN s PROVE Depth[s[i]] <= Depth[s[Len(s)]]
    <3>1. s[i] \in Block /\ s[Len(s)] \in Block /\ blocks[s[i]] # None /\ blocks[s[Len(s)]] # None
      BY <1>6, <1>8, <2>1, <2>3
    <3>2. Depth[s[i]] \in Int /\ Depth[s[Len(s)]] \in Int
      BY <1>6, <3>1
    <3>3. CASE s[i] = s[Len(s)]
      BY <3>2, <3>3
    <3>4. CASE s[i] # s[Len(s)]
      BY <1>4, <2>2, <2>3, <3>1, <3>2, <3>4 DEF Higher
    <3> QED
      BY <3>3, <3>4
  <2> QED
    BY <1>8, <2>1, <2>2, <2>3
<1>10. ASSUME NEW h \in Block, blocks[h] # None
       PROVE  Depth[h] <= Depth[last_hash_processed']
  <2>1. h \in Rows
    BY <1>6, <1>10
  <2>2. PICK i \in DOMAIN s : h = s[i]
    BY <1>5, <2>1
  <2>3. s # <<>>
    BY <2>2
  <2> QED
    BY <1>2, <1>9, <2>2, <2>3
<1>11. Remembered(blocks)'
  BY <1>1, <1>6, <1>7, <1>10 DEF Remembered
<1>12. Latest(blocks)'
  BY <1>1, <1>6, <1>7 DEF Latest
<1>13. VersionsAgree'
  <2>1. PICK y : y = blocks
    OBVIOUS
  <2>2. Remembered(y)' /\ Latest(y)' /\ v[1] = y /\ Higher(y)
    BY <1>1, <1>4, <1>11, <1>12, <2>1 DEF Remembered, Latest
  <2>3. \A i \in 1..Len(v) : i = 1
    BY <1>4
  <2>4. Leads(v, chan', blocks')
    BY <1>1, <1>3
  <2> QED
    BY <1>4, <2>2, <2>3, <2>4 DEF VersionsAgree
<1>14. HeadersRise'
  <2>1. \A i \in DOMAIN s : /\ hash_to_index'[s[i]] = blocks[s[i]].height
                            /\ blocks[s[i]].height \in Nat /\ blocks[s[i]] # None
                            /\ Depth[s[i]] \in Int
    BY <1>6, <1>7, <1>8
  <2>2. ASSUME NEW i \in DOMAIN s, NEW j \in DOMAIN s, i < j
        PROVE  blocks[s[i]].height < blocks[s[j]].height
    <3>1. i \in Nat /\ j \in Nat /\ i <= j /\ i # j
      BY <1>5, <2>2
    <3>2. blocks[s[i]].height <= blocks[s[j]].height /\ s[i] # s[j]
      BY <1>5, <3>1
    <3>3. ASSUME blocks[s[j]].height <= blocks[s[i]].height PROVE FALSE
      <4>1. Depth[s[i]] < Depth[s[j]]
        BY <1>4, <1>8, <2>1, <3>2 DEF Higher
      <4>2. Depth[s[j]] < Depth[s[i]]
        BY <1>4, <1>8, <2>1, <3>2, <3>3 DEF Higher
      <4> QED
        BY <2>1, <4>1, <4>2
    <3> QED
      BY <2>1, <3>2, <3>3
  <2>3. ASSUME NEW i \in DOMAIN s PROVE blocks[s[i]].height < height'
    <3>1. s # <<>>
      BY <2>3
    <3>2. /\ height' = blocks[s[Len(s)]].height + 1 /\ Len(s) \in DOMAIN s
          /\ blocks[s[i]].height <= blocks[s[Len(s)]].height
      BY <1>2, <1>9, <3>1
    <3> QED
      BY <2>1, <3>2
  <2>4. \A i, j \in DOMAIN s : i < j => hash_to_index'[s[i]] < hash_to_index'[s[j]]
    BY <2>1, <2>2
  <2>5. \A i \in DOMAIN s : hash_to_index'[s[i]] < height'
    BY <2>1, <2>3
  <2>6. block_headers' = s
    BY <1>2
  <2> QED
    BY <2>4, <2>5, <2>6 DEF HeadersRise
<1>15. /\ last_hash_processed' = StartHash \/ last_hash_processed' \in Block
       /\ height' <= StartHeight + 1 + Depth[last_hash_processed']
  <2>1. CASE s = <<>>
    BY <1>1, <1>2, <2>1, BlockAssumption, ConfigAssumption
  <2>2. CASE s # <<>>
    <3>1. PICK z : z = s[Len(s)]
      OBVIOUS
    <3>2. /\ z \in Block /\ blocks[z] # None /\ blocks[z].height \in Nat /\ Depth[z] \in Int
          /\ height' = blocks[z].height + 1 /\ last_hash_processed' = z
      BY <1>2, <1>6, <1>8, <1>9, <2>2, <3>1
    <3>3. blocks[z].height <= StartHeight + Depth[z]
      BY <1>4, <3>2 DEF Higher
    <3> QED
      BY <3>2, <3>3, ConfigAssumption
  <2> QED
    BY <2>1, <2>2
<1> QED
  BY <1>1, <1>13, <1>14, <1>15 DEF IndexInv

(* The writer performs an operation: the next version is the table.         *)
LEMMA WriterIndex ==
    ASSUME IInv, IndexInv, DbPerform
    PROVE  IndexInv'
<1>1. /\ chan \in Seq(Op) /\ chan # <<>> /\ chan' = Tail(chan) /\ blocks \in Table
      /\ UNCHANGED <<block_headers, hash_to_index, last_hash_processed, height, mode>>
      /\ mode # "setup"
  BY DEF DbPerform, IInv, TypeOK, Table, IndexInv, memory, control
<1>2. blocks' = After(blocks, Head(chan))
  BY DEF DbPerform, Perform, After
<1>3. PICK v : /\ Leads(v, chan, blocks)
               /\ \A i \in 1..Len(v) : Higher(v[i])
               /\ Latest(v[Len(v)]) /\ \A i \in 1..Len(v) : Remembered(v[i])
  BY <1>1 DEF IndexInv, VersionsAgree
<1>4. v \in Seq(Table)
  BY <1>3 DEF Leads
<1>5. PICK w : w = Tail(v)
  OBVIOUS
<1>6. /\ Leads(w, chan', blocks') /\ Len(w) = Len(v) - 1 /\ Len(v) \in Nat /\ Len(v) > 1
      /\ \A i \in 1..Len(w) : i + 1 \in 1..Len(v) /\ w[i] = v[i + 1]
  BY <1>1, <1>2, <1>3, <1>4, <1>5, PerformLeads
<1>7. w[Len(w)] = v[Len(v)] /\ \A i \in 1..Len(w) : Higher(w[i]) /\ Remembered(w[i])
  BY <1>3, <1>6
<1>8. \A i \in 1..Len(w) : Remembered(w[i])'
  BY <1>1, <1>7 DEF Remembered, Known
<1>9. Latest(w[Len(w)])'
  BY <1>1, <1>3, <1>7 DEF Latest, Known
<1>10. VersionsAgree'
  BY <1>6, <1>7, <1>8, <1>9 DEF VersionsAgree
<1> QED
  BY <1>1, <1>10 DEF IndexInv, HeadersRise

(* Roll-back: the header with the highest index goes, and two versions      *)
(* follow, one with its row still there and one without it.                 *)
LEMMA OrphanIndex ==
    ASSUME LoadSettings, IInv, IndexInv, HandleOrphanBlock, block_headers # <<>>
    PROVE  IndexInv'
<1>0. PICK b, o, d :
         /\ b = block_headers[Len(block_headers)]
         /\ o = [op |-> "OrphanBlockHeaderWrite", hash |-> b, height |-> height, position |-> 0]
         /\ d = [op |-> "BlockHeaderDelete", hash |-> b, height |-> 0, position |-> 0]
  OBVIOUS
<1>1. /\ mode # "setup" /\ UNCHANGED <<mode, last_hash_processed, blocks>>
      /\ block_headers' = SubSeq(block_headers, 1, Len(block_headers) - 1)
      /\ hash_to_index' = [hash_to_index EXCEPT ![b] = None]
      /\ chan' = chan \o <<o, d>> /\ height' = (height - 1) % U32
  BY <1>0 DEF HandleOrphanBlock, control, tables
<1>2. /\ chan \in Seq(Op) /\ height \in Nat /\ block_headers \in Seq(Block) /\ blocks \in Table
      /\ hash_to_index \in [Hash -> Nat \cup {None}] /\ last_hash_processed \in Hash
  BY DEF IInv, TypeOK, Table
<1>3. /\ Len(block_headers) \in DOMAIN block_headers /\ Len(block_headers) \in Nat
      /\ DOMAIN block_headers = 1..Len(block_headers) /\ b \in Block /\ b \in Hash
  BY <1>0, <1>2, BlockAssumption
<1>4. o \in Op /\ d \in Op /\ o.op = "OrphanBlockHeaderWrite" /\ d.op = "BlockHeaderDelete" /\ d.hash = b
  BY <1>0, <1>2, <1>3 DEF Op, Position
<1>5. \A i \in DOMAIN block_headers :
         /\ block_headers[i] \in Block /\ block_headers[i] \in Hash
         /\ hash_to_index[block_headers[i]] \in Nat /\ hash_to_index[block_headers[i]] < height
         /\ i # Len(block_headers) =>
              block_headers[i] # b /\ hash_to_index[block_headers[i]] < hash_to_index[b]
  <2> TAKE i \in DOMAIN block_headers
  <2>1. block_headers[i] \in Block /\ block_headers[i] \in Hash /\ Known(block_headers[i])
    BY <1>2, <1>3, BlockAssumption DEF IInv, NoBlockTwice, Headers
  <2>2. hash_to_index[block_headers[i]] \in Nat /\ hash_to_index[block_headers[i]] < height
    BY <1>2, <2>1 DEF Known, IndexInv, HeadersRise
  <2>3. ASSUME i # Len(block_headers)
        PROVE  block_headers[i] # b /\ hash_to_index[block_headers[i]] < hash_to_index[b]
    <3>1. i < Len(block_headers)
      BY <1>3, <2>3
    <3> QED
      BY <1>0, <1>3, <3>1 DEF IndexInv, HeadersRise, IInv, NoBlockTwice
  <2> QED
    BY <2>1, <2>2, <2>3
<1>6. hash_to_index[b] \in Nat /\ hash_to_index[b] < height
  BY <1>0, <1>3, <1>5
<1>7. height' = height - 1
  <2>1. height >= 1
    BY <1>2, <1>6
  <2>2. height <= StartHeight + 1 + Depth[last_hash_processed]
    BY DEF IndexInv
  <2>3. height - 1 < U32
    <3>1. CASE last_hash_processed = StartHash
      BY <1>2, <2>2, <3>1, BlockAssumption, ConfigAssumption
    <3>2. CASE last_hash_processed \in Block
      <4>1. StartHeight + Depth[last_hash_processed] <= MaxI32 /\ MaxI32 < U32
        BY <3>2 DEF LoadSettings
      <4>2. Depth[last_hash_processed] \in Int
        BY <1>2, BlockAssumption
      <4> QED
        BY <1>2, <2>2, <4>1, <4>2, ConfigAssumption
    <3> QED
      BY <3>1, <3>2 DEF IndexInv
  <2>4. \A x \in Nat : x < U32 => x % U32 = x
    BY ConfigAssumption
  <2> QED
    BY <1>1, <1>2, <2>1, <2>3, <2>4
<1>8. PICK v : /\ Leads(v, chan, blocks)
               /\ \A i \in 1..Len(v) : Higher(v[i])
               /\ Latest(v[Len(v)]) /\ \A i \in 1..Len(v) : Remembered(v[i])
  BY <1>1 DEF IndexInv, VersionsAgree
<1>9. v \in Seq(Table) /\ Len(v) \in Nat
  BY <1>8 DEF Leads
<1>10. PICK x \in Seq(Table) :
         /\ Leads(x, Append(chan, o), blocks) /\ Len(x) = Len(v) + 1 /\ Len(v) > 0
         /\ x[Len(v) + 1] = After(v[Len(v)], o) /\ \A i \in 1..Len(v) : x[i] = v[i]
  BY <1>2, <1>4, <1>8, <1>9, SendLeads
<1>11. PICK w \in Seq(Table) :
         /\ Leads(w, Append(Append(chan, o), d), blocks) /\ Len(w) = Len(x) + 1 /\ Len(x) > 0
         /\ w[Len(x) + 1] = After(x[Len(x)], d) /\ \A i \in 1..Len(x) : w[i] = x[i]
  <2>1. Append(chan, o) \in Seq(Op)
    BY <1>2, <1>4
  <2> QED
    BY <1>2, <1>4, <1>10, <2>1, SendLeads
<1> DEFINE n == Len(v)
           t == v[n]
           u == [t EXCEPT ![b] = None]
<1>12. t \in Table /\ After(t, o) = t /\ After(t, d) = u
  BY <1>4, <1>9, <1>10 DEF After
<1>13. /\ Len(w) = n + 2 /\ w[n + 1] = t /\ w[n + 2] = u /\ \A i \in 1..n : w[i] = v[i]
  <2>1. Len(x) = n + 1 /\ x[n + 1] = t /\ n + 1 \in 1..Len(x)
    BY <1>9, <1>10, <1>12
  <2> QED
    BY <1>9, <1>10, <1>11, <1>12, <2>1
<1>14. Append(Append(chan, o), d) = chan \o <<o, d>>
  BY <1>2, <1>4
<1>15. Leads(w, chan', blocks')
  BY <1>1, <1>11, <1>14
<1>16. n \in 1..n /\ Higher(t) /\ Latest(t) /\ Remembered(t)
  BY <1>8, <1>9, <1>10
<1>17. u[b] = None /\ \A h \in Block : h # b => u[h] = t[h]
  BY <1>3, <1>12 DEF Table
<1> HIDE DEF u, t, n
<1>18. \A h \in Block : /\ h # b => hash_to_index'[h] = hash_to_index[h] /\ (Known(h)' <=> Known(h))
                        /\ h = b => ~Known(h)'
  BY <1>1, <1>2, <1>3, BlockAssumption DEF Known
<1>19. \A y : Remembered(y) => Remembered(y)'
  <2> TAKE y
  <2> HAVE Remembered(y)
  <2> SUFFICES ASSUME NEW h \in Block, y[h] # None
               PROVE  /\ Depth[h] <= Depth[last_hash_processed]
                      /\ Known(h)' => y[h].height = hash_to_index'[h]
    BY <1>1 DEF Remembered
  <2>1. Depth[h] <= Depth[last_hash_processed] /\ (Known(h) => y[h].height = hash_to_index[h])
    BY DEF Remembered
  <2> QED
    BY <1>18, <2>1
<1>20. Higher(u) /\ Remembered(u)
  BY <1>16, <1>17 DEF Higher, Remembered
<1>21. Latest(u)'
  BY <1>16, <1>17, <1>18 DEF Latest
<1>22. \A i \in 1..Len(w) : Higher(w[i]) /\ Remembered(w[i])
  <2>1. n \in Nat /\ \A i \in 1..(n + 2) : i \in 1..n \/ i = n + 1 \/ i = n + 2
    BY <1>9 DEF n
  <2>2. \A i \in 1..n : Higher(v[i]) /\ Remembered(v[i])
    BY <1>8 DEF n
  <2> QED
    BY <1>13, <1>16, <1>20, <2>1, <2>2
<1>23. VersionsAgree'
  <2>1. \A i \in 1..Len(w) : Remembered(w[i])'
    BY <1>19, <1>22
  <2>2. Latest(w[Len(w)])'
    BY <1>13, <1>21
  <2> QED
    BY <1>15, <1>22, <2>1, <2>2 DEF VersionsAgree
<1>24. HeadersRise'
  <2>1. /\ DOMAIN block_headers' = 1..(Len(block_headers) - 1)
        /\ \A i \in 1..(Len(block_headers) - 1) : block_headers'[i] = block_headers[i]
    BY <1>1, <1>2, <1>3
  <2>2. \A i \in DOMAIN block_headers' :
           /\ i \in DOMAIN block_headers /\ i # Len(block_headers)
           /\ hash_to_index'[block_headers'[i]] = hash_to_index[block_headers[i]]
           /\ hash_to_index[block_headers[i]] \in Nat
           /\ hash_to_index[block_headers[i]] < hash_to_index[b]
    <3> TAKE i \in DOMAIN block_headers'
    <3>1. i \in DOMAIN block_headers /\ i # Len(block_headers) /\ block_headers'[i] = block_headers[i]
      BY <1>3, <2>1
    <3> QED
      BY <1>5, <1>18, <3>1
  <2>3. \A i, j \in DOMAIN block_headers' :
           i < j => hash_to_index'[block_headers'[i]] < hash_to_index'[block_headers'[j]]
    BY <2>2 DEF IndexInv, HeadersRise
  <2>4. \A i \in DOMAIN block_headers' : hash_to_index'[block_headers'[i]] < height'
    BY <1>2, <1>6, <1>7, <2>2
  <2> QED
    BY <2>3, <2>4 DEF HeadersRise
<1>25. height' <= StartHeight + 1 + Depth[last_hash_processed']
  <2>1. height <= StartHeight + 1 + Depth[last_hash_processed] /\ Depth[last_hash_processed] \in Int
    BY <1>2, BlockAssumption DEF IndexInv
  <2> QED
    BY <1>1, <1>2, <1>7, <2>1, ConfigAssumption
<1> QED
  BY <1>1, <1>23, <1>24, <1>25 DEF IndexInv

(* Every step of such a node.                                               *)
LEMMA NextIndex ==
    ASSUME LoadSettings, IInv, IndexInv, [Next]_vars
    PROVE  IndexInv'
<1> USE DEF memory, control, tables
<1>1. CASE LoadBlockheaders
  BY <1>1, LoadIndex
<1>2. CASE LoadFails \/ OpenBlockFile \/ DbLose
  BY <1>2 DEF LoadFails, OpenBlockFile, DbLose, LoadSettings
<1>3. CASE EndOfFile
  <2>1. mode # "setup" /\ mode' # "setup"
    BY <1>3 DEF EndOfFile
  <2>2. UNCHANGED <<block_headers, hash_to_index, last_hash_processed, height, chan, blocks>>
    BY <1>3 DEF EndOfFile
  <2>3. PICK v : /\ Leads(v, chan, blocks)
                 /\ \A i \in 1..Len(v) : Higher(v[i])
                 /\ Latest(v[Len(v)]) /\ \A i \in 1..Len(v) : Remembered(v[i])
    BY <2>1 DEF IndexInv, VersionsAgree
  <2>4. Latest(v[Len(v)])' /\ \A i \in 1..Len(v) : Remembered(v[i])'
    BY <2>2, <2>3 DEF Latest, Remembered, Known
  <2>5. VersionsAgree'
    BY <2>2, <2>3, <2>4 DEF VersionsAgree
  <2> QED
    BY <2>1, <2>2, <2>5 DEF IndexInv, HeadersRise
<1>4. CASE ProcessReadBlock
  BY <1>4, SameIndex DEF ProcessReadBlock, Accept
<1>5. ASSUME NEW b \in Block, OnBlock(b) PROVE IndexInv'
  BY <1>5, SameIndex DEF OnBlock, Accept
<1>6. CASE WriteBlockToFile \/ ProcessBlockQueue \/ UNCHANGED vars
  BY <1>6, SameIndex DEF WriteBlockToFile, ProcessBlockQueue, vars
<1>7. CASE ProcessBlock
  BY <1>7, ProcessIndex
<1>8. CASE HandleOrphanBlock
  <2>1. CASE block_headers = <<>>
    BY <1>8, <2>1, SameIndex DEF HandleOrphanBlock
  <2>2. CASE block_headers # <<>>
    BY <1>8, <2>2, OrphanIndex
  <2> QED
    BY <2>1, <2>2
<1>9. CASE DbPerform
  BY <1>9, WriterIndex
<1>10. CASE Crash
  <2>1. /\ mode' = "setup" /\ chan' = <<>> /\ blocks' = blocks /\ block_headers' = <<>>
        /\ last_hash_processed' = StartHash /\ height' = StartHeight + 1
    BY <1>10 DEF Crash
  <2>2. PICK v : Leads(v, chan, blocks) /\ \A i \in 1..Len(v) : Higher(v[i])
    BY DEF IndexInv, VersionsAgree
  <2>3. blocks \in Table /\ Higher(v[1]) /\ v[1] = blocks
    BY <2>2 DEF Leads, IInv, TypeOK, Table
  <2>4. PICK w : w = <<v[1]>>
    OBVIOUS
  <2>5. Leads(w, chan', blocks') /\ \A i \in 1..Len(w) : Higher(w[i])
    BY <2>1, <2>3, <2>4 DEF Leads
  <2>6. VersionsAgree'
    BY <2>1, <2>5 DEF VersionsAgree
  <2>7. height' <= StartHeight + 1 + Depth[last_hash_processed']
    BY <2>1, BlockAssumption, ConfigAssumption
  <2> QED
    BY <2>1, <2>6, <2>7 DEF IndexInv, HeadersRise
<1> QED
  BY <1>1, <1>2, <1>3, <1>4, <1>5, <1>6, <1>7, <1>8, <1>9, <1>10 DEF Next

(* A node that starts from the table, with orphan detection or without, has *)
(* in its index the height that the row of the block has: through roll-back *)
(* (whose delete is still on its way when the next block is stored), and    *)
(* through a crash at any point of the writer's way through the channel.    *)
THEOREM IndexIsTheTable ==
    ASSUME LoadSettings
    PROVE  Spec => []IndexAgreesWithTable
<1>1. Init => IndexInv
  <2> SUFFICES ASSUME Init PROVE IndexInv
    OBVIOUS
  <2>1. PICK v : v = <<[h \in Block |-> None]>>
    OBVIOUS
  <2>2. /\ blocks = [h \in Block |-> None] /\ chan = <<>> /\ mode = "setup" /\ block_headers = <<>>
        /\ last_hash_processed = StartHash /\ height = StartHeight + 1
    BY DEF Init
  <2>3. [h \in Block |-> None] \in Table /\ Higher([h \in Block |-> None])
    BY DEF Table, Higher
  <2>4. Leads(v, chan, blocks) /\ \A i \in 1..Len(v) : Higher(v[i])
    BY <2>1, <2>2, <2>3 DEF Leads
  <2>5. height <= StartHeight + 1 + Depth[last_hash_processed]
    BY <2>2, BlockAssumption, ConfigAssumption
  <2> QED
    BY <2>2, <2>4, <2>5 DEF IndexInv, VersionsAgree, HeadersRise
<1>2. IInv /\ IndexInv /\ [Next]_vars => IndexInv'
  BY NextIndex
<1>3. IInv /\ IndexInv => IndexAgreesWithTable
  <2> SUFFICES ASSUME IInv, IndexInv, NEW h \in Rows, Known(h)
               PROVE  hash_to_index[h] = blocks[h].height
    BY DEF IndexAgreesWithTable
  <2>1. CASE mode = "setup"
    <3>1. h \in Hash /\ hash_to_index[h] = None
      BY <2>1, BlockAssumption DEF IInv, SetupIsEmpty, Rows
    <3> QED
      BY <3>1 DEF Known
  <2>2. CASE mode # "setup"
    <3>1. PICK v : Leads(v, chan, blocks) /\ \A i \in 1..Len(v) : Remembered(v[i])
      BY <2>2 DEF IndexInv, VersionsAgree
    <3>2. v \in Seq(Table) /\ v[1] = blocks /\ 1 \in 1..Len(v)
      <4>1. Len(chan) \in Nat
        BY DEF IInv, TypeOK
      <4> QED
        BY <3>1, <4>1 DEF Leads
    <3>3. Remembered(blocks)
      BY <3>1, <3>2
    <3> QED
      BY <3>3 DEF Remembered, Rows
  <2> QED
    BY <2>1, <2>2
<1> QED
  BY <1>1, <1>2, <1>3, Invariance, PTL DEF Spec

-----------------------------------------------------------------------------
(* The block manager implements HeaderWriter: every step of it sends header *)
(* operations, lets the writer perform or lose the oldest one, loses all of *)
(* them, or leaves the channel and the tables alone.                        *)

(* The abstract channel is as long as the channel of the block manager and  *)
(* holds the operations HeaderWriter knows.                                 *)
LEMMA PendingType ==
    ASSUME NEW c \in Seq(Op)
    PROVE  /\ Pending(c) \in Seq(HeaderOps)
           /\ Len(Pending(c)) = Len(c)
           /\ \A i \in 1..Len(c) : Pending(c)[i] = Abstract(c[i])
<1>1. DOMAIN c = 1..Len(c) /\ Len(c) \in Nat /\ \A i \in 1..Len(c) : c[i] \in Op
  OBVIOUS
<1>2. \A i \in 1..Len(c) : Abstract(c[i]) \in HeaderOps
  BY <1>1 DEF Op, Abstract, HeaderOps
<1>3. Pending(c) = [i \in 1..Len(c) |-> Abstract(c[i])]
  BY <1>1 DEF Pending
<1>4. Pending(c) \in Seq(HeaderOps)
  BY <1>1, <1>2, <1>3
<1> QED
  BY <1>1, <1>3, <1>4

(* What the writer takes off the channel it takes off the abstract one.     *)
LEMMA PendingTail ==
    ASSUME NEW c \in Seq(Op), c # <<>>
    PROVE  /\ Pending(c) # <<>>
           /\ Head(Pending(c)) = Abstract(Head(c))
           /\ Pending(Tail(c)) = Tail(Pending(c))
<1>1. Tail(c) \in Seq(Op) /\ Len(Tail(c)) = Len(c) - 1 /\ Len(c) \in Nat \ {0}
      /\ \A i \in 1..(Len(c) - 1) : Tail(c)[i] = c[i + 1]
  OBVIOUS
<1>2. /\ Pending(c) \in Seq(HeaderOps) /\ Len(Pending(c)) = Len(c)
      /\ \A i \in 1..Len(c) : Pending(c)[i] = Abstract(c[i])
  BY PendingType
<1>3. /\ Pending(Tail(c)) \in Seq(HeaderOps) /\ Len(Pending(Tail(c))) = Len(c) - 1
      /\ \A i \in 1..(Len(c) - 1) : Pending(Tail(c))[i] = Abstract(c[i + 1])
  BY <1>1, PendingType
<1>4. Pending(c) # <<>> /\ Head(Pending(c)) = Abstract(Head(c))
  BY <1>1, <1>2
<1>5. /\ Tail(Pending(c)) \in Seq(HeaderOps) /\ Len(Tail(Pending(c))) = Len(c) - 1
      /\ \A i \in 1..(Len(c) - 1) : Tail(Pending(c))[i] = Abstract(c[i + 1])
  BY <1>1, <1>2
<1>6. Pending(Tail(c)) = Tail(Pending(c))
  BY <1>3, <1>5, SeqEqual
<1> QED
  BY <1>4, <1>6

(* Operations sent at the end of the channel are sent at the end of the     *)
(* abstract channel.                                                        *)
LEMMA PendingSend ==
    ASSUME NEW c \in Seq(Op), NEW d \in Seq(Op), d # <<>>
    PROVE  /\ Len(Pending(c \o d)) > Len(Pending(c))
           /\ SubSeq(Pending(c \o d), 1, Len(Pending(c))) = Pending(c)
           /\ \A i \in (Len(Pending(c)) + 1)..Len(Pending(c \o d)) : Pending(c \o d)[i] \in HeaderOps
<1>1. /\ c \o d \in Seq(Op) /\ Len(c \o d) = Len(c) + Len(d) /\ Len(d) > 0
      /\ Len(c) \in Nat /\ Len(d) \in Nat
      /\ \A i \in 1..Len(c) : (c \o d)[i] = c[i]
  OBVIOUS
<1>2. /\ Pending(c) \in Seq(HeaderOps) /\ Len(Pending(c)) = Len(c)
      /\ \A i \in 1..Len(c) : Pending(c)[i] = Abstract(c[i])
  BY PendingType
<1>3. /\ Pending(c \o d) \in Seq(HeaderOps) /\ Len(Pending(c \o d)) = Len(c) + Len(d)
      /\ \A i \in 1..(Len(c) + Len(d)) : Pending(c \o d)[i] = Abstract((c \o d)[i])
  BY <1>1, PendingType
<1>4. Len(Pending(c \o d)) > Len(Pending(c))
  BY <1>1, <1>2, <1>3
<1>5. \A i \in (Len(Pending(c)) + 1)..Len(Pending(c \o d)) : Pending(c \o d)[i] \in HeaderOps
  BY <1>1, <1>2, <1>3
<1>6. /\ SubSeq(Pending(c \o d), 1, Len(c)) \in Seq(HeaderOps)
      /\ Len(SubSeq(Pending(c \o d), 1, Len(c))) = Len(c)
      /\ \A i \in 1..Len(c) : SubSeq(Pending(c \o d), 1, Len(c))[i] = Abstract(c[i])
  BY <1>1, <1>3
<1>7. SubSeq(Pending(c \o d), 1, Len(c)) = Pending(c)
  BY <1>2, <1>6, SeqEqual
<1> QED
  BY <1>2, <1>4, <1>5, <1>7

(* A first start is an initial state of HeaderWriter.                       *)
LEMMA InitRefines == Init => HW!HWInit
BY DEF Init, HW!HWInit, Pending, RowSet, Rows

(* A statement on the table is the same statement on its set of rows. *)
LEMMA PerformRefines ==
    ASSUME TypeOK, NEW o \in Op, Perform(o)
    PROVE  RowSet' = HW!BlocksAfter(Abstract(o)) /\ orphans' = HW!OrphansAfter(Abstract(o))
<1>1. /\ o.hash \in Block /\ o.height \in Nat
      /\ o.op \in {"BlockHeaderWrite", "OrphanBlockHeaderWrite", "BlockHeaderDelete"}
  BY DEF Op
<1>2. Abstract(o).op = o.op /\ Abstract(o).hash = o.hash /\ Abstract(o).height = o.height
  BY DEF Abstract
<1>3. orphans' = HW!OrphansAfter(Abstract(o))
  BY <1>2 DEF Perform, HW!OrphansAfter
<1>4. blocks[o.hash] # None <=> \E r \in RowSet : r[1] = o.hash
  <2>1. ASSUME blocks[o.hash] # None PROVE \E r \in RowSet : r[1] = o.hash
    <3>1. <<o.hash, blocks[o.hash].height>> \in RowSet
      BY <1>1, <2>1 DEF RowSet, Rows
    <3> QED
      BY <3>1
  <2>2. ASSUME NEW r \in RowSet, r[1] = o.hash PROVE blocks[o.hash] # None
    BY <2>2 DEF RowSet, Rows
  <2> QED
    BY <2>1, <2>2
<1>5. CASE o.op = "BlockHeaderWrite" /\ blocks[o.hash] = None
  <2>1. blocks' = [blocks EXCEPT ![o.hash] = [height |-> o.height, position |-> o.position]]
    BY <1>5 DEF Perform
  <2>2. [height |-> o.height, position |-> o.position] # None
    <3>1. [height |-> o.height, position |-> o.position] \in Row
      BY DEF Op, Row
    <3> QED
      BY <3>1, BlockAssumption
  <2>3. Rows' = Rows \cup {o.hash}
    BY <1>1, <2>1, <2>2 DEF TypeOK, Rows
  <2>4. \A h \in Block : blocks'[h].height = IF h = o.hash THEN o.height ELSE blocks[h].height
    BY <1>1, <2>1 DEF TypeOK
  <2>5. Rows \subseteq Block /\ o.hash \notin Rows
    BY <1>5 DEF Rows
  <2>6. RowSet' = RowSet \cup {<<o.hash, o.height>>}
    BY <1>1, <2>3, <2>4, <2>5 DEF RowSet
  <2> QED
    BY <1>2, <1>3, <1>4, <1>5, <2>6 DEF HW!BlocksAfter
<1>6. CASE o.op = "BlockHeaderDelete"
  <2>1. blocks' = [blocks EXCEPT ![o.hash] = None]
    BY <1>6 DEF Perform
  <2>2. Rows' = Rows \ {o.hash} /\ \A h \in Rows' : blocks'[h] = blocks[h]
    BY <1>1, <2>1 DEF TypeOK, Rows
  <2>3. RowSet' = {r \in RowSet : r[1] # o.hash}
    BY <2>2 DEF RowSet
  <2> QED
    BY <1>2, <1>3, <1>6, <2>3 DEF HW!BlocksAfter
<1>7. CASE \/ o.op = "BlockHeaderWrite" /\ blocks[o.hash] # None
           \/ o.op = "OrphanBlockHeaderWrite"
  <2>1. blocks' = blocks
    BY <1>7 DEF Perform
  <2>2. RowSet' = RowSet
    BY <2>1 DEF RowSet, Rows
  <2> QED
    BY <1>2, <1>3, <1>4, <1>7, <2>2 DEF HW!BlocksAfter
<1> QED
  BY <1>1, <1>5, <1>6, <1>7

(* A step that sends nothing and touches no table is a stuttering step. *)
LEMMA StutterRefines ==
    ASSUME UNCHANGED <<chan, blocks, orphans>>
    PROVE  UNCHANGED HW!hwvars
BY DEF HW!hwvars, Pending, RowSet, Rows

(* A handler that sends operations takes a Send step of HeaderWriter.       *)
LEMMA SendRefines ==
    ASSUME TypeOK, NEW d \in Seq(Op), d # <<>>, chan' = chan \o d, UNCHANGED <<blocks, orphans>>
    PROVE  HW!Send
<1>1. chan \in Seq(Op)
  BY DEF TypeOK
<1>2. UNCHANGED <<RowSet, orphans>>
  BY DEF RowSet, Rows
<1>3. Pending(chan)' = Pending(chan \o d)
  BY DEF Pending
<1> QED
  BY <1>1, <1>2, <1>3, PendingSend DEF HW!Send

(* Every step of the block manager, of the writer and of a crash is a step  *)
(* of HeaderWriter or leaves its variables alone.                           *)
LEMMA NextRefines ==
    ASSUME IInv, [Next]_vars
    PROVE  [HW!HWNext]_HW!hwvars
<1> USE DEF memory, control, tables
<1>0. TypeOK /\ InHandIsNext /\ chan \in Seq(Op)
  BY DEF IInv, TypeOK
<1>1. CASE LoadBlockheaders \/ LoadFails \/ OpenBlockFile \/ ProcessReadBlock \/ EndOfFile
           \/ WriteBlockToFile \/ ProcessBlockQueue \/ UNCHANGED vars
  BY <1>1, StutterRefines DEF LoadBlockheaders, LoadFails, OpenBlockFile, ProcessReadBlock,
     EndOfFile, WriteBlockToFile, ProcessBlockQueue, vars
<1>2. ASSUME NEW b \in Block, OnBlock(b) PROVE [HW!HWNext]_HW!hwvars
  BY <1>2, StutterRefines DEF OnBlock
<1>3. CASE ProcessBlock
  <2> DEFINE o == [op |-> "BlockHeaderWrite", hash |-> cur.block,
                   height |-> height, position |-> cur.position]
  <2>1. o \in Op
    BY <1>0, <1>3 DEF ProcessBlock, TypeOK, Entry, Op, Position
  <2>2. chan' = Append(chan, o) /\ UNCHANGED <<blocks, orphans>>
    BY <1>0, <1>3 DEF ProcessBlock, WriteBlockheader, InHandIsNext
  <2>3. <<o>> \in Seq(Op) /\ <<o>> # <<>> /\ Append(chan, o) = chan \o <<o>>
    BY <1>0, <2>1
  <2>4. HW!Send
    BY <1>0, <2>2, <2>3, SendRefines
  <2> QED
    BY <2>4 DEF HW!HWNext
<1>4. CASE HandleOrphanBlock
  <2>1. CASE block_headers = <<>>
    BY <1>4, <2>1, StutterRefines DEF HandleOrphanBlock
  <2>2. CASE block_headers # <<>>
    <3> DEFINE b == block_headers[Len(block_headers)]
               d == <<[op |-> "OrphanBlockHeaderWrite", hash |-> b, height |-> height, position |-> 0],
                      [op |-> "BlockHeaderDelete", hash |-> b, height |-> 0, position |-> 0]>>
    <3>1. b \in Block /\ height \in Nat
      BY <1>0, <2>2 DEF TypeOK
    <3>2. d \in Seq(Op) /\ d # <<>>
      BY <3>1 DEF Op, Position
    <3>3. chan' = chan \o d /\ UNCHANGED <<blocks, orphans>>
      BY <1>4, <2>2 DEF HandleOrphanBlock
    <3>4. HW!Send
      BY <1>0, <3>2, <3>3, SendRefines
    <3> QED
      BY <3>4 DEF HW!HWNext
  <2> QED
    BY <2>1, <2>2
<1>5. CASE DbPerform
  <2>1. chan # <<>> /\ Perform(Head(chan)) /\ chan' = Tail(chan) /\ Head(chan) \in Op
    BY <1>0, <1>5 DEF DbPerform
  <2>2. Pending(chan)' = Tail(Pending(chan)) /\ Pending(chan) # <<>>
        /\ Head(Pending(chan)) = Abstract(Head(chan))
    BY <1>0, <2>1, PendingTail DEF Pending
  <2>3. HW!Perform
    BY <1>0, <2>1, <2>2, PerformRefines DEF HW!Perform
  <2> QED
    BY <2>3 DEF HW!HWNext
<1>6. CASE DbLose
  <2>1. Pending(chan)' = Tail(Pending(chan)) /\ Pending(chan) # <<>>
    BY <1>0, <1>6, PendingTail DEF DbLose, Pending
  <2>2. UNCHANGED <<RowSet, orphans>>
    BY <1>6 DEF DbLose, RowSet, Rows
  <2> QED
    BY <2>1, <2>2 DEF HW!HWNext, HW!Lose
<1>7. CASE Crash
  BY <1>7 DEF Crash, HW!HWNext, HW!LoseAll, Pending, RowSet, Rows
<1> QED
  BY <1>1, <1>2, <1>3, <1>4, <1>5, <1>6, <1>7 DEF Next

(* The block manager implements HeaderWriter: the tables blocks and orphans *)
(* are only ever changed by operations it sent, in the order it sent them   *)
(* and each at most once, through crashes, losses and roll-backs.           *)
THEOREM RefinesHeaderWriter == Spec => UsesHeaderWriter
<1>1. Init => HW!HWInit
  BY InitRefines
<1>2. IInv /\ [Next]_vars => [HW!HWNext]_HW!hwvars
  BY NextRefines
<1> QED
  BY <1>1, <1>2, Invariance, PTL DEF Spec, UsesHeaderWriter, HW!HWSpec

-----------------------------------------------------------------------------
(* The synchronisation logic.                                               *)

-----------------------------------------------------------------------------
(* Events that carry blocks of B, and requests for blocks of B and for what *)
(* is behind a hash of H.                                                   *)
PeerEvent(B) ==
    [type : {"Inv"}, objects : Seq(B)] \cup [type : {"Block"}, block : B]
    \cup [type : {"Connected", "Disconnected"}]
Message(B, H) == [type : {"GetBlocks"}, hash : H] \cup [type : {"GetData"}, hash : B]

(* Everything listed, announced, asked for or on its way is of B, and a     *)
(* getblocks starts from a hash of H.                                       *)
Traffic(B, H) ==
    /\ block_inventory \in Seq(Seq(B))
    /\ inbox \in Seq(PeerEvent(B))
    /\ toPeer \in Seq(Message(B, H))

(* The types of the logic, of the peer and of the link.                     *)
LTypeOK ==
    /\ Traffic(Block, Hash)
    /\ state \in {"Starting", "Connected", "Disconnected", "Ready"}
    /\ start_block_timestamp \in Nat \cup {None}
    /\ handling \in Block \cup {None}
    /\ connected \in BOOLEAN
    /\ link \in {"up", "down"}
    /\ tip \in DOMAIN Chain
    /\ drops \in Nat

(* The fields of an event follow from its type.                             *)
LEMMA EventFields ==
    ASSUME NEW B, NEW e \in PeerEvent(B)
    PROVE  /\ e.type = "Inv" => e.objects \in Seq(B)
           /\ e.type = "Block" => e.block \in B
BY DEF PeerEvent

(* The fields of a request follow from its type.                            *)
LEMMA MessageFields ==
    ASSUME NEW B, NEW H, NEW m \in Message(B, H)
    PROVE  /\ m.type \in {"GetBlocks", "GetData"}
           /\ m.type = "GetBlocks" => m.hash \in H
           /\ m.type = "GetData" => m.hash \in B
BY DEF Message

(* Events as they are made.                                                 *)
LEMMA EventsMade ==
    ASSUME NEW B
    PROVE  /\ \A s \in Seq(B) : [type |-> "Inv", objects |-> s] \in PeerEvent(B)
           /\ \A b \in B : [type |-> "Block", block |-> b] \in PeerEvent(B)
           /\ [type |-> "Connected"] \in PeerEvent(B) /\ [type |-> "Disconnected"] \in PeerEvent(B)
BY DEF PeerEvent

(* Requests as they are made.                                               *)
LEMMA MessagesMade ==
    ASSUME NEW B, NEW H
    PROVE  /\ \A h \in H : [type |-> "GetBlocks", hash |-> h] \in Message(B, H)
           /\ \A b \in B : [type |-> "GetData", hash |-> b] \in Message(B, H)
BY DEF Message

(* A list without a hash holds what the list held.                          *)
LEMMA WithoutFacts ==
    ASSUME NEW S, NEW s \in Seq(S), NEW h
    PROVE  Without(s, h) \in Seq(S)
<1> DEFINE ss == [i \in DOMAIN s |-> IF s[i] = h THEN <<>> ELSE <<s[i]>>]
<1>1. DOMAIN s = 1..Len(s) /\ Len(s) \in Nat /\ \A i \in 1..Len(s) : s[i] \in S
  OBVIOUS
<1>2. \A i \in 1..Len(s) : (IF s[i] = h THEN <<>> ELSE <<s[i]>>) \in Seq(S)
  BY <1>1
<1>3. ss = [i \in 1..Len(s) |-> IF s[i] = h THEN <<>> ELSE <<s[i]>>]
  BY <1>1
<1>4. ss \in Seq(Seq(S))
  BY <1>1, <1>2, <1>3
<1> HIDE DEF ss
<1>5. FlattenSeq(ss) \in Seq(S)
  BY <1>4, FlattenSeqType
<1> QED  BY <1>5 DEF Without, ss

(* The inventory after a block came in: lists of the same hashes.           *)
LEMMA RetainFacts ==
    ASSUME NEW S, NEW inv \in Seq(Seq(S)), NEW h
    PROVE  Retain(inv, h) \in Seq(Seq(S))
<1>1. CASE inv = <<>> \/ h = None
  BY <1>1 DEF Retain
<1>2. CASE ~(inv = <<>> \/ h = None)
  <2>1. inv[1] \in Seq(S) /\ 1 \in DOMAIN inv
    BY <1>2
  <2>2. Without(inv[1], h) \in Seq(S)
    BY <2>1, WithoutFacts
  <2>3. Retain(inv, h) = [inv EXCEPT ![1] = Without(inv[1], h)]
    BY <1>2, <2>1 DEF Retain
  <2> HIDE DEF Retain
  <2> QED  BY <2>1, <2>2, <2>3
<1> QED  BY <1>1, <1>2

(* The inventory without the empty lists at its front.                      *)
LEMMA TrimFacts ==
    ASSUME NEW S, NEW inv \in Seq(Seq(S))
    PROVE  /\ Trim(inv) \in Seq(Seq(S))
           /\ Trim(inv) # <<>> => Trim(inv)[1] \in Seq(S) /\ Trim(inv)[1] # <<>> /\ Trim(inv)[1][1] \in S
<1> DEFINE full == {i \in DOMAIN inv : inv[i] # <<>>}
<1>1. DOMAIN inv = 1..Len(inv) /\ Len(inv) \in Nat
  OBVIOUS
<1>2. CASE full = {}
  <2>1. Trim(inv) = <<>>
    BY <1>2 DEF Trim
  <2> QED  BY <2>1
<1>3. CASE full # {}
  <2>1. full \in SUBSET Nat
    BY <1>1
  <2>2. Min(full) \in full
    BY <1>3, <2>1, MinIsLeast
  <2>3. PICK m \in 1..Len(inv) : m = Min(full) /\ inv[m] # <<>>
    BY <1>1, <2>2
  <2>4. Trim(inv) = SubSeq(inv, m, Len(inv))
    BY <1>3, <2>3 DEF Trim
  <2>5. SubSeq(inv, m, Len(inv)) \in Seq(Seq(S)) /\ SubSeq(inv, m, Len(inv))[1] = inv[m]
    <3>1. ASSUME NEW T, NEW u \in Seq(T), NEW k \in 1..Len(u)
          PROVE  SubSeq(u, k, Len(u)) \in Seq(T) /\ SubSeq(u, k, Len(u))[1] = u[k]
      OBVIOUS
    <3> QED  BY <3>1
  <2>6. inv[m] \in Seq(S)
    BY <2>3
  <2>7. ASSUME NEW t \in Seq(S), t # <<>>  PROVE t[1] \in S
    BY <2>7
  <2> QED  BY <2>3, <2>4, <2>5, <2>6, <2>7
<1> QED  BY <1>2, <1>3

(* A request that may be made: request_next_block asks for the first block  *)
(* of what is left of the inventory, or for the next inv when nothing is.   *)
LEMMA RequestFacts ==
    ASSUME NEW S, NEW inv \in Seq(Seq(S)), NEW h, RequestNextBlock(inv, h)
    PROVE  /\ block_inventory' \in Seq(Seq(S))
           /\ \E m : /\ toPeer' = IF connected' /\ link = "up" THEN Append(toPeer, m) ELSE toPeer
                     /\ \/ /\ m = [type |-> "GetBlocks", hash |-> LastKnown(block_headers')]
                           /\ block_inventory' = <<>>
                        \/ /\ \E b \in S : m = [type |-> "GetData", hash |-> b]
                           /\ block_inventory' # <<>>
<1> DEFINE rest == Trim(Retain(inv, h))
           m == IF rest = <<>> THEN [type |-> "GetBlocks", hash |-> LastKnown(block_headers')]
                ELSE [type |-> "GetData", hash |-> rest[1][1]]
<1>1. Retain(inv, h) \in Seq(Seq(S))
  BY RetainFacts
<1>2. rest \in Seq(Seq(S)) /\ (rest # <<>> => rest[1][1] \in S)
  BY <1>1, TrimFacts
<1>3. block_inventory' = rest /\ toPeer' = IF connected' /\ link = "up" THEN Append(toPeer, m) ELSE toPeer
  BY DEF RequestNextBlock, Post
<1>4. \/ m = [type |-> "GetBlocks", hash |-> LastKnown(block_headers')] /\ rest = <<>>
      \/ m = [type |-> "GetData", hash |-> rest[1][1]] /\ rest # <<>>
  OBVIOUS
<1> HIDE DEF m, rest
<1> QED  BY <1>2, <1>3, <1>4

(* The hash a getblocks starts from is one of a block, or of the configured *)
(* start block.                                                             *)
LEMMA LastKnownType ==
    ASSUME NEW headers \in Seq(Block)
    PROVE  LastKnown(headers) \in Hash
BY BlockAssumption DEF LastKnown

(* It is one of the headers or the configured start block.                  *)
LEMMA LastKnownWithin ==
    ASSUME NEW headers \in Seq(Block), NEW W, \A i \in DOMAIN headers : headers[i] \in W
    PROVE  LastKnown(headers) \in W \cup {StartHash}
BY DEF LastKnown

(* Such a request stays within the blocks of the inventory.                 *)
LEMMA RequestTraffic ==
    ASSUME NEW B, NEW H, NEW inv \in Seq(Seq(B)), NEW h, RequestNextBlock(inv, h),
           LastKnown(block_headers') \in H, toPeer \in Seq(Message(B, H))
    PROVE  block_inventory' \in Seq(Seq(B)) /\ toPeer' \in Seq(Message(B, H))
<1>1. PICK m : /\ toPeer' = IF connected' /\ link = "up" THEN Append(toPeer, m) ELSE toPeer
               /\ \/ m = [type |-> "GetBlocks", hash |-> LastKnown(block_headers')]
                  \/ \E b \in B : m = [type |-> "GetData", hash |-> b]
  BY RequestFacts
<1>2. m \in Message(B, H)
  BY <1>1, MessagesMade
<1>3. block_inventory' \in Seq(Seq(B))
  BY RequestFacts
<1>4. Append(toPeer, m) \in Seq(Message(B, H))
  BY <1>2
<1> QED  BY <1>1, <1>3, <1>4

(* An event that is taken from the inbox.                                   *)
LEMMA EventFacts ==
    ASSUME NEW B, inbox \in Seq(PeerEvent(B)), NEW ty, Event(ty)
    PROVE  /\ inbox # <<>> /\ Head(inbox) \in PeerEvent(B) /\ Head(inbox).type = ty
           /\ inbox' = Tail(inbox) /\ inbox' \in Seq(PeerEvent(B))
           /\ ty = "Inv" => Head(inbox).objects \in Seq(B)
           /\ ty = "Block" => Head(inbox).block \in B
<1>1. inbox # <<>> /\ Head(inbox).type = ty /\ inbox' = Tail(inbox)
  BY DEF Event
<1>2. Head(inbox) \in PeerEvent(B) /\ Tail(inbox) \in Seq(PeerEvent(B))
  BY <1>1
<1> QED  BY <1>1, <1>2, EventFields

(* An event that is delivered.                                              *)
LEMMA DeliverTraffic ==
    ASSUME NEW B, inbox \in Seq(PeerEvent(B)), NEW e \in PeerEvent(B)
    PROVE  Append(inbox, e) \in Seq(PeerEvent(B))
OBVIOUS

(* The handlers pass on blocks they were given.                             *)
LEMMA HandlerTraffic ==
    ASSUME NEW B, NEW H, Traffic(B, H), LastKnown(block_headers') \in H,
           Handler \/ WriterStep \/ UNCHANGED lvars
    PROVE  Traffic(B, H)'
<1> USE DEF Traffic
<1>1. CASE OnConnected
  <2>1. RequestNextBlock(block_inventory, None)
    BY <1>1 DEF OnConnected
  <2>2. block_inventory' \in Seq(Seq(B)) /\ toPeer' \in Seq(Message(B, H))
    BY <2>1, RequestTraffic
  <2>3. inbox' \in Seq(PeerEvent(B))
    BY <1>1, EventFacts DEF OnConnected
  <2> QED  BY <2>2, <2>3
<1>2. CASE OnDisconnected
  <2>1. inbox' \in Seq(PeerEvent(B))
    BY <1>2, EventFacts DEF OnDisconnected
  <2> QED  BY <1>2, <2>1 DEF OnDisconnected
<1>3. CASE OnInv
  <2> DEFINE inv == Append(block_inventory, Head(inbox).objects)
  <2>1. Head(inbox).objects \in Seq(B) /\ inbox' \in Seq(PeerEvent(B))
    BY <1>3, EventFacts DEF OnInv
  <2>2. inv \in Seq(Seq(B))
    BY <2>1
  <2>3. CASE block_inventory = <<>>
    <3>1. RequestNextBlock(inv, None)
      BY <1>3, <2>3 DEF OnInv
    <3> HIDE DEF inv
    <3> QED  BY <2>1, <2>2, <3>1, RequestTraffic
  <2>4. CASE block_inventory # <<>>
    BY <1>3, <2>1, <2>2, <2>4 DEF OnInv
  <2> QED  BY <2>3, <2>4
<1>4. CASE OnOrphan
  <2>1. RequestNextBlock(<<>>, None)
    BY <1>4 DEF OnOrphan
  <2>2. <<>> \in Seq(Seq(B))
    OBVIOUS
  <2>3. block_inventory' \in Seq(Seq(B)) /\ toPeer' \in Seq(Message(B, H))
    BY <2>1, <2>2, RequestTraffic
  <2>4. inbox' \in Seq(PeerEvent(B))
    BY <1>4, EventFacts DEF OnOrphan
  <2> QED  BY <2>3, <2>4
<1>5. CASE OnBlockEvent
  <2>1. inbox' \in Seq(PeerEvent(B))
    BY <1>5, EventFacts DEF OnBlockEvent
  <2> QED  BY <1>5, <2>1 DEF OnBlockEvent
<1>6. CASE FinishBlock
  <2>1. RequestNextBlock(block_inventory, handling)
    BY <1>6 DEF FinishBlock
  <2>2. block_inventory' \in Seq(Seq(B)) /\ toPeer' \in Seq(Message(B, H))
    BY <2>1, RequestTraffic
  <2> QED  BY <1>6, <2>2 DEF FinishBlock
<1>7. CASE BlockManagerStep \/ WriterStep
  BY <1>7 DEF BlockManagerStep, WriterStep, logic
<1>8. CASE UNCHANGED lvars
  BY <1>8 DEF lvars, logic
<1> QED  BY <1>1, <1>2, <1>3, <1>4, <1>5, <1>6, <1>7, <1>8 DEF Handler

(* The peer answers with blocks of B, as long as what it finds behind a     *)
(* hash of H is of B.                                                       *)
LEMMA ServeTraffic ==
    ASSUME NEW B, NEW H, Traffic(B, H), \A h \in H : Behind(h) \in Seq(B), PeerServe
    PROVE  Traffic(B, H)'
<1> USE DEF Traffic
<1>1. Head(toPeer) \in Message(B, H) /\ toPeer' = Tail(toPeer) /\ toPeer' \in Seq(Message(B, H))
  BY DEF PeerServe
<1>2. CASE Head(toPeer).type = "GetBlocks"
  <2>1. \/ inbox' = inbox
        \/ inbox' = Append(inbox, [type |-> "Inv", objects |-> Behind(Head(toPeer).hash)])
    BY <1>2 DEF PeerServe, Deliver
  <2>2. Behind(Head(toPeer).hash) \in Seq(B)
    BY <1>1, <1>2, MessageFields
  <2>3. [type |-> "Inv", objects |-> Behind(Head(toPeer).hash)] \in PeerEvent(B)
    BY <2>2, EventsMade
  <2>4. inbox' \in Seq(PeerEvent(B))
    BY <2>1, <2>3, DeliverTraffic, Zenon
  <2> QED  BY <1>1, <2>4 DEF PeerServe, logic
<1>3. CASE Head(toPeer).type = "GetData"
  <2>1. inbox' = Append(inbox, [type |-> "Block", block |-> Head(toPeer).hash])
    BY <1>3 DEF PeerServe, Deliver
  <2>2. [type |-> "Block", block |-> Head(toPeer).hash] \in PeerEvent(B)
    BY <1>1, <1>3, MessageFields, EventsMade
  <2>3. inbox' \in Seq(PeerEvent(B))
    BY <2>1, <2>2, DeliverTraffic, Zenon
  <2> QED  BY <1>1, <2>3 DEF PeerServe, logic
<1> QED  BY <1>1, <1>2, <1>3, MessageFields

(* Announcements of blocks of B, of transactions, and the events of the     *)
(* link.                                                                    *)
LEMMA LinkTraffic ==
    ASSUME NEW B, NEW H, Traffic(B, H),
           \/ (PeerMine \/ PeerReorg) /\ tip' \in B
           \/ TxInv \/ Connect \/ Disconnect
    PROVE  Traffic(B, H)'
<1> USE DEF Traffic
<1>0. ASSUME NEW S  PROVE <<>> \in Seq(S)
  OBVIOUS
<1>1. CASE (PeerMine \/ PeerReorg) /\ tip' \in B
  <2>1. /\ inbox' = inbox \/ inbox' = Append(inbox, [type |-> "Inv", objects |-> <<tip'>>])
        /\ UNCHANGED <<block_inventory, toPeer>>
    BY <1>1 DEF PeerMine, PeerReorg, Announce, Deliver, logic
  <2>2. <<tip'>> \in Seq(B)
    BY <1>1
  <2>3. inbox' \in Seq(PeerEvent(B))
    BY <2>1, <2>2, EventsMade, DeliverTraffic, Zenon
  <2> QED  BY <2>1, <2>3
<1>2. CASE TxInv
  <2>1. /\ inbox' = Append(inbox, [type |-> "Inv", objects |-> <<>>])
        /\ UNCHANGED <<block_inventory, toPeer>>
    BY <1>2 DEF TxInv, Deliver, logic
  <2>2. inbox' \in Seq(PeerEvent(B))
    BY <1>0, <2>1, EventsMade, DeliverTraffic, Zenon
  <2> QED  BY <2>1, <2>2
<1>3. CASE Connect
  <2>1. /\ inbox' = Append(inbox, [type |-> "Connected"])
        /\ UNCHANGED <<block_inventory, toPeer>>
    BY <1>3 DEF Connect, Deliver, logic
  <2>2. inbox' \in Seq(PeerEvent(B))
    BY <2>1, EventsMade, DeliverTraffic, Zenon
  <2> QED  BY <2>1, <2>2
<1>4. CASE Disconnect
  <2>1. PICK n \in 0..Len(inbox) : inbox' = SubSeq(inbox, 1, n) \o <<[type |-> "Disconnected"]>>
    BY <1>4 DEF Disconnect
  <2>2. SubSeq(inbox, 1, n) \in Seq(PeerEvent(B))
    OBVIOUS
  <2>3. <<[type |-> "Disconnected"]>> \in Seq(PeerEvent(B))
    BY EventsMade
  <2>4. inbox' \in Seq(PeerEvent(B))
    BY <2>1, <2>2, <2>3
  <2>5. toPeer' = <<>> /\ block_inventory' = block_inventory
    BY <1>4 DEF Disconnect, logic
  <2> QED  BY <1>0, <2>4, <2>5
<1> QED  BY <1>1, <1>2, <1>3, <1>4

(* The logic uses the block manager only through its handlers: every step   *)
(* of the whole is a step of the block manager or leaves it alone.          *)
LEMMA BlockManagerSteps ==
    ASSUME LTypeOK, [LNext]_lvars
    PROVE  [Next]_vars
<1>1. CASE OnConnected \/ OnDisconnected \/ OnInv \/ FinishBlock
  BY <1>1 DEF OnConnected, OnDisconnected, OnInv, FinishBlock
<1>2. CASE OnOrphan
  BY <1>2 DEF OnOrphan, Next
<1>3. CASE OnBlockEvent
  <2>1. Head(inbox).block \in Block /\ OnBlock(Head(inbox).block)
    BY <1>3, EventFacts DEF OnBlockEvent, LTypeOK, Traffic
  <2> QED  BY <2>1 DEF Next
<1>4. CASE BlockManagerStep
  BY <1>4 DEF BlockManagerStep, Next
<1>5. CASE WriterStep
  BY <1>5 DEF WriterStep, Next
<1>6. CASE PeerServe \/ PeerMine \/ PeerReorg \/ TxInv \/ Connect \/ Disconnect
  BY <1>6 DEF PeerServe, PeerMine, PeerReorg, TxInv, Connect, Disconnect
<1>7. CASE UNCHANGED lvars
  BY <1>7 DEF lvars
<1> QED  BY <1>1, <1>2, <1>3, <1>4, <1>5, <1>6, <1>7 DEF LNext, Handler

(* The timestamp that is remembered is one of a header.                     *)
LEMMA StartTimestampType ==
    ASSUME TypeOK, LTypeOK
    PROVE  StartTimestamp \in Nat \cup {None}
<1>1. CASE start_block_timestamp # None \/ ~DetectOrphans \/ Len(block_headers) <= Threshold
  BY <1>1 DEF StartTimestamp, LTypeOK
<1>2. CASE ~(start_block_timestamp # None \/ ~DetectOrphans \/ Len(block_headers) <= Threshold)
  <2> DEFINE T == {Timestamp[h] : h \in Headers}
  <2>1. block_headers \in Seq(Block) /\ Len(block_headers) \in Nat /\ Len(block_headers) > Threshold
    BY <1>2, LogicAssumption DEF TypeOK
  <2>2. 1 \in DOMAIN block_headers /\ Headers \subseteq Block
    BY <2>1, LogicAssumption DEF Headers
  <2>3. T \in SUBSET Nat /\ T # {}
    <3>1. T \subseteq Nat
      BY <2>2, LogicAssumption
    <3>2. block_headers[1] \in Headers
      BY <2>2 DEF Headers
    <3> QED  BY <3>1, <3>2
  <2>4. Min(T) \in Nat
    BY <2>3, MinIsLeast
  <2> QED  BY <1>2, <2>4 DEF StartTimestamp
<1> QED  BY <1>1, <1>2

(* What a peer announces behind a hash are blocks of its chain.             *)
LEMMA BehindType ==
    ASSUME NEW h, tip \in DOMAIN Chain
    PROVE  Behind(h) \in Seq(Block) /\ Behind(h) \in Seq(Range(Chain[tip]))
<1> DEFINE c == Chain[tip]
           known == {i \in DOMAIN c : c[i] = h}
           from == IF known = {} THEN 1 ELSE Min(known) + 1
           to == Min({Len(c), from + MaxInv - 1})
<1>1. c \in Seq(Block) /\ Len(c) \in Nat /\ DOMAIN c = 1..Len(c)
  BY LogicAssumption
<1>2. from \in Nat \ {0}
  <2>1. CASE known = {}
    BY <2>1
  <2>2. CASE known # {}
    <3>1. known \in SUBSET Nat
      BY <1>1
    <3>2. Min(known) \in known
      BY <2>2, <3>1, MinIsLeast
    <3>3. Min(known) \in Nat
      BY <3>1, <3>2
    <3> QED  BY <2>2, <3>3
  <2> QED  BY <2>1, <2>2
<1> HIDE DEF from
<1>3. to \in Nat /\ to <= Len(c)
  <2>1. {Len(c), from + MaxInv - 1} \in SUBSET Nat
    BY <1>1, <1>2, LogicAssumption
  <2>2. to \in {Len(c), from + MaxInv - 1} /\ to <= Len(c)
    BY <2>1, MinIsLeast
  <2> QED  BY <2>1, <2>2
<1> HIDE DEF to
<1>4. SubSeq(c, from, to) \in Seq(Block)
  BY <1>1, <1>2, <1>3
<1>5. SubSeq(c, from, to) \in Seq(Range(c))
  <2>1. \A i \in 1..Len(c) : c[i] \in Range(c)
    BY <1>1 DEF Range
  <2>2. ASSUME NEW S, NEW s, Len(s) \in Nat, \A i \in 1..Len(s) : s[i] \in S,
               NEW a \in Nat \ {0}, NEW b \in Nat, b <= Len(s)
        PROVE  SubSeq(s, a, b) \in Seq(S)
    BY <2>2
  <2> QED  BY <1>1, <1>2, <1>3, <2>1, <2>2
<1>6. Behind(h) = SubSeq(c, from, to)
  BY DEF Behind, from, to
<1> QED  BY <1>4, <1>5, <1>6

(* The tip of a chain is its last block.                                    *)
LEMMA TipIsBlock ==
    ASSUME NEW t \in DOMAIN Chain
    PROVE  /\ Chain[t] \in Seq(Block) /\ Len(Chain[t]) \in Nat \ {0} /\ DOMAIN Chain[t] = 1..Len(Chain[t])
           /\ Chain[t][Len(Chain[t])] = t /\ t \in Block /\ <<t>> \in Seq(Block)
<1>1. ASSUME NEW c \in Seq(Block), c # <<>>
      PROVE  Len(c) \in Nat \ {0} /\ DOMAIN c = 1..Len(c) /\ c[Len(c)] \in Block
  BY <1>1
<1>2. Chain[t] \in Seq(Block) /\ Chain[t] # <<>> /\ Chain[t][Len(Chain[t])] = t
  BY LogicAssumption
<1>3. t \in Block
  BY <1>1, <1>2
<1> QED  BY <1>1, <1>2, <1>3

(* Every step of the logic, of the peer and of the link keeps the types.    *)
LEMMA LNextType ==
    ASSUME TypeOK, TypeOK', LTypeOK, [LNext]_lvars
    PROVE  LTypeOK'
<1>0. Traffic(Block, Hash) /\ inbox \in Seq(PeerEvent(Block)) /\ tip \in DOMAIN Chain
  BY DEF LTypeOK, Traffic
<1>1. LastKnown(block_headers') \in Hash
  BY LastKnownType DEF TypeOK
<1>2. \A h \in Hash : Behind(h) \in Seq(Block)
  BY <1>0, BehindType
<1>3. ASSUME PeerMine \/ PeerReorg  PROVE tip' \in DOMAIN Chain /\ tip' \in Block
  <2>1. tip' \in DOMAIN Chain
    BY <1>3 DEF PeerMine, PeerReorg
  <2> QED  BY <2>1, TipIsBlock
<1>4. Traffic(Block, Hash)'
  <2>1. CASE Handler \/ WriterStep \/ UNCHANGED lvars
    BY <1>0, <1>1, <2>1, HandlerTraffic
  <2>2. CASE PeerServe
    BY <1>0, <1>2, <2>2, ServeTraffic
  <2>3. CASE PeerMine \/ PeerReorg \/ TxInv \/ Connect \/ Disconnect
    BY <1>0, <1>3, <2>3, LinkTraffic
  <2> QED  BY <2>1, <2>2, <2>3 DEF LNext
<1> USE DEF LTypeOK
<1>5. CASE OnConnected \/ OnDisconnected \/ OnInv
  BY <1>4, <1>5 DEF OnConnected, OnDisconnected, OnInv, peer
<1>6. CASE OnOrphan
  <2>1. /\ state' \in {"Starting", "Connected", "Disconnected", "Ready"}
        /\ start_block_timestamp' = StartTimestamp /\ UNCHANGED <<handling, connected, link, tip, drops>>
    BY <1>6 DEF OnOrphan, CheckReady, peer
  <2> QED  BY <1>4, <2>1, StartTimestampType
<1>7. CASE OnBlockEvent
  <2>1. handling' \in Block
    BY <1>0, <1>7, EventFacts DEF OnBlockEvent
  <2>2. start_block_timestamp' = StartTimestamp /\ UNCHANGED <<state, connected, link, tip, drops>>
    BY <1>7 DEF OnBlockEvent, peer
  <2> QED  BY <1>4, <2>1, <2>2, StartTimestampType
<1>8. CASE FinishBlock
  <2>1. /\ state' \in {"Starting", "Connected", "Disconnected", "Ready"}
        /\ handling' = None /\ UNCHANGED <<start_block_timestamp, connected, link, tip, drops>>
    BY <1>8 DEF FinishBlock, CheckReady, peer
  <2> QED  BY <1>4, <2>1
<1>9. CASE BlockManagerStep \/ WriterStep \/ PeerServe \/ TxInv \/ UNCHANGED lvars
  BY <1>4, <1>9 DEF BlockManagerStep, WriterStep, PeerServe, TxInv, lvars, logic, peer
<1>10. CASE PeerMine \/ PeerReorg
  BY <1>3, <1>4, <1>10 DEF PeerMine, PeerReorg, logic
<1>11. CASE Connect \/ Disconnect
  BY <1>4, <1>11 DEF Connect, Disconnect, logic
<1> QED  BY <1>5, <1>6, <1>7, <1>8, <1>9, <1>10, <1>11 DEF LNext, Handler

(* The invariant of the types, with that of the block manager.              *)
LInv == IInv /\ LTypeOK

(* A node that starts.                                                      *)
LEMMA LInitInv == LInit => LInv
<1> SUFFICES ASSUME LInit  PROVE LInv
  OBVIOUS
<1>1. IInv
  BY InitIInv DEF LInit
<1>2. ASSUME NEW S  PROVE <<>> \in Seq(S)
  OBVIOUS
<1>3. Traffic(Block, Hash)
  BY <1>2, Zenon DEF LInit, Traffic
<1>4. LTypeOK
  BY <1>3, LogicAssumption DEF LInit, LTypeOK
<1> QED  BY <1>1, <1>4 DEF LInv

(* LInv is inductive.                                                       *)
LEMMA LNextInv ==
    ASSUME LInv, [LNext]_lvars
    PROVE  LInv'
<1>1. [Next]_vars
  BY BlockManagerSteps DEF LInv
<1>2. IInv'
  BY <1>1, NextIInv DEF LInv
<1>3. LTypeOK'
  BY <1>2, LNextType DEF LInv, IInv
<1> QED  BY <1>2, <1>3 DEF LInv

(* The logic, its peer and the link keep every variable in its type: what   *)
(* arrives are blocks, and what is asked for are hashes.                    *)
THEOREM LogicTypes == LSpec => []LInv
<1>1. LInit => LInv
  BY LInitInv
<1>2. LInv /\ [LNext]_lvars => LInv'
  BY LNextInv
<1> QED  BY <1>1, <1>2, PTL DEF LSpec

(* The synchronisation logic uses the block manager as BlockManager says:   *)
(* what is proved of the block manager holds under the logic too.           *)
THEOREM UsesBlockManager == LSpec => Spec
<1>1. LInit => Init
  BY DEF LInit
<1>2. LInv /\ [LNext]_lvars => [Next]_vars
  BY BlockManagerSteps DEF LInv
<1> QED  BY <1>1, <1>2, LogicTypes, PTL DEF LSpec, Spec

-----------------------------------------------------------------------------
(* Nothing wanted is forgotten.  The inductive invariant: as long as there  *)
(* are hashes in the inventory and the peer is there, a block is asked for, *)
(* is on its way, or is being handled.                                      *)
HasType(s, ty) == \E i \in DOMAIN s : s[i].type = ty
BlockUnderWay ==
    \/ handling # None
    \/ HasType(inbox, "Block")
    \/ HasType(toPeer, "GetData")
Requested == connected /\ link = "up" /\ block_inventory # <<>> => BlockUnderWay

(* A request that can be sent asks for a block while there are hashes.      *)
LEMMA RequestAsks ==
    ASSUME LTypeOK, NEW inv \in Seq(Seq(Block)), NEW h, RequestNextBlock(inv, h),
           connected', link = "up", block_inventory' # <<>>
    PROVE  HasType(toPeer', "GetData")
<1>1. PICK b \in Block : toPeer' = Append(toPeer, [type |-> "GetData", hash |-> b])
  BY RequestFacts
<1>2. toPeer \in Seq(Message(Block, Hash)) /\ [type |-> "GetData", hash |-> b].type = "GetData"
  BY DEF LTypeOK, Traffic
<1>3. ASSUME NEW S, NEW s \in Seq(S), NEW e
      PROVE  Len(s) + 1 \in DOMAIN Append(s, e) /\ Append(s, e)[Len(s) + 1] = e
  OBVIOUS
<1> QED  BY <1>1, <1>2, <1>3 DEF HasType

(* What stays in a queue from which the first element is taken, or to which *)
(* one is added.                                                            *)
LEMMA TypesKept ==
    ASSUME NEW S, NEW s \in Seq(S), NEW ty
    PROVE  /\ \A e : HasType(s, ty) => HasType(Append(s, e), ty)
           /\ \A e : e.type = ty => HasType(Append(s, e), ty)
           /\ s # <<>> /\ Head(s).type # ty /\ HasType(s, ty) => HasType(Tail(s), ty)
<1>0. Len(s) \in Nat /\ DOMAIN s = 1..Len(s)
  OBVIOUS
<1>1. ASSUME NEW e, NEW i \in DOMAIN s, s[i].type = ty
      PROVE  HasType(Append(s, e), ty)
  <2>1. i \in DOMAIN Append(s, e) /\ Append(s, e)[i] = s[i]
    BY <1>0
  <2> QED  BY <1>1, <2>1 DEF HasType
<1>2. ASSUME NEW e, e.type = ty
      PROVE  HasType(Append(s, e), ty)
  <2>1. Len(s) + 1 \in DOMAIN Append(s, e) /\ Append(s, e)[Len(s) + 1] = e
    BY <1>0
  <2> QED  BY <1>2, <2>1 DEF HasType
<1>3. ASSUME s # <<>>, Head(s).type # ty, NEW i \in DOMAIN s, s[i].type = ty
      PROVE  HasType(Tail(s), ty)
  <2>1. Head(s) = s[1]
    BY <1>3
  <2>2. i # 1
    BY <1>3, <2>1
  <2>3. i - 1 \in DOMAIN Tail(s) /\ Tail(s)[i - 1] = s[i]
    BY <1>0, <2>2
  <2> QED  BY <1>3, <2>3 DEF HasType
<1> QED  BY <1>1, <1>2, <1>3, Zenon DEF HasType

(* Every step keeps a block under way.                                      *)
LEMMA NextRequested ==
    ASSUME LInv, Requested, [LNext]_lvars
    PROVE  Requested'
<1>0. /\ LTypeOK /\ inbox \in Seq(PeerEvent(Block)) /\ toPeer \in Seq(Message(Block, Hash))
      /\ block_inventory \in Seq(Seq(Block))
  BY DEF LInv, LTypeOK, Traffic
<1>a. \A e : HasType(inbox, "Block") => HasType(Append(inbox, e), "Block")
  BY <1>0, TypesKept
<1>1. CASE OnConnected
  <2>1. RequestNextBlock(block_inventory, None) /\ link' = link
    BY <1>1 DEF OnConnected, peer
  <2> QED  BY <1>0, <2>1, RequestAsks DEF Requested, BlockUnderWay
<1>2. CASE OnDisconnected
  BY <1>2 DEF OnDisconnected, Requested
<1>3. CASE OnInv
  <2>1. /\ Event("Inv") /\ Head(inbox).objects \in Seq(Block) /\ inbox' = Tail(inbox) /\ inbox # <<>>
        /\ Head(inbox).type = "Inv" /\ link' = link /\ connected' = connected /\ handling' = handling
    BY <1>0, <1>3, EventFacts DEF OnInv, peer
  <2>2. CASE block_inventory = <<>>
    <3>1. RequestNextBlock(Append(block_inventory, Head(inbox).objects), None)
      BY <1>3, <2>2 DEF OnInv
    <3>2. Append(block_inventory, Head(inbox).objects) \in Seq(Seq(Block))
      BY <1>0, <2>1
    <3>3. connected' /\ link = "up" /\ block_inventory' # <<>> =>
             HasType(toPeer', "GetData")
      BY <1>0, <3>1, <3>2, RequestAsks
    <3> QED  BY <2>1, <3>3 DEF Requested, BlockUnderWay
  <2>3. CASE block_inventory # <<>>
    <3>1. toPeer' = toPeer
      BY <1>3, <2>3 DEF OnInv
    <3>2. HasType(inbox, "Block") => HasType(inbox', "Block")
      BY <1>0, <2>1, TypesKept
    <3> QED  BY <2>1, <2>3, <3>1, <3>2 DEF Requested, BlockUnderWay
  <2> QED  BY <2>2, <2>3
<1>4. CASE OnOrphan
  <2>1. RequestNextBlock(<<>>, None) /\ link' = link
    BY <1>4 DEF OnOrphan, peer
  <2>2. <<>> \in Seq(Seq(Block))
    OBVIOUS
  <2> QED  BY <1>0, <2>1, <2>2, RequestAsks DEF Requested, BlockUnderWay
<1>5. CASE OnBlockEvent
  <2>1. handling' \in Block
    BY <1>0, <1>5, EventFacts DEF OnBlockEvent
  <2>2. handling' # None
    BY <2>1, BlockAssumption
  <2> QED  BY <2>2 DEF Requested, BlockUnderWay
<1>6. CASE FinishBlock
  <2>1. RequestNextBlock(block_inventory, handling) /\ link' = link
    BY <1>6 DEF FinishBlock, peer
  <2> QED  BY <1>0, <2>1, RequestAsks DEF Requested, BlockUnderWay
<1>7. CASE BlockManagerStep \/ WriterStep \/ UNCHANGED lvars
  <2>1. UNCHANGED <<connected, link, block_inventory, handling, inbox, toPeer>>
    BY <1>7 DEF BlockManagerStep, WriterStep, lvars, logic, peer
  <2> QED  BY <2>1 DEF Requested, BlockUnderWay
<1>8. CASE PeerServe
  <2>1. /\ toPeer # <<>> /\ toPeer' = Tail(toPeer) /\ Head(toPeer) \in Message(Block, Hash)
        /\ UNCHANGED <<connected, link, block_inventory, handling>>
    BY <1>0, <1>8 DEF PeerServe, logic, peer
  <2>2. CASE Head(toPeer).type = "GetBlocks"
    <3>1. \/ inbox' = inbox
          \/ inbox' = Append(inbox, [type |-> "Inv", objects |-> Behind(Head(toPeer).hash)])
      BY <1>8, <2>2 DEF PeerServe, Deliver
    <3>2. HasType(inbox, "Block") => HasType(inbox', "Block")
      BY <1>a, <3>1, Zenon
    <3>3. HasType(toPeer, "GetData") => HasType(toPeer', "GetData")
      BY <1>0, <2>1, <2>2, TypesKept
    <3> QED  BY <2>1, <3>2, <3>3 DEF Requested, BlockUnderWay
  <2>3. CASE Head(toPeer).type = "GetData"
    <3>1. inbox' = Append(inbox, [type |-> "Block", block |-> Head(toPeer).hash])
      BY <1>8, <2>3 DEF PeerServe, Deliver
    <3>2. [type |-> "Block", block |-> Head(toPeer).hash].type = "Block"
      OBVIOUS
    <3>3. HasType(inbox', "Block")
      BY <1>0, <3>1, <3>2, TypesKept
    <3> QED  BY <3>3 DEF Requested, BlockUnderWay
  <2> QED  BY <2>1, <2>2, <2>3, MessageFields
<1>9. CASE PeerMine \/ PeerReorg \/ TxInv
  <2>1. UNCHANGED <<connected, link, block_inventory, handling, toPeer>>
    BY <1>9 DEF PeerMine, PeerReorg, TxInv, logic, peer
  <2>2. inbox' = inbox \/ \E e : inbox' = Append(inbox, e)
    BY <1>9 DEF PeerMine, PeerReorg, TxInv, Announce, Deliver
  <2>3. HasType(inbox, "Block") => HasType(inbox', "Block")
    BY <1>a, <2>2, Zenon
  <2> QED  BY <2>1, <2>3 DEF Requested, BlockUnderWay
<1>10. CASE Connect \/ Disconnect
  BY <1>10 DEF Connect, Disconnect, Requested, logic
<1> QED  BY <1>1, <1>2, <1>3, <1>4, <1>5, <1>6, <1>7, <1>8, <1>9, <1>10 DEF LNext, Handler

(* on_inv requests nothing while the inventory has hashes; still none of    *)
(* them is forgotten: with a live link, when nothing is under way, the      *)
(* inventory is empty.  For every peer, reorganisations, lost connections   *)
(* and overlapping announcements included.                                  *)
THEOREM NoneForgotten == LSpec => []NothingForgotten
<1>1. LInit => Requested
  BY DEF LInit, Requested
<1>2. LInv /\ Requested /\ [LNext]_lvars => Requested'
  BY NextRequested
<1>3. LInv /\ Requested => NothingForgotten
  BY DEF LInv, LTypeOK, Requested, BlockUnderWay, HasType, NothingForgotten, Quiescent
<1> QED  BY <1>1, <1>2, <1>3, LogicTypes, PTL DEF LSpec

-----------------------------------------------------------------------------
(* The first branch.  OnBranch(t): the chain with tip t is on the branch    *)
(* the peer was on when the node started; Wanted(t): the blocks of that     *)
(* chain above the start block.                                             *)
OnBranch(t) == FirstTip \in Range(Chain[t])
Wanted(t) == {h \in Range(Chain[t]) : Depth[h] > 0}

(* What is assumed of the peer's chains: their blocks are linked; the first *)
(* one has the start block; a chain that is shorter than one of the first   *)
(* branch, and at least as long as the first, is the beginning of it (the   *)
(* branch is one line, and a peer that has left it does not return to it);  *)
(* the heights fit an i32; and no block of the branch is older than the     *)
(* oldest of the first Threshold + 1 blocks above the start block.          *)
ChainsLinked ==
    \A t \in DOMAIN Chain : \A i \in 1..(Len(Chain[t]) - 1) : Prev[Chain[t][i + 1]] = Chain[t][i]
OneLine ==
    \A t, u \in DOMAIN Chain :
        /\ Len(Chain[FirstTip]) <= Len(Chain[t]) /\ Len(Chain[t]) < Len(Chain[u]) /\ OnBranch(u)
        => OnBranch(t) /\ \A i \in 1..Len(Chain[t]) : Chain[u][i] = Chain[t][i]
HeightsFit ==
    /\ StartHeight + 1 <= MaxI32
    /\ \A t \in DOMAIN Chain : OnBranch(t) => \A h \in Wanted(t) : StartHeight + Depth[h] + 1 <= MaxI32
NoneOlder ==
    \A t \in DOMAIN Chain : OnBranch(t) =>
        \A h \in Wanted(t) : \E g \in Wanted(t) : Depth[g] <= Threshold + 1 /\ Timestamp[g] <= Timestamp[h]
PeerSettings ==
    /\ StartHash \in Range(Chain[FirstTip])
    /\ ChainsLinked /\ OneLine /\ HeightsFit /\ NoneOlder

(* The inductive invariant.  Always: the peer's chain does not get shorter  *)
(* than the first one, and the tables are empty until the headers are       *)
(* loaded.  On the first branch: the headers are wanted blocks, at the      *)
(* depths of their places, everything asked for, announced, on its way,     *)
(* waiting or in hand is wanted too, a getblocks starts from a block of the *)
(* peer's chain, and the remembered timestamp is not above one of the first *)
(* Threshold + 1 headers.                                                   *)
FreshStart == mode = "setup" => Rows = {} /\ chan = <<>>
HeadersWanted ==
    /\ ChainLinked
    /\ \A i \in DOMAIN block_headers : block_headers[i] \in Wanted(tip) /\ Depth[block_headers[i]] = i
    /\ height <= MaxI32
QueueWanted ==
    /\ \A h \in Hash : block_queue[h] # None => block_queue[h].block \in Wanted(tip)
    /\ pc \in {"write", "process"} => cur.block \in Wanted(tip)
TrafficWanted == Traffic(Wanted(tip), Wanted(tip) \cup {StartHash})
TimestampLow ==
    start_block_timestamp # None =>
        /\ Len(block_headers) > Threshold
        /\ \A i \in 1..(Threshold + 1) : start_block_timestamp <= Timestamp[block_headers[i]]

Synced == HeadersWanted /\ QueueWanted /\ TrafficWanted /\ TimestampLow
BranchInv ==
    /\ tip = FirstTip \/ Len(Chain[FirstTip]) < Len(Chain[tip])
    /\ FreshStart
    /\ OnBranch(tip) => Synced

(* The depths of the blocks of a chain rise by one: by induction on the     *)
(* place in the chain.                                                      *)
LEMMA ChainDepths ==
    ASSUME PeerSettings, NEW t \in DOMAIN Chain
    PROVE  \A i \in 1..Len(Chain[t]) : /\ Chain[t][i] \in Hash /\ Depth[Chain[t][i]] \in Int
                                       /\ Depth[Chain[t][i]] = Depth[Chain[t][1]] + i - 1
<1> DEFINE c == Chain[t]
           T == {i \in 1..Len(c) : Depth[c[i]] # Depth[c[1]] + i - 1}
<1>1. c \in Seq(Block) /\ Len(c) \in Nat \ {0} /\ \A i \in 1..Len(c) : c[i] \in Block
  BY TipIsBlock
<1>2. \A i \in 1..(Len(c) - 1) : Prev[c[i + 1]] = c[i]
  BY DEF PeerSettings, ChainsLinked
<1> HIDE DEF c
<1>3. \A i \in 1..Len(c) : c[i] \in Hash /\ Depth[c[i]] \in Int
  BY <1>1, BlockAssumption
<1>4. \A i \in 1..(Len(c) - 1) : Depth[c[i + 1]] = Depth[c[i]] + 1
  BY <1>1, <1>2, BlockAssumption
<1>5. T = {}
  <2> SUFFICES ASSUME T # {}  PROVE FALSE
    OBVIOUS
  <2>1. T \in SUBSET Nat
    BY <1>1
  <2>2. PICK k \in T : \A j \in T : k <= j
    BY <2>1, LeastNat
  <2>3. k \in 1..Len(c) /\ Depth[c[k]] # Depth[c[1]] + k - 1
    OBVIOUS
  <2>4. 1 \in 1..Len(c) /\ Depth[c[1]] \in Int
    BY <1>1, <1>3
  <2>5. k # 1
    BY <2>3, <2>4
  <2>6. k - 1 \in 1..(Len(c) - 1) /\ k - 1 \in 1..Len(c) /\ (k - 1) + 1 = k
    BY <1>1, <2>3, <2>5
  <2>7. k - 1 \notin T
    BY <2>2, <2>6
  <2>8. Depth[c[k - 1]] = Depth[c[1]] + (k - 1) - 1
    BY <2>6, <2>7
  <2>9. Depth[c[k]] = Depth[c[k - 1]] + 1
    BY <1>4, <2>6
  <2> QED  BY <2>3, <2>4, <2>8, <2>9
<1> QED  BY <1>3, <1>5 DEF c

(* A chain has one block of a depth.                                        *)
LEMMA SameDepth ==
    ASSUME PeerSettings, NEW t \in DOMAIN Chain,
           NEW g \in Range(Chain[t]), NEW h \in Range(Chain[t]), Depth[g] = Depth[h]
    PROVE  g = h
<1>1. DOMAIN Chain[t] = 1..Len(Chain[t]) /\ Len(Chain[t]) \in Nat \ {0}
  BY TipIsBlock
<1>2. PICK i \in 1..Len(Chain[t]), j \in 1..Len(Chain[t]) : g = Chain[t][i] /\ h = Chain[t][j]
  BY <1>1 DEF Range
<1>3. /\ Depth[g] = Depth[Chain[t][1]] + i - 1 /\ Depth[h] = Depth[Chain[t][1]] + j - 1
      /\ Depth[Chain[t][1]] \in Int
  BY <1>1, <1>2, ChainDepths
<1>4. i = j
  <2>1. ASSUME NEW d \in Int, NEW a \in Int, NEW b \in Int, d + a - 1 = d + b - 1  PROVE a = b
    BY <2>1
  <2>2. i \in Int /\ j \in Int
    BY <1>1
  <2> QED  BY <1>3, <2>1, <2>2
<1> QED  BY <1>2, <1>4

(* The chains of the branch that the peer can have begin with the first one *)
(* and so have the start block.                                             *)
LEMMA StartOnBranch ==
    ASSUME PeerSettings, NEW t \in DOMAIN Chain, OnBranch(t),
           t = FirstTip \/ Len(Chain[FirstTip]) < Len(Chain[t])
    PROVE  \E k \in 1..Len(Chain[FirstTip]) : k \in 1..Len(Chain[t]) /\ Chain[t][k] = StartHash
<1>1. /\ FirstTip \in DOMAIN Chain
      /\ DOMAIN Chain[FirstTip] = 1..Len(Chain[FirstTip]) /\ Len(Chain[FirstTip]) \in Nat \ {0}
      /\ Len(Chain[t]) \in Nat \ {0}
  BY TipIsBlock, LogicAssumption
<1>2. PICK k \in 1..Len(Chain[FirstTip]) : Chain[FirstTip][k] = StartHash
  BY <1>1 DEF PeerSettings, Range
<1>3. CASE t = FirstTip
  BY <1>2, <1>3
<1>4. CASE Len(Chain[FirstTip]) < Len(Chain[t])
  <2>1. \A i \in 1..Len(Chain[FirstTip]) : Chain[t][i] = Chain[FirstTip][i]
    BY <1>1, <1>4 DEF PeerSettings, OneLine
  <2>2. k \in 1..Len(Chain[t]) /\ Chain[t][k] = StartHash
    BY <1>1, <1>2, <1>4, <2>1
  <2> QED  BY <1>2, <2>2
<1> QED  BY <1>3, <1>4

(* The peer's chain grows along the branch: what was wanted is wanted, and  *)
(* the new tip is.                                                          *)
LEMMA BranchGrows ==
    ASSUME PeerSettings, NEW t \in DOMAIN Chain, NEW u \in DOMAIN Chain,
           t = FirstTip \/ Len(Chain[FirstTip]) < Len(Chain[t]),
           Len(Chain[t]) < Len(Chain[u])
    PROVE  /\ Len(Chain[FirstTip]) < Len(Chain[u])
           /\ OnBranch(u) => OnBranch(t) /\ Wanted(t) \subseteq Wanted(u) /\ u \in Wanted(u)
<1>1. /\ FirstTip \in DOMAIN Chain /\ Len(Chain[FirstTip]) \in Nat \ {0}
      /\ DOMAIN Chain[t] = 1..Len(Chain[t]) /\ Len(Chain[t]) \in Nat \ {0}
      /\ DOMAIN Chain[u] = 1..Len(Chain[u]) /\ Len(Chain[u]) \in Nat \ {0}
      /\ Chain[u][Len(Chain[u])] = u
  BY TipIsBlock, LogicAssumption
<1>2. Len(Chain[FirstTip]) <= Len(Chain[t]) /\ Len(Chain[FirstTip]) < Len(Chain[u])
  BY <1>1
<1>3. ASSUME OnBranch(u)
      PROVE  OnBranch(t) /\ Wanted(t) \subseteq Wanted(u) /\ u \in Wanted(u)
  <2>1. OnBranch(t) /\ \A i \in 1..Len(Chain[t]) : Chain[u][i] = Chain[t][i]
    BY <1>2, <1>3 DEF PeerSettings, OneLine
  <2>2. Range(Chain[t]) \subseteq Range(Chain[u])
    BY <1>1, <2>1 DEF Range
  <2>3. u \in Range(Chain[u])
    BY <1>1 DEF Range
  <2>4. PICK k \in 1..Len(Chain[FirstTip]) : k \in 1..Len(Chain[u]) /\ Chain[u][k] = StartHash
    BY <1>2, <1>3, StartOnBranch
  <2>5. /\ Depth[StartHash] = Depth[Chain[u][1]] + k - 1 /\ Depth[Chain[u][1]] \in Int
        /\ Depth[u] = Depth[Chain[u][1]] + Len(Chain[u]) - 1
    <3>1. 1 \in 1..Len(Chain[u]) /\ Len(Chain[u]) \in 1..Len(Chain[u])
      BY <1>1
    <3> QED  BY <1>1, <2>4, <3>1, ChainDepths
  <2>6. Depth[u] > 0
    BY <1>1, <1>2, <2>4, <2>5, BlockAssumption
  <2> QED  BY <2>1, <2>2, <2>3, <2>6 DEF Wanted
<1> QED  BY <1>2, <1>3

(* What a peer announces behind a block of its chain, from the start block  *)
(* on, are later blocks of its chain.                                       *)
LEMMA BehindKnown ==
    ASSUME PeerSettings, tip \in DOMAIN Chain, NEW h \in Range(Chain[tip]), Depth[h] >= 0
    PROVE  Behind(h) \in Seq(Wanted(tip))
<1> DEFINE c == Chain[tip]
           known == {i \in DOMAIN c : c[i] = h}
           from == Min(known) + 1
           to == Min({Len(c), from + MaxInv - 1})
<1>1. c \in Seq(Block) /\ Len(c) \in Nat \ {0} /\ DOMAIN c = 1..Len(c)
  BY TipIsBlock
<1>2. \E i \in 1..Len(c) : c[i] = h
  BY <1>1 DEF Range
<1>3. Depth[h] \in Int /\ Depth[h] >= 0
  <2>1. h \in Hash
    BY <1>1, <1>2, BlockAssumption
  <2> QED  BY <2>1, BlockAssumption
<1>4. known # {} /\ known \in SUBSET Nat
  BY <1>1, <1>2
<1>5. Min(known) \in known
  BY <1>4, MinIsLeast
<1>6. PICK k \in 1..Len(c) : k = Min(known) /\ c[k] = h
  BY <1>1, <1>5
<1>7. from = k + 1
  BY <1>6
<1> HIDE DEF from
<1>8. to \in Nat /\ to <= Len(c)
  <2>1. {Len(c), from + MaxInv - 1} \in SUBSET Nat
    BY <1>1, <1>7, LogicAssumption
  <2>2. to \in {Len(c), from + MaxInv - 1} /\ to <= Len(c)
    BY <2>1, MinIsLeast
  <2> QED  BY <2>1, <2>2
<1> HIDE DEF to
<1>9. Behind(h) = SubSeq(c, k + 1, to)
  BY <1>4, <1>7 DEF Behind, from, to
<1>10. \A i \in (k + 1)..to : c[i] \in Wanted(tip)
  <2> SUFFICES ASSUME NEW i \in (k + 1)..to  PROVE c[i] \in Wanted(tip)
    OBVIOUS
  <2>1. i \in 1..Len(c) /\ i > k /\ 1 \in 1..Len(c)
    BY <1>1, <1>8
  <2>2. /\ Depth[c[i]] = Depth[c[1]] + i - 1 /\ Depth[h] = Depth[c[1]] + k - 1
        /\ Depth[c[1]] \in Int
    BY <1>6, <2>1, ChainDepths
  <2>3. Depth[c[i]] > 0
    BY <1>3, <2>1, <2>2
  <2> QED  BY <1>1, <2>1, <2>3 DEF Wanted, Range
<1> HIDE DEF c, known
<1>11. ASSUME NEW S, NEW s, NEW a \in Nat \ {0}, NEW b \in Nat, \A i \in a..b : s[i] \in S
       PROVE  SubSeq(s, a, b) \in Seq(S)
  BY <1>11
<1>12. k + 1 \in Nat \ {0}
  OBVIOUS
<1>13. SubSeq(c, k + 1, to) \in Seq(Wanted(tip))
  BY <1>8, <1>10, <1>11, <1>12
<1> QED  BY <1>9, <1>13

(* On the first branch that holds behind every wanted block and the start   *)
(* block.                                                                   *)
LEMMA BehindWanted ==
    ASSUME PeerSettings, tip \in DOMAIN Chain, OnBranch(tip),
           tip = FirstTip \/ Len(Chain[FirstTip]) < Len(Chain[tip]),
           NEW h \in Wanted(tip) \cup {StartHash}
    PROVE  Behind(h) \in Seq(Wanted(tip))
<1>1. DOMAIN Chain[tip] = 1..Len(Chain[tip])
  BY TipIsBlock
<1>2. h \in Range(Chain[tip])
  <2>1. CASE h \in Wanted(tip)
    BY <2>1 DEF Wanted
  <2>2. CASE h = StartHash
    <3>1. \E k \in 1..Len(Chain[tip]) : Chain[tip][k] = StartHash
      BY StartOnBranch
    <3> QED  BY <1>1, <2>2, <3>1 DEF Range
  <2> QED  BY <2>1, <2>2
<1>3. Depth[h] >= 0
  <2>1. h \in Block
    BY <1>2, TipIsBlock DEF Range
  <2> QED  BY <2>1, BlockAssumption DEF Wanted
<1> QED  BY <1>2, <1>3, BehindKnown

(* On the branch the last processed hash is the last header, at the depth   *)
(* that is the number of headers.                                           *)
LEMMA LastIsKnown ==
    ASSUME TypeOK, HeadersWanted
    PROVE  /\ last_hash_processed = LastKnown(block_headers)
           /\ last_hash_processed \in Wanted(tip) \cup {StartHash}
           /\ Depth[last_hash_processed] = Len(block_headers)
<1>1. block_headers \in Seq(Block) /\ Len(block_headers) \in Nat /\ DOMAIN block_headers = 1..Len(block_headers)
  BY DEF TypeOK
<1>2. last_hash_processed = IF block_headers = <<>> THEN StartHash ELSE block_headers[Len(block_headers)]
  BY DEF HeadersWanted, ChainLinked
<1>3. CASE block_headers = <<>>
  BY <1>2, <1>3, BlockAssumption DEF LastKnown
<1>4. CASE block_headers # <<>>
  <2>1. Len(block_headers) \in DOMAIN block_headers
    BY <1>1, <1>4
  <2>2. block_headers[Len(block_headers)] \in Wanted(tip) /\ Depth[block_headers[Len(block_headers)]] = Len(block_headers)
    BY <2>1 DEF HeadersWanted
  <2> QED  BY <1>2, <1>4, <2>2 DEF LastKnown
<1> QED  BY <1>3, <1>4

(* is_orphan on the branch: what it remembers is low enough, and a wanted   *)
(* block is no orphan.                                                      *)
LEMMA WantedIsNoOrphan ==
    ASSUME PeerSettings, TypeOK, LTypeOK, OnBranch(tip), HeadersWanted, TimestampLow
    PROVE  /\ StartTimestamp # None =>
                 /\ Len(block_headers) > Threshold
                 /\ \A i \in 1..(Threshold + 1) : StartTimestamp <= Timestamp[block_headers[i]]
           /\ \A b \in Wanted(tip) : ~IsOrphan(b)
<1>0. /\ block_headers \in Seq(Block) /\ Len(block_headers) \in Nat /\ DOMAIN block_headers = 1..Len(block_headers)
      /\ Threshold \in Nat /\ tip \in DOMAIN Chain
  BY LogicAssumption DEF TypeOK, LTypeOK
<1>1. ASSUME StartTimestamp # None
      PROVE  /\ Len(block_headers) > Threshold
             /\ \A i \in 1..(Threshold + 1) : StartTimestamp <= Timestamp[block_headers[i]]
  <2>1. CASE start_block_timestamp # None \/ ~DetectOrphans \/ Len(block_headers) <= Threshold
    <3>1. StartTimestamp = start_block_timestamp
      BY <2>1 DEF StartTimestamp
    <3> QED  BY <1>1, <3>1 DEF TimestampLow
  <2>2. CASE ~(start_block_timestamp # None \/ ~DetectOrphans \/ Len(block_headers) <= Threshold)
    <3> DEFINE T == {Timestamp[h] : h \in Headers}
    <3>1. StartTimestamp = Min(T) /\ Len(block_headers) > Threshold
      BY <1>0, <2>2 DEF StartTimestamp
    <3>2. Headers \subseteq Block
      BY <1>0 DEF Headers
    <3>3. T \subseteq Nat
      BY <3>2, LogicAssumption
    <3>4. \A i \in 1..(Threshold + 1) : Timestamp[block_headers[i]] \in T
      <4>1. \A i \in 1..(Threshold + 1) : i \in DOMAIN block_headers
        BY <1>0, <3>1
      <4> QED  BY <4>1 DEF Headers
    <3>5. 1 \in 1..(Threshold + 1)
      BY <1>0
    <3>6. T # {} /\ T \in SUBSET Nat
      BY <3>3, <3>4, <3>5
    <3>7. \A k \in T : Min(T) <= k
      BY <3>6, MinIsLeast
    <3> HIDE DEF T
    <3> QED  BY <3>1, <3>4, <3>7
  <2> QED  BY <2>1, <2>2
<1>2. ASSUME NEW b \in Wanted(tip)  PROVE ~IsOrphan(b)
  <2> SUFFICES ASSUME StartTimestamp # None, StartTimestamp > Timestamp[b]  PROVE FALSE
    BY DEF IsOrphan
  <2>1. PICK g \in Wanted(tip) : Depth[g] <= Threshold + 1 /\ Timestamp[g] <= Timestamp[b]
    BY <1>0 DEF PeerSettings, NoneOlder
  <2>2. \A h \in Wanted(tip) : h \in Range(Chain[tip]) /\ h \in Block /\ Depth[h] \in Int /\ Depth[h] > 0
    <3>1. Range(Chain[tip]) \subseteq Block
      BY <1>0, TipIsBlock DEF Range
    <3> QED  BY <3>1, BlockAssumption DEF Wanted
  <2>3. Depth[g] \in 1..(Threshold + 1) /\ Depth[g] \in DOMAIN block_headers
    BY <1>0, <1>1, <2>1, <2>2
  <2>4. block_headers[Depth[g]] \in Wanted(tip) /\ Depth[block_headers[Depth[g]]] = Depth[g]
    BY <2>3 DEF HeadersWanted
  <2>5. block_headers[Depth[g]] = g
    BY <1>0, <2>2, <2>4, SameDepth
  <2>6. StartTimestamp <= Timestamp[g]
    BY <1>1, <2>3, <2>5
  <2>7. Timestamp[g] \in Nat /\ Timestamp[b] \in Nat /\ StartTimestamp \in Nat
    BY <2>2, LogicAssumption, StartTimestampType
  <2> QED  BY <2>1, <2>6, <2>7
<1> QED  BY <1>1, <1>2

(* process_block on a wanted block that is next: it is stored, one deeper.  *)
LEMMA ProcessWanted ==
    ASSUME PeerSettings, IInv, tip \in DOMAIN Chain, OnBranch(tip), tip' = tip,
           HeadersWanted, QueueWanted, ProcessBlock
    PROVE  /\ HeadersWanted' /\ QueueWanted'
           /\ Len(block_headers') = Len(block_headers) + 1
           /\ \A i \in 1..Len(block_headers) : block_headers'[i] = block_headers[i]
<1> DEFINE b == cur.block
           n == Len(block_headers)
<1>0. /\ TypeOK /\ b \in Block /\ height \in Nat /\ Prev[b] = last_hash_processed /\ b \in Wanted(tip)
      /\ block_headers \in Seq(Block) /\ n \in Nat /\ DOMAIN block_headers = 1..n
  BY DEF IInv, ProcessBlock, TypeOK, Entry, InHandIsNext, QueueWanted
<1>1. ~(height > MaxI32) /\ height = StartHeight + 1 + n
  BY <1>0, ConfigAssumption DEF HeadersWanted, ChainLinked
<1>2. block_headers' = Append(block_headers, b) /\ height' = height + 1 /\ block_queue' = block_queue /\ pc' = "drain"
  BY <1>0, <1>1 DEF ProcessBlock, StoreBlock
<1>3. Depth[b] = n + 1
  <2>1. Depth[last_hash_processed] = n
    BY <1>0, LastIsKnown
  <2> QED  BY <1>0, <2>1, BlockAssumption
<1>4. ChainLinked'
  BY ProcessBlockChain DEF HeadersWanted
<1>5. /\ DOMAIN block_headers' = 1..(n + 1) /\ Len(block_headers') = n + 1 /\ block_headers'[n + 1] = b
      /\ \A i \in 1..n : block_headers'[i] = block_headers[i]
  BY <1>0, <1>2
<1>6. \A i \in 1..(n + 1) : block_headers'[i] \in Wanted(tip) /\ Depth[block_headers'[i]] = i
  <2>1. \A i \in 1..n : block_headers'[i] \in Wanted(tip) /\ Depth[block_headers'[i]] = i
    BY <1>0, <1>5 DEF HeadersWanted
  <2>2. \A i \in 1..(n + 1) : i \in 1..n \/ i = n + 1
    BY <1>0
  <2> QED  BY <1>0, <1>3, <1>5, <2>1, <2>2
<1>7. height' <= MaxI32
  <2>1. StartHeight + Depth[b] + 1 <= MaxI32
    BY <1>0 DEF PeerSettings, HeightsFit
  <2> QED  BY <1>0, <1>1, <1>2, <1>3, <2>1, ConfigAssumption
<1>8. HeadersWanted'
  BY <1>4, <1>5, <1>6, <1>7 DEF HeadersWanted
<1>9. QueueWanted'
  BY <1>2 DEF QueueWanted
<1> QED  BY <1>5, <1>8, <1>9

(* The other steps of the block manager, on the branch.                     *)
LEMMA HandWanted ==
    ASSUME IInv, tip' = tip, HeadersWanted, QueueWanted,
           \/ WriteBlockToFile \/ ProcessBlockQueue
           \/ \E b \in Wanted(tip) : b \in Block /\ OnBlock(b)
    PROVE  HeadersWanted' /\ QueueWanted' /\ block_headers' = block_headers
<1> USE DEF memory
<1>0. TypeOK
  BY DEF IInv
<1>1. UNCHANGED <<block_headers, hash_to_index, last_hash_processed, height>>
  BY DEF WriteBlockToFile, ProcessBlockQueue, OnBlock, Accept
<1>2. HeadersWanted'
  BY <1>1, SameChain DEF HeadersWanted
<1>3. CASE WriteBlockToFile
  <2>1. cur \in Entry /\ cur'.block = cur.block /\ pc = "write" /\ block_queue' = block_queue
    BY <1>0, <1>3 DEF WriteBlockToFile, TypeOK, Entry
  <2> QED  BY <1>1, <1>2, <2>1 DEF QueueWanted
<1>4. CASE ProcessBlockQueue
  <2>1. CASE block_queue[last_hash_processed] # None
    <3>1. /\ cur' = block_queue[last_hash_processed]
          /\ block_queue' = [block_queue EXCEPT ![last_hash_processed] = None]
      BY <1>4, <2>1 DEF ProcessBlockQueue, Begin
    <3>2. last_hash_processed \in Hash /\ \A h \in Hash : block_queue'[h] # None => block_queue'[h] = block_queue[h]
      BY <1>0, <3>1 DEF TypeOK
    <3> QED  BY <1>1, <1>2, <2>1, <3>1, <3>2 DEF QueueWanted
  <2>2. CASE block_queue[last_hash_processed] = None
    BY <1>1, <1>2, <1>4, <2>2 DEF ProcessBlockQueue, QueueWanted
  <2> QED  BY <2>1, <2>2
<1>5. ASSUME NEW b \in Wanted(tip), b \in Block, OnBlock(b)
      PROVE  QueueWanted'
  <2> DEFINE e == [block |-> b, position |-> None]
  <2>1. Accept(b, None) /\ pc = "idle" /\ e.block = b
    BY <1>5 DEF OnBlock
  <2>2. CASE ~Known(b) /\ Prev[b] = last_hash_processed /\ Begin(e) /\ UNCHANGED memory
    BY <1>5, <2>1, <2>2 DEF QueueWanted, Begin
  <2>3. CASE /\ block_queue' = IF block_queue[Prev[b]] = None
                               THEN [block_queue EXCEPT ![Prev[b]] = e] ELSE block_queue
             /\ UNCHANGED pc
    <3>1. \A h \in Hash : block_queue'[h] = block_queue[h] \/ block_queue'[h] = e
      BY <1>0, <2>3 DEF TypeOK
    <3> QED  BY <1>5, <2>1, <2>3, <3>1 DEF QueueWanted
  <2>4. CASE UNCHANGED <<memory, pc, cur>>
    BY <2>1, <2>4 DEF QueueWanted
  <2> QED  BY <2>1, <2>2, <2>3, <2>4 DEF Accept
<1> QED  BY <1>1, <1>2, <1>3, <1>4, <1>5

(* setup on a first start finds no rows and leaves the memory empty.        *)
LEMMA LoadNothing ==
    ASSUME IInv, FreshStart, LoadBlockheaders
    PROVE  UNCHANGED <<memory, pc, cur>>
<1>1. /\ mode = "setup" /\ Rows = {} /\ TypeOK /\ IsFiniteSet(Rows)
      /\ block_headers = <<>> /\ hash_to_index = [h \in Hash |-> None] /\ UNCHANGED <<block_queue, pc, cur>>
  BY DEF IInv, SetupIsEmpty, FreshStart, LoadBlockheaders
<1>2. PICK s \in RowOrders :
         /\ block_headers' = s
         /\ hash_to_index' = [h \in Hash |-> IF h \in Rows THEN blocks[h].height ELSE None]
         /\ height' = IF s = <<>> THEN height ELSE blocks[s[Len(s)]].height + 1
         /\ last_hash_processed' = IF s = <<>> THEN last_hash_processed ELSE s[Len(s)]
  BY DEF LoadBlockheaders
<1>3. s \in Seq(Block) /\ {s[i] : i \in DOMAIN s} = {}
  BY <1>1, RowOrderIsSequence
<1>4. s = <<>>
  <2>1. ASSUME NEW S, NEW u \in Seq(S), \A i \in DOMAIN u : FALSE  PROVE u = <<>>
    BY <2>1
  <2> QED  BY <1>3, <2>1
<1>5. hash_to_index' = [h \in Hash |-> None]
  BY <1>1, <1>2
<1> QED  BY <1>1, <1>2, <1>4, <1>5 DEF memory

(* Nothing is stored before the headers are loaded.                         *)
LEMMA NextFresh ==
    ASSUME LInv, FreshStart, [LNext]_lvars
    PROVE  FreshStart'
<1> USE DEF FreshStart
<1>0. mode = "setup" => pc = "idle" /\ Rows = {} /\ chan = <<>>
  BY DEF LInv, IInv, SetupIsEmpty
<1>1. CASE LoadBlockheaders
  BY <1>1 DEF LoadBlockheaders
<1>2. CASE \/ WriteBlockToFile \/ ProcessBlock \/ ProcessBlockQueue \/ DbPerform \/ HandleOrphanBlock
           \/ \E b \in Block : OnBlock(b)
  <2>1. mode # "setup"
    BY <1>0, <1>2 DEF WriteBlockToFile, ProcessBlock, ProcessBlockQueue, DbPerform, HandleOrphanBlock, OnBlock
  <2>2. mode' = mode
    BY <1>2 DEF WriteBlockToFile, ProcessBlock, ProcessBlockQueue, DbPerform, HandleOrphanBlock, OnBlock, control
  <2> QED  BY <2>1, <2>2
<1>3. CASE UNCHANGED vars
  BY <1>3 DEF vars, control, tables, Rows
<1>4. CASE OnBlockEvent
  <2>1. Head(inbox).block \in Block
    BY <1>4, EventFacts DEF OnBlockEvent, LInv, LTypeOK, Traffic
  <2> QED  BY <1>2, <1>4, <2>1 DEF OnBlockEvent
<1>5. CASE OnOrphan \/ BlockManagerStep \/ WriterStep
  BY <1>1, <1>2, <1>5 DEF OnOrphan, BlockManagerStep, WriterStep
<1>6. CASE \/ OnConnected \/ OnDisconnected \/ OnInv \/ FinishBlock \/ PeerServe \/ PeerMine \/ PeerReorg
           \/ TxInv \/ Connect \/ Disconnect \/ UNCHANGED lvars
  BY <1>3, <1>6 DEF OnConnected, OnDisconnected, OnInv, FinishBlock, PeerServe, PeerMine, PeerReorg,
                    TxInv, Connect, Disconnect, lvars
<1> QED  BY <1>4, <1>5, <1>6 DEF LNext, Handler

(* What is of B is of every larger set.                                     *)
LEMMA TrafficGrows ==
    ASSUME NEW B, NEW C, NEW H, NEW K, B \subseteq C, H \subseteq K, Traffic(B, H)
    PROVE  Traffic(C, K)
<1>1. ASSUME NEW S, NEW T, S \subseteq T  PROVE Seq(S) \subseteq Seq(T)
  BY <1>1
<1>2. Seq(B) \subseteq Seq(C)
  BY <1>1
<1>3. PeerEvent(B) \subseteq PeerEvent(C)
  BY <1>2 DEF PeerEvent
<1>4. Message(B, H) \subseteq Message(C, K)
  BY DEF Message
<1>5. /\ Seq(Seq(B)) \subseteq Seq(Seq(C)) /\ Seq(PeerEvent(B)) \subseteq Seq(PeerEvent(C))
      /\ Seq(Message(B, H)) \subseteq Seq(Message(C, K))
  BY <1>1, <1>2, <1>3, <1>4
<1> QED  BY <1>5, Zenon DEF Traffic

(* A step of the node while the peer is on the first branch: nothing is     *)
(* rolled back, headers are only added, and everything stays wanted.        *)
LEMMA NodeOnBranch ==
    ASSUME PeerSettings, LInv, OnBranch(tip), FreshStart, Synced,
           Handler \/ WriterStep \/ UNCHANGED lvars
    PROVE  /\ tip' = tip /\ Synced'
           /\ Len(block_headers') >= Len(block_headers)
<1>0. /\ TypeOK /\ LTypeOK /\ IInv /\ tip \in DOMAIN Chain /\ Len(block_headers) \in Nat /\ Threshold \in Nat
      /\ HeadersWanted /\ QueueWanted /\ TrafficWanted /\ TimestampLow
  BY LogicAssumption, SMTT(30) DEF LInv, IInv, TypeOK, LTypeOK, Synced
<1>1. tip' = tip
  BY DEF Handler, WriterStep, OnConnected, OnDisconnected, OnInv, OnOrphan, OnBlockEvent, FinishBlock,
         BlockManagerStep, lvars, peer
<1>2. /\ inbox \in Seq(PeerEvent(Wanted(tip)))
      /\ \A b \in Wanted(tip) : b \in Block /\ ~IsOrphan(b)
  <2>1. \A b \in Wanted(tip) : b \in Block
    BY <1>0, TipIsBlock DEF Wanted, Range
  <2> QED  BY <1>0, <2>1, WantedIsNoOrphan DEF TrafficWanted, Traffic
<1>3. LTypeOK' /\ TypeOK'
  BY LNextInv DEF LInv, IInv, LNext
<1> DEFINE Kept == /\ HeadersWanted' /\ QueueWanted' /\ TimestampLow'
                   /\ Len(block_headers') >= Len(block_headers)
<1>4. ASSUME HeadersWanted', QueueWanted', block_headers' = block_headers,
             start_block_timestamp' \in {start_block_timestamp, StartTimestamp}
      PROVE  Kept
  <2>1. StartTimestamp # None =>
             /\ Len(block_headers) > Threshold
             /\ \A i \in 1..(Threshold + 1) : StartTimestamp <= Timestamp[block_headers[i]]
    BY <1>0, WantedIsNoOrphan
  <2>2. TimestampLow'
    BY <1>0, <1>4, <2>1 DEF TimestampLow
  <2> QED  BY <1>0, <1>4, <2>2
<1>5. ASSUME UNCHANGED <<memory, pc, cur, start_block_timestamp>>
      PROVE  Kept
  <2>1. HeadersWanted'
    BY <1>0, <1>1, <1>5, SameChain DEF HeadersWanted, memory
  <2>2. QueueWanted'
    BY <1>0, <1>1, <1>5 DEF QueueWanted, memory
  <2> QED  BY <1>4, <1>5, <2>1, <2>2 DEF memory
<1>6. Kept
  <2>1. CASE OnConnected \/ OnDisconnected \/ OnInv \/ FinishBlock \/ UNCHANGED lvars
    BY <1>5, <2>1 DEF OnConnected, OnDisconnected, OnInv, FinishBlock, lvars, vars, control, logic
  <2>2. CASE OnOrphan
    <3>1. Head(inbox).block \in Wanted(tip) /\ IsOrphan(Head(inbox).block)
      BY <1>2, <2>2, EventFacts DEF OnOrphan
    <3> QED  BY <1>2, <3>1
  <2>3. CASE OnBlockEvent
    <3>1. /\ Head(inbox).block \in Wanted(tip) /\ OnBlock(Head(inbox).block)
          /\ start_block_timestamp' = StartTimestamp
      BY <1>2, <2>3, EventFacts DEF OnBlockEvent
    <3>2. HeadersWanted' /\ QueueWanted' /\ block_headers' = block_headers
      BY <1>0, <1>1, <1>2, <3>1, HandWanted
    <3> QED  BY <1>4, <3>1, <3>2
  <2>4. CASE BlockManagerStep
    <3>1. start_block_timestamp' = start_block_timestamp
      BY <2>4 DEF BlockManagerStep, logic
    <3>2. CASE LoadBlockheaders
      BY <1>0, <1>5, <3>1, <3>2, LoadNothing
    <3>3. CASE WriteBlockToFile \/ ProcessBlockQueue
      BY <1>0, <1>1, <1>4, <3>1, <3>3, HandWanted
    <3>4. CASE ProcessBlock
      <4>1. /\ HeadersWanted' /\ QueueWanted' /\ Len(block_headers') = Len(block_headers) + 1
            /\ \A i \in 1..Len(block_headers) : block_headers'[i] = block_headers[i]
        BY <1>0, <1>1, <3>4, ProcessWanted
      <4>2. start_block_timestamp # None =>
               \A i \in 1..(Threshold + 1) : i \in 1..Len(block_headers)
        BY <1>0 DEF TimestampLow
      <4>3. TimestampLow'
        BY <1>0, <3>1, <4>1, <4>2 DEF TimestampLow
      <4> QED  BY <1>0, <4>1, <4>3
    <3> QED  BY <2>4, <3>2, <3>3, <3>4 DEF BlockManagerStep
  <2>5. CASE WriterStep
    BY <1>5, <2>5 DEF WriterStep, DbPerform, control, logic
  <2> QED  BY <2>1, <2>2, <2>3, <2>4, <2>5 DEF Handler
<1>7. TrafficWanted'
  <2>1. LastKnown(block_headers') \in Wanted(tip') \cup {StartHash}
    <3>1. block_headers' \in Seq(Block) /\ \A i \in DOMAIN block_headers' : block_headers'[i] \in Wanted(tip')
      BY <1>3, <1>6 DEF TypeOK, HeadersWanted
    <3> QED  BY <3>1, LastKnownWithin
  <2>2. PICK B, H : B = Wanted(tip) /\ H = Wanted(tip) \cup {StartHash}
    OBVIOUS
  <2>3. Traffic(B, H) /\ LastKnown(block_headers') \in H
    BY <1>0, <1>1, <2>1, <2>2 DEF TrafficWanted
  <2>4. Traffic(B, H)'
    BY <2>3, HandlerTraffic
  <2>5. B = Wanted(tip') /\ H = Wanted(tip') \cup {StartHash}
    BY <1>1, <2>2
  <2> QED  BY <2>4, <2>5 DEF TrafficWanted, Traffic
<1> QED  BY <1>1, <1>6, <1>7 DEF Synced

(* A chain that a peer mines or switches to is longer than the one it had.  *)
LEMMA LongerChain ==
    ASSUME tip \in DOMAIN Chain, PeerMine \/ PeerReorg
    PROVE  Len(Chain[tip]) < Len(Chain[tip'])
<1>1. Chain[tip] \in Seq(Block) /\ Len(Chain[tip]) \in Nat
  BY TipIsBlock
<1>2. CASE PeerMine
  <2>1. Chain[tip'] = Append(Chain[tip], tip')
    BY <1>2 DEF PeerMine
  <2> QED  BY <1>1, <2>1
<1>3. CASE PeerReorg
  BY <1>3 DEF PeerReorg
<1> QED  BY <1>2, <1>3

(* The peer's steps: what was wanted stays wanted when its chain grows.     *)
LEMMA PeerOnBranch ==
    ASSUME PeerSettings, LInv, tip = FirstTip \/ Len(Chain[FirstTip]) < Len(Chain[tip]),
           tip' = tip \/ Len(Chain[tip]) < Len(Chain[tip']), OnBranch(tip'), OnBranch(tip), Synced,
           PeerServe \/ PeerMine \/ PeerReorg \/ TxInv \/ Connect \/ Disconnect
    PROVE  Synced'
<1>0. /\ tip \in DOMAIN Chain /\ tip' \in DOMAIN Chain /\ TypeOK
      /\ HeadersWanted /\ QueueWanted /\ TrafficWanted /\ TimestampLow
  BY LNextInv DEF LInv, IInv, LTypeOK, Synced, LNext
<1>1. Wanted(tip) \subseteq Wanted(tip') /\ (tip' # tip => tip' \in Wanted(tip'))
  BY <1>0, BranchGrows
<1>2. UNCHANGED <<vars, start_block_timestamp>> /\ (tip' # tip => PeerMine \/ PeerReorg)
  BY DEF PeerServe, PeerMine, PeerReorg, TxInv, Connect, Disconnect, logic, peer
<1>3. HeadersWanted' /\ TimestampLow'
  <2>1. ChainLinked'
    BY <1>0, <1>2, SameChain DEF HeadersWanted, vars, memory
  <2> QED  BY <1>0, <1>1, <1>2, <2>1 DEF HeadersWanted, TimestampLow, vars, memory
<1>4. QueueWanted'
  BY <1>0, <1>1, <1>2 DEF QueueWanted, vars, memory, control
<1>5. PICK B, H : B = Wanted(tip') /\ H = Wanted(tip') \cup {StartHash}
  OBVIOUS
<1>6. Traffic(B, H)
  BY <1>0, <1>1, <1>5, TrafficGrows DEF TrafficWanted
<1>7. Traffic(B, H)'
  <2>1. CASE PeerServe
    <3>1. tip' = tip
      BY <2>1 DEF PeerServe, peer
    <3>2. \A h \in H : Behind(h) \in Seq(B)
      BY <1>0, <1>5, <3>1, BehindWanted
    <3> QED  BY <1>6, <2>1, <3>2, ServeTraffic
  <2>2. CASE tip' # tip
    BY <1>1, <1>2, <1>5, <1>6, <2>2, LinkTraffic
  <2>3. CASE TxInv \/ Connect \/ Disconnect
    BY <1>6, <2>3, LinkTraffic
  <2>4. CASE (PeerMine \/ PeerReorg) /\ tip' = tip
    <3>1. Len(Chain[tip]) < Len(Chain[tip'])
      BY <1>0, <2>4, LongerChain
    <3> QED  BY <1>0, <2>4, <3>1, TipIsBlock
  <2> QED  BY <2>1, <2>2, <2>3, <2>4
<1>8. TrafficWanted'
  BY <1>5, <1>7 DEF TrafficWanted, Traffic
<1> QED  BY <1>3, <1>4, <1>8 DEF Synced

(* A node that starts, with the peer on its first chain.                    *)
LEMMA InitBranch ==
    ASSUME PeerSettings, LInit
    PROVE  BranchInv
<1>1. /\ block_headers = <<>> /\ last_hash_processed = StartHash /\ height = StartHeight + 1
      /\ block_queue = [h \in Hash |-> None] /\ pc = "idle" /\ chan = <<>> /\ Rows = {}
      /\ block_inventory = <<>> /\ inbox = <<>> /\ toPeer = <<>> /\ tip = FirstTip
      /\ start_block_timestamp = None
  BY DEF LInit, Init, Rows
<1>2. ChainLinked
  BY <1>1, ConfigAssumption DEF ChainLinked
<1>3. HeadersWanted /\ QueueWanted /\ TimestampLow
  BY <1>1, <1>2 DEF HeadersWanted, QueueWanted, TimestampLow, PeerSettings, HeightsFit
<1>4. ASSUME NEW S  PROVE <<>> \in Seq(S)
  OBVIOUS
<1>5. TrafficWanted
  BY <1>1, <1>4, Zenon DEF TrafficWanted, Traffic
<1> QED  BY <1>1, <1>3, <1>5 DEF BranchInv, Synced, FreshStart

(* Every step keeps the node on the branch of its peer.                     *)
LEMMA NextBranch ==
    ASSUME PeerSettings, LInv, BranchInv, [LNext]_lvars
    PROVE  /\ BranchInv'
           /\ OnBranch(tip) => Len(block_headers') >= Len(block_headers)
<1>0. /\ tip \in DOMAIN Chain /\ tip' \in DOMAIN Chain /\ FreshStart /\ FreshStart'
      /\ Len(block_headers) \in Nat /\ (tip = FirstTip \/ Len(Chain[FirstTip]) < Len(Chain[tip]))
  BY LNextInv, NextFresh DEF LInv, IInv, TypeOK, LTypeOK, BranchInv
<1>1. CASE Handler \/ WriterStep \/ UNCHANGED lvars
  <2>1. tip' = tip
    BY <1>1 DEF Handler, WriterStep, OnConnected, OnDisconnected, OnInv, OnOrphan, OnBlockEvent, FinishBlock,
                BlockManagerStep, lvars, peer
  <2>2. OnBranch(tip) => Synced' /\ Len(block_headers') >= Len(block_headers)
    BY <1>0, <1>1, NodeOnBranch DEF BranchInv
  <2> QED  BY <1>0, <2>1, <2>2 DEF BranchInv
<1>2. CASE PeerServe \/ PeerMine \/ PeerReorg \/ TxInv \/ Connect \/ Disconnect
  <2>1. tip' = tip \/ Len(Chain[tip]) < Len(Chain[tip'])
    BY <1>0, <1>2, LongerChain DEF PeerServe, TxInv, Connect, Disconnect, peer
  <2>2. block_headers' = block_headers
    BY <1>2 DEF PeerServe, PeerMine, PeerReorg, TxInv, Connect, Disconnect, vars, memory
  <2>3. tip' = FirstTip \/ Len(Chain[FirstTip]) < Len(Chain[tip'])
    BY <1>0, <2>1, BranchGrows
  <2>4. OnBranch(tip') => OnBranch(tip)
    BY <1>0, <2>1, BranchGrows
  <2>5. OnBranch(tip') => Synced'
    BY <1>0, <1>2, <2>1, <2>4, PeerOnBranch DEF BranchInv
  <2> QED  BY <1>0, <2>2, <2>3, <2>5 DEF BranchInv
<1> QED  BY <1>1, <1>2 DEF LNext

(* BranchInv holds throughout.                                              *)
LEMMA AlwaysBranchInv ==
    ASSUME PeerSettings
    PROVE  LSpec => []BranchInv
<1>1. LInit => BranchInv
  BY InitBranch
<1>2. LInv /\ BranchInv /\ [LNext]_lvars => BranchInv'
  BY NextBranch
<1> QED  BY <1>1, <1>2, LogicTypes, PTL DEF LSpec

(* The node keeps a chain in order, from the start block on, until the peer *)
(* switches branches, whatever the order of announcements, requests, lost   *)
(* connections and blocks, with orphan detection on.                        *)
THEOREM ChainInOrder ==
    ASSUME PeerSettings
    PROVE  LSpec => []LinkedOnFirstBranch
<1>1. BranchInv => LinkedOnFirstBranch
  BY DEF BranchInv, Synced, HeadersWanted, LinkedOnFirstBranch, OnFirstBranch, OnBranch, Range
<1> QED  BY <1>1, AlwaysBranchInv, PTL

(* Until the peer switches branches, no block waits between handlers that   *)
(* extends the last stored header: process_block_queue has taken it.        *)
THEOREM OthersQueued ==
    ASSUME PeerSettings
    PROVE  LSpec => []OnlyOtherBlocksQueued
<1>1. ASSUME LInv, BranchInv  PROVE OnlyOtherBlocksQueued
  <2>1. SUFFICES ASSUME OnFirstBranch, pc = "idle"
                 PROVE  block_queue[LastKnown(block_headers)] = None
    BY DEF OnlyOtherBlocksQueued
  <2>2. OnBranch(tip)
    BY <2>1 DEF OnFirstBranch, OnBranch, Range
  <2>3. last_hash_processed = LastKnown(block_headers)
    BY <1>1, <2>2, LastIsKnown DEF LInv, IInv, BranchInv, Synced
  <2> QED  BY <1>1, <2>1, <2>3 DEF LInv, IInv, QueueWaitsForOthers
<1>2. LInv /\ BranchInv => OnlyOtherBlocksQueued
  BY <1>1
<1> QED  BY <1>2, AlwaysBranchInv, LogicTypes, PTL

(* Until the peer switches branches a step takes no header away.            *)
NoRollBackOnBranch == [][OnFirstBranch => Len(block_headers') >= Len(block_headers)]_lvars

(* Until the peer switches branches no header is rolled back: is_orphan     *)
(* takes no block of the peer's chain for an orphan.                        *)
THEOREM NoneRolledBack ==
    ASSUME PeerSettings
    PROVE  LSpec => NoRollBackOnBranch
<1>1. ASSUME LInv, BranchInv, [LNext]_lvars
      PROVE  [OnFirstBranch => Len(block_headers') >= Len(block_headers)]_lvars
  BY <1>1, NextBranch DEF OnFirstBranch, OnBranch, Range
<1>2. LInv /\ BranchInv /\ [LNext]_lvars => [OnFirstBranch => Len(block_headers') >= Len(block_headers)]_lvars
  BY <1>1
<1> QED  BY <1>2, AlwaysBranchInv, LogicTypes, PTL DEF LSpec, NoRollBackOnBranch

-----------------------------------------------------------------------------
(* A peer that switches branches.  First: the blocks of the first branch;   *)
(* Other: the blocks of the chains beside it; Seen(t): what a peer with tip *)
(* t can have sent; Fresh: the blocks above the start block; Near(t): the   *)
(* locators, on both branches, behind which a peer with tip t finds only    *)
(* those.                                                                   *)
Fresh == {b \in Block : Depth[b] > 0}
First == UNION {Range(Chain[t]) : t \in {u \in DOMAIN Chain : OnBranch(u)}}
Other == UNION {Range(Chain[t]) : t \in {u \in DOMAIN Chain : ~OnBranch(u)}}
Seen(t) == First \cup Range(Chain[t])
Near(t) == {h \in Other \cap Range(Chain[t]) : Depth[h] >= 0}

(* What is assumed beyond PeerSettings: the peer switches at most once, so  *)
(* that the chains beside the first branch are one line; all chains begin   *)
(* with the same block and have the start block; and no block above the     *)
(* start block is older than one right above it.                            *)
OneOther ==
    \A t, u \in DOMAIN Chain : ~OnBranch(t) /\ ~OnBranch(u) /\ Len(Chain[t]) <= Len(Chain[u]) =>
        \A i \in 1..Len(Chain[t]) : Chain[u][i] = Chain[t][i]
SameOrigin == \A t \in DOMAIN Chain : Chain[t][1] = Chain[FirstTip][1] /\ StartHash \in Range(Chain[t])
OldestFirst == \A g, h \in Fresh : Depth[g] = 1 => Timestamp[g] <= Timestamp[h]
SwitchSettings == PeerSettings /\ OneOther /\ SameOrigin /\ OldestFirst

(* The inductive invariant.  OneAtATime: one block is under way at a time,  *)
(* nothing is asked for behind it, and what was announced behind it is      *)
(* fresh.  Session: the events of one connection do not mix with those of   *)
(* the next.  Held: what the node holds.  LastInv: the last processed hash  *)
(* is on the other branch only when the last header is.  Answers: while the *)
(* last header is on the other branch, nothing old is listed or under way,  *)
(* and nothing asked for will bring it.  EarlyTimestamp: the remembered     *)
(* timestamp is not above that of a fresh block.                            *)
Clean(e) ==
    \/ e.type = "Disconnected"
    \/ e.type = "Inv" /\ e.objects \in Seq(Fresh)
InOrder(s) == \A i, j \in DOMAIN s : s[i].type = "Block" /\ i < j => Clean(s[j])
LastOnly(s, ty) == \A i \in DOMAIN s : s[i].type = ty => i = Len(s)
FirstOnly(s, ty) == \A i \in DOMAIN s : s[i].type = ty => i = 1
OneAtATime ==
    /\ InOrder(inbox) /\ LastOnly(toPeer, "GetData")
    /\ HasType(inbox, "Block") => toPeer = <<>>
    /\ HasType(inbox, "Block") \/ HasType(toPeer, "GetData") =>
          block_inventory # <<>> /\ handling = None /\ connected
Session ==
    /\ ~connected \/ link = "down" => toPeer = <<>>
    /\ FirstOnly(inbox, "Connected") /\ (HasType(inbox, "Connected") => ~connected)
    /\ LastOnly(inbox, "Disconnected") /\ (HasType(inbox, "Disconnected") => link = "down")
    /\ link = "down" /\ inbox # <<>> => HasType(inbox, "Disconnected")
Held(B) ==
    /\ \A i \in DOMAIN block_headers : block_headers[i] \in B
    /\ \A h \in Hash : block_queue[h] # None => block_queue[h].block \in B
    /\ pc \in {"write", "process"} => cur.block \in B
LastInv ==
    /\ Depth[last_hash_processed] >= 0
    /\ \A i \in DOMAIN block_headers : Depth[block_headers[i]] > 0
    /\ last_hash_processed \in Other => LastKnown(block_headers) \in Other
Answers == LastKnown(block_headers) \in Other => Traffic(Fresh, Near(tip))
EarlyTimestamp ==
    /\ start_block_timestamp # None => \A b \in Fresh : start_block_timestamp <= Timestamp[b]
    /\ start_block_timestamp = None =>
          IF block_headers = <<>> THEN last_hash_processed = StartHash /\ height = StartHeight + 1
          ELSE Depth[block_headers[1]] = 1
SwitchInv ==
    /\ OneAtATime /\ Session
    /\ Held(Seen(tip)) /\ Traffic(Seen(tip), Hash)
    /\ LastInv /\ Answers /\ EarlyTimestamp

(* In every chain a block of a depth has the same place.                    *)
LEMMA PlaceOfDepth ==
    ASSUME SwitchSettings, NEW t \in DOMAIN Chain, NEW u \in DOMAIN Chain,
           NEW i \in 1..Len(Chain[t]), NEW j \in 1..Len(Chain[u])
    PROVE  /\ Depth[Chain[t][i]] = Depth[Chain[u][j]] => i = j
           /\ i < j => Depth[Chain[t][i]] < Depth[Chain[u][j]]
<1>1. /\ Depth[Chain[t][i]] = Depth[Chain[t][1]] + i - 1 /\ Depth[Chain[u][j]] = Depth[Chain[u][1]] + j - 1
      /\ Depth[Chain[t][1]] \in Int /\ Len(Chain[t]) \in Nat \ {0} /\ Len(Chain[u]) \in Nat \ {0}
  <2>1. Len(Chain[t]) \in Nat \ {0} /\ Len(Chain[u]) \in Nat \ {0}
    BY TipIsBlock
  <2>2. 1 \in 1..Len(Chain[t])
    BY <2>1
  <2> QED  BY <2>1, <2>2, ChainDepths DEF SwitchSettings
<1>2. Depth[Chain[t][1]] = Depth[Chain[u][1]]
  BY DEF SwitchSettings, SameOrigin
<1>3. ASSUME NEW d \in Int, NEW a \in Int, NEW b \in Int
      PROVE  (d + a - 1 = d + b - 1 => a = b) /\ (a < b => d + a - 1 < d + b - 1)
  OBVIOUS
<1>4. i \in Int /\ j \in Int
  BY <1>1
<1> QED  BY <1>1, <1>2, <1>3, <1>4

(* Chains that share a block share all blocks before it: by induction,      *)
(* downwards from the shared block.                                         *)
LEMMA SharedBefore ==
    ASSUME SwitchSettings, NEW t \in DOMAIN Chain, NEW u \in DOMAIN Chain,
           NEW i \in 1..Len(Chain[t]), NEW j \in 1..Len(Chain[u]), Chain[t][i] = Chain[u][j]
    PROVE  i = j /\ \A k \in 1..i : Chain[t][k] = Chain[u][k]
<1> DEFINE T == {d \in 0..(i - 1) : Chain[t][i - d] # Chain[u][i - d]}
<1>0. Len(Chain[t]) \in Nat /\ Len(Chain[u]) \in Nat
  BY TipIsBlock
<1>1. i = j
  BY PlaceOfDepth
<1>2. \A k \in 1..(i - 1) : Prev[Chain[t][k + 1]] = Chain[t][k] /\ Prev[Chain[u][k + 1]] = Chain[u][k]
  BY <1>0, <1>1 DEF SwitchSettings, PeerSettings, ChainsLinked
<1>3. T = {}
  <2> SUFFICES ASSUME T # {}  PROVE FALSE
    OBVIOUS
  <2>1. T \in SUBSET Nat
    BY <1>0
  <2>2. PICK d \in T : \A e \in T : d <= e
    BY <2>1, LeastNat
  <2>3. d \in 0..(i - 1) /\ Chain[t][i - d] # Chain[u][i - d]
    OBVIOUS
  <2>4. d # 0
    BY <1>0, <1>1, <2>3
  <2>5. d - 1 \in 0..(i - 1) /\ i - (d - 1) = (i - d) + 1 /\ i - d \in 1..(i - 1) /\ ~(d <= d - 1)
    <3> HIDE DEF T
    <3>1. i \in Nat /\ i >= 1
      BY <1>0
    <3> QED  BY <2>3, <2>4, <3>1
  <2>6. d - 1 \notin T
    BY <2>2, <2>5
  <2>7. Chain[t][(i - d) + 1] = Chain[u][(i - d) + 1]
    BY <2>5, <2>6
  <2> QED  BY <1>2, <2>3, <2>5, <2>7
<1>4. ASSUME NEW k \in 1..i  PROVE Chain[t][k] = Chain[u][k]
  <2>1. i - k \in 0..(i - 1) /\ i - (i - k) = k
    BY <1>0
  <2> QED  BY <1>3, <2>1
<1> QED  BY <1>1, <1>4

(* The first tip has the same place in every chain of its branch.           *)
LEMMA FirstTipPlace ==
    ASSUME SwitchSettings, NEW t \in DOMAIN Chain, OnBranch(t)
    PROVE  Len(Chain[FirstTip]) \in 1..Len(Chain[t]) /\ Chain[t][Len(Chain[FirstTip])] = FirstTip
<1>1. /\ FirstTip \in DOMAIN Chain /\ Len(Chain[FirstTip]) \in Nat \ {0}
      /\ Chain[FirstTip][Len(Chain[FirstTip])] = FirstTip
      /\ DOMAIN Chain[t] = 1..Len(Chain[t]) /\ Len(Chain[t]) \in Nat \ {0}
  BY TipIsBlock, LogicAssumption
<1>2. PICK k \in 1..Len(Chain[t]) : Chain[t][k] = FirstTip
  BY <1>1 DEF OnBranch, Range
<1>3. Len(Chain[FirstTip]) \in 1..Len(Chain[FirstTip])
  BY <1>1
<1>4. k = Len(Chain[FirstTip])
  BY <1>1, <1>2, <1>3, SharedBefore
<1> QED  BY <1>2, <1>4

(* A block that a peer can have sent, and that is on the other branch, is   *)
(* on the peer's chain: the branches part below the first tip.              *)
LEMMA SeenOfOther ==
    ASSUME SwitchSettings, NEW t \in DOMAIN Chain, t = FirstTip \/ Len(Chain[FirstTip]) < Len(Chain[t]),
           NEW x \in Seen(t), x \in Other
    PROVE  x \in Range(Chain[t])
<1> SUFFICES ASSUME x \in First  PROVE x \in Range(Chain[t])
  BY DEF Seen
<1> DEFINE n == Len(Chain[FirstTip])
<1>1. PICK u \in DOMAIN Chain, v \in DOMAIN Chain :
         OnBranch(u) /\ ~OnBranch(v) /\ x \in Range(Chain[u]) /\ x \in Range(Chain[v])
  BY DEF First, Other
<1>2. /\ DOMAIN Chain[u] = 1..Len(Chain[u]) /\ Len(Chain[u]) \in Nat \ {0}
      /\ DOMAIN Chain[v] = 1..Len(Chain[v]) /\ Len(Chain[v]) \in Nat \ {0}
      /\ DOMAIN Chain[t] = 1..Len(Chain[t]) /\ Len(Chain[t]) \in Nat \ {0}
      /\ n \in Nat \ {0}
  BY TipIsBlock, LogicAssumption
<1>3. PICK i \in 1..Len(Chain[u]), j \in 1..Len(Chain[v]) : x = Chain[u][i] /\ x = Chain[v][j]
  BY <1>1, <1>2 DEF Range
<1>4. i = j /\ \A k \in 1..i : Chain[u][k] = Chain[v][k]
  <2>1. Chain[u][i] = Chain[v][j]
    BY <1>3
  <2> QED  BY <2>1, SharedBefore
<1>5. n \in 1..Len(Chain[u]) /\ Chain[u][n] = FirstTip
  BY <1>1, FirstTipPlace
<1>6. i < n
  <2> SUFFICES ASSUME ~(i < n)  PROVE FALSE
    OBVIOUS
  <2>1. n \in 1..i /\ n \in 1..Len(Chain[v])
    BY <1>2, <1>3, <1>4
  <2>2. Chain[v][n] = FirstTip
    BY <1>4, <1>5, <2>1
  <2> QED  BY <1>1, <1>2, <2>1, <2>2 DEF OnBranch, Range
<1>7. i \in 1..Len(Chain[t])
  BY <1>2, <1>6
<1>8. CASE OnBranch(t)
  <2>1. n \in 1..Len(Chain[t]) /\ Chain[t][n] = FirstTip
    BY <1>8, FirstTipPlace
  <2>2. \A k \in 1..n : Chain[t][k] = Chain[u][k]
    BY <1>5, <2>1, SharedBefore
  <2>3. i \in 1..n
    BY <1>2, <1>6
  <2>4. Chain[t][i] = x
    BY <1>3, <2>2, <2>3
  <2> QED  BY <1>2, <1>7, <2>4 DEF Range
<1>9. CASE ~OnBranch(t)
  <2>1. Chain[t][i] = Chain[v][i]
    BY <1>1, <1>2, <1>4, <1>7, <1>9 DEF SwitchSettings, OneOther
  <2> QED  BY <1>2, <1>3, <1>4, <1>7, <2>1 DEF Range
<1> QED  BY <1>8, <1>9

(* The parent of a fresh block of the other branch is on that branch.       *)
LEMMA ParentOfOther ==
    ASSUME SwitchSettings, NEW b \in Fresh, b \in Other
    PROVE  Prev[b] \in Other
<1>1. PICK t \in DOMAIN Chain : ~OnBranch(t) /\ b \in Range(Chain[t])
  BY DEF Other
<1>2. DOMAIN Chain[t] = 1..Len(Chain[t]) /\ Len(Chain[t]) \in Nat \ {0}
  BY TipIsBlock
<1>3. PICK i \in 1..Len(Chain[t]), k \in 1..Len(Chain[t]) : b = Chain[t][i] /\ StartHash = Chain[t][k]
  BY <1>1, <1>2 DEF Range, SwitchSettings, SameOrigin
<1>4. Depth[b] > 0 /\ Depth[StartHash] = 0 /\ Depth[b] \in Int
  BY BlockAssumption DEF Fresh
<1>5. i # 1
  <2> SUFFICES ASSUME i = 1  PROVE FALSE
    OBVIOUS
  <2>1. i = k \/ i < k
    BY <1>2
  <2>2. i = k => b = StartHash
    BY <1>3
  <2>3. i < k => Depth[b] < Depth[StartHash]
    BY <1>3, PlaceOfDepth
  <2> QED  BY <1>4, <2>1, <2>2, <2>3
<1>6. i - 1 \in 1..(Len(Chain[t]) - 1) /\ i - 1 \in DOMAIN Chain[t] /\ (i - 1) + 1 = i
  BY <1>2, <1>5
<1>7. Prev[b] = Chain[t][i - 1]
  BY <1>3, <1>6 DEF SwitchSettings, PeerSettings, ChainsLinked
<1>8. Chain[t][i - 1] \in Range(Chain[t])
  BY <1>6 DEF Range
<1> QED  BY <1>1, <1>7, <1>8 DEF Other

(* The peer's chains reach above the start block, and what they can have    *)
(* sent grows with them.                                                    *)
LEMMA SeenGrows ==
    ASSUME SwitchSettings, NEW t \in DOMAIN Chain, NEW u \in DOMAIN Chain,
           t = FirstTip \/ Len(Chain[FirstTip]) < Len(Chain[t]), Len(Chain[t]) < Len(Chain[u])
    PROVE  /\ Seen(t) \subseteq Seen(u) /\ Near(t) \subseteq Near(u)
           /\ u \in Fresh /\ u \in Seen(u) /\ Len(Chain[FirstTip]) < Len(Chain[u])
<1>1. /\ FirstTip \in DOMAIN Chain /\ Len(Chain[FirstTip]) \in Nat \ {0}
      /\ DOMAIN Chain[FirstTip] = 1..Len(Chain[FirstTip])
      /\ DOMAIN Chain[t] = 1..Len(Chain[t]) /\ Len(Chain[t]) \in Nat \ {0}
      /\ DOMAIN Chain[u] = 1..Len(Chain[u]) /\ Len(Chain[u]) \in Nat \ {0}
      /\ Chain[u][Len(Chain[u])] = u /\ u \in Block
  BY TipIsBlock, LogicAssumption
<1>2. Len(Chain[FirstTip]) < Len(Chain[u]) /\ Len(Chain[u]) \in 1..Len(Chain[u])
  BY <1>1
<1>3. u \in Range(Chain[u]) /\ Range(Chain[u]) \subseteq Seen(u) /\ First \subseteq Seen(u)
  BY <1>1, <1>2 DEF Range, Seen
<1>4. u \in Fresh
  <2>1. PICK k \in 1..Len(Chain[FirstTip]) : Chain[FirstTip][k] = StartHash
    BY <1>1 DEF SwitchSettings, SameOrigin, Range
  <2>2. k < Len(Chain[u])
    BY <1>1, <1>2
  <2>3. Depth[StartHash] < Depth[u]
    BY <1>1, <1>2, <2>1, <2>2, PlaceOfDepth
  <2> QED  BY <1>1, <2>3, BlockAssumption DEF Fresh
<1>5. Seen(t) \subseteq Seen(u)
  <2>1. CASE OnBranch(t)
    <3>1. Range(Chain[t]) \subseteq First
      BY <2>1 DEF First
    <3> QED  BY <3>1 DEF Seen
  <2>2. CASE ~OnBranch(t)
    <3>1. ~OnBranch(u)
      BY <1>1, <1>2, <2>2, BranchGrows DEF SwitchSettings
    <3>2. \A i \in 1..Len(Chain[t]) : Chain[u][i] = Chain[t][i]
      BY <1>1, <2>2, <3>1 DEF SwitchSettings, OneOther
    <3>3. Range(Chain[t]) \subseteq Range(Chain[u])
      BY <1>1, <3>2 DEF Range
    <3> QED  BY <3>3 DEF Seen
  <2> QED  BY <2>1, <2>2
<1>6. Near(t) \subseteq Near(u)
  <2> SUFFICES ASSUME NEW h \in Near(t)  PROVE h \in Near(u)
    OBVIOUS
  <2>1. h \in Seen(u) /\ h \in Other /\ Depth[h] >= 0
    BY <1>5 DEF Near, Seen
  <2>2. h \in Range(Chain[u])
    BY <1>2, <2>1, SeenOfOther
  <2> QED  BY <2>1, <2>2 DEF Near
<1> QED  BY <1>2, <1>3, <1>4, <1>5, <1>6

(* What an element added to the end of a queue changes.                     *)
LEMMA QueueAppend ==
    ASSUME NEW S, NEW s \in Seq(S), NEW e
    PROVE  /\ \A ty : HasType(Append(s, e), ty) <=> HasType(s, ty) \/ e.type = ty
           /\ \A ty : ~HasType(s, ty) => LastOnly(Append(s, e), ty)
           /\ \A ty : e.type # ty /\ FirstOnly(s, ty) => FirstOnly(Append(s, e), ty)
           /\ InOrder(s) /\ (Clean(e) \/ ~HasType(s, "Block")) => InOrder(Append(s, e))
<1> DEFINE t == Append(s, e)
           n == Len(s)
<1>1. /\ n \in Nat /\ DOMAIN s = 1..n /\ DOMAIN t = 1..(n + 1) /\ Len(t) = n + 1
      /\ t[n + 1] = e /\ \A i \in 1..n : t[i] = s[i]
  OBVIOUS
<1> HIDE DEF t, n
<1>2. \A i \in 1..(n + 1) : i \in 1..n \/ i = n + 1
  BY <1>1
<1>3. \A i \in 1..n : i \in 1..(n + 1)
  BY <1>1
<1>4. n + 1 \in 1..(n + 1)
  BY <1>1
<1>5. ASSUME NEW ty  PROVE HasType(t, ty) <=> HasType(s, ty) \/ e.type = ty
  BY <1>1, <1>2, <1>3, <1>4 DEF HasType
<1>6. ASSUME NEW ty, ~HasType(s, ty)  PROVE LastOnly(t, ty)
  BY <1>1, <1>2, <1>6 DEF HasType, LastOnly
<1>7. ASSUME NEW ty, e.type # ty, FirstOnly(s, ty)  PROVE FirstOnly(t, ty)
  BY <1>1, <1>2, <1>7 DEF FirstOnly
<1>8. ASSUME InOrder(s), Clean(e) \/ ~HasType(s, "Block")  PROVE InOrder(t)
  <2> SUFFICES ASSUME NEW i \in 1..(n + 1), NEW j \in 1..(n + 1), t[i].type = "Block", i < j
               PROVE  Clean(t[j])
    BY <1>1 DEF InOrder
  <2>1. i \in 1..n
    BY <1>1
  <2>2. CASE j \in 1..n
    <3>1. Clean(s[j])
      BY <1>1, <1>8, <2>1, <2>2 DEF InOrder
    <3> QED  BY <1>1, <2>2, <3>1
  <2>3. CASE j = n + 1
    <3>1. HasType(s, "Block")
      BY <1>1, <2>1 DEF HasType
    <3> QED  BY <1>1, <1>8, <2>3, <3>1
  <2> QED  BY <1>2, <2>2, <2>3
<1> QED  BY <1>5, <1>6, <1>7, <1>8 DEF t

(* What the removal of the first element of a queue changes.                *)
LEMMA QueueTail ==
    ASSUME NEW S, NEW s \in Seq(S), s # <<>>
    PROVE  /\ \A ty : HasType(Tail(s), ty) => HasType(s, ty)
           /\ \A ty : Head(s).type # ty /\ HasType(s, ty) => HasType(Tail(s), ty)
           /\ \A ty : Head(s).type = ty => HasType(s, ty)
           /\ \A ty : LastOnly(s, ty) => LastOnly(Tail(s), ty) /\ (Head(s).type = ty => Tail(s) = <<>>)
           /\ \A ty : FirstOnly(s, ty) => FirstOnly(Tail(s), ty) /\ ~HasType(Tail(s), ty)
           /\ InOrder(s) => /\ InOrder(Tail(s))
                            /\ Head(s).type = "Block" => \A j \in DOMAIN Tail(s) : Clean(Tail(s)[j])
<1> DEFINE t == Tail(s)
           n == Len(s)
<1>1. /\ n \in Nat \ {0} /\ DOMAIN s = 1..n /\ DOMAIN t = 1..(n - 1) /\ Len(t) = n - 1
      /\ Head(s) = s[1] /\ \A i \in 1..(n - 1) : t[i] = s[i + 1]
  OBVIOUS
<1>2. n = 1 => t = <<>>
  <2>1. ASSUME NEW T, NEW u \in Seq(T), Len(u) = 0  PROVE u = <<>>
    BY <2>1
  <2>2. t \in Seq(S)
    OBVIOUS
  <2> QED  BY <1>1, <2>1, <2>2
<1> HIDE DEF t, n
<1>3. \A i \in 1..(n - 1) : i + 1 \in 1..n /\ i + 1 # 1 /\ (i + 1 = n => i = n - 1)
  BY <1>1
<1>4. \A i \in 1..n : i # 1 => i - 1 \in 1..(n - 1) /\ (i - 1) + 1 = i
  BY <1>1
<1>5. 1 \in 1..n
  BY <1>1
<1>6. ASSUME NEW ty, HasType(t, ty)  PROVE HasType(s, ty)
  BY <1>1, <1>3, <1>6 DEF HasType
<1>7. ASSUME NEW ty, Head(s).type # ty, HasType(s, ty)  PROVE HasType(t, ty)
  <2>1. PICK i \in 1..n : s[i].type = ty
    BY <1>1, <1>7 DEF HasType
  <2>2. i # 1
    BY <1>1, <1>7, <2>1
  <2>3. t[i - 1] = s[i] /\ i - 1 \in 1..(n - 1)
    BY <1>1, <1>4, <2>2
  <2> QED  BY <1>1, <2>1, <2>3 DEF HasType
<1>8. ASSUME NEW ty, Head(s).type = ty  PROVE HasType(s, ty)
  BY <1>1, <1>5, <1>8 DEF HasType
<1>9. ASSUME NEW ty, LastOnly(s, ty)  PROVE LastOnly(t, ty) /\ (Head(s).type = ty => t = <<>>)
  BY <1>1, <1>2, <1>3, <1>5, <1>9 DEF LastOnly
<1>10. ASSUME NEW ty, FirstOnly(s, ty)  PROVE FirstOnly(t, ty) /\ ~HasType(t, ty)
  <2>1. ~HasType(t, ty)
    BY <1>1, <1>3, <1>10 DEF FirstOnly, HasType
  <2> QED  BY <2>1 DEF FirstOnly, HasType
<1>11. ASSUME InOrder(s)
       PROVE  InOrder(t) /\ (Head(s).type = "Block" => \A j \in DOMAIN t : Clean(t[j]))
  <2>1. ASSUME NEW i \in 1..(n - 1), NEW j \in 1..(n - 1), t[i].type = "Block", i < j
        PROVE  Clean(t[j])
    <3>1. i + 1 < j + 1 /\ s[i + 1].type = "Block"
      BY <1>1, <2>1
    <3>2. Clean(s[j + 1])
      BY <1>1, <1>3, <1>11, <3>1 DEF InOrder
    <3> QED  BY <1>1, <3>2
  <2>2. ASSUME s[1].type = "Block", NEW j \in 1..(n - 1)  PROVE Clean(t[j])
    <3>1. 1 < j + 1
      BY <1>1
    <3>2. Clean(s[j + 1])
      BY <1>1, <1>3, <1>5, <1>11, <2>2, <3>1 DEF InOrder
    <3> QED  BY <1>1, <3>2
  <2> QED  BY <1>1, <2>1, <2>2 DEF InOrder
<1> QED  BY <1>6, <1>7, <1>8, <1>9, <1>10, <1>11 DEF t

(* What is left of a queue that is cut off.                                 *)
LEMMA QueueFront ==
    ASSUME NEW S, NEW s \in Seq(S), NEW k \in 0..Len(s)
    PROVE  LET t == SubSeq(s, 1, k) IN
           /\ t \in Seq(S)
           /\ \A ty : HasType(t, ty) => HasType(s, ty)
           /\ \A ty : FirstOnly(s, ty) => FirstOnly(t, ty)
           /\ InOrder(s) => InOrder(t)
<1> DEFINE t == SubSeq(s, 1, k)
<1>1. Len(s) \in Nat /\ DOMAIN s = 1..Len(s) /\ \A i \in 1..k : i \in 1..Len(s)
  OBVIOUS
<1>2. t \in Seq(S) /\ DOMAIN t = 1..k /\ \A i \in 1..k : t[i] = s[i]
  BY FrontFacts
<1> HIDE DEF t
<1> QED  BY <1>1, <1>2 DEF HasType, FirstOnly, InOrder, t

(* A request when no block is under way: it is the last one, and one block  *)
(* is asked for at most.                                                    *)
LEMMA RequestOne ==
    ASSUME LTypeOK, NEW inv \in Seq(Seq(Block)), NEW h, RequestNextBlock(inv, h),
           ~HasType(toPeer, "GetData"), ~connected' \/ link = "down" => toPeer = <<>>
    PROVE  /\ LastOnly(toPeer', "GetData")
           /\ HasType(toPeer', "GetData") => block_inventory' # <<>> /\ connected'
           /\ ~connected' \/ link = "down" => toPeer' = <<>>
<1>1. PICK m : /\ toPeer' = IF connected' /\ link = "up" THEN Append(toPeer, m) ELSE toPeer
               /\ \/ m = [type |-> "GetBlocks", hash |-> LastKnown(block_headers')]
                  \/ (\E b \in Block : m = [type |-> "GetData", hash |-> b]) /\ block_inventory' # <<>>
  BY RequestFacts
<1>2. m.type = "GetData" => block_inventory' # <<>>
  BY <1>1
<1>3. toPeer \in Seq(Message(Block, Hash)) /\ link \in {"up", "down"}
  BY DEF LTypeOK, Traffic
<1>4. /\ HasType(Append(toPeer, m), "GetData") <=> HasType(toPeer, "GetData") \/ m.type = "GetData"
      /\ LastOnly(Append(toPeer, m), "GetData")
  BY <1>3, QueueAppend
<1>5. CASE connected' /\ link = "up"
  <2>1. toPeer' = Append(toPeer, m)
    BY <1>1, <1>5
  <2> QED  BY <1>2, <1>4, <1>5, <2>1
<1>6. CASE ~(connected' /\ link = "up")
  <2>1. toPeer' = toPeer /\ toPeer = <<>>
    BY <1>1, <1>3, <1>6
  <2> QED  BY <1>6, <2>1 DEF HasType, LastOnly
<1> QED  BY <1>5, <1>6

(* Every step keeps one block under way at a time and the sessions apart.   *)
LEMMA NextOneAtATime ==
    ASSUME LInv, OneAtATime, Session, [LNext]_lvars, tip' # tip => tip' \in Fresh
    PROVE  OneAtATime' /\ Session'
<1>0. /\ LTypeOK /\ inbox \in Seq(PeerEvent(Block)) /\ toPeer \in Seq(Message(Block, Hash))
      /\ block_inventory \in Seq(Seq(Block)) /\ link \in {"up", "down"} /\ connected \in BOOLEAN
  BY DEF LInv, LTypeOK, Traffic
<1>1. ASSUME inbox # <<>>
      PROVE  /\ \A ty : HasType(Tail(inbox), ty) => HasType(inbox, ty)
             /\ \A ty : Head(inbox).type # ty /\ HasType(inbox, ty) => HasType(Tail(inbox), ty)
             /\ \A ty : Head(inbox).type = ty => HasType(inbox, ty)
             /\ InOrder(Tail(inbox)) /\ LastOnly(Tail(inbox), "Disconnected")
             /\ Head(inbox).type = "Disconnected" => Tail(inbox) = <<>>
             /\ FirstOnly(Tail(inbox), "Connected") /\ ~HasType(Tail(inbox), "Connected")
             /\ Head(inbox).type = "Block" => ~HasType(Tail(inbox), "Block")
  <2>1. /\ InOrder(inbox) /\ LastOnly(inbox, "Disconnected") /\ FirstOnly(inbox, "Connected")
    BY DEF OneAtATime, Session
  <2>2. ASSUME \A j \in DOMAIN Tail(inbox) : Clean(Tail(inbox)[j])
        PROVE  ~HasType(Tail(inbox), "Block")
    BY <2>2 DEF Clean, HasType
  <2> QED  BY <1>0, <1>1, <2>1, <2>2, QueueTail
<1>2. ASSUME NEW ty, Event(ty)
      PROVE  inbox # <<>> /\ Head(inbox).type = ty /\ inbox' = Tail(inbox) /\ handling = None
  BY <1>2 DEF Event
<1>3. ASSUME NEW inv \in Seq(Seq(Block)), NEW h, RequestNextBlock(inv, h),
             ~HasType(toPeer, "GetData"), ~HasType(inbox', "Block"), InOrder(inbox'),
             ~connected' \/ link = "down" => toPeer = <<>>, handling' = None
      PROVE  OneAtATime' /\ (~connected' \/ link = "down" => toPeer' = <<>>)
  BY <1>0, <1>3, RequestOne DEF OneAtATime
<1>4. CASE OnConnected
  <2>1. /\ Event("Connected") /\ RequestNextBlock(block_inventory, None) /\ connected' = TRUE
        /\ handling' = handling /\ link' = link
    BY <1>4 DEF OnConnected, peer
  <2>2. inbox # <<>> /\ Head(inbox).type = "Connected" /\ inbox' = Tail(inbox) /\ handling = None
    BY <1>2, <2>1
  <2>3. ~connected /\ toPeer = <<>> /\ ~HasType(inbox, "Block") /\ ~HasType(toPeer, "GetData")
    BY <1>1, <2>2 DEF Session, OneAtATime
  <2>4. OneAtATime' /\ (~connected' \/ link = "down" => toPeer' = <<>>)
    BY <1>0, <1>1, <1>3, <2>1, <2>2, <2>3
  <2>5. Session'
    BY <1>1, <2>1, <2>2, <2>4 DEF Session, HasType
  <2> QED  BY <2>4, <2>5
<1>5. CASE OnDisconnected
  <2>1. /\ Event("Disconnected") /\ connected' = FALSE
        /\ UNCHANGED <<block_inventory, handling, toPeer, link>>
    BY <1>5 DEF OnDisconnected, peer
  <2>2. inbox # <<>> /\ Head(inbox).type = "Disconnected" /\ inbox' = Tail(inbox)
    BY <1>2, <2>1
  <2>3. inbox' = <<>> /\ toPeer = <<>>
    BY <1>1, <2>2 DEF Session
  <2> QED  BY <2>1, <2>3 DEF OneAtATime, Session, InOrder, LastOnly, FirstOnly, HasType
<1>6. CASE OnInv
  <2>1. /\ Event("Inv") /\ UNCHANGED <<connected, handling, link>> /\ Head(inbox).objects \in Seq(Block)
    BY <1>0, <1>6, EventFacts DEF OnInv, peer
  <2>2. inbox # <<>> /\ Head(inbox).type = "Inv" /\ inbox' = Tail(inbox) /\ handling = None
    BY <1>2, <2>1
  <2>3. OneAtATime' /\ (~connected' \/ link = "down" => toPeer' = <<>>)
    <3>1. CASE block_inventory = <<>>
      <4>1. ~HasType(inbox, "Block") /\ ~HasType(toPeer, "GetData")
        BY <3>1 DEF OneAtATime
      <4>2. RequestNextBlock(Append(block_inventory, Head(inbox).objects), None)
        BY <1>6, <3>1 DEF OnInv
      <4>3. Append(block_inventory, Head(inbox).objects) \in Seq(Seq(Block))
        BY <1>0, <2>1
      <4> QED  BY <1>1, <1>3, <2>1, <2>2, <4>1, <4>2, <4>3 DEF Session
    <3>2. CASE block_inventory # <<>>
      <4>1. block_inventory' = Append(block_inventory, Head(inbox).objects) /\ toPeer' = toPeer
        BY <1>6, <3>2 DEF OnInv
      <4>2. block_inventory' # <<>>
        BY <1>0, <2>1, <4>1
      <4> QED  BY <1>1, <2>1, <2>2, <4>1, <4>2 DEF OneAtATime, Session
    <3> QED  BY <3>1, <3>2
  <2>4. Session'
    BY <1>1, <2>1, <2>2, <2>3 DEF Session, HasType
  <2> QED  BY <2>3, <2>4
<1>7. CASE OnOrphan
  <2>1. /\ Event("Block") /\ RequestNextBlock(<<>>, None) /\ UNCHANGED <<connected, handling, link>>
    BY <1>7 DEF OnOrphan, peer
  <2>2. inbox # <<>> /\ Head(inbox).type = "Block" /\ inbox' = Tail(inbox) /\ handling = None
    BY <1>2, <2>1
  <2>3. toPeer = <<>> /\ <<>> \in Seq(Seq(Block)) /\ ~HasType(toPeer, "GetData")
    BY <1>1, <2>2 DEF OneAtATime, HasType
  <2>4. OneAtATime' /\ (~connected' \/ link = "down" => toPeer' = <<>>)
    BY <1>1, <1>3, <2>1, <2>2, <2>3
  <2>5. Session'
    BY <1>1, <2>1, <2>2, <2>4 DEF Session, HasType
  <2> QED  BY <2>4, <2>5
<1>8. CASE OnBlockEvent
  <2>1. /\ Event("Block") /\ UNCHANGED <<connected, toPeer, link>>
    BY <1>8 DEF OnBlockEvent, peer
  <2>2. inbox # <<>> /\ Head(inbox).type = "Block" /\ inbox' = Tail(inbox)
    BY <1>2, <2>1
  <2>3. toPeer = <<>> /\ ~HasType(toPeer, "GetData") /\ LastOnly(toPeer, "GetData")
    BY <1>1, <2>2 DEF OneAtATime, HasType
  <2>4. OneAtATime'
    BY <1>1, <2>1, <2>2, <2>3 DEF OneAtATime
  <2>5. Session'
    BY <1>1, <2>1, <2>2, <2>3 DEF Session, HasType
  <2> QED  BY <2>4, <2>5
<1>9. CASE FinishBlock
  <2>1. /\ handling # None /\ handling' = None /\ UNCHANGED <<connected, inbox, link>>
        /\ RequestNextBlock(block_inventory, handling)
    BY <1>9 DEF FinishBlock, peer
  <2>2. ~HasType(inbox, "Block") /\ ~HasType(toPeer, "GetData") /\ InOrder(inbox)
    BY <2>1 DEF OneAtATime
  <2>3. OneAtATime' /\ (~connected' \/ link = "down" => toPeer' = <<>>)
    BY <1>0, <1>3, <2>1, <2>2 DEF Session
  <2>4. Session'
    BY <2>1, <2>3 DEF Session
  <2> QED  BY <2>3, <2>4
<1>10. CASE BlockManagerStep \/ WriterStep \/ UNCHANGED lvars
  <2>1. UNCHANGED <<connected, link, block_inventory, handling, inbox, toPeer>>
    BY <1>10 DEF BlockManagerStep, WriterStep, lvars, logic, peer
  <2> QED  BY <2>1 DEF OneAtATime, Session
<1>11. ASSUME NEW e, inbox' = Append(inbox, e), Clean(e) \/ ~HasType(inbox, "Block"),
              e.type \in {"Inv", "Block"}, link = "up"
       PROVE  /\ InOrder(inbox') /\ FirstOnly(inbox', "Connected") /\ LastOnly(inbox', "Disconnected")
              /\ HasType(inbox', "Block") <=> HasType(inbox, "Block") \/ e.type = "Block"
              /\ HasType(inbox', "Connected") <=> HasType(inbox, "Connected")
              /\ ~HasType(inbox', "Disconnected")
  <2>1. InOrder(inbox) /\ FirstOnly(inbox, "Connected") /\ ~HasType(inbox, "Disconnected")
    BY <1>11 DEF OneAtATime, Session
  <2> QED  BY <1>0, <1>11, <2>1, QueueAppend
<1>12. CASE PeerServe
  <2>1. /\ toPeer # <<>> /\ toPeer' = Tail(toPeer) /\ Head(toPeer) \in Message(Block, Hash) /\ link = "up"
        /\ UNCHANGED <<connected, link, block_inventory, handling>> /\ connected
    BY <1>0, <1>12 DEF PeerServe, logic, peer, Session
  <2>2. /\ LastOnly(Tail(toPeer), "GetData") /\ ~HasType(inbox, "Block")
        /\ HasType(Tail(toPeer), "GetData") => HasType(toPeer, "GetData")
        /\ Head(toPeer).type = "GetData" => HasType(toPeer, "GetData") /\ Tail(toPeer) = <<>>
    BY <1>0, <2>1, QueueTail DEF OneAtATime
  <2>3. CASE Head(toPeer).type = "GetBlocks"
    <3>1. \/ inbox' = inbox
          \/ inbox' = Append(inbox, [type |-> "Inv", objects |-> Behind(Head(toPeer).hash)])
      BY <1>12, <2>3 DEF PeerServe, Deliver
    <3>2. CASE inbox' = inbox
      BY <2>1, <2>2, <3>2 DEF OneAtATime, Session
    <3>3. CASE inbox' = Append(inbox, [type |-> "Inv", objects |-> Behind(Head(toPeer).hash)])
      <4>1. PICK e : inbox' = Append(inbox, e) /\ e.type = "Inv"
        BY <3>3
      <4> QED  BY <1>11, <2>1, <2>2, <4>1 DEF OneAtATime, Session
    <3> QED  BY <3>1, <3>2, <3>3
  <2>4. CASE Head(toPeer).type = "GetData"
    <3>1. inbox' = Append(inbox, [type |-> "Block", block |-> Head(toPeer).hash])
      BY <1>12, <2>4 DEF PeerServe, Deliver
    <3>2. PICK e : inbox' = Append(inbox, e) /\ e.type = "Block"
      BY <3>1
    <3> QED  BY <1>11, <2>1, <2>2, <2>4, <3>2 DEF OneAtATime, Session
  <2> QED  BY <2>1, <2>3, <2>4, MessageFields
<1>13. CASE PeerMine \/ PeerReorg \/ TxInv
  <2>1. UNCHANGED <<connected, link, block_inventory, handling, toPeer>>
    BY <1>13 DEF PeerMine, PeerReorg, TxInv, logic, peer
  <2>2. CASE inbox' = inbox
    BY <2>1, <2>2 DEF OneAtATime, Session
  <2>3. CASE inbox' # inbox
    <3>1. PICK s : /\ link = "up" /\ inbox' = Append(inbox, [type |-> "Inv", objects |-> s])
                   /\ s = <<>> \/ (s = <<tip'>> /\ (PeerMine \/ PeerReorg))
      <4>1. CASE TxInv
        BY <4>1 DEF TxInv, Deliver
      <4>2. CASE PeerMine \/ PeerReorg
        <5>1. link = "up" /\ inbox' = Append(inbox, [type |-> "Inv", objects |-> <<tip'>>])
          BY <2>3, <4>2 DEF PeerMine, PeerReorg, Announce, Deliver
        <5> QED  BY <4>2, <5>1
      <4> QED  BY <1>13, <4>1, <4>2
    <3>2. s \in Seq(Fresh)
      <4>1. ASSUME PeerMine \/ PeerReorg  PROVE tip' \in Fresh
        <5>1. tip \in DOMAIN Chain /\ Len(Chain[tip]) < Len(Chain[tip'])
          BY <1>0, <4>1, LongerChain DEF LTypeOK
        <5>2. Len(Chain[tip]) \in Nat
          BY <5>1, TipIsBlock
        <5> QED  BY <5>1, <5>2
      <4>2. <<>> \in Seq(Fresh) /\ \A b \in Fresh : <<b>> \in Seq(Fresh)
        OBVIOUS
      <4> QED  BY <3>1, <4>1, <4>2
    <3>3. PICK e : inbox' = Append(inbox, e) /\ e.type = "Inv" /\ e.objects = s
      BY <3>1
    <3>4. Clean(e)
      BY <3>2, <3>3 DEF Clean
    <3> QED  BY <1>11, <2>1, <3>1, <3>3, <3>4 DEF OneAtATime, Session
  <2> QED  BY <2>2, <2>3
<1>14. CASE Connect
  <2>1. /\ link = "down" /\ ~connected /\ ~HasType(inbox, "Disconnected") /\ link' = "up"
        /\ inbox' = Append(inbox, [type |-> "Connected"])
        /\ UNCHANGED <<connected, block_inventory, handling, toPeer>>
    BY <1>14 DEF Connect, Deliver, logic, HasType
  <2>2. inbox = <<>> /\ toPeer = <<>>
    BY <2>1 DEF Session
  <2>3. inbox' = <<[type |-> "Connected"]>>
    BY <2>1, <2>2
  <2>4. /\ DOMAIN inbox' = {1} /\ inbox'[1].type = "Connected" /\ Len(inbox') = 1
    BY <2>3
  <2> QED  BY <2>1, <2>2, <2>4 DEF OneAtATime, Session, HasType, InOrder, LastOnly, FirstOnly
<1>15. CASE Disconnect
  <2>1. PICK n \in 0..Len(inbox) : inbox' = SubSeq(inbox, 1, n) \o <<[type |-> "Disconnected"]>>
    BY <1>15 DEF Disconnect
  <2>2. /\ link = "up" /\ link' = "down" /\ toPeer' = <<>> /\ UNCHANGED <<connected, block_inventory, handling>>
    BY <1>15 DEF Disconnect, logic
  <2> DEFINE t == SubSeq(inbox, 1, n)
  <2>3. /\ t \in Seq(PeerEvent(Block)) /\ InOrder(t) /\ FirstOnly(t, "Connected")
        /\ \A ty : HasType(t, ty) => HasType(inbox, ty)
    BY <1>0, QueueFront DEF OneAtATime, Session
  <2>4. ~HasType(t, "Disconnected")
    BY <2>2, <2>3 DEF Session
  <2>5. PICK e : inbox' = Append(t, e) /\ e.type = "Disconnected"
    <3>1. ASSUME NEW S, NEW s \in Seq(S), NEW d  PROVE s \o <<d>> = Append(s, d)
      OBVIOUS
    <3>2. inbox' = Append(t, [type |-> "Disconnected"])
      BY <2>1, <2>3, <3>1
    <3> QED  BY <3>2
  <2> HIDE DEF t
  <2>6. Clean(e)
    BY <2>5 DEF Clean
  <2>7. /\ InOrder(inbox') /\ FirstOnly(inbox', "Connected") /\ LastOnly(inbox', "Disconnected")
        /\ HasType(inbox', "Disconnected")
        /\ HasType(inbox', "Block") => HasType(inbox, "Block")
        /\ HasType(inbox', "Connected") => HasType(inbox, "Connected")
    BY <2>3, <2>4, <2>5, <2>6, QueueAppend
  <2> QED  BY <2>2, <2>7 DEF OneAtATime, Session, HasType, LastOnly
<1> QED  BY <1>4, <1>5, <1>6, <1>7, <1>8, <1>9, <1>10, <1>12, <1>13, <1>14, <1>15 DEF LNext, Handler

(* The last header, when it is on the other branch, is a locator that the   *)
(* peer knows.                                                              *)
LEMMA LastKnownNear ==
    ASSUME SwitchSettings, NEW t \in DOMAIN Chain, t = FirstTip \/ Len(Chain[FirstTip]) < Len(Chain[t]),
           NEW headers \in Seq(Block),
           \A i \in DOMAIN headers : headers[i] \in Seen(t) /\ Depth[headers[i]] > 0,
           LastKnown(headers) \in Other
    PROVE  LastKnown(headers) \in Near(t)
<1> DEFINE x == LastKnown(headers)
<1>1. x \in Seen(t) /\ Depth[x] >= 0
  <2>1. CASE headers = <<>>
    <3>1. x = StartHash /\ StartHash \in Range(Chain[t])
      BY <2>1 DEF LastKnown, SwitchSettings, SameOrigin
    <3> QED  BY <3>1, BlockAssumption DEF Seen
  <2>2. CASE headers # <<>>
    <3>1. x = headers[Len(headers)] /\ Len(headers) \in DOMAIN headers /\ x \in Block
      BY <2>2 DEF LastKnown
    <3>2. x \in Seen(t) /\ Depth[x] > 0
      BY <3>1
    <3> QED  BY <3>1, <3>2, BlockAssumption
  <2> QED  BY <2>1, <2>2
<1>2. x \in Range(Chain[t])
  BY <1>1, SeenOfOther
<1> QED  BY <1>1, <1>2 DEF Near

(* is_orphan takes no fresh block for an orphan, whatever the branch.       *)
LEMMA FreshIsNoOrphan ==
    ASSUME SwitchSettings, TypeOK, LTypeOK, EarlyTimestamp
    PROVE  /\ StartTimestamp # None => \A b \in Fresh : StartTimestamp <= Timestamp[b]
           /\ StartTimestamp = None => start_block_timestamp = None
           /\ \A b \in Fresh : ~IsOrphan(b)
<1>0. /\ block_headers \in Seq(Block) /\ Len(block_headers) \in Nat /\ DOMAIN block_headers = 1..Len(block_headers)
      /\ Threshold \in Nat /\ \A b \in Fresh : b \in Block /\ Timestamp[b] \in Nat
  BY LogicAssumption DEF TypeOK, Fresh
<1>1. /\ StartTimestamp # None => \A b \in Fresh : StartTimestamp <= Timestamp[b]
      /\ StartTimestamp = None => start_block_timestamp = None
  <2>1. CASE start_block_timestamp # None \/ ~DetectOrphans \/ Len(block_headers) <= Threshold
    <3>1. StartTimestamp = start_block_timestamp
      BY <2>1 DEF StartTimestamp
    <3> QED  BY <3>1 DEF EarlyTimestamp
  <2>2. CASE ~(start_block_timestamp # None \/ ~DetectOrphans \/ Len(block_headers) <= Threshold)
    <3> DEFINE T == {Timestamp[h] : h \in Headers}
    <3>1. StartTimestamp = Min(T) /\ 1 \in DOMAIN block_headers /\ block_headers # <<>>
      BY <1>0, <2>2 DEF StartTimestamp
    <3>2. Headers \subseteq Block /\ block_headers[1] \in Headers
      BY <1>0, <3>1 DEF Headers
    <3>3. T \subseteq Nat /\ Timestamp[block_headers[1]] \in T
      BY <3>2, LogicAssumption
    <3>4. Min(T) <= Timestamp[block_headers[1]] /\ Min(T) \in Nat /\ Timestamp[block_headers[1]] \in Nat
      BY <3>3, MinIsLeast
    <3> HIDE DEF T
    <3>5. Depth[block_headers[1]] = 1
      BY <2>2, <3>1 DEF EarlyTimestamp
    <3>6. block_headers[1] \in Fresh
      BY <3>2, <3>5 DEF Fresh
    <3>7. \A b \in Fresh : Timestamp[block_headers[1]] <= Timestamp[b]
      BY <3>5, <3>6 DEF SwitchSettings, OldestFirst
    <3>8. \A b \in Fresh : Min(T) <= Timestamp[b]
      BY <1>0, <3>4, <3>7
    <3> QED  BY <2>2, <3>1, <3>8
  <2> QED  BY <2>1, <2>2
<1>2. ASSUME NEW b \in Fresh  PROVE ~IsOrphan(b)
  <2>1. StartTimestamp \in Nat \cup {None}
    BY StartTimestampType
  <2> QED  BY <1>0, <1>1, <2>1 DEF IsOrphan
<1> QED  BY <1>1, <1>2

(* handle_orphan_block leaves the headers before the last one.              *)
LEMMA RollBackKeeps ==
    ASSUME TypeOK, HandleOrphanBlock
    PROVE  \A i \in DOMAIN block_headers' : i \in DOMAIN block_headers /\ block_headers'[i] = block_headers[i]
<1>0. block_headers \in Seq(Block) /\ DOMAIN block_headers = 1..Len(block_headers) /\ Len(block_headers) \in Nat
  BY DEF TypeOK
<1>1. CASE block_headers = <<>>
  BY <1>1 DEF HandleOrphanBlock
<1>2. CASE block_headers # <<>>
  <2>1. block_headers' = SubSeq(block_headers, 1, Len(block_headers) - 1)
    BY <1>2 DEF HandleOrphanBlock
  <2>2. Len(block_headers) - 1 \in 0..Len(block_headers)
    BY <1>0, <1>2
  <2>3. /\ SubSeq(block_headers, 1, Len(block_headers) - 1) \in Seq(Block)
        /\ Len(SubSeq(block_headers, 1, Len(block_headers) - 1)) = Len(block_headers) - 1
        /\ \A i \in 1..(Len(block_headers) - 1) :
              SubSeq(block_headers, 1, Len(block_headers) - 1)[i] = block_headers[i]
    BY <1>0, <2>2, FrontFacts
  <2>4. DOMAIN block_headers' = 1..(Len(block_headers) - 1)
    BY <2>1, <2>3
  <2>5. \A i \in 1..(Len(block_headers) - 1) : i \in 1..Len(block_headers)
    BY <1>0
  <2> QED  BY <1>0, <2>1, <2>3, <2>4, <2>5
<1> QED  BY <1>1, <1>2

(* The block manager holds what it is given.                                *)
LEMMA StepHeld ==
    ASSUME NEW B, IInv, Held(B),
           \/ WriteBlockToFile \/ ProcessBlockQueue \/ ProcessBlock \/ HandleOrphanBlock
           \/ \E b \in B : b \in Block /\ OnBlock(b)
           \/ UNCHANGED <<memory, pc, cur>>
    PROVE  Held(B)'
<1> USE DEF memory
<1>0. /\ TypeOK /\ last_hash_processed \in Hash /\ block_queue \in [Hash -> Entry \cup {None}]
      /\ block_headers \in Seq(Block) /\ DOMAIN block_headers = 1..Len(block_headers) /\ Len(block_headers) \in Nat
  BY DEF IInv, TypeOK
<1>1. CASE WriteBlockToFile
  <2>1. cur \in Entry /\ cur'.block = cur.block /\ pc = "write" /\ UNCHANGED <<block_headers, block_queue>>
    BY <1>0, <1>1 DEF WriteBlockToFile, TypeOK, Entry
  <2> QED  BY <2>1 DEF Held
<1>2. CASE ProcessBlockQueue
  <2>1. CASE block_queue[last_hash_processed] # None
    <3>1. /\ cur' = block_queue[last_hash_processed] /\ block_headers' = block_headers
          /\ block_queue' = [block_queue EXCEPT ![last_hash_processed] = None]
      BY <1>2, <2>1 DEF ProcessBlockQueue, Begin
    <3>2. \A h \in Hash : block_queue'[h] # None => block_queue'[h] = block_queue[h]
      BY <1>0, <3>1
    <3> QED  BY <1>0, <2>1, <3>1, <3>2 DEF Held
  <2>2. CASE block_queue[last_hash_processed] = None
    BY <1>2, <2>2 DEF ProcessBlockQueue, Held
  <2> QED  BY <2>1, <2>2
<1>3. CASE ProcessBlock
  <2>1. cur.block \in B /\ pc' = "drain" /\ block_queue' = block_queue
    BY <1>3 DEF ProcessBlock, StoreBlock, Held
  <2>2. block_headers' = block_headers \/ block_headers' = Append(block_headers, cur.block)
    BY <1>3 DEF ProcessBlock, StoreBlock
  <2>3. \A i \in DOMAIN block_headers' : block_headers'[i] \in B
    <3>1. CASE block_headers' = Append(block_headers, cur.block)
      <4>1. \A i \in 1..(Len(block_headers) + 1) :
               Append(block_headers, cur.block)[i] = IF i = Len(block_headers) + 1 THEN cur.block ELSE block_headers[i]
        BY <1>0
      <4>2. DOMAIN block_headers' = 1..(Len(block_headers) + 1)
        <5>1. ASSUME NEW S, NEW s \in Seq(S), NEW e  PROVE DOMAIN Append(s, e) = 1..(Len(s) + 1)
          OBVIOUS
        <5>2. DOMAIN Append(block_headers, cur.block) = 1..(Len(block_headers) + 1)
          BY <1>0, <5>1
        <5> QED  BY <3>1, <5>2
      <4>3. \A i \in 1..(Len(block_headers) + 1) : i # Len(block_headers) + 1 => i \in DOMAIN block_headers
        BY <1>0
      <4> QED  BY <2>1, <3>1, <4>1, <4>2, <4>3 DEF Held
    <3> QED  BY <2>2, <3>1 DEF Held
  <2> QED  BY <2>1, <2>3 DEF Held
<1>4. CASE HandleOrphanBlock
  <2>1. block_queue' = [h \in Hash |-> None] /\ pc' = pc /\ pc = "idle"
    BY <1>4 DEF HandleOrphanBlock, control
  <2>2. \A i \in DOMAIN block_headers' : i \in DOMAIN block_headers /\ block_headers'[i] = block_headers[i]
    BY <1>0, <1>4, RollBackKeeps
  <2> QED  BY <2>1, <2>2 DEF Held
<1>5. ASSUME NEW b \in B, b \in Block, OnBlock(b)
      PROVE  Held(B)'
  <2> DEFINE e == [block |-> b, position |-> None]
  <2>1. Accept(b, None) /\ pc = "idle" /\ e.block = b
    BY <1>5 DEF OnBlock
  <2>2. CASE ~Known(b) /\ Prev[b] = last_hash_processed /\ Begin(e) /\ UNCHANGED memory
    BY <1>5, <2>1, <2>2 DEF Held, Begin
  <2>3. CASE /\ block_queue' = IF block_queue[Prev[b]] = None
                               THEN [block_queue EXCEPT ![Prev[b]] = e] ELSE block_queue
             /\ UNCHANGED <<pc, block_headers>>
    <3>1. \A h \in Hash : block_queue'[h] = block_queue[h] \/ block_queue'[h] = e
      BY <1>0, <2>3
    <3> QED  BY <1>5, <2>1, <2>3, <3>1 DEF Held
  <2>4. CASE UNCHANGED <<memory, pc, cur>>
    BY <2>1, <2>4 DEF Held
  <2> QED  BY <2>1, <2>2, <2>3, <2>4 DEF Accept
<1>6. CASE UNCHANGED <<memory, pc, cur>>
  BY <1>6 DEF Held
<1> QED  BY <1>1, <1>2, <1>3, <1>4, <1>5, <1>6

(* process_block on the block in hand: a block of the other branch follows  *)
(* a block of the other branch.                                             *)
LEMMA ProcessLast ==
    ASSUME SwitchSettings, IInv, LastInv, EarlyTimestamp, ProcessBlock,
           start_block_timestamp' = start_block_timestamp
    PROVE  /\ LastInv' /\ EarlyTimestamp'
           /\ Len(block_headers') >= Len(block_headers)
           /\ LastKnown(block_headers') \in Other => LastKnown(block_headers) \in Other
<1> DEFINE b == cur.block
           n == Len(block_headers)
<1>0. /\ TypeOK /\ b \in Block /\ Prev[b] = last_hash_processed /\ Depth[last_hash_processed] \in Int
      /\ block_headers \in Seq(Block) /\ n \in Nat /\ DOMAIN block_headers = 1..n
  BY BlockAssumption DEF IInv, ProcessBlock, TypeOK, Entry, InHandIsNext
<1>1. Depth[b] = Depth[last_hash_processed] + 1 /\ Depth[b] > 0 /\ Depth[b] \in Int
  BY <1>0, BlockAssumption DEF LastInv
<1>2. b \in Other => last_hash_processed \in Other
  <2>1. b \in Fresh
    BY <1>0, <1>1 DEF Fresh
  <2> QED  BY <1>0, <2>1, ParentOfOther
<1>3. last_hash_processed' = b
  BY <1>0 DEF ProcessBlock, StoreBlock
<1>4. CASE height > MaxI32
  <2>1. block_headers' = block_headers /\ height' = height
    BY <1>0, <1>4 DEF ProcessBlock, StoreBlock
  <2>2. LastInv'
    BY <1>1, <1>2, <1>3, <2>1 DEF LastInv
  <2>3. start_block_timestamp = None => block_headers # <<>>
    BY <1>4, ConfigAssumption DEF EarlyTimestamp, SwitchSettings, PeerSettings, HeightsFit
  <2> QED  BY <1>0, <2>1, <2>2, <2>3 DEF EarlyTimestamp
<1>5. CASE ~(height > MaxI32)
  <2>1. block_headers' = Append(block_headers, b)
    BY <1>0, <1>5 DEF ProcessBlock, StoreBlock
  <2>2. /\ DOMAIN block_headers' = 1..(n + 1) /\ Len(block_headers') = n + 1 /\ block_headers'[n + 1] = b
        /\ block_headers' # <<>> /\ \A i \in 1..n : block_headers'[i] = block_headers[i]
    BY <1>0, <2>1
  <2>3. LastKnown(block_headers') = b
    BY <2>2 DEF LastKnown
  <2>4. \A i \in 1..(n + 1) : i \in 1..n \/ i = n + 1
    BY <1>0
  <2>5. LastInv'
    BY <1>0, <1>1, <1>3, <2>2, <2>3, <2>4 DEF LastInv
  <2>6. EarlyTimestamp'
    <3>1. CASE block_headers = <<>>
      <4>1. n = 0 /\ (start_block_timestamp = None => last_hash_processed = StartHash)
        BY <3>1 DEF EarlyTimestamp
      <4>2. start_block_timestamp = None => Depth[block_headers'[1]] = 1
        BY <1>1, <2>2, <4>1, BlockAssumption
      <4> QED  BY <2>2, <4>2 DEF EarlyTimestamp
    <3>2. CASE block_headers # <<>>
      <4>1. 1 \in 1..n
        BY <1>0, <3>2
      <4> QED  BY <2>2, <3>2, <4>1 DEF EarlyTimestamp
    <3> QED  BY <3>1, <3>2
  <2>7. b \in Other => LastKnown(block_headers) \in Other
    BY <1>2 DEF LastInv
  <2> QED  BY <1>0, <2>2, <2>3, <2>5, <2>6, <2>7
<1> QED  BY <1>4, <1>5

(* A step of the node keeps to the blocks that the peer can have sent.      *)
LEMMA NodeHeld ==
    ASSUME LInv, FreshStart, Held(Seen(tip)), Traffic(Seen(tip), Hash),
           Handler \/ WriterStep \/ UNCHANGED lvars
    PROVE  tip' = tip /\ Held(Seen(tip))' /\ Traffic(Seen(tip), Hash)'
<1>1. tip' = tip
  BY DEF Handler, WriterStep, OnConnected, OnDisconnected, OnInv, OnOrphan, OnBlockEvent, FinishBlock,
         BlockManagerStep, lvars, peer
<1>2. PICK B : B = Seen(tip)
  OBVIOUS
<1>3. Held(B) /\ Traffic(B, Hash)
  BY <1>2
<1>4. B = Seen(tip')
  BY <1>1, <1>2
<1>5. LastKnown(block_headers') \in Hash
  <2>1. TypeOK'
    BY LNextInv DEF LInv, IInv, LNext
  <2> QED  BY <2>1, LastKnownType DEF TypeOK
<1>6. Traffic(B, Hash)'
  BY <1>3, <1>5, HandlerTraffic
<1>7. \/ WriteBlockToFile \/ ProcessBlockQueue \/ ProcessBlock \/ HandleOrphanBlock
      \/ \E b \in B : b \in Block /\ OnBlock(b)
      \/ UNCHANGED <<memory, pc, cur>>
  <2>1. CASE OnConnected \/ OnDisconnected \/ OnInv \/ FinishBlock \/ WriterStep \/ UNCHANGED lvars
    BY <2>1 DEF OnConnected, OnDisconnected, OnInv, FinishBlock, WriterStep, DbPerform, lvars, vars, control
  <2>2. CASE OnOrphan
    BY <2>2 DEF OnOrphan
  <2>3. CASE OnBlockEvent
    <3>1. Head(inbox).block \in B /\ OnBlock(Head(inbox).block)
      BY <1>3, <2>3, EventFacts DEF OnBlockEvent, Traffic
    <3>2. Head(inbox).block \in Block
      BY <2>3, EventFacts DEF OnBlockEvent, LInv, LTypeOK, Traffic
    <3> QED  BY <3>1, <3>2
  <2>4. CASE BlockManagerStep
    BY <2>4, LoadNothing DEF BlockManagerStep, LInv
  <2> QED  BY <2>1, <2>2, <2>3, <2>4 DEF Handler
<1>8. Held(B)'
  BY <1>3, <1>7, StepHeld DEF LInv
<1>9. Held(Seen(tip))'
  BY <1>4, <1>8 DEF Held
<1>10. Traffic(Seen(tip), Hash)'
  BY <1>4, <1>6 DEF Traffic
<1> QED  BY <1>1, <1>9, <1>10

(* A step of the node that is no roll-back: no header goes, and the last    *)
(* one gets on the other branch only from that branch.                      *)
LEMMA NodeLast ==
    ASSUME SwitchSettings, LInv, FreshStart, LastInv, EarlyTimestamp,
           Handler \/ WriterStep \/ UNCHANGED lvars, ~OnOrphan
    PROVE  /\ LastInv' /\ EarlyTimestamp' /\ Len(block_headers') >= Len(block_headers)
           /\ LastKnown(block_headers') \in Other => LastKnown(block_headers) \in Other
<1>0. TypeOK /\ LTypeOK /\ IInv /\ Len(block_headers) \in Nat
  BY DEF LInv, IInv, TypeOK
<1> DEFINE Kept == /\ LastInv' /\ EarlyTimestamp' /\ Len(block_headers') >= Len(block_headers)
                   /\ LastKnown(block_headers') \in Other => LastKnown(block_headers) \in Other
<1>1. ASSUME UNCHANGED <<block_headers, last_hash_processed, height>>,
             start_block_timestamp' \in {start_block_timestamp, StartTimestamp}
      PROVE  Kept
  <2>1. LastInv'
    BY <1>1 DEF LastInv
  <2>2. /\ StartTimestamp # None => \A b \in Fresh : StartTimestamp <= Timestamp[b]
        /\ StartTimestamp = None => start_block_timestamp = None
    BY <1>0, FreshIsNoOrphan
  <2>3. EarlyTimestamp'
    BY <1>1, <2>2 DEF EarlyTimestamp
  <2> QED  BY <1>0, <1>1, <2>1, <2>3
<1>2. CASE OnConnected \/ OnDisconnected \/ OnInv \/ FinishBlock \/ WriterStep \/ UNCHANGED lvars
  BY <1>1, <1>2 DEF OnConnected, OnDisconnected, OnInv, FinishBlock, WriterStep, DbPerform, lvars, vars, memory, logic
<1>3. CASE OnBlockEvent
  BY <1>1, <1>3 DEF OnBlockEvent, OnBlock, Accept, memory
<1>4. CASE BlockManagerStep
  <2>1. start_block_timestamp' = start_block_timestamp
    BY <1>4 DEF BlockManagerStep, logic
  <2>2. CASE LoadBlockheaders
    BY <1>0, <1>1, <2>1, <2>2, LoadNothing DEF memory
  <2>3. CASE WriteBlockToFile \/ ProcessBlockQueue
    BY <1>1, <2>1, <2>3 DEF WriteBlockToFile, ProcessBlockQueue, memory
  <2>4. CASE ProcessBlock
    BY <1>0, <2>1, <2>4, ProcessLast
  <2> QED  BY <1>4, <2>2, <2>3, <2>4 DEF BlockManagerStep
<1> QED  BY <1>2, <1>3, <1>4 DEF Handler

(* A roll-back: the peer has left the first branch, and the header that is  *)
(* taken away is not on its chain.  What was listed is forgotten, nothing   *)
(* is asked for, and what is still to come is fresh.                        *)
LEMMA OrphanLast ==
    ASSUME SwitchSettings, LInv, BranchInv, SwitchInv, OnOrphan
    PROVE  /\ LastKnown(block_headers) \notin Range(Chain[tip])
           /\ LastInv' /\ EarlyTimestamp'
           /\ \A H : LastKnown(block_headers') \in H => Traffic(Fresh, H)'
<1> DEFINE b == Head(inbox).block
           n == Len(block_headers)
<1>0. /\ TypeOK /\ LTypeOK /\ tip \in DOMAIN Chain /\ inbox \in Seq(PeerEvent(Block))
      /\ block_headers \in Seq(Block) /\ n \in Nat /\ DOMAIN block_headers = 1..n
      /\ OneAtATime /\ LastInv /\ Answers /\ EarlyTimestamp
  BY DEF LInv, IInv, TypeOK, LTypeOK, Traffic, SwitchInv
<1>1. /\ Event("Block") /\ IsOrphan(b) /\ HandleOrphanBlock /\ RequestNextBlock(<<>>, None)
      /\ start_block_timestamp' = StartTimestamp
  BY DEF OnOrphan
<1>2. /\ inbox # <<>> /\ Head(inbox).type = "Block" /\ inbox' = Tail(inbox)
  BY <1>0, <1>1, EventFacts
<1>3. ~OnBranch(tip)
  <2> SUFFICES ASSUME OnBranch(tip)  PROVE FALSE
    OBVIOUS
  <2>1. Synced
    BY DEF BranchInv
  <2>2. b \in Wanted(tip)
    BY <1>1, <2>1, EventFacts DEF Synced, TrafficWanted, Traffic
  <2> QED  BY <1>0, <1>1, <2>1, <2>2, WantedIsNoOrphan DEF Synced, SwitchSettings
<1>4. LastKnown(block_headers) \notin Other
  <2> SUFFICES ASSUME LastKnown(block_headers) \in Other  PROVE FALSE
    OBVIOUS
  <2>1. inbox \in Seq(PeerEvent(Fresh))
    BY <1>0 DEF Answers, Traffic
  <2>2. b \in Fresh
    BY <1>1, <2>1, EventFacts
  <2> QED  BY <1>0, <1>1, <2>2, FreshIsNoOrphan
<1>5. LastKnown(block_headers) \notin Range(Chain[tip])
  BY <1>0, <1>3, <1>4 DEF Other
<1>6. \A i \in DOMAIN block_headers' : i \in DOMAIN block_headers /\ block_headers'[i] = block_headers[i]
  BY <1>0, <1>1, RollBackKeeps
<1>7. LastInv'
  <2>1. last_hash_processed' = last_hash_processed /\ last_hash_processed \notin Other
    BY <1>0, <1>1, <1>4 DEF HandleOrphanBlock, LastInv
  <2> QED  BY <1>0, <1>6, <2>1 DEF LastInv
<1>8. EarlyTimestamp'
  <2>1. StartTimestamp # None
    BY <1>1 DEF IsOrphan
  <2>2. \A c \in Fresh : StartTimestamp <= Timestamp[c]
    BY <1>0, <2>1, FreshIsNoOrphan
  <2> QED  BY <1>1, <2>1, <2>2 DEF EarlyTimestamp
<1>9. toPeer = <<>> /\ \A j \in DOMAIN Tail(inbox) : Clean(Tail(inbox)[j])
  <2>1. HasType(inbox, "Block")
    BY <1>0, <1>2, QueueTail
  <2>2. \A j \in DOMAIN Tail(inbox) : Clean(Tail(inbox)[j])
    BY <1>0, <1>2, QueueTail DEF OneAtATime
  <2> QED  BY <1>0, <2>1, <2>2 DEF OneAtATime
<1>10. inbox' \in Seq(PeerEvent(Fresh))
  <2>1. Tail(inbox) \in Seq(PeerEvent(Block))
    BY <1>0, <1>2
  <2>2. ASSUME NEW e \in PeerEvent(Block), Clean(e)  PROVE e \in PeerEvent(Fresh)
    BY <2>2 DEF PeerEvent, Clean
  <2>3. ASSUME NEW S, NEW T, NEW s \in Seq(S), \A j \in DOMAIN s : s[j] \in T  PROVE s \in Seq(T)
    BY <2>3
  <2>4. \A j \in DOMAIN Tail(inbox) : Tail(inbox)[j] \in PeerEvent(Block)
    BY <2>1
  <2>5. \A j \in DOMAIN Tail(inbox) : Tail(inbox)[j] \in PeerEvent(Fresh)
    BY <1>9, <2>2, <2>4
  <2> QED  BY <1>2, <2>1, <2>3, <2>5
<1>11. ASSUME NEW H, LastKnown(block_headers') \in H  PROVE Traffic(Fresh, H)'
  <2>1. <<>> \in Seq(Seq(Fresh)) /\ <<>> \in Seq(Message(Fresh, H))
    <3>1. ASSUME NEW S  PROVE <<>> \in Seq(S)
      OBVIOUS
    <3> QED  BY <3>1, Zenon
  <2>2. block_inventory' \in Seq(Seq(Fresh)) /\ toPeer' \in Seq(Message(Fresh, H))
    BY <1>1, <1>9, <1>11, <2>1, RequestTraffic
  <2> QED  BY <1>10, <2>2 DEF Traffic
<1> QED  BY <1>5, <1>7, <1>8, <1>11

(* A step of the node.                                                      *)
LEMMA NodeSwitch ==
    ASSUME SwitchSettings, LInv, BranchInv, SwitchInv, Handler \/ WriterStep \/ UNCHANGED lvars
    PROVE  /\ tip' = tip /\ Held(Seen(tip))' /\ Traffic(Seen(tip), Hash)'
           /\ LastInv' /\ Answers' /\ EarlyTimestamp'
           /\ Len(block_headers') < Len(block_headers) => LastKnown(block_headers) \notin Range(Chain[tip])
<1>0. /\ tip \in DOMAIN Chain /\ FreshStart /\ Len(block_headers) \in Nat
      /\ tip = FirstTip \/ Len(Chain[FirstTip]) < Len(Chain[tip])
      /\ Held(Seen(tip)) /\ Traffic(Seen(tip), Hash) /\ LastInv /\ Answers /\ EarlyTimestamp
  BY DEF LInv, IInv, TypeOK, LTypeOK, BranchInv, SwitchInv
<1>1. tip' = tip /\ Held(Seen(tip))' /\ Traffic(Seen(tip), Hash)'
  BY <1>0, NodeHeld
<1>2. /\ LastInv' /\ EarlyTimestamp'
      /\ Len(block_headers') < Len(block_headers) => LastKnown(block_headers) \notin Range(Chain[tip])
  <2>1. CASE OnOrphan
    BY <2>1, OrphanLast
  <2>2. CASE ~OnOrphan
    <3>1. LastInv' /\ EarlyTimestamp' /\ Len(block_headers') >= Len(block_headers)
      BY <1>0, <2>2, NodeLast
    <3>2. block_headers' \in Seq(Block)
      BY LNextInv DEF LInv, IInv, TypeOK, LNext
    <3>3. Len(block_headers') \in Nat
      BY <3>2
    <3> QED  BY <1>0, <3>1, <3>3
  <2> QED  BY <2>1, <2>2
<1>3. Answers'
  <2> SUFFICES ASSUME LastKnown(block_headers') \in Other  PROVE Traffic(Fresh, Near(tip))'
    BY DEF Answers
  <2>1. PICK B, H : B = Fresh /\ H = Near(tip)
    OBVIOUS
  <2>2. B = Fresh /\ H = Near(tip')
    BY <1>1, <2>1
  <2>3. LastKnown(block_headers') \in H
    <3>1. block_headers' \in Seq(Block)
      BY LNextInv DEF LInv, IInv, TypeOK, LNext
    <3>2. \A i \in DOMAIN block_headers' : block_headers'[i] \in Seen(tip) /\ Depth[block_headers'[i]] > 0
      BY <1>1, <1>2 DEF Held, LastInv
    <3> QED  BY <1>0, <2>1, <3>1, <3>2, LastKnownNear
  <2>4. Traffic(B, H)'
    <3>1. CASE OnOrphan
      BY <2>1, <2>3, <3>1, OrphanLast
    <3>2. CASE ~OnOrphan
      <4>1. LastKnown(block_headers) \in Other
        BY <1>0, <3>2, NodeLast
      <4>2. Traffic(B, H)
        BY <1>0, <2>1, <4>1 DEF Answers
      <4> QED  BY <2>3, <4>2, HandlerTraffic
    <3> QED  BY <3>1, <3>2
  <2> QED  BY <2>2, <2>4 DEF Traffic
<1> QED  BY <1>1, <1>2, <1>3

(* A step of the peer or of the link.                                       *)
LEMMA PeerSwitch ==
    ASSUME SwitchSettings, LInv, BranchInv, SwitchInv,
           PeerServe \/ PeerMine \/ PeerReorg \/ TxInv \/ Connect \/ Disconnect
    PROVE  /\ Held(Seen(tip))' /\ Traffic(Seen(tip), Hash)'
           /\ LastInv' /\ Answers' /\ EarlyTimestamp'
           /\ block_headers' = block_headers /\ (tip' # tip => tip' \in Fresh)
<1>0. /\ tip \in DOMAIN Chain /\ tip' \in DOMAIN Chain
      /\ tip = FirstTip \/ Len(Chain[FirstTip]) < Len(Chain[tip])
      /\ Held(Seen(tip)) /\ Traffic(Seen(tip), Hash) /\ LastInv /\ Answers /\ EarlyTimestamp
  BY LNextInv DEF LInv, LTypeOK, BranchInv, SwitchInv, LNext
<1>1. UNCHANGED <<vars, start_block_timestamp>> /\ (tip' # tip => PeerMine \/ PeerReorg)
  BY DEF PeerServe, PeerMine, PeerReorg, TxInv, Connect, Disconnect, logic, peer
<1>2. ASSUME PeerMine \/ PeerReorg  PROVE tip' # tip
  <2>1. Len(Chain[tip]) < Len(Chain[tip']) /\ Len(Chain[tip]) \in Nat
    BY <1>0, <1>2, LongerChain, TipIsBlock
  <2> QED  BY <2>1
<1>3. /\ Seen(tip) \subseteq Seen(tip') /\ Near(tip) \subseteq Near(tip')
      /\ tip' # tip => tip' \in Fresh /\ tip' \in Seen(tip')
  <2>1. CASE tip' # tip
    <3>1. Len(Chain[tip]) < Len(Chain[tip'])
      BY <1>0, <1>1, <2>1, LongerChain
    <3> QED  BY <1>0, <3>1, SeenGrows
  <2>2. CASE tip' = tip
    BY <2>2
  <2> QED  BY <2>1, <2>2
<1>4. Held(Seen(tip))' /\ LastInv' /\ EarlyTimestamp' /\ block_headers' = block_headers
  <2>1. UNCHANGED <<block_headers, block_queue, last_hash_processed, height, pc, cur>>
    BY <1>1 DEF vars, memory, control
  <2>2. Held(Seen(tip))'
    BY <1>0, <1>3, <2>1 DEF Held
  <2>3. LastInv' /\ EarlyTimestamp'
    BY <1>0, <1>1, <2>1 DEF LastInv, EarlyTimestamp
  <2> QED  BY <2>1, <2>2, <2>3
<1>5. ASSUME NEW B, NEW H, Traffic(B, H), tip' # tip => tip' \in B,
             tip' = tip => \A h \in H : Behind(h) \in Seq(B)
      PROVE  Traffic(B, H)'
  <2>1. CASE PeerServe
    <3>1. tip' = tip
      BY <2>1 DEF PeerServe, peer
    <3> QED  BY <1>5, <2>1, <3>1, ServeTraffic
  <2>2. CASE PeerMine \/ PeerReorg
    BY <1>2, <1>5, <2>2, LinkTraffic
  <2>3. CASE TxInv \/ Connect \/ Disconnect
    BY <1>5, <2>3, LinkTraffic
  <2> QED  BY <2>1, <2>2, <2>3
<1>6. ASSUME NEW S, NEW T, S \subseteq T  PROVE Seq(S) \subseteq Seq(T)
  BY <1>6
<1>7. Traffic(Seen(tip), Hash)'
  <2>1. PICK B : B = Seen(tip')
    OBVIOUS
  <2>2. Traffic(B, Hash)
    BY <1>0, <1>3, <2>1, TrafficGrows
  <2>3. ASSUME tip' = tip, NEW h \in Hash  PROVE Behind(h) \in Seq(B)
    <3>1. Behind(h) \in Seq(Range(Chain[tip])) /\ Range(Chain[tip]) \subseteq B
      BY <1>0, <2>1, <2>3, BehindType DEF Seen
    <3>2. Seq(Range(Chain[tip])) \subseteq Seq(B)
      BY <1>6, <3>1
    <3> QED  BY <3>1, <3>2
  <2>4. Traffic(B, Hash)'
    BY <1>3, <1>5, <2>1, <2>2, <2>3
  <2> QED  BY <2>1, <2>4 DEF Traffic
<1>8. Answers'
  <2> SUFFICES ASSUME LastKnown(block_headers) \in Other  PROVE Traffic(Fresh, Near(tip))'
    BY <1>4 DEF Answers
  <2>1. PICK B, H : B = Fresh /\ H = Near(tip')
    OBVIOUS
  <2>2. Traffic(B, H)
    <3>1. Traffic(Fresh, Near(tip))
      BY <1>0 DEF Answers
    <3> QED  BY <1>3, <2>1, <3>1, TrafficGrows
  <2>3. ASSUME tip' = tip, NEW h \in H  PROVE Behind(h) \in Seq(B)
    <3>1. h \in Range(Chain[tip]) /\ Depth[h] >= 0
      BY <2>1, <2>3 DEF Near
    <3>2. Behind(h) \in Seq(Wanted(tip))
      BY <1>0, <3>1, BehindKnown DEF SwitchSettings
    <3>3. Wanted(tip) \subseteq B
      BY <1>0, <2>1, TipIsBlock DEF Wanted, Fresh, Range
    <3>4. Seq(Wanted(tip)) \subseteq Seq(B)
      BY <1>6, <3>3
    <3> QED  BY <3>2, <3>4
  <2>4. Traffic(B, H)'
    BY <1>3, <1>5, <2>1, <2>2, <2>3
  <2> QED  BY <2>1, <2>4 DEF Traffic
<1> QED  BY <1>3, <1>4, <1>7, <1>8

(* A node that starts.                                                      *)
LEMMA InitSwitch ==
    ASSUME SwitchSettings, LInit
    PROVE  SwitchInv
<1>1. /\ block_headers = <<>> /\ last_hash_processed = StartHash /\ height = StartHeight + 1
      /\ block_queue = [h \in Hash |-> None] /\ pc = "idle" /\ ~connected /\ link = "down"
      /\ block_inventory = <<>> /\ inbox = <<>> /\ toPeer = <<>> /\ start_block_timestamp = None
  BY DEF LInit, Init
<1>2. ASSUME NEW ty  PROVE ~HasType(<<>>, ty) /\ LastOnly(<<>>, ty) /\ FirstOnly(<<>>, ty) /\ InOrder(<<>>)
  BY DEF HasType, LastOnly, FirstOnly, InOrder
<1>3. OneAtATime /\ Session
  BY <1>1, <1>2 DEF OneAtATime, Session
<1>4. ASSUME NEW S  PROVE <<>> \in Seq(S)
  OBVIOUS
<1>5. ASSUME NEW B, NEW H  PROVE Traffic(B, H)
  BY <1>1, <1>4, Zenon DEF Traffic
<1>6. Held(Seen(tip))
  BY <1>1 DEF Held
<1>7. LastInv
  BY <1>1, BlockAssumption DEF LastInv, LastKnown
<1>8. EarlyTimestamp
  BY <1>1 DEF EarlyTimestamp
<1> QED  BY <1>3, <1>5, <1>6, <1>7, <1>8 DEF SwitchInv, Answers

(* SwitchInv is inductive, and with it a roll-back takes no known header.   *)
LEMMA NextSwitch ==
    ASSUME SwitchSettings, LInv, BranchInv, SwitchInv, [LNext]_lvars
    PROVE  /\ SwitchInv'
           /\ Len(block_headers') < Len(block_headers) => LastKnown(block_headers) \notin Range(Chain[tip])
<1>1. CASE Handler \/ WriterStep \/ UNCHANGED lvars
  <2>1. OneAtATime' /\ Session'
    BY <1>1, NodeSwitch, NextOneAtATime DEF SwitchInv
  <2> QED  BY <1>1, <2>1, NodeSwitch DEF SwitchInv
<1>2. CASE PeerServe \/ PeerMine \/ PeerReorg \/ TxInv \/ Connect \/ Disconnect
  <2>1. OneAtATime' /\ Session'
    BY <1>2, PeerSwitch, NextOneAtATime DEF SwitchInv
  <2>2. Len(block_headers) \in Nat
    BY DEF LInv, IInv, TypeOK
  <2>3. ~(Len(block_headers') < Len(block_headers))
    BY <1>2, <2>2, PeerSwitch
  <2> QED  BY <1>2, <2>1, <2>3, PeerSwitch DEF SwitchInv
<1> QED  BY <1>1, <1>2 DEF LNext

(* SwitchInv holds throughout.                                              *)
LEMMA AlwaysSwitchInv ==
    ASSUME SwitchSettings
    PROVE  LSpec => []SwitchInv
<1>1. LInit => SwitchInv
  BY InitSwitch
<1>2. PeerSettings
  BY DEF SwitchSettings
<1>3. LInv /\ BranchInv /\ SwitchInv /\ [LNext]_lvars => SwitchInv'
  BY NextSwitch
<1>4. LSpec => []BranchInv
  BY <1>2, AlwaysBranchInv
<1> QED  BY <1>1, <1>3, <1>4, LogicTypes, PTL DEF LSpec

(* A roll-back never takes a header that is on the chain of the peer, also  *)
(* while the node follows the peer from one branch to the other, as long as *)
(* the peer switches once.                                                  *)
THEOREM UnknownRolledBack ==
    ASSUME SwitchSettings
    PROVE  LSpec => OnlyUnknownRolledBack
<1>1. ASSUME LInv, BranchInv, SwitchInv, [LNext]_lvars
      PROVE  [Len(block_headers') < Len(block_headers) =>
                 \A i \in DOMAIN Chain[tip] : Chain[tip][i] # LastKnown(block_headers)]_lvars
  BY <1>1, NextSwitch DEF Range
<1>2. LInv /\ BranchInv /\ SwitchInv /\ [LNext]_lvars =>
         [Len(block_headers') < Len(block_headers) =>
             \A i \in DOMAIN Chain[tip] : Chain[tip][i] # LastKnown(block_headers)]_lvars
  BY <1>1
<1>3. LSpec => []BranchInv
  BY AlwaysBranchInv DEF SwitchSettings
<1> QED  BY <1>2, <1>3, AlwaysSwitchInv, LogicTypes, PTL DEF LSpec, OnlyUnknownRolledBack
==============================================================================

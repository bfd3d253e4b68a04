----------------------------- MODULE BlockManager -----------------------------
(***************************************************************************)
(* The block manager (rust/src/uaas/block_manager.rs): the header chain    *)
(* kept in memory, the queue of blocks that arrived early, the block file  *)
(* and the rows of the `blocks` and `orphans` tables that it asks the      *)
(* database writer thread for.                                             *)
(*                                                                         *)
(* A block is identified by its hash.  Handlers run on one thread, but the *)
(* writer thread and a crash interleave with them, so a handler is split   *)
(* at every effect that outlives the process: the append to the block file *)
(* ("write") is a step apart from the processing of the block ("process"), *)
(* and every turn of the loop over the queue ("drain") is a step.  No other*)
(* handler starts before the running one is back at "idle".                *)
(*                                                                         *)
(* The writer is abstracted to what Database.tla shows it to promise: the  *)
(* operations of the channel take effect in the order they were sent, each *)
(* at most once, and one may be lost.                                      *)
(***************************************************************************)
EXTENDS Integers, Sequences, FiniteSets

CONSTANTS
    Hash,            \* every block hash that can occur
    Block,           \* the blocks that a peer or the block file can deliver
    Prev,            \* header.prev_hash of each block
    Depth,           \* the true height of each block above the start block
    StartHash,       \* settings.start_block_hash
    StartHeight,     \* settings.start_block_height
    MaxI32,          \* i32::MAX, scaled down
    U32,             \* the modulus 2^32 of u32 arithmetic, scaled down
    LoadFromDb,      \* settings.startup_load_from_database
    SaveBlocks,      \* settings.save_blocks
    DetectOrphans,   \* config.orphan.detect
    Faults,          \* which of crash, lose, load, file can happen
    None,            \* Option::None
    MaxChan,         \* bound on the operations waiting in the channel
    MaxFile          \* bound on the blocks in the block file

(* A waiting block and its position in the block file, a row of the table   *)
(* blocks, and an operation for the writer.                                 *)
Position == Nat
Entry == [block : Block, position : Position \cup {None}]
Row == [height : Nat, position : Position]
Op == [op : {"BlockHeaderWrite", "OrphanBlockHeaderWrite", "BlockHeaderDelete"},
       hash : Block, height : Nat, position : Position]

(* What is left in the block file of a block whose write was cut off.       *)
Torn == None

ASSUME BlockAssumption ==
    /\ Block \subseteq Hash
    /\ StartHash \in Hash
    /\ Prev \in [Block -> Hash]
    /\ Depth \in [Hash -> Int]
    /\ Depth[StartHash] = 0
    /\ \A b \in Block : Depth[b] = Depth[Prev[b]] + 1
    /\ None \notin Hash /\ None \notin Nat
    /\ None \notin Entry /\ None \notin Row
ASSUME ConfigAssumption ==
    /\ StartHeight \in Nat
    /\ MaxI32 \in Nat
    /\ U32 \in Nat
    /\ StartHeight + 1 < U32
    /\ LoadFromDb \in BOOLEAN
    /\ SaveBlocks \in BOOLEAN
    /\ DetectOrphans \in BOOLEAN
    /\ Faults \subseteq {"crash", "lose", "load", "file"}
    /\ MaxChan \in Nat
    /\ MaxFile \in Nat

VARIABLES
    block_headers,        \* the hashes of the stored headers, in order
    hash_to_index,        \* hash -> height, None for a hash not held
    last_hash_processed,
    height,               \* the height the next block gets
    block_queue,          \* prev_hash -> the waiting block, or None
    mode,                 \* setup, read (the block file), run
    pc,                   \* idle, write, process, drain
    cur,                  \* the block being processed and its position
    rpos,                 \* blocks read from the block file by this start
    block_file,           \* the blocks in the file, in order, whole or torn
    chan,                 \* operations sent to the database writer
    blocks,               \* table blocks: hash -> row or None
    orphans               \* table orphans: <<hash, height>> rows

memory == <<block_headers, hash_to_index, last_hash_processed, height, block_queue>>
control == <<mode, pc, cur, rpos>>
tables == <<blocks, orphans>>
vars == <<memory, control, block_file, chan, tables>>

Known(h) == hash_to_index[h] # None
Headers == {block_headers[i] : i \in DOMAIN block_headers}
Rows == {h \in Block : blocks[h] # None}

(* The part of the block file that a start reads back: Block::read fails at *)
(* a torn block, and the loop over the file ends there.                     *)
Readable == {i \in DOMAIN block_file : \A j \in 1..i : block_file[j] # Torn}

-----------------------------------------------------------------------------
(* BlockManager::new, and create_tables on the first start: nothing in      *)
(* memory, empty tables, no block file.                                     *)
Init ==
    /\ block_headers = <<>>
    /\ hash_to_index = [h \in Hash |-> None]
    /\ last_hash_processed = StartHash
    /\ height = StartHeight + 1
    /\ block_queue = [h \in Hash |-> None]
    /\ mode = "setup"
    /\ pc = "idle"
    /\ cur = None
    /\ rpos = 0
    /\ block_file = <<>>
    /\ chan = <<>>
    /\ blocks = [h \in Block |-> None]
    /\ orphans = {}

-----------------------------------------------------------------------------
(* Startup. *)

(* The row order of SELECT * FROM blocks ORDER BY height asc; rows of equal *)
(* height come in any order.                                                *)
RowOrders ==
    {s \in [1..Cardinality(Rows) -> Rows] :
        /\ {s[i] : i \in DOMAIN s} = Rows
        /\ \A i, j \in DOMAIN s : i # j => s[i] # s[j]
        /\ \A i, j \in DOMAIN s : i <= j => blocks[s[i]].height <= blocks[s[j]].height}

(* Mutant of LoadBlockheaders: the height of the last row is not            *)
(* incremented.                                                             *)
LoadSameHeight ==
    /\ mode = "setup" /\ LoadFromDb
    /\ \E s \in RowOrders :
         /\ block_headers' = s
         /\ hash_to_index' = [h \in Hash |-> IF h \in Rows THEN blocks[h].height ELSE None]
         /\ height' = IF s = <<>> THEN height ELSE blocks[s[Len(s)]].height
         /\ last_hash_processed' = IF s = <<>> THEN last_hash_processed ELSE s[Len(s)]
    /\ mode' = "run"
    /\ UNCHANGED <<block_queue, pc, cur, rpos, block_file, chan, tables>>

(* setup with load_blockheaders_from_database: the memory takes the rows,   *)
(* and last_hash_processed the last of them.                                *)
LoadBlockheaders ==
    /\ mode = "setup" /\ LoadFromDb
    /\ \E s \in RowOrders :
         /\ block_headers' = s
         /\ hash_to_index' = [h \in Hash |-> IF h \in Rows THEN blocks[h].height ELSE None]
         /\ height' = IF s = <<>> THEN height ELSE blocks[s[Len(s)]].height + 1
         /\ last_hash_processed' = IF s = <<>> THEN last_hash_processed ELSE s[Len(s)]
    /\ mode' = "run"
    /\ UNCHANGED <<block_queue, pc, cur, rpos, block_file, chan, tables>>

(* The SELECT fails: the error is logged and the node starts empty. *)
LoadFails ==
    /\ mode = "setup" /\ LoadFromDb /\ "load" \in Faults
    /\ mode' = "run"
    /\ UNCHANGED <<memory, pc, cur, rpos, block_file, chan, tables>>

(* setup with read_blocks_from_file. *)
OpenBlockFile ==
    /\ mode = "setup" /\ ~LoadFromDb
    /\ mode' = "read"
    /\ UNCHANGED <<memory, pc, cur, rpos, block_file, chan, tables>>

-----------------------------------------------------------------------------
(* Mutant of Begin: the position is used before the block is written.       *)
BeginUnwritten(e) ==
    /\ cur' = e
    /\ pc' = "process"

(* Where the handler goes with a block in hand: a block that has no         *)
(* position yet is appended to the block file first.                        *)
Begin(e) ==
    /\ cur' = e
    /\ pc' = IF e.position = None THEN "write" ELSE "process"

(* Mutant of Accept: a block is written and processed whatever its          *)
(* prev_hash.                                                               *)
AcceptUnordered(b, position) ==
    IF Known(b) THEN UNCHANGED <<memory, pc, cur>>
    ELSE Begin([block |-> b, position |-> position]) /\ UNCHANGED memory

(* The body on_block and process_read_block share: a known block is         *)
(* ignored, the next one is processed, any other waits in the queue unless  *)
(* a block with the same prev_hash waits there already.                     *)
Accept(b, position) ==
    LET e == [block |-> b, position |-> position] IN
    \/ /\ ~Known(b) /\ Prev[b] = last_hash_processed
       /\ Begin(e)
       /\ UNCHANGED memory
    \/ /\ ~Known(b) /\ Prev[b] # last_hash_processed
       /\ block_queue' = IF block_queue[Prev[b]] = None
                         THEN [block_queue EXCEPT ![Prev[b]] = e] ELSE block_queue
       /\ UNCHANGED <<block_headers, hash_to_index, last_hash_processed, height, pc, cur>>
    \/ /\ Known(b)
       /\ UNCHANGED <<memory, pc, cur>>

(* process_read_block on the next block of the file. *)
ProcessReadBlock ==
    /\ mode = "read" /\ pc = "idle"
    /\ rpos < Len(block_file) /\ block_file[rpos + 1] # Torn
    /\ Accept(block_file[rpos + 1], rpos)
    /\ rpos' = rpos + 1
    /\ UNCHANGED <<mode, block_file, chan, tables>>

(* The loop over the file ends at its end, and at a torn block.             *)
EndOfFile ==
    /\ mode = "read" /\ pc = "idle"
    /\ rpos < Len(block_file) => block_file[rpos + 1] = Torn
    /\ mode' = "run"
    /\ UNCHANGED <<memory, pc, cur, rpos, block_file, chan, tables>>

(* on_block: any block, in any order, any number of times. *)
OnBlock(b) ==
    /\ mode = "run" /\ pc = "idle"
    /\ Accept(b, None)
    /\ UNCHANGED <<mode, rpos, block_file, chan, tables>>

(* A block goes to the file in many small writes: when one of them fails,   *)
(* or the process ends between two, a part of the block stays in the file.  *)
TearBlock ==
    /\ SaveBlocks /\ Len(block_file) < MaxFile
    /\ block_file' = Append(block_file, Torn)

(* Mutant of WriteBlockToFile: the offset is taken after the write.         *)
WriteThenPosition ==
    /\ pc = "write"
    /\ \/ /\ SaveBlocks /\ Len(block_file) < MaxFile
          /\ block_file' = Append(block_file, cur.block)
          /\ cur' = [cur EXCEPT !.position = Len(block_file')]
       \/ /\ ~SaveBlocks \/ "file" \in Faults
          /\ cur' = [cur EXCEPT !.position = 0]
          /\ UNCHANGED block_file
    /\ pc' = "process"
    /\ UNCHANGED <<memory, mode, rpos, chan, tables>>

(* write_block_to_file returns the offset the block was written at, and 0   *)
(* when blocks are not saved or the file cannot be opened or written.  The  *)
(* file is not truncated after a write that failed halfway.                 *)
WriteBlockToFile ==
    /\ pc = "write"
    /\ \/ /\ SaveBlocks /\ Len(block_file) < MaxFile
          /\ block_file' = Append(block_file, cur.block)
          /\ cur' = [cur EXCEPT !.position = Len(block_file)]
       \/ /\ ~SaveBlocks \/ "file" \in Faults
          /\ cur' = [cur EXCEPT !.position = 0]
          /\ UNCHANGED block_file
       \/ /\ "file" \in Faults
          /\ cur' = [cur EXCEPT !.position = 0]
          /\ TearBlock
    /\ pc' = "process"
    /\ UNCHANGED <<memory, mode, rpos, chan, tables>>

(* Mutant of WriteBlockheader: the row is made after process_block moved    *)
(* the height on.                                                           *)
WriteNextHeight(b, position) ==
    chan' = IF Known(b) THEN chan
            ELSE Append(chan, [op |-> "BlockHeaderWrite", hash |-> b,
                               height |-> height + 1, position |-> position])

(* write_blockheader_to_database: the row carries the height that           *)
(* process_block is about to use.                                           *)
WriteBlockheader(b, position) ==
    chan' = IF Known(b) THEN chan
            ELSE Append(chan, [op |-> "BlockHeaderWrite", hash |-> b,
                               height |-> height, position |-> position])

(* Mutant of StoreBlock: last_hash_processed is not moved on.               *)
StoreKeepsLast(b) ==
    IF Prev[b] # last_hash_processed
    THEN UNCHANGED memory
    ELSE /\ hash_to_index' = [hash_to_index EXCEPT ![b] = height]
         /\ block_headers' = Append(block_headers, b)
         /\ height' = height + 1
         /\ UNCHANGED <<last_hash_processed, block_queue>>

(* process_block: last_hash_processed moves on before the check that the    *)
(* height fits an i32, so at the limit the header is not stored.            *)
StoreBlock(b) ==
    IF Prev[b] # last_hash_processed
    THEN UNCHANGED memory
    ELSE /\ last_hash_processed' = b
         /\ IF height > MaxI32
            THEN UNCHANGED <<block_headers, hash_to_index, height>>
            ELSE /\ hash_to_index' = [hash_to_index EXCEPT ![b] = height]
                 /\ block_headers' = Append(block_headers, b)
                 /\ height' = height + 1
         /\ UNCHANGED block_queue

(* The header operation and process_block, for the block in hand. *)
ProcessBlock ==
    /\ pc = "process" /\ Len(chan) < MaxChan
    /\ WriteBlockheader(cur.block, cur.position)
    /\ StoreBlock(cur.block)
    /\ pc' = "drain"
    /\ cur' = None
    /\ UNCHANGED <<mode, rpos, block_file, tables>>

(* Mutant of ProcessBlockQueue: the entry is read and stays in the queue.   *)
DrainKeepsEntry ==
    /\ pc = "drain"
    /\ LET e == block_queue[last_hash_processed] IN
       IF e # None THEN Begin(e) ELSE pc' = "idle" /\ UNCHANGED cur
    /\ UNCHANGED <<memory, mode, rpos, block_file, chan, tables>>

(* Mutant of ProcessBlockQueue: the queue is not looked at after a block.   *)
DrainNothing ==
    /\ pc = "drain"
    /\ pc' = "idle"
    /\ UNCHANGED <<memory, mode, cur, rpos, block_file, chan, tables>>

(* One turn of the loop of process_block_queue. *)
ProcessBlockQueue ==
    /\ pc = "drain"
    /\ LET e == block_queue[last_hash_processed] IN
       IF e # None
       THEN /\ Begin(e)
            /\ block_queue' = [block_queue EXCEPT ![last_hash_processed] = None]
       ELSE /\ pc' = "idle"
            /\ UNCHANGED <<cur, block_queue>>
    /\ UNCHANGED <<block_headers, hash_to_index, last_hash_processed, height,
                   mode, rpos, block_file, chan, tables>>

(* Mutant of HandleOrphanBlock: the header stays in the index.              *)
OrphanStaysIndexed ==
    /\ DetectOrphans /\ mode = "run" /\ pc = "idle" /\ block_headers # <<>>
    /\ block_queue' = [h \in Hash |-> None]
    /\ block_headers' = SubSeq(block_headers, 1, Len(block_headers) - 1)
    /\ height' = (height - 1) % U32
    /\ UNCHANGED <<hash_to_index, last_hash_processed, control, block_file, chan, tables>>

(* Mutant of HandleOrphanBlock: the row is deleted at once, past the        *)
(* channel.                                                                 *)
OrphanDeletedAtOnce ==
    LET b == block_headers[Len(block_headers)] IN
    /\ DetectOrphans /\ mode = "run" /\ pc = "idle" /\ Len(chan) + 1 < MaxChan
    /\ block_headers # <<>>
    /\ block_queue' = [h \in Hash |-> None]
    /\ block_headers' = SubSeq(block_headers, 1, Len(block_headers) - 1)
    /\ hash_to_index' = [hash_to_index EXCEPT ![b] = None]
    /\ chan' = Append(chan, [op |-> "OrphanBlockHeaderWrite", hash |-> b,
                             height |-> height, position |-> 0])
    /\ blocks' = [blocks EXCEPT ![b] = None]
    /\ height' = (height - 1) % U32
    /\ UNCHANGED <<last_hash_processed, control, block_file, orphans>>

(* handle_orphan_block: the queue is dropped, the last header leaves the    *)
(* memory, its row is copied to orphans and deleted from blocks.  The copy  *)
(* carries self.height, and last_hash_processed stays as it is.  A release  *)
(* build wraps the u32 height below 0.                                      *)
HandleOrphanBlock ==
    /\ DetectOrphans /\ mode = "run" /\ pc = "idle" /\ Len(chan) + 1 < MaxChan
    /\ block_queue' = [h \in Hash |-> None]
    /\ IF block_headers = <<>>
       THEN UNCHANGED <<block_headers, hash_to_index, height, chan>>
       ELSE LET b == block_headers[Len(block_headers)] IN
            /\ block_headers' = SubSeq(block_headers, 1, Len(block_headers) - 1)
            /\ hash_to_index' = [hash_to_index EXCEPT ![b] = None]
            /\ chan' = chan \o
                 <<[op |-> "OrphanBlockHeaderWrite", hash |-> b, height |-> height, position |-> 0],
                   [op |-> "BlockHeaderDelete", hash |-> b, height |-> 0, position |-> 0]>>
            /\ height' = (height - 1) % U32
    /\ UNCHANGED <<last_hash_processed, control, block_file, tables>>

-----------------------------------------------------------------------------
(* The database writer thread: the INSERT into blocks fails on a hash that  *)
(* has a row (the primary key), orphans has no key.                         *)
Perform(op) ==
    /\ blocks' = CASE op.op = "BlockHeaderWrite" /\ blocks[op.hash] = None ->
                        [blocks EXCEPT ![op.hash] = [height |-> op.height, position |-> op.position]]
                   [] op.op = "BlockHeaderDelete" -> [blocks EXCEPT ![op.hash] = None]
                   [] OTHER -> blocks
    /\ orphans' = IF op.op = "OrphanBlockHeaderWrite"
                  THEN orphans \cup {<<op.hash, op.height>>} ELSE orphans

DbPerform ==
    /\ chan # <<>>
    /\ Perform(Head(chan))
    /\ chan' = Tail(chan)
    /\ UNCHANGED <<memory, control, block_file>>

DbLose ==
    /\ chan # <<>> /\ "lose" \in Faults
    /\ chan' = Tail(chan)
    /\ UNCHANGED <<memory, control, block_file, tables>>

(* The process ends, by a crash or by a stop (main does not wait for the    *)
(* writer thread), and starts again: file and tables survive, memory and    *)
(* channel do not.  It may end in the middle of the write of a block.       *)
Crash ==
    /\ "crash" \in Faults
    /\ block_headers' = <<>>
    /\ hash_to_index' = [h \in Hash |-> None]
    /\ last_hash_processed' = StartHash
    /\ height' = StartHeight + 1
    /\ block_queue' = [h \in Hash |-> None]
    /\ mode' = "setup"
    /\ pc' = "idle"
    /\ cur' = None
    /\ rpos' = 0
    /\ chan' = <<>>
    /\ \/ UNCHANGED block_file
       \/ pc = "write" /\ TearBlock
    /\ UNCHANGED tables

Next ==
    \/ LoadBlockheaders \/ LoadFails \/ OpenBlockFile
    \/ ProcessReadBlock \/ EndOfFile
    \/ \E b \in Block : OnBlock(b)
    \/ WriteBlockToFile \/ ProcessBlock \/ ProcessBlockQueue
    \/ HandleOrphanBlock
    \/ DbPerform \/ DbLose
    \/ Crash

Spec == Init /\ [][Next]_vars

-----------------------------------------------------------------------------
TypeOK ==
    /\ block_headers \in Seq(Block)
    /\ hash_to_index \in [Hash -> Nat \cup {None}]
    /\ last_hash_processed \in Hash
    /\ height \in Nat
    /\ block_queue \in [Hash -> Entry \cup {None}]
    /\ mode \in {"setup", "read", "run"}
    /\ pc \in {"idle", "write", "process", "drain"}
    /\ cur \in Entry \cup {None}
    /\ (pc = "process" => cur # None /\ cur.position # None)
    /\ (pc = "write" => cur # None)
    /\ rpos \in Nat
    /\ block_file \in Seq(Block \cup {Torn})
    /\ chan \in Seq(Op)
    /\ blocks \in [Block -> Row \cup {None}]
    /\ orphans \subseteq Block \X Nat

(* No header is held twice, and the index maps exactly the stored headers:  *)
(* on_block's and process_read_block's test of hash_to_index is enough to   *)
(* keep a block from being processed a second time, through out-of-order    *)
(* arrival, the drain of the queue, orphan roll-back and restarts.          *)
NoBlockTwice ==
    /\ \A i, j \in DOMAIN block_headers : i # j => block_headers[i] # block_headers[j]
    /\ \A h \in Hash : Known(h) <=> h \in Headers

(* Between handlers no waiting block could be processed (none waits for     *)
(* last_hash_processed), and no waiting block is already stored.            *)
QueueWaitsForOthers ==
    /\ pc = "idle" => block_queue[last_hash_processed] = None
    /\ \A h \in Hash : block_queue[h] # None =>
          /\ Prev[block_queue[h].block] = h
          /\ ~Known(block_queue[h].block)

(* Blocks are processed in chain order: the stored headers are a chain from *)
(* the configured start block, at consecutive heights, and                  *)
(* last_hash_processed is its end.                                          *)
ChainLinked ==
    /\ \A i \in DOMAIN block_headers :
          /\ Prev[block_headers[i]] = IF i = 1 THEN StartHash ELSE block_headers[i - 1]
          /\ hash_to_index[block_headers[i]] = StartHeight + i
    /\ height = StartHeight + 1 + Len(block_headers)
    /\ height <= MaxI32 =>
          last_hash_processed =
              IF block_headers = <<>> THEN StartHash ELSE block_headers[Len(block_headers)]

(* Every height is the true one: what the index, the rows and the pending   *)
(* row writes say of a block is its distance from the start block, whatever *)
(* rows were lost, also when a restart finds gaps (up to the i32 limit,     *)
(* beyond which process_block stops storing headers).                       *)
TrueHeights ==
    LET True(h, x) == x <= MaxI32 => x = StartHeight + Depth[h] IN
    /\ \A h \in Block : Known(h) => True(h, hash_to_index[h])
    /\ \A h \in Rows : True(h, blocks[h].height)
    /\ \A i \in DOMAIN chan :
          chan[i].op = "BlockHeaderWrite" => True(chan[i].hash, chan[i].height)
    /\ height <= MaxI32 => height = StartHeight + 1 + Depth[last_hash_processed]

(* A stored row points at its block: the offset of the row of a block is    *)
(* where the block file holds that block.                                   *)
PositionPointsAtBlock ==
    \A h \in Rows : /\ blocks[h].position < Len(block_file)
                    /\ block_file[blocks[h].position + 1] = h

(* The height the index gives a header is the height of its row, however    *)
(* often blocks are rolled back and the process crashes.  It is a property  *)
(* of a writer that loses nothing but at a crash and of starts that read    *)
(* their rows: with a delete lost, or a load that failed, a block can be    *)
(* stored again at another height than its old row has.                     *)
IndexAgreesWithTable ==
    \A h \in Rows : Known(h) => hash_to_index[h] = blocks[h].height

(* The headers s are what the block file gives back, and behind it the      *)
(* blocks that were appended last.                                          *)
FileHolds(s) ==
    /\ Len(s) <= Len(block_file)
    /\ \A i \in Readable : i <= Len(s) /\ s[i] = block_file[i]
    /\ \A i \in 1..Len(s) : i \in Readable \/ s[i] = block_file[i + (Len(block_file) - Len(s))]

(* A node that restarts from its block file has, once it runs, every block  *)
(* of the file up to the first torn one in its chain, in file order, and    *)
(* otherwise only the blocks it appended since; with no torn block its      *)
(* chain is the file.  Blocks behind a torn one are not read back.          *)
FileReplayed ==
    mode = "run" /\ pc = "idle" => FileHolds(block_headers)

-----------------------------------------------------------------------------
(* The channel and the tables as HeaderWriter sees them. *)
HeaderOps == [op : {"BlockHeaderWrite", "OrphanBlockHeaderWrite", "BlockHeaderDelete"},
              hash : Block, height : Nat]
Abstract(o) == [op |-> o.op, hash |-> o.hash, height |-> o.height]
Pending(c) == [i \in DOMAIN c |-> Abstract(c[i])]
RowSet == {<<h, blocks[h].height>> : h \in Rows}

HW == INSTANCE HeaderWriter WITH pending <- Pending(chan), blocks <- RowSet

(* The block manager uses the writer only as HeaderWriter allows: nothing   *)
(* but sent operations ever changes the tables, in the order they were sent.*)
UsesHeaderWriter == HW!HWSpec
=============================================================================

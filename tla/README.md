# UTXO as a Service: TLA+ verification project

This directory models the Rust service of the repository (`rust/src`): it
follows the block chain of a peer, keeps headers, transactions, mempool and
unspent outputs in memory and in a database, captures the transactions of
monitored collections, and serves a small REST interface. Of the Python web
service in front of it (`python/src`) the parts that keep state or compute are
modelled. The modules are model-checked with TLC; the theorems are checked by
TLAPS.

## 1. The system and what can go wrong

| Part | Source | State | Operations |
|---|---|---|---|
| Block manager | `uaas/block_manager.rs` | `block_headers`, `hash_to_index`, `last_hash_processed`, `height`, `block_queue`, block file, tables `blocks` and `orphans` | `setup`, `on_block`, `process_read_block`, `process_block`, `process_block_queue`, `handle_orphan_block` |
| Logic | `uaas/logic.rs` | `state`, `block_inventory`, `start_block_timestamp`, `send_message_queue` | `set_state`, `on_inv`, `on_block`, `on_tx`, `request_next_block` |
| Database writer | `uaas/database.rs` | the channel, the batch in hand | `perform_db_operations`, `coalesce_*`, the statements with their retries |
| Transaction analyser | `uaas/tx_analyser.rs`, `txdb.rs`, `utxo.rs` | `mempool`, `txs`, `utxo`, entries to be written | `process_standalone_tx`, `process_block`, `handle_orphan_block`, `update_db` |
| Collections | `uaas/collection.rs`, `dynamic_config.rs` | the working collections, the dynamic configuration and its file | `process_collection`, `add_monitor`, `delete_monitor` |
| Peer manager | `main.rs`, `thread_manager.rs`, `thread_tracker.rs`, `peer_connection.rs`, `event_handler.rs` | `children`, the connection threads, the event channel | `create_thread`, `process_messages`, `process_event_inner`, `join_thread`, shutdown |
| REST interface | `rest_api.rs`, `rate_limit.rs` | the request channel, the rate windows | `broadcast_tx`, `add_monitor`, `delete_monitor` |
| Connection log, address manager | `uaas/connection.rs`, `uaas/address_manager.rs` | tables `connect` and `addr` | `on_connect`, `on_disconnect`, `on_addr` |
| Python web service | `python/src` | the names of the monitors, the rate windows; otherwise it reads the tables | `add_monitor`, `delete_monitor`, `allow`, `get_tx_merkle_proof`, queries, `POST /tx/hex` |

How they interact: a connection's library thread turns network messages into
events on one channel. The *peer manager* thread takes one event at a time and
runs the handler of Logic, which calls the block manager and the transaction
analyser in the same thread. These change memory at once and send operations on
a second channel to the *database writer* thread. The *web server* puts
requests on a third channel, of which the peer manager takes one per turn. The
main task waits for a signal and stops the other two. The Python service
answers clients from the tables, in a pool of threads, and forwards monitors
and transactions to the Rust web server over HTTP with a time limit.

What is hard: the writer runs behind the handlers and coalesces what it finds;
the process can stop with operations in the channel and between two effects of
one block; blocks come out of order, twice, or on a branch that the peer then
leaves; requests are lost with the connection and nothing repeats them by time;
events name a peer only by its address; a client of the web interface gets its
answer before the peer manager has looked at the request, and the Python service
keeps its own copy of the monitor names. `PROJECT.json` lists these hazards at
their lines with the properties that cover them.

## 2. Modules

| Module | Models | Status |
|---|---|---|
| `HeaderWriter` | abstract: what a client of the writer may rely on (in order, at most once, may be lost) | done |
| `BlockManager` | the block manager, its file and tables, crash and loss | done |
| `Database` | the writer thread | done |
| `Logic` | extends `BlockManager`: Logic, a link and a peer | done |
| `TxAnalyser` | transactions, mempool, utxo, collections, monitors, tables | done |
| `PeerManager` | threads, connections, requests, shutdown | done |
| `RateLimiter` | the request limits of both web services | done |
| `WebGateway` | a monitor's way from the Python threads to the saved configuration | done |
| `MerkleProof` | `GET /tx/proof`: queries, tree and branch, against the writer | done |
| `SyncProofs` | theorems of `BlockManager` and their inductive invariants; `BlockManager` implements `HeaderWriter`; theorems of `Logic` | done |
| `DatabaseProofs` | theorems of `Database`, which implements `HeaderWriter` too | done |
| `TxAnalyserProofs` | theorems of `TxAnalyser` | done |
| `PeerManagerProofs` | theorems of `PeerManager` | done |
| `WebGatewayProofs` | theorems of `WebGateway` | done |
| `RateLimiterProofs` | theorems of `RateLimiter` | done |
| `MerkleProofs` | theorems of `MerkleProof` | done |
| `SequenceLemmas` | the least-number principle, and what `FlattenSeq`, `RemoveAt`, `RemoveFirst` and `Min` do | done |
| `MC*` | the instances that TLC checks | done |

### How the state and the actions correspond to the code

**BlockManager.** The variables of the first group have the names of the struct
fields; `hash_to_index` is total with `None` for a missing key. `mode`, `pc`,
`cur` and `rpos` are the control state of a handler: `on_block` and
`process_read_block` (`Accept`) go through "write" (`write_block_to_file`),
"process" (`write_blockheader_to_database` and `process_block`) and "drain" (one
turn of the loop in `process_block_queue`), so that the writer and a crash can
come in between. `HandleOrphanBlock` is `handle_orphan_block` as it is written:
it uses `self.height` before decrementing it and leaves `last_hash_processed`
alone. A header is its hash; `Prev` is its `prev_hash`; `Depth` is a ghost
constant, the true distance from the start block. Positions count blocks, not
bytes. `block.write` is many small writes to an unbuffered file, so a failing
write, or a stop of the process, may leave a part of a block behind (`Torn`); the
next `Block::read` is taken to fail there, which ends the replay. (It could also
complete the torn block with the bytes of the next one; such a block has a
`prev_hash` and transactions that do not fit, and is not modelled.) A release build is assumed: the subtraction from the `u32` height wraps.

**Database.** `program` is the sequence of operations the handlers send in a
behaviour, `chan` holds positions in it. `Coalesce` is one `try_recv` of a
`coalesce_*` loop; an operation of another type is consumed and goes to
`dropped`. `ExecRow` is one statement, `ExecFails` a failed one with the restart
of the batch by the `retry` crate. `dropped` and `failed` are history variables.

**Logic.** `inbox` is the channel of peer events, `toPeer` what has been sent.
`OnBlockEvent` starts the block manager, `FinishBlock` is the rest of
`on_block`, and no other event is taken in between. `CheckReady` is
`has_chain_tip`: the blocks of `Recent` may be younger than ten minutes, but
need not be when they are looked at. The peer is external: it answers getblocks
behind the locator, or from its oldest block when it does not know the locator,
which is the behaviour the orphan detection of the service is built on
(`docs/Configuration.md`, `detect`). `Without` is `Vec::retain`: every occurrence
of the received hash leaves the first list, not the first one only.

**TxAnalyser.** One action per handler. Two loops of the source are lazy
iterators that are never consumed (`process_tx_inputs`, `process_block`); the
model has no step for their bodies. `utxo_entries` keeps outpoints only, since
the height of a waiting row is always the one in `utxo`. Rows go through `chan`,
every operation the code sends, the empty batches too: `DbPerform` merges mempool
batches, stops an INSERT at a taken key, and drops the operation behind a batch, as
`Coalesce` and `ExecRow` of `Database` do. Collection rows and the dynamic
configuration are written by the handler itself; the INSERT of a captured
transaction may fail, which is only logged. `missed` and `risked` are history
variables: the transactions whose last mempool operation had no effect, and the
outpoints whose row was last sent in Ready state, where a mempool batch comes
before it. `Restart` runs the SELECTs of `read_tables`; each may fail, which the code logs
and goes on from (`failed` remembers it).

**PeerManager.** `mgr` is the place of the peer manager in its loop; `after` is
`keep_looping` and the return value of `process_messages`. A connection is a
record of its address, the `running` flag, its thread and its link. Whatever a
peer sends other than a transaction is one event without content here; what
Logic does with it is in `Logic`. `known` is what `tx_exists` finds. It grows with
transactions, and it shrinks: a block takes its transactions from the mempool, and
`delete_monitor` drops a collection with what it captured. Which ones is the subject
of `TxAnalyser`; here any may be known after a block. The two early returns of
`create_thread` (`thread_manager.rs:53-68`) are left out because they cannot be
taken: they look up the network settings and the network in the configuration,
`main` refuses to start when either is missing (`validate_startup`, `main.rs:60`),
and nothing changes the configuration later.

**RateLimiter.** One clock and two services with a table of windows each. `Count`
is `allow` of both (the Python one writes the window back also when it refuses;
the Rust one has it in the map already). `Request` is answered by the service
itself; `Forward` and `Arrive` are the two halves of a request that Python passes
on, which Rust counts under Python's address because `_rust_headers` sends no
`X-Forwarded-For`. `allowed` is a history variable: the time of each allowed
request and the life of the service (`lives` counts its starts) in which it came. A
restart forgets the windows and not the history.

**WebGateway.** A worker is a thread of Python's pool: "calling" while the HTTP
request is out, "answered" when the status is there, "checked" behind the asserts
of `Collection.add_monitor`. `late` holds requests whose caller has gone and which
the Rust server will still serve. `AddMonitor` and `DeleteMonitor` are the methods
of the Rust `TxAnalyser` up to the truncation of the configuration file,
`SaveDynamicConfig` the rest: a stop in between finds the file empty (the content
is one `write`, so a stop of the process, not of the machine, leaves nothing or
all of it). Monitors are their names; whether address and pattern parse is a flag
of the request. `excused` is a history variable.

**MerkleProof.** The writer inserts the header row and the rows of the
transactions one by one. The request has a step for each query, each turn of the
loop in `calc_root` and each turn in `walk_tree_from_pos`, with the pointer
`current_depth`, `current_index` of the code. A hash is a term: `<<i>>` or the pair
of its parts, so that two hashes are equal only when they are of the same tree.
`MaxDepth` is the exact logarithm; `math.ceil(math.log(total, 2))` in floating
point gives the same for every block of fewer than 2^29 transactions.

Abstractions common to all modules: names, hashes, scripts and payloads are
model values or members of small sets; logs, timings, fees, sizes and satoshis
are left out.

## 3. Runs

Passing runs:

| Run | Question and result |
|---|---|
| `bm_orphans` | Deliveries in any order, roll-backs, writer and restarts after a crash at any point, on a tree of four blocks with a fork; nothing is lost but at a crash, and no load fails. No block twice, the queue is drained, index and table agree, the writer is used as `HeaderWriter` allows. |
| `bm_lossy` | All faults at once and the i32 limit inside the chain (`MaxI32 = 5`, heights 4 to 6): heights stay true. |
| `bm_file` | Restart from the block file after a crash between any two steps or in the middle of a write: the blocks up to the first torn one are back in order, with only those behind them that were appended since, and rows point at their blocks. |
| `writer` | Three operation sequences of the handlers, failing statements, one retry: what can be dropped, complete retries, an empty channel in the end, `HeaderWriter` implemented. |
| `logic` | A peer that mines and may switch once to a longer branch, transaction announcements, one lost connection, orphan detection on: as long as the peer keeps its branch the stored headers are a chain and the node ends with the peer's chain; always, nothing wanted is forgotten, and only headers that left the peer's chain are rolled back. |
| `tx` | Two transactions, two blocks, a monitor, roll-backs, restarts whose loads fail or not, and a writer that merges and drops: mempool and utxo tables follow the memory but for the rows the writer can lose, which the properties name; no rolled-back block comes back; a roll-back deletes no transaction of a block that stays. |
| `peers` | Two addresses, one configured twice (the next connection goes to the same address or to another), clients, a panicking connection thread, a failing spawn and a shutdown: one tracked connection at a time, every address tried again, waiting requests taken however much the peer sends, the shutdown completes; without a panic no healthy connection is stopped and Logic's state follows the peer. |
| `rate` | No limit or two requests, two clients, a window of two ticks, requests direct and forwarded, one restart of each service: within a window's length fewer than twice the limit are allowed (two windows can meet), and the limit once more for a restart in between; nobody is refused who has not used up the limit within the last window. |
| `web` | Two Python threads, overlapping, repeated, refused, timed-out and late requests, a manager thread that ends, restarts of either service: when all is quiet both services name the same monitors, apart from the exceptions below; configured collections stay; a restart of the Rust service brings all monitors back, or none when it hit a save. |
| `merkle` | Blocks of one to nine transactions, each asked for at any moment of the writing: the branch leads to the Merkle root of the list that was read, and every request is answered. |

Violation runs, each a statement of the repository's documents or comments that
the code does not keep (quoted in `PROJECT.json`):

| Run | What happens |
|---|---|
| `writer_drops` | A `BlockHeaderWrite` behind an empty batch is taken by the coalescing loop and dropped. |
| `logic_chain` | The node has a, b; the peer goes to another branch behind a, and returns. An old block it sent in between makes the node roll b back, but `last_hash_processed` stays b: b is queued when it comes again, and its child c is stored behind a (`HeadersFollow`). |

Other differences between code and documents seen while modelling. The models
follow the code in each; no run is kept for them:

* the loop over a transaction's inputs is a lazy iterator that is never run, so
  spent outpoints stay in the utxo (`tx_analyser.rs:195`; `README.md:140` says they
  are removed);
* the header row of a block is sent before the rows of its transactions; a stop
  between the two leaves the block without them for good
  (`block_manager.rs:555`; `README.md:144`);
* a roll-back uses the height of the next block for the orphan row
  (`block_manager.rs:333`) and for the deletes of tx and utxo (`:520`;
  `docs/Project.md:112` says the height of the block);
* a block torn by a stop in the middle of its write ends every later replay of the
  file: the blocks that are appended behind it are in the file and are not read
  back (`block_manager.rs:497`, `:432`; `docs/Configuration.md:57` gives the file as a
  way to start), so the node asks its peer for them again;
* in Ready state a transaction's utxo rows follow its mempool row, and the writer
  can drop them with `utxo_entries` cleared, without any failing statement; merged
  mempool rows behind a taken key are not inserted either
  (`database.rs:230`, `:211`; `README.md:140`);
* the INSERT of a captured transaction that fails is only logged, with the hash in
  the collection already: the transaction is not captured again, and is gone after
  a restart (`collection.rs:129`);
* a transaction that comes after its block stays in the mempool (`txdb.rs:264`;
  the comment at `:35` says transactions not in blocks);
* the loop over a block's transactions (`tx_analyser.rs:254`) is lazy too, so
  their outputs and collections are not processed (`README.md:146`,
  `docs/Configuration.md:127`);
* when the peer switches back, an old block that it sent before as an answer to an
  unknown locator still counts as an orphan, and the last header is rolled back
  although the peer knows it again (`logic.rs:137`; `docs/Configuration.md:95` says a
  block is removed when the last known one is unknown); with one switch this does
  not happen (`UnknownRolledBack` below);
* the node stays Ready on a branch the peer has left (`logic.rs:328`,
  `docs/Development.md:96`);
* Success is answered for a broadcast that is then dropped because no peer is
  connected (`thread_manager.rs:188`, `docs/Security.md:53`), and a transaction that
  `tx_exists` has forgotten (mined, and txs are not saved; or its monitor was
  deleted) is relayed again when a client posts it again;
* a panicked connection thread leaves a second Disconnected behind, which can
  stop the next connection to the address (`thread_manager.rs:79`,
  `docs/SystemsRequirements.md:117`);
* the two lists of monitors can differ until Python is restarted: Python lists a
  monitor whose pattern Rust could not parse, or one named "broadcast", which
  Rust ignores; two overlapping requests for a name can list it twice, or delete
  it from one list only; a timed-out request may be performed later
  (`rest_api.rs:223`, `docs/SystemsRequirements.md:73`);
* a stop in the middle of a save leaves an empty dynamic configuration: the Rust
  service starts without its monitors and Python does not start at all
  (`dynamic_config.rs:31`, `python/src/collection.py:62`);
* `docs/Configuration.md:149` promises a "maximum requests per client IP per minute".
  Windows are fixed, and a restart forgets them: almost twice the limit fits in a
  minute where two windows meet, and the limit once more behind each restart
  (`rate_limit.rs:37`; `TwiceTheLimit` says that it gets no worse). All clients of the
  Python service share one window of the Rust one (`python/src/rest_api.py:110`), and
  windows of past clients are never removed;
* a proof asked for while the rows of its block are being written leads to another
  root than the `merkle_root` returned with it; after a roll-back the rows of the
  removed block stay at their height, so a later proof can mix two blocks
  (`python/src/tx_analyser.py:219`).

**Bounds.** `MaxChan`, `MaxFile`, `MaxQueued`, `MaxDrops`, `MaxPanics`, `MaxTime`,
`MaxRestarts`, `MaxForwarded`, `MaxLate` and `MaxTxs` are the only ones, each in the guard of the
action that would grow its variable (`MaxTxs` in the initial states). Channels of
two or three operations let the writer be behind by a whole block; a tree with
one fork of length two and a start block has early, duplicate, sibling and
rolled-back blocks; `MaxInv = 2` makes an inventory that needs several rounds.
`MaxI32` and `U32` scale the integer limits down so that a run reaches them.
`MaxTime` is one tick below twice `WINDOW`, so that two windows meet at any offset,
and `MaxRestarts = 1` puts a restart anywhere between them; nine
transactions give a tree of four levels above the leaves with one or more
odd levels; in `tx` the loads of mempool and utxo fail together or not at all, and
the four or five operations of a handler are in the channel at once (`MaxChan` bounds
what may be there before a handler adds its own).
Three slots for connections are enough: one in use, one whose thread has
panicked (`MaxPanics = 1`) and one free.

Deadlock is not checked where the system may really rest: bounded deliveries
used up and nothing left to write, or `main` returned. `Database` has an explicit
waiting step instead and is checked for deadlock.

**Fairness.** Weak fairness of each thread (the operating system runs it), of a
live peer's answers, of the reconnecting loop, of the library's connection
attempts (which have a time limit) and of a thread that was told to stop (it
looks at `running` every second). In `MerkleProof` the thread that serves the
request is fair and the writer is not. None is assumed of mining, announcements,
lost connections, silent-peer timeouts, signals or clients.

## 4. Proofs

Each theorem holds for every value of the constants that meets the module's
assumption (`BlockAssumption` and `ConfigAssumption`, `DatabaseAssumption`,
`TxAssumption`, `PeerAssumption`, `WebAssumption`, `LimiterAssumption`,
`LogicAssumption`, `MerkleAssumption`). The assumptions are types, that a peer's
chain ends with its tip, the finiteness of the connection slots, and that `None` is
none of the values it stands in for; TLC evaluates them in every run. Each
invariant is proved from an inductive invariant, which is named below.
Hypotheses beyond the assumptions are settings of the service, faults that are
left out, or what is assumed of the peer's chains; they are stated in the theorem
(`ASSUME ... PROVE`), and each is met by the run that checks the property.

### Block manager

| Theorem | Property | Hypotheses |
|---|---|---|
| `TypeCorrect` | `TypeOK` | |
| `NoBlockStoredTwice` | `NoBlockTwice` | |
| `QueueDrained` | `QueueWaitsForOthers` | |
| `HeightsAreTrue` | `TrueHeights` | no orphan detection |
| `HeadersAreLinked` | `ChainLinked` | no orphan detection, no load from the table |
| `FileIsReplayed` | `FileReplayed` | `FileSettings`: as above, blocks saved, file writes succeed, heights fit an i32 |
| `RowsPointAtBlocks` | `PositionPointsAtBlock` | blocks saved, file writes succeed |
| `IndexIsTheTable` | `IndexAgreesWithTable` | `LoadSettings`: load from the table, no operation lost, no load fails, heights fit an i32 |
| `RefinesHeaderWriter` | `UsesHeaderWriter` | |

The first three follow from `IInv`. `NoBlockTwice` alone is not inductive: a block
is appended to the headers in a later step than the one that looked it up in the
index. `IInv` adds that the block in hand is unknown, extends
`last_hash_processed` and waits nowhere in the queue (`InHandIsNext`), that
memory is empty during setup, and that the rows are finite in number (so that an
order of the rows, the result of the SELECT, is a sequence without repetition).
The others use `IInv` and:

* `TrueHeights` itself: each height is the parent's plus one, from `process_block`
  through the channel into the row and back by a load. With orphan detection it
  is false, since a roll-back moves `height` and not `last_hash_processed`.
* `FileInv`: the part of the file before the first torn block is a chain without
  repetition. While it is read the stored headers are its first `rpos` blocks, or
  all but the one in hand, and nothing of it ever goes through the queue. Once the
  node runs, the headers with the block in hand that is in the file already
  (`Written`) are that part and, behind it, the last blocks of the file; so a crash
  between the append and `process_block` is made good by the replay.
* `Placed`: besides the rows, the pending operations, the waiting blocks that have a
  position and the block in hand point at their blocks; the file only grows.
* `IndexInv`: the channel leads the table, version by version, to what memory holds
  (`Leads`). A crash may leave any of the versions to be loaded, so all of them are
  constrained: a higher row is a deeper block (`Higher`), which makes the last
  row loaded the deepest block, and no version has a row for a block deeper than
  `last_hash_processed` (`Remembered`). So a block that is stored again after a
  restart finds no row in its way, although after a roll-back heights are no longer
  true and the delete may still be on its way.

The refinement forgets the file positions of the
operations and turns the table into the set of its `<<hash, height>>` rows; each
action is a `Send`, `Perform`, `Lose` or `LoseAll`, or leaves the mapped variables
alone.

### Synchronisation logic

| Theorem | Property | Hypotheses |
|---|---|---|
| `LogicTypes` | the types of the logic, the link and the peer, with `IInv` of the block manager | |
| `UsesBlockManager` | `Spec` of `BlockManager`: every theorem above holds in the composed system too | |
| `NoneForgotten` | `NothingForgotten` | |
| `ChainInOrder` | `LinkedOnFirstBranch` | `PeerSettings` |
| `OthersQueued` | `OnlyOtherBlocksQueued` | `PeerSettings` |
| `NoneRolledBack` | no step takes a header away until the peer switches (action property) | `PeerSettings` |
| `UnknownRolledBack` | `OnlyUnknownRolledBack` (action property) | `SwitchSettings` |

For every block tree, set of chains, length of an inventory and number of lost
connections, with and without orphan detection.

`NothingForgotten` speaks of the quiet moments only. `Requested` says at every
moment that, on a live link with a block listed, a block is under way: asked for,
in the inbox, or in the hands of the block manager. A lost connection may break
it; `Connected` asks again for the first block of the list.

`PeerSettings` says what a sane peer offers: linked chains, the start block on the
first one, a first branch that is one line and to which a peer that left it does
not return, heights that fit an i32, and no block of the branch older than the
oldest of the first `Threshold + 1` blocks above the start block. Without the last
one `is_orphan` takes a block of the peer's chain for an orphan. `BranchInv` says,
while the peer is on the first branch (`Synced`): the headers are blocks of its chain
above the start block at the depth of their place; what is listed, announced, asked
for, waiting or in hand is of that kind too (`Wanted`); every getblocks starts from
a block the peer knows, so that its answer is wanted again; and the remembered
timestamp is not above that of the first `Threshold + 1` headers. Hence a block that
arrives is never an orphan, nothing is rolled back and `last_hash_processed` is
the last header. That a lost connection keeps all this needs no argument of its
own: it takes elements from the queues and changes nothing else.

`SwitchSettings` adds that the peer switches at most once (`OneOther`: the chains beside
the first branch are one line), that all chains begin with the same block and have
the start block, and that no block above the start block is older than one right
above it. What makes `OnlyUnknownRolledBack` hard is what is still under way when
the node has followed the peer to the other branch: an old block, sent as the
answer to a locator the peer did not know, would now be an orphan and take away a
header that the peer does know. `SwitchInv` excludes it. One block is under way at a
time, and behind it come only announcements of fresh blocks (`OneAtATime`), so the
roll-back leaves nothing old behind; the events of one connection do not mix with
those of the next (`Session`); the node gets to the other branch only from a block that
both branches share (`LastInv`, `Held`), which the peer knows throughout; and while
the last header is on the other branch everything listed, under way and asked for
is fresh (`Answers`). A second switch makes a header known again while an old block
is under way: the property is then false, as TLC shows on the instance of
`logic_chain`.

### Database writer

| Theorem | Property |
|---|---|
| `TypeCorrect` | `TypeOK` |
| `DropsAreIsolated` | `DropsOnlyBehindABatch` |
| `RetryCompletes` | `RetriedBatchIsComplete` |
| `WriterRefinesHeaderWriter` | `ImplementsHeaderWriter` |

For every set of programs, with and without failing statements, and any number
of retries. `IInv` says that the positions taken, in hand and in the channel follow
each other without a gap (`ChannelInOrder`), what the batch in hand consists of and
what may have been dropped before it (`WriterHolds`), and that the rows executed so
far are in effect (`InEffect`), which a restart of the batch from its first row
keeps. The refinement maps the header operations that are in hand and not yet
executed, followed by those in the channel, to `pending`; `Coalesce` of a header
operation, and `ExecFails` at the last attempt, are its `Lose`. With the refinement
by the block manager this closes the gap between the two threads: what the block
manager assumes of the writer the writer does.

### Transaction analyser

| Theorem | Property |
|---|---|
| `TypeCorrect` | `TypeOK` |
| `MempoolFollows` | `MempoolTableFollows` |
| `UtxoFollows` | `UtxoTableFollows` |
| `NoRolledBackRow` | `RolledBackStaysGone` |
| `RollbackSpares` | `RollbackSparesStored` (action property) |

The tables lag behind memory by the operations in the channel, and the writer may
drop any operation that follows a batch. `IInv` therefore looks at each item by
itself. For a transaction (`MempoolInStep`) the last operation about it, or its row
when there is none, says what the mempool says. An output (`UtxoInStep`) waits, was
sent in Ready state, has its row, or has it in an operation that cannot be dropped
(`Safe`: it does not follow a batch); that the utxo batch of a block is one rests on
the header that is sent before it. A header row (`HeadersInStep`) is in memory unless
its deletion, always safe behind the orphan row, is on its way, and a height in the
channel is free when its turn comes, which is what keeps a roll-back's deletes by
height off the rows of other blocks. `ChainOrdered` gives the heights of the stored
headers in order, and `Collections` that every monitor of the configuration has its
collection.

### Peer manager

| Theorem | Property |
|---|---|
| `TypeCorrect` | `TypeOK` |
| `ThreadsTracked` | `OneTrackedThread` |
| `LogicFollowsPeer` | `LogicKnowsPeer` |
| `StopsOnlyClosed` | `OnlyClosedStopped` (action property) |

`OneTrackedThread` needs that a tracker entry marked Finished holds no thread. The
last two speak of what is still in the event channel: as long as no thread has
panicked, the events in it, Logic's state, the entry and the connection are
at one of the stages of a single session (`Sessions`): between two connections,
following one (connecting, connected, or closed with the Disconnected on its
way), joining its thread, or over.

### Web gateway

| Theorem | Property |
|---|---|
| `InterfacesAgree` | `NamesAgree` |
| `ConfiguredStay` | `ConfiguredKept` |
| `RestartKeeps` | `RestartKeepsMonitors` (action property) |

For any number of Python threads and late requests. `NamesAgree` says something
only when all is quiet; `Agreement` says for each name that is not excused, at every
moment, that the requests for it in the Rust channel add and delete it in turns, and
lead from what the Rust service has to what Python lists or, while a thread has
the answer and has not updated the list, will list.

### Rate limiter

| Theorem | Property |
|---|---|
| `TypeCorrect` | `TypeOK` |
| `AtMostTwiceTheLimit` | `TwiceTheLimit` |
| `NobodyRefusedEarly` | `RefusedForCause` |

Neither of the last two is inductive: they speak about the history `allowed`, and
a step decides by the window alone. `IInv` adds what the window of an address says
about that history (`Explains`): the last `count` requests were allowed within the
window and in this life of the service, the first of them at its `start`, all others
before it. Of those before a window, the ones less than `WINDOW` older than its
start are fewer than the limit, plus the limit once for each restart since
(`Rested`, `Quota`), since a full earlier window lies further back or a restart has
cut it off. A full window is itself the cause of a refusal.

### Merkle proof

| Theorem | Property |
|---|---|
| `PointerInTree` | `TypeOK` |
| `BranchLeadsToRoot` | `ProofLeadsToRoot` |

For blocks of any number of transactions, asked for at any moment of the writing.
The code lays the rows of the tree out by division (`NumItems`), the reference
`MerkleRoot` pairs level by level; that both have rows of the same lengths is an
induction over the levels (halving twice is dividing by four, rounding up each
time). `MInv` says: while `calc_root` walks, a node that is set is the node of the
reference and its children are set, so that a subtree is left only when it is
complete, and the pointer is at an inner node or above the set root. While
`walk_tree_from_pos` walks, all nodes are those of the reference, `start_node` is the
node at the pointer, and the branch so far leads from the transaction to it.

### Induction over data

The library's induction theorems take an operator as a parameter, which the
provers cannot instantiate. `SequenceLemmas` states the least-number principle over
sets instead (`LeastNat`, from `WFMin` of the library), and a proof by induction
takes the set of counterexamples. That gives what `FlattenSeq` returns for any
number of sequences, on which the batches of the writer rest, the depths and the
shared beginnings of chains, and that the recursive functions of `MerkleProof`
(powers of two, levels, what a client computes) exist and what they return.

### Only model-checked

* All liveness properties (`WF`, `SF` and ENABLED are out of the prover's reach):
  the writer's empty channel, the node that ends with the peer's chain, addresses
  tried again, requests taken, the shutdown, answered proof requests.
* The two violation runs.

All 28 invariants that the passing runs check are stated by a theorem, and so are
their action properties and refinements.

## 5. Not modelled

* Configuration files and schema creation, with the change of the mempool's key:
  statements run once before anything else; the settings are constants.
* Formatting helpers, and the Python p2p classes and maintenance scripts.
* The address manager: its table is written and nothing in the service reads it.
* `/health`, `/version` and the Python endpoints that run one query and format its
  rows; the query for a known transaction before `POST /tx/hex` is forwarded.
* A write of the dynamic configuration that fails without a stop of the process
  (logged; memory and file differ until the next save).
* Dates and failing INSERTs of the connection log.

The library's order of events is assumed: Connected at most once and before
Disconnected, which comes exactly once per connection.

## 6. Plan

1. Recovery of the whole node: block manager, transaction analyser and the real
   writer (with coalescing and retries) in one module, restarts included.
2. A failing save in `WebGateway`.
3. What a peer that switches back and forth can make the node store: `logic_chain`
   shows that it is no chain, but not which blocks it can lose.

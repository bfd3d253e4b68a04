-------------------------------- MODULE Logic --------------------------------
(***************************************************************************)
(* The synchronisation logic (rust/src/uaas/logic.rs) on top of the block  *)
(* manager, with the peer it talks to and the link between them.           *)
(*                                                                         *)
(* The peer manager thread takes one event at a time (thread_manager.rs,   *)
(* process_messages), lets Logic handle it, and sends the messages Logic   *)
(* queued to the connected peer before it takes the next event; without a  *)
(* connected peer they are dropped.  Requests for transactions and the     *)
(* tables are left out here: an inv is the list of its block hashes, empty *)
(* for one that only announces transactions.                               *)
(*                                                                         *)
(* The peer is external: it serves getblocks and getdata from its active   *)
(* chain, mines, and may switch to a longer branch.                        *)
(***************************************************************************)
EXTENDS BlockManager, SequencesExt

CONSTANTS
    Timestamp,     \* header.timestamp of each block
    Threshold,     \* config.orphan.threshold
    Recent,        \* blocks younger than 10 minutes when they are processed
    Chain,         \* Chain[t]: the chain of a peer whose tip is t, oldest first
    FirstTip,      \* the peer's tip when the node starts
    MaxInv,        \* the hashes a peer puts in one inv (500)
    Reorgs,        \* whether the peer can switch to another branch
    MaxDrops,      \* bound on the lost connections
    MaxQueued      \* bound on what is under way or listed when a tx inv comes

ASSUME LogicAssumption ==
    /\ Timestamp \in [Block -> Nat]
    /\ Threshold \in Nat
    /\ Recent \subseteq Block
    /\ FirstTip \in DOMAIN Chain
    /\ \A t \in DOMAIN Chain :
          Chain[t] \in Seq(Block) /\ Chain[t] # <<>> /\ Chain[t][Len(Chain[t])] = t
    /\ MaxInv \in Nat \ {0}
    /\ MaxDrops \in Nat
    /\ MaxQueued \in Nat

VARIABLES
    state,                  \* ServerStateType
    start_block_timestamp,
    block_inventory,        \* the block hashes of the inv messages, per message
    handling,               \* the block whose on_block is running
    connected,              \* the peer's thread has status Connected
    inbox,                  \* events for the peer manager, in order
    link,                   \* up, down
    toPeer,                 \* messages on their way to the peer
    tip,                    \* the tip of the peer's active chain
    drops                   \* connections lost so far

logic == <<state, start_block_timestamp, block_inventory, handling>>
peer == <<link, tip, drops>>
lvars == <<vars, logic, connected, inbox, toPeer, peer>>

LInit ==
    /\ Init
    /\ state = "Starting"
    /\ start_block_timestamp = None
    /\ block_inventory = <<>>
    /\ handling = None
    /\ connected = FALSE
    /\ inbox = <<>>
    /\ link = "down"
    /\ toPeer = <<>>
    /\ tip = FirstTip
    /\ drops = 0

-----------------------------------------------------------------------------
(* get_last_known_block_hash *)
LastKnown(headers) == IF headers = <<>> THEN StartHash ELSE headers[Len(headers)]

(* Vec::retain: the list without h. *)
Without(s, h) == FlattenSeq([i \in DOMAIN s |-> IF s[i] = h THEN <<>> ELSE <<s[i]>>])

(* Mutant of Retain: the received hash stays in the list.                   *)
RetainAll(inv, h) == inv

(* The received hash leaves the first inv list only. *)
Retain(inv, h) == IF inv = <<>> \/ h = None THEN inv ELSE [inv EXCEPT ![1] = Without(@, h)]

(* trim_empty_inventory_front *)
Trim(inv) ==
    LET full == {i \in DOMAIN inv : inv[i] # <<>>}
    IN IF full = {} THEN <<>> ELSE SubSeq(inv, Min(full), Len(inv))

(* message_to_send, then peer.send: lost without a peer or on a dead link. *)
Post(msg) ==
    toPeer' = IF connected' /\ link = "up" THEN Append(toPeer, msg) ELSE toPeer

(* request_next_block: ask for the first block of the inventory, and for    *)
(* the next inv, from the last header on, when the inventory is used up.    *)
RequestNextBlock(inv, h) ==
    LET rest == Trim(Retain(inv, h)) IN
    /\ block_inventory' = rest
    /\ Post(IF rest = <<>> THEN [type |-> "GetBlocks", hash |-> LastKnown(block_headers')]
            ELSE [type |-> "GetData", hash |-> rest[1][1]])

(* has_chain_tip, after on_block: young blocks age while the node works.    *)
CheckReady ==
    \/ /\ block_headers' # <<>> /\ LastKnown(block_headers') \in Recent
       /\ state' = "Ready"
    \/ UNCHANGED state

-----------------------------------------------------------------------------
(* The events. *)
Event(type) == /\ mode = "run" /\ pc = "idle" /\ handling = None
               /\ inbox # <<>> /\ Head(inbox).type = type
               /\ inbox' = Tail(inbox)

(* Mutant of OnConnected: nothing is requested from the new peer.           *)
ConnectedAsksNothing ==
    /\ Event("Connected")
    /\ connected' = TRUE
    /\ state' = "Connected"
    /\ UNCHANGED <<vars, start_block_timestamp, block_inventory, handling, toPeer, peer>>

(* PeerEventType::Connected: set_state(Connected) requests a block. *)
OnConnected ==
    /\ Event("Connected")
    /\ connected' = TRUE
    /\ UNCHANGED vars
    /\ RequestNextBlock(block_inventory, None)
    /\ state' = "Connected"
    /\ UNCHANGED <<start_block_timestamp, handling, peer>>

OnDisconnected ==
    /\ Event("Disconnected")
    /\ connected' = FALSE
    /\ state' = "Disconnected"
    /\ UNCHANGED <<vars, start_block_timestamp, block_inventory, handling, toPeer, peer>>

(* on_inv: the list is kept; the first request is made only when the        *)
(* inventory was empty, the later ones follow from the blocks that arrive.  *)
OnInv ==
    /\ Event("Inv")
    /\ UNCHANGED <<vars, connected>>
    /\ LET inv == Append(block_inventory, Head(inbox).objects) IN
       IF block_inventory = <<>>
       THEN RequestNextBlock(inv, None)
       ELSE block_inventory' = inv /\ UNCHANGED toPeer
    /\ UNCHANGED <<state, start_block_timestamp, handling, peer>>

(* Mutant of StartTimestamp: the latest timestamp instead of the smallest.  *)
LatestTimestamp ==
    IF start_block_timestamp # None \/ ~DetectOrphans \/ Len(block_headers) <= Threshold
    THEN start_block_timestamp
    ELSE Max({Timestamp[h] : h \in Headers})

(* is_orphan: the smallest timestamp of more than Threshold headers is      *)
(* remembered for good; a block older than it counts as an orphan.          *)
StartTimestamp ==
    IF start_block_timestamp # None \/ ~DetectOrphans \/ Len(block_headers) <= Threshold
    THEN start_block_timestamp
    ELSE Min({Timestamp[h] : h \in Headers})
IsOrphan(b) ==
    DetectOrphans /\ StartTimestamp # None /\ StartTimestamp > Timestamp[b]

(* on_block on an orphan: the inventory is forgotten, the last block rolled *)
(* back, and the next inv requested.                                        *)
OnOrphan ==
    /\ Event("Block")
    /\ IsOrphan(Head(inbox).block)
    /\ HandleOrphanBlock
    /\ start_block_timestamp' = StartTimestamp
    /\ UNCHANGED connected
    /\ RequestNextBlock(<<>>, None)
    /\ CheckReady
    /\ UNCHANGED <<handling, peer>>

(* on_block on any other block: first the block manager... *)
OnBlockEvent ==
    /\ Event("Block")
    /\ ~IsOrphan(Head(inbox).block)
    /\ OnBlock(Head(inbox).block)
    /\ start_block_timestamp' = StartTimestamp
    /\ handling' = Head(inbox).block
    /\ UNCHANGED <<state, block_inventory, connected, toPeer, peer>>

(* ...then, when it is done, the next request and the Ready state. *)
FinishBlock ==
    /\ handling # None /\ pc = "idle"
    /\ UNCHANGED <<vars, connected>>
    /\ RequestNextBlock(block_inventory, handling)
    /\ CheckReady
    /\ handling' = None
    /\ UNCHANGED <<start_block_timestamp, inbox, peer>>

(* The steps of the block manager and of the writer thread. *)
BlockManagerStep ==
    /\ LoadBlockheaders \/ WriteBlockToFile \/ ProcessBlock \/ ProcessBlockQueue
    /\ UNCHANGED <<logic, connected, inbox, toPeer, peer>>
WriterStep ==
    /\ DbPerform
    /\ UNCHANGED <<logic, connected, inbox, toPeer, peer>>

-----------------------------------------------------------------------------
(* The peer and the link. *)
Deliver(msg) == inbox' = Append(inbox, msg)
Announce(h) ==
    IF link = "up" THEN Deliver([type |-> "Inv", objects |-> <<h>>]) ELSE UNCHANGED inbox

(* getblocks: the hashes behind the locator, or from the oldest block on    *)
(* for a locator that is not on the active chain.  No inv is sent when      *)
(* there is nothing to announce.                                            *)
Behind(h) ==
    LET c == Chain[tip]
        known == {i \in DOMAIN c : c[i] = h}
        from == IF known = {} THEN 1 ELSE Min(known) + 1
    IN SubSeq(c, from, Min({Len(c), from + MaxInv - 1}))

PeerServe ==
    /\ link = "up" /\ toPeer # <<>>
    /\ toPeer' = Tail(toPeer)
    /\ LET m == Head(toPeer) IN
       CASE m.type = "GetBlocks" ->
              IF Behind(m.hash) = <<>> THEN UNCHANGED inbox
              ELSE Deliver([type |-> "Inv", objects |-> Behind(m.hash)])
         [] m.type = "GetData" -> Deliver([type |-> "Block", block |-> m.hash])
    /\ UNCHANGED <<vars, logic, connected, peer>>

PeerMine ==
    /\ \E t \in DOMAIN Chain :
         /\ Chain[t] = Append(Chain[tip], t)
         /\ tip' = t
         /\ Announce(t)
    /\ UNCHANGED <<vars, logic, connected, toPeer, link, drops>>

PeerReorg ==
    /\ Reorgs
    /\ \E t \in DOMAIN Chain :
         /\ Len(Chain[t]) > Len(Chain[tip])
         /\ Prev[t] # tip
         /\ tip' = t
         /\ Announce(t)
    /\ UNCHANGED <<vars, logic, connected, toPeer, link, drops>>

(* A peer announces a transaction. *)
TxInv ==
    /\ link = "up" /\ Len(inbox) + Len(toPeer) + Len(block_inventory) < MaxQueued
    /\ Deliver([type |-> "Inv", objects |-> <<>>])
    /\ UNCHANGED <<vars, logic, connected, toPeer, peer>>

(* The peer manager's loop connects again once it has seen the disconnect. *)
Connect ==
    /\ link = "down" /\ ~connected
    /\ \A i \in DOMAIN inbox : inbox[i].type # "Disconnected"
    /\ link' = "up"
    /\ Deliver([type |-> "Connected"])
    /\ UNCHANGED <<vars, logic, connected, toPeer, tip, drops>>

(* The link breaks: requests and the events not yet received are lost. *)
Disconnect ==
    /\ link = "up" /\ drops < MaxDrops
    /\ link' = "down"
    /\ drops' = drops + 1
    /\ toPeer' = <<>>
    /\ \E n \in 0..Len(inbox) : inbox' = SubSeq(inbox, 1, n) \o <<[type |-> "Disconnected"]>>
    /\ UNCHANGED <<vars, logic, connected, tip>>

Handler == OnConnected \/ OnDisconnected \/ OnInv \/ OnOrphan \/ OnBlockEvent \/ FinishBlock
           \/ BlockManagerStep

LNext == Handler \/ WriterStep \/ PeerServe \/ PeerMine \/ PeerReorg \/ TxInv
         \/ Connect \/ Disconnect

(* The threads run, a live peer answers, and the peer manager reconnects;   *)
(* nothing is assumed of mining, announcements and lost connections.        *)
LSpec == /\ LInit /\ [][LNext]_lvars
         /\ WF_lvars(Handler) /\ WF_lvars(WriterStep)
         /\ WF_lvars(PeerServe) /\ WF_lvars(Connect)

-----------------------------------------------------------------------------
(* The peer's chain above the configured start block. *)
PeerChain ==
    LET c == Chain[tip] IN SelectSeq(c, LAMBDA h : Depth[h] > 0)

Quiescent == mode = "run" /\ pc = "idle" /\ handling = None /\ inbox = <<>> /\ toPeer = <<>>

(* No wanted block is forgotten: when nothing is under way on a live link,  *)
(* the inventory is empty.  on_inv only requests when the inventory was     *)
(* empty, so this rests on every request being repeated or answered, also   *)
(* across reconnects and overlapping announcements.                         *)
NothingForgotten == Quiescent /\ connected /\ link = "up" => block_inventory = <<>>

(* docs/Configuration.md: the service removes a block "when the hash of an  *)
(* unknown block is used as last known".  As long as the peer switches      *)
(* branches at most once, a roll-back never takes a header that is on the   *)
(* peer's chain, also while answers to old requests are under way; so a     *)
(* peer that does not switch never makes the node roll back, with orphan    *)
(* detection on.                                                            *)
OnlyUnknownRolledBack ==
    [][Len(block_headers') < Len(block_headers) =>
           \A i \in DOMAIN Chain[tip] : Chain[tip][i] # LastKnown(block_headers)]_lvars

(* The peer has not left the branch it was on when the node started. *)
OnFirstBranch == FirstTip \in {Chain[tip][i] : i \in DOMAIN Chain[tip]}

(* The node catches up: once mining and the loss of connections stop, the   *)
(* stored headers become the chain of a peer that stays on its branch, and  *)
(* stay it.                                                                 *)
EventuallySynced == <>[](OnFirstBranch => block_headers = PeerChain)

(* Whatever the order of announcements, requests and lost connections, the  *)
(* node keeps a chain in order until the peer switches branches (what comes *)
(* after is the subject of the run logic_chain).                            *)
LinkedOnFirstBranch == OnFirstBranch => ChainLinked

(* README.md: "The only constraint is that the blocks must be processed in *)
(* order": a stored header is the parent of the one stored behind it,      *)
(* whichever branch the peer is on.                                        *)
HeadersFollow ==
    \A i \in DOMAIN block_headers :
        Prev[block_headers[i]] = IF i = 1 THEN StartHash ELSE block_headers[i - 1]

(* README.md: a block whose prev_hash is the hash of the last block is      *)
(* processed, and "all other blocks are placed on a queue".  Until the peer *)
(* switches branches, no block in the queue extends the last stored header  *)
(* between handlers.                                                        *)
OnlyOtherBlocksQueued ==
    OnFirstBranch /\ pc = "idle" => block_queue[LastKnown(block_headers)] = None
=============================================================================

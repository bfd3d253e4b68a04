----------------------------- MODULE HeaderWriter -----------------------------
(***************************************************************************)
(* What the block manager may rely on when it sends an operation on the    *)
(* tables `blocks` and `orphans` to the writer thread: operations take     *)
(* effect in the order they were sent and each at most once.  It may not   *)
(* rely on more: any operation can be lost, and a crash loses all that     *)
(* wait.  Database.tla (the writer thread) and BlockManager.tla (its       *)
(* client) are both shown to implement this specification.                 *)
(***************************************************************************)
EXTENDS Naturals, Sequences

CONSTANTS HeaderOps   \* operations [op, hash, height] that can be sent

VARIABLES pending, blocks, orphans

hwvars == <<pending, blocks, orphans>>

(* The table after an operation; INSERT INTO blocks fails on a known hash.  *)
BlocksAfter(op) ==
    CASE op.op = "BlockHeaderWrite" ->
            IF \E r \in blocks : r[1] = op.hash THEN blocks
            ELSE blocks \cup {<<op.hash, op.height>>}
      [] op.op = "BlockHeaderDelete" -> {r \in blocks : r[1] # op.hash}
      [] OTHER -> blocks

OrphansAfter(op) ==
    IF op.op = "OrphanBlockHeaderWrite" THEN orphans \cup {<<op.hash, op.height>>} ELSE orphans

HWInit == pending = <<>> /\ blocks = {} /\ orphans = {}

(* A handler sends one or more operations: the channel grows at its end. *)
Send ==
    /\ Len(pending') > Len(pending)
    /\ SubSeq(pending', 1, Len(pending)) = pending
    /\ \A i \in (Len(pending) + 1)..Len(pending') : pending'[i] \in HeaderOps
    /\ UNCHANGED <<blocks, orphans>>

Perform ==
    /\ pending # <<>>
    /\ blocks' = BlocksAfter(Head(pending))
    /\ orphans' = OrphansAfter(Head(pending))
    /\ pending' = Tail(pending)

Lose ==
    /\ pending # <<>>
    /\ pending' = Tail(pending)
    /\ UNCHANGED <<blocks, orphans>>

LoseAll ==
    /\ pending' = <<>>
    /\ UNCHANGED <<blocks, orphans>>

HWNext == Send \/ Perform \/ Lose \/ LoseAll

HWSpec == HWInit /\ [][HWNext]_hwvars
=============================================================================

------------------------------- MODULE Database -------------------------------
(***************************************************************************)
(* The database writer thread (rust/src/uaas/database.rs): it takes the    *)
(* operations of the channel one after the other, coalesces a batch        *)
(* operation with the operations of the same type behind it, and executes  *)
(* the rows against the tables, retrying the whole batch on an error.      *)
(*                                                                         *)
(* The senders are the handlers of the main thread; a run gives the        *)
(* sequences of operations they send (Programs).  They are sent one at a   *)
(* time, so a try_recv of the writer can come between any two of them.     *)
(*                                                                         *)
(* A row is a key and a height: the utxo key stands for (hash, pos), and   *)
(* the columns no statement looks at are left out.                         *)
(***************************************************************************)
EXTENDS Integers, Sequences, SequencesExt

CONSTANTS
    Programs,      \* the operation sequences the handlers may send
    Retries,       \* config.database.retries
    DbErrors       \* whether a statement can fail for a transient reason

BatchTypes == {"UtxoBatchWrite", "UtxoBatchDelete", "TxBatchWrite",
               "MempoolBatchDelete", "MempoolBatchWrite"}
HeaderTypes == {"BlockHeaderWrite", "OrphanBlockHeaderWrite", "BlockHeaderDelete"}
OpTypes == BatchTypes \cup HeaderTypes \cup {"TxDelete", "UtxoDelete"}

(* The table each operation's statement works on, and what it does. *)
Statement ==
    [UtxoBatchWrite         |-> [table |-> "utxo",    verb |-> "replace"],
     UtxoBatchDelete        |-> [table |-> "utxo",    verb |-> "delete"],
     TxBatchWrite           |-> [table |-> "tx",      verb |-> "insert"],
     MempoolBatchDelete     |-> [table |-> "mempool", verb |-> "delete"],
     MempoolBatchWrite      |-> [table |-> "mempool", verb |-> "insert"],
     BlockHeaderWrite       |-> [table |-> "blocks",  verb |-> "insert"],
     OrphanBlockHeaderWrite |-> [table |-> "orphans", verb |-> "append"],
     BlockHeaderDelete      |-> [table |-> "blocks",  verb |-> "delete"],
     TxDelete               |-> [table |-> "tx",      verb |-> "delete at height"],
     UtxoDelete             |-> [table |-> "utxo",    verb |-> "delete at height"]]
Tables == {"utxo", "tx", "mempool", "blocks", "orphans"}

(* The operations that are sent, and their rows.                            *)
Ops == UNION {{p[i] : i \in DOMAIN p} : p \in Programs}
Rows == UNION {{o.rows[i] : i \in DOMAIN o.rows} : o \in Ops}

(* An operation on a header carries one.                                    *)
ASSUME DatabaseAssumption ==
    /\ Retries \in Nat
    /\ DbErrors \in BOOLEAN
    /\ Programs \subseteq Seq(Ops)
    /\ \A o \in Ops : /\ o.op \in OpTypes
                      /\ o.rows \in Seq(Rows)
                      /\ o.op \in HeaderTypes => Len(o.rows) = 1
    /\ \A r \in Rows : r = <<r[1], r[2]>>

VARIABLES
    program,   \* what the handlers send in this behaviour
    sent,      \* how many operations of it are sent
    chan,      \* positions in program of the operations in the channel
    pc,        \* recv, coalesce, exec
    op,        \* the type of the operation in hand
    merged,    \* the positions whose rows are in the batch
    done,      \* rows of the batch executed by the running attempt
    tries,     \* failed attempts of the batch
    db,        \* table -> set of <<key, height>> rows
    dropped,   \* positions taken off the channel and never executed
    failed     \* positions whose batch was given up after the retries

vars == <<program, sent, chan, pc, op, merged, done, tries, db, dropped, failed>>

(* The rows in hand: those of the merged operations, in order. *)
Batch == FlattenSeq([n \in 1..Len(merged) |-> program[merged[n]].rows])

Init ==
    /\ program \in Programs
    /\ sent = 0
    /\ chan = <<>>
    /\ pc = "recv"
    /\ op = "none"
    /\ merged = <<>>
    /\ done = 0
    /\ tries = 0
    /\ db = [t \in Tables |-> {}]
    /\ dropped = {}
    /\ failed = {}

(* send_db_op of the handlers. *)
Send ==
    /\ sent < Len(program)
    /\ sent' = sent + 1
    /\ chan' = Append(chan, sent + 1)
    /\ UNCHANGED <<program, pc, op, merged, done, tries, db, dropped, failed>>

(* Mutant of Recv: every operation goes through a coalescing loop.          *)
RecvCoalescesAll ==
    /\ pc = "recv" /\ chan # <<>>
    /\ op' = program[Head(chan)].op
    /\ merged' = <<Head(chan)>>
    /\ chan' = Tail(chan)
    /\ pc' = "coalesce"
    /\ done' = 0
    /\ tries' = 0
    /\ UNCHANGED <<program, sent, db, dropped, failed>>

(* perform_db_operations: the blocking recv. *)
Recv ==
    /\ pc = "recv" /\ chan # <<>>
    /\ op' = program[Head(chan)].op
    /\ merged' = <<Head(chan)>>
    /\ chan' = Tail(chan)
    /\ pc' = IF op' \in BatchTypes THEN "coalesce" ELSE "exec"
    /\ done' = 0
    /\ tries' = 0
    /\ UNCHANGED <<program, sent, db, dropped, failed>>

(* Mutant of Coalesce: an operation of another type is sent to the channel  *)
(* again.                                                                   *)
CoalesceResends ==
    /\ pc = "coalesce"
    /\ IF chan = <<>>
       THEN pc' = "exec" /\ UNCHANGED <<chan, merged>>
       ELSE IF program[Head(chan)].op = op
            THEN /\ merged' = Append(merged, Head(chan))
                 /\ chan' = Tail(chan)
                 /\ UNCHANGED pc
            ELSE /\ chan' = Append(Tail(chan), Head(chan))
                 /\ pc' = "exec"
                 /\ UNCHANGED merged
    /\ UNCHANGED <<program, sent, op, done, tries, db, dropped, failed>>

(* One turn of a coalesce_* loop: while let Ok(SameType(more)) = try_recv().*)
(* A pattern that does not match still consumed the operation.              *)
Coalesce ==
    /\ pc = "coalesce"
    /\ IF chan = <<>>
       THEN /\ pc' = "exec"
            /\ UNCHANGED <<chan, merged, dropped>>
       ELSE /\ chan' = Tail(chan)
            /\ IF program[Head(chan)].op = op
               THEN /\ merged' = Append(merged, Head(chan))
                    /\ UNCHANGED <<pc, dropped>>
               ELSE /\ dropped' = dropped \cup {Head(chan)}
                    /\ pc' = "exec"
                    /\ UNCHANGED merged
    /\ UNCHANGED <<program, sent, op, done, tries, db, failed>>

(* The rows of a table after one statement. *)
TableAfter(rows, verb, r) ==
    CASE verb = "replace" -> {x \in rows : x[1] # r[1]} \cup {r}
      [] verb \in {"insert", "append"} -> rows \cup {r}
      [] verb = "delete" -> {x \in rows : x[1] # r[1]}
      [] verb = "delete at height" -> {x \in rows : x[2] # r[2]}

(* INSERT refuses a row whose primary key is taken; orphans has no key. *)
Refused(r) ==
    /\ Statement[op].verb = "insert"
    /\ \E x \in db[Statement[op].table] : x[1] = r[1]

(* exec_batch and exec_drop run one statement per row, each committed.  *)
ExecRow ==
    /\ pc = "exec" /\ done < Len(Batch)
    /\ LET r == Batch[done + 1] IN
       /\ ~Refused(r)
       /\ db' = [db EXCEPT ![Statement[op].table] = TableAfter(@, Statement[op].verb, r)]
    /\ done' = done + 1
    /\ UNCHANGED <<program, sent, chan, pc, op, merged, tries, dropped, failed>>

(* Mutant of ExecFails: one retry too many.                                 *)
ExecFailsOnceMore ==
    /\ pc = "exec" /\ done < Len(Batch)
    /\ DbErrors \/ Refused(Batch[done + 1])
    /\ tries <= Retries
    /\ tries' = tries + 1
    /\ done' = 0
    /\ UNCHANGED <<program, sent, chan, pc, op, merged, db, dropped, failed>>

(* Mutant of ExecFails: the attempts are not counted.                       *)
ExecFailsForever ==
    /\ pc = "exec" /\ done < Len(Batch)
    /\ DbErrors \/ Refused(Batch[done + 1])
    /\ done' = 0
    /\ UNCHANGED <<program, sent, chan, pc, op, merged, tries, db, dropped, failed>>

(* Mutant of ExecFails: the attempt goes on behind the row that failed.     *)
ExecSkipsRow ==
    /\ pc = "exec" /\ done < Len(Batch)
    /\ DbErrors \/ Refused(Batch[done + 1])
    /\ done' = done + 1
    /\ UNCHANGED <<program, sent, chan, pc, op, merged, tries, db, dropped, failed>>

(* A statement fails: the whole batch is tried again, from its first row,   *)
(* until the delays are used up; then the error is only logged.             *)
ExecFails ==
    /\ pc = "exec" /\ done < Len(Batch)
    /\ DbErrors \/ Refused(Batch[done + 1])
    /\ IF tries < Retries
       THEN /\ tries' = tries + 1
            /\ done' = 0
            /\ UNCHANGED <<pc, merged, failed>>
       ELSE /\ pc' = "recv"
            /\ failed' = failed \cup {merged[i] : i \in DOMAIN merged}
            /\ merged' = <<>>
            /\ done' = 0
            /\ UNCHANGED tries
    /\ UNCHANGED <<program, sent, chan, op, db, dropped>>

ExecDone ==
    /\ pc = "exec" /\ done = Len(Batch)
    /\ pc' = "recv"
    /\ merged' = <<>>
    /\ done' = 0
    /\ UNCHANGED <<program, sent, chan, op, tries, db, dropped, failed>>

Writer == Recv \/ Coalesce \/ ExecRow \/ ExecFails \/ ExecDone

(* The handlers are done and the writer waits in recv. *)
Quiet == sent = Len(program) /\ chan = <<>> /\ pc = "recv"
Waiting == Quiet /\ UNCHANGED vars

Next == Send \/ Writer \/ Waiting

(* The two threads are scheduled by the operating system. *)
Spec == Init /\ [][Next]_vars /\ WF_vars(Send) /\ WF_vars(Writer)

-----------------------------------------------------------------------------
TypeOK ==
    /\ program \in Programs
    /\ sent \in 0..Len(program)
    /\ \A i \in DOMAIN chan : chan[i] \in 1..sent
    /\ pc \in {"recv", "coalesce", "exec"}
    /\ op \in OpTypes \cup {"none"}
    /\ done \in 0..Len(Batch)
    /\ tries \in 0..Retries
    /\ dropped \cup failed \subseteq 1..sent

(* What the coalescing loops can throw away: only an operation that was     *)
(* sent right behind a batch operation of another type which itself was     *)
(* taken, so never two operations in a row, and never an operation that     *)
(* follows a header, orphan or delete-at-height operation.                  *)
DropsOnlyBehindABatch ==
    \A i \in dropped :
        /\ i > 1
        /\ program[i - 1].op \in BatchTypes \ {program[i].op}
        /\ i - 1 \notin dropped

(* A transient error heals: a REPLACE or DELETE batch that was neither      *)
(* dropped nor given up has, when its last row is executed, all its rows in *)
(* effect, however often it was restarted in the middle.                    *)
RetriedBatchIsComplete ==
    pc = "exec" /\ done = Len(Batch) /\ Batch # <<>> =>
        LET rows == {Batch[i] : i \in DOMAIN Batch}
            table == db[Statement[op].table]
        IN CASE Statement[op].verb \in {"insert", "append"} -> rows \subseteq table
             [] Statement[op].verb = "replace" ->
                    \A r \in rows : \E x \in table : x[1] = r[1] /\ x \in rows
             [] Statement[op].verb = "delete" -> \A r \in rows, x \in table : x[1] # r[1]
             [] OTHER -> \A r \in rows, x \in table : x[2] # r[2]

(* The channel is always emptied again: no operation can block the writer,  *)
(* because every retry loop ends.                                           *)
WriterDrainsChannel == <>[]Quiet

(* The comment over Database: this thread is "responsible for all the       *)
(* database writes".  When it has nothing left to do and no statement       *)
(* failed, every operation that was sent has been executed.                 *)
AllWritesPerformed == Quiet /\ failed = {} => dropped = {}

-----------------------------------------------------------------------------
(* The operations on blocks and orphans, as HeaderWriter sees them. *)
HeaderOp(o) == [op |-> o.op, hash |-> o.rows[1][1], height |-> o.rows[1][2]]
InHand == IF pc = "exec" /\ op \in HeaderTypes /\ done < Len(Batch) THEN merged ELSE <<>>

(* Those of the positions s, in order. *)
HeaderOpsOf(s) ==
    FlattenSeq([n \in 1..Len(s) |-> IF program[s[n]].op \in HeaderTypes
                                    THEN <<HeaderOp(program[s[n]])>> ELSE <<>>])
PendingHeaderOps == HeaderOpsOf(InHand \o chan)

HW == INSTANCE HeaderWriter WITH
        HeaderOps <- {HeaderOp(o) : o \in {x \in Ops : x.op \in HeaderTypes}},
        pending <- PendingHeaderOps,
        blocks <- db["blocks"],
        orphans <- db["orphans"]

(* The writer gives the block manager what HeaderWriter says: header        *)
(* operations are performed in order, at most once, or lost.                *)
ImplementsHeaderWriter == HW!HWSpec
=============================================================================

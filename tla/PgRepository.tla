---------------------------- MODULE PgRepository -----------------------------
(***************************************************************************)
(* The PostgreSQL repository of internal/domain/repository: calls of many  *)
(* goroutines share a pool of connections and a table whose original_url   *)
(* is unique.  Create and CreateBatch run in a transaction, UpdateIsActive *)
(* and the reads are one statement each.                                   *)
(*                                                                         *)
(* The database is modelled by what its callers see: an insert waits for   *)
(* the transaction that has an uncommitted row of the same URL, fails if   *)
(* the row is committed, and a failed statement aborts the transaction.    *)
(* Short codes are random keys and stand for their rows, one per URL.      *)
(***************************************************************************)
EXTENDS Naturals, SequencesExt

CONSTANTS
    Clients,    \* goroutines that call the repository
    URLs,
    NoRow,
    Nobody,     \* in `by': the row is committed
    Orphan,     \* in `by': the row's transaction was left open by a call that returned
    MaxConns,   \* size of the pool
    ChunkSize,  \* batchSize of the use case layer
    MaxRequest  \* bound: URLs in one request

ASSUME PgAssumption ==
    /\ MaxConns \in Nat \ {0} /\ ChunkSize \in Nat \ {0} /\ MaxRequest \in Nat
    /\ Nobody \notin Clients /\ Orphan \notin Clients /\ Nobody # Orphan

Row == [by : Clients \cup {Nobody, Orphan}, active : BOOLEAN]

ASSUME NoRowAssumption == NoRow \notin Row

(* Where a call is: waiting for a connection, inserting, about to commit, or about to send its
   only statement. *)
Place == {"idle", "acquire", "insert", "commit", "send"}
Call == [op : {"create", "batch", "update", "read"}, at : Place,
         urls : Seq(URLs),      \* the request
         todo : Seq(URLs)]      \* what is still to be inserted
Idle == [op |-> "read", at |-> "idle", urls |-> <<>>, todo |-> <<>>]

VARIABLES
    table,      \* URL -> its row
    call,       \* client -> its running call
    free,       \* connections in the pool
    leaked,     \* connections no running call holds and nobody will give back
    created     \* for the properties: URL -> calls that reported its creation
vars == <<table, call, free, leaked, created>>

Init ==
    /\ table = [u \in URLs |-> NoRow]
    /\ call = [c \in Clients |-> Idle]
    /\ free = MaxConns /\ leaked = 0
    /\ created = [u \in URLs |-> 0]

-----------------------------------------------------------------------------
Inserted(c, u) == table[u] # NoRow /\ table[u].by = c
Committed(u) == Inserted(Nobody, u)
Holds(c) == call[c].at \in {"insert", "commit", "send"}

Goto(c, at) == call' = [call EXCEPT ![c].at = at]
Return(c) == call' = [call EXCEPT ![c] = Idle]

(* What becomes of the rows of c's transaction. *)
Commit(c) == table' = [u \in URLs |->
                          IF Inserted(c, u) THEN [table[u] EXCEPT !.by = Nobody] ELSE table[u]]
Abort(c) == table' = [u \in URLs |-> IF Inserted(c, u) THEN NoRow ELSE table[u]]
LeaveOpen(c) == table' = [u \in URLs |->
                          IF Inserted(c, u) THEN [table[u] EXCEPT !.by = Orphan] ELSE table[u]]

Request(n) == UNION {[1..k -> URLs] : k \in 1..n}

Start(c, op, urls) ==
    /\ call[c] = Idle
    /\ call' = [call EXCEPT ![c] = [op |-> op, at |-> "acquire", urls |-> urls, todo |-> urls]]
    /\ UNCHANGED <<table, free, leaked, created>>

Create(c, u) == Start(c, "create", <<u>>)
CreateBatch(c, urls) == Start(c, "batch", urls)
UpdateIsActive(c, urls) == Start(c, "update", urls)
(* Get, GetByOriginalURL, GetByUserID, FindDuplicateURLs and Ping. *)
Read(c) == Start(c, "read", <<>>)

(* pool.Acquire and, in a transaction, Begin. *)
Acquire(c) ==
    /\ call[c].at = "acquire" /\ free > 0
    /\ free' = free - 1
    /\ Goto(c, IF call[c].op \in {"create", "batch"} THEN "insert" ELSE "send")
    /\ UNCHANGED <<table, leaked, created>>

(* The caller's context is done while it waits, or the connection or Begin fails. *)
AcquireFails(c) ==
    /\ call[c].at = "acquire"
    /\ Return(c)
    /\ UNCHANGED <<table, free, leaked, created>>

-----------------------------------------------------------------------------
(* Transactions *)

(* Mutant: every row is committed at once. *)
InsertCommitted(c) ==
    /\ call[c].at = "insert" /\ call[c].todo # <<>>
    /\ table[Head(call[c].todo)] = NoRow
    /\ table' = [table EXCEPT ![Head(call[c].todo)] = [by |-> Nobody, active |-> TRUE]]
    /\ call' = [call EXCEPT ![c].todo = Tail(@)]
    /\ UNCHANGED <<free, leaked, created>>

(* One row of an INSERT. *)
Insert(c) ==
    /\ call[c].at = "insert" /\ call[c].todo # <<>>
    /\ table[Head(call[c].todo)] = NoRow
    /\ table' = [table EXCEPT ![Head(call[c].todo)] = [by |-> c, active |-> TRUE]]
    /\ call' = [call EXCEPT ![c].todo = Tail(@)]
    /\ UNCHANGED <<free, leaked, created>>

Inserts(c) ==
    /\ call[c].at = "insert" /\ call[c].todo = <<>>
    /\ Goto(c, "commit")
    /\ UNCHANGED <<table, free, leaked, created>>

(* Mutant: as in CreateBatch, the error is not the one the deferred rollback looks at. *)
ReturnErrorShadowed(c) ==
    /\ Return(c)
    /\ leaked' = leaked + 1 /\ UNCHANGED free

(* An insert fails.  In Create the deferred rollbackTxOnError sees the error and gives the
   connection back; in CreateBatch the error is a variable of the loop, so that the deferred call
   sees none: no rollback, and the connection stays out of the pool. *)
ReturnError(c) ==
    /\ Return(c)
    /\ IF call[c].op = "create"
       THEN free' = free + 1 /\ UNCHANGED leaked
       ELSE leaked' = leaked + 1 /\ UNCHANGED free

(* A second row of one URL, committed or in the same request. *)
InsertDuplicate(c) ==
    /\ call[c].at = "insert" /\ call[c].todo # <<>>
    /\ Committed(Head(call[c].todo)) \/ Inserted(c, Head(call[c].todo))
    /\ Abort(c)
    /\ ReturnError(c)
    /\ UNCHANGED created

(* The deadline of an HTTP handler passes while a statement runs or waits, which closes the
   connection; or the database ends the statement, for a deadlock among others. *)
InsertFails(c) ==
    /\ call[c].at = "insert" /\ call[c].todo # <<>>
    /\ Abort(c)
    /\ ReturnError(c)
    /\ UNCHANGED created

(* The deadline has passed when the next chunk is about to be sent: nothing is, and CreateBatch
   leaves its transaction open. *)
Sent(c) == Len(call[c].urls) - Len(call[c].todo)
ChunkNotSent(c) ==
    /\ call[c].at = "insert" /\ call[c].todo # <<>> /\ call[c].op = "batch"
    /\ Sent(c) > 0 /\ Sent(c) % ChunkSize = 0
    /\ LeaveOpen(c)
    /\ ReturnError(c)
    /\ UNCHANGED created

(* pgxpool gives the connection back whether the commit succeeds or not. *)
CommitSucceeds(c) ==
    /\ call[c].at = "commit"
    /\ Commit(c)
    /\ created' = [u \in URLs |-> IF u \in ToSet(call[c].urls) THEN created[u] + 1 ELSE created[u]]
    /\ free' = free + 1
    /\ Return(c)
    /\ UNCHANGED leaked

(* Mutant: the error of the commit is ignored. *)
CommitErrorIgnored(c) ==
    /\ call[c].at = "commit"
    /\ Commit(c) \/ Abort(c)
    /\ created' = [u \in URLs |-> IF u \in ToSet(call[c].urls) THEN created[u] + 1 ELSE created[u]]
    /\ free' = free + 1
    /\ Return(c)
    /\ UNCHANGED leaked

(* Mutant: the connection is given back a second time by the deferred rollback. *)
CommitFailsTwice(c) ==
    /\ call[c].at = "commit"
    /\ Commit(c) \/ Abort(c)
    /\ free' = free + 2
    /\ Return(c)
    /\ UNCHANGED <<leaked, created>>

(* The call returns an error; the database may have committed. *)
CommitFails(c) ==
    /\ call[c].at = "commit"
    /\ Commit(c) \/ Abort(c)
    /\ free' = free + 1
    /\ Return(c)
    /\ UNCHANGED <<leaked, created>>

-----------------------------------------------------------------------------
(* Calls of one statement.  The updates of one batch are one implicit transaction: all of them
   take effect, or none. *)
(* The table after the statement: only an update writes, and only rows it can see. *)
Updated(c) == [u \in URLs |->
    IF call[c].op = "update" /\ u \in ToSet(call[c].urls) /\ Committed(u)
    THEN [table[u] EXCEPT !.active = FALSE] ELSE table[u]]

SendOne(c) ==
    /\ call[c].at = "send"
    /\ table' = Updated(c)
    /\ free' = free + 1
    /\ Return(c)
    /\ UNCHANGED <<leaked, created>>

(* Mutant: the results of a batch that failed are not closed. *)
SendFailsUnclosed(c) ==
    /\ call[c].at = "send"
    /\ table' \in {table, Updated(c)}
    /\ Return(c)
    /\ UNCHANGED <<free, leaked, created>>

(* The call returns an error; the database may have done what it was asked. *)
SendFails(c) ==
    /\ call[c].at = "send"
    /\ table' \in {table, Updated(c)}
    /\ free' = free + 1
    /\ Return(c)
    /\ UNCHANGED <<leaked, created>>

-----------------------------------------------------------------------------
Next == \E c \in Clients :
    \/ \E u \in URLs : Create(c, u)
    \/ \E urls \in Request(MaxRequest) : CreateBatch(c, urls) \/ UpdateIsActive(c, urls)
    \/ Read(c)
    \/ Acquire(c) \/ AcquireFails(c)
    \/ Insert(c) \/ Inserts(c) \/ InsertDuplicate(c) \/ InsertFails(c) \/ ChunkNotSent(c)
    \/ CommitSucceeds(c) \/ CommitFails(c)
    \/ SendOne(c) \/ SendFails(c)

(* Mutant: a call without a deadline. *)
NoDeadline(c) == FALSE

(* A call that waits for a connection or for another transaction ends at the latest with the
   five-second deadline of its HTTP handler. *)
Deadline(c) == AcquireFails(c) \/ InsertFails(c)

Goes(c) == Insert(c) \/ Inserts(c) \/ InsertDuplicate(c) \/ CommitSucceeds(c) \/ CommitFails(c)
               \/ SendOne(c) \/ SendFails(c)

(* A running call does not stop for good: its next statement succeeds or fails, or its deadline
   ends it. *)
Fairness == \A c \in Clients : WF_vars(Goes(c) \/ Deadline(c))

Spec == Init /\ [][Next]_vars /\ Fairness

-----------------------------------------------------------------------------
(* Properties *)

TypeOK ==
    /\ table \in [URLs -> Row \cup {NoRow}]
    /\ call \in [Clients -> Call]
    /\ free \in 0..MaxConns /\ leaked \in 0..MaxConns
    /\ created \in [URLs -> Nat]

(* Every connection is in the pool, held by one running call, or lost to a failed CreateBatch;
   none is given back twice. *)
ConnectionsAccounted ==
    free + Cardinality({c \in Clients : Holds(c)}) + leaked = MaxConns

(* No call but a failed CreateBatch loses a connection. *)
OnlyBatchLeaks ==
    [][leaked' # leaked => \E c \in Clients : call[c].op = "batch" /\ call'[c] = Idle]_vars

(* A URL is reported as created at most once, however the calls for it overlap, and then its row
   is committed. *)
CreatedOnce ==
    \A u \in URLs : created[u] > 0 => created[u] = 1 /\ Committed(u)

(* CreateBatch is atomic: a row becomes visible only when its call ends, and with every row of
   the same request. *)
BatchIsAtomic ==
    [][\A u \in URLs : ~Committed(u) /\ Committed(u)' =>
          \E c \in Clients : /\ call'[c] = Idle
                             /\ u \in ToSet(call[c].urls)
                             /\ \A v \in ToSet(call[c].urls) : Committed(v)']_vars

(* A running call does not keep others waiting for ever: its uncommitted row is committed or gone
   in the end, even when two batches wait for each other, or it belongs to a transaction that the
   call has left open.  The last happens when the deadline passes between two chunks of a batch,
   and such a row keeps others waiting: see RowsAreReleased. *)
LocksAreReleased ==
    \A c \in Clients : \A u \in URLs :
        Inserted(c, u) ~> (table[u] = NoRow \/ Committed(u) \/ Inserted(Orphan, u))

(* What the comment of rollbackTxOnError says, that it is deferred `to ensure proper transaction
   cleanup': when no call runs no row is uncommitted, and no insert of its URL waits for a
   transaction that nobody will end and whose connection nobody will give back. *)
RowsAreReleased == (\A c \in Clients : call[c] = Idle) => \A u \in URLs : ~Inserted(Orphan, u)

=============================================================================

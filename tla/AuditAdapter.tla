---------------------------- MODULE AuditAdapter -----------------------------
(***************************************************************************)
(* The audit adapter of internal/audit/adapter.go: any number of           *)
(* goroutines log events into a bounded channel, one goroutine takes them  *)
(* out, writes each to the audit file and collects them in batches for the *)
(* remote audit service, and Enable and Disable start and stop it.         *)
(*                                                                         *)
(* An event is the number of its acceptance into the channel.  Whether a   *)
(* write or a post succeeds changes nothing in the adapter, which logs the *)
(* error and goes on: `written' and `posted' are what has been tried.  The *)
(* one-second timer of the batch is reset wherever it is read or stopped,  *)
(* so it can fire whenever the processor waits in its select.              *)
(***************************************************************************)
EXTENDS Naturals, Sequences, FiniteSets

CONSTANTS
    Loggers,        \* goroutines that call LogEvent
    Controllers,    \* goroutines that call Enable, Disable or Close
    Processors,     \* goroutines startProcessor may have started
    NoOne,
    QueueSize,      \* capacity of the channel
    MaxBatchSize,
    MaxEvents       \* bound: events accepted

ASSUME AuditAssumption ==
    /\ QueueSize \in Nat \ {0} /\ MaxBatchSize \in Nat \ {0}    \* Validate
    /\ MaxEvents \in Nat
    /\ NoOne \notin Controllers

VARIABLES
    receivers,  \* which of "file" and "http" are configured
    enabled,
    mutex,      \* the controller that holds the write lock across its steps
    doneClosed, \* the channel a.done is closed
    wg,         \* goroutines the WaitGroup counts
    queue,      \* the channel
    logger,     \* where each LogEvent call is
    proc,       \* where each processor goroutine is
    batch,      \* processor -> its local batch
    hand,       \* processor -> the event it has taken and not yet written, as a sequence
    accepted,   \* events accepted so far
    written,    \* events handed to the file logger, in order
    posted,     \* events handed to the remote client, in order
    owed        \* events accepted before the last Disable

control == <<enabled, mutex, doneClosed, wg>>
vars == <<receivers, control, queue, logger, proc, batch, hand, accepted, written, posted, owed>>

Live == {p \in Processors : proc[p] # "none"}

(* NewAdapter: without a receiver it starts disabled, whatever its configuration says. *)
Init ==
    /\ receivers \in SUBSET {"file", "http"}
    /\ enabled \in BOOLEAN /\ (enabled => receivers # {})
    /\ mutex = NoOne /\ doneClosed = FALSE
    /\ queue = <<>> /\ logger = [l \in Loggers |-> "idle"]
    /\ \E first \in Processors :
          proc = [p \in Processors |-> IF enabled /\ p = first THEN "select" ELSE "none"]
    /\ wg = IF enabled THEN 1 ELSE 0
    /\ batch = [p \in Processors |-> <<>>] /\ hand = [p \in Processors |-> <<>>]
    /\ accepted = 0 /\ written = <<>> /\ posted = <<>> /\ owed = 0

-----------------------------------------------------------------------------
(* LogEvent *)

LogEvent(l) ==
    /\ logger[l] = "idle" /\ accepted < MaxEvents
    /\ logger' = [logger EXCEPT ![l] = "check"]
    /\ UNCHANGED <<receivers, control, queue, proc, batch, hand, accepted, written, posted, owed>>

(* `enabled' is read under the read lock, which is released before the send. *)
CheckEnabled(l) ==
    /\ logger[l] = "check" /\ mutex = NoOne
    /\ logger' = [logger EXCEPT ![l] = IF enabled THEN "send" ELSE "idle"]
    /\ UNCHANGED <<receivers, control, queue, proc, batch, hand, accepted, written, posted, owed>>

(* Mutant: the channel is taken to be unbounded, and the bound of the queue lost. *)
SendUnbounded(l) ==
    /\ logger[l] = "send" /\ accepted < MaxEvents
    /\ logger' = [logger EXCEPT ![l] = "idle"]
    /\ queue' = Append(queue, accepted + 1)
    /\ accepted' = accepted + 1
    /\ UNCHANGED <<receivers, control, proc, batch, hand, written, posted, owed>>

Send(l) ==
    /\ logger[l] = "send" /\ accepted < MaxEvents /\ Len(queue) < QueueSize
    /\ logger' = [logger EXCEPT ![l] = "idle"]
    /\ queue' = Append(queue, accepted + 1)
    /\ accepted' = accepted + 1
    /\ UNCHANGED <<receivers, control, proc, batch, hand, written, posted, owed>>

(* The context of the caller is done, or the queue is full: the event is dropped with an error. *)
Drop(l) ==
    /\ logger[l] \in {"check", "send"}
    /\ logger' = [logger EXCEPT ![l] = "idle"]
    /\ UNCHANGED <<receivers, control, queue, proc, batch, hand, accepted, written, posted, owed>>

-----------------------------------------------------------------------------
(* The processor: with http configured it is processWithBatching, otherwise
   processWithoutBatching. *)

(* Mutant: the last batch is dropped. *)
StopUnflushed(p) ==
    /\ proc[p] = "select" /\ doneClosed
    /\ proc' = [proc EXCEPT ![p] = "none"]
    /\ batch' = [batch EXCEPT ![p] = <<>>]
    /\ wg' = wg - 1
    /\ UNCHANGED <<receivers, enabled, mutex, doneClosed, queue, logger, hand, accepted, written,
                   posted, owed>>

(* Mutant: the goroutine returns without wg.Done. *)
StopUncounted(p) ==
    /\ proc[p] = "select" /\ doneClosed
    /\ IF batch[p] # <<>>
       THEN proc' = [proc EXCEPT ![p] = "last"] /\ UNCHANGED wg
       ELSE proc' = [proc EXCEPT ![p] = "none"] /\ UNCHANGED wg
    /\ UNCHANGED <<receivers, enabled, mutex, doneClosed, queue, logger, batch, hand, accepted,
                   written, posted, owed>>

(* a.done is closed: the batch is sent a last time; what is still in the queue stays there. *)
Stop(p) ==
    /\ proc[p] = "select" /\ doneClosed
    /\ IF batch[p] # <<>>
       THEN proc' = [proc EXCEPT ![p] = "last"] /\ UNCHANGED wg
       ELSE proc' = [proc EXCEPT ![p] = "none"] /\ wg' = wg - 1
    /\ UNCHANGED <<receivers, enabled, mutex, doneClosed, queue, logger, batch, hand, accepted,
                   written, posted, owed>>

Take(p) ==
    /\ proc[p] = "select" /\ queue # <<>>
    /\ proc' = [proc EXCEPT ![p] = "write"]
    /\ hand' = [hand EXCEPT ![p] = <<Head(queue)>>]
    /\ queue' = Tail(queue)
    /\ UNCHANGED <<receivers, control, logger, batch, accepted, written, posted, owed>>

(* logToFile, and the event joins the batch. *)
LogToFile(p) ==
    /\ proc[p] = "write"
    /\ written' = IF "file" \in receivers THEN written \o hand[p] ELSE written
    /\ hand' = [hand EXCEPT ![p] = <<>>]
    /\ IF "http" \in receivers
       THEN /\ batch' = [batch EXCEPT ![p] = @ \o hand[p]]
            /\ proc' = [proc EXCEPT ![p] =
                           IF Len(batch[p]) + 1 >= MaxBatchSize THEN "flush" ELSE "select"]
       ELSE /\ proc' = [proc EXCEPT ![p] = "select"]
            /\ UNCHANGED batch
    /\ UNCHANGED <<receivers, control, queue, logger, accepted, posted, owed>>

(* Mutant: the timer is not reset after a tick. *)
TimerOnce(p) == FALSE /\ UNCHANGED vars

Timer(p) ==
    /\ proc[p] = "select" /\ batch[p] # <<>>
    /\ proc' = [proc EXCEPT ![p] = "flush"]
    /\ UNCHANGED <<receivers, control, queue, logger, batch, hand, accepted, written, posted, owed>>

(* flushBatchHTTP, which returns within its ten seconds whatever the service does. *)
FlushBatchHTTP(p) ==
    /\ proc[p] \in {"flush", "last"}
    /\ posted' = posted \o batch[p]
    /\ batch' = [batch EXCEPT ![p] = <<>>]
    /\ IF proc[p] = "flush"
       THEN proc' = [proc EXCEPT ![p] = "select"] /\ UNCHANGED wg
       ELSE proc' = [proc EXCEPT ![p] = "none"] /\ wg' = wg - 1
    /\ UNCHANGED <<receivers, enabled, mutex, doneClosed, queue, logger, hand, accepted, written,
                   owed>>

-----------------------------------------------------------------------------
(* Enable, Disable and Close.  The write lock is held to the end of the call. *)

Enable ==
    /\ mutex = NoOne /\ ~enabled
    /\ enabled' = TRUE
    /\ IF receivers # {}
       THEN /\ \E p \in Processors \ Live : proc' = [proc EXCEPT ![p] = "select"]
            /\ wg' = wg + 1
       ELSE UNCHANGED <<proc, wg>>
    /\ UNCHANGED <<receivers, mutex, doneClosed, queue, logger, batch, hand, accepted, written,
                   posted, owed>>

(* Close is Disable and the closing of the file logger, which is not part of the adapter. *)
Disable(c) ==
    /\ mutex = NoOne /\ enabled
    /\ enabled' = FALSE
    /\ doneClosed' = TRUE
    /\ mutex' = c
    /\ owed' = accepted
    /\ UNCHANGED <<receivers, wg, queue, logger, proc, batch, hand, accepted, written, posted>>

(* Mutant: Disable does not wait for the processor. *)
DisableUnwaited(c) ==
    /\ mutex = c
    /\ doneClosed' = FALSE
    /\ mutex' = NoOne
    /\ UNCHANGED <<receivers, enabled, wg, queue, logger, proc, batch, hand, accepted, written,
                   posted, owed>>

(* a.wg.Wait() returns, and a.done is made anew. *)
DisableWaited(c) ==
    /\ mutex = c /\ wg = 0
    /\ doneClosed' = FALSE
    /\ mutex' = NoOne
    /\ UNCHANGED <<receivers, enabled, wg, queue, logger, proc, batch, hand, accepted, written,
                   posted, owed>>

-----------------------------------------------------------------------------
Next ==
    \/ \E l \in Loggers : LogEvent(l) \/ CheckEnabled(l) \/ Send(l) \/ Drop(l)
    \/ \E p \in Processors :
          Stop(p) \/ Take(p) \/ LogToFile(p) \/ Timer(p) \/ FlushBatchHTTP(p)
    \/ Enable
    \/ \E c \in Controllers : Disable(c) \/ DisableWaited(c)

(* A select picks at random among its ready cases, so each is taken in the end if it is ready
   again and again; a write, a post and the wake-up from wg.Wait come in time; a reader that waits
   for the lock gets it when a writer releases it; and a send is one non-blocking select. *)
Fairness ==
    /\ \A p \in Processors :
          /\ SF_vars(Stop(p)) /\ SF_vars(Take(p)) /\ SF_vars(Timer(p))
          /\ WF_vars(LogToFile(p)) /\ WF_vars(FlushBatchHTTP(p))
    /\ \A c \in Controllers : WF_vars(DisableWaited(c))
    /\ \A l \in Loggers : SF_vars(CheckEnabled(l)) /\ WF_vars(Send(l) \/ Drop(l))

Spec == Init /\ [][Next]_vars /\ Fairness

-----------------------------------------------------------------------------
(* Properties *)

Place == {"none", "select", "write", "flush", "last"}
TypeOK ==
    /\ receivers \subseteq {"file", "http"}
    /\ enabled \in BOOLEAN /\ doneClosed \in BOOLEAN
    /\ mutex \in Controllers \cup {NoOne}
    /\ wg \in Nat
    /\ queue \in Seq(Nat) /\ Len(queue) <= QueueSize
    /\ logger \in [Loggers -> {"idle", "check", "send"}]
    /\ proc \in [Processors -> Place]
    /\ batch \in [Processors -> Seq(Nat)] /\ hand \in [Processors -> Seq(Nat)]
    /\ \A p \in Processors : Len(batch[p]) <= MaxBatchSize
    /\ accepted \in Nat /\ owed \in Nat
    /\ written \in Seq(Nat) /\ posted \in Seq(Nat)

(* However calls of Enable and Disable interleave, there is never a second processor goroutine;
   outside the calls one runs exactly when the adapter is enabled and has a receiver, and the next
   Disable finds a channel it can close. *)
OneProcessor ==
    /\ Cardinality(Live) <= 1
    /\ mutex = NoOne =>
          /\ Live # {} <=> enabled /\ receivers # {}
          /\ ~doneClosed

(* Every accepted event goes to each configured receiver at most once and in the order of
   acceptance; what has not been tried is in the queue, in the processor's hand or in its batch,
   so that none the processor took is forgotten when it is stopped. *)
Held(f) == IF Live = {} THEN <<>> ELSE f[CHOOSE p \in Live : TRUE]
InOrder(s) == s = [n \in 1..accepted |-> n]
EachTriedOnce ==
    /\ "file" \in receivers => InOrder(written \o Held(hand) \o queue)
    /\ "http" \in receivers => InOrder(posted \o Held(batch) \o Held(hand) \o queue)

(* Every accepted event is in the end tried on every receiver, or the adapter is disabled: the
   timer empties a batch that never fills. *)
Tried(n) ==
    /\ "file" \in receivers => Len(written) >= n
    /\ "http" \in receivers => Len(posted) >= n
EventuallyTried ==
    \A n \in 1..MaxEvents : accepted >= n /\ receivers # {} ~> Tried(n) \/ ~enabled

(* No call hangs: Disable gets its processor to stop, and a LogEvent that meets a Disable goes on
   after it. *)
CallsReturn ==
    /\ \A c \in Controllers : mutex = c ~> mutex # c
    /\ \A l \in Loggers : logger[l] # "idle" ~> logger[l] = "idle"

(* What the comment of Disable says, `waits for pending events to be processed': once it has
   returned, the events accepted before it have been tried. *)
DisableDrains == mutex = NoOne /\ ~enabled /\ receivers # {} => Tried(owed)

=============================================================================

--------------------------- MODULE AuditReceivers ----------------------------
(***************************************************************************)
(* What is behind the audit adapters: the registry of file loggers         *)
(* (internal/infra/audit/logger.go), the factory that hands adapters out   *)
(* and closes them (internal/audit/factory.go), and the delivery of a      *)
(* batch to the remote service with its attempts, waits and deadline       *)
(* (internal/infra/audit/remote.go, pkg/transport/httpclient/client.go).   *)
(*                                                                         *)
(* AuditAdapter looks into one adapter's locks and queue; here an adapter  *)
(* is its queue, its batch and the place of its processor.  An event is    *)
(* all that delivery asks of it: it has a user and can be posted, or is    *)
(* anonymous, or the service refuses its URL.                              *)
(***************************************************************************)
EXTENDS Naturals, Sequences, FiniteSets

CONSTANTS
    Paths,
    Adapters,       \* adapters alive at one time
    Loggers,        \* Logger objects alive at one time
    None,
    QueueSize, MaxBatchSize,
    Worlds          \* bound: what the program configures and what the service may do

Kinds == {"user", "anonymous", "unfit"}

(* An adapter's configuration, and the key of the factory: its file and whether it has an endpoint.
   What is logged is of some kinds.  A service answers with some status codes, asks with some
   Retry-After headers (seconds, or None) and takes some times, in fifths of a second, for a post. *)
Key == [path : Paths \cup {None}, http : BOOLEAN]

ASSUME ReceiversAssumption ==
    /\ \A w \in Worlds : /\ DOMAIN w = {"keys", "kinds", "statuses", "headers", "times"}
                         /\ w.keys \subseteq Key /\ w.kinds \subseteq Kinds
                         /\ w.statuses \subseteq 100..599
                         /\ w.headers \subseteq Nat \cup {None} /\ w.times \subseteq Nat
    /\ None \notin Paths \cup Key \cup Adapters \cup Loggers \cup Nat
    /\ QueueSize \in Nat \ {0} /\ MaxBatchSize \in Nat \ {0}

VARIABLES
    world,      \* which of Worlds this is
    instances,  \* the registry: path -> logger
    path,       \* logger -> its filePath
    file,       \* logger -> what has become of its file
    adapters,   \* the factory: key -> adapter
    closing,    \* adapters the running CloseAdapter or CloseAll has still to close
    key,        \* adapter -> its configuration
    fileLogger, \* adapter -> its logger
    queue,      \* adapter -> events accepted
    batch,      \* adapter -> events for the service
    at,         \* adapter -> the place of its processor
    call,       \* adapter -> its running BatchCreateAuditEvents
    closedOn,   \* paths of which a logger has been closed, or could not be reopened
    raced       \* CloseInstance has met a logger in the middle of Reopen

files == <<instances, path, file, closedOn, raced>>
delivery == <<queue, batch, at, call>>
vars == <<world, files, adapters, closing, key, fileLogger, delivery>>

(* Time in fifths of a second, so that a jitter of 20% of a second is one of them. *)
Second == 5
Deadline == 10 * Second         \* of flushBatchHTTP
Timeout == 5 * Second           \* httpCfg.Timeout of NewAdapter
MaxRetries == 3                 \* DefaultRetryOptions
RetryDelay == Second
MaxDelay == 30 * Second         \* the upper limit in ShouldRetry

(* A call of BatchCreateAuditEvents: its attempt, the time since it began, the wait its last answer
   asked for and the one chosen, whether that answer could not be read to its end, and whether the
   processor is to stop after it. *)
NoCall == [attempt |-> 0, elapsed |-> 0, asked |-> 0, delay |-> 0, unread |-> FALSE, last |-> FALSE]

Smaller(m, n) == IF m <= n THEN m ELSE n

Init ==
    /\ world \in Worlds
    /\ instances = [p \in Paths |-> None]
    /\ path = [l \in Loggers |-> None] /\ file = [l \in Loggers |-> "none"]
    /\ closedOn = {} /\ raced = FALSE
    /\ adapters = [k \in Key |-> None] /\ closing = {}
    /\ key = [a \in Adapters |-> None] /\ fileLogger = [a \in Adapters |-> None]
    /\ queue = [a \in Adapters |-> <<>>] /\ batch = [a \in Adapters |-> <<>>]
    /\ at = [a \in Adapters |-> "none"] /\ call = [a \in Adapters |-> NoCall]

-----------------------------------------------------------------------------
(* The registry of file loggers.  Its calls hold the package's lock; Log, Close and Reopen hold the
   logger's own, which CloseInstance does not take. *)

Registered(p) == instances[p] # None
Unused(l) ==
    /\ file[l] \in {"none", "closed"}
    /\ \A p \in Paths : instances[p] # l
    /\ \A a \in Adapters : fileLogger[a] # l

(* Mutant: the registry is not looked up. *)
GetInstanceAnew(p, l) ==
    /\ Unused(l)
    /\ instances' = [instances EXCEPT ![p] = l]
    /\ path' = [path EXCEPT ![l] = p]
    /\ file' = [file EXCEPT ![l] = "open"]
    /\ UNCHANGED <<closedOn, raced>>

(* GetInstance(p) returns l: the registered logger, closed or not, or a new one. *)
GetInstance(p, l) ==
    IF Registered(p)
    THEN l = instances[p] /\ UNCHANGED files
    ELSE /\ Unused(l)
         /\ instances' = [instances EXCEPT ![p] = l]
         /\ path' = [path EXCEPT ![l] = p]
         /\ file' = [file EXCEPT ![l] = "open"]
         /\ UNCHANGED <<closedOn, raced>>

(* os.File.Close: a second call is an error and changes nothing.  The file being reopened is
   already closed. *)
FileClosed(S) == [l \in Loggers |-> IF l \in S /\ file[l] = "open" THEN "closed" ELSE file[l]]

CloseInstance(p) ==
    /\ Registered(p)
    /\ instances' = [instances EXCEPT ![p] = None]
    /\ file' = FileClosed({instances[p]})
    /\ closedOn' = closedOn \cup {p}
    /\ raced' = (raced \/ file[instances[p]] = "reopening")
    /\ UNCHANGED <<world, path, adapters, closing, key, fileLogger, delivery>>

(* The range over the map comes in any order and ends at the first file that is closed already. *)
ResetInstances ==
    LET P == {p \in Paths : Registered(p)}
        Open == {p \in P : file[instances[p]] = "open"}
    IN \E S \in SUBSET Open :
          /\ S # {} /\ (P = Open => S = P)
          /\ instances' = [p \in Paths |-> IF p \in S THEN None ELSE instances[p]]
          /\ file' = FileClosed({instances[p] : p \in S})
          /\ closedOn' = closedOn \cup S
          /\ UNCHANGED <<world, path, raced, adapters, closing, key, fileLogger, delivery>>

(* Reopen closes the file and opens it anew; on a closed file it returns the error of Close. *)
ReopenCloses(l) ==
    /\ file[l] = "open"
    /\ file' = [file EXCEPT ![l] = "reopening"]
    /\ UNCHANGED <<world, instances, path, closedOn, raced, adapters, closing, key,
                   fileLogger, delivery>>

(* Mutant: Reopen leaves the encoder on the file it has closed. *)
ReopenKeepsEncoder(l) ==
    /\ file[l] = "reopening"
    /\ file' = [file EXCEPT ![l] = "closed"]
    /\ UNCHANGED <<world, instances, path, closedOn, raced, adapters, closing, key,
                   fileLogger, delivery>>

ReopenOpens(l) ==
    /\ file[l] = "reopening"
    /\ file' = [file EXCEPT ![l] = "open"]
    /\ UNCHANGED <<world, instances, path, closedOn, raced, adapters, closing, key,
                   fileLogger, delivery>>

ReopenFails(l) ==
    /\ file[l] = "reopening"
    /\ file' = [file EXCEPT ![l] = "closed"]
    /\ closedOn' = closedOn \cup {path[l]}
    /\ UNCHANGED <<world, instances, path, raced, adapters, closing, key, fileLogger, delivery>>

-----------------------------------------------------------------------------
(* The factory.  Each call holds its mutex to the end: CloseAdapter and CloseAll while they wait for
   the last batches of the adapters. *)

FactoryFree == closing = {}

(* GetAdapter, GetOrCreateAdapter and the NewAdapter in them; an adapter that exists is returned. *)
GetOrCreateAdapter(k, a, l) ==
    /\ FactoryFree /\ adapters[k] = None /\ key[a] = None
    /\ IF k.path = None THEN l = None /\ UNCHANGED files ELSE l # None /\ GetInstance(k.path, l)
    /\ adapters' = [adapters EXCEPT ![k] = a]
    /\ key' = [key EXCEPT ![a] = k]
    /\ fileLogger' = [fileLogger EXCEPT ![a] = l]
    /\ at' = [at EXCEPT ![a] = "select"]
    /\ UNCHANGED <<world, closing, queue, batch, call>>

(* The endpoint is no URL: NewAdapter fails after it has got its logger, which stays open. *)
NewAdapterFails(k, l) ==
    /\ FactoryFree /\ adapters[k] = None
    /\ k.http /\ k.path # None /\ ~Registered(k.path) /\ GetInstance(k.path, l)
    /\ UNCHANGED <<world, adapters, closing, key, fileLogger, delivery>>

(* Mutant: the adapter stays in the map. *)
CloseAdapterKeeps(k) ==
    /\ FactoryFree /\ adapters[k] # None
    /\ closing' = {adapters[k]}
    /\ UNCHANGED <<world, files, adapters, key, fileLogger, delivery>>

CloseAdapter(k) ==
    /\ FactoryFree /\ adapters[k] # None
    /\ closing' = {adapters[k]}
    /\ adapters' = [adapters EXCEPT ![k] = None]
    /\ UNCHANGED <<world, files, key, fileLogger, delivery>>

CloseAll ==
    /\ FactoryFree
    /\ closing' = {adapters[k] : k \in Key} \ {None}
    /\ adapters' = [k \in Key |-> None]
    /\ UNCHANGED <<world, files, key, fileLogger, delivery>>

(* Disable: the processor, when it comes to its select, flushes what it has and returns.  Adapters
   of a CloseAll are closed one after the other; at most one is waited for. *)
Waited == {a \in closing : at[a] = "stopped" \/ call[a].last}

(* Mutant: Disable waits without closing a.done. *)
StartLastUnsignalled(a) == FALSE /\ UNCHANGED vars

StartLast(a) ==
    /\ a \in closing /\ Waited = {} /\ at[a] = "select"
    /\ IF batch[a] = <<>> \/ ~key[a].http
       THEN at' = [at EXCEPT ![a] = "stopped"] /\ UNCHANGED call
       ELSE at' = [at EXCEPT ![a] = "flush"] /\ call' = [call EXCEPT ![a].last = TRUE]
    /\ UNCHANGED <<world, files, adapters, closing, key, fileLogger, queue, batch>>

(* Adapter.Close closes the file under it, whoever else uses the logger, and leaves it registered. *)
CloseFile(a) ==
    /\ at[a] = "stopped"
    /\ LET l == fileLogger[a]
       IN IF l = None THEN UNCHANGED <<file, closedOn>>
          ELSE /\ file[l] # "reopening"
               /\ file' = FileClosed({l})
               /\ closedOn' = closedOn \cup {path[l]}
    /\ closing' = closing \ {a}
    /\ key' = [key EXCEPT ![a] = None] /\ fileLogger' = [fileLogger EXCEPT ![a] = None]
    /\ queue' = [queue EXCEPT ![a] = <<>>]
    /\ at' = [at EXCEPT ![a] = "none"]
    /\ UNCHANGED <<world, instances, path, raced, adapters, batch, call>>

-----------------------------------------------------------------------------
(* An adapter at work: LogEvent and the processor's select. *)

LogEvent(a, kind) ==
    /\ at[a] # "none" /\ a \notin Waited /\ Len(queue[a]) < QueueSize
    /\ queue' = [queue EXCEPT ![a] = Append(@, kind)]
    /\ UNCHANGED <<world, files, adapters, closing, key, fileLogger, batch, at, call>>

(* Mutant: the batch is sent when it has outgrown its limit. *)
TakeLate(a) ==
    /\ at[a] = "select" /\ queue[a] # <<>>
    /\ fileLogger[a] # None => file[fileLogger[a]] # "reopening"
    /\ queue' = [queue EXCEPT ![a] = Tail(@)]
    /\ IF key[a].http
       THEN /\ batch' = [batch EXCEPT ![a] = Append(@, Head(queue[a]))]
            /\ at' = [at EXCEPT ![a] = IF Len(batch[a]) + 1 > MaxBatchSize THEN "flush" ELSE @]
       ELSE UNCHANGED <<batch, at>>
    /\ UNCHANGED <<world, files, adapters, closing, key, fileLogger, call>>

(* The event goes to the file, when nobody is reopening it, and to the batch.  A closed file is an
   error, logged and forgotten. *)
Take(a) ==
    /\ at[a] = "select" /\ queue[a] # <<>>
    /\ fileLogger[a] # None => file[fileLogger[a]] # "reopening"
    /\ queue' = [queue EXCEPT ![a] = Tail(@)]
    /\ IF key[a].http
       THEN /\ batch' = [batch EXCEPT ![a] = Append(@, Head(queue[a]))]
            /\ at' = [at EXCEPT ![a] = IF Len(batch[a]) + 1 >= MaxBatchSize THEN "flush" ELSE @]
       ELSE UNCHANGED <<batch, at>>
    /\ UNCHANGED <<world, files, adapters, closing, key, fileLogger, call>>

Timer(a) ==
    /\ at[a] = "select" /\ batch[a] # <<>>
    /\ at' = [at EXCEPT ![a] = "flush"]
    /\ UNCHANGED <<world, files, adapters, closing, key, fileLogger, queue, batch, call>>

-----------------------------------------------------------------------------
(* flushBatchHTTP and BatchCreateAuditEvents: what the service does with one post. *)

(* The error type SendRequest makes of an answer. *)
ErrorType(status) ==
    CASE status \in {200, 201, 202} -> "none"
      [] status = 429               -> "rate_limit"
      [] status \in (400..499) \ {429} -> "client"
      [] status >= 500              -> "server"
      [] OTHER                      -> "unknown"

(* Replies: an answer, cut off or too large ones among them; a connection that breaks or the
   client's timeout (no status).  The body is read before the status is looked at, so an answer of
   any status may be cut off or too large. *)
Reply ==
    {r \in [type : {"none", "client", "server", "rate_limit", "unknown", "network",
                    "response_too_large"},
            status : world.statuses \cup {0}] :
        /\ r.type \in {ErrorType(r.status), "network", "response_too_large"}
        /\ r.status = 0 => r.type = "network"}
Unread(reply) == reply.type # ErrorType(reply.status)

RetryOn == {429, 500, 502, 503, 504}

(* Mutant: one attempt too many. *)
ShouldRetryMore(reply, attempt) == attempt <= MaxRetries /\ reply.status \in RetryOn

ShouldRetry(reply, attempt) ==
    /\ attempt < MaxRetries
    /\ reply.type # "timeout"
    /\ reply.type = "client" => reply.status = 429
    /\ reply.status \in RetryOn

(* What an answer with this Retry-After asked for, whatever the client makes of it. *)
Asked(header) == IF header = None THEN 0 ELSE header * Second

(* parseRetryAfter takes up to 24 hours; dates are taken as the seconds they are away. *)
LongestAsked == 86400
Usable(header) == header # None /\ header <= LongestAsked

(* Mutant: the header is read and not used. *)
DelayIgnoring(reply, header, attempt, jitter) ==
    Smaller((RetryDelay * 2^attempt * jitter) \div 5, MaxDelay)

(* The wait before the next attempt; the jitter is one of its ends, 4 or 6 fifths.  The 10 ms it
   cannot go below are nothing here.  An answer that was not read whole has lost its header. *)
Delay(reply, header, attempt, jitter) ==
    LET base == IF reply.type = "rate_limit" /\ Usable(header) THEN header * Second ELSE RetryDelay
    IN Smaller((base * 2^attempt * jitter) \div 5, MaxDelay)

(* The end of flushBatchHTTP: the batch is emptied whatever became of it. *)
Done(a) ==
    /\ batch' = [batch EXCEPT ![a] = <<>>]
    /\ at' = [at EXCEPT ![a] = IF call[a].last THEN "stopped" ELSE "select"]
    /\ call' = [call EXCEPT ![a] = NoCall]

(* validateAuditRequest refuses an event without a user and one whose URL is longer than 2000
   characters or does not parse, and with it the batch.  Its other rules hold of every event: the
   program sets the time, one of two actions, and UUIDs as users. *)
Valid(b) == Len(b) <= MaxBatchSize /\ \A n \in 1..Len(b) : b[n] = "user"

BatchCreateAuditEvents(a) ==
    /\ at[a] = "flush"
    /\ at' = [at EXCEPT ![a] = IF Valid(batch[a]) THEN "post" ELSE "refused"]
    /\ UNCHANGED <<world, files, adapters, closing, key, fileLogger, queue, batch, call>>

Refused(a) ==
    /\ at[a] = "refused" /\ Done(a)
    /\ UNCHANGED <<world, files, adapters, closing, key, fileLogger, queue>>

(* SendRequest, and what executeWithRetry makes of its error. *)
SendRequest(a, reply, time) ==
    /\ at[a] = "post"
    /\ call[a].elapsed + time < Deadline
    /\ IF reply.type # "none" /\ ShouldRetry(reply, call[a].attempt)
       THEN /\ at' = [at EXCEPT ![a] = "wait"]
            /\ \E header \in IF reply.status = 429 THEN world.headers ELSE {None},
                  jitter \in {4, 6} :
                  call' = [call EXCEPT
                      ![a].attempt = @ + 1,
                      ![a].elapsed = @ + time,
                      ![a].asked = Asked(header),
                      ![a].delay = Delay(reply, header, call[a].attempt, jitter),
                      ![a].unread = Unread(reply)]
            /\ UNCHANGED batch
       ELSE Done(a)
    /\ UNCHANGED <<world, files, adapters, closing, key, fileLogger, queue>>

(* The ten seconds end during the post: a timeout, which is not repeated. *)
SendTimesOut(a) ==
    /\ at[a] = "post" /\ Deadline - call[a].elapsed <= Timeout
    /\ Done(a)
    /\ UNCHANGED <<world, files, adapters, closing, key, fileLogger, queue>>

(* The wait: its timer against ctx.Done. *)
NextAttempt(a) ==
    /\ at[a] = "wait" /\ call[a].elapsed + call[a].delay <= Deadline
    /\ at' = [at EXCEPT ![a] = "post"]
    /\ call' = [call EXCEPT ![a].elapsed = @ + call[a].delay,
                                        ![a].delay = 0, ![a].asked = 0]
    /\ UNCHANGED <<world, files, adapters, closing, key, fileLogger, queue, batch>>

WaitCancelled(a) ==
    /\ at[a] = "wait" /\ call[a].elapsed + call[a].delay >= Deadline
    /\ Done(a)
    /\ UNCHANGED <<world, files, adapters, closing, key, fileLogger, queue>>

-----------------------------------------------------------------------------
Work(a) ==
    \/ BatchCreateAuditEvents(a) \/ Refused(a) \/ SendTimesOut(a) \/ NextAttempt(a)
    \/ WaitCancelled(a)
    \/ \E reply \in Reply, time \in world.times : SendRequest(a, reply, time)

Next ==
    \/ \E p \in Paths : CloseInstance(p)
    \/ ResetInstances
    \/ \E l \in Loggers : ReopenCloses(l) \/ ReopenOpens(l) \/ ReopenFails(l)
    \/ \E k \in world.keys :
          \/ \E a \in Adapters, l \in Loggers \cup {None} : GetOrCreateAdapter(k, a, l)
          \/ \E l \in Loggers : NewAdapterFails(k, l)
          \/ CloseAdapter(k)
    \/ CloseAll
    \/ \E a \in Adapters :
          \/ StartLast(a) \/ CloseFile(a) \/ Take(a) \/ Timer(a) \/ Work(a)
          \/ \E kind \in world.kinds : LogEvent(a, kind)

(* A post, a wait and a Reopen end; a select takes each case that is ready again and again; and
   the closing of a file waits for nothing but a Reopen, which has the mutex for a moment. *)
Fairness ==
    /\ \A a \in Adapters :
          SF_vars(StartLast(a)) /\ WF_vars(Work(a))
          /\ SF_vars(CloseFile(a))
    /\ \A l \in Loggers : WF_vars(ReopenOpens(l) \/ ReopenFails(l))

Spec == Init /\ [][Next]_vars /\ Fairness

-----------------------------------------------------------------------------
(* Properties *)

Places == {"none", "select", "flush", "refused", "post", "wait", "stopped"}
TypeOK ==
    /\ instances \in [Paths -> Loggers \cup {None}]
    /\ path \in [Loggers -> Paths \cup {None}]
    /\ file \in [Loggers -> {"none", "open", "closed", "reopening"}]
    /\ closedOn \subseteq Paths /\ raced \in BOOLEAN
    /\ adapters \in [Key -> Adapters \cup {None}] /\ closing \subseteq Adapters
    /\ key \in [Adapters -> Key \cup {None}]
    /\ fileLogger \in [Adapters -> Loggers \cup {None}]
    /\ queue \in [Adapters -> Seq(Kinds)] /\ batch \in [Adapters -> Seq(Kinds)]
    /\ \A a \in Adapters : Len(queue[a]) <= QueueSize
    /\ at \in [Adapters -> Places]
    /\ \A a \in Adapters :
          /\ call[a].attempt <= MaxRetries /\ call[a].elapsed <= Deadline
          /\ call[a].delay <= MaxDelay

(* The comment of GetInstance, `only one logger instance writes to each file path': whatever
   adapters share a file and whoever closes it, no two loggers have it open, unless CloseInstance,
   which does not take the logger's lock, came between the two halves of a Reopen. *)
OneWriterPerFile ==
    raced \/ \A l, m \in Loggers :
                file[l] = "open" /\ file[m] = "open" /\ path[l] = path[m] => l = m

(* As long as nobody has closed a logger of its path, an adapter writes to an open file, through
   the logger everybody gets for the path: Reopen loses it to no one. *)
OpenFileUnlessClosed ==
    \A a \in Adapters :
        LET l == fileLogger[a]
        IN l # None /\ path[l] \notin closedOn =>
              instances[path[l]] = l /\ file[l] \in {"open", "reopening"}

(* The factory hands out no adapter that is closed or being closed, nor one of another
   configuration, and has forgotten none that runs. *)
FactoryAgrees ==
    /\ \A k \in Key : LET a == adapters[k]
                       IN a # None => key[a] = k /\ a \notin closing /\ at[a] # "stopped"
    /\ \A a \in Adapters : key[a] # None => adapters[key[a]] = a \/ a \in closing

(* The adapter's batches fit the service's limit, which the two take from one setting: no batch is
   refused before it is posted for its size, only for an event that the service would refuse alone,
   one without a user or with a URL that is too long or does not parse. *)
RefusedForAnEvent ==
    \A a \in Adapters : at[a] = "refused" =>
        /\ Len(batch[a]) <= MaxBatchSize
        /\ \E n \in 1..Len(batch[a]) : batch[a][n] # "user"

(* A post after a 429 comes no sooner than four fifths of what its Retry-After asked for: neither
   the exponent, nor the limit of 30 seconds, nor the deadline makes it earlier.  Two kinds of
   answer are left out, for which the client does not do what the comment in ShouldRetry says, `For
   rate limit, use the Retry-After header': one that could not be read to its end, and one that asked
   for more than 24 hours.  After these it posts again when the default wait is over. *)
WaitIsOver(a) == at[a] = "wait" /\ at'[a] = "post"
WaitedAsAsked(a) == 5 * (call'[a].elapsed - call[a].elapsed) >= 4 * call[a].asked
Honoured(a) == ~call[a].unread /\ call[a].asked <= LongestAsked * Second
RespectsRetryAfter ==
    [][\A a \in Adapters : WaitIsOver(a) /\ Honoured(a) => WaitedAsAsked(a)]_vars

(* CloseAdapter and CloseAll return, however the service answers and whoever reopens a file. *)
CloseEnds == closing # {} ~> closing = {}

=============================================================================

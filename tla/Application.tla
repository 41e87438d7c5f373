----------------------------- MODULE Application -----------------------------
(***************************************************************************)
(* The life of cmd/shortener: the configuration it settles on, the         *)
(* components NewApp builds and the closers it registers, the HTTP, pprof  *)
(* and gRPC servers and how their failures reach Run, and the shutdown     *)
(* with the work that is still in progress when it begins.                 *)
(*                                                                         *)
(* Shortener says what a request does; here it is what it holds up: the    *)
(* body it waits for, the ping and the call it needs a connection of the   *)
(* pool for, or the file store.  A setting is the source of its value.     *)
(***************************************************************************)
EXTENDS Naturals, Sequences, FiniteSets

CONSTANTS
    Requests,       \* HTTP requests at one time
    Calls,          \* gRPC calls at one time
    Deletes,        \* background deletes at one time
    Connections,    \* of the pool
    Given           \* bound: the command lines, files and environments it is started with

(* Of the settings, those that tell the sources apart: only some have a flag that is applied, a
   variable of the environment, or a default. *)
Settings == {"ServerAddr", "BaseURL", "FileStoragePath", "DatabaseDSN", "AuditURL", "SessionKey"}
HasFlag == {"ServerAddr", "BaseURL", "DatabaseDSN", "AuditURL"}
HasVariable == Settings \ {"SessionKey"}
HasDefault == {"ServerAddr", "BaseURL", "FileStoragePath"}

ASSUME ApplicationAssumption ==
    /\ Requests \cap Calls = {} /\ Requests \cap Deletes = {} /\ Calls \cap Deletes = {}
    /\ Connections \in Nat \ {0}
    /\ Given \subseteq [flags : SUBSET Settings, env : SUBSET Settings, keys : SUBSET Settings,
                        file : {"absent", "good", "malformed"}]

VARIABLES
    given,      \* what the process was started with
    cfg,        \* setting -> where its value comes from
    main,       \* the place of the main goroutine
    closers,    \* what registerCloser has been given
    server,     \* server -> its state
    error,      \* server channel -> has it got an error, and has it been forwarded
    errChan,    \* errors in the merged channel
    signalled,
    grace,      \* "left", or "over": the ten seconds of Shutdown
    pool,
    leaked,     \* connections a failed batch has kept (PgRepository)
    work        \* request, call or delete -> its place

config == <<given, cfg>>
failures == <<error, errChan>>
tasks == <<pool, leaked, work>>
vars == <<config, main, closers, server, failures, signalled, grace, tasks>>

Servers == {"http", "pprof", "grpc"}
Tasks == Requests \cup Calls \cup Deletes
Holding == {t \in Tasks : work[t] \in {"pinging", "calling"}}
Running(T) == {t \in T : work[t] # "none"}
Alive == main \notin {"exited", "ended"}

(* Mutant: the pool has no limit. *)
FreeConnectionAlways == pool = "open"

FreeConnection == pool = "open" /\ Cardinality(Holding) + leaked < Connections

Unset == [s \in Settings |-> "none"]
NotGiven == [flags |-> {}, env |-> {}, keys |-> {}, file |-> "absent"]

NothingBuilt ==
    /\ cfg = Unset /\ closers = <<>>
    /\ server = [s \in Servers |-> "off"]
    /\ error = [c \in {"http", "grpc"} |-> "none"] /\ errChan = 0
    /\ signalled = FALSE /\ grace = "left"
    /\ pool = "none" /\ leaked = 0 /\ work = [t \in Tasks |-> "none"]

Init == given \in Given /\ main = "flags" /\ NothingBuilt

-----------------------------------------------------------------------------
(* LoadConfig, in initapp and in infra/config. *)

(* The first flag.Parse knows no flag but -config: any other ends the process with its usage. *)
ParseFlags ==
    /\ main = "flags"
    /\ main' = IF given.flags = {} THEN "load" ELSE "exited"
    /\ UNCHANGED <<config, closers, server, failures, signalled, grace, tasks>>

(* The value a setting ends up with: each source overwrites the one before. *)
Resolved(s) ==
    IF s \in given.env \cap HasVariable THEN "env"
    ELSE IF s \in given.flags \cap HasFlag THEN "flag"
    ELSE IF given.file = "good" /\ s \in given.keys THEN "file"
    ELSE IF s \in HasDefault THEN "default"
    ELSE "none"

(* Mutant: the default configuration is complete. *)
NewFullDefaultConfig == [s \in Settings |-> IF s \in HasDefault THEN "default" ELSE "none"]

NewDefaultConfig == [Unset EXCEPT !["ServerAddr"] = "default"]

(* A file that cannot be parsed sets aside the environment too.  A bad address ends the process. *)
LoadConfig ==
    /\ main = "load"
    /\ cfg' = IF given.file = "malformed" THEN NewDefaultConfig
              ELSE [s \in Settings |-> Resolved(s)]
    /\ main' \in {"audit"} \cup (IF cfg'["ServerAddr"] = "default" THEN {} ELSE {"exited"})
    /\ UNCHANGED <<given, closers, server, failures, signalled, grace, tasks>>

-----------------------------------------------------------------------------
(* NewApp.  A step that fails ends the process; the closers are not called. *)

(* Mutant: what is registered first is called first. *)
RegisterCloserFirst(c) == <<c>> \o closers

RegisterCloser(c) == Append(closers, c)

InitAudit ==
    /\ main = "audit"
    /\ main' \in {"files"} \cup (IF cfg["AuditURL"] = "none" THEN {} ELSE {"exited"})
    /\ UNCHANGED <<config, closers, server, failures, signalled, grace, tasks>>

(* No file opens under the empty path. *)
InitFileStorage ==
    /\ main = "files"
    /\ \/ cfg["FileStoragePath"] # "none"
          /\ main' = "database" /\ closers' = RegisterCloser("files")
       \/ main' = "exited" /\ UNCHANGED closers
    /\ UNCHANGED <<config, server, failures, signalled, grace, tasks>>

(* Mutant: the pool's closer is not registered. *)
InitDatabaseUnclosed ==
    /\ main = "database"
    /\ main' = "servers" /\ pool' = "open" /\ UNCHANGED closers
    /\ UNCHANGED <<config, server, failures, signalled, grace, leaked, work>>

(* A DSN that cannot be parsed leaves no repository, and initComponents fails on the nil pointer;
   a database that does not answer, or whose migration fails, is none of its concerns. *)
InitDatabase ==
    /\ main = "database"
    /\ \/ main' = "servers" /\ pool' = "open" /\ closers' = RegisterCloser("pool")
       \/ cfg["DatabaseDSN"] # "none" /\ main' = "exited" /\ UNCHANGED <<pool, closers>>
    /\ UNCHANGED <<config, server, failures, signalled, grace, leaked, work>>

(* The trusted subnet, NewServerChi with Validate, and NewServer with its TLS files. *)
NewServers ==
    /\ main = "servers"
    /\ \/ main' = "start" /\ closers' = RegisterCloser("grpc")
       \/ main' = "exited" /\ UNCHANGED closers
    /\ UNCHANGED <<config, server, failures, signalled, grace, tasks>>

-----------------------------------------------------------------------------
(* Run.  The configuration is not read any more. *)

Start ==
    /\ main = "start"
    /\ main' = "run"
    /\ given' = NotGiven /\ cfg' = Unset
    /\ server' = [s \in Servers |-> "starting"]
    /\ UNCHANGED <<closers, failures, signalled, grace, tasks>>

Serve(s) ==
    /\ server[s] = "starting" /\ Alive
    /\ server' = [server EXCEPT ![s] = "serving"]
    /\ UNCHANGED <<config, main, closers, failures, signalled, grace, tasks>>

Channel(s) == IF s = "grpc" THEN "grpc" ELSE "http"

(* A server cannot listen, or the HTTP or pprof server stops serving: an error for its channel,
   dropped if there is one already. *)
ServerFails(s) ==
    /\ Alive
    /\ server[s] = "starting" \/ (server[s] = "serving" /\ s # "grpc")
    /\ server' = [server EXCEPT ![s] = "failed"]
    /\ error' = [error EXCEPT ![Channel(s)] = IF @ = "none" THEN "sent" ELSE @]
    /\ UNCHANGED <<config, main, closers, errChan, signalled, grace, tasks>>

(* The gRPC server stops serving: it is logged, and the process goes on without it. *)
GRPCServerDies ==
    /\ Alive /\ server["grpc"] = "serving"
    /\ server' = [server EXCEPT !["grpc"] = "dead"]
    /\ UNCHANGED <<config, main, closers, failures, signalled, grace, tasks>>

(* Mutant: only the first of the channels is merged. *)
ForwardFirst(c) ==
    /\ c = "http" /\ error[c] = "sent" /\ Alive
    /\ error' = [error EXCEPT ![c] = "forwarded"]
    /\ errChan' = errChan + 1
    /\ UNCHANGED <<config, main, closers, server, signalled, grace, tasks>>

(* A goroutine of mergeErrorChannels. *)
Forward(c) ==
    /\ error[c] = "sent" /\ Alive
    /\ error' = [error EXCEPT ![c] = "forwarded"]
    /\ errChan' = errChan + 1
    /\ UNCHANGED <<config, main, closers, server, signalled, grace, tasks>>

Signal ==
    /\ main = "run" /\ ~signalled
    /\ signalled' = TRUE
    /\ UNCHANGED <<config, main, closers, server, failures, grace, tasks>>

Closed(s) == [server EXCEPT ![s] = IF @ \in {"starting", "serving"} THEN "closed" ELSE @]

(* The select of Run, and shutdown up to the wait for the requests of the HTTP server. *)
Stop ==
    /\ main = "run"
    /\ \/ signalled /\ UNCHANGED errChan
       \/ errChan > 0 /\ errChan' = errChan - 1
    /\ main' = "stopping"
    /\ server' = Closed("http")
    /\ UNCHANGED <<config, closers, error, signalled, grace, tasks>>

GraceEnds ==
    /\ main = "stopping" /\ grace = "left"
    /\ grace' = "over"
    /\ UNCHANGED <<config, main, closers, server, failures, signalled, tasks>>

(* Server.Shutdown returns; that its time was over is no error.  The pprof server follows. *)
Shutdown ==
    /\ main = "stopping" /\ (Running(Requests) = {} \/ grace = "over")
    /\ main' = "closing"
    /\ server' = Closed("pprof")
    /\ UNCHANGED <<config, closers, failures, signalled, grace, tasks>>

(* The closers are called from the last to the first. *)
NextCloser(c) == main = "closing" /\ closers # <<>> /\ c = closers[Len(closers)]

Remaining == SubSeq(closers, 1, Len(closers) - 1)

CloseFiles ==
    /\ NextCloser("files")
    /\ closers' = Remaining
    /\ UNCHANGED <<config, main, server, failures, signalled, grace, tasks>>

(* GracefulStop refuses new calls and waits for those that run, however long they take. *)
GracefulStop ==
    /\ NextCloser("grpc") /\ server["grpc"] \in {"starting", "serving"}
    /\ server' = Closed("grpc")
    /\ UNCHANGED <<config, main, closers, failures, signalled, grace, tasks>>

GracefullyStopped ==
    /\ NextCloser("grpc") /\ server["grpc"] \notin {"starting", "serving"}
    /\ Running(Calls) = {}
    /\ closers' = Remaining
    /\ UNCHANGED <<config, main, server, failures, signalled, grace, tasks>>

(* pool.Close refuses new acquisitions and waits for every connection. *)
ClosePool ==
    /\ NextCloser("pool") /\ pool = "open"
    /\ pool' = "closing"
    /\ UNCHANGED <<config, main, closers, server, failures, signalled, grace, leaked, work>>

PoolClosed ==
    /\ NextCloser("pool") /\ pool = "closing" /\ Holding = {} /\ leaked = 0
    /\ pool' = "closed" /\ closers' = Remaining
    /\ UNCHANGED <<config, main, server, failures, signalled, grace, leaked, work>>

(* The second GracefulStop finds the server stopped, and main returns. *)
End ==
    /\ main = "closing" /\ closers = <<>>
    /\ main' = "ended"
    /\ UNCHANGED <<config, closers, server, failures, signalled, grace, tasks>>

-----------------------------------------------------------------------------
(* Work in progress. *)

Becomes(t, place) ==
    /\ work' = [work EXCEPT ![t] = place]
    /\ UNCHANGED <<config, main, closers, server, failures, signalled, grace, pool, leaked>>

RequestArrives(r) == server["http"] = "serving" /\ Alive /\ work[r] = "none" /\ Becomes(r, "body")

(* The body is read, within the ReadTimeout of 15 seconds, or the client breaks off. *)
BodyRead(r) == work[r] = "body" /\ Alive /\ \E place \in {"ping", "none"} : Becomes(r, place)

(* A call begins with its headers; then it waits for its message, without limit: the server has
   neither a timeout nor a keepalive. *)
CallArrives(c) == server["grpc"] = "serving" /\ Alive /\ work[c] = "none" /\ Becomes(c, "message")

(* The message of a unary call comes, and only then the interceptors look at it: a call they let
   pass goes on, a refused one and the one public method are over; so is a call broken off by its
   client, and a stream of the reflection service, which lasts as long as its client wants. *)
MessageRead(c) == work[c] = "message" /\ Alive /\ \E place \in {"ping", "none"} : Becomes(c, place)

Acquire(t) ==
    /\ Alive /\ FreeConnection
    /\ \/ work[t] = "ping" /\ Becomes(t, "pinging")
       \/ work[t] = "call" /\ Becomes(t, "calling")

(* No connection comes in the caller's time, or ever: the pool is closed.  A ping then stands for a
   database that is not there; a call is an error. *)
NoConnection(t) ==
    /\ Alive /\ work[t] \in {"ping", "call"}
    /\ Becomes(t, IF work[t] = "ping" THEN "file" ELSE "none")

Ping(t) == work[t] = "pinging" /\ Alive /\ \E place \in {"call", "file"} : Becomes(t, place)

(* A request to delete is answered, and its goroutine left behind. *)
DeleteAccepted(r, d) ==
    /\ r \in Requests /\ work[r] = "pinging" /\ Alive /\ work[d] = "none"
    /\ work' = [work EXCEPT ![r] = "none", ![d] = "call"]
    /\ UNCHANGED <<config, main, closers, server, failures, signalled, grace, pool, leaked>>

(* Mutant: a delete does not close its results, and keeps the connection. *)
CallReturnsHolding(t) ==
    t \notin Deletes /\ work[t] \in {"calling", "file"} /\ Alive /\ Becomes(t, "none")

CallReturns(t) == work[t] \in {"calling", "file"} /\ Alive /\ Becomes(t, "none")

(* A batch that fails halfway keeps its connection. *)
BatchFails(r) ==
    /\ r \in Requests /\ work[r] = "calling" /\ Alive
    /\ work' = [work EXCEPT ![r] = "none"]
    /\ leaked' = leaked + 1
    /\ UNCHANGED <<config, main, closers, server, failures, signalled, grace, pool>>

-----------------------------------------------------------------------------
BuildSteps ==
    \/ ParseFlags \/ LoadConfig \/ InitAudit \/ InitFileStorage \/ InitDatabase \/ NewServers
    \/ Start
StopSteps ==
    \/ Stop \/ GraceEnds \/ Shutdown \/ CloseFiles \/ GracefulStop \/ GracefullyStopped
    \/ ClosePool \/ PoolClosed \/ End

Next ==
    \/ BuildSteps \/ StopSteps \/ Signal \/ GRPCServerDies
    \/ \E s \in Servers : Serve(s) \/ ServerFails(s)
    \/ \E c \in {"http", "grpc"} : Forward(c)
    \/ \E r \in Requests :
          \/ RequestArrives(r) \/ BodyRead(r) \/ BatchFails(r)
          \/ \E d \in Deletes : DeleteAccepted(r, d)
    \/ \E c \in Calls : CallArrives(c) \/ MessageRead(c)
    \/ \E t \in Tasks : Acquire(t) \/ NoConnection(t) \/ Ping(t) \/ CallReturns(t)

(* The main goroutine, the servers' and the forwarding ones take their steps; bodies, pings and
   calls come to an end; and who waits for a connection gets one of those that come free, or, once
   the pool is closed, an error.  Nothing makes the client of a gRPC call send its message. *)
Fairness ==
    /\ WF_vars(BuildSteps) /\ WF_vars(StopSteps)
    /\ \A s \in Servers : WF_vars(server[s] = "starting" /\ (Serve(s) \/ ServerFails(s)))
    /\ \A c \in {"http", "grpc"} : WF_vars(Forward(c))
    /\ \A r \in Requests : WF_vars(BodyRead(r))
    /\ \A t \in Tasks :
          /\ SF_vars(Acquire(t)) /\ WF_vars(Ping(t)) /\ WF_vars(CallReturns(t))
          /\ WF_vars(pool # "open" /\ NoConnection(t))

Spec == Init /\ [][Next]_vars /\ Fairness

-----------------------------------------------------------------------------
(* Properties *)

Mains == {"flags", "load", "audit", "files", "database", "servers", "start", "run", "stopping",
          "closing", "ended", "exited"}
TypeOK ==
    /\ cfg \in [Settings -> {"none", "flag", "env", "file", "default"}]
    /\ main \in Mains
    /\ closers \in Seq({"files", "pool", "grpc"}) /\ Len(closers) <= 3
    /\ server \in [Servers -> {"off", "starting", "serving", "failed", "dead", "closed"}]
    /\ error \in [{"http", "grpc"} -> {"none", "sent", "forwarded"}]
    /\ errChan \in 0..2
    /\ signalled \in BOOLEAN /\ grace \in {"left", "over"}
    /\ pool \in {"none", "open", "closing", "closed"}
    /\ leaked \in Nat /\ Cardinality(Holding) + leaked <= Connections
    /\ work \in [Tasks -> {"none", "body", "message", "ping", "pinging", "call", "calling", "file"}]

(* A process that gets to serve was configured with what the comment of LoadConfig promises of the
   environment, the file and the defaults: the paths on which a file that cannot be parsed hides the
   environment, or on which a flag would lose to it, all end before.  One promise is not kept and
   left out here: the comment has a default for DatabaseDSN, and the code has none. *)
PromisedDefaults == {"ServerAddr", "BaseURL", "DatabaseDSN", "FileStoragePath"}
Promised(s) ==
    IF s \in given.env \cap HasVariable THEN "env"
    ELSE IF s \in given.keys /\ given.file # "absent" THEN "file"
    ELSE IF s \in PromisedDefaults THEN "default" ELSE "none"
WithoutDSN(s) == s = "DatabaseDSN" /\ Promised(s) = "default"
ServesAsConfigured ==
    main = "start" =>
        \A s \in Settings : cfg[s] = IF WithoutDSN(s) THEN "none" ELSE Promised(s)

(* The closers come in the order their users need: no gRPC call meets a closed pool, and an HTTP
   request, which then takes the database for absent and goes to the file store, only if it outlived
   the ten seconds of Shutdown. *)
PoolOutlivesCalls ==
    pool \in {"closing", "closed"} =>
        Running(Calls) = {} /\ (Running(Requests) # {} => grace = "over")

(* The end of an orderly shutdown cuts off no call to the database, no gRPC call, and no HTTP
   request in its ten seconds; of the background deletes only those that had no connection yet. *)
OnlyLateWorkIsCut ==
    main = "ended" =>
        /\ Holding = {} /\ Running(Calls) = {}
        /\ Running(Requests) # {} => grace = "over"
        /\ \A d \in Deletes : work[d] \in {"none", "call"}

(* GracefulStop has no time limit, gRPC calls have no deadline, and the reflection service has streams
   that last as long as their clients want: one client can hold up a shutdown for ever.  One who sends
   his message and closes his streams, or goes away, does not. *)
CallsGetTheirMessages == \A c \in Calls : []<>(work[c] # "message")

(* A shutdown that has begun ends, if every gRPC call gets its message in the end, unless a failed
   batch has kept a connection: pool.Close then waits for ever. *)
ShutdownEnds == CallsGetTheirMessages => (main = "stopping" ~> main = "ended" \/ leaked > 0)

(* A server that cannot listen, or an HTTP server that stops serving, takes the whole process down
   in an orderly way, if every gRPC call gets its message; it never goes on with some of its servers
   without anyone knowing.  (A gRPC server that stops serving later is only logged.) *)
FailureStopsService ==
    CallsGetTheirMessages =>
        ((\E s \in Servers : server[s] = "failed") ~> main = "ended" \/ leaked > 0)

=============================================================================

--------------------------- MODULE ProgramsProofs ---------------------------
(***************************************************************************)
(* What holds of the repository's two programs, and of the pool, for all   *)
(* values of their constants.                                              *)
(*                                                                         *)
(* Application: the settings a process serves with, and what its shutdown  *)
(* may cut off.  The inductive invariant says, for each place of the main  *)
(* goroutine, which closers are left, what they have closed, and who may   *)
(* still be at work.                                                       *)
(*                                                                         *)
(* ResetGenerator: what the generator writes for a field, and that the     *)
(* users of the pool do not meet.  The invariant ties the file to the      *)
(* field as long as neither has changed, and an object to one user.        *)
(***************************************************************************)
EXTENDS Application, ResetGenerator, FiniteSetTheorems, SequenceTheorems, TLAPS

(* The settings LoadConfig has arrived at, from the place it leaves main at. *)
Loaded == IF given.file = "malformed" THEN NewDefaultConfig ELSE [s \in Settings |-> Resolved(s)]
Configured == {"audit", "files", "database", "servers", "start"}
ConfigInv ==
    /\ given.file \in {"absent", "good", "malformed"}
    /\ main \in {"load"} \cup Configured => given.flags = {}
    /\ main \in Configured => cfg = Loaded
    /\ main \in {"database", "servers", "start"} => cfg["FileStoragePath"] # "none"

F == Append(<<>>, "files")
FP == Append(F, "pool")
FPG == Append(FP, "grpc")

(* Which closers are left, and what has become of the pool. *)
ClosersInv ==
    /\ main \in Mains
    /\ main \in {"flags", "load", "audit", "files"} => closers = <<>> /\ pool = "none"
    /\ main = "database" => closers = F /\ pool = "none"
    /\ main = "servers" => closers = FP /\ pool = "open"
    /\ main \in {"start", "run", "stopping"} => closers = FPG /\ pool = "open"
    /\ main = "closing" => \/ closers = FPG /\ pool = "open"
                           \/ closers = FP /\ pool \in {"open", "closing"}
                           \/ closers \in {F, <<>>} /\ pool = "closed"
    /\ main = "ended" => closers = <<>> /\ pool = "closed"
    /\ main = "exited" => closers \in {<<>>, F, FP} /\ pool \in {"none", "open"}

(* The servers that have been told to stop have, and with them whom they let in, as far as they are
   waited for. *)
Down(s) == server[s] \notin {"starting", "serving"}
ServersInv ==
    /\ server \in [Servers -> {"off", "starting", "serving", "failed", "dead", "closed"}]
    /\ main \in {"stopping", "closing", "ended"} => Down("http")
    /\ main \in {"closing", "ended"} => Running(Requests) = {} \/ grace = "over"
    /\ main \in {"closing", "ended"} /\ closers # FPG => Down("grpc") /\ Running(Calls) = {}

(* Connections are counted; a delete has one, wants one or is over; a closed pool has none out. *)
TasksInv ==
    /\ work \in [Tasks -> {"none", "body", "message", "ping", "pinging", "call", "calling", "file"}]
    /\ leaked \in Nat
    /\ IsFiniteSet(Holding) /\ Cardinality(Holding) + leaked <= Connections
    /\ \A d \in Deletes : work[d] \in {"none", "call", "calling"}
    /\ pool = "closed" => Holding = {}

Forwarded(c) == IF error[c] = "forwarded" THEN 1 ELSE 0
ErrorsInv ==
    /\ error \in [{"http", "grpc"} -> {"none", "sent", "forwarded"}]
    /\ errChan \in Nat /\ errChan <= Forwarded("http") + Forwarded("grpc")
    /\ signalled \in BOOLEAN /\ grace \in {"left", "over"}
    /\ cfg \in [Settings -> {"none", "flag", "env", "file", "default"}]

IInv == ConfigInv /\ ClosersInv /\ ServersInv /\ TasksInv /\ ErrorsInv

-----------------------------------------------------------------------------
(* Init *)

LEMMA InitIInv == Init => IInv
<1> SUFFICES ASSUME Init PROVE IInv
  OBVIOUS
<1> USE ApplicationAssumption DEF Init, NothingBuilt
<1>1. ConfigInv
  BY DEF ConfigInv, Configured
<1>2. ClosersInv
  BY DEF ClosersInv, Mains
<1>3. ServersInv
  BY DEF ServersInv, Servers, Down
<1>4. TasksInv
  <2>1. Holding = {}
    BY DEF Holding
  <2>2. QED
    BY <2>1, FS_EmptySet DEF TasksInv, Tasks
<1>5. ErrorsInv
  <2>1. cfg \in [Settings -> {"none", "flag", "env", "file", "default"}]
    BY DEF Unset
  <2>2. Forwarded("http") = 0 /\ Forwarded("grpc") = 0
    BY DEF Forwarded
  <2>3. error \in [{"http", "grpc"} -> {"none", "sent", "forwarded"}]
    OBVIOUS
  <2>4. errChan \in Nat /\ errChan <= Forwarded("http") + Forwarded("grpc")
    BY <2>2
  <2>5. signalled \in BOOLEAN /\ grace \in {"left", "over"}
    OBVIOUS
  <2>6. QED
    BY <2>1, <2>3, <2>4, <2>5 DEF ErrorsInv
<1>6. QED
  BY <1>1, <1>2, <1>3, <1>4, <1>5 DEF IInv

(* Every step is one of the actions, or changes nothing. *)
Quiet ==
    \/ Signal \/ GRPCServerDies \/ GraceEnds
    \/ \E s \in Servers : Serve(s) \/ ServerFails(s)
    \/ \E c \in {"http", "grpc"} : Forward(c)
Work ==
    \/ \E r \in Requests :
          \/ RequestArrives(r) \/ BodyRead(r) \/ BatchFails(r)
          \/ \E d \in Deletes : DeleteAccepted(r, d)
    \/ \E c \in Calls : CallArrives(c) \/ MessageRead(c)
    \/ \E t \in Tasks : Acquire(t) \/ NoConnection(t) \/ Ping(t) \/ CallReturns(t)
Closing == CloseFiles \/ GracefulStop \/ GracefullyStopped \/ ClosePool \/ PoolClosed \/ End

LEMMA Steps ==
    [Next]_vars => BuildSteps \/ Stop \/ Shutdown \/ Closing \/ Quiet \/ Work \/ UNCHANGED vars
BY Zenon DEF Next, StopSteps, Closing, Quiet, Work

(* Work changes nothing but the work and the connections a failed batch keeps. *)
LEMMA WorkIsWork ==
    ASSUME Work
    PROVE  Alive /\ UNCHANGED <<config, main, closers, server, failures, signalled, grace, pool>>
BY DEF Work, RequestArrives, BodyRead, BatchFails, DeleteAccepted, CallArrives, MessageRead,
       Acquire, NoConnection, Ping, CallReturns, Becomes

(* The quiet actions leave main, closers, configuration, pool and work alone. *)
LEMMA QuietIsQuiet ==
    ASSUME Quiet
    PROVE  Alive /\ UNCHANGED <<config, main, closers, tasks>>
BY DEF Quiet, Signal, GRPCServerDies, GraceEnds, Serve, ServerFails, Forward, Alive

-----------------------------------------------------------------------------
LEMMA ConfigKept == ASSUME ConfigInv, [Next]_vars PROVE ConfigInv'
<1> USE ApplicationAssumption DEF ConfigInv, Configured
<1>1. CASE UNCHANGED <<config, main>>
  BY <1>1 DEF config, Loaded, Resolved
<1>2. CASE ParseFlags
  BY <1>2 DEF ParseFlags, config
<1>3. CASE LoadConfig
  BY <1>3 DEF LoadConfig, Loaded, Resolved
<1>4. CASE InitAudit \/ InitDatabase \/ NewServers
  BY <1>4 DEF InitAudit, InitDatabase, NewServers, config, Loaded, Resolved
<1>5. CASE InitFileStorage
  BY <1>5 DEF InitFileStorage, config, Loaded, Resolved
<1>6. CASE Start
  BY <1>6 DEF Start, NotGiven
<1>7. CASE Stop \/ Shutdown \/ Closing
  BY <1>7 DEF Stop, Shutdown, Closing, CloseFiles, GracefulStop, GracefullyStopped, ClosePool,
              PoolClosed, End, config, Loaded, Resolved
<1>8. QED
  BY <1>1, <1>2, <1>3, <1>4, <1>5, <1>6, <1>7, Steps, WorkIsWork, QuietIsQuiet
     DEF BuildSteps, vars

(* What is left of a sequence whose last element is taken away. *)
LEMMA FrontOfAppend ==
    ASSUME NEW S, NEW s \in Seq(S), NEW e \in S
    PROVE  LET t == Append(s, e)
           IN  SubSeq(t, 1, Len(t) - 1) = s /\ t[Len(t)] = e
<1> DEFINE t == Append(s, e)
           f == SubSeq(t, 1, Len(t) - 1)
<1>1. t \in Seq(S) /\ Len(t) = Len(s) + 1 /\ t[Len(t)] = e /\ \A i \in 1..Len(s) : t[i] = s[i]
  BY AppendProperties
<1>2. Len(t) - 1 = Len(s) /\ Len(s) \in Nat
  BY <1>1, LenProperties
<1>3. f \in Seq(S) /\ Len(f) = Len(s) /\ \A i \in 1..Len(s) : f[i] = s[i]
  <2> HIDE DEF t
  <2> QED
    BY <1>1, <1>2
<1>4. f = s
  <2> HIDE DEF f
  <2> QED
    BY <1>3, SeqEqual
<1>5. QED
  BY <1>1, <1>4

Closers == {"files", "pool", "grpc"}

LEMMA CalledClosers ==
    /\ closers = FPG => Remaining = FP /\ closers[Len(closers)] = "grpc"
    /\ closers = FP => Remaining = F /\ closers[Len(closers)] = "pool"
    /\ closers = F => Remaining = <<>> /\ closers[Len(closers)] = "files"
<1>1. <<>> \in Seq(Closers) /\ F \in Seq(Closers) /\ FP \in Seq(Closers)
  BY DEF F, FP, Closers
<1>2. "files" \in Closers /\ "pool" \in Closers /\ "grpc" \in Closers
  BY DEF Closers
<1>3. SubSeq(FPG, 1, Len(FPG) - 1) = FP /\ FPG[Len(FPG)] = "grpc"
  BY <1>1, <1>2, FrontOfAppend DEF FPG
<1>4. SubSeq(FP, 1, Len(FP) - 1) = F /\ FP[Len(FP)] = "pool"
  BY <1>1, <1>2, FrontOfAppend DEF FP
<1>5. SubSeq(F, 1, Len(F) - 1) = <<>> /\ F[Len(F)] = "files"
  BY <1>1, <1>2, FrontOfAppend DEF F
<1>6. QED
  BY <1>3, <1>4, <1>5, Zenon DEF Remaining

(* The stages of the closers differ. *)
LEMMA ClosersDiffer ==
    F # <<>> /\ FP # <<>> /\ FPG # <<>> /\ F # FP /\ F # FPG /\ FP # FPG
<1>1. Len(F) = 1 /\ Len(FP) = 2 /\ Len(FPG) = 3
  BY DEF F, FP, FPG
<1>2. QED
  <2>1. \A s, t : Len(s) # Len(t) => s # t
    OBVIOUS
  <2>2. Len(<<>>) = 0
    OBVIOUS
  <2>3. /\ Len(<<>>) # Len(F) /\ Len(<<>>) # Len(FP) /\ Len(<<>>) # Len(FPG)
        /\ Len(F) # Len(FP) /\ Len(F) # Len(FPG) /\ Len(FP) # Len(FPG)
    BY <1>1, <2>2
  <2>4. QED
    BY <2>1, <2>3, Zenon

LEMMA ClosersKept == ASSUME ClosersInv, [Next]_vars PROVE ClosersInv'
<1> USE DEF ClosersInv, Mains
<1>1. CASE UNCHANGED <<main, closers, pool>>
  BY <1>1
<1>2. CASE ParseFlags \/ LoadConfig \/ InitAudit \/ Start
  BY <1>2 DEF ParseFlags, LoadConfig, InitAudit, Start, tasks
<1>3. CASE InitFileStorage \/ InitDatabase \/ NewServers
  BY <1>3, Zenon DEF InitFileStorage, InitDatabase, NewServers, RegisterCloser, tasks, F, FP, FPG
<1>4. CASE Stop \/ Shutdown
  BY <1>4 DEF Stop, Shutdown, tasks
<1>5. CASE CloseFiles \/ GracefullyStopped \/ PoolClosed
  <2>1. main = "closing" /\ main' = main
    BY <1>5 DEF CloseFiles, GracefullyStopped, PoolClosed, NextCloser
  <2>3. CASE CloseFiles
    BY <2>1, <2>3, CalledClosers, ClosersDiffer DEF CloseFiles, NextCloser, tasks
  <2>4. CASE GracefullyStopped
    BY <2>1, <2>4, CalledClosers, ClosersDiffer DEF GracefullyStopped, NextCloser, tasks
  <2>5. CASE PoolClosed
    BY <2>1, <2>5, CalledClosers, ClosersDiffer DEF PoolClosed, NextCloser
  <2>6. QED
    BY <1>5, <2>3, <2>4, <2>5
<1>6. CASE GracefulStop
  BY <1>6 DEF GracefulStop, tasks
<1>7. CASE ClosePool
  BY <1>7, CalledClosers, ClosersDiffer DEF ClosePool, NextCloser
<1>8. CASE End
  BY <1>8, ClosersDiffer DEF End, tasks
<1>9. QED
  BY <1>1, <1>2, <1>3, <1>4, <1>5, <1>6, <1>7, <1>8, Steps, WorkIsWork, QuietIsQuiet
     DEF BuildSteps, Closing, vars, tasks

(* Who is told to stop does not serve again, and no call begins where nobody serves. *)
LEMMA ServersKept == ASSUME ClosersInv, ServersInv, TasksInv, [Next]_vars PROVE ServersInv'
<1> USE DEF ServersInv, Servers, Down
<1>1. CASE UNCHANGED <<main, closers, server, grace, work>>
  BY <1>1 DEF Running
<1>2. CASE BuildSteps
  <2>1. /\ main' \notin {"stopping", "closing", "ended"}
        /\ server' \in [Servers -> {"off", "starting", "serving", "failed", "dead", "closed"}]
    BY <1>2 DEF BuildSteps, ParseFlags, LoadConfig, InitAudit, InitFileStorage, InitDatabase,
                NewServers, Start
  <2>2. QED
    BY <2>1
<1>3. CASE Stop
  BY <1>3 DEF Stop, Closed
<1>4. CASE Shutdown
  BY <1>4 DEF Shutdown, Closed, Running, tasks, ClosersInv
<1>5. CASE CloseFiles \/ PoolClosed
  <2>1. closers \in {FP, F} /\ closers' \in {F, <<>>}
    BY <1>5, CalledClosers, ClosersDiffer DEF CloseFiles, PoolClosed, NextCloser, ClosersInv
  <2>2. QED
    BY <1>5, <2>1, ClosersDiffer DEF CloseFiles, PoolClosed, Running, tasks
<1>6. CASE GracefulStop
  BY <1>6 DEF GracefulStop, Closed, Running, tasks
<1>7. CASE GracefullyStopped
  BY <1>7 DEF GracefullyStopped, Running, tasks
<1>8. CASE ClosePool \/ End
  BY <1>8, ClosersDiffer DEF ClosePool, End, Running, tasks, ClosersInv
<1>9. CASE Quiet
  <2>1. UNCHANGED <<main, closers, work>> /\ Alive
    BY <1>9, QuietIsQuiet DEF tasks
  <2>2. /\ server' \in [Servers -> {"off", "starting", "serving", "failed", "dead", "closed"}]
        /\ \A s \in Servers : Down(s) => Down(s)'
        /\ grace = "over" => grace' = "over"
    BY <1>9 DEF Quiet, Signal, GRPCServerDies, GraceEnds, Serve, ServerFails, Forward
  <2>3. QED
    BY <2>1, <2>2 DEF Running
<1>10. CASE Work
  <2>1. UNCHANGED <<main, closers, server, grace>>
    BY <1>10, WorkIsWork
  <2>2. ASSUME Down("http"), NEW r \in Requests, work[r] = "none"
        PROVE  work'[r] = "none"
    BY <1>10, <2>2, ApplicationAssumption
       DEF Work, RequestArrives, BodyRead, BatchFails, DeleteAccepted, CallArrives, MessageRead,
           Acquire, NoConnection, Ping, CallReturns, Becomes, TasksInv, Tasks
  <2>3. ASSUME Down("grpc"), NEW c \in Calls, work[c] = "none"
        PROVE  work'[c] = "none"
    BY <1>10, <2>3, ApplicationAssumption
       DEF Work, RequestArrives, BodyRead, BatchFails, DeleteAccepted, CallArrives, MessageRead,
           Acquire, NoConnection, Ping, CallReturns, Becomes, TasksInv, Tasks
  <2>4. QED
    BY <2>1, <2>2, <2>3 DEF Running
<1>11. QED
  BY <1>1, <1>2, <1>3, <1>4, <1>5, <1>6, <1>7, <1>8, <1>9, <1>10, Steps
     DEF Closing, vars, tasks

-----------------------------------------------------------------------------
(* Connections: whoever stops holding one gives it back, and only a free one is taken. *)
Places == {"none", "body", "message", "ping", "pinging", "call", "calling", "file"}

LEMMA OneTaskMoves ==
    ASSUME TasksInv, NEW t \in Tasks, NEW next \in Places, Becomes(t, next),
           t \in Deletes => next \in {"none", "call", "calling"},
           next \notin {"pinging", "calling"}
    PROVE  TasksInv'
<1>1. Holding' = Holding \ {t}
  BY DEF Holding, Becomes, TasksInv
<1>2. IsFiniteSet(Holding) /\ Cardinality(Holding) \in Nat
  BY FS_CardinalityType DEF TasksInv
<1>3. IsFiniteSet(Holding') /\ Cardinality(Holding') <= Cardinality(Holding)
      /\ Cardinality(Holding') \in Nat
  <2>1. Holding' \in SUBSET Holding
    BY <1>1
  <2>2. QED
    BY <1>2, <2>1, FS_Subset, FS_CardinalityType
<1>4. work' \in [Tasks -> Places] /\ \A d \in Deletes : work'[d] \in {"none", "call", "calling"}
  BY DEF Becomes, TasksInv, Places, Tasks
<1>5. leaked' = leaked /\ pool' = pool
  BY DEF Becomes
<1>6. Cardinality(Holding') + leaked' <= Connections
  <2>1. Connections \in Nat /\ leaked \in Nat /\ Cardinality(Holding) + leaked <= Connections
    BY ApplicationAssumption DEF TasksInv
  <2>2. QED
    BY <1>2, <1>3, <1>5, <2>1
<1>7. QED
  BY <1>1, <1>3, <1>4, <1>5, <1>6 DEF TasksInv, Places

LEMMA AcquireKeeps == ASSUME TasksInv, NEW t \in Tasks, Acquire(t) PROVE TasksInv'
<1>1. PICK next \in {"pinging", "calling"} : Becomes(t, next)
  BY DEF Acquire
<1>2. Holding' = Holding \cup {t} /\ t \notin Holding
  BY <1>1 DEF Holding, Acquire, Becomes, TasksInv
<1>3. IsFiniteSet(Holding) /\ Cardinality(Holding) \in Nat
  BY FS_CardinalityType DEF TasksInv
<1>4. IsFiniteSet(Holding') /\ Cardinality(Holding') = Cardinality(Holding) + 1
  BY <1>2, <1>3, FS_AddElement
<1>5. t \in Deletes => work[t] = "call"
  BY DEF Acquire, TasksInv
<1>6. work' \in [Tasks -> Places] /\ \A d \in Deletes : work'[d] \in {"none", "call", "calling"}
  <2>1. t \in Deletes => Becomes(t, "calling")
    BY <1>5 DEF Acquire
  <2>2. QED
    BY <1>1, <2>1 DEF Becomes, TasksInv, Places, Tasks
<1>7. leaked' = leaked /\ pool' = "open"
  BY <1>1 DEF Becomes, Acquire, FreeConnection
<1>8. Cardinality(Holding') + leaked' <= Connections
  <2>1. Connections \in Nat /\ leaked \in Nat /\ Cardinality(Holding) + leaked < Connections
    BY ApplicationAssumption DEF TasksInv, Acquire, FreeConnection
  <2>2. QED
    BY <1>3, <1>4, <1>7, <2>1
<1>9. QED
  BY <1>4, <1>6, <1>7, <1>8 DEF TasksInv, Places

LEMMA BatchFailsKeeps == ASSUME TasksInv, NEW r \in Requests, BatchFails(r) PROVE TasksInv'
<1>1. Holding' = Holding \ {r} /\ r \in Holding
  BY DEF Holding, BatchFails, TasksInv, Tasks
<1>2. IsFiniteSet(Holding) /\ Cardinality(Holding) \in Nat
  BY FS_CardinalityType DEF TasksInv
<1>3. IsFiniteSet(Holding') /\ Cardinality(Holding') = Cardinality(Holding) - 1
  BY <1>1, <1>2, FS_RemoveElement
<1>4. work' \in [Tasks -> Places] /\ \A d \in Deletes : work'[d] \in {"none", "call", "calling"}
  BY DEF BatchFails, TasksInv, Places, Tasks
<1>5. leaked' = leaked + 1 /\ pool' = pool /\ leaked \in Nat
  BY DEF BatchFails, TasksInv
<1>6. Cardinality(Holding') + leaked' <= Connections
  BY <1>2, <1>3, <1>5, ApplicationAssumption DEF TasksInv
<1>7. pool' = "closed" => Holding' = {}
  BY <1>1, <1>5 DEF TasksInv
<1>8. QED
  BY <1>3, <1>4, <1>5, <1>6, <1>7 DEF TasksInv, Places

LEMMA DeleteAcceptedKeeps ==
    ASSUME TasksInv, NEW r \in Requests, NEW d \in Deletes, DeleteAccepted(r, d)
    PROVE  TasksInv'
<1>1. Holding' = Holding \ {r}
  BY ApplicationAssumption DEF Holding, DeleteAccepted, TasksInv, Tasks
<1>2. IsFiniteSet(Holding) /\ Cardinality(Holding) \in Nat
  BY FS_CardinalityType DEF TasksInv
<1>3. IsFiniteSet(Holding') /\ Cardinality(Holding') <= Cardinality(Holding)
      /\ Cardinality(Holding') \in Nat
  <2>1. Holding' \in SUBSET Holding
    BY <1>1
  <2>2. QED
    BY <1>2, <2>1, FS_Subset, FS_CardinalityType
<1>4. work' \in [Tasks -> Places] /\ \A e \in Deletes : work'[e] \in {"none", "call", "calling"}
  BY DEF DeleteAccepted, TasksInv, Places, Tasks
<1>5. leaked' = leaked /\ pool' = pool
  BY DEF DeleteAccepted
<1>6. Cardinality(Holding') + leaked' <= Connections
  <2>1. Connections \in Nat /\ leaked \in Nat /\ Cardinality(Holding) + leaked <= Connections
    BY ApplicationAssumption DEF TasksInv
  <2>2. QED
    BY <1>2, <1>3, <1>5, <2>1
<1>7. QED
  BY <1>1, <1>3, <1>4, <1>5, <1>6 DEF TasksInv, Places

LEMMA WorkKeeps == ASSUME TasksInv, Work PROVE TasksInv'
<1> USE DEF Places
<1>1. ASSUME NEW r \in Requests, RequestArrives(r) \/ BodyRead(r)
      PROVE  TasksInv'
  <2>1. r \in Tasks /\ r \notin Deletes
    BY ApplicationAssumption DEF Tasks
  <2>2. \E next \in {"body", "ping", "none"} : Becomes(r, next)
    BY <1>1 DEF RequestArrives, BodyRead
  <2>3. QED
    BY <2>1, <2>2, OneTaskMoves
<1>2. ASSUME NEW c \in Calls, CallArrives(c) \/ MessageRead(c)
      PROVE  TasksInv'
  <2>1. c \in Tasks /\ c \notin Deletes
    BY ApplicationAssumption DEF Tasks
  <2>2. \E next \in {"message", "ping", "none"} : Becomes(c, next)
    BY <1>2 DEF CallArrives, MessageRead
  <2>3. QED
    BY <2>1, <2>2, OneTaskMoves
<1>3. ASSUME NEW t \in Tasks, NoConnection(t) \/ Ping(t) \/ CallReturns(t)
      PROVE  TasksInv'
  <2>1. \E next \in {"none", "file", "call"} :
            Becomes(t, next) /\ (t \in Deletes => next = "none")
    BY <1>3 DEF NoConnection, Ping, CallReturns, TasksInv
  <2>2. QED
    BY <2>1, OneTaskMoves
<1>4. QED
  BY <1>1, <1>2, <1>3, AcquireKeeps, BatchFailsKeeps, DeleteAcceptedKeeps DEF Work

LEMMA TasksKept == ASSUME TasksInv, [Next]_vars PROVE TasksInv'
<1>1. CASE UNCHANGED <<pool, leaked, work>>
  BY <1>1 DEF TasksInv, Holding
<1>2. CASE InitDatabase \/ ClosePool \/ PoolClosed
  <2>1. UNCHANGED <<leaked, work>> /\ (pool' = "closed" => pool = "closed" \/ Holding = {})
    BY <1>2 DEF InitDatabase, ClosePool, PoolClosed
  <2>2. Holding' = Holding
    BY <2>1 DEF Holding
  <2>3. QED
    BY <2>1, <2>2 DEF TasksInv
<1>3. CASE BuildSteps /\ ~InitDatabase
  BY <1>1, <1>3 DEF BuildSteps, ParseFlags, LoadConfig, InitAudit, InitFileStorage, NewServers,
                    Start, tasks
<1>4. CASE Stop \/ Shutdown \/ CloseFiles \/ GracefulStop \/ GracefullyStopped \/ End
  BY <1>1, <1>4 DEF Stop, Shutdown, CloseFiles, GracefulStop, GracefullyStopped, End, tasks
<1>5. QED
  BY <1>1, <1>2, <1>3, <1>4, Steps, WorkKeeps, QuietIsQuiet DEF Closing, vars, tasks

-----------------------------------------------------------------------------
(* Errors reach the merged channel one for each server channel. *)
LEMMA ErrorsKept == ASSUME ErrorsInv, [Next]_vars PROVE ErrorsInv'
<1> USE DEF Forwarded
<1>1. CASE UNCHANGED <<cfg, failures, signalled, grace>>
  BY <1>1 DEF ErrorsInv, failures
<1>2. CASE LoadConfig
  <2>1. cfg' \in [Settings -> {"none", "flag", "env", "file", "default"}]
    BY <1>2 DEF LoadConfig, NewDefaultConfig, Unset, Resolved
  <2>2. QED
    BY <1>2, <2>1 DEF LoadConfig, ErrorsInv, failures
<1>3. CASE BuildSteps /\ ~LoadConfig
  <2>1. cfg' = cfg \/ cfg' = Unset
    BY <1>3 DEF BuildSteps, ParseFlags, InitAudit, InitFileStorage, InitDatabase, NewServers,
                Start, config
  <2>2. cfg' \in [Settings -> {"none", "flag", "env", "file", "default"}]
    BY <2>1 DEF ErrorsInv, Unset
  <2>3. UNCHANGED <<failures, signalled, grace>>
    BY <1>3 DEF BuildSteps, ParseFlags, InitAudit, InitFileStorage, InitDatabase, NewServers, Start
  <2>4. QED
    BY <2>2, <2>3 DEF ErrorsInv, failures
<1>4. CASE Stop
  <2>1. errChan' \in Nat /\ errChan' <= errChan
    BY <1>4 DEF Stop, ErrorsInv
  <2>2. UNCHANGED <<cfg, error, signalled, grace>>
    BY <1>4 DEF Stop, config
  <2>3. Forwarded("http") \in Nat /\ Forwarded("grpc") \in Nat
    OBVIOUS
  <2>4. QED
    BY <2>1, <2>2, <2>3 DEF ErrorsInv
<1>5. CASE Shutdown \/ Closing
  BY <1>1, <1>5 DEF Shutdown, Closing, CloseFiles, GracefulStop, GracefullyStopped, ClosePool,
                    PoolClosed, End, config
<1>6. CASE Signal \/ GRPCServerDies \/ GraceEnds \/ \E s \in Servers : Serve(s)
  BY <1>6 DEF Signal, GRPCServerDies, GraceEnds, Serve, ErrorsInv, failures, config
<1>7. ASSUME NEW s \in Servers, ServerFails(s)
      PROVE  ErrorsInv'
  <2>1. Channel(s) \in {"http", "grpc"}
    BY DEF Channel
  <2>2. error' \in [{"http", "grpc"} -> {"none", "sent", "forwarded"}]
        /\ Forwarded("http")' = Forwarded("http") /\ Forwarded("grpc")' = Forwarded("grpc")
    BY <1>7, <2>1 DEF ServerFails, ErrorsInv
  <2>3. UNCHANGED <<cfg, errChan, signalled, grace>>
    BY <1>7 DEF ServerFails, config
  <2>4. QED
    <3> HIDE DEF Forwarded
    <3> QED
      BY <2>2, <2>3 DEF ErrorsInv
<1>8. ASSUME NEW c \in {"http", "grpc"}, Forward(c)
      PROVE  ErrorsInv'
  <2>1. error' \in [{"http", "grpc"} -> {"none", "sent", "forwarded"}]
        /\ Forwarded("http")' + Forwarded("grpc")' = Forwarded("http") + Forwarded("grpc") + 1
    BY <1>8 DEF Forward, ErrorsInv
  <2>2. errChan' = errChan + 1 /\ UNCHANGED <<cfg, signalled, grace>>
    BY <1>8 DEF Forward, config
  <2>3. Forwarded("http") \in Nat /\ Forwarded("grpc") \in Nat
    OBVIOUS
  <2>4. errChan' \in Nat /\ errChan' <= Forwarded("http")' + Forwarded("grpc")'
    <3> HIDE DEF Forwarded
    <3> QED
      BY <2>1, <2>2, <2>3 DEF ErrorsInv
  <2>5. QED
    <3> HIDE DEF Forwarded
    <3> QED
      BY <2>1, <2>2, <2>4 DEF ErrorsInv
<1>9. QED
  BY <1>1, <1>2, <1>3, <1>4, <1>5, <1>6, <1>7, <1>8, Steps, WorkIsWork
     DEF Quiet, config, failures, vars

-----------------------------------------------------------------------------
(* The inductive invariant holds in every reachable state. *)
THEOREM Invariant == Spec => []IInv
<1>1. IInv /\ [Next]_vars => IInv'
  BY ConfigKept, ClosersKept, ServersKept, TasksKept, ErrorsKept DEF IInv
<1>2. QED
  BY InitIInv, <1>1, PTL DEF Spec

(* Every variable keeps its type, and the pool never gives out more connections than it has. *)
THEOREM TypeCorrect == Spec => []TypeOK
<1>1. IInv => TypeOK
  <2> SUFFICES ASSUME IInv PROVE TypeOK
    OBVIOUS
  <2>1. closers \in Seq({"files", "pool", "grpc"}) /\ Len(closers) <= 3
    <3>1. closers \in {<<>>, F, FP, FPG}
      BY DEF IInv, ClosersInv, Mains
    <3>2. "files" \in Closers /\ "pool" \in Closers /\ "grpc" \in Closers
      BY DEF Closers
    <3>3. <<>> \in Seq(Closers) /\ Len(<<>>) = 0
      OBVIOUS
    <3>4. F \in Seq(Closers) /\ FP \in Seq(Closers) /\ FPG \in Seq(Closers)
      <4>1. \A t \in Seq(Closers), e \in Closers : Append(t, e) \in Seq(Closers)
        OBVIOUS
      <4>2. QED
        BY <3>2, <3>3, <4>1, Zenon DEF F, FP, FPG
    <3>5. Len(F) = 1 /\ Len(FP) = 2 /\ Len(FPG) = 3
      BY DEF F, FP, FPG
    <3>6. closers \in Seq(Closers)
      BY <3>1, <3>3, <3>4, Zenon
    <3>7. Len(closers) <= 3
      <4>1. 0 <= 3 /\ 1 <= 3 /\ 2 <= 3 /\ 3 <= 3
        OBVIOUS
      <4>2. QED
        BY <3>1, <3>3, <3>5, <4>1, Zenon
    <3>8. QED
      BY <3>6, <3>7 DEF Closers
  <2>2. errChan \in 0..2
    <3>1. Forwarded("http") \in 0..1 /\ Forwarded("grpc") \in 0..1
      BY DEF Forwarded
    <3>2. QED
      BY <3>1 DEF IInv, ErrorsInv
  <2>3. pool \in {"none", "open", "closing", "closed"} /\ main \in Mains
    BY DEF IInv, ClosersInv, Mains
  <2>4. QED
    BY <2>1, <2>2, <2>3 DEF IInv, ServersInv, TasksInv, ErrorsInv, TypeOK
<1>2. QED
  BY Invariant, <1>1, PTL

(* A process that gets to serve has the settings that the environment, the file and the defaults
   promise, whatever it was started with; all but the DSN, for which no default is applied. *)
THEOREM ConfiguredAsPromised == Spec => []ServesAsConfigured
<1>1. IInv => ServesAsConfigured
  <2> SUFFICES ASSUME IInv, main = "start", NEW s \in Settings
               PROVE  cfg[s] = IF WithoutDSN(s) THEN "none" ELSE Promised(s)
    BY DEF ServesAsConfigured
  <2>1. given.flags = {} /\ cfg = Loaded /\ cfg["FileStoragePath"] # "none"
    BY DEF IInv, ConfigInv, Configured
  <2>2. given.file # "malformed"
    BY <2>1 DEF Loaded, NewDefaultConfig, Unset, Settings
  <2>3. given.file \in {"absent", "good"}
    BY <2>2 DEF IInv, ConfigInv
  <2>4. cfg[s] = Resolved(s) /\ given.flags = {}
    BY <2>1, <2>2 DEF Loaded
  <2>5. CASE s \in given.env \cap HasVariable
    BY <2>4, <2>5 DEF Resolved, Promised, WithoutDSN
  <2>6. CASE s \notin given.env \cap HasVariable /\ s \in given.keys /\ given.file # "absent"
    BY <2>3, <2>4, <2>6 DEF Resolved, Promised, WithoutDSN
  <2>7. CASE s \notin given.env \cap HasVariable /\ ~(s \in given.keys /\ given.file # "absent")
    <3>1. cfg[s] = IF s \in HasDefault THEN "default" ELSE "none"
      BY <2>3, <2>4, <2>7 DEF Resolved
    <3>2. Promised(s) = IF s \in PromisedDefaults THEN "default" ELSE "none"
      BY <2>7 DEF Promised
    <3>3. QED
      BY <3>1, <3>2 DEF HasDefault, PromisedDefaults, WithoutDSN
  <2>8. QED
    BY <2>5, <2>6, <2>7
<1>2. QED
  BY Invariant, <1>1, PTL

(* No gRPC call, and no HTTP request in its ten seconds, meets a closed pool. *)
THEOREM PoolIsClosedLate == Spec => []PoolOutlivesCalls
<1>1. IInv => PoolOutlivesCalls
  <2> SUFFICES ASSUME IInv, pool \in {"closing", "closed"}
               PROVE  Running(Calls) = {} /\ (Running(Requests) # {} => grace = "over")
    BY DEF PoolOutlivesCalls
  <2>1. main \in {"closing", "ended"} /\ closers # FPG
    BY ClosersDiffer DEF IInv, ClosersInv, Mains
  <2>2. QED
    BY <2>1 DEF IInv, ServersInv
<1>2. QED
  BY Invariant, <1>1, PTL

(* What an orderly shutdown may cut off: requests after their ten seconds, and background deletes
   without a connection. *)
THEOREM ShutdownCutsLateWork == Spec => []OnlyLateWorkIsCut
<1>1. IInv => OnlyLateWorkIsCut
  <2> SUFFICES ASSUME IInv, main = "ended"
               PROVE  /\ Holding = {} /\ Running(Calls) = {}
                      /\ Running(Requests) # {} => grace = "over"
                      /\ \A d \in Deletes : work[d] \in {"none", "call"}
    BY DEF OnlyLateWorkIsCut
  <2>1. pool = "closed" /\ closers # FPG
    BY ClosersDiffer DEF IInv, ClosersInv
  <2>2. Holding = {}
    BY <2>1 DEF IInv, TasksInv
  <2>3. \A d \in Deletes : work[d] # "calling"
    BY <2>2 DEF Holding, Tasks
  <2>4. QED
    BY <2>1, <2>2, <2>3 DEF IInv, ServersInv, TasksInv
<1>2. QED
  BY Invariant, <1>1, PTL

-----------------------------------------------------------------------------
(* The generator of Reset methods, and the pool *)

(* reset.gen.go, when it is there: what it was made from, as long as nothing has been edited since.
   With the default flags that does not depend on the file that was there before. *)
GeneratedInv ==
    generated = Absent
    \/ /\ generated \in [code : Codes, items : BOOLEAN, skipped : BOOLEAN, current : BOOLEAN]
       /\ generated.current /\ generated.skipped => generated.code = GenerateResetCode(field, TRUE)

(* An object is with one user in Get, in Put or between them, or in the pool, or with nobody. *)
PoolInv ==
    /\ pooled \subseteq Objects /\ zero \subseteq Objects
    /\ place \in [Users -> Stations] /\ object \in [Users -> Objects \cup {NoObject}]
    /\ \A u \in Users : Busy(u) => object[u] \in Objects \ pooled
    /\ \A u, v \in Users : Busy(u) /\ Busy(v) /\ object[u] = object[v] => u = v
GenIInv ==
    /\ field \in Types /\ annotated \in BOOLEAN
    /\ GeneratedInv
    /\ PoolInv

(* What the names of the types say of them. *)
LEMMA BasesAre ==
    ASSUME NEW b \in Bases
    PROVE  /\ b.name \in StructTypes => b.kind = "struct"
           /\ b.kind \in {"basic", "error", "func"} => b.name \notin StructTypes
<1>1. PICK n, k, f : /\ b = Named(n, k, f)
                     /\ n \in StructTypes => k = "struct"
                     /\ k \in {"basic", "error", "func"} => n \notin StructTypes
                     /\ f \in BOOLEAN
  BY DEF Bases, StructTypes
<1>2. b.name = n /\ b.kind = k
  BY <1>1 DEF Named
<1>3. QED
  BY <1>1, <1>2

(* Every type gets a statement of a known form. *)
LEMMA CodesAre ==
    ASSUME NEW t \in Types, NEW skip \in BOOLEAN PROVE GenerateResetCode(t, skip) \in Codes
<1>1. GetZeroValue(t) \in Codes
  BY DEF GetZeroValue, Codes
<1>2. QED
  BY <1>1 DEF GenerateResetCode, Codes

(* Nothing is generated at the start, and the pool is empty. *)
LEMMA InitGenIInv == GenInit => GenIInv
<1>1. PoolInit => PoolInv
  BY DEF PoolInit, PoolInv, Busy, Stations
<1>2. QED
  BY <1>1 DEF GenInit, GenIInv, GeneratedInv

(* Editing the struct leaves the file, which is no longer current. *)
LEMMA OutdatedIs ==
    ASSUME GeneratedInv, generated' = Outdated PROVE GeneratedInv'
<1>1. CASE generated = Absent
  BY <1>1 DEF Outdated, GeneratedInv
<1>2. CASE generated # Absent
  <2>1. /\ generated \in [code : Codes, items : BOOLEAN, skipped : BOOLEAN, current : BOOLEAN]
        /\ generated' = [generated EXCEPT !.current = FALSE]
    BY <1>2 DEF Outdated, GeneratedInv
  <2>2. /\ generated' \in [code : Codes, items : BOOLEAN, skipped : BOOLEAN, current : BOOLEAN]
        /\ ~generated'.current
    BY <2>1
  <2>3. QED
    BY <2>2 DEF GeneratedInv
<1>3. QED
  BY <1>1, <1>2

(* Only the user who has an object moves it, and only a free one is taken. *)
LEMMA PoolStepKeepsPoolInv == ASSUME PoolInv, PoolNext PROVE PoolInv'
<1> USE DEF PoolInv, Busy, Stations, Moves
<1>1. ASSUME NEW u \in Users, NEW o \in Objects, Take(u, o) PROVE PoolInv'
  <2>1. pooled' = pooled \ {o} /\ zero' \subseteq Objects
    BY <1>1 DEF Take
  <2>2. /\ place' = [place EXCEPT ![u] = "taken"]
        /\ object' = [object EXCEPT ![u] = o]
    BY <1>1 DEF Take
  <2>3. \A v \in Users \ {u} : Busy(v) => object[v] # o
    BY <1>1 DEF Take
  <2>4. QED
    BY <2>1, <2>2, <2>3
<1>2. ASSUME NEW u \in Users, Reset(u) PROVE PoolInv'
  BY <1>2 DEF Reset
<1>3. ASSUME NEW u \in Users, Get(u) \/ Put(u) PROVE PoolInv'
  BY <1>3 DEF Get, Put
<1>4. ASSUME NEW u \in Users, Store(u) PROVE PoolInv'
  BY <1>4 DEF Store
<1>5. ASSUME NEW u \in Users, Change(u) PROVE PoolInv'
  BY <1>5 DEF Change
<1>6. ASSUME NEW o \in Objects, Drop(o) PROVE PoolInv'
  BY <1>6 DEF Drop
<1>7. QED
  BY <1>1, <1>2, <1>3, <1>4, <1>5, <1>6 DEF PoolNext

(* Neither the generator, nor an edit, nor the pool breaks the invariant. *)
LEMMA StepKeepsGenIInv ==
    ASSUME GenIInv, [GenNext \/ PoolNext]_genvars PROVE GenIInv'
<1>1. field \in Types /\ annotated \in BOOLEAN /\ GeneratedInv /\ PoolInv
  BY DEF GenIInv
<1>a. UNCHANGED objects => PoolInv'
  BY <1>1 DEF objects, PoolInv, Busy
<1>2. ASSUME NEW force \in BOOLEAN, NEW skip \in BOOLEAN, GenerateResetFile(force, skip)
      PROVE  GenIInv'
  <2>1. /\ generated' = [code |-> GenerateResetCode(field, skip), items |-> annotated,
                         skipped |-> skip, current |-> TRUE]
        /\ UNCHANGED <<field, annotated, objects>>
    BY <1>2 DEF GenerateResetFile, source
  <2>2. GenerateResetCode(field, skip) \in Codes
    BY <1>1, CodesAre
  <2>3. generated' \in [code : Codes, items : BOOLEAN, skipped : BOOLEAN, current : BOOLEAN]
    BY <1>1, <2>1, <2>2
  <2>4. generated'.skipped => generated'.code = GenerateResetCode(field, TRUE)
    BY <2>1
  <2>5. GenerateResetCode(field, TRUE)' = GenerateResetCode(field, TRUE)
    BY <2>1 DEF GenerateResetCode, HasReset, GetZeroValue, BaseType, Outer
  <2>6. QED
    BY <1>1, <1>a, <2>1, <2>3, <2>4, <2>5 DEF GenIInv, GeneratedInv
<1>3. ASSUME NEW t \in Types, EditField(t) PROVE GenIInv'
  BY <1>1, <1>a, <1>3, OutdatedIs DEF EditField, GenIInv
<1>4. ASSUME EditItem PROVE GenIInv'
  BY <1>1, <1>a, <1>4, OutdatedIs DEF EditItem, GenIInv
<1>5. ASSUME UNCHANGED <<source, generated>>, PoolInv' PROVE GenIInv'
  <2>1. GenerateResetCode(field, TRUE)' = GenerateResetCode(field, TRUE)
    BY <1>5 DEF GenerateResetCode, HasReset, GetZeroValue, BaseType, Outer, source
  <2>2. QED
    BY <1>1, <1>5, <2>1 DEF GenIInv, GeneratedInv, source
<1>6. ASSUME PoolNext PROVE GenIInv'
  <2>1. UNCHANGED <<source, generated>>
    BY <1>6 DEF PoolNext, Take, Reset, Get, Put, Store, Drop, Change
  <2>2. QED
    BY <1>1, <1>5, <1>6, <2>1, PoolStepKeepsPoolInv
<1>7. ASSUME UNCHANGED genvars PROVE GenIInv'
  BY <1>5, <1>a, <1>7 DEF genvars
<1>8. QED
  BY <1>2, <1>3, <1>4, <1>6, <1>7 DEF GenNext

(* The invariant of the generator and the pool is inductive. *)
THEOREM GenInductive == GenSpec => []GenIInv
<1>1. GenInit => GenIInv
  BY InitGenIInv
<1>2. GenIInv /\ [GenNext \/ PoolNext]_genvars => GenIInv'
  BY StepKeepsGenIInv
<1>3. QED
  BY <1>1, <1>2, PTL DEF GenSpec

(* The generator has a statement of a known form for every type, however deep (generateResetCode). *)
THEOREM GenTypeCorrect == GenSpec => []GenTypeOK
<1>1. GenIInv => GenTypeOK
  BY DEF GenIInv, GeneratedInv, GenTypeOK, PoolInv
<1>2. QED
  BY <1>1, GenInductive, PTL

(* Made without the old file, the statement for an ordinary field compiles and empties it. *)
LEMMA OrdinaryEmpties ==
    ASSUME NEW t \in Types, Ordinary(t) PROVE Empties(GenerateResetCode(t, TRUE), t)
<1>1. HasReset(TRUE) = {"Conn"}
  BY DEF HasReset
<1>2. t.base \in Bases
  BY DEF Types
<1>3. CASE Outer(t) = "slice"
  BY <1>3 DEF GenerateResetCode, Empties
<1>4. CASE Outer(t) = "map"
  BY <1>4 DEF GenerateResetCode, Empties
<1>5. CASE t.of = <<>> /\ t.base.kind \in {"basic", "error", "func"}
  <2>1. Outer(t) = "none" /\ t.base.name \notin StructTypes
    BY <1>2, <1>5, BasesAre DEF Outer
  <2>2. GenerateResetCode(t, TRUE) = GetZeroValue(t)
    BY <1>1, <2>1 DEF GenerateResetCode, BaseType, StructTypes
  <2>3. CASE t.base.kind = "basic"
    BY <1>5, <2>2, <2>3 DEF GetZeroValue, Empties
  <2>4. CASE t.base.kind \in {"error", "func"}
    <3>1. GetZeroValue(t) = "nil"
      BY <1>5, <2>4 DEF GetZeroValue
    <3>2. QED
      BY <1>5, <2>2, <2>4, <3>1 DEF Empties
  <2>5. QED
    BY <1>5, <2>3, <2>4
<1>6. CASE t.of = <<"ptr">> /\ ~t.base.foreign
  <2>1. Outer(t) = "ptr"
    BY <1>6 DEF Outer
  <2>2. CASE t.base.name = "Conn"
    <3>1. GenerateResetCode(t, TRUE) = "call Reset"
      BY <1>1, <2>1, <2>2 DEF GenerateResetCode, BaseType
    <3>2. QED
      BY <1>6, <2>2, <3>1 DEF Empties, ResetInFile
  <2>3. CASE t.base.name \in StructTypes \ {"Conn"}
    <3>1. GenerateResetCode(t, TRUE) = "assign struct"
      BY <1>1, <2>1, <2>3 DEF GenerateResetCode, BaseType
    <3>2. t.base.kind = "struct"
      BY <1>2, <2>3, BasesAre
    <3>3. QED
      BY <1>6, <3>1, <3>2 DEF Empties
  <2>4. CASE t.base.name \notin StructTypes \cup {"Conn"}
    <3>1. GenerateResetCode(t, TRUE) = "nil"
      BY <1>1, <2>1, <2>4 DEF GenerateResetCode, BaseType
    <3>2. QED
      BY <2>1, <3>1 DEF Empties
  <2>5. QED
    BY <2>2, <2>3, <2>4
<1>7. QED
  BY <1>3, <1>4, <1>5, <1>6 DEF Ordinary

(* A run with the default flags is led astray by no method of the file it replaces: for types of any
   depth, an ordinary field is emptied by what the run wrote (collectTypeInfoFromFile,
   generateResetCode). *)
THEOREM OrdinaryFieldsAreEmptied == GenSpec => []FreshCodeEmpties
<1>1. GenIInv => FreshCodeEmpties
  BY OrdinaryEmpties DEF GenIInv, GeneratedInv, FreshCodeEmpties
<1>2. QED
  BY <1>1, GenInductive, PTL

(* Whatever the steps of Get and Put of any number of users come to, and whatever sync.Pool drops, a
   user's changes to the object he is using are taken back by nobody (Pool.Get, Pool.Put). *)
THEOREM PoolUsersAreUndisturbed == GenSpec => UsersAreUndisturbed
<1> DEFINE Undisturbed ==
        \A u \in Users : place[u] = "using" /\ place'[u] = "using" =>
            object'[u] = object[u] /\ (object[u] \in zero' => object[u] \in zero)
<1>1. ASSUME GenIInv, [GenNext \/ PoolNext]_genvars PROVE [Undisturbed]_objects
  <2>1. CASE UNCHANGED objects
    BY <2>1
  <2>2. CASE PoolNext
    <3> SUFFICES ASSUME NEW u \in Users, place[u] = "using", place'[u] = "using"
                 PROVE  object'[u] = object[u] /\ (object[u] \in zero' => object[u] \in zero)
      OBVIOUS
    <3> USE DEF Busy, Moves
    <3>1. PoolInv
      BY <1>1 DEF GenIInv
    <3>2. ASSUME NEW v \in Users, NEW o \in Objects, Take(v, o)
          PROVE  object'[u] = object[u] /\ (object[u] \in zero' => object[u] \in zero)
      <4>1. u # v /\ object[u] # o
        BY <3>1, <3>2 DEF Take, PoolInv
      <4>2. QED
        BY <3>1, <3>2, <4>1 DEF Take, PoolInv
    <3>3. ASSUME NEW v \in Users, Reset(v)
          PROVE  object'[u] = object[u] /\ (object[u] \in zero' => object[u] \in zero)
      <4>1. u # v /\ object[u] # object[v]
        BY <3>1, <3>3 DEF Reset, PoolInv
      <4>2. QED
        BY <3>3, <4>1 DEF Reset
    <3>4. ASSUME NEW v \in Users, Get(v) \/ Put(v) \/ Store(v) \/ Change(v)
          PROVE  object'[u] = object[u] /\ (object[u] \in zero' => object[u] \in zero)
      BY <3>4 DEF Get, Put, Store, Change
    <3>5. ASSUME NEW o \in Objects, Drop(o)
          PROVE  object'[u] = object[u] /\ (object[u] \in zero' => object[u] \in zero)
      BY <3>5 DEF Drop
    <3>6. QED
      BY <2>2, <3>2, <3>3, <3>4, <3>5 DEF PoolNext
  <2>3. CASE GenNext
    BY <2>1, <2>3 DEF GenNext, GenerateResetFile, EditField, EditItem
  <2>4. QED
    BY <1>1, <2>1, <2>2, <2>3 DEF genvars
<1>2. QED
  BY GenInductive, <1>1, PTL DEF GenSpec, UsersAreUndisturbed

=============================================================================

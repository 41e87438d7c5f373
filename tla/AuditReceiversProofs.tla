------------------------ MODULE AuditReceiversProofs ------------------------
(***************************************************************************)
(* What holds of AuditReceivers for all values of its constants: every     *)
(* safety property its run checks.  The inductive invariant is in three    *)
(* parts, which hardly depend on one another:                              *)
(*                                                                         *)
(*   FilesOK     the registry.  A logger with an open file is the one its  *)
(*               path is registered with, so no two have one open; an      *)
(*               adapter's logger is registered until one is closed.       *)
(*   FactoryOK   the map of adapters.  A processor ends, or is in its last *)
(*               flush, only while its adapter is being closed, and an     *)
(*               adapter being closed is out of the map.                   *)
(*   DeliveryOK  each adapter's own queue, batch and call.  The batch has  *)
(*               room at the select, so it never outgrows its limit; a     *)
(*               wait is as long as was asked for, up to the jitter, or    *)
(*               too long for the deadline, when the answer was read and   *)
(*               asked for no more than a day.                             *)
(***************************************************************************)
EXTENDS AuditReceivers, SequenceTheorems, TLAPS

(* A call of BatchCreateAuditEvents. *)
Call == [attempt : 0 .. 3, elapsed : 0 .. 50, asked : Nat, delay : 0 .. 150,
         unread : BOOLEAN, last : BOOLEAN]
File == {"none", "open", "closed", "reopening"}

FilesTyped ==
    /\ instances \in [Paths -> Loggers \cup {None}]
    /\ path \in [Loggers -> Paths \cup {None}] /\ file \in [Loggers -> File]
    /\ closedOn \subseteq Paths /\ raced \in BOOLEAN
    /\ fileLogger \in [Adapters -> Loggers \cup {None}]
FactoryTyped ==
    /\ adapters \in [Key -> Adapters \cup {None}] /\ closing \subseteq Adapters
    /\ key \in [Adapters -> Key \cup {None}]
DeliveryTyped ==
    /\ world \in Worlds
    /\ queue \in [Adapters -> Seq(Kinds)] /\ batch \in [Adapters -> Seq(Kinds)]
    /\ at \in [Adapters -> Places] /\ call \in [Adapters -> Call]

(* A logger has a path from the first time it is used.  Unless a CloseInstance has met a Reopen, the
   one that has its file open is the one its path is registered with. *)
InUse(l) == file[l] \in {"open", "reopening"}
LoggerOK(l) == file[l] # "none" => path[l] \in Paths
RegistryOK(p) ==
    instances[p] # None => /\ path[instances[p]] = p /\ file[instances[p]] # "none"
                           /\ p \notin closedOn => InUse(instances[p])
ReceiverOK(a) ==
    LET l == fileLogger[a]
    IN  l # None => /\ file[l] # "none"
                    /\ path[l] \notin closedOn => instances[path[l]] = l
SoleWriters == raced \/ \A l \in Loggers : InUse(l) => instances[path[l]] = l
FilesInv ==
    /\ \A l \in Loggers : LoggerOK(l)
    /\ \A p \in Paths : RegistryOK(p)
    /\ \A a \in Adapters : ReceiverOK(a)
    /\ SoleWriters

(* An adapter stops, or is on the way to, only while it is being closed. *)
Ending(a) == at[a] = "stopped" \/ call[a].last
FactoryInv ==
    /\ FactoryAgrees
    /\ \A a \in Adapters :
          /\ key[a] = None <=> at[a] = "none"
          /\ Ending(a) => a \in closing
          /\ a \in closing => key[a] # None
          /\ call[a].last => at[a] \notin {"none", "stopped"}

LongEnough(delay, asked, unread) ==
    unread \/ asked > LongestAsked * Second \/ delay = MaxDelay \/ 5 * delay >= 4 * asked

(* The batch is empty where nothing is to be sent, and has room where something may be added; a
   wait is long enough, or longer than the call has time. *)
DeliveryInv(a) ==
    /\ Len(queue[a]) <= QueueSize /\ Len(batch[a]) <= MaxBatchSize
    /\ at[a] = "select" => Len(batch[a]) < MaxBatchSize
    /\ at[a] \in {"none", "stopped"} => batch[a] = <<>>
    /\ key[a] # None /\ ~key[a].http => batch[a] = <<>>
    /\ at[a] = "refused" => \E n \in 1..Len(batch[a]) : batch[a][n] # "user"
    /\ at[a] = "wait" => LongEnough(call[a].delay, call[a].asked, call[a].unread)

FilesOK == FilesTyped /\ FilesInv
FactoryOK == FactoryTyped /\ FactoryInv
DeliveryOK == DeliveryTyped /\ \A a \in Adapters : DeliveryInv(a)
IInv == FilesOK /\ FactoryOK /\ DeliveryOK

-----------------------------------------------------------------------------
(* The files *)

(* None is no path, adapter, logger, key or number, and the two limits are positive. *)
LEMMA NoneIsNobody ==
    /\ None \notin Paths /\ None \notin Adapters /\ None \notin Loggers /\ None \notin Key
    /\ None \notin Nat /\ QueueSize \in Nat \ {0} /\ MaxBatchSize \in Nat \ {0}
BY ReceiversAssumption

(* The files' part of the invariant rests on the files and on who has which logger. *)
LEMMA FilesRest ==
    ASSUME FilesOK, UNCHANGED <<files, fileLogger>> PROVE FilesOK'
BY DEF FilesOK, FilesTyped, FilesInv, LoggerOK, RegistryOK, ReceiverOK, SoleWriters, InUse, files

(* Closing some loggers closes those of them that are open, and no others (os.File.Close). *)
LEMMA FileClosedIs ==
    ASSUME FilesTyped, NEW S
    PROVE  /\ FileClosed(S) \in [Loggers -> File]
           /\ \A l \in Loggers :
                 /\ l \notin S => FileClosed(S)[l] = file[l]
                 /\ l \in S => /\ file[l] = "open" => FileClosed(S)[l] = "closed"
                               /\ file[l] # "open" => FileClosed(S)[l] = file[l]
BY DEF FilesTyped, FileClosed, File

(* GetInstance gives an adapter, or a NewAdapter that fails, the logger the path is registered
   with, or opens and registers one nobody uses. *)
LEMMA GetInstanceKeeps ==
    ASSUME FilesOK, NEW p \in Paths, NEW l \in Loggers, GetInstance(p, l),
           fileLogger' \in [Adapters -> Loggers \cup {None}],
           \A a \in Adapters : fileLogger'[a] = fileLogger[a] \/ fileLogger'[a] = l
    PROVE  FilesOK'
<1>1. /\ FilesTyped /\ SoleWriters /\ l # None
      /\ \A m \in Loggers : LoggerOK(m)
      /\ \A q \in Paths : RegistryOK(q)
      /\ \A a \in Adapters : ReceiverOK(a)
  BY NoneIsNobody DEF FilesOK, FilesInv
<1>2. CASE Registered(p)
  <2>1. l = instances[p] /\ UNCHANGED files
    BY <1>2 DEF GetInstance
  <2>2. path[l] = p /\ file[l] # "none"
    BY <1>1, <1>2, <2>1 DEF RegistryOK, Registered
  <2>3. /\ \A m \in Loggers : LoggerOK(m)'
        /\ \A q \in Paths : RegistryOK(q)'
        /\ SoleWriters' /\ FilesTyped'
    BY <1>1, <2>1 DEF LoggerOK, RegistryOK, SoleWriters, InUse, FilesTyped, files
  <2>4. \A a \in Adapters : ReceiverOK(a)'
    <3>1. TAKE a \in Adapters
    <3>2. CASE fileLogger'[a] = l
      BY <2>1, <2>2, <3>2 DEF ReceiverOK, files
    <3>3. CASE fileLogger'[a] = fileLogger[a]
      BY <1>1, <2>1, <3>3 DEF ReceiverOK, files
    <3>4. QED
      BY <3>2, <3>3
  <2>5. QED
    BY <2>3, <2>4 DEF FilesOK, FilesInv
<1>3. CASE ~Registered(p)
  <2>1. /\ Unused(l) /\ instances' = [instances EXCEPT ![p] = l] /\ path' = [path EXCEPT ![l] = p]
        /\ file' = [file EXCEPT ![l] = "open"] /\ closedOn' = closedOn /\ raced' = raced
    BY <1>3 DEF GetInstance
  <2>2. FilesTyped'
    BY <1>1, <2>1 DEF FilesTyped, File
  <2>3. /\ instances'[p] = l /\ path'[l] = p /\ file'[l] = "open"
        /\ \A q \in Paths \ {p} : instances'[q] = instances[q] /\ instances[q] # l
        /\ \A m \in Loggers \ {l} : path'[m] = path[m] /\ file'[m] = file[m]
        /\ \A a \in Adapters : fileLogger[a] # l
        /\ instances[p] = None /\ ~InUse(l)
    BY <1>1, <1>3, <2>1 DEF FilesTyped, Unused, InUse, Registered
  <2>4. \A m \in Loggers : LoggerOK(m)'
    BY <1>1, <2>3 DEF LoggerOK
  <2>5. \A q \in Paths : RegistryOK(q)'
    <3>1. TAKE q \in Paths
    <3>2. CASE q = p
      BY <2>3, <3>2 DEF RegistryOK, InUse
    <3>3. CASE q # p
      <4>1. CASE instances[q] = None
        BY <2>3, <3>3, <4>1 DEF RegistryOK
      <4>2. CASE instances[q] # None
        <5>1. PICK m \in Loggers \ {l} : m = instances[q] /\ m = instances'[q]
          BY <1>1, <2>3, <3>3, <4>2 DEF FilesTyped
        <5>2. path'[m] = q /\ file'[m] # "none" /\ (q \notin closedOn' => InUse(m)')
          BY <1>1, <2>1, <2>3, <3>3, <4>2, <5>1 DEF RegistryOK, InUse
        <5>3. QED
          BY <5>1, <5>2 DEF RegistryOK, InUse
      <4>3. QED
        BY <4>1, <4>2
    <3>4. QED
      BY <3>2, <3>3
  <2>6. \A a \in Adapters : ReceiverOK(a)'
    <3>0. TAKE a \in Adapters
    <3>1. CASE fileLogger'[a] = l
      BY <2>3, <3>1 DEF ReceiverOK
    <3>2. CASE fileLogger'[a] = fileLogger[a] /\ fileLogger[a] # None
      <4>1. PICK m \in Loggers : m = fileLogger[a] /\ m # l /\ m # None
        BY <1>1, <2>3, <3>2, NoneIsNobody DEF FilesTyped
      <4>2. /\ file[m] # "none" /\ path[m] \in Paths
            /\ path[m] \notin closedOn => instances[path[m]] = m
        BY <1>1, <4>1 DEF ReceiverOK, LoggerOK
      <4>3. QED
        BY <2>1, <2>3, <3>2, <4>1, <4>2 DEF ReceiverOK
    <3>3. CASE fileLogger'[a] = None
      BY <3>3 DEF ReceiverOK
    <3>4. QED
      BY <3>1, <3>2, <3>3
  <2>7. SoleWriters'
    <3>1. SUFFICES ASSUME ~raced, NEW m \in Loggers, InUse(m)' PROVE instances'[path'[m]] = m
      BY <2>1 DEF SoleWriters
    <3>2. CASE m = l
      BY <2>3, <3>2
    <3>3. CASE m # l
      <4>1. InUse(m) /\ path[m] \in Paths
        BY <1>1, <2>3, <3>1, <3>3 DEF InUse, LoggerOK
      <4>2. instances[path[m]] = m /\ m # None
        BY <1>1, <3>1, <4>1, NoneIsNobody DEF SoleWriters
      <4>3. QED
        BY <2>3, <3>3, <4>1, <4>2
    <3>4. QED
      BY <3>2, <3>3
  <2>8. QED
    BY <2>2, <2>4, <2>5, <2>6, <2>7 DEF FilesOK, FilesInv
<1>4. QED
  BY <1>2, <1>3

(* Loggers of some paths are closed, and taken from the registry or left there. *)
LEMMA ClosedFilesKeep ==
    ASSUME FilesOK, NEW P \in SUBSET Paths, NEW S \in SUBSET Loggers,
           \A l \in S : file[l] # "none" => path[l] \in P,
           file' = FileClosed(S), path' = path, closedOn' = closedOn \cup P,
           instances' \in [Paths -> Loggers \cup {None}],
           \A p \in Paths \ P : instances'[p] = instances[p],
           \A p \in P : instances'[p] \in {instances[p], None},
           raced' \in BOOLEAN, raced => raced',
           raced' \/ \A p \in P : /\ instances[p] # None /\ instances'[p] = None
                                   => instances[p] \in S /\ file[instances[p]] # "reopening",
           fileLogger' \in [Adapters -> Loggers \cup {None}],
           \A a \in Adapters : fileLogger'[a] \in {fileLogger[a], None}
    PROVE  FilesOK'
<1>1. /\ FilesTyped /\ SoleWriters
      /\ \A m \in Loggers : LoggerOK(m)
      /\ \A q \in Paths : RegistryOK(q)
      /\ \A a \in Adapters : ReceiverOK(a)
  BY DEF FilesOK, FilesInv
<1>2. /\ file' \in [Loggers -> File]
      /\ \A l \in Loggers :
            /\ l \notin S => file'[l] = file[l]
            /\ l \in S => /\ file[l] = "open" => file'[l] = "closed"
                          /\ file[l] # "open" => file'[l] = file[l]
  BY <1>1, FileClosedIs
<1>3. FilesTyped'
  BY <1>1, <1>2 DEF FilesTyped
<1>4. \A l \in Loggers : /\ file'[l] = "none" <=> file[l] = "none"
                         /\ InUse(l)' => InUse(l)
                         /\ path[l] \notin P /\ InUse(l) => InUse(l)'
  BY <1>2 DEF InUse
<1>5. \A l \in Loggers : LoggerOK(l)'
  BY <1>1, <1>4 DEF LoggerOK
<1>6. ASSUME NEW p \in Paths PROVE RegistryOK(p)'
  <2>1. CASE instances'[p] # None
    <3>1. PICK l \in Loggers : l = instances[p] /\ l = instances'[p] /\ l # None
      BY <1>1, <2>1 DEF FilesTyped
    <3>2. path[l] = p /\ file[l] # "none" /\ (p \notin closedOn => InUse(l))
      BY <1>1, <3>1 DEF RegistryOK
    <3>3. p \notin closedOn' => InUse(l)'
      BY <1>4, <3>2
    <3>4. QED
      BY <1>4, <3>1, <3>2, <3>3 DEF RegistryOK, InUse
  <2>2. QED
    BY <2>1 DEF RegistryOK
<1>7. ASSUME NEW a \in Adapters PROVE ReceiverOK(a)'
  <2>1. CASE fileLogger'[a] # None
    <3>1. PICK l \in Loggers : l = fileLogger[a] /\ l = fileLogger'[a] /\ l # None
      BY <1>1, <2>1 DEF FilesTyped
    <3>2. /\ file[l] # "none" /\ path[l] \in Paths
          /\ path[l] \notin closedOn => instances[path[l]] = l
      BY <1>1, <3>1 DEF ReceiverOK, LoggerOK
    <3>3. QED
      BY <1>4, <3>1, <3>2 DEF ReceiverOK
  <2>2. QED
    BY <2>1 DEF ReceiverOK
<1>8. SoleWriters'
  <2>1. SUFFICES ASSUME ~raced', NEW l \in Loggers, InUse(l)' PROVE instances'[path[l]] = l
    BY DEF SoleWriters
  <2>2. InUse(l) /\ instances[path[l]] = l /\ path[l] \in Paths /\ l # None
    BY <1>1, <1>4, <2>1, NoneIsNobody DEF SoleWriters, LoggerOK, InUse
  <2>3. ~(l \in S /\ file[l] # "reopening")
    BY <1>2, <2>1, <2>2 DEF InUse
  <2>4. QED
    BY <2>1, <2>2, <2>3
<1>9. QED
  BY <1>3, <1>5, <1>6, <1>7, <1>8 DEF FilesOK, FilesInv

(* CloseInstance closes and forgets one logger; one in the middle of a Reopen makes it a race. *)
LEMMA CloseInstanceKeeps ==
    ASSUME FilesOK, NEW p \in Paths, CloseInstance(p) PROVE FilesOK'
<1>1. /\ FilesTyped /\ \A q \in Paths : RegistryOK(q)
      /\ UNCHANGED <<path, fileLogger>>
  BY DEF FilesOK, FilesInv, CloseInstance
<1>2. PICK l \in Loggers : l = instances[p] /\ l # None
  BY <1>1 DEF CloseInstance, Registered, FilesTyped
<1>3. /\ instances' = [instances EXCEPT ![p] = None] /\ file' = FileClosed({l})
      /\ closedOn' = closedOn \cup {p} /\ raced' = (raced \/ file[l] = "reopening")
  BY <1>2 DEF CloseInstance
<1>4. PICK P \in SUBSET Paths, S \in SUBSET Loggers : P = {p} /\ S = {l}
  OBVIOUS
<1>5. path[l] = p
  BY <1>1, <1>2 DEF RegistryOK
<1>6. /\ instances' \in [Paths -> Loggers \cup {None}] /\ raced' \in BOOLEAN
      /\ fileLogger' \in [Adapters -> Loggers \cup {None}]
      /\ \A q \in Paths \ P : instances'[q] = instances[q]
      /\ \A q \in P : instances'[q] \in {instances[q], None}
      /\ \A a \in Adapters : fileLogger'[a] \in {fileLogger[a], None}
  BY <1>1, <1>3, <1>4 DEF FilesTyped
<1>7. raced' \/ \A q \in P : /\ instances[q] # None /\ instances'[q] = None
                             => instances[q] \in S /\ file[instances[q]] # "reopening"
  BY <1>2, <1>3, <1>4
<1>8. \A m \in S : file[m] # "none" => path[m] \in P
  BY <1>4, <1>5
<1>9. raced => raced'
  BY <1>3, Zenon
<1>10. file' = FileClosed(S) /\ closedOn' = closedOn \cup P
  BY <1>3, <1>4
<1>11. QED
  BY <1>1, <1>6, <1>7, <1>8, <1>9, <1>10, ClosedFilesKeep

(* ResetInstances closes and forgets some of the open loggers. *)
LEMMA ResetInstancesKeeps ==
    ASSUME FilesOK, ResetInstances PROVE FilesOK'
<1>1. /\ FilesTyped /\ \A q \in Paths : RegistryOK(q)
      /\ UNCHANGED <<path, fileLogger, raced>>
  BY DEF FilesOK, FilesInv, ResetInstances
<1>2. PICK P \in SUBSET {p \in {q \in Paths : Registered(q)} : file[instances[p]] = "open"} :
          /\ instances' = [p \in Paths |-> IF p \in P THEN None ELSE instances[p]]
          /\ file' = FileClosed({instances[p] : p \in P})
          /\ closedOn' = closedOn \cup P
  BY DEF ResetInstances
<1>3. PICK S : S = {instances[p] : p \in P}
  OBVIOUS
<1>4. P \in SUBSET Paths /\ S \in SUBSET Loggers
  BY <1>1, <1>2, <1>3 DEF FilesTyped, Registered
<1>5. \A m \in S : path[m] \in P
  BY <1>1, <1>2, <1>3 DEF RegistryOK, Registered
<1>6. /\ instances' \in [Paths -> Loggers \cup {None}] /\ raced' \in BOOLEAN
      /\ fileLogger' \in [Adapters -> Loggers \cup {None}]
      /\ \A q \in Paths \ P : instances'[q] = instances[q]
      /\ \A q \in P : instances'[q] \in {instances[q], None}
      /\ \A a \in Adapters : fileLogger'[a] \in {fileLogger[a], None}
  BY <1>1, <1>2, <1>4 DEF FilesTyped
<1>7. \A q \in P : instances[q] \in S /\ file[instances[q]] # "reopening"
  BY <1>2, <1>3
<1>8. QED
  BY <1>1, <1>2, <1>3, <1>4, <1>5, <1>6, <1>7, ClosedFilesKeep

(* Neither half of a Reopen leaves a path that nobody has closed without an open file. *)
LEMMA ReopenKeeps ==
    ASSUME FilesOK, NEW l \in Loggers, ReopenCloses(l) \/ ReopenOpens(l) \/ ReopenFails(l)
    PROVE  FilesOK'
<1>1. /\ FilesTyped /\ SoleWriters
      /\ \A m \in Loggers : LoggerOK(m)
      /\ \A q \in Paths : RegistryOK(q)
      /\ \A a \in Adapters : ReceiverOK(a)
  BY DEF FilesOK, FilesInv
<1>2. /\ InUse(l) /\ UNCHANGED <<instances, path, raced, fileLogger>>
      /\ closedOn \subseteq closedOn' /\ closedOn' \subseteq closedOn \cup {path[l]}
      /\ \E f \in File \ {"none"} : file' = [file EXCEPT ![l] = f]
      /\ InUse(l)' \/ path[l] \in closedOn'
  <2>1. CASE ReopenCloses(l) \/ ReopenOpens(l)
    <3>1. PICK f \in {"open", "reopening"} : file' = [file EXCEPT ![l] = f]
      BY <2>1 DEF ReopenCloses, ReopenOpens
    <3>2. f \in File \ {"none"} /\ file'[l] = f
      BY <1>1, <3>1 DEF FilesTyped, File
    <3>3. QED
      BY <2>1, <3>1, <3>2 DEF ReopenCloses, ReopenOpens, InUse
  <2>2. CASE ReopenFails(l)
    BY <2>2 DEF ReopenFails, InUse, File
  <2>3. QED
    BY <2>1, <2>2
<1>3. /\ file' \in [Loggers -> File] /\ file'[l] # "none" /\ path[l] \in Paths
      /\ \A m \in Loggers \ {l} : file'[m] = file[m]
  BY <1>1, <1>2 DEF FilesTyped, LoggerOK, InUse
<1>4. FilesTyped'
  BY <1>1, <1>2, <1>3 DEF FilesTyped
<1>5. \A m \in Loggers : /\ file'[m] = "none" <=> file[m] = "none"
                         /\ InUse(m)' => InUse(m)
                         /\ path[m] \notin closedOn' /\ InUse(m) => InUse(m)'
  BY <1>2, <1>3 DEF InUse
<1>6. \A m \in Loggers : LoggerOK(m)'
  BY <1>1, <1>2, <1>5 DEF LoggerOK
<1>7. ASSUME NEW p \in Paths PROVE RegistryOK(p)'
  <2>1. CASE instances[p] # None
    <3>1. PICK m \in Loggers : m = instances[p] /\ m # None
      BY <1>1, <2>1 DEF FilesTyped
    <3>2. path[m] = p /\ file[m] # "none" /\ (p \notin closedOn => InUse(m))
      BY <1>1, <3>1 DEF RegistryOK
    <3>3. p \notin closedOn' => InUse(m)'
      BY <1>2, <1>5, <3>2
    <3>4. QED
      BY <1>2, <1>5, <3>1, <3>2, <3>3 DEF RegistryOK, InUse
  <2>2. QED
    BY <1>2, <2>1 DEF RegistryOK
<1>8. \A a \in Adapters : ReceiverOK(a)'
  BY <1>1, <1>2, <1>5 DEF ReceiverOK, FilesTyped
<1>9. SoleWriters'
  BY <1>1, <1>2, <1>5 DEF SoleWriters
<1>10. QED
  BY <1>4, <1>6, <1>7, <1>8, <1>9 DEF FilesOK, FilesInv

(* Adapter.Close closes its logger, whoever else has it, and forgets it. *)
LEMMA CloseFileKeepsFiles ==
    ASSUME FilesOK, NEW a \in Adapters, CloseFile(a) PROVE FilesOK'
<1>1. /\ FilesTyped /\ ReceiverOK(a) /\ \A m \in Loggers : LoggerOK(m)
      /\ UNCHANGED <<instances, path, raced>> /\ fileLogger' = [fileLogger EXCEPT ![a] = None]
  BY DEF FilesOK, FilesInv, CloseFile
<1>2. PICK P \in SUBSET Paths, S \in SUBSET Loggers :
          /\ \A l \in S : file[l] # "none" => path[l] \in P
          /\ file' = FileClosed(S) /\ closedOn' = closedOn \cup P
  <2>1. CASE fileLogger[a] = None
    <3>1. file' = FileClosed({}) /\ closedOn' = closedOn \cup {}
      BY <1>1, <2>1 DEF CloseFile, FileClosed, FilesTyped
    <3>2. {} \in SUBSET Paths /\ {} \in SUBSET Loggers
      OBVIOUS
    <3>3. QED
      BY <3>1, <3>2
  <2>2. CASE fileLogger[a] # None
    <3>1. PICK l \in Loggers : l = fileLogger[a] /\ l # None
      BY <1>1, <2>2 DEF FilesTyped
    <3>2. file' = FileClosed({l}) /\ closedOn' = closedOn \cup {path[l]}
      BY <2>2, <3>1 DEF CloseFile
    <3>3. path[l] \in Paths
      BY <1>1, <3>1 DEF ReceiverOK, LoggerOK
    <3>4. {path[l]} \in SUBSET Paths /\ {l} \in SUBSET Loggers
      BY <3>3
    <3>5. QED
      BY <3>2, <3>4
  <2>3. QED
    BY <2>1, <2>2
<1>3. /\ fileLogger' \in [Adapters -> Loggers \cup {None}]
      /\ \A b \in Adapters : fileLogger'[b] \in {fileLogger[b], None}
  BY <1>1 DEF FilesTyped
<1>4. QED
  BY <1>1, <1>2, <1>3, ClosedFilesKeep DEF FilesTyped

-----------------------------------------------------------------------------
(* The adapters *)

(* The factory's part of the invariant rests as long as processors neither start nor, unless their
   adapter is being closed, end. *)
LEMMA FactoryRests ==
    ASSUME FactoryOK, DeliveryTyped, UNCHANGED <<adapters, closing, key>>,
           \A a \in Adapters : /\ at'[a] = "none" <=> at[a] = "none"
                               /\ Ending(a)' => a \in closing
                               /\ call'[a].last => at'[a] \notin {"none", "stopped"}
    PROVE  FactoryOK'
<1>1. /\ FactoryTyped /\ FactoryAgrees
      /\ \A a \in Adapters : /\ key[a] = None <=> at[a] = "none"
                             /\ a \in closing => key[a] # None
  BY DEF FactoryOK, FactoryInv
<1>2. \A k \in Key : adapters[k] # None => at'[adapters[k]] # "stopped"
  BY <1>1 DEF FactoryAgrees, FactoryTyped, Ending
<1>3. FactoryAgrees'
  BY <1>1, <1>2 DEF FactoryAgrees
<1>4. QED
  BY <1>1, <1>3 DEF FactoryOK, FactoryInv, FactoryTyped, Ending

(* A step leaves alone the delivery of every adapter whose queue, batch, place and call it does
   not change. *)
LEMMA DeliveryOfOthers ==
    ASSUME NEW a \in Adapters, DeliveryInv(a), queue'[a] = queue[a], batch'[a] = batch[a],
           at'[a] = at[a], call'[a] = call[a], key'[a] = key[a]
    PROVE  DeliveryInv(a)'
BY DEF DeliveryInv

(* A step that changes none of them leaves all deliveries alone. *)
LEMMA DeliveryRests ==
    ASSUME DeliveryOK, UNCHANGED <<world, key, delivery>> PROVE DeliveryOK'
BY DeliveryOfOthers DEF DeliveryOK, DeliveryTyped, delivery

(* A step of the processor of one adapter, or of a LogEvent. *)
LEMMA WorkKeeps ==
    ASSUME IInv, NEW a \in Adapters, at[a] # "none",
           UNCHANGED <<world, files, fileLogger, adapters, closing, key>>,
           \A b \in Adapters \ {a} : /\ queue'[b] = queue[b] /\ batch'[b] = batch[b]
                                     /\ at'[b] = at[b] /\ call'[b] = call[b],
           DeliveryTyped', DeliveryInv(a)', at'[a] # "none",
           Ending(a)' => a \in closing, call'[a].last => at'[a] # "stopped"
    PROVE  IInv'
<1>1. FilesOK /\ FactoryOK /\ DeliveryOK
  BY DEF IInv
<1>2. FilesOK'
  BY <1>1, FilesRest
<1>3. FactoryOK'
  <2>1. \A b \in Adapters : /\ at'[b] = "none" <=> at[b] = "none"
                            /\ Ending(b)' => b \in closing
                            /\ call'[b].last => at'[b] \notin {"none", "stopped"}
    BY <1>1 DEF FactoryOK, FactoryInv, Ending
  <2>2. QED
    BY <1>1, <2>1, FactoryRests DEF DeliveryOK
<1>4. \A b \in Adapters : DeliveryInv(b)'
  BY <1>1, DeliveryOfOthers DEF DeliveryOK
<1>5. QED
  BY <1>2, <1>3, <1>4 DEF IInv, DeliveryOK

(* An adapter that is not in a call has one with nothing in it. *)
LEMMA NoCallIs == NoCall \in Call /\ ~NoCall.last
BY DEF NoCall, Call

(* What is known of an adapter's own part of the state. *)
LEMMA AdapterIs ==
    ASSUME IInv, NEW a \in Adapters
    PROVE  /\ call[a] \in Call /\ batch[a] \in Seq(Kinds) /\ queue[a] \in Seq(Kinds)
           /\ at[a] \in Places /\ DeliveryInv(a)
           /\ key[a] = None <=> at[a] = "none"
           /\ Ending(a) => a \in closing
           /\ call[a].last => at[a] \notin {"none", "stopped"}
BY DEF IInv, DeliveryOK, DeliveryTyped, FactoryOK, FactoryInv

(* The end of flushBatchHTTP: the batch and the call are cleared, and the processor goes back to
   its select or stops. *)
LEMMA DoneKeeps ==
    ASSUME IInv, NEW a \in Adapters, at[a] # "none", Done(a),
           UNCHANGED <<world, files, fileLogger, adapters, closing, key, queue>>
    PROVE  IInv'
<1>1. /\ batch' = [batch EXCEPT ![a] = <<>>] /\ call' = [call EXCEPT ![a] = NoCall]
      /\ at' = [at EXCEPT ![a] = IF call[a].last THEN "stopped" ELSE "select"]
  BY DEF Done
<1>2. DeliveryTyped
  BY DEF IInv, DeliveryOK
<1>3. DeliveryTyped'
  BY <1>1, <1>2, NoCallIs DEF DeliveryTyped, Places
<1>4. /\ batch'[a] = <<>> /\ call'[a] = NoCall /\ at'[a] \in {"stopped", "select"}
      /\ at'[a] = "stopped" => call[a].last
      /\ \A b \in Adapters \ {a} : /\ batch'[b] = batch[b] /\ call'[b] = call[b]
                                    /\ at'[b] = at[b] /\ queue'[b] = queue[b]
  BY <1>1, <1>2 DEF DeliveryTyped
<1>5. DeliveryInv(a)'
  BY <1>4, AdapterIs, NoneIsNobody DEF DeliveryInv
<1>6. Ending(a)' => a \in closing
  BY <1>4, AdapterIs, NoCallIs DEF Ending
<1>7. QED
  BY <1>3, <1>4, <1>5, <1>6, NoCallIs, WorkKeeps

(* Only the place of the processor changes. *)
LEMMA PlaceKeeps ==
    ASSUME IInv, NEW a \in Adapters, at[a] # "none", NEW p \in Places \ {"none", "select", "wait"},
           at' = [at EXCEPT ![a] = p],
           p = "stopped" => a \in closing /\ ~call[a].last /\ batch[a] = <<>>,
           p = "refused" => \E n \in 1..Len(batch[a]) : batch[a][n] # "user",
           UNCHANGED <<world, files, fileLogger, adapters, closing, key, queue, batch, call>>
    PROVE  IInv'
<1>1. DeliveryTyped
  BY DEF IInv, DeliveryOK
<1>2. DeliveryTyped' /\ at'[a] = p /\ \A b \in Adapters \ {a} : at'[b] = at[b]
  BY <1>1 DEF DeliveryTyped
<1>3. DeliveryInv(a)'
  BY <1>2, AdapterIs DEF DeliveryInv
<1>4. Ending(a)' => a \in closing
  BY <1>2, AdapterIs DEF Ending
<1>5. QED
  BY <1>2, <1>3, <1>4, WorkKeeps

(* A call stays one when one of its fields gets another value of its type. *)
LEMMA CallChanges ==
    ASSUME NEW c \in Call
    PROVE  /\ \A n \in 0..3 : [c EXCEPT !.attempt = n] \in Call
           /\ \A n \in 0..50 : [c EXCEPT !.elapsed = n] \in Call
           /\ \A n \in Nat : [c EXCEPT !.asked = n] \in Call
           /\ \A n \in 0..150 : [c EXCEPT !.delay = n] \in Call
           /\ \A b \in BOOLEAN : [c EXCEPT !.unread = b] \in Call
           /\ \A b \in BOOLEAN : [c EXCEPT !.last = b] \in Call
<1>1. ASSUME NEW n \in 0..3 PROVE [c EXCEPT !.attempt = n] \in Call
  BY DEF Call
<1>2. ASSUME NEW n \in 0..50 PROVE [c EXCEPT !.elapsed = n] \in Call
  BY DEF Call
<1>3. ASSUME NEW n \in Nat PROVE [c EXCEPT !.asked = n] \in Call
  BY DEF Call
<1>4. ASSUME NEW n \in 0..150 PROVE [c EXCEPT !.delay = n] \in Call
  BY DEF Call
<1>5. ASSUME NEW b \in BOOLEAN PROVE [c EXCEPT !.unread = b] \in Call
  BY DEF Call
<1>6. ASSUME NEW b \in BOOLEAN PROVE [c EXCEPT !.last = b] \in Call
  BY DEF Call
<1>7. QED
  BY <1>1, <1>2, <1>3, <1>4, <1>5, <1>6

(* The last flush of an adapter that is being closed begins, or it has nothing to flush. *)
LEMMA StartLastKeeps ==
    ASSUME IInv, NEW a \in Adapters, StartLast(a) PROVE IInv'
<1>1. /\ a \in closing /\ Waited = {} /\ at[a] = "select"
      /\ UNCHANGED <<world, files, adapters, closing, key, fileLogger, queue, batch>>
  BY DEF StartLast
<1>2. ~call[a].last
  BY <1>1 DEF Waited
<1>3. CASE batch[a] = <<>> \/ ~key[a].http
  <2>1. at' = [at EXCEPT ![a] = "stopped"] /\ call' = call
    BY <1>3 DEF StartLast
  <2>2. batch[a] = <<>>
    BY <1>1, <1>3, AdapterIs DEF DeliveryInv
  <2>3. "stopped" \in Places \ {"none", "select", "wait"}
    BY DEF Places
  <2>4. QED
    BY <1>1, <1>2, <2>1, <2>2, <2>3, PlaceKeeps
<1>4. CASE ~(batch[a] = <<>> \/ ~key[a].http)
  <2>1. at' = [at EXCEPT ![a] = "flush"] /\ call' = [call EXCEPT ![a].last = TRUE]
    BY <1>4 DEF StartLast
  <2>2. DeliveryTyped
    BY DEF IInv, DeliveryOK
  <2>3. [call[a] EXCEPT !.last = TRUE] \in Call
    <3>1. PICK c \in Call : c = call[a]
      BY AdapterIs
    <3>2. [c EXCEPT !.last = TRUE] \in Call
      BY CallChanges
    <3>3. QED
      BY <3>1, <3>2
  <2>4. call' \in [Adapters -> Call] /\ \A b \in Adapters \ {a} : call'[b] = call[b]
    BY <2>1, <2>2, <2>3 DEF DeliveryTyped
  <2>5. at' \in [Adapters -> Places] /\ at'[a] = "flush" /\ \A b \in Adapters \ {a} : at'[b] = at[b]
    BY <2>1, <2>2 DEF DeliveryTyped, Places
  <2>6. DeliveryTyped'
    BY <1>1, <2>2, <2>4, <2>5 DEF DeliveryTyped
  <2>7. DeliveryInv(a)'
    BY <1>1, <2>5, AdapterIs DEF DeliveryInv
  <2>8. QED
    BY <1>1, <2>4, <2>5, <2>6, <2>7, WorkKeeps
<1>5. QED
  BY <1>3, <1>4

(* LogEvent adds to a queue that has room. *)
LEMMA LogEventKeeps ==
    ASSUME IInv, NEW a \in Adapters, NEW kind \in world.kinds, LogEvent(a, kind) PROVE IInv'
<1>1. /\ at[a] # "none" /\ Len(queue[a]) < QueueSize
      /\ queue' = [queue EXCEPT ![a] = Append(@, kind)]
      /\ UNCHANGED <<world, files, adapters, closing, key, fileLogger, batch, at, call>>
  BY DEF LogEvent
<1>2. DeliveryTyped /\ kind \in Kinds
  BY ReceiversAssumption DEF IInv, DeliveryOK, DeliveryTyped
<1>3. PICK q \in Seq(Kinds) : q = Append(queue[a], kind) /\ Len(q) = Len(queue[a]) + 1
  <2>1. PICK r \in Seq(Kinds) : r = queue[a]
    BY AdapterIs
  <2>2. Append(r, kind) \in Seq(Kinds) /\ Len(Append(r, kind)) = Len(r) + 1
    BY <1>2, AppendProperties
  <2>3. QED
    BY <2>1, <2>2
<1>4. /\ queue' \in [Adapters -> Seq(Kinds)] /\ queue'[a] = q
      /\ \A b \in Adapters \ {a} : queue'[b] = queue[b]
  BY <1>1, <1>2, <1>3 DEF DeliveryTyped
<1>5. DeliveryTyped'
  BY <1>1, <1>2, <1>4 DEF DeliveryTyped
<1>6. DeliveryInv(a)'
  <2>1. Len(q) <= QueueSize
    BY <1>1, <1>3, AdapterIs, NoneIsNobody
  <2>2. QED
    BY <1>1, <1>4, <2>1, AdapterIs DEF DeliveryInv
<1>7. QED
  BY <1>1, <1>4, <1>5, <1>6, AdapterIs, WorkKeeps DEF Ending

(* The processor takes an event, and flushes the batch the moment it is full. *)
LEMMA TakeKeeps ==
    ASSUME IInv, NEW a \in Adapters, Take(a) PROVE IInv'
<1>1. /\ at[a] = "select" /\ queue[a] # <<>> /\ queue' = [queue EXCEPT ![a] = Tail(@)]
      /\ UNCHANGED <<world, files, adapters, closing, key, fileLogger, call>>
  BY DEF Take
<1>2. DeliveryTyped
  BY DEF IInv, DeliveryOK
<1>3. PICK q \in Seq(Kinds), kind \in Kinds :
          q = Tail(queue[a]) /\ Len(q) = Len(queue[a]) - 1 /\ kind = Head(queue[a])
  BY <1>1, AdapterIs, HeadTailProperties
<1>4. /\ queue' \in [Adapters -> Seq(Kinds)] /\ queue'[a] = q
      /\ \A b \in Adapters \ {a} : queue'[b] = queue[b]
  BY <1>1, <1>2, <1>3 DEF DeliveryTyped
<1>5. Len(queue'[a]) <= QueueSize
  BY <1>3, <1>4, AdapterIs, NoneIsNobody DEF DeliveryInv
<1>6. CASE ~key[a].http
  <2>1. UNCHANGED <<batch, at>>
    BY <1>6 DEF Take
  <2>2. DeliveryTyped' /\ DeliveryInv(a)'
    BY <1>1, <1>2, <1>4, <1>5, <2>1, AdapterIs DEF DeliveryTyped, DeliveryInv
  <2>3. QED
    BY <1>1, <1>4, <2>1, <2>2, AdapterIs, WorkKeeps DEF Ending
<1>7. CASE key[a].http
  <2>1. /\ batch' = [batch EXCEPT ![a] = Append(@, kind)]
        /\ at' = [at EXCEPT ![a] = IF Len(batch[a]) + 1 >= MaxBatchSize THEN "flush" ELSE @]
    BY <1>3, <1>7 DEF Take
  <2>2. PICK s \in Seq(Kinds) : s = Append(batch[a], kind) /\ Len(s) = Len(batch[a]) + 1
    <3>1. PICK r \in Seq(Kinds) : r = batch[a]
      BY AdapterIs
    <3>2. Append(r, kind) \in Seq(Kinds) /\ Len(Append(r, kind)) = Len(r) + 1
      BY AppendProperties
    <3>3. QED
      BY <3>1, <3>2
  <2>3. /\ batch' \in [Adapters -> Seq(Kinds)] /\ batch'[a] = s
        /\ \A b \in Adapters \ {a} : batch'[b] = batch[b]
    BY <1>2, <2>1, <2>2 DEF DeliveryTyped
  <2>4. /\ at' \in [Adapters -> Places] /\ at'[a] \in {"select", "flush"}
        /\ at'[a] = "select" => Len(s) < MaxBatchSize
        /\ \A b \in Adapters \ {a} : at'[b] = at[b]
    BY <1>1, <1>2, <2>1, <2>2, NoneIsNobody, AdapterIs DEF DeliveryTyped, Places
  <2>5. Len(s) <= MaxBatchSize
    BY <1>1, <2>2, AdapterIs, NoneIsNobody DEF DeliveryInv
  <2>6. DeliveryTyped' /\ DeliveryInv(a)'
    BY <1>1, <1>2, <1>4, <1>5, <1>7, <2>3, <2>4, <2>5 DEF DeliveryTyped, DeliveryInv
  <2>7. QED
    BY <1>1, <1>4, <2>3, <2>4, <2>6, AdapterIs, WorkKeeps DEF Ending
<1>8. QED
  BY <1>6, <1>7

(* The processor's ticker flushes a batch that is not empty. *)
LEMMA TimerKeeps ==
    ASSUME IInv, NEW a \in Adapters, Timer(a) PROVE IInv'
<1>1. /\ at[a] = "select" /\ at' = [at EXCEPT ![a] = "flush"]
      /\ UNCHANGED <<world, files, adapters, closing, key, fileLogger, queue, batch, call>>
  BY DEF Timer
<1>2. "flush" \in Places \ {"none", "select", "wait"}
  BY DEF Places
<1>3. QED
  BY <1>1, <1>2, PlaceKeeps

(* BatchCreateAuditEvents refuses a batch for one of its events: its length fits. *)
LEMMA BatchCreateKeeps ==
    ASSUME IInv, NEW a \in Adapters, BatchCreateAuditEvents(a) PROVE IInv'
<1>1. PICK p \in {"post", "refused"} :
          at' = [at EXCEPT ![a] = p] /\ (p = "refused" => ~Valid(batch[a]))
  BY DEF BatchCreateAuditEvents
<1>2. /\ at[a] = "flush"
      /\ UNCHANGED <<world, files, adapters, closing, key, fileLogger, queue, batch, call>>
  BY DEF BatchCreateAuditEvents
<1>3. p \in Places \ {"none", "select", "wait"}
  BY DEF Places
<1>4. p = "refused" => \E n \in 1..Len(batch[a]) : batch[a][n] # "user"
  BY <1>1, AdapterIs DEF Valid, DeliveryInv
<1>5. QED
  BY <1>1, <1>2, <1>3, <1>4, PlaceKeeps

(* A refused batch ends its call. *)
LEMMA RefusedKeeps ==
    ASSUME IInv, NEW a \in Adapters, Refused(a) PROVE IInv'
BY DoneKeeps DEF Refused

(* A post that the deadline cuts off ends its call. *)
LEMMA SendTimesOutKeeps ==
    ASSUME IInv, NEW a \in Adapters, SendTimesOut(a) PROVE IInv'
BY DoneKeeps DEF SendTimesOut

(* A wait that the deadline cuts off ends its call. *)
LEMMA WaitCancelledKeeps ==
    ASSUME IInv, NEW a \in Adapters, WaitCancelled(a) PROVE IInv'
BY DoneKeeps DEF WaitCancelled

(* A step of the running call: the place and the call of one adapter change. *)
LEMMA CallKeeps ==
    ASSUME IInv, NEW a \in Adapters, at[a] \in {"post", "wait"}, NEW p \in {"post", "wait"},
           NEW c \in Call, at' = [at EXCEPT ![a] = p], call' = [call EXCEPT ![a] = c],
           c.last = call[a].last,
           p = "wait" => LongEnough(c.delay, c.asked, c.unread),
           UNCHANGED <<world, files, fileLogger, adapters, closing, key, queue, batch>>
    PROVE  IInv'
<1>1. DeliveryTyped
  BY DEF IInv, DeliveryOK
<1>2. p \in Places
  BY DEF Places
<1>3. DeliveryTyped'
  BY <1>1, <1>2 DEF DeliveryTyped
<1>4. /\ at'[a] = p /\ call'[a] = c
      /\ \A b \in Adapters \ {a} : at'[b] = at[b] /\ call'[b] = call[b]
  BY <1>1 DEF DeliveryTyped
<1>5. DeliveryInv(a)'
  BY <1>4, AdapterIs DEF DeliveryInv
<1>6. Ending(a)' => a \in closing
  BY <1>4, AdapterIs DEF Ending
<1>7. QED
  BY <1>3, <1>4, <1>5, <1>6, WorkKeeps

(* What NextAttempt makes of a call. *)
LEMMA CallGoesOn ==
    ASSUME NEW c \in Call, NEW e \in 0..50
    PROVE  LET r == [[[c EXCEPT !.elapsed = e] EXCEPT !.delay = 0] EXCEPT !.asked = 0]
           IN  r \in Call /\ r.last = c.last
<1>1. PICK z \in 0..150 : z = 0 /\ z \in Nat
  OBVIOUS
<1>2. [[[c EXCEPT !.elapsed = e] EXCEPT !.delay = z] EXCEPT !.asked = z] \in Call
  BY <1>1, CallChanges
<1>3. [[[c EXCEPT !.elapsed = e] EXCEPT !.delay = z] EXCEPT !.asked = z].last = c.last
  BY DEF Call
<1>4. QED
  BY <1>1, <1>2, <1>3

(* The next attempt begins before the deadline. *)
LEMMA NextAttemptKeeps ==
    ASSUME IInv, NEW a \in Adapters, NextAttempt(a) PROVE IInv'
<1>1. PICK c \in Call : c = call[a]
  BY AdapterIs
<1>2. PICK e : e = c.elapsed + c.delay
  OBVIOUS
<1>3. /\ at[a] = "wait" /\ at' = [at EXCEPT ![a] = "post"]
      /\ UNCHANGED <<world, files, adapters, closing, key, fileLogger, queue, batch>>
  BY DEF NextAttempt
<1>4. e \in 0..50
  <2>1. c.elapsed \in 0..50 /\ c.delay \in 0..150
    BY DEF Call
  <2>2. c.elapsed + c.delay <= 50
    <3>1. call[a].elapsed + call[a].delay <= Deadline
      BY DEF NextAttempt
    <3>2. Deadline = 50
      BY DEF Deadline, Second
    <3>3. QED
      BY <1>1, <3>1, <3>2
  <2>3. QED
    BY <1>2, <2>1, <2>2
<1>5. call' = [call EXCEPT ![a].elapsed = e, ![a].delay = 0, ![a].asked = 0]
  BY <1>1, <1>2 DEF NextAttempt
<1>6. call' = [call EXCEPT ![a] =
                 [[[c EXCEPT !.elapsed = e] EXCEPT !.delay = 0] EXCEPT !.asked = 0]]
  BY <1>1, <1>5
<1> DEFINE d == [[[c EXCEPT !.elapsed = e] EXCEPT !.delay = 0] EXCEPT !.asked = 0]
<1>7. d \in Call /\ d.last = c.last
  BY <1>4, CallGoesOn
<1>8. call' = [call EXCEPT ![a] = d]
  BY <1>6
<1>9. QED
  <2> HIDE DEF d
  <2>1. QED
    BY <1>1, <1>3, <1>7, <1>8, CallKeeps

(* The wait is at most MaxDelay; when it is less, it is at least four fifths of what was asked for,
   if the client knows of it: the exponent only lengthens it, and the jitter takes one fifth at
   most (ShouldRetry). *)
LEMMA DelayIs ==
    ASSUME NEW reply, NEW header \in Nat \cup {None}, NEW attempt \in 0..2, NEW jitter \in {4, 6},
           header # None => reply.status = 429,
           NEW k, k = Asked(header), NEW d, d = Delay(reply, header, attempt, jitter)
    PROVE  k \in Nat /\ d \in 0..150 /\ LongEnough(d, k, Unread(reply))
<1>1. k = Asked(header)
  OBVIOUS
<1>2. d = Delay(reply, header, attempt, jitter)
  OBVIOUS
<1>3. PICK n : n = 2^attempt
  OBVIOUS
<1>4. n \in {1, 2, 4}
  <2>1. CASE attempt = 0
    BY <1>3, <2>1
  <2>2. CASE attempt = 1
    BY <1>3, <2>2
  <2>3. CASE attempt = 2
    <3>1. 2^2 = 4
      OBVIOUS
    <3>2. QED
      BY <1>3, <2>3, <3>1
  <2>4. QED
    BY <2>1, <2>2, <2>3
<1> DEFINE known == ~Unread(reply) /\ k <= LongestAsked * Second
<1>5. PICK h \in Nat : d = Smaller((h * 5 * n * jitter) \div 5, 150) /\ (known => k \in {0, h * 5})
  <2>1. CASE reply.type = "rate_limit" /\ Usable(header)
    <3>1. header \in Nat
      BY <2>1 DEF Usable
    <3>2. k = header * 5
      BY <1>1, <2>1 DEF Asked, Usable, Second
    <3>3. d = Smaller((header * 5 * n * jitter) \div 5, 150)
      BY <1>2, <1>3, <2>1 DEF Delay, Second, MaxDelay
    <3>4. QED
      BY <3>1, <3>2, <3>3
  <2>2. CASE ~(reply.type = "rate_limit" /\ Usable(header))
    <3>1. known => k = 0
      <4>1. CASE header = None
        BY <1>1, <4>1 DEF Asked
      <4>2. CASE header # None
        <5>1. header \in Nat /\ reply.status = 429
          BY <4>2
        <5>2. ErrorType(429) = "rate_limit"
          BY DEF ErrorType
        <5>3. ~Unread(reply) => header > 86400
          BY <2>2, <4>2, <5>1, <5>2 DEF Unread, Usable, LongestAsked
        <5>4. k = header * 5
          BY <1>1, <4>2 DEF Asked, Second
        <5>5. QED
          BY <5>1, <5>3, <5>4 DEF LongestAsked, Second
      <4>3. QED
        BY <4>1, <4>2
    <3>2. d = Smaller((5 * n * jitter) \div 5, 150)
      BY <1>2, <1>3, <2>2 DEF Delay, RetryDelay, Second, MaxDelay
    <3>3. d = Smaller((1 * 5 * n * jitter) \div 5, 150)
      BY <3>2
    <3>4. QED
      BY <3>1, <3>3
  <2>3. QED
    BY <2>1, <2>2
<1>6. PICK m \in Nat : d = Smaller(m, 150) /\ m >= 4 * h
  <2>1. PICK m \in Nat : m * 5 = h * 5 * n * jitter /\ m >= 4 * h
    <3>1. ASSUME NEW x \in {1, 2, 4}, NEW y \in {4, 6}
          PROVE  /\ h * x * y \in Nat /\ h * x * y >= 4 * h
                 /\ (h * x * y) * 5 = h * 5 * x * y
      OBVIOUS
    <3>2. QED
      BY <1>4, <3>1
  <2>2. \A z \in Nat : (z * 5) \div 5 = z
    OBVIOUS
  <2>3. QED
    BY <1>5, <2>1, <2>2
<1>7. d \in 0..150 /\ (d = 150 \/ d = m)
  BY <1>6 DEF Smaller
<1>8. k \in Nat
  BY <1>1, NoneIsNobody DEF Asked, Second
<1>9. known => d = 150 \/ 5 * d >= 4 * k
  <2>1. known => 4 * k <= 5 * (4 * h)
    BY <1>5
  <2>2. QED
    BY <1>6, <1>7, <1>8, <2>1
<1>10. known \/ Unread(reply) \/ k > LongestAsked * Second
  BY <1>8 DEF LongestAsked, Second
<1>11. QED
  <2> HIDE DEF known
  <2>1. QED
    BY <1>7, <1>8, <1>9, <1>10 DEF LongEnough, MaxDelay, Second

(* What SendRequest makes of the call when the answer asks for another post; and the same, said
   with the values that come out. *)
Answered(f, a, reply, time, header, jitter) ==
    [f EXCEPT
        ![a].attempt = @ + 1,
        ![a].elapsed = @ + time,
        ![a].asked = Asked(header),
        ![a].delay = Delay(reply, header, f[a].attempt, jitter),
        ![a].unread = Unread(reply)]
Waiting(f, a, n, e, k, d, z) ==
    [f EXCEPT ![a].attempt = n, ![a].elapsed = e, ![a].asked = k, ![a].delay = d,
              ![a].unread = z]

(* An answer that asks for another post makes of the call one that has an attempt and time left and
   waits long enough. *)
LEMMA WaitingIs ==
    ASSUME IInv, NEW a \in Adapters, NEW reply \in Reply, NEW time \in world.times,
           SendRequest(a, reply, time), reply.type # "none", ShouldRetry(reply, call[a].attempt)
    PROVE  \E n \in 0..3, e \in 0..50, k \in Nat, d \in 0..150, z \in BOOLEAN :
               LongEnough(d, k, z) /\ call' = Waiting(call, a, n, e, k, d, z)
<1>1. PICK c \in Call : c = call[a]
  BY AdapterIs
<1>2. PICK header, jitter :
          /\ header \in world.headers \cup {None} /\ jitter \in {4, 6}
          /\ header # None => reply.status = 429
          /\ call' = Answered(call, a, reply, time, header, jitter)
  <2>1. PICK H : H = IF reply.status = 429 THEN world.headers ELSE {None}
    OBVIOUS
  <2>2. H \subseteq world.headers \cup {None} /\ \A header \in H : header # None => reply.status = 429
    BY <2>1
  <2>3. \E header \in H, jitter \in {4, 6} : call' = Answered(call, a, reply, time, header, jitter)
    BY <2>1, Zenon DEF SendRequest, Answered
  <2>4. QED
    BY <2>2, <2>3
<1>3. world \in Worlds /\ time \in Nat /\ header \in Nat \cup {None}
  <2>1. world \in Worlds
    BY DEF IInv, DeliveryOK, DeliveryTyped
  <2>2. QED
    BY <1>2, <2>1, ReceiversAssumption
<1>4. c.attempt \in 0..2
  <2>1. c.attempt \in 0..3
    BY DEF Call
  <2>2. c.attempt < 3
    BY <1>1 DEF ShouldRetry, MaxRetries
  <2>3. QED
    BY <2>1, <2>2
<1>5. c.attempt + 1 \in 0..3
  BY <1>4
<1>6. c.elapsed + time \in 0..50
  <2>1. c.elapsed \in 0..50
    BY DEF Call
  <2>2. Deadline = 50
    BY DEF Deadline, Second
  <2>3. call[a].elapsed + time < Deadline
    BY DEF SendRequest
  <2>4. QED
    BY <1>1, <1>3, <2>1, <2>2, <2>3
<1>7. PICK k, d, z :
          k = Asked(header) /\ d = Delay(reply, header, c.attempt, jitter) /\ z = Unread(reply)
  OBVIOUS
<1>8. k \in Nat /\ d \in 0..150 /\ LongEnough(d, k, z)
  BY <1>2, <1>3, <1>4, <1>7, DelayIs
<1>9. z \in BOOLEAN
  BY <1>7 DEF Unread
<1>10. call' = [call EXCEPT ![a].attempt = c.attempt + 1, ![a].elapsed = c.elapsed + time,
                            ![a].asked = k, ![a].delay = d, ![a].unread = z]
  BY <1>1, <1>2, <1>7 DEF Answered
<1>11. call' = Waiting(call, a, c.attempt + 1, c.elapsed + time, k, d, z)
  BY <1>10 DEF Waiting
<1>12. QED
  BY <1>5, <1>6, <1>8, <1>9, <1>11

(* The wait such an answer leads to. *)
LEMMA CallWaits ==
    ASSUME IInv, NEW a \in Adapters, at[a] = "post", NEW n \in 0..3, NEW e \in 0..50,
           NEW k \in Nat, NEW d \in 0..150, NEW z \in BOOLEAN,
           LongEnough(d, k, z),
           at' = [at EXCEPT ![a] = "wait"], call' = Waiting(call, a, n, e, k, d, z),
           UNCHANGED <<world, files, fileLogger, adapters, closing, key, queue, batch>>
    PROVE  IInv'
<1>1. PICK c \in Call : c = call[a]
  BY AdapterIs
<1> DEFINE r == [[[[[c EXCEPT !.attempt = n] EXCEPT !.elapsed = e] EXCEPT !.asked = k]
                   EXCEPT !.delay = d] EXCEPT !.unread = z]
<1>2. call' = [call EXCEPT ![a] =
                 [[[[[@ EXCEPT !.attempt = n] EXCEPT !.elapsed = e] EXCEPT !.asked = k]
                    EXCEPT !.delay = d] EXCEPT !.unread = z]]
  BY DEF Waiting
<1>3. call' = [call EXCEPT ![a] = r]
  BY <1>1, <1>2
<1>4. r \in Call
  BY CallChanges
<1>5. r.last = c.last /\ r.delay = d /\ r.asked = k /\ r.unread = z
  BY DEF Call
<1>6. QED
  <2> HIDE DEF r
  <2>1. QED
    BY <1>1, <1>3, <1>4, <1>5, CallKeeps

(* An answer that asks for another post leads to a wait; any other ends the call. *)
LEMMA SendRequestKeeps ==
    ASSUME IInv, NEW a \in Adapters, NEW reply \in Reply, NEW time \in world.times,
           SendRequest(a, reply, time)
    PROVE  IInv'
<1>1. /\ at[a] = "post" /\ call[a].elapsed + time < Deadline
      /\ UNCHANGED <<world, files, adapters, closing, key, fileLogger, queue>>
  BY DEF SendRequest
<1>2. CASE reply.type # "none" /\ ShouldRetry(reply, call[a].attempt)
  <2>1. PICK n \in 0..3, e \in 0..50, k \in Nat, d \in 0..150, z \in BOOLEAN :
            LongEnough(d, k, z) /\ call' = Waiting(call, a, n, e, k, d, z)
    BY <1>2, WaitingIs
  <2>2. at' = [at EXCEPT ![a] = "wait"] /\ batch' = batch
    BY <1>2 DEF SendRequest
  <2>3. QED
    BY <1>1, <2>1, <2>2, CallWaits
<1>3. CASE ~(reply.type # "none" /\ ShouldRetry(reply, call[a].attempt))
  <2>1. Done(a)
    BY <1>3 DEF SendRequest
  <2>2. QED
    BY <1>1, <2>1, DoneKeeps
<1>4. QED
  BY <1>2, <1>3

(* Every step of a call of BatchCreateAuditEvents keeps the invariant. *)
LEMMA WorkStepsKeep ==
    ASSUME IInv, NEW a \in Adapters, Work(a) PROVE IInv'
BY BatchCreateKeeps, RefusedKeeps, SendTimesOutKeeps, NextAttemptKeeps, WaitCancelledKeeps,
   SendRequestKeeps DEF Work

-----------------------------------------------------------------------------
(* The factory *)

(* A step that only touches files leaves the factory and the deliveries alone. *)
LEMMA OnlyFiles ==
    ASSUME IInv, FilesOK', UNCHANGED <<world, adapters, closing, key, delivery>> PROVE IInv'
<1>1. FactoryOK'
  <2>1. UNCHANGED <<at, call>> /\ FactoryOK
    BY DEF delivery, IInv
  <2>2. QED
    BY <2>1 DEF FactoryOK, FactoryTyped, FactoryInv, FactoryAgrees, Ending
<1>2. DeliveryOK'
  BY DeliveryRests DEF IInv
<1>3. QED
  BY <1>1, <1>2 DEF IInv

(* The configurations of a world are keys of the factory. *)
LEMMA KeyIs ==
    ASSUME IInv, NEW k \in world.keys PROVE k \in Key /\ k.path \in Paths \cup {None}
<1>1. world \in Worlds
  BY DEF IInv, DeliveryOK, DeliveryTyped
<1>2. k \in Key
  BY <1>1, ReceiversAssumption
<1>3. QED
  BY <1>2 DEF Key

(* What is known of the factory's part of the state. *)
LEMMA FactoryIs ==
    ASSUME IInv
    PROVE  /\ adapters \in [Key -> Adapters \cup {None}] /\ closing \subseteq Adapters
           /\ key \in [Adapters -> Key \cup {None}] /\ at \in [Adapters -> Places]
           /\ FactoryAgrees
BY DEF IInv, FactoryOK, FactoryTyped, FactoryInv, DeliveryOK, DeliveryTyped

(* GetOrCreateAdapter makes an adapter that nobody has, with an empty batch, for a key without
   one. *)
LEMMA GetOrCreateAdapterKeeps ==
    ASSUME IInv, NEW k \in world.keys, NEW a \in Adapters, NEW l \in Loggers \cup {None},
           GetOrCreateAdapter(k, a, l)
    PROVE  IInv'
<1>1. /\ closing = {} /\ adapters[k] = None /\ key[a] = None
      /\ adapters' = [adapters EXCEPT ![k] = a] /\ key' = [key EXCEPT ![a] = k]
      /\ fileLogger' = [fileLogger EXCEPT ![a] = l] /\ at' = [at EXCEPT ![a] = "select"]
      /\ UNCHANGED <<world, closing, queue, batch, call>>
  BY DEF GetOrCreateAdapter, FactoryFree
<1>2. k \in Key /\ k # None /\ a # None
  BY KeyIs, NoneIsNobody
<1>3. FilesOK /\ FilesTyped
  BY DEF IInv, FilesOK
<1>4. /\ fileLogger' \in [Adapters -> Loggers \cup {None}]
      /\ \A b \in Adapters : fileLogger'[b] = fileLogger[b] \/ fileLogger'[b] = l
  BY <1>1, <1>3 DEF FilesTyped
<1>5. FilesOK'
  <2>1. CASE k.path = None
    <3>1. l = None /\ UNCHANGED files
      BY <2>1 DEF GetOrCreateAdapter
    <3>2. \A b \in Adapters : ReceiverOK(b)'
      BY <1>3, <1>4, <3>1 DEF FilesOK, FilesInv, ReceiverOK, files
    <3>3. QED
      BY <1>3, <1>4, <3>1, <3>2
         DEF FilesOK, FilesTyped, FilesInv, LoggerOK, RegistryOK, SoleWriters, InUse, files
  <2>2. CASE k.path # None
    <3>1. k.path \in Paths /\ l \in Loggers /\ GetInstance(k.path, l)
      BY <2>2, KeyIs DEF GetOrCreateAdapter
    <3>2. QED
      BY <1>3, <1>4, <3>1, GetInstanceKeeps
  <2>3. QED
    BY <2>1, <2>2
<1>6. /\ adapters' \in [Key -> Adapters \cup {None}] /\ key' \in [Adapters -> Key \cup {None}]
      /\ at' \in [Adapters -> Places] /\ adapters'[k] = a /\ key'[a] = k /\ at'[a] = "select"
      /\ \A q \in Key \ {k} : adapters'[q] = adapters[q]
      /\ \A b \in Adapters \ {a} : key'[b] = key[b] /\ at'[b] = at[b]
  BY <1>1, <1>2, FactoryIs DEF Places
<1>7. \A q \in Key : adapters[q] # a
  BY <1>1, <1>2, FactoryIs, NoneIsNobody DEF FactoryAgrees
<1>8. FactoryAgrees'
  <2>1. ASSUME NEW q \in Key, adapters'[q] # None
        PROVE  LET b == adapters'[q] IN key'[b] = q /\ b \notin closing' /\ at'[b] # "stopped"
    <3>1. CASE q = k
      BY <1>1, <1>6, <3>1
    <3>2. CASE q # k
      <4>1. PICK b \in Adapters \ {a} : b = adapters'[q] /\ b = adapters[q]
        BY <1>6, <1>7, <2>1, <3>2, FactoryIs
      <4>2. key[b] = q /\ at[b] # "stopped"
        BY <2>1, <4>1, FactoryIs DEF FactoryAgrees
      <4>3. QED
        BY <1>1, <1>6, <4>1, <4>2
    <3>3. QED
      BY <3>1, <3>2
  <2>2. ASSUME NEW b \in Adapters, key'[b] # None
        PROVE  adapters'[key'[b]] = b \/ b \in closing'
    <3>1. CASE b = a
      BY <1>6, <3>1
    <3>2. CASE b # a
      <4>1. PICK q \in Key : q = key'[b] /\ q = key[b] /\ q # None
        BY <1>6, <2>2, <3>2
      <4>2. adapters[q] = b /\ b # None
        BY <1>1, <4>1, FactoryIs, NoneIsNobody DEF FactoryAgrees
      <4>3. QED
        BY <1>1, <1>6, <4>1, <4>2
    <3>3. QED
      BY <3>1, <3>2
  <2>3. QED
    BY <2>1, <2>2 DEF FactoryAgrees
<1>9. FactoryOK'
  <2>1. ~call[a].last
    BY <1>1, AdapterIs
  <2>2. \A b \in Adapters : /\ key'[b] = None <=> at'[b] = "none"
                            /\ Ending(b)' => b \in closing'
                            /\ b \in closing' => key'[b] # None
                            /\ call'[b].last => at'[b] \notin {"none", "stopped"}
    BY <1>1, <1>2, <1>6, <2>1, AdapterIs DEF Ending
  <2>3. QED
    BY <1>1, <1>6, <1>8, <2>2, FactoryIs DEF FactoryOK, FactoryTyped, FactoryInv
<1>10. DeliveryOK'
  <2>1. DeliveryTyped'
    BY <1>1, <1>6 DEF IInv, DeliveryOK, DeliveryTyped
  <2>2. ASSUME NEW b \in Adapters PROVE DeliveryInv(b)'
    <3>1. CASE b # a
      BY <1>1, <1>6, <3>1, AdapterIs, DeliveryOfOthers
    <3>2. CASE b = a
      <4>1. batch'[a] = <<>> /\ Len(queue'[a]) <= QueueSize
        BY <1>1, AdapterIs DEF DeliveryInv
      <4>2. QED
        BY <1>6, <3>2, <4>1, NoneIsNobody DEF DeliveryInv
    <3>3. QED
      BY <3>1, <3>2
  <2>3. QED
    BY <2>1, <2>2 DEF DeliveryOK
<1>11. QED
  BY <1>5, <1>9, <1>10 DEF IInv

(* A NewAdapter that fails leaves a logger behind that its path is registered with. *)
LEMMA NewAdapterFailsKeeps ==
    ASSUME IInv, NEW k \in world.keys, NEW l \in Loggers, NewAdapterFails(k, l) PROVE IInv'
<1>1. /\ k.path \in Paths /\ GetInstance(k.path, l)
      /\ UNCHANGED <<world, adapters, closing, key, fileLogger, delivery>>
  BY KeyIs DEF NewAdapterFails
<1>2. FilesOK'
  BY <1>1, GetInstanceKeeps DEF IInv, FilesOK, FilesTyped
<1>3. QED
  BY <1>1, <1>2, OnlyFiles

(* The adapters of some keys are taken from the map, to be closed. *)
LEMMA ClosingKeeps ==
    ASSUME IInv, closing = {}, NEW K \in SUBSET Key,
           closing' = {adapters[k] : k \in K} \ {None},
           adapters' \in [Key -> Adapters \cup {None}],
           \A k \in Key : adapters'[k] = IF k \in K THEN None ELSE adapters[k],
           UNCHANGED <<world, files, key, fileLogger, delivery>>
    PROVE  IInv'
<1>1. UNCHANGED <<queue, batch, at, call>>
  BY DEF delivery
<1>2. closing' \subseteq Adapters /\ \A b \in closing' : key[b] \in K
  BY FactoryIs DEF FactoryAgrees
<1>3. FactoryAgrees'
  <2>1. ASSUME NEW k \in Key, adapters'[k] # None
        PROVE  LET a == adapters'[k] IN key'[a] = k /\ a \notin closing' /\ at'[a] # "stopped"
    BY <1>1, <1>2, <2>1, FactoryIs DEF FactoryAgrees
  <2>2. ASSUME NEW a \in Adapters, key'[a] # None
        PROVE  adapters'[key'[a]] = a \/ a \in closing'
    BY <2>2, FactoryIs, NoneIsNobody DEF FactoryAgrees
  <2>3. QED
    BY <2>1, <2>2 DEF FactoryAgrees
<1>4. FactoryOK'
  <2>1. \A b \in Adapters : /\ key'[b] = None <=> at'[b] = "none"
                            /\ Ending(b)' => b \in closing'
                            /\ b \in closing' => key'[b] # None
                            /\ call'[b].last => at'[b] \notin {"none", "stopped"}
    BY <1>1, <1>2, AdapterIs, NoneIsNobody DEF Ending
  <2>2. QED
    BY <1>2, <1>3, <2>1, FactoryIs DEF FactoryOK, FactoryTyped, FactoryInv
<1>5. FilesOK' /\ DeliveryOK'
  BY FilesRest, DeliveryRests DEF IInv
<1>6. QED
  BY <1>4, <1>5 DEF IInv

(* CloseAdapter takes one adapter from the map. *)
LEMMA CloseAdapterKeepsInv ==
    ASSUME IInv, NEW k \in world.keys, CloseAdapter(k) PROVE IInv'
<1>1. PICK K \in SUBSET Key : K = {k}
  BY KeyIs
<1>2. /\ closing = {} /\ adapters[k] # None /\ closing' = {adapters[k]}
      /\ adapters' = [adapters EXCEPT ![k] = None]
      /\ UNCHANGED <<world, files, key, fileLogger, delivery>>
  BY DEF CloseAdapter, FactoryFree
<1>3. closing' = {adapters[q] : q \in K} \ {None}
  BY <1>1, <1>2
<1>4. /\ adapters' \in [Key -> Adapters \cup {None}]
      /\ \A q \in Key : adapters'[q] = IF q \in K THEN None ELSE adapters[q]
  BY <1>1, <1>2, FactoryIs
<1>5. QED
  BY <1>2, <1>3, <1>4, ClosingKeeps

(* CloseAll takes them all. *)
LEMMA CloseAllKeeps ==
    ASSUME IInv, CloseAll PROVE IInv'
<1>1. /\ adapters' \in [Key -> Adapters \cup {None}]
      /\ \A q \in Key : adapters'[q] = IF q \in Key THEN None ELSE adapters[q]
  BY DEF CloseAll
<1>2. Key \in SUBSET Key
  OBVIOUS
<1>3. QED
  BY <1>1, <1>2, ClosingKeeps DEF CloseAll, FactoryFree

(* An adapter whose processor has stopped is gone once its file is closed. *)
LEMMA CloseFileKeeps ==
    ASSUME IInv, NEW a \in Adapters, CloseFile(a) PROVE IInv'
<1>1. /\ at[a] = "stopped" /\ closing' = closing \ {a} /\ key' = [key EXCEPT ![a] = None]
      /\ queue' = [queue EXCEPT ![a] = <<>>] /\ at' = [at EXCEPT ![a] = "none"]
      /\ UNCHANGED <<world, adapters, batch, call>>
  BY DEF CloseFile
<1>2. /\ key' \in [Adapters -> Key \cup {None}] /\ at' \in [Adapters -> Places]
      /\ key'[a] = None /\ at'[a] = "none"
      /\ \A b \in Adapters \ {a} : key'[b] = key[b] /\ at'[b] = at[b]
  BY <1>1, FactoryIs DEF Places
<1>3. a \in closing /\ ~call[a].last /\ batch[a] = <<>>
  BY <1>1, AdapterIs DEF Ending, DeliveryInv
<1>4. \A k \in Key : adapters[k] # a
  BY <1>3, FactoryIs, NoneIsNobody DEF FactoryAgrees
<1>5. FactoryAgrees'
  <2>1. ASSUME NEW k \in Key, adapters'[k] # None
        PROVE  LET b == adapters'[k] IN key'[b] = k /\ b \notin closing' /\ at'[b] # "stopped"
    BY <1>1, <1>2, <1>4, <2>1, FactoryIs DEF FactoryAgrees
  <2>2. ASSUME NEW b \in Adapters, key'[b] # None
        PROVE  adapters'[key'[b]] = b \/ b \in closing'
    BY <1>1, <1>2, <2>2, FactoryIs DEF FactoryAgrees
  <2>3. QED
    BY <2>1, <2>2 DEF FactoryAgrees
<1>6. FactoryOK'
  <2>1. \A b \in Adapters : /\ key'[b] = None <=> at'[b] = "none"
                            /\ Ending(b)' => b \in closing'
                            /\ b \in closing' => key'[b] # None
                            /\ call'[b].last => at'[b] \notin {"none", "stopped"}
    <3>1. ASSUME NEW b \in Adapters, b \in closing PROVE key[b] # None
      BY <3>1 DEF IInv, FactoryOK, FactoryInv
    <3>2. QED
      BY <1>1, <1>2, <1>3, <3>1, AdapterIs DEF Ending
  <2>2. QED
    BY <1>1, <1>2, <1>5, <2>1, FactoryIs DEF FactoryOK, FactoryTyped, FactoryInv
<1>7. DeliveryOK'
  <2>1. queue' \in [Adapters -> Seq(Kinds)] /\ queue'[a] = <<>>
        /\ \A b \in Adapters \ {a} : queue'[b] = queue[b]
    BY <1>1 DEF IInv, DeliveryOK, DeliveryTyped
  <2>2. DeliveryTyped'
    BY <1>1, <1>2, <2>1 DEF IInv, DeliveryOK, DeliveryTyped
  <2>3. ASSUME NEW b \in Adapters PROVE DeliveryInv(b)'
    <3>1. CASE b # a
      BY <1>1, <1>2, <2>1, <3>1, AdapterIs, DeliveryOfOthers
    <3>2. CASE b = a
      BY <1>1, <1>2, <1>3, <2>1, <3>2, NoneIsNobody DEF DeliveryInv
    <3>3. QED
      BY <3>1, <3>2
  <2>4. QED
    BY <2>2, <2>3 DEF DeliveryOK
<1>8. FilesOK'
  BY CloseFileKeepsFiles DEF IInv
<1>9. QED
  BY <1>6, <1>7, <1>8 DEF IInv

-----------------------------------------------------------------------------
(* The theorems *)

(* Nothing is open or handed out at the start. *)
LEMMA InitIInv == Init => IInv
<1> SUFFICES ASSUME Init PROVE IInv
  OBVIOUS
<1>1. FilesOK
  BY NoneIsNobody DEF Init, FilesOK, FilesTyped, FilesInv, LoggerOK, RegistryOK, ReceiverOK,
     SoleWriters, InUse, File
<1>2. FactoryOK
  BY NoneIsNobody, NoCallIs DEF Init, FactoryOK, FactoryTyped, FactoryInv, FactoryAgrees, Ending
<1>3. DeliveryOK
  <2>1. DeliveryTyped
    BY NoCallIs DEF Init, DeliveryTyped, Places
  <2>2. QED
    BY <2>1, NoneIsNobody DEF Init, DeliveryOK, DeliveryInv
<1>4. QED
  BY <1>1, <1>2, <1>3 DEF IInv

(* Every step keeps the invariant. *)
LEMMA StepKeepsIInv ==
    ASSUME IInv, [Next]_vars PROVE IInv'
<1>1. ASSUME NEW p \in Paths, CloseInstance(p) PROVE IInv'
  <2>1. FilesOK' /\ UNCHANGED <<world, adapters, closing, key, delivery>>
    BY <1>1, CloseInstanceKeeps DEF IInv, CloseInstance
  <2>2. QED
    BY <2>1, OnlyFiles
<1>2. ASSUME ResetInstances PROVE IInv'
  <2>1. FilesOK' /\ UNCHANGED <<world, adapters, closing, key, delivery>>
    BY <1>2, ResetInstancesKeeps DEF IInv, ResetInstances
  <2>2. QED
    BY <2>1, OnlyFiles
<1>3. ASSUME NEW l \in Loggers, ReopenCloses(l) \/ ReopenOpens(l) \/ ReopenFails(l) PROVE IInv'
  <2>1. FilesOK' /\ UNCHANGED <<world, adapters, closing, key, delivery>>
    BY <1>3, ReopenKeeps DEF IInv, ReopenCloses, ReopenOpens, ReopenFails
  <2>2. QED
    BY <2>1, OnlyFiles
<1>4. ASSUME NEW k \in world.keys,
             \/ \E a \in Adapters, l \in Loggers \cup {None} : GetOrCreateAdapter(k, a, l)
             \/ \E l \in Loggers : NewAdapterFails(k, l)
             \/ CloseAdapter(k)
      PROVE  IInv'
  BY <1>4, GetOrCreateAdapterKeeps, NewAdapterFailsKeeps, CloseAdapterKeepsInv
<1>5. ASSUME CloseAll PROVE IInv'
  BY <1>5, CloseAllKeeps
<1>6. ASSUME NEW a \in Adapters,
             \/ StartLast(a) \/ CloseFile(a) \/ Take(a) \/ Timer(a) \/ Work(a)
             \/ \E kind \in world.kinds : LogEvent(a, kind)
      PROVE  IInv'
  BY <1>6, StartLastKeeps, CloseFileKeeps, TakeKeeps, TimerKeeps, WorkStepsKeep, LogEventKeeps
<1>7. ASSUME UNCHANGED vars PROVE IInv'
  <2>1. UNCHANGED <<world, adapters, closing, key, delivery>> /\ UNCHANGED <<files, fileLogger>>
    BY <1>7 DEF vars
  <2>2. FilesOK'
    BY <2>1, FilesRest DEF IInv
  <2>3. QED
    BY <2>1, <2>2, OnlyFiles
<1>8. QED
  BY <1>1, <1>2, <1>3, <1>4, <1>5, <1>6, <1>7 DEF Next

(* Only NextAttempt goes from a wait to a post, and only when the deadline leaves the wait its time:
   never for the longest one, which may be shorter than what was asked for. *)
LEMMA NextAttemptWaits ==
    ASSUME IInv, NEW a \in Adapters, NextAttempt(a), Honoured(a)
    PROVE  WaitedAsAsked(a)
<1>1. PICK c \in Call : c = call[a]
  BY AdapterIs
<1>2. PICK e : e = c.elapsed + c.delay
  OBVIOUS
<1>3. call' = [call EXCEPT ![a].elapsed = e, ![a].delay = 0, ![a].asked = 0]
  BY <1>1, <1>2 DEF NextAttempt
<1>4. call \in [Adapters -> Call]
  BY DEF IInv, DeliveryOK, DeliveryTyped
<1>5. call'[a].elapsed = e
  <2>1. call' = [call EXCEPT ![a] =
                   [[[c EXCEPT !.elapsed = e] EXCEPT !.delay = 0] EXCEPT !.asked = 0]]
    BY <1>1, <1>3
  <2>2. call'[a] = [[[c EXCEPT !.elapsed = e] EXCEPT !.delay = 0] EXCEPT !.asked = 0]
    BY <1>4, <2>1
  <2>3. [[[c EXCEPT !.elapsed = e] EXCEPT !.delay = 0] EXCEPT !.asked = 0].elapsed = e
    BY DEF Call
  <2>4. QED
    BY <2>2, <2>3
<1>6. c.elapsed \in 0..50 /\ c.delay \in 0..150 /\ c.asked \in Nat
  BY DEF Call
<1>7. c.elapsed + c.delay <= 50
  <2>1. call[a].elapsed + call[a].delay <= Deadline
    BY DEF NextAttempt
  <2>2. Deadline = 50
    BY DEF Deadline, Second
  <2>3. QED
    BY <1>1, <2>1, <2>2
<1>8. 5 * c.delay >= 4 * c.asked
  <2>1. LongEnough(c.delay, c.asked, c.unread)
    BY <1>1, AdapterIs DEF DeliveryInv, NextAttempt
  <2>2. MaxDelay = 150
    BY DEF MaxDelay, Second
  <2>3. ~c.unread /\ c.asked <= LongestAsked * Second
    BY <1>1 DEF Honoured
  <2>4. QED
    BY <1>6, <1>7, <2>1, <2>2, <2>3 DEF LongEnough, LongestAsked, Second
<1>9. 5 * (e - c.elapsed) >= 4 * c.asked
  <2>1. PICK x \in Nat, y \in Nat, z \in Nat : x = c.elapsed /\ y = c.delay /\ z = c.asked
    <3>1. c.elapsed \in Nat /\ c.delay \in Nat /\ c.asked \in Nat
      BY <1>6
    <3>2. QED
      BY <3>1, Zenon
  <2>2. 5 * y >= 4 * z /\ e = x + y
    BY <1>2, <1>8, <2>1
  <2>3. 5 * (e - x) >= 4 * z
    BY <2>2
  <2>4. QED
    BY <2>1, <2>3
<1>10. QED
  BY <1>1, <1>5, <1>9 DEF WaitedAsAsked

(* No other step goes from a wait to a post. *)
LEMMA PostsAfterTheWait ==
    ASSUME IInv, [Next]_vars, NEW a \in Adapters, at[a] = "wait", at'[a] = "post", Honoured(a)
    PROVE  WaitedAsAsked(a)
<1>1. at \in [Adapters -> Places]
  BY FactoryIs
<1>2. CASE \E b \in Adapters : Work(b)
  <2>1. PICK b \in Adapters : Work(b)
    BY <1>2
  <2>2. CASE NextAttempt(b)
    <3>1. b = a
      BY <1>1, <2>2 DEF NextAttempt
    <3>2. QED
      BY <2>2, <3>1, NextAttemptWaits
  <2>3. CASE ~NextAttempt(b)
    <3>1. at'[b] # "post" \/ at[b] # "wait"
      BY <1>1, <2>1, <2>3
         DEF Work, BatchCreateAuditEvents, Refused, SendTimesOut, WaitCancelled, SendRequest, Done
    <3>2. \A d \in Adapters \ {b} : at'[d] = at[d]
      BY <1>1, <2>1, <2>3
         DEF Work, BatchCreateAuditEvents, Refused, SendTimesOut, WaitCancelled, SendRequest, Done
    <3>3. QED
      BY <3>1, <3>2
  <2>4. QED
    BY <2>2, <2>3
<1>3. CASE ~\E b \in Adapters : Work(b)
  <2>1. \/ UNCHANGED at
        \/ \E b \in Adapters, p \in Places \ {"post"} : at' = [at EXCEPT ![b] = p]
    <3>1. CASE UNCHANGED vars
      BY <3>1 DEF vars, delivery
    <3>2. CASE \E p \in Paths : CloseInstance(p)
      BY <3>2 DEF CloseInstance, delivery
    <3>3. CASE ResetInstances
      BY <3>3 DEF ResetInstances, delivery
    <3>4. CASE \E l \in Loggers : ReopenCloses(l) \/ ReopenOpens(l) \/ ReopenFails(l)
      BY <3>4 DEF ReopenCloses, ReopenOpens, ReopenFails, delivery
    <3>5. CASE \E k \in world.keys : \E b \in Adapters, l \in Loggers \cup {None} :
                   GetOrCreateAdapter(k, b, l)
      BY <3>5 DEF GetOrCreateAdapter, Places
    <3>6. CASE \E k \in world.keys : CloseAdapter(k) \/ \E l \in Loggers : NewAdapterFails(k, l)
      BY <3>6 DEF CloseAdapter, NewAdapterFails, delivery
    <3>7. CASE CloseAll
      BY <3>7 DEF CloseAll, delivery
    <3>8. ASSUME NEW b \in Adapters,
                 \/ StartLast(b) \/ CloseFile(b) \/ Take(b) \/ Timer(b)
                 \/ \E kind \in world.kinds : LogEvent(b, kind)
          PROVE  \/ UNCHANGED at
                 \/ \E p \in Places \ {"post"} : at' = [at EXCEPT ![b] = p]
      <4>1. CASE StartLast(b) \/ CloseFile(b) \/ Timer(b)
        BY <4>1 DEF StartLast, CloseFile, Timer, Places
      <4>2. CASE Take(b)
        BY <1>1, <4>2 DEF Take, Places
      <4>3. CASE \E kind \in world.kinds : LogEvent(b, kind)
        BY <4>3 DEF LogEvent
      <4>4. QED
        BY <3>8, <4>1, <4>2, <4>3
    <3>9. QED
      BY <1>3, <3>1, <3>2, <3>3, <3>4, <3>5, <3>6, <3>7, <3>8 DEF Next
  <2>2. QED
    BY <1>1, <2>1
<1>4. QED
  BY <1>2, <1>3

(* The invariant is inductive. *)
THEOREM Inductive == Spec => []IInv
<1>1. Init => IInv
  BY InitIInv
<1>2. IInv /\ [Next]_vars => IInv'
  BY StepKeepsIInv
<1>3. QED
  BY <1>1, <1>2, PTL DEF Spec

(* Every state of every run has its type, queues are never longer than their channel, and calls
   keep to their attempts, their deadline and the longest wait (LogEvent, executeWithRetry). *)
THEOREM TypeCorrect == Spec => []TypeOK
<1>1. IInv => TypeOK
  <2> SUFFICES ASSUME IInv PROVE TypeOK
    OBVIOUS
  <2>1. FilesTyped /\ FactoryTyped /\ DeliveryTyped
    BY DEF IInv, FilesOK, FactoryOK, DeliveryOK
  <2>2. ASSUME NEW a \in Adapters
        PROVE  /\ Len(queue[a]) <= QueueSize
               /\ call[a].attempt <= MaxRetries /\ call[a].elapsed <= Deadline
               /\ call[a].delay <= MaxDelay
    <3>1. PICK c \in Call : c = call[a]
      BY AdapterIs
    <3>2. c.attempt \in 0..3 /\ c.elapsed \in 0..50 /\ c.delay \in 0..150
      BY DEF Call
    <3>3. MaxRetries = 3 /\ Deadline = 50 /\ MaxDelay = 150
      BY DEF MaxRetries, Deadline, MaxDelay, Second
    <3>4. c.attempt <= MaxRetries /\ c.elapsed <= Deadline /\ c.delay <= MaxDelay
      BY <3>2, <3>3
    <3>5. Len(queue[a]) <= QueueSize
      BY AdapterIs DEF DeliveryInv
    <3>6. QED
      BY <3>1, <3>4, <3>5
  <2>3. QED
    BY <2>1, <2>2 DEF TypeOK, FilesTyped, FactoryTyped, DeliveryTyped, File
<1>2. QED
  BY <1>1, Inductive, PTL

(* No two loggers have one file open, unless CloseInstance came between the halves of a Reopen
   (GetInstance, CloseInstance, ResetInstances, Reopen, Logger.Close). *)
THEOREM OneWriter == Spec => []OneWriterPerFile
<1>1. IInv => OneWriterPerFile
  BY DEF IInv, FilesOK, FilesInv, SoleWriters, InUse, OneWriterPerFile
<1>2. QED
  BY <1>1, Inductive, PTL

(* An adapter writes to an open file through the registered logger as long as nobody has closed a
   logger of its path (GetInstance, Reopen, NewAdapter). *)
THEOREM OpenUnlessClosed == Spec => []OpenFileUnlessClosed
<1>1. IInv => OpenFileUnlessClosed
  <2> SUFFICES ASSUME IInv, NEW a \in Adapters, fileLogger[a] # None,
                      path[fileLogger[a]] \notin closedOn
               PROVE  /\ instances[path[fileLogger[a]]] = fileLogger[a]
                      /\ file[fileLogger[a]] \in {"open", "reopening"}
    BY DEF OpenFileUnlessClosed
  <2>1. /\ FilesTyped /\ ReceiverOK(a) /\ \A m \in Loggers : LoggerOK(m)
        /\ \A p \in Paths : RegistryOK(p)
    BY DEF IInv, FilesOK, FilesInv
  <2>2. PICK l \in Loggers : l = fileLogger[a] /\ l # None
    BY <2>1 DEF FilesTyped
  <2>3. instances[path[l]] = l /\ path[l] \in Paths
    BY <2>1, <2>2 DEF ReceiverOK, LoggerOK
  <2>4. QED
    BY <2>1, <2>2, <2>3 DEF RegistryOK, InUse
<1>2. QED
  BY <1>1, Inductive, PTL

(* The factory hands out no adapter that is closed or being closed, nor one of another
   configuration, and has forgotten none that runs (GetOrCreateAdapter, CloseAdapter, CloseAll). *)
THEOREM FactoryKeepsTrack == Spec => []FactoryAgrees
<1>1. IInv => FactoryAgrees
  BY FactoryIs
<1>2. QED
  BY <1>1, Inductive, PTL

(* However events and timers interleave, no batch outgrows the limit: one is refused before it is
   posted only for an event in it (validateAuditRequest, processWithBatching). *)
THEOREM OnlyUnfitRefused == Spec => []RefusedForAnEvent
<1>1. IInv => RefusedForAnEvent
  BY AdapterIs DEF RefusedForAnEvent, DeliveryInv
<1>2. QED
  BY <1>1, Inductive, PTL

(* A post after a 429 that was read whole and asked for no more than a day comes no sooner than
   four fifths of what its Retry-After asked for (parseRetryAfter, ShouldRetry). *)
THEOREM RetryAfterIsKept == Spec => RespectsRetryAfter
<1> DEFINE Waits == \A a \in Adapters : WaitIsOver(a) /\ Honoured(a) => WaitedAsAsked(a)
<1>1. ASSUME IInv, [Next]_vars PROVE Waits
  BY <1>1, PostsAfterTheWait DEF WaitIsOver
<1>2. QED
  BY <1>1, Inductive, PTL DEF Spec, RespectsRetryAfter

=============================================================================

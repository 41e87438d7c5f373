------------------------------ MODULE FileStore ------------------------------
(***************************************************************************)
(* The file-backed URL store, cachedFileStorage of                         *)
(* internal/domain/repository/file_storage.go: four in-memory indexes over *)
(* an append-only file of one record per line.  A restart empties the      *)
(* indexes and rebuilds them line by line.                                 *)
(*                                                                         *)
(* Every method holds the store's mutex from its first to its last         *)
(* statement, so calls do not interleave; what does happen between the     *)
(* statements of a call is that a write to the file fails or that the      *)
(* process dies.  A writing call is therefore two kinds of step: the one   *)
(* that updates the indexes, and one Append step per record it writes.     *)
(* The records still to be written are `pending', and while it is not      *)
(* empty (or `batch' is not 0) the mutex is held and no other call starts. *)
(*                                                                         *)
(* A record's correlation id, timestamps and click count decide nothing    *)
(* here and are left out.                                                  *)
(***************************************************************************)
EXTENDS Naturals, SequencesExt

CONSTANTS
    Ids,        \* record ids (UUIDs)
    Codes,      \* short codes
    URLs,       \* original URLs
    LongURLs,   \* those whose line is longer than bufio.Scanner's token limit
    Users,
    NoId,       \* no entry in an index
    NoRec,      \* no record
    MaxFile,    \* bound: lines in the file
    MaxBatch    \* bound: items of one BatchSave

ASSUME FileStoreAssumption ==
    /\ LongURLs \subseteq URLs
    /\ IsFiniteSet(Ids) /\ NoId \notin Ids
    /\ MaxFile \in Nat /\ MaxBatch \in Nat

Rec == [id : Ids, user : Users, code : Codes, url : URLs, active : BOOLEAN]

ASSUME NoRecAssumption == NoRec \notin Rec \cup [url : URLs, active : BOOLEAN]

(* What the scanner makes of a line: a record, text that is no record, or a token too long. *)
Text == {"whole", "garbled", "long"}
Line == [rec : Rec, text : Text]

VARIABLES
    status,             \* "loading" the file, "up" and serving, or "down": start-up failed
    file,               \* the lines of pathDB
    unterminated,       \* the last line lacks its newline
    loaded,             \* lines read so far by loadCacheFromFile
    cache,              \* short code -> id of the record
    cacheByID,          \* id -> record
    originalURLIndex,   \* original URL -> id
    userIDIndex,        \* user -> ids of the user's records, in order of arrival
    pending,            \* ids the running call still has to write, in order
    batch,              \* items the running BatchSave still has to look at
    \* What clients know, for the properties:
    acked,              \* id -> the record as last written by a write that returned nil
    unsafe,             \* ids whose last write failed, or was glued to an unfinished line
    writeFailed         \* some write has failed

memory == <<cache, cacheByID, originalURLIndex, userIDIndex>>
ghosts == <<acked, unsafe, writeFailed>>
vars == <<status, file, unterminated, loaded, memory, pending, batch, ghosts>>

Locked == pending # <<>> \/ batch > 0
Known(i) == cacheByID[i] # NoRec
Active(i) == Known(i) /\ cacheByID[i].active

EmptyMemory ==
    /\ cache = [c \in Codes |-> NoId]
    /\ cacheByID = [i \in Ids |-> NoRec]
    /\ originalURLIndex = [u \in URLs |-> NoId]
    /\ userIDIndex = [w \in Users |-> <<>>]

(* The first start, on a file that does not exist yet. *)
Init ==
    /\ status = "loading" /\ loaded = 0
    /\ file = <<>> /\ unterminated = FALSE
    /\ EmptyMemory
    /\ pending = <<>> /\ batch = 0
    /\ acked = [i \in Ids |-> NoRec] /\ unsafe = {} /\ writeFailed = FALSE

-----------------------------------------------------------------------------
(* Indexes *)

(* Mutant: the record is listed again without looking for an earlier version. *)
AddToCacheAndIndexesTwice(r) ==
    /\ cache' = [cache EXCEPT ![r.code] = r.id]
    /\ cacheByID' = [cacheByID EXCEPT ![r.id] = r]
    /\ originalURLIndex' =
         IF r.active THEN [originalURLIndex EXCEPT ![r.url] = r.id] ELSE originalURLIndex
    /\ userIDIndex' = [userIDIndex EXCEPT ![r.user] = Append(@, r.id)]

(* A record already in its user's list is replaced there by the newer version.  A superseded
   version may stay in originalURLIndex; it has the same id, which is all the index is read for. *)
AddToCacheAndIndexes(r) ==
    /\ cache' = [cache EXCEPT ![r.code] = r.id]
    /\ cacheByID' = [cacheByID EXCEPT ![r.id] = r]
    /\ originalURLIndex' =
         IF r.active THEN [originalURLIndex EXCEPT ![r.url] = r.id] ELSE originalURLIndex
    /\ userIDIndex' = IF r.id \in ToSet(userIDIndex[r.user])
                      THEN userIDIndex
                      ELSE [userIDIndex EXCEPT ![r.user] = Append(@, r.id)]

(* Mutant: the index entry of a deleted record stays. *)
RemoveFromNoIndex(ids) == originalURLIndex' = originalURLIndex

(* The delete of an index entry goes by URL, whichever record the entry is for. *)
RemoveFromIndexes(ids) ==
    originalURLIndex' = [u \in URLs |->
        IF \E i \in ids : cacheByID[i].url = u THEN NoId ELSE originalURLIndex[u]]

SetActive(ids, b) ==
    cacheByID' = [i \in Ids |-> IF i \in ids THEN [cacheByID[i] EXCEPT !.active = b]
                                             ELSE cacheByID[i]]

(* An id no record has or ever had. *)
Fresh(i) ==
    /\ cacheByID[i] = NoRec /\ acked[i] = NoRec
    /\ \A k \in DOMAIN file : file[k].rec.id # i

(* The body Save and BatchSave share. *)
AddRecord(w, c, u) ==
    \E i \in Ids :
        /\ Fresh(i)
        /\ AddToCacheAndIndexes([id |-> i, user |-> w, code |-> c, url |-> u, active |-> TRUE])
        /\ pending' = <<i>>

-----------------------------------------------------------------------------
(* Writing calls: what they do before their first write.  Each starts when the mutex is free. *)

(* Mutant: a call does not wait for the mutex. *)
CallableUnlocked(n) == status = "up" /\ Len(file) + n <= MaxFile

Callable(n) == status = "up" /\ ~Locked /\ Len(file) + n <= MaxFile

(* Mutant: Save without its check for an existing URL. *)
SaveUnchecked(w, c, u) ==
    /\ Callable(1)
    /\ AddRecord(w, c, u)
    /\ UNCHANGED <<status, file, unterminated, loaded, batch, ghosts>>

(* Save of a URL that is indexed returns an error and changes nothing. *)
Save(w, c, u) ==
    /\ Callable(1)
    /\ originalURLIndex[u] = NoId
    /\ AddRecord(w, c, u)
    /\ UNCHANGED <<status, file, unterminated, loaded, batch, ghosts>>

(* A batch of n items; BatchItem looks at them one by one. *)
BatchSave(n) ==
    /\ Callable(n)
    /\ batch' = n
    /\ UNCHANGED <<status, file, unterminated, loaded, memory, pending, ghosts>>

(* Mutant: the loop does not stop after the last item. *)
BatchItemPastEnd(w, c, u) ==
    /\ status = "up" /\ pending = <<>>
    /\ batch' = batch - 1
    /\ IF originalURLIndex[u] # NoId
       THEN UNCHANGED <<memory, pending>>
       ELSE AddRecord(w, c, u)
    /\ UNCHANGED <<status, file, unterminated, loaded, ghosts>>

BatchItem(w, c, u) ==
    /\ status = "up" /\ pending = <<>> /\ batch > 0
    /\ batch' = batch - 1
    /\ IF originalURLIndex[u] # NoId
       THEN UNCHANGED <<memory, pending>>
       ELSE AddRecord(w, c, u)
    /\ UNCHANGED <<status, file, unterminated, loaded, ghosts>>

(* Delete and DeleteByID of a known record, whatever its state. *)
MarkInactive(i) ==
    /\ SetActive({i}, FALSE)
    /\ RemoveFromIndexes({i})
    /\ pending' = <<i>>
    /\ UNCHANGED <<status, file, unterminated, loaded, cache, userIDIndex, batch, ghosts>>

Delete(c) == Callable(1) /\ cache[c] # NoId /\ MarkInactive(cache[c])
DeleteByID(i) == Callable(1) /\ Known(i) /\ MarkInactive(i)

(* urlMap: the user's last record under each of the codes. *)
UserRecords(w, codes) ==
    {userIDIndex[w][k] : k \in {j \in DOMAIN userIDIndex[w] :
        LET c == cacheByID[userIDIndex[w][j]].code
        IN  /\ c \in codes
            /\ \A m \in DOMAIN userIDIndex[w] :
                   m > j => cacheByID[userIDIndex[w][m]].code # c}}

(* Records to be switched to b; those already there are skipped. *)
ToSwitch(w, codes, b) == {i \in UserRecords(w, codes) : cacheByID[i].active # b}

(* The write order is that of the caller's list of codes, so any order can happen. *)
SetDeletedByUserIDAndURLs(w, codes) ==
    LET ids == ToSwitch(w, codes, FALSE)
    IN  /\ Callable(Cardinality(ids)) /\ ids # {}
        /\ SetActive(ids, FALSE)
        /\ RemoveFromIndexes(ids)
        /\ pending' \in SetToSeqs(ids)
        /\ UNCHANGED <<status, file, unterminated, loaded, cache, userIDIndex, batch, ghosts>>

(* Nothing to switch: the call returns nil without writing, and the client takes the records
   it named for deleted. *)
SetDeletedAgain(w, codes) ==
    /\ Callable(0) /\ userIDIndex[w] # <<>>
    /\ ToSwitch(w, codes, FALSE) = {}
    /\ acked' = [i \in Ids |-> IF i \in UserRecords(w, codes) THEN cacheByID[i] ELSE acked[i]]
    /\ UNCHANGED <<status, file, unterminated, loaded, memory, pending, batch, unsafe, writeFailed>>

(* The same call with deleted = false.  Of two records of one URL the later one gets the entry. *)
Restore(w, codes) ==
    LET ids == ToSwitch(w, codes, TRUE)
    IN  /\ Callable(Cardinality(ids)) /\ ids # {}
        /\ SetActive(ids, TRUE)
        /\ \E order \in SetToSeqs(ids) :
              /\ pending' = order
              /\ originalURLIndex' = [u \in URLs |->
                     LET at == {k \in DOMAIN order : cacheByID[order[k]].url = u}
                     IN  IF at = {} THEN originalURLIndex[u]
                         ELSE order[Max(at)]]
        /\ UNCHANGED <<status, file, unterminated, loaded, cache, userIDIndex, batch, ghosts>>

(* CompactFile writes the records of `cache', a Go map, in any order and renames the result
   over the file.  A failure before the rename leaves the file as it was. *)
TextOf(r) == IF r.url \in LongURLs THEN "long" ELSE "whole"
CompactFile ==
    /\ Callable(0)
    /\ \E order \in SetToSeqs({cache[c] : c \in Codes} \ {NoId}) :
          file' = [k \in DOMAIN order |->
                      [rec |-> cacheByID[order[k]], text |-> TextOf(cacheByID[order[k]])]]
    /\ unterminated' = FALSE
    /\ UNCHANGED <<status, loaded, memory, pending, batch, ghosts>>

-----------------------------------------------------------------------------
(* Writing a record: open with O_APPEND, one write of the text and its newline, close. *)

Writing == status = "up" /\ pending # <<>>
Writes == cacheByID[Head(pending)]

(* The file after text t of r arrives at its end: on a line of its own, or glued to what an
   earlier short write left, and then the line parses no more. *)
Arrive(r, t) ==
    file' = IF unterminated
            THEN [file EXCEPT ![Len(file)] =
                    [rec |-> r, text |-> IF "long" \in {t, Last(file).text} THEN "long"
                                                                            ELSE "garbled"]]
            ELSE Append(file, [rec |-> r, text |-> t])

AppendRecordToFile ==
    /\ Writing
    /\ Arrive(Writes, TextOf(Writes))
    /\ unterminated' = FALSE
    /\ acked' = [acked EXCEPT ![Writes.id] = Writes]
    /\ unsafe' = IF unterminated THEN unsafe \cup {Writes.id} ELSE unsafe \ {Writes.id}
    /\ pending' = Tail(pending)
    /\ UNCHANGED <<status, loaded, memory, batch, writeFailed>>

(* Every failure ends the call: what was not written yet stays changed in memory only. *)
CallFails ==
    /\ pending' = <<>> /\ batch' = 0
    /\ unsafe' = unsafe \cup ToSet(pending)
    /\ writeFailed' = TRUE
    /\ UNCHANGED <<status, loaded, memory, acked>>

(* The open fails, or nothing gets written. *)
AppendFails == Writing /\ CallFails /\ UNCHANGED <<file, unterminated>>

(* A full disk: part of the text is written, or all of it but the newline. *)
AppendTorn ==
    /\ Writing
    /\ \E t \in {"garbled", TextOf(Writes)} : Arrive(Writes, t)
    /\ unterminated' = TRUE
    /\ CallFails

-----------------------------------------------------------------------------
(* The process ends, at any moment, and a new one starts. *)
Restart ==
    /\ status' = "loading" /\ loaded' = 0
    /\ cache' = [c \in Codes |-> NoId]
    /\ cacheByID' = [i \in Ids |-> NoRec]
    /\ originalURLIndex' = [u \in URLs |-> NoId]
    /\ userIDIndex' = [w \in Users |-> <<>>]
    /\ pending' = <<>> /\ batch' = 0
    /\ UNCHANGED <<file, unterminated, ghosts>>

(* Mutant: inactive records are not loaded. *)
LoadActiveLine ==
    /\ status = "loading" /\ loaded < Len(file)
    /\ file[loaded + 1].text # "long"
    /\ loaded' = loaded + 1
    /\ IF file[loaded + 1].text = "whole" /\ file[loaded + 1].rec.active
       THEN AddToCacheAndIndexes(file[loaded + 1].rec)
       ELSE UNCHANGED memory
    /\ UNCHANGED <<status, file, unterminated, pending, batch, ghosts>>

LoadLine ==
    /\ status = "loading" /\ loaded < Len(file)
    /\ file[loaded + 1].text # "long"
    /\ loaded' = loaded + 1
    /\ IF file[loaded + 1].text = "whole"
       THEN AddToCacheAndIndexes(file[loaded + 1].rec)
       ELSE UNCHANGED memory
    /\ UNCHANGED <<status, file, unterminated, pending, batch, ghosts>>

LoadDone ==
    /\ status = "loading" /\ loaded = Len(file)
    /\ status' = "up"
    /\ UNCHANGED <<file, unterminated, loaded, memory, pending, batch, ghosts>>

(* The scanner meets a line too long or the file cannot be read: the process exits. *)
LoadFails ==
    /\ status = "loading"
    /\ status' = "down"
    /\ UNCHANGED <<file, unterminated, loaded, memory, pending, batch, ghosts>>

-----------------------------------------------------------------------------
Environment == AppendRecordToFile \/ AppendFails \/ AppendTorn
                  \/ Restart \/ LoadLine \/ LoadDone \/ LoadFails

(* Every call of the store's interface, with any arguments. *)
Next ==
    \/ \E w \in Users, c \in Codes, u \in URLs : Save(w, c, u) \/ BatchItem(w, c, u)
    \/ \E n \in 1..MaxBatch : BatchSave(n)
    \/ \E c \in Codes : Delete(c)
    \/ \E i \in Ids : DeleteByID(i)
    \/ \E w \in Users, codes \in SUBSET Codes :
          \/ SetDeletedByUserIDAndURLs(w, codes)
          \/ SetDeletedAgain(w, codes)
          \/ Restore(w, codes)
    \/ CompactFile
    \/ Environment

Spec == Init /\ [][Next]_vars

(* Mutant: keys may repeat. *)
AnyCode(c) == TRUE

(* The key utils.GenerateRandomKey draws is one no record has or had before. *)
FreshCode(c) ==
    /\ \A i \in Ids : /\ Known(i) => cacheByID[i].code # c
                      /\ acked[i] # NoRec => acked[i].code # c
    /\ \A k \in DOMAIN file : file[k].rec.code # c

(* The calls urlUseCase makes: Save under a random key, and SetDeletedByUserIDAndURLs with
   deleted = true. *)
AppNext ==
    \/ \E w \in Users, c \in Codes, u \in URLs : FreshCode(c) /\ Save(w, c, u)
    \/ \E w \in Users, codes \in SUBSET Codes :
          SetDeletedByUserIDAndURLs(w, codes) \/ SetDeletedAgain(w, codes)
    \/ Environment

AppSpec == Init /\ [][AppNext]_vars

-----------------------------------------------------------------------------
(* Properties *)

TypeOK ==
    /\ status \in {"loading", "up", "down"}
    /\ file \in Seq(Line) /\ unterminated \in BOOLEAN
    /\ loaded \in Nat
    /\ cache \in [Codes -> Ids \cup {NoId}]
    /\ cacheByID \in [Ids -> Rec \cup {NoRec}]
    /\ originalURLIndex \in [URLs -> Ids \cup {NoId}]
    /\ userIDIndex \in [Users -> Seq(Ids)]
    /\ pending \in Seq(Ids) /\ batch \in Nat
    /\ acked \in [Ids -> Rec \cup {NoRec}]
    /\ unsafe \subseteq Ids /\ writeFailed \in BOOLEAN

(* The four indexes describe the same records: an entry of cache, originalURLIndex or userIDIndex
   names a known record that has that code, URL or user, and every known record is listed, once,
   for its user, whatever was called, failed or replayed before. *)
IndexesAgree ==
    /\ \A c \in Codes : cache[c] # NoId => Known(cache[c]) /\ cacheByID[cache[c]].code = c
    /\ \A u \in URLs : originalURLIndex[u] # NoId =>
          Known(originalURLIndex[u]) /\ cacheByID[originalURLIndex[u]].url = u
    /\ \A w \in Users : \A j, k \in DOMAIN userIDIndex[w] :
          /\ Known(userIDIndex[w][k]) /\ cacheByID[userIDIndex[w][k]].user = w
          /\ userIDIndex[w][j] = userIDIndex[w][k] => j = k
    /\ \A i \in Ids : Known(i) =>
          /\ cacheByID[i].id = i
          /\ cache[cacheByID[i].code] # NoId
          /\ i \in ToSet(userIDIndex[cacheByID[i].user])

(* What the induction behind IndexesAgree needs: the lines of one id differ in `active' only, and
   from the record in memory in nothing else; the ids still to be written are known. *)
SameLink(r, s) == r.user = s.user /\ r.code = s.code /\ r.url = s.url
FileAgrees ==
    /\ \A j, k \in DOMAIN file :
          file[j].rec.id = file[k].rec.id => SameLink(file[j].rec, file[k].rec)
    /\ \A k \in DOMAIN file :
          Known(file[k].rec.id) => SameLink(cacheByID[file[k].rec.id], file[k].rec)
    /\ \A k \in DOMAIN pending : Known(pending[k])
    /\ unterminated => file # <<>>

(* Durability: what a write that returned nil left is what an up store serves, after any number
   of restarts, compactions and failed writes of other records, unless the record's own last write
   failed or was glued to an unfinished line, or another record has taken its short code.  Inactive
   records are among them: CompactFile keeps them, although its comment has it `eliminating inactive
   records from disk'.  What becomes of the writes left out is the subject of AckedIsDurable. *)
AckedIsServed ==
    status = "up" =>
        \A i \in Ids \ (unsafe \cup ToSet(pending)) : acked[i] # NoRec =>
            cacheByID[i] = acked[i] \/ cache[acked[i].code] \notin {i, NoId}

(* No call leaves originalURLIndex with an entry for an inactive record: Delete, DeleteByID,
   SetDeleted and Restore keep the index to active records, as its comment promises. *)
StaleEntry(u) == originalURLIndex[u] # NoId /\ ~Active(originalURLIndex[u])
CallsKeepIndexActive ==
    [][\A u \in URLs : status = "up" /\ StaleEntry(u)' => StaleEntry(u)]_vars

(* The calls of the application never give one URL two active short codes, across restarts and
   kills in the middle of a call, as long as no write has failed.  Of Delete, which the application
   does not call, this is not true: applied to a record deleted before, it drops the index entry of
   the record that has the URL by then. *)
UniqueActive ==
    status = "up" /\ ~writeFailed =>
        \A i, j \in Ids :
            Active(i) /\ Active(j) /\ cacheByID[i].url = cacheByID[j].url => i = j

(* Under the calls of the application every record the store knows is found under its own code:
   no record is hidden behind another, even after failed writes. *)
EveryRecordReachable == \A i \in Ids : Known(i) => cache[cacheByID[i].code] = i

(* What the clients of the application know is an implementation of LinkRegistry. *)
Registered(c) == {i \in Ids : acked[i] # NoRec /\ acked[i].code = c}
Links == [c \in Codes |->
    IF Registered(c) = {} THEN NoRec
    ELSE LET r == acked[CHOOSE i \in Registered(c) : TRUE] IN [url |-> r.url, active |-> r.active]]

Registry == INSTANCE LinkRegistry WITH
    NoLink <- NoRec, links <- Links, degraded <- writeFailed

RegistrySpec == Registry!Spec

(* What the field's comment says, `Index by original URL (active records only)': an up store has
   no entry for a deleted record. *)
IndexHoldsActiveOnly == status = "up" => \A u \in URLs : ~StaleEntry(u)

(* What the type's comment says, `append-only JSONL file format for durability': what a client was
   told of a record by a call that returned nil is in the file, on a line that a start reads.  Lines
   that are too long break this, lines glued to a torn one, and a delete that is repeated after its
   write has failed, finds nothing to switch, and writes nothing. *)
AckedIsDurable ==
    \A i \in Ids : acked[i] # NoRec =>
        \E k \in DOMAIN file : file[k] = [rec |-> acked[i], text |-> "whole"]

=============================================================================

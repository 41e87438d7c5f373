------------------------------ MODULE Shortener ------------------------------
(***************************************************************************)
(* The use cases of internal/usecase/storage.go under the handlers of      *)
(* internal/delivery/handler: each request asks the database for a ping    *)
(* and then works on the database or on the file store, several steps      *)
(* later.  The database comes and goes, requests interleave, deletes of    *)
(* database rows run in the background, and the process may die.           *)
(*                                                                         *)
(* The stores are modelled by what they promise.  A database call is one   *)
(* step (PgRepository looks inside it).  The file store serves `memory',   *)
(* and after a restart again, but for the codes whose last write failed or *)
(* came after one that did: they may come back in an earlier version or    *)
(* not at all (FileStore looks inside that).                               *)
(*                                                                         *)
(* Requests that are refused before they reach the use case layer, lists   *)
(* of a user's links, health checks and the gRPC call ExpandURL, which     *)
(* answers for deleted links too, change nothing and are left out.         *)
(***************************************************************************)
EXTENDS Naturals, SequencesExt

CONSTANTS
    Clients, Users, URLs,
    Codes,      \* random keys
    NoLink,
    BatchSize,  \* codes in one background update
    MaxCodes,   \* bound: URLs or codes in one request
    MaxTasks,   \* bound: background updates under way
    MaxUnsure   \* bound: codes whose last write went wrong

Link == [user : Users, url : URLs, active : BOOLEAN]

ASSUME ShortenerAssumption ==
    /\ BatchSize \in Nat \ {0} /\ MaxCodes \in Nat \ {0} /\ MaxTasks \in Nat /\ MaxUnsure \in Nat
    /\ NoLink \notin Link \cup URLs \cup Users

(* Where a request is: none yet, or ended ("blank" with an empty answer, "told" with codes), or under
   way.  At "check" the handler has a pointer to the file store's record and has not looked at it
   yet; at "write" SetDeletedByUserIDAndURLs has switched records off and not written them yet; at
   "audit" the handler has only to log the event and to answer. *)
Place == {"idle", "blank", "told", "duplicates", "database", "file", "lookup", "check", "write", "audit"}
Op == {"none", "shorten", "batch", "follow", "delete"}
(* For the properties, `gone': the code was known to be deleted when the request began; `answer': the
   codes the last request was answered with, and the URLs they stand for. *)
NoRequest == [op |-> "none", at |-> "idle", user |-> NoLink,
              urls |-> <<>>, codes |-> <<>>, gone |-> FALSE, answer |-> <<>>]

VARIABLES
    rows,       \* code -> row of the database
    memory,     \* code -> record the file store serves
    unsure,     \* codes a restart may read in an earlier version, or not at all
    request,    \* client -> its request
    tasks,      \* background updates
    \* For the properties:
    gone,       \* codes a client was told are deleted: by a 410, or by a 202 once it was done
    promised    \* active rows whose delete was accepted, and has neither failed nor died since
stores == <<rows, memory, unsure>>
known == <<gone, promised>>
vars == <<stores, request, tasks, known>>

Idle(c) == request[c].at \in {"idle", "blank", "told"}
At(c, op, at) == request[c].op = op /\ request[c].at = at
(* A call of the file store holds its lock; only the ones that delete are seen half done. *)
AtFile(c, op) == At(c, op, "file") /\ \A other \in Clients : request[other].at # "write"

Init ==
    /\ rows = [k \in Codes |-> NoLink]
    /\ memory = [k \in Codes |-> NoLink] /\ unsure = {}
    /\ request = [c \in Clients |-> NoRequest]
    /\ tasks = {}
    /\ gone = {} /\ promised = {}

-----------------------------------------------------------------------------
Goto(c, at) == request' = [request EXCEPT ![c].at = at]
End(c) == request' = [request EXCEPT ![c] = NoRequest]

(* The answers: one that tells codes with their URLs, one that tells nothing new, and the empty
   200 of a handler that calls render.Status and writes nothing. *)
Tell(c, answer) ==
    /\ request' = [request EXCEPT ![c] = [NoRequest EXCEPT !.at = "told", !.answer = answer]]
    /\ UNCHANGED known
Reply(c) == End(c) /\ UNCHANGED known
Blank(c) == request' = [request EXCEPT ![c] = [NoRequest EXCEPT !.at = "blank"]] /\ UNCHANGED known

(* A key utils.GenerateRandomKey has not drawn before. *)
Fresh(k) ==
    /\ rows[k] = NoLink /\ memory[k] = NoLink /\ k \notin unsure
    /\ \A c \in Clients : request[c].op \in {"shorten", "batch"} => k \notin ToSet(request[c].codes)

HasURL(store, u) == \E k \in Codes : store[k] # NoLink /\ store[k].url = u
NewLink(c, u) == [user |-> request[c].user, url |-> u, active |-> TRUE]

(* The links of `store' user w may delete, of those named. *)
Owned(store, w, codes) == {k \in codes : store[k] # NoLink /\ store[k].user = w}
Retired(store, codes) ==
    [k \in Codes |-> IF k \in codes THEN [store[k] EXCEPT !.active = FALSE] ELSE store[k]]

(* A link was saved.  Over HTTP the event is logged before the answer is given, over gRPC beside it;
   nothing else tells the two apart but the answer to a conflict, so the transport is chosen here and
   there.  LogEvent fails if the audit queue is full. *)
Saved(c) ==
    \/ Goto(c, "audit") /\ UNCHANGED known
    \/ Tell(c, [k \in ToSet(request[c].codes) |-> request[c].urls[1]])

LogEvent(c) ==
    /\ request[c].at = "audit"
    /\ IF request[c].op = "shorten"
       THEN Tell(c, [k \in ToSet(request[c].codes) |-> request[c].urls[1]])
       ELSE Reply(c)
    /\ UNCHANGED <<stores, tasks>>

LogEventFails(c) ==
    /\ request[c].at = "audit"
    /\ Blank(c)
    /\ UNCHANGED <<stores, tasks>>

-----------------------------------------------------------------------------
(* Requests begin *)

(* Codes whose record in memory is ahead of the file, or may be. *)
Doubtful == unsure \cup UNION {ToSet(request[c].codes) : c \in {d \in Clients : request[d].at = "write"}}

Begin(c, op, w, at, urls, codes) ==
    /\ request' = [request EXCEPT ![c] = [op |-> op, at |-> at, user |-> w,
                                          urls |-> urls, codes |-> codes,
                                          answer |-> <<>>,
                                          gone |-> op = "follow" /\ codes[1] \in gone \ Doubtful]]
    /\ UNCHANGED <<stores, tasks, known>>

(* isDatabaseAvailable.  The database comes and goes as it likes: the ping says no more than where
   the request goes next. *)
Store == {"database", "file"}

(* POST / and POST /api/shorten, and CreateURLShorten. *)
CreateShortURL(c, w, u, k) ==
    Fresh(k) /\ \E at \in Store : Begin(c, "shorten", w, at, <<u>>, <<k>>)
CreateBatchShortAPIURL(c, w, urls) == Begin(c, "batch", w, "duplicates", urls, <<>>)
(* GET /{key}. *)
RedirectURL(c, k) == \E at \in Store : Begin(c, "follow", NoLink, at, <<>>, <<k>>)
(* DELETE /api/user/urls without a database; with one, see DeletedInBackground. *)
DeleteAPIUserUrls(c, w, codes) == Begin(c, "delete", w, "file", <<>>, codes)

(* Existing rows of a batch are its answer.  If the search fails the handler goes on. *)
FindDuplicateURLs(c) ==
    /\ At(c, "batch", "duplicates")
    /\ \E u \in ToSet(request[c].urls) : HasURL(rows, u)
    /\ LET found == {k \in Codes : rows[k] # NoLink /\ rows[k].url \in ToSet(request[c].urls)}
       IN  Tell(c, [k \in found |-> rows[k].url])
    /\ UNCHANGED <<stores, tasks>>

NoDuplicateURLs(c) ==
    /\ At(c, "batch", "duplicates")
    /\ \E at \in Store : Goto(c, at)
    /\ UNCHANGED <<stores, tasks, known>>

-----------------------------------------------------------------------------
(* On the database.  Each call finds it reachable or not, whatever the ping said; a call that fails
   may have taken effect. *)

CreateRow(c) ==
    /\ At(c, "shorten", "database")
    /\ LET u == request[c].urls[1] k == request[c].codes[1]
       IN  IF HasURL(rows, u)
           THEN Goto(c, "lookup") /\ UNCHANGED <<rows, known>>
           ELSE Saved(c) /\ rows' = [rows EXCEPT ![k] = NewLink(c, u)]
    /\ UNCHANGED <<memory, unsure, tasks>>

CreateRowFails(c) ==
    /\ At(c, "shorten", "database")
    /\ LET u == request[c].urls[1] k == request[c].codes[1]
       IN  \/ UNCHANGED rows
           \/ ~HasURL(rows, u) /\ rows' = [rows EXCEPT ![k] = NewLink(c, u)]
    /\ Reply(c)
    /\ UNCHANGED <<memory, unsure, tasks>>

(* Mutant: the conflict is answered with the key just drawn. *)
AnswerNewKey(c) ==
    /\ At(c, "shorten", "lookup")
    /\ Tell(c, [k \in {request[c].codes[1]} |-> request[c].urls[1]])
    /\ UNCHANGED <<stores, tasks>>

(* After a conflict the existing row is looked up, whatever its state.  Over gRPC the answer
   does not name its code. *)
GetByOriginalURL(c) ==
    /\ At(c, "shorten", "lookup")
    /\ LET u == request[c].urls[1]
           found == {k \in Codes : rows[k] # NoLink /\ rows[k].url = u}
       IN  Tell(c, [k \in found |-> u]) \/ Reply(c)
    /\ UNCHANGED <<stores, tasks>>

LookupFails(c) ==
    /\ At(c, "shorten", "lookup")
    /\ Reply(c)
    /\ UNCHANGED <<stores, tasks>>

(* The rows of a batch, one fresh code for each of its URLs. *)
BatchRows(c) ==
    LET urls == request[c].urls
    IN  {[k \in Codes |-> IF k \in ToSet(ks) THEN NewLink(c, urls[CHOOSE i \in DOMAIN ks : ks[i] = k])
                                              ELSE rows[k]]
            : ks \in {s \in [DOMAIN urls -> Codes] : IsInjective(s) /\ \A i \in DOMAIN s : Fresh(s[i])}}
Insertable(c) ==
    /\ IsInjective(request[c].urls)
    /\ \A u \in ToSet(request[c].urls) : ~HasURL(rows, u)

CreateBatch(c) ==
    /\ At(c, "batch", "database") /\ Insertable(c)
    /\ rows' \in BatchRows(c)
    /\ LET new == {k \in Codes : rows'[k] # rows[k]} IN Tell(c, [k \in new |-> rows'[k].url])
    /\ UNCHANGED <<memory, unsure, tasks>>

CreateBatchFails(c) ==
    /\ At(c, "batch", "database")
    /\ UNCHANGED rows \/ (Insertable(c) /\ rows' \in BatchRows(c))
    /\ Blank(c)
    /\ UNCHANGED <<memory, unsure, tasks>>

GetRow(c) ==
    /\ At(c, "follow", "database")
    /\ rows[request[c].codes[1]] # NoLink
    /\ IF rows[request[c].codes[1]].active THEN Goto(c, "audit") /\ UNCHANGED known
       ELSE /\ End(c) /\ gone' = gone \cup {request[c].codes[1]}
            /\ UNCHANGED promised
    /\ UNCHANGED <<stores, tasks>>

(* No such row, or any failure: 404. *)
GetRowFails(c) ==
    /\ At(c, "follow", "database")
    /\ Reply(c)
    /\ UNCHANGED <<stores, tasks>>

(* Mutant: the last codes are forgotten if they do not fill a chunk. *)
FullChunks(s) ==
    {ToSet(SubSeq(s, i, i + BatchSize - 1)) :
        i \in {j \in DOMAIN s : (j - 1) % BatchSize = 0 /\ j + BatchSize - 1 <= Len(s)}}

Chunks(s) ==
    {ToSet(SubSeq(s, i, IF i + BatchSize - 1 > Len(s) THEN Len(s) ELSE i + BatchSize - 1)) :
        i \in {j \in DOMAIN s : (j - 1) % BatchSize = 0}}

(* A delete with the database: nothing comes between the ping, the start of the goroutine and the 202.
   processDeletionInBackground sends the chunks side by side.  Equal tasks count once: what they do does
   not depend on their number. *)
DeletedInBackground(w, codes) ==
    /\ tasks' = tasks \cup {[user |-> w, codes |-> s] : s \in Chunks(codes)}
    /\ Cardinality(tasks') <= MaxTasks
    /\ promised' = promised \cup {k \in Owned(rows, w, ToSet(codes)) : rows[k].active}
    /\ UNCHANGED <<stores, request, gone>>

(* Mutant: the update does not ask whose the links are. *)
UpdateAnyones(t) ==
    /\ t \in tasks
    /\ rows' = Retired(rows, {k \in t.codes : rows[k] # NoLink})
    /\ tasks' = tasks \ {t}
    /\ promised' = {k \in promised : rows'[k].active}
    /\ UNCHANGED <<memory, unsure, request, gone>>

UpdateIsActive(t) ==
    /\ t \in tasks
    /\ rows' = Retired(rows, Owned(rows, t.user, t.codes))
    /\ tasks' = tasks \ {t}
    /\ promised' = {k \in promised : rows'[k].active}
    /\ UNCHANGED <<memory, unsure, request, gone>>

(* The update fails or runs into its thirty seconds: the error is logged, no more. *)
UpdateFails(t) ==
    /\ t \in tasks
    /\ rows' \in {rows, Retired(rows, Owned(rows, t.user, t.codes))}
    /\ tasks' = tasks \ {t}
    /\ promised' = {k \in promised \ t.codes : rows'[k].active}
    /\ UNCHANGED <<memory, unsure, request, gone>>

-----------------------------------------------------------------------------
(* On the file store *)

(* The records of `codes' become those of `new', in memory and, but for those in `lost', in
   the file. *)
AppendRecords(new, codes, lost) ==
    /\ memory' = new
    /\ unsure' = (unsure \ codes) \cup lost
    /\ Cardinality(unsure') <= MaxUnsure
    /\ UNCHANGED rows

(* Writes that return nil.  After a failed write such a line may have been glued to it. *)
Written(new, codes) ==
    \E glued \in IF unsure = {} THEN {{}} ELSE SUBSET codes : AppendRecords(new, codes, glued)

(* The same with a write that fails: memory keeps the change. *)
WriteFails(new, codes) == \E lost \in SUBSET codes \ {{}} : AppendRecords(new, codes, lost)

(* A URL with an active record is refused, unless a restart has mixed up its records.  One with a
   deleted record may be refused too: after a restart the index may hold it. *)
Free(u) == \A k \in Codes : memory[k] # NoLink /\ memory[k].url = u /\ memory[k].active => k \in unsure
With(c, k, u) == [memory EXCEPT ![k] = NewLink(c, u)]

SaveToFile(c) ==
    /\ AtFile(c, "shorten") /\ Free(request[c].urls[1])
    /\ Written(With(c, request[c].codes[1], request[c].urls[1]), {request[c].codes[1]})
    /\ Saved(c)
    /\ UNCHANGED tasks

(* 500, though the URL exists: IsDuplicateError knows the database's errors only. *)
SaveRefused(c) ==
    /\ AtFile(c, "shorten") /\ HasURL(memory, request[c].urls[1])
    /\ Reply(c)
    /\ UNCHANGED <<stores, tasks>>

SaveFails(c) ==
    /\ AtFile(c, "shorten") /\ Free(request[c].urls[1])
    /\ WriteFails(With(c, request[c].codes[1], request[c].urls[1]), {request[c].codes[1]})
    /\ Reply(c)
    /\ UNCHANGED tasks

(* A batch is saved item by item. *)
SaveItem(c) ==
    /\ AtFile(c, "batch") /\ request[c].urls # <<>> /\ Free(Head(request[c].urls))
    /\ \E k \in Codes :
          /\ Fresh(k)
          /\ Written(With(c, k, Head(request[c].urls)), {k})
          /\ request' = [request EXCEPT ![c].urls = Tail(@), ![c].codes = Append(@, k)]
    /\ UNCHANGED <<tasks, known>>

SaveItems(c) ==
    /\ AtFile(c, "batch") /\ request[c].urls = <<>>
    /\ Tell(c, [k \in ToSet(request[c].codes) |-> memory[k].url])
    /\ UNCHANGED <<stores, tasks>>

(* The first items stay saved. *)
SaveItemRefused(c) ==
    /\ AtFile(c, "batch") /\ request[c].urls # <<>> /\ HasURL(memory, Head(request[c].urls))
    /\ Blank(c)
    /\ UNCHANGED <<stores, tasks>>

SaveItemFails(c) ==
    /\ AtFile(c, "batch") /\ request[c].urls # <<>> /\ Free(Head(request[c].urls))
    /\ \E k \in Codes : Fresh(k) /\ WriteFails(With(c, k, Head(request[c].urls)), {k})
    /\ Blank(c)
    /\ UNCHANGED tasks

(* Mutant: a record that does not exist is answered as if it did. *)
GetRecordUnchecked(c) ==
    /\ AtFile(c, "follow")
    /\ Goto(c, "check") /\ UNCHANGED known
    /\ UNCHANGED <<stores, tasks>>

GetRecord(c) ==
    /\ AtFile(c, "follow")
    /\ IF memory[request[c].codes[1]] # NoLink
       THEN Goto(c, "check") /\ UNCHANGED known
       ELSE Reply(c)
    /\ UNCHANGED <<stores, tasks>>

(* Mutant: the redirect does not look at IsActive. *)
CheckNothing(c) ==
    /\ At(c, "follow", "check")
    /\ Goto(c, "audit") /\ UNCHANGED known
    /\ UNCHANGED <<stores, tasks>>

(* IsActive is read through the pointer, after the store's lock was released. *)
CheckActive(c) ==
    /\ At(c, "follow", "check")
    /\ IF memory[request[c].codes[1]].active THEN Goto(c, "audit") /\ UNCHANGED known
       ELSE /\ End(c) /\ gone' = gone \cup {request[c].codes[1]}
            /\ UNCHANGED promised
    /\ UNCHANGED <<stores, tasks>>

(* SetDeletedByUserIDAndURLs is an error for a user without records; codes that are not the
   user's are skipped, and so are those of records already deleted.  Memory comes first; as the
   records are written in one step, their order makes no difference. *)
SwitchOff(c) ==
    LET named == {k \in Owned(memory, request[c].user, ToSet(request[c].codes)) : memory[k].active}
    IN  /\ AtFile(c, "delete") /\ Owned(memory, request[c].user, Codes) # {}
        /\ memory' = Retired(memory, named)
        /\ \E codes \in SetToSeqs(named) :
              request' = [request EXCEPT ![c].at = "write", ![c].codes = codes]
        /\ UNCHANGED <<rows, unsure, tasks, known>>

DeletedInFile(c) ==
    /\ At(c, "delete", "write")
    /\ Written(memory, ToSet(request[c].codes))
    /\ End(c)
    /\ gone' = gone \cup ToSet(request[c].codes)
    /\ UNCHANGED <<tasks, promised>>

DeletedInFileFails(c) ==
    /\ \/ AtFile(c, "delete") /\ Owned(memory, request[c].user, Codes) = {} /\ UNCHANGED stores
       \/ At(c, "delete", "write") /\ WriteFails(memory, ToSet(request[c].codes))
    /\ Reply(c)
    /\ UNCHANGED tasks

-----------------------------------------------------------------------------
(* The process ends, in the middle of a delete perhaps, and starts again. *)
Restart ==
    /\ request' = [c \in Clients |-> IF Idle(c) THEN request[c] ELSE NoRequest]
    /\ tasks' = {}
    /\ \E lost \in SUBSET unsure : \E older \in SUBSET {k \in Doubtful \ lost : memory[k] # NoLink} :
          memory' = [k \in Codes |-> IF k \in lost THEN NoLink
                                      ELSE IF k \in older THEN [memory[k] EXCEPT !.active = TRUE]
                                      ELSE memory[k]]
    /\ unsure' = Doubtful
    /\ promised' = {}
    /\ UNCHANGED <<rows, gone>>

-----------------------------------------------------------------------------
Batches == BoundedSeq(URLs, MaxCodes) \ {<<>>}
Lists == {s \in BoundedSeq(Codes, MaxCodes) : s # <<>> /\ IsInjective(s)}

Arrive(c) ==
    /\ Idle(c)
    /\ \/ \E w \in Users, u \in URLs, k \in Codes : CreateShortURL(c, w, u, k)
       \/ \E w \in Users, urls \in Batches : CreateBatchShortAPIURL(c, w, urls)
       \/ \E k \in Codes : RedirectURL(c, k)
       \/ \E w \in Users, codes \in Lists : DeleteAPIUserUrls(c, w, codes)

OnDatabase(c) ==
    \/ CreateRow(c) \/ CreateRowFails(c) \/ GetByOriginalURL(c) \/ LookupFails(c)
    \/ CreateBatch(c) \/ CreateBatchFails(c)
    \/ GetRow(c) \/ GetRowFails(c)

OnFile(c) ==
    \/ SaveToFile(c) \/ SaveRefused(c) \/ SaveFails(c)
    \/ SaveItem(c) \/ SaveItems(c) \/ SaveItemRefused(c) \/ SaveItemFails(c)
    \/ GetRecord(c) \/ CheckActive(c)
    \/ SwitchOff(c) \/ DeletedInFile(c) \/ DeletedInFileFails(c)

Next ==
    \/ \E c \in Clients :
          \/ Arrive(c) \/ FindDuplicateURLs(c) \/ NoDuplicateURLs(c)
          \/ OnDatabase(c) \/ OnFile(c)
          \/ LogEvent(c) \/ LogEventFails(c)
    \/ \E w \in Users, codes \in Lists : DeletedInBackground(w, codes)
    \/ \E t \in tasks : UpdateIsActive(t) \/ UpdateFails(t)
    \/ Restart

Spec == Init /\ [][Next]_vars

-----------------------------------------------------------------------------
(* Properties *)

(* The state has its type; a request that is about to look up the row it met has one, and the
   pointer a redirect is about to follow is not nil (storage.go:176, url_handlers.go:169). *)
RequestOK(c) ==
    /\ request[c].op \in Op /\ request[c].at \in Place /\ request[c].user \in Users \cup {NoLink}
    /\ ToSet(request[c].urls) \subseteq URLs /\ ToSet(request[c].codes) \subseteq Codes
    /\ At(c, "shorten", "lookup") => HasURL(rows, request[c].urls[1])
    /\ At(c, "follow", "check") => memory[request[c].codes[1]] # NoLink
TypeOK ==
    /\ \A store \in {rows, memory} : store \in [Codes -> Link \cup {NoLink}]
    /\ unsure \subseteq Codes /\ gone \subseteq Codes /\ promised \subseteq Codes
    /\ DOMAIN request = Clients /\ \A c \in Clients : RequestOK(c)
    /\ \A t \in tasks : t.user \in Users /\ t.codes \subseteq Codes

(* Whatever the database did between ping and call, between an insert and the lookup after its
   conflict, or between two items of a batch, and whatever happens after: a code a client was answered
   with stands for its URL in one of the stores, deleted or not, unless the write of its record went
   wrong (Save, BatchSave and FindDuplicateURLs of storage.go). *)
IssuedIsKept ==
    \A c \in Clients : \A k \in DOMAIN request[c].answer :
        \/ \E store \in {rows, memory} : store[k] # NoLink /\ store[k].url = request[c].answer[k]
        \/ k \in unsure

(* Once a client was told that a link is gone, no redirect that begins later follows it, whichever
   store answers and however often the process restarts, unless the write of the delete to the file
   went wrong or was still to come when the process died (RedirectURL). *)
GoneStaysGone ==
    \A c \in Clients : At(c, "follow", "audit") => ~request[c].gone

(* A link is switched off by a request of its owner that names it, though the update may run long
   after the request, and never by a restart (Deleted, UpdateIsActive). *)
OwnerDeletes ==
    [][\A k \in Codes :
          /\ rows[k] # NoLink /\ rows[k].active /\ ~rows'[k].active
                => \E t \in tasks : t.user = rows[k].user /\ k \in t.codes
          /\ memory[k] # NoLink /\ memory[k].active /\ memory'[k] # NoLink /\ ~memory'[k].active
                => \E c \in Clients : /\ At(c, "delete", "file")
                                      /\ request[c].user = memory[k].user
                                      /\ k \in ToSet(request[c].codes)]_vars

(* A row whose delete was answered 202 is switched off, or an update of its owner that names it is
   still to come, unless that update failed or the process died (processDeletionInBackground). *)
DeleteNotForgotten ==
    \A k \in promised : \E t \in tasks : t.user = rows[k].user /\ k \in t.codes

(* A request that fails does not end with status 200 and an empty body: "500 Internal Server Error for
   audit logging failures" (url_handlers.go:93), "500 Internal Server Error: Storage or processing
   error" (batch_handlers.go:30).  render.Status alone writes no answer. *)
NoBlankAnswer == \A c \in Clients : request[c].at # "blank"

=============================================================================

-------------------------- MODULE FileStoreAppProofs --------------------------
(***************************************************************************)
(* What holds of FileStore under the calls of the application, for all     *)
(* values of its constants: every record is found under its own code, no   *)
(* URL gets two active codes as long as no write has failed, and the store *)
(* implements LinkRegistry.  The inductive invariant says that a code and  *)
(* an id are given to one link for ever, and, while no write has failed,   *)
(* that the file is what was acknowledged and memory what the file says.   *)
(***************************************************************************)
EXTENDS FileStoreProofs

(* Every version of a record there is. *)
Versions ==
    ({cacheByID[i] : i \in Ids} \cup {acked[i] : i \in Ids} \cup {file[k].rec : k \in DOMAIN file})
        \ {NoRec}

LinksInv ==
    /\ \A r, s \in Versions : r.id = s.id \/ r.code = s.code => r.id = s.id /\ SameLink(r, s)
    /\ \A i \in Ids : acked[i] # NoRec => acked[i].id = i

(* An active record that is to be written is new, and the only one. *)
WritesInv ==
    /\ status # "up" => pending = <<>>
    /\ \A k \in DOMAIN pending :
          Active(pending[k]) => acked[pending[k]] = NoRec /\ Len(pending) = 1

(* Among the first n lines of f, r is the last version of i, or there is none. *)
LastVersion(r, i, n, f) ==
    IF r = NoRec THEN \A k \in 1..n : f[k].rec.id # i
    ELSE \E k \in 1..n : /\ r = f[k].rec /\ r.id = i
                         /\ \A m \in 1..n : m > k => f[m].rec.id # i

Current(r) == r # NoRec /\ r.active

FileIsAcked ==
    /\ ~unterminated
    /\ \A k \in DOMAIN file : file[k].text \in {"whole", "long"}
    /\ \A i \in Ids : LastVersion(acked[i], i, Len(file), file)
    /\ \A i, j \in Ids :
          Current(acked[i]) /\ Current(acked[j]) /\ acked[i].url = acked[j].url => i = j

OneActive ==
    \A i, j \in Ids : Active(i) /\ Active(j) /\ cacheByID[i].url = cacheByID[j].url => i = j

Indexed == \A i \in Ids : Active(i) => originalURLIndex[cacheByID[i].url] # NoId

(* Memory follows the file while it is loaded, and is ahead of it by what is to be written then. *)
MemoryFollows ==
    /\ status = "loading" =>
          loaded <= Len(file) /\ \A i \in Ids : LastVersion(cacheByID[i], i, loaded, file)
    /\ status = "up" =>
          /\ \A i \in Ids \ ToSet(pending) : cacheByID[i] = acked[i]
          /\ \A i \in ToSet(pending) : ~Active(i) => acked[i] # NoRec
          /\ OneActive
    /\ status # "down" => Indexed

AppIInv ==
    /\ IInv /\ LinksInv /\ WritesInv
    /\ ~writeFailed => FileIsAcked /\ MemoryFollows

-----------------------------------------------------------------------------
(* Steps and what they are made of. *)

Saves == \E w \in Users, c \in Codes, u \in URLs : FreshCode(c) /\ Save(w, c, u)
Deletes == \E w \in Users, codes \in SUBSET Codes : SetDeletedByUserIDAndURLs(w, codes)
DeletesAgain == \E w \in Users, codes \in SUBSET Codes : SetDeletedAgain(w, codes)

(* A step is one of ten kinds, or none. *)
LEMMA AppSteps ==
    ASSUME [AppNext]_vars
    PROVE  \/ Saves \/ Deletes \/ DeletesAgain \/ AppendRecordToFile \/ AppendFails \/ AppendTorn
           \/ Restart \/ LoadLine \/ LoadDone \/ LoadFails \/ UNCHANGED vars
BY Zenon DEF AppNext, Environment, Saves, Deletes, DeletesAgain

(* The application's calls are calls of the store. *)
LEMMA AppStepIsStep == [AppNext]_vars => [Next]_vars
<1>1. AppNext => Next
  BY Zenon DEF AppNext, Next
<1>2. QED
  BY <1>1

(* All versions are records, and those in memory are kept under their own id. *)
LEMMA VersionsAre ==
    ASSUME IInv
    PROVE  /\ Versions \subseteq Rec
           /\ \A i \in Ids : Known(i) => cacheByID[i] \in Versions /\ cacheByID[i].id = i
           /\ \A i \in Ids : acked[i] # NoRec => acked[i] \in Versions
           /\ \A k \in DOMAIN file : file[k].rec \in Versions
<1> USE NoRecAssumption
<1>1. \A k \in DOMAIN file : file[k].rec \in Rec
  BY LineHasRecord DEF IInv
<1>2. Versions \subseteq Rec
  BY <1>1 DEF Versions, IInv, TypeOK
<1>3. QED
  BY <1>1, <1>2 DEF Versions, IInv, IndexesAgree, Known

(* Who is deleted: known, active records, all of them to be written. *)
LEMMA DeletedAre ==
    ASSUME IInv, NEW w \in Users, NEW codes \in SUBSET Codes, SetDeletedByUserIDAndURLs(w, codes)
    PROVE  \E ids \in SUBSET Ids :
              /\ \A i \in ids : Active(i)
              /\ SetActive(ids, FALSE) /\ RemoveFromIndexes(ids)
              /\ ToSet(pending') = ids /\ \A k \in DOMAIN pending' : pending'[k] \in ids
              /\ status = "up" /\ pending = <<>>
              /\ UNCHANGED <<status, file, unterminated, loaded, cache, userIDIndex, ghosts>>
<1> DEFINE ids == ToSwitch(w, codes, FALSE)
<1>1. ids \in SUBSET Ids /\ \A i \in ids : Known(i)
  BY SwitchedAreKnown DEF IInv
<1>2. \A i \in ids : cacheByID[i].active # FALSE
  BY DEF ToSwitch
<1>3. \A i \in ids : cacheByID[i].active \in BOOLEAN
  BY <1>1 DEF IInv, TypeOK, Known, Rec
<1>4. \A i \in ids : Active(i)
  BY <1>1, <1>2, <1>3 DEF Active
<1>5. /\ SetActive(ids, FALSE) /\ RemoveFromIndexes(ids) /\ pending' \in SetToSeqs(ids)
      /\ status = "up" /\ pending = <<>>
      /\ UNCHANGED <<status, file, unterminated, loaded, cache, userIDIndex, ghosts>>
  BY DEF SetDeletedByUserIDAndURLs, Callable, Locked
<1> HIDE DEF ids
<1>6. ToSet(pending') = ids /\ \A k \in DOMAIN pending' : pending'[k] \in ids
  BY <1>1, <1>5, OrderingIsOnto, OrderingIsSequence
<1>7. QED
  BY <1>1, <1>4, <1>5, <1>6

(* A new record r: under a fresh id and a fresh code. *)
NewRecord(c, u, i, r) ==
    /\ r.id = i /\ r.code = c /\ r.url = u /\ r.active = TRUE /\ r # NoRec
    /\ Fresh(i) /\ originalURLIndex[u] = NoId
    /\ cacheByID' = [cacheByID EXCEPT ![i] = r]
    /\ originalURLIndex' = [originalURLIndex EXCEPT ![u] = i]
    /\ pending' = <<i>>
    /\ status = "up" /\ pending = <<>>
    /\ UNCHANGED <<status, file, unterminated, loaded, ghosts>>

(* Save of a URL that is not indexed adds such a record. *)
LEMMA SavedIs ==
    ASSUME IInv, NEW w \in Users, NEW c \in Codes, NEW u \in URLs, Save(w, c, u)
    PROVE  \E i \in Ids, r \in Rec : NewRecord(c, u, i, r)
<1>1. PICK i \in Ids :
        /\ Fresh(i)
        /\ AddToCacheAndIndexes([id |-> i, user |-> w, code |-> c, url |-> u, active |-> TRUE])
        /\ pending' = <<i>>
  BY DEF Save, AddRecord
<1> DEFINE r == [id |-> i, user |-> w, code |-> c, url |-> u, active |-> TRUE]
<1>2. r \in Rec /\ r.id = i /\ r.code = c /\ r.url = u /\ r.active = TRUE
  BY DEF Rec
<1>3. /\ cacheByID' = [cacheByID EXCEPT ![i] = r]
      /\ originalURLIndex' = [originalURLIndex EXCEPT ![u] = i]
  BY <1>1 DEF AddToCacheAndIndexes
<1>4. /\ originalURLIndex[u] = NoId /\ status = "up" /\ pending = <<>>
      /\ UNCHANGED <<status, file, unterminated, loaded, ghosts>>
  BY DEF Save, Callable, Locked
<1> HIDE DEF r
<1>5. r # NoRec
  BY <1>2, NoRecAssumption
<1>6. NewRecord(c, u, i, r)
  BY <1>1, <1>2, <1>3, <1>4, <1>5 DEF NewRecord
<1>7. QED
  BY <1>2, <1>6

-----------------------------------------------------------------------------
(* Codes and ids are given for ever. *)

(* A step that adds no link but in versions of known ones keeps LinksInv. *)
LEMMA LinksKept ==
    ASSUME LinksInv, \A r \in Versions' : \E s \in Versions : r.id = s.id /\ SameLink(r, s),
           \A i \in Ids : acked'[i] # NoRec => acked'[i].id = i
    PROVE  LinksInv'
<1>1. ASSUME NEW r \in Versions', NEW s \in Versions', r.id = s.id \/ r.code = s.code
      PROVE  r.id = s.id /\ SameLink(r, s)
  <2>1. PICK t \in Versions : r.id = t.id /\ SameLink(r, t)
    OBVIOUS
  <2>2. PICK v \in Versions : s.id = v.id /\ SameLink(s, v)
    OBVIOUS
  <2>3. t.id = v.id /\ SameLink(t, v)
    BY <1>1, <2>1, <2>2 DEF LinksInv, SameLink
  <2>4. QED
    BY <2>1, <2>2, <2>3 DEF SameLink
<1>2. QED
  BY <1>1 DEF LinksInv

(* No call, failed write or replayed line gives a code or an id to a second link. *)
LEMMA LinksStep == ASSUME IInv, LinksInv, [AppNext]_vars PROVE LinksInv'
<1> USE NoRecAssumption
<1>1. CASE Saves
  <2>1. PICK w \in Users, c \in Codes, u \in URLs : FreshCode(c) /\ Save(w, c, u)
    BY <1>1 DEF Saves
  <2>2. PICK i \in Ids, r \in Rec : NewRecord(c, u, i, r)
    BY <2>1, SavedIs
  <2>3. /\ r.id = i /\ r.code = c /\ Fresh(i)
        /\ cacheByID' = [cacheByID EXCEPT ![i] = r] /\ UNCHANGED <<file, acked>>
    BY <2>2 DEF NewRecord, ghosts
  <2>4. Versions' \subseteq Versions \cup {r}
    BY <2>3 DEF Versions, IInv, TypeOK
  <2>5. \A v \in Versions : v.id # i /\ v.code # c
    BY <2>1, <2>3, VersionsAre DEF Versions, Fresh, FreshCode, Known, LinksInv
  <2>6. \A v \in Versions' : v = r \/ v \in Versions
    BY <2>4
  <2>7. QED
    BY <2>3, <2>5, <2>6 DEF LinksInv, SameLink
<1>2. CASE Deletes
  <2>1. PICK ids \in SUBSET Ids :
           /\ \A i \in ids : Active(i)
           /\ SetActive(ids, FALSE) /\ UNCHANGED <<file, acked>>
    BY <1>2, DeletedAre DEF Deletes, ghosts
  <2>2. ASSUME NEW i \in Ids, cacheByID'[i] # NoRec
        PROVE  \E s \in Versions : cacheByID'[i].id = s.id /\ SameLink(cacheByID'[i], s)
    <3>1. CASE i \in ids
      <4>1. cacheByID[i] \in Rec /\ cacheByID[i] \in Versions
        BY <2>1, <3>1, VersionsAre DEF Active, Known
      <4>2. cacheByID'[i] = [cacheByID[i] EXCEPT !.active = FALSE]
        BY <2>1, <3>1 DEF SetActive
      <4>3. QED
        BY <4>1, <4>2, FlagKeepsLink
    <3>2. CASE i \notin ids
      <4>1. cacheByID'[i] = cacheByID[i]
        BY <2>1, <3>2 DEF SetActive
      <4>2. QED
        BY <2>2, <4>1, VersionsAre DEF SameLink, Known
    <3>3. QED
      BY <3>1, <3>2
  <2>3. \A r \in Versions' : r \in Versions \/ \E i \in Ids : r = cacheByID'[i] /\ r # NoRec
    BY <2>1 DEF Versions
  <2>4. \A r \in Versions' : \E s \in Versions : r.id = s.id /\ SameLink(r, s)
    BY <2>2, <2>3 DEF SameLink
  <2>5. QED
    BY <2>1, <2>4, LinksKept DEF LinksInv
<1>3. ASSUME Versions' \subseteq Versions, \A i \in Ids : acked'[i] # NoRec => acked'[i].id = i
      PROVE  LinksInv'
  BY <1>3 DEF LinksInv
<1>4. CASE DeletesAgain
  <2>1. PICK w \in Users, codes \in SUBSET Codes : SetDeletedAgain(w, codes)
    BY <1>4 DEF DeletesAgain
  <2>2. /\ UNCHANGED <<file, cacheByID>>
        /\ \A i \in Ids : acked'[i] \in {cacheByID[i], acked[i]}
    BY <2>1 DEF SetDeletedAgain, memory
  <2>3. \A i \in Ids : acked'[i] # NoRec => acked'[i].id = i
    BY <2>2, VersionsAre DEF LinksInv, Known
  <2>4. Versions' \subseteq Versions
    BY <2>2 DEF Versions
  <2>5. QED
    BY <1>3, <2>3, <2>4
<1>5. CASE AppendRecordToFile \/ AppendFails \/ AppendTorn
  <2>1. Writing /\ UNCHANGED cacheByID
    BY <1>5 DEF AppendRecordToFile, AppendFails, AppendTorn, CallFails, memory
  <2>2. Writes \in Versions /\ Writes.id \in Ids
    BY <2>1, WritesAre, VersionsAre
  <2>3. \A k \in DOMAIN file' : file'[k].rec \in Versions
    <3>1. CASE UNCHANGED file
      BY <3>1, VersionsAre
    <3>2. CASE \E t \in Text : Arrive(Writes, t)
      BY <2>2, <3>2, ArriveAddsLine, VersionsAre, WritesAre, <2>1 DEF IInv
    <3>3. QED
      BY <1>5, <3>1, <3>2
      DEF AppendRecordToFile, AppendFails, AppendTorn, TextOf, Text
  <2>4. \A i \in Ids : acked'[i] # NoRec => acked'[i] \in Versions /\ acked'[i].id = i
    <3>1. CASE AppendRecordToFile
      BY <2>2, <3>1, VersionsAre DEF AppendRecordToFile, LinksInv, IInv, TypeOK
    <3>2. CASE AppendFails \/ AppendTorn
      BY <3>2, VersionsAre DEF AppendFails, AppendTorn, CallFails, LinksInv
    <3>3. QED
      BY <1>5, <3>1, <3>2
  <2>5. Versions' \subseteq Versions
    BY <2>1, <2>3, <2>4 DEF Versions
  <2>6. QED
    BY <1>3, <2>4, <2>5
<1>6. CASE Restart
  <2>1. UNCHANGED <<file, acked>> /\ \A i \in Ids : cacheByID'[i] = NoRec
    BY <1>6 DEF Restart, ghosts
  <2>2. Versions' \subseteq Versions
    BY <2>1 DEF Versions
  <2>3. QED
    BY <1>3, <2>1, <2>2 DEF LinksInv
<1>7. CASE LoadLine
  <2>1. UNCHANGED <<file, acked>>
    BY <1>7 DEF LoadLine, ghosts
  <2>2. \A i \in Ids : cacheByID'[i] # NoRec => cacheByID'[i] \in Versions
    BY <1>7, LoadedIs, VersionsAre DEF memory, IInv, TypeOK, Known
  <2>3. Versions' \subseteq Versions
    BY <2>1, <2>2 DEF Versions
  <2>4. QED
    BY <1>3, <2>1, <2>3 DEF LinksInv
<1>8. CASE LoadDone \/ LoadFails \/ UNCHANGED vars
  <2>1. UNCHANGED <<file, acked, cacheByID>>
    BY <1>8 DEF LoadDone, LoadFails, vars, memory, ghosts
  <2>2. Versions' \subseteq Versions
    BY <2>1 DEF Versions
  <2>3. QED
    BY <1>3, <2>1, <2>2 DEF LinksInv
<1>9. QED
  BY <1>1, <1>2, <1>4, <1>5, <1>6, <1>7, <1>8, AppSteps

(* Active records are written one at a time and once: only Save writes them. *)
LEMMA WritesStep == ASSUME IInv, WritesInv, [AppNext]_vars PROVE WritesInv'
<1>1. CASE Saves
  <2>1. PICK w \in Users, c \in Codes, u \in URLs : Save(w, c, u)
    BY <1>1 DEF Saves
  <2>2. PICK i \in Ids : /\ Fresh(i) /\ pending' = <<i>> /\ status = "up"
                         /\ UNCHANGED <<status, acked>>
    BY <2>1, SavedIs DEF NewRecord, ghosts
  <2>3. QED
    BY <2>2 DEF WritesInv, Fresh
<1>2. CASE Deletes
  <2>1. PICK ids \in SUBSET Ids :
           /\ \A i \in ids : Active(i)
           /\ SetActive(ids, FALSE) /\ \A k \in DOMAIN pending' : pending'[k] \in ids
           /\ status = "up" /\ UNCHANGED status
    BY <1>2, DeletedAre DEF Deletes, ghosts
  <2>2. \A i \in ids : ~cacheByID'[i].active
    BY <2>1 DEF SetActive, Active, Known, IInv, TypeOK, Rec
  <2>3. QED
    BY <2>1, <2>2 DEF WritesInv, Active
<1>3. CASE AppendRecordToFile
  <2>1. Writing /\ pending' = Tail(pending) /\ UNCHANGED <<status, cacheByID>>
    BY <1>3 DEF AppendRecordToFile, memory
  <2>2. \A k \in DOMAIN pending' : ~Active(pending'[k])
    BY <2>1, WritesAre DEF WritesInv
  <2>3. QED
    BY <2>1, <2>2 DEF WritesInv, Active, Known, Writing
<1>4. CASE pending' = <<>>
  BY <1>4 DEF WritesInv
<1>5. CASE UNCHANGED vars
  BY <1>5 DEF WritesInv, Active, Known, vars, memory, ghosts
<1>6. CASE DeletesAgain \/ AppendFails \/ AppendTorn \/ Restart \/ LoadLine \/ LoadDone \/ LoadFails
  <2>1. pending' = <<>>
    BY <1>6 DEF DeletesAgain, SetDeletedAgain, Callable, Locked, AppendFails, AppendTorn, CallFails,
                Restart, LoadLine, LoadDone, LoadFails, WritesInv
  <2>2. QED
    BY <1>4, <2>1
<1>7. QED
  BY <1>1, <1>2, <1>3, <1>5, <1>6, AppSteps

-----------------------------------------------------------------------------
(* While no write has failed, the file is what was acknowledged, and memory follows it. *)

(* The last version is one. *)
LEMMA LastIsUnique ==
    ASSUME NEW r, NEW s, NEW i, NEW n \in Nat, NEW f,
           LastVersion(r, i, n, f), LastVersion(s, i, n, f)
    PROVE  r = s
<1>1. CASE r = NoRec \/ s = NoRec
  BY <1>1 DEF LastVersion
<1>2. CASE r # NoRec /\ s # NoRec
  <2>1. PICK k \in 1..n : /\ r = f[k].rec /\ r.id = i
                          /\ \A m \in 1..n : m > k => f[m].rec.id # i
    BY <1>2 DEF LastVersion
  <2>2. PICK l \in 1..n : /\ s = f[l].rec /\ s.id = i
                          /\ \A m \in 1..n : m > l => f[m].rec.id # i
    BY <1>2 DEF LastVersion
  <2>3. ~ (k > l) /\ ~ (l > k)
    BY <2>1, <2>2
  <2>4. QED
    BY <2>1, <2>2, <2>3
<1>3. QED
  BY <1>1, <1>2

(* A line of another record leaves it the last. *)
LEMMA LastExtended ==
    ASSUME NEW r, NEW i, NEW n \in Nat, NEW f, NEW g, LastVersion(r, i, n, f),
           \A k \in 1..n : g[k] = f[k], g[n + 1].rec.id # i
    PROVE  LastVersion(r, i, n + 1, g)
<1>1. \A k \in 1..(n + 1) : k \in 1..n \/ k = n + 1
  OBVIOUS
<1>2. CASE r = NoRec
  BY <1>1, <1>2 DEF LastVersion
<1>3. CASE r # NoRec
  <2>1. PICK k \in 1..n : /\ r = f[k].rec /\ r.id = i
                          /\ \A m \in 1..n : m > k => f[m].rec.id # i
    BY <1>3 DEF LastVersion
  <2>2. k \in 1..(n + 1) /\ r = g[k].rec
    BY <2>1
  <2>3. \A m \in 1..(n + 1) : m > k => g[m].rec.id # i
    BY <1>1, <2>1
  <2>4. QED
    BY <1>3, <2>1, <2>2, <2>3 DEF LastVersion
<1>4. QED
  BY <1>2, <1>3

(* A line of the record itself is the last. *)
LEMMA LastAdded ==
    ASSUME NEW r, r # NoRec, NEW n \in Nat, NEW g, g[n + 1].rec = r
    PROVE  LastVersion(r, r.id, n + 1, g)
<1>1. n + 1 \in 1..(n + 1) /\ \A m \in 1..(n + 1) : ~ (m > n + 1)
  OBVIOUS
<1>2. QED
  BY <1>1 DEF LastVersion

(* A write that has not failed was no failure. *)
LEMMA WriteFailedStays ==
    ASSUME [AppNext]_vars, ~writeFailed'
    PROVE  /\ ~writeFailed
           /\ \/ Saves \/ Deletes \/ DeletesAgain \/ AppendRecordToFile
              \/ Restart \/ LoadLine \/ LoadDone \/ LoadFails \/ UNCHANGED vars
<1>1. ~ (AppendFails \/ AppendTorn)
  BY DEF AppendFails, AppendTorn, CallFails
<1>2. ASSUME Saves PROVE ~writeFailed
  BY <1>2 DEF Saves, Save, ghosts
<1>3. ASSUME Deletes PROVE ~writeFailed
  BY <1>3 DEF Deletes, SetDeletedByUserIDAndURLs, ghosts
<1>4. ASSUME DeletesAgain PROVE ~writeFailed
  BY <1>4 DEF DeletesAgain, SetDeletedAgain
<1>5. ASSUME \/ AppendRecordToFile \/ Restart \/ LoadLine \/ LoadDone \/ LoadFails
             \/ UNCHANGED vars
      PROVE  ~writeFailed
  BY <1>5 DEF AppendRecordToFile, Restart, LoadLine, LoadDone, LoadFails, vars, ghosts
<1>6. QED
  BY <1>1, <1>2, <1>3, <1>4, <1>5, AppSteps

(* Between calls memory is what was acknowledged, so a call that finds nothing to delete
   acknowledges what was acknowledged before. *)
LEMMA BetweenCalls ==
    ASSUME IInv, MemoryFollows, status = "up", pending = <<>>
    PROVE  cacheByID = acked
<1>1. ToSet(pending) = {}
  BY DEF ToSet
<1>2. \A i \in Ids : cacheByID[i] = acked[i]
  BY <1>1 DEF MemoryFollows
<1>3. QED
  BY <1>2 DEF IInv, TypeOK

(* Deleting what is deleted is no step at all. *)
LEMMA DeletesAgainChangesNothing ==
    ASSUME IInv, MemoryFollows, DeletesAgain
    PROVE  UNCHANGED vars
<1>1. PICK w \in Users, codes \in SUBSET Codes : SetDeletedAgain(w, codes)
  BY DEF DeletesAgain
<1>2. /\ status = "up" /\ pending = <<>>
      /\ acked' = [i \in Ids |-> IF i \in UserRecords(w, codes) THEN cacheByID[i] ELSE acked[i]]
      /\ UNCHANGED <<status, file, unterminated, loaded, memory, pending, batch, unsafe,
                     writeFailed>>
  BY <1>1 DEF SetDeletedAgain, Callable, Locked
<1>3. cacheByID = acked
  BY <1>2, BetweenCalls
<1>4. acked' = acked
  BY <1>2, <1>3 DEF IInv, TypeOK
<1>5. QED
  BY <1>2, <1>4 DEF vars, memory, ghosts

(* What a write that succeeds does while none has failed. *)
LEMMA AppendIs ==
    ASSUME IInv, FileIsAcked, AppendRecordToFile
    PROVE  /\ Writing /\ ~unterminated'
           /\ file' = Append(file, [rec |-> Writes, text |-> TextOf(Writes)])
           /\ acked' = [acked EXCEPT ![Head(pending)] = cacheByID[Head(pending)]]
           /\ pending' = Tail(pending)
           /\ UNCHANGED <<status, loaded, memory>>
<1>1. Writing /\ Writes.id = Head(pending) /\ Writes = cacheByID[Head(pending)]
  BY WritesAre DEF AppendRecordToFile
<1>2. QED
  BY <1>1 DEF AppendRecordToFile, Arrive, FileIsAcked

(* Every step that is no failed write leaves the file what was acknowledged: the line a write
   appends is the last of its record, and no other active record has its URL. *)
LEMMA FileStep ==
    ASSUME IInv, WritesInv, FileIsAcked, MemoryFollows, [AppNext]_vars, ~writeFailed'
    PROVE  FileIsAcked'
<1>1. CASE UNCHANGED <<file, unterminated, acked>>
  BY <1>1 DEF FileIsAcked
<1>2. CASE \/ Saves \/ Deletes \/ Restart \/ LoadLine \/ LoadDone \/ LoadFails \/ UNCHANGED vars
  BY <1>1, <1>2
  DEF Saves, Deletes, Save, SetDeletedByUserIDAndURLs, Restart, LoadLine, LoadDone, LoadFails,
      vars, ghosts
<1>3. CASE DeletesAgain
  BY <1>1, <1>3, DeletesAgainChangesNothing DEF vars, ghosts
<1>4. CASE AppendRecordToFile
  <2> DEFINE h == Head(pending)
             n == Len(file)
             r == cacheByID[h]
             line == [rec |-> r, text |-> TextOf(r)]
  <2>1. /\ r \in Rec /\ r # NoRec /\ h \in Ids /\ r.id = h /\ Writing /\ Writes = r
        /\ Len(pending) \in Nat /\ h = pending[1] /\ 1 \in DOMAIN pending
    BY <1>4, AppendIs, WritesAre
  <2>2. /\ ~unterminated' /\ file' = Append(file, line)
        /\ acked' = [acked EXCEPT ![h] = r]
    BY <1>4, <2>1, AppendIs
  <2>3. line.rec = r /\ line.text \in {"whole", "long"}
    BY DEF TextOf
  <2>4. /\ n \in Nat /\ Len(file') = n + 1 /\ DOMAIN file' = 1..(n + 1) /\ DOMAIN file = 1..n
        /\ file'[n + 1] = line /\ \A k \in 1..n : file'[k] = file[k]
    BY <2>2 DEF IInv, TypeOK
  <2>5. acked'[h] = r /\ \A i \in Ids \ {h} : acked'[i] = acked[i]
    BY <2>1, <2>2 DEF IInv, TypeOK
  <2> HIDE DEF h, n, r, line
  <2>6. ASSUME NEW k \in DOMAIN file' PROVE file'[k].text \in {"whole", "long"}
    BY <2>3, <2>4 DEF FileIsAcked
  <2>7. ASSUME NEW i \in Ids PROVE LastVersion(acked'[i], i, Len(file'), file')
    <3>1. CASE i = h
      BY <2>1, <2>3, <2>4, <2>5, <3>1, LastAdded
    <3>2. CASE i # h
      <4>1. acked'[i] = acked[i] /\ LastVersion(acked[i], i, n, file)
        BY <2>5, <3>2 DEF FileIsAcked, n
      <4>2. file'[n + 1].rec.id # i
        BY <2>1, <2>3, <2>4, <3>2
      <4>3. LastVersion(acked[i], i, n + 1, file')
        BY <2>4, <4>1, <4>2, LastExtended
      <4>4. QED
        BY <2>4, <4>1, <4>3
    <3>3. QED
      BY <3>1, <3>2
  <2>8. ASSUME NEW j \in Ids, j # h, Current(r), Current(acked[j])
        PROVE  acked[j].url # r.url
    <3>1. Active(h)
      BY <2>8 DEF Active, Known, Current, r
    <3>2. Len(pending) = 1
      BY <2>1, <3>1 DEF WritesInv
    <3>3. j \notin ToSet(pending)
      BY <2>1, <2>8, <3>2 DEF ToSet, IInv, TypeOK
    <3>4. cacheByID[j] = acked[j] /\ OneActive
      BY <2>1, <3>3 DEF MemoryFollows, Writing
    <3>5. Active(j)
      BY <2>8, <3>4 DEF Active, Known, Current
    <3>6. QED
      BY <2>1, <2>8, <3>1, <3>4, <3>5 DEF OneActive, r
  <2>9. ASSUME NEW i \in Ids, NEW j \in Ids, Current(acked'[i]), Current(acked'[j]),
               acked'[i].url = acked'[j].url
        PROVE  i = j
    <3>1. CASE i = h \/ j = h
      BY <2>5, <2>8, <2>9, <3>1
    <3>2. CASE i # h /\ j # h
      BY <2>5, <2>9, <3>2 DEF FileIsAcked
    <3>3. QED
      BY <3>1, <3>2
  <2>10. QED
    BY <2>2, <2>6, <2>7, <2>9 DEF FileIsAcked
<1>5. QED
  BY <1>2, <1>3, <1>4, WriteFailedStays

(* Nobody has an active record of a URL that is not indexed. *)
LEMMA SaveKeepsMemory ==
    ASSUME IInv, MemoryFollows, Saves PROVE MemoryFollows'
<1>1. PICK w \in Users, c \in Codes, u \in URLs : Save(w, c, u)
  BY DEF Saves
<1>2. PICK i \in Ids, r \in Rec : NewRecord(c, u, i, r)
  BY <1>1, SavedIs
<1>3. /\ r.url = u /\ r.active = TRUE /\ r # NoRec /\ originalURLIndex[u] = NoId
      /\ pending' = <<i>> /\ status = "up" /\ pending = <<>> /\ UNCHANGED <<status, acked>>
  BY <1>2 DEF NewRecord, ghosts
<1>4. /\ cacheByID'[i] = r /\ \A j \in Ids \ {i} : cacheByID'[j] = cacheByID[j]
      /\ originalURLIndex'[u] = i
      /\ \A v \in URLs \ {u} : originalURLIndex'[v] = originalURLIndex[v]
  BY <1>2 DEF NewRecord, IInv, TypeOK
<1>5. \A j \in Ids \ {i} : Active(j)' <=> Active(j)
  BY <1>4 DEF Active, Known
<1>6. OneActive /\ Indexed /\ cacheByID = acked
  BY <1>3, BetweenCalls DEF MemoryFollows
<1>7. \A j \in Ids : Active(j) => cacheByID[j].url \in URLs \ {u}
  BY <1>3, <1>6 DEF Indexed, Active, Known, IInv, TypeOK, Rec
<1>8. OneActive'
  BY <1>3, <1>4, <1>5, <1>6, <1>7 DEF OneActive
<1>9. Indexed'
  BY <1>3, <1>4, <1>5, <1>6, <1>7, FileStoreAssumption DEF Indexed
<1>10. ToSet(pending') = {i}
  BY <1>3 DEF ToSet
<1>11. \A j \in Ids \ ToSet(pending') : cacheByID'[j] = acked'[j]
  BY <1>3, <1>4, <1>6, <1>10
<1>12. Active(i)'
  BY <1>3, <1>4 DEF Active, Known
<1>13. QED
  BY <1>3, <1>8, <1>9, <1>10, <1>11, <1>12 DEF MemoryFollows

(* A deleted record loses the entry of its URL, and was the only active one there. *)
LEMMA DeleteKeepsMemory ==
    ASSUME IInv, MemoryFollows, Deletes PROVE MemoryFollows'
<1>1. PICK w \in Users, codes \in SUBSET Codes : SetDeletedByUserIDAndURLs(w, codes)
  BY DEF Deletes
<1>2. PICK ids \in SUBSET Ids :
        /\ \A i \in ids : Active(i)
        /\ SetActive(ids, FALSE) /\ RemoveFromIndexes(ids)
        /\ ToSet(pending') = ids /\ \A k \in DOMAIN pending' : pending'[k] \in ids
        /\ status = "up" /\ pending = <<>>
        /\ UNCHANGED <<status, file, unterminated, loaded, cache, userIDIndex, ghosts>>
  BY <1>1, DeletedAre
<1>3. /\ \A i \in ids : cacheByID'[i] = [cacheByID[i] EXCEPT !.active = FALSE]
      /\ \A i \in Ids \ ids : cacheByID'[i] = cacheByID[i]
      /\ \A u \in URLs : \/ originalURLIndex'[u] = originalURLIndex[u]
                         \/ \E k \in ids : cacheByID[k].url = u
  BY <1>2 DEF SetActive, RemoveFromIndexes
<1>4. OneActive /\ Indexed /\ cacheByID = acked
  BY <1>2, BetweenCalls DEF MemoryFollows
<1>5. ASSUME NEW i \in ids PROVE ~cacheByID'[i].active
  <2>1. cacheByID[i] \in Rec /\ cacheByID'[i] = [cacheByID[i] EXCEPT !.active = FALSE]
    BY <1>2, <1>3 DEF Active, Known, IInv, TypeOK
  <2>2. QED
    BY <2>1 DEF Rec
<1>6. \A i \in Ids : Active(i)' => i \notin ids /\ Active(i) /\ cacheByID'[i] = cacheByID[i]
  BY <1>3, <1>5 DEF Active, Known
<1>7. OneActive'
  BY <1>4, <1>6 DEF OneActive
<1>8. ASSUME NEW i \in Ids, Active(i)' PROVE originalURLIndex'[cacheByID'[i].url] # NoId
  <2>1. i \notin ids /\ Active(i) /\ cacheByID'[i] = cacheByID[i]
    BY <1>6, <1>8
  <2>2. cacheByID[i].url \in URLs
    BY <2>1 DEF Active, Known, IInv, TypeOK, Rec
  <2>3. \A k \in ids : cacheByID[k].url # cacheByID[i].url
    BY <1>2, <1>4, <2>1 DEF OneActive
  <2>4. QED
    BY <1>3, <1>4, <2>1, <2>2, <2>3 DEF Indexed
<1>9. Indexed'
  BY <1>8 DEF Indexed
<1>10. /\ \A i \in Ids \ ToSet(pending') : cacheByID'[i] = acked'[i]
       /\ \A i \in ToSet(pending') : acked'[i] # NoRec
  BY <1>2, <1>3, <1>4 DEF ghosts, Active, Known
<1>11. QED
  BY <1>2, <1>7, <1>9, <1>10 DEF MemoryFollows

(* A record that is written is no longer ahead of the file. *)
LEMMA AppendKeepsMemory ==
    ASSUME IInv, FileIsAcked, MemoryFollows, AppendRecordToFile PROVE MemoryFollows'
<1> DEFINE h == Head(pending)
<1>1. /\ Writing /\ acked' = [acked EXCEPT ![h] = cacheByID[h]]
      /\ pending' = Tail(pending)
      /\ UNCHANGED <<status, loaded, cacheByID, originalURLIndex>>
  BY AppendIs DEF memory
<1>2. /\ h \in Ids /\ h = pending[1] /\ cacheByID[h] # NoRec
      /\ \A k \in DOMAIN pending' : k + 1 \in DOMAIN pending /\ pending'[k] = pending[k + 1]
  BY <1>1, WritesAre
<1>3. \A k \in DOMAIN pending : k = 1 \/ (k - 1 \in DOMAIN pending' /\ pending'[k - 1] = pending[k])
  BY <1>1 DEF Writing, IInv, TypeOK
<1>4. acked'[h] = cacheByID[h] /\ \A i \in Ids \ {h} : acked'[i] = acked[i]
  BY <1>1, <1>2 DEF IInv, TypeOK
<1> HIDE DEF h
<1>5. \A i \in ToSet(pending') : i \in ToSet(pending)
  BY <1>2 DEF ToSet
<1>6. \A i \in ToSet(pending) : i = h \/ i \in ToSet(pending')
  BY <1>2, <1>3 DEF ToSet
<1>7. \A i \in ToSet(pending) : i \in Ids
  BY DEF ToSet, IInv, TypeOK
<1>8. \A i \in Ids \ ToSet(pending') : cacheByID'[i] = acked'[i]
  BY <1>1, <1>4, <1>6 DEF MemoryFollows, Writing
<1>9. \A i \in ToSet(pending') : ~Active(i)' => acked'[i] # NoRec
  BY <1>1, <1>2, <1>4, <1>5, <1>7 DEF MemoryFollows, Writing, Active, Known
<1>10. OneActive' /\ Indexed'
  BY <1>1 DEF MemoryFollows, Writing, OneActive, Indexed, Active, Known
<1>11. QED
  BY <1>1, <1>8, <1>9, <1>10 DEF MemoryFollows, Writing

(* A line replaces the version of its record that was the last before it. *)
LEMMA LoadLineKeepsMemory ==
    ASSUME IInv, FileIsAcked, MemoryFollows, LoadLine PROVE MemoryFollows'
<1> DEFINE n == loaded
           r == file[n + 1].rec
<1>1. /\ n \in Nat /\ n + 1 \in DOMAIN file /\ n + 1 <= Len(file) /\ r \in Rec /\ r # NoRec
      /\ loaded' = n + 1
  BY LoadedIs DEF IInv, TypeOK
<1>2. file[n + 1].text = "whole"
  BY <1>1, LoadedIs DEF FileIsAcked
<1>3. /\ cacheByID' = [cacheByID EXCEPT ![r.id] = r]
      /\ originalURLIndex' = IF r.active THEN [originalURLIndex EXCEPT ![r.url] = r.id]
                                         ELSE originalURLIndex
  BY <1>2, LoadedIs
<1>4. status = "loading" /\ UNCHANGED <<status, file>>
  BY DEF LoadLine
<1>5. r.id \in Ids /\ r.url \in URLs /\ r.active \in BOOLEAN
  BY <1>1 DEF Rec
<1> HIDE DEF n, r
<1>6. cacheByID'[r.id] = r /\ \A i \in Ids \ {r.id} : cacheByID'[i] = cacheByID[i]
  BY <1>3, <1>5 DEF IInv, TypeOK
<1>7. ASSUME NEW i \in Ids PROVE LastVersion(cacheByID'[i], i, n + 1, file')
  <2>1. CASE i = r.id
    BY <1>1, <1>4, <1>6, <2>1, LastAdded DEF r
  <2>2. CASE i # r.id
    <3>1. LastVersion(cacheByID[i], i, n, file)
      BY <1>4 DEF MemoryFollows, n
    <3>2. file[n + 1].rec.id # i
      BY <2>2 DEF r
    <3>3. LastVersion(cacheByID[i], i, n + 1, file)
      BY <1>1, <3>1, <3>2, LastExtended
    <3>4. QED
      BY <1>4, <1>6, <2>2, <3>3
  <2>3. QED
    BY <2>1, <2>2
<1>8. ASSUME NEW i \in Ids, Active(i)' PROVE originalURLIndex'[cacheByID'[i].url] # NoId
  <2>1. CASE i = r.id
    BY <1>3, <1>5, <1>6, <1>8, <2>1, FileStoreAssumption DEF Active, Known, IInv, TypeOK
  <2>2. CASE i # r.id
    <3>1. Active(i) /\ cacheByID'[i] = cacheByID[i] /\ cacheByID[i].url \in URLs
      BY <1>6, <1>8, <2>2 DEF Active, Known, IInv, TypeOK, Rec
    <3>2. originalURLIndex[cacheByID[i].url] # NoId
      BY <1>4, <3>1 DEF MemoryFollows, Indexed
    <3>3. QED
      BY <1>3, <1>5, <3>1, <3>2, FileStoreAssumption DEF IInv, TypeOK
  <2>3. QED
    BY <2>1, <2>2
<1>9. QED
  BY <1>1, <1>4, <1>7, <1>8 DEF MemoryFollows, Indexed

(* When all lines are read, memory is what was acknowledged. *)
LEMMA LoadDoneKeepsMemory ==
    ASSUME IInv, WritesInv, FileIsAcked, MemoryFollows, LoadDone PROVE MemoryFollows'
<1>1. /\ status = "loading" /\ loaded = Len(file) /\ status' = "up" /\ pending' = <<>>
      /\ UNCHANGED <<cacheByID, originalURLIndex, acked>>
  BY DEF LoadDone, memory, ghosts, WritesInv
<1>2. Len(file) \in Nat
  BY DEF IInv, TypeOK
<1>3. \A i \in Ids : cacheByID[i] = acked[i]
  BY <1>1, <1>2, LastIsUnique DEF MemoryFollows, FileIsAcked
<1>4. OneActive'
  BY <1>1, <1>3 DEF FileIsAcked, OneActive, Active, Known, Current
<1>5. Indexed'
  BY <1>1 DEF MemoryFollows, Indexed, Active, Known
<1>6. ToSet(pending') = {}
  BY <1>1 DEF ToSet
<1>7. QED
  BY <1>1, <1>3, <1>4, <1>5, <1>6 DEF MemoryFollows

(* Every step that is no failed write leaves memory following the file. *)
LEMMA MemoryStep ==
    ASSUME IInv, WritesInv, FileIsAcked, MemoryFollows, [AppNext]_vars, ~writeFailed'
    PROVE  MemoryFollows'
<1>1. CASE Restart
  <2>1. /\ status' = "loading" /\ loaded' = 0
        /\ \A i \in Ids : cacheByID'[i] = NoRec
    BY <1>1 DEF Restart
  <2>2. \A i \in Ids : LastVersion(cacheByID'[i], i, loaded', file') /\ ~Active(i)'
    BY <2>1 DEF LastVersion, Active, Known
  <2>3. loaded' <= Len(file')
    BY <1>1 DEF Restart, IInv, TypeOK
  <2>4. QED
    BY <2>1, <2>2, <2>3 DEF MemoryFollows, Indexed
<1>2. CASE LoadFails
  BY <1>2 DEF LoadFails, MemoryFollows
<1>3. CASE UNCHANGED vars
  BY <1>3 DEF vars, memory, ghosts, MemoryFollows, Indexed, OneActive, Active, Known
<1>4. CASE DeletesAgain
  BY <1>3, <1>4, DeletesAgainChangesNothing
<1>5. QED
  BY <1>1, <1>2, <1>3, <1>4, WriteFailedStays, SaveKeepsMemory, DeleteKeepsMemory,
     AppendKeepsMemory, LoadLineKeepsMemory, LoadDoneKeepsMemory

-----------------------------------------------------------------------------
(* The invariant *)

(* An empty store that loads an empty file satisfies it, *)
LEMMA InitGivesAppIInv == Init => AppIInv
<1> SUFFICES ASSUME Init PROVE AppIInv
  OBVIOUS
<1>1. IInv
  BY InitGivesIInv
<1>2. Versions = {} /\ \A i \in Ids : acked[i] = NoRec /\ cacheByID[i] = NoRec
  BY DEF Versions, Init, EmptyMemory
<1>3. LinksInv
  BY <1>2 DEF LinksInv
<1>4. WritesInv
  BY DEF WritesInv, Init
<1>5. FileIsAcked
  <2>1. Len(file) = 0 /\ DOMAIN file = {} /\ ~unterminated
    BY DEF Init
  <2>2. \A i \in Ids : LastVersion(acked[i], i, Len(file), file)
    BY <1>2, <2>1 DEF LastVersion
  <2>3. \A i \in Ids : ~Current(acked[i])
    BY <1>2 DEF Current
  <2>4. QED
    BY <2>1, <2>2, <2>3 DEF FileIsAcked
<1>6. MemoryFollows
  <2>1. Len(file) = 0 /\ loaded = 0 /\ status = "loading"
    BY DEF Init
  <2>2. \A i \in Ids : LastVersion(cacheByID[i], i, loaded, file)
    BY <1>2, <2>1 DEF LastVersion
  <2>3. Indexed
    BY <1>2 DEF Indexed, Active, Known
  <2>4. QED
    BY <2>1, <2>2, <2>3 DEF MemoryFollows
<1>7. QED
  BY <1>1, <1>3, <1>4, <1>5, <1>6 DEF AppIInv

(* and every step keeps it. *)
LEMMA NextKeepsAppIInv == AppIInv /\ [AppNext]_vars => AppIInv'
<1> SUFFICES ASSUME AppIInv, [AppNext]_vars PROVE AppIInv'
  OBVIOUS
<1>1. IInv'
  BY AppStepIsStep, NextKeepsIInv DEF AppIInv
<1>2. LinksInv' /\ WritesInv'
  BY LinksStep, WritesStep DEF AppIInv
<1>3. ASSUME ~writeFailed' PROVE FileIsAcked' /\ MemoryFollows'
  BY <1>3, WriteFailedStays, FileStep, MemoryStep DEF AppIInv
<1>4. QED
  BY <1>1, <1>2, <1>3 DEF AppIInv

(* AppIInv is inductive under the calls of the application. *)
THEOREM AppInductiveInvariant == AppSpec => []AppIInv
<1>1. QED
  BY InitGivesAppIInv, NextKeepsAppIInv, PTL DEF AppSpec

(* Under the calls of the application every record is found under its own code, even after failed
   writes: the cache never leads from a code to another record. *)
THEOREM RecordsReachable == AppSpec => []EveryRecordReachable
<1>1. ASSUME IInv, LinksInv PROVE EveryRecordReachable
  <2>1. ASSUME NEW i \in Ids, Known(i) PROVE cache[cacheByID[i].code] = i
    <3> DEFINE j == cache[cacheByID[i].code]
    <3>1. cacheByID[i].code \in Codes /\ j # NoId
      BY <1>1, <2>1 DEF IInv, TypeOK, IndexesAgree, Known, Rec
    <3>2. j \in Ids /\ Known(j) /\ cacheByID[j].code = cacheByID[i].code
      BY <1>1, <3>1 DEF IInv, TypeOK, IndexesAgree
    <3> HIDE DEF j
    <3>3. cacheByID[i].id = i /\ cacheByID[j].id = j
      BY <1>1, <2>1, <3>2, VersionsAre
    <3>4. cacheByID[i] \in Versions /\ cacheByID[j] \in Versions
      BY <1>1, <2>1, <3>2, VersionsAre
    <3>5. i = j
      BY <1>1, <3>2, <3>3, <3>4 DEF LinksInv
    <3>6. QED
      BY <3>5 DEF j
  <2>2. QED
    BY <2>1 DEF EveryRecordReachable
<1>2. AppIInv => EveryRecordReachable
  BY <1>1 DEF AppIInv
<1>3. QED
  BY <1>2, AppInductiveInvariant, PTL

(* The calls of the application never give one URL two active short codes, across restarts and
   kills in the middle of a call, as long as no write has failed. *)
THEOREM URLsUnique == AppSpec => []UniqueActive
<1>1. AppIInv => UniqueActive
  BY DEF AppIInv, MemoryFollows, OneActive, UniqueActive
<1>2. QED
  BY <1>1, AppInductiveInvariant, PTL

-----------------------------------------------------------------------------
(* Refinement: what the acknowledged records say of a code. *)

LinkOf(r) == [url |-> r.url, active |-> r.active]
Has(a, i, c) == a[i] # NoRec /\ a[i].code = c
LinksOf(a) == [c \in Codes |->
    IF {i \in Ids : Has(a, i, c)} = {} THEN NoRec
    ELSE LinkOf(a[CHOOSE i \in {i \in Ids : Has(a, i, c)} : TRUE])]
OneIdPerCode(a) == \A c \in Codes : \A i, j \in Ids : Has(a, i, c) /\ Has(a, j, c) => i = j

(* Links is a function of the acknowledged records. *)
LEMMA LinksAre == Links = LinksOf(acked) /\ Links' = LinksOf(acked')
BY Zenon DEF Links, LinksOf, Has, LinkOf, Registered

(* The link of a code is that of the one record under it, *)
LEMMA LinkIs ==
    ASSUME NEW a, OneIdPerCode(a), NEW c \in Codes, NEW i \in Ids, Has(a, i, c)
    PROVE  LinksOf(a)[c] = LinkOf(a[i])
<1> DEFINE S == {k \in Ids : Has(a, k, c)}
           x == CHOOSE k \in S : TRUE
<1>1. LinksOf(a)[c] = IF S = {} THEN NoRec ELSE LinkOf(a[x])
  BY DEF LinksOf
<1>2. i \in S
  OBVIOUS
<1>3. x \in S
  BY <1>2
<1>4. x = i
  BY <1>3 DEF OneIdPerCode
<1>5. QED
  BY <1>1, <1>2, <1>4

(* or none, *)
LEMMA LinkIsNone ==
    ASSUME NEW a, NEW c \in Codes
    PROVE  /\ (\A i \in Ids : ~Has(a, i, c)) => LinksOf(a)[c] = NoRec
           /\ LinksOf(a)[c] # NoRec => \E i \in Ids : Has(a, i, c)
<1> DEFINE S == {k \in Ids : Has(a, k, c)}
<1>1. LinksOf(a)[c] = IF S = {} THEN NoRec ELSE LinkOf(a[CHOOSE k \in S : TRUE])
  BY DEF LinksOf
<1>2. S = {} <=> \A i \in Ids : ~Has(a, i, c)
  OBVIOUS
<1> HIDE DEF S
<1>3. QED
  BY <1>1, <1>2

(* and stays when the records under the code do. *)
LEMMA LinkKept ==
    ASSUME NEW a, NEW b, NEW c \in Codes,
           \A i \in Ids : Has(a, i, c) <=> Has(b, i, c),
           \A i \in Ids : Has(a, i, c) => a[i] = b[i]
    PROVE  LinksOf(a)[c] = LinksOf(b)[c]
<1> DEFINE S == {k \in Ids : Has(a, k, c)}
           T == {k \in Ids : Has(b, k, c)}
<1>1. /\ LinksOf(a)[c] = IF S = {} THEN NoRec ELSE LinkOf(a[CHOOSE k \in S : TRUE])
      /\ LinksOf(b)[c] = IF T = {} THEN NoRec ELSE LinkOf(b[CHOOSE k \in T : TRUE])
  BY DEF LinksOf
<1>2. S = T /\ \A i \in S : a[i] = b[i]
  OBVIOUS
<1> HIDE DEF S, T
<1>3. S # {} => (CHOOSE k \in S : TRUE) \in S
  OBVIOUS
<1>4. QED
  BY <1>1, <1>2, <1>3

(* One code is not acknowledged for two records, *)
LEMMA AckedAreUnique ==
    ASSUME IInv, LinksInv PROVE OneIdPerCode(acked)
BY VersionsAre DEF LinksInv, OneIdPerCode, Has

(* nor after a step. *)
LEMMA NextAckedAreUnique ==
    ASSUME LinksInv' PROVE OneIdPerCode(acked')
<1>1. \A i \in Ids : acked'[i] # NoRec => acked'[i] \in Versions' /\ acked'[i].id = i
  BY DEF LinksInv, Versions
<1>2. QED
  BY <1>1 DEF LinksInv, OneIdPerCode, Has

(* What memory has of the records S is acknowledged. *)
Acknowledges(S) == acked' = [i \in Ids |-> IF i \in S THEN cacheByID[i] ELSE acked[i]]

(* What an acknowledgement does to the links: those of its records change, and keep their URL. *)
LEMMA AcknowledgedLinks ==
    ASSUME IInv, LinksInv, LinksInv', NEW S \in SUBSET Ids, \A i \in S : Known(i),
           Acknowledges(S)
    PROVE  /\ \A i \in S :
                 LET c == cacheByID[i].code
                 IN  /\ c \in Codes /\ Links'[c] = LinkOf(cacheByID[i])
                     /\ acked[i] # NoRec => Links[c] = LinkOf(acked[i])
                     /\ Links[c] # NoRec => acked[i] # NoRec /\ acked[i].url = cacheByID[i].url
           /\ \A c \in Codes : (\A i \in S : cacheByID[i].code # c) => Links'[c] = Links[c]
<1>1. OneIdPerCode(acked) /\ OneIdPerCode(acked')
  BY AckedAreUnique, NextAckedAreUnique
<1>2. /\ \A i \in S : acked'[i] = cacheByID[i]
      /\ \A i \in Ids \ S : acked'[i] = acked[i]
  BY DEF Acknowledges
<1>3. ASSUME NEW i \in S
      PROVE  /\ cacheByID[i] \in Rec /\ cacheByID[i] # NoRec /\ cacheByID[i].code \in Codes
             /\ \A j \in Ids : Has(acked, j, cacheByID[i].code) =>
                   i = j /\ acked[j].url = cacheByID[i].url
             /\ acked[i] # NoRec => acked[i].code = cacheByID[i].code
  <2>1. cacheByID[i] \in Rec /\ cacheByID[i] # NoRec /\ cacheByID[i].code \in Codes
    BY <1>3 DEF Known, IInv, TypeOK, Rec
  <2>2. cacheByID[i] \in Versions /\ cacheByID[i].id = i
    BY <1>3, VersionsAre
  <2>3. \A j \in Ids : acked[j] # NoRec => acked[j] \in Versions /\ acked[j].id = j
    BY VersionsAre DEF LinksInv
  <2>4. QED
    BY <2>1, <2>2, <2>3 DEF LinksInv, SameLink, Has
<1>4. ASSUME NEW i \in S
      PROVE  LET c == cacheByID[i].code
             IN  /\ c \in Codes /\ LinksOf(acked')[c] = LinkOf(cacheByID[i])
                 /\ acked[i] # NoRec => LinksOf(acked)[c] = LinkOf(acked[i])
                 /\ LinksOf(acked)[c] # NoRec =>
                       acked[i] # NoRec /\ acked[i].url = cacheByID[i].url
  <2> DEFINE c == cacheByID[i].code
  <2>1. i \in Ids /\ c \in Codes /\ acked'[i] = cacheByID[i] /\ Has(acked', i, c)
    BY <1>2, <1>3 DEF Has
  <2>2. acked[i] # NoRec => Has(acked, i, c)
    BY <1>3 DEF Has
  <2>3. \A j \in Ids : Has(acked, j, c) => /\ i = j /\ acked[j].url = cacheByID[i].url
                                           /\ acked[j] # NoRec
    BY <1>3 DEF Has
  <2> HIDE DEF c
  <2>4. LinksOf(acked')[c] = LinkOf(cacheByID[i])
    BY <1>1, <2>1, LinkIs
  <2>5. acked[i] # NoRec => LinksOf(acked)[c] = LinkOf(acked[i])
    BY <1>1, <2>1, <2>2, LinkIs
  <2>6. LinksOf(acked)[c] # NoRec => acked[i] # NoRec /\ acked[i].url = cacheByID[i].url
    BY <2>1, <2>3, LinkIsNone
  <2>7. QED
    BY <2>1, <2>4, <2>5, <2>6 DEF c
<1>5. ASSUME NEW c \in Codes, \A i \in S : cacheByID[i].code # c
      PROVE  LinksOf(acked')[c] = LinksOf(acked)[c]
  <2>1. \A i \in S : ~Has(acked, i, c) /\ ~Has(acked', i, c)
    BY <1>2, <1>3, <1>5 DEF Has
  <2>2. \A i \in Ids \ S : Has(acked, i, c) <=> Has(acked', i, c)
    BY <1>2 DEF Has
  <2>3. QED
    BY <1>2, <2>1, <2>2, LinkKept
<1>6. QED
  BY <1>4, <1>5, LinksAre

(* Acknowledging inactive records retires their codes. *)
LEMMA AcknowledgedAreRetired ==
    ASSUME IInv, LinksInv, LinksInv', NEW S \in SUBSET Ids, \A i \in S : Known(i),
           Acknowledges(S), \A i \in S : ~cacheByID[i].active,
           writeFailed \/ \A i \in S : acked[i] # NoRec,
           UNCHANGED writeFailed
    PROVE  Registry!Next
<1> DEFINE retired == {cacheByID[i].code : i \in S}
<1>1. retired \in SUBSET Codes
  BY AcknowledgedLinks
<1>2. ASSUME NEW c \in retired
      PROVE  /\ Links[c] # NoRec \/ writeFailed
             /\ Links'[c] \in [url : URLs, active : {FALSE}]
             /\ Links[c] # NoRec => Links'[c].url = Links[c].url
  <2>1. PICK i \in S : c = cacheByID[i].code
    OBVIOUS
  <2>2. /\ Links'[c] = LinkOf(cacheByID[i])
        /\ acked[i] # NoRec => Links[c] = LinkOf(acked[i])
        /\ Links[c] # NoRec => acked[i] # NoRec /\ acked[i].url = cacheByID[i].url
    BY <2>1, AcknowledgedLinks
  <2>3. cacheByID[i] \in Rec /\ cacheByID[i].url \in URLs /\ cacheByID[i].active = FALSE
    BY <2>1 DEF Known, IInv, TypeOK, Rec
  <2>4. acked[i] # NoRec => LinkOf(acked[i]) # NoRec
    BY NoRecAssumption DEF LinkOf, IInv, TypeOK, Rec
  <2>5. Links'[c] \in [url : URLs, active : {FALSE}] /\ Links'[c].url = cacheByID[i].url
    <3>1. LinkOf(cacheByID[i]) = [url |-> cacheByID[i].url, active |-> FALSE]
      BY <2>3 DEF LinkOf
    <3>2. QED
      BY <2>2, <2>3, <3>1
  <2>6. Links[c] # NoRec => Links[c].url = cacheByID[i].url
    BY <2>2 DEF LinkOf
  <2>7. QED
    BY <2>2, <2>4, <2>5, <2>6
<1>3. Links' = [c \in Codes |-> IF c \in retired THEN Links'[c] ELSE Links[c]]
  <2>1. \A c \in Codes \ retired : Links'[c] = Links[c]
    BY AcknowledgedLinks
  <2>2. Links' = [c \in Codes |-> Links'[c]]
    BY DEF Links
  <2> HIDE DEF retired
  <2>3. QED
    BY <2>1, <2>2
<1> HIDE DEF retired
<1>4. Registry!Retire(retired)
  BY <1>2, <1>3 DEF Registry!Retire, Registry!Published
<1>5. QED
  BY <1>1, <1>4 DEF Registry!Next

(* A new record that is acknowledged publishes its code. *)
LEMMA AcknowledgedIsPublished ==
    ASSUME AppIInv, AppIInv', NEW h \in Ids, Known(h), Acknowledges({h}),
           cacheByID[h].active, acked[h] = NoRec, UNCHANGED writeFailed
    PROVE  Registry!Next
<1> DEFINE r == cacheByID[h]
           c == r.code
<1>1. r \in Rec /\ c \in Codes /\ r.url \in URLs /\ r # NoRec
  BY DEF AppIInv, Known, IInv, TypeOK, Rec
<1>2. /\ Links'[c] = LinkOf(r) /\ Links[c] = NoRec
      /\ \A d \in Codes : d # c => Links'[d] = Links[d]
  BY AcknowledgedLinks DEF AppIInv
<1>3. LinkOf(r) = [url |-> r.url, active |-> TRUE]
  BY <1>1 DEF LinkOf, Rec
<1>4. acked'[h] = r /\ \A i \in Ids \ {h} : acked'[i] = acked[i]
  BY DEF Acknowledges
<1>5. r.active
  OBVIOUS
<1> HIDE DEF r, c
<1>6. Links' = [Links EXCEPT ![c] = [url |-> r.url, active |-> TRUE]]
  <2>1. Links' = [d \in Codes |-> Links'[d]] /\ Links = [d \in Codes |-> Links[d]]
    BY DEF Links
  <2>2. QED
    BY <1>1, <1>2, <1>3, <2>1
<1>7. ASSUME ~writeFailed, NEW d \in Codes, Links[d] # NoRec, Links[d].url = r.url
      PROVE  ~Links[d].active
  <2>1. PICK i \in Ids : Has(acked, i, d)
    BY <1>7, LinkIsNone, LinksAre
  <2>2. Links[d] = LinkOf(acked[i]) /\ acked[i] # NoRec
    BY <2>1, AckedAreUnique, LinkIs, LinksAre DEF AppIInv, Has
  <2>3. i # h /\ acked'[i] = acked[i]
    BY <1>4, <2>2
  <2>4. acked[i].url = r.url
    BY <1>7, <2>2 DEF LinkOf
  <2>5. FileIsAcked'
    BY <1>7 DEF AppIInv
  <2>6. ~Current(acked[i])
    BY <1>1, <1>4, <1>5, <2>3, <2>4, <2>5 DEF FileIsAcked, Current
  <2>7. QED
    BY <2>2, <2>6 DEF LinkOf, Current
<1>8. Registry!Publish(c, r.url)
  BY <1>2, <1>6, <1>7 DEF Registry!Publish, Registry!Published
<1>9. QED
  BY <1>1, <1>8 DEF Registry!Next

(* Every step of the store is one of the registry, or none: a write of an active record publishes,
   of an inactive one retires, a failed one degrades. *)
LEMMA RegistryStep ==
    ASSUME AppIInv, AppIInv', [AppNext]_vars
    PROVE  [Registry!Next]_<<Links, writeFailed>>
<1>1. CASE UNCHANGED <<acked, writeFailed>>
  BY <1>1, LinksAre
<1>2. CASE \/ Saves \/ Deletes \/ Restart \/ LoadLine \/ LoadDone \/ LoadFails \/ UNCHANGED vars
  <2>1. UNCHANGED <<acked, writeFailed>>
    BY <1>2
    DEF Saves, Deletes, Save, SetDeletedByUserIDAndURLs, Restart, LoadLine, LoadDone, LoadFails,
        vars, ghosts
  <2>2. QED
    BY <1>1, <2>1
<1>3. CASE AppendFails \/ AppendTorn
  <2>1. acked' = acked /\ writeFailed' = TRUE
    BY <1>3 DEF AppendFails, AppendTorn, CallFails
  <2>2. Links' = Links
    BY <2>1, LinksAre
  <2>3. QED
    BY <2>1, <2>2 DEF Registry!Next, Registry!Degrade
<1>4. CASE DeletesAgain
  <2>1. PICK w \in Users, codes \in SUBSET Codes : SetDeletedAgain(w, codes)
    BY <1>4 DEF DeletesAgain
  <2> DEFINE S == UserRecords(w, codes)
  <2>2. Acknowledges(S) /\ UNCHANGED writeFailed /\ ToSwitch(w, codes, FALSE) = {}
    BY <2>1 DEF SetDeletedAgain, Acknowledges
  <2>3. S \in SUBSET Ids /\ \A i \in S : Known(i)
    BY UserRecordsAreKnown DEF AppIInv, IInv
  <2>4. \A i \in S : cacheByID[i].active = FALSE
    BY <2>2 DEF ToSwitch
  <2>5. CASE writeFailed
    <3> HIDE DEF S
    <3> QED
      BY <2>2, <2>3, <2>4, <2>5, AcknowledgedAreRetired DEF AppIInv
  <2>6. CASE ~writeFailed
    <3>1. UNCHANGED vars
      BY <1>4, <2>6, DeletesAgainChangesNothing DEF AppIInv
    <3>2. QED
      BY <1>2, <3>1
  <2>7. QED
    BY <2>5, <2>6
<1>5. CASE AppendRecordToFile
  <2> DEFINE h == Head(pending)
  <2>1. /\ h \in Ids /\ Known(h) /\ Writes = cacheByID[h] /\ Writes.id = h
        /\ Writing /\ h = pending[1] /\ 1 \in DOMAIN pending
    BY <1>5, WritesAre DEF AppendRecordToFile, AppIInv
  <2>2. acked' = [acked EXCEPT ![h] = cacheByID[h]] /\ UNCHANGED writeFailed
    BY <1>5, <2>1 DEF AppendRecordToFile
  <2> HIDE DEF h
  <2>3. Acknowledges({h})
    BY <2>1, <2>2 DEF Acknowledges, AppIInv, IInv, TypeOK
  <2>4. CASE cacheByID[h].active
    <3>1. acked[h] = NoRec
      BY <2>1, <2>4 DEF AppIInv, WritesInv, Active
    <3>2. QED
      BY <2>1, <2>2, <2>3, <2>4, <3>1, AcknowledgedIsPublished
  <2>5. CASE ~cacheByID[h].active
    <3>1. ASSUME ~writeFailed PROVE acked[h] # NoRec
      <4>1. MemoryFollows /\ status = "up" /\ h \in ToSet(pending) /\ ~Active(h)
        BY <2>1, <2>5, <3>1 DEF AppIInv, Writing, ToSet, Active
      <4>2. QED
        BY <4>1 DEF MemoryFollows
    <3>2. {h} \in SUBSET Ids /\ \A i \in {h} : Known(i) /\ ~cacheByID[i].active
      BY <2>1, <2>5
    <3>3. writeFailed \/ \A i \in {h} : acked[i] # NoRec
      BY <3>1
    <3>4. QED
      BY <2>2, <2>3, <3>2, <3>3, AcknowledgedAreRetired DEF AppIInv
  <2>6. QED
    BY <2>4, <2>5
<1>6. QED
  BY <1>2, <1>3, <1>4, <1>5, AppSteps

(* What the clients of the application know is an implementation of LinkRegistry: whatever
   fails and restarts, a code stands for one URL for ever, a retired link never comes back, and
   no URL has two active links unless a write has failed. *)
THEOREM StoreIsRegistry == AppSpec => RegistrySpec
<1>1. Init => Registry!Init
  <2> SUFFICES ASSUME Init PROVE Registry!Init
    OBVIOUS
  <2>1. \A c \in Codes : \A i \in Ids : ~Has(acked, i, c)
    BY DEF Init, Has
  <2>2. \A c \in Codes : Links[c] = NoRec
    BY <2>1, LinkIsNone, LinksAre
  <2>3. Links = [c \in Codes |-> Links[c]]
    BY DEF Links
  <2>4. QED
    BY <2>2, <2>3 DEF Init, Registry!Init
<1>2. AppIInv /\ AppIInv' /\ [AppNext]_vars => [Registry!Next]_<<Links, writeFailed>>
  BY RegistryStep
<1>3. QED
  BY <1>1, <1>2, AppInductiveInvariant, PTL DEF AppSpec, RegistrySpec, Registry!Spec

=============================================================================

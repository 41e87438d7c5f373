------------------------ MODULE FileStoreDurability ------------------------
(***************************************************************************)
(* Durability of FileStore, for all values of its constants and whatever   *)
(* calls are made: a record whose write returned nil is served, after any  *)
(* number of restarts, compactions and failed or torn writes of other      *)
(* records.  The inductive invariant says where such a record is: either   *)
(* the last line of it that parses is what was acknowledged, or compaction *)
(* has dropped it for another record that had taken its code.              *)
(***************************************************************************)
EXTENDS FileStoreProofs

(* r is what a replay of the first n lines of f leaves of the record i. *)
Parses(line) == line.text # "garbled"
Replayed(r, i, n, f) ==
    IF r = NoRec THEN \A k \in 1..n : f[k].rec.id = i => ~Parses(f[k])
    ELSE \E k \in 1..n : /\ f[k].rec = r /\ r.id = i /\ Parses(f[k])
                         /\ \A m \in 1..n : m > k /\ f[m].rec.id = i => ~Parses(f[m])

(* Some of the first n lines of f gives the code c to a record. *)
CodeIsTaken(c, n, f) == \E k \in 1..n : f[k].rec.code = c /\ Parses(f[k])

(* The lines that no later write can spoil. *)
Terminated == IF unterminated THEN Len(file) - 1 ELSE Len(file)

Kept(i) == Replayed(acked[i], i, Len(file), file)
Dropped(i) == /\ acked[i] # NoRec /\ Replayed(NoRec, i, Len(file), file)
              /\ CodeIsTaken(acked[i].code, Terminated, file)

FileKeeps ==
    /\ unterminated => file[Len(file)].rec.id \in unsafe
    /\ \A i \in Ids \ unsafe : Kept(i) \/ Dropped(i)

Serves(i) ==
    \/ cacheByID[i] = acked[i]
    \/ acked[i] # NoRec /\ cacheByID[i] = NoRec /\ cache[acked[i].code] \notin {i, NoId}

Loads ==
    /\ loaded <= Len(file)
    /\ \A i \in Ids : Replayed(cacheByID[i], i, loaded, file)
    /\ \A c \in Codes : CodeIsTaken(c, loaded, file) => cache[c] # NoId

MemoryKeeps ==
    /\ status = "up" => \A i \in Ids \ (unsafe \cup ToSet(pending)) : Serves(i)
    /\ status = "loading" => Loads

DurableIInv == IInv /\ FileKeeps /\ MemoryKeeps

-----------------------------------------------------------------------------
(* Replay *)

(* What a replay leaves of a record is one thing. *)
LEMMA ReplayedIsUnique ==
    ASSUME NEW r, NEW s, NEW i, NEW n \in Nat, NEW f,
           Replayed(r, i, n, f), Replayed(s, i, n, f)
    PROVE  r = s
<1>1. CASE r = NoRec \/ s = NoRec
  BY <1>1 DEF Replayed
<1>2. CASE r # NoRec /\ s # NoRec
  <2>1. PICK k \in 1..n : /\ f[k].rec = r /\ r.id = i /\ Parses(f[k])
                          /\ \A m \in 1..n : m > k /\ f[m].rec.id = i => ~Parses(f[m])
    BY <1>2 DEF Replayed
  <2>2. PICK l \in 1..n : /\ f[l].rec = s /\ s.id = i /\ Parses(f[l])
                          /\ \A m \in 1..n : m > l /\ f[m].rec.id = i => ~Parses(f[m])
    BY <1>2 DEF Replayed
  <2>3. ~ (k > l) /\ ~ (l > k)
    BY <2>1, <2>2
  <2>4. QED
    BY <2>1, <2>2, <2>3
<1>3. QED
  BY <1>1, <1>2

(* It depends on the lines of the record that parse. *)
LEMMA ReplayedFromOwnLines ==
    ASSUME NEW r, NEW i, NEW n \in Nat, NEW f, NEW p \in Nat, NEW g,
           \A k \in 1..n : f[k].rec.id = i /\ Parses(f[k]) => k \in 1..p /\ g[k] = f[k],
           \A k \in 1..p : g[k].rec.id = i /\ Parses(g[k]) => k \in 1..n /\ g[k] = f[k],
           Replayed(r, i, n, f)
    PROVE  Replayed(r, i, p, g)
<1>1. CASE r = NoRec
  BY <1>1 DEF Replayed
<1>2. CASE r # NoRec
  <2>1. PICK k \in 1..n : /\ f[k].rec = r /\ r.id = i /\ Parses(f[k])
                          /\ \A m \in 1..n : m > k /\ f[m].rec.id = i => ~Parses(f[m])
    BY <1>2 DEF Replayed
  <2>2. k \in 1..p /\ g[k] = f[k]
    BY <2>1
  <2>3. \A m \in 1..p : m > k /\ g[m].rec.id = i => ~Parses(g[m])
    BY <2>1
  <2>4. QED
    BY <1>2, <2>1, <2>2, <2>3 DEF Replayed
<1>3. QED
  BY <1>1, <1>2

(* A last line that parses is what is left of its record. *)
LEMMA ReplayedAdded ==
    ASSUME NEW r, r # NoRec, NEW n \in Nat, NEW g, g[n + 1].rec = r, Parses(g[n + 1])
    PROVE  Replayed(r, r.id, n + 1, g)
<1>1. n + 1 \in 1..(n + 1) /\ \A m \in 1..(n + 1) : ~ (m > n + 1)
  OBVIOUS
<1>2. QED
  BY <1>1 DEF Replayed

(* A code that was taken stays so in a file that begins like the old one. *)
LEMMA CodeStaysTaken ==
    ASSUME NEW c, NEW n \in Nat, NEW f, NEW p \in Nat, NEW g, n <= p,
           \A k \in 1..n : g[k] = f[k], CodeIsTaken(c, n, f)
    PROVE  CodeIsTaken(c, p, g)
<1>1. PICK k \in 1..n : f[k].rec.code = c /\ Parses(f[k])
  BY DEF CodeIsTaken
<1>2. k \in 1..p /\ g[k] = f[k]
  BY <1>1
<1>3. QED
  BY <1>1, <1>2 DEF CodeIsTaken

-----------------------------------------------------------------------------
(* Writes *)

(* What arrives is one line after the terminated ones. *)
LEMMA ArrivalIs ==
    ASSUME TypeOK, FileAgrees, NEW r \in Rec, NEW t \in Text, Arrive(r, t)
    PROVE  /\ Terminated \in Nat /\ Len(file') = Terminated + 1
           /\ \A k \in 1..Terminated : k \in DOMAIN file /\ file'[k] = file[k]
           /\ file'[Terminated + 1].rec = r
           /\ ~unterminated => file'[Terminated + 1].text = t
           /\ \A k \in DOMAIN file : k \in 1..Terminated \/ (unterminated /\ k = Len(file))
<1>1. CASE unterminated
  <2>1. /\ file \in Seq(Line) /\ file # <<>> /\ Len(file) \in Nat \ {0}
        /\ DOMAIN file = 1..Len(file) /\ Len(file) \in DOMAIN file
    BY <1>1 DEF TypeOK, FileAgrees
  <2>2. PICK x \in Text : file' = [file EXCEPT ![Len(file)] = [rec |-> r, text |-> x]]
    BY <1>1 DEF Arrive, Text
  <2>3. [rec |-> r, text |-> x] \in Line
    BY DEF Line
  <2>4. file' \in Seq(Line) /\ DOMAIN file' = DOMAIN file /\ Len(file') = Len(file)
    BY <2>1, <2>2, <2>3
  <2>5. \A k \in DOMAIN file : file'[k] = IF k = Len(file) THEN [rec |-> r, text |-> x]
                                                          ELSE file[k]
    BY <2>1, <2>2
  <2>6. Terminated = Len(file) - 1
    BY <1>1 DEF Terminated
  <2>7. QED
    BY <1>1, <2>1, <2>4, <2>5, <2>6
<1>2. CASE ~unterminated
  <2>1. file' = Append(file, [rec |-> r, text |-> t]) /\ [rec |-> r, text |-> t] \in Line
    BY <1>2 DEF Arrive, Line
  <2>2. file \in Seq(Line) /\ Terminated = Len(file)
    BY <1>2 DEF TypeOK, Terminated
  <2>3. QED
    BY <1>2, <2>1, <2>2
<1>3. QED
  BY <1>1, <1>2

(* It is no line of another record that is safe, and spoils none. *)
LEMMA ArrivalKeepsOthers ==
    ASSUME IInv, FileKeeps, NEW r \in Rec, NEW t \in Text, Arrive(r, t),
           NEW i \in Ids \ unsafe, i # r.id, acked'[i] = acked[i]
    PROVE  Kept(i)' \/ Dropped(i)'
<1> DEFINE n == Len(file)
           T == Terminated
<1>1. /\ T \in Nat /\ Len(file') = T + 1
      /\ \A k \in 1..T : k \in DOMAIN file /\ file'[k] = file[k]
      /\ file'[T + 1].rec = r
      /\ \A k \in DOMAIN file : k \in 1..T \/ (unterminated /\ k = n)
  BY ArrivalIs DEF IInv
<1>2. n \in Nat /\ DOMAIN file = 1..n
  BY DEF IInv, TypeOK
<1> HIDE DEF n, T
<1>3. \A k \in 1..n : file[k].rec.id = i => k \in 1..T
  BY <1>1, <1>2 DEF FileKeeps, n
<1>4. \A k \in 1..n : file[k].rec.id = i /\ Parses(file[k])
                         => k \in 1..(T + 1) /\ file'[k] = file[k]
  BY <1>1, <1>3
<1>5. \A k \in 1..(T + 1) : file'[k].rec.id = i => k \in 1..T
  BY <1>1
<1>6. \A k \in 1..(T + 1) : file'[k].rec.id = i /\ Parses(file'[k])
                               => k \in 1..n /\ file'[k] = file[k]
  BY <1>1, <1>2, <1>5
<1>7. \A s : Replayed(s, i, n, file) => Replayed(s, i, T + 1, file')
  BY <1>1, <1>2, <1>4, <1>6, ReplayedFromOwnLines
<1>8. CASE Kept(i)
  <2>1. Replayed(acked'[i], i, Len(file'), file')
    BY <1>1, <1>7, <1>8 DEF Kept, n
  <2>2. QED
    BY <2>1 DEF Kept
<1>9. CASE Dropped(i)
  <2>1. acked'[i] # NoRec /\ Replayed(NoRec, i, Len(file'), file')
    BY <1>1, <1>7, <1>9 DEF Dropped, n
  <2>2. PICK p \in Nat : p = Terminated' /\ T <= p
    <3>1. CASE unterminated'
      <4>1. Terminated' = Len(file') - 1
        BY <3>1 DEF Terminated
      <4>2. QED
        BY <1>1, <4>1
    <3>2. CASE ~unterminated'
      <4>1. Terminated' = Len(file')
        BY <3>2 DEF Terminated
      <4>2. QED
        BY <1>1, <4>1
    <3>3. QED
      BY <3>1, <3>2
  <2>3. CodeIsTaken(acked'[i].code, T, file)
    BY <1>9 DEF Dropped, T
  <2>4. CodeIsTaken(acked'[i].code, p, file')
    BY <1>1, <2>2, <2>3, CodeStaysTaken
  <2>5. QED
    BY <2>1, <2>2, <2>4 DEF Dropped
<1>10. Kept(i) \/ Dropped(i)
  BY DEF FileKeeps
<1>11. QED
  BY <1>8, <1>9, <1>10

(* The write that succeeds makes its record safe, unless it was glued to an unfinished line. *)
LEMMA AppendKeepsFile ==
    ASSUME IInv, FileKeeps, AppendRecordToFile PROVE FileKeeps'
<1> DEFINE h == Head(pending)
           r == cacheByID[h]
           t == TextOf(r)
<1>1. Writing /\ h \in Ids /\ r \in Rec /\ r # NoRec /\ Writes = r /\ r.id = h
  BY WritesAre DEF AppendRecordToFile
<1>2. /\ Arrive(r, t) /\ ~unterminated' /\ acked' = [acked EXCEPT ![h] = r]
      /\ unsafe' = IF unterminated THEN unsafe \cup {h} ELSE unsafe \ {h}
  BY <1>1 DEF AppendRecordToFile
<1>3. t \in {"whole", "long"} /\ t \in Text
  BY DEF TextOf, Text
<1> HIDE DEF h, r, t
<1>4. acked'[h] = r /\ \A i \in Ids \ {h} : acked'[i] = acked[i]
  BY <1>1, <1>2 DEF IInv, TypeOK
<1>5. ASSUME NEW i \in Ids \ unsafe', i = h PROVE Kept(i)' \/ Dropped(i)'
  <2>1. ~unterminated
    BY <1>2, <1>5
  <2>2. /\ Terminated \in Nat /\ Len(file') = Terminated + 1
        /\ file'[Terminated + 1].rec = r /\ file'[Terminated + 1].text = t
    BY <1>1, <1>2, <1>3, <2>1, ArrivalIs DEF IInv
  <2>3. Parses(file'[Terminated + 1])
    BY <1>3, <2>2 DEF Parses
  <2>4. Replayed(r, r.id, Terminated + 1, file')
    BY <1>1, <2>2, <2>3, ReplayedAdded
  <2>5. Replayed(acked'[i], i, Len(file'), file')
    BY <1>1, <1>4, <1>5, <2>2, <2>4
  <2>6. QED
    BY <2>5 DEF Kept
<1>6. ASSUME NEW i \in Ids \ unsafe', i # h PROVE Kept(i)' \/ Dropped(i)'
  <2>1. i \in Ids \ unsafe
    BY <1>2, <1>6
  <2>2. QED
    BY <1>1, <1>2, <1>3, <1>4, <1>6, <2>1, ArrivalKeepsOthers
<1>7. QED
  BY <1>2, <1>5, <1>6 DEF FileKeeps

(* A write that fails leaves what it should have written unsafe, and the rest where it was. *)
LEMMA FailureKeepsFile ==
    ASSUME IInv, FileKeeps, AppendFails \/ AppendTorn PROVE FileKeeps'
<1> DEFINE h == Head(pending)
           r == cacheByID[h]
<1>1. /\ Writing /\ h \in Ids /\ r \in Rec /\ Writes = r /\ r.id = h
      /\ h = pending[1] /\ 1 \in DOMAIN pending
  BY WritesAre DEF AppendFails, AppendTorn
<1>2. unsafe' = unsafe \cup ToSet(pending) /\ acked' = acked
  BY DEF AppendFails, AppendTorn, CallFails
<1>3. h \in ToSet(pending)
  BY <1>1 DEF ToSet
<1> HIDE DEF h, r
<1>4. CASE AppendFails
  BY <1>2, <1>4 DEF AppendFails, FileKeeps, Kept, Dropped, Terminated
<1>5. CASE AppendTorn
  <2>1. PICK t \in Text : Arrive(r, t)
    BY <1>1, <1>5 DEF AppendTorn, TextOf, Text
  <2>2. file'[Len(file')].rec.id \in unsafe'
    BY <1>1, <1>2, <1>3, <2>1, ArrivalIs DEF IInv
  <2>3. ASSUME NEW i \in Ids \ unsafe' PROVE Kept(i)' \/ Dropped(i)'
    <3>1. i \in Ids \ unsafe /\ i # h
      BY <1>2, <1>3, <2>3
    <3>2. QED
      BY <1>1, <1>2, <2>1, <3>1, ArrivalKeepsOthers
  <2>4. QED
    BY <2>2, <2>3 DEF FileKeeps
<1>6. QED
  BY <1>4, <1>5

(* CompactFile writes what memory has, under the code it has it under. *)
LEMMA CompactKeepsFile ==
    ASSUME IInv, MemoryKeeps, CompactFile PROVE FileKeeps'
<1> DEFINE S == {cache[c] : c \in Codes} \ {NoId}
<1>1. PICK order \in SetToSeqs(S) :
        file' = [k \in DOMAIN order |-> [rec |-> cacheByID[order[k]],
                                         text |-> TextOf(cacheByID[order[k]])]]
  BY DEF CompactFile
<1>2. /\ status = "up" /\ pending = <<>> /\ ~unterminated' /\ UNCHANGED <<acked, unsafe>>
  BY DEF CompactFile, Callable, Locked, ghosts
<1>3. S \in SUBSET Ids /\ \A i \in S : Known(i)
  BY DEF IInv, TypeOK, IndexesAgree
<1>4. \A c \in Codes : cache[c] # NoId => cache[c] \in S
  OBVIOUS
<1>5. \A i \in S : \E c \in Codes : cache[c] = i /\ i # NoId
  OBVIOUS
<1> HIDE DEF S
<1>6. order \in Seq(Ids) /\ (\A k \in DOMAIN order : order[k] \in S) /\ ToSet(order) = S
  BY <1>3, OrderingIsSequence, OrderingIsOnto
<1>7. \A k, l \in DOMAIN order : order[k] = order[l] => k = l
  BY DEF SetToSeqs
<1>8. /\ DOMAIN file' = DOMAIN order /\ Len(order) \in Nat /\ DOMAIN order = 1..Len(order)
      /\ \A k \in DOMAIN order : /\ file'[k].rec = cacheByID[order[k]] /\ Parses(file'[k])
  BY <1>1, <1>6 DEF Parses, TextOf
<1>9. file' \in Seq(Line) /\ Len(file') = Len(order) /\ DOMAIN file' = 1..Len(file')
  <2>1. file' \in Seq(Line)
    BY CompactKeepsIInv
  <2>2. QED
    BY <1>8, <2>1
<1>10. \A k \in DOMAIN order : file'[k].rec.id = order[k]
  BY <1>3, <1>6, <1>8 DEF IInv, IndexesAgree
<1>11. ToSet(pending) = {}
  BY <1>2 DEF ToSet
<1>12. ASSUME NEW i \in Ids \ unsafe' PROVE Kept(i)' \/ Dropped(i)'
  <2>1. Serves(i)
    BY <1>2, <1>11 DEF MemoryKeeps
  <2>2. CASE i \in S
    <3>1. PICK k \in DOMAIN order : order[k] = i
      BY <1>6, <2>2 DEF ToSet
    <3>2. cacheByID[i] # NoRec /\ cacheByID[i] = acked[i] /\ cacheByID[i].id = i
      BY <1>3, <2>1, <2>2 DEF Serves, Known, IInv, IndexesAgree
    <3>3. \A m \in DOMAIN order : m > k => file'[m].rec.id # i
      BY <1>7, <1>8, <1>10, <3>1
    <3>4. Replayed(acked'[i], i, Len(file'), file')
      BY <1>2, <1>8, <1>9, <3>1, <3>2, <3>3 DEF Replayed
    <3>5. QED
      BY <3>4 DEF Kept
  <2>3. CASE i \notin S
    <3>1. \A k \in 1..Len(file') : file'[k].rec.id # i
      BY <1>6, <1>8, <1>9, <1>10, <2>3
    <3>2. Replayed(NoRec, i, Len(file'), file')
      BY <3>1 DEF Replayed
    <3>3. CASE acked[i] = NoRec
      BY <1>2, <3>2, <3>3 DEF Kept
    <3>4. CASE acked[i] # NoRec
      <4> DEFINE c == acked[i].code
      <4>1. c \in Codes
        BY <3>4 DEF IInv, TypeOK, Rec
      <4>2. cache[c] # NoId
        BY <2>1, <3>4 DEF Serves, IInv, IndexesAgree, Known
      <4>3. PICK k \in DOMAIN order : order[k] = cache[c]
        BY <1>4, <1>6, <4>1, <4>2 DEF ToSet
      <4>4. file'[k].rec.code = c /\ Parses(file'[k])
        BY <1>8, <4>1, <4>2, <4>3 DEF IInv, IndexesAgree
      <4> HIDE DEF c
      <4>5. CodeIsTaken(c, Len(file'), file')
        BY <1>8, <1>9, <4>4 DEF CodeIsTaken
      <4>6. acked'[i] # NoRec /\ CodeIsTaken(acked'[i].code, Len(file'), file')
        BY <1>2, <3>4, <4>5 DEF c
      <4>7. Terminated' = Len(file')
        BY <1>2 DEF Terminated
      <4>8. QED
        BY <3>2, <4>6, <4>7 DEF Dropped
    <3>5. QED
      BY <3>3, <3>4
  <2>4. QED
    BY <2>2, <2>3
<1>13. QED
  BY <1>2, <1>12 DEF FileKeeps

(* Deleting again acknowledges what was acknowledged, of the records that are safe. *)
LEMMA SafeAgain ==
    ASSUME IInv, MemoryKeeps, NEW w \in Users, NEW codes \in SUBSET Codes,
           SetDeletedAgain(w, codes), NEW i \in Ids \ unsafe
    PROVE  acked'[i] = acked[i] /\ Serves(i)
<1>1. /\ status = "up" /\ pending = <<>>
      /\ acked' = [j \in Ids |-> IF j \in UserRecords(w, codes) THEN cacheByID[j] ELSE acked[j]]
  BY DEF SetDeletedAgain, Callable, Locked
<1>2. ToSet(pending) = {}
  BY <1>1 DEF ToSet
<1>3. Serves(i)
  BY <1>1, <1>2 DEF MemoryKeeps
<1>4. i \in UserRecords(w, codes) => cacheByID[i] # NoRec
  BY UserRecordsAreKnown DEF Known, IInv
<1>5. QED
  BY <1>1, <1>3, <1>4 DEF Serves

(* So the file keeps what is safe, whatever is called. *)
LEMMA FileStep ==
    ASSUME IInv, FileKeeps, MemoryKeeps, [Next]_vars PROVE FileKeeps'
<1>1. CASE UNCHANGED <<file, unterminated, acked, unsafe>>
  BY <1>1 DEF FileKeeps, Kept, Dropped, Terminated
<1>2. ASSUME NEW w \in Users, NEW codes \in SUBSET Codes, SetDeletedAgain(w, codes)
      PROVE  FileKeeps'
  <2>1. UNCHANGED <<file, unterminated, unsafe>>
    BY <1>2 DEF SetDeletedAgain
  <2>2. ASSUME NEW i \in Ids \ unsafe PROVE Kept(i)' \/ Dropped(i)'
    <3>1. acked'[i] = acked[i]
      BY <1>2, SafeAgain
    <3>2. QED
      BY <2>1, <3>1 DEF FileKeeps, Kept, Dropped, Terminated
  <2>3. QED
    BY <2>1, <2>2 DEF FileKeeps
<1>3. ASSUME NEW w \in Users, NEW c \in Codes, NEW u \in URLs, Save(w, c, u) \/ BatchItem(w, c, u)
      PROVE  FileKeeps'
  BY <1>1, <1>3 DEF Save, BatchItem, ghosts
<1>4. ASSUME \/ \E n \in 1..MaxBatch : BatchSave(n)
             \/ \E c \in Codes : Delete(c)
             \/ \E i \in Ids : DeleteByID(i)
      PROVE  FileKeeps'
  BY <1>1, <1>4 DEF BatchSave, Delete, DeleteByID, MarkInactive, ghosts
<1>5. ASSUME NEW w \in Users, NEW codes \in SUBSET Codes,
             SetDeletedByUserIDAndURLs(w, codes) \/ Restore(w, codes)
      PROVE  FileKeeps'
  BY <1>1, <1>5 DEF SetDeletedByUserIDAndURLs, Restore, ghosts
<1>6. CASE Restart \/ LoadLine \/ LoadDone \/ LoadFails \/ UNCHANGED vars
  BY <1>1, <1>6 DEF Restart, LoadLine, LoadDone, LoadFails, vars, ghosts
<1>7. QED
  BY <1>2, <1>3, <1>4, <1>5, <1>6, CompactKeepsFile, AppendKeepsFile, FailureKeepsFile
  DEF Next, Environment

-----------------------------------------------------------------------------
(* Memory *)

(* A call that changes the records S of memory and has them all to write keeps the others. *)
LEMMA ChangedArePending ==
    ASSUME MemoryKeeps, status = "up", pending = <<>>, UNCHANGED <<status, acked, unsafe>>,
           NEW S, ToSet(pending') = S,
           \A i \in Ids \ S : cacheByID'[i] = cacheByID[i],
           \A i \in Ids \ S : acked[i] # NoRec =>
              \/ cache'[acked[i].code] = cache[acked[i].code]
              \/ cache'[acked[i].code] \notin {i, NoId}
    PROVE  MemoryKeeps'
<1>1. ToSet(pending) = {}
  BY DEF ToSet
<1>2. ASSUME NEW i \in Ids \ (unsafe \cup S) PROVE Serves(i)'
  <2>1. Serves(i)
    BY <1>1, <1>2 DEF MemoryKeeps
  <2>2. QED
    BY <1>2, <2>1 DEF Serves
<1>3. QED
  BY <1>2 DEF MemoryKeeps

(* A new record may take another's code; the other is then found no more, and kept as it was. *)
LEMMA AddKeepsMemory ==
    ASSUME IInv, MemoryKeeps, status = "up", pending = <<>>, UNCHANGED <<status, acked, unsafe>>,
           NEW w \in Users, NEW c \in Codes, NEW u \in URLs, AddRecord(w, c, u)
    PROVE  MemoryKeeps'
<1>1. PICK i \in Ids :
        /\ Fresh(i) /\ pending' = <<i>>
        /\ AddToCacheAndIndexes([id |-> i, user |-> w, code |-> c, url |-> u, active |-> TRUE])
  BY DEF AddRecord
<1>2. /\ \A j \in Ids \ {i} : cacheByID'[j] = cacheByID[j]
      /\ cache' = [cache EXCEPT ![c] = i]
  BY <1>1 DEF AddToCacheAndIndexes, IInv, TypeOK
<1>3. \A d \in Codes : cache'[d] = cache[d] \/ cache'[d] = i
  BY <1>2 DEF IInv, TypeOK
<1>4. ASSUME NEW j \in Ids \ {i}, acked[j] # NoRec
      PROVE  \/ cache'[acked[j].code] = cache[acked[j].code]
             \/ cache'[acked[j].code] \notin {j, NoId}
  <2>1. acked[j].code \in Codes /\ i # NoId
    BY <1>4, FileStoreAssumption DEF IInv, TypeOK, Rec
  <2>2. QED
    BY <1>3, <1>4, <2>1
<1>5. ToSet(pending') = {i}
  BY <1>1 DEF ToSet
<1>6. QED
  BY <1>2, <1>4, <1>5, ChangedArePending

(* Records that are switched are all to be written. *)
LEMMA SwitchKeepsMemory ==
    ASSUME MemoryKeeps, status = "up", pending = <<>>, UNCHANGED <<status, acked, unsafe, cache>>,
           NEW ids \in SUBSET Ids, NEW b \in BOOLEAN, SetActive(ids, b), ToSet(pending') = ids
    PROVE  MemoryKeeps'
<1>1. \A i \in Ids \ ids : cacheByID'[i] = cacheByID[i]
  BY DEF SetActive
<1>2. QED
  BY <1>1, ChangedArePending

(* A write that succeeds leaves its record served, one that fails leaves it unsafe. *)
LEMMA WriteKeepsMemory ==
    ASSUME IInv, MemoryKeeps, AppendRecordToFile \/ AppendFails \/ AppendTorn
    PROVE  MemoryKeeps'
<1>1. CASE AppendRecordToFile
  <2> DEFINE h == Head(pending)
  <2>1. /\ Writing /\ h \in Ids /\ Writes = cacheByID[h] /\ Writes.id = h
        /\ h = pending[1]
    BY <1>1, WritesAre DEF AppendRecordToFile
  <2>2. /\ acked' = [acked EXCEPT ![h] = cacheByID[h]] /\ unsafe \ {h} \subseteq unsafe'
        /\ pending' = Tail(pending) /\ UNCHANGED <<status, cache, cacheByID>>
    BY <1>1, <2>1 DEF AppendRecordToFile, memory
  <2>3. acked'[h] = cacheByID[h] /\ \A i \in Ids \ {h} : acked'[i] = acked[i]
    BY <2>1, <2>2 DEF IInv, TypeOK
  <2>4. \A k \in DOMAIN pending : \/ k = 1
                                  \/ k - 1 \in DOMAIN pending' /\ pending'[k - 1] = pending[k]
    BY <2>1, <2>2 DEF Writing, IInv, TypeOK
  <2> HIDE DEF h
  <2>5. \A i \in ToSet(pending) : i = h \/ i \in ToSet(pending')
    BY <2>1, <2>4 DEF ToSet
  <2>6. ASSUME NEW i \in Ids \ (unsafe' \cup ToSet(pending')) PROVE Serves(i)'
    <3>1. CASE i = h
      BY <2>2, <2>3, <3>1 DEF Serves
    <3>2. CASE i # h
      <4>1. Serves(i)
        BY <2>1, <2>2, <2>5, <2>6, <3>2 DEF MemoryKeeps, Writing
      <4>2. QED
        BY <2>2, <2>3, <3>2, <4>1 DEF Serves
    <3>3. QED
      BY <3>1, <3>2
  <2>7. QED
    BY <2>1, <2>2, <2>6 DEF MemoryKeeps, Writing
<1>2. CASE AppendFails \/ AppendTorn
  <2>1. /\ Writing /\ unsafe' = unsafe \cup ToSet(pending)
        /\ UNCHANGED <<status, cache, cacheByID, acked>>
    BY <1>2 DEF AppendFails, AppendTorn, CallFails, memory
  <2>2. \A i \in Ids \ unsafe' : Serves(i)'
    BY <2>1 DEF MemoryKeeps, Writing, Serves
  <2>3. QED
    BY <2>1, <2>2 DEF MemoryKeeps, Writing
<1>3. QED
  BY <1>1, <1>2

(* Replay goes on by a line. *)
LEMMA LoadLineKeepsMemory ==
    ASSUME IInv, MemoryKeeps, LoadLine PROVE MemoryKeeps'
<1> DEFINE n == loaded
           r == file[n + 1].rec
<1>1. /\ n \in Nat /\ n + 1 \in DOMAIN file /\ n + 1 <= Len(file) /\ r \in Rec /\ r # NoRec
      /\ loaded' = n + 1 /\ file[n + 1].text \in Text \ {"long"}
  <2>1. /\ n \in Nat /\ n + 1 \in DOMAIN file /\ r \in Rec /\ r # NoRec
        /\ loaded' = n + 1 /\ file[n + 1].text # "long"
    BY LoadedIs DEF IInv, TypeOK
  <2>2. file \in Seq(Line)
    BY DEF IInv, TypeOK
  <2>3. file[n + 1] \in Line /\ n + 1 <= Len(file)
    BY <2>1, <2>2
  <2>4. file[n + 1].text \in Text
    BY <2>3 DEF Line
  <2>5. QED
    BY <2>1, <2>3, <2>4
<1>2. status = "loading" /\ UNCHANGED <<status, file>> /\ Loads
  BY DEF LoadLine, MemoryKeeps
<1>3. r.id \in Ids /\ r.code \in Codes /\ r.id # NoId
  BY <1>1, FileStoreAssumption DEF Rec
<1>4. CASE ~Parses(file[n + 1])
  <2>1. UNCHANGED <<cache, cacheByID>>
    BY <1>4, LoadedIs DEF Parses, memory
  <2> HIDE DEF n, r
  <2>2. ASSUME NEW i \in Ids PROVE Replayed(cacheByID'[i], i, n + 1, file')
    <3>1. Replayed(cacheByID[i], i, n, file)
      BY <1>2 DEF Loads, n
    <3>2. \A k \in 1..(n + 1) : k \in 1..n \/ k = n + 1
      BY <1>1
    <3>3. Replayed(cacheByID[i], i, n + 1, file)
      BY <1>1, <1>4, <3>1, <3>2, ReplayedFromOwnLines
    <3>4. QED
      BY <1>2, <2>1, <3>3
  <2>3. ASSUME NEW c \in Codes, CodeIsTaken(c, n + 1, file) PROVE cache'[c] # NoId
    <3>1. CodeIsTaken(c, n, file)
      BY <1>1, <1>4, <2>3 DEF CodeIsTaken
    <3>2. QED
      BY <1>2, <2>1, <3>1 DEF Loads, n
  <2>4. QED
    BY <1>1, <1>2, <2>2, <2>3 DEF MemoryKeeps, Loads
<1>5. CASE Parses(file[n + 1])
  <2>1. file[n + 1].text = "whole"
    BY <1>1, <1>5 DEF Parses, Text
  <2>2. cache' = [cache EXCEPT ![r.code] = r.id] /\ cacheByID' = [cacheByID EXCEPT ![r.id] = r]
    BY <2>1, LoadedIs
  <2> HIDE DEF n, r
  <2>3. /\ cacheByID'[r.id] = r /\ \A i \in Ids \ {r.id} : cacheByID'[i] = cacheByID[i]
        /\ cache'[r.code] = r.id /\ \A c \in Codes \ {r.code} : cache'[c] = cache[c]
    BY <1>3, <2>2 DEF IInv, TypeOK
  <2>4. ASSUME NEW i \in Ids PROVE Replayed(cacheByID'[i], i, n + 1, file')
    <3>1. CASE i = r.id
      BY <1>1, <1>2, <1>5, <2>3, <3>1, ReplayedAdded DEF r
    <3>2. CASE i # r.id
      <4>1. Replayed(cacheByID[i], i, n, file)
        BY <1>2 DEF Loads, n
      <4>2. \A k \in 1..(n + 1) : file[k].rec.id = i => k \in 1..n
        BY <1>1, <3>2 DEF r
      <4>3. \A k \in 1..n : k \in 1..(n + 1)
        BY <1>1
      <4>4. Replayed(cacheByID[i], i, n + 1, file)
        BY <1>1, <4>1, <4>2, <4>3, ReplayedFromOwnLines
      <4>5. QED
        BY <1>2, <2>3, <3>2, <4>4
    <3>3. QED
      BY <3>1, <3>2
  <2>5. ASSUME NEW c \in Codes, CodeIsTaken(c, n + 1, file) PROVE cache'[c] # NoId
    <3>1. CASE c = r.code
      BY <1>3, <2>3, <3>1
    <3>2. CASE c # r.code
      <4>1. CodeIsTaken(c, n, file)
        BY <1>1, <2>5, <3>2 DEF CodeIsTaken, r
      <4>2. QED
        BY <1>2, <2>3, <3>2, <4>1 DEF Loads, n
    <3>3. QED
      BY <3>1, <3>2
  <2>6. QED
    BY <1>1, <1>2, <2>4, <2>5 DEF MemoryKeeps, Loads
<1>6. QED
  BY <1>4, <1>5

(* A store that comes up serves what the file kept, and has a dropped record's code for another. *)
LEMMA LoadDoneKeepsMemory ==
    ASSUME IInv, FileKeeps, MemoryKeeps, LoadDone PROVE MemoryKeeps'
<1>1. /\ status' = "up" /\ loaded = Len(file) /\ Loads
      /\ UNCHANGED <<cache, cacheByID, acked, unsafe>>
  BY DEF LoadDone, memory, ghosts, MemoryKeeps
<1>2. Len(file) \in Nat
  BY DEF IInv, TypeOK
<1>3. ASSUME NEW i \in Ids \ unsafe PROVE Serves(i)
  <2>1. Replayed(cacheByID[i], i, Len(file), file)
    BY <1>1 DEF Loads
  <2>2. CASE Kept(i)
    BY <1>2, <2>1, <2>2, ReplayedIsUnique DEF Kept, Serves
  <2>3. CASE Dropped(i)
    <3> DEFINE c == acked[i].code
               T == Terminated
    <3>1. acked[i] # NoRec /\ cacheByID[i] = NoRec
      BY <1>2, <2>1, <2>3, ReplayedIsUnique DEF Dropped
    <3>2. c \in Codes /\ CodeIsTaken(c, T, file)
      BY <2>3, <3>1 DEF Dropped, IInv, TypeOK, Rec
    <3>3. T <= Len(file) /\ T \in Int
      BY <1>2 DEF Terminated
    <3> HIDE DEF c, T
    <3>4. CodeIsTaken(c, Len(file), file)
      BY <1>2, <3>2, <3>3 DEF CodeIsTaken
    <3>5. cache[c] # NoId
      BY <1>1, <3>2, <3>4 DEF Loads
    <3>6. cache[c] # i
      BY <3>1, <3>2, <3>5 DEF IInv, IndexesAgree, Known
    <3>7. QED
      BY <3>1, <3>5, <3>6 DEF Serves, c
  <2>4. QED
    BY <2>2, <2>3 DEF FileKeeps
<1>4. \A i \in Ids \ unsafe' : Serves(i)'
  BY <1>1, <1>3 DEF Serves
<1>5. QED
  BY <1>1, <1>4 DEF MemoryKeeps

(* So memory serves what is safe, whatever is called. *)
LEMMA MemoryStep ==
    ASSUME IInv, FileKeeps, MemoryKeeps, [Next]_vars PROVE MemoryKeeps'
<1>1. CASE UNCHANGED <<status, file, loaded, cache, cacheByID, pending, acked, unsafe>>
  BY <1>1 DEF MemoryKeeps, Serves, Loads
<1>2. ASSUME NEW w \in Users, NEW c \in Codes, NEW u \in URLs, Save(w, c, u) \/ BatchItem(w, c, u)
      PROVE  MemoryKeeps'
  <2>1. CASE AddRecord(w, c, u)
    <3>1. status = "up" /\ pending = <<>> /\ UNCHANGED <<status, acked, unsafe>>
      BY <1>2 DEF Save, BatchItem, Callable, Locked, ghosts
    <3>2. QED
      BY <2>1, <3>1, AddKeepsMemory
  <2>2. CASE ~AddRecord(w, c, u)
    BY <1>1, <1>2, <2>2 DEF Save, BatchItem, memory, ghosts
  <2>3. QED
    BY <2>1, <2>2
<1>3. ASSUME NEW n \in 1..MaxBatch, BatchSave(n) PROVE MemoryKeeps'
  BY <1>1, <1>3 DEF BatchSave, memory, ghosts
<1>4. ASSUME NEW i \in Ids, MarkInactive(i), Callable(1) PROVE MemoryKeeps'
  <2>1. /\ status = "up" /\ pending = <<>> /\ UNCHANGED <<status, acked, unsafe, cache>>
        /\ SetActive({i}, FALSE) /\ pending' = <<i>> /\ {i} \in SUBSET Ids
    BY <1>4 DEF MarkInactive, Callable, Locked, ghosts
  <2>2. ToSet(pending') = {i}
    BY <2>1 DEF ToSet
  <2>3. QED
    BY <2>1, <2>2, SwitchKeepsMemory
<1>5. ASSUME NEW c \in Codes, Delete(c) PROVE MemoryKeeps'
  <2>1. cache[c] \in Ids /\ MarkInactive(cache[c]) /\ Callable(1)
    BY <1>5 DEF Delete, IInv, TypeOK
  <2>2. QED
    BY <1>4, <2>1
<1>6. ASSUME NEW i \in Ids, DeleteByID(i) PROVE MemoryKeeps'
  BY <1>4, <1>6 DEF DeleteByID
<1>7. ASSUME NEW w \in Users, NEW codes \in SUBSET Codes, SetDeletedByUserIDAndURLs(w, codes)
      PROVE  MemoryKeeps'
  <2> DEFINE ids == ToSwitch(w, codes, FALSE)
  <2>1. ids \in SUBSET Ids
    BY SwitchedAreKnown DEF IInv
  <2>2. /\ status = "up" /\ pending = <<>> /\ UNCHANGED <<status, acked, unsafe, cache>>
        /\ SetActive(ids, FALSE) /\ pending' \in SetToSeqs(ids)
    BY <1>7 DEF SetDeletedByUserIDAndURLs, Callable, Locked, ghosts
  <2> HIDE DEF ids
  <2>3. ToSet(pending') = ids
    BY <2>1, <2>2, OrderingIsOnto
  <2>4. QED
    BY <2>1, <2>2, <2>3, SwitchKeepsMemory
<1>8. ASSUME NEW w \in Users, NEW codes \in SUBSET Codes, SetDeletedAgain(w, codes)
      PROVE  MemoryKeeps'
  <2>1. /\ status = "up" /\ pending = <<>>
        /\ UNCHANGED <<status, unsafe, cache, cacheByID, pending>>
    BY <1>8 DEF SetDeletedAgain, Callable, Locked, memory
  <2>2. \A i \in Ids \ unsafe : acked'[i] = acked[i] /\ Serves(i)
    BY <1>8, SafeAgain
  <2>3. QED
    BY <2>1, <2>2 DEF MemoryKeeps, Serves
<1>9. ASSUME NEW w \in Users, NEW codes \in SUBSET Codes, Restore(w, codes)
      PROVE  MemoryKeeps'
  <2>1. PICK ids \in SUBSET Ids : SetActive(ids, TRUE) /\ ToSet(pending') = ids
    BY <1>9, RestoredAre
  <2>2. status = "up" /\ pending = <<>> /\ UNCHANGED <<status, acked, unsafe, cache>>
    BY <1>9 DEF Restore, Callable, Locked, ghosts
  <2>3. QED
    BY <2>1, <2>2, SwitchKeepsMemory
<1>10. CASE CompactFile
  BY <1>10 DEF CompactFile, Callable, memory, ghosts, MemoryKeeps, Serves
<1>11. CASE Restart
  <2>1. /\ status' = "loading" /\ loaded' = 0
        /\ \A i \in Ids : cacheByID'[i] = NoRec
    BY <1>11 DEF Restart
  <2>2. \A i \in Ids : Replayed(cacheByID'[i], i, loaded', file')
    BY <2>1 DEF Replayed
  <2>3. \A c \in Codes : ~CodeIsTaken(c, loaded', file')
    BY <2>1 DEF CodeIsTaken
  <2>4. loaded' <= Len(file')
    BY <1>11 DEF Restart, IInv, TypeOK
  <2>5. QED
    BY <2>1, <2>2, <2>3, <2>4 DEF MemoryKeeps, Loads
<1>12. CASE LoadFails
  BY <1>12 DEF LoadFails, MemoryKeeps
<1>13. CASE UNCHANGED vars
  BY <1>1, <1>13 DEF vars, memory, ghosts
<1>14. QED
  BY <1>2, <1>3, <1>5, <1>6, <1>7, <1>8, <1>9, <1>10, <1>11, <1>12, <1>13, WriteKeepsMemory,
     LoadLineKeepsMemory, LoadDoneKeepsMemory
  DEF Next, Environment

-----------------------------------------------------------------------------
(* The invariant *)

(* The empty store has nothing to keep. *)
LEMMA InitGivesDurableIInv == Init => DurableIInv
<1> SUFFICES ASSUME Init PROVE DurableIInv
  OBVIOUS
<1>1. IInv
  BY InitGivesIInv
<1>2. /\ Len(file) = 0 /\ loaded = 0 /\ ~unterminated /\ status = "loading"
      /\ \A i \in Ids : acked[i] = NoRec /\ cacheByID[i] = NoRec
  BY DEF Init, EmptyMemory
<1>3. FileKeeps
  BY <1>2 DEF FileKeeps, Kept, Replayed
<1>4. MemoryKeeps
  BY <1>2 DEF MemoryKeeps, Loads, Replayed, CodeIsTaken
<1>5. QED
  BY <1>1, <1>3, <1>4 DEF DurableIInv

(* Where acknowledged records are is an inductive invariant of the store, whatever is called. *)
THEOREM DurableInvariant == Spec => []DurableIInv
<1>1. DurableIInv /\ [Next]_vars => DurableIInv'
  BY NextKeepsIInv, FileStep, MemoryStep DEF DurableIInv
<1>2. QED
  BY <1>1, InitGivesDurableIInv, PTL DEF Spec

(* Durability: what a write that returned nil left is what an up store serves, after any number
   of restarts, compactions and failed writes of other records, unless the record's own last write
   failed or was glued to an unfinished line, or another record has taken its short code. *)
THEOREM AckedServed == Spec => []AckedIsServed
<1>1. DurableIInv => AckedIsServed
  BY DEF DurableIInv, MemoryKeeps, Serves, AckedIsServed
<1>2. QED
  BY <1>1, DurableInvariant, PTL

=============================================================================

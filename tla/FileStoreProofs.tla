--------------------------- MODULE FileStoreProofs ---------------------------
(***************************************************************************)
(* What holds of FileStore for all values of its constants, whatever calls *)
(* are made and whichever writes fail: its state is well typed, its four   *)
(* indexes agree, and no call leaves a stale entry in originalURLIndex.    *)
(* The inductive invariant adds FileAgrees, which ties the lines of the    *)
(* file to the records in memory: without it a replayed line could move a  *)
(* record to another code, URL or user.                                    *)
(***************************************************************************)
EXTENDS FileStore, FiniteSetTheorems, WellFoundedInduction, TLAPS

IInv == TypeOK /\ IndexesAgree /\ FileAgrees

MemoryOK ==
    /\ cache \in [Codes -> Ids \cup {NoId}]
    /\ cacheByID \in [Ids -> Rec \cup {NoRec}]
    /\ originalURLIndex \in [URLs -> Ids \cup {NoId}]
    /\ userIDIndex \in [Users -> Seq(Ids)]

LessThan == {p \in Nat \X Nat : p[1] < p[2]}

(* The order of the naturals, written as a set of pairs, is well founded. *)
LEMMA LessThanIsWellFounded == IsWellFoundedOn(LessThan, Nat)
<1>1. OpToRel(<, Nat) = LessThan
  BY Zenon DEF OpToRel, LessThan
<1>2. QED
  BY <1>1, NatLessThanWellFounded

(* A nonempty set of positions has a last one. *)
LEMMA MaxIsMember ==
    ASSUME NEW n \in Nat, NEW S \in SUBSET (1..n), S # {}
    PROVE  Max(S) \in S
<1> DEFINE T == {j \in Nat : j <= n /\ n - j \in S}
<1>1. PICK k \in S : TRUE
  OBVIOUS
<1>2. T \subseteq Nat /\ n - k \in T
  BY <1>1
<1>3. PICK m \in T : \A j \in T : ~ (<<j, m>> \in LessThan)
  <2> HIDE DEF T
  <2> QED
    BY <1>2, LessThanIsWellFounded, WFMin
<1>4. n - m \in S
  OBVIOUS
<1>5. ASSUME NEW y \in S
      PROVE  n - m >= y
  <2> DEFINE z == n - y
  <2>1. z \in T /\ z \in Nat /\ m \in Nat
    BY <1>5
  <2>2. ~ (z < m)
    <3> HIDE DEF T, z
    <3>1. ~ (<<z, m>> \in LessThan)
      BY <1>3, <2>1
    <3>2. QED
      BY <2>1, <3>1 DEF LessThan
  <2>3. QED
    BY <2>1, <2>2
<1>6. QED
  BY <1>4, <1>5 DEF Max

(* An ordering of a set of ids is a sequence of members of the set. *)
LEMMA OrderingIsSequence ==
    ASSUME NEW S \in SUBSET Ids, NEW s \in SetToSeqs(S)
    PROVE  s \in Seq(Ids) /\ \A k \in DOMAIN s : s[k] \in S
<1>1. Cardinality(S) \in Nat
  BY FS_Subset, FS_CardinalityType, FileStoreAssumption
<1>2. s \in [1..Cardinality(S) -> S]
  BY DEF SetToSeqs
<1>3. QED
  BY <1>1, <1>2

(* All members of the set are in the ordering. *)
LEMMA OrderingIsOnto ==
    ASSUME NEW S \in SUBSET Ids, NEW s \in SetToSeqs(S)
    PROVE  ToSet(s) = S
<1> DEFINE n == Cardinality(S)
           D == 1..n
<1>1. IsFiniteSet(S) /\ n \in Nat
  BY FS_Subset, FS_CardinalityType, FileStoreAssumption
<1>2. s \in [D -> S] /\ \A i, j \in D : i # j => s[i] # s[j]
  BY DEF SetToSeqs
<1>3. s \in Injection(D, S)
  BY <1>2 DEF Injection, IsInjective
<1>4. Cardinality(D) = Cardinality(S)
  BY <1>1, FS_Interval
<1>5. s \in Surjection(D, S)
  BY <1>1, <1>3, <1>4, FS_Injection
<1>6. QED
  BY <1>2, <1>5 DEF Surjection, ToSet

(* A record added or replayed leaves the indexes in agreement, provided a version of it that is
   already known has the same user, code and URL. *)
LEMMA AddKeepsIndexes ==
    ASSUME MemoryOK, IndexesAgree,
           NEW r \in Rec, Known(r.id) => SameLink(cacheByID[r.id], r),
           AddToCacheAndIndexes(r)
    PROVE  /\ MemoryOK' /\ IndexesAgree'
           /\ cacheByID' = [cacheByID EXCEPT ![r.id] = r]
<1> USE NoRecAssumption, FileStoreAssumption DEF Rec, Known
<1>1. MemoryOK'
  BY DEF MemoryOK, AddToCacheAndIndexes
<1>2. /\ r.id \in Ids /\ r # NoRec
      /\ cacheByID'[r.id] = r
      /\ \A i \in Ids \ {r.id} : cacheByID'[i] = cacheByID[i]
  BY DEF MemoryOK, AddToCacheAndIndexes
<1>3. \A i \in Ids : Known(i)' <=> Known(i) \/ i = r.id
  BY <1>2 DEF Known
<1>4. \A i \in Ids : Known(i) => /\ SameLink(cacheByID'[i], cacheByID[i])
                                 /\ cacheByID'[i].id = i
  BY <1>2 DEF Known, IndexesAgree, SameLink
<1>5. ASSUME NEW c \in Codes, cache'[c] # NoId
      PROVE  cacheByID'[cache'[c]] # NoRec /\ cacheByID'[cache'[c]].code = c
  <2>1. CASE c = r.code
    BY <1>2, <1>3, <2>1 DEF MemoryOK, AddToCacheAndIndexes
  <2>2. CASE c # r.code
    <3>1. cache'[c] = cache[c] /\ cache[c] \in Ids
      BY <1>5, <2>2 DEF MemoryOK, AddToCacheAndIndexes
    <3>2. Known(cache[c]) /\ cacheByID[cache[c]].code = c
      BY <1>5, <3>1 DEF IndexesAgree
    <3>3. QED
      BY <1>3, <1>4, <3>1, <3>2 DEF SameLink
  <2>3. QED
    BY <2>1, <2>2
<1>6. ASSUME NEW u \in URLs, originalURLIndex'[u] # NoId
      PROVE  cacheByID'[originalURLIndex'[u]] # NoRec /\ cacheByID'[originalURLIndex'[u]].url = u
  <2>1. CASE r.active /\ u = r.url
    BY <1>2, <1>3, <2>1 DEF MemoryOK, AddToCacheAndIndexes
  <2>2. CASE ~(r.active /\ u = r.url)
    <3>1. originalURLIndex'[u] = originalURLIndex[u] /\ originalURLIndex[u] \in Ids
      BY <1>6, <2>2 DEF MemoryOK, AddToCacheAndIndexes
    <3>2. Known(originalURLIndex[u]) /\ cacheByID[originalURLIndex[u]].url = u
      BY <1>6, <3>1 DEF IndexesAgree
    <3>3. QED
      BY <1>3, <1>4, <3>1, <3>2 DEF SameLink
  <2>3. QED
    BY <2>1, <2>2
<1>7. ASSUME NEW w \in Users
      PROVE  /\ \A j \in DOMAIN userIDIndex[w] :
                   j \in DOMAIN userIDIndex'[w] /\ userIDIndex'[w][j] = userIDIndex[w][j]
             /\ \A j \in DOMAIN userIDIndex'[w] \ DOMAIN userIDIndex[w] :
                   /\ j = Len(userIDIndex[w]) + 1
                   /\ w = r.user /\ userIDIndex'[w][j] = r.id
                   /\ r.id \notin ToSet(userIDIndex[w])
  BY DEF MemoryOK, AddToCacheAndIndexes
<1>8. ASSUME NEW w \in Users, NEW j \in DOMAIN userIDIndex'[w], NEW k \in DOMAIN userIDIndex'[w]
      PROVE  /\ cacheByID'[userIDIndex'[w][k]] # NoRec /\ cacheByID'[userIDIndex'[w][k]].user = w
             /\ userIDIndex'[w][j] = userIDIndex'[w][k] => j = k
  <2>1. /\ DOMAIN userIDIndex[w] = 1..Len(userIDIndex[w])
        /\ \A m \in DOMAIN userIDIndex[w] : /\ userIDIndex[w][m] \in ToSet(userIDIndex[w])
                                            /\ userIDIndex[w][m] \in Ids
    BY DEF MemoryOK, ToSet
  <2>2. \A m \in DOMAIN userIDIndex[w] :
           Known(userIDIndex[w][m]) /\ cacheByID[userIDIndex[w][m]].user = w
    BY DEF IndexesAgree
  <2>3. cacheByID'[userIDIndex'[w][k]] # NoRec /\ cacheByID'[userIDIndex'[w][k]].user = w
    <3>1. CASE k \in DOMAIN userIDIndex[w]
      BY <1>3, <1>4, <1>7, <2>1, <2>2, <3>1 DEF SameLink
    <3>2. CASE k \notin DOMAIN userIDIndex[w]
      BY <1>2, <1>3, <1>7, <1>8, <3>2
    <3>3. QED
      BY <3>1, <3>2
  <2>4. userIDIndex'[w][j] = userIDIndex'[w][k] => j = k
    <3>1. CASE j \in DOMAIN userIDIndex[w] /\ k \in DOMAIN userIDIndex[w]
      BY <1>7, <3>1 DEF IndexesAgree
    <3>2. CASE ~(j \in DOMAIN userIDIndex[w] /\ k \in DOMAIN userIDIndex[w])
      BY <1>7, <1>8, <2>1, <3>2
    <3>3. QED
      BY <3>1, <3>2
  <2>5. QED
    BY <2>3, <2>4
<1>9. ASSUME NEW i \in Ids, Known(i)'
      PROVE  /\ cacheByID'[i].id = i
             /\ cache'[cacheByID'[i].code] # NoId
             /\ i \in ToSet(userIDIndex'[cacheByID'[i].user])
  <2>1. CASE i = r.id
    <3>1. cache'[r.code] # NoId
      BY DEF MemoryOK, AddToCacheAndIndexes
    <3>2. r.id \in ToSet(userIDIndex'[r.user])
      <4>1. CASE r.id \in ToSet(userIDIndex[r.user])
        BY <4>1 DEF AddToCacheAndIndexes
      <4>2. CASE r.id \notin ToSet(userIDIndex[r.user])
        <5>1. userIDIndex'[r.user] = Append(userIDIndex[r.user], r.id)
          BY <4>2 DEF MemoryOK, AddToCacheAndIndexes
        <5>2. LET s == userIDIndex'[r.user]
              IN  Len(userIDIndex[r.user]) + 1 \in DOMAIN s /\ s[Len(userIDIndex[r.user]) + 1] = r.id
          BY <5>1 DEF MemoryOK
        <5>3. QED
          BY <5>2 DEF ToSet
      <4>3. QED
        BY <4>1, <4>2
    <3>3. QED
      BY <1>2, <2>1, <3>1, <3>2
  <2>2. CASE i # r.id
    <3>1. Known(i) /\ cacheByID'[i] = cacheByID[i] /\ cacheByID[i] \in Rec
      BY <1>2, <1>3, <1>9, <2>2 DEF MemoryOK, Known
    <3>2. /\ cacheByID[i].id = i /\ cache[cacheByID[i].code] # NoId
          /\ i \in ToSet(userIDIndex[cacheByID[i].user])
      BY <3>1 DEF IndexesAgree
    <3>3. cache'[cacheByID[i].code] # NoId
      BY <3>1, <3>2 DEF MemoryOK, AddToCacheAndIndexes
    <3>4. i \in ToSet(userIDIndex'[cacheByID[i].user])
      BY <1>7, <3>1, <3>2 DEF ToSet
    <3>5. QED
      BY <3>1, <3>2, <3>3, <3>4
  <2>3. QED
    BY <2>1, <2>2
<1>10. IndexesAgree'
  BY <1>5, <1>6, <1>8, <1>9 DEF IndexesAgree
<1>11. QED
  BY <1>1, <1>10 DEF AddToCacheAndIndexes

(* Switching its flag changes neither a record's id nor what it links. *)
LEMMA FlagKeepsLink ==
    ASSUME NEW r \in Rec, NEW b \in BOOLEAN
    PROVE  /\ [r EXCEPT !.active = b] \in Rec
           /\ [r EXCEPT !.active = b].id = r.id
           /\ SameLink([r EXCEPT !.active = b], r)
  BY DEF Rec, SameLink

(* Switching the active flag of known records leaves the indexes in agreement, as long as the URL
   index keeps its entries, loses them, or gets one of a switched record under its own URL. *)
LEMMA SwitchKeepsIndexes ==
    ASSUME MemoryOK, IndexesAgree,
           NEW ids \in SUBSET Ids, \A i \in ids : Known(i),
           NEW b \in BOOLEAN, SetActive(ids, b), UNCHANGED <<cache, userIDIndex>>,
           originalURLIndex' \in [URLs -> Ids \cup {NoId}],
           \A u \in URLs : originalURLIndex'[u] # NoId =>
              \/ originalURLIndex'[u] = originalURLIndex[u]
              \/ originalURLIndex'[u] \in ids /\ cacheByID[originalURLIndex'[u]].url = u
    PROVE  /\ MemoryOK' /\ IndexesAgree'
           /\ \A i \in Ids : Known(i)' <=> Known(i)
           /\ \A i \in Ids : Known(i) => SameLink(cacheByID'[i], cacheByID[i])
<1> USE NoRecAssumption, FileStoreAssumption
<1>1. ASSUME NEW i \in Ids, i \in ids
      PROVE  /\ cacheByID[i] \in Rec /\ cacheByID'[i] \in Rec
             /\ cacheByID'[i].id = cacheByID[i].id /\ SameLink(cacheByID'[i], cacheByID[i])
  <2>1. cacheByID[i] \in Rec
    BY <1>1 DEF MemoryOK, Known
  <2>2. cacheByID'[i] = [cacheByID[i] EXCEPT !.active = b]
    BY <1>1 DEF SetActive
  <2>3. QED
    BY <2>1, <2>2, FlagKeepsLink
<1>2. ASSUME NEW i \in Ids, i \notin ids
      PROVE  cacheByID'[i] = cacheByID[i]
  BY <1>2 DEF SetActive
<1>3. MemoryOK'
  <2>1. \A i \in Ids : cacheByID'[i] \in Rec \cup {NoRec}
    BY <1>1, <1>2 DEF MemoryOK
  <2>2. DOMAIN cacheByID' = Ids /\ cacheByID' = [i \in DOMAIN cacheByID' |-> cacheByID'[i]]
    BY DEF SetActive
  <2>3. cacheByID' \in [Ids -> Rec \cup {NoRec}]
    BY <2>1, <2>2
  <2>4. QED
    BY <2>3 DEF MemoryOK
<1>4. ASSUME NEW i \in Ids
      PROVE  /\ cacheByID'[i] # NoRec <=> cacheByID[i] # NoRec
             /\ cacheByID[i] # NoRec =>
                  /\ cacheByID'[i].id = cacheByID[i].id
                  /\ SameLink(cacheByID'[i], cacheByID[i])
  <2>1. CASE i \in ids
    BY <1>1, <2>1
  <2>2. CASE i \notin ids
    BY <1>2, <2>2 DEF SameLink
  <2>3. QED
    BY <2>1, <2>2
<1>5. ASSUME NEW c \in Codes, cache'[c] # NoId
      PROVE  cacheByID'[cache'[c]] # NoRec /\ cacheByID'[cache'[c]].code = c
  BY <1>4, <1>5 DEF MemoryOK, IndexesAgree, Known, SameLink
<1>6. ASSUME NEW u \in URLs, originalURLIndex'[u] # NoId
      PROVE  cacheByID'[originalURLIndex'[u]] # NoRec /\ cacheByID'[originalURLIndex'[u]].url = u
  <2>1. originalURLIndex'[u] \in Ids
    BY <1>6
  <2>2. cacheByID[originalURLIndex'[u]] # NoRec /\ cacheByID[originalURLIndex'[u]].url = u
    BY <1>6 DEF IndexesAgree, Known
  <2>3. QED
    BY <1>4, <2>1, <2>2 DEF SameLink
<1>7. ASSUME NEW w \in Users, NEW j \in DOMAIN userIDIndex'[w], NEW k \in DOMAIN userIDIndex'[w]
      PROVE  /\ cacheByID'[userIDIndex'[w][k]] # NoRec /\ cacheByID'[userIDIndex'[w][k]].user = w
             /\ userIDIndex'[w][j] = userIDIndex'[w][k] => j = k
  <2>1. userIDIndex[w][k] \in Ids
    BY DEF MemoryOK
  <2>2. QED
    BY <1>4, <2>1 DEF IndexesAgree, Known, SameLink
<1>8. ASSUME NEW i \in Ids, cacheByID'[i] # NoRec
      PROVE  /\ cacheByID'[i].id = i
             /\ cache'[cacheByID'[i].code] # NoId
             /\ i \in ToSet(userIDIndex'[cacheByID'[i].user])
  BY <1>4, <1>8 DEF IndexesAgree, Known, SameLink
<1>9. IndexesAgree'
  BY <1>5, <1>6, <1>7, <1>8 DEF IndexesAgree, Known
<1>10. QED
  BY <1>3, <1>4, <1>9 DEF Known

(* Every line has a record, and the record an id. *)
LEMMA LineHasRecord ==
    ASSUME TypeOK, NEW k \in DOMAIN file
    PROVE  file[k] \in Line /\ file[k].rec \in Rec /\ file[k].rec.id \in Ids
<1>1. file[k] \in Line
  BY DEF TypeOK
<1>2. file[k].rec \in Rec
  BY <1>1 DEF Line
<1>3. QED
  BY <1>1, <1>2 DEF Rec

(* What arrives at the end of the file is a line of the record that was written. *)
LEMMA ArriveAddsLine ==
    ASSUME TypeOK, FileAgrees, NEW r \in Rec, NEW t \in Text, Arrive(r, t)
    PROVE  /\ file' \in Seq(Line) /\ file' # <<>>
           /\ \A k \in DOMAIN file' : \/ k \in DOMAIN file /\ file'[k].rec = file[k].rec
                                      \/ file'[k].rec = r
<1>1. CASE unterminated
  <2>1. file \in Seq(Line) /\ file # <<>> /\ Len(file) \in DOMAIN file
    BY <1>1 DEF TypeOK, FileAgrees
  <2>2. PICK x \in Text : file' = [file EXCEPT ![Len(file)] = [rec |-> r, text |-> x]]
    BY <1>1 DEF Arrive, Text
  <2>3. [rec |-> r, text |-> x] \in Line
    BY DEF Line
  <2>4. file' \in Seq(Line) /\ DOMAIN file' = DOMAIN file
    BY <2>1, <2>2, <2>3
  <2>5. \A k \in DOMAIN file : file'[k] = IF k = Len(file) THEN [rec |-> r, text |-> x]
                                                          ELSE file[k]
    BY <2>1, <2>2
  <2>6. QED
    BY <2>1, <2>4, <2>5
<1>2. CASE ~ unterminated
  <2>1. file' = Append(file, [rec |-> r, text |-> t]) /\ [rec |-> r, text |-> t] \in Line
    BY <1>2 DEF Arrive, Line
  <2>2. file \in Seq(Line)
    BY DEF TypeOK
  <2>3. QED
    BY <2>1, <2>2
<1>3. QED
  BY <1>1, <1>2

(* Its link is that of the earlier lines of the same id. *)
LEMMA ArriveKeepsLines ==
    ASSUME TypeOK, FileAgrees, NEW r \in Rec, cacheByID[r.id] = r, NEW t \in Text,
           Arrive(r, t), UNCHANGED cacheByID
    PROVE  /\ file' \in Seq(Line) /\ file' # <<>>
           /\ \A j, k \in DOMAIN file' :
                 file'[j].rec.id = file'[k].rec.id => SameLink(file'[j].rec, file'[k].rec)
           /\ \A k \in DOMAIN file' :
                 cacheByID'[file'[k].rec.id] # NoRec =>
                    SameLink(cacheByID'[file'[k].rec.id], file'[k].rec)
<1> USE NoRecAssumption
<1>1. /\ file' \in Seq(Line) /\ file' # <<>>
      /\ \A k \in DOMAIN file' : \/ k \in DOMAIN file /\ file'[k].rec = file[k].rec
                                 \/ file'[k].rec = r
  BY ArriveAddsLine
<1>2. \A k \in DOMAIN file : file[k].rec.id = r.id => SameLink(r, file[k].rec)
  BY DEF FileAgrees, Known
<1>3. SameLink(r, r) /\ r # NoRec
  BY DEF SameLink
<1>4. QED
  BY <1>1, <1>2, <1>3 DEF FileAgrees, Known, SameLink

-----------------------------------------------------------------------------
(* The state a step leaves is as good as the one it found, whatever the step. *)

(* A record added under a fresh id. *)
LEMMA AddRecordKeepsIInv ==
    ASSUME IInv, NEW w \in Users, NEW c \in Codes, NEW u \in URLs, AddRecord(w, c, u),
           UNCHANGED <<file, unterminated>>
    PROVE  MemoryOK' /\ IndexesAgree' /\ FileAgrees' /\ pending' \in Seq(Ids)
<1> USE NoRecAssumption
<1>1. PICK i \in Ids :
        /\ Fresh(i)
        /\ AddToCacheAndIndexes([id |-> i, user |-> w, code |-> c, url |-> u, active |-> TRUE])
        /\ pending' = <<i>>
  BY DEF AddRecord
<1> DEFINE r == [id |-> i, user |-> w, code |-> c, url |-> u, active |-> TRUE]
<1>2. r \in Rec /\ r.id = i /\ ~Known(r.id) /\ AddToCacheAndIndexes(r)
  BY <1>1 DEF Rec, Fresh, Known
<1>3. MemoryOK' /\ IndexesAgree' /\ cacheByID' = [cacheByID EXCEPT ![r.id] = r]
  <2> HIDE DEF r
  <2>1. MemoryOK
    BY DEF IInv, TypeOK, MemoryOK
  <2>2. QED
    BY <1>2, <2>1, AddKeepsIndexes DEF IInv
<1>4. FileAgrees'
  <2>1. \A k \in DOMAIN file : file[k].rec.id \in Ids /\ file[k].rec.id # i
    BY <1>1, LineHasRecord DEF Fresh, IInv
  <2>2. /\ cacheByID'[i] # NoRec
        /\ \A j \in Ids \ {i} : cacheByID'[j] = cacheByID[j]
    BY <1>2, <1>3 DEF IInv, TypeOK
  <2>3. \A k \in DOMAIN pending' : cacheByID'[pending'[k]] # NoRec
    BY <1>1, <2>2
  <2>4. QED
    BY <2>1, <2>2, <2>3 DEF FileAgrees, Known, IInv
<1>5. QED
  BY <1>1, <1>3, <1>4

(* Known records switched on or off. *)
LEMMA SwitchKeepsIInv ==
    ASSUME IInv, NEW ids \in SUBSET Ids, \A i \in ids : Known(i),
           NEW b \in BOOLEAN, SetActive(ids, b),
           UNCHANGED <<cache, userIDIndex, file, unterminated>>,
           originalURLIndex' \in [URLs -> Ids \cup {NoId}],
           \A u \in URLs : originalURLIndex'[u] # NoId =>
              \/ originalURLIndex'[u] = originalURLIndex[u]
              \/ originalURLIndex'[u] \in ids /\ cacheByID[originalURLIndex'[u]].url = u,
           pending' \in Seq(Ids), \A k \in DOMAIN pending' : pending'[k] \in ids
    PROVE  MemoryOK' /\ IndexesAgree' /\ FileAgrees'
<1>1. /\ MemoryOK' /\ IndexesAgree'
      /\ \A i \in Ids : cacheByID'[i] # NoRec <=> cacheByID[i] # NoRec
      /\ \A i \in Ids : cacheByID[i] # NoRec => SameLink(cacheByID'[i], cacheByID[i])
  <2>1. MemoryOK /\ IndexesAgree
    BY DEF IInv, TypeOK, MemoryOK
  <2>2. QED
    BY <2>1, SwitchKeepsIndexes DEF Known
<1>2. \A k \in DOMAIN file : file[k].rec.id \in Ids
  BY LineHasRecord DEF IInv
<1>3. FileAgrees'
  BY <1>1, <1>2 DEF FileAgrees, Known, IInv, SameLink
<1>4. QED
  BY <1>1, <1>3

(* The ids a user's codes lead to are known. *)
LEMMA UserRecordsAreKnown ==
    ASSUME TypeOK, IndexesAgree, NEW w \in Users, NEW codes \in SUBSET Codes
    PROVE  UserRecords(w, codes) \in SUBSET Ids /\ \A i \in UserRecords(w, codes) : Known(i)
<1>1. \A k \in DOMAIN userIDIndex[w] : userIDIndex[w][k] \in Ids /\ Known(userIDIndex[w][k])
  BY DEF TypeOK, IndexesAgree
<1>2. QED
  BY <1>1 DEF UserRecords

(* The ids SetDeleted and Restore switch are known. *)
LEMMA SwitchedAreKnown ==
    ASSUME TypeOK, IndexesAgree, NEW w \in Users, NEW codes \in SUBSET Codes, NEW b \in BOOLEAN
    PROVE  ToSwitch(w, codes, b) \in SUBSET Ids /\ \A i \in ToSwitch(w, codes, b) : Known(i)
BY UserRecordsAreKnown DEF ToSwitch

(* Delete, DeleteByID and SetDeleted: switching off and removing the index entries by URL. *)
LEMMA SwitchOffKeepsIInv ==
    ASSUME IInv, NEW ids \in SUBSET Ids, \A i \in ids : Known(i),
           SetActive(ids, FALSE), RemoveFromIndexes(ids),
           UNCHANGED <<cache, userIDIndex, file, unterminated>>,
           pending' \in Seq(Ids), \A k \in DOMAIN pending' : pending'[k] \in ids
    PROVE  MemoryOK' /\ IndexesAgree' /\ FileAgrees'
<1>1. originalURLIndex' \in [URLs -> Ids \cup {NoId}]
  BY DEF IInv, TypeOK, RemoveFromIndexes
<1>2. \A u \in URLs : originalURLIndex'[u] # NoId => originalURLIndex'[u] = originalURLIndex[u]
  BY DEF RemoveFromIndexes
<1>3. QED
  BY <1>1, <1>2, SwitchKeepsIInv

(* Restore: switching on, and an index entry for the last record of each URL. *)
LEMMA RestoredAre ==
    ASSUME IInv, NEW w \in Users, NEW codes \in SUBSET Codes, Restore(w, codes)
    PROVE  \E ids \in SUBSET Ids :
              /\ \A i \in ids : Known(i)
              /\ SetActive(ids, TRUE)
              /\ pending' \in Seq(Ids) /\ \A k \in DOMAIN pending' : pending'[k] \in ids
              /\ ToSet(pending') = ids
              /\ originalURLIndex' \in [URLs -> Ids \cup {NoId}]
              /\ \A u \in URLs :
                    \/ originalURLIndex'[u] = originalURLIndex[u]
                    \/ originalURLIndex'[u] \in ids /\ cacheByID[originalURLIndex'[u]].url = u
              /\ UNCHANGED <<cache, userIDIndex, file, unterminated>>
<1> DEFINE ids == ToSwitch(w, codes, TRUE)
<1>1. ids \in SUBSET Ids /\ \A i \in ids : Known(i)
  BY SwitchedAreKnown DEF IInv
<1>2. PICK order \in SetToSeqs(ids) :
        /\ pending' = order
        /\ originalURLIndex' = [u \in URLs |->
               LET at == {k \in DOMAIN order : cacheByID[order[k]].url = u}
               IN  IF at = {} THEN originalURLIndex[u] ELSE order[Max(at)]]
  BY DEF Restore
<1>3. order \in Seq(Ids) /\ (\A k \in DOMAIN order : order[k] \in ids) /\ ToSet(order) = ids
  BY <1>1, OrderingIsSequence, OrderingIsOnto
<1>4. ASSUME NEW u \in URLs
      PROVE  /\ originalURLIndex'[u] \in Ids \cup {NoId}
             /\ \/ originalURLIndex'[u] = originalURLIndex[u]
                \/ originalURLIndex'[u] \in ids /\ cacheByID[originalURLIndex'[u]].url = u
  <2> DEFINE at == {k \in DOMAIN order : cacheByID[order[k]].url = u}
  <2>1. originalURLIndex'[u] = IF at = {} THEN originalURLIndex[u] ELSE order[Max(at)]
    BY <1>2
  <2>2. CASE at = {}
    BY <2>1, <2>2 DEF IInv, TypeOK
  <2>3. CASE at # {}
    <3>1. Len(order) \in Nat /\ at \in SUBSET (1..Len(order))
      BY <1>3
    <3>2. Max(at) \in at
      <4> HIDE DEF at
      <4> QED
        BY <2>3, <3>1, MaxIsMember
    <3>3. originalURLIndex'[u] = order[Max(at)]
      BY <2>1, <2>3
    <3>4. QED
      BY <1>1, <1>3, <3>2, <3>3
  <2>4. QED
    BY <2>2, <2>3
<1>5. originalURLIndex' \in [URLs -> Ids \cup {NoId}]
  BY <1>2, <1>4
<1>6. SetActive(ids, TRUE) /\ UNCHANGED <<cache, userIDIndex, file, unterminated>>
  BY DEF Restore
<1>7. QED
  <2> HIDE DEF ids
  <2> QED
    BY <1>1, <1>2, <1>3, <1>4, <1>5, <1>6

(* It keeps the invariant as any switching does. *)
LEMMA RestoreKeepsIInv ==
    ASSUME IInv, NEW w \in Users, NEW codes \in SUBSET Codes, Restore(w, codes)
    PROVE  MemoryOK' /\ IndexesAgree' /\ FileAgrees' /\ pending' \in Seq(Ids)
BY RestoredAre, SwitchKeepsIInv

(* Records written under the mutex. *)
LEMMA ArrivalKeepsIInv ==
    ASSUME IInv, Writing, NEW t \in Text, Arrive(Writes, t), UNCHANGED memory,
           pending' = Tail(pending) \/ pending' = <<>>
    PROVE  /\ MemoryOK' /\ IndexesAgree' /\ FileAgrees'
           /\ file' \in Seq(Line) /\ pending' \in Seq(Ids)
           /\ Writes \in Rec /\ Writes.id \in Ids
<1>1. /\ Head(pending) \in Ids /\ Known(Head(pending)) /\ Tail(pending) \in Seq(Ids)
      /\ \A k \in DOMAIN Tail(pending) : Known(Tail(pending)[k])
  BY DEF Writing, IInv, TypeOK, FileAgrees
<1>2. Writes \in Rec /\ Writes.id = Head(pending) /\ cacheByID[Writes.id] = Writes
  BY <1>1 DEF Writes, Known, IInv, TypeOK, IndexesAgree
<1>3. /\ file' \in Seq(Line) /\ file' # <<>>
      /\ \A j, k \in DOMAIN file' :
            file'[j].rec.id = file'[k].rec.id => SameLink(file'[j].rec, file'[k].rec)
      /\ \A k \in DOMAIN file' :
            cacheByID'[file'[k].rec.id] # NoRec =>
               SameLink(cacheByID'[file'[k].rec.id], file'[k].rec)
  BY <1>2, ArriveKeepsLines DEF IInv, memory
<1>4. \A k \in DOMAIN pending' : cacheByID'[pending'[k]] # NoRec
  BY <1>1 DEF memory, Known
<1>5. FileAgrees'
  BY <1>3, <1>4 DEF FileAgrees, Known
<1>6. MemoryOK' /\ IndexesAgree'
  BY DEF IInv, TypeOK, MemoryOK, IndexesAgree, Known, memory
<1>7. pending' \in Seq(Ids) /\ Writes.id \in Ids
  <2>1. <<>> \in Seq(Ids)
    OBVIOUS
  <2>2. Writes.id \in Ids
    BY <1>1, <1>2
  <2>3. QED
    BY <1>1, <2>1, <2>2, Zenon
<1>8. QED
  BY <1>2, <1>3, <1>5, <1>6, <1>7

(* CompactFile: the records of cache, one line each. *)
LEMMA CompactKeepsIInv ==
    ASSUME IInv, CompactFile
    PROVE  MemoryOK' /\ IndexesAgree' /\ FileAgrees' /\ file' \in Seq(Line)
<1> DEFINE S == {cache[c] : c \in Codes} \ {NoId}
<1>1. S \in SUBSET Ids /\ \A i \in S : /\ Known(i) /\ cacheByID[i] \in Rec
                                       /\ cacheByID[i].id = i
  BY DEF IInv, TypeOK, IndexesAgree, Known
<1>2. PICK order \in SetToSeqs(S) :
        file' = [k \in DOMAIN order |->
                    [rec |-> cacheByID[order[k]], text |-> TextOf(cacheByID[order[k]])]]
  BY DEF CompactFile
<1>3. order \in Seq(Ids) /\ \A k \in DOMAIN order : order[k] \in S
  <2> HIDE DEF S
  <2> QED
    BY <1>1, OrderingIsSequence
<1>4. \A k \in DOMAIN order : /\ file'[k].rec = cacheByID[order[k]]
                              /\ file'[k].rec.id = order[k]
                              /\ file'[k] \in Line
  BY <1>1, <1>2, <1>3 DEF TextOf, Text, Line
<1>5. DOMAIN file' = DOMAIN order /\ file' \in Seq(Line)
  BY <1>2, <1>3, <1>4
<1>6. UNCHANGED <<memory, pending>> /\ ~unterminated'
  BY DEF CompactFile
<1>7. FileAgrees'
  <2>1. \A j, k \in DOMAIN file' :
           file'[j].rec.id = file'[k].rec.id => SameLink(file'[j].rec, file'[k].rec)
    BY <1>4, <1>5 DEF SameLink
  <2>2. \A k \in DOMAIN file' : SameLink(cacheByID'[file'[k].rec.id], file'[k].rec)
    BY <1>4, <1>5, <1>6 DEF SameLink, memory
  <2>3. \A k \in DOMAIN pending' : cacheByID'[pending'[k]] # NoRec
    BY <1>6 DEF FileAgrees, Known, IInv, memory
  <2>4. QED
    BY <1>6, <2>1, <2>2, <2>3 DEF FileAgrees, Known
<1>8. MemoryOK' /\ IndexesAgree'
  BY <1>6 DEF IInv, TypeOK, MemoryOK, IndexesAgree, Known, memory
<1>9. QED
  BY <1>5, <1>7, <1>8

(* A replayed line. *)
LEMMA LoadKeepsIInv ==
    ASSUME IInv, LoadLine
    PROVE  MemoryOK' /\ IndexesAgree' /\ FileAgrees'
<1>1. CASE UNCHANGED memory
  BY <1>1 DEF LoadLine, IInv, TypeOK, MemoryOK, IndexesAgree, FileAgrees, Known, memory
<1>2. CASE AddToCacheAndIndexes(file[loaded + 1].rec)
  <2> DEFINE r == file[loaded + 1].rec
  <2>1. loaded + 1 \in DOMAIN file
    BY DEF LoadLine, IInv, TypeOK
  <2>2. r \in Rec /\ r.id \in Ids
    BY <2>1, LineHasRecord DEF IInv
  <2>3. Known(r.id) => SameLink(cacheByID[r.id], r)
    BY <2>1 DEF FileAgrees, IInv
  <2>4. MemoryOK' /\ IndexesAgree' /\ cacheByID' = [cacheByID EXCEPT ![r.id] = r]
    <3> HIDE DEF r
    <3>1. MemoryOK
      BY DEF IInv, TypeOK, MemoryOK
    <3>2. QED
      BY <1>2, <2>2, <2>3, <3>1, AddKeepsIndexes DEF IInv, r
  <2>5. /\ cacheByID'[r.id] = r /\ r # NoRec
        /\ \A j \in Ids \ {r.id} : cacheByID'[j] = cacheByID[j]
    BY <2>2, <2>4, NoRecAssumption DEF IInv, TypeOK
  <2>6. \A k \in DOMAIN file : /\ file[k].rec.id \in Ids
                               /\ file[k].rec.id = r.id => SameLink(r, file[k].rec)
    BY <2>1, LineHasRecord DEF FileAgrees, IInv
  <2>7. UNCHANGED <<file, unterminated, pending>> /\ pending \in Seq(Ids)
    BY DEF LoadLine, IInv, TypeOK
  <2>8. FileAgrees'
    BY <2>5, <2>6, <2>7 DEF FileAgrees, Known, IInv
  <2>9. QED
    BY <2>4, <2>8
<1>3. QED
  BY <1>1, <1>2 DEF LoadLine

-----------------------------------------------------------------------------
(* The invariant is inductive. *)

(* The record to be written next is the one memory has under the first id that waits. *)
LEMMA WritesAre ==
    ASSUME IInv, Writing
    PROVE  /\ Writes \in Rec /\ Writes # NoRec
           /\ Head(pending) \in Ids /\ Known(Head(pending))
           /\ Writes = cacheByID[Head(pending)] /\ Writes.id = Head(pending)
           /\ Len(pending) \in Nat \ {0} /\ Head(pending) = pending[1] /\ 1 \in DOMAIN pending
           /\ Tail(pending) \in Seq(Ids) /\ Len(Tail(pending)) = Len(pending) - 1
           /\ \A k \in DOMAIN Tail(pending) :
                 k + 1 \in DOMAIN pending /\ Tail(pending)[k] = pending[k + 1]
<1>1. /\ Len(pending) \in Nat \ {0} /\ Head(pending) = pending[1] /\ 1 \in DOMAIN pending
      /\ Tail(pending) \in Seq(Ids) /\ Len(Tail(pending)) = Len(pending) - 1
      /\ \A k \in DOMAIN Tail(pending) :
            k + 1 \in DOMAIN pending /\ Tail(pending)[k] = pending[k + 1]
  BY DEF Writing, IInv, TypeOK
<1>2. Head(pending) \in Ids /\ Known(Head(pending))
  BY <1>1 DEF IInv, TypeOK, FileAgrees
<1>3. QED
  BY <1>1, <1>2 DEF Writes, Known, IInv, TypeOK, IndexesAgree

(* A line that is read replaces what memory has of its record, or is no record. *)
LEMMA LoadedIs ==
    ASSUME IInv, LoadLine
    PROVE  LET r == file[loaded + 1].rec
           IN  /\ loaded + 1 \in DOMAIN file /\ r \in Rec /\ r # NoRec
               /\ file[loaded + 1].text # "long" /\ loaded' = loaded + 1
               /\ \/ UNCHANGED memory /\ file[loaded + 1].text # "whole"
                  \/ /\ file[loaded + 1].text = "whole"
                     /\ cache' = [cache EXCEPT ![r.code] = r.id]
                     /\ cacheByID' = [cacheByID EXCEPT ![r.id] = r]
                     /\ originalURLIndex' = IF r.active
                                            THEN [originalURLIndex EXCEPT ![r.url] = r.id]
                                            ELSE originalURLIndex
<1>1. loaded + 1 \in DOMAIN file
  BY DEF LoadLine, IInv, TypeOK
<1>2. QED
  BY <1>1, LineHasRecord, NoRecAssumption DEF LoadLine, AddToCacheAndIndexes, IInv

(* The empty store satisfies the invariant, *)
LEMMA InitGivesIInv == Init => IInv
<1> SUFFICES ASSUME Init PROVE IInv
  OBVIOUS
<1>1. TypeOK
  <2>1. /\ cacheByID \in [Ids -> Rec \cup {NoRec}] /\ acked \in [Ids -> Rec \cup {NoRec}]
        /\ cache \in [Codes -> Ids \cup {NoId}] /\ originalURLIndex \in [URLs -> Ids \cup {NoId}]
    BY DEF Init, EmptyMemory
  <2>2. userIDIndex \in [Users -> Seq(Ids)]
    BY DEF Init, EmptyMemory
  <2>3. file \in Seq(Line) /\ pending \in Seq(Ids)
    BY DEF Init
  <2>4. QED
    BY <2>1, <2>2, <2>3 DEF Init, TypeOK
<1>2. IndexesAgree
  BY DEF Init, EmptyMemory, IndexesAgree, Known
<1>3. FileAgrees
  BY DEF Init, FileAgrees
<1>4. QED
  BY <1>1, <1>2, <1>3 DEF IInv

(* and every call, failure and replayed line keeps it. *)
LEMMA NextKeepsIInv == IInv /\ [Next]_vars => IInv'
<1> SUFFICES ASSUME IInv, [Next]_vars PROVE IInv'
  OBVIOUS
<1> USE NoRecAssumption
<1>1. ASSUME NEW w \in Users, NEW c \in Codes, NEW u \in URLs, Save(w, c, u)
      PROVE  IInv'
  <2>1. MemoryOK' /\ IndexesAgree' /\ FileAgrees' /\ pending' \in Seq(Ids)
    BY <1>1, AddRecordKeepsIInv DEF Save
  <2>2. QED
    BY <1>1, <2>1 DEF Save, IInv, TypeOK, MemoryOK, ghosts
<1>2. ASSUME NEW n \in 1..MaxBatch, BatchSave(n)
      PROVE  IInv'
  BY <1>2 DEF BatchSave, IInv, TypeOK, IndexesAgree, FileAgrees, Known, memory, ghosts
<1>3. ASSUME NEW w \in Users, NEW c \in Codes, NEW u \in URLs, BatchItem(w, c, u)
      PROVE  IInv'
  <2>1. batch' \in Nat
    BY <1>3 DEF BatchItem, IInv, TypeOK
  <2>2. CASE UNCHANGED <<memory, pending>>
    BY <1>3, <2>1, <2>2
       DEF BatchItem, IInv, TypeOK, IndexesAgree, FileAgrees, Known, memory, ghosts
  <2>3. CASE AddRecord(w, c, u)
    <3>1. MemoryOK' /\ IndexesAgree' /\ FileAgrees' /\ pending' \in Seq(Ids)
      BY <1>3, <2>3, AddRecordKeepsIInv DEF BatchItem
    <3>2. QED
      BY <1>3, <2>1, <3>1 DEF BatchItem, IInv, TypeOK, MemoryOK, ghosts
  <2>4. QED
    BY <1>3, <2>2, <2>3 DEF BatchItem
<1>4. ASSUME NEW i \in Ids, Known(i), MarkInactive(i)
      PROVE  IInv'
  <2>1. pending' = <<i>> /\ {i} \in SUBSET Ids
    BY <1>4 DEF MarkInactive
  <2>2. pending' \in Seq(Ids) /\ \A k \in DOMAIN pending' : pending'[k] \in {i}
    BY <2>1
  <2>3. MemoryOK' /\ IndexesAgree' /\ FileAgrees'
    BY <1>4, <2>1, <2>2, SwitchOffKeepsIInv DEF MarkInactive
  <2>4. QED
    BY <1>4, <2>2, <2>3 DEF MarkInactive, IInv, TypeOK, MemoryOK, ghosts
<1>5. ASSUME NEW c \in Codes, Delete(c)
      PROVE  IInv'
  <2>1. cache[c] \in Ids /\ Known(cache[c]) /\ MarkInactive(cache[c])
    BY <1>5 DEF Delete, IInv, TypeOK, IndexesAgree
  <2>2. QED
    BY <1>4, <2>1
<1>6. ASSUME NEW i \in Ids, DeleteByID(i)
      PROVE  IInv'
  BY <1>4, <1>6 DEF DeleteByID
<1>7. ASSUME NEW w \in Users, NEW codes \in SUBSET Codes, SetDeletedByUserIDAndURLs(w, codes)
      PROVE  IInv'
  <2> DEFINE ids == ToSwitch(w, codes, FALSE)
  <2>1. ids \in SUBSET Ids /\ \A i \in ids : Known(i)
    BY SwitchedAreKnown DEF IInv
  <2>2. pending' \in Seq(Ids) /\ \A k \in DOMAIN pending' : pending'[k] \in ids
    BY <1>7, <2>1, OrderingIsSequence DEF SetDeletedByUserIDAndURLs
  <2>3. /\ SetActive(ids, FALSE) /\ RemoveFromIndexes(ids)
        /\ UNCHANGED <<status, file, unterminated, loaded, cache, userIDIndex, batch, ghosts>>
    BY <1>7 DEF SetDeletedByUserIDAndURLs
  <2>4. MemoryOK' /\ IndexesAgree' /\ FileAgrees'
    <3> HIDE DEF ids
    <3> QED
      BY <2>1, <2>2, <2>3, SwitchOffKeepsIInv
  <2>5. QED
    BY <2>2, <2>3, <2>4 DEF IInv, TypeOK, MemoryOK, ghosts
<1>8. ASSUME NEW w \in Users, NEW codes \in SUBSET Codes, SetDeletedAgain(w, codes)
      PROVE  IInv'
  BY <1>8 DEF SetDeletedAgain, IInv, TypeOK, IndexesAgree, FileAgrees, Known, memory, ghosts
<1>9. ASSUME NEW w \in Users, NEW codes \in SUBSET Codes, Restore(w, codes)
      PROVE  IInv'
  <2>1. MemoryOK' /\ IndexesAgree' /\ FileAgrees' /\ pending' \in Seq(Ids)
    BY <1>9, RestoreKeepsIInv
  <2>2. QED
    BY <1>9, <2>1 DEF Restore, IInv, TypeOK, MemoryOK, ghosts
<1>10. CASE CompactFile
  <2>1. MemoryOK' /\ IndexesAgree' /\ FileAgrees' /\ file' \in Seq(Line)
    BY <1>10, CompactKeepsIInv
  <2>2. QED
    BY <1>10, <2>1 DEF CompactFile, IInv, TypeOK, MemoryOK, ghosts
<1>11. CASE AppendRecordToFile
  <2>1. /\ MemoryOK' /\ IndexesAgree' /\ FileAgrees'
        /\ file' \in Seq(Line) /\ pending' \in Seq(Ids)
        /\ Writes \in Rec /\ Writes.id \in Ids
    BY <1>11, ArrivalKeepsIInv DEF AppendRecordToFile, TextOf, Text
  <2>2. acked' \in [Ids -> Rec \cup {NoRec}] /\ unsafe' \subseteq Ids
    BY <1>11, <2>1 DEF AppendRecordToFile, IInv, TypeOK
  <2>3. QED
    BY <1>11, <2>1, <2>2 DEF AppendRecordToFile, IInv, TypeOK, MemoryOK
<1>12. ASSUME CallFails
       PROVE  unsafe' \subseteq Ids /\ pending' = <<>> /\ batch' \in Nat
  BY <1>12 DEF CallFails, IInv, TypeOK, ToSet
<1>13. CASE AppendFails
  BY <1>12, <1>13
     DEF AppendFails, CallFails, IInv, TypeOK, IndexesAgree, FileAgrees, Known, memory
<1>14. CASE AppendTorn
  <2>1. /\ MemoryOK' /\ IndexesAgree' /\ FileAgrees'
        /\ file' \in Seq(Line) /\ pending' \in Seq(Ids)
    BY <1>14, ArrivalKeepsIInv DEF AppendTorn, CallFails, TextOf, Text
  <2>2. QED
    BY <1>12, <1>14, <2>1 DEF AppendTorn, CallFails, IInv, TypeOK, MemoryOK
<1>15. CASE Restart
  <2>1. TypeOK'
    BY <1>15 DEF Restart, IInv, TypeOK, ghosts
  <2>2. IndexesAgree'
    BY <1>15 DEF Restart, IndexesAgree, Known
  <2>3. FileAgrees'
    <3>1. \A k \in DOMAIN file : cacheByID'[file[k].rec.id] = NoRec
      BY <1>15, LineHasRecord DEF Restart, IInv
    <3>2. QED
      BY <1>15, <3>1 DEF Restart, FileAgrees, Known, IInv
  <2>4. QED
    BY <2>1, <2>2, <2>3 DEF IInv
<1>16. CASE LoadLine
  <2>1. MemoryOK' /\ IndexesAgree' /\ FileAgrees'
    BY <1>16, LoadKeepsIInv
  <2>2. QED
    BY <1>16, <2>1 DEF LoadLine, IInv, TypeOK, MemoryOK, ghosts
<1>17. CASE LoadDone \/ LoadFails
  <2>1. /\ status' \in {"loading", "up", "down"}
        /\ UNCHANGED <<file, unterminated, loaded, memory, pending, batch, ghosts>>
    BY <1>17 DEF LoadDone, LoadFails
  <2>2. QED
    BY <2>1 DEF IInv, TypeOK, IndexesAgree, FileAgrees, Known, memory, ghosts
<1>18. CASE UNCHANGED vars
  BY <1>18 DEF vars, IInv, TypeOK, IndexesAgree, FileAgrees, Known, memory, ghosts
<1>19. QED
  BY <1>1, <1>2, <1>3, <1>5, <1>6, <1>7, <1>8, <1>9, <1>10, <1>11, <1>13, <1>14, <1>15,
     <1>16, <1>17, <1>18 DEF Next, Environment

(* So it holds of every reachable state of the store. *)
THEOREM InductiveInvariant == Spec => []IInv
<1>1. Init => IInv
  BY InitGivesIInv
<1>2. IInv /\ [Next]_vars => IInv'
  BY NextKeepsIInv
<1>3. QED
  BY <1>1, <1>2, PTL DEF Spec

(* The state is always well typed: no call, failed write or replayed file leaves an index entry
   that is no id, or a record that is none. *)
THEOREM TypeCorrect == Spec => []TypeOK
<1>1. IInv => TypeOK
  BY DEF IInv
<1>2. QED
  BY <1>1, InductiveInvariant, PTL

(* The four indexes of cachedFileStorage always describe the same records. *)
THEOREM IndexesCorrect == Spec => []IndexesAgree
<1>1. IInv => IndexesAgree
  BY DEF IInv
<1>2. QED
  BY <1>1, InductiveInvariant, PTL

-----------------------------------------------------------------------------
(* An entry of originalURLIndex never goes stale by a call. *)

(* A new entry is for an active record, and replaces no other record. *)
LEMMA AddLeavesNoStaleEntry ==
    ASSUME IInv, NEW w \in Users, NEW c \in Codes, NEW u \in URLs, AddRecord(w, c, u),
           NEW v \in URLs, StaleEntry(v)'
    PROVE  StaleEntry(v)
<1>1. PICK i \in Ids :
        /\ Fresh(i)
        /\ AddToCacheAndIndexes([id |-> i, user |-> w, code |-> c, url |-> u, active |-> TRUE])
  BY DEF AddRecord
<1> DEFINE r == [id |-> i, user |-> w, code |-> c, url |-> u, active |-> TRUE]
<1>2. /\ r.active = TRUE /\ r # NoRec
      /\ cacheByID' = [cacheByID EXCEPT ![i] = r]
      /\ originalURLIndex' = [originalURLIndex EXCEPT ![u] = i]
  <2>1. r \in Rec /\ r.active = TRUE
    BY DEF Rec
  <2>2. QED
    BY <1>1, <2>1, NoRecAssumption DEF AddToCacheAndIndexes
<1> HIDE DEF r
<1>3. Active(i)' /\ \A j \in Ids \ {i} : Active(j)' <=> Active(j)
  BY <1>2 DEF Active, Known, IInv, TypeOK
<1>4. originalURLIndex'[u] = i /\ (v # u => originalURLIndex'[v] = originalURLIndex[v])
  BY <1>2 DEF IInv, TypeOK
<1>5. /\ originalURLIndex'[v] # NoId
      /\ \/ cacheByID'[originalURLIndex'[v]] = NoRec
         \/ ~cacheByID'[originalURLIndex'[v]].active
  BY DEF StaleEntry, Active, Known
<1>6. v # u /\ originalURLIndex[v] # NoId /\ originalURLIndex[v] \in Ids \ {i}
  BY <1>3, <1>4, <1>5, <1>2 DEF IInv, TypeOK, Active, Known
<1>7. ~Active(originalURLIndex[v])
  BY <1>2, <1>4, <1>5, <1>6 DEF Active, Known, IInv, TypeOK
<1>8. QED
  BY <1>6, <1>7 DEF StaleEntry

(* Switching records off removes the entries of their URLs. *)
LEMMA SwitchOffLeavesNoStaleEntry ==
    ASSUME IInv, NEW ids \in SUBSET Ids, SetActive(ids, FALSE), RemoveFromIndexes(ids),
           NEW v \in URLs, StaleEntry(v)'
    PROVE  StaleEntry(v)
<1> DEFINE i == originalURLIndex[v]
<1>1. originalURLIndex'[v] = i /\ i # NoId /\ \A k \in ids : cacheByID[k].url # v
  BY DEF StaleEntry, RemoveFromIndexes
<1>2. i \in Ids /\ Known(i) /\ cacheByID[i].url = v
  BY <1>1 DEF IInv, TypeOK, IndexesAgree
<1>3. cacheByID'[i] = cacheByID[i]
  BY <1>1, <1>2 DEF SetActive
<1>4. ~Active(i)
  BY <1>1, <1>3 DEF StaleEntry, Active, Known
<1>5. QED
  BY <1>1, <1>4 DEF StaleEntry

(* Switching records on, with entries for some of them, leaves every active record active. *)
LEMMA RestoreLeavesNoStaleEntry ==
    ASSUME IInv, NEW w \in Users, NEW codes \in SUBSET Codes, Restore(w, codes),
           NEW v \in URLs, StaleEntry(v)'
    PROVE  StaleEntry(v)
<1>1. PICK ids \in SUBSET Ids :
        /\ \A i \in ids : Known(i)
        /\ SetActive(ids, TRUE)
        /\ originalURLIndex' \in [URLs -> Ids \cup {NoId}]
        /\ \A u \in URLs :
              \/ originalURLIndex'[u] = originalURLIndex[u]
              \/ originalURLIndex'[u] \in ids /\ cacheByID[originalURLIndex'[u]].url = u
  BY RestoredAre
<1> DEFINE i == originalURLIndex'[v]
<1>2. i \in Ids /\ i # NoId
  BY <1>1 DEF StaleEntry
<1>3. cacheByID'[i] = NoRec \/ ~cacheByID'[i].active
  BY DEF StaleEntry, Active, Known
<1>4. ASSUME NEW k \in ids PROVE cacheByID'[k] # NoRec /\ cacheByID'[k].active
  <2>1. cacheByID[k] \in Rec /\ cacheByID'[k] = [cacheByID[k] EXCEPT !.active = TRUE]
    BY <1>1 DEF Known, IInv, TypeOK, SetActive
  <2>2. cacheByID'[k] \in Rec /\ cacheByID'[k].active
    BY <2>1 DEF Rec
  <2>3. QED
    BY <2>2, NoRecAssumption
<1>5. i \notin ids
  BY <1>3, <1>4
<1>6. cacheByID'[i] = cacheByID[i] /\ i = originalURLIndex[v]
  BY <1>1, <1>2, <1>5 DEF SetActive
<1>7. QED
  BY <1>2, <1>3, <1>6 DEF StaleEntry, Active, Known

(* Of the calls of an up store and of its failures none leaves a stale entry. *)
LEMMA StepLeavesNoStaleEntry ==
    ASSUME IInv, [Next]_vars, status = "up", NEW v \in URLs, StaleEntry(v)'
    PROVE  StaleEntry(v)
<1>1. CASE UNCHANGED <<originalURLIndex, cacheByID>>
  BY <1>1 DEF StaleEntry, Active, Known
<1>2. ASSUME NEW w \in Users, NEW c \in Codes, NEW u \in URLs, Save(w, c, u) \/ BatchItem(w, c, u)
      PROVE  StaleEntry(v)
  BY <1>1, <1>2, AddLeavesNoStaleEntry DEF Save, BatchItem, memory
<1>3. ASSUME NEW i \in Ids, MarkInactive(i)
      PROVE  StaleEntry(v)
  <2>1. {i} \in SUBSET Ids
    OBVIOUS
  <2>2. QED
    BY <1>3, <2>1, SwitchOffLeavesNoStaleEntry DEF MarkInactive
<1>4. ASSUME NEW c \in Codes, Delete(c) PROVE StaleEntry(v)
  <2>1. cache[c] \in Ids /\ MarkInactive(cache[c])
    BY <1>4 DEF Delete, IInv, TypeOK
  <2>2. QED
    BY <1>3, <2>1
<1>5. ASSUME NEW i \in Ids, DeleteByID(i) PROVE StaleEntry(v)
  BY <1>3, <1>5 DEF DeleteByID
<1>6. ASSUME NEW w \in Users, NEW codes \in SUBSET Codes, SetDeletedByUserIDAndURLs(w, codes)
      PROVE  StaleEntry(v)
  <2> DEFINE ids == ToSwitch(w, codes, FALSE)
  <2>1. ids \in SUBSET Ids /\ SetActive(ids, FALSE) /\ RemoveFromIndexes(ids)
    BY <1>6, SwitchedAreKnown DEF SetDeletedByUserIDAndURLs, IInv
  <2> HIDE DEF ids
  <2>2. QED
    BY <2>1, SwitchOffLeavesNoStaleEntry
<1>7. ASSUME NEW w \in Users, NEW codes \in SUBSET Codes, Restore(w, codes)
      PROVE  StaleEntry(v)
  BY <1>7, RestoreLeavesNoStaleEntry
<1>8. ASSUME NEW n \in 1..MaxBatch, BatchSave(n) PROVE StaleEntry(v)
  BY <1>1, <1>8 DEF BatchSave, memory
<1>9. ASSUME NEW w \in Users, NEW codes \in SUBSET Codes, SetDeletedAgain(w, codes)
      PROVE  StaleEntry(v)
  BY <1>1, <1>9 DEF SetDeletedAgain, memory
<1>10. CASE CompactFile \/ AppendRecordToFile \/ AppendFails \/ AppendTorn \/ UNCHANGED vars
  BY <1>1, <1>10
  DEF CompactFile, AppendRecordToFile, AppendFails, AppendTorn, CallFails, vars, memory
<1>11. CASE Restart
  BY <1>11 DEF Restart, StaleEntry
<1>12. CASE LoadLine \/ LoadDone \/ LoadFails
  BY <1>12 DEF LoadLine, LoadDone, LoadFails
<1>13. QED
  BY <1>2, <1>4, <1>5, <1>6, <1>7, <1>8, <1>9, <1>10, <1>11, <1>12 DEF Next, Environment

(* No call leaves originalURLIndex with an entry for an inactive record: Delete, DeleteByID,
   SetDeleted and Restore keep the index to active records, whatever fails; only the replay of a
   file can bring a stale entry. *)
THEOREM IndexKeptActive == Spec => CallsKeepIndexActive
<1>1. IInv /\ [Next]_vars =>
        [\A u \in URLs : status = "up" /\ StaleEntry(u)' => StaleEntry(u)]_vars
  BY StepLeavesNoStaleEntry
<1>2. QED
  BY <1>1, InductiveInvariant, PTL DEF Spec, CallsKeepIndexActive

=============================================================================

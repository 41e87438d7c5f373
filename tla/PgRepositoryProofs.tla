------------------------- MODULE PgRepositoryProofs --------------------------
(***************************************************************************)
(* What holds of PgRepository for all values of its constants: connections *)
(* are accounted for and lost by failed batches only, a URL is created     *)
(* once, and a batch becomes visible at once.  The inductive invariant     *)
(* ties the rows of an open transaction to the request of its call: what   *)
(* is not inserted yet is still to do.                                     *)
(***************************************************************************)
EXTENDS PgRepository, FiniteSetTheorems, SequenceTheorems, TLAPS

TypesInv ==
    /\ table \in [URLs -> Row \cup {NoRow}]
    /\ call \in [Clients -> Call]
    /\ created \in [URLs -> Nat]

Inserting(c) == call[c].at \in {"insert", "commit"}

(* Only transactions insert, their rows are of their request, and what of it has no row is to do. *)
RowsOf(c) ==
    /\ Inserting(c) => call[c].op \in {"create", "batch"}
    /\ \A u \in URLs : Inserted(c, u) => Inserting(c) /\ u \in ToSet(call[c].urls)
    /\ call[c].at \in {"acquire", "insert"} => ToSet(call[c].todo) \subseteq ToSet(call[c].urls)
    /\ call[c].at = "acquire" => call[c].todo = call[c].urls
    /\ call[c].at = "insert" =>
          \A u \in ToSet(call[c].urls) : u \in ToSet(call[c].todo) \/ Inserted(c, u)
    /\ call[c].at = "commit" => \A u \in ToSet(call[c].urls) : Inserted(c, u)
RowsInv == \A c \in Clients : RowsOf(c)

Holders == {c \in Clients : Holds(c)}
ConnectionsInv ==
    /\ free \in Nat /\ leaked \in Nat
    /\ IsFiniteSet(Holders)
    /\ free + Cardinality(Holders) + leaked = MaxConns

IInv == TypesInv /\ RowsInv /\ ConnectionsInv /\ CreatedOnce

-----------------------------------------------------------------------------
(* The elements of a sequence are its head and those of its tail. *)
LEMMA ToSetOfTail ==
    ASSUME NEW S, NEW s \in Seq(S), s # <<>>
    PROVE  /\ Head(s) \in S /\ Head(s) \in ToSet(s)
           /\ Tail(s) \in Seq(S)
           /\ ToSet(Tail(s)) \subseteq ToSet(s)
           /\ \A u \in ToSet(s) : u = Head(s) \/ u \in ToSet(Tail(s))
<1>1. /\ Len(s) \in Nat \ {0} /\ DOMAIN s = 1..Len(s)
      /\ Tail(s) \in Seq(S) /\ Len(Tail(s)) = Len(s) - 1
      /\ DOMAIN Tail(s) = 1..(Len(s) - 1)
      /\ \A i \in 1..(Len(s) - 1) : Tail(s)[i] = s[i + 1]
      /\ Head(s) = s[1] /\ Head(s) \in S
  OBVIOUS
<1>2. Head(s) \in ToSet(s)
  BY <1>1 DEF ToSet
<1>3. ToSet(Tail(s)) \subseteq ToSet(s)
  BY <1>1 DEF ToSet
<1>4. ASSUME NEW u \in ToSet(s), u # Head(s)
      PROVE  u \in ToSet(Tail(s))
  <2>1. PICK i \in 1..Len(s) : u = s[i]
    BY <1>1 DEF ToSet
  <2>2. i - 1 \in 1..(Len(s) - 1) /\ (i - 1) + 1 = i
    BY <1>1, <1>4, <2>1
  <2>3. u = Tail(s)[i - 1]
    BY <1>1, <2>1, <2>2
  <2>4. QED
    BY <1>1, <2>2, <2>3 DEF ToSet
<1>5. QED
  BY <1>1, <1>2, <1>3, <1>4

LEMMA ToSetInRange == ASSUME NEW S, NEW s \in Seq(S) PROVE ToSet(s) \subseteq S
BY DEF ToSet

LEMMA RequestIsSeq == \A urls \in Request(MaxRequest) : urls \in Seq(URLs)
BY PgAssumption DEF Request

(* A call starts, waits, goes on or returns; the rest is what it does to table and connections. *)
Returning(c) ==
    AcquireFails(c) \/ InsertDuplicate(c) \/ InsertFails(c) \/ ChunkNotSent(c)
        \/ CommitSucceeds(c) \/ CommitFails(c) \/ SendOne(c) \/ SendFails(c)
Starting(c) ==
    \E op \in {"create", "batch", "update", "read"} : \E urls \in Seq(URLs) : Start(c, op, urls)

LEMMA Steps ==
    ASSUME Next
    PROVE  \E c \in Clients :
              Starting(c) \/ Acquire(c) \/ Insert(c) \/ Inserts(c) \/ Returning(c)
<1>1. PICK c \in Clients :
          \/ \E u \in URLs : Create(c, u)
          \/ \E urls \in Request(MaxRequest) : CreateBatch(c, urls) \/ UpdateIsActive(c, urls)
          \/ Read(c)
          \/ Acquire(c) \/ Insert(c) \/ Inserts(c) \/ Returning(c)
  BY DEF Next, Returning
<1>2. ASSUME \/ \E u \in URLs : Create(c, u)
             \/ \E urls \in Request(MaxRequest) : CreateBatch(c, urls) \/ UpdateIsActive(c, urls)
             \/ Read(c)
      PROVE  Starting(c)
  <2>1. \A u \in URLs : <<u>> \in Seq(URLs)
    OBVIOUS
  <2>2. <<>> \in Seq(URLs)
    OBVIOUS
  <2>3. QED
    BY <1>2, <2>1, <2>2, RequestIsSeq DEF Starting, Create, CreateBatch, UpdateIsActive, Read
<1>3. QED
  BY <1>1, <1>2

-----------------------------------------------------------------------------
LEMMA InitIInv == Init => IInv
<1> SUFFICES ASSUME Init PROVE IInv
  OBVIOUS
<1>1. Idle \in Call
  BY DEF Idle, Call, Place
<1>2. TypesInv
  BY <1>1 DEF Init, TypesInv
<1>3. RowsInv
  BY NoRowAssumption DEF Init, RowsInv, RowsOf, Inserting, Inserted, Idle
<1>4. Holders = {}
  BY DEF Init, Holders, Holds, Idle
<1>5. ConnectionsInv
  BY <1>4, FS_EmptySet, PgAssumption DEF Init, ConnectionsInv
<1>6. CreatedOnce
  BY DEF Init, CreatedOnce
<1>7. QED
  BY <1>2, <1>3, <1>5, <1>6 DEF IInv

-----------------------------------------------------------------------------
(* A call that returns leaves no row of its own behind, touches none of another transaction, and
   takes no committed row away. *)
LEMMA Returned ==
    ASSUME TypesInv, RowsInv, NEW c \in Clients, Returning(c)
    PROVE  /\ call' = [call EXCEPT ![c] = Idle]
           /\ table' \in [URLs -> Row \cup {NoRow}]
           /\ \A u \in URLs : ~Inserted(c, u)'
           /\ \A d \in Clients \ {c}, u \in URLs : Inserted(d, u)' <=> Inserted(d, u)
           /\ \A u \in URLs : Committed(u) => Committed(u)'
           /\ \A u \in URLs : Committed(u)' => Committed(u) \/ Inserted(c, u)
<1> USE PgAssumption, NoRowAssumption
<1>1. CASE Abort(c) /\ call' = [call EXCEPT ![c] = Idle]
  BY <1>1 DEF Abort, Inserted, Committed, TypesInv, Row
<1>2. CASE Commit(c) /\ call' = [call EXCEPT ![c] = Idle]
  BY <1>2 DEF Commit, Inserted, Committed, TypesInv, Row
<1>3. CASE LeaveOpen(c) /\ call' = [call EXCEPT ![c] = Idle]
  BY <1>3 DEF LeaveOpen, Inserted, Committed, TypesInv, Row
<1>4. CASE table' = table /\ call' = [call EXCEPT ![c] = Idle] /\ ~Inserting(c)
  BY <1>4 DEF RowsInv, RowsOf, Inserted, Committed, TypesInv
<1>5. CASE table' = Updated(c) /\ call' = [call EXCEPT ![c] = Idle] /\ ~Inserting(c)
  <2>1. \A u \in URLs : ~Inserted(c, u)
    BY <1>5 DEF RowsInv, RowsOf
  <2>2. QED
    BY <1>5, <2>1 DEF Updated, Inserted, Committed, TypesInv, Row
<1>6. QED
  BY <1>1, <1>2, <1>3, <1>4, <1>5
     DEF Returning, AcquireFails, InsertDuplicate, InsertFails, ChunkNotSent, CommitSucceeds,
         CommitFails, SendOne, SendFails, Return, ReturnError, Inserting

LEMMA TypesKept == ASSUME TypesInv, RowsInv, Next PROVE TypesInv'
<1>1. PICK c \in Clients : Starting(c) \/ Acquire(c) \/ Insert(c) \/ Inserts(c) \/ Returning(c)
  BY Steps
<1>2. CASE Starting(c)
  <2>1. PICK op \in {"create", "batch", "update", "read"}, urls \in Seq(URLs) : Start(c, op, urls)
    BY <1>2 DEF Starting
  <2>2. [op |-> op, at |-> "acquire", urls |-> urls, todo |-> urls] \in Call
    BY DEF Call, Place
  <2>3. QED
    BY <2>1, <2>2 DEF Start, TypesInv
<1>3. CASE Acquire(c)
  BY <1>3 DEF Acquire, Goto, TypesInv, Call, Place
<1>4. CASE Insert(c)
  <2>1. Head(call[c].todo) \in URLs /\ Tail(call[c].todo) \in Seq(URLs)
    BY <1>4, ToSetOfTail DEF Insert, TypesInv, Call
  <2>2. [by |-> c, active |-> TRUE] \in Row
    BY DEF Row
  <2>3. table' \in [URLs -> Row \cup {NoRow}]
    BY <1>4, <2>1, <2>2 DEF Insert, TypesInv
  <2>4. call' \in [Clients -> Call]
    BY <1>4, <2>1 DEF Insert, TypesInv, Call
  <2>5. QED
    BY <1>4, <2>3, <2>4 DEF Insert, TypesInv
<1>5. CASE Inserts(c)
  BY <1>5 DEF Inserts, Goto, TypesInv, Call, Place
<1>6. CASE Returning(c)
  <2>1. call' \in [Clients -> Call]
    <3>1. Idle \in Call
      BY DEF Idle, Call, Place
    <3>2. QED
      BY <1>6, <3>1, Returned DEF TypesInv
  <2>2. created' \in [URLs -> Nat]
    BY <1>6 DEF Returning, AcquireFails, InsertDuplicate, InsertFails, ChunkNotSent,
                CommitSucceeds, CommitFails, SendOne, SendFails, TypesInv
  <2>3. QED
    BY <1>6, <2>1, <2>2, Returned DEF TypesInv
<1>7. QED
  BY <1>1, <1>2, <1>3, <1>4, <1>5, <1>6

(* Rows and request of a call that neither moves nor inserts. *)
LEMMA RowsOfOthers ==
    ASSUME NEW c \in Clients, RowsOf(c), call'[c] = call[c],
           \A u \in URLs : Inserted(c, u)' <=> Inserted(c, u),
           ToSet(call[c].urls) \subseteq URLs
    PROVE  RowsOf(c)'
BY DEF RowsOf, Inserting

LEMMA RowsKept == ASSUME TypesInv, RowsInv, Next PROVE RowsInv'
<1>1. PICK c \in Clients : Starting(c) \/ Acquire(c) \/ Insert(c) \/ Inserts(c) \/ Returning(c)
  BY Steps
<1>2. \A d \in Clients : RowsOf(d) /\ ToSet(call[d].urls) \subseteq URLs
  BY ToSetInRange DEF TypesInv, Call, RowsInv
<1>3. ASSUME NEW d \in Clients, d # c
      PROVE  RowsOf(d)'
  <2>1. call'[d] = call[d]
    <3>1. CASE Starting(c) \/ Acquire(c) \/ Insert(c) \/ Inserts(c)
      BY <1>3, <3>1 DEF Starting, Start, Acquire, Insert, Inserts, Goto, TypesInv
    <3>2. CASE Returning(c)
      BY <1>3, <3>2, Returned DEF TypesInv
    <3>3. QED
      BY <1>1, <3>1, <3>2
  <2>2. ASSUME NEW u \in URLs PROVE Inserted(d, u)' <=> Inserted(d, u)
    <3>1. CASE Starting(c) \/ Acquire(c) \/ Inserts(c)
      BY <3>1 DEF Starting, Start, Acquire, Inserts, Inserted
    <3>2. CASE Insert(c)
      <4> DEFINE row == [by |-> c, active |-> TRUE]
                 h == Head(call[c].todo)
      <4>1. table' = [table EXCEPT ![h] = row] /\ table[h] = NoRow /\ row.by # d
        BY <1>3, <3>2 DEF Insert
      <4>2. row # NoRow
        <5>1. row \in Row
          BY DEF Row
        <5>2. QED
          BY <5>1, NoRowAssumption
      <4>3. QED
        <5> HIDE DEF row, h
        <5> QED
          BY <4>1, <4>2 DEF Inserted, TypesInv
    <3>3. CASE Returning(c)
      BY <1>3, <3>3, Returned
    <3>4. QED
      BY <1>1, <3>1, <3>2, <3>3
  <2>3. QED
    BY <1>2, <2>1, <2>2, RowsOfOthers
<1>4. RowsOf(c)'
  <2>1. CASE Starting(c)
    <3>1. PICK op \in {"create", "batch", "update", "read"}, urls \in Seq(URLs) :
              Start(c, op, urls)
      BY <2>1 DEF Starting
    <3>2. /\ call'[c] = [op |-> op, at |-> "acquire", urls |-> urls, todo |-> urls]
          /\ table' = table /\ call[c].at = "idle"
      BY <3>1 DEF Start, TypesInv, Idle
    <3>3. \A u \in URLs : ~Inserted(c, u)'
      BY <1>2, <3>2 DEF RowsOf, Inserted, Inserting
    <3>4. QED
      BY <3>2, <3>3 DEF RowsOf, Inserting
  <2>2. CASE Acquire(c)
    <3>1. /\ call[c].at = "acquire" /\ table' = table
          /\ call'[c].urls = call[c].urls /\ call'[c].todo = call[c].todo
          /\ call'[c].op = call[c].op /\ call'[c].at \in {"insert", "send"}
          /\ call'[c].at = "insert" => call[c].op \in {"create", "batch"}
      BY <2>2 DEF Acquire, Goto, TypesInv, Call
    <3>2. \A u \in URLs : ~Inserted(c, u)'
      BY <1>2, <3>1 DEF RowsOf, Inserted, Inserting
    <3>3. QED
      BY <1>2, <3>1, <3>2 DEF RowsOf, Inserting
  <2>3. CASE Insert(c)
    <3> DEFINE h == Head(call[c].todo)
               rest == Tail(call[c].todo)
               row == [by |-> c, active |-> TRUE]
    <3>1. /\ h \in URLs /\ h \in ToSet(call[c].todo)
          /\ ToSet(rest) \subseteq ToSet(call[c].todo)
          /\ \A u \in ToSet(call[c].todo) : u = h \/ u \in ToSet(rest)
      BY <2>3, ToSetOfTail DEF Insert, TypesInv, Call
    <3>2. /\ table' = [table EXCEPT ![h] = row] /\ table[h] = NoRow
          /\ call[c].at = "insert" /\ call' = [call EXCEPT ![c].todo = rest]
      BY <2>3 DEF Insert
    <3>3. row # NoRow /\ row.by = c
      <4>1. row \in Row
        BY DEF Row
      <4>2. QED
        BY <4>1, NoRowAssumption
    <3>4. /\ call'[c].at = "insert" /\ call'[c].op = call[c].op
          /\ call'[c].urls = call[c].urls /\ call'[c].todo = rest
      BY <3>2 DEF TypesInv, Call
    <3>5. \A u \in URLs : Inserted(c, u)' <=> Inserted(c, u) \/ u = h
      <4> HIDE DEF row, h, rest
      <4> QED
        BY <3>1, <3>2, <3>3 DEF Inserted, TypesInv
    <3>6. QED
      <4> HIDE DEF row, h, rest
      <4> QED
        BY <1>2, <3>1, <3>2, <3>4, <3>5 DEF RowsOf, Inserting
  <2>4. CASE Inserts(c)
    <3>1. /\ call[c].at = "insert" /\ call[c].todo = <<>> /\ table' = table
          /\ call'[c].urls = call[c].urls /\ call'[c].op = call[c].op /\ call'[c].at = "commit"
      BY <2>4 DEF Inserts, Goto, TypesInv, Call
    <3>2. ToSet(call[c].todo) = {}
      BY <3>1 DEF ToSet
    <3>3. \A u \in URLs : Inserted(c, u)' <=> Inserted(c, u)
      BY <3>1 DEF Inserted
    <3>4. QED
      BY <1>2, <3>1, <3>2, <3>3 DEF RowsOf, Inserting
  <2>5. CASE Returning(c)
    <3>1. call'[c].at = "idle" /\ \A u \in URLs : ~Inserted(c, u)'
      BY <2>5, Returned DEF TypesInv, Idle
    <3>2. QED
      BY <3>1 DEF RowsOf, Inserting
  <2>6. QED
    BY <1>1, <2>1, <2>2, <2>3, <2>4, <2>5
<1>5. QED
  BY <1>3, <1>4 DEF RowsInv

-----------------------------------------------------------------------------
(* Whoever takes a connection gives it back when he returns, or it is leaked. *)
LEMMA GivesBack ==
    ASSUME TypesInv, ConnectionsInv, NEW c \in Clients, Returning(c)
    PROVE  \/ ~Holds(c) /\ free' = free /\ leaked' = leaked
           \/ Holds(c) /\ free' = free + 1 /\ leaked' = leaked
           \/ Holds(c) /\ free' = free /\ leaked' = leaked + 1
BY DEF Returning, AcquireFails, InsertDuplicate, InsertFails, ChunkNotSent, CommitSucceeds,
       CommitFails, SendOne, SendFails, Return, ReturnError, Holds

LEMMA ConnectionsKept == ASSUME TypesInv, RowsInv, ConnectionsInv, Next PROVE ConnectionsInv'
<1> USE PgAssumption
<1>1. PICK c \in Clients : Starting(c) \/ Acquire(c) \/ Insert(c) \/ Inserts(c) \/ Returning(c)
  BY Steps
<1>2. IsFiniteSet(Holders) /\ Cardinality(Holders) \in Nat
  BY FS_CardinalityType DEF ConnectionsInv
<1>3. CASE Starting(c) \/ Insert(c) \/ Inserts(c)
  <2>1. Holders' = Holders
    <3>1. \A d \in Clients \ {c} : call'[d].at = call[d].at
      BY <1>3 DEF Starting, Start, Insert, Inserts, Goto, TypesInv
    <3>2. Holds(c)' <=> Holds(c)
      <4>1. CASE Starting(c)
        BY <4>1 DEF Starting, Start, Holds, TypesInv, Idle
      <4>2. CASE Insert(c)
        BY <4>2 DEF Insert, Holds, TypesInv, Call
      <4>3. CASE Inserts(c)
        BY <4>3 DEF Inserts, Goto, Holds, TypesInv, Call
      <4>4. QED
        BY <1>3, <4>1, <4>2, <4>3
    <3>3. QED
      BY <3>1, <3>2 DEF Holders, Holds
  <2>2. free' = free /\ leaked' = leaked
    BY <1>3 DEF Starting, Start, Insert, Inserts
  <2>3. QED
    BY <2>1, <2>2 DEF ConnectionsInv
<1>4. CASE Acquire(c)
  <2>1. Holders' = Holders \cup {c} /\ c \notin Holders
    BY <1>4 DEF Acquire, Goto, Holders, Holds, TypesInv, Call
  <2>2. free' = free - 1 /\ free > 0 /\ leaked' = leaked
    BY <1>4 DEF Acquire
  <2>3. IsFiniteSet(Holders') /\ Cardinality(Holders') = Cardinality(Holders) + 1
    BY <1>2, <2>1, FS_AddElement
  <2>4. QED
    BY <1>2, <2>2, <2>3 DEF ConnectionsInv
<1>5. CASE Returning(c)
  <2>1. Holders' = Holders \ {c} /\ (Holds(c) <=> c \in Holders)
    BY <1>5, Returned DEF Holders, Holds, TypesInv, Idle
  <2>2. IsFiniteSet(Holders')
        /\ Cardinality(Holders') =
              IF Holds(c) THEN Cardinality(Holders) - 1 ELSE Cardinality(Holders)
    BY <1>2, <2>1, FS_RemoveElement
  <2>3. QED
    BY <1>2, <1>5, <2>2, GivesBack DEF ConnectionsInv
<1>6. QED
  BY <1>1, <1>3, <1>4, <1>5

LEMMA CommittedStays ==
    ASSUME TypesInv, RowsInv, Next, NEW u \in URLs, Committed(u)
    PROVE  Committed(u)'
<1>1. PICK c \in Clients : Starting(c) \/ Acquire(c) \/ Insert(c) \/ Inserts(c) \/ Returning(c)
  BY Steps
<1>2. CASE Starting(c) \/ Acquire(c) \/ Inserts(c)
  BY <1>2 DEF Starting, Start, Acquire, Inserts, Committed, Inserted
<1>3. CASE Insert(c)
  BY <1>3 DEF Insert, Committed, Inserted, TypesInv
<1>4. CASE Returning(c)
  BY <1>4, Returned
<1>5. QED
  BY <1>1, <1>2, <1>3, <1>4

(* A commit reports only rows of its own transaction, none of which was committed before. *)
LEMMA CreatedOnceKept == ASSUME TypesInv, RowsInv, CreatedOnce, Next PROVE CreatedOnce'
<1> USE PgAssumption
<1>1. SUFFICES ASSUME NEW u \in URLs, created'[u] > 0
               PROVE  created'[u] = 1 /\ Committed(u)'
  BY DEF CreatedOnce
<1>2. CASE created' = created
  BY <1>1, <1>2, CommittedStays DEF CreatedOnce
<1>3. ASSUME NEW c \in Clients, CommitSucceeds(c)
      PROVE  created'[u] = 1 /\ Committed(u)'
  <2>1. CASE u \in ToSet(call[c].urls)
    <3>1. Inserted(c, u)
      BY <1>3, <2>1 DEF RowsInv, RowsOf, CommitSucceeds
    <3>2. ~Committed(u)
      BY <3>1 DEF Committed, Inserted
    <3>3. created[u] = 0
      BY <3>2 DEF CreatedOnce, TypesInv
    <3>4. created'[u] = 1
      BY <1>3, <2>1, <3>3 DEF CommitSucceeds
    <3>5. Committed(u)'
      <4>1. table'[u] = [table[u] EXCEPT !.by = Nobody] /\ table[u] \in Row
        BY <1>3, <3>1 DEF CommitSucceeds, Commit, Inserted, TypesInv
      <4>2. table'[u] \in Row /\ table'[u].by = Nobody
        BY <4>1 DEF Row
      <4>3. QED
        BY <4>2, NoRowAssumption DEF Committed, Inserted
    <3>6. QED
      BY <3>4, <3>5
  <2>2. CASE u \notin ToSet(call[c].urls)
    <3>1. created'[u] = created[u]
      BY <1>3, <2>2 DEF CommitSucceeds
    <3>2. QED
      BY <1>1, <3>1, CommittedStays DEF CreatedOnce
  <2>3. QED
    BY <2>1, <2>2
<1>4. (\E c \in Clients : CommitSucceeds(c)) \/ created' = created
  BY Steps DEF Starting, Start, Acquire, Insert, Inserts, Returning, AcquireFails,
               InsertDuplicate, InsertFails, ChunkNotSent, CommitFails, SendOne, SendFails
<1>5. QED
  BY <1>2, <1>3, <1>4

-----------------------------------------------------------------------------
(* The inductive invariant holds in every reachable state. *)
THEOREM Invariant == Spec => []IInv
<1>1. IInv /\ [Next]_vars => IInv'
  <2> SUFFICES ASSUME IInv, [Next]_vars PROVE IInv'
    OBVIOUS
  <2>1. CASE Next
    BY <2>1, TypesKept, RowsKept, ConnectionsKept, CreatedOnceKept DEF IInv
  <2>2. CASE UNCHANGED vars
    <3>1. TypesInv' /\ ConnectionsInv'
      BY <2>2 DEF vars, IInv, TypesInv, ConnectionsInv, Holders, Holds
    <3>2. RowsInv'
      <4>1. \A c \in Clients : RowsOf(c) /\ ToSet(call[c].urls) \subseteq URLs
        BY ToSetInRange DEF IInv, TypesInv, Call, RowsInv
      <4>2. \A c \in Clients, u \in URLs : Inserted(c, u)' <=> Inserted(c, u)
        BY <2>2 DEF vars, Inserted
      <4>3. QED
        BY <2>2, <4>1, <4>2, RowsOfOthers DEF vars, RowsInv
    <3>3. CreatedOnce'
      BY <2>2 DEF vars, IInv, CreatedOnce, Committed, Inserted
    <3>4. QED
      BY <3>1, <3>2, <3>3 DEF IInv
  <2>3. QED
    BY <2>1, <2>2
<1>2. QED
  BY InitIInv, <1>1, PTL DEF Spec

(* Every variable keeps its type; the pool never holds more connections than it was made with. *)
THEOREM TypeCorrect == Spec => []TypeOK
<1>1. IInv => TypeOK
  <2> SUFFICES ASSUME IInv PROVE TypeOK
    OBVIOUS
  <2>1. Cardinality(Holders) \in Nat
    BY FS_CardinalityType DEF IInv, ConnectionsInv
  <2>2. free \in 0..MaxConns /\ leaked \in 0..MaxConns
    BY <2>1, PgAssumption DEF IInv, ConnectionsInv
  <2>3. QED
    BY <2>2 DEF IInv, TypesInv, TypeOK
<1>2. QED
  BY Invariant, <1>1, PTL

(* Every connection is in the pool, held by one running call, or leaked. *)
THEOREM ConnectionsAreAccounted == Spec => []ConnectionsAccounted
<1>1. IInv => ConnectionsAccounted
  <2> SUFFICES ASSUME IInv PROVE ConnectionsAccounted
    OBVIOUS
  <2>1. Cardinality(Holders) \in Nat
    BY FS_CardinalityType DEF IInv, ConnectionsInv
  <2>2. QED
    BY <2>1 DEF IInv, ConnectionsInv, ConnectionsAccounted, Holders
<1>2. QED
  BY Invariant, <1>1, PTL

(* A URL is reported as created at most once, and then has a committed row. *)
THEOREM URLsAreCreatedOnce == Spec => []CreatedOnce
<1>1. IInv => CreatedOnce
  BY DEF IInv
<1>2. QED
  BY Invariant, <1>1, PTL

(* Only a failing CreateBatch loses a connection. *)
THEOREM OnlyBatchesLeak == Spec => OnlyBatchLeaks
<1> DEFINE LeakedByBatch == \E c \in Clients : call[c].op = "batch" /\ call'[c] = Idle
<1>1. IInv /\ [Next]_vars => [leaked' # leaked => LeakedByBatch]_vars
  <2> SUFFICES ASSUME IInv, Next, leaked' # leaked PROVE LeakedByBatch
    BY DEF vars
  <2>1. PICK c \in Clients : InsertDuplicate(c) \/ InsertFails(c) \/ ChunkNotSent(c)
    BY Steps DEF Starting, Start, Acquire, Insert, Inserts, Returning, AcquireFails,
                 CommitSucceeds, CommitFails, SendOne, SendFails
  <2>2. call[c].at = "insert" /\ ReturnError(c)
    BY <2>1 DEF InsertDuplicate, InsertFails, ChunkNotSent
  <2>3. call[c].op = "batch"
    BY <2>2 DEF ReturnError, IInv, RowsInv, RowsOf, Inserting
  <2>4. call'[c] = Idle
    BY <2>2 DEF ReturnError, Return, IInv, TypesInv
  <2>5. QED
    BY <2>3, <2>4
<1>2. QED
  BY Invariant, <1>1, PTL DEF Spec, OnlyBatchLeaks

(* A row becomes visible only when its call ends, and with all rows of the same request. *)
THEOREM BatchesAreAtomic == Spec => BatchIsAtomic
<1> DEFINE AllAtOnce == \A u \in URLs : ~Committed(u) /\ Committed(u)' =>
          \E c \in Clients : /\ call'[c] = Idle
                             /\ u \in ToSet(call[c].urls)
                             /\ \A v \in ToSet(call[c].urls) : Committed(v)'
<1>1. IInv /\ [Next]_vars => [AllAtOnce]_vars
  <2> SUFFICES ASSUME IInv, Next, NEW u \in URLs, ~Committed(u), Committed(u)'
               PROVE  \E c \in Clients : /\ call'[c] = Idle
                                         /\ u \in ToSet(call[c].urls)
                                         /\ \A v \in ToSet(call[c].urls) : Committed(v)'
    BY DEF vars
  <2>1. TypesInv /\ RowsInv
    BY DEF IInv
  <2>2. PICK c \in Clients : Returning(c)
    <3>1. ASSUME NEW c \in Clients, Insert(c)
          PROVE  FALSE
      BY <3>1, <2>1, PgAssumption DEF Insert, Committed, Inserted, TypesInv
    <3>2. ASSUME NEW c \in Clients, Starting(c) \/ Acquire(c) \/ Inserts(c)
          PROVE  FALSE
      BY <3>2 DEF Starting, Start, Acquire, Inserts, Committed, Inserted
    <3>3. QED
      BY <3>1, <3>2, Steps
  <2>3. call'[c] = Idle
    BY <2>1, <2>2, Returned DEF TypesInv
  <2>4. Inserted(c, u)
    BY <2>1, <2>2, Returned
  <2>5. u \in ToSet(call[c].urls)
    BY <2>1, <2>4 DEF RowsInv, RowsOf
  <2>6. call[c].at = "commit" /\ Commit(c)
    <3>1. Inserting(c)
      BY <2>1, <2>4 DEF RowsInv, RowsOf
    <3>2. ASSUME Abort(c) \/ LeaveOpen(c)
          PROVE  FALSE
      BY <2>1, <2>4, <3>2, PgAssumption, NoRowAssumption
         DEF Abort, LeaveOpen, Committed, Inserted, TypesInv, Row
    <3>3. QED
      BY <2>2, <3>1, <3>2
         DEF Returning, AcquireFails, InsertDuplicate, InsertFails, ChunkNotSent, CommitSucceeds,
             CommitFails, SendOne, SendFails, Inserting
  <2>7. ASSUME NEW v \in ToSet(call[c].urls)
        PROVE  Committed(v)'
    <3>1. Inserted(c, v) /\ v \in URLs
      BY <2>1, <2>6, ToSetInRange DEF RowsInv, RowsOf, TypesInv, Call
    <3>2. table'[v] = [table[v] EXCEPT !.by = Nobody] /\ table[v] \in Row
      BY <2>1, <2>6, <3>1 DEF Commit, Inserted, TypesInv
    <3>3. table'[v] \in Row /\ table'[v].by = Nobody
      BY <3>2 DEF Row
    <3>4. QED
      BY <3>3, NoRowAssumption DEF Committed, Inserted
  <2>8. QED
    BY <2>3, <2>5, <2>7
<1>2. QED
  BY Invariant, <1>1, PTL DEF Spec, BatchIsAtomic
=============================================================================

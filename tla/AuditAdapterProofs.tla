------------------------- MODULE AuditAdapterProofs --------------------------
(***************************************************************************)
(* What holds of AuditAdapter for all values of its constants: however     *)
(* LogEvent, Enable and Disable interleave there is at most one processor, *)
(* and every accepted event goes to every receiver at most once and in     *)
(* order.  The inductive invariant ties the WaitGroup and the done channel *)
(* to the processor that runs, and says what it may hold at each place.    *)
(***************************************************************************)
EXTENDS AuditAdapter, FiniteSetTheorems, SequenceTheorems, TLAPS

TypesInv ==
    /\ receivers \subseteq {"file", "http"}
    /\ enabled \in BOOLEAN /\ doneClosed \in BOOLEAN
    /\ mutex \in Controllers \cup {NoOne}
    /\ queue \in Seq(Nat) /\ Len(queue) <= QueueSize
    /\ logger \in [Loggers -> {"idle", "check", "send"}]
    /\ proc \in [Processors -> Place]
    /\ batch \in [Processors -> Seq(Nat)] /\ hand \in [Processors -> Seq(Nat)]
    /\ accepted \in Nat /\ owed \in Nat
    /\ written \in Seq(Nat) /\ posted \in Seq(Nat)

(* The WaitGroup counts the one processor; the done channel is closed while a Disable waits for it,
   and outside of Disable it runs exactly when the adapter is enabled and has a receiver. *)
ControlInv ==
    /\ \A p, q \in Live : p = q
    /\ wg = IF Live = {} THEN 0 ELSE 1
    /\ mutex = NoOne => ~doneClosed /\ (Live # {} <=> enabled /\ receivers # {})
    /\ mutex # NoOne => doneClosed /\ ~enabled
    /\ \A p \in Processors : proc[p] = "last" => mutex # NoOne

(* What a processor may hold. *)
HoldingInv == \A p \in Processors :
    /\ proc[p] = "none" => batch[p] = <<>>
    /\ proc[p] # "write" => hand[p] = <<>>
    /\ proc[p] = "write" => Len(hand[p]) = 1
    /\ Len(batch[p]) <= MaxBatchSize
    /\ proc[p] \in {"select", "write"} => Len(batch[p]) < MaxBatchSize

IInv == TypesInv /\ ControlInv /\ HoldingInv /\ EachTriedOnce

Moves(p) == Stop(p) \/ Take(p) \/ LogToFile(p) \/ Timer(p) \/ FlushBatchHTTP(p)
Logs(l) == LogEvent(l) \/ CheckEnabled(l) \/ Send(l) \/ Drop(l)
Controls(c) == Disable(c) \/ DisableWaited(c)

LEMMA Steps ==
    ASSUME Next
    PROVE  \/ \E l \in Loggers : Logs(l)
           \/ \E p \in Processors : Moves(p)
           \/ Enable
           \/ \E c \in Controllers : Controls(c)
BY Zenon DEF Next, Moves, Logs, Controls

-----------------------------------------------------------------------------
LEMMA TypesKept == ASSUME TypesInv, HoldingInv, Next PROVE TypesInv'
<1> USE AuditAssumption
<1>1. ASSUME NEW l \in Loggers, Logs(l)
      PROVE  TypesInv'
  <2>1. CASE ~Send(l)
    BY <1>1, <2>1 DEF Logs, LogEvent, CheckEnabled, Drop, TypesInv, control
  <2>2. CASE Send(l)
    <3>1. queue' \in Seq(Nat) /\ Len(queue') = Len(queue) + 1
      BY <2>2 DEF Send, TypesInv
    <3>2. QED
      BY <2>2, <3>1 DEF Send, TypesInv, control
  <2>3. QED
    BY <2>1, <2>2
<1>2. ASSUME NEW p \in Processors, Moves(p)
      PROVE  TypesInv'
  <2>1. CASE Stop(p)
    BY <2>1 DEF Stop, TypesInv, Place
  <2>2. CASE Take(p)
    <3>1. Head(queue) \in Nat /\ Tail(queue) \in Seq(Nat) /\ Len(Tail(queue)) = Len(queue) - 1
          /\ Len(queue) \in Nat
      BY <2>2 DEF Take, TypesInv
    <3>2. <<Head(queue)>> \in Seq(Nat)
      BY <3>1
    <3>3. QED
      BY <2>2, <3>1, <3>2 DEF Take, TypesInv, Place, control
  <2>3. CASE LogToFile(p)
    <3>1. written \o hand[p] \in Seq(Nat) /\ batch[p] \o hand[p] \in Seq(Nat)
          /\ <<>> \in Seq(Nat)
      BY DEF TypesInv
    <3>2. /\ proc' \in [Processors -> Place] /\ written' \in Seq(Nat)
          /\ batch' \in [Processors -> Seq(Nat)] /\ hand' \in [Processors -> Seq(Nat)]
      BY <2>3, <3>1 DEF LogToFile, TypesInv, Place
    <3>3. QED
      BY <2>3, <3>2 DEF LogToFile, TypesInv, control
  <2>4. CASE Timer(p)
    BY <2>4 DEF Timer, TypesInv, Place, control
  <2>5. CASE FlushBatchHTTP(p)
    <3>1. posted \o batch[p] \in Seq(Nat) /\ <<>> \in Seq(Nat)
      BY DEF TypesInv
    <3>2. QED
      BY <2>5, <3>1 DEF FlushBatchHTTP, TypesInv, Place
  <2>6. QED
    BY <1>2, <2>1, <2>2, <2>3, <2>4, <2>5 DEF Moves
<1>3. CASE Enable
  BY <1>3 DEF Enable, TypesInv, Place
<1>4. ASSUME NEW c \in Controllers, Controls(c)
      PROVE  TypesInv'
  BY <1>4 DEF Controls, Disable, DisableWaited, TypesInv
<1>5. QED
  BY <1>1, <1>2, <1>3, <1>4, Steps

(* What each move makes of the processors that run. *)
LEMMA LiveAfter ==
    ASSUME TypesInv, ControlInv, Next
    PROVE  /\ \A p \in Processors : Moves(p) =>
                 \/ Live = {p} /\ Live' = {p} /\ wg' = wg
                 \/ Live = {p} /\ Live' = {} /\ wg' = wg - 1 /\ (Stop(p) \/ FlushBatchHTTP(p))
           /\ \A l \in Loggers : Logs(l) => Live' = Live /\ wg' = wg
           /\ \A c \in Controllers : Controls(c) => Live' = Live /\ wg' = wg
<1>1. ASSUME NEW p \in Processors, Moves(p)
      PROVE  \/ Live = {p} /\ Live' = {p} /\ wg' = wg
             \/ Live = {p} /\ Live' = {} /\ wg' = wg - 1 /\ (Stop(p) \/ FlushBatchHTTP(p))
  <2>1. p \in Live
    BY <1>1 DEF Moves, Stop, Take, LogToFile, Timer, FlushBatchHTTP, Live
  <2>2. Live = {p} /\ \A q \in Processors \ {p} : proc[q] = "none"
    BY <2>1 DEF ControlInv, Live
  <2>3. CASE Stop(p) \/ FlushBatchHTTP(p)
    <3>1. /\ \A q \in Processors \ {p} : proc'[q] = "none"
          /\ \/ proc'[p] # "none" /\ wg' = wg
             \/ proc'[p] = "none" /\ wg' = wg - 1
      BY <2>2, <2>3 DEF Stop, FlushBatchHTTP, TypesInv
    <3>2. QED
      BY <2>2, <2>3, <3>1 DEF Live
  <2>4. CASE Take(p) \/ LogToFile(p) \/ Timer(p)
    <3>1. /\ \A q \in Processors \ {p} : proc'[q] = "none"
          /\ proc'[p] # "none" /\ wg' = wg
      BY <2>2, <2>4 DEF Take, LogToFile, Timer, TypesInv, control
    <3>2. QED
      BY <2>2, <3>1 DEF Live
  <2>5. QED
    BY <1>1, <2>3, <2>4 DEF Moves
<1>2. ASSUME NEW l \in Loggers, Logs(l)
      PROVE  Live' = Live /\ wg' = wg
  BY <1>2 DEF Logs, LogEvent, CheckEnabled, Send, Drop, Live, control
<1>3. ASSUME NEW c \in Controllers, Controls(c)
      PROVE  Live' = Live /\ wg' = wg
  BY <1>3 DEF Controls, Disable, DisableWaited, Live
<1>4. QED
  BY <1>1, <1>2, <1>3

LEMMA ControlKept == ASSUME TypesInv, ControlInv, Next PROVE ControlInv'
<1> USE AuditAssumption
<1>1. ASSUME NEW l \in Loggers, Logs(l)
      PROVE  ControlInv'
  <2>1. UNCHANGED <<Live, wg, proc, mutex, doneClosed, enabled, receivers>>
    BY <1>1, LiveAfter DEF Logs, LogEvent, CheckEnabled, Send, Drop, control
  <2>2. QED
    BY <2>1 DEF ControlInv
<1>2. ASSUME NEW p \in Processors, Moves(p)
      PROVE  ControlInv'
  <2>1. UNCHANGED <<mutex, doneClosed, enabled, receivers>>
    BY <1>2 DEF Moves, Stop, Take, LogToFile, Timer, FlushBatchHTTP, control
  <2>2. ASSUME NEW q \in Processors, proc'[q] = "last"
        PROVE  mutex # NoOne
    BY <1>2, <2>2
    DEF ControlInv, TypesInv, Moves, Stop, Take, LogToFile, Timer, FlushBatchHTTP, control
  <2>3. CASE Live = {p} /\ Live' = {p} /\ wg' = wg
    BY <2>1, <2>2, <2>3 DEF ControlInv
  <2>4. CASE Live = {p} /\ Live' = {} /\ wg' = wg - 1 /\ (Stop(p) \/ FlushBatchHTTP(p))
    <3>1. p \notin Live'
      BY <2>4
    <3>2. proc'[p] = "none"
      BY <3>1 DEF Live
    <3>3. mutex # NoOne
      BY <2>4, <3>2 DEF ControlInv, TypesInv, Stop, FlushBatchHTTP
    <3>4. QED
      BY <2>1, <2>2, <2>4, <3>3 DEF ControlInv
  <2>5. QED
    BY <1>2, <2>3, <2>4, LiveAfter
<1>3. CASE Enable
  <2>1. Live = {} /\ wg = 0 /\ mutex = NoOne /\ ~enabled /\ ~doneClosed
    BY <1>3 DEF Enable, ControlInv
  <2>2. UNCHANGED <<receivers, mutex, doneClosed>> /\ enabled'
    BY <1>3 DEF Enable
  <2>3. CASE receivers = {}
    <3>1. UNCHANGED <<proc, wg, Live>>
      BY <1>3, <2>3 DEF Enable, Live
    <3>2. QED
      BY <2>1, <2>2, <2>3, <3>1 DEF ControlInv
  <2>4. CASE receivers # {}
    <3>1. PICK q \in Processors : proc' = [proc EXCEPT ![q] = "select"]
      BY <1>3, <2>4 DEF Enable
    <3>2. \A o \in Processors : proc[o] = "none"
      BY <2>1 DEF Live
    <3>3. Live' = {q} /\ wg' = 1
      BY <1>3, <2>1, <2>4, <3>1, <3>2 DEF Enable, Live, TypesInv
    <3>4. \A o \in Processors : proc'[o] # "last"
      BY <3>1, <3>2 DEF TypesInv
    <3>5. QED
      BY <2>1, <2>2, <2>4, <3>3, <3>4 DEF ControlInv
  <2>5. QED
    BY <2>3, <2>4
<1>4. ASSUME NEW c \in Controllers, Controls(c)
      PROVE  ControlInv'
  <2>1. UNCHANGED <<Live, wg, proc, receivers>>
    BY <1>4, LiveAfter DEF Controls, Disable, DisableWaited
  <2>2. CASE Disable(c)
    BY <2>1, <2>2 DEF Disable, ControlInv
  <2>3. CASE DisableWaited(c)
    <3>1. Live = {} /\ ~enabled
      BY <2>3 DEF DisableWaited, ControlInv
    <3>2. \A p \in Processors : proc[p] # "last"
      BY <3>1 DEF Live
    <3>3. QED
      BY <2>1, <2>3, <3>1, <3>2 DEF DisableWaited, ControlInv
  <2>4. QED
    BY <1>4, <2>2, <2>3 DEF Controls
<1>5. QED
  BY <1>1, <1>2, <1>3, <1>4, Steps

LEMMA HoldingKept == ASSUME TypesInv, HoldingInv, Next PROVE HoldingInv'
<1> USE AuditAssumption
<1>1. CASE UNCHANGED <<proc, batch, hand>>
  BY <1>1 DEF HoldingInv
<1>2. ASSUME NEW p \in Processors, Moves(p)
      PROVE  HoldingInv'
  <2> batch[p] \in Seq(Nat) /\ hand[p] \in Seq(Nat) /\ Len(<<>>) = 0
    BY DEF TypesInv
  <2>1. CASE Stop(p)
    BY <2>1 DEF Stop, TypesInv, HoldingInv
  <2>2. CASE Take(p)
    BY <2>2 DEF Take, TypesInv, HoldingInv
  <2>3. CASE LogToFile(p)
    <3>0. Len(hand[p]) = 1
      BY <2>3 DEF LogToFile, HoldingInv
    <3>1. Len(batch[p] \o hand[p]) = Len(batch[p]) + Len(hand[p]) /\ Len(batch[p]) \in Nat
      BY ConcatProperties, LenProperties
    <3>2. proc'[p] \in {"flush", "select"} /\ hand'[p] = <<>>
      BY <2>3 DEF LogToFile, TypesInv
    <3>3. CASE "http" \in receivers
      BY <2>3, <3>0, <3>1, <3>2, <3>3 DEF LogToFile, TypesInv, HoldingInv
    <3>4. CASE "http" \notin receivers
      BY <2>3, <3>2, <3>4 DEF LogToFile, TypesInv, HoldingInv
    <3>5. QED
      BY <3>3, <3>4
  <2>4. CASE Timer(p)
    BY <2>4 DEF Timer, TypesInv, HoldingInv
  <2>5. CASE FlushBatchHTTP(p)
    BY <2>5 DEF FlushBatchHTTP, TypesInv, HoldingInv
  <2>6. QED
    BY <1>2, <2>1, <2>2, <2>3, <2>4, <2>5 DEF Moves
<1>3. CASE Enable
  <2>1. CASE UNCHANGED proc
    BY <1>3, <2>1 DEF Enable, HoldingInv
  <2>2. CASE \E p \in Processors \ Live : proc' = [proc EXCEPT ![p] = "select"]
    <3>1. PICK p \in Processors : proc[p] = "none" /\ proc' = [proc EXCEPT ![p] = "select"]
      BY <2>2 DEF Live
    <3>2. batch[p] = <<>> /\ hand[p] = <<>> /\ Len(<<>>) = 0
      BY <3>1 DEF HoldingInv
    <3>3. QED
      BY <1>3, <3>1, <3>2 DEF Enable, HoldingInv, TypesInv
  <2>3. QED
    BY <1>3, <2>1, <2>2 DEF Enable
<1>4. QED
  BY <1>1, <1>2, <1>3, Steps
  DEF Logs, LogEvent, CheckEnabled, Send, Drop, Controls, Disable, DisableWaited

-----------------------------------------------------------------------------
(* The order of the events. *)

LEMMA OnlyMember == ASSUME NEW L, NEW p, L = {p} PROVE (CHOOSE q \in L : TRUE) = p
OBVIOUS

LEMMA InOrderExtended ==
    ASSUME NEW a \in Nat, NEW s \in Seq(Nat), s = [n \in 1..a |-> n]
    PROVE  Append(s, a + 1) = [n \in 1..(a + 1) |-> n]
<1> DEFINE t == [n \in 1..(a + 1) |-> n]
<1>1. Len(s) = a
  BY LenProperties
<1>2. t \in Seq(Nat) /\ Len(t) = a + 1 /\ \A n \in 1..(a + 1) : t[n] = n
  OBVIOUS
<1>3. /\ Append(s, a + 1) \in Seq(Nat) /\ Len(Append(s, a + 1)) = a + 1
      /\ \A n \in 1..a : Append(s, a + 1)[n] = n
      /\ Append(s, a + 1)[a + 1] = a + 1
  BY <1>1, AppendProperties
<1>4. \A n \in 1..(a + 1) : Append(s, a + 1)[n] = t[n]
  BY <1>2, <1>3
<1> HIDE DEF t
<1>5. Append(s, a + 1) = t
  BY <1>2, <1>3, <1>4, SeqEqual
<1>6. QED
  BY <1>5 DEF t

LEMMA ConcatAppend ==
    ASSUME NEW s \in Seq(Nat), NEW t \in Seq(Nat), NEW e \in Nat
    PROVE  s \o Append(t, e) = Append(s \o t, e)
<1>1. s \o t \in Seq(Nat) /\ <<e>> \in Seq(Nat)
  BY ConcatProperties
<1>2. Append(t, e) = t \o <<e>> /\ Append(s \o t, e) = (s \o t) \o <<e>>
  BY <1>1, AppendIsConcat
<1>3. (s \o t) \o <<e>> = s \o (t \o <<e>>)
  BY <1>1, ConcatAssociative
<1>4. QED
  BY <1>2, <1>3

LEMMA Regrouped ==
    ASSUME NEW s \in Seq(Nat), NEW t \in Seq(Nat), NEW u \in Seq(Nat)
    PROVE  (s \o t) \o u = s \o (t \o u)
BY ConcatAssociative

LEMMA HeadAndTail ==
    ASSUME NEW s \in Seq(Nat), s # <<>>
    PROVE  <<Head(s)>> \o Tail(s) = s
<1> DEFINE h == <<Head(s)>>
           u == Tail(s)
<1>1. /\ Head(s) = s[1] /\ Head(s) \in Nat /\ u \in Seq(Nat)
      /\ Len(s) \in Nat \ {0} /\ Len(u) = Len(s) - 1
      /\ \A i \in 1..Len(u) : u[i] = s[i + 1]
  BY HeadTailProperties, EmptySeq
<1>2. h \in Seq(Nat) /\ Len(h) = 1 /\ h[1] = s[1]
  BY <1>1
<1> HIDE DEF h, u
<1>3. /\ h \o u \in Seq(Nat) /\ Len(h \o u) = Len(h) + Len(u)
      /\ \A i \in 1..(Len(h) + Len(u)) : (h \o u)[i] =
            IF i <= Len(h) THEN h[i] ELSE u[i - Len(h)]
  BY <1>1, <1>2, ConcatProperties
<1>4. Len(h \o u) = Len(s)
  BY <1>1, <1>2, <1>3
<1>5. ASSUME NEW i \in 1..Len(s)
      PROVE  (h \o u)[i] = s[i]
  <2>1. CASE i = 1
    BY <1>1, <1>2, <1>3, <2>1
  <2>2. CASE i # 1
    <3>1. i - 1 \in 1..Len(u) /\ (i - 1) + 1 = i
      BY <1>1, <2>2
    <3>2. (h \o u)[i] = u[i - 1]
      BY <1>1, <1>2, <1>3, <2>2
    <3>3. u[i - 1] = s[i]
      BY <1>1, <3>1
    <3>4. QED
      BY <3>2, <3>3
  <2>3. QED
    BY <2>1, <2>2
<1>6. h \o u = s
  BY <1>3, <1>4, <1>5, SeqEqual
<1>7. QED
  BY <1>6 DEF h, u

(* All the events a receiver has been or will be given, in their order. *)
ToFile == (written \o Held(hand)) \o queue
ToRemote == ((posted \o Held(batch)) \o Held(hand)) \o queue

LEMMA TakenInTurn ==
    ASSUME NEW s \in Seq(Nat), NEW q \in Seq(Nat), q # <<>>
    PROVE  (s \o <<Head(q)>>) \o Tail(q) = (s \o <<>>) \o q
<1>1. <<Head(q)>> \in Seq(Nat) /\ Tail(q) \in Seq(Nat)
  BY HeadTailProperties
<1>2. (s \o <<Head(q)>>) \o Tail(q) = s \o (<<Head(q)>> \o Tail(q))
  BY <1>1, ConcatAssociative
<1>3. <<Head(q)>> \o Tail(q) = q
  BY HeadAndTail
<1>4. s \o <<>> = s
  BY ConcatEmptySeq
<1>5. QED
  BY <1>2, <1>3, <1>4

LEMMA HeldBy ==
    ASSUME NEW p \in Processors, Live = {p}
    PROVE  Held(hand) = hand[p] /\ Held(batch) = batch[p]
<1>1. (CHOOSE q \in Live : TRUE) = p /\ Live # {}
  BY OnlyMember
<1>2. QED
  BY <1>1 DEF Held

LEMMA MovesKeepOrder ==
    ASSUME TypesInv, ControlInv, HoldingInv, Next, NEW p \in Processors, Moves(p)
    PROVE  /\ "file" \in receivers => ToFile' = ToFile
           /\ "http" \in receivers => ToRemote' = ToRemote
           /\ UNCHANGED <<receivers, accepted>>
<1> DEFINE h == hand[p]
           b == batch[p]
           h2 == hand'[p]
           b2 == batch'[p]
<1>1. Held(hand) = h /\ Held(batch) = b
  BY LiveAfter, HeldBy
<1>2. Held(hand)' = h2 /\ Held(batch)' = b2
  <2>1. CASE Live' = {p}
    <3>1. (CHOOSE q \in Live' : TRUE) = p /\ Live' # {}
      BY <2>1, OnlyMember
    <3>2. QED
      BY <3>1 DEF Held
  <2>2. CASE Live' = {}
    <3>1. proc'[p] = "none"
      BY <2>2 DEF Live
    <3>2. h2 = <<>> /\ b2 = <<>>
      BY <3>1, HoldingKept DEF HoldingInv
    <3>3. QED
      BY <2>2, <3>2 DEF Held
  <2>3. QED
    BY <2>1, <2>2, LiveAfter
<1>3. /\ ToFile = (written \o h) \o queue /\ ToRemote = ((posted \o b) \o h) \o queue
      /\ ToFile' = (written' \o h2) \o queue'
      /\ ToRemote' = ((posted' \o b2) \o h2) \o queue'
  BY <1>1, <1>2 DEF ToFile, ToRemote
<1>4. UNCHANGED <<receivers, accepted>>
  BY DEF Moves, Stop, Take, LogToFile, Timer, FlushBatchHTTP
<1>5. /\ written \in Seq(Nat) /\ posted \in Seq(Nat) /\ queue \in Seq(Nat)
      /\ h \in Seq(Nat) /\ b \in Seq(Nat)
  BY DEF TypesInv
<1>6. posted \o b \in Seq(Nat) /\ (posted \o b) \o <<>> = posted \o b
  BY <1>5, ConcatProperties, ConcatEmptySeq
<1>7. CASE Stop(p) \/ Timer(p)
  <2>1. UNCHANGED <<written, posted, queue>> /\ h2 = h /\ b2 = b
    BY <1>7 DEF Stop, Timer
  <2>2. QED
    BY <1>3, <1>4, <2>1
<1>8. CASE Take(p)
  <2>1. /\ UNCHANGED <<written, posted>> /\ b2 = b /\ h = <<>>
        /\ queue # <<>> /\ h2 = <<Head(queue)>> /\ queue' = Tail(queue)
    BY <1>8 DEF Take, TypesInv, HoldingInv
  <2> HIDE DEF h, b, h2, b2
  <2>2. (written \o h2) \o queue' = (written \o h) \o queue
    BY <1>5, <2>1, TakenInTurn
  <2>3. ((posted \o b) \o h2) \o queue' = ((posted \o b) \o h) \o queue
    BY <1>5, <1>6, <2>1, TakenInTurn
  <2>4. QED
    BY <1>3, <1>4, <2>1, <2>2, <2>3
<1>9. CASE LogToFile(p)
  <2>1. UNCHANGED <<posted, queue>> /\ h2 = <<>>
    BY <1>9 DEF LogToFile, TypesInv
  <2>2. /\ "file" \in receivers => written' = written \o h
        /\ "http" \in receivers => b2 = b \o h
    BY <1>9 DEF LogToFile, TypesInv
  <2> HIDE DEF h, b, h2, b2
  <2>3. (written \o h) \o <<>> = written \o h
    <3>1. written \o h \in Seq(Nat)
      BY <1>5, ConcatProperties
    <3>2. QED
      BY <3>1, ConcatEmptySeq
  <2>4. (posted \o (b \o h)) \o <<>> = (posted \o b) \o h
    <3>1. b \o h \in Seq(Nat)
      BY <1>5, ConcatProperties
    <3>2. posted \o (b \o h) \in Seq(Nat)
      BY <1>5, <3>1, ConcatProperties
    <3>3. (posted \o (b \o h)) \o <<>> = posted \o (b \o h)
      BY <3>2, ConcatEmptySeq
    <3>4. (posted \o b) \o h = posted \o (b \o h)
      BY <1>5, Regrouped
    <3>5. QED
      BY <3>3, <3>4
  <2>5. QED
    BY <1>3, <1>4, <2>1, <2>2, <2>3, <2>4
<1>10. CASE FlushBatchHTTP(p)
  <2>1. /\ UNCHANGED <<written, queue>> /\ h2 = h /\ b2 = <<>>
        /\ posted' = posted \o b
    BY <1>10 DEF FlushBatchHTTP, TypesInv
  <2> HIDE DEF h, b, h2, b2
  <2>2. QED
    BY <1>3, <1>4, <1>6, <2>1
<1>11. QED
  BY <1>4, <1>7, <1>8, <1>9, <1>10 DEF Moves

LEMMA OrderKept ==
    ASSUME TypesInv, ControlInv, HoldingInv, EachTriedOnce, Next
    PROVE  EachTriedOnce'
<1>1. /\ "file" \in receivers => InOrder(ToFile)
      /\ "http" \in receivers => InOrder(ToRemote)
  BY DEF EachTriedOnce, ToFile, ToRemote
<1>2. SUFFICES /\ "file" \in receivers' => InOrder(ToFile)'
               /\ "http" \in receivers' => InOrder(ToRemote)'
  BY DEF EachTriedOnce, ToFile, ToRemote
<1>3. CASE UNCHANGED <<receivers, accepted, ToFile, ToRemote>>
  BY <1>1, <1>3 DEF InOrder
<1>4. ASSUME NEW l \in Loggers, Logs(l)
      PROVE  /\ "file" \in receivers' => InOrder(ToFile)'
             /\ "http" \in receivers' => InOrder(ToRemote)'
  <2>0. UNCHANGED <<receivers, written, posted, Live, hand, batch>>
    BY <1>4, LiveAfter DEF Logs, LogEvent, CheckEnabled, Send, Drop
  <2>1. UNCHANGED <<receivers, written, posted>> /\ UNCHANGED <<Held(hand), Held(batch)>>
    BY <2>0 DEF Held
  <2>2. CASE UNCHANGED <<queue, accepted>>
    BY <1>3, <2>1, <2>2 DEF ToFile, ToRemote
  <2>3. CASE Send(l)
    <3>1. queue' = Append(queue, accepted + 1) /\ accepted' = accepted + 1
      BY <2>3 DEF Send
    <3>2. /\ written \in Seq(Nat) /\ posted \in Seq(Nat) /\ queue \in Seq(Nat)
          /\ accepted \in Nat /\ accepted + 1 \in Nat
      BY DEF TypesInv
    <3>3. Held(hand) \in Seq(Nat) /\ Held(batch) \in Seq(Nat)
      BY DEF TypesInv, Held, Live
    <3>4. written \o Held(hand) \in Seq(Nat) /\ posted \o Held(batch) \in Seq(Nat)
      BY <3>2, <3>3, ConcatProperties
    <3>5. (posted \o Held(batch)) \o Held(hand) \in Seq(Nat)
      BY <3>3, <3>4, ConcatProperties
    <3>6. ToFile' = Append(ToFile, accepted + 1) /\ ToFile \in Seq(Nat)
      BY <2>1, <3>1, <3>2, <3>4, ConcatAppend, ConcatProperties DEF ToFile
    <3>7. ToRemote' = Append(ToRemote, accepted + 1) /\ ToRemote \in Seq(Nat)
      <4>1. ToRemote' = ((posted \o Held(batch)) \o Held(hand)) \o queue'
        BY <2>1 DEF ToRemote
      <4>2. QED
        BY <3>1, <3>2, <3>5, <4>1, ConcatAppend, ConcatProperties DEF ToRemote
    <3>8. QED
      BY <1>1, <2>1, <3>1, <3>2, <3>6, <3>7, InOrderExtended DEF InOrder
  <2>4. QED
    BY <1>4, <2>2, <2>3 DEF Logs, LogEvent, CheckEnabled, Drop
<1>5. ASSUME NEW p \in Processors, Moves(p)
      PROVE  /\ "file" \in receivers' => InOrder(ToFile)'
             /\ "http" \in receivers' => InOrder(ToRemote)'
  BY <1>1, <1>5, MovesKeepOrder DEF InOrder
<1>6. CASE Enable
  <2>1. Live = {} /\ Held(hand) = <<>> /\ Held(batch) = <<>>
    BY <1>6 DEF Enable, ControlInv, Held
  <2>2. UNCHANGED <<receivers, accepted, written, posted, queue, hand, batch>>
    BY <1>6 DEF Enable
  <2>3. Held(hand)' = <<>> /\ Held(batch)' = <<>>
    <3>1. \A q \in Processors : hand[q] = <<>> /\ batch[q] = <<>>
      BY <2>1 DEF Live, HoldingInv
    <3>2. Live' \subseteq Processors
      BY DEF Live
    <3>3. QED
      BY <2>2, <3>1, <3>2 DEF Held
  <2>4. QED
    BY <1>3, <2>1, <2>2, <2>3 DEF ToFile, ToRemote
<1>7. ASSUME NEW c \in Controllers, Controls(c)
      PROVE  UNCHANGED <<receivers, accepted, ToFile, ToRemote>>
  <2>1. UNCHANGED <<receivers, accepted, Live, hand, batch, written, posted, queue>>
    BY <1>7, LiveAfter DEF Controls, Disable, DisableWaited
  <2>2. Held(hand)' = Held(hand) /\ Held(batch)' = Held(batch)
    BY <2>1 DEF Held
  <2>3. QED
    BY <2>1, <2>2 DEF ToFile, ToRemote
<1>8. QED
  BY <1>3, <1>4, <1>5, <1>6, <1>7, Steps

-----------------------------------------------------------------------------
LEMMA InitHolds == ASSUME Init PROVE IInv
<1> USE AuditAssumption
<1>1. TypesInv
  <2>1. proc \in [Processors -> Place]
    BY DEF Init, Place
  <2>2. <<>> \in Seq(Nat) /\ Len(<<>>) = 0
    BY EmptySeq
  <2>3. batch \in [Processors -> Seq(Nat)] /\ hand \in [Processors -> Seq(Nat)]
    BY <2>2 DEF Init
  <2>4. queue \in Seq(Nat) /\ Len(queue) <= QueueSize
    BY <2>2 DEF Init
  <2>5. /\ receivers \subseteq {"file", "http"} /\ enabled \in BOOLEAN
        /\ logger \in [Loggers -> {"idle", "check", "send"}]
    BY DEF Init
  <2>6. QED
    BY <2>1, <2>2, <2>3, <2>4, <2>5 DEF Init, TypesInv
<1>2. HoldingInv
  BY DEF Init, HoldingInv
<1>3. ControlInv
  <2>1. PICK first \in Processors :
           proc = [p \in Processors |-> IF enabled /\ p = first THEN "select" ELSE "none"]
    BY DEF Init
  <2>2. Live = IF enabled THEN {first} ELSE {}
    BY <2>1 DEF Live
  <2>3. \A p \in Processors : proc[p] # "last"
    BY <2>1
  <2>4. QED
    BY <2>2, <2>3 DEF Init, ControlInv
<1>4. EachTriedOnce
  <2>1. Held(hand) = <<>> /\ Held(batch) = <<>>
    BY DEF Init, Held, Live
  <2>2. <<>> \o <<>> = <<>>
    BY EmptySeq, ConcatEmptySeq
  <2>3. [n \in 1..0 |-> n] = <<>>
    OBVIOUS
  <2>4. QED
    BY <2>1, <2>2, <2>3 DEF Init, EachTriedOnce, InOrder
<1>5. QED
  BY <1>1, <1>2, <1>3, <1>4 DEF IInv

LEMMA StepKeeps == ASSUME IInv, [Next]_vars PROVE IInv'
<1>1. CASE Next
  BY <1>1, TypesKept, ControlKept, HoldingKept, OrderKept DEF IInv
<1>2. CASE UNCHANGED vars
  BY <1>2 DEF vars, control, IInv, TypesInv, ControlInv, HoldingInv, EachTriedOnce, InOrder, Held,
              Live
<1>3. QED
  BY <1>1, <1>2

(* The invariant from which the others follow holds in every behaviour. *)
THEOREM Invariant == Spec => []IInv
<1>1. Init => IInv
  BY InitHolds
<1>2. IInv /\ [Next]_vars => IInv'
  BY StepKeeps
<1>3. QED
  BY <1>1, <1>2, PTL DEF Spec

(* The queue never holds more than its capacity nor a batch more than its limit, for whatever
   numbers of goroutines and whatever sizes. *)
THEOREM TypeCorrect == Spec => []TypeOK
<1>1. IInv => TypeOK
  BY DEF IInv, TypesInv, ControlInv, HoldingInv, TypeOK
<1>2. QED
  BY <1>1, Invariant, PTL

(* However many goroutines call Enable and Disable, there is at most one processor; between the
   calls it runs exactly when the adapter is enabled and has a receiver. *)
THEOREM OneProcessorOnly == Spec => []OneProcessor
<1>1. ASSUME IInv PROVE OneProcessor
  <2>1. Cardinality(Live) <= 1
    <3>1. CASE Live = {}
      BY <3>1, FS_EmptySet
    <3>2. CASE Live # {}
      <4>1. PICK p \in Live : Live = {p}
        BY <1>1, <3>2 DEF IInv, ControlInv
      <4>2. QED
        BY <4>1, FS_Singleton
    <3>3. QED
      BY <3>1, <3>2
  <2>2. QED
    BY <1>1, <2>1 DEF IInv, ControlInv, OneProcessor
<1>2. QED
  BY <1>1, Invariant, PTL

(* Every accepted event goes to each receiver at most once and in the order of acceptance, and none
   that a processor took is forgotten, whatever the sizes of the queue and of a batch. *)
THEOREM TriedOnceInOrder == Spec => []EachTriedOnce
<1>1. IInv => EachTriedOnce
  BY DEF IInv
<1>2. QED
  BY <1>1, Invariant, PTL

=============================================================================

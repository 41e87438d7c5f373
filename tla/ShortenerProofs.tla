--------------------------- MODULE ShortenerProofs --------------------------
(***************************************************************************)
(* What holds of Shortener for all values of its constants: its state is   *)
(* well typed, a code that was answered stands for its URL, a link that a  *)
(* client knows to be gone is not followed, an accepted delete is done or  *)
(* still to come, and nobody but its owner switches a link off.            *)
(*                                                                         *)
(* The inductive invariant adds what makes the requests independent: a     *)
(* code has a record in one store only, the codes drawn and not yet saved  *)
(* are all different and in no store, the codes of a delete that is half   *)
(* done are off in memory, and a code known to be gone is off wherever a   *)
(* restart cannot change it.  A step of one client then is no more to the  *)
(* others than links added and switched off (StoresStep), and each action  *)
(* has to be looked at for the client that takes it alone.                 *)
(***************************************************************************)
EXTENDS Shortener, FiniteSetTheorems, SequenceTheorems, TLAPS

(* The code is used up: a record of it is, or may be after a restart, in one of the stores. *)
Taken(k) == rows[k] # NoLink \/ memory[k] # NoLink \/ k \in unsure
StandsFor(k, u) ==
    /\ Taken(k)
    /\ rows[k] # NoLink => rows[k].url = u
    /\ memory[k] # NoLink => memory[k].url = u
Off(k) == /\ rows[k] # NoLink => ~rows[k].active
          /\ memory[k] # NoLink => ~memory[k].active

Answers == UNION {[S -> URLs] : S \in SUBSET Codes}
Request == [op : Op, at : Place, user : Users \cup {NoLink}, urls : Seq(URLs), codes : Seq(Codes),
            gone : BOOLEAN, answer : Answers]

TypesInv ==
    /\ rows \in [Codes -> Link \cup {NoLink}] /\ memory \in [Codes -> Link \cup {NoLink}]
    /\ unsure \subseteq Codes /\ gone \subseteq Codes /\ promised \subseteq Codes
    /\ request \in [Clients -> Request]
    /\ \A t \in tasks : t.user \in Users /\ t.codes \subseteq Codes

(* The code has been drawn and no record of it been saved yet. *)
Awaits(c) == request[c].op = "shorten" /\ request[c].at \in {"database", "file", "lookup"}

(* What is known of a request, by its operation, and of the answer to one. *)
Named(c) == ToSet(request[c].codes)
ShortenInv(c) ==
    LET u == request[c].urls[1] k == request[c].codes[1]
    IN  request[c].op = "shorten" =>
          /\ request[c].user \in Users
          /\ request[c].urls # <<>> /\ request[c].codes # <<>> /\ Named(c) = {k}
          /\ Awaits(c) => ~Taken(k)
          /\ request[c].at = "lookup" => HasURL(rows, u)
          /\ request[c].at = "audit" => StandsFor(k, u)
BatchInv(c) ==
    request[c].op = "batch" => request[c].user \in Users /\ \A k \in Named(c) : memory[k] # NoLink
FollowInv(c) ==
    LET k == request[c].codes[1]
    IN  request[c].op = "follow" =>
          /\ request[c].codes # <<>>
          /\ request[c].at = "check" => memory[k] # NoLink
          /\ request[c].gone => /\ rows[k] # NoLink \/ memory[k] # NoLink
                                /\ Off(k) /\ request[c].at # "audit"
DeleteInv(c) ==
    request[c].at = "write" =>
        request[c].op = "delete" /\ \A k \in Named(c) : memory[k] # NoLink /\ ~memory[k].active
AnswerInv(c) == \A k \in DOMAIN request[c].answer : StandsFor(k, request[c].answer[k])
RequestInv(c) ==
    /\ Idle(c) => request[c].op = "none"
    /\ ShortenInv(c) /\ BatchInv(c) /\ FollowInv(c) /\ DeleteInv(c) /\ AnswerInv(c)

(* No two requests have drawn the same code, and no code has a record in both stores. *)
Distinct ==
    \A c, d \in Clients : Awaits(c) /\ Awaits(d) /\ c # d =>
        Named(c) \cap Named(d) = {}
InOneStore == \A k \in Codes : rows[k] = NoLink \/ memory[k] = NoLink

GoneInv ==
    /\ \A k \in gone : Taken(k)
    /\ \A k \in gone \ Doubtful : Off(k)
PromiseInv ==
    \A k \in promised : /\ rows[k] # NoLink /\ rows[k].active
                        /\ \E t \in tasks : t.user = rows[k].user /\ k \in t.codes

IInv ==
    /\ TypesInv /\ InOneStore /\ Distinct /\ (\A c \in Clients : RequestInv(c))
    /\ GoneInv /\ PromiseInv

-----------------------------------------------------------------------------
(* What the next state keeps of links, whichever client or update makes the step: a link does not
   change, is not switched on and appears in no other store, and a code stays taken. *)
LinkKept(old, new) == old # NoLink => /\ new # NoLink /\ new.url = old.url /\ new.user = old.user
                                      /\ new.active => old.active
Kept ==
    \A k \in Codes :
        /\ LinkKept(rows[k], rows'[k]) /\ LinkKept(memory[k], memory'[k])
        /\ Taken(k) => /\ rows[k] = NoLink => rows'[k] = NoLink
                       /\ memory[k] = NoLink => memory'[k] = NoLink
                       /\ Taken(k)'

(* Codes that become taken are not those another client has drawn. *)
NewCodes(c) ==
    \A k \in Codes : ~Taken(k) /\ Taken(k)' =>
        \A d \in Clients : d # c /\ Awaits(d) => k \notin Named(d)
StoresTyped ==
    /\ rows \in [Codes -> Link \cup {NoLink}] /\ memory \in [Codes -> Link \cup {NoLink}]
    /\ unsure \subseteq Codes
StoresStep(c) == StoresTyped' /\ Kept /\ NewCodes(c) /\ InOneStore'

OthersRest(c) == \A d \in Clients : d # c => request'[d] = request[d]

(* No link is NoLink, and a link has its fields. *)
LEMMA LinksHaveFields ==
    ASSUME NEW l \in Link
    PROVE  l # NoLink /\ l.user \in Users /\ l.url \in URLs /\ l.active \in BOOLEAN
BY ShortenerAssumption DEF Link

(* Such a step leaves a code standing for its URL ... *)
LEMMA KeptStands ==
    ASSUME Kept, NEW k \in Codes, NEW u, StandsFor(k, u)
    PROVE  StandsFor(k, u)'
BY DEF Kept, LinkKept, StandsFor, Taken

(* ... and off, if a record of it was there to be off. *)
LEMMA KeptOff ==
    ASSUME StoresTyped, StoresTyped', Kept, NEW k \in Codes, Taken(k), Off(k)
    PROVE  Off(k)'
<1>1. LinkKept(rows[k], rows'[k]) /\ LinkKept(memory[k], memory'[k])
  BY DEF Kept
<1>2. /\ rows[k] = NoLink => rows'[k] = NoLink
      /\ memory[k] = NoLink => memory'[k] = NoLink
  BY DEF Kept
<1>3. QED
  BY <1>1, <1>2 DEF Off, LinkKept

(* The fields of a request, and what a list that is not empty begins with. *)
LEMMA CodesOf ==
    ASSUME TypesInv, NEW c \in Clients
    PROVE  /\ request[c] \in Request
           /\ request[c].codes \in Seq(Codes) /\ request[c].urls \in Seq(URLs)
           /\ ToSet(request[c].codes) \subseteq Codes /\ ToSet(request[c].urls) \subseteq URLs
           /\ request[c].codes # <<>> =>
                  /\ request[c].codes[1] \in Codes
                  /\ request[c].codes[1] \in ToSet(request[c].codes)
           /\ request[c].urls # <<>> =>
                  /\ request[c].urls[1] \in URLs
                  /\ request[c].urls[1] \in ToSet(request[c].urls)
           /\ DOMAIN request[c].answer \subseteq Codes
           /\ \A k \in DOMAIN request[c].answer : request[c].answer[k] \in URLs
<1>1. request[c] \in Request
  BY DEF TypesInv
<1>2. request[c].codes \in Seq(Codes) /\ request[c].urls \in Seq(URLs)
      /\ request[c].answer \in Answers
  BY <1>1 DEF Request
<1>3. /\ DOMAIN request[c].answer \subseteq Codes
      /\ \A k \in DOMAIN request[c].answer : request[c].answer[k] \in URLs
  BY <1>2 DEF Answers
<1>4. QED
  BY <1>1, <1>2, <1>3 DEF ToSet

(* A request that rests keeps its invariant, whatever else happens. *)
LEMMA RestingIsKept ==
    ASSUME IInv, NEW c, NEW d \in Clients, d # c, StoresStep(c), request'[d] = request[d]
    PROVE  RequestInv(d)'
<1>1. RequestInv(d) /\ TypesInv
  BY DEF IInv
<1>2. /\ Named(d) \subseteq Codes /\ DOMAIN request[d].answer \subseteq Codes
      /\ request[d].codes # <<>> => request[d].codes[1] \in Codes
  BY <1>1, CodesOf DEF Named
<1>3. \A k \in Codes : LinkKept(rows[k], rows'[k]) /\ LinkKept(memory[k], memory'[k])
  BY DEF StoresStep, Kept
<1>4. \A k \in Codes : Off(k) /\ (rows[k] # NoLink \/ memory[k] # NoLink) => Off(k)'
  BY <1>1, KeptOff DEF StoresStep, TypesInv, StoresTyped, Taken
<1>5. \A k \in Codes : \A u : StandsFor(k, u) => StandsFor(k, u)'
  BY KeptStands DEF StoresStep
<1>6. Named(d)' = Named(d) /\ (Awaits(d)' <=> Awaits(d)) /\ (Idle(d)' <=> Idle(d))
  BY DEF Awaits, Idle, Named
<1>7. ShortenInv(d)'
  <2>1. Awaits(d) /\ request[d].op = "shorten" => ~Taken(request[d].codes[1])'
    BY <1>1, <1>2 DEF StoresStep, NewCodes, RequestInv, ShortenInv
  <2>2. HasURL(rows, request[d].urls[1]) => HasURL(rows', request[d].urls[1])
    BY <1>3 DEF LinkKept, HasURL
  <2>3. ShortenInv(d)
    BY <1>1 DEF RequestInv
  <2>4. QED
    BY <1>2, <1>5, <1>6, <2>1, <2>2, <2>3 DEF ShortenInv
<1>8. BatchInv(d)'
  BY <1>1, <1>2, <1>3, <1>6 DEF LinkKept, RequestInv, BatchInv
<1>9. FollowInv(d)'
  BY <1>1, <1>2, <1>3, <1>4 DEF LinkKept, RequestInv, FollowInv
<1>10. DeleteInv(d)'
  BY <1>1, <1>2, <1>3, <1>6 DEF LinkKept, RequestInv, DeleteInv
<1>11. AnswerInv(d)'
  BY <1>1, <1>2, <1>5 DEF RequestInv, AnswerInv
<1>12. QED
  BY <1>1, <1>6, <1>7, <1>8, <1>9, <1>10, <1>11 DEF RequestInv

(* What is told of deleted links stays true, and so do the promises, if the step does the rest. *)
LEMMA GoneIsKept ==
    ASSUME IInv, StoresTyped', Kept, NEW G \in SUBSET Codes, gone' = gone \cup G,
           \A k \in G : Taken(k)' /\ Off(k)',
           \A k \in Doubtful : k \in Doubtful' \/ Off(k)'
    PROVE  GoneInv'
<1>1. /\ gone \subseteq Codes /\ \A k \in gone : Taken(k)
      /\ \A k \in gone \ Doubtful : Off(k)
      /\ StoresTyped
  BY DEF IInv, GoneInv, TypesInv, StoresTyped
<1>2. \A k \in gone : Taken(k)'
  BY <1>1 DEF Kept
<1>3. \A k \in gone \ Doubtful : Off(k)'
  BY <1>1, KeptOff
<1>4. QED
  BY <1>1, <1>2, <1>3 DEF GoneInv

(* A step that changes no row and ends no update keeps every promise. *)
LEMMA PromisesAreKept ==
    ASSUME IInv, \A k \in Codes : rows[k] # NoLink => rows'[k] = rows[k],
           tasks' = tasks, promised' = promised
    PROVE  PromiseInv'
BY DEF IInv, TypesInv, PromiseInv

(* Codes are doubtful that are unsure or named by a request at "write". *)
LEMMA DoubtfulIs ==
    \A k : k \in Doubtful <=>
        k \in unsure \/ \E d \in Clients : request[d].at = "write" /\ k \in Named(d)
BY DEF Doubtful, Named

(* The same of the next state. *)
LEMMA NextDoubtfulIs ==
    \A k : k \in Doubtful' <=>
        k \in unsure' \/ \E d \in Clients : request'[d].at = "write" /\ k \in Named(d)'
BY DEF Doubtful, Named

(* A step of a client that writes no delete and makes no code sure leaves every doubtful code so. *)
LEMMA DoubtfulIsKept ==
    ASSUME NEW c \in Clients, OthersRest(c), request[c].at # "write", unsure \subseteq unsure'
    PROVE  Doubtful \subseteq Doubtful'
<1>1. ASSUME NEW k \in Doubtful PROVE k \in Doubtful'
  <2>1. CASE k \in unsure
    BY <2>1, NextDoubtfulIs
  <2>2. CASE \E d \in Clients : request[d].at = "write" /\ k \in Named(d)
    <3>1. PICK d \in Clients : request[d].at = "write" /\ k \in Named(d)
      BY <2>2
    <3>2. request'[d] = request[d] /\ Named(d)' = Named(d)
      BY <3>1 DEF OthersRest, Named
    <3>3. QED
      BY <3>1, <3>2, NextDoubtfulIs
  <2>3. QED
    BY <2>1, <2>2, DoubtfulIs
<1>2. QED
  BY <1>1

-----------------------------------------------------------------------------
(* A step of a client is what becomes of its request, and of the stores. *)

Undisturbed ==
    /\ tasks' = tasks /\ promised' = promised
    /\ \A k \in Codes : rows[k] # NoLink => rows'[k] = rows[k]

(* Of a step that changes one request and adds to the stores, only that request is looked at. *)
LEMMA ClientStepKeepsIInv ==
    ASSUME IInv, NEW c \in Clients, request' \in [Clients -> Request], OthersRest(c),
           StoresStep(c), Undisturbed, gone' \subseteq Codes, GoneInv',
           RequestInv(c)',
           Awaits(c)' => \/ Awaits(c) /\ Named(c)' = Named(c)
                         \/ \A d \in Clients : d # c /\ Awaits(d) => Named(c)' \cap Named(d) = {}
    PROVE  IInv'
<1>1. TypesInv'
  BY DEF IInv, TypesInv, StoresStep, StoresTyped, Undisturbed
<1>2. \A d \in Clients : RequestInv(d)'
  BY RestingIsKept DEF OthersRest
<1>3. PromiseInv'
  BY PromisesAreKept DEF Undisturbed
<1>4. Distinct'
  <2>1. \A d \in Clients : d # c => Named(d)' = Named(d) /\ (Awaits(d)' <=> Awaits(d))
    BY DEF OthersRest, Named, Awaits
  <2>2. \A d, e \in Clients : Awaits(d) /\ Awaits(e) /\ d # e => Named(d) \cap Named(e) = {}
    BY DEF IInv, Distinct
  <2>3. \A d \in Clients : d # c /\ Awaits(d)' /\ Awaits(c)' => Named(c)' \cap Named(d)' = {}
    BY <2>1, <2>2
  <2>4. QED
    BY <2>1, <2>2, <2>3 DEF Distinct
<1>5. InOneStore'
  BY DEF StoresStep
<1>6. QED
  BY <1>1, <1>2, <1>3, <1>4, <1>5 DEF IInv

(* The request ends, with an answer of which the stores know. *)
Ended(at, answer) == [op |-> "none", at |-> at, user |-> NoLink, urls |-> <<>>, codes |-> <<>>,
                      gone |-> FALSE, answer |-> answer]
EndsAs(c, at, answer) == request' = [request EXCEPT ![c] = Ended(at, answer)]

(* An answer may tell nothing. *)
LEMMA EmptyAnswer == <<>> \in Answers /\ DOMAIN <<>> = {}
<1>1. DOMAIN <<>> = {} /\ <<>> \in [{} -> URLs]
  OBVIOUS
<1>2. {} \in SUBSET Codes
  OBVIOUS
<1>3. QED
  BY <1>1, <1>2 DEF Answers

(* An answer tells some codes with URLs. *)
LEMMA AnswerIsTyped ==
    ASSUME NEW S \in SUBSET Codes, NEW f \in [S -> URLs] PROVE f \in Answers /\ DOMAIN f = S
BY DEF Answers

(* What NoRequest becomes when its place or its answer is set. *)
LEMMA EndedChanges ==
    /\ \A at, answer, x : [Ended(at, answer) EXCEPT !.at = x] = Ended(x, answer)
    /\ \A at, answer, x : [Ended(at, answer) EXCEPT !.answer = x] = Ended(at, x)
<1>1. PICK empty, false : empty = <<>> /\ false = FALSE
  OBVIOUS
<1> DEFINE Like(at, answer) ==
        [op |-> "none", at |-> at, user |-> NoLink, urls |-> empty, codes |-> empty,
         gone |-> false, answer |-> answer]
<1>2. ASSUME NEW at, NEW answer PROVE Ended(at, answer) = Like(at, answer)
  BY <1>1 DEF Ended
<1>3. ASSUME NEW at, NEW answer, NEW x PROVE [Like(at, answer) EXCEPT !.at = x] = Like(x, answer)
  OBVIOUS
<1>4. ASSUME NEW at, NEW answer, NEW x PROVE [Like(at, answer) EXCEPT !.answer = x] = Like(at, x)
  OBVIOUS
<1> HIDE DEF Like
<1>5. QED
  BY <1>2, <1>3, <1>4

(* Each way to answer ends the request. *)
LEMMA ReplyEnds ==
    ASSUME NEW c
    PROVE  /\ End(c) => EndsAs(c, "idle", <<>>)
           /\ Blank(c) => EndsAs(c, "blank", <<>>) /\ UNCHANGED known
           /\ \A answer : Tell(c, answer) => EndsAs(c, "told", answer) /\ UNCHANGED known
<1>1. NoRequest = Ended("idle", <<>>)
  BY DEF NoRequest, Ended
<1>2. \A at : [Ended("idle", <<>>) EXCEPT !.at = at] = Ended(at, <<>>)
  BY EndedChanges
<1>3. \A answer : [Ended("told", <<>>) EXCEPT !.answer = answer] = Ended("told", answer)
  BY EndedChanges
<1>4. \A answer : [NoRequest EXCEPT !.at = "told", !.answer = answer]
                     = [[NoRequest EXCEPT !.at = "told"] EXCEPT !.answer = answer]
  OBVIOUS
<1>5. \A answer : [NoRequest EXCEPT !.at = "told", !.answer = answer] = Ended("told", answer)
  BY <1>1, <1>2, <1>3, <1>4
<1>6. [NoRequest EXCEPT !.at = "blank"] = Ended("blank", <<>>)
  BY <1>1, <1>2
<1>7. QED
  BY <1>1, <1>5, <1>6 DEF End, Blank, Tell, EndsAs

(* A request may end whenever the stores know what it was answered. *)
LEMMA EndKeepsIInv ==
    ASSUME IInv, NEW c \in Clients, NEW at \in {"idle", "blank", "told"}, NEW answer \in Answers,
           EndsAs(c, at, answer), StoresStep(c), Undisturbed, gone' \subseteq Codes, GoneInv',
           \A k \in DOMAIN answer : StandsFor(k, answer[k])'
    PROVE  IInv'
<1> DEFINE r == Ended(at, answer)
<1>1. /\ r \in Request
      /\ r.op = "none" /\ r.at = at /\ r.answer = answer
  BY DEF Ended, Request, Op, Place
<1>2. request' \in [Clients -> Request] /\ request'[c] = r /\ OthersRest(c)
  BY <1>1 DEF EndsAs, OthersRest, IInv, TypesInv
<1> HIDE DEF r
<1>3. ~Awaits(c)'
  BY <1>1, <1>2 DEF Awaits
<1>4. RequestInv(c)'
  BY <1>1, <1>2
  DEF RequestInv, ShortenInv, BatchInv, FollowInv, DeleteInv, AnswerInv
<1>5. QED
  BY <1>2, <1>3, <1>4, ClientStepKeepsIInv

(* The request goes on, and keeps what it is about. *)
LEMMA GotoIs ==
    ASSUME IInv, NEW c \in Clients, NEW at \in Place, Goto(c, at)
    PROVE  /\ request' \in [Clients -> Request] /\ OthersRest(c)
           /\ request'[c].at = at /\ request'[c].op = request[c].op
           /\ request'[c].urls = request[c].urls /\ request'[c].codes = request[c].codes
           /\ request'[c].user = request[c].user
           /\ request'[c].gone = request[c].gone /\ request'[c].answer = request[c].answer
<1>1. request \in [Clients -> Request] /\ request[c] \in Request
  BY DEF IInv, TypesInv
<1>2. request'[c] = [request[c] EXCEPT !.at = at] /\ OthersRest(c)
  BY <1>1 DEF Goto, OthersRest
<1>3. [request[c] EXCEPT !.at = at] \in Request
  BY <1>1 DEF Request
<1>4. request' \in [Clients -> Request]
  BY <1>1, <1>3 DEF Goto
<1>5. QED
  BY <1>1, <1>2, <1>4 DEF Request

(* A request may go on, if the place it goes to is right for its operation. *)
LEMMA GotoKeepsIInv ==
    ASSUME IInv, NEW c \in Clients, NEW at \in Place, Goto(c, at),
           request[c].op # "none", at \notin {"idle", "blank", "told", "write"},
           StoresStep(c), Undisturbed, gone' \subseteq Codes, GoneInv',
           ShortenInv(c)', FollowInv(c)',
           request[c].op = "shorten" /\ at # "audit" => Awaits(c)
    PROVE  IInv'
<1>1. /\ request' \in [Clients -> Request] /\ OthersRest(c)
      /\ request'[c].at = at /\ request'[c].op = request[c].op
      /\ request'[c].codes = request[c].codes /\ request'[c].answer = request[c].answer
      /\ request'[c].user = request[c].user
  BY GotoIs
<1>2. Named(c)' = Named(c) /\ Named(c) \subseteq Codes /\ DOMAIN request[c].answer \subseteq Codes
  BY <1>1, CodesOf DEF Named, IInv
<1>3. RequestInv(c)
  BY DEF IInv
<1>4. BatchInv(c)'
  BY <1>1, <1>2, <1>3 DEF BatchInv, RequestInv, StoresStep, Kept, LinkKept
<1>5. AnswerInv(c)'
  BY <1>1, <1>2, <1>3, KeptStands DEF AnswerInv, RequestInv, StoresStep
<1>6. DeleteInv(c)' /\ ~Idle(c)'
  BY <1>1 DEF DeleteInv, Idle
<1>7. RequestInv(c)'
  BY <1>4, <1>5, <1>6 DEF RequestInv
<1>8. Awaits(c)' => Awaits(c)
  BY <1>1 DEF Awaits
<1>9. QED
  BY <1>1, <1>2, <1>7, <1>8, ClientStepKeepsIInv

-----------------------------------------------------------------------------
(* What the calls do to the stores. *)

(* Stores that rest make no difference to anybody. *)
LEMMA NothingStored ==
    ASSUME IInv, NEW c, UNCHANGED stores
    PROVE  StoresStep(c) /\ \A k \in Codes : rows'[k] = rows[k]
<1>1. \A k : (Taken(k)' <=> Taken(k))
  BY DEF stores, Taken
<1>2. \A k \in Codes : LinkKept(rows[k], rows'[k]) /\ LinkKept(memory[k], memory'[k])
  BY DEF stores, LinkKept
<1>3. Kept
  BY <1>1, <1>2 DEF Kept, stores
<1>4. NewCodes(c)
  BY <1>1 DEF NewCodes
<1>5. QED
  BY <1>3, <1>4 DEF StoresStep, StoresTyped, IInv, TypesInv, InOneStore, stores

(* Nor do rows for codes that nobody has drawn. *)
LEMMA RowsAdded ==
    ASSUME IInv, NEW c, NEW S \in SUBSET Codes,
           \A k \in S : ~Taken(k),
           \A k \in S, d \in Clients : d # c /\ Awaits(d) => k \notin Named(d),
           rows' \in [Codes -> Link \cup {NoLink}], \A k \in Codes \ S : rows'[k] = rows[k],
           UNCHANGED <<memory, unsure>>
    PROVE  StoresStep(c) /\ \A k \in Codes : rows[k] # NoLink => rows'[k] = rows[k]
<1>1. \A k \in Codes : /\ rows[k] # NoLink => rows'[k] = rows[k]
                       /\ Taken(k) => Taken(k)' /\ rows'[k] = rows[k]
  BY DEF Taken
<1>2. Kept
  BY <1>1 DEF Kept, LinkKept
<1>3. NewCodes(c)
  BY DEF NewCodes, Taken
<1>4. InOneStore'
  BY DEF IInv, InOneStore, Taken
<1>5. QED
  BY <1>1, <1>2, <1>3, <1>4 DEF StoresStep, StoresTyped, IInv, TypesInv

(* Nor does a record for such a code, whether or not its line reaches the file. *)
LEMMA RecordAdded ==
    ASSUME IInv, NEW c, NEW k \in Codes, ~Taken(k),
           \A d \in Clients : d # c /\ Awaits(d) => k \notin Named(d),
           NEW l \in Link, NEW lost \in SUBSET {k},
           AppendRecords([memory EXCEPT ![k] = l], {k}, lost)
    PROVE  /\ StoresStep(c) /\ rows' = rows /\ unsure \subseteq unsure'
           /\ memory'[k] = l /\ StandsFor(k, l.url)'
<1>1. /\ rows' = rows /\ unsure' = unsure \cup lost
      /\ memory' \in [Codes -> Link \cup {NoLink}] /\ memory'[k] = l
      /\ \A m \in Codes \ {k} : memory'[m] = memory[m]
  BY DEF AppendRecords, Taken, IInv, TypesInv
<1>2. l # NoLink /\ rows[k] = NoLink /\ memory[k] = NoLink
  BY LinksHaveFields DEF Taken
<1>3. \A m \in Codes : Taken(m) => Taken(m)' /\ m # k
  BY <1>1 DEF Taken
<1>4. Kept
  <2>1. \A m \in Codes : LinkKept(rows[m], rows'[m]) /\ LinkKept(memory[m], memory'[m])
    BY <1>1, <1>2 DEF LinkKept
  <2>2. \A m \in Codes : Taken(m) => rows'[m] = rows[m] /\ memory'[m] = memory[m]
    BY <1>1, <1>3
  <2>3. QED
    BY <1>3, <2>1, <2>2 DEF Kept
<1>5. NewCodes(c)
  BY <1>1 DEF NewCodes, Taken
<1>6. InOneStore'
  BY <1>1, <1>2 DEF IInv, InOneStore
<1>7. QED
  BY <1>1, <1>2, <1>4, <1>5, <1>6 DEF StoresStep, StoresTyped, IInv, TypesInv, StandsFor, Taken

(* One write of a record is one line, whatever comes of it. *)
LEMMA OneLine ==
    ASSUME NEW new, NEW k, Written(new, {k}) \/ WriteFails(new, {k})
    PROVE  \E lost \in SUBSET {k} : AppendRecords(new, {k}, lost)
BY DEF Written, WriteFails

(* A fresh code is not taken and nobody awaits it. *)
LEMMA FreshIs ==
    ASSUME NEW k, Fresh(k)
    PROVE  ~Taken(k) /\ \A d \in Clients : Awaits(d) => k \notin Named(d)
BY DEF Fresh, Taken, Awaits, Named

(* What a client has drawn is its own. *)
LEMMA AwaitedIs ==
    ASSUME IInv, NEW c \in Clients, Awaits(c)
    PROVE  /\ request[c].op = "shorten" /\ request[c].urls[1] \in URLs
           /\ request[c].codes[1] \in Codes /\ Named(c) = {request[c].codes[1]}
           /\ ~Taken(request[c].codes[1])
           /\ \A d \in Clients : d # c /\ Awaits(d) => request[c].codes[1] \notin Named(d)
           /\ NewLink(c, request[c].urls[1]) \in Link
           /\ NewLink(c, request[c].urls[1]).url = request[c].urls[1]
<1>1. RequestInv(c) /\ Distinct /\ TypesInv
  BY DEF IInv
<1>2. request[c].op = "shorten" /\ ShortenInv(c)
  BY <1>1 DEF Awaits, RequestInv
<1>3. /\ request[c].urls # <<>> /\ request[c].codes # <<>> /\ Named(c) = {request[c].codes[1]}
      /\ ~Taken(request[c].codes[1]) /\ request[c].user \in Users
  BY <1>2 DEF ShortenInv
<1>4. request[c].urls[1] \in URLs /\ request[c].codes[1] \in Codes
  BY <1>1, <1>3, CodesOf
<1>5. QED
  BY <1>1, <1>2, <1>3, <1>4 DEF Distinct, NewLink, Link

(* A step that ends no delete leaves every doubtful code so. *)
LEMMA GoneRests ==
    ASSUME IInv, NEW c \in Clients, OthersRest(c), request[c].at # "write",
           StoresStep(c), unsure \subseteq unsure', gone' = gone
    PROVE  gone' \subseteq Codes /\ GoneInv'
<1>1. Doubtful \subseteq Doubtful'
  BY DoubtfulIsKept
<1>2. StoresTyped' /\ Kept
  BY DEF StoresStep
<1>3. GoneInv'
  <2>1. gone' = gone \cup {} /\ {} \in SUBSET Codes
    OBVIOUS
  <2>2. \A k \in {} : Taken(k)' /\ Off(k)'
    OBVIOUS
  <2>3. QED
    BY <1>1, <1>2, <2>1, <2>2, GoneIsKept
<1>4. QED
  BY <1>3 DEF IInv, TypesInv

-----------------------------------------------------------------------------
(* The steps of a client, by what becomes of its request. *)

(* It ends, and the stores rest. *)
LEMMA QuietEnd ==
    ASSUME IInv, NEW c \in Clients, request[c].at # "write", UNCHANGED <<stores, tasks, known>>,
           NEW at \in {"idle", "blank", "told"}, NEW answer \in Answers, EndsAs(c, at, answer),
           \A k \in DOMAIN answer : StandsFor(k, answer[k])
    PROVE  IInv'
<1>1. StoresStep(c) /\ Undisturbed
  BY NothingStored DEF Undisturbed, known
<1>2. OthersRest(c)
  BY DEF EndsAs, OthersRest, IInv, TypesInv
<1>3. gone' \subseteq Codes /\ GoneInv'
  BY <1>1, <1>2, GoneRests DEF stores, known
<1>4. \A k \in DOMAIN answer : StandsFor(k, answer[k])'
  BY DEF StandsFor, Taken, stores
<1>5. QED
  BY <1>1, <1>3, <1>4, EndKeepsIInv

(* The same without an answer. *)
LEMMA QuietReply ==
    ASSUME IInv, NEW c \in Clients, request[c].at # "write", UNCHANGED <<stores, tasks>>,
           Reply(c) \/ Blank(c)
    PROVE  IInv'
<1>1. \E at \in {"idle", "blank", "told"} : EndsAs(c, at, <<>>)
  BY ReplyEnds DEF Reply
<1>2. UNCHANGED <<stores, tasks, known>>
  BY DEF Reply, Blank
<1>3. QED
  BY <1>1, <1>2, EmptyAnswer, QuietEnd

(* The same with an answer the stores know of. *)
LEMMA QuietTell ==
    ASSUME IInv, NEW c \in Clients, request[c].at # "write", UNCHANGED <<stores, tasks>>,
           NEW S \in SUBSET Codes, NEW answer \in [S -> URLs], Tell(c, answer),
           \A k \in S : StandsFor(k, answer[k])
    PROVE  IInv'
<1>1. answer \in Answers /\ DOMAIN answer = S
  BY AnswerIsTyped
<1>2. EndsAs(c, "told", answer) /\ UNCHANGED known
  BY ReplyEnds
<1>3. QED
  BY <1>1, <1>2, QuietEnd

(* A code with a row or a record stands for the URL of that. *)
LEMMA StoredStandsFor ==
    ASSUME IInv, NEW k \in Codes
    PROVE  /\ rows[k] # NoLink => rows[k].url \in URLs /\ StandsFor(k, rows[k].url)
           /\ memory[k] # NoLink => memory[k].url \in URLs /\ StandsFor(k, memory[k].url)
<1>1. rows[k] # NoLink => rows[k].url \in URLs
  BY LinksHaveFields DEF IInv, TypesInv
<1>2. memory[k] # NoLink => memory[k].url \in URLs
  BY LinksHaveFields DEF IInv, TypesInv
<1>3. QED
  BY <1>1, <1>2 DEF IInv, InOneStore, StandsFor, Taken

(* A batch is answered with rows that exist. *)
LEMMA FindDuplicateURLsKeeps ==
    ASSUME IInv, NEW c \in Clients, FindDuplicateURLs(c) PROVE IInv'
<1> DEFINE found == {k \in Codes : rows[k] # NoLink /\ rows[k].url \in ToSet(request[c].urls)}
           answer == [k \in found |-> rows[k].url]
<1>1. /\ request[c].at # "write" /\ UNCHANGED <<stores, tasks>>
      /\ Tell(c, answer)
  BY DEF FindDuplicateURLs, At
<1>2. answer \in [found -> URLs] /\ \A k \in found : StandsFor(k, answer[k])
  BY StoredStandsFor
<1> HIDE DEF answer
<1>3. QED
  BY <1>1, <1>2, QuietTell

(* A conflict is answered with the row it was with. *)
LEMMA GetByOriginalURLKeeps ==
    ASSUME IInv, NEW c \in Clients, GetByOriginalURL(c) PROVE IInv'
<1> DEFINE u == request[c].urls[1]
           found == {k \in Codes : rows[k] # NoLink /\ rows[k].url = u}
           answer == [k \in found |-> u]
<1>1. /\ request[c].at # "write" /\ UNCHANGED <<stores, tasks>> /\ Awaits(c)
      /\ Tell(c, answer) \/ Reply(c)
  BY DEF GetByOriginalURL, At, Awaits
<1>2. answer \in [found -> URLs] /\ \A k \in found : StandsFor(k, answer[k])
  BY <1>1, StoredStandsFor, AwaitedIs
<1> HIDE DEF answer
<1>3. QED
  BY <1>1, <1>2, QuietTell, QuietReply

(* A batch is answered with the records of its codes. *)
LEMMA SaveItemsKeeps ==
    ASSUME IInv, NEW c \in Clients, SaveItems(c) PROVE IInv'
<1> DEFINE answer == [k \in Named(c) |-> memory[k].url]
<1>1. /\ request[c].at # "write" /\ UNCHANGED <<stores, tasks>>
      /\ Tell(c, answer) /\ request[c].op = "batch"
  BY DEF SaveItems, At, AtFile, Named
<1>2. Named(c) \subseteq Codes /\ \A k \in Named(c) : memory[k] # NoLink
  BY <1>1, CodesOf DEF IInv, RequestInv, BatchInv, Named
<1>3. answer \in [Named(c) -> URLs] /\ \A k \in Named(c) : StandsFor(k, answer[k])
  BY <1>2, StoredStandsFor
<1> HIDE DEF answer
<1>4. QED
  BY <1>1, <1>2, <1>3, QuietTell

(* After the event is logged a code is told that stands for its URL. *)
LEMMA LogEventKeeps ==
    ASSUME IInv, NEW c \in Clients, LogEvent(c) \/ LogEventFails(c) PROVE IInv'
<1> DEFINE u == request[c].urls[1]
           answer == [k \in Named(c) |-> u]
<1>1. request[c].at = "audit" /\ UNCHANGED <<stores, tasks>>
  BY DEF LogEvent, LogEventFails
<1>2. CASE request[c].op = "shorten" /\ LogEvent(c)
  <2>1. Tell(c, answer)
    BY <1>2 DEF LogEvent, Named
  <2>2. /\ request[c].urls # <<>> /\ Named(c) = {request[c].codes[1]}
        /\ StandsFor(request[c].codes[1], u)
    BY <1>1, <1>2 DEF IInv, RequestInv, ShortenInv
  <2>3. Named(c) \subseteq Codes /\ u \in URLs
    BY <2>2, CodesOf DEF IInv, Named
  <2>4. answer \in [Named(c) -> URLs] /\ \A k \in Named(c) : StandsFor(k, answer[k])
    BY <2>2, <2>3
  <2> HIDE DEF answer
  <2>5. QED
    BY <1>1, <2>1, <2>3, <2>4, QuietTell
<1>3. CASE ~(request[c].op = "shorten" /\ LogEvent(c))
  <2>1. Reply(c) \/ Blank(c)
    BY <1>3 DEF LogEvent, LogEventFails
  <2>2. QED
    BY <1>1, <2>1, QuietReply
<1>4. QED
  BY <1>2, <1>3

(* It goes on, and the stores rest. *)
LEMMA QuietGoto ==
    ASSUME IInv, NEW c \in Clients, UNCHANGED <<stores, tasks, known>>,
           NEW at \in Place, Goto(c, at), at \notin {"idle", "blank", "told", "write"},
           request[c].op # "none", request[c].at # "write",
           ShortenInv(c)', FollowInv(c)',
           request[c].op = "shorten" /\ at # "audit" => Awaits(c)
    PROVE  IInv'
<1>1. StoresStep(c) /\ Undisturbed
  BY NothingStored DEF Undisturbed, known
<1>2. OthersRest(c)
  BY GotoIs
<1>3. gone' \subseteq Codes /\ GoneInv'
  BY <1>1, <1>2, GoneRests DEF stores, known
<1>4. QED
  BY <1>1, <1>3, GotoKeepsIInv

(* A batch goes to one of the stores. *)
LEMMA NoDuplicateURLsKeeps ==
    ASSUME IInv, NEW c \in Clients, NoDuplicateURLs(c) PROVE IInv'
<1>1. PICK at \in {"database", "file"} : Goto(c, at)
  BY DEF NoDuplicateURLs, Store
<1>2. /\ UNCHANGED <<stores, tasks, known>>
      /\ request[c].op = "batch" /\ request[c].at = "duplicates"
  BY DEF NoDuplicateURLs, At
<1>3. at \in Place /\ request'[c].op = "batch"
  BY <1>1, <1>2, GotoIs DEF Place
<1>4. ShortenInv(c)' /\ FollowInv(c)'
  BY <1>3 DEF ShortenInv, FollowInv
<1>5. QED
  BY <1>1, <1>2, <1>3, <1>4, QuietGoto

(* A request of some place and codes begins. *)
LEMMA BeginIs ==
    ASSUME IInv, NEW c \in Clients, NEW op \in Op, NEW w \in Users \cup {NoLink}, NEW at \in Place,
           NEW urls \in Seq(URLs), NEW codes \in Seq(Codes), Begin(c, op, w, at, urls, codes)
    PROVE  /\ request' \in [Clients -> Request] /\ OthersRest(c)
           /\ request'[c].op = op /\ request'[c].at = at /\ request'[c].user = w
           /\ request'[c].urls = urls /\ request'[c].codes = codes
           /\ request'[c].gone => codes[1] \in gone \ Doubtful
           /\ request'[c].answer = <<>>
           /\ UNCHANGED <<stores, tasks, known>>
<1> DEFINE r == [op |-> op, at |-> at, user |-> w, urls |-> urls, codes |-> codes, answer |-> <<>>,
                 gone |-> op = "follow" /\ codes[1] \in gone \ Doubtful]
<1>1. request' = [request EXCEPT ![c] = r]
  BY DEF Begin
<1>2. r \in Request
  BY EmptyAnswer DEF Request
<1>3. r.gone => codes[1] \in gone \ Doubtful
  OBVIOUS
<1>4. /\ r.op = op /\ r.at = at /\ r.user = w /\ r.urls = urls /\ r.codes = codes
      /\ r.answer = <<>>
  OBVIOUS
<1> HIDE DEF r
<1>5. request' \in [Clients -> Request] /\ request'[c] = r /\ OthersRest(c)
  BY <1>1, <1>2 DEF IInv, TypesInv, OthersRest
<1>6. QED
  BY <1>3, <1>4, <1>5 DEF Begin

(* A request may begin where its operation begins, with a code nobody awaits. *)
LEMMA BeginKeeps ==
    ASSUME IInv, NEW c \in Clients, Idle(c),
           NEW op \in Op, NEW w \in Users \cup {NoLink}, NEW at \in Place,
           NEW urls \in Seq(URLs), NEW codes \in Seq(Codes), Begin(c, op, w, at, urls, codes),
           at \notin {"idle", "blank", "told", "write"},
           ShortenInv(c)', BatchInv(c)', FollowInv(c)',
           Awaits(c)' => \A d \in Clients : Awaits(d) => Named(c)' \cap Named(d) = {}
    PROVE  IInv'
<1>1. /\ request' \in [Clients -> Request] /\ OthersRest(c)
      /\ request'[c].at = at /\ request'[c].answer = <<>>
      /\ UNCHANGED <<stores, tasks, known>>
  BY BeginIs
<1>2. StoresStep(c) /\ Undisturbed
  BY <1>1, NothingStored DEF Undisturbed, known
<1>3. request[c].at # "write"
  BY DEF Idle
<1>4. gone' \subseteq Codes /\ GoneInv'
  BY <1>1, <1>2, <1>3, GoneRests DEF stores, known
<1>5. RequestInv(c)'
  BY <1>1, EmptyAnswer DEF RequestInv, DeleteInv, AnswerInv, Idle
<1>6. QED
  BY <1>1, <1>2, <1>4, <1>5, ClientStepKeepsIInv

(* A code is drawn that nobody awaits. *)
LEMMA CreateShortURLKeeps ==
    ASSUME IInv, NEW c \in Clients, Idle(c), NEW w \in Users, NEW u \in URLs, NEW k \in Codes,
           CreateShortURL(c, w, u, k)
    PROVE  IInv'
<1>1. PICK at \in {"database", "file"} : Begin(c, "shorten", w, at, <<u>>, <<k>>)
  BY DEF CreateShortURL, Store
<1>2. ~Taken(k) /\ \A d \in Clients : Awaits(d) => k \notin Named(d)
  BY FreshIs DEF CreateShortURL
<1>3. /\ "shorten" \in Op /\ at \in Place /\ w \in Users \cup {NoLink}
      /\ <<u>> \in Seq(URLs) /\ <<k>> \in Seq(Codes) /\ <<u>> # <<>> /\ <<k>> # <<>>
      /\ <<k>>[1] = k /\ ToSet(<<k>>) = {k}
  BY DEF Op, Place, ToSet
<1>4. /\ request'[c].op = "shorten" /\ request'[c].at = at /\ request'[c].user = w
      /\ request'[c].urls = <<u>> /\ request'[c].codes = <<k>>
      /\ UNCHANGED <<stores, tasks, known>>
  BY <1>1, <1>3, BeginIs
<1>5. Named(c)' = {k} /\ ~Taken(k)'
  BY <1>2, <1>3, <1>4 DEF Named, Taken, stores
<1>6. ShortenInv(c)' /\ BatchInv(c)' /\ FollowInv(c)'
  BY <1>3, <1>4, <1>5 DEF ShortenInv, BatchInv, FollowInv
<1>7. QED
  BY <1>1, <1>2, <1>3, <1>5, <1>6, BeginKeeps

(* Requests begin.  A redirect remembers that its link was gone: a code that is gone and not
   doubtful has a row or a record, and those are off. *)
LEMMA ArriveKeeps ==
    ASSUME IInv, NEW c \in Clients, Arrive(c) PROVE IInv'
<1>1. Idle(c)
  BY DEF Arrive
<1>2. CASE \E w \in Users, u \in URLs, k \in Codes : CreateShortURL(c, w, u, k)
  BY <1>1, <1>2, CreateShortURLKeeps
<1>3. CASE \E w \in Users, urls \in Batches : CreateBatchShortAPIURL(c, w, urls)
  <2>1. PICK w \in Users, urls \in Batches : Begin(c, "batch", w, "duplicates", urls, <<>>)
    BY <1>3 DEF CreateBatchShortAPIURL
  <2>2. urls \in Seq(URLs)
    BY ShortenerAssumption DEF Batches, BoundedSeq, SeqOf
  <2>3. "batch" \in Op /\ "duplicates" \in Place /\ <<>> \in Seq(Codes) /\ w \in Users \cup {NoLink}
    BY DEF Op, Place
  <2>4. /\ request'[c].op = "batch" /\ request'[c].at = "duplicates" /\ request'[c].user = w
        /\ request'[c].codes = <<>>
    BY <2>1, <2>2, <2>3, BeginIs
  <2>5. Named(c)' = {} /\ ~Awaits(c)'
    BY <2>4 DEF Named, ToSet, Awaits
  <2>6. ShortenInv(c)' /\ BatchInv(c)' /\ FollowInv(c)'
    BY <2>4, <2>5 DEF ShortenInv, BatchInv, FollowInv
  <2>7. QED
    BY <1>1, <2>1, <2>2, <2>3, <2>5, <2>6, BeginKeeps
<1>4. CASE \E k \in Codes : RedirectURL(c, k)
  <2>1. PICK k \in Codes, at \in {"database", "file"} : Begin(c, "follow", NoLink, at, <<>>, <<k>>)
    BY <1>4 DEF RedirectURL, Store
  <2>0. <<k>> \in Seq(Codes) /\ <<k>> # <<>> /\ <<k>>[1] = k /\ <<>> \in Seq(URLs)
    OBVIOUS
  <2>2. PICK codes \in Seq(Codes), urls \in Seq(URLs) :
            codes = <<k>> /\ urls = <<>> /\ codes # <<>> /\ codes[1] = k
    <3>1. PICK codes : codes = <<k>>
      OBVIOUS
    <3>2. PICK urls : urls = <<>>
      OBVIOUS
    <3>3. codes \in Seq(Codes) /\ codes # <<>> /\ codes[1] = k /\ urls \in Seq(URLs)
      BY <2>0, <3>1, <3>2
    <3>4. QED
      BY <3>1, <3>2, <3>3, Zenon
  <2>3. "follow" \in Op /\ at \in Place /\ Begin(c, "follow", NoLink, at, urls, codes)
    BY <2>1, <2>2 DEF Op, Place
  <2>4. /\ request'[c].op = "follow" /\ request'[c].at = at /\ request'[c].codes = codes
        /\ request'[c].gone => codes[1] \in gone \ Doubtful
        /\ UNCHANGED stores
    BY <2>3, BeginIs
  <2>5. k \in gone \ Doubtful => Off(k) /\ (rows[k] # NoLink \/ memory[k] # NoLink)
    BY DoubtfulIs DEF IInv, GoneInv, Taken
  <2>6. k \in gone \ Doubtful => Off(k)' /\ (rows'[k] # NoLink \/ memory'[k] # NoLink)
    BY <2>4, <2>5 DEF stores, Off
  <2>7. ShortenInv(c)' /\ BatchInv(c)' /\ ~Awaits(c)'
    BY <2>4 DEF ShortenInv, BatchInv, Awaits
  <2>8. FollowInv(c)'
    <3>1. request'[c].at # "check" /\ request'[c].at # "audit"
      BY <2>4
    <3>2. request'[c].gone => Off(k)' /\ (rows'[k] # NoLink \/ memory'[k] # NoLink)
      BY <2>2, <2>4, <2>6
    <3>3. QED
      BY <2>2, <2>4, <3>1, <3>2 DEF FollowInv
  <2>9. QED
    BY <1>1, <2>3, <2>7, <2>8, BeginKeeps
<1>5. CASE \E w \in Users, codes \in Lists : DeleteAPIUserUrls(c, w, codes)
  <2>1. PICK w \in Users, codes \in Lists : Begin(c, "delete", w, "file", <<>>, codes)
    BY <1>5 DEF DeleteAPIUserUrls
  <2>2. /\ "delete" \in Op /\ "file" \in Place /\ <<>> \in Seq(URLs) /\ w \in Users \cup {NoLink}
        /\ codes \in Seq(Codes)
    BY ShortenerAssumption DEF Op, Place, Lists, BoundedSeq, SeqOf
  <2>3. request'[c].op = "delete"
    BY <2>1, <2>2, BeginIs
  <2>4. ShortenInv(c)' /\ BatchInv(c)' /\ FollowInv(c)' /\ ~Awaits(c)'
    BY <2>3 DEF ShortenInv, BatchInv, FollowInv, Awaits
  <2>5. QED
    BY <1>1, <2>1, <2>2, <2>4, BeginKeeps
<1>6. QED
  BY <1>2, <1>3, <1>4, <1>5 DEF Arrive

-----------------------------------------------------------------------------
(* On the database *)

(* The code that was drawn has been saved. *)
LEMMA SavedKeeps ==
    ASSUME IInv, NEW c \in Clients, Awaits(c), StoresStep(c), Undisturbed, gone' = gone,
           unsure \subseteq unsure', Saved(c),
           NEW k, NEW u, k = request[c].codes[1], u = request[c].urls[1], StandsFor(k, u)'
    PROVE  IInv'
<1>1. /\ request[c].op = "shorten" /\ request[c].at # "write" /\ u \in URLs
      /\ Named(c) = {k} /\ k \in Codes
  BY AwaitedIs DEF Awaits
<1>2. CASE Goto(c, "audit")
  <2>1. "audit" \in Place
    BY DEF Place
  <2>2. /\ OthersRest(c) /\ request'[c].at = "audit" /\ request'[c].op = "shorten"
        /\ request'[c].urls = request[c].urls /\ request'[c].codes = request[c].codes
        /\ request'[c].user = request[c].user
    BY <1>1, <1>2, <2>1, GotoIs
  <2>3. gone' \subseteq Codes /\ GoneInv'
    BY <1>1, <2>2, GoneRests
  <2>4. ShortenInv(c) /\ Named(c)' = Named(c)
    BY <2>2 DEF IInv, RequestInv, Named
  <2>5. ShortenInv(c)' /\ FollowInv(c)'
    BY <1>1, <2>2, <2>4 DEF ShortenInv, FollowInv, Awaits
  <2>6. QED
    BY <1>1, <1>2, <2>1, <2>3, <2>5, GotoKeepsIInv
<1>3. CASE Tell(c, [m \in Named(c) |-> u])
  <2>1. PICK answer \in [{k} -> URLs] : Tell(c, answer) /\ answer[k] = u
    BY <1>1, <1>3
  <2>2. EndsAs(c, "told", answer)
    BY <2>1, ReplyEnds
  <2>3. OthersRest(c)
    BY <2>2 DEF EndsAs, OthersRest, IInv, TypesInv
  <2>4. gone' \subseteq Codes /\ GoneInv'
    BY <1>1, <2>3, GoneRests
  <2>5. {k} \in SUBSET Codes
    BY <1>1
  <2>6. answer \in Answers /\ DOMAIN answer = {k}
    BY <2>5, AnswerIsTyped
  <2>7. \A m \in DOMAIN answer : StandsFor(m, answer[m])'
    BY <2>1, <2>6
  <2>8. QED
    BY <2>2, <2>4, <2>6, <2>7, EndKeepsIInv
<1>4. QED
  BY <1>1, <1>2, <1>3 DEF Saved, Named

(* The request ends after it has written, with an answer or without. *)
LEMMA WroteAndReplied ==
    ASSUME IInv, NEW c \in Clients, request[c].at # "write", StoresStep(c), Undisturbed,
           gone' = gone, unsure \subseteq unsure', Reply(c) \/ Blank(c)
    PROVE  IInv'
<1>1. PICK at \in {"idle", "blank", "told"} : EndsAs(c, at, <<>>)
  BY ReplyEnds DEF Reply
<1>2. OthersRest(c)
  BY <1>1 DEF EndsAs, OthersRest, IInv, TypesInv
<1>3. gone' \subseteq Codes /\ GoneInv'
  BY <1>2, GoneRests
<1>4. QED
  BY <1>1, <1>3, EmptyAnswer, EndKeepsIInv

(* One row is added, for the code the client has drawn. *)
LEMMA RowIsAdded ==
    ASSUME IInv, NEW c \in Clients, Awaits(c), UNCHANGED <<memory, unsure>>,
           NEW k, NEW u, k = request[c].codes[1], u = request[c].urls[1],
           rows' = [rows EXCEPT ![k] = NewLink(c, u)]
    PROVE  /\ StoresStep(c) /\ \A m \in Codes : rows[m] # NoLink => rows'[m] = rows[m]
           /\ StandsFor(k, u)'
<1>1. PICK l \in Link : l = NewLink(c, u) /\ l.url = u
  BY AwaitedIs
<1>2. /\ k \in Codes /\ ~Taken(k)
      /\ \A d \in Clients : d # c /\ Awaits(d) => k \notin Named(d)
  BY AwaitedIs
<1>3. /\ rows' \in [Codes -> Link \cup {NoLink}] /\ rows'[k] = l
      /\ \A m \in Codes \ {k} : rows'[m] = rows[m]
  BY <1>1, <1>2 DEF IInv, TypesInv
<1>4. StoresStep(c) /\ \A m \in Codes : rows[m] # NoLink => rows'[m] = rows[m]
  <2>1. PICK S \in SUBSET Codes : S = {k}
    BY <1>2
  <2>2. /\ \A m \in S : ~Taken(m)
        /\ \A m \in S, d \in Clients : d # c /\ Awaits(d) => m \notin Named(d)
        /\ \A m \in Codes \ S : rows'[m] = rows[m]
    BY <1>2, <1>3, <2>1
  <2>3. QED
    BY <1>3, <2>2, RowsAdded
<1>5. l # NoLink /\ memory'[k] = NoLink
  BY <1>2, LinksHaveFields DEF Taken
<1>6. StandsFor(k, u)'
  BY <1>1, <1>3, <1>5 DEF StandsFor, Taken
<1>7. QED
  BY <1>4, <1>6

(* An insert meets a row with its URL, or adds one; when it fails it may have added one. *)
LEMMA CreateRowKeeps ==
    ASSUME IInv, NEW c \in Clients, CreateRow(c) \/ CreateRowFails(c) PROVE IInv'
<1>0. PICK k, u : k = request[c].codes[1] /\ u = request[c].urls[1]
  OBVIOUS
<1>1. /\ request[c].op = "shorten" /\ request[c].at = "database" /\ Awaits(c)
      /\ UNCHANGED <<memory, unsure, tasks>>
  BY DEF CreateRow, CreateRowFails, At, Awaits
<1>2. CASE CreateRow(c) /\ HasURL(rows, u)
  <2>1. Goto(c, "lookup") /\ UNCHANGED <<stores, tasks, known>> /\ "lookup" \in Place
    BY <1>0, <1>1, <1>2 DEF CreateRow, stores, Place
  <2>2. /\ request'[c].at = "lookup" /\ request'[c].op = "shorten"
        /\ request'[c].urls = request[c].urls /\ request'[c].codes = request[c].codes
        /\ request'[c].user = request[c].user
    BY <1>1, <2>1, GotoIs
  <2>3. ShortenInv(c) /\ Named(c)' = Named(c)
    BY <2>2 DEF IInv, RequestInv, Named
  <2>4. HasURL(rows', u)
    BY <1>2, <2>1 DEF stores, HasURL
  <2>5. ShortenInv(c)' /\ FollowInv(c)'
    BY <1>0, <1>1, <2>1, <2>2, <2>3, <2>4 DEF ShortenInv, FollowInv, Awaits, Taken, stores
  <2>6. QED
    BY <1>1, <2>1, <2>5, QuietGoto
<1>3. CASE CreateRow(c) /\ ~HasURL(rows, u)
  <2>1. Saved(c) /\ rows' = [rows EXCEPT ![k] = NewLink(c, u)]
    BY <1>0, <1>3 DEF CreateRow
  <2>2. UNCHANGED known
    BY <2>1 DEF Saved, Tell
  <2>3. StoresStep(c) /\ StandsFor(k, u)' /\ \A m \in Codes : rows[m] # NoLink => rows'[m] = rows[m]
    BY <1>0, <1>1, <2>1, RowIsAdded
  <2>4. QED
    BY <1>0, <1>1, <2>1, <2>2, <2>3, SavedKeeps DEF Undisturbed, known
<1>4. CASE CreateRowFails(c)
  <2>1. Reply(c) /\ UNCHANGED known
    BY <1>4 DEF CreateRowFails, Reply
  <2>2. CASE UNCHANGED rows
    BY <1>1, <2>1, <2>2, QuietReply DEF stores
  <2>3. CASE rows' = [rows EXCEPT ![k] = NewLink(c, u)]
    <3>1. StoresStep(c) /\ \A m \in Codes : rows[m] # NoLink => rows'[m] = rows[m]
      BY <1>0, <1>1, <2>3, RowIsAdded
    <3>2. QED
      BY <1>1, <2>1, <3>1, WroteAndReplied DEF Undisturbed, known
  <2>4. QED
    BY <1>0, <1>4, <2>2, <2>3 DEF CreateRowFails
<1>5. QED
  BY <1>2, <1>3, <1>4

(* A batch saves a fresh code for each of its URLs. *)
LEMMA BatchRowsAre ==
    ASSUME IInv, NEW c \in Clients, request[c].op = "batch", rows' \in BatchRows(c),
           UNCHANGED <<memory, unsure>>
    PROVE  /\ StoresStep(c) /\ \A k \in Codes : rows[k] # NoLink => rows'[k] = rows[k]
           /\ \A k \in Codes : rows'[k] # rows[k] => rows'[k] \in Link
<1> DEFINE urls == request[c].urls
           Row(ks, k) == NewLink(c, urls[CHOOSE i \in DOMAIN ks : ks[i] = k])
<1>1. PICK ks \in [DOMAIN urls -> Codes] :
          /\ \A i \in DOMAIN ks : Fresh(ks[i])
          /\ rows' = [k \in Codes |-> IF k \in ToSet(ks) THEN Row(ks, k) ELSE rows[k]]
  BY DEF BatchRows
<1>2. urls \in Seq(URLs) /\ request[c].user \in Users
  BY CodesOf DEF IInv, RequestInv, BatchInv
<1>3. ASSUME NEW k \in ToSet(ks)
      PROVE  /\ k \in Codes /\ Row(ks, k) \in Link
             /\ ~Taken(k) /\ \A d \in Clients : Awaits(d) => k \notin Named(d)
  <2>1. \E i \in DOMAIN ks : ks[i] = k
    BY DEF ToSet
  <2>2. (CHOOSE i \in DOMAIN ks : ks[i] = k) \in DOMAIN urls
    BY <2>1
  <2>3. \A i \in DOMAIN urls : urls[i] \in URLs
    BY <1>2
  <2>4. \A i \in DOMAIN urls : NewLink(c, urls[i]) \in Link
    BY <1>2, <2>3 DEF NewLink, Link
  <2>5. Row(ks, k) \in Link
    BY <2>2, <2>4
  <2>6. Fresh(k) /\ k \in Codes
    BY <1>1, <2>1
  <2>7. QED
    BY <2>5, <2>6, FreshIs
<1>4. PICK S \in SUBSET Codes : S = ToSet(ks)
  BY <1>3
<1> HIDE DEF Row
<1>5. /\ \A k \in S : ~Taken(k)
      /\ \A k \in S, d \in Clients : d # c /\ Awaits(d) => k \notin Named(d)
      /\ \A k \in Codes \ S : rows'[k] = rows[k]
      /\ \A k \in S : rows'[k] \in Link
      /\ rows' \in [Codes -> Link \cup {NoLink}]
  BY <1>1, <1>3, <1>4 DEF IInv, TypesInv
<1>6. StoresStep(c) /\ \A k \in Codes : rows[k] # NoLink => rows'[k] = rows[k]
  BY <1>5, RowsAdded
<1>7. QED
  BY <1>5, <1>6

(* A batch adds its rows, and tells them if it can. *)
LEMMA CreateBatchKeeps ==
    ASSUME IInv, NEW c \in Clients, CreateBatch(c) \/ CreateBatchFails(c) PROVE IInv'
<1>1. /\ request[c].op = "batch" /\ request[c].at = "database"
      /\ UNCHANGED <<memory, unsure, tasks, known>>
  BY DEF CreateBatch, CreateBatchFails, At, Tell, Blank
<1>2. CASE UNCHANGED rows /\ CreateBatchFails(c)
  BY <1>1, <1>2, QuietReply DEF CreateBatchFails, stores
<1>3. CASE rows' \in BatchRows(c)
  <2>1. /\ StoresStep(c) /\ \A k \in Codes : rows[k] # NoLink => rows'[k] = rows[k]
        /\ \A k \in Codes : rows'[k] # rows[k] => rows'[k] \in Link
    BY <1>1, <1>3, BatchRowsAre
  <2>2. Undisturbed /\ gone' = gone /\ unsure \subseteq unsure' /\ request[c].at # "write"
    BY <1>1, <2>1 DEF Undisturbed, known
  <2>3. CASE CreateBatchFails(c)
    BY <2>1, <2>2, <2>3, WroteAndReplied DEF CreateBatchFails
  <2>4. CASE CreateBatch(c)
    <3>1. PICK new \in SUBSET Codes : new = {k \in Codes : rows'[k] # rows[k]}
      OBVIOUS
    <3>2. \A k \in new : rows'[k].url \in URLs /\ rows'[k] # NoLink /\ rows'[k] \in Link
      BY <2>1, <3>1, LinksHaveFields
    <3>3. PICK answer \in [new -> URLs] : Tell(c, answer) /\ \A k \in new : answer[k] = rows'[k].url
      <4>1. PICK answer : answer = [k \in new |-> rows'[k].url]
        OBVIOUS
      <4>2. Tell(c, answer)
        BY <2>4, <3>1, <4>1 DEF CreateBatch
      <4>3. answer \in [new -> URLs] /\ \A k \in new : answer[k] = rows'[k].url
        BY <3>2, <4>1
      <4>4. QED
        BY <4>2, <4>3
    <3>4. EndsAs(c, "told", answer) /\ answer \in Answers /\ DOMAIN answer = new
      BY <3>3, ReplyEnds, AnswerIsTyped
    <3>5. \A k \in DOMAIN answer : StandsFor(k, answer[k])'
      BY <2>1, <3>2, <3>3, <3>4 DEF StandsFor, Taken, StoresStep, InOneStore
    <3>6. OthersRest(c)
      BY <3>4 DEF EndsAs, OthersRest, IInv, TypesInv
    <3>7. gone' \subseteq Codes /\ GoneInv'
      BY <2>1, <2>2, <3>6, GoneRests
    <3>8. QED
      BY <2>1, <2>2, <3>4, <3>5, <3>7, EndKeepsIInv
  <2>5. QED
    BY <2>3, <2>4
<1>4. QED
  BY <1>2, <1>3 DEF CreateBatch, CreateBatchFails

(* A redirect finds the link in a store: it follows it or learns that it is deleted. *)
LEMMA FollowOn ==
    ASSUME IInv, NEW c \in Clients, request[c].op = "follow", UNCHANGED <<stores, tasks, known>>,
           NEW k, k = request[c].codes[1], request[c].at # "write",
           \/ Goto(c, "check") /\ memory[k] # NoLink
           \/ Goto(c, "audit") /\ ~Off(k)
    PROVE  IInv'
<1>1. PICK at \in {"check", "audit"} :
          /\ Goto(c, at)
          /\ at = "check" => memory[k] # NoLink
          /\ at = "audit" => ~Off(k)
  OBVIOUS
<1>2. at \in Place /\ FollowInv(c)
  BY DEF Place, IInv, RequestInv
<1>3. /\ request'[c].at = at /\ request'[c].op = "follow" /\ request'[c].codes = request[c].codes
      /\ request'[c].gone = request[c].gone
  BY <1>1, <1>2, GotoIs
<1>4. FollowInv(c)' /\ ShortenInv(c)'
  BY <1>1, <1>2, <1>3 DEF FollowInv, ShortenInv, Off, stores
<1>5. QED
  BY <1>1, <1>2, <1>4, QuietGoto

(* It tells the client that the link is gone, which is so. *)
LEMMA FollowEnds ==
    ASSUME IInv, NEW c \in Clients, request[c].op = "follow", UNCHANGED <<stores, tasks, promised>>,
           NEW k, k = request[c].codes[1], request[c].at # "write",
           Taken(k), Off(k), End(c), gone' = gone \cup {k}
    PROVE  IInv'
<1>1. EndsAs(c, "idle", <<>>)
  BY ReplyEnds
<1>2. OthersRest(c)
  BY <1>1 DEF EndsAs, OthersRest, IInv, TypesInv
<1>3. k \in Codes
  BY CodesOf DEF IInv, RequestInv, FollowInv
<1>4. StoresStep(c) /\ Undisturbed
  BY NothingStored DEF Undisturbed
<1>5. GoneInv' /\ gone' \subseteq Codes
  <2>1. Doubtful \subseteq Doubtful'
    BY <1>2, DoubtfulIsKept DEF stores
  <2>2. PICK G \in SUBSET Codes : G = {k}
    BY <1>3
  <2>3. Taken(k)' /\ Off(k)'
    BY DEF stores, Taken, Off
  <2>4. StoresTyped' /\ Kept
    BY <1>4 DEF StoresStep
  <2>5. QED
    BY <1>3, <2>1, <2>2, <2>3, <2>4, GoneIsKept DEF IInv, TypesInv
<1>6. QED
  BY <1>1, <1>4, <1>5, EmptyAnswer, EndKeepsIInv

(* A redirect reads its row. *)
LEMMA GetRowKeeps ==
    ASSUME IInv, NEW c \in Clients, GetRow(c) PROVE IInv'
<1>1. PICK k : k = request[c].codes[1]
  OBVIOUS
<1>2. /\ request[c].op = "follow" /\ request[c].at = "database" /\ rows[k] # NoLink
      /\ UNCHANGED <<stores, tasks>>
      /\ IF rows[k].active THEN Goto(c, "audit") /\ UNCHANGED known
         ELSE End(c) /\ gone' = gone \cup {k} /\ UNCHANGED promised
  BY <1>1 DEF GetRow, At
<1>3. k \in Codes
  BY <1>1, <1>2, CodesOf DEF IInv, RequestInv, FollowInv
<1>4. Taken(k) /\ (Off(k) <=> ~rows[k].active)
  BY <1>2, <1>3 DEF Taken, Off, IInv, InOneStore
<1>5. QED
  BY <1>1, <1>2, <1>4, FollowOn, FollowEnds

(* No call of the database breaks the invariant. *)
LEMMA OnDatabaseKeeps ==
    ASSUME IInv, NEW c \in Clients, OnDatabase(c) PROVE IInv'
<1>1. LookupFails(c) \/ GetRowFails(c) => IInv'
  BY QuietReply DEF LookupFails, GetRowFails, At
<1>2. QED
  BY <1>1, CreateRowKeeps, GetByOriginalURLKeeps, CreateBatchKeeps, GetRowKeeps DEF OnDatabase

-----------------------------------------------------------------------------
(* On the file store *)

(* A record is added for the code that was drawn. *)
LEMMA SaveToFileKeeps ==
    ASSUME IInv, NEW c \in Clients, SaveToFile(c) \/ SaveFails(c) PROVE IInv'
<1>1. PICK k, u : k = request[c].codes[1] /\ u = request[c].urls[1]
  OBVIOUS
<1>2. /\ Awaits(c) /\ request[c].at # "write" /\ tasks' = tasks
      /\ Written(With(c, k, u), {k}) \/ WriteFails(With(c, k, u), {k})
      /\ Saved(c) \/ Reply(c)
  BY <1>1 DEF SaveToFile, SaveFails, AtFile, At, Awaits
<1>3. PICK l \in Link : l = NewLink(c, u) /\ l.url = u
  BY <1>1, <1>2, AwaitedIs
<1>4. /\ k \in Codes /\ ~Taken(k)
      /\ \A d \in Clients : d # c /\ Awaits(d) => k \notin Named(d)
  BY <1>1, <1>2, AwaitedIs
<1>5. PICK lost \in SUBSET {k} : AppendRecords([memory EXCEPT ![k] = l], {k}, lost)
  BY <1>2, <1>3, OneLine DEF With
<1>6. StoresStep(c) /\ rows' = rows /\ unsure \subseteq unsure' /\ StandsFor(k, u)'
  BY <1>3, <1>4, <1>5, RecordAdded
<1>7. known' = known
  BY <1>2 DEF Saved, Tell, Reply
<1>8. QED
  BY <1>1, <1>2, <1>6, <1>7, SavedKeeps, WroteAndReplied DEF Undisturbed, known

(* An item of a batch is given a fresh code. *)
LEMMA ItemIsAdded ==
    ASSUME IInv, NEW c \in Clients, request[c].op = "batch", request[c].urls # <<>>,
           NEW k \in Codes, Fresh(k), NEW new, new = With(c, k, Head(request[c].urls)),
           Written(new, {k}) \/ WriteFails(new, {k})
    PROVE  StoresStep(c) /\ rows' = rows /\ unsure \subseteq unsure' /\ memory'[k] # NoLink
<1>1. request[c].urls \in Seq(URLs) /\ request[c].user \in Users
  BY CodesOf DEF IInv, RequestInv, BatchInv
<1>2. Head(request[c].urls) \in URLs
  BY <1>1
<1>3. PICK l \in Link : l = NewLink(c, Head(request[c].urls))
  BY <1>1, <1>2 DEF NewLink, Link
<1>4. PICK lost \in SUBSET {k} : AppendRecords([memory EXCEPT ![k] = l], {k}, lost)
  BY <1>3, OneLine DEF With
<1>5. ~Taken(k) /\ \A d \in Clients : d # c /\ Awaits(d) => k \notin Named(d)
  BY FreshIs
<1>6. StoresStep(c) /\ rows' = rows /\ unsure \subseteq unsure' /\ memory'[k] = l
  BY <1>4, <1>5, RecordAdded
<1>7. QED
  BY <1>6, LinksHaveFields

(* An item whose write fails stays in memory, and its batch ends. *)
LEMMA SaveItemFailsKeeps ==
    ASSUME IInv, NEW c \in Clients, SaveItemFails(c) PROVE IInv'
<1>1. /\ request[c].op = "batch" /\ request[c].at # "write" /\ request[c].urls # <<>>
      /\ tasks' = tasks /\ Blank(c) /\ known' = known
  BY DEF SaveItemFails, AtFile, At, Blank
<1>2. PICK k \in Codes : Fresh(k) /\ WriteFails(With(c, k, Head(request[c].urls)), {k})
  BY DEF SaveItemFails
<1>3. StoresStep(c) /\ rows' = rows /\ unsure \subseteq unsure'
  BY <1>1, <1>2, ItemIsAdded
<1>4. QED
  BY <1>1, <1>3, WroteAndReplied DEF Undisturbed, known

(* What a list names when a code is put at its end. *)
LEMMA AppendedSet ==
    ASSUME NEW S, NEW s \in Seq(S), NEW k \in S
    PROVE  Append(s, k) \in Seq(S) /\ ToSet(Append(s, k)) = ToSet(s) \cup {k}
<1>1. /\ Append(s, k) \in Seq(S) /\ Len(Append(s, k)) = Len(s) + 1
      /\ \A i \in 1 .. Len(s) : Append(s, k)[i] = s[i]
      /\ Append(s, k)[Len(s) + 1] = k
  BY AppendProperties
<1>2. DOMAIN Append(s, k) = 1 .. Len(s) + 1 /\ DOMAIN s = 1 .. Len(s) /\ Len(s) \in Nat
  BY <1>1
<1>3. /\ \A i \in DOMAIN s : i \in DOMAIN Append(s, k) /\ Append(s, k)[i] = s[i]
      /\ Len(s) + 1 \in DOMAIN Append(s, k) /\ Append(s, k)[Len(s) + 1] = k
      /\ \A i \in DOMAIN Append(s, k) : i \in DOMAIN s \/ i = Len(s) + 1
  BY <1>1, <1>2
<1>4. QED
  <2> DEFINE t == Append(s, k)
  <2> HIDE DEF t
  <2>1. ToSet(t) = ToSet(s) \cup {k}
    BY <1>3 DEF ToSet, t
  <2>2. QED
    BY <1>1, <2>1 DEF t

(* An item that is saved joins the codes of its batch. *)
LEMMA SaveItemKeeps ==
    ASSUME IInv, NEW c \in Clients, SaveItem(c) PROVE IInv'
<1>1. /\ request[c].op = "batch" /\ request[c].at = "file" /\ request[c].urls # <<>>
      /\ tasks' = tasks /\ known' = known
  BY DEF SaveItem, AtFile, At
<1>2. PICK k \in Codes :
          /\ Fresh(k) /\ Written(With(c, k, Head(request[c].urls)), {k})
          /\ request' = [request EXCEPT ![c].urls = Tail(@), ![c].codes = Append(@, k)]
  BY DEF SaveItem
<1>3. StoresStep(c) /\ rows' = rows /\ unsure \subseteq unsure' /\ memory'[k] # NoLink
  BY <1>1, <1>2, ItemIsAdded
<1>4. PICK r, urls, codes :
          r = request[c] /\ urls = Tail(r.urls) /\ codes = Append(r.codes, k)
  OBVIOUS
<1>5. /\ r \in Request /\ urls \in Seq(URLs) /\ codes \in Seq(Codes)
      /\ ToSet(codes) = Named(c) \cup {k} /\ Named(c) \subseteq Codes
  <2>1. r \in Request /\ r.urls \in Seq(URLs) /\ r.codes \in Seq(Codes) /\ Named(c) \subseteq Codes
    BY <1>4, CodesOf DEF IInv, Named
  <2>2. ToSet(codes) = ToSet(r.codes) \cup {k}
    BY <1>4, <2>1, AppendedSet
  <2>3. QED
    BY <1>1, <1>4, <2>1, <2>2, AppendedSet DEF Named
<1>6. /\ request' \in [Clients -> Request] /\ OthersRest(c)
      /\ request'[c].op = "batch" /\ request'[c].at = "file" /\ request'[c].user = request[c].user
      /\ request'[c].codes = codes /\ request'[c].answer = request[c].answer
  <2>1. request' = [request EXCEPT ![c] = [[r EXCEPT !.urls = urls] EXCEPT !.codes = codes]]
    BY <1>2, <1>4 DEF IInv, TypesInv
  <2> DEFINE r1 == [r EXCEPT !.urls = urls]
             r2 == [r1 EXCEPT !.codes = codes]
  <2>2. r1 \in Request /\ r1.op = r.op /\ r1.at = r.at /\ r1.user = r.user /\ r1.answer = r.answer
    BY <1>5 DEF Request
  <2> HIDE DEF r1
  <2>3. /\ r2 \in Request /\ r2.op = r.op /\ r2.at = r.at /\ r2.user = r.user
        /\ r2.answer = r.answer /\ r2.codes = codes
    BY <1>5, <2>2 DEF Request
  <2> HIDE DEF r2
  <2>4. request' = [request EXCEPT ![c] = r2]
    BY <2>1 DEF r1, r2
  <2>5. request' \in [Clients -> Request] /\ request'[c] = r2 /\ OthersRest(c)
    BY <2>3, <2>4 DEF IInv, TypesInv, OthersRest
  <2>6. QED
    BY <1>1, <1>4, <2>3, <2>5
<1>7. BatchInv(c)'
  <2>1. BatchInv(c) /\ Named(c)' = Named(c) \cup {k}
    BY <1>5, <1>6 DEF IInv, RequestInv, Named
  <2>2. \A m \in Named(c) : memory'[m] # NoLink
    BY <1>1, <1>3, <1>5, <2>1 DEF BatchInv, StoresStep, Kept, LinkKept
  <2>3. QED
    BY <1>1, <1>3, <1>6, <2>1, <2>2 DEF BatchInv
<1>8. AnswerInv(c)'
  <2>1. AnswerInv(c) /\ DOMAIN request[c].answer \subseteq Codes
    BY CodesOf DEF IInv, RequestInv
  <2>2. QED
    BY <1>3, <1>6, <2>1, KeptStands DEF AnswerInv, StoresStep
<1>9. RequestInv(c)' /\ ~Awaits(c)'
  BY <1>6, <1>7, <1>8 DEF RequestInv, ShortenInv, FollowInv, DeleteInv, Idle, Awaits
<1>10. gone' \subseteq Codes /\ GoneInv'
  BY <1>1, <1>3, <1>6, GoneRests DEF known
<1>11. QED
  BY <1>1, <1>3, <1>6, <1>9, <1>10, ClientStepKeepsIInv DEF Undisturbed, known

(* A redirect finds its record and looks, some steps later, whether it is active. *)
LEMMA GetRecordKeeps ==
    ASSUME IInv, NEW c \in Clients, GetRecord(c) \/ CheckActive(c) PROVE IInv'
<1>1. PICK k : k = request[c].codes[1]
  OBVIOUS
<1>2. /\ request[c].op = "follow" /\ request[c].at # "write" /\ UNCHANGED <<stores, tasks>>
  BY DEF GetRecord, CheckActive, AtFile, At
<1>3. CASE GetRecord(c)
  BY <1>1, <1>2, <1>3, FollowOn, QuietReply DEF GetRecord
<1>4. CASE CheckActive(c)
  <2>1. /\ request[c].at = "check"
        /\ IF memory[k].active THEN Goto(c, "audit") /\ UNCHANGED known
           ELSE End(c) /\ gone' = gone \cup {k} /\ UNCHANGED promised
    BY <1>1, <1>4 DEF CheckActive, At
  <2>2. k \in Codes /\ memory[k] # NoLink
    BY <1>1, <1>2, <2>1, CodesOf DEF IInv, RequestInv, FollowInv
  <2>3. Taken(k) /\ (Off(k) <=> ~memory[k].active)
    BY <2>2 DEF Taken, Off, IInv, InOneStore
  <2>4. QED
    BY <1>1, <1>2, <2>1, <2>3, FollowOn, FollowEnds
<1>5. QED
  BY <1>3, <1>4

(* A list names a finite set, and a list of a part of it is a list of codes. *)
LEMMA NamedIsFinite ==
    ASSUME NEW s \in Seq(Codes), NEW S \in SUBSET ToSet(s), NEW t \in SetToSeqs(S)
    PROVE  t \in Seq(Codes) /\ ToSet(t) \subseteq S
<1>1. IsFiniteSet(DOMAIN s)
  BY FS_Interval
<1>2. s \in Surjection(DOMAIN s, ToSet(s))
  BY DEF Surjection, ToSet
<1>3. IsFiniteSet(ToSet(s))
  BY <1>1, <1>2, FS_Surjection
<1>4. IsFiniteSet(S)
  BY <1>3, FS_Subset
<1>5. Cardinality(S) \in Nat
  BY <1>4, FS_CardinalityType
<1>6. t \in [1 .. Cardinality(S) -> S]
  BY DEF SetToSeqs
<1>7. S \subseteq Codes
  BY DEF ToSet
<1>8. t \in Seq(Codes)
  BY <1>5, <1>6, <1>7
<1>9. QED
  BY <1>6, <1>8 DEF ToSet

(* Switching links off changes nothing else of them. *)
LEMMA RetiredIs ==
    ASSUME NEW store \in [Codes -> Link \cup {NoLink}], NEW S \in SUBSET Codes,
           \A k \in S : store[k] # NoLink
    PROVE  /\ Retired(store, S) \in [Codes -> Link \cup {NoLink}]
           /\ \A k \in Codes \ S : Retired(store, S)[k] = store[k]
           /\ \A k \in S : /\ Retired(store, S)[k] # NoLink /\ ~Retired(store, S)[k].active
                            /\ Retired(store, S)[k].url = store[k].url
                            /\ Retired(store, S)[k].user = store[k].user
<1>1. ASSUME NEW k \in S
      PROVE  LET l == [store[k] EXCEPT !.active = FALSE]
             IN  l \in Link /\ ~l.active /\ l.url = store[k].url /\ l.user = store[k].user
  <2>1. store[k] \in Link
    OBVIOUS
  <2>2. QED
    BY <2>1 DEF Link
<1>2. \A k \in Codes :
          Retired(store, S)[k] = IF k \in S THEN [store[k] EXCEPT !.active = FALSE] ELSE store[k]
  BY DEF Retired
<1>3. \A k \in S : Retired(store, S)[k] # NoLink
  BY <1>1, <1>2, LinksHaveFields
<1>4. Retired(store, S) \in [Codes -> Link \cup {NoLink}]
  BY <1>1, <1>2 DEF Retired
<1>5. QED
  BY <1>1, <1>2, <1>3, <1>4

(* To a link that is kept it makes no difference either. *)
LEMMA RetiredIsKept ==
    ASSUME NEW store \in [Codes -> Link \cup {NoLink}], NEW S \in SUBSET Codes,
           \A k \in S : store[k] # NoLink, NEW k \in Codes
    PROVE  /\ LinkKept(store[k], Retired(store, S)[k])
           /\ store[k] = NoLink <=> Retired(store, S)[k] = NoLink
BY RetiredIs DEF LinkKept

(* A delete switches off records of its user; until it has written them their codes are doubtful. *)
LEMMA SwitchOffKeeps ==
    ASSUME IInv, NEW c \in Clients, SwitchOff(c) PROVE IInv'
<1>1. PICK named : named = {k \in Owned(memory, request[c].user, Named(c)) : memory[k].active}
  OBVIOUS
<1>2. PICK codes \in SetToSeqs(named) :
          request' = [request EXCEPT ![c].at = "write", ![c].codes = codes]
  BY <1>1 DEF SwitchOff, Named
<1>3. /\ request[c].op = "delete" /\ request[c].at = "file"
      /\ memory' = Retired(memory, named) /\ UNCHANGED <<rows, unsure, tasks, known>>
  BY <1>1 DEF SwitchOff, AtFile, At, Named
<1>4. /\ request[c] \in Request /\ request[c].codes \in Seq(Codes) /\ Named(c) \subseteq Codes
      /\ named \in SUBSET Named(c) /\ \A k \in named : memory[k] # NoLink
  BY <1>1, CodesOf DEF IInv, Named, Owned
<1>5. codes \in Seq(Codes) /\ ToSet(codes) \subseteq named
  BY <1>4, NamedIsFinite DEF Named
<1>6. /\ request' \in [Clients -> Request] /\ OthersRest(c)
      /\ request'[c].op = "delete" /\ request'[c].at = "write"
      /\ request'[c].codes = codes /\ request'[c].answer = request[c].answer
  <2>1. request' = [request EXCEPT ![c] = [[@ EXCEPT !.at = "write"] EXCEPT !.codes = codes]]
    BY <1>2 DEF IInv, TypesInv
  <2> DEFINE r1 == [request[c] EXCEPT !.at = "write"]
             r2 == [r1 EXCEPT !.codes = codes]
  <2>2. "write" \in Place
    BY DEF Place
  <2>3. r1 \in Request /\ r1.op = request[c].op /\ r1.at = "write" /\ r1.answer = request[c].answer
    BY <1>4, <2>2 DEF Request
  <2> HIDE DEF r1
  <2>4. /\ r2 \in Request /\ r2.op = r1.op /\ r2.at = r1.at
        /\ r2.answer = r1.answer /\ r2.codes = codes
    BY <1>5, <2>3 DEF Request
  <2> HIDE DEF r2
  <2>5. request' = [request EXCEPT ![c] = r2]
    BY <2>1 DEF r1, r2
  <2>6. request' \in [Clients -> Request] /\ request'[c] = r2 /\ OthersRest(c)
    BY <2>4, <2>5 DEF IInv, TypesInv, OthersRest
  <2>7. QED
    BY <1>3, <2>3, <2>4, <2>6
<1>7. /\ \A k \in Codes : /\ LinkKept(memory[k], memory'[k])
                          /\ memory'[k] = NoLink <=> memory[k] = NoLink
      /\ memory' \in [Codes -> Link \cup {NoLink}]
      /\ \A k \in named : memory'[k] # NoLink /\ ~memory'[k].active
  BY <1>3, <1>4, RetiredIs, RetiredIsKept DEF IInv, TypesInv
<1>8. StoresStep(c)
  <2>1. \A k \in Codes : Taken(k) <=> Taken(k)'
    BY <1>3, <1>7 DEF Taken
  <2>2. Kept
    BY <1>3, <1>7, <2>1 DEF Kept, LinkKept
  <2>3. NewCodes(c)
    BY <2>1 DEF NewCodes
  <2>4. InOneStore' /\ StoresTyped'
    BY <1>3, <1>7 DEF IInv, TypesInv, InOneStore, StoresTyped
  <2>5. QED
    BY <2>2, <2>3, <2>4 DEF StoresStep
<1>9. DeleteInv(c)'
  BY <1>5, <1>6, <1>7 DEF DeleteInv, Named
<1>10. AnswerInv(c)'
  <2>1. AnswerInv(c) /\ DOMAIN request[c].answer \subseteq Codes
    BY CodesOf DEF IInv, RequestInv
  <2>2. QED
    BY <1>6, <1>8, <2>1, KeptStands DEF AnswerInv, StoresStep
<1>11. RequestInv(c)' /\ ~Awaits(c)'
  BY <1>6, <1>9, <1>10 DEF RequestInv, ShortenInv, BatchInv, FollowInv, Idle, Awaits
<1>12. gone' \subseteq Codes /\ GoneInv'
  BY <1>3, <1>6, <1>8, GoneRests DEF known
<1>13. QED
  BY <1>3, <1>6, <1>8, <1>11, <1>12, ClientStepKeepsIInv DEF Undisturbed, known

(* The records of a delete have been written, or some of them have not. *)
LEMMA DeleteIsOver ==
    ASSUME IInv, NEW c \in Clients, request[c].at = "write", NEW lost \in SUBSET Named(c),
           AppendRecords(memory, Named(c), lost), EndsAs(c, "idle", <<>>),
           UNCHANGED <<tasks, promised>>, NEW G \in SUBSET Named(c), gone' = gone \cup G
    PROVE  IInv'
<1>1. Named(c) \subseteq Codes /\ \A k \in Named(c) : memory[k] # NoLink /\ ~memory[k].active
  BY CodesOf DEF IInv, RequestInv, DeleteInv, Named
<1>2. rows' = rows /\ memory' = memory /\ unsure' = (unsure \ Named(c)) \cup lost
  BY DEF AppendRecords
<1>3. \A k \in Codes : Taken(k) <=> Taken(k)'
  BY <1>1, <1>2 DEF Taken
<1>4. StoresTyped' /\ Kept
  BY <1>1, <1>2, <1>3 DEF StoresTyped, IInv, TypesInv, Kept, LinkKept
<1>5. StoresStep(c) /\ Undisturbed
  BY <1>2, <1>3, <1>4 DEF StoresStep, NewCodes, IInv, InOneStore, Undisturbed
<1>6. \A k \in Named(c) : Taken(k)' /\ Off(k)'
  BY <1>1, <1>2 DEF Taken, Off, IInv, InOneStore
<1>7. ASSUME NEW k \in Doubtful PROVE k \in Doubtful' \/ Off(k)'
  <2>1. CASE k \in Named(c)
    BY <1>6, <2>1
  <2>2. CASE k \in unsure /\ k \notin Named(c)
    BY <1>2, <2>2, NextDoubtfulIs
  <2>3. CASE k \notin unsure /\ k \notin Named(c)
    <3>1. PICK d \in Clients : request[d].at = "write" /\ k \in Named(d)
      BY <2>3, DoubtfulIs
    <3>2. request'[d] = request[d] /\ Named(d)' = Named(d)
      BY <2>3, <3>1 DEF EndsAs, IInv, TypesInv, Named
    <3>3. QED
      BY <3>1, <3>2, NextDoubtfulIs
  <2>4. QED
    BY <2>1, <2>2, <2>3
<1>8. GoneInv' /\ gone' \subseteq Codes
  <2>1. G \in SUBSET Codes /\ \A k \in G : Taken(k)' /\ Off(k)'
    BY <1>1, <1>6
  <2>2. QED
    BY <1>4, <1>7, <2>1, GoneIsKept DEF IInv, TypesInv
<1>9. QED
  BY <1>5, <1>8, EmptyAnswer, EndKeepsIInv

(* A delete ends, with a 202 for codes that are off or with an error. *)
LEMMA DeletedInFileKeeps ==
    ASSUME IInv, NEW c \in Clients, DeletedInFile(c) \/ DeletedInFileFails(c) PROVE IInv'
<1>1. CASE DeletedInFile(c)
  <2>1. /\ request[c].at = "write" /\ EndsAs(c, "idle", <<>>) /\ UNCHANGED <<tasks, promised>>
        /\ gone' = gone \cup Named(c)
    BY <1>1, ReplyEnds DEF DeletedInFile, At, Named
  <2>2. PICK lost \in SUBSET Named(c) : AppendRecords(memory, Named(c), lost)
    BY <1>1 DEF DeletedInFile, Written, Named
  <2>3. QED
    BY <2>1, <2>2, DeleteIsOver
<1>2. CASE DeletedInFileFails(c) /\ UNCHANGED stores /\ request[c].at # "write"
  BY <1>2, QuietReply DEF DeletedInFileFails
<1>3. CASE DeletedInFileFails(c) /\ At(c, "delete", "write") /\ WriteFails(memory, Named(c))
  <2>1. /\ request[c].at = "write" /\ EndsAs(c, "idle", <<>>) /\ UNCHANGED <<tasks, known>>
    BY <1>3, ReplyEnds DEF DeletedInFileFails, Reply, At
  <2>2. PICK lost \in SUBSET Named(c) : AppendRecords(memory, Named(c), lost)
    BY <1>3 DEF WriteFails
  <2>3. PICK G \in SUBSET Named(c) : gone' = gone \cup G
    BY <2>1 DEF known
  <2>4. QED
    BY <2>1, <2>2, <2>3, DeleteIsOver DEF known
<1>4. QED
  BY <1>1, <1>2, <1>3 DEF DeletedInFileFails, AtFile, At, Named

(* No call of the file store breaks the invariant. *)
LEMMA OnFileKeeps ==
    ASSUME IInv, NEW c \in Clients, OnFile(c) PROVE IInv'
<1>1. SaveRefused(c) \/ SaveItemRefused(c) => IInv'
  BY QuietReply DEF SaveRefused, SaveItemRefused, AtFile, At
<1>2. QED
  BY <1>1, SaveToFileKeeps, SaveItemKeeps, SaveItemsKeeps, SaveItemFailsKeeps, GetRecordKeeps,
     SwitchOffKeeps, DeletedInFileKeeps DEF OnFile

-----------------------------------------------------------------------------
(* Background updates *)

(* A step of no client: to every request it is the step of another. *)
LEMMA NobodysStepKeepsIInv ==
    ASSUME IInv, UNCHANGED <<request, memory, unsure, gone>>, StoresTyped', Kept,
           \A k \in Codes : rows'[k] = NoLink <=> rows[k] = NoLink,
           \A t \in tasks' : t.user \in Users /\ t.codes \subseteq Codes,
           promised' \subseteq Codes, PromiseInv'
    PROVE  IInv'
<1>1. PICK c : c \notin Clients
  <2>1. {x \in Clients : x \notin x} \notin Clients
    OBVIOUS
  <2>2. QED
    BY <2>1
<1>2. InOneStore'
  BY DEF IInv, InOneStore
<1>3. StoresStep(c)
  BY <1>2 DEF StoresStep, NewCodes, Taken
<1>4. \A d \in Clients : RequestInv(d)'
  BY <1>1, <1>3, RestingIsKept
<1>5. Distinct'
  BY DEF IInv, Distinct, Awaits, Named
<1>6. GoneInv'
  <2>1. \A k \in Doubtful : k \in Doubtful'
    BY DEF Doubtful
  <2>2. PICK G \in SUBSET Codes : G = {}
    OBVIOUS
  <2>3. gone' = gone \cup G /\ \A k \in G : Taken(k)' /\ Off(k)'
    BY <2>2
  <2>4. QED
    BY <2>1, <2>3, GoneIsKept
<1>7. TypesInv'
  BY DEF IInv, TypesInv, StoresTyped
<1>8. QED
  BY <1>2, <1>4, <1>5, <1>6, <1>7 DEF IInv

(* Up to every number there is a multiple of b, less than b away. *)
LEMMA LastStart ==
    ASSUME NEW n \in Nat, NEW b \in Nat \ {0}
    PROVE  \E r \in 0 .. b - 1 : r <= n /\ (n - r) % b = 0
<1>1. PICK r \in 0 .. b - 1 : r = n % b
  OBVIOUS
<1>2. PICK q \in Int : q = n \div b
  OBVIOUS
<1>3. n = b * (n \div b) + (n % b)
  OBVIOUS
<1>4. n - r = b * q
  BY <1>1, <1>2, <1>3
<1>5. (b * q) % b = 0
  OBVIOUS
<1>6. n % b <= n
  OBVIOUS
<1>7. (n - r) % b = 0
  BY <1>4, <1>5
<1>8. QED
  BY <1>1, <1>6, <1>7

(* The chunks of a list name the codes of the list, and every one of them. *)
LEMMA ChunksCover ==
    ASSUME NEW s \in Seq(Codes)
    PROVE  /\ \A S \in Chunks(s) : S \subseteq ToSet(s)
           /\ \A k \in ToSet(s) : \E S \in Chunks(s) : k \in S
<1> DEFINE Upto(i) == IF i + BatchSize - 1 > Len(s) THEN Len(s) ELSE i + BatchSize - 1
           Begins == {i \in DOMAIN s : (i - 1) % BatchSize = 0}
<1>1. /\ Chunks(s) = {ToSet(SubSeq(s, i, Upto(i))) : i \in Begins}
      /\ BatchSize \in Nat \ {0} /\ Len(s) \in Nat /\ DOMAIN s = 1 .. Len(s)
  BY ShortenerAssumption DEF Chunks
<1>2. ASSUME NEW i \in Begins
      PROVE  ToSet(SubSeq(s, i, Upto(i))) = {s[j] : j \in i .. Upto(i)}
  <2>1. i \in 1 .. Len(s) /\ Upto(i) \in i .. Len(s)
    BY <1>1
  <2>2. PICK e \in Int : e = Upto(i)
    BY <2>1
  <2> DEFINE t == SubSeq(s, i, e)
  <2>3. /\ t \in Seq(Codes) /\ Len(t) = e - i + 1
        /\ \A n \in 1 .. e - i + 1 : t[n] = s[i + n - 1]
    <3>1. i \in Int /\ \A j \in i .. e : s[j] \in Codes
      BY <2>1, <2>2
    <3>2. QED
      BY <2>1, <2>2, <3>1, SubSeqProperties
  <2> HIDE DEF t
  <2>4. DOMAIN t = 1 .. e - i + 1
    BY <2>3
  <2>5. /\ \A n \in DOMAIN t : i + n - 1 \in i .. e /\ t[n] = s[i + n - 1]
        /\ \A j \in i .. e : j - i + 1 \in DOMAIN t /\ t[j - i + 1] = s[j]
    <3>1. i \in Int
      BY <2>1
    <3>2. \A n \in DOMAIN t : i + n - 1 \in i .. e /\ t[n] = s[i + n - 1]
      <4>1. \A n \in 1 .. e - i + 1 : i + n - 1 \in i .. e
        BY <3>1
      <4>2. QED
        BY <2>3, <2>4, <4>1, Zenon
    <3>3. ASSUME NEW j \in i .. e PROVE j - i + 1 \in DOMAIN t /\ t[j - i + 1] = s[j]
      <4>1. PICK n \in 1 .. e - i + 1 : n = j - i + 1
        BY <2>2, <3>1
      <4>2. t[n] = s[i + n - 1] /\ i + n - 1 = j
        BY <2>2, <2>3, <3>1, <4>1
      <4>3. QED
        BY <2>4, <4>1, <4>2
    <3>4. QED
      BY <3>2, <3>3
  <2>6. ToSet(t) = {s[j] : j \in i .. e}
    <3>1. ASSUME NEW x \in ToSet(t) PROVE x \in {s[j] : j \in i .. e}
      BY <2>5 DEF ToSet
    <3>2. ASSUME NEW j \in i .. e PROVE s[j] \in ToSet(t)
      BY <2>5 DEF ToSet
    <3>3. QED
      BY <3>1, <3>2
  <2>7. QED
    BY <2>2, <2>6 DEF t
<1>3. \A i \in Begins : i .. Upto(i) \subseteq DOMAIN s
  BY <1>1
<1>4. \A S \in Chunks(s) : S \subseteq ToSet(s)
  BY <1>1, <1>2, <1>3 DEF ToSet
<1>5. ASSUME NEW k \in ToSet(s) PROVE \E S \in Chunks(s) : k \in S
  <2>1. PICK j \in 1 .. Len(s) : s[j] = k
    BY <1>1 DEF ToSet
  <2>2. PICK n \in Nat : n = j - 1
    BY <2>1
  <2>3. PICK r \in 0 .. BatchSize - 1 : r <= n /\ (n - r) % BatchSize = 0
    BY <1>1, LastStart
  <2>4. PICK i \in Int : i = j - r /\ i - 1 = n - r
    BY <2>2, <2>3
  <2>5. i \in Begins
    BY <1>1, <2>1, <2>2, <2>3, <2>4
  <2>6. j \in i .. Upto(i)
    BY <1>1, <2>1, <2>2, <2>3, <2>4
  <2>7. k \in ToSet(SubSeq(s, i, Upto(i)))
    BY <1>2, <2>1, <2>5, <2>6
  <2>8. QED
    BY <1>1, <2>5, <2>7
<1>6. QED
  BY <1>4, <1>5

(* A delete is promised, and each of its codes is in a chunk. *)
LEMMA DeletedInBackgroundKeeps ==
    ASSUME IInv, NEW w \in Users, NEW codes \in Lists, DeletedInBackground(w, codes) PROVE IInv'
<1>1. codes \in Seq(Codes)
  BY ShortenerAssumption DEF Lists, BoundedSeq, SeqOf
<1>2. /\ tasks' = tasks \cup {[user |-> w, codes |-> S] : S \in Chunks(codes)}
      /\ promised' = promised \cup {k \in Owned(rows, w, ToSet(codes)) : rows[k].active}
      /\ UNCHANGED <<stores, request, gone>>
  BY DEF DeletedInBackground
<1>3. ToSet(codes) \subseteq Codes
  BY <1>1 DEF ToSet
<1>4. \A t \in tasks' : t.user \in Users /\ t.codes \subseteq Codes
  BY <1>1, <1>2, <1>3, ChunksCover DEF IInv, TypesInv
<1>5. PromiseInv'
  <2>1. SUFFICES ASSUME NEW k \in promised'
                 PROVE  /\ rows[k] # NoLink /\ rows[k].active
                        /\ \E t \in tasks' : t.user = rows[k].user /\ k \in t.codes
    BY <1>2 DEF PromiseInv, stores
  <2>2. CASE k \in promised
    BY <1>2, <2>2 DEF IInv, PromiseInv
  <2>3. CASE k \notin promised
    <3>1. /\ k \in ToSet(codes) /\ rows[k] # NoLink /\ rows[k].user = w /\ rows[k].active
      BY <1>2, <2>3 DEF Owned
    <3>2. PICK S \in Chunks(codes) : k \in S
      BY <1>1, <3>1, ChunksCover
    <3>3. [user |-> w, codes |-> S] \in tasks'
      BY <1>2
    <3>4. QED
      BY <3>1, <3>2, <3>3
  <2>4. QED
    BY <2>2, <2>3
<1>6. promised' \subseteq Codes
  BY <1>2, <1>3 DEF IInv, TypesInv, Owned
<1>7. StoresTyped' /\ Kept
  BY <1>2, NothingStored DEF StoresStep
<1>8. QED
  BY <1>2, <1>4, <1>5, <1>6, <1>7, NobodysStepKeepsIInv DEF stores

(* An update takes back the promises it keeps, and those it breaks. *)
LEMMA UpdateKeeps ==
    ASSUME IInv, NEW t \in tasks, UpdateIsActive(t) \/ UpdateFails(t) PROVE IInv'
<1>1. /\ tasks' = tasks \ {t} /\ UNCHANGED <<memory, unsure, request, gone>>
      /\ promised' \subseteq promised /\ \A k \in promised' : rows'[k].active
      /\ UpdateFails(t) => promised' \cap t.codes = {}
  BY DEF UpdateIsActive, UpdateFails
<1>2. PICK S : /\ S = Owned(rows, t.user, t.codes)
               /\ rows' = rows \/ rows' = Retired(rows, S)
               /\ UpdateIsActive(t) => rows' = Retired(rows, S)
  BY DEF UpdateIsActive, UpdateFails
<1>3. S \in SUBSET Codes /\ \A k \in S : rows[k] # NoLink
  BY <1>2 DEF Owned, IInv, TypesInv
<1>4. /\ \A k \in Codes : LinkKept(rows[k], rows'[k]) /\ (rows[k] = NoLink <=> rows'[k] = NoLink)
      /\ \A k \in Codes \ S : rows'[k] = rows[k]
      /\ rows' \in [Codes -> Link \cup {NoLink}]
      /\ UpdateIsActive(t) => \A k \in S : ~rows'[k].active
  <2>1. CASE rows' = Retired(rows, S)
    BY <1>3, <2>1, RetiredIs, RetiredIsKept DEF IInv, TypesInv
  <2>2. CASE rows' = rows /\ ~UpdateIsActive(t)
    BY <2>2 DEF IInv, TypesInv, LinkKept
  <2>3. QED
    BY <1>2, <2>1, <2>2
<1>5. PromiseInv'
  <2>1. SUFFICES ASSUME NEW k \in promised'
                 PROVE  /\ rows'[k] # NoLink /\ rows'[k].active
                        /\ \E o \in tasks' : o.user = rows'[k].user /\ k \in o.codes
    BY DEF PromiseInv
  <2>2. /\ k \in Codes /\ rows[k] # NoLink
        /\ \E o \in tasks : o.user = rows[k].user /\ k \in o.codes
    BY <1>1 DEF IInv, TypesInv, PromiseInv
  <2>3. PICK o \in tasks : o.user = rows[k].user /\ k \in o.codes
    BY <2>2
  <2>4. rows'[k] # NoLink /\ rows'[k].active /\ rows'[k].user = rows[k].user
    BY <1>1, <1>4, <2>2 DEF LinkKept
  <2>5. o # t
    BY <1>1, <1>2, <1>4, <2>2, <2>3, <2>4 DEF Owned
  <2>6. QED
    BY <1>1, <2>3, <2>4, <2>5
<1>6. StoresTyped' /\ Kept
  BY <1>1, <1>4 DEF StoresTyped, IInv, TypesInv, Kept, LinkKept, Taken
<1>7. /\ promised' \subseteq Codes
      /\ \A o \in tasks' : o.user \in Users /\ o.codes \subseteq Codes
  BY <1>1 DEF IInv, TypesInv
<1>8. QED
  BY <1>1, <1>4, <1>5, <1>6, <1>7, NobodysStepKeepsIInv

-----------------------------------------------------------------------------
(* The process dies *)

(* A restart ends every request and update, and may bring back only what was doubtful. *)
LEMMA RestartKeeps ==
    ASSUME IInv, Restart PROVE IInv'
<1>1. PICK lost \in SUBSET unsure :
        \E older \in SUBSET {k \in Doubtful \ lost : memory[k] # NoLink} :
          memory' = [k \in Codes |-> IF k \in lost THEN NoLink
                                      ELSE IF k \in older THEN [memory[k] EXCEPT !.active = TRUE]
                                      ELSE memory[k]]
  BY DEF Restart
<1>2. PICK older \in SUBSET {k \in Doubtful \ lost : memory[k] # NoLink} :
          memory' = [k \in Codes |-> IF k \in lost THEN NoLink
                                      ELSE IF k \in older THEN [memory[k] EXCEPT !.active = TRUE]
                                      ELSE memory[k]]
  BY <1>1
<1>3. /\ request' = [c \in Clients |-> IF Idle(c) THEN request[c] ELSE NoRequest]
      /\ tasks' = {} /\ unsure' = Doubtful /\ promised' = {} /\ UNCHANGED <<rows, gone>>
  BY DEF Restart
<1>4. unsure \subseteq Doubtful /\ Doubtful \subseteq Codes
  <2>1. \A d \in Clients : Named(d) \subseteq Codes
    BY CodesOf DEF IInv, Named
  <2>2. unsure \subseteq Codes
    BY DEF IInv, TypesInv
  <2>3. QED
    BY <2>1, <2>2, DoubtfulIs
<1>5. ASSUME NEW k \in Codes
      PROVE  /\ memory'[k] \in Link \cup {NoLink}
             /\ memory'[k] # NoLink => memory[k] # NoLink /\ memory'[k].url = memory[k].url
             /\ k \notin Doubtful => memory'[k] = memory[k]
             /\ Taken(k) => Taken(k)'
  <2>1. CASE k \in lost
    BY <1>2, <1>3, <1>4, <2>1 DEF Taken
  <2>2. CASE k \in older
    <3>1. memory[k] \in Link /\ k \in Doubtful /\ k \notin lost
      BY <2>2 DEF IInv, TypesInv
    <3>2. memory'[k] = [memory[k] EXCEPT !.active = TRUE]
      BY <1>2, <2>2, <3>1
    <3>3. memory'[k] \in Link /\ memory'[k].url = memory[k].url
      BY <3>1, <3>2 DEF Link
    <3>4. QED
      BY <1>3, <3>1, <3>3, LinksHaveFields DEF Taken
  <2>3. CASE k \notin lost /\ k \notin older
    BY <1>2, <1>3, <1>4, <2>3 DEF Taken, IInv, TypesInv
  <2>4. QED
    BY <2>1, <2>2, <2>3
<1>6. ASSUME NEW c \in Clients
      PROVE  /\ request'[c] \in Request /\ Idle(c)' /\ request'[c].op = "none"
             /\ request'[c].answer = request[c].answer \/ request'[c].answer = <<>>
  <2>1. CASE Idle(c)
    BY <1>3, <2>1 DEF Idle, IInv, TypesInv, RequestInv
  <2>2. CASE ~Idle(c)
    <3>1. request'[c] = NoRequest
      BY <1>3, <2>2
    <3>2. NoRequest \in Request /\ NoRequest.at = "idle" /\ NoRequest.op = "none"
      BY EmptyAnswer DEF NoRequest, Request, Op, Place
    <3>3. NoRequest.answer = <<>>
      BY DEF NoRequest
    <3>4. QED
      BY <3>1, <3>2, <3>3 DEF Idle
  <2>3. QED
    BY <2>1, <2>2
<1>7. TypesInv'
  BY <1>2, <1>3, <1>4, <1>5, <1>6 DEF IInv, TypesInv
<1>8. \A c \in Clients : RequestInv(c)'
  <2>1. TAKE c \in Clients
  <2>2. AnswerInv(c)'
    <3>1. AnswerInv(c) /\ DOMAIN request[c].answer \subseteq Codes
      BY CodesOf DEF IInv, RequestInv
    <3>2. \A k \in Codes : \A u : StandsFor(k, u) => StandsFor(k, u)'
      BY <1>3, <1>5 DEF StandsFor
    <3>3. QED
      BY <1>6, <3>1, <3>2, EmptyAnswer DEF AnswerInv
  <2>3. QED
    BY <1>6, <2>2 DEF RequestInv, ShortenInv, BatchInv, FollowInv, DeleteInv, Idle
<1>9. Distinct'
  BY <1>6 DEF Distinct, Awaits
<1>10. InOneStore'
  BY <1>3, <1>5 DEF IInv, InOneStore
<1>11. GoneInv'
  <2>1. gone \subseteq Codes /\ \A k \in gone : Taken(k) /\ (k \notin Doubtful => Off(k))
    BY DEF IInv, TypesInv, GoneInv
  <2>2. \A k \in Codes : k \in Doubtful => k \in Doubtful'
    BY <1>3, NextDoubtfulIs
  <2>3. QED
    BY <1>3, <1>5, <2>1, <2>2 DEF GoneInv, Off
<1>12. PromiseInv'
  BY <1>3 DEF PromiseInv
<1>13. QED
  BY <1>7, <1>8, <1>9, <1>10, <1>11, <1>12 DEF IInv

-----------------------------------------------------------------------------
(* The specification *)

ClientStep(c) ==
    \/ Arrive(c) \/ FindDuplicateURLs(c) \/ NoDuplicateURLs(c)
    \/ OnDatabase(c) \/ OnFile(c)
    \/ LogEvent(c) \/ LogEventFails(c)

(* The invariant holds at the beginning. *)
LEMMA InitIInv == Init => IInv
<1> SUFFICES ASSUME Init PROVE IInv
  OBVIOUS
<1>1. /\ NoRequest \in Request /\ NoRequest.at = "idle" /\ NoRequest.op = "none"
      /\ NoRequest.answer = <<>>
  BY EmptyAnswer DEF NoRequest, Request, Op, Place
<1>2. \A c \in Clients : request[c] = NoRequest
  BY DEF Init
<1>3. TypesInv
  BY <1>1 DEF Init, TypesInv
<1>4. \A c \in Clients : RequestInv(c)
  BY <1>1, <1>2, EmptyAnswer
  DEF RequestInv, ShortenInv, BatchInv, FollowInv, DeleteInv, AnswerInv, Idle
<1>5. Distinct
  BY <1>1, <1>2 DEF Distinct, Awaits
<1>6. InOneStore /\ GoneInv /\ PromiseInv
  BY DEF Init, InOneStore, GoneInv, PromiseInv
<1>7. QED
  BY <1>3, <1>4, <1>5, <1>6 DEF IInv

(* No step breaks it. *)
LEMMA NextKeepsIInv ==
    ASSUME IInv, [Next]_vars PROVE IInv'
<1>1. CASE \E c \in Clients : ClientStep(c)
  BY <1>1, ArriveKeeps, FindDuplicateURLsKeeps, NoDuplicateURLsKeeps, OnDatabaseKeeps, OnFileKeeps,
     LogEventKeeps DEF ClientStep
<1>2. CASE \E w \in Users, codes \in Lists : DeletedInBackground(w, codes)
  BY <1>2, DeletedInBackgroundKeeps
<1>3. CASE \E t \in tasks : UpdateIsActive(t) \/ UpdateFails(t)
  BY <1>3, UpdateKeeps
<1>4. CASE Restart
  BY <1>4, RestartKeeps
<1>5. CASE UNCHANGED vars
  <2>1. StoresTyped' /\ Kept
    BY <1>5, NothingStored DEF StoresStep, vars
  <2>2. PromiseInv'
    BY <1>5, PromisesAreKept DEF vars, stores, known
  <2>3. /\ \A t \in tasks' : t.user \in Users /\ t.codes \subseteq Codes
        /\ promised' \subseteq Codes
    BY <1>5 DEF vars, known, IInv, TypesInv
  <2>4. QED
    BY <1>5, <2>1, <2>2, <2>3, NobodysStepKeepsIInv DEF vars, stores, known
<1>6. QED
  BY <1>1, <1>2, <1>3, <1>4, <1>5 DEF Next, ClientStep

(* The invariant is inductive. *)
THEOREM Inductive == Spec => []IInv
<1>1. IInv /\ [Next]_vars => IInv'
  BY NextKeepsIInv
<1>2. QED
  BY InitIInv, <1>1, PTL DEF Spec

(* Every state of every run has its type: a redirect that is about to read a record through its
   pointer has one, and a conflict is looked up only while the row it was with is there
   (RedirectURL, Save). *)
THEOREM TypeCorrect == Spec => []TypeOK
<1>1. ASSUME IInv PROVE TypeOK
  <2>1. \A c \in Clients : RequestOK(c)
    <3>1. TAKE c \in Clients
    <3>2. RequestInv(c) /\ TypesInv
      BY <1>1 DEF IInv
    <3>3. /\ request[c].op \in Op /\ request[c].at \in Place
          /\ request[c].user \in Users \cup {NoLink}
          /\ ToSet(request[c].urls) \subseteq URLs /\ ToSet(request[c].codes) \subseteq Codes
      BY <3>2, CodesOf DEF Request
    <3>4. /\ At(c, "shorten", "lookup") => HasURL(rows, request[c].urls[1])
          /\ At(c, "follow", "check") => memory[request[c].codes[1]] # NoLink
      BY <3>2 DEF RequestInv, ShortenInv, FollowInv, At
    <3>5. QED
      BY <3>3, <3>4 DEF RequestOK
  <2>2. QED
    BY <1>1, <2>1 DEF IInv, TypesInv, TypeOK
<1>2. QED
  BY Inductive, <1>1, PTL

(* A code that was answered stands for its URL in a store, or its last write to the file went
   wrong (Save, BatchSave and FindDuplicateURLs of storage.go). *)
THEOREM IssuedCodesAreKept == Spec => []IssuedIsKept
<1>1. ASSUME IInv PROVE IssuedIsKept
  <2>1. \A c \in Clients : AnswerInv(c)
    BY <1>1 DEF IInv, RequestInv
  <2>2. QED
    BY <2>1 DEF IssuedIsKept, AnswerInv, StandsFor, Taken
<1>2. QED
  BY Inductive, <1>1, PTL

(* No redirect that began after a client was told that the link is gone follows it
   (RedirectURL). *)
THEOREM GoneLinksStayGone == Spec => []GoneStaysGone
<1>1. ASSUME IInv PROVE GoneStaysGone
  BY <1>1 DEF IInv, RequestInv, FollowInv, GoneStaysGone, At
<1>2. QED
  BY Inductive, <1>1, PTL

(* As long as a row whose delete was accepted is active, an update of its owner that names it is
   still to come (processDeletionInBackground). *)
THEOREM DeletesAreNotForgotten == Spec => []DeleteNotForgotten
<1>1. ASSUME IInv PROVE DeleteNotForgotten
  BY <1>1 DEF IInv, PromiseInv, DeleteNotForgotten
<1>2. QED
  BY Inductive, <1>1, PTL

-----------------------------------------------------------------------------
(* Who switches links off *)

(* No step of a client changes a row, and only a delete changes a record. *)
LEMMA ClientsKeepRows ==
    ASSUME IInv, NEW c \in Clients, ClientStep(c), NEW k \in Codes, rows[k] # NoLink
    PROVE  rows'[k] = rows[k]
<1>1. CASE CreateRow(c) \/ CreateRowFails(c)
  <2>1. PICK m, u : m = request[c].codes[1] /\ u = request[c].urls[1]
    OBVIOUS
  <2>2. Awaits(c) /\ UNCHANGED <<memory, unsure>>
    BY <1>1 DEF CreateRow, CreateRowFails, At, Awaits
  <2>3. rows' = rows \/ rows' = [rows EXCEPT ![m] = NewLink(c, u)]
    BY <1>1, <2>1 DEF CreateRow, CreateRowFails
  <2>4. QED
    BY <2>1, <2>2, <2>3, RowIsAdded
<1>2. CASE CreateBatch(c) \/ CreateBatchFails(c)
  BY <1>2, BatchRowsAre DEF CreateBatch, CreateBatchFails, At
<1>3. CASE Arrive(c)
  BY <1>3 DEF Arrive, CreateShortURL, CreateBatchShortAPIURL, RedirectURL, DeleteAPIUserUrls,
              Begin, stores
<1>4. CASE FindDuplicateURLs(c) \/ NoDuplicateURLs(c) \/ LogEvent(c) \/ LogEventFails(c)
  BY <1>4 DEF FindDuplicateURLs, NoDuplicateURLs, LogEvent, LogEventFails, stores
<1>5. CASE GetByOriginalURL(c) \/ LookupFails(c) \/ GetRow(c) \/ GetRowFails(c)
  BY <1>5 DEF GetByOriginalURL, LookupFails, GetRow, GetRowFails, stores
<1>6. CASE OnFile(c)
  BY <1>6 DEF OnFile, SaveToFile, SaveRefused, SaveFails, SaveItem, SaveItems, SaveItemRefused,
              SaveItemFails, GetRecord, CheckActive, SwitchOff, DeletedInFile, DeletedInFileFails,
              Written, WriteFails, AppendRecords, stores
<1>7. QED
  BY <1>1, <1>2, <1>3, <1>4, <1>5, <1>6 DEF ClientStep, OnDatabase

(* The same of records, for the other steps. *)
LEMMA ClientsKeepRecords ==
    ASSUME IInv, NEW c \in Clients, ClientStep(c), ~SwitchOff(c),
           NEW k \in Codes, memory[k] # NoLink
    PROVE  memory'[k] = memory[k]
<1>1. CASE SaveToFile(c) \/ SaveFails(c)
  <2>1. PICK m, u : m = request[c].codes[1] /\ u = request[c].urls[1]
    OBVIOUS
  <2>2. Awaits(c)
    BY <1>1 DEF SaveToFile, SaveFails, AtFile, At, Awaits
  <2>3. memory' = [memory EXCEPT ![m] = NewLink(c, u)]
    BY <1>1, <2>1 DEF SaveToFile, SaveFails, Written, WriteFails, AppendRecords, With
  <2>4. m # k
    BY <2>1, <2>2, AwaitedIs DEF Taken
  <2>5. QED
    BY <2>3, <2>4 DEF IInv, TypesInv
<1>2. CASE SaveItem(c) \/ SaveItemFails(c)
  <2>1. PICK m \in Codes : /\ Fresh(m)
                           /\ memory' = With(c, m, Head(request[c].urls))
    BY <1>2 DEF SaveItem, SaveItemFails, Written, WriteFails, AppendRecords
  <2>2. m # k
    BY <2>1 DEF Fresh
  <2>3. QED
    BY <2>1, <2>2 DEF With, IInv, TypesInv
<1>3. CASE Arrive(c)
  BY <1>3 DEF Arrive, CreateShortURL, CreateBatchShortAPIURL, RedirectURL, DeleteAPIUserUrls,
              Begin, stores
<1>4. CASE FindDuplicateURLs(c) \/ NoDuplicateURLs(c) \/ LogEvent(c) \/ LogEventFails(c)
  BY <1>4 DEF FindDuplicateURLs, NoDuplicateURLs, LogEvent, LogEventFails, stores
<1>5. CASE OnDatabase(c)
  BY <1>5 DEF OnDatabase, CreateRow, CreateRowFails, GetByOriginalURL, LookupFails, CreateBatch,
              CreateBatchFails, GetRow, GetRowFails, stores
<1>6. CASE SaveRefused(c) \/ SaveItems(c) \/ SaveItemRefused(c) \/ GetRecord(c) \/ CheckActive(c)
  BY <1>6 DEF SaveRefused, SaveItems, SaveItemRefused, GetRecord, CheckActive, stores
<1>7. CASE DeletedInFile(c) \/ DeletedInFileFails(c)
  BY <1>7 DEF DeletedInFile, DeletedInFileFails, Written, WriteFails, AppendRecords, stores
<1>8. QED
  BY <1>1, <1>2, <1>3, <1>4, <1>5, <1>6, <1>7 DEF ClientStep, OnFile

(* A row is switched off by an update of its owner that names it ... *)
RowOfOwner(k) ==
    rows[k] # NoLink /\ rows[k].active /\ ~rows'[k].active
        => \E t \in tasks : t.user = rows[k].user /\ k \in t.codes
(* ... and a record by a delete of its owner that names it. *)
RecordOfOwner(k) ==
    memory[k] # NoLink /\ memory[k].active /\ memory'[k] # NoLink /\ ~memory'[k].active
        => \E c \in Clients : /\ At(c, "delete", "file")
                              /\ request[c].user = memory[k].user
                              /\ k \in ToSet(request[c].codes)

(* So it is in every step. *)
LEMMA StepIsOfOwner ==
    ASSUME IInv, [Next]_vars, NEW k \in Codes
    PROVE  RowOfOwner(k) /\ RecordOfOwner(k)
<1>1. CASE \E c \in Clients : ClientStep(c)
  <2>1. PICK c \in Clients : ClientStep(c)
    BY <1>1
  <2>2. RowOfOwner(k)
    BY <2>1, ClientsKeepRows DEF RowOfOwner
  <2>3. CASE ~SwitchOff(c)
    BY <2>1, <2>2, <2>3, ClientsKeepRecords DEF RecordOfOwner
  <2>4. CASE SwitchOff(c)
    <3>1. PICK named : /\ named = {m \in Owned(memory, request[c].user, ToSet(request[c].codes)) :
                                     memory[m].active}
                       /\ memory' = Retired(memory, named) /\ At(c, "delete", "file")
      BY <2>4 DEF SwitchOff, AtFile
    <3>2. k \notin named => memory'[k] = memory[k]
      BY <3>1 DEF Retired
    <3>3. k \in named => request[c].user = memory[k].user /\ k \in ToSet(request[c].codes)
      BY <3>1 DEF Owned
    <3>4. QED
      BY <2>2, <3>1, <3>2, <3>3 DEF RecordOfOwner
  <2>5. QED
    BY <2>3, <2>4
<1>2. CASE \E w \in Users, codes \in Lists : DeletedInBackground(w, codes)
  BY <1>2 DEF DeletedInBackground, stores, RowOfOwner, RecordOfOwner
<1>3. CASE \E t \in tasks : UpdateIsActive(t) \/ UpdateFails(t)
  <2>1. PICK t \in tasks : /\ rows' = rows \/ rows' = Retired(rows, Owned(rows, t.user, t.codes))
                           /\ memory' = memory
    BY <1>3 DEF UpdateIsActive, UpdateFails
  <2>2. k \notin Owned(rows, t.user, t.codes) => rows'[k] = rows[k]
    BY <2>1 DEF Retired
  <2>3. k \in Owned(rows, t.user, t.codes) => t.user = rows[k].user /\ k \in t.codes
    BY DEF Owned
  <2>4. QED
    BY <2>1, <2>2, <2>3 DEF RowOfOwner, RecordOfOwner
<1>4. CASE Restart
  <2>1. /\ rows' = rows
        /\ \/ memory'[k] = NoLink
           \/ memory'[k] = memory[k]
           \/ memory[k] # NoLink /\ memory'[k] = [memory[k] EXCEPT !.active = TRUE]
    BY <1>4 DEF Restart
  <2>2. memory[k] # NoLink => [memory[k] EXCEPT !.active = TRUE].active
    BY DEF IInv, TypesInv, Link
  <2>3. QED
    BY <2>1, <2>2 DEF RowOfOwner, RecordOfOwner
<1>5. CASE UNCHANGED vars
  BY <1>5 DEF vars, stores, RowOfOwner, RecordOfOwner
<1>6. QED
  BY <1>1, <1>2, <1>3, <1>4, <1>5 DEF Next, ClientStep

(* A link is switched off by a request of its owner that names it, and never by a restart
   (Deleted, UpdateIsActive). *)
THEOREM OnlyOwnersDelete == Spec => OwnerDeletes
<1> DEFINE Owners ==
    \A k \in Codes :
          /\ rows[k] # NoLink /\ rows[k].active /\ ~rows'[k].active
                => \E t \in tasks : t.user = rows[k].user /\ k \in t.codes
          /\ memory[k] # NoLink /\ memory[k].active /\ memory'[k] # NoLink /\ ~memory'[k].active
                => \E c \in Clients : /\ At(c, "delete", "file")
                                      /\ request[c].user = memory[k].user
                                      /\ k \in ToSet(request[c].codes)
<1>1. ASSUME IInv, [Next]_vars PROVE Owners
  BY <1>1, StepIsOfOwner DEF RowOfOwner, RecordOfOwner
<1>2. IInv /\ [Next]_vars => [Owners]_vars
  BY <1>1
<1> HIDE DEF Owners
<1>3. QED
  BY Inductive, <1>2, PTL DEF Spec, OwnerDeletes, Owners
=============================================================================

--------------------------- MODULE BoardPageProofs ---------------------------
(***************************************************************************)
(* What holds of the board page for every number of tasks, agents,         *)
(* approvals, requests and events: a task has one card, guesses go when    *)
(* the answer comes, and a card that stays wrong has a recorded cause;     *)
(* agents, approvals and pending counts are shown as they are, or are      *)
(* about to be.                                                            *)
(*                                                                         *)
(* Each invariant follows a row from its commit to the page: it is on the  *)
(* wire, or the poll has still to send it, or its stamp is shown, or a     *)
(* cause is on record.                                                     *)
(***************************************************************************)
EXTENDS BoardCards, BoardAgents, BoardApprovals, OrderLemmas

-----------------------------------------------------------------------------
(***************************************************************************)
(* The cards.                                                              *)
(***************************************************************************)
\* Two cards of task t.
Doubled(shown, t) ==
    \E i, j \in DOMAIN shown : i # j /\ shown[i].t = t /\ shown[j].t = t

\* The tasks with two cards were created twice.
Single(shown) == \A t \in CardTask : Doubled(shown, t) => "twice" \in staleCause[t]

\* Each card carries the stamp of a commit of its task.
Stamped(shown) == \A c \in ToSet(shown) :
    \E i \in DOMAIN taskLog : taskLog[i].t = c.t /\ taskLog[i].at = c.at

\* Every commit has a stamp of its own, given before it.
StampsApart ==
    /\ \A i, j \in DOMAIN taskLog : taskLog[i].at = taskLog[j].at => i = j
    /\ \A i \in DOMAIN taskLog : taskLog[i].at <= clock /\ taskRow[taskLog[i].t].st # "unborn"
    /\ \A w \in slowWrites : /\ w.at <= clock /\ taskRow[w.t].st # "unborn"
                             /\ \A i \in DOMAIN taskLog : taskLog[i].at # w.at
    /\ \A v, w \in slowWrites : v.at = w.at => v = w

\* The row of a task is what the last of its commits wrote.
RowIsLast ==
    \A t \in CardTask : LiveTask(t) =>
        \E i \in DOMAIN taskLog : /\ taskLog[i] = CardNow(t)
                                  /\ \A k \in DOMAIN taskLog : taskLog[k].t = t => k <= i

DeletedHasCause == \A t \in CardTask : taskRow[t].st = "deleted" => staleCause[t] # {}

\* Nothing is shown, asked for or streamed before the snapshot is set.
SnapshotFirst ==
    /\ cardLoad.phase # "done" => tasks = <<>> /\ cardReqs = {} /\ ~taskConn.up
    /\ \A c \in ToSet(cardLoad.cards) : IsCommitted(c)

CardLists ==
    /\ Single(tasks) /\ Stamped(tasks)
    /\ Single(cardLoad.cards)
    /\ \A r \in cardReqs : Single(r.before) /\ Stamped(r.before)

\* The server did what request r asks for, and the page will know.
Served(r) == r.phase = "answered" /\ r.ok

AnswersAreCommits ==
    \A r \in cardReqs : Served(r) =>
        IF r.kind = "delete" THEN taskRow[r.t].st = "deleted" ELSE IsCommitted(CardOf(r.t, r))

\* The stream carries commits, and nothing older behind the row of now.
WireOfCommits ==
    taskConn.up =>
        /\ taskConn.since <= clock + 1
        /\ \A n \in taskConn.seen : \E i \in DOMAIN taskLog : taskLog[i].at = n
        /\ \A c \in ToSet(taskConn.wire) : IsCommitted(c)
        /\ \A i, j \in DOMAIN taskConn.wire :
              i < j /\ taskConn.wire[i].t = taskConn.wire[j].t
                    /\ taskConn.wire[i] = CardNow(taskConn.wire[i].t)
                => taskConn.wire[j] = taskConn.wire[i]

\* The row of t is on the wire or will be.
Coming(t) == CardNow(t) \in ToSet(taskConn.wire) \/ \E i \in FreshEvents : taskLog[i].t = t

\* No answer brings the row of t.
NotAnswered(t) ==
    \A r \in cardReqs : Served(r) /\ r.kind # "delete" /\ r.t = t => r.at # taskRow[t].at

\* Behind an older row of t on the wire comes the row of now, unless that was committed behind
\* the cursor.
OlderIsFollowed ==
    taskConn.up => \A t \in CardTask : LiveTask(t) =>
        \/ Coming(t)
        \/ CardsOf(taskConn.wire, t) = {}
        \/ "slow" \in staleCause[t] /\ NotAnswered(t)

\* The stamps that the cards of t show.
StampsOf(shown, t) == {c.at : c \in CardsOf(shown, t)}

\* A row that does not come any more is shown, with its own status or a guess.
ShownOrComing ==
    taskConn.up => \A t \in CardTask : LiveTask(t) /\ staleCause[t] = {} =>
        Coming(t) \/ StampsOf(tasks, t) = {taskRow[t].at}

ServerInv == StampsApart /\ RowIsLast /\ DeletedHasCause
StreamInv == WireOfCommits /\ OlderIsFollowed /\ ShownOrComing
CardsInv == /\ CardsTypeOK /\ ServerInv /\ SnapshotFirst /\ CardLists /\ AnswersAreCommits
            /\ StreamInv /\ GuessesAwaitAnswer
-----------------------------------------------------------------------------
LEMMA CardTypes ==
  ASSUME CardsTypeOK
  PROVE  /\ \A t \in CardTask : /\ taskRow[t].st \in CardStatus \cup {"unborn", "deleted"}
                                /\ taskRow[t].at \in Nat
         /\ taskLog \in Seq(CardType) /\ Len(taskLog) \in Nat
         /\ DOMAIN taskLog = 1..Len(taskLog)
         /\ \A i \in DOMAIN taskLog :
               /\ taskLog[i].t \in CardTask /\ taskLog[i].st \in CardStatus
               /\ taskLog[i].at \in Nat \ {0}
               /\ taskLog[i] = [t |-> taskLog[i].t, st |-> taskLog[i].st, at |-> taskLog[i].at]
         /\ clock \in Nat
         /\ \A w \in slowWrites : w.t \in CardTask /\ w.st \in CardStatus /\ w.at \in Nat \ {0}
         /\ cardLoad.cards \in Seq(CardType)
         /\ tasks \in Seq(CardType)
         /\ taskConn.up \in BOOLEAN /\ taskConn.since \in Nat
         /\ taskConn.seen \in SUBSET Nat /\ taskConn.wire \in Seq(CardType)
         /\ \A r \in cardReqs :
               /\ r.t \in CardTask /\ r.st \in CardStatus /\ r.at \in Nat
               /\ r.before \in Seq(CardType)
         /\ \A t \in CardTask : staleCause[t] \in SUBSET CardCause
<1>1. taskRow \in [CardTask -> [st : CardStatus \cup {"unborn", "deleted"}, at : Nat]]
  BY DEF CardsTypeOK
<1>2. taskLog \in Seq(CardType)
  BY DEF CardsTypeOK
<1>3. \A c \in CardType : /\ c.t \in CardTask /\ c.st \in CardStatus /\ c.at \in Nat \ {0}
                          /\ c = [t |-> c.t, st |-> c.st, at |-> c.at]
  BY DEF CardType
<1>4. DOMAIN taskLog = 1..Len(taskLog) /\ \A i \in DOMAIN taskLog : taskLog[i] \in CardType
  BY <1>2
<1>5. \A w \in slowWrites : w \in CardType
  BY DEF CardsTypeOK
<1>6. taskConn \in [up : BOOLEAN, since : Nat, seen : SUBSET Nat, wire : Seq(CardType)]
  BY DEF CardsTypeOK
<1>7. cardReqs \subseteq CardReqType
  BY DEF CardsTypeOK
<1>8. /\ cardLoad \in [phase : {"sent", "read", "done", "failed"}, cards : Seq(CardType)]
      /\ tasks \in Seq(CardType) /\ clock \in Nat /\ staleCause \in [CardTask -> SUBSET CardCause]
  BY DEF CardsTypeOK
<1>9. Len(taskLog) \in Nat
  BY <1>2
<1>10. \A w \in slowWrites : w.t \in CardTask /\ w.st \in CardStatus /\ w.at \in Nat \ {0}
  BY <1>3, <1>5
<1>11. \A r \in cardReqs : /\ r.t \in CardTask /\ r.st \in CardStatus /\ r.at \in Nat
                           /\ r.before \in Seq(CardType)
  BY <1>7 DEF CardReqType
<1>12. \A i \in DOMAIN taskLog :
               /\ taskLog[i].t \in CardTask /\ taskLog[i].st \in CardStatus
               /\ taskLog[i].at \in Nat \ {0}
               /\ taskLog[i] = [t |-> taskLog[i].t, st |-> taskLog[i].st, at |-> taskLog[i].at]
  BY <1>3, <1>4
<1>13. \A t \in CardTask : /\ taskRow[t].st \in CardStatus \cup {"unborn", "deleted"}
                           /\ taskRow[t].at \in Nat
  BY <1>1
<1>14. /\ taskConn.up \in BOOLEAN /\ taskConn.since \in Nat
       /\ taskConn.seen \in SUBSET Nat /\ taskConn.wire \in Seq(CardType)
  BY <1>6
<1>15. cardLoad.cards \in Seq(CardType) /\ \A t \in CardTask : staleCause[t] \in SUBSET CardCause
  BY <1>8
<1> QED BY <1>2, <1>4, <1>8, <1>9, <1>10, <1>11, <1>12, <1>13, <1>14, <1>15
-----------------------------------------------------------------------------
\* The lists of cards.
LEMMA CardsIn ==
  ASSUME NEW q \in Seq(CardType)
  PROVE  /\ DOMAIN q = 1..Len(q) /\ Len(q) \in Nat
         /\ \A i \in DOMAIN q : q[i] \in CardType /\ q[i].t \in CardTask /\ q[i].st \in CardStatus
                                /\ q[i].at \in Nat \ {0}
         /\ ToSet(q) = {q[i] : i \in DOMAIN q}
         /\ ToSet(q) \subseteq CardType
         /\ \A t : CardsOf(q, t) = {c \in ToSet(q) : c.t = t}
<1>1. DOMAIN q = 1..Len(q) /\ Len(q) \in Nat /\ \A i \in DOMAIN q : q[i] \in CardType
  OBVIOUS
<1>2. ToSet(q) = {q[i] : i \in DOMAIN q}
  BY DEF ToSet
<1>3. \A c \in CardType : c.t \in CardTask /\ c.st \in CardStatus /\ c.at \in Nat \ {0}
  BY DEF CardType
<1> QED BY <1>1, <1>2, <1>3 DEF CardsOf

\* The first card of a task is found if there is one.
LEMMA FirstCard ==
  ASSUME NEW shown \in Seq(CardType), NEW t \in CardTask
  PROVE  LET i == SelectInSeq(shown, LAMBDA d : d.t = t)
         IN /\ CardsOf(shown, t) # {} => i \in DOMAIN shown /\ shown[i].t = t
            /\ i \in DOMAIN shown => shown[i].t = t
<1> DEFINE I == {i \in 1..Len(shown) : shown[i].t = t}
           i == SelectInSeq(shown, LAMBDA d : d.t = t)
<1>1. DOMAIN shown = 1..Len(shown) /\ Len(shown) \in Nat /\ ToSet(shown) = {shown[k] : k \in DOMAIN shown}
  BY CardsIn
<1>2. i = IF I # {} THEN Min(I) ELSE 0
  BY DEF SelectInSeq
<1>3. CASE I = {}
  <2>1. i = 0 /\ i \notin DOMAIN shown
    BY <1>1, <1>2, <1>3
  <2>2. CardsOf(shown, t) = {}
    BY <1>1, <1>3 DEF CardsOf
  <2> QED BY <2>1, <2>2
<1>4. CASE I # {}
  <2>1. I \in SUBSET Nat
    BY <1>1
  <2>2. PICK n \in I : \A m \in I : n <= m
    BY <2>1, <1>4, LeastNat
  <2>3. Min(I) \in I
    <3> HIDE DEF I
    <3> QED BY <2>2 DEF Min
  <2>4. i \in I
    BY <1>2, <1>4, <2>3
  <2> HIDE DEF i
  <2>5. i \in DOMAIN shown /\ shown[i].t = t
    BY <1>1, <2>4
  <2> QED BY <2>5 DEF i
<1> QED BY <1>3, <1>4

LEMMA InFront ==
  ASSUME NEW shown \in Seq(CardType), NEW c \in CardType
  PROVE  /\ <<c>> \o shown \in Seq(CardType)
         /\ ToSet(<<c>> \o shown) = ToSet(shown) \cup {c}
         /\ \A t \in CardTask : CardsOf(<<c>> \o shown, t) =
                                  IF t = c.t THEN CardsOf(shown, t) \cup {c} ELSE CardsOf(shown, t)
         /\ \A t \in CardTask : Doubled(<<c>> \o shown, t) =>
                                  Doubled(shown, t) \/ (t = c.t /\ CardsOf(shown, t) # {})
<1> DEFINE q == <<c>> \o shown
<1>1. DOMAIN shown = 1..Len(shown) /\ Len(shown) \in Nat /\ ToSet(shown) = {shown[k] : k \in DOMAIN shown}
  BY CardsIn
<1>2. q \in Seq(CardType) /\ Len(q) = Len(shown) + 1 /\ DOMAIN q = 1..(Len(shown) + 1)
  OBVIOUS
<1>3. q[1] = c /\ \A i \in 2..(Len(shown) + 1) : q[i] = shown[i - 1]
  OBVIOUS
<1>4. ToSet(q) = {q[k] : k \in DOMAIN q}
  BY DEF ToSet
<1> HIDE DEF q
<1>5. ASSUME NEW i \in DOMAIN shown PROVE i + 1 \in DOMAIN q /\ q[i + 1] = shown[i]
  <2>1. i + 1 \in 2..(Len(shown) + 1) /\ i + 1 \in DOMAIN q /\ (i + 1) - 1 = i
    BY <1>1, <1>2
  <2> QED BY <1>3, <2>1
<1>6. \A i \in DOMAIN q : i = 1 \/ (i - 1 \in DOMAIN shown /\ q[i] = shown[i - 1])
  BY <1>1, <1>2, <1>3
<1>7. ToSet(q) = ToSet(shown) \cup {c}
  <2>1. ASSUME NEW d \in ToSet(shown) PROVE d \in ToSet(q)
    BY <1>1, <1>4, <1>5
  <2>2. c \in ToSet(q)
    BY <1>1, <1>2, <1>3, <1>4
  <2>3. ASSUME NEW d \in ToSet(q) PROVE d \in ToSet(shown) \cup {c}
    BY <1>1, <1>3, <1>4, <1>6
  <2> QED BY <2>1, <2>2, <2>3
<1>8. ASSUME NEW t \in CardTask, Doubled(q, t), ~(t = c.t /\ CardsOf(shown, t) # {})
      PROVE  Doubled(shown, t)
  <2>1. PICK i, j \in DOMAIN q : i # j /\ q[i].t = t /\ q[j].t = t
    BY <1>8 DEF Doubled
  <2>2. ASSUME NEW k \in DOMAIN shown, shown[k].t = t PROVE CardsOf(shown, t) # {}
    BY <1>1, <2>2 DEF CardsOf
  <2>3. i # 1 /\ j # 1
    BY <1>3, <1>6, <1>8, <2>1, <2>2
  <2>4. i - 1 \in DOMAIN shown /\ j - 1 \in DOMAIN shown /\ i - 1 # j - 1
    BY <1>1, <1>2, <1>6, <2>1, <2>3
  <2> QED BY <1>6, <2>1, <2>3, <2>4 DEF Doubled
<1>9. ASSUME NEW t \in CardTask
      PROVE  CardsOf(q, t) = IF t = c.t THEN CardsOf(shown, t) \cup {c} ELSE CardsOf(shown, t)
  BY <1>7 DEF CardsOf
<1>10. q \in Seq(CardType)
  BY <1>2
<1> QED BY <1>7, <1>8, <1>9, <1>10 DEF q

\* A card that was found is replaced in place.
LEMMA InPlace ==
  ASSUME NEW shown \in Seq(CardType), NEW c \in CardType, NEW n \in DOMAIN shown,
         shown[n].t = c.t
  PROVE  LET q == [shown EXCEPT ![n] = c]
         IN /\ q \in Seq(CardType)
            /\ ToSet(q) \subseteq ToSet(shown) \cup {c} /\ c \in ToSet(q)
            /\ \A t \in CardTask : t # c.t => CardsOf(q, t) = CardsOf(shown, t)
            /\ ~Doubled(shown, c.t) => CardsOf(q, c.t) = {c}
            /\ \A t \in CardTask : Doubled(q, t) => Doubled(shown, t)
<1> DEFINE q == [shown EXCEPT ![n] = c]
<1>1. /\ DOMAIN shown = 1..Len(shown) /\ Len(shown) \in Nat
      /\ ToSet(shown) = {shown[k] : k \in DOMAIN shown}
      /\ \A t : CardsOf(shown, t) = {d \in ToSet(shown) : d.t = t}
  BY CardsIn
<1>2. q \in Seq(CardType)
  OBVIOUS
<1>3. DOMAIN q = DOMAIN shown /\ \A i \in DOMAIN shown : q[i] = IF i = n THEN c ELSE shown[i]
  OBVIOUS
<1> HIDE DEF q
<1>4. ToSet(q) = {q[k] : k \in DOMAIN q} /\ \A t : CardsOf(q, t) = {d \in ToSet(q) : d.t = t}
  BY <1>2, CardsIn
<1>5. ToSet(q) \subseteq ToSet(shown) \cup {c} /\ c \in ToSet(q)
  BY <1>1, <1>3, <1>4
<1>6. \A i \in DOMAIN shown : q[i].t = shown[i].t
  BY <1>3
<1>7. \A t \in CardTask : Doubled(q, t) => Doubled(shown, t)
  BY <1>3, <1>6 DEF Doubled
<1>8. ASSUME NEW t \in CardTask, t # c.t PROVE CardsOf(q, t) = CardsOf(shown, t)
  <2>1. ASSUME NEW d \in CardsOf(shown, t) PROVE d \in CardsOf(q, t)
    <3>1. PICK i \in DOMAIN shown : shown[i] = d /\ d.t = t
      BY <1>1, <2>1
    <3>2. i # n
      BY <1>8, <3>1
    <3> QED BY <1>3, <1>4, <3>1, <3>2
  <2>2. ASSUME NEW d \in CardsOf(q, t) PROVE d \in CardsOf(shown, t)
    BY <1>1, <1>4, <1>5, <1>8, <2>2
  <2> QED BY <2>1, <2>2
<1>9. ASSUME ~Doubled(shown, c.t) PROVE CardsOf(q, c.t) = {c}
  <2>1. ASSUME NEW d \in CardsOf(q, c.t) PROVE d = c
    <3>1. PICK i \in DOMAIN shown : q[i] = d /\ d.t = c.t
      BY <1>3, <1>4, <2>1
    <3>2. i = n
      BY <1>6, <1>9, <3>1 DEF Doubled
    <3> QED BY <1>3, <3>1, <3>2
  <2> QED BY <1>4, <1>5, <2>1
<1> QED BY <1>2, <1>5, <1>7, <1>8, <1>9 DEF q

\* What a row of the stream does to the cards.
LEMMA MergedIs ==
  ASSUME NEW shown \in Seq(CardType), NEW c \in CardType
  PROVE  /\ MergedCards(shown, c) \in Seq(CardType)
         /\ ToSet(MergedCards(shown, c)) \subseteq ToSet(shown) \cup {c}
         /\ \A t \in CardTask : t # c.t => CardsOf(MergedCards(shown, c), t) = CardsOf(shown, t)
         /\ ~Doubled(shown, c.t) => CardsOf(MergedCards(shown, c), c.t) = {c}
         /\ \A t \in CardTask : Doubled(MergedCards(shown, c), t) => Doubled(shown, t)
<1>0. c.t \in CardTask
  BY DEF CardType
<1>1. CASE CardsOf(shown, c.t) = {}
  <2>1. MergedCards(shown, c) = <<c>> \o shown
    BY <1>1 DEF MergedCards
  <2> DEFINE q == <<c>> \o shown
  <2>2. /\ q \in Seq(CardType) /\ ToSet(q) \subseteq ToSet(shown) \cup {c}
        /\ \A t \in CardTask : Doubled(q, t) => Doubled(shown, t)
    BY <1>1, InFront
  <2>3. \A t \in CardTask : t # c.t => CardsOf(q, t) = CardsOf(shown, t)
    BY InFront
  <2>4. CardsOf(q, c.t) = {c}
    BY <1>0, <1>1, InFront
  <2> HIDE DEF q
  <2> QED BY <2>1, <2>2, <2>3, <2>4 DEF q
<1>2. CASE CardsOf(shown, c.t) # {}
  <2> DEFINE n == SelectInSeq(shown, LAMBDA d : d.t = c.t)
  <2>1. n \in DOMAIN shown /\ shown[n].t = c.t
    BY <1>0, <1>2, FirstCard
  <2>2. MergedCards(shown, c) = [shown EXCEPT ![n] = c]
    BY <1>2 DEF MergedCards, ReplaceAt
  <2> HIDE DEF n
  <2> DEFINE q == [shown EXCEPT ![n] = c]
  <2>3. /\ q \in Seq(CardType) /\ ToSet(q) \subseteq ToSet(shown) \cup {c}
        /\ \A t \in CardTask : t # c.t => CardsOf(q, t) = CardsOf(shown, t)
        /\ ~Doubled(shown, c.t) => CardsOf(q, c.t) = {c}
        /\ \A t \in CardTask : Doubled(q, t) => Doubled(shown, t)
    BY <2>1, InPlace
  <2>4. MergedCards(shown, c) = q
    BY <2>2
  <2> HIDE DEF q
  <2> QED BY <2>3, <2>4
<1> QED BY <1>1, <1>2

\* What an answer does to them.
LEMMA ReplacedIs ==
  ASSUME NEW shown \in Seq(CardType), NEW c \in CardType
  PROVE  /\ ReplacedCards(shown, c) \in Seq(CardType)
         /\ ToSet(ReplacedCards(shown, c)) \subseteq ToSet(shown) \cup {c}
         /\ \A t \in CardTask : t # c.t => CardsOf(ReplacedCards(shown, c), t) = CardsOf(shown, t)
         /\ CardsOf(shown, c.t) = {} => /\ CardsOf(ReplacedCards(shown, c), c.t) = {}
                                        /\ c \notin ToSet(ReplacedCards(shown, c))
         /\ CardsOf(shown, c.t) # {} => CardsOf(ReplacedCards(shown, c), c.t) = {c}
         /\ \A t \in CardTask : Doubled(ReplacedCards(shown, c), t) => Doubled(shown, t)
<1> DEFINE q == ReplacedCards(shown, c)
<1>1. /\ DOMAIN shown = 1..Len(shown) /\ Len(shown) \in Nat
      /\ ToSet(shown) = {shown[k] : k \in DOMAIN shown}
      /\ \A t : CardsOf(shown, t) = {d \in ToSet(shown) : d.t = t}
      /\ \A i \in DOMAIN shown : shown[i] \in CardType
  BY CardsIn
<1>2. /\ DOMAIN q = DOMAIN shown
      /\ \A i \in DOMAIN shown : q[i] = IF shown[i].t = c.t THEN c ELSE shown[i]
  BY DEF ReplacedCards
<1>3. q \in Seq(CardType)
  <2>1. q \in [1..Len(shown) -> CardType]
    BY <1>1 DEF ReplacedCards
  <2> QED BY <1>1, <2>1
<1> HIDE DEF q
<1>4. ToSet(q) = {q[k] : k \in DOMAIN q} /\ \A t : CardsOf(q, t) = {d \in ToSet(q) : d.t = t}
  BY <1>3, CardsIn
<1>5. ToSet(q) \subseteq ToSet(shown) \cup {c}
  BY <1>1, <1>2, <1>4
<1>6. \A i \in DOMAIN shown : q[i].t = shown[i].t
  BY <1>2
<1>7. \A t \in CardTask : Doubled(q, t) => Doubled(shown, t)
  BY <1>2, <1>6 DEF Doubled
<1>8. ASSUME NEW t \in CardTask, t # c.t PROVE CardsOf(q, t) = CardsOf(shown, t)
  <2>1. ASSUME NEW d \in CardsOf(shown, t) PROVE d \in CardsOf(q, t)
    BY <1>1, <1>2, <1>4, <1>8, <2>1
  <2>2. ASSUME NEW d \in CardsOf(q, t) PROVE d \in CardsOf(shown, t)
    BY <1>1, <1>4, <1>5, <1>8, <2>2
  <2> QED BY <2>1, <2>2
<1>9. \A d \in CardsOf(q, c.t) : d = c /\ CardsOf(shown, c.t) # {}
  <2> SUFFICES ASSUME NEW d \in CardsOf(q, c.t) PROVE d = c /\ CardsOf(shown, c.t) # {}
    OBVIOUS
  <2>1. PICK i \in DOMAIN shown : q[i] = d /\ d.t = c.t
    BY <1>2, <1>4
  <2>2. shown[i].t = c.t
    BY <1>6, <2>1
  <2> QED BY <1>1, <1>2, <2>1, <2>2
<1>10. ASSUME CardsOf(shown, c.t) # {} PROVE c \in CardsOf(q, c.t)
  <2>1. PICK i \in DOMAIN shown : shown[i].t = c.t
    BY <1>1, <1>10
  <2> QED BY <1>2, <1>4, <2>1
<1>11. c \in ToSet(q) => c \in CardsOf(q, c.t)
  BY <1>4
<1> QED BY <1>3, <1>5, <1>7, <1>8, <1>9, <1>10, <1>11 DEF q

\* What the guess of a move does to them.
Moved(shown, t, st) ==
    [i \in DOMAIN shown |-> IF shown[i].t = t THEN [shown[i] EXCEPT !.st = st] ELSE shown[i]]

LEMMA MovedIs ==
  ASSUME NEW shown \in Seq(CardType), NEW t \in CardTask, NEW st \in CardStatus
  PROVE  /\ Moved(shown, t, st) \in Seq(CardType)
         /\ \A c \in ToSet(Moved(shown, t, st)) :
               \/ c \in ToSet(shown)
               \/ c.t = t /\ \E d \in ToSet(shown) : d.t = t
         /\ \A u \in CardTask : StampsOf(Moved(shown, t, st), u) = StampsOf(shown, u)
         /\ \A u \in CardTask : Doubled(Moved(shown, t, st), u) => Doubled(shown, u)
<1> DEFINE q == Moved(shown, t, st)
<1>1. /\ DOMAIN shown = 1..Len(shown) /\ Len(shown) \in Nat
      /\ ToSet(shown) = {shown[k] : k \in DOMAIN shown}
      /\ \A u : CardsOf(shown, u) = {d \in ToSet(shown) : d.t = u}
      /\ \A i \in DOMAIN shown : shown[i] \in CardType
  BY CardsIn
<1>2. /\ DOMAIN q = DOMAIN shown
      /\ \A i \in DOMAIN shown :
            q[i] = IF shown[i].t = t THEN [shown[i] EXCEPT !.st = st] ELSE shown[i]
  BY DEF Moved
<1>3. \A c \in CardType : /\ [c EXCEPT !.st = st] \in CardType
                          /\ [c EXCEPT !.st = st].t = c.t /\ [c EXCEPT !.st = st].at = c.at
  BY DEF CardType
<1> HIDE DEF q
<1>4. \A i \in DOMAIN shown : q[i] \in CardType /\ q[i].t = shown[i].t /\ q[i].at = shown[i].at
  BY <1>1, <1>2, <1>3
<1>5. q \in Seq(CardType)
  <2>1. q = [i \in 1..Len(shown) |-> q[i]]
    BY <1>1 DEF q, Moved
  <2>2. q \in [1..Len(shown) -> CardType]
    BY <1>1, <1>4, <2>1
  <2> QED BY <1>1, <2>2
<1>6. ToSet(q) = {q[k] : k \in DOMAIN q} /\ \A u : CardsOf(q, u) = {d \in ToSet(q) : d.t = u}
  BY <1>5, CardsIn
<1>7. ASSUME NEW c \in ToSet(q)
      PROVE  c \in ToSet(shown) \/ (c.t = t /\ \E d \in ToSet(shown) : d.t = t)
  <2>1. PICK i \in DOMAIN shown : q[i] = c
    BY <1>2, <1>6
  <2>2. CASE shown[i].t = t
    BY <1>1, <1>4, <2>1, <2>2
  <2>3. CASE shown[i].t # t
    BY <1>1, <1>2, <2>1, <2>3
  <2> QED BY <2>2, <2>3
<1>8. \A u \in CardTask : Doubled(q, u) => Doubled(shown, u)
  BY <1>2, <1>4 DEF Doubled
<1>9. ASSUME NEW u \in CardTask PROVE StampsOf(q, u) = StampsOf(shown, u)
  <2>1. StampsOf(q, u) = {q[i].at : i \in {k \in DOMAIN shown : q[k].t = u}}
    BY <1>2, <1>6 DEF StampsOf
  <2>2. StampsOf(shown, u) = {shown[i].at : i \in {k \in DOMAIN shown : shown[k].t = u}}
    BY <1>1 DEF StampsOf
  <2> QED BY <1>4, <2>1, <2>2
<1> QED BY <1>5, <1>7, <1>8, <1>9 DEF q

\* What is left of them when the cards of a task are taken out.
LEMMA WithoutIs ==
  ASSUME NEW shown \in Seq(CardType), NEW t \in CardTask
  PROVE  LET kept == Ascending({i \in DOMAIN shown : shown[i].t # t})
             q == [k \in DOMAIN kept |-> shown[kept[k]]]
         IN /\ q \in Seq(CardType)
            /\ ToSet(q) \subseteq ToSet(shown)
            /\ \A u \in CardTask : u # t => CardsOf(q, u) = CardsOf(shown, u)
            /\ \A u \in CardTask : Doubled(q, u) => Doubled(shown, u)
<1> DEFINE I == {i \in DOMAIN shown : shown[i].t # t}
           kept == Ascending(I)
           q == [k \in DOMAIN kept |-> shown[kept[k]]]
<1>1. /\ DOMAIN shown = 1..Len(shown) /\ Len(shown) \in Nat
      /\ ToSet(shown) = {shown[k] : k \in DOMAIN shown}
      /\ \A u : CardsOf(shown, u) = {d \in ToSet(shown) : d.t = u}
      /\ \A i \in DOMAIN shown : shown[i] \in CardType
  BY CardsIn
<1>2. I \in SUBSET (1..Len(shown))
  BY <1>1
<1>3. /\ kept \in Seq(I) /\ ToSet(kept) = I
      /\ \A i, j \in DOMAIN kept : i < j => kept[i] < kept[j]
  <2> HIDE DEF I
  <2> QED BY <1>1, <1>2, AscendingIs
<1> HIDE DEF kept
<1>4. /\ DOMAIN kept = 1..Len(kept) /\ Len(kept) \in Nat /\ \A i \in DOMAIN kept : kept[i] \in I
      /\ ToSet(kept) = {kept[i] : i \in DOMAIN kept}
  BY <1>3 DEF ToSet
<1>5. DOMAIN q = DOMAIN kept /\ \A i \in DOMAIN kept : q[i] = shown[kept[i]]
  OBVIOUS
<1>6. q \in Seq(CardType)
  <2>1. q \in [1..Len(kept) -> CardType]
    BY <1>1, <1>4
  <2> QED BY <1>4, <2>1
<1> HIDE DEF q
<1>7. ToSet(q) = {q[k] : k \in DOMAIN q} /\ \A u : CardsOf(q, u) = {d \in ToSet(q) : d.t = u}
  BY <1>6, CardsIn
<1>8. ToSet(q) \subseteq ToSet(shown)
  BY <1>1, <1>4, <1>5, <1>7
<1>9. ASSUME NEW u \in CardTask, u # t PROVE CardsOf(q, u) = CardsOf(shown, u)
  <2>1. ASSUME NEW d \in CardsOf(shown, u) PROVE d \in CardsOf(q, u)
    <3>1. PICK i \in DOMAIN shown : shown[i] = d /\ d.t = u
      BY <1>1, <2>1
    <3>2. i \in I
      BY <1>9, <3>1
    <3>3. PICK k \in DOMAIN kept : kept[k] = i
      BY <1>3, <1>4, <3>2
    <3> QED BY <1>5, <1>7, <3>1, <3>3
  <2>2. ASSUME NEW d \in CardsOf(q, u) PROVE d \in CardsOf(shown, u)
    BY <1>1, <1>7, <1>8, <2>2
  <2> QED BY <2>1, <2>2
<1>10. ASSUME NEW u \in CardTask, Doubled(q, u) PROVE Doubled(shown, u)
  <2>1. PICK i, j \in DOMAIN kept : i # j /\ q[i].t = u /\ q[j].t = u
    BY <1>5, <1>10 DEF Doubled
  <2>2. i < j \/ j < i
    BY <1>4, <2>1
  <2>3. kept[i] \in DOMAIN shown /\ kept[j] \in DOMAIN shown
    BY <1>4
  <2>4. kept[i] # kept[j]
    <3>1. kept[i] < kept[j] \/ kept[j] < kept[i]
      BY <1>3, <2>2
    <3>2. kept[i] \in Nat /\ kept[j] \in Nat
      BY <1>1, <2>3
    <3> QED BY <3>1, <3>2
  <2> QED BY <1>5, <2>1, <2>3, <2>4 DEF Doubled
<1> QED BY <1>6, <1>8, <1>9, <1>10 DEF q, kept
-----------------------------------------------------------------------------
\* A committed write of task t.
LEMMA CommitIs ==
  ASSUME CardsTypeOK, StampsApart, RowIsLast,
         NEW t \in CardTask, NEW st \in CardStatus, NEW at \in Nat \ {0}, WriteTask(t, st, at)
  PROVE  /\ taskRow' \in [CardTask -> [st : CardStatus \cup {"unborn", "deleted"}, at : Nat]]
         /\ taskLog' \in Seq(CardType)
         /\ taskRow'[t].st = st /\ taskRow'[t].at = at
         /\ \A u \in CardTask : u # t => taskRow'[u] = taskRow[u]
         /\ \A i \in DOMAIN taskLog : i \in DOMAIN taskLog' /\ taskLog'[i] = taskLog[i]
         /\ \E n \in DOMAIN taskLog' :
               /\ n \notin DOMAIN taskLog
               /\ taskLog'[n].t = t /\ taskLog'[n].st = st /\ taskLog'[n].at = at
               /\ \A i \in DOMAIN taskLog' : i = n \/ (i \in DOMAIN taskLog /\ i <= n)
         /\ RowIsLast'
<1> DEFINE row == [st |-> st, at |-> at]
           event == [t |-> t, st |-> st, at |-> at]
           n == Len(taskLog) + 1
<1>1. taskRow' = [taskRow EXCEPT ![t] = row] /\ taskLog' = Append(taskLog, event)
  BY DEF WriteTask
<1>2. taskRow \in [CardTask -> [st : CardStatus \cup {"unborn", "deleted"}, at : Nat]]
  BY DEF CardsTypeOK
<1>3. row \in [st : CardStatus \cup {"unborn", "deleted"}, at : Nat] /\ event \in CardType
  BY DEF CardType
<1>4. taskRow' \in [CardTask -> [st : CardStatus \cup {"unborn", "deleted"}, at : Nat]]
  BY <1>1, <1>2, <1>3
<1>5. taskRow'[t] = row /\ \A u \in CardTask : u # t => taskRow'[u] = taskRow[u]
  BY <1>1, <1>2
<1>6. taskLog \in Seq(CardType) /\ DOMAIN taskLog = 1..Len(taskLog) /\ Len(taskLog) \in Nat
  BY CardTypes
<1> HIDE DEF event
<1>7. /\ taskLog' \in Seq(CardType) /\ DOMAIN taskLog' = 1..n /\ taskLog'[n] = event
      /\ \A i \in 1..Len(taskLog) : taskLog'[i] = taskLog[i]
  BY <1>1, <1>3, <1>6
<1>8. /\ n \in DOMAIN taskLog' /\ n \notin DOMAIN taskLog
      /\ \A i \in DOMAIN taskLog' : i = n \/ (i \in DOMAIN taskLog /\ i <= n)
      /\ \A i \in DOMAIN taskLog : i \in DOMAIN taskLog' /\ taskLog'[i] = taskLog[i] /\ i <= n
  BY <1>6, <1>7
<1>9. taskLog'[n].t = t /\ taskLog'[n].st = st /\ taskLog'[n].at = at
  BY <1>7 DEF event
<1>10. RowIsLast'
  <2> SUFFICES ASSUME NEW u \in CardTask, LiveTask(u)'
               PROVE  \E i \in DOMAIN taskLog' :
                         /\ taskLog'[i] = CardNow(u)'
                         /\ \A k \in DOMAIN taskLog' : taskLog'[k].t = u => k <= i
    BY DEF RowIsLast
  <2>1. CASE u = t
    <3>1. CardNow(u)' = event
      BY <1>5, <2>1 DEF CardNow, CardOf, event
    <3>2. n <= n /\ \A i \in DOMAIN taskLog' : i <= n
      BY <1>6, <1>8
    <3> HIDE DEF n
    <3> QED BY <1>7, <1>8, <3>1, <3>2
  <2>2. CASE u # t
    <3>1. LiveTask(u) /\ CardNow(u)' = CardNow(u)
      BY <1>5, <2>2 DEF LiveTask, CardNow, CardOf
    <3>2. PICK i \in DOMAIN taskLog : /\ taskLog[i] = CardNow(u)
                                      /\ \A k \in DOMAIN taskLog : taskLog[k].t = u => k <= i
      BY <3>1 DEF RowIsLast
    <3>3. \A k \in DOMAIN taskLog' : taskLog'[k].t = u => k \in DOMAIN taskLog
      BY <1>8, <1>9, <2>2
    <3> HIDE DEF n
    <3> QED BY <1>8, <3>1, <3>2, <3>3
  <2> QED BY <2>1, <2>2
<1> HIDE DEF n
<1>11. \E m \in DOMAIN taskLog' :
               /\ m \notin DOMAIN taskLog
               /\ taskLog'[m].t = t /\ taskLog'[m].st = st /\ taskLog'[m].at = at
               /\ \A i \in DOMAIN taskLog' : i = m \/ (i \in DOMAIN taskLog /\ i <= m)
  BY <1>8, <1>9
<1>12. taskRow'[t].st = st /\ taskRow'[t].at = at
  BY <1>5
<1> QED BY <1>4, <1>5, <1>7, <1>8, <1>10, <1>11, <1>12

\* Commits stay.
LEMMA CommittedStays ==
  ASSUME \A i \in DOMAIN taskLog : i \in DOMAIN taskLog' /\ taskLog'[i] = taskLog[i],
         NEW c, IsCommitted(c)
  PROVE  IsCommitted(c)'
BY DEF IsCommitted

\* What a step keeps of the page's lists, when the page's cards stay.
LEMMA ListsKept ==
  ASSUME CardsInv,
         tasks' = tasks, cardLoad' = cardLoad,
         \A c : IsCommitted(c) => IsCommitted(c)',
         \A t \in CardTask : /\ staleCause[t] \subseteq staleCause'[t]
                             /\ taskRow[t].st # "unborn" => taskRow'[t].st # "unborn"
                             /\ taskRow[t].st = "deleted" => taskRow'[t].st = "deleted",
         cardLoad.phase # "done" => cardReqs' = {} /\ ~taskConn'.up,
         \A r \in cardReqs' : /\ r.t \in CardTask
                              /\ r.before = <<>> \/ \E q \in cardReqs : r.before = q.before,
         \A q \in cardReqs : q.kind = "move" => \E r \in cardReqs' : r.kind = "move" /\ r.t = q.t,
         \A r \in cardReqs' : Served(r) =>
            \/ r \in cardReqs
            \/ IF r.kind = "delete" THEN taskRow'[r.t].st = "deleted" ELSE IsCommitted(CardOf(r.t, r))'
  PROVE  SnapshotFirst' /\ CardLists' /\ AnswersAreCommits' /\ GuessesAwaitAnswer'
<1>1. SnapshotFirst'
  BY DEF CardsInv, SnapshotFirst
<1>2. ASSUME NEW q \in Seq(CardType) PROVE (Single(q) => Single(q)') /\ (Stamped(q) => Stamped(q)')
  <2>1. Single(q) => Single(q)'
    BY DEF Single, Doubled
  <2>2. ASSUME NEW i \in DOMAIN taskLog
        PROVE  \E k \in DOMAIN taskLog' : taskLog'[k] = taskLog[i]
    BY DEF IsCommitted
  <2> QED BY <2>1, <2>2 DEF Stamped
<1>3. tasks \in Seq(CardType) /\ cardLoad.cards \in Seq(CardType)
      /\ \A r \in cardReqs : r.before \in Seq(CardType) /\ r.t \in CardTask
  BY CardTypes DEF CardsInv
<1>4. <<>> \in Seq(CardType) /\ Single(<<>>)' /\ Stamped(<<>>)'
  BY DEF Single, Doubled, Stamped, ToSet
<1>5. CardLists'
  <2>1. \A r \in cardReqs : Single(r.before)' /\ Stamped(r.before)'
    BY <1>2, <1>3 DEF CardsInv, CardLists
  <2>2. \A r \in cardReqs' : Single(r.before)' /\ Stamped(r.before)'
    BY <1>4, <2>1 DEF Single, Stamped
  <2>3. Single(tasks)' /\ Stamped(tasks)'
    BY <1>2, <1>3 DEF CardsInv, CardLists, Single, Stamped
  <2>4. Single(cardLoad.cards)'
    BY <1>2, <1>3 DEF CardsInv, CardLists, Single
  <2> QED BY <2>2, <2>3, <2>4 DEF CardLists
<1>6. AnswersAreCommits'
  <2> SUFFICES ASSUME NEW r \in cardReqs', Served(r)
               PROVE  IF r.kind = "delete" THEN taskRow'[r.t].st = "deleted"
                                           ELSE IsCommitted(CardOf(r.t, r))'
    BY DEF AnswersAreCommits, CardOf, Served
  <2>1. CASE r \in cardReqs
    BY <1>3, <2>1 DEF CardsInv, AnswersAreCommits
  <2> QED BY <2>1
<1>7. GuessesAwaitAnswer'
  <2> SUFFICES ASSUME NEW c \in ToSet(tasks)
               PROVE  \/ IsCommitted(c)' \/ "phantom" \in staleCause'[c.t]
                      \/ \E r \in cardReqs' : r.kind = "move" /\ r.t = c.t
    BY DEF GuessesAwaitAnswer
  <2>1. c.t \in CardTask
    BY <1>3, CardsIn DEF CardType
  <2> QED BY <2>1 DEF CardsInv, GuessesAwaitAnswer
<1> QED BY <1>1, <1>5, <1>6, <1>7

\* A committed write and the stream: the row of t comes, or was committed behind the cursor.
LEMMA CommitStream ==
  ASSUME CardsInv, CardsTypeOK',
         NEW t \in CardTask, NEW st \in CardStatus, NEW at \in Nat \ {0}, WriteTask(t, st, at),
         \A i \in DOMAIN taskLog : taskLog[i].at # at,
         tasks' = tasks, taskConn' = taskConn, clock <= clock',
         \A u \in CardTask : staleCause[u] \subseteq staleCause'[u],
         \A r \in cardReqs' : Served(r) => r \in cardReqs \/ r.t = t,
         taskConn.up /\ at < taskConn.since => "slow" \in staleCause'[t] /\ cardReqs' = cardReqs
  PROVE  StreamInv'
<1> SUFFICES ASSUME taskConn.up PROVE StreamInv'
  BY DEF StreamInv, WireOfCommits, OlderIsFollowed, ShownOrComing
<1>1. CardsTypeOK /\ StampsApart /\ RowIsLast /\ StreamInv
  BY DEF CardsInv, ServerInv
<1>2. /\ taskRow'[t].st = st /\ taskRow'[t].at = at
      /\ \A u \in CardTask : u # t => taskRow'[u] = taskRow[u]
      /\ \A i \in DOMAIN taskLog : i \in DOMAIN taskLog' /\ taskLog'[i] = taskLog[i]
  BY <1>1, CommitIs
<1>3. PICK n \in DOMAIN taskLog' : /\ n \notin DOMAIN taskLog
                                   /\ taskLog'[n].t = t /\ taskLog'[n].at = at
  BY <1>1, CommitIs
<1>4. \A c : IsCommitted(c) => IsCommitted(c)'
  BY <1>2, CommittedStays
<1>5. /\ taskConn.wire \in Seq(CardType) /\ clock \in Nat /\ clock' \in Nat
      /\ taskConn.since \in Nat /\ taskConn.seen \in SUBSET Nat
  BY <1>1, CardTypes DEF CardsTypeOK
<1>6. \A c \in ToSet(taskConn.wire) : c.t \in CardTask /\ c.at # at
  <2> SUFFICES ASSUME NEW c \in ToSet(taskConn.wire) PROVE c.t \in CardTask /\ c.at # at
    OBVIOUS
  <2>1. IsCommitted(c)
    BY <1>1 DEF StreamInv, WireOfCommits
  <2> QED BY <1>5, <2>1, CardsIn DEF IsCommitted, CardType
<1>7. \A u \in CardTask : u # t => CardNow(u)' = CardNow(u) /\ LiveTask(u)' = LiveTask(u)
  BY <1>2 DEF CardNow, CardOf, LiveTask
<1>8. /\ \A u \in CardTask : CardNow(u).t = u /\ CardNow(u)'.t = u
      /\ CardNow(t)'.at = at /\ LiveTask(t)'
  BY <1>2 DEF CardNow, CardOf, LiveTask
<1>9. ASSUME NEW u \in CardTask, u # t, Coming(u) PROVE Coming(u)'
  <2>1. CASE CardNow(u) \in ToSet(taskConn.wire)
    BY <1>7, <1>9, <2>1 DEF Coming
  <2>2. ASSUME NEW i \in FreshEvents, taskLog[i].t = u PROVE Coming(u)'
    <3>1. i \in DOMAIN taskLog' /\ taskLog'[i] = taskLog[i]
      BY <1>2, <2>2 DEF FreshEvents
    <3>2. i \in FreshEvents'
      BY <1>7, <1>9, <2>2, <3>1 DEF FreshEvents
    <3> QED BY <2>2, <3>1, <3>2 DEF Coming
  <2> QED BY <1>9, <2>1, <2>2 DEF Coming
<1>10. at >= taskConn.since => Coming(t)'
  <2>1. at \notin taskConn.seen
    BY <1>1 DEF StreamInv, WireOfCommits
  <2> QED BY <1>3, <1>8, <2>1 DEF Coming, FreshEvents
<1>11. at >= taskConn.since \/ at < taskConn.since
  BY <1>5
<1>12. WireOfCommits'
  <2>1. taskConn.since <= clock' + 1
    BY <1>1, <1>5 DEF StreamInv, WireOfCommits
  <2>2. \A m \in taskConn.seen : \E i \in DOMAIN taskLog' : taskLog'[i].at = m
    BY <1>1, <1>2 DEF StreamInv, WireOfCommits
  <2>3. \A c \in ToSet(taskConn.wire) : IsCommitted(c)'
    BY <1>1, <1>4 DEF StreamInv, WireOfCommits
  <2>4. ASSUME NEW i \in DOMAIN taskConn.wire, NEW j \in DOMAIN taskConn.wire, i < j,
               taskConn.wire[i].t = taskConn.wire[j].t,
               taskConn.wire[i] = CardNow(taskConn.wire[i].t)'
        PROVE  taskConn.wire[j] = taskConn.wire[i]
    <3>1. taskConn.wire[i] \in ToSet(taskConn.wire)
      BY <1>5, CardsIn
    <3>2. taskConn.wire[i].t # t
      BY <1>6, <1>8, <2>4, <3>1
    <3>3. taskConn.wire[i] = CardNow(taskConn.wire[i].t)
      BY <1>6, <1>7, <2>4, <3>1, <3>2
    <3> QED BY <1>1, <2>4, <3>3 DEF StreamInv, WireOfCommits
  <2> QED BY <2>1, <2>2, <2>3, <2>4 DEF WireOfCommits
<1>13. OlderIsFollowed'
  <2> SUFFICES ASSUME NEW u \in CardTask, LiveTask(u)', ~Coming(u)', CardsOf(taskConn.wire, u) # {}
               PROVE  "slow" \in staleCause'[u] /\ NotAnswered(u)'
    BY DEF OlderIsFollowed, CardsOf
  <2>1. CASE u = t
    <3>1. "slow" \in staleCause'[t] /\ cardReqs' = cardReqs
      BY <1>10, <1>11, <2>1
    <3>2. NotAnswered(t)'
      <4> SUFFICES ASSUME NEW r \in cardReqs, Served(r), r.kind # "delete", r.t = t
                   PROVE  r.at # at
        BY <1>2, <3>1 DEF NotAnswered, Served
      <4>1. IsCommitted(CardOf(r.t, r))
        BY DEF CardsInv, AnswersAreCommits
      <4> QED BY <4>1 DEF IsCommitted, CardOf
    <3> QED BY <2>1, <3>1, <3>2
  <2>2. CASE u # t
    <3>1. LiveTask(u) /\ ~Coming(u)
      BY <1>7, <1>9, <2>2
    <3>2. "slow" \in staleCause[u] /\ NotAnswered(u)
      BY <1>1, <3>1 DEF StreamInv, OlderIsFollowed
    <3>3. NotAnswered(u)'
      BY <1>2, <2>2, <3>2 DEF NotAnswered, Served
    <3> QED BY <3>2, <3>3
  <2> QED BY <2>1, <2>2
<1>14. ShownOrComing'
  <2> SUFFICES ASSUME NEW u \in CardTask, LiveTask(u)', staleCause'[u] = {}, ~Coming(u)'
               PROVE  StampsOf(tasks, u) = {taskRow'[u].at}
    BY DEF ShownOrComing, StampsOf, CardsOf
  <2>1. u # t
    BY <1>10, <1>11
  <2>2. LiveTask(u) /\ ~Coming(u) /\ staleCause[u] = {}
    BY <1>7, <1>9, <2>1
  <2> QED BY <1>1, <1>2, <2>1, <2>2 DEF StreamInv, ShownOrComing
<1> QED BY <1>12, <1>13, <1>14 DEF StreamInv

\* A write that the server commits in its turn: by another client, or for a request.
LEMMA WriteServer ==
  ASSUME CardsInv, NEW t \in CardTask, NEW st \in CardStatus, WriteTask(t, st, clock + 1),
         taskRow[t].st # "deleted", clock' = clock + 1, slowWrites' = slowWrites,
         \A u \in CardTask : staleCause[u] \subseteq staleCause'[u]
  PROVE  ServerInv'
<1>1. CardsTypeOK /\ StampsApart /\ RowIsLast
  BY DEF CardsInv, ServerInv
<1>2. clock \in Nat /\ clock + 1 \in Nat \ {0}
  BY <1>1, CardTypes
<1>3. /\ taskRow'[t].st = st /\ RowIsLast'
      /\ \A u \in CardTask : u # t => taskRow'[u] = taskRow[u]
      /\ \A i \in DOMAIN taskLog : i \in DOMAIN taskLog' /\ taskLog'[i] = taskLog[i]
  BY <1>1, <1>2, CommitIs
<1>4. PICK n \in DOMAIN taskLog' :
        /\ taskLog'[n].t = t /\ taskLog'[n].at = clock + 1
        /\ \A i \in DOMAIN taskLog' : i = n \/ (i \in DOMAIN taskLog /\ i <= n)
  BY <1>1, <1>2, CommitIs
<1>5. \A u \in CardTask : taskRow[u].st # "unborn" => taskRow'[u].st # "unborn"
  BY <1>3 DEF CardStatus
<1>6. \A i \in DOMAIN taskLog : taskLog[i].at \in Nat /\ taskLog[i].at <= clock
  BY <1>1, CardTypes DEF StampsApart
<1>7. \A i, j \in DOMAIN taskLog' : taskLog'[i].at = taskLog'[j].at => i = j
  BY <1>1, <1>2, <1>3, <1>4, <1>6 DEF StampsApart
<1>8. \A i \in DOMAIN taskLog' : taskLog'[i].at <= clock' /\ taskRow'[taskLog'[i].t].st # "unborn"
  <2> SUFFICES ASSUME NEW i \in DOMAIN taskLog'
               PROVE  taskLog'[i].at <= clock' /\ taskRow'[taskLog'[i].t].st # "unborn"
    OBVIOUS
  <2>1. CASE i = n
    BY <1>2, <1>3, <1>4, <2>1 DEF CardStatus
  <2>2. CASE i \in DOMAIN taskLog
    <3>1. taskLog[i].t \in CardTask /\ taskRow[taskLog[i].t].st # "unborn"
      BY <1>1, <2>2, CardTypes DEF StampsApart
    <3>2. taskLog[i].at <= clock'
      BY <1>2, <1>6, <2>2
    <3> QED BY <1>3, <1>5, <2>2, <3>1, <3>2
  <2> QED BY <1>4, <2>1, <2>2
<1>9. \A w \in slowWrites : /\ w.at <= clock' /\ taskRow'[w.t].st # "unborn"
                            /\ \A i \in DOMAIN taskLog' : taskLog'[i].at # w.at
  <2> SUFFICES ASSUME NEW w \in slowWrites
               PROVE  /\ w.at <= clock' /\ taskRow'[w.t].st # "unborn"
                      /\ \A i \in DOMAIN taskLog' : taskLog'[i].at # w.at
    OBVIOUS
  <2>1. w.t \in CardTask /\ w.at \in Nat /\ w.at <= clock /\ taskRow[w.t].st # "unborn"
    BY <1>1, CardTypes DEF StampsApart
  <2>2. \A i \in DOMAIN taskLog : taskLog[i].at # w.at
    BY <1>1 DEF StampsApart
  <2>3. w.at <= clock' /\ w.at # clock + 1
    BY <1>2, <2>1
  <2> QED BY <1>3, <1>4, <1>5, <2>1, <2>2, <2>3
<1>10. StampsApart'
  BY <1>1, <1>7, <1>8, <1>9 DEF StampsApart
<1>11. DeletedHasCause'
  <2> SUFFICES ASSUME NEW u \in CardTask, taskRow'[u].st = "deleted" PROVE staleCause'[u] # {}
    BY DEF DeletedHasCause
  <2>1. taskRow[u].st = "deleted"
    BY <1>3 DEF CardStatus
  <2> QED BY <2>1 DEF CardsInv, ServerInv, DeletedHasCause
<1> QED BY <1>3, <1>10, <1>11 DEF ServerInv

\* A task that is deleted, which has no event.
LEMMA DeleteKeeps ==
  ASSUME CardsInv, NEW t \in CardTask, LiveTask(t),
         taskRow' = [taskRow EXCEPT ![t].st = "deleted"],
         staleCause' = BecauseOf({t}, "deleted"),
         UNCHANGED <<taskLog, clock, slowWrites, tasks, taskConn>>,
         \A r \in cardReqs' : Served(r) => r \in cardReqs \/ r.t = t
  PROVE  /\ ServerInv' /\ StreamInv'
         /\ taskRow' \in [CardTask -> [st : CardStatus \cup {"unborn", "deleted"}, at : Nat]]
         /\ staleCause' \in [CardTask -> SUBSET CardCause]
         /\ \A u \in CardTask : /\ staleCause[u] \subseteq staleCause'[u]
                                /\ taskRow[u].st # "unborn" => taskRow'[u].st # "unborn"
                                /\ taskRow[u].st = "deleted" => taskRow'[u].st = "deleted"
         /\ taskRow'[t].st = "deleted"
<1>1. CardsTypeOK /\ ServerInv /\ StreamInv
  BY DEF CardsInv
<1>2. taskRow \in [CardTask -> [st : CardStatus \cup {"unborn", "deleted"}, at : Nat]]
      /\ staleCause \in [CardTask -> SUBSET CardCause]
  BY <1>1 DEF CardsTypeOK
<1>3. /\ taskRow'[t].st = "deleted" /\ taskRow'[t].at = taskRow[t].at
      /\ \A u \in CardTask : u # t => taskRow'[u] = taskRow[u]
      /\ taskRow' \in [CardTask -> [st : CardStatus \cup {"unborn", "deleted"}, at : Nat]]
  BY <1>2
<1>4. /\ "deleted" \in staleCause'[t]
      /\ \A u \in CardTask : staleCause[u] \subseteq staleCause'[u]
      /\ staleCause' \in [CardTask -> SUBSET CardCause]
  BY <1>2 DEF BecauseOf, CardCause
<1>5. ~LiveTask(t)' /\ taskRow[t].st # "unborn"
  BY <1>3 DEF LiveTask, CardStatus
<1>6. \A u \in CardTask : u # t => CardNow(u)' = CardNow(u) /\ LiveTask(u)' = LiveTask(u)
  BY <1>3 DEF CardNow, CardOf, LiveTask
<1>7. \A u \in CardTask : LiveTask(u)' => u # t /\ LiveTask(u)
  BY <1>5, <1>6
<1>8. ServerInv'
  <2>1. StampsApart'
    <3>1. \A u \in CardTask : taskRow[u].st # "unborn" => taskRow'[u].st # "unborn"
      BY <1>3
    <3>2. /\ \A i \in DOMAIN taskLog : taskLog[i].t \in CardTask
          /\ \A w \in slowWrites : w.t \in CardTask
      BY <1>1, CardTypes
    <3>3. \A i \in DOMAIN taskLog : taskRow'[taskLog[i].t].st # "unborn"
      BY <1>1, <3>1, <3>2 DEF ServerInv, StampsApart
    <3>4. \A w \in slowWrites : taskRow'[w.t].st # "unborn"
      BY <1>1, <3>1, <3>2 DEF ServerInv, StampsApart
    <3> QED BY <1>1, <3>3, <3>4 DEF ServerInv, StampsApart
  <2>2. RowIsLast'
    BY <1>1, <1>6, <1>7 DEF ServerInv, RowIsLast
  <2>3. DeletedHasCause'
    BY <1>1, <1>3, <1>4 DEF ServerInv, DeletedHasCause
  <2> QED BY <2>1, <2>2, <2>3 DEF ServerInv
<1>9. \A u \in CardTask : u # t /\ Coming(u) => Coming(u)'
  <2> SUFFICES ASSUME NEW u \in CardTask, u # t, Coming(u) PROVE Coming(u)'
    OBVIOUS
  <2>1. CASE CardNow(u) \in ToSet(taskConn.wire)
    BY <1>6, <2>1 DEF Coming
  <2>2. ASSUME NEW i \in FreshEvents, taskLog[i].t = u PROVE Coming(u)'
    BY <1>6, <2>2 DEF Coming, FreshEvents
  <2> QED BY <2>1, <2>2 DEF Coming
<1>10. StreamInv'
  <2> SUFFICES ASSUME taskConn.up PROVE StreamInv'
    BY DEF StreamInv, WireOfCommits, OlderIsFollowed, ShownOrComing
  <2>0. taskConn.wire \in Seq(CardType)
    BY <1>1, CardTypes
  <2>1. WireOfCommits'
    <3>1. \A c \in ToSet(taskConn.wire) : IsCommitted(c)'
      BY <1>1 DEF StreamInv, WireOfCommits, IsCommitted
    <3>2. ASSUME NEW i \in DOMAIN taskConn.wire, NEW j \in DOMAIN taskConn.wire, i < j,
                 taskConn.wire[i].t = taskConn.wire[j].t,
                 taskConn.wire[i] = CardNow(taskConn.wire[i].t)'
          PROVE  taskConn.wire[j] = taskConn.wire[i]
      <4>1. taskConn.wire[i].t \in CardTask /\ taskConn.wire[i].st \in CardStatus
        BY <2>0, CardsIn
      <4>2. taskConn.wire[i].t # t
        BY <1>3, <3>2, <4>1 DEF CardNow, CardOf, CardStatus
      <4> QED BY <1>1, <1>6, <3>2, <4>1, <4>2 DEF StreamInv, WireOfCommits
    <3> QED BY <1>1, <3>1, <3>2 DEF StreamInv, WireOfCommits
  <2>2. OlderIsFollowed'
    <3> SUFFICES ASSUME NEW u \in CardTask, LiveTask(u)', ~Coming(u)',
                        CardsOf(taskConn.wire, u) # {}
                 PROVE  "slow" \in staleCause'[u] /\ NotAnswered(u)'
      BY DEF OlderIsFollowed, CardsOf
    <3>1. u # t /\ LiveTask(u) /\ ~Coming(u)
      BY <1>7, <1>9
    <3>2. "slow" \in staleCause[u] /\ NotAnswered(u)
      BY <1>1, <3>1 DEF StreamInv, OlderIsFollowed
    <3>3. NotAnswered(u)'
      BY <1>3, <3>1, <3>2 DEF NotAnswered, Served
    <3> QED BY <1>4, <3>2, <3>3
  <2>3. ShownOrComing'
    <3> SUFFICES ASSUME NEW u \in CardTask, LiveTask(u)', staleCause'[u] = {}, ~Coming(u)'
                 PROVE  StampsOf(tasks, u) = {taskRow'[u].at}
      BY DEF ShownOrComing, StampsOf, CardsOf
    <3>1. u # t /\ LiveTask(u) /\ ~Coming(u) /\ staleCause[u] = {}
      BY <1>4, <1>7, <1>9
    <3> QED BY <1>1, <1>3, <3>1 DEF StreamInv, ShownOrComing
  <2> QED BY <2>1, <2>2, <2>3 DEF StreamInv
<1>11. \A u \in CardTask : /\ taskRow[u].st # "unborn" => taskRow'[u].st # "unborn"
                           /\ taskRow[u].st = "deleted" => taskRow'[u].st = "deleted"
  BY <1>3
<1> QED BY <1>3, <1>4, <1>8, <1>10, <1>11

\* What the server keeps when a step only adds causes.
LEMMA ServerStays ==
  ASSUME CardsInv, UNCHANGED <<taskRow, taskLog, clock, slowWrites>>,
         \A u \in CardTask : staleCause[u] \subseteq staleCause'[u] \/ taskRow[u].st # "deleted"
  PROVE  /\ ServerInv'
         /\ \A c : IsCommitted(c)' <=> IsCommitted(c)
<1>1. StampsApart' /\ RowIsLast'
  BY DEF CardsInv, ServerInv, StampsApart, RowIsLast, LiveTask, CardNow
<1>2. DeletedHasCause'
  BY DEF CardsInv, ServerInv, DeletedHasCause
<1>3. \A c : IsCommitted(c)' <=> IsCommitted(c)
  BY DEF IsCommitted
<1> QED BY <1>1, <1>2, <1>3 DEF ServerInv

\* What the stream keeps when the server and the wire stay as they are.
LEMMA StreamFollows ==
  ASSUME CardsInv, UNCHANGED <<taskRow, taskLog, taskConn>>, clock' \in Nat, clock <= clock',
         \A u \in CardTask : LiveTask(u) =>
            /\ "slow" \in staleCause[u] /\ NotAnswered(u) => "slow" \in staleCause'[u]
            /\ taskConn.up /\ staleCause'[u] = {} =>
                  \/ Coming(u)
                  \/ StampsOf(tasks, u)' = {taskRow[u].at}
                  \/ staleCause[u] = {} /\ StampsOf(tasks, u)' = StampsOf(tasks, u),
         \A r \in cardReqs' : Served(r) => r \in cardReqs
  PROVE  StreamInv'
<1>1. CardsTypeOK /\ StreamInv
  BY DEF CardsInv
<1>2. clock \in Nat /\ taskConn.since \in Nat
  BY <1>1, CardTypes
<1>3. \A u : LiveTask(u)' = LiveTask(u) /\ CardNow(u)' = CardNow(u)
  BY DEF LiveTask, CardNow
<1>4. \A u : Coming(u)' = Coming(u)
  BY <1>3 DEF Coming, FreshEvents, LiveTask, CardNow
<1>5. WireOfCommits'
  BY <1>1, <1>2, <1>3 DEF StreamInv, WireOfCommits, IsCommitted, CardNow
<1>6. OlderIsFollowed'
  <2> SUFFICES ASSUME taskConn.up, NEW u \in CardTask, LiveTask(u), ~Coming(u),
                      CardsOf(taskConn.wire, u) # {}
               PROVE  "slow" \in staleCause'[u] /\ NotAnswered(u)'
    BY <1>3, <1>4 DEF OlderIsFollowed, CardsOf
  <2>1. "slow" \in staleCause[u] /\ NotAnswered(u)
    BY <1>1 DEF StreamInv, OlderIsFollowed
  <2>2. NotAnswered(u)'
    BY <2>1 DEF NotAnswered, Served
  <2> QED BY <2>1, <2>2
<1>7. ShownOrComing'
  <2> SUFFICES ASSUME taskConn.up, NEW u \in CardTask, LiveTask(u), staleCause'[u] = {}, ~Coming(u)
               PROVE  StampsOf(tasks, u)' = {taskRow[u].at}
    BY <1>3, <1>4 DEF ShownOrComing
  <2>1. CASE staleCause[u] = {} /\ StampsOf(tasks, u)' = StampsOf(tasks, u)
    BY <1>1, <2>1 DEF StreamInv, ShownOrComing
  <2> QED BY <2>1
<1> QED BY <1>5, <1>6, <1>7 DEF StreamInv

\* So it is when the cards keep their stamps and causes are only added.
LEMMA StreamStays ==
  ASSUME CardsInv, UNCHANGED <<taskRow, taskLog, taskConn>>, clock' \in Nat, clock <= clock',
         \A u \in CardTask : /\ StampsOf(tasks, u)' = StampsOf(tasks, u)
                             /\ staleCause[u] \subseteq staleCause'[u],
         \A r \in cardReqs' : Served(r) => r \in cardReqs
  PROVE  StreamInv'
BY StreamFollows

\* One lemma for each action: CardsInv is inductive.
LEMMA OtherWritesKeeps ==
  ASSUME CardsInv, NEW t \in CardTask, OtherWrites(t)
  PROVE  CardsInv'
<1>1. CardsTypeOK /\ StampsApart /\ RowIsLast /\ StreamInv
  BY DEF CardsInv, ServerInv
<1>2. /\ cardEvents' = cardEvents + 1 /\ clock' = clock + 1 /\ taskRow[t].st # "deleted"
      /\ UNCHANGED <<slowWrites, cardLoad, tasks, taskConn, cardReqs, staleCause>>
  BY DEF OtherWrites
<1>3. PICK st \in CardStatus : WriteTask(t, st, clock + 1)
  <2>1. PICK s \in CardStatus : WriteTask(t, IF LiveTask(t) THEN s ELSE "inbox", clock + 1)
    BY DEF OtherWrites
  <2>2. (IF LiveTask(t) THEN s ELSE "inbox") \in CardStatus
    BY DEF CardStatus
  <2> QED BY <2>1, <2>2
<1>4. clock \in Nat /\ clock' \in Nat /\ clock + 1 \in Nat \ {0} /\ taskConn.since \in Nat
  BY <1>1, <1>2, CardTypes
<1>5. /\ taskRow' \in [CardTask -> [st : CardStatus \cup {"unborn", "deleted"}, at : Nat]]
      /\ taskLog' \in Seq(CardType)
      /\ taskRow'[t].st = st
      /\ \A u \in CardTask : u # t => taskRow'[u] = taskRow[u]
      /\ \A i \in DOMAIN taskLog : i \in DOMAIN taskLog' /\ taskLog'[i] = taskLog[i]
  BY <1>1, <1>3, <1>4, CommitIs
<1>6. CardsTypeOK'
  BY <1>1, <1>2, <1>4, <1>5 DEF CardsTypeOK
<1>7. ServerInv'
  BY <1>2, <1>3, WriteServer
<1>8. \A i \in DOMAIN taskLog : taskLog[i].at # clock + 1
  BY <1>1, <1>4, CardTypes DEF StampsApart
<1>9. taskConn.up => ~(clock + 1 < taskConn.since)
  BY <1>1, <1>4 DEF StreamInv, WireOfCommits
<1>10. clock <= clock'
  BY <1>2, <1>4
<1>11. StreamInv'
  BY <1>2, <1>3, <1>4, <1>6, <1>8, <1>9, <1>10, CommitStream
<1>12. \A c : IsCommitted(c) => IsCommitted(c)'
  BY <1>5, CommittedStays
<1>13. \A u \in CardTask : /\ taskRow[u].st # "unborn" => taskRow'[u].st # "unborn"
                           /\ taskRow[u].st = "deleted" => taskRow'[u].st = "deleted"
  BY <1>2, <1>5 DEF CardStatus
<1>14. SnapshotFirst' /\ CardLists' /\ AnswersAreCommits' /\ GuessesAwaitAnswer'
  <2>1. cardLoad.phase # "done" => cardReqs' = {} /\ ~taskConn'.up
    BY <1>2 DEF CardsInv, SnapshotFirst
  <2>2. \A r \in cardReqs : r.t \in CardTask
    BY <1>1, CardTypes
  <2> QED BY <1>2, <1>12, <1>13, <2>1, <2>2, ListsKept
<1> QED BY <1>6, <1>7, <1>11, <1>14 DEF CardsInv

LEMMA OtherDeletesKeeps ==
  ASSUME CardsInv, NEW t \in CardTask, OtherDeletes(t)
  PROVE  CardsInv'
<1>1. CardsTypeOK
  BY DEF CardsInv
<1>2. /\ cardEvents' = cardEvents + 1 /\ LiveTask(t)
      /\ taskRow' = [taskRow EXCEPT ![t].st = "deleted"]
      /\ staleCause' = BecauseOf({t}, "deleted")
      /\ UNCHANGED <<taskLog, clock, slowWrites, cardLoad, tasks, taskConn, cardReqs>>
  BY DEF OtherDeletes
<1>3. /\ ServerInv' /\ StreamInv'
      /\ taskRow' \in [CardTask -> [st : CardStatus \cup {"unborn", "deleted"}, at : Nat]]
      /\ staleCause' \in [CardTask -> SUBSET CardCause]
      /\ \A u \in CardTask : /\ staleCause[u] \subseteq staleCause'[u]
                             /\ taskRow[u].st # "unborn" => taskRow'[u].st # "unborn"
                             /\ taskRow[u].st = "deleted" => taskRow'[u].st = "deleted"
  BY <1>2, DeleteKeeps
<1>4. CardsTypeOK'
  <2>1. cardEvents' \in Nat
    BY <1>1, <1>2 DEF CardsTypeOK
  <2>2. UNCHANGED <<taskLog, clock, slowWrites, cardLoad, tasks, taskConn, cardReqs>>
    BY <1>2
  <2> QED BY <1>1, <1>3, <2>1, <2>2 DEF CardsTypeOK
<1>5. SnapshotFirst' /\ CardLists' /\ AnswersAreCommits' /\ GuessesAwaitAnswer'
  <2>1. cardLoad.phase # "done" => cardReqs' = {} /\ ~taskConn'.up
    BY <1>2 DEF CardsInv, SnapshotFirst
  <2>2. \A r \in cardReqs : r.t \in CardTask
    BY <1>1, CardTypes
  <2>3. \A c : IsCommitted(c) => IsCommitted(c)'
    BY <1>2 DEF IsCommitted
  <2> QED BY <1>2, <1>3, <2>1, <2>2, <2>3, ListsKept
<1> QED BY <1>3, <1>4, <1>5 DEF CardsInv

LEMMA SlowBeginsKeeps ==
  ASSUME CardsInv, NEW t \in CardTask, SlowBegins(t)
  PROVE  CardsInv'
<1>1. CardsTypeOK /\ StampsApart /\ RowIsLast /\ DeletedHasCause
  BY DEF CardsInv, ServerInv
<1>2. /\ cardEvents' = cardEvents + 1 /\ clock' = clock + 1 /\ LiveTask(t)
      /\ UNCHANGED <<taskRow, taskLog, cardLoad, tasks, taskConn, cardReqs, staleCause>>
  BY DEF SlowBegins
<1>3. PICK st \in CardStatus :
        slowWrites' = slowWrites \cup {[t |-> t, st |-> st, at |-> clock + 1]}
  BY DEF SlowBegins
<1>4. clock \in Nat /\ clock' \in Nat /\ clock + 1 \in Nat \ {0} /\ clock <= clock'
  BY <1>1, <1>2, CardTypes
<1>5. CardsTypeOK'
  <2>1. [t |-> t, st |-> st, at |-> clock + 1] \in CardType
    BY <1>4 DEF CardType
  <2> QED BY <1>1, <1>2, <1>3, <1>4, <2>1 DEF CardsTypeOK
<1>6. ServerInv'
  <2> DEFINE v == [t |-> t, st |-> st, at |-> clock + 1]
  <2>1. v.t = t /\ v.at = clock + 1 /\ slowWrites' = slowWrites \cup {v}
    BY <1>3
  <2> HIDE DEF v
  <2>2. taskRow[t].st # "unborn"
    BY <1>2 DEF LiveTask, CardStatus
  <2>3. /\ \A i \in DOMAIN taskLog : taskLog[i].at \in Nat /\ taskLog[i].at <= clock
        /\ \A w \in slowWrites : w.at \in Nat /\ w.at <= clock
    BY <1>1, CardTypes DEF StampsApart
  <2>4. /\ \A i \in DOMAIN taskLog : taskLog[i].at <= clock' /\ taskLog[i].at # clock + 1
        /\ \A w \in slowWrites : w.at <= clock' /\ w.at # clock + 1
    BY <1>2, <1>4, <2>3
  <2>5. clock + 1 <= clock'
    BY <1>2, <1>4
  <2>6. \A w \in slowWrites' : /\ w.at <= clock' /\ taskRow'[w.t].st # "unborn"
                               /\ \A i \in DOMAIN taskLog' : taskLog'[i].at # w.at
    BY <1>1, <1>2, <2>1, <2>2, <2>4, <2>5 DEF StampsApart
  <2>7. \A a, b \in slowWrites' : a.at = b.at => a = b
    BY <1>1, <2>1, <2>4 DEF StampsApart
  <2>8. StampsApart'
    BY <1>1, <1>2, <2>4, <2>6, <2>7 DEF StampsApart
  <2>9. RowIsLast' /\ DeletedHasCause'
    BY <1>1, <1>2 DEF RowIsLast, DeletedHasCause, LiveTask, CardNow
  <2> QED BY <2>8, <2>9 DEF ServerInv
<1>7. StreamInv'
  BY <1>2, <1>4, StreamStays DEF StampsOf, CardsOf
<1>8. SnapshotFirst' /\ CardLists' /\ AnswersAreCommits' /\ GuessesAwaitAnswer'
  <2>1. cardLoad.phase # "done" => cardReqs' = {} /\ ~taskConn'.up
    BY <1>2 DEF CardsInv, SnapshotFirst
  <2>2. \A r \in cardReqs : r.t \in CardTask
    BY <1>1, CardTypes
  <2>3. \A c : IsCommitted(c) => IsCommitted(c)'
    BY <1>2 DEF IsCommitted
  <2> QED BY <1>2, <2>1, <2>2, <2>3, ListsKept
<1> QED BY <1>5, <1>6, <1>7, <1>8 DEF CardsInv

LEMMA SlowCommitsKeeps ==
  ASSUME CardsInv, NEW w \in slowWrites, SlowCommits(w)
  PROVE  CardsInv'
<1>1. CardsTypeOK /\ StampsApart /\ RowIsLast /\ DeletedHasCause /\ StreamInv
  BY DEF CardsInv, ServerInv
<1>2. /\ slowWrites' = slowWrites \ {w}
      /\ UNCHANGED <<clock, cardLoad, tasks, taskConn, cardReqs, cardEvents>>
      /\ staleCause' = IF LiveTask(w.t) /\ taskConn.up /\ w.at < taskConn.since
                       THEN BecauseOf({w.t}, "slow") ELSE staleCause
  BY DEF SlowCommits
<1>3. /\ w.t \in CardTask /\ w.st \in CardStatus /\ w.at \in Nat \ {0} /\ w.at <= clock
      /\ taskRow[w.t].st # "unborn" /\ \A i \in DOMAIN taskLog : taskLog[i].at # w.at
      /\ clock \in Nat
  BY <1>1, CardTypes DEF StampsApart
<1>4. /\ staleCause' \in [CardTask -> SUBSET CardCause]
      /\ \A u \in CardTask : staleCause[u] \subseteq staleCause'[u]
      /\ LiveTask(w.t) /\ taskConn.up /\ w.at < taskConn.since => "slow" \in staleCause'[w.t]
  <2>1. staleCause \in [CardTask -> SUBSET CardCause]
    BY <1>1 DEF CardsTypeOK
  <2> QED BY <1>2, <1>3, <2>1 DEF BecauseOf, CardCause
<1>5. /\ cardLoad.phase # "done" => cardReqs' = {} /\ ~taskConn'.up
      /\ \A r \in cardReqs : r.t \in CardTask
  BY <1>1, <1>2, CardTypes DEF CardsInv, SnapshotFirst
<1>6. CASE ~LiveTask(w.t)
  <2>1. UNCHANGED <<taskRow, taskLog, staleCause>>
    BY <1>2, <1>6 DEF SlowCommits
  <2>2. CardsTypeOK'
    BY <1>1, <1>2, <2>1 DEF CardsTypeOK
  <2>3. StampsApart'
    BY <1>1, <1>2, <2>1 DEF StampsApart
  <2>4. RowIsLast' /\ DeletedHasCause'
    BY <1>1, <2>1 DEF RowIsLast, DeletedHasCause, LiveTask, CardNow
  <2>5. StreamInv'
    BY <1>2, <1>3, <2>1, StreamStays DEF StampsOf, CardsOf
  <2>6. \A c : IsCommitted(c) => IsCommitted(c)'
    BY <2>1 DEF IsCommitted
  <2>7. SnapshotFirst' /\ CardLists' /\ AnswersAreCommits' /\ GuessesAwaitAnswer'
    BY <1>2, <1>5, <2>1, <2>6, ListsKept
  <2> QED BY <2>2, <2>3, <2>4, <2>5, <2>7 DEF CardsInv, ServerInv
<1>7. CASE LiveTask(w.t)
  <2>1. WriteTask(w.t, w.st, w.at)
    BY <1>7 DEF SlowCommits
  <2>2. /\ taskRow' \in [CardTask -> [st : CardStatus \cup {"unborn", "deleted"}, at : Nat]]
        /\ taskLog' \in Seq(CardType)
        /\ taskRow'[w.t].st = w.st /\ RowIsLast'
        /\ \A u \in CardTask : u # w.t => taskRow'[u] = taskRow[u]
        /\ \A i \in DOMAIN taskLog : i \in DOMAIN taskLog' /\ taskLog'[i] = taskLog[i]
    BY <1>1, <1>3, <2>1, CommitIs
  <2>3. PICK n \in DOMAIN taskLog' :
          /\ taskLog'[n].t = w.t /\ taskLog'[n].at = w.at
          /\ \A i \in DOMAIN taskLog' : i = n \/ (i \in DOMAIN taskLog /\ i <= n)
    BY <1>1, <1>3, <2>1, CommitIs
  <2>4. CardsTypeOK'
    <3>1. slowWrites' \subseteq CardType
      BY <1>1, <1>2 DEF CardsTypeOK
    <3>2. UNCHANGED <<clock, cardLoad, tasks, taskConn, cardReqs, cardEvents>>
      BY <1>2
    <3> QED BY <1>1, <1>4, <2>2, <3>1, <3>2 DEF CardsTypeOK
  <2>5. \A u \in CardTask : /\ taskRow[u].st # "unborn" => taskRow'[u].st # "unborn"
                            /\ taskRow[u].st = "deleted" => taskRow'[u].st = "deleted"
    BY <1>3, <1>7, <2>2 DEF CardStatus, LiveTask
  <2>6. StampsApart'
    <3>1. \A i, j \in DOMAIN taskLog' : taskLog'[i].at = taskLog'[j].at => i = j
      BY <1>1, <1>3, <2>2, <2>3 DEF StampsApart
    <3>2. \A i \in DOMAIN taskLog' :
            taskLog'[i].at <= clock' /\ taskRow'[taskLog'[i].t].st # "unborn"
      <4> SUFFICES ASSUME NEW i \in DOMAIN taskLog'
                   PROVE  taskLog'[i].at <= clock' /\ taskRow'[taskLog'[i].t].st # "unborn"
        OBVIOUS
      <4>1. CASE i = n
        BY <1>2, <1>3, <2>3, <2>5, <4>1
      <4>2. CASE i \in DOMAIN taskLog
        <5>1. taskLog[i].t \in CardTask /\ taskRow[taskLog[i].t].st # "unborn"
              /\ taskLog[i].at <= clock
          BY <1>1, <4>2, CardTypes DEF StampsApart
        <5> QED BY <1>2, <2>2, <2>5, <4>2, <5>1
      <4> QED BY <2>3, <4>1, <4>2
    <3>3. \A v \in slowWrites' : /\ v.at <= clock' /\ taskRow'[v.t].st # "unborn"
                                 /\ \A i \in DOMAIN taskLog' : taskLog'[i].at # v.at
      <4> SUFFICES ASSUME NEW v \in slowWrites, v # w
                   PROVE  /\ v.at <= clock' /\ taskRow'[v.t].st # "unborn"
                          /\ \A i \in DOMAIN taskLog' : taskLog'[i].at # v.at
        BY <1>2
      <4>1. v.t \in CardTask
        BY <1>1, CardTypes
      <4>2. v.at # w.at /\ v.at <= clock /\ taskRow[v.t].st # "unborn"
        BY <1>1 DEF StampsApart
      <4>3. \A i \in DOMAIN taskLog : taskLog[i].at # v.at
        BY <1>1 DEF StampsApart
      <4> QED BY <1>2, <2>2, <2>3, <2>5, <4>1, <4>2, <4>3
    <3>4. \A a, b \in slowWrites' : a.at = b.at => a = b
      BY <1>1, <1>2 DEF StampsApart
    <3> QED BY <3>1, <3>2, <3>3, <3>4 DEF StampsApart
  <2>7. DeletedHasCause'
    <3> SUFFICES ASSUME NEW u \in CardTask, taskRow'[u].st = "deleted" PROVE staleCause'[u] # {}
      BY DEF DeletedHasCause
    <3>1. taskRow[u].st = "deleted"
      BY <1>3, <2>2 DEF CardStatus
    <3> QED BY <1>1, <1>4, <3>1 DEF DeletedHasCause
  <2>8. StreamInv'
    <3>1. \A r \in cardReqs' : Served(r) => r \in cardReqs \/ r.t = w.t
      BY <1>2
    <3>2. taskConn.up /\ w.at < taskConn.since => "slow" \in staleCause'[w.t] /\ cardReqs' = cardReqs
      BY <1>2, <1>4, <1>7
    <3>3. tasks' = tasks /\ taskConn' = taskConn /\ clock <= clock'
      BY <1>2, <1>3
    <3> QED BY <1>3, <1>4, <2>1, <2>4, <3>1, <3>2, <3>3, CommitStream
  <2>9. \A c : IsCommitted(c) => IsCommitted(c)'
    BY <2>2, CommittedStays
  <2>10. SnapshotFirst' /\ CardLists' /\ AnswersAreCommits' /\ GuessesAwaitAnswer'
    BY <1>2, <1>4, <1>5, <2>5, <2>9, ListsKept
  <2> QED BY <2>2, <2>4, <2>6, <2>7, <2>8, <2>10 DEF CardsInv, ServerInv
<1> QED BY <1>6, <1>7

LEMMA SnapshotReadKeeps ==
  ASSUME CardsInv, SnapshotRead
  PROVE  CardsInv'
<1> DEFINE S == {CardNow(t) : t \in {u \in CardTask : LiveTask(u)}}
           q == SetToSeq(S)
<1>1. CardsTypeOK /\ RowIsLast /\ ServerInv
  BY DEF CardsInv, ServerInv
<1>2. /\ cardLoad.phase = "sent" /\ cardLoad' = [phase |-> "read", cards |-> q]
      /\ UNCHANGED <<taskRow, taskLog, clock, slowWrites, tasks, taskConn, cardReqs, cardEvents,
                     staleCause>>
  BY DEF SnapshotRead
<1>3. /\ taskLog \in Seq(CardType) /\ Len(taskLog) \in Nat /\ DOMAIN taskLog = 1..Len(taskLog)
      /\ clock \in Nat
  BY <1>1, CardTypes
<1>4. S \subseteq ToSet(taskLog) /\ ToSet(taskLog) \subseteq CardType
  <2>1. ToSet(taskLog) \subseteq CardType
    BY <1>3, CardsIn
  <2>2. ASSUME NEW t \in CardTask, LiveTask(t) PROVE CardNow(t) \in ToSet(taskLog)
    BY <1>1, <2>2 DEF RowIsLast, ToSet
  <2> QED BY <2>1, <2>2
<1>5. IsFiniteSet(S)
  <2>1. taskLog \in Surjection(1..Len(taskLog), ToSet(taskLog))
    BY <1>3 DEF Surjection, ToSet
  <2>2. IsFiniteSet(1..Len(taskLog))
    BY <1>3, FS_Interval
  <2>3. IsFiniteSet(ToSet(taskLog))
    BY <2>1, <2>2, FS_Surjection
  <2> QED BY <1>4, <2>3, FS_Subset
<1>6. \A c, d \in S : c.t = d.t => c = d
  BY DEF CardNow, CardOf
<1>7. \A c \in S : IsCommitted(c)
  BY <1>4 DEF IsCommitted, ToSet
<1>8. S \subseteq CardType
  BY <1>4
<1> HIDE DEF S
<1>9. /\ q \in [1..Cardinality(S) -> S] /\ Cardinality(S) \in Nat /\ ToSet(q) = S
      /\ \A i, j \in 1..Cardinality(S) : i # j => q[i] # q[j]
  BY <1>5, Listed
<1> HIDE DEF q
<1>10. q \in Seq(CardType)
  BY <1>8, <1>9
<1>11. \A t \in CardTask : ~Doubled(q, t)
  BY <1>6, <1>9 DEF Doubled
<1>12. CardsTypeOK'
  <2>1. cardLoad' \in [phase : {"sent", "read", "done", "failed"}, cards : Seq(CardType)]
    BY <1>2, <1>10
  <2> QED BY <1>1, <1>2, <2>1 DEF CardsTypeOK
<1>13. ServerInv' /\ \A c : IsCommitted(c)' <=> IsCommitted(c)
  BY <1>2, ServerStays
<1>14. StreamInv'
  BY <1>2, <1>3, StreamStays DEF StampsOf, CardsOf
<1>15. SnapshotFirst'
  BY <1>2, <1>7, <1>9, <1>13 DEF CardsInv, SnapshotFirst
<1>16. CardLists'
  BY <1>2, <1>11 DEF CardsInv, CardLists, Single, Stamped
<1>17. AnswersAreCommits' /\ GuessesAwaitAnswer'
  BY <1>2, <1>13 DEF CardsInv, AnswersAreCommits, GuessesAwaitAnswer
<1> QED BY <1>12, <1>13, <1>14, <1>15, <1>16, <1>17 DEF CardsInv

LEMMA SnapshotSetKeeps ==
  ASSUME CardsInv, SnapshotSet
  PROVE  CardsInv'
<1>1. CardsTypeOK /\ ServerInv
  BY DEF CardsInv
<1>2. /\ cardLoad.phase = "read" /\ tasks' = cardLoad.cards
      /\ cardLoad' = [phase |-> "done", cards |-> <<>>]
      /\ UNCHANGED <<taskRow, taskLog, clock, slowWrites, taskConn, cardReqs, cardEvents,
                     staleCause>>
  BY DEF SnapshotSet
<1>3. tasks = <<>> /\ cardReqs = {} /\ ~taskConn.up /\ \A c \in ToSet(cardLoad.cards) : IsCommitted(c)
  BY <1>2 DEF CardsInv, SnapshotFirst
<1>4. <<>> \in Seq(CardType) /\ ToSet(<<>>) = {} /\ cardLoad.cards \in Seq(CardType)
  BY <1>1, CardTypes DEF ToSet
<1>5. CardsTypeOK'
  <2>1. cardLoad' \in [phase : {"sent", "read", "done", "failed"}, cards : Seq(CardType)]
    BY <1>2, <1>4
  <2>2. tasks' \in Seq(CardType)
    BY <1>2, <1>4
  <2> QED BY <1>1, <1>2, <2>1, <2>2 DEF CardsTypeOK
<1>6. ServerInv' /\ \A c : IsCommitted(c)' <=> IsCommitted(c)
  BY <1>2, ServerStays
<1>7. StreamInv'
  BY <1>2, <1>3 DEF StreamInv, WireOfCommits, OlderIsFollowed, ShownOrComing
<1>8. SnapshotFirst'
  BY <1>2, <1>4 DEF SnapshotFirst
<1>9. CardLists'
  <2>1. Single(tasks)'
    BY <1>2 DEF CardsInv, CardLists, Single
  <2>2. Stamped(tasks)'
    BY <1>2, <1>3 DEF Stamped, IsCommitted
  <2>3. Single(cardLoad.cards)'
    BY <1>2 DEF Single, Doubled
  <2> QED BY <1>2, <1>3, <2>1, <2>2, <2>3 DEF CardLists
<1>10. AnswersAreCommits' /\ GuessesAwaitAnswer'
  BY <1>2, <1>3, <1>6 DEF AnswersAreCommits, GuessesAwaitAnswer
<1> QED BY <1>5, <1>6, <1>7, <1>8, <1>9, <1>10 DEF CardsInv

LEMMA SnapshotFailsKeeps ==
  ASSUME CardsInv, SnapshotFails
  PROVE  CardsInv'
<1>1. CardsTypeOK
  BY DEF CardsInv
<1>2. /\ cardLoad.phase # "done" /\ cardLoad' = [phase |-> "failed", cards |-> <<>>]
      /\ UNCHANGED <<taskRow, taskLog, clock, slowWrites, tasks, taskConn, cardReqs, cardEvents,
                     staleCause>>
  BY DEF SnapshotFails
<1>3. tasks = <<>> /\ cardReqs = {} /\ ~taskConn.up
  BY <1>2 DEF CardsInv, SnapshotFirst
<1>4. <<>> \in Seq(CardType) /\ ToSet(<<>>) = {}
  BY DEF ToSet
<1>5. CardsTypeOK'
  <2>1. cardLoad' \in [phase : {"sent", "read", "done", "failed"}, cards : Seq(CardType)]
    BY <1>2, <1>4
  <2> QED BY <1>1, <1>2, <2>1 DEF CardsTypeOK
<1>6. ServerInv'
  BY <1>2, ServerStays
<1>7. StreamInv'
  BY <1>2, <1>3 DEF StreamInv, WireOfCommits, OlderIsFollowed, ShownOrComing
<1>8. SnapshotFirst'
  BY <1>2, <1>3, <1>4 DEF SnapshotFirst
<1>9. CardLists'
  BY <1>2 DEF CardsInv, CardLists, Single, Stamped, Doubled
<1>10. AnswersAreCommits' /\ GuessesAwaitAnswer'
  BY <1>2, <1>3, <1>4 DEF AnswersAreCommits, GuessesAwaitAnswer
<1> QED BY <1>5, <1>6, <1>7, <1>8, <1>9, <1>10 DEF CardsInv

\* The newest stamp shown is no newer than the server's clock.
LEMMA LatestTaskIs ==
  ASSUME CardsInv
  PROVE  LatestTask \in Nat /\ LatestTask <= clock
<1> DEFINE S == {0} \cup {c.at : c \in ToSet(tasks)}
<1>1. CardsTypeOK /\ StampsApart
  BY DEF CardsInv, ServerInv
<1>2. clock \in Nat /\ 0 <= clock
  BY <1>1, CardTypes
<1>3. \A c \in ToSet(tasks) : c.at \in Nat /\ c.at <= clock
  BY <1>1, CardTypes DEF CardsInv, CardLists, Stamped, StampsApart
<1>4. S \in SUBSET Nat /\ S # {} /\ \A x \in S : x <= clock
  BY <1>2, <1>3
<1>5. Max(S) \in S
  <2> HIDE DEF S
  <2> QED BY <1>2, <1>4, MaxIs
<1> HIDE DEF S
<1>6. Max(S) \in Nat /\ Max(S) <= clock
  BY <1>4, <1>5
<1> QED BY <1>6 DEF S, LatestTask

LEMMA ConnectTasksKeeps ==
  ASSUME CardsInv, ConnectTasks
  PROVE  CardsInv'
<1> DEFINE since == IF LatestTask = 0 THEN clock + 1 ELSE LatestTask
           Streamed(t) == \E i \in DOMAIN taskLog : taskLog[i].t = t /\ taskLog[i].at >= since
           leapt == {t \in CardTask : LiveTask(t) /\ ~CardInSync(t) /\ ~Streamed(t)}
<1>1. CardsTypeOK
  BY DEF CardsInv
<1>2. /\ cardLoad.phase = "done" /\ taskConn' = [NoTaskStream EXCEPT !.up = TRUE, !.since = since]
      /\ staleCause' = BecauseOf(leapt, "leapt")
      /\ UNCHANGED <<taskRow, taskLog, clock, slowWrites, cardLoad, tasks, cardReqs, cardEvents>>
  BY DEF ConnectTasks
<1>3. clock \in Nat /\ since \in Nat /\ since <= clock + 1
  <2>1. clock \in Nat
    BY <1>1, CardTypes
  <2>2. LatestTask \in Nat /\ LatestTask <= clock
    BY LatestTaskIs
  <2> QED BY <2>1, <2>2
<1>4. taskConn' = [up |-> TRUE, since |-> since, seen |-> {}, wire |-> <<>>]
  BY <1>2 DEF NoTaskStream
<1>5. /\ staleCause' \in [CardTask -> SUBSET CardCause]
      /\ \A u \in CardTask : /\ staleCause[u] \subseteq staleCause'[u]
                             /\ u \in leapt => staleCause'[u] # {}
  <2>1. staleCause \in [CardTask -> SUBSET CardCause]
    BY <1>1 DEF CardsTypeOK
  <2> HIDE DEF leapt
  <2> QED BY <1>2, <2>1 DEF BecauseOf, CardCause
<1>6. \A u \in CardTask : LiveTask(u) /\ staleCause'[u] = {} => CardInSync(u) \/ Streamed(u)
  BY <1>5
<1> HIDE DEF since, leapt
<1>7. CardsTypeOK'
  <2>1. taskConn' \in [up : BOOLEAN, since : Nat, seen : SUBSET Nat, wire : Seq(CardType)]
    BY <1>3, <1>4
  <2>2. UNCHANGED <<taskRow, taskLog, clock, slowWrites, cardLoad, tasks, cardReqs, cardEvents>>
    BY <1>2
  <2> QED BY <1>1, <1>5, <2>1, <2>2 DEF CardsTypeOK
<1>8. ServerInv' /\ \A c : IsCommitted(c)' <=> IsCommitted(c)
  BY <1>2, <1>5, ServerStays
<1>9. StreamInv'
  <2>0. /\ taskConn'.up /\ taskConn'.since = since /\ taskConn'.seen = {}
        /\ ToSet(taskConn'.wire) = {} /\ DOMAIN taskConn'.wire = {}
    BY <1>4 DEF ToSet
  <2>1. WireOfCommits'
    BY <1>2, <1>3, <2>0 DEF WireOfCommits
  <2>2. OlderIsFollowed'
    BY <2>0 DEF OlderIsFollowed, CardsOf
  <2>3. ShownOrComing'
    <3> SUFFICES ASSUME NEW u \in CardTask, LiveTask(u), staleCause'[u] = {}, ~Coming(u)'
                 PROVE  StampsOf(tasks, u)' = {taskRow[u].at}
      BY <1>2 DEF ShownOrComing, LiveTask
    <3>1. CASE Streamed(u)
      <4>1. PICK i \in DOMAIN taskLog : taskLog[i].t = u /\ taskLog[i].at >= since
        BY <3>1
      <4>2. i \in FreshEvents'
        BY <1>2, <2>0, <4>1 DEF FreshEvents, LiveTask
      <4> QED BY <1>2, <4>1, <4>2 DEF Coming
    <3>2. CASE CardInSync(u)
      <4>1. CardsOf(tasks, u) = {CardNow(u)}
        BY <3>2 DEF CardInSync
      <4>2. CardNow(u).at = taskRow[u].at
        BY DEF CardNow, CardOf
      <4>3. StampsOf(tasks, u) = {taskRow[u].at}
        BY <4>1, <4>2 DEF StampsOf
      <4> QED BY <1>2, <4>3 DEF StampsOf, CardsOf
    <3> QED BY <1>6, <3>1, <3>2
  <2> QED BY <2>1, <2>2, <2>3 DEF StreamInv
<1>10. SnapshotFirst' /\ CardLists' /\ AnswersAreCommits' /\ GuessesAwaitAnswer'
  <2>1. \A r \in cardReqs : r.t \in CardTask
    BY <1>1, CardTypes
  <2> QED BY <1>2, <1>5, <1>8, <2>1, ListsKept
<1> QED BY <1>7, <1>8, <1>9, <1>10 DEF CardsInv

LEMMA LoseTasksKeeps ==
  ASSUME CardsInv, LoseTasks
  PROVE  CardsInv'
<1> DEFINE lost == {t \in CardTask : \E i \in DOMAIN taskConn.wire :
                                        taskConn.wire[i].t = t /\ ~LiveTask(t)}
<1>1. CardsTypeOK
  BY DEF CardsInv
<1>2. /\ taskConn.up /\ cardEvents' = cardEvents + 1 /\ taskConn' = NoTaskStream
      /\ staleCause' = BecauseOf(lost, "deleted")
      /\ UNCHANGED <<taskRow, taskLog, clock, slowWrites, cardLoad, tasks, cardReqs>>
  BY DEF LoseTasks
<1> HIDE DEF lost
<1>3. /\ staleCause' \in [CardTask -> SUBSET CardCause]
      /\ \A u \in CardTask : staleCause[u] \subseteq staleCause'[u]
  <2>1. staleCause \in [CardTask -> SUBSET CardCause]
    BY <1>1 DEF CardsTypeOK
  <2> QED BY <1>2, <2>1 DEF BecauseOf, CardCause
<1>4. CardsTypeOK'
  <2>1. taskConn' \in [up : BOOLEAN, since : Nat, seen : SUBSET Nat, wire : Seq(CardType)]
    BY <1>2 DEF NoTaskStream
  <2>2. cardEvents' \in Nat
    BY <1>1, <1>2 DEF CardsTypeOK
  <2>3. UNCHANGED <<taskRow, taskLog, clock, slowWrites, cardLoad, tasks, cardReqs>>
    BY <1>2
  <2> QED BY <1>1, <1>3, <2>1, <2>2, <2>3 DEF CardsTypeOK
<1>5. ServerInv' /\ \A c : IsCommitted(c)' <=> IsCommitted(c)
  BY <1>2, <1>3, ServerStays
<1>6. StreamInv'
  BY <1>2 DEF NoTaskStream, StreamInv, WireOfCommits, OlderIsFollowed, ShownOrComing
<1>7. SnapshotFirst' /\ CardLists' /\ AnswersAreCommits' /\ GuessesAwaitAnswer'
  <2>1. \A r \in cardReqs : r.t \in CardTask
    BY <1>1, CardTypes
  <2>2. cardLoad.phase # "done" => cardReqs' = {} /\ ~taskConn'.up
    BY <1>2 DEF CardsInv, SnapshotFirst
  <2> QED BY <1>2, <1>3, <1>5, <2>1, <2>2, ListsKept
<1> QED BY <1>4, <1>5, <1>6, <1>7 DEF CardsInv

\* What the wire carries once more cards are put on it.
LEMMA BothIs ==
  ASSUME NEW a \in Seq(CardType), NEW b \in Seq(CardType)
  PROVE  ToSet(a \o b) = ToSet(a) \cup ToSet(b)
<1> DEFINE q == a \o b
<1>1. /\ DOMAIN a = 1..Len(a) /\ Len(a) \in Nat /\ DOMAIN b = 1..Len(b) /\ Len(b) \in Nat
      /\ DOMAIN q = 1..(Len(a) + Len(b))
  OBVIOUS
<1>2. /\ \A i \in DOMAIN a : i \in DOMAIN q /\ q[i] = a[i]
      /\ \A i \in DOMAIN b : i + Len(a) \in DOMAIN q /\ q[i + Len(a)] = b[i]
  OBVIOUS
<1>3. \A i \in DOMAIN q : i \in DOMAIN a \/ i - Len(a) \in DOMAIN b
  BY <1>1
<1>4. \A i \in DOMAIN q : i - Len(a) + Len(a) = i
  BY <1>1
<1> HIDE DEF q
<1>5. \A i \in DOMAIN q : \/ \E k \in DOMAIN a : q[i] = a[k]
                          \/ \E k \in DOMAIN b : q[i] = b[k]
  BY <1>2, <1>3, <1>4
<1>6. ToSet(q) = ToSet(a) \cup ToSet(b)
  BY <1>2, <1>5 DEF ToSet
<1> QED BY <1>6 DEF q

LEMMA PollTasksKeeps ==
  ASSUME CardsInv, PollTasks
  PROVE  CardsInv'
<1> DEFINE stamps == {taskLog[i].at : i \in FreshEvents}
           news == Ascending(stamps)
           new == [k \in DOMAIN news |-> CardNow(taskLog[CommitOrder(news[k])].t)]
           since == Max({taskConn.since} \cup stamps)
           fresh == {CardNow(taskLog[i].t) : i \in FreshEvents}
<1>1. CardsTypeOK /\ StampsApart /\ RowIsLast /\ StreamInv
  BY DEF CardsInv, ServerInv
<1>2. /\ taskConn.up
      /\ taskConn' = [taskConn EXCEPT !.since = since, !.seen = @ \cup stamps, !.wire = @ \o new]
      /\ UNCHANGED <<taskRow, taskLog, clock, slowWrites, cardLoad, tasks, cardReqs, cardEvents,
                     staleCause>>
  BY DEF PollTasks
<1>3. /\ clock \in Nat /\ taskConn.since \in Nat /\ taskConn.seen \in SUBSET Nat
      /\ taskConn.wire \in Seq(CardType) /\ taskConn.since <= clock + 1
  BY <1>1, <1>2, CardTypes DEF StreamInv, WireOfCommits
<1>4. \A i \in FreshEvents : /\ i \in DOMAIN taskLog /\ LiveTask(taskLog[i].t)
                             /\ taskLog[i].t \in CardTask
                             /\ taskLog[i].at \in Nat \ {0} /\ taskLog[i].at <= clock
  BY <1>1, CardTypes DEF FreshEvents, StampsApart
<1>5. stamps \in SUBSET (1..clock)
  BY <1>3, <1>4
<1>6. /\ since \in Nat /\ taskConn.since <= since /\ since <= clock + 1
  <2> HIDE DEF stamps
  <2> DEFINE M == {taskConn.since} \cup stamps
  <2>1. M \in SUBSET Nat /\ M # {} /\ \A x \in M : x <= clock + 1
    <3>1. \A x \in stamps : x \in Nat /\ x <= clock + 1
      BY <1>3, <1>5
    <3> QED BY <1>3, <3>1
  <2>2. clock + 1 \in Nat /\ taskConn.since \in M
    BY <1>3
  <2> HIDE DEF M
  <2>3. Max(M) \in M /\ \A x \in M : x <= Max(M)
    BY <2>1, <2>2, MaxIs
  <2>4. Max(M) \in Nat /\ taskConn.since <= Max(M) /\ Max(M) <= clock + 1
    BY <2>1, <2>2, <2>3
  <2> QED BY <2>4 DEF M
<1>7. \A i \in FreshEvents : CommitOrder(taskLog[i].at) = i
  <2> SUFFICES ASSUME NEW i \in FreshEvents PROVE CommitOrder(taskLog[i].at) = i
    OBVIOUS
  <2>1. \A k \in DOMAIN taskLog : taskLog[k].at = taskLog[i].at <=> k = i
    BY <1>1, <1>4 DEF StampsApart
  <2> QED BY <1>4, <2>1 DEF CommitOrder
<1>8. news \in Seq(stamps) /\ ToSet(news) = stamps
  <2> HIDE DEF stamps
  <2> QED BY <1>3, <1>5, AscendingIs
<1>9. \A t \in CardTask : LiveTask(t) => CardNow(t) \in CardType /\ IsCommitted(CardNow(t))
  BY <1>1 DEF RowIsLast, IsCommitted, CardsTypeOK
<1>10. \A c \in fresh : c \in CardType /\ IsCommitted(c) /\ c.t \in CardTask /\ c = CardNow(c.t)
  <2> SUFFICES ASSUME NEW i \in FreshEvents
               PROVE  LET c == CardNow(taskLog[i].t)
                      IN  c \in CardType /\ IsCommitted(c) /\ c.t \in CardTask /\ c = CardNow(c.t)
    OBVIOUS
  <2>1. CardNow(taskLog[i].t).t = taskLog[i].t
    BY DEF CardNow, CardOf
  <2> QED BY <1>4, <1>9, <2>1
<1>11. new \in Seq(CardType) /\ ToSet(new) = fresh
  <2>1. DOMAIN news = 1..Len(news) /\ Len(news) \in Nat
        /\ \A k \in DOMAIN news : \E i \in FreshEvents : news[k] = taskLog[i].at
    <3>1. DOMAIN news = 1..Len(news) /\ Len(news) \in Nat /\ \A k \in DOMAIN news : news[k] \in stamps
      <4> HIDE DEF news, stamps
      <4> QED BY <1>8
    <3> HIDE DEF news
    <3> QED BY <3>1
  <2>2. \A i \in FreshEvents : \E k \in DOMAIN news : news[k] = taskLog[i].at
    <3>1. \A i \in FreshEvents : taskLog[i].at \in ToSet(news)
      BY <1>8
    <3> HIDE DEF news
    <3> QED BY <3>1 DEF ToSet
  <2> HIDE DEF news
  <2>3. \A k \in DOMAIN news : new[k] \in fresh
    BY <1>7, <2>1
  <2>4. \A c \in fresh : \E k \in DOMAIN news : new[k] = c
    BY <1>7, <2>2
  <2>5. DOMAIN new = 1..Len(news)
    BY <2>1
  <2> HIDE DEF new, fresh
  <2>6. DOMAIN new = 1..Len(news) /\ \A k \in DOMAIN new : new[k] \in CardType
    BY <1>10, <2>1, <2>3, <2>5
  <2>7. new \in Seq(CardType)
    <3>1. new = [k \in 1..Len(news) |-> new[k]]
      BY <2>1, <2>5 DEF new
    <3> QED BY <2>1, <2>6, <3>1
  <2>8. ToSet(new) = fresh
    BY <2>1, <2>3, <2>4, <2>5 DEF ToSet
  <2> QED BY <2>7, <2>8
<1> HIDE DEF news, new, since
<1>12. /\ taskConn'.up /\ taskConn'.since = since /\ taskConn'.seen = taskConn.seen \cup stamps
       /\ taskConn'.wire = taskConn.wire \o new
       /\ taskConn' \in [up : BOOLEAN, since : Nat, seen : SUBSET Nat, wire : Seq(CardType)]
  <2>1. taskConn \in [up : BOOLEAN, since : Nat, seen : SUBSET Nat, wire : Seq(CardType)]
    BY <1>1 DEF CardsTypeOK
  <2>2. taskConn.wire \o new \in Seq(CardType) /\ taskConn.seen \cup stamps \in SUBSET Nat
    BY <1>3, <1>5, <1>11
  <2> HIDE DEF stamps
  <2> QED BY <1>2, <1>6, <2>1, <2>2
<1>13. ToSet(taskConn'.wire) = ToSet(taskConn.wire) \cup fresh
  BY <1>3, <1>11, <1>12, BothIs
<1>14. FreshEvents' = {}
  <2> SUFFICES ASSUME NEW i \in FreshEvents' PROVE FALSE
    OBVIOUS
  <2>1. i \in DOMAIN taskLog /\ taskLog[i].at >= since /\ taskLog[i].at \notin taskConn.seen
        /\ taskLog[i].at \notin stamps /\ LiveTask(taskLog[i].t) /\ taskLog[i].at \in Nat
    BY <1>1, <1>2, <1>12, CardTypes DEF FreshEvents, LiveTask
  <2>2. i \in FreshEvents
    BY <1>3, <1>6, <2>1 DEF FreshEvents
  <2> QED BY <2>1, <2>2
<1>15. \A u : LiveTask(u)' = LiveTask(u) /\ CardNow(u)' = CardNow(u)
  BY <1>2 DEF LiveTask, CardNow
<1>16. \A u \in CardTask : Coming(u) => Coming(u)'
  <2> SUFFICES ASSUME NEW u \in CardTask, Coming(u) PROVE CardNow(u) \in ToSet(taskConn'.wire)
    BY <1>15 DEF Coming
  <2>1. ASSUME NEW i \in FreshEvents, taskLog[i].t = u PROVE CardNow(u) \in fresh
    BY <2>1
  <2> HIDE DEF fresh
  <2> QED BY <1>13, <2>1 DEF Coming
<1>17. CardsTypeOK'
  <2>1. UNCHANGED <<taskRow, taskLog, clock, slowWrites, cardLoad, tasks, cardReqs, cardEvents,
                    staleCause>>
    BY <1>2
  <2> QED BY <1>1, <1>12, <2>1 DEF CardsTypeOK
<1>18. ServerInv' /\ \A c : IsCommitted(c)' <=> IsCommitted(c)
  BY <1>2, ServerStays
<1>19. WireOfCommits'
  <2>1. taskConn'.since <= clock' + 1
    BY <1>2, <1>6, <1>12
  <2>2. \A n \in taskConn'.seen : \E i \in DOMAIN taskLog' : taskLog'[i].at = n
    BY <1>1, <1>2, <1>4, <1>12 DEF StreamInv, WireOfCommits
  <2>3. \A c \in ToSet(taskConn'.wire) : IsCommitted(c)'
    BY <1>1, <1>2, <1>10, <1>13, <1>18 DEF StreamInv, WireOfCommits
  <2>4. ASSUME NEW i \in DOMAIN taskConn'.wire, NEW j \in DOMAIN taskConn'.wire, i < j,
               taskConn'.wire[i].t = taskConn'.wire[j].t,
               taskConn'.wire[i] = CardNow(taskConn'.wire[i].t)
        PROVE  taskConn'.wire[j] = taskConn'.wire[i]
    <3>1. CASE j \in DOMAIN taskConn.wire
      <4>1. i \in DOMAIN taskConn.wire
        BY <1>3, <1>11, <1>12, <2>4, <3>1
      <4>2. taskConn'.wire[i] = taskConn.wire[i] /\ taskConn'.wire[j] = taskConn.wire[j]
        BY <1>3, <1>11, <1>12, <3>1, <4>1
      <4> QED BY <1>1, <1>2, <2>4, <3>1, <4>1, <4>2 DEF StreamInv, WireOfCommits
    <3>2. CASE j \notin DOMAIN taskConn.wire
      <4>1. j - Len(taskConn.wire) \in DOMAIN new
            /\ taskConn'.wire[j] = new[j - Len(taskConn.wire)]
        BY <1>3, <1>11, <1>12, <3>2
      <4>2. taskConn'.wire[j] \in fresh
        BY <1>11, <4>1 DEF ToSet
      <4> HIDE DEF fresh
      <4>3. taskConn'.wire[j] = CardNow(taskConn'.wire[j].t)
        BY <1>10, <4>2
      <4> QED BY <2>4, <4>3
    <3> QED BY <3>1, <3>2
  <2> QED BY <1>15, <2>1, <2>2, <2>3, <2>4 DEF WireOfCommits
<1>20. OlderIsFollowed'
  <2> SUFFICES ASSUME NEW u \in CardTask, LiveTask(u), ~Coming(u)',
                      CardsOf(taskConn'.wire, u) # {}
               PROVE  "slow" \in staleCause'[u] /\ NotAnswered(u)'
    BY <1>15 DEF OlderIsFollowed, CardsOf
  <2>1. \A c \in fresh : c.t # u
    <3> HIDE DEF fresh
    <3> QED BY <1>10, <1>13, <1>15 DEF Coming
  <2> HIDE DEF fresh
  <2>2. CardsOf(taskConn.wire, u) # {}
    BY <1>13, <2>1 DEF CardsOf
  <2>3. "slow" \in staleCause[u] /\ NotAnswered(u)
    BY <1>1, <1>2, <1>16, <2>2 DEF StreamInv, OlderIsFollowed
  <2> QED BY <1>2, <2>3 DEF NotAnswered
<1>21. ShownOrComing'
  <2> SUFFICES ASSUME NEW u \in CardTask, LiveTask(u), staleCause[u] = {}, ~Coming(u)'
               PROVE  StampsOf(tasks, u)' = {taskRow[u].at}
    BY <1>2, <1>15 DEF ShownOrComing
  <2>1. StampsOf(tasks, u) = {taskRow[u].at}
    BY <1>1, <1>2, <1>16 DEF StreamInv, ShownOrComing
  <2> QED BY <1>2, <2>1 DEF StampsOf, CardsOf
<1>22. SnapshotFirst' /\ CardLists' /\ AnswersAreCommits' /\ GuessesAwaitAnswer'
  <2>1. \A r \in cardReqs : r.t \in CardTask
    BY <1>1, CardTypes
  <2>2. cardLoad.phase # "done" => cardReqs' = {} /\ ~taskConn'.up
    BY <1>2 DEF CardsInv, SnapshotFirst
  <2> QED BY <1>2, <1>18, <2>1, <2>2, ListsKept
<1> QED BY <1>17, <1>18, <1>19, <1>20, <1>21, <1>22 DEF CardsInv, StreamInv

\* What stays on the wire behind its first card.
LEMMA BehindHead ==
  ASSUME NEW q \in Seq(CardType), q # <<>>
  PROVE  /\ Head(q) = q[1] /\ Head(q) \in CardType /\ Head(q) \in ToSet(q) /\ 1 \in DOMAIN q
         /\ Tail(q) \in Seq(CardType)
         /\ ToSet(q) = ToSet(Tail(q)) \cup {Head(q)}
         /\ \A i \in DOMAIN Tail(q) : i + 1 \in DOMAIN q /\ Tail(q)[i] = q[i + 1] /\ 1 < i + 1
<1> DEFINE p == Tail(q)
<1>1. /\ Len(q) \in Nat \ {0} /\ DOMAIN q = 1..Len(q) /\ Head(q) = q[1] /\ 1 \in DOMAIN q
      /\ q[1] \in CardType
  OBVIOUS
<1>2. /\ p \in Seq(CardType) /\ DOMAIN p = 1..(Len(q) - 1)
      /\ \A i \in DOMAIN p : p[i] = q[i + 1]
  OBVIOUS
<1>3. \A i \in DOMAIN p : i + 1 \in DOMAIN q /\ 1 < i + 1
  BY <1>1, <1>2
<1>4. \A i \in DOMAIN q : i = 1 \/ (i - 1 \in DOMAIN p /\ (i - 1) + 1 = i)
  BY <1>1, <1>2
<1> HIDE DEF p
<1>5. \A i \in DOMAIN q : i = 1 \/ \E k \in DOMAIN p : q[i] = p[k]
  BY <1>2, <1>4
<1>6. ToSet(q) = ToSet(p) \cup {q[1]}
  BY <1>1, <1>2, <1>3, <1>5 DEF ToSet
<1> QED BY <1>1, <1>2, <1>3, <1>6 DEF p

\* A card that shows the row of its task settles the causes, if it is the only one.
LEMMA SettledIs ==
  ASSUME CardsTypeOK, NEW t \in CardTask, NEW c, staleCause' = CauseSettled(t, c)
  PROVE  /\ staleCause' \in [CardTask -> SUBSET CardCause]
         /\ \A u \in CardTask : u # t => staleCause'[u] = staleCause[u]
         /\ \A u \in CardTask : "twice" \in staleCause[u] => "twice" \in staleCause'[u]
         /\ \/ staleCause'[t] = staleCause[t] /\ (c = CardNow(t) => "twice" \in staleCause[t])
            \/ staleCause'[t] = {} /\ c = CardNow(t) /\ "twice" \notin staleCause[t]
<1>1. staleCause \in [CardTask -> SUBSET CardCause]
  BY DEF CardsTypeOK
<1>2. staleCause' = [staleCause EXCEPT ![t] = IF c = CardNow(t) /\ "twice" \notin staleCause[t]
                                              THEN {} ELSE staleCause[t]]
  BY DEF CauseSettled
<1>3. \A u \in CardTask : u # t => staleCause'[u] = staleCause[u]
  BY <1>1, <1>2
<1>4. staleCause'[t] = IF c = CardNow(t) /\ "twice" \notin staleCause[t] THEN {} ELSE staleCause[t]
  BY <1>1, <1>2
<1>5. staleCause' \in [CardTask -> SUBSET CardCause]
  BY <1>1, <1>2
<1> QED BY <1>3, <1>4, <1>5

LEMMA TaskStreamedKeeps ==
  ASSUME CardsInv, TaskStreamed
  PROVE  CardsInv'
<1> DEFINE c == Head(taskConn.wire)
<1>1. CardsTypeOK /\ ServerInv /\ StreamInv
  BY DEF CardsInv
<1>2. /\ taskConn.up /\ taskConn.wire # <<>> /\ tasks' = MergedCards(tasks, c)
      /\ staleCause' = IF LiveTask(c.t) THEN CauseSettled(c.t, c) ELSE BecauseOf({c.t}, "deleted")
      /\ taskConn' = [taskConn EXCEPT !.wire = Tail(@)]
      /\ UNCHANGED <<taskRow, taskLog, clock, slowWrites, cardLoad, cardReqs, cardEvents>>
  BY DEF TaskStreamed
<1>3. /\ taskConn.wire \in Seq(CardType) /\ tasks \in Seq(CardType)
      /\ staleCause \in [CardTask -> SUBSET CardCause]
      /\ taskConn \in [up : BOOLEAN, since : Nat, seen : SUBSET Nat, wire : Seq(CardType)]
  BY <1>1 DEF CardsTypeOK
<1>4. /\ c = taskConn.wire[1] /\ c \in CardType /\ c \in ToSet(taskConn.wire)
      /\ 1 \in DOMAIN taskConn.wire /\ Tail(taskConn.wire) \in Seq(CardType)
      /\ ToSet(taskConn.wire) = ToSet(Tail(taskConn.wire)) \cup {c}
      /\ \A i \in DOMAIN Tail(taskConn.wire) :
            /\ i + 1 \in DOMAIN taskConn.wire /\ 1 < i + 1
            /\ Tail(taskConn.wire)[i] = taskConn.wire[i + 1]
  BY <1>2, <1>3, BehindHead
<1> HIDE DEF c
<1>5. c.t \in CardTask /\ IsCommitted(c) /\ cardLoad.phase = "done"
  BY <1>1, <1>2, <1>4 DEF CardType, StreamInv, WireOfCommits, CardsInv, SnapshotFirst
<1>6. /\ taskConn'.up /\ taskConn'.since = taskConn.since /\ taskConn'.seen = taskConn.seen
      /\ taskConn'.wire = Tail(taskConn.wire)
      /\ taskConn' \in [up : BOOLEAN, since : Nat, seen : SUBSET Nat, wire : Seq(CardType)]
  BY <1>2, <1>3, <1>4
<1>7. /\ staleCause' \in [CardTask -> SUBSET CardCause]
      /\ \A u \in CardTask : u # c.t => staleCause'[u] = staleCause[u]
      /\ \A u \in CardTask : "twice" \in staleCause[u] => "twice" \in staleCause'[u]
      /\ \/ staleCause[c.t] \subseteq staleCause'[c.t] /\ ~LiveTask(c.t)
         \/ /\ staleCause'[c.t] = staleCause[c.t]
            /\ c = CardNow(c.t) => "twice" \in staleCause[c.t]
         \/ /\ staleCause'[c.t] = {} /\ LiveTask(c.t)
            /\ c = CardNow(c.t) /\ "twice" \notin staleCause[c.t]
  <2>1. CASE LiveTask(c.t)
    BY <1>1, <1>2, <1>5, <2>1, SettledIs
  <2>2. CASE ~LiveTask(c.t)
    <3>1. staleCause' = BecauseOf({c.t}, "deleted")
      BY <1>2, <2>2
    <3>2. /\ staleCause' \in [CardTask -> SUBSET CardCause]
          /\ \A u \in CardTask : u # c.t => staleCause'[u] = staleCause[u]
          /\ \A u \in CardTask : staleCause[u] \subseteq staleCause'[u]
      BY <1>3, <3>1 DEF BecauseOf, CardCause
    <3> QED BY <1>5, <2>2, <3>2
  <2> QED BY <2>1, <2>2
<1>8. /\ tasks' \in Seq(CardType) /\ ToSet(tasks') \subseteq ToSet(tasks) \cup {c}
      /\ \A t \in CardTask : t # c.t => CardsOf(tasks', t) = CardsOf(tasks, t)
      /\ ~Doubled(tasks, c.t) => CardsOf(tasks', c.t) = {c}
      /\ \A t \in CardTask : Doubled(tasks', t) => Doubled(tasks, t)
  <2> DEFINE q == MergedCards(tasks, c)
  <2>1. /\ q \in Seq(CardType) /\ ToSet(q) \subseteq ToSet(tasks) \cup {c}
        /\ \A t \in CardTask : t # c.t => CardsOf(q, t) = CardsOf(tasks, t)
        /\ ~Doubled(tasks, c.t) => CardsOf(q, c.t) = {c}
        /\ \A t \in CardTask : Doubled(q, t) => Doubled(tasks, t)
    BY <1>3, <1>4, MergedIs
  <2>2. tasks' = q
    BY <1>2
  <2> HIDE DEF q
  <2> QED BY <2>1, <2>2
<1>9. CardsTypeOK'
  <2>1. UNCHANGED <<taskRow, taskLog, clock, slowWrites, cardLoad, cardReqs, cardEvents>>
    BY <1>2
  <2> QED BY <1>1, <1>6, <1>7, <1>8, <2>1 DEF CardsTypeOK
<1>10. ServerInv' /\ \A d : IsCommitted(d)' <=> IsCommitted(d)
  <2>1. \A u \in CardTask : staleCause[u] \subseteq staleCause'[u] \/ taskRow[u].st # "deleted"
    BY <1>7 DEF LiveTask, CardStatus
  <2> QED BY <1>2, <2>1, ServerStays
<1>11. \A u : LiveTask(u)' = LiveTask(u) /\ CardNow(u)' = CardNow(u)
  BY <1>2 DEF LiveTask, CardNow
<1>12. \A u \in CardTask : LiveTask(u) /\ Coming(u) => Coming(u)' \/ (u = c.t /\ c = CardNow(u))
  <2> SUFFICES ASSUME NEW u \in CardTask, LiveTask(u), Coming(u), ~Coming(u)'
               PROVE  u = c.t /\ c = CardNow(u)
    OBVIOUS
  <2>1. \A i : i \in FreshEvents <=> i \in FreshEvents'
    BY <1>2, <1>6, <1>11 DEF FreshEvents
  <2>2. CardNow(u) \in ToSet(taskConn.wire)
    BY <1>2, <2>1 DEF Coming
  <2>3. CardNow(u) \notin ToSet(Tail(taskConn.wire))
    BY <1>6, <1>11 DEF Coming
  <2>4. CardNow(u).t = u
    BY DEF CardNow, CardOf
  <2> QED BY <1>4, <2>2, <2>3, <2>4
<1>13. WireOfCommits'
  <2>1. \A d \in ToSet(taskConn'.wire) : IsCommitted(d)'
    BY <1>1, <1>2, <1>4, <1>6, <1>10 DEF StreamInv, WireOfCommits
  <2>2. ASSUME NEW i \in DOMAIN taskConn'.wire, NEW j \in DOMAIN taskConn'.wire, i < j,
               taskConn'.wire[i].t = taskConn'.wire[j].t,
               taskConn'.wire[i] = CardNow(taskConn'.wire[i].t)
        PROVE  taskConn'.wire[j] = taskConn'.wire[i]
    <3>1. i \in Nat /\ j \in Nat /\ i + 1 < j + 1
      BY <1>4, <1>6, <2>2
    <3>2. /\ i + 1 \in DOMAIN taskConn.wire /\ j + 1 \in DOMAIN taskConn.wire
          /\ taskConn'.wire[i] = taskConn.wire[i + 1] /\ taskConn'.wire[j] = taskConn.wire[j + 1]
      BY <1>4, <1>6
    <3> QED BY <1>1, <1>2, <2>2, <3>1, <3>2 DEF StreamInv, WireOfCommits
  <2>3. /\ taskConn'.since <= clock' + 1
        /\ \A n \in taskConn'.seen : \E i \in DOMAIN taskLog' : taskLog'[i].at = n
    BY <1>1, <1>2, <1>6 DEF StreamInv, WireOfCommits
  <2> QED BY <1>11, <2>1, <2>2, <2>3 DEF WireOfCommits
<1>14. OlderIsFollowed'
  <2> SUFFICES ASSUME NEW u \in CardTask, LiveTask(u), ~Coming(u)',
                      CardsOf(taskConn'.wire, u) # {}
               PROVE  "slow" \in staleCause'[u] /\ NotAnswered(u)'
    BY <1>11 DEF OlderIsFollowed, CardsOf
  <2>1. PICK d \in ToSet(Tail(taskConn.wire)) : d.t = u
    BY <1>6 DEF CardsOf
  <2>2. c.t # u \/ c # CardNow(u)
    <3> SUFFICES ASSUME c.t = u, c = CardNow(u) PROVE FALSE
      OBVIOUS
    <3>1. PICK i \in DOMAIN Tail(taskConn.wire) : Tail(taskConn.wire)[i] = d
      BY <2>1 DEF ToSet
    <3>2. i + 1 \in DOMAIN taskConn.wire /\ taskConn.wire[i + 1] = d /\ 1 < i + 1
      BY <1>4, <3>1
    <3>3. d = c
      <4>1. /\ 1 \in DOMAIN taskConn.wire /\ taskConn.wire[1] = c
            /\ c.t = d.t /\ c = CardNow(c.t)
        BY <1>4, <2>1
      <4>2. \A k, j \in DOMAIN taskConn.wire :
              k < j /\ taskConn.wire[k].t = taskConn.wire[j].t
                    /\ taskConn.wire[k] = CardNow(taskConn.wire[k].t)
                => taskConn.wire[j] = taskConn.wire[k]
        BY <1>1, <1>2 DEF StreamInv, WireOfCommits
      <4> QED BY <3>2, <4>1, <4>2
    <3>4. CardNow(u) \in ToSet(taskConn'.wire)
      BY <1>6, <2>1, <3>3
    <3> QED BY <1>11, <3>4 DEF Coming
  <2>3. ~Coming(u)
    BY <1>12, <2>2
  <2>4. CardsOf(taskConn.wire, u) # {}
    BY <1>4, <2>1 DEF CardsOf
  <2>5. "slow" \in staleCause[u] /\ NotAnswered(u)
    BY <1>1, <1>2, <2>3, <2>4 DEF StreamInv, OlderIsFollowed
  <2>6. "slow" \in staleCause'[u]
    BY <1>7, <2>2, <2>5
  <2> QED BY <1>2, <2>5, <2>6 DEF NotAnswered
<1>15. ShownOrComing'
  <2> SUFFICES ASSUME NEW u \in CardTask, LiveTask(u), staleCause'[u] = {}, ~Coming(u)'
               PROVE  StampsOf(tasks', u) = {taskRow[u].at}
    BY <1>2, <1>11 DEF ShownOrComing, StampsOf, CardsOf
  <2>1. CASE u # c.t
    <3>1. ~Coming(u) /\ staleCause[u] = {}
      BY <1>7, <1>12, <2>1
    <3>2. StampsOf(tasks, u) = {taskRow[u].at}
      BY <1>1, <1>2, <3>1 DEF StreamInv, ShownOrComing
    <3> QED BY <1>8, <2>1, <3>2 DEF StampsOf
  <2>2. CASE u = c.t /\ c = CardNow(u)
    <3>1. "twice" \notin staleCause[u]
      BY <1>7, <2>2
    <3>2. ~Doubled(tasks, u)
      BY <3>1 DEF CardsInv, CardLists, Single
    <3>3. CardsOf(tasks', u) = {c}
      BY <1>8, <2>2, <3>2
    <3>4. c.at = taskRow[u].at
      BY <2>2 DEF CardNow, CardOf
    <3> QED BY <3>3, <3>4 DEF StampsOf
  <2>3. CASE u = c.t /\ c # CardNow(u)
    <3>1. ~Coming(u)
      BY <1>12, <2>3
    <3>2. CardsOf(taskConn.wire, u) # {}
      BY <1>4, <2>3 DEF CardsOf
    <3>3. "slow" \in staleCause[u]
      BY <1>1, <1>2, <3>1, <3>2 DEF StreamInv, OlderIsFollowed
    <3> QED BY <1>7, <2>3, <3>3
  <2> QED BY <2>1, <2>2, <2>3
<1>16. SnapshotFirst'
  BY <1>2, <1>5, <1>10 DEF CardsInv, SnapshotFirst
<1>17. CardLists'
  <2>1. \A q : Single(q) => Single(q)'
    BY <1>7 DEF Single, Doubled
  <2>2. \A q : Stamped(q) => Stamped(q)'
    BY <1>2 DEF Stamped
  <2>3. \A t \in CardTask : Doubled(tasks', t) => "twice" \in staleCause'[t]
    BY <1>7, <1>8 DEF CardsInv, CardLists, Single
  <2>4. \A d \in ToSet(tasks') : \E i \in DOMAIN taskLog' : /\ taskLog'[i].t = d.t
                                                            /\ taskLog'[i].at = d.at
    BY <1>2, <1>5, <1>8 DEF CardsInv, CardLists, Stamped, IsCommitted
  <2>5. Single(tasks)' /\ Stamped(tasks)'
    BY <2>3, <2>4 DEF Single, Doubled, Stamped
  <2>6. Single(cardLoad.cards)' /\ \A r \in cardReqs' : Single(r.before)' /\ Stamped(r.before)'
    BY <1>2, <2>1, <2>2 DEF CardsInv, CardLists, Single, Stamped
  <2> QED BY <2>5, <2>6 DEF CardLists
<1>18. AnswersAreCommits'
  BY <1>2, <1>10 DEF CardsInv, AnswersAreCommits
<1>19. GuessesAwaitAnswer'
  <2> SUFFICES ASSUME NEW d \in ToSet(tasks'), ~IsCommitted(d)
               PROVE  \/ "phantom" \in staleCause'[d.t]
                      \/ \E r \in cardReqs : r.kind = "move" /\ r.t = d.t
    BY <1>2, <1>10 DEF GuessesAwaitAnswer
  <2>1. d \in ToSet(tasks) /\ d.t \in CardTask
    BY <1>3, <1>5, <1>8, CardsIn DEF CardType
  <2>2. \/ "phantom" \in staleCause[d.t]
        \/ \E r \in cardReqs : r.kind = "move" /\ r.t = d.t
    BY <2>1 DEF CardsInv, GuessesAwaitAnswer
  <2>3. CASE d.t = c.t /\ staleCause'[c.t] = {} /\ "twice" \notin staleCause[c.t]
    <3>1. ~Doubled(tasks, c.t)
      BY <1>5, <2>3 DEF CardsInv, CardLists, Single
    <3>2. d \in CardsOf(tasks', c.t)
      BY <2>3 DEF CardsOf
    <3> QED BY <1>5, <1>8, <3>1, <3>2
  <2> QED BY <1>7, <2>1, <2>2, <2>3
<1> QED BY <1>9, <1>10, <1>13, <1>14, <1>15, <1>16, <1>17, <1>18, <1>19 DEF CardsInv, StreamInv

\* A request that leaves the cards as they are.
LEMMA SendKeeps ==
  ASSUME CardsInv, cardLoad.phase = "done",
         NEW kind \in {"save", "create", "delete"}, NEW t \in CardTask, NEW st \in CardStatus,
         SendRequest(kind, t, st, <<>>),
         UNCHANGED <<taskRow, taskLog, clock, slowWrites, cardLoad, tasks, taskConn, staleCause>>
  PROVE  CardsInv'
<1> DEFINE r == [id |-> cardEvents, kind |-> kind, t |-> t, before |-> <<>>, phase |-> "sent",
                 ok |-> FALSE, st |-> st, at |-> 0]
<1>1. CardsTypeOK
  BY DEF CardsInv
<1>2. cardEvents' = cardEvents + 1 /\ cardReqs' = cardReqs \cup {r}
  BY DEF SendRequest
<1>3. clock \in Nat /\ cardEvents \in Nat /\ <<>> \in Seq(CardType)
  BY <1>1 DEF CardsTypeOK
<1>4. r \in CardReqType /\ r.t = t /\ r.kind = kind /\ r.before = <<>> /\ ~Served(r)
  BY <1>3 DEF CardReqType, Served
<1> HIDE DEF r
<1>5. CardsTypeOK'
  <2>1. cardReqs' \subseteq CardReqType /\ cardEvents' \in Nat
    BY <1>1, <1>2, <1>3, <1>4 DEF CardsTypeOK
  <2> QED BY <1>1, <2>1 DEF CardsTypeOK
<1>6. ServerInv' /\ \A c : IsCommitted(c)' <=> IsCommitted(c)
  BY ServerStays
<1>7. \A q \in cardReqs' : Served(q) => q \in cardReqs
  BY <1>2, <1>4
<1>8. StreamInv'
  BY <1>3, <1>7, StreamStays DEF StampsOf, CardsOf
<1>9. \A q \in cardReqs' : /\ q.t \in CardTask
                           /\ q.before = <<>> \/ \E p \in cardReqs : q.before = p.before
  BY <1>1, <1>2, <1>4, CardTypes
<1>10. \A q \in cardReqs : q \in cardReqs'
  BY <1>2
<1>11. SnapshotFirst' /\ CardLists' /\ AnswersAreCommits' /\ GuessesAwaitAnswer'
  BY <1>6, <1>7, <1>9, <1>10, ListsKept
<1> QED BY <1>5, <1>6, <1>8, <1>11 DEF CardsInv

LEMMA UserKeeps ==
  ASSUME CardsInv, NEW t \in CardTask, NEW st \in CardStatus,
         HandleTaskSave(t, st) \/ HandleDeleteTask(t) \/ HandleCreateTask(t)
  PROVE  CardsInv'
<1>1. "inbox" \in CardStatus
  BY DEF CardStatus
<1>2. CASE HandleTaskSave(t, st)
  BY <1>2, SendKeeps DEF HandleTaskSave
<1>3. CASE HandleDeleteTask(t)
  BY <1>1, <1>3, SendKeeps DEF HandleDeleteTask
<1>4. CASE HandleCreateTask(t)
  BY <1>1, <1>4, SendKeeps DEF HandleCreateTask
<1> QED BY <1>2, <1>3, <1>4

LEMMA HandleTaskMoveKeeps ==
  ASSUME CardsInv, NEW t \in CardTask, NEW st \in CardStatus, HandleTaskMove(t, st)
  PROVE  CardsInv'
<1> DEFINE r == [id |-> cardEvents, kind |-> "move", t |-> t, before |-> tasks, phase |-> "sent",
                 ok |-> FALSE, st |-> st, at |-> 0]
           q == Moved(tasks, t, st)
<1>1. CardsTypeOK
  BY DEF CardsInv
<1>2. /\ cardLoad.phase = "done" /\ tasks' = q
      /\ cardEvents' = cardEvents + 1 /\ cardReqs' = cardReqs \cup {r}
      /\ UNCHANGED <<taskRow, taskLog, clock, slowWrites, cardLoad, taskConn, staleCause>>
  BY DEF HandleTaskMove, SendRequest, Moved
<1>3. clock \in Nat /\ cardEvents \in Nat /\ tasks \in Seq(CardType)
  BY <1>1 DEF CardsTypeOK
<1>4. r \in CardReqType /\ r.t = t /\ r.kind = "move" /\ r.before = tasks /\ ~Served(r)
  BY <1>3 DEF CardReqType, Served
<1> HIDE DEF r
<1>5. /\ q \in Seq(CardType)
      /\ \A c \in ToSet(q) : \/ c \in ToSet(tasks)
                             \/ c.t = t /\ \E d \in ToSet(tasks) : d.t = t
      /\ \A u \in CardTask : StampsOf(q, u) = StampsOf(tasks, u)
      /\ \A u \in CardTask : Doubled(q, u) => Doubled(tasks, u)
  BY <1>3, MovedIs
<1> HIDE DEF q
<1>6. CardsTypeOK'
  <2>1. cardReqs' \subseteq CardReqType /\ cardEvents' \in Nat /\ tasks' \in Seq(CardType)
    BY <1>1, <1>2, <1>3, <1>4, <1>5 DEF CardsTypeOK
  <2> QED BY <1>1, <1>2, <2>1 DEF CardsTypeOK
<1>7. ServerInv' /\ \A c : IsCommitted(c)' <=> IsCommitted(c)
  BY <1>2, ServerStays
<1>8. \A p \in cardReqs' : Served(p) => p \in cardReqs
  BY <1>2, <1>4
<1>9. StreamInv'
  <2>1. \A u \in CardTask : StampsOf(tasks, u)' = StampsOf(tasks, u)
    BY <1>2, <1>5 DEF StampsOf, CardsOf
  <2> QED BY <1>2, <1>3, <1>8, <2>1, StreamStays
<1>10. SnapshotFirst'
  BY <1>2, <1>7 DEF CardsInv, SnapshotFirst
<1>11. CardLists'
  <2>1. \A c \in ToSet(q) : \E i \in DOMAIN taskLog : taskLog[i].t = c.t /\ taskLog[i].at = c.at
    <3> SUFFICES ASSUME NEW c \in ToSet(q)
                 PROVE  \E i \in DOMAIN taskLog : taskLog[i].t = c.t /\ taskLog[i].at = c.at
      OBVIOUS
    <3>1. c.t \in CardTask
      BY <1>5, CardsIn DEF CardType
    <3>2. c.at \in StampsOf(q, c.t)
      BY DEF StampsOf, CardsOf
    <3>3. c.at \in StampsOf(tasks, c.t)
      BY <1>5, <3>1, <3>2
    <3>4. PICK d \in ToSet(tasks) : d.t = c.t /\ d.at = c.at
      BY <3>3 DEF StampsOf, CardsOf
    <3> QED BY <3>4 DEF CardsInv, CardLists, Stamped
  <2>2. Single(tasks)' /\ Stamped(tasks)'
    BY <1>2, <1>5, <2>1 DEF CardsInv, CardLists, Single, Stamped
  <2>3. Single(cardLoad.cards)'
    BY <1>2 DEF CardsInv, CardLists, Single
  <2>4. \A p \in cardReqs' : Single(p.before)' /\ Stamped(p.before)'
    BY <1>2, <1>4 DEF CardsInv, CardLists, Single, Stamped
  <2> QED BY <2>2, <2>3, <2>4 DEF CardLists
<1>12. AnswersAreCommits'
  BY <1>2, <1>7, <1>8 DEF CardsInv, AnswersAreCommits
<1>13. GuessesAwaitAnswer'
  <2> SUFFICES ASSUME NEW c \in ToSet(q)
               PROVE  \/ IsCommitted(c) \/ "phantom" \in staleCause[c.t]
                      \/ \E p \in cardReqs' : p.kind = "move" /\ p.t = c.t
    BY <1>2, <1>7 DEF GuessesAwaitAnswer
  <2>1. CASE c.t = t
    BY <1>2, <1>4, <2>1
  <2>2. CASE c.t # t
    <3>1. c \in ToSet(tasks)
      BY <1>5, <2>2
    <3> QED BY <1>2, <3>1 DEF CardsInv, GuessesAwaitAnswer
  <2> QED BY <2>1, <2>2
<1> QED BY <1>6, <1>7, <1>9, <1>10, <1>11, <1>12, <1>13 DEF CardsInv

\* The server's answer to a request: what it keeps of the request.
LEMMA AnsweredIs ==
  ASSUME CardsTypeOK, NEW r \in cardReqs, NEW ok \in BOOLEAN, NEW st \in CardStatus,
         NEW at \in Nat, RequestAnswered(r, ok, st, at)
  PROVE  /\ cardReqs' \subseteq CardReqType
         /\ \E a \in cardReqs' :
               /\ a.t = r.t /\ a.kind = r.kind /\ a.before = r.before
               /\ a.ok = ok /\ a.st = st /\ a.at = at
               /\ \A q \in cardReqs' : q \in cardReqs \/ q = a
               /\ \A q \in cardReqs : q \in cardReqs' \/ q = r
<1> DEFINE a == [r EXCEPT !.phase = "answered", !.ok = ok, !.st = st, !.at = at]
<1>1. r \in CardReqType /\ cardReqs \subseteq CardReqType
  BY DEF CardsTypeOK
<1>2. /\ a \in CardReqType /\ a.t = r.t /\ a.kind = r.kind /\ a.before = r.before
      /\ a.ok = ok /\ a.st = st /\ a.at = at
  BY <1>1 DEF CardReqType
<1>3. cardReqs' = (cardReqs \ {r}) \cup {a}
  BY DEF RequestAnswered
<1> HIDE DEF a
<1> QED BY <1>1, <1>2, <1>3

LEMMA RefuseRequestKeeps ==
  ASSUME CardsInv, NEW r \in cardReqs, RefuseRequest(r)
  PROVE  CardsInv'
<1>1. CardsTypeOK
  BY DEF CardsInv
<1>2. /\ RequestAnswered(r, FALSE, r.st, 0)
      /\ UNCHANGED <<taskRow, taskLog, clock, slowWrites, cardLoad, tasks, taskConn, cardEvents,
                     staleCause>>
  BY DEF RefuseRequest
<1>3. r.st \in CardStatus /\ r.t \in CardTask /\ clock \in Nat /\ \A q \in cardReqs : q.t \in CardTask
  BY <1>1, CardTypes
<1>4. PICK a \in cardReqs' :
        /\ a.t = r.t /\ a.kind = r.kind /\ a.before = r.before
        /\ a.ok = FALSE /\ a.st = r.st /\ a.at = 0
        /\ \A q \in cardReqs' : q \in cardReqs \/ q = a
        /\ \A q \in cardReqs : q \in cardReqs' \/ q = r
  <2>1. RequestAnswered(r, FALSE, r.st, 0) /\ FALSE \in BOOLEAN /\ r.st \in CardStatus /\ 0 \in Nat
    BY <1>2, <1>3
  <2> QED BY <1>1, <2>1, AnsweredIs, Zenon
<1>5. CardsTypeOK'
  <2>1. cardReqs' \subseteq CardReqType
    BY <1>1, <1>2, <1>3, AnsweredIs
  <2> QED BY <1>1, <1>2, <2>1 DEF CardsTypeOK
<1>6. ServerInv' /\ \A c : IsCommitted(c)' <=> IsCommitted(c)
  BY <1>2, ServerStays
<1>7. \A q \in cardReqs' : Served(q) => q \in cardReqs
  BY <1>4 DEF Served
<1>8. StreamInv'
  BY <1>2, <1>3, <1>7, StreamStays DEF StampsOf, CardsOf
<1>9. SnapshotFirst' /\ CardLists' /\ AnswersAreCommits' /\ GuessesAwaitAnswer'
  <2>1. cardLoad.phase = "done"
    BY DEF CardsInv, SnapshotFirst
  <2>2. \A q \in cardReqs' : q.t \in CardTask /\ \E p \in cardReqs : q.before = p.before
    BY <1>3, <1>4
  <2>3. \A q \in cardReqs : \E p \in cardReqs' : p.kind = q.kind /\ p.t = q.t
    BY <1>4
  <2>4. \A q \in cardReqs : q.kind = "move" => \E p \in cardReqs' : p.kind = "move" /\ p.t = q.t
    BY <2>3
  <2> QED BY <1>2, <1>6, <1>7, <2>1, <2>2, <2>4, ListsKept
<1> QED BY <1>5, <1>6, <1>8, <1>9 DEF CardsInv

LEMMA ServeRequestKeeps ==
  ASSUME CardsInv, NEW r \in cardReqs, ServeRequest(r)
  PROVE  CardsInv'
<1>1. CardsTypeOK /\ StampsApart /\ RowIsLast /\ StreamInv
  BY DEF CardsInv, ServerInv
<1>2. /\ UNCHANGED <<slowWrites, cardLoad, tasks, taskConn, cardEvents>>
      /\ IF r.kind = "create" THEN taskRow[r.t].st = "unborn" ELSE LiveTask(r.t)
  BY DEF ServeRequest
<1>3. /\ r.st \in CardStatus /\ r.t \in CardTask /\ clock \in Nat
      /\ clock + 1 \in Nat /\ clock + 1 \in Nat \ {0} /\ clock <= clock + 1
      /\ \A q \in cardReqs : q.t \in CardTask
  BY <1>1, CardTypes
<1>4. PICK ok \in BOOLEAN : RequestAnswered(r, ok, r.st, clock + 1)
  BY DEF ServeRequest
<1>5. PICK a \in cardReqs' :
        /\ a.t = r.t /\ a.kind = r.kind /\ a.before = r.before /\ a.st = r.st /\ a.at = clock + 1
        /\ \A q \in cardReqs' : q \in cardReqs \/ q = a
        /\ \A q \in cardReqs : q \in cardReqs' \/ q = r
  BY <1>1, <1>3, <1>4, AnsweredIs
<1>6. cardReqs' \subseteq CardReqType
  BY <1>1, <1>3, <1>4, AnsweredIs
<1>7. cardLoad.phase = "done"
  BY DEF CardsInv, SnapshotFirst
<1>8. /\ \A q \in cardReqs' : q.t \in CardTask /\ \E p \in cardReqs : q.before = p.before
      /\ \A q \in cardReqs : q.kind = "move" => \E p \in cardReqs' : p.kind = "move" /\ p.t = q.t
      /\ \A q \in cardReqs' : Served(q) => q \in cardReqs \/ q.t = r.t
  <2>1. \A q \in cardReqs : \E p \in cardReqs' : p.kind = q.kind /\ p.t = q.t
    BY <1>5
  <2> QED BY <1>3, <1>5, <2>1
<1>9. CASE r.kind = "delete"
  <2>1. /\ taskRow' = [taskRow EXCEPT ![r.t].st = "deleted"]
        /\ staleCause' = BecauseOf({r.t}, "deleted")
        /\ UNCHANGED <<taskLog, clock>> /\ LiveTask(r.t)
    BY <1>2, <1>9 DEF ServeRequest
  <2>2. /\ ServerInv' /\ StreamInv'
        /\ taskRow' \in [CardTask -> [st : CardStatus \cup {"unborn", "deleted"}, at : Nat]]
        /\ staleCause' \in [CardTask -> SUBSET CardCause]
        /\ \A u \in CardTask : /\ staleCause[u] \subseteq staleCause'[u]
                               /\ taskRow[u].st # "unborn" => taskRow'[u].st # "unborn"
                               /\ taskRow[u].st = "deleted" => taskRow'[u].st = "deleted"
        /\ taskRow'[r.t].st = "deleted"
    BY <1>2, <1>3, <1>8, <2>1, DeleteKeeps
  <2>3. CardsTypeOK'
    <3>1. UNCHANGED <<taskLog, clock, slowWrites, cardLoad, tasks, taskConn, cardEvents>>
      BY <1>2, <2>1
    <3> QED BY <1>1, <1>6, <2>2, <3>1 DEF CardsTypeOK
  <2>4. \A c : IsCommitted(c) => IsCommitted(c)'
    BY <2>1 DEF IsCommitted
  <2>5. \A q \in cardReqs' : Served(q) =>
            \/ q \in cardReqs
            \/ IF q.kind = "delete" THEN taskRow'[q.t].st = "deleted" ELSE IsCommitted(CardOf(q.t, q))'
    BY <1>5, <1>9, <2>2
  <2>6. SnapshotFirst' /\ CardLists' /\ AnswersAreCommits' /\ GuessesAwaitAnswer'
    BY <1>2, <1>7, <1>8, <2>2, <2>4, <2>5, ListsKept
  <2> QED BY <2>2, <2>3, <2>6 DEF CardsInv
<1>10. CASE r.kind # "delete"
  <2>1. WriteTask(r.t, r.st, clock + 1) /\ clock' = clock + 1 /\ staleCause' = staleCause
    BY <1>10 DEF ServeRequest
  <2>2. taskRow[r.t].st # "deleted"
    BY <1>2 DEF LiveTask, CardStatus
  <2>3. /\ taskRow' \in [CardTask -> [st : CardStatus \cup {"unborn", "deleted"}, at : Nat]]
        /\ taskLog' \in Seq(CardType)
        /\ taskRow'[r.t].st = r.st
        /\ \A u \in CardTask : u # r.t => taskRow'[u] = taskRow[u]
        /\ \A i \in DOMAIN taskLog : i \in DOMAIN taskLog' /\ taskLog'[i] = taskLog[i]
    BY <1>1, <1>3, <2>1, CommitIs
  <2>4. PICK n \in DOMAIN taskLog' :
          taskLog'[n].t = r.t /\ taskLog'[n].st = r.st /\ taskLog'[n].at = clock + 1
    BY <1>1, <1>3, <2>1, CommitIs
  <2>5. CardsTypeOK'
    <3>1. clock' \in Nat /\ UNCHANGED <<slowWrites, cardLoad, tasks, taskConn, cardEvents, staleCause>>
      BY <1>2, <1>3, <2>1
    <3> QED BY <1>1, <1>6, <2>3, <3>1 DEF CardsTypeOK
  <2>6. ServerInv'
    BY <1>2, <1>3, <2>1, <2>2, WriteServer
  <2>7. \A i \in DOMAIN taskLog : taskLog[i].at # clock + 1
    BY <1>1, <1>3, CardTypes DEF StampsApart
  <2>8. taskConn.up => ~(clock + 1 < taskConn.since)
    <3>1. taskConn.since \in Nat
      BY <1>1, CardTypes
    <3> QED BY <1>1, <1>3, <3>1 DEF StreamInv, WireOfCommits
  <2>9. StreamInv'
    <3>1. tasks' = tasks /\ taskConn' = taskConn /\ clock <= clock'
      BY <1>2, <1>3, <2>1
    <3> QED BY <1>3, <1>8, <2>1, <2>5, <2>7, <2>8, <3>1, CommitStream
  <2>10. \A c : IsCommitted(c) => IsCommitted(c)'
    BY <2>3, CommittedStays
  <2>11. \A u \in CardTask : /\ taskRow[u].st # "unborn" => taskRow'[u].st # "unborn"
                             /\ taskRow[u].st = "deleted" => taskRow'[u].st = "deleted"
    BY <1>3, <2>2, <2>3 DEF CardStatus
  <2>12. IsCommitted(CardOf(a.t, a))'
    <3>1. taskLog'[n] = [t |-> taskLog'[n].t, st |-> taskLog'[n].st, at |-> taskLog'[n].at]
      <4>1. taskLog'[n] \in CardType
        BY <2>3, <2>4
      <4> QED BY <4>1 DEF CardType
    <3>2. taskLog'[n] = CardOf(a.t, a)
      BY <1>5, <2>4, <3>1 DEF CardOf
    <3>3. \E i \in DOMAIN taskLog' : taskLog'[i] = CardOf(a.t, a)
      BY <3>2
    <3> QED BY <3>3 DEF IsCommitted, CardOf
  <2>13. \A q \in cardReqs' : Served(q) =>
            \/ q \in cardReqs
            \/ IF q.kind = "delete" THEN taskRow'[q.t].st = "deleted" ELSE IsCommitted(CardOf(q.t, q))'
    BY <1>5, <1>10, <2>12
  <2>14. SnapshotFirst' /\ CardLists' /\ AnswersAreCommits' /\ GuessesAwaitAnswer'
    BY <1>2, <1>7, <1>8, <2>1, <2>10, <2>11, <2>13, ListsKept
  <2> QED BY <2>5, <2>6, <2>9, <2>14 DEF CardsInv
<1> QED BY <1>9, <1>10

\* What stays when a request r is settled.
LEMMA SettledRequest ==
  ASSUME CardsInv, NEW r \in cardReqs, cardReqs' = cardReqs \ {r},
         UNCHANGED <<taskRow, taskLog, clock, slowWrites, cardLoad, taskConn, cardEvents>>,
         tasks' \in Seq(CardType), staleCause' \in [CardTask -> SUBSET CardCause],
         \A u \in CardTask : /\ staleCause[u] \subseteq staleCause'[u] \/ LiveTask(u)
                             /\ "twice" \in staleCause[u] => "twice" \in staleCause'[u],
         Single(tasks)', Stamped(tasks)'
  PROVE  /\ CardsTypeOK' /\ ServerInv' /\ SnapshotFirst' /\ CardLists' /\ AnswersAreCommits'
         /\ \A c : IsCommitted(c)' <=> IsCommitted(c)
         /\ \A q \in cardReqs' : Served(q) => q \in cardReqs
         /\ clock \in Nat /\ clock <= clock'
<1>1. CardsTypeOK
  BY DEF CardsInv
<1>2. CardsTypeOK'
  <2>1. cardReqs' \subseteq CardReqType
    BY <1>1 DEF CardsTypeOK
  <2> QED BY <1>1, <2>1 DEF CardsTypeOK
<1>3. ServerInv' /\ \A c : IsCommitted(c)' <=> IsCommitted(c)
  <2>1. \A u \in CardTask : staleCause[u] \subseteq staleCause'[u] \/ taskRow[u].st # "deleted"
    BY DEF LiveTask, CardStatus
  <2> QED BY <2>1, ServerStays
<1>4. SnapshotFirst'
  BY <1>3 DEF CardsInv, SnapshotFirst
<1>5. CardLists'
  <2>1. \A q : Single(q) => Single(q)'
    BY DEF Single, Doubled
  <2>2. \A q : Stamped(q) => Stamped(q)'
    BY DEF Stamped
  <2>3. Single(cardLoad.cards)' /\ \A q \in cardReqs' : Single(q.before)' /\ Stamped(q.before)'
    BY <2>1, <2>2 DEF CardsInv, CardLists, Single, Stamped
  <2> QED BY <2>3 DEF CardLists
<1>6. AnswersAreCommits'
  BY <1>3 DEF CardsInv, AnswersAreCommits
<1>7. clock \in Nat /\ clock <= clock'
  BY <1>1, CardTypes
<1> QED BY <1>2, <1>3, <1>4, <1>5, <1>6, <1>7

LEMMA FailureShownKeeps ==
  ASSUME CardsInv, NEW r \in cardReqs, FailureShown(r)
  PROVE  CardsInv'
<1>1. CardsTypeOK
  BY DEF CardsInv
<1>2. /\ r.kind # "move" /\ cardReqs' = cardReqs \ {r}
      /\ UNCHANGED <<taskRow, taskLog, clock, slowWrites, cardLoad, tasks, taskConn, cardEvents,
                     staleCause>>
  BY DEF FailureShown
<1>3. tasks' \in Seq(CardType) /\ staleCause' \in [CardTask -> SUBSET CardCause]
  BY <1>1, <1>2 DEF CardsTypeOK
<1>4. Single(tasks)' /\ Stamped(tasks)'
  BY <1>2 DEF CardsInv, CardLists, Single, Stamped
<1>5. /\ CardsTypeOK' /\ ServerInv' /\ SnapshotFirst' /\ CardLists' /\ AnswersAreCommits'
      /\ \A c : IsCommitted(c)' <=> IsCommitted(c)
      /\ \A q \in cardReqs' : Served(q) => q \in cardReqs
      /\ clock \in Nat /\ clock <= clock'
  BY <1>2, <1>3, <1>4, SettledRequest
<1>6. StreamInv'
  BY <1>2, <1>5, StreamStays DEF StampsOf, CardsOf
<1>7. GuessesAwaitAnswer'
  BY <1>2, <1>5 DEF CardsInv, GuessesAwaitAnswer
<1> QED BY <1>5, <1>6, <1>7 DEF CardsInv

LEMMA DeleteAnsweredKeeps ==
  ASSUME CardsInv, NEW r \in cardReqs, DeleteAnswered(r)
  PROVE  CardsInv'
<1> DEFINE kept == Ascending({i \in DOMAIN tasks : tasks[i].t # r.t})
           p == [k \in DOMAIN kept |-> tasks[kept[k]]]
<1>1. CardsTypeOK
  BY DEF CardsInv
<1>2. /\ r.phase = "answered" /\ r.ok /\ r.kind = "delete" /\ cardReqs' = cardReqs \ {r}
      /\ tasks' = p
      /\ UNCHANGED <<taskRow, taskLog, clock, slowWrites, cardLoad, taskConn, cardEvents, staleCause>>
  BY DEF DeleteAnswered
<1>3. tasks \in Seq(CardType) /\ staleCause \in [CardTask -> SUBSET CardCause] /\ r.t \in CardTask
  BY <1>1, CardTypes DEF CardsTypeOK
<1>4. /\ p \in Seq(CardType) /\ ToSet(p) \subseteq ToSet(tasks)
      /\ \A u \in CardTask : u # r.t => CardsOf(p, u) = CardsOf(tasks, u)
      /\ \A u \in CardTask : Doubled(p, u) => Doubled(tasks, u)
  BY <1>3, WithoutIs
<1> HIDE DEF p, kept
<1>5. ~LiveTask(r.t)
  BY <1>2 DEF CardsInv, AnswersAreCommits, Served, LiveTask, CardStatus
<1>6. Single(tasks)' /\ Stamped(tasks)'
  BY <1>2, <1>4 DEF CardsInv, CardLists, Single, Stamped
<1>7. tasks' \in Seq(CardType) /\ staleCause' \in [CardTask -> SUBSET CardCause]
  BY <1>2, <1>3, <1>4
<1>8. /\ CardsTypeOK' /\ ServerInv' /\ SnapshotFirst' /\ CardLists' /\ AnswersAreCommits'
      /\ \A c : IsCommitted(c)' <=> IsCommitted(c)
      /\ \A q \in cardReqs' : Served(q) => q \in cardReqs
      /\ clock \in Nat /\ clock <= clock'
  BY <1>2, <1>6, <1>7, SettledRequest
<1>9. StreamInv'
  <2>1. \A u \in CardTask : LiveTask(u) => StampsOf(tasks, u)' = StampsOf(tasks, u)
    BY <1>2, <1>4, <1>5 DEF StampsOf, CardsOf
  <2> QED BY <1>2, <1>8, <2>1, StreamFollows
<1>10. GuessesAwaitAnswer'
  BY <1>2, <1>4, <1>8 DEF CardsInv, GuessesAwaitAnswer
<1> QED BY <1>8, <1>9, <1>10 DEF CardsInv

LEMMA MoveFailsKeeps ==
  ASSUME CardsInv, NEW r \in cardReqs, MoveFails(r)
  PROVE  CardsInv'
<1> DEFINE reverted(t) == {c.at : c \in CardsOf(r.before, t)} # {c.at : c \in CardsOf(tasks, t)}
           phantom(t) == \E c \in CardsOf(r.before, t) : ~IsCommitted(c)
<1>1. CardsTypeOK
  BY DEF CardsInv
<1>2. /\ cardReqs' = cardReqs \ {r} /\ tasks' = r.before
      /\ staleCause' = [t \in CardTask |->
                    staleCause[t] \cup (IF reverted(t) THEN {"reverted"} ELSE {})
                           \cup (IF phantom(t) THEN {"phantom"} ELSE {})]
      /\ UNCHANGED <<taskRow, taskLog, clock, slowWrites, cardLoad, taskConn, cardEvents>>
  BY DEF MoveFails
<1>3. r.before \in Seq(CardType) /\ staleCause \in [CardTask -> SUBSET CardCause]
  BY <1>1, CardTypes DEF CardsTypeOK
<1>4. /\ staleCause' \in [CardTask -> SUBSET CardCause]
      /\ \A u \in CardTask : /\ staleCause[u] \subseteq staleCause'[u]
                             /\ reverted(u) => staleCause'[u] # {}
                             /\ phantom(u) => "phantom" \in staleCause'[u]
  <2> HIDE DEF reverted, phantom
  <2>1. \A u \in CardTask :
          staleCause'[u] = staleCause[u] \cup (IF reverted(u) THEN {"reverted"} ELSE {})
                                         \cup (IF phantom(u) THEN {"phantom"} ELSE {})
    BY <1>2
  <2>2. \A u \in CardTask : staleCause'[u] \in SUBSET CardCause
    BY <1>3, <2>1 DEF CardCause
  <2>3. staleCause' \in [CardTask -> SUBSET CardCause]
    BY <1>2, <2>2
  <2> QED BY <2>1, <2>3
<1>5. Single(tasks)' /\ Stamped(tasks)'
  <2>1. Single(r.before) /\ Stamped(r.before)
    BY DEF CardsInv, CardLists
  <2>2. Single(r.before)'
    BY <1>4, <2>1 DEF Single, Doubled
  <2> QED BY <1>2, <2>1, <2>2 DEF Single, Stamped
<1>6. tasks' \in Seq(CardType)
  BY <1>2, <1>3
<1>7. /\ CardsTypeOK' /\ ServerInv' /\ SnapshotFirst' /\ CardLists' /\ AnswersAreCommits'
      /\ \A c : IsCommitted(c)' <=> IsCommitted(c)
      /\ \A q \in cardReqs' : Served(q) => q \in cardReqs
      /\ clock \in Nat /\ clock <= clock'
  BY <1>2, <1>4, <1>5, <1>6, SettledRequest
<1>8. StreamInv'
  <2>1. \A u \in CardTask : staleCause'[u] = {} =>
           staleCause[u] = {} /\ StampsOf(tasks, u)' = StampsOf(tasks, u)
    BY <1>2, <1>4 DEF StampsOf, CardsOf
  <2>2. \A u \in CardTask : "slow" \in staleCause[u] => "slow" \in staleCause'[u]
    BY <1>4
  <2> QED BY <1>2, <1>7, <2>1, <2>2, StreamFollows
<1>9. GuessesAwaitAnswer'
  <2> SUFFICES ASSUME NEW c \in ToSet(r.before), ~IsCommitted(c)
               PROVE  "phantom" \in staleCause'[c.t]
    BY <1>2, <1>7 DEF GuessesAwaitAnswer
  <2>1. c.t \in CardTask /\ c \in CardsOf(r.before, c.t)
    BY <1>3, CardsIn DEF CardType
  <2> QED BY <1>4, <2>1
<1> QED BY <1>7, <1>8, <1>9 DEF CardsInv

\* The card of an answer is a commit.
LEMMA AnswerIs ==
  ASSUME CardsInv, NEW r \in cardReqs, Served(r), r.kind # "delete"
  PROVE  LET c == CardOf(r.t, r)
         IN /\ c = [t |-> r.t, st |-> r.st, at |-> r.at] /\ c.t = r.t /\ c.at = r.at
            /\ c \in CardType /\ IsCommitted(c) /\ r.t \in CardTask
            /\ c = CardNow(r.t) => ~NotAnswered(r.t)
<1>1. IsCommitted(CardOf(r.t, r)) /\ CardsTypeOK
  BY DEF CardsInv, AnswersAreCommits
<1>2. r.t \in CardTask
  BY <1>1, CardTypes
<1>3. CardOf(r.t, r) \in CardType
  BY <1>1 DEF IsCommitted, CardsTypeOK
<1>4. CardOf(r.t, r) = CardNow(r.t) => r.at = taskRow[r.t].at
  BY DEF CardOf, CardNow
<1>5. CardOf(r.t, r) = CardNow(r.t) => ~NotAnswered(r.t)
  BY <1>4 DEF NotAnswered
<1> QED BY <1>1, <1>2, <1>3, <1>5 DEF CardOf

LEMMA CreateAnsweredKeeps ==
  ASSUME CardsInv, NEW r \in cardReqs, CreateAnswered(r)
  PROVE  CardsInv'
<1> DEFINE c == CardOf(r.t, r)
           p == <<c>> \o tasks
<1>1. CardsTypeOK
  BY DEF CardsInv
<1>2. /\ r.phase = "answered" /\ r.ok /\ r.kind = "create" /\ cardReqs' = cardReqs \ {r}
      /\ tasks' = <<[t |-> r.t, st |-> r.st, at |-> r.at]>> \o tasks
      /\ staleCause' = IF CardsOf(tasks, r.t) # {} THEN BecauseOf({r.t}, "twice")
                                                  ELSE CauseSettled(r.t, c)
      /\ UNCHANGED <<taskRow, taskLog, clock, slowWrites, cardLoad, taskConn, cardEvents>>
  BY DEF CreateAnswered
<1>3. /\ c = [t |-> r.t, st |-> r.st, at |-> r.at] /\ c.t = r.t /\ c.at = r.at
      /\ c \in CardType /\ IsCommitted(c) /\ r.t \in CardTask
      /\ c = CardNow(r.t) => ~NotAnswered(r.t)
  BY <1>2, AnswerIs DEF Served
<1>4. tasks' = p /\ tasks \in Seq(CardType) /\ staleCause \in [CardTask -> SUBSET CardCause]
  BY <1>1, <1>2, <1>3 DEF CardsTypeOK
<1> HIDE DEF c
<1>5. /\ p \in Seq(CardType) /\ ToSet(p) = ToSet(tasks) \cup {c}
      /\ \A u \in CardTask : CardsOf(p, u) =
                               IF u = r.t THEN CardsOf(tasks, u) \cup {c} ELSE CardsOf(tasks, u)
      /\ \A u \in CardTask : Doubled(p, u) => Doubled(tasks, u) \/ (u = r.t /\ CardsOf(tasks, u) # {})
  <2>1. /\ p \in Seq(CardType) /\ ToSet(p) = ToSet(tasks) \cup {c}
        /\ \A u \in CardTask : CardsOf(p, u) =
                               IF u = c.t THEN CardsOf(tasks, u) \cup {c} ELSE CardsOf(tasks, u)
        /\ \A u \in CardTask : Doubled(p, u) => Doubled(tasks, u) \/ (u = c.t /\ CardsOf(tasks, u) # {})
    BY <1>3, <1>4, InFront
  <2> HIDE DEF p
  <2> QED BY <1>3, <2>1
<1> HIDE DEF p
<1>6. /\ staleCause' \in [CardTask -> SUBSET CardCause]
      /\ \A u \in CardTask : u # r.t => staleCause'[u] = staleCause[u]
      /\ \A u \in CardTask : "twice" \in staleCause[u] => "twice" \in staleCause'[u]
      /\ \/ /\ CardsOf(tasks, r.t) # {} /\ staleCause[r.t] \subseteq staleCause'[r.t]
            /\ "twice" \in staleCause'[r.t]
         \/ /\ CardsOf(tasks, r.t) = {} /\ staleCause'[r.t] = staleCause[r.t]
            /\ c = CardNow(r.t) => "twice" \in staleCause[r.t]
         \/ CardsOf(tasks, r.t) = {} /\ staleCause'[r.t] = {} /\ c = CardNow(r.t)
  <2>1. CASE CardsOf(tasks, r.t) # {}
    <3>1. staleCause' = BecauseOf({r.t}, "twice")
      BY <1>2, <2>1
    <3>2. /\ staleCause' \in [CardTask -> SUBSET CardCause]
          /\ \A u \in CardTask : u # r.t => staleCause'[u] = staleCause[u]
          /\ \A u \in CardTask : staleCause[u] \subseteq staleCause'[u]
          /\ "twice" \in staleCause'[r.t]
      BY <1>3, <1>4, <3>1 DEF BecauseOf, CardCause
    <3> QED BY <1>3, <2>1, <3>2
  <2>2. CASE CardsOf(tasks, r.t) = {}
    BY <1>1, <1>2, <1>3, <2>2, SettledIs
  <2> QED BY <2>1, <2>2
<1>7. Single(tasks)' /\ Stamped(tasks)'
  <2>1. \A u \in CardTask : Doubled(p, u) => "twice" \in staleCause'[u]
    BY <1>5, <1>6 DEF CardsInv, CardLists, Single
  <2>2. \A d \in ToSet(p) : \E i \in DOMAIN taskLog : taskLog[i].t = d.t /\ taskLog[i].at = d.at
    BY <1>3, <1>5 DEF CardsInv, CardLists, Stamped, IsCommitted
  <2> QED BY <1>2, <1>4, <2>1, <2>2 DEF Single, Stamped
<1>8. \A u \in CardTask : staleCause[u] \subseteq staleCause'[u] \/ (u = r.t /\ c = CardNow(u))
  BY <1>6
<1>9. c = CardNow(r.t) => LiveTask(r.t)
  BY <1>3 DEF CardType, CardNow, CardOf, LiveTask
<1>10. /\ CardsTypeOK' /\ ServerInv' /\ SnapshotFirst' /\ CardLists' /\ AnswersAreCommits'
       /\ \A d : IsCommitted(d)' <=> IsCommitted(d)
       /\ \A q \in cardReqs' : Served(q) => q \in cardReqs
       /\ clock \in Nat /\ clock <= clock'
  BY <1>2, <1>4, <1>5, <1>6, <1>7, <1>8, <1>9, SettledRequest
<1>11. StreamInv'
  <2>1. \A u \in CardTask : "slow" \in staleCause[u] /\ NotAnswered(u) => "slow" \in staleCause'[u]
    BY <1>3, <1>8
  <2>2. \A u \in CardTask : StampsOf(tasks, u)' = StampsOf(p, u)
    BY <1>4 DEF StampsOf, CardsOf
  <2>3. ASSUME NEW u \in CardTask, LiveTask(u), taskConn.up, staleCause'[u] = {}
        PROVE  \/ Coming(u)
               \/ StampsOf(p, u) = {taskRow[u].at}
               \/ staleCause[u] = {} /\ StampsOf(p, u) = StampsOf(tasks, u)
    <3>1. CASE u # r.t
      BY <1>5, <1>6, <2>3, <3>1 DEF StampsOf
    <3>2. CASE u = r.t /\ c = CardNow(u) /\ CardsOf(tasks, u) = {}
      <4>1. CardsOf(p, u) = {c}
        BY <1>5, <3>2
      <4>2. c.at = taskRow[u].at
        BY <3>2 DEF CardNow, CardOf
      <4> QED BY <4>1, <4>2 DEF StampsOf
    <3>3. CASE u = r.t /\ CardsOf(tasks, u) = {} /\ staleCause[u] = {}
      <4>1. StampsOf(tasks, u) = {}
        BY <3>3 DEF StampsOf
      <4>2. Coming(u) \/ StampsOf(tasks, u) = {taskRow[u].at}
        BY <2>3, <3>3 DEF CardsInv, StreamInv, ShownOrComing
      <4> QED BY <4>1, <4>2
    <3> QED BY <1>6, <2>3, <3>1, <3>2, <3>3
  <2> QED BY <1>2, <1>10, <2>1, <2>2, <2>3, StreamFollows
<1>12. GuessesAwaitAnswer'
  <2> SUFFICES ASSUME NEW d \in ToSet(p), ~IsCommitted(d)
               PROVE  \/ "phantom" \in staleCause'[d.t]
                      \/ \E q \in cardReqs' : q.kind = "move" /\ q.t = d.t
    BY <1>4, <1>10 DEF GuessesAwaitAnswer
  <2>1. d \in ToSet(tasks) /\ d.t \in CardTask
    BY <1>3, <1>4, <1>5, CardsIn DEF CardType
  <2>2. \/ "phantom" \in staleCause[d.t]
        \/ \E q \in cardReqs' : q.kind = "move" /\ q.t = d.t
    BY <1>2, <2>1 DEF CardsInv, GuessesAwaitAnswer
  <2>3. d.t # r.t \/ CardsOf(tasks, r.t) # {}
    BY <2>1 DEF CardsOf
  <2> QED BY <1>6, <2>1, <2>2, <2>3
<1> QED BY <1>10, <1>11, <1>12 DEF CardsInv

LEMMA PatchAnsweredKeeps ==
  ASSUME CardsInv, NEW r \in cardReqs, PatchAnswered(r)
  PROVE  CardsInv'
<1> DEFINE c == CardOf(r.t, r)
           p == ReplacedCards(tasks, c)
           late == \E d \in CardsOf(tasks, r.t) : CommitOrder(d.at) > CommitOrder(c.at)
<1>1. CardsTypeOK /\ StampsApart /\ RowIsLast
  BY DEF CardsInv, ServerInv
<1>2. /\ r.phase = "answered" /\ r.ok /\ r.kind \in {"move", "save"} /\ cardReqs' = cardReqs \ {r}
      /\ tasks' = p
      /\ late => staleCause' = BecauseOf({r.t}, "late")
      /\ ~late /\ CardsOf(tasks, r.t) # {} => staleCause' = CauseSettled(r.t, c)
      /\ ~late /\ CardsOf(tasks, r.t) = {} => staleCause' = staleCause
      /\ UNCHANGED <<taskRow, taskLog, clock, slowWrites, cardLoad, taskConn, cardEvents>>
  BY DEF PatchAnswered, CardOf
<1>3. /\ c = [t |-> r.t, st |-> r.st, at |-> r.at] /\ c.t = r.t /\ c.at = r.at
      /\ c \in CardType /\ IsCommitted(c) /\ r.t \in CardTask
      /\ c = CardNow(r.t) => ~NotAnswered(r.t)
  BY <1>2, AnswerIs DEF Served
<1>4. tasks \in Seq(CardType) /\ staleCause \in [CardTask -> SUBSET CardCause]
  BY <1>1 DEF CardsTypeOK
<1> HIDE DEF c
<1>5. /\ p \in Seq(CardType) /\ ToSet(p) \subseteq ToSet(tasks) \cup {c}
      /\ \A u \in CardTask : u # r.t => CardsOf(p, u) = CardsOf(tasks, u)
      /\ CardsOf(tasks, r.t) = {} => CardsOf(p, r.t) = {} /\ c \notin ToSet(p)
      /\ CardsOf(tasks, r.t) # {} => CardsOf(p, r.t) = {c}
      /\ \A u \in CardTask : Doubled(p, u) => Doubled(tasks, u)
  <2>1. /\ p \in Seq(CardType)
        /\ ToSet(p) \subseteq ToSet(tasks) \cup {c}
        /\ \A u \in CardTask : u # c.t => CardsOf(p, u) = CardsOf(tasks, u)
        /\ CardsOf(tasks, c.t) = {} => /\ CardsOf(p, c.t) = {}
                                       /\ c \notin ToSet(p)
        /\ CardsOf(tasks, c.t) # {} => CardsOf(p, c.t) = {c}
        /\ \A u \in CardTask : Doubled(p, u) => Doubled(tasks, u)
    <3>1. tasks \in Seq(CardType) /\ c \in CardType
      BY <1>3, <1>4
    <3> QED BY <3>1, ReplacedIs
  <2> HIDE DEF p
  <2> QED BY <1>3, <2>1
<1> HIDE DEF p
\* An answer that is not late brings the row of now, if that row is shown.
<1>6. ASSUME ~late, StampsOf(tasks, r.t) = {taskRow[r.t].at}, LiveTask(r.t)
      PROVE  c = CardNow(r.t)
  <2>1. PICK d \in CardsOf(tasks, r.t) : d.at = taskRow[r.t].at
    BY <1>6 DEF StampsOf
  <2>2. PICK i \in DOMAIN taskLog : /\ taskLog[i] = CardNow(r.t)
                                    /\ \A k \in DOMAIN taskLog : taskLog[k].t = r.t => k <= i
    BY <1>1, <1>3, <1>6 DEF RowIsLast
  <2>3. PICK k \in DOMAIN taskLog : taskLog[k] = c
    BY <1>3 DEF IsCommitted
  <2>4. \A n \in DOMAIN taskLog : CommitOrder(taskLog[n].at) = n
    <3> SUFFICES ASSUME NEW n \in DOMAIN taskLog PROVE CommitOrder(taskLog[n].at) = n
      OBVIOUS
    <3>1. \A m \in DOMAIN taskLog : taskLog[m].at = taskLog[n].at <=> m = n
      BY <1>1 DEF StampsApart
    <3> QED BY <3>1 DEF CommitOrder
  <2>5. d.at = taskLog[i].at
    BY <2>1, <2>2 DEF CardNow, CardOf
  <2>6. ~(i > k)
    BY <1>6, <2>1, <2>3, <2>4, <2>5
  <2>7. k <= i /\ i \in Nat /\ k \in Nat
    BY <1>1, <1>3, <2>2, <2>3, CardTypes
  <2>8. k = i
    BY <2>6, <2>7
  <2> QED BY <2>2, <2>3, <2>8
<1>7. /\ staleCause' \in [CardTask -> SUBSET CardCause]
      /\ \A u \in CardTask : u # r.t => staleCause'[u] = staleCause[u]
      /\ \A u \in CardTask : "twice" \in staleCause[u] => "twice" \in staleCause'[u]
      /\ \/ staleCause[r.t] \subseteq staleCause'[r.t] /\ staleCause'[r.t] # {}
         \/ /\ ~late /\ CardsOf(tasks, r.t) # {} /\ staleCause'[r.t] = staleCause[r.t]
            /\ c = CardNow(r.t) => "twice" \in staleCause[r.t]
         \/ ~late /\ CardsOf(tasks, r.t) # {} /\ staleCause'[r.t] = {} /\ c = CardNow(r.t)
         \/ CardsOf(tasks, r.t) = {} /\ staleCause'[r.t] = staleCause[r.t]
  <2>1. CASE late
    <3>1. staleCause' = BecauseOf({r.t}, "late")
      BY <1>2, <2>1
    <3> HIDE DEF late
    <3>2. /\ staleCause' \in [CardTask -> SUBSET CardCause]
          /\ \A u \in CardTask : u # r.t => staleCause'[u] = staleCause[u]
          /\ \A u \in CardTask : staleCause[u] \subseteq staleCause'[u]
          /\ staleCause'[r.t] # {}
      BY <1>3, <1>4, <3>1 DEF BecauseOf, CardCause
    <3> QED BY <1>3, <3>2
  <2> HIDE DEF late
  <2>2. CASE ~late /\ CardsOf(tasks, r.t) # {}
    <3>1. staleCause' = CauseSettled(r.t, c)
      BY <1>2, <2>2
    <3> QED BY <1>1, <1>3, <2>2, <3>1, SettledIs
  <2>3. CASE ~late /\ CardsOf(tasks, r.t) = {}
    BY <1>2, <1>4, <2>3
  <2> QED BY <2>1, <2>2, <2>3
<1> HIDE DEF late
<1>8. Single(tasks)' /\ Stamped(tasks)'
  <2>1. \A u \in CardTask : Doubled(p, u) => "twice" \in staleCause'[u]
    BY <1>5, <1>7 DEF CardsInv, CardLists, Single
  <2>2. \A d \in ToSet(p) : \E i \in DOMAIN taskLog : taskLog[i].t = d.t /\ taskLog[i].at = d.at
    BY <1>3, <1>5 DEF CardsInv, CardLists, Stamped, IsCommitted
  <2> QED BY <1>2, <2>1, <2>2 DEF Single, Stamped
<1>9. \A u \in CardTask : staleCause[u] \subseteq staleCause'[u] \/ (u = r.t /\ c = CardNow(u))
  BY <1>7
<1>10. c = CardNow(r.t) => LiveTask(r.t)
  BY <1>3 DEF CardType, CardNow, CardOf, LiveTask
<1>11. /\ CardsTypeOK' /\ ServerInv' /\ SnapshotFirst' /\ CardLists' /\ AnswersAreCommits'
       /\ \A d : IsCommitted(d)' <=> IsCommitted(d)
       /\ \A q \in cardReqs' : Served(q) => q \in cardReqs
       /\ clock \in Nat /\ clock <= clock'
  BY <1>2, <1>5, <1>7, <1>8, <1>9, <1>10, SettledRequest
<1>12. StreamInv'
  <2>1. \A u \in CardTask : "slow" \in staleCause[u] /\ NotAnswered(u) => "slow" \in staleCause'[u]
    BY <1>3, <1>9
  <2>2. \A u \in CardTask : StampsOf(tasks, u)' = StampsOf(p, u)
    BY <1>2 DEF StampsOf, CardsOf
  <2>3. ASSUME NEW u \in CardTask, LiveTask(u), taskConn.up, staleCause'[u] = {}
        PROVE  \/ Coming(u)
               \/ StampsOf(p, u) = {taskRow[u].at}
               \/ staleCause[u] = {} /\ StampsOf(p, u) = StampsOf(tasks, u)
    <3>1. CASE u # r.t
      BY <1>5, <1>7, <2>3, <3>1 DEF StampsOf
    <3>2. CASE u = r.t /\ c = CardNow(u) /\ CardsOf(tasks, u) # {}
      <4>1. CardsOf(p, u) = {c}
        BY <1>5, <3>2
      <4>2. c.at = taskRow[u].at
        BY <3>2 DEF CardNow, CardOf
      <4> QED BY <4>1, <4>2 DEF StampsOf
    <3>3. CASE u = r.t /\ ~late /\ CardsOf(tasks, u) # {} /\ c # CardNow(u) /\ staleCause[u] = {}
      <4>1. StampsOf(tasks, u) # {taskRow[u].at}
        BY <1>6, <2>3, <3>3
      <4> QED BY <2>3, <3>3, <4>1 DEF CardsInv, StreamInv, ShownOrComing
    <3>4. CASE u = r.t /\ CardsOf(tasks, u) = {} /\ staleCause[u] = {}
      <4>1. CardsOf(p, u) = {}
        BY <1>5, <3>4
      <4> QED BY <3>4, <4>1 DEF StampsOf
    <3> QED BY <1>7, <2>3, <3>1, <3>2, <3>3, <3>4
  <2> QED BY <1>2, <1>11, <2>1, <2>2, <2>3, StreamFollows
<1>13. GuessesAwaitAnswer'
  <2> SUFFICES ASSUME NEW d \in ToSet(p), ~IsCommitted(d)
               PROVE  \/ "phantom" \in staleCause'[d.t]
                      \/ \E q \in cardReqs' : q.kind = "move" /\ q.t = d.t
    BY <1>2, <1>11 DEF GuessesAwaitAnswer
  <2>1. d \in ToSet(tasks) /\ d.t \in CardTask
    BY <1>3, <1>4, <1>5, CardsIn DEF CardType
  <2>2. d.t # r.t
    <3>1. d.t = r.t => d \in CardsOf(tasks, r.t) /\ d \in CardsOf(p, r.t)
      BY <2>1 DEF CardsOf
    <3> QED BY <1>3, <1>5, <3>1
  <2>3. \/ "phantom" \in staleCause[d.t]
        \/ \E q \in cardReqs : q.kind = "move" /\ q.t = d.t
    BY <2>1 DEF CardsInv, GuessesAwaitAnswer
  <2> QED BY <1>2, <1>7, <2>1, <2>2, <2>3
<1> QED BY <1>11, <1>12, <1>13 DEF CardsInv

LEMMA CardsInitInv ==
  ASSUME CardsInit
  PROVE  CardsInv
<1> DEFINE n == Cardinality(CardStart)
           q == SetToSeq(CardStart)
<1>1. /\ q \in [1..n -> CardStart] /\ n \in Nat /\ ToSet(q) = CardStart
      /\ \A i, j \in 1..n : i # j => q[i] # q[j]
  BY CardStartAssumption, Listed
<1>2. /\ taskLog = [i \in 1..n |-> [t |-> q[i], st |-> "inbox", at |-> i]]
      /\ clock = n
      /\ taskRow = [t \in CardTask |->
                 IF t \in CardStart
                 THEN [st |-> "inbox", at |-> CHOOSE i \in DOMAIN taskLog : taskLog[i].t = t]
                 ELSE [st |-> "unborn", at |-> 0]]
      /\ slowWrites = {} /\ cardLoad = [phase |-> "sent", cards |-> <<>>] /\ tasks = <<>>
      /\ taskConn = NoTaskStream /\ cardReqs = {} /\ cardEvents = 0
      /\ staleCause = [t \in CardTask |-> {}]
  BY DEF CardsInit
<1> HIDE DEF n, q
<1>3. /\ DOMAIN taskLog = 1..n
      /\ \A i \in 1..n : /\ taskLog[i] = [t |-> q[i], st |-> "inbox", at |-> i]
                         /\ taskLog[i].t = q[i] /\ taskLog[i].st = "inbox" /\ taskLog[i].at = i
  BY <1>2
<1>4. \A i \in 1..n : q[i] \in CardStart /\ q[i] \in CardTask
  BY <1>1, CardStartAssumption
<1>5. \A t \in CardStart : \E i \in 1..n : q[i] = t
  BY <1>1 DEF ToSet
<1>6. \A t \in CardStart : /\ t \in CardTask /\ taskRow[t].st = "inbox"
                           /\ taskRow[t].at \in 1..n /\ q[taskRow[t].at] = t
  <2> SUFFICES ASSUME NEW t \in CardStart
               PROVE  /\ t \in CardTask /\ taskRow[t].st = "inbox"
                      /\ taskRow[t].at \in 1..n /\ q[taskRow[t].at] = t
    OBVIOUS
  <2> DEFINE a == CHOOSE i \in DOMAIN taskLog : taskLog[i].t = t
  <2>1. t \in CardTask
    BY CardStartAssumption
  <2>2. taskRow[t] = [st |-> "inbox", at |-> a]
    BY <1>2, <2>1
  <2>3. a \in DOMAIN taskLog /\ taskLog[a].t = t
    BY <1>3, <1>5
  <2> HIDE DEF a
  <2> QED BY <1>3, <2>1, <2>2, <2>3
<1>7. \A t \in CardTask : t \notin CardStart => taskRow[t].st = "unborn" /\ taskRow[t].at = 0
  BY <1>2
<1>8. taskRow \in [CardTask -> [st : CardStatus \cup {"unborn", "deleted"}, at : Nat]]
  <2> DEFINE T == [st : CardStatus \cup {"unborn", "deleted"}, at : Nat]
             row(t) == IF t \in CardStart
                       THEN [st |-> "inbox", at |-> CHOOSE i \in DOMAIN taskLog : taskLog[i].t = t]
                       ELSE [st |-> "unborn", at |-> 0]
  <2>1. taskRow = [t \in CardTask |-> row(t)]
    BY <1>2
  <2>2. \A t \in CardTask : row(t) \in T
    <3> SUFFICES ASSUME NEW t \in CardTask PROVE row(t) \in T
      OBVIOUS
    <3>1. CASE t \in CardStart
      <4>1. PICK i \in 1..n : q[i] = t
        BY <1>5, <3>1
      <4>2. (CHOOSE k \in DOMAIN taskLog : taskLog[k].t = t) \in Nat
        BY <1>1, <1>3, <4>1
      <4> QED BY <3>1, <4>2 DEF CardStatus
    <3>2. CASE t \notin CardStart
      BY <3>2
    <3> QED BY <3>1, <3>2
  <2> HIDE DEF row, T
  <2>3. taskRow \in [CardTask -> T]
    BY <2>1, <2>2
  <2> QED BY <2>3 DEF T
<1>9. taskLog \in Seq(CardType)
  <2>1. \A i \in 1..n : [t |-> q[i], st |-> "inbox", at |-> i] \in CardType
    BY <1>1, <1>4 DEF CardType, CardStatus
  <2> QED BY <1>1, <1>2, <2>1
<1>10. CardsTypeOK
  <2>1. <<>> \in Seq(CardType)
    OBVIOUS
  <2>2. staleCause \in [CardTask -> SUBSET CardCause]
    BY <1>2
  <2>3. taskConn \in [up : BOOLEAN, since : Nat, seen : SUBSET Nat, wire : Seq(CardType)]
    BY <1>2, <2>1 DEF NoTaskStream
  <2>4. cardLoad \in [phase : {"sent", "read", "done", "failed"}, cards : Seq(CardType)]
    BY <1>2, <2>1
  <2>5. clock \in Nat /\ slowWrites \subseteq CardType /\ cardReqs \subseteq CardReqType
        /\ cardEvents \in Nat /\ tasks \in Seq(CardType)
    BY <1>1, <1>2, <2>1
  <2> QED BY <1>8, <1>9, <2>2, <2>3, <2>4, <2>5 DEF CardsTypeOK
<1>11. StampsApart
  <2>1. \A i \in 1..n : i <= n
    BY <1>1
  <2>2. \A i \in 1..n : taskRow[q[i]].st # "unborn"
    BY <1>4, <1>6
  <2> QED BY <1>2, <1>3, <2>1, <2>2 DEF StampsApart
<1>12. RowIsLast
  <2> SUFFICES ASSUME NEW t \in CardTask, LiveTask(t)
               PROVE  \E i \in DOMAIN taskLog :
                        /\ taskLog[i] = CardNow(t)
                        /\ \A k \in DOMAIN taskLog : taskLog[k].t = t => k <= i
    BY DEF RowIsLast
  <2>1. t \in CardStart
    BY <1>7 DEF LiveTask, CardStatus
  <2> DEFINE i == taskRow[t].at
  <2>2. i \in 1..n /\ q[i] = t /\ taskRow[t].st = "inbox" /\ i \in Nat
    BY <1>1, <1>6, <2>1
  <2>3. CardNow(t) = [t |-> t, st |-> "inbox", at |-> i]
    BY <2>2 DEF CardNow, CardOf
  <2> HIDE DEF i
  <2>4. taskLog[i] = CardNow(t)
    BY <1>3, <2>2, <2>3
  <2>5. \A k \in 1..n : q[k] = t => k = i
    BY <1>1, <2>2
  <2>6. i <= i
    BY <2>2
  <2> QED BY <1>3, <2>2, <2>4, <2>5, <2>6
<1>13. DeletedHasCause
  BY <1>6, <1>7 DEF DeletedHasCause
<1>14. SnapshotFirst /\ CardLists /\ AnswersAreCommits /\ GuessesAwaitAnswer
  BY <1>2 DEF SnapshotFirst, CardLists, AnswersAreCommits, GuessesAwaitAnswer, Single, Doubled,
              Stamped, ToSet, NoTaskStream
<1>15. StreamInv
  BY <1>2 DEF StreamInv, WireOfCommits, OlderIsFollowed, ShownOrComing, NoTaskStream
<1> QED BY <1>10, <1>11, <1>12, <1>13, <1>14, <1>15 DEF CardsInv, ServerInv

LEMMA CardsStepInv ==
  ASSUME CardsInv, [CardsNext]_cardVars
  PROVE  CardsInv'
<1>1. ASSUME NEW t \in CardTask, OtherWrites(t) \/ OtherDeletes(t) \/ SlowBegins(t) PROVE CardsInv'
  BY <1>1, OtherWritesKeeps, OtherDeletesKeeps, SlowBeginsKeeps
<1>2. ASSUME NEW w \in slowWrites, SlowCommits(w) PROVE CardsInv'
  BY <1>2, SlowCommitsKeeps
<1>3. CASE CardsLoad \/ SnapshotFails
  BY <1>3, SnapshotReadKeeps, SnapshotSetKeeps, SnapshotFailsKeeps DEF CardsLoad
<1>4. CASE ConnectTasks \/ LoseTasks \/ PollTasks \/ TaskStreamed
  BY <1>4, ConnectTasksKeeps, LoseTasksKeeps, PollTasksKeeps, TaskStreamedKeeps
<1>5. CASE CardsUser
  <2>1. PICK t \in CardTask : \/ \E st \in CardStatus : HandleTaskMove(t, st) \/ HandleTaskSave(t, st)
                              \/ HandleCreateTask(t)
                              \/ HandleDeleteTask(t)
    BY <1>5 DEF CardsUser
  <2>2. "inbox" \in CardStatus
    BY DEF CardStatus
  <2> QED BY <2>1, <2>2, HandleTaskMoveKeeps, UserKeeps
<1>6. CASE CardsServer
  BY <1>6, ServeRequestKeeps, RefuseRequestKeeps DEF CardsServer
<1>7. CASE CardsAnswer
  BY <1>7, PatchAnsweredKeeps, MoveFailsKeeps, CreateAnsweredKeeps, DeleteAnsweredKeeps,
     FailureShownKeeps DEF CardsAnswer
<1>8. CASE UNCHANGED cardVars
  <2>1. UNCHANGED <<taskRow, taskLog, clock, slowWrites, cardLoad, tasks, taskConn, cardReqs,
                    cardEvents, staleCause>>
    BY <1>8 DEF cardVars
  <2>2. clock \in Nat /\ \A r \in cardReqs : r.t \in CardTask
    BY CardTypes DEF CardsInv
  <2>3. CardsTypeOK'
    BY <2>1 DEF CardsInv, CardsTypeOK
  <2>4. ServerInv' /\ \A c : IsCommitted(c)' <=> IsCommitted(c)
    BY <2>1, ServerStays
  <2>5. StreamInv'
    BY <2>1, <2>2, StreamStays DEF StampsOf, CardsOf
  <2>6. cardLoad.phase # "done" => cardReqs' = {} /\ ~taskConn'.up
    BY <2>1 DEF CardsInv, SnapshotFirst
  <2>7. SnapshotFirst' /\ CardLists' /\ AnswersAreCommits' /\ GuessesAwaitAnswer'
    BY <2>1, <2>2, <2>4, <2>6, ListsKept
  <2> QED BY <2>3, <2>4, <2>5, <2>7 DEF CardsInv
<1> QED BY <1>1, <1>2, <1>3, <1>4, <1>5, <1>6, <1>7, <1>8 DEF CardsNext

LEMMA CardsAlways == CardsSpec => []CardsInv
<1>1. CardsInit => CardsInv
  BY CardsInitInv
<1>2. CardsInv /\ [CardsNext]_cardVars => CardsInv'
  BY CardsStepInv
<1> QED BY <1>1, <1>2, PTL DEF CardsSpec

LEMMA CardsTyped == CardsSpec => []CardsTypeOK
<1>1. CardsInv => CardsTypeOK
  BY DEF CardsInv
<1> QED BY CardsAlways, <1>1, PTL
-----------------------------------------------------------------------------
\* A page has one card for each task, except one created here whose event came before the
\* answer: whatever the snapshot, the stream, rollbacks and answers put on the board, in any order.
THEOREM OneCardEach == CardsSpec => []OneCardPerTask
<1>1. CardsInv => OneCardPerTask
  <2> SUFFICES ASSUME CardsInv, NEW i \in DOMAIN tasks, NEW j \in DOMAIN tasks,
                      i # j, tasks[i].t = tasks[j].t
               PROVE  "twice" \in staleCause[tasks[i].t]
    BY DEF OneCardPerTask
  <2>1. tasks[i].t \in CardTask
    BY CardTypes, CardsIn DEF CardsInv
  <2>2. Doubled(tasks, tasks[i].t)
    BY DEF Doubled
  <2> QED BY <2>1, <2>2 DEF CardsInv, CardLists, Single
<1> QED BY <1>1, CardsAlways, PTL

\* A card whose status no commit gave is a guess: a move of that task still awaits its answer, or
\* a failed move put back a list that held the guess of another move.
THEOREM GuessesAreTemporary == CardsSpec => []GuessesAwaitAnswer
<1>1. CardsInv => GuessesAwaitAnswer
  BY DEF CardsInv
<1> QED BY <1>1, CardsAlways, PTL

\* When the page and its stream are quiet, a card that differs from the server's row, or is
\* missing, or is one too many, has a recorded cause: no other order of events leaves one behind.
THEOREM StaleCardsExplained == CardsSpec => []StaleCardsHaveCause
<1>1. CardsInv => StaleCardsHaveCause
  <2> SUFFICES ASSUME CardsInv, CardsQuiet, NEW t \in CardTask, staleCause[t] = {}
               PROVE  CardInSync(t)
    BY DEF StaleCardsHaveCause
  <2>1. CardsTypeOK /\ StampsApart /\ RowIsLast
    BY DEF CardsInv, ServerInv
  <2>2. /\ cardReqs = {} /\ taskConn.up /\ ToSet(taskConn.wire) = {} /\ FreshEvents = {}
    BY DEF CardsQuiet, ToSet
  <2>3. tasks \in Seq(CardType)
    BY <2>1, CardTypes
  <2>4. CASE ~LiveTask(t)
    <3>1. taskRow[t].st = "unborn"
      <4>1. taskRow[t].st # "deleted"
        BY DEF CardsInv, ServerInv, DeletedHasCause
      <4> QED BY <2>1, <2>4, <4>1, CardTypes DEF LiveTask
    <3>2. CardsOf(tasks, t) = {}
      <4> SUFFICES ASSUME NEW c \in ToSet(tasks), c.t = t PROVE FALSE
        BY DEF CardsOf
      <4>1. PICK i \in DOMAIN taskLog : taskLog[i].t = t
        BY DEF CardsInv, CardLists, Stamped
      <4> QED BY <2>1, <3>1, <4>1 DEF StampsApart
    <3> QED BY <2>4, <3>2 DEF CardInSync
  <2>5. CASE LiveTask(t)
    <3>1. StampsOf(tasks, t) = {taskRow[t].at}
      <4>1. ~Coming(t)
        BY <2>2 DEF Coming
      <4> QED BY <2>2, <2>5, <4>1 DEF CardsInv, StreamInv, ShownOrComing
    <3>2. ASSUME NEW c \in CardsOf(tasks, t) PROVE c = CardNow(t)
      <4>1. c \in ToSet(tasks) /\ c.t = t /\ c.at = taskRow[t].at
        BY <3>1 DEF CardsOf, StampsOf
      <4>2. IsCommitted(c)
        BY <2>2, <4>1 DEF CardsInv, GuessesAwaitAnswer
      <4>3. PICK k \in DOMAIN taskLog : taskLog[k] = c
        BY <4>2 DEF IsCommitted
      <4>4. PICK i \in DOMAIN taskLog : taskLog[i] = CardNow(t)
        BY <2>1, <2>5 DEF RowIsLast
      <4>5. taskLog[i].at = taskLog[k].at
        BY <4>1, <4>3, <4>4 DEF CardNow, CardOf
      <4> QED BY <2>1, <4>3, <4>4, <4>5 DEF StampsApart
    <3>3. CardsOf(tasks, t) # {}
      BY <3>1 DEF StampsOf
    <3>4. CardsOf(tasks, t) = {CardNow(t)}
      BY <3>2, <3>3
    <3> QED BY <2>5, <3>4 DEF CardInSync
  <2> QED BY <2>4, <2>5
<1> QED BY <1>1, CardsAlways, PTL
-----------------------------------------------------------------------------
(***************************************************************************)
(* The agents of the board page.                                           *)
(***************************************************************************)
\* The rows the page shows or has read.
PageRows == agents \cup agentLoad.rows

\* Changes not yet committed are of agents that exist, or creations.
WritesOfAgents ==
    \A w \in openWrites : w.a \in Existing \/ (agentRow[w.a].st = "none" /\ w.st # "kept")

\* The stream starts after the snapshot; what it has on the way is in order, each
\* agent once, and nothing shown or on the way is newer than the cursor.
AgentWire ==
    LET wire == agentConn.wire
    IN  /\ ~agentConn.up => wire = <<>>
        /\ agentConn.up => agentLoad.phase = "done"
        /\ agentLoad.phase # "read" => agentLoad.rows = {}
        /\ agentLoad.phase # "done" => agents = {}
        /\ agentConn.up => \A r \in agents : r.at <= agentConn.since
        /\ \A i \in DOMAIN wire : wire[i].at <= agentConn.since
        /\ \A i, j \in DOMAIN wire : i < j => wire[i].at <= wire[j].at /\ wire[i].a # wire[j].a

\* The next poll of any stream brings the agent's row...
AheadOf(a) == ~PastStamp(LatestStamp(a))

\* ... or no poll is needed.
OnItsWay(a) == RowRead(a) \in ToSet(agentConn.wire)
NoneOnItsWay(a) == \A r \in ToSet(agentConn.wire) : r.a # a
ReadOrShown(a) == \E r \in PageRows : r.a = a /\ r.status = StatusOf(a)
Current(a) == OnItsWay(a) \/ (NoneOnItsWay(a) /\ ReadOrShown(a))

\* A row on the way is still before the next cursor, should the stream be lost.
WireAhead == \A a \in Existing \ passedBy :
                 OnItsWay(a) => \A r \in agents : r.at <= LatestStamp(a)

AgentsFollowed ==
    agentLoad.phase # "sent" => \A a \in Existing \ passedBy : Current(a) \/ AheadOf(a)

FiniteRows == IsFiniteSet(agents) /\ IsFiniteSet(agentLoad.rows)

AgentsInv ==
    AgentsTypeOK /\ WritesOfAgents /\ FiniteRows /\ AgentWire /\ WireAhead /\ AgentsFollowed
-----------------------------------------------------------------------------
\* What type correctness says of a row of the server, as a read gives it...
LEMMA RowReadIs ==
  ASSUME AgentsTypeOK, NEW a \in Existing
  PROVE  /\ a \in Agent /\ agentRow[a].st \in AgentStatus
         /\ agentRow[a].at \in Nat /\ agentRow[a].seen \in Nat
         /\ StatusOf(a) \in AgentStatus /\ LatestStamp(a) \in Nat /\ agentRow[a].at <= LatestStamp(a)
         /\ RowRead(a) \in AgentRowType
         /\ RowRead(a).a = a /\ RowRead(a).at = agentRow[a].at /\ RowRead(a).status = StatusOf(a)
<1>1. /\ a \in Agent /\ agentRow[a].st \in AgentStatus
      /\ agentRow[a].at \in Nat /\ agentRow[a].seen \in Nat
  BY DEF Existing, AgentsTypeOK
<1>2. StatusOf(a) \in AgentStatus
  <2>1. CASE agentRow[a].st = "updating"
    BY <2>1 DEF StatusOf, AgentStatus
  <2>2. CASE agentRow[a].st # "updating" /\ agentRow[a].seen = 0
    BY <2>2 DEF StatusOf, AgentStatus
  <2>3. CASE agentRow[a].st # "updating" /\ agentRow[a].seen > 0 /\ a \in silentAgents
    BY <1>1, <2>3 DEF StatusOf, AgentStatus
  <2>4. CASE agentRow[a].st # "updating" /\ agentRow[a].seen > 0 /\ a \notin silentAgents
    <3>1. StatusOf(a) = agentRow[a].st
      BY <1>1, <2>4 DEF StatusOf
    <3> QED BY <1>1, <3>1
  <2> QED BY <1>1, <2>1, <2>2, <2>3, <2>4
<1>3. LatestStamp(a) \in Nat /\ agentRow[a].at <= LatestStamp(a)
  BY <1>1 DEF LatestStamp
<1>4. RowRead(a) = [a |-> a, status |-> StatusOf(a), at |-> agentRow[a].at]
  BY DEF RowRead
<1> QED BY <1>1, <1>2, <1>3, <1>4 DEF AgentRowType

\* ... and of the parts of the records.
LEMMA AgentParts ==
  ASSUME AgentsTypeOK
  PROVE  /\ agentLoad.phase \in {"sent", "read", "done"} /\ agentLoad.rows \subseteq AgentRowType
         /\ agents \subseteq AgentRowType /\ PageRows \subseteq AgentRowType
         /\ agentConn.up \in BOOLEAN /\ agentConn.since \in Nat
         /\ agentConn.wire \in Seq(AgentRowType)
         /\ ToSet(agentConn.wire) \subseteq AgentRowType
         /\ \A r \in AgentRowType : r.a \in Agent /\ r.at \in Nat /\ r.status \in AgentStatus
         /\ Existing \subseteq Agent /\ passedBy \subseteq Existing
<1>1. agentConn.wire \in Seq(AgentRowType) /\ agentConn.up \in BOOLEAN /\ agentConn.since \in Nat
  BY DEF AgentsTypeOK
<1>2. ToSet(agentConn.wire) \subseteq AgentRowType
  BY <1>1 DEF ToSet
<1>3. /\ agentLoad.rows \subseteq AgentRowType /\ agents \subseteq AgentRowType
      /\ PageRows \subseteq AgentRowType /\ agentLoad.phase \in {"sent", "read", "done"}
  BY DEF AgentsTypeOK, PageRows
<1>4. Existing \subseteq Agent /\ passedBy \subseteq Existing
  BY DEF AgentsTypeOK, Existing
<1> QED BY <1>1, <1>2, <1>3, <1>4 DEF AgentRowType

LEMMA AgentsInitial == AgentsInit => AgentsInv
<1> SUFFICES ASSUME AgentsInit PROVE AgentsInv
  OBVIOUS
<1> USE DEF AgentsInit, NoAgentStream
<1>1. agentRow \in [Agent -> [st : AgentStatus \cup {"none", "gone"}, at : Nat, seen : Nat]]
  BY DEF NoAgentRow, AgentStatus
<1>2. AgentsTypeOK
  <2>1. agentLoad \in [phase : {"sent", "read", "done"}, rows : SUBSET AgentRowType]
    OBVIOUS
  <2>2. agentConn \in [up : BOOLEAN, since : Nat, wire : Seq(AgentRowType)]
    OBVIOUS
  <2> QED BY <1>1, <2>1, <2>2 DEF AgentsTypeOK
<1>3. ToSet(agentConn.wire) = {} /\ DOMAIN agentConn.wire = {}
  BY DEF ToSet
<1>4. FiniteRows
  BY FS_EmptySet DEF FiniteRows
<1> QED BY <1>2, <1>3, <1>4 DEF AgentsInv, WritesOfAgents, AgentWire, WireAhead, OnItsWay, AgentsFollowed
-----------------------------------------------------------------------------
\* Steps on the server: where the row of an agent changes, the agent is recorded or its stamp
\* is ahead of the cursor; for the others nothing changes.
PageStays == agentLoad' = agentLoad /\ agents' = agents /\ agentConn' = agentConn
             /\ agentFeed' = agentFeed /\ agentDrops' = agentDrops

LEMMA ServerStep ==
  ASSUME AgentsInv, PageStays, AgentsTypeOK', WritesOfAgents',
         NEW changed \in SUBSET Agent,
         \A a \in Agent \ changed :
            /\ agentRow'[a] = agentRow[a] /\ (a \in silentAgents' <=> a \in silentAgents)
            /\ a \in passedBy' <=> a \in passedBy,
         \A a \in changed : a \in Existing' \ passedBy' => AheadOf(a)'
  PROVE  AgentsInv'
<1> USE DEF AgentsInv, PageStays
<1>1. ASSUME NEW a \in Agent \ changed
      PROVE  /\ a \in Existing' <=> a \in Existing
             /\ StatusOf(a)' = StatusOf(a) /\ RowRead(a)' = RowRead(a)
             /\ LatestStamp(a)' = LatestStamp(a)
             /\ OnItsWay(a)' <=> OnItsWay(a)
             /\ (Current(a)' <=> Current(a)) /\ (AheadOf(a)' <=> AheadOf(a))
  <2>1. agentRow'[a] = agentRow[a] /\ (a \in silentAgents' <=> a \in silentAgents)
    OBVIOUS
  <2>2. a \in Existing' <=> a \in Existing
    BY <2>1 DEF Existing
  <2>3. StatusOf(a)' = StatusOf(a)
    BY <2>1 DEF StatusOf
  <2>4. RowRead(a)' = RowRead(a) /\ LatestStamp(a)' = LatestStamp(a)
    BY <2>1, <2>3 DEF RowRead, LatestStamp
  <2>5. OnItsWay(a)' <=> OnItsWay(a)
    BY <2>4 DEF OnItsWay
  <2>6. ReadOrShown(a)' <=> ReadOrShown(a)
    BY <2>3 DEF ReadOrShown, PageRows
  <2>7. AheadOf(a)' <=> AheadOf(a)
    BY <2>4 DEF AheadOf, PastStamp
  <2>8. NoneOnItsWay(a)' <=> NoneOnItsWay(a)
    BY DEF NoneOnItsWay
  <2> QED BY <2>2, <2>3, <2>4, <2>5, <2>6, <2>7, <2>8 DEF Current
<1>2. Existing' \subseteq Agent
  BY DEF Existing
<1>3. AgentWire' /\ FiniteRows'
  BY DEF AgentWire, FiniteRows
<1>4. ASSUME NEW a \in Existing' \ passedBy', a \in changed PROVE \A r \in agents : r.at <= LatestStamp(a)'
  <2>1. ~PastStamp(LatestStamp(a))'
    BY <1>4 DEF AheadOf
  <2>2. LatestStamp(a)' \in Nat
    <3>1. a \in Existing'
      OBVIOUS
    <3> QED BY <3>1 DEF LatestStamp, AgentsTypeOK, Existing
  <2>3. \A r \in agents : ~(r.at > LatestStamp(a)')
    BY <2>1 DEF PastStamp
  <2>4. \A r \in agents : r.at \in Nat
    BY AgentParts
  <2> QED BY <2>2, <2>3, <2>4
<1>5. WireAhead'
  <2> SUFFICES ASSUME NEW a \in Existing' \ passedBy', OnItsWay(a)', NEW r \in agents
               PROVE  r.at <= LatestStamp(a)'
    BY DEF WireAhead
  <2>1. CASE a \in changed
    BY <1>4, <2>1
  <2>2. CASE a \notin changed
    <3>1. a \in Existing \ passedBy /\ OnItsWay(a) /\ LatestStamp(a)' = LatestStamp(a)
      BY <1>1, <1>2, <2>2
    <3> QED BY <3>1 DEF WireAhead
  <2> QED BY <2>1, <2>2
<1>6. AgentsFollowed'
  <2> SUFFICES ASSUME agentLoad.phase # "sent", NEW a \in Existing' \ passedBy'
               PROVE  Current(a)' \/ AheadOf(a)'
    BY DEF AgentsFollowed
  <2>1. CASE a \in changed
    <3>1. ~PastStamp(LatestStamp(a))'
      BY <2>1 DEF AheadOf
    <3> QED BY <3>1 DEF AheadOf
  <2>2. CASE a \notin changed
    <3>1. a \in Existing \ passedBy
      BY <1>1, <1>2, <2>2
    <3>2. Current(a) \/ AheadOf(a)
      BY <3>1 DEF AgentsFollowed
    <3>3. a \in Agent \ changed
      BY <1>2, <2>2
    <3> QED BY <1>1, <3>2, <3>3
  <2> QED BY <2>1, <2>2
<1> QED BY <1>3, <1>5, <1>6

LEMMA StampKeeps ==
  ASSUME AgentsInv, NEW a \in Agent, NEW kind \in {"beat", "begin", "end"},
         NEW st \in AgentStatus, Stamp(a, kind, st),
         a \in Existing \/ agentRow[a].st = "none",
         gatewayRuns' \subseteq gatewayRuns
  PROVE  AgentsInv'
<1> USE DEF AgentsInv
<1> DEFINE w == [a |-> a, kind |-> kind, at |-> agentClock',
                 st |-> IF st = agentRow[a].st THEN "kept" ELSE st]
<1>1. /\ agentClock' = agentClock + 1 /\ openWrites' = openWrites \cup {w}
      /\ UNCHANGED <<agentRow, silentAgents, passedBy>> /\ PageStays
  BY DEF Stamp, PageStays
<1>2. w \in [a : Agent, kind : {"beat", "begin", "end"}, st : AgentStatus \cup {"kept"}, at : Nat]
  <2>1. agentClock' \in Nat
    BY <1>1 DEF AgentsTypeOK
  <2> QED BY <2>1
<1>3. w.a = a /\ (w.st = "kept" => st = agentRow[a].st)
  <2>1. st # "kept"
    BY DEF AgentStatus
  <2> QED BY <2>1
<1> HIDE DEF w
<1>4. Existing' = Existing
  BY <1>1 DEF Existing
<1>5. AgentsTypeOK'
  BY <1>1, <1>2, <1>4 DEF AgentsTypeOK, PageStays
<1>6. WritesOfAgents'
  <2>1. a \in Existing \/ w.st # "kept"
    BY <1>3 DEF AgentStatus
  <2> QED BY <1>1, <1>3, <1>4, <2>1 DEF WritesOfAgents
<1>7. \A b \in Agent \ {} :
            /\ agentRow'[b] = agentRow[b] /\ (b \in silentAgents' <=> b \in silentAgents)
            /\ b \in passedBy' <=> b \in passedBy
  BY <1>1
<1>8. {} \in SUBSET Agent /\ PageStays
  BY <1>1
<1> QED BY <1>5, <1>6, <1>7, <1>8, ServerStep

LEMMA StampsKeep ==
  ASSUME AgentsInv, NEW a \in Agent,
         Heartbeat(a) \/ CreateAgent(a) \/ UpdateAgent(a) \/ RunCompletes(a)
  PROVE  AgentsInv'
<1> USE DEF AgentsInv
<1>1. {"provisioning", "updating", "online"} \subseteq AgentStatus /\ Reported \subseteq AgentStatus
  BY AgentAssumption DEF AgentStatus
<1>2. a \in Existing => agentRow[a].st \in AgentStatus
  BY DEF Existing
<1>3. ASSUME Heartbeat(a) PROVE AgentsInv'
  <2>1. a \in Existing /\ gatewayRuns' = gatewayRuns
    BY <1>3 DEF Heartbeat
  <2>2. PICK st \in AgentStatus : Stamp(a, "beat", st)
    BY <1>1, <1>2, <1>3, <2>1 DEF Heartbeat
  <2> QED BY <2>1, <2>2, StampKeeps
<1>4. ASSUME CreateAgent(a) PROVE AgentsInv'
  <2>1. agentRow[a].st = "none" /\ gatewayRuns' = gatewayRuns /\ Stamp(a, "begin", "provisioning")
    BY <1>4 DEF CreateAgent, NoAgentRow
  <2> QED BY <1>1, <2>1, StampKeeps
<1>5. ASSUME UpdateAgent(a) PROVE AgentsInv'
  <2>1. a \in Existing /\ gatewayRuns' = gatewayRuns
    BY <1>5 DEF UpdateAgent
  <2>2. PICK st \in AgentStatus : Stamp(a, "begin", st)
    BY <1>1, <1>5 DEF UpdateAgent
  <2> QED BY <2>1, <2>2, StampKeeps
<1>6. ASSUME RunCompletes(a) PROVE AgentsInv'
  <2>1. a \in Existing /\ gatewayRuns' \subseteq gatewayRuns /\ Stamp(a, "end", "online")
    BY <1>6 DEF RunCompletes, AgentsTypeOK
  <2> QED BY <1>1, <2>1, StampKeeps
<1> QED BY <1>3, <1>4, <1>5, <1>6

LEMMA CommitAgentKeeps ==
  ASSUME AgentsInv, NEW w \in openWrites, CommitAgent(w) PROVE AgentsInv'
<1> USE DEF AgentsInv
<1>1. /\ openWrites' = openWrites \ {w} /\ agentRow' = [agentRow EXCEPT ![w.a] = WrittenRow(w)]
      /\ gatewayRuns' \subseteq gatewayRuns \cup {w.a}
      /\ silentAgents' \subseteq silentAgents /\ silentAgents \subseteq silentAgents' \cup {w.a}
      /\ passedBy' = IF PastStamp(LatestStamp(w.a)') THEN passedBy \cup {w.a} ELSE passedBy \ {w.a}
      /\ agentClock' = agentClock /\ PageStays
  BY DEF CommitAgent, PageStays
<1>2. /\ w.a \in Agent /\ w.at \in Nat /\ w.st \in AgentStatus \cup {"kept"}
      /\ agentRow[w.a].seen \in Nat
      /\ w.st = "kept" => agentRow[w.a].st \in AgentStatus
  <2>1. w \in [a : Agent, kind : {"beat", "begin", "end"}, st : AgentStatus \cup {"kept"}, at : Nat]
    BY DEF AgentsTypeOK
  <2> QED BY <2>1 DEF AgentsTypeOK, WritesOfAgents, Existing
<1>3. /\ WrittenRow(w).st \in AgentStatus
      /\ WrittenRow(w) \in [st : AgentStatus \cup {"none", "gone"}, at : Nat, seen : Nat]
  <2> DEFINE st == IF w.st = "kept" THEN agentRow[w.a].st ELSE w.st
             seen == IF w.kind = "beat" THEN w.at ELSE agentRow[w.a].seen
  <2>1. st \in AgentStatus /\ seen \in Nat
    BY <1>2
  <2>2. WrittenRow(w) = [st |-> st, at |-> w.at, seen |-> seen]
    BY DEF WrittenRow
  <2> HIDE DEF st, seen
  <2> QED BY <1>2, <2>1, <2>2
<1>4. agentRow'[w.a] = WrittenRow(w) /\ \A a \in Agent \ {w.a} : agentRow'[a] = agentRow[a]
  BY <1>1, <1>2 DEF AgentsTypeOK
<1>5. Existing' = Existing \cup {w.a}
  BY <1>2, <1>3, <1>4 DEF Existing
<1>6. AgentsTypeOK'
  <2>1. agentRow' \in [Agent -> [st : AgentStatus \cup {"none", "gone"}, at : Nat, seen : Nat]]
    BY <1>1, <1>3 DEF AgentsTypeOK
  <2>2. UNION {gatewayRuns', silentAgents', passedBy'} \subseteq Existing'
    <3>1. gatewayRuns' \subseteq Existing' /\ silentAgents' \subseteq Existing'
      BY <1>1, <1>5 DEF AgentsTypeOK
    <3>2. passedBy' \subseteq Existing'
      BY <1>1, <1>5 DEF AgentsTypeOK
    <3> QED BY <3>1, <3>2
  <2> QED BY <1>1, <2>1, <2>2 DEF AgentsTypeOK, PageStays
<1>7. WritesOfAgents'
  <2> SUFFICES ASSUME NEW v \in openWrites \ {w}, v.a \notin Existing'
               PROVE  agentRow'[v.a].st = "none" /\ v.st # "kept"
    BY <1>1 DEF WritesOfAgents
  <2>1. v.a \in Agent /\ v.a # w.a /\ v.a \notin Existing
    BY <1>5 DEF AgentsTypeOK
  <2> QED BY <1>4, <2>1 DEF WritesOfAgents
<1>8. w.a \notin passedBy' => AheadOf(w.a)'
  <2>1. PastStamp(LatestStamp(w.a))' <=> PastStamp(LatestStamp(w.a)')
    BY <1>1 DEF PastStamp, PageStays
  <2> QED BY <1>1, <2>1 DEF AheadOf
<1>9. \A a \in Agent \ {w.a} :
            /\ agentRow'[a] = agentRow[a] /\ (a \in silentAgents' <=> a \in silentAgents)
            /\ a \in passedBy' <=> a \in passedBy
  BY <1>1, <1>4
<1>10. {w.a} \in SUBSET Agent
  BY <1>2
<1> QED BY <1>1, <1>6, <1>7, <1>8, <1>9, <1>10, ServerStep

LEMMA FallSilentKeeps == ASSUME AgentsInv, NEW a \in Agent, FallSilent(a) PROVE AgentsInv'
<1> USE DEF AgentsInv
<1>1. /\ a \in Existing /\ silentAgents' = silentAgents \cup {a}
      /\ passedBy' = IF PastStamp(LatestStamp(a)) THEN passedBy \cup {a} ELSE passedBy \ {a}
      /\ UNCHANGED <<agentRow, agentClock, openWrites, gatewayRuns>> /\ PageStays
  BY DEF FallSilent, PageStays
<1>2. Existing' = Existing
  BY <1>1 DEF Existing
<1>3. AgentsTypeOK' /\ WritesOfAgents'
  BY <1>1, <1>2 DEF AgentsTypeOK, PageStays, WritesOfAgents
<1>4. a \notin passedBy' => AheadOf(a)'
  <2>1. PastStamp(LatestStamp(a))' <=> PastStamp(LatestStamp(a))
    BY <1>1 DEF PastStamp, LatestStamp, PageStays
  <2> QED BY <1>1, <2>1 DEF AheadOf
<1>5. \A b \in Agent \ {a} :
            /\ agentRow'[b] = agentRow[b] /\ (b \in silentAgents' <=> b \in silentAgents)
            /\ b \in passedBy' <=> b \in passedBy
  BY <1>1
<1> QED BY <1>1, <1>3, <1>4, <1>5, ServerStep

LEMMA DeleteAgentKeeps == ASSUME AgentsInv, NEW a \in Agent, DeleteAgent(a) PROVE AgentsInv'
<1> USE DEF AgentsInv
<1>1. /\ a \in Existing /\ agentRow' = [agentRow EXCEPT ![a].st = "gone"]
      /\ openWrites' = {w \in openWrites : w.a # a}
      /\ gatewayRuns' = gatewayRuns \ {a} /\ silentAgents' = silentAgents \ {a}
      /\ passedBy' = passedBy \ {a} /\ agentClock' = agentClock /\ PageStays
  BY DEF DeleteAgent, PageStays
<1>2. /\ agentRow' \in [Agent -> [st : AgentStatus \cup {"none", "gone"}, at : Nat, seen : Nat]]
      /\ agentRow'[a].st = "gone" /\ \A b \in Agent \ {a} : agentRow'[b] = agentRow[b]
  BY <1>1 DEF AgentsTypeOK
<1>3. Existing' = Existing \ {a}
  BY <1>2 DEF Existing, AgentStatus
<1>4. AgentsTypeOK'
  <2>1. UNION {gatewayRuns', silentAgents', passedBy'} \subseteq Existing'
    BY <1>1, <1>3 DEF AgentsTypeOK
  <2> QED BY <1>1, <1>2, <2>1 DEF AgentsTypeOK, PageStays
<1>5. WritesOfAgents'
  <2> SUFFICES ASSUME NEW v \in openWrites, v.a # a, v.a \notin Existing'
               PROVE  agentRow'[v.a].st = "none" /\ v.st # "kept"
    BY <1>1 DEF WritesOfAgents
  <2>1. v.a \in Agent /\ v.a \notin Existing
    BY <1>3 DEF AgentsTypeOK
  <2> QED BY <1>2, <2>1 DEF WritesOfAgents
<1>6. \A b \in Agent \ {a} :
            /\ agentRow'[b] = agentRow[b] /\ (b \in silentAgents' <=> b \in silentAgents)
            /\ b \in passedBy' <=> b \in passedBy
  BY <1>1, <1>2
<1> QED BY <1>1, <1>3, <1>4, <1>5, <1>6, ServerStep
-----------------------------------------------------------------------------
\* The server's rows do not change...
SameServer == UNCHANGED serverVars

LEMMA SameRows ==
  ASSUME SameServer
  PROVE  /\ Existing' = Existing
         /\ \A a \in Agent : /\ StatusOf(a)' = StatusOf(a) /\ RowRead(a)' = RowRead(a)
                             /\ LatestStamp(a)' = LatestStamp(a)
         /\ WritesOfAgents <=> WritesOfAgents'
<1>1. agentRow' = agentRow /\ silentAgents' = silentAgents /\ openWrites' = openWrites
  BY DEF SameServer, serverVars
<1>2. Existing' = Existing
  BY <1>1 DEF Existing
<1> QED BY <1>1, <1>2 DEF StatusOf, RowRead, LatestStamp, WritesOfAgents

\* The rows of some agents are no more than the agents.
LEMMA RowsFinite ==
  ASSUME NEW S \in SUBSET Existing
  PROVE  IsFiniteSet({RowRead(a) : a \in S})
<1> DEFINE rows == {RowRead(a) : a \in S}
           f == [a \in S |-> RowRead(a)]
<1>1. f \in Surjection(S, rows)
  BY DEF Surjection
<1>2. IsFiniteSet(S)
  BY FS_Subset, AgentAssumption DEF Existing
<1> QED BY <1>1, <1>2, FS_Surjection

LEMMA AgentsReadKeeps == ASSUME AgentsInv, AgentsRead PROVE AgentsInv'
<1> USE DEF AgentsInv
<1> DEFINE rows == {RowRead(a) : a \in Existing}
<1>1. /\ SameServer /\ agentLoad.phase = "sent"
      /\ agentLoad' = [phase |-> "read", rows |-> rows]
      /\ agents' = agents /\ agentConn' = agentConn
      /\ agentFeed' = agentFeed /\ agentDrops' = agentDrops /\ passedBy' = passedBy
  BY DEF AgentsRead, SameServer
<1>2. rows \subseteq AgentRowType /\ (\A a \in Existing : RowRead(a) \in rows) /\ IsFiniteSet(rows)
  BY RowReadIs, RowsFinite
<1> HIDE DEF rows
<1>3. agentLoad'.phase = "read" /\ agentLoad'.rows = rows
  BY <1>1
<1>4. agents = {} /\ ~agentConn.up /\ agentConn.wire = <<>>
  BY <1>1, AgentParts DEF AgentWire
<1>5. Existing' = Existing /\ \A a \in Agent : StatusOf(a)' = StatusOf(a) /\ RowRead(a)' = RowRead(a)
  BY <1>1, SameRows
<1>6. AgentsTypeOK'
  <2>1. agentLoad' \in [phase : {"sent", "read", "done"}, rows : SUBSET AgentRowType]
    BY <1>1, <1>2
  <2> QED BY <1>1, <1>5, <2>1 DEF AgentsTypeOK, SameServer, serverVars
<1>7. AgentWire'
  BY <1>1, <1>3, <1>4 DEF AgentWire
<1>8. WireAhead'
  BY <1>1, <1>4 DEF WireAhead
<1>9. AgentsFollowed'
  <2> SUFFICES ASSUME NEW a \in Existing PROVE Current(a)'
    BY <1>5 DEF AgentsFollowed
  <2>1. PageRows' = rows /\ ToSet(agentConn'.wire) = {}
    BY <1>1, <1>3, <1>4 DEF PageRows, ToSet
  <2>2. RowRead(a) \in rows /\ RowRead(a).a = a /\ RowRead(a).status = StatusOf(a)' /\ a \in Agent
    BY <1>2, <1>5, RowReadIs
  <2> QED BY <2>1, <2>2 DEF Current, NoneOnItsWay, ReadOrShown
<1>10. FiniteRows'
  BY <1>1, <1>2, <1>3 DEF FiniteRows
<1> QED BY <1>1, <1>6, <1>7, <1>8, <1>9, <1>10, SameRows

LEMMA AgentsSetKeeps == ASSUME AgentsInv, AgentsSet PROVE AgentsInv'
<1> USE DEF AgentsInv
<1>1. /\ SameServer /\ agentLoad.phase = "read"
      /\ agentLoad' = [phase |-> "done", rows |-> {}]
      /\ agents' = agentLoad.rows /\ agentConn' = agentConn
      /\ agentFeed' = agentFeed /\ agentDrops' = agentDrops /\ passedBy' = passedBy
  BY DEF AgentsSet, SameServer
<1>2. agents = {} /\ ~agentConn.up /\ agentConn.wire = <<>>
  BY <1>1, AgentParts DEF AgentWire
<1>3. PageRows' = PageRows
  BY <1>1, <1>2 DEF PageRows
<1>4. Existing' = Existing /\ \A a \in Agent : StatusOf(a)' = StatusOf(a) /\ LatestStamp(a)' = LatestStamp(a)
  BY <1>1, SameRows
<1>5. AgentsTypeOK'
  <2>1. agentLoad' \in [phase : {"sent", "read", "done"}, rows : SUBSET AgentRowType]
    BY <1>1
  <2> QED BY <1>1, <1>4, <2>1, AgentParts DEF AgentsTypeOK, SameServer, serverVars
<1>6. AgentWire'
  BY <1>1, <1>2 DEF AgentWire
<1>7. WireAhead' /\ \A a \in Existing : ~OnItsWay(a)
  <2>1. ToSet(agentConn.wire) = {} /\ ToSet(agentConn'.wire) = {}
    BY <1>1, <1>2 DEF ToSet
  <2> QED BY <2>1 DEF WireAhead, OnItsWay
<1>8. AgentsFollowed'
  <2> SUFFICES ASSUME NEW a \in Existing \ passedBy PROVE Current(a)' \/ AheadOf(a)'
    BY <1>1, <1>4 DEF AgentsFollowed
  <2>1. a \in Agent
    BY AgentParts
  <2>2. CASE Current(a)
    <3>1. ReadOrShown(a)' /\ NoneOnItsWay(a)'
      BY <1>1, <1>3, <1>4, <1>7, <2>1, <2>2 DEF Current, ReadOrShown, NoneOnItsWay
    <3> QED BY <3>1 DEF Current
  <2>3. CASE AheadOf(a)
    <3>1. AheadOf(a)'
      BY <1>1, <1>3, <1>4, <2>1, <2>3 DEF AheadOf, PastStamp, PageRows
    <3> QED BY <3>1
  <2> QED BY <1>1, <2>2, <2>3 DEF AgentsFollowed
<1>9. FiniteRows'
  BY <1>1, FS_EmptySet DEF FiniteRows
<1> QED BY <1>1, <1>5, <1>6, <1>7, <1>8, <1>9, SameRows

\* The newest stamp shown, which latestAgentTimestamp is.
LEMMA ShownStamp ==
  ASSUME AgentsTypeOK, agents # {}, IsFiniteSet(agents)
  PROVE  LET newest == Max({r.at : r \in agents})
         IN  /\ newest \in Nat /\ \E r \in agents : newest = r.at
             /\ \A r \in agents : r.at <= newest
<1> DEFINE stamps == {r.at : r \in agents}
           f == [r \in agents |-> r.at]
<1>1. stamps \in SUBSET Nat /\ stamps # {}
  BY AgentParts
<1>2. IsFiniteSet(stamps)
  <2>1. f \in Surjection(agents, stamps)
    BY DEF Surjection
  <2> QED BY <2>1, FS_Surjection
<1>3. \A n \in stamps : \E r \in agents : n = r.at
  OBVIOUS
<1>4. \A r \in agents : r.at \in stamps
  OBVIOUS
<1> HIDE DEF stamps
<1>5. Max(stamps) \in stamps /\ \A n \in stamps : n <= Max(stamps)
  BY <1>1, <1>2, FiniteMaxIs
<1>6. Max(stamps) \in Nat /\ (\E r \in agents : Max(stamps) = r.at) /\ \A r \in agents : r.at <= Max(stamps)
  BY <1>1, <1>3, <1>4, <1>5
<1> QED BY <1>6 DEF stamps

LEMMA ConnectAgentsKeeps == ASSUME AgentsInv, ConnectAgents PROVE AgentsInv'
<1> USE DEF AgentsInv
<1>1. /\ SameServer /\ agentLoad.phase = "done" /\ ~agentConn.up
      /\ agentConn' = [up |-> TRUE, since |-> AgentCursor, wire |-> <<>>]
      /\ passedBy' = IF agents = {} THEN Existing ELSE passedBy
      /\ agents' = agents /\ agentLoad' = agentLoad
      /\ agentFeed' = agentFeed /\ agentDrops' = agentDrops
  BY DEF ConnectAgents, SameServer
<1>2. /\ AgentCursor \in Nat /\ (\A r \in agents : r.at <= AgentCursor)
      /\ agents # {} => \E r \in agents : AgentCursor = r.at
  <2>1. CASE agents = {}
    BY <2>1 DEF AgentCursor, AgentsTypeOK
  <2>2. CASE agents # {}
    BY <2>2, ShownStamp DEF AgentCursor, FiniteRows
  <2> QED BY <2>1, <2>2
<1>3. agentConn'.up /\ agentConn'.since = AgentCursor /\ agentConn'.wire = <<>>
  BY <1>1
<1>4. agentConn.wire = <<>> /\ agentLoad.rows = {} /\ ToSet(agentConn'.wire) = {}
  BY <1>1 DEF AgentWire, ToSet
<1>5. /\ Existing' = Existing
      /\ \A a \in Agent : StatusOf(a)' = StatusOf(a) /\ LatestStamp(a)' = LatestStamp(a)
  BY <1>1, SameRows
<1>6. AgentsTypeOK'
  <2>1. agentConn' \in [up : BOOLEAN, since : Nat, wire : Seq(AgentRowType)]
    BY <1>1, <1>2
  <2>2. passedBy' \subseteq Existing'
    BY <1>1, <1>5, AgentParts
  <2> QED BY <1>1, <1>5, <2>1, <2>2 DEF AgentsTypeOK, SameServer, serverVars
<1>7. AgentWire' /\ FiniteRows'
  BY <1>1, <1>2, <1>3 DEF AgentWire, FiniteRows
<1>8. WireAhead'
  <2>1. \A a \in Agent : ~OnItsWay(a)'
    BY <1>4 DEF OnItsWay
  <2> QED BY <1>5, <2>1, AgentParts DEF WireAhead
<1>9. AgentsFollowed'
  <2> SUFFICES ASSUME NEW a \in Existing \ passedBy' PROVE Current(a)' \/ AheadOf(a)'
    BY <1>5 DEF AgentsFollowed
  <2>1. a \in Agent /\ a \notin passedBy /\ agents # {}
    BY <1>1, AgentParts
  <2>2. CASE Current(a)
    <3>1. ReadOrShown(a)
      BY <1>4, <2>2 DEF Current, OnItsWay, ToSet
    <3>2. ReadOrShown(a)' /\ NoneOnItsWay(a)'
      BY <1>1, <1>4, <1>5, <2>1, <3>1 DEF ReadOrShown, NoneOnItsWay, PageRows
    <3> QED BY <3>2 DEF Current
  <2>3. CASE AheadOf(a)
    <3>1. PICK r \in agents : AgentCursor = r.at
      BY <1>2, <2>1
    <3>2. \A s \in agents \cup agentLoad.rows : ~(s.at > LatestStamp(a))
      BY <2>3 DEF AheadOf, PastStamp
    <3>3. ~PastStamp(LatestStamp(a))'
      BY <1>1, <1>3, <1>5, <2>1, <3>1, <3>2 DEF PastStamp
    <3> QED BY <3>3 DEF AheadOf
  <2> QED BY <1>1, <2>1, <2>2, <2>3 DEF AgentsFollowed
<1> QED BY <1>1, <1>6, <1>7, <1>8, <1>9, SameRows

\* What was on the way is no older than what is shown: the next stream brings it again.
LEMMA LoseAgentsKeeps == ASSUME AgentsInv, LoseAgents PROVE AgentsInv'
<1> USE DEF AgentsInv
<1>1. /\ SameServer /\ agentConn.up /\ agentConn' = NoAgentStream
      /\ agents' = agents /\ agentLoad' = agentLoad /\ passedBy' = passedBy
      /\ agentFeed' = agentFeed /\ agentDrops' \in Nat
  BY DEF LoseAgents, SameServer, AgentsTypeOK
<1>2. ~agentConn'.up /\ agentConn'.since = 0 /\ agentConn'.wire = <<>> /\ ToSet(agentConn'.wire) = {}
  BY <1>1 DEF NoAgentStream, ToSet
<1>3. agentLoad.phase = "done" /\ agentLoad.rows = {}
  BY <1>1 DEF AgentWire
<1>4. /\ Existing' = Existing
      /\ \A a \in Agent : StatusOf(a)' = StatusOf(a) /\ LatestStamp(a)' = LatestStamp(a)
  BY <1>1, SameRows
<1>5. AgentsTypeOK'
  <2>1. agentConn' \in [up : BOOLEAN, since : Nat, wire : Seq(AgentRowType)]
    BY <1>1 DEF NoAgentStream
  <2> QED BY <1>1, <1>4, <2>1 DEF AgentsTypeOK, SameServer, serverVars
<1>6. AgentWire' /\ FiniteRows'
  BY <1>1, <1>2, <1>3 DEF AgentWire, FiniteRows
<1>7. WireAhead'
  <2>1. \A a \in Agent : ~OnItsWay(a)'
    BY <1>2 DEF OnItsWay
  <2> QED BY <1>4, <2>1, AgentParts DEF WireAhead
<1>8. AgentsFollowed'
  <2> SUFFICES ASSUME NEW a \in Existing \ passedBy PROVE Current(a)' \/ AheadOf(a)'
    BY <1>1, <1>4 DEF AgentsFollowed
  <2>1. a \in Agent /\ LatestStamp(a) \in Nat
    BY RowReadIs
  <2>2. ASSUME \A r \in agents : ~(r.at > LatestStamp(a)) PROVE AheadOf(a)'
    <3>1. ~PastStamp(LatestStamp(a))'
      BY <1>1, <1>2, <1>3, <1>4, <2>1, <2>2 DEF PastStamp
    <3> QED BY <3>1 DEF AheadOf
  <2>3. CASE OnItsWay(a)
    <3>1. \A r \in agents : r.at <= LatestStamp(a) /\ r.at \in Nat
      BY <2>3, AgentParts DEF WireAhead
    <3> QED BY <2>1, <2>2, <3>1
  <2>4. CASE ReadOrShown(a)
    <3>1. ReadOrShown(a)' /\ NoneOnItsWay(a)'
      BY <1>1, <1>2, <1>4, <2>1, <2>4 DEF ReadOrShown, NoneOnItsWay, PageRows
    <3> QED BY <3>1 DEF Current
  <2>5. CASE AheadOf(a)
    <3>1. \A r \in agents : ~(r.at > LatestStamp(a))
      BY <2>5 DEF AheadOf, PastStamp
    <3> QED BY <2>2, <3>1
  <2> QED BY <1>3, <2>3, <2>4, <2>5 DEF AgentsFollowed, Current
<1> QED BY <1>1, <1>5, <1>6, <1>7, <1>8, SameRows

\* What OrderedBy does with the rows of a poll.
LEMMA PolledRows ==
  ASSUME AgentsTypeOK, StreamedAgents # {}, PollAgents
  PROVE  LET rows == {RowRead(a) : a \in StreamedAgents}
             wire == agentConn'.wire
         IN  /\ agentConn'.up = agentConn.up
             /\ wire \in Seq(AgentRowType) /\ ToSet(wire) = rows
             /\ \A i, j \in DOMAIN wire : i < j => wire[i].at <= wire[j].at /\ wire[i].a # wire[j].a
             /\ agentConn'.since \in Nat /\ agentConn.since <= agentConn'.since
             /\ \A r \in rows : r.at <= agentConn'.since
<1> DEFINE rows == {RowRead(a) : a \in StreamedAgents}
           key == [r \in rows |-> r.at]
           wire == OrderedBy(rows, key)
           stamps == {r.at : r \in rows}
           all == {agentConn.since} \cup stamps
           g == [r \in rows |-> r.at]
<1>1. StreamedAgents \subseteq Existing
  BY DEF StreamedAgents
<1>2. \A a \in StreamedAgents : RowRead(a) \in AgentRowType /\ RowRead(a).a = a
  BY <1>1, RowReadIs
<1>3. rows \subseteq AgentRowType /\ IsFiniteSet(rows)
  BY <1>1, <1>2, RowsFinite
<1>4. \A r \in rows, s \in rows : r # s => r.a # s.a
  BY <1>2
<1>5. \A r \in rows : r.at \in Nat
  BY <1>3, AgentParts
<1>6. key \in [rows -> Nat] /\ \A r \in rows : key[r] = r.at
  BY <1>5
<1>7. all \in SUBSET Nat /\ IsFiniteSet(all) /\ all # {}
  <2>1. g \in Surjection(rows, stamps)
    BY DEF Surjection
  <2>2. IsFiniteSet(stamps)
    BY <2>1, <1>3, FS_Surjection
  <2>3. IsFiniteSet(all)
    BY <2>2, FS_Singleton, FS_Union
  <2>4. stamps \subseteq Nat
    BY <1>5
  <2> QED BY <2>3, <2>4, AgentParts
<1>8. agentConn'.up = agentConn.up /\ agentConn'.since = Max(all) /\ agentConn'.wire = wire
  BY DEF PollAgents, AgentsTypeOK
<1>9. (\A r \in rows : r.at \in all) /\ agentConn.since \in all
  OBVIOUS
<1>10. Max(all) \in all /\ \A n \in all : n <= Max(all)
  <2> HIDE DEF all
  <2> QED BY <1>7, FiniteMaxIs
<1> HIDE DEF key, rows, all
<1>11. /\ wire \in Seq(rows) /\ ToSet(wire) = rows
       /\ \A i, j \in DOMAIN wire : i # j => wire[i] # wire[j]
       /\ \A i, j \in DOMAIN wire : i < j => key[wire[i]] <= key[wire[j]]
  BY <1>3, <1>6, OrderedByIs
<1> HIDE DEF wire
<1>12. DOMAIN wire \subseteq Nat /\ \A i \in DOMAIN wire : wire[i] \in rows
  BY <1>11
<1>13. ASSUME NEW i \in DOMAIN wire, NEW j \in DOMAIN wire, i < j
       PROVE  wire[i].at <= wire[j].at /\ wire[i].a # wire[j].a
  <2>1. i # j
    BY <1>12, <1>13
  <2>2. wire[i] # wire[j] /\ key[wire[i]] <= key[wire[j]]
    BY <1>11, <1>13, <2>1
  <2> QED BY <1>4, <1>6, <1>12, <2>2
<1>14. wire \in Seq(AgentRowType)
  BY <1>3, <1>11, <1>12
<1>15. Max(all) \in Nat
  BY <1>7, <1>10
<1>16. /\ agentConn'.up = agentConn.up
       /\ agentConn'.wire \in Seq(AgentRowType) /\ ToSet(agentConn'.wire) = rows
       /\ \A i, j \in DOMAIN agentConn'.wire : i < j =>
             agentConn'.wire[i].at <= agentConn'.wire[j].at /\ agentConn'.wire[i].a # agentConn'.wire[j].a
       /\ agentConn'.since \in Nat /\ agentConn.since <= agentConn'.since
       /\ \A r \in rows : r.at <= agentConn'.since
  BY <1>8, <1>9, <1>10, <1>11, <1>13, <1>14, <1>15
<1> QED BY <1>16 DEF rows

LEMMA PollAgentsKeeps == ASSUME AgentsInv, PollAgents PROVE AgentsInv'
<1> USE DEF AgentsInv
<1> DEFINE rows == {RowRead(a) : a \in StreamedAgents}
           wire == agentConn'.wire
<1>1. /\ SameServer /\ agentConn.up /\ agentConn.wire = <<>> /\ StreamedAgents # {}
      /\ agents' = agents /\ agentLoad' = agentLoad /\ passedBy' = passedBy
      /\ agentFeed' = agentFeed /\ agentDrops' = agentDrops
  BY DEF PollAgents, SameServer
<1>2. /\ agentConn'.up = agentConn.up
      /\ wire \in Seq(AgentRowType) /\ ToSet(wire) = rows
      /\ \A i, j \in DOMAIN wire : i < j => wire[i].at <= wire[j].at /\ wire[i].a # wire[j].a
      /\ agentConn'.since \in Nat /\ agentConn.since <= agentConn'.since
      /\ \A r \in rows : r.at <= agentConn'.since
  BY <1>1, PolledRows
<1>3. StreamedAgents \subseteq Existing /\ \A a \in StreamedAgents : agentConn.since <= LatestStamp(a)
  BY DEF StreamedAgents
<1>4. (\A a \in StreamedAgents : RowRead(a) \in rows) /\ \A r \in rows : r.a \in StreamedAgents
  BY <1>3, RowReadIs
<1> HIDE DEF rows
<1>5. agentLoad.phase = "done" /\ agentLoad.rows = {} /\ \A r \in agents : r.at <= agentConn.since
  BY <1>1 DEF AgentWire
<1>6. \A r \in agents : r.at \in Nat
  BY AgentParts
<1>7. \A i \in DOMAIN wire : wire[i] \in rows
  BY <1>2 DEF ToSet
<1>8. /\ Existing' = Existing
      /\ \A a \in Agent : /\ StatusOf(a)' = StatusOf(a) /\ RowRead(a)' = RowRead(a)
                          /\ LatestStamp(a)' = LatestStamp(a)
  BY <1>1, SameRows
<1>9. AgentsTypeOK'
  <2>1. agentConn' \in [up : BOOLEAN, since : Nat, wire : Seq(AgentRowType)]
    BY <1>2 DEF PollAgents, AgentsTypeOK
  <2> QED BY <1>1, <1>8, <2>1 DEF AgentsTypeOK, SameServer, serverVars
<1>10. AgentWire' /\ FiniteRows'
  <2>1. \A r \in agents : r.at <= agentConn'.since
    BY <1>2, <1>5, <1>6, AgentParts
  <2>2. \A i \in DOMAIN wire : wire[i].at <= agentConn'.since
    BY <1>2, <1>7
  <2> QED BY <1>1, <1>2, <1>5, <2>1, <2>2 DEF AgentWire, FiniteRows
<1>11. WireAhead'
  <2> SUFFICES ASSUME NEW a \in Existing, OnItsWay(a)', NEW r \in agents
               PROVE  r.at <= LatestStamp(a)'
    BY <1>1, <1>8 DEF WireAhead
  <2>1. a \in Agent /\ LatestStamp(a) \in Nat /\ RowRead(a).a = a
    BY RowReadIs
  <2>2. RowRead(a) \in rows
    BY <1>2, <1>8, <2>1 DEF OnItsWay
  <2>3. agentConn.since <= LatestStamp(a)
    BY <1>3, <1>4, <2>1, <2>2
  <2> QED BY <1>5, <1>6, <1>8, <2>1, <2>3, AgentParts
<1>12. AgentsFollowed'
  <2> SUFFICES ASSUME NEW a \in Existing \ passedBy PROVE Current(a)'
    BY <1>1, <1>8 DEF AgentsFollowed
  <2>1. a \in Agent /\ LatestStamp(a) \in Nat
    BY RowReadIs
  <2>2. CASE a \in StreamedAgents
    BY <1>2, <1>4, <1>8, <2>1, <2>2 DEF Current, OnItsWay
  <2>3. CASE a \notin StreamedAgents
    <3>1. ~AheadOf(a)
      BY <1>1, <2>1, <2>3, AgentParts DEF AheadOf, PastStamp, StreamedAgents
    <3>2. ~OnItsWay(a)
      BY <1>1 DEF OnItsWay, ToSet
    <3>3. ReadOrShown(a)
      BY <1>5, <3>1, <3>2 DEF Current, AgentsFollowed
    <3>4. ReadOrShown(a)'
      BY <1>1, <1>8, <2>1, <3>3 DEF ReadOrShown, PageRows
    <3>5. NoneOnItsWay(a)'
      BY <1>2, <1>4, <2>3 DEF NoneOnItsWay
    <3> QED BY <3>4, <3>5 DEF Current
  <2> QED BY <2>2, <2>3
<1> QED BY <1>1, <1>9, <1>10, <1>11, <1>12, SameRows

LEMMA AgentEventIs ==
  ASSUME NEW r, NEW previous
  PROVE  AgentEvent(r, previous) \subseteq
             {"agent.created", "agent.online", "agent.offline", "agent.updated"}
BY DEF AgentEvent

LEMMA AgentStreamedKeeps == ASSUME AgentsInv, AgentStreamed PROVE AgentsInv'
<1> USE DEF AgentsInv
<1> DEFINE wire == agentConn.wire
           r == Head(wire)
           rest == Tail(wire)
<1>1. /\ SameServer /\ wire # <<>>
      /\ agents' = (agents \ ShownRows(r.a)) \cup {r}
      /\ agentFeed' = agentFeed \cup {[a |-> r.a, what |-> e] : e \in AgentEvent(r, ShownRows(r.a))}
      /\ passedBy' = IF r.status = StatusOf(r.a) THEN passedBy \ {r.a} ELSE passedBy
      /\ agentConn' = [agentConn EXCEPT !.wire = rest]
      /\ agentLoad' = agentLoad /\ agentDrops' = agentDrops
  BY DEF AgentStreamed, SameServer
<1>2. wire \in Seq(AgentRowType) /\ Len(wire) \in Nat \ {0} /\ DOMAIN wire = 1..Len(wire)
      /\ r = wire[1] /\ 1 \in DOMAIN wire /\ r \in AgentRowType
  BY <1>1, AgentParts
<1>3. /\ rest \in Seq(AgentRowType) /\ DOMAIN rest = 1..(Len(wire) - 1)
      /\ \A i \in DOMAIN rest : i + 1 \in DOMAIN wire /\ rest[i] = wire[i + 1] /\ i \in Nat /\ 1 < i + 1
  BY <1>1, <1>2
<1>4. ToSet(wire) = {r} \cup ToSet(rest)
  <2>1. \A i \in DOMAIN wire : i = 1 \/ (i - 1 \in DOMAIN rest /\ wire[i] = rest[i - 1])
    <3> SUFFICES ASSUME NEW i \in DOMAIN wire, i # 1
                 PROVE  i - 1 \in DOMAIN rest /\ wire[i] = rest[i - 1]
      OBVIOUS
    <3>1. i - 1 \in 1..(Len(wire) - 1) /\ (i - 1) + 1 = i
      BY <1>2
    <3>2. i - 1 \in DOMAIN rest
      BY <1>3, <3>1
    <3> QED BY <1>3, <3>1, <3>2
  <2> HIDE DEF wire, rest
  <2> QED BY <1>2, <1>3, <2>1 DEF ToSet
<1>5. \A s \in ToSet(rest) : s.a # r.a /\ r.at <= s.at
  <2>1. \A i \in DOMAIN rest : wire[1].a # wire[i + 1].a /\ wire[1].at <= wire[i + 1].at
    BY <1>2, <1>3 DEF AgentWire
  <2> HIDE DEF wire, rest
  <2> QED BY <1>2, <1>3, <2>1 DEF ToSet
<1>6. agentConn.up /\ agentLoad.phase = "done" /\ agentLoad.rows = {}
  BY <1>1, AgentParts DEF AgentWire
<1>7. /\ agentConn'.up = agentConn.up /\ agentConn'.since = agentConn.since
      /\ agentConn'.wire = rest
  BY <1>1 DEF AgentsTypeOK
<1>8. \A s \in agents \cup {r} : s.at <= agentConn.since
  BY <1>2, <1>6 DEF AgentWire
<1>9. \A i, j \in DOMAIN rest : i < j => rest[i].at <= rest[j].at /\ rest[i].a # rest[j].a
  <2> SUFFICES ASSUME NEW i \in DOMAIN rest, NEW j \in DOMAIN rest, i < j
               PROVE  rest[i].at <= rest[j].at /\ rest[i].a # rest[j].a
    OBVIOUS
  <2>1. i + 1 < j + 1
    BY <1>3
  <2> QED BY <1>3, <2>1 DEF AgentWire
<1>10. \A i \in DOMAIN rest : rest[i].at <= agentConn.since
  BY <1>3 DEF AgentWire
<1>11. agents' \subseteq agents \cup {r} /\ r \in agents' /\ \A s \in agents : s.a # r.a => s \in agents'
  BY <1>1 DEF ShownRows
<1>12. /\ Existing' = Existing
       /\ \A a \in Agent : /\ StatusOf(a)' = StatusOf(a) /\ RowRead(a)' = RowRead(a)
                           /\ LatestStamp(a)' = LatestStamp(a)
  BY <1>1, SameRows
<1>13. passedBy' \subseteq passedBy /\ \A a \in passedBy \ passedBy' : a = r.a /\ r.status = StatusOf(a)
  BY <1>1
<1> HIDE DEF r, rest
<1>14. AgentsTypeOK'
  <2>1. agentConn' \in [up : BOOLEAN, since : Nat, wire : Seq(AgentRowType)]
    BY <1>1, <1>3 DEF AgentsTypeOK
  <2>2. agentFeed' \subseteq [a : Agent,
           what : {"agent.created", "agent.online", "agent.offline", "agent.updated"}]
    <3>1. r.a \in Agent
      BY <1>2 DEF AgentRowType
    <3> QED BY <1>1, <3>1, AgentEventIs DEF AgentsTypeOK
  <2>3. agents' \subseteq AgentRowType
    BY <1>2, <1>11 DEF AgentsTypeOK
  <2> QED BY <1>1, <1>12, <1>13, <2>1, <2>2, <2>3 DEF AgentsTypeOK, SameServer, serverVars
<1>15. AgentWire' /\ FiniteRows'
  <2>1. IsFiniteSet(agents')
    <3>1. IsFiniteSet(agents \cup {r})
      BY FS_Singleton, FS_Union DEF FiniteRows
    <3> QED BY <1>11, <3>1, FS_Subset
  <2> HIDE DEF wire
  <2> QED BY <1>1, <1>6, <1>7, <1>8, <1>9, <1>10, <1>11, <2>1 DEF AgentWire, FiniteRows
<1>16. WireAhead'
  <2> SUFFICES ASSUME NEW a \in Existing \ passedBy', OnItsWay(a)', NEW s \in agents'
               PROVE  s.at <= LatestStamp(a)'
    BY <1>12 DEF WireAhead
  <2>1. /\ a \in Agent /\ LatestStamp(a) \in Nat /\ RowRead(a).at <= LatestStamp(a)
        /\ RowRead(a).a = a /\ RowRead(a).at \in Nat
    BY RowReadIs
  <2>2. RowRead(a) \in ToSet(rest)
    BY <1>7, <1>12, <2>1 DEF OnItsWay
  <2>3. a # r.a /\ r.at <= RowRead(a).at /\ r.at \in Nat
    BY <1>2, <1>5, <2>1, <2>2, AgentParts
  <2>4. OnItsWay(a) /\ a \notin passedBy
    BY <1>4, <1>13, <2>2, <2>3 DEF OnItsWay
  <2>5. CASE s \in agents
    BY <1>12, <2>1, <2>4, <2>5 DEF WireAhead
  <2>6. CASE s = r
    BY <1>12, <2>1, <2>3, <2>6
  <2> QED BY <1>11, <2>5, <2>6
<1>17. AgentsFollowed'
  <2> SUFFICES ASSUME NEW a \in Existing \ passedBy' PROVE Current(a)' \/ AheadOf(a)'
    BY <1>12 DEF AgentsFollowed
  <2>1. /\ a \in Agent /\ LatestStamp(a) \in Nat
        /\ RowRead(a).a = a /\ RowRead(a).status = StatusOf(a)
    BY RowReadIs
  <2>2. ASSUME a = r.a, r.status = StatusOf(a) PROVE Current(a)'
    <3>1. ReadOrShown(a)'
      BY <1>11, <1>12, <2>1, <2>2 DEF ReadOrShown, PageRows
    <3>2. NoneOnItsWay(a)'
      BY <1>5, <1>7, <2>2 DEF NoneOnItsWay
    <3> QED BY <3>1, <3>2 DEF Current
  <2>3. CASE a \in passedBy
    BY <1>13, <2>2, <2>3
  <2>4. CASE OnItsWay(a)
    <3>1. CASE RowRead(a) \in ToSet(rest)
      BY <1>7, <1>12, <2>1, <3>1 DEF Current, OnItsWay
    <3>2. CASE RowRead(a) = r
      BY <2>1, <2>2, <3>2
    <3> QED BY <1>4, <2>4, <3>1, <3>2 DEF OnItsWay
  <2>5. CASE NoneOnItsWay(a) /\ ReadOrShown(a)
    <3>1. a # r.a /\ \A s \in ToSet(rest) : s.a # a
      BY <1>4, <2>5 DEF NoneOnItsWay
    <3>2. PICK s \in agents : s.a = a /\ s.status = StatusOf(a)
      BY <1>6, <2>5 DEF ReadOrShown, PageRows
    <3>3. ReadOrShown(a)'
      BY <1>11, <1>12, <2>1, <3>1, <3>2 DEF ReadOrShown, PageRows
    <3>4. NoneOnItsWay(a)'
      BY <1>7, <3>1 DEF NoneOnItsWay
    <3> QED BY <3>3, <3>4 DEF Current
  <2>6. CASE AheadOf(a)
    <3>1. agentConn.since <= LatestStamp(a)
      BY <1>6, <2>1, <2>6, AgentParts DEF AheadOf, PastStamp
    <3>2. \A s \in agents \cup {r} : s.at \in Nat /\ ~(s.at > LatestStamp(a))
      BY <1>2, <1>8, <2>1, <3>1, AgentParts
    <3>3. ~PastStamp(LatestStamp(a))'
      BY <1>1, <1>6, <1>7, <1>11, <1>12, <2>1, <3>1, <3>2, AgentParts DEF PastStamp
    <3> QED BY <3>3 DEF AheadOf
  <2> QED BY <1>6, <2>3, <2>4, <2>5, <2>6 DEF Current, AgentsFollowed
<1> QED BY <1>1, <1>14, <1>15, <1>16, <1>17, SameRows
-----------------------------------------------------------------------------
LEMMA AgentsStep == AgentsInv /\ [AgentsNext]_agentVars => AgentsInv'
<1> SUFFICES ASSUME AgentsInv, [AgentsNext]_agentVars PROVE AgentsInv'
  OBVIOUS
<1>1. CASE UNCHANGED agentVars
  <2>1. SameServer /\ PageStays /\ AgentsTypeOK' /\ passedBy' = passedBy
    BY <1>1 DEF agentVars, serverVars, SameServer, PageStays, AgentsInv, AgentsTypeOK, Existing
  <2>2. WritesOfAgents'
    BY <2>1, SameRows DEF AgentsInv
  <2>3. \A a \in Agent \ {} :
            /\ agentRow'[a] = agentRow[a] /\ (a \in silentAgents' <=> a \in silentAgents)
            /\ a \in passedBy' <=> a \in passedBy
    BY <1>1 DEF agentVars, serverVars
  <2>4. {} \in SUBSET Agent
    OBVIOUS
  <2> QED BY <2>1, <2>2, <2>3, <2>4, ServerStep
<1> QED BY <1>1, StampsKeep, CommitAgentKeeps, FallSilentKeeps, DeleteAgentKeeps, AgentsReadKeeps,
           AgentsSetKeeps, ConnectAgentsKeeps, LoseAgentsKeeps, PollAgentsKeeps, AgentStreamedKeeps
           DEF AgentsNext, AgentsServer

LEMMA AgentsInvariant == AgentsSpec => []AgentsInv
BY AgentsInitial, AgentsStep, PTL DEF AgentsSpec

LEMMA AgentsTyped == AgentsSpec => []AgentsTypeOK
<1>1. AgentsInv => AgentsTypeOK
  BY DEF AgentsInv
<1> QED BY AgentsInvariant, <1>1, PTL

\* However many agents come, change, fall silent or go, in whatever order their changes
\* are committed and however often the stream is lost: the page shows each agent's status,
\* or the stream brings its row, unless the last change of the agent was behind
\* latestAgentTimestamp (page.tsx) or the page had no agent to take it from.
THEOREM AgentsComing == AgentsSpec => []AgentsShownOrComing
<1>1. AgentsInv => AgentsShownOrComing
  <2> SUFFICES ASSUME AgentsInv, agentConn.up, NEW a \in Existing, a \notin passedBy,
                      a \notin StreamedAgents, ~OnItsWay(a)
               PROVE  NoneOnItsWay(a) /\ StatusShown(a)
    BY DEF AgentsShownOrComing, OnItsWay, NoneOnItsWay
  <2>1. ~AheadOf(a)
    BY RowReadIs, AgentParts DEF AheadOf, PastStamp, StreamedAgents, AgentsInv
  <2>2. agentLoad.phase = "done" /\ agentLoad.rows = {}
    BY DEF AgentsInv, AgentWire
  <2>3. NoneOnItsWay(a) /\ ReadOrShown(a)
    BY <2>1, <2>2 DEF AgentsInv, AgentsFollowed, Current
  <2> QED BY <2>2, <2>3 DEF ReadOrShown, PageRows, StatusShown, ShownRows
<1> QED BY AgentsInvariant, <1>1, PTL
-----------------------------------------------------------------------------
(***************************************************************************)
(* The approvals of the board page and the pending counts of its cards.    *)
(***************************************************************************)
WireEntry == [a : Approval, r : ApprovalRowType, n : [ApprovalTask -> Nat]]

\* The stream starts after the snapshot; a poll sends an approval once, and the same count
\* of a task with each of its approvals.
ApprovalWire ==
    LET wire == approvalConn.wire
    IN  /\ ~approvalConn.up => wire = <<>>
        /\ approvalConn.up => approvalLoad.phase = "done"
        /\ \A i, j \in DOMAIN wire : i # j => wire[i].a # wire[j].a
        /\ \A e, f \in ToSet(wire) : \A t \in TasksOf[e.a] \cap TasksOf[f.a] : e.n[t] = f.n[t]

\* What is under way has a stamp: its commit makes a row.
OpenStamped == \A w \in openApprovals : w.at > 0

ApprovalsInv ==
    /\ ApprovalsTypeOK /\ OpenStamped /\ ApprovalWire
    /\ ApprovalsShownOrComing /\ CountsRightOrComing

\* The two properties, of one approval and of one task.
OnTheWay(a) == \E e \in ToSet(approvalConn.wire) : e.a = a /\ e.r = approvalRow[a]
ShownAsIs(a) == approvals[a] = approvalRow[a] /\ \A e \in ToSet(approvalConn.wire) : e.a # a
ApprovalKept(a) == a \in leftBehind \/ a \in DueApprovals \/ OnTheWay(a) \/ ShownAsIs(a)

Carrying(t) == {e \in ToSet(approvalConn.wire) : t \in TasksOf[e.a]}
CountComes(t) == \E a \in DueApprovals : t \in TasksOf[a]
CountSent(t) == Carrying(t) # {} /\ \A e \in Carrying(t) : e.n[t] = PendingCount(t)
CountShown(t) == Carrying(t) = {} /\ pendingCounts[t] = PendingCount(t)
CountKept(t) == t \in miscounted \/ CountComes(t) \/ CountSent(t) \/ CountShown(t)

LEMMA KeptIs ==
         /\ ApprovalsShownOrComing <=> (approvalConn.up => \A a \in Approval : ApprovalKept(a))
         /\ CountsRightOrComing <=> (approvalConn.up => \A t \in ApprovalTask : CountKept(t))
BY DEF ApprovalsShownOrComing, CountsRightOrComing, ApprovalKept, CountKept, OnTheWay, ShownAsIs,
       Carrying, CountComes, CountSent, CountShown

LEMMA KeptNext ==
  ASSUME approvalConn'.up => /\ \A a \in Approval : ApprovalKept(a)'
                             /\ \A t \in ApprovalTask : CountKept(t)'
  PROVE  ApprovalsShownOrComing' /\ CountsRightOrComing'
BY DEF ApprovalsShownOrComing, CountsRightOrComing, ApprovalKept, CountKept, OnTheWay, ShownAsIs,
       Carrying, CountComes, CountSent, CountShown
-----------------------------------------------------------------------------
\* What type correctness says of the parts of the records.
LEMMA ApprovalParts ==
  ASSUME ApprovalsTypeOK
  PROVE  /\ approvalRow \in [Approval -> ApprovalRowType] /\ approvalClock \in Nat
         /\ approvalLoad.phase \in {"sent", "read", "done"}
         /\ approvalLoad.rows \in [Approval -> ApprovalRowType]
         /\ approvalLoad.counts \in [ApprovalTask -> Nat]
         /\ approvals \in [Approval -> ApprovalRowType] /\ pendingCounts \in [ApprovalTask -> Nat]
         /\ approvalConn.up \in BOOLEAN /\ approvalConn.since \in Nat
         /\ approvalConn.wire \in Seq(WireEntry)
         /\ ToSet(approvalConn.wire) \subseteq WireEntry
         /\ \A e \in WireEntry : e.a \in Approval /\ e.r \in ApprovalRowType
                                 /\ e.n \in [ApprovalTask -> Nat]
         /\ \A r \in ApprovalRowType : r.made \in Nat /\ r.done \in Nat /\ UpdatedAt(r) \in Nat
         /\ \A a \in Approval : TasksOf[a] \subseteq ApprovalTask
         /\ NoApprovalRow \in ApprovalRowType
         /\ NoApprovalRow.made = 0 /\ NoApprovalRow.done = 0 /\ UpdatedAt(NoApprovalRow) = 0
<1>1. approvalConn.wire \in Seq(WireEntry)
  BY DEF ApprovalsTypeOK, WireEntry
<1>2. ToSet(approvalConn.wire) \subseteq WireEntry
  BY <1>1 DEF ToSet
<1>3. approvalLoad.rows \in [Approval -> ApprovalRowType] /\ approvalLoad.counts \in [ApprovalTask -> Nat]
      /\ approvalLoad.phase \in {"sent", "read", "done"}
  BY DEF ApprovalsTypeOK
<1>4. \A e \in WireEntry : e.a \in Approval /\ e.r \in ApprovalRowType /\ e.n \in [ApprovalTask -> Nat]
  BY DEF WireEntry
<1>5. \A r \in ApprovalRowType : r.made \in Nat /\ r.done \in Nat /\ UpdatedAt(r) \in Nat
  BY DEF ApprovalRowType, UpdatedAt
<1>6. NoApprovalRow \in ApprovalRowType
      /\ NoApprovalRow.made = 0 /\ NoApprovalRow.done = 0 /\ UpdatedAt(NoApprovalRow) = 0
  BY DEF ApprovalRowType, NoApprovalRow, UpdatedAt
<1> QED BY <1>1, <1>2, <1>3, <1>4, <1>5, <1>6, TasksOfAssumption DEF ApprovalsTypeOK

\* latestApprovalTimestamp of some rows.
LEMMA LatestApprovalIs ==
  ASSUME NEW rows \in [Approval -> ApprovalRowType]
  PROVE  /\ LatestApproval(rows) \in Nat
         /\ LatestApproval(rows) = 0 \/ \E a \in Approval : LatestApproval(rows) = UpdatedAt(rows[a])
         /\ \A a \in Approval : UpdatedAt(rows[a]) <= LatestApproval(rows)
<1> DEFINE times == {UpdatedAt(rows[a]) : a \in Approval}
           f == [a \in Approval |-> UpdatedAt(rows[a])]
           all == {0} \cup times
<1>1. \A a \in Approval : UpdatedAt(rows[a]) \in Nat
  BY DEF ApprovalRowType, UpdatedAt
<1>2. IsFiniteSet(times)
  <2>1. f \in Surjection(Approval, times)
    BY DEF Surjection
  <2> QED BY <2>1, FS_Surjection, ApprovalAssumption
<1>3. IsFiniteSet(all)
  <2> HIDE DEF times
  <2>1. IsFiniteSet({0})
    BY FS_Singleton
  <2> QED BY <1>2, <2>1, FS_Union
<1>4. all \in SUBSET Nat /\ all # {}
  BY <1>1
<1>5. LatestApproval(rows) = Max(all)
  BY DEF LatestApproval
<1>6. \A a \in Approval : UpdatedAt(rows[a]) \in all
  OBVIOUS
<1>7. \A n \in all : n = 0 \/ \E a \in Approval : n = UpdatedAt(rows[a])
  OBVIOUS
<1> HIDE DEF all
<1>8. Max(all) \in all /\ \A n \in all : n <= Max(all)
  BY <1>3, <1>4, FiniteMaxIs
<1> QED BY <1>4, <1>5, <1>6, <1>7, <1>8

\* task_counts_for_board counts, each task of an approval with the same result.
LEMMA PendingCountIs ==
  ASSUME NEW t \in ApprovalTask
  PROVE  PendingCount(t) \in Nat
<1> DEFINE pending == {a \in Approval : t \in TasksOf[a] /\ approvalRow[a].st = "pending"}
<1>1. IsFiniteSet(pending)
  <2>1. pending \subseteq Approval
    OBVIOUS
  <2> HIDE DEF pending
  <2> QED BY <2>1, FS_Subset, ApprovalAssumption
<1>2. PendingCount(t) = Cardinality(pending)
  BY DEF PendingCount
<1> HIDE DEF pending
<1> QED BY <1>1, <1>2, FS_CardinalityType

LEMMA CountsOfIs ==
  ASSUME NEW a \in Approval
  PROVE  /\ CountsOf(a) \in [ApprovalTask -> Nat]
         /\ \A t \in TasksOf[a] : CountsOf(a)[t] = PendingCount(t)
<1>1. \A t \in ApprovalTask : PendingCount(t) \in Nat
  BY PendingCountIs
<1> QED BY <1>1, TasksOfAssumption DEF CountsOf

LEMMA ApprovalsInitial == ApprovalsInit => ApprovalsInv
<1> SUFFICES ASSUME ApprovalsInit PROVE ApprovalsInv
  OBVIOUS
<1> DEFINE first == [st |-> "pending", made |-> 1, done |-> 0]
<1>1. first \in ApprovalRowType /\ NoApprovalRow \in ApprovalRowType
  BY DEF ApprovalRowType, NoApprovalRow
<1>2. approvalRow \in [Approval -> {NoApprovalRow, first}]
  BY DEF ApprovalsInit
<1> HIDE DEF first
<1>3. approvalRow \in [Approval -> ApprovalRowType]
  BY <1>1, <1>2
<1>4. ApprovalsTypeOK
  <2>1. approvalLoad \in [phase : {"sent", "read", "done"}, rows : [Approval -> ApprovalRowType],
                          counts : [ApprovalTask -> Nat]]
    BY <1>3 DEF ApprovalsInit
  <2>2. approvalConn \in [up : BOOLEAN, since : Nat,
                          wire : Seq([a : Approval, r : ApprovalRowType, n : [ApprovalTask -> Nat]])]
    BY DEF ApprovalsInit, NoApprovalStream
  <2>3. approvals \in [Approval -> ApprovalRowType] /\ pendingCounts \in [ApprovalTask -> Nat]
    BY <1>1 DEF ApprovalsInit
  <2> QED BY <1>3, <2>1, <2>2, <2>3 DEF ApprovalsInit, ApprovalsTypeOK
<1>5. ~approvalConn.up /\ approvalConn.wire = <<>>
  BY DEF ApprovalsInit, NoApprovalStream
<1>6. ApprovalWire /\ OpenStamped
  BY <1>5 DEF ApprovalWire, ToSet, ApprovalsInit, OpenStamped
<1> QED BY <1>4, <1>5, <1>6 DEF ApprovalsInv, ApprovalsShownOrComing, CountsRightOrComing
-----------------------------------------------------------------------------
\* The rows, the page and what is on record stay...
KeptVars == <<approvalRow, approvalPageVars, leftBehind, miscounted>>

LEMMA KeptStays ==
  ASSUME ApprovalsInv, UNCHANGED KeptVars
  PROVE  ApprovalWire' /\ ApprovalsShownOrComing' /\ CountsRightOrComing'
<1>1. /\ approvalRow' = approvalRow /\ approvalLoad' = approvalLoad /\ approvals' = approvals
      /\ pendingCounts' = pendingCounts /\ approvalConn' = approvalConn
      /\ leftBehind' = leftBehind /\ miscounted' = miscounted
  BY DEF KeptVars, approvalPageVars
<1>2. ApprovalWire'
  BY <1>1 DEF ApprovalsInv, ApprovalWire
<1>3. ApprovalsShownOrComing'
  BY <1>1 DEF ApprovalsInv, ApprovalsShownOrComing, DueApprovals
<1>4. CountsRightOrComing'
  BY <1>1 DEF ApprovalsInv, CountsRightOrComing, DueApprovals, PendingCount
<1> QED BY <1>2, <1>3, <1>4

\* ... or one row is committed: the next poll brings it with its counts, or its stamp is
\* behind the cursor.
LEMMA RowCommitsKeeps ==
  ASSUME ApprovalsInv, NEW a \in Approval, NEW r \in ApprovalRowType, r # NoApprovalRow,
         RowCommits(a, r), UNCHANGED approvalPageVars
  PROVE  /\ approvalRow' \in [Approval -> ApprovalRowType]
         /\ leftBehind' \subseteq Approval /\ miscounted' \subseteq ApprovalTask
         /\ ApprovalWire' /\ ApprovalsShownOrComing' /\ CountsRightOrComing'
<1> USE DEF ApprovalsInv
<1>1. /\ approvalRow' = [approvalRow EXCEPT ![a] = r]
      /\ approvalLoad' = approvalLoad /\ approvals' = approvals
      /\ pendingCounts' = pendingCounts /\ approvalConn' = approvalConn
  BY DEF RowCommits, approvalPageVars
<1>2. /\ approvalRow' \in [Approval -> ApprovalRowType] /\ approvalRow'[a] = r
      /\ \A b \in Approval \ {a} : approvalRow'[b] = approvalRow[b]
  BY <1>1, ApprovalParts
<1>3. /\ leftBehind' \subseteq leftBehind \cup {a} /\ leftBehind \subseteq leftBehind' \cup {a}
      /\ miscounted \subseteq miscounted' /\ miscounted' \subseteq miscounted \cup TasksOf[a]
      /\ approvalConn.up /\ UpdatedAt(r) < approvalConn.since =>
            a \in leftBehind' /\ TasksOf[a] \subseteq miscounted'
  BY DEF RowCommits
<1>4. leftBehind' \subseteq Approval /\ miscounted' \subseteq ApprovalTask
  BY <1>3, ApprovalParts DEF ApprovalsTypeOK
<1>5. ApprovalWire'
  BY <1>1 DEF ApprovalWire
<1>6. \A b \in Approval \ {a} : b \in DueApprovals' <=> b \in DueApprovals
  BY <1>1, <1>2 DEF DueApprovals
<1>7. approvalConn.up => a \in DueApprovals' \/ (a \in leftBehind' /\ TasksOf[a] \subseteq miscounted')
  BY <1>1, <1>2, <1>3, ApprovalParts DEF DueApprovals
<1>8. ASSUME approvalConn.up, NEW b \in Approval PROVE ApprovalKept(b)'
  <2>1. CASE b = a
    BY <1>7, <1>8, <2>1 DEF ApprovalKept
  <2>2. CASE b # a
    <3>1. ApprovalKept(b)
      BY <1>8, KeptIs
    <3> QED BY <1>1, <1>2, <1>3, <1>6, <2>2, <3>1 DEF ApprovalKept, OnTheWay, ShownAsIs
  <2> QED BY <2>1, <2>2
<1>9. ASSUME approvalConn.up, NEW t \in ApprovalTask PROVE CountKept(t)'
  <2>1. CASE t \in TasksOf[a]
    BY <1>7, <1>9, <2>1 DEF CountKept, CountComes
  <2>2. CASE t \notin TasksOf[a]
    <3>1. CountKept(t)
      BY <1>9, KeptIs
    <3>2. PendingCount(t)' = PendingCount(t)
      <4>1. {b \in Approval : t \in TasksOf[b] /\ approvalRow'[b].st = "pending"}
              = {b \in Approval : t \in TasksOf[b] /\ approvalRow[b].st = "pending"}
        BY <1>2, <2>2
      <4> QED BY <4>1 DEF PendingCount
    <3>3. CountComes(t) => CountComes(t)'
      BY <1>6, <2>2 DEF CountComes, DueApprovals
    <3>4. Carrying(t)' = Carrying(t)
      BY <1>1 DEF Carrying
    <3>5. CountSent(t) => CountSent(t)'
      BY <3>2, <3>4 DEF CountSent
    <3>6. CountShown(t) => CountShown(t)'
      BY <1>1, <3>2, <3>4 DEF CountShown
    <3> QED BY <1>3, <3>1, <3>3, <3>5, <3>6 DEF CountKept
  <2> QED BY <2>1, <2>2
<1>10. ApprovalsShownOrComing' /\ CountsRightOrComing'
  <2>1. approvalConn'.up => /\ \A b \in Approval : ApprovalKept(b)'
                            /\ \A t \in ApprovalTask : CountKept(t)'
    BY <1>1, <1>8, <1>9
  <2> QED BY <2>1, KeptNext
<1> QED BY <1>2, <1>4, <1>5, <1>10

\* What an update or a creation writes is a row.
LEMMA ApprovalWrittenIs ==
  ASSUME ApprovalsTypeOK, NEW w \in ApprovalWriteType, w.at > 0
  PROVE  ApprovalWritten(w) \in ApprovalRowType /\ ApprovalWritten(w) # NoApprovalRow
<1>1. /\ w.a \in Approval /\ w.at \in Nat \ {0} /\ w.st \in Resolution \cup {"pending"}
      /\ w.kept \in BOOLEAN
  BY DEF ApprovalWriteType
<1> DEFINE row == approvalRow[w.a]
           st == IF w.kept THEN row.st ELSE w.st
<1>2. row \in ApprovalRowType /\ row.st \in Resolution \cup {"pending", "none"} /\ row.made \in Nat
  BY <1>1, ApprovalParts DEF ApprovalRowType
<1>3. st \in Resolution \cup {"pending", "none"}
  BY <1>1, <1>2
<1>4. row = NoApprovalRow => ApprovalWritten(w) = [st |-> w.st, made |-> w.at, done |-> 0]
  BY DEF ApprovalWritten
<1>5. row # NoApprovalRow => ApprovalWritten(w) = [st |-> st, made |-> row.made, done |-> w.at]
  BY <1>2 DEF ApprovalWritten, ApprovalRowType
<1> HIDE DEF row, st
<1>6. CASE row = NoApprovalRow
  BY <1>1, <1>4, <1>6 DEF ApprovalRowType, NoApprovalRow
<1>7. CASE row # NoApprovalRow
  <2>1. ApprovalWritten(w).done = w.at /\ NoApprovalRow.done = 0
    BY <1>5, <1>7 DEF NoApprovalRow
  <2> QED BY <1>1, <1>2, <1>3, <1>5, <1>7, <2>1 DEF ApprovalRowType
<1> QED BY <1>6, <1>7

LEMMA ApprovalWriteIs ==
  ASSUME ApprovalsTypeOK, NEW a \in Approval, NEW st \in Resolution \cup {"pending"}
  PROVE  ApprovalWrite(a, st) \in ApprovalWriteType /\ ApprovalWrite(a, st).at > 0
BY ApprovalParts DEF ApprovalWrite, ApprovalWriteType

LEMMA OtherUpdatesKeeps ==
  ASSUME ApprovalsInv, NEW a \in Approval, NEW st \in Resolution \cup {"pending"}, OtherUpdates(a, st)
  PROVE  ApprovalsInv'
<1> USE DEF ApprovalsInv
<1>1. /\ openApprovals' = openApprovals \cup {ApprovalWrite(a, st)} /\ approvalClock' = approvalClock + 1
      /\ approvalEvents' = approvalEvents + 1 /\ UNCHANGED KeptVars
      /\ UNCHANGED <<approvalDecisions, updatingId, cardMoves>>
  BY DEF OtherUpdates, ApprovalEvent, KeptVars
<1>2. ApprovalsTypeOK'
  BY <1>1, ApprovalWriteIs DEF ApprovalsTypeOK, KeptVars, approvalPageVars
<1>3. OpenStamped'
  BY <1>1, ApprovalWriteIs DEF OpenStamped
<1> QED BY <1>1, <1>2, <1>3, KeptStays

LEMMA OtherCommitsKeeps ==
  ASSUME ApprovalsInv, NEW w \in openApprovals, OtherCommits(w) PROVE ApprovalsInv'
<1> USE DEF ApprovalsInv
<1>1. /\ openApprovals' = openApprovals \ {w} /\ RowCommits(w.a, ApprovalWritten(w))
      /\ UNCHANGED approvalPageVars
      /\ UNCHANGED <<approvalClock, approvalDecisions, updatingId, cardMoves, approvalEvents>>
  BY DEF OtherCommits
<1>2. w \in ApprovalWriteType /\ w.a \in Approval /\ w.at > 0
  BY DEF ApprovalsTypeOK, OpenStamped, ApprovalWriteType
<1>3. ApprovalWritten(w) \in ApprovalRowType /\ ApprovalWritten(w) # NoApprovalRow
  BY <1>2, ApprovalWrittenIs
<1>4. /\ approvalRow' \in [Approval -> ApprovalRowType]
      /\ leftBehind' \subseteq Approval /\ miscounted' \subseteq ApprovalTask
      /\ ApprovalWire' /\ ApprovalsShownOrComing' /\ CountsRightOrComing'
  BY <1>1, <1>2, <1>3, RowCommitsKeeps
<1>5. ApprovalsTypeOK' /\ OpenStamped'
  BY <1>1, <1>4 DEF ApprovalsTypeOK, OpenStamped, approvalPageVars
<1> QED BY <1>4, <1>5

LEMMA OtherReopensKeeps ==
  ASSUME ApprovalsInv, NEW a \in Approval, OtherReopens(a) PROVE ApprovalsInv'
<1> USE DEF ApprovalsInv
<1> DEFINE r == [approvalRow[a] EXCEPT !.st = "pending"]
<1>1. /\ RowCommits(a, r) /\ approvalEvents' = approvalEvents + 1
      /\ UNCHANGED approvalPageVars
      /\ UNCHANGED <<approvalClock, openApprovals, approvalDecisions, updatingId, cardMoves>>
  BY DEF OtherReopens, ApprovalEvent
<1>2. r \in ApprovalRowType /\ r.st = "pending"
  BY ApprovalParts DEF ApprovalRowType
<1>3. r # NoApprovalRow
  BY <1>2 DEF NoApprovalRow
<1> HIDE DEF r
<1>4. /\ approvalRow' \in [Approval -> ApprovalRowType]
      /\ leftBehind' \subseteq Approval /\ miscounted' \subseteq ApprovalTask
      /\ ApprovalWire' /\ ApprovalsShownOrComing' /\ CountsRightOrComing'
  BY <1>1, <1>2, <1>3, RowCommitsKeeps
<1>5. ApprovalsTypeOK' /\ OpenStamped'
  BY <1>1, <1>4 DEF ApprovalsTypeOK, OpenStamped, approvalPageVars
<1> QED BY <1>4, <1>5

LEMMA ServeDecisionKeeps ==
  ASSUME ApprovalsInv, NEW d \in approvalDecisions, ServeDecision(d) PROVE ApprovalsInv'
<1> USE DEF ApprovalsInv
<1>1. /\ approvalDecisions' = (approvalDecisions \ {d}) \cup {ApprovalWrite(d.a, d.st)}
      /\ approvalClock' = approvalClock + 1 /\ UNCHANGED KeptVars
      /\ UNCHANGED <<openApprovals, updatingId, cardMoves, approvalEvents>>
  BY DEF ServeDecision, KeptVars
<1>2. d.a \in Approval /\ d.st \in Resolution \cup {"pending"}
  BY DEF ApprovalsTypeOK, ApprovalWriteType
<1>3. ApprovalsTypeOK'
  BY <1>1, <1>2, ApprovalWriteIs DEF ApprovalsTypeOK, KeptVars, approvalPageVars
<1>4. OpenStamped'
  BY <1>1 DEF OpenStamped
<1> QED BY <1>1, <1>3, <1>4, KeptStays

LEMMA DecisionCommitsKeeps ==
  ASSUME ApprovalsInv, NEW d \in approvalDecisions, DecisionCommits(d) PROVE ApprovalsInv'
<1> USE DEF ApprovalsInv
<1>1. /\ approvalDecisions' = (approvalDecisions \ {d}) \cup {[d EXCEPT !.row = ApprovalWritten(d)]}
      /\ RowCommits(d.a, ApprovalWritten(d)) /\ d.at > 0
      /\ UNCHANGED approvalPageVars
      /\ UNCHANGED <<approvalClock, openApprovals, updatingId, cardMoves, approvalEvents>>
  BY DEF DecisionCommits
<1>2. d \in ApprovalWriteType /\ d.a \in Approval
  BY DEF ApprovalsTypeOK, ApprovalWriteType
<1>3. ApprovalWritten(d) \in ApprovalRowType /\ ApprovalWritten(d) # NoApprovalRow
  BY <1>1, <1>2, ApprovalWrittenIs
<1>4. /\ approvalRow' \in [Approval -> ApprovalRowType]
      /\ leftBehind' \subseteq Approval /\ miscounted' \subseteq ApprovalTask
      /\ ApprovalWire' /\ ApprovalsShownOrComing' /\ CountsRightOrComing'
  BY <1>1, <1>2, <1>3, RowCommitsKeeps
<1>5. [d EXCEPT !.row = ApprovalWritten(d)] \in ApprovalWriteType
  BY <1>2, <1>3 DEF ApprovalWriteType
<1>6. ApprovalsTypeOK' /\ OpenStamped'
  BY <1>1, <1>4, <1>5 DEF ApprovalsTypeOK, OpenStamped, approvalPageVars
<1> QED BY <1>4, <1>6
-----------------------------------------------------------------------------
\* Nothing changes on the server.
LEMMA ApprovalsReadKeeps == ASSUME ApprovalsInv, ApprovalsRead PROVE ApprovalsInv'
<1> USE DEF ApprovalsInv
<1>1. /\ approvalLoad.phase = "sent"
      /\ approvalLoad' = [phase |-> "read", rows |-> approvalRow,
                          counts |-> [t \in ApprovalTask |-> PendingCount(t)]]
      /\ UNCHANGED <<approvalServerVars, approvals, pendingCounts, approvalConn, approvalDecisions,
                     updatingId, cardMoves, approvalEvents, leftBehind, miscounted>>
  BY DEF ApprovalsRead
<1>2. ~approvalConn.up
  BY <1>1, ApprovalParts DEF ApprovalWire
<1>3. [t \in ApprovalTask |-> PendingCount(t)] \in [ApprovalTask -> Nat]
  BY PendingCountIs
<1>4. ApprovalsTypeOK' /\ OpenStamped'
  <2>1. approvalLoad' \in [phase : {"sent", "read", "done"}, rows : [Approval -> ApprovalRowType],
                           counts : [ApprovalTask -> Nat]]
    BY <1>1, <1>3, ApprovalParts
  <2> QED BY <1>1, <2>1 DEF ApprovalsTypeOK, OpenStamped, approvalServerVars
<1>5. ApprovalWire'
  BY <1>1, <1>2 DEF ApprovalWire
<1> QED BY <1>1, <1>2, <1>4, <1>5 DEF ApprovalsShownOrComing, CountsRightOrComing

LEMMA ApprovalsSetKeeps == ASSUME ApprovalsInv, ApprovalsSet PROVE ApprovalsInv'
<1> USE DEF ApprovalsInv
<1>1. /\ approvalLoad.phase = "read"
      /\ approvalLoad' = [approvalLoad EXCEPT !.phase = "done"]
      /\ approvals' = approvalLoad.rows /\ pendingCounts' = approvalLoad.counts
      /\ UNCHANGED <<approvalServerVars, approvalConn, approvalDecisions, updatingId, cardMoves,
                     approvalEvents, leftBehind, miscounted>>
  BY DEF ApprovalsSet
<1>2. ~approvalConn.up
  BY <1>1, ApprovalParts DEF ApprovalWire
<1>3. ApprovalsTypeOK' /\ OpenStamped'
  <2>1. approvalLoad' \in [phase : {"sent", "read", "done"}, rows : [Approval -> ApprovalRowType],
                           counts : [ApprovalTask -> Nat]]
    BY <1>1 DEF ApprovalsTypeOK
  <2> QED BY <1>1, <2>1, ApprovalParts DEF ApprovalsTypeOK, OpenStamped, approvalServerVars
<1>4. ApprovalWire'
  BY <1>1, <1>2 DEF ApprovalWire
<1> QED BY <1>1, <1>2, <1>3, <1>4 DEF ApprovalsShownOrComing, CountsRightOrComing

\* What the cursor of a connect is past and the page does not show is recorded; the rest
\* comes with the first poll.
LEMMA ConnectApprovalsKeeps == ASSUME ApprovalsInv, ConnectApprovals PROVE ApprovalsInv'
<1> USE DEF ApprovalsInv
<1> DEFINE shown == LatestApproval(approvals)
           since == IF shown = 0 THEN approvalClock + 1 ELSE shown
           behind == {a \in Approval : UpdatedAt(approvalRow[a]) < since}
<1>1. /\ approvalLoad.phase = "done" /\ ~approvalConn.up
      /\ approvalConn' = [up |-> TRUE, since |-> since, wire |-> <<>>]
      /\ leftBehind' = leftBehind \cup {a \in behind : approvalRow[a] # approvals[a]}
      /\ miscounted' = miscounted \cup
             {t \in ApprovalTask : /\ pendingCounts[t] # PendingCount(t)
                                   /\ \A a \in Approval \ behind : t \notin TasksOf[a]}
      /\ UNCHANGED <<approvalServerVars, approvalLoad, approvals, pendingCounts, approvalDecisions,
                     updatingId, cardMoves, approvalEvents>>
  BY DEF ConnectApprovals
<1>2. since \in Nat /\ since > 0
  BY LatestApprovalIs, ApprovalParts
<1>3. \A a \in Approval \ behind : since <= UpdatedAt(approvalRow[a])
  BY <1>2, ApprovalParts
<1> HIDE DEF since
<1>4. /\ approvalConn'.up /\ approvalConn'.since = since /\ approvalConn'.wire = <<>>
      /\ ToSet(approvalConn'.wire) = {}
  BY <1>1 DEF ToSet
<1>5. /\ approvalRow' = approvalRow /\ approvals' = approvals /\ pendingCounts' = pendingCounts
      /\ openApprovals' = openApprovals /\ approvalLoad' = approvalLoad
  BY <1>1 DEF approvalServerVars
<1>6. \A a \in Approval \ behind : a \in DueApprovals'
  <2> SUFFICES ASSUME NEW a \in Approval \ behind PROVE a \in DueApprovals'
    OBVIOUS
  <2>1. approvalRow[a] # NoApprovalRow
    BY <1>2, <1>3, ApprovalParts
  <2> QED BY <1>3, <1>4, <1>5, <2>1 DEF DueApprovals
<1> HIDE DEF behind
<1>7. ApprovalsTypeOK' /\ OpenStamped'
  <2>1. approvalConn' \in [up : BOOLEAN, since : Nat,
                           wire : Seq([a : Approval, r : ApprovalRowType, n : [ApprovalTask -> Nat]])]
    BY <1>1, <1>2
  <2>2. leftBehind' \subseteq Approval /\ miscounted' \subseteq ApprovalTask
    BY <1>1 DEF ApprovalsTypeOK, behind
  <2> QED BY <1>1, <2>1, <2>2 DEF ApprovalsTypeOK, OpenStamped, approvalServerVars
<1>8. ApprovalWire'
  BY <1>1, <1>4 DEF ApprovalWire
<1>9. ASSUME NEW a \in Approval PROVE ApprovalKept(a)'
  <2>1. CASE a \notin behind
    BY <1>6, <2>1 DEF ApprovalKept
  <2>2. CASE a \in behind /\ approvalRow[a] # approvals[a]
    BY <1>1, <2>2 DEF ApprovalKept
  <2>3. CASE approvalRow[a] = approvals[a]
    BY <1>4, <1>5, <2>3 DEF ApprovalKept, ShownAsIs
  <2> QED BY <2>1, <2>2, <2>3
<1>10. ASSUME NEW t \in ApprovalTask PROVE CountKept(t)'
  <2>1. CASE \E a \in Approval \ behind : t \in TasksOf[a]
    BY <1>6, <2>1 DEF CountKept, CountComes
  <2>2. CASE /\ \A a \in Approval \ behind : t \notin TasksOf[a]
             /\ pendingCounts[t] # PendingCount(t)
    BY <1>1, <2>2 DEF CountKept
  <2>3. CASE pendingCounts[t] = PendingCount(t)
    <3>1. PendingCount(t)' = PendingCount(t) /\ Carrying(t)' = {}
      BY <1>4, <1>5 DEF PendingCount, Carrying
    <3> QED BY <1>5, <2>3, <3>1 DEF CountKept, CountShown
  <2> QED BY <2>1, <2>2, <2>3
<1> QED BY <1>7, <1>8, <1>9, <1>10, KeptNext

LEMMA LoseApprovalsKeeps == ASSUME ApprovalsInv, LoseApprovals PROVE ApprovalsInv'
<1> USE DEF ApprovalsInv
<1>1. /\ approvalConn' = NoApprovalStream /\ approvalEvents' = approvalEvents + 1
      /\ UNCHANGED <<approvalServerVars, approvalLoad, approvals, pendingCounts, approvalDecisions,
                     updatingId, cardMoves, leftBehind, miscounted>>
  BY DEF LoseApprovals, ApprovalEvent
<1>2. ~approvalConn'.up /\ approvalConn'.wire = <<>> /\ ToSet(approvalConn'.wire) = {}
  BY <1>1 DEF NoApprovalStream, ToSet
<1>3. ApprovalsTypeOK' /\ OpenStamped'
  <2>1. approvalConn' \in [up : BOOLEAN, since : Nat,
                           wire : Seq([a : Approval, r : ApprovalRowType, n : [ApprovalTask -> Nat]])]
    BY <1>1 DEF NoApprovalStream
  <2> QED BY <1>1, <2>1 DEF ApprovalsTypeOK, OpenStamped, approvalServerVars
<1>4. ApprovalWire'
  BY <1>1, <1>2 DEF ApprovalWire
<1> QED BY <1>2, <1>3, <1>4 DEF ApprovalsShownOrComing, CountsRightOrComing

\* What a poll puts on the way: each approval from the cursor on, once, as it is and with
\* the counts of its tasks.
LEMMA PolledApprovals ==
  ASSUME ApprovalsTypeOK, PollApprovals
  PROVE  /\ approvalConn' \in [up : BOOLEAN, since : Nat, wire : Seq(WireEntry)]
         /\ approvalConn'.up = approvalConn.up
         /\ \A e \in ToSet(approvalConn'.wire) :
               e.a \in DueApprovals /\ e.r = approvalRow[e.a] /\ e.n = CountsOf(e.a)
         /\ \A a \in DueApprovals : \E e \in ToSet(approvalConn'.wire) : e.a = a
         /\ \A i, j \in DOMAIN approvalConn'.wire :
               i # j => approvalConn'.wire[i].a # approvalConn'.wire[j].a
<1> DEFINE due == DueApprovals
           key == [a \in due |-> approvalRow[a].made]
           sorted == OrderedBy(due, key)
           entry(a) == [a |-> a, r |-> approvalRow[a], n |-> CountsOf(a)]
           wire == [i \in DOMAIN sorted |-> entry(sorted[i])]
           times == {UpdatedAt(approvalRow[a]) : a \in due}
           f == [a \in due |-> UpdatedAt(approvalRow[a])]
<1>1. approvalConn' = [approvalConn EXCEPT !.since = Max(times), !.wire = wire] /\ due # {}
  BY DEF PollApprovals
<1>2. approvalRow \in [Approval -> ApprovalRowType] /\ due \subseteq Approval
  BY DEF ApprovalsTypeOK, DueApprovals
<1>3. \A a \in due : approvalRow[a].made \in Nat /\ UpdatedAt(approvalRow[a]) \in Nat
  BY <1>2, ApprovalParts
<1>4. key \in [due -> Nat]
  BY <1>3
<1>5. IsFiniteSet(due)
  BY <1>2, FS_Subset, ApprovalAssumption
<1>6. Max(times) \in Nat
  <2>1. times \in SUBSET Nat /\ times # {}
    BY <1>1, <1>3
  <2>2. IsFiniteSet(times)
    <3>1. f \in Surjection(due, times)
      BY DEF Surjection
    <3> QED BY <1>5, <3>1, FS_Surjection
  <2> HIDE DEF times
  <2> QED BY <2>1, <2>2, FiniteMaxIs
<1>7. \A a \in due : entry(a) \in WireEntry /\ entry(a).a = a
                     /\ entry(a).r = approvalRow[a] /\ entry(a).n = CountsOf(a)
  BY <1>2, CountsOfIs DEF WireEntry
<1> HIDE DEF due, key, entry, times
<1>8. /\ sorted \in Seq(due) /\ ToSet(sorted) = due
      /\ \A i, j \in DOMAIN sorted : i # j => sorted[i] # sorted[j]
  BY <1>4, <1>5, OrderedByIs
<1> HIDE DEF sorted
<1>9. Len(sorted) \in Nat /\ DOMAIN sorted = 1..Len(sorted) /\ \A i \in DOMAIN sorted : sorted[i] \in due
  BY <1>8
<1>10. wire \in Seq(WireEntry) /\ DOMAIN wire = DOMAIN sorted
  BY <1>7, <1>9
<1>11. \A i, j \in DOMAIN wire : i # j => wire[i].a # wire[j].a
  BY <1>7, <1>8, <1>9
<1>12. \A e \in ToSet(wire) : \E a \in due : e = entry(a)
  BY <1>9 DEF ToSet
<1>13. \A a \in due : entry(a) \in ToSet(wire)
  BY <1>8 DEF ToSet
<1> HIDE DEF wire
<1>14. approvalConn'.up = approvalConn.up /\ approvalConn'.wire = wire
  BY <1>1 DEF ApprovalsTypeOK
<1>15. approvalConn' \in [up : BOOLEAN, since : Nat, wire : Seq(WireEntry)]
  BY <1>1, <1>6, <1>10 DEF ApprovalsTypeOK
<1>16. \A e \in ToSet(wire) : e.a \in due /\ e.r = approvalRow[e.a] /\ e.n = CountsOf(e.a)
  BY <1>7, <1>12
<1>17. \A a \in due : \E e \in ToSet(wire) : e.a = a
  BY <1>7, <1>13
<1> QED BY <1>11, <1>14, <1>15, <1>16, <1>17 DEF due

LEMMA PollApprovalsKeeps == ASSUME ApprovalsInv, PollApprovals PROVE ApprovalsInv'
<1> USE DEF ApprovalsInv
<1> DEFINE sent == ToSet(approvalConn'.wire)
<1>1. /\ approvalConn.up /\ approvalConn.wire = <<>>
      /\ UNCHANGED <<approvalServerVars, approvalLoad, approvals, pendingCounts, approvalDecisions,
                     updatingId, cardMoves, approvalEvents, leftBehind, miscounted>>
  BY DEF PollApprovals
<1>2. /\ approvalConn' \in [up : BOOLEAN, since : Nat, wire : Seq(WireEntry)]
      /\ approvalConn'.up = approvalConn.up
      /\ \A e \in sent : e.a \in DueApprovals /\ e.r = approvalRow[e.a] /\ e.n = CountsOf(e.a)
      /\ \A a \in DueApprovals : \E e \in sent : e.a = a
      /\ \A i, j \in DOMAIN approvalConn'.wire :
            i # j => approvalConn'.wire[i].a # approvalConn'.wire[j].a
  BY PolledApprovals
<1>3. approvalRow' = approvalRow /\ openApprovals' = openApprovals /\ approvalClock' = approvalClock
  BY <1>1 DEF approvalServerVars
<1>4. ApprovalsTypeOK' /\ OpenStamped'
  BY <1>1, <1>2, <1>3 DEF ApprovalsTypeOK, OpenStamped, WireEntry
<1>5. \A e \in sent : \A t \in TasksOf[e.a] : e.n[t] = PendingCount(t)
  <2>1. DueApprovals \subseteq Approval
    BY DEF DueApprovals
  <2> QED BY <1>2, <2>1, CountsOfIs
<1>6. ApprovalWire'
  <2>1. \A e, f \in sent : \A t \in TasksOf[e.a] \cap TasksOf[f.a] : e.n[t] = f.n[t]
    BY <1>5
  <2> QED BY <1>1, <1>2, <2>1 DEF ApprovalWire
<1>7. \A e : e \notin ToSet(approvalConn.wire)
  BY <1>1 DEF ToSet
<1>8. ASSUME NEW a \in Approval PROVE ApprovalKept(a)'
  <2>1. ApprovalKept(a)
    BY <1>1, KeptIs
  <2>2. CASE a \in DueApprovals
    <3>1. PICK e \in sent : e.a = a
      BY <1>2, <2>2
    <3> QED BY <1>2, <1>3, <3>1 DEF ApprovalKept, OnTheWay
  <2>3. CASE a \notin DueApprovals
    <3>1. a \in leftBehind \/ approvals[a] = approvalRow[a]
      BY <1>7, <2>1, <2>3 DEF ApprovalKept, OnTheWay, ShownAsIs
    <3>2. \A e \in sent : e.a # a
      BY <1>2, <2>3
    <3> QED BY <1>1, <1>3, <3>1, <3>2 DEF ApprovalKept, ShownAsIs
  <2> QED BY <2>2, <2>3
<1>9. ASSUME NEW t \in ApprovalTask PROVE CountKept(t)'
  <2>1. CountKept(t)
    BY <1>1, KeptIs
  <2>2. PendingCount(t)' = PendingCount(t)
    BY <1>3 DEF PendingCount
  <2>3. Carrying(t)' = {e \in sent : t \in TasksOf[e.a]}
    BY DEF Carrying
  <2>4. CASE CountComes(t)
    <3>1. PICK a \in DueApprovals : t \in TasksOf[a]
      BY <2>4 DEF CountComes
    <3>2. PICK e \in sent : e.a = a
      BY <1>2, <3>1
    <3>3. e \in Carrying(t)'
      BY <2>3, <3>1, <3>2
    <3>4. \A f \in Carrying(t)' : f.n[t] = PendingCount(t)
      BY <1>5, <2>3
    <3> QED BY <2>2, <3>3, <3>4 DEF CountKept, CountSent
  <2>5. CASE ~CountComes(t)
    <3>1. Carrying(t) = {}
      BY <1>7 DEF Carrying
    <3>2. t \in miscounted \/ pendingCounts[t] = PendingCount(t)
      BY <2>1, <2>5, <3>1 DEF CountKept, CountSent, CountShown
    <3>3. Carrying(t)' = {}
      BY <1>2, <2>3, <2>5 DEF CountComes
    <3> QED BY <1>1, <2>2, <3>2, <3>3 DEF CountKept, CountShown
  <2> QED BY <2>4, <2>5
<1> QED BY <1>4, <1>6, <1>8, <1>9, KeptNext

\* The first of what is on the way, and the rest.
LEMMA WireSplit ==
  ASSUME NEW wire \in Seq(WireEntry), wire # <<>>
  PROVE  /\ Head(wire) \in WireEntry /\ Tail(wire) \in Seq(WireEntry)
         /\ ToSet(wire) = {Head(wire)} \cup ToSet(Tail(wire))
         /\ Len(wire) \in Nat /\ DOMAIN Tail(wire) = 1..(Len(wire) - 1)
         /\ 1 \in DOMAIN wire /\ Head(wire) = wire[1]
         /\ \A i \in DOMAIN Tail(wire) : i \in Nat \ {0} /\ i + 1 \in DOMAIN wire /\ Tail(wire)[i] = wire[i + 1]
<1> DEFINE rest == Tail(wire)
<1>1. Len(wire) \in Nat \ {0} /\ DOMAIN wire = 1..Len(wire) /\ Head(wire) = wire[1]
      /\ 1 \in DOMAIN wire /\ wire[1] \in WireEntry
  OBVIOUS
<1>2. /\ rest \in Seq(WireEntry) /\ DOMAIN rest = 1..(Len(wire) - 1)
      /\ \A i \in DOMAIN rest : i + 1 \in DOMAIN wire /\ rest[i] = wire[i + 1]
  BY <1>1
<1>3. \A i \in DOMAIN wire : i = 1 \/ (i - 1 \in DOMAIN rest /\ wire[i] = rest[i - 1])
  <2> SUFFICES ASSUME NEW i \in DOMAIN wire, i # 1
               PROVE  i - 1 \in DOMAIN rest /\ wire[i] = rest[i - 1]
    OBVIOUS
  <2>1. i - 1 \in 1..(Len(wire) - 1) /\ (i - 1) + 1 = i
    BY <1>1
  <2>2. i - 1 \in DOMAIN rest
    BY <1>2, <2>1
  <2> QED BY <1>2, <2>1, <2>2
<1> HIDE DEF rest
<1>4. ToSet(wire) = {wire[1]} \cup ToSet(rest)
  BY <1>1, <1>2, <1>3 DEF ToSet
<1>5. \A i \in DOMAIN rest : i \in Nat \ {0}
  BY <1>1, <1>2
<1> QED BY <1>1, <1>2, <1>4, <1>5 DEF rest

\* An approval comes: its row is shown, unless the row on the server is yet another, which
\* the next poll brings or which is on record; the same of the counts of its tasks.
LEMMA ApprovalStreamedKeeps == ASSUME ApprovalsInv, ApprovalStreamed PROVE ApprovalsInv'
<1> USE DEF ApprovalsInv
<1> DEFINE wire == approvalConn.wire
           e == Head(wire)
           rest == Tail(wire)
<1>1. /\ wire # <<>>
      /\ approvals' = [approvals EXCEPT ![e.a] = e.r]
      /\ pendingCounts' = [t \in ApprovalTask |->
                             IF t \in TasksOf[e.a] THEN e.n[t] ELSE pendingCounts[t]]
      /\ leftBehind' = (IF e.r = approvalRow[e.a] THEN leftBehind \ {e.a} ELSE leftBehind)
      /\ miscounted' = miscounted \ {t \in TasksOf[e.a] : e.n[t] = PendingCount(t)}
      /\ approvalConn' = [approvalConn EXCEPT !.wire = rest]
      /\ UNCHANGED <<approvalServerVars, approvalLoad, approvalDecisions, updatingId, cardMoves,
                     approvalEvents>>
  BY DEF ApprovalStreamed
<1>2. /\ e \in WireEntry /\ rest \in Seq(WireEntry) /\ ToSet(wire) = {e} \cup ToSet(rest)
      /\ Len(wire) \in Nat /\ 1 \in DOMAIN wire /\ e = wire[1]
      /\ \A i \in DOMAIN rest : i \in Nat \ {0} /\ i + 1 \in DOMAIN wire /\ rest[i] = wire[i + 1]
  BY <1>1, WireSplit, ApprovalParts
<1>3. /\ approvalConn'.up = approvalConn.up /\ approvalConn'.since = approvalConn.since
      /\ approvalConn'.wire = rest
  BY <1>1 DEF ApprovalsTypeOK
<1>4. approvalConn' \in [up : BOOLEAN, since : Nat,
                         wire : Seq([a : Approval, r : ApprovalRowType, n : [ApprovalTask -> Nat]])]
  BY <1>1, <1>2 DEF ApprovalsTypeOK, WireEntry
<1> HIDE DEF e, rest, wire
<1>5. approvalConn.up /\ approvalLoad.phase = "done"
  BY <1>1, ApprovalParts DEF ApprovalWire, wire
<1>6. /\ \A i, j \in DOMAIN wire : i # j => wire[i].a # wire[j].a
      /\ \A f \in ToSet(wire) : \A t \in TasksOf[e.a] \cap TasksOf[f.a] : f.n[t] = e.n[t]
  BY <1>2 DEF ApprovalWire, wire
<1>7. /\ e.a \in Approval /\ e.r \in ApprovalRowType /\ e.n \in [ApprovalTask -> Nat]
      /\ TasksOf[e.a] \subseteq ApprovalTask
  BY <1>2, ApprovalParts
<1>8. \A i, j \in DOMAIN rest : i # j => rest[i].a # rest[j].a
  BY <1>2, <1>6
<1>9. \A f \in ToSet(rest) : f.a # e.a
  <2>1. \A i \in DOMAIN rest : i + 1 # 1
    BY <1>2
  <2>2. \A i \in DOMAIN rest : rest[i].a # e.a
    BY <1>2, <1>6, <2>1
  <2> QED BY <2>2 DEF ToSet
<1>10. /\ approvalRow' = approvalRow /\ openApprovals' = openApprovals
       /\ approvalClock' = approvalClock
  BY <1>1 DEF approvalServerVars
<1>11. ApprovalsTypeOK' /\ OpenStamped'
  <2>1. approvals' \in [Approval -> ApprovalRowType] /\ pendingCounts' \in [ApprovalTask -> Nat]
    BY <1>1, <1>7 DEF ApprovalsTypeOK
  <2>2. leftBehind' \subseteq Approval /\ miscounted' \subseteq ApprovalTask
    BY <1>1 DEF ApprovalsTypeOK
  <2> QED BY <1>1, <1>4, <1>10, <2>1, <2>2 DEF ApprovalsTypeOK, OpenStamped
<1>12. ApprovalWire'
  <2>1. \A f, g \in ToSet(rest) : \A t \in TasksOf[f.a] \cap TasksOf[g.a] : f.n[t] = g.n[t]
    BY <1>2 DEF ApprovalWire, wire
  <2> QED BY <1>1, <1>3, <1>5, <1>8, <2>1 DEF ApprovalWire
<1>13. /\ approvals'[e.a] = e.r
       /\ \A a \in Approval \ {e.a} : approvals'[a] = approvals[a]
       /\ \A t \in TasksOf[e.a] : pendingCounts'[t] = e.n[t]
       /\ \A t \in ApprovalTask \ TasksOf[e.a] : pendingCounts'[t] = pendingCounts[t]
  BY <1>1, <1>7 DEF ApprovalsTypeOK
<1>14. DueApprovals' = DueApprovals /\ \A t : PendingCount(t)' = PendingCount(t)
  BY <1>3, <1>10 DEF DueApprovals, PendingCount
<1>15. ASSUME NEW a \in Approval PROVE ApprovalKept(a)'
  <2>1. ApprovalKept(a)
    BY <1>5, KeptIs
  <2>2. CASE a # e.a
    <3>1. a \in leftBehind => a \in leftBehind'
      BY <1>1, <2>2
    <3>2. OnTheWay(a) => OnTheWay(a)'
      BY <1>2, <1>3, <1>10, <2>2 DEF OnTheWay, wire
    <3>3. ShownAsIs(a) => ShownAsIs(a)'
      BY <1>2, <1>3, <1>10, <1>13, <2>2 DEF ShownAsIs, wire
    <3> QED BY <1>14, <2>1, <3>1, <3>2, <3>3 DEF ApprovalKept
  <2>3. CASE a = e.a /\ e.r = approvalRow[a]
    BY <1>3, <1>9, <1>10, <1>13, <2>3 DEF ApprovalKept, ShownAsIs
  <2>4. CASE a = e.a /\ e.r # approvalRow[a]
    <3>1. ~OnTheWay(a) /\ ~ShownAsIs(a)
      BY <1>2, <1>9, <2>4 DEF OnTheWay, ShownAsIs, wire
    <3> QED BY <1>1, <1>14, <2>1, <2>4, <3>1 DEF ApprovalKept
  <2> QED BY <2>2, <2>3, <2>4
<1>16. ASSUME NEW t \in ApprovalTask PROVE CountKept(t)'
  <2>1. CountKept(t)
    BY <1>5, KeptIs
  <2>2. /\ Carrying(t) = {f \in ToSet(wire) : t \in TasksOf[f.a]}
        /\ Carrying(t)' = {f \in ToSet(rest) : t \in TasksOf[f.a]}
    BY <1>3 DEF Carrying, wire
  <2>3. CountComes(t)' <=> CountComes(t)
    BY <1>14 DEF CountComes
  <2>4. CASE t \notin TasksOf[e.a]
    <3>1. Carrying(t)' = Carrying(t) /\ (t \in miscounted => t \in miscounted')
      BY <1>1, <1>2, <2>2, <2>4
    <3>2. CountSent(t) => CountSent(t)'
      BY <1>14, <3>1 DEF CountSent
    <3>3. CountShown(t) => CountShown(t)'
      BY <1>13, <1>14, <2>4, <3>1 DEF CountShown
    <3> QED BY <2>1, <2>3, <3>1, <3>2, <3>3 DEF CountKept
  <2>5. CASE t \in TasksOf[e.a] /\ e.n[t] = PendingCount(t)
    <3>1. \A f \in Carrying(t)' : f.n[t] = PendingCount(t)
      BY <1>2, <1>6, <2>2, <2>5
    <3>2. pendingCounts'[t] = PendingCount(t)
      BY <1>13, <2>5
    <3> QED BY <1>14, <3>1, <3>2 DEF CountKept, CountSent, CountShown
  <2>6. CASE t \in TasksOf[e.a] /\ e.n[t] # PendingCount(t)
    <3>1. e \in Carrying(t)
      BY <1>2, <2>2, <2>6
    <3>2. ~CountSent(t) /\ ~CountShown(t)
      BY <2>6, <3>1 DEF CountSent, CountShown
    <3>3. t \in miscounted => t \in miscounted'
      BY <1>1, <2>6
    <3> QED BY <2>1, <2>3, <3>2, <3>3 DEF CountKept
  <2> QED BY <2>4, <2>5, <2>6
<1> QED BY <1>11, <1>12, <1>15, <1>16, KeptNext
-----------------------------------------------------------------------------
LEMMA DecideKeeps ==
  ASSUME ApprovalsInv, NEW a \in Approval, NEW st \in Resolution, Decide(a, st) PROVE ApprovalsInv'
<1> USE DEF ApprovalsInv
<1> DEFINE decision == [a |-> a, st |-> st, at |-> 0, kept |-> FALSE, row |-> NoApprovalRow]
<1>1. /\ updatingId' = a /\ approvalDecisions' = approvalDecisions \cup {decision}
      /\ approvalEvents' = approvalEvents + 1 /\ UNCHANGED KeptVars
      /\ UNCHANGED <<approvalClock, openApprovals, cardMoves>>
  BY DEF Decide, ApprovalEvent, KeptVars, approvalServerVars
<1>2. decision \in ApprovalWriteType
  BY ApprovalParts DEF ApprovalWriteType
<1> HIDE DEF decision
<1>3. ApprovalsTypeOK' /\ OpenStamped'
  BY <1>1, <1>2 DEF ApprovalsTypeOK, OpenStamped, KeptVars, approvalPageVars
<1> QED BY <1>1, <1>3, KeptStays

\* An answer that comes late covers the row of the server, which is recorded, or one that
\* is still to come.
LEMMA DecisionAnsweredKeeps ==
  ASSUME ApprovalsInv, NEW d \in approvalDecisions, DecisionAnswered(d) PROVE ApprovalsInv'
<1> USE DEF ApprovalsInv
<1>1. /\ approvalDecisions' = approvalDecisions \ {d}
      /\ updatingId' = NoApproval /\ approvals' = [approvals EXCEPT ![d.a] = d.row]
      /\ leftBehind' = (IF approvals[d.a] = approvalRow[d.a] /\ d.row # approvalRow[d.a]
                        THEN leftBehind \cup {d.a} ELSE leftBehind)
      /\ UNCHANGED <<approvalServerVars, approvalLoad, pendingCounts, approvalConn, cardMoves,
                     approvalEvents, miscounted>>
  BY DEF DecisionAnswered
<1>2. d.a \in Approval /\ d.row \in ApprovalRowType
  BY DEF ApprovalsTypeOK, ApprovalWriteType
<1>3. /\ approvalRow' = approvalRow /\ openApprovals' = openApprovals
      /\ approvalClock' = approvalClock
  BY <1>1 DEF approvalServerVars
<1>4. ApprovalsTypeOK' /\ OpenStamped'
  <2>1. leftBehind' \subseteq Approval /\ approvals' \in [Approval -> ApprovalRowType]
    BY <1>1, <1>2 DEF ApprovalsTypeOK
  <2> QED BY <1>1, <1>3, <2>1 DEF ApprovalsTypeOK, OpenStamped
<1>5. approvals'[d.a] = d.row /\ \A a \in Approval \ {d.a} : approvals'[a] = approvals[a]
  BY <1>1, <1>2 DEF ApprovalsTypeOK
<1>6. DueApprovals' = DueApprovals /\ \A t : PendingCount(t)' = PendingCount(t)
  BY <1>1, <1>3 DEF DueApprovals, PendingCount
<1>7. ApprovalWire'
  BY <1>1 DEF ApprovalWire
<1>8. ASSUME approvalConn.up, NEW a \in Approval PROVE ApprovalKept(a)'
  <2>1. ApprovalKept(a)
    BY <1>8, KeptIs
  <2>2. OnTheWay(a)' <=> OnTheWay(a)
    BY <1>1, <1>3 DEF OnTheWay
  <2>3. ShownAsIs(a) => ShownAsIs(a)' \/ a \in leftBehind'
    BY <1>1, <1>3, <1>5 DEF ShownAsIs
  <2> QED BY <1>1, <1>6, <2>1, <2>2, <2>3 DEF ApprovalKept
<1>9. CountsRightOrComing'
  BY <1>1, <1>6 DEF CountsRightOrComing
<1>10. ApprovalsShownOrComing'
  <2>1. approvalConn'.up => \A a \in Approval : ApprovalKept(a)'
    BY <1>1, <1>8
  <2> QED BY <2>1 DEF ApprovalsShownOrComing, ApprovalKept, OnTheWay, ShownAsIs
<1> QED BY <1>4, <1>7, <1>9, <1>10

LEMMA DecisionFailsKeeps ==
  ASSUME ApprovalsInv, NEW d \in approvalDecisions, DecisionFails(d) PROVE ApprovalsInv'
<1> USE DEF ApprovalsInv
<1>1. /\ approvalDecisions' = approvalDecisions \ {d} /\ updatingId' = NoApproval
      /\ openApprovals' = (IF d.at > 0 /\ d.row = NoApprovalRow THEN openApprovals \cup {d}
                           ELSE openApprovals)
      /\ UNCHANGED KeptVars /\ UNCHANGED <<approvalClock, cardMoves, approvalEvents>>
  BY DEF DecisionFails, KeptVars
<1>2. ApprovalsTypeOK' /\ OpenStamped'
  BY <1>1 DEF ApprovalsTypeOK, OpenStamped, KeptVars, approvalPageVars
<1> QED BY <1>1, <1>2, KeptStays

LEMMA MoveCardKeeps ==
  ASSUME ApprovalsInv, NEW t \in ApprovalTask, MoveCard(t) PROVE ApprovalsInv'
<1> USE DEF ApprovalsInv
<1> DEFINE move == [t |-> t, before |-> pendingCounts]
<1>1. /\ cardMoves' = cardMoves \cup {move} /\ approvalEvents' = approvalEvents + 1
      /\ UNCHANGED KeptVars
      /\ UNCHANGED <<approvalClock, openApprovals, approvalDecisions, updatingId>>
  BY DEF MoveCard, ApprovalEvent, KeptVars, approvalServerVars
<1>2. move \in [t : ApprovalTask, before : [ApprovalTask -> Nat]]
  BY DEF ApprovalsTypeOK
<1> HIDE DEF move
<1>3. ApprovalsTypeOK' /\ OpenStamped'
  BY <1>1, <1>2 DEF ApprovalsTypeOK, OpenStamped, KeptVars, approvalPageVars
<1> QED BY <1>1, <1>3, KeptStays

\* The counts that the end of a move puts back are the ones shown, or their tasks are
\* recorded.
LEMMA MoveEndsKeeps ==
  ASSUME ApprovalsInv, NEW m \in cardMoves, MoveEnds(m),
         NEW ts \in SUBSET ApprovalTask, PutBack(ts, m.before)
  PROVE  ApprovalsInv'
<1> USE DEF ApprovalsInv
<1>1. /\ cardMoves' = cardMoves \ {m}
      /\ UNCHANGED <<approvalServerVars, approvalLoad, approvals, approvalConn, approvalDecisions,
                     updatingId, approvalEvents, leftBehind>>
  BY DEF MoveEnds
<1>2. /\ pendingCounts' = [t \in ApprovalTask |-> IF t \in ts THEN m.before[t] ELSE pendingCounts[t]]
      /\ miscounted' = miscounted \cup {t \in ts : m.before[t] # pendingCounts[t]}
  BY DEF PutBack
<1>3. m.before \in [ApprovalTask -> Nat]
  BY DEF ApprovalsTypeOK
<1>4. /\ approvalRow' = approvalRow /\ openApprovals' = openApprovals
      /\ approvalClock' = approvalClock
  BY <1>1 DEF approvalServerVars
<1>5. ApprovalsTypeOK' /\ OpenStamped'
  <2>1. pendingCounts' \in [ApprovalTask -> Nat] /\ miscounted' \subseteq ApprovalTask
    BY <1>2, <1>3 DEF ApprovalsTypeOK
  <2> QED BY <1>1, <1>4, <2>1 DEF ApprovalsTypeOK, OpenStamped
<1>6. DueApprovals' = DueApprovals /\ \A t : PendingCount(t)' = PendingCount(t)
  BY <1>1, <1>4 DEF DueApprovals, PendingCount
<1>7. ApprovalWire' /\ ApprovalsShownOrComing'
  BY <1>1, <1>4, <1>6 DEF ApprovalWire, ApprovalsShownOrComing
<1>8. ASSUME approvalConn.up, NEW t \in ApprovalTask PROVE CountKept(t)'
  <2>1. CountKept(t)
    BY <1>8, KeptIs
  <2>2. Carrying(t)' = Carrying(t)
    BY <1>1 DEF Carrying
  <2>3. pendingCounts'[t] = pendingCounts[t] \/ t \in miscounted'
    BY <1>2
  <2>4. CountComes(t)' <=> CountComes(t)
    BY <1>6 DEF CountComes
  <2>5. CountSent(t)' <=> CountSent(t)
    BY <1>6, <2>2 DEF CountSent
  <2>6. CountShown(t) => CountShown(t)' \/ t \in miscounted'
    BY <1>6, <2>2, <2>3 DEF CountShown
  <2> QED BY <1>2, <2>1, <2>4, <2>5, <2>6 DEF CountKept
<1>9. CountsRightOrComing'
  <2>1. approvalConn'.up => \A t \in ApprovalTask : CountKept(t)'
    BY <1>1, <1>8
  <2> QED BY <2>1 DEF CountsRightOrComing, CountKept, Carrying, CountComes, CountSent, CountShown
<1> QED BY <1>5, <1>7, <1>9
-----------------------------------------------------------------------------
LEMMA ApprovalsStep == ApprovalsInv /\ [ApprovalsNext]_approvalVars => ApprovalsInv'
<1> SUFFICES ASSUME ApprovalsInv, [ApprovalsNext]_approvalVars PROVE ApprovalsInv'
  OBVIOUS
<1>1. ASSUME NEW a \in Approval, NEW st \in Resolution \cup {"pending"}, OtherUpdates(a, st)
      PROVE  ApprovalsInv'
  BY <1>1, OtherUpdatesKeeps
<1>2. ASSUME NEW a \in Approval,
             OtherReopens(a) \/ \E st \in Resolution : Decide(a, st)
      PROVE  ApprovalsInv'
  BY <1>2, OtherReopensKeeps, DecideKeeps
<1>3. ASSUME NEW m \in cardMoves, MoveAnswered(m) \/ MoveRefused(m) PROVE ApprovalsInv'
  <2>1. m.t \in ApprovalTask
    BY DEF ApprovalsInv, ApprovalsTypeOK
  <2>2. CASE MoveAnswered(m)
    BY <2>1, <2>2, MoveEndsKeeps DEF MoveAnswered
  <2>3. CASE MoveRefused(m)
    BY <2>3, MoveEndsKeeps DEF MoveRefused
  <2> QED BY <1>3, <2>2, <2>3
<1>4. ASSUME ApprovalsAnswers PROVE ApprovalsInv'
  BY <1>3, <1>4, ServeDecisionKeeps, DecisionCommitsKeeps, DecisionAnsweredKeeps, DecisionFailsKeeps
     DEF ApprovalsAnswers
<1>5. ASSUME ApprovalsStream \/ LoseApprovals PROVE ApprovalsInv'
  BY <1>5, ConnectApprovalsKeeps, PollApprovalsKeeps, ApprovalStreamedKeeps, LoseApprovalsKeeps
     DEF ApprovalsStream
<1>6. ASSUME UNCHANGED approvalVars PROVE ApprovalsInv'
  <2>1. UNCHANGED KeptVars
    BY <1>6 DEF approvalVars, KeptVars, approvalServerVars
  <2>2. ApprovalsTypeOK' /\ OpenStamped'
    BY <1>6 DEF ApprovalsInv, ApprovalsTypeOK, OpenStamped, approvalVars, approvalServerVars,
                approvalPageVars
  <2> QED BY <2>1, <2>2, KeptStays DEF ApprovalsInv
<1> QED BY <1>1, <1>2, <1>4, <1>5, <1>6, OtherCommitsKeeps, MoveCardKeeps, ApprovalsReadKeeps,
           ApprovalsSetKeeps DEF ApprovalsNext

LEMMA ApprovalsInvariant == ApprovalsSpec => []ApprovalsInv
BY ApprovalsInitial, ApprovalsStep, PTL DEF ApprovalsSpec

LEMMA ApprovalsTyped == ApprovalsSpec => []ApprovalsTypeOK
<1>1. ApprovalsInv => ApprovalsTypeOK
  BY DEF ApprovalsInv
<1> QED BY ApprovalsInvariant, <1>1, PTL

\* Whatever is asked, decided here or elsewhere and committed late, reopened, answered late
\* or lost: while the approvals stream is up the page shows each approval as it is, or that
\* row comes, unless the cursor or a late answer left it behind (page.tsx, approvals.py).
THEOREM ApprovalsComing == ApprovalsSpec => []ApprovalsShownOrComing
<1>1. ApprovalsInv => ApprovalsShownOrComing
  BY DEF ApprovalsInv
<1> QED BY ApprovalsInvariant, <1>1, PTL

\* Nor does a card's pending count stay wrong but for what the moves put back, the failed
\* ones on all cards, and for the approvals behind the cursor: decisions change no count,
\* only the stream does.
THEOREM CountsComing == ApprovalsSpec => []CountsRightOrComing
<1>1. ApprovalsInv => CountsRightOrComing
  BY DEF ApprovalsInv
<1> QED BY ApprovalsInvariant, <1>1, PTL
=============================================================================

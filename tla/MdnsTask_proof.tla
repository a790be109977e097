--------------------------- MODULE MdnsTask_proof ----------------------------
(***************************************************************************)
(* What module MdnsTask promises, proved for any queries, packets, delays,  *)
(* length of the queue and number of inputs.                                *)
(***************************************************************************)
EXTENDS MdnsTask, MdnsLists_proof, SequenceTheorems, TLAPS

Marked(l) == {i \in 1 .. Len(l) : l[i].queued}

\* The packets that are marked are overdue and come first.
MarkedFirst(l) ==
  \A i \in 1 .. Len(l) : l[i].queued => l[i].left < 0 /\ \A j \in 1 .. i : l[j].queued

\* The actions w send them in the order of the list: "at" says where the action of each is.
Sends(l, w, at) ==
  /\ \A i \in Marked(l) : at[i] \in 1 .. Len(w) /\ w[at[i]] = [type |-> "TX", of |-> l[i].packet]
  /\ \A i, j \in Marked(l) : i < j => at[i] < at[j]

InOrder(l, w) == MarkedFirst(l) /\ \E at \in [Marked(l) -> 1 .. Len(w)] : Sends(l, w, at)

TxInv == InOrder(tx, ToExecute)

Listed == ToSet(searches)

\* The actions w have one of this type for query q.
HasIn(w, type, q) == \E k \in 1 .. Len(w) : w[k].type = type /\ w[k].of = q

Comes(type, q) == HasIn(ToExecute, type, q)

\* A search is added once and ended once.
Once(w) == \A k, l \in 1 .. Len(w) : w[k].type \in {"ADD", "END"} /\ w[k] = w[l] => k = l

OnceInv == Once(ToExecute)

\* It is active when it is added, and not ended before.
AddInv ==
  \A q \in Queries :
    Comes("ADD", q) => q \notin Listed /\ ~Comes("END", q) /\ search[q].state # "OFF"

\* It is off and over when its end is posted, and in the list until its end is executed,
\* unless a packet fills it meanwhile.
EndInv ==
  \A q \in Queries :
    Comes("END", q) => /\ search[q].state = "OFF" /\ search[q].left < 0
                       /\ q \in Listed \cup twice

Known(q) == q \in Listed \/ Comes("ADD", q) \/ Comes("END", q)

\* The component knows of a search only as long as the application waits for its end,
\* but for the two ways in which it is deleted too soon.
KnownInv ==
  \A q \in Queries :
    /\ Known(q) \/ q \in given => app[q] \notin {"idle", "refused"}
    /\ Known(q) /\ q \notin early \cup twice => app[q] \in {"waiting", "held"} /\ q \notin given

SearchInv == OnceInv /\ AddInv /\ EndInv /\ KnownInv

IInv == TypeOK /\ TxInv /\ SearchInv

----------------------------------------------------------------------------
(* What a step can do to the actions that are to be executed                 *)

\* What an action is about.
LEMMA ActionFacts ==
  ASSUME NEW a \in Action
  PROVE  /\ a = [type |-> a.type, of |-> a.of]
         /\ a.type \in {"ADD", "SEND", "END", "TX", "OTHER"}
         /\ a.type \in {"ADD", "SEND", "END"} => a.of \in Queries
         /\ a.type = "TX" => a.of \in Packets
  BY DEF Action

\* The action in hand comes before those in the queue.
InHand(c, q) == (IF c = NoAction THEN <<>> ELSE <<c>>) \o q

Headed(w, c, q) ==
  /\ w \in Seq(Action) /\ Len(w) = Len(q) + 1 /\ w[1] = c
  /\ \A k \in 1 .. Len(q) : w[k + 1] = q[k]

\* What is to be executed, without and with an action in hand.
LEMMA InHandFacts ==
  ASSUME NEW c \in Action \cup {NoAction}, NEW q \in Seq(Action)
  PROVE  /\ c = NoAction => InHand(c, q) = q
         /\ c # NoAction => Headed(InHand(c, q), c, q)
<1>1. CASE c = NoAction
  <2>1. InHand(c, q) = <<>> \o q
    BY <1>1 DEF InHand
  <2>2. <<>> \o q = q
    BY ConcatEmptySeq
  <2> QED BY <1>1, <2>1, <2>2
<1>2. CASE c # NoAction
  <2>1. InHand(c, q) = <<c>> \o q
    BY <1>2 DEF InHand
  <2> QED BY <1>2, <2>1, InFront DEF Headed
<1> QED BY <1>1, <1>2

\* One list is the other and a bit more.
Extends(w, v) ==
  /\ v \in Seq(Action) /\ Len(w) \in Nat /\ Len(w) <= Len(v)
  /\ \A k \in 1 .. Len(w) : v[k] = w[k]

\* What holds of the queue holds of all that is to be executed: it becomes longer by as
\* much, at the end.
LEMMA InHandExtends ==
  ASSUME NEW c \in Action \cup {NoAction}, NEW p \in Seq(Action), NEW q, Extends(p, q)
  PROVE  /\ Extends(InHand(c, p), InHand(c, q))
         /\ \A k \in Len(InHand(c, p)) + 1 .. Len(InHand(c, q)) :
              \E l \in Len(p) + 1 .. Len(q) :
                /\ k - Len(InHand(c, p)) = l - Len(p)
                /\ InHand(c, q)[k] = q[l]
<1>1. q \in Seq(Action) /\ Len(p) \in Nat /\ Len(q) \in Nat /\ Len(p) <= Len(q)
      /\ \A k \in 1 .. Len(p) : q[k] = p[k]
  BY LenProperties DEF Extends
<1> DEFINE v == InHand(c, p)
           w == InHand(c, q)
<1>2. CASE c = NoAction
  <2>1. v = p /\ w = q
    BY <1>1, <1>2, InHandFacts
  <2>2. \A k \in Len(p) + 1 .. Len(q) :
          \E l \in Len(p) + 1 .. Len(q) : k - Len(p) = l - Len(p) /\ q[k] = q[l]
    OBVIOUS
  <2> QED BY <2>1, <2>2
<1>3. CASE c # NoAction
  <2>1. /\ v \in Seq(Action) /\ Len(v) = Len(p) + 1 /\ v[1] = c
        /\ \A k \in 1 .. Len(p) : v[k + 1] = p[k]
        /\ w \in Seq(Action) /\ Len(w) = Len(q) + 1 /\ w[1] = c
        /\ \A k \in 1 .. Len(q) : w[k + 1] = q[k]
    BY <1>1, <1>3, InHandFacts DEF Headed
  <2> HIDE DEF v, w
  <2>2. ASSUME NEW k \in 1 .. Len(v) PROVE w[k] = v[k]
    <3>1. CASE k = 1
      BY <2>1, <3>1
    <3>2. CASE k # 1
      <4>1. k - 1 \in 1 .. Len(p) /\ k - 1 \in 1 .. Len(q) /\ (k - 1) + 1 = k
        BY <1>1, <2>1, <3>2
      <4> QED BY <1>1, <2>1, <4>1
    <3> QED BY <3>1, <3>2
  <2>3. ASSUME NEW k \in Len(v) + 1 .. Len(w)
        PROVE  \E l \in Len(p) + 1 .. Len(q) : k - Len(v) = l - Len(p) /\ w[k] = q[l]
    <3>1. /\ k - 1 \in Len(p) + 1 .. Len(q) /\ k - 1 \in 1 .. Len(q) /\ (k - 1) + 1 = k
          /\ k - Len(v) = (k - 1) - Len(p)
      BY <1>1, <2>1
    <3>2. w[k] = q[k - 1]
      BY <2>1, <3>1
    <3> QED BY <3>1, <3>2
  <2>4. Extends(v, w)
    BY <1>1, <2>1, <2>2 DEF Extends
  <2> QED BY <2>3, <2>4 DEF v, w
<1> QED BY <1>2, <1>3

\* ToExecute is such a list.
LEMMA ToExecuteInHand ==
  /\ ToExecute = InHand(current, queue)
  /\ ToExecute' = InHand(current', queue')
  BY DEF ToExecute, InHand

\* One more action is to be executed, after the others.
Grows(w, v, a) ==
  /\ v \in Seq(Action) /\ Len(w) \in Nat /\ Len(v) = Len(w) + 1 /\ v[Len(w) + 1] = a
  /\ \A k \in 1 .. Len(w) : v[k] = w[k]

\* Posting an action makes the list longer by it.
LEMMA PostGrows ==
  ASSUME TypeOK, NEW a \in Action, queue' = Append(queue, a), current' = current
  PROVE  Grows(ToExecute, ToExecute', a)
<1>1. /\ queue \in Seq(Action) /\ current \in Action \cup {NoAction}
      /\ Len(queue) \in Nat
  BY LenProperties DEF TypeOK
<1>2. /\ queue' \in Seq(Action) /\ Len(queue') = Len(queue) + 1
      /\ queue'[Len(queue) + 1] = a
      /\ \A k \in 1 .. Len(queue) : queue'[k] = queue[k]
  BY <1>1, AppendProperties
<1>3. CASE current = NoAction
  <2>1. ToExecute = queue /\ ToExecute' = queue'
    BY <1>1, <1>2, <1>3, InHandFacts, ToExecuteInHand
  <2> QED BY <1>1, <1>2, <2>1 DEF Grows
<1>4. CASE current # NoAction
  <2> DEFINE v == ToExecute
             w == ToExecute'
  <2>1. /\ v \in Seq(Action) /\ Len(v) = Len(queue) + 1 /\ v[1] = current
        /\ \A k \in 1 .. Len(queue) : v[k + 1] = queue[k]
        /\ w \in Seq(Action) /\ Len(w) = Len(queue') + 1 /\ w[1] = current
        /\ \A k \in 1 .. Len(queue') : w[k + 1] = queue'[k]
    <3>1. Headed(v, current, queue)
      BY <1>1, <1>4, InHandFacts, ToExecuteInHand
    <3>2. Headed(w, current, queue')
      BY <1>1, <1>2, <1>4, InHandFacts, ToExecuteInHand
    <3> HIDE DEF v, w
    <3> QED BY <3>1, <3>2 DEF Headed
  <2> HIDE DEF v, w
  <2>2. Len(v) \in Nat /\ Len(w) = Len(v) + 1
    BY <1>1, <1>2, <2>1
  <2>3. w[Len(v) + 1] = a
    <3>1. Len(queue) + 1 \in 1 .. Len(queue') /\ Len(v) + 1 = (Len(queue) + 1) + 1
      BY <1>1, <1>2, <2>1
    <3>2. w[(Len(queue) + 1) + 1] = queue'[Len(queue) + 1]
      BY <2>1, <3>1
    <3> QED BY <1>2, <3>1, <3>2
  <2>4. ASSUME NEW k \in 1 .. Len(v) PROVE w[k] = v[k]
    <3>1. CASE k = 1
      BY <2>1, <3>1
    <3>2. CASE k # 1
      <4>1. k - 1 \in 1 .. Len(queue) /\ k - 1 \in 1 .. Len(queue') /\ (k - 1) + 1 = k
        BY <1>1, <1>2, <2>1, <3>2
      <4> QED BY <1>2, <2>1, <4>1
    <3> QED BY <3>1, <3>2
  <2>5. Grows(v, w, a)
    BY <2>1, <2>2, <2>3, <2>4 DEF Grows
  <2> QED BY <2>5 DEF v, w
<1> QED BY <1>3, <1>4

\* Taking an action from the queue changes nothing.
LEMMA ReceiveSame ==
  ASSUME TypeOK, current = NoAction, queue # <<>>, current' = Head(queue), queue' = Tail(queue)
  PROVE  ToExecute' = ToExecute /\ current' \in Action /\ queue' \in Seq(Action)
<1>1. queue \in Seq(Action) /\ current \in Action \cup {NoAction} /\ Len(queue) \in Nat
  BY LenProperties DEF TypeOK
<1>2. /\ current' \in Action /\ queue' \in Seq(Action) /\ Len(queue') = Len(queue) - 1
      /\ \A k \in 1 .. Len(queue') : queue'[k] = queue[k + 1]
      /\ current' = queue[1]
  BY <1>1, HeadTailProperties
<1>3. current' # NoAction
  BY <1>2, SentinelAssumption
<1>4. ToExecute = queue
  BY <1>1, InHandFacts, ToExecuteInHand
<1> DEFINE w == ToExecute'
<1>5. /\ w \in Seq(Action) /\ Len(w) = Len(queue') + 1 /\ w[1] = queue[1]
      /\ \A k \in 1 .. Len(queue') : w[k + 1] = queue'[k]
  <2>1. Headed(w, current', queue')
    BY <1>2, <1>3, InHandFacts, ToExecuteInHand
  <2> HIDE DEF w
  <2> QED BY <1>2, <2>1 DEF Headed
<1> HIDE DEF w
<1>6. ASSUME NEW k \in 1 .. Len(w) PROVE w[k] = queue[k]
  <2>1. CASE k = 1
    BY <1>5, <2>1
  <2>2. CASE k # 1
    <3>1. k - 1 \in 1 .. Len(queue') /\ (k - 1) + 1 = k
      BY <1>1, <1>2, <1>5, <2>2
    <3> QED BY <1>2, <1>5, <3>1
  <2> QED BY <2>1, <2>2
<1>7. Len(w) = Len(queue)
  BY <1>1, <1>2, <1>5
<1>8. w = queue
  BY <1>1, <1>5, <1>6, <1>7, SeqEqual
<1> QED BY <1>2, <1>4, <1>8 DEF w

\* The first action is executed.
Shrinks(w, v) ==
  /\ v \in Seq(Action) /\ Len(v) \in Nat /\ Len(w) = Len(v) + 1
  /\ \A k \in 1 .. Len(v) : v[k] = w[k + 1]

\* The action in hand was the first of the list.
LEMMA ExecuteShrinks ==
  ASSUME TypeOK, NEW type, Execute(type)
  PROVE  /\ Shrinks(ToExecute, ToExecute') /\ ToExecute[1] = current
         /\ current \in Action /\ current.type = type /\ queue' = queue
<1>1. /\ queue \in Seq(Action) /\ current \in Action /\ current # NoAction
      /\ current.type = type /\ current' = NoAction /\ queue' = queue
  BY DEF TypeOK, Execute
<1>2. ToExecute' = queue
  BY <1>1, InHandFacts, ToExecuteInHand
<1>3. /\ Len(ToExecute) = Len(queue) + 1 /\ ToExecute[1] = current
      /\ \A k \in 1 .. Len(queue) : ToExecute[k + 1] = queue[k]
  <2>1. Headed(ToExecute, current, queue)
    BY <1>1, InHandFacts, ToExecuteInHand
  <2> QED BY <2>1 DEF Headed
<1> QED BY <1>1, <1>2, <1>3, LenProperties DEF Shrinks

----------------------------------------------------------------------------
(* The packets that were posted                                              *)

\* It is enough to say where their actions are.
LEMMA InOrderBy ==
  ASSUME NEW l, NEW w, MarkedFirst(l), NEW at, Sends(l, w, at)
  PROVE  InOrder(l, w)
<1> DEFINE to == [i \in Marked(l) |-> at[i]]
<1>1. \A i \in Marked(l) : to[i] = at[i]
  OBVIOUS
<1>2. to \in [Marked(l) -> 1 .. Len(w)]
  BY DEF Sends
<1> HIDE DEF to
<1>3. Sends(l, w, to)
  BY <1>1 DEF Sends
<1> QED BY <1>2, <1>3 DEF InOrder

\* More actions come behind.
LEMMA InOrderExtends ==
  ASSUME NEW l, NEW w, NEW v, InOrder(l, w), Len(w) \in Nat, Len(v) \in Nat, Len(w) <= Len(v),
         \A k \in 1 .. Len(w) : v[k] = w[k]
  PROVE  InOrder(l, v)
<1>1. PICK at : Sends(l, w, at)
  BY DEF InOrder
<1>2. Sends(l, v, at)
  BY <1>1 DEF Sends
<1> QED BY <1>2, InOrderBy DEF InOrder

\* An action is executed that sends none of them.
LEMMA InOrderSkip ==
  ASSUME NEW l \in Seq(Entry), NEW w, NEW v, InOrder(l, w), Shrinks(w, v),
         1 \in Marked(l) => w[1] # [type |-> "TX", of |-> l[1].packet]
  PROVE  InOrder(l, v)
<1>1. PICK at : Sends(l, w, at)
  BY DEF InOrder
<1> DEFINE to == [i \in Marked(l) |-> at[i] - 1]
<1>2. Len(v) \in Nat /\ Len(w) = Len(v) + 1 /\ \A k \in 1 .. Len(v) : v[k] = w[k + 1]
  BY DEF Shrinks
<1>3. Len(l) \in Nat
  BY LenProperties
<1>4. ASSUME NEW i \in Marked(l) PROVE to[i] \in 1 .. Len(v) /\ v[to[i]] = w[at[i]]
  <2>1. i \in 1 .. Len(l) /\ 1 \in 1 .. i /\ 1 \in 1 .. Len(l)
    BY <1>3 DEF Marked
  <2>2. 1 \in Marked(l)
    BY <2>1 DEF Marked, InOrder, MarkedFirst
  <2>3. at[1] \in 1 .. Len(w) /\ at[1] # 1 /\ at[i] \in 1 .. Len(w)
    BY <1>1, <2>2 DEF Sends
  <2>4. i = 1 \/ at[1] < at[i]
    BY <1>1, <2>1, <2>2 DEF Sends
  <2>5. at[i] - 1 \in 1 .. Len(v) /\ (at[i] - 1) + 1 = at[i]
    BY <1>2, <2>3, <2>4
  <2> QED BY <1>2, <2>5
<1>5. \A i, j \in Marked(l) : i < j => to[i] < to[j]
  <2> SUFFICES ASSUME NEW i \in Marked(l), NEW j \in Marked(l), i < j PROVE to[i] < to[j]
    OBVIOUS
  <2>1. at[i] \in 1 .. Len(w) /\ at[j] \in 1 .. Len(w) /\ at[i] < at[j]
    BY <1>1 DEF Sends
  <2> QED BY <1>2, <2>1
<1> HIDE DEF to
<1>6. Sends(l, v, to)
  BY <1>1, <1>4, <1>5 DEF Sends
<1> QED BY <1>6, InOrderBy DEF InOrder

\* The first of them is sent, or at least taken from the list.
LEMMA InOrderTail ==
  ASSUME NEW l \in Seq(Entry), NEW w, NEW v, InOrder(l, w), Shrinks(w, v),
         l # <<>>, l[1].queued
  PROVE  InOrder(Tail(l), v) /\ Tail(l) \in Seq(Entry)
<1>1. PICK at : Sends(l, w, at)
  BY DEF InOrder
<1> DEFINE m == Tail(l)
           to == [i \in Marked(m) |-> at[i + 1] - 1]
<1>2. Len(v) \in Nat /\ Len(w) = Len(v) + 1 /\ \A k \in 1 .. Len(v) : v[k] = w[k + 1]
  BY DEF Shrinks
<1>3. /\ m \in Seq(Entry) /\ Len(m) = Len(l) - 1 /\ Len(l) \in Nat /\ Len(l) # 0
      /\ \A i \in 1 .. Len(m) : m[i] = l[i + 1]
  BY HeadTailProperties, LenProperties
<1> HIDE DEF m
<1>4. \A i \in 1 .. Len(m) : i + 1 \in 1 .. Len(l)
  BY <1>3
<1>5. 1 \in Marked(l) /\ \A i \in Marked(m) : i \in 1 .. Len(m) /\ i + 1 \in Marked(l)
  BY <1>3, <1>4 DEF Marked
<1>6. ASSUME NEW i \in Marked(m)
      PROVE  to[i] \in 1 .. Len(v) /\ v[to[i]] = [type |-> "TX", of |-> m[i].packet]
  <2>1. at[1] \in 1 .. Len(w) /\ at[i + 1] \in 1 .. Len(w)
    BY <1>1, <1>5 DEF Sends
  <2>2. at[1] < at[i + 1]
    BY <1>1, <1>3, <1>5 DEF Sends
  <2>3. at[i + 1] - 1 \in 1 .. Len(v) /\ (at[i + 1] - 1) + 1 = at[i + 1]
    BY <1>2, <2>1, <2>2
  <2>4. w[at[i + 1]] = [type |-> "TX", of |-> l[i + 1].packet]
    BY <1>1, <1>5 DEF Sends
  <2> QED BY <1>2, <1>3, <1>5, <2>3, <2>4
<1>7. \A i, j \in Marked(m) : i < j => to[i] < to[j]
  <2> SUFFICES ASSUME NEW i \in Marked(m), NEW j \in Marked(m), i < j PROVE to[i] < to[j]
    OBVIOUS
  <2>1. i + 1 \in Marked(l) /\ j + 1 \in Marked(l) /\ i + 1 < j + 1
    BY <1>3, <1>5
  <2>2. at[i + 1] \in 1 .. Len(w) /\ at[j + 1] \in 1 .. Len(w) /\ at[i + 1] < at[j + 1]
    BY <1>1, <2>1 DEF Sends
  <2> QED BY <1>2, <2>2
<1> HIDE DEF to
<1>8. Sends(m, v, to)
  BY <1>6, <1>7 DEF Sends
<1>9. MarkedFirst(m)
  <2> SUFFICES ASSUME NEW i \in 1 .. Len(m), m[i].queued
               PROVE  m[i].left < 0 /\ \A j \in 1 .. i : m[j].queued
    BY DEF MarkedFirst
  <2>1. l[i + 1].left < 0 /\ \A j \in 1 .. i + 1 : l[j].queued
    BY <1>3, <1>4 DEF InOrder, MarkedFirst
  <2>2. \A j \in 1 .. i : j \in 1 .. Len(m) /\ j + 1 \in 1 .. i + 1
    BY <1>3
  <2> QED BY <1>3, <2>1, <2>2
<1>10. InOrder(m, v)
  BY <1>8, <1>9, InOrderBy
<1> QED BY <1>3, <1>10 DEF m

\* Time passes.
LEMMA InOrderLater ==
  ASSUME NEW l, NEW m, NEW w, InOrder(l, w), Len(m) = Len(l),
         \A i \in 1 .. Len(l) : /\ m[i].packet = l[i].packet /\ m[i].queued = l[i].queued
                                /\ l[i].left < 0 => m[i].left < 0
  PROVE  InOrder(m, w)
<1>1. PICK at : Sends(l, w, at)
  BY DEF InOrder
<1>2. Marked(m) = Marked(l)
  BY DEF Marked
<1>3. Sends(m, w, at)
  BY <1>1, <1>2 DEF Sends, Marked
<1>4. MarkedFirst(m)
  <2> SUFFICES ASSUME NEW i \in 1 .. Len(m), m[i].queued
               PROVE  m[i].left < 0 /\ \A j \in 1 .. i : m[j].queued
    BY DEF MarkedFirst
  <2>1. l[i].left < 0 /\ \A j \in 1 .. i : l[j].queued
    BY DEF InOrder, MarkedFirst
  <2>2. \A j \in 1 .. i : j \in 1 .. Len(l)
    OBVIOUS
  <2> QED BY <2>1, <2>2
<1> QED BY <1>3, <1>4, InOrderBy

\* The next one is posted.
LEMMA InOrderPost ==
  ASSUME NEW l \in Seq(Entry), NEW w, NEW v, InOrder(l, w),
         NEW n \in 1 .. Len(l), ~l[n].queued, l[n].left < 0,
         \A i \in 1 .. Len(l) : i < n => l[i].queued,
         Grows(w, v, [type |-> "TX", of |-> l[n].packet])
  PROVE  /\ InOrder([l EXCEPT ![n].queued = TRUE], v)
         /\ [l EXCEPT ![n].queued = TRUE] \in Seq(Entry)
<1>1. PICK at : Sends(l, w, at)
  BY DEF InOrder
<1> DEFINE m == [l EXCEPT ![n].queued = TRUE]
           to == [i \in Marked(m) |-> IF i = n THEN Len(w) + 1 ELSE at[i]]
<1>2. /\ Len(w) \in Nat /\ Len(v) = Len(w) + 1
      /\ v[Len(w) + 1] = [type |-> "TX", of |-> l[n].packet]
      /\ \A k \in 1 .. Len(w) : v[k] = w[k]
  BY DEF Grows
<1>3. Len(l) \in Nat /\ l \in [1 .. Len(l) -> Entry]
  BY LenProperties
<1>4. /\ m \in Seq(Entry) /\ Len(m) = Len(l)
      /\ m[n].packet = l[n].packet /\ m[n].left = l[n].left /\ m[n].queued
      /\ \A i \in 1 .. Len(l) : i # n => m[i] = l[i]
  <2>1. l[n] \in Entry /\ [l[n] EXCEPT !.queued = TRUE] \in Entry
    BY <1>3 DEF Entry
  <2>2. m = [l EXCEPT ![n] = [l[n] EXCEPT !.queued = TRUE]]
    OBVIOUS
  <2>3. m \in Seq(Entry) /\ Len(m) = Len(l)
    BY <2>1, <2>2, ExceptSeq
  <2>4. m[n] = [l[n] EXCEPT !.queued = TRUE] /\ \A i \in 1 .. Len(l) : i # n => m[i] = l[i]
    BY <1>3, <2>2
  <2>5. m[n].packet = l[n].packet /\ m[n].left = l[n].left /\ m[n].queued
    BY <2>1, <2>4 DEF Entry
  <2> QED BY <2>3, <2>4, <2>5
<1> HIDE DEF m
<1>5. /\ n \in Marked(m) /\ n \notin Marked(l)
      /\ \A i \in Marked(m) : i \in 1 .. Len(l) /\ (i = n \/ i \in Marked(l))
      /\ \A i \in Marked(l) : i < n
  <2>1. \A i \in Marked(l) : i < n
    <3> SUFFICES ASSUME NEW i \in Marked(l), ~(i < n) PROVE FALSE
      OBVIOUS
    <3>1. i \in 1 .. Len(l) /\ n \in 1 .. i
      BY <1>3 DEF Marked
    <3> QED BY <3>1 DEF Marked, InOrder, MarkedFirst
  <2> QED BY <1>4, <2>1 DEF Marked
<1>6. ASSUME NEW i \in Marked(m)
      PROVE  to[i] \in 1 .. Len(v) /\ v[to[i]] = [type |-> "TX", of |-> m[i].packet]
  <2>1. CASE i = n
    BY <1>2, <1>4, <2>1
  <2>2. CASE i # n
    <3>1. i \in Marked(l) /\ to[i] = at[i] /\ m[i] = l[i]
      BY <1>4, <1>5, <2>2
    <3>2. at[i] \in 1 .. Len(w) /\ w[at[i]] = [type |-> "TX", of |-> l[i].packet]
      BY <1>1, <3>1 DEF Sends
    <3> QED BY <1>2, <3>1, <3>2
  <2> QED BY <2>1, <2>2
<1>7. \A i, j \in Marked(m) : i < j => to[i] < to[j]
  <2> SUFFICES ASSUME NEW i \in Marked(m), NEW j \in Marked(m), i < j PROVE to[i] < to[j]
    OBVIOUS
  <2>1. i # n /\ i \in Marked(l) /\ to[i] = at[i] /\ at[i] \in 1 .. Len(w)
    <3>1. i # n
      BY <1>3, <1>5
    <3>2. i \in Marked(l) /\ to[i] = at[i]
      BY <1>5, <3>1
    <3> QED BY <1>1, <3>1, <3>2 DEF Sends
  <2>2. CASE j = n
    BY <1>2, <2>1, <2>2
  <2>3. CASE j # n
    <3>1. j \in Marked(l) /\ to[j] = at[j]
      BY <1>5, <2>3
    <3> QED BY <1>1, <2>1, <3>1 DEF Sends
  <2> QED BY <2>2, <2>3
<1> HIDE DEF to
<1>8. Sends(m, v, to)
  BY <1>6, <1>7 DEF Sends
<1>9. MarkedFirst(m)
  <2> SUFFICES ASSUME NEW i \in 1 .. Len(m), m[i].queued
               PROVE  m[i].left < 0 /\ \A j \in 1 .. i : m[j].queued
    BY DEF MarkedFirst
  <2>1. i \in Marked(m)
    BY DEF Marked
  <2>2. \A j \in 1 .. i : j \in 1 .. Len(l) /\ j <= i
    BY <1>3, <1>4
  <2>3. m[i].left < 0
    BY <1>4, <1>5, <2>1 DEF InOrder, MarkedFirst, Marked
  <2>4. i <= n
    BY <1>3, <1>5, <2>1
  <2>5. \A j \in 1 .. i : j # n => j < n
    BY <1>3, <2>4
  <2>6. \A j \in 1 .. i : m[j].queued
    BY <1>4, <2>2, <2>5
  <2> QED BY <2>3, <2>6
<1>10. InOrder(m, v)
  BY <1>8, <1>9, InOrderBy
<1> QED BY <1>4, <1>10 DEF m

\* A list into which an element was inserted behind the first n.
Insert(l, n, x) == SubSeq(l, 1, n) \o <<x>> \o SubSeq(l, n + 1, Len(l))

\* This is what m is: l with x behind its first n elements.
Placed(m, l, n, x) ==
  /\ m \in Seq(Entry) /\ Len(m) = Len(l) + 1 /\ m[n + 1] = x
  /\ \A i \in 1 .. n : m[i] = l[i]
  /\ \A i \in n + 1 .. Len(l) : m[i + 1] = l[i]

\* Where the elements are after one was inserted.
LEMMA Inserted ==
  ASSUME NEW l \in Seq(Entry), NEW x \in Entry, NEW n \in 0 .. Len(l)
  PROVE  Placed(Insert(l, n, x), l, n, x)
<1> DEFINE one == <<x>>
           a == SubSeq(l, 1, n)
           b == SubSeq(l, n + 1, Len(l))
           c == a \o one
           m == c \o b
<1>1. Len(l) \in Nat /\ \A i \in 1 .. Len(l) : l[i] \in Entry
  BY LenProperties, ElementOfSeq
<1>2. one \in Seq(Entry) /\ Len(one) = 1 /\ one[1] = x
  OBVIOUS
<1>3. a \in Seq(Entry) /\ Len(a) = n /\ \A i \in 1 .. n : a[i] = l[i]
  <2>1. 1 \in Int /\ n \in Int /\ \A i \in 1 .. n : l[i] \in Entry
    BY <1>1
  <2>2. /\ a \in Seq(Entry) /\ Len(a) = IF 1 <= n THEN n - 1 + 1 ELSE 0
        /\ \A i \in 1 .. n - 1 + 1 : a[i] = l[1 + i - 1]
    BY <2>1, SubSeqProperties
  <2> HIDE DEF a
  <2> QED BY <2>2, <1>1
<1>4. /\ b \in Seq(Entry) /\ Len(b) = Len(l) - n
      /\ \A i \in 1 .. Len(l) - n : b[i] = l[n + i]
  <2>1. n + 1 \in Int /\ Len(l) \in Int /\ \A i \in n + 1 .. Len(l) : l[i] \in Entry
    BY <1>1
  <2>2. /\ b \in Seq(Entry) /\ Len(b) = IF n + 1 <= Len(l) THEN Len(l) - (n + 1) + 1 ELSE 0
        /\ \A i \in 1 .. Len(l) - (n + 1) + 1 : b[i] = l[(n + 1) + i - 1]
    BY <2>1, SubSeqProperties
  <2> HIDE DEF b
  <2> QED BY <2>2, <1>1
<1> HIDE DEF one, a, b
<1>5. /\ c \in Seq(Entry) /\ Len(c) = Len(a) + Len(one)
      /\ \A i \in 1 .. Len(a) + Len(one) :
           c[i] = IF i <= Len(a) THEN a[i] ELSE one[i - Len(a)]
  BY <1>2, <1>3, ConcatProperties, Zenon
<1> HIDE DEF c
<1>6. /\ m \in Seq(Entry) /\ Len(m) = Len(c) + Len(b)
      /\ \A i \in 1 .. Len(c) + Len(b) : m[i] = IF i <= Len(c) THEN c[i] ELSE b[i - Len(c)]
  <2>1. c \in Seq(Entry) /\ b \in Seq(Entry)
    BY <1>4, <1>5
  <2> QED BY <2>1, ConcatProperties, Zenon
<1> HIDE DEF m
<1>7. c[n + 1] = x /\ Len(c) = n + 1 /\ \A i \in 1 .. n : c[i] = l[i]
  BY <1>2, <1>3, <1>5
<1>8. Len(m) = Len(l) + 1 /\ m[n + 1] = x /\ \A i \in 1 .. n : m[i] = l[i]
  <2>1. Len(m) = Len(l) + 1
    BY <1>1, <1>4, <1>6, <1>7
  <2>2. \A i \in 1 .. n + 1 : i \in 1 .. Len(c) + Len(b) /\ i <= Len(c)
    BY <1>1, <1>4, <1>7
  <2>3. \A i \in 1 .. n + 1 : m[i] = c[i]
    BY <1>6, <2>2
  <2>4. n + 1 \in 1 .. n + 1 /\ \A i \in 1 .. n : i \in 1 .. n + 1
    OBVIOUS
  <2> QED BY <1>7, <2>1, <2>3, <2>4
<1>9. ASSUME NEW i \in n + 1 .. Len(l) PROVE m[i + 1] = l[i]
  <2>1. /\ i + 1 \in 1 .. Len(c) + Len(b) /\ ~(i + 1 <= Len(c))
        /\ (i + 1) - Len(c) = i - n /\ i - n \in 1 .. Len(l) - n /\ n + (i - n) = i
    BY <1>1, <1>4, <1>7
  <2>2. m[i + 1] = b[i - n]
    BY <1>6, <2>1
  <2> QED BY <1>4, <2>1, <2>2
<1>10. Placed(m, l, n, x)
  BY <1>6, <1>8, <1>9 DEF Placed
<1> QED BY <1>10 DEF Insert, m, c, a, b, one

\* A packet that is not posted is put behind all that were.
LEMMA InOrderInsert ==
  ASSUME NEW l \in Seq(Entry), NEW w, InOrder(l, w),
         NEW e \in Entry, ~e.queued, NEW pos \in 0 .. Len(l), \A i \in Marked(l) : i <= pos
  PROVE  InOrder(Insert(l, pos, e), w) /\ Insert(l, pos, e) \in Seq(Entry)
<1> DEFINE m == Insert(l, pos, e)
<1>1. Len(l) \in Nat /\ \A i \in 1 .. Len(l) : l[i] \in Entry
  BY LenProperties, ElementOfSeq
<1>2. \A i \in Marked(l) : i \in 1 .. Len(l)
  BY DEF Marked
<1>3. /\ m \in Seq(Entry) /\ Len(m) = Len(l) + 1 /\ m[pos + 1] = e
      /\ \A i \in 1 .. pos : m[i] = l[i]
      /\ \A i \in pos + 1 .. Len(l) : m[i + 1] = l[i]
  <2>1. Placed(m, l, pos, e)
    BY Inserted
  <2> QED BY <2>1 DEF Placed
<1> HIDE DEF m
<1>4. ASSUME NEW i \in 1 .. Len(m), m[i].queued PROVE i \in Marked(l) /\ i \in 1 .. pos
  <2>1. CASE i \in 1 .. pos
    BY <1>3, <1>4, <2>1 DEF Marked
  <2>2. CASE i = pos + 1
    BY <1>3, <1>4, <2>2
  <2>3. CASE i \notin 1 .. pos + 1
    <3>1. i - 1 \in pos + 1 .. Len(l) /\ (i - 1) + 1 = i /\ i - 1 \in 1 .. Len(l)
      BY <1>1, <1>3, <2>3
    <3>2. m[i] = l[i - 1]
      BY <1>3, <3>1
    <3>3. i - 1 \in Marked(l)
      BY <1>4, <3>1, <3>2 DEF Marked
    <3>4. i - 1 <= pos
      BY <3>3
    <3> QED BY <3>1, <3>4
  <2> QED BY <2>1, <2>2, <2>3
<1>5. ASSUME NEW i \in Marked(l) PROVE i \in 1 .. pos /\ m[i] = l[i] /\ i \in Marked(m)
  <2>1. i \in 1 .. pos
    BY <1>2
  <2> QED BY <1>1, <1>3, <2>1 DEF Marked
<1>6. Marked(m) = Marked(l)
  BY <1>4, <1>5 DEF Marked
<1>7. PICK at : Sends(l, w, at)
  BY DEF InOrder
<1>8. Sends(m, w, at)
  BY <1>5, <1>6, <1>7 DEF Sends
<1>9. MarkedFirst(m)
  <2> SUFFICES ASSUME NEW i \in 1 .. Len(m), m[i].queued
               PROVE  m[i].left < 0 /\ \A j \in 1 .. i : m[j].queued
    BY DEF MarkedFirst
  <2>1. i \in Marked(l) /\ i \in 1 .. pos /\ m[i] = l[i]
    BY <1>3, <1>4
  <2>2. l[i].left < 0 /\ \A j \in 1 .. i : l[j].queued
    BY <2>1 DEF InOrder, MarkedFirst, Marked
  <2>3. \A j \in 1 .. i : m[j] = l[j]
    BY <1>3, <2>1
  <2> QED BY <2>1, <2>2, <2>3
<1>10. InOrder(m, w)
  BY <1>8, <1>9, InOrderBy
<1> QED BY <1>3, <1>10 DEF m

\* A packet is scheduled behind all that were posted.
LEMMA InOrderSchedule ==
  ASSUME NEW l \in Seq(Entry), NEW w, InOrder(l, w), NEW p \in Packets, NEW delay \in Nat
  PROVE  InOrder(Schedule(l, p, delay), w) /\ Schedule(l, p, delay) \in Seq(Entry)
<1> DEFINE Fits(n) == /\ \A i \in 2 .. n : l[i].left <= delay
                      /\ n < Len(l) => l[n + 1].left > delay
           pos == IF l = <<>> \/ l[1].left > delay THEN 0
                  ELSE CHOOSE n \in 1 .. Len(l) : Fits(n)
           e == [packet |-> p, left |-> delay, queued |-> FALSE]
           m == Schedule(l, p, delay)
<1>1. m = Insert(l, pos, e)
  BY DEF Schedule, Insert
<1>2. /\ Len(l) \in Nat /\ \A i \in 1 .. Len(l) : l[i] \in Entry /\ l[i].left \in Int
      /\ l = <<>> <=> Len(l) = 0
  <2>1. \A i \in 1 .. Len(l) : l[i] \in Entry
    BY ElementOfSeq
  <2>2. Len(l) \in Nat /\ (l = <<>> <=> Len(l) = 0)
    BY LenProperties, EmptySeq
  <2> QED BY <2>1, <2>2 DEF Entry
<1>3. \A i \in Marked(l) : i \in 1 .. Len(l) /\ l[i].left < 0 /\ \A j \in 1 .. i : l[j].left < 0
  BY <1>2 DEF InOrder, MarkedFirst, Marked
<1>4. pos \in 0 .. Len(l) /\ \A i \in Marked(l) : i <= pos
  <2>1. CASE l = <<>> \/ l[1].left > delay
    <3>1. Marked(l) = {}
      <4> SUFFICES ASSUME NEW i \in Marked(l) PROVE FALSE
        OBVIOUS
      <4>1. i \in 1 .. Len(l) /\ 1 \in 1 .. i /\ l[1].left < 0 /\ 1 \in 1 .. Len(l)
        BY <1>2, <1>3
      <4> QED BY <1>2, <2>1, <4>1
    <3>2. pos = 0
      BY <2>1
    <3> HIDE DEF pos
    <3> QED BY <1>2, <3>1, <3>2
  <2>2. CASE ~(l = <<>> \/ l[1].left > delay)
    <3> DEFINE Fitting == {n \in 1 .. Len(l) : n < Len(l) => l[n + 1].left > delay}
    <3>1. Fitting \in SUBSET Nat /\ Len(l) \in Fitting
      BY <1>2, <2>2
    <3>2. PICK n \in Fitting : \A k \in Fitting : n <= k
      <4> HIDE DEF Fitting
      <4> QED BY <3>1, Smallest
    <3>3. ASSUME NEW i \in 2 .. n PROVE l[i].left <= delay
      <4>1. i - 1 \in 1 .. Len(l) /\ i - 1 < n /\ i - 1 < Len(l) /\ (i - 1) + 1 = i
        BY <1>2, <3>2
      <4>2. i - 1 \notin Fitting
        BY <3>2, <4>1
      <4>3. ~(l[i].left > delay) /\ i \in 1 .. Len(l)
        BY <1>2, <4>1, <4>2
      <4> QED BY <1>2, <4>3
    <3>4. n \in 1 .. Len(l) /\ Fits(n)
      BY <3>2, <3>3
    <3>5. pos = CHOOSE k \in 1 .. Len(l) : Fits(k)
      BY <2>2
    <3>6. pos \in 1 .. Len(l) /\ Fits(pos)
      <4> HIDE DEF Fits, pos
      <4> QED BY <3>4, <3>5
    <3> HIDE DEF pos
    <3>7. ASSUME NEW i \in Marked(l) PROVE i <= pos
      <4> SUFFICES ASSUME ~(i <= pos) PROVE FALSE
        OBVIOUS
      <4>1. i \in 1 .. Len(l) /\ pos + 1 \in 1 .. i /\ pos + 1 \in 1 .. Len(l) /\ pos < Len(l)
        BY <1>2, <1>3, <3>6
      <4>2. l[pos + 1].left < 0 /\ l[pos + 1].left > delay
        BY <1>3, <3>6, <4>1
      <4> QED BY <1>2, <4>1, <4>2
    <3> QED BY <3>6, <3>7
  <2> QED BY <2>1, <2>2
<1> HIDE DEF pos
<1>5. e \in Entry /\ ~e.queued
  BY DEF Entry
<1> HIDE DEF e
<1> QED BY <1>1, <1>4, <1>5, InOrderInsert

\* Packets are taken out of the list.
LEMMA InOrderWithout ==
  ASSUME NEW l \in Seq(Entry), NEW w, InOrder(l, w), NEW S
  PROVE  InOrder(Without(l, S), w) /\ Without(l, S) \in Seq(Entry)
<1> DEFINE m == Without(l, S)
<1>1. m \in Seq(Entry)
  BY WithoutPlaces
<1>2. PICK e : Places(m, l, S, Len(l), e)
  BY WithoutPlaces
<1> HIDE DEF m
<1>3. /\ \A i \in 1 .. Len(m) : e[i] \in 1 .. Len(l) /\ m[i] = l[e[i]]
      /\ \A i, j \in 1 .. Len(m) : i < j => e[i] < e[j]
      /\ Len(l) \in Nat /\ Len(m) \in Nat
  BY <1>1, <1>2, LenProperties DEF Places
<1>4. PICK at : Sends(l, w, at)
  BY DEF InOrder
<1> DEFINE to == [i \in Marked(m) |-> at[e[i]]]
<1>5. \A i \in Marked(m) : i \in 1 .. Len(m) /\ e[i] \in Marked(l) /\ m[i] = l[e[i]]
  BY <1>3 DEF Marked
<1>6. Sends(m, w, to)
  <2>1. \A i \in Marked(m) : to[i] = at[e[i]]
    OBVIOUS
  <2> HIDE DEF to
  <2>2. \A i \in Marked(m) : /\ to[i] \in 1 .. Len(w)
                             /\ w[to[i]] = [type |-> "TX", of |-> m[i].packet]
    BY <1>4, <1>5, <2>1 DEF Sends
  <2>3. \A i, j \in Marked(m) : i < j => to[i] < to[j]
    BY <1>3, <1>4, <1>5, <2>1 DEF Sends
  <2> QED BY <2>2, <2>3 DEF Sends
<1> HIDE DEF to
<1>7. MarkedFirst(m)
  <2> SUFFICES ASSUME NEW i \in 1 .. Len(m), m[i].queued
               PROVE  m[i].left < 0 /\ \A j \in 1 .. i : m[j].queued
    BY DEF MarkedFirst
  <2>1. l[e[i]].left < 0 /\ \A k \in 1 .. e[i] : l[k].queued
    BY <1>3 DEF InOrder, MarkedFirst
  <2>2. ASSUME NEW j \in 1 .. i PROVE m[j].queued
    <3>1. j \in 1 .. Len(m) /\ (j = i \/ j < i)
      BY <1>3
    <3>2. e[j] \in 1 .. e[i]
      BY <1>3, <3>1
    <3> QED BY <1>3, <2>1, <3>1, <3>2
  <2> QED BY <1>3, <2>1, <2>2
<1>8. InOrder(m, w)
  BY <1>6, <1>7, InOrderBy
<1> QED BY <1>1, <1>8 DEF m

----------------------------------------------------------------------------
(* What the rounds of _mdns_search_run do together                           *)

\* One more round, as a function of the rounds before.
RoundsStep(again, g, n) ==
  IF n = 0 THEN [queue |-> queue, search |-> search]
  ELSE SearchRound(g[n - 1], searches[n], searches[n] \in again)

\* The recursion has a solution on every initial part of the list.
LEMMA RoundsExist ==
  ASSUME TypeOK, NEW again
  PROVE  \E g : g = [n \in 0 .. Len(searches) |-> RoundsStep(again, g, n)]
<1> DEFINE T == {m \in Nat : \E g : g = [n \in 0 .. m |-> RoundsStep(again, g, n)]}
           N == Len(searches)
<1>1. N \in Nat
  BY LenProperties DEF TypeOK
<1>2. 0 \in T
  <2> DEFINE g == [n \in 0 .. 0 |-> [queue |-> queue, search |-> search]]
  <2>1. g = [n \in 0 .. 0 |-> RoundsStep(again, g, n)]
    BY DEF RoundsStep
  <2> QED BY <2>1
<1>3. ASSUME NEW m \in 1 .. N, m - 1 \in T PROVE m \in T
  <2>1. PICK g : g = [n \in 0 .. m - 1 |-> RoundsStep(again, g, n)]
    BY <1>3
  <2> DEFINE h == [n \in 0 .. m |-> IF n = m THEN RoundsStep(again, g, m) ELSE g[n]]
  <2>2. ASSUME NEW n \in 0 .. m PROVE h[n] = RoundsStep(again, h, n)
    <3>1. CASE n = m
      <4>1. h[n] = RoundsStep(again, g, m) /\ h[m - 1] = g[m - 1]
        BY <3>1
      <4> QED BY <3>1, <4>1 DEF RoundsStep
    <3>2. CASE n # m
      <4>1. n \in 0 .. m - 1
        BY <3>2
      <4>2. h[n] = g[n] /\ g[n] = RoundsStep(again, g, n)
        BY <2>1, <3>2, <4>1
      <4>3. n # 0 => h[n - 1] = g[n - 1]
        BY <4>1
      <4> QED BY <4>2, <4>3 DEF RoundsStep
    <3> QED BY <3>1, <3>2
  <2>3. h = [n \in 0 .. m |-> RoundsStep(again, h, n)]
    BY <2>2
  <2> HIDE DEF h
  <2> QED BY <2>3
<1> HIDE DEF T, N
<1>4. 0 .. N \subseteq T
  BY <1>1, <1>2, <1>3, InductionTo
<1>5. N \in T
  BY <1>1, <1>4
<1> QED BY <1>5 DEF T, N

\* So Rounds is what its definition says.
LEMMA RoundsRecursion ==
  ASSUME TypeOK, NEW again
  PROVE  /\ Rounds(again)[0] = [queue |-> queue, search |-> search]
         /\ \A n \in 1 .. Len(searches) :
              Rounds(again)[n] = SearchRound(Rounds(again)[n - 1], searches[n],
                                             searches[n] \in again)
<1> DEFINE rounds == Rounds(again)
           N == Len(searches)
<1>1. rounds = CHOOSE g : g = [n \in 0 .. N |-> RoundsStep(again, g, n)]
  BY DEF Rounds, RoundsStep
<1>2. PICK g : g = [n \in 0 .. N |-> RoundsStep(again, g, n)]
  BY RoundsExist
<1>3. rounds = [n \in 0 .. N |-> RoundsStep(again, rounds, n)]
  BY <1>1, <1>2
<1>4. N \in Nat
  BY LenProperties DEF TypeOK
<1> HIDE DEF rounds, N
<1>5. \A n \in 0 .. N : rounds[n] = RoundsStep(again, rounds, n)
  BY <1>3
<1>6. rounds[0] = RoundsStep(again, rounds, 0)
  BY <1>4, <1>5
<1>7. \A n \in 1 .. N : n \in 0 .. N /\ n # 0
  BY <1>4
<1>8. /\ rounds[0] = [queue |-> queue, search |-> search]
      /\ \A n \in 1 .. N : rounds[n] = SearchRound(rounds[n - 1], searches[n],
                                                   searches[n] \in again)
  BY <1>5, <1>6, <1>7 DEF RoundsStep
<1> QED BY <1>8 DEF rounds, N

SearchType == [state : {"OFF", "INIT", "RUNNING"}, results : Nat, left : Int]

\* The queue p has become longer, the searches s have other states; of those that were
\* off, or are not in the list, none has.
Searched(p, s) ==
  /\ Extends(queue, p) /\ Len(p) <= QueueLen
  /\ s \in [Queries -> SearchType]
  /\ \A q \in Queries :
       /\ s[q].results = search[q].results /\ s[q].left = search[q].left
       /\ search[q].state = "OFF" \/ q \notin Listed => s[q].state = search[q].state

\* What was posted is about searches in the list; those that are told to end were active,
\* their time is over and they are off now.
Asked(p, s) ==
  \A k \in Len(queue) + 1 .. Len(p) :
    /\ p[k].type \in {"SEND", "END"} /\ p[k].of \in Listed
    /\ p[k].type = "END" => /\ search[p[k].of].left < 0 /\ search[p[k].of].state # "OFF"
                            /\ s[p[k].of].state = "OFF"

\* None is told twice.
EndsOnce(p) ==
  \A k, l \in Len(queue) + 1 .. Len(p) : p[k].type = "END" /\ p[k] = p[l] => k = l

\* None is off without being told.
Told(p, s) ==
  \A q \in Queries :
    search[q].state # "OFF" /\ s[q].state = "OFF" => HasIn(p, "END", q)

Round(p, s) == Searched(p, s) /\ Asked(p, s) /\ EndsOnce(p) /\ Told(p, s)

Put(p, type, q) == Append(p, [type |-> type, of |-> q])
To(s, q, state) == [s EXCEPT ![q].state = state]

\* A search goes to another state, after something was posted for it or not.
LEMMA RoundTo ==
  ASSUME TypeOK, NEW p, NEW s, Round(p, s),
         NEW q \in Listed, s[q].state # "OFF", NEW r, NEW state,
         \/ r = p /\ state = "RUNNING"
         \/ /\ Len(p) < QueueLen /\ r = Put(p, "SEND", q)
            /\ state = "RUNNING"
         \/ /\ Len(p) < QueueLen /\ r = Put(p, "END", q)
            /\ state = "OFF" /\ search[q].left < 0,
         NEW t, t = To(s, q, state)
  PROVE  Round(r, t)
<1> SUFFICES ASSUME Searched(p, s), Asked(p, s), EndsOnce(p), Told(p, s)
             PROVE  Searched(r, t) /\ Asked(r, t) /\ EndsOnce(r) /\ Told(r, t)
  BY DEF Round
<1>1. /\ q \in Queries /\ Listed \subseteq Queries /\ state \in {"OFF", "RUNNING"}
      /\ Len(queue) \in Nat /\ QueueLen \in Nat
  BY LimitsAssumption, LenProperties DEF TypeOK, Listed, ToSet
<1>2. p \in Seq(Action) /\ Len(p) \in Nat /\ Len(queue) <= Len(p) /\ Len(p) <= QueueLen
  BY LenProperties DEF Searched, Extends
<1>3. s[q] \in SearchType /\ search[q].state # "OFF"
  BY <1>1 DEF Searched
<1>4. /\ t \in [Queries -> SearchType]
      /\ t[q].state = state /\ t[q].results = s[q].results /\ t[q].left = s[q].left
      /\ \A x \in Queries \ {q} : t[x] = s[x]
  <2>1. [s[q] EXCEPT !.state = state] \in SearchType
    BY <1>1, <1>3 DEF SearchType
  <2>2. t = [s EXCEPT ![q] = [s[q] EXCEPT !.state = state]]
    BY DEF To
  <2>3. t \in [Queries -> SearchType]
    BY <2>1, <2>2 DEF Searched
  <2>4. t[q] = [s[q] EXCEPT !.state = state] /\ \A x \in Queries \ {q} : t[x] = s[x]
    BY <1>1, <2>2 DEF Searched
  <2> QED BY <1>3, <2>3, <2>4 DEF SearchType
<1>5. \/ r = p /\ state = "RUNNING"
      \/ \E a \in Action : /\ a.type \in {"SEND", "END"} /\ a.of = q /\ r = Append(p, a)
                           /\ Len(p) < QueueLen
                           /\ a.type = "END" <=> state = "OFF"
                           /\ a.type = "END" => search[q].left < 0
  <2>1. \A type \in {"SEND", "END"} : [type |-> type, of |-> q] \in Action
    BY <1>1 DEF Action
  <2> DEFINE a == [type |-> "SEND", of |-> q]
             b == [type |-> "END", of |-> q]
  <2>2. a \in Action /\ b \in Action
    BY <2>1
  <2>3. a.type = "SEND" /\ a.of = q /\ b.type = "END" /\ b.of = q
    OBVIOUS
  <2>4. (r = p /\ state = "RUNNING")
          \/ (Len(p) < QueueLen /\ r = Append(p, a) /\ state = "RUNNING")
          \/ (Len(p) < QueueLen /\ r = Append(p, b) /\ state = "OFF" /\ search[q].left < 0)
    BY DEF Put
  <2> HIDE DEF a, b
  <2> QED BY <2>2, <2>3, <2>4
<1>6. CASE r = p /\ state = "RUNNING"
  <2>1. Searched(r, t)
    BY <1>1, <1>3, <1>4, <1>6 DEF Searched
  <2>2. Asked(r, t)
    BY <1>1, <1>4, <1>6 DEF Asked
  <2>3. Told(r, t)
    BY <1>4, <1>6 DEF Told
  <2> QED BY <1>6, <2>1, <2>2, <2>3
<1>7. ASSUME NEW a \in Action, a.type \in {"SEND", "END"}, a.of = q, r = Append(p, a),
             Len(p) < QueueLen, a.type = "END" <=> state = "OFF",
             a.type = "END" => search[q].left < 0
      PROVE  Searched(r, t) /\ Asked(r, t) /\ EndsOnce(r) /\ Told(r, t)
  <2>1. /\ r \in Seq(Action) /\ Len(r) = Len(p) + 1 /\ r[Len(p) + 1] = a
        /\ \A k \in 1 .. Len(p) : r[k] = p[k]
    BY <1>2, <1>7, AppendProperties
  <2>2. Extends(queue, r) /\ Len(r) <= QueueLen
    <3>1. Len(queue) <= Len(r) /\ Len(r) <= QueueLen
      BY <1>1, <1>2, <1>7, <2>1
    <3>2. \A k \in 1 .. Len(queue) : r[k] = queue[k]
      BY <1>1, <1>2, <2>1 DEF Searched, Extends
    <3> QED BY <1>1, <2>1, <3>1, <3>2 DEF Extends
  <2>3. Searched(r, t)
    BY <1>1, <1>3, <1>4, <2>2 DEF Searched
  <2>4. \A k \in Len(queue) + 1 .. Len(r) :
          k = Len(p) + 1 \/ (k \in Len(queue) + 1 .. Len(p) /\ r[k] = p[k])
    BY <1>1, <1>2, <2>1
  <2>5. ASSUME NEW k \in Len(queue) + 1 .. Len(r)
        PROVE  /\ r[k].type \in {"SEND", "END"} /\ r[k].of \in Listed
               /\ r[k].type = "END" => /\ search[r[k].of].left < 0
                                       /\ search[r[k].of].state # "OFF"
                                       /\ t[r[k].of].state = "OFF"
    <3>1. CASE k = Len(p) + 1
      BY <1>3, <1>4, <1>7, <2>1, <3>1
    <3>2. CASE k \in Len(queue) + 1 .. Len(p) /\ r[k] = p[k]
      <4>1. /\ p[k].type \in {"SEND", "END"} /\ p[k].of \in Listed
            /\ p[k].type = "END" => /\ search[p[k].of].left < 0
                                    /\ search[p[k].of].state # "OFF"
                                    /\ s[p[k].of].state = "OFF"
        BY <3>2 DEF Asked
      <4> QED BY <1>1, <1>4, <3>2, <4>1
    <3> QED BY <2>4, <3>1, <3>2
  <2>6. Asked(r, t)
    BY <2>5 DEF Asked
  <2>7. \A k \in Len(queue) + 1 .. Len(p) : ~(p[k].type = "END" /\ p[k].of = q)
    BY DEF Asked
  <2>8. EndsOnce(r)
    <3> SUFFICES ASSUME NEW k \in Len(queue) + 1 .. Len(r), NEW l \in Len(queue) + 1 .. Len(r),
                        r[k].type = "END", r[k] = r[l]
                 PROVE  k = l
      BY DEF EndsOnce
    <3>1. CASE k = Len(p) + 1 \/ l = Len(p) + 1
      BY <1>7, <2>1, <2>4, <2>7, <3>1
    <3>2. CASE k # Len(p) + 1 /\ l # Len(p) + 1
      BY <2>4, <3>2 DEF EndsOnce
    <3> QED BY <3>1, <3>2
  <2>9. Told(r, t)
    <3> SUFFICES ASSUME NEW x \in Queries, search[x].state # "OFF", t[x].state = "OFF"
                 PROVE  HasIn(r, "END", x)
      BY DEF Told
    <3>1. CASE x = q
      <4>1. Len(p) + 1 \in 1 .. Len(r) /\ r[Len(p) + 1].type = "END" /\ r[Len(p) + 1].of = x
        BY <1>2, <1>4, <1>7, <2>1, <3>1
      <4> QED BY <4>1 DEF HasIn
    <3>2. CASE x # q
      <4>1. PICK k \in 1 .. Len(p) : p[k].type = "END" /\ p[k].of = x
        BY <1>4, <3>2 DEF Told, HasIn
      <4>2. k \in 1 .. Len(r) /\ r[k] = p[k]
        BY <1>2, <2>1, <4>1
      <4> QED BY <4>1, <4>2 DEF HasIn
    <3> QED BY <3>1, <3>2
  <2> QED BY <2>3, <2>6, <2>8, <2>9
<1> QED BY <1>5, <1>6, <1>7

\* Every round keeps this.
LEMMA RoundKeeps ==
  ASSUME TypeOK, NEW st, Round(st.queue, st.search), NEW q \in Listed, NEW again \in BOOLEAN
  PROVE  Round(SearchRound(st, q, again).queue, SearchRound(st, q, again).search)
<1> DEFINE p == st.queue
           s == st.search
           room == Len(p) < QueueLen
           next == SearchRound(st, q, again)
           over == search[q].left < 0
<1>1. CASE s[q].state = "OFF" \/ ~(over \/ s[q].state = "INIT" \/ again)
  <2>1. next = st
    BY <1>1 DEF SearchRound, Expired, Put, To
  <2> QED BY <2>1
<1>2. CASE s[q].state # "OFF" /\ over
  <2>1. next = [queue |-> IF room THEN Put(p, "END", q) ELSE p,
                search |-> To(s, q, IF room THEN "OFF" ELSE "RUNNING")]
    BY <1>2 DEF SearchRound, Expired, Put, To
  <2>2. /\ next.queue = IF room THEN Put(p, "END", q) ELSE p
        /\ next.search = To(s, q, IF room THEN "OFF" ELSE "RUNNING")
    BY <2>1
  <2> HIDE DEF next
  <2>3. CASE room
    <3>1. /\ next.queue = Put(p, "END", q)
          /\ next.search = To(s, q, "OFF")
      BY <2>2, <2>3
    <3>2. Round(next.queue, next.search)
      BY <1>2, <2>3, <3>1, RoundTo
    <3> QED BY <3>2 DEF next
  <2>4. CASE ~room
    <3>1. next.queue = p /\ next.search = To(s, q, "RUNNING")
      BY <2>2, <2>4
    <3>2. Round(next.queue, next.search)
      BY <1>2, <3>1, RoundTo
    <3> QED BY <3>2 DEF next
  <2> QED BY <2>3, <2>4
<1>3. CASE s[q].state # "OFF" /\ ~over /\ (s[q].state = "INIT" \/ again)
  <2>1. next = [queue |-> IF room THEN Put(p, "SEND", q) ELSE p,
                search |-> To(s, q, "RUNNING")]
    BY <1>3 DEF SearchRound, Expired, Put, To
  <2>2. /\ next.queue = IF room THEN Put(p, "SEND", q) ELSE p
        /\ next.search = To(s, q, "RUNNING")
    BY <2>1
  <2> HIDE DEF next
  <2>3. CASE room
    <3>1. next.queue = Put(p, "SEND", q)
      BY <2>2, <2>3
    <3>2. Round(next.queue, next.search)
      BY <1>3, <2>2, <2>3, <3>1, RoundTo
    <3> QED BY <3>2 DEF next
  <2>4. CASE ~room
    <3>1. next.queue = p
      BY <2>2, <2>4
    <3>2. Round(next.queue, next.search)
      BY <1>3, <2>2, <3>1, RoundTo
    <3> QED BY <3>2 DEF next
  <2> QED BY <2>3, <2>4
<1> QED BY <1>1, <1>2, <1>3

\* So do all of them.
LEMMA RoundsKeep ==
  ASSUME TypeOK, NEW again
  PROVE  Round(Rounds(again)[Len(searches)].queue, Rounds(again)[Len(searches)].search)
<1> DEFINE rounds == Rounds(again)
           N == Len(searches)
           T == {n \in 0 .. N : Round(rounds[n].queue, rounds[n].search)}
<1>1. N \in Nat
  BY LenProperties DEF TypeOK
<1>2. /\ rounds[0] = [queue |-> queue, search |-> search]
      /\ \A n \in 1 .. N : rounds[n] = SearchRound(rounds[n - 1], searches[n],
                                                   searches[n] \in again)
  BY RoundsRecursion
<1> HIDE DEF rounds
<1>3. 0 \in T
  <2>1. rounds[0].queue = queue /\ rounds[0].search = search
    BY <1>2
  <2>2. Len(queue) \in Nat /\ queue \in Seq(Action)
    BY LenProperties DEF TypeOK
  <2>3. Searched(queue, search)
    BY <2>2 DEF Searched, Extends, TypeOK, SearchType
  <2>4. Asked(queue, search) /\ EndsOnce(queue) /\ Told(queue, search)
    BY <2>2 DEF Asked, EndsOnce, Told
  <2>5. Round(rounds[0].queue, rounds[0].search)
    BY <2>1, <2>3, <2>4 DEF Round
  <2> QED BY <1>1, <2>5
<1>4. ASSUME NEW n \in 1 .. N, n - 1 \in T PROVE n \in T
  <2>1. searches[n] \in Listed
    <3>1. searches \in Seq(Queries) /\ n \in 1 .. Len(searches)
      BY DEF TypeOK
    <3> QED BY <3>1 DEF Listed, ToSet
  <2>2. (searches[n] \in again) \in BOOLEAN
    OBVIOUS
  <2>3. Round(rounds[n - 1].queue, rounds[n - 1].search)
    BY <1>4
  <2>4. Round(rounds[n].queue, rounds[n].search)
    BY <1>2, <2>1, <2>2, <2>3, RoundKeeps
  <2>5. n \in 0 .. N
    BY <1>1
  <2> QED BY <2>4, <2>5
<1>5. 0 .. N \subseteq T
  <2> HIDE DEF T, N
  <2> QED BY <1>1, <1>3, <1>4, InductionTo
<1>6. N \in T
  BY <1>1, <1>5
<1> QED BY <1>6 DEF rounds

----------------------------------------------------------------------------
(* What a step does to the searches that come                                *)

\* What the longer list has.
LEMMA GrowsHas ==
  ASSUME NEW w, NEW v, NEW a, Grows(w, v, a), NEW type, NEW q
  PROVE  HasIn(v, type, q) <=> (HasIn(w, type, q) \/ (a.type = type /\ a.of = q))
<1>1. /\ Len(w) \in Nat /\ Len(v) = Len(w) + 1 /\ v[Len(w) + 1] = a
      /\ \A k \in 1 .. Len(w) : v[k] = w[k]
  BY DEF Grows
<1>2. /\ \A k \in 1 .. Len(v) : k \in 1 .. Len(w) \/ k = Len(w) + 1
      /\ \A k \in 1 .. Len(w) : k \in 1 .. Len(v)
      /\ Len(w) + 1 \in 1 .. Len(v)
  BY <1>1
<1> QED BY <1>1, <1>2 DEF HasIn

\* It has a search still only once if the new action is not there already.
LEMMA GrowsOnce ==
  ASSUME NEW w, NEW v, NEW a, Grows(w, v, a), Once(w),
         a.type \in {"ADD", "END"} => ~HasIn(w, a.type, a.of)
  PROVE  Once(v)
<1>1. /\ Len(w) \in Nat /\ Len(v) = Len(w) + 1 /\ v[Len(w) + 1] = a
      /\ \A k \in 1 .. Len(w) : v[k] = w[k]
  BY DEF Grows
<1>2. \A k \in 1 .. Len(v) : k \in 1 .. Len(w) \/ k = Len(w) + 1
  BY <1>1
<1>3. a.type \in {"ADD", "END"} => \A k \in 1 .. Len(w) : w[k] # a
  BY DEF HasIn
<1> SUFFICES ASSUME NEW k \in 1 .. Len(v), NEW l \in 1 .. Len(v),
                    v[k].type \in {"ADD", "END"}, v[k] = v[l]
             PROVE  k = l
  BY DEF Once
<1>4. CASE k \in 1 .. Len(w) /\ l \in 1 .. Len(w)
  BY <1>1, <1>4 DEF Once
<1>5. CASE k = Len(w) + 1 \/ l = Len(w) + 1
  BY <1>1, <1>2, <1>3, <1>5
<1> QED BY <1>2, <1>4, <1>5

\* What the shorter list has.
LEMMA ShrinksHas ==
  ASSUME NEW w, NEW v, Shrinks(w, v), NEW type, NEW q
  PROVE  HasIn(w, type, q) <=> (HasIn(v, type, q) \/ (w[1].type = type /\ w[1].of = q))
<1>1. Len(v) \in Nat /\ Len(w) = Len(v) + 1 /\ \A k \in 1 .. Len(v) : v[k] = w[k + 1]
  BY DEF Shrinks
<1>2. /\ \A k \in 1 .. Len(w) : k = 1 \/ (k - 1 \in 1 .. Len(v) /\ v[k - 1] = w[k])
      /\ \A k \in 1 .. Len(v) : k + 1 \in 1 .. Len(w)
      /\ 1 \in 1 .. Len(w)
  <2>1. ASSUME NEW k \in 1 .. Len(w), k # 1 PROVE k - 1 \in 1 .. Len(v) /\ v[k - 1] = w[k]
    <3>1. k - 1 \in 1 .. Len(v) /\ (k - 1) + 1 = k
      BY <1>1, <2>1
    <3> QED BY <1>1, <3>1
  <2> QED BY <1>1, <2>1
<1> QED BY <1>1, <1>2, ZenonT(40) DEF HasIn

\* What was to be executed once is not to be executed again.
LEMMA ShrinksOnce ==
  ASSUME NEW w, NEW v, Shrinks(w, v), Once(w), w[1] \in Action
  PROVE  /\ Once(v)
         /\ w[1].type \in {"ADD", "END"} => ~HasIn(v, w[1].type, w[1].of)
<1>1. /\ v \in Seq(Action) /\ Len(v) \in Nat /\ Len(w) = Len(v) + 1
      /\ \A k \in 1 .. Len(v) : v[k] = w[k + 1]
  BY DEF Shrinks
<1>2. \A k \in 1 .. Len(v) : k + 1 \in 1 .. Len(w) /\ k + 1 # 1
  BY <1>1
<1>3. Once(v)
  <2> SUFFICES ASSUME NEW k \in 1 .. Len(v), NEW l \in 1 .. Len(v),
                      v[k].type \in {"ADD", "END"}, v[k] = v[l]
               PROVE  k = l
    BY DEF Once
  <2>1. k + 1 = l + 1
    BY <1>1, <1>2 DEF Once
  <2> QED BY <2>1
<1>4. ASSUME w[1].type \in {"ADD", "END"}, HasIn(v, w[1].type, w[1].of) PROVE FALSE
  <2>1. PICK k \in 1 .. Len(v) : v[k].type = w[1].type /\ v[k].of = w[1].of
    BY <1>4 DEF HasIn
  <2>2. v[k] \in Action
    BY <1>1, ElementOfSeq
  <2>3. v[k] = w[1]
    BY <2>1, <2>2, ActionFacts
  <2>4. w[k + 1] = w[1] /\ k + 1 \in 1 .. Len(w) /\ 1 \in 1 .. Len(w) /\ k + 1 # 1
    BY <1>1, <1>2, <2>3
  <2> QED BY <1>4, <2>4 DEF Once
<1> QED BY <1>3, <1>4

\* An action that comes behind does not disturb the order.
LEMMA GrowsOrder ==
  ASSUME NEW l, NEW w, NEW v, NEW a, InOrder(l, w), Grows(w, v, a)
  PROVE  InOrder(l, v)
<1>1. /\ Len(w) \in Nat /\ Len(v) \in Nat /\ Len(w) <= Len(v)
      /\ \A k \in 1 .. Len(w) : v[k] = w[k]
  BY DEF Grows
<1> QED BY <1>1, InOrderExtends

\* Posting fits the type of the queue.
LEMMA PostType ==
  ASSUME TypeOK, HasRoom, NEW a \in Action, queue' = Append(queue, a)
  PROVE  queue' \in Seq(Action) /\ Len(queue') <= QueueLen
<1>1. queue' \in Seq(Action) /\ Len(queue') = Len(queue) + 1 /\ Len(queue) \in Nat
  BY AppendProperties, LenProperties DEF TypeOK
<1> QED BY <1>1, LimitsAssumption DEF HasRoom

\* Nothing is posted, taken or executed.
LEMMA SameToExecute ==
  ASSUME queue' = queue, current' = current
  PROVE  ToExecute' = ToExecute
  BY DEF ToExecute

\* Nothing happens to the searches that would concern those who end or add them.
LEMMA SearchStill ==
  ASSUME SearchInv, Once(ToExecute'),
         \A q \in Queries, type \in {"ADD", "END"} :
           HasIn(ToExecute', type, q) <=> HasIn(ToExecute, type, q),
         Listed' = Listed, given' = given, app' = app, early' = early, twice' = twice,
         \A q \in Queries : /\ search'[q].state = search[q].state
                            /\ search[q].state = "OFF" => search'[q].left = search[q].left
  PROVE  SearchInv'
<1>1. OnceInv'
  BY DEF OnceInv
<1>2. AddInv'
  BY DEF SearchInv, AddInv, Comes
<1>3. EndInv'
  BY DEF SearchInv, EndInv, Comes
<1>4. KnownInv'
  BY DEF SearchInv, KnownInv, Known, Comes
<1> QED BY <1>1, <1>2, <1>3, <1>4 DEF SearchInv

\* Something is posted that neither adds nor ends a search, or nothing.
LEMMA PostStill ==
  ASSUME IInv, NEW a \in Action, a.type \in {"TX", "OTHER"},
         Grows(ToExecute, ToExecute', a), searches' = searches, search' = search,
         given' = given, app' = app, early' = early, twice' = twice
  PROVE  SearchInv'
<1>1. Once(ToExecute')
  BY GrowsOnce DEF IInv, SearchInv, OnceInv
<1>2. \A q \in Queries, type \in {"ADD", "END"} :
        HasIn(ToExecute', type, q) <=> HasIn(ToExecute, type, q)
  BY GrowsHas
<1>3. Listed' = Listed
  BY DEF Listed
<1> QED BY <1>1, <1>2, <1>3, SearchStill DEF IInv

\* Nothing happens to the actions, and nothing to the searches that would concern them.
LEMMA SameStill ==
  ASSUME IInv, ToExecute' = ToExecute, searches' = searches,
         given' = given, app' = app, early' = early, twice' = twice,
         \A q \in Queries : /\ search'[q].state = search[q].state
                            /\ search[q].state = "OFF" => search'[q].left = search[q].left
  PROVE  SearchInv'
<1>1. Listed' = Listed
  BY DEF Listed
<1> QED BY <1>1, SearchStill DEF IInv, SearchInv, OnceInv

\* Something is executed that neither adds nor ends a search.
LEMMA ExecuteStill ==
  ASSUME IInv, NEW type \in {"SEND", "TX", "OTHER"}, Execute(type),
         searches' = searches, search' = search, given' = given, twice' = twice
  PROVE  SearchInv'
<1>1. /\ Shrinks(ToExecute, ToExecute') /\ ToExecute[1] = current
      /\ current \in Action /\ current.type = type
  BY ExecuteShrinks DEF IInv
<1>2. Once(ToExecute')
  BY <1>1, ShrinksOnce DEF IInv, SearchInv, OnceInv
<1>3. \A q \in Queries, t \in {"ADD", "END"} :
        HasIn(ToExecute', t, q) <=> HasIn(ToExecute, t, q)
  BY <1>1, ShrinksHas
<1>4. Listed' = Listed /\ app' = app /\ early' = early
  BY DEF Listed, Execute
<1> QED BY <1>2, <1>3, <1>4, SearchStill DEF IInv

----------------------------------------------------------------------------
(* The steps of the applications                                             *)

\* What an idle query is not.
LEMMA IdleFacts ==
  ASSUME IInv, NEW q \in Queries, app[q] \in {"idle", "refused"}
  PROVE  /\ q \notin Listed /\ q \notin given
         /\ ~HasIn(ToExecute, "ADD", q) /\ ~HasIn(ToExecute, "END", q)
  BY DEF IInv, SearchInv, KnownInv, Known, Comes

\* A query is posted.
LEMMA QueryPosts ==
  ASSUME IInv, NEW q \in Queries, NEW next \in {"waiting", "held"}, HasRoom, Query(q, next)
  PROVE  IInv'
<1> DEFINE a == [type |-> "ADD", of |-> q]
           w == ToExecute
           v == ToExecute'
<1>1. /\ a \in Action /\ a.type = "ADD" /\ a.of = q
      /\ queue' = Append(queue, a) /\ current' = current /\ tx' = tx /\ app[q] = "idle"
      /\ search' = [search EXCEPT ![q] = NewSearch] /\ app' = [app EXCEPT ![q] = next]
      /\ searches' = searches /\ given' = given /\ early' = early /\ twice' = twice
      /\ inputs' = inputs
  BY DEF Query, Post, Action
<1> HIDE DEF a
<1>2. /\ queue' \in Seq(Action) /\ Len(queue') <= QueueLen
      /\ Grows(w, v, a)
  BY <1>1, PostType, PostGrows DEF IInv
<1> HIDE DEF w, v
<1>3. /\ q \notin Listed /\ q \notin given
      /\ ~HasIn(w, "ADD", q) /\ ~HasIn(w, "END", q)
  BY <1>1, IdleFacts DEF w
<1>4. \A type, x : HasIn(v, type, x) <=> HasIn(w, type, x) \/ (type = "ADD" /\ x = q)
  BY <1>1, <1>2, GrowsHas
<1>5. /\ search'[q].state = "INIT" /\ search'[q].results = 0
      /\ search' \in [Queries -> SearchType]
      /\ \A x \in Queries \ {q} : search'[x] = search[x]
  <2>1. NewSearch \in SearchType /\ NewSearch.state = "INIT" /\ NewSearch.results = 0
    BY LimitsAssumption DEF NewSearch, SearchType
  <2>2. search \in [Queries -> SearchType]
    BY DEF IInv, TypeOK, SearchType
  <2> QED BY <1>1, <2>1, <2>2
<1>6. TypeOK'
  <2>1. \A x \in Queries : MaxResults[x] > 0 => search'[x].results <= MaxResults[x]
    <3>1. MaxResults[q] \in Nat
      BY QueriesAssumption
    <3>2. \A x \in Queries : MaxResults[x] > 0 => search[x].results <= MaxResults[x]
      BY DEF IInv, TypeOK
    <3>3. MaxResults[q] > 0 => search'[q].results <= MaxResults[q]
      BY <1>5, <3>1
    <3> QED BY <1>5, <3>2, <3>3
  <2>2. app' \in [Queries -> Stages]
    BY <1>1 DEF IInv, TypeOK, Stages
  <2> QED BY <1>1, <1>2, <1>5, <2>1, <2>2 DEF IInv, TypeOK, SearchType
<1>7. TxInv'
  BY <1>1, <1>2, GrowsOrder DEF IInv, TxInv, v, w
<1>8. Listed' = Listed
  BY <1>1 DEF Listed
<1>9. Once(v)
  BY <1>1, <1>2, <1>3, GrowsOnce DEF IInv, SearchInv, OnceInv, w
<1>10. /\ \A x \in Queries : HasIn(w, "ADD", x) =>
              x \notin Listed /\ ~HasIn(w, "END", x) /\ search[x].state # "OFF"
       /\ \A x \in Queries : HasIn(w, "END", x) =>
              search[x].state = "OFF" /\ search[x].left < 0 /\ x \in Listed \cup twice
  BY DEF IInv, SearchInv, AddInv, EndInv, Comes, w
<1>11. AddInv'
  <2>1. \A x \in Queries : HasIn(v, "ADD", x) =>
              x \notin Listed /\ ~HasIn(v, "END", x) /\ search'[x].state # "OFF"
    BY <1>3, <1>4, <1>5, <1>10
  <2> QED BY <1>8, <2>1 DEF AddInv, Comes, v
<1>12. EndInv'
  <2>1. \A x \in Queries : HasIn(v, "END", x) =>
              search'[x].state = "OFF" /\ search'[x].left < 0 /\ x \in Listed \cup twice
    BY <1>3, <1>4, <1>5, <1>10
  <2> QED BY <1>1, <1>8, <2>1 DEF EndInv, Comes, v
<1>13. KnownInv'
  <2>1. \A x \in Queries \ {q} : Known(x)' <=> Known(x)
    BY <1>4, <1>8 DEF Known, Comes, v, w
  <2>2. app'[q] = next /\ \A x \in Queries \ {q} : app'[x] = app[x]
    BY <1>1 DEF IInv, TypeOK
  <2> SUFFICES ASSUME NEW x \in Queries
               PROVE  /\ Known(x)' \/ x \in given => app'[x] \notin {"idle", "refused"}
                      /\ Known(x)' /\ x \notin early \cup twice =>
                           app'[x] \in {"waiting", "held"} /\ x \notin given
    BY <1>1 DEF KnownInv
  <2>3. CASE x = q
    BY <1>3, <2>2, <2>3
  <2>4. CASE x # q
    BY <2>1, <2>2, <2>4 DEF IInv, SearchInv, KnownInv
  <2> QED BY <2>3, <2>4
<1> QED BY <1>6, <1>7, <1>9, <1>11, <1>12, <1>13 DEF IInv, SearchInv, OnceInv, v

\* It is refused.
LEMMA QueryRefused ==
  ASSUME IInv, NEW q \in Queries, NEW next, ~HasRoom, Query(q, next)
  PROVE  IInv'
<1>1. /\ queue' = queue /\ current' = current /\ tx' = tx /\ app[q] = "idle"
      /\ search' = search /\ app' = [app EXCEPT ![q] = "refused"]
      /\ searches' = searches /\ given' = given /\ early' = early /\ twice' = twice
      /\ inputs' = inputs
  BY DEF Query
<1>2. ToExecute' = ToExecute /\ Listed' = Listed
  BY <1>1, SameToExecute DEF Listed
<1>3. app'[q] = "refused" /\ \A x \in Queries \ {q} : app'[x] = app[x]
  BY <1>1 DEF IInv, TypeOK
<1>4. TypeOK'
  <2>1. app' \in [Queries -> Stages]
    BY <1>1 DEF IInv, TypeOK, Stages
  <2> QED BY <1>1, <2>1 DEF IInv, TypeOK
<1>5. TxInv'
  BY <1>1, <1>2 DEF IInv, TxInv
<1>6. OnceInv' /\ AddInv' /\ EndInv'
  BY <1>1, <1>2 DEF IInv, SearchInv, OnceInv, AddInv, EndInv, Comes
<1>7. KnownInv'
  <2>1. \A x \in Queries : Known(x)' <=> Known(x)
    BY <1>2 DEF Known, Comes
  <2>2. ~Known(q) /\ q \notin given
    BY <1>1, IdleFacts DEF Known, Comes
  <2> SUFFICES ASSUME NEW x \in Queries
               PROVE  /\ Known(x)' \/ x \in given => app'[x] \notin {"idle", "refused"}
                      /\ Known(x)' /\ x \notin early \cup twice =>
                           app'[x] \in {"waiting", "held"} /\ x \notin given
    BY <1>1 DEF KnownInv
  <2>3. CASE x = q
    BY <2>1, <2>2, <2>3
  <2>4. CASE x # q
    BY <1>3, <2>1, <2>4 DEF IInv, SearchInv, KnownInv
  <2> QED BY <2>3, <2>4
<1> QED BY <1>4, <1>5, <1>6, <1>7 DEF IInv, SearchInv

\* An application goes on with a query that the component does not know any more, or that
\* is one of those deleted too soon.
LEMMA GoesOn ==
  ASSUME IInv, NEW q \in Queries, NEW stage \in Stages \ {"idle", "refused"},
         app' = [app EXCEPT ![q] = stage],
         UNCHANGED <<queue, current, tx, searches, search, twice, inputs>>,
         given' \subseteq given, early \subseteq early', early' \subseteq early \cup {q},
         early' \subseteq Async, Known(q) => q \in early' \cup twice
  PROVE  IInv'
<1>1. ToExecute' = ToExecute /\ Listed' = Listed
  BY SameToExecute DEF Listed
<1>2. app'[q] = stage /\ \A x \in Queries \ {q} : app'[x] = app[x]
  BY DEF IInv, TypeOK
<1>3. TypeOK'
  <2>1. app' \in [Queries -> Stages]
    BY DEF IInv, TypeOK
  <2>2. given' \subseteq Queries
    BY DEF IInv, TypeOK
  <2> QED BY <2>1, <2>2 DEF IInv, TypeOK
<1>4. TxInv'
  BY <1>1 DEF IInv, TxInv
<1>5. OnceInv' /\ AddInv' /\ EndInv'
  BY <1>1 DEF IInv, SearchInv, OnceInv, AddInv, EndInv, Comes
<1>6. KnownInv'
  <2>1. \A x \in Queries : Known(x)' <=> Known(x)
    BY <1>1 DEF Known, Comes
  <2> SUFFICES ASSUME NEW x \in Queries
               PROVE  /\ Known(x)' \/ x \in given' => app'[x] \notin {"idle", "refused"}
                      /\ Known(x)' /\ x \notin early' \cup twice =>
                           app'[x] \in {"waiting", "held"} /\ x \notin given'
    BY DEF KnownInv
  <2>2. CASE x = q
    BY <1>2, <2>1, <2>2
  <2>3. CASE x # q
    BY <1>2, <2>1, <2>3 DEF IInv, SearchInv, KnownInv
  <2> QED BY <2>2, <2>3
<1> QED BY <1>3, <1>4, <1>5, <1>6 DEF IInv, SearchInv

\* Every step of an application keeps the invariant.
LEMMA ApplicationStep ==
  ASSUME IInv, NEW q \in Queries, Application(q)
  PROVE  IInv'
<1>1. CASE \E next \in {"waiting", "held"} : Query(q, next)
  BY <1>1, QueryPosts, QueryRefused
<1>2. /\ Known(q) /\ q \notin early \cup twice =>
           app[q] \in {"waiting", "held"} /\ q \notin given
      /\ early \subseteq Async
  BY DEF IInv, SearchInv, KnownInv, TypeOK
<1>3. CASE TakeDone(q)
  <2>1. Known(q) => q \in early \cup twice
    BY <1>2, <1>3 DEF TakeDone
  <2>2. "done" \in Stages \ {"idle", "refused"}
    BY DEF Stages
  <2> QED BY <1>2, <1>3, <2>1, <2>2, GoesOn DEF TakeDone
<1>4. CASE TestOff(q)
  <2>1. Known(q) => q \in early' \cup twice
    BY <1>2, <1>4 DEF TestOff
  <2>2. "deleting" \in Stages \ {"idle", "refused"}
    BY DEF Stages
  <2>3. early \subseteq early' /\ early' \subseteq early \cup {q} /\ early' \subseteq Async
    BY <1>2, <1>4 DEF TestOff
  <2> QED BY <1>4, <2>1, <2>2, <2>3, GoesOn DEF TestOff
<1>5. CASE Free(q)
  <2>1. Known(q) => q \in early \cup twice
    BY <1>2, <1>5 DEF Free
  <2>2. "freed" \in Stages \ {"idle", "refused"}
    BY DEF Stages
  <2> QED BY <1>2, <1>5, <2>1, <2>2, GoesOn DEF Free
<1> QED BY <1>1, <1>3, <1>4, <1>5
        DEF Application, QueryGeneric, QueryAsyncNew, QueryReturn, QueryAsyncGetResults

----------------------------------------------------------------------------
(* The steps of the timer                                                    *)

\* The first packet that is not marked is the first after all that are.
LEMMA SchedulerRunStep ==
  ASSUME IInv, SchedulerRun
  PROVE  IInv'
<1>1. tx \in Seq(Entry) /\ Len(tx) \in Nat /\ \A i \in 1 .. Len(tx) : tx[i] \in Entry
  BY LenProperties, ElementOfSeq DEF IInv, TypeOK
<1>2. CASE UNCHANGED <<tx, queue>>
  <2>1. ToExecute' = ToExecute /\ TypeOK'
    BY <1>2, SameToExecute DEF SchedulerRun, IInv, TypeOK
  <2>2. TxInv'
    BY <1>2, <2>1 DEF IInv, TxInv
  <2>3. SearchInv'
    BY <2>1, SameStill DEF SchedulerRun
  <2> QED BY <2>1, <2>2, <2>3 DEF IInv
<1>3. CASE Unqueued # {} /\ Overdue(tx[First]) /\ HasRoom
  <2> DEFINE n == First
             a == [type |-> "TX", of |-> tx[n].packet]
             m == [tx EXCEPT ![n].queued = TRUE]
  <2>1. n \in Unqueued /\ \A j \in Unqueued : n <= j
    <3>1. Unqueued \in SUBSET Nat /\ Unqueued # {}
      BY <1>3 DEF Unqueued
    <3>2. \E i \in Unqueued : \A j \in Unqueued : i <= j
      BY <3>1, Smallest
    <3> QED BY <3>2 DEF First
  <2>2. tx' = m /\ queue' = Append(queue, a)
    BY <1>3 DEF SchedulerRun, Post
  <2>3. tx[n].left < 0
    BY <1>3 DEF Overdue
  <2> HIDE DEF n
  <2>4. n \in 1 .. Len(tx) /\ ~tx[n].queued /\ \A i \in 1 .. Len(tx) : i < n => tx[i].queued
    BY <1>1, <2>1 DEF Unqueued
  <2>5. a \in Action /\ a.type = "TX"
    BY <1>1, <2>4 DEF Action, Entry
  <2>6. /\ current' = current /\ searches' = searches /\ search' = search
        /\ given' = given /\ app' = app /\ early' = early /\ twice' = twice /\ inputs' = inputs
    BY DEF SchedulerRun
  <2>7. Grows(ToExecute, ToExecute', a)
    BY <2>2, <2>5, <2>6, PostGrows DEF IInv
  <2>8. InOrder(m, ToExecute') /\ m \in Seq(Entry)
    BY <1>1, <2>3, <2>4, <2>7, InOrderPost DEF IInv, TxInv
  <2>9. queue' \in Seq(Action) /\ Len(queue') <= QueueLen
    BY <1>3, <2>2, <2>5, PostType DEF IInv
  <2>10. TypeOK' /\ TxInv'
    BY <2>2, <2>6, <2>8, <2>9 DEF IInv, TypeOK, TxInv
  <2>11. SearchInv'
    BY <2>5, <2>6, <2>7, PostStill
  <2> QED BY <2>10, <2>11 DEF IInv
<1> QED BY <1>2, <1>3 DEF SchedulerRun

\* The searches that are told to end are listed and active until then.
LEMMA SearchRunStep ==
  ASSUME IInv, SearchRun
  PROVE  IInv'
<1> DEFINE p == queue'
           s == search'
           w == ToExecute
           v == ToExecute'
           New == Len(queue) + 1 .. Len(p)
<1>1. /\ Searched(p, s) /\ Asked(p, s) /\ EndsOnce(p)
      /\ current' = current /\ tx' = tx /\ searches' = searches /\ given' = given
      /\ app' = app /\ early' = early /\ twice' = twice /\ inputs' = inputs
  <2>1. PICK again : LET st == Rounds(again)[Len(searches)]
                     IN  queue' = st.queue /\ search' = st.search
    BY DEF SearchRun
  <2>2. Round(p, s)
    BY <2>1, RoundsKeep DEF IInv
  <2> QED BY <2>2 DEF Round, SearchRun
<1>2. /\ Extends(queue, p) /\ Len(p) <= QueueLen /\ s \in [Queries -> SearchType]
      /\ \A q \in Queries :
           /\ s[q].results = search[q].results /\ s[q].left = search[q].left
           /\ search[q].state = "OFF" \/ q \notin Listed => s[q].state = search[q].state
  BY <1>1 DEF Searched
<1>3. /\ Extends(w, v)
      /\ \A k \in Len(w) + 1 .. Len(v) :
           \E l \in New : k - Len(w) = l - Len(queue) /\ v[k] = p[l]
  <2>1. queue \in Seq(Action) /\ current \in Action \cup {NoAction}
    BY DEF IInv, TypeOK
  <2>2. Extends(queue, queue')
    BY <1>2
  <2>3. /\ Extends(InHand(current, queue), InHand(current, queue'))
        /\ \A k \in Len(InHand(current, queue)) + 1 .. Len(InHand(current, queue')) :
             \E l \in Len(queue) + 1 .. Len(queue') :
               /\ k - Len(InHand(current, queue)) = l - Len(queue)
               /\ InHand(current, queue')[k] = queue'[l]
    BY <2>1, <2>2, InHandExtends
  <2>4. w = InHand(current, queue) /\ v = InHand(current, queue')
    BY <1>1, ToExecuteInHand
  <2> HIDE DEF w, v
  <2> QED BY <2>3, <2>4
<1>4. Len(queue) \in Nat /\ Listed \subseteq Queries
  BY LenProperties DEF IInv, TypeOK, Listed, ToSet
<1>5. TypeOK'
  <2>1. p \in Seq(Action)
    BY <1>2 DEF Extends
  <2>2. \A q \in Queries : MaxResults[q] > 0 => s[q].results <= MaxResults[q]
    BY <1>2 DEF IInv, TypeOK
  <2> QED BY <1>1, <1>2, <2>1, <2>2 DEF IInv, TypeOK, SearchType
<1> HIDE DEF w, v
<1>6. /\ v \in Seq(Action) /\ Len(w) \in Nat /\ Len(v) \in Nat /\ Len(w) <= Len(v)
      /\ \A k \in 1 .. Len(w) : v[k] = w[k]
  BY <1>3, LenProperties DEF Extends
<1>7. TxInv'
  <2>1. InOrder(tx, w)
    BY DEF IInv, TxInv, w
  <2>2. InOrder(tx, v)
    BY <1>6, <2>1, InOrderExtends
  <2> QED BY <1>1, <2>2 DEF TxInv, v
<1>8. \A l \in New : /\ p[l].type \in {"SEND", "END"} /\ p[l].of \in Listed
                     /\ p[l].type = "END" => /\ search[p[l].of].left < 0
                                             /\ search[p[l].of].state # "OFF"
                                             /\ s[p[l].of].state = "OFF"
  BY <1>1 DEF Asked
<1> HIDE DEF p, s, New
<1>9. ASSUME NEW k \in 1 .. Len(v)
      PROVE  \/ k \in 1 .. Len(w) /\ v[k] = w[k]
             \/ k \in Len(w) + 1 .. Len(v) /\ \E l \in New : v[k] = p[l]
  BY <1>3, <1>6
<1>10. ASSUME NEW q, NEW type \in {"ADD", "END"}
       PROVE  /\ HasIn(w, type, q) => HasIn(v, type, q)
              /\ HasIn(v, type, q) =>
                   \/ HasIn(w, type, q)
                   \/ /\ type = "END" /\ q \in Listed /\ search[q].left < 0
                      /\ search[q].state # "OFF" /\ s[q].state = "OFF"
  <2>1. \A k \in 1 .. Len(w) : k \in 1 .. Len(v) /\ v[k] = w[k]
    BY <1>6
  <2>2. HasIn(w, type, q) => HasIn(v, type, q)
    BY <2>1 DEF HasIn
  <2>3. ASSUME NEW k \in 1 .. Len(v), v[k].type = type, v[k].of = q, ~HasIn(w, type, q)
        PROVE  /\ type = "END" /\ q \in Listed /\ search[q].left < 0
               /\ search[q].state # "OFF" /\ s[q].state = "OFF"
    <3>1. \E l \in New : v[k] = p[l]
      BY <1>9, <2>3 DEF HasIn
    <3> QED BY <1>8, <2>3, <3>1
  <2> QED BY <2>2, <2>3 DEF HasIn
<1>11. /\ \A q \in Queries : HasIn(w, "ADD", q) =>
              q \notin Listed /\ ~HasIn(w, "END", q) /\ search[q].state # "OFF"
       /\ \A q \in Queries : HasIn(w, "END", q) =>
              search[q].state = "OFF" /\ search[q].left < 0 /\ q \in Listed \cup twice
       /\ Once(w)
  BY DEF IInv, SearchInv, AddInv, EndInv, OnceInv, Comes, w
<1>12. Once(v)
  <2>1. ASSUME NEW k \in 1 .. Len(w), NEW l \in Len(w) + 1 .. Len(v),
               v[k].type \in {"ADD", "END"}, v[k] = v[l]
        PROVE  FALSE
    <3>1. l \in 1 .. Len(v) /\ l \notin 1 .. Len(w)
      BY <1>6
    <3>2. PICK i \in New : v[l] = p[i]
      BY <1>9, <3>1
    <3>3. /\ v[l].type = "END" /\ v[l].of \in Queries
          /\ search[v[l].of].state # "OFF"
      BY <1>4, <1>8, <2>1, <3>2
    <3>4. HasIn(w, "END", v[l].of)
      BY <1>6, <2>1, <3>3 DEF HasIn
    <3> QED BY <1>11, <3>3, <3>4
  <2>2. ASSUME NEW k \in Len(w) + 1 .. Len(v), NEW l \in Len(w) + 1 .. Len(v),
               v[k].type \in {"ADD", "END"}, v[k] = v[l]
        PROVE  k = l
    <3>1. PICK i \in New : k - Len(w) = i - Len(queue) /\ v[k] = p[i]
      BY <1>3
    <3>2. PICK j \in New : l - Len(w) = j - Len(queue) /\ v[l] = p[j]
      BY <1>3
    <3>3. p[i].type = "END"
      BY <1>8, <2>2, <3>1
    <3>4. i = j
      BY <1>1, <2>2, <3>1, <3>2, <3>3 DEF EndsOnce, New
    <3> QED BY <1>4, <1>6, <3>1, <3>2, <3>4 DEF New
  <2> SUFFICES ASSUME NEW k \in 1 .. Len(v), NEW l \in 1 .. Len(v),
                      v[k].type \in {"ADD", "END"}, v[k] = v[l]
               PROVE  k = l
    BY DEF Once
  <2>3. CASE k \in 1 .. Len(w) /\ l \in 1 .. Len(w)
    BY <1>6, <1>11, <2>3 DEF Once
  <2>4. CASE k \in 1 .. Len(w) /\ l \notin 1 .. Len(w)
    BY <1>9, <2>1, <2>4
  <2>5. CASE k \notin 1 .. Len(w) /\ l \in 1 .. Len(w)
    BY <1>9, <2>1, <2>5
  <2>6. CASE k \notin 1 .. Len(w) /\ l \notin 1 .. Len(w)
    BY <1>9, <2>2, <2>6
  <2> QED BY <2>3, <2>4, <2>5, <2>6
<1>13. Listed' = Listed
  BY <1>1 DEF Listed
<1>14. AddInv'
  <2>1. \A q \in Queries : HasIn(v, "ADD", q) =>
              q \notin Listed /\ ~HasIn(v, "END", q) /\ s[q].state # "OFF"
    BY <1>2, <1>10, <1>11 DEF s
  <2> QED BY <1>13, <2>1 DEF AddInv, Comes, v, s
<1>15. EndInv'
  <2>1. \A q \in Queries : HasIn(v, "END", q) =>
              s[q].state = "OFF" /\ s[q].left < 0 /\ q \in Listed \cup twice
    BY <1>2, <1>10, <1>11 DEF s
  <2> QED BY <1>1, <1>13, <2>1 DEF EndInv, Comes, v, s
<1>16. KnownInv'
  <2>1. \A q \in Queries : Known(q)' <=> Known(q)
    BY <1>10, <1>13 DEF Known, Comes, v, w
  <2> QED BY <1>1, <2>1 DEF IInv, SearchInv, KnownInv
<1> QED BY <1>5, <1>7, <1>12, <1>14, <1>15, <1>16 DEF IInv, SearchInv, OnceInv, v

\* Time passes for packets and active searches; what was overdue stays so.
LEMMA TickStep ==
  ASSUME IInv, Tick
  PROVE  IInv'
<1>1. /\ queue' = queue /\ current' = current /\ searches' = searches /\ given' = given
      /\ app' = app /\ early' = early /\ twice' = twice /\ inputs' = inputs
  BY DEF Tick
<1>2. ToExecute' = ToExecute
  BY <1>1, SameToExecute
<1>3. /\ tx \in Seq(Entry) /\ Len(tx) \in Nat /\ \A i \in 1 .. Len(tx) : tx[i] \in Entry
      /\ search \in [Queries -> SearchType]
  BY LenProperties, ElementOfSeq DEF IInv, TypeOK, SearchType
<1>4. \A n \in Int : Passed(n) \in Int /\ (n < 0 => Passed(n) < 0)
  BY DEF Passed
<1>5. \A i \in 1 .. Len(tx) : tx'[i] = [tx[i] EXCEPT !.left = Passed(tx[i].left)]
  BY DEF Tick
<1>6. /\ \A i \in 1 .. Len(tx) : /\ tx'[i] \in Entry
                                 /\ tx'[i].packet = tx[i].packet /\ tx'[i].queued = tx[i].queued
                                 /\ tx[i].left < 0 => tx'[i].left < 0
  <2> SUFFICES ASSUME NEW i \in 1 .. Len(tx)
               PROVE  /\ tx'[i] \in Entry
                      /\ tx'[i].packet = tx[i].packet /\ tx'[i].queued = tx[i].queued
                      /\ tx[i].left < 0 => tx'[i].left < 0
    OBVIOUS
  <2>1. tx[i] \in Entry /\ tx[i].left \in Int
    BY <1>3 DEF Entry
  <2> QED BY <1>4, <1>5, <2>1 DEF Entry
<1>7. tx' \in Seq(Entry) /\ Len(tx') = Len(tx)
  <2>1. tx' \in [1 .. Len(tx) -> Entry]
    BY <1>6 DEF Tick
  <2>2. tx' \in Seq(Entry)
    BY <1>3, <2>1, SeqDef
  <2>3. DOMAIN tx' = 1 .. Len(tx)
    BY <2>1
  <2> QED BY <1>3, <2>2, <2>3, LenProperties
<1>8. \A q \in Queries :
        /\ search'[q] \in SearchType /\ search'[q].state = search[q].state
        /\ search'[q].results = search[q].results
        /\ search[q].state = "OFF" => search'[q].left = search[q].left
  <2> SUFFICES ASSUME NEW q \in Queries
               PROVE  /\ search'[q] \in SearchType /\ search'[q].state = search[q].state
                      /\ search'[q].results = search[q].results
                      /\ search[q].state = "OFF" => search'[q].left = search[q].left
    OBVIOUS
  <2>1. search[q] \in SearchType
    BY <1>3
  <2>2. search'[q] = IF search[q].state = "OFF" THEN search[q]
                     ELSE [search[q] EXCEPT !.left = Passed(search[q].left)]
    BY DEF Tick
  <2> QED BY <1>4, <2>1, <2>2 DEF SearchType
<1>9. search' \in [Queries -> SearchType]
  <2>1. search' = [q \in Queries |-> search'[q]]
    BY DEF Tick
  <2> QED BY <1>8, <2>1
<1>10. TypeOK'
  <2>1. \A q \in Queries : MaxResults[q] > 0 => search'[q].results <= MaxResults[q]
    BY <1>8 DEF IInv, TypeOK
  <2> QED BY <1>1, <1>7, <1>9, <2>1 DEF IInv, TypeOK, SearchType
<1>11. TxInv'
  BY <1>2, <1>6, <1>7, InOrderLater DEF IInv, TxInv
<1>12. SearchInv'
  BY <1>1, <1>2, <1>8, SameStill
<1> QED BY <1>10, <1>11, <1>12 DEF IInv

----------------------------------------------------------------------------
(* The steps of the service task                                             *)

\* An action is taken from the queue.
LEMMA ReceiveStep ==
  ASSUME IInv, Receive
  PROVE  IInv'
<1>1. /\ current = NoAction /\ queue # <<>> /\ current' = Head(queue) /\ queue' = Tail(queue)
      /\ tx' = tx /\ searches' = searches /\ search' = search /\ given' = given
      /\ app' = app /\ early' = early /\ twice' = twice /\ inputs' = inputs
  BY DEF Receive
<1>2. ToExecute' = ToExecute /\ current' \in Action /\ queue' \in Seq(Action)
  BY <1>1, ReceiveSame DEF IInv
<1>3. TypeOK'
  <2>1. queue \in Seq(Action) /\ Len(queue) \in Nat /\ Len(queue) <= QueueLen
    BY LenProperties DEF IInv, TypeOK
  <2>2. Len(queue') = Len(queue) - 1
    BY <1>1, <2>1, HeadTailProperties
  <2>3. Len(queue') <= QueueLen
    BY <2>1, <2>2, LimitsAssumption
  <2> QED BY <1>1, <1>2, <2>3 DEF IInv, TypeOK
<1>4. TxInv'
  BY <1>1, <1>2 DEF IInv, TxInv
<1>5. SearchInv'
  BY <1>1, <1>2, SameStill
<1> QED BY <1>3, <1>4, <1>5 DEF IInv

\* A search is taken out of the list and its semaphore given.
LEMMA FinishFacts ==
  ASSUME TypeOK, NEW S \in SUBSET Queries, Finish(S)
  PROVE  /\ searches' \in Seq(Queries) /\ Listed' = Listed \ S
         /\ given' = given \cup S /\ given' \subseteq Queries
<1>1. searches \in Seq(Queries) /\ given \subseteq Queries
  BY DEF TypeOK
<1> QED BY <1>1, WithoutPlaces, WithoutElements DEF Finish, Listed

\* The actions left when one was executed, and the packets if it was none of theirs.
LEMMA Executed ==
  ASSUME IInv, NEW type, Execute(type)
  PROVE  /\ queue' = queue /\ app' = app /\ early' = early /\ current' = NoAction
         /\ current \in Action /\ current.type = type
         /\ Shrinks(ToExecute, ToExecute') /\ ToExecute[1] = current
         /\ Once(ToExecute')
         /\ type \in {"ADD", "END"} => /\ HasIn(ToExecute, type, current.of)
                                       /\ ~HasIn(ToExecute', type, current.of)
         /\ \A t, q : HasIn(ToExecute', t, q) => HasIn(ToExecute, t, q)
         /\ type # "TX" => InOrder(tx, ToExecute')
<1>1. /\ Shrinks(ToExecute, ToExecute') /\ ToExecute[1] = current
      /\ current \in Action /\ current.type = type
  BY ExecuteShrinks DEF IInv
<1> DEFINE w == ToExecute
           v == ToExecute'
<1>2. Shrinks(w, v) /\ w[1] = current /\ InOrder(tx, w) /\ tx \in Seq(Entry) /\ Once(w)
  BY <1>1 DEF IInv, TypeOK, TxInv, SearchInv, OnceInv
<1> HIDE DEF w, v
<1>3. Once(v) /\ (type \in {"ADD", "END"} => ~HasIn(v, type, current.of))
  BY <1>1, <1>2, ShrinksOnce
<1>4. \A t, q : HasIn(w, t, q) <=> HasIn(v, t, q) \/ (current.type = t /\ current.of = q)
  BY <1>2, ShrinksHas
<1>5. ASSUME type # "TX" PROVE InOrder(tx, v)
  <2>1. w[1] # [type |-> "TX", of |-> tx[1].packet]
    BY <1>1, <1>2, <1>5
  <2> QED BY <1>2, <2>1, InOrderSkip
<1>6. queue' = queue /\ app' = app /\ early' = early /\ current' = NoAction
  BY DEF Execute
<1> QED BY <1>1, <1>3, <1>4, <1>5, <1>6 DEF w, v

\* What the invariant says of the actions to be executed.
LEMMA ComingFacts ==
  ASSUME IInv
  PROVE  /\ \A q \in Queries : HasIn(ToExecute, "ADD", q) =>
              /\ q \notin Listed /\ ~HasIn(ToExecute, "END", q) /\ search[q].state # "OFF"
         /\ \A q \in Queries : HasIn(ToExecute, "END", q) =>
              /\ search[q].state = "OFF" /\ search[q].left < 0 /\ q \in Listed \cup twice
  BY DEF IInv, SearchInv, AddInv, EndInv, Comes

\* A search in front of the list is one more.
\* The elements of a list, whatever its length.
LEMMA ElementsOf ==
  ASSUME NEW s \in Seq(Queries)
  PROVE  ToSet(s) = {s[k] : k \in 1 .. Len(s)}
BY LenProperties DEF ToSet

\* A search put in front of the list is the only one that is new in it.
LEMMA AddedListed ==
  ASSUME searches \in Seq(Queries), NEW q \in Queries, searches' = <<q>> \o searches
  PROVE  searches' \in Seq(Queries) /\ Listed' = Listed \cup {q}
<1>1. Len(searches) \in Nat
  BY LenProperties
<1>2. /\ searches' \in Seq(Queries) /\ Len(searches') = Len(searches) + 1
      /\ searches'[1] = q
      /\ \A k \in 1 .. Len(searches) : searches'[k + 1] = searches[k]
  BY InFront
<1>3. ASSUME NEW k \in 1 .. Len(searches')
      PROVE  k = 1 \/ \E l \in 1 .. Len(searches) : searches'[k] = searches[l]
  <2>1. k = 1 \/ (k - 1 \in 1 .. Len(searches) /\ (k - 1) + 1 = k)
    BY <1>1, <1>2
  <2> QED BY <1>2, <2>1
<1>4. 1 \in 1 .. Len(searches') /\ \A k \in 1 .. Len(searches) : k + 1 \in 1 .. Len(searches')
  BY <1>1, <1>2
<1>5. /\ Listed = {searches[k] : k \in 1 .. Len(searches)}
      /\ Listed' = {searches'[k] : k \in 1 .. Len(searches')}
  BY <1>2, ElementsOf DEF Listed
<1>6. \A x \in Listed' : x = q \/ x \in Listed
  BY <1>2, <1>3, <1>5
<1>7. q \in Listed' /\ \A x \in Listed : x \in Listed'
  BY <1>2, <1>4, <1>5
<1> QED BY <1>2, <1>6, <1>7

\* A search comes into the list by the one action that adds it.
LEMMA SearchAddStep ==
  ASSUME IInv, SearchAdd
  PROVE  IInv'
<1>0. PICK q : q = current.of
  OBVIOUS
<1> DEFINE w == ToExecute
           v == ToExecute'
<1>1. /\ Execute("ADD") /\ searches' = <<q>> \o searches
      /\ tx' = tx /\ search' = search /\ given' = given /\ twice' = twice /\ inputs' = inputs
  BY <1>0 DEF SearchAdd
<1>2. /\ queue' = queue /\ app' = app /\ early' = early /\ current' = NoAction
      /\ current \in Action /\ current.type = "ADD"
      /\ Once(v) /\ HasIn(w, "ADD", q) /\ ~HasIn(v, "ADD", q)
      /\ \A t, x : HasIn(v, t, x) => HasIn(w, t, x)
      /\ InOrder(tx, v)
  BY <1>0, <1>1, Executed
<1>3. q \in Queries
  BY <1>0, <1>2, ActionFacts
<1>4. searches' \in Seq(Queries) /\ Listed' = Listed \cup {q}
  BY <1>1, <1>3, AddedListed DEF IInv, TypeOK
<1>5. TypeOK'
  BY <1>1, <1>2, <1>4 DEF IInv, TypeOK
<1>6. TxInv'
  BY <1>1, <1>2 DEF TxInv
<1> HIDE DEF w, v
<1>7. /\ \A x \in Queries : HasIn(w, "ADD", x) =>
           x \notin Listed /\ ~HasIn(w, "END", x) /\ search[x].state # "OFF"
      /\ \A x \in Queries : HasIn(w, "END", x) =>
           search[x].state = "OFF" /\ search[x].left < 0 /\ x \in Listed \cup twice
  BY ComingFacts DEF w
<1>8. AddInv'
  <2>1. \A x \in Queries : HasIn(v, "ADD", x) =>
          x \notin Listed' /\ ~HasIn(v, "END", x) /\ search[x].state # "OFF"
    BY <1>2, <1>4, <1>7
  <2> QED BY <1>1, <2>1 DEF AddInv, Comes, v
<1>9. EndInv'
  <2>1. \A x \in Queries : HasIn(v, "END", x) =>
          search[x].state = "OFF" /\ search[x].left < 0 /\ x \in Listed' \cup twice
    BY <1>2, <1>4, <1>7
  <2> QED BY <1>1, <2>1 DEF EndInv, Comes, v
<1>10. KnownInv'
  <2>1. \A x \in Queries : Known(x)' => Known(x)
    BY <1>2, <1>4 DEF Known, Comes, v, w
  <2> QED BY <1>1, <1>2, <2>1 DEF IInv, SearchInv, KnownInv
<1> QED BY <1>2, <1>5, <1>6, <1>8, <1>9, <1>10 DEF IInv, SearchInv, OnceInv, v

\* A question is sent.
LEMMA SearchSendStep ==
  ASSUME IInv, SearchSend
  PROVE  IInv'
<1>1. /\ Execute("SEND") /\ tx' = tx /\ searches' = searches /\ search' = search
      /\ given' = given /\ twice' = twice /\ inputs' = inputs
  BY DEF SearchSend
<1>2. queue' = queue /\ app' = app /\ early' = early /\ current' = NoAction
      /\ InOrder(tx, ToExecute')
  BY <1>1, Executed
<1>3. TypeOK'
  BY <1>1, <1>2 DEF IInv, TypeOK
<1>4. TxInv'
  BY <1>1, <1>2 DEF TxInv
<1>5. SearchInv'
  BY <1>1, ExecuteStill
<1> QED BY <1>3, <1>4, <1>5 DEF IInv

\* A search is finished by the one action that ends it; nobody else will end it.
LEMMA SearchEndStep ==
  ASSUME IInv, SearchEnd
  PROVE  IInv'
<1>0. PICK q : q = current.of
  OBVIOUS
<1> DEFINE w == ToExecute
           v == ToExecute'
<1>1. /\ Execute("END") /\ Finish({q})
      /\ search' = [search EXCEPT ![q].state = "OFF"]
      /\ tx' = tx /\ twice' = twice /\ inputs' = inputs
  BY <1>0 DEF SearchEnd
<1>2. /\ queue' = queue /\ app' = app /\ early' = early /\ current' = NoAction
      /\ current \in Action /\ current.type = "END"
      /\ Once(v) /\ HasIn(w, "END", q) /\ ~HasIn(v, "END", q)
      /\ \A t, x : HasIn(v, t, x) => HasIn(w, t, x)
      /\ InOrder(tx, v)
  BY <1>0, <1>1, Executed
<1>3. q \in Queries
  BY <1>0, <1>2, ActionFacts
<1>4. /\ searches' \in Seq(Queries) /\ Listed' = Listed \ {q}
      /\ given' = given \cup {q} /\ given' \subseteq Queries
  BY <1>1, <1>3, FinishFacts DEF IInv
<1>5. /\ search' \in [Queries -> SearchType]
      /\ search'[q].state = "OFF" /\ search'[q].results = search[q].results
      /\ search'[q].left = search[q].left
      /\ \A x \in Queries \ {q} : search'[x] = search[x]
  <2>1. search \in [Queries -> SearchType]
    BY DEF IInv, TypeOK, SearchType
  <2>2. search[q] \in SearchType /\ [search[q] EXCEPT !.state = "OFF"] \in SearchType
    BY <1>3, <2>1 DEF SearchType
  <2>3. search' = [search EXCEPT ![q] = [search[q] EXCEPT !.state = "OFF"]]
    BY <1>1
  <2>4. search'[q] = [search[q] EXCEPT !.state = "OFF"]
        /\ \A x \in Queries \ {q} : search'[x] = search[x]
    BY <1>3, <2>1, <2>3
  <2>5. search' \in [Queries -> SearchType]
    BY <1>3, <2>1, <2>2, <2>3
  <2> QED BY <2>2, <2>4, <2>5 DEF SearchType
<1>6. TypeOK'
  <2>1. \A x \in Queries : MaxResults[x] > 0 => search'[x].results <= MaxResults[x]
    BY <1>5 DEF IInv, TypeOK
  <2> QED BY <1>1, <1>2, <1>4, <1>5, <2>1 DEF IInv, TypeOK, SearchType
<1>7. TxInv'
  BY <1>1, <1>2 DEF TxInv
<1> HIDE DEF w, v
<1>8. /\ \A x \in Queries : HasIn(w, "ADD", x) =>
           x \notin Listed /\ ~HasIn(w, "END", x) /\ search[x].state # "OFF"
      /\ \A x \in Queries : HasIn(w, "END", x) =>
           search[x].state = "OFF" /\ search[x].left < 0 /\ x \in Listed \cup twice
  BY ComingFacts DEF w
<1>9. AddInv'
  <2>1. \A x \in Queries : HasIn(v, "ADD", x) =>
          x \notin Listed' /\ ~HasIn(v, "END", x) /\ search'[x].state # "OFF"
    BY <1>2, <1>4, <1>5, <1>8
  <2> QED BY <2>1 DEF AddInv, Comes, v
<1>10. EndInv'
  <2>1. \A x \in Queries : HasIn(v, "END", x) =>
          search'[x].state = "OFF" /\ search'[x].left < 0 /\ x \in Listed' \cup twice
    BY <1>2, <1>4, <1>5, <1>8
  <2> QED BY <1>1, <2>1 DEF EndInv, Comes, v
<1>11. KnownInv'
  <2>1. /\ \A x \in Queries : Known(x)' => Known(x)
        /\ ~Known(q)' /\ Known(q)
    BY <1>2, <1>3, <1>4, <1>8 DEF Known, Comes, v, w
  <2> SUFFICES ASSUME NEW x \in Queries
               PROVE  /\ Known(x)' \/ x \in given' => app[x] \notin {"idle", "refused"}
                      /\ Known(x)' /\ x \notin early \cup twice =>
                           app[x] \in {"waiting", "held"} /\ x \notin given'
    BY <1>1, <1>2 DEF KnownInv
  <2>2. CASE x = q
    BY <2>1, <2>2 DEF IInv, SearchInv, KnownInv
  <2>3. CASE x # q
    BY <1>4, <2>1, <2>3 DEF IInv, SearchInv, KnownInv
  <2> QED BY <2>2, <2>3
<1> QED BY <1>2, <1>6, <1>7, <1>9, <1>10, <1>11 DEF IInv, SearchInv, OnceInv, v

\* A packet is sent, sent and scheduled again, or skipped; the order stays.
LEMMA TxHandleStep ==
  ASSUME IInv, TxHandle
  PROVE  IInv'
<1> DEFINE w == ToExecute
           v == ToExecute'
<1>1. Execute("TX") /\ UNCHANGED <<searches, search, given, twice>>
  BY DEF TxHandle
<1>2. /\ queue' = queue /\ app' = app /\ early' = early /\ current' = NoAction
      /\ current \in Action /\ current.type = "TX"
      /\ Shrinks(w, v) /\ w[1] = current
  BY <1>1, Executed
<1>3. current.of \in Packets /\ current = [type |-> "TX", of |-> current.of]
  BY <1>2, ActionFacts
<1>4. tx \in Seq(Entry) /\ InOrder(tx, w) /\ Len(tx) \in Nat
  BY LenProperties DEF IInv, TypeOK, TxInv
<1>5. inputs \in 0 .. MaxInputs /\ MaxInputs \in Nat
  BY LimitsAssumption DEF IInv, TypeOK
<1>6. InOrder(tx', v) /\ tx' \in Seq(Entry) /\ inputs' \in 0 .. MaxInputs
  <2>1. CASE tx # <<>> /\ Head(tx).packet = current.of /\ Head(tx).queued
    <3>1. Head(tx) = tx[1]
      BY <1>4, <2>1, HeadTailProperties
    <3> HIDE DEF w, v
    <3>2. InOrder(Tail(tx), v) /\ Tail(tx) \in Seq(Entry)
      BY <1>2, <1>4, <2>1, <3>1, InOrderTail
    <3>3. CASE tx' = Tail(tx) /\ UNCHANGED inputs
      BY <1>5, <3>2, <3>3
    <3>4. ASSUME inputs < MaxInputs, inputs' = inputs + 1,
                 NEW d \in Delays, tx' = Schedule(Tail(tx), current.of, d)
          PROVE  InOrder(tx', v) /\ tx' \in Seq(Entry) /\ inputs' \in 0 .. MaxInputs
      <4>1. d \in Nat
        BY LimitsAssumption
      <4>2. InOrder(tx', v) /\ tx' \in Seq(Entry)
        BY <1>3, <3>2, <3>4, <4>1, InOrderSchedule
      <4> QED BY <1>5, <3>4, <4>2
    <3> QED BY <2>1, <3>3, <3>4 DEF TxHandle
  <2>2. CASE ~(tx # <<>> /\ Head(tx).packet = current.of /\ Head(tx).queued)
    <3>1. tx' = tx /\ inputs' = inputs
      BY <2>2 DEF TxHandle
    <3>2. 1 \in Marked(tx) => current # [type |-> "TX", of |-> tx[1].packet]
      <4> SUFFICES ASSUME 1 \in 1 .. Len(tx), tx[1].queued
                   PROVE  current # [type |-> "TX", of |-> tx[1].packet]
        BY DEF Marked
      <4>1. tx # <<>>
        BY <1>4, EmptySeq
      <4>2. Head(tx) = tx[1]
        BY <1>4, <4>1, HeadTailProperties
      <4>3. current.of # tx[1].packet
        BY <2>2, <4>1, <4>2
      <4> QED BY <4>3
    <3> HIDE DEF w, v
    <3>3. InOrder(tx, v)
      BY <1>2, <1>4, <3>2, InOrderSkip
    <3> QED BY <1>4, <1>5, <3>1, <3>3
  <2> QED BY <2>1, <2>2
<1>7. TypeOK'
  BY <1>1, <1>2, <1>6 DEF IInv, TypeOK
<1>8. TxInv'
  BY <1>6 DEF TxInv
<1>9. SearchInv'
  BY <1>1, ExecuteStill
<1> QED BY <1>7, <1>8, <1>9 DEF IInv

\* What a received packet does to the searches.
Answered(full) ==
  /\ full \subseteq Listed /\ full \subseteq Queries /\ Finish(full)
  /\ search' \in [Queries -> SearchType]
  /\ \A q \in Queries :
       /\ search'[q].left = search[q].left
       /\ search'[q].state = IF q \in full THEN "OFF" ELSE search[q].state
       /\ MaxResults[q] > 0 => search'[q].results <= MaxResults[q]
       /\ q \in full => MaxResults[q] > 0 /\ search'[q].results = MaxResults[q]
  /\ twice' = twice \cup {q \in full : search[q].state = "OFF"}

\* A search that is finished as full has just the results it asked for.
LEMMA AnswersFacts ==
  ASSUME TypeOK, Answers
  PROVE  \E full : Answered(full)
<1>1. /\ search \in [Queries -> SearchType] /\ Listed \subseteq Queries
      /\ \A q \in Queries : MaxResults[q] \in Nat
      /\ \A q \in Queries : MaxResults[q] > 0 => search[q].results <= MaxResults[q]
  BY QueriesAssumption DEF TypeOK, SearchType, Listed, ToSet
<1>2. PICK got \in SUBSET Active, authoritative \in BOOLEAN :
        LET results == WithResults(got)
            full == {q \in ToSet(searches) : authoritative /\ Full(q, results[q])}
        IN  /\ search' = [q \in Queries |->
                            [search[q] EXCEPT !.results = results[q],
                                              !.state = IF q \in full THEN "OFF" ELSE @]]
            /\ Finish(full)
            /\ twice' = twice \cup {q \in full : search[q].state = "OFF"}
  BY DEF Answers
<1> DEFINE results == WithResults(got)
           full == {q \in Listed : authoritative /\ Full(q, results[q])}
<1>3. /\ search' = [q \in Queries |->
                      [search[q] EXCEPT !.results = results[q],
                                        !.state = IF q \in full THEN "OFF" ELSE @]]
      /\ Finish(full)
      /\ twice' = twice \cup {q \in full : search[q].state = "OFF"}
  BY <1>2 DEF Listed
<1>4. \A q \in Queries : results[q] = search[q].results + IF q \in got THEN 1 ELSE 0
  BY DEF WithResults
<1>5. full \subseteq Listed /\ full \subseteq Queries
      /\ \A q \in full : MaxResults[q] > 0 /\ results[q] >= MaxResults[q]
  BY <1>1 DEF Full
<1>6. \A q \in got : ~(MaxResults[q] > 0 /\ search[q].results >= MaxResults[q])
  BY DEF Active, Full
<1> HIDE DEF results, full
<1>7. ASSUME NEW q \in Queries
      PROVE  /\ search'[q] \in SearchType
             /\ search'[q].left = search[q].left
             /\ search'[q].state = IF q \in full THEN "OFF" ELSE search[q].state
             /\ search'[q].results = results[q]
             /\ MaxResults[q] > 0 => results[q] <= MaxResults[q]
             /\ results[q] \in Nat
  <2>1. search[q] \in SearchType /\ search[q].results \in Nat
    BY <1>1 DEF SearchType
  <2>2. results[q] \in Nat
    BY <1>4, <2>1
  <2>3. MaxResults[q] > 0 => results[q] <= MaxResults[q]
    BY <1>1, <1>4, <1>6, <2>1
  <2>4. search'[q] = [search[q] EXCEPT !.results = results[q],
                                       !.state = IF q \in full THEN "OFF" ELSE @]
    BY <1>3
  <2> QED BY <2>1, <2>2, <2>3, <2>4 DEF SearchType
<1>8. search' \in [Queries -> SearchType]
  <2>1. search' = [q \in Queries |-> search'[q]]
    BY <1>3
  <2> QED BY <1>7, <2>1
<1>9. \A q \in full : MaxResults[q] > 0 /\ search'[q].results = MaxResults[q]
  BY <1>1, <1>5, <1>7
<1>10. Answered(full)
  BY <1>3, <1>5, <1>7, <1>8, <1>9 DEF Answered
<1> QED BY <1>10

\* The searches finished as full are in the list; if the end of one is posted, it is in twice.
LEMMA AnswersStep ==
  ASSUME IInv, Execute("OTHER"), Answers, tx' = tx, inputs' = inputs
  PROVE  IInv'
<1> DEFINE w == ToExecute
           v == ToExecute'
<1>1. PICK full : Answered(full)
  BY AnswersFacts DEF IInv
<1>2. /\ full \subseteq Listed /\ full \subseteq Queries
      /\ search' \in [Queries -> SearchType]
      /\ \A q \in Queries :
           /\ search'[q].left = search[q].left
           /\ search'[q].state = IF q \in full THEN "OFF" ELSE search[q].state
           /\ MaxResults[q] > 0 => search'[q].results <= MaxResults[q]
      /\ twice' = twice \cup {q \in full : search[q].state = "OFF"}
  BY <1>1 DEF Answered
<1>3. /\ searches' \in Seq(Queries) /\ Listed' = Listed \ full
      /\ given' = given \cup full /\ given' \subseteq Queries
  BY <1>1, <1>2, FinishFacts DEF Answered, IInv
<1>4. /\ queue' = queue /\ app' = app /\ early' = early /\ current' = NoAction
      /\ Once(v) /\ InOrder(tx, v)
      /\ \A t, x : HasIn(v, t, x) => HasIn(w, t, x)
  BY Executed
<1>5. TypeOK'
  <2>1. twice' \subseteq Queries
    BY <1>2 DEF IInv, TypeOK
  <2> QED BY <1>2, <1>3, <1>4, <2>1 DEF IInv, TypeOK, SearchType
<1>6. TxInv'
  BY <1>4 DEF TxInv
<1> HIDE DEF w, v
<1>7. /\ \A x \in Queries : HasIn(w, "ADD", x) =>
           x \notin Listed /\ ~HasIn(w, "END", x) /\ search[x].state # "OFF"
      /\ \A x \in Queries : HasIn(w, "END", x) =>
           search[x].state = "OFF" /\ search[x].left < 0 /\ x \in Listed \cup twice
  BY ComingFacts DEF w
<1>8. AddInv'
  <2>1. \A x \in Queries : HasIn(v, "ADD", x) =>
          x \notin Listed' /\ ~HasIn(v, "END", x) /\ search'[x].state # "OFF"
    BY <1>2, <1>3, <1>4, <1>7
  <2> QED BY <2>1 DEF AddInv, Comes, v
<1>9. EndInv'
  <2>1. \A x \in Queries : HasIn(v, "END", x) =>
          search'[x].state = "OFF" /\ search'[x].left < 0 /\ x \in Listed' \cup twice'
    BY <1>2, <1>3, <1>4, <1>7
  <2> QED BY <2>1 DEF EndInv, Comes, v
<1>10. KnownInv'
  <2>1. /\ \A x \in Queries : Known(x)' => Known(x)
        /\ \A x \in full : Known(x)
        /\ \A x \in full : Known(x)' => x \in twice'
    <3>1. \A x \in full : HasIn(v, "END", x) => x \in twice'
      BY <1>2, <1>4, <1>7
    <3>2. \A x \in full : ~HasIn(v, "ADD", x)
      BY <1>2, <1>4, <1>7
    <3> QED BY <1>2, <1>3, <1>4, <3>1, <3>2 DEF Known, Comes, v, w
  <2> SUFFICES ASSUME NEW x \in Queries
               PROVE  /\ Known(x)' \/ x \in given' => app[x] \notin {"idle", "refused"}
                      /\ Known(x)' /\ x \notin early \cup twice' =>
                           app[x] \in {"waiting", "held"} /\ x \notin given'
    BY <1>4 DEF KnownInv
  <2>2. /\ Known(x) \/ x \in given => app[x] \notin {"idle", "refused"}
        /\ Known(x) /\ x \notin early \cup twice =>
             app[x] \in {"waiting", "held"} /\ x \notin given
    BY DEF IInv, SearchInv, KnownInv
  <2>3. twice \subseteq twice'
    BY <1>2
  <2>4. CASE x \in full
    BY <2>1, <2>2, <2>4
  <2>5. CASE x \notin full
    BY <1>3, <2>1, <2>2, <2>3, <2>5
  <2> QED BY <2>4, <2>5
<1> QED BY <1>4, <1>5, <1>6, <1>8, <1>9, <1>10 DEF IInv, SearchInv, OnceInv, v

\* Packets that are scheduled go behind the posted ones, those that are freed leave a gap.
LEMMA ReschedulesStep ==
  ASSUME IInv, Execute("OTHER"), Reschedules, UNCHANGED <<searches, search, given, twice, inputs>>
  PROVE  IInv'
<1>1. /\ queue' = queue /\ app' = app /\ early' = early /\ current' = NoAction
      /\ InOrder(tx, ToExecute')
  BY Executed
<1>2. tx \in Seq(Entry)
  BY DEF IInv, TypeOK
<1>3. InOrder(tx', ToExecute') /\ tx' \in Seq(Entry)
  <2>1. ASSUME NEW p \in Packets, NEW d \in Delays, tx' = Schedule(tx, p, d)
        PROVE  InOrder(tx', ToExecute') /\ tx' \in Seq(Entry)
    <3>1. d \in Nat
      BY LimitsAssumption
    <3> QED BY <1>1, <1>2, <2>1, <3>1, InOrderSchedule
  <2>2. ASSUME NEW freed, tx' = Without(tx, {e \in ToSet(tx) : e.packet \in freed})
        PROVE  InOrder(tx', ToExecute') /\ tx' \in Seq(Entry)
    BY <1>1, <1>2, <2>2, InOrderWithout
  <2> QED BY <2>1, <2>2 DEF Reschedules
<1>4. TypeOK'
  BY <1>1, <1>3 DEF IInv, TypeOK
<1>5. TxInv'
  BY <1>3 DEF TxInv
<1>6. SearchInv'
  BY ExecuteStill
<1> QED BY <1>4, <1>5, <1>6 DEF IInv

\* Any other action does the one or the other.
LEMMA OtherStep ==
  ASSUME IInv, Other
  PROVE  IInv'
<1>1. CASE Answers /\ UNCHANGED tx
  BY <1>1, AnswersStep DEF Other
<1>2. CASE Reschedules /\ UNCHANGED <<searches, search, given, twice>>
  BY <1>2, ReschedulesStep DEF Other
<1> QED BY <1>1, <1>2 DEF Other

\* Another action is posted.
LEMMA InputStep ==
  ASSUME IInv, Input
  PROVE  IInv'
<1> DEFINE a == [type |-> "OTHER", of |-> NoOne]
<1>1. /\ inputs < MaxInputs /\ HasRoom /\ inputs' = inputs + 1 /\ queue' = Append(queue, a)
      /\ current' = current /\ tx' = tx /\ searches' = searches /\ search' = search
      /\ given' = given /\ app' = app /\ early' = early /\ twice' = twice
  BY DEF Input, Post
<1>2. a \in Action /\ a.type \in {"TX", "OTHER"}
  BY DEF Action
<1> HIDE DEF a
<1>3. /\ Grows(ToExecute, ToExecute', a)
      /\ queue' \in Seq(Action) /\ Len(queue') <= QueueLen
  BY <1>1, <1>2, PostGrows, PostType DEF IInv
<1>4. inputs' \in 0 .. MaxInputs
  BY <1>1, LimitsAssumption DEF IInv, TypeOK
<1>5. TypeOK'
  BY <1>1, <1>3, <1>4 DEF IInv, TypeOK
<1>6. TxInv'
  BY <1>1, <1>3, GrowsOrder DEF IInv, TxInv
<1>7. SearchInv'
  BY <1>1, <1>2, <1>3, PostStill
<1> QED BY <1>5, <1>6, <1>7 DEF IInv

----------------------------------------------------------------------------
(* The theorems                                                              *)

\* No action is to be executed at first.
LEMMA InitInv == Init => IInv
<1> SUFFICES ASSUME Init PROVE IInv
  OBVIOUS
<1>1. /\ queue = <<>> /\ current = NoAction /\ tx = <<>> /\ searches = <<>> /\ given = {}
      /\ search = [q \in Queries |-> [state |-> "OFF", results |-> 0, left |-> 0]]
      /\ app = [q \in Queries |-> "idle"] /\ early = {} /\ twice = {} /\ inputs = 0
  BY DEF Init
<1>2. \A X : <<>> \in Seq(X) /\ Len(<<>>) = 0
  BY EmptySeq
<1>3. ToExecute = <<>>
  BY <1>1, <1>2, InHandFacts, ToExecuteInHand
<1>4. TypeOK
  <2>1. search \in [Queries -> SearchType]
    BY <1>1 DEF SearchType
  <2>2. \A q \in Queries : search[q].results <= MaxResults[q] \/ ~(MaxResults[q] > 0)
    BY <1>1, QueriesAssumption
  <2>3. app \in [Queries -> Stages]
    BY <1>1 DEF Stages
  <2>4. Len(queue) <= QueueLen /\ inputs \in 0 .. MaxInputs
    BY <1>1, <1>2, LimitsAssumption
  <2> QED BY <1>1, <1>2, <2>1, <2>2, <2>3, <2>4 DEF TypeOK, SearchType
<1>5. TxInv
  <2>1. Marked(tx) = {} /\ MarkedFirst(tx)
    BY <1>1, <1>2 DEF Marked, MarkedFirst
  <2>2. Sends(tx, ToExecute, <<>>)
    BY <2>1 DEF Sends
  <2> QED BY <2>1, <2>2, InOrderBy DEF TxInv
<1>6. \A type, q : ~Comes(type, q)
  BY <1>2, <1>3 DEF Comes, HasIn
<1>7. Listed = {}
  BY <1>1, <1>2 DEF Listed, ToSet
<1>8. OnceInv /\ AddInv /\ EndInv
  BY <1>2, <1>3, <1>6 DEF OnceInv, Once, AddInv, EndInv
<1>9. KnownInv
  BY <1>1, <1>6, <1>7 DEF KnownInv, Known
<1> QED BY <1>4, <1>5, <1>8, <1>9 DEF IInv, SearchInv

\* Every step keeps the invariant.
LEMMA NextInv == IInv /\ [Next]_vars => IInv'
<1> SUFFICES ASSUME IInv, [Next]_vars PROVE IInv'
  OBVIOUS
<1>1. CASE SchedulerRun
  BY <1>1, SchedulerRunStep
<1>2. CASE SearchRun
  BY <1>2, SearchRunStep
<1>3. CASE Service
  BY <1>3, ReceiveStep, SearchAddStep, SearchSendStep, SearchEndStep, TxHandleStep, OtherStep
     DEF Service
<1>4. CASE Input
  BY <1>4, InputStep
<1>5. CASE Tick
  BY <1>5, TickStep
<1>6. CASE \E q \in Queries : Application(q)
  BY <1>6, ApplicationStep
<1>7. CASE UNCHANGED vars
  <2>1. /\ queue' = queue /\ current' = current /\ tx' = tx /\ searches' = searches
        /\ search' = search /\ given' = given /\ app' = app /\ early' = early
        /\ twice' = twice /\ inputs' = inputs
    BY <1>7 DEF vars
  <2>2. ToExecute' = ToExecute
    BY <2>1, SameToExecute
  <2>3. TypeOK' /\ TxInv'
    BY <2>1, <2>2 DEF IInv, TypeOK, TxInv
  <2>4. SearchInv'
    BY <2>1, <2>2, SameStill
  <2> QED BY <2>3, <2>4 DEF IInv
<1> QED BY <1>1, <1>2, <1>3, <1>4, <1>5, <1>6, <1>7 DEF Next

\* The invariant that the properties follow from: the packets that were posted are overdue,
\* come first and in the order of their actions, a search is added and ended at most once,
\* and the component knows of it from its addition to its end.
THEOREM Invariant == Spec => []IInv
<1>1. Init => IInv
  BY InitInv
<1>2. IInv /\ [Next]_vars => IInv'
  BY NextInv
<1> QED BY <1>1, <1>2, PTL DEF Spec

\* The queue never holds more than QueueLen actions, a query never more results than it
\* asked for.
THEOREM TypeCorrect == Spec => []TypeOK
<1>1. IInv => TypeOK
  BY DEF IInv
<1> QED BY <1>1, Invariant, PTL

\* Packets posted to the service task are taken up in the order of the list, so that
\* _mdns_tx_handle_packet finds each of them first in the list.
THEOREM PostedInOrder == Spec => []TxInOrder
<1>1. IInv => TxInOrder
  <2> SUFFICES ASSUME IInv PROVE TxInOrder
    OBVIOUS
  <2>1. Posted = Marked(tx)
    BY DEF Posted, Marked
  <2>2. MarkedFirst(tx) /\ Len(tx) \in Nat
    BY LenProperties DEF IInv, TypeOK, TxInv, InOrder
  <2>3. \A i \in Posted : \A j \in 1 .. i : j \in Posted
    <3> SUFFICES ASSUME NEW i \in Posted, NEW j \in 1 .. i PROVE j \in Posted
      OBVIOUS
    <3>1. i \in 1 .. Len(tx) /\ j \in 1 .. Len(tx)
      BY <2>2 DEF Posted
    <3> QED BY <2>2, <3>1 DEF Posted, MarkedFirst
  <2>4. PICK at \in [Marked(tx) -> 1 .. Len(ToExecute)] : Sends(tx, ToExecute, at)
    BY DEF IInv, TxInv, InOrder
  <2>5. /\ \A i \in Posted : ToExecute[at[i]] = [type |-> "TX", of |-> tx[i].packet]
        /\ \A i, j \in Posted : i < j => at[i] < at[j]
    BY <2>1, <2>4 DEF Sends
  <2> QED BY <2>1, <2>3, <2>4, <2>5 DEF TxInOrder
<1> QED BY <1>1, Invariant, PTL

\* A search whose memory was freed is in no list and in no action of the queue, but for the
\* two ways, listed in early and twice, in which mdns_query_async_delete and a packet that
\* fills a search come before its end.
THEOREM FreedAreForgotten == Spec => []NoFreedSearch
<1>1. IInv => NoFreedSearch
  <2> SUFFICES ASSUME IInv, NEW q \in Queries \ (early \cup twice),
                      app[q] \in {"idle", "refused", "freed"}
               PROVE  /\ q \notin ToSet(searches)
                      /\ ~\E a \in Pending : a.type \in {"ADD", "END"} /\ a.of = q
    BY DEF NoFreedSearch
  <2>1. ~Known(q)
    BY DEF IInv, SearchInv, KnownInv
  <2>2. ToExecute \in Seq(Action)
    <3>1. queue \in Seq(Action) /\ current \in Action \cup {NoAction}
      BY DEF IInv, TypeOK
    <3>2. current = NoAction => InHand(current, queue) = queue
      BY <3>1, InHandFacts
    <3>3. current # NoAction => InHand(current, queue) \in Seq(Action)
      BY <3>1, InHandFacts DEF Headed
    <3> QED BY <3>1, <3>2, <3>3, ToExecuteInHand
  <2>3. \A a \in Pending : \E k \in 1 .. Len(ToExecute) : a = ToExecute[k]
    BY <2>2 DEF Pending, ToSet
  <2>4. \A a \in Pending : ~(a.type \in {"ADD", "END"} /\ a.of = q)
    BY <2>1, <2>3 DEF Known, Comes, HasIn
  <2> QED BY <2>1, <2>4 DEF Known, Listed
<1> QED BY <1>1, Invariant, PTL

EndsForAReasonStep ==
  \A q \in Queries :
    q \in given' \ given =>
      \/ MaxResults[q] > 0 /\ search'[q].results = MaxResults[q]
      \/ search[q].left < 0

\* Only two of the steps give a semaphore.
LEMMA EndsForAReasonInStep == IInv /\ [Next]_vars => EndsForAReasonStep
<1> SUFFICES ASSUME IInv, [Next]_vars PROVE EndsForAReasonStep
  OBVIOUS
<1>1. CASE given' \subseteq given
  BY <1>1 DEF EndsForAReasonStep
<1>2. CASE SearchEnd
  <2>1. Execute("END") /\ given' = given \cup {current.of}
    BY <1>2 DEF SearchEnd, Finish
  <2>2. current \in Action /\ current.type = "END" /\ HasIn(ToExecute, "END", current.of)
    BY <2>1, Executed
  <2>3. current.of \in Queries
    BY <2>2, ActionFacts
  <2>4. search[current.of].left < 0
    BY <2>2, <2>3, ComingFacts
  <2> QED BY <2>1, <2>4 DEF EndsForAReasonStep
<1>3. CASE Answers
  <2>1. PICK full : Answered(full)
    BY <1>3, AnswersFacts DEF IInv
  <2> QED BY <2>1 DEF Answered, Finish, EndsForAReasonStep
<1>4. CASE Receive \/ SearchAdd \/ SearchSend \/ TxHandle
  <2>1. given' = given
    BY <1>4 DEF Receive, SearchAdd, SearchSend, TxHandle
  <2> QED BY <1>1, <2>1
<1>5. CASE Other
  BY <1>1, <1>3, <1>5 DEF Other
<1>6. CASE SchedulerRun \/ SearchRun \/ Input \/ Tick \/ UNCHANGED vars
  <2>1. given' = given
    BY <1>6 DEF SchedulerRun, SearchRun, Input, Tick, vars
  <2> QED BY <1>1, <2>1
<1>7. ASSUME NEW q \in Queries, Application(q) PROVE given' \subseteq given
  BY <1>7 DEF Application, QueryGeneric, QueryAsyncNew, Query, QueryReturn,
              QueryAsyncGetResults, TakeDone, TestOff, Free
<1> QED BY <1>1, <1>2, <1>4, <1>5, <1>6, <1>7 DEF Next, Service

\* The semaphore of a query is given when it has as many results as it asked for, or when
\* its time is over, and in no other case.
THEOREM EndsOnlyForAReason == Spec => EndsForAReason
<1>1. IInv /\ [Next]_vars => EndsForAReasonStep
  BY EndsForAReasonInStep
<1>2. EndsForAReason <=> [][EndsForAReasonStep]_vars
  BY DEF EndsForAReason, EndsForAReasonStep
<1> QED BY <1>1, <1>2, Invariant, PTL DEF Spec

----------------------------------------------------------------------------
(* Nobody is forgotten                                                       *)

\* NeverForgotten in terms of HasIn: something will happen to a query that an application waits for: its semaphore was given,
\* it is about to be added, it is active in the list, or its end is to be executed.
AwaitedInv ==
  \A q \in Queries :
    app[q] \in {"waiting", "held"} =>
      \/ q \in given
      \/ Comes("ADD", q)
      \/ q \in Listed /\ (search[q].state # "OFF" \/ Comes("END", q))

\* What is enough: whoever begins to wait has posted the addition, what was to come still
\* comes or has been executed, and no listed search that is active is dropped.
LEMMA StillAwaited ==
  ASSUME AwaitedInv,
         \A q \in Queries : app'[q] \in {"waiting", "held"} =>
           \/ HasIn(ToExecute', "ADD", q)
           \/ /\ app[q] \in {"waiting", "held"}
              /\ q \in given => q \in given'
              /\ Comes("ADD", q) =>
                   HasIn(ToExecute', "ADD", q) \/ (q \in Listed' /\ search'[q].state # "OFF")
              /\ q \in Listed => q \in Listed' \/ q \in given'
              /\ search[q].state # "OFF" =>
                   \/ search'[q].state # "OFF" \/ HasIn(ToExecute', "END", q) \/ q \in given'
              /\ Comes("END", q) => HasIn(ToExecute', "END", q) \/ q \in given'
  PROVE  AwaitedInv'
<1> SUFFICES ASSUME NEW q \in Queries, app'[q] \in {"waiting", "held"}
             PROVE  \/ q \in given'
                    \/ HasIn(ToExecute', "ADD", q)
                    \/ /\ q \in Listed'
                       /\ search'[q].state # "OFF" \/ HasIn(ToExecute', "END", q)
  BY DEF AwaitedInv, Comes
<1> QED BY DEF AwaitedInv

\* The actions are the same but for others behind.
LEMMA ExtendsHas ==
  ASSUME NEW w, NEW v, Extends(w, v), NEW type, NEW q, HasIn(w, type, q)
  PROVE  HasIn(v, type, q)
<1>1. PICK k \in 1 .. Len(w) : w[k].type = type /\ w[k].of = q
  BY DEF HasIn
<1>2. k \in 1 .. Len(v) /\ v[k] = w[k]
  BY LenProperties DEF Extends
<1> QED BY <1>1, <1>2 DEF HasIn

\* What is in the queue is to be executed.
LEMMA QueueHas ==
  ASSUME NEW c \in Action \cup {NoAction}, NEW p \in Seq(Action), NEW type, NEW q,
         HasIn(p, type, q)
  PROVE  HasIn(InHand(c, p), type, q)
<1>1. CASE c = NoAction
  BY <1>1, InHandFacts
<1>2. CASE c # NoAction
  <2> DEFINE w == InHand(c, p)
  <2>1. Len(w) = Len(p) + 1 /\ \A k \in 1 .. Len(p) : w[k + 1] = p[k]
    <3>1. Headed(w, c, p)
      BY <1>2, InHandFacts
    <3> HIDE DEF w
    <3> QED BY <3>1 DEF Headed
  <2> HIDE DEF w
  <2>2. PICK k \in 1 .. Len(p) : p[k].type = type /\ p[k].of = q
    BY DEF HasIn
  <2>3. k + 1 \in 1 .. Len(w) /\ w[k + 1] = p[k]
    BY <2>1, <2>2, LenProperties
  <2> QED BY <2>2, <2>3 DEF HasIn, w
<1> QED BY <1>1, <1>2

\* The timer ends a search only with its end in the queue.
LEMMA SearchRunAwaited ==
  ASSUME IInv, AwaitedInv, SearchRun
  PROVE  AwaitedInv'
<1>1. PICK again : LET st == Rounds(again)[Len(searches)]
                   IN  queue' = st.queue /\ search' = st.search
  BY DEF SearchRun
<1>2. Round(queue', search')
  BY <1>1, RoundsKeep DEF IInv
<1>3. /\ current' = current /\ searches' = searches /\ given' = given /\ app' = app
  BY DEF SearchRun
<1>4. queue \in Seq(Action) /\ current \in Action \cup {NoAction}
  BY DEF IInv, TypeOK
<1>5. Extends(queue, queue') /\ Told(queue', search')
  BY <1>2 DEF Round, Searched
<1>6. queue' \in Seq(Action)
  BY <1>5 DEF Extends
<1>7. ToExecute = InHand(current, queue) /\ ToExecute' = InHand(current, queue')
  BY <1>3, ToExecuteInHand
<1>8. Extends(InHand(current, queue), InHand(current, queue'))
  BY <1>4, <1>5, InHandExtends
<1>9. \A type, q : HasIn(ToExecute, type, q) => HasIn(ToExecute', type, q)
  BY <1>7, <1>8, ExtendsHas
<1>10. ASSUME NEW q \in Queries, search[q].state # "OFF", search'[q].state = "OFF"
       PROVE  HasIn(ToExecute', "END", q)
  <2>1. HasIn(queue', "END", q)
    BY <1>5, <1>10 DEF Told
  <2>2. HasIn(InHand(current, queue'), "END", q)
    BY <1>4, <1>6, <2>1, QueueHas
  <2> QED BY <1>7, <2>2
<1>11. Listed' = Listed
  BY <1>3 DEF Listed
<1> QED BY <1>3, <1>9, <1>10, <1>11, StillAwaited DEF Comes

\* Neither time nor the packets concern those who wait.
LEMMA OthersAwaited ==
  ASSUME IInv, AwaitedInv, IInv',
         SchedulerRun \/ Input \/ Tick \/ Receive \/ UNCHANGED vars
  PROVE  AwaitedInv'
<1>1. /\ searches' = searches /\ given' = given /\ app' = app
      /\ \A q \in Queries : search'[q].state = search[q].state
  <2>1. CASE Tick
    <3>1. \A q \in Queries : search'[q].state = search[q].state
      <4> SUFFICES ASSUME NEW q \in Queries PROVE search'[q].state = search[q].state
        OBVIOUS
      <4>1. search'[q] = IF search[q].state = "OFF" THEN search[q]
                         ELSE [search[q] EXCEPT !.left = Passed(@)]
        BY <2>1 DEF Tick
      <4>2. search[q] \in SearchType
        BY DEF IInv, TypeOK, SearchType
      <4> QED BY <4>1, <4>2 DEF SearchType
    <3> QED BY <2>1, <3>1 DEF Tick
  <2>2. CASE SchedulerRun \/ Input \/ Receive \/ UNCHANGED vars
    BY <2>2 DEF SchedulerRun, Input, Receive, vars
  <2> QED BY <2>1, <2>2
<1>2. Listed' = Listed
  BY <1>1 DEF Listed
<1>3. \A type, q : HasIn(ToExecute, type, q) => HasIn(ToExecute', type, q)
  <2>1. CASE ToExecute' = ToExecute
    BY <2>1
  <2>2. ASSUME NEW a \in Action, queue' = Append(queue, a), current' = current
        PROVE  \A type, q : HasIn(ToExecute, type, q) => HasIn(ToExecute', type, q)
    <3>1. Grows(ToExecute, ToExecute', a)
      BY <2>2, PostGrows DEF IInv
    <3> QED BY <3>1, GrowsHas
  <2>3. CASE Receive
    BY <2>1, <2>3, ReceiveSame DEF Receive, IInv
  <2>4. CASE Tick \/ UNCHANGED vars
    BY <2>1, <2>4, SameToExecute DEF Tick, vars
  <2>5. CASE Input
    <3>1. [type |-> "OTHER", of |-> NoOne] \in Action
      BY DEF Action
    <3>2. queue' = Append(queue, [type |-> "OTHER", of |-> NoOne]) /\ current' = current
      BY <2>5 DEF Input, Post
    <3> QED BY <2>2, <3>1, <3>2
  <2>6. CASE SchedulerRun
    <3>1. CASE UNCHANGED <<tx, queue>>
      BY <2>1, <2>6, <3>1, SameToExecute DEF SchedulerRun
    <3>2. CASE ~UNCHANGED <<tx, queue>>
      <4>1. Unqueued # {} /\ current' = current
        BY <2>6, <3>2 DEF SchedulerRun
      <4>2. First \in Unqueued
        <5>1. Unqueued \in SUBSET Nat
          BY DEF Unqueued
        <5>2. \E i \in Unqueued : \A j \in Unqueued : i <= j
          BY <4>1, <5>1, Smallest
        <5> QED BY <5>2 DEF First
      <4>3. tx[First] \in Entry
        <5>1. tx \in Seq(Entry) /\ First \in 1 .. Len(tx)
          BY <4>2 DEF IInv, TypeOK, Unqueued
        <5> QED BY <5>1, ElementOfSeq
      <4>4. [type |-> "TX", of |-> tx[First].packet] \in Action
        BY <4>3 DEF Action, Entry
      <4>5. queue' = Append(queue, [type |-> "TX", of |-> tx[First].packet])
        BY <2>6, <3>2 DEF SchedulerRun, Post
      <4> QED BY <2>2, <4>1, <4>4, <4>5
    <3> QED BY <3>1, <3>2
  <2> QED BY <2>3, <2>4, <2>5, <2>6
<1> QED BY <1>1, <1>2, <1>3, StillAwaited DEF Comes

\* The action in hand was for a search or for none.
LEMMA ExecutedHas ==
  ASSUME IInv, NEW type, Execute(type), NEW t, NEW q, HasIn(ToExecute, t, q)
  PROVE  HasIn(ToExecute', t, q) \/ (t = type /\ q = current.of)
<1>1. /\ Shrinks(ToExecute, ToExecute') /\ ToExecute[1] = current /\ current.type = type
  BY Executed
<1> DEFINE w == ToExecute
           v == ToExecute'
<1>2. Shrinks(w, v) /\ w[1] = current /\ HasIn(w, t, q)
  BY <1>1
<1> HIDE DEF w, v
<1>3. HasIn(v, t, q) \/ (w[1].type = t /\ w[1].of = q)
  BY <1>2, ShrinksHas
<1> QED BY <1>1, <1>2, <1>3 DEF v

\* The service task turns an addition into an entry, and an end into a semaphore given.
LEMMA ServiceAwaited ==
  ASSUME IInv, AwaitedInv, IInv',
         SearchAdd \/ SearchSend \/ SearchEnd \/ TxHandle \/ Other
  PROVE  AwaitedInv'
<1> DEFINE w == ToExecute
           v == ToExecute'
<1>1. CASE SearchSend \/ TxHandle \/ (Other /\ UNCHANGED <<searches, search, given>>)
  <2>1. PICK type \in {"SEND", "TX", "OTHER"} : Execute(type)
    BY <1>1 DEF SearchSend, TxHandle, Other
  <2>2. searches' = searches /\ search' = search /\ given' = given /\ app' = app
    BY <1>1 DEF SearchSend, TxHandle, Other, Execute
  <2>3. Listed' = Listed
    BY <2>2 DEF Listed
  <2>4. \A t \in {"ADD", "END"} : \A q : HasIn(w, t, q) => HasIn(v, t, q)
    BY <2>1, ExecutedHas
  <2> HIDE DEF w, v
  <2> QED BY <2>2, <2>3, <2>4, StillAwaited DEF Comes, w, v
<1>2. CASE SearchAdd
  <2>0. PICK x : x = current.of
    OBVIOUS
  <2>1. /\ Execute("ADD") /\ searches' = <<x>> \o searches
        /\ search' = search /\ given' = given /\ app' = app
    BY <1>2, <2>0 DEF SearchAdd, Execute
  <2>2. \A t \in {"ADD", "END"} : \A q : HasIn(w, t, q) => HasIn(v, t, q) \/ (t = "ADD" /\ q = x)
    BY <2>0, <2>1, ExecutedHas
  <2>3. current \in Action /\ current.type = "ADD" /\ HasIn(w, "ADD", x)
    BY <2>0, <2>1, Executed
  <2>4. x \in Queries
    BY <2>0, <2>3, ActionFacts
  <2>5. Listed' = Listed \cup {x}
    BY <2>1, <2>4, AddedListed DEF IInv, TypeOK
  <2>6. search[x].state # "OFF"
    BY <2>3, <2>4, ComingFacts
  <2> HIDE DEF w, v
  <2> QED BY <2>1, <2>2, <2>5, <2>6, StillAwaited DEF Comes, w, v
<1>3. CASE SearchEnd
  <2>0. PICK x : x = current.of
    OBVIOUS
  <2>1. /\ Execute("END") /\ Finish({x}) /\ app' = app
        /\ search' = [search EXCEPT ![x].state = "OFF"]
    BY <1>3, <2>0 DEF SearchEnd, Execute
  <2>2. \A t \in {"ADD", "END"} : \A q : HasIn(w, t, q) => HasIn(v, t, q) \/ (t = "END" /\ q = x)
    BY <2>0, <2>1, ExecutedHas
  <2>3. current \in Action /\ current.type = "END"
    BY <2>1, Executed
  <2>4. x \in Queries
    BY <2>0, <2>3, ActionFacts
  <2>5. Listed' = Listed \ {x} /\ given' = given \cup {x}
    BY <2>1, <2>4, FinishFacts DEF IInv
  <2>6. \A q \in Queries : q # x => search'[q] = search[q]
    BY <2>1 DEF IInv, TypeOK
  <2> HIDE DEF w, v
  <2>7. ASSUME NEW q \in Queries, HasIn(w, "ADD", q)
        PROVE  HasIn(v, "ADD", q)
    BY <2>2, <2>7
  <2> QED BY <2>1, <2>2, <2>5, <2>6, <2>7, StillAwaited DEF Comes, w, v
<1>4. CASE Other /\ Answers
  <2>1. PICK full : Answered(full)
    BY <1>4, AnswersFacts DEF IInv
  <2>2. /\ full \subseteq Queries /\ Finish(full)
        /\ \A q \in Queries :
             search'[q].state = IF q \in full THEN "OFF" ELSE search[q].state
    BY <2>1 DEF Answered
  <2>3. Listed' = Listed \ full /\ given' = given \cup full
    BY <2>2, FinishFacts DEF IInv
  <2>4. Execute("OTHER") /\ app' = app
    BY <1>4 DEF Other, Execute
  <2>5. \A t \in {"ADD", "END"} : \A q : HasIn(w, t, q) => HasIn(v, t, q)
    BY <2>4, ExecutedHas
  <2> HIDE DEF w, v
  <2> QED BY <2>2, <2>3, <2>4, <2>5, StillAwaited DEF Comes, w, v
<1> QED BY <1>1, <1>2, <1>3, <1>4 DEF Other

\* Whoever stops waiting has its semaphore, or gives the query up.
LEMMA ApplicationAwaited ==
  ASSUME IInv, AwaitedInv, NEW x \in Queries, Application(x)
  PROVE  AwaitedInv'
<1>1. ASSUME NEW next \in {"waiting", "held"}, Query(x, next) PROVE AwaitedInv'
  <2>1. searches' = searches /\ given' = given /\ current' = current
        /\ \A q \in Queries : q # x => search'[q] = search[q] /\ app'[q] = app[q]
    BY <1>1 DEF Query, IInv, TypeOK
  <2>2. Listed' = Listed
    BY <2>1 DEF Listed
  <2>3. CASE HasRoom
    <3> DEFINE a == [type |-> "ADD", of |-> x]
    <3>1. a \in Action /\ a.type = "ADD" /\ a.of = x /\ queue' = Append(queue, a)
      BY <1>1, <2>3 DEF Query, Post, Action
    <3> HIDE DEF a
    <3>2. Grows(ToExecute, ToExecute', a)
      BY <2>1, <3>1, PostGrows DEF IInv
    <3>3. \A t, q : HasIn(ToExecute, t, q) \/ (t = "ADD" /\ q = x) => HasIn(ToExecute', t, q)
      BY <3>1, <3>2, GrowsHas
    <3> QED BY <2>1, <2>2, <3>3, StillAwaited DEF Comes
  <2>4. CASE ~HasRoom
    <3>1. queue' = queue /\ app'[x] = "refused"
      BY <1>1, <2>4 DEF Query, IInv, TypeOK
    <3>2. ToExecute' = ToExecute
      BY <2>1, <3>1, SameToExecute
    <3> QED BY <2>1, <2>2, <3>1, <3>2, StillAwaited DEF Comes
  <2> QED BY <2>3, <2>4
<1>2. CASE TakeDone(x) \/ TestOff(x) \/ Free(x)
  <2>1. /\ searches' = searches /\ search' = search /\ queue' = queue /\ current' = current
        /\ \A q \in Queries : q # x => app'[q] = app[q] /\ (q \in given => q \in given')
        /\ app'[x] \in {"done", "deleting", "freed"}
    BY <1>2 DEF TakeDone, TestOff, Free, IInv, TypeOK
  <2>2. Listed' = Listed /\ ToExecute' = ToExecute
    BY <2>1, SameToExecute DEF Listed
  <2> QED BY <2>1, <2>2, StillAwaited DEF Comes
<1> QED BY <1>1, <1>2
        DEF Application, QueryGeneric, QueryAsyncNew, QueryReturn, QueryAsyncGetResults

\* A query that an application waits for is never forgotten, however full the queue is when
\* it begins or when its time is over: the safety half of QueryReturns.
LEMMA AwaitedAlways == Spec => []AwaitedInv
<1>1. Init => AwaitedInv
  <2> SUFFICES ASSUME Init, NEW q \in Queries PROVE app[q] \notin {"waiting", "held"}
    BY DEF AwaitedInv
  <2> QED BY DEF Init
<1>2. AwaitedInv /\ IInv /\ IInv' /\ [Next]_vars => AwaitedInv'
  <2> SUFFICES ASSUME AwaitedInv, IInv, IInv', [Next]_vars PROVE AwaitedInv'
    OBVIOUS
  <2>1. CASE SearchRun
    BY <2>1, SearchRunAwaited
  <2>2. CASE SchedulerRun \/ Input \/ Tick \/ Receive \/ UNCHANGED vars
    BY <2>2, OthersAwaited
  <2>3. CASE SearchAdd \/ SearchSend \/ SearchEnd \/ TxHandle \/ Other
    BY <2>3, ServiceAwaited
  <2>4. CASE \E q \in Queries : Application(q)
    BY <2>4, ApplicationAwaited
  <2> QED BY <2>1, <2>2, <2>3, <2>4 DEF Next, Service
<1> QED BY <1>1, <1>2, Invariant, PTL DEF Spec

\* A query that an application waits for is never forgotten, however full the queue is when
\* it begins or when its time is over: the safety half of QueryReturns.
THEOREM NobodyForgotten == Spec => []NeverForgotten
<1>1. IInv /\ AwaitedInv => NeverForgotten
  <2> SUFFICES ASSUME IInv, AwaitedInv, NEW q \in Queries, app[q] \in {"waiting", "held"}
               PROVE  \/ q \in given
                      \/ [type |-> "ADD", of |-> q] \in Pending
                      \/ /\ q \in ToSet(searches)
                         /\ \/ search[q].state # "OFF"
                            \/ [type |-> "END", of |-> q] \in Pending
    BY DEF NeverForgotten
  <2>1. ToExecute \in Seq(Action)
    BY InHandFacts DEF IInv, TypeOK, ToExecute, InHand
  <2>2. ASSUME NEW type, Comes(type, q)
        PROVE  [type |-> type, of |-> q] \in Pending
    <3>1. PICK k \in 1 .. Len(ToExecute) :
            ToExecute[k].type = type /\ ToExecute[k].of = q
      BY <2>2 DEF Comes, HasIn
    <3>2. ToExecute[k] \in Action
      BY <2>1
    <3>3. ToExecute[k] = [type |-> type, of |-> q]
      BY <3>1, <3>2 DEF Action
    <3>4. DOMAIN ToExecute = 1 .. Len(ToExecute)
      BY <2>1, LenProperties
    <3> QED BY <3>3, <3>4 DEF Pending, ToSet
  <2> QED BY <2>2 DEF AwaitedInv, Listed
<1> QED BY <1>1, Invariant, AwaitedAlways, PTL

=============================================================================

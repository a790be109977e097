------------------------------ MODULE MdnsTask ------------------------------
(***************************************************************************)
(* How the mDNS component gets its work done.  Three kinds of task share    *)
(* it: applications that make queries, the timer, whose callback posts the  *)
(* packets and searches that are due, and the service task, which takes one *)
(* action after the other from a queue of limited length.  The two halves   *)
(* of the callback and the execution of an action each hold the lock and    *)
(* are one step here; the applications do not take it.                      *)
(*                                                                          *)
(* A time is kept as the ticks left until then, -1 once it is over.  The    *)
(* 32-bit millisecond count of the code does not start over here.           *)
(*                                                                          *)
(* An action other than sending and searching (a received packet, a call,   *)
(* an interface event) is abstracted to what it does to the packets and the *)
(* searches, one of the two at a time, which are independent; MdnsResponder  *)
(* models it in full.  The time between two questions of a search is left   *)
(* open.                                                                    *)
(***************************************************************************)
EXTENDS Integers, SequencesExt, MdnsLists

CONSTANTS Queries,   \* mdns_search_once_t: each is allocated once
          Async,     \* those made by mdns_query_async_new
          MaxResults, \* search->max_results, 0 for no limit
          Timeout,   \* search->timeout, in ticks
          Packets,   \* mdns_tx_packet_t: addresses, used again when freed
          Delays,    \* after how many ticks a packet may be scheduled
          QueueLen,  \* MDNS_ACTION_QUEUE_LEN
          MaxInputs, \* bound on other actions, and on packets scheduled again
          NoAction,  \* the service task has no action in hand
          NoOne      \* an action about no packet or search in particular

ASSUME QueriesAssumption == Async \subseteq Queries /\ MaxResults \in [Queries -> Nat]

ASSUME LimitsAssumption ==
  /\ QueueLen \in Nat \ {0}
  /\ Timeout \in Nat
  /\ Delays \subseteq Nat
  /\ MaxInputs \in Nat

Action == [type : {"ADD", "SEND", "END"}, of : Queries]
            \cup [type : {"TX"}, of : Packets] \cup [type : {"OTHER"}, of : {NoOne}]

ASSUME SentinelAssumption == NoAction \notin Action

VARIABLES
  queue,    \* _mdns_server->action_queue
  current,  \* the action the service task has taken and not yet executed
  tx,       \* _mdns_server->tx_queue_head: in the order of send_at
  searches, \* _mdns_server->search_once
  search,   \* per query: its state, number of results and time left
  given,    \* queries whose done_semaphore has been given
  app,      \* what the application that made the query is at
  early,    \* queries deleted on the strength of their state alone
  twice,    \* queries finished as full after their end was posted
  inputs    \* other actions so far

vars == <<queue, current, tx, searches, search, given, app, early, twice, inputs>>

Entry == [packet : Packets, left : Int, queued : BOOLEAN]

\* An application's stages: allocated queries are those that are not idle, refused
\* or freed.
Stages == {"idle", "refused", "waiting", "held", "done", "deleting", "freed"}

TypeOK ==
  /\ queue \in Seq(Action) /\ Len(queue) <= QueueLen
  /\ current \in Action \cup {NoAction}
  /\ tx \in Seq(Entry)
  /\ searches \in Seq(Queries)
  /\ search \in [Queries -> [state : {"OFF", "INIT", "RUNNING"}, results : Nat,
                             left : Int]]
  /\ \A q \in Queries : MaxResults[q] > 0 => search[q].results <= MaxResults[q]
  /\ given \subseteq Queries
  /\ app \in [Queries -> Stages]
  /\ early \subseteq Async /\ twice \subseteq Queries
  /\ inputs \in 0 .. MaxInputs

Init ==
  /\ queue = <<>> /\ current = NoAction
  /\ tx = <<>>
  /\ searches = <<>>
  /\ search = [q \in Queries |-> [state |-> "OFF", results |-> 0, left |-> 0]]
  /\ given = {}
  /\ app = [q \in Queries |-> "idle"]
  /\ early = {} /\ twice = {}
  /\ inputs = 0

----------------------------------------------------------------------------
(* The action queue and the list of scheduled packets *)

\* A changed xQueueSend, which takes one action too many.
HasOneMore == Len(queue) <= QueueLen

HasRoom == Len(queue) < QueueLen

Post(type, of) == Append(queue, [type |-> type, of |-> of])

\* The actions to be executed, in this order.
ToExecute == (IF current = NoAction THEN <<>> ELSE <<current>>) \o queue

Pending == ToSet(ToExecute)

Scheduled == {tx[i].packet : i \in 1 .. Len(tx)}

\* A changed _mdns_schedule_tx_packet, which puts a packet at the front.
SchedulesFirst(list, p, delay) ==
  <<[packet |-> p, left |-> delay, queued |-> FALSE]>> \o list

\* A packet goes behind those that are due no later.
Schedule(list, p, delay) ==
  LET pos == IF list = <<>> \/ list[1].left > delay THEN 0
             ELSE CHOOSE n \in 1 .. Len(list) :
                    /\ \A i \in 2 .. n : list[i].left <= delay
                    /\ n < Len(list) => list[n + 1].left > delay
  IN  SubSeq(list, 1, pos)
        \o <<[packet |-> p, left |-> delay, queued |-> FALSE]>>
        \o SubSeq(list, pos + 1, Len(list))

Overdue(e) == e.left < 0

----------------------------------------------------------------------------
(* The applications *)

NewSearch == [state |-> "INIT", results |-> 0, left |-> Timeout]

\* A search is made and posted, or freed again when the queue is full.
Query(q, next) ==
  /\ app[q] = "idle"
  /\ IF HasRoom
     THEN /\ queue' = Post("ADD", q)
          /\ search' = [search EXCEPT ![q] = NewSearch]
          /\ app' = [app EXCEPT ![q] = next]
     ELSE /\ app' = [app EXCEPT ![q] = "refused"]
          /\ UNCHANGED <<queue, search>>
  /\ UNCHANGED <<current, tx, searches, given, early, twice, inputs>>

QueryGeneric(q) == q \notin Async /\ Query(q, "waiting")
QueryAsyncNew(q) == q \in Async /\ Query(q, "held")

TakeDone(q) ==
  /\ q \in given
  /\ given' = given \ {q}
  /\ app' = [app EXCEPT ![q] = "done"]
  /\ UNCHANGED <<queue, current, tx, searches, search, early, twice, inputs>>

QueryReturn(q) == app[q] = "waiting" /\ TakeDone(q)
QueryAsyncGetResults(q) == app[q] = "held" /\ TakeDone(q)

\* mdns_query_async_delete looks at the state before it takes the lock.
TestOff(q) ==
  /\ q \in Async /\ app[q] \in {"held", "done"}
  /\ search[q].state = "OFF"
  /\ app' = [app EXCEPT ![q] = "deleting"]
  /\ early' = IF app[q] = "held" THEN early \cup {q} ELSE early
  /\ UNCHANGED <<queue, current, tx, searches, search, given, twice, inputs>>

\* A blocked query frees its search without the lock.
Free(q) ==
  /\ \/ q \notin Async /\ app[q] = "done"
     \/ app[q] = "deleting"
  /\ app' = [app EXCEPT ![q] = "freed"]
  /\ UNCHANGED <<queue, current, tx, searches, search, given, early, twice, inputs>>

----------------------------------------------------------------------------
(* The timer, whose callback runs the scheduler and the searches *)

Unqueued == {i \in 1 .. Len(tx) : ~tx[i].queued}
First == CHOOSE i \in Unqueued : \A j \in Unqueued : i <= j

\* The first packet not yet queued is posted if it is due and the queue has room.
SchedulerRun ==
  /\ IF Unqueued # {} /\ Overdue(tx[First]) /\ HasRoom
     THEN /\ tx' = [tx EXCEPT ![First].queued = TRUE]
          /\ queue' = Post("TX", tx[First].packet)
     ELSE UNCHANGED <<tx, queue>>
  /\ UNCHANGED <<current, searches, search, given, app, early, twice, inputs>>

Expired(q) == search[q].left < 0

\* A changed round of _mdns_search_run, which does not try again to post an end.
EndsUnposted(st, q, again) ==
  LET room == Len(st.queue) < QueueLen
      post(type) == IF room THEN Append(st.queue, [type |-> type, of |-> q]) ELSE st.queue
  IN  IF st.search[q].state = "OFF" THEN st
      ELSE IF Expired(q)
      THEN [queue |-> post("END"), search |-> [st.search EXCEPT ![q].state = "OFF"]]
      ELSE [queue |-> post("SEND"), search |-> [st.search EXCEPT ![q].state = "RUNNING"]]

\* One round of the loop: an active search ends, or its question is sent (again).
SearchRound(st, q, again) ==
  LET room == Len(st.queue) < QueueLen
      post(type) == IF room THEN Append(st.queue, [type |-> type, of |-> q]) ELSE st.queue
      to(state) == [st.search EXCEPT ![q].state = state]
  IN  CASE st.search[q].state = "OFF" -> st
        [] st.search[q].state # "OFF" /\ Expired(q) ->
             [queue |-> post("END"), search |-> to(IF room THEN "OFF" ELSE "RUNNING")]
        [] st.search[q].state # "OFF" /\ ~Expired(q) /\ (st.search[q].state = "INIT" \/ again) ->
             [queue |-> post("SEND"), search |-> to("RUNNING")]
        [] OTHER -> st

\* Queue and searches after so many rounds; the questions of "again" are due.
Rounds(again) ==
  LET after[n \in 0 .. Len(searches)] ==
        IF n = 0 THEN [queue |-> queue, search |-> search]
        ELSE SearchRound(after[n - 1], searches[n], searches[n] \in again)
  IN  after

SearchRun ==
  /\ \E again \in SUBSET ToSet(searches) :
       LET st == Rounds(again)[Len(searches)]
       IN  queue' = st.queue /\ search' = st.search
  /\ UNCHANGED <<current, tx, searches, given, app, early, twice, inputs>>

----------------------------------------------------------------------------
(* The service task *)

Receive ==
  /\ current = NoAction /\ queue # <<>>
  /\ current' = Head(queue)
  /\ queue' = Tail(queue)
  /\ UNCHANGED <<tx, searches, search, given, app, early, twice, inputs>>

Execute(type) ==
  /\ current # NoAction /\ current.type = type
  /\ current' = NoAction
  /\ UNCHANGED <<queue, app, early>>

SearchAdd ==
  /\ Execute("ADD")
  /\ searches' = <<current.of>> \o searches
  /\ UNCHANGED <<tx, search, given, twice, inputs>>

\* The question is sent if the search is still in the list; nothing is kept of it.
SearchSend ==
  /\ Execute("SEND")
  /\ UNCHANGED <<tx, searches, search, given, twice, inputs>>

\* A changed _mdns_search_finish, which leaves the search in the list.
FinishesLinked(S) ==
  /\ searches' = searches
  /\ given' = given \cup S

\* _mdns_search_finish, for a set of searches.
Finish(S) ==
  /\ searches' = Without(searches, S)
  /\ given' = given \cup S

SearchEnd ==
  /\ Execute("END")
  /\ Finish({current.of})
  /\ search' = [search EXCEPT ![current.of].state = "OFF"]
  /\ UNCHANGED <<tx, twice, inputs>>

\* The packet is sent if it is the first in the list and marked; then it is done, or
\* scheduled again as the next probe or announcement.
TxHandle ==
  /\ Execute("TX")
  /\ IF tx # <<>> /\ Head(tx).packet = current.of /\ Head(tx).queued
     THEN \/ tx' = Tail(tx) /\ UNCHANGED inputs
          \/ /\ inputs < MaxInputs /\ inputs' = inputs + 1
             /\ \E d \in Delays : tx' = Schedule(Tail(tx), current.of, d)
     ELSE UNCHANGED <<tx, inputs>>
  /\ UNCHANGED <<searches, search, given, twice>>

\* A changed test of the limit, which counts the result still to come.
FullEarly(q, results) == MaxResults[q] > 0 /\ results + 1 >= MaxResults[q]

Full(q, results) == MaxResults[q] > 0 /\ results >= MaxResults[q]

\* _mdns_search_find_from: the searches a record can be a result of.
Active == {q \in ToSet(searches) : search[q].state # "OFF" /\ ~Full(q, search[q].results)}

\* A record is one more result of a search, or adds to a result it already has.
WithResults(got) == [q \in Queries |-> search[q].results + IF q \in got THEN 1 ELSE 0]

\* A packet that is authoritative and can be read to its end also finishes the searches
\* that are full; whether they are still active is not looked at.
Answers ==
  \E got \in SUBSET Active, authoritative \in BOOLEAN :
    LET results == WithResults(got)
        full == {q \in ToSet(searches) : authoritative /\ Full(q, results[q])}
    IN  /\ search' = [q \in Queries |->
                        [search[q] EXCEPT !.results = results[q],
                                          !.state = IF q \in full THEN "OFF" ELSE @]]
        /\ Finish(full)
        /\ twice' = twice \cup {q \in full : search[q].state = "OFF"}

\* Packets are scheduled and, when a pcb starts anew or is closed, freed.
Reschedules ==
  \/ \E p \in Packets \ Scheduled, d \in Delays : tx' = Schedule(tx, p, d)
  \/ \E freed \in SUBSET Scheduled :
       tx' = Without(tx, {e \in ToSet(tx) : e.packet \in freed})

Other ==
  /\ Execute("OTHER")
  /\ UNCHANGED inputs
  /\ \/ Answers /\ UNCHANGED tx
     \/ Reschedules /\ UNCHANGED <<searches, search, given, twice>>

----------------------------------------------------------------------------
(* What comes from outside *)

Input ==
  /\ inputs < MaxInputs /\ HasRoom
  /\ inputs' = inputs + 1
  /\ queue' = Post("OTHER", NoOne)
  /\ UNCHANGED <<current, tx, searches, search, given, app, early, twice>>

Passed(left) == IF left < 0 THEN left ELSE left - 1

Tick ==
  /\ tx' = [i \in 1 .. Len(tx) |-> [tx[i] EXCEPT !.left = Passed(@)]]
  /\ search' = [q \in Queries |-> IF search[q].state = "OFF" THEN search[q]
                                 ELSE [search[q] EXCEPT !.left = Passed(@)]]
  /\ UNCHANGED <<queue, current, searches, given, app, early, twice, inputs>>

----------------------------------------------------------------------------

Service == Receive \/ SearchAdd \/ SearchSend \/ SearchEnd \/ TxHandle \/ Other

Application(q) ==
  \/ QueryGeneric(q) \/ QueryAsyncNew(q) \/ QueryReturn(q) \/ QueryAsyncGetResults(q)
  \/ TestOff(q) \/ Free(q)

Next == SchedulerRun \/ SearchRun \/ Service \/ Input \/ Tick \/ \E q \in Queries : Application(q)

\* The clock, the timer and the service task go on, and a task whose semaphore was
\* given wakes up.  Nobody has to make, look at or delete a query, or send anything.
Fairness ==
  /\ WF_vars(Tick) /\ WF_vars(Service)
  /\ WF_vars(SchedulerRun) /\ WF_vars(SearchRun)
  /\ \A q \in Queries \ Async : WF_vars(QueryReturn(q))

Spec == Init /\ [][Next]_vars /\ Fairness

----------------------------------------------------------------------------
(* Properties *)

\* The packets that were posted to the service task come first in the list, and are
\* posted in its order: TxHandle skips a packet that is not first, for good.
Posted == {i \in 1 .. Len(tx) : tx[i].queued}
TxInOrder ==
  /\ \A i \in Posted : \A j \in 1 .. i : j \in Posted
  /\ \E at \in [Posted -> 1 .. Len(ToExecute)] :
       /\ \A i \in Posted : ToExecute[at[i]] = [type |-> "TX", of |-> tx[i].packet]
       /\ \A i, j \in Posted : i < j => at[i] < at[j]

\* No action and no list entry refers to a search that was freed, but for a query that
\* was deleted while its end was still in the queue, as its state OFF allows, or that
\* a packet finished as full after its end had been posted.
NoFreedSearch ==
  \A q \in Queries \ (early \cup twice) :
    app[q] \in {"idle", "refused", "freed"} =>
      /\ q \notin ToSet(searches)
      /\ ~\E a \in Pending : a.type \in {"ADD", "END"} /\ a.of = q

\* A query is only told of its end when it has the results it asked for or its time
\* is over.
EndsForAReason ==
  [][\A q \in Queries :
       q \in given' \ given =>
         \/ MaxResults[q] > 0 /\ search'[q].results = MaxResults[q]
         \/ search[q].left < 0]_vars

\* A query that an application waits for is never forgotten: its semaphore was given, its
\* addition is in the queue, it is active in the list, or its end is in the queue.
NeverForgotten ==
  \A q \in Queries :
    app[q] \in {"waiting", "held"} =>
      \/ q \in given
      \/ [type |-> "ADD", of |-> q] \in Pending
      \/ /\ q \in ToSet(searches)
         /\ search[q].state # "OFF" \/ [type |-> "END", of |-> q] \in Pending

\* A blocked query returns, however full the queue was when it ran out of time.
QueryReturns ==
  \A q \in Queries : app[q] = "waiting" ~> app[q] # "waiting"

=============================================================================

-------------------------- MODULE MdnsCalls_proof ---------------------------
(***************************************************************************)
(* What module MdnsCalls promises, proved for any tasks, addresses, names,  *)
(* limits and number of calls.                                              *)
(***************************************************************************)
EXTENDS MdnsCalls, MdnsLists_proof, FiniteSetTheorems, SequenceTheorems, TLAPS

Adds(a) == a.type = "SERVICE_ADD"

\* What an action is about, and which may be sure of its service.
WellFormed(a) ==
  /\ a \in Action
  /\ a.type \in {"SERVICE_ADD"} \cup ItemCalls => a.item \in Items
  /\ a.type \in {"HOSTNAME_SET", "DELEGATE_HOSTNAME_ADD"} => a.name \in Hosts
  /\ a.type \in {"INSTANCE_SET", "SERVICE_INSTANCE_SET"} => a.name \in Instances
  /\ a.sure => a.type \in ItemCalls

QueueInv == \A k \in 1 .. Len(queue) : WellFormed(queue[k])

\* A task holds an action only while it is ready to post it.
TaskInv ==
  \A t \in Tasks :
    /\ WellFormed(task[t].action)
    /\ task[t].at = "ready" => task[t].action.type \in {"SERVICE_ADD"} \cup ItemCalls
    /\ task[t].at # "ready" => task[t].action = NoAction

\* A service under way is under way once and not in the list.
FreshInv ==
  /\ \A k \in 1 .. Len(queue) : Adds(queue[k]) => queue[k].item \notin Listed
  /\ \A t \in Tasks : Adds(task[t].action) => task[t].action.item \notin Listed
  /\ \A k, l \in 1 .. Len(queue) :
       Adds(queue[k]) /\ Adds(queue[l]) /\ queue[k].item = queue[l].item => k = l
  /\ \A k \in 1 .. Len(queue), t \in Tasks :
       Adds(queue[k]) /\ Adds(task[t].action) => queue[k].item # task[t].action.item
  /\ \A t, u \in Tasks :
       Adds(task[t].action) /\ Adds(task[u].action)
         /\ task[t].action.item = task[u].action.item => t = u

\* Executing a removes service i from the list.
Removes(a, i) ==
  \/ a.type \in {"SERVICES_CLEAR", "DELEGATE_HOSTNAME_REMOVE"}
  \/ a.type = "SERVICE_DEL" /\ a.item = i

\* Nothing that is queued before a sure action removes its service.
SureInv ==
  /\ \A k \in 1 .. Len(queue) :
       queue[k].sure => /\ queue[k].item \in Listed
                        /\ \A l \in 1 .. k - 1 : ~Removes(queue[l], queue[k].item)
  /\ \A t \in Tasks : task[t].action.sure => task[t].action.item \in Listed

\* Also the services under way have the own hostname, unless it changed.
HostInv ==
  \A i \in (Listed \cup Underway) \ outdated : item[i].own => item[i].host = hostname

\* What was checked for a service under way still holds, unless it was overtaken.
CheckInv ==
  \A i \in Underway \ (raced \cup outdated) :
    /\ Len(services) < MaxServices
    /\ \A j \in Listed :
         item[j].host = item[i].host => NameOf(item[j].instance) # NameOf(item[i].instance)

Waiting == {t \in Tasks : task[t].at = "naming"}

WaitInv == IsFiniteSet(Waiting) /\ WaitersAccounted

IInv ==
  /\ TypeOK /\ QueueInv /\ TaskInv /\ FreshInv /\ SureInv
  /\ HostInv /\ CheckInv /\ WaitInv

CoreInv == QueueInv /\ TaskInv /\ FreshInv /\ SureInv

----------------------------------------------------------------------------
(* What a step can do to the queue and to the tasks                         *)

\* Posting puts an action behind the others.
LEMMA PostFacts ==
  ASSUME TypeOK, NEW a \in Action, Post(a)
  PROVE  /\ queue' \in Seq(Action) /\ Len(queue) \in Nat
         /\ Len(queue') = Len(queue) + 1 /\ Len(queue') <= QueueLen
         /\ queue'[Len(queue) + 1] = a
         /\ \A k \in 1 .. Len(queue) : queue'[k] = queue[k]
<1>1. queue \in Seq(Action) /\ queue' = Append(queue, a) /\ Len(queue) < QueueLen
  BY DEF TypeOK, Post
<1>2. QueueLen \in Nat
  BY LimitsAssumption
<1> HIDE DEF Action
<1> QED BY <1>1, <1>2

\* Executing takes the first one.
LEMMA TailFacts ==
  ASSUME TypeOK, queue # <<>>, queue' = Tail(queue)
  PROVE  /\ queue' \in Seq(Action) /\ Len(queue) \in Nat \ {0}
         /\ Len(queue') = Len(queue) - 1 /\ Len(queue') <= QueueLen
         /\ the = queue[1] /\ the \in Action
         /\ \A k \in 1 .. Len(queue') : queue'[k] = queue[k + 1]
<1>1. queue \in Seq(Action) /\ Len(queue) <= QueueLen
  BY DEF TypeOK
<1>2. QueueLen \in Nat
  BY LimitsAssumption
<1> HIDE DEF Action
<1> QED BY <1>1, <1>2 DEF the

\* The services under way, by the places where they can be.
LEMMA UnderwayAt ==
  ASSUME TypeOK, TaskInv, NEW i
  PROVE  i \in Underway <=> \/ \E k \in 1 .. Len(queue) : Adds(queue[k]) /\ queue[k].item = i
                            \/ \E t \in Tasks : Adds(task[t].action) /\ task[t].action.item = i
<1>1. ToSet(queue) = {queue[k] : k \in 1 .. Len(queue)}
  BY DEF TypeOK, ToSet
<1>2. \A t \in Tasks : Adds(task[t].action) => task[t].at = "ready"
  BY DEF TaskInv, NoAction, Act, Adds
<1> QED BY <1>1, <1>2 DEF Underway, Adds

\* The tasks keep their actions; those that hold none may go on to something else.
SameActions ==
  /\ task' \in [Tasks -> [at : {"idle", "ready", "polling", "naming", "hung"}, action : Action]]
  /\ \A t \in Tasks : /\ task'[t].action = task[t].action
                      /\ task'[t].at = "ready" <=> task[t].at = "ready"

\* Another action that neither adds nor is sure is posted.
LEMMA PostCore ==
  ASSUME TypeOK, CoreInv, NEW a, WellFormed(a), ~Adds(a), ~a.sure, Post(a),
         SameActions, services' = services
  PROVE  CoreInv'
<1>1. /\ Len(queue) \in Nat /\ Len(queue') = Len(queue) + 1
      /\ queue'[Len(queue) + 1] = a
      /\ \A k \in 1 .. Len(queue) : queue'[k] = queue[k]
  BY PostFacts DEF WellFormed
<1>2. Listed' = Listed
  BY DEF Listed
<1>3. \A k \in 1 .. Len(queue') : k \in 1 .. Len(queue) \/ queue'[k] = a
  BY <1>1
<1>4. QueueInv'
  BY <1>1, <1>3 DEF CoreInv, QueueInv
<1>5. TaskInv'
  BY DEF CoreInv, TaskInv, SameActions
<1>6. FreshInv'
  BY <1>1, <1>2, <1>3 DEF CoreInv, FreshInv, SameActions
<1>7. SureInv'
  BY <1>1, <1>2, <1>3 DEF CoreInv, SureInv, SameActions
<1> QED BY <1>4, <1>5, <1>6, <1>7 DEF CoreInv

\* Nothing happens to queue, actions and list.
LEMMA StillCore ==
  ASSUME CoreInv, queue' = queue, SameActions, services' = services
  PROVE  CoreInv'
  BY DEF CoreInv, QueueInv, TaskInv, FreshInv, SureInv, SameActions, Listed

\* A task is ready to post an action: it adds a new service, or is sure of a listed one.
LEMMA ReadyCore ==
  ASSUME TypeOK, CoreInv, NEW t \in Tasks, NEW a, WellFormed(a),
         a.type \in {"SERVICE_ADD"} \cup ItemCalls,
         Adds(a) => a.item \notin Listed \cup Underway,
         a.sure => a.item \in Listed,
         task' = [task EXCEPT ![t] = [at |-> "ready", action |-> a]],
         queue' = queue, services' = services
  PROVE  CoreInv'
<1>1. Listed' = Listed
  BY DEF Listed
<1>2. /\ task'[t].action = a /\ task'[t].at = "ready"
      /\ \A u \in Tasks \ {t} : task'[u] = task[u]
  BY DEF TypeOK
<1>3. QueueInv'
  BY DEF CoreInv, QueueInv
<1>4. TaskInv'
  BY <1>2 DEF CoreInv, TaskInv
<1>5. Adds(a) => /\ a.item \notin Listed
                 /\ \A k \in 1 .. Len(queue) : Adds(queue[k]) => queue[k].item # a.item
                 /\ \A u \in Tasks : Adds(task[u].action) => task[u].action.item # a.item
  BY UnderwayAt DEF CoreInv
<1>6. FreshInv'
  BY <1>1, <1>2, <1>5 DEF CoreInv, FreshInv
<1>7. SureInv'
  BY <1>1, <1>2 DEF CoreInv, SureInv
<1> QED BY <1>3, <1>4, <1>6, <1>7 DEF CoreInv

\* An action that no task holds.
LEMMA NoActionFacts ==
  WellFormed(NoAction) /\ ~Adds(NoAction) /\ ~NoAction.sure /\ NoAction.type = "RX_HANDLE"
  BY DEF WellFormed, NoAction, Act, Adds, Action, ItemCalls

\* What Send posts is the action, and sure only where nothing removes its service first.
LEMMA PostedFacts ==
  ASSUME TypeOK, NEW a, WellFormed(a)
  PROVE  LET b == [a EXCEPT !.sure = @ /\ ~RemovalAhead(a.item)]
         IN  /\ WellFormed(b) /\ b.type = a.type /\ b.item = a.item /\ (Adds(b) <=> Adds(a))
             /\ b.sure => /\ a.sure
                          /\ \A l \in 1 .. Len(queue) : ~Removes(queue[l], a.item)
<1> DEFINE ahead == RemovalAhead(a.item)
           b == [a EXCEPT !.sure = @ /\ ~ahead]
<1>1. ahead \in BOOLEAN
  BY DEF RemovalAhead
<1>2. ~ahead => \A l \in 1 .. Len(queue) : ~Removes(queue[l], a.item)
  BY DEF RemovalAhead, Removes, TypeOK, ToSet
<1> HIDE DEF ahead
<1>3. a \in Action /\ b.type = a.type /\ b.item = a.item /\ b.name = a.name
  BY DEF WellFormed, Action
<1>4. b.sure = (a.sure /\ ~ahead) /\ b.sure \in BOOLEAN
  BY <1>3 DEF Action
<1>5. b \in Action
  BY <1>1, <1>3 DEF Action
<1> HIDE DEF b
<1>6. WellFormed(b) /\ (Adds(b) <=> Adds(a))
  BY <1>3, <1>4, <1>5 DEF WellFormed, Adds
<1>7. b.sure => a.sure /\ ~ahead
  BY <1>4
<1>8. b.sure => a.sure /\ \A l \in 1 .. Len(queue) : ~Removes(queue[l], a.item)
  BY <1>2, <1>7
<1> QED BY <1>3, <1>6, <1>8 DEF b, ahead

\* The task that posts holds its action no longer.
Sent(t, at) == task' = [task EXCEPT ![t] = [at |-> at, action |-> NoAction]]

\* The task has let go of its action.
LEMMA SentFacts ==
  ASSUME TypeOK, NEW t \in Tasks, NEW at, Sent(t, at)
  PROVE  /\ task'[t].action = NoAction /\ task'[t].at = at
         /\ \A u \in Tasks \ {t} : task'[u] = task[u]
  BY DEF Sent, TypeOK

\* The action goes from the task into the queue.
LEMMA SendCore ==
  ASSUME TypeOK, CoreInv, NEW t \in Tasks, NEW at \in {"idle", "polling"}, Sent(t, at),
         NEW b, WellFormed(b), Post(b), Adds(b) <=> Adds(task[t].action),
         b.item = task[t].action.item,
         b.sure => /\ task[t].action.sure
                   /\ \A l \in 1 .. Len(queue) : ~Removes(queue[l], b.item),
         services' = services
  PROVE  CoreInv'
<1>1. Listed' = Listed
  BY DEF Listed
<1>2. /\ Len(queue) \in Nat /\ Len(queue') = Len(queue) + 1
      /\ queue'[Len(queue) + 1] = b
      /\ \A k \in 1 .. Len(queue) : queue'[k] = queue[k]
  BY PostFacts DEF WellFormed
<1>3. \A k \in 1 .. Len(queue') : k \in 1 .. Len(queue) \/ k = Len(queue) + 1
  BY <1>2
<1>4. /\ task'[t].action = NoAction /\ task'[t].at # "ready"
      /\ \A u \in Tasks \ {t} : task'[u] = task[u]
      /\ ~Adds(NoAction) /\ ~NoAction.sure
  BY SentFacts, NoActionFacts
<1>5. \A u \in Tasks : Adds(task'[u].action) => u # t /\ task'[u] = task[u]
  BY <1>4
<1>6. QueueInv'
  BY <1>2, <1>3 DEF CoreInv, QueueInv
<1>7. TaskInv'
  BY <1>4, NoActionFacts DEF CoreInv, TaskInv
<1>8. FreshInv'
  BY <1>1, <1>2, <1>3, <1>5 DEF CoreInv, FreshInv
<1>9. SureInv'
  BY <1>1, <1>2, <1>3, <1>4 DEF CoreInv, SureInv
<1> QED BY <1>6, <1>7, <1>8, <1>9 DEF CoreInv

\* The action comes to nothing.
LEMMA FailCore ==
  ASSUME TypeOK, CoreInv, NEW t \in Tasks, Sent(t, "idle"), queue' = queue, services' = services
  PROVE  CoreInv'
<1>1. Listed' = Listed
  BY DEF Listed
<1>2. /\ task'[t].action = NoAction /\ task'[t].at = "idle"
      /\ \A u \in Tasks \ {t} : task'[u] = task[u]
      /\ ~Adds(NoAction) /\ ~NoAction.sure
  BY SentFacts, NoActionFacts
<1>3. \A u \in Tasks : Adds(task'[u].action) => u # t /\ task'[u] = task[u]
  BY <1>2
<1>4. QueueInv'
  BY DEF CoreInv, QueueInv
<1>5. TaskInv'
  BY <1>2, NoActionFacts DEF CoreInv, TaskInv
<1>6. FreshInv'
  BY <1>1, <1>3 DEF CoreInv, FreshInv
<1>7. SureInv'
  BY <1>1, <1>2 DEF CoreInv, SureInv
<1> QED BY <1>4, <1>5, <1>6, <1>7 DEF CoreInv

\* An action is executed that leaves the list alone.
LEMMA TailCore ==
  ASSUME TypeOK, CoreInv, queue # <<>>, queue' = Tail(queue), task' = task, services' = services
  PROVE  CoreInv'
<1>1. Listed' = Listed
  BY DEF Listed
<1>2. /\ Len(queue) \in Nat \ {0} /\ Len(queue') = Len(queue) - 1
      /\ \A k \in 1 .. Len(queue') : queue'[k] = queue[k + 1]
  BY TailFacts
<1>3. \A k \in 1 .. Len(queue') : k + 1 \in 1 .. Len(queue)
  BY <1>2
<1>4. QueueInv'
  BY <1>2, <1>3 DEF CoreInv, QueueInv
<1>5. TaskInv'
  BY DEF CoreInv, TaskInv
<1>6. FreshInv'
  BY <1>1, <1>2, <1>3 DEF CoreInv, FreshInv
<1>7. SureInv'
  <2>1. ASSUME NEW k \in 1 .. Len(queue'), queue'[k].sure
        PROVE  queue'[k].item \in Listed
                 /\ \A l \in 1 .. k - 1 : ~Removes(queue'[l], queue'[k].item)
    <3>1. queue'[k] = queue[k + 1] /\ k + 1 \in 1 .. Len(queue)
      BY <1>2, <1>3
    <3>2. \A l \in 1 .. k - 1 : l + 1 \in 1 .. (k + 1) - 1 /\ queue'[l] = queue[l + 1]
      BY <1>2
    <3> QED BY <2>1, <3>1, <3>2 DEF CoreInv, SureInv
  <2> QED BY <1>1, <2>1 DEF CoreInv, SureInv
<1> QED BY <1>4, <1>5, <1>6, <1>7 DEF CoreInv

\* The service that is added was under way until now.
LEMMA AddCore ==
  ASSUME TypeOK, CoreInv, queue # <<>>, queue' = Tail(queue), task' = task,
         Adds(the), Listed' = Listed \cup {the.item}
  PROVE  CoreInv'
<1>1. /\ Len(queue) \in Nat \ {0} /\ Len(queue') = Len(queue) - 1 /\ the = queue[1]
      /\ \A k \in 1 .. Len(queue') : queue'[k] = queue[k + 1]
  BY TailFacts
<1>2. 1 \in 1 .. Len(queue) /\ \A k \in 1 .. Len(queue') : k + 1 \in 1 .. Len(queue) /\ k + 1 # 1
  BY <1>1
<1>3. QueueInv'
  BY <1>1, <1>2 DEF CoreInv, QueueInv
<1>4. TaskInv'
  BY DEF CoreInv, TaskInv
<1>5. FreshInv'
  <2>1. \A k \in 1 .. Len(queue') : Adds(queue'[k]) => queue'[k].item \notin Listed'
    BY <1>1, <1>2 DEF CoreInv, FreshInv
  <2>2. \A t \in Tasks : Adds(task[t].action) => task[t].action.item \notin Listed'
    BY <1>1, <1>2 DEF CoreInv, FreshInv
  <2>3. \A k, l \in 1 .. Len(queue') :
          Adds(queue'[k]) /\ Adds(queue'[l]) /\ queue'[k].item = queue'[l].item => k = l
    BY <1>1, <1>2 DEF CoreInv, FreshInv
  <2> QED BY <1>1, <1>2, <2>1, <2>2, <2>3 DEF CoreInv, FreshInv
<1>6. SureInv'
  <2>1. ASSUME NEW k \in 1 .. Len(queue'), queue'[k].sure
        PROVE  queue'[k].item \in Listed
                 /\ \A l \in 1 .. k - 1 : ~Removes(queue'[l], queue'[k].item)
    <3>1. queue'[k] = queue[k + 1] /\ k + 1 \in 1 .. Len(queue)
      BY <1>1, <1>2
    <3>2. \A l \in 1 .. k - 1 : l + 1 \in 1 .. (k + 1) - 1 /\ queue'[l] = queue[l + 1]
      BY <1>1
    <3> QED BY <2>1, <3>1, <3>2 DEF CoreInv, SureInv
  <2> QED BY <2>1 DEF CoreInv, SureInv
<1> QED BY <1>3, <1>4, <1>5, <1>6 DEF CoreInv

\* The tasks are not sure of the services of S any longer.
TasksUnsure(S) ==
  task' = [t \in Tasks |-> IF task[t].action.item \in S
                           THEN [task[t] EXCEPT !.action.sure = FALSE] ELSE task[t]]

SameButSure(b, a) == b.type = a.type /\ b.item = a.item /\ b.name = a.name /\ ~b.sure

\* An action that is no longer sure.
LEMMA Unsure ==
  ASSUME NEW a \in Action
  PROVE  [a EXCEPT !.sure = FALSE] \in Action /\ SameButSure([a EXCEPT !.sure = FALSE], a)
  BY DEF Action, SameButSure

\* Services are freed; whoever was sure of one in the queue is not concerned.
LEMMA FreeCore ==
  ASSUME TypeOK, CoreInv, queue # <<>>, queue' = Tail(queue),
         NEW S, S \subseteq Listed, \A i \in S : Removes(the, i),
         Listed' = Listed \ S,
         TasksUnsure(S)
  PROVE  CoreInv'
<1>1. /\ Len(queue) \in Nat \ {0} /\ Len(queue') = Len(queue) - 1 /\ the = queue[1]
      /\ \A k \in 1 .. Len(queue') : queue'[k] = queue[k + 1]
  BY TailFacts
<1>2. 1 \in 1 .. Len(queue) /\ \A k \in 1 .. Len(queue') : k + 1 \in 1 .. Len(queue) /\ k + 1 # 1
  BY <1>1
<1>3. ASSUME NEW t \in Tasks
      PROVE  /\ task'[t].at = task[t].at /\ task'[t].action.type = task[t].action.type
             /\ task'[t].action.item = task[t].action.item
             /\ task'[t].action.name = task[t].action.name
             /\ task'[t].action \in Action
             /\ task'[t].action.sure => task[t].action.sure /\ task[t].action.item \notin S
             /\ task[t].action.item \notin S => task'[t] = task[t]
  <2>1. task[t] \in [at : {"idle", "ready", "polling", "naming", "hung"}, action : Action]
    BY DEF TypeOK
  <2>2. CASE task[t].action.item \in S
    <3>1. task'[t] = [task[t] EXCEPT !.action.sure = FALSE]
      BY <2>2 DEF TasksUnsure
    <3>2. task'[t] = [task[t] EXCEPT !.action = [@ EXCEPT !.sure = FALSE]]
      BY <3>1
    <3>3. /\ task'[t].at = task[t].at
          /\ task'[t].action = [task[t].action EXCEPT !.sure = FALSE]
      BY <2>1, <3>2
    <3>4. task[t].action \in Action
      BY <2>1
    <3>5. task'[t].action \in Action /\ SameButSure(task'[t].action, task[t].action)
      BY <3>3, <3>4, Unsure
    <3> QED BY <2>2, <3>3, <3>5 DEF SameButSure
  <2>3. CASE task[t].action.item \notin S
    <3>1. task'[t] = task[t]
      BY <2>3 DEF TasksUnsure
    <3> QED BY <2>1, <2>3, <3>1
  <2> QED BY <2>2, <2>3
<1>4. QueueInv'
  BY <1>1, <1>2 DEF CoreInv, QueueInv
<1>5. TaskInv'
  <2>1. ASSUME NEW t \in Tasks, task[t].at # "ready" PROVE task'[t] = task[t]
    <3>1. task[t].action = NoAction
      BY <2>1 DEF CoreInv, TaskInv
    <3>2. task[t].action.item \notin Items
      BY <3>1, NoneAssumption DEF NoAction, Act
    <3>3. Listed \subseteq Items
      BY DEF TypeOK, Listed, ToSet
    <3> QED BY <1>3, <3>2, <3>3
  <2>2. \A t \in Tasks : WellFormed(task'[t].action)
    BY <1>3 DEF CoreInv, TaskInv, WellFormed
  <2>3. ASSUME NEW t \in Tasks
        PROVE  /\ task'[t].at = "ready" =>
                    task'[t].action.type \in {"SERVICE_ADD"} \cup ItemCalls
               /\ task'[t].at # "ready" => task'[t].action = NoAction
    <3>1. CASE task[t].at = "ready"
      BY <1>3, <3>1 DEF CoreInv, TaskInv
    <3>2. CASE task[t].at # "ready"
      <4>1. task'[t] = task[t]
        BY <2>1, <3>2
      <4>2. task[t].action = NoAction
        BY <3>2 DEF CoreInv, TaskInv
      <4> QED BY <3>2, <4>1, <4>2
    <3> QED BY <3>1, <3>2
  <2>4. ItemCalls' = ItemCalls /\ NoAction' = NoAction
    BY DEF ItemCalls, NoAction, Act
  <2> QED BY <2>2, <2>3, <2>4 DEF TaskInv
<1>6. FreshInv'
  BY <1>1, <1>2, <1>3 DEF CoreInv, FreshInv, Adds
<1>7. SureInv'
  <2>1. ASSUME NEW k \in 1 .. Len(queue'), queue'[k].sure
        PROVE  queue'[k].item \in Listed \ S
                 /\ \A l \in 1 .. k - 1 : ~Removes(queue'[l], queue'[k].item)
    <3>1. queue'[k] = queue[k + 1] /\ k + 1 \in 1 .. Len(queue) /\ 1 \in 1 .. (k + 1) - 1
      BY <1>1, <1>2
    <3>2. \A l \in 1 .. k - 1 : l + 1 \in 1 .. (k + 1) - 1 /\ queue'[l] = queue[l + 1]
      BY <1>1
    <3>3. ~Removes(the, queue'[k].item)
      BY <1>1, <2>1, <3>1 DEF CoreInv, SureInv
    <3> QED BY <2>1, <3>1, <3>2, <3>3 DEF CoreInv, SureInv
  <2> QED BY <1>3, <2>1 DEF CoreInv, SureInv
<1> QED BY <1>4, <1>5, <1>6, <1>7 DEF CoreInv

----------------------------------------------------------------------------
(* What a step does to the services under way                               *)

\* The same after a step.
LEMMA UnderwayThen ==
  ASSUME TypeOK', TaskInv', NEW i
  PROVE  i \in Underway' <=>
           \/ \E k \in 1 .. Len(queue') : Adds(queue'[k]) /\ queue'[k].item = i
           \/ \E t \in Tasks : Adds(task'[t].action) /\ task'[t].action.item = i
<1>1. ToSet(queue') = {queue'[k] : k \in 1 .. Len(queue')}
  <2>1. queue' \in Seq(Action)
    BY DEF TypeOK
  <2>2. DOMAIN queue' = 1 .. Len(queue')
    BY <2>1, LenProperties
  <2> QED BY <2>2 DEF ToSet
<1>2. \A t \in Tasks : Adds(task'[t].action) => task'[t].at = "ready"
  BY DEF TaskInv, NoAction, Act, Adds
<1> QED BY <1>1, <1>2 DEF Underway, Adds

\* It is added by the first action of the queue, by another one, or by a task.
LEMMA UnderwayAhead ==
  ASSUME TypeOK, CoreInv, queue # <<>>, queue' = Tail(queue), NEW i
  PROVE  i \in Underway <=>
           \/ Adds(the) /\ the.item = i
           \/ \E k \in 1 .. Len(queue') : Adds(queue'[k]) /\ queue'[k].item = i
           \/ \E t \in Tasks : Adds(task[t].action) /\ task[t].action.item = i
<1>1. /\ Len(queue) \in Nat \ {0} /\ Len(queue') = Len(queue) - 1 /\ the = queue[1]
      /\ \A k \in 1 .. Len(queue') : queue'[k] = queue[k + 1]
  BY TailFacts
<1>2. /\ 1 \in 1 .. Len(queue)
      /\ \A k \in 1 .. Len(queue) :
           k = 1 \/ (k - 1 \in 1 .. Len(queue') /\ queue'[k - 1] = queue[k])
      /\ \A k \in 1 .. Len(queue') : k + 1 \in 1 .. Len(queue)
  BY <1>1
<1>3. (\E k \in 1 .. Len(queue) : Adds(queue[k]) /\ queue[k].item = i) <=>
        \/ Adds(the) /\ the.item = i
        \/ \E k \in 1 .. Len(queue') : Adds(queue'[k]) /\ queue'[k].item = i
  <2>1. ASSUME NEW k \in 1 .. Len(queue), Adds(queue[k]), queue[k].item = i
        PROVE  \/ Adds(the) /\ the.item = i
               \/ \E l \in 1 .. Len(queue') : Adds(queue'[l]) /\ queue'[l].item = i
    <3>1. CASE k = 1
      BY <1>1, <2>1, <3>1
    <3>2. CASE k # 1
      BY <1>2, <2>1, <3>2
    <3> QED BY <3>1, <3>2
  <2>2. ASSUME Adds(the), the.item = i
        PROVE  \E k \in 1 .. Len(queue) : Adds(queue[k]) /\ queue[k].item = i
    BY <1>1, <1>2, <2>2
  <2>3. ASSUME NEW k \in 1 .. Len(queue'), Adds(queue'[k]), queue'[k].item = i
        PROVE  \E l \in 1 .. Len(queue) : Adds(queue[l]) /\ queue[l].item = i
    BY <1>1, <1>2, <2>3
  <2> QED BY <2>1, <2>2, <2>3
<1> QED BY <1>3, UnderwayAt DEF CoreInv

\* Executing an action takes from them what it adds, and nothing else.
LEMMA TailUnderway ==
  ASSUME TypeOK, CoreInv, TypeOK', CoreInv', queue # <<>>, queue' = Tail(queue),
         \A t \in Tasks : /\ Adds(task'[t].action) <=> Adds(task[t].action)
                          /\ task'[t].action.item = task[t].action.item
  PROVE  Underway' = IF Adds(the) THEN Underway \ {the.item} ELSE Underway
<1>1. ASSUME NEW i
      PROVE  /\ i \in Underway' => i \in Underway
             /\ i \in Underway => i \in Underway' \/ (Adds(the) /\ the.item = i)
  BY UnderwayAhead, UnderwayThen DEF CoreInv
<1>2. Adds(the) => the.item \notin Underway'
  <2> SUFFICES ASSUME Adds(the) PROVE the.item \notin Underway'
    OBVIOUS
  <2>1. /\ Len(queue) \in Nat \ {0} /\ Len(queue') = Len(queue) - 1 /\ the = queue[1]
        /\ \A k \in 1 .. Len(queue') : queue'[k] = queue[k + 1]
    BY TailFacts
  <2>2. 1 \in 1 .. Len(queue) /\ \A k \in 1 .. Len(queue') : k + 1 \in 1 .. Len(queue) /\ k + 1 # 1
    BY <2>1
  <2>3. \A k \in 1 .. Len(queue') : Adds(queue'[k]) => queue'[k].item # the.item
    BY <2>1, <2>2 DEF CoreInv, FreshInv
  <2>4. \A t \in Tasks : Adds(task[t].action) => task[t].action.item # the.item
    BY <2>1, <2>2 DEF CoreInv, FreshInv
  <2> QED BY <2>3, <2>4, UnderwayThen DEF CoreInv
<1> QED BY <1>1, <1>2

\* Posting something that adds nothing leaves them.
LEMMA PostUnderway ==
  ASSUME TypeOK, CoreInv, TypeOK', CoreInv', NEW a \in Action, ~Adds(a), Post(a), SameActions
  PROVE  Underway' = Underway
<1>1. /\ Len(queue) \in Nat /\ Len(queue') = Len(queue) + 1
      /\ queue'[Len(queue) + 1] = a
      /\ \A k \in 1 .. Len(queue) : queue'[k] = queue[k]
  BY PostFacts
<1>2. /\ \A k \in 1 .. Len(queue') : k \in 1 .. Len(queue) \/ queue'[k] = a
      /\ \A k \in 1 .. Len(queue) : k \in 1 .. Len(queue')
  BY <1>1
<1>3. ASSUME NEW i PROVE i \in Underway' <=> i \in Underway
  BY <1>1, <1>2, UnderwayAt, UnderwayThen DEF CoreInv, SameActions
<1> QED BY <1>3

\* The same services are under way when no action has moved.
LEMMA StillUnderway ==
  ASSUME TypeOK, CoreInv, TypeOK', CoreInv', queue' = queue, SameActions
  PROVE  Underway' = Underway
<1>1. ASSUME NEW i PROVE i \in Underway' <=> i \in Underway
  BY UnderwayAt, UnderwayThen DEF CoreInv, SameActions
<1> QED BY <1>1

\* A task that had no action and has one now.
LEMMA ReadyUnderway ==
  ASSUME TypeOK, CoreInv, TypeOK', CoreInv', NEW t \in Tasks, NEW a, ~Adds(task[t].action),
         task' = [task EXCEPT ![t] = [at |-> "ready", action |-> a]], queue' = queue
  PROVE  Underway' = IF Adds(a) THEN Underway \cup {a.item} ELSE Underway
<1>1. /\ task'[t].action = a
      /\ \A u \in Tasks \ {t} : task'[u] = task[u]
  BY DEF TypeOK
<1>2. ASSUME NEW i PROVE i \in Underway' <=> (i \in Underway \/ (Adds(a) /\ a.item = i))
  BY <1>1, UnderwayAt, UnderwayThen DEF CoreInv
<1> QED BY <1>2

\* From the task into the queue they are still under way.
LEMMA SendUnderway ==
  ASSUME TypeOK, CoreInv, TypeOK', CoreInv', NEW t \in Tasks, NEW at, Sent(t, at),
         NEW b \in Action, Post(b), Adds(b) <=> Adds(task[t].action),
         b.item = task[t].action.item
  PROVE  Underway' = Underway
<1>1. /\ Len(queue) \in Nat /\ Len(queue') = Len(queue) + 1
      /\ queue'[Len(queue) + 1] = b
      /\ \A k \in 1 .. Len(queue) : queue'[k] = queue[k]
  BY PostFacts
<1>2. /\ \A k \in 1 .. Len(queue') : k \in 1 .. Len(queue) \/ queue'[k] = b
      /\ \A k \in 1 .. Len(queue) : k \in 1 .. Len(queue')
      /\ Len(queue) + 1 \in 1 .. Len(queue')
  BY <1>1
<1>3. /\ ~Adds(task'[t].action)
      /\ \A u \in Tasks \ {t} : task'[u] = task[u]
  BY SentFacts, NoActionFacts
<1>4. ASSUME NEW i, i \in Underway' PROVE i \in Underway
  BY <1>1, <1>2, <1>3, <1>4, UnderwayAt, UnderwayThen DEF CoreInv
<1>5. ASSUME NEW i, i \in Underway PROVE i \in Underway'
  BY <1>1, <1>2, <1>3, <1>5, UnderwayAt, UnderwayThen DEF CoreInv
<1> QED BY <1>4, <1>5

\* One whose action could not be posted is not.
LEMMA FailUnderway ==
  ASSUME TypeOK, CoreInv, TypeOK', CoreInv', NEW t \in Tasks, Sent(t, "idle"), queue' = queue
  PROVE  /\ Underway' \subseteq Underway
         /\ Adds(task[t].action) => task[t].action.item \notin Underway'
<1>1. /\ ~Adds(task'[t].action)
      /\ \A u \in Tasks \ {t} : task'[u] = task[u]
  BY SentFacts, NoActionFacts
<1>2. ASSUME NEW i, i \in Underway' PROVE i \in Underway
  BY <1>1, <1>2, UnderwayAt, UnderwayThen DEF CoreInv
<1>3. ASSUME Adds(task[t].action) PROVE task[t].action.item \notin Underway'
  <2>1. \A k \in 1 .. Len(queue) : Adds(queue[k]) => queue[k].item # task[t].action.item
    BY <1>3 DEF CoreInv, FreshInv
  <2>2. \A u \in Tasks : Adds(task'[u].action) => task'[u].action.item # task[t].action.item
    BY <1>1, <1>3 DEF CoreInv, FreshInv
  <2> QED BY <2>1, <2>2, UnderwayThen DEF CoreInv
<1> QED BY <1>2, <1>3

----------------------------------------------------------------------------
(* The services of the own hostname, and what was checked                    *)

HostCheck == HostInv /\ CheckInv

\* Nothing happens to names and list, nor to the services concerned.
LEMMA SameHostCheck ==
  ASSUME HostCheck, services' = services, hostname' = hostname, instance' = instance,
         Underway' \subseteq Underway, raced' = raced, outdated' = outdated,
         \A i \in Listed \cup Underway' : item'[i] = item[i]
  PROVE  HostCheck'
<1>1. Listed' = Listed
  BY DEF Listed
<1>2. \A n : NameOf(n)' = NameOf(n)
  BY DEF NameOf
<1>3. HostInv'
  BY <1>1 DEF HostCheck, HostInv
<1>4. CheckInv'
  BY <1>1, <1>2 DEF HostCheck, CheckInv
<1> QED BY <1>3, <1>4 DEF HostCheck

\* A name changes: what is under way is outdated, what is listed follows.
LEMMA NewNameHostCheck ==
  ASSUME HostCheck, services' = services, Underway' \subseteq Underway, raced' = raced,
         outdated' = outdated \cup Underway,
         \A i \in Listed : /\ item'[i].own = item[i].own
                           /\ item[i].host = hostname => item'[i].host = hostname'
  PROVE  HostCheck'
<1>1. Listed' = Listed
  BY DEF Listed
<1>2. HostInv'
  BY <1>1 DEF HostCheck, HostInv
<1>3. CheckInv'
  BY DEF CheckInv
<1> QED BY <1>2, <1>3 DEF HostCheck

\* What was under way is added: the others were checked without it.
LEMMA AddHostCheck ==
  ASSUME HostCheck, NEW i \in Underway, Listed' = Listed \cup {i}, Underway' = Underway \ {i},
         raced' = raced \cup (Underway \ {i}), outdated' = outdated,
         item' = item, hostname' = hostname
  PROVE  HostCheck'
<1>1. HostInv'
  BY DEF HostCheck, HostInv
<1>2. CheckInv'
  BY DEF CheckInv
<1> QED BY <1>1, <1>2 DEF HostCheck

\* Services leave the list.
LEMMA FreeHostCheck ==
  ASSUME HostCheck, TypeOK, NEW S, Listed' = Listed \ S, services' \in Seq(Items),
         Len(services') <= Len(services), Underway' = Underway, S \cap Underway = {},
         Listed \cap Underway = {},
         \A i \in Listed \cup Underway : i \notin S => item'[i] = item[i],
         raced' = raced, outdated' = outdated, hostname' = hostname, instance' = instance
  PROVE  HostCheck'
<1>1. \A n : NameOf(n)' = NameOf(n)
  BY DEF NameOf
<1>2. HostInv'
  BY DEF HostCheck, HostInv
<1>3. Len(services') \in Nat /\ Len(services) \in Nat /\ MaxServices \in Nat
  BY LimitsAssumption DEF TypeOK
<1>4. CheckInv'
  <2> SUFFICES ASSUME NEW i \in Underway \ (raced \cup outdated)
               PROVE  /\ Len(services') < MaxServices
                      /\ \A j \in Listed' : item'[j].host = item'[i].host =>
                           NameOf(item'[j].instance) # NameOf(item'[i].instance)
    BY <1>1 DEF CheckInv
  <2>1. /\ Len(services) < MaxServices
        /\ \A j \in Listed : item[j].host = item[i].host =>
             NameOf(item[j].instance) # NameOf(item[i].instance)
    BY DEF HostCheck, CheckInv
  <2>2. item'[i] = item[i] /\ \A j \in Listed' : item'[j] = item[j] /\ j \in Listed
    OBVIOUS
  <2>3. Len(services') < MaxServices
    BY <1>3, <2>1
  <2>4. \A j \in Listed' : item'[j].host = item'[i].host =>
          NameOf(item'[j].instance) # NameOf(item'[i].instance)
    BY <2>1, <2>2
  <2> QED BY <2>3, <2>4
<1> QED BY <1>2, <1>4 DEF HostCheck

\* A service is made for a call that found room for it and no other of its name.
LEMMA NewHostCheck ==
  ASSUME HostCheck, TypeOK, NEW i \in Items, i \notin Listed \cup Underway,
         NEW inst, NEW host, Lookup(inst, host) = NoItem, CanAddMoreServices,
         item' = [item EXCEPT ![i] = [instance |-> inst, host |-> host, own |-> host = hostname]],
         Underway' = Underway \cup {i}, services' = services,
         hostname' = hostname, instance' = instance,
         raced' = raced \ {i}, outdated' = outdated \ {i}
  PROVE  HostCheck'
<1>1. Listed' = Listed /\ services \in Seq(Items)
  BY DEF Listed, TypeOK
<1>2. \A n : NameOf(n)' = NameOf(n)
  BY DEF NameOf
<1>3. /\ item'[i] = [instance |-> inst, host |-> host, own |-> host = hostname]
      /\ \A j \in Items \ {i} : item'[j] = item[j]
      /\ Listed \subseteq Items
  BY <1>1 DEF TypeOK, Listed, ToSet
<1>4. \A k \in 1 .. Len(services) : ~Matches(services[k], inst, host)
  <2> DEFINE found == {k \in 1 .. Len(services) : Matches(services[k], inst, host)}
  <2> SUFFICES ASSUME found # {} PROVE FALSE
    OBVIOUS
  <2>1. found \in SUBSET Nat
    BY <1>1
  <2>2. \E k \in found : \A l \in found : k <= l
    <3> HIDE DEF found
    <3> QED BY <2>1, Smallest
  <2>3. Lookup(inst, host) \in Items
    <3>1. PICK k \in found : k = CHOOSE m \in found : \A l \in found : m <= l
      BY <2>2
    <3>2. Lookup(inst, host) = services[k]
      BY <3>1 DEF Lookup
    <3> QED BY <1>1, <3>2
  <2> QED BY <2>3, NoneAssumption
<1>5. \A j \in Listed : ~Matches(j, inst, host)
  BY <1>1, <1>4 DEF Listed, ToSet
<1>6. HostInv'
  <2> SUFFICES ASSUME NEW x \in (Listed \cup Underway') \ outdated', item'[x].own
               PROVE  item'[x].host = hostname
    BY <1>1 DEF HostInv
  <2>1. CASE x = i
    <3>1. item'[x].own = (host = hostname) /\ item'[x].host = host
      BY <1>3, <2>1
    <3> QED BY <3>1
  <2>2. CASE x # i
    <3>1. x \in (Listed \cup Underway) \ outdated
      BY <2>2
    <3>2. item'[x] = item[x]
      BY <2>2 DEF TypeOK
    <3> QED BY <3>1, <3>2 DEF HostCheck, HostInv
  <2> QED BY <2>1, <2>2
<1>7. CheckInv'
  <2> SUFFICES ASSUME NEW x \in Underway' \ (raced' \cup outdated')
               PROVE  /\ Len(services) < MaxServices
                      /\ \A j \in Listed : item'[j].host = item'[x].host =>
                           NameOf(item'[j].instance) # NameOf(item'[x].instance)
    BY <1>1, <1>2 DEF CheckInv
  <2>1. CASE x = i
    <3>1. \A j \in Listed : item'[j] = item[j]
      BY <1>3
    <3>2. \A j \in Listed : item[j].host = host => NameOf(item[j].instance) # NameOf(inst)
      BY <1>5 DEF Matches
    <3> QED BY <1>3, <2>1, <3>1, <3>2 DEF CanAddMoreServices
  <2>2. CASE x # i
    <3>1. x \in Underway \ (raced \cup outdated)
      BY <2>2
    <3>2. \A j \in Listed : item'[j] = item[j]
      BY <1>3
    <3>3. item'[x] = item[x]
      BY <1>3, <2>2 DEF TypeOK
    <3> QED BY <3>1, <3>2, <3>3 DEF HostCheck, CheckInv
  <2> QED BY <2>1, <2>2
<1> QED BY <1>6, <1>7 DEF HostCheck

----------------------------------------------------------------------------
(* The tasks that wait for their hostname                                    *)

Coming == {k \in 1 .. Len(queue) : queue[k].type = "HOSTNAME_SET"}

\* The queued settings of the hostname can be counted.
LEMMA ComingFinite ==
  ASSUME TypeOK
  PROVE  IsFiniteSet(Coming) /\ Cardinality(Coming) \in Nat
<1>1. Len(queue) \in Nat
  BY DEF TypeOK
<1>2. IsFiniteSet(1 .. Len(queue))
  BY <1>1, FS_Interval
<1>3. Coming \in SUBSET (1 .. Len(queue))
  BY DEF Coming
<1>4. IsFiniteSet(Coming)
  BY <1>2, <1>3, FS_Subset
<1> QED BY <1>4, FS_CardinalityType

\* Only what sets a hostname counts when it is posted.
LEMMA ComingPost ==
  ASSUME TypeOK, NEW a \in Action, Post(a)
  PROVE  Cardinality(Coming') =
           Cardinality(Coming) + (IF a.type = "HOSTNAME_SET" THEN 1 ELSE 0)
<1>1. /\ Len(queue) \in Nat /\ Len(queue') = Len(queue) + 1
      /\ queue'[Len(queue) + 1] = a
      /\ \A k \in 1 .. Len(queue) : queue'[k] = queue[k]
  BY PostFacts
<1>2. /\ \A k \in 1 .. Len(queue') : k \in 1 .. Len(queue) \/ k = Len(queue) + 1
      /\ \A k \in 1 .. Len(queue) : k \in 1 .. Len(queue')
      /\ Len(queue) + 1 \in 1 .. Len(queue') /\ Len(queue) + 1 \notin 1 .. Len(queue)
  BY <1>1
<1>3. IsFiniteSet(Coming) /\ Cardinality(Coming) \in Nat
  BY ComingFinite
<1>4. CASE a.type = "HOSTNAME_SET"
  <2>1. Coming' = Coming \cup {Len(queue) + 1} /\ Len(queue) + 1 \notin Coming
    BY <1>1, <1>2, <1>4 DEF Coming
  <2> QED BY <1>3, <1>4, <2>1, FS_AddElement
<1>5. CASE a.type # "HOSTNAME_SET"
  <2>1. Coming' = Coming
    BY <1>1, <1>2, <1>5 DEF Coming
  <2> QED BY <1>3, <1>5, <2>1
<1> QED BY <1>4, <1>5

\* Likewise when it is executed.
LEMMA ComingTail ==
  ASSUME TypeOK, TypeOK', queue # <<>>, queue' = Tail(queue)
  PROVE  Cardinality(Coming') =
           Cardinality(Coming) - (IF the.type = "HOSTNAME_SET" THEN 1 ELSE 0)
<1>1. /\ Len(queue) \in Nat \ {0} /\ Len(queue') = Len(queue) - 1 /\ the = queue[1]
      /\ \A k \in 1 .. Len(queue') : queue'[k] = queue[k + 1]
  BY TailFacts
<1>2. /\ \A k \in 1 .. Len(queue') : k + 1 \in 1 .. Len(queue) /\ k + 1 # 1
      /\ \A k \in 1 .. Len(queue) :
           k = 1 \/ (k - 1 \in 1 .. Len(queue') /\ queue'[k - 1] = queue[k])
      /\ 1 \in 1 .. Len(queue)
  BY <1>1
<1>3. IsFiniteSet(Coming) /\ Cardinality(Coming) \in Nat /\ IsFiniteSet(Coming')
  <2>1. IsFiniteSet(1 .. Len(queue'))
    BY <1>1, FS_Interval
  <2>2. Coming' \in SUBSET (1 .. Len(queue'))
    BY DEF Coming
  <2> QED BY <2>1, <2>2, ComingFinite, FS_Subset
<1> DEFINE f == [k \in Coming' |-> k + 1]
<1>4. f \in [Coming' -> Coming \ {1}]
  BY <1>1, <1>2 DEF Coming
<1>5. \A k, l \in Coming' : f[k] = f[l] => k = l
  BY <1>1 DEF Coming
<1>6. \A k \in Coming \ {1} : \E l \in Coming' : f[l] = k
  <2> SUFFICES ASSUME NEW k \in Coming \ {1} PROVE \E l \in Coming' : f[l] = k
    OBVIOUS
  <2>1. k - 1 \in Coming'
    BY <1>1, <1>2 DEF Coming
  <2>2. f[k - 1] = k
    BY <1>1, <2>1 DEF Coming
  <2> QED BY <2>1, <2>2
<1>7. ExistsBijection(Coming', Coming \ {1})
  <2> HIDE DEF f
  <2>1. f \in Bijection(Coming', Coming \ {1})
    BY <1>4, <1>5, <1>6 DEF Bijection, Injection, Surjection, IsInjective
  <2> QED BY <2>1 DEF ExistsBijection
<1>8. Cardinality(Coming') = Cardinality(Coming \ {1})
  BY <1>3, <1>7, FS_Bijection
<1>9. 1 \in Coming <=> the.type = "HOSTNAME_SET"
  BY <1>1, <1>2 DEF Coming
<1>10. Cardinality(Coming \ {1}) = IF 1 \in Coming THEN Cardinality(Coming) - 1
                                  ELSE Cardinality(Coming)
  BY <1>3, FS_RemoveElement
<1> QED BY <1>3, <1>8, <1>9, <1>10

\* Nobody begins or ends to wait.
LEMMA SameWait ==
  ASSUME WaitInv, Waiting' = Waiting, Cardinality(Coming') = Cardinality(Coming),
         sema' = sema, lost' = lost
  PROVE  WaitInv'
<1>1. Cardinality(Waiting) = Cardinality(Coming) + (IF sema THEN 1 ELSE 0) + lost
  BY DEF WaitInv, WaitersAccounted, Waiting, Coming
<1>2. Cardinality(Waiting') = Cardinality(Coming') + (IF sema' THEN 1 ELSE 0) + lost'
  BY <1>1
<1>3. WaitersAccounted'
  BY <1>2 DEF WaitersAccounted, Waiting, Coming
<1> QED BY <1>3 DEF WaitInv

\* A call waits for the name it posts.
LEMMA NamingWait ==
  ASSUME WaitInv, TypeOK, NEW t \in Tasks, task[t].at # "naming",
         task' = [task EXCEPT ![t].at = "naming"],
         Cardinality(Coming') = Cardinality(Coming) + 1, sema' = sema, lost' = lost
  PROVE  WaitInv'
<1>1. Waiting' = Waiting \cup {t} /\ t \notin Waiting
  BY DEF Waiting, TypeOK
<1>2. IsFiniteSet(Waiting') /\ Cardinality(Waiting') = Cardinality(Waiting) + 1
  BY <1>1, FS_AddElement DEF WaitInv
<1>3. Cardinality(Waiting) = Cardinality(Coming) + (IF sema THEN 1 ELSE 0) + lost
  BY DEF WaitInv, WaitersAccounted, Waiting, Coming
<1>4. Cardinality(Coming) \in Nat /\ lost \in Nat
  BY ComingFinite DEF TypeOK
<1>5. Cardinality(Waiting') = Cardinality(Coming') + (IF sema' THEN 1 ELSE 0) + lost'
  BY <1>2, <1>3, <1>4
<1>6. WaitersAccounted'
  BY <1>5 DEF WaitersAccounted, Waiting, Coming
<1> QED BY <1>2, <1>6 DEF WaitInv

\* A waiting task takes the semaphore.
LEMMA TakeWait ==
  ASSUME WaitInv, TypeOK, NEW t \in Tasks, task[t].at = "naming", sema, sema' = FALSE,
         task' = [task EXCEPT ![t].at = "idle"], queue' = queue, lost' = lost
  PROVE  WaitInv'
<1>1. Waiting' = Waiting \ {t} /\ t \in Waiting
  BY DEF Waiting, TypeOK
<1>2. IsFiniteSet(Waiting') /\ Cardinality(Waiting') = Cardinality(Waiting) - 1
  BY <1>1, FS_RemoveElement DEF WaitInv
<1>3. Cardinality(Waiting) = Cardinality(Coming) + 1 + lost
  BY DEF WaitInv, WaitersAccounted, Waiting, Coming
<1>4. Cardinality(Coming) \in Nat /\ lost \in Nat /\ Coming' = Coming
  BY ComingFinite DEF TypeOK, Coming
<1>5. Cardinality(Waiting') = Cardinality(Coming') + (IF sema' THEN 1 ELSE 0) + lost'
  BY <1>2, <1>3, <1>4
<1>6. WaitersAccounted'
  BY <1>5 DEF WaitersAccounted, Waiting, Coming
<1> QED BY <1>2, <1>6 DEF WaitInv

\* The semaphore is given for the name that is executed, and lost if it was not taken.
LEMMA GiveWait ==
  ASSUME WaitInv, TypeOK, task' = task, Cardinality(Coming') = Cardinality(Coming) - 1,
         sema' = TRUE, lost' = lost + (IF sema THEN 1 ELSE 0)
  PROVE  WaitInv'
<1>1. Waiting' = Waiting
  BY DEF Waiting
<1>2. Cardinality(Waiting) = Cardinality(Coming) + (IF sema THEN 1 ELSE 0) + lost
  BY DEF WaitInv, WaitersAccounted, Waiting, Coming
<1>3. Cardinality(Coming) \in Nat /\ lost \in Nat
  BY ComingFinite DEF TypeOK
<1>4. Cardinality(Waiting') = Cardinality(Coming') + (IF sema' THEN 1 ELSE 0) + lost'
  BY <1>1, <1>2, <1>3
<1>5. WaitersAccounted'
  BY <1>4 DEF WaitersAccounted, Waiting, Coming
<1> QED BY <1>1, <1>5 DEF WaitInv

----------------------------------------------------------------------------
(* Every action of the application keeps the invariant                       *)

\* The first service that matches is one of the list.
LEMMA LookupListed ==
  ASSUME TypeOK, NEW inst, NEW host, Lookup(inst, host) # NoItem
  PROVE  Lookup(inst, host) \in Listed
<1> DEFINE found == {k \in 1 .. Len(services) : Matches(services[k], inst, host)}
<1>1. services \in Seq(Items) /\ found \in SUBSET Nat
  BY DEF TypeOK
<1>2. found # {}
  BY DEF Lookup
<1>3. \E k \in found : \A l \in found : k <= l
  <2> HIDE DEF found
  <2> QED BY <1>1, <1>2, Smallest
<1>4. PICK k \in found : k = CHOOSE m \in found : \A l \in found : m <= l
  BY <1>3
<1>5. Lookup(inst, host) = services[k]
  BY <1>2, <1>4 DEF Lookup
<1>6. k \in 1 .. Len(services)
  BY <1>4
<1> HIDE DEF found
<1> QED BY <1>1, <1>5, <1>6 DEF Listed, ToSet

\* What an action is about fits its type.
LEMMA ActWellFormed ==
  ASSUME NEW type \in {"HOSTNAME_SET", "INSTANCE_SET", "DELEGATE_HOSTNAME_ADD",
                       "DELEGATE_HOSTNAME_REMOVE", "DELEGATE_HOSTNAME_SET_ADDR",
                       "SERVICE_ADD", "SERVICES_CLEAR", "RX_HANDLE"} \cup ItemCalls,
         NEW i \in Items \cup {NoItem}, NEW name \in Instances \cup Hosts \cup {NoName},
         NEW sure \in BOOLEAN,
         type \in {"SERVICE_ADD"} \cup ItemCalls => i \in Items,
         type \in {"HOSTNAME_SET", "DELEGATE_HOSTNAME_ADD"} => name \in Hosts,
         type \in {"INSTANCE_SET", "SERVICE_INSTANCE_SET"} => name \in Instances,
         sure => type \in ItemCalls
  PROVE  WellFormed([type |-> type, item |-> i, name |-> name, sure |-> sure])
  BY DEF WellFormed, Action

\* A call stays within the bound on calls.
LEMMA CalledFacts ==
  ASSUME TypeOK, Called
  PROVE  calls' \in 0 .. MaxCalls
  BY LimitsAssumption DEF TypeOK, Called

\* The calls that post at once; the one that sets the hostname waits for it.
LEMMA PostStep ==
  ASSUME IInv, NEW t \in Tasks, NEW a, WellFormed(a), ~Adds(a), ~a.sure, PostNow(t, a),
         \/ a.type = "HOSTNAME_SET" /\ task' = [task EXCEPT ![t].at = "naming"]
         \/ a.type # "HOSTNAME_SET" /\ task' = task
  PROVE  IInv'
<1>1. /\ TypeOK /\ CoreInv /\ HostCheck /\ WaitInv
      /\ Called /\ task[t].at = "idle" /\ Post(a) /\ a \in Action
      /\ hostname' = hostname /\ instance' = instance /\ delegated' = delegated
      /\ services' = services /\ item' = item /\ raced' = raced /\ outdated' = outdated
      /\ sema' = sema /\ lost' = lost /\ fault' = fault
  BY DEF IInv, CoreInv, HostCheck, PostNow, names, list, WellFormed
<1>2. SameActions
  <2>1. task \in [Tasks -> [at : {"idle", "ready", "polling", "naming", "hung"},
                            action : Action]]
    BY <1>1 DEF TypeOK
  <2>2. CASE task' = [task EXCEPT ![t].at = "naming"]
    <3>1. /\ task'[t].at = "naming" /\ task'[t].action = task[t].action
          /\ \A u \in Tasks \ {t} : task'[u] = task[u]
      BY <2>1, <2>2
    <3>2. task' \in [Tasks -> [at : {"idle", "ready", "polling", "naming", "hung"},
                               action : Action]]
      BY <2>1, <2>2
    <3> QED BY <1>1, <3>1, <3>2 DEF SameActions
  <2>3. CASE task' = task
    BY <2>1, <2>3 DEF SameActions
  <2> QED BY <2>2, <2>3
<1>3. queue' \in Seq(Action) /\ Len(queue') <= QueueLen /\ calls' \in 0 .. MaxCalls
  BY <1>1, PostFacts, CalledFacts
<1>4. TypeOK'
  BY <1>1, <1>2, <1>3 DEF TypeOK, SameActions
<1>5. CoreInv'
  BY <1>1, <1>2, PostCore
<1>6. Underway' = Underway
  BY <1>1, <1>2, <1>4, <1>5, PostUnderway
<1>7. HostCheck'
  BY <1>1, <1>6, SameHostCheck
<1>8. WaitInv'
  <2>1. CASE a.type = "HOSTNAME_SET"
    BY <1>1, <2>1, ComingPost, NamingWait
  <2>2. CASE a.type # "HOSTNAME_SET"
    <3>1. Waiting' = Waiting /\ Cardinality(Coming') = Cardinality(Coming)
      BY <1>1, <2>2, ComingPost, ComingFinite DEF Waiting
    <3> QED BY <1>1, <3>1, SameWait
  <2> QED BY <2>1, <2>2
<1> QED BY <1>4, <1>5, <1>7, <1>8 DEF IInv, CoreInv, HostCheck

\* The calls that post at once keep the invariant.
LEMMA CallsStep ==
  ASSUME IInv, NEW t \in Tasks,
         \/ CallHostnameSet(t) \/ CallInstanceNameSet(t) \/ CallDelegateHostnameAdd(t)
         \/ CallDelegateHostnameSetAddress(t) \/ CallDelegateHostnameRemove(t)
         \/ CallServiceRemoveAll(t)
  PROVE  IInv'
<1> DEFINE Posts(a) == /\ WellFormed(a) /\ ~Adds(a) /\ ~a.sure /\ PostNow(t, a)
                       /\ \/ a.type = "HOSTNAME_SET" /\ task' = [task EXCEPT ![t].at = "naming"]
                          \/ a.type # "HOSTNAME_SET" /\ task' = task
<1> SUFFICES \E a : Posts(a)
  BY PostStep
<1> USE DEF Act, Adds
<1>1. CASE CallHostnameSet(t)
  <2>1. PICK h \in Hosts : /\ PostNow(t, Act("HOSTNAME_SET", NoItem, h))
                           /\ task' = [task EXCEPT ![t].at = "naming"]
    BY <1>1 DEF CallHostnameSet
  <2>2. WellFormed(Act("HOSTNAME_SET", NoItem, h))
    BY ActWellFormed DEF ItemCalls
  <2>3. Posts(Act("HOSTNAME_SET", NoItem, h))
    BY <2>1, <2>2
  <2> HIDE DEF Posts
  <2> QED BY <2>3
<1>2. CASE CallInstanceNameSet(t)
  <2>1. PICK n \in Instances : PostNow(t, Act("INSTANCE_SET", NoItem, n)) /\ task' = task
    BY <1>2 DEF CallInstanceNameSet
  <2>2. WellFormed(Act("INSTANCE_SET", NoItem, n))
    BY ActWellFormed DEF ItemCalls
  <2>3. Posts(Act("INSTANCE_SET", NoItem, n))
    BY <2>1, <2>2
  <2> HIDE DEF Posts
  <2> QED BY <2>3
<1>3. CASE CallDelegateHostnameAdd(t)
  <2>1. PICK h \in Hosts : PostNow(t, Act("DELEGATE_HOSTNAME_ADD", NoItem, h)) /\ task' = task
    BY <1>3 DEF CallDelegateHostnameAdd
  <2>2. WellFormed(Act("DELEGATE_HOSTNAME_ADD", NoItem, h))
    BY ActWellFormed DEF ItemCalls
  <2>3. Posts(Act("DELEGATE_HOSTNAME_ADD", NoItem, h))
    BY <2>1, <2>2
  <2> HIDE DEF Posts
  <2> QED BY <2>3
<1>4. CASE CallDelegateHostnameSetAddress(t)
  <2>1. PICK h \in Hosts : /\ PostNow(t, Act("DELEGATE_HOSTNAME_SET_ADDR", NoItem, h))
                           /\ task' = task
    BY <1>4 DEF CallDelegateHostnameSetAddress
  <2>2. WellFormed(Act("DELEGATE_HOSTNAME_SET_ADDR", NoItem, h))
    BY ActWellFormed DEF ItemCalls
  <2>3. Posts(Act("DELEGATE_HOSTNAME_SET_ADDR", NoItem, h))
    BY <2>1, <2>2
  <2> HIDE DEF Posts
  <2> QED BY <2>3
<1>5. CASE CallDelegateHostnameRemove(t)
  <2>1. PICK h \in Hosts : /\ PostNow(t, Act("DELEGATE_HOSTNAME_REMOVE", NoItem, h))
                           /\ task' = task
    BY <1>5 DEF CallDelegateHostnameRemove
  <2>2. WellFormed(Act("DELEGATE_HOSTNAME_REMOVE", NoItem, h))
    BY ActWellFormed DEF ItemCalls
  <2>3. Posts(Act("DELEGATE_HOSTNAME_REMOVE", NoItem, h))
    BY <2>1, <2>2
  <2> HIDE DEF Posts
  <2> QED BY <2>3
<1>6. CASE CallServiceRemoveAll(t)
  <2>1. PostNow(t, Act("SERVICES_CLEAR", NoItem, NoName)) /\ task' = task
    BY <1>6 DEF CallServiceRemoveAll
  <2>2. WellFormed(Act("SERVICES_CLEAR", NoItem, NoName))
    BY ActWellFormed DEF ItemCalls
  <2>3. Posts(Act("SERVICES_CLEAR", NoItem, NoName))
    BY <2>1, <2>2
  <2> HIDE DEF Posts
  <2> QED BY <2>3
<1> QED BY <1>1, <1>2, <1>3, <1>4, <1>5, <1>6

\* A task that is idle gets an action to post: type, and who waits, do not change.
LEMMA ReadyFacts ==
  ASSUME IInv, NEW t \in Tasks, NEW a, WellFormed(a), Ready(t, a)
  PROVE  /\ TypeOK /\ CoreInv /\ HostCheck /\ WaitInv
         /\ task[t].at = "idle" /\ ~Adds(task[t].action)
         /\ task' = [task EXCEPT ![t] = [at |-> "ready", action |-> a]]
         /\ hostname' = hostname /\ instance' = instance /\ delegated' = delegated
         /\ services' = services /\ queue' = queue
         /\ sema' = sema /\ lost' = lost /\ fault' = fault
         /\ calls' \in 0 .. MaxCalls
         /\ task' \in [Tasks -> [at : {"idle", "ready", "polling", "naming", "hung"},
                                 action : Action]]
         /\ WaitInv'
<1>1. /\ TypeOK /\ CoreInv /\ HostCheck /\ WaitInv
      /\ Called /\ task[t].at = "idle" /\ a \in Action
      /\ task' = [task EXCEPT ![t] = [at |-> "ready", action |-> a]]
      /\ hostname' = hostname /\ instance' = instance /\ delegated' = delegated
      /\ services' = services /\ queue' = queue
      /\ sema' = sema /\ lost' = lost /\ fault' = fault
  BY DEF IInv, CoreInv, HostCheck, Ready, names, WellFormed
<1>2. task[t].action = NoAction /\ ~Adds(NoAction)
  BY <1>1, NoActionFacts DEF CoreInv, TaskInv
<1>3. task \in [Tasks -> [at : {"idle", "ready", "polling", "naming", "hung"},
                          action : Action]]
  BY <1>1 DEF TypeOK
<1>4. task' \in [Tasks -> [at : {"idle", "ready", "polling", "naming", "hung"},
                           action : Action]]
  BY <1>1, <1>3
<1>5. Waiting' = Waiting /\ Coming' = Coming
  BY <1>1, <1>3 DEF Waiting, Coming
<1>6. WaitInv'
  BY <1>1, <1>5, SameWait
<1>7. calls' \in 0 .. MaxCalls
  BY <1>1, CalledFacts
<1> QED BY <1>1, <1>2, <1>4, <1>6, <1>7

\* A call on a service that it found.
LEMMA OnServiceStep ==
  ASSUME IInv, NEW t \in Tasks, NEW type \in ItemCalls, NEW name \in Instances \cup {NoName},
         type = "SERVICE_INSTANCE_SET" => name \in Instances, OnService(t, type, name)
  PROVE  IInv'
<1>1. PICK i : /\ \E inst, host : i = Lookup(inst, host) /\ Lookup(inst, host) # NoItem
               /\ Ready(t, Sure(type, i, name))
               /\ item' = item /\ raced' = raced /\ outdated' = outdated
  BY DEF OnService
<1>2. TypeOK /\ i \in Listed /\ i \in Items
  BY <1>1, LookupListed DEF IInv, TypeOK, Listed, ToSet
<1> DEFINE a == [type |-> type, item |-> i, name |-> name, sure |-> TRUE]
<1>3. Ready(t, a)
  BY <1>1 DEF Sure
<1>4. /\ a.type = type /\ a.item = i /\ type # "HOSTNAME_SET" /\ type # "INSTANCE_SET"
      /\ type # "DELEGATE_HOSTNAME_ADD" /\ ~Adds(a)
  BY DEF ItemCalls, Adds
<1>5. WellFormed(a)
  BY <1>2, <1>4, ActWellFormed
<1> HIDE DEF a
<1>6. TypeOK'
  BY <1>1, <1>2, <1>3, <1>5, ReadyFacts DEF TypeOK
<1>7. CoreInv'
  BY <1>2, <1>3, <1>4, <1>5, ReadyFacts, ReadyCore
<1>8. Underway' = Underway
  BY <1>3, <1>4, <1>5, <1>6, <1>7, ReadyFacts, ReadyUnderway
<1>9. HostCheck'
  BY <1>1, <1>3, <1>5, <1>8, ReadyFacts, SameHostCheck
<1>10. WaitInv'
  BY <1>3, <1>5, ReadyFacts
<1> QED BY <1>6, <1>7, <1>9, <1>10 DEF IInv, CoreInv, HostCheck

\* So do the calls that first look a service up: what they found is in the list.
LEMMA ServiceCallsStep ==
  ASSUME IInv, NEW t \in Tasks,
         \/ CallServicePortSet(t) \/ CallServiceTxtSet(t) \/ CallServiceTxtItemSet(t)
         \/ CallServiceTxtItemRemove(t) \/ CallServiceSubtypeAdd(t)
         \/ CallServiceInstanceNameSet(t) \/ CallServiceRemove(t)
  PROVE  IInv'
<1>1. PICK type \in ItemCalls, name \in Instances \cup {NoName} :
        (type = "SERVICE_INSTANCE_SET" => name \in Instances) /\ OnService(t, type, name)
  BY DEF CallServicePortSet, CallServiceTxtSet, CallServiceTxtItemSet,
         CallServiceTxtItemRemove, CallServiceSubtypeAdd, CallServiceInstanceNameSet,
         CallServiceRemove, ItemCalls
<1> QED BY <1>1, OnServiceStep

\* A call that adds a service, and found room and no other of its name.
LEMMA ServiceAddCallStep ==
  ASSUME IInv, NEW t \in Tasks, CallServiceAdd(t)
  PROVE  IInv'
<1>1. PICK inst \in InstanceName, host \in Hosts, i \in Unused :
        /\ CanAddMoreServices /\ Lookup(inst, host) = NoItem
        /\ Ready(t, Act("SERVICE_ADD", i, NoName))
        /\ item' = [item EXCEPT ![i] = [instance |-> inst, host |-> host,
                                        own |-> host = hostname]]
        /\ raced' = raced \ {i} /\ outdated' = outdated \ {i}
  BY DEF CallServiceAdd
<1> DEFINE a == [type |-> "SERVICE_ADD", item |-> i, name |-> NoName, sure |-> FALSE]
<1>2. Ready(t, a) /\ i \in Items /\ i \notin Listed \cup Underway
  BY <1>1 DEF Act, Unused
<1>3. Adds(a) /\ a.item = i /\ ~a.sure /\ a.type = "SERVICE_ADD"
  BY DEF Adds
<1>4. WellFormed(a)
  BY <1>2, <1>3, ActWellFormed DEF ItemCalls
<1> HIDE DEF a
<1>5. TypeOK'
  <2>1. /\ TypeOK
        /\ item' \in [Items -> [instance : InstanceName, host : Hosts \cup {NoName},
                                own : BOOLEAN]]
    BY <1>1, <1>2, <1>4, ReadyFacts DEF TypeOK
  <2> QED BY <1>1, <1>2, <1>4, <2>1, ReadyFacts DEF TypeOK
<1>6. CoreInv'
  BY <1>2, <1>3, <1>4, ReadyFacts, ReadyCore
<1>7. Underway' = Underway \cup {i}
  BY <1>2, <1>3, <1>4, <1>5, <1>6, ReadyFacts, ReadyUnderway
<1>8. HostCheck'
  BY <1>1, <1>2, <1>4, <1>7, ReadyFacts, NewHostCheck
<1>9. WaitInv'
  BY <1>2, <1>4, ReadyFacts
<1> QED BY <1>5, <1>6, <1>8, <1>9 DEF IInv, CoreInv, HostCheck

\* A task that was ready is idle or polls: nobody begins to wait.
LEMMA SentWait ==
  ASSUME TypeOK, NEW t \in Tasks, task[t].at = "ready", NEW at \in {"idle", "polling"},
         Sent(t, at)
  PROVE  /\ Waiting' = Waiting
         /\ task' \in [Tasks -> [at : {"idle", "ready", "polling", "naming", "hung"},
                                 action : Action]]
<1>1. /\ task'[t].at = at /\ \A u \in Tasks \ {t} : task'[u] = task[u]
  BY SentFacts
<1>2. Waiting' = Waiting
  BY <1>1 DEF Waiting
<1>3. NoAction \in Action
  BY NoActionFacts DEF WellFormed
<1> QED BY <1>2, <1>3 DEF Sent, TypeOK

\* An action that a call has prepared is posted behind what was queued meanwhile.
LEMMA SendStep ==
  ASSUME IInv, NEW t \in Tasks, Send(t)
  PROVE  IInv'
<1> DEFINE a == task[t].action
           b == [a EXCEPT !.sure = @ /\ ~RemovalAhead(a.item)]
<1>1. /\ TypeOK /\ CoreInv /\ HostCheck /\ WaitInv /\ task[t].at = "ready"
      /\ hostname' = hostname /\ instance' = instance /\ delegated' = delegated
      /\ services' = services /\ raced' = raced /\ outdated' = outdated
      /\ sema' = sema /\ lost' = lost /\ fault' = fault /\ calls' = calls
  BY DEF IInv, CoreInv, HostCheck, Send, names
<1>2. WellFormed(a) /\ a \in Action /\ a.type \in {"SERVICE_ADD"} \cup ItemCalls
  BY <1>1 DEF CoreInv, TaskInv, WellFormed
<1>3. \/ /\ Post(b) /\ item' = item
         /\ Sent(t, IF Adds(a) THEN "polling" ELSE "idle")
      \/ /\ Sent(t, "idle") /\ queue' = queue
         /\ item' = IF Adds(a) THEN [item EXCEPT ![a.item] = Blank] ELSE item
  BY DEF Send, Sent, Adds
<1>4. /\ WellFormed(b) /\ b.type = a.type /\ b.item = a.item /\ (Adds(b) <=> Adds(a))
      /\ b.sure => a.sure /\ \A l \in 1 .. Len(queue) : ~Removes(queue[l], a.item)
  BY <1>1, <1>2, PostedFacts
<1>5. b \in Action /\ b.type # "HOSTNAME_SET"
  BY <1>2, <1>4 DEF WellFormed, ItemCalls
<1> HIDE DEF b
<1>6. CASE /\ Post(b) /\ item' = item
           /\ Sent(t, IF Adds(a) THEN "polling" ELSE "idle")
  <2>1. PICK at \in {"idle", "polling"} : Sent(t, at)
    BY <1>6
  <2>2. TypeOK'
    BY <1>1, <1>5, <1>6, <2>1, PostFacts, SentWait DEF TypeOK
  <2>3. CoreInv'
    BY <1>1, <1>4, <1>6, <2>1, SendCore
  <2>4. Underway' = Underway
    BY <1>1, <1>4, <1>5, <1>6, <2>1, <2>2, <2>3, SendUnderway
  <2>5. HostCheck'
    BY <1>1, <1>6, <2>4, SameHostCheck
  <2>6. Cardinality(Coming') = Cardinality(Coming)
    BY <1>1, <1>5, <1>6, ComingPost, ComingFinite
  <2>7. WaitInv'
    BY <1>1, <2>1, <2>6, SentWait, SameWait
  <2> QED BY <2>2, <2>3, <2>5, <2>7 DEF IInv, CoreInv, HostCheck
<1>7. CASE /\ Sent(t, "idle") /\ queue' = queue
           /\ item' = IF Adds(a) THEN [item EXCEPT ![a.item] = Blank] ELSE item
  <2>1. Blank \in [instance : InstanceName, host : Hosts \cup {NoName}, own : BOOLEAN]
    BY DEF Blank, InstanceName
  <2>2. item' \in [Items -> [instance : InstanceName, host : Hosts \cup {NoName},
                             own : BOOLEAN]]
    BY <1>1, <1>7, <2>1 DEF TypeOK
  <2>3. TypeOK'
    BY <1>1, <1>7, <2>2, SentWait DEF TypeOK
  <2>4. CoreInv'
    BY <1>1, <1>7, FailCore
  <2>5. /\ Underway' \subseteq Underway
        /\ Adds(a) => a.item \notin Underway' /\ a.item \notin Listed
    BY <1>1, <1>7, <2>3, <2>4, FailUnderway DEF CoreInv, FreshInv
  <2>6. \A i \in Listed \cup Underway' : item'[i] = item[i]
    BY <1>1, <1>7, <2>5 DEF TypeOK
  <2>7. HostCheck'
    BY <1>1, <2>5, <2>6, SameHostCheck
  <2>8. Coming' = Coming
    BY <1>7 DEF Coming
  <2>9. WaitInv'
    BY <1>1, <1>7, <2>8, SentWait, SameWait
  <2> QED BY <2>3, <2>4, <2>7, <2>9 DEF IInv, CoreInv, HostCheck
<1> QED BY <1>3, <1>6, <1>7

\* A task goes on, with nothing to post.
LEMMA GoesOn ==
  ASSUME IInv, NEW t \in Tasks, task[t].at \notin {"ready"},
         NEW at \in {"idle", "polling", "naming", "hung"},
         task' = [task EXCEPT ![t].at = at], queue' = queue, services' = services,
         item' = item, raced' = raced, outdated' = outdated, names' = names,
         sema' \in BOOLEAN, lost' = lost, fault' = fault, calls' \in 0 .. MaxCalls,
         WaitInv'
  PROVE  IInv'
<1>1. /\ TypeOK /\ CoreInv /\ HostCheck
      /\ hostname' = hostname /\ instance' = instance /\ delegated' = delegated
  BY DEF IInv, CoreInv, HostCheck, names
<1>2. task \in [Tasks -> [at : {"idle", "ready", "polling", "naming", "hung"},
                          action : Action]]
  BY <1>1 DEF TypeOK
<1>3. /\ task'[t].at = at /\ task'[t].action = task[t].action
      /\ \A u \in Tasks \ {t} : task'[u] = task[u]
  BY <1>2
<1>4. task' \in [Tasks -> [at : {"idle", "ready", "polling", "naming", "hung"},
                           action : Action]]
  BY <1>2
<1>5. SameActions
  BY <1>3, <1>4 DEF SameActions
<1>6. TypeOK'
  BY <1>1, <1>4 DEF TypeOK
<1>7. CoreInv'
  BY <1>1, <1>5, StillCore
<1>8. Underway' = Underway
  BY <1>1, <1>5, <1>6, <1>7, StillUnderway
<1>9. HostCheck'
  BY <1>1, <1>8, SameHostCheck
<1> QED BY <1>6, <1>7, <1>9 DEF IInv, CoreInv, HostCheck

\* mdns_service_add has seen its service, or gives up.
LEMMA StopPollingStep ==
  ASSUME IInv, NEW t \in Tasks, StopPolling(t)
  PROVE  IInv'
<1>1. Waiting' = Waiting /\ Coming' = Coming
  BY DEF IInv, TypeOK, StopPolling, Waiting, Coming
<1>2. WaitInv'
  BY <1>1, SameWait DEF IInv, StopPolling
<1> QED BY <1>2, GoesOn DEF IInv, TypeOK, StopPolling, list, names

\* One of those who wait in mdns_hostname_set takes the semaphore.
LEMMA TakeSemaStep ==
  ASSUME IInv, NEW t \in Tasks, TakeSema(t)
  PROVE  IInv'
<1>1. WaitInv'
  BY TakeWait DEF IInv, TakeSema
<1> QED BY <1>1, GoesOn DEF IInv, TypeOK, TakeSema, list, names

\* A lookup changes nothing, or never ends.
LEMMA LookupStep ==
  ASSUME IInv, NEW t \in Tasks, CallLookupDelegated(t)
  PROVE  IInv'
<1>1. PICK at \in {"idle", "hung"} : task' = [task EXCEPT ![t].at = at]
  <2>1. task[t].at = "idle" /\ task = [task EXCEPT ![t].at = task[t].at]
    BY DEF IInv, TypeOK, CallLookupDelegated
  <2>2. task' = [task EXCEPT ![t].at = "hung"] \/ task' = task
    BY DEF CallLookupDelegated
  <2> QED BY <2>1, <2>2
<1>2. Waiting' = Waiting /\ Coming' = Coming
  BY <1>1 DEF IInv, TypeOK, CallLookupDelegated, Waiting, Coming
<1>3. WaitInv'
  BY <1>2, SameWait DEF IInv, CallLookupDelegated
<1>4. calls' \in 0 .. MaxCalls
  BY CalledFacts DEF IInv, CallLookupDelegated
<1> QED BY <1>1, <1>3, <1>4, GoesOn DEF IInv, TypeOK, CallLookupDelegated, list, names

----------------------------------------------------------------------------
(* And every action of the service task                                      *)

\* A received packet is queued.
LEMMA ReceiveStep ==
  ASSUME IInv, Receive
  PROVE  IInv'
<1> DEFINE a == [type |-> "RX_HANDLE", item |-> NoItem, name |-> NoName, sure |-> FALSE]
<1>1. /\ TypeOK /\ CoreInv /\ HostCheck /\ WaitInv /\ Called /\ Post(a)
      /\ hostname' = hostname /\ instance' = instance /\ delegated' = delegated
      /\ services' = services /\ item' = item /\ raced' = raced /\ outdated' = outdated
      /\ task' = task /\ sema' = sema /\ lost' = lost /\ fault' = fault
  BY DEF IInv, CoreInv, HostCheck, Receive, names, list, Act
<1>2. /\ WellFormed(a) /\ a \in Action /\ ~Adds(a) /\ ~a.sure /\ a.type # "HOSTNAME_SET"
  <2>1. WellFormed(a)
    BY ActWellFormed DEF ItemCalls
  <2> QED BY <2>1 DEF WellFormed, Adds
<1> HIDE DEF a
<1>3. SameActions
  BY <1>1 DEF SameActions, TypeOK
<1>4. TypeOK'
  BY <1>1, <1>2, PostFacts, CalledFacts DEF TypeOK
<1>5. CoreInv'
  BY <1>1, <1>2, <1>3, PostCore
<1>6. Underway' = Underway
  BY <1>1, <1>2, <1>3, <1>4, <1>5, PostUnderway
<1>7. HostCheck'
  BY <1>1, <1>6, SameHostCheck
<1>8. Waiting' = Waiting /\ Cardinality(Coming') = Cardinality(Coming)
  BY <1>1, <1>2, ComingPost, ComingFinite DEF Waiting
<1>9. WaitInv'
  BY <1>1, <1>8, SameWait
<1> QED BY <1>4, <1>5, <1>7, <1>9 DEF IInv, CoreInv, HostCheck

\* What every action of the service task begins with.
LEMMA ExecuteFacts ==
  ASSUME IInv, NEW type, Execute(type)
  PROVE  /\ TypeOK /\ CoreInv /\ HostCheck /\ WaitInv
         /\ queue # <<>> /\ queue' = Tail(queue) /\ calls' = calls
         /\ the.type = type /\ WellFormed(the) /\ (Adds(the) <=> type = "SERVICE_ADD")
         /\ queue' \in Seq(Action) /\ Len(queue') <= QueueLen
<1>1. /\ TypeOK /\ CoreInv /\ HostCheck /\ WaitInv
      /\ queue # <<>> /\ queue' = Tail(queue) /\ calls' = calls /\ the.type = type
  BY DEF IInv, CoreInv, HostCheck, Execute, the
<1>2. /\ queue' \in Seq(Action) /\ Len(queue') <= QueueLen
      /\ 1 \in 1 .. Len(queue) /\ the = queue[1]
  BY <1>1, TailFacts
<1>3. WellFormed(the)
  BY <1>1, <1>2 DEF CoreInv, QueueInv
<1> QED BY <1>1, <1>2, <1>3 DEF Adds

\* The waiting tasks, when anything but a hostname was set.
LEMMA ExecuteWait ==
  ASSUME IInv, TypeOK', NEW type, Execute(type), type # "HOSTNAME_SET",
         \A t \in Tasks : task'[t].at = task[t].at, sema' = sema, lost' = lost
  PROVE  WaitInv'
<1>1. Waiting' = Waiting
  BY DEF Waiting
<1>2. Cardinality(Coming') = Cardinality(Coming)
  BY ExecuteFacts, ComingTail, ComingFinite
<1> QED BY <1>1, <1>2, SameWait DEF IInv

\* An action that leaves the list and the tasks alone, and changes no name or outdates
\* what is under way.
LEMMA TailStep ==
  ASSUME IInv, NEW type, Execute(type), type \notin {"SERVICE_ADD"},
         TypeOK', task' = task, services' = services, raced' = raced,
         WaitInv',
         \/ /\ hostname' = hostname /\ instance' = instance /\ outdated' = outdated
            /\ item' = item
         \/ /\ outdated' = outdated \cup Underway
            /\ \A i \in Listed : /\ item'[i].own = item[i].own
                                 /\ item[i].host = hostname => item'[i].host = hostname'
  PROVE  IInv'
<1>1. CoreInv'
  BY ExecuteFacts, TailCore
<1>2. Underway' = Underway
  BY <1>1, ExecuteFacts, TailUnderway
<1>3. HostCheck'
  <2>1. CASE /\ hostname' = hostname /\ instance' = instance /\ outdated' = outdated
             /\ item' = item
    BY <1>2, <2>1, ExecuteFacts, SameHostCheck
  <2>2. CASE /\ outdated' = outdated \cup Underway
             /\ \A i \in Listed : /\ item'[i].own = item[i].own
                                  /\ item[i].host = hostname => item'[i].host = hostname'
    BY <1>2, <2>2, ExecuteFacts, NewNameHostCheck
  <2> QED BY <2>1, <2>2
<1> QED BY <1>1, <1>3 DEF IInv, CoreInv, HostCheck

\* The services under way, and the listed ones, are addresses.
LEMMA UnderwayItems ==
  ASSUME IInv
  PROVE  Underway \subseteq Items /\ Listed \subseteq Items
<1>1. Listed \subseteq Items
  BY DEF IInv, TypeOK, Listed, ToSet
<1>2. ASSUME NEW i \in Underway PROVE i \in Items
  <2>1. CASE \E k \in 1 .. Len(queue) : Adds(queue[k]) /\ queue[k].item = i
    BY <2>1 DEF IInv, QueueInv, WellFormed, Adds
  <2>2. CASE \E t \in Tasks : Adds(task[t].action) /\ task[t].action.item = i
    BY <2>2 DEF IInv, TaskInv, WellFormed, Adds
  <2> QED BY <2>1, <2>2, UnderwayAt DEF IInv
<1> QED BY <1>1, <1>2

\* When the hostname changes, the listed services of the old one follow.
LEMMA RenameFacts ==
  ASSUME IInv, NEW h \in Hosts, Rename(h)
  PROVE  /\ hostname' = h /\ instance' = instance /\ delegated' = delegated
         /\ services' = services /\ raced' = raced /\ outdated' = outdated \cup Underway
         /\ outdated' \subseteq Items
         /\ item' \in [Items -> [instance : InstanceName, host : Hosts \cup {NoName},
                                 own : BOOLEAN]]
         /\ \A i \in Listed : /\ item'[i].own = item[i].own
                              /\ item[i].host = hostname => item'[i].host = hostname'
<1>1. item \in [Items -> [instance : InstanceName, host : Hosts \cup {NoName}, own : BOOLEAN]]
  BY DEF IInv, TypeOK
<1>2. /\ hostname' = h /\ instance' = instance /\ delegated' = delegated
      /\ services' = services /\ raced' = raced /\ outdated' = outdated \cup Underway
      /\ item' = [i \in Items |-> IF i \in Listed /\ item[i].host = hostname
                                  THEN [item[i] EXCEPT !.host = h] ELSE item[i]]
  BY DEF Rename, Remapped
<1>3. ASSUME NEW i \in Items
      PROVE  /\ item'[i] \in [instance : InstanceName, host : Hosts \cup {NoName}, own : BOOLEAN]
             /\ item'[i].own = item[i].own
             /\ i \in Listed /\ item[i].host = hostname => item'[i].host = h
  BY <1>1, <1>2
<1>4. item' \in [Items -> [instance : InstanceName, host : Hosts \cup {NoName}, own : BOOLEAN]]
  BY <1>2, <1>3
<1>5. outdated' \subseteq Items
  BY <1>2, UnderwayItems DEF IInv, TypeOK
<1> QED BY <1>2, <1>3, <1>4, <1>5, UnderwayItems

\* The hostname is set and the semaphore given.
LEMMA HostnameSetStep ==
  ASSUME IInv, HostnameSet
  PROVE  IInv'
<1>1. /\ Execute("HOSTNAME_SET") /\ Rename(the.name) /\ the.name \in Hosts
      /\ sema' = TRUE /\ lost' = lost + (IF sema THEN 1 ELSE 0)
      /\ task' = task /\ fault' = fault
  BY ExecuteFacts DEF HostnameSet, WellFormed
<1>2. TypeOK'
  BY <1>1, ExecuteFacts, RenameFacts DEF TypeOK
<1>3. Cardinality(Coming') = Cardinality(Coming) - 1
  BY <1>1, <1>2, ExecuteFacts, ComingTail
<1>4. WaitInv'
  BY <1>1, <1>3, ExecuteFacts, GiveWait
<1> QED BY <1>1, <1>2, <1>4, RenameFacts, TailStep

\* When the instance name or that of a service changes, hosts do not.
LEMMA InstanceSetStep ==
  ASSUME IInv, InstanceSet
  PROVE  IInv'
<1>1. /\ Execute("INSTANCE_SET") /\ instance' = the.name /\ the.name \in Instances
      /\ hostname' = hostname /\ delegated' = delegated /\ services' = services
      /\ item' = item /\ raced' = raced /\ outdated' = outdated \cup Underway
      /\ task' = task /\ sema' = sema /\ lost' = lost /\ fault' = fault
  BY ExecuteFacts DEF InstanceSet, RenameInstance, WellFormed
<1>2. TypeOK'
  BY <1>1, ExecuteFacts, UnderwayItems DEF TypeOK, InstanceName
<1>3. WaitInv'
  BY <1>1, <1>2, ExecuteWait
<1> QED BY <1>1, <1>2, <1>3, TailStep

\* What a renamed service keeps.
LEMMA RenameServiceFacts ==
  ASSUME IInv, NEW i \in Items, NEW n \in Instances, RenameService(i, n)
  PROVE  /\ hostname' = hostname /\ instance' = instance /\ delegated' = delegated
         /\ services' = services /\ raced' = raced /\ outdated' = outdated \cup Underway
         /\ outdated' \subseteq Items
         /\ item' \in [Items -> [instance : InstanceName, host : Hosts \cup {NoName},
                                 own : BOOLEAN]]
         /\ \A j \in Listed : /\ item'[j].own = item[j].own
                              /\ item[j].host = hostname => item'[j].host = hostname'
<1>1. item \in [Items -> [instance : InstanceName, host : Hosts \cup {NoName}, own : BOOLEAN]]
  BY DEF IInv, TypeOK
<1>2. /\ hostname' = hostname /\ instance' = instance /\ delegated' = delegated
      /\ services' = services /\ raced' = raced /\ outdated' = outdated \cup Underway
      /\ item' = item \/ item' = [item EXCEPT ![i].instance = n]
  BY DEF RenameService, names
<1>3. ASSUME NEW j \in Items
      PROVE  /\ item'[j] \in [instance : InstanceName, host : Hosts \cup {NoName}, own : BOOLEAN]
             /\ item'[j].own = item[j].own /\ item'[j].host = item[j].host
  BY <1>1, <1>2 DEF InstanceName
<1>4. item' \in [Items -> [instance : InstanceName, host : Hosts \cup {NoName}, own : BOOLEAN]]
  BY <1>1, <1>2, <1>3
<1>5. outdated' \subseteq Items
  BY <1>2, UnderwayItems DEF IInv, TypeOK
<1> QED BY <1>2, <1>3, <1>4, <1>5, UnderwayItems

\* A service is renamed at the address that the call has found.
LEMMA ServiceInstanceSetStep ==
  ASSUME IInv, ServiceInstanceSet
  PROVE  IInv'
<1>1. /\ Execute("SERVICE_INSTANCE_SET") /\ RenameService(the.item, the.name)
      /\ Use(the.item) /\ the.item \in Items /\ the.name \in Instances
      /\ task' = task /\ sema' = sema /\ lost' = lost
  BY ExecuteFacts DEF ServiceInstanceSet, WellFormed, ItemCalls
<1>2. fault' \in BOOLEAN
  BY <1>1 DEF Use, IInv, TypeOK
<1>3. TypeOK'
  BY <1>1, <1>2, ExecuteFacts, RenameServiceFacts DEF TypeOK
<1>4. WaitInv'
  BY <1>1, <1>3, ExecuteWait
<1> QED BY <1>1, <1>3, <1>4, RenameServiceFacts, TailStep

\* The actions that change neither names nor services.
LEMMA PlainStep ==
  ASSUME IInv, Change \/ DelegateHostnameAdd \/ DelegateHostnameSetAddr
  PROVE  IInv'
<1>1. PICK type \in {"CHANGE", "DELEGATE_HOSTNAME_ADD", "DELEGATE_HOSTNAME_SET_ADDR"} :
        Execute(type)
  BY DEF Change, DelegateHostnameAdd, DelegateHostnameSetAddr
<1>2. /\ hostname' = hostname /\ instance' = instance /\ services' = services
      /\ item' = item /\ raced' = raced /\ outdated' = outdated
      /\ task' = task /\ sema' = sema /\ lost' = lost
  BY DEF Change, DelegateHostnameAdd, DelegateHostnameSetAddr, list, names
<1>3. fault' \in BOOLEAN
  BY DEF Change, DelegateHostnameAdd, DelegateHostnameSetAddr, Use, IInv, TypeOK
<1>4. delegated' \in Seq(Hosts)
  <2>1. delegated \in Seq(Hosts)
    BY DEF IInv, TypeOK
  <2>2. CASE DelegateHostnameAdd
    <3>1. Execute("DELEGATE_HOSTNAME_ADD")
      BY <2>2 DEF DelegateHostnameAdd
    <3>2. the.name \in Hosts
      BY <3>1, ExecuteFacts DEF WellFormed
    <3>3. delegated' = delegated \/ delegated' = <<the.name>> \o delegated
      BY <2>2 DEF DelegateHostnameAdd
    <3> QED BY <2>1, <3>2, <3>3, InFront
  <2> QED BY <2>1, <2>2 DEF Change, DelegateHostnameSetAddr, names
<1>5. TypeOK'
  BY <1>1, <1>2, <1>3, <1>4, ExecuteFacts DEF TypeOK
<1>6. WaitInv'
  BY <1>1, <1>2, <1>5, ExecuteWait
<1> QED BY <1>1, <1>2, <1>5, <1>6, TailStep

\* A collision mangles a name, or a packet leaves everything as it is.
LEMMA RxHandleStep ==
  ASSUME IInv, RxHandle
  PROVE  IInv'
<1>1. /\ Execute("RX_HANDLE") /\ task' = task /\ sema' = sema /\ lost' = lost
      /\ fault' = fault
  BY DEF RxHandle
<1>2. CASE \E h \in Hosts : Rename(h)
  <2>1. PICK h \in Hosts : Rename(h)
    BY <1>2
  <2>2. TypeOK'
    BY <1>1, <2>1, ExecuteFacts, RenameFacts DEF TypeOK
  <2>3. WaitInv'
    BY <1>1, <2>2, ExecuteWait
  <2> QED BY <1>1, <2>1, <2>2, <2>3, RenameFacts, TailStep
<1>3. CASE \E n \in Instances : RenameInstance(n)
  <2>1. PICK n \in Instances :
          /\ instance' = n /\ hostname' = hostname /\ delegated' = delegated
          /\ services' = services /\ item' = item /\ raced' = raced
          /\ outdated' = outdated \cup Underway
    BY <1>3 DEF RenameInstance
  <2>2. TypeOK'
    BY <1>1, <2>1, ExecuteFacts, UnderwayItems DEF TypeOK, InstanceName
  <2>3. WaitInv'
    BY <1>1, <2>2, ExecuteWait
  <2> QED BY <1>1, <2>1, <2>2, <2>3, TailStep
<1>4. CASE \E i \in Listed, n \in Instances : RenameService(i, n)
  <2>1. PICK i \in Items, n \in Instances : RenameService(i, n)
    BY <1>4, UnderwayItems
  <2>2. TypeOK'
    BY <1>1, <2>1, ExecuteFacts, RenameServiceFacts DEF TypeOK
  <2>3. WaitInv'
    BY <1>1, <2>2, ExecuteWait
  <2> QED BY <1>1, <2>1, <2>2, <2>3, RenameServiceFacts, TailStep
<1>5. CASE UNCHANGED <<names, list>>
  <2>1. TypeOK'
    BY <1>1, <1>5, ExecuteFacts DEF TypeOK, names, list
  <2>2. WaitInv'
    BY <1>1, <2>1, ExecuteWait
  <2> QED BY <1>1, <1>5, <2>1, <2>2, TailStep DEF names, list
<1> QED BY <1>2, <1>3, <1>4, <1>5 DEF RxHandle

\* The service that was under way first is in the list.
LEMMA ServiceAddStep ==
  ASSUME IInv, ServiceAdd
  PROVE  IInv' /\ Listed' = Listed \cup {the.item} /\ the.item \in Underway
<1>1. /\ Execute("SERVICE_ADD") /\ services' = <<the.item>> \o services
      /\ raced' = raced \cup (Underway \ {the.item})
      /\ hostname' = hostname /\ instance' = instance /\ delegated' = delegated
      /\ item' = item /\ outdated' = outdated /\ sema' = sema /\ task' = task
      /\ lost' = lost /\ fault' = fault
  BY DEF ServiceAdd, names
<1>2. the.item \in Items /\ Adds(the) /\ services \in Seq(Items) /\ Len(services) \in Nat
  <2>1. the.item \in Items /\ Adds(the)
    BY <1>1, ExecuteFacts DEF WellFormed
  <2>2. services \in Seq(Items)
    BY <1>1, ExecuteFacts DEF TypeOK
  <2> QED BY <2>1, <2>2, LenProperties
<1>3. /\ services' \in Seq(Items) /\ Len(services') = Len(services) + 1
      /\ services'[1] = the.item
      /\ \A k \in 1 .. Len(services) : services'[k + 1] = services[k]
  BY <1>1, <1>2, InFront
<1>4. \A k \in 1 .. Len(services') : k = 1 \/ (k - 1 \in 1 .. Len(services)
                                               /\ services'[k] = services[k - 1])
  <2> SUFFICES ASSUME NEW k \in 1 .. Len(services'), k # 1
               PROVE  k - 1 \in 1 .. Len(services) /\ services'[k] = services[k - 1]
    OBVIOUS
  <2>1. k - 1 \in 1 .. Len(services) /\ (k - 1) + 1 = k
    BY <1>2, <1>3
  <2> QED BY <1>3, <2>1
<1>5. Listed' = Listed \cup {the.item}
  <2>1. ASSUME NEW x \in Listed' PROVE x \in Listed \cup {the.item}
    <3>1. PICK k \in 1 .. Len(services') : x = services'[k]
      BY <1>3, <2>1 DEF Listed, ToSet
    <3>2. CASE k = 1
      BY <1>3, <3>1, <3>2
    <3>3. CASE k # 1
      <4>1. k - 1 \in 1 .. Len(services) /\ x = services[k - 1]
        BY <1>4, <3>1, <3>3
      <4> QED BY <1>2, <4>1 DEF Listed, ToSet
    <3> QED BY <3>2, <3>3
  <2>2. ASSUME NEW x \in Listed PROVE x \in Listed'
    <3>1. PICK k \in 1 .. Len(services) : x = services[k]
      BY <1>2, <2>2 DEF Listed, ToSet
    <3>2. k + 1 \in 1 .. Len(services') /\ services'[k + 1] = x
      BY <1>2, <1>3, <3>1
    <3> QED BY <1>3, <3>2 DEF Listed, ToSet
  <2>3. the.item \in Listed'
    <3>1. 1 \in 1 .. Len(services')
      BY <1>2, <1>3
    <3> QED BY <1>3, <3>1 DEF Listed, ToSet
  <2> QED BY <2>1, <2>2, <2>3
<1>6. the.item \notin Listed /\ the.item \in Underway
  <2>1. 1 \in 1 .. Len(queue) /\ the = queue[1]
    BY <1>1, ExecuteFacts, TailFacts
  <2> QED BY <1>1, <1>2, <2>1, ExecuteFacts, UnderwayAt DEF CoreInv, FreshInv
<1>7. \A i, j \in 1 .. Len(services') : services'[i] = services'[j] => i = j
  <2> SUFFICES ASSUME NEW i \in 1 .. Len(services'), NEW j \in 1 .. Len(services'),
                      services'[i] = services'[j]
               PROVE  i = j
    OBVIOUS
  <2>1. \A k \in 1 .. Len(services) : services[k] # the.item
    BY <1>2, <1>6 DEF Listed, ToSet
  <2>2. \A k, l \in 1 .. Len(services) : services[k] = services[l] => k = l
    BY DEF IInv, TypeOK
  <2>3. CASE i = 1
    BY <1>3, <1>4, <2>1, <2>3
  <2>4. CASE j = 1
    BY <1>3, <1>4, <2>1, <2>4
  <2>5. CASE i # 1 /\ j # 1
    <3>1. i - 1 \in 1 .. Len(services) /\ services'[i] = services[i - 1]
      BY <1>4, <2>5
    <3>2. j - 1 \in 1 .. Len(services) /\ services'[j] = services[j - 1]
      BY <1>4, <2>5
    <3>3. i - 1 = j - 1
      BY <2>2, <3>1, <3>2
    <3> QED BY <3>3
  <2> QED BY <2>3, <2>4, <2>5
<1>8. raced' \subseteq Items
  BY <1>1, UnderwayItems DEF IInv, TypeOK
<1>9. TypeOK'
  BY <1>1, <1>3, <1>7, <1>8, ExecuteFacts DEF TypeOK
<1>10. CoreInv'
  BY <1>1, <1>2, <1>5, ExecuteFacts, AddCore
<1>11. Underway' = Underway \ {the.item}
  BY <1>1, <1>2, <1>9, <1>10, ExecuteFacts, TailUnderway
<1>12. HostCheck'
  BY <1>1, <1>5, <1>6, <1>11, ExecuteFacts, AddHostCheck
<1>13. WaitInv'
  BY <1>1, <1>9, ExecuteWait
<1> QED BY <1>5, <1>6, <1>9, <1>10, <1>12, <1>13 DEF IInv, CoreInv, HostCheck

\* Services are freed by an action that removes them.
LEMMA FreeStep ==
  ASSUME IInv, NEW type, Execute(type), type \notin {"SERVICE_ADD", "HOSTNAME_SET"},
         NEW S \in SUBSET Listed, \A i \in S : Removes(the, i), FreeServices(S),
         hostname' = hostname, instance' = instance, delegated' \in Seq(Hosts),
         fault' \in BOOLEAN, sema' = sema, lost' = lost
  PROVE  IInv' /\ Listed' \subseteq Listed
<1>1. /\ services' = Without(services, S)
      /\ item' = [i \in Items |-> IF i \in S THEN Blank ELSE item[i]]
      /\ TasksUnsure(S)
      /\ raced' = raced /\ outdated' = outdated
  BY DEF FreeServices, TasksUnsure
<1>2. /\ services \in Seq(Items)
      /\ \A i, j \in 1 .. Len(services) : services[i] = services[j] => i = j
  BY DEF IInv, TypeOK
<1>3. services' \in Seq(Items) /\ Len(services') <= Len(services)
  BY <1>1, <1>2, WithoutPlaces
<1>4. Listed' = Listed \ S
  BY <1>1, <1>2, WithoutElements DEF Listed
<1>5. \A i, j \in 1 .. Len(services') : services'[i] = services'[j] => i = j
  BY <1>1, <1>2, WithoutUnique
<1>6. item' \in [Items -> [instance : InstanceName, host : Hosts \cup {NoName},
                           own : BOOLEAN]]
  <2>1. Blank \in [instance : InstanceName, host : Hosts \cup {NoName}, own : BOOLEAN]
    BY DEF Blank, InstanceName
  <2>2. item \in [Items -> [instance : InstanceName, host : Hosts \cup {NoName},
                            own : BOOLEAN]]
    BY DEF IInv, TypeOK
  <2> QED BY <1>1, <2>1, <2>2
<1>7. ASSUME NEW t \in Tasks
      PROVE  /\ task'[t] \in [at : {"idle", "ready", "polling", "naming", "hung"},
                              action : Action]
             /\ task'[t].at = task[t].at
             /\ Adds(task'[t].action) <=> Adds(task[t].action)
             /\ task'[t].action.item = task[t].action.item
  <2>1. task[t] \in [at : {"idle", "ready", "polling", "naming", "hung"}, action : Action]
    BY DEF IInv, TypeOK
  <2>2. CASE task[t].action.item \in S
    <3>1. task'[t] = [task[t] EXCEPT !.action.sure = FALSE]
      BY <1>1, <2>2 DEF TasksUnsure
    <3>2. task'[t] = [task[t] EXCEPT !.action = [@ EXCEPT !.sure = FALSE]]
      BY <3>1
    <3>3. task[t].action \in Action
      BY <2>1
    <3>4. /\ [task[t].action EXCEPT !.sure = FALSE] \in Action
          /\ SameButSure([task[t].action EXCEPT !.sure = FALSE], task[t].action)
      BY <3>3, Unsure
    <3>5. /\ task'[t].action = [task[t].action EXCEPT !.sure = FALSE]
          /\ task'[t].at = task[t].at
          /\ task'[t] \in [at : {"idle", "ready", "polling", "naming", "hung"},
                           action : Action]
      BY <2>1, <3>2, <3>4
    <3> QED BY <3>4, <3>5 DEF SameButSure, Adds
  <2>3. CASE task[t].action.item \notin S
    <3>1. task'[t] = task[t]
      BY <1>1, <2>3 DEF TasksUnsure
    <3> QED BY <2>1, <3>1
  <2> QED BY <2>2, <2>3
<1>8. task' \in [Tasks -> [at : {"idle", "ready", "polling", "naming", "hung"},
                           action : Action]]
  <2>1. task' = [t \in Tasks |-> task'[t]]
    BY <1>1 DEF TasksUnsure
  <2> QED BY <1>7, <2>1
<1>9. TypeOK'
  BY <1>1, <1>3, <1>5, <1>6, <1>8, ExecuteFacts DEF TypeOK
<1>10. CoreInv'
  BY <1>1, <1>4, ExecuteFacts, FreeCore
<1>11. Underway' = Underway
  BY <1>7, <1>9, <1>10, ExecuteFacts, TailUnderway
<1>12. Listed \cap Underway = {}
  <2> SUFFICES ASSUME NEW i \in Underway PROVE i \notin Listed
    OBVIOUS
  <2> QED BY ExecuteFacts, UnderwayAt DEF CoreInv, FreshInv
<1>13. \A i \in Listed \cup Underway : i \notin S => item'[i] = item[i]
  BY <1>1, UnderwayItems
<1>14. HostCheck'
  BY <1>1, <1>3, <1>4, <1>11, <1>12, <1>13, ExecuteFacts, FreeHostCheck
<1>15. WaitInv'
  BY <1>7, <1>9, ExecuteWait
<1> QED BY <1>4, <1>9, <1>10, <1>14, <1>15 DEF IInv, CoreInv, HostCheck

\* The actions that remove services.
LEMMA RemoveStep ==
  ASSUME IInv, ServiceDel \/ ServicesClear \/ DelegateHostnameRemove
  PROVE  IInv' /\ Listed' \subseteq Listed
<1>1. CASE ServiceDel
  <2>1. /\ Execute("SERVICE_DEL") /\ FreeServices({the.item} \cap Listed)
        /\ fault' \in BOOLEAN /\ hostname' = hostname /\ instance' = instance
        /\ delegated' = delegated /\ sema' = sema /\ lost' = lost
    BY <1>1 DEF ServiceDel, names
  <2>2. \A i \in {the.item} \cap Listed : Removes(the, i)
    BY <2>1, ExecuteFacts DEF Removes
  <2> QED BY <2>1, <2>2, FreeStep DEF IInv, TypeOK
<1>2. CASE ServicesClear
  <2>1. /\ Execute("SERVICES_CLEAR") /\ FreeServices(Listed)
        /\ fault' = fault /\ hostname' = hostname /\ instance' = instance
        /\ delegated' = delegated /\ sema' = sema /\ lost' = lost
    BY <1>2 DEF ServicesClear, names
  <2>2. \A i \in Listed : Removes(the, i)
    BY <2>1, ExecuteFacts DEF Removes
  <2> QED BY <2>1, <2>2, FreeStep DEF IInv, TypeOK
<1>3. CASE DelegateHostnameRemove
  <2> DEFINE S == {i \in Listed : item[i].host = the.name}
  <2>1. /\ Execute("DELEGATE_HOSTNAME_REMOVE") /\ FreeServices(S)
        /\ fault' = fault /\ hostname' = hostname /\ instance' = instance
        /\ delegated' = Without(delegated, {the.name}) /\ sema' = sema /\ lost' = lost
    BY <1>3 DEF DelegateHostnameRemove
  <2>2. \A i \in S : Removes(the, i)
    BY <2>1, ExecuteFacts DEF Removes
  <2>3. delegated' \in Seq(Hosts)
    BY <2>1, WithoutPlaces DEF IInv, TypeOK
  <2>4. S \in SUBSET Listed
    OBVIOUS
  <2> HIDE DEF S
  <2> QED BY <2>1, <2>2, <2>3, <2>4, FreeStep DEF IInv, TypeOK
<1> QED BY <1>1, <1>2, <1>3

----------------------------------------------------------------------------
(* The theorems                                                              *)

\* The invariant holds at first.
LEMMA InitInv ==
  ASSUME Init
  PROVE  IInv
<1>1. TypeOK
  <2>1. Blank \in [instance : InstanceName, host : Hosts \cup {NoName}, own : BOOLEAN]
    BY DEF Blank, InstanceName
  <2>2. NoAction \in Action
    BY NoActionFacts DEF WellFormed
  <2>3. QueueLen \in Nat /\ MaxCalls \in Nat
    BY LimitsAssumption
  <2>4. /\ task \in [Tasks -> [at : {"idle", "ready", "polling", "naming", "hung"},
                               action : Action]]
        /\ item \in [Items -> [instance : InstanceName, host : Hosts \cup {NoName},
                               own : BOOLEAN]]
    BY <2>1, <2>2 DEF Init
  <2>5. /\ services \in Seq(Items) /\ Len(services) = 0
        /\ queue \in Seq(Action) /\ Len(queue) = 0 /\ delegated \in Seq(Hosts)
    <3> HIDE DEF Action
    <3> QED BY DEF Init
  <2>6. QueueLen >= 0 /\ 0 \in 0 .. MaxCalls
    BY <2>3
  <2>7. \A i, j \in 1 .. Len(services) : services[i] = services[j] => i = j
    BY <2>5
  <2>8. /\ hostname \in Hosts /\ instance \in InstanceName /\ calls \in 0 .. MaxCalls
        /\ sema \in BOOLEAN /\ lost \in Nat /\ fault \in BOOLEAN
        /\ raced \subseteq Items /\ outdated \subseteq Items
    BY <2>6 DEF Init, InstanceName
  <2> QED BY <2>4, <2>5, <2>6, <2>7, <2>8 DEF TypeOK
<1>2. Listed = {} /\ Len(queue) = 0 /\ \A t \in Tasks : task[t].action = NoAction
  BY DEF Init, Listed, ToSet
<1>3. QueueInv
  BY <1>2 DEF QueueInv
<1>4. TaskInv
  BY <1>2, NoActionFacts DEF TaskInv, Init
<1>5. FreshInv
  BY <1>2, NoActionFacts DEF FreshInv
<1>6. SureInv
  BY <1>2, NoActionFacts DEF SureInv
<1>7. Underway = {}
  <2> SUFFICES ASSUME NEW i \in Underway PROVE FALSE
    OBVIOUS
  <2> QED BY <1>1, <1>2, <1>4, UnderwayAt, NoActionFacts
<1>8. HostInv /\ CheckInv
  BY <1>2, <1>7 DEF HostInv, CheckInv
<1>9. WaitInv
  <2>1. Waiting = {} /\ Coming = {}
    BY <1>2 DEF Waiting, Coming, Init
  <2>2. sema = FALSE /\ lost = 0
    BY DEF Init
  <2>3. Cardinality(Waiting) = 0 /\ Cardinality(Coming) = 0
    BY <2>1, FS_EmptySet
  <2>4. Cardinality(Waiting) = Cardinality(Coming) + (IF sema THEN 1 ELSE 0) + lost
    BY <2>2, <2>3
  <2>5. WaitersAccounted
    BY <2>4 DEF WaitersAccounted, Waiting, Coming
  <2> QED BY <2>1, <2>5, FS_EmptySet DEF WaitInv
<1> QED BY <1>1, <1>3, <1>4, <1>5, <1>6, <1>8, <1>9 DEF IInv

\* Every step of an application keeps the invariant and leaves the list alone.
LEMMA ApplicationInv ==
  ASSUME IInv, NEW t \in Tasks, Application(t)
  PROVE  IInv' /\ services' = services
<1>1. IInv'
  BY CallsStep, ServiceCallsStep, ServiceAddCallStep, SendStep, StopPollingStep,
     TakeSemaStep, LookupStep DEF Application
<1>2. services' = services
  BY DEF Application, CallHostnameSet, CallInstanceNameSet, CallDelegateHostnameAdd,
         CallDelegateHostnameSetAddress, CallDelegateHostnameRemove, CallServiceRemoveAll,
         CallServiceAdd, CallServicePortSet, CallServiceTxtSet, CallServiceTxtItemSet,
         CallServiceTxtItemRemove, CallServiceSubtypeAdd, CallServiceInstanceNameSet,
         CallServiceRemove, CallLookupDelegated, Send, StopPolling, TakeSema, PostNow,
         OnService, Ready, list
<1> QED BY <1>1, <1>2

\* Every step keeps the invariant.
LEMMA NextInv ==
  ASSUME IInv, [Next]_vars
  PROVE  IInv'
<1>1. CASE Service
  BY <1>1, HostnameSetStep, InstanceSetStep, ServiceAddStep, ServiceInstanceSetStep,
     PlainStep, RemoveStep, RxHandleStep DEF Service
<1>2. CASE Receive
  BY <1>2, ReceiveStep
<1>3. CASE \E t \in Tasks : Application(t)
  BY <1>3, ApplicationInv
<1>4. CASE UNCHANGED vars
  BY <1>4 DEF vars, names, list, IInv, TypeOK, QueueInv, TaskInv, FreshInv, SureInv, HostInv,
     CheckInv, WaitInv, WaitersAccounted, Waiting, Listed, Underway, NameOf
<1> QED BY <1>1, <1>2, <1>3, <1>4 DEF Next

\* The inductive invariant holds of every behaviour.
THEOREM Invariant == Spec => []IInv
<1>1. Init => IInv
  BY InitInv
<1>2. IInv /\ [Next]_vars => IInv'
  BY NextInv
<1> QED BY <1>1, <1>2, PTL DEF Spec

\* Every variable stays in its type, and no service is twice in the list.
THEOREM TypeCorrect == Spec => []TypeOK
<1>1. IInv => TypeOK
  BY DEF IInv
<1> QED BY <1>1, Invariant, PTL

\* A call that was made on a service of the list finds it there when it is executed,
\* unless a removal was executed or queued before the call was posted.
THEOREM CallsFindTheirService == Spec => []SureCalls
<1>1. IInv => SureCalls
  BY DEF IInv, SureInv, SureCalls
<1> QED BY <1>1, Invariant, PTL

\* The listed services of the own hostname have its new value after it was set or
\* mangled, but for those that were on their way into the list at the time.
THEOREM ServicesFollowTheHostname == Spec => []OwnHost
<1>1. IInv => OwnHost
  BY DEF IInv, HostInv, OwnHost
<1> QED BY <1>1, Invariant, PTL

\* Whoever waits in mdns_hostname_set is accounted for: by an action in the queue, by the
\* semaphore, or by one of the gives that were lost.
THEOREM WaitersCounted == Spec => []WaitersAccounted
<1>1. IInv => WaitersAccounted
  BY DEF IInv, WaitInv
<1> QED BY <1>1, Invariant, PTL

\* The step of ChecksHold.
ChecksHoldStep ==
  \A i \in ToSet(services') \ (Listed \cup raced \cup outdated) :
    /\ Len(services') <= MaxServices
    /\ \A j \in Listed :
         item[j].host = item[i].host => NameOf(item[j].instance) # NameOf(item[i].instance)

\* Only the addition of a service makes the list longer.
LEMMA OthersAddNothing ==
  ASSUME IInv, [Next]_vars, ~ServiceAdd
  PROVE  Listed' \subseteq Listed
<1>1. CASE services' = services
  BY <1>1 DEF Listed
<1>2. CASE ServiceDel \/ ServicesClear \/ DelegateHostnameRemove
  BY <1>2, RemoveStep
<1>3. CASE Service
  BY <1>1, <1>2, <1>3 DEF Service, HostnameSet, InstanceSet, Change, ServiceInstanceSet,
     DelegateHostnameAdd, DelegateHostnameSetAddr, RxHandle, Rename, RenameInstance,
     RenameService, names, list
<1>4. CASE Receive
  BY <1>1, <1>4 DEF Receive, list
<1>5. CASE \E t \in Tasks : Application(t)
  BY <1>1, <1>5, ApplicationInv
<1>6. CASE UNCHANGED vars
  BY <1>1, <1>6 DEF vars, list
<1> QED BY <1>3, <1>4, <1>5, <1>6 DEF Next

\* A step adds a service only by SERVICE_ADD, for which CheckInv has the checks.
LEMMA ChecksHoldInStep ==
  ASSUME IInv, [Next]_vars
  PROVE  ChecksHoldStep
<1>1. CASE ServiceAdd
  <2> SUFFICES ASSUME NEW i \in Listed' \ (Listed \cup raced \cup outdated)
               PROVE  /\ Len(services') <= MaxServices
                      /\ \A j \in Listed : item[j].host = item[i].host =>
                           NameOf(item[j].instance) # NameOf(item[i].instance)
    BY DEF ChecksHoldStep, Listed
  <2>1. i = the.item /\ i \in Underway \ (raced \cup outdated)
    BY <1>1, ServiceAddStep
  <2>2. /\ Len(services) < MaxServices
        /\ \A j \in Listed : item[j].host = item[i].host =>
             NameOf(item[j].instance) # NameOf(item[i].instance)
    BY <2>1 DEF IInv, CheckInv
  <2>3. Len(services') = Len(services) + 1
    <3>1. services' = <<the.item>> \o services /\ services \in Seq(Items) /\ the.item \in Items
      BY <1>1, <2>1, UnderwayItems DEF ServiceAdd, IInv, TypeOK
    <3> QED BY <3>1, InFront
  <2>4. Len(services) \in Nat /\ MaxServices \in Nat
    BY LimitsAssumption DEF IInv, TypeOK
  <2> QED BY <2>2, <2>3, <2>4
<1>2. CASE ~ServiceAdd
  BY <1>2, OthersAddNothing DEF ChecksHoldStep, Listed
<1> QED BY <1>1, <1>2

\* What mdns_service_add has checked, room for the service and no other of its name, is
\* still so when the service is added, unless another was added or a name changed meanwhile.
THEOREM ChecksStillHold == Spec => ChecksHold
<1>1. IInv /\ [Next]_vars => ChecksHoldStep
  BY ChecksHoldInStep
<1>2. ChecksHold <=> [][ChecksHoldStep]_vars
  BY DEF ChecksHold, ChecksHoldStep
<1> QED BY <1>1, <1>2, Invariant, PTL DEF Spec

=============================================================================

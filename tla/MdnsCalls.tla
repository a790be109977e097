----------------------------- MODULE MdnsCalls ------------------------------
(***************************************************************************)
(* The calls by which the tasks of an application configure the mDNS        *)
(* component.  A call looks at the services and the hostname without the    *)
(* lock, posts an action, which may hold the address of the service found,  *)
(* and the service task executes the actions in the order they were posted. *)
(* Only mdns_hostname_set waits for its action, on a semaphore that all its *)
(* callers share, and the calls that add a service look for it in the list  *)
(* until it is there or their time is over.                                 *)
(*                                                                          *)
(* All services are of one type, allocations succeed, names differ in more  *)
(* than case, and the first hostname is set before any other call.  Port,   *)
(* TXT items, subtypes and addresses are left out, as is what an action     *)
(* sends, which is the matter of MdnsResponder.  Taking an action from the  *)
(* queue and executing it is one step, under the lock that a lookup of      *)
(* services holds as well.                                                  *)
(***************************************************************************)
EXTENDS Integers, SequencesExt, MdnsLists

CONSTANTS Tasks,       \* of the application
          Items,       \* mdns_srv_item_t: addresses, used again when freed
          Instances,   \* instance names, also those made by mangling
          Hosts,       \* hostnames, likewise
          MaxServices, \* MDNS_MAX_SERVICES
          QueueLen,    \* MDNS_ACTION_QUEUE_LEN
          MaxCalls,    \* bound on calls and received packets
          NoItem,      \* NULL
          NoName       \* NULL, and the name of a call without one

ASSUME NoneAssumption == NoItem \notin Items /\ NoName \notin Instances \cup Hosts

ASSUME LimitsAssumption ==
  MaxServices \in Nat \ {0} /\ QueueLen \in Nat \ {0} /\ MaxCalls \in Nat

VARIABLES
  hostname,  \* _mdns_server->hostname
  instance,  \* _mdns_server->instance
  delegated, \* _mdns_host_list, the newest first
  services,  \* _mdns_server->services
  item,      \* per address: the service there
  queue,     \* _mdns_server->action_queue
  sema,      \* _mdns_server->action_sema, a binary semaphore
  task,      \* per task: what it is at, and the action it is to post
  raced,     \* services checked before another was added that was under way
  outdated,  \* services checked before a name changed
  lost,      \* how often the semaphore was given when it had not been taken
  fault,     \* freed memory or a null pointer was used
  calls      \* calls and packets so far

list == <<services, item, raced, outdated>>
names == <<hostname, instance, delegated>>
vars == <<names, list, queue, sema, task, lost, fault, calls>>

InstanceName == Instances \cup {NoName}

Blank == [instance |-> NoName, host |-> NoName, own |-> FALSE]

ItemCalls == {"CHANGE", "SERVICE_INSTANCE_SET", "SERVICE_DEL"}

\* "sure": nothing that removes the service was executed or queued before the action.
Action == [type : {"HOSTNAME_SET", "INSTANCE_SET", "DELEGATE_HOSTNAME_ADD",
                   "DELEGATE_HOSTNAME_REMOVE", "DELEGATE_HOSTNAME_SET_ADDR",
                   "SERVICE_ADD", "SERVICES_CLEAR", "RX_HANDLE"} \cup ItemCalls,
           item : Items \cup {NoItem},
           name : Instances \cup Hosts \cup {NoName},
           sure : BOOLEAN]

Act(type, i, name) == [type |-> type, item |-> i, name |-> name, sure |-> FALSE]
Sure(type, i, name) == [type |-> type, item |-> i, name |-> name, sure |-> TRUE]
NoAction == Act("RX_HANDLE", NoItem, NoName)

TypeOK ==
  /\ hostname \in Hosts /\ instance \in InstanceName /\ delegated \in Seq(Hosts)
  /\ services \in Seq(Items)
  /\ \A i, j \in 1 .. Len(services) : services[i] = services[j] => i = j
  /\ item \in [Items -> [instance : InstanceName, host : Hosts \cup {NoName}, own : BOOLEAN]]
  /\ queue \in Seq(Action) /\ Len(queue) <= QueueLen
  /\ sema \in BOOLEAN /\ lost \in Nat /\ fault \in BOOLEAN
  /\ task \in [Tasks -> [at : {"idle", "ready", "polling", "naming", "hung"}, action : Action]]
  /\ raced \subseteq Items /\ outdated \subseteq Items
  /\ calls \in 0 .. MaxCalls

Init ==
  /\ hostname \in Hosts /\ instance = NoName /\ delegated = <<>>
  /\ services = <<>> /\ item = [i \in Items |-> Blank]
  /\ queue = <<>> /\ sema = FALSE
  /\ task = [t \in Tasks |-> [at |-> "idle", action |-> NoAction]]
  /\ raced = {} /\ outdated = {} /\ lost = 0 /\ fault = FALSE
  /\ calls = 0

----------------------------------------------------------------------------
(* The list of services *)

Listed == ToSet(services)

\* Services that are made and not yet in the list.
Underway ==
  {a.item : a \in {b \in ToSet(queue) : b.type = "SERVICE_ADD"}}
    \cup {task[t].action.item : t \in {u \in Tasks : /\ task[u].at = "ready"
                                                     /\ task[u].action.type = "SERVICE_ADD"}}

Unused == Items \ (Listed \cup Underway)

\* A service without an instance name has that of the server, or else its hostname.
NameOf(inst) ==
  IF inst # NoName THEN inst ELSE IF instance # NoName THEN instance ELSE hostname

\* A call without an instance name means any service of the host.
Matches(i, inst, host) ==
  /\ item[i].host = host
  /\ inst # NoName => NameOf(item[i].instance) = NameOf(inst)

\* _mdns_get_service_item_instance
Lookup(inst, host) ==
  LET found == {k \in 1 .. Len(services) : Matches(services[k], inst, host)}
  IN  IF found = {} THEN NoItem ELSE services[CHOOSE k \in found : \A l \in found : k <= l]

\* A changed _mdns_can_add_more_services, which counts up to the limit and not beyond.
CanFillOneMore == Len(services) <= MaxServices

CanAddMoreServices == Len(services) < MaxServices

----------------------------------------------------------------------------
(* The calls.  Those that fail at once leave everything as it is. *)

Called == ~fault /\ calls < MaxCalls /\ calls' = calls + 1

\* A changed xQueueSend, which takes one action too many.
PostsOneMore(a) == Len(queue) <= QueueLen /\ queue' = Append(queue, a)

\* A changed xQueueSend, which puts what is urgent first.
PostsFirst(a) ==
  /\ Len(queue) < QueueLen
  /\ queue' = IF a.type \in {"SERVICE_DEL", "SERVICES_CLEAR"} THEN <<a>> \o queue
              ELSE Append(queue, a)

Post(a) == Len(queue) < QueueLen /\ queue' = Append(queue, a)

Ready(t, a) ==
  /\ Called /\ task[t].at = "idle"
  /\ task' = [task EXCEPT ![t] = [at |-> "ready", action |-> a]]
  /\ UNCHANGED <<names, services, queue, sema, lost, fault>>

\* A call that looks at nothing, or at a pointer only, is posted in the same step.
PostNow(t, a) ==
  /\ Called /\ task[t].at = "idle" /\ Post(a)
  /\ UNCHANGED <<names, list, sema, lost, fault>>

\* mdns_hostname_set
CallHostnameSet(t) ==
  \E h \in Hosts : /\ PostNow(t, Act("HOSTNAME_SET", NoItem, h))
                   /\ task' = [task EXCEPT ![t].at = "naming"]

\* mdns_instance_name_set
CallInstanceNameSet(t) ==
  \E n \in Instances : PostNow(t, Act("INSTANCE_SET", NoItem, n)) /\ UNCHANGED task

\* mdns_delegate_hostname_add, mdns_delegate_hostname_set_address
CallDelegateHostnameAdd(t) ==
  \E h \in Hosts : /\ PostNow(t, Act("DELEGATE_HOSTNAME_ADD", NoItem, h))
                   /\ UNCHANGED task

CallDelegateHostnameSetAddress(t) ==
  \E h \in Hosts : /\ PostNow(t, Act("DELEGATE_HOSTNAME_SET_ADDR", NoItem, h))
                   /\ UNCHANGED task

CallDelegateHostnameRemove(t) ==
  \E h \in Hosts : /\ PostNow(t, Act("DELEGATE_HOSTNAME_REMOVE", NoItem, h))
                   /\ UNCHANGED task

CallServiceRemoveAll(t) ==
  services # <<>> /\ PostNow(t, Act("SERVICES_CLEAR", NoItem, NoName)) /\ UNCHANGED task

\* mdns_service_add(_for_host): the hostname is copied into the service here.
CallServiceAdd(t) ==
  \E inst \in InstanceName, host \in Hosts, i \in Unused :
    /\ CanAddMoreServices /\ Lookup(inst, host) = NoItem
    /\ Ready(t, Act("SERVICE_ADD", i, NoName))
    /\ item' = [item EXCEPT ![i] = [instance |-> inst, host |-> host, own |-> host = hostname]]
    /\ raced' = raced \ {i} /\ outdated' = outdated \ {i}

\* The call is on the service found, which the action refers to by its address.
OnService(t, type, name) ==
  \E inst \in InstanceName, host \in Hosts :
    /\ Lookup(inst, host) # NoItem
    /\ Ready(t, Sure(type, Lookup(inst, host), name))
    /\ UNCHANGED <<item, raced, outdated>>

CallServicePortSet(t) == OnService(t, "CHANGE", NoName)
CallServiceTxtSet(t) == OnService(t, "CHANGE", NoName)
CallServiceTxtItemSet(t) == OnService(t, "CHANGE", NoName)
CallServiceTxtItemRemove(t) == OnService(t, "CHANGE", NoName)
CallServiceSubtypeAdd(t) == OnService(t, "CHANGE", NoName)
CallServiceInstanceNameSet(t) ==
  \E n \in Instances : OnService(t, "SERVICE_INSTANCE_SET", n)
CallServiceRemove(t) == OnService(t, "SERVICE_DEL", NoName)

RemovalAhead(i) ==
  \E a \in ToSet(queue) : \/ a.type \in {"SERVICES_CLEAR", "DELEGATE_HOSTNAME_REMOVE"}
                          \/ a.type = "SERVICE_DEL" /\ a.item = i

\* The action is posted, or the call fails and frees what it made.
Send(t) ==
  LET a == task[t].action
      posted == [a EXCEPT !.sure = @ /\ ~RemovalAhead(a.item)]
      add == a.type = "SERVICE_ADD"
      next(at) == [task EXCEPT ![t] = [at |-> at, action |-> NoAction]]
  IN  /\ ~fault /\ task[t].at = "ready"
      /\ \/ /\ Post(posted)
            /\ task' = next(IF add THEN "polling" ELSE "idle")
            /\ UNCHANGED item
         \/ /\ Len(queue) >= QueueLen
            /\ task' = next("idle")
            /\ item' = IF add THEN [item EXCEPT ![a.item] = Blank] ELSE item
            /\ UNCHANGED queue
      /\ UNCHANGED <<names, services, raced, outdated, sema, lost, fault, calls>>

\* The service is in the list, or the time is over while it may still be queued.
StopPolling(t) ==
  /\ ~fault /\ task[t].at = "polling"
  /\ task' = [task EXCEPT ![t].at = "idle"]
  /\ UNCHANGED <<names, list, queue, sema, lost, fault, calls>>

TakeSema(t) ==
  /\ ~fault /\ task[t].at = "naming" /\ sema
  /\ sema' = FALSE
  /\ task' = [task EXCEPT ![t].at = "idle"]
  /\ UNCHANGED <<names, list, queue, lost, fault, calls>>

\* The services of a lookup, newest first: those of the own hostname, or the others.
LookedUp(inst, selfhost) ==
  LET looked == {i \in Listed : /\ (item[i].host = hostname) = selfhost
                                /\ Matches(i, inst, item[i].host)}
  IN  Without(services, Listed \ looked)

\* The services whose addresses are copied without end: the loop over the delegated
\* hosts never leaves the first.
Endless(found) ==
  {k \in 1 .. Len(found) : delegated # <<>> /\ Head(delegated) # item[found[k]].host}

LockFree == \A t \in Tasks : task[t].at # "hung"

\* mdns_lookup_delegated_service, under the lock.  It goes through the services found up
\* to the number asked for, or to one whose host has no address.
CallLookupDelegated(t) ==
  /\ Called /\ task[t].at = "idle" /\ LockFree
  /\ \E inst \in InstanceName :
       LET endless == Endless(LookedUp(inst, FALSE))
       IN  \/ endless # {} /\ task' = [task EXCEPT ![t].at = "hung"]
           \/ 1 \notin endless /\ UNCHANGED task
  /\ UNCHANGED <<names, list, queue, sema, lost, fault>>

----------------------------------------------------------------------------
(* The service task *)

Execute(type) ==
  /\ ~fault /\ LockFree /\ queue # <<>> /\ Head(queue).type = type
  /\ queue' = Tail(queue)
  /\ UNCHANGED calls

the == Head(queue)

\* The services of S leave the list and are freed.
FreeServices(S) ==
  /\ services' = Without(services, S)
  /\ item' = [i \in Items |-> IF i \in S THEN Blank ELSE item[i]]
  /\ task' = [t \in Tasks |-> IF task[t].action.item \in S
                              THEN [task[t] EXCEPT !.action.sure = FALSE] ELSE task[t]]
  /\ UNCHANGED <<raced, outdated>>

\* A changed _mdns_remap_self_service_hostname, called when the hostname is already new.
RemapsNew(new) ==
  [i \in Items |-> IF i \in Listed /\ item[i].host = new
                   THEN [item[i] EXCEPT !.host = new] ELSE item[i]]

\* _mdns_remap_self_service_hostname
Remapped(new) ==
  [i \in Items |-> IF i \in Listed /\ item[i].host = hostname
                   THEN [item[i] EXCEPT !.host = new] ELSE item[i]]

Rename(h) ==
  /\ hostname' = h /\ item' = Remapped(h)
  /\ outdated' = outdated \cup Underway
  /\ UNCHANGED <<instance, delegated, services, raced>>

\* A changed _mdns_execute_action, which gives the semaphore for a new name only.
GivesForNewName ==
  /\ Execute("HOSTNAME_SET") /\ Rename(the.name)
  /\ IF the.name # hostname
     THEN sema' = TRUE /\ lost' = lost + (IF sema THEN 1 ELSE 0)
     ELSE UNCHANGED <<sema, lost>>
  /\ UNCHANGED <<task, fault>>

\* The semaphore is binary: a second give before a take is lost.
HostnameSet ==
  /\ Execute("HOSTNAME_SET") /\ Rename(the.name)
  /\ sema' = TRUE /\ lost' = lost + (IF sema THEN 1 ELSE 0)
  /\ UNCHANGED <<task, fault>>

RenameInstance(n) ==
  /\ instance' = n
  /\ outdated' = outdated \cup Underway
  /\ UNCHANGED <<hostname, delegated, services, item, raced>>

InstanceSet ==
  /\ Execute("INSTANCE_SET") /\ RenameInstance(the.name)
  /\ UNCHANGED <<sema, task, lost, fault>>

ServiceAdd ==
  /\ Execute("SERVICE_ADD")
  /\ services' = <<the.item>> \o services
  /\ raced' = raced \cup (Underway \ {the.item})
  /\ UNCHANGED <<names, item, outdated, sema, task, lost, fault>>

\* What becomes of a call on memory that was freed is open; it may have been
\* allocated again for another service, which is then the one changed.
Use(i) == IF i \in Unused THEN fault' \in BOOLEAN ELSE UNCHANGED fault

Change ==
  /\ Execute("CHANGE") /\ Use(the.item)
  /\ UNCHANGED <<names, list, sema, task, lost>>

RenameService(i, n) ==
  /\ item' = IF i \in Unused THEN item ELSE [item EXCEPT ![i].instance = n]
  /\ outdated' = outdated \cup Underway
  /\ UNCHANGED <<names, services, raced>>

ServiceInstanceSet ==
  /\ Execute("SERVICE_INSTANCE_SET") /\ Use(the.item)
  /\ RenameService(the.item, the.name)
  /\ UNCHANGED <<sema, task, lost>>

\* Looking for a service in an empty list reads its first one all the same.
ServiceDel ==
  /\ Execute("SERVICE_DEL")
  /\ FreeServices({the.item} \cap Listed)
  /\ fault' = (services = <<>>)
  /\ UNCHANGED <<names, sema, lost>>

ServicesClear ==
  /\ Execute("SERVICES_CLEAR") /\ FreeServices(Listed)
  /\ UNCHANGED <<names, sema, lost, fault>>

DelegateHostnameAdd ==
  /\ Execute("DELEGATE_HOSTNAME_ADD")
  /\ delegated' = IF the.name \in {hostname} \cup ToSet(delegated) THEN delegated
                  ELSE <<the.name>> \o delegated
  /\ UNCHANGED <<hostname, instance, list, sema, task, lost, fault>>

DelegateHostnameSetAddr ==
  /\ Execute("DELEGATE_HOSTNAME_SET_ADDR")
  /\ UNCHANGED <<names, list, sema, task, lost, fault>>

\* The services of the host go with it, whether it was delegated or not.
DelegateHostnameRemove ==
  /\ Execute("DELEGATE_HOSTNAME_REMOVE")
  /\ FreeServices({i \in Listed : item[i].host = the.name})
  /\ delegated' = Without(delegated, {the.name})
  /\ UNCHANGED <<hostname, instance, sema, lost, fault>>

\* A received packet may conflict with a name, which is then mangled.
RxHandle ==
  /\ Execute("RX_HANDLE")
  /\ \/ \E h \in Hosts : Rename(h)
     \/ instance # NoName /\ \E n \in Instances : RenameInstance(n)
     \/ \E i \in Listed, n \in Instances : item[i].instance # NoName /\ RenameService(i, n)
     \/ UNCHANGED <<names, list>>
  /\ UNCHANGED <<sema, task, lost, fault>>

Receive ==
  /\ Called /\ Post(Act("RX_HANDLE", NoItem, NoName))
  /\ UNCHANGED <<names, list, sema, task, lost, fault>>

----------------------------------------------------------------------------

Service ==
  \/ HostnameSet \/ InstanceSet \/ ServiceAdd \/ Change \/ ServiceInstanceSet
  \/ ServiceDel \/ ServicesClear
  \/ DelegateHostnameAdd \/ DelegateHostnameSetAddr \/ DelegateHostnameRemove \/ RxHandle

Application(t) ==
  \/ CallHostnameSet(t) \/ CallInstanceNameSet(t) \/ CallDelegateHostnameAdd(t)
  \/ CallDelegateHostnameSetAddress(t) \/ CallDelegateHostnameRemove(t)
  \/ CallServiceRemoveAll(t) \/ CallServiceAdd(t) \/ CallServicePortSet(t)
  \/ CallServiceTxtSet(t) \/ CallServiceTxtItemSet(t) \/ CallServiceTxtItemRemove(t)
  \/ CallServiceSubtypeAdd(t) \/ CallServiceInstanceNameSet(t) \/ CallServiceRemove(t)
  \/ CallLookupDelegated(t)
  \/ Send(t) \/ StopPolling(t) \/ TakeSema(t)

Next == Service \/ Receive \/ \E t \in Tasks : Application(t)

Spec == Init /\ [][Next]_vars

----------------------------------------------------------------------------
(* Properties *)

\* A call is executed on the service it found, unless one that removes the service was
\* executed or queued before the call was posted.
SureCalls == \A k \in 1 .. Len(queue) : queue[k].sure => queue[k].item \in Listed

\* The services of the own hostname follow it when it is set or mangled, but for those
\* that were checked and not yet added when it, or the name of an instance, changed.
OwnHost == \A i \in Listed \ outdated : item[i].own => item[i].host = hostname

\* A service whose checks nothing has overtaken is added within the limit and beside no
\* other of its name.
ChecksHold ==
  [][\A i \in ToSet(services') \ (Listed \cup raced \cup outdated) :
       /\ Len(services') <= MaxServices
       /\ \A j \in Listed :
            item[j].host = item[i].host => NameOf(item[j].instance) # NameOf(item[i].instance)]_vars

\* The tasks in mdns_hostname_set are those whose action is queued, one for whom the
\* semaphore was given, and one for every give that was lost, who waits for ever.
WaitersAccounted ==
  LET waiting == {t \in Tasks : task[t].at = "naming"}
      coming  == {k \in 1 .. Len(queue) : queue[k].type = "HOSTNAME_SET"}
  IN  Cardinality(waiting) = Cardinality(coming) + (IF sema THEN 1 ELSE 0) + lost

=============================================================================

-------------------------- MODULE WifiStation_proof --------------------------
(***************************************************************************)
(* Proofs about WifiStation: an idle station is always woken or has given  *)
(* up, and the station implements the link the firmware builds on.         *)
(***************************************************************************)
EXTENDS WifiStation, SequenceTheorems, TLAPS

(* What appending to the event queue and taking from it do to the events    *)
(* that wake the station.                                                   *)

\* An appended event is one more that wakes the station, or none.
LEMMA AppendWakes ==
  ASSUME NEW q \in Seq(Events), NEW e \in Events
  PROVE  /\ Append(q, e) \in Seq(Events)
         /\ e \in WakeEvents => Wakes(Append(q, e)) = Wakes(q) \cup {Len(q) + 1}
         /\ e \notin WakeEvents => Wakes(Append(q, e)) = Wakes(q)
<1>1. Append(q, e) \in Seq(Events) OBVIOUS
<1>2. /\ DOMAIN q = 1 .. Len(q)
      /\ Len(q) \in Nat
      /\ DOMAIN Append(q, e) = 1 .. Len(q) + 1
      /\ \A i \in 1 .. Len(q) : Append(q, e)[i] = q[i]
      /\ Append(q, e)[Len(q) + 1] = e
  OBVIOUS
<1>3. \A i \in 1 .. Len(q) + 1 : i \in 1 .. Len(q) \/ i = Len(q) + 1
  BY <1>2
<1>4. \A i \in DOMAIN Append(q, e) :
        i \in Wakes(Append(q, e)) <=> (i \in Wakes(q) \/ (i = Len(q) + 1 /\ e \in WakeEvents))
  BY <1>2, <1>3 DEF Wakes
<1>5. Wakes(q) \subseteq DOMAIN Append(q, e)
  BY <1>2 DEF Wakes
<1>6. Len(q) + 1 \in DOMAIN Append(q, e)
  BY <1>2
<1>7. Wakes(Append(q, e)) \subseteq DOMAIN Append(q, e)
  BY DEF Wakes
<1> QED BY <1>1, <1>4, <1>5, <1>6, <1>7

\* Taken from the front, the only event that wakes the station leaves none behind.
LEMMA TailWakes ==
  ASSUME NEW q \in Seq(Events), q # << >>,
         \A i, j \in Wakes(q) : i = j
  PROVE  /\ Tail(q) \in Seq(Events)
         /\ Head(q) \in WakeEvents => Wakes(Tail(q)) = {}
         /\ Head(q) \notin WakeEvents => (Wakes(Tail(q)) = {} <=> Wakes(q) = {})
         /\ \A i, j \in Wakes(Tail(q)) : i = j
<1>1. Tail(q) \in Seq(Events) OBVIOUS
<1>2. /\ DOMAIN q = 1 .. Len(q)
      /\ Len(q) \in Nat \ {0}
      /\ DOMAIN Tail(q) = 1 .. Len(q) - 1
      /\ \A i \in 1 .. Len(q) - 1 : Tail(q)[i] = q[i + 1]
      /\ Head(q) = q[1]
  OBVIOUS
<1>3. \A i \in Wakes(Tail(q)) : i \in Nat /\ i # 0 /\ i + 1 \in Wakes(q)
  BY <1>2 DEF Wakes
<1>4. \A i \in Wakes(q) : i = 1 \/ i - 1 \in Wakes(Tail(q))
  <2> SUFFICES ASSUME NEW i \in Wakes(q), i # 1 PROVE i - 1 \in Wakes(Tail(q))
    OBVIOUS
  <2>1. i \in 2 .. Len(q) /\ q[i] \in WakeEvents
    BY <1>2 DEF Wakes
  <2>2. i - 1 \in 1 .. Len(q) - 1 /\ (i - 1) + 1 = i
    BY <2>1, <1>2
  <2>3. Tail(q)[i - 1] = q[i]
    BY <2>2, <1>2
  <2> QED BY <2>1, <2>2, <2>3, <1>2 DEF Wakes
<1>5. 1 \in Wakes(q) <=> Head(q) \in WakeEvents
  BY <1>2 DEF Wakes
<1>6. \A i, j \in Wakes(Tail(q)) : i = j
  <2> SUFFICES ASSUME NEW i \in Wakes(Tail(q)), NEW j \in Wakes(Tail(q)) PROVE i = j
    OBVIOUS
  <2>1. i + 1 = j + 1 BY <1>3
  <2> QED BY <2>1, <1>3
<1>7. Head(q) \in WakeEvents => Wakes(Tail(q)) = {}
  <2> SUFFICES ASSUME Head(q) \in WakeEvents, NEW i \in Wakes(Tail(q)) PROVE FALSE
    OBVIOUS
  <2>1. 1 \in Wakes(q) /\ i + 1 \in Wakes(q) BY <1>3, <1>5
  <2>2. i + 1 = 1 BY <2>1
  <2> QED BY <2>2, <1>3
<1>8. Head(q) \notin WakeEvents => (Wakes(Tail(q)) = {} <=> Wakes(q) = {})
  BY <1>3, <1>4, <1>5
<1> QED BY <1>1, <1>6, <1>7, <1>8

------------------------------------------------------------------------------
(* Every variable keeps its type, and StationInv is inductive: no event is  *)
(* lost between the driver, which waits to be told to connect, and the      *)
(* handler, which tells it.                                                 *)

Inv == TypeOK /\ StationInv

\* The invariant holds before wifi_connection starts the station.
THEOREM InitInv == Init => Inv
<1> SUFFICES ASSUME Init PROVE Inv
  OBVIOUS
<1>1. TypeOK
  <2>1. << >> \in Seq(Events) OBVIOUS
  <2>2. 0 \in 0 .. WIFI_RETRY BY WifiAssumption
  <2> QED BY <2>1, <2>2 DEF Init, TypeOK
<1>2. Wakes(queue) = {}
  BY DEF Init, Wakes
<1> QED BY <1>1, <1>2 DEF Init, Inv, StationInv, CONNECTED, FAIL

\* esp_wifi_connect on an idle station: an attempt is under way, or the call failed.
LEMMA ConnectEffect ==
  ASSUME TypeOK, esp_wifi_connect
  PROVE  /\ attempts' \in Nat
         /\ \/ station' = "connecting" /\ callFailed' = callFailed
            \/ station' = station /\ callFailed' = TRUE
  BY DEF esp_wifi_connect, TypeOK

\* Every step of the main task, the driver and the event handler keeps it.
THEOREM NextInv == Inv /\ [Next]_vars => Inv'
<1> SUFFICES ASSUME Inv, [Next]_vars PROVE Inv'
  OBVIOUS
<1> USE DEF Inv
<1>a. /\ queue \in Seq(Events)
      /\ Events = {"STA_START", "STA_CONNECTED", "STA_DISCONNECTED", "STA_GOT_IP"}
  BY DEF TypeOK, Events
<1>1. CASE Start
  <2>1. /\ station = "off" /\ queue = << >>
    BY <1>1 DEF Start, StationInv
  <2>2. Wakes(queue) = {}
    BY <2>1 DEF Wakes
  <2>3. queue' \in Seq(Events) /\ Wakes(queue') = Wakes(queue) \cup {Len(queue) + 1}
    BY <1>1, <1>a, AppendWakes DEF Start, WakeEvents
  <2> QED BY <1>1, <2>1, <2>2, <2>3 DEF Start, TypeOK, StationInv, netifVars, history
<1>2. CASE Return
  BY <1>2 DEF Return, TypeOK, StationInv, driverVars, netifVars
<1>3. CASE Associates
  <2>1. queue' \in Seq(Events) /\ Wakes(queue') = Wakes(queue)
    BY <1>3, <1>a, AppendWakes DEF Associates, WakeEvents
  <2> QED BY <1>3, <2>1 DEF Associates, TypeOK, StationInv, netifVars
<1>4. CASE AttemptFails
  <2>1. queue' \in Seq(Events) /\ Wakes(queue') = Wakes(queue) \cup {Len(queue) + 1}
    BY <1>4, <1>a, AppendWakes DEF AttemptFails, WakeEvents
  <2> QED BY <1>4, <2>1 DEF AttemptFails, TypeOK, StationInv, netifVars, history
<1>5. CASE LosesAP
  <2>1. queue' \in Seq(Events) /\ Wakes(queue') = Wakes(queue) \cup {Len(queue) + 1}
    BY <1>5, <1>a, AppendWakes DEF LosesAP, WakeEvents
  <2> QED BY <1>5, <2>1 DEF LosesAP, TypeOK, StationInv, netifVars, history
<1>6. ASSUME NEW e \in Events, Takes(e)
      PROVE  /\ queue # << >> /\ Tail(queue) \in Seq(Events)
             /\ e \in WakeEvents => Wakes(Tail(queue)) = {} /\ Wakes(queue) # {}
             /\ e \notin WakeEvents => (Wakes(Tail(queue)) = {} <=> Wakes(queue) = {})
             /\ \A i, j \in Wakes(Tail(queue)) : i = j
  <2>1. queue # << >> /\ Head(queue) = e
    BY <1>6 DEF Takes
  <2>2. e \in WakeEvents => 1 \in Wakes(queue)
    BY <2>1, <1>a DEF Wakes
  <2> QED BY <2>1, <2>2, <1>a, TailWakes DEF StationInv
<1>7. CASE OnStart
  <2>1. Takes("STA_START") /\ queue' = Tail(queue) /\ esp_wifi_connect
    BY <1>7 DEF OnStart
  <2>2. queue' \in Seq(Events) /\ Wakes(queue') = {} /\ Wakes(queue) # {} /\ queue # << >>
    BY <1>6, <2>1, <1>a DEF WakeEvents
  <2>3. station = "idle" /\ FAIL \notin s_wifi_event_group
    BY <2>2 DEF StationInv, TypeOK
  <2>4. /\ attempts' \in Nat
        /\ \/ station' = "connecting" /\ callFailed' = callFailed
           \/ station' = station /\ callFailed' = TRUE
    BY <2>1, ConnectEffect
  <2>5. UNCHANGED << main, dhcp, addr, s_retry_num, s_wifi_event_group >>
    BY <1>7 DEF OnStart, netifVars
  <2>6. TypeOK'
    BY <2>2, <2>4, <2>5 DEF TypeOK
  <2>7. StationInv'
    BY <2>2, <2>3, <2>4, <2>5 DEF StationInv, TypeOK
  <2> QED BY <2>6, <2>7
<1>8. CASE OnConnected
  <2>1. Takes("STA_CONNECTED") BY <1>8 DEF OnConnected
  <2>2. /\ queue # << >> /\ Tail(queue) \in Seq(Events)
        /\ Wakes(Tail(queue)) = {} <=> Wakes(queue) = {}
        /\ \A i, j \in Wakes(Tail(queue)) : i = j
    BY <1>6, <2>1, <1>a DEF WakeEvents
  <2>3. /\ queue' \in Seq(Events)
        /\ Wakes(queue') = Wakes(Tail(queue))
    BY <1>8, <2>2, <1>a, AppendWakes DEF OnConnected, WakeEvents
  <2>4. station # "off" BY <2>2 DEF StationInv
  <2>5. /\ dhcp' = "stopped"
        /\ addr' \in BOOLEAN
        /\ \/ addr' = TRUE /\ callFailed' = callFailed
           \/ callFailed' = TRUE
    BY <1>8 DEF OnConnected, TypeOK
  <2>6. UNCHANGED << main, station, attempts, s_retry_num, s_wifi_event_group >>
    BY <1>8 DEF OnConnected
  <2>7. TypeOK'
    BY <2>3, <2>5, <2>6 DEF TypeOK
  <2>8. StationInv'
    BY <2>2, <2>3, <2>4, <2>5, <2>6 DEF StationInv, TypeOK
  <2> QED BY <2>7, <2>8
<1>9. CASE OnDisconnected
  <2>1. Takes("STA_DISCONNECTED") /\ queue' = Tail(queue)
    BY <1>9 DEF OnDisconnected
  <2>2. queue' \in Seq(Events) /\ Wakes(queue') = {} /\ Wakes(queue) # {} /\ queue # << >>
    BY <1>6, <2>1, <1>a DEF WakeEvents
  <2>3. station = "idle" /\ FAIL \notin s_wifi_event_group
    BY <2>2 DEF StationInv, TypeOK
  <2>4. CASE s_retry_num < WIFI_RETRY /\ esp_wifi_connect
             /\ s_retry_num' = s_retry_num + 1 /\ UNCHANGED s_wifi_event_group
    <3>1. /\ attempts' \in Nat
          /\ \/ station' = "connecting" /\ callFailed' = callFailed
             \/ station' = station /\ callFailed' = TRUE
      BY <2>4, ConnectEffect
    <3>2. s_retry_num' \in 0 .. WIFI_RETRY
      BY <2>4, WifiAssumption DEF TypeOK
    <3>3. UNCHANGED << main, dhcp, addr >>
      BY <1>9 DEF OnDisconnected, netifVars
    <3>4. TypeOK'
      BY <2>2, <2>4, <3>1, <3>2, <3>3 DEF TypeOK
    <3>5. StationInv'
      BY <2>2, <2>3, <2>4, <3>1, <3>3 DEF StationInv, TypeOK
    <3> QED BY <3>4, <3>5
  <2>5. CASE s_wifi_event_group' = s_wifi_event_group \cup {FAIL}
             /\ UNCHANGED << driverVars, s_retry_num >>
    BY <1>9, <2>2, <2>3, <2>5 DEF OnDisconnected, TypeOK, StationInv, netifVars, driverVars
  <2> QED BY <1>9, <2>4, <2>5 DEF OnDisconnected
<1>10. CASE OnGotIp
  <2>1. Takes("STA_GOT_IP") /\ queue' = Tail(queue)
    BY <1>10 DEF OnGotIp
  <2>2. /\ queue # << >> /\ queue' \in Seq(Events)
        /\ Wakes(queue') = {} <=> Wakes(queue) = {}
        /\ \A i, j \in Wakes(queue') : i = j
    BY <1>6, <2>1, <1>a DEF WakeEvents
  <2>3. station # "off" BY <2>2 DEF StationInv
  <2>4. FAIL \in s_wifi_event_group' <=> FAIL \in s_wifi_event_group
    BY <1>10 DEF OnGotIp, CONNECTED, FAIL
  <2>5. s_retry_num' \in 0 .. WIFI_RETRY
    BY <1>10, WifiAssumption DEF OnGotIp
  <2>6. UNCHANGED << main, station, dhcp, addr, attempts, callFailed >>
    BY <1>10 DEF OnGotIp, netifVars, driverVars
  <2>7. s_wifi_event_group' \in SUBSET {CONNECTED, FAIL}
    BY <1>10 DEF OnGotIp, TypeOK
  <2>8. TypeOK'
    BY <2>2, <2>5, <2>6, <2>7 DEF TypeOK
  <2>9. StationInv'
    BY <2>2, <2>3, <2>4, <2>6 DEF StationInv, TypeOK
  <2> QED BY <2>8, <2>9
<1>11. CASE UNCHANGED vars
  BY <1>11 DEF vars, TypeOK, StationInv
<1> QED BY <1>1, <1>2, <1>3, <1>4, <1>5, <1>7, <1>8, <1>9, <1>10, <1>11
        DEF Next, AttemptEnds, Handler

\* StationInv holds in every reachable state, for every number of retries.
THEOREM StationWoken == Spec => []StationInv
<1>1. Inv => StationInv
  BY DEF Inv
<1> QED BY InitInv, NextInv, <1>1, PTL DEF Spec

\* Every variable keeps its type; in particular s_retry_num never passes WIFI_RETRY.
THEOREM StationTypes == Spec => []TypeOK
<1>1. Inv => TypeOK
  BY DEF Inv
<1> QED BY InitInv, NextInv, <1>1, PTL DEF Spec

------------------------------------------------------------------------------
(* What the queue can hold, and how the attempts go with the retries.  The  *)
(* driver posts nothing between a disconnect and the next call of           *)
(* esp_wifi_connect, so that there are few queues; an address event that is *)
(* still queued was posted when at most one attempt had been made since.    *)

QueueInv ==
  /\ station = "off" => queue = << >>
  /\ station = "connecting" => queue \in {<< >>, << "STA_GOT_IP" >>}
  /\ station = "associated" =>
       queue \in {<< >>, << "STA_GOT_IP" >>, << "STA_CONNECTED" >>,
                  << "STA_GOT_IP", "STA_CONNECTED" >>}
  /\ station = "idle" =>
       queue \in {<< >>, << "STA_GOT_IP" >>, << "STA_START" >>, << "STA_DISCONNECTED" >>,
                  << "STA_CONNECTED", "STA_DISCONNECTED" >>,
                  << "STA_DISCONNECTED", "STA_GOT_IP" >>,
                  << "STA_GOT_IP", "STA_DISCONNECTED" >>,
                  << "STA_GOT_IP", "STA_CONNECTED", "STA_DISCONNECTED" >>}

RetryInv ==
  /\ attempts <= s_retry_num + 1
  /\ station \in {"off", "associated"} => attempts = 0
  /\ queue \in {<< "STA_START" >>, << "STA_CONNECTED", "STA_DISCONNECTED" >>,
                << "STA_DISCONNECTED", "STA_GOT_IP" >>,
                << "STA_GOT_IP", "STA_CONNECTED", "STA_DISCONNECTED" >>} => attempts = 0
  /\ queue \in {<< "STA_GOT_IP" >>, << "STA_GOT_IP", "STA_DISCONNECTED" >>} => attempts <= 1

FullInv == Inv /\ QueueInv /\ RetryInv

\* The queues QueueInv speaks of, and which of them the handler finds.
LEMMA ShortQueues ==
  ASSUME NEW a \in Events, NEW b \in Events, NEW c \in Events
  PROVE  /\ << >> \in Seq(Events) /\ << a >> \in Seq(Events) /\ << a, b >> \in Seq(Events)
         /\ << a, b, c >> \in Seq(Events)
         /\ Len(<< >>) = 0 /\ Len(<< a >>) = 1 /\ Len(<< a, b >>) = 2 /\ Len(<< a, b, c >>) = 3
         /\ Head(<< a >>) = a /\ Head(<< a, b >>) = a /\ Head(<< a, b, c >>) = a
         /\ Tail(<< a >>) = << >> /\ Tail(<< a, b >>) = << b >>
         /\ Tail(<< a, b, c >>) = << b, c >>
  OBVIOUS

\* A queue with fewer than three events, element by element, after one more.
LEMMA GrownQueues ==
  ASSUME NEW a \in Events, NEW b \in Events, NEW c \in Events
  PROVE  /\ Append(<< >>, a) = << a >>
         /\ Append(<< a >>, b) = << a, b >>
         /\ Append(<< a, b >>, c) = << a, b, c >>
<1>1. Append(<< >>, a) = << a >> OBVIOUS
<1>2. Append(<< a >>, b) = << a, b >>
  <2>1. Append(<< a >>, b) \in Seq(Events) /\ Len(Append(<< a >>, b)) = 2 BY ShortQueues
  <2>2. Append(<< a >>, b)[1] = a /\ Append(<< a >>, b)[2] = b BY ShortQueues
  <2>3. \A i \in 1 .. 2 : Append(<< a >>, b)[i] = << a, b >>[i] BY <2>2
  <2>4. << a, b >> \in Seq(Events) /\ Len(<< a, b >>) = 2 OBVIOUS
  <2> QED BY <2>1, <2>3, <2>4, SeqEqual
<1>3. Append(<< a, b >>, c) = << a, b, c >>
  <2>1. Append(<< a, b >>, c) \in Seq(Events) /\ Len(Append(<< a, b >>, c)) = 3 BY ShortQueues
  <2>2. /\ Append(<< a, b >>, c)[1] = a /\ Append(<< a, b >>, c)[2] = b
        /\ Append(<< a, b >>, c)[3] = c
    BY ShortQueues
  <2>3. \A i \in 1 .. 3 : Append(<< a, b >>, c)[i] = << a, b, c >>[i] BY <2>2
  <2>4. << a, b, c >> \in Seq(Events) /\ Len(<< a, b, c >>) = 3 OBVIOUS
  <2> QED BY <2>1, <2>3, <2>4, SeqEqual
<1> QED BY <1>1, <1>2, <1>3

\* No queue of one kind is one of another: they differ in length or in an event.
LEMMA DistinctQueues ==
  ASSUME NEW a \in Events, NEW b \in Events, NEW c \in Events,
         NEW d \in Events, NEW e \in Events, NEW f \in Events
  PROVE  /\ << >> # << a >> /\ << >> # << a, b >> /\ << >> # << a, b, c >>
         /\ << a >> # << d, e >> /\ << a >> # << d, e, f >> /\ << a, b >> # << d, e, f >>
         /\ << a >> = << d >> => a = d
         /\ << a, b >> = << d, e >> => a = d /\ b = e
         /\ << a, b, c >> = << d, e, f >> => a = d /\ b = e /\ c = f
<1>1. /\ Len(<< >>) = 0 /\ Len(<< a >>) = 1 /\ Len(<< a, b >>) = 2 /\ Len(<< a, b, c >>) = 3
      /\ Len(<< d, e >>) = 2 /\ Len(<< d, e, f >>) = 3
  BY ShortQueues
<1> QED BY <1>1

\* In the initial state the queue is empty and no attempt has been made.
THEOREM InitFull == Init => FullInv
<1> SUFFICES ASSUME Init PROVE FullInv
  OBVIOUS
<1>1. Inv BY InitInv
<1>2. QueueInv BY DEF Init, QueueInv
<1>3. RetryInv
  <2>1. queue = << >> /\ attempts = 0 /\ s_retry_num = 0 BY DEF Init
  <2> QED BY <2>1 DEF RetryInv
<1> QED BY <1>1, <1>2, <1>3 DEF FullInv

\* Every step keeps the queue one of the few, and the attempts within the retries.
THEOREM NextFull == FullInv /\ [Next]_vars => FullInv'
<1> SUFFICES ASSUME FullInv, [Next]_vars PROVE FullInv'
  OBVIOUS
<1> DEFINE S == "STA_START"
           C == "STA_CONNECTED"
           D == "STA_DISCONNECTED"
           G == "STA_GOT_IP"
<1>a. /\ S \in Events /\ C \in Events /\ D \in Events /\ G \in Events
      /\ Inv' /\ TypeOK /\ TypeOK' /\ StationInv
  BY NextInv DEF FullInv, Inv, Events
<1>b. /\ queue = << >> \/ queue = << S >> \/ queue = << D >> \/ queue = << G >> \/ queue = << C >>
         \/ queue = << C, D >> \/ queue = << D, G >> \/ queue = << G, D >> \/ queue = << G, C >>
         \/ queue = << G, C, D >>
      /\ station \in {"off", "idle", "connecting", "associated"}
  BY <1>a DEF TypeOK, FullInv, QueueInv
<1>c. /\ << >> # << S >> /\ Append(<< >>, S) = << S >>
  BY <1>a, GrownQueues, DistinctQueues
<1>d. /\ Head(<< S >>) = S /\ Head(<< D >>) = D /\ Head(<< G >>) = G /\ Head(<< C >>) = C
      /\ Head(<< C, D >>) = C /\ Head(<< D, G >>) = D /\ Head(<< G, D >>) = G /\ Head(<< G, C >>) = G
      /\ Head(<< G, C, D >>) = G
  OBVIOUS
<1>e. /\ Tail(<< S >>) = << >> /\ Tail(<< D >>) = << >> /\ Tail(<< G >>) = << >> /\ Tail(<< C >>) = << >>
      /\ Tail(<< C, D >>) = << D >> /\ Tail(<< D, G >>) = << G >> /\ Tail(<< G, D >>) = << D >>
      /\ Tail(<< G, C >>) = << C >> /\ Tail(<< G, C, D >>) = << C, D >>
  OBVIOUS
<1>f. /\ Append(<< >>, D) = << D >> /\ Append(<< G >>, D) = << G, D >> /\ Append(<< C >>, D) = << C, D >>
  BY <1>a, GrownQueues
<1>g. Append(<< G, C >>, D) = << G, C, D >>
  BY <1>a, GrownQueues
<1>h. Append(<< >>, G) = << G >> /\ Append(<< D >>, G) = << D, G >>
  BY <1>a, GrownQueues
<1>1. CASE Start
  <2>1. station = "off" /\ queue = << >> /\ attempts = 0 /\ s_retry_num \in Nat
    BY <1>1, <1>a DEF Start, StationInv, TypeOK, FullInv, RetryInv
  <2>2. /\ station' = "idle" /\ queue' = << S >>
        /\ attempts' = attempts /\ s_retry_num' = s_retry_num
    BY <1>1, <2>1, <1>c DEF Start, history
  <2> QED BY <1>a, <2>1, <2>2 DEF FullInv, QueueInv, RetryInv
<1>2. CASE Return
  BY <1>2, <1>a DEF Return, driverVars, FullInv, QueueInv, RetryInv
<1>3. CASE Associates
  <2>1. queue = << >> \/ queue = << G >>
    BY <1>3 DEF Associates, FullInv, QueueInv
  <2>2. queue' = << C >> \/ queue' = << G, C >>
    BY <1>3, <2>1, <1>a, GrownQueues DEF Associates
  <2>3. /\ queue' \notin {<< S >>, << C, D >>, << D, G >>, << G, C, D >>}
        /\ queue' \notin {<< G >>, << G, D >>}
    BY <2>2, <1>a, DistinctQueues
  <2>4. station' = "associated" /\ attempts' = 0 /\ s_retry_num' = s_retry_num /\ s_retry_num \in Nat
    BY <1>3, <1>a DEF Associates, TypeOK
  <2> QED BY <1>a, <2>2, <2>3, <2>4 DEF FullInv, QueueInv, RetryInv
<1>4. CASE AttemptFails
  <2>1. queue = << >> \/ queue = << G >>
    BY <1>4 DEF AttemptFails, FullInv, QueueInv
  <2>2. queue' = << D >> \/ (queue = << G >> /\ queue' = << G, D >>)
    BY <1>4, <2>1, <1>a, GrownQueues DEF AttemptFails
  <2>3. queue' \notin {<< S >>, << C, D >>, << D, G >>, << G, C, D >>} /\ << D >> # << G >>
        /\ << D >> # << G, D >>
    BY <2>2, <1>a, DistinctQueues
  <2>4. station' = "idle" /\ attempts' = attempts /\ s_retry_num' = s_retry_num
    BY <1>4 DEF AttemptFails, history
  <2> QED BY <1>a, <2>2, <2>3, <2>4 DEF FullInv, QueueInv, RetryInv
<1>5. CASE LosesAP
  <2>1. /\ queue \in {<< >>, << G >>, << C >>, << G, C >>}
        /\ attempts = 0 /\ s_retry_num \in Nat
    BY <1>5, <1>a DEF LosesAP, FullInv, QueueInv, RetryInv, TypeOK
  <2>2. queue' \in {<< D >>, << G, D >>, << C, D >>, << G, C, D >>}
    <3>1. queue' = Append(queue, D) BY <1>5 DEF LosesAP
    <3> QED BY <3>1, <2>1, <1>f, <1>g
  <2>3. station' = "idle" /\ attempts' = attempts /\ s_retry_num' = s_retry_num
    BY <1>5 DEF LosesAP, history
  <2> QED BY <1>a, <2>1, <2>2, <2>3 DEF FullInv, QueueInv, RetryInv
<1>6. CASE OnStart
  <2>1. queue # << >> /\ Head(queue) = S /\ queue' = Tail(queue) /\ esp_wifi_connect
    BY <1>6 DEF OnStart, Takes
  <2>2. queue = << S >> /\ queue' = << >>
    BY <2>1, <1>b, <1>a, ShortQueues
  <2>3. attempts = 0 /\ station = "idle" /\ attempts' = 1
    BY <2>1, <2>2, <1>a, <1>b, DistinctQueues
       DEF esp_wifi_connect, FullInv, QueueInv, RetryInv
  <2>4. station' \in {"connecting", "idle"} /\ s_retry_num' = s_retry_num /\ s_retry_num \in Nat
    BY <1>6, <2>3, <1>a DEF OnStart, esp_wifi_connect, TypeOK
  <2>5. << >> \notin {<< S >>, << C, D >>, << D, G >>, << G, C, D >>}
        /\ << >> \notin {<< G >>, << G, D >>}
    BY <1>a, DistinctQueues
  <2> QED BY <1>a, <2>2, <2>3, <2>4, <2>5 DEF FullInv, QueueInv, RetryInv
<1>7. CASE OnConnected
  <2>1. /\ queue # << >> /\ Head(queue) = C
        /\ queue' = Tail(queue) \/ queue' = Append(Tail(queue), G)
        /\ UNCHANGED << station, attempts, s_retry_num >>
    BY <1>7 DEF OnConnected, Takes
  <2>2. queue = << C >> \/ queue = << C, D >>
    BY <2>1, <1>b, <1>d
  <2>3. CASE queue = << C >>
    <3>1. station = "associated" /\ attempts = 0
      BY <2>3, <1>a, <1>b, DistinctQueues DEF FullInv, QueueInv, RetryInv
    <3>2. queue' = << >> \/ queue' = << G >>
      BY <2>1, <2>3, <1>e, <1>h
    <3> QED BY <1>a, <2>1, <3>1, <3>2 DEF FullInv, QueueInv, RetryInv
  <2>4. CASE queue = << C, D >>
    <3>1. station = "idle" /\ attempts = 0
      BY <2>4, <1>a, <1>b, DistinctQueues DEF FullInv, QueueInv, RetryInv
    <3>2. queue' = << D >> \/ queue' = << D, G >>
      BY <2>1, <2>4, <1>e, <1>h
    <3> QED BY <1>a, <2>1, <3>1, <3>2 DEF FullInv, QueueInv, RetryInv
  <2> QED BY <2>2, <2>3, <2>4
<1>8. CASE OnDisconnected
  <2>1. queue # << >> /\ Head(queue) = D /\ queue' = Tail(queue)
    BY <1>8 DEF OnDisconnected, Takes
  <2>2. \/ queue = << D >> /\ queue' = << >>
        \/ queue = << D, G >> /\ queue' = << G >>
    BY <2>1, <1>b, <1>d, <1>e
  <2>3. station = "idle" /\ (queue' = << G >> => attempts = 0)
    <3>1. << >> # << G >>
      BY <1>a, DistinctQueues
    <3> QED BY <2>2, <3>1, <1>a, <1>b, DistinctQueues DEF FullInv, QueueInv, RetryInv
  <2>4. /\ station' \in {"connecting", "idle"} /\ attempts \in Nat /\ s_retry_num \in Nat
        /\ \/ attempts' = attempts + 1 /\ s_retry_num' = s_retry_num + 1
           \/ attempts' = attempts /\ s_retry_num' = s_retry_num
    BY <1>8, <2>3, <1>a DEF OnDisconnected, esp_wifi_connect, driverVars, TypeOK
  <2>5. /\ << >> \notin {<< S >>, << C, D >>, << D, G >>, << G, C, D >>}
        /\ << >> \notin {<< G >>, << G, D >>}
        /\ << G >> \notin {<< S >>, << C, D >>, << D, G >>, << G, C, D >>}
    BY <1>a, DistinctQueues
  <2>6. QueueInv' BY <2>2, <2>4 DEF QueueInv
  <2>7. RetryInv' BY <2>2, <2>3, <2>4, <2>5 DEF FullInv, RetryInv
  <2> QED BY <1>a, <2>6, <2>7 DEF FullInv
<1>9. CASE OnGotIp
  <2>1. /\ queue # << >> /\ Head(queue) = G /\ queue' = Tail(queue)
        /\ s_retry_num' = 0 /\ UNCHANGED << station, attempts >>
    BY <1>9 DEF OnGotIp, Takes, driverVars
  <2>2. queue \in {<< G >>, << G, D >>, << G, C >>, << G, C, D >>}
    BY <2>1, <1>b, <1>d
  <2>3. attempts \in Nat /\ station # "off"
    <3>1. << >> # << G >> /\ << >> # << G, D >> /\ << >> # << G, C >> /\ << >> # << G, C, D >>
      BY <1>a, DistinctQueues
    <3> QED BY <2>2, <3>1, <1>a DEF FullInv, QueueInv, TypeOK
  <2>4. CASE queue = << G >>
    <3>1. attempts <= 1 BY <2>4 DEF FullInv, RetryInv
    <3>2. queue' = << >> BY <2>1, <2>4, <1>e
    <3>3. << >> \notin {<< S >>, << C, D >>, << D, G >>, << G, C, D >>, << G >>, << G, D >>}
      BY <1>a, DistinctQueues
    <3>4. QueueInv' BY <2>1, <2>3, <3>1, <3>2 DEF QueueInv
    <3>5. station = "associated" => attempts = 0 BY DEF FullInv, RetryInv
    <3>6. RetryInv'
      <4>1. attempts' <= s_retry_num' + 1 BY <2>1, <3>1, <2>3
      <4>2. station' \in {"off", "associated"} => attempts' = 0 BY <2>1, <2>3, <3>5
      <4> HIDE DEF S, C, D, G
      <4>3. /\ queue' \notin {<< S >>, << C, D >>, << D, G >>, << G, C, D >>}
            /\ queue' \notin {<< G >>, << G, D >>}
        BY <3>2, <3>3
      <4> USE DEF S, C, D, G
      <4> QED BY <4>1, <4>2, <4>3 DEF RetryInv
    <3> QED BY <1>a, <3>4, <3>6 DEF FullInv
  <2>5. CASE queue = << G, D >>
    <3>1. attempts <= 1 /\ station = "idle"
      BY <2>5, <1>a, <1>b, DistinctQueues DEF FullInv, QueueInv, RetryInv
    <3>2. queue' = << D >> BY <2>1, <2>5, <1>e
    <3>3. << D >> \notin {<< S >>, << C, D >>, << D, G >>, << G, C, D >>, << G >>, << G, D >>}
      BY <1>a, DistinctQueues
    <3>4. QueueInv' BY <2>1, <2>3, <3>1, <3>2 DEF QueueInv
    <3>5. station = "associated" => attempts = 0 BY DEF FullInv, RetryInv
    <3>6. RetryInv'
      <4>1. attempts' <= s_retry_num' + 1 BY <2>1, <3>1, <2>3
      <4>2. station' \in {"off", "associated"} => attempts' = 0 BY <2>1, <2>3, <3>5
      <4> HIDE DEF S, C, D, G
      <4>3. /\ queue' \notin {<< S >>, << C, D >>, << D, G >>, << G, C, D >>}
            /\ queue' \notin {<< G >>, << G, D >>}
        BY <3>2, <3>3
      <4> USE DEF S, C, D, G
      <4> QED BY <4>1, <4>2, <4>3 DEF RetryInv
    <3> QED BY <1>a, <3>4, <3>6 DEF FullInv
  <2>6. CASE queue = << G, C >>
    <3>1. attempts = 0 /\ station = "associated"
      BY <2>6, <1>a, <1>b, DistinctQueues DEF FullInv, QueueInv, RetryInv
    <3>2. queue' = << C >> BY <2>1, <2>6, <1>e
    <3>3. QueueInv' BY <2>1, <3>1, <3>2 DEF QueueInv
    <3>4. RetryInv' BY <2>1, <3>1, <3>2 DEF RetryInv
    <3> QED BY <1>a, <3>3, <3>4 DEF FullInv
  <2>7. CASE queue = << G, C, D >>
    <3>1. attempts = 0 /\ station = "idle"
      BY <2>7, <1>a, <1>b, DistinctQueues DEF FullInv, QueueInv, RetryInv
    <3>2. queue' = << C, D >> BY <2>1, <2>7, <1>e
    <3>3. QueueInv' BY <2>1, <3>1, <3>2 DEF QueueInv
    <3>4. RetryInv' BY <2>1, <3>1, <3>2 DEF RetryInv
    <3> QED BY <1>a, <3>3, <3>4 DEF FullInv
  <2> QED BY <2>2, <2>4, <2>5, <2>6, <2>7
<1>10. CASE UNCHANGED vars
  BY <1>10, <1>a DEF vars, FullInv, QueueInv, RetryInv
<1> QED BY <1>1, <1>2, <1>3, <1>4, <1>5, <1>6, <1>7, <1>8, <1>9, <1>10
        DEF Next, AttemptEnds, Handler

\* Between two associations at most one attempt more than WIFI_RETRY is made, for every
\* number of retries.
THEOREM AttemptsStayBounded == Spec => []AttemptsBounded
<1>1. FullInv => AttemptsBounded
  BY WifiAssumption DEF FullInv, Inv, TypeOK, RetryInv, AttemptsBounded
<1> QED BY InitFull, NextFull, <1>1, PTL DEF Spec

\* The event loop never holds more than three events.
THEOREM QueueStaysShort == Spec => []QueueShort
<1>1. FullInv => QueueShort
  <2> SUFFICES ASSUME FullInv PROVE Len(queue) <= 3
    BY DEF QueueShort
  <2> DEFINE S == "STA_START"
             C == "STA_CONNECTED"
             D == "STA_DISCONNECTED"
             G == "STA_GOT_IP"
  <2>1. queue \in {<< >>, << S >>, << C >>, << D >>, << G >>, << C, D >>, << D, G >>, << G, D >>,
                   << G, C >>, << G, C, D >>}
    BY DEF FullInv, Inv, TypeOK, QueueInv
  <2>2. /\ Len(<< >>) = 0 /\ Len(<< S >>) = 1 /\ Len(<< C >>) = 1 /\ Len(<< D >>) = 1
        /\ Len(<< G >>) = 1 /\ Len(<< C, D >>) = 2 /\ Len(<< D, G >>) = 2 /\ Len(<< G, D >>) = 2
        /\ Len(<< G, C >>) = 2 /\ Len(<< G, C, D >>) = 3
    OBVIOUS
  <2>3. Len(<< >>) <= 3 /\ Len(<< S >>) <= 3 /\ Len(<< C >>) <= 3 /\ Len(<< D >>) <= 3
    BY <2>2
  <2>4. \A q \in {<< >>, << S >>, << C >>, << D >>} : Len(q) <= 3
    BY <2>3, Zenon
  <2>5. /\ Len(<< G >>) <= 3 /\ Len(<< C, D >>) <= 3 /\ Len(<< D, G >>) <= 3
        /\ Len(<< G, D >>) <= 3 /\ Len(<< G, C >>) <= 3 /\ Len(<< G, C, D >>) <= 3
    BY <2>2
  <2>6. \A q \in {<< G >>, << C, D >>, << D, G >>, << G, D >>, << G, C >>, << G, C, D >>} :
           Len(q) <= 3
    BY <2>5, Zenon
  <2> HIDE DEF S, C, D, G
  <2> QED BY <2>1, <2>4, <2>6
<1> QED BY InitFull, NextFull, <1>1, PTL DEF Spec

------------------------------------------------------------------------------
(* The station implements StationLink: under the mapping of WifiStation     *)
(* every step of it is a step of the link or none.                          *)

\* The initial state maps to a link that is off.
LEMMA LinkInitMaps == Init => Link!LinkInit
  BY DEF Init, Link!LinkInit

\* Whoever handles an event finds the station started, and idle with no WIFI_FAIL_BIT if
\* it is an event that wakes it.
LEMMA HandledWhen ==
  ASSUME Inv, NEW e \in Events, Takes(e)
  PROVE  /\ station # "off"
         /\ e \in WakeEvents => station = "idle" /\ FAIL \notin s_wifi_event_group
<1>1. queue # << >> /\ Head(queue) = e /\ queue \in Seq(Events)
  BY DEF Takes, Inv, TypeOK
<1>2. e \in WakeEvents => 1 \in Wakes(queue)
  BY <1>1 DEF Wakes
<1> QED BY <1>1, <1>2 DEF Inv, StationInv, TypeOK

\* Every step maps to a step of the link, or to a stutter.
LEMMA LinkStepMaps == Inv /\ [Next]_vars => [Link!LinkNext]_(Link!linkVars)
<1> SUFFICES ASSUME Inv, [Next]_vars PROVE [Link!LinkNext]_(Link!linkVars)
  OBVIOUS
<1> USE DEF Inv, Link!LinkNext, Link!LinkChanges, Link!linkVars, Link!LinkStart, Link!LinkJoin,
        Link!LinkDrop, Link!LinkTold, Link!LinkGiveUp
<1>1. CASE Start
  BY <1>1 DEF Start, StationInv, TypeOK, netifVars
<1>2. CASE Return
  BY <1>2 DEF Return, driverVars, netifVars
<1>3. CASE Associates
  BY <1>3 DEF Associates, StationInv, TypeOK, netifVars
<1>4. CASE AttemptFails
  BY <1>4 DEF AttemptFails, StationInv, TypeOK, netifVars
<1>5. CASE LosesAP
  BY <1>5 DEF LosesAP, StationInv, TypeOK, netifVars
<1>6. CASE OnStart
  <2>1. station = "idle" /\ FAIL \notin s_wifi_event_group
    BY <1>6, HandledWhen DEF OnStart, Events, WakeEvents
  <2> QED BY <1>6, <2>1 DEF OnStart, esp_wifi_connect, netifVars
<1>7. CASE OnConnected
  <2>1. station # "off"
    BY <1>7, HandledWhen DEF OnConnected, Events
  <2>2. station = "associated" => FAIL \notin s_wifi_event_group
    BY DEF StationInv
  <2>3. addr' = addr \/ (addr' = TRUE /\ addr \in BOOLEAN)
    BY <1>7 DEF OnConnected, TypeOK
  <2>4. UNCHANGED << station, s_wifi_event_group >>
    BY <1>7 DEF OnConnected
  <2>5. CASE station = "associated"
    BY <2>2, <2>3, <2>4, <2>5
  <2>6. CASE station # "associated"
    BY <2>4, <2>6
  <2> QED BY <2>5, <2>6
<1>8. CASE OnDisconnected
  <2>1. station = "idle" /\ FAIL \notin s_wifi_event_group
    BY <1>8, HandledWhen DEF OnDisconnected, Events, WakeEvents
  <2> QED BY <1>8, <2>1 DEF OnDisconnected, esp_wifi_connect, netifVars, driverVars
<1>9. CASE OnGotIp
  <2>1. station # "off"
    BY <1>9, HandledWhen DEF OnGotIp, Events
  <2>2. FAIL \in s_wifi_event_group' <=> FAIL \in s_wifi_event_group
    BY <1>9 DEF OnGotIp, CONNECTED, FAIL
  <2>3. s_wifi_event_group' # {}
    BY <1>9 DEF OnGotIp
  <2>4. UNCHANGED << station, addr >>
    BY <1>9 DEF OnGotIp, netifVars, driverVars
  <2> QED BY <2>1, <2>2, <2>3, <2>4
<1>10. CASE UNCHANGED vars
  BY <1>10 DEF vars
<1> QED BY <1>1, <1>2, <1>3, <1>4, <1>5, <1>6, <1>7, <1>8, <1>9, <1>10
        DEF Next, AttemptEnds, Handler

\* The station implements the link that module Perso builds on.
THEOREM LinkImplemented == Spec => ImplementsLink
<1>1. Spec => []Inv
  BY InitInv, NextInv, PTL DEF Spec
<1> QED BY <1>1, LinkInitMaps, LinkStepMaps, PTL DEF Spec, ImplementsLink, Link!LinkSpec
=============================================================================

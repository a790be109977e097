----------------------------- MODULE WifiStation -----------------------------
(***************************************************************************)
(* The Wi-Fi station of main/espPerso.c during one boot: wifi_connection,  *)
(* which the main task runs, and wifi_event_handler, which the task of the *)
(* default event loop runs on one event after the other, while the driver  *)
(* associates with the access point, loses it and posts events on its own. *)
(***************************************************************************)
EXTENDS Naturals, Sequences

CONSTANTS
  WIFI_RETRY  \* CONFIG_OT_MAXIMUM_RETRY

ASSUME WifiAssumption == WIFI_RETRY \in Nat

VARIABLES
  main,                \* what the main task does in wifi_connection
  station,             \* what the driver does
  queue,               \* the queue of the default event loop
  dhcp,                \* does the interface still run its DHCP client
  addr,                \* has the interface its static address
  s_retry_num,
  s_wifi_event_group,  \* the bits that are set
  attempts,            \* history: the calls of esp_wifi_connect since the station was last
                       \* associated
  callFailed           \* history: has esp_wifi_connect or esp_netif_set_ip_info failed

history == << attempts, callFailed >>
driverVars == << station, attempts, callFailed >>
netifVars == << dhcp, addr >>
vars == << main, station, queue, dhcp, addr, s_retry_num, s_wifi_event_group, attempts,
           callFailed >>

CONNECTED == "WIFI_CONNECTED_BIT"
FAIL == "WIFI_FAIL_BIT"
Events == {"STA_START", "STA_CONNECTED", "STA_DISCONNECTED", "STA_GOT_IP"}

Pending(e) == \E i \in DOMAIN queue : queue[i] = e

\* Every variable has its type.
TypeOK ==
  /\ main \in {"starting", "waiting", "returned"}
  /\ station \in {"off", "idle", "connecting", "associated"}
  /\ queue \in Seq(Events)
  /\ dhcp \in {"running", "stopped"}
  /\ addr \in BOOLEAN
  /\ s_retry_num \in 0 .. WIFI_RETRY
  /\ s_wifi_event_group \in SUBSET {CONNECTED, FAIL}
  /\ attempts \in Nat
  /\ callFailed \in BOOLEAN

Init ==
  /\ main = "starting"
  /\ station = "off"
  /\ queue = << >>
  /\ dhcp = "running"
  /\ addr = FALSE
  /\ s_retry_num = 0
  /\ s_wifi_event_group = {}
  /\ attempts = 0
  /\ callFailed = FALSE

------------------------------------------------------------------------------
(* The main task.                                                          *)

\* wifi_connection as far as esp_wifi_start; an error before it restarts the chip.
Start ==
  /\ main = "starting"
  /\ main' = "waiting"
  /\ station' = "idle"
  /\ queue' = Append(queue, "STA_START")
  /\ UNCHANGED << netifVars, s_retry_num, s_wifi_event_group, history >>

\* xEventGroupWaitBits returns on either bit and clears none; the rest only logs.
Return ==
  /\ main = "waiting"
  /\ s_wifi_event_group # {}
  /\ main' = "returned"
  /\ UNCHANGED << driverVars, queue, netifVars, s_retry_num, s_wifi_event_group >>

------------------------------------------------------------------------------
(* The driver.                                                             *)

\* esp_wifi_connect, whose result the handler does not look at.
esp_wifi_connect ==
  /\ attempts' = attempts + 1
  /\ \/ station' = "connecting" /\ UNCHANGED callFailed
     \/ callFailed' = TRUE /\ UNCHANGED station

Associates ==
  /\ station = "connecting"
  /\ station' = "associated"
  /\ attempts' = 0
  /\ queue' = Append(queue, "STA_CONNECTED")
  /\ UNCHANGED << main, netifVars, s_retry_num, s_wifi_event_group, callFailed >>

\* The attempt fails: no such network, a wrong password, no answer.
AttemptFails ==
  /\ station = "connecting"
  /\ station' = "idle"
  /\ queue' = Append(queue, "STA_DISCONNECTED")
  /\ UNCHANGED << main, netifVars, s_retry_num, s_wifi_event_group, history >>

\* The access point goes away.
LosesAP ==
  /\ station = "associated"
  /\ station' = "idle"
  /\ queue' = Append(queue, "STA_DISCONNECTED")
  /\ UNCHANGED << main, netifVars, s_retry_num, s_wifi_event_group, history >>

------------------------------------------------------------------------------
(* The event loop.                                                         *)

Takes(e) == queue # << >> /\ Head(queue) = e

OnStart ==
  /\ Takes("STA_START")
  /\ queue' = Tail(queue)
  /\ esp_wifi_connect
  /\ UNCHANGED << main, netifVars, s_retry_num, s_wifi_event_group >>

\* A changed _set_static_ip, which sets the address although the client could not be stopped.
SetsAddressAgain ==
  /\ Takes("STA_CONNECTED")
  /\ dhcp' = "stopped"
  /\ addr' = TRUE
  /\ queue' = Tail(queue) \o (IF dhcp = "stopped" /\ addr THEN << "STA_GOT_IP" >> ELSE << >>)
                          \o << "STA_GOT_IP" >>
  /\ UNCHANGED << main, driverVars, s_retry_num, s_wifi_event_group >>

\* The interface's own handler runs first: with the DHCP client stopped and an address set
\* it reports that address again.  Then comes _set_static_ip, which on the first
\* association stops the client and sets the address, which the interface reports, and on
\* every later one returns because the client is stopped already.  When the address cannot
\* be set it returns too, and the interface stays without one.
OnConnected ==
  /\ Takes("STA_CONNECTED")
  /\ dhcp' = "stopped"
  /\ \/ /\ addr' = TRUE
        /\ dhcp = "running" \/ addr
        /\ queue' = Append(Tail(queue), "STA_GOT_IP")
        /\ UNCHANGED callFailed
     \/ /\ ~addr
        /\ queue' = Tail(queue)
        /\ callFailed' = TRUE
        /\ UNCHANGED addr
  /\ UNCHANGED << main, station, attempts, s_retry_num, s_wifi_event_group >>

\* A changed handler, which retries once too often.
RetriesOnceMore ==
  /\ Takes("STA_DISCONNECTED")
  /\ queue' = Tail(queue)
  /\ IF s_retry_num <= WIFI_RETRY
       THEN /\ esp_wifi_connect
            /\ s_retry_num' = s_retry_num + 1
            /\ UNCHANGED s_wifi_event_group
       ELSE /\ s_wifi_event_group' = s_wifi_event_group \cup {FAIL}
            /\ UNCHANGED << driverVars, s_retry_num >>
  /\ UNCHANGED << main, netifVars >>

\* A changed handler, which tries again after it has given up.
TriesAfterFail ==
  /\ Takes("STA_DISCONNECTED")
  /\ queue' = Tail(queue)
  /\ esp_wifi_connect
  /\ IF s_retry_num < WIFI_RETRY
       THEN s_retry_num' = s_retry_num + 1 /\ UNCHANGED s_wifi_event_group
       ELSE /\ s_wifi_event_group' = s_wifi_event_group \cup {FAIL}
            /\ UNCHANGED s_retry_num
  /\ UNCHANGED << main, netifVars >>

\* The station tries again until the retries are used up.
OnDisconnected ==
  /\ Takes("STA_DISCONNECTED")
  /\ queue' = Tail(queue)
  /\ \/ /\ s_retry_num < WIFI_RETRY
        /\ esp_wifi_connect
        /\ s_retry_num' = s_retry_num + 1
        /\ UNCHANGED s_wifi_event_group
     \/ /\ s_retry_num >= WIFI_RETRY
        /\ s_wifi_event_group' = s_wifi_event_group \cup {FAIL}
        /\ UNCHANGED << driverVars, s_retry_num >>
  /\ UNCHANGED << main, netifVars >>

\* A changed handler, which forgets to set the bit.
GotIpUntold ==
  /\ Takes("STA_GOT_IP")
  /\ queue' = Tail(queue)
  /\ s_retry_num' = 0
  /\ UNCHANGED << main, driverVars, netifVars, s_wifi_event_group >>

\* The event is taken as it comes, whatever became of the association meanwhile.
OnGotIp ==
  /\ Takes("STA_GOT_IP")
  /\ queue' = Tail(queue)
  /\ s_retry_num' = 0
  /\ s_wifi_event_group' = s_wifi_event_group \cup {CONNECTED}
  /\ UNCHANGED << main, driverVars, netifVars >>

------------------------------------------------------------------------------
Handler == OnStart \/ OnConnected \/ OnDisconnected \/ OnGotIp
AttemptEnds == Associates \/ AttemptFails

Next == Start \/ Return \/ AttemptEnds \/ LosesAP \/ Handler

Spec == Init /\ [][Next]_vars

\* The tasks get to run, and the driver ends every attempt with one of two events.  Losing
\* the access point is nobody's duty.
Fairness ==
  /\ WF_vars(Return)
  /\ WF_vars(Handler)
  /\ WF_vars(AttemptEnds)

FairSpec == Spec /\ Fairness

------------------------------------------------------------------------------
(* Properties.                                                             *)

\* An address event that was queued behind a disconnect resets s_retry_num too late.  That
\* costs at most one attempt more than WIFI_RETRY between two associations.
AttemptsBounded == attempts <= WIFI_RETRY + 1

\* The queue never holds more than three events, however fast the access point comes and
\* goes: the driver falls silent until the handler calls esp_wifi_connect.  So no event is
\* dropped from a loop whose posts do not wait.
QueueShort == Len(queue) <= 3

\* The station gives the rest of the firmware the link it builds on: once WIFI_FAIL_BIT is
\* set nothing tries again, and the bits are only set after the start.
Link == INSTANCE StationLink WITH
  link <- CASE station = "off" -> "off"
            [] station = "associated" /\ addr -> "up"
            [] FAIL \in s_wifi_event_group -> "failed"
            [] OTHER -> "joining",
  bits <- s_wifi_event_group # {}
ImplementsLink == Link!LinkSpec

\* The main task waits without a time limit, yet it does not wait for ever, unless an API
\* call failed, which the handler does not tell it.
WaitEnds == main = "waiting" ~> (main = "returned" \/ callFailed)

\* The places in the queue of the events on which the handler calls esp_wifi_connect.
WakeEvents == {"STA_START", "STA_DISCONNECTED"}
Wakes(q) == {i \in DOMAIN q : q[i] \in WakeEvents}

\* The inductive invariant: an idle station has exactly one event pending that makes it
\* try again, or has given up; an attempt is under way only when none is pending.  Only a
\* call that failed leaves it idle for good, or associated without an address.
StationInv ==
  /\ station = "off" <=> main = "starting"
  /\ station = "off" => queue = << >> /\ s_wifi_event_group = {}
  /\ station \in {"connecting", "associated"} => Wakes(queue) = {} /\ FAIL \notin s_wifi_event_group
  /\ station = "idle" /\ ~callFailed => Wakes(queue) # {} \/ FAIL \in s_wifi_event_group
  /\ \A i, j \in Wakes(queue) : i = j
  /\ FAIL \in s_wifi_event_group => Wakes(queue) = {}
  /\ ~callFailed => (addr <=> dhcp = "stopped")

------------------------------------------------------------------------------
\* espPerso.c:156 says "the connection is established (WIFI_CONNECTED_BIT)": when the bit
\* is set, the station is associated, or has lost the access point so recently that the
\* handler has yet to be told.
ConnectedIsEstablished ==
  [][(CONNECTED \in s_wifi_event_group' \ s_wifi_event_group) =>
        station = "associated" \/ Pending("STA_DISCONNECTED")]_vars
=============================================================================

--------------------------- MODULE MdnsResponder ---------------------------
(***************************************************************************)
(* The responder of the mDNS component as its service task runs it: the    *)
(* registry of services and hosts, one state machine per interface and IP  *)
(* protocol (a "pcb") that probes, announces and answers, and the packets  *)
(* scheduled for sending.  Every action is one action the task takes from  *)
(* its queue, executed to its end, as the task does under its lock.        *)
(*                                                                         *)
(* Time is abstracted: a scheduled packet may come due at any moment, and  *)
(* before or after any other.  A name is abstracted to whether it is set   *)
(* and whose it is; `asked` counts, for each name, the probes sent for it  *)
(* since it last changed.  The allocations of the code succeed.            *)
(***************************************************************************)
EXTENDS Integers, Functions

CONSTANTS Services,    \* service items an application may register
          Kind,        \* service->service and ->proto of each of them
          Delegated,   \* host names an application may answer for
          SelfHost,    \* the device's own host name, _mdns_self_host
          Interfaces,  \* mdns_if_t
          Protos,      \* mdns_ip_protocol_t: V4 and V6, or one of them
          V4, V6,
          Duplicate,   \* s_esp_netifs[].duplicate: the other interface of a pair
          NoInterface, \* MDNS_MAX_INTERFACES
          Slots,       \* identities of the scheduled packets of one pcb
          NoPacket,    \* a free slot
          MaxInputs    \* bound on the calls, interface events and packets

ASSUME KindAssumption == Kind = [s \in Services |-> Kind[s]]

ASSUME SelfHostAssumption == SelfHost \notin Services /\ SelfHost \notin Delegated

ASSUME DuplicateAssumption ==
  /\ Duplicate \in [Interfaces -> Interfaces \cup {NoInterface}]
  /\ NoInterface \notin Interfaces
  /\ \A i \in Interfaces : Duplicate[i] \in Interfaces =>
       Duplicate[i] # i /\ Duplicate[Duplicate[i]] = i

PCB_OFF == 0
PCB_DUP == 1
PCB_INIT == 2
PCB_PROBE_1 == 3
PCB_PROBE_3 == 5
PCB_ANNOUNCE_1 == 6
PCB_ANNOUNCE_3 == 8
PCB_RUNNING == 9

\* The macro of the code, which counts a pcb as probing that is closed as a duplicate as well,
\* and the states that do probe.  An open pcb is in neither PCB_DUP nor PCB_INIT.
PCB_STATE_IS_PROBING(r) == r.state > PCB_OFF /\ r.state < PCB_ANNOUNCE_1
Probing(r) == r.state \in PCB_PROBE_1 .. PCB_PROBE_3
Announcing(r) == r.state \in PCB_ANNOUNCE_1 .. PCB_ANNOUNCE_3

Pcbs == Interfaces \X Protos
AllHosts == {SelfHost} \cup Delegated
Names == Services \cup {SelfHost}    \* what is probed for and may be contested

\* A packet as it is built: whose names it asks for (questions), whose SRV and
\* address records it claims (servers), and whose records it asserts (answers
\* with their additional records).
Packet == [asks : SUBSET Services, askHosts : SUBSET AllHosts,
           servers : SUBSET Services, serverHosts : SUBSET AllHosts,
           answers : SUBSET Services, answerHosts : SUBSET AllHosts,
           distributed : BOOLEAN]

ASSUME SlotsAssumption == Slots # {} /\ NoPacket \notin Packet

ASSUME InputsAssumption == MaxInputs \in Nat

VARIABLES
  services,    \* _mdns_server->services
  ownInstance, \* services with an instance name of their own
  hostOf,      \* service->hostname
  hostname,    \* whether _mdns_server->hostname is set
  instance,    \* whether _mdns_server->instance is set
  hosts,       \* _mdns_host_list
  pcb,         \* _mdns_server->interfaces[].pcbs[] and their scheduled packets
  heard,       \* pcbs that have been open: packets from them may be queued
  woken,       \* pcbs on which a probe was started while they were closed
  inputs       \* calls, interface events and packets so far

registry == <<services, ownInstance, hostOf, hostname, instance, hosts>>
vars == <<registry, pcb, heard, woken, inputs>>

NoPackets == [k \in Slots |-> NoPacket]
Live(r) == {k \in Slots : r.tx[k] # NoPacket}
Closed == [state |-> PCB_OFF, ready |-> FALSE, probe_running |-> FALSE,
           probe_ip |-> FALSE, probe_services |-> {}, tx |-> NoPackets,
           asked |-> [n \in Names |-> 0]]

PcbRecord == [state : PCB_OFF .. PCB_RUNNING, ready : BOOLEAN,
              probe_running : BOOLEAN, probe_ip : BOOLEAN,
              probe_services : SUBSET Services,
              tx : [Slots -> Packet \cup {NoPacket}],
              asked : [Names -> 0 .. 3]]

TypeOK ==
  /\ services \subseteq Services
  /\ ownInstance \subseteq Services
  /\ hostOf \in [Services -> AllHosts]
  /\ hostname \in BOOLEAN
  /\ instance \in BOOLEAN
  /\ hosts \subseteq Delegated
  /\ pcb \in [Pcbs -> PcbRecord]
  /\ heard \subseteq Pcbs /\ woken \subseteq heard
  /\ inputs \in 0 .. MaxInputs

Init ==
  /\ services = {}
  /\ ownInstance = {}
  /\ hostOf = [s \in Services |-> SelfHost]
  /\ hostname = FALSE
  /\ instance = FALSE
  /\ hosts = {}
  /\ pcb = [p \in Pcbs |-> Closed]
  /\ heard = {} /\ woken = {}
  /\ inputs = 0

----------------------------------------------------------------------------
(* Packets *)

NothingIn == [asks |-> {}, askHosts |-> {}, servers |-> {}, serverHosts |-> {},
              answers |-> {}, answerHosts |-> {}, distributed |-> FALSE]

\* Without services the address records are those of the device itself.
HostsOf(S, host) == IF S = {} THEN {SelfHost} ELSE {host[s] : s \in S}

ProbePacket(S, ip, host) ==
  [NothingIn EXCEPT !.asks = S, !.servers = S,
     !.askHosts = IF ip THEN {SelfHost} \cup {host[s] : s \in S} ELSE {},
     !.serverHosts = IF ip THEN HostsOf(S, host) ELSE {}]

AnnouncePacket(S, ip, host) ==
  [NothingIn EXCEPT !.answers = S,
                    !.serverHosts = IF ip THEN HostsOf(S, host) ELSE {}]

\* What the last probe claimed is now asserted.
AnnounceFromProbe(probe, host) ==
  [NothingIn EXCEPT !.answers = probe.servers,
     !.answerHosts = probe.serverHosts \cup {host[s] : s \in probe.servers}]

HasAnswers(pkt) == pkt.answers # {} \/ pkt.answerHosts # {}
IsEmpty(pkt) == /\ ~HasAnswers(pkt)
                /\ pkt.asks = {} /\ pkt.askHosts = {}
                /\ pkt.servers = {} /\ pkt.serverHosts = {}

\* A packet enters the queue under an identity no queued packet has.
Schedule(r, pkt) ==
  [r EXCEPT !.tx[CHOOSE k \in Slots : r.tx[k] = NoPacket] = pkt]

----------------------------------------------------------------------------
(* Probing and announcing on one pcb *)

NamesIn(S, ip) == S \cup IF ip THEN {SelfHost} ELSE {}

\* A changed _mdns_init_pcb_probe_new_service, which drops the list it finds.
ProbesNewOnly(r, S, ip, host) ==
  Schedule([r EXCEPT !.probe_services = S, !.probe_ip = ip \/ @,
              !.probe_running = TRUE, !.state = PCB_PROBE_1,
              !.asked = [n \in Names |-> IF n \in NamesIn(S, ip \/ r.probe_ip) THEN 0 ELSE @[n]]],
           ProbePacket(S, ip \/ r.probe_ip, host))

\* The services already on the probe list stay on it; the copy is as long as
\* the new list, plus the old one only while the pcb is probing.
InitPcbProbeNewService(r, S, ip, host) ==
  LET list == S \cup r.probe_services
      withIp == ip \/ r.probe_ip
  IN  Schedule([r EXCEPT !.probe_services = list, !.probe_ip = withIp,
                  !.probe_running = TRUE, !.state = PCB_PROBE_1,
                  !.asked = [n \in Names |->
                     IF n \in NamesIn(list, withIp) THEN 0 ELSE @[n]]],
               ProbePacket(list, withIp, host))

\* A changed _mdns_init_pcb_probe, which leaves the scheduled packets in the queue.
ProbesBesides(r, S, ip, named, host) ==
  IF named THEN InitPcbProbeNewService(r, S, ip, host) ELSE [r EXCEPT !.state = PCB_RUNNING]

InitPcbProbe(r, S, ip, named, host) ==
  LET c == [r EXCEPT !.tx = NoPackets]
  IN  IF named THEN InitPcbProbeNewService(c, S, ip, host)
               ELSE [c EXCEPT !.state = PCB_RUNNING]

\* `k` is the packet of this pcb that is due next.
AnnouncePcb(r, S, ip, host, k) ==
  CASE r.ready /\ PCB_STATE_IS_PROBING(r) -> InitPcbProbe(r, S, ip, hostname, host)
    [] r.ready /\ Announcing(r) /\ k \in Live(r) ->
         [r EXCEPT !.state = PCB_ANNOUNCE_1,
                   !.tx[k].answers = @ \cup S,
                   !.tx[k].answerHosts = @ \cup (IF ip THEN HostsOf(S, host) ELSE {})]
    [] r.ready /\ r.state = PCB_RUNNING /\ hostname ->
         Schedule([r EXCEPT !.state = PCB_ANNOUNCE_1], AnnouncePacket(S, ip, host))
    [] OTHER -> r

ClearOldProbe(r) == [r EXCEPT !.probe_services = {}, !.probe_running = FALSE]

ProbeAllPcbs(pcbs, S, ip, clear, named, host) ==
  [p \in Pcbs |->
     IF ~pcbs[p].ready THEN pcbs[p]
     ELSE InitPcbProbe(IF clear THEN ClearOldProbe(pcbs[p]) ELSE pcbs[p],
                       S, ip, named, host)]

\* The queue may hold packets of several pcbs: `due` says which comes first on each.
AnnounceAllPcbs(S, ip, due) ==
  [p \in Pcbs |-> AnnouncePcb(pcb[p], S, ip, hostOf, due[p])]

Due == {due \in [Pcbs -> Slots] :
          \A p \in Pcbs : Live(pcb[p]) # {} => due[p] \in Live(pcb[p])}

\* A changed name has not been probed for yet, on any pcb.
Renamed(pcbs, N) ==
  [p \in Pcbs |-> [pcbs[p] EXCEPT !.asked =
                     [n \in Names |-> IF n \in N THEN 0 ELSE @[n]]]]

\* Services that answer under the server's instance name, or its host name.
WithoutInstance == services \ ownInstance

RestartAllPcbsNoInstance(pcbs) ==
  IF WithoutInstance = {} THEN pcbs
  ELSE ProbeAllPcbs(pcbs, WithoutInstance, FALSE, TRUE, hostname, hostOf)

RestartAllPcbs(pcbs) ==
  ProbeAllPcbs([p \in Pcbs |-> [pcbs[p] EXCEPT !.tx = NoPackets]],
               services, TRUE, TRUE, TRUE, hostOf)

----------------------------------------------------------------------------
(* Removing services *)

WithoutServices(pkt, S) ==
  [pkt EXCEPT !.answers = @ \ S, !.servers = @ \ S]

\* The probe list and the questions about the services are only looked after while the
\* pcb is open.
OffTheList(r, S) ==
  IF r.ready /\ PCB_STATE_IS_PROBING(r) /\ Live(r) # {} THEN S \cap r.probe_services ELSE {}

\* The questions that are freed with the services S: for each that leaves the probe list the
\* first one of its type, whichever service that asks for (`by` tells whose removal frees it;
\* the order of the questions is not modelled).  A question of the type is passed over only
\* when the strings it points to were freed before, with a service removed earlier: what
\* strcmp reads there is anything.
FreedQuestions(r, S) ==
  LET asked == UNION {r.tx[k].asks : k \in Live(r)}
      gone == OffTheList(r, S)
  IN  {Q \in SUBSET asked :
         \E by \in Injection(Q, gone) :
           /\ \A q \in Q : Kind[by[q]] = Kind[q]
           /\ \A s \in gone \ Range(by), q \in asked \ Q :
                Kind[q] = Kind[s] => q # s /\ q \notin services \ S}

\* Changed removals: one takes the records out of the packets and no more, one
\* does not notice that nothing is left to be announced.
RemovesRecordsOnly(r, S, freed) ==
  [r EXCEPT !.tx = [k \in Slots |->
     IF k \notin Live(r) THEN NoPacket
     ELSE IF IsEmpty(WithoutServices(@[k], S)) THEN NoPacket ELSE WithoutServices(@[k], S)]]
RemovesUnnoticed(r, S, freed) ==
  LET c == RemovesRecordsOnly(r, S, freed)
  IN  IF Announcing(r) THEN c
      ELSE [c EXCEPT !.probe_services = @ \ S, !.probe_running = @ /\ ~(r.probe_services \subseteq S),
                     !.state = IF Probing(r) /\ ~r.probe_ip /\ r.probe_services \subseteq S
                               THEN PCB_RUNNING ELSE @]

\* The services S leave the records of every packet and the probe list, and the questions
\* `freed` with them.  A packet left with nothing in it is freed.
RemoveFromPcb(r, S, freed) ==
  LET gone == OffTheList(r, S)
      Cut(pkt) == [WithoutServices(pkt, S) EXCEPT !.asks = @ \ freed]
      last == gone # {} /\ gone = r.probe_services /\ ~r.probe_ip
      emptied == /\ r.ready /\ Announcing(r)
                 /\ \E k \in Live(r) : HasAnswers(r.tx[k]) /\ ~HasAnswers(Cut(r.tx[k]))
  IN  [r EXCEPT
         !.tx = [k \in Slots |-> IF k \notin Live(r) THEN NoPacket
                                 ELSE IF IsEmpty(Cut(@[k])) THEN NoPacket ELSE Cut(@[k])],
         !.probe_services = @ \ gone,
         !.probe_running = @ /\ ~last,
         !.state = IF last \/ emptied THEN PCB_RUNNING ELSE @]

RemoveServices(S) ==
  /\ services' = services \ S
  /\ ownInstance' = ownInstance \ S
  /\ hostOf' = [s \in Services |-> IF s \in S THEN SelfHost ELSE hostOf[s]]
  /\ \E freed \in [Pcbs -> SUBSET Services] :
       /\ \A p \in Pcbs : freed[p] \in FreedQuestions(pcb[p], S)
       /\ pcb' = [p \in Pcbs |-> RemoveFromPcb(pcb[p], S, freed[p])]

----------------------------------------------------------------------------
(* What the application asks for *)

\* An input is taken while every pcb has room for another packet: `Slots` bounds
\* the packets in the queue, which the code does not.
Input == /\ inputs < MaxInputs
         /\ inputs' = inputs + 1
         /\ \A p \in Pcbs : Live(pcb[p]) # Slots

Op == Input /\ UNCHANGED heard

HostnameSet ==
  /\ Op
  /\ hostname' = TRUE
  /\ pcb' = RestartAllPcbs(Renamed(pcb, {SelfHost} \cup
                                     IF instance THEN {} ELSE WithoutInstance))
  /\ UNCHANGED <<services, ownInstance, hostOf, instance, hosts, woken>>

InstanceSet ==
  /\ Op
  /\ instance' = TRUE
  /\ pcb' = RestartAllPcbsNoInstance(Renamed(pcb, WithoutInstance))
  /\ UNCHANGED <<services, ownInstance, hostOf, hostname, hosts, woken>>

\* The application may only add a service once the host name is set, and adds
\* it for the device itself or for a host it answers for.
ServiceAdd(s, own, h) ==
  /\ Op
  /\ hostname /\ s \notin services /\ h \in {SelfHost} \cup hosts
  /\ services' = services \cup {s}
  /\ ownInstance' = IF own THEN ownInstance \cup {s} ELSE ownInstance
  /\ hostOf' = [hostOf EXCEPT ![s] = h]
  /\ pcb' = ProbeAllPcbs(Renamed(pcb, {s}), {s}, FALSE, FALSE, hostname, hostOf')
  /\ UNCHANGED <<hostname, instance, hosts, woken>>

ServiceInstanceSet(s) ==
  /\ Op
  /\ s \in services
  /\ ownInstance' = ownInstance \cup {s}
  /\ pcb' = ProbeAllPcbs(Renamed(pcb, {s}), {s}, FALSE, FALSE, hostname, hostOf)
  /\ UNCHANGED <<services, hostOf, hostname, instance, hosts, woken>>

\* A new port is announced with the addresses, a new TXT record without.
ServicePortSet(s) ==
  /\ Op
  /\ s \in services
  /\ \E due \in Due : pcb' = AnnounceAllPcbs({s}, TRUE, due)
  /\ UNCHANGED <<registry, woken>>

ServiceTxt(s) ==
  /\ Op
  /\ s \in services
  /\ \E due \in Due : pcb' = AnnounceAllPcbs({s}, FALSE, due)
  /\ UNCHANGED <<registry, woken>>

ServiceDel(s) ==
  /\ Op
  /\ s \in services
  /\ RemoveServices({s})
  /\ UNCHANGED <<hostname, instance, hosts, woken>>

ServicesClear ==
  /\ Op
  /\ services # {}
  /\ RemoveServices(services)
  /\ UNCHANGED <<hostname, instance, hosts, woken>>

DelegateHostnameAdd(h) ==
  /\ Op
  /\ h \notin hosts
  /\ hosts' = hosts \cup {h}
  /\ UNCHANGED <<services, ownInstance, hostOf, hostname, instance, pcb, woken>>

\* The services of the host go with it.
DelegateHostnameRemove(h) ==
  /\ Op
  /\ h \in hosts
  /\ hosts' = hosts \ {h}
  /\ RemoveServices({s \in services : hostOf[s] = h})
  /\ UNCHANGED <<hostname, instance, woken>>

----------------------------------------------------------------------------
(* What the network interfaces do *)

\* _udp_recv takes the packets of every protocol while the interface is open on one.
Heard ==
  heard' = {p \in Pcbs : p \in heard \/ \E q \in Protos : pcb'[<<p[1], q>>].ready}

\* _udp_pcb_init and _udp_pcb_deinit: the pcb is bound and in the multicast group, or not.
Open(r) == [r EXCEPT !.ready = TRUE]
Close(r) == IF r.ready THEN Closed ELSE r

Enabled(r) == InitPcbProbe(Open(r), services, TRUE, hostname, hostOf)

EnablePcb(p) ==
  /\ Input
  /\ pcb' = [pcb EXCEPT ![p] = Enabled(@)]
  /\ Heard
  /\ UNCHANGED <<registry, woken>>

\* A changed _mdns_disable_pcb, which does not think of the duplicate.
DisablesAlone(p) ==
  /\ Input
  /\ pcb' = [pcb EXCEPT ![p] = [Close(@) EXCEPT !.state = PCB_OFF]]
  /\ Heard
  /\ UNCHANGED <<registry, woken>>

\* A pcb that was closed as the duplicate of this one takes over, if its
\* interface can be opened.
DisablePcb(p) ==
  LET other == <<Duplicate[p[1]], p[2]>>
      off == [pcb EXCEPT ![p] = [Close(@) EXCEPT !.state = PCB_OFF]]
  IN  /\ Input
      /\ IF pcb[p].ready /\ other \in Pcbs /\ pcb[other].state = PCB_DUP
         THEN \E opened \in BOOLEAN :
                pcb' = [off EXCEPT ![other] =
                          IF opened THEN Enabled([@ EXCEPT !.state = PCB_OFF])
                                    ELSE [@ EXCEPT !.state = PCB_OFF]]
         ELSE pcb' = off
      /\ Heard
      /\ UNCHANGED <<registry, woken>>

AnnounceEvent(p) ==
  /\ Input
  /\ \E due \in Due :
       pcb' = [pcb EXCEPT ![p] = AnnouncePcb(@, {}, TRUE, hostOf, due[p])]
  /\ Heard
  /\ UNCHANGED <<registry, woken>>

\* The actions posted for an event of an interface: it is up and its address is fixed,
\* it was given an address, or it is down.
PostedFor(event) ==
  CASE event \in {"STA_CONNECTED", "ETH_CONNECTED", "AP_START", "ETH_GOT_IP"} -> {<<"ENABLE", V4>>}
    [] event = "STA_GOT_IP" -> {<<"ENABLE", V4>>, <<"ANNOUNCE", V6>>}
    [] event = "GOT_IP6" -> {<<"ENABLE", V6>>, <<"ANNOUNCE", V4>>}
    [] event \in {"STA_DISCONNECTED", "ETH_DISCONNECTED", "AP_STOP"} ->
         {<<"DISABLE", V4>>, <<"DISABLE", V6>>}

Posted == UNION {PostedFor(e) : e \in {"STA_CONNECTED", "ETH_CONNECTED", "AP_START", "ETH_GOT_IP",
                                        "STA_GOT_IP", "GOT_IP6", "STA_DISCONNECTED",
                                        "ETH_DISCONNECTED", "AP_STOP"}}

PerformEventAction(p, action) ==
  \/ action = "ENABLE" /\ EnablePcb(p)
  \/ action = "DISABLE" /\ DisablePcb(p)
  \/ action = "ANNOUNCE" /\ AnnounceEvent(p)

\* A full queue refuses any of the actions, the handler does not look, and an application
\* may post each by itself (mdns_netif_action): they come in any order and number.
SystemEvent ==
  \E i \in Interfaces, a \in Posted : <<i, a[2]>> \in Pcbs /\ PerformEventAction(<<i, a[2]>>, a[1])

----------------------------------------------------------------------------
(* What is received: each record of a packet that concerns us, then the reply.  *)
(* The packet was queued while the interface was open; it may have been closed   *)
(* since.                                                                        *)

Receive(P) == Input /\ P \cap heard # {} /\ UNCHANGED heard

\* The collision handlers restart probing on the pcb the packet came from,
\* without asking whether it is still open.
ProbeHere(p, S, ip) ==
  /\ pcb' = [pcb EXCEPT ![p] = InitPcbProbe(@, S, ip, TRUE, hostOf)]
  /\ woken' = IF pcb[p].ready THEN woken ELSE woken \cup {p}

RenameHost ==
  /\ pcb' = RestartAllPcbs(Renamed(pcb, {SelfHost} \cup
                                     IF instance THEN {} ELSE WithoutInstance))
  /\ UNCHANGED woken

\* An SRV record under our name that wins over ours, in a probe or an answer.
SrvCollision(p, s) ==
  /\ Receive({p})
  /\ hostname /\ s \in services /\ hostOf[s] = SelfHost
  /\ \/ /\ pcb[p].probe_running /\ s \in ownInstance
        /\ pcb' = ProbeAllPcbs(Renamed(pcb, {s}), {s}, FALSE, FALSE, hostname, hostOf)
        /\ UNCHANGED woken
     \/ /\ pcb[p].probe_running /\ s \notin ownInstance /\ instance
        /\ pcb' = RestartAllPcbsNoInstance(Renamed(pcb, WithoutInstance))
        /\ UNCHANGED woken
     \/ /\ pcb[p].probe_running /\ s \notin ownInstance /\ ~instance
        /\ RenameHost
     \/ /\ ~pcb[p].probe_running
        /\ ProbeHere(p, {s}, FALSE)
  /\ UNCHANGED registry

\* A TXT record under our name that differs from ours.
TxtCollision(p, s) ==
  /\ Receive({p})
  /\ hostname /\ s \in services /\ hostOf[s] = SelfHost
  /\ ~pcb[p].probe_running
  /\ ProbeHere(p, {s}, TRUE)
  /\ UNCHANGED registry

\* An address record under our host name that wins over ours.
HostCollision(p) ==
  /\ Receive({p})
  /\ hostname
  /\ IF pcb[p].probe_running THEN RenameHost ELSE ProbeHere(p, {}, TRUE)
  /\ UNCHANGED registry

\* An address record under our host name that is the other interface's: both are
\* on one link, and this one is closed on every protocol the other is open on.
DupInterface(i) ==
  LET other == Duplicate[i]
      both == {<<i, q>> : q \in {q \in Protos : pcb[<<other, q>>].ready}}
  IN  /\ Receive({i} \X Protos)
      /\ hostname /\ other \in Interfaces
      /\ \E due \in Due :
           pcb' = [p \in Pcbs |->
                     IF p \in both
                     THEN [Close(pcb[p]) EXCEPT !.state = PCB_DUP]
                     ELSE IF p[1] = other
                     THEN AnnouncePcb(pcb[p], {}, TRUE, hostOf, due[p])
                     ELSE pcb[p]]
      /\ UNCHANGED <<registry, woken>>

\* Names are not ours before the device has one; a service then has been added for it.
OurHosts == IF hostname THEN {SelfHost} \cup hosts ELSE {}

\* The questions of a packet that concern us; a discovery asks for all services.
AskedOfUs(S, H) == S \subseteq services /\ H \subseteq OurHosts /\ S \cup H # {}

\* A question is answered with a delay when others may answer it too (an answer
\* sent at once leaves nothing behind).
Reply(p, S, H, distributed) ==
  /\ Receive({p})
  /\ pcb[p].state > PCB_PROBE_3
  /\ AskedOfUs(S, H)
  /\ pcb' = [pcb EXCEPT ![p] = Schedule(@,
                [NothingIn EXCEPT !.answers = S, !.answerHosts = H,
                                  !.distributed = distributed])]
  /\ UNCHANGED <<registry, woken>>

\* The replies that others may give as well are left without this answer.
RemoveScheduledAnswer(r, n) ==
  [r EXCEPT !.tx =
     [k \in Slots |->
        IF k \in Live(r) /\ r.tx[k].distributed
        THEN [r.tx[k] EXCEPT !.answers = @ \ {n}, !.answerHosts = @ \ {n}]
        ELSE r.tx[k]]]

\* Another responder gave the answer we were about to give.
KnownAnswer(p, n) ==
  /\ Receive({p})
  /\ \E k \in Live(pcb[p]) : pcb[p].tx[k].distributed
  /\ pcb' = [pcb EXCEPT ![p] = RemoveScheduledAnswer(@, n)]
  /\ UNCHANGED <<registry, woken>>

----------------------------------------------------------------------------
(* A scheduled packet is due: it is sent, and moves its pcb on *)

\* Changed handlers: one goes on from the last announcement as from the others, one
\* keeps the probe list when it announces, one probes until it has an answer.
CountsOn(r, k, host) ==
  IF r.state < PCB_PROBE_1 THEN r ELSE [r EXCEPT !.state = @ + 1]
KeepsProbeList(r, k, host) ==
  CASE r.state \in PCB_PROBE_1 .. PCB_PROBE_3 - 1 -> [r EXCEPT !.state = @ + 1]
    [] r.state = PCB_PROBE_3 ->
         [r EXCEPT !.state = PCB_ANNOUNCE_1, !.tx[k] = AnnounceFromProbe(r.tx[k], host),
                   !.probe_running = FALSE, !.probe_ip = FALSE]
    [] OTHER -> r
ProbesOn(r, k, host) ==
  CASE r.state \in PCB_PROBE_1 .. PCB_PROBE_3 - 1 -> [r EXCEPT !.state = @ + 1]
    [] r.state = PCB_PROBE_3 -> r
    [] OTHER -> [r EXCEPT !.tx[k] = NoPacket]

TxHandlePacket(r, k, host) ==
  LET pkt == r.tx[k]
      out == [r EXCEPT !.tx[k] = NoPacket]
      asked == [n \in Names |->
                  IF n \in pkt.asks \cup (pkt.askHosts \cap {SelfHost}) /\ r.asked[n] < 3
                  THEN r.asked[n] + 1 ELSE r.asked[n]]
  IN  CASE r.state \in PCB_PROBE_1 .. PCB_PROBE_3 - 1 ->
             [r EXCEPT !.state = @ + 1, !.asked = asked]
        [] r.state = PCB_PROBE_3 ->
             [r EXCEPT !.state = PCB_ANNOUNCE_1, !.asked = asked,
                       !.tx[k] = AnnounceFromProbe(pkt, host),
                       !.probe_running = FALSE, !.probe_ip = FALSE,
                       !.probe_services = {}]
        [] r.state \in PCB_ANNOUNCE_1 .. PCB_ANNOUNCE_3 - 1 -> [r EXCEPT !.state = @ + 1]
        [] r.state = PCB_ANNOUNCE_3 -> [out EXCEPT !.state = PCB_RUNNING]
        [] OTHER -> out

TxHandle(p) ==
  /\ \E k \in Live(pcb[p]) : pcb' = [pcb EXCEPT ![p] = TxHandlePacket(@, k, hostOf)]
  /\ UNCHANGED <<registry, heard, woken, inputs>>

----------------------------------------------------------------------------

Application ==
  \/ HostnameSet \/ InstanceSet \/ ServicesClear
  \/ \E s \in Services :
       \/ \E own \in BOOLEAN, h \in AllHosts : ServiceAdd(s, own, h)
       \/ ServiceInstanceSet(s) \/ ServicePortSet(s) \/ ServiceTxt(s) \/ ServiceDel(s)
  \/ \E h \in Delegated : DelegateHostnameAdd(h) \/ DelegateHostnameRemove(h)

Network ==
  \/ \E p \in Pcbs :
       \/ HostCollision(p)
       \/ \E s \in Services : SrvCollision(p, s) \/ TxtCollision(p, s)
       \/ \E S \in SUBSET Services, H \in SUBSET AllHosts, d \in BOOLEAN : Reply(p, S, H, d)
       \/ \E n \in Services \cup AllHosts : KnownAnswer(p, n)
  \/ SystemEvent
  \/ \E i \in Interfaces : DupInterface(i)

Next == Application \/ Network \/ \E p \in Pcbs : TxHandle(p)

\* Every scheduled packet comes due and the service task sends it; nobody has to
\* call, connect or send anything.
Fairness == \A p \in Pcbs : WF_vars(TxHandle(p))

Spec == Init /\ [][Next]_vars /\ Fairness

----------------------------------------------------------------------------
(* Properties *)

\* An application may register two services of one type.
HasTwin(s) == \E t \in Services \ {s} : Kind[t] = Kind[s]

\* No record in the queue and no probe list refers to a service that was removed (its memory
\* is freed), but on a pcb where a late packet started a probe after the pcb was closed.  Nor
\* does a question, as long as no other service has the type of the one that was removed: a
\* removal frees the first question of the type.
NoDangling ==
  \A p \in Pcbs \ woken :
    /\ pcb[p].probe_services \subseteq services
    /\ \A k \in Live(pcb[p]) :
         LET pkt == pcb[p].tx[k]
         IN  /\ pkt.servers \cup pkt.answers \subseteq services
             /\ \A s \in pkt.asks : s \in services \/ HasTwin(s)

\* A pcb that is probing or announcing always has a packet scheduled that will
\* carry it on: no interleaving of removals, restarts and answers strands it.
Driven ==
  \A p \in Pcbs :
    pcb[p].ready /\ (Probing(pcb[p]) \/ Announcing(pcb[p])) => Live(pcb[p]) # {}

\* While a pcb probes, its probe is the only packet it has, and asserts nothing:
\* another packet would move it on without a probe having been sent.
ProbesAlone ==
  \A p \in Pcbs : Probing(pcb[p]) =>
    /\ \A k, l \in Live(pcb[p]) : k = l
    /\ \A k \in Live(pcb[p]) : ~HasAnswers(pcb[p].tx[k])

\* The probe list is only held while probing: InitPcbProbeNewService sizes its
\* copy by it only then, and copies it always.
ProbeListFits ==
  \A p \in Pcbs : p \notin woken =>
    /\ pcb[p].probe_services # {} => Probing(pcb[p])
    /\ pcb[p].probe_running <=> Probing(pcb[p])

\* A pcb that answers has probed three times for the present host name, and for the present
\* name of every registered service, with two exceptions.  A service with an instance name of
\* its own leaves the probe list when the server's instance is renamed.  A service with a twin
\* loses its question to the removal of the twin.
ProbedBeforeAnswered ==
  \A p \in Pcbs : pcb[p].ready /\ pcb[p].state > PCB_PROBE_3 /\ hostname =>
    /\ pcb[p].asked[SelfHost] = 3
    /\ \A s \in services \ ownInstance : pcb[p].asked[s] = 3 \/ HasTwin(s)

\* An interface is only held back as a duplicate while the other one is open.
DuplicateCovered ==
  \A p \in Pcbs : pcb[p].state = PCB_DUP => pcb[<<Duplicate[p[1]], p[2]>>].ready

\* An open pcb that is probing or announcing gets through with it.
Settles ==
  \A p \in Pcbs :
    (pcb[p].ready /\ pcb[p].state < PCB_RUNNING) ~> (pcb[p].state = PCB_RUNNING \/ ~pcb[p].ready)

=============================================================================

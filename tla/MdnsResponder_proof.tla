------------------------ MODULE MdnsResponder_proof -------------------------
(***************************************************************************)
(* What module MdnsResponder promises, proved for any services, hosts,      *)
(* interfaces and protocols, any number of inputs and of packets that may   *)
(* be scheduled at once.                                                    *)
(***************************************************************************)
EXTENDS MdnsResponder, TLAPS

\* The services of a type that another service has as well.
Twins == {s \in Services : HasTwin(s)}

\* A packet that is the probe of its pcb: it claims what the pcb is to probe for and asks for
\* it, up to services of one type.
IsProbe(r, pkt) ==
  /\ ~HasAnswers(pkt)
  /\ pkt.asks \ Twins = r.probe_services \ Twins /\ pkt.servers = r.probe_services
  /\ r.probe_ip <=> SelfHost \in pkt.askHosts
  /\ r.probe_ip => pkt.serverHosts # {}
  /\ r.probe_ip \/ r.probe_services # {}

\* A packet that asserts something and is not one another responder can make needless.
Asserts(pkt) == ~pkt.distributed /\ (HasAnswers(pkt) \/ pkt.serverHosts # {})

\* While a pcb probes its probe is its only packet.
Alone(r) ==
  Probing(r) => /\ \A k, l \in Live(r) : k = l
                /\ \A k \in Live(r) : ~HasAnswers(r.tx[k])

\* An open pcb has the packet that carries it on, and asks nothing but in its probe.
Carried(r) ==
  /\ r.state >= PCB_PROBE_1
  /\ Probing(r) => \E k \in Live(r) : IsProbe(r, r.tx[k])
  /\ Announcing(r) => \E k \in Live(r) : Asserts(r.tx[k])
  /\ ~Probing(r) => \A k \in Live(r) : r.tx[k].asks \subseteq Twins

\* A name was probed for three times, or is probed for and was as often as the state says.
Counted(r, N) ==
  \A n \in N \ Twins :
               \/ r.asked[n] = 3
               \/ /\ Probing(r) /\ n \in NamesIn(r.probe_services, r.probe_ip)
                  /\ r.asked[n] = r.state - PCB_PROBE_1

\* What a pcb refers to is registered.
Refers(r, S) ==
  /\ r.probe_services \subseteq S
  /\ \A k \in Live(r) : /\ r.tx[k].servers \cup r.tx[k].answers \subseteq S
                        /\ r.tx[k].asks \subseteq S \cup Twins

Fits(r) ==
  /\ r.probe_services # {} => Probing(r)
  /\ r.probe_running <=> Probing(r)

Quiet(r) ==
  /\ r.state \in {PCB_OFF, PCB_DUP}
  /\ Live(r) = {} /\ r.probe_services = {} /\ ~r.probe_running

\* The state of one pcb: w, whether a late packet started a probe on it while it was
\* closed; S, the services, O of them with a name of their own; h, whether there is a
\* hostname.
Good(r, w, S, O, h) ==
  /\ r \in PcbRecord
  /\ Alone(r)
  /\ r.ready => Carried(r)
  /\ r.ready /\ Probing(r) => h
  /\ r.ready /\ h => Counted(r, (S \ O) \cup {SelfHost})
  /\ ~w => Refers(r, S)
  /\ ~w /\ r.ready => Fits(r)
  /\ ~w /\ ~r.ready => Quiet(r)

PcbInv == \A p \in Pcbs : Good(pcb[p], p \in woken, services, ownInstance, hostname)

\* A pcb held back as a duplicate has another interface, which is open.
DupInv ==
  \A p \in Pcbs : pcb[p].state = PCB_DUP =>
    Duplicate[p[1]] \in Interfaces /\ pcb[<<Duplicate[p[1]], p[2]>>].ready

IInv == TypeOK /\ PcbInv /\ DupInv

------------------------------------------------------------------------------
(* Packets and their slots.                                                *)

Hosting == [Services -> AllHosts]

\* Whatever is built is a packet.
LEMMA PacketTypes ==
  ASSUME NEW S \in SUBSET Services, NEW ip \in BOOLEAN, NEW host \in Hosting
  PROVE  /\ NothingIn \in Packet
         /\ HostsOf(S, host) \in SUBSET AllHosts /\ HostsOf(S, host) # {}
         /\ ProbePacket(S, ip, host) \in Packet
         /\ AnnouncePacket(S, ip, host) \in Packet
<1>1. NothingIn \in Packet
  BY DEF NothingIn, Packet
<1>2. HostsOf(S, host) \in SUBSET AllHosts /\ HostsOf(S, host) # {}
  BY DEF HostsOf, AllHosts, Hosting
<1>3. {SelfHost} \cup {host[s] : s \in S} \in SUBSET AllHosts
  BY DEF AllHosts, Hosting
<1> QED BY <1>1, <1>2, <1>3 DEF ProbePacket, AnnouncePacket, NothingIn, Packet

\* What a probe holds.
AsksFor(pkt, S, ip) ==
  /\ ~HasAnswers(pkt)
  /\ pkt.asks = S /\ pkt.servers = S /\ pkt.answers = {}
  /\ ip <=> SelfHost \in pkt.askHosts
  /\ ip => pkt.serverHosts # {}

\* A probe asks for the services and addresses it was made for, and answers nothing.
LEMMA ProbeAsks ==
  ASSUME NEW S \in SUBSET Services, NEW ip \in BOOLEAN, NEW host \in Hosting
  PROVE  AsksFor(ProbePacket(S, ip, host), S, ip)
  BY PacketTypes DEF AsksFor, ProbePacket, NothingIn, HasAnswers

\* Two pcbs that differ in their packets only.
SameButTx(q, r) ==
  /\ q.state = r.state
  /\ q.ready <=> r.ready
  /\ q.probe_running <=> r.probe_running
  /\ q.probe_ip <=> r.probe_ip
  /\ q.probe_services = r.probe_services
  /\ q.asked = r.asked

\* A packet that is scheduled takes a free slot, and nothing else changes.
Added(q, r, pkt) ==
  /\ q \in PcbRecord
  /\ SameButTx(q, r)
  /\ \E k \in Slots \ Live(r) : /\ Live(q) = Live(r) \cup {k}
                                /\ q.tx[k] = pkt
                                /\ \A l \in Live(r) : q.tx[l] = r.tx[l]

\* A scheduled packet takes a free slot and leaves the others as they were.
LEMMA ScheduleAdds ==
  ASSUME NEW r \in PcbRecord, Live(r) # Slots, NEW pkt \in Packet
  PROVE  Added(Schedule(r, pkt), r, pkt)
<1> DEFINE k == CHOOSE k \in Slots : r.tx[k] = NoPacket
           q == Schedule(r, pkt)
           t == [r.tx EXCEPT ![k] = pkt]
<1>1. k \in Slots /\ r.tx[k] = NoPacket
  BY DEF Live
<1>2. pkt # NoPacket
  BY SlotsAssumption
<1>3. q = [r EXCEPT !.tx = t]
  BY DEF Schedule, PcbRecord
<1> HIDE DEF k
<1>4. r.tx \in [Slots -> Packet \cup {NoPacket}]
  BY DEF PcbRecord
<1>5. /\ t \in [Slots -> Packet \cup {NoPacket}] /\ t[k] = pkt
      /\ \A l \in Slots : l # k => t[l] = r.tx[l]
  BY <1>1, <1>4
<1> HIDE DEF t
<1>6. q.tx = t /\ q \in PcbRecord /\ SameButTx(q, r)
  BY <1>3, <1>5 DEF PcbRecord, SameButTx
<1> HIDE DEF q
<1>7. Live(q) = Live(r) \cup {k} /\ k \notin Live(r)
  BY <1>1, <1>2, <1>5, <1>6 DEF Live
<1>8. q.tx[k] = pkt /\ \A l \in Live(r) : q.tx[l] = r.tx[l]
  BY <1>1, <1>5, <1>6 DEF Live
<1> QED BY <1>1, <1>6, <1>7, <1>8 DEF q, Added

\* A pcb that is cleared has every slot free.
LEMMA Cleared ==
  ASSUME NEW r \in PcbRecord
  PROVE  LET c == [r EXCEPT !.tx = NoPackets]
         IN  c \in PcbRecord /\ SameButTx(c, r) /\ Live(c) = {} /\ Live(c) # Slots
<1> DEFINE c == [r EXCEPT !.tx = NoPackets]
<1>1. NoPackets \in [Slots -> Packet \cup {NoPacket}] /\ \A k \in Slots : NoPackets[k] = NoPacket
  BY DEF NoPackets
<1>2. c \in PcbRecord /\ c.tx = NoPackets /\ SameButTx(c, r)
  BY <1>1 DEF PcbRecord, SameButTx
<1> HIDE DEF c
<1>3. Live(c) = {}
  BY <1>1, <1>2 DEF Live
<1> QED BY <1>2, <1>3, SlotsAssumption DEF c

------------------------------------------------------------------------------
(* Probing.                                                                *)

\* A pcb on which probing starts has the probe, and has asked for none of its names.
Starts(q, r, S, ip) ==
  /\ q \in PcbRecord
  /\ q.ready <=> r.ready
  /\ q.state = PCB_PROBE_1 /\ q.probe_running
  /\ q.probe_ip <=> ip \/ r.probe_ip
  /\ q.probe_services = S \cup r.probe_services
  /\ \A n \in Names : \/ n \in NamesIn(q.probe_services, q.probe_ip) /\ q.asked[n] = 0
                      \/ n \notin NamesIn(q.probe_services, q.probe_ip) /\ q.asked[n] = r.asked[n]
  /\ \E k \in Slots : Live(q) = {k} /\ IsProbe(q, q.tx[k]) /\ q.tx[k].answers = {}

\* A pcb that starts to probe has no packet but its probe.
LEMMA ProbeStarts ==
  ASSUME NEW r \in PcbRecord, NEW S \in SUBSET Services, NEW ip \in BOOLEAN,
         NEW host \in Hosting, S # {} \/ ip
  PROVE  Starts(InitPcbProbe(r, S, ip, TRUE, host), r, S, ip)
<1> DEFINE c == [r EXCEPT !.tx = NoPackets]
           list == S \cup r.probe_services
           withIp == ip \/ r.probe_ip
           asked == [n \in Names |-> IF n \in NamesIn(list, withIp) THEN 0 ELSE r.asked[n]]
           d == [c EXCEPT !.probe_services = list, !.probe_ip = withIp, !.probe_running = TRUE,
                          !.state = PCB_PROBE_1, !.asked = asked]
           pkt == ProbePacket(list, withIp, host)
           q == InitPcbProbe(r, S, ip, TRUE, host)
<1>1. c \in PcbRecord /\ SameButTx(c, r) /\ Live(c) = {}
  BY Cleared
<1>2. list \in SUBSET Services /\ withIp \in BOOLEAN /\ asked \in [Names -> 0 .. 3]
  BY DEF PcbRecord
<1>3. q = Schedule(d, pkt)
  BY <1>1 DEF InitPcbProbe, InitPcbProbeNewService, SameButTx
<1>4. pkt \in Packet /\ AsksFor(pkt, list, withIp)
  BY <1>2, PacketTypes, ProbeAsks
<1>5. /\ withIp \/ list # {}
      /\ withIp <=> ip \/ r.probe_ip
      /\ \A n \in Names : \/ n \in NamesIn(list, withIp) /\ asked[n] = 0
                          \/ n \notin NamesIn(list, withIp) /\ asked[n] = r.asked[n]
  OBVIOUS
<1> HIDE DEF c, q, withIp, asked, pkt, list
<1>6. /\ d \in PcbRecord /\ d.tx = c.tx /\ (d.ready <=> c.ready) /\ d.state = PCB_PROBE_1
      /\ d.probe_running /\ (d.probe_ip <=> withIp) /\ d.probe_services = list
      /\ d.asked = asked
  <2>1. PCB_PROBE_1 \in PCB_OFF .. PCB_RUNNING
    BY DEF PCB_PROBE_1, PCB_OFF, PCB_RUNNING
  <2> QED BY <1>1, <1>2, <2>1 DEF PcbRecord
<1> HIDE DEF d
<1>7. Live(d) = {} /\ Live(d) # Slots
  BY <1>1, <1>6, SlotsAssumption DEF Live
<1>8. Added(q, d, pkt)
  BY <1>3, <1>4, <1>6, <1>7, ScheduleAdds
<1>9. /\ q \in PcbRecord /\ q.state = PCB_PROBE_1 /\ (q.ready <=> r.ready)
      /\ q.probe_running /\ (q.probe_ip <=> withIp)
      /\ q.probe_services = list /\ q.asked = asked
  BY <1>1, <1>6, <1>8 DEF Added, SameButTx
<1>10. PICK k \in Slots : Live(q) = {k} /\ q.tx[k] = pkt
  BY <1>7, <1>8 DEF Added
<1>11. IsProbe(q, q.tx[k]) /\ q.tx[k].answers = {}
  BY <1>4, <1>5, <1>9, <1>10 DEF IsProbe, AsksFor
<1>12. NamesIn(q.probe_services, q.probe_ip) = NamesIn(list, withIp)
  BY <1>9 DEF NamesIn
<1>13. q.probe_services = S \cup r.probe_services
  BY <1>9 DEF list
<1> QED
  BY <1>5, <1>9, <1>10, <1>11, <1>12, <1>13 DEF q, Starts

\* So it is good, when every name was asked for before or is asked for now.
LEMMA ProbeGood ==
  ASSUME NEW r \in PcbRecord, NEW X \in SUBSET Services, NEW ip \in BOOLEAN,
         NEW q, Starts(q, r, X, ip),
         NEW w \in BOOLEAN, NEW S \in SUBSET Services, NEW O \in SUBSET Services,
         r.ready => \A n \in ((S \ O) \cup {SelfHost}) \ Twins :
                      r.asked[n] = 3 \/ n \in NamesIn(X \cup r.probe_services, ip \/ r.probe_ip),
         ~w => r.ready /\ X \cup r.probe_services \subseteq S
  PROVE  Good(q, w, S, O, TRUE)
<1>1. /\ q \in PcbRecord /\ (q.ready <=> r.ready)
      /\ q.state = PCB_PROBE_1 /\ q.probe_running
  BY DEF Starts
<1>2. PICK k \in Slots : Live(q) = {k} /\ IsProbe(q, q.tx[k]) /\ q.tx[k].answers = {}
  BY DEF Starts
<1>3. Probing(q) /\ ~Announcing(q) /\ q.state >= PCB_PROBE_1
  BY <1>1 DEF Probing, Announcing, PCB_PROBE_1, PCB_PROBE_3, PCB_ANNOUNCE_1, PCB_ANNOUNCE_3
<1>4. Alone(q)
  BY <1>2 DEF Alone, IsProbe
<1>5. Carried(q)
  BY <1>2, <1>3 DEF Carried
<1>6. r.ready => Counted(q, (S \ O) \cup {SelfHost})
  <2> SUFFICES ASSUME r.ready, NEW n \in ((S \ O) \cup {SelfHost}) \ Twins
               PROVE  \/ q.asked[n] = 3
                      \/ n \in NamesIn(q.probe_services, q.probe_ip) /\ q.asked[n] = 0
    BY <1>1, <1>3 DEF Counted, PCB_PROBE_1
  <2>1. n \in Names
    BY DEF Names
  <2>2. NamesIn(q.probe_services, q.probe_ip) = NamesIn(X \cup r.probe_services, ip \/ r.probe_ip)
    BY DEF Starts, NamesIn
  <2> QED BY <2>1, <2>2 DEF Starts
<1>7. ~w => Refers(q, S)
  <2>1. q.probe_services = X \cup r.probe_services
    BY DEF Starts
  <2> QED BY <1>2, <2>1 DEF Refers, IsProbe
<1>8. Fits(q)
  BY <1>1, <1>3 DEF Fits
<1> QED BY <1>1, <1>3, <1>4, <1>5, <1>6, <1>7, <1>8 DEF Good

\* A pcb that was good is probing anew: what it has not asked for, it was asking for.
LEMMA ProbeAgainGood ==
  ASSUME NEW r, NEW w \in BOOLEAN, NEW S \in SUBSET Services, NEW O \in SUBSET Services,
         NEW h \in BOOLEAN, h, Good(r, w, S, O, h), w \/ r.ready,
         NEW X \in SUBSET S, NEW ip \in BOOLEAN, NEW q, Starts(q, r, X, ip)
  PROVE  Good(q, w, S, O, h)
<1>1. r \in PcbRecord /\ X \in SUBSET Services
  BY DEF Good
<1>2. ASSUME r.ready, NEW n \in ((S \ O) \cup {SelfHost}) \ Twins
      PROVE  r.asked[n] = 3 \/ n \in NamesIn(X \cup r.probe_services, ip \/ r.probe_ip)
  BY <1>2 DEF Good, Counted, NamesIn
<1>3. ~w => r.ready /\ X \cup r.probe_services \subseteq S
  BY DEF Good, Refers
<1>4. Good(q, w, S, O, TRUE)
  BY <1>1, <1>2, <1>3, ProbeGood, ZenonT(60)
<1> QED BY <1>4 DEF Good

------------------------------------------------------------------------------
(* Announcing.                                                             *)

\* An announcement takes the state back, or goes behind what is scheduled, or into it.
LEMMA AnnounceGood ==
  ASSUME NEW r, NEW w \in BOOLEAN, NEW S \in SUBSET Services, NEW O \in SUBSET Services,
         hostname \in BOOLEAN, Good(r, w, S, O, hostname), Live(r) # Slots,
         NEW X \in SUBSET S, NEW ip \in BOOLEAN, X # {} \/ ip, NEW host \in Hosting,
         NEW k \in Slots, NEW q, q = AnnouncePcb(r, X, ip, host, k)
  PROVE  /\ Good(q, w, S, O, hostname)
         /\ q.ready <=> r.ready
         /\ q.state = PCB_DUP <=> r.state = PCB_DUP
<1> USE DEF PCB_OFF, PCB_DUP, PCB_PROBE_1, PCB_PROBE_3, PCB_ANNOUNCE_1, PCB_ANNOUNCE_3, PCB_RUNNING,
            Probing, Announcing
<1>1. /\ r \in PcbRecord /\ r.state \in 0 .. 9 /\ r.ready \in BOOLEAN
      /\ r.ready => (PCB_STATE_IS_PROBING(r) <=> Probing(r))
  BY DEF Good, Carried, PcbRecord, PCB_STATE_IS_PROBING
<1>2. CASE r.ready /\ Probing(r)
  <2>1. q = InitPcbProbe(r, X, ip, TRUE, host) /\ hostname = TRUE
    <3>1. hostname = TRUE
      BY <1>2 DEF Good
    <3>2. q = InitPcbProbe(r, X, ip, hostname, host)
      BY <1>1, <1>2 DEF AnnouncePcb
    <3> QED BY <3>1, <3>2
  <2>2. Starts(q, r, X, ip)
    BY <1>1, <2>1, ProbeStarts
  <2>3. Good(q, w, S, O, hostname)
    BY <1>2, <2>1, <2>2, ProbeAgainGood
  <2> QED BY <1>2, <2>2, <2>3 DEF Starts
<1>3. CASE r.ready /\ Announcing(r) /\ k \in Live(r)
  <2> DEFINE pkt == [r.tx[k] EXCEPT !.answers = @ \cup X,
                                   !.answerHosts = @ \cup (IF ip THEN HostsOf(X, host) ELSE {})]
             t == [r.tx EXCEPT ![k] = pkt]
  <2>1. q = [r EXCEPT !.state = PCB_ANNOUNCE_1, !.tx = t]
    <3>1. q = [r EXCEPT !.state = PCB_ANNOUNCE_1,
                       !.tx[k].answers = @ \cup X,
                       !.tx[k].answerHosts = @ \cup (IF ip THEN HostsOf(X, host) ELSE {})]
      BY <1>1, <1>3 DEF AnnouncePcb
    <3> QED BY <3>1, <1>1 DEF PcbRecord
  <2>2. r.tx \in [Slots -> Packet \cup {NoPacket}] /\ r.tx[k] \in Packet
    BY <1>1, <1>3 DEF PcbRecord, Live
  <2>3. HostsOf(X, host) \in SUBSET AllHosts
    BY PacketTypes
  <2>4. /\ pkt \in Packet /\ pkt.asks = r.tx[k].asks /\ pkt.servers = r.tx[k].servers
        /\ pkt.answers = r.tx[k].answers \cup X /\ pkt.serverHosts = r.tx[k].serverHosts
        /\ (pkt.distributed <=> r.tx[k].distributed) /\ (HasAnswers(r.tx[k]) => HasAnswers(pkt))
    BY <2>2, <2>3 DEF Packet, HasAnswers
  <2> HIDE DEF pkt
  <2>5. /\ t \in [Slots -> Packet \cup {NoPacket}] /\ t[k] = pkt
        /\ \A l \in Slots : l # k => t[l] = r.tx[l]
    BY <2>2, <2>4
  <2> HIDE DEF t
  <2>6. /\ q \in PcbRecord /\ q.tx = t /\ q.state = PCB_ANNOUNCE_1 /\ (q.ready <=> r.ready)
        /\ (q.probe_running <=> r.probe_running) /\ q.probe_services = r.probe_services
        /\ q.asked = r.asked
    <3>1. PCB_ANNOUNCE_1 \in PCB_OFF .. PCB_RUNNING
      OBVIOUS
    <3> HIDE DEF PCB_OFF, PCB_RUNNING, PCB_ANNOUNCE_1
    <3> QED BY <1>1, <2>1, <2>5, <3>1 DEF PcbRecord
  <2>7. Live(q) = Live(r)
    BY <1>3, <2>4, <2>5, <2>6, SlotsAssumption DEF Live
  <2>8. Carried(q)
    <3>1. PICK l \in Live(r) : Asserts(r.tx[l])
      BY <1>3 DEF Good, Carried
    <3>2. Asserts(q.tx[l])
      BY <2>4, <2>5, <2>6, <3>1 DEF Asserts, Live
    <3>3. \A m \in Live(q) : q.tx[m].asks \subseteq Twins
      BY <1>3, <2>4, <2>5, <2>6, <2>7 DEF Good, Carried, Live
    <3> QED BY <2>6, <2>7, <3>1, <3>2, <3>3 DEF Carried
  <2>9. hostname => Counted(q, (S \ O) \cup {SelfHost})
    BY <1>3, <2>6 DEF Good, Counted
  <2>10. ~w => Refers(q, S)
    BY <1>3, <2>4, <2>5, <2>6, <2>7 DEF Good, Refers, Live
  <2>11. ~w => Fits(q)
    BY <1>3, <2>6 DEF Good, Fits
  <2> QED BY <1>3, <2>6, <2>8, <2>9, <2>10, <2>11 DEF Good, Alone
<1>4. CASE r.ready /\ r.state = PCB_RUNNING /\ hostname
  <2> DEFINE a == [r EXCEPT !.state = PCB_ANNOUNCE_1]
             pkt == AnnouncePacket(X, ip, host)
  <2>1. q = Schedule(a, pkt)
    BY <1>1, <1>4 DEF AnnouncePcb
  <2>2. /\ a \in PcbRecord /\ a.tx = r.tx /\ a.state = PCB_ANNOUNCE_1 /\ (a.ready <=> r.ready)
        /\ (a.probe_running <=> r.probe_running) /\ a.probe_services = r.probe_services
        /\ a.asked = r.asked
    BY <1>1 DEF PcbRecord
  <2>3. pkt \in Packet /\ pkt.asks = {} /\ pkt.servers = {} /\ pkt.answers = X /\ Asserts(pkt)
    BY PacketTypes DEF AnnouncePacket, NothingIn, Asserts, HasAnswers
  <2> HIDE DEF a, pkt
  <2>4. Live(a) = Live(r)
    BY <2>2 DEF Live
  <2>5. Added(q, a, pkt)
    BY <2>1, <2>2, <2>3, <2>4, ScheduleAdds
  <2>6. /\ q \in PcbRecord /\ q.state = PCB_ANNOUNCE_1 /\ (q.ready <=> r.ready)
        /\ (q.probe_running <=> r.probe_running) /\ q.probe_services = r.probe_services
        /\ q.asked = r.asked
    BY <2>2, <2>5 DEF Added, SameButTx
  <2>7. PICK l \in Slots : /\ Live(q) = Live(r) \cup {l} /\ q.tx[l] = pkt
                           /\ \A m \in Live(r) : q.tx[m] = r.tx[m]
    BY <2>2, <2>4, <2>5 DEF Added
  <2>8. Carried(q)
    BY <1>4, <2>3, <2>6, <2>7 DEF Good, Carried
  <2>9. Counted(q, (S \ O) \cup {SelfHost})
    BY <1>4, <2>6 DEF Good, Counted
  <2>10. ~w => Refers(q, S)
    BY <2>3, <2>6, <2>7 DEF Good, Refers
  <2>11. ~w => Fits(q)
    BY <1>4, <2>6 DEF Good, Fits
  <2> QED BY <1>4, <2>6, <2>8, <2>9, <2>10, <2>11 DEF Good, Alone
<1>5. CASE /\ ~(r.ready /\ Probing(r)) /\ ~(r.ready /\ Announcing(r) /\ k \in Live(r))
           /\ ~(r.ready /\ r.state = PCB_RUNNING /\ hostname)
  BY <1>1, <1>5 DEF AnnouncePcb
<1> QED BY <1>2, <1>3, <1>4, <1>5

------------------------------------------------------------------------------
(* A packet is due.                                                        *)

\* Sending a packet moves the pcb from probe to probe, to announcing and on, with the next packet.
LEMMA TxGood ==
  ASSUME NEW r, NEW w \in BOOLEAN, NEW S \in SUBSET Services, NEW O \in SUBSET Services,
         NEW h \in BOOLEAN, Good(r, w, S, O, h), NEW host \in Hosting,
         NEW k \in Live(r), NEW q, q = TxHandlePacket(r, k, host)
  PROVE  /\ Good(q, w, S, O, h)
         /\ q.ready <=> r.ready
         /\ q.state = PCB_DUP <=> r.state = PCB_DUP
<1> DEFINE pkt == r.tx[k]
           out == [r.tx EXCEPT ![k] = NoPacket]
           asked == [n \in Names |->
                       IF n \in pkt.asks \cup (pkt.askHosts \cap {SelfHost}) /\ r.asked[n] < 3
                       THEN r.asked[n] + 1 ELSE r.asked[n]]
<1> USE DEF PCB_OFF, PCB_DUP, PCB_PROBE_1, PCB_PROBE_3, PCB_ANNOUNCE_1, PCB_ANNOUNCE_3, PCB_RUNNING,
            Probing, Announcing
<1>1. /\ r \in PcbRecord /\ r.state \in 0 .. 9 /\ r.ready \in BOOLEAN
      /\ r.tx \in [Slots -> Packet \cup {NoPacket}] /\ k \in Slots /\ pkt \in Packet
      /\ r.asked \in [Names -> 0 .. 3]
  BY DEF Good, PcbRecord, Live
<1>2. asked \in [Names -> 0 .. 3]
  BY <1>1
<1>3. ASSUME r.ready, Probing(r)
      PROVE  Live(r) = {k} /\ IsProbe(r, pkt)
  BY <1>3 DEF Good, Alone, Carried
<1>4. ASSUME r.ready, Probing(r), h, NEW n \in ((S \ O) \cup {SelfHost}) \ Twins
      PROVE  asked[n] = 3 \/ /\ n \in NamesIn(r.probe_services, r.probe_ip)
                             /\ asked[n] = r.state - PCB_PROBE_1 + 1
  <2>1. n \in Names
    BY DEF Names
  <2>2. CASE r.asked[n] = 3
    BY <1>1, <2>1, <2>2
  <2>3. CASE n \in NamesIn(r.probe_services, r.probe_ip) /\ r.asked[n] = r.state - PCB_PROBE_1
    <3>1. n \in pkt.asks \cup (pkt.askHosts \cap {SelfHost})
      BY <1>3, <1>4, <2>3 DEF IsProbe, NamesIn
    <3> QED BY <1>1, <1>4, <2>1, <2>3, <3>1
  <2> QED BY <1>4, <2>2, <2>3 DEF Good, Counted
<1> HIDE DEF asked
<1>5. CASE r.state \in PCB_PROBE_1 .. PCB_PROBE_3 - 1
  <2>1. q = [r EXCEPT !.state = @ + 1, !.asked = asked]
    BY <1>1, <1>5 DEF TxHandlePacket, asked
  <2>2. /\ q \in PcbRecord /\ q.tx = r.tx /\ q.state = r.state + 1 /\ (q.ready <=> r.ready)
        /\ (q.probe_running <=> r.probe_running) /\ q.probe_services = r.probe_services
        /\ (q.probe_ip <=> r.probe_ip) /\ q.asked = asked
    <3>1. r.state + 1 \in PCB_OFF .. PCB_RUNNING
      BY <1>1, <1>5
    <3> HIDE DEF PCB_OFF, PCB_RUNNING
    <3> QED BY <1>1, <1>2, <2>1, <3>1 DEF PcbRecord
  <2>3. Live(q) = Live(r) /\ Probing(q) /\ Probing(r)
    BY <1>5, <2>2 DEF Live
  <2>4. Alone(q)
    BY <2>2, <2>3 DEF Good, Alone
  <2>5. q.ready => Carried(q)
    BY <2>2, <2>3, <1>3 DEF Carried, IsProbe
  <2>6. q.ready /\ h => Counted(q, (S \ O) \cup {SelfHost})
    <3>1. NamesIn(q.probe_services, q.probe_ip) = NamesIn(r.probe_services, r.probe_ip)
      BY <2>2 DEF NamesIn
    <3> QED BY <1>1, <1>4, <2>2, <2>3, <3>1 DEF Counted
  <2>7. ~w => Refers(q, S)
    BY <2>2, <2>3 DEF Good, Refers
  <2>8. (~w /\ q.ready => Fits(q)) /\ (~w /\ ~q.ready => Quiet(q))
    BY <1>5, <2>2, <2>3 DEF Good, Fits, Quiet
  <2> QED BY <1>1, <1>5, <2>2, <2>3, <2>4, <2>5, <2>6, <2>7, <2>8 DEF Good
<1>6. CASE r.state = PCB_PROBE_3
  <2> DEFINE new == AnnounceFromProbe(pkt, host)
             t == [r.tx EXCEPT ![k] = new]
  <2>1. q = [r EXCEPT !.state = PCB_ANNOUNCE_1, !.asked = asked, !.tx = t,
                      !.probe_running = FALSE, !.probe_ip = FALSE, !.probe_services = {}]
    BY <1>1, <1>6 DEF TxHandlePacket, asked, PcbRecord
  <2>2. /\ new \in Packet /\ new.asks = {} /\ new.servers = {} /\ new.answers = pkt.servers
        /\ ~new.distributed /\ (pkt.serverHosts # {} \/ pkt.servers # {} => HasAnswers(new))
    <3>1. pkt.servers \in SUBSET Services /\ pkt.serverHosts \in SUBSET AllHosts
      BY <1>1 DEF Packet
    <3>2. {host[s] : s \in pkt.servers} \in SUBSET AllHosts
      BY <3>1 DEF Hosting
    <3> QED BY <3>1, <3>2 DEF AnnounceFromProbe, NothingIn, Packet, HasAnswers
  <2> HIDE DEF new
  <2>3. /\ t \in [Slots -> Packet \cup {NoPacket}] /\ t[k] = new
        /\ \A l \in Slots : l # k => t[l] = r.tx[l]
    BY <1>1, <2>2
  <2> HIDE DEF t
  <2>4. /\ q \in PcbRecord /\ q.tx = t /\ q.state = PCB_ANNOUNCE_1 /\ (q.ready <=> r.ready)
        /\ ~q.probe_running /\ q.probe_services = {} /\ q.asked = asked
    <3>1. PCB_ANNOUNCE_1 \in PCB_OFF .. PCB_RUNNING
      OBVIOUS
    <3> HIDE DEF PCB_OFF, PCB_RUNNING, PCB_ANNOUNCE_1
    <3> QED BY <1>1, <1>2, <2>1, <2>3, <3>1, ZenonT(60) DEF PcbRecord
  <2>5. Live(q) = Live(r)
    BY <1>1, <2>2, <2>3, <2>4, SlotsAssumption DEF Live
  <2>6. q.ready => Carried(q)
    <3> SUFFICES ASSUME q.ready PROVE Carried(q)
      OBVIOUS
    <3>1. Live(q) = {k} /\ q.tx[k] = new /\ IsProbe(r, pkt)
      BY <1>3, <1>6, <2>3, <2>4, <2>5
    <3>2. Asserts(new)
      BY <2>2, <3>1 DEF Asserts, IsProbe
    <3> QED BY <2>2, <2>4, <3>1, <3>2 DEF Carried
  <2>7. q.ready /\ h => Counted(q, (S \ O) \cup {SelfHost})
    BY <1>4, <1>6, <2>4 DEF Counted
  <2>8. ~w => Refers(q, S)
    BY <1>1, <2>2, <2>3, <2>4, <2>5 DEF Good, Refers, Live
  <2>9. (~w /\ q.ready => Fits(q)) /\ (~w /\ ~q.ready => Quiet(q))
    BY <1>6, <2>4 DEF Good, Fits, Quiet
  <2> QED BY <1>6, <2>4, <2>6, <2>7, <2>8, <2>9 DEF Good, Alone
<1>7. CASE r.state \in PCB_ANNOUNCE_1 .. PCB_ANNOUNCE_3 - 1
  <2>1. q = [r EXCEPT !.state = @ + 1]
    BY <1>1, <1>7 DEF TxHandlePacket
  <2>2. /\ q \in PcbRecord /\ q.tx = r.tx /\ q.state = r.state + 1 /\ (q.ready <=> r.ready)
        /\ (q.probe_running <=> r.probe_running) /\ q.probe_services = r.probe_services
        /\ q.asked = r.asked
    BY <1>1, <1>7, <2>1 DEF PcbRecord
  <2>3. Live(q) = Live(r) /\ Announcing(q) /\ ~Probing(q) /\ Announcing(r) /\ ~Probing(r)
    BY <1>7, <2>2 DEF Live
  <2>4. q.ready => Carried(q)
    BY <2>2, <2>3 DEF Good, Carried
  <2>5. q.ready /\ h => Counted(q, (S \ O) \cup {SelfHost})
    BY <2>2, <2>3 DEF Good, Counted
  <2>6. ~w => Refers(q, S)
    BY <2>2, <2>3 DEF Good, Refers
  <2>7. (~w /\ q.ready => Fits(q)) /\ (~w /\ ~q.ready => Quiet(q))
    BY <1>7, <2>2, <2>3 DEF Good, Fits, Quiet
  <2> QED BY <1>1, <1>7, <2>2, <2>3, <2>4, <2>5, <2>6, <2>7 DEF Good, Alone
<1>8. CASE r.state \notin PCB_PROBE_1 .. PCB_ANNOUNCE_3 - 1
  <2> DEFINE state == IF r.state = PCB_ANNOUNCE_3 THEN PCB_RUNNING ELSE r.state
  <2>1. q = [r EXCEPT !.tx = out, !.state = state]
    <3>1. CASE r.state = PCB_ANNOUNCE_3
      <4>1. q = [[r EXCEPT !.tx[k] = NoPacket] EXCEPT !.state = PCB_RUNNING]
        BY <1>1, <3>1 DEF TxHandlePacket
      <4> QED BY <1>1, <3>1, <4>1 DEF PcbRecord
    <3>2. CASE r.state # PCB_ANNOUNCE_3
      <4>1. q = [r EXCEPT !.tx[k] = NoPacket]
        BY <1>1, <1>8, <3>2 DEF TxHandlePacket
      <4> QED BY <1>1, <3>2, <4>1 DEF PcbRecord
    <3> QED BY <3>1, <3>2
  <2>2. /\ out \in [Slots -> Packet \cup {NoPacket}] /\ out[k] = NoPacket
        /\ \A l \in Slots : l # k => out[l] = r.tx[l]
    BY <1>1
  <2>3. state \in 0 .. 9 /\ state \notin PCB_PROBE_1 .. PCB_ANNOUNCE_3
        /\ (state < PCB_PROBE_1 => state = r.state)
        /\ (state = r.state \/ (r.state = PCB_ANNOUNCE_3 /\ state = PCB_RUNNING))
    BY <1>1, <1>8
  <2> HIDE DEF out, state
  <2>4. /\ q \in PcbRecord /\ q.tx = out /\ q.state = state /\ (q.ready <=> r.ready)
        /\ (q.probe_running <=> r.probe_running) /\ q.probe_services = r.probe_services
        /\ q.asked = r.asked
    BY <1>1, <2>1, <2>2, <2>3 DEF PcbRecord
  <2>5. Live(q) = Live(r) \ {k} /\ \A l \in Live(q) : q.tx[l] = r.tx[l]
    BY <1>1, <2>2, <2>4 DEF Live
  <2>6. ~Probing(q) /\ ~Announcing(q) /\ ~Probing(r)
    BY <1>1, <1>8, <2>3, <2>4
  <2>7. q.ready => Carried(q)
    BY <1>1, <1>8, <2>3, <2>4, <2>5, <2>6 DEF Good, Carried
  <2>8. q.ready /\ h => Counted(q, (S \ O) \cup {SelfHost})
    BY <2>4, <2>6 DEF Good, Counted
  <2>9. ~w => Refers(q, S)
    BY <2>4, <2>5 DEF Good, Refers
  <2>10. (~w /\ q.ready => Fits(q)) /\ (~w /\ ~q.ready => Quiet(q))
    BY <2>3, <2>4, <2>5, <2>6 DEF Good, Fits, Quiet
  <2> QED BY <1>1, <1>8, <2>3, <2>4, <2>6, <2>7, <2>8, <2>9, <2>10 DEF Good, Alone
<1> QED BY <1>1, <1>5, <1>6, <1>7, <1>8

------------------------------------------------------------------------------
(* Removing services, replying, closing.                                   *)

\* The services of X are removed: from those that are registered, and from a pcb.
Removed(S2, O2, S, O, X, q, r, freed) ==
  /\ S2 = S \ X /\ O2 = O \ X
  /\ freed \in FreedQuestions(r, X) /\ q = RemoveFromPcb(r, X, freed)

\* The question of a service that is the only one of its type is freed just when that service
\* leaves the probe list.
LEMMA FreedButForTwins ==
  ASSUME NEW r \in PcbRecord, NEW X \in SUBSET Services, NEW freed \in FreedQuestions(r, X)
  PROVE  \A k \in Live(r) :
           (r.tx[k].asks \ freed) \ Twins = (r.tx[k].asks \ OffTheList(r, X)) \ Twins
<1> DEFINE asked == UNION {r.tx[k].asks : k \in Live(r)}
           gone == OffTheList(r, X)
<1>1. freed \subseteq asked /\ asked \subseteq Services /\ gone \subseteq Services
  <2>1. \A k \in Live(r) : r.tx[k].asks \subseteq Services
    BY DEF PcbRecord, Live, Packet
  <2> QED BY <2>1 DEF FreedQuestions, OffTheList
<1>2. PICK by \in Injection(freed, gone) :
        /\ \A q \in freed : Kind[by[q]] = Kind[q]
        /\ \A s \in gone \ Range(by), q \in asked \ freed : Kind[q] = Kind[s] => q # s
  BY DEF FreedQuestions
<1>3. by \in [freed -> gone] /\ Range(by) = {by[q] : q \in freed}
  BY <1>2 DEF Injection, IsInjective, Range
<1> HIDE DEF asked, gone
<1>4. ASSUME NEW q \in freed, q \notin Twins
      PROVE  q \in gone
  BY <1>1, <1>2, <1>3, <1>4 DEF Twins, HasTwin
<1>5. ASSUME NEW q \in asked, q \in gone, q \notin Twins, q \notin freed
      PROVE  FALSE
  <2>1. q \notin Range(by)
    BY <1>1, <1>2, <1>3, <1>5 DEF Twins, HasTwin
  <2> QED BY <1>2, <1>5, <2>1
<1>6. \A k \in Live(r) : r.tx[k].asks \subseteq asked
  BY DEF asked
<1> QED BY <1>4, <1>5, <1>6 DEF gone

\* A service that is removed leaves every packet and the probe list; a probe for others goes on.
LEMMA RemoveGood ==
  ASSUME NEW r, NEW w \in BOOLEAN, NEW S \in SUBSET Services, NEW O \in SUBSET Services,
         NEW h \in BOOLEAN, Good(r, w, S, O, h), NEW X \in SUBSET S,
         NEW S2, NEW O2, NEW freed, NEW q, Removed(S2, O2, S, O, X, q, r, freed)
  PROVE  /\ Good(q, w, S2, O2, h)
         /\ q.ready <=> r.ready
         /\ q.state = PCB_DUP <=> r.state = PCB_DUP
<1> DEFINE gone == OffTheList(r, X)
           Cut(pkt) == [WithoutServices(pkt, X) EXCEPT !.asks = @ \ freed]
           last == gone # {} /\ gone = r.probe_services /\ ~r.probe_ip
           emptied == /\ r.ready /\ Announcing(r)
                      /\ \E k \in Live(r) : HasAnswers(r.tx[k]) /\ ~HasAnswers(Cut(r.tx[k]))
           t == [k \in Slots |-> IF k \notin Live(r) THEN NoPacket
                                 ELSE IF IsEmpty(Cut(r.tx[k])) THEN NoPacket ELSE Cut(r.tx[k])]
           running == r.probe_running /\ ~last
           state == IF last \/ emptied THEN PCB_RUNNING ELSE r.state
<1> USE DEF PCB_OFF, PCB_DUP, PCB_PROBE_1, PCB_PROBE_3, PCB_ANNOUNCE_1, PCB_ANNOUNCE_3, PCB_RUNNING,
            Probing, Announcing
<1>0. /\ S2 = S \ X /\ O2 = O \ X
      /\ freed \in FreedQuestions(r, X) /\ q = RemoveFromPcb(r, X, freed)
  BY DEF Removed
<1>1. /\ r \in PcbRecord /\ r.state \in 0 .. 9 /\ r.ready \in BOOLEAN
      /\ r.tx \in [Slots -> Packet \cup {NoPacket}]
      /\ r.probe_running \in BOOLEAN /\ r.probe_services \in SUBSET Services
  BY DEF Good, PcbRecord
<1>2. /\ gone \subseteq X /\ gone \subseteq r.probe_services
      /\ gone # {} => r.ready /\ Probing(r)
      /\ (r.ready /\ Probing(r)) /\ Live(r) # {} => gone = X \cap r.probe_services
      /\ ~(r.ready /\ Probing(r)) => gone = {}
  <2>1. r.ready => (PCB_STATE_IS_PROBING(r) <=> Probing(r))
    BY <1>1 DEF Good, Carried, PCB_STATE_IS_PROBING
  <2> QED BY <2>1 DEF OffTheList
<1>a. \A k \in Live(r) : (r.tx[k].asks \ freed) \ Twins = (r.tx[k].asks \ gone) \ Twins
  BY <1>0, <1>1, FreedButForTwins
<1>3. ASSUME NEW k \in Live(r)
      PROVE  LET pkt == r.tx[k]
                 cut == Cut(pkt)
             IN  /\ pkt \in Packet /\ cut \in Packet
                 /\ cut.asks = pkt.asks \ freed /\ cut.servers = pkt.servers \ X
                 /\ cut.answers = pkt.answers \ X /\ cut.askHosts = pkt.askHosts
                 /\ cut.serverHosts = pkt.serverHosts /\ cut.answerHosts = pkt.answerHosts
                 /\ cut.distributed <=> pkt.distributed
                 /\ ~HasAnswers(pkt) => ~HasAnswers(cut)
  <2> DEFINE pkt == r.tx[k]
  <2>1. pkt \in Packet
    BY <1>1 DEF Live
  <2> HIDE DEF pkt, gone
  <2>2. Cut(pkt) = [pkt EXCEPT !.answers = pkt.answers \ X, !.servers = pkt.servers \ X,
                               !.asks = pkt.asks \ freed]
    BY <2>1 DEF WithoutServices, Packet
  <2>3. /\ Cut(pkt) \in Packet
        /\ Cut(pkt).asks = pkt.asks \ freed /\ Cut(pkt).servers = pkt.servers \ X
        /\ Cut(pkt).answers = pkt.answers \ X /\ Cut(pkt).askHosts = pkt.askHosts
        /\ Cut(pkt).serverHosts = pkt.serverHosts /\ Cut(pkt).answerHosts = pkt.answerHosts
        /\ Cut(pkt).distributed <=> pkt.distributed
    <3> HIDE DEF Cut
    <3> QED BY <2>1, <2>2 DEF Packet
  <2> HIDE DEF Cut
  <2> QED BY <2>1, <2>3 DEF HasAnswers, pkt
<1>4. /\ t \in [Slots -> Packet \cup {NoPacket}]
      /\ \A k \in Slots : t[k] # NoPacket => k \in Live(r) /\ t[k] = Cut(r.tx[k])
      /\ \A k \in Live(r) : ~IsEmpty(Cut(r.tx[k])) => t[k] = Cut(r.tx[k]) /\ t[k] # NoPacket
  <2> HIDE DEF Cut
  <2> QED BY <1>3, SlotsAssumption DEF Live
<1>5. /\ running \in BOOLEAN
      /\ running <=> (r.probe_running /\ ~last)
      /\ state \in 0 .. 9
      /\ (last \/ emptied) => state = PCB_RUNNING
      /\ ~(last \/ emptied) => state = r.state
      /\ last => r.ready /\ Probing(r) /\ gone = r.probe_services /\ ~r.probe_ip
      /\ emptied => r.ready /\ Announcing(r)
  <2>1. last => r.ready /\ Probing(r) /\ gone = r.probe_services /\ ~r.probe_ip
    BY <1>2
  <2>2. emptied => r.ready /\ Announcing(r)
    OBVIOUS
  <2> HIDE DEF gone, Cut, last, emptied
  <2> QED BY <1>1, <2>1, <2>2
<1>6. q = [r EXCEPT !.tx = t, !.probe_services = r.probe_services \ gone,
                    !.probe_running = running, !.state = state]
  BY <1>0, <1>1 DEF RemoveFromPcb, PcbRecord
<1>7. ASSUME ~emptied, NEW k \in Live(r), r.ready, Announcing(r), HasAnswers(r.tx[k])
      PROVE  HasAnswers(Cut(r.tx[k]))
  BY <1>7
<1>8. ~last => gone = {} \/ gone # r.probe_services \/ r.probe_ip
  OBVIOUS
<1> HIDE DEF gone, Cut, last, emptied, t, running, state
<1>9. /\ q \in PcbRecord /\ q.tx = t /\ q.probe_services = r.probe_services \ gone
      /\ (q.probe_running <=> running) /\ q.state = state /\ (q.ready <=> r.ready)
      /\ (q.probe_ip <=> r.probe_ip) /\ q.asked = r.asked
  <2>1. state \in PCB_OFF .. PCB_RUNNING
    BY <1>5
  <2> HIDE DEF PCB_OFF, PCB_RUNNING
  <2> QED BY <1>1, <1>4, <1>5, <1>6, <2>1 DEF PcbRecord
<1>10. /\ Live(q) \subseteq Live(r) /\ \A k \in Live(q) : q.tx[k] = Cut(r.tx[k])
       /\ \A k \in Live(r) : ~IsEmpty(Cut(r.tx[k])) => k \in Live(q) /\ q.tx[k] = Cut(r.tx[k])
  BY <1>4, <1>9 DEF Live
<1>11. /\ Probing(q) <=> Probing(r) /\ ~last
       /\ Probing(q) => q.state = r.state
       /\ Announcing(q) => Announcing(r) /\ ~emptied
       /\ r.state >= PCB_PROBE_1 => q.state >= PCB_PROBE_1
       /\ ~r.ready => q.state = r.state
  BY <1>1, <1>5, <1>9
<1>12. Alone(q)
  <2> SUFFICES ASSUME Probing(q)
               PROVE  /\ \A k, l \in Live(q) : k = l
                      /\ \A k \in Live(q) : ~HasAnswers(q.tx[k])
    BY DEF Alone
  <2>1. /\ \A k, l \in Live(r) : k = l
        /\ \A k \in Live(r) : ~HasAnswers(r.tx[k])
    BY <1>11 DEF Good, Alone
  <2> QED BY <1>3, <1>10, <2>1
<1>13. ASSUME r.ready, Probing(r)
       PROVE  /\ gone = X \cap r.probe_services
              /\ \E k \in Live(r) : Live(r) = {k} /\ IsProbe(r, r.tx[k])
  <2>1. PICK k \in Live(r) : IsProbe(r, r.tx[k])
    BY <1>13 DEF Good, Carried
  <2>2. Live(r) = {k}
    BY <1>13 DEF Good, Alone
  <2> QED BY <1>2, <1>13, <2>1, <2>2
<1>14. ASSUME q.ready
       PROVE  Carried(q)
  <2>1. r.ready /\ Carried(r)
    BY <1>9, <1>14 DEF Good
  <2>2. q.state >= PCB_PROBE_1
    BY <1>11, <2>1 DEF Carried
  <2>3. ASSUME Probing(q)
        PROVE  \E k \in Live(q) : IsProbe(q, q.tx[k])
    <3>1. Probing(r) /\ ~last
      BY <1>11, <2>3
    <3>2. PICK k \in Live(r) : IsProbe(r, r.tx[k])
      BY <1>13, <2>1, <3>1
    <3> DEFINE cut == Cut(r.tx[k])
    <3>3. /\ cut.asks \ Twins = (r.probe_services \ gone) \ Twins
          /\ cut.servers = r.probe_services \ gone
          /\ cut.askHosts = r.tx[k].askHosts /\ cut.serverHosts = r.tx[k].serverHosts
          /\ ~HasAnswers(cut)
      BY <1>a, <1>3, <1>13, <2>1, <3>1, <3>2 DEF IsProbe
    <3>4. r.probe_ip \/ r.probe_services \ gone # {}
      BY <1>2, <1>8, <3>1, <3>2 DEF IsProbe
    <3>5. IsProbe(q, cut)
      BY <1>9, <3>2, <3>3, <3>4 DEF IsProbe
    <3>6. ~IsEmpty(cut)
      BY <3>2, <3>3, <3>4 DEF IsEmpty, IsProbe
    <3> QED BY <1>10, <3>5, <3>6
  <2>4. ASSUME Announcing(q)
        PROVE  \E k \in Live(q) : Asserts(q.tx[k])
    <3>1. Announcing(r) /\ ~emptied
      BY <1>11, <2>4
    <3>2. PICK k \in Live(r) : Asserts(r.tx[k])
      BY <2>1, <3>1 DEF Carried
    <3>3. Asserts(Cut(r.tx[k]))
      BY <1>3, <1>7, <2>1, <3>1, <3>2 DEF Asserts
    <3>4. ~IsEmpty(Cut(r.tx[k]))
      BY <3>3 DEF Asserts, IsEmpty
    <3> QED BY <1>10, <3>3, <3>4
  <2>5. ASSUME ~Probing(q), NEW k \in Live(q)
        PROVE  q.tx[k].asks \subseteq Twins
    <3>1. k \in Live(r) /\ q.tx[k].asks = r.tx[k].asks \ freed
      BY <1>3, <1>10, <2>5
    <3>2. CASE ~Probing(r)
      BY <2>1, <3>1, <3>2 DEF Carried
    <3>3. CASE Probing(r)
      <4>1. last /\ gone = r.probe_services
        BY <1>5, <1>11, <2>5, <3>3
      <4>2. r.tx[k].asks \ Twins = r.probe_services \ Twins
        BY <1>13, <2>1, <3>1, <3>3 DEF IsProbe
      <4> QED BY <1>a, <3>1, <4>1, <4>2
    <3> QED BY <3>2, <3>3
  <2> QED BY <2>2, <2>3, <2>4, <2>5 DEF Carried
<1>15. ASSUME q.ready, h
       PROVE  Counted(q, ((S \ X) \ (O \ X)) \cup {SelfHost})
  <2> SUFFICES ASSUME NEW n \in (((S \ X) \ (O \ X)) \cup {SelfHost}) \ Twins
               PROVE  \/ q.asked[n] = 3
                      \/ /\ Probing(q) /\ n \in NamesIn(q.probe_services, q.probe_ip)
                         /\ q.asked[n] = q.state - PCB_PROBE_1
    BY DEF Counted
  <2>1. n \in ((S \ O) \cup {SelfHost}) \ Twins /\ n \notin X
    BY SelfHostAssumption
  <2>2. CASE r.asked[n] = 3
    BY <1>9, <2>2
  <2>3. CASE /\ Probing(r) /\ n \in NamesIn(r.probe_services, r.probe_ip)
             /\ r.asked[n] = r.state - PCB_PROBE_1
    <3>1. n \in NamesIn(r.probe_services \ gone, r.probe_ip)
      BY <1>2, <2>1, <2>3 DEF NamesIn
    <3>2. ~last
      BY <1>5, <3>1 DEF NamesIn
    <3>3. n \in NamesIn(q.probe_services, q.probe_ip)
      BY <1>9, <3>1 DEF NamesIn
    <3> QED BY <1>9, <1>11, <2>3, <3>2, <3>3
  <2> QED BY <1>9, <1>15, <2>1, <2>2, <2>3 DEF Good, Counted
<1>16. ASSUME ~w
       PROVE  Refers(q, S \ X)
  <2>1. Refers(r, S)
    BY <1>16 DEF Good
  <2>2. q.probe_services \subseteq S \ X
    <3>1. CASE r.ready /\ Probing(r)
      BY <1>9, <1>13, <2>1, <3>1 DEF Refers
    <3>2. CASE ~(r.ready /\ Probing(r))
      BY <1>1, <1>9, <1>16, <3>2 DEF Good, Fits, Quiet
    <3> QED BY <3>1, <3>2
  <2>3. ASSUME NEW k \in Live(q)
        PROVE  /\ q.tx[k].servers \cup q.tx[k].answers \subseteq S \ X
               /\ q.tx[k].asks \subseteq (S \ X) \cup Twins
    <3>1. /\ k \in Live(r) /\ q.tx[k].asks = r.tx[k].asks \ freed
          /\ q.tx[k].servers = r.tx[k].servers \ X /\ q.tx[k].answers = r.tx[k].answers \ X
      BY <1>3, <1>10, <2>3
    <3>2. r.ready
      BY <1>1, <1>16, <3>1 DEF Good, Quiet
    <3>3. q.tx[k].asks \subseteq (S \ X) \cup Twins
      <4>1. CASE Probing(r)
        <5>1. gone = X \cap r.probe_services /\ r.tx[k].asks \ Twins = r.probe_services \ Twins
          BY <1>13, <3>1, <3>2, <4>1 DEF IsProbe
        <5> QED BY <1>a, <2>1, <3>1, <5>1 DEF Refers
      <4>2. CASE ~Probing(r)
        BY <3>1, <3>2, <4>2 DEF Good, Carried
      <4> QED BY <4>1, <4>2
    <3> QED BY <2>1, <3>1, <3>3 DEF Refers
  <2> QED BY <2>2, <2>3 DEF Refers
<1>17. ASSUME ~w, q.ready
       PROVE  Fits(q)
  <2>1. Fits(r)
    BY <1>9, <1>17 DEF Good
  <2>2. q.probe_services # {} => Probing(q)
    BY <1>5, <1>9, <1>11, <2>1 DEF Fits
  <2>3. q.probe_running <=> Probing(q)
    BY <1>5, <1>9, <1>11, <2>1 DEF Fits
  <2> QED BY <2>2, <2>3 DEF Fits
<1>18. ASSUME ~w, ~q.ready
       PROVE  Quiet(q)
  <2>1. Quiet(r)
    BY <1>9, <1>18 DEF Good
  <2> QED BY <1>5, <1>9, <1>10, <1>11, <1>18, <2>1 DEF Quiet
<1>19. q.ready /\ Probing(q) => h
  BY <1>9, <1>11 DEF Good
<1>20. q.state = PCB_DUP <=> r.state = PCB_DUP
  BY <1>1, <1>5, <1>9
<1> QED BY <1>0, <1>9, <1>12, <1>14, <1>15, <1>16, <1>17, <1>18, <1>19, <1>20 DEF Good

\* A reply goes behind what is scheduled.
LEMMA ReplyGood ==
  ASSUME NEW r, NEW w \in BOOLEAN, NEW S \in SUBSET Services, NEW O \in SUBSET Services,
         NEW h \in BOOLEAN, Good(r, w, S, O, h), Live(r) # Slots, r.state > PCB_PROBE_3,
         NEW pkt \in Packet, pkt.asks = {}, pkt.servers = {}, pkt.answers \subseteq S,
         NEW q, q = Schedule(r, pkt)
  PROVE  /\ Good(q, w, S, O, h)
         /\ q.ready <=> r.ready
         /\ q.state = PCB_DUP <=> r.state = PCB_DUP
<1>1. r \in PcbRecord /\ r.state \in 0 .. 9
  BY DEF Good, PcbRecord, PCB_OFF, PCB_RUNNING
<1>2. Added(q, r, pkt)
  BY <1>1, ScheduleAdds
<1>3. q \in PcbRecord /\ SameButTx(q, r)
  BY <1>2 DEF Added
<1>4. PICK l \in Slots : /\ Live(q) = Live(r) \cup {l} /\ q.tx[l] = pkt
                         /\ \A m \in Live(r) : q.tx[m] = r.tx[m]
  BY <1>2 DEF Added
<1>5. /\ ~Probing(q) /\ ~Probing(r) /\ (Announcing(q) <=> Announcing(r))
      /\ q.state # PCB_OFF /\ q.state # PCB_DUP /\ r.state # PCB_DUP
  BY <1>1, <1>3 DEF SameButTx, Probing, Announcing, PCB_PROBE_1, PCB_PROBE_3, PCB_OFF, PCB_DUP
<1>6. q.ready => Carried(q)
  BY <1>3, <1>4, <1>5 DEF Good, Carried, SameButTx
<1>7. q.ready /\ h => Counted(q, (S \ O) \cup {SelfHost})
  BY <1>3, <1>5 DEF Good, Counted, SameButTx
<1>8. ~w => Refers(q, S)
  BY <1>3, <1>4 DEF Good, Refers, SameButTx
<1>9. (~w /\ q.ready => Fits(q)) /\ (~w => q.ready)
  BY <1>3, <1>5 DEF Good, Fits, Quiet, SameButTx
<1> QED BY <1>3, <1>5, <1>6, <1>7, <1>8, <1>9 DEF Good, Alone, SameButTx

\* What another responder has answered goes out of the replies, and of no probe or announcement.
LEMMA KnownGood ==
  ASSUME NEW r, NEW w \in BOOLEAN, NEW S \in SUBSET Services, NEW O \in SUBSET Services,
         NEW h \in BOOLEAN, Good(r, w, S, O, h), NEW n,
         NEW q, q = RemoveScheduledAnswer(r, n)
  PROVE  /\ Good(q, w, S, O, h)
         /\ q.ready <=> r.ready
         /\ q.state = PCB_DUP <=> r.state = PCB_DUP
<1> DEFINE cut(k) == [r.tx[k] EXCEPT !.answers = @ \ {n}, !.answerHosts = @ \ {n}]
           t == [k \in Slots |-> IF k \in Live(r) /\ r.tx[k].distributed THEN cut(k) ELSE r.tx[k]]
<1>1. r \in PcbRecord /\ r.tx \in [Slots -> Packet \cup {NoPacket}]
  BY DEF Good, PcbRecord
<1>2. ASSUME NEW k \in Live(r)
      PROVE  /\ r.tx[k] \in Packet /\ cut(k) \in Packet
             /\ cut(k).asks = r.tx[k].asks /\ cut(k).servers = r.tx[k].servers
             /\ cut(k).askHosts = r.tx[k].askHosts /\ cut(k).serverHosts = r.tx[k].serverHosts
             /\ cut(k).answers = r.tx[k].answers \ {n}
             /\ ~HasAnswers(r.tx[k]) => ~HasAnswers(cut(k))
  BY <1>1 DEF Live, Packet, HasAnswers
<1>3. q = [r EXCEPT !.tx = t]
  BY DEF RemoveScheduledAnswer
<1> HIDE DEF cut
<1>4. /\ t \in [Slots -> Packet \cup {NoPacket}]
      /\ \A k \in Slots : t[k] = NoPacket <=> r.tx[k] = NoPacket
      /\ \A k \in Live(r) : t[k] = cut(k) \/ t[k] = r.tx[k]
      /\ \A k \in Live(r) : ~r.tx[k].distributed => t[k] = r.tx[k]
  BY <1>1, <1>2, SlotsAssumption DEF Live
<1> HIDE DEF t
<1>5. q \in PcbRecord /\ q.tx = t /\ SameButTx(q, r)
  BY <1>1, <1>3, <1>4 DEF PcbRecord, SameButTx
<1>6. Live(q) = Live(r)
  BY <1>4, <1>5 DEF Live
<1>7. \A k \in Live(r) : /\ q.tx[k].asks = r.tx[k].asks /\ q.tx[k].servers = r.tx[k].servers
                         /\ q.tx[k].askHosts = r.tx[k].askHosts
                         /\ q.tx[k].serverHosts = r.tx[k].serverHosts
                         /\ q.tx[k].answers \subseteq r.tx[k].answers
                         /\ ~HasAnswers(r.tx[k]) => ~HasAnswers(q.tx[k])
                         /\ ~r.tx[k].distributed => q.tx[k] = r.tx[k]
  BY <1>2, <1>4, <1>5
<1>8. (Probing(q) <=> Probing(r)) /\ (Announcing(q) <=> Announcing(r))
  BY <1>5 DEF SameButTx, Probing, Announcing
<1>9. Alone(q)
  BY <1>6, <1>7, <1>8 DEF Good, Alone
<1>10. q.ready => Carried(q)
  <2> SUFFICES ASSUME q.ready PROVE Carried(q)
    OBVIOUS
  <2>1. Carried(r)
    BY <1>5 DEF Good, SameButTx
  <2>2. ASSUME Probing(q)
        PROVE  \E k \in Live(q) : IsProbe(q, q.tx[k])
    <3>1. PICK k \in Live(r) : IsProbe(r, r.tx[k])
      BY <1>8, <2>1, <2>2 DEF Carried
    <3>2. /\ q.tx[k].asks = r.tx[k].asks /\ q.tx[k].servers = r.tx[k].servers
          /\ q.tx[k].askHosts = r.tx[k].askHosts /\ q.tx[k].serverHosts = r.tx[k].serverHosts
          /\ ~HasAnswers(q.tx[k])
      BY <1>7, <3>1 DEF IsProbe
    <3>3. q.probe_services = r.probe_services /\ (q.probe_ip <=> r.probe_ip)
      BY <1>5 DEF SameButTx
    <3>4. IsProbe(q, q.tx[k])
      BY <3>1, <3>2, <3>3 DEF IsProbe
    <3> QED BY <1>6, <3>4
  <2>3. Announcing(q) => \E k \in Live(q) : Asserts(q.tx[k])
    BY <1>6, <1>7, <1>8, <2>1 DEF Carried, Asserts
  <2> QED BY <1>5, <1>6, <1>7, <1>8, <2>1, <2>2, <2>3 DEF Carried, SameButTx
<1>11. q.ready /\ h => Counted(q, (S \ O) \cup {SelfHost})
  BY <1>5, <1>8 DEF Good, Counted, SameButTx, NamesIn
<1>12. ~w => Refers(q, S)
  BY <1>5, <1>6, <1>7 DEF Good, Refers, SameButTx
<1>13. (~w /\ q.ready => Fits(q)) /\ (~w /\ ~q.ready => Quiet(q))
  BY <1>5, <1>6, <1>8 DEF Good, Fits, Quiet, SameButTx
<1> QED BY <1>5, <1>8, <1>9, <1>10, <1>11, <1>12, <1>13 DEF Good, SameButTx

\* A pcb that is closed has nothing left to do.
ClosedAs(r, v) == [Close(r) EXCEPT !.state = v]

\* A closed pcb holds no packets and no probe list.
LEMMA CloseGood ==
  ASSUME NEW r, NEW w \in BOOLEAN, NEW S \in SUBSET Services, NEW O \in SUBSET Services,
         NEW h \in BOOLEAN, Good(r, w, S, O, h), NEW v \in {PCB_OFF, PCB_DUP},
         NEW q, q = ClosedAs(r, v)
  PROVE  Good(q, w, S, O, h) /\ ~q.ready /\ q.state = v
<1>1. r \in PcbRecord /\ r.ready \in BOOLEAN
  BY DEF Good, PcbRecord
<1>2. v \in PCB_OFF .. PCB_RUNNING
  BY DEF PCB_OFF, PCB_DUP, PCB_RUNNING
<1>3. /\ Closed \in PcbRecord /\ Live(Closed) = {} /\ ~Closed.ready
      /\ Closed.probe_services = {} /\ ~Closed.probe_running
  <2>1. PCB_OFF \in PCB_OFF .. PCB_RUNNING
    BY DEF PCB_OFF, PCB_RUNNING
  <2> HIDE DEF PCB_OFF, PCB_RUNNING
  <2>2. NoPackets \in [Slots -> Packet \cup {NoPacket}]
    BY DEF NoPackets
  <2>3. [n \in Names |-> 0] \in [Names -> 0 .. 3]
    OBVIOUS
  <2>4. Closed \in PcbRecord
    BY <2>1, <2>2, <2>3 DEF Closed, PcbRecord
  <2>5. Live(Closed) = {}
    BY DEF Closed, Live, NoPackets
  <2> QED BY <2>4, <2>5 DEF Closed
<1>4. /\ q \in PcbRecord /\ q.state = v /\ ~q.ready /\ q.tx = Close(r).tx
      /\ q.probe_services = Close(r).probe_services
      /\ (q.probe_running <=> Close(r).probe_running)
  <2> HIDE DEF PCB_OFF, PCB_RUNNING
  <2> QED BY <1>1, <1>2, <1>3 DEF ClosedAs, Close, PcbRecord
<1>5. ~Probing(q)
  BY <1>4 DEF Probing, PCB_OFF, PCB_DUP, PCB_PROBE_1, PCB_PROBE_3
<1>6. CASE r.ready
  <2>1. Quiet(q)
    BY <1>3, <1>4, <1>6 DEF Close, Quiet, Live
  <2>2. Refers(q, S)
    BY <2>1 DEF Quiet, Refers
  <2> QED BY <1>4, <1>5, <2>1, <2>2 DEF Good, Alone
<1>7. CASE ~r.ready
  <2>1. ~w => Quiet(q)
    BY <1>4, <1>7 DEF Good, Close, Quiet, Live
  <2>2. ~w => Refers(q, S)
    BY <2>1 DEF Quiet, Refers
  <2> QED BY <1>4, <1>5, <2>1, <2>2 DEF Good, Alone
<1> QED BY <1>6, <1>7

\* Without a host name nothing is probed for.
Idle(q, r) ==
  /\ q \in PcbRecord
  /\ (q.ready <=> r.ready) /\ (q.probe_running <=> r.probe_running)
  /\ q.probe_services = r.probe_services
  /\ Live(q) = {} /\ q.state = PCB_RUNNING

\* Without a host name no probe is made.
LEMMA UnnamedIdle ==
  ASSUME NEW r \in PcbRecord, NEW X, NEW ip, NEW host
  PROVE  Idle(InitPcbProbe(r, X, ip, FALSE, host), r)
<1> DEFINE c == [r EXCEPT !.tx = NoPackets]
           q == InitPcbProbe(r, X, ip, FALSE, host)
<1>1. c \in PcbRecord /\ SameButTx(c, r) /\ Live(c) = {}
  BY Cleared
<1>2. q = [c EXCEPT !.state = PCB_RUNNING]
  BY DEF InitPcbProbe
<1> HIDE DEF c, q
<1>3. PCB_RUNNING \in PCB_OFF .. PCB_RUNNING
  BY DEF PCB_OFF, PCB_RUNNING
<1>4. /\ q \in PcbRecord /\ q.state = PCB_RUNNING /\ q.tx = c.tx /\ (q.ready <=> c.ready)
      /\ (q.probe_running <=> c.probe_running) /\ q.probe_services = c.probe_services
  BY <1>1, <1>2, <1>3 DEF PcbRecord
<1>5. Idle(q, r)
  BY <1>1, <1>4 DEF Idle, SameButTx, Live
<1> QED BY <1>5 DEF q

\* What is cleared and not probed anew is running, with nothing scheduled.
LEMMA IdleGood ==
  ASSUME NEW q, NEW r, Idle(q, r), NEW w \in BOOLEAN, r.ready,
         ~w => r.probe_services = {} /\ ~r.probe_running,
         NEW S \in SUBSET Services, NEW O \in SUBSET Services
  PROVE  Good(q, w, S, O, FALSE)
<1>1. ~Probing(q) /\ ~Announcing(q) /\ q.state >= PCB_PROBE_1
  BY DEF Idle, Probing, Announcing, PCB_PROBE_1, PCB_PROBE_3, PCB_ANNOUNCE_1, PCB_ANNOUNCE_3,
         PCB_RUNNING
<1> QED BY <1>1 DEF Idle, Good, Alone, Carried, Refers, Fits, Quiet

------------------------------------------------------------------------------
(* Opening, and probing everywhere.                                        *)

\* A pcb is kept open or closed, and none is held back as a duplicate that was not.
Kept(q, r) == (q.ready <=> r.ready) /\ (q.state = PCB_DUP => r.state = PCB_DUP)

\* What concerns a pcb that a late packet woke holds for any other as well.
LEMMA WokenGood ==
  ASSUME NEW r, NEW w \in BOOLEAN, NEW S, NEW O, NEW h, Good(r, w, S, O, h)
  PROVE  Good(r, TRUE, S, O, h)
  BY DEF Good

\* Whether a pcb is open or not, it may be opened (once more).
LEMMA EnabledGood ==
  ASSUME services \in SUBSET Services, ownInstance \in SUBSET Services, hostname \in BOOLEAN,
         hostOf \in Hosting,
         NEW r, NEW w \in BOOLEAN, Good(r, w, services, ownInstance, hostname),
         NEW q, q = Enabled(r)
  PROVE  Good(q, w, services, ownInstance, hostname) /\ q.ready /\ q.state # PCB_DUP
<1> DEFINE o == Open(r)
<1>1. r \in PcbRecord /\ r.ready \in BOOLEAN
  BY DEF Good, PcbRecord
<1>2. /\ o \in PcbRecord /\ o.ready /\ o.state = r.state /\ (o.probe_running <=> r.probe_running)
      /\ (o.probe_ip <=> r.probe_ip) /\ o.probe_services = r.probe_services
  BY <1>1 DEF Open, PcbRecord
<1>3. q = InitPcbProbe(o, services, TRUE, hostname, hostOf)
  BY DEF Enabled
<1> HIDE DEF o
<1>4. CASE hostname = TRUE
  <2>1. Starts(q, o, services, TRUE)
    BY <1>2, <1>3, <1>4, ProbeStarts
  <2>2. \A n \in (services \ ownInstance) \cup {SelfHost} :
          n \in NamesIn(services \cup o.probe_services, TRUE \/ o.probe_ip)
    BY DEF NamesIn
  <2>3. ~w => services \cup o.probe_services \subseteq services
    BY <1>2 DEF Good, Refers
  <2>4. Good(q, w, services, ownInstance, TRUE)
    BY <1>2, <2>1, <2>2, <2>3, ProbeGood
  <2>5. q.ready /\ q.state # PCB_DUP
    BY <1>2, <2>1 DEF Starts, PCB_PROBE_1, PCB_DUP
  <2> QED BY <1>4, <2>4, <2>5 DEF Good
<1>5. CASE hostname = FALSE
  <2>1. Idle(q, o)
    BY <1>2, <1>3, <1>5, UnnamedIdle
  <2>2. ~w => o.probe_services = {} /\ ~o.probe_running
    BY <1>1, <1>2, <1>5 DEF Good, Fits, Quiet
  <2>3. Good(q, w, services, ownInstance, FALSE)
    BY <1>2, <2>1, <2>2, IdleGood
  <2>4. q.ready /\ q.state # PCB_DUP
    BY <1>2, <2>1 DEF Idle, PCB_RUNNING, PCB_DUP
  <2> QED BY <1>5, <2>3, <2>4 DEF Good
<1> QED BY <1>4, <1>5

\* How often the names were asked for may change.
Counts == [Names -> 0 .. 3]
Reasked(r, a) == [r EXCEPT !.asked = a]

\* What is done with one pcb: after the device is renamed, after the instance is renamed,
\* and for a service that is new or renamed.
ProbedAll(r, S, host) ==
  LET b == [r EXCEPT !.tx = NoPackets]
  IN  IF ~b.ready THEN b ELSE InitPcbProbe(ClearOldProbe(b), S, TRUE, TRUE, host)
ProbedAfresh(r, S, h, host) ==
  IF ~r.ready THEN r ELSE InitPcbProbe(ClearOldProbe(r), S, FALSE, h, host)
ProbedToo(r, s, h, host) ==
  IF ~r.ready THEN r ELSE InitPcbProbe(r, {s}, FALSE, h, host)

\* The probe list is dropped, and whether the addresses are probed for is not.
LEMMA ClearedOldProbe ==
  ASSUME NEW r \in PcbRecord
  PROVE  LET c == ClearOldProbe(r)
         IN  /\ c \in PcbRecord /\ (c.ready <=> r.ready) /\ (c.probe_ip <=> r.probe_ip)
             /\ ~c.probe_running /\ c.probe_services = {} /\ c.asked = r.asked
  BY DEF ClearOldProbe, PcbRecord

\* Another history of questions changes nothing else.
LEMMA ReaskedKeeps ==
  ASSUME NEW r \in PcbRecord, NEW a \in Counts
  PROVE  LET c == Reasked(r, a)
         IN  /\ c \in PcbRecord /\ (c.ready <=> r.ready) /\ (c.probe_ip <=> r.probe_ip)
             /\ (c.probe_running <=> r.probe_running) /\ c.probe_services = r.probe_services
             /\ c.state = r.state /\ c.tx = r.tx /\ c.asked = a
  BY DEF Reasked, Counts, PcbRecord

\* After the device is renamed, every open pcb probes for all there is.
LEMMA RestartGood ==
  ASSUME NEW r, NEW w \in BOOLEAN, NEW S \in SUBSET Services, NEW O \in SUBSET Services,
         NEW h \in BOOLEAN, Good(r, w, S, O, h), NEW host \in Hosting,
         NEW a \in Counts, NEW q, q = ProbedAll(Reasked(r, a), S, host)
  PROVE  Good(q, w, S, O, TRUE) /\ Kept(q, r)
<1> DEFINE c == Reasked(r, a)
           b == [c EXCEPT !.tx = NoPackets]
           d == ClearOldProbe(b)
<1>1. r \in PcbRecord /\ r.ready \in BOOLEAN
  BY DEF Good, PcbRecord
<1>2. /\ c \in PcbRecord /\ (c.ready <=> r.ready) /\ (c.probe_ip <=> r.probe_ip)
      /\ (c.probe_running <=> r.probe_running) /\ c.probe_services = r.probe_services
      /\ c.state = r.state
  BY <1>1, ReaskedKeeps
<1>3. /\ ~b.ready => q = b
      /\ b.ready => q = InitPcbProbe(d, S, TRUE, TRUE, host)
  BY DEF ProbedAll
<1> HIDE DEF c
<1>4. b \in PcbRecord /\ SameButTx(b, c) /\ Live(b) = {}
  BY <1>2, Cleared
<1> HIDE DEF b
<1>5. b.ready <=> r.ready
  BY <1>2, <1>4 DEF SameButTx
<1>6. CASE ~b.ready
  <2>1. q = b
    BY <1>3, <1>6
  <2>2. ~w => Quiet(q) /\ Refers(q, S)
    BY <1>2, <1>4, <1>6, <2>1 DEF Good, Quiet, Refers, SameButTx
  <2>3. Alone(q)
    BY <1>4, <2>1 DEF Alone
  <2> QED BY <1>2, <1>4, <1>6, <2>1, <2>2, <2>3 DEF Good, SameButTx, Kept
<1>7. CASE b.ready
  <2>1. d \in PcbRecord /\ (d.ready <=> b.ready) /\ d.probe_services = {}
    BY <1>4, ClearedOldProbe
  <2>2. q = InitPcbProbe(d, S, TRUE, TRUE, host)
    BY <1>3, <1>7
  <2> HIDE DEF d
  <2>3. Starts(q, d, S, TRUE)
    BY <2>1, <2>2, ProbeStarts
  <2>4. \A n \in (S \ O) \cup {SelfHost} :
          n \in NamesIn(S \cup d.probe_services, TRUE \/ d.probe_ip)
    BY DEF NamesIn
  <2>5. Good(q, w, S, O, TRUE)
    BY <1>7, <2>1, <2>3, <2>4, ProbeGood
  <2>6. (q.ready <=> d.ready) /\ q.state = PCB_PROBE_1
    BY <2>3 DEF Starts
  <2>7. q.state # PCB_DUP
    BY <2>6 DEF PCB_PROBE_1, PCB_DUP
  <2> QED BY <1>5, <1>7, <2>1, <2>5, <2>6, <2>7 DEF Kept
<1> QED BY <1>6, <1>7

\* After the instance is renamed, every open pcb probes for the services it names.
LEMMA RestartNoInstanceGood ==
  ASSUME NEW r, NEW w \in BOOLEAN, NEW S \in SUBSET Services, NEW O \in SUBSET Services,
         NEW h \in BOOLEAN, Good(r, w, S, O, h), NEW host \in Hosting,
         S \ O # {},
         NEW a \in Counts, a[SelfHost] = r.asked[SelfHost],
         NEW q, q = ProbedAfresh(Reasked(r, a), S \ O, h, host)
  PROVE  Good(q, w, S, O, h) /\ Kept(q, r)
<1> DEFINE b == Reasked(r, a)
           d == ClearOldProbe(b)
<1>1. r \in PcbRecord /\ r.ready \in BOOLEAN
  BY DEF Good, PcbRecord
<1>2. /\ b \in PcbRecord /\ (b.ready <=> r.ready) /\ (b.probe_ip <=> r.probe_ip)
      /\ (b.probe_running <=> r.probe_running) /\ b.probe_services = r.probe_services
      /\ b.state = r.state /\ b.tx = r.tx /\ b.asked = a
  BY <1>1, ReaskedKeeps
<1>3. /\ ~b.ready => q = b
      /\ b.ready => q = InitPcbProbe(d, S \ O, FALSE, h, host)
  BY DEF ProbedAfresh
<1> HIDE DEF b
<1>4. CASE ~b.ready
  <2>1. q = b /\ Live(b) = Live(r)
    BY <1>2, <1>3, <1>4 DEF Live
  <2>2. ~w => Quiet(q) /\ Refers(q, S)
    BY <1>2, <1>4, <2>1 DEF Good, Quiet, Refers
  <2>3. Alone(q)
    BY <1>2, <2>1 DEF Good, Alone, Probing
  <2> QED BY <1>2, <1>4, <2>1, <2>2, <2>3 DEF Good, Kept
<1>5. CASE b.ready
  <2>1. /\ d \in PcbRecord /\ (d.ready <=> b.ready) /\ (d.probe_ip <=> r.probe_ip)
        /\ ~d.probe_running /\ d.probe_services = {} /\ d.asked = a
    BY <1>2, ClearedOldProbe
  <2>2. q = InitPcbProbe(d, S \ O, FALSE, h, host)
    BY <1>3, <1>5
  <2> HIDE DEF d
  <2>3. CASE h = TRUE
    <3>1. q = InitPcbProbe(d, S \ O, FALSE, TRUE, host)
      BY <2>2, <2>3
    <3>2. Starts(q, d, S \ O, FALSE)
      BY <2>1, <3>1, ProbeStarts
    <3>3. ASSUME NEW n \in ((S \ O) \cup {SelfHost}) \ Twins
          PROVE  d.asked[n] = 3 \/ n \in NamesIn((S \ O) \cup d.probe_services, FALSE \/ d.probe_ip)
      <4>1. CASE n \in S \ O
        BY <4>1 DEF NamesIn
      <4>2. CASE n = SelfHost
        <5>1. r.asked[n] = 3 \/ n \in NamesIn(r.probe_services, r.probe_ip)
          BY <1>2, <1>5, <2>3, <4>2 DEF Good, Counted
        <5>2. SelfHost \notin r.probe_services
          BY <1>1, SelfHostAssumption DEF PcbRecord
        <5> QED BY <2>1, <4>2, <5>1, <5>2 DEF NamesIn
      <4> QED BY <3>3, <4>1, <4>2
    <3>4. Good(q, w, S, O, TRUE)
      <4> DEFINE X == S \ O
      <4>1. X \in SUBSET Services /\ d \in PcbRecord /\ Starts(q, d, X, FALSE)
        BY <2>1, <3>2
      <4>2. d.ready => \A n \in ((S \ O) \cup {SelfHost}) \ Twins :
              d.asked[n] = 3 \/ n \in NamesIn(X \cup d.probe_services, FALSE \/ d.probe_ip)
        BY <3>3
      <4>3. ~w => d.ready /\ X \cup d.probe_services \subseteq S
        BY <1>5, <2>1
      <4> HIDE DEF X
      <4> QED BY <4>1, <4>2, <4>3, ProbeGood
    <3>5. (q.ready <=> d.ready) /\ q.state = PCB_PROBE_1
      BY <3>2 DEF Starts
    <3>6. q.state # PCB_DUP
      BY <3>5 DEF PCB_PROBE_1, PCB_DUP
    <3>7. Kept(q, r)
      BY <1>2, <1>5, <2>1, <3>5, <3>6 DEF Kept
    <3> QED BY <2>3, <3>4, <3>7 DEF Good
  <2>4. CASE h = FALSE
    <3>1. q = InitPcbProbe(d, S \ O, FALSE, FALSE, host)
      BY <2>2, <2>4
    <3>2. Idle(q, d)
      BY <2>1, <3>1, UnnamedIdle
    <3>3. Good(q, w, S, O, FALSE)
      BY <1>5, <2>1, <3>2, IdleGood
    <3>4. (q.ready <=> d.ready) /\ q.state = PCB_RUNNING
      BY <3>2 DEF Idle
    <3>5. q.state # PCB_DUP
      BY <3>4 DEF PCB_RUNNING, PCB_DUP
    <3>6. Kept(q, r)
      BY <1>2, <1>5, <2>1, <3>4, <3>5 DEF Kept
    <3> QED BY <2>4, <3>3, <3>6 DEF Good
  <2> QED BY <2>3, <2>4
<1> QED BY <1>4, <1>5

\* A service that is new or has a new name is probed for besides what is probed for.
LEMMA ReprobeGood ==
  ASSUME NEW r, NEW w \in BOOLEAN, NEW S \in SUBSET Services, NEW O \in SUBSET Services,
         NEW h \in BOOLEAN, Good(r, w, S, O, h), NEW host \in Hosting,
         NEW S2 \in SUBSET Services, NEW O2 \in SUBSET Services, NEW s \in S2,
         S \subseteq S2, S2 \ (O2 \cup {s}) \subseteq S \ O,
         NEW a \in Counts, \A n \in Names \ {s} : a[n] = r.asked[n],
         NEW q, q = ProbedToo(Reasked(r, a), s, h, host)
  PROVE  Good(q, w, S2, O2, h) /\ Kept(q, r)
<1> DEFINE b == Reasked(r, a)
<1>1. r \in PcbRecord /\ r.ready \in BOOLEAN /\ s \in Services
  BY DEF Good, PcbRecord
<1>2. /\ b \in PcbRecord /\ (b.ready <=> r.ready) /\ (b.probe_ip <=> r.probe_ip)
      /\ (b.probe_running <=> r.probe_running) /\ b.probe_services = r.probe_services
      /\ b.state = r.state /\ b.tx = r.tx /\ b.asked = a
  BY <1>1, ReaskedKeeps
<1>3. /\ ~b.ready => q = b
      /\ b.ready => q = InitPcbProbe(b, {s}, FALSE, h, host)
  BY DEF ProbedToo
<1> HIDE DEF b
<1>4. CASE ~b.ready
  <2>1. q = b /\ Live(b) = Live(r)
    BY <1>2, <1>3, <1>4 DEF Live
  <2>2. ~w => Quiet(q) /\ Refers(q, S2)
    BY <1>2, <1>4, <2>1 DEF Good, Quiet, Refers
  <2>3. Alone(q)
    BY <1>2, <2>1 DEF Good, Alone, Probing
  <2> QED BY <1>2, <1>4, <2>1, <2>2, <2>3 DEF Good, Kept
<1>5. CASE b.ready
  <2>1. q = InitPcbProbe(b, {s}, FALSE, h, host)
    BY <1>3, <1>5
  <2>2. CASE h = TRUE
    <3>1. q = InitPcbProbe(b, {s}, FALSE, TRUE, host)
      BY <2>1, <2>2
    <3>2. Starts(q, b, {s}, FALSE)
      BY <1>1, <1>2, <3>1, ProbeStarts
    <3>3. ASSUME NEW n \in ((S2 \ O2) \cup {SelfHost}) \ Twins
          PROVE  b.asked[n] = 3 \/ n \in NamesIn({s} \cup b.probe_services, FALSE \/ b.probe_ip)
      <4>1. CASE n = s
        BY <4>1 DEF NamesIn
      <4>2. CASE n # s
        <5>1. n \in ((S \ O) \cup {SelfHost}) \ Twins /\ n \in Names
          BY <4>2 DEF Names
        <5>2. r.asked[n] = 3 \/ n \in NamesIn(r.probe_services, r.probe_ip)
          BY <1>2, <1>5, <2>2, <5>1 DEF Good, Counted
        <5> QED BY <1>2, <4>2, <5>1, <5>2 DEF NamesIn
      <4> QED BY <4>1, <4>2
    <3>4. ~w => {s} \cup b.probe_services \subseteq S2
      BY <1>2 DEF Good, Refers
    <3>5. Good(q, w, S2, O2, TRUE)
      <4> DEFINE X == {s}
      <4>1. X \in SUBSET Services /\ b \in PcbRecord /\ Starts(q, b, X, FALSE)
        BY <1>1, <1>2, <3>2
      <4>2. b.ready => \A n \in ((S2 \ O2) \cup {SelfHost}) \ Twins :
              b.asked[n] = 3 \/ n \in NamesIn(X \cup b.probe_services, FALSE \/ b.probe_ip)
        BY <3>3
      <4>3. ~w => b.ready /\ X \cup b.probe_services \subseteq S2
        BY <1>5, <3>4
      <4> HIDE DEF X
      <4> QED BY <4>1, <4>2, <4>3, ProbeGood, ZenonT(60)
    <3>6. (q.ready <=> b.ready) /\ q.state = PCB_PROBE_1
      BY <3>2 DEF Starts
    <3>7. q.state # PCB_DUP
      BY <3>6 DEF PCB_PROBE_1, PCB_DUP
    <3>8. Kept(q, r)
      BY <1>2, <1>5, <3>6, <3>7 DEF Kept
    <3> QED BY <2>2, <3>5, <3>8 DEF Good
  <2>3. CASE h = FALSE
    <3>1. q = InitPcbProbe(b, {s}, FALSE, FALSE, host)
      BY <2>1, <2>3
    <3>2. Idle(q, b)
      BY <1>2, <3>1, UnnamedIdle
    <3>3. ~w => b.probe_services = {} /\ ~b.probe_running
      BY <1>2, <1>5, <2>3 DEF Good, Fits
    <3>4. Good(q, w, S2, O2, FALSE)
      BY <1>5, <3>2, <3>3, IdleGood
    <3>5. (q.ready <=> b.ready) /\ q.state = PCB_RUNNING
      BY <3>2 DEF Idle
    <3>6. q.state # PCB_DUP
      BY <3>5 DEF PCB_RUNNING, PCB_DUP
    <3>7. Kept(q, r)
      BY <1>2, <1>5, <3>5, <3>6 DEF Kept
    <3> QED BY <2>3, <3>4, <3>7 DEF Good
  <2> QED BY <2>2, <2>3
<1> QED BY <1>4, <1>5

------------------------------------------------------------------------------
(* The invariant, from every pcb to all of them.                           *)

\* What is not the state of a pcb.
RestOK ==
  /\ services \in SUBSET Services /\ ownInstance \in SUBSET Services
  /\ hostOf \in Hosting
  /\ hostname \in BOOLEAN /\ instance \in BOOLEAN
  /\ hosts \in SUBSET Delegated
  /\ heard \subseteq Pcbs /\ woken \subseteq heard
  /\ inputs \in 0 .. MaxInputs

GoodAt(p) == Good(pcb[p], p \in woken, services, ownInstance, hostname)

\* The invariant, one pcb at a time.
LEMMA InvParts == IInv => RestOK /\ (\A p \in Pcbs : GoodAt(p)) /\ DupInv
  BY DEF IInv, TypeOK, PcbInv, RestOK, GoodAt, Hosting

AllGood == pcb = [p \in Pcbs |-> pcb[p]] /\ \A p \in Pcbs : GoodAt(p)

\* The same the other way.
LEMMA InvWhole == RestOK /\ AllGood /\ DupInv => IInv
<1> SUFFICES ASSUME RestOK, pcb = [p \in Pcbs |-> pcb[p]], \A p \in Pcbs : GoodAt(p), DupInv
             PROVE  IInv
  BY DEF AllGood
<1>1. \A p \in Pcbs : pcb[p] \in PcbRecord
  BY DEF GoodAt, Good
<1>2. pcb \in [Pcbs -> PcbRecord]
  BY <1>1
<1>3. TypeOK
  BY <1>2 DEF RestOK, TypeOK, Hosting
<1> QED BY <1>3 DEF IInv, PcbInv, GoodAt

\* An open pcb is past PCB_DUP.
LEMMA ReadyActive ==
  ASSUME NEW p, GoodAt(p), pcb[p].ready
  PROVE  pcb[p].state # PCB_DUP
<1>1. Carried(pcb[p])
  BY DEF GoodAt, Good
<1> QED BY <1>1 DEF Carried, PCB_PROBE_1, PCB_DUP

\* The other interface's pcb is one of ours.
LEMMA TwinPcb ==
  ASSUME NEW p \in Pcbs, Duplicate[p[1]] \in Interfaces
  PROVE  <<Duplicate[p[1]], p[2]>> \in Pcbs
  BY DEF Pcbs

\* What keeps state and readiness keeps duplicates covered.
LEMMA KeptDup == DupInv /\ (\A p \in Pcbs : Kept(pcb'[p], pcb[p])) => DupInv'
<1> SUFFICES ASSUME DupInv, \A p \in Pcbs : Kept(pcb'[p], pcb[p]),
                    NEW p \in Pcbs, pcb'[p].state = PCB_DUP
             PROVE  Duplicate[p[1]] \in Interfaces /\ pcb'[<<Duplicate[p[1]], p[2]>>].ready
  BY DEF DupInv
<1>1. Duplicate[p[1]] \in Interfaces /\ pcb[<<Duplicate[p[1]], p[2]>>].ready
  BY DEF DupInv, Kept
<1> QED BY <1>1, TwinPcb DEF Kept

\* A step that opens and closes no pcb.
LEMMA StepInv ==
  ASSUME IInv, RestOK', pcb' = [p \in Pcbs |-> pcb'[p]],
         \A p \in Pcbs : GoodAt(p)' /\ Kept(pcb'[p], pcb[p])
  PROVE  IInv'
<1>1. DupInv'
  BY InvParts, KeptDup
<1>2. AllGood'
  BY DEF AllGood
<1> QED BY <1>1, <1>2, InvWhole, PTL

\* The invariant holds before any interface is up.
LEMMA InitInv == Init => IInv
<1> SUFFICES ASSUME Init PROVE IInv
  OBVIOUS
<1>1. RestOK
  <2>1. hostOf \in Hosting
    BY DEF Init, Hosting, AllHosts
  <2>2. inputs \in 0 .. MaxInputs
    BY InputsAssumption DEF Init
  <2>3. services = {} /\ ownInstance = {} /\ hosts = {} /\ heard = {} /\ woken = {}
        /\ hostname \in BOOLEAN /\ instance \in BOOLEAN
    BY DEF Init
  <2> QED BY <2>1, <2>2, <2>3 DEF RestOK
<1>2. ASSUME NEW p \in Pcbs
      PROVE  GoodAt(p) /\ pcb[p].state # PCB_DUP
  <2>1. pcb[p] = Closed /\ (p \in woken <=> FALSE) /\ hostname = FALSE
    BY DEF Init
  <2>2. /\ Live(Closed) = {} /\ ~Closed.ready
        /\ Closed.probe_services = {} /\ ~Closed.probe_running /\ Closed.state = PCB_OFF
    BY DEF Closed, Live, NoPackets
  <2>3. Closed \in PcbRecord
    <3>1. PCB_OFF \in PCB_OFF .. PCB_RUNNING
      BY DEF PCB_OFF, PCB_RUNNING
    <3> HIDE DEF PCB_OFF, PCB_RUNNING
    <3>2. NoPackets \in [Slots -> Packet \cup {NoPacket}]
      BY DEF NoPackets
    <3>3. [n \in Names |-> 0] \in [Names -> 0 .. 3]
      OBVIOUS
    <3> QED BY <3>1, <3>2, <3>3 DEF Closed, PcbRecord
  <2>4. ~Probing(Closed) /\ Closed.state # PCB_DUP
    BY <2>2 DEF Probing, PCB_OFF, PCB_DUP, PCB_PROBE_1, PCB_PROBE_3
  <2>5. Quiet(Closed) /\ Refers(Closed, services) /\ Alone(Closed)
    BY <2>2, <2>4 DEF Quiet, Refers, Alone
  <2>6. Good(Closed, p \in woken, services, ownInstance, hostname)
    BY <2>2, <2>3, <2>4, <2>5 DEF Good
  <2> QED BY <2>1, <2>4, <2>6 DEF GoodAt
<1>3. pcb = [p \in Pcbs |-> pcb[p]]
  BY DEF Init
<1>4. DupInv
  BY <1>2 DEF DupInv
<1> QED BY <1>1, <1>2, <1>3, <1>4, InvWhole DEF AllGood

------------------------------------------------------------------------------
(* The steps that probe everywhere.                                        *)

\* The names in N have not been probed for.
Forgotten(r, N) == [n \in Names |-> IF n \in N THEN 0 ELSE r.asked[n]]

\* Forgetting the questions for some names leaves the counts for the others.
LEMMA ForgottenCounts ==
  ASSUME NEW r \in PcbRecord, NEW N
  PROVE  /\ Forgotten(r, N) \in Counts
         /\ \A n \in Names \ N : Forgotten(r, N)[n] = r.asked[n]
  BY DEF Forgotten, Counts, PcbRecord

\* What a renaming does to one pcb.
LEMMA RenamedAt ==
  ASSUME NEW N, NEW p \in Pcbs
  PROVE  Renamed(pcb, N)[p] = Reasked(pcb[p], Forgotten(pcb[p], N))
  BY DEF Renamed, Reasked, Forgotten

\* All pcbs probe anew under the new host name.
LEMMA RestartAllInv ==
  ASSUME IInv, RestOK', NEW N, pcb' = RestartAllPcbs(Renamed(pcb, N)),
         services' = services, ownInstance' = ownInstance, woken' = woken, hostname' = TRUE
  PROVE  IInv'
<1>1. RestOK /\ (\A p \in Pcbs : GoodAt(p))
  BY InvParts
<1>2. pcb' = [p \in Pcbs |-> pcb'[p]]
  BY DEF RestartAllPcbs, ProbeAllPcbs
<1>3. ASSUME NEW p \in Pcbs
      PROVE  GoodAt(p)' /\ Kept(pcb'[p], pcb[p])
  <2> DEFINE w == p \in woken
             r == pcb[p]
             a == Forgotten(r, N)
  <2>1. Good(r, w, services, ownInstance, hostname) /\ r \in PcbRecord
    BY <1>1 DEF GoodAt, Good
  <2>2. a \in Counts
    BY <2>1, ForgottenCounts
  <2>3. pcb'[p] = ProbedAll(Reasked(r, a), services, hostOf)
    <3>1. Renamed(pcb, N)[p] = Reasked(r, a)
      BY RenamedAt
    <3> QED BY <3>1 DEF RestartAllPcbs, ProbeAllPcbs, ProbedAll
  <2>4. w \in BOOLEAN /\ (w <=> p \in woken)
    OBVIOUS
  <2> HIDE DEF w, r, a
  <2>5. Good(pcb'[p], w, services, ownInstance, TRUE) /\ Kept(pcb'[p], r)
    <3>1. services \in SUBSET Services /\ ownInstance \in SUBSET Services
          /\ hostOf \in Hosting /\ hostname \in BOOLEAN
      BY <1>1 DEF RestOK
    <3> QED BY <2>1, <2>2, <2>3, <2>4, <3>1, RestartGood, Zenon
  <2>6. Good(pcb'[p], p \in woken', services', ownInstance', hostname')
    BY <2>4, <2>5 DEF Good
  <2> QED BY <2>5, <2>6 DEF GoodAt, r
<1> QED BY <1>2, <1>3, StepInv

\* All pcbs probe anew under the new instance name.
LEMMA RestartNoInstanceInv ==
  ASSUME IInv, RestOK', pcb' = RestartAllPcbsNoInstance(Renamed(pcb, WithoutInstance)),
         services' = services, ownInstance' = ownInstance, woken' = woken,
         hostname' = hostname
  PROVE  IInv'
<1> DEFINE N == WithoutInstance
<1>1. RestOK /\ (\A p \in Pcbs : GoodAt(p))
  BY InvParts
<1>2. pcb' = [p \in Pcbs |-> pcb'[p]]
  BY DEF RestartAllPcbsNoInstance, ProbeAllPcbs, Renamed
<1>3. ASSUME NEW p \in Pcbs
      PROVE  GoodAt(p)' /\ Kept(pcb'[p], pcb[p])
  <2> DEFINE w == p \in woken
             r == pcb[p]
             a == Forgotten(r, N)
  <2>1. Good(r, w, services, ownInstance, hostname) /\ r \in PcbRecord
    BY <1>1 DEF GoodAt, Good
  <2>2. a \in Counts /\ \A n \in Names \ N : a[n] = r.asked[n]
    BY <2>1, ForgottenCounts
  <2>3. Renamed(pcb, N)[p] = Reasked(r, a)
    BY RenamedAt
  <2>4. w \in BOOLEAN /\ (w <=> p \in woken)
    OBVIOUS
  <2>5. CASE N = {}
    <3>1. pcb'[p] = Reasked(r, a)
      BY <2>3, <2>5 DEF RestartAllPcbsNoInstance
    <3>2. a = r.asked
      BY <2>1, <2>5 DEF Forgotten, PcbRecord
    <3> HIDE DEF w, r, a
    <3>3. pcb'[p] = r
      BY <2>1, <3>1, <3>2 DEF Reasked, PcbRecord
    <3>4. Good(r, w, services', ownInstance', hostname')
      BY <2>1
    <3> QED BY <2>4, <3>3, <3>4 DEF GoodAt, Kept, r, w
  <2>6. CASE N # {}
    <3>1. pcb'[p] = ProbedAfresh(Reasked(r, a), services \ ownInstance, hostname, hostOf)
      <4>1. pcb'[p] = ProbeAllPcbs(Renamed(pcb, N), N, FALSE, TRUE, hostname, hostOf)[p]
        BY <2>6 DEF RestartAllPcbsNoInstance
      <4> QED BY <2>3, <4>1 DEF ProbeAllPcbs, ProbedAfresh, WithoutInstance
    <3>2. a[SelfHost] = r.asked[SelfHost]
      BY <1>1, <2>2, SelfHostAssumption DEF RestOK, Names, WithoutInstance
    <3>3. services \ ownInstance # {}
      BY <2>6 DEF WithoutInstance
    <3> HIDE DEF w, r, a, N
    <3>4. Good(pcb'[p], w, services, ownInstance, hostname) /\ Kept(pcb'[p], r)
      BY <1>1, <2>1, <2>2, <2>4, <3>1, <3>2, <3>3, RestartNoInstanceGood DEF RestOK
    <3>5. Good(pcb'[p], w, services', ownInstance', hostname')
      BY <3>4
    <3> QED BY <3>4, <3>5 DEF GoodAt, r, w
  <2> QED BY <2>5, <2>6
<1> QED BY <1>2, <1>3, StepInv

\* All pcbs probe for one service.
LEMMA ReprobeInv ==
  ASSUME IInv, RestOK', NEW s, NEW host \in Hosting,
         pcb' = ProbeAllPcbs(Renamed(pcb, {s}), {s}, FALSE, FALSE, hostname, host),
         s \in services', services \subseteq services',
         services' \ (ownInstance' \cup {s}) \subseteq services \ ownInstance,
         woken' = woken, hostname' = hostname
  PROVE  IInv'
<1>1. RestOK /\ (\A p \in Pcbs : GoodAt(p))
  BY InvParts
<1>2. pcb' = [p \in Pcbs |-> pcb'[p]]
  BY DEF ProbeAllPcbs
<1>3. ASSUME NEW p \in Pcbs
      PROVE  GoodAt(p)' /\ Kept(pcb'[p], pcb[p])
  <2> DEFINE w == p \in woken
             r == pcb[p]
             a == Forgotten(r, {s})
  <2>1. Good(r, w, services, ownInstance, hostname) /\ r \in PcbRecord
    BY <1>1 DEF GoodAt, Good
  <2>2. a \in Counts /\ \A n \in Names \ {s} : a[n] = r.asked[n]
    BY <2>1, ForgottenCounts
  <2>3. pcb'[p] = ProbedToo(Reasked(r, a), s, hostname, host)
    <3>1. Renamed(pcb, {s})[p] = Reasked(r, a)
      BY RenamedAt
    <3> QED BY <3>1 DEF ProbeAllPcbs, ProbedToo
  <2>4. w \in BOOLEAN /\ (w <=> p \in woken)
    OBVIOUS
  <2> HIDE DEF w, r, a
  <2>5. Good(pcb'[p], w, services', ownInstance', hostname) /\ Kept(pcb'[p], r)
    <3>1. services \in SUBSET Services /\ ownInstance \in SUBSET Services
          /\ hostname \in BOOLEAN
      BY <1>1 DEF RestOK
    <3> DEFINE S2 == services'
               O2 == ownInstance'
               q == pcb'[p]
    <3>2. /\ S2 \in SUBSET Services /\ O2 \in SUBSET Services /\ s \in S2
          /\ services \subseteq S2 /\ S2 \ (O2 \cup {s}) \subseteq services \ ownInstance
      BY DEF RestOK
    <3>3. q = ProbedToo(Reasked(r, a), s, hostname, host)
      BY <2>3
    <3> HIDE DEF S2, O2, q
    <3>4. Good(q, w, S2, O2, hostname) /\ Kept(q, r)
      BY <2>1, <2>2, <2>4, <3>1, <3>2, <3>3, ReprobeGood
    <3> QED BY <3>4 DEF q, S2, O2
  <2>6. Good(pcb'[p], w, services', ownInstance', hostname')
    BY <2>5
  <2> QED BY <2>5, <2>6 DEF GoodAt, r, w
<1> QED BY <1>2, <1>3, StepInv

------------------------------------------------------------------------------
(* The steps of one pcb.                                                   *)

GoodFor(q, p) == Good(q, p \in woken, services, ownInstance, hostname)

\* Nothing of what is good depends on when.
LEMMA GoodLater ==
  ASSUME NEW p, GoodFor(pcb'[p], p), services' = services, ownInstance' = ownInstance,
         woken' = woken, hostname' = hostname
  PROVE  GoodAt(p)'
  BY DEF GoodFor, GoodAt

\* One pcb announces.
LEMMA AnnouncedFor ==
  ASSUME RestOK, NEW p \in Pcbs, GoodAt(p), Live(pcb[p]) # Slots,
         NEW X \in SUBSET services, NEW ip \in BOOLEAN, X # {} \/ ip, NEW k \in Slots,
         NEW q, q = AnnouncePcb(pcb[p], X, ip, hostOf, k)
  PROVE  GoodFor(q, p) /\ Kept(q, pcb[p])
<1> DEFINE w == p \in woken
           r == pcb[p]
<1>1. Good(r, w, services, ownInstance, hostname) /\ Live(r) # Slots
  BY DEF GoodAt
<1>2. w \in BOOLEAN
  OBVIOUS
<1>3. q = AnnouncePcb(r, X, ip, hostOf, k)
  OBVIOUS
<1>4. services \in SUBSET Services /\ ownInstance \in SUBSET Services
      /\ hostOf \in Hosting /\ hostname \in BOOLEAN
  BY DEF RestOK
<1> HIDE DEF w, r
<1>5. Good(q, w, services, ownInstance, hostname)
      /\ (q.ready <=> r.ready) /\ (q.state = PCB_DUP <=> r.state = PCB_DUP)
  BY <1>1, <1>2, <1>3, <1>4, AnnounceGood
<1> QED BY <1>5 DEF GoodFor, Kept, w, r

\* One pcb is opened.
LEMMA EnabledFor ==
  ASSUME RestOK, NEW p \in Pcbs, NEW r, GoodFor(r, p), NEW q, q = Enabled(r)
  PROVE  GoodFor(q, p) /\ q.ready /\ q.state # PCB_DUP
<1> DEFINE w == p \in woken
<1>1. Good(r, w, services, ownInstance, hostname)
  BY DEF GoodFor
<1>2. w \in BOOLEAN
  OBVIOUS
<1>3. services \in SUBSET Services /\ ownInstance \in SUBSET Services
      /\ hostOf \in Hosting /\ hostname \in BOOLEAN
  BY DEF RestOK
<1> HIDE DEF w
<1>4. Good(q, w, services, ownInstance, hostname) /\ q.ready /\ q.state # PCB_DUP
  BY <1>1, <1>2, <1>3, EnabledGood
<1> QED BY <1>4 DEF GoodFor, w

\* One pcb is closed, or held back as a duplicate.
LEMMA ClosedFor ==
  ASSUME RestOK, NEW p \in Pcbs, NEW r, GoodFor(r, p), NEW v \in {PCB_OFF, PCB_DUP},
         NEW q, q = ClosedAs(r, v)
  PROVE  GoodFor(q, p) /\ ~q.ready /\ q.state = v
<1> DEFINE w == p \in woken
<1>1. Good(r, w, services, ownInstance, hostname)
  BY DEF GoodFor
<1>2. w \in BOOLEAN
  OBVIOUS
<1>3. services \in SUBSET Services /\ ownInstance \in SUBSET Services /\ hostname \in BOOLEAN
  BY DEF RestOK
<1> HIDE DEF w
<1>4. Good(q, w, services, ownInstance, hostname) /\ ~q.ready /\ q.state = v
  BY <1>1, <1>2, <1>3, CloseGood
<1> QED BY <1>4 DEF GoodFor, w

\* All announce what is new about a service.
LEMMA AnnounceAllInv ==
  ASSUME IInv, RestOK', Input, NEW s \in services, NEW ip \in BOOLEAN, NEW due \in Due,
         pcb' = AnnounceAllPcbs({s}, ip, due),
         services' = services, ownInstance' = ownInstance, woken' = woken, hostname' = hostname
  PROVE  IInv'
<1>1. pcb' = [p \in Pcbs |-> pcb'[p]]
  BY DEF AnnounceAllPcbs
<1>2. ASSUME NEW p \in Pcbs
      PROVE  GoodAt(p)' /\ Kept(pcb'[p], pcb[p])
  <2> DEFINE X == {s}
             k == due[p]
             q == pcb'[p]
  <2>1. RestOK /\ GoodAt(p)
    BY InvParts
  <2>2. Live(pcb[p]) # Slots
    BY DEF Input
  <2>3. X \in SUBSET services /\ X # {} /\ k \in Slots
    BY DEF Due
  <2>4. q = AnnouncePcb(pcb[p], X, ip, hostOf, k)
    BY DEF AnnounceAllPcbs
  <2> HIDE DEF X, k, q
  <2>5. GoodFor(q, p) /\ Kept(q, pcb[p])
    BY <2>1, <2>2, <2>3, <2>4, AnnouncedFor
  <2> QED BY <2>5, GoodLater DEF q
<1> QED BY <1>1, <1>2, StepInv

\* Services are removed from every pcb.
LEMMA RemoveInv ==
  ASSUME IInv, NEW S \in SUBSET services, RemoveServices(S),
         woken' = woken, hostname' = hostname, instance' = instance, hosts' \in SUBSET Delegated,
         heard' = heard, inputs' \in 0 .. MaxInputs
  PROVE  IInv'
<1>1. RestOK /\ (\A p \in Pcbs : GoodAt(p))
  BY InvParts
<1>2. /\ services' = services \ S /\ ownInstance' = ownInstance \ S
  BY DEF RemoveServices
<1>6. PICK freed \in [Pcbs -> SUBSET Services] :
        /\ \A p \in Pcbs : freed[p] \in FreedQuestions(pcb[p], S)
        /\ pcb' = [p \in Pcbs |-> RemoveFromPcb(pcb[p], S, freed[p])]
  BY DEF RemoveServices
<1>3. RestOK'
  <2>1. hostOf' \in Hosting
    BY <1>1 DEF RemoveServices, RestOK, Hosting, AllHosts
  <2>2. services' \in SUBSET Services /\ ownInstance' \in SUBSET Services
    BY <1>1, <1>2 DEF RestOK
  <2> QED BY <1>1, <2>1, <2>2 DEF RestOK
<1>4. pcb' = [p \in Pcbs |-> pcb'[p]]
  BY <1>6
<1>5. ASSUME NEW p \in Pcbs
      PROVE  GoodAt(p)' /\ Kept(pcb'[p], pcb[p])
  <2> DEFINE w == p \in woken
             r == pcb[p]
             q == pcb'[p]
             Q == freed[p]
  <2>1. Good(r, w, services, ownInstance, hostname)
    BY <1>1 DEF GoodAt
  <2>2. w \in BOOLEAN
    OBVIOUS
  <2>3. services \in SUBSET Services /\ ownInstance \in SUBSET Services /\ hostname \in BOOLEAN
    BY <1>1 DEF RestOK
  <2> DEFINE S2 == services'
             O2 == ownInstance'
  <2>4. Removed(S2, O2, services, ownInstance, S, q, r, Q)
    BY <1>2, <1>6 DEF Removed
  <2> HIDE DEF w, r, q, Q, S2, O2
  <2>5. Good(q, w, S2, O2, hostname)
        /\ (q.ready <=> r.ready) /\ (q.state = PCB_DUP <=> r.state = PCB_DUP)
    <3>1. \A v \in BOOLEAN, h \in BOOLEAN :
            Good(r, v, services, ownInstance, h) =>
              \A T, P, freeing, c : Removed(T, P, services, ownInstance, S, c, r, freeing) =>
                Good(c, v, T, P, h) /\ (c.ready <=> r.ready)
                  /\ (c.state = PCB_DUP <=> r.state = PCB_DUP)
      BY <2>3, RemoveGood, SMTT(60)
    <3>2. \A T, P, freeing, c : Removed(T, P, services, ownInstance, S, c, r, freeing) =>
                Good(c, w, T, P, hostname) /\ (c.ready <=> r.ready)
                  /\ (c.state = PCB_DUP <=> r.state = PCB_DUP)
      BY <2>1, <2>2, <2>3, <3>1
    <3> QED BY <2>4, <3>2
  <2>6. Good(q, w, S2, O2, hostname')
    BY <2>5
  <2> QED BY <2>5, <2>6 DEF GoodAt, Kept, w, r, q, S2, O2
<1> QED BY <1>3, <1>4, <1>5, StepInv

\* A pcb that changes alone, and is opened or closed by none of it.
LEMMA OneInv ==
  ASSUME IInv, RestOK', NEW p \in Pcbs, NEW q, pcb' = [pcb EXCEPT ![p] = q],
         GoodFor(q, p), Kept(q, pcb[p]),
         services' = services, ownInstance' = ownInstance, woken' = woken, hostname' = hostname
  PROVE  IInv'
<1>1. pcb \in [Pcbs -> PcbRecord] /\ (\A x \in Pcbs : GoodAt(x))
  BY InvParts DEF IInv, TypeOK
<1>2. pcb' = [x \in Pcbs |-> pcb'[x]] /\ pcb'[p] = q /\ \A x \in Pcbs \ {p} : pcb'[x] = pcb[x]
  BY <1>1
<1>3. ASSUME NEW x \in Pcbs
      PROVE  GoodAt(x)' /\ Kept(pcb'[x], pcb[x])
  <2>1. CASE x = p
    BY <1>2, <2>1, GoodLater
  <2>2. CASE x # p
    BY <1>1, <1>2, <2>2 DEF GoodAt, Kept
  <2> QED BY <2>1, <2>2
<1> QED BY <1>2, <1>3, StepInv

\* A collision starts a probe on a pcb, open or not.
LEMMA ProbeHereInv ==
  ASSUME IInv, RestOK', NEW p \in Pcbs, NEW S \in SUBSET services, NEW ip \in BOOLEAN,
         S # {} \/ ip, hostname, ProbeHere(p, S, ip),
         services' = services, ownInstance' = ownInstance, hostname' = hostname
  PROVE  IInv'
<1>1. RestOK /\ (\A x \in Pcbs : GoodAt(x)) /\ pcb \in [Pcbs -> PcbRecord]
  BY InvParts DEF IInv, TypeOK
<1> DEFINE r == pcb[p]
           w == p \in woken'
           q == pcb'[p]
<1>2. /\ q = InitPcbProbe(r, S, ip, TRUE, hostOf)
      /\ pcb' = [x \in Pcbs |-> pcb'[x]] /\ \A x \in Pcbs \ {p} : pcb'[x] = pcb[x]
      /\ \A x \in Pcbs \ {p} : x \in woken' <=> x \in woken
      /\ p \in woken => w
      /\ w \/ r.ready
  BY <1>1 DEF ProbeHere
<1>3. r \in PcbRecord
  BY <1>1
<1>4. Good(r, w, services, ownInstance, hostname) /\ w \in BOOLEAN
  <2>1. Good(r, p \in woken, services, ownInstance, hostname)
    BY <1>1 DEF GoodAt
  <2>2. w \in BOOLEAN
    OBVIOUS
  <2> HIDE DEF r, w
  <2> QED BY <1>2, <2>1, <2>2 DEF Good
<1>5. services \in SUBSET Services /\ ownInstance \in SUBSET Services
      /\ hostOf \in Hosting /\ hostname \in BOOLEAN
  BY <1>1 DEF RestOK
<1> HIDE DEF r, w, q
<1>6. Starts(q, r, S, ip)
  <2>1. S \in SUBSET Services
    BY <1>5
  <2> QED BY <1>2, <1>3, <1>5, <2>1, ProbeStarts
<1>7. Good(q, w, services, ownInstance, hostname)
  BY <1>2, <1>4, <1>5, <1>6, ProbeAgainGood
<1>8. (q.ready <=> r.ready) /\ q.state = PCB_PROBE_1
  BY <1>6 DEF Starts
<1>9. q.state # PCB_DUP
  BY <1>8 DEF PCB_PROBE_1, PCB_DUP
<1>10. GoodAt(p)' /\ Kept(pcb'[p], pcb[p])
  BY <1>7, <1>8, <1>9 DEF GoodAt, Kept, q, w, r
<1>11. ASSUME NEW x \in Pcbs, x # p
       PROVE  GoodAt(x)' /\ Kept(pcb'[x], pcb[x])
  <2>1. pcb'[x] = pcb[x] /\ (x \in woken' <=> x \in woken) /\ GoodAt(x)
    BY <1>1, <1>2, <1>11
  <2> QED BY <2>1 DEF GoodAt, Good, Kept
<1>12. \A x \in Pcbs : GoodAt(x)' /\ Kept(pcb'[x], pcb[x])
  BY <1>10, <1>11
<1> QED BY <1>2, <1>12, StepInv

------------------------------------------------------------------------------
(* The steps of the interfaces.                                            *)

\* The action _mdns_enable_pcb.
LEMMA EnableInv ==
  ASSUME IInv, RestOK', NEW p \in Pcbs, pcb' = [pcb EXCEPT ![p] = Enabled(@)],
         services' = services, ownInstance' = ownInstance, woken' = woken, hostname' = hostname
  PROVE  IInv'
<1>1. RestOK /\ (\A x \in Pcbs : GoodAt(x)) /\ DupInv /\ pcb \in [Pcbs -> PcbRecord]
  BY InvParts DEF IInv, TypeOK
<1> DEFINE r == pcb[p]
           q == pcb'[p]
<1>2. /\ q = Enabled(r)
      /\ pcb' = [x \in Pcbs |-> pcb'[x]] /\ \A x \in Pcbs \ {p} : pcb'[x] = pcb[x]
  BY <1>1
<1>3. GoodFor(r, p)
  BY <1>1 DEF GoodAt, GoodFor
<1> HIDE DEF r, q
<1>4. GoodFor(q, p) /\ q.ready /\ q.state # PCB_DUP
  BY <1>1, <1>2, <1>3, EnabledFor
<1>5. ASSUME NEW x \in Pcbs
      PROVE  GoodAt(x)'
  <2>1. CASE x = p
    BY <1>4, <2>1, GoodLater DEF q
  <2>2. CASE x # p
    BY <1>1, <1>2, <2>2 DEF GoodAt
  <2> QED BY <2>1, <2>2
<1>6. DupInv'
  <2> SUFFICES ASSUME NEW x \in Pcbs, pcb'[x].state = PCB_DUP
               PROVE  Duplicate[x[1]] \in Interfaces /\ pcb'[<<Duplicate[x[1]], x[2]>>].ready
    BY DEF DupInv
  <2>1. x # p
    BY <1>4 DEF q
  <2>2. Duplicate[x[1]] \in Interfaces /\ pcb[<<Duplicate[x[1]], x[2]>>].ready
    BY <1>1, <1>2, <2>1 DEF DupInv
  <2> DEFINE y == <<Duplicate[x[1]], x[2]>>
  <2>3. y \in Pcbs
    BY <2>2, TwinPcb
  <2> HIDE DEF y
  <2>4. pcb[y].ready
    BY <2>2 DEF y
  <2>5. pcb'[y].ready
    BY <1>2, <1>4, <2>3, <2>4 DEF q
  <2> QED BY <2>2, <2>5 DEF y
<1>7. AllGood'
  BY <1>2, <1>5 DEF AllGood
<1> QED BY <1>6, <1>7, InvWhole, PTL

\* The duplicate of the duplicate of an interface is the interface.
LEMMA TwinTwin ==
  ASSUME NEW x \in Pcbs, NEW p \in Pcbs, Duplicate[x[1]] \in Interfaces,
         <<Duplicate[x[1]], x[2]>> = p
  PROVE  x = <<Duplicate[p[1]], p[2]>> /\ x # p /\ Duplicate[p[1]] \in Interfaces
<1>1. x \in Interfaces \X Protos /\ x = <<x[1], x[2]>> /\ x[1] \in Interfaces
  BY DEF Pcbs
<1>2. p[1] = Duplicate[x[1]] /\ p[2] = x[2]
  OBVIOUS
<1>3. Duplicate[p[1]] = x[1] /\ p[1] # x[1]
  BY <1>1, <1>2, DuplicateAssumption
<1> QED BY <1>1, <1>2, <1>3

\* The action _mdns_disable_pcb, which opens a twin that was held back.
LEMMA DisableInv ==
  ASSUME IInv, RestOK', NEW p \in Pcbs, DisablePcb(p)
  PROVE  IInv'
<1>1. RestOK /\ (\A x \in Pcbs : GoodAt(x)) /\ DupInv /\ pcb \in [Pcbs -> PcbRecord]
  BY InvParts DEF IInv, TypeOK
<1>2. services' = services /\ ownInstance' = ownInstance /\ woken' = woken /\ hostname' = hostname
  BY DEF DisablePcb, registry
<1> DEFINE other == <<Duplicate[p[1]], p[2]>>
           q == ClosedAs(pcb[p], PCB_OFF)
           o == ClosedAs(pcb[other], PCB_OFF)
           takes == pcb[p].ready /\ other \in Pcbs /\ pcb[other].state = PCB_DUP
<1>3. GoodFor(q, p) /\ ~q.ready /\ q.state = PCB_OFF
  <2>1. GoodFor(pcb[p], p)
    BY <1>1 DEF GoodAt, GoodFor
  <2> QED BY <1>1, <2>1, ClosedFor
<1>4. PCB_OFF # PCB_DUP
  BY DEF PCB_OFF, PCB_DUP
<1>5. CASE ~takes
  <2>1. pcb' = [pcb EXCEPT ![p] = q]
    BY <1>5 DEF DisablePcb, ClosedAs
  <2>2. /\ pcb' = [x \in Pcbs |-> pcb'[x]] /\ pcb'[p] = q
        /\ \A x \in Pcbs \ {p} : pcb'[x] = pcb[x]
    BY <1>1, <2>1
  <2>3. ASSUME NEW x \in Pcbs
        PROVE  GoodAt(x)'
    <3>1. CASE x = p
      BY <1>2, <1>3, <2>2, <3>1, GoodLater
    <3>2. CASE x # p
      BY <1>1, <1>2, <2>2, <3>2 DEF GoodAt
    <3> QED BY <3>1, <3>2
  <2>4. DupInv'
    <3> SUFFICES ASSUME NEW x \in Pcbs, pcb'[x].state = PCB_DUP
                 PROVE  Duplicate[x[1]] \in Interfaces /\ pcb'[<<Duplicate[x[1]], x[2]>>].ready
      BY DEF DupInv
    <3> DEFINE y == <<Duplicate[x[1]], x[2]>>
    <3>1. x # p /\ pcb[x].state = PCB_DUP
      BY <1>3, <1>4, <2>2
    <3>2. Duplicate[x[1]] \in Interfaces /\ pcb[y].ready /\ y \in Pcbs
      BY <1>1, <3>1, TwinPcb DEF DupInv
    <3>3. y # p
      <4> SUFFICES ASSUME y = p PROVE FALSE
        OBVIOUS
      <4>1. x = other
        BY <3>2, TwinTwin
      <4> QED BY <1>5, <3>1, <3>2, <4>1
    <3>4. pcb'[y].ready
      BY <2>2, <3>2, <3>3
    <3> QED BY <3>2, <3>4
  <2>5. AllGood'
    BY <2>2, <2>3 DEF AllGood
  <2> QED BY <2>4, <2>5, InvWhole, PTL
<1>6. CASE takes
  <2>1. other \in Pcbs /\ GoodAt(other) /\ pcb[other].state = PCB_DUP /\ pcb[p].ready
    BY <1>1, <1>6
  <2>2. ~pcb[other].ready /\ other # p
    BY <1>1, <2>1, ReadyActive
  <2>3. o = [pcb[other] EXCEPT !.state = PCB_OFF]
    BY <2>2 DEF ClosedAs, Close
  <2>4. GoodFor(o, other) /\ o.state # PCB_DUP
    <3>1. GoodFor(pcb[other], other)
      BY <2>1 DEF GoodAt, GoodFor
    <3> QED BY <1>1, <1>4, <2>1, <3>1, ClosedFor
  <2>5. PICK opened \in BOOLEAN :
          pcb' = [[pcb EXCEPT ![p] = q] EXCEPT
                    ![other] = IF opened THEN Enabled([@ EXCEPT !.state = PCB_OFF])
                               ELSE [@ EXCEPT !.state = PCB_OFF]]
    BY <1>6 DEF DisablePcb, ClosedAs
  <2> DEFINE n == IF opened THEN Enabled(o) ELSE o
  <2>6. /\ pcb' = [x \in Pcbs |-> pcb'[x]] /\ pcb'[p] = q /\ pcb'[other] = n
        /\ \A x \in Pcbs \ {p, other} : pcb'[x] = pcb[x]
    <3>1. [pcb EXCEPT ![p] = q][other] = pcb[other]
      BY <1>1, <2>1, <2>2
    <3> HIDE DEF other, q, o
    <3> QED BY <1>1, <2>1, <2>2, <2>3, <2>5, <3>1
  <2>7. GoodFor(n, other) /\ n.state # PCB_DUP
    <3>1. CASE opened
      <4>1. n = Enabled(o)
        BY <3>1
      <4> HIDE DEF n, o, other
      <4> QED BY <1>1, <2>1, <2>4, <4>1, EnabledFor
    <3>2. CASE ~opened
      BY <2>4, <3>2
    <3> QED BY <3>1, <3>2
  <2> HIDE DEF n, q, o
  <2>8. ASSUME NEW x \in Pcbs
        PROVE  GoodAt(x)'
    <3>1. CASE x = p
      BY <1>2, <1>3, <2>6, <3>1, GoodLater
    <3>2. CASE x = other
      <4>1. GoodFor(pcb'[x], x)
        BY <2>6, <2>7, <3>2
      <4> QED BY <1>2, <4>1, GoodLater
    <3>3. CASE x # p /\ x # other
      BY <1>1, <1>2, <2>6, <3>3 DEF GoodAt
    <3> QED BY <3>1, <3>2, <3>3
  <2>9. DupInv'
    <3> SUFFICES ASSUME NEW x \in Pcbs, pcb'[x].state = PCB_DUP
                 PROVE  Duplicate[x[1]] \in Interfaces /\ pcb'[<<Duplicate[x[1]], x[2]>>].ready
      BY DEF DupInv
    <3> DEFINE y == <<Duplicate[x[1]], x[2]>>
    <3>1. x # p /\ x # other
      BY <1>3, <1>4, <2>6, <2>7
    <3>2. pcb[x].state = PCB_DUP
      BY <2>6, <3>1
    <3>3. Duplicate[x[1]] \in Interfaces /\ pcb[y].ready /\ y \in Pcbs
      BY <1>1, <3>2, TwinPcb DEF DupInv
    <3>4. y # p
      BY <3>1, <3>3, TwinTwin
    <3>5. y # other
      BY <2>2, <3>3
    <3> HIDE DEF y, other
    <3>6. pcb'[y].ready
      BY <2>6, <3>3, <3>4, <3>5
    <3> QED BY <3>3, <3>6 DEF y
  <2>10. AllGood'
    BY <2>6, <2>8 DEF AllGood
  <2> QED BY <2>9, <2>10, InvWhole, PTL
<1> QED BY <1>5, <1>6

\* An interface announces on request.
LEMMA AnnounceEventInv ==
  ASSUME IInv, RestOK', NEW p \in Pcbs, AnnounceEvent(p)
  PROVE  IInv'
<1>1. PICK due \in Due : pcb' = [pcb EXCEPT ![p] = AnnouncePcb(@, {}, TRUE, hostOf, due[p])]
  BY DEF AnnounceEvent
<1> DEFINE X == {}
           k == due[p]
           q == AnnouncePcb(pcb[p], X, TRUE, hostOf, k)
<1>2. RestOK /\ GoodAt(p) /\ pcb \in [Pcbs -> PcbRecord]
  BY InvParts DEF IInv, TypeOK
<1>3. Live(pcb[p]) # Slots
  BY DEF AnnounceEvent, Input
<1>4. X \in SUBSET services /\ k \in Slots
  BY DEF Due
<1>5. pcb' = [pcb EXCEPT ![p] = q]
  BY <1>1, <1>2
<1>6. GoodFor(q, p) /\ Kept(q, pcb[p])
  BY <1>2, <1>3, <1>4, AnnouncedFor
<1>7. services' = services /\ ownInstance' = ownInstance /\ woken' = woken /\ hostname' = hostname
  BY DEF AnnounceEvent, registry
<1> HIDE DEF q
<1> QED BY <1>5, <1>6, <1>7, OneInv

\* An interface that meets the other one on its link is held back.
LEMMA DupInterfaceInv ==
  ASSUME IInv, RestOK', NEW i \in Interfaces, DupInterface(i)
  PROVE  IInv'
<1> DEFINE other == Duplicate[i]
           both == {<<i, q>> : q \in {q \in Protos : pcb[<<other, q>>].ready}}
<1>1. RestOK /\ (\A x \in Pcbs : GoodAt(x)) /\ DupInv /\ pcb \in [Pcbs -> PcbRecord]
  BY InvParts DEF IInv, TypeOK
<1>2. /\ services' = services /\ ownInstance' = ownInstance /\ woken' = woken
      /\ hostname' = hostname /\ other \in Interfaces
  BY DEF DupInterface, registry
<1>3. \A p \in Pcbs : Live(pcb[p]) # Slots
  BY DEF DupInterface, Receive, Input
<1>4. PICK due \in Due :
        pcb' = [p \in Pcbs |->
                  IF p \in both THEN [Close(pcb[p]) EXCEPT !.state = PCB_DUP]
                  ELSE IF p[1] = other THEN AnnouncePcb(pcb[p], {}, TRUE, hostOf, due[p])
                  ELSE pcb[p]]
  BY DEF DupInterface
<1>5. pcb' = [p \in Pcbs |-> pcb'[p]]
  BY <1>4
<1>6. other # i /\ Duplicate[other] = i
  BY <1>2, DuplicateAssumption
<1>7. ASSUME NEW p \in Pcbs, p \in both
      PROVE  /\ pcb'[p].state = PCB_DUP /\ GoodFor(pcb'[p], p)
             /\ <<Duplicate[p[1]], p[2]>> \in Pcbs \ both /\ pcb[<<Duplicate[p[1]], p[2]>>].ready
             /\ Duplicate[p[1]] \in Interfaces
  <2>1. PICK q \in Protos : p = <<i, q>> /\ pcb[<<other, q>>].ready
    BY <1>7
  <2>2. p[1] = i /\ p[2] = q /\ <<Duplicate[p[1]], p[2]>> = <<other, q>>
    BY <2>1
  <2>3. <<other, q>> \in Pcbs \ both
    BY <1>2, <1>6 DEF Pcbs
  <2>4. pcb'[p] = ClosedAs(pcb[p], PCB_DUP)
    BY <1>4, <1>7 DEF ClosedAs
  <2> DEFINE n == pcb'[p]
  <2>5. n = ClosedAs(pcb[p], PCB_DUP) /\ GoodFor(pcb[p], p)
    BY <1>1, <2>4 DEF GoodAt, GoodFor
  <2> HIDE DEF n
  <2>6. GoodFor(n, p) /\ n.state = PCB_DUP
    BY <1>1, <2>5, ClosedFor
  <2> QED BY <1>2, <2>1, <2>2, <2>3, <2>6 DEF n
<1>8. ASSUME NEW p \in Pcbs, p \notin both
      PROVE  Kept(pcb'[p], pcb[p]) /\ GoodFor(pcb'[p], p)
  <2>1. CASE p[1] = other
    <3> DEFINE X == {}
               k == due[p]
               q == pcb'[p]
    <3>1. q = AnnouncePcb(pcb[p], X, TRUE, hostOf, k)
      BY <1>4, <1>8, <2>1
    <3>2. X \in SUBSET services /\ k \in Slots
      BY DEF Due
    <3> HIDE DEF q, k, X, other, both
    <3>3. GoodFor(q, p) /\ Kept(q, pcb[p])
      BY <1>1, <1>3, <3>1, <3>2, AnnouncedFor
    <3> QED BY <3>3 DEF q
  <2>2. CASE p[1] # other
    <3>1. pcb'[p] = pcb[p]
      BY <1>4, <1>8, <2>2
    <3> QED BY <1>1, <3>1 DEF GoodAt, GoodFor, Kept
  <2> QED BY <2>1, <2>2
<1> HIDE DEF both
<1>9. ASSUME NEW p \in Pcbs
      PROVE  GoodAt(p)'
  <2>1. GoodFor(pcb'[p], p)
    BY <1>7, <1>8
  <2> QED BY <1>2, <2>1, GoodLater
<1>10. DupInv'
  <2> SUFFICES ASSUME NEW x \in Pcbs, pcb'[x].state = PCB_DUP
               PROVE  Duplicate[x[1]] \in Interfaces /\ pcb'[<<Duplicate[x[1]], x[2]>>].ready
    BY DEF DupInv
  <2> DEFINE y == <<Duplicate[x[1]], x[2]>>
  <2>1. CASE x \in both
    <3>1. y \in Pcbs \ both /\ pcb[y].ready /\ Duplicate[x[1]] \in Interfaces
      BY <1>7, <2>1
    <3> HIDE DEF y
    <3>2. pcb'[y].ready
      BY <1>8, <3>1 DEF Kept
    <3> QED BY <3>1, <3>2 DEF y
  <2>2. CASE x \notin both
    <3>1. pcb[x].state = PCB_DUP
      BY <1>8, <2>2 DEF Kept
    <3>2. Duplicate[x[1]] \in Interfaces /\ pcb[y].ready /\ y \in Pcbs
      BY <1>1, <3>1, TwinPcb DEF DupInv
    <3>3. y \notin both
      <4> SUFFICES ASSUME y \in both PROVE FALSE
        OBVIOUS
      <4>1. pcb[<<Duplicate[y[1]], y[2]>>].ready
        BY <1>7, <3>2
      <4>2. x = <<Duplicate[y[1]], y[2]>>
        BY <3>2, TwinTwin
      <4>3. pcb[x].ready
        BY <4>1, <4>2
      <4> QED BY <1>1, <3>1, <4>3, ReadyActive
    <3> HIDE DEF y
    <3>4. pcb'[y].ready
      BY <1>8, <3>2, <3>3 DEF Kept
    <3> QED BY <3>2, <3>4 DEF y
  <2> QED BY <2>1, <2>2
<1>11. AllGood'
  BY <1>5, <1>9 DEF AllGood
<1> QED BY <1>10, <1>11, InvWhole, PTL

------------------------------------------------------------------------------
(* Answers, and packets that are due.                                      *)

\* A question is answered.
LEMMA ReplyInv ==
  ASSUME IInv, RestOK', NEW p \in Pcbs, NEW S \in SUBSET Services, NEW H \in SUBSET AllHosts,
         NEW d \in BOOLEAN, Reply(p, S, H, d)
  PROVE  IInv'
<1> DEFINE pkt == [NothingIn EXCEPT !.answers = S, !.answerHosts = H, !.distributed = d]
           r == pcb[p]
           w == p \in woken
           q == Schedule(r, pkt)
<1>1. RestOK /\ GoodAt(p) /\ pcb \in [Pcbs -> PcbRecord]
  BY InvParts DEF IInv, TypeOK
<1>2. /\ services' = services /\ ownInstance' = ownInstance /\ woken' = woken
      /\ hostname' = hostname
  BY DEF Reply, registry
<1>3. pcb' = [pcb EXCEPT ![p] = q] /\ Live(r) # Slots /\ r.state > PCB_PROBE_3
      /\ S \subseteq services
  BY DEF Reply, Receive, Input, AskedOfUs
<1>4. pkt \in Packet /\ pkt.asks = {} /\ pkt.servers = {} /\ pkt.answers \subseteq services
  BY <1>3 DEF NothingIn, Packet
<1>5. Good(r, w, services, ownInstance, hostname) /\ w \in BOOLEAN
  BY <1>1 DEF GoodAt
<1>6. services \in SUBSET Services /\ ownInstance \in SUBSET Services /\ hostname \in BOOLEAN
  BY <1>1 DEF RestOK
<1> HIDE DEF pkt, r, w
<1>7. Good(q, w, services, ownInstance, hostname)
      /\ (q.ready <=> r.ready) /\ (q.state = PCB_DUP <=> r.state = PCB_DUP)
  BY <1>3, <1>4, <1>5, <1>6, ReplyGood
<1> HIDE DEF q
<1>8. GoodFor(q, p) /\ Kept(q, pcb[p])
  BY <1>7 DEF GoodFor, Kept, w, r
<1> QED BY <1>2, <1>3, <1>8, OneInv

\* Another responder has answered already.
LEMMA KnownAnswerInv ==
  ASSUME IInv, RestOK', NEW p \in Pcbs, NEW n, KnownAnswer(p, n)
  PROVE  IInv'
<1> DEFINE r == pcb[p]
           w == p \in woken
           q == RemoveScheduledAnswer(r, n)
<1>1. RestOK /\ GoodAt(p) /\ pcb \in [Pcbs -> PcbRecord]
  BY InvParts DEF IInv, TypeOK
<1>2. /\ services' = services /\ ownInstance' = ownInstance /\ woken' = woken
      /\ hostname' = hostname
  BY DEF KnownAnswer, registry
<1>3. pcb' = [pcb EXCEPT ![p] = q]
  BY <1>1 DEF KnownAnswer
<1>4. Good(r, w, services, ownInstance, hostname) /\ w \in BOOLEAN
  BY <1>1 DEF GoodAt
<1>5. services \in SUBSET Services /\ ownInstance \in SUBSET Services /\ hostname \in BOOLEAN
  BY <1>1 DEF RestOK
<1> HIDE DEF r, w
<1>6. Good(q, w, services, ownInstance, hostname)
      /\ (q.ready <=> r.ready) /\ (q.state = PCB_DUP <=> r.state = PCB_DUP)
  BY <1>4, <1>5, KnownGood
<1> HIDE DEF q
<1>7. GoodFor(q, p) /\ Kept(q, pcb[p])
  BY <1>6 DEF GoodFor, Kept, w, r
<1> QED BY <1>2, <1>3, <1>7, OneInv

\* A packet that is due is sent.
LEMMA TxHandleInv ==
  ASSUME IInv, RestOK', NEW p \in Pcbs, TxHandle(p)
  PROVE  IInv'
<1>1. PICK k \in Live(pcb[p]) : pcb' = [pcb EXCEPT ![p] = TxHandlePacket(@, k, hostOf)]
  BY DEF TxHandle
<1> DEFINE r == pcb[p]
           w == p \in woken
           q == TxHandlePacket(r, k, hostOf)
<1>2. RestOK /\ GoodAt(p) /\ pcb \in [Pcbs -> PcbRecord]
  BY InvParts DEF IInv, TypeOK
<1>3. /\ services' = services /\ ownInstance' = ownInstance /\ woken' = woken
      /\ hostname' = hostname
  BY DEF TxHandle, registry
<1>4. pcb' = [pcb EXCEPT ![p] = q] /\ k \in Live(r)
  BY <1>1, <1>2
<1>5. Good(r, w, services, ownInstance, hostname) /\ w \in BOOLEAN
  BY <1>2 DEF GoodAt
<1>6. services \in SUBSET Services /\ ownInstance \in SUBSET Services /\ hostname \in BOOLEAN
      /\ hostOf \in Hosting
  BY <1>2 DEF RestOK
<1> HIDE DEF r, w
<1>7. Good(q, w, services, ownInstance, hostname)
      /\ (q.ready <=> r.ready) /\ (q.state = PCB_DUP <=> r.state = PCB_DUP)
  BY <1>4, <1>5, <1>6, TxGood
<1> HIDE DEF q
<1>8. GoodFor(q, p) /\ Kept(q, pcb[p])
  BY <1>7 DEF GoodFor, Kept, w, r
<1> QED BY <1>3, <1>4, <1>8, OneInv

------------------------------------------------------------------------------
(* Every step.                                                             *)

\* Inputs are counted up to their bound.
LEMMA InputCounted == RestOK /\ Input => inputs' \in 0 .. MaxInputs
  BY InputsAssumption DEF RestOK, Input

\* A step that leaves the registry alone.
LEMMA RegistryKept ==
  ASSUME RestOK, UNCHANGED registry, heard \subseteq heard', heard' \subseteq Pcbs,
         woken' \subseteq heard', inputs' \in 0 .. MaxInputs
  PROVE  /\ RestOK'
         /\ services' = services /\ ownInstance' = ownInstance /\ hostname' = hostname
  BY DEF RestOK, registry

\* The actions of the application keep the invariant, one step for each.
LEMMA ApplicationInv == IInv /\ Application => IInv'
<1> SUFFICES ASSUME IInv, Application PROVE IInv'
  OBVIOUS
<1>1. RestOK /\ (\A p \in Pcbs : GoodAt(p)) /\ pcb \in [Pcbs -> PcbRecord]
  BY InvParts DEF IInv, TypeOK
<1>2. CASE HostnameSet
  <2>1. RestOK'
    BY <1>1, <1>2, InputCounted DEF HostnameSet, Op, RestOK
  <2> QED BY <1>2, <2>1, RestartAllInv DEF HostnameSet
<1>3. CASE InstanceSet
  <2>1. RestOK'
    BY <1>1, <1>3, InputCounted DEF InstanceSet, Op, RestOK
  <2> QED BY <1>3, <2>1, RestartNoInstanceInv DEF InstanceSet
<1>4. CASE ServicesClear
  <2>1. inputs' \in 0 .. MaxInputs /\ hosts' \in SUBSET Delegated
    BY <1>1, <1>4, InputCounted DEF ServicesClear, Op, RestOK
  <2> QED BY <1>4, <2>1, RemoveInv DEF ServicesClear, Op
<1>5. ASSUME NEW s \in Services, NEW own \in BOOLEAN, NEW h \in AllHosts, ServiceAdd(s, own, h)
      PROVE  IInv'
  <2>1. hostOf' \in Hosting
    BY <1>1, <1>5 DEF ServiceAdd, RestOK, Hosting
  <2>2. services' = services \cup {s} /\ ownInstance \subseteq ownInstance'
        /\ ownInstance' \subseteq ownInstance \cup {s}
    BY <1>5 DEF ServiceAdd
  <2>3. RestOK'
    <3>1. services' \in SUBSET Services /\ ownInstance' \in SUBSET Services
      BY <1>1, <2>2 DEF RestOK
    <3> QED BY <1>1, <1>5, <2>1, <3>1, InputCounted DEF ServiceAdd, Op, RestOK
  <2>4. services' \ (ownInstance' \cup {s}) \subseteq services \ ownInstance
    BY <2>2
  <2>5. /\ pcb' = ProbeAllPcbs(Renamed(pcb, {s}), {s}, FALSE, FALSE, hostname, hostOf')
        /\ woken' = woken /\ hostname' = hostname
    BY <1>5 DEF ServiceAdd
  <2> QED BY <2>1, <2>2, <2>3, <2>4, <2>5, ReprobeInv
<1>6. ASSUME NEW s \in Services, ServiceInstanceSet(s)
      PROVE  IInv'
  <2>1. s \in services /\ services' = services /\ ownInstance' = ownInstance \cup {s}
    BY <1>6 DEF ServiceInstanceSet
  <2>2. RestOK'
    <3>1. ownInstance' \in SUBSET Services
      BY <1>1, <2>1 DEF RestOK
    <3> QED BY <1>1, <1>6, <3>1, InputCounted DEF ServiceInstanceSet, Op, RestOK
  <2>3. s \in services' /\ services \subseteq services'
        /\ services' \ (ownInstance' \cup {s}) \subseteq services \ ownInstance
    BY <2>1
  <2>4. /\ pcb' = ProbeAllPcbs(Renamed(pcb, {s}), {s}, FALSE, FALSE, hostname, hostOf)
        /\ woken' = woken /\ hostname' = hostname
    BY <1>6 DEF ServiceInstanceSet
  <2>5. hostOf \in Hosting
    BY <1>1 DEF RestOK
  <2> QED BY <2>2, <2>3, <2>4, <2>5, ReprobeInv
<1>7. ASSUME NEW s \in Services, ServicePortSet(s) \/ ServiceTxt(s)
      PROVE  IInv'
  <2>1. PICK ip \in BOOLEAN : \E due \in Due : pcb' = AnnounceAllPcbs({s}, ip, due)
    BY <1>7 DEF ServicePortSet, ServiceTxt
  <2>2. PICK due \in Due : pcb' = AnnounceAllPcbs({s}, ip, due)
    BY <2>1
  <2>3. Input /\ heard' = heard /\ s \in services /\ UNCHANGED registry /\ woken' = woken
    BY <1>7 DEF ServicePortSet, ServiceTxt, Op
  <2>4. /\ RestOK'
        /\ services' = services /\ ownInstance' = ownInstance /\ hostname' = hostname
    <3>1. heard' \subseteq Pcbs /\ woken' \subseteq heard' /\ heard \subseteq heard'
      BY <1>1, <2>3 DEF RestOK
    <3> QED BY <1>1, <2>3, <3>1, InputCounted, RegistryKept
  <2> QED BY <2>2, <2>3, <2>4, AnnounceAllInv
<1>8. ASSUME NEW s \in Services, ServiceDel(s)
      PROVE  IInv'
  <2>1. inputs' \in 0 .. MaxInputs /\ hosts' \in SUBSET Delegated
    BY <1>1, <1>8, InputCounted DEF ServiceDel, Op, RestOK
  <2>2. {s} \in SUBSET services
    BY <1>8 DEF ServiceDel
  <2> QED BY <1>8, <2>1, <2>2, RemoveInv DEF ServiceDel, Op
<1>9. ASSUME NEW h \in Delegated, DelegateHostnameAdd(h)
      PROVE  IInv'
  <2>1. RestOK'
    BY <1>1, <1>9, InputCounted DEF DelegateHostnameAdd, Op, RestOK
  <2>2. /\ pcb' = pcb /\ woken' = woken /\ services' = services
        /\ ownInstance' = ownInstance /\ hostname' = hostname
    BY <1>9 DEF DelegateHostnameAdd
  <2>3. \A p \in Pcbs : GoodAt(p)' /\ Kept(pcb'[p], pcb[p])
    BY <1>1, <2>2 DEF GoodAt, Kept
  <2>4. pcb' = [p \in Pcbs |-> pcb'[p]]
    BY <1>1, <2>2
  <2> QED BY <2>1, <2>3, <2>4, StepInv
<1>10. ASSUME NEW h \in Delegated, DelegateHostnameRemove(h)
       PROVE  IInv'
  <2> DEFINE S == {s \in services : hostOf[s] = h}
  <2>1. inputs' \in 0 .. MaxInputs /\ hosts' \in SUBSET Delegated
    BY <1>1, <1>10, InputCounted DEF DelegateHostnameRemove, Op, RestOK
  <2>2. S \in SUBSET services
    OBVIOUS
  <2>3. /\ RemoveServices(S) /\ woken' = woken /\ hostname' = hostname
        /\ instance' = instance /\ heard' = heard
    BY <1>10 DEF DelegateHostnameRemove, Op
  <2> HIDE DEF S
  <2> QED BY <2>1, <2>2, <2>3, RemoveInv
<1> QED BY <1>2, <1>3, <1>4, <1>5, <1>6, <1>7, <1>8, <1>9, <1>10 DEF Application

\* So do those of interfaces and received packets.
LEMMA NetworkInv == IInv /\ Network => IInv'
<1> SUFFICES ASSUME IInv, Network PROVE IInv'
  OBVIOUS
<1>1. RestOK /\ (\A p \in Pcbs : GoodAt(p)) /\ pcb \in [Pcbs -> PcbRecord]
  BY InvParts DEF IInv, TypeOK
<1>2. ASSUME NEW P, Receive(P), UNCHANGED registry, woken' = woken \/ woken' \subseteq woken \cup (P \cap heard)
      PROVE  /\ RestOK'
             /\ services' = services /\ ownInstance' = ownInstance /\ hostname' = hostname
  <2>1. Input /\ heard' = heard
    BY <1>2 DEF Receive
  <2>2. heard' \subseteq Pcbs /\ woken' \subseteq heard' /\ heard \subseteq heard'
    BY <1>1, <1>2, <2>1 DEF RestOK
  <2> QED BY <1>1, <1>2, <2>1, <2>2, InputCounted, RegistryKept
<1>3. ASSUME NEW p \in Pcbs, Receive({p}), UNCHANGED registry, hostname,
             NEW S \in SUBSET services, NEW ip \in BOOLEAN, S # {} \/ ip, ProbeHere(p, S, ip)
      PROVE  IInv'
  <2>1. p \in heard
    BY <1>3 DEF Receive
  <2>2. woken' \subseteq woken \cup ({p} \cap heard)
    BY <1>3, <2>1 DEF ProbeHere
  <2>3. /\ RestOK'
        /\ services' = services /\ ownInstance' = ownInstance /\ hostname' = hostname
    BY <1>2, <1>3, <2>2
  <2> QED BY <1>3, <2>3, ProbeHereInv
<1>4. ASSUME NEW p \in Pcbs, Receive({p}), UNCHANGED registry, hostname, RenameHost
      PROVE  IInv'
  <2>1. woken' = woken
    BY <1>4 DEF RenameHost
  <2>2. /\ RestOK'
        /\ services' = services /\ ownInstance' = ownInstance /\ hostname' = hostname
    BY <1>2, <1>4, <2>1
  <2>3. hostname' = TRUE
    BY <1>1, <1>4, <2>2 DEF RestOK
  <2> QED BY <1>4, <2>1, <2>2, <2>3, RestartAllInv DEF RenameHost
<1>5. ASSUME NEW p \in Pcbs, HostCollision(p)
      PROVE  IInv'
  <2>1. Receive({p}) /\ hostname /\ UNCHANGED registry
    BY <1>5 DEF HostCollision
  <2>2. RenameHost \/ ProbeHere(p, {}, TRUE)
    BY <1>5 DEF HostCollision
  <2>3. {} \in SUBSET services
    OBVIOUS
  <2> QED BY <1>3, <1>4, <2>1, <2>2, <2>3
<1>6. ASSUME NEW p \in Pcbs, NEW s \in Services, SrvCollision(p, s)
      PROVE  IInv'
  <2>1. /\ Receive({p}) /\ hostname /\ UNCHANGED registry /\ s \in services
        /\ {s} \in SUBSET services /\ {s} # {}
    BY <1>6 DEF SrvCollision
  <2>2. CASE /\ pcb' = ProbeAllPcbs(Renamed(pcb, {s}), {s}, FALSE, FALSE, hostname, hostOf)
             /\ UNCHANGED woken
    <3>1. /\ RestOK'
          /\ services' = services /\ ownInstance' = ownInstance /\ hostname' = hostname
      BY <1>2, <2>1, <2>2
    <3>2. s \in services' /\ services \subseteq services'
          /\ services' \ (ownInstance' \cup {s}) \subseteq services \ ownInstance
      BY <2>1, <3>1
    <3>3. hostOf \in Hosting
      BY <1>1 DEF RestOK
    <3> QED BY <2>2, <3>1, <3>2, <3>3, ReprobeInv
  <2>3. CASE /\ pcb' = RestartAllPcbsNoInstance(Renamed(pcb, WithoutInstance))
             /\ UNCHANGED woken
    <3>1. /\ RestOK'
          /\ services' = services /\ ownInstance' = ownInstance /\ hostname' = hostname
      BY <1>2, <2>1, <2>3
    <3> QED BY <2>3, <3>1, RestartNoInstanceInv
  <2>4. CASE RenameHost
    BY <1>4, <2>1, <2>4
  <2>5. CASE ProbeHere(p, {s}, FALSE)
    BY <1>3, <2>1, <2>5
  <2> QED BY <1>6, <2>2, <2>3, <2>4, <2>5 DEF SrvCollision
<1>7. ASSUME NEW p \in Pcbs, NEW s \in Services, TxtCollision(p, s)
      PROVE  IInv'
  <2>1. /\ Receive({p}) /\ hostname /\ UNCHANGED registry
        /\ {s} \in SUBSET services /\ {s} # {} /\ ProbeHere(p, {s}, TRUE)
    BY <1>7 DEF TxtCollision
  <2> QED BY <1>3, <2>1
<1>8. ASSUME NEW p \in Pcbs, NEW S \in SUBSET Services, NEW H \in SUBSET AllHosts,
             NEW d \in BOOLEAN, Reply(p, S, H, d)
      PROVE  IInv'
  <2>1. Receive({p}) /\ UNCHANGED registry /\ woken' = woken
    BY <1>8 DEF Reply
  <2>2. RestOK'
    BY <1>2, <2>1
  <2> QED BY <1>8, <2>2, ReplyInv
<1>9. ASSUME NEW p \in Pcbs, NEW n, KnownAnswer(p, n)
      PROVE  IInv'
  <2>1. Receive({p}) /\ UNCHANGED registry /\ woken' = woken
    BY <1>9 DEF KnownAnswer
  <2>2. RestOK'
    BY <1>2, <2>1
  <2> QED BY <1>9, <2>2, KnownAnswerInv
<1>10. ASSUME NEW i \in Interfaces, DupInterface(i)
       PROVE  IInv'
  <2>1. Receive({i} \X Protos) /\ UNCHANGED registry /\ woken' = woken
    BY <1>10 DEF DupInterface
  <2>2. RestOK'
    BY <1>2, <2>1
  <2> QED BY <1>10, <2>2, DupInterfaceInv
<1>11. ASSUME NEW p \in Pcbs, NEW action, PerformEventAction(p, action)
       PROVE  IInv'
  <2>1. Input /\ Heard /\ UNCHANGED registry /\ woken' = woken
    BY <1>11 DEF PerformEventAction, EnablePcb, DisablePcb, AnnounceEvent
  <2>2. /\ RestOK'
        /\ services' = services /\ ownInstance' = ownInstance /\ hostname' = hostname
    <3>1. heard' \subseteq Pcbs /\ heard \subseteq heard'
      BY <1>1, <2>1 DEF Heard, RestOK
    <3>2. woken' \subseteq heard'
      BY <1>1, <2>1, <3>1 DEF RestOK
    <3> QED BY <1>1, <2>1, <3>1, <3>2, InputCounted, RegistryKept
  <2>3. CASE EnablePcb(p)
    <3>1. pcb' = [pcb EXCEPT ![p] = Enabled(@)]
      BY <2>3 DEF EnablePcb
    <3> QED BY <2>1, <2>2, <3>1, EnableInv
  <2>4. CASE DisablePcb(p)
    BY <2>2, <2>4, DisableInv
  <2>5. CASE AnnounceEvent(p)
    BY <2>2, <2>5, AnnounceEventInv
  <2> QED BY <1>11, <2>3, <2>4, <2>5 DEF PerformEventAction
<1>12. CASE SystemEvent
  BY <1>11, <1>12 DEF SystemEvent
<1> QED BY <1>5, <1>6, <1>7, <1>8, <1>9, <1>10, <1>12 DEF Network

\* Every step keeps the invariant.
LEMMA NextInv == IInv /\ [Next]_vars => IInv'
<1> SUFFICES ASSUME IInv, [Next]_vars PROVE IInv'
  OBVIOUS
<1>1. CASE Application
  BY <1>1, ApplicationInv
<1>2. CASE Network
  BY <1>2, NetworkInv
<1>3. ASSUME NEW p \in Pcbs, TxHandle(p)
      PROVE  IInv'
  <2>1. RestOK
    BY InvParts
  <2>2. UNCHANGED <<registry, heard, woken, inputs>>
    BY <1>3 DEF TxHandle
  <2>3. RestOK'
    BY <2>1, <2>2 DEF RestOK, registry
  <2> QED BY <1>3, <2>3, TxHandleInv
<1>4. CASE UNCHANGED vars
  <2>1. UNCHANGED <<registry, pcb, heard, woken, inputs>>
    BY <1>4 DEF vars
  <2>2. RestOK'
    BY <2>1, InvParts DEF RestOK, registry
  <2>3. \A p \in Pcbs : GoodAt(p)' /\ Kept(pcb'[p], pcb[p])
    BY <2>1, InvParts DEF GoodAt, Kept, registry
  <2>4. pcb' = [p \in Pcbs |-> pcb'[p]]
    BY <2>1 DEF IInv, TypeOK
  <2> QED BY <2>2, <2>3, <2>4, StepInv
<1> QED BY <1>1, <1>2, <1>3, <1>4 DEF Next

\* It holds in every reachable state.
LEMMA SpecInv == Spec => []IInv
  BY InitInv, NextInv, PTL DEF Spec

------------------------------------------------------------------------------
(* What it comes to.                                                       *)

\* The registry, the pcbs and their packets keep their types, whatever the application, the
\* network and the interfaces do.
THEOREM TypeCorrect == Spec => []TypeOK
<1>1. IInv => TypeOK
  BY DEF IInv
<1> QED BY <1>1, SpecInv, PTL

\* No record of a scheduled packet and no probe list refers to a service that was removed, on
\* any pcb on which no late packet started a probe after it was closed; and no question does,
\* unless an application may register another service of the type of the removed one.
THEOREM QueueRefersToRegistered == Spec => []NoDangling
<1>1. IInv => NoDangling
  <2> SUFFICES ASSUME IInv, NEW p \in Pcbs, p \notin woken
               PROVE  /\ pcb[p].probe_services \subseteq services
                      /\ \A k \in Live(pcb[p]) :
                           /\ pcb[p].tx[k].servers \cup pcb[p].tx[k].answers \subseteq services
                           /\ \A s \in pcb[p].tx[k].asks : s \in services \/ HasTwin(s)
    BY DEF NoDangling
  <2>1. Refers(pcb[p], services)
    BY DEF IInv, PcbInv, Good
  <2> QED BY <2>1 DEF Refers, Twins
<1> QED BY <1>1, SpecInv, PTL

\* An open pcb that probes or announces has a packet that will carry it on.
THEOREM NeverStranded == Spec => []Driven
<1>1. IInv => Driven
  <2> SUFFICES ASSUME IInv, NEW p \in Pcbs, pcb[p].ready, Probing(pcb[p]) \/ Announcing(pcb[p])
               PROVE  Live(pcb[p]) # {}
    BY DEF Driven
  <2>1. Carried(pcb[p])
    BY DEF IInv, PcbInv, Good
  <2> QED BY <2>1 DEF Carried
<1> QED BY <1>1, SpecInv, PTL

\* A pcb that probes has its probe in the queue and nothing else.
THEOREM ProbeIsAlone == Spec => []ProbesAlone
<1>1. IInv => ProbesAlone
  <2> SUFFICES ASSUME IInv, NEW p \in Pcbs, Probing(pcb[p])
               PROVE  /\ \A k, l \in Live(pcb[p]) : k = l
                      /\ \A k \in Live(pcb[p]) : ~HasAnswers(pcb[p].tx[k])
    BY DEF ProbesAlone
  <2>1. Alone(pcb[p])
    BY DEF IInv, PcbInv, Good
  <2> QED BY <2>1 DEF Alone
<1> QED BY <1>1, SpecInv, PTL

\* The probe list that is copied is no longer than the copy.
THEOREM CopyFits == Spec => []ProbeListFits
<1>1. IInv => ProbeListFits
  <2> SUFFICES ASSUME IInv, NEW p \in Pcbs, p \notin woken
               PROVE  /\ pcb[p].probe_services # {} => Probing(pcb[p])
                      /\ pcb[p].probe_running <=> Probing(pcb[p])
    BY DEF ProbeListFits
  <2>1. CASE pcb[p].ready
    <3>1. Fits(pcb[p])
      BY <2>1 DEF IInv, PcbInv, Good
    <3> QED BY <3>1 DEF Fits
  <2>2. CASE ~pcb[p].ready
    <3>1. Quiet(pcb[p])
      BY <2>2 DEF IInv, PcbInv, Good
    <3>2. ~Probing(pcb[p])
      BY <3>1 DEF Quiet, Probing, PCB_OFF, PCB_DUP, PCB_PROBE_1, PCB_PROBE_3
    <3> QED BY <3>1, <3>2 DEF Quiet
  <2> QED BY <2>1, <2>2
<1> QED BY <1>1, SpecInv, PTL

\* A pcb is open, has done with probing and there is a host name: then it has probed three
\* times for the present host name, and for the present name of every registered service but
\* those with an instance name of their own and those whose type another service has.
THEOREM AnswersAreProbed == Spec => []ProbedBeforeAnswered
<1>1. IInv => ProbedBeforeAnswered
  <2> SUFFICES ASSUME IInv, NEW p \in Pcbs, pcb[p].ready, pcb[p].state > PCB_PROBE_3, hostname,
                      NEW n \in ((services \ ownInstance) \cup {SelfHost}) \ Twins
               PROVE  pcb[p].asked[n] = 3
    <3>1. SelfHost \notin Twins /\ (IInv => services \subseteq Services)
      BY SelfHostAssumption DEF Twins, IInv, TypeOK
    <3> QED BY <3>1 DEF ProbedBeforeAnswered, Twins
  <2>1. Counted(pcb[p], (services \ ownInstance) \cup {SelfHost})
    BY DEF IInv, PcbInv, Good
  <2>2. pcb[p].state \in 0 .. 9
    BY DEF IInv, TypeOK, PcbRecord, PCB_OFF, PCB_RUNNING
  <2>3. ~Probing(pcb[p])
    BY <2>2 DEF Probing, PCB_PROBE_1, PCB_PROBE_3
  <2> QED BY <2>1, <2>3 DEF Counted
<1> QED BY <1>1, SpecInv, PTL

\* A pcb is only held back as a duplicate while the other interface's is open.
THEOREM DuplicatesCovered == Spec => []DuplicateCovered
<1>1. IInv => DuplicateCovered
  BY DEF IInv, DupInv, DuplicateCovered
<1> QED BY <1>1, SpecInv, PTL
=============================================================================

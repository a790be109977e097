------------------------------- MODULE MdnsDocs -------------------------------
(* What a comment of the mDNS component says of a removal, to be held against what *)
(* the responder does when two services have one type.                             *)
EXTENDS MCMdns

\* "Find, remove and free answers and scheduled packets for service" (mdns.c:2617): once a
\* service is removed and another is left, nothing that is scheduled on an open pcb is about
\* it, no question either.
ScheduledIsRegistered ==
  \A p \in Pcbs \ woken :
    pcb[p].ready /\ services # {} =>
      \A k \in Live(pcb[p]) :
        LET pkt == pcb[p].tx[k]
        IN  pkt.asks \cup pkt.servers \cup pkt.answers \subseteq services
=============================================================================

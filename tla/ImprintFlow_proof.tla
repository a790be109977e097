-------------------------- MODULE ImprintFlow_proof --------------------------
(***************************************************************************)
(* What module ImprintFlow promises of the flow, proved for any number of   *)
(* orders, of passes under way and of restarts.                             *)
(***************************************************************************)
EXTENDS ImprintFlow, TLAPS

\* The nodes at which a pass has its order.
Ordered == {"genCSR", "enroll", "final"}

\* A pass has an order at these nodes and at no others, and a request only with an order.
PassInv ==
  \A p \in Passes :
    /\ pass[p].order # None <=> pass[p].at \in Ordered
    /\ pass[p].csr # None => pass[p].order # None

\* While the device was there all the time, one pass is under way at most, and ALLOW
\* keeps a second one from starting.
OneInv ==
  ~away => /\ UnderWay # {} => allow
           /\ \A p, q \in Passes : p \in UnderWay /\ q \in UnderWay => p = q

\* And its request is the last one the device has answered.
FitInv ==
  ~away => \A p \in Passes : pass[p].csr # None => pass[p].csr = device.csr

\* And the order that waits is its own, or came when it had taken that.
KeptInv ==
  ~away => \A p \in Passes :
             pass[p].order # None /\ cached # None => cached = pass[p].order \/ cached \in late

IInv == TypeOK /\ PassInv /\ OneInv /\ FitInv /\ KeptInv

Nodes == {"idle", "delay", "status", "failed", "genCSR", "enroll", "final"}
PassRecord == [at : Nodes, csr : Request \cup {None}, order : Orders \cup {None}]

\* When a pass goes from one node to another nothing else changes in the other passes,
\* and while the device was there all the time there are no others.
LEMMA PassEffect ==
  ASSUME IInv, NEW p \in Passes, pass[p].at # "idle", UNCHANGED << allow, away >>,
         NEW node \in Nodes, NEW order \in Orders \cup {None},
         NEW csr \in Request \cup {None}, Goes(p, node, order, csr)
  PROVE  /\ pass' \in [Passes -> PassRecord]
         /\ pass'[p].at = node /\ pass'[p].csr = csr /\ pass'[p].order = order
         /\ \A q \in Passes : q # p => pass'[q] = pass[q]
         /\ ~away => \A q \in Passes :
                        q # p => pass[q].at = "idle" /\ pass[q].csr = None /\ pass[q].order = None
         /\ OneInv'
<1> DEFINE r == [at |-> node, csr |-> csr, order |-> order]
<1>1. r \in PassRecord /\ r.at = node /\ r.csr = csr /\ r.order = order
  BY DEF PassRecord
<1>2. pass \in [Passes -> PassRecord] /\ pass' = [pass EXCEPT ![p] = r]
  BY DEF IInv, TypeOK, Goes, PassRecord, Nodes
<1> HIDE DEF r
<1>3. /\ pass' \in [Passes -> PassRecord] /\ pass'[p] = r
      /\ \A q \in Passes : q # p => pass'[q] = pass[q]
  BY <1>1, <1>2
<1>4. ~away => \A q \in Passes :
                 q # p => pass[q].at = "idle" /\ pass[q].csr = None /\ pass[q].order = None
  <2>1. ~away => \A q \in Passes : q # p => pass[q].at = "idle"
    BY DEF IInv, OneInv, UnderWay
  <2> QED BY <2>1 DEF IInv, PassInv, Ordered
<1>5. OneInv'
  <2>1. ~away => allow
    BY DEF IInv, OneInv, UnderWay
  <2>2. ~away => \A q \in Passes : q # p => pass'[q].at = "idle"
    BY <1>3, <1>4
  <2> QED BY <2>1, <2>2 DEF OneInv, UnderWay
<1> QED BY <1>1, <1>3, <1>4, <1>5

\* At first nothing is under way.
LEMMA InitInv == Init => IInv
<1> SUFFICES ASSUME Init PROVE IInv
  OBVIOUS
<1>1. 1 \in 1 .. MaxBoots
  BY BootsAssumption
<1>2. TypeOK
  BY <1>1 DEF Init, TypeOK, Idle, Started
<1>3. \A p \in Passes : pass[p].at = "idle" /\ pass[p].csr = None /\ pass[p].order = None
  BY DEF Init, Idle
<1>4. UnderWay = {}
  BY <1>3 DEF UnderWay
<1> QED BY <1>2, <1>3, <1>4 DEF IInv, PassInv, OneInv, FitInv, KeptInv, Ordered

\* Every step keeps the invariant: a pass goes on alone unless the device was away.
LEMMA NextInv == IInv /\ [Next]_vars => IInv'
<1> SUFFICES ASSUME IInv, [Next]_vars PROVE IInv'
  OBVIOUS
<1> USE DEF IInv
<1>1. ASSUME NEW o \in Orders, Order(o) PROVE IInv'
  <2>1. TypeOK' BY <1>1 DEF Order, TypeOK
  <2>2. PassInv' /\ FitInv' BY <1>1 DEF Order, PassInv, FitInv
  <2>3. OneInv' BY <1>1 DEF Order, OneInv, UnderWay
  <2>4. KeptInv'
    <3>1. ASSUME NEW p \in Passes, pass[p].order # None PROVE o \in late'
      BY <1>1, <3>1 DEF Order
    <3> QED BY <1>1, <3>1 DEF Order, KeptInv
  <2> QED BY <2>1, <2>2, <2>3, <2>4
<1>2. CASE NotSeen
  BY <1>2 DEF NotSeen, TypeOK, PassInv, OneInv, FitInv, KeptInv
<1>3. CASE Restart
  <2>1. TypeOK'
    <3>1. device.key + 1 \in 1 .. MaxBoots
      BY <1>3, BootsAssumption DEF Restart, TypeOK
    <3> QED BY <1>3, <3>1 DEF Restart, Started, TypeOK
  <2> QED BY <1>3, <2>1 DEF Restart, PassInv, OneInv, FitInv, KeptInv
<1>4. CASE PkiStatusFails
  BY <1>4 DEF PkiStatusFails, Caught, TypeOK, PassInv, OneInv, UnderWay, FitInv, KeptInv
<1>5. ASSUME NEW p \in Passes, Seen(p) PROVE IInv'
  <2>1. UnderWay = {} \/ away
    BY <1>5 DEF Seen, OneInv
  <2>2. /\ pass' \in [Passes -> PassRecord] /\ pass'[p].at = "delay"
        /\ pass'[p].csr = pass[p].csr /\ pass'[p].order = pass[p].order
        /\ \A q \in Passes : q # p => pass'[q] = pass[q]
    BY <1>5 DEF Seen, TypeOK, PassRecord, Nodes
  <2>3. TypeOK' BY <1>5, <2>2 DEF Seen, TypeOK, PassRecord, Nodes
  <2>4. PassInv'
    BY <1>5, <2>2 DEF Seen, PassInv, Ordered
  <2>5. ~away' => \A q \in Passes : pass[q].at = "idle"
    BY <1>5, <2>1 DEF Seen, UnderWay
  <2>6. ~away' => \A q \in Passes : pass'[q].csr = None /\ pass'[q].order = None
    BY <2>2, <2>5 DEF PassInv, Ordered
  <2>7. OneInv'
    <3>1. ~away' => \A q \in Passes : q # p => pass'[q].at = "idle"
      BY <2>2, <2>5
    <3> QED BY <1>5, <3>1 DEF Seen, OneInv, UnderWay
  <2>8. FitInv' /\ KeptInv' BY <2>6 DEF FitInv, KeptInv
  <2> QED BY <2>3, <2>4, <2>7, <2>8
<1>6. ASSUME NEW p \in Passes, GetStatus(p) PROVE IInv'
  <2>1. pass[p].at # "idle" /\ UNCHANGED << allow, away >> /\ Goes(p, "status", None, None)
    BY <1>6 DEF GetStatus, At
  <2>2. "status" \in Nodes BY DEF Nodes
  <2>3. /\ pass' \in [Passes -> PassRecord]
        /\ pass'[p].at = "status" /\ pass'[p].csr = None /\ pass'[p].order = None
        /\ \A q \in Passes : q # p => pass'[q] = pass[q]
        /\ OneInv'
    BY <2>1, <2>2, PassEffect
  <2>4. UNCHANGED << cached, placed, late, device, failed >>
    BY <1>6 DEF GetStatus, At
  <2>5. TypeOK' BY <2>1, <2>3, <2>4 DEF TypeOK, PassRecord, Nodes
  <2>6. PassInv' BY <2>3 DEF PassInv, Ordered
  <2>7. FitInv' /\ KeptInv' BY <2>1, <2>3, <2>4 DEF FitInv, KeptInv
  <2> QED BY <2>3, <2>5, <2>6, <2>7
<1>7. ASSUME NEW p \in Passes, GenDevMessage(p) PROVE IInv'
  <2>1. pass[p].at # "idle" /\ UNCHANGED << allow, away, placed, late, device >>
    BY <1>7 DEF GenDevMessage, At
  <2>2. CASE cached = None
    <3>1. Goes(p, "idle", None, None) /\ cached' = None /\ failed' = TRUE
      BY <1>7, <2>2 DEF GenDevMessage, Goes, Idle, Caught
    <3>2. "idle" \in Nodes BY DEF Nodes
    <3>3. /\ pass' \in [Passes -> PassRecord]
          /\ pass'[p].at = "idle" /\ pass'[p].csr = None /\ pass'[p].order = None
          /\ \A q \in Passes : q # p => pass'[q] = pass[q]
          /\ OneInv'
      BY <2>1, <3>1, <3>2, PassEffect
    <3>4. TypeOK' BY <2>1, <3>1, <3>3 DEF TypeOK, PassRecord, Nodes
    <3>5. PassInv' BY <3>3 DEF PassInv, Ordered
    <3>6. FitInv' /\ KeptInv' BY <2>1, <3>1, <3>3 DEF FitInv, KeptInv
    <3> QED BY <3>3, <3>4, <3>5, <3>6
  <2>3. CASE cached # None
    <3>1. Goes(p, "genCSR", cached, None) /\ UNCHANGED << cached, failed >>
      BY <1>7, <2>3 DEF GenDevMessage, Answered
    <3>2. "genCSR" \in Nodes /\ cached \in Orders \cup {None} BY DEF Nodes, TypeOK
    <3>3. /\ pass' \in [Passes -> PassRecord]
          /\ pass'[p].at = "genCSR" /\ pass'[p].csr = None /\ pass'[p].order = cached
          /\ \A q \in Passes : q # p => pass'[q] = pass[q]
          /\ ~away => \A q \in Passes : q # p => pass[q].order = None
          /\ OneInv'
      BY <2>1, <3>1, <3>2, PassEffect
    <3>4. TypeOK' BY <2>1, <3>1, <3>3 DEF TypeOK, PassRecord, Nodes
    <3>5. PassInv' BY <2>3, <3>3 DEF PassInv, Ordered
    <3>6. FitInv' BY <2>1, <3>3 DEF FitInv
    <3>7. KeptInv' BY <2>1, <3>1, <3>3 DEF KeptInv
    <3> QED BY <3>3, <3>4, <3>5, <3>6, <3>7
  <2> QED BY <2>2, <2>3
<1>8. ASSUME NEW p \in Passes, StatusFails(p) PROVE IInv'
  <2>1. /\ pass[p].at # "idle" /\ UNCHANGED << allow, away, placed, late, device >>
        /\ Goes(p, "failed", None, None) /\ cached' = None /\ failed' = TRUE
    BY <1>8 DEF StatusFails, At, Caught
  <2>2. "failed" \in Nodes BY DEF Nodes
  <2>3. /\ pass' \in [Passes -> PassRecord]
        /\ pass'[p].at = "failed" /\ pass'[p].csr = None /\ pass'[p].order = None
        /\ \A q \in Passes : q # p => pass'[q] = pass[q]
        /\ OneInv'
    BY <2>1, <2>2, PassEffect
  <2>4. TypeOK' BY <2>1, <2>3 DEF TypeOK, PassRecord, Nodes
  <2>5. PassInv' BY <2>3 DEF PassInv, Ordered
  <2>6. FitInv' /\ KeptInv' BY <2>1, <2>3 DEF FitInv, KeptInv
  <2> QED BY <2>3, <2>4, <2>5, <2>6
<1>9. ASSUME NEW p \in Passes, PostGenCSR(p) PROVE IInv'
  <2>1. /\ pass[p].at = "genCSR" /\ UNCHANGED << allow, away, placed, late >>
        /\ pass[p].order \in Orders /\ pass[p].order # None
    BY <1>9 DEF PostGenCSR, At, PassInv, Ordered, TypeOK
  <2>2. Makes \subseteq Request /\ device.csr \in Request \cup {None}
    BY DEF Makes, Request, TypeOK
  <2>3. PICK answer \in Request \cup {None} :
          /\ Goes(p, "enroll", pass[p].order, answer)
          /\ answer # None => answer = device'.csr
          /\ \/ device' = device
             \/ \E csr \in Makes : device' = [device EXCEPT !.csr = csr]
          /\ UNCHANGED << cached, failed >> \/ (cached' = None /\ failed' = TRUE)
    <3>1. \A csr \in Makes : [device EXCEPT !.csr = csr].csr = csr
      BY DEF TypeOK
    <3>2. CASE \E csr \in Makes : device' = [device EXCEPT !.csr = csr]
                            /\ Goes(p, "enroll", pass[p].order, csr) /\ Answered
      BY <2>2, <3>1, <3>2 DEF Answered
    <3>3. CASE \E csr \in {device.csr, None} :
                 Goes(p, "enroll", pass[p].order, csr) /\ Answered /\ UNCHANGED device
      BY <2>2, <3>3 DEF Answered
    <3>4. CASE device' \in {device} \cup {[device EXCEPT !.csr = csr] : csr \in Makes}
                 /\ Goes(p, "enroll", pass[p].order, None) /\ Caught
      BY <3>4 DEF Caught
    <3> QED BY <1>9, <3>2, <3>3, <3>4 DEF PostGenCSR
  <2>4. "enroll" \in Nodes BY DEF Nodes
  <2>5. /\ pass' \in [Passes -> PassRecord]
        /\ pass'[p].at = "enroll" /\ pass'[p].csr = answer /\ pass'[p].order = pass[p].order
        /\ \A q \in Passes : q # p => pass'[q] = pass[q]
        /\ ~away => \A q \in Passes : q # p => pass[q].csr = None /\ pass[q].order = None
        /\ OneInv'
    BY <2>1, <2>2, <2>3, <2>4, PassEffect
  <2>6. device' \in [key : 1 .. MaxBoots, csr : Request \cup {None}, cert : Request \cup {None}]
        /\ (answer # None => device'.csr = answer)
    BY <2>2, <2>3 DEF TypeOK
  <2>7. TypeOK' BY <2>1, <2>3, <2>5, <2>6 DEF TypeOK, PassRecord, Nodes
  <2>8. PassInv' BY <2>1, <2>5 DEF PassInv, Ordered
  <2>9. FitInv' BY <2>1, <2>5, <2>6 DEF FitInv
  <2>10. KeptInv' BY <2>1, <2>3, <2>5 DEF KeptInv
  <2> QED BY <2>5, <2>7, <2>8, <2>9, <2>10
<1>10. ASSUME NEW p \in Passes, P10Enroll(p) PROVE IInv'
  <2>1. /\ pass[p].at = "enroll" /\ UNCHANGED << allow, away, placed, late, device >>
        /\ pass[p].order \in Orders /\ pass[p].order # None
        /\ pass[p].csr \in Request \cup {None}
    BY <1>10 DEF P10Enroll, At, PassInv, Ordered, TypeOK
  <2>2. PICK cert \in {pass[p].csr, None} :
          /\ Goes(p, "final", pass[p].order, cert)
          /\ cached' = cached \/ cached' = None
          /\ failed' = failed \/ failed' = TRUE
    BY <1>10 DEF P10Enroll, Answered, Caught
  <2>3. "final" \in Nodes BY DEF Nodes
  <2>4. /\ pass' \in [Passes -> PassRecord]
        /\ pass'[p].at = "final" /\ pass'[p].csr = cert /\ pass'[p].order = pass[p].order
        /\ \A q \in Passes : q # p => pass'[q] = pass[q]
        /\ OneInv'
    BY <2>1, <2>2, <2>3, PassEffect
  <2>5. TypeOK' BY <2>1, <2>2, <2>4 DEF TypeOK, PassRecord, Nodes
  <2>6. PassInv' BY <2>1, <2>2, <2>4 DEF PassInv, Ordered
  <2>7. FitInv' BY <2>1, <2>2, <2>4 DEF FitInv
  <2>8. KeptInv' BY <2>1, <2>2, <2>4 DEF KeptInv
  <2> QED BY <2>4, <2>5, <2>6, <2>7, <2>8
<1>11. ASSUME NEW p \in Passes, PostDevIDFinal(p) PROVE IInv'
  <2>1. /\ pass[p].at # "idle" /\ UNCHANGED << allow, away, placed, late >>
        /\ Goes(p, "idle", None, None) /\ cached' = None
        /\ failed' \in BOOLEAN /\ pass[p].csr \in Request \cup {None}
    BY <1>11 DEF PostDevIDFinal, At, Goes, Idle, TypeOK
  <2>2. \/ device' = device
        \/ device' = [device EXCEPT !.cert = pass[p].csr]
        \/ device' = [device EXCEPT !.cert = None]
    BY <1>11 DEF PostDevIDFinal
  <2>3. /\ device' \in [key : 1 .. MaxBoots, csr : Request \cup {None}, cert : Request \cup {None}]
        /\ device'.csr = device.csr
    BY <2>1, <2>2 DEF TypeOK
  <2>4. "idle" \in Nodes BY DEF Nodes
  <2>5. /\ pass' \in [Passes -> PassRecord]
        /\ pass'[p].at = "idle" /\ pass'[p].csr = None /\ pass'[p].order = None
        /\ \A q \in Passes : q # p => pass'[q] = pass[q]
        /\ OneInv'
    BY <2>1, <2>4, PassEffect
  <2>6. TypeOK' BY <2>1, <2>3, <2>5 DEF TypeOK, PassRecord, Nodes
  <2>7. PassInv' BY <2>5 DEF PassInv, Ordered
  <2>8. FitInv' /\ KeptInv' BY <2>1, <2>3, <2>5 DEF FitInv, KeptInv
  <2> QED BY <2>5, <2>6, <2>7, <2>8
<1>12. CASE UNCHANGED vars
  BY <1>12 DEF vars, TypeOK, PassInv, OneInv, UnderWay, FitInv, KeptInv
<1> QED
  BY <1>1, <1>2, <1>3, <1>4, <1>5, <1>6, <1>7, <1>8, <1>9, <1>10, <1>11, <1>12 DEF Next

\* Every reachable state satisfies the invariant, and with it the types.
THEOREM FlowInv == Spec => []IInv
  BY InitInv, NextInv, PTL DEF Spec

\* A certificate goes to the device that holds the key it is for, however many passes,
\* orders and restarts there are, unless the device was away during the pass.
THEOREM CertificatesFit == Spec => CertificateFits
<1>1. IInv /\ [Next]_vars =>
        [device'.cert # device.cert /\ device'.cert # None =>
           device'.cert = device.csr \/ away]_vars
  <2> SUFFICES ASSUME IInv, Next, device'.cert # device.cert, device'.cert # None, ~away
               PROVE  device'.cert = device.csr
    OBVIOUS
  <2> USE DEF IInv
  <2>1. PICK p \in Passes : PostDevIDFinal(p)
    <3>1. device \in [key : 1 .. MaxBoots, csr : Request \cup {None}, cert : Request \cup {None}]
      BY DEF TypeOK
    <3>2. ~Restart BY DEF Restart, Started
    <3>3. ASSUME NEW p \in Passes PROVE ~PostGenCSR(p)
      BY <3>1 DEF PostGenCSR
    <3> QED
      BY <3>2, <3>3 DEF Next, Order, NotSeen, PkiStatusFails, Seen, GetStatus, GenDevMessage,
                        StatusFails, P10Enroll
  <2>2. device' = [device EXCEPT !.cert = pass[p].csr] /\ pass[p].csr # None
    BY <2>1 DEF PostDevIDFinal, TypeOK
  <2>3. pass[p].csr = device.csr
    BY <2>2 DEF FitInv
  <2> QED BY <2>2, <2>3 DEF TypeOK
<1> QED BY FlowInv, <1>1, PTL DEF Spec, CertificateFits

\* However many passes and orders there are, an order is only cleared from the cache with a
\* device that has its certificate, and what a pass has taken, replaced in the cache or not,
\* ends so too: unless it came behind the order that was taken, the device answered with a
\* request for something else, something failed or was refused, or the device was away.
THEOREM OrdersKept == Spec => OrderKept
<1> DEFINE Kept(o) ==
       /\ cached = o /\ cached' # o =>
            Certified(o) \/ cached' # None \/ o \in late \/ Unlike(o) \/ failed' \/ away
       /\ Taken(o) /\ ~Taken(o)' => Certified(o) \/ Unlike(o) \/ failed' \/ away
<1>1. IInv /\ [Next]_vars => [\A o \in Orders : Kept(o)]_vars
  <2> SUFFICES ASSUME IInv, Next, NEW o \in Orders PROVE Kept(o)
    OBVIOUS
  <2> SUFFICES ASSUME ~failed', ~away PROVE Kept(o)
    OBVIOUS
  <2> USE DEF IInv
  <2>1. o # None /\ pass \in [Passes -> PassRecord]
    BY NoneAssumption DEF TypeOK, PassRecord, Nodes
  <2>2. ASSUME NEW p \in Passes, PostDevIDFinal(p) PROVE Kept(o)
    <3>1. /\ device' = [device EXCEPT !.cert = pass[p].csr] /\ pass[p].csr # None
          /\ pass[p].order # None
      BY <2>2 DEF PostDevIDFinal, PassInv
    <3>2. device'.cert = pass[p].csr
      BY <3>1 DEF TypeOK
    <3>3. pass[p].order = o => Certified(o) \/ Unlike(o)
      BY <3>1, <3>2 DEF Certified, Unlike
    <3>4. cached = o => pass[p].order = o \/ o \in late
      BY <2>1, <3>1 DEF KeptInv
    <3>5. \A q \in Passes : q # p => pass'[q] = pass[q]
      BY <2>1, <2>2 DEF PostDevIDFinal
    <3>6. Taken(o) /\ ~Taken(o)' => pass[p].order = o
      BY <3>5 DEF Taken
    <3> QED BY <3>3, <3>4, <3>6
  <2>3. ASSUME NEW p \in Passes,
               GetStatus(p) \/ GenDevMessage(p) \/ PostGenCSR(p) \/ P10Enroll(p)
        PROVE  Kept(o)
    <3>1. cached' = cached
      BY <2>3 DEF GetStatus, GenDevMessage, PostGenCSR, P10Enroll, Caught, Answered
    <3>2. pass[p].order = None \/ \E node, csr : Goes(p, node, pass[p].order, csr)
      BY <2>3 DEF GetStatus, GenDevMessage, At, PostGenCSR, P10Enroll, PassInv, Ordered
    <3>3. /\ \A q \in Passes : q # p => pass'[q] = pass[q]
          /\ pass[p].order # None => pass'[p].order = pass[p].order
      BY <2>1, <2>3, <3>2 DEF GetStatus, GenDevMessage, PostGenCSR, P10Enroll, Goes
    <3> QED BY <2>1, <3>1, <3>3 DEF Taken
  <2>4. ASSUME NEW p \in Passes, Seen(p) PROVE Kept(o)
    <3>1. \A q \in Passes : pass'[q].order = pass[q].order
      BY <2>1, <2>4 DEF Seen, PassRecord
    <3> QED BY <2>4, <3>1 DEF Seen, Taken
  <2>5. CASE (\E n \in Orders : Order(n)) \/ NotSeen \/ Restart
    BY <2>1, <2>5, NoneAssumption DEF Order, NotSeen, Restart, Taken
  <2>6. ASSUME NEW p \in Passes PROVE ~StatusFails(p)
    BY DEF StatusFails, Caught
  <2>7. ~PkiStatusFails
    BY DEF PkiStatusFails, Caught
  <2> QED BY <2>2, <2>3, <2>4, <2>5, <2>6, <2>7 DEF Next
<1> QED BY FlowInv, <1>1, PTL DEF Spec, OrderKept
=============================================================================

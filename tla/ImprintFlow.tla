---------------------------- MODULE ImprintFlow -----------------------------
(***************************************************************************)
(* The Node-RED flow of the personalization station.  An order waits in the *)
(* flow context; the ping node tells every two seconds whether a device is  *)
(* in the station; a message then passes through the flow: the device is    *)
(* asked for its status and for a certificate request, the PKI for the      *)
(* certificate, and the device is given it.  A message waits for an answer  *)
(* at every http request, and meanwhile others pass.                        *)
(*                                                                          *)
(* An http request that fails (senderr is false) is caught, which clears    *)
(* the order, and its message goes on as well, with the error for a         *)
(* payload.  What happens between two requests of a message is one step.    *)
(* The device is what module Perso says of it, as far as the flow can tell: *)
(* it has a new key after every start, answers from the one buffer of its   *)
(* last request and keeps the certificate it is given.                      *)
(***************************************************************************)
EXTENDS Naturals, FiniteSets

CONSTANTS Orders,   \* each is placed once
          Passes,   \* messages that may be under way at once
          MaxBoots, \* bound on restarts, and on devices put in the station
          None      \* null

ASSUME NoneAssumption == None \notin Orders
ASSUME BootsAssumption == MaxBoots \in Nat \ {0}

VARIABLES
  cached, \* flow context: cachedPayload
  allow,  \* context of "Device Status": ALLOW
  pass,   \* per message: the node it is at, its order and its request
  placed, \* orders so far
  device, \* the device in the station: its key, last request, certificate
  late,   \* orders placed when a pass had already taken its order
  failed, \* something failed since the first pass now under way began
  away    \* the device restarted, or was not seen, since then

vars == <<cached, allow, pass, placed, device, late, failed, away>>

\* A request names one order, or none: its subject is empty or a mixture.
Request == [key : 1 .. MaxBoots, order : Orders \cup {None}]

TypeOK ==
  /\ cached \in Orders \cup {None} /\ allow \in BOOLEAN
  /\ pass \in [Passes -> [at : {"idle", "delay", "status", "failed", "genCSR", "enroll", "final"},
                          csr : Request \cup {None}, order : Orders \cup {None}]]
  /\ placed \subseteq Orders /\ late \subseteq placed
  /\ device \in [key : 1 .. MaxBoots, csr : Request \cup {None}, cert : Request \cup {None}]
  /\ failed \in BOOLEAN /\ away \in BOOLEAN

Idle == [at |-> "idle", csr |-> None, order |-> None]
Started(key) == [key |-> key, csr |-> None, cert |-> None]

Init ==
  /\ cached = None /\ allow = FALSE
  /\ pass = [p \in Passes |-> Idle]
  /\ placed = {} /\ late = {}
  /\ device = Started(1)
  /\ failed = FALSE /\ away = FALSE

UnderWay == {p \in Passes : pass[p].at # "idle"}

----------------------------------------------------------------------------
(* What starts a pass *)

\* POST /v1/newproduction, or the inject node.
Order(o) ==
  /\ o \notin placed /\ placed' = placed \cup {o}
  /\ cached' = o
  /\ late' = IF \E p \in Passes : pass[p].order # None THEN late \cup {o} ELSE late
  /\ UNCHANGED <<allow, pass, device, failed, away>>

\* A changed "Device Status", which does not look at ALLOW.
StartsAlways(p) ==
  /\ cached # None /\ pass[p].at = "idle"
  /\ allow' = TRUE
  /\ pass' = [pass EXCEPT ![p].at = "delay"]
  /\ failed' = (failed /\ UnderWay # {}) /\ away' = (away /\ UnderWay # {})
  /\ UNCHANGED <<cached, placed, device, late>>

\* "Device Status" lets one message pass for an order until the device was away.
Seen(p) ==
  /\ ~allow /\ cached # None /\ pass[p].at = "idle"
  /\ allow' = TRUE
  /\ pass' = [pass EXCEPT ![p].at = "delay"]
  /\ failed' = (failed /\ UnderWay # {}) /\ away' = (away /\ UnderWay # {})
  /\ UNCHANGED <<cached, placed, device, late>>

\* "Ready to Start" stops the message; a lost answer to the ping will do.
NotSeen ==
  /\ allow /\ allow' = FALSE
  /\ away' = TRUE
  /\ UNCHANGED <<cached, pass, placed, device, late, failed>>

\* The device starts again, or another one takes its place: there is a new key.
Restart ==
  /\ device.key < MaxBoots
  /\ device' = Started(device.key + 1)
  /\ away' = TRUE
  /\ UNCHANGED <<cached, allow, pass, placed, late, failed>>

----------------------------------------------------------------------------
(* The nodes of a pass *)

At(p, node) == pass[p].at = node /\ UNCHANGED <<allow, placed, late, away>>
Goes(p, node, order, csr) ==
  pass' = [pass EXCEPT ![p] = [at |-> node, csr |-> csr, order |-> order]]

\* "catch Error to reset Buffer"
Caught == cached' = None /\ failed' = TRUE
Answered == UNCHANGED <<cached, failed>>

\* "GET Status", after the delay of three seconds.
GetStatus(p) ==
  /\ At(p, "delay") /\ Goes(p, "status", None, None)
  /\ UNCHANGED <<cached, device, failed>>

\* "Wait if Device ready" fires however the request has ended.  "Gen. Dev. Message"
\* takes the order that is in the context by then; without one it fails.
GenDevMessage(p) ==
  /\ At(p, "status") \/ At(p, "failed")
  /\ UNCHANGED device
  /\ IF cached = None
     THEN pass' = [pass EXCEPT ![p] = Idle] /\ Caught
     ELSE Goes(p, "genCSR", cached, None) /\ Answered

\* The status request fails: the order is gone before the message is made.
StatusFails(p) ==
  /\ At(p, "status") /\ Goes(p, "failed", None, None) /\ Caught
  /\ UNCHANGED device

\* The requests the device may make of a message: for the order in it, and when only a
\* part of the body is there, for one before it, a mixture or nothing (Perso's Found).
Makes == [key : {device.key}, order : placed \cup {None}]

\* "clean CSR", "Make json CertReq" and "P10Enroll" follow the answer.  The device answers
\* 200 as well when it could not make a request: with the last one it made, or with none.
\* A 408 is no error to the flow either, and no request.
PostGenCSR(p) ==
  /\ At(p, "genCSR")
  /\ \/ \E csr \in Makes : device' = [device EXCEPT !.csr = csr]
                           /\ Goes(p, "enroll", pass[p].order, csr) /\ Answered
     \/ \E csr \in {device.csr, None} : Goes(p, "enroll", pass[p].order, csr) /\ Answered
                                       /\ UNCHANGED device
     \/ device' \in {device} \cup {[device EXCEPT !.csr = csr] : csr \in Makes}
        /\ Goes(p, "enroll", pass[p].order, None) /\ Caught

\* A changed flow, which cleans the cache with the request for the certificate.
CleansEarly(p) ==
  /\ At(p, "enroll") /\ UNCHANGED device
  /\ Goes(p, "final", pass[p].order, pass[p].csr) /\ cached' = None /\ UNCHANGED failed

\* The PKI certifies a request, refuses it, which is no error to the flow, or cannot be
\* reached; "gen DevID Message" then makes a message without certificate.
P10Enroll(p) ==
  /\ At(p, "enroll") /\ UNCHANGED device
  /\ \/ pass[p].csr # None /\ Goes(p, "final", pass[p].order, pass[p].csr) /\ Answered
     \/ Goes(p, "final", pass[p].order, None) /\ UNCHANGED cached /\ failed' = TRUE
     \/ Goes(p, "final", pass[p].order, None) /\ Caught

\* "POST DevID final" and "Clean Cache", which follows whatever the answer is.  The
\* device does not look whether the certificate is for its key; of a part of the body it
\* may store what is no certificate.
PostDevIDFinal(p) ==
  LET stored == IF pass[p].csr # None THEN [device EXCEPT !.cert = pass[p].csr] ELSE device
  IN  /\ At(p, "final")
      /\ pass' = [pass EXCEPT ![p] = Idle]
      /\ cached' = None
      /\ \/ device' = stored /\ failed' = (failed \/ pass[p].csr = None)
         \/ device' \in {device, stored, [device EXCEPT !.cert = None]} /\ failed' = TRUE

\* The request for the status of the PKI, once a minute, has the same catch node.
PkiStatusFails ==
  /\ Caught
  /\ UNCHANGED <<allow, pass, placed, device, late, away>>

----------------------------------------------------------------------------

Next ==
  \/ \E o \in Orders : Order(o)
  \/ NotSeen \/ Restart \/ PkiStatusFails
  \/ \E p \in Passes :
       \/ Seen(p) \/ GetStatus(p) \/ GenDevMessage(p) \/ StatusFails(p) \/ PostGenCSR(p)
       \/ P10Enroll(p) \/ PostDevIDFinal(p)

Spec == Init /\ [][Next]_vars

----------------------------------------------------------------------------
(* Properties *)

\* A device is given the certificate for its own last request, and so for its own key,
\* unless it restarted or was not seen during the pass: then two may be under way.
CertificateFits ==
  [][device'.cert # device.cert /\ device'.cert # None =>
       device'.cert = device.csr \/ away]_vars

\* What a device is given for order o in this step, and a pass whose request, as the device
\* answered it, is not for the order of the pass.
Certified(o) == device'.cert # None /\ device'.cert.order = o
Unlike(o) == \E p \in Passes : pass[p].order = o /\ pass[p].csr # None /\ pass[p].csr.order # o
Taken(o) == \E p \in Passes : pass[p].order = o

\* An order leaves the cache when a device has its certificate.  (Or a newer one takes its
\* place, before or after a pass has taken it; or it came behind the order that the pass now
\* ending had taken.)  And what a pass has taken, replaced in the cache or not, ends with
\* the certificate.  For both the device must not answer with a request for something else,
\* nothing may fail or be refused, and the device must not have been away.
OrderKept ==
  [][\A o \in Orders :
       /\ cached = o /\ cached' # o =>
            Certified(o) \/ cached' # None \/ o \in late \/ Unlike(o) \/ failed' \/ away
       /\ Taken(o) /\ ~Taken(o)' => Certified(o) \/ Unlike(o) \/ failed' \/ away]_vars

=============================================================================

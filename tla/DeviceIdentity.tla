--------------------------- MODULE DeviceIdentity ----------------------------
(***************************************************************************)
(* What the personalization of a device promises of the identity it leaves *)
(* in flash, without saying how: a key, a certificate that exists only     *)
(* while the key does, and a status that says INIT only after a            *)
(* certificate was stored.                                                 *)
(***************************************************************************)
CONSTANTS Keys, Certs, None

VARIABLES
  key,    \* the key in the store, or None
  cert,   \* the certificate in the store, or None
  status  \* has the device been marked as personalized

vars == << key, cert, status >>

Init ==
  /\ key = None
  /\ cert = None
  /\ status = FALSE

\* The store is emptied: the key and its certificate go together.
Erase ==
  /\ key' = None
  /\ cert' = None
  /\ UNCHANGED status

\* A key is only ever put where there was none.
NewKey ==
  /\ key = None
  /\ cert = None
  /\ \E k \in Keys : key' = k
  /\ UNCHANGED << cert, status >>

\* A certificate is stored beside a key, or is taken out while another is written.
Certify ==
  /\ key # None
  /\ \E c \in Certs \cup {None} : cert' = c
  /\ UNCHANGED << key, status >>

\* The device is marked only while key and certificate are both in the store.
Mark ==
  /\ key # None
  /\ cert # None
  /\ status' = TRUE
  /\ UNCHANGED << key, cert >>

\* A mark that was never committed may be gone after a restart.
Unmark ==
  /\ status' = FALSE
  /\ UNCHANGED << key, cert >>

Next == Erase \/ NewKey \/ Certify \/ Mark \/ Unmark

Spec == Init /\ [][Next]_vars

CertNeedsKey == cert # None => key # None
=============================================================================

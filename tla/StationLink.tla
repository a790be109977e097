----------------------------- MODULE StationLink -----------------------------
(***************************************************************************)
(* What the rest of the firmware may assume of the Wi-Fi station: a link   *)
(* that is sought, comes up, drops, is sought again, and once the station  *)
(* has given up stays down until the chip restarts; and an event group     *)
(* that tells, once and for all, that the first attempt came to an end.    *)
(* Module WifiStation implements it, and module Perso builds on it.        *)
(***************************************************************************)

VARIABLES
  link,   \* can the device be reached
  bits    \* WIFI_CONNECTED_BIT or WIFI_FAIL_BIT is set; nothing clears them

linkVars == << link, bits >>

Links == {"off", "joining", "up", "failed"}

LinkTypeOK == link \in Links /\ bits \in BOOLEAN

LinkInit == link = "off" /\ bits = FALSE

\* esp_wifi_start: the station starts to look for its access point.
LinkStart == link = "off" /\ link' = "joining" /\ UNCHANGED bits
\* The station is associated and has its address.
LinkJoin == link = "joining" /\ link' = "up" /\ UNCHANGED bits
\* The access point is gone; the station tries again.
LinkDrop == link = "up" /\ link' = "joining" /\ UNCHANGED bits
\* The event that tells of an address is handled, which may be after the link is gone.
LinkTold == link # "off" /\ ~bits /\ bits' = TRUE /\ UNCHANGED link
\* The retries are used up, and nothing tries again.
LinkGiveUp == link = "joining" /\ link' = "failed" /\ bits' = TRUE

LinkChanges == LinkJoin \/ LinkDrop \/ LinkTold \/ LinkGiveUp
LinkNext == LinkStart \/ LinkChanges

LinkSpec == LinkInit /\ [][LinkNext]_linkVars
=============================================================================

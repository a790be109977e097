------------------------------- MODULE MCMdns -------------------------------
(* The responder with two interfaces on which it may find itself twice. *)
EXTENDS MdnsResponder, TLC

CONSTANTS sta, eth, v4, v6, s1, s2

MCDuplicate == (sta :> eth) @@ (eth :> sta)
MCKind == (s1 :> "_http._tcp") @@ (s2 :> "_ssh._tcp")
MCTwins == (s1 :> "_http._tcp") @@ (s2 :> "_http._tcp")
=============================================================================

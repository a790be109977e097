----------------------------- MODULE MdnsLists ------------------------------
(***************************************************************************)
(* The linked lists of the mDNS component, as sequences: services, hosts,   *)
(* searches and scheduled packets are taken out of them one by one, and     *)
(* what is left keeps its order.                                            *)
(***************************************************************************)
EXTENDS Integers, Sequences

\* What is left of a list after its first n elements were looked at.
Kept(list, S) ==
  LET kept[n \in 0 .. Len(list)] ==
        IF n = 0 THEN <<>>
        ELSE IF list[n] \in S THEN kept[n - 1] ELSE Append(kept[n - 1], list[n])
  IN  kept

\* A list without the elements of S.
Without(list, S) == Kept(list, S)[Len(list)]

=============================================================================

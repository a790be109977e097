------------------------------ MODULE MCPerso --------------------------------
(***************************************************************************)
(* Model values for Perso: the connections and the production orders the   *)
(* configurations choose from.                                             *)
(***************************************************************************)
EXTENDS Perso, TLC

CONSTANTS c1, c2, o1, o2

MCConns == {c1, c2}
MCOneConn == {c1}
MCOrders == {o1}
MCTwoOrders == {o1, o2}
MCNoOrders == {}

\* The connections are alike.  (Sound for the runs without liveness.)
MCSymmetry == Permutations(MCConns)
=============================================================================

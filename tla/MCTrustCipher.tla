---------------------------- MODULE MCTrustCipher ----------------------------
(***************************************************************************)
(* Blocks of two one-bit bytes and a block cipher on them.                 *)
(***************************************************************************)
EXTENDS TrustCipher

CONSTANT MaxBlocks  \* bound: the blocks of an input

MCByte == {0, 1}
MCXorByte == [a \in MCByte |-> [b \in MCByte |-> (a + b) % 2]]

\* A permutation that moves every block, and is not its own inverse.
MCE == [b \in Blocks |-> << 1 - b[2], b[1] >>]
MCD == [b \in Blocks |-> CHOOSE a \in Blocks : MCE[a] = b]

MCInputs ==
  {b \in [blocks : UNION {[1 .. q -> Blocks] : q \in 0 .. MaxBlocks}, size : 0 .. UINT16_MAX] :
     Len(b.blocks) = Qtd(b.size)}
=============================================================================

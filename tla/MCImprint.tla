----------------------------- MODULE MCImprint ------------------------------
\* Constants for checking ImprintFlow: two passes may overlap, and a third order can
\* come while they do.  Orders, and passes, are interchangeable.
EXTENDS ImprintFlow, TLC

Symmetry == Permutations(Orders) \cup Permutations(Passes)
=============================================================================

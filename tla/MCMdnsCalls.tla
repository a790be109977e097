---------------------------- MODULE MCMdnsCalls -----------------------------
\* Constants for checking MdnsCalls: two tasks, and room for two services.
\* Tasks, addresses and hostnames are interchangeable, and no property is temporal.
EXTENDS MdnsCalls, TLC

Symmetry == Permutations(Tasks) \cup Permutations(Items) \cup Permutations(Hosts)
=============================================================================

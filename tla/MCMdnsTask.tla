----------------------------- MODULE MCMdnsTask -----------------------------
\* Constants for checking MdnsTask: a blocking query for one answer and an
\* asynchronous one.
EXTENDS MdnsTask

CONSTANTS q1, q2
MCMaxResults == [q \in Queries |-> 1]
=============================================================================

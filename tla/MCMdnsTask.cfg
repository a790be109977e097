SPECIFICATION Spec
CONSTANTS
  q1 = q1
  q2 = q2
  Queries = {q1, q2}
  Async = {q2}
  MaxResults <- MCMaxResults
  Timeout = 0
  Packets = {p1, p2}
  Delays = {0, 1}
  QueueLen = 2
  MaxInputs = 2
  NoAction = NoAction
  NoOne = NoOne
INVARIANTS
  TypeOK
  TxInOrder
  NoFreedSearch
  NeverForgotten
PROPERTIES
  EndsForAReason
  QueryReturns
CHECK_DEADLOCK FALSE

SPECIFICATION FairSpec
CONSTANTS
  originator = originator
  first = first
  second = second
  first1 = first1
  first2 = first2
  second1 = second1
  Node = {originator, first, second}
  Owner = originator
  Entry = {first1, first2, second1}
  Sender <- MCSender
  Answers = {second1}
  Overlap = FALSE
CHECK_DEADLOCK FALSE
INVARIANTS
  TypeOK
  HandledOnce
  CausalOrder
PROPERTIES
  EveryMessageHandled

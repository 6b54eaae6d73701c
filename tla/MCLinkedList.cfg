CONSTANTS
  Node = {n1, n2, n3, n4}
  head = head
  NULL = NULL
  Garbage = Garbage
SPECIFICATION FairSpec
INVARIANTS
  RingSound
  LoopMeetsEveryNode
PROPERTIES
  LoopsEnd

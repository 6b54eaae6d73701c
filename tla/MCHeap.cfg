CONSTANTS
  ALLOC_HEADER_SZ = 12
  ALLOC_NODE_SZ = 16
  MIN_PAYLOAD = 32
  PTR_SZ = 4
  SIZE_MOD = 1024
  HEAP_ADDR = 1001
  HEAP_SIZE = 150
  Requests = {0, 3, 28, 60}
  MaxDrift = 8
SPECIFICATION Spec
INVARIANTS
  TypeOK
  ListSound
  SpaceConserved
  LayoutSound
  NoAdjacentPairLeft
  BigEnough
PROPERTIES
  HeldBlocksUntouched
  ImplementsRegions

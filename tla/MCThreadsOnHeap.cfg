CONSTANTS
  ALLOC_HEADER_SZ = 12
  ALLOC_NODE_SZ = 16
  MIN_PAYLOAD = 32
  PTR_SZ = 4
  SIZE_MOD = 1024
  HEAP_ADDR = 1001
  HEAP_SIZE = 331
  Requests = {3, 28, 60}
  MaxDrift = 8
  OtherRequests = {3}
  THREAD_SZ = 28
  THREAD_DEFAULT_STACK_SIZE = 60
SPECIFICATION TSpec
INVARIANTS
  MemorySound
  OverrunAtMostDrift
PROPERTIES
  CreationsAreAtomic
CHECK_DEADLOCK FALSE

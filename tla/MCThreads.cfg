CONSTANTS
  Memory = {m1, m2, m3, m4, m5, m6, m7, m8}
  NULL = NULL
  ID_MOD = 16
SPECIFICATION FairSpec
INVARIANTS
  TypeOK
  QueueSound
  StacksSound
PROPERTIES
  ImplementsCoop
  EveryThreadFinishes

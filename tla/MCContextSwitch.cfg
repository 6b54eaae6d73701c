CONSTANTS
  Thread = {t1, t2}
  Boot = boot
  Words = 34
  MaxLocals = 1
SPECIFICATION Spec
INVARIANTS
  StacksSound
  ThreadsGoOn
PROPERTIES
  InterruptGoesUnnoticed

CONSTANTS
  I8254_OSCIL_FREQ = 50
  BYTE_MOD = 4
  TICK_MOD = 24
  Freqs = {4}
  Times = {0, 1, 2, 3}
  SleepsMayWrap = TRUE
SPECIFICATION Spec
PROPERTIES
  NeverEarly

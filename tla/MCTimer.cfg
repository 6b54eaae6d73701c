CONSTANTS
  I8254_OSCIL_FREQ = 50
  BYTE_MOD = 4
  TICK_MOD = 24
  Freqs = {3, 4, 5, 7, 20}
  Times = {0, 1, 2, 3}
  SleepsMayWrap = FALSE
SPECIFICATION FairSpec
INVARIANTS
  ChannelSound
PROPERTIES
  NeverEarly
  AtMostOneTickLate
  SleepEnds

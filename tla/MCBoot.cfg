\* The kernel from power-on.
CONSTANTS
  Devices <- MCDevices
  FirmwareMasks <- MCFirmwareMasks
  Raised <- MCRaised
  Divisors <- MCDivisors
  MaxWritten = 3
SPECIFICATION KSpec
INVARIANTS
  BootSurvives
  InterruptsEnterIsrMain
  LineSound
PROPERTIES
  KernelKeepsTime
  PanicIsReported

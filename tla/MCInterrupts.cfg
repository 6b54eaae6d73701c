\* The timer's line and the lowest line of each controller, which spurious interrupts
\* use too; 200 is an IRQ number that the first assertion rejects.
CONSTANTS
  Devices = {0, 7, 15}
  ClientIrqs = {0, 7, 15, 200}
  Drivers = {d1, d2}
  NULL = NULL
SPECIFICATION FairSpec
INVARIANTS
  DispatchSound
  InServiceIsOurs
  RequestReachesItsDriver
PROPERTIES
  PanicIsFinal
  ImplementsService
  TimerIsServed

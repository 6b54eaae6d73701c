\* 16 is the first number past the table.
CONSTANTS
  Devices = {0}
  ClientIrqs = {0, 16}
  Drivers = {d1}
  NULL = NULL
SPECIFICATION Spec
INVARIANTS
  StoresStayInTable

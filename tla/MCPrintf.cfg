CONSTANTS
  PRINTF_NTOA_BUFFER_SIZE = 6
  PRINTF_FTOA_BUFFER_SIZE = 12
  PRINTF_DEFAULT_FLOAT_PRECISION = 2
  FTOA_MAX_PREC = 2
  MANTISSA_BITS = 8
  SIZE_MAX = 99
  CHAR_BITS = 3
  SHORT_BITS = 4
  INT_BITS = 6
  LONG_LONG_BITS = 10
  Cells = 16
  Calls <- MCCalls
SPECIFICATION Spec
INVARIANTS
  CallSound
  FieldsSound
  FixedIsNearest

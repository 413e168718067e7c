SPECIFICATION CrcSpec
CONSTANTS
  Bytes <- TheBytes
  MaxLen = 2
INVARIANTS
  TableMatchesPolynomial
  CrcIsRemainder
CHECK_DEADLOCK FALSE

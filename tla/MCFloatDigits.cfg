SPECIFICATION FormatSpec
CONSTANTS
  Precision = 5
  MinExp <- MCMinExp
  MaxBiased = 17
  Exponents <- MCExponents
  Places <- MCPlaces
  Slack = 16
  MaxDigits = 3
  Floats <- MCFloats
INVARIANTS
  FormatTypeOK
  RoundTrips
  Shortest
  Nearest
  LayoutDenotes

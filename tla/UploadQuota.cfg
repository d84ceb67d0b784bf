SPECIFICATION UploadSpec
CONSTANTS
  Upload = {u1, u2, u3}
  Old = {u3}
  Quota = 2
  MaxTroubles = 2
INVARIANT BytesFit
PROPERTY ReservationEnds
CHECK_DEADLOCK FALSE

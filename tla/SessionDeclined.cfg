\* A restart that did not start a subprocess.
CONSTANTS
  NumDongles  = 2
  TxCapable   = {1}
  Addrs       = {a1}
  NoAddr      = none
  MayFail     = {"quiet"}
  Threshold   = 1
  MinGap      = 1
  MaxAttempts = 1
SPECIFICATION FairSpec
PROPERTY DeclinedRestartsAreRetried

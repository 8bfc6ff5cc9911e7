\* A restart of a scanning sniffer.
CONSTANTS
  NumDongles  = 2
  TxCapable   = {1}
  Addrs       = {a1}
  NoAddr      = none
  MayFail     = {}
  Threshold   = 1
  MinGap      = 1
  MaxAttempts = 1
SPECIFICATION Spec
PROPERTY RestartResumesWork

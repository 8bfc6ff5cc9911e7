\* Three dongles that come and go, every role, every way of failing starts.
CONSTANTS
  NumDongles = 3
  TxCapable  = {2}
  Addrs      = {a1}
  NoAddr     = none
  MayFail    = {"raise", "quiet"}
  PinChoices = {{37}, {38, 39}, {37, 38, 39}}
SPECIFICATION CliSpec
INVARIANTS ScanCoversTheRest GapsAreFilled CoverageComesBack
CONSTRAINT FewFail
\* the program ends
CHECK_DEADLOCK FALSE

\* A known deviation (README, section 4): a dongle that is gone keeps its channel.
CONSTANTS
  NumDongles = 3
  TxCapable  = {2}
  Addrs      = {a1}
  NoAddr     = none
  MayFail    = {}
  PinChoices = {{37}, {38, 39}, {37, 38, 39}}
SPECIFICATION CliSpec
INVARIANT PresentDonglesFillGaps
CONSTRAINT FewFail
\* the program ends
CHECK_DEADLOCK FALSE

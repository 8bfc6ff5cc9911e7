\* A kit, a dongle without a serial number, a unit that is no sniffer; two ports.
CONSTANTS
  Serialled = {s1}
  Plain     = {u1}
  Others    = {o1}
  Kits      = {s1}
  NoUnit    = noUnit
  NumPorts  = 2
  MayFail   = {"probe", "db"}
  MaxStalls = 1
  MaxPlugs  = 3
SPECIFICATION Spec
INVARIANTS CapturingIsShownActive PanelShowsTheTable
PROPERTY PresentSniffersStayActive

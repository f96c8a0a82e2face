\* One pad client running sessions while mmce installs its hook at start-up.
CONSTANTS
  Clients <- MC_PadOnly
  InitEntry <- MC_PadEntry
  LoadOrders = {"loaded"}
  Versions <- MC_Supported
  ClientsDuringInstall = TRUE
  None = None
  c1 = c1
  c2 = c2
SPECIFICATION Spec
PROPERTY ChannelExclusive

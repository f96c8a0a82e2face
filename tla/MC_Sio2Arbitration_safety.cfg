\* A pad and a memory-card client, sio2man loaded before or after mmce; clients
\* start sessions once the hook is installed; fair scheduling of started work.
CONSTANTS
  Clients <- MC_Clients
  InitEntry <- MC_InitEntry
  LoadOrders = {"loaded", "later"}
  Versions <- MC_Supported
  ClientsDuringInstall = FALSE
  None = None
  c1 = c1
  c2 = c2
SPECIFICATION FairSpec
PROPERTY ChannelExclusive
 
INVARIANT HandlerRouting

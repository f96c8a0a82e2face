\* Cards on any subset of the two ports; mmceman (probe, then every devctl
\* command) or mmcedrv (port setting, every export) or mmceigr (boot-card switch) loaded.
CONSTANTS
  Ports = {2, 3}
  DeviceReplies <- MC_DeviceReplies
  NoAckReplies <- MC_NoAckReplies
  Payloads <- MC_Payloads
  SetGameidLens <- MC_SetLens
  GetGameidLens <- MC_GetLens
  Programs = {"mmceman", "mmcedrv", "mmceigr"}
  HeaderStatuses = {0, 255}
  TrailerWords <- MC_TrailerWords
  DrvSize = 2
  ConfigPorts <- MC_ConfigPorts
  IgrArgcs <- MC_IgrArgcs
  IgrArgvs <- MC_IgrArgvs
  FrameSectors <- MC_FrameSectors
  FrameInts <- MC_FrameInts
SPECIFICATION Spec
INVARIANTS
  TypeOK
  DeviceAnswered
  DrvLockBracket
  IgrReadyMeansSwitched
  FramesCarryRequest
PROPERTIES
  ProbeEnds
  IgrEnds

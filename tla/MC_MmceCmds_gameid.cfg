\* devctl MMCE_CMD_SET_GAMEID with a 250-character game id.
CONSTANTS
  Ports = {2, 3}
  DeviceReplies <- MC_DeviceReplies
  NoAckReplies <- MC_NoAckReplies
  Payloads <- MC_Payloads
  SetGameidLens <- MC_LongSetLen
  GetGameidLens <- MC_GetLens
  Programs = {"mmceman"}
  HeaderStatuses = {0, 255}
  TrailerWords <- MC_TrailerWords
  DrvSize = 2
  ConfigPorts <- MC_ConfigPorts
  IgrArgcs <- MC_IgrArgcs
  IgrArgvs <- MC_IgrArgvs
  FrameSectors <- MC_FrameSectors
  FrameInts <- MC_FrameInts
SPECIFICATION Spec
INVARIANT GameidInBounds

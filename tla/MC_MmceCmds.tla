------------------------------ MODULE MC_MmceCmds ------------------------------
(* Model-checking instance of MmceCmds.                                     *)
EXTENDS MmceCmds

(* A card answers with the reply constant or with a wrong byte; an         *)
(* undriven line reads 0xFF.                                                *)
MC_DeviceReplies == {170, 0}
MC_NoAckReplies == {255}

(* Smallest and largest payload bytes.                                      *)
MC_Payloads == {<<0, 0, 0>>, <<255, 255, 255>>}

(* Game ids of 0 and 249 characters (the longest set_gameid frames         *)
(* correctly), a 250-character one, and card answers of 0 and 250          *)
(* characters (the longest string rdbuf can hold with its NUL).            *)
MC_SetLens == {0, 249}
MC_LongSetLen == {250}
MC_GetLens == {0, 250}

(* Trailer words: the requested count (2), an over-report, and a count     *)
(* with the top bit set.                                                    *)
MC_TrailerWords == {<<0, 0, 0, 2>>, <<0, 0, 0, 3>>, <<128, 0, 0, 0>>}

(* Port settings: both memory-card ports and a rejected value.             *)
MC_ConfigPorts == {1, 2, 3}

(* mmceigr started with its argument ("1" selects port 2 only, "10" port   *)
(* 2, "01" port 3) or with none (argc = 1, argv[1] = NULL).               *)
MC_IgrArgcs == {1, 2}
MC_IgrArgvs == {<<"1">>, <<"1", "0">>, <<"0", "1">>}

(* Sector values at each byte boundary and the last sector of a DVD-9;    *)
(* ints at the byte boundaries, the extremes and negative offsets.        *)
MC_FrameSectors == {0, 1, 255, 256, 65535, 65536, 4173823}
MC_FrameInts == {0, 1, 2048, 16777216, 2147483647, -1, -2048, -2147483647}
=============================================================================

--------------------------- MODULE MC_Sio2Transfer ---------------------------
(* Model-checking instance of Sio2Transfer.                                 *)
EXTENDS Sio2Transfer

(* No bulk bytes; a DMA+PIO burst; 16 elements then a PIO-only burst; 16    *)
(* then one element (tx_mixed: full stage then a sub-4KB DMA stage).        *)
MC_Sizes == {0, 300, 4140, 4352}

(* Alarms orphaned by concurrent use_alarm writes accumulate; two are      *)
(* enough to exhibit the failure.                                          *)
StaleBound == stale <= 2
=============================================================================

-------------------------- MODULE MC_Sio2Arbitration --------------------------
(* Model-checking instance of Sio2Arbitration.                              *)
EXTENDS Sio2Arbitration

CONSTANTS c1, c2

(* c1 is a pad client (entry 23), c2 a memory-card client (entry 24).       *)
MC_Clients == {c1, c2}
MC_InitEntry == [c \in MC_Clients |-> IF c = c1 THEN 23 ELSE 24]
MC_PadOnly == {c1}
MC_PadEntry == [c \in MC_PadOnly |-> 23]

(* rom1:SIO2MAN 2.3.                                                        *)
MC_Supported == {<<2, 3>>}
=============================================================================

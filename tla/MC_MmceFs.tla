------------------------------ MODULE MC_MmceFs ------------------------------
(* Instantiates MmceFs for TLC: model values for threads, file objects     *)
(* and NULL; the handle table shrunk from 16 to 2 slots so that it fills.  *)
EXTENDS MmceFs, TLC

CONSTANTS t1, t2, f1, f2, f3

MC_Threads1 == {t1}
MC_Threads2 == {t1, t2}
MC_Files3   == {f1, f2, f3}
MC_Files2   == {f1, f2}

(* Device replies: an ordinary descriptor, a reserved one, the failure     *)
(* sentinel 0xFF.                                                          *)
MC_DevFds == {0, 250, 255}

(* Count fields of the read/write trailer: an under- and an over-report.   *)
MC_Counts == {<<0, 0, 0, 1>>, <<0, 0, 0, 3>>}

(* 0x80000000: a count with the top bit set.                               *)
MC_TopBitCount == {<<128, 0, 0, 0>>}

MC_AllCounts == MC_Counts \cup MC_TopBitCount

MC_AllOps == AllOps

Symmetry1 == Permutations(MC_Files3)
=============================================================================

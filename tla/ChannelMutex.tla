---------------------------- MODULE ChannelMutex ----------------------------
(***************************************************************************)
(* What channel arbitration promises (spec sections 3, 4.2 and 5): the     *)
(* SIO2 channel has at most one owner at a time, either the mmce driver    *)
(* for a whole locked operation or one sio2man client for a whole session  *)
(* (transfer_init to transfer_reset), and ownership passes only through    *)
(* "free".                                                                 *)
(***************************************************************************)
CONSTANTS Actors, Free

VARIABLE owner

Init == owner = Free

Acquire(a) == owner = Free /\ owner' = a

Release(a) == owner = a /\ owner' = Free

Next == \E a \in Actors : Acquire(a) \/ Release(a)

Spec == Init /\ [][Next]_owner
=============================================================================

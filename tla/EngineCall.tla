----------------------------- MODULE EngineCall -----------------------------
(***************************************************************************)
(* What one call of the transfer engine promises its callers (spec         *)
(* section 4.1, "Failure semantics"; section 7): a call of size n moves    *)
(* the bytes of its buffer in order, each byte once, never past n; it      *)
(* returns 0 only once all n bytes have moved, and -1 (a timeout) at any   *)
(* point, after which nothing more moves.  There is no retry inside the    *)
(* engine.  This is the exchange that MmceFs and MmceCmds take as a single *)
(* step that succeeds or fails.                                            *)
(*                                                                         *)
(* delivered is the sequence of byte ranges <<offset, length>> moved so    *)
(* far; the last range of a successful call may move in the same step as   *)
(* the return (rx_mixed drains its PIO remainder on the way out).          *)
(***************************************************************************)
EXTENDS Integers, Sequences

VARIABLES
  state,      \* "idle" or "busy"
  want,       \* size of the call in progress (or last returned)
  delivered,  \* ranges moved by that call, in order
  result      \* value the last call returned

(* First byte not yet moved.                                               *)
Reached(s) == IF s = <<>> THEN 0 ELSE s[Len(s)][1] + s[Len(s)][2]

Init ==
  /\ state = "idle"
  /\ want = 0
  /\ delivered = <<>>
  /\ result = 0

Begin ==
  /\ state = "idle"
  /\ state' = "busy"
  /\ want' \in Nat
  /\ delivered' = <<>>
  /\ UNCHANGED result

(* The next k bytes move.                                                  *)
MoveNext(k) == delivered' = Append(delivered, <<Reached(delivered), k>>)

Deliver ==
  /\ state = "busy"
  /\ \E k \in 1..(want - Reached(delivered)) : MoveNext(k)
  /\ UNCHANGED <<state, want, result>>

Succeed ==
  /\ state = "busy"
  /\ \/ Reached(delivered) = want /\ UNCHANGED delivered
     \/ Reached(delivered) < want /\ MoveNext(want - Reached(delivered))
  /\ state' = "idle"
  /\ result' = 0
  /\ UNCHANGED want

Fail ==
  /\ state = "busy"
  /\ state' = "idle"
  /\ result' = -1
  /\ UNCHANGED <<want, delivered>>

Next == Begin \/ Deliver \/ Succeed \/ Fail

Spec == Init /\ [][Next]_<<state, want, delivered, result>>
=============================================================================

---------------------------- MODULE Sio2Transfer ----------------------------
(***************************************************************************)
(* The SIO2 transfer engine of src/iop/sio/mmceman/src/mmce_sio2.c: one    *)
(* caller thread (holding the SIO2 lock) runs mmce_sio2_tx_rx_pio,         *)
(* mmce_sio2_rx_dma, mmce_sio2_rx_mixed and mmce_sio2_tx_mixed, racing     *)
(* three other actors:                                                     *)
(*   - the SIO2 hardware, whose completion interrupt runs                  *)
(*     mmce_sio2_intr_handler (sets EF_SIO2_INTR_COMPLETE);                *)
(*   - the alarm timer, whose expiry runs mmce_sio2_timeout_handler (sets  *)
(*     EF_SIO2_TRANSFER_TIMEOUT);                                          *)
(*   - another thread calling mmce_sio2_set_use_alarm through devctl,      *)
(*     which does not take the SIO2 lock.                                  *)
(* A burst is one queue of transfer registers started with ctrl 0x3a1 and  *)
(* awaited with WaitEventFlag.  Byte ranges are tracked so that the        *)
(* arithmetic of the DMA/PIO split is checked; the bytes themselves are    *)
(* not.                                                                    *)
(***************************************************************************)
EXTENDS Integers, Sequences, FiniteSets

CONSTANTS
  Sizes,         \* size arguments of the bulk transfers
  AlarmSettings, \* values devctl may give mmce_sio2_use_alarm
  ConcurrentSettings \* devctl may run on another thread during a transfer

ASSUME Sizes \subseteq Nat /\ AlarmSettings \subseteq BOOLEAN
       /\ ConcurrentSettings \in BOOLEAN

VARIABLES
  ef,         \* bits set in event_flag: subset of {"COMPLETE", "TIMEOUT"}
  armed,      \* alarms armed for the burst in progress
  stale,      \* alarms armed for a burst that has already ended
  hw,         \* SIO2 transfer state: "idle", "busy", "done"
  use_alarm,  \* mmce_sio2_use_alarm
  fn,         \* engine function in progress: "pio", "rx_dma", "rx_mixed", "tx_mixed"
  size,       \* its size argument
  pc,         \* "idle", "loop", "wait", "cancel", "clear"
  elements,   \* DMA elements (256 bytes) not yet queued
  pio_size,   \* PIO remainder still to send (tx) / of the transfer (rx)
  bytes_done, \* bytes_done (elements_done * 256 for rx_dma)
  offset_pio, \* where the rx PIO remainder goes in the buffer
  waiting,    \* tx_mixed: TRUE in the WAITING stage
  burst,      \* the burst in flight: its kind, DMA and PIO ranges, register count
  fifo_pio,   \* the rx PIO remainder is sitting in the RX FIFO
  moved,      \* byte ranges <<offset, length>> moved to/from the buffer, in order
  ret         \* return value of the last call

vars == <<ef, armed, stale, hw, use_alarm, fn, size, pc, elements, pio_size,
          bytes_done, offset_pio, waiting, burst, fifo_pio, moved, ret>>

NoRange == <<0, 0>>
Fns == {"pio", "rx_dma", "rx_mixed", "tx_mixed"}

Min2(a, b) == IF a < b THEN a ELSE b

(* Append a range unless it is empty.                                      *)
Move(s, r) == IF r[2] = 0 THEN s ELSE Append(s, r)

(* Variant of RxAlarm (mutation run): the rx functions never arm alarms.  *)
RxAlarmNever == FALSE

(* mmce_sio2_rx_dma/rx_mixed arm and cancel the alarm only when            *)
(* mmce_sio2_use_alarm is set; tx_rx_pio and tx_mixed always do.  The      *)
(* flag is read anew at each of the two places.                            *)
RxAlarm == use_alarm

UsesAlarm == IF fn \in {"rx_dma", "rx_mixed"} THEN RxAlarm ELSE TRUE

-----------------------------------------------------------------------------
(* Variants of the mapped definitions below, each a plausible slip in the  *)
(* code it models; the mutation runs substitute them one at a time.        *)

RxMixedBurstPioAfter16 ==
  LET do  == Min2(elements, 16)
      pio == do <= 16 /\ pio_size # 0
  IN  [kind |-> "data",
       dma  |-> <<bytes_done, do * 256>>,
       pio  |-> IF pio THEN <<bytes_done + do * 256, pio_size>> ELSE NoRange,
       regs |-> do + (IF pio THEN 1 ELSE 0)]

RxMixedBurstPioAtOffset ==
  LET do  == Min2(elements, 16)
      pio == do < 16 /\ pio_size # 0
  IN  [kind |-> "data",
       dma  |-> <<bytes_done, do * 256>>,
       pio  |-> IF pio THEN <<bytes_done, pio_size>> ELSE NoRange,
       regs |-> do + (IF pio THEN 1 ELSE 0)]

TimeoutResetKeepsFlags ==
  /\ hw' = "idle"
  /\ ef' = ef \ {"TIMEOUT"}
  /\ armed' = 0
  /\ stale' = stale + armed

CancelAssumesArmed ==
  IF UsesAlarm THEN armed' = armed - 1 /\ UNCHANGED stale
               ELSE UNCHANGED <<armed, stale>>

CancelSkipped == UNCHANGED <<armed, stale>>

-----------------------------------------------------------------------------
(* One iteration of mmce_sio2_rx_mixed: up to 16 DMA elements, plus the    *)
(* PIO element when fewer than 16 were queued and a remainder exists.      *)
RxMixedBurst ==
  LET do  == Min2(elements, 16)
      pio == do < 16 /\ pio_size # 0
  IN  [kind |-> "data",
       dma  |-> <<bytes_done, do * 256>>,
       pio  |-> IF pio THEN <<bytes_done + do * 256, pio_size>> ELSE NoRange,
       regs |-> do + (IF pio THEN 1 ELSE 0)]

(* One iteration of mmce_sio2_rx_dma: up to 16 DMA elements.              *)
RxDmaBurst ==
  LET do == Min2(elements, 16)
  IN  [kind |-> "data", dma |-> <<bytes_done, do * 256>>, pio |-> NoRange,
       regs |-> do]

(* The TRANSFER stage of mmce_sio2_tx_mixed: a full 4KB burst, else the    *)
(* remaining DMA elements, else the PIO remainder (its own burst).         *)
TxBurst ==
  LET do == Min2(elements, 16)
  IN  IF do # 0
        THEN [kind |-> IF do = 16 THEN "full" ELSE "subdma",
              dma |-> <<bytes_done, do * 256>>, pio |-> NoRange, regs |-> do]
        ELSE [kind |-> "subpio", dma |-> NoRange,
              pio |-> <<bytes_done, pio_size>>, regs |-> 1]

(* A single PIO exchange: tx_rx_pio, or the readiness poll of the WAITING  *)
(* stage (tx_rx_pio(0, 2)).                                                *)
PioBurst(k) == [kind |-> k, dma |-> NoRange, pio |-> NoRange, regs |-> 1]

(* Reset SIO2 and FIFOs (0x3ac), queue the registers, start (0x3a1), and   *)
(* SetAlarm when this function uses alarms.                                *)
StartBurst(b) ==
  /\ burst' = b
  /\ hw' = "busy"
  /\ fifo_pio' = FALSE
  /\ armed' = IF UsesAlarm THEN armed + 1 ELSE armed
  /\ pc' = "wait"

(* The caller enters an engine function.  rx_dma is called by mmcedrv     *)
(* with count * 2048 bytes, so its size is a multiple of 256.              *)
Call(f, n) ==
  /\ pc = "idle"
  /\ f = "rx_dma" => n % 256 = 0
  /\ fn' = f
  /\ size' = IF f = "pio" THEN 0 ELSE n
  /\ elements' = n \div 256
  /\ pio_size' = IF f = "rx_dma" THEN 0 ELSE n % 256
  /\ bytes_done' = 0
  /\ offset_pio' = 0
  /\ waiting' = TRUE
  /\ moved' = <<>>
  /\ pc' = "loop"
  /\ UNCHANGED <<ef, armed, stale, hw, use_alarm, burst, fifo_pio, ret>>

Return(v) ==
  /\ pc' = "idle"
  /\ ret' = v

(* The loop head of each function: start the next burst, or return 0.      *)
(* tx_rx_pio is a single burst; tx_mixed returns from its WAITING stage.   *)
(* rx_mixed drains its PIO remainder from the RX FIFO on the way out.      *)
Loop ==
  /\ pc = "loop"
  /\ CASE fn = "pio" ->
            StartBurst(PioBurst("pio")) /\ UNCHANGED <<moved, ret>>
       [] fn = "rx_dma" ->
            IF elements # 0
              THEN StartBurst(RxDmaBurst) /\ UNCHANGED <<moved, ret>>
              ELSE Return(0) /\ UNCHANGED <<burst, hw, fifo_pio, armed, moved>>
       [] fn = "rx_mixed" ->
            IF bytes_done < size
              THEN StartBurst(RxMixedBurst) /\ UNCHANGED <<moved, ret>>
              ELSE /\ Return(0)
                   /\ moved' = IF pio_size # 0 /\ fifo_pio
                                 THEN Move(moved, <<offset_pio, pio_size>>)
                                 ELSE moved
                   /\ UNCHANGED <<burst, hw, fifo_pio, armed>>
       [] fn = "tx_mixed" ->
            IF waiting
              THEN StartBurst(PioBurst("poll")) /\ UNCHANGED <<moved, ret>>
              ELSE StartBurst(TxBurst) /\ UNCHANGED <<moved, ret>>
  /\ UNCHANGED <<ef, stale, use_alarm, fn, size, elements, pio_size,
                 bytes_done, offset_pio, waiting>>

(* The timeout branch: reset SIO2 (0x3ac) and clear both bits.  The alarm *)
(* of this burst, if it did not fire, outlives it.                         *)
TimeoutReset ==
  /\ hw' = "idle"
  /\ ef' = {}
  /\ armed' = 0
  /\ stale' = stale + armed

(* WaitEventFlag returns once a bit is set.  A timeout resets SIO2 (0x3ac) *)
(* and clears the flags; the function returns -1 without cancelling        *)
(* anything.  A completion goes on to CancelAlarm.                         *)
Wake ==
  /\ pc = "wait" /\ ef # {}
  /\ IF "TIMEOUT" \in ef
       THEN TimeoutReset /\ Return(-1)
       ELSE /\ pc' = "cancel"
            /\ UNCHANGED <<hw, ef, armed, stale, ret>>
  /\ UNCHANGED <<use_alarm, fn, size, elements, pio_size, bytes_done,
                 offset_pio, waiting, burst, fifo_pio, moved>>

(* CancelAlarm(mmce_sio2_timeout_handler, &event_flag) removes one alarm   *)
(* with that handler and argument, whichever burst armed it.               *)
CancelAlarm ==
  IF UsesAlarm
    THEN \/ armed > 0 /\ armed' = armed - 1 /\ UNCHANGED stale
         \/ stale > 0 /\ stale' = stale - 1 /\ UNCHANGED armed
         \/ armed + stale = 0 /\ UNCHANGED <<armed, stale>>
    ELSE UNCHANGED <<armed, stale>>

Cancel ==
  /\ pc = "cancel"
  /\ CancelAlarm
  /\ pc' = "clear"
  /\ UNCHANGED <<ef, hw, use_alarm, fn, size, elements, pio_size, bytes_done,
                 offset_pio, waiting, burst, fifo_pio, moved, ret>>

(* ClearEventFlag, then the bookkeeping after a completed burst.  Whatever *)
(* alarm of this burst is still armed outlives it.  tx_rx_pio returns      *)
(* here; so does tx_mixed when its readiness poll finds all bytes sent.    *)
Clear ==
  /\ pc = "clear"
  /\ ef' = {}
  /\ armed' = 0
  /\ stale' = stale + armed
  /\ IF burst.kind = "pio" \/ (burst.kind = "poll" /\ bytes_done >= size)
       THEN Return(0)
       ELSE pc' = "loop" /\ UNCHANGED ret
  /\ LET b == burst IN
     CASE b.kind = "data" /\ fn = "rx_mixed" ->
            /\ moved' = Move(moved, b.dma)
            /\ fifo_pio' = (b.pio # NoRange)
            /\ elements' = elements - b.dma[2] \div 256
            /\ bytes_done' = bytes_done + b.dma[2] + b.pio[2]
            /\ offset_pio' = IF b.pio # NoRange THEN b.pio[1] ELSE offset_pio
            /\ UNCHANGED <<pio_size, waiting>>
       [] b.kind = "data" ->
            /\ moved' = Move(moved, b.dma)
            /\ elements' = elements - b.dma[2] \div 256
            /\ bytes_done' = bytes_done + b.dma[2]
            /\ UNCHANGED <<fifo_pio, pio_size, offset_pio, waiting>>
       [] b.kind = "poll" ->
            /\ waiting' = (bytes_done >= size)
            /\ UNCHANGED <<moved, fifo_pio, elements, bytes_done, pio_size,
                           offset_pio>>
       [] b.kind \in {"full", "subdma"} ->
            /\ moved' = Move(moved, b.dma)
            /\ elements' = elements - b.dma[2] \div 256
            /\ bytes_done' = bytes_done + b.dma[2]
            /\ waiting' = (b.kind = "full" \/ pio_size = 0)
            /\ UNCHANGED <<fifo_pio, pio_size, offset_pio>>
       [] b.kind = "subpio" ->
            /\ moved' = Move(moved, b.pio)
            /\ bytes_done' = bytes_done + b.pio[2]
            /\ pio_size' = 0
            /\ waiting' = TRUE
            /\ UNCHANGED <<fifo_pio, elements, offset_pio>>
       [] b.kind = "pio" ->
            UNCHANGED <<moved, fifo_pio, elements, bytes_done, pio_size,
                        offset_pio, waiting>>
  /\ UNCHANGED <<hw, use_alarm, fn, size, burst>>

(* The transfer ends and the SIO2 interrupt runs mmce_sio2_intr_handler:   *)
(* acknowledge (stat 0x3) and set EF_SIO2_INTR_COMPLETE.  A device that    *)
(* never answers leaves the transfer busy: no fairness.                    *)
IntrHandler ==
  /\ hw = "busy"
  /\ hw' = "done"
  /\ ef' = ef \cup {"COMPLETE"}
  /\ UNCHANGED <<armed, stale, use_alarm, fn, size, pc, elements, pio_size,
                 bytes_done, offset_pio, waiting, burst, fifo_pio, moved, ret>>

(* An armed alarm expires and runs mmce_sio2_timeout_handler, which sets   *)
(* EF_SIO2_TRANSFER_TIMEOUT whatever burst, if any, is in flight.          *)
TimeoutHandler ==
  /\ \/ armed > 0 /\ armed' = armed - 1 /\ UNCHANGED stale
     \/ stale > 0 /\ stale' = stale - 1 /\ UNCHANGED armed
  /\ ef' = ef \cup {"TIMEOUT"}
  /\ UNCHANGED <<hw, use_alarm, fn, size, pc, elements, pio_size,
                 bytes_done, offset_pio, waiting, burst, fifo_pio, moved, ret>>

(* mmce_sio2_set_use_alarm, reached from devctl without the SIO2 lock.     *)
SetUseAlarm(v) ==
  /\ ConcurrentSettings \/ pc = "idle"
  /\ use_alarm' = v
  /\ UNCHANGED <<ef, armed, stale, hw, fn, size, pc, elements, pio_size,
                 bytes_done, offset_pio, waiting, burst, fifo_pio, moved, ret>>

NoBurst == [kind |-> "pio", dma |-> NoRange, pio |-> NoRange, regs |-> 0]

Init ==
  /\ ef = {}
  /\ armed = 0
  /\ stale = 0
  /\ hw = "idle"
  /\ use_alarm = TRUE
  /\ fn = "pio"
  /\ size = 0
  /\ pc = "idle"
  /\ elements = 0
  /\ pio_size = 0
  /\ bytes_done = 0
  /\ offset_pio = 0
  /\ waiting = TRUE
  /\ burst = NoBurst
  /\ fifo_pio = FALSE
  /\ moved = <<>>
  /\ ret = 0

Caller == Loop \/ Wake \/ Cancel \/ Clear

Next ==
  \/ \E f \in Fns, n \in Sizes : Call(f, n)
  \/ Caller
  \/ IntrHandler
  \/ TimeoutHandler
  \/ \E v \in AlarmSettings : SetUseAlarm(v)

(* The caller runs whenever it is not blocked; the IOP timer delivers      *)
(* every armed alarm.  The device gets no fairness.                        *)
Spec == Init /\ [][Next]_vars /\ WF_vars(Caller) /\ WF_vars(TimeoutHandler)

-----------------------------------------------------------------------------
Kinds == {"pio", "poll", "data", "full", "subdma", "subpio"}

TypeOK ==
  /\ ef \subseteq {"COMPLETE", "TIMEOUT"}
  /\ armed \in Nat /\ stale \in Nat
  /\ hw \in {"idle", "busy", "done"}
  /\ use_alarm \in BOOLEAN
  /\ fn \in Fns /\ size \in Nat
  /\ pc \in {"idle", "loop", "wait", "cancel", "clear"}
  /\ elements \in Nat /\ pio_size \in 0..255
  /\ bytes_done \in Nat /\ offset_pio \in Nat
  /\ waiting \in BOOLEAN /\ fifo_pio \in BOOLEAN
  /\ burst.kind \in Kinds /\ burst.regs \in Nat
  /\ ret \in {0, -1}

(* The SIO2 has 16 transfer registers: no burst of rx_dma, rx_mixed or    *)
(* tx_mixed may queue more (the elements_do / PIO-element arithmetic).     *)
QueueBound == burst.regs <= 16

(* Every call behaves as spec section 4.1 says an engine call does: it     *)
(* moves the bytes of [0, size) in order, each once, never past size;     *)
(* returns 0 only once all have moved (the rx PIO remainder still in the  *)
(* FIFO when it is drained after the last burst), and -1 on a timeout,    *)
(* after which nothing more moves.  The caller's pc maps to the abstract  *)
(* idle/busy; tx_rx_pio is a call of size 0.                               *)
Engine == INSTANCE EngineCall
            WITH state     <- IF pc = "idle" THEN "idle" ELSE "busy",
                 want      <- size,
                 delivered <- moved,
                 result    <- ret

EngineRefinement == Engine!Spec

(* A burst is taken as complete (CancelAlarm, ClearEventFlag, next burst) *)
(* only after the hardware completed it: no completion bit of an earlier  *)
(* burst survives into a later wait.                                      *)
CompletionIsCurrent == pc \in {"cancel", "clear"} => hw = "done"

(* No alarm outlives the burst that armed it: every SetAlarm is matched    *)
(* by the expiry or the CancelAlarm of the same burst, so no stray         *)
(* EF_SIO2_TRANSFER_TIMEOUT can fail a later transfer.                     *)
NoStaleAlarm == stale = 0

(* Every call that runs under a timeout returns, whether or not the device *)
(* answers: tx_rx_pio and tx_mixed always arm their alarm, rx_dma and      *)
(* rx_mixed when mmce_sio2_use_alarm is set.  With it cleared an rx call   *)
(* may wait forever on a silent device, which is what the setting means.   *)
TimedCall == fn \in {"pio", "tx_mixed"} \/ use_alarm

CallsReturn == (pc # "idle" /\ TimedCall) ~> (pc = "idle")
=====================================================================================================================================================

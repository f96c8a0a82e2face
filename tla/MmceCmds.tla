------------------------------ MODULE MmceCmds ------------------------------
(***************************************************************************)
(* The device command protocol (src/iop/sio/mmceman/src/mmce_cmds.c), the  *)
(* start-up probe of mmceman.c that uses it, and the exports of mmcedrv.c, *)
(* the other program built on the same engine (OPL's in-game driver).      *)
(*                                                                         *)
(* Every mmce_cmd_* is one PIO exchange under the channel lock: build the  *)
(* request frame, mmce_sio2_tx_rx_pio, unlock, then -1 on a timeout,       *)
(* -1 when rdbuf[1] is not MMCE_REPLY_CONST, else the decoded payload (or  *)
(* 0).  The exchange is the atomic "succeeds or times out" step; when it  *)
(* succeeds, rdbuf holds what the port's FIFO delivered.  The engine's     *)
(* interrupt handler signals completion without reading the SIO2 status,  *)
(* so an exchange with no device on the port can also "succeed": rdbuf    *)
(* then holds what the undriven line reads (NoAckReplies).                 *)
(*                                                                         *)
(* mmce_init(port) of mmceman.c selects the port and pings it up to six    *)
(* times; on the first answer it resets the card's filesystem.  _start     *)
(* does this for port 2, then port 3, then serves devctl commands.         *)
(*                                                                         *)
(* mmcedrv is loaded instead of mmceman: its __start probes nothing, so    *)
(* mmce_port keeps its static 0 until mmcedrv_config_set picks a port.     *)
(* Its read, write and read_sector hold the lock over three exchanges      *)
(* (header, bulk phase, trailer); get_size and lseek are single exchanges. *)
(* One loader thread calls the exports, one at a time.                     *)
(*                                                                         *)
(* mmceigr.c is a third, non-resident IRX loaded at in-game reset: its     *)
(* _start reads which ports to switch from argv[1], sends set_card(BOOT)  *)
(* to each and polls get_status until the card is no longer busy, at most *)
(* 15 times, with its own PIO routine that takes no lock and reads the    *)
(* SIO2 status register for the ACK timeout.                              *)
(***************************************************************************)
EXTENDS Integers, Sequences

CONSTANTS
  Ports,          \* the two memory-card ports, 2 and 3
  DeviceReplies,  \* rdbuf[1] values a card on the port may answer with
  NoAckReplies,   \* rdbuf[1] read from a port with no card
  Payloads,       \* rdbuf[3..5] of an answer, as byte triples
  SetGameidLens,  \* strlen of game ids given to devctl MMCE_CMD_SET_GAMEID
  GetGameidLens,  \* strlen of game ids a card answers MMCE_CMD_GET_GAMEID with
  Programs,       \* which IRX is loaded: "mmceman", "mmcedrv", "mmceigr"
  HeaderStatuses, \* rdbuf[9] of a card's answer to a read/write header
  TrailerWords,   \* 4-byte counts and positions a card reports
  DrvSize,        \* size requested by mmcedrv_read/write (sector count)
  ConfigPorts,    \* values given to mmcedrv_config_set(MMCEDRV_SETTING_PORT)
  IgrArgcs,       \* argc mmceigr is started with
  IgrArgvs,       \* argv[1] strings, as sequences of "0" and "1"
  FrameSectors,   \* sector numbers and counts given to mmcedrv_read_sector
  FrameInts       \* sizes and offsets given to mmcedrv_read/write/lseek

(* Sectors of the largest image read_sector serves: a dual-layer DVD.     *)
DVD9_SECTORS == 4173824

ASSUME Ports = {2, 3}
ASSUME Payloads \subseteq [1..3 -> 0..255]
ASSUME TrailerWords \subseteq [1..4 -> 0..255]
ASSUME Programs \subseteq {"mmceman", "mmcedrv", "mmceigr"}
ASSUME IgrArgvs \subseteq Seq({"0", "1"})
ASSUME FrameSectors \subseteq 0..DVD9_SECTORS
ASSUME FrameInts \subseteq -2147483647..2147483647

MMCE_REPLY_CONST == 170  \* 0xAA
PING_TRIES == 6          \* loop bound of mmce_init
WRBUF_SIZE == 255        \* u8 wrbuf[0xFF] of set_gameid
IGR_POLLS == 15          \* loop bound of mmceigr's status polling

(* Commands that return a decoded value, and those that return 0.          *)
ValueCmds == {"ping", "get_status", "get_card", "get_channel"}
AckCmds   == {"set_card", "set_channel", "reset"}

(* mmcedrv exports that run header, bulk phase and trailer under one lock. *)
BulkOps == {"read_sector", "read", "write"}

VARIABLES
  port,     \* mmce_port
  present,  \* ports with a card attached
  phase,    \* _start: "port2", "port3" (mmce_init of that port), "running"
  step,     \* within mmce_init: "set", "ping", "reset"
  tries,    \* pings issued by the current mmce_init
  found,    \* ports where mmce_init saw an answer
  last,     \* the last command: its name, the port it went to, its result
  frame,    \* set_gameid: bytes strcpy wrote, tx_size sent, bytes needed
  copy,     \* get_gameid: rdbuf bytes strcpy read, bytes it wrote to buf
  program,  \* the IRX that was loaded
  dpc,      \* mmcedrv caller: "idle", "header", "bulk", "trailer"
  dop,      \* the mmcedrv export in progress
  locked,   \* mmce_sio2_lock held by the mmcedrv caller
  req,      \* the last mmcedrv request value, and what its frame carries
  ipc,      \* mmceigr _start: "none", "args", "set", "poll", "done"
  iport,    \* the port (i + 2) mmceigr's loop is at
  slot,     \* ports argv[1] selected
  polls,    \* get_status polls of the current port
  igrEnd,   \* how mmceigr left each port
  switching \* ports whose card is still switching to the boot card

igrVars == <<ipc, iport, slot, polls, igrEnd, switching>>

drvVars == <<program, dpc, dop, locked, req, igrVars>>

vars == <<port, present, phase, step, tries, found, last, frame, copy,
          program, dpc, dop, locked, req, igrVars>>

-----------------------------------------------------------------------------
(* rdbuf[1] after an exchange completed on port p.                         *)
Replies(p) == IF p \in present THEN DeviceReplies ELSE NoAckReplies

(* What one mmce_sio2_tx_rx_pio can give: a timeout (-1, done FALSE), or   *)
(* completion with rdbuf holding a reply byte and the bytes D ranges over. *)
(* After a timeout rdbuf is whatever the stack held, so any of D.          *)
Exchange(p, D) ==
  [done : {FALSE}, reply : {0}, data : D] \cup
    [done : {TRUE}, reply : Replies(p), data : D]

Outcomes(p) == Exchange(p, Payloads)

(* Big-endian integers assembled from the payload bytes.                    *)
Be24(d) == d[1] * 65536 + d[2] * 256 + d[3]
Be16(d) == d[1] * 256 + d[2]

(* A 32-bit big-endian word assembled into a signed int (lseek position,  *)
(* read and write counts): the top byte carries the sign.                  *)
Int32(w) ==
  (IF w[1] >= 128 THEN w[1] - 256 ELSE w[1]) * 16777216
    + (w[2] * 256 + w[3]) * 256 + w[4]

(* get_size's s64 position from two words, high word first.  An s64 is    *)
(* beyond TLC's integers; what is kept is whether it is -1, the value the  *)
(* error exits return, else the low word.                                  *)
Int64(hi, lo) ==
  IF hi = <<255, 255, 255, 255>> /\ lo = hi THEN -1 ELSE Int32(lo)

(* read_sector's header bytes for a u32 sector or count: (v & 0xFF0000)   *)
(* >> 16, (v & 0xFF00) >> 8, v & 0xFF.                                     *)
SectorBytesLittle(v) == <<v % 256, (v \div 256) % 256, (v \div 65536) % 256>>

SectorBytes(v) == <<(v \div 65536) % 256, (v \div 256) % 256, v % 256>>

(* The four bytes (v & 0xFF000000) >> 24 .. v & 0xFF of an int size or     *)
(* offset: the int is converted to unsigned, so a negative v gives its     *)
(* two's complement, byte by byte 255 minus the bytes of -v - 1.           *)
UBytes(u) == <<u \div 16777216, (u \div 65536) % 256, (u \div 256) % 256, u % 256>>
IntBytes(v) ==
  IF v >= 0 THEN UBytes(v) ELSE [i \in 1..4 |-> 255 - UBytes(-v - 1)[i]]

(* A 24-bit count read_sector takes from the first three bytes of a word.  *)
SectorsRead(w) == Be24(<<w[1], w[2], w[3]>>)

DecodeNoReplyCheck(c, out) ==
  IF ~out.done THEN -1
  ELSE IF c = "ping" THEN Be24(out.data)
  ELSE IF c \in ValueCmds THEN Be16(out.data)
  ELSE 0

(* The result of command c after the exchange gave out.                    *)
Decode(c, out) ==
  IF ~out.done \/ out.reply # MMCE_REPLY_CONST THEN -1
  ELSE IF c = "ping" THEN Be24(out.data)
  ELSE IF c \in ValueCmds THEN Be16(out.data)
  ELSE 0

(* set_gameid with a string of n characters: u8 len = strlen + 1; strcpy  *)
(* into &wrbuf[4]; tx_size is the u8 len + 5.                              *)
GameidLen(n) == (n + 1) % 256

SetGameidTxSizeShort(n) == (GameidLen(n) + 3) % 256

SetGameidTxSize(n) == (GameidLen(n) + 5) % 256

-----------------------------------------------------------------------------
(* Variants of the mapped definitions below, each a plausible slip in the  *)
(* code it models; the mutation runs substitute them one at a time.        *)

SelectPortUnit ==
  /\ step = "set" /\ phase \in {"port2", "port3"}
  /\ port' = IF phase = "port2" THEN 0 ELSE 1
  /\ tries' = 0
  /\ step' = "ping"
  /\ UNCHANGED <<present, phase, found, last, frame, copy, drvVars>>

ProbePingNoCount ==
  /\ step = "ping" /\ tries < PING_TRIES
  /\ \E out \in Outcomes(port) :
       LET res == Decode("ping", out) IN
       /\ last' = [cmd |-> "ping", port |-> port, res |-> res]
       /\ IF res # -1
            THEN found' = found \cup {port} /\ step' = "reset"
            ELSE UNCHANGED <<found, step>>
  /\ UNCHANGED <<port, present, phase, tries, frame, copy, drvVars>>

-----------------------------------------------------------------------------
(* mmce_init(port): mmce_sio2_set_port(port).                              *)
SelectPort ==
  /\ step = "set" /\ phase \in {"port2", "port3"}
  /\ port' = IF phase = "port2" THEN 2 ELSE 3
  /\ tries' = 0
  /\ step' = "ping"
  /\ UNCHANGED <<present, phase, found, last, frame, copy, drvVars>>

(* The phase after mmce_init of the current port.                         *)
NextPhase == IF phase = "port2" THEN "port3" ELSE "running"

(* One iteration of the ping loop: a mmce_cmd_ping; on an answer go on to  *)
(* the reset, else try again until six pings have failed.                 *)
ProbePing ==
  /\ step = "ping" /\ tries < PING_TRIES
  /\ \E out \in Outcomes(port) :
       LET res == Decode("ping", out) IN
       /\ last' = [cmd |-> "ping", port |-> port, res |-> res]
       /\ tries' = tries + 1
       /\ IF res # -1
            THEN found' = found \cup {port} /\ step' = "reset"
                 /\ UNCHANGED phase
            ELSE UNCHANGED found
                 /\ IF tries + 1 = PING_TRIES
                      THEN step' = "set" /\ phase' = NextPhase
                      ELSE UNCHANGED <<step, phase>>
  /\ UNCHANGED <<port, present, frame, copy, drvVars>>

(* mmce_cmd_reset after the first answer; its result is only printed.     *)
ProbeReset ==
  /\ step = "reset"
  /\ \E out \in Outcomes(port) :
       last' = [cmd |-> "reset", port |-> port, res |-> Decode("reset", out)]
  /\ step' = "set"
  /\ phase' = NextPhase
  /\ UNCHANGED <<port, present, tries, found, frame, copy, drvVars>>

(* devctl of a command with a fixed frame on the current port.             *)
Command(c) ==
  /\ phase = "running" /\ program = "mmceman"
  /\ \E out \in Outcomes(port) :
       last' = [cmd |-> c, port |-> port, res |-> Decode(c, out)]
  /\ UNCHANGED <<port, present, phase, step, tries, found, frame, copy, drvVars>>

(* devctl MMCE_CMD_SET_GAMEID with a string of n characters.               *)
SetGameid ==
  /\ phase = "running" /\ program = "mmceman"
  /\ \E n \in SetGameidLens, out \in Outcomes(port) :
       /\ frame' = [written |-> 4 + n + 1,
                    sent    |-> SetGameidTxSize(n),
                    need    |-> 4 + n + 1]
       /\ last' = [cmd |-> "set_gameid", port |-> port,
                   res |-> Decode("set_gameid", out)]
  /\ UNCHANGED <<port, present, phase, step, tries, found, copy, drvVars>>

(* devctl MMCE_CMD_GET_GAMEID: on a valid reply strcpy copies the card's   *)
(* string of m characters from &rdbuf[4] into the caller's buffer.         *)
GetGameid ==
  /\ phase = "running" /\ program = "mmceman"
  /\ \E m \in GetGameidLens, out \in Outcomes(port) :
       LET res == Decode("get_gameid", out) IN
       /\ last' = [cmd |-> "get_gameid", port |-> port, res |-> res]
       /\ copy' = IF res = 0 THEN [read |-> 4 + m + 1, copied |-> m + 1]
                             ELSE copy
  /\ UNCHANGED <<port, present, phase, step, tries, found, frame, drvVars>>

(* ----------------------------- mmcedrv ------------------------------- *)

(* mmcedrv_config_set(MMCEDRV_SETTING_PORT, v): only 2 and 3 are taken.   *)
(* The other settings change engine state (Sio2Transfer's SetUseAlarm).    *)
ConfigSet ==
  /\ program = "mmcedrv" /\ dpc = "idle"
  /\ \E v \in ConfigPorts : port' = IF v \in {2, 3} THEN v ELSE port
  /\ UNCHANGED <<present, phase, step, tries, found, last, frame, copy,
                 drvVars>>

(* mmcedrv_get_size: lseek64 to the end in one exchange under the lock.    *)
GetSize ==
  /\ program = "mmcedrv" /\ dpc = "idle"
  /\ \E out \in Exchange(port, TrailerWords \X TrailerWords) :
       last' = [cmd |-> "get_size", port |-> port,
                res |-> IF ~out.done \/ out.reply # MMCE_REPLY_CONST THEN -1
                        ELSE Int64(out.data[1], out.data[2])]
  /\ UNCHANGED <<port, present, phase, step, tries, found, frame, copy,
                 drvVars>>

(* The values a loader passes: sectors to read_sector, the size DrvSize   *)
(* to read and write; and the value the card reads from the header bytes, *)
(* big-endian (24 bits for a sector, a signed 32-bit word for a size or   *)
(* an lseek offset).                                                       *)
RequestValues(o) == IF o = "read_sector" THEN FrameSectors ELSE {DrvSize}

Carried(o, v) ==
  IF o = "read_sector" THEN Be24(SectorBytes(v)) ELSE Int32(IntBytes(v))

(* mmcedrv_lseek: one exchange under the lock; the position is rdbuf[9..12]. *)
Lseek ==
  /\ program = "mmcedrv" /\ dpc = "idle"
  /\ \E off \in FrameInts : req' = [sent |-> off, seen |-> Carried("lseek", off)]
  /\ \E out \in Exchange(port, TrailerWords) :
       last' = [cmd |-> "lseek", port |-> port,
                res |-> IF ~out.done \/ out.reply # MMCE_REPLY_CONST THEN -1
                        ELSE Int32(out.data)]
  /\ UNCHANGED <<port, present, phase, step, tries, found, frame, copy,
                 program, dpc, dop, locked, igrVars>>

(* read_sector, read or write: build the header frame and mmce_sio2_lock.  *)
DrvStart ==
  /\ program = "mmcedrv" /\ dpc = "idle"
  /\ \E o \in BulkOps : \E v \in RequestValues(o) :
       dop' = o /\ req' = [sent |-> v, seen |-> Carried(o, v)]
  /\ locked' = TRUE
  /\ dpc' = "header"
  /\ UNCHANGED <<port, present, phase, step, tries, found, last, frame, copy,
                 program, igrVars>>

(* An error exit or the end of the export: unlock and return r.            *)
DrvReturn(r) ==
  /\ dpc' = "idle"
  /\ locked' = FALSE
  /\ last' = [cmd |-> dop, port |-> port, res |-> r]

(* The header exchange fails on a timeout, a reply other than 0xAA, or a   *)
(* non-zero status in rdbuf[9].                                            *)
HeaderFails(out) ==
  ~out.done \/ out.reply # MMCE_REPLY_CONST \/ out.data # 0

(* Variant of DrvHeader below: the status exit returns without unlocking. *)
DrvHeaderStatusKeepsLock ==
  /\ dpc = "header"
  /\ \E out \in Exchange(port, HeaderStatuses) :
       IF ~out.done \/ out.reply # MMCE_REPLY_CONST THEN DrvReturn(-1)
       ELSE IF out.data # 0
         THEN dpc' = "idle" /\ UNCHANGED locked
              /\ last' = [cmd |-> dop, port |-> port, res |-> -1]
       ELSE dpc' = "bulk" /\ UNCHANGED <<locked, last>>
  /\ UNCHANGED <<port, present, phase, step, tries, found, frame, copy,
                 program, dop, req, igrVars>>

(* Packet #1: the header exchange and its three error exits.              *)
DrvHeader ==
  /\ dpc = "header"
  /\ \E out \in Exchange(port, HeaderStatuses) :
       IF HeaderFails(out) THEN DrvReturn(-1)
       ELSE dpc' = "bulk" /\ UNCHANGED <<locked, last>>
  /\ UNCHANGED <<port, present, phase, step, tries, found, frame, copy,
                 program, dop, req, igrVars>>

(* Packets #2..n: rx_dma (read_sector), rx_mixed (read) or tx_mixed       *)
(* (write), which return -1 only on a timeout.                            *)
DrvBulk ==
  /\ dpc = "bulk"
  /\ \E ok \in BOOLEAN :
       IF ok THEN dpc' = "trailer" /\ UNCHANGED <<locked, last>>
       ELSE DrvReturn(-1)
  /\ UNCHANGED <<port, present, phase, step, tries, found, frame, copy,
                 program, dop, req, igrVars>>

(* mmcedrv_read's count: clamped to the request when it is larger.        *)
ReadResult(w) == IF Int32(w) > DrvSize THEN DrvSize ELSE Int32(w)

(* The value each export returns from its trailer word rdbuf[1..4].        *)
TrailerResult(o, w) ==
  CASE o = "read"        -> ReadResult(w)
    [] o = "write"       -> Int32(w)
    [] o = "read_sector" -> SectorsRead(w)

(* Packet #n+1: the trailer exchange, failing only on a timeout: rdbuf[1] *)
(* is the first count byte here, not checked against 0xAA.                 *)
DrvTrailer ==
  /\ dpc = "trailer"
  /\ \E out \in Exchange(port, TrailerWords) :
       DrvReturn(IF out.done THEN TrailerResult(dop, out.data) ELSE -1)
  /\ UNCHANGED <<port, present, phase, step, tries, found, frame, copy,
                 program, dop, req, igrVars>>

(* ----------------------------- mmceigr ------------------------------- *)

(* The bytes _start may read as argv[1][k]: the string's characters, its  *)
(* NUL at k = Len; past the NUL, or through argv[1] = NULL when argc is 1 *)
(* (the argc < 1 check lets that through), whatever IOP memory holds.     *)
ArgChars(argc, a, k) ==
  IF argc >= 2 /\ k < Len(a) THEN {a[k + 1]}
  ELSE IF argc >= 2 /\ k = Len(a) THEN {"NUL"}
  ELSE {"1", "other"}

(* slot[i] = 1, so port i + 2 is switched, when argv[1][i] is '1'.         *)
SlotChoices(argc, a) ==
  {s \in SUBSET Ports :
     \A i \in 0..1 :
       IF i + 2 \in s THEN "1" \in ArgChars(argc, a, i)
       ELSE \E c \in ArgChars(argc, a, i) : c # "1"}

(* mmceigr's own mmce_sio2_tx_rx_pio: it waits for the transfer-done bit   *)
(* and returns -1 when the status has the ACK timeout bit 0x8000, which   *)
(* an empty port always sets.                                              *)
IgrOutcomes(p) ==
  IF p \in present THEN Outcomes(p) ELSE {o \in Outcomes(p) : ~o.done}

(* A card's answer to get_status: while it is switching a valid reply      *)
(* carries an odd status (busy), after it an even one; a wrong reply byte  *)
(* comes with any bytes.                                                   *)
StatusAnswers(p) ==
  {o \in IgrOutcomes(p) :
     o.done /\ o.reply = MMCE_REPLY_CONST =>
       (Be16(o.data) % 2 = 1 <=> p \in switching)}

(* cmd_get_status: -1 on a timeout or a wrong reply, else rdbuf[3..4].    *)
IgrStatus(out) == Decode("get_status", out)

(* cmd_set_card: -1 on a timeout or a wrong reply, else 0.               *)
IgrSetCardResult(out) == Decode("set_card", out)

(* Variant of StatusBusy below: an error result is taken as not busy.     *)
StatusBusyPositive(res) == res > 0 /\ res % 2 = 1

(* (res & 1) of the int res on the two's-complement IOP: its low bit,     *)
(* 1 for the -1 of a failed poll as for any odd status.                    *)
StatusBusy(res) == res % 2 = 1

(* The end of one iteration of the port loop: on to port 3, or, after it, *)
(* restore the SIO2 control register and return MODULE_NO_RESIDENT_END.   *)
IgrAdvance ==
  IF iport = 2 THEN iport' = 3 /\ ipc' = "set"
  ELSE ipc' = "done" /\ UNCHANGED iport

(* _start: return at once when argc < 1, else fill slot from argv[1].     *)
IgrStart ==
  /\ ipc = "args"
  /\ \E argc \in IgrArgcs, a \in IgrArgvs :
       IF argc < 1 THEN ipc' = "done" /\ UNCHANGED slot
       ELSE \E s \in SlotChoices(argc, a) : slot' = s /\ ipc' = "set"
  /\ UNCHANGED <<port, present, phase, step, tries, found, last, frame, copy,
                 program, dpc, dop, locked, req, iport, polls, igrEnd, switching>>

(* A port the argument did not select is passed over; else its control    *)
(* registers are set and cmd_set_card(port, 1, 0, 0) asks for the boot     *)
(* card; a card that takes it starts switching and is polled, a failed     *)
(* switch is not.                                                          *)
IgrSetCard ==
  /\ ipc = "set"
  /\ IF iport \notin slot
       THEN IgrAdvance /\ UNCHANGED <<last, igrEnd, switching>>
       ELSE \E out \in IgrOutcomes(iport) :
              LET res == IgrSetCardResult(out) IN
              /\ last' = [cmd |-> "set_card", port |-> iport, res |-> res]
              /\ IF res = -1
                   THEN /\ IgrAdvance
                        /\ igrEnd' = [igrEnd EXCEPT ![iport] = "refused"]
                        /\ UNCHANGED switching
                   ELSE /\ ipc' = "poll"
                        /\ switching' = switching \cup {iport}
                        /\ UNCHANGED <<iport, igrEnd>>
  /\ polls' = 0
  /\ UNCHANGED <<port, present, phase, step, tries, found, frame, copy,
                 program, dpc, dop, locked, req, slot>>

(* Variant of IgrPoll below: the poll counter is not advanced.            *)
IgrPollNoCount ==
  /\ ipc = "poll" /\ polls < IGR_POLLS
  /\ \E out \in StatusAnswers(iport) :
       LET res == IgrStatus(out) IN
       /\ last' = [cmd |-> "get_status", port |-> iport, res |-> res]
       /\ IF ~StatusBusy(res)
            THEN IgrAdvance /\ igrEnd' = [igrEnd EXCEPT ![iport] = "ready"]
            ELSE UNCHANGED <<ipc, iport, igrEnd>>
  /\ UNCHANGED <<port, present, phase, step, tries, found, frame, copy,
                 program, dpc, dop, locked, req, slot, polls, switching>>

(* One iteration of the poll loop: wait 500 ms, cmd_get_status, and leave  *)
(* the port when the busy bit is clear or after the 15th poll.            *)
IgrPoll ==
  /\ ipc = "poll" /\ polls < IGR_POLLS
  /\ \E out \in StatusAnswers(iport) :
       LET res == IgrStatus(out) IN
       /\ last' = [cmd |-> "get_status", port |-> iport, res |-> res]
       /\ polls' = polls + 1
       /\ IF ~StatusBusy(res)
            THEN IgrAdvance /\ igrEnd' = [igrEnd EXCEPT ![iport] = "ready"]
            ELSE IF polls + 1 = IGR_POLLS
              THEN IgrAdvance /\ igrEnd' = [igrEnd EXCEPT ![iport] = "gave_up"]
              ELSE UNCHANGED <<ipc, iport, igrEnd>>
  /\ UNCHANGED <<port, present, phase, step, tries, found, frame, copy,
                 program, dpc, dop, locked, req, slot, switching>>

(* The card: it finishes switching at a time of its own.                  *)
CardSwitched ==
  /\ \E p \in switching : switching' = switching \ {p}
  /\ UNCHANGED <<port, present, phase, step, tries, found, last, frame, copy,
                 program, dpc, dop, locked, req, ipc, iport, slot, polls, igrEnd>>

(* mmceigr has returned and is unloaded: nothing of it runs any more.     *)
IgrReturned == ipc = "done" /\ UNCHANGED vars

-----------------------------------------------------------------------------
(* Where each program's __start leaves the caller: mmceman probes port 2  *)
(* first; mmcedrv probes nothing and serves its exports at once.          *)
StartPhase(p) == IF p = "mmceman" THEN "port2" ELSE "running"

Init ==
  /\ port = 0
  /\ present \in SUBSET Ports
  /\ program \in Programs
  /\ phase = StartPhase(program)
  /\ step = "set"
  /\ tries = 0
  /\ found = {}
  /\ last = [cmd |-> "none", port |-> 0, res |-> -1]
  /\ frame = [written |-> 0, sent |-> 0, need |-> 0]
  /\ copy = [read |-> 0, copied |-> 0]
  /\ dpc = "idle"
  /\ dop = "none"
  /\ locked = FALSE
  /\ req = [sent |-> 0, seen |-> 0]
  /\ ipc = IF program = "mmceigr" THEN "args" ELSE "none"
  /\ iport = 2
  /\ slot = {}
  /\ polls = 0
  /\ igrEnd = [p \in Ports |-> "none"]
  /\ switching = {}

Probe == SelectPort \/ ProbePing \/ ProbeReset

Devctl == (\E c \in ValueCmds \cup AckCmds : Command(c)) \/ SetGameid \/ GetGameid

Drv == ConfigSet \/ GetSize \/ Lseek \/ DrvStart \/ DrvHeader \/ DrvBulk
         \/ DrvTrailer

Igr == IgrStart \/ IgrSetCard \/ IgrPoll

Next == Probe \/ Devctl \/ Drv \/ Igr \/ CardSwitched \/ IgrReturned

(* mmceman's and mmceigr's _start run to their end on the loading thread. *)
Spec == Init /\ [][Next]_vars /\ WF_vars(Probe) /\ WF_vars(Igr)

-----------------------------------------------------------------------------
TypeOK ==
  /\ port \in {0} \cup Ports
  /\ present \subseteq Ports
  /\ phase \in {"port2", "port3", "running"}
  /\ step \in {"set", "ping", "reset"}
  /\ tries \in 0..PING_TRIES
  /\ found \subseteq Ports
  /\ last.res \in Int
  /\ program \in Programs
  /\ dpc \in {"idle", "header", "bulk", "trailer"}
  /\ dop \in {"none"} \cup BulkOps
  /\ locked \in BOOLEAN
  /\ req \in [sent : Int, seen : Int]
  /\ ipc \in {"none", "args", "set", "poll", "done"}
  /\ iport \in Ports /\ slot \subseteq Ports /\ switching \subseteq Ports
  /\ polls \in 0..IGR_POLLS
  /\ igrEnd \in [Ports -> {"none", "refused", "ready", "gave_up"}]

(* No command reports success unless a card on the port it went to        *)
(* answered: a transfer the interrupt handler completes without a device  *)
(* (ACK timeout) is rejected by the reply-constant check.                  *)
DeviceAnswered == last.res # -1 => last.port \in present

(* set_gameid's frame carries the whole game id: the strcpy into wrbuf    *)
(* writes no byte past its 255 bytes, and the transfer size handed to      *)
(* mmce_sio2_tx_rx_pio covers the header, the string and its NUL.          *)
GameidInBounds ==
  /\ frame.written <= WRBUF_SIZE /\ frame.sent >= frame.need

(* mmcedrv holds mmce_sio2_lock exactly while one of read_sector, read or *)
(* write is between its header and its return: every one of their exits   *)
(* (header timeout, bad reply, bad status, bulk timeout, trailer timeout)  *)
(* unlocks, so sio2man's pads and memory cards are never shut out.         *)
DrvLockBracket == locked <=> dpc # "idle"

(* _start always gets past the probe of both ports to serving requests,   *)
(* whether or not cards answer.                                            *)
ProbeEnds == <>(phase = "running")

(* mmceigr leaves a port before its 15 polls only when the card there has  *)
(* finished switching: a poll that timed out or got a wrong reply byte    *)
(* (-1, whose low bit is set) counts as busy, not as done.                 *)
IgrReadyMeansSwitched ==
  \A p \in Ports : igrEnd[p] = "ready" => p \notin switching

(* mmcedrv's request frames carry what the loader asked for: a sector and  *)
(* a count of any DVD-9 image read back big-endian from read_sector's      *)
(* three bytes each, and every int size or offset, negative ones           *)
(* included, read back as the signed 32-bit word the trailers use.         *)
FramesCarryRequest == req.seen = req.sent

(* mmceigr's _start always returns, even when a card stays busy or never  *)
(* answers: the IOP reboot that follows is not held up forever.            *)
IgrEnds == <>(ipc \in {"none", "done"})
=============================================================================

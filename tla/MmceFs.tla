------------------------------- MODULE MmceFs -------------------------------
(***************************************************************************)
(* The MMCE filesystem and devctl protocol (src/iop/sio/mmceman/src/       *)
(* mmce_fs.c) as it is driven by several IOP threads through the iomanX    *)
(* dispatcher.                                                             *)
(*                                                                         *)
(* Every entry point first calls mmce_fs_update_unit, which may switch the *)
(* SIO2 port, and open/dopen pick a free slot of mmce_fs_fds, all before   *)
(* the channel lock is taken.  The operation then takes the lock           *)
(* (mmce_sio2_lock), exchanges its packets one at a time with              *)
(* mmce_sio2_tx_rx_pio (or a bulk rx/tx for read/write), and releases the  *)
(* lock on every path out.  A packet exchange blocks the thread in         *)
(* WaitEventFlag, which is where another thread gets to run.  The          *)
(* transfer engine itself is abstracted to "the packet succeeds or fails"; *)
(* Sio2Transfer models it.                                                 *)
(***************************************************************************)
EXTENDS Integers, FiniteSets, FiniteSetsExt

CONSTANTS
  Threads,         \* IOP threads calling into the mmce device
  Files,           \* iomanX file objects (iomanX_iop_file_t)
  Units,           \* logical units: mmce0: is 0, mmce1: is 1
  MMCE_FS_MAX_FD,  \* size of mmce_fs_fds
  DevFds,          \* descriptors the card may return from open/dopen
  ReqSize,         \* size argument of read/write
  CountReports,    \* count fields (4 bytes, big-endian) the card may reply
  Ops,             \* operations the callers issue in this model
  NULL

ASSUME MMCE_FS_MAX_FD \in Nat \ {0}
ASSUME DevFds \subseteq 0..255 /\ CountReports \subseteq [1..4 -> 0..255]

VARIABLES
  mmce_fs_fds,  \* the handle table: -1 is free, else the card's descriptor
  last_unit,    \* unit cache of mmce_fs_update_unit
  mmce_port,    \* mmce_port of mmce_sio2.c, read by every packet
  lock_owner,   \* holder of the SIO2 lock (mmce_sio2_lock/unlock)
  fstate,       \* per file object: "closed", "opening", "file" or "dir"
  privdata,     \* per file object: the slot index it points at, or NULL
  funit,        \* per file object: file->unit
  pc,           \* per thread: "idle", "lock" (waiting) or "xfer" (holding)
  op,           \* per thread: the operation in progress or last returned
  cur,          \* per thread: the file object of that operation, or NULL
  opunit,       \* per thread: the unit the operation addresses
  pkt,          \* per thread: index of the next packet of the operation
  ports,        \* per thread: ports the operation's transfers went to
  ret           \* per thread: value the last operation returned

vars == <<mmce_fs_fds, last_unit, mmce_port, lock_owner, fstate, privdata,
          funit, pc, op, cur, opunit, pkt, ports, ret>>

Slots == 0..(MMCE_FS_MAX_FD - 1)

OpenOps  == {"open", "dopen"}
PathOps  == {"remove", "mkdir", "rmdir", "getstat"}
FileOps  == {"read", "write", "lseek", "lseek64", "close"}
DirOps   == {"dread", "dclose"}
CtlOps   == {"devctl_cmd", "devctl_setting"}
AllOps   == OpenOps \cup PathOps \cup FileOps \cup DirOps \cup CtlOps

ASSUME Ops \subseteq AllOps

(* Number of mmce_sio2_* exchanges under one lock, per operation.          *)
NPackets(o) ==
  CASE o \in OpenOps \cup PathOps \cup {"read", "write"} -> 3
    [] o = "dread"                                        -> 4
    [] OTHER                                              -> 1

(* The values the last packet may carry: a descriptor, a byte count, or a  *)
(* status byte.                                                            *)
TailReplies(o) ==
  CASE o \in OpenOps           -> DevFds
    [] o \in {"read", "write"} -> CountReports
    [] OTHER                   -> {0, 1}

(* int x = b[1] << 24 | b[2] << 16 | b[3] << 8 | b[4] on the 32-bit IOP: *)
(* the top byte carries the sign.                                          *)
Int32(b) ==
  (IF b[1] >= 128 THEN b[1] - 256 ELSE b[1]) * 16777216
    + b[2] * 65536 + b[3] * 256 + b[4]

(* mmce_fs_update_unit: unit 1 is port 3, anything else port 2.            *)
PortOf(u) == IF u = 1 THEN 3 ELSE 2

-----------------------------------------------------------------------------
(* Variants of the mapped definitions below, each a plausible slip in the  *)
(* code it models; the mutation runs substitute them one at a time.        *)

UpdateUnitNoPort(u) ==
  /\ last_unit' = u
  /\ UNCHANGED mmce_port

FindFreeHandleZeroUsed ==
  LET free == {i \in Slots : mmce_fs_fds[i] <= 0}
  IN  IF free = {} THEN NULL ELSE Min(free)

FindFreeHandlePastEnd ==
  LET free == {i \in Slots : mmce_fs_fds[i] < 0}
  IN  IF free = {} THEN MMCE_FS_MAX_FD ELSE Min(free)

DcloseFreesOnError(t, v) ==
  /\ mmce_fs_fds' = [mmce_fs_fds EXCEPT ![privdata[cur[t]]] = -1]
  /\ IF v = 0
       THEN /\ fstate'   = [fstate EXCEPT ![cur[t]] = "closed"]
            /\ privdata' = [privdata EXCEPT ![cur[t]] = NULL]
            /\ ret'      = [ret EXCEPT ![t] = 0]
       ELSE /\ ret' = [ret EXCEPT ![t] = -1]
            /\ UNCHANGED <<fstate, privdata>>

PacketFailsRetry(t) ==
  /\ pc[t] = "xfer"
  /\ pkt' = [pkt EXCEPT ![t] = 1]
  /\ UNCHANGED <<mmce_fs_fds, last_unit, mmce_port, lock_owner, fstate,
                 privdata, funit, pc, op, cur, opunit, ports, ret>>

-----------------------------------------------------------------------------
(* mmce_fs_update_unit: switch mmce_port only when the unit changed.       *)
UpdateUnit(u) ==
  IF u # last_unit
    THEN /\ last_unit' = u
         /\ mmce_port' = PortOf(u)
    ELSE UNCHANGED <<last_unit, mmce_port>>

(* mmce_fs_find_free_handle: the first slot holding a negative value.      *)
FindFreeHandle ==
  LET free == {i \in Slots : mmce_fs_fds[i] < 0}
  IN  IF free = {} THEN NULL ELSE Min(free)

Busy(f) == \E t \in Threads : pc[t] # "idle" /\ cur[t] = f

(* Common start of an operation that goes on to take the lock.             *)
StartLocked(t, o, f, u) ==
  /\ pc'     = [pc EXCEPT ![t] = "lock"]
  /\ op'     = [op EXCEPT ![t] = o]
  /\ cur'    = [cur EXCEPT ![t] = f]
  /\ opunit' = [opunit EXCEPT ![t] = u]
  /\ ports'  = [ports EXCEPT ![t] = {}]

(* mmce_fs_open / mmce_fs_dopen up to mmce_sio2_lock: update the unit,     *)
(* point privdata at the first free slot, or fail with no slot free.       *)
Open(t, o, f, u) ==
  /\ pc[t] = "idle" /\ o \in Ops \cap OpenOps
  /\ fstate[f] = "closed" /\ ~Busy(f)
  /\ UpdateUnit(u)
  /\ funit'    = [funit EXCEPT ![f] = u]
  /\ privdata' = [privdata EXCEPT ![f] = FindFreeHandle]
  /\ IF FindFreeHandle = NULL
       THEN /\ op'  = [op EXCEPT ![t] = o]
            /\ ret' = [ret EXCEPT ![t] = -1]
            /\ UNCHANGED <<pc, cur, opunit, ports, fstate>>
       ELSE /\ StartLocked(t, o, f, u)
            /\ fstate' = [fstate EXCEPT ![f] = "opening"]
            /\ UNCHANGED ret
  /\ UNCHANGED <<mmce_fs_fds, lock_owner, pkt>>

(* mmce_fs_close up to the lock: reserved descriptors (>= 250) return 0    *)
(* at once, without touching the handle table.                            *)
Close(t, f) ==
  /\ pc[t] = "idle" /\ "close" \in Ops
  /\ fstate[f] = "file" /\ ~Busy(f)
  /\ UpdateUnit(funit[f])
  /\ IF mmce_fs_fds[privdata[f]] >= 250
       THEN /\ op'     = [op EXCEPT ![t] = "close"]
            /\ ret'    = [ret EXCEPT ![t] = 0]
            /\ fstate' = [fstate EXCEPT ![f] = "closed"]
            /\ UNCHANGED <<pc, cur, opunit, ports>>
       ELSE /\ StartLocked(t, "close", f, funit[f])
            /\ UNCHANGED <<ret, fstate>>
  /\ UNCHANGED <<mmce_fs_fds, lock_owner, privdata, funit, pkt>>

(* mmce_fs_read/write/lseek/lseek64/dread/dclose up to the lock: they only *)
(* update the unit of the file before locking.                            *)
FileOp(t, o, f) ==
  /\ pc[t] = "idle" /\ o \in Ops \cap ((FileOps \ {"close"}) \cup DirOps)
  /\ fstate[f] = IF o \in DirOps THEN "dir" ELSE "file"
  /\ ~Busy(f)
  /\ UpdateUnit(funit[f])
  /\ StartLocked(t, o, f, funit[f])
  /\ UNCHANGED <<mmce_fs_fds, lock_owner, fstate, privdata, funit, pkt, ret>>

(* mmce_fs_remove/mkdir/rmdir/getstat up to the lock.                      *)
PathOp(t, o, u) ==
  /\ pc[t] = "idle" /\ o \in Ops \cap PathOps
  /\ UpdateUnit(u)
  /\ StartLocked(t, o, NULL, u)
  /\ UNCHANGED <<mmce_fs_fds, lock_owner, fstate, privdata, funit, pkt, ret>>

(* mmce_fs_devctl: update the unit, then either a one-packet mmce_cmd_*    *)
(* under the lock, or a driver-local setting that never locks.            *)
Devctl(t, o, u) ==
  /\ pc[t] = "idle" /\ o \in Ops \cap CtlOps
  /\ UpdateUnit(u)
  /\ IF o = "devctl_cmd"
       THEN /\ StartLocked(t, o, NULL, u)
            /\ UNCHANGED ret
       ELSE /\ op'  = [op EXCEPT ![t] = o]
            /\ ret' = [ret EXCEPT ![t] = 0]
            /\ UNCHANGED <<pc, cur, opunit, ports>>
  /\ UNCHANGED <<mmce_fs_fds, lock_owner, fstate, privdata, funit, pkt>>

(* mmce_sio2_lock: wait for the lock, then program the port registers of   *)
(* the current mmce_port.                                                  *)
Lock(t) ==
  /\ pc[t] = "lock" /\ lock_owner = NULL
  /\ lock_owner' = t
  /\ pc'    = [pc EXCEPT ![t] = "xfer"]
  /\ pkt'   = [pkt EXCEPT ![t] = 1]
  /\ ports' = [ports EXCEPT ![t] = @ \cup {mmce_port}]
  /\ UNCHANGED <<mmce_fs_fds, last_unit, mmce_port, fstate, privdata, funit,
                 op, cur, opunit, ret>>

Unlock(t) == lock_owner' = NULL

(* The thread leaves the driver; its per-operation bookkeeping is reset.   *)
Return(t) ==
  /\ pc'    = [pc EXCEPT ![t] = "idle"]
  /\ cur'   = [cur EXCEPT ![t] = NULL]
  /\ pkt'   = [pkt EXCEPT ![t] = 0]
  /\ ports' = [ports EXCEPT ![t] = {}]

(* A packet that is not the last one completes and the next is issued, to  *)
(* whatever mmce_port is at that time.                                     *)
PacketOk(t) ==
  /\ pc[t] = "xfer" /\ pkt[t] < NPackets(op[t])
  /\ pkt'   = [pkt EXCEPT ![t] = @ + 1]
  /\ ports' = [ports EXCEPT ![t] = @ \cup {mmce_port}]
  /\ UNCHANGED <<mmce_fs_fds, last_unit, mmce_port, lock_owner, fstate,
                 privdata, funit, pc, op, cur, opunit, ret>>

(* Any packet times out, or the header carries a wrong reply constant or   *)
(* a non-zero status: unlock and return -1.  A failed open/dopen leaves    *)
(* its slot unwritten, and the dispatcher drops the file object.           *)
PacketFails(t) ==
  /\ pc[t] = "xfer"
  /\ Unlock(t)
  /\ Return(t)
  /\ ret'    = [ret EXCEPT ![t] = -1]
  /\ fstate' = IF op[t] \in OpenOps
                 THEN [fstate EXCEPT ![cur[t]] = "closed"] ELSE fstate
  /\ UNCHANGED <<mmce_fs_fds, last_unit, mmce_port, privdata, funit, op,
                 opunit>>

(* Open/dopen trailer: 0xFF is failure, anything else is stored in the     *)
(* slot chosen before the lock.                                            *)
OpenReply(t, v) ==
  IF v # 255
    THEN /\ mmce_fs_fds' = [mmce_fs_fds EXCEPT ![privdata[cur[t]]] = v]
         /\ fstate' = [fstate EXCEPT ![cur[t]] =
                         IF op[t] = "open" THEN "file" ELSE "dir"]
         /\ ret' = [ret EXCEPT ![t] = 0]
         /\ UNCHANGED privdata
    ELSE /\ privdata' = [privdata EXCEPT ![cur[t]] = NULL]
         /\ fstate'   = [fstate EXCEPT ![cur[t]] = "closed"]
         /\ ret'      = [ret EXCEPT ![t] = -1]
         /\ UNCHANGED mmce_fs_fds

(* mmce_fs_close status byte: 0 frees the slot; anything else is returned  *)
(* as a positive value, which the dispatcher takes for success.           *)
CloseReply(t, v) ==
  /\ mmce_fs_fds' = IF v = 0
                      THEN [mmce_fs_fds EXCEPT ![privdata[cur[t]]] = -1]
                      ELSE mmce_fs_fds
  /\ ret'    = [ret EXCEPT ![t] = v]
  /\ fstate' = [fstate EXCEPT ![cur[t]] = "closed"]
  /\ UNCHANGED privdata

(* mmce_fs_dclose status byte: 0 frees the slot and clears privdata.       *)
DcloseReply(t, v) ==
  IF v = 0
    THEN /\ mmce_fs_fds' = [mmce_fs_fds EXCEPT ![privdata[cur[t]]] = -1]
         /\ fstate'   = [fstate EXCEPT ![cur[t]] = "closed"]
         /\ privdata' = [privdata EXCEPT ![cur[t]] = NULL]
         /\ ret'      = [ret EXCEPT ![t] = 0]
    ELSE /\ ret' = [ret EXCEPT ![t] = -1]
         /\ UNCHANGED <<mmce_fs_fds, fstate, privdata>>

(* mmce_fs_read: bytes_read is assembled into an int and clamped to size   *)
(* when it is larger.                                                      *)
ReadResult(v) ==
  IF Int32(v) > ReqSize THEN ReqSize ELSE Int32(v)

(* mmce_fs_write returns bytes_written as assembled, unclamped.            *)
WriteResult(v) == Int32(v)

(* remove, mkdir, rmdir and getstat (PathOps) map the trailer status to  *)
(* 0 or -1; dread returns the terminator's byte, lseek and lseek64 the     *)
(* position, and devctl the mmce_cmd_* result, each as the card sent it   *)
(* (a small set of values stands for them).                                *)
PlainResult(o, v) == IF o \in PathOps THEN IF v = 0 THEN 0 ELSE -1 ELSE v

(* The last packet completes; the lock is released and the reply decoded. *)
Complete(t) ==
  /\ pc[t] = "xfer" /\ pkt[t] = NPackets(op[t])
  /\ Unlock(t)
  /\ Return(t)
  /\ \E v \in TailReplies(op[t]) :
       CASE op[t] \in OpenOps -> OpenReply(t, v)
         [] op[t] = "close"   -> CloseReply(t, v)
         [] op[t] = "dclose"  -> DcloseReply(t, v)
         [] op[t] = "read"    -> /\ ret' = [ret EXCEPT ![t] = ReadResult(v)]
                                 /\ UNCHANGED <<mmce_fs_fds, fstate, privdata>>
         [] op[t] = "write"   -> /\ ret' = [ret EXCEPT ![t] = WriteResult(v)]
                                 /\ UNCHANGED <<mmce_fs_fds, fstate, privdata>>
         [] OTHER             -> /\ ret' = [ret EXCEPT ![t] = PlainResult(op[t], v)]
                                 /\ UNCHANGED <<mmce_fs_fds, fstate, privdata>>
  /\ UNCHANGED <<last_unit, mmce_port, funit, op, opunit>>

-----------------------------------------------------------------------------
Init ==
  /\ mmce_fs_fds = [i \in Slots |-> -1]   \* mmce_fs_init
  /\ last_unit   = -1
  /\ mmce_port   = 3                      \* mmce_init(3) ran last in __start
  /\ lock_owner  = NULL
  /\ fstate      = [f \in Files |-> "closed"]
  /\ privdata    = [f \in Files |-> NULL]
  /\ funit       = [f \in Files |-> CHOOSE u \in Units : TRUE]
  /\ pc          = [t \in Threads |-> "idle"]
  /\ op          = [t \in Threads |-> "none"]
  /\ cur         = [t \in Threads |-> NULL]
  /\ opunit      = [t \in Threads |-> CHOOSE u \in Units : TRUE]
  /\ pkt         = [t \in Threads |-> 0]
  /\ ports       = [t \in Threads |-> {}]
  /\ ret         = [t \in Threads |-> 0]

Call(t) ==
  \/ \E o \in OpenOps, f \in Files, u \in Units : Open(t, o, f, u)
  \/ \E f \in Files : Close(t, f)
  \/ \E o \in FileOps \cup DirOps, f \in Files : FileOp(t, o, f)
  \/ \E o \in PathOps, u \in Units : PathOp(t, o, u)
  \/ \E o \in CtlOps, u \in Units : Devctl(t, o, u)

(* The steps of a thread that has entered the driver.                      *)
Run(t) == PacketOk(t) \/ PacketFails(t) \/ Complete(t)

Next == \E t \in Threads : Call(t) \/ Lock(t) \/ Run(t)

(* Callers are not obliged to call.  A packet exchange always ends: the    *)
(* PIO exchange arms its alarm unconditionally.  The lock is a pair of     *)
(* semaphores whose SignalSema hands the count straight to a waiter, so   *)
(* the releasing thread cannot take it back first; the semaphores wake by  *)
(* thread priority (attr 1), which picks among waiters only when there are *)
(* two or more.  With the two threads of the liveness run there is at most *)
(* one waiter, and strong fairness of Lock is what the hand-off gives.     *)
Fairness == \A t \in Threads : WF_vars(Run(t)) /\ SF_vars(Lock(t))

Spec == Init /\ [][Next]_vars /\ Fairness

-----------------------------------------------------------------------------
TypeOK ==
  /\ mmce_fs_fds \in [Slots -> {-1} \cup DevFds]
  /\ last_unit \in Units \cup {-1}
  /\ mmce_port \in {2, 3}
  /\ lock_owner \in Threads \cup {NULL}
  /\ fstate \in [Files -> {"closed", "opening", "file", "dir"}]
  /\ privdata \in [Files -> Slots \cup {NULL}]
  /\ funit \in [Files -> Units]
  /\ pc \in [Threads -> {"idle", "lock", "xfer"}]
  /\ op \in [Threads -> AllOps \cup {"none"}]
  /\ cur \in [Threads -> Files \cup {NULL}]
  /\ pkt \in [Threads -> 0..4]
  /\ ports \in [Threads -> SUBSET {2, 3}]
  /\ ret \in [Threads -> Int]

(* Each open file or directory owns its own slot of mmce_fs_fds, and that  *)
(* slot is in use: two open files never share a slot (spec section 3),     *)
(* and no open file points at a slot that was freed.                       *)
SlotIntegrity ==
  \A f, g \in Files :
    /\ fstate[f] \in {"file", "dir"} => mmce_fs_fds[privdata[f]] # -1
    /\ (f # g /\ fstate[f] \in {"file", "dir"} /\ fstate[g] \in {"file", "dir"})
         => privdata[f] # privdata[g]

(* An operation that fails on the wire (a packet timeout, a wrong reply   *)
(* constant, a failure status or descriptor) leaves the handle table and  *)
(* its file object as they were (spec section 8): a failed open or dopen  *)
(* stores nothing, a failed dclose keeps the directory and its slot.      *)
FailedCallKeepsTable ==
  [][\A t \in Threads :
       (pc[t] = "xfer" /\ pc'[t] = "idle" /\ ret'[t] = -1)
         => /\ mmce_fs_fds' = mmce_fs_fds
            /\ cur[t] # NULL /\ fstate[cur[t]] \in {"file", "dir"}
                 => fstate'[cur[t]] = fstate[cur[t]]]_vars

(* Every slot in use belongs to an open file: close/dclose free the slot   *)
(* of a file they close (spec section 3, HandleTable).                     *)
NoLeakedSlot ==
  \A i \in Slots :
    mmce_fs_fds[i] # -1 =>
      \E f \in Files : fstate[f] \in {"file", "dir"} /\ privdata[f] = i

(* Every transfer of an operation, from programming the port registers in  *)
(* mmce_sio2_lock to its last packet, goes to the port of the unit the     *)
(* operation addresses.                                                    *)
PacketsToOwnUnit ==
  \A t \in Threads : pc[t] = "xfer" => ports[t] \subseteq {PortOf(opunit[t])}

(* A read or write that did not fail returns a count between 0 and the     *)
(* requested size: an over-report is clamped (spec sections 4.4 and 7).    *)
CountWithinRequest ==
  \A t \in Threads :
    (pc[t] = "idle" /\ op[t] \in {"read", "write"} /\ ret[t] # -1)
      => ret[t] \in 0..ReqSize

(* Every operation that enters the driver returns.                         *)
OperationsReturn ==
  \A t \in Threads : pc[t] # "idle" ~> pc[t] = "idle"
=============================================================================

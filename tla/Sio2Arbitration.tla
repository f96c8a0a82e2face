--------------------------- MODULE Sio2Arbitration ---------------------------
(***************************************************************************)
(* Channel arbitration between the mmce driver and sio2man                 *)
(* (src/iop/sio/mmceman/src/sio2man_hook.c, mmce_sio2_lock/unlock in       *)
(* mmce_sio2.c).                                                           *)
(*                                                                         *)
(* sio2man's clients (pad, memory card) run sessions: transfer_init, one   *)
(* or more transfers, transfer_reset.  sio2man serialises its sessions     *)
(* with an internal lock held from init to reset (ilock; sio2man is not    *)
(* in this repository and that lock is its interface).  The hook wraps     *)
(* init (WaitSema lock_sema first), transfer (lock_sema2 around it) and    *)
(* reset (SignalSema lock_sema after it); mmce_sio2_lock takes lock_sema   *)
(* then lock_sema2 and swaps the SIO2 entry of the interrupt table.        *)
(*                                                                         *)
(* The hook is installed either at mmce start-up, when sio2man is already  *)
(* loaded (an installer step sequence that may interleave with running     *)
(* clients), or from the loadcore/intrman hooks when sio2man loads later.  *)
(* Export entries are 23 (pad init), 24 (mc init), 25 (transfer) and 26    *)
(* (reset); the other numbers are hooked in the same steps.  Patching the  *)
(* export table does not change modules already linked to sio2man: they   *)
(* reach the hooks only after ioplib_relinkExports.                        *)
(*                                                                         *)
(* The module may be stopped (__stop -> mmce_sio2_deinit ->                *)
(* sio2man_hook_deinit) while mmce is idle: the entries are restored and   *)
(* relinked, loadcore's entry 6 and intrman's entry 4 are written back     *)
(* from the saved pointers, and both semaphores deleted, which wakes every  *)
(* thread queued on them.                                                  *)
(***************************************************************************)
EXTENDS Naturals, Sequences

CONSTANTS
  Clients,      \* sio2man client threads
  InitEntry,    \* the transfer_init entry each client calls: 23 or 24
  LoadOrders,   \* "loaded": sio2man before mmce; "later": sio2man after
  Versions,     \* sio2man library versions, as <<major, minor>>
  ClientsDuringInstall, \* may clients start sessions while mmce installs its hook?
  None

ASSUME ClientsDuringInstall \in BOOLEAN
ASSUME InitEntry \in [Clients -> {23, 24}]
ASSUME LoadOrders \subseteq {"loaded", "later"}

Semas  == {"lock_sema", "lock_sema2"}
Actors == Clients \cup {"mmce"}

VARIABLES
  sema,           \* per semaphore: count (max 1), set of waiters, deleted
  resume,         \* where a thread blocked in WaitSema continues
  ilock,          \* holder of sio2man's session lock: a client, "installer" or None
  hooked,         \* export entries patched in sio2man's export table
  linked,         \* entries that clients' import stubs reach hooked
  hooked_version, \* hooked_version: <<0, 0>> until a hook is installed
  version,        \* version of the sio2man library
  loaded,         \* sio2man has registered its library
  intr_reg,       \* sio2man has registered its interrupt handler
  table17,        \* handler in interrupt_handler_table[17]
  saved,          \* sio2man_intr_handler_ptr
  intr_hooked,    \* the hooked flag of hookRegisterIntrHandler
  kentry,         \* what loadcore's entry 6 and intrman's entry 4 point to
  kptr,           \* pRegisterLibraryEntries and pRegisterIntrHandler
  inst,           \* mmce start-up: "capture", "orig23", "rest", "orig26", "done";
                  \* unload: "unlink", "restore", "delete", "gone"
  pc              \* per thread

vars == <<sema, resume, ilock, hooked, linked, hooked_version, version, loaded,
          intr_reg, table17, saved, intr_hooked, kentry, kptr, inst, pc>>

AllEntries == {23, 24, 25, 26}

(* The two kernel exports the hook patches when sio2man is not yet loaded. *)
KernelHooks == {"loadcore6", "intrman4"}

(* The steps of sio2man_hook_init with sio2man already loaded.            *)
InstallSteps == {"capture", "orig23", "rest", "orig26", "relink"}

(* _sio2man_hook: only versions above 1.1 have the reset entries.         *)
Supported(v) == v[1] > 1 \/ (v[1] = 1 /\ v[2] > 1)

-----------------------------------------------------------------------------
(* IOP kernel semaphores created with attr 1 (SA_THPRI), initial 1, max 1: *)
(* a signal wakes the waiter of highest thread priority.  The priorities   *)
(* of sio2man's clients and of mmce's callers are set by the modules that  *)
(* create those threads, outside this repository, so any waiter may be     *)
(* the one woken.                                                          *)

(* WaitSema: take the count, or queue up and block.  On a deleted          *)
(* semaphore it fails at once; the hooks ignore its result.                *)
WaitSema(s, t, next) ==
  IF sema[s].deleted
    THEN pc' = [pc EXCEPT ![t] = next] /\ UNCHANGED <<sema, resume>>
  ELSE IF sema[s].count > 0
    THEN /\ sema' = [sema EXCEPT ![s].count = 0]
         /\ pc' = [pc EXCEPT ![t] = next]
         /\ UNCHANGED resume
    ELSE /\ sema' = [sema EXCEPT ![s].waiters = @ \cup {t}]
         /\ pc' = [pc EXCEPT ![t] = "blocked"]
         /\ resume' = [resume EXCEPT ![t] = next]

(* SignalSema by t, which continues at next: hand the count to a waiter,   *)
(* else raise the count unless it is at its maximum (KE_SEMA_OVF).  A      *)
(* deleted semaphore only returns an error.                                *)
SignalSema(s, t, next) ==
  IF sema[s].deleted THEN pc' = [pc EXCEPT ![t] = next] /\ UNCHANGED sema
  ELSE IF sema[s].waiters # {}
    THEN \E w \in sema[s].waiters :
         /\ sema' = [sema EXCEPT ![s].waiters = @ \ {w}]
         /\ pc' = [pc EXCEPT ![t] = next, ![w] = resume[w]]
    ELSE /\ sema' = [sema EXCEPT ![s].count = 1]
         /\ pc' = [pc EXCEPT ![t] = next]

-----------------------------------------------------------------------------
(* Variants of the mapped definitions below, each a plausible slip in the  *)
(* code it models; the mutation runs substitute them one at a time.        *)

MmceLockNoSema ==
  /\ pc["mmce"] = "idle" /\ inst = "done"
  /\ pc' = [pc EXCEPT !["mmce"] = "lock2"]
  /\ UNCHANGED <<linked, sema, resume, ilock, hooked, hooked_version, version,
                 loaded, intr_reg, table17, saved, intr_hooked, kentry, kptr, inst>>

UnlockKeepsHandler ==
  /\ pc["mmce"] = "crit"
  /\ SignalSema("lock_sema2", "mmce", "unlock1")
  /\ UNCHANGED <<linked, resume, ilock, hooked, hooked_version, version, loaded,
                 intr_reg, table17, saved, intr_hooked, kentry, kptr, inst>>

-----------------------------------------------------------------------------
(* _sio2man_hook hooks entry 23 and calls the original pad init to lock    *)
(* sio2man before hooking the rest.                                        *)
HookFirstEntries == {23}

(* sio2man_hook_init with sio2man already loaded: capture the interrupt    *)
(* handler from the table, then _sio2man_hook up to the original init.     *)
Capture ==
  /\ inst = "capture"
  /\ saved' = table17
  /\ IF Supported(version)
       THEN hooked' = HookFirstEntries /\ inst' = "orig23"
       ELSE UNCHANGED hooked /\ inst' = "relink"
  /\ UNCHANGED <<linked, sema, resume, ilock, hooked_version, version, loaded,
                 intr_reg, table17, intr_hooked, kentry, kptr, pc>>

(* _23_psio2_pad_transfer_init(): the original init takes sio2man's lock. *)
InstallLock ==
  /\ inst = "orig23" /\ ilock = None
  /\ ilock' = "installer"
  /\ inst' = "rest"
  /\ UNCHANGED <<linked, sema, resume, hooked, hooked_version, version, loaded,
                 intr_reg, table17, saved, intr_hooked, kentry, kptr, pc>>

(* Hook entries 24, 25, 26, 46-52.                                        *)
InstallRest ==
  /\ inst = "rest"
  /\ hooked' = AllEntries
  /\ inst' = "orig26"
  /\ UNCHANGED <<linked, sema, resume, ilock, hooked_version, version, loaded,
                 intr_reg, table17, saved, intr_hooked, kentry, kptr, pc>>

(* _26_psio2_transfer_reset() unlocks sio2man; the version is recorded.    *)
InstallUnlock ==
  /\ inst = "orig26"
  /\ ilock' = None
  /\ hooked_version' = version
  /\ inst' = "relink"
  /\ UNCHANGED <<linked, sema, resume, hooked, version, loaded, intr_reg, table17,
                 saved, intr_hooked, kentry, kptr, pc>>

(* ioplib_relinkExports(lib): importers now reach the hooked entries.      *)
Relink ==
  /\ inst = "relink"
  /\ linked' = hooked
  /\ inst' = "done"
  /\ UNCHANGED <<sema, resume, ilock, hooked, hooked_version, version, loaded,
                 intr_reg, table17, saved, intr_hooked, kentry, kptr, pc>>

(* sio2man loads after mmce: loadcore's entry 6 reaches                    *)
(* hookRegisterLibraryEntries, which runs the whole of _sio2man_hook       *)
(* before the library is visible to any client.  After unload the entry is *)
(* the original again.  Module loading and stopping are serialised by the  *)
(* loader.                                                                 *)
LibraryRegistered ==
  /\ ~loaded /\ inst \in {"done", "gone"}
  /\ loaded' = TRUE
  /\ IF kentry["loadcore6"] = "hook" /\ Supported(version)
       THEN /\ hooked' = AllEntries /\ linked' = AllEntries
            /\ hooked_version' = version
       ELSE UNCHANGED <<linked, hooked, hooked_version>>
  /\ UNCHANGED <<sema, resume, ilock, version, intr_reg, table17, saved,
                 intr_hooked, kentry, kptr, inst, pc>>

(* sio2man registers its SIO2 handler: hookRegisterIntrHandler captures it *)
(* once, then intrman installs it unless the IRQ already has a handler     *)
(* (mmce's, written by mmce_sio2_lock).  It runs only while intrman's     *)
(* entry 4 is the hook.                                                    *)
IntrRegistered ==
  /\ ~intr_reg /\ inst \in {"done", "gone"}
  /\ intr_reg' = TRUE
  /\ IF intr_hooked \/ kentry["intrman4"] # "hook"
       THEN UNCHANGED <<saved, intr_hooked>>
       ELSE saved' = "sio2man" /\ intr_hooked' = TRUE
  /\ table17' = IF table17 = "none" THEN "sio2man" ELSE table17
  /\ UNCHANGED <<linked, sema, resume, ilock, hooked, hooked_version, version,
                 loaded, kentry, kptr, inst, pc>>

-----------------------------------------------------------------------------
(* __stop with mmce idle: sio2man_hook_deinit finds sio2man and            *)
(* _sio2man_unhook restores the original entries if a hook was installed   *)
(* (hooked_version # 0), then clears hooked_version.                       *)
Unhook ==
  /\ inst = "done" /\ pc["mmce"] = "idle"
  /\ IF loaded
       THEN /\ hooked' = IF hooked_version # <<0, 0>> THEN {} ELSE hooked
            /\ hooked_version' = <<0, 0>>
            /\ inst' = "unlink"
       ELSE UNCHANGED <<hooked, hooked_version>> /\ inst' = "restore"
  /\ UNCHANGED <<linked, sema, resume, ilock, version, loaded, intr_reg, table17,
                 saved, intr_hooked, kentry, kptr, pc>>

(* ioplib_relinkExports: importers reach the original entries again.       *)
UnloadRelink ==
  /\ inst = "unlink"
  /\ linked' = hooked
  /\ inst' = "restore"
  /\ UNCHANGED <<sema, resume, ilock, hooked, hooked_version, version, loaded,
                 intr_reg, table17, saved, intr_hooked, kentry, kptr, pc>>

(* loadcore's entry 6 and intrman's entry 4 are written back from         *)
(* pRegisterLibraryEntries and pRegisterIntrHandler, whatever the load     *)
(* order: when sio2man was loaded at start-up those were never set, and    *)
(* both entries become NULL.                                               *)
RestoreHooks ==
  /\ inst = "restore"
  /\ kentry' = kptr
  /\ inst' = "delete"
  /\ UNCHANGED <<linked, sema, resume, ilock, hooked, hooked_version, version,
                 loaded, intr_reg, table17, saved, intr_hooked, kptr, pc>>

DeleteSemas ==
  /\ inst = "delete"
  /\ LET waiters == UNION {sema[s].waiters : s \in Semas}
     IN  pc' = [t \in Actors |-> IF t \in waiters THEN resume[t] ELSE pc[t]]
  /\ sema' = [s \in Semas |-> [count |-> 0, waiters |-> {}, deleted |-> TRUE]]
  /\ inst' = "gone"
  /\ UNCHANGED <<linked, resume, ilock, hooked, hooked_version, version, loaded,
                 intr_reg, table17, saved, intr_hooked, kentry, kptr>>

-----------------------------------------------------------------------------
(* A sio2man client calls its transfer_init entry: hooked, it first waits  *)
(* for lock_sema (_sio2_transfer_init).                                    *)
ClientInit(c) ==
  /\ pc[c] = "idle" /\ loaded /\ intr_reg
  /\ inst \notin InstallSteps \/ ClientsDuringInstall
  /\ IF InitEntry[c] \in linked
       THEN WaitSema("lock_sema", c, "init")
       ELSE pc' = [pc EXCEPT ![c] = "init"] /\ UNCHANGED <<linked, sema, resume>>
  /\ UNCHANGED <<linked, ilock, hooked, hooked_version, version, loaded, intr_reg,
                 table17, saved, intr_hooked, kentry, kptr, inst>>

(* The original init: wait for sio2man's session lock.                     *)
ClientLock(c) ==
  /\ pc[c] = "init" /\ ilock = None
  /\ ilock' = c
  /\ pc' = [pc EXCEPT ![c] = "session"]
  /\ UNCHANGED <<linked, sema, resume, hooked, hooked_version, version, loaded,
                 intr_reg, table17, saved, intr_hooked, kentry, kptr, inst>>

(* transfer: hooked, it runs between WaitSema and SignalSema of lock_sema2 *)
(* (_sio2_transfer).                                                       *)
ClientTransfer(c) ==
  /\ pc[c] = "session"
  /\ IF 25 \in linked
       THEN WaitSema("lock_sema2", c, "hxfer")
       ELSE pc' = [pc EXCEPT ![c] = "xfer"] /\ UNCHANGED <<linked, sema, resume>>
  /\ UNCHANGED <<linked, ilock, hooked, hooked_version, version, loaded, intr_reg,
                 table17, saved, intr_hooked, kentry, kptr, inst>>

ClientTransferDone(c) ==
  /\ pc[c] \in {"xfer", "hxfer"}
  /\ IF pc[c] = "hxfer"
       THEN SignalSema("lock_sema2", c, "session")
       ELSE pc' = [pc EXCEPT ![c] = "session"] /\ UNCHANGED sema
  /\ UNCHANGED <<linked, resume, ilock, hooked, hooked_version, version, loaded,
                 intr_reg, table17, saved, intr_hooked, kentry, kptr, inst>>

(* transfer_reset: the original reset releases sio2man's lock; hooked, it  *)
(* then signals lock_sema (_sio2_transfer_reset).                          *)
ClientReset(c) ==
  /\ pc[c] = "session"
  /\ ilock' = None
  /\ pc' = [pc EXCEPT ![c] = IF 26 \in linked THEN "signal" ELSE "idle"]
  /\ UNCHANGED <<linked, sema, resume, hooked, hooked_version, version, loaded,
                 intr_reg, table17, saved, intr_hooked, kentry, kptr, inst>>

ClientSignal(c) ==
  /\ pc[c] = "signal"
  /\ SignalSema("lock_sema", c, "idle")
  /\ UNCHANGED <<linked, resume, ilock, hooked, hooked_version, version, loaded,
                 intr_reg, table17, saved, intr_hooked, kentry, kptr, inst>>

-----------------------------------------------------------------------------
(* mmce_sio2_lock -> sio2man_hook_sio2_lock: WaitSema(lock_sema), then     *)
(* WaitSema(lock_sema2).  The driver serves requests once started.         *)
MmceLock ==
  /\ pc["mmce"] = "idle" /\ inst = "done"
  /\ WaitSema("lock_sema", "mmce", "lock2")
  /\ UNCHANGED <<linked, ilock, hooked, hooked_version, version, loaded,
                 intr_reg, table17, saved, intr_hooked, kentry, kptr, inst>>

MmceLock2 ==
  /\ pc["mmce"] = "lock2"
  /\ WaitSema("lock_sema2", "mmce", "swap")
  /\ UNCHANGED <<linked, ilock, hooked, hooked_version, version, loaded,
                 intr_reg, table17, saved, intr_hooked, kentry, kptr, inst>>

(* Save the ctrl register, swap table[17] to mmce's handler under          *)
(* CpuSuspendIntr, program the port registers.                            *)
MmceSwap ==
  /\ pc["mmce"] = "swap"
  /\ table17' = "mmce"
  /\ pc' = [pc EXCEPT !["mmce"] = "crit"]
  /\ UNCHANGED <<linked, sema, resume, ilock, hooked, hooked_version, version,
                 loaded, intr_reg, saved, intr_hooked, kentry, kptr, inst>>

(* mmce_sio2_unlock: restore sio2man's handler and ctrl, then              *)
(* SignalSema(lock_sema2) and SignalSema(lock_sema).                       *)
MmceUnlock ==
  /\ pc["mmce"] = "crit"
  /\ table17' = saved
  /\ SignalSema("lock_sema2", "mmce", "unlock1")
  /\ UNCHANGED <<linked, resume, ilock, hooked, hooked_version, version, loaded,
                 intr_reg, saved, intr_hooked, kentry, kptr, inst>>

MmceUnlock1 ==
  /\ pc["mmce"] = "unlock1"
  /\ SignalSema("lock_sema", "mmce", "idle")
  /\ UNCHANGED <<linked, resume, ilock, hooked, hooked_version, version, loaded,
                 intr_reg, table17, saved, intr_hooked, kentry, kptr, inst>>

-----------------------------------------------------------------------------
Init ==
  /\ sema = [s \in Semas |-> [count |-> 1, waiters |-> {}, deleted |-> FALSE]]
  /\ resume = [t \in Actors |-> "idle"]
  /\ ilock = None
  /\ hooked = {}
  /\ linked = {}
  /\ hooked_version = <<0, 0>>
  /\ version \in Versions
  /\ \E order \in LoadOrders :
       /\ loaded = (order = "loaded")
       /\ intr_reg = (order = "loaded")
       /\ table17 = IF order = "loaded" THEN "sio2man" ELSE "none"
       /\ inst = IF order = "loaded" THEN "capture" ELSE "done"
       \* sio2man_hook_init hooks loadcore and intrman only when sio2man
       \* is not loaded yet, and only then sets the saved pointers.
       /\ kentry = [k \in KernelHooks |-> IF order = "loaded" THEN "orig" ELSE "hook"]
       /\ kptr = [k \in KernelHooks |-> IF order = "loaded" THEN "null" ELSE "orig"]
  /\ saved = "none"
  /\ intr_hooked = FALSE
  /\ pc = [t \in Actors |-> "idle"]

Installer ==
  Capture \/ InstallLock \/ InstallRest \/ InstallUnlock \/ Relink
    \/ LibraryRegistered \/ IntrRegistered
    \/ UnloadRelink \/ RestoreHooks \/ DeleteSemas

Client(c) ==
  ClientInit(c) \/ ClientLock(c) \/ ClientTransfer(c)
    \/ ClientTransferDone(c) \/ ClientReset(c) \/ ClientSignal(c)

Mmce == MmceLock \/ MmceLock2 \/ MmceSwap \/ MmceUnlock \/ MmceUnlock1

(* Stopping the module is never obliged; once begun, deinit runs through.  *)
Next == Installer \/ Unhook \/ Mmce \/ \E c \in Clients : Client(c)

Spec == Init /\ [][Next]_vars

(* Start-up and a started client session run to completion: its steps are  *)
(* weakly fair, and a session that keeps returning to "session" between    *)
(* transfers is eventually reset (padman and mcman sessions issue a        *)
(* bounded number of transfers).  sio2man's session lock serves every     *)
(* client that keeps waiting for it (sio2man's interface, not in this      *)
(* repository).  mmce's lock and unlock steps run once called.  Nothing is *)
(* assumed of the order in which the semaphores wake their waiters.        *)
(* Neither a client nor mmce is obliged to start, nor the module to be     *)
(* stopped.                                                                *)
ClientStep(c) == Client(c) /\ pc[c] # "idle"
MmceStep == Mmce /\ pc["mmce"] # "idle"

FairSpec ==
  /\ Spec
  /\ WF_vars(Installer)
  /\ \A c \in Clients : /\ WF_vars(ClientStep(c))
                       /\ SF_vars(ClientLock(c)) /\ SF_vars(ClientReset(c))
  /\ WF_vars(MmceStep)

-----------------------------------------------------------------------------
(* Who owns the channel: mmce from its handler swap to its unlock, a       *)
(* client from taking sio2man's session lock to its transfer_reset.  Two  *)
(* owners at once map to "contended", which is no state of the mutex.     *)
Owners ==
  (IF pc["mmce"] \in {"swap", "crit"} THEN {"mmce"} ELSE {})
    \cup {c \in Clients : pc[c] \in {"session", "xfer", "hxfer"}}

Mutex == INSTANCE ChannelMutex
           WITH Free  <- None,
                owner <- IF Owners = {} THEN None
                         ELSE IF \E a \in Owners : Owners = {a}
                              THEN CHOOSE a \in Owners : TRUE
                              ELSE "contended"

(* The hook makes the SIO2 channel a mutex over whole operations (spec     *)
(* sections 3 and 5): mmce never holds it inside a sio2man session         *)
(* (transfer_init to transfer_reset), and ownership passes only through    *)
(* "free", whatever the load order.                                        *)
ChannelExclusive == Mutex!Spec

(* Every transfer is taken by the interrupt handler of its owner: mmce's   *)
(* handler while mmce holds the channel, sio2man's while a client          *)
(* transfer is running.                                                    *)
HandlerRouting ==
  /\ pc["mmce"] = "crit" => table17 = "mmce"
  /\ \A c \in Clients : pc[c] \in {"xfer", "hxfer"} => table17 = "sio2man"

=============================================================================

------------------------------ MODULE PdmaProbe -----------------------------
(***************************************************************************)
(* The life of one card under the driver, pdma-v1.3-src/pdma-pcie.c and    *)
(* the ends of pdma-dev.c: probe and its undoing, removal, and the         *)
(* recovery from PCIe errors, next to programs that have the device open.  *)
(* Each routine is the sequence of its steps, of which it does one at a    *)
(* time: to get a resource, to give one back, or a step of STOP or START.  *)
(* What a call does between the check of dma_enable and its end is         *)
(* PdmaDev; here it only uses the device.  The PCI core, which calls the   *)
(* driver's routines one at a time, is external.                           *)
(***************************************************************************)
EXTENDS Integers, Sequences, Functions

CONSTANTS
    Users,      \* programs that open the device
    Core,       \* the thread of the PCI core that runs the driver's routines
    MaxDev,     \* max_dev: device numbers the driver registered
    MaxFails,   \* bound on the acquisitions that fail
    MaxErrors   \* bound on the errors the bus reports

ASSUME ProbeAssumption ==
    Core \notin Users /\ MaxDev \in Nat /\ MaxFails \in Nat /\ MaxErrors \in Nat

Probe     == <<"entity", "pcie_ctrl", "device", "regions", "mask", "iomap", "msi", "irq",
               "parse", "rd_pool", "wt_pool", "ctrl_init", "config", "cdev">>
Checks    == {"mask", "parse"}
Resources == {"entity", "pcie_ctrl", "device", "regions", "iomap", "msi", "irq",
              "rd_pool", "wt_pool", "cdev"}

(* pdma_pcie_cleanup; pdma_dma_stop; pdma_dma_start of a card that is      *)
(* stopped, or that runs; the free halves of pdma_dev_exit and of remove.  *)
Cleanup  == <<"irq", "msi", "iomap", "regions", "device">>
Stop     == <<"disable", "reset", "drain">>
Start    == <<"reset2", "enable">>
Restart  == <<"disable", "reset", "drain", "reset2", "enable">>
FreePool == <<"rd_pool", "wt_pool">>
FreeAll  == <<"pcie_ctrl", "entity">>

BugRecoverKeepsIrq == Stop \o Tail(Cleanup)

BugRecoverUnstopped == Cleanup

(* The routines, which go through Stop, Start, the setup and the cleanup:  *)
(* pdma_pci_error_detected, slot_reset, pdma_pci_remove.                   *)
Recover == <<"disable", "reset", "drain", "irq", "msi", "iomap", "regions", "device">>

BugSlotResetNoIrq ==
    <<"device", "regions", "mask", "iomap", "msi", "ctrl_init", "config", "reset2", "enable">>

SlotReset == <<"device", "regions", "mask", "iomap", "msi", "irq", "ctrl_init", "config",
               "reset2", "enable">>

PciRemove == <<"cdev", "disable", "reset", "drain", "rd_pool", "wt_pool",
               "irq", "msi", "iomap", "regions", "device", "pcie_ctrl", "entity">>

BugUndoSetupKeepsMsi ==
    [device |-> <<>>, regions |-> <<"device">>, mask |-> <<"regions", "device">>,
     iomap |-> <<"regions", "device">>, msi |-> <<"iomap", "regions", "device">>,
     irq |-> <<"iomap", "regions", "device">>]

(* What the exit labels of setup and of probe give back, by the step that  *)
(* failed.                                                                 *)
UndoSetup ==
    [device |-> <<>>, regions |-> <<"device">>, mask |-> <<"regions", "device">>,
     iomap |-> <<"regions", "device">>, msi |-> <<"iomap", "regions", "device">>,
     irq |-> <<"msi", "iomap", "regions", "device">>]

UndoInit == [parse |-> <<>>, rd_pool |-> <<>>, wt_pool |-> <<"rd_pool">>, cdev |-> FreePool]

UndoProbe(s) ==
    CASE s = "entity"           -> <<>>
      [] s = "pcie_ctrl"        -> <<"entity">>
      [] s \in DOMAIN UndoSetup -> UndoSetup[s] \o FreeAll
      [] s \in DOMAIN UndoInit  -> UndoInit[s] \o (Cleanup \o FreeAll)

VARIABLES
    core,       \* what the card is to the PCI core, or the routine it runs
    todo,       \* the steps that the routine, and each ioctl, has yet to do
    held,       \* the resources the driver has
    minor_idx,  \* device numbers used up
    dma_enable, rw_cnt,
    upc,        \* each program: its file, or where its call is
    fault,      \* a register was used unmapped, a resource got or given back twice
    upset,      \* STOP gave up, or an ioctl, an uncounted call or an open file met the core
    abandoned,  \* the card was removed before it had recovered
    fails, errors

core_vars == <<core, held, minor_idx, fails, errors, abandoned>>
dev_vars  == <<dma_enable, rw_cnt>>
vars      == <<core_vars, dev_vars, todo, upc, fault, upset>>

Idle   == {"unbound", "bound", "needs_reset", "disconnected", "failed"}
Busy   == {"probe", "undo_probe", "remove", "recover", "slot_reset", "undo_reset"}
Steps  == Range(Probe) \cup Range(PciRemove) \cup Range(SlotReset)
Actors == Users \cup {Core}

TypeOK ==
    /\ core \in Idle \cup Busy /\ todo \in [Actors -> Seq(Steps)]
    /\ held \subseteq Resources /\ minor_idx \in 0 .. MaxDev
    /\ dma_enable \in {0, 1} /\ rw_cnt \in Int
    /\ upc \in [Users -> {"closed", "open", "check", "in", "dec", "ioctl", "oops"}]
    /\ {fault, upset, abandoned} \subseteq BOOLEAN
    /\ fails \in 0 .. MaxFails /\ errors \in 0 .. MaxErrors

Init ==
    /\ core = "unbound" /\ todo = [a \in Actors |-> <<>>] /\ held = {} /\ minor_idx = 0
    /\ dma_enable = 0 /\ rw_cnt = 0 /\ upc = [u \in Users |-> "closed"]
    /\ fault = FALSE /\ upset = FALSE /\ abandoned = FALSE /\ fails = 0 /\ errors = 0

Faces(a, s) == todo[a] # <<>> /\ Head(todo[a]) = s
Doing(a, s) == Faces(a, s) /\ todo' = [todo EXCEPT ![a] = Tail(@)]
Ioctls      == {u \in Users : upc[u] = "ioctl"}
Touch       == fault' = (fault \/ "iomap" \notin held)

-----------------------------------------------------------------------------
(* The PCI core calls a routine of the driver ...                          *)

Call(from, routine, steps) ==
    /\ core = from /\ core' = routine /\ todo' = [todo EXCEPT ![Core] = steps]
    /\ UNCHANGED <<held, minor_idx, fails, dev_vars, upc, fault>>

CallProbe ==
    Call("unbound", "probe", Probe) /\ UNCHANGED <<errors, upset, abandoned>>

CallRemove ==
    /\ \E from \in Idle \ {"unbound"} : Call(from, "remove", PciRemove)
    /\ upset' = (upset \/ \E u \in Users : upc[u] # "closed")
    /\ abandoned' = (abandoned \/ core \in {"needs_reset", "disconnected"})
    /\ UNCHANGED errors

(* A permanent failure is only reported back.                              *)
ErrorDetected ==
    /\ errors < MaxErrors /\ errors' = errors + 1
    /\ \/ Call("bound", "recover", Recover) /\ upset' = (upset \/ Ioctls # {})
       \/ Call("bound", "failed", <<>>) /\ UNCHANGED upset
    /\ UNCHANGED abandoned

CallSlotReset ==
    /\ Call("needs_reset", "slot_reset", SlotReset)
    /\ upset' = (upset \/ Ioctls # {}) /\ UNCHANGED <<errors, abandoned>>

(* ... which ends when its steps are done.                                 *)
Result == [probe |-> "bound", undo_probe |-> "unbound", remove |-> "unbound",
           recover |-> "needs_reset", slot_reset |-> "bound", undo_reset |-> "disconnected"]

Return ==
    /\ core \in Busy /\ todo[Core] = <<>> /\ core' = Result[core]
    /\ UNCHANGED <<held, minor_idx, fails, errors, abandoned, dev_vars, todo, upc, fault, upset>>

-----------------------------------------------------------------------------
Getting == core \in {"probe", "slot_reset"}

BugAcquireUnnumbered ==
    /\ Getting /\ \E s \in Resources \cup Checks :
        /\ Doing(Core, s) /\ held' = held \cup ({s} \cap Resources)
        /\ fault' = (fault \/ s \in held)
        /\ minor_idx' = IF s = "cdev" THEN minor_idx + 1 ELSE minor_idx
    /\ UNCHANGED <<core, fails, errors, abandoned, dev_vars, upc, upset>>

Acquire ==
    /\ Getting /\ \E s \in Resources \cup Checks :
        /\ Doing(Core, s) /\ (s = "cdev" => minor_idx < MaxDev)
        /\ held' = held \cup ({s} \cap Resources)
        /\ fault' = (fault \/ s \in held)
        /\ minor_idx' = IF s = "cdev" THEN minor_idx + 1 ELSE minor_idx
    /\ UNCHANGED <<core, fails, errors, abandoned, dev_vars, upc, upset>>

(* A step fails; registering the device also when the numbers are used up. *)
Fail ==
    /\ Getting /\ \E s \in Resources \cup Checks :
        /\ Faces(Core, s)
        /\ \/ fails < MaxFails /\ fails' = fails + 1
           \/ s = "cdev" /\ minor_idx = MaxDev /\ UNCHANGED fails
        /\ \/ core = "probe" /\ core' = "undo_probe"
              /\ todo' = [todo EXCEPT ![Core] = UndoProbe(s)]
           \/ core = "slot_reset" /\ core' = "undo_reset"
              /\ todo' = [todo EXCEPT ![Core] = UndoSetup[s]]
    /\ UNCHANGED <<held, minor_idx, errors, abandoned, dev_vars, upc, fault, upset>>

Release ==
    /\ core \in Busy /\ ~Getting /\ \E s \in Resources :
        Doing(Core, s) /\ held' = held \ {s} /\ fault' = (fault \/ s \notin held)
    /\ UNCHANGED <<core, minor_idx, fails, errors, abandoned, dev_vars, upc, upset>>

(* pdma_dev_ctrl_init, whatever rw_cnt was.                                *)
CtrlInit ==
    /\ Doing(Core, "ctrl_init") /\ dma_enable' = 0 /\ rw_cnt' = 0
    /\ upset' = (upset \/ rw_cnt # 0)
    /\ UNCHANGED <<core_vars, upc, fault>>

Config == Doing(Core, "config") /\ Touch /\ UNCHANGED <<core_vars, dev_vars, upc, upset>>

-----------------------------------------------------------------------------
(* STOP and START, by the driver's routines or by an ioctl.                *)

Disable(a) ==
    /\ Doing(a, "disable") /\ dma_enable' = 0
    /\ UNCHANGED <<core_vars, rw_cnt, upc, fault, upset>>

(* The card's reset may time out: STOP returns before it has woken anyone. *)
Reset(a) ==
    /\ Faces(a, "reset") /\ Touch
    /\ \/ todo' = [todo EXCEPT ![a] = Tail(@)] /\ UNCHANGED upset
       \/ todo' = [todo EXCEPT ![a] = Tail(Tail(@))] /\ upset' = TRUE
    /\ UNCHANGED <<core_vars, dev_vars, upc>>

BugDrainPatient(a) ==
    /\ Doing(a, "drain") /\ rw_cnt = 0 /\ UNCHANGED upset
    /\ UNCHANGED <<core_vars, dev_vars, upc, fault>>

(* STOP waits for the calls in flight, for a second.                       *)
Drain(a) ==
    /\ Doing(a, "drain") /\ upset' = (upset \/ rw_cnt # 0)
    /\ UNCHANGED <<core_vars, dev_vars, upc, fault>>

Reset2(a) ==
    Doing(a, "reset2") /\ Touch /\ UNCHANGED <<core_vars, dev_vars, upc, upset>>

Enable(a) ==
    /\ Doing(a, "enable") /\ dma_enable' = 1 /\ Touch
    /\ UNCHANGED <<core_vars, rw_cnt, upc, upset>>

StopOrStart(a) == Disable(a) \/ Reset(a) \/ Drain(a) \/ Reset2(a) \/ Enable(a)

-----------------------------------------------------------------------------
(* Programs.  A file keeps its pointer to the entity for as long as it is  *)
(* open.                                                                   *)

User(u, from, to) ==
    /\ upc[u] = from /\ upc' = [upc EXCEPT ![u] = to]
    /\ UNCHANGED core_vars

Open(u) ==
    "cdev" \in held /\ User(u, "closed", "open") /\ UNCHANGED <<dev_vars, todo, fault, upset>>

Close(u) == User(u, "open", "closed") /\ UNCHANGED <<dev_vars, todo, fault, upset>>

(* read or write: count, check, use the device, count back.                *)
Inc(u) ==
    /\ "entity" \in held /\ User(u, "open", "check") /\ rw_cnt' = rw_cnt + 1
    /\ UNCHANGED <<dma_enable, todo, fault, upset>>

Check(u) ==
    /\ "entity" \in held /\ User(u, "check", IF dma_enable = 1 THEN "in" ELSE "dec")
    /\ UNCHANGED <<dev_vars, todo, fault, upset>>

Work(u) ==
    /\ "entity" \in held /\ User(u, "in", "dec")
    /\ UNCHANGED <<dev_vars, todo, fault, upset>>

Dec(u) ==
    /\ "entity" \in held /\ User(u, "dec", "open") /\ rw_cnt' = rw_cnt - 1
    /\ UNCHANGED <<dma_enable, todo, fault, upset>>

(* START first stops DMA if it runs.                                       *)
Ioctl(u) ==
    /\ "entity" \in held /\ User(u, "open", "ioctl")
    /\ \E steps \in {Stop, IF dma_enable = 1 THEN Restart ELSE Start} :
        todo' = [todo EXCEPT ![u] = steps]
    /\ upset' = (upset \/ core \in Busy \cup {"needs_reset", "disconnected"} \/ Ioctls # {})
    /\ UNCHANGED <<dev_vars, fault>>

IoctlReturn(u) ==
    /\ todo[u] = <<>> /\ User(u, "ioctl", "open")
    /\ UNCHANGED <<dev_vars, todo, fault, upset>>

(* A call on an entity that is gone.                                       *)
UseAfterFree(u) ==
    /\ "entity" \notin held /\ upc[u] \notin {"closed", "oops"} /\ User(u, upc[u], "oops")
    /\ todo' = [todo EXCEPT ![u] = <<>>]
    /\ UNCHANGED <<dev_vars, fault, upset>>

-----------------------------------------------------------------------------
Routine == Return \/ Acquire \/ Fail \/ Release \/ CtrlInit \/ Config \/ StopOrStart(Core)

Program(u) ==
    \/ Open(u) \/ Close(u) \/ Inc(u) \/ Check(u) \/ Work(u) \/ Dec(u) \/ Ioctl(u)
    \/ ("entity" \in held /\ (StopOrStart(u) \/ IoctlReturn(u))) \/ UseAfterFree(u)

Next ==
    \/ CallProbe \/ CallRemove \/ ErrorDetected \/ CallSlotReset \/ Routine
    \/ \E u \in Users : Program(u)

Spec == Init /\ [][Next]_vars

(* The core's thread runs; programs may stop anywhere.                     *)
FairSpec == Spec /\ WF_vars(Routine)

-----------------------------------------------------------------------------
(* A card that is not bound holds nothing: every failure of probe (the     *)
(* labels at pdma-pcie.c:170-176 and 242-248, pdma-dev.c:995-1027) and     *)
(* every removal gives all of it back.                                     *)
NothingLeaks == core = "unbound" => held = {}

(* A bound card holds everything, also after recoveries.                   *)
BoundHoldsAll == core = "bound" => held = Resources

(* Nothing is got or given back twice, and no register is used while it is *)
(* not mapped, except by an ioctl that meets the core or by the removal of *)
(* a card whose recovery has failed (pdma-pcie.c:261 after 287 or 303).    *)
NoFault == fault => upset \/ abandoned

(* A call that is past its check of dma_enable has its device under it,    *)
(* and nobody relinks the buffer lists: STOP's drain comes before the      *)
(* cleanup, the slot reset's initialisation (pdma-dev.c:1052) and the free *)
(* pool (1040).                                                            *)
Relinking(a) == Faces(a, "ctrl_init") \/ Faces(a, "enable")

CallsHaveDevice == \A u \in Users : upc[u] = "in" =>
    \/ upset
    \/ {"entity", "iomap", "irq", "rd_pool", "wt_pool"} \subseteq held
       /\ ~\E a \in Actors : Relinking(a)

(* Removal and recovery come to an end, whatever the programs do, even if  *)
(* a call never returns (pdma-dev.c:441).                                  *)
RoutinesEnd == core \in Busy ~> core \in Idle
=============================================================================

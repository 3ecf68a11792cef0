--------------------------- MODULE ZoneLifecycle ---------------------------
(***************************************************************************)
(* The life of a zone on aarch64: created and started by a hypercall of the *)
(* root zone, its secondary CPUs started by PSCI CPU_ON, stopped by a       *)
(* hypercall or by its own PSCI SYSTEM_OFF, and removed.                    *)
(*                                                                          *)
(* Every CPU is a process.  While it is at EL2 its interrupts are masked,   *)
(* so it takes the SGI of an event only at pc "guest".  A step is the code  *)
(* between two points where another CPU can observe or disturb it: a lock   *)
(* taken, an event queued, an SGI sent, a field of another CPU written.     *)
(*                                                                          *)
(*   event layer   events, sgi          event.rs, GICv3 SGI pending bits    *)
(*   PerCpu        power_on, zone,      percpu.rs, arch/aarch64/cpu.rs      *)
(*                 entry, gpm, ctrl_lock                                    *)
(*   ZONE_LIST     list                 zone.rs                             *)
(*   zone objects  ident, wlock, is_err one per Arc<RwLock<Zone>> created   *)
(*   VIRTIO_IRQS   irqs_lock, virq      device/virtio_trampoline.rs         *)
(*                                                                          *)
(* A zone object is a number: 0 is the root zone's, the others are numbered *)
(* in the order zone_create makes them, so that a zone started again under  *)
(* the same id is another object.                                           *)
(***************************************************************************)
EXTENDS EventQueue, FiniteSets

CONSTANTS NCPU,       \* number of CPUs
          RootCpus,   \* the CPUs of the root zone
          ZoneCfg,    \* zone id -> the CPUs its configuration names
          MaxZones,   \* bound: zone objects created after the root zone
          MaxEvents,  \* bound: queue length at which only a SHUTDOWN is still sent
          Env         \* what guests do besides computing, see EnvKinds

CPU  == 0 .. NCPU - 1
Obj  == 0 .. MaxZones
NONE == NCPU + MaxZones          \* "no CPU", "no zone": None, an unlocked lock
PARK == NONE + 1                 \* the stage-2 tables of PARKING_MEMORY_SET

\* "cpu_on"      guests start their secondary CPUs (PSCI CPU_ON)
\* "mmio"        guests access emulated devices (data aborts)
\* "fault"       guests access addresses no region covers (zone_error)
\* "system_off"  guests switch themselves off (PSCI SYSTEM_OFF)
\* "virtio"      the root zone reports finished virtio requests
\* "shm"         the root zone sends shared-memory signals
\* "patient"     the root zone stops a zone only once its boot CPU is on
\* "orderly"     it stops a zone only when all the zone's CPUs are at rest in
\*               their guest, and a zone being stopped does not trap
EnvKinds == {"cpu_on", "mmio", "fault", "system_off", "virtio", "shm", "patient", "orderly"}

ASSUME ZoneAssumption ==
  /\ NCPU \in Nat \ {0}
  /\ RootCpus \subseteq CPU /\ RootCpus # {}
  /\ 0 \notin DOMAIN ZoneCfg
  /\ \A z \in DOMAIN ZoneCfg : ZoneCfg[z] \subseteq CPU /\ ZoneCfg[z] # {}
  /\ MaxZones \in Nat /\ MaxEvents \in Nat
  /\ Env \subseteq EnvKinds /\ ("shm" \in Env => 2 \in CPU)

ZoneId == DOMAIN ZoneCfg

VARIABLES events, sgi,
          power_on, zone, entry, gpm, ctrl_lock,
          list, ident, wlock, is_err,
          refused,    \* history: the zone objects whose start was refused with EBUSY
          irqs_lock, virq,
          gaveUp,     \* history: the CPUs that a SYSTEM_OFF has taken from their zone
          pc, dst, cur, todo

evars == <<events, sgi>>
cvars == <<power_on, zone, entry, gpm, ctrl_lock>>
zvars == <<list, ident, wlock, is_err, refused>>
ivars == <<irqs_lock, virq, gaveUp>>
pvars == <<pc, dst, cur, todo>>
vars  == <<evars, cvars, zvars, ivars, pvars>>

\* cur[c] is the zone object the handler of CPU c works on, todo[c] the CPUs
\* its loop has still to visit, dst[c] the target of its send_event.
Init == /\ events = [c \in CPU |-> <<>>]
        /\ sgi = [c \in CPU |-> FALSE]
        /\ power_on = [c \in CPU |-> c \in RootCpus]
        /\ zone = [c \in CPU |-> IF c \in RootCpus THEN 0 ELSE NONE]
        /\ entry = [c \in CPU |-> c \in RootCpus]
        /\ gpm = [c \in CPU |-> IF c \in RootCpus THEN 0 ELSE PARK]
        /\ ctrl_lock = [c \in CPU |-> NONE]
        /\ list = <<0>>
        /\ ident = <<>>
        /\ wlock = [o \in Obj |-> NONE]
        /\ is_err = [o \in Obj |-> FALSE]
        /\ refused = {}
        /\ irqs_lock = NONE
        /\ virq = [c \in CPU |-> FALSE]
        /\ gaveUp = {}
        /\ pc = [c \in CPU |-> "guest"]
        /\ dst = [c \in CPU |-> c]
        /\ cur = [c \in CPU |-> NONE]
        /\ todo = [c \in CPU |-> {}]
-----------------------------------------------------------------------------
(* Zone objects, the zone list, locks.                                      *)

id_of(o) == IF o = 0 THEN 0 ELSE ident[o]
cpu_set(o) == IF o = 0 THEN RootCpus ELSE ZoneCfg[ident[o]]
first_cpu(S) == CHOOSE c \in S : \A d \in S : c <= d

Listed == {list[i] : i \in 1 .. Len(list)}

\* The places of the list with an id; find_zone: the object at the first of
\* them, if any.  A find reads the id of every zone up to that one, so it
\* waits for the writers of these: Read(z).
Places(z) == {k \in 1 .. Len(list) : id_of(list[k]) = z}
find_zone(z) == IF Places(z) = {} THEN {} ELSE {list[first_cpu(Places(z))]}
Read(z) == {list[k] : k \in {i \in 1 .. Len(list) : \A p \in Places(z) : i <= p}}
Unlocked(S) == \A o \in S : wlock[o] = NONE

\* A CPU that panicked inside remove_zone never releases ZONE_LIST.
ListFree == \A c \in CPU : pc[c] \notin {"assert", "unwrap_list"}

\* The places where a handler keeps a clone of the Arc of cur: a local, not
\* the one in PerCpu.zone or in ZONE_LIST.
Cloning == {"run_read", "mm_read", "ze_write", "so_read", "so_loop", "so_sgi",
            "zs_wake", "zs_sgi", "zs_add", "shm_read",
            "sd_write", "sd_send", "sd_sgi", "sd_wait", "sd_clear", "sd_drop"}

\* Arc::strong_count of an object that has just been taken out of the list.
strong_count(o) == 1 + Cardinality({c \in CPU : zone[c] = o})
                     + Cardinality({c \in CPU : pc[c] \in Cloning /\ cur[c] = o})

\* The read guard of SYSTEM_OFF's loop lives as long as the loop.
ReadLocked(o) == \E c \in CPU : pc[c] \in {"so_loop", "so_sgi"} /\ cur[c] = o

Goto(c, l) == pc' = [pc EXCEPT ![c] = l]

\* remove_zone: unwrap of the entry found, then the assertion on the count.
\* A panic stops the CPU for good with every lock it holds, here ZONE_LIST.
remove_zone(c, z, next) ==
  /\ ListFree /\ Unlocked(Read(z))
  /\ IF Places(z) = {}
       THEN Goto(c, "unwrap_list") /\ UNCHANGED list
       ELSE LET i == first_cpu(Places(z)) IN
              /\ list' = SubSeq(list, 1, i - 1) \o SubSeq(list, i + 1, Len(list))
              /\ Goto(c, IF strong_count(list[i]) = 1 THEN next ELSE "assert")
-----------------------------------------------------------------------------
(* send_event: push the event now, the SGI is the next step of the sender.  *)
Post(c, t, e) == /\ events' = [events EXCEPT ![t] = add_event(@, e)]
                 /\ dst' = [dst EXCEPT ![c] = t]

Room(t) == Len(events[t]) < MaxEvents

arch_send_event(c) == sgi' = [sgi EXCEPT ![dst[c]] = TRUE]

\* Locals end with the code that uses them: the target of a send_event, the
\* clone of a zone.
Forget(c) == dst' = [dst EXCEPT ![c] = c]
DropZone(c) == cur' = [cur EXCEPT ![c] = NONE]

(* Taking an SGI: gicv3_handle_irq_el1 and check_events, as in Events.      *)
TakeIrq(c) ==
  /\ pc[c] = "guest" /\ sgi[c]
  /\ Goto(c, "irq")
  /\ UNCHANGED <<evars, cvars, zvars, ivars, dst, cur, todo>>

Acknowledge(c) ==
  /\ pc[c] = "irq" /\ sgi[c]
  /\ sgi' = [sgi EXCEPT ![c] = FALSE]
  /\ Goto(c, "ack")
  /\ UNCHANGED <<events, cvars, zvars, ivars, dst, cur, todo>>

IrqDone(c) ==
  /\ pc[c] = "irq" /\ ~sgi[c]
  /\ Goto(c, "guest")
  /\ UNCHANGED <<evars, cvars, zvars, ivars, dst, cur, todo>>

\* Where the arms of check_events lead; SHM_SIGNAL, an empty queue and the
\* events of other architectures only inject an interrupt.
Arm(q) == IF q = <<>> THEN "irq"
          ELSE CASE Head(q) = IPI_EVENT_WAKEUP -> "run"
                 [] Head(q) = IPI_EVENT_SHUTDOWN -> "idle"
                 [] Head(q) = IPI_EVENT_VIRTIO_INJECT_IRQ -> "virq"
                 [] OTHER -> "irq"

check_events(c) ==
  /\ pc[c] = "ack"
  /\ events' = [events EXCEPT ![c] = fetch_event(@)]
  /\ Goto(c, Arm(events[c]))
  /\ UNCHANGED <<sgi, cvars, zvars, ivars, dst, cur, todo>>

\* handle_virtio_irq: inject what VIRTIO_IRQS lists for this CPU, under its lock.
handle_virtio_irq(c) ==
  /\ pc[c] = "virq" /\ irqs_lock = NONE
  /\ virq' = [virq EXCEPT ![c] = FALSE]
  /\ Goto(c, "irq")
  /\ UNCHANGED <<evars, cvars, zvars, irqs_lock, gaveUp, dst, cur, todo>>
-----------------------------------------------------------------------------
(* ArchCpu::run and ArchCpu::idle.                                          *)

\* this_cpu_data().zone.clone().unwrap(), in activate_gpm and in this_zone().
CloneZone(c, next) ==
  /\ cur' = [cur EXCEPT ![c] = zone[c]]
  /\ Goto(c, IF zone[c] = NONE THEN "unwrap" ELSE next)
  /\ UNCHANGED <<evars, cvars, zvars, ivars, dst, todo>>

RunClone(c) == pc[c] = "run" /\ CloneZone(c, "run_read")

RunActivate(c) ==
  /\ pc[c] = "run_read" /\ wlock[cur[c]] = NONE
  /\ gpm' = [gpm EXCEPT ![c] = cur[c]]
  /\ Goto(c, "run_on")
  /\ UNCHANGED <<evars, power_on, zone, entry, ctrl_lock, zvars, ivars, dst, cur, todo>>

\* reset to cpu_on_entry, power_on = true (without ctrl_lock), vmreturn.
RunOn(c) ==
  /\ pc[c] = "run_on"
  /\ power_on' = [power_on EXCEPT ![c] = TRUE]
  /\ Goto(c, "guest")
  /\ DropZone(c)
  /\ UNCHANGED <<evars, zone, entry, gpm, ctrl_lock, zvars, ivars, dst, todo>>

\* Defect: idle() leaves power_on set.
IdleOff_KeepsPower(c) ==
  /\ pc[c] = "idle" /\ ctrl_lock[c] = NONE
  /\ Goto(c, "park")
  /\ UNCHANGED <<evars, cvars, zvars, ivars, dst, cur, todo>>

IdleOff(c) ==
  /\ pc[c] = "idle" /\ ctrl_lock[c] = NONE
  /\ power_on' = [power_on EXCEPT ![c] = FALSE]
  /\ Goto(c, "park")
  /\ UNCHANGED <<evars, zone, entry, gpm, ctrl_lock, zvars, ivars, dst, cur, todo>>

Park(c) ==
  /\ pc[c] = "park"
  /\ gpm' = [gpm EXCEPT ![c] = PARK]
  /\ Goto(c, "guest")
  /\ UNCHANGED <<evars, power_on, zone, entry, ctrl_lock, zvars, ivars, dst, cur, todo>>
-----------------------------------------------------------------------------
(* What guests do.  A guest traps from its own code, not while parked.      *)

Stopping(o) == \E c \in CPU : /\ pc[c] \in {"sd_write", "sd_send", "sd_sgi", "sd_wait",
                                            "sd_clear", "sd_drop", "sd_remove"}
                              /\ cur[c] = o

MayTrap(c) == /\ pc[c] = "guest"
              /\ gpm[c] # PARK
              /\ "orderly" \in Env => ~Stopping(gpm[c])

\* psci_emulate_cpu_on for another CPU of the guest's zone; a target that is
\* already on is refused without effect.
CpuOn(c, t) ==
  /\ "cpu_on" \in Env /\ MayTrap(c) /\ gpm[c] # 0
  /\ t \in cpu_set(gpm[c]) /\ Room(t)
  /\ ctrl_lock[t] = NONE /\ ~power_on[t]
  /\ entry' = [entry EXCEPT ![t] = TRUE]
  /\ power_on' = [power_on EXCEPT ![t] = TRUE]
  /\ ctrl_lock' = [ctrl_lock EXCEPT ![t] = c]
  /\ Post(c, t, IPI_EVENT_WAKEUP)
  /\ Goto(c, "on_sgi")
  /\ UNCHANGED <<sgi, zone, gpm, zvars, ivars, cur, todo>>

OnSgi(c) ==
  /\ pc[c] = "on_sgi"
  /\ arch_send_event(c)
  /\ ctrl_lock' = [ctrl_lock EXCEPT ![dst[c]] = NONE]
  /\ Goto(c, "guest")
  /\ Forget(c)
  /\ UNCHANGED <<events, power_on, zone, entry, gpm, zvars, ivars, cur, todo>>

\* mmio_handle_access: this_zone(), then zone.read() twice, then the handler.
Mmio(c) == "mmio" \in Env /\ MayTrap(c) /\ CloneZone(c, "mm_read")

MmioRead(c) ==
  /\ pc[c] = "mm_read" /\ wlock[cur[c]] = NONE
  /\ \/ Goto(c, "guest")
     \/ "fault" \in Env /\ Goto(c, "ze")
  /\ DropZone(c)
  /\ UNCHANGED <<evars, cvars, zvars, ivars, dst, todo>>

\* zone_error, after an access no region covers: panic for the root zone,
\* is_err under zone.write() for another.
ZoneError(c) == pc[c] = "ze" /\ zone[c] # 0 /\ CloneZone(c, "ze_write")

ZoneErrorRoot(c) ==
  /\ pc[c] = "ze" /\ zone[c] = 0
  /\ Goto(c, "root_panic")
  /\ UNCHANGED <<evars, cvars, zvars, ivars, dst, cur, todo>>

ZoneErrorWrite(c) ==
  /\ pc[c] = "ze_write" /\ wlock[cur[c]] = NONE /\ ~ReadLocked(cur[c])
  /\ is_err' = [is_err EXCEPT ![cur[c]] = TRUE]
  /\ Goto(c, "guest")
  /\ DropZone(c)
  /\ UNCHANGED <<evars, cvars, list, ident, wlock, refused, ivars, dst, todo>>

\* PSCI SYSTEM_OFF of a zone other than the root zone.
SystemOff(c) ==
  "system_off" \in Env /\ MayTrap(c) /\ gpm[c] # 0 /\ CloneZone(c, "so_read")

SoRead(c) ==
  /\ pc[c] = "so_read" /\ wlock[cur[c]] = NONE
  /\ todo' = [todo EXCEPT ![c] = cpu_set(cur[c]) \ {c}]
  /\ Goto(c, "so_loop")
  /\ UNCHANGED <<evars, cvars, zvars, ivars, dst, cur>>

SoSend(c) ==
  /\ pc[c] = "so_loop" /\ todo[c] # {}
  /\ LET t == first_cpu(todo[c]) IN
       /\ ctrl_lock[t] = NONE
       /\ zone' = [zone EXCEPT ![t] = NONE]
       /\ ctrl_lock' = [ctrl_lock EXCEPT ![t] = c]
       /\ Post(c, t, IPI_EVENT_SHUTDOWN)
       /\ gaveUp' = gaveUp \cup {t}
  /\ Goto(c, "so_sgi")
  /\ UNCHANGED <<sgi, power_on, entry, gpm, zvars, irqs_lock, virq, cur, todo>>

SoSgi(c) ==
  /\ pc[c] = "so_sgi"
  /\ arch_send_event(c)
  /\ ctrl_lock' = [ctrl_lock EXCEPT ![dst[c]] = NONE]
  /\ todo' = [todo EXCEPT ![c] = @ \ {dst[c]}]
  /\ Goto(c, "so_loop")
  /\ Forget(c)
  /\ UNCHANGED <<events, power_on, zone, entry, gpm, zvars, ivars, cur>>

SoLeave(c) ==
  /\ pc[c] = "so_loop" /\ todo[c] = {}
  /\ zone' = [zone EXCEPT ![c] = NONE]
  /\ gaveUp' = gaveUp \cup {c}
  /\ Goto(c, "so_remove")
  /\ UNCHANGED <<evars, power_on, entry, gpm, ctrl_lock, zvars, irqs_lock, virq, dst, cur, todo>>

SoRemove(c) ==
  /\ pc[c] = "so_remove"
  /\ remove_zone(c, id_of(cur[c]), "idle")
  /\ DropZone(c)
  /\ UNCHANGED <<evars, cvars, ident, wlock, is_err, refused, ivars, dst, todo>>
-----------------------------------------------------------------------------
(* Hypercalls of the root zone.                                             *)

Root(c) == pc[c] = "guest" /\ gpm[c] = 0 /\ c \in RootCpus

\* Defect: zone_create does not look whether its CPUs are taken.
ZoneStart_NoCpuCheck(c, z) ==
  /\ Root(c) /\ Len(ident) < MaxZones
  /\ ListFree /\ Unlocked(Read(z))
  /\ find_zone(z) = {}
  /\ ident' = Append(ident, z)
  /\ cur' = [cur EXCEPT ![c] = Len(ident) + 1]
  /\ Goto(c, "zs_assign")
  /\ UNCHANGED <<evars, cvars, list, wlock, is_err, refused, ivars, dst, todo>>

\* hv_zone_start, zone_create: the id must be free and every CPU without a
\* zone (otherwise EINVAL or EBUSY, without effect on the state modelled).
ZoneStart(c, z) ==
  /\ Root(c) /\ Len(ident) < MaxZones
  /\ ListFree /\ Unlocked(Read(z))
  /\ find_zone(z) = {}
  /\ \A t \in ZoneCfg[z] : zone[t] = NONE
  /\ ident' = Append(ident, z)
  /\ cur' = [cur EXCEPT ![c] = Len(ident) + 1]
  /\ Goto(c, "zs_assign")
  /\ UNCHANGED <<evars, cvars, list, wlock, is_err, refused, ivars, dst, todo>>

\* zone_create, its end: zone and entry of the CPUs of the new object.
ZsAssign(c) ==
  /\ pc[c] = "zs_assign"
  /\ zone' = [t \in CPU |-> IF t \in cpu_set(cur[c]) THEN cur[c] ELSE zone[t]]
  /\ entry' = [t \in CPU |-> entry[t] \/ t \in cpu_set(cur[c])]
  /\ Goto(c, "zs_wake")
  /\ UNCHANGED <<evars, power_on, gpm, ctrl_lock, zvars, ivars, dst, cur, todo>>

\* Wake the boot CPU under its ctrl_lock.  If it is on, EBUSY is returned and
\* the object is dropped, except for the references in PerCpu.zone.
ZsWake(c) ==
  /\ pc[c] = "zs_wake"
  /\ LET b == first_cpu(cpu_set(cur[c])) IN
       /\ ctrl_lock[b] = NONE
       /\ \/ /\ power_on[b]
             /\ refused' = refused \cup {cur[c]}
             /\ Goto(c, "guest")
             /\ DropZone(c)
             /\ UNCHANGED <<events, dst, ctrl_lock>>
          \/ /\ ~power_on[b]
             /\ ctrl_lock' = [ctrl_lock EXCEPT ![b] = c]
             /\ Post(c, b, IPI_EVENT_WAKEUP)
             /\ Goto(c, "zs_sgi")
             /\ UNCHANGED <<refused, cur>>
  /\ UNCHANGED <<sgi, power_on, zone, entry, gpm, list, ident, wlock, is_err, ivars, todo>>

\* Defect: the SGI is sent only if events are already waiting.
ZsSgi_OnlyIfFirst(c) ==
  /\ pc[c] = "zs_sgi"
  /\ IF Len(events[dst[c]]) > 1 THEN arch_send_event(c) ELSE UNCHANGED sgi
  /\ Goto(c, "zs_add")
  /\ UNCHANGED <<events, cvars, zvars, ivars, dst, cur, todo>>

ZsSgi(c) ==
  /\ pc[c] = "zs_sgi"
  /\ arch_send_event(c)
  /\ Goto(c, "zs_add")
  /\ UNCHANGED <<events, cvars, zvars, ivars, dst, cur, todo>>

\* add_zone, and the ctrl_lock of the boot CPU is released.
ZsAdd(c) ==
  /\ pc[c] = "zs_add" /\ ListFree
  /\ list' = Append(list, cur[c])
  /\ ctrl_lock' = [ctrl_lock EXCEPT ![dst[c]] = NONE]
  /\ Goto(c, "guest")
  /\ Forget(c)
  /\ DropZone(c)
  /\ UNCHANGED <<evars, power_on, zone, entry, gpm, ident, wlock, is_err, refused, ivars, todo>>

Booted(o) == power_on[first_cpu(cpu_set(o))]
AtRest(o) == \A t \in cpu_set(o) : pc[t] = "guest" /\ ~sgi[t] /\ events[t] = <<>>

\* hv_zone_shutdown: VIRTIO_IRQS is held to the end of the call.
ZoneShutdown(c, z) ==
  /\ Root(c) /\ irqs_lock = NONE
  /\ ListFree /\ Unlocked(Read(z))
  /\ \E o \in find_zone(z) :
       /\ Env \cap {"patient", "orderly"} # {} => Booted(o)
       /\ "orderly" \in Env => AtRest(o)
       /\ cur' = [cur EXCEPT ![c] = o]
  /\ irqs_lock' = c
  /\ Goto(c, "sd_write")
  /\ UNCHANGED <<evars, cvars, zvars, virq, gaveUp, dst, todo>>

SdWrite(c) ==
  /\ pc[c] = "sd_write" /\ wlock[cur[c]] = NONE /\ ~ReadLocked(cur[c])
  /\ wlock' = [wlock EXCEPT ![cur[c]] = c]
  /\ todo' = [todo EXCEPT ![c] = cpu_set(cur[c])]
  /\ Goto(c, "sd_send")
  /\ UNCHANGED <<evars, cvars, list, ident, is_err, refused, ivars, dst, cur>>

SdSend(c) ==
  /\ pc[c] = "sd_send"
  /\ LET t == first_cpu(todo[c]) IN
       /\ ctrl_lock[t] = NONE
       /\ ctrl_lock' = [ctrl_lock EXCEPT ![t] = c]
       /\ entry' = [entry EXCEPT ![t] = FALSE]
       /\ Post(c, t, IPI_EVENT_SHUTDOWN)
       /\ virq' = [virq EXCEPT ![t] = FALSE]
  /\ Goto(c, "sd_sgi")
  /\ UNCHANGED <<sgi, power_on, zone, gpm, zvars, irqs_lock, gaveUp, cur, todo>>

\* The end of a loop over the zone's CPUs: on to the next loop, or around.
Visited(c, t, again, next) ==
  IF todo[c] = {t} THEN /\ todo' = [todo EXCEPT ![c] = cpu_set(cur[c])]
                        /\ Goto(c, next)
                   ELSE /\ todo' = [todo EXCEPT ![c] = @ \ {t}]
                        /\ Goto(c, again)

SdSgi(c) ==
  /\ pc[c] = "sd_sgi"
  /\ arch_send_event(c)
  /\ ctrl_lock' = [ctrl_lock EXCEPT ![dst[c]] = NONE]
  /\ Visited(c, dst[c], "sd_send", "sd_wait")
  /\ Forget(c)
  /\ UNCHANGED <<events, power_on, zone, entry, gpm, zvars, ivars, cur>>

Panicked == {"unwrap", "unwrap_list", "assert", "root_panic"}

\* CPU t has panicked, or waits for a lock that CPU c, waiting for t, holds.
Stuck(t, c) == \/ pc[t] \in Panicked
               \/ pc[t] = "virq" /\ irqs_lock = c
               \/ pc[t] \in {"run_read", "mm_read", "ze_write", "so_read"} /\ wlock[cur[t]] = c
               \/ pc[t] = "so_remove" /\ \E o \in Read(id_of(cur[t])) : wlock[o] = c

\* Defect: the wait loop ends without looking at power_on.
SdWait_NoWait(c) ==
  /\ pc[c] = "sd_wait"
  /\ LET t == first_cpu(todo[c]) IN
       /\ ctrl_lock[t] = NONE
       /\ Visited(c, t, "sd_wait", "sd_clear")
  /\ UNCHANGED <<evars, cvars, zvars, ivars, dst, cur>>

\* One poll of the wait loop, under the ctrl_lock of the CPU polled: `any`
\* goes on at a CPU that is off, and starts over after one that is on.
\* MAX_WAIT_TIMES is ten million polls: it runs out on a CPU that is stuck,
\* and is then counted as off.
SdWait(c) ==
  /\ pc[c] = "sd_wait"
  /\ LET t == first_cpu(todo[c]) IN
       /\ ctrl_lock[t] = NONE
       /\ \/ /\ ~power_on[t] \/ Stuck(t, c)
             /\ Visited(c, t, "sd_wait", "sd_clear")
          \/ /\ power_on[t] /\ todo[c] # cpu_set(cur[c])
             /\ todo' = [todo EXCEPT ![c] = cpu_set(cur[c])]
             /\ UNCHANGED pc
  /\ UNCHANGED <<evars, cvars, zvars, ivars, dst, cur>>

\* Defect: only the first CPU's reference to the zone is dropped.
SdClear_FirstOnly(c) ==
  /\ pc[c] = "sd_clear"
  /\ LET t == first_cpu(todo[c]) IN
       /\ ctrl_lock[t] = NONE
       /\ zone' = [zone EXCEPT ![t] = NONE]
  /\ Goto(c, "sd_drop")
  /\ UNCHANGED <<evars, power_on, entry, gpm, ctrl_lock, zvars, ivars, dst, cur, todo>>

SdClear(c) ==
  /\ pc[c] = "sd_clear"
  /\ LET t == first_cpu(todo[c]) IN
       /\ ctrl_lock[t] = NONE
       /\ zone' = [zone EXCEPT ![t] = NONE]
       /\ Visited(c, t, "sd_clear", "sd_drop")
  /\ UNCHANGED <<evars, power_on, entry, gpm, ctrl_lock, zvars, ivars, dst, cur>>

\* arch_irqchip_reset, drop(zone_w), drop(zone).
SdDrop(c) ==
  /\ pc[c] = "sd_drop"
  /\ wlock' = [wlock EXCEPT ![cur[c]] = NONE]
  /\ Goto(c, "sd_remove")
  /\ UNCHANGED <<evars, cvars, list, ident, is_err, refused, ivars, dst, cur, todo>>

SdRemove(c) ==
  /\ pc[c] = "sd_remove"
  /\ remove_zone(c, id_of(cur[c]), "guest")
  /\ irqs_lock' = IF pc'[c] = "guest" THEN NONE ELSE c
  /\ DropZone(c)
  /\ UNCHANGED <<evars, cvars, ident, wlock, is_err, refused, virq, gaveUp, dst, todo>>

\* hv_virtio_inject_irq for one finished request of zone z: the first CPU of
\* the zone is sent an event unless the interrupt is already listed for it.
VirtioInject(c, z) ==
  /\ "virtio" \in Env /\ Root(c) /\ irqs_lock = NONE
  /\ ListFree /\ Unlocked(Read(z))
  /\ \E o \in find_zone(z) : LET t == first_cpu(cpu_set(o)) IN
       /\ ~virq[t] /\ Room(t)
       /\ virq' = [virq EXCEPT ![t] = TRUE]
       /\ Post(c, t, IPI_EVENT_VIRTIO_INJECT_IRQ)
  /\ irqs_lock' = c
  /\ Goto(c, "vi_sgi")
  /\ UNCHANGED <<sgi, cvars, zvars, gaveUp, cur, todo>>

ViSgi(c) ==
  /\ pc[c] = "vi_sgi"
  /\ arch_send_event(c)
  /\ irqs_lock' = NONE
  /\ Goto(c, "guest")
  /\ Forget(c)
  /\ UNCHANGED <<events, cvars, zvars, virq, gaveUp, cur, todo>>

\* hv_shm_signal to zone z: the event goes to CPU 2, if that is on.
ShmSignal(c, z) ==
  /\ "shm" \in Env /\ Root(c)
  /\ ListFree /\ Unlocked(Read(z))
  /\ \E o \in find_zone(z) : cur' = [cur EXCEPT ![c] = o]
  /\ Goto(c, "shm_read")
  /\ UNCHANGED <<evars, cvars, zvars, ivars, dst, todo>>

ShmSend(c) ==
  /\ pc[c] = "shm_read" /\ wlock[cur[c]] = NONE
  /\ \/ /\ power_on[2] /\ Room(2)
        /\ Post(c, 2, IPI_EVENT_SHM_SIGNAL)
        /\ Goto(c, "shm_sgi")
     \/ /\ ~power_on[2]
        /\ Goto(c, "guest")
        /\ UNCHANGED <<events, dst>>
  /\ UNCHANGED <<sgi, cvars, zvars, ivars, cur, todo>>

ShmSgi(c) ==
  /\ pc[c] = "shm_sgi"
  /\ arch_send_event(c)
  /\ Goto(c, "guest")
  /\ Forget(c)
  /\ UNCHANGED <<events, cvars, zvars, ivars, cur, todo>>
-----------------------------------------------------------------------------
Hypervisor(c) ==
  \/ TakeIrq(c) \/ Acknowledge(c) \/ IrqDone(c) \/ check_events(c) \/ handle_virtio_irq(c)
  \/ RunClone(c) \/ RunActivate(c) \/ RunOn(c) \/ IdleOff(c) \/ Park(c)
  \/ OnSgi(c) \/ MmioRead(c) \/ ZoneError(c) \/ ZoneErrorRoot(c) \/ ZoneErrorWrite(c)
  \/ SoRead(c) \/ SoSend(c) \/ SoSgi(c) \/ SoLeave(c) \/ SoRemove(c)
  \/ ZsAssign(c) \/ ZsWake(c) \/ ZsSgi(c) \/ ZsAdd(c)
  \/ SdWrite(c) \/ SdSend(c) \/ SdSgi(c) \/ SdWait(c) \/ SdClear(c) \/ SdDrop(c) \/ SdRemove(c)
  \/ ViSgi(c) \/ ShmSend(c) \/ ShmSgi(c)

Guest(c) ==
  \/ \E t \in CPU : CpuOn(c, t)
  \/ Mmio(c) \/ SystemOff(c)
  \/ \E z \in ZoneId : \/ ZoneStart(c, z) \/ ZoneShutdown(c, z)
                        \/ VirtioInject(c, z) \/ ShmSignal(c, z)

Next == \E c \in CPU : Hypervisor(c) \/ Guest(c)

Spec == Init /\ [][Next]_vars

(* Code at EL2 runs on; spin locks are contended, so a waiter gets its lock *)
(* if it is free again and again; a pending SGI is taken although the guest *)
(* traps for other reasons in between.                                      *)
Fairness == \A c \in CPU : SF_vars(Hypervisor(c)) /\ SF_vars(TakeIrq(c))
FairSpec == Spec /\ Fairness
-----------------------------------------------------------------------------
Sending == {"on_sgi", "so_sgi", "zs_sgi", "sd_sgi", "vi_sgi", "shm_sgi"}

(* Whatever the guests, the root zone and the other CPUs do, a SHUTDOWN     *)
(* queued by hv_zone_shutdown or SYSTEM_OFF has an SGI under way that will  *)
(* make its CPU fetch it.                                                   *)
ShutdownNeverStranded ==
  \A c \in CPU : (\E i \in 1 .. Len(events[c]) : events[c][i] = IPI_EVENT_SHUTDOWN) =>
    \/ sgi[c] \/ pc[c] = "ack"
    \/ \E s \in CPU : pc[s] \in Sending /\ dst[s] = c

Starting(o) == \E s \in CPU : pc[s] \in {"zs_assign", "zs_wake", "zs_sgi", "zs_add"} /\ cur[s] = o

(* The zones that are listed or being started have different ids, and share *)
(* no CPU but one that a SYSTEM_OFF has taken from its zone: there a second *)
(* SYSTEM_OFF or a shutdown that is under way resets the zone of a CPU that *)
(* has since been given to another one. With a root zone of one CPU: two    *)
(* CPUs can make the checks of zone_create for the same CPU at once.        *)
ZonesApart ==
  \A o, p \in Listed \cup {q \in Obj : Starting(q)} :
    o # p => id_of(o) # id_of(p) /\ cpu_set(o) \cap cpu_set(p) \subseteq gaveUp

(* The root zone keeps its CPUs and is never stopped: zone_create takes no  *)
(* CPU that has a zone, hv_zone_shutdown refuses zone 0, and no CPU of the  *)
(* root zone is sent a SHUTDOWN.                                            *)
RootUntouched ==
  /\ list # <<>> /\ list[1] = 0
  /\ \A c \in RootCpus : /\ zone[c] = 0 /\ gpm[c] = 0 /\ power_on[c]
                         /\ \A i \in 1 .. Len(events[c]) : events[c][i] # IPI_EVENT_SHUTDOWN

(* A CPU belongs to one zone at a time, and the root zone to none of the    *)
(* others' configurations.                                                  *)
OneOwner == ZonesApart /\ RootUntouched

(* A CPU runs a guest only on the page tables of a zone that still exists,  *)
(* the zone it belongs to, and hvisor knows that it is on: remove_zone      *)
(* frees a zone's tables only after the last of its CPUs left them. And it  *)
(* enters the guest at an entry point that was set for this start, not at   *)
(* the INVALID_ADDRESS a shutdown leaves.                                   *)
GuestInLiveZone ==
  \A c \in CPU :
    /\ pc[c] = "guest" /\ gpm[c] # PARK => /\ gpm[c] \in Listed \/ Starting(gpm[c])
                                          /\ zone[c] = gpm[c] /\ power_on[c]
    /\ pc[c] = "run_on" => entry[c]

(* No unwrap of a missing zone, no failed assertion in remove_zone.         *)
NoPanic == \A c \in CPU : pc[c] \notin {"unwrap", "unwrap_list", "assert"}

(* A CPU is assigned to a zone that is listed or being started: when the    *)
(* zone is gone the CPU can be given to another one. There are two ways to  *)
(* lose a CPU, and no third: hv_zone_start is refused with EBUSY after      *)
(* zone_create has assigned the CPUs; and a zone that switches itself off   *)
(* removes by its id a zone that was started anew under it in between, upon *)
(* which remove_zone's assertion panics.                                    *)
NoCpuLeak ==
  \/ \A c \in CPU : zone[c] \in {NONE} \cup Listed \cup refused \/ Starting(zone[c])
  \/ \E c \in CPU \ RootCpus : pc[c] = "assert"

(* "wait all zone's cpus shutdown" (hv_zone_shutdown): when the wait loop   *)
(* is over, no CPU of the zone is on, or on its way into the guest.         *)
AllCpusDown ==
  \A c \in CPU : pc[c] = "sd_drop" =>
    \A t \in cpu_set(cur[c]) : ~power_on[t] /\ pc[t] \notin {"run", "run_read", "run_on"}

(* A zone that hv_zone_start has started reaches its entry point: the       *)
(* WAKEUP is not stranded behind events left over from before.              *)
StartCompletes ==
  \A o \in Obj : (\E c \in CPU : pc[c] = "zs_sgi" /\ cur[c] = o)
                   ~> (\E t \in CPU : pc[t] = "guest" /\ gpm[t] = o)

(* hv_zone_shutdown ends with the zone removed and all its CPUs parked.     *)
ShutdownCompletes ==
  \A o \in Obj : Stopping(o) ~> (o \notin Listed /\ \A c \in CPU : gpm[c] # o)
=============================================================================

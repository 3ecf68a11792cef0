------------------------------- MODULE Vgic3 --------------------------------
(***************************************************************************)
(* The emulated GICv3 distributor and redistributors                        *)
(* (src/src/device/irqchip/gicv3/vgic.rs, gicd.rs, gicr.rs, mod.rs): zones  *)
(* share the hardware's registers, of which each may touch the fields of    *)
(* its own interrupts.                                                      *)
(*                                                                          *)
(* An access is to one whole register.  Of the registers that are written   *)
(* with a mask the model has one per kind: GICD_ISENABLER/ICENABLER (bits   *)
(* written as ones, "poked") and GICD_IGROUPR (read, changed and written    *)
(* back; ICFGR and IPRIORITYR differ in the width of a field).              *)
(***************************************************************************)
EXTENDS Integers, FiniteSets

CONSTANTS CPU,
          ZoneOf,    \* CPU -> the zone it belongs to while that zone runs
          Spi,       \* shared interrupts
          WordOf,    \* interrupt -> register that holds it
          IrqZone,   \* interrupt -> zone that has it in its bitmap
          Private,   \* interrupts of a redistributor
          Reserved   \* SGI_IPI_ID and MAINTENACE_INTERRUPT

\* CPUs are numbered.
ASSUME DistAssumption == CPU \subseteq Nat

VARIABLES enabled,  \* GICD: enabled interrupts
          group,    \* GICD: interrupts in group 1
          route,    \* GICD_IROUTER: interrupt -> CPU
          redist,   \* per CPU: enabled private interrupts
          up,       \* zones that run
          off,      \* history: zones that are gone by PSCI SYSTEM_OFF
          lock,     \* GICD_LOCK: its holder, or Nobody
          access,   \* per CPU: a read-modify-write in progress
          wantE, wantG, wantR  \* history: what its zone last wrote of an interrupt

gvars == <<enabled, group, route, redist, up, off, lock, access, wantE, wantG, wantR>>

Nobody == -1
NoAccess == [at |-> "none"]
Zone == {ZoneOf[c] : c \in CPU}
Word == {WordOf[i] : i \in Spi}
Irqs(w) == {i \in Spi : WordOf[i] = w}

\* primary_init_late, percpu_init and enable_ipi.
DistInit ==
        /\ enabled = {} /\ group = {} /\ route = [i \in Spi |-> 0]
        /\ redist = [c \in CPU |-> Reserved]
        /\ up = Zone /\ off = {}
        /\ lock = Nobody /\ access = [c \in CPU |-> NoAccess]
        /\ wantE = {} /\ wantG = {} /\ wantR = [i \in Spi |-> 0]

\* Zone::irq_in_zone
irq_in_zone(c, i) == IrqZone[i] = ZoneOf[c]

\* restrict_bitmask_access: the fields of register w that CPU c's zone has.
access_mask(c, w) == {i \in Irqs(w) : irq_in_zone(c, i)}

Runs(c) == ZoneOf[c] \in up /\ access[c] = NoAccess

\* A field of the history: what the zone of CPU c asked for its interrupts.
Asked(want, c, w, V) == LET own == {i \in Irqs(w) : irq_in_zone(c, i)} IN (want \ own) \cup (V \cap own)
-----------------------------------------------------------------------------
(* restrict_bitmask_access, poked: GICD_ISENABLER and GICD_ICENABLER.       *)
SetEnable(c, w, V) ==
  /\ Runs(c)
  /\ enabled' = enabled \cup (V \cap access_mask(c, w))
  /\ wantE' = wantE \cup {i \in V : irq_in_zone(c, i)}
  /\ UNCHANGED <<group, route, redist, up, off, lock, access, wantG, wantR>>

ClearEnable(c, w, V) ==
  /\ Runs(c)
  /\ enabled' = enabled \ (V \cap access_mask(c, w))
  /\ wantE' = wantE \ {i \in V : irq_in_zone(c, i)}
  /\ UNCHANGED <<group, route, redist, up, off, lock, access, wantG, wantR>>

\* Defect: the read-modify-write does not take GICD_LOCK.
Modify_NoLock(c, w, V) ==
  /\ Runs(c)
  /\ access' = [access EXCEPT ![c] = [at |-> "write", w |-> w, V |-> V, read |-> group \cap Irqs(w)]]
  /\ wantG' = Asked(wantG, c, w, V)
  /\ UNCHANGED <<enabled, group, route, redist, up, off, lock, wantE, wantR>>

(* Not poked: the lock and the read ...                                     *)
Modify(c, w, V) ==
  /\ Runs(c) /\ lock = Nobody
  /\ lock' = c
  /\ access' = [access EXCEPT ![c] = [at |-> "write", w |-> w, V |-> V, read |-> group \cap Irqs(w)]]
  /\ wantG' = Asked(wantG, c, w, V)
  /\ UNCHANGED <<enabled, group, route, redist, up, off, wantE, wantR>>

(* ... the write and the unlock.                                            *)
WriteBack(c) ==
  /\ access[c].at = "write"
  /\ LET a == access[c]
         m == access_mask(c, a.w)
     IN group' = (group \ Irqs(a.w)) \cup (a.read \ m) \cup (a.V \cap m)
  /\ lock' = Nobody
  /\ access' = [access EXCEPT ![c] = NoAccess]
  /\ UNCHANGED <<enabled, route, redist, up, off, wantE, wantG, wantR>>

(* GICD_IROUTER: one register per interrupt.                                *)
vgicv3_handle_irq_ops(c, i, t) ==
  /\ Runs(c) /\ irq_in_zone(c, i)
  /\ route' = [route EXCEPT ![i] = t]
  /\ wantR' = [wantR EXCEPT ![i] = t]
  /\ UNCHANGED <<enabled, group, redist, up, off, lock, access, wantE, wantG>>
-----------------------------------------------------------------------------
(* vgicv3_redist_handler: GICR_ISENABLER and GICR_ICENABLER of CPU r.       *)
RedistSet(c, r, V) ==
  /\ Runs(c) /\ ZoneOf[r] = ZoneOf[c]
  /\ redist' = [redist EXCEPT ![r] = @ \cup V]
  /\ UNCHANGED <<enabled, group, route, up, off, lock, access, wantE, wantG, wantR>>

RedistClear(c, r, V) ==
  /\ Runs(c) /\ ZoneOf[r] = ZoneOf[c]
  /\ redist' = [redist EXCEPT ![r] = @ \ (V \ Reserved)]
  /\ UNCHANGED <<enabled, group, route, up, off, lock, access, wantE, wantG, wantR>>
-----------------------------------------------------------------------------
(* hv_zone_shutdown: once the CPUs of zone z have left it,                  *)
(* arch_irqchip_reset disables its interrupts.                              *)
arch_irqchip_reset(z) ==
  /\ z \in up /\ z # 0 /\ \A c \in CPU : ZoneOf[c] = z => access[c] = NoAccess
  /\ up' = up \ {z}
  /\ enabled' = enabled \ {i \in Spi : IrqZone[i] = z}
  /\ wantE' = wantE \ {i \in Spi : IrqZone[i] = z}
  /\ UNCHANGED <<group, route, redist, off, lock, access, wantG, wantR>>

(* PSCI SYSTEM_OFF of a CPU of zone z: the zone is removed at once, without *)
(* arch_irqchip_reset and whatever its other CPUs are doing; its interrupts *)
(* stay as they are.  (Of the root zone it powers the machine off.)         *)
SystemOff(z) ==
  /\ z \in up /\ z # 0
  /\ up' = up \ {z} /\ off' = off \cup {z}
  /\ UNCHANGED <<enabled, group, route, redist, lock, access, wantE, wantG, wantR>>

\* The zone is created again, with the same interrupts.
StartZone(z) == /\ z \notin up /\ up' = up \cup {z} /\ off' = off \ {z}
                /\ UNCHANGED <<enabled, group, route, redist, lock, access, wantE, wantG, wantR>>

DistNext ==
        \/ \E c \in CPU, w \in Word : \E V \in SUBSET Irqs(w) :
             SetEnable(c, w, V) \/ ClearEnable(c, w, V) \/ Modify(c, w, V)
        \/ \E c \in CPU : WriteBack(c)
        \/ \E c, t \in CPU, i \in Spi : vgicv3_handle_irq_ops(c, i, t)
        \/ \E c, r \in CPU, V \in SUBSET Private : RedistSet(c, r, V) \/ RedistClear(c, r, V)
        \/ \E z \in Zone : arch_irqchip_reset(z) \/ SystemOff(z) \/ StartZone(z)

DistSpec == DistInit /\ [][DistNext]_gvars
-----------------------------------------------------------------------------
InFlight(i) == \E c \in CPU : access[c].at = "write" /\ access[c].w = WordOf[i] /\ irq_in_zone(c, i)

(* Every field of the distributor has the value its own zone last gave it:  *)
(* accesses of other zones to the same register neither change it nor undo  *)
(* a write that comes between their read and their write.                   *)
OwnValues ==
  \A i \in Spi : /\ i \in enabled <=> i \in wantE
                 /\ route[i] = wantR[i]
                 /\ ~InFlight(i) => (i \in group <=> i \in wantG)

(* The hypervisor's own interrupts, the event SGI and the maintenance       *)
(* interrupt, stay enabled at every redistributor whatever guests write.    *)
ReservedStayEnabled == \A c \in CPU : Reserved \subseteq redist[c]

(* An interrupt is enabled only while a zone runs that has it, or after     *)
(* that zone went by SYSTEM_OFF and until it is created again: it is the    *)
(* only way for a zone to go that leaves its interrupts enabled.            *)
EnabledHasZone == \A i \in enabled : IrqZone[i] \in up \cup off

(* Zones that share the registers of the GIC do not disturb one another or  *)
(* the hypervisor: a field has the value its own zone wrote, the            *)
(* hypervisor's interrupts stay on, and those of a zone that was shut down  *)
(* are off, those of one that went by SYSTEM_OFF excepted.                  *)
FieldsAreOwn == OwnValues /\ ReservedStayEnabled /\ EnabledHasZone
=============================================================================

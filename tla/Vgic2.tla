------------------------------- MODULE Vgic2 --------------------------------
(***************************************************************************)
(* The emulated GICv2 distributor (src/src/device/irqchip/gicv2/vgic.rs):   *)
(* guests access parts of a register, and each zone only the fields of the  *)
(* interrupts in its bitmap.                                                *)
(*                                                                          *)
(* IPRIORITYR, with a byte per interrupt, stands for the registers that are *)
(* read, changed and written back (ITARGETSR, IGROUPR, ICFGR); ISENABLER    *)
(* and ICENABLER, with a bit of interest in each byte, for those that are   *)
(* poked.  Each bank has two registers, of which the first is modelled.     *)
(***************************************************************************)
EXTENDS Integers, FiniteSets

CONSTANTS Zone2,   \* zones
          Owner,   \* the zone whose bitmap has the interrupt of a field
          Byte     \* what guests write to a byte

VARIABLES prio,      \* GICD_IPRIORITYR
          enab,      \* interrupts enabled by GICD_ISENABLER
          sgir,      \* last SGI asked for through GICD_SGIR
          halted,    \* zones with a CPU in todo!()
          wantPrio,  \* history: what their own zone wrote to the fields,
          wantEnab   \* and which interrupts it enabled

d2vars == <<prio, enab, sgir, halted, wantPrio, wantEnab>>

Field == 0 .. 3   \* the fields of the register
NRegs == 2        \* registers of a bank

\* The interrupts of a zone.
irq_bitmap(z) == {i \in Field : Owner[i] = z}

Dist2Init == /\ prio = [i \in Field |-> 0] /\ enab = {} /\ sgir = 0 /\ halted = {}
             /\ wantPrio = prio /\ wantEnab = enab

\* The registers of a bank of n the handler knows: the last is left out.
reg_range(n) == 0 .. n - 2

(* restrict_bitmask_access by zone z of size bytes at byte a.               *)
other_mask(a, size) == {(a + o) % 4 : o \in 0 .. size - 1}

\* Defect: the mask of the bytes accessed is left out.
real_mask_Word(z, a, size) == irq_bitmap(z)

real_mask(z, a, size) == irq_bitmap(z) \cap other_mask(a, size)

\* v: the bytes written, from a upwards; the code shifts them to their place.
shifted(a, v, i) == IF i - a \in DOMAIN v THEN v[i - a] ELSE 0

\* A store to register r of a bank, at byte a of it.
Store(z, r, a, v) == z \notin halted /\ r \in reg_range(NRegs) /\ a % Cardinality(DOMAIN v) = 0
\* What z writes to its own fields.
Own(z, a, v) == {i \in irq_bitmap(z) : i - a \in DOMAIN v}

(* Registers read, changed and written back, both accesses under GICD_LOCK. *)
restrict_bitmask_access(z, a, v) ==
  LET m == real_mask(z, a, Cardinality(DOMAIN v))
  IN prio' = [i \in Field |-> IF i \in m THEN shifted(a, v, i) ELSE prio[i]]

WritePrio(z, r, a, v) ==
  /\ Store(z, r, a, v)
  /\ restrict_bitmask_access(z, a, v)
  /\ wantPrio' = [i \in Field |-> IF i \in Own(z, a, v) THEN v[i - a] ELSE wantPrio[i]]
  /\ UNCHANGED <<enab, sgir, halted, wantEnab>>

(* Registers where a 1 acts and a 0 does not: the masked value is poked in. *)
poked(z, a, v) == {i \in real_mask(z, a, Cardinality(DOMAIN v)) : shifted(a, v, i) = 1}

WriteEnable(z, r, a, v, on) ==
  LET own == {i \in Own(z, a, v) : v[i - a] = 1} IN
    /\ Store(z, r, a, v)
    /\ enab' = IF on THEN enab \cup poked(z, a, v) ELSE enab \ poked(z, a, v)
    /\ wantEnab' = IF on THEN wantEnab \cup own ELSE wantEnab \ own
    /\ UNCHANGED <<prio, sgir, halted, wantPrio>>

(* SGIR: any SGI to any CPU.                                                *)
WriteSgir(z, i) == /\ z \notin halted
                   /\ sgir' = i
                   /\ UNCHANGED <<prio, enab, halted, wantPrio, wantEnab>>

(* vgicv2_dist_misc_access: CTRL, TYPER, IIDR and the identification        *)
(* registers are read only; for any other, the last of a bank among them,   *)
(* todo!().                                                                 *)
MiscAccess(z, r) == /\ z \notin halted /\ r \notin reg_range(NRegs)
                    /\ halted' = halted \cup {z}
                    /\ UNCHANGED <<prio, enab, sgir, wantPrio, wantEnab>>

Bytes == UNION {[0 .. s - 1 -> Byte] : s \in {1, 2, 4}}

Dist2Next == \E z \in Zone2 :
  \/ \E r \in 0 .. NRegs - 1, a \in Field, v \in Bytes :
       WritePrio(z, r, a, v) \/ \E on \in BOOLEAN : WriteEnable(z, r, a, v, on)
  \/ \E i \in {0, 1} : WriteSgir(z, i)
  \/ \E r \in 0 .. NRegs - 1 : MiscAccess(z, r)

Dist2Spec == Dist2Init /\ [][Dist2Next]_d2vars
-----------------------------------------------------------------------------
(* Every field of the distributor has the value its own zone last wrote,    *)
(* and an interrupt is enabled exactly when its own zone did so, whatever   *)
(* mixture of byte, half-word and word accesses the zones make, and after   *)
(* one of them ran into a register nobody implemented.                      *)
PriorityIsOwn == prio = wantPrio /\ enab = wantEnab
=============================================================================

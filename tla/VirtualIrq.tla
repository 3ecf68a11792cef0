----------------------------- MODULE VirtualIrq -----------------------------
(***************************************************************************)
(* Virtual interrupts of one CPU under a GICv3                              *)
(* (src/src/device/irqchip/gicv3/mod.rs).                                   *)
(*                                                                          *)
(* hvisor hands an interrupt to the guest through one of a few list         *)
(* registers.  When all are in use the interrupt waits in PENDING_VIRQS     *)
(* and the underflow maintenance interrupt is switched on; it fires when    *)
(* at most one list register is valid, and moves what waits into the free   *)
(* registers.  A hardware interrupt stays active at the physical GIC (its   *)
(* EOI only drops the priority) until the guest deactivates the list        *)
(* register it was put into.                                                *)
(*                                                                          *)
(* The CPU runs the guest (pc = "guest") or the loop of                     *)
(* handle_maintenace_interrupt (pc = "maint").  Everything else in          *)
(* gicv3_handle_irq_el1 is one step: no other CPU touches this state.       *)
(***************************************************************************)
EXTENDS Naturals, Sequences, FiniteSets

CONSTANTS NLR,        \* list registers, (ICH_VTR_EL2 & 0xf) + 1
          HwIrq,      \* PPIs and SPIs taken from the physical GIC
          SwIrq,      \* injected by hvisor: SGIs, virtio and shared-memory signals
          MaxPending  \* bound: queue length at which no further interrupt arrives

ASSUME IrqAssumption == /\ NLR \in Nat \ {0}
                        /\ HwIrq \cap SwIrq = {}
                        /\ MaxPending \in Nat

Irq == HwIrq \cup SwIrq
LR  == 1 .. NLR

VARIABLES lr_irq,   \* the vINTID of a list register
          lr_state, \* its state; the code never writes "pending and active"
          pending,  \* PENDING_VIRQS of this CPU
          uie,      \* ICH_HCR_EL2.UIE
          raised,   \* hardware interrupts pending at the physical GIC
          active,   \* hardware interrupts active at the physical GIC
          owed,     \* interrupts injected that the guest has not acknowledged since
          pc

vars == <<lr_irq, lr_state, pending, uie, raised, active, owed, pc>>

NoIrq == "none"

\* gicv3_clear_pending_irqs and gicc_init.
Init == /\ lr_irq = [l \in LR |-> NoIrq]
        /\ lr_state = [l \in LR |-> "invalid"]
        /\ pending = <<>>
        /\ uie = FALSE
        /\ raised = {} /\ active = {} /\ owed = {}
        /\ pc = "guest"

Valid == {l \in LR : lr_state[l] # "invalid"}
Free  == LR \ Valid                                   \* ICH_ELRSR_EL2
Listed(i) == \E l \in Valid : lr_irq[l] = i

\* The lowest-numbered free register, if there is one: the scan is upwards.
FirstFree == {l \in Free : \A k \in Free : l <= k}

\* An LR value as inject_irq composes it: vINTID, group 1, state pending.
write_lr(l, i) == /\ lr_irq' = [lr_irq EXCEPT ![l] = i]
                  /\ lr_state' = [lr_state EXCEPT ![l] = "pending"]

(* inject_irq, with q the queue at the call: nothing if a valid register    *)
(* holds the interrupt, else the first free register, else the queue.       *)
inject_irq(i, q) ==
  \/ /\ Listed(i)
     /\ pending' = q
     /\ UNCHANGED <<lr_irq, lr_state, uie>>
  \/ /\ ~Listed(i)
     /\ \E l \in FirstFree : write_lr(l, i)
     /\ pending' = q
     /\ UNCHANGED uie
  \/ /\ ~Listed(i) /\ Free = {}
     /\ pending' = Append(q, i)
     /\ uie' = TRUE
     /\ UNCHANGED <<lr_irq, lr_state>>

Room == Len(pending) < MaxPending

(* A device raises a hardware interrupt, possibly while it is active.       *)
Raise(i) ==
  /\ raised' = raised \cup {i}
  /\ UNCHANGED <<lr_irq, lr_state, pending, uie, active, owed, pc>>

(* gicv3_handle_irq_el1 for an id above 15 other than 25: acknowledge,      *)
(* inject_irq(irq_id, true), priority drop.                                 *)
TakeIrq(i) ==
  /\ pc = "guest" /\ Room
  /\ i \in raised \ active
  /\ raised' = raised \ {i}
  /\ active' = active \cup {i}
  /\ owed' = owed \cup {i}
  /\ inject_irq(i, pending)
  /\ UNCHANGED pc

(* An injection by software, inject_irq(irq_id, false): an SGI passed on,   *)
(* an entry of VIRTIO_IRQS, a shared-memory signal.                         *)
Inject(i) ==
  /\ pc = "guest" /\ Room
  /\ owed' = owed \cup {i}
  /\ inject_irq(i, pending)
  /\ UNCHANGED <<raised, active, pc>>

(* The underflow condition of the GIC, and interrupt 25.                    *)
Maintenance ==
  /\ pc = "guest"
  /\ uie /\ Cardinality(Valid) <= 1
  /\ pc' = "maint"
  /\ UNCHANGED <<lr_irq, lr_state, pending, uie, raised, active, owed>>

\* Defect: a pass that leaves interrupts waiting switches its interrupt off.
handle_maintenace_interrupt_Off ==
  /\ pc = "maint"
  /\ \/ /\ pending = <<>>
        /\ uie' = FALSE
        /\ pc' = "guest"
        /\ UNCHANGED <<lr_irq, lr_state, pending>>
     \/ /\ pending # <<>>
        /\ LET i == Head(pending) IN
             \/ /\ Listed(i) \/ Free # {}
                /\ inject_irq(i, Tail(pending))
                /\ UNCHANGED pc
             \/ /\ ~Listed(i) /\ Free = {}
                /\ pending' = Tail(pending) \o <<i, i>>
                /\ uie' = FALSE
                /\ pc' = "guest"
                /\ UNCHANGED <<lr_irq, lr_state>>
  /\ UNCHANGED <<raised, active, owed>>

\* Defect: the interrupt that found no register is not put back.
handle_maintenace_interrupt_Drop ==
  /\ pc = "maint"
  /\ \/ /\ pending = <<>>
        /\ uie' = FALSE
        /\ pc' = "guest"
        /\ UNCHANGED <<lr_irq, lr_state, pending>>
     \/ /\ pending # <<>>
        /\ LET i == Head(pending) IN
             \/ /\ Listed(i) \/ Free # {}
                /\ inject_irq(i, Tail(pending))
                /\ UNCHANGED pc
             \/ /\ ~Listed(i) /\ Free = {}
                /\ pending' = Tail(pending)
                /\ uie' = TRUE
                /\ pc' = "guest"
                /\ UNCHANGED <<lr_irq, lr_state>>
  /\ UNCHANGED <<raised, active, owed>>

(* handle_maintenace_interrupt, one turn of its loop: the head is injected, *)
(* or inject_irq has put it back at the end of the queue and the handler    *)
(* does so a second time.  Interrupt 25 is deactivated at the end.          *)
handle_maintenace_interrupt ==
  /\ pc = "maint"
  /\ \/ /\ pending = <<>>
        /\ uie' = FALSE
        /\ pc' = "guest"
        /\ UNCHANGED <<lr_irq, lr_state, pending>>
     \/ /\ pending # <<>>
        /\ LET i == Head(pending) IN
             \/ /\ Listed(i) \/ Free # {}
                /\ inject_irq(i, Tail(pending))
                /\ UNCHANGED pc
             \/ /\ ~Listed(i) /\ Free = {}
                /\ pending' = Tail(pending) \o <<i, i>>
                /\ uie' = TRUE
                /\ pc' = "guest"
                /\ UNCHANGED <<lr_irq, lr_state>>
  /\ UNCHANGED <<raised, active, owed>>

(* The guest acknowledges a pending interrupt.                              *)
GuestAck(l) ==
  /\ pc = "guest" /\ lr_state[l] = "pending"
  /\ lr_state' = [lr_state EXCEPT ![l] = "active"]
  /\ owed' = owed \ {lr_irq[l]}
  /\ UNCHANGED <<lr_irq, pending, uie, raised, active, pc>>

(* The guest deactivates an interrupt; the GIC deactivates the physical     *)
(* interrupt of a register with the HW bit.                                 *)
GuestDeactivate(l) ==
  /\ pc = "guest" /\ lr_state[l] = "active"
  /\ lr_state' = [lr_state EXCEPT ![l] = "invalid"]
  /\ active' = active \ {lr_irq[l]}
  /\ UNCHANGED <<lr_irq, pending, uie, raised, owed, pc>>

Next == \/ \E i \in HwIrq : Raise(i) \/ TakeIrq(i)
        \/ \E i \in SwIrq : Inject(i)
        \/ Maintenance
        \/ handle_maintenace_interrupt
        \/ \E l \in LR : GuestAck(l) \/ GuestDeactivate(l)

Spec == Init /\ [][Next]_vars

(* EL2 code runs to its end, and the maintenance interrupt is taken         *)
(* although other interrupts arrive.  Nothing is assumed of the guest.      *)
Fairness == SF_vars(Maintenance) /\ WF_vars(handle_maintenace_interrupt)

FairSpec == Spec /\ Fairness
-----------------------------------------------------------------------------
TypeOK == /\ lr_irq \in [LR -> Irq \cup {NoIrq}]
          /\ lr_state \in [LR -> {"invalid", "pending", "active"}]
          /\ pending \in Seq(Irq)
          /\ uie \in BOOLEAN
          /\ raised \subseteq HwIrq /\ active \subseteq HwIrq /\ owed \subseteq Irq
          /\ pc \in {"guest", "maint"}

Waiting(i) == \E k \in 1 .. Len(pending) : pending[k] = i

(* No interrupt is in two valid list registers, which the GIC architecture  *)
(* forbids: inject_irq compares with every valid register before it writes, *)
(* although interrupts arrive again and wait more than once in the queue.   *)
OneRegister ==
  \A l, k \in Valid : lr_irq[l] = lr_irq[k] => l = k

(* While an interrupt waits in PENDING_VIRQS the maintenance interrupt that *)
(* will move it is on.                                                      *)
WaitingIsServed == pending # <<>> => uie

(* A hardware interrupt that is active at the physical GIC, and so cannot   *)
(* arrive again, is in a list register or waits in the queue: the guest     *)
(* will be able to deactivate it.                                           *)
ActiveIsHeld == \A i \in active : Listed(i) \/ Waiting(i)

(* Between inject_irq, the maintenance handler and the guest no interrupt   *)
(* is lost or doubled: one that is active is held, in one register at most, *)
(* and one that waits in PENDING_VIRQS will be moved.                       *)
HeldOnce == OneRegister /\ ActiveIsHeld /\ WaitingIsServed

(* An interrupt that waits gets a list register, although the handler puts  *)
(* the one it cannot place at the end of the queue, provided that the guest *)
(* brings the registers down to one in use again and again.  (Interrupts    *)
(* that arrive take free registers ahead of those that wait, so a guest     *)
(* that keeps two in use can starve the queue.)                             *)
WaitingIsInjected ==
  ([]<>(Cardinality(Valid) <= 1)) => \A i \in Irq : Waiting(i) ~> Listed(i)

(* "Inject virtual interrupt to vCPU, return whether it not needs to add    *)
(* pending queue": an injected interrupt is pending in a register or waits  *)
(* in the queue until the guest acknowledges it.                            *)
InjectedIsPending ==
  \A i \in owed : \/ Waiting(i)
                  \/ \E l \in LR : lr_irq[l] = i /\ lr_state[l] = "pending"
=============================================================================

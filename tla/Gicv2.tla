------------------------------- MODULE Gicv2 --------------------------------
(***************************************************************************)
(* GICv2 (src/src/device/irqchip/gicv2): the interrupts a CPU takes at EL2  *)
(* and hands to its guest through the list registers (gic.rs).              *)
(*                                                                          *)
(* EL2 runs with interrupts masked, so a handler is one step; the loop of   *)
(* the maintenance interrupt is one step per turn, during which nothing     *)
(* else runs on the CPU.  Acknowledging and ending an interrupt are the     *)
(* guest's, through the virtual CPU interface.                              *)
(***************************************************************************)
EXTENDS Integers, Sequences, FiniteSets, FiniteSetsExt

CONSTANTS Sgi,      \* SGIs below 8 that guests use
          HighSgi,  \* SGIs from 8 on
          HwIrq2,   \* private and shared peripheral interrupts
          VTR,      \* GICH_VTR.ListRegs: the list registers there are, less one
          MaxWait   \* bound: length of PENDING_VIRQS

ASSUME Gicv2Assumption == /\ VTR \in Nat /\ Sgi \subseteq 0 .. 7 /\ HighSgi \subseteq 8 .. 15
                          /\ HwIrq2 \subseteq {i \in Nat : i > 15}

VARIABLES raised2, \* pending at the physical interface
          active2, \* active there: taken by the hypervisor, not deactivated
          lr,      \* list registers
          wait,    \* PENDING_VIRQS of the CPU
          uie2,    \* GICH_HCR.UIE
          maint,   \* the maintenance handler runs
          on25,    \* PPI 25, the maintenance interrupt, is enabled for the CPU
          act25,   \* and active: taken, and not ended
          owed2    \* history: SGIs taken and not yet seen by the guest

g2vars == <<raised2, active2, lr, wait, uie2, maint, on25, act25, owed2>>

ListReg == 0 .. VTR
Empty   == [st |-> "free", irq |-> 0, sgi |-> FALSE]

\* GicCpuInterface::init, global_init.  They enable SGIs only: PPI 25 is left
\* as the firmware had it.
Gicv2Init == /\ raised2 = {} /\ active2 = {}
             /\ lr = [k \in ListReg |-> Empty] /\ wait = << >>
             /\ uie2 = FALSE /\ maint = FALSE /\ owed2 = {}
             /\ on25 \in BOOLEAN /\ act25 = FALSE
-----------------------------------------------------------------------------
\* get_lr_num: the registers inject_irq looks at.
Usable == 0 .. VTR - 1
FreeLr == {k \in Usable : lr[k].st = "free"}
\* Bits 10 to 19 of a list register: the physical id, or the CPU id of an SGI.
pint(k) == IF lr[k].sgi THEN 1 ELSE lr[k].irq

\* Defect: an interrupt that finds no register is not queued.
gicv2_inject_irq_Drop(i, sgi, q) ==
  LET again == \E k \in Usable \ FreeLr : pint(k) = i IN
    /\ lr' = IF again \/ FreeLr = {} THEN lr
             ELSE [lr EXCEPT ![Max(FreeLr)] = [st |-> "pending", irq |-> i, sgi |-> sgi]]
    /\ wait' = q
    /\ uie2' = (uie2 \/ (~again /\ FreeLr = {}))

(* inject_irq, with q the queue it may add to.  It is taken as injected     *)
(* when a register seems to hold it already.                                *)
gicv2_inject_irq(i, sgi, q) ==
  LET again == \E k \in Usable \ FreeLr : pint(k) = i IN
    /\ lr' = IF again \/ FreeLr = {} THEN lr
             ELSE [lr EXCEPT ![Max(FreeLr)] = [st |-> "pending", irq |-> i, sgi |-> sgi]]
    /\ wait' = IF ~again /\ FreeLr = {} THEN Append(q, <<i, sgi>>) ELSE q
    /\ uie2' = (uie2 \/ (~again /\ FreeLr = {}))

Injected(i) == FreeLr # {} \/ \E k \in Usable : pint(k) = i
-----------------------------------------------------------------------------
(* A device or another CPU raises an interrupt.                             *)
Raise2(i) == /\ i \notin raised2 /\ Len(wait) < MaxWait
             /\ raised2' = raised2 \cup {i}
             /\ UNCHANGED <<active2, lr, wait, uie2, maint, on25, act25, owed2>>

(* gicv2_handle_irq.  Once 25 was taken the CPU stays at its priority, and  *)
(* only interrupts of a higher one follow: which those are is the guest's   *)
(* choice.                                                                  *)
HandleSgi(i) == /\ ~maint /\ i \in raised2 \cap Sgi
                /\ raised2' = raised2 \ {i}
                /\ gicv2_inject_irq(i, TRUE, wait)
                /\ owed2' = owed2 \cup {i}
                /\ UNCHANGED <<active2, maint, on25, act25>>

HandleHighSgi(i) == /\ ~maint /\ i \in raised2 \cap HighSgi
                    /\ raised2' = raised2 \ {i}
                    /\ UNCHANGED <<active2, lr, wait, uie2, maint, on25, act25, owed2>>

HandleHw(i) == /\ ~maint /\ i \in (raised2 \cap HwIrq2) \ active2
               /\ raised2' = raised2 \ {i}
               /\ active2' = active2 \cup {i}       \* EOIR only drops the priority
               /\ gicv2_inject_irq(i, FALSE, wait)
               /\ UNCHANGED <<maint, on25, act25, owed2>>

\* At most one register is in use: the hardware raises the interrupt.
Underflow == uie2 /\ Cardinality({k \in ListReg : lr[k].st # "free"}) <= 1

(* Interrupt 25 is taken.  The handler writes neither EOIR nor DIR for it:  *)
(* it stays active, and does not come again, unless the guest clears that.  *)
Maintenance2 == /\ ~maint /\ Underflow /\ on25 /\ ~act25
                /\ maint' = TRUE /\ act25' = TRUE
                /\ UNCHANGED <<raised2, active2, lr, wait, uie2, on25, owed2>>

(* The bitmap of every zone has all SGIs and PPIs: a guest enables and      *)
(* disables 25, or changes its active state, as it likes.                   *)
Guest25 == /\ ~maint
           /\ on25' \in BOOLEAN /\ act25' \in BOOLEAN
           /\ UNCHANGED <<raised2, active2, lr, wait, uie2, maint, owed2>>

(* handle_maintenace_interrupt: a turn that injects ...                     *)
MaintInject == /\ maint /\ wait # << >> /\ Injected(Head(wait)[1])
               /\ gicv2_inject_irq(Head(wait)[1], Head(wait)[2], Tail(wait))
               /\ UNCHANGED <<raised2, active2, maint, on25, act25, owed2>>

(* ... one that cannot: inject_irq has queued the interrupt and the handler *)
(* queues it again ...                                                      *)
MaintFull == /\ maint /\ wait # << >> /\ ~Injected(Head(wait)[1])
             /\ wait' = Tail(wait) \o <<Head(wait), Head(wait)>>
             /\ uie2' = TRUE /\ maint' = FALSE
             /\ UNCHANGED <<raised2, active2, lr, on25, act25, owed2>>

(* ... and the end of the queue.                                            *)
MaintDone == /\ maint /\ wait = << >>
             /\ uie2' = FALSE /\ maint' = FALSE
             /\ UNCHANGED <<raised2, active2, lr, wait, on25, act25, owed2>>

(* The guest, through the virtual CPU interface.                            *)
GuestAck2(k) == /\ ~maint /\ lr[k].st = "pending"
                /\ lr' = [lr EXCEPT ![k].st = "active"]
                /\ owed2' = owed2 \ (IF lr[k].sgi THEN {lr[k].irq} ELSE {})
                /\ UNCHANGED <<raised2, active2, wait, uie2, maint, on25, act25>>

GuestDeactivate2(k) == /\ ~maint /\ lr[k].st = "active"
                       /\ lr' = [lr EXCEPT ![k].st = "free"]
                       /\ active2' = active2 \ (IF lr[k].sgi THEN {} ELSE {lr[k].irq})
                       /\ UNCHANGED <<raised2, wait, uie2, maint, on25, act25, owed2>>

Gicv2Next == \/ \E i \in Sgi \cup HighSgi \cup HwIrq2 : Raise2(i)
             \/ \E i \in Sgi : HandleSgi(i)
             \/ \E i \in HighSgi : HandleHighSgi(i)
             \/ \E i \in HwIrq2 : HandleHw(i)
             \/ Maintenance2 \/ MaintInject \/ MaintFull \/ MaintDone
             \/ \E k \in ListReg : GuestAck2(k) \/ GuestDeactivate2(k)
             \/ Guest25

Gicv2Spec == Gicv2Init /\ [][Gicv2Next]_g2vars
-----------------------------------------------------------------------------
Listed2(i, sgi) == \/ \E k \in ListReg : lr[k].st # "free" /\ lr[k].irq = i /\ lr[k].sgi = sgi
                   \/ \E n \in DOMAIN wait : wait[n] = <<i, sgi>>

(* A peripheral interrupt the hypervisor has taken, and which therefore     *)
(* cannot come again before the guest ends it, is in a list register or     *)
(* queued for one.                                                          *)
HwNotLost == \A i \in active2 : Listed2(i, FALSE)

(* While interrupts wait for a register the underflow interrupt is asked    *)
(* for, or the handler that serves them is running.  Whether it comes is    *)
(* another matter: 25 may be disabled, or active since its first time, and  *)
(* then what waits stays where it is.                                       *)
WaitingWakes == wait # << >> => uie2 \/ maint

(* "virtual irq {} enables again", and is dropped, when a list register    *)
(* seems to hold it.  For an SGI the code compares with the bits of the CPU *)
(* id, which read as 1: of the SGIs taken and not yet seen by the guest     *)
(* every one but SGI 1 is listed.                                           *)
OnlySgiOneDropped == \A i \in owed2 : i # 1 => Listed2(i, TRUE)

(* What the hypervisor takes from the GIC is kept, although list registers  *)
(* are few: it is listed or waits, nothing but a second SGI 1 is dropped,   *)
(* and the hypervisor asks for the interrupt that serves what waits.        *)
TakenIsListed == HwNotLost /\ OnlySgiOneDropped /\ WaitingWakes
=============================================================================

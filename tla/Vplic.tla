------------------------------- MODULE Vplic --------------------------------
(***************************************************************************)
(* The virtual PLIC of a zone on riscv64                                    *)
(* (src/src/device/irqchip/plic/{vplic,mod,plic}.rs).                       *)
(*                                                                          *)
(* A zone's harts share one vPLIC under a mutex.  A hardware interrupt is   *)
(* claimed at the physical PLIC by the hart that takes it and made pending  *)
(* in the vPLIC; it is completed at the physical PLIC when the guest        *)
(* completes it.  The guest sees hvip.VSEIP of its hart, which hvisor       *)
(* recomputes at every operation that it thinks can change it: at once for  *)
(* the hart it runs on, by IPI_EVENT_UPDATE_HART_LINE for another one.      *)
(* Hart h of the zone has the vPLIC context 2h + 1; the machine-mode        *)
(* contexts are refused and left out.                                       *)
(***************************************************************************)
EXTENDS Naturals, ZoneHarts

CONSTANTS HwIrq,     \* the zone's interrupts that are in HW_IRQS
          SwIrq,     \* its other interrupts, injected by hvisor (virtio)
          MaxPrio,   \* priorities and thresholds are 0 .. MaxPrio
          Affinities \* the ways guests spread them: hart -> interrupts enabled there at times

Irq  == HwIrq \cup SwIrq
Prio == 0 .. MaxPrio

ASSUME VplicAssumption == /\ Irq \subseteq Nat /\ HwIrq \cap SwIrq = {}
                          /\ MaxPrio \in Nat
                          /\ Affinities \subseteq [Hart -> SUBSET Irq]

VARIABLES active, pending, priority, enable, threshold,  \* VirtualPLICInner
          vseip,         \* hvip.VSEIP of each hart
          line_events,   \* harts with an UPDATE_HART_LINE event queued
          p_priority, p_enable, p_threshold,             \* the physical PLIC
          p_pending, p_claimed,
          affinity,      \* the one of Affinities that this guest keeps to
          handling       \* what the guest has claimed and not completed, by hart

vplic == <<active, pending, priority, enable, threshold>>
plic  == <<p_priority, p_enable, p_threshold, p_pending, p_claimed>>
vplicVars  == <<vplic, vseip, line_events, plic, handling, affinity>>

(* The physical PLIC.                                                       *)
init_global == p_priority = [i \in HwIrq |-> 0] /\ p_enable = [c \in Hart |-> {}]
init_per_hart == p_threshold = [c \in Hart |-> 0]

set_priority(i, v) == p_priority' = [p_priority EXCEPT ![i] = v]
\* For the interrupts of on TRUE, for those of off FALSE: bits are or'ed in, so
\* that none is cleared.
set_enable_num(c, on, off) == p_enable' = [p_enable EXCEPT ![c] = @ \cup on]
set_threshold(c, v) == p_threshold' = [p_threshold EXCEPT ![c] = v]

VplicInit == /\ active = {} /\ pending = {}
             /\ priority = [i \in Irq |-> 0]
             /\ enable = [c \in Hart |-> {}]
             /\ threshold = [c \in Hart |-> 0]
             /\ vseip = [c \in Hart |-> FALSE]
             /\ line_events = {}
             /\ init_global /\ init_per_hart
             /\ p_pending = {} /\ p_claimed = {}
             /\ handling = [c \in Hart |-> {}]
             /\ affinity \in Affinities

\* Of a set of interrupts the highest priority, and of these the lowest id.
Best(S, prio) == {i \in S : \A j \in S : \/ prio[i] > prio[j]
                                         \/ prio[i] = prio[j] /\ i <= j}

(* vplic_get_next_pending for context c with the interrupts e enabled: the  *)
(* interrupt, if there is one.                                              *)
next_pending(c, e) ==
  {i \in Best({j \in pending \ active : j \in e /\ priority[j] > 0}, priority) :
     priority[i] > threshold[c]}

(* vplic_update_hart_line on hart h for every context of C, after the       *)
(* state has changed.                                                       *)
update_hart_line(h, C) ==
  /\ vseip' = IF h \in C THEN [vseip EXCEPT ![h] = next_pending(h, enable[h])' # {}] ELSE vseip
  /\ line_events' = line_events \cup (C \ {h})

(* inject_irq on hart h: a hardware interrupt signals the hart that took    *)
(* it, another one every hart that would be interrupted.                    *)
inject_irq(h, i) ==
  /\ pending' = pending \cup {i}
  /\ update_hart_line(h, IF i \in pending THEN {}
                         ELSE IF i \in HwIrq THEN {h}
                         ELSE {c \in Hart : i \in enable[c] /\ priority[i] > threshold[c]})
-----------------------------------------------------------------------------
(* Interrupts.                                                              *)

Raise(i) ==
  /\ i \in HwIrq \ p_pending
  /\ p_pending' = p_pending \cup {i}
  /\ UNCHANGED <<vplic, vseip, line_events, p_priority, p_enable, p_threshold, p_claimed, handling, affinity>>

\* What the physical PLIC answers to a claim of context h.
PlicClaim(h) == {i \in Best({j \in p_pending \ p_claimed : j \in p_enable[h] /\ p_priority[j] > 0},
                            p_priority) : p_priority[i] > p_threshold[h]}

(* handle_external_interrupt: claim, inject_irq(irq, true).                 *)
ExternalInterrupt(h) ==
  \E i \in PlicClaim(h) :
    /\ p_pending' = p_pending \ {i}
    /\ p_claimed' = p_claimed \cup {i}
    /\ UNCHANGED <<active, priority, enable, threshold, p_priority, p_enable, p_threshold, handling, affinity>>
    /\ inject_irq(h, i)

(* handle_virtio_irq or a wake-up of the virtio device, on hart h.          *)
InjectSoft(h, i) ==
  /\ UNCHANGED <<active, priority, enable, threshold, plic, handling, affinity>>
  /\ inject_irq(h, i)

(* check_events takes IPI_EVENT_UPDATE_HART_LINE.                           *)
UpdateEvent(h) ==
  /\ h \in line_events
  /\ vseip' = [vseip EXCEPT ![h] = next_pending(h, enable[h]) # {}]
  /\ line_events' = line_events \ {h}
  /\ UNCHANGED <<vplic, plic, handling, affinity>>
-----------------------------------------------------------------------------
(* vplic_emul_access: the guest writes registers from hart h.               *)

PriorityWrite(h, i, v) ==
  /\ priority' = [priority EXCEPT ![i] = v]
  /\ UNCHANGED <<active, pending, enable, threshold, p_enable, p_threshold, p_pending, p_claimed, handling, affinity>>
  /\ \/ /\ i \in HwIrq
        /\ set_priority(i, v)
        /\ update_hart_line(h, {})
     \/ /\ i \in SwIrq
        /\ update_hart_line(h, {c \in Hart : i \in enable[c]})
        /\ UNCHANGED p_priority

(* The enable bits of context c become S, one after the other.  A change of *)
(* a hardware interrupt is passed on with set_enable_num, which sets bits   *)
(* and never clears one; a change of another one updates the line, with the *)
(* bits above it still as they were.                                        *)
EnableWrite(h, c, S) ==
  LET changed == (S \cup enable[c]) \ (S \cap enable[c])
      seen    == {i \in Irq : \E j \in changed \cap SwIrq : i <= j}
      partial == (S \cap seen) \cup (enable[c] \ seen)
  IN
  /\ enable' = [enable EXCEPT ![c] = S]
  /\ set_enable_num(c, changed \cap S \cap HwIrq, (changed \ S) \cap HwIrq)
  /\ \/ /\ seen # {} /\ c = h
        /\ vseip' = [vseip EXCEPT ![c] = next_pending(c, partial) # {}]
        /\ UNCHANGED line_events
     \/ /\ seen # {} /\ c # h
        /\ line_events' = line_events \cup {c}
        /\ UNCHANGED vseip
     \/ /\ seen = {}
        /\ UNCHANGED <<vseip, line_events>>
  /\ UNCHANGED <<active, pending, priority, threshold, p_priority, p_threshold, p_pending, p_claimed, handling, affinity>>

ThresholdWrite(h, v) ==
  /\ threshold' = [threshold EXCEPT ![h] = v]
  /\ set_threshold(h, v)
  /\ UNCHANGED <<active, pending, priority, enable, p_priority, p_enable, p_pending, p_claimed, handling, affinity>>
  /\ update_hart_line(h, {h})

(* Claim, the read of the claim register: what it answers is the guest's    *)
(* to handle.  With nothing to claim it answers 0, marks interrupt 0 active *)
(* and recomputes the line.                                                 *)
Claim(h) ==
  LET i == next_pending(h, enable[h]) IN
  /\ pending' = pending \ i
  /\ active' = active \cup i
  /\ handling' = [handling EXCEPT ![h] = @ \cup i]
  /\ UNCHANGED <<priority, enable, threshold, plic, affinity>>
  /\ update_hart_line(h, {h})

\* Defect: the physical interrupt is left claimed.
Complete_NotPhysical(h, i) ==
  /\ i \in handling[h]
  /\ active' = active \ {i}
  /\ handling' = [handling EXCEPT ![h] = @ \ {i}]
  /\ UNCHANGED <<pending, priority, enable, threshold, plic, affinity>>
  /\ update_hart_line(h, {h})

\* Defect: the line is not looked at again.
Complete_NoUpdate(h, i) ==
  /\ i \in handling[h]
  /\ p_claimed' = IF i \in p_enable[h] THEN p_claimed \ {i} ELSE p_claimed
  /\ active' = active \ {i}
  /\ handling' = [handling EXCEPT ![h] = @ \ {i}]
  /\ UNCHANGED <<pending, priority, enable, threshold, vseip, line_events,
                 p_priority, p_enable, p_threshold, p_pending, affinity>>

(* Complete.  The physical PLIC takes a completion only from a context for  *)
(* which the interrupt is enabled.                                          *)
Complete(h, i) ==
  /\ i \in handling[h]
  /\ p_claimed' = IF i \in p_enable[h] THEN p_claimed \ {i} ELSE p_claimed
  /\ active' = active \ {i}
  /\ handling' = [handling EXCEPT ![h] = @ \ {i}]
  /\ UNCHANGED <<pending, priority, enable, threshold, p_priority, p_enable, p_threshold, p_pending, affinity>>
  /\ update_hart_line(h, {h})

(* The zone is shut down (arch_irqchip_reset; its harts clear hvip on the   *)
(* way to idle) and started again with a new VirtualPLIC.  Clearing the     *)
(* physical enable bits has no effect.  Stopped while the guest handles a   *)
(* hardware interrupt, that would stay claimed for good.                    *)
Restart ==
  /\ p_claimed = {}
  /\ active' = {} /\ pending' = {}
  /\ priority' = [i \in Irq |-> 0]
  /\ enable' = [c \in Hart |-> {}]
  /\ threshold' = [c \in Hart |-> 0]
  /\ vseip' = [c \in Hart |-> FALSE]
  /\ line_events' = {}
  /\ p_priority' = [i \in HwIrq |-> 0]
  /\ p_threshold' = [c \in Hart |-> 0]
  /\ handling' = [c \in Hart |-> {}]
  /\ UNCHANGED <<p_enable, p_pending, p_claimed, affinity>>
-----------------------------------------------------------------------------
VplicNext == \/ \E i \in Irq : Raise(i)
             \/ Restart
             \/ \E h \in Hart :
                  \/ ExternalInterrupt(h) \/ UpdateEvent(h) \/ Claim(h)
                  \/ \E i \in SwIrq : InjectSoft(h, i)
                  \/ \E i \in Irq, v \in Prio : PriorityWrite(h, i, v)
                  \/ \E c \in Hart : \E S \in SUBSET affinity[c] : EnableWrite(h, c, S)
                  \/ \E v \in Prio : ThresholdWrite(h, v)
                  \/ \E i \in Irq : Complete(h, i)

VplicSpec == VplicInit /\ [][VplicNext]_vplicVars
-----------------------------------------------------------------------------
(* Two harts never handle the same interrupt, and what a hart handles is    *)
(* marked active, although several harts have it pending and their line up. *)
ClaimedOnce ==
  /\ \A h, g \in Hart : h # g => handling[h] \cap handling[g] = {}
  /\ \A h \in Hart : handling[h] \subseteq active

(* A hardware interrupt claimed at the physical PLIC is pending or active   *)
(* in the vPLIC: someone is going to complete it, so that the device can    *)
(* interrupt again.                                                         *)
ClaimIsOwed == p_claimed \subseteq pending \cup active

(* However claims, completions and injections of the harts interleave, an   *)
(* interrupt is claimed by one hart at a time, and what is claimed at the   *)
(* physical PLIC is going to be completed there.                            *)
ClaimsKept == ClaimedOnce /\ ClaimIsOwed

\* The guest keeps interrupt i on hart h.
Pinned(i, h) == \A g \in Hart : i \in affinity[g] => g = h

(* "we should signal related vontext like physical PLIC does": an injected  *)
(* interrupt that the guest keeps on one hart, and that this hart would     *)
(* get, raises the hart's line, or an event that will is queued.            *)
SoftIrqSignalled ==
  \A h \in Hart, i \in SwIrq :
    (Pinned(i, h) /\ i \in pending \ active /\ i \in enable[h] /\ priority[i] > threshold[h])
      => vseip[h] \/ h \in line_events
=============================================================================

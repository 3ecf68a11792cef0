------------------------------- MODULE Events -------------------------------
(***************************************************************************)
(* Delivery of inter-processor events on aarch64 with a GICv3.              *)
(*                                                                          *)
(* send_event (src/src/event.rs) is two steps of the sending CPU: it pushes *)
(* the event on the target's queue, then writes ICC_SGI1R_EL1.  The SGI a   *)
(* CPU receives is ONE pending bit: SGIs that arrive before it is           *)
(* acknowledged merge.  The target leaves the guest, acknowledges and       *)
(* deactivates the SGI, and then calls check_events ONCE, which pops one    *)
(* event (gicv3_handle_irq_el1).  So the number of SGIs taken and the       *)
(* number of events queued are not tied to each other, and what is left is  *)
(* what this module is about.                                               *)
(*                                                                          *)
(* A CPU is in one of four places:                                          *)
(*   "guest"  in its guest or in the parking loop, interruptible            *)
(*   "send"   in send_event to dst, the event pushed, the SGI not yet sent  *)
(*   "irq"    in the loop of gicv3_handle_irq_el1, about to read the IAR    *)
(*   "ack"    SGI_IPI_ID read from the IAR, about to call fetch_event       *)
(***************************************************************************)
EXTENDS EventQueue, FiniteSets

CONSTANTS CPU,        \* the CPUs
          Sent,       \* the events the code of this configuration sends
          GuestSends, \* guests send SGI 7 among themselves, through handle_sysreg
          MaxEvents   \* bound: no event but a SHUTDOWN is pushed on a queue of this length

ASSUME EventsAssumption == /\ IsFiniteSet(CPU)
                           /\ Sent \subseteq EventId
                           /\ GuestSends \in BOOLEAN
                           /\ MaxEvents \in Nat

VARIABLES events,   \* EVENT_MANAGER.inner: a queue per CPU
          sgi,      \* SGI_IPI_ID is pending at the CPU's redistributor
          pc,       \* where the CPU is
          dst,      \* the target of the send_event a CPU is in
          running,  \* the CPU entered its guest with run(), and did not idle() since
          spurious, \* the CPU injected SGI_IPI_ID into its guest: an IPI with no event
          surplus   \* history: the CPU was sent an SGI that has no event of its own

vars == <<events, sgi, pc, dst, running, spurious, surplus>>

Init == /\ events = [c \in CPU |-> <<>>]
        /\ sgi = [c \in CPU |-> FALSE]
        /\ pc = [c \in CPU |-> "guest"]
        /\ dst = [c \in CPU |-> c]
        /\ running \in [CPU -> BOOLEAN]
        /\ spurious = [c \in CPU |-> FALSE]
        /\ surplus = [c \in CPU |-> FALSE]

(* The events check_events has an arm for on aarch64.                       *)
Handled == {IPI_EVENT_WAKEUP, IPI_EVENT_SHUTDOWN, IPI_EVENT_VIRTIO_INJECT_IRQ,
            IPI_EVENT_WAKEUP_VIRTIO_DEVICE, IPI_EVENT_SHM_SIGNAL}

\* An event pushed on q makes its SGI, or one sent before, serve no event.
Surplus(q, e) == e \notin Handled \/ (e = IPI_EVENT_SHUTDOWN /\ q # <<>>)

(* send_event, first half: EventManager::add_event on the target's queue.   *)
SendAdd(c, d, e) ==
  /\ pc[c] = "guest"
  /\ e = IPI_EVENT_SHUTDOWN \/ Len(events[d]) < MaxEvents
  /\ events' = [events EXCEPT ![d] = add_event(@, e)]
  /\ pc' = [pc EXCEPT ![c] = "send"]
  /\ dst' = [dst EXCEPT ![c] = d]
  /\ surplus' = [surplus EXCEPT ![d] = @ \/ Surplus(events[d], e)]
  /\ UNCHANGED <<sgi, running, spurious>>

\* Defect: no SGI if one of the target's own sends is under way.
SendSgi_SkipBusy(c) ==
  /\ pc[c] = "send"
  /\ sgi' = [sgi EXCEPT ![dst[c]] = @ \/ pc[dst[c]] = "guest"]
  /\ pc' = [pc EXCEPT ![c] = "guest"]
  /\ UNCHANGED <<events, dst, running, spurious, surplus>>

(* send_event, second half: arch_send_event writes ICC_SGI1R_EL1.           *)
SendSgi(c) ==
  /\ pc[c] = "send"
  /\ sgi' = [sgi EXCEPT ![dst[c]] = TRUE]
  /\ pc' = [pc EXCEPT ![c] = "guest"]
  /\ dst' = [dst EXCEPT ![c] = c]
  /\ UNCHANGED <<events, running, spurious, surplus>>

(* A guest writes ICC_SGI1R_EL1 itself with SGI number 7; handle_sysreg     *)
(* passes the value on unless the CPU is powered off.                       *)
GuestSgi(c, d) ==
  /\ GuestSends
  /\ pc[c] = "guest"
  /\ running[c]
  /\ sgi' = [sgi EXCEPT ![d] = TRUE]
  /\ surplus' = [surplus EXCEPT ![d] = TRUE]
  /\ UNCHANGED <<events, pc, dst, running, spurious>>

(* The pending SGI takes the CPU out of its guest (HCR_EL2.IMO).            *)
TakeIrq(c) ==
  /\ pc[c] = "guest"
  /\ sgi[c]
  /\ pc' = [pc EXCEPT ![c] = "irq"]
  /\ UNCHANGED <<events, sgi, dst, running, spurious, surplus>>

\* Defect: the SGI stays pending when it is acknowledged.
Acknowledge_StillPending(c) ==
  /\ pc[c] = "irq"
  /\ sgi[c]
  /\ pc' = [pc EXCEPT ![c] = "ack"]
  /\ UNCHANGED <<events, sgi, dst, running, spurious, surplus>>

(* pending_irq reads SGI_IPI_ID, which clears the pending bit, and          *)
(* deactivate_irq makes room for the next SGI.                              *)
Acknowledge(c) ==
  /\ pc[c] = "irq"
  /\ sgi[c]
  /\ sgi' = [sgi EXCEPT ![c] = FALSE]
  /\ pc' = [pc EXCEPT ![c] = "ack"]
  /\ UNCHANGED <<events, dst, running, spurious, surplus>>

(* pending_irq finds nothing: gicv3_handle_irq_el1 returns to the guest.    *)
IrqDone(c) ==
  /\ pc[c] = "irq"
  /\ ~sgi[c]
  /\ pc' = [pc EXCEPT ![c] = "guest"]
  /\ UNCHANGED <<events, sgi, dst, running, spurious, surplus>>

(* check_events: pop one event and dispatch it.  WAKEUP and SHUTDOWN do not *)
(* return: run() and idle() enter the guest afresh.  An empty queue, or an  *)
(* event of another architecture, makes the IPI unhandled, and the handler  *)
(* injects it into the guest as the virtual SGI 7.                          *)
check_events(c) ==
  /\ pc[c] = "ack"
  /\ events' = [events EXCEPT ![c] = fetch_event(@)]
  /\ LET e == IF events[c] = <<>> THEN {} ELSE {Head(events[c])} IN
       \/ /\ e = {IPI_EVENT_WAKEUP}
          /\ running' = [running EXCEPT ![c] = TRUE]
          /\ pc' = [pc EXCEPT ![c] = "guest"]
          /\ UNCHANGED spurious
       \/ /\ e = {IPI_EVENT_SHUTDOWN}
          /\ running' = [running EXCEPT ![c] = FALSE]
          /\ pc' = [pc EXCEPT ![c] = "guest"]
          /\ UNCHANGED spurious
       \/ /\ e # {}
          /\ e \subseteq Handled \ {IPI_EVENT_WAKEUP, IPI_EVENT_SHUTDOWN}
          /\ pc' = [pc EXCEPT ![c] = "irq"]
          /\ UNCHANGED <<running, spurious>>
       \/ /\ e \cap Handled = {}
          /\ spurious' = [spurious EXCEPT ![c] = TRUE]
          /\ pc' = [pc EXCEPT ![c] = "irq"]
          /\ UNCHANGED running
  /\ UNCHANGED <<sgi, dst, surplus>>

Next == \E c \in CPU :
          \/ \E d \in CPU, e \in Sent : SendAdd(c, d, e)
          \/ SendSgi(c)
          \/ \E d \in CPU : GuestSgi(c, d)
          \/ TakeIrq(c)
          \/ Acknowledge(c)
          \/ IrqDone(c)
          \/ check_events(c)

Spec == Init /\ [][Next]_vars

(* Code at EL2 runs to its end with interrupts masked.  A pending SGI is    *)
(* taken although the guest keeps trapping for other reasons in between, so *)
(* strong fairness; the reads of the IAR likewise see a pending SGI.        *)
Fairness == \A c \in CPU : /\ WF_vars(SendSgi(c))
                           /\ SF_vars(TakeIrq(c))
                           /\ WF_vars(Acknowledge(c))
                           /\ WF_vars(IrqDone(c))
                           /\ WF_vars(check_events(c))

FairSpec == Spec /\ Fairness
-----------------------------------------------------------------------------
TypeOK == /\ events \in [CPU -> Seq(EventId)]
          /\ sgi \in [CPU -> BOOLEAN]
          /\ pc \in [CPU -> {"guest", "send", "irq", "ack"}]
          /\ dst \in [CPU -> CPU]
          /\ running \in [CPU -> BOOLEAN]
          /\ spurious \in [CPU -> BOOLEAN] /\ surplus \in [CPU -> BOOLEAN]

Queued(c, e) == \E i \in 1 .. Len(events[c]) : events[c][i] = e

(* An SGI for c that check_events has not answered yet: pending, taken, or  *)
(* still to be sent by a CPU that has already pushed its event.             *)
SgiOutstanding(c) == \/ sgi[c]
                     \/ pc[c] = "ack"
                     \/ \E s \in CPU : pc[s] = "send" /\ dst[s] = c

(* A queued SHUTDOWN is the next event its CPU fetches: whatever was queued *)
(* before it is gone (add_event clears the queue), and what is pushed later *)
(* waits behind it.                                                         *)
ShutdownAtHead ==
  \A c \in CPU : \A i \in 1 .. Len(events[c]) : events[c][i] = IPI_EVENT_SHUTDOWN => i = 1

(* SGIs merge, and one SGI fetches one event, so an event can be left in    *)
(* the queue with no SGI to fetch it.  That never happens to a SHUTDOWN:    *)
(* however its SGI merges with others, or is taken for another event, an    *)
(* SGI is outstanding for as long as the SHUTDOWN is queued.                *)
ShutdownNeverStranded ==
  \A c \in CPU : Queued(c, IPI_EVENT_SHUTDOWN) => SgiOutstanding(c)

(* The handler injects an IPI without an event into the guest as SGI 7,     *)
(* which the guest did not ask for.  Merging SGIs alone never causes that:  *)
(* a CPU has fetched in vain only if a guest sent it SGI 7, a SHUTDOWN      *)
(* discarded events whose SGIs stay, or it was sent an event without an arm *)
(* in check_events.                                                         *)
NoSpuriousIpi == \A c \in CPU : spurious[c] => surplus[c]

(* A CPU that has been sent a SHUTDOWN reaches idle(), whatever else is     *)
(* sent to it and whatever its guest does.                                  *)
ShutdownServed ==
  \A c \in CPU : Queued(c, IPI_EVENT_SHUTDOWN) ~> ~running[c]
=============================================================================

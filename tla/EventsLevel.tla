---------------------------- MODULE EventsLevel -----------------------------
(***************************************************************************)
(* Delivery of inter-processor events on riscv64 and loongarch64.           *)
(*                                                                          *)
(* Unlike the GICv3 (module Events) the IPI is a bit that stays set until   *)
(* the handler clears it, and the handler calls check_events until it       *)
(* returns false and clears the bit AFTER that                              *)
(* (handle_software_interrupt: clear_ssoft; handle_interrupt: reset_ipi).   *)
(* On loongarch64 send_event first empties the target's queue itself, and a *)
(* guest's own IPIs, which it sends through the same registers of the board,*)
(* come to hvisor's handler; bits of them that SGI_IPI_ID has count as the  *)
(* absence of one, and `foreign` is a bit that it has not.                  *)
(*                                                                          *)
(*   "guest"  interruptible      "drain"  send_event empties the queue      *)
(*   "add"    about to push      "send"   pushed, the IPI not yet sent      *)
(*   "check"  in the handler     "clear"  about to clear the IPI            *)
(***************************************************************************)
EXTENDS EventQueue

CONSTANTS CPU,        \* the CPUs
          Sent,       \* architecture -> the events sent
          Reached,    \* loongarch64: the CPUs that guests send IPIs of their own to
          MaxEvents   \* bound: no event but a SHUTDOWN is pushed on a queue of this length

Arch == {"riscv64", "loongarch64"}

ASSUME LevelAssumption == /\ Sent \in [Arch -> SUBSET EventId]
                          /\ MaxEvents \in Nat
                         /\ Reached \subseteq CPU

VARIABLES arch,       \* the architecture built for
          events, pc,
          ipi,        \* the IPI of send_event is set
          foreign,    \* loongarch64: a guest has set a bit that SGI_IPI_ID lacks
          dst, ev,    \* the arguments of the send_event a CPU is in
          raced,      \* history: an IPI arrived while its CPU was about to clear the bit
          cut,        \* history: an event without an arm ended the CPU's check_events loop
          ignored     \* history: an IPI of send_event was ignored for a guest's bit beside it

foreignVars == <<foreign, ignored>>
vars == <<arch, events, ipi, pc, dst, ev, raced, cut, foreignVars>>

\* The arms of check_events that return true.
Handled == {IPI_EVENT_VIRTIO_INJECT_IRQ, IPI_EVENT_WAKEUP_VIRTIO_DEVICE, IPI_EVENT_SHM_SIGNAL}
             \cup (IF arch = "riscv64" THEN {IPI_EVENT_UPDATE_HART_LINE, IPI_EVENT_SEND_IPI}
                                        ELSE {IPI_EVENT_CLEAR_INJECT_IRQ})

Init == /\ arch \in Arch
        /\ events = [c \in CPU |-> <<>>]
        /\ ipi = [c \in CPU |-> FALSE]
        /\ pc = [c \in CPU |-> "guest"]
        /\ dst = [c \in CPU |-> c]
        /\ ev = [c \in CPU |-> IPI_EVENT_WAKEUP]
        /\ raced = [c \in CPU |-> FALSE]
        /\ cut = [c \in CPU |-> FALSE]
        /\ foreign = [c \in CPU |-> FALSE]
        /\ ignored = [c \in CPU |-> FALSE]

Goto(c, l) == pc' = [pc EXCEPT ![c] = l]

(* send_event is called.                                                    *)
SendEvent(c, d, e) ==
  /\ pc[c] = "guest"
  /\ e = IPI_EVENT_SHUTDOWN \/ Len(events[d]) < MaxEvents
  /\ dst' = [dst EXCEPT ![c] = d]
  /\ ev' = [ev EXCEPT ![c] = e]
  /\ Goto(c, IF arch = "loongarch64" THEN "drain" ELSE "add")
  /\ UNCHANGED <<arch, events, ipi, raced, cut, foreignVars>>

(* `while !fetch_event(cpu_id).is_none() {}`, one turn.                     *)
SendDrain(c) ==
  /\ pc[c] = "drain"
  /\ events' = [events EXCEPT ![dst[c]] = fetch_event(@)]
  /\ Goto(c, IF events[dst[c]] = <<>> THEN "add" ELSE "drain")
  /\ UNCHANGED <<arch, ipi, dst, ev, raced, cut, foreignVars>>

SendAdd(c) ==
  /\ pc[c] = "add"
  /\ events' = [events EXCEPT ![dst[c]] = add_event(@, ev[c])]
  /\ Goto(c, "send")
  /\ UNCHANGED <<arch, ipi, dst, ev, raced, cut, foreignVars>>

\* On riscv64 sbi's send_ipi or the ACLINT, on loongarch64 the IPI_SET register.
aclint_send_ipi(d)  == arch = "riscv64" /\ ipi' = [ipi EXCEPT ![d] = TRUE]
ipi_write_action(d) == arch = "loongarch64" /\ ipi' = [ipi EXCEPT ![d] = TRUE]

(* arch_send_event                                                          *)
SendIpi(c) ==
  /\ pc[c] = "send"
  /\ aclint_send_ipi(dst[c]) \/ ipi_write_action(dst[c])
  /\ raced' = [raced EXCEPT ![dst[c]] = @ \/ pc[dst[c]] = "clear"]
  /\ Goto(c, "guest")
  /\ dst' = [dst EXCEPT ![c] = c] /\ ev' = [ev EXCEPT ![c] = IPI_EVENT_WAKEUP]
  /\ UNCHANGED <<arch, events, cut, foreignVars>>

(* A guest on c sends an IPI of its own to d: its iocsrwr is carried out by *)
(* emulate_iocsr, or it stores to the IPI registers, which ls3a5000 maps.   *)
ForeignIpi(c, d) ==
  /\ arch = "loongarch64" /\ pc[c] = "guest"
  /\ foreign' = [foreign EXCEPT ![d] = TRUE]
  /\ UNCHANGED <<arch, events, ipi, pc, dst, ev, raced, cut, ignored>>

(* The handler goes for the events only if the status is SGI_IPI_ID and     *)
(* nothing else; either way it ends by clearing every bit.                  *)
TakeIrq(c) ==
  /\ pc[c] = "guest" /\ (ipi[c] \/ foreign[c])
  /\ Goto(c, IF foreign[c] THEN "clear" ELSE "check")
  /\ ignored' = [ignored EXCEPT ![c] = @ \/ (ipi[c] /\ foreign[c])]
  /\ UNCHANGED <<arch, events, ipi, foreign, dst, ev, raced, cut>>

NotReturning == {IPI_EVENT_WAKEUP, IPI_EVENT_SHUTDOWN}

\* Defect: check_events is called once.
check_events_Once(c) ==
  /\ pc[c] = "check"
  /\ events' = [events EXCEPT ![c] = fetch_event(@)]
  /\ Goto(c, IF events[c] # <<>> /\ Head(events[c]) \in NotReturning THEN "guest" ELSE "clear")
  /\ UNCHANGED <<arch, ipi, dst, ev, raced, cut, foreignVars>>

(* `while check_events() {}`, one turn.  WAKEUP and SHUTDOWN enter the      *)
(* guest, or the parking loop, from inside: the IPI stays set and is taken  *)
(* again.  No event, or one without an arm, ends the loop.                  *)
check_events(c) ==
  /\ pc[c] = "check"
  /\ events' = [events EXCEPT ![c] = fetch_event(@)]
  /\ Goto(c, IF events[c] = <<>> THEN "clear"
             ELSE IF Head(events[c]) \in NotReturning THEN "guest"
             ELSE IF Head(events[c]) \in Handled THEN "check" ELSE "clear")
  /\ cut' = [cut EXCEPT ![c] = @ \/ (/\ events[c] # <<>>
                                     /\ Head(events[c]) \notin Handled \cup NotReturning)]
  /\ UNCHANGED <<arch, ipi, dst, ev, raced, foreignVars>>

clear_ssoft(c) == arch = "riscv64" /\ ipi' = [ipi EXCEPT ![c] = FALSE] /\ UNCHANGED foreign
reset_ipi(c)   == /\ arch = "loongarch64"
                  /\ ipi' = [ipi EXCEPT ![c] = FALSE] /\ foreign' = [foreign EXCEPT ![c] = FALSE]

(* The end of the handler.                                                  *)
ClearIpi(c) ==
  /\ pc[c] = "clear"
  /\ clear_ssoft(c) \/ reset_ipi(c)
  /\ Goto(c, "guest")
  /\ UNCHANGED <<arch, events, dst, ev, raced, cut, ignored>>

Next == \E c \in CPU :
          \/ \E d \in CPU, e \in Sent[arch] : SendEvent(c, d, e)
          \/ \E d \in Reached : ForeignIpi(c, d)
          \/ SendDrain(c) \/ SendAdd(c) \/ SendIpi(c)
          \/ TakeIrq(c) \/ check_events(c) \/ ClearIpi(c)

Spec == Init /\ [][Next]_vars
-----------------------------------------------------------------------------
\* The IPI that will make c look at its queue is set or still to be sent.
Outstanding(c) == \/ ipi[c]
                  \/ \E s \in CPU : pc[s] = "send" /\ dst[s] = c

(* IPIs that merge strand no event, since the handler empties the queue.    *)
(* An event can be left behind, with no IPI to announce it, in three ways   *)
(* only: its IPI arrives after the handler left the loop and before it      *)
(* clears the bit, it was queued behind an event without an arm, for which  *)
(* check_events returns false and ends the loop, or on loongarch64 a guest's*)
(* IPI came with its own and the handler ignored both.                      *)
StrandedOnlyByRace ==
  \A c \in CPU : events[c] # <<>> /\ ~Outstanding(c) => raced[c] \/ cut[c] \/ ignored[c]

(* hv_zone_shutdown waits for "all zone's cpus shutdown": the SHUTDOWN it   *)
(* queued has an IPI under way that makes the CPU fetch it.                 *)
ShutdownNeverStranded ==
  \A c \in CPU : (\E i \in 1 .. Len(events[c]) : events[c][i] = IPI_EVENT_SHUTDOWN)
                   => Outstanding(c)
=============================================================================

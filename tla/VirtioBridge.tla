---------------------------- MODULE VirtioBridge ----------------------------
(***************************************************************************)
(* The virtio bridge between the guests and the virtio backend, a process   *)
(* of the root zone (src/src/device/virtio_trampoline.rs, and               *)
(* hv_virtio_inject_irq of src/src/hypercall/mod.rs).                       *)
(*                                                                          *)
(* A guest's access to a virtio device is pushed on the request ring, which *)
(* the backend reads without a lock.  A configuration access waits at EL2   *)
(* until the backend has answered in cfg_flags and cfg_values; a queue      *)
(* notification does not wait: the backend puts its interrupt on the result *)
(* ring and makes the hypercall HvVirtioInjectIrq, which lists the          *)
(* interrupt in VIRTIO_IRQS and sends an event to the CPU.                  *)
(*                                                                          *)
(* One CPU of the root zone runs the backend and its hypercalls; each guest *)
(* CPU in CPU is the first CPU of a zone of its own.  The memory orderings  *)
(* the fences of the code leave to the machine are made by it if Relaxed    *)
(* says so:                                                                 *)
(*   "store_load"  need_wakeup is read before the store to req_rear is seen *)
(*   "load_load"   cfg_values is read before the load of cfg_flags that     *)
(*                 ends the wait                                            *)
(***************************************************************************)
EXTENDS EventQueue, FiniteSets

CONSTANTS CPU,        \* guest CPUs
          Irq,        \* virtio interrupts of a zone, one per device
          MAX_REQ,    \* entries of a ring, a power of two
          MAX_DEVS,   \* virtio devices per zone
          Access,     \* what guests do: a subset of {"cfg", "notify"}
          MaxAccess,  \* bound: accesses per guest CPU
          MaxShm,     \* bound: shared-memory signals the root zone sends
          Relaxed

ASSUME BridgeAssumption == /\ MAX_REQ \in Nat /\ MAX_REQ >= 2
                           /\ MAX_DEVS \in Nat \ {0}
                           /\ Access \subseteq {"cfg", "notify"}
                           /\ MaxAccess \in Nat /\ MaxShm \in Nat
                           /\ Relaxed \subseteq {"store_load", "load_load"}

VARIABLES req_front, req_rear, req_list,  \* the request ring
          seen_rear,                      \* req_rear as the backend sees it
          res,                            \* the result ring, front to rear
          cfg_flags, cfg_values, need_wakeup,
          lock,                           \* owner of VIRTIO_BRIDGE
          irq_list,                       \* VIRTIO_IRQS: the valid part of a CPU's list
          events, sgi,                    \* event queue and SGI of a guest CPU
          wake,                           \* a wakeup of the backend is under way
          virq,                           \* interrupts injected and not yet served
          gpc, op, old_cfg_flag, value, count,   \* mmio_virtio_handler of a CPU
          rpc, target, shm                       \* the CPU of the root zone

ring  == <<req_front, req_rear, req_list, seen_rear>>
cfg   == <<cfg_flags, cfg_values, need_wakeup>>
irqs  == <<irq_list, events, sgi, virq>>
guest == <<gpc, op, old_cfg_flag, value, count>>
root  == <<rpc, target, shm>>
vars  == <<ring, res, cfg, lock, irqs, wake, guest, root>>

ROOT == "root"
FREE == "free"
Slot == 0 .. MAX_REQ - 1

Init == /\ req_front = 0 /\ req_rear = 0 /\ seen_rear = 0
        /\ req_list = [s \in Slot |-> <<>>]
        /\ res = <<>>
        /\ cfg_flags = [c \in CPU |-> 0]
        /\ cfg_values = [c \in CPU |-> 0]
        /\ need_wakeup = FALSE
        /\ lock = FREE
        /\ irq_list = [c \in CPU |-> <<>>]
        /\ events = [c \in CPU |-> <<>>]
        /\ sgi = [c \in CPU |-> FALSE]
        /\ wake = FALSE
        /\ virq = [c \in CPU |-> {}]
        /\ gpc = [c \in CPU |-> "guest"]
        /\ op = [c \in CPU |-> "cfg"]
        /\ old_cfg_flag = [c \in CPU |-> 0]
        /\ value = [c \in CPU |-> 0]
        /\ count = [c \in CPU |-> 0]
        /\ rpc = "poll" /\ target = FREE /\ shm = 0

Goto(c, l) == gpc' = [gpc EXCEPT ![c] = l]

\* The index arithmetic of the rings, % MAX_REQ or & (MAX_REQ - 1).
next_slot(s) == (s + 1) % MAX_REQ
-----------------------------------------------------------------------------
(* mmio_virtio_handler.  The request carries its number, so that an answer  *)
(* can be told from that of an earlier request.                             *)

AccessDevice(c, o) ==
  /\ gpc[c] = "guest" /\ count[c] < MaxAccess
  /\ op' = [op EXCEPT ![c] = o]
  /\ count' = [count EXCEPT ![c] = @ + 1]
  /\ Goto(c, "push")
  /\ UNCHANGED <<ring, res, cfg, lock, irqs, wake, old_cfg_flag, value, root>>

\* Defect: the ring is taken for full one entry too late.
is_req_list_full_Late == (req_rear + 1) % (MAX_REQ + 1) = req_front

is_req_list_full == next_slot(req_rear) = req_front

\* Defect: the lock is kept while the ring is full.
PushReq_KeepLock(c) ==
  /\ gpc[c] = "push" /\ lock \in {FREE, c}
  /\ lock' = c
  /\ \/ /\ is_req_list_full
        /\ UNCHANGED <<ring, gpc, old_cfg_flag>>
     \/ /\ ~is_req_list_full
        /\ old_cfg_flag' = [old_cfg_flag EXCEPT ![c] = cfg_flags[c]]
        /\ req_list' = [req_list EXCEPT ![req_rear] = <<c, op[c], count[c]>>]
        /\ req_rear' = next_slot(req_rear)
        /\ seen_rear' = IF "store_load" \in Relaxed THEN seen_rear ELSE req_rear'
        /\ Goto(c, "wake")
        /\ UNCHANGED req_front
  /\ UNCHANGED <<res, cfg, irqs, wake, op, value, count, root>>

\* The lock is taken with room in the ring; with a full ring it is released
\* and taken again.  old_cfg_flag is read before push_req.
PushReq(c) ==
  /\ gpc[c] = "push" /\ lock = FREE
  /\ ~is_req_list_full
  /\ lock' = c
  /\ old_cfg_flag' = [old_cfg_flag EXCEPT ![c] = cfg_flags[c]]
  /\ req_list' = [req_list EXCEPT ![req_rear] = <<c, op[c], count[c]>>]
  /\ req_rear' = next_slot(req_rear)
  /\ seen_rear' = IF "store_load" \in Relaxed THEN seen_rear ELSE req_rear'
  /\ Goto(c, "wake")
  /\ UNCHANGED <<req_front, res, cfg, irqs, wake, op, value, count, root>>

(* The store to req_rear becomes visible; at the latest when the lock is    *)
(* released.                                                                *)
StoreSeen ==
  /\ seen_rear # req_rear
  /\ seen_rear' = req_rear
  /\ UNCHANGED <<req_front, req_rear, req_list, res, cfg, lock, irqs, wake, guest, root>>

\* need_wakeup, and WAKEUP_VIRTIO_DEVICE to the root zone.  `wake` is the
\* event, its SGI, and the interrupt and signal it becomes: they merge alike.
NeedWakeup(c) ==
  /\ gpc[c] = "wake"
  /\ wake' = (wake \/ need_wakeup)
  /\ Goto(c, "unlock")
  /\ UNCHANGED <<ring, res, cfg, lock, irqs, op, old_cfg_flag, value, count, root>>

Unlock(c) ==
  /\ gpc[c] = "unlock"
  /\ lock' = FREE
  /\ seen_rear' = req_rear
  /\ Goto(c, IF op[c] = "cfg" THEN "spin" ELSE "guest")
  /\ UNCHANGED <<req_front, req_rear, req_list, res, cfg, irqs, wake, op, old_cfg_flag, value,
                 count, root>>

\* A load of cfg_values performed early.
LoadValue(c) ==
  /\ "load_load" \in Relaxed
  /\ gpc[c] = "spin"
  /\ value' = [value EXCEPT ![c] = cfg_values[c]]
  /\ Goto(c, "spin_flag")
  /\ UNCHANGED <<ring, res, cfg, lock, irqs, wake, op, old_cfg_flag, count, root>>

\* Defect: the wait ends when the backend has answered any CPU.
Answered_Any(c) ==
  /\ gpc[c] \in {"spin", "spin_flag"}
  /\ \E d \in CPU : cfg_flags[d] # old_cfg_flag[d]
  /\ value' = [value EXCEPT ![c] = IF gpc[c] = "spin" THEN cfg_values[c] ELSE @]
  /\ Goto(c, "done")
  /\ UNCHANGED <<ring, res, cfg, lock, irqs, wake, op, old_cfg_flag, count, root>>

Answered(c) ==
  /\ gpc[c] \in {"spin", "spin_flag"}
  /\ cfg_flags[c] # old_cfg_flag[c]
  /\ value' = [value EXCEPT ![c] = IF gpc[c] = "spin" THEN cfg_values[c] ELSE @]
  /\ Goto(c, "done")
  /\ UNCHANGED <<ring, res, cfg, lock, irqs, wake, op, old_cfg_flag, count, root>>

Return(c) ==
  /\ gpc[c] = "done"
  /\ Goto(c, "guest")
  /\ UNCHANGED <<ring, res, cfg, lock, irqs, wake, op, old_cfg_flag, value, count, root>>
-----------------------------------------------------------------------------
(* The backend, as the bridge is made for it: it takes requests, answers    *)
(* configuration accesses, and announces need_wakeup before it looks once   *)
(* more and sleeps.                                                         *)

BackendTake ==
  /\ rpc \in {"poll", "recheck"} /\ req_front # seen_rear
  /\ need_wakeup' = FALSE
  /\ LET r == req_list[req_front] IN
       \/ /\ r[2] = "cfg"
          /\ cfg_values' = [cfg_values EXCEPT ![r[1]] = r[3]]
          /\ cfg_flags' = [cfg_flags EXCEPT ![r[1]] = @ + 1]
          /\ UNCHANGED res
       \/ /\ r[2] = "notify" /\ Len(res) < MAX_REQ - 1
          /\ \E i \in Irq : res' = Append(res, <<r[1], i>>)
          /\ UNCHANGED <<cfg_flags, cfg_values>>
  /\ req_front' = next_slot(req_front)
  /\ rpc' = "poll"
  /\ UNCHANGED <<req_rear, req_list, seen_rear, lock, irqs, wake, guest, target, shm>>

BackendIdle ==
  /\ rpc = "poll" /\ req_front = seen_rear /\ res = <<>>
  /\ need_wakeup' = TRUE
  /\ rpc' = "recheck"
  /\ UNCHANGED <<ring, res, cfg_flags, cfg_values, lock, irqs, wake, guest, target, shm>>

BackendSleep ==
  /\ rpc = "recheck" /\ req_front = seen_rear
  /\ rpc' = "sleep"
  /\ UNCHANGED <<ring, res, cfg, lock, irqs, wake, guest, target, shm>>

BackendWake ==
  /\ rpc = "sleep" /\ wake
  /\ wake' = FALSE
  /\ rpc' = "poll"
  /\ UNCHANGED <<ring, res, cfg, lock, irqs, guest, target, shm>>

BackendHypercall ==
  /\ rpc = "poll" /\ res # <<>>
  /\ rpc' = "inject"
  /\ UNCHANGED <<ring, res, cfg, lock, irqs, wake, guest, target, shm>>
-----------------------------------------------------------------------------
(* hv_virtio_inject_irq: VIRTIO_BRIDGE and VIRTIO_IRQS are held throughout. *)

InjectLock ==
  /\ rpc = "inject" /\ lock = FREE
  /\ lock' = ROOT
  /\ rpc' = "results"
  /\ UNCHANGED <<ring, res, cfg, irqs, wake, guest, target, shm>>

\* A result of a zone that is gone.
InjectSkip ==
  /\ rpc = "results" /\ res # <<>>
  /\ res' = Tail(res)
  /\ UNCHANGED <<ring, cfg, lock, irqs, wake, guest, root>>

ListedFor(t) == {irq_list[t][k] : k \in 1 .. Len(irq_list[t])}

\* An interrupt already listed needs no event; the assertion leaves the last
\* place of a list unused.
InjectIrq ==
  /\ rpc = "results" /\ res # <<>>
  /\ LET t == Head(res)[1]
         i == Head(res)[2] IN
       \/ /\ i \in ListedFor(t)
          /\ res' = Tail(res)
          /\ UNCHANGED <<rpc, target, irq_list, events>>
       \/ /\ i \notin ListedFor(t) /\ Len(irq_list[t]) + 1 < MAX_DEVS
          /\ irq_list' = [irq_list EXCEPT ![t] = Append(@, i)]
          /\ events' = [events EXCEPT ![t] = add_event(@, IPI_EVENT_VIRTIO_INJECT_IRQ)]
          /\ target' = t
          /\ rpc' = "inject_sgi"
          /\ UNCHANGED res
       \/ /\ i \notin ListedFor(t) /\ Len(irq_list[t]) + 1 >= MAX_DEVS
          /\ rpc' = "panic"
          /\ UNCHANGED <<res, target, irq_list, events>>
  /\ UNCHANGED <<ring, cfg, lock, sgi, virq, wake, guest, shm>>

InjectSgi ==
  /\ rpc = "inject_sgi"
  /\ sgi' = [sgi EXCEPT ![target] = TRUE]
  /\ res' = Tail(res)
  /\ rpc' = "results"
  /\ UNCHANGED <<ring, cfg, lock, irq_list, events, virq, wake, guest, target, shm>>

InjectDone ==
  /\ rpc = "results" /\ res = <<>>
  /\ lock' = FREE
  /\ rpc' = "poll"
  /\ UNCHANGED <<ring, res, cfg, irqs, wake, guest, target, shm>>

\* hv_shm_signal, another hypercall of the root zone to the same CPU.
ShmSignal(t) ==
  /\ rpc = "poll" /\ shm < MaxShm
  /\ shm' = shm + 1
  /\ events' = [events EXCEPT ![t] = add_event(@, IPI_EVENT_SHM_SIGNAL)]
  /\ target' = t
  /\ rpc' = "shm_sgi"
  /\ UNCHANGED <<ring, res, cfg, lock, irq_list, sgi, virq, wake, guest>>

ShmSgi ==
  /\ rpc = "shm_sgi"
  /\ sgi' = [sgi EXCEPT ![target] = TRUE]
  /\ rpc' = "poll"
  /\ UNCHANGED <<ring, res, cfg, lock, irq_list, events, virq, wake, guest, target, shm>>
-----------------------------------------------------------------------------
(* The guest CPU takes the SGI: gicv3_handle_irq_el1 and check_events (see  *)
(* Events; acknowledging and fetching are one step here).                   *)
TakeIrq(c) ==
  /\ gpc[c] = "guest" /\ sgi[c]
  /\ sgi' = [sgi EXCEPT ![c] = FALSE]
  /\ events' = [events EXCEPT ![c] = fetch_event(@)]
  /\ Goto(c, IF events[c] # <<>> /\ Head(events[c]) = IPI_EVENT_VIRTIO_INJECT_IRQ
               THEN "virq" ELSE "guest")
  /\ UNCHANGED <<ring, res, cfg, lock, irq_list, virq, wake, op, old_cfg_flag, value, count, root>>

\* Defect: the list is emptied before it is read.
handle_virtio_irq_Early(c) ==
  /\ gpc[c] = "virq" /\ rpc \notin {"results", "inject_sgi", "panic"}
  /\ irq_list' = [irq_list EXCEPT ![c] = <<>>]
  /\ virq' = [virq EXCEPT ![c] = {irq_list'[c][k] : k \in 1 .. Len(irq_list'[c])}]
  /\ Goto(c, "guest")
  /\ UNCHANGED <<ring, res, cfg, lock, events, sgi, wake, op, old_cfg_flag, value, count, root>>

handle_virtio_irq(c) ==
  /\ gpc[c] = "virq" /\ rpc \notin {"results", "inject_sgi", "panic"}
  /\ virq' = [virq EXCEPT ![c] = @ \cup ListedFor(c)]
  /\ irq_list' = [irq_list EXCEPT ![c] = <<>>]
  /\ Goto(c, "guest")
  /\ UNCHANGED <<ring, res, cfg, lock, events, sgi, wake, op, old_cfg_flag, value, count, root>>

GuestServes(c) ==
  /\ gpc[c] = "guest" /\ virq[c] # {}
  /\ virq' = [virq EXCEPT ![c] = {}]
  /\ UNCHANGED <<ring, res, cfg, lock, irq_list, events, sgi, wake, guest, root>>

Handler(c) == \/ PushReq(c) \/ NeedWakeup(c) \/ Unlock(c)
              \/ LoadValue(c) \/ Answered(c) \/ Return(c)
              \/ handle_virtio_irq(c)

Backend == \/ BackendTake \/ BackendIdle \/ BackendSleep \/ BackendWake \/ BackendHypercall
           \/ InjectLock \/ InjectIrq \/ InjectSgi \/ InjectDone \/ ShmSgi

Next == \/ \E c \in CPU : \/ Handler(c) \/ TakeIrq(c) \/ GuestServes(c)
                          \/ \E o \in Access : AccessDevice(c, o)
                          \/ ShmSignal(c)
        \/ Backend \/ InjectSkip \/ StoreSeen

Spec == Init /\ [][Next]_vars

(* EL2 code runs on (a contended lock or a full ring is seen free again and *)
(* again), the backend keeps running, an interrupt is taken although the    *)
(* guest keeps trapping.                                                    *)
Fairness == /\ \A c \in CPU : SF_vars(Handler(c)) /\ SF_vars(TakeIrq(c))
            /\ WF_vars(Backend)

FairSpec == Spec /\ Fairness
-----------------------------------------------------------------------------
\* The slots from the first request to the last.
Window == {s \in Slot : (s + MAX_REQ - req_front) % MAX_REQ
                          < (req_rear + MAX_REQ - req_front) % MAX_REQ}

(* No request is overwritten or skipped when the ring wraps around or is    *)
(* full: while a CPU waits for its answer its request is in the ring, once. *)
RequestHeld ==
  \A c \in CPU : (gpc[c] \in {"spin", "spin_flag"} /\ cfg_flags[c] = old_cfg_flag[c]) =>
    Cardinality({s \in Window : req_list[s] = <<c, "cfg", count[c]>>}) = 1

(* "ensure cfg value is right": the value a configuration read returns is   *)
(* the answer to this request, not to an earlier one.                       *)
OwnAnswer == \A c \in CPU : gpc[c] = "done" => value[c] = count[c]

(* A device access returns to its guest: the request finds room in the ring *)
(* and the lock, and the backend is awake, or woken, to answer it.          *)
AccessReturns == \A c \in CPU : gpc[c] = "push" ~> gpc[c] = "guest"

(* An interrupt listed in VIRTIO_IRQS is injected into its guest: "root     *)
(* zone will send sgi to non root, and non root will call this function"    *)
(* (handle_virtio_irq).                                                     *)
VirtioIrqInjected ==
  \A c \in CPU : \A i \in Irq : i \in ListedFor(c) ~> i \in virq[c]

(* "The max virtio-dev number for vm is 4": MAX_DEVS devices can each have  *)
(* an interrupt listed for a CPU.                                           *)
RoomForEveryDevice == rpc # "panic"
=============================================================================

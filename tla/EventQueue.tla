----------------------------- MODULE EventQueue -----------------------------
(***************************************************************************)
(* The inter-processor events of hvisor (src/src/event.rs): their ids and   *)
(* the two operations on the queue a CPU keeps of them.  A queue is the     *)
(* VecDeque of one CPU; each operation runs under that queue's Mutex, so it *)
(* is one step.                                                             *)
(***************************************************************************)
EXTENDS Naturals, Sequences

IPI_EVENT_WAKEUP               == 0
IPI_EVENT_SHUTDOWN             == 1
IPI_EVENT_VIRTIO_INJECT_IRQ    == 2
IPI_EVENT_WAKEUP_VIRTIO_DEVICE == 3
IPI_EVENT_CLEAR_INJECT_IRQ     == 4
IPI_EVENT_UPDATE_HART_LINE     == 5
IPI_EVENT_SEND_IPI             == 6
IPI_EVENT_SHM_SIGNAL           == 7

EventId == 0 .. 7

\* Defect: a SHUTDOWN is pushed behind what is waiting.
add_event_NoClear(q, e) == Append(q, e)

(* EventManager::add_event: a SHUTDOWN empties the queue before it is       *)
(* pushed, every other event is pushed behind what is waiting.              *)
add_event(q, e) == Append(IF e = IPI_EVENT_SHUTDOWN THEN <<>> ELSE q, e)

(* EventManager::fetch_event: pop_front; an empty queue yields no event.    *)
fetch_event(q) == IF q = <<>> THEN <<>> ELSE Tail(q)
=============================================================================

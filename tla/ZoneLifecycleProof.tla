------------------------- MODULE ZoneLifecycleProof -------------------------
(***************************************************************************)
(* Proofs about ZoneLifecycle, for any number of CPUs and zones and any     *)
(* configurations of the zones.  The first two theorems hold whatever the   *)
(* guests and the root zone do; the others name what they assume of them.   *)
(***************************************************************************)
EXTENDS ZoneLifecycle, FiniteSetTheorems, SequenceTheorems, WellFoundedInduction, TLAPS

(* first_cpu is the least CPU of a set that has one.                        *)
LEMMA FirstCpuIn ==
  ASSUME NEW S \in SUBSET Nat, S # {}
  PROVE  first_cpu(S) \in S /\ \A d \in S : first_cpu(S) <= d
<1> DEFINE R == OpToRel(<, Nat)
<1>1. R = {ss \in Nat \X Nat : ss[1] < ss[2]}
  BY Zenon DEF OpToRel
<1>2. IsWellFoundedOn(R, Nat)
  BY NatLessThanWellFounded, Zenon
<1> HIDE DEF R
<1>3. PICK x \in S : \A y \in S : ~(<<y, x>> \in R)
  BY <1>2, WFMin, Zenon
<1>4. ASSUME NEW y \in S
      PROVE  x <= y
  <2>1. <<y, x>> \in Nat \X Nat /\ <<y, x>>[1] = y /\ <<y, x>>[2] = x
    OBVIOUS
  <2>2. ~(<<y, x>>[1] < <<y, x>>[2])
    BY <1>1, <1>3, <2>1, Zenon
  <2>3. ~(y < x)
    BY <2>1, <2>2, Zenon
  <2> QED
    BY <2>3
<1>5. x \in S /\ \A d \in S : x <= d
  BY <1>4
<1> QED
  BY <1>5, Zenon DEF first_cpu

(* find_zone finds nothing only if no zone of the list has the id, and what *)
(* it finds is listed under the id.                                         *)
LEMMA FindZone ==
  ASSUME NEW z
  PROVE  /\ find_zone(z) = {} <=> Places(z) = {}
         /\ find_zone(z) = {} => \A k \in 1 .. Len(list) : id_of(list[k]) # z
         /\ Places(z) # {} => first_cpu(Places(z)) \in Places(z)
         /\ \A o \in find_zone(z) : o \in Listed /\ id_of(o) = z
<1>1. Places(z) \in SUBSET Nat
  BY DEF Places
<1>2. Places(z) # {} => first_cpu(Places(z)) \in Places(z)
  BY <1>1, FirstCpuIn
<1>3. find_zone(z) = {} <=> Places(z) = {}
  BY DEF find_zone
<1>4. ASSUME NEW o \in find_zone(z)
      PROVE  o \in Listed /\ id_of(o) = z
  <2>1. Places(z) # {} /\ o = list[first_cpu(Places(z))]
    BY <1>4 DEF find_zone
  <2> QED
    BY <1>2, <2>1 DEF Places, Listed
<1>5. Places(z) = {} => \A k \in 1 .. Len(list) : id_of(list[k]) # z
  BY DEF Places
<1> QED
  BY <1>2, <1>3, <1>4, <1>5

(* What is left of a list when remove_zone has taken out entry i.           *)
LEMMA RemoveAt ==
  ASSUME NEW S, NEW s \in Seq(S), NEW i \in 1 .. Len(s)
  PROVE  LET r == SubSeq(s, 1, i - 1) \o SubSeq(s, i + 1, Len(s)) IN
           /\ r \in Seq(S) /\ Len(r) = Len(s) - 1
           /\ \A k \in 1 .. Len(s) - 1 : r[k] = IF k < i THEN s[k] ELSE s[k + 1]
<1> DEFINE a == SubSeq(s, 1, i - 1)
           b == SubSeq(s, i + 1, Len(s))
<1>1. a \in Seq(S) /\ Len(a) = i - 1 /\ \A k \in 1 .. i - 1 : a[k] = s[k]
  OBVIOUS
<1>2. b \in Seq(S) /\ Len(b) = Len(s) - i /\ \A k \in 1 .. Len(s) - i : b[k] = s[k + i]
  OBVIOUS
<1> HIDE DEF a, b
<1>3. PICK r : r = a \o b
  OBVIOUS
<1>4. /\ r \in Seq(S) /\ Len(r) = Len(a) + Len(b)
      /\ \A k \in 1 .. Len(a) + Len(b) : r[k] = IF k <= Len(a) THEN a[k] ELSE b[k - Len(a)]
  BY <1>1, <1>2, <1>3, ConcatProperties, Zenon
<1>5. Len(r) = Len(s) - 1
  BY <1>1, <1>2, <1>4
<1>6. ASSUME NEW k \in 1 .. Len(s) - 1
      PROVE  r[k] = IF k < i THEN s[k] ELSE s[k + 1]
  <2>1. CASE k < i
    <3>1. k \in 1 .. Len(a) + Len(b) /\ k <= Len(a) /\ k \in 1 .. i - 1
      BY <1>1, <1>2, <2>1
    <3>2. r[k] = a[k] /\ a[k] = s[k]
      BY <1>1, <1>4, <3>1
    <3> QED
      BY <2>1, <3>2
  <2>2. CASE k >= i
    <3>1. k \in 1 .. Len(a) + Len(b) /\ ~(k <= Len(a)) /\ k - Len(a) = k - (i - 1)
      BY <1>1, <1>2, <2>2
    <3>2. r[k] = b[k - (i - 1)] /\ k - (i - 1) \in 1 .. Len(s) - i
      BY <1>4, <2>2, <3>1
    <3>3. b[k - (i - 1)] = s[(k - (i - 1)) + i]
      BY <1>2, <3>2
    <3> QED
      BY <2>2, <3>2, <3>3
  <2> QED
    BY <2>1, <2>2
<1> QED
  BY <1>3, <1>4, <1>5, <1>6, Zenon DEF a, b
-----------------------------------------------------------------------------
(* A step of CPU c: of a handler at EL2, or a trap of its guest.            *)
Step(c) == Hypervisor(c) \/ Guest(c)

Shapes == /\ DOMAIN pc = CPU /\ DOMAIN dst = CPU /\ DOMAIN cur = CPU /\ DOMAIN todo = CPU
          /\ DOMAIN sgi = CPU /\ DOMAIN power_on = CPU
          /\ DOMAIN zone = CPU /\ DOMAIN gpm = CPU /\ DOMAIN entry = CPU

(* Which operation writes what: everything else leaves it alone, and no     *)
(* step touches the locals of a handler that runs on another CPU.           *)
Writes(c) ==
  /\ \A k \in CPU \ {c} : pc'[k] = pc[k] /\ dst'[k] = dst[k] /\ cur'[k] = cur[k] /\ todo'[k] = todo[k]
  /\ zone' = zone \/ ZsAssign(c) \/ SoSend(c) \/ SoLeave(c) \/ SdClear(c)
  /\ gpm' = gpm \/ RunActivate(c) \/ Park(c)
  /\ power_on' = power_on \/ RunOn(c) \/ IdleOff(c) \/ \E t \in CPU : CpuOn(c, t)
  /\ list' = list \/ ZsAdd(c) \/ SoRemove(c) \/ SdRemove(c)
  /\ ident' = ident \/ \E z \in ZoneId : ZoneStart(c, z)
  /\ refused' = refused \/ ZsWake(c)
  /\ gaveUp' = gaveUp \/ SoSend(c) \/ SoLeave(c)
  /\ entry' = entry \/ ZsAssign(c) \/ SdSend(c) \/ \E t \in CPU : CpuOn(c, t)
  /\ \/ events' = events
     \/ check_events(c) \/ SoSend(c) \/ ZsWake(c) \/ SdSend(c) \/ ShmSend(c)
     \/ \E t \in CPU : CpuOn(c, t)
     \/ \E z \in ZoneId : VirtioInject(c, z)

(* Every step of a CPU keeps the shapes and writes only what Writes says.   *)
LEMMA Writers ==
  ASSUME Shapes, NEW c \in CPU, Step(c)
  PROVE  Shapes' /\ Writes(c)
<1> USE DEF Shapes, Writes, Goto, evars, cvars, zvars, ivars
<1>1. CASE TakeIrq(c) \/ Acknowledge(c) \/ IrqDone(c)
  BY <1>1 DEF TakeIrq, Acknowledge, IrqDone
<1>2. CASE check_events(c)
  BY <1>2 DEF check_events
<1>3. CASE handle_virtio_irq(c)
  BY <1>3 DEF handle_virtio_irq
<1>4. CASE RunClone(c) \/ ZoneError(c) \/ Mmio(c) \/ SystemOff(c)
  BY <1>4 DEF RunClone, ZoneError, Mmio, SystemOff, CloneZone
<1>5. CASE RunActivate(c) \/ RunOn(c) \/ IdleOff(c) \/ Park(c)
  BY <1>5 DEF RunActivate, RunOn, IdleOff, Park, DropZone
<1>6. CASE OnSgi(c) \/ SoSgi(c) \/ ZsSgi(c) \/ ViSgi(c) \/ ShmSgi(c)
  BY <1>6 DEF OnSgi, SoSgi, ZsSgi, ViSgi, ShmSgi, arch_send_event, Forget
<1>7. CASE SdSgi(c)
  BY <1>7 DEF SdSgi, arch_send_event, Forget, Visited
<1>8. CASE MmioRead(c) \/ ZoneErrorRoot(c) \/ ZoneErrorWrite(c)
  BY <1>8 DEF MmioRead, ZoneErrorRoot, ZoneErrorWrite, DropZone
<1>9. CASE SoRead(c) \/ SoSend(c) \/ SoLeave(c)
  BY <1>9, SMTT(30) DEF SoRead, SoSend, SoLeave, Post
<1>10. CASE SoRemove(c) \/ SdRemove(c)
  BY <1>10 DEF SoRemove, SdRemove, remove_zone, DropZone
<1>11. CASE ZsAssign(c) \/ ZsWake(c) \/ ZsAdd(c)
  BY <1>11 DEF ZsAssign, ZsWake, ZsAdd, Post, Forget, DropZone
<1>12. CASE SdWrite(c) \/ SdSend(c) \/ SdDrop(c)
  BY <1>12 DEF SdWrite, SdSend, SdDrop, Post
<1>13. CASE SdWait(c) \/ SdClear(c)
  BY <1>13 DEF SdWait, SdClear, Visited
<1>14. CASE ShmSend(c)
  BY <1>14 DEF ShmSend, Post
<1>15. ASSUME NEW t \in CPU, CpuOn(c, t)
       PROVE  Shapes' /\ Writes(c)
  BY <1>15 DEF CpuOn, Post
<1>16. ASSUME NEW z \in ZoneId, ZoneStart(c, z) \/ ShmSignal(c, z)
       PROVE  Shapes' /\ Writes(c)
  BY <1>16 DEF ZoneStart, ShmSignal
<1>17. ASSUME NEW z \in ZoneId, ZoneShutdown(c, z)
       PROVE  Shapes' /\ Writes(c)
  BY <1>17 DEF ZoneShutdown
<1>18. ASSUME NEW z \in ZoneId, VirtioInject(c, z)
       PROVE  Shapes' /\ Writes(c)
  BY <1>18 DEF VirtioInject, Post
<1> HIDE DEF Shapes, Writes
<1> QED
  BY <1>1, <1>2, <1>3, <1>4, <1>5, <1>6, <1>7, <1>8, <1>9, <1>10, <1>11, <1>12, <1>13,
     <1>14, <1>15, <1>16, <1>17, <1>18, Zenon DEF Step, Hypervisor, Guest
-----------------------------------------------------------------------------
(* How a step of CPU c treats the queues and the SGIs.                      *)
Idle(c) == pc[c] \notin Sending \cup {"ack"}

Quiet(c) == events' = events /\ sgi' = sgi /\ Idle(c)

Posts(c) == /\ \E e \in EventId : events' = [events EXCEPT ![dst'[c]] = add_event(@, e)]
            /\ sgi' = sgi /\ Idle(c) /\ pc'[c] \in Sending

Signals(c) == events' = events /\ sgi' = [sgi EXCEPT ![dst[c]] = TRUE] /\ pc[c] \in Sending

Acks(c) == events' = events /\ sgi' = [sgi EXCEPT ![c] = FALSE] /\ pc[c] = "irq" /\ pc'[c] = "ack"

Fetches(c) == events' = [events EXCEPT ![c] = fetch_event(@)] /\ sgi' = sgi /\ pc[c] = "ack"

StepKind(c) == Quiet(c) \/ Posts(c) \/ Signals(c) \/ Acks(c) \/ Fetches(c)

(* Every step is of one of these kinds: a send_event is two steps of its    *)
(* sender, and nothing but check_events takes an event out of a queue.      *)
LEMMA StepKinds ==
  ASSUME Shapes, NEW c \in CPU, Step(c)
  PROVE  StepKind(c)
<1> USE DEF Shapes, StepKind, Idle, Sending, Goto, evars
<1>1. CASE TakeIrq(c) \/ Acknowledge(c) \/ IrqDone(c)
  BY <1>1 DEF TakeIrq, Acknowledge, IrqDone, Quiet, Acks
<1>2. CASE check_events(c)
  BY <1>2 DEF check_events, Fetches
<1>3. CASE handle_virtio_irq(c)
  BY <1>3 DEF handle_virtio_irq, Quiet
<1>4. CASE RunClone(c) \/ ZoneError(c) \/ Mmio(c) \/ SystemOff(c)
  BY <1>4 DEF RunClone, ZoneError, Mmio, SystemOff, CloneZone, MayTrap, Quiet
<1>5. CASE RunActivate(c) \/ RunOn(c) \/ IdleOff(c) \/ Park(c)
  BY <1>5 DEF RunActivate, RunOn, IdleOff, Park, Quiet
<1>6. CASE OnSgi(c) \/ SoSgi(c) \/ ZsSgi(c) \/ ViSgi(c) \/ ShmSgi(c)
  BY <1>6 DEF OnSgi, SoSgi, ZsSgi, ViSgi, ShmSgi, arch_send_event, Signals
<1>7. CASE SdSgi(c)
  BY <1>7 DEF SdSgi, arch_send_event, Signals
<1>8. CASE MmioRead(c) \/ ZoneErrorRoot(c) \/ ZoneErrorWrite(c)
  BY <1>8 DEF MmioRead, ZoneErrorRoot, ZoneErrorWrite, Quiet
<1>9. CASE SoRead(c) \/ SoLeave(c) \/ SoRemove(c) \/ SdRemove(c)
  BY <1>9 DEF SoRead, SoLeave, SoRemove, SdRemove, Quiet
<1>10. CASE SoSend(c) \/ SdSend(c)
  BY <1>10 DEF SoSend, SdSend, Post, Posts, EventId, IPI_EVENT_SHUTDOWN
<1>11. CASE ZsAssign(c) \/ ZsAdd(c) \/ SdWrite(c) \/ SdDrop(c)
  BY <1>11 DEF ZsAssign, ZsAdd, SdWrite, SdDrop, Quiet
<1>12. CASE ZsWake(c)
  BY <1>12 DEF ZsWake, Post, Posts, Quiet, EventId, IPI_EVENT_WAKEUP
<1>13. CASE SdWait(c) \/ SdClear(c)
  BY <1>13 DEF SdWait, SdClear, Quiet
<1>14. CASE ShmSend(c)
  BY <1>14 DEF ShmSend, Post, Posts, Quiet, EventId, IPI_EVENT_SHM_SIGNAL
<1>15. ASSUME NEW t \in CPU, CpuOn(c, t)
       PROVE  StepKind(c)
  BY <1>15 DEF CpuOn, MayTrap, Post, Posts, EventId, IPI_EVENT_WAKEUP
<1>16. ASSUME NEW z \in ZoneId, ZoneStart(c, z) \/ ShmSignal(c, z) \/ ZoneShutdown(c, z)
       PROVE  StepKind(c)
  BY <1>16 DEF ZoneStart, ShmSignal, ZoneShutdown, Root, Quiet
<1>17. ASSUME NEW z \in ZoneId, VirtioInject(c, z)
       PROVE  StepKind(c)
  BY <1>17 DEF VirtioInject, Root, Post, Posts, EventId, IPI_EVENT_VIRTIO_INJECT_IRQ
<1> HIDE DEF StepKind
<1> QED
  BY <1>1, <1>2, <1>3, <1>4, <1>5, <1>6, <1>7, <1>8, <1>9, <1>10, <1>11, <1>12, <1>13,
     <1>14, <1>15, <1>16, <1>17, Zenon DEF Step, Hypervisor, Guest

(* The only SHUTDOWN of a queue can be its head.                            *)
ShutdownFirst(q) == \A i \in 1 .. Len(q) : q[i] = IPI_EVENT_SHUTDOWN => i = 1

(* add_event keeps a SHUTDOWN at the head only.                              *)
LEMMA AddEvent ==
  ASSUME NEW q \in Seq(EventId), NEW e \in EventId, ShutdownFirst(q)
  PROVE  add_event(q, e) \in Seq(EventId) /\ ShutdownFirst(add_event(q, e))
<1>1. CASE e = IPI_EVENT_SHUTDOWN
  BY <1>1 DEF add_event, ShutdownFirst
<1>2. CASE e # IPI_EVENT_SHUTDOWN
  <2>1. add_event(q, e) = Append(q, e)
    BY <1>2 DEF add_event
  <2>2. /\ Append(q, e) \in Seq(EventId) /\ Len(Append(q, e)) = Len(q) + 1
        /\ Append(q, e)[Len(q) + 1] = e
        /\ \A i \in 1 .. Len(q) : Append(q, e)[i] = q[i]
    OBVIOUS
  <2> QED
    BY <1>2, <2>1, <2>2 DEF ShutdownFirst
<1> QED
  BY <1>1, <1>2

(* fetch_event leaves no SHUTDOWN in a queue that had it at the head only.  *)
LEMMA FetchEvent ==
  ASSUME NEW q \in Seq(EventId), ShutdownFirst(q)
  PROVE  /\ fetch_event(q) \in Seq(EventId)
         /\ \A i \in 1 .. Len(fetch_event(q)) : fetch_event(q)[i] # IPI_EVENT_SHUTDOWN
<1>1. CASE q = <<>>
  BY <1>1 DEF fetch_event
<1>2. CASE q # <<>>
  <2>1. fetch_event(q) = Tail(q)
    BY <1>2 DEF fetch_event
  <2>2. /\ Tail(q) \in Seq(EventId) /\ Len(Tail(q)) = Len(q) - 1
        /\ \A i \in 1 .. Len(Tail(q)) : Tail(q)[i] = q[i + 1]
    BY <1>2
  <2> QED
    BY <2>1, <2>2 DEF ShutdownFirst
<1> QED
  BY <1>1, <1>2

(* What is left in a queue was there before.                                *)
LEMMA FetchEntries ==
  ASSUME NEW q \in Seq(EventId), NEW i \in 1 .. Len(fetch_event(q))
  PROVE  \E j \in 1 .. Len(q) : fetch_event(q)[i] = q[j]
<1>1. q # <<>> /\ fetch_event(q) = Tail(q)
  BY DEF fetch_event
<1>2. Len(Tail(q)) = Len(q) - 1 /\ i \in 1 .. Len(q) - 1 /\ Tail(q)[i] = q[i + 1]
  BY <1>1
<1>3. i + 1 \in 1 .. Len(q)
  BY <1>2
<1> QED
  BY <1>1, <1>2, <1>3

(* What is found in a queue was there before, or is what was added.         *)
LEMMA AddEntries ==
  ASSUME NEW q \in Seq(EventId), NEW e \in EventId, NEW i \in 1 .. Len(add_event(q, e))
  PROVE  add_event(q, e)[i] = e \/ \E j \in 1 .. Len(q) : add_event(q, e)[i] = q[j]
<1>1. CASE e = IPI_EVENT_SHUTDOWN
  <2>1. add_event(q, e) = <<e>>
    BY <1>1 DEF add_event
  <2> QED
    BY <2>1
<1>2. CASE e # IPI_EVENT_SHUTDOWN
  <2>1. add_event(q, e) = Append(q, e)
    BY <1>2 DEF add_event
  <2> QED
    BY <2>1
<1> QED
  BY <1>1, <1>2

(* Inductive: check_events keeps ShutdownNeverStranded only because what it *)
(* pops is the SHUTDOWN, if the queue holds one.                            *)
QInv == /\ Shapes
        /\ events \in [CPU -> Seq(EventId)]
        /\ \A c \in CPU : ShutdownFirst(events[c])
        /\ ShutdownNeverStranded

ShutdownIn(q) == \E i \in 1 .. Len(q) : q[i] = IPI_EVENT_SHUTDOWN
Awaited(c) == \/ sgi[c] \/ pc[c] = "ack"
              \/ \E s \in CPU : pc[s] \in Sending /\ dst[s] = c

(* Every step of every CPU keeps QInv.                                      *)
LEMMA QInvStep == QInv /\ [Next]_vars => QInv'
<1> SUFFICES ASSUME QInv, [Next]_vars
             PROVE  QInv'
  OBVIOUS
<1>1. CASE UNCHANGED vars
  BY <1>1 DEF QInv, Shapes, ShutdownNeverStranded, ShutdownFirst, vars, evars, cvars, zvars, ivars, pvars
<1>2. ASSUME NEW c \in CPU, Step(c)
      PROVE  QInv'
  <2>1. Shapes' /\ StepKind(c)
    BY <1>2, Writers, StepKinds DEF QInv
  <2>2. \A k \in CPU \ {c} : pc'[k] = pc[k] /\ dst'[k] = dst[k]
    BY <1>2, Writers DEF QInv, Writes
  <2>3. \A k \in CPU : ShutdownIn(events[k]) => Awaited(k)
    BY DEF QInv, ShutdownNeverStranded, ShutdownIn, Awaited
  <2>4. SUFFICES /\ events' \in [CPU -> Seq(EventId)]
                 /\ \A k \in CPU : ShutdownFirst(events'[k])
                 /\ \A k \in CPU : ShutdownIn(events'[k]) => Awaited(k)'
    BY <2>1 DEF QInv, ShutdownNeverStranded, ShutdownIn, Awaited, ShutdownFirst
  <2> USE DEF QInv, Shapes
  <2>5. CASE Quiet(c)
    BY <2>2, <2>3, <2>5 DEF Quiet, Idle, Awaited
  <2>6. CASE Posts(c)
    <3>1. PICK e \in EventId : events' = [events EXCEPT ![dst'[c]] = add_event(@, e)]
      BY <2>6 DEF Posts
    <3>2. \A k \in CPU : add_event(events[k], e) \in Seq(EventId)
                          /\ ShutdownFirst(add_event(events[k], e))
      BY AddEvent
    <3>3. \A k \in CPU : events'[k] = IF k = dst'[c] THEN add_event(events[k], e) ELSE events[k]
      BY <3>1
    <3>4. events' \in [CPU -> Seq(EventId)] /\ \A k \in CPU : ShutdownFirst(events'[k])
      BY <3>1, <3>2, <3>3
    <3>5. ASSUME NEW k \in CPU, ShutdownIn(events'[k])
          PROVE  Awaited(k)'
      BY <2>2, <2>3, <2>6, <3>3, <3>5, ZenonT(30) DEF Posts, Idle, Awaited
    <3> QED
      BY <3>4, <3>5
  <2>7. CASE Signals(c)
    BY <2>2, <2>3, <2>7 DEF Signals, Sending, Awaited
  <2>8. CASE Acks(c)
    BY <2>2, <2>3, <2>8, SMTT(30) DEF Acks, Sending, Awaited
  <2>9. CASE Fetches(c)
    <3>1. /\ fetch_event(events[c]) \in Seq(EventId)
          /\ ~ShutdownIn(fetch_event(events[c])) /\ ShutdownFirst(fetch_event(events[c]))
      BY FetchEvent DEF ShutdownIn, ShutdownFirst
    <3>2. \A k \in CPU : events'[k] = IF k = c THEN fetch_event(events[c]) ELSE events[k]
      BY <2>9 DEF Fetches
    <3>3. events' \in [CPU -> Seq(EventId)] /\ \A k \in CPU : ShutdownFirst(events'[k])
      BY <2>9, <3>1, <3>2 DEF Fetches
    <3>4. ASSUME NEW k \in CPU, ShutdownIn(events'[k])
          PROVE  Awaited(k)'
      <4>1. k # c /\ ShutdownIn(events[k])
        BY <3>1, <3>2, <3>4
      <4>2. Awaited(k)
        BY <2>3, <4>1
      <4> QED
        BY <2>2, <2>9, <4>1, <4>2 DEF Fetches, Sending, Awaited
    <3> QED
      BY <3>3, <3>4
  <2> HIDE DEF QInv, Shapes
  <2> QED
    BY <2>1, <2>5, <2>6, <2>7, <2>8, <2>9 DEF StepKind
<1> QED
  BY <1>1, <1>2 DEF Next, Step

(* Whatever the guests, the root zone and the other CPUs do, a SHUTDOWN that *)
(* hv_zone_shutdown or SYSTEM_OFF has queued (event.rs, add_event) has an   *)
(* SGI under way that will make its CPU fetch it.                           *)
THEOREM ShutdownAwaited == Spec => []ShutdownNeverStranded
<1>1. Init => QInv
  BY DEF Init, QInv, Shapes, ShutdownFirst, ShutdownNeverStranded
<1>2. QInv => ShutdownNeverStranded
  BY DEF QInv
<1> QED
  BY <1>1, <1>2, QInvStep, PTL DEF Spec
-----------------------------------------------------------------------------
(* The zone objects made so far, the root zone's apart.                     *)
Made == 1 .. Len(ident)

StopLoop == {"sd_send", "sd_sgi", "sd_wait", "sd_clear"}
StopPlaces == {"sd_write", "sd_drop", "sd_remove"} \cup StopLoop
StartPlaces == {"zs_assign", "zs_wake", "zs_sgi", "zs_add"}
OffPlaces == {"so_read", "so_loop", "so_sgi", "so_remove"}
RunPlaces == {"run", "run_read", "run_on", "idle", "park"}

(* A zone takes none of the root zone's CPUs.                               *)
Objects == /\ ident \in Seq(ZoneId) /\ Len(ident) <= MaxZones
           /\ \A o \in Made : cpu_set(o) \cap RootCpus = {}

RootFirst == list \in Seq(0 .. Len(ident)) /\ list # <<>> /\ list[1] = 0

(* What PerCpu and the stage-2 tables of a CPU can name.                    *)
Owned(k) == /\ zone[k] \in {NONE} \cup (0 .. Len(ident)) /\ (zone[k] = 0 <=> k \in RootCpus)
            /\ gpm[k] \in {PARK} \cup (0 .. Len(ident)) /\ (gpm[k] = 0 <=> k \in RootCpus)
            /\ k \in RootCpus => power_on[k]

(* The CPUs of the root zone are sent nothing but shared-memory signals.    *)
OnlySignals(k) == k \in RootCpus =>
  \A i \in 1 .. Len(events[k]) : events[k][i] = IPI_EVENT_SHM_SIGNAL

(* Where a CPU can be, and what its handler works on there.                 *)
Local(k) == /\ k \in RootCpus => pc[k] \notin RunPlaces \cup OffPlaces
            /\ k \notin RootCpus => pc[k] \notin StartPlaces \cup StopPlaces \cup {"shm_read"}
            /\ pc[k] \in {"run_read"} \cup OffPlaces \cup StartPlaces \cup StopPlaces
                 => cur[k] \in Made
            /\ pc[k] \in StopLoop => todo[k] # {} /\ todo[k] \subseteq cpu_set(cur[k])
            /\ pc[k] \in {"so_loop", "so_sgi"} => todo[k] \subseteq cpu_set(cur[k])

(* Inductive, and implies that the root zone is untouched.                  *)
RInv == /\ QInv /\ Objects /\ RootFirst
        /\ \A k \in CPU : Owned(k) /\ OnlySignals(k) /\ Local(k)

(* The CPUs of an object are CPUs, and never change: zones are only added.  *)
LEMMA CpuSets ==
  ASSUME Objects, NEW o \in Made
  PROVE  /\ cpu_set(o) \in SUBSET CPU /\ cpu_set(o) \in SUBSET Nat /\ cpu_set(o) # {}
         /\ first_cpu(cpu_set(o)) \in cpu_set(o)
         /\ id_of(o) \in ZoneId /\ id_of(o) # 0 /\ o # 0 /\ o \in Nat
<1>1. o # 0 /\ o \in Nat /\ ident[o] \in ZoneId
  BY DEF Objects, Made
<1>2. cpu_set(o) = ZoneCfg[ident[o]] /\ id_of(o) = ident[o]
  BY <1>1 DEF cpu_set, id_of
<1>3. cpu_set(o) \in SUBSET CPU /\ cpu_set(o) # {} /\ id_of(o) # 0
  BY <1>1, <1>2, ZoneAssumption DEF ZoneId
<1>4. cpu_set(o) \in SUBSET Nat
  BY <1>3, ZoneAssumption DEF CPU
<1> QED
  BY <1>1, <1>2, <1>3, <1>4, FirstCpuIn

(* zone_create is the only step that makes an object, on free CPUs.         *)
LEMMA ObjectsStep ==
  ASSUME RInv, NEW c \in CPU, Step(c)
  PROVE  /\ Objects' /\ Len(ident) <= Len(ident)'
         /\ \A o \in Made : o \in Made' /\ cpu_set(o)' = cpu_set(o) /\ id_of(o)' = id_of(o)
<1>1. CASE ident' = ident
  BY <1>1 DEF RInv, Objects, Made, cpu_set, id_of
<1>2. CASE \E z \in ZoneId : ZoneStart(c, z)
  <2>1. PICK z \in ZoneId : ZoneStart(c, z)
    BY <1>2
  <2>2. /\ ident' = Append(ident, z) /\ Len(ident) < MaxZones
        /\ \A t \in ZoneCfg[z] : zone[t] = NONE
    BY <2>1 DEF ZoneStart
  <2>3. /\ ident \in Seq(ZoneId) /\ ident' \in Seq(ZoneId) /\ Len(ident') = Len(ident) + 1
        /\ ident'[Len(ident) + 1] = z /\ \A i \in 1 .. Len(ident) : ident'[i] = ident[i]
    BY <2>2 DEF RInv, Objects
  <2>4. ZoneCfg[z] \cap RootCpus = {}
    <3>1. \A t \in RootCpus : zone[t] = 0
      BY ZoneAssumption DEF RInv, Owned
    <3>2. NONE # 0
      BY ZoneAssumption DEF NONE
    <3> QED
      BY <2>2, <3>1, <3>2
  <2>5. \A o \in Made : o # 0 /\ o \in Made'
    BY <2>3 DEF Made
  <2>6. \A o \in Made : cpu_set(o)' = cpu_set(o) /\ id_of(o)' = id_of(o)
    BY <2>3, <2>5 DEF Made, cpu_set, id_of
  <2>7. ASSUME NEW o \in Made'
        PROVE  cpu_set(o)' \cap RootCpus = {}
    <3>1. CASE o \in Made
      BY <2>6, <3>1 DEF RInv, Objects
    <3>2. CASE o = Len(ident) + 1
      BY <2>3, <2>4, <3>2 DEF cpu_set
    <3> QED
      BY <2>3, <2>7, <3>1, <3>2 DEF Made
  <2>8. Len(ident') <= MaxZones /\ Len(ident) <= Len(ident')
    BY <2>2, <2>3, ZoneAssumption
  <2> QED
    BY <2>3, <2>5, <2>6, <2>7, <2>8 DEF Objects
<1> QED
  BY <1>1, <1>2, Writers DEF RInv, QInv, Writes

(* What the assertion of remove_zone leads to for entry i.                  *)
Asserts(c, i, next) == pc' = [pc EXCEPT ![c] = IF strong_count(list[i]) = 1 THEN next ELSE "assert"]

(* remove_zone takes out an entry behind the root zone's, or nothing.       *)
LEMMA RemoveZone ==
  ASSUME NEW n \in Nat, list \in Seq(0 .. n), list # <<>>, list[1] = 0, NEW c, NEW next,
         NEW z, z # 0, remove_zone(c, z, next)
  PROVE  \/ list' = list /\ find_zone(z) = {}
         \/ \E i \in 2 .. Len(list) :
              /\ id_of(list[i]) = z /\ Asserts(c, i, next)
              /\ list' \in Seq(0 .. n) /\ Len(list') = Len(list) - 1
              /\ \A k \in 1 .. Len(list) - 1 : list'[k] = IF k < i THEN list[k] ELSE list[k + 1]
<1>1. CASE Places(z) = {}
  BY <1>1, FindZone DEF remove_zone
<1>2. CASE Places(z) # {}
  <2> DEFINE i == first_cpu(Places(z))
  <2>1. /\ list' = SubSeq(list, 1, i - 1) \o SubSeq(list, i + 1, Len(list))
        /\ Asserts(c, i, next)
    BY <1>2 DEF remove_zone, Goto, Asserts
  <2>2. i \in Places(z)
    BY <1>2, FindZone
  <2>3. 1 \notin Places(z)
    BY DEF id_of, Places
  <2>4. i \in 2 .. Len(list) /\ i \in 1 .. Len(list) /\ id_of(list[i]) = z
    BY <2>2, <2>3 DEF Places
  <2> HIDE DEF i
  <2> QED
    BY <2>1, <2>4, RemoveAt
<1> QED
  BY <1>1, <1>2

(* No step takes the root zone out of the list.                             *)
LEMMA RootFirstStep ==
  ASSUME RInv, NEW c \in CPU, Step(c)
  PROVE  RootFirst'
<1>1. /\ list \in Seq(0 .. Len(ident)) /\ list # <<>> /\ list[1] = 0
      /\ Len(ident) \in Nat /\ Len(ident)' \in Nat /\ Len(ident) <= Len(ident)'
  BY ObjectsStep DEF RInv, RootFirst, Objects
<1>2. CASE list' = list
  BY <1>1, <1>2 DEF RootFirst
<1>3. CASE ZsAdd(c)
  <2>1. list' = Append(list, cur[c]) /\ ident' = ident /\ cur[c] \in 0 .. Len(ident)
    BY <1>3 DEF ZsAdd, RInv, Local, StartPlaces, Made
  <2> QED
    BY <1>1, <2>1 DEF RootFirst
<1>4. CASE SoRemove(c) \/ SdRemove(c)
  <2>1. cur[c] \in Made /\ ident' = ident
    BY <1>4 DEF SoRemove, SdRemove, RInv, Local, OffPlaces, StopPlaces
  <2>2. \E next : remove_zone(c, id_of(cur[c]), next)
    BY <1>4 DEF SoRemove, SdRemove
  <2>3. id_of(cur[c]) # 0
    BY <2>1, CpuSets DEF RInv
  <2>4. \/ list' = list
        \/ \E i \in 2 .. Len(list) :
             /\ list' \in Seq(0 .. Len(ident)) /\ Len(list') = Len(list) - 1
             /\ \A k \in 1 .. Len(list) - 1 : list'[k] = IF k < i THEN list[k] ELSE list[k + 1]
    BY <1>1, <2>2, <2>3, RemoveZone
  <2> QED
    BY <1>1, <2>1, <2>4 DEF RootFirst
<1> QED
  BY <1>2, <1>3, <1>4, Writers DEF RInv, QInv, Writes

(* The CPU a loop of SYSTEM_OFF or of hv_zone_shutdown visits is one of the *)
(* zone's, and so none of the root zone's.                                  *)
LEMMA VisitsOwn ==
  ASSUME RInv, NEW c \in CPU, todo[c] # {}, pc[c] \in StopLoop \cup {"so_loop", "so_sgi"}
  PROVE  /\ cur[c] \in Made /\ first_cpu(todo[c]) \in cpu_set(cur[c])
         /\ first_cpu(todo[c]) \in CPU \ RootCpus
<1>1. cur[c] \in Made /\ todo[c] \subseteq cpu_set(cur[c])
  BY DEF RInv, Local, StopPlaces, StopLoop, OffPlaces
<1>2. cpu_set(cur[c]) \in SUBSET Nat /\ cpu_set(cur[c]) \in SUBSET CPU
      /\ cpu_set(cur[c]) \cap RootCpus = {}
  BY <1>1, CpuSets DEF RInv, Objects
<1>3. first_cpu(todo[c]) \in todo[c]
  BY <1>1, <1>2, FirstCpuIn
<1> QED
  BY <1>1, <1>2, <1>3

(* No step gives a CPU of the root zone to another zone or switches it off. *)
LEMMA OwnedStep ==
  ASSUME RInv, NEW c \in CPU, Step(c), NEW k \in CPU
  PROVE  Owned(k)'
<1> DEFINE Old == 0 .. Len(ident)
           New == 0 .. Len(ident)'
<1>1. Made \subseteq New /\ Old \subseteq New /\ 0 \notin Made
  BY ObjectsStep DEF RInv, Objects, Made
<1>2. NONE # 0 /\ PARK # 0
  BY ZoneAssumption DEF NONE, PARK
<1>3. Shapes /\ Owned(k) /\ Writes(c) /\ Local(c) /\ Objects
  BY Writers DEF RInv, QInv
<1> HIDE DEF New, Old
<1>4. zone'[k] \in {NONE} \cup New /\ (zone'[k] = 0 <=> k \in RootCpus)
  <2>1. CASE zone' = zone
    BY <1>1, <1>3, <2>1 DEF Owned, Old
  <2>2. CASE ZsAssign(c)
    <3>1. cur[c] \in Made /\ zone'[k] = IF k \in cpu_set(cur[c]) THEN cur[c] ELSE zone[k]
      BY <1>3, <2>2 DEF ZsAssign, Local, StartPlaces
    <3>2. cpu_set(cur[c]) \cap RootCpus = {}
      BY <1>3, <3>1 DEF Objects
    <3> QED
      BY <1>1, <1>3, <3>1, <3>2 DEF Owned, Old
  <2>3. CASE SoSend(c) \/ SdClear(c)
    <3>1. todo[c] # {} /\ pc[c] \in StopLoop \cup {"so_loop", "so_sgi"}
          /\ zone' = [zone EXCEPT ![first_cpu(todo[c])] = NONE]
      BY <1>3, <2>3 DEF SoSend, SdClear, Local, StopLoop
    <3>2. first_cpu(todo[c]) \in CPU \ RootCpus
      BY <3>1, VisitsOwn
    <3> QED
      BY <1>1, <1>2, <1>3, <3>1, <3>2 DEF Owned, Old, Shapes
  <2>4. CASE SoLeave(c)
    <3>1. c \notin RootCpus /\ zone' = [zone EXCEPT ![c] = NONE]
      BY <1>3, <2>4 DEF SoLeave, Local, OffPlaces
    <3> QED
      BY <1>1, <1>2, <1>3, <3>1 DEF Owned, Old, Shapes
  <2> QED
    BY <1>3, <2>1, <2>2, <2>3, <2>4 DEF Writes
<1>5. gpm'[k] \in {PARK} \cup New /\ (gpm'[k] = 0 <=> k \in RootCpus)
  <2>1. CASE gpm' = gpm
    BY <1>1, <1>3, <2>1 DEF Owned, Old
  <2>2. CASE RunActivate(c)
    <3>1. cur[c] \in Made /\ c \notin RootCpus /\ gpm' = [gpm EXCEPT ![c] = cur[c]]
      BY <1>3, <2>2 DEF RunActivate, Local, RunPlaces
    <3> QED
      BY <1>1, <1>3, <3>1 DEF Owned, Old, Shapes
  <2>3. CASE Park(c)
    <3>1. c \notin RootCpus /\ gpm' = [gpm EXCEPT ![c] = PARK]
      BY <1>3, <2>3 DEF Park, Local, RunPlaces
    <3> QED
      BY <1>1, <1>2, <1>3, <3>1 DEF Owned, Old, Shapes
  <2> QED
    BY <1>3, <2>1, <2>2, <2>3 DEF Writes
<1>6. k \in RootCpus => power_on'[k]
  <2>1. CASE power_on' = power_on
    BY <1>3, <2>1 DEF Owned
  <2>2. CASE RunOn(c)
    BY <1>3, <2>2 DEF RunOn, Owned, Shapes
  <2>3. CASE IdleOff(c)
    BY <1>3, <2>3 DEF IdleOff, Owned, Shapes, Local, RunPlaces
  <2>4. CASE \E t \in CPU : CpuOn(c, t)
    BY <1>3, <2>4 DEF CpuOn, Owned, Shapes
  <2> QED
    BY <1>3, <2>1, <2>2, <2>3, <2>4 DEF Writes
<1> QED
  BY <1>4, <1>5, <1>6 DEF Owned, New

(* No event but a shared-memory signal is posted to a CPU of the root zone. *)
LEMMA OnlySignalsStep ==
  ASSUME RInv, NEW c \in CPU, Step(c), NEW k \in CPU
  PROVE  OnlySignals(k)'
<1>1. /\ events \in [CPU -> Seq(EventId)] /\ OnlySignals(k) /\ Writes(c) /\ Local(c) /\ Owned(c)
      /\ Objects /\ RootFirst
  BY Writers DEF RInv, QInv
<1> SUFFICES ASSUME k \in RootCpus
             PROVE  \A i \in 1 .. Len(events'[k]) : events'[k][i] = IPI_EVENT_SHM_SIGNAL
  BY DEF OnlySignals
<1>2. \A i \in 1 .. Len(events[k]) : events[k][i] = IPI_EVENT_SHM_SIGNAL
  BY <1>1 DEF OnlySignals
<1>3. CASE events'[k] = events[k]
  BY <1>2, <1>3
<1>4. CASE check_events(c)
  <2>1. events'[k] = events[k] \/ events'[k] = fetch_event(events[k])
    BY <1>1, <1>4 DEF check_events
  <2>2. CASE events'[k] = fetch_event(events[k])
    <3>1. events[k] \in Seq(EventId)
      BY <1>1
    <3> QED
      BY <1>2, <2>2, <3>1, FetchEntries
  <2> QED
    BY <1>3, <2>1, <2>2
<1>5. ASSUME NEW t, NEW e, t \notin RootCpus, Post(c, t, e)
      PROVE  events'[k] = events[k]
  BY <1>1, <1>5 DEF Post
<1>6. CASE SoSend(c) \/ SdSend(c)
  <2>1. todo[c] # {} /\ pc[c] \in StopLoop \cup {"so_loop", "so_sgi"}
        /\ Post(c, first_cpu(todo[c]), IPI_EVENT_SHUTDOWN)
    BY <1>1, <1>6 DEF SoSend, SdSend, Local, StopLoop
  <2>2. first_cpu(todo[c]) \notin RootCpus
    BY <2>1, VisitsOwn
  <2> QED
    BY <1>3, <1>5, <2>1, <2>2
<1>7. CASE ZsWake(c)
  <2>1. cur[c] \in Made
    BY <1>1, <1>7 DEF ZsWake, Local, StartPlaces
  <2>2. first_cpu(cpu_set(cur[c])) \notin RootCpus
    BY <1>1, <2>1, CpuSets DEF Objects
  <2> QED
    BY <1>3, <1>5, <1>7, <2>2 DEF ZsWake
<1>8. CASE \E t \in CPU : CpuOn(c, t)
  <2>1. PICK t \in CPU : CpuOn(c, t)
    BY <1>8
  <2>2. gpm[c] \in Made /\ t \in cpu_set(gpm[c])
    BY <1>1, <2>1 DEF CpuOn, MayTrap, Owned, Made, Objects
  <2> QED
    BY <1>1, <1>3, <1>5, <2>1, <2>2 DEF CpuOn, Objects
<1>9. CASE \E z \in ZoneId : VirtioInject(c, z)
  <2>1. PICK z \in ZoneId : VirtioInject(c, z)
    BY <1>9
  <2>2. PICK o \in find_zone(z) : Post(c, first_cpu(cpu_set(o)), IPI_EVENT_VIRTIO_INJECT_IRQ)
    BY <2>1 DEF VirtioInject
  <2>3. z # 0
    BY ZoneAssumption DEF ZoneId
  <2>4. o \in Made
    BY <1>1, <2>3, FindZone DEF Listed, id_of, RootFirst, Made, Objects
  <2>5. first_cpu(cpu_set(o)) \notin RootCpus
    BY <1>1, <2>4, CpuSets DEF Objects
  <2> QED
    BY <1>3, <1>5, <2>2, <2>5
<1>10. CASE ShmSend(c)
  <2>1. events'[k] = events[k] \/ events'[k] = add_event(events[k], IPI_EVENT_SHM_SIGNAL)
    BY <1>1, <1>10 DEF ShmSend, Post
  <2>2. add_event(events[k], IPI_EVENT_SHM_SIGNAL) = Append(events[k], IPI_EVENT_SHM_SIGNAL)
    BY DEF add_event, IPI_EVENT_SHM_SIGNAL, IPI_EVENT_SHUTDOWN
  <2>3. IPI_EVENT_SHM_SIGNAL \in EventId
    BY DEF EventId, IPI_EVENT_SHM_SIGNAL
  <2>4. CASE events'[k] = Append(events[k], IPI_EVENT_SHM_SIGNAL)
    <3>1. /\ Len(events'[k]) = Len(events[k]) + 1 /\ Len(events[k]) \in Nat
          /\ events'[k][Len(events[k]) + 1] = IPI_EVENT_SHM_SIGNAL
          /\ \A i \in 1 .. Len(events[k]) : events'[k][i] = events[k][i]
      BY <1>1, <2>3, <2>4
    <3> QED
      BY <1>2, <3>1
  <2> QED
    BY <1>3, <2>1, <2>2, <2>4
<1> QED
  BY <1>1, <1>3, <1>4, <1>6, <1>7, <1>8, <1>9, <1>10 DEF Writes

(* A handler keeps what Local says of its own CPU.                          *)
LEMMA LocalOfSelf ==
  ASSUME RInv, NEW c \in CPU, Step(c)
  PROVE  Local(c)'
<1>1. Shapes /\ Objects /\ RootFirst /\ Owned(c) /\ OnlySignals(c) /\ Local(c)
      /\ events \in [CPU -> Seq(EventId)]
  BY DEF RInv, QInv
<1>2. \A o \in Made : o \in Made' /\ cpu_set(o)' = cpu_set(o)
  BY ObjectsStep
<1>3. \A o \in Made : cpu_set(o) # {} /\ o # 0
  BY <1>1, CpuSets
<1>4. ASSUME NEW z \in ZoneId, NEW o \in find_zone(z)
      PROVE  o \in Made
  <2>1. z # 0
    BY ZoneAssumption DEF ZoneId
  <2> QED
    BY <1>1, <1>4, <2>1, FindZone DEF Listed, id_of, RootFirst, Made, Objects
<1> USE DEF Shapes, Goto, RunPlaces, OffPlaces, StartPlaces, StopPlaces, StopLoop
<1>5. ASSUME pc'[c] \notin RunPlaces \cup OffPlaces \cup StartPlaces \cup StopPlaces,
             pc'[c] = "shm_read" => c \in RootCpus
      PROVE  Local(c)'
  BY <1>5 DEF Local
<1>6. CASE TakeIrq(c) \/ Acknowledge(c) \/ IrqDone(c) \/ handle_virtio_irq(c)
  BY <1>1, <1>5, <1>6 DEF TakeIrq, Acknowledge, IrqDone, handle_virtio_irq
<1>7. CASE check_events(c)
  <2>1. pc'[c] = Arm(events[c]) /\ pc'[c] \in {"irq", "run", "idle", "virq"}
    BY <1>1, <1>7 DEF check_events, Arm
  <2>2. c \in RootCpus => Arm(events[c]) = "irq"
    BY <1>1 DEF OnlySignals, Arm, IPI_EVENT_SHM_SIGNAL, IPI_EVENT_WAKEUP, IPI_EVENT_SHUTDOWN,
                IPI_EVENT_VIRTIO_INJECT_IRQ
  <2> QED
    BY <2>1, <2>2 DEF Local
<1>8. CASE RunClone(c) \/ SystemOff(c)
  <2>1. c \notin RootCpus
    BY <1>1, <1>8 DEF RunClone, SystemOff, MayTrap, Local, Owned
  <2>2. zone[c] # NONE => zone[c] \in Made
    BY <1>1, <2>1 DEF Owned, Made, Objects
  <2>3. pc'[c] = "unwrap" \/ (zone[c] # NONE /\ cur'[c] = zone[c] /\ pc'[c] \in {"run_read", "so_read"})
    BY <1>1, <1>8 DEF RunClone, SystemOff, CloneZone
  <2> QED
    BY <1>2, <2>1, <2>2, <2>3 DEF Local
<1>9. CASE ZoneError(c) \/ Mmio(c)
  BY <1>1, <1>5, <1>9 DEF ZoneError, Mmio, CloneZone
<1>10. CASE RunActivate(c) \/ RunOn(c) \/ IdleOff(c) \/ Park(c)
  BY <1>1, <1>10 DEF RunActivate, RunOn, IdleOff, Park, Local
<1>11. CASE OnSgi(c) \/ ViSgi(c) \/ ShmSgi(c) \/ ShmSend(c)
  BY <1>1, <1>5, <1>11 DEF OnSgi, ViSgi, ShmSgi, ShmSend
<1>12. CASE MmioRead(c) \/ ZoneErrorRoot(c) \/ ZoneErrorWrite(c)
  BY <1>1, <1>5, <1>12 DEF MmioRead, ZoneErrorRoot, ZoneErrorWrite
<1>13. CASE SoRead(c)
  BY <1>1, <1>2, <1>13 DEF SoRead, Local
<1>14. CASE SoSend(c) \/ SoLeave(c)
  BY <1>1, <1>2, <1>14 DEF SoSend, SoLeave, Local
<1>15. CASE SoSgi(c)
  BY <1>1, <1>2, <1>15 DEF SoSgi, Local
<1>16. CASE SoRemove(c)
  BY <1>1, <1>16 DEF SoRemove, remove_zone, Local
<1>17. CASE ZsAssign(c) \/ ZsWake(c) \/ ZsSgi(c)
  BY <1>1, <1>2, <1>17 DEF ZsAssign, ZsWake, ZsSgi, Local
<1>18. CASE ZsAdd(c)
  BY <1>1, <1>5, <1>18 DEF ZsAdd
<1>19. CASE SdWrite(c)
  BY <1>1, <1>2, <1>3, <1>19 DEF SdWrite, Local
<1>20. CASE SdSend(c)
  BY <1>1, <1>2, <1>20 DEF SdSend, Local
<1>21. ASSUME NEW t, NEW again \in StopLoop, NEW next \in StopLoop \cup {"sd_drop"},
              pc[c] \in StopLoop, Visited(c, t, again, next), cur' = cur
       PROVE  Local(c)'
  <2>1. /\ cur'[c] = cur[c] /\ cur[c] \in Made /\ c \in RootCpus
        /\ todo[c] # {} /\ todo[c] \subseteq cpu_set(cur[c])
    BY <1>1, <1>21 DEF Local
  <2>2. CASE todo[c] = {t}
    BY <1>1, <1>2, <1>3, <1>21, <2>1, <2>2 DEF Visited, Local
  <2>3. CASE todo[c] # {t}
    BY <1>1, <1>2, <1>21, <2>1, <2>3 DEF Visited, Local
  <2> QED
    BY <2>2, <2>3
<1>22. CASE SdSgi(c)
  BY <1>21, <1>22 DEF SdSgi
<1>23. CASE SdWait(c)
  <2>1. CASE \E t : Visited(c, t, "sd_wait", "sd_clear")
    BY <1>21, <1>23, <2>1 DEF SdWait
  <2>2. CASE todo' = [todo EXCEPT ![c] = cpu_set(cur[c])] /\ pc' = pc
    BY <1>1, <1>2, <1>3, <1>23, <2>2 DEF SdWait, Local
  <2> QED
    BY <1>23, <2>1, <2>2 DEF SdWait
<1>24. CASE SdClear(c)
  BY <1>21, <1>24 DEF SdClear
<1>25. CASE SdDrop(c)
  BY <1>1, <1>2, <1>25 DEF SdDrop, Local
<1>26. CASE SdRemove(c)
  BY <1>1, <1>5, <1>26 DEF SdRemove, remove_zone
<1>27. ASSUME NEW t \in CPU, CpuOn(c, t)
       PROVE  Local(c)'
  BY <1>1, <1>5, <1>27 DEF CpuOn
<1>28. ASSUME NEW z \in ZoneId, ZoneStart(c, z)
       PROVE  Local(c)'
  <2>1. /\ pc'[c] = "zs_assign" /\ c \in RootCpus /\ cur'[c] = Len(ident) + 1
        /\ ident' = Append(ident, z)
    BY <1>1, <1>28 DEF ZoneStart, Root
  <2>2. Len(ident') = Len(ident) + 1 /\ Len(ident) \in Nat
    BY <1>1, <2>1 DEF Objects
  <2> QED
    BY <2>1, <2>2 DEF Local, Made
<1>29. ASSUME NEW z \in ZoneId, ZoneShutdown(c, z)
       PROVE  Local(c)'
  <2>1. PICK o \in find_zone(z) : cur' = [cur EXCEPT ![c] = o]
    BY <1>29 DEF ZoneShutdown
  <2> QED
    BY <1>1, <1>2, <1>4, <1>29, <2>1 DEF ZoneShutdown, Root, Local
<1>30. ASSUME NEW z \in ZoneId, VirtioInject(c, z) \/ ShmSignal(c, z)
       PROVE  Local(c)'
  BY <1>1, <1>5, <1>30 DEF VirtioInject, ShmSignal, Root
<1> QED
  BY <1>6, <1>7, <1>8, <1>9, <1>10, <1>11, <1>12, <1>13, <1>14, <1>15, <1>16, <1>17, <1>18, <1>19,
     <1>20, <1>22, <1>23, <1>24, <1>25, <1>26, <1>27, <1>28, <1>29, <1>30, Zenon
  DEF Step, Hypervisor, Guest

(* All of RInv is kept: what a handler on another CPU holds stays valid,    *)
(* because objects are only added.                                          *)
LEMMA RInvStep == RInv /\ [Next]_vars => RInv'
<1> SUFFICES ASSUME RInv, [Next]_vars
             PROVE  RInv'
  OBVIOUS
<1>1. QInv'
  BY QInvStep DEF RInv
<1>2. CASE UNCHANGED vars
  BY <1>1, <1>2 DEF RInv, Objects, RootFirst, Owned, OnlySignals, Local, Made, cpu_set,
                    vars, evars, cvars, zvars, ivars, pvars
<1>3. ASSUME NEW c \in CPU, Step(c)
      PROVE  RInv'
  <2>1. Objects' /\ RootFirst'
    BY <1>3, ObjectsStep, RootFirstStep
  <2>2. ASSUME NEW k \in CPU
        PROVE  Owned(k)' /\ OnlySignals(k)'
    BY <1>3, OwnedStep, OnlySignalsStep
  <2>3. ASSUME NEW k \in CPU
        PROVE  Local(k)'
    <3>1. CASE k = c
      BY <1>3, <3>1, LocalOfSelf
    <3>2. CASE k # c
      <4>1. pc'[k] = pc[k] /\ cur'[k] = cur[k] /\ todo'[k] = todo[k] /\ Local(k)
        BY <1>3, <3>2, Writers DEF RInv, QInv, Writes
      <4>2. \A o \in Made : o \in Made' /\ cpu_set(o)' = cpu_set(o)
        BY <1>3, ObjectsStep
      <4> QED
        BY <4>1, <4>2 DEF Local, StopPlaces, OffPlaces
    <3> QED
      BY <3>1, <3>2
  <2> QED
    BY <1>1, <2>1, <2>2, <2>3 DEF RInv
<1> QED
  BY <1>2, <1>3 DEF Next, Step

(* The state rust_main leaves satisfies RInv.                               *)
LEMMA RInvInit == Init => RInv
<1> SUFFICES ASSUME Init
             PROVE  RInv
  OBVIOUS
<1>1. QInv
  BY DEF Init, QInv, Shapes, ShutdownFirst, ShutdownNeverStranded
<1>2. ident = <<>> /\ Made = {}
  BY DEF Init, Made
<1>3. Objects /\ RootFirst
  BY <1>2, ZoneAssumption DEF Init, Objects, RootFirst
<1>4. NONE # 0 /\ PARK # 0
  BY ZoneAssumption DEF NONE, PARK
<1>5. ASSUME NEW k \in CPU
      PROVE  Owned(k) /\ OnlySignals(k) /\ Local(k)
  <2>1. /\ zone[k] = IF k \in RootCpus THEN 0 ELSE NONE
        /\ gpm[k] = IF k \in RootCpus THEN 0 ELSE PARK
        /\ k \in RootCpus => power_on[k]
        /\ events[k] = <<>> /\ pc[k] = "guest"
    BY DEF Init
  <2>2. 0 \in 0 .. Len(ident)
    BY <1>2
  <2>3. Owned(k)
    BY <1>4, <2>1, <2>2 DEF Owned
  <2> QED
    BY <2>1, <2>3 DEF OnlySignals, Local, RunPlaces, OffPlaces, StartPlaces, StopPlaces, StopLoop
<1> QED
  BY <1>1, <1>3, <1>5 DEF RInv

(* RInv says what RootUntouched asks for.                                   *)
LEMMA RInvUntouched == RInv => RootUntouched
<1> SUFFICES ASSUME RInv, NEW k \in RootCpus
             PROVE  /\ list # <<>> /\ list[1] = 0 /\ zone[k] = 0 /\ gpm[k] = 0 /\ power_on[k]
                    /\ \A i \in 1 .. Len(events[k]) : events[k][i] # IPI_EVENT_SHUTDOWN
  BY ZoneAssumption DEF RootUntouched
<1>1. Owned(k) /\ OnlySignals(k) /\ RootFirst
  BY ZoneAssumption DEF RInv
<1> QED
  BY <1>1 DEF Owned, OnlySignals, RootFirst, IPI_EVENT_SHM_SIGNAL, IPI_EVENT_SHUTDOWN

(* The root zone keeps its CPUs, their stage-2 tables and their power, stays *)
(* at the head of ZONE_LIST and is never sent a SHUTDOWN, whatever the      *)
(* configurations ask for and however the calls of its CPUs interleave.     *)
THEOREM RootNeverTouched == Spec => []RootUntouched
  BY RInvInit, RInvStep, RInvUntouched, PTL DEF Spec
-----------------------------------------------------------------------------
(* The zones a CPU can belong to: listed, being started or being stopped.   *)
Busy == StartPlaces \cup StopPlaces
InUse(o) == o \in Listed \/ \E s \in RootCpus : pc[s] \in Busy /\ cur[s] = o

(* Where a start has not yet set, or a shutdown has begun to clear, the     *)
(* zone of the CPUs of the object it works on.                              *)
Unset == {"zs_assign", "sd_clear", "sd_drop", "sd_remove"}

ListedOnce == \A i, j \in 1 .. Len(list) : i # j => id_of(list[i]) # id_of(list[j])

StartsNew == \A s \in RootCpus : pc[s] \in StartPlaces =>
               \A i \in 1 .. Len(list) : id_of(list[i]) # id_of(cur[s])

(* A CPU that no SYSTEM_OFF has taken belongs to the zone in use that has   *)
(* it, unless that zone is just being started or stopped.                   *)
Belongs == \A o \in Made : InUse(o) => \A t \in cpu_set(o) \ gaveUp :
             \/ zone[t] = o
             \/ zone[t] = NONE /\ \E s \in RootCpus : pc[s] \in Unset /\ cur[s] = o

(* Inductive when the root zone has one CPU, and implies ZonesApart.        *)
AInv == RInv /\ ListedOnce /\ StartsNew /\ Belongs

(* Most steps neither begin nor end a start or a shutdown, and end no state *)
(* in which the zone of the CPUs is unset.                                  *)
Calm(c) == IF pc'[c] \in Busy
             THEN /\ pc[c] \in Busy /\ cur'[c] = cur[c]
                  /\ pc[c] \in Unset => pc'[c] \in Unset
                  /\ pc'[c] \in StartPlaces => pc[c] \in StartPlaces
             ELSE pc[c] \notin Unset

(* Only four operations are not calm.                                       *)
LEMMA CalmSteps ==
  ASSUME Shapes, NEW c \in CPU, Step(c)
  PROVE  \/ Calm(c) \/ ZsAssign(c) \/ SdRemove(c)
         \/ \E z \in ZoneId : ZoneStart(c, z) \/ ZoneShutdown(c, z)
<1> USE DEF Shapes, Goto, Calm, Busy, Unset, StartPlaces, StopPlaces, StopLoop
<1>1. CASE TakeIrq(c) \/ Acknowledge(c) \/ IrqDone(c) \/ handle_virtio_irq(c)
  BY <1>1 DEF TakeIrq, Acknowledge, IrqDone, handle_virtio_irq
<1>2. CASE check_events(c)
  <2>1. pc'[c] \in {"irq", "run", "idle", "virq"}
    BY <1>2 DEF check_events, Arm
  <2> QED
    BY <1>2, <2>1 DEF check_events
<1>3. CASE RunClone(c) \/ SystemOff(c) \/ ZoneError(c) \/ Mmio(c)
  BY <1>3 DEF RunClone, SystemOff, ZoneError, Mmio, MayTrap, CloneZone
<1>4. CASE RunActivate(c) \/ RunOn(c) \/ IdleOff(c) \/ Park(c)
  BY <1>4 DEF RunActivate, RunOn, IdleOff, Park
<1>5. CASE OnSgi(c) \/ ViSgi(c) \/ ShmSgi(c) \/ ShmSend(c)
  BY <1>5 DEF OnSgi, ViSgi, ShmSgi, ShmSend
<1>6. CASE MmioRead(c) \/ ZoneErrorRoot(c) \/ ZoneErrorWrite(c)
  BY <1>6 DEF MmioRead, ZoneErrorRoot, ZoneErrorWrite
<1>7. CASE SoRead(c) \/ SoSend(c) \/ SoLeave(c) \/ SoSgi(c)
  BY <1>7 DEF SoRead, SoSend, SoLeave, SoSgi
<1>8. CASE SoRemove(c)
  BY <1>8 DEF SoRemove, remove_zone
<1>9. CASE ZsWake(c) \/ ZsSgi(c) \/ ZsAdd(c)
  BY <1>9 DEF ZsWake, ZsSgi, ZsAdd
<1>10. CASE SdWrite(c) \/ SdSend(c) \/ SdDrop(c)
  BY <1>10 DEF SdWrite, SdSend, SdDrop
<1>11. CASE SdSgi(c) \/ SdWait(c) \/ SdClear(c)
  BY <1>11 DEF SdSgi, SdWait, SdClear, Visited
<1>12. ASSUME NEW t \in CPU, CpuOn(c, t)
       PROVE  Calm(c)
  BY <1>12 DEF CpuOn, MayTrap
<1>13. ASSUME NEW z \in ZoneId, VirtioInject(c, z) \/ ShmSignal(c, z)
       PROVE  Calm(c)
  BY <1>13 DEF VirtioInject, ShmSignal, Root
<1> HIDE DEF Calm
<1> QED
  BY <1>1, <1>2, <1>3, <1>4, <1>5, <1>6, <1>7, <1>8, <1>9, <1>10, <1>11, <1>12, <1>13, Zenon
  DEF Step, Hypervisor, Guest

(* What a step does to the list: add_zone appends the object that was       *)
(* started, remove_zone takes one entry out, and a shutdown its own object. *)
LEMMA ListSteps ==
  ASSUME RInv, ListedOnce, StartsNew, NEW c \in CPU, Step(c)
  PROVE  /\ ListedOnce'
         /\ Listed' \subseteq Listed \/ (ZsAdd(c) /\ Listed' \subseteq Listed \cup {cur[c]})
         /\ SdRemove(c) => cur[c] \notin Listed'
<1>1. /\ list \in Seq(0 .. Len(ident)) /\ list # <<>> /\ list[1] = 0 /\ Len(ident) \in Nat
      /\ Objects /\ Local(c) /\ Writes(c) /\ Shapes
  BY Writers DEF RInv, QInv, RootFirst, Objects
<1>2. \A o \in 0 .. Len(ident) : id_of(o)' = id_of(o)
  <2>1. \A o \in 0 .. Len(ident) : o = 0 \/ o \in Made
    BY <1>1 DEF Made
  <2> QED
    BY <2>1, ObjectsStep DEF id_of
<1>3. \A i \in 1 .. Len(list) : list[i] \in 0 .. Len(ident)
  BY <1>1
<1>4. CASE list' = list /\ ~SdRemove(c)
  <2>1. ListedOnce'
    BY <1>2, <1>3, <1>4 DEF ListedOnce
  <2> QED
    BY <1>4, <2>1 DEF Listed
<1>5. CASE ZsAdd(c)
  <2>1. list' = Append(list, cur[c]) /\ ident' = ident /\ cur[c] \in 0 .. Len(ident)
        /\ pc[c] = "zs_add" /\ c \in RootCpus
    BY <1>1, <1>5 DEF ZsAdd, Local, StartPlaces, Made
  <2>2. /\ Len(list') = Len(list) + 1 /\ list'[Len(list) + 1] = cur[c]
        /\ \A i \in 1 .. Len(list) : list'[i] = list[i]
    BY <1>1, <2>1
  <2>3. \A i \in 1 .. Len(list) : id_of(list[i]) # id_of(cur[c])
    BY <2>1 DEF StartsNew, StartPlaces
  <2>4. \A i \in 1 .. Len(list') : id_of(list[i])' = id_of(list'[i])
    BY <2>1 DEF id_of
  <2>5. ListedOnce'
    BY <1>1, <2>2, <2>3, <2>4, SMTT(30) DEF ListedOnce
  <2>6. Listed' \subseteq Listed \cup {cur[c]}
    BY <1>1, <2>2 DEF Listed
  <2>7. ~SdRemove(c)
    BY <2>1 DEF SdRemove
  <2> QED
    BY <1>5, <2>5, <2>6, <2>7
<1>6. CASE SoRemove(c) \/ SdRemove(c)
  <2>1. cur[c] \in Made /\ ident' = ident
    BY <1>1, <1>6 DEF SoRemove, SdRemove, Local, OffPlaces, StopPlaces
  <2>2. \E next : remove_zone(c, id_of(cur[c]), next)
    BY <1>6 DEF SoRemove, SdRemove
  <2>3. id_of(cur[c]) # 0
    BY <1>1, <2>1, CpuSets
  <2>4. \/ list' = list /\ find_zone(id_of(cur[c])) = {}
        \/ \E i \in 2 .. Len(list) :
             /\ id_of(list[i]) = id_of(cur[c])
             /\ Len(list') = Len(list) - 1
             /\ \A k \in 1 .. Len(list) - 1 : list'[k] = IF k < i THEN list[k] ELSE list[k + 1]
    BY <1>1, <2>2, <2>3, RemoveZone
  <2>5. CASE list' = list /\ find_zone(id_of(cur[c])) = {}
    <3>1. ListedOnce' /\ Listed' = Listed
      BY <1>2, <1>3, <2>5 DEF ListedOnce, Listed
    <3>2. cur[c] \notin Listed
      BY <2>5, FindZone DEF Listed
    <3> QED
      BY <3>1, <3>2
  <2>6. ASSUME NEW i \in 2 .. Len(list), id_of(list[i]) = id_of(cur[c]), Len(list') = Len(list) - 1,
               \A k \in 1 .. Len(list) - 1 : list'[k] = IF k < i THEN list[k] ELSE list[k + 1]
        PROVE  ListedOnce' /\ Listed' \subseteq Listed /\ cur[c] \notin Listed'
    <3> DEFINE from(k) == IF k < i THEN k ELSE k + 1
    <3>1. \A k \in 1 .. Len(list') : from(k) \in 1 .. Len(list) /\ from(k) # i /\ list'[k] = list[from(k)]
      BY <1>1, <2>6
    <3>2. \A j, k \in 1 .. Len(list') : j # k => from(j) # from(k)
      BY <1>1, <2>6
    <3>3. i \in 1 .. Len(list)
      BY <1>1
    <3> HIDE DEF from
    <3>4. \A k \in 1 .. Len(list') : id_of(list[k])' = id_of(list[from(k)])
      BY <2>1, <3>1 DEF id_of
    <3>5. ListedOnce'
      BY <3>1, <3>2, <3>4 DEF ListedOnce
    <3>6. Listed' \subseteq Listed
      BY <3>1 DEF Listed
    <3>7. \A k \in 1 .. Len(list') : id_of(list'[k]) # id_of(cur[c])
      BY <2>6, <3>1, <3>3 DEF ListedOnce
    <3>8. cur[c] \notin Listed'
      BY <3>7 DEF Listed
    <3> QED
      BY <3>5, <3>6, <3>8
  <2> QED
    BY <2>4, <2>5, <2>6
<1> QED
  BY <1>1, <1>4, <1>5, <1>6 DEF Writes

(* With one CPU of the root zone, nothing is added to the list between the  *)
(* check of zone_create and add_zone.                                       *)
LEMMA StartsNewStep ==
  ASSUME NEW r, RootCpus = {r}, AInv, NEW c \in CPU, Step(c)
  PROVE  StartsNew'
<1>1. /\ RInv /\ ListedOnce /\ StartsNew /\ Shapes /\ Objects /\ Local(c) /\ Writes(c) /\ r \in CPU
      /\ RootFirst
  BY Writers, ZoneAssumption DEF AInv, RInv, QInv
<1>2. SUFFICES ASSUME pc'[r] \in StartPlaces, NEW o \in Listed'
               PROVE  id_of(o)' # id_of(cur[r])'
  BY DEF StartsNew, Listed
<1>3. \A p \in Listed : p \in 0 .. Len(ident)
  BY <1>1 DEF RootFirst, Listed
<1>4. \A p \in 0 .. Len(ident) : id_of(p)' = id_of(p)
  <2>1. \A p \in 0 .. Len(ident) : p = 0 \/ p \in Made
    BY <1>1 DEF Made, Objects
  <2> QED
    BY <1>1, <2>1, ObjectsStep DEF id_of
<1>5. ASSUME pc[r] \in StartPlaces, cur'[r] = cur[r], ~ZsAdd(c)
      PROVE  id_of(o)' # id_of(cur[r])'
  <2>1. o \in Listed
    BY <1>1, <1>5, ListSteps
  <2>2. cur[r] \in 0 .. Len(ident)
    BY <1>1, <1>5 DEF RInv, Local, Made, Objects
  <2>3. id_of(o) # id_of(cur[r])
    BY <1>1, <1>5, <2>1 DEF StartsNew, Listed
  <2>4. id_of(cur[r])' = id_of(cur[r])
    BY <1>4, <1>5, <2>2 DEF id_of
  <2> QED
    BY <1>3, <1>4, <2>1, <2>3, <2>4
<1>6. ZsAdd(c) => c = r /\ pc'[r] = "guest"
  BY <1>1 DEF ZsAdd, Goto, Shapes, Local, StartPlaces
<1>7. CASE c # r
  BY <1>1, <1>2, <1>5, <1>6, <1>7 DEF Writes
<1>8. CASE c = r /\ Calm(c)
  BY <1>2, <1>5, <1>6, <1>8 DEF Calm, Busy, StartPlaces
<1>9. CASE c = r /\ ZsAssign(c)
  <2>1. pc[r] \in StartPlaces /\ cur'[r] = cur[r]
    BY <1>9 DEF ZsAssign, StartPlaces
  <2>2. ~ZsAdd(c)
    BY <1>9 DEF ZsAssign, ZsAdd
  <2> QED
    BY <1>5, <2>1, <2>2
<1>10. CASE c = r /\ SdRemove(c)
  <2>1. pc'[r] \in {"guest", "assert", "unwrap_list"}
    BY <1>1, <1>10 DEF SdRemove, remove_zone, Goto, Shapes
  <2> QED
    BY <1>2, <2>1 DEF StartPlaces
<1>11. CASE c = r /\ \E z \in ZoneId : ZoneShutdown(c, z)
  <2>1. pc'[r] = "sd_write"
    BY <1>1, <1>11 DEF ZoneShutdown, Goto, Shapes
  <2> QED
    BY <1>2, <2>1 DEF StartPlaces
<1>12. ASSUME c = r, NEW z \in ZoneId, ZoneStart(c, z)
       PROVE  id_of(o)' # id_of(cur[r])'
  <2>1. /\ find_zone(z) = {} /\ ident' = Append(ident, z) /\ list' = list
        /\ cur'[r] = Len(ident) + 1
    BY <1>1, <1>12 DEF ZoneStart, Shapes
  <2>2. ident'[Len(ident) + 1] = z /\ Len(ident) + 1 # 0
    BY <1>1, <2>1 DEF Objects
  <2>3. id_of(cur[r])' = z
    BY <2>1, <2>2 DEF id_of
  <2>4. o \in Listed
    BY <1>2, <2>1 DEF Listed
  <2>5. id_of(o) # z
    BY <2>1, <2>4, FindZone DEF Listed
  <2> QED
    BY <1>3, <1>4, <2>3, <2>4, <2>5
<1> QED
  BY <1>1, <1>7, <1>8, <1>9, <1>10, <1>11, <1>12, CalmSteps

(* No step takes a CPU from the zone in use it belongs to, but SYSTEM_OFF   *)
(* and the shutdown of that very zone.                                      *)
LEMMA BelongsStep ==
  ASSUME NEW r, RootCpus = {r}, AInv, NEW c \in CPU, Step(c)
  PROVE  Belongs'
<1> DEFINE U(p) == p \in Listed \/ (pc[r] \in Busy /\ cur[r] = p)
           B(p, t) == zone[t] = p \/ (zone[t] = NONE /\ pc[r] \in Unset /\ cur[r] = p)
<1>1. /\ RInv /\ ListedOnce /\ StartsNew /\ Shapes /\ Objects /\ Local(c) /\ Writes(c) /\ r \in CPU
      /\ RootFirst /\ Local(r)
  BY Writers, ZoneAssumption DEF AInv, RInv, QInv
<1>2. \A p \in Made : U(p) => \A t \in cpu_set(p) \ gaveUp : B(p, t)
  BY DEF AInv, Belongs, InUse
<1>3. SUFFICES ASSUME NEW o \in Made', U(o)', NEW t \in cpu_set(o)' \ gaveUp'
               PROVE  B(o, t)'
  BY DEF Belongs, InUse
<1>4. \A p \in Made : cpu_set(p)' = cpu_set(p) /\ p # NONE /\ cpu_set(p) \subseteq CPU
  <2>1. \A p \in Made : p # NONE
    BY <1>1, ZoneAssumption DEF Made, NONE, Objects
  <2> QED
    BY <1>1, <2>1, ObjectsStep, CpuSets
<1>5. Busy \cap {"guest", "assert", "unwrap_list"} = {} /\ Unset \subseteq Busy
  BY DEF Busy, Unset, StartPlaces, StopPlaces, StopLoop
<1>6. pc[c] \in Busy => c = r
  BY <1>1 DEF Local, Busy
<1>7. ASSUME NEW z \in ZoneId, ZoneStart(c, z)
      PROVE  B(o, t)'
  <2>1. /\ c = r /\ pc[r] = "guest" /\ pc'[r] = "zs_assign" /\ cur'[r] = Len(ident) + 1
        /\ zone' = zone /\ list' = list /\ gaveUp' = gaveUp /\ ident' = Append(ident, z)
        /\ \A k \in ZoneCfg[z] : zone[k] = NONE
    BY <1>1, <1>7 DEF ZoneStart, Root, Shapes, Goto, cvars, ivars
  <2>2. /\ Len(ident') = Len(ident) + 1 /\ ident'[Len(ident) + 1] = z /\ Len(ident) + 1 # 0
        /\ Len(ident) \in Nat
    BY <1>1, <2>1 DEF Objects
  <2>3. CASE o = Len(ident) + 1
    <3>1. cpu_set(o)' = ZoneCfg[z]
      BY <2>2, <2>3 DEF cpu_set
    <3> QED
      BY <2>1, <2>3, <3>1 DEF Unset
  <2>4. CASE o # Len(ident) + 1
    <3>1. o \in Made
      BY <1>3, <2>2, <2>4 DEF Made
    <3>2. o \in Listed
      BY <1>3, <2>1, <2>4 DEF Listed
    <3>3. zone[t] = o
      BY <1>2, <1>3, <1>4, <1>5, <2>1, <3>1, <3>2
    <3> QED
      BY <2>1, <3>3
  <2> QED
    BY <2>3, <2>4
<1>8. CASE ~\E z \in ZoneId : ZoneStart(c, z)
  <2>1. ident' = ident /\ o \in Made /\ t \in cpu_set(o) /\ t \in CPU
    BY <1>1, <1>3, <1>4, <1>8 DEF Writes, Made
  <2>2. gaveUp \subseteq gaveUp' /\ t \notin gaveUp
    BY <1>1, <1>3 DEF Writes, SoSend, SoLeave
  <2>3. CASE ZsAssign(c)
    <3>1. /\ c = r /\ pc[r] = "zs_assign" /\ pc'[r] = "zs_wake" /\ cur'[r] = cur[r] /\ list' = list
          /\ zone'[t] = IF t \in cpu_set(cur[r]) THEN cur[r] ELSE zone[t]
      BY <1>1, <1>6, <2>1, <2>3 DEF ZsAssign, Goto, Shapes, zvars, Busy, StartPlaces
    <3>2. U(cur[r]) /\ cur[r] \in Made /\ U(o)
      BY <1>1, <1>3, <3>1 DEF Listed, Busy, StartPlaces, Local
    <3>3. B(o, t)
      BY <1>2, <2>1, <2>2, <3>2
    <3>4. CASE o = cur[r]
      BY <2>1, <3>1, <3>4
    <3>5. CASE o # cur[r]
      <4>1. zone[t] = o
        BY <3>3, <3>5
      <4>2. t \notin cpu_set(cur[r])
        BY <1>2, <1>4, <2>1, <2>2, <3>2, <3>5, <4>1
      <4> QED
        BY <3>1, <4>1, <4>2
    <3> QED
      BY <3>4, <3>5
  <2>4. ASSUME NEW z \in ZoneId, ZoneShutdown(c, z)
        PROVE  B(o, t)'
    <3>1. /\ c = r /\ pc[r] = "guest" /\ zone' = zone /\ list' = list /\ cur'[r] \in Listed
      BY <1>1, <2>4, FindZone DEF ZoneShutdown, Root, Shapes, cvars, zvars
    <3>2. o \in Listed
      BY <1>3, <3>1 DEF Listed
    <3>3. zone[t] = o
      BY <1>2, <1>5, <2>1, <2>2, <3>1, <3>2
    <3> QED
      BY <3>1, <3>3
  <2>5. CASE SdRemove(c)
    <3>1. /\ c = r /\ zone' = zone /\ pc'[r] \in {"guest", "assert", "unwrap_list"}
      BY <1>1, <1>6, <2>5 DEF SdRemove, remove_zone, Goto, Shapes, cvars, Busy, StopPlaces
    <3>2. ~ZsAdd(c)
      BY <2>5 DEF SdRemove, ZsAdd
    <3>3. o \in Listed' /\ o # cur[r] /\ o \in Listed
      BY <1>1, <1>3, <1>5, <2>5, <3>1, <3>2, ListSteps
    <3>4. zone[t] = o
      BY <1>2, <2>1, <2>2, <3>3
    <3> QED
      BY <3>1, <3>4
  <2>6. CASE Calm(c)
    <3>1. pc'[r] \in Busy => pc[r] \in Busy /\ cur'[r] = cur[r]
      BY <1>1, <2>6 DEF Calm, Writes
    <3>2. ASSUME pc[r] \in Unset
          PROVE  pc'[r] \in Unset /\ cur'[r] = cur[r]
      BY <1>1, <1>5, <2>6, <3>2 DEF Calm, Writes
    <3>3. ZsAdd(c) => U(cur[c])
      BY <1>1 DEF ZsAdd, Local, Busy, StartPlaces
    <3>4. U(o)
      BY <1>1, <1>3, <3>1, <3>3, ListSteps
    <3>5. B(o, t)
      BY <1>2, <2>1, <2>2, <3>4
    <3>6. CASE zone'[t] = zone[t]
      BY <3>2, <3>5, <3>6
    <3>7. CASE SoSend(c) \/ SoLeave(c)
      <4>1. zone'[t] = zone[t]
        BY <1>1, <1>3, <2>1, <3>7 DEF SoSend, SoLeave, Shapes
      <4> QED
        BY <3>6, <4>1
    <3>8. CASE SdClear(c)
      <4>1. /\ c = r /\ pc[r] = "sd_clear" /\ zone' = [zone EXCEPT ![first_cpu(todo[r])] = NONE]
            /\ todo[r] # {} /\ cur[r] \in Made
        BY <1>1, <1>6, <3>8 DEF SdClear, Busy, StopPlaces, StopLoop, Local
      <4>2. first_cpu(todo[r]) \in cpu_set(cur[r]) /\ first_cpu(todo[r]) \in CPU
        BY <1>1, <4>1, VisitsOwn DEF StopLoop
      <4>3. CASE t # first_cpu(todo[r])
        <5>1. zone'[t] = zone[t]
          BY <1>1, <2>1, <4>1, <4>3 DEF Shapes
        <5> QED
          BY <3>6, <5>1
      <4>4. CASE t = first_cpu(todo[r])
        <5>1. U(cur[r])
          BY <4>1 DEF Busy, StopPlaces, StopLoop
        <5>2. B(cur[r], t)
          BY <1>2, <2>2, <4>1, <4>2, <4>4, <5>1
        <5>3. o = cur[r]
          BY <1>4, <2>1, <3>5, <4>1, <5>2
        <5>4. zone'[t] = NONE
          BY <1>1, <4>1, <4>2, <4>4 DEF Shapes
        <5>5. pc'[r] \in Unset /\ cur'[r] = cur[r]
          BY <3>2, <4>1 DEF Unset
        <5> QED
          BY <5>3, <5>4, <5>5
      <4> QED
        BY <4>3, <4>4
    <3>9. ~ZsAssign(c)
      <4>1. ZsAssign(c) => pc[c] \in Unset /\ pc'[c] = "zs_wake"
        BY <1>1 DEF ZsAssign, Unset, Goto, Shapes
      <4> QED
        BY <2>6, <4>1 DEF Calm, Unset, Busy, StartPlaces
    <3> QED
      BY <1>1, <3>6, <3>7, <3>8, <3>9 DEF Writes
  <2> QED
    BY <1>1, <1>8, <2>3, <2>4, <2>5, <2>6, CalmSteps
<1> QED
  BY <1>7, <1>8

(* Every step of every CPU keeps AInv.                                      *)
LEMMA AInvStep ==
  ASSUME NEW r, RootCpus = {r}
  PROVE  AInv /\ [Next]_vars => AInv'
<1> SUFFICES ASSUME AInv, [Next]_vars
             PROVE  AInv'
  OBVIOUS
<1>1. RInv'
  BY RInvStep DEF AInv
<1>2. CASE UNCHANGED vars
  <2>1. ListedOnce' /\ StartsNew'
    BY <1>2 DEF AInv, ListedOnce, StartsNew, id_of, vars, zvars, pvars
  <2>2. Belongs'
    BY <1>2 DEF AInv, Belongs, InUse, Listed, Made, cpu_set, vars, cvars, zvars, ivars, pvars
  <2> QED
    BY <1>1, <2>1, <2>2 DEF AInv
<1>3. ASSUME NEW c \in CPU, Step(c)
      PROVE  AInv'
  BY <1>1, <1>3, ListSteps, StartsNewStep, BelongsStep DEF AInv
<1> QED
  BY <1>2, <1>3 DEF Next, Step

(* Two zones that are listed or being started have different ids, and a CPU *)
(* of both has been taken from its zone by SYSTEM_OFF; the root zone shares *)
(* its CPUs with none.                                                      *)
LEMMA ApartFromInv ==
  ASSUME NEW r, RootCpus = {r}, AInv
  PROVE  ZonesApart
<1>1. Objects /\ RootFirst /\ r \in CPU /\ \A k \in CPU : Local(k)
  BY ZoneAssumption DEF AInv, RInv
<1>2. ASSUME NEW o, Starting(o)
      PROVE  pc[r] \in StartPlaces /\ cur[r] = o /\ o \in Made
  <2>1. PICK s \in CPU : pc[s] \in StartPlaces /\ cur[s] = o
    BY <1>2 DEF Starting, StartPlaces
  <2>2. s = r /\ o \in Made
    BY <1>1, <2>1 DEF Local
  <2> QED
    BY <2>1, <2>2
<1>3. ASSUME NEW o, o \in Listed \/ Starting(o)
      PROVE  o = 0 \/ (o \in Made /\ InUse(o))
  <2>1. CASE o \in Listed
    BY <1>1, <2>1 DEF Listed, RootFirst, Objects, Made, InUse
  <2>2. CASE Starting(o)
    BY <1>2, <2>2 DEF InUse, Busy
  <2> QED
    BY <1>3, <2>1, <2>2
<1>4. SUFFICES ASSUME NEW o, NEW p, o # p, o \in Listed \/ Starting(o), p \in Listed \/ Starting(p)
               PROVE  id_of(o) # id_of(p) /\ cpu_set(o) \cap cpu_set(p) \subseteq gaveUp
  BY DEF ZonesApart
<1>5. id_of(o) # id_of(p)
  <2>1. CASE o \in Listed /\ p \in Listed
    BY <1>4, <2>1 DEF AInv, ListedOnce, Listed
  <2>2. CASE Starting(o) /\ p \in Listed
    BY <1>2, <2>2 DEF AInv, StartsNew, Listed
  <2>3. CASE o \in Listed /\ Starting(p)
    BY <1>2, <2>3 DEF AInv, StartsNew, Listed
  <2>4. ~(Starting(o) /\ Starting(p))
    BY <1>2, <1>4
  <2> QED
    BY <1>4, <2>1, <2>2, <2>3, <2>4
<1>6. \A q \in Made : cpu_set(q) \cap cpu_set(0) = {} /\ q # NONE
  BY <1>1, ZoneAssumption DEF Objects, cpu_set, Made, NONE
<1>7. CASE o = 0 \/ p = 0
  BY <1>3, <1>4, <1>5, <1>6, <1>7
<1>8. CASE o # 0 /\ p # 0
  <2>1. o \in Made /\ InUse(o) /\ p \in Made /\ InUse(p)
    BY <1>3, <1>4, <1>8
  <2>2. SUFFICES ASSUME NEW t \in cpu_set(o) \cap cpu_set(p), t \notin gaveUp
                 PROVE  FALSE
    BY <1>5
  <2>3. zone[t] = o \/ (zone[t] = NONE /\ cur[r] = o)
    BY <2>1, <2>2 DEF AInv, Belongs
  <2>4. zone[t] = p \/ (zone[t] = NONE /\ cur[r] = p)
    BY <2>1, <2>2 DEF AInv, Belongs
  <2> QED
    BY <1>4, <1>6, <2>1, <2>3, <2>4
<1> QED
  BY <1>5, <1>7, <1>8

(* Init satisfies AInv.                                                     *)
LEMMA AInvInit == Init => AInv
<1> SUFFICES ASSUME Init
             PROVE  AInv
  OBVIOUS
<1>1. Made = {} /\ list = <<0>> /\ pc = [c \in CPU |-> "guest"]
  BY DEF Init, Made
<1>2. ListedOnce
  BY <1>1 DEF ListedOnce
<1>3. StartsNew
  BY <1>1, ZoneAssumption DEF StartsNew, StartPlaces
<1>4. Belongs
  BY <1>1 DEF Belongs
<1> QED
  BY <1>2, <1>3, <1>4, RInvInit DEF AInv

(* When the root zone has one CPU: a CPU belongs to one zone at a time, but *)
(* for one that a SYSTEM_OFF has taken from its zone, and the root zone is  *)
(* untouched. zone_create's two checks (zone.rs) suffice for that because   *)
(* the calls of a single CPU cannot overlap.                                *)
THEOREM ZonesKeptApart ==
  ASSUME NEW r, RootCpus = {r}
  PROVE  Spec => []OneOwner
<1>1. Init => AInv
  BY AInvInit
<1>2. AInv => OneOwner
  <2> SUFFICES ASSUME AInv
               PROVE  OneOwner
    OBVIOUS
  <2>1. ZonesApart
    BY ApartFromInv
  <2>2. RInv
    BY DEF AInv
  <2>3. RootUntouched
    BY <2>2, RInvUntouched
  <2> QED
    BY <2>1, <2>3 DEF OneOwner
<1>3. AInv /\ [Next]_vars => AInv'
  BY AInvStep
<1> QED
  BY <1>1, <1>2, <1>3, PTL DEF Spec
-----------------------------------------------------------------------------
(* An orderly root zone of one CPU, and guests that do not switch           *)
(* themselves off.                                                          *)
Works(P, o) == \E s \in RootCpus : pc[s] \in P /\ cur[s] = o

(* A CPU that has no zone, or whose zone is being stopped or not yet woken. *)
Rest(t) == zone[t] = NONE \/ Works(StopPlaces \cup {"zs_wake"}, zone[t])
Cold(t) == zone[t] = NONE \/ Works({"zs_wake"}, zone[t])

Still == {"guest", "irq", "ack", "idle", "park"}
Loading == {"run", "run_read", "run_on"}

(* Such a CPU is not in its guest's traps nor about to run, and nothing but *)
(* a SHUTDOWN waits for it.                                                 *)
Resting(t) == /\ Rest(t) => /\ pc[t] \in Still
                            /\ \A i \in 1 .. Len(events[t]) : events[t][i] = IPI_EVENT_SHUTDOWN
              /\ Cold(t) => ~power_on[t] /\ (gpm[t] = PARK \/ pc[t] = "park")

(* The tables a CPU runs on are its zone's, until it parks.                 *)
OnOwnTables(t) ==
  /\ gpm[t] # PARK => \/ pc[t] = "park"
                      \/ gpm[t] = zone[t] /\ (power_on[t] \/ pc[t] = "run_on")
  /\ pc[t] \in {"run_read", "mm_read", "ze_write"} => cur[t] = zone[t]

(* The entry point of a CPU that is woken is set.                           *)
EntrySet(t) ==
  \/ pc[t] \in Loading
  \/ \E i \in 1 .. Len(events[t]) : events[t][i] = IPI_EVENT_WAKEUP
  \/ Works({"zs_wake"}, zone[t])
  => entry[t]

(* How far a start or a shutdown has come.                                  *)
Reached(s, t) ==
  /\ pc[s] = "zs_assign" => zone[t] = NONE
  /\ pc[s] = "sd_wait" /\ t \notin todo[s] => ~power_on[t]
  /\ pc[s] \in {"sd_clear", "sd_drop", "sd_remove"} => ~power_on[t]
  /\ pc[s] = "sd_clear" /\ t \notin todo[s] => zone[t] = NONE
  /\ pc[s] \in {"sd_drop", "sd_remove"} => zone[t] = NONE

Progress == \A s \in RootCpus : pc[s] \in Busy => \A t \in cpu_set(cur[s]) : Reached(s, t)

(* Zones that CPUs name are listed or being started, and have these CPUs.   *)
Named == /\ \A t \in CPU : zone[t] # NONE => /\ t \in cpu_set(zone[t])
                                             /\ zone[t] \in Listed \/ Works(StartPlaces, zone[t])
         /\ \A s \in RootCpus : pc[s] \in StopPlaces => cur[s] \in Listed

NeverOff == gaveUp = {} /\ \A k \in CPU : pc[k] \notin OffPlaces \cup {"unwrap", "unwrap_list", "assert"}

OInv == /\ AInv /\ NeverOff /\ Named /\ Progress
        /\ \A t \in CPU \ RootCpus : Resting(t) /\ OnOwnTables(t) /\ EntrySet(t)

(* Who arrives at the places the invariant speaks of.                       *)
Arrives(c) ==
  /\ pc'[c] = "zs_wake" => ZsAssign(c)
  /\ pc'[c] = "zs_assign" => \E z \in ZoneId : ZoneStart(c, z)
  /\ pc'[c] \in StopPlaces => \/ pc[c] \in StopPlaces /\ cur'[c] = cur[c]
                              \/ \E z \in ZoneId : ZoneShutdown(c, z)
  /\ pc'[c] \in {"sd_wait", "sd_clear"} => SdSgi(c) \/ SdWait(c) \/ SdClear(c)
  /\ pc'[c] = "sd_drop" => SdClear(c)
  /\ pc'[c] = "sd_remove" => SdDrop(c)
  /\ pc'[c] \in Loading => check_events(c) \/ RunClone(c) \/ RunActivate(c)
  /\ pc'[c] \in {"run_read", "mm_read", "ze_write"} => cur'[c] = zone[c] /\ zone' = zone
  /\ pc'[c] \in OffPlaces => pc[c] \in OffPlaces \/ SystemOff(c)
  /\ pc'[c] \in {"unwrap", "unwrap_list", "assert"} =>
       pc[c] \in OffPlaces \/ SystemOff(c) \/ RunClone(c) \/ Mmio(c) \/ ZoneError(c) \/ SdRemove(c)

(* Where a CPU that is at rest, parks or enters its guest can go.           *)
Leaves(c) ==
  /\ pc[c] \in Still =>
       \/ TakeIrq(c) \/ Acknowledge(c) \/ IrqDone(c) \/ check_events(c) \/ IdleOff(c) \/ Park(c)
       \/ pc[c] = "guest" /\ (MayTrap(c) \/ c \in RootCpus)
  /\ pc[c] = "park" => Park(c)
  /\ pc[c] = "run_on" => RunOn(c)
  /\ pc[c] \in StartPlaces => \/ ZsAssign(c) \/ ZsWake(c) \/ ZsAdd(c)
                              \/ pc'[c] \in StartPlaces /\ cur'[c] = cur[c]

(* Both hold of every step.                                                 *)
LEMMA Moves ==
  ASSUME Shapes, NEW c \in CPU, Step(c)
  PROVE  Arrives(c) /\ Leaves(c)
<1> USE DEF Shapes, Goto, Arrives, Leaves, Still, Loading, StartPlaces, StopPlaces, StopLoop, OffPlaces,
           cvars
<1>1. CASE TakeIrq(c) \/ Acknowledge(c) \/ IrqDone(c) \/ handle_virtio_irq(c)
  BY <1>1 DEF TakeIrq, Acknowledge, IrqDone, handle_virtio_irq
<1>2. CASE check_events(c)
  <2>1. pc'[c] \in {"irq", "run", "idle", "virq"}
    BY <1>2 DEF check_events, Arm
  <2> QED
    BY <1>2, <2>1 DEF check_events
<1>3. CASE RunClone(c) \/ SystemOff(c) \/ ZoneError(c) \/ Mmio(c)
  BY <1>3 DEF RunClone, SystemOff, ZoneError, Mmio, MayTrap, CloneZone
<1>4. CASE RunActivate(c) \/ RunOn(c) \/ IdleOff(c) \/ Park(c)
  BY <1>4 DEF RunActivate, RunOn, IdleOff, Park
<1>5. CASE OnSgi(c) \/ ViSgi(c) \/ ShmSgi(c) \/ ShmSend(c)
  BY <1>5 DEF OnSgi, ViSgi, ShmSgi, ShmSend
<1>6. CASE MmioRead(c) \/ ZoneErrorRoot(c) \/ ZoneErrorWrite(c)
  BY <1>6 DEF MmioRead, ZoneErrorRoot, ZoneErrorWrite
<1>7. CASE SoRead(c) \/ SoSend(c) \/ SoLeave(c) \/ SoSgi(c)
  BY <1>7, SMTT(30) DEF SoRead, SoSend, SoLeave, SoSgi
<1>8. CASE SoRemove(c) \/ SdRemove(c)
  BY <1>8 DEF SoRemove, SdRemove, remove_zone
<1>9. CASE ZsAssign(c) \/ ZsWake(c) \/ ZsSgi(c) \/ ZsAdd(c)
  BY <1>9 DEF ZsAssign, ZsWake, ZsSgi, ZsAdd
<1>10. CASE SdWrite(c) \/ SdSend(c) \/ SdDrop(c)
  BY <1>10 DEF SdWrite, SdSend, SdDrop
<1>11. CASE SdSgi(c) \/ SdWait(c) \/ SdClear(c)
  BY <1>11 DEF SdSgi, SdWait, SdClear, Visited
<1>12. ASSUME NEW t \in CPU, CpuOn(c, t)
       PROVE  Arrives(c) /\ Leaves(c)
  BY <1>12 DEF CpuOn, MayTrap
<1>13. ASSUME NEW z \in ZoneId, VirtioInject(c, z) \/ ShmSignal(c, z) \/ ZoneStart(c, z) \/ ZoneShutdown(c, z)
       PROVE  Arrives(c) /\ Leaves(c)
  BY <1>13 DEF VirtioInject, ShmSignal, ZoneStart, ZoneShutdown, Root
<1> HIDE DEF Arrives, Leaves
<1> QED
  BY <1>1, <1>2, <1>3, <1>4, <1>5, <1>6, <1>7, <1>8, <1>9, <1>10, <1>11, <1>12, <1>13, Zenon
  DEF Step, Hypervisor, Guest

(* A CPU of a zone in use has that zone, or is just being given or taken.   *)
LEMMA OwnCpu ==
  ASSUME NEW r, RootCpus = {r}, OInv, NEW o \in Made,
         o \in Listed \/ (pc[r] \in Busy /\ cur[r] = o), NEW t \in cpu_set(o)
  PROVE  /\ zone[t] = o \/ (zone[t] = NONE /\ pc[r] \in Unset /\ cur[r] = o)
         /\ t \in CPU \ RootCpus /\ o # NONE /\ o # 0
<1>1. AInv /\ RInv /\ Objects /\ gaveUp = {}
  BY DEF OInv, AInv, RInv, NeverOff
<1>2. t \in CPU \ RootCpus /\ o # NONE /\ o # 0
  BY <1>1, CpuSets, ZoneAssumption DEF Objects, Made, NONE
<1> QED
  BY <1>1, <1>2 DEF AInv, Belongs, InUse

(* The CPUs of a zone that is being stopped are at rest.                    *)
LEMMA StopsRest ==
  ASSUME NEW r, RootCpus = {r}, OInv, pc[r] \in StopPlaces, NEW t \in cpu_set(cur[r])
  PROVE  Rest(t) /\ t \in CPU \ RootCpus /\ pc[t] \in Still
         /\ (zone[t] = cur[r] \/ zone[t] = NONE)
<1>1. r \in CPU /\ Local(r)
  BY ZoneAssumption DEF OInv, AInv, RInv
<1>2. cur[r] \in Made
  BY <1>1 DEF Local
<1>3. t \in CPU \ RootCpus /\ (zone[t] = cur[r] \/ zone[t] = NONE)
  BY <1>2, OwnCpu DEF Busy
<1>4. Rest(t)
  BY <1>3 DEF Rest, Works
<1> QED
  BY <1>3, <1>4 DEF OInv, Resting

(* A guest that traps is not at rest: its CPU has a zone that is awake.     *)
LEMMA TrapsAwake ==
  ASSUME NEW r, RootCpus = {r}, "orderly" \in Env, OInv,
         NEW c \in CPU \ RootCpus, MayTrap(c)
  PROVE  ~Rest(c) /\ zone[c] = gpm[c] /\ zone[c] # NONE /\ zone[c] \in Made
<1>1. r \in CPU /\ Resting(c) /\ OnOwnTables(c) /\ Owned(c) /\ Objects
  BY ZoneAssumption DEF OInv, AInv, RInv
<1>2. pc[c] = "guest" /\ gpm[c] # PARK /\ ~Stopping(gpm[c])
  BY DEF MayTrap
<1>3. zone[c] = gpm[c] /\ zone[c] \in Made
  BY <1>1, <1>2 DEF OnOwnTables, Owned, Made, Objects
<1>4. zone[c] # NONE
  BY <1>1, <1>3, ZoneAssumption DEF Made, NONE, Objects
<1>5. ~Works(StopPlaces, zone[c])
  BY <1>1, <1>2, <1>3 DEF Works, Stopping, StopPlaces, StopLoop
<1>6. ~Cold(c)
  BY <1>1, <1>2 DEF Resting
<1> QED
  BY <1>3, <1>4, <1>5, <1>6 DEF Rest, Cold, Works

(* CPU_ON wakes no CPU of a zone that is at rest.                           *)
LEMMA CpuOnTarget ==
  ASSUME NEW r, RootCpus = {r}, "orderly" \in Env, OInv, NEW c \in CPU, NEW t \in CPU, CpuOn(c, t)
  PROVE  ~Rest(t) /\ t \notin RootCpus
<1>1. MayTrap(c) /\ gpm[c] # 0 /\ t \in cpu_set(gpm[c])
  BY DEF CpuOn
<1>2. c \notin RootCpus /\ Named /\ Progress
  BY <1>1 DEF OInv, AInv, RInv, Owned
<1>3. ~Rest(c) /\ zone[c] = gpm[c] /\ zone[c] # NONE /\ zone[c] \in Made
  BY <1>1, <1>2, TrapsAwake
<1>4. c \in cpu_set(zone[c]) /\ (zone[c] \in Listed \/ Works(StartPlaces, zone[c]))
  BY <1>2, <1>3 DEF Named
<1>5. /\ zone[t] = zone[c] \/ (zone[t] = NONE /\ pc[r] \in Unset /\ cur[r] = zone[c])
      /\ t \notin RootCpus
  BY <1>1, <1>3, <1>4, OwnCpu DEF Works, Busy
<1>6. ~(pc[r] \in Unset /\ cur[r] = zone[c])
  <2>1. ~(pc[r] = "zs_assign" /\ cur[r] = zone[c])
    BY <1>2, <1>3, <1>4 DEF Progress, Reached, Busy, StartPlaces
  <2>2. ~(pc[r] \in StopPlaces /\ cur[r] = zone[c])
    BY <1>3 DEF Rest, Works
  <2> QED
    BY <2>1, <2>2 DEF Unset, StopPlaces, StopLoop
<1> QED
  BY <1>3, <1>5, <1>6 DEF Rest

(* The zone of a CPU is given or taken only while the CPU is at rest.       *)
LEMMA ZoneKept ==
  ASSUME NEW r, RootCpus = {r}, OInv, NEW c \in CPU, Step(c), NEW t \in CPU \ RootCpus,
         zone'[t] # zone[t]
  PROVE  /\ c = r /\ Rest(t) /\ t \in cpu_set(cur[r])
         /\ \/ ZsAssign(c) /\ zone[t] = NONE /\ zone'[t] = cur[r]
            \/ SdClear(c) /\ zone'[t] = NONE /\ t = first_cpu(todo[r])
<1>1. /\ r \in CPU /\ Local(c) /\ Writes(c) /\ Shapes /\ Progress /\ RInv
      /\ pc[c] \notin OffPlaces
  BY Writers, ZoneAssumption DEF OInv, AInv, RInv, QInv, NeverOff
<1>2. CASE ZsAssign(c)
  <2>1. pc[c] = "zs_assign" /\ zone'[t] = IF t \in cpu_set(cur[c]) THEN cur[c] ELSE zone[t]
    BY <1>2 DEF ZsAssign
  <2>2. c = r
    BY <1>1, <2>1 DEF Local, StartPlaces
  <2>3. t \in cpu_set(cur[r]) /\ zone[t] = NONE
    BY <1>1, <2>1, <2>2 DEF Progress, Reached, Busy, StartPlaces
  <2> QED
    BY <1>2, <2>1, <2>2, <2>3 DEF Rest
<1>3. CASE SdClear(c)
  <2>1. pc[c] = "sd_clear" /\ zone' = [zone EXCEPT ![first_cpu(todo[c])] = NONE]
    BY <1>3 DEF SdClear
  <2>2. c = r /\ todo[r] # {}
    BY <1>1, <2>1 DEF Local, StopPlaces, StopLoop
  <2>3. t = first_cpu(todo[r]) /\ zone'[t] = NONE
    BY <1>1, <2>1, <2>2 DEF Shapes
  <2>4. t \in cpu_set(cur[r])
    BY <1>1, <2>1, <2>2, <2>3, VisitsOwn DEF StopLoop
  <2>5. Rest(t)
    BY <2>1, <2>2, <2>4, StopsRest DEF StopPlaces, StopLoop
  <2> QED
    BY <1>3, <2>2, <2>3, <2>4, <2>5
<1>4. ~SoSend(c) /\ ~SoLeave(c)
  BY <1>1 DEF SoSend, SoLeave, OffPlaces
<1> QED
  BY <1>1, <1>2, <1>3, <1>4 DEF Writes

(* A CPU comes to rest only by an orderly shutdown, which waits for it.     *)
LEMMA RestBefore ==
  ASSUME NEW r, RootCpus = {r}, "orderly" \in Env, OInv, NEW c \in CPU, Step(c),
         NEW t \in CPU \ RootCpus, Rest(t)'
  PROVE  /\ Rest(t) \/ (pc[t] = "guest" /\ pc'[t] = pc[t] /\ events[t] = <<>> /\ events' = events)
         /\ Cold(t)' => Cold(t) \/ (SdClear(c) /\ c = r /\ t = first_cpu(todo[r]))
<1>1. /\ r \in CPU /\ Local(c) /\ Writes(c) /\ Shapes /\ Named /\ Arrives(c) /\ RInv
  BY Writers, Moves, ZoneAssumption DEF OInv, AInv, RInv, QInv
<1>2. CASE zone'[t] # zone[t]
  BY <1>2, ZoneKept DEF Cold
<1>3. CASE zone'[t] = zone[t] /\ zone[t] = NONE
  BY <1>3 DEF Rest, Cold
<1>4. CASE zone'[t] = zone[t] /\ zone[t] # NONE
  <2>1. pc'[r] \in StopPlaces \cup {"zs_wake"} /\ cur'[r] = zone[t]
    BY <1>4 DEF Rest, Works
  <2>2. CASE c # r
    BY <1>1, <1>4, <2>1, <2>2 DEF Writes, Rest, Cold, Works
  <2>3. CASE c = r /\ pc'[r] = "zs_wake"
    <3>1. ZsAssign(c) /\ pc[c] = "zs_assign" /\ cur'[r] = cur[r]
          /\ zone'[t] = IF t \in cpu_set(cur[c]) THEN cur[c] ELSE zone[t]
      BY <1>1, <2>3 DEF Arrives, ZsAssign
    <3>2. t \in cpu_set(cur[r])
      BY <1>1, <1>4, <2>1, <3>1 DEF Named
    <3>3. zone[t] = NONE
      BY <2>3, <3>1, <3>2 DEF OInv, Progress, Reached, Busy, StartPlaces
    <3> QED
      BY <1>4, <3>3
  <2>4. CASE c = r /\ pc'[r] \in StopPlaces /\ pc[r] \in StopPlaces /\ cur'[r] = cur[r]
    <3>1. Rest(t)
      BY <2>1, <2>4 DEF Rest, Works
    <3>2. ~Cold(t)'
      BY <1>4, <2>4 DEF Cold, Works, StopPlaces, StopLoop
    <3> QED
      BY <3>1, <3>2
  <2>5. ASSUME c = r, NEW z \in ZoneId, ZoneShutdown(c, z)
        PROVE  /\ pc[t] = "guest" /\ pc'[t] = pc[t] /\ events[t] = <<>> /\ events' = events
               /\ ~Cold(t)'
    <3>1. PICK o \in find_zone(z) : AtRest(o) /\ cur' = [cur EXCEPT ![c] = o]
      BY <2>5 DEF ZoneShutdown
    <3>2. o = zone[t] /\ pc'[c] = "sd_write" /\ events' = events
      BY <1>1, <2>1, <2>5, <3>1 DEF ZoneShutdown, Shapes, Goto, evars
    <3>3. t \in cpu_set(o)
      BY <1>1, <1>4, <3>2 DEF Named
    <3>4. pc[t] = "guest" /\ events[t] = <<>> /\ pc'[t] = pc[t]
      BY <1>1, <2>5, <3>1, <3>3 DEF AtRest, Writes
    <3>5. ~Cold(t)'
      BY <1>4, <2>5, <3>2 DEF Cold, Works
    <3> QED
      BY <3>2, <3>4, <3>5
  <2> QED
    BY <1>1, <2>1, <2>2, <2>3, <2>4, <2>5 DEF Arrives
<1> QED
  BY <1>2, <1>3, <1>4

(* A CPU at rest only takes interrupts and parks.                           *)
LEMMA RestStays ==
  ASSUME NEW r, RootCpus = {r}, "orderly" \in Env, OInv, NEW t \in CPU \ RootCpus, Rest(t), Step(t)
  PROVE  \/ TakeIrq(t) \/ Acknowledge(t) \/ IrqDone(t) \/ check_events(t) \/ IdleOff(t) \/ Park(t)
<1>1. Resting(t) /\ Leaves(t)
  BY Moves DEF OInv, AInv, RInv, QInv
<1>2. pc[t] \in Still
  BY <1>1 DEF Resting
<1>3. ~MayTrap(t)
  BY TrapsAwake
<1> QED
  BY <1>1, <1>2, <1>3 DEF Leaves

(* What is sent to a CPU at rest is a SHUTDOWN.                             *)
LEMMA RestQueue ==
  ASSUME NEW r, RootCpus = {r}, "orderly" \in Env, OInv, NEW c \in CPU, Step(c),
         NEW t \in CPU \ RootCpus, Rest(t), Rest(t)'
  PROVE  \A i \in 1 .. Len(events'[t]) : events'[t][i] = IPI_EVENT_SHUTDOWN
<1>1. /\ r \in CPU /\ Local(c) /\ Writes(c) /\ Shapes /\ RInv /\ Resting(t) /\ Objects /\ RootFirst
      /\ events \in [CPU -> Seq(EventId)] /\ pc[c] \notin OffPlaces
  BY Writers, ZoneAssumption DEF OInv, AInv, RInv, QInv, NeverOff
<1>2. \A i \in 1 .. Len(events[t]) : events[t][i] = IPI_EVENT_SHUTDOWN
  BY <1>1 DEF Resting
<1>3. CASE events'[t] = events[t]
  BY <1>2, <1>3
<1>4. CASE check_events(c)
  <2>1. events'[t] = events[t] \/ events'[t] = fetch_event(events[t])
    BY <1>1, <1>4 DEF check_events
  <2>2. CASE events'[t] = fetch_event(events[t])
    <3>1. events[t] \in Seq(EventId)
      BY <1>1
    <3> QED
      BY <1>2, <2>2, <3>1, FetchEntries
  <2> QED
    BY <1>3, <2>1, <2>2
<1>5. CASE SdSend(c)
  <2>1. events'[t] = events[t] \/ events'[t] = add_event(events[t], IPI_EVENT_SHUTDOWN)
    BY <1>1, <1>5 DEF SdSend, Post
  <2>2. add_event(events[t], IPI_EVENT_SHUTDOWN) = <<IPI_EVENT_SHUTDOWN>>
    BY DEF add_event
  <2> QED
    BY <1>3, <2>1, <2>2
<1>6. ASSUME NEW u, NEW e, u # t, Post(c, u, e)
      PROVE  events'[t] = events[t]
  BY <1>1, <1>6 DEF Post
<1>7. CASE ZsWake(c)
  <2> DEFINE b == first_cpu(cpu_set(cur[c]))
  <2>1. c = r /\ pc[r] = "zs_wake" /\ cur[r] \in Made
    BY <1>1, <1>7 DEF ZsWake, Local, StartPlaces
  <2>2. b \in cpu_set(cur[r])
    BY <1>1, <2>1, CpuSets
  <2>3. zone[b] = cur[r] /\ cur[r] # NONE
    BY <2>1, <2>2, OwnCpu DEF Busy, Unset, StartPlaces
  <2>4. events' = events \/ (Post(c, b, IPI_EVENT_WAKEUP) /\ pc'[c] = "zs_sgi" /\ zone' = zone)
    BY <1>1, <1>7 DEF ZsWake, Goto, Shapes
  <2>5. pc'[c] = "zs_sgi" /\ zone' = zone => t # b
    BY <2>1, <2>3 DEF Rest, Works, StopPlaces, StopLoop
  <2> QED
    BY <1>3, <1>6, <2>4, <2>5
<1>8. CASE ShmSend(c)
  <2>1. events' = events \/ (power_on[2] /\ Post(c, 2, IPI_EVENT_SHM_SIGNAL))
    BY <1>8 DEF ShmSend
  <2>2. pc[r] = "shm_read"
    BY <1>1, <1>8 DEF ShmSend, Local
  <2>3. Cold(t)
    BY <2>2 DEF Rest, Cold, Works, StopPlaces, StopLoop
  <2>4. ~power_on[t]
    BY <1>1, <2>3 DEF Resting
  <2> QED
    BY <1>3, <1>6, <2>1, <2>4
<1>9. CASE \E u \in CPU : CpuOn(c, u)
  <2>1. PICK u \in CPU : CpuOn(c, u)
    BY <1>9
  <2>2. u # t
    BY <2>1, CpuOnTarget
  <2> QED
    BY <1>3, <1>6, <2>1, <2>2 DEF CpuOn
<1>10. CASE \E z \in ZoneId : VirtioInject(c, z)
  <2>1. PICK z \in ZoneId : VirtioInject(c, z)
    BY <1>10
  <2>2. PICK o \in find_zone(z) : Post(c, first_cpu(cpu_set(o)), IPI_EVENT_VIRTIO_INJECT_IRQ)
    BY <2>1 DEF VirtioInject
  <2>3. z # 0
    BY ZoneAssumption DEF ZoneId
  <2>4. o \in Made /\ o \in Listed
    BY <1>1, <2>3, FindZone DEF Listed, id_of, RootFirst, Made, Objects
  <2>5. first_cpu(cpu_set(o)) \in cpu_set(o)
    BY <1>1, <2>4, CpuSets
  <2>6. pc[r] = "guest"
    BY <2>1 DEF VirtioInject, Root
  <2>7. zone[first_cpu(cpu_set(o))] = o /\ o # NONE
    BY <2>4, <2>5, <2>6, OwnCpu DEF Unset
  <2>8. zone[t] = NONE
    BY <2>6 DEF Rest, Works, StopPlaces, StopLoop
  <2> QED
    BY <1>3, <1>6, <2>2, <2>7, <2>8
<1>11. ~SoSend(c)
  BY <1>1 DEF SoSend, OffPlaces
<1> QED
  BY <1>1, <1>3, <1>4, <1>5, <1>7, <1>8, <1>9, <1>10, <1>11 DEF Writes

(* A CPU that is at rest and off is not switched on.                        *)
LEMMA StaysOff ==
  ASSUME NEW r, RootCpus = {r}, "orderly" \in Env, OInv, NEW c \in CPU, Step(c),
         NEW t \in CPU \ RootCpus, Rest(t), ~power_on[t]
  PROVE  ~power_on'[t]
<1>1. Writes(c) /\ Shapes /\ pc[t] \in Still
  BY Writers DEF OInv, AInv, RInv, QInv, Resting
<1>2. CASE power_on' = power_on
  BY <1>2
<1>3. CASE RunOn(c) \/ IdleOff(c)
  BY <1>1, <1>3 DEF RunOn, IdleOff, Shapes, Still
<1>4. ASSUME NEW u \in CPU, CpuOn(c, u)
      PROVE  ~power_on'[t]
  <2>1. u # t
    BY <1>4, CpuOnTarget
  <2> QED
    BY <1>1, <1>4, <2>1 DEF CpuOn, Shapes
<1> QED
  BY <1>1, <1>2, <1>3, <1>4 DEF Writes

(* A CPU at rest stays parked, and one that is coming to rest is off.       *)
LEMMA RestingStep ==
  ASSUME NEW r, RootCpus = {r}, "orderly" \in Env, OInv, NEW c \in CPU, Step(c),
         NEW t \in CPU \ RootCpus
  PROVE  Resting(t)'
<1>1. /\ r \in CPU /\ Writes(c) /\ Shapes /\ Resting(t) /\ OnOwnTables(t) /\ Leaves(c) /\ RInv
      /\ events \in [CPU -> Seq(EventId)] /\ Progress
  BY Writers, Moves, ZoneAssumption DEF OInv, AInv, RInv, QInv
<1>2. ASSUME Rest(t)'
      PROVE  /\ pc'[t] \in Still
             /\ \A i \in 1 .. Len(events'[t]) : events'[t][i] = IPI_EVENT_SHUTDOWN
  <2>1. CASE ~Rest(t)
    <3>1. pc[t] = "guest" /\ pc'[t] = pc[t] /\ events[t] = <<>> /\ events' = events
      BY <1>2, <2>1, RestBefore
    <3>2. Len(events'[t]) = 0
      BY <3>1
    <3> QED
      BY <3>1, <3>2 DEF Still
  <2>2. CASE Rest(t)
    <3>1. \A i \in 1 .. Len(events'[t]) : events'[t][i] = IPI_EVENT_SHUTDOWN
      BY <1>2, <2>2, RestQueue
    <3>2. CASE c # t
      BY <1>1, <2>2, <3>1, <3>2 DEF Resting, Writes
    <3>3. CASE check_events(t)
      <4>1. events[t] \in Seq(EventId)
            /\ \A i \in 1 .. Len(events[t]) : events[t][i] = IPI_EVENT_SHUTDOWN
        BY <1>1, <2>2 DEF Resting
      <4>2. events[t] = <<>> \/ Head(events[t]) = IPI_EVENT_SHUTDOWN
        BY <4>1
      <4>3. Arm(events[t]) \in {"irq", "idle"}
        BY <4>2 DEF Arm, IPI_EVENT_SHUTDOWN, IPI_EVENT_WAKEUP, IPI_EVENT_VIRTIO_INJECT_IRQ
      <4> QED
        BY <1>1, <3>1, <3>3, <4>3 DEF check_events, Goto, Shapes, Still
    <3>4. CASE TakeIrq(t) \/ Acknowledge(t) \/ IrqDone(t) \/ IdleOff(t) \/ Park(t)
      BY <1>1, <3>1, <3>4 DEF TakeIrq, Acknowledge, IrqDone, IdleOff, Park, Goto, Shapes, Still
    <3> QED
      BY <2>2, <3>2, <3>3, <3>4, RestStays
  <2> QED
    BY <2>1, <2>2
<1>3. ASSUME Cold(t)'
      PROVE  ~power_on'[t] /\ (gpm'[t] = PARK \/ pc'[t] = "park")
  <2>1. Rest(t)'
    BY <1>3 DEF Rest, Cold, Works
  <2>2. CASE Cold(t)
    <3>1. Rest(t) /\ pc[t] \in Still /\ ~power_on[t] /\ (gpm[t] = PARK \/ pc[t] = "park")
      BY <1>1, <2>2 DEF Rest, Cold, Works, Resting
    <3>2. ~power_on'[t]
      BY <3>1, StaysOff
    <3>3. CASE RunActivate(c) \/ Park(c)
      BY <1>1, <3>1, <3>2, <3>3 DEF RunActivate, Park, Shapes, Still, Goto
    <3>4. CASE gpm' = gpm /\ ~Park(c)
      BY <1>1, <3>1, <3>2, <3>4 DEF Writes, Leaves
    <3> QED
      BY <1>1, <3>3, <3>4 DEF Writes
  <2>3. CASE SdClear(c) /\ c = r /\ t = first_cpu(todo[r])
    <3>1. pc[r] = "sd_clear" /\ power_on' = power_on /\ gpm' = gpm /\ pc'[t] = pc[t]
      BY <1>1, <2>3 DEF SdClear, Writes
    <3>2. t \in cpu_set(cur[r])
      <4>1. todo[r] # {}
        BY <1>1, <3>1 DEF RInv, Local, StopLoop
      <4> QED
        BY <1>1, <2>3, <3>1, <4>1, VisitsOwn DEF StopLoop
    <3>3. ~power_on[t]
      BY <1>1, <3>1, <3>2 DEF Progress, Reached, Busy, StopPlaces, StopLoop
    <3>4. pc[t] \in Still
      BY <3>1, <3>2, StopsRest DEF StopPlaces, StopLoop
    <3> QED
      BY <1>1, <3>1, <3>3, <3>4 DEF OnOwnTables, Still
  <2> QED
    BY <1>3, <2>1, <2>2, <2>3, RestBefore
<1> QED
  BY <1>2, <1>3 DEF Resting

(* A CPU that runs leaves the tables of its zone before it loses the zone.  *)
LEMMA OnOwnTablesStep ==
  ASSUME NEW r, RootCpus = {r}, "orderly" \in Env, OInv, NEW c \in CPU, Step(c),
         NEW t \in CPU \ RootCpus
  PROVE  OnOwnTables(t)'
<1>1. /\ r \in CPU /\ Writes(c) /\ Shapes /\ Resting(t) /\ OnOwnTables(t) /\ Arrives(c) /\ Leaves(c)
      /\ Owned(t) /\ Objects /\ Progress
  BY Writers, Moves, ZoneAssumption DEF OInv, AInv, RInv, QInv
<1>2. gpm[t] # NONE
  BY <1>1, ZoneAssumption DEF Owned, Objects, NONE, PARK
<1>3. ASSUME zone'[t] # zone[t]
      PROVE  pc[t] \in Still /\ (gpm[t] # PARK => pc[t] = "park") /\ c # t
  <2>1. c = r /\ Rest(t) /\ t \in cpu_set(cur[r])
    BY <1>3, ZoneKept
  <2>2. pc[t] \in Still
    BY <1>1, <2>1 DEF Resting
  <2>3. CASE ZsAssign(c) /\ zone[t] = NONE
    BY <1>1, <1>2, <2>1, <2>2, <2>3 DEF OnOwnTables
  <2>4. CASE SdClear(c)
    <3>1. ~power_on[t]
      BY <1>1, <2>1, <2>4 DEF SdClear, Progress, Reached, Busy, StopPlaces, StopLoop
    <3> QED
      BY <1>1, <2>1, <2>2, <3>1 DEF OnOwnTables, Still
  <2> QED
    BY <1>3, <2>3, <2>4, ZoneKept
<1>4. gpm'[t] # PARK => \/ pc'[t] = "park"
                        \/ gpm'[t] = zone'[t] /\ (power_on'[t] \/ pc'[t] = "run_on")
  <2>1. CASE RunActivate(c)
    BY <1>1, <1>3, <2>1 DEF RunActivate, OnOwnTables, Shapes, Goto
  <2>2. CASE Park(c)
    BY <1>1, <1>3, <2>2 DEF Park, OnOwnTables, Shapes, Goto
  <2>3. CASE gpm' = gpm /\ ~Park(c)
    <3> SUFFICES ASSUME gpm[t] # PARK
                 PROVE  \/ pc'[t] = "park"
                        \/ gpm[t] = zone'[t] /\ (power_on'[t] \/ pc'[t] = "run_on")
      BY <2>3
    <3>1. CASE pc[t] = "park"
      BY <1>1, <2>3, <3>1 DEF Writes, Leaves
    <3>2. CASE pc[t] # "park"
      <4>1. zone'[t] = zone[t] /\ gpm[t] = zone[t] /\ (power_on[t] \/ pc[t] = "run_on")
        BY <1>1, <1>3, <3>2 DEF OnOwnTables
      <4>2. CASE pc[t] = "run_on"
        BY <1>1, <4>1, <4>2 DEF Writes, Leaves, RunOn, Shapes
      <4>3. CASE power_on[t]
        <5>1. CASE IdleOff(c)
          BY <1>1, <4>1, <4>3, <5>1 DEF IdleOff, Goto, Shapes
        <5>2. CASE RunOn(c) \/ \E u \in CPU : CpuOn(c, u)
          BY <1>1, <4>1, <4>3, <5>2 DEF RunOn, CpuOn, Shapes
        <5> QED
          BY <1>1, <4>1, <4>3, <5>1, <5>2 DEF Writes
      <4> QED
        BY <4>1, <4>2, <4>3
    <3> QED
      BY <3>1, <3>2
  <2> QED
    BY <1>1, <2>1, <2>2, <2>3 DEF Writes
<1>5. pc'[t] \in {"run_read", "mm_read", "ze_write"} => cur'[t] = zone'[t]
  <2>1. CASE c = t
    BY <1>1, <2>1 DEF Arrives
  <2>2. CASE c # t
    BY <1>1, <1>3, <2>2 DEF Writes, OnOwnTables, Still
  <2> QED
    BY <2>1, <2>2
<1> QED
  BY <1>4, <1>5 DEF OnOwnTables

(* hv_zone_shutdown takes the entry point only of CPUs at rest, and a CPU   *)
(* that is woken has been given one.                                        *)
LEMMA EntrySetStep ==
  ASSUME NEW r, RootCpus = {r}, "orderly" \in Env, OInv, NEW c \in CPU, Step(c),
         NEW t \in CPU \ RootCpus
  PROVE  EntrySet(t)'
<1> DEFINE W(q) == \E i \in 1 .. Len(q) : q[i] = IPI_EVENT_WAKEUP
<1>1. /\ r \in CPU /\ Writes(c) /\ Shapes /\ Resting(t) /\ EntrySet(t) /\ Arrives(c) /\ Named
      /\ Local(c) /\ Objects /\ RInv /\ events \in [CPU -> Seq(EventId)] /\ pc[c] \notin OffPlaces
  BY Writers, Moves, ZoneAssumption DEF OInv, AInv, RInv, QInv, NeverOff
<1>2. CASE SdSend(c) /\ t = first_cpu(todo[c])
  <2>1. pc[c] = "sd_send" /\ c = r /\ pc'[c] = "sd_sgi" /\ todo[c] # {}
    BY <1>1, <1>2 DEF SdSend, Goto, Shapes, Local, StopPlaces, StopLoop
  <2>2. t \in cpu_set(cur[r])
    BY <1>1, <1>2, <2>1, VisitsOwn DEF StopLoop
  <2>3. pc'[t] = pc[t] /\ pc[t] \in Still
    BY <1>1, <2>1, <2>2, StopsRest DEF StopPlaces, StopLoop, Writes
  <2>4. events'[t] = <<IPI_EVENT_SHUTDOWN>>
    BY <1>1, <1>2 DEF SdSend, Post, add_event
  <2>5. ~W(events'[t])
    BY <2>4 DEF IPI_EVENT_SHUTDOWN, IPI_EVENT_WAKEUP
  <2>6. ~Works({"zs_wake"}, zone[t])'
    BY <2>1 DEF Works
  <2> QED
    BY <2>3, <2>5, <2>6 DEF EntrySet, Still, Loading
<1>3. CASE ~(SdSend(c) /\ t = first_cpu(todo[c]))
  <2>1. entry[t] => entry'[t]
    <3>1. CASE entry' = entry \/ ZsAssign(c)
      BY <3>1 DEF ZsAssign
    <3>2. CASE SdSend(c)
      BY <1>1, <1>3, <3>2 DEF SdSend, Shapes
    <3>3. CASE \E u \in CPU : CpuOn(c, u)
      BY <1>1, <3>3 DEF CpuOn, Shapes
    <3> QED
      BY <1>1, <3>1, <3>2, <3>3 DEF Writes
  <2>2. ASSUME pc'[t] \in Loading
        PROVE  pc[t] \in Loading \/ W(events[t])
    <3>1. CASE c # t
      BY <1>1, <2>2, <3>1 DEF Writes
    <3>2. CASE check_events(t)
      <4>1. Arm(events[t]) \in Loading
        BY <1>1, <2>2, <3>2 DEF check_events, Goto, Shapes
      <4>2. events[t] # <<>> /\ Head(events[t]) = IPI_EVENT_WAKEUP /\ events[t] \in Seq(EventId)
        BY <1>1, <4>1 DEF Arm, Loading
      <4>3. 1 \in 1 .. Len(events[t]) /\ events[t][1] = IPI_EVENT_WAKEUP
        BY <4>2
      <4> QED
        BY <4>3
    <3>3. CASE RunClone(t) \/ RunActivate(t)
      BY <3>3 DEF RunClone, RunActivate, Loading
    <3> QED
      BY <1>1, <2>2, <3>1, <3>2, <3>3 DEF Arrives
  <2>3. ASSUME W(events'[t])
        PROVE  W(events[t]) \/ Works({"zs_wake"}, zone[t]) \/ entry'[t]
    <3>1. events[t] \in Seq(EventId)
      BY <1>1
    <3>2. CASE check_events(c)
      <4>1. events'[t] = events[t] \/ events'[t] = fetch_event(events[t])
        BY <1>1, <3>2 DEF check_events
      <4>2. CASE events'[t] = fetch_event(events[t])
        BY <2>3, <3>1, <4>2, FetchEntries
      <4> QED
        BY <2>3, <4>1, <4>2
    <3>3. ASSUME NEW u, NEW e \in EventId, e # IPI_EVENT_WAKEUP, Post(c, u, e)
          PROVE  W(events[t])
      <4>1. events'[t] = events[t] \/ events'[t] = add_event(events[t], e)
        BY <1>1, <3>3 DEF Post
      <4>2. CASE events'[t] = add_event(events[t], e)
        <5>1. PICK i \in 1 .. Len(add_event(events[t], e)) : add_event(events[t], e)[i] = IPI_EVENT_WAKEUP
          BY <2>3, <4>2
        <5> QED
          BY <3>1, <3>3, <5>1, AddEntries
      <4> QED
        BY <2>3, <4>1, <4>2
    <3>4. /\ {IPI_EVENT_SHUTDOWN, IPI_EVENT_VIRTIO_INJECT_IRQ, IPI_EVENT_SHM_SIGNAL} \subseteq EventId
          /\ IPI_EVENT_WAKEUP \notin {IPI_EVENT_SHUTDOWN, IPI_EVENT_VIRTIO_INJECT_IRQ, IPI_EVENT_SHM_SIGNAL}
      BY DEF EventId, IPI_EVENT_SHUTDOWN, IPI_EVENT_VIRTIO_INJECT_IRQ, IPI_EVENT_SHM_SIGNAL, IPI_EVENT_WAKEUP
    <3>5. CASE SdSend(c) \/ \E z \in ZoneId : VirtioInject(c, z)
      BY <3>3, <3>4, <3>5 DEF SdSend, VirtioInject
    <3>6. CASE ShmSend(c)
      <4>1. events' = events \/ Post(c, 2, IPI_EVENT_SHM_SIGNAL)
        BY <3>6 DEF ShmSend
      <4> QED
        BY <2>3, <3>3, <3>4, <4>1
    <3>7. CASE ZsWake(c)
      <4>1. c = r /\ pc[r] = "zs_wake" /\ cur[r] \in Made
        BY <1>1, <3>7 DEF ZsWake, Local, StartPlaces
      <4>2. first_cpu(cpu_set(cur[r])) \in cpu_set(cur[r])
        BY <1>1, <4>1, CpuSets
      <4>3. zone[first_cpu(cpu_set(cur[r]))] = cur[r]
        BY <4>1, <4>2, OwnCpu DEF Busy, Unset, StartPlaces
      <4>4. events'[t] = events[t] \/ t = first_cpu(cpu_set(cur[r]))
        BY <1>1, <3>7, <4>1 DEF ZsWake, Post
      <4> QED
        BY <2>3, <4>1, <4>3, <4>4 DEF Works
    <3>8. CASE \E u \in CPU : CpuOn(c, u)
      <4>1. PICK u \in CPU : CpuOn(c, u)
        BY <3>8
      <4>2. events'[t] = events[t] \/ u = t
        BY <1>1, <4>1 DEF CpuOn, Post
      <4>3. u = t => entry'[t]
        BY <1>1, <4>1 DEF CpuOn, Shapes
      <4> QED
        BY <2>3, <4>2, <4>3
    <3>9. ~SoSend(c)
      BY <1>1 DEF SoSend, OffPlaces
    <3> QED
      BY <1>1, <2>3, <3>2, <3>5, <3>6, <3>7, <3>8, <3>9 DEF Writes
  <2>4. ASSUME Works({"zs_wake"}, zone[t])'
        PROVE  Works({"zs_wake"}, zone[t]) \/ entry'[t]
    <3>1. pc'[r] = "zs_wake" /\ cur'[r] = zone'[t]
      BY <2>4 DEF Works
    <3>2. CASE c # r
      BY <1>1, <3>1, <3>2, ZoneKept DEF Works, Writes
    <3>3. CASE c = r
      <4>1. ZsAssign(c)
        BY <1>1, <3>1, <3>3 DEF Arrives
      <4>2. /\ cur'[r] = cur[r] /\ cur[r] \in Made
            /\ zone'[t] = IF t \in cpu_set(cur[c]) THEN cur[c] ELSE zone[t]
            /\ entry'[t] = (entry[t] \/ t \in cpu_set(cur[c]))
        BY <1>1, <3>3, <4>1 DEF ZsAssign, Local, StartPlaces
      <4>3. cur[r] # NONE
        BY <1>1, <4>2, ZoneAssumption DEF Made, NONE, Objects
      <4> QED
        BY <1>1, <3>1, <3>3, <4>2, <4>3 DEF Named
    <3> QED
      BY <3>2, <3>3
  <2> QED
    BY <1>1, <2>1, <2>2, <2>3, <2>4 DEF EntrySet
<1> QED
  BY <1>2, <1>3

(* What an orderly shutdown leaves listed: everything but its own object.   *)
LEMMA StaysListed ==
  ASSUME NEW r, RootCpus = {r}, OInv, NEW c \in CPU, Step(c), NEW o \in Listed
  PROVE  o \in Listed' \/ (SdRemove(c) /\ c = r /\ o = cur[r])
<1>1. /\ list \in Seq(0 .. Len(ident)) /\ list # <<>> /\ list[1] = 0 /\ Len(ident) \in Nat
      /\ Local(c) /\ Writes(c) /\ ListedOnce /\ pc[c] \notin OffPlaces /\ Objects
      /\ (pc[r] \in StopPlaces => cur[r] \in Listed)
  BY Writers, ZoneAssumption DEF OInv, AInv, RInv, QInv, RootFirst, Objects, NeverOff, Named
<1>2. CASE list' = list
  BY <1>2 DEF Listed
<1>3. CASE ZsAdd(c)
  BY <1>1, <1>3 DEF ZsAdd, Listed
<1>4. CASE SdRemove(c)
  <2>1. c = r /\ cur[c] \in Made /\ cur[c] \in Listed /\ remove_zone(c, id_of(cur[c]), "guest")
    BY <1>1, <1>4 DEF SdRemove, Local, StopPlaces
  <2>2. id_of(cur[c]) # 0
    BY <1>1, <2>1, CpuSets
  <2>3. PICK i \in 2 .. Len(list) :
             /\ id_of(list[i]) = id_of(cur[c])
             /\ Len(list') = Len(list) - 1
             /\ \A k \in 1 .. Len(list) - 1 : list'[k] = IF k < i THEN list[k] ELSE list[k + 1]
    <3>1. find_zone(id_of(cur[c])) # {}
      BY <2>1, FindZone DEF Listed
    <3> QED
      BY <1>1, <2>1, <2>2, <3>1, RemoveZone
  <2>4. PICK j \in 1 .. Len(list) : list[j] = o
    BY DEF Listed
  <2>5. PICK m \in 1 .. Len(list) : list[m] = cur[c]
    BY <2>1 DEF Listed
  <2>6. m = i
    BY <1>1, <2>3, <2>5 DEF ListedOnce
  <2>7. CASE j < i
    <3>1. j \in 1 .. Len(list') /\ list'[j] = o
      BY <1>1, <2>3, <2>4, <2>7, SMTT(60)
    <3> QED
      BY <3>1 DEF Listed
  <2>8. CASE j > i
    <3>1. j - 1 \in 1 .. Len(list') /\ list'[j - 1] = o
      BY <1>1, <2>3, <2>4, <2>8, SMTT(30)
    <3> QED
      BY <3>1 DEF Listed
  <2> QED
    BY <1>1, <1>4, <2>1, <2>3, <2>4, <2>5, <2>6, <2>7, <2>8
<1>5. ~SoRemove(c)
  BY <1>1 DEF SoRemove, OffPlaces
<1> QED
  BY <1>1, <1>2, <1>3, <1>4, <1>5 DEF Writes

(* A CPU's zone is removed only when no CPU names it any more.              *)
LEMMA NamedStep ==
  ASSUME NEW r, RootCpus = {r}, "orderly" \in Env, OInv, NEW c \in CPU, Step(c)
  PROVE  Named'
<1>1. /\ r \in CPU /\ Writes(c) /\ Shapes /\ Arrives(c) /\ Leaves(c) /\ Named /\ Progress
      /\ Local(r) /\ Local(c) /\ Objects /\ RootFirst /\ RInv
  BY Writers, Moves, ZoneAssumption DEF OInv, AInv, RInv, QInv
<1>2. \A o \in Made : cpu_set(o)' = cpu_set(o) /\ o # NONE /\ o # 0
  BY <1>1, ObjectsStep, ZoneAssumption DEF Made, Objects, NONE
<1>3. ASSUME NEW t \in CPU, zone'[t] # NONE
      PROVE  t \in cpu_set(zone[t])' /\ (zone'[t] \in Listed' \/ Works(StartPlaces, zone[t])')
  <2>1. CASE t \in RootCpus
    <3>1. RInv'
      BY <1>1, RInvStep DEF Next, Step
    <3>2. zone'[t] = 0 /\ list' # <<>> /\ list'[1] = 0 /\ list' \in Seq(0 .. Len(ident'))
      BY <2>1, <3>1 DEF RInv, Owned, RootFirst
    <3>3. cpu_set(zone[t])' = RootCpus
      BY <3>2 DEF cpu_set
    <3>4. 0 \in Listed'
      BY <3>2 DEF Listed
    <3> QED
      BY <2>1, <3>2, <3>3, <3>4
  <2>2. CASE t \notin RootCpus /\ zone'[t] # zone[t]
    <3>1. c = r /\ t \in cpu_set(cur[r]) /\ ZsAssign(c) /\ zone'[t] = cur[r]
      BY <1>3, <2>2, ZoneKept
    <3>2. cur[r] \in Made /\ pc'[r] = "zs_wake" /\ cur' = cur
      BY <1>1, <3>1 DEF ZsAssign, Local, StartPlaces, Goto, Shapes
    <3>3. cpu_set(zone[t])' = cpu_set(cur[r])
      BY <1>2, <3>1, <3>2 DEF cpu_set, ZsAssign, zvars
    <3> QED
      BY <3>1, <3>2, <3>3 DEF Works, StartPlaces
  <2>3. CASE t \notin RootCpus /\ zone'[t] = zone[t]
    <3>1. zone[t] \in Made
      BY <1>1, <1>3, <2>3 DEF RInv, Owned, Made, Objects
    <3>2. cpu_set(zone[t])' = cpu_set(zone[t])
      <4>1. \A o \in Made : ident'[o] = ident[o]
        BY <1>2, ObjectsStep DEF id_of, OInv, AInv
      <4> QED
        BY <2>3, <3>1, <4>1 DEF cpu_set
    <3>3. t \in cpu_set(zone[t]) /\ (zone[t] \in Listed \/ Works(StartPlaces, zone[t]))
      BY <1>1, <1>3, <2>3 DEF Named
    <3>4. CASE zone[t] \in Listed
      <4>1. CASE zone[t] \in Listed'
        BY <2>3, <3>2, <3>3, <4>1
      <4>2. CASE SdRemove(c) /\ c = r /\ zone[t] = cur[r]
        <5>1. zone[t] = NONE
          BY <1>1, <3>3, <4>2 DEF SdRemove, Progress, Reached, Busy, StopPlaces
        <5> QED
          BY <1>3, <2>3, <5>1
      <4> QED
        BY <3>4, <4>1, <4>2, StaysListed
    <3>5. CASE pc[r] \in StartPlaces /\ cur[r] = zone[t]
      <4>1. CASE c # r \/ (pc'[r] \in StartPlaces /\ cur'[r] = cur[r])
        BY <1>1, <2>3, <3>2, <3>3, <3>5, <4>1 DEF Works, Writes
      <4>2. CASE c = r /\ ZsAssign(c)
        BY <1>1, <2>3, <3>2, <3>3, <3>5, <4>2 DEF Works, ZsAssign, Goto, Shapes, StartPlaces
      <4>3. CASE c = r /\ ZsWake(c)
        <5>1. first_cpu(cpu_set(cur[r])) \in cpu_set(cur[r])
          BY <1>1, <3>1, <3>5, CpuSets
        <5>2. pc[r] = "zs_wake"
          BY <4>3 DEF ZsWake
        <5>3. /\ zone[first_cpu(cpu_set(cur[r]))] = cur[r]
              /\ first_cpu(cpu_set(cur[r])) \in CPU \ RootCpus
          BY <3>1, <3>5, <5>1, <5>2, OwnCpu DEF Busy, Unset, StartPlaces
        <5>4. ~power_on[first_cpu(cpu_set(cur[r]))]
          BY <5>2, <5>3 DEF OInv, Resting, Cold, Works
        <5>5. pc'[r] = "zs_sgi" /\ cur'[r] = cur[r]
          BY <1>1, <4>3, <5>4 DEF ZsWake, Goto, Shapes
        <5> QED
          BY <2>3, <3>2, <3>3, <3>5, <5>5 DEF Works, StartPlaces
      <4>4. CASE c = r /\ ZsAdd(c)
        <5>1. zone[t] \in Listed'
          BY <1>1, <3>5, <4>4 DEF ZsAdd, Listed, RootFirst
        <5> QED
          BY <2>3, <3>2, <3>3, <5>1
      <4> QED
        BY <1>1, <3>5, <4>1, <4>2, <4>3, <4>4 DEF Leaves
    <3> QED
      BY <3>3, <3>4, <3>5 DEF Works
  <2> QED
    BY <2>1, <2>2, <2>3
<1>4. ASSUME pc'[r] \in StopPlaces
      PROVE  cur'[r] \in Listed'
  <2>1. CASE c # r \/ (pc[c] \in StopPlaces /\ cur'[c] = cur[c])
    <3>1. cur'[r] = cur[r] /\ cur[r] \in Listed
      BY <1>1, <1>4, <2>1 DEF Writes, Named
    <3>2. ~(SdRemove(c) /\ c = r)
      BY <1>1, <1>4 DEF SdRemove, remove_zone, Goto, Shapes, StopPlaces, StopLoop
    <3> QED
      BY <3>1, <3>2, StaysListed
  <2>2. CASE c = r /\ \E z \in ZoneId : ZoneShutdown(c, z)
    BY <1>1, <2>2, FindZone DEF ZoneShutdown, Shapes, zvars, Listed
  <2> QED
    BY <1>1, <1>4, <2>1, <2>2 DEF Arrives
<1> QED
  BY <1>3, <1>4 DEF Named

(* The wait loop passes a CPU only when it is off, the clear loop only when *)
(* its zone is cleared, and the CPUs at rest stay so.                       *)
LEMMA ProgressStep ==
  ASSUME NEW r, RootCpus = {r}, "orderly" \in Env, OInv, NEW c \in CPU, Step(c)
  PROVE  Progress'
<1>1. /\ r \in CPU /\ Writes(c) /\ Shapes /\ Arrives(c) /\ Progress /\ Local(r) /\ Objects /\ RInv
  BY Writers, Moves, ZoneAssumption DEF OInv, AInv, RInv, QInv
<1> SUFFICES ASSUME pc'[r] \in Busy, NEW t \in cpu_set(cur[r])'
             PROVE  Reached(r, t)'
  BY DEF Progress
<1>2. CASE c # r
  <2>1. /\ pc'[r] = pc[r] /\ cur'[r] = cur[r] /\ todo'[r] = todo[r] /\ pc[r] \in Busy
        /\ cur[r] \in Made
    BY <1>1, <1>2 DEF Writes, Local, Busy
  <2>2. t \in cpu_set(cur[r]) /\ Reached(r, t)
    <3>1. cpu_set(cur[r])' = cpu_set(cur[r])
      BY <1>1, <1>2, <2>1, ObjectsStep, CpuSets DEF cpu_set, id_of
    <3> QED
      BY <1>1, <2>1, <3>1 DEF Progress
  <2>3. t \in CPU \ RootCpus
    BY <2>1, <2>2, OwnCpu
  <2>4. zone'[t] = zone[t]
    BY <1>2, <2>3, ZoneKept
  <2>5. pc[r] \in StopPlaces /\ ~power_on[t] => ~power_on'[t]
    BY <2>2, <2>3, StopsRest, StaysOff
  <2> QED
    BY <2>1, <2>2, <2>4, <2>5 DEF Reached, StopPlaces, StopLoop
<1>3. CASE c = r /\ \E z \in ZoneId : ZoneStart(c, z)
  <2>1. PICK z \in ZoneId : ZoneStart(c, z)
    BY <1>3
  <2>2. /\ pc'[r] = "zs_assign" /\ zone' = zone /\ \A u \in ZoneCfg[z] : zone[u] = NONE
        /\ ident' = Append(ident, z) /\ cur'[r] = Len(ident) + 1
    BY <1>1, <1>3, <2>1 DEF ZoneStart, Goto, Shapes, cvars
  <2>3. t \in ZoneCfg[z]
    BY <1>1, <2>2 DEF cpu_set, Objects
  <2> QED
    BY <2>2, <2>3 DEF Reached
<1>4. CASE c = r /\ (SdSgi(c) \/ SdWait(c) \/ SdClear(c) \/ SdDrop(c))
  <2> DEFINE u == first_cpu(todo[r])
  <2>1. /\ cur'[r] = cur[r] /\ ident' = ident /\ power_on' = power_on
        /\ pc[r] \in {"sd_sgi", "sd_wait", "sd_clear", "sd_drop"}
    BY <1>4 DEF SdSgi, SdWait, SdClear, SdDrop, cvars, zvars
  <2>2. t \in cpu_set(cur[r]) /\ Reached(r, t)
    BY <1>1, <2>1 DEF cpu_set, Progress, Busy, StopPlaces, StopLoop
  <2>3. CASE SdSgi(c)
    <3>1. pc'[r] = "sd_send" \/ (pc'[r] = "sd_wait" /\ todo'[r] = cpu_set(cur[r]))
      BY <1>1, <1>4, <2>3 DEF SdSgi, Visited, Goto, Shapes
    <3> QED
      BY <2>2, <3>1 DEF Reached
  <2>4. CASE SdWait(c)
    <3>1. u \in cpu_set(cur[r]) /\ pc[r] = "sd_wait"
      BY <1>1, <1>4, <2>4, VisitsOwn DEF SdWait, Local, StopLoop
    <3>2. pc[u] \in Still
      BY <3>1, StopsRest DEF StopPlaces, StopLoop
    <3>3. ~Stuck(u, r)
      BY <3>2 DEF Stuck, Still, Panicked
    <3> QED
      BY <1>1, <1>4, <2>1, <2>2, <2>4, <3>1, <3>3 DEF SdWait, Visited, Goto, Shapes, Reached
  <2>5. CASE SdClear(c)
    <3>1. pc[r] = "sd_clear" /\ t \in CPU
      BY <1>4, <2>2, <2>5, StopsRest DEF SdClear, StopPlaces, StopLoop
    <3>2. zone'[t] = IF t = u THEN NONE ELSE zone[t]
      BY <1>1, <1>4, <2>5, <3>1 DEF SdClear, Shapes
    <3>3. \/ pc'[r] = "sd_clear" /\ todo'[r] = todo[r] \ {u}
          \/ pc'[r] = "sd_drop" /\ todo[r] = {u}
      BY <1>1, <1>4, <2>5 DEF SdClear, Visited, Goto, Shapes
    <3> QED
      BY <2>1, <2>2, <3>1, <3>2, <3>3 DEF Reached
  <2>6. CASE SdDrop(c)
    BY <1>1, <1>4, <2>1, <2>2, <2>6 DEF SdDrop, Goto, Shapes, Reached, cvars
  <2> QED
    BY <1>4, <2>3, <2>4, <2>5, <2>6
<1>5. CASE pc'[r] \notin {"zs_assign", "sd_wait", "sd_clear", "sd_drop", "sd_remove"}
  BY <1>5 DEF Reached
<1> QED
  BY <1>1, <1>2, <1>3, <1>4, <1>5 DEF Arrives

(* No CPU clones a zone that it does not have, and when remove_zone checks  *)
(* the count, ZONE_LIST held the last reference.                            *)
LEMMA NeverOffStep ==
  ASSUME NEW r, RootCpus = {r}, "orderly" \in Env, "system_off" \notin Env, OInv,
         NEW c \in CPU, Step(c)
  PROVE  NeverOff'
<1>1. /\ r \in CPU /\ Writes(c) /\ Shapes /\ Arrives(c) /\ Progress /\ Named /\ NeverOff /\ RInv
      /\ Local(c) /\ Owned(c) /\ Objects /\ RootFirst /\ ListedOnce
  BY Writers, Moves, ZoneAssumption DEF OInv, AInv, RInv, QInv
<1>2. pc[c] \notin OffPlaces /\ ~SystemOff(c)
  BY <1>1 DEF NeverOff, SystemOff
<1>3. gaveUp' = {}
  BY <1>1, <1>2 DEF Writes, NeverOff, SoSend, SoLeave, OffPlaces
<1>4. NONE # 0
  BY ZoneAssumption DEF NONE
<1>5. ASSUME RunClone(c) \/ Mmio(c) \/ ZoneError(c)
      PROVE  pc'[c] # "unwrap" /\ pc'[c] \in {"run_read", "mm_read", "ze_write"}
  <2>1. zone[c] # NONE
    <3>1. CASE c \in RootCpus
      BY <1>1, <1>4, <3>1 DEF Owned
    <3>2. CASE c \notin RootCpus /\ Mmio(c)
      BY <3>2, TrapsAwake DEF Mmio
    <3>3. CASE c \notin RootCpus /\ (RunClone(c) \/ ZoneError(c))
      BY <3>3 DEF OInv, Resting, Rest, RunClone, ZoneError, Still
    <3> QED
      BY <1>5, <3>1, <3>2, <3>3
  <2> QED
    BY <1>1, <1>5, <2>1 DEF RunClone, Mmio, ZoneError, CloneZone, Goto, Shapes
<1>6. ASSUME SdRemove(c)
      PROVE  pc'[c] = "guest"
  <2> DEFINE o == cur[c]
  <2>1. c = r /\ pc[c] = "sd_remove" /\ o \in Made /\ o \in Listed
        /\ remove_zone(c, id_of(o), "guest")
    BY <1>1, <1>6 DEF SdRemove, Local, Named, StopPlaces
  <2>2. ASSUME NEW k \in CPU, zone[k] = o
        PROVE  FALSE
    <3>1. o # NONE
      BY <1>1, <2>1, ZoneAssumption DEF Made, NONE, Objects
    <3>2. k \in cpu_set(o)
      BY <1>1, <2>2, <3>1 DEF Named
    <3> QED
      BY <1>1, <2>1, <2>2, <3>1, <3>2 DEF Progress, Reached, Busy, StopPlaces
  <2>3. ASSUME NEW k \in CPU, pc[k] \in Cloning, cur[k] = o
        PROVE  FALSE
    <3>1. k \notin RootCpus
      BY <2>1, <2>3 DEF Cloning
    <3>2. Local(k) /\ OnOwnTables(k) /\ pc[k] \notin OffPlaces
      BY <3>1 DEF OInv, AInv, RInv, NeverOff
    <3>3. pc[k] \in {"run_read", "mm_read", "ze_write"}
      BY <2>3, <3>1, <3>2 DEF Local, Cloning, OffPlaces, StartPlaces, StopPlaces, StopLoop
    <3> QED
      BY <2>2, <2>3, <3>2, <3>3 DEF OnOwnTables
  <2>4. strong_count(o) = 1
    <3>1. {k \in CPU : zone[k] = o} = {} /\ {k \in CPU : pc[k] \in Cloning /\ cur[k] = o} = {}
      BY <2>2, <2>3
    <3>2. Cardinality({}) = 0
      BY FS_EmptySet
    <3> QED
      BY <3>1, <3>2 DEF strong_count
  <2>5. find_zone(id_of(o)) # {} /\ id_of(o) # 0
    BY <1>1, <2>1, FindZone, CpuSets DEF Listed
  <2>6. PICK i \in 2 .. Len(list) :
             id_of(list[i]) = id_of(o) /\ Asserts(c, i, "guest")
    BY <1>1, <2>1, <2>5, RemoveZone DEF RootFirst, Objects
  <2>7. list[i] = o
    BY <1>1, <2>1, <2>6 DEF ListedOnce, Listed
  <2> HIDE DEF o
  <2> QED
    BY <1>1, <2>4, <2>6, <2>7 DEF Shapes, Asserts
<1>7. pc'[c] \notin OffPlaces \cup {"unwrap", "unwrap_list", "assert"}
  BY <1>1, <1>2, <1>5, <1>6 DEF Arrives
<1> QED
  BY <1>1, <1>3, <1>7 DEF NeverOff, Writes

(* Every step of every CPU keeps OInv.                                      *)
LEMMA OInvStep ==
  ASSUME NEW r, RootCpus = {r}, "orderly" \in Env, "system_off" \notin Env
  PROVE  OInv /\ [Next]_vars => OInv'
<1> SUFFICES ASSUME OInv, [Next]_vars
             PROVE  OInv'
  OBVIOUS
<1>1. AInv'
  BY AInvStep DEF OInv
<1>2. CASE UNCHANGED vars
  <2>1. NeverOff' /\ Named' /\ Progress'
    BY <1>2 DEF OInv, NeverOff, Named, Progress, Reached, Works, Listed, cpu_set,
                vars, cvars, zvars, ivars, pvars
  <2>2. ASSUME NEW t \in CPU \ RootCpus
        PROVE  Resting(t)' /\ OnOwnTables(t)' /\ EntrySet(t)'
    BY <1>2, <2>2 DEF OInv, Resting, OnOwnTables, EntrySet, Rest, Cold, Works,
                vars, evars, cvars, pvars
  <2> QED
    BY <1>1, <2>1, <2>2 DEF OInv
<1>3. ASSUME NEW c \in CPU, Step(c)
      PROVE  OInv'
  BY <1>1, <1>3, NeverOffStep, NamedStep, ProgressStep, RestingStep, OnOwnTablesStep, EntrySetStep
  DEF OInv
<1> QED
  BY <1>2, <1>3 DEF Next, Step

(* Init satisfies it.                                                       *)
LEMMA OInvInit ==
  ASSUME NEW r, RootCpus = {r}
  PROVE  Init => OInv
<1> SUFFICES ASSUME Init
             PROVE  OInv
  OBVIOUS
<1>1. AInv
  BY AInvInit
<1>2. /\ pc = [k \in CPU |-> "guest"] /\ gaveUp = {} /\ list = <<0>> /\ r \in CPU
      /\ events = [k \in CPU |-> <<>>]
      /\ power_on = [k \in CPU |-> k \in RootCpus]
      /\ zone = [k \in CPU |-> IF k \in RootCpus THEN 0 ELSE NONE]
      /\ gpm = [k \in CPU |-> IF k \in RootCpus THEN 0 ELSE PARK]
  BY ZoneAssumption DEF Init
<1>3. NeverOff /\ Progress
  BY <1>2 DEF NeverOff, Progress, OffPlaces, Busy, StartPlaces, StopPlaces, StopLoop
<1>4. Named
  BY <1>2 DEF Named, cpu_set, Listed, StopPlaces, StopLoop
<1>5. ASSUME NEW t \in CPU \ RootCpus
      PROVE  Resting(t) /\ OnOwnTables(t) /\ EntrySet(t)
  <2>1. /\ pc[t] = "guest" /\ pc[r] = "guest" /\ Len(events[t]) = 0 /\ ~power_on[t] /\ gpm[t] = PARK
    BY <1>2, <1>5
  <2>2. Resting(t) /\ OnOwnTables(t)
    BY <2>1 DEF Resting, OnOwnTables, Still
  <2>3. ~Works({"zs_wake"}, zone[t]) /\ pc[t] \notin Loading
    BY <2>1 DEF Works, Loading
  <2>4. EntrySet(t)
    BY <2>1, <2>3 DEF EntrySet
  <2> QED
    BY <2>2, <2>4
<1> QED
  BY <1>1, <1>3, <1>4, <1>5 DEF OInv

(* OInv implies that guests run in zones that exist.                        *)
LEMMA FromOInv ==
  ASSUME NEW r, RootCpus = {r}, OInv
  PROVE  GuestInLiveZone
<1>1. /\ r \in CPU /\ NeverOff /\ Named /\ RInv /\ RootUntouched
      /\ \A t \in CPU : Owned(t) /\ Local(t)
  <2>1. RInv
    BY DEF OInv, AInv
  <2> QED
    BY <2>1, RInvUntouched, ZoneAssumption DEF OInv, AInv, RInv
<1>2. ASSUME NEW o, Works(StartPlaces, o)
      PROVE  Starting(o)
  BY <1>1, <1>2 DEF Works, StartPlaces, Starting
<1>3. ASSUME NEW t \in CPU
      PROVE  /\ pc[t] = "guest" /\ gpm[t] # PARK => /\ gpm[t] \in Listed \/ Starting(gpm[t])
                                                    /\ zone[t] = gpm[t] /\ power_on[t]
             /\ pc[t] = "run_on" => entry[t]
  <2>1. NONE # 0 /\ 0 \in Listed
    BY <1>1, ZoneAssumption DEF NONE, RInv, RootFirst, Listed
  <2>2. CASE t \in RootCpus
    BY <1>1, <2>1, <2>2 DEF RootUntouched, Local, RunPlaces
  <2>3. CASE t \notin RootCpus
    <3>1. OnOwnTables(t) /\ EntrySet(t)
      BY <2>3 DEF OInv
    <3>2. pc[t] = "run_on" => entry[t]
      BY <3>1 DEF EntrySet, Loading
    <3>3. pc[t] = "guest" /\ gpm[t] # PARK => zone[t] = gpm[t] /\ power_on[t]
      BY <3>1 DEF OnOwnTables
    <3>4. gpm[t] # NONE
      BY <1>1, ZoneAssumption DEF RInv, Owned, Objects, NONE, PARK
    <3> QED
      BY <1>1, <1>2, <3>2, <3>3, <3>4 DEF Named
  <2> QED
    BY <2>2, <2>3
<1> QED
  BY <1>3 DEF GuestInLiveZone

(* When the root zone has one CPU and stops a zone only while the zone's    *)
(* CPUs are at rest in their guest, and no guest switches itself off: every *)
(* CPU in a guest runs on the tables of its own zone, which exists, and it  *)
(* enters at an entry point set for that start (hv_zone_shutdown,           *)
(* ArchCpu::run and idle).                                                  *)
THEOREM GuestsInLiveZones ==
  ASSUME NEW r, RootCpus = {r}, "orderly" \in Env, "system_off" \notin Env
  PROVE  Spec => []GuestInLiveZone
<1>1. (Init => OInv) /\ (OInv /\ [Next]_vars => OInv') /\ (OInv => GuestInLiveZone)
  BY OInvInit, OInvStep, FromOInv
<1> QED
  BY <1>1, PTL DEF Spec
-----------------------------------------------------------------------------
(* Where CPUs can get lost, whatever the guests do and whenever a zone is   *)
(* stopped.                                                                 *)
OffPanicked == \E k \in CPU \ RootCpus : pc[k] = "assert"

Kept(t) == zone[t] \in {NONE} \cup Listed \cup refused \/ Works(StartPlaces, zone[t])

(* PerCpu.zone names a zone that has the CPU.                               *)
HasIt(t) == zone[t] # NONE => t \in cpu_set(zone[t])

(* What the shutdown has cleared no CPU names, and the list has no other    *)
(* entry with the id that remove_zone will look for.                        *)
Cleared(s) ==
  /\ pc[s] = "sd_clear" => \A t \in CPU : t \notin todo[s] => zone[t] # cur[s]
  /\ pc[s] \in {"sd_drop", "sd_remove"} => \A t \in CPU : zone[t] # cur[s]
  /\ pc[s] \in StopPlaces =>
       \A k \in 1 .. Len(list) : id_of(list[k]) = id_of(cur[s]) => list[k] = cur[s]

LInv == /\ AInv /\ \A t \in CPU : HasIt(t)
        /\ \A s \in RootCpus : Cleared(s)
        /\ OffPanicked \/ \A t \in CPU : Kept(t)

(* A CPU that has panicked takes no step.                                   *)
LEMMA NoStepAfter ==
  ASSUME NEW c \in CPU, Step(c)
  PROVE  pc[c] # "assert"
<1>1. CASE TakeIrq(c) \/ Acknowledge(c) \/ IrqDone(c) \/ check_events(c) \/ handle_virtio_irq(c)
  BY <1>1 DEF TakeIrq, Acknowledge, IrqDone, check_events, handle_virtio_irq
<1>2. CASE RunClone(c) \/ RunActivate(c) \/ RunOn(c) \/ IdleOff(c) \/ Park(c)
  BY <1>2 DEF RunClone, RunActivate, RunOn, IdleOff, Park
<1>3. CASE OnSgi(c) \/ MmioRead(c) \/ ZoneError(c) \/ ZoneErrorRoot(c) \/ ZoneErrorWrite(c)
  BY <1>3 DEF OnSgi, MmioRead, ZoneError, ZoneErrorRoot, ZoneErrorWrite
<1>4. CASE SoRead(c) \/ SoSend(c) \/ SoSgi(c) \/ SoLeave(c) \/ SoRemove(c)
  BY <1>4 DEF SoRead, SoSend, SoSgi, SoLeave, SoRemove
<1>5. CASE ZsAssign(c) \/ ZsWake(c) \/ ZsSgi(c) \/ ZsAdd(c) \/ ViSgi(c) \/ ShmSend(c) \/ ShmSgi(c)
  BY <1>5 DEF ZsAssign, ZsWake, ZsSgi, ZsAdd, ViSgi, ShmSend, ShmSgi
<1>6. CASE SdWrite(c) \/ SdSend(c) \/ SdSgi(c) \/ SdWait(c) \/ SdClear(c) \/ SdDrop(c) \/ SdRemove(c)
  BY <1>6 DEF SdWrite, SdSend, SdSgi, SdWait, SdClear, SdDrop, SdRemove
<1>7. CASE Guest(c)
  BY <1>7 DEF Guest, CpuOn, Mmio, SystemOff, MayTrap, ZoneStart, ZoneShutdown, VirtioInject, ShmSignal, Root
<1> QED
  BY <1>1, <1>2, <1>3, <1>4, <1>5, <1>6, <1>7 DEF Step, Hypervisor

(* The zone of a CPU is only ever cleared, or set by the start of a zone    *)
(* that has the CPU.                                                        *)
LEMMA ZoneMoves ==
  ASSUME RInv, NEW c \in CPU, Step(c), NEW t \in CPU
  PROVE  \/ zone'[t] = zone[t] \/ zone'[t] = NONE
         \/ ZsAssign(c) /\ t \in cpu_set(cur[c]) /\ zone'[t] = cur[c]
<1>1. Shapes /\ Writes(c)
  BY Writers DEF RInv, QInv
<1>2. CASE ZsAssign(c)
  BY <1>2 DEF ZsAssign
<1>3. CASE SoSend(c)
  BY <1>1, <1>3 DEF SoSend, Shapes
<1>4. CASE SoLeave(c)
  BY <1>1, <1>4 DEF SoLeave, Shapes
<1>5. CASE SdClear(c)
  BY <1>1, <1>5 DEF SdClear, Shapes
<1> QED
  BY <1>1, <1>2, <1>3, <1>4, <1>5 DEF Writes

LEMMA HasItStep ==
  ASSUME LInv, NEW c \in CPU, Step(c), NEW t \in CPU
  PROVE  HasIt(t)'
<1>1. RInv /\ Local(c) /\ Owned(t) /\ HasIt(t) /\ Objects
  BY DEF LInv, AInv, RInv
<1>2. \A o \in Made : cpu_set(o)' = cpu_set(o)
  BY <1>1, ObjectsStep
<1>3. CASE zone'[t] = zone[t]
  <2>1. zone[t] = NONE \/ zone[t] = 0 \/ zone[t] \in Made
    BY <1>1 DEF Owned, Made, Objects
  <2>2. CASE zone[t] = 0
    BY <1>1, <1>3, <2>2 DEF HasIt, cpu_set, NONE
  <2>3. CASE zone[t] \in Made
    <3>1. cpu_set(zone[t])' = cpu_set(zone[t])
      <4>1. zone[t] # 0 /\ ident'[zone[t]] = ident[zone[t]]
        BY <1>1, <2>3, ObjectsStep, CpuSets DEF id_of
      <4> QED
        BY <1>3, <4>1 DEF cpu_set
    <3> QED
      BY <1>1, <1>3, <3>1 DEF HasIt, NONE
  <2> QED
    BY <1>3, <2>1, <2>2, <2>3 DEF HasIt, NONE
<1>4. CASE zone'[t] = NONE
  BY <1>4 DEF HasIt, NONE
<1>5. CASE ZsAssign(c) /\ t \in cpu_set(cur[c]) /\ zone'[t] = cur[c]
  <2>1. cur[c] \in Made /\ ident' = ident
    BY <1>1, <1>5 DEF Local, ZsAssign, StartPlaces, zvars
  <2>2. cpu_set(zone[t])' = cpu_set(cur[c])
    BY <1>5, <2>1 DEF cpu_set
  <2> QED
    BY <1>5, <2>2 DEF HasIt
<1> QED
  BY <1>1, <1>3, <1>4, <1>5, ZoneMoves

(* Each loop of hv_zone_shutdown visits every CPU of its zone, and only     *)
(* these name it; and nothing is listed while the root zone's only CPU      *)
(* stops a zone.                                                            *)
LEMMA ClearedStep ==
  ASSUME NEW r, RootCpus = {r}, LInv, NEW c \in CPU, Step(c)
  PROVE  Cleared(r)'
<1>1. /\ r \in CPU /\ AInv /\ RInv /\ Local(c) /\ Local(r) /\ Objects /\ RootFirst /\ Cleared(r)
      /\ Shapes /\ Writes(c) /\ Arrives(c) /\ ListedOnce
  BY Writers, Moves, ZoneAssumption DEF LInv, AInv, RInv, QInv
<1>2. \A o \in Made : o # NONE /\ id_of(o)' = id_of(o) /\ cpu_set(o)' = cpu_set(o)
  BY <1>1, ObjectsStep, ZoneAssumption DEF Made, NONE, Objects
<1>3. ASSUME pc[r] \in StopPlaces, cur'[r] = cur[r], NEW t \in CPU, zone[t] # cur[r]
      PROVE  zone'[t] # cur[r]
  <2>1. cur[r] # NONE
    BY <1>1, <1>2, <1>3 DEF Local
  <2>2. ~ZsAssign(c)
    BY <1>1, <1>3 DEF ZsAssign, Local, StopPlaces, StopLoop, StartPlaces
  <2> QED
    BY <1>1, <1>3, <2>1, <2>2, ZoneMoves
<1>4. ASSUME pc[r] \in StopPlaces, pc'[r] \in StopPlaces, cur'[r] = cur[r]
      PROVE  \A k \in 1 .. Len(list') : id_of(list[k])' = id_of(cur[r])' => list'[k] = cur'[r]
  <2>1. ~ZsAdd(c)
    BY <1>1, <1>4 DEF ZsAdd, Local, StopPlaces, StopLoop, StartPlaces
  <2>2. \A o \in Listed' : o \in Listed
    BY <1>1, <2>1, ListSteps DEF AInv
  <2>3. \A o \in Listed : (o = 0 \/ o \in Made) /\ (id_of(o) = id_of(cur[r]) => o = cur[r])
    BY <1>1, <1>4 DEF Cleared, Listed, RootFirst, Made, Objects
  <2>4. cur[r] \in Made
    BY <1>1, <1>4 DEF Local
  <2>5. \A o \in Listed : id_of(o)' = id_of(cur[r])' => o = cur[r]
    <3>1. id_of(cur[r])' = id_of(cur[r])
      <4>1. id_of(cur[r])' = IF cur[r] = 0 THEN 0 ELSE ident'[cur[r]]
        BY <1>4 DEF id_of
      <4> QED
        BY <1>2, <2>4, <4>1 DEF id_of
    <3>2. \A o \in Listed : id_of(o)' = id_of(o)
      BY <1>2, <2>3 DEF id_of
    <3> QED
      BY <2>3, <3>1, <3>2
  <2>6. \A k \in 1 .. Len(list') : list'[k] \in Listed'
    BY DEF Listed
  <2>7. \A k \in 1 .. Len(list') : id_of(list[k])' = (IF list'[k] = 0 THEN 0 ELSE ident'[list'[k]])
    BY DEF id_of
  <2>8. \A o \in Listed : id_of(o)' = (IF o = 0 THEN 0 ELSE ident'[o])
    BY DEF id_of
  <2> QED
    BY <1>4, <2>2, <2>5, <2>6, <2>7, <2>8
<1>5. CASE c # r
  <2>1. pc'[r] = pc[r] /\ cur'[r] = cur[r] /\ todo'[r] = todo[r]
    BY <1>1, <1>5 DEF Writes
  <2>2. StopPlaces = {"sd_write", "sd_drop", "sd_remove", "sd_send", "sd_sgi", "sd_wait", "sd_clear"}
    BY DEF StopPlaces, StopLoop
  <2> QED
    BY <1>1, <1>3, <1>4, <2>1, <2>2 DEF Cleared
<1>6. CASE c = r /\ pc'[r] \notin StopPlaces
  BY <1>6 DEF Cleared, StopPlaces, StopLoop
<1>7. CASE c = r /\ \E z \in ZoneId : ZoneShutdown(c, z)
  <2>1. PICK z \in ZoneId : ZoneShutdown(c, z)
    BY <1>7
  <2>2. /\ pc'[r] = "sd_write" /\ list' = list /\ ident' = ident
        /\ cur'[r] \in find_zone(z)
    BY <1>1, <1>7, <2>1 DEF ZoneShutdown, Shapes, Goto, zvars
  <2>3. cur'[r] \in Listed
    BY <2>2, FindZone
  <2>4. \A k \in 1 .. Len(list) : id_of(list[k]) = id_of(cur'[r]) => list[k] = cur'[r]
    BY <1>1, <2>3 DEF ListedOnce, Listed
  <2>5. \A k \in 1 .. Len(list) : id_of(list[k])' = id_of(list[k])
    BY <2>2 DEF id_of
  <2>6. id_of(cur[r])' = id_of(cur'[r])
    BY <2>2 DEF id_of
  <2> QED
    BY <2>2, <2>4, <2>5, <2>6 DEF Cleared
<1>8. CASE c = r /\ pc[r] \in StopPlaces /\ pc'[r] \in StopPlaces /\ cur'[r] = cur[r]
  <2>1. CASE pc'[r] = "sd_clear"
    <3>1. SdSgi(c) \/ SdWait(c) \/ SdClear(c)
      BY <1>1, <1>8, <2>1 DEF Arrives
    <3>2. ~SdSgi(c)
      BY <1>1, <1>8, <2>1 DEF SdSgi, Visited, Goto, Shapes
    <3>3. CASE SdWait(c)
      <4>1. todo'[r] = cpu_set(cur[r]) /\ zone' = zone
        BY <1>1, <1>8, <2>1, <3>3 DEF SdWait, Visited, Goto, Shapes, cvars
      <4>2. \A t \in CPU : zone[t] = cur[r] => t \in cpu_set(cur[r])
        BY <1>1, <1>2, <1>8 DEF LInv, HasIt, Local
      <4> QED
        BY <1>4, <1>8, <2>1, <4>1, <4>2 DEF Cleared
    <3>4. CASE SdClear(c)
      <4>1. /\ pc[r] = "sd_clear" /\ todo'[r] = todo[r] \ {first_cpu(todo[r])}
            /\ \A t \in CPU : zone'[t] = IF t = first_cpu(todo[r]) THEN NONE ELSE zone[t]
        BY <1>1, <1>8, <2>1, <3>4 DEF SdClear, Visited, Goto, Shapes
      <4>2. cur[r] # NONE
        BY <1>1, <1>2, <1>8 DEF Local
      <4> QED
        BY <1>1, <1>4, <1>8, <2>1, <4>1, <4>2 DEF Cleared
    <3> QED
      BY <3>1, <3>2, <3>3, <3>4
  <2>2. CASE pc'[r] = "sd_drop"
    <3>1. SdClear(c)
      BY <1>1, <1>8, <2>2 DEF Arrives
    <3>2. /\ pc[r] = "sd_clear" /\ todo[r] = {first_cpu(todo[r])}
          /\ \A t \in CPU : zone'[t] = IF t = first_cpu(todo[r]) THEN NONE ELSE zone[t]
      BY <1>1, <1>8, <2>2, <3>1 DEF SdClear, Visited, Goto, Shapes
    <3>3. cur[r] # NONE
      BY <1>1, <1>2, <1>8 DEF Local
    <3> QED
      BY <1>1, <1>4, <1>8, <2>2, <3>2, <3>3 DEF Cleared
  <2>3. CASE pc'[r] = "sd_remove"
    <3>1. pc[r] = "sd_drop" /\ zone' = zone
      BY <1>1, <1>8, <2>3 DEF Arrives, SdDrop, cvars
    <3> QED
      BY <1>1, <1>4, <1>8, <2>3, <3>1 DEF Cleared
  <2>4. CASE pc'[r] \notin {"sd_clear", "sd_drop", "sd_remove"}
    BY <1>4, <1>8, <2>4 DEF Cleared
  <2> QED
    BY <2>1, <2>2, <2>3, <2>4
<1> QED
  BY <1>1, <1>5, <1>6, <1>7, <1>8 DEF Arrives

(* What remove_zone takes out of the list, no CPU names: hv_zone_shutdown   *)
(* has cleared it, and after a SYSTEM_OFF the assertion has counted.        *)
LEMMA RemovedIsFree ==
  ASSUME NEW r, RootCpus = {r}, LInv, NEW c \in CPU, Step(c), ~OffPanicked',
         NEW o \in Listed, o \notin Listed', NEW t \in CPU
  PROVE  zone[t] # o
<1>1. /\ r \in CPU /\ AInv /\ RInv /\ Local(c) /\ Objects /\ RootFirst /\ Cleared(r)
      /\ Shapes /\ Writes(c)
  BY Writers, ZoneAssumption DEF LInv, AInv, RInv, QInv
<1>2. list \in Seq(0 .. Len(ident)) /\ Len(ident) \in Nat
  BY <1>1 DEF RootFirst, Objects
<1>3. ~ZsAdd(c) /\ list' # list
  <2>1. ASSUME ZsAdd(c)
        PROVE  Listed \subseteq Listed'
    BY <1>2, <2>1 DEF ZsAdd, Listed
  <2> QED
    BY <2>1 DEF Listed
<1>4. SoRemove(c) \/ SdRemove(c)
  BY <1>1, <1>3 DEF Writes
<1>5. cur[c] \in Made /\ id_of(cur[c]) # 0
  BY <1>1, <1>4, CpuSets DEF SoRemove, SdRemove, Local, OffPlaces, StopPlaces
<1>6. PICK next \in {"idle", "guest"} :
        remove_zone(c, id_of(cur[c]), next) /\ (next = "idle" <=> SoRemove(c))
  <2>1. ~(SoRemove(c) /\ SdRemove(c))
    BY DEF SoRemove, SdRemove
  <2> QED
    BY <1>4, <2>1 DEF SoRemove, SdRemove
<1>7. PICK i \in 2 .. Len(list) :
        /\ id_of(list[i]) = id_of(cur[c]) /\ Asserts(c, i, next)
        /\ Len(list') = Len(list) - 1
        /\ \A k \in 1 .. Len(list) - 1 : list'[k] = IF k < i THEN list[k] ELSE list[k + 1]
  <2> DEFINE n == Len(ident)
             z == id_of(cur[c])
  <2>1. n \in Nat /\ list \in Seq(0 .. n) /\ list # <<>> /\ list[1] = 0
    BY <1>1, <1>2 DEF RootFirst
  <2>2. z # 0 /\ remove_zone(c, z, next)
    BY <1>5, <1>6
  <2> QED
    BY <1>3, <2>1, <2>2, RemoveZone
<1>8. o = list[i]
  <2>1. PICK j \in 1 .. Len(list) : list[j] = o
    BY DEF Listed
  <2>2. CASE j < i
    <3>1. j \in 1 .. Len(list') /\ list'[j] = o
      BY <1>2, <1>7, <2>1, <2>2
    <3> QED
      BY <3>1 DEF Listed
  <2>3. CASE j > i
    <3>1. j - 1 \in 1 .. Len(list') /\ list'[j - 1] = o
      BY <1>2, <1>7, <2>1, <2>3, SMTT(30)
    <3> QED
      BY <3>1 DEF Listed
  <2> QED
    BY <2>1, <2>2, <2>3
<1>9. CASE SdRemove(c)
  <2>1. c = r /\ pc[r] = "sd_remove"
    BY <1>1, <1>9 DEF SdRemove, Local, StopPlaces
  <2>2. o = cur[r]
    BY <1>1, <1>7, <1>8, <2>1 DEF Cleared, StopPlaces
  <2> QED
    BY <1>1, <2>1, <2>2 DEF Cleared
<1>10. CASE SoRemove(c)
  <2>1. c \notin RootCpus
    BY <1>1, <1>10 DEF SoRemove, Local, OffPlaces
  <2>2. strong_count(o) = 1
    BY <1>1, <1>7, <1>8, <2>1 DEF OffPanicked, Shapes, Asserts
  <2> DEFINE A == {k \in CPU : zone[k] = o}
             B == {k \in CPU : pc[k] \in Cloning /\ cur[k] = o}
  <2>3. IsFiniteSet(A) /\ IsFiniteSet(B)
    <3>1. IsFiniteSet(CPU)
      BY FS_Interval, ZoneAssumption DEF CPU
    <3> QED
      BY <3>1, FS_Subset
  <2>4. Cardinality(A) \in Nat /\ Cardinality(B) \in Nat
    BY <2>3, FS_CardinalityType
  <2>5. 1 + Cardinality(A) + Cardinality(B) = 1
    BY <2>2 DEF strong_count
  <2>6. A = {}
    BY <2>3, <2>4, <2>5, FS_EmptySet
  <2> QED
    BY <2>6
<1> QED
  BY <1>4, <1>9, <1>10

(* A CPU keeps a zone that is listed, being started or refused.             *)
LEMMA KeptStep ==
  ASSUME NEW r, RootCpus = {r}, LInv, NEW c \in CPU, Step(c), ~OffPanicked', NEW t \in CPU
  PROVE  Kept(t)'
<1>1. /\ r \in CPU /\ AInv /\ RInv /\ Local(c) /\ Objects /\ RootFirst
      /\ Shapes /\ Writes(c) /\ Leaves(c)
  BY Writers, Moves, ZoneAssumption DEF LInv, AInv, RInv, QInv
<1>2. ~OffPanicked
  <2>1. ASSUME NEW k \in CPU \ RootCpus, pc[k] = "assert"
        PROVE  FALSE
    BY <1>1, <2>1, NoStepAfter DEF OffPanicked, Writes
  <2> QED
    BY <2>1 DEF OffPanicked
<1>3. Kept(t)
  BY <1>2 DEF LInv
<1>4. refused \subseteq refused'
  BY <1>1 DEF Writes, ZsWake
<1>5. CASE zone'[t] = NONE
  BY <1>5 DEF Kept, NONE
<1>6. CASE ZsAssign(c) /\ zone'[t] = cur[c]
  BY <1>1, <1>6 DEF ZsAssign, Goto, Shapes, Local, StartPlaces, Kept, Works
<1>7. CASE zone'[t] = zone[t] /\ zone[t] \in Listed
  <2>1. zone[t] \in Listed'
    BY RemovedIsFree, <1>7
  <2> QED
    BY <1>7, <2>1 DEF Kept
<1>8. CASE zone'[t] = zone[t] /\ zone[t] \in refused
  BY <1>4, <1>8 DEF Kept
<1>9. CASE zone'[t] = zone[t] /\ pc[r] \in StartPlaces /\ cur[r] = zone[t]
  <2>1. CASE c # r \/ (pc'[r] \in StartPlaces /\ cur'[r] = cur[r])
    BY <1>1, <1>9, <2>1 DEF Kept, Works, Writes
  <2>2. CASE c = r /\ ZsAssign(c)
    BY <1>1, <1>9, <2>2 DEF ZsAssign, Goto, Shapes, StartPlaces, Kept, Works
  <2>3. CASE c = r /\ ZsWake(c)
    <3>1. zone[t] \in refused' \/ (pc'[r] = "zs_sgi" /\ cur'[r] = cur[r])
      BY <1>1, <1>9, <2>3 DEF ZsWake, Goto, Shapes
    <3> QED
      BY <1>9, <3>1 DEF StartPlaces, Kept, Works
  <2>4. CASE c = r /\ ZsAdd(c)
    <3>1. zone[t] \in Listed'
      BY <1>1, <1>9, <2>4 DEF ZsAdd, Listed, RootFirst
    <3> QED
      BY <1>9, <3>1 DEF Kept
  <2> QED
    BY <1>1, <1>9, <2>1, <2>2, <2>3, <2>4 DEF Leaves
<1>10. CASE zone'[t] = zone[t] /\ zone[t] = NONE
  BY <1>5, <1>10
<1> QED
  BY <1>3, <1>5, <1>6, <1>7, <1>8, <1>9, <1>10, <1>1, ZoneMoves DEF Kept, Works

(* Every step of every CPU keeps LInv.                                      *)
LEMMA LInvStep ==
  ASSUME NEW r, RootCpus = {r}
  PROVE  LInv /\ [Next]_vars => LInv'
<1> SUFFICES ASSUME LInv, [Next]_vars
             PROVE  LInv'
  OBVIOUS
<1>1. AInv'
  BY AInvStep DEF LInv
<1>2. CASE UNCHANGED vars
  <2>1. \A t \in CPU : HasIt(t)' /\ (Kept(t) => Kept(t)')
    BY <1>2 DEF LInv, HasIt, Kept, Works, Listed, cpu_set, vars, cvars, zvars, pvars
  <2>2. Cleared(r)' /\ (OffPanicked => OffPanicked')
    BY <1>2 DEF LInv, Cleared, OffPanicked, id_of, vars, cvars, zvars, pvars
  <2> QED
    BY <1>1, <2>1, <2>2 DEF LInv
<1>3. ASSUME NEW c \in CPU, Step(c)
      PROVE  LInv'
  BY <1>1, <1>3, HasItStep, ClearedStep, KeptStep DEF LInv
<1> QED
  BY <1>2, <1>3 DEF Next, Step

(* Init satisfies it.                                                       *)
LEMMA LInvInit ==
  ASSUME NEW r, RootCpus = {r}
  PROVE  Init => LInv
<1> SUFFICES ASSUME Init
             PROVE  LInv
  OBVIOUS
<1>1. /\ pc = [k \in CPU |-> "guest"] /\ list = <<0>> /\ r \in CPU
      /\ zone = [k \in CPU |-> IF k \in RootCpus THEN 0 ELSE NONE]
  BY ZoneAssumption DEF Init
<1>2. \A t \in CPU : HasIt(t) /\ Kept(t)
  BY <1>1 DEF HasIt, Kept, Listed, cpu_set
<1>3. Cleared(r)
  BY <1>1 DEF Cleared, StopPlaces, StopLoop
<1> QED
  BY <1>2, <1>3, AInvInit DEF LInv

(* When the root zone has one CPU, and whatever the guests do and whenever  *)
(* a zone is stopped: every CPU's zone is listed or being started, unless   *)
(* its start was refused with EBUSY after zone_create had assigned the CPUs *)
(* (hv_zone_start), or a SYSTEM_OFF has removed a zone started anew under   *)
(* its id and panicked. So hv_zone_shutdown, even one that gives up waiting *)
(* or is overtaken by a SYSTEM_OFF or a CPU_ON, clears the zone of every    *)
(* CPU before it removes the zone, and no other.                            *)
THEOREM CpusNeverLeaked ==
  ASSUME NEW r, RootCpus = {r}
  PROVE  Spec => []NoCpuLeak
<1>1. LInv => NoCpuLeak
  <2> SUFFICES ASSUME LInv
               PROVE  NoCpuLeak
    OBVIOUS
  <2>1. \A o : Works(StartPlaces, o) => Starting(o)
    BY ZoneAssumption DEF Works, StartPlaces, Starting
  <2> QED
    BY <2>1 DEF LInv, OffPanicked, Kept, NoCpuLeak
<1>2. (Init => LInv) /\ (LInv /\ [Next]_vars => LInv')
  BY LInvInit, LInvStep
<1> QED
  BY <1>1, <1>2, PTL DEF Spec
=============================================================================

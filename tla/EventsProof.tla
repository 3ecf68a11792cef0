---------------------------- MODULE EventsProof ----------------------------
(***************************************************************************)
(* Proofs about Events, for any finite set of CPUs, any set of events and   *)
(* any bound on the queues.                                                 *)
(***************************************************************************)
EXTENDS Events, FiniteSetTheorems, TLAPS

(* Every step keeps the types of the variables of Events.                   *)
LEMMA TypeStep == TypeOK /\ [Next]_vars => TypeOK'
<1> SUFFICES ASSUME TypeOK, [Next]_vars
             PROVE  TypeOK'
  OBVIOUS
<1> USE DEF TypeOK
<1>1. ASSUME NEW c \in CPU, NEW d \in CPU, NEW e \in Sent, SendAdd(c, d, e)
      PROVE  TypeOK'
  <2>1. e \in EventId
    BY EventsAssumption
  <2>2. add_event(events[d], e) \in Seq(EventId)
    BY <2>1 DEF add_event
  <2> QED
    BY <1>1, <2>2 DEF SendAdd
<1>2. ASSUME NEW c \in CPU, SendSgi(c)
      PROVE  TypeOK'
  BY <1>2 DEF SendSgi
<1>3. ASSUME NEW c \in CPU, NEW d \in CPU, GuestSgi(c, d)
      PROVE  TypeOK'
  BY <1>3 DEF GuestSgi
<1>4. ASSUME NEW c \in CPU, TakeIrq(c)
      PROVE  TypeOK'
  BY <1>4 DEF TakeIrq
<1>5. ASSUME NEW c \in CPU, Acknowledge(c)
      PROVE  TypeOK'
  BY <1>5 DEF Acknowledge
<1>6. ASSUME NEW c \in CPU, IrqDone(c)
      PROVE  TypeOK'
  BY <1>6 DEF IrqDone
<1>7. ASSUME NEW c \in CPU, check_events(c)
      PROVE  TypeOK'
  <2>1. fetch_event(events[c]) \in Seq(EventId)
    BY DEF fetch_event
  <2>2. events' = [events EXCEPT ![c] = fetch_event(@)] /\ UNCHANGED <<sgi, dst, surplus>>
    BY <1>7 DEF check_events
  <2>3. /\ pc' = [pc EXCEPT ![c] = "guest"] \/ pc' = [pc EXCEPT ![c] = "irq"]
        /\ \/ running' = running
           \/ running' = [running EXCEPT ![c] = TRUE]
           \/ running' = [running EXCEPT ![c] = FALSE]
        /\ spurious' = spurious \/ spurious' = [spurious EXCEPT ![c] = TRUE]
    BY <1>7 DEF check_events
  <2>4. events' \in [CPU -> Seq(EventId)]
    BY <2>1, <2>2
  <2>5. pc' \in [CPU -> {"guest", "send", "irq", "ack"}]
    BY <2>3
  <2>6. running' \in [CPU -> BOOLEAN]
    BY <2>3
  <2>7. spurious' \in [CPU -> BOOLEAN]
    BY <2>3
  <2> QED
    BY <2>2, <2>4, <2>5, <2>6, <2>7
<1>8. CASE UNCHANGED vars
  BY <1>8 DEF vars
<1> QED
  BY <1>1, <1>2, <1>3, <1>4, <1>5, <1>6, <1>7, <1>8 DEF Next

(* The event queues of event.rs hold event ids only, whatever is sent, and  *)
(* a CPU is always in one of the four places of send_event and              *)
(* gicv3_handle_irq_el1 that the module names.                              *)
THEOREM TypeCorrect == Spec => []TypeOK
<1>1. Init => TypeOK
  BY DEF Init, TypeOK
<1> QED
  BY <1>1, TypeStep, PTL DEF Spec

(* What add_event leaves in a queue: a SHUTDOWN is found at the head of the *)
(* result only, provided it was at the head only before.                    *)
LEMMA AddEventHead ==
  ASSUME NEW q \in Seq(EventId), NEW e \in EventId,
         \A i \in 1 .. Len(q) : q[i] = IPI_EVENT_SHUTDOWN => i = 1
  PROVE  \A i \in 1 .. Len(add_event(q, e)) : 
           add_event(q, e)[i] = IPI_EVENT_SHUTDOWN => i = 1
<1>1. CASE e = IPI_EVENT_SHUTDOWN
  BY <1>1 DEF add_event
<1>2. CASE e # IPI_EVENT_SHUTDOWN
  <2>1. add_event(q, e) = Append(q, e)
    BY <1>2 DEF add_event
  <2>2. /\ Len(Append(q, e)) = Len(q) + 1
        /\ Append(q, e)[Len(q) + 1] = e
        /\ \A i \in 1 .. Len(q) : Append(q, e)[i] = q[i]
    OBVIOUS
  <2> QED
    BY <1>2, <2>1, <2>2
<1> QED
  BY <1>1, <1>2

(* A queue whose only SHUTDOWN can be at its head holds none once           *)
(* fetch_event has popped the head.                                         *)
LEMMA FetchEventHead ==
  ASSUME NEW q \in Seq(EventId),
         \A i \in 1 .. Len(q) : q[i] = IPI_EVENT_SHUTDOWN => i = 1
  PROVE  \A i \in 1 .. Len(fetch_event(q)) : fetch_event(q)[i] # IPI_EVENT_SHUTDOWN
<1>1. CASE q = <<>>
  BY <1>1 DEF fetch_event
<1>2. CASE q # <<>>
  <2>1. fetch_event(q) = Tail(q)
    BY <1>2 DEF fetch_event
  <2>2. /\ Len(Tail(q)) = Len(q) - 1
        /\ \A i \in 1 .. Len(Tail(q)) : Tail(q)[i] = q[i + 1]
    BY <1>2
  <2> QED
    BY <2>1, <2>2
<1> QED
  BY <1>1, <1>2

(* The inductive invariant: ShutdownNeverStranded is kept by check_events   *)
(* only because the event it pops is the SHUTDOWN if there is one.          *)
IInv == TypeOK /\ ShutdownAtHead /\ ShutdownNeverStranded

(* Every step of a sender, of the interrupt controller and of a receiver    *)
(* keeps IInv.                                                              *)
LEMMA IInvStep == IInv /\ [Next]_vars => IInv'
<1> SUFFICES ASSUME IInv, [Next]_vars
             PROVE  IInv'
  OBVIOUS
<1>0. TypeOK'
  BY TypeStep DEF IInv
<1> USE DEF IInv, TypeOK
<1> SUFFICES ShutdownAtHead' /\ ShutdownNeverStranded'
  BY <1>0
<1>1. ASSUME NEW c \in CPU, NEW d \in CPU, NEW e \in Sent, SendAdd(c, d, e)
      PROVE  ShutdownAtHead' /\ ShutdownNeverStranded'
  <2>1. \A i \in 1 .. Len(add_event(events[d], e)) :
          add_event(events[d], e)[i] = IPI_EVENT_SHUTDOWN => i = 1
    BY AddEventHead, EventsAssumption DEF ShutdownAtHead
  <2>2. ShutdownAtHead'
    BY <1>1, <2>1 DEF SendAdd, ShutdownAtHead
  <2>3. ASSUME NEW k \in CPU, Queued(k, IPI_EVENT_SHUTDOWN)'
        PROVE  SgiOutstanding(k)'
    <3>1. CASE k = d
      BY <1>1, <3>1 DEF SendAdd, SgiOutstanding
    <3>2. CASE k # d
      <4>1. Queued(k, IPI_EVENT_SHUTDOWN) /\ k # d
        BY <1>1, <2>3, <3>2 DEF SendAdd, Queued
      <4>2. SgiOutstanding(k)
        BY <4>1 DEF ShutdownNeverStranded
      <4> QED
        BY <1>1, <4>2 DEF SendAdd, SgiOutstanding
    <3> QED
      BY <3>1, <3>2
  <2> QED
    BY <2>2, <2>3 DEF ShutdownNeverStranded
<1>2. ASSUME NEW c \in CPU, check_events(c)
      PROVE  ShutdownAtHead' /\ ShutdownNeverStranded'
  <2>1. \A i \in 1 .. Len(fetch_event(events[c])) :
          fetch_event(events[c])[i] # IPI_EVENT_SHUTDOWN
    BY FetchEventHead DEF ShutdownAtHead
  <2>2. /\ events' = [events EXCEPT ![c] = fetch_event(@)]
        /\ pc[c] = "ack"
        /\ pc' = [pc EXCEPT ![c] = "guest"] \/ pc' = [pc EXCEPT ![c] = "irq"]
        /\ UNCHANGED <<sgi, dst>>
    BY <1>2 DEF check_events
  <2>3. ShutdownAtHead'
    BY <2>1, <2>2 DEF ShutdownAtHead
  <2>4. ASSUME NEW k \in CPU, Queued(k, IPI_EVENT_SHUTDOWN)'
        PROVE  SgiOutstanding(k)'
    <3>1. k # c
      BY <2>1, <2>2, <2>4 DEF Queued
    <3>2. SgiOutstanding(k)
      BY <2>2, <2>4, <3>1 DEF Queued, ShutdownNeverStranded
    <3> QED
      BY <2>2, <3>1, <3>2 DEF SgiOutstanding
  <2> QED
    BY <2>3, <2>4 DEF ShutdownNeverStranded
<1>3. ASSUME UNCHANGED events,
             \A k \in CPU : SgiOutstanding(k) => SgiOutstanding(k)'
      PROVE  ShutdownAtHead' /\ ShutdownNeverStranded'
  BY <1>3 DEF ShutdownAtHead, ShutdownNeverStranded, Queued
<1>4. ASSUME NEW c \in CPU, SendSgi(c)
      PROVE  ShutdownAtHead' /\ ShutdownNeverStranded'
  BY <1>3, <1>4 DEF SendSgi, SgiOutstanding
<1>5. ASSUME NEW c \in CPU, NEW d \in CPU, GuestSgi(c, d)
      PROVE  ShutdownAtHead' /\ ShutdownNeverStranded'
  BY <1>3, <1>5 DEF GuestSgi, SgiOutstanding
<1>6. ASSUME NEW c \in CPU, TakeIrq(c)
      PROVE  ShutdownAtHead' /\ ShutdownNeverStranded'
  BY <1>3, <1>6 DEF TakeIrq, SgiOutstanding
<1>7. ASSUME NEW c \in CPU, Acknowledge(c)
      PROVE  ShutdownAtHead' /\ ShutdownNeverStranded'
  BY <1>3, <1>7 DEF Acknowledge, SgiOutstanding
<1>8. ASSUME NEW c \in CPU, IrqDone(c)
      PROVE  ShutdownAtHead' /\ ShutdownNeverStranded'
  BY <1>3, <1>8 DEF IrqDone, SgiOutstanding
<1>9. CASE UNCHANGED vars
  BY <1>3, <1>9 DEF vars, SgiOutstanding
<1> QED
  BY <1>1, <1>2, <1>4, <1>5, <1>6, <1>7, <1>8, <1>9 DEF Next

(* After event::init IInv holds.                                            *)
LEMMA IInvInit == Init => IInv
BY DEF Init, IInv, TypeOK, ShutdownAtHead, ShutdownNeverStranded, Queued

(* A SHUTDOWN sent to a CPU is the next event it fetches, since add_event   *)
(* empties the queue for it and fetch_event pops the head.                  *)
THEOREM ShutdownFirst == Spec => []ShutdownAtHead
<1>1. IInv => ShutdownAtHead
  BY DEF IInv
<1> QED
  BY <1>1, IInvInit, IInvStep, PTL DEF Spec

(* There is always an SGI under way that makes the CPU fetch it: merging    *)
(* SGIs (the pending bit of the GICv3) and the window of send_event between *)
(* add_event and arch_send_event can strand other events, never this one.   *)
THEOREM ShutdownDelivery == Spec => []ShutdownNeverStranded
<1>1. IInv => ShutdownNeverStranded
  BY DEF IInv
<1> QED
  BY <1>1, IInvInit, IInvStep, PTL DEF Spec
-----------------------------------------------------------------------------
(* SGIs and events are counted against each other.  The SGIs CPU c has not  *)
(* answered yet: the pending one, the acknowledged one, and those of the    *)
(* senders that have pushed their event and not yet sent the SGI.           *)
Senders(c)  == {s \in CPU : pc[s] = "send" /\ dst[s] = c}
Bit(b)      == IF b THEN 1 ELSE 0
SgiCount(c) == Bit(sgi[c]) + Bit(pc[c] = "ack") + Cardinality(Senders(c))

(* A CPU that was sent no SGI without an event of its own has at least one  *)
(* event queued for every SGI still to be answered, and check_events has an *)
(* arm for each of them, so that it has never fetched in vain.              *)
Matched(c) == ~surplus[c] => /\ \A i \in 1 .. Len(events[c]) : events[c][i] \in Handled
                             /\ SgiCount(c) <= Len(events[c])
                             /\ ~spurious[c]

SInv == TypeOK /\ \A c \in CPU : Matched(c)

(* The senders to a CPU are finitely many, since the CPUs are.              *)
LEMMA SendersFinite ==
  ASSUME NEW c \in CPU
  PROVE  IsFiniteSet(Senders(c)) /\ Cardinality(Senders(c)) \in Nat
<1>1. Senders(c) \subseteq CPU /\ IsFiniteSet(CPU)
  BY EventsAssumption DEF Senders
<1>2. IsFiniteSet(Senders(c))
  BY <1>1, FS_Subset
<1> QED
  BY <1>2, FS_CardinalityType

(* A step that touches neither the queue of a CPU nor the SGIs owed to it   *)
(* keeps the two matched.                                                   *)
LEMMA MatchedFrame ==
  ASSUME SInv, NEW k \in CPU,
         events'[k] = events[k], sgi'[k] = sgi[k], surplus'[k] = surplus[k],
         spurious'[k] = spurious[k], (pc'[k] = "ack") <=> (pc[k] = "ack"),
         Senders(k)' = Senders(k)
  PROVE  Matched(k)'
<1>1. SgiCount(k)' = SgiCount(k)
  BY DEF SgiCount, Bit
<1> QED
  BY <1>1 DEF SInv, Matched

(* Every step keeps events and SGIs matched.                                *)
LEMMA SInvStep == SInv /\ [Next]_vars => SInv'
<1> SUFFICES ASSUME SInv, [Next]_vars
             PROVE  SInv'
  OBVIOUS
<1>0. TypeOK /\ TypeOK'
  BY TypeStep DEF SInv
<1> SUFFICES ASSUME NEW k \in CPU
             PROVE  Matched(k)'
  BY <1>0 DEF SInv
<1> USE <1>0 DEF TypeOK
<1>m. Matched(k) /\ IsFiniteSet(Senders(k)) /\ Cardinality(Senders(k)) \in Nat
  BY SendersFinite DEF SInv
<1>1. ASSUME NEW c \in CPU, NEW d \in CPU, NEW e \in Sent, SendAdd(c, d, e)
      PROVE  Matched(k)'
  <2>0. /\ pc[c] = "guest" /\ pc' = [pc EXCEPT ![c] = "send"]
        /\ dst' = [dst EXCEPT ![c] = d]
        /\ events' = [events EXCEPT ![d] = add_event(@, e)]
        /\ surplus' = [surplus EXCEPT ![d] = @ \/ Surplus(events[d], e)]
        /\ UNCHANGED <<sgi, running, spurious>>
    BY <1>1 DEF SendAdd
  <2>1. CASE k # d
    <3>1. Senders(k)' = Senders(k)
      BY <2>0, <2>1 DEF Senders
    <3> QED
      BY <2>0, <2>1, <3>1, MatchedFrame
  <2>2. CASE k = d /\ surplus'[k]
    BY <2>2 DEF Matched
  <2>3. CASE k = d /\ ~surplus'[k]
    <3>0. surplus'[k] = (surplus[k] \/ Surplus(events[k], e))
      BY <2>0, <2>3
    <3>1. ~surplus[k] /\ ~Surplus(events[k], e)
      BY <2>3, <3>0, Zenon
    <3>2. e \in Handled /\ (e = IPI_EVENT_SHUTDOWN => events[k] = <<>>)
      BY <3>1 DEF Surplus
    <3>3. add_event(events[k], e) = Append(events[k], e)
      BY <3>2 DEF add_event
    <3>4. events'[k] = Append(events[k], e)
      BY <2>0, <2>3, <3>3
    <3>5. /\ Len(events'[k]) = Len(events[k]) + 1
          /\ events'[k][Len(events[k]) + 1] = e
          /\ \A i \in 1 .. Len(events[k]) : events'[k][i] = events[k][i]
      BY <3>4, e \in EventId, EventsAssumption
    <3>6. \A i \in 1 .. Len(events'[k]) : events'[k][i] \in Handled
      <4> SUFFICES ASSUME NEW i \in 1 .. Len(events'[k])
                   PROVE  events'[k][i] \in Handled
        OBVIOUS
      <4>1. \A j \in 1 .. Len(events[k]) : events[k][j] \in Handled
        BY <3>1, <1>m DEF Matched
      <4>2. i \in 1 .. Len(events[k]) \/ i = Len(events[k]) + 1
        BY <3>5
      <4> QED
        BY <3>2, <3>5, <4>1, <4>2
    <3>7. Senders(k)' = Senders(k) \cup {c} /\ c \notin Senders(k)
      BY <2>0, <2>3 DEF Senders
    <3>8. Cardinality(Senders(k)') = Cardinality(Senders(k)) + 1
      <4>1. Cardinality(Senders(k) \cup {c}) = Cardinality(Senders(k)) + 1
        BY <1>m, <3>7, FS_AddElement
      <4> QED
        BY <3>7, <4>1
    <3>9. Bit(sgi[k])' = Bit(sgi[k]) /\ Bit(pc[k] = "ack")' = Bit(pc[k] = "ack")
      BY <2>0 DEF Bit
    <3>10. SgiCount(k)' <= Len(events'[k])
      BY <1>m, <3>1, <3>5, <3>8, <3>9 DEF Matched, SgiCount, Bit
    <3> QED
      BY <2>0, <1>m, <3>1, <3>6, <3>10 DEF Matched
  <2> QED
    BY <2>1, <2>2, <2>3
<1>2. ASSUME NEW c \in CPU, SendSgi(c)
      PROVE  Matched(k)'
  <2>0. /\ pc[c] = "send" /\ pc' = [pc EXCEPT ![c] = "guest"]
        /\ dst' = [dst EXCEPT ![c] = c] /\ sgi' = [sgi EXCEPT ![dst[c]] = TRUE]
        /\ UNCHANGED <<events, running, spurious, surplus>>
    BY <1>2 DEF SendSgi
  <2>1. CASE k # dst[c]
    <3>1. Senders(k)' = Senders(k)
      BY <2>0, <2>1 DEF Senders
    <3>2. sgi'[k] = sgi[k] /\ ((pc'[k] = "ack") <=> (pc[k] = "ack"))
      BY <2>0, <2>1
    <3> QED
      BY <2>0, <3>1, <3>2, MatchedFrame
  <2>2. CASE k = dst[c]
    <3>1. Senders(k)' = Senders(k) \ {c} /\ c \in Senders(k)
      BY <2>0, <2>2 DEF Senders
    <3>2. Cardinality(Senders(k)') = Cardinality(Senders(k)) - 1
      BY <1>m, <3>1, FS_RemoveElement
    <3>3. Bit(sgi[k])' = 1 /\ Bit(pc[k] = "ack")' = Bit(pc[k] = "ack")
      BY <2>0, <2>2 DEF Bit
    <3>4. SgiCount(k)' <= SgiCount(k)
      BY <1>m, <3>2, <3>3 DEF SgiCount, Bit
    <3>5. SgiCount(k) \in Nat /\ SgiCount(k)' \in Int
      BY <1>m, <3>2, <3>3 DEF SgiCount, Bit
    <3> QED
      BY <2>0, <1>m, <3>4, <3>5 DEF Matched
  <2> QED
    BY <2>1, <2>2
<1>3. ASSUME NEW c \in CPU, NEW d \in CPU, GuestSgi(c, d)
      PROVE  Matched(k)'
  <2>1. CASE k # d
    <3>1. Senders(k)' = Senders(k)
      BY <1>3 DEF GuestSgi, Senders
    <3> QED
      BY <1>3, <2>1, <3>1, MatchedFrame DEF GuestSgi
  <2>2. CASE k = d
    BY <1>3, <2>2 DEF GuestSgi, Matched
  <2> QED
    BY <2>1, <2>2
<1>4. ASSUME NEW c \in CPU, TakeIrq(c) \/ IrqDone(c)
      PROVE  Matched(k)'
  <2>1. Senders(k)' = Senders(k)
    BY <1>4 DEF TakeIrq, IrqDone, Senders
  <2> QED
    BY <1>4, <2>1, MatchedFrame DEF TakeIrq, IrqDone
<1>5. ASSUME NEW c \in CPU, Acknowledge(c)
      PROVE  Matched(k)'
  <2>1. Senders(k)' = Senders(k)
    BY <1>5 DEF Acknowledge, Senders
  <2>2. CASE k # c
    BY <1>5, <2>1, <2>2, MatchedFrame DEF Acknowledge
  <2>3. CASE k = c
    <3>1. SgiCount(k)' = SgiCount(k)
      BY <1>5, <1>m, <2>1, <2>3 DEF Acknowledge, SgiCount, Bit
    <3> QED
      BY <1>5, <1>m, <3>1 DEF Acknowledge, Matched
  <2> QED
    BY <2>2, <2>3
<1>6. ASSUME NEW c \in CPU, check_events(c)
      PROVE  Matched(k)'
  <2>0. /\ pc[c] = "ack"
        /\ pc' = [pc EXCEPT ![c] = "guest"] \/ pc' = [pc EXCEPT ![c] = "irq"]
        /\ events' = [events EXCEPT ![c] = fetch_event(@)]
        /\ UNCHANGED <<sgi, dst, surplus>>
    BY <1>6 DEF check_events
  <2>1. Senders(k)' = Senders(k)
    BY <2>0 DEF Senders
  <2>2. CASE k # c
    <3>1. spurious'[k] = spurious[k]
      BY <1>6, <2>2 DEF check_events
    <3> QED
      BY <2>0, <2>1, <2>2, <3>1, MatchedFrame
  <2>3. CASE k = c /\ surplus[k]
    BY <2>0, <2>3 DEF Matched
  <2>4. CASE k = c /\ ~surplus[k]
    <3>1. SgiCount(k)' = SgiCount(k) - 1 /\ SgiCount(k) \in Nat /\ SgiCount(k) >= 1
      BY <2>0, <1>m, <2>1, <2>4 DEF SgiCount, Bit
    <3>2. Len(events[k]) >= 1 /\ events[k] # <<>>
      BY <3>1, <1>m, <2>4 DEF Matched
    <3>3. events'[k] = Tail(events[k])
      BY <2>0, <2>4, <3>2 DEF fetch_event
    <3>4. /\ Len(events'[k]) = Len(events[k]) - 1
          /\ \A i \in 1 .. Len(events'[k]) : events'[k][i] = events[k][i + 1]
      BY <3>2, <3>3
    <3>5. Head(events[k]) \in Handled /\ {Head(events[k])} \cap Handled # {}
      BY <3>2, <1>m, <2>4 DEF Matched
    <3>6. spurious' = spurious
      BY <1>6, <2>4, <3>2, <3>5 DEF check_events
    <3>7. \A i \in 1 .. Len(events'[k]) : events'[k][i] \in Handled
      <4> SUFFICES ASSUME NEW i \in 1 .. Len(events'[k])
                   PROVE  events'[k][i] \in Handled
        OBVIOUS
      <4>1. \A j \in 1 .. Len(events[k]) : events[k][j] \in Handled
        BY <1>m, <2>4 DEF Matched
      <4>2. i + 1 \in 1 .. Len(events[k])
        BY <3>4
      <4> QED
        BY <3>4, <4>1, <4>2
    <3> QED
      BY <2>0, <2>4, <1>m, <3>1, <3>4, <3>6, <3>7 DEF Matched
  <2> QED
    BY <2>2, <2>3, <2>4
<1>7. CASE UNCHANGED vars
  <2>1. Senders(k)' = Senders(k)
    BY <1>7 DEF vars, Senders
  <2> QED
    BY <1>7, <2>1, MatchedFrame DEF vars
<1> QED
  BY <1>1, <1>2, <1>3, <1>4, <1>5, <1>6, <1>7 DEF Next

(* gicv3_handle_irq_el1 injects SGI_IPI_ID into a guest that did not ask    *)
(* for it only where a guest sent SGI 7, a SHUTDOWN discarded the events of *)
(* SGIs under way, or an event without an arm was sent: never because SGIs  *)
(* merged, whatever the number of CPUs and the order of their steps.        *)
THEOREM SpuriousOnlyBySurplus == Spec => []NoSpuriousIpi
<1>1. Init => SInv
  <2> SUFFICES ASSUME Init
               PROVE  SInv
    OBVIOUS
  <2>1. TypeOK
    BY DEF Init, TypeOK
  <2>2. ASSUME NEW c \in CPU
        PROVE  Matched(c)
    <3>1. Senders(c) = {}
      BY DEF Init, Senders
    <3>2. Cardinality(Senders(c)) = 0
      BY <3>1, FS_EmptySet
    <3> QED
      BY <3>2 DEF Init, Matched, SgiCount, Bit
  <2> QED
    BY <2>1, <2>2 DEF SInv
<1>2. SInv => NoSpuriousIpi
  BY DEF SInv, Matched, NoSpuriousIpi
<1> QED
  BY <1>1, <1>2, SInvStep, PTL DEF Spec
============================================================================

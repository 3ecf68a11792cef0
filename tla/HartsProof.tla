----------------------------- MODULE HartsProof -----------------------------
(***************************************************************************)
(* Proofs about what runs on the harts of riscv64 and the CPUs of           *)
(* loongarch64: the delivery of events (EventsLevel), the shared APLIC      *)
(* (Aplic), the virtual PLIC (Vplic), the timers and the emulated loads of  *)
(* a zone's harts (RiscvHart) and the exits of a loongarch64 guest          *)
(* (LoongVcpu), for any CPUs, harts, interrupts and sources, any bounds on  *)
(* the queues, any width of a byte and any first CPUs of zones.             *)
(***************************************************************************)
EXTENDS EventsLevel, Aplic, Vplic, RiscvHart, LoongVcpu, Powers, WellFoundedInduction, TLAPS

(* What the proof needs of the shapes of the queues and of the CPUs' places.*)
LevelShape == /\ events \in [CPU -> Seq(EventId)]
              /\ ipi \in [CPU -> BOOLEAN]
              /\ pc \in [CPU -> {"guest", "drain", "add", "send", "check", "clear"}]
              /\ dst \in [CPU -> CPU] /\ ev \in [CPU -> EventId]
              /\ raced \in [CPU -> BOOLEAN] /\ cut \in [CPU -> BOOLEAN]
              /\ foreign \in [CPU -> BOOLEAN] /\ ignored \in [CPU -> BOOLEAN]
              /\ arch \in Arch

(* An IPI is about to be sent to c, or one is set that the handler of c is  *)
(* not about to clear.                                                      *)
Announced(c) == \/ \E s \in CPU : pc[s] = "send" /\ dst[s] = c
                \/ ipi[c] /\ pc[c] # "clear"

(* The inductive invariant.  An IPI that is set does not suffice: the one a *)
(* CPU is about to clear announces nothing any more.                        *)
LevelInv == LevelShape /\ \A c \in CPU : events[c] # <<>> =>
                                       Announced(c) \/ raced[c] \/ cut[c] \/ ignored[c]

(* Every step keeps the shapes.                                             *)
LEMMA LevelShapeStep == LevelShape /\ [Next]_vars => LevelShape'
<1> SUFFICES ASSUME LevelShape, [Next]_vars
             PROVE  LevelShape'
  OBVIOUS
<1> USE DEF LevelShape
<1>1. ASSUME NEW c \in CPU, NEW d \in CPU, NEW e \in Sent[arch], SendEvent(c, d, e)
      PROVE  LevelShape'
  <2>1. e \in EventId
    BY LevelAssumption
  <2> QED
    BY <1>1, <2>1 DEF SendEvent, Goto, foreignVars
<1>2. ASSUME NEW c \in CPU, SendDrain(c)
      PROVE  LevelShape'
  <2>1. fetch_event(events[dst[c]]) \in Seq(EventId)
    BY DEF fetch_event
  <2> QED
    BY <1>2, <2>1 DEF SendDrain, Goto, foreignVars
<1>3. ASSUME NEW c \in CPU, SendAdd(c)
      PROVE  LevelShape'
  <2>1. add_event(events[dst[c]], ev[c]) \in Seq(EventId)
    BY DEF add_event
  <2> QED
    BY <1>3, <2>1 DEF SendAdd, Goto, foreignVars
<1>4. ASSUME NEW c \in CPU, SendIpi(c)
      PROVE  LevelShape'
  <2>1. IPI_EVENT_WAKEUP \in EventId
    BY DEF IPI_EVENT_WAKEUP, EventId
  <2> QED
    BY <1>4, <2>1 DEF SendIpi, Goto, foreignVars, aclint_send_ipi, ipi_write_action
<1>5. ASSUME NEW c \in CPU, TakeIrq(c)
      PROVE  LevelShape'
  BY <1>5 DEF TakeIrq, Goto
<1>6. ASSUME NEW c \in CPU, check_events(c)
      PROVE  LevelShape'
  <2>1. fetch_event(events[c]) \in Seq(EventId)
    BY DEF fetch_event
  <2>2. events' \in [CPU -> Seq(EventId)] /\ UNCHANGED <<arch, ipi, dst, ev, raced, foreignVars>>
    BY <1>6, <2>1 DEF check_events, foreignVars
  <2>3. pc' \in [CPU -> {"guest", "drain", "add", "send", "check", "clear"}]
    BY <1>6 DEF check_events, Goto
  <2>4. cut' \in [CPU -> BOOLEAN]
    BY <1>6 DEF check_events
  <2> QED
    BY <2>2, <2>3, <2>4 DEF foreignVars
<1>7. ASSUME NEW c \in CPU, ClearIpi(c)
      PROVE  LevelShape'
  BY <1>7 DEF ClearIpi, Goto, clear_ssoft, reset_ipi
<1>8. CASE UNCHANGED vars
  BY <1>8 DEF vars, foreignVars
<1>9. ASSUME NEW c \in CPU, NEW d \in Reached, ForeignIpi(c, d)
      PROVE  LevelShape'
  BY <1>9, LevelAssumption DEF ForeignIpi
<1> HIDE DEF LevelShape
<1> QED
  BY <1>1, <1>2, <1>3, <1>4, <1>5, <1>6, <1>7, <1>8, <1>9 DEF Next

(* Every step of a sender and of a handler keeps LevelInv.                  *)
LEMMA LevelStep == LevelInv /\ [Next]_vars => LevelInv'
<1> SUFFICES ASSUME LevelInv, [Next]_vars
             PROVE  LevelInv'
  OBVIOUS
<1>0. LevelShape /\ LevelShape'
  BY LevelShapeStep DEF LevelInv
<1> SUFFICES ASSUME NEW k \in CPU, events'[k] # <<>>
             PROVE  Announced(k)' \/ raced'[k] \/ cut'[k] \/ ignored'[k]
  BY <1>0 DEF LevelInv
<1>m. events[k] # <<>> => Announced(k) \/ raced[k] \/ cut[k] \/ ignored[k]
  BY DEF LevelInv
<1> USE <1>0 DEF LevelShape
<1> HIDE DEF LevelInv
<1>1. ASSUME NEW c \in CPU, NEW d \in CPU, NEW e \in Sent[arch], SendEvent(c, d, e)
      PROVE  Announced(k)' \/ raced'[k] \/ cut'[k] \/ ignored'[k]
  BY <1>1, <1>m DEF SendEvent, Goto, foreignVars, Announced
<1>2. ASSUME NEW c \in CPU, SendDrain(c)
      PROVE  Announced(k)' \/ raced'[k] \/ cut'[k] \/ ignored'[k]
  <2>1. events[k] # <<>>
    BY <1>2 DEF SendDrain, fetch_event
  <2> QED
    BY <1>2, <1>m, <2>1 DEF SendDrain, Goto, foreignVars, Announced
<1>3. ASSUME NEW c \in CPU, SendAdd(c)
      PROVE  Announced(k)' \/ raced'[k] \/ cut'[k] \/ ignored'[k]
  <2>1. CASE k = dst[c]
    BY <1>3, <2>1 DEF SendAdd, Goto, foreignVars, Announced
  <2>2. CASE k # dst[c]
    BY <1>3, <1>m, <2>2 DEF SendAdd, Goto, foreignVars, Announced
  <2> QED
    BY <2>1, <2>2
<1>4. ASSUME NEW c \in CPU, SendIpi(c)
      PROVE  Announced(k)' \/ raced'[k] \/ cut'[k] \/ ignored'[k]
  <2>0. /\ pc[c] = "send" /\ pc' = [pc EXCEPT ![c] = "guest"]
        /\ ipi' = [ipi EXCEPT ![dst[c]] = TRUE]
        /\ dst' = [dst EXCEPT ![c] = c]
        /\ raced' = [raced EXCEPT ![dst[c]] = @ \/ pc[dst[c]] = "clear"]
        /\ UNCHANGED <<events, cut, ignored>>
    BY <1>4 DEF SendIpi, Goto, foreignVars, aclint_send_ipi, ipi_write_action
  <2>1. CASE k = dst[c] /\ pc[k] = "clear"
    BY <2>0, <2>1
  <2>2. CASE k = dst[c] /\ pc[k] # "clear"
    BY <2>0, <2>2 DEF Announced
  <2>3. CASE k # dst[c]
    BY <2>0, <1>m, <2>3 DEF Announced
  <2> QED
    BY <2>1, <2>2, <2>3
<1>5. ASSUME NEW c \in CPU, TakeIrq(c)
      PROVE  Announced(k)' \/ raced'[k] \/ cut'[k] \/ ignored'[k]
  BY <1>5, <1>m DEF TakeIrq, Goto, Announced
<1>6. ASSUME NEW c \in CPU, check_events(c)
      PROVE  Announced(k)' \/ raced'[k] \/ cut'[k] \/ ignored'[k]
  <2>0. /\ pc[c] = "check" /\ UNCHANGED <<ipi, dst, raced, ignored>>
        /\ events' = [events EXCEPT ![c] = fetch_event(@)]
    BY <1>6 DEF check_events, foreignVars
  <2>1. events[k] # <<>>
    BY <2>0 DEF fetch_event
  <2>2. CASE k # c
    <3>1. pc'[k] = pc[k] /\ cut'[k] = cut[k]
      BY <1>6, <2>2 DEF check_events, Goto
    <3>2. \A s \in CPU : pc[s] = "send" => pc'[s] = "send"
      BY <1>6 DEF check_events, Goto
    <3> QED
      BY <2>0, <1>m, <2>1, <3>1, <3>2 DEF Announced
  <2>3. CASE k = c
    <3>1. \A s \in CPU : pc[s] = "send" => pc'[s] = "send"
      BY <1>6 DEF check_events, Goto
    <3>2. CASE Head(events[c]) \in Handled \cup NotReturning
      <4>1. pc'[c] # "clear"
        BY <1>6, <2>1, <2>3, <3>2 DEF check_events, Goto
      <4>2. cut'[c] = cut[c]
        BY <1>6, <2>1, <2>3, <3>2 DEF check_events
      <4> QED
        BY <2>0, <1>m, <2>1, <2>3, <3>1, <4>1, <4>2 DEF Announced
    <3>3. CASE Head(events[c]) \notin Handled \cup NotReturning
      <4>1. cut' = [cut EXCEPT ![c] = @ \/ (/\ events[c] # <<>>
                                           /\ Head(events[c]) \notin Handled \cup NotReturning)]
        BY <1>6 DEF check_events
      <4>2. cut'[c] = (cut[c] \/ (/\ events[c] # <<>>
                                 /\ Head(events[c]) \notin Handled \cup NotReturning))
        BY <4>1
      <4>3. cut'[c]
        BY <2>1, <2>3, <3>3, <4>2, Zenon
      <4> QED
        BY <2>3, <4>3, Zenon
    <3> QED
      BY <3>2, <3>3
  <2> QED
    BY <2>2, <2>3
<1>7. ASSUME NEW c \in CPU, ClearIpi(c)
      PROVE  Announced(k)' \/ raced'[k] \/ cut'[k] \/ ignored'[k]
  BY <1>7, <1>m DEF ClearIpi, Goto, clear_ssoft, reset_ipi, Announced
<1>8. CASE UNCHANGED vars
  BY <1>8, <1>m DEF vars, foreignVars, Announced
<1>9. ASSUME NEW c \in CPU, NEW d \in Reached, ForeignIpi(c, d)
      PROVE  Announced(k)' \/ raced'[k] \/ cut'[k] \/ ignored'[k]
  BY <1>9, <1>m, LevelAssumption DEF ForeignIpi, Announced
<1> QED
  BY <1>1, <1>2, <1>3, <1>4, <1>5, <1>6, <1>7, <1>8, <1>9 DEF Next

(* handle_software_interrupt of riscv64 and handle_interrupt of loongarch64 *)
(* leave an event behind with no IPI to announce it only if the IPI came    *)
(* between the end of their loop and the clearing of the bit, the loop      *)
(* ended at an event without an arm, or a guest's IPI made the handler      *)
(* ignore it: however many CPUs send to one another, whatever IPIs merge,   *)
(* and whether or not send_event empties the queue.                         *)
THEOREM StrandedByRaceOnly == Spec => []StrandedOnlyByRace
<1>1. Init => LevelInv
  <2> SUFFICES ASSUME Init
               PROVE  LevelInv
    OBVIOUS
  <2>1. IPI_EVENT_WAKEUP \in EventId
    BY DEF IPI_EVENT_WAKEUP, EventId
  <2> QED
    BY <2>1 DEF Init, LevelInv, LevelShape
<1>2. LevelInv => StrandedOnlyByRace
  BY DEF LevelInv, LevelShape, StrandedOnlyByRace, Announced, Outstanding
<1> QED
  BY <1>1, <1>2, LevelStep, PTL DEF Spec
-----------------------------------------------------------------------------
(* The inductive invariant: the properties, and that the registers of every *)
(* source are there.                                                        *)
AplicShape == /\ srccfg \in [Source -> Mode] /\ rootMode \in [Foreign -> Mode]
              /\ DOMAIN target = Source /\ target = [s \in Source |-> target[s]]
              /\ rootTarget = [s \in Foreign |-> rootTarget[s]]
AplicInv == AplicShape /\ ModesKept /\ ForeignTargetsDirect

(* A store to sourcecfg keeps the modes of the root's sources: a CPU other  *)
(* than 3 moves the register and the history together, CPU 3 only delegates.*)
LEMMA SourceStep ==
  ASSUME AplicInv, NEW c \in ACpu, NEW s \in Source, NEW m \in Mode, WriteSource(c, s, m)
  PROVE  AplicInv'
<1>1. /\ UNCHANGED <<target, rootTarget>>
      /\ \/ srccfg' = srccfg
         \/ srccfg' = [srccfg EXCEPT ![s] = m]
      /\ rootMode' = rootMode \/ (s \in Foreign /\ rootMode' = [rootMode EXCEPT ![s] = m])
  BY DEF WriteSource, set_sourcecfg, set_sourcecfg_delegate
<1>2. AplicShape'
  BY <1>1 DEF AplicInv, AplicShape
<1>3. ASSUME NEW t \in Foreign
      PROVE  (srccfg[t] \in {rootMode[t], "Delegated"})'
  <2>1. CASE t # s
    BY <1>1, <2>1 DEF AplicInv, AplicShape, ModesKept, Foreign
  <2>2. CASE t = s /\ m = "Delegated"
    BY <2>2 DEF WriteSource, set_sourcecfg_delegate, AplicInv, AplicShape, Foreign
  <2>3. CASE t = s /\ m # "Delegated" /\ c = GuestCpu
    <3>1. ~OwnSource(c, s)
      BY <2>3 DEF OwnSource, Foreign
    <3> QED
      BY <2>3, <3>1 DEF WriteSource, AplicInv, ModesKept
  <2>4. CASE t = s /\ m # "Delegated" /\ c # GuestCpu
    <3>1. OwnSource(c, s)
      BY <2>4 DEF OwnSource
    <3>2. srccfg'[s] = m /\ rootMode'[s] = m
      BY <2>4, <3>1 DEF WriteSource, set_sourcecfg, AplicInv, AplicShape
    <3> QED
      BY <2>4, <3>2
  <2> QED
    BY <2>1, <2>2, <2>3, <2>4
<1> QED
  BY <1>1, <1>2, <1>3 DEF AplicInv, ModesKept, ForeignTargetsDirect

(* A store to a target register: what differs from the history afterwards   *)
(* was written by CPU 3, which had seen direct delivery.                    *)
LEMMA TargetStep ==
  ASSUME AplicInv, NEW c \in ACpu, NEW s \in Source, NEW h, WriteTarget(c, s, h)
  PROVE  AplicInv'
<1> DEFINE hart == h + FirstCpu[c]
           t    == IF seen[c] = "msi" THEN set_target_msi(hart) ELSE set_target_direct(hart)
<1>1. /\ UNCHANGED <<srccfg, rootMode>>
      /\ target' = IF seen[c] = "msi" => OwnSource(c, s) THEN [target EXCEPT ![s] = t] ELSE target
      /\ rootTarget' = IF c # GuestCpu /\ s \in Foreign
                         THEN [rootTarget EXCEPT ![s] = t] ELSE rootTarget
  BY DEF WriteTarget
<1>2. seen[c] # "msi" => t.fmt = "direct"
  BY DEF set_target_direct
<1> HIDE DEF t
<1>3. AplicShape'
  BY <1>1 DEF AplicInv, AplicShape
<1>4. ASSUME NEW x \in Foreign, target'[x] # rootTarget'[x]
      PROVE  target'[x].fmt = "direct"
  <2>1. CASE x # s
    BY <1>1, <1>4, <2>1 DEF AplicInv, AplicShape, ForeignTargetsDirect, Foreign
  <2>2. CASE x = s /\ c # GuestCpu
    <3>1. target'[s] = t /\ rootTarget'[s] = t
      BY <1>1, <2>2 DEF OwnSource, AplicInv, AplicShape
    <3> QED
      BY <1>4, <2>2, <3>1
  <2>3. CASE x = s /\ c = GuestCpu /\ seen[c] = "msi"
    <3>1. ~OwnSource(c, s)
      BY <2>3 DEF OwnSource, Foreign
    <3> QED
      BY <1>1, <1>4, <2>3, <3>1 DEF AplicInv, ForeignTargetsDirect
  <2>4. CASE x = s /\ seen[c] # "msi"
    <3>1. target'[s] = t
      BY <1>1, <2>4 DEF AplicInv, AplicShape
    <3> QED
      BY <1>2, <2>4, <3>1
  <2> QED
    BY <2>1, <2>2, <2>3, <2>4
<1> QED
  BY <1>1, <1>3, <1>4 DEF AplicInv, ModesKept, ForeignTargetsDirect

(* Every store to the shared APLIC keeps AplicInv.                              *)
LEMMA AplicStep == AplicInv /\ [AplicNext]_avars => AplicInv'
<1> SUFFICES ASSUME AplicInv, [AplicNext]_avars
             PROVE  AplicInv'
  OBVIOUS
<1>1. ASSUME UNCHANGED <<srccfg, target, rootMode, rootTarget>>
      PROVE  AplicInv'
  BY <1>1 DEF AplicInv, AplicShape, ModesKept, ForeignTargetsDirect
<1>2. ASSUME NEW c \in ACpu, NEW d \in BOOLEAN, WriteDomain(c, d)
      PROVE  AplicInv'
  BY <1>1, <1>2 DEF WriteDomain
<1>3. ASSUME NEW c \in ACpu, NEW s \in Source, WriteEnable(c, s)
      PROVE  AplicInv'
  BY <1>1, <1>3 DEF WriteEnable
<1>4. ASSUME NEW c \in ACpu, NEW a \in {0, 1}, WriteMsiaddr(c, a)
      PROVE  AplicInv'
  BY <1>1, <1>4 DEF WriteMsiaddr
<1>5. ASSUME NEW c \in ACpu, ReadMode(c) \/ Unexpected(c)
      PROVE  AplicInv'
  BY <1>1, <1>5 DEF ReadMode, Unexpected
<1>6. CASE UNCHANGED avars
  BY <1>1, <1>6 DEF avars
<1> QED
  BY <1>2, <1>3, <1>4, <1>5, <1>6, SourceStep, TargetStep DEF AplicNext

(* The initial state of the shared APLIC satisfies AplicInv.                    *)
LEMMA AplicStart == AplicInit => AplicInv
<1> SUFFICES ASSUME AplicInit
             PROVE  AplicInv
  OBVIOUS
<1>1. AplicShape
  BY DEF AplicInit, AplicShape, Mode
<1>2. ModesKept
  BY DEF AplicInit, ModesKept, Foreign
<1>3. ForeignTargetsDirect
  BY DEF AplicInit, ForeignTargetsDirect, Foreign
<1> QED
  BY <1>1, <1>2, <1>3 DEF AplicInv

(* Whatever CPU 3 stores through vaplic_emul_handler, and however the       *)
(* stores of the CPUs interleave, a source that is not its zone's has the   *)
(* mode the other CPUs gave it or is delegated; and its target differs from *)
(* what they wrote only by one for direct delivery, the store               *)
(* vaplic_emul_handler does not test.  Reading the delivery mode under a    *)
(* lock of its own adds no other.                                           *)
THEOREM SourcesKept == AplicSpec => []RootSourcesKept
<1>1. AplicInv => RootSourcesKept
  BY DEF AplicInv, RootSourcesKept
<1> QED
  BY <1>1, AplicStart, AplicStep, PTL DEF AplicSpec
-----------------------------------------------------------------------------
(* The virtual PLIC of a zone, with any harts, interrupts and affinities.   *)

(* A set of natural numbers that has an element has a least one.            *)
LEMMA LeastNat ==
  ASSUME NEW S \in SUBSET Nat, S # {}
  PROVE  \E x \in S : \A y \in S : x <= y
<1> DEFINE R == OpToRel(<, Nat)
<1>1. R = {ss \in Nat \X Nat : ss[1] < ss[2]}
  BY Zenon DEF OpToRel
<1>2. IsWellFoundedOn(R, Nat)
  BY NatLessThanWellFounded, Zenon
<1> HIDE DEF R
<1>3. PICK x \in S : \A y \in S : ~(<<y, x>> \in R)
  BY <1>2, WFMin, Zenon
<1>4. ASSUME NEW y \in S
      PROVE  x <= y
  <2>1. <<y, x>> \in Nat \X Nat /\ <<y, x>>[1] = y /\ <<y, x>>[2] = x
    OBVIOUS
  <2>2. ~(y < x)
    BY <1>1, <1>3, <2>1, Zenon
  <2> QED
    BY <2>2
<1> QED
  BY <1>4

(* The scan of vplic_get_next_pending ends at an interrupt, if there is     *)
(* one, and at none of a lower priority.                                    *)
LEMMA BestFound ==
  ASSUME NEW S \in SUBSET Nat, NEW n \in Nat, NEW prio, \A j \in S : prio[j] \in 0 .. n,
         NEW i \in S
  PROVE  \E b \in Best(S, prio) : prio[b] >= prio[i]
<1> DEFINE D == {n - prio[j] : j \in S}
<1>1. D \in SUBSET Nat /\ D # {}
  OBVIOUS
<1>2. PICK d \in D : \A e \in D : d <= e
  BY <1>1, LeastNat
<1>3. PICK k \in S : d = n - prio[k]
  BY <1>2
<1>4. \A j \in S : prio[k] >= prio[j]
  <2>1. \A j \in S : n - prio[k] <= n - prio[j]
    BY <1>2, <1>3
  <2> QED
    BY <2>1
<1> DEFINE E == {j \in S : prio[j] = prio[k]}
<1>5. E \in SUBSET Nat /\ E # {}
  BY <1>3
<1>6. PICK b \in E : \A j \in E : b <= j
  BY <1>5, LeastNat
<1>7. b \in Best(S, prio)
  <2>1. ASSUME NEW j \in S
        PROVE  prio[b] > prio[j] \/ (prio[b] = prio[j] /\ b <= j)
    <3>1. prio[b] = prio[k] /\ prio[k] >= prio[j] /\ prio[k] \in Nat /\ prio[j] \in Nat
      <4>1. prio[j] \in 0 .. n /\ prio[k] \in 0 .. n
        BY <1>3, <2>1
      <4>2. prio[b] = prio[k]
        BY <1>6
      <4>3. prio[k] >= prio[j]
        BY <1>4, <2>1
      <4> HIDE DEF E
      <4> QED
        BY <4>1, <4>2, <4>3
    <3>2. CASE prio[j] = prio[k]
      BY <1>6, <3>1, <3>2
    <3>3. CASE prio[j] # prio[k]
      BY <3>1, <3>3
    <3> QED
      BY <3>2, <3>3
  <2> QED
    BY <1>6, <2>1 DEF Best
<1> QED
  BY <1>4, <1>6, <1>7

VplicShape == /\ pending \subseteq Irq /\ active \subseteq Irq
              /\ priority \in [Irq -> Prio] /\ threshold \in [Hart -> Prio]
              /\ enable \in [Hart -> SUBSET Irq] /\ handling \in [Hart -> SUBSET Irq]
              /\ vseip \in [Hart -> BOOLEAN]
              /\ affinity \in [Hart -> SUBSET Irq]
              /\ p_enable \in [Hart -> SUBSET HwIrq] /\ p_pending \subseteq HwIrq

(* The physical PLIC takes the completion: what a hart has enabled, and     *)
(* what it handles, was enabled for its context at the physical PLIC, where *)
(* set_enable_num never clears a bit.                                       *)
Completable == /\ p_claimed \subseteq HwIrq
               /\ \A c \in Hart : (enable[c] \cup handling[c]) \cap HwIrq \subseteq p_enable[c]

KeptToAffinity == \A c \in Hart : enable[c] \cup handling[c] \subseteq affinity[c]

VplicInv == /\ VplicShape /\ Completable /\ KeptToAffinity
            /\ ClaimsKept /\ SoftIrqSignalled

(* What a claim answers is pending, not active and enabled at the hart.     *)
LEMMA NextPending ==
  ASSUME NEW c, NEW e
  PROVE  next_pending(c, e) \subseteq (pending \ active) \cap e
BY DEF next_pending, Best

(* Every operation keeps the shapes.                                        *)
LEMMA VplicShapeStep ==
  ASSUME VplicShape, [VplicNext]_vplicVars
  PROVE  VplicShape'
<1> USE DEF VplicShape, vplic, plic
<1>1. ASSUME NEW i \in Irq, Raise(i)
      PROVE  VplicShape'
  BY <1>1 DEF Raise
<1>2. CASE Restart
  BY <1>2, VplicAssumption DEF Restart, Prio
<1>3. ASSUME NEW h \in Hart, ExternalInterrupt(h)
      PROVE  VplicShape'
  <2>1. PICK i \in PlicClaim(h) :
          /\ p_pending' = p_pending \ {i}
          /\ UNCHANGED <<active, priority, enable, threshold, p_priority, p_enable, p_threshold, handling, affinity>>
          /\ inject_irq(h, i)
    BY <1>3 DEF ExternalInterrupt
  <2>2. i \in HwIrq
    BY <2>1 DEF PlicClaim, Best
  <2> QED
    BY <2>1, <2>2 DEF inject_irq, update_hart_line, Irq
<1>4. ASSUME NEW h \in Hart, UpdateEvent(h) \/ Claim(h)
      PROVE  VplicShape'
  <2>1. next_pending(h, enable[h]) \subseteq pending
    BY NextPending
  <2> QED
    BY <1>4, <2>1, ZenonT(30) DEF UpdateEvent, Claim, update_hart_line
<1>5. ASSUME NEW h \in Hart, NEW i \in SwIrq, InjectSoft(h, i)
      PROVE  VplicShape'
  BY <1>5 DEF InjectSoft, inject_irq, update_hart_line, Irq
<1>6. ASSUME NEW h \in Hart, NEW i \in Irq, NEW v \in Prio, PriorityWrite(h, i, v)
      PROVE  VplicShape'
  BY <1>6 DEF PriorityWrite, update_hart_line
<1>7. ASSUME NEW h \in Hart, NEW c \in Hart, NEW S \in SUBSET affinity[c], EnableWrite(h, c, S)
      PROVE  VplicShape'
  BY <1>7 DEF EnableWrite, set_enable_num
<1>8. ASSUME NEW h \in Hart, NEW v \in Prio, ThresholdWrite(h, v)
      PROVE  VplicShape'
  BY <1>8 DEF ThresholdWrite, update_hart_line
<1>9. ASSUME NEW h \in Hart, NEW i \in Irq, Complete(h, i)
      PROVE  VplicShape'
  BY <1>9 DEF Complete, update_hart_line
<1>10. CASE UNCHANGED vplicVars
  BY <1>10 DEF vplicVars
<1> HIDE DEF VplicShape
<1> QED
  BY <1>1, <1>2, <1>3, <1>4, <1>5, <1>6, <1>7, <1>8, <1>9, <1>10 DEF VplicNext

(* Every operation keeps the claims, and that they can be completed.        *)
LEMMA ClaimsStep ==
  ASSUME VplicShape, Completable, ClaimsKept, [VplicNext]_vplicVars
  PROVE  Completable' /\ ClaimsKept'
<1> USE DEF VplicShape, Completable, ClaimsKept, ClaimedOnce, ClaimIsOwed, vplic, plic
<1>1. ASSUME NEW i \in Irq, Raise(i)
      PROVE  Completable' /\ ClaimsKept'
  BY <1>1 DEF Raise
<1>2. CASE Restart
  BY <1>2 DEF Restart
<1>3. ASSUME NEW h \in Hart, ExternalInterrupt(h)
      PROVE  Completable' /\ ClaimsKept'
  <2>1. PICK i \in PlicClaim(h) :
          /\ p_claimed' = p_claimed \cup {i}
          /\ UNCHANGED <<active, enable, p_enable, handling>>
          /\ inject_irq(h, i)
    BY <1>3 DEF ExternalInterrupt
  <2>2. i \in HwIrq
    BY <2>1 DEF PlicClaim, Best
  <2> QED
    BY <2>1, <2>2 DEF inject_irq
<1>4. ASSUME NEW h \in Hart, Claim(h)
      PROVE  Completable' /\ ClaimsKept'
  <2> DEFINE N == next_pending(h, enable[h])
  <2>1. N \subseteq (pending \ active) \cap enable[h]
    BY NextPending
  <2>2. /\ pending' = pending \ N /\ active' = active \cup N
        /\ handling' = [handling EXCEPT ![h] = @ \cup N]
        /\ UNCHANGED <<enable, p_enable, p_claimed>>
    BY <1>4 DEF Claim
  <2> HIDE DEF N
  <2>3. Completable'
    BY <2>1, <2>2
  <2>4. ClaimsKept'
    BY <2>1, <2>2
  <2> QED
    BY <2>3, <2>4
<1>5. ASSUME NEW h \in Hart, NEW i \in SwIrq, InjectSoft(h, i)
      PROVE  Completable' /\ ClaimsKept'
  BY <1>5 DEF InjectSoft, inject_irq
<1>6. ASSUME NEW h \in Hart, NEW i \in Irq, NEW v \in Prio, PriorityWrite(h, i, v)
      PROVE  Completable' /\ ClaimsKept'
  BY <1>6 DEF PriorityWrite
<1>7. ASSUME NEW h \in Hart, NEW c \in Hart, NEW S \in SUBSET affinity[c], EnableWrite(h, c, S)
      PROVE  Completable' /\ ClaimsKept'
  <2>1. /\ enable' = [enable EXCEPT ![c] = S]
        /\ p_enable' = [p_enable EXCEPT
             ![c] = @ \cup (((S \cup enable[c]) \ (S \cap enable[c])) \cap S \cap HwIrq)]
        /\ UNCHANGED <<active, pending, p_claimed, handling>>
    BY <1>7 DEF EnableWrite, set_enable_num
  <2> QED
    BY <2>1
<1>8. ASSUME NEW h \in Hart, UpdateEvent(h) \/ \E v \in Prio : ThresholdWrite(h, v)
      PROVE  Completable' /\ ClaimsKept'
  BY <1>8 DEF UpdateEvent, ThresholdWrite
<1>9. ASSUME NEW h \in Hart, NEW i \in Irq, Complete(h, i)
      PROVE  Completable' /\ ClaimsKept'
  BY <1>9 DEF Complete
<1>10. CASE UNCHANGED vplicVars
  BY <1>10 DEF vplicVars
<1> HIDE DEF Completable, ClaimsKept
<1> QED
  BY <1>1, <1>2, <1>3, <1>4, <1>5, <1>6, <1>7, <1>8, <1>9, <1>10 DEF VplicNext

(* Guests enable, and so claim, only what they keep to the hart.            *)
LEMMA AffinityStep ==
  ASSUME VplicShape, KeptToAffinity, [VplicNext]_vplicVars
  PROVE  KeptToAffinity' /\ affinity' = affinity
<1> USE DEF VplicShape, KeptToAffinity, vplic, plic
<1>1. CASE Restart \/ \E i \in Irq : Raise(i)
  BY <1>1 DEF Restart, Raise
<1>2. ASSUME NEW h \in Hart, Claim(h)
      PROVE  KeptToAffinity' /\ affinity' = affinity
  <2>1. next_pending(h, enable[h]) \subseteq enable[h]
    BY NextPending
  <2> QED
    BY <1>2, <2>1 DEF Claim
<1>3. ASSUME NEW h \in Hart, NEW c \in Hart, NEW S \in SUBSET affinity[c], EnableWrite(h, c, S)
      PROVE  KeptToAffinity' /\ affinity' = affinity
  BY <1>3 DEF EnableWrite
<1>4. ASSUME NEW h \in Hart, ExternalInterrupt(h) \/ UpdateEvent(h) \/ \E i \in SwIrq : InjectSoft(h, i)
      PROVE  KeptToAffinity' /\ affinity' = affinity
  BY <1>4 DEF ExternalInterrupt, UpdateEvent, InjectSoft
<1>5. ASSUME NEW h \in Hart, \/ \E i \in Irq, v \in Prio : PriorityWrite(h, i, v)
                             \/ \E v \in Prio : ThresholdWrite(h, v)
                             \/ \E i \in Irq : Complete(h, i)
      PROVE  KeptToAffinity' /\ affinity' = affinity
  BY <1>5, ZenonT(30) DEF PriorityWrite, ThresholdWrite, Complete
<1>6. CASE UNCHANGED vplicVars
  BY <1>6 DEF vplicVars
<1> HIDE DEF KeptToAffinity
<1> QED
  BY <1>1, <1>2, <1>3, <1>4, <1>5, <1>6 DEF VplicNext

(* Of interrupts one of which is above the threshold, the best is.          *)
LEMMA WouldInterrupt ==
  ASSUME NEW S \in SUBSET Irq, NEW prio \in [Irq -> Prio], NEW t \in Prio,
         NEW i \in S, prio[i] > t
  PROVE  \E k \in Best(S, prio) : prio[k] > t
<1>1. prio[i] \in Nat /\ t \in Nat /\ \A j \in S : prio[j] \in 0 .. MaxPrio
  BY VplicAssumption DEF Prio
<1>2. S \in SUBSET Nat
  BY VplicAssumption
<1>3. PICK k \in Best(S, prio) : prio[k] >= prio[i]
  BY <1>1, <1>2, BestFound, VplicAssumption
<1>4. prio[k] \in Nat
  BY <1>1, <1>3 DEF Best
<1> QED
  BY <1>1, <1>3, <1>4

(* Every operation keeps the lines of harts that an injected interrupt      *)
(* pinned to them would interrupt.                                          *)
LEMMA SignalledStep ==
  ASSUME VplicInv, [VplicNext]_vplicVars
  PROVE  SoftIrqSignalled'
<1>1. VplicShape /\ VplicShape' /\ affinity' = affinity /\ KeptToAffinity /\ SoftIrqSignalled
  BY VplicShapeStep, AffinityStep DEF VplicInv
<1> SUFFICES ASSUME NEW h \in Hart, NEW i \in SwIrq, Pinned(i, h), i \in pending' \ active',
                    i \in enable'[h], priority'[i] > threshold'[h]
             PROVE  vseip'[h] \/ h \in line_events'
  BY <1>1 DEF SoftIrqSignalled, Pinned
<1> DEFINE Old == i \in pending \ active /\ i \in enable[h] /\ priority[i] > threshold[h]
<1>2. Old => vseip[h] \/ h \in line_events
  BY <1>1 DEF SoftIrqSignalled
<1>3. next_pending(h, enable[h])' # {}
  <2> DEFINE S == {j \in pending' \ active' : j \in enable'[h] /\ priority'[j] > 0}
  <2>1. /\ pending' \in SUBSET Irq /\ priority' \in [Irq -> Prio] /\ threshold'[h] \in Prio
        /\ i \in Irq
    BY <1>1 DEF VplicShape
  <2>2. priority'[i] > 0
    BY <2>1, VplicAssumption DEF Prio
  <2>3. S \in SUBSET Irq /\ i \in S
    BY <2>1, <2>2
  <2> HIDE DEF S
  <2>4. \E k \in Best(S, priority') : priority'[k] > threshold'[h]
    BY <2>1, <2>3, WouldInterrupt
  <2> QED
    BY <2>4 DEF next_pending, S
<1>4. ASSUME NEW e, i \in pending \ active, i \in e, priority[i] > threshold[h]
      PROVE  next_pending(h, e) # {}
  <2> DEFINE S == {j \in pending \ active : j \in e /\ priority[j] > 0}
  <2>1. /\ pending \in SUBSET Irq /\ priority \in [Irq -> Prio] /\ threshold[h] \in Prio
        /\ i \in Irq
    BY <1>1, <1>4 DEF VplicShape
  <2>2. priority[i] > 0
    BY <1>4, <2>1, VplicAssumption DEF Prio
  <2>3. S \in SUBSET Irq /\ i \in S
    BY <1>4, <2>1, <2>2
  <2> HIDE DEF S
  <2>4. \E k \in Best(S, priority) : priority[k] > threshold[h]
    BY <1>4, <2>1, <2>3, WouldInterrupt
  <2> QED
    BY <2>4 DEF next_pending, S
<1>5. ASSUME NEW g \in Hart, NEW C, update_hart_line(g, C), Old \/ h \in C
      PROVE  vseip'[h] \/ h \in line_events'
  <2>1. CASE h = g /\ h \in C
    BY <1>1, <1>3, <1>5, <2>1 DEF update_hart_line, VplicShape
  <2>2. CASE h # g /\ h \in C
    BY <1>5, <2>2 DEF update_hart_line
  <2>3. CASE h \notin C
    BY <1>1, <1>2, <1>5, <2>3 DEF update_hart_line, VplicShape
  <2> QED
    BY <2>1, <2>2, <2>3
<1> USE DEF vplic, plic
<1>6. ASSUME UNCHANGED <<vplic, vseip, line_events>>
      PROVE  vseip'[h] \/ h \in line_events'
  BY <1>2, <1>6
<1>7. CASE UNCHANGED vplicVars \/ \E k \in Irq : Raise(k)
  BY <1>6, <1>7 DEF vplicVars, Raise
<1>8. ~Restart
  BY DEF Restart
<1>9. ASSUME NEW g \in Hart, ExternalInterrupt(g)
      PROVE  vseip'[h] \/ h \in line_events'
  <2>1. PICK k \in PlicClaim(g) :
          UNCHANGED <<active, priority, enable, threshold>> /\ inject_irq(g, k)
    BY <1>9 DEF ExternalInterrupt
  <2>2. k \in HwIrq /\ k # i
    BY <1>1, <2>1, VplicAssumption DEF PlicClaim, Best, VplicShape
  <2>3. Old
    BY <2>1, <2>2 DEF inject_irq
  <2> QED
    BY <1>5, <2>1, <2>3 DEF inject_irq
<1>10. ASSUME NEW g \in Hart, NEW k \in SwIrq, InjectSoft(g, k)
       PROVE  vseip'[h] \/ h \in line_events'
  <2>1. UNCHANGED <<active, priority, enable, threshold>> /\ inject_irq(g, k)
    BY <1>10 DEF InjectSoft
  <2>2. k \notin HwIrq
    BY VplicAssumption
  <2>3. Old \/ (k = i /\ i \notin pending)
    BY <2>1 DEF inject_irq
  <2>4. k = i /\ i \notin pending =>
          update_hart_line(g, {c \in Hart : i \in enable[c] /\ priority[i] > threshold[c]})
    BY <2>1, <2>2 DEF inject_irq
  <2>5. i \in enable[h] /\ priority[i] > threshold[h]
    BY <2>1
  <2> QED
    BY <1>5, <2>1, <2>3, <2>4, <2>5 DEF inject_irq
<1>11. ASSUME NEW g \in Hart, UpdateEvent(g)
       PROVE  vseip'[h] \/ h \in line_events'
  <2>1. Old /\ UNCHANGED vplic
    BY <1>11 DEF UpdateEvent
  <2>2. next_pending(h, enable[h]) # {}
    BY <1>4, <2>1
  <2>3. CASE g = h
    BY <1>1, <1>11, <2>2, <2>3 DEF UpdateEvent, VplicShape
  <2>4. CASE g # h
    BY <1>1, <1>2, <1>11, <2>1, <2>4 DEF UpdateEvent, VplicShape
  <2> QED
    BY <2>3, <2>4
<1>12. ASSUME NEW g \in Hart, NEW k \in Irq, NEW v \in Prio, PriorityWrite(g, k, v)
       PROVE  vseip'[h] \/ h \in line_events'
  <2>1. /\ priority' = [priority EXCEPT ![k] = v] /\ UNCHANGED <<active, pending, enable, threshold>>
        /\ \/ k \in HwIrq /\ update_hart_line(g, {})
           \/ k \in SwIrq /\ update_hart_line(g, {c \in Hart : k \in enable[c]})
    BY <1>12 DEF PriorityWrite
  <2>2. k = i \/ Old
    BY <1>1, <2>1 DEF VplicShape, Irq
  <2>3. CASE k \in HwIrq /\ update_hart_line(g, {})
    <3>1. k # i
      BY <2>3, VplicAssumption
    <3> QED
      BY <1>5, <2>2, <2>3, <3>1
  <2>4. CASE k \in SwIrq /\ update_hart_line(g, {c \in Hart : k \in enable[c]})
    BY <1>5, <2>1, <2>2, <2>4
  <2> QED
    BY <2>1, <2>3, <2>4
<1>13. ASSUME NEW g \in Hart, NEW c \in Hart, NEW S \in SUBSET affinity[c], EnableWrite(g, c, S)
       PROVE  vseip'[h] \/ h \in line_events'
  <2> DEFINE changed == (S \cup enable[c]) \ (S \cap enable[c])
             looked  == {k \in Irq : \E j \in changed \cap SwIrq : k <= j}
             partial == (S \cap looked) \cup (enable[c] \ looked)
  <2>1. /\ enable' = [enable EXCEPT ![c] = S] /\ UNCHANGED <<active, pending, priority, threshold>>
        /\ \/ /\ looked # {} /\ c = g
              /\ vseip' = [vseip EXCEPT ![c] = next_pending(c, partial) # {}]
              /\ UNCHANGED line_events
           \/ /\ looked # {} /\ c # g
              /\ line_events' = line_events \cup {c}
              /\ UNCHANGED vseip
           \/ /\ looked = {}
              /\ UNCHANGED <<vseip, line_events>>
    BY <1>13 DEF EnableWrite
  <2>2. CASE c # h
    <3>1. Old
      BY <1>1, <2>1, <2>2 DEF VplicShape
    <3> HIDE DEF looked, partial
    <3> QED
      BY <1>1, <1>2, <2>1, <2>2, <3>1 DEF VplicShape
  <2>3. CASE c = h
    <3>1. i \in S /\ i \in Irq /\ i \in Nat /\ i \in pending \ active /\ priority[i] > threshold[h]
      BY <1>1, <2>1, <2>3, VplicAssumption DEF VplicShape, Irq
    <3>2. i \in changed => i \in looked
      BY <3>1
    <3>3. i \in partial
      BY <3>1, <3>2
    <3>4. next_pending(h, partial) # {}
      BY <1>4, <3>1, <3>3
    <3>5. looked = {} => Old
      BY <2>3, <3>1, <3>2
    <3> HIDE DEF looked, partial
    <3> QED
      BY <1>1, <1>2, <2>1, <2>3, <3>4, <3>5 DEF VplicShape
  <2> QED
    BY <2>2, <2>3
<1>14. ASSUME NEW g \in Hart, NEW v \in Prio, ThresholdWrite(g, v)
       PROVE  vseip'[h] \/ h \in line_events'
  <2>1. g = h \/ Old
    BY <1>1, <1>14 DEF ThresholdWrite, VplicShape
  <2> QED
    BY <1>5, <1>14, <2>1 DEF ThresholdWrite
<1>15. ASSUME NEW g \in Hart, Claim(g)
       PROVE  vseip'[h] \/ h \in line_events'
  <2>1. Old
    BY <1>15 DEF Claim
  <2> QED
    BY <1>5, <1>15, <2>1 DEF Claim
<1>16. ASSUME NEW g \in Hart, NEW k \in Irq, Complete(g, k)
       PROVE  vseip'[h] \/ h \in line_events'
  <2>1. k = i => g = h
    BY <1>1, <1>16 DEF Complete, KeptToAffinity, Pinned
  <2>2. g = h \/ Old
    BY <1>16, <2>1 DEF Complete
  <2> QED
    BY <1>5, <1>16, <2>2 DEF Complete
<1> HIDE DEF Old
<1> QED
  BY <1>7, <1>8, <1>9, <1>10, <1>11, <1>12, <1>13, <1>14, <1>15, <1>16 DEF VplicNext

LEMMA VplicStep == VplicInv /\ [VplicNext]_vplicVars => VplicInv'
BY VplicShapeStep, ClaimsStep, AffinityStep, SignalledStep DEF VplicInv

LEMMA VplicStart == VplicInit => VplicInv
<1> SUFFICES ASSUME VplicInit PROVE VplicInv
  OBVIOUS
<1>1. VplicShape
  BY VplicAssumption DEF VplicInit, VplicShape, init_global, init_per_hart, Prio
<1>2. Completable /\ KeptToAffinity /\ SoftIrqSignalled
  BY DEF VplicInit, Completable, KeptToAffinity, SoftIrqSignalled, init_global
<1>3. ClaimsKept
  BY DEF VplicInit, ClaimsKept, ClaimedOnce, ClaimIsOwed
<1> QED
  BY <1>1, <1>2, <1>3 DEF VplicInv

(* For any number of harts and interrupts and however the harts' claims,    *)
(* completions, register writes and injections interleave, one hart at a    *)
(* time handles an interrupt, and what is claimed at the physical PLIC is   *)
(* pending or active in the vPLIC (vplic_claim, vplic_complete).            *)
THEOREM ClaimsAreKept == VplicSpec => []ClaimsKept
<1>1. VplicSpec => []VplicInv
  BY VplicStart, VplicStep, PTL DEF VplicSpec
<1>2. VplicInv => ClaimsKept
  BY DEF VplicInv
<1> QED
  BY <1>1, <1>2, PTL

(* For any number of harts and interrupts, a hart that an injected          *)
(* interrupt kept on it would interrupt has its line up or an event queued  *)
(* that will raise it (inject_irq, vplic_update_hart_line), although an     *)
(* enable write recomputes the line with the bits above it not yet changed. *)
THEOREM SoftIrqsAreSignalled == VplicSpec => []SoftIrqSignalled
<1>1. VplicSpec => []VplicInv
  BY VplicStart, VplicStep, PTL DEF VplicSpec
<1>2. VplicInv => SoftIrqSignalled
  BY DEF VplicInv
<1> QED
  BY <1>1, <1>2, PTL
-----------------------------------------------------------------------------
(* The timer of a hart on riscv64 (RiscvHart).                              *)

HartShape == /\ parked \in [Hart -> BOOLEAN]
             /\ sie \in [Hart -> SUBSET {"ext", "timer", "soft"}]
             /\ timer \in [Hart -> {"off", "armed", "due"}]
             /\ vstip \in [Hart -> BOOLEAN]
             /\ hart_pc \in [Hart -> {"guest", "check", "clear"}]

(* While handle_software_interrupt works, too, a due timer is shown or      *)
(* going to be; and an armed one is going to be once it is due.             *)
TimerWatched == \A h \in Hart : ~parked[h] /\ timer[h] \in {"armed", "due"}
                                  => vstip[h] \/ "timer" \in sie[h]

TimerInv == HartShape /\ TimerWatched /\ TimerNotEarly

LEMMA TimerStep == TimerInv /\ [HartNext]_hartVars => TimerInv'
<1> SUFFICES ASSUME TimerInv, [HartNext]_hartVars PROVE TimerInv'
  OBVIOUS
<1> USE DEF TimerInv, HartShape, TimerWatched, TimerNotEarly
<1>1. ASSUME UNCHANGED <<parked, sie, timer, vstip>>, hart_pc' \in [Hart -> {"guest", "check", "clear"}]
      PROVE  TimerInv'
  BY <1>1
<1>2. CASE \/ ZoneStart \/ UNCHANGED hartVars
           \/ \E h \in Hart : \/ ZoneShutdown(h) \/ GuestIpi(h)
                              \/ \E t \in Hart : HartStart(h, t)
                              \/ \E T \in SUBSET Hart : sbi_ipi_handler(h, T)
  BY <1>1, <1>2 DEF ZoneStart, ZoneShutdown, GuestIpi, HartStart, sbi_ipi_handler, hartVars, tvars
<1>3. ASSUME NEW h \in Hart, SoftwareInterrupt(h) \/ ClearSsip(h)
      PROVE  TimerInv'
  BY <1>1, <1>3 DEF SoftwareInterrupt, ClearSsip, tvars
<1>4. ASSUME NEW h \in Hart, NEW f \in Loads, \E v \in Edge(f) : GuestPageFault(h, f, v)
      PROVE  TimerInv'
  BY <1>1, <1>4 DEF GuestPageFault, tvars
<1>5. ASSUME NEW h \in Hart, SetTimer(h)
      PROVE  TimerInv'
  BY <1>5 DEF SetTimer
<1>6. ASSUME NEW h \in Hart, Expire(h)
      PROVE  TimerInv'
  BY <1>6 DEF Expire
<1>7. ASSUME NEW h \in Hart, TimerInterrupt(h)
      PROVE  TimerInv'
  BY <1>7 DEF TimerInterrupt
<1>8. ASSUME NEW h \in Hart, CheckEvents(h)
      PROVE  TimerInv'
  <2>1. timer' = timer
    BY <1>8 DEF CheckEvents
  <2>2. CASE run(h)
    BY <2>1, <2>2 DEF run
  <2>3. CASE idle(h)
    BY <2>1, <2>3 DEF idle
  <2>4. CASE UNCHANGED <<parked, sie, vstip, hart_pc>>
    BY <1>1, <2>1, <2>4
  <2>5. CASE UNCHANGED <<parked, sie, vstip>> /\ hart_pc' = [hart_pc EXCEPT ![h] = "clear"]
    BY <1>1, <2>1, <2>5
  <2> QED
    BY <1>8, <2>2, <2>3, <2>4, <2>5 DEF CheckEvents
<1> HIDE DEF TimerInv
<1> QED
  BY <1>2, <1>3, <1>4, <1>5, <1>6, <1>7, <1>8 DEF HartNext

(* For any number of harts and events, and for traps, wake-ups, shutdowns   *)
(* and restarts in any order, the timer a guest sets with sbi_time_handler  *)
(* is shown to it or about to be once it is due, and never before           *)
(* (handle_timer_interrupt, ArchCpu::run, ArchCpu::idle).                   *)
THEOREM TimersAreExact == HartSpec => []TimerExact
<1>1. HartInit => TimerInv
  BY DEF HartInit, TimerInv, HartShape, TimerWatched, TimerNotEarly
<1>2. HartSpec => []TimerInv
  BY <1>1, TimerStep, PTL DEF HartSpec
<1>3. TimerInv => TimerExact
  BY DEF TimerInv, TimerWatched, TimerNotEarly, TimerExact, TimerNotLost, InGuest
<1> QED
  BY <1>2, <1>3, PTL
-----------------------------------------------------------------------------
(* The loads a riscv64 guest makes from emulated devices (RiscvHart).       *)

(* A number of k bits, shifted to the top of a register of k + n bits and   *)
(* back: P is 2^k and Q is 2^n.                                             *)
LEMMA ShiftedUp ==
  ASSUME NEW P \in Nat, NEW Q \in Nat \ {0}, NEW v \in 0 .. P - 1
  PROVE  /\ v * Q \in Nat /\ v * Q < P * Q
         /\ (v * Q) % (P * Q) = v * Q
         /\ (v * Q) \div Q = v
<1>1. v * Q \in Nat /\ P * Q \in Nat
  OBVIOUS
<1>2. (P - v) * Q >= 1 /\ (P - v) * Q = P * Q - v * Q
  <2>1. P - v \in Nat \ {0}
    OBVIOUS
  <2>2. \A d \in Nat \ {0} : d * Q >= 1
    OBVIOUS
  <2> QED
    BY <2>1, <2>2
<1>3. \A a, b \in Nat : a < b => a % b = a
  OBVIOUS
<1>4. (v * Q) \div Q = v
  OBVIOUS
<1> QED
  BY <1>1, <1>2, <1>3, <1>4

(* Accesses are of 1, 2, 4 or 8 bytes.                                      *)
LEMMA SizeIs ==
  ASSUME NEW f \in Loads
  PROVE  size(f) \in 1 .. 8
<1>1. f % 4 = 0 \/ f % 4 = 1 \/ f % 4 = 2 \/ f % 4 = 3
  BY DEF Loads
<1>2. size(f) = 2 ^ 0 \/ size(f) = 2 ^ 1 \/ size(f) = 2 ^ 2 \/ size(f) = 2 ^ 3
  BY <1>1, Zenon DEF size
<1>3. 2 ^ 0 = 1 /\ 2 ^ 1 = 2 /\ 2 ^ 2 = 4 /\ 2 ^ 3 = 8
  OBVIOUS
<1> QED
  BY <1>2, <1>3

(* What the two shifts of guest_page_fault_handler make of any value that   *)
(* the device can give for the access.                                      *)
LEMMA LoadIs ==
  ASSUME NEW f \in Loads, NEW v \in 0 .. 2 ^ (BYTE * size(f)) - 1
  PROVE  LET k == BYTE * size(f) IN
           IF f < 4 THEN Signed(load(f, v), XLEN) = Signed(v, k) ELSE load(f, v) = v
<1> DEFINE k == BYTE * size(f)
           n == XLEN - k
           P == 2 ^ k  Q == 2 ^ n  H == 2 ^ (k - 1)  X == 2 ^ XLEN  G == 2 ^ (XLEN - 1)
<1>1. size(f) \in 1 .. 8
  BY SizeIs
<1>2. k \in Nat \ {0} /\ n \in Nat /\ XLEN \in Nat \ {0} /\ k + n = XLEN
  BY <1>1, ByteAssumption DEF XLEN
<1>3. XLEN - n = k
  BY <1>2
<1> HIDE DEF k, n
<1>4. P \in Nat \ {0} /\ Q \in Nat \ {0} /\ X = P * Q
  <2>1. P >= 1 /\ P \in Nat /\ Q >= 1 /\ Q \in Nat
    BY <1>2, PowerPositive
  <2>2. 2 ^ (k + n) = P * Q
    BY <1>2, PowerSum
  <2> QED
    BY <1>2, <2>1, <2>2
<1>5. H \in Nat \ {0} /\ P = 2 * H
  <2>1. k - 1 \in Nat /\ (k - 1) + 1 = k
    BY <1>2
  <2> QED
    BY <2>1, PowerPositive, PowerDouble
<1>6. G \in Nat \ {0} /\ X = 2 * G
  <2>1. XLEN - 1 \in Nat /\ (XLEN - 1) + 1 = XLEN
    BY <1>2
  <2> QED
    BY <2>1, PowerPositive, PowerDouble
<1>7. v \in 0 .. P - 1
  BY DEF k
<1>8. shl(v, n) = v * Q /\ sar(shl(v, n), n) = IF v * Q >= G THEN v + X - P ELSE v
  <2>1. shl(v, n) = (v * Q) % X
    BY DEF shl
  <2>2. \A x : sar(x, n) = IF x >= G THEN (x \div Q) + X - P ELSE x \div Q
    BY <1>3, Zenon DEF sar
  <2> HIDE DEF P, Q, H, X, G
  <2>3. shl(v, n) = v * Q /\ (v * Q) \div Q = v
    BY <1>4, <1>7, <2>1, ShiftedUp
  <2> QED
    BY <2>2, <2>3
<1> HIDE DEF P, Q, H, X, G
<1>9. v * Q >= G <=> v >= H
  <2>1. G = H * Q
    <3>1. 2 * G = (2 * H) * Q
      BY <1>4, <1>5, <1>6
    <3> QED
      BY <1>4, <1>5, <1>6, <3>1
  <2>2. v >= H => v * Q >= H * Q
    BY <1>4, <1>5, <1>7
  <2>3. v < H => v * Q < H * Q
    BY <1>4, <1>5, <1>7, ShiftedUp
  <2> QED
    BY <2>1, <2>2, <2>3, <1>4, <1>5, <1>6, <1>7
<1>10. P <= X
  BY <1>4
<1>11. CASE f < 4
  <2>1. load(f, v) = IF v >= H THEN v + X - P ELSE v
    BY <1>8, <1>9, <1>11 DEF load, sign_ext, n, k
  <2>2. Signed(v, k) = IF v >= H THEN v - P ELSE v
    BY DEF Signed, H, P
  <2>3. Signed(load(f, v), XLEN) = IF load(f, v) >= G THEN load(f, v) - X ELSE load(f, v)
    BY DEF Signed, G, X
  <2>4. v >= H => v + X - P >= G
    BY <1>4, <1>5, <1>6, <1>7, <1>10
  <2>5. v < H => v < G
    BY <1>4, <1>5, <1>6, <1>7, <1>10
  <2> QED
    BY <1>4, <1>5, <1>6, <1>7, <1>11, <2>1, <2>2, <2>3, <2>4, <2>5 DEF k
<1>12. CASE ~(f < 4)
  BY <1>12 DEF load, sign_ext
<1> QED
  BY <1>11, <1>12

(* The values at both ends of what an access of this width can give.        *)
LEMMA EdgeIs ==
  ASSUME NEW f \in Loads
  PROVE  Edge(f) \subseteq 0 .. 2 ^ (BYTE * size(f)) - 1
<1> DEFINE k == BYTE * size(f)  H == 2 ^ (k - 1)  P == 2 ^ k
<1>1. k \in Nat \ {0}
  BY SizeIs, ByteAssumption
<1> HIDE DEF k
<1>2. k - 1 \in Nat /\ (k - 1) + 1 = k
  BY <1>1
<1>3. H \in Nat /\ H >= 1 /\ P = 2 * H
  BY <1>2, PowerPositive, PowerDouble
<1>4. Edge(f) = {0, 1, H - 1, H, P - 1}
  BY DEF Edge, k
<1> HIDE DEF H, P
<1>5. Edge(f) \subseteq 0 .. P - 1
  BY <1>3, <1>4
<1> QED
  BY <1>5 DEF P, k

(* LoadExtends, said of one load.                                           *)
Extended(l) ==
  LET f == l[1]  k == BYTE * 2 ^ (f % 4) IN
    IF f < 4 THEN Signed(l[3], XLEN) = Signed(l[2], k) ELSE l[3] = l[2]

(* A load leaves the number of the device's bytes, and NoLoad has none.     *)
LEMMA LoadsAre ==
  /\ Extended(NoLoad)
  /\ \A f \in Loads : \A v \in Edge(f) : Extended(<<f, v, load(f, v)>>)
<1>1. Extended(NoLoad)
  <2>1. NoLoad[1] = 0 /\ NoLoad[2] = 0 /\ NoLoad[3] = 0 /\ 0 < 4
    BY DEF NoLoad
  <2>2. \A k \in Nat \ {0} : Signed(0, k) = 0
    <3> SUFFICES ASSUME NEW k \in Nat \ {0}
                 PROVE  Signed(0, k) = 0
      OBVIOUS
    <3>1. k - 1 \in Nat
      OBVIOUS
    <3>2. 2 ^ (k - 1) \in Nat /\ 2 ^ (k - 1) >= 1
      BY <3>1, PowerPositive
    <3>3. ~(0 >= 2 ^ (k - 1))
      BY <3>2
    <3> QED
      BY <3>3 DEF Signed
  <2>3. 0 \in Loads
    BY DEF Loads
  <2>4. BYTE * size(0) \in Nat \ {0} /\ XLEN \in Nat \ {0}
    BY <2>3, SizeIs, ByteAssumption DEF XLEN
  <2> QED
    BY <2>1, <2>2, <2>4 DEF Extended, size
<1>2. ASSUME NEW f \in Loads, NEW v \in Edge(f)
      PROVE  Extended(<<f, v, load(f, v)>>)
  <2>1. v \in 0 .. 2 ^ (BYTE * size(f)) - 1
    BY <1>2, EdgeIs
  <2>2. IF f < 4 THEN Signed(load(f, v), XLEN) = Signed(v, BYTE * size(f)) ELSE load(f, v) = v
    BY <2>1, LoadIs, Zenon
  <2> QED
    BY <2>2, Zenon DEF Extended, size
<1> QED
  BY <1>1, <1>2

(* LoadExtends, for a byte of any width: a load of any kind leaves in the   *)
(* register the number that the device's bytes stand for, by the shifts     *)
(* that guest_page_fault_handler makes (LoadIs: of any value).              *)
THEOREM LoadsExtend == HartSpec => []LoadExtends
<1>1. LoadExtends <=> Extended(loaded)
  BY Zenon DEF LoadExtends, Extended
<1>2. HartInit => LoadExtends
  BY <1>1, LoadsAre DEF HartInit
<1>3. [HartNext]_hartVars =>
        \/ loaded' = loaded \/ loaded' = NoLoad
        \/ \E f \in Loads : \E v \in Edge(f) : loaded' = <<f, v, load(f, v)>>
  BY DEF HartNext, hartVars, ZoneStart, HartStart, sbi_ipi_handler, SetTimer, Expire, TimerInterrupt, GuestIpi,
         ZoneShutdown, SoftwareInterrupt, CheckEvents, ClearSsip, GuestPageFault
<1>4. LoadExtends /\ [HartNext]_hartVars => LoadExtends'
  <2>1. LoadExtends' <=> Extended(loaded')
    BY Zenon DEF LoadExtends, Extended
  <2> QED
    BY <1>1, <1>3, <2>1, LoadsAre
<1> QED
  BY <1>2, <1>4, PTL DEF HartSpec

-----------------------------------------------------------------------------
(* The exits of a loongarch64 guest (LoongVcpu).                            *)

Exit == {"int", "gspr", "hvc", "mmio"}

VcpuShape == /\ id \in {0, 1} /\ ie \in BOOLEAN /\ init \in BOOLEAN
             /\ zone \in {"none", "own", "gone"} /\ wrong \subseteq {"rd"}
             /\ place \in {"parked", "guest", "halted"} \cup Exit
             /\ live \in [Saved -> Nat] /\ ctx \in [Saved -> Nat]
             /\ want = [reg |-> want.reg, pc |-> want.pc] /\ want.reg \in [Saved -> Nat]

(* While hvisor handles an exit, ctx holds the guest; TID is still in the   *)
(* CPU.  Of a CPU not started, ctx has the CSRs that run() will leave it.   *)
ContextHeld == /\ init => zone # "none"
               /\ place = "parked" /\ ie => ~init
               /\ place \in Exit /\ init =>
                    /\ \A r \in Saved \ wrong : ctx[r] = want.reg[r]
                    /\ sepc = want.pc /\ live["tid"] = want.reg["tid"]
               /\ place \in Exit /\ ~init => \A r \in Gcsr : ctx[r] = live[r]

VcpuInv == VcpuShape /\ ContextHeld /\ GuestStateKept

(* The two ways out of the vector: what is saved is what was live, and what *)
(* is loaded back is ctx but for TID.                                       *)
LEMMA VectorSaves ==
  ASSUME VcpuShape, _hyp_trap_vector
  PROVE  ctx' = live
BY DEF VcpuShape, _hyp_trap_vector, ZoneContext, save_gcsrs

LEMMA ReturnLoads ==
  ASSUME VcpuShape, NEW c \in [Saved -> Nat], NEW p, _hyp_trap_return(c, p)
  PROVE  /\ live' \in [Saved -> Nat] /\ pcl' = p /\ place' = "guest"
         /\ live' = [c EXCEPT !["tid"] = live["tid"]]
<1>1. live' = [r \in Saved |-> IF r = "tid" THEN live[r] ELSE c[r]]
  BY DEF _hyp_trap_return, ZoneContext, restore_gcsrs, Saved, Gcsr
<1> QED
  BY <1>1 DEF VcpuShape, _hyp_trap_return, Saved, Gcsr

(* A load's value is trimmed and extended as the instruction defines it,    *)
(* but for one of 8 bytes.                                                  *)
LEMMA LoadValue ==
  ASSUME NEW s \in {1, 2, 4, 8}, NEW v \in Nat, NEW u \in BOOLEAN
  PROVE  LET low == v % 2^s
             y   == IF ~u /\ low >= 2^(s - 1) THEN Word - 2^s + low ELSE low
         IN /\ extended(v, s, u) \in Nat /\ y \in Nat
            /\ s # 8 => extended(v, s, u) = y
<1>1. CASE s = 1
  BY <1>1 DEF extended, signed_ext, Shl, Word
<1>2. CASE s = 2
  BY <1>2 DEF extended, signed_ext, Shl, Word
<1>3. CASE s = 4
  BY <1>3 DEF extended, signed_ext, Shl, Word
<1>4. CASE s = 8
  BY <1>4 DEF extended, signed_ext, Shl, Word
<1> QED
  BY <1>1, <1>2, <1>3, <1>4

LEMMA SavedIs == "rd" \in Saved /\ "a0" \in Saved /\ "tid" \in Saved /\ "tid" \in Gcsr /\ "tid" \notin Gpr
BY DEF Saved, Gpr, Gcsr

(* handle_exception is done, with the context c where a guest that run()    *)
(* started must find w but for the registers in lost: the guest goes on     *)
(* with that.                                                               *)
LEMMA ResumeStep ==
  ASSUME VcpuInv, place \in Exit, NEW p, NEW c \in [Saved -> Nat], NEW w \in [Saved -> Nat],
         NEW lost \in SUBSET {"rd"}, Resume(c, p), UNCHANGED <<hwis, status>>,
         Guest([reg |-> w, pc |-> p], lost),
         init => w["tid"] = want.reg["tid"] /\ \A r \in Saved \ lost : c[r] = w[r]
  PROVE  VcpuInv'
<1> USE SavedIs
<1>0. VcpuShape /\ ContextHeld /\ OnlyTargetWrong /\ OwnGuestId /\ IdleMeansClear
  BY DEF VcpuInv, GuestStateKept
<1>1. /\ live' \in [Saved -> Nat] /\ pcl' = p /\ place' = "guest" /\ gid' = vm_id /\ ctx' = c
      /\ live' = [c EXCEPT !["tid"] = live["tid"]] /\ UNCHANGED <<id, ie, init, zone, hwis, status>>
  BY <1>0, ReturnLoads DEF Resume, _vcpu_return
<1>2. place' \notin Exit /\ OwnGuestId' /\ IdleMeansClear'
  BY <1>0, <1>1 DEF Exit, OwnGuestId, IdleMeansClear, vm_id, ContextHeld, VcpuShape
<1>3. CASE init
  <2>1. want' = [reg |-> w, pc |-> p] /\ wrong' = lost
    BY <1>1, <1>3 DEF Guest
  <2>2. live["tid"] = w["tid"]
    BY <1>0, <1>3 DEF ContextHeld
  <2>3. \A r \in Saved \ lost : live'[r] = w[r]
    BY <1>1, <1>3, <2>2
  <2> QED
    BY <1>0, <1>1, <1>2, <2>1, <2>3
    DEF VcpuInv, VcpuShape, ContextHeld, GuestStateKept, GuestRegisters, OnlyTargetWrong
<1>4. CASE ~init
  <2>1. UNCHANGED <<want, wrong>>
    BY <1>1, <1>4 DEF Guest
  <2> QED
    BY <1>0, <1>1, <1>2, <1>4, <2>1
    DEF VcpuInv, VcpuShape, ContextHeld, GuestStateKept, GuestRegisters, OnlyTargetWrong
<1> QED
  BY <1>0, <1>3, <1>4 DEF VcpuShape

LEMMA VcpuStep ==
  ASSUME VcpuInv, [VcpuNext]_lvars
  PROVE  VcpuInv'
<1> USE SavedIs
<1>0. /\ VcpuShape /\ ContextHeld /\ GuestRegisters /\ OnlyTargetWrong /\ OwnGuestId /\ IdleMeansClear
      /\ ctx \in [Saved -> Nat] /\ want.reg \in [Saved -> Nat] /\ wrong \in SUBSET {"rd"}
  BY DEF VcpuInv, VcpuShape, GuestStateKept
<1>1. ASSUME NEW v \in {0, 1}, GuestStep(v)
      PROVE  VcpuInv'
  <2>1. /\ place = "guest" /\ live' = [r \in Saved |-> v] /\ UNCHANGED <<id, place, ie, init, zone>>
        /\ UNCHANGED <<ctx, sepc, hwis, status, gid>>
        /\ \/ want' = [reg |-> live', pc |-> pcl'] /\ wrong' = {}
           \/ ~init /\ UNCHANGED <<want, wrong>>
    BY <1>1 DEF GuestStep, Guest
  <2>2. live' \in [Saved -> Nat]
    BY <2>1
  <2>3. VcpuShape'
    BY <1>0, <2>1, <2>2 DEF VcpuShape
  <2>4. ContextHeld'
    BY <1>0, <2>1 DEF ContextHeld, Exit
  <2>5. CASE init
    <3>1. want'.reg = live' /\ want'.pc = pcl' /\ wrong' = {}
      BY <2>1, <2>5
    <3> QED
      BY <1>0, <2>1, <2>3, <2>4, <3>1
      DEF VcpuInv, GuestStateKept, GuestRegisters, OnlyTargetWrong, OwnGuestId, IdleMeansClear
  <2>6. CASE ~init
    <3>1. OnlyTargetWrong'
      BY <1>0, <2>1, <2>6 DEF OnlyTargetWrong
    <3> QED
      BY <1>0, <2>1, <2>3, <2>4, <2>6, <3>1
      DEF VcpuInv, GuestStateKept, GuestRegisters, OwnGuestId, IdleMeansClear
  <2> QED
    BY <1>0, <2>5, <2>6 DEF VcpuShape
<1>2. ASSUME UNCHANGED <<id, place, ie, init, zone, live, pcl, ctx, sepc, gid, want, wrong>>,
             status' = "Idle" => hwis' = {}
      PROVE  VcpuInv'
  BY <1>0, <1>2 DEF VcpuInv, VcpuShape, ContextHeld, GuestStateKept,
       GuestRegisters, OnlyTargetWrong, OwnGuestId, IdleMeansClear
<1>3. CASE \/ UNCHANGED lvars \/ clear_hwi_injected_irq \/ \E i \in Hwi : ls7a_inject_irq(i)
           \/ \E t : GuestTimer(t)
  BY <1>0, <1>2, <1>3 DEF lvars, clear_hwi_injected_irq, ls7a_inject_irq, GuestTimer, IdleMeansClear
<1>z. CASE TakeZone \/ LeaveZone
  BY <1>0, <1>z DEF TakeZone, LeaveZone, VcpuInv, VcpuShape, ContextHeld, GuestStateKept,
       GuestRegisters, OnlyTargetWrong, OwnGuestId, IdleMeansClear
<1>4. ASSUME NEW e \in Exit, Trap(e)
      PROVE  VcpuInv'
  <2>1. ctx' = live
    BY <1>0, <1>4, VectorSaves DEF Trap
  <2>2. live' \in [Saved -> Nat] /\ \A r \in Gcsr : live'[r] = live[r]
    BY <1>0, <1>4 DEF Trap, VcpuShape, Word, Gcsr, Gpr, Saved
  <2>3. VcpuShape'
    BY <1>0, <1>4, <2>1, <2>2 DEF Trap, VcpuShape
  <2>4. ContextHeld'
    BY <1>0, <1>4, <2>1, <2>2 DEF Trap, ContextHeld, GuestRegisters, OnlyTargetWrong, Exit
  <2>5. GuestStateKept'
    BY <1>0, <1>4 DEF Trap, GuestStateKept, GuestRegisters, OnlyTargetWrong, OwnGuestId, IdleMeansClear, Exit
  <2> QED
    BY <2>3, <2>4, <2>5 DEF VcpuInv
<1>5. CASE TrapParked
  <2>1. ctx' = live
    BY <1>0, <1>5, VectorSaves DEF TrapParked
  <2>2. VcpuShape'
    BY <1>0, <1>5, <2>1 DEF TrapParked, VcpuShape, Exit
  <2>3. ContextHeld'
    BY <1>0, <1>5, <2>1 DEF TrapParked, ContextHeld, Exit
  <2>4. GuestStateKept'
    BY <1>0, <1>5 DEF TrapParked, GuestStateKept, GuestRegisters, OnlyTargetWrong, OwnGuestId, IdleMeansClear
  <2> QED
    BY <2>2, <2>3, <2>4 DEF VcpuInv
<1>6. CASE Wakeup
  <2> DEFINE c == [r \in Saved |-> IF r \in Gpr THEN 0 ELSE ctx[r]]
  <2>1. /\ ~init /\ place = "int" /\ init' = TRUE /\ zone # "none"
        /\ ctx' = c /\ _hyp_trap_return(c, Entry) /\ gid' = vm_id
        /\ want' = [reg |-> [r \in Saved |-> IF r \in Gpr THEN 0 ELSE live[r]], pc |-> Entry]
        /\ wrong' = {} /\ UNCHANGED <<id, ie, zone, hwis, status>>
    BY <1>6 DEF Wakeup, _vcpu_return, Guest
  <2>2. c \in [Saved -> Nat] /\ c = want'.reg
    BY <1>0, <2>1 DEF VcpuShape, ContextHeld, Exit, Saved
  <2>3. /\ live' \in [Saved -> Nat] /\ pcl' = Entry /\ place' = "guest"
        /\ live' = [c EXCEPT !["tid"] = live["tid"]]
    BY <1>0, <2>1, <2>2, ReturnLoads
  <2>4. c["tid"] = live["tid"]
    BY <1>0, <2>1 DEF ContextHeld, Exit
  <2> HIDE DEF c
  <2>5. live' = c
    BY <2>2, <2>3, <2>4
  <2>6. VcpuShape'
    BY <1>0, <2>1, <2>2, <2>3 DEF VcpuShape
  <2>7. ContextHeld'
    BY <2>1, <2>3 DEF ContextHeld, Exit
  <2>8. GuestStateKept'
    BY <1>0, <2>1, <2>2, <2>3, <2>5
    DEF VcpuShape, GuestStateKept, GuestRegisters, OnlyTargetWrong, OwnGuestId, IdleMeansClear, vm_id
  <2> QED
    BY <2>6, <2>7, <2>8 DEF VcpuInv
<1>7. CASE Shutdown \/ UnexpectedOpcode \/ PageFault
  <2>1. /\ place' \in {"parked", "halted"} /\ (place' = "parked" => ie' = FALSE)
        /\ ie' \in {ie, FALSE}
        /\ UNCHANGED <<id, init, zone, live, pcl, ctx, sepc, hwis, status, gid, want, wrong>>
    BY <1>7 DEF Shutdown, UnexpectedOpcode, PageFault
  <2>2. VcpuShape'
    BY <1>0, <2>1 DEF VcpuShape
  <2>3. ContextHeld'
    BY <1>0, <2>1 DEF ContextHeld, Exit
  <2>4. GuestStateKept'
    BY <1>0, <2>1 DEF GuestStateKept, GuestRegisters, OnlyTargetWrong, OwnGuestId, IdleMeansClear
  <2> QED
    BY <2>2, <2>3, <2>4 DEF VcpuInv
<1>8. ASSUME place \in Exit, init
      PROVE  sepc = want.pc /\ \A r \in Saved \ wrong : ctx[r] = want.reg[r]
  BY <1>0, <1>8 DEF ContextHeld
<1>9. CASE InterruptDone
  <2>1. place \in Exit /\ Resume(ctx, sepc) /\ UNCHANGED <<hwis, status, want, wrong, init>>
    BY <1>9 DEF InterruptDone, Exit, Resume
  <2>2. Guest([reg |-> want.reg, pc |-> sepc], wrong)
    BY <1>0, <1>8, <2>1 DEF Guest, VcpuShape
  <2> QED
    BY <1>0, <1>8, <2>1, <2>2, ResumeStep
<1>10. CASE handle_mmio_store
  <2>1. place \in Exit /\ Resume(ctx, After(sepc)) /\ UNCHANGED <<hwis, status, init>>
    BY <1>10 DEF handle_mmio_store, Exit, Resume
  <2>2. [want EXCEPT !.pc = After(@)] = [reg |-> want.reg, pc |-> After(want.pc)]
    BY <1>0 DEF VcpuShape
  <2>3. Guest([reg |-> want.reg, pc |-> After(sepc)], wrong)
    BY <1>8, <1>10, <2>1, <2>2 DEF handle_mmio_store, Guest
  <2> QED
    BY <1>0, <1>8, <2>1, <2>3, ResumeStep
(* A handler that sets the register r, to x where the instruction sets y.   *)
<1>r. ASSUME NEW r \in {"a0", "rd"}, NEW x \in Nat, NEW y \in Nat, NEW lost \in SUBSET {"rd"},
             place \in Exit, Resume([ctx EXCEPT ![r] = x], After(sepc)), UNCHANGED <<hwis, status>>,
             Guest([reg |-> [want.reg EXCEPT ![r] = y], pc |-> After(want.pc)], lost),
             wrong \ {r} \subseteq lost, x = y \/ r \in lost
      PROVE  VcpuInv'
  <2>1. [ctx EXCEPT ![r] = x] \in [Saved -> Nat] /\ [want.reg EXCEPT ![r] = y] \in [Saved -> Nat]
    BY <1>0
  <2>2. init => \A q \in Saved \ lost : [ctx EXCEPT ![r] = x][q] = [want.reg EXCEPT ![r] = y][q]
    BY <1>0, <1>8, <1>r
  <2>3. init' = init
    BY <1>r DEF Resume
  <2>4. Guest([reg |-> [want.reg EXCEPT ![r] = y], pc |-> After(sepc)], lost)
    BY <1>8, <1>r, <2>3 DEF Guest
  <2>5. [want.reg EXCEPT ![r] = y]["tid"] = want.reg["tid"]
    BY <1>0
  <2> QED
    BY <1>r, <2>1, <2>2, <2>4, <2>5, ResumeStep
<1>11. ASSUME NEW v \in {0, 5}, handle_hvc(v)
       PROVE  VcpuInv'
  <2>1. /\ place \in Exit /\ Resume([ctx EXCEPT !["a0"] = v], After(sepc)) /\ UNCHANGED <<hwis, status>>
        /\ Guest([reg |-> [want.reg EXCEPT !["a0"] = v], pc |-> After(want.pc)], wrong \ {"a0"})
    BY <1>11 DEF handle_hvc, Exit
  <2>2. wrong \ {"a0"} \in SUBSET {"rd"}
    BY <1>0
  <2> QED
    BY <2>1, <2>2, <1>r
<1>12. ASSUME NEW v \in Raw, NEW d \in Decoded, handle_mmio_load(v, d[1], d[2])
       PROVE  VcpuInv'
  <2>1. d[1] \in {1, 2, 4, 8} /\ d[2] \in BOOLEAN /\ v \in Nat
    BY VcpuAssumption DEF Decoded
  <2> DEFINE x == extended(v, d[1], d[2])
             low == v % 2^d[1]
             y == IF ~d[2] /\ low >= 2^(d[1] - 1) THEN Word - 2^d[1] + low ELSE low
             lost == IF d[1] = 8 THEN wrong \cup {"rd"} ELSE wrong \ {"rd"}
  <2>2. x \in Nat /\ y \in Nat /\ (d[1] # 8 => x = y)
    BY <2>1, LoadValue
  <2>3. /\ place \in Exit /\ Resume([ctx EXCEPT !["rd"] = x], After(sepc)) /\ UNCHANGED <<hwis, status>>
        /\ Guest([reg |-> [want.reg EXCEPT !["rd"] = y], pc |-> After(want.pc)], lost)
    BY <1>12 DEF handle_mmio_load, Exit
  <2>4. lost \in SUBSET {"rd"} /\ wrong \ {"rd"} \subseteq lost /\ (x = y \/ "rd" \in lost)
    BY <1>0, <2>2
  <2> HIDE DEF x, y, lost
  <2> QED
    BY <2>2, <2>3, <2>4, <1>r
<1>13. ASSUME NEW v \in {0, 5}, emulate_instruction(v)
       PROVE  VcpuInv'
  <2> DEFINE rd(x) == [want.reg EXCEPT !["rd"] = x]
  <2>0. place \in Exit /\ UNCHANGED <<hwis, status>> /\ ctx["rd"] \in Nat /\ [ctx EXCEPT !["rd"] = ctx["rd"]] = ctx
    BY <1>0, <1>13 DEF emulate_instruction, Exit
  <2>1. ASSUME NEW x \in {0, v}, Emulate([ctx EXCEPT !["rd"] = x], rd(x), wrong \ {"rd"})
        PROVE  VcpuInv'
    <3>1. x \in Nat /\ wrong \ {"rd"} \in SUBSET {"rd"}
      BY <1>0
    <3>2. /\ Resume([ctx EXCEPT !["rd"] = x], After(sepc))
          /\ Guest([reg |-> [want.reg EXCEPT !["rd"] = x], pc |-> After(want.pc)], wrong \ {"rd"})
      BY <2>1 DEF Emulate
    <3> QED
      BY <1>r, <2>0, <3>1, <3>2
  <2>2. ASSUME Emulate(ctx, want.reg, wrong)
        PROVE  VcpuInv'
    <3>1. Resume(ctx, After(sepc)) /\ init' = init
      BY <2>2 DEF Emulate, Resume
    <3>2. Guest([reg |-> want.reg, pc |-> After(sepc)], wrong)
      BY <1>8, <2>0, <2>2, <3>1 DEF Emulate, Guest
    <3> QED
      BY <1>0, <1>8, <2>0, <3>1, <3>2, ResumeStep
  <2>3. ASSUME NEW b \in Bytes, Emulate(ctx, rd(b), wrong \cup {"rd"})
        PROVE  VcpuInv'
    <3>1. b \in Nat
      BY DEF Bytes, Word
    <3> QED
      BY <1>0, <1>r, <2>0, <2>3, <3>1 DEF Emulate
  <2> QED
    BY <1>13, <2>1, <2>2, <2>3
    DEF emulate_instruction, emulate_cpucfg, emulate_csrx, emulate_iocsrrd, emulate_iocsrwr,
        emulate_cacop, emulate_idle, emulate_st_b, emulate_ld_b, emulate_ld_bu
<1> QED
  BY <1>1, <1>3, <1>4, <1>5, <1>6, <1>7, <1>9, <1>10, <1>11, <1>12, <1>13, <1>z DEF VcpuNext, Exit

(* Whatever devices answer, exits, emulated instructions, injections, stray *)
(* IPIs, the start and shutdowns in any order leave a guest that run() has  *)
(* started its pc and registers, but for the target of a load that has no   *)
(* effect; the hypervisor's guest id only when its zone is gone; and no     *)
(* injected line up on a CPU reported Idle (_hyp_trap_vector, handle_mmio,  *)
(* emulate_instruction, _vcpu_return, inject_irq).                          *)
THEOREM GuestStateIsKept == VcpuSpec => []GuestStateKept
<1>1. VcpuInit => VcpuInv
  <2> SUFFICES ASSUME VcpuInit PROVE VcpuInv
    OBVIOUS
  <2>1. Zeros \in [Saved -> Nat] /\ live = Zeros /\ ctx \in [Saved -> Nat]
    BY DEF VcpuInit, Zeros, dump_reset_gcsrs
  <2>2. want.reg = Zeros /\ want = [reg |-> want.reg, pc |-> want.pc]
    BY DEF VcpuInit
  <2>3. VcpuShape
    BY <2>1, <2>2 DEF VcpuInit, VcpuShape
  <2>4. ContextHeld /\ GuestStateKept
    BY DEF VcpuInit, ContextHeld, GuestStateKept, GuestRegisters, OnlyTargetWrong, OwnGuestId, IdleMeansClear, Exit
  <2> QED
    BY <2>3, <2>4 DEF VcpuInv
<1>2. VcpuInv /\ [VcpuNext]_lvars => VcpuInv'
  BY VcpuStep
<1>3. VcpuSpec => []VcpuInv
  BY <1>1, <1>2, PTL DEF VcpuSpec
<1>4. VcpuInv => GuestStateKept
  BY DEF VcpuInv
<1> QED
  BY <1>3, <1>4, PTL
=============================================================================

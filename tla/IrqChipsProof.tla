--------------------------- MODULE IrqChipsProof ----------------------------
(***************************************************************************)
(* Proofs about the interrupt controllers of aarch64: the list registers of *)
(* a GICv3 (VirtualIrq) and of a GICv2 (Gicv2), for any registers, any      *)
(* interrupts and any length of PENDING_VIRQS; the emulated distributor of  *)
(* a GICv2 (Vgic2), for any zones, bitmaps and values; the command queues   *)
(* of the ITS (Its), for any zones and any queue size; the emulated         *)
(* distributor and redistributors of a GICv3 (Vgic3), for any zones, CPUs,  *)
(* registers and interrupts.                                                *)
(***************************************************************************)
EXTENDS VirtualIrq, Gicv2, Vgic2, Vgic3, Its, FiniteSetTheorems, WellFoundedInduction, TLAPS

-----------------------------------------------------------------------------
(* The list registers of a GICv3 (VirtualIrq).  The conjunction of the      *)
(* three properties with the type invariant is inductive.  One lemma says   *)
(* what inject_irq does, whatever the queue it is called with: the actions  *)
(* of the CPU follow from it.                                               *)

(* A call of inject_irq with queue q keeps the registers sound, loses no    *)
(* interrupt that was listed, and leaves i listed or at the end of the      *)
(* queue, with the maintenance interrupt on in the latter case.             *)
LEMMA InjectIrq ==
  ASSUME TypeOK, OneRegister, NEW i \in Irq, NEW q \in Seq(Irq), inject_irq(i, q)
  PROVE  /\ lr_irq' \in [LR -> Irq \cup {NoIrq}]
         /\ lr_state' \in [LR -> {"invalid", "pending", "active"}]
         /\ pending' \in Seq(Irq)
         /\ uie' \in BOOLEAN
         /\ OneRegister'
         /\ \A j \in Irq : Listed(j) => Listed(j)'
         /\ \/ pending' = q /\ uie' = uie /\ Listed(i)'
            \/ pending' = Append(q, i) /\ uie' = TRUE
<1> USE DEF TypeOK, Valid, Listed, OneRegister
<1>1. CASE /\ Listed(i)
           /\ pending' = q
           /\ UNCHANGED <<lr_irq, lr_state, uie>>
  BY <1>1
<1>2. CASE /\ ~Listed(i)
           /\ \E l \in FirstFree : write_lr(l, i)
           /\ pending' = q
           /\ UNCHANGED uie
  <2> PICK l \in FirstFree : write_lr(l, i)
    BY <1>2
  <2>1. l \in LR /\ lr_state[l] = "invalid"
    BY DEF FirstFree, Free
  <2>2. /\ lr_irq' = [lr_irq EXCEPT ![l] = i]
        /\ lr_state' = [lr_state EXCEPT ![l] = "pending"]
    BY DEF write_lr
  <2>3. lr_irq'[l] = i /\ lr_state'[l] = "pending"
    BY <2>1, <2>2
  <2>4. \A k \in LR \ {l} : lr_irq'[k] = lr_irq[k] /\ lr_state'[k] = lr_state[k]
    BY <2>1, <2>2
  <2>5. Valid' = Valid \cup {l}
    BY <2>1, <2>3, <2>4
  <2>6. OneRegister'
    BY <1>2, <2>1, <2>3, <2>4, <2>5
  <2>7. \A j \in Irq : Listed(j) => Listed(j)'
    BY <2>1, <2>4, <2>5
  <2>8. Listed(i)'
    BY <2>3, <2>5
  <2>9. /\ lr_irq' \in [LR -> Irq \cup {NoIrq}]
        /\ lr_state' \in [LR -> {"invalid", "pending", "active"}]
    BY <2>2
  <2> QED
    BY <1>2, <2>6, <2>7, <2>8, <2>9
<1>3. CASE /\ ~Listed(i) /\ Free = {}
           /\ pending' = Append(q, i)
           /\ uie' = TRUE
           /\ UNCHANGED <<lr_irq, lr_state>>
  BY <1>3
<1> QED
  BY <1>1, <1>2, <1>3 DEF inject_irq

(* Popping the head of a queue and putting it back twice at the end, as     *)
(* handle_maintenace_interrupt does, keeps every interrupt of the queue.    *)
LEMMA Rotate ==
  ASSUME NEW q \in Seq(Irq), q # <<>>
  PROVE  /\ Head(q) \in Irq /\ Tail(q) \in Seq(Irq)
         /\ Tail(q) \o <<Head(q), Head(q)>> \in Seq(Irq)
         /\ Tail(q) \o <<Head(q), Head(q)>> # <<>>
         /\ \A j : (\E k \in 1 .. Len(q) : q[k] = j) =>
              \/ j = Head(q)
              \/ \E k \in 1 .. Len(Tail(q)) : Tail(q)[k] = j
         /\ \A j : (\E k \in 1 .. Len(q) : q[k] = j) =>
              \E k \in 1 .. Len(Tail(q) \o <<Head(q), Head(q)>>) :
                (Tail(q) \o <<Head(q), Head(q)>>)[k] = j
<1> DEFINE h == Head(q)
           t == Tail(q)
           r == t \o <<h, h>>
<1>1. h \in Irq /\ t \in Seq(Irq) /\ Len(q) \in Nat \ {0} /\ Len(t) = Len(q) - 1
  OBVIOUS
<1>2. \A k \in 2 .. Len(q) : q[k] = t[k - 1] /\ k - 1 \in 1 .. Len(t)
  BY <1>1
<1>3. \A j : (\E k \in 1 .. Len(q) : q[k] = j) =>
               j = h \/ \E k \in 1 .. Len(t) : t[k] = j
  <2> TAKE j
  <2> SUFFICES ASSUME NEW k \in 1 .. Len(q), q[k] = j, j # h
               PROVE  \E m \in 1 .. Len(t) : t[m] = j
    OBVIOUS
  <2>1. k \in 2 .. Len(q)
    BY <1>1
  <2> QED
    BY <2>1, <1>2
<1>4. r \in Seq(Irq) /\ Len(r) = Len(t) + 2 /\ r[Len(t) + 1] = h
  BY <1>1
<1>5. \A k \in 1 .. Len(t) : r[k] = t[k]
  BY <1>1
<1>6. \A j : (j = h \/ \E k \in 1 .. Len(t) : t[k] = j) => \E k \in 1 .. Len(r) : r[k] = j
  <2> TAKE j
  <2>1. CASE j = h
    BY <2>1, <1>1, <1>4
  <2>2. ASSUME NEW k \in 1 .. Len(t), t[k] = j
        PROVE  \E m \in 1 .. Len(r) : r[m] = j
    <3>1. r[k] = j
      BY <2>2, <1>5
    <3>2. k \in 1 .. Len(r)
      BY <1>1, <1>4
    <3> HIDE DEF r
    <3> QED
      BY <3>1, <3>2
  <2> QED
    BY <2>1, <2>2
<1>7. r # <<>>
  BY <1>1, <1>4
<1> QED
  BY <1>1, <1>3, <1>4, <1>6, <1>7

(* The inductive invariant: the three properties, and the types.            *)
VirqInv == TypeOK /\ OneRegister /\ WaitingIsServed /\ ActiveIsHeld

(* A call of inject_irq at a queue that is part of PENDING_VIRQS keeps the  *)
(* invariant, for TakeIrq and Inject.                                       *)
LEMMA Arrives ==
  ASSUME VirqInv, NEW i \in Irq, inject_irq(i, pending),
         active' \subseteq active \cup {i}
  PROVE  /\ lr_irq' \in [LR -> Irq \cup {NoIrq}]
         /\ lr_state' \in [LR -> {"invalid", "pending", "active"}]
         /\ pending' \in Seq(Irq)
         /\ uie' \in BOOLEAN
         /\ OneRegister' /\ WaitingIsServed'
         /\ \A j \in active' : j \in Irq => (Listed(j) \/ Waiting(j))'
<1> pending \in Seq(Irq)
  BY DEF VirqInv, TypeOK
<1>1. /\ lr_irq' \in [LR -> Irq \cup {NoIrq}]
      /\ lr_state' \in [LR -> {"invalid", "pending", "active"}]
      /\ pending' \in Seq(Irq)
      /\ uie' \in BOOLEAN
      /\ OneRegister'
      /\ \A j \in Irq : Listed(j) => Listed(j)'
      /\ \/ pending' = pending /\ uie' = uie /\ Listed(i)'
         \/ pending' = Append(pending, i) /\ uie' = TRUE
  BY InjectIrq DEF VirqInv
<1>2. WaitingIsServed'
  BY <1>1 DEF VirqInv, WaitingIsServed
<1>3. \A j : Waiting(j) => Waiting(j)'
  BY <1>1 DEF Waiting
<1>4. (Listed(i) \/ Waiting(i))'
  <2>1. CASE pending' = Append(pending, i)
    <3>1. Len(pending') = Len(pending) + 1 /\ pending'[Len(pending) + 1] = i
      BY <2>1
    <3> QED
      BY <3>1 DEF Waiting
  <2> QED
    BY <1>1, <2>1
<1> QED
  BY <1>1, <1>2, <1>3, <1>4 DEF VirqInv, ActiveIsHeld

(* Every step of the CPU, of the devices and of the guest keeps VirqInv.       *)
LEMMA VirqNextInv == VirqInv /\ [Next]_vars => VirqInv'
<1> SUFFICES ASSUME VirqInv, [Next]_vars
             PROVE  VirqInv'
  OBVIOUS
<1>t. TypeOK /\ OneRegister /\ WaitingIsServed /\ ActiveIsHeld
  BY DEF VirqInv
<1>1. ASSUME NEW i \in HwIrq, Raise(i)
      PROVE  VirqInv'
  BY <1>t, <1>1 DEF Raise, VirqInv, TypeOK, OneRegister, WaitingIsServed, ActiveIsHeld,
                    Valid, Listed, Waiting
<1>2. ASSUME NEW i \in HwIrq, TakeIrq(i)
      PROVE  VirqInv'
  <2>1. i \in Irq /\ HwIrq \subseteq Irq
    BY DEF Irq
  <2>2. /\ inject_irq(i, pending)
        /\ active' = active \cup {i} /\ raised' = raised \ {i} /\ owed' = owed \cup {i}
        /\ pc' = pc
    BY <1>2 DEF TakeIrq
  <2>3. active' \subseteq Irq
    BY <1>t, <2>1, <2>2 DEF TypeOK
  <2>4. TypeOK'
    BY <1>t, <2>1, <2>2, Arrives DEF TypeOK
  <2> QED
    BY <2>1, <2>2, <2>3, <2>4, Arrives DEF VirqInv, ActiveIsHeld
<1>3. ASSUME NEW i \in SwIrq, Inject(i)
      PROVE  VirqInv'
  <2>1. i \in Irq /\ HwIrq \subseteq Irq
    BY DEF Irq
  <2>2. /\ inject_irq(i, pending)
        /\ active' = active /\ raised' = raised /\ owed' = owed \cup {i}
        /\ pc' = pc
    BY <1>3 DEF Inject
  <2>3. active' \subseteq Irq
    BY <1>t, <2>1, <2>2 DEF TypeOK
  <2>4. TypeOK'
    BY <1>t, <2>1, <2>2, Arrives DEF TypeOK
  <2> QED
    BY <2>1, <2>2, <2>3, <2>4, Arrives DEF VirqInv, ActiveIsHeld
<1>4. ASSUME Maintenance
      PROVE  VirqInv'
  BY <1>t, <1>4 DEF Maintenance, VirqInv, TypeOK, OneRegister, WaitingIsServed, ActiveIsHeld,
                    Valid, Listed, Waiting
<1>5. ASSUME handle_maintenace_interrupt
      PROVE  VirqInv'
  <2> PICK i : i = Head(pending)
    OBVIOUS
  <2>a. raised' = raised /\ active' = active /\ owed' = owed
    BY <1>5 DEF handle_maintenace_interrupt
  <2>b. active \subseteq Irq
    BY <1>t DEF TypeOK, Irq
  <2>1. CASE pending = <<>> /\ uie' = FALSE /\ pc' = "guest"
             /\ UNCHANGED <<lr_irq, lr_state, pending>>
    BY <1>t, <2>a, <2>1 DEF VirqInv, TypeOK, OneRegister, WaitingIsServed, ActiveIsHeld,
                            Valid, Listed, Waiting
  <2>2. CASE pending # <<>> /\ (Listed(i) \/ Free # {}) /\ inject_irq(i, Tail(pending))
             /\ UNCHANGED pc
    <3>1. pending \in Seq(Irq) /\ uie = TRUE
      BY <1>t, <2>2 DEF TypeOK, WaitingIsServed
    <3>2. i \in Irq /\ Tail(pending) \in Seq(Irq)
      BY <3>1, <2>2, Rotate
    <3> PICK q \in Seq(Irq) : q = Tail(pending)
      BY <3>2
    <3>3. /\ lr_irq' \in [LR -> Irq \cup {NoIrq}]
          /\ lr_state' \in [LR -> {"invalid", "pending", "active"}]
          /\ pending' \in Seq(Irq)
          /\ uie' \in BOOLEAN
          /\ OneRegister'
          /\ \A j \in Irq : Listed(j) => Listed(j)'
          /\ \/ pending' = q /\ uie' = uie /\ Listed(i)'
             \/ pending' = Append(q, i) /\ uie' = TRUE
      <4>1. inject_irq(i, q)
        BY <2>2
          <4> QED
        BY <1>t, <3>2, <4>1, InjectIrq
    <3>4. pending' = Tail(pending) /\ uie' = uie /\ Listed(i)'
      BY <2>2, <3>2, <3>3 DEF inject_irq
    <3>5. \A j \in Irq : Waiting(j) => (Listed(j) \/ Waiting(j))'
      <4> SUFFICES ASSUME NEW j \in Irq, Waiting(j)
                   PROVE  (Listed(j) \/ Waiting(j))'
        OBVIOUS
      <4>1. j = i \/ \E k \in 1 .. Len(Tail(pending)) : Tail(pending)[k] = j
        BY <2>2, <3>1, Rotate DEF Waiting
      <4>2. CASE j = i
        BY <3>4, <4>2
      <4>3. CASE \E k \in 1 .. Len(Tail(pending)) : Tail(pending)[k] = j
        BY <3>4, <4>3 DEF Waiting
      <4> QED
        BY <4>1, <4>2, <4>3
    <3>6. TypeOK'
      BY <1>t, <2>a, <2>2, <3>3 DEF TypeOK
    <3>7. ActiveIsHeld'
      BY <1>t, <2>a, <2>b, <3>3, <3>5 DEF ActiveIsHeld
    <3> QED
      BY <3>1, <3>3, <3>4, <3>6, <3>7 DEF VirqInv, WaitingIsServed
  <2>3. CASE pending # <<>> /\ pending' = Tail(pending) \o <<i, i>> /\ uie' = TRUE
             /\ pc' = "guest" /\ UNCHANGED <<lr_irq, lr_state>>
    <3>1. pending \in Seq(Irq)
      BY <1>t DEF TypeOK
    <3>2. pending' \in Seq(Irq) /\ \A j : Waiting(j) => Waiting(j)'
      <4>1. pending' = Tail(pending) \o <<Head(pending), Head(pending)>>
        BY <2>3
      <4>2. pending' \in Seq(Irq)
        BY <2>3, <3>1, <4>1, Rotate
      <4>3. ASSUME NEW j, Waiting(j)
            PROVE  Waiting(j)'
        <5>1. \E k \in 1 .. Len(Tail(pending) \o <<Head(pending), Head(pending)>>) :
                (Tail(pending) \o <<Head(pending), Head(pending)>>)[k] = j
          BY <2>3, <3>1, <4>3, Rotate DEF Waiting
        <5> QED
          BY <4>1, <5>1 DEF Waiting
      <4> QED
        BY <4>2, <4>3
    <3>3. TypeOK'
      BY <1>t, <2>a, <2>3, <3>2 DEF TypeOK
    <3>4. OneRegister' /\ \A j : Listed(j) => Listed(j)'
      BY <1>t, <2>3 DEF OneRegister, Valid, Listed
    <3> QED
      BY <1>t, <2>a, <2>3, <3>2, <3>3, <3>4 DEF VirqInv, WaitingIsServed, ActiveIsHeld
  <2> QED
    BY <1>5, <2>1, <2>2, <2>3 DEF handle_maintenace_interrupt
<1>6. ASSUME NEW l \in LR, GuestAck(l)
      PROVE  VirqInv'
  <2>1. Valid' = Valid
    BY <1>t, <1>6 DEF GuestAck, TypeOK, Valid
  <2>2. lr_irq' = lr_irq /\ pending' = pending /\ uie' = uie /\ active' = active
    BY <1>6 DEF GuestAck
  <2>3. TypeOK'
    BY <1>t, <1>6 DEF GuestAck, TypeOK
  <2> QED
    BY <1>t, <2>1, <2>2, <2>3 DEF VirqInv, OneRegister, WaitingIsServed, ActiveIsHeld, Listed, Waiting
<1>7. ASSUME NEW l \in LR, GuestDeactivate(l)
      PROVE  VirqInv'
  <2>1. Valid' = Valid \ {l}
    BY <1>t, <1>7 DEF GuestDeactivate, TypeOK, Valid
  <2>2. /\ lr_irq' = lr_irq /\ pending' = pending /\ uie' = uie
        /\ active' = active \ {lr_irq[l]}
    BY <1>7 DEF GuestDeactivate
  <2>3. TypeOK'
    BY <1>t, <1>7 DEF GuestDeactivate, TypeOK
  <2> QED
    BY <1>t, <2>1, <2>2, <2>3 DEF VirqInv, OneRegister, WaitingIsServed, ActiveIsHeld, Listed, Waiting
<1>8. CASE UNCHANGED vars
  BY <1>t, <1>8 DEF vars, VirqInv, TypeOK, OneRegister, WaitingIsServed, ActiveIsHeld,
                    Valid, Listed, Waiting
<1> QED
  BY <1>1, <1>2, <1>3, <1>4, <1>5, <1>6, <1>7, <1>8 DEF Next

(* After percpu_init, with empty list registers, VirqInv holds.                *)
LEMMA VirqInitInv == Init => VirqInv
<1> SUFFICES ASSUME Init
             PROVE  VirqInv
  OBVIOUS
<1>1. TypeOK
  <2>1. lr_irq \in [LR -> Irq \cup {NoIrq}]
    BY DEF Init
  <2>2. lr_state \in [LR -> {"invalid", "pending", "active"}]
    BY DEF Init
  <2>3. pending \in Seq(Irq)
    BY DEF Init
  <2> QED
    BY <2>1, <2>2, <2>3 DEF Init, TypeOK
<1>2. OneRegister
  BY DEF Init, OneRegister, Valid
<1> QED
  BY <1>1, <1>2 DEF Init, VirqInv, WaitingIsServed, ActiveIsHeld

(* For any number of list registers: inject_irq puts no interrupt into two  *)
(* of them, whatever is taken out of the queue meanwhile; a hardware        *)
(* interrupt that is active at the GIC is always held in a register or in   *)
(* the queue, since neither inject_irq nor the handler of the maintenance   *)
(* interrupt drops it; and PENDING_VIRQS is empty or that interrupt is on.  *)
THEOREM VirtualIrqSafe == Spec => []HeldOnce
<1>1. VirqInv => HeldOnce
  BY DEF VirqInv, HeldOnce
<1> QED
  BY <1>1, VirqInitInv, VirqNextInv, PTL DEF Spec

-----------------------------------------------------------------------------
(* The list registers of a GICv2 (Gicv2).                                   *)

Irq2   == Sgi \cup HwIrq2
Slot   == [st : {"free", "pending", "active"}, irq : {0} \cup Irq2, sgi : BOOLEAN]

(* Queued and listed interrupts are marked as SGIs when they are.           *)
Gicv2Shape == /\ lr \in [ListReg -> Slot] /\ wait \in Seq(Irq2 \X BOOLEAN)
              /\ uie2 \in BOOLEAN /\ maint \in BOOLEAN
              /\ active2 \subseteq HwIrq2 /\ owed2 \subseteq Sgi
              /\ \A k \in ListReg : lr[k].st # "free" => (lr[k].sgi <=> lr[k].irq \in Sgi)
              /\ \A n \in DOMAIN wait : wait[n][2] <=> wait[n][1] \in Sgi

(* An SGI owed to the guest is pending in a register, not merely listed:    *)
(* the register of one that the guest is handling is going to be freed.     *)
OwedIsPending ==
  \A i \in owed2 : i # 1 => \/ \E k \in ListReg : lr[k] = [st |-> "pending", irq |-> i, sgi |-> TRUE]
                            \/ \E n \in DOMAIN wait : wait[n] = <<i, TRUE>>

Gicv2Inv == Gicv2Shape /\ HwNotLost /\ OwedIsPending /\ WaitingWakes

(* A set of natural numbers below a bound that has an element has a largest.*)
LEMMA LargestBelow ==
  ASSUME NEW m \in Nat, NEW S \in SUBSET (0 .. m), S # {}
  PROVE  Max(S) \in S
<1> DEFINE R == OpToRel(<, Nat)
           T == {m - x : x \in S}
<1>1. R = {ss \in Nat \X Nat : ss[1] < ss[2]}
  BY Zenon DEF OpToRel
<1>2. IsWellFoundedOn(R, Nat)
  BY NatLessThanWellFounded, Zenon
<1>3. T \in SUBSET Nat /\ T # {}
  <2>1. \A x \in S : m - x \in Nat
    OBVIOUS
  <2>2. T \in SUBSET Nat
    BY <2>1
  <2>3. T # {}
    OBVIOUS
  <2> QED
    BY <2>2, <2>3
<1> HIDE DEF R, T
<1>4. PICK t \in T : \A y \in T : ~(<<y, t>> \in R)
  BY <1>2, <1>3, WFMin, Zenon
<1>5. ASSUME NEW y \in T
      PROVE  t <= y
  <2>1. <<y, t>> \in Nat \X Nat /\ <<y, t>>[1] = y /\ <<y, t>>[2] = t
    BY <1>3
  <2>2. ~(y < t)
    BY <1>1, <1>4, <2>1, Zenon
  <2> QED
    BY <1>3, <2>2
<1>6. PICK x \in S : t = m - x
  BY <1>4 DEF T
<1>7. ASSUME NEW y \in S
      PROVE  x >= y
  <2>1. m - y \in T
    BY DEF T
  <2> QED
    BY <1>5, <1>6, <2>1
<1> QED
  BY <1>7 DEF Max

(* What inject_irq does: it loses nothing that was listed, and lists what   *)
(* it is given unless that is SGI 1.                                        *)
Injects(i, s, q) ==
  /\ lr' \in [ListReg -> Slot] /\ wait' \in Seq(Irq2 \X BOOLEAN) /\ uie2' \in BOOLEAN
  /\ \A k \in ListReg : lr'[k].st # "free" => (lr'[k].sgi <=> lr'[k].irq \in Sgi)
  /\ \A n \in DOMAIN wait' : wait'[n][2] <=> wait'[n][1] \in Sgi
  /\ \A k \in ListReg : lr[k].st # "free" => lr'[k] = lr[k]
  /\ \A n \in DOMAIN q : n \in DOMAIN wait' /\ wait'[n] = q[n]
  /\ uie2 => uie2'
  /\ wait' # q => uie2'
  /\ i # 1 => \/ \E k \in ListReg : lr'[k] = [st |-> "pending", irq |-> i, sgi |-> s]
              \/ \E n \in DOMAIN wait' : wait'[n] = <<i, s>>
              \/ i \notin Sgi /\ \E k \in ListReg : lr[k].st # "free" /\ lr[k].irq = i /\ ~lr[k].sgi

LEMMA InjectLists ==
  ASSUME Gicv2Shape, NEW i \in Irq2, NEW s \in BOOLEAN, s <=> i \in Sgi,
         NEW q \in Seq(Irq2 \X BOOLEAN), \A n \in DOMAIN q : q[n][2] <=> q[n][1] \in Sgi,
         gicv2_inject_irq(i, s, q)
  PROVE  Injects(i, s, q)
<1> DEFINE again == \E k \in Usable \ FreeLr : pint(k) = i
<1>1. /\ lr' = IF again \/ FreeLr = {} THEN lr
               ELSE [lr EXCEPT ![Max(FreeLr)] = [st |-> "pending", irq |-> i, sgi |-> s]]
      /\ wait' = IF ~again /\ FreeLr = {} THEN Append(q, <<i, s>>) ELSE q
      /\ uie2' = (uie2 \/ (~again /\ FreeLr = {}))
  BY DEF gicv2_inject_irq
<1>2. Usable \subseteq ListReg /\ FreeLr \subseteq Usable
  BY Gicv2Assumption DEF Usable, ListReg, FreeLr
<1> USE DEF Gicv2Shape
<1>3. CASE again
  <2>1. UNCHANGED <<lr, uie2>> /\ wait' = q
    BY <1>1, <1>3
  <2>2. PICK k \in Usable \ FreeLr : pint(k) = i
    BY <1>3
  <2>3. k \in ListReg /\ lr[k].st # "free"
    BY <1>2, <2>2 DEF FreeLr
  <2>4. i # 1 => ~lr[k].sgi /\ lr[k].irq = i /\ i \notin Sgi
    BY <2>2, <2>3 DEF pint
  <2> QED
    BY <2>1, <2>3, <2>4 DEF Injects
<1>4. CASE ~again /\ FreeLr # {}
  <2> DEFINE f == Max(FreeLr)
  <2>1. f \in FreeLr /\ f \in ListReg
    BY <1>2, <1>4, LargestBelow, Gicv2Assumption DEF ListReg
  <2> HIDE DEF again, f
  <2>2. lr' = [lr EXCEPT ![f] = [st |-> "pending", irq |-> i, sgi |-> s]] /\ wait' = q /\ uie2' = uie2
    BY <1>1, <1>4 DEF f
  <2>3. lr[f].st = "free"
    BY <2>1 DEF FreeLr
  <2>4. [st |-> "pending", irq |-> i, sgi |-> s] \in Slot
    BY DEF Slot
  <2> QED
    BY <2>1, <2>2, <2>3, <2>4 DEF Injects
<1>5. CASE ~again /\ FreeLr = {}
  <2> HIDE DEF again
  <2>1. lr' = lr /\ wait' = Append(q, <<i, s>>) /\ uie2' = TRUE
    BY <1>1, <1>5
  <2>2. /\ wait' \in Seq(Irq2 \X BOOLEAN) /\ Len(wait') = Len(q) + 1 /\ wait'[Len(q) + 1] = <<i, s>>
        /\ \A n \in 1 .. Len(q) : wait'[n] = q[n]
        /\ DOMAIN q = 1 .. Len(q) /\ DOMAIN wait' = 1 .. Len(q) + 1
    BY <2>1
  <2>3. ASSUME NEW n \in DOMAIN wait'
        PROVE  wait'[n][2] <=> wait'[n][1] \in Sgi
    <3>1. n \in DOMAIN q \/ n = Len(q) + 1
      BY <2>2
    <3>2. CASE n \in DOMAIN q
      <4>1. wait'[n] = q[n]
        BY <2>2, <3>2
      <4> QED
        BY <3>2, <4>1
    <3>3. CASE n = Len(q) + 1
      <4>1. wait'[n] = <<i, s>>
        BY <2>2, <3>3
      <4> QED
        BY <4>1
    <3> QED
      BY <3>1, <3>2, <3>3
  <2>4. \E n \in DOMAIN wait' : wait'[n] = <<i, s>>
    BY <2>2, SMTT(30)
  <2>5. \A n \in DOMAIN q : n \in DOMAIN wait' /\ wait'[n] = q[n]
    BY <2>2
  <2> QED
    BY <2>1, <2>2, <2>3, <2>4, <2>5 DEF Injects
<1> QED
  BY <1>3, <1>4, <1>5

(* Every step keeps the invariant.                                          *)
LEMMA Gicv2Step == Gicv2Inv /\ [Gicv2Next]_g2vars => Gicv2Inv'
<1> SUFFICES ASSUME Gicv2Inv, [Gicv2Next]_g2vars PROVE Gicv2Inv'
  OBVIOUS
<1> USE DEF Gicv2Inv
<1>0. (\A i \in Sgi : i \notin HwIrq2) /\ \A i \in HwIrq2 : i # 1
  BY Gicv2Assumption
<1>1. ASSUME UNCHANGED <<active2, lr, wait, owed2>>, uie2' \in BOOLEAN, maint' \in BOOLEAN,
             wait # << >> => uie2' \/ maint'
      PROVE  Gicv2Inv'
  BY <1>1 DEF Gicv2Shape, HwNotLost, Listed2, OwedIsPending, WaitingWakes
<1>2. CASE \/ UNCHANGED g2vars \/ Maintenance2 \/ MaintDone \/ Guest25
           \/ \E i \in Sgi \cup HighSgi \cup HwIrq2 : Raise2(i)
           \/ \E i \in HighSgi : HandleHighSgi(i)
  BY <1>1, <1>2 DEF g2vars, Maintenance2, MaintDone, Guest25, Raise2, HandleHighSgi, Gicv2Shape, WaitingWakes
<1>3. ASSUME NEW i \in Irq2, NEW s \in BOOLEAN, s <=> i \in Sgi, NEW q \in Seq(Irq2 \X BOOLEAN),
             \A n \in DOMAIN q : \E m \in DOMAIN wait : q[n] = wait[m],
             \A m \in DOMAIN wait : wait[m] = <<i, s>> \/ \E n \in DOMAIN q : q[n] = wait[m],
             gicv2_inject_irq(i, s, q),
             q = wait \/ maint, maint' = maint,
             active2' \in {active2, active2 \cup ({i} \cap HwIrq2)},
             owed2' \in {owed2, owed2 \cup ({i} \cap Sgi)}
      PROVE  Gicv2Inv'
  <2>1. \A n \in DOMAIN q : q[n][2] <=> q[n][1] \in Sgi
    BY <1>3 DEF Gicv2Shape
  <2>0. Injects(i, s, q)
    BY <1>3, <2>1, InjectLists
  <2>2. /\ lr' \in [ListReg -> Slot] /\ wait' \in Seq(Irq2 \X BOOLEAN) /\ uie2' \in BOOLEAN
        /\ \A k \in ListReg : lr'[k].st # "free" => (lr'[k].sgi <=> lr'[k].irq \in Sgi)
        /\ \A n \in DOMAIN wait' : wait'[n][2] <=> wait'[n][1] \in Sgi
        /\ \A k \in ListReg : lr[k].st # "free" => lr'[k] = lr[k]
        /\ \A n \in DOMAIN q : n \in DOMAIN wait' /\ wait'[n] = q[n]
        /\ uie2 => uie2'
        /\ wait' # q => uie2'
        /\ i # 1 => \/ \E k \in ListReg : lr'[k] = [st |-> "pending", irq |-> i, sgi |-> s]
                    \/ \E n \in DOMAIN wait' : wait'[n] = <<i, s>>
                    \/ i \notin Sgi /\ \E k \in ListReg : lr[k].st # "free" /\ lr[k].irq = i /\ ~lr[k].sgi
    BY <2>0 DEF Injects
  <2>3. Gicv2Shape'
    BY <1>3, <2>2 DEF Gicv2Shape
  <2>4. i \in HwIrq2 => Listed2(i, FALSE)'
    <3> SUFFICES ASSUME i \in HwIrq2 PROVE Listed2(i, FALSE)'
      OBVIOUS
    <3>1. s = FALSE /\ i # 1
      BY <1>0, <1>3
    <3>2. ASSUME NEW k \in ListReg, lr'[k] = [st |-> "pending", irq |-> i, sgi |-> s]
          PROVE  Listed2(i, FALSE)'
      <4>1. lr'[k].st # "free" /\ lr'[k].irq = i /\ lr'[k].sgi = FALSE
        BY <3>1, <3>2
      <4> QED
        BY <4>1 DEF Listed2
    <3>3. CASE \E n \in DOMAIN wait' : wait'[n] = <<i, s>>
      BY <3>1, <3>3 DEF Listed2
    <3>4. CASE \E k \in ListReg : lr[k].st # "free" /\ lr[k].irq = i /\ ~lr[k].sgi
      <4>1. PICK k \in ListReg : lr[k].st # "free" /\ lr[k].irq = i /\ ~lr[k].sgi
        BY <3>4
      <4>2. lr'[k] = lr[k] /\ lr[k].sgi \in BOOLEAN
        BY <2>2, <4>1 DEF Gicv2Shape, Slot
      <4> QED
        BY <4>1, <4>2 DEF Listed2
    <3> QED
      BY <2>2, <3>1, <3>2, <3>3, <3>4
  <2>5. ASSUME NEW j, NEW t, Listed2(j, t), <<j, t>> # <<i, s>>
        PROVE  Listed2(j, t)'
    <3>1. ASSUME NEW k \in ListReg, lr[k].st # "free" /\ lr[k].irq = j /\ lr[k].sgi = t
          PROVE  Listed2(j, t)'
      BY <2>2, <3>1 DEF Listed2
    <3>2. ASSUME NEW n \in DOMAIN wait, wait[n] = <<j, t>>
          PROVE  Listed2(j, t)'
      <4>1. PICK m \in DOMAIN q : q[m] = wait[n]
        BY <1>3, <2>5, <3>2
      <4>2. m \in DOMAIN wait' /\ wait'[m] = <<j, t>>
        BY <2>2, <3>2, <4>1
      <4> QED
        BY <4>2 DEF Listed2
    <3> QED
      BY <2>5, <3>1, <3>2 DEF Listed2
  <2>6. HwNotLost'
    <3> SUFFICES ASSUME NEW j \in active2' PROVE Listed2(j, FALSE)'
      BY DEF HwNotLost, Listed2
    <3>1. CASE j = i
      BY <1>3, <2>4, <3>1 DEF Gicv2Shape
    <3>2. CASE j # i
      BY <1>3, <2>5, <3>2 DEF HwNotLost
    <3> QED
      BY <3>1, <3>2
  <2>7. OwedIsPending'
    <3> SUFFICES ASSUME NEW j \in owed2', j # 1
                 PROVE  \/ \E k \in ListReg : lr'[k] = [st |-> "pending", irq |-> j, sgi |-> TRUE]
                        \/ \E n \in DOMAIN wait' : wait'[n] = <<j, TRUE>>
      BY DEF OwedIsPending
    <3>0. j \in Sgi
      BY <2>3 DEF Gicv2Shape
    <3>1. CASE j = i
      <4>1. s = TRUE
        BY <1>3, <3>0, <3>1
      <4> QED
        BY <2>2, <3>0, <3>1, <4>1
    <3>2. CASE j # i
      <4>1. j \in owed2
        BY <1>3, <3>2
      <4>2. ASSUME NEW k \in ListReg, lr[k] = [st |-> "pending", irq |-> j, sgi |-> TRUE]
            PROVE  lr'[k] = [st |-> "pending", irq |-> j, sgi |-> TRUE]
        BY <2>2, <4>2, SMTT(30)
      <4>3. ASSUME NEW n \in DOMAIN wait, wait[n] = <<j, TRUE>>
            PROVE  \E m \in DOMAIN wait' : wait'[m] = <<j, TRUE>>
        <5>0. <<j, TRUE>> # <<i, s>>
          BY <3>2
        <5>1. PICK m \in DOMAIN q : q[m] = wait[n]
          BY <1>3, <4>3, <5>0
        <5> QED
          BY <2>2, <4>3, <5>1
      <4> QED
        BY <4>1, <4>2, <4>3 DEF OwedIsPending
    <3> QED
      BY <3>1, <3>2
  <2>8. WaitingWakes'
    BY <1>3, <2>2 DEF WaitingWakes
  <2> QED
    BY <2>3, <2>6, <2>7, <2>8
<1>4. ASSUME NEW i \in Sgi, HandleSgi(i)
      PROVE  Gicv2Inv'
  BY <1>3, <1>4 DEF HandleSgi, Gicv2Shape, Irq2
<1>5. ASSUME NEW i \in HwIrq2, HandleHw(i)
      PROVE  Gicv2Inv'
  <2>1. i \in Irq2 /\ i \notin Sgi /\ wait \in Seq(Irq2 \X BOOLEAN)
    BY <1>0 DEF Irq2, Gicv2Shape
  <2>2. /\ gicv2_inject_irq(i, FALSE, wait) /\ maint' = maint /\ owed2' = owed2
        /\ active2' = active2 \cup ({i} \cap HwIrq2)
    BY <1>5 DEF HandleHw
  <2> QED
    BY <1>3, <2>1, <2>2
<1>6. CASE MaintInject
  <2>1. /\ wait \in Seq(Irq2 \X BOOLEAN) /\ wait # << >>
        /\ Head(wait) = wait[1] /\ 1 \in DOMAIN wait
        /\ Tail(wait) \in Seq(Irq2 \X BOOLEAN) /\ DOMAIN wait = 1 .. Len(wait)
        /\ DOMAIN Tail(wait) = 1 .. Len(wait) - 1 /\ Len(wait) \in Nat
        /\ \A n \in DOMAIN Tail(wait) : Tail(wait)[n] = wait[n + 1]
    BY <1>6 DEF MaintInject, Gicv2Shape
  <2> DEFINE i == Head(wait)[1]
             s == Head(wait)[2]
             q == Tail(wait)
  <2>2. i \in Irq2 /\ s \in BOOLEAN /\ (s <=> i \in Sgi) /\ Head(wait) = <<i, s>>
    BY <2>1 DEF Gicv2Shape
  <2>3. \A n \in DOMAIN q : \E m \in DOMAIN wait : q[n] = wait[m]
    BY <2>1
  <2>4. \A m \in DOMAIN wait : wait[m] = <<i, s>> \/ \E n \in DOMAIN q : q[n] = wait[m]
    <3> SUFFICES ASSUME NEW m \in DOMAIN wait, m # 1
                 PROVE  \E n \in DOMAIN q : q[n] = wait[m]
      BY <2>1, <2>2
    <3>1. m - 1 \in DOMAIN q /\ (m - 1) + 1 = m
      BY <2>1
    <3> QED
      BY <2>1, <3>1
  <2>5. /\ gicv2_inject_irq(i, s, q) /\ maint /\ maint' = maint /\ active2' = active2 /\ owed2' = owed2
    BY <1>6 DEF MaintInject
  <2>6. q \in Seq(Irq2 \X BOOLEAN)
    BY <2>1
  <2> HIDE DEF i, s, q
  <2> QED
    BY <1>3, <2>2, <2>3, <2>4, <2>5, <2>6
<1>7. CASE MaintFull
  <2>1. /\ wait \in Seq(Irq2 \X BOOLEAN) /\ wait # << >> /\ Len(wait) \in Nat
        /\ wait' = Tail(wait) \o <<Head(wait), Head(wait)>>
        /\ uie2' = TRUE /\ maint' = FALSE /\ UNCHANGED <<active2, lr, owed2>>
    BY <1>7 DEF MaintFull, Gicv2Shape
  <2>2. /\ wait' \in Seq(Irq2 \X BOOLEAN) /\ Len(wait') = Len(wait) + 1 /\ Len(wait) >= 1
        /\ DOMAIN wait' = 1 .. Len(wait) + 1 /\ DOMAIN wait = 1 .. Len(wait)
        /\ \A n \in 1 .. Len(wait) - 1 : wait'[n] = wait[n + 1]
        /\ wait'[Len(wait)] = wait[1] /\ wait'[Len(wait) + 1] = wait[1]
    BY <2>1
  <2>3. \A n \in DOMAIN wait' : \E m \in DOMAIN wait : wait'[n] = wait[m]
    <3> SUFFICES ASSUME NEW n \in 1 .. Len(wait) + 1
                 PROVE  \E m \in 1 .. Len(wait) : wait'[n] = wait[m]
      BY <2>2
    <3>1. CASE n \in 1 .. Len(wait) - 1
      <4>1. n + 1 \in 1 .. Len(wait) /\ wait'[n] = wait[n + 1]
        BY <2>1, <2>2, <3>1
      <4> QED
        BY <4>1
    <3>2. CASE n = Len(wait) \/ n = Len(wait) + 1
      <4>0. 1 \in 1 .. Len(wait)
        BY <2>1, <2>2, SMTT(30)
      <4>1. wait'[n] = wait[1] /\ 1 \in 1 .. Len(wait)
        BY <2>2, <3>2, <4>0
      <4> QED
        BY <4>1
    <3> QED
      BY <2>1, <3>1, <3>2
  <2>4. \A m \in DOMAIN wait : \E n \in DOMAIN wait' : wait'[n] = wait[m]
    <3> SUFFICES ASSUME NEW m \in 1 .. Len(wait)
                 PROVE  \E n \in 1 .. Len(wait) + 1 : wait'[n] = wait[m]
      BY <2>2
    <3>1. CASE m = 1
      BY <2>1, <2>2, <3>1
    <3>2. CASE m # 1
      <4>1. m - 1 \in 1 .. Len(wait) - 1 /\ (m - 1) + 1 = m /\ m - 1 \in 1 .. Len(wait) + 1
        BY <2>1, <3>2
      <4> QED
        BY <2>2, <4>1
    <3> QED
      BY <3>1, <3>2
  <2>5. \A n \in DOMAIN wait' : wait'[n][2] <=> wait'[n][1] \in Sgi
    BY <2>3 DEF Gicv2Shape
  <2>6. Gicv2Shape'
    BY <2>1, <2>2, <2>5 DEF Gicv2Shape
  <2>7. HwNotLost'
    BY <2>1, <2>4 DEF HwNotLost, Listed2
  <2>8. OwedIsPending'
    BY <2>1, <2>4, ZenonT(30) DEF OwedIsPending
  <2>9. WaitingWakes'
    BY <2>1 DEF WaitingWakes
  <2> QED
    BY <2>6, <2>7, <2>8, <2>9
<1>8. ASSUME NEW k \in ListReg, GuestAck2(k)
      PROVE  Gicv2Inv'
  <2>1. /\ lr[k].st = "pending" /\ lr[k] \in Slot
        /\ lr' = [lr EXCEPT ![k].st = "active"]
        /\ owed2' = owed2 \ (IF lr[k].sgi THEN {lr[k].irq} ELSE {})
        /\ UNCHANGED <<active2, wait, uie2, maint>>
    BY <1>8 DEF GuestAck2, Gicv2Shape
  <2>2. lr'[k] \in Slot /\ lr'[k].irq = lr[k].irq /\ lr'[k].sgi = lr[k].sgi /\ lr'[k].st = "active"
    BY <2>1 DEF Gicv2Shape, Slot
  <2>3. \A j \in ListReg : j # k => lr'[j] = lr[j]
    BY <2>1 DEF Gicv2Shape
  <2>4. lr' \in [ListReg -> Slot]
    BY <2>1, <2>2 DEF Gicv2Shape, Slot
  <2>5. Gicv2Shape'
    BY <2>1, <2>2, <2>3, <2>4 DEF Gicv2Shape
  <2>6. HwNotLost'
    BY <2>1, <2>2, <2>3, ZenonT(30) DEF HwNotLost, Listed2
  <2>7. OwedIsPending'
    <3> SUFFICES ASSUME NEW i \in owed2', i # 1
                 PROVE  \/ \E j \in ListReg : lr'[j] = [st |-> "pending", irq |-> i, sgi |-> TRUE]
                        \/ \E n \in DOMAIN wait' : wait'[n] = <<i, TRUE>>
      BY DEF OwedIsPending
    <3>1. i \in owed2 /\ lr[k] # [st |-> "pending", irq |-> i, sgi |-> TRUE]
      BY <2>1
    <3>2. \/ \E j \in ListReg : lr[j] = [st |-> "pending", irq |-> i, sgi |-> TRUE]
          \/ \E n \in DOMAIN wait : wait[n] = <<i, TRUE>>
      BY <3>1 DEF OwedIsPending
    <3> QED
      BY <2>1, <2>3, <3>1, <3>2
  <2>8. WaitingWakes'
    BY <2>1 DEF WaitingWakes
  <2> QED
    BY <2>5, <2>6, <2>7, <2>8
<1>9. ASSUME NEW k \in ListReg, GuestDeactivate2(k)
      PROVE  Gicv2Inv'
  <2>1. /\ lr[k].st = "active" /\ lr[k] \in Slot
        /\ lr' = [lr EXCEPT ![k].st = "free"]
        /\ active2' = active2 \ (IF lr[k].sgi THEN {} ELSE {lr[k].irq})
        /\ UNCHANGED <<owed2, wait, uie2, maint>>
    BY <1>9 DEF GuestDeactivate2, Gicv2Shape
  <2>2. lr'[k] \in Slot /\ lr'[k].st = "free"
    BY <2>1 DEF Gicv2Shape, Slot
  <2>3. \A j \in ListReg : j # k => lr'[j] = lr[j]
    BY <2>1 DEF Gicv2Shape
  <2>4. lr' \in [ListReg -> Slot]
    BY <2>1, <2>2 DEF Gicv2Shape, Slot
  <2>5. Gicv2Shape'
    BY <2>1, <2>2, <2>3, <2>4 DEF Gicv2Shape
  <2>6. HwNotLost'
    <3> SUFFICES ASSUME NEW i \in active2' PROVE Listed2(i, FALSE)'
      BY DEF HwNotLost, Listed2
    <3>1. Listed2(i, FALSE)
      BY <2>1 DEF HwNotLost
    <3>2. \A j \in ListReg : lr[j].st # "free" /\ lr[j].irq = i /\ lr[j].sgi = FALSE => j # k
      BY <2>1
    <3> QED
      BY <2>1, <2>3, <3>1, <3>2 DEF Listed2
  <2>7. OwedIsPending'
    <3> SUFFICES ASSUME NEW i \in owed2', i # 1
                 PROVE  \/ \E j \in ListReg : lr'[j] = [st |-> "pending", irq |-> i, sgi |-> TRUE]
                        \/ \E n \in DOMAIN wait' : wait'[n] = <<i, TRUE>>
      BY DEF OwedIsPending
    <3>1. i \in owed2 /\ lr[k] # [st |-> "pending", irq |-> i, sgi |-> TRUE]
      BY <2>1
    <3>2. \/ \E j \in ListReg : lr[j] = [st |-> "pending", irq |-> i, sgi |-> TRUE]
          \/ \E n \in DOMAIN wait : wait[n] = <<i, TRUE>>
      BY <3>1 DEF OwedIsPending
    <3> QED
      BY <2>1, <2>3, <3>1, <3>2
  <2>8. WaitingWakes'
    BY <2>1 DEF WaitingWakes
  <2> QED
    BY <2>5, <2>6, <2>7, <2>8
<1> HIDE DEF Gicv2Inv
<1> QED
  BY <1>2, <1>4, <1>5, <1>6, <1>7, <1>8, <1>9 DEF Gicv2Next

(* For any number of list registers and any interrupts, what hvisor takes   *)
(* from a GICv2 is listed or waits for a register, only a second SGI 1 is   *)
(* dropped, and while something waits GICH_HCR.UIE is set or the handler of *)
(* the maintenance interrupt runs, however seldom that interrupt comes      *)
(* (gicv2_handle_irq, inject_irq, handle_maintenace_interrupt).             *)
THEOREM TakenAreListed == Gicv2Spec => []TakenIsListed
<1>1. Gicv2Init => Gicv2Inv
  <2> SUFFICES ASSUME Gicv2Init PROVE Gicv2Inv
    OBVIOUS
  <2>1. Empty \in Slot /\ Empty.st = "free"
    BY DEF Empty, Slot
  <2>2. Gicv2Shape
    <3>1. lr \in [ListReg -> Slot] /\ \A k \in ListReg : lr[k].st = "free"
      BY <2>1 DEF Gicv2Init
    <3>2. wait \in Seq(Irq2 \X BOOLEAN) /\ DOMAIN wait = {}
      BY DEF Gicv2Init
    <3> QED
      BY <3>1, <3>2 DEF Gicv2Init, Gicv2Shape
  <2> QED
    BY <2>2 DEF Gicv2Init, Gicv2Inv, HwNotLost, OwedIsPending, WaitingWakes
<1>2. Gicv2Spec => []Gicv2Inv
  BY <1>1, Gicv2Step, PTL DEF Gicv2Spec
<1>3. Gicv2Inv => TakenIsListed
  <2> SUFFICES ASSUME Gicv2Inv PROVE OnlySgiOneDropped
    BY DEF TakenIsListed, Gicv2Inv
  <2>1. ASSUME NEW i \in owed2, NEW k \in ListReg, lr[k] = [st |-> "pending", irq |-> i, sgi |-> TRUE]
        PROVE  lr[k].st # "free" /\ lr[k].irq = i /\ lr[k].sgi = TRUE
    BY <2>1
  <2> QED
    BY <2>1 DEF Gicv2Inv, OwedIsPending, OnlySgiOneDropped, Listed2
<1> QED
  BY <1>2, <1>3, PTL
-----------------------------------------------------------------------------
(* The emulated distributor of a GICv2.                                     *)

(* The mask restrict_bitmask_access computes for an aligned access is that  *)
(* of the zone's fields it touches, and the shifted value has their bytes.  *)
LEMMA MaskIsOwn ==
  ASSUME NEW z, NEW a \in Field, NEW v \in Bytes, a % Cardinality(DOMAIN v) = 0
  PROVE  /\ real_mask(z, a, Cardinality(DOMAIN v)) = Own(z, a, v)
         /\ \A i \in Own(z, a, v) : shifted(a, v, i) = v[i - a]
<1>1. PICK s \in {1, 2, 4} : v \in [0 .. s - 1 -> Byte]
  BY DEF Bytes
<1>2. DOMAIN v = 0 .. s - 1 /\ Cardinality(DOMAIN v) = s
  <2>1. Cardinality(0 .. s - 1) = s
    BY FS_Interval
  <2> QED
    BY <1>1, <2>1
<1>3. ASSUME NEW i \in Field
      PROVE  i \in other_mask(a, s) <=> i - a \in 0 .. s - 1
  <2>1. CASE s = 1
    BY <1>2, <2>1 DEF Field, other_mask
  <2>2. CASE s = 2
    <3>1. a \in {0, 2}
      BY <1>2, <2>2 DEF Field
    <3> QED
      BY <2>2, <3>1 DEF Field, other_mask
  <2>3. CASE s = 4
    <3>1. a = 0
      BY <1>2, <2>3 DEF Field
    <3> QED
      BY <2>3, <3>1 DEF Field, other_mask
  <2> QED
    BY <2>1, <2>2, <2>3
<1>4. irq_bitmap(z) \subseteq Field
  BY DEF irq_bitmap
<1> QED
  BY <1>2, <1>3, <1>4 DEF real_mask, Own, shifted

(* For any zones, bitmaps and values, and any mixture of aligned byte,      *)
(* half-word and word stores, every field of the distributor has what the   *)
(* zone whose bitmap has its interrupt last wrote to it                     *)
(* (vgicv2_dist_handler, restrict_bitmask_access).                          *)
THEOREM PriorityKept == Dist2Spec => []PriorityIsOwn
<1>1. Dist2Init => PriorityIsOwn
  BY DEF Dist2Init, PriorityIsOwn
<1>2. ASSUME PriorityIsOwn, [Dist2Next]_d2vars
      PROVE  PriorityIsOwn'
  <2>1. ASSUME NEW z \in Zone2, NEW r, NEW a \in Field, NEW v \in Bytes, WritePrio(z, r, a, v)
        PROVE  PriorityIsOwn'
    BY <1>2, <2>1, MaskIsOwn DEF WritePrio, Store, restrict_bitmask_access, PriorityIsOwn
  <2>2. ASSUME NEW z \in Zone2, NEW r, NEW a \in Field, NEW v \in Bytes, NEW on, WriteEnable(z, r, a, v, on)
        PROVE  PriorityIsOwn'
    <3>1. poked(z, a, v) = {i \in Own(z, a, v) : v[i - a] = 1}
      BY <2>2, MaskIsOwn DEF WriteEnable, Store, poked
    <3> QED
      BY <1>2, <2>2, <3>1 DEF WriteEnable, PriorityIsOwn
  <2>3. CASE \/ UNCHANGED d2vars
             \/ \E z \in Zone2 : \/ \E i \in {0, 1} : WriteSgir(z, i)
                                 \/ \E r \in 0 .. NRegs - 1 : MiscAccess(z, r)
    BY <1>2, <2>3 DEF d2vars, WriteSgir, MiscAccess, PriorityIsOwn
  <2> QED
    BY <1>2, <2>1, <2>2, <2>3 DEF Dist2Next
<1>3. PriorityIsOwn /\ [Dist2Next]_d2vars => PriorityIsOwn'
  BY <1>2
<1> QED
  BY <1>1, <1>3, PTL DEF Dist2Spec

-----------------------------------------------------------------------------
(* What zone z may have in its queue.                                       *)
Cmds(z) == {NoCmd} \cup [zone : {z}, lpi : Lpi]

ItsShape ==
  /\ vm \in [Zones -> [Index -> {NoCmd} \cup [zone : Zones, lpi : Lpi]]]
  /\ \A z \in Zones : \A i \in Index : vm[z][i] \in Cmds(z)
  /\ gw \in [Zones -> Index] /\ cwriter \in [Zones -> Index] /\ creadr \in [Zones -> Index]
  /\ DOMAIN real = Index
  /\ readr \in Index /\ writer \in Index /\ CREADR \in Index /\ CWRITER \in Index
  /\ hw = -1 \/ (hw = Root /\ Root \in Zones)
  /\ asked \in [Zones -> Seq(Lpi)] /\ done \in [Zones -> Seq(Lpi)]
  /\ job = NoJob \/ \E z \in Zones : job = [zone |-> z, value |-> gw[z]]

(* Without a job the queue is empty and all indices are the same; a zone    *)
(* that has not set its queue up has nothing in it.                         *)
AtRest ==
  /\ CWRITER = writer
  /\ job = NoJob \/ hung => readr = writer /\ CREADR = writer
  /\ \A z \in Zones : z \notin cbaser => gw[z] = 0 /\ z \notin came
  /\ came \subseteq Zones
  /\ job # NoJob => job.zone \in came
  /\ came = {} => writer = 0

(* Commands between the hardware's index and the driver's, and where they   *)
(* are.                                                                     *)
Left  == IF CREADR <= writer THEN writer - CREADR ELSE writer + N - CREADR
At(k) == IF CREADR + k < N THEN CREADR + k ELSE CREADR + k - N

\* What is copied is of the zone that holds CMDQ.
CopiedOwn == job # NoJob /\ ~hung => \A k \in 0 .. Left - 1 : real[At(k)] \in Cmds(job.zone)

(* A queue that has not come round holds what its driver gave.              *)
Straight(z) ==
  /\ gw[z] = Len(asked[z]) /\ cwriter[z] = creadr[z] /\ creadr[z] <= gw[z]
  /\ \A i \in 0 .. gw[z] - 1 : vm[z][i] = [zone |-> z, lpi |-> asked[z][i + 1]]
  /\ job.zone = z => ~hung

(* What the hardware has executed of it, and what is left for it to do.     *)
Carried(z) ==
  /\ Len(done[z]) <= gw[z]
  /\ \A k \in 1 .. Len(done[z]) : done[z][k] = asked[z][k] /\ done[z][k] \in lpi
  /\ job.zone # z => Len(done[z]) = creadr[z]
  /\ job.zone = z => /\ Len(done[z]) + Left = gw[z]
                     /\ \A k \in 1 .. gw[z] : asked[z][k] \in lpi
                     /\ hw = -1 => \A k \in 0 .. Left - 1 :
                          real[At(k)] = [zone |-> z, lpi |-> asked[z][Len(done[z]) + k + 1]]
  /\ hw # -1 => /\ writer = IF job = NoJob THEN creadr[z] ELSE gw[z]
                /\ CREADR = Len(done[z])

ItsInv == /\ ItsShape /\ AtRest /\ CopiedOwn
          /\ \A z \in Zones : z \notin lapped => Straight(z) /\ (Reads(z) => Carried(z))

(* The index after v.                                                       *)
LEMMA IndexAfter ==
  ASSUME NEW v \in Index
  PROVE  (v + 1) % N = (IF v + 1 = N THEN 0 ELSE v + 1) /\ (v + 1) % N \in Index
BY ItsAssumption DEF Index

(* No queue has a command, and the hardware's indices are zero.             *)
LEMMA ItsStart == ItsInit => ItsInv
<1> SUFFICES ASSUME ItsInit PROVE ItsInv
  OBVIOUS
<1> USE ItsAssumption DEF ItsInit
<1>1. ItsShape
  BY DEF ItsShape, Cmds, Index
<1>2. AtRest /\ CopiedOwn
  BY DEF AtRest, CopiedOwn
<1>3. ASSUME NEW z \in Zones PROVE Straight(z) /\ Carried(z)
  BY DEF Straight, Carried, NoJob
<1> QED
  BY <1>1, <1>2, <1>3 DEF ItsInv

(* What a step leaves alone of a zone.                                      *)
LEMMA ItsFrame ==
  ASSUME NEW z, gw'[z] = gw[z], asked'[z] = asked[z], cwriter'[z] = cwriter[z],
         creadr'[z] = creadr[z], vm'[z] = vm[z], done'[z] = done[z],
         UNCHANGED <<real, writer, CREADR, hw, job, hung, lpi>>
  PROVE  (Straight(z)' <=> Straight(z)) /\ (Carried(z)' <=> Carried(z))
<1>1. Left' = Left /\ \A k : At(k)' = At(k)
  BY DEF Left, At
<1>2. Straight(z)' <=> Straight(z)
  BY DEF Straight
<1>3. Carried(z)' <=> Carried(z)
  BY <1>1 DEF Carried
<1> QED
  BY <1>2, <1>3

(* A step that moves neither the queue nor the job.                         *)
LEMMA CopiedFrame ==
  ASSUME CopiedOwn, UNCHANGED <<real, writer, CREADR, job, hung>>
  PROVE  CopiedOwn'
<1>1. Left' = Left /\ \A k : At(k)' = At(k)
  BY DEF Left, At
<1> QED
  BY <1>1 DEF CopiedOwn, Cmds

(* set_cbaser: the root zone's queue becomes the hardware's when none has   *)
(* been used.                                                               *)
LEMMA CbaserStep == ASSUME ItsInv, NEW z \in Zones, set_cbaser(z) PROVE ItsInv'
<1>0. ItsShape /\ AtRest /\ CopiedOwn
  BY DEF ItsInv
<1>1. /\ job = NoJob /\ cbaser' = cbaser \cup {z}
      /\ UNCHANGED <<vm, gw, cwriter, creadr, real, readr, writer, CWRITER, ctrl, job, hung, lpi,
                     asked, done, lapped, came>>
  BY DEF set_cbaser
<1>2. CASE UNCHANGED <<hw, CREADR>>
  <2>1. ItsShape' /\ AtRest'
    BY <1>0, <1>1, <1>2 DEF ItsShape, AtRest, Cmds
  <2>2. CopiedOwn'
    BY <1>0, <1>1, <1>2, CopiedFrame
  <2>3. \A y \in Zones : (Straight(y)' <=> Straight(y)) /\ (Carried(y)' <=> Carried(y))
    BY <1>1, <1>2, ItsFrame
  <2>4. \A y : Reads(y)' <=> Reads(y)
    BY <1>1, <1>2 DEF Reads
  <2> QED
    BY <1>1, <2>1, <2>2, <2>3, <2>4 DEF ItsInv
<1>3. CASE z = Root /\ hw' = Root /\ CREADR' = 0
  <2>0. cbaser = {} /\ z = Root
    BY <1>3 DEF set_cbaser
  <2>1. came = {} /\ writer = 0 /\ CREADR = 0 /\ \A y \in Zones : gw[y] = 0
    BY <1>0, <1>1, <2>0 DEF AtRest
  <2>2. ItsShape' /\ AtRest'
    BY <1>0, <1>1, <1>3, <2>1 DEF ItsShape, AtRest, Cmds
  <2>3. CopiedOwn'
    BY <1>1 DEF CopiedOwn
  <2>4. ASSUME NEW y \in Zones, y \notin lapped'
        PROVE  Straight(y)' /\ (Reads(y)' => Carried(y)')
    <3>1. hw \in {-1, Root}
      BY <1>0 DEF ItsShape
    <3>2. Straight(y)
      BY <1>1, <2>4 DEF ItsInv
    <3>3. Straight(y)'
      BY <1>1, <3>2 DEF Straight
    <3>4. ASSUME y = Root PROVE Carried(y)'
      <4>1. Reads(y)
        BY <2>1, <3>1, <3>4 DEF Reads
      <4>2. Carried(y)
        BY <1>1, <2>4, <4>1 DEF ItsInv
      <4>3. creadr[y] = 0 /\ job.zone # y
        BY <1>0, <1>1, <2>1, <2>4, <3>2, ItsAssumption DEF Straight, ItsShape, Index, NoJob
      <4> QED
        BY <1>1, <1>3, <2>1, <4>2, <4>3 DEF Carried
    <3>5. Reads(y)' => y = Root
      BY <1>3 DEF Reads, Root
    <3> QED
      BY <3>3, <3>4, <3>5
  <2> QED
    BY <2>2, <2>3, <2>4 DEF ItsInv
<1> QED
  BY <1>2, <1>3 DEF set_cbaser

(* The steps that change no queue: the hardware is switched, the driver of a*)
(* zone that has come round writes zero, or the zone is started again; and  *)
(* the CPU reads CREADR in vain.                                            *)
LEMMA AsideSteps ==
  ASSUME ItsInv, \/ \E z \in Zones : (\E on \in BOOLEAN : WriteCtrl(z, on)) \/ WriteZero(z) \/ Restart(z)
                 \/ Wait
  PROVE  ItsInv'
<1>0. ItsShape /\ AtRest /\ CopiedOwn
  BY DEF ItsInv
<1>1. /\ UNCHANGED <<vm, cbaser, creadr, real, writer, CREADR, CWRITER, hw, job, hung, lpi, came>>
      /\ lapped \subseteq lapped'
  BY DEF WriteCtrl, WriteZero, Restart, Wait
<1>2. CopiedOwn'
  BY <1>0, <1>1, CopiedFrame
<1>3. AtRest'
  <2>1. \A z \in Zones : gw'[z] = gw[z] \/ gw'[z] = 0
    BY <1>0 DEF WriteCtrl, WriteZero, Restart, Wait, ItsShape
  <2>2. job = NoJob \/ hung => readr' = readr
    BY DEF WriteCtrl, WriteZero, Restart, Wait
  <2> QED
    BY <1>0, <1>1, <2>1, <2>2 DEF AtRest
<1>4. ItsShape'
  <2>1. job # NoJob => gw' = gw
    BY DEF WriteCtrl, WriteZero, Restart, Wait
  <2>2. 0 \in Index /\ << >> \in Seq(Lpi)
    BY ItsAssumption DEF Index
  <2>3. /\ readr' \in {readr, CREADR}
        /\ \/ UNCHANGED <<gw, cwriter, asked, done>>
           \/ \E z \in Zones : UNCHANGED <<gw, asked, done>> /\ cwriter' = [cwriter EXCEPT ![z] = 0]
           \/ \E z \in Zones : /\ gw' = [gw EXCEPT ![z] = 0] /\ cwriter' = [cwriter EXCEPT ![z] = 0]
                              /\ asked' = [asked EXCEPT ![z] = << >>] /\ done' = [done EXCEPT ![z] = << >>]
    BY DEF WriteCtrl, WriteZero, Restart, Wait
  <2>4. /\ gw' \in [Zones -> Index] /\ cwriter' \in [Zones -> Index] /\ readr' \in Index
        /\ asked' \in [Zones -> Seq(Lpi)] /\ done' \in [Zones -> Seq(Lpi)]
    <3>1. CASE UNCHANGED <<gw, cwriter, asked, done>>
      BY <1>0, <2>3, <3>1 DEF ItsShape
    <3>2. CASE \E z \in Zones : UNCHANGED <<gw, asked, done>> /\ cwriter' = [cwriter EXCEPT ![z] = 0]
      BY <1>0, <2>2, <2>3, <3>2 DEF ItsShape
    <3>3. ASSUME NEW z \in Zones,
                 gw' = [gw EXCEPT ![z] = 0] /\ cwriter' = [cwriter EXCEPT ![z] = 0],
                 asked' = [asked EXCEPT ![z] = << >>] /\ done' = [done EXCEPT ![z] = << >>]
          PROVE  /\ gw' \in [Zones -> Index] /\ cwriter' \in [Zones -> Index] /\ readr' \in Index
                 /\ asked' \in [Zones -> Seq(Lpi)] /\ done' \in [Zones -> Seq(Lpi)]
      <4>1. gw' \in [Zones -> Index] /\ cwriter' \in [Zones -> Index] /\ readr' \in Index
        BY <1>0, <2>2, <2>3, <3>3 DEF ItsShape
      <4>2. asked \in [Zones -> Seq(Lpi)] /\ done \in [Zones -> Seq(Lpi)]
        BY <1>0 DEF ItsShape
      <4>3. asked' \in [Zones -> Seq(Lpi)] /\ done' \in [Zones -> Seq(Lpi)]
        BY <2>2, <3>3, <4>2
      <4> QED
        BY <4>1, <4>3
    <3> QED
      BY <2>3, <3>1, <3>2, <3>3
  <2>5. job' = NoJob \/ \E z \in Zones : job' = [zone |-> z, value |-> gw'[z]]
    BY <1>0, <1>1, <2>1 DEF ItsShape
  <2> QED
    BY <1>0, <1>1, <2>4, <2>5 DEF ItsShape, Cmds
<1>5. ASSUME NEW y \in Zones, y \notin lapped'
      PROVE  Straight(y)' /\ (Reads(y)' => Carried(y)')
  <2>1. Straight(y) /\ (Reads(y) => Carried(y))
    BY <1>1, <1>5 DEF ItsInv
  <2>2. gw[y] = 0 => cwriter[y] = 0
    BY <1>0, <1>5, <2>1, ItsAssumption DEF Straight, ItsShape, Index
  <2>3. gw'[y] = gw[y] /\ asked'[y] = asked[y] /\ cwriter'[y] = cwriter[y] /\ done'[y] = done[y]
    BY <1>0, <1>5, <2>2 DEF WriteCtrl, WriteZero, Restart, Wait, ItsShape
  <2>4. (Straight(y)' <=> Straight(y)) /\ (Carried(y)' <=> Carried(y))
    BY <1>1, <2>3, ItsFrame
  <2>5. Reads(y)' <=> Reads(y)
    BY <1>1 DEF Reads
  <2> QED
    BY <2>1, <2>4, <2>5
<1> QED
  BY <1>2, <1>3, <1>4, <1>5 DEF ItsInv

(* The driver of a zone puts a command behind those it gave before.         *)
LEMMA GuestStep == ASSUME ItsInv, NEW z \in Zones, NEW l \in Lpi, GuestQueues(z, l) PROVE ItsInv'
<1>0. ItsShape /\ AtRest /\ CopiedOwn /\ gw[z] \in Index /\ asked[z] \in Seq(Lpi)
  BY DEF ItsInv, ItsShape
<1>1. /\ vm' = [vm EXCEPT ![z][gw[z]] = [zone |-> z, lpi |-> l]]
      /\ gw' = [gw EXCEPT ![z] = (gw[z] + 1) % N] /\ asked' = [asked EXCEPT ![z] = Append(asked[z], l)]
      /\ lapped' = IF gw'[z] = 0 THEN lapped \cup {z} ELSE lapped
      /\ job.zone # z /\ z \in cbaser
      /\ UNCHANGED <<cbaser, cwriter, creadr, real, readr, writer, CREADR, CWRITER, hw, job,
                     hung, lpi, done, came>>
  BY DEF GuestQueues
<1>2. gw'[z] = (IF gw[z] + 1 = N THEN 0 ELSE gw[z] + 1) /\ gw'[z] \in Index
  BY <1>0, <1>1, IndexAfter DEF ItsShape
<1>3. CopiedOwn'
  BY <1>0, <1>1, CopiedFrame
<1>4. AtRest'
  BY <1>0, <1>1 DEF AtRest, ItsShape
<1>5. ItsShape'
  <2>1. gw' \in [Zones -> Index] /\ asked' \in [Zones -> Seq(Lpi)]
    BY <1>0, <1>1, <1>2 DEF ItsShape
  <2>2. \A y \in Zones : \A i \in Index :
          vm'[y][i] = IF y = z /\ i = gw[z] THEN [zone |-> z, lpi |-> l] ELSE vm[y][i]
    BY <1>0, <1>1 DEF ItsShape
  <2>3. vm' \in [Zones -> [Index -> {NoCmd} \cup [zone : Zones, lpi : Lpi]]]
    BY <1>0, <1>1 DEF ItsShape
  <2>4. ASSUME NEW y \in Zones, NEW i \in Index PROVE vm'[y][i] \in Cmds(y)'
    <3>1. Cmds(y)' = Cmds(y)
      BY DEF Cmds
    <3>2. vm[y][i] \in Cmds(y) /\ [zone |-> z, lpi |-> l] \in Cmds(z)
      BY <1>0 DEF ItsShape, Cmds
    <3> QED
      BY <2>2, <3>1, <3>2
  <2>5. job' = NoJob \/ \E y \in Zones : job' = [zone |-> y, value |-> gw'[y]]
    BY <1>0, <1>1 DEF ItsShape
  <2> QED
    BY <1>0, <1>1, <2>1, <2>3, <2>4, <2>5 DEF ItsShape
<1>6. \A y : Reads(y)' <=> Reads(y)
  BY <1>1 DEF Reads
<1>7. ASSUME NEW y \in Zones, y # z, y \notin lapped'
      PROVE  Straight(y)' /\ (Reads(y)' => Carried(y)')
  <2>1. vm'[y] = vm[y] /\ gw'[y] = gw[y] /\ asked'[y] = asked[y] /\ y \notin lapped
    BY <1>0, <1>1, <1>7 DEF ItsShape
  <2>2. (Straight(y)' <=> Straight(y)) /\ (Carried(y)' <=> Carried(y))
    BY <1>1, <2>1, ItsFrame
  <2> QED
    BY <1>6, <2>1, <2>2 DEF ItsInv
<1>8. ASSUME z \notin lapped'
      PROVE  Straight(z)' /\ (Reads(z)' => Carried(z)')
  <2>1. z \notin lapped /\ gw'[z] = gw[z] + 1 /\ Straight(z)
    BY <1>1, <1>2, <1>8 DEF ItsInv
  <2>2. /\ asked'[z] = Append(asked[z], l)
        /\ Len(asked'[z]) = gw[z] + 1 /\ asked'[z][gw[z] + 1] = l
        /\ \A k \in 1 .. gw[z] : asked'[z][k] = asked[z][k]
    BY <1>0, <1>1, <2>1 DEF ItsShape, Straight
  <2>3. /\ \A i \in 0 .. gw[z] - 1 : vm'[z][i] = vm[z][i]
        /\ vm'[z][gw[z]] = [zone |-> z, lpi |-> l]
    BY <1>0, <1>1, ItsAssumption DEF ItsShape, Index
  <2>4. gw[z] \in Nat /\ creadr[z] \in Nat /\ Len(done[z]) \in Nat
    BY <1>0, ItsAssumption DEF ItsShape, Index
  <2>5. ASSUME NEW i \in 0 .. gw'[z] - 1
        PROVE  vm'[z][i] = [zone |-> z, lpi |-> asked'[z][i + 1]]
    <3>1. CASE i = gw[z]
      BY <2>2, <2>3, <3>1
    <3>2. CASE i # gw[z]
      <4>1. i \in 0 .. gw[z] - 1 /\ i + 1 \in 1 .. gw[z]
        BY <2>1, <2>4, <3>2
      <4> QED
        BY <2>1, <2>2, <2>3, <4>1 DEF Straight
    <3> QED
      BY <3>1, <3>2
  <2>6. Straight(z)'
    BY <1>1, <2>1, <2>2, <2>4, <2>5 DEF Straight
  <2>7. ASSUME Reads(z), Carried(z) PROVE Carried(z)'
    <3>1. Len(done[z]) <= gw[z] + 1 /\ \A k \in 1 .. Len(done[z]) : k \in 1 .. gw[z]
      BY <2>4, <2>7 DEF Carried
    <3>2. \A k \in 1 .. Len(done[z]) : done[z][k] = asked'[z][k] /\ done[z][k] \in lpi
      BY <2>2, <2>7, <3>1 DEF Carried
    <3>3. hw # -1 => job = NoJob
      BY <1>0, <1>1, <2>7 DEF Reads, AtRest
    <3> QED
      BY <1>1, <2>1, <2>7, <3>1, <3>2, <3>3 DEF Carried
  <2> QED
    BY <1>6, <2>1, <2>6, <2>7 DEF ItsInv
<1> QED
  BY <1>3, <1>4, <1>5, <1>7, <1>8 DEF ItsInv

(* The copied commands are executed, and update_creadr records it.          *)
LEMMA FinishStep == ASSUME ItsInv, Finish PROVE ItsInv'
<1>0. ItsShape /\ AtRest
  BY DEF ItsInv
<1>1. PICK z \in Zones : job = [zone |-> z, value |-> gw[z]]
  BY <1>0 DEF Finish, ItsShape
<1>2. /\ ~hung /\ CREADR = writer /\ readr' = CREADR /\ job' = NoJob
      /\ creadr' = [creadr EXCEPT ![z] = gw[z]] /\ cwriter' = [cwriter EXCEPT ![z] = gw[z]]
      /\ UNCHANGED <<vm, gw, cbaser, real, writer, CREADR, CWRITER, hw, hung, lpi, asked, done, lapped, came>>
  BY <1>1 DEF Finish
<1>3. job # NoJob /\ job.zone = z /\ z # -1 /\ gw[z] \in Index
  BY <1>0, <1>1, ItsAssumption DEF Finish, ItsShape
<1>4. Left = 0 /\ \A y \in Zones : job'.zone # y
  BY <1>0, <1>2, ItsAssumption DEF Left, ItsShape, Index, NoJob
<1>5. ItsShape'
  BY <1>0, <1>2, <1>3 DEF ItsShape, Cmds
<1>6. AtRest' /\ CopiedOwn'
  BY <1>0, <1>2 DEF AtRest, CopiedOwn
<1>7. \A y : Reads(y)' <=> Reads(y)
  BY <1>2 DEF Reads
<1>8. ASSUME NEW y \in Zones, y # z, y \notin lapped'
      PROVE  Straight(y)' /\ (Reads(y)' => Carried(y)')
  <2>1. Straight(y) /\ (Reads(y) => Carried(y)) /\ creadr'[y] = creadr[y] /\ cwriter'[y] = cwriter[y]
    BY <1>0, <1>2, <1>8 DEF ItsInv, ItsShape
  <2>2. Straight(y)'
    BY <1>2, <2>1 DEF Straight
  <2>3. ASSUME Reads(y) PROVE Carried(y)'
    <3>1. hw = -1
      BY <1>0, <1>3, <1>8, <2>3 DEF Reads, AtRest
    <3> QED
      BY <1>2, <1>3, <1>4, <1>8, <2>1, <2>3, <3>1 DEF Carried
  <2> QED
    BY <1>7, <2>2, <2>3
<1>9. ASSUME z \notin lapped'
      PROVE  Straight(z)' /\ (Reads(z)' => Carried(z)')
  <2>1. Straight(z) /\ (Reads(z) => Carried(z)) /\ creadr'[z] = gw[z] /\ cwriter'[z] = gw[z]
    BY <1>0, <1>2, <1>9 DEF ItsInv, ItsShape
  <2>2. gw[z] \in Nat /\ Len(done[z]) \in Nat
    BY <1>0, <1>3, ItsAssumption DEF ItsShape, Index
  <2>3. Straight(z)'
    BY <1>2, <2>1, <2>2 DEF Straight
  <2>4. ASSUME Reads(z) PROVE Carried(z)'
    <3>1. Carried(z) /\ Len(done[z]) = gw[z]
      BY <1>3, <1>4, <2>1, <2>2, <2>4 DEF Carried
    <3> QED
      BY <1>2, <1>3, <1>4, <2>1, <3>1 DEF Carried
  <2> QED
    BY <1>7, <2>3, <2>4
<1> QED
  BY <1>5, <1>6, <1>8, <1>9 DEF ItsInv

(* Copy puts n commands, fewer than the queue has entries, one behind the   *)
(* other.                                                                   *)
LEMMA CopyPlaces ==
  ASSUME readr \in Index, NEW n \in Index, NEW cmds, DOMAIN cmds = 0 .. n - 1, Copy(cmds)
  PROVE  /\ DOMAIN real' = Index
         /\ \A k \in 0 .. n - 1 : real'[ring_ptr_update(readr + k)] = cmds[k]
<1>1. DOMAIN real' = Index
  BY DEF Copy
<1>2. ASSUME NEW k \in 0 .. n - 1
      PROVE  real'[ring_ptr_update(readr + k)] = cmds[k]
  <2> DEFINE i == ring_ptr_update(readr + k)
             K == {j \in DOMAIN cmds : ring_ptr_update(readr + j) = i}
  <2>1. i \in Index
    BY ItsAssumption DEF ring_ptr_update, Index
  <2>2. \A j \in 0 .. n - 1 : ring_ptr_update(readr + j) = i => j = k
    BY ItsAssumption DEF ring_ptr_update, Index
  <2>3. K = {k}
    BY <2>2
  <2>4. real'[i] = IF K = {} THEN real[i] ELSE cmds[CHOOSE j \in K : TRUE]
    BY <2>1 DEF Copy
  <2>5. (CHOOSE j \in K : TRUE) = k
    BY <2>3
  <2> QED
    BY <2>3, <2>4, <2>5
<1> QED
  BY <1>1, <1>2

(* A write of GITS_CWRITER: the commands between the zone's read index and  *)
(* the value are in the hypervisor's queue, in their order, or for a zone   *)
(* that has come round the copying does not end.                            *)
LEMMA InsertStep == ASSUME ItsInv, NEW z \in Zones, insert_cmd(z) PROVE ItsInv'
<1>0. ItsShape /\ AtRest /\ gw[z] \in Index /\ creadr[z] \in Index
  BY DEF ItsInv, ItsShape
<1>1. /\ job = NoJob /\ ~hung /\ gw[z] # 0 /\ gw[z] # cwriter[z]
      /\ job' = [zone |-> z, value |-> gw[z]] /\ came' = came \cup {z}
      /\ UNCHANGED <<vm, gw, cbaser, cwriter, creadr, readr, CREADR, hw, asked, done, lapped>>
  BY DEF insert_cmd
<1> DEFINE n    == gw[z] - creadr[z]
           cmds == [k \in 0 .. n - 1 |-> vm[z][(creadr[z] + k) % N]]
<1>2. \/ n < 0 /\ hung' = TRUE /\ UNCHANGED <<real, writer, CWRITER, lpi>>
      \/ /\ n >= 0 /\ Copy(cmds) /\ analyze_cmd(cmds)
         /\ writer' = ring_ptr_update(writer + n) /\ CWRITER' = writer' /\ hung' = hung
  BY DEF insert_cmd, tell
<1>3. /\ readr = writer /\ CREADR = writer /\ CWRITER = writer /\ writer \in Index
      /\ z # -1 /\ \A y \in Zones : job.zone # y
  BY <1>0, <1>1, ItsAssumption DEF AtRest, ItsShape, NoJob
<1>4. DOMAIN cmds = 0 .. n - 1 /\ \A k \in 0 .. n - 1 : cmds[k] = vm[z][creadr[z] + k]
  <2>1. \A k \in 0 .. n - 1 : (creadr[z] + k) % N = creadr[z] + k
    BY <1>0, ItsAssumption DEF Index
  <2> QED
    BY <2>1
<1>5. \A k \in 0 .. n - 1 : cmds[k] \in Cmds(z)
  <2>1. \A k \in 0 .. n - 1 : creadr[z] + k \in Index
    BY <1>0, ItsAssumption DEF Index
  <2> QED
    BY <1>0, <1>4, <2>1 DEF ItsShape
<1> HIDE DEF cmds
<1>6. lpi \subseteq lpi' /\ (n >= 0 => \A k \in 0 .. n - 1 : cmds[k] # NoCmd => cmds[k].lpi \in lpi')
  <2>1. lpi \subseteq lpi'
    BY <1>2 DEF analyze_cmd
  <2>2. ASSUME n >= 0, NEW k \in 0 .. n - 1, cmds[k] # NoCmd
        PROVE  cmds[k].lpi \in lpi'
    <3>1. analyze_cmd(cmds)
      BY <1>0, <1>2, <2>2, ItsAssumption DEF Index
    <3> QED
      BY <1>4, <2>2, <3>1 DEF analyze_cmd
  <2> QED
    BY <2>1, <2>2
<1>7. n >= 0 => /\ DOMAIN real' = Index /\ writer' \in Index
                /\ Left' = n
                /\ \A k \in 0 .. n - 1 : real'[At(k)'] = cmds[k]
  <2> SUFFICES ASSUME n >= 0
               PROVE  /\ DOMAIN real' = Index /\ writer' \in Index /\ Left' = n
                      /\ \A k \in 0 .. n - 1 : real'[At(k)'] = cmds[k]
    OBVIOUS
  <2>1. n \in Index /\ gw[z] \in 0 .. N - 1 /\ creadr[z] \in 0 .. N - 1
    BY <1>0, ItsAssumption DEF Index
  <2>2. Copy(cmds) /\ writer' = ring_ptr_update(writer + n)
    BY <1>2, <2>1
  <2> HIDE DEF n
  <2>3. writer' \in Index /\ Left' = n
    BY <1>1, <1>3, <2>1, <2>2, ItsAssumption DEF ring_ptr_update, Left, Index
  <2>4. \A k \in 0 .. n - 1 : At(k)' = ring_ptr_update(readr + k)
    BY <1>1, <1>3, <2>1, ItsAssumption DEF At, ring_ptr_update, Index
  <2>5. /\ DOMAIN real' = Index
        /\ \A k \in 0 .. n - 1 : real'[ring_ptr_update(readr + k)] = cmds[k]
    BY <1>3, <1>4, <2>1, <2>2, CopyPlaces DEF n
  <2> QED
    BY <2>3, <2>4, <2>5
<1>8. ItsShape'
  <2>1. DOMAIN real' = Index /\ writer' \in Index /\ CWRITER' \in Index
    BY <1>0, <1>2, <1>3, <1>7, ItsAssumption DEF ItsShape, Index
  <2> QED
    BY <1>0, <1>1, <2>1 DEF ItsShape, Cmds
<1>9. AtRest'
  <2>1. z \in cbaser
    BY <1>0, <1>1 DEF AtRest
  <2>2. hung' => UNCHANGED <<writer, CWRITER>>
    BY <1>1, <1>2
  <2>3. CWRITER' = writer'
    BY <1>2, <1>3
  <2>4. job' # NoJob /\ job'.zone = z
    BY <1>1, <1>3 DEF NoJob
  <2> QED
    BY <1>0, <1>1, <1>3, <2>1, <2>2, <2>3, <2>4 DEF AtRest
<1>10. CopiedOwn'
  <2> SUFFICES ASSUME ~hung', NEW k \in 0 .. Left' - 1
               PROVE  real'[At(k)'] \in Cmds(z)'
    BY <1>1 DEF CopiedOwn
  <2>1. n >= 0
    BY <1>2
  <2> QED
    BY <1>5, <1>7, <2>1 DEF Cmds
<1>11. ASSUME NEW y \in Zones, y # z, y \notin lapped'
       PROVE  Straight(y)' /\ (Reads(y)' => Carried(y)')
  <2>1. Straight(y) /\ (Reads(y) => Carried(y)) /\ job'.zone # y
    BY <1>1, <1>11 DEF ItsInv
  <2>2. Straight(y)'
    BY <1>1, <2>1 DEF Straight
  <2>3. ASSUME Reads(y)' PROVE Carried(y)'
    <3>1. hw' = -1 /\ Reads(y)
      BY <1>1, <1>11, <2>3 DEF Reads
    <3> QED
      BY <1>1, <1>3, <1>6, <2>1, <3>1 DEF Carried
  <2> QED
    BY <2>2, <2>3
<1>12. ASSUME z \notin lapped'
       PROVE  Straight(z)' /\ (Reads(z)' => Carried(z)')
  <2>1. Straight(z) /\ (Reads(z) => Carried(z)) /\ job'.zone = z /\ (Reads(z)' => Reads(z))
    BY <1>1, <1>12 DEF ItsInv, Reads
  <2>2. /\ n >= 0 /\ gw[z] \in Nat /\ creadr[z] \in Nat /\ creadr[z] <= gw[z] /\ gw[z] < N
    BY <1>0, <2>1, ItsAssumption DEF Straight, Index
  <2>3. ~hung' /\ writer' = ring_ptr_update(writer + n)
    BY <1>1, <1>2, <2>2
  <2>4. Straight(z)'
    BY <1>1, <2>1, <2>3 DEF Straight
  <2>5. ASSUME Reads(z) PROVE Carried(z)'
    <3>1. Carried(z) /\ Len(done[z]) = creadr[z]
      BY <1>3, <2>1, <2>5 DEF Carried
    <3>2. \A k \in 0 .. n - 1 : /\ cmds[k] = [zone |-> z, lpi |-> asked[z][creadr[z] + k + 1]]
                                /\ cmds[k] # NoCmd /\ cmds[k].lpi = asked[z][creadr[z] + k + 1]
      <4>1. \A k \in 0 .. n - 1 : creadr[z] + k \in 0 .. gw[z] - 1
        BY <2>2
      <4>2. \A k \in 0 .. n - 1 : cmds[k] = [zone |-> z, lpi |-> asked[z][creadr[z] + k + 1]]
        BY <1>4, <2>1, <4>1 DEF Straight
      <4> QED
        BY <1>3, <4>2 DEF NoCmd
    <3>3. ASSUME NEW k \in 1 .. gw[z] PROVE asked[z][k] \in lpi'
      <4>1. CASE k <= creadr[z]
        BY <1>6, <2>2, <3>1, <4>1 DEF Carried
      <4>2. CASE k > creadr[z]
        <5>1. k - creadr[z] - 1 \in 0 .. n - 1 /\ creadr[z] + (k - creadr[z] - 1) + 1 = k
          BY <2>2, <4>2
        <5>2. PICK j \in 0 .. n - 1 : creadr[z] + j + 1 = k
          BY <5>1
        <5> QED
          BY <1>6, <2>2, <3>2, <5>2
      <4> QED
        BY <2>2, <4>1, <4>2
    <3>4. Len(done[z]) + Left' = gw[z]
      BY <1>7, <2>2, <3>1
    <3>5. \A k \in 0 .. Left' - 1 : real'[At(k)'] = [zone |-> z, lpi |-> asked[z][Len(done[z]) + k + 1]]
      BY <1>7, <2>2, <3>1, <3>2
    <3>6. hw # -1 => writer' = gw[z]
      <4> SUFFICES ASSUME hw # -1 PROVE writer' = gw[z]
        OBVIOUS
      <4>1. writer = creadr[z]
        BY <1>1, <3>1 DEF Carried
      <4> QED
        BY <2>2, <2>3, <4>1, ItsAssumption DEF ring_ptr_update
    <3>7. job' # NoJob
      BY <1>3, <2>1 DEF NoJob
    <3>8. \A k \in 1 .. Len(done[z]) : done[z][k] = asked[z][k] /\ done[z][k] \in lpi'
      BY <1>6, <3>1 DEF Carried
    <3> QED
      BY <1>1, <2>1, <3>1, <3>3, <3>4, <3>5, <3>6, <3>7, <3>8 DEF Carried
  <2> QED
    BY <2>1, <2>4, <2>5
<1> QED
  BY <1>8, <1>9, <1>10, <1>11, <1>12 DEF ItsInv

(* The hardware executes the next command, of the zone that holds CMDQ.     *)
LEMMA ExecuteStep == ASSUME ItsInv, Execute PROVE ItsInv'
<1>0. ItsShape /\ AtRest /\ CopiedOwn /\ CREADR \in Index
  BY DEF ItsInv, ItsShape
<1>1. /\ CREADR # writer /\ CREADR' = (CREADR + 1) % N
      /\ UNCHANGED <<vm, gw, cbaser, cwriter, creadr, real, readr, writer, CWRITER, hw, job,
                     hung, lpi, asked, lapped, came>>
  BY <1>0 DEF Execute, AtRest
<1>2. job # NoJob /\ ~hung
  BY <1>0, <1>1 DEF AtRest
<1>3. PICK z \in Zones : job = [zone |-> z, value |-> gw[z]]
  BY <1>0, <1>2 DEF ItsShape
<1>4. job.zone = z /\ z \in came /\ z # -1
  BY <1>0, <1>2, <1>3, ItsAssumption DEF AtRest
<1>5. CREADR' = (IF CREADR + 1 = N THEN 0 ELSE CREADR + 1) /\ CREADR' \in Index
  BY <1>0, <1>1, IndexAfter
<1>6. /\ Left \in Nat /\ Left >= 1 /\ Left' = Left - 1 /\ At(0) = CREADR
      /\ \A k \in 0 .. Left - 2 : At(k)' = At(k + 1)
  <2>1. writer \in Index /\ writer' = writer
    BY <1>0, <1>1 DEF ItsShape
  <2> QED
    BY <1>0, <1>1, <1>5, <2>1, ItsAssumption DEF Left, At, Index
<1> DEFINE cmd == (IF hw = Root THEN vm[Root] ELSE real)[CREADR]
           payer  == IF hw = Root THEN Root ELSE z
<1>7. done' = IF cmd = NoCmd THEN done ELSE [done EXCEPT ![cmd.zone] = Append(@, cmd.lpi)]
  BY DEF Execute
<1>8. payer \in Zones /\ cmd \in Cmds(payer)
  <2>1. hw = Root => Root \in Zones /\ cmd = vm[Root][CREADR]
    BY <1>0 DEF ItsShape, Root
  <2>2. hw # Root => hw = -1 /\ cmd = real[At(0)] /\ 0 \in 0 .. Left - 1
    BY <1>0, <1>6 DEF ItsShape
  <2> QED
    BY <1>0, <1>2, <1>4, <2>1, <2>2 DEF ItsShape, CopiedOwn
<1> HIDE DEF cmd
<1>9. /\ done' \in [Zones -> Seq(Lpi)] /\ \A y \in Zones : y # payer => done'[y] = done[y]
      /\ cmd # NoCmd => done'[payer] = Append(done[payer], cmd.lpi)
  <2>1. done \in [Zones -> Seq(Lpi)]
    BY <1>0 DEF ItsShape
  <2>2. CASE cmd = NoCmd
    BY <1>7, <2>1, <2>2
  <2>3. CASE cmd # NoCmd
    <3>1. cmd.zone = payer /\ cmd.lpi \in Lpi
      BY <1>8, <2>3 DEF Cmds
    <3>2. Append(done[payer], cmd.lpi) \in Seq(Lpi)
      BY <1>8, <2>1, <3>1
    <3>3. done' = [done EXCEPT ![payer] = Append(done[payer], cmd.lpi)]
      BY <1>7, <2>3, <3>1
    <3> QED
      BY <1>8, <2>1, <2>3, <3>2, <3>3
  <2> QED
    BY <2>2, <2>3
<1>10. ItsShape'
  BY <1>0, <1>1, <1>5, <1>9 DEF ItsShape, Cmds
<1>11. AtRest'
  BY <1>0, <1>1, <1>2 DEF AtRest
<1>12. CopiedOwn'
  <2> SUFFICES ASSUME NEW k \in 0 .. Left' - 1
               PROVE  real'[At(k)'] \in Cmds(job.zone)
    BY <1>1 DEF CopiedOwn, Cmds
  <2>1. k \in 0 .. Left - 2 /\ k + 1 \in 0 .. Left - 1
    BY <1>6
  <2> QED
    BY <1>0, <1>1, <1>2, <1>6, <2>1 DEF CopiedOwn
<1>13. ASSUME NEW y \in Zones, y \notin lapped'
       PROVE  Straight(y)' /\ (Reads(y)' => Carried(y)')
  <2>1. Straight(y) /\ (Reads(y) => Carried(y)) /\ (Reads(y)' => Reads(y))
    BY <1>1, <1>13 DEF ItsInv, Reads
  <2>2. Straight(y)'
    BY <1>1, <2>1 DEF Straight
  <2>3. CASE Reads(y) /\ y # z
    <3>1. hw = -1 /\ y # payer
      BY <1>4, <2>3 DEF Reads, Root
    <3> QED
      BY <1>1, <1>4, <1>9, <2>1, <2>2, <2>3, <3>1 DEF Carried
  <2>4. CASE Reads(y) /\ y = z
    <3>1. Carried(z) /\ Straight(z) /\ Len(done[z]) \in Nat /\ done[z] \in Seq(Lpi) /\ payer = z
      <4>1. payer = z
        BY <2>4 DEF Reads, Root
      <4>2. done[z] \in Seq(Lpi)
        BY <1>0, <2>4 DEF ItsShape
      <4> QED
        BY <2>1, <2>4, <4>1, <4>2
    <3> HIDE DEF payer
    <3>2. cmd = [zone |-> z, lpi |-> asked[z][Len(done[z]) + 1]]
      <4>1. CASE hw = -1
        <5>1. 0 \in 0 .. Left - 1 /\ cmd = real[At(0)]
          BY <1>6, <4>1 DEF cmd, Root
        <5> QED
          BY <1>4, <3>1, <4>1, <5>1 DEF Carried
      <4>2. CASE hw # -1
        <5>1. hw = Root /\ z = Root /\ CREADR = Len(done[z]) /\ cmd = vm[z][CREADR]
          BY <1>0, <2>4, <3>1, <4>2 DEF cmd, Carried, ItsShape, Reads
        <5>2. Len(done[z]) \in 0 .. gw[z] - 1
          BY <1>0, <1>4, <1>6, <3>1 DEF Carried, ItsShape, Index
        <5> QED
          BY <3>1, <5>1, <5>2 DEF Straight
      <4> QED
        BY <4>1, <4>2
    <3>3. cmd # NoCmd /\ cmd.lpi = asked[z][Len(done[z]) + 1]
      BY <1>4, <3>2 DEF NoCmd
    <3>4. /\ Len(done'[z]) = Len(done[z]) + 1
          /\ done'[z][Len(done[z]) + 1] = asked[z][Len(done[z]) + 1]
          /\ \A k \in 1 .. Len(done[z]) : done'[z][k] = done[z][k]
      <4>1. done'[z] = Append(done[z], asked[z][Len(done[z]) + 1])
        BY <1>9, <3>1, <3>3
      <4> QED
        BY <3>1, <4>1
    <3>5. Len(done[z]) + Left = gw[z] /\ gw[z] \in Nat
      BY <1>0, <1>4, <3>1, ItsAssumption DEF Carried, ItsShape, Index
    <3>6. ASSUME NEW k \in 1 .. Len(done'[z]) PROVE done'[z][k] = asked[z][k] /\ done'[z][k] \in lpi
      <4>1. k \in 1 .. gw[z]
        BY <1>6, <3>1, <3>4, <3>5
      <4>2. CASE k = Len(done[z]) + 1
        BY <1>4, <3>1, <3>4, <4>1, <4>2 DEF Carried
      <4>3. CASE k \in 1 .. Len(done[z])
        BY <3>1, <3>4, <4>3 DEF Carried
      <4> QED
        BY <3>1, <3>4, <4>2, <4>3
    <3>7. ASSUME hw = -1, NEW k \in 0 .. Left - 2
          PROVE  real'[At(k)'] = [zone |-> z, lpi |-> asked[z][Len(done'[z]) + k + 1]]
      <4>1. k \in Nat /\ k + 1 \in 0 .. Left - 1
        BY <1>6
      <4>2. \A e, d \in Nat : d = e + 1 => d + k + 1 = e + (k + 1) + 1
        BY <4>1
      <4>3. Len(done'[z]) + k + 1 = Len(done[z]) + (k + 1) + 1
        <5>1. Len(done[z]) \in Nat /\ Len(done'[z]) \in Nat /\ Len(done'[z]) = Len(done[z]) + 1
          BY <3>1, <3>4
        <5> QED
          BY <4>2, <5>1, Zenon
      <4> QED
        BY <1>1, <1>4, <1>6, <3>1, <3>7, <4>1, <4>3 DEF Carried
    <3>8. hw # -1 => CREADR' = Len(done'[z])
      <4> SUFFICES ASSUME hw # -1 PROVE CREADR' = Len(done'[z])
        OBVIOUS
      <4>1. CREADR = Len(done[z]) /\ gw[z] < N
        BY <1>0, <3>1, ItsAssumption DEF Carried, ItsShape, Index
      <4>2. writer = gw[z]
        BY <1>2, <3>1 DEF Carried
      <4> QED
        BY <1>5, <1>6, <3>1, <3>4, <3>5, <4>1
    <3>9. Len(done'[z]) + Left' = gw[z] /\ Len(done'[z]) <= gw[z]
      BY <1>6, <3>1, <3>4, <3>5, SMTT(30)
    <3>10. ~(job'.zone # z) /\ \A k \in 1 .. gw'[z] : asked'[z][k] \in lpi'
      BY <1>1, <1>4, <3>1 DEF Carried
    <3>11. hw' # -1 => writer' = IF job' = NoJob THEN creadr'[z] ELSE gw'[z]
      BY <1>1, <3>1 DEF Carried
    <3>12. hw' = -1 => \A k \in 0 .. Left' - 1 :
              real'[At(k)'] = [zone |-> z, lpi |-> asked'[z][Len(done'[z]) + k + 1]]
      <4>1. 0 .. Left' - 1 = 0 .. Left - 2
        BY <1>6
      <4> QED
        BY <1>1, <3>7, <4>1
    <3>13. Carried(z)'
      BY <1>1, <3>6, <3>8, <3>9, <3>10, <3>11, <3>12 DEF Carried
    <3> QED
      BY <2>2, <2>4, <3>13
  <2> QED
    BY <2>1, <2>2, <2>3, <2>4
<1> QED
  BY <1>10, <1>11, <1>12, <1>13 DEF ItsInv

(* Every step keeps the invariant.                                          *)
LEMMA ItsStep == ItsInv /\ [ItsNext]_itsvars => ItsInv'
<1> SUFFICES ASSUME ItsInv, [ItsNext]_itsvars PROVE ItsInv'
  OBVIOUS
<1>1. CASE UNCHANGED itsvars
  <2>1. /\ \A z : (Straight(z)' <=> Straight(z)) /\ (Carried(z)' <=> Carried(z))
    BY <1>1, ItsFrame DEF itsvars
  <2>2. CopiedOwn'
    BY <1>1, CopiedFrame DEF itsvars, ItsInv
  <2> QED
    BY <1>1, <2>1, <2>2 DEF itsvars, ItsInv, ItsShape, AtRest, Cmds, Reads
<1> QED
  BY <1>1, CbaserStep, AsideSteps, GuestStep, FinishStep, InsertStep, ExecuteStep DEF ItsNext

(* However the shared queue wraps and whichever zones use it: the commands  *)
(* of a zone whose own queue has not come round, and that the hardware      *)
(* reads, are executed once and in order, and all of them when the write of *)
(* GITS_CWRITER returns, with their LPIs enabled.                           *)
THEOREM CommandsAreForwarded == ItsSpec => []CommandsForwarded
<1>1. ItsInv => CommandsForwarded
  <2> SUFFICES ASSUME ItsInv, NEW z \in Zones, z \notin lapped, Reads(z)
               PROVE  /\ IsPrefix(done[z], asked[z])
                      /\ job.zone # z /\ gw[z] = cwriter[z] => done[z] = asked[z] /\ creadr[z] = cwriter[z]
                      /\ \A k \in DOMAIN done[z] : done[z][k] \in lpi
    BY DEF CommandsForwarded
  <2>1. Straight(z) /\ Carried(z) /\ done[z] \in Seq(Lpi) /\ asked[z] \in Seq(Lpi)
    BY DEF ItsInv, ItsShape
  <2>2. /\ Len(done[z]) \in Nat /\ Len(asked[z]) \in Nat /\ Len(done[z]) <= Len(asked[z])
        /\ \A k \in 1 .. Len(done[z]) : done[z][k] = asked[z][k] /\ done[z][k] \in lpi
        /\ DOMAIN done[z] = 1 .. Len(done[z])
    BY <2>1 DEF Straight, Carried
  <2>3. SubSeq(done[z], 1, Len(done[z])) = SubSeq(asked[z], 1, Len(done[z]))
    BY <2>1, <2>2
  <2>4. ASSUME job.zone # z, gw[z] = cwriter[z]
        PROVE  done[z] = asked[z] /\ creadr[z] = cwriter[z]
    <3>1. Len(done[z]) = Len(asked[z]) /\ creadr[z] = cwriter[z]
      BY <2>1, <2>4 DEF Straight, Carried
    <3> QED
      BY <2>1, <2>2, <3>1
  <2> QED
    BY <2>2, <2>3, <2>4 DEF IsPrefix
<1> QED
  BY <1>1, ItsStart, ItsStep, PTL DEF ItsSpec

-----------------------------------------------------------------------------
(* The distributor and the redistributors of a GICv3 (Vgic3).  CPUs are     *)
(* numbers (DistAssumption) and so differ from Nobody, the holder of a free *)
(* GICD_LOCK.                                                               *)

\* A CPU is between the read and the write of a read-modify-write.
Writing(c) == access[c].at = "write"

(* What a CPU remembers in between: register, value, and what it read.      *)
DistShape == /\ enabled \subseteq Spi /\ group \subseteq Spi /\ wantE \subseteq Spi
             /\ DOMAIN route = Spi /\ DOMAIN wantR = Spi
             /\ route = [i \in Spi |-> route[i]] /\ wantR = [i \in Spi |-> wantR[i]]
             /\ redist \in [CPU -> SUBSET (Private \cup Reserved)]
             /\ access \in [CPU -> {NoAccess} \cup [at : {"write"}, w : Word, V : SUBSET Spi,
                                                    read : SUBSET Spi]]

(* The CPU that is writing has GICD_LOCK; so what it read is still there,   *)
(* and its zone's history has the value it is going to write.               *)
Locked == \A c \in CPU : Writing(c) =>
            /\ lock = c
            /\ access[c].read = group \cap Irqs(access[c].w)
            /\ \A i \in access_mask(c, access[c].w) : i \in wantG <=> i \in access[c].V

(* The inductive invariant.                                                 *)
DistInv == DistShape /\ Locked /\ OwnValues /\ ReservedStayEnabled /\ EnabledHasZone

(* GICD_LOCK has one holder, so one CPU at most is writing.                 *)
LEMMA OneWriter ==
  ASSUME Locked, NEW c \in CPU, NEW d \in CPU, Writing(c), Writing(d)
  PROVE  c = d
BY DEF Locked

(* The stores that need no lock, GICD_ISENABLER and GICD_ICENABLER: bits of *)
(* the zone's own interrupts only.                                          *)
LEMMA DistEnableInv ==
  ASSUME DistInv, NEW c \in CPU, NEW w \in Word, NEW V \in SUBSET Irqs(w),
         SetEnable(c, w, V) \/ ClearEnable(c, w, V)
  PROVE  DistInv'
<1>1. UNCHANGED <<group, route, redist, up, off, lock, access, wantG, wantR>> /\ ZoneOf[c] \in up
  BY DEF SetEnable, ClearEnable, Runs
<1>2. V \subseteq Irqs(w) /\ V \subseteq Spi
  BY DEF Irqs
<1>3. V \cap access_mask(c, w) = {i \in V : irq_in_zone(c, i)}
  BY <1>2 DEF access_mask
<1>4. \/ /\ enabled' = enabled \cup {i \in V : irq_in_zone(c, i)}
         /\ wantE' = wantE \cup {i \in V : irq_in_zone(c, i)}
      \/ /\ enabled' = enabled \ {i \in V : irq_in_zone(c, i)}
         /\ wantE' = wantE \ {i \in V : irq_in_zone(c, i)}
  BY <1>3 DEF SetEnable, ClearEnable
<1>5. DistShape'
  BY <1>1, <1>2, <1>4 DEF DistInv, DistShape
<1>6. Locked'
  BY <1>1 DEF DistInv, Locked, Writing, access_mask, Irqs
<1>7. OwnValues'
  BY <1>1, <1>4 DEF DistInv, OwnValues, InFlight
<1>8. EnabledHasZone'
  BY <1>1, <1>4 DEF DistInv, EnabledHasZone, irq_in_zone
<1> QED
  BY <1>1, <1>5, <1>6, <1>7, <1>8 DEF DistInv, ReservedStayEnabled

(* The first half of a read-modify-write: with the lock taken nobody else   *)
(* is writing, and the history moves for the fields in flight only.         *)
LEMMA DistModifyInv ==
  ASSUME DistInv, NEW c \in CPU, NEW w \in Word, NEW V \in SUBSET Irqs(w),
         Modify(c, w, V)
  PROVE  DistInv'
<1> DEFINE new == [at |-> "write", w |-> w, V |-> V, read |-> group \cap Irqs(w)]
<1>1. /\ UNCHANGED <<enabled, group, route, redist, up, off, wantE, wantR>>
      /\ lock = Nobody /\ lock' = c
      /\ access' = [access EXCEPT ![c] = new]
      /\ wantG' = (wantG \ access_mask(c, w)) \cup (V \cap access_mask(c, w))
  BY DEF Modify, Asked, access_mask
<1>2. \A d \in CPU : ~Writing(d)
  BY <1>1, DistAssumption DEF DistInv, Locked, Nobody
<1>3. V \subseteq Spi
  BY DEF Irqs
<1>4. DistShape'
  <2>1. new \in [at : {"write"}, w : Word, V : SUBSET Spi, read : SUBSET Spi]
    BY <1>3 DEF Irqs
  <2>2. access' \in [CPU -> {NoAccess} \cup [at : {"write"}, w : Word, V : SUBSET Spi,
                                             read : SUBSET Spi]]
    BY <1>1, <2>1 DEF DistInv, DistShape
  <2> QED
    BY <1>1, <2>2 DEF DistInv, DistShape
<1>5. /\ access'[c] = new
      /\ \A d \in CPU : d # c => access'[d] = access[d]
  BY <1>1 DEF DistInv, DistShape
<1>6. new.at = "write" /\ new.w = w /\ new.V = V /\ new.read = group \cap Irqs(w)
  OBVIOUS
<1> HIDE DEF new
<1>7. Locked'
  <2> SUFFICES ASSUME NEW d \in CPU, Writing(d)'
               PROVE  /\ lock' = d
                      /\ access'[d].read = group' \cap Irqs(access'[d].w)
                      /\ \A i \in access_mask(d, access'[d].w) : i \in wantG' <=> i \in access'[d].V
    BY DEF Locked, access_mask, Irqs
  <2>1. d = c
    BY <1>2, <1>5 DEF Writing
  <2> QED
    BY <1>1, <1>5, <1>6, <2>1
<1>8. OwnValues'
  <2> SUFFICES ASSUME NEW i \in Spi, ~InFlight(i)'
               PROVE  i \in group' <=> i \in wantG'
    BY <1>1 DEF DistInv, OwnValues
  <2>1. ~InFlight(i)
    BY <1>2 DEF InFlight, Writing
  <2>2. i \notin access_mask(c, w)
    <3>1. ASSUME i \in access_mask(c, w)
          PROVE  FALSE
      <4>1. WordOf[i] = w /\ irq_in_zone(c, i)
        BY <3>1 DEF access_mask, Irqs
      <4> QED
        BY <1>5, <1>6, <4>1 DEF InFlight
    <3> QED
      BY <3>1
  <2> QED
    BY <1>1, <2>1, <2>2 DEF DistInv, OwnValues
<1> QED
  BY <1>1, <1>4, <1>7, <1>8 DEF DistInv, ReservedStayEnabled, EnabledHasZone

(* The second half: the fields of others are written back as they are, and  *)
(* its own get the value its zone asked for.                                *)
LEMMA DistWriteBackInv ==
  ASSUME DistInv, NEW c \in CPU, WriteBack(c)
  PROVE  DistInv'
<1> DEFINE a == access[c]
           m == access_mask(c, a.w)
<1>1. /\ UNCHANGED <<enabled, route, redist, up, off, wantE, wantG, wantR>>
      /\ group' = (group \ Irqs(a.w)) \cup (a.read \ m) \cup (a.V \cap m)
      /\ access' = [access EXCEPT ![c] = NoAccess]
  BY DEF WriteBack
<1>2. Writing(c)
  BY DEF WriteBack, Writing
<1>3. a.read = group \cap Irqs(a.w) /\ \A i \in m : i \in wantG <=> i \in a.V
  BY <1>2 DEF DistInv, Locked
<1>4. Irqs(a.w) \subseteq Spi /\ m \subseteq Irqs(a.w)
  BY DEF Irqs, access_mask
<1>5. \A i \in Spi : i \in group' <=> IF i \in m THEN i \in wantG ELSE i \in group
  BY <1>1, <1>3, <1>4
<1>6. DistShape'
  <2>1. access' \in [CPU -> {NoAccess} \cup [at : {"write"}, w : Word, V : SUBSET Spi,
                                             read : SUBSET Spi]]
    BY <1>1 DEF DistInv, DistShape
  <2>2. group' \subseteq Spi
    BY <1>1, <1>3, <1>4 DEF DistInv, DistShape
  <2> QED
    BY <1>1, <2>1, <2>2 DEF DistInv, DistShape
<1>7. \A d \in CPU : ~Writing(d)'
  <2> SUFFICES ASSUME NEW d \in CPU, Writing(d)'
               PROVE  FALSE
    OBVIOUS
  <2>1. CASE d = c
    BY <1>1, <2>1 DEF DistInv, DistShape, Writing, NoAccess
  <2>2. CASE d # c
    <3>1. Writing(d)
      BY <1>1, <2>2 DEF DistInv, DistShape, Writing
    <3> QED
      BY <1>2, <2>2, <3>1, OneWriter DEF DistInv
  <2> QED
    BY <2>1, <2>2
<1>8. OwnValues'
  <2> SUFFICES ASSUME NEW i \in Spi
               PROVE  i \in group' <=> i \in wantG'
    BY <1>1 DEF DistInv, OwnValues
  <2>1. CASE i \in m
    BY <1>1, <1>5, <2>1
  <2>2. CASE i \notin m
    <3>1. ~InFlight(i)
      <4> SUFFICES ASSUME NEW d \in CPU, access[d].at = "write", access[d].w = WordOf[i],
                          irq_in_zone(d, i)
                   PROVE  FALSE
        BY DEF InFlight
      <4>1. d = c
        BY <1>2, OneWriter DEF DistInv, Writing
      <4> QED
        BY <2>2, <4>1 DEF access_mask, Irqs
    <3> QED
      BY <1>1, <1>5, <2>2, <3>1 DEF DistInv, OwnValues
  <2> QED
    BY <2>1, <2>2
<1> QED
  BY <1>1, <1>6, <1>7, <1>8 DEF DistInv, Locked, ReservedStayEnabled, EnabledHasZone

(* GICD_IROUTER, the redistributors, and the end and the start of a zone.   *)
LEMMA DistOtherInv ==
  ASSUME DistInv,
         \/ \E c, t \in CPU, i \in Spi : vgicv3_handle_irq_ops(c, i, t)
         \/ \E c, r \in CPU, V \in SUBSET Private : RedistSet(c, r, V) \/ RedistClear(c, r, V)
         \/ \E z \in Zone : arch_irqchip_reset(z) \/ SystemOff(z) \/ StartZone(z)
         \/ UNCHANGED gvars
  PROVE  DistInv'
<1>0. UNCHANGED <<group, lock, access, wantG>>
  BY DEF vgicv3_handle_irq_ops, RedistSet, RedistClear, arch_irqchip_reset, SystemOff, StartZone, gvars
<1>1. Locked'
  BY <1>0 DEF DistInv, Locked, Writing, access_mask, Irqs
<1>2. \A i \in Spi : (~InFlight(i) => (i \in group <=> i \in wantG))'
  BY <1>0 DEF DistInv, OwnValues, InFlight
<1>3. ASSUME NEW c \in CPU, NEW t \in CPU, NEW i \in Spi, vgicv3_handle_irq_ops(c, i, t)
      PROVE  DistInv'
  <2>1. /\ UNCHANGED <<enabled, redist, up, off, wantE>>
        /\ route' = [route EXCEPT ![i] = t] /\ wantR' = [wantR EXCEPT ![i] = t]
    BY <1>3 DEF vgicv3_handle_irq_ops
  <2>2. DistShape'
    BY <1>0, <2>1 DEF DistInv, DistShape
  <2>3. OwnValues'
    BY <1>2, <2>1 DEF DistInv, DistShape, OwnValues
  <2> QED
    BY <1>1, <2>1, <2>2, <2>3 DEF DistInv, ReservedStayEnabled, EnabledHasZone
<1>4. ASSUME NEW c \in CPU, NEW r \in CPU, NEW V \in SUBSET Private,
             RedistSet(c, r, V) \/ RedistClear(c, r, V)
      PROVE  DistInv'
  <2>1. /\ UNCHANGED <<enabled, route, up, off, wantE, wantR>>
        /\ \/ redist' = [redist EXCEPT ![r] = redist[r] \cup V]
           \/ redist' = [redist EXCEPT ![r] = redist[r] \ (V \ Reserved)]
    BY <1>4 DEF RedistSet, RedistClear
  <2>2. redist' \in [CPU -> SUBSET (Private \cup Reserved)]
    <3>1. /\ redist[r] \cup V \in SUBSET (Private \cup Reserved)
          /\ redist[r] \ (V \ Reserved) \in SUBSET (Private \cup Reserved)
      BY DEF DistInv, DistShape
    <3> QED
      BY <2>1, <3>1 DEF DistInv, DistShape
  <2>3. ReservedStayEnabled'
    BY <2>1 DEF DistInv, DistShape, ReservedStayEnabled
  <2>4. DistShape'
    BY <1>0, <2>1, <2>2 DEF DistInv, DistShape
  <2>5. OwnValues'
    BY <1>2, <2>1 DEF DistInv, OwnValues
  <2> QED
    BY <1>1, <2>1, <2>3, <2>4, <2>5 DEF DistInv, EnabledHasZone
<1>5. ASSUME NEW z \in Zone, arch_irqchip_reset(z)
      PROVE  DistInv'
  <2>1. /\ UNCHANGED <<route, redist, off, wantR>> /\ up' = up \ {z}
        /\ enabled' = enabled \ {i \in Spi : IrqZone[i] = z}
        /\ wantE' = wantE \ {i \in Spi : IrqZone[i] = z}
    BY <1>5 DEF arch_irqchip_reset
  <2>2. DistShape'
    BY <1>0, <2>1 DEF DistInv, DistShape
  <2>3. OwnValues'
    BY <1>2, <2>1 DEF DistInv, OwnValues
  <2>4. EnabledHasZone'
    BY <2>1 DEF DistInv, DistShape, EnabledHasZone
  <2> QED
    BY <1>1, <2>1, <2>2, <2>3, <2>4 DEF DistInv, ReservedStayEnabled
<1>6. ASSUME NEW z \in Zone, SystemOff(z) \/ StartZone(z)
      PROVE  DistInv'
  <2>1. UNCHANGED <<enabled, route, redist, wantE, wantR>> /\ up \cup off \subseteq up' \cup off'
    BY <1>6 DEF SystemOff, StartZone
  <2>2. DistShape'
    BY <1>0, <2>1 DEF DistInv, DistShape
  <2>3. OwnValues'
    BY <1>2, <2>1 DEF DistInv, OwnValues
  <2> QED
    BY <1>1, <2>1, <2>2, <2>3 DEF DistInv, ReservedStayEnabled, EnabledHasZone
<1>7. CASE UNCHANGED gvars
  <2>1. UNCHANGED <<enabled, route, redist, up, off, wantE, wantR>>
    BY <1>7 DEF gvars
  <2>2. DistShape'
    BY <1>0, <2>1 DEF DistInv, DistShape
  <2>3. OwnValues'
    BY <1>2, <2>1 DEF DistInv, OwnValues
  <2> QED
    BY <1>1, <2>1, <2>2, <2>3 DEF DistInv, ReservedStayEnabled, EnabledHasZone
<1> QED
  BY <1>3, <1>4, <1>5, <1>6, <1>7

(* Every access of a guest, and every end and start of a zone, keeps DistInv.  *)
LEMMA DistNextInv == DistInv /\ [DistNext]_gvars => DistInv'
<1> SUFFICES ASSUME DistInv, [DistNext]_gvars
             PROVE  DistInv'
  OBVIOUS
<1>1. CASE \E c \in CPU, w \in Word : \E V \in SUBSET Irqs(w) :
             SetEnable(c, w, V) \/ ClearEnable(c, w, V) \/ Modify(c, w, V)
  BY <1>1, DistEnableInv, DistModifyInv
<1>2. CASE \E c \in CPU : WriteBack(c)
  BY <1>2, DistWriteBackInv
<1> QED
  BY <1>1, <1>2, DistOtherInv DEF DistNext

(* After primary_init_late and percpu_init DistInv holds.                      *)
LEMMA DistInitInv == DistInit => DistInv
<1> SUFFICES ASSUME DistInit
             PROVE  DistInv
  OBVIOUS
<1>1. \A c \in CPU : ~Writing(c)
  BY DEF DistInit, Writing, NoAccess
<1>2. DistShape
  <2>1. access \in [CPU -> {NoAccess} \cup [at : {"write"}, w : Word, V : SUBSET Spi,
                                            read : SUBSET Spi]]
    BY DEF DistInit
  <2>2. redist \in [CPU -> SUBSET (Private \cup Reserved)]
    BY DEF DistInit
  <2> QED
    BY <2>1, <2>2 DEF DistInit, DistShape
<1>3. OwnValues
  BY DEF DistInit, OwnValues
<1> QED
  BY <1>1, <1>2, <1>3 DEF DistInit, DistInv, Locked, ReservedStayEnabled, EnabledHasZone

(* Zones that share the registers of the distributor do not disturb one     *)
(* another: with GICD_LOCK around the read and the write of                 *)
(* restrict_bitmask_access, and with its mask, every field has the value    *)
(* its own zone gave it last.  No sequence of redistributor accesses        *)
(* disables the SGI of the events or the maintenance interrupt, and         *)
(* arch_irqchip_reset leaves no interrupt of the zone that goes enabled: of *)
(* zones that are gone only those of SYSTEM_OFF, which leaves it out, have  *)
(* any.                                                                     *)
THEOREM FieldsKept == DistSpec => []FieldsAreOwn
<1>1. DistInv => FieldsAreOwn
  BY DEF DistInv, FieldsAreOwn
<1> QED
  BY <1>1, DistInitInv, DistNextInv, PTL DEF DistSpec
=============================================================================

---------------------------- MODULE MachineProof ----------------------------
(***************************************************************************)
(* Proofs about what hvisor sets up around its guests: Boot for any number  *)
(* of CPUs and whatever PARange they have, FrameAlloc for any pool, number  *)
(* of CPUs and size asked for, Smmu for every size of the command queue,    *)
(* Pci for any devices and well-formed BARs, Ivc for any zones and regions. *)
(***************************************************************************)
EXTENDS Boot, FrameAlloc, Pci, Smmu, Ivc,
        Powers, WellFoundedInduction

(***************************************************************************)
(* Boot                                                                     *)
(***************************************************************************)
(* Places of rust_main after which a CPU has added one to INITED_CPUS, to   *)
(* PARANGE_OK_CPUS and to ENTERED_CPUS.                                     *)
Inited  == {"wait_inited", "late", "wait_late", "run_vm", "guest", "idle"}
Ranged  == {"wait_parange", "early", "index", "wait_early", "percpu"} \cup Inited
Entered == {"wait_entered", "parange", "parange_add"} \cup Ranged
\* Behind the barrier on INITED_CPUS.
Ready   == {"late", "wait_late", "run_vm", "guest", "idle"}
\* PARange is part of MIN_PARANGE.
Merged  == {"parange_add"} \cup Ranged

At(S) == {c \in CPU : pc[c] \in S}

(* The counters count the CPUs that have come past them.                    *)
Counted == /\ entered = Cardinality(At(Entered))
           /\ parange_ok = Cardinality(At(Ranged))
           /\ inited = Cardinality(At(Inited))

(* Types without bounds: those follow from Counted.                         *)
Shape == /\ pc \in [CPU -> PC] /\ woken \subseteq CPU
         /\ entered \in Nat /\ parange_ok \in Nat /\ inited \in Nat
         /\ early \in 0 .. 1 /\ late \in 0 .. 1
         /\ min_parange \in 0 .. 7 /\ table_parange \in 0 .. 7
         /\ zone \in [CPU -> {"stale", "none", "root"}]
         /\ boot_cpu \in [CPU -> BOOLEAN]

(* Where a CPU can be, given the counters; no place behind a barrier        *)
(* without the barrier being open.                                          *)
Places == /\ \A c \in CPU : /\ c \in woken <=> pc[c] # "off"
                            /\ pc[c] \in {"wakeup", "early", "late"} => c = Primary
                            /\ pc[c] \in {"wait_early", "wait_late"} => c # Primary
                            /\ pc[c] \in {"parange"} \cup Merged => entered >= NCPU
                            /\ pc[c] \in {"early", "wait_early", "percpu"} \cup Inited => parange_ok >= NCPU
                            /\ pc[c] \in {"percpu"} \cup Inited => early = 1
                            /\ pc[c] \in Ready => inited >= NCPU
                            /\ pc[c] \in {"run_vm", "guest", "idle"} => late = 1
          /\ early = 1 => pc[Primary] \in {"percpu"} \cup Inited
          /\ late = 1 => pc[Primary] \in {"run_vm", "guest", "idle"}

(* MIN_PARANGE is the smallest PARange of the CPUs that have merged theirs. *)
Smallest == /\ \A c \in CPU : pc[c] \in Merged => min_parange <= PaRange[c]
            /\ min_parange = 7 \/ \E d \in CPU : min_parange = PaRange[d]

(* The inductive invariant.                                                 *)
IInv == /\ Shape /\ Counted /\ Places /\ Smallest
        /\ RootZoneKept /\ ParangeFitsAll /\ AssertionsHold

(* A CPU that moves from p[c] to l and does not leave S adds one to those   *)
(* in S just when it comes into S.                                          *)
LEMMA MoveCounts ==
  ASSUME NEW p \in [CPU -> PC], NEW c \in CPU, NEW l \in PC, NEW S, p[c] \in S => l \in S
  PROVE  Cardinality({d \in CPU : [p EXCEPT ![c] = l][d] \in S})
           = Cardinality({d \in CPU : p[d] \in S}) + (IF p[c] \notin S /\ l \in S THEN 1 ELSE 0)
<1> DEFINE A == {d \in CPU : p[d] \in S}
           B == {d \in CPU : [p EXCEPT ![c] = l][d] \in S}
<1>1. IsFiniteSet(A) /\ Cardinality(A) \in Nat
  BY FS_Subset, FS_CardinalityType, BootAssumption
<1>2. CASE p[c] \notin S /\ l \in S
  <2>1. B = A \cup {c} /\ c \notin A
    BY <1>2
  <2> QED
    BY <1>1, <1>2, <2>1, FS_AddElement
<1>3. CASE ~(p[c] \notin S /\ l \in S)
  <2>1. B = A
    BY <1>3
  <2> QED
    BY <1>1, <1>3, <2>1
<1> QED
  BY <1>2, <1>3

(* A set of CPUs that counts as many as there are has them all, and no set  *)
(* counts more.                                                             *)
LEMMA FullCount ==
  ASSUME NEW S \in SUBSET CPU
  PROVE  /\ NCPU \in Nat /\ Cardinality(S) \in Nat /\ Cardinality(S) <= NCPU
         /\ Cardinality(S) >= NCPU => S = CPU
<1>1. IsFiniteSet(S) /\ Cardinality(S) <= NCPU /\ (NCPU = Cardinality(S) => CPU = S)
  BY FS_Subset, BootAssumption DEF NCPU
<1>2. NCPU \in Nat /\ Cardinality(S) \in Nat
  BY <1>1, FS_CardinalityType, BootAssumption DEF NCPU
<1> QED
  BY <1>1, <1>2

(* What an open barrier tells about every CPU.                              *)
LEMMA Barriers ==
  ASSUME Shape, Counted
  PROVE  /\ NCPU \in Nat /\ entered <= NCPU /\ parange_ok <= NCPU /\ inited <= NCPU
         /\ entered >= NCPU => \A d \in CPU : pc[d] \in Entered
         /\ parange_ok >= NCPU => \A d \in CPU : pc[d] \in Ranged
         /\ inited >= NCPU => \A d \in CPU : pc[d] \in Inited
<1>1. At(Entered) \in SUBSET CPU /\ At(Ranged) \in SUBSET CPU /\ At(Inited) \in SUBSET CPU
  BY DEF At
<1>2. /\ entered >= NCPU => At(Entered) = CPU
      /\ parange_ok >= NCPU => At(Ranged) = CPU
      /\ inited >= NCPU => At(Inited) = CPU
  BY <1>1, FullCount DEF Counted
<1>3. NCPU \in Nat /\ entered <= NCPU /\ parange_ok <= NCPU /\ inited <= NCPU
  BY <1>1, FullCount DEF Counted
<1> QED
  BY <1>2, <1>3 DEF At

(* A step of rust_main that moves CPU c to l keeps Counted if it adds to    *)
(* the counters what the place says.                                        *)
LEMMA Recount ==
  ASSUME Shape, Counted, NEW c \in CPU, NEW l \in PC, pc' = [pc EXCEPT ![c] = l],
         pc[c] \in Entered => l \in Entered,
         pc[c] \in Ranged => l \in Ranged,
         pc[c] \in Inited => l \in Inited,
         entered' = entered + (IF pc[c] \notin Entered /\ l \in Entered THEN 1 ELSE 0),
         parange_ok' = parange_ok + (IF pc[c] \notin Ranged /\ l \in Ranged THEN 1 ELSE 0),
         inited' = inited + (IF pc[c] \notin Inited /\ l \in Inited THEN 1 ELSE 0)
  PROVE  Counted'
<1>1. Cardinality({d \in CPU : pc'[d] \in Entered})
        = Cardinality({d \in CPU : pc[d] \in Entered}) + (IF pc[c] \notin Entered /\ l \in Entered THEN 1 ELSE 0)
  BY MoveCounts DEF Shape
<1>2. Cardinality({d \in CPU : pc'[d] \in Ranged})
        = Cardinality({d \in CPU : pc[d] \in Ranged}) + (IF pc[c] \notin Ranged /\ l \in Ranged THEN 1 ELSE 0)
  BY MoveCounts DEF Shape
<1>3. Cardinality({d \in CPU : pc'[d] \in Inited})
        = Cardinality({d \in CPU : pc[d] \in Inited}) + (IF pc[c] \notin Inited /\ l \in Inited THEN 1 ELSE 0)
  BY MoveCounts, SMTT(30) DEF Shape
<1> QED
  BY <1>1, <1>2, <1>3 DEF Counted, At

(* The steps that only move a CPU, behind a barrier or not.                 *)
LEMMA MoveStep ==
  ASSUME IInv, NEW c \in CPU,
         \/ WaitEntered(c) \/ WaitParange(c) \/ WaitEarly(c) \/ WaitInited(c)
         \/ WaitLate(c) \/ RunVm(c)
  PROVE  IInv'
<1>1. UNCHANGED <<woken, counters, min_parange, zone, boot_cpu, table_parange>>
  BY DEF WaitEntered, WaitParange, WaitEarly, WaitInited, WaitLate, RunVm
<1>2. UNCHANGED <<entered, parange_ok, inited, early, late>>
  BY <1>1 DEF counters
<1>3. PICK l \in PC : 
        /\ pc' = [pc EXCEPT ![c] = l]
        /\ \/ pc[c] = "wait_entered" /\ entered >= NCPU /\ l = "parange"
           \/ pc[c] = "wait_parange" /\ parange_ok >= NCPU /\ c = Primary /\ l = "early"
           \/ pc[c] = "wait_parange" /\ parange_ok >= NCPU /\ c # Primary /\ l = "wait_early"
           \/ pc[c] = "wait_early" /\ early >= 1 /\ l = "percpu"
           \/ pc[c] = "wait_inited" /\ inited >= NCPU /\ c = Primary /\ l = "late"
           \/ pc[c] = "wait_inited" /\ inited >= NCPU /\ c # Primary /\ l = "wait_late"
           \/ pc[c] = "wait_late" /\ late >= 1 /\ l = "run_vm"
           \/ pc[c] = "run_vm" /\ l \in {"guest", "idle"}
  <2>1. entered <= NCPU /\ NCPU \in Nat /\ entered \in Nat
    BY Barriers DEF IInv, Shape
  <2> QED
    BY <2>1 DEF WaitEntered, WaitParange, WaitEarly, WaitInited, WaitLate, RunVm, Goto, PC
<1>4. Shape'
  BY <1>1, <1>2, <1>3 DEF IInv, Shape
<1>5. Counted'
  <2>1. /\ pc[c] \in Entered /\ l \in Entered
        /\ pc[c] \in Ranged <=> l \in Ranged
        /\ pc[c] \in Inited <=> l \in Inited
    BY <1>3 DEF Entered, Ranged, Inited
  <2>2. /\ entered' = entered + (IF pc[c] \notin Entered /\ l \in Entered THEN 1 ELSE 0)
        /\ parange_ok' = parange_ok + (IF pc[c] \notin Ranged /\ l \in Ranged THEN 1 ELSE 0)
        /\ inited' = inited + (IF pc[c] \notin Inited /\ l \in Inited THEN 1 ELSE 0)
    BY <1>2, <2>1 DEF IInv, Shape
  <2> QED
    BY <1>3, <2>1, <2>2, Recount DEF IInv
<1>6. Places'
  BY <1>1, <1>2, <1>3, BootAssumption DEF IInv, Shape, Places, Merged, Ranged, Inited, Ready
<1>7. Smallest'
  BY <1>1, <1>3 DEF IInv, Shape, Smallest, Merged, Ranged, Inited
<1>8. AssertionsHold'
  BY <1>3 DEF IInv, Shape, AssertionsHold
<1> QED
  BY <1>1, <1>2, <1>4, <1>5, <1>6, <1>7, <1>8 DEF IInv, RootZoneKept, ParangeFitsAll

(* The steps before the first counter: CPUs are started, each sets up its   *)
(* PerCpu.  No CPU is there any more once the root zone exists.             *)
LEMMA StartStep ==
  ASSUME IInv, NEW c \in CPU, New(c) \/ CpuStart(c) \/ (c = Primary /\ AllStarted)
  PROVE  IInv'
<1>1. UNCHANGED <<counters, min_parange, table_parange>>
  BY DEF New, CpuStart, AllStarted
<1>2. UNCHANGED <<entered, parange_ok, inited, early, late>>
  BY <1>1 DEF counters
<1>3. PICK l \in PC :
        /\ pc' = [pc EXCEPT ![c] = l]
        /\ \/ pc[c] = "new" /\ woken' = woken /\ l \in {"wakeup", "enter"} /\ (l = "wakeup" => c = Primary)
              /\ zone' = [zone EXCEPT ![c] = "none"]
              /\ boot_cpu' = [boot_cpu EXCEPT ![c] = FALSE]
           \/ pc[c] = "off" /\ woken' = woken \cup {c} /\ l = "new" /\ UNCHANGED <<zone, boot_cpu>>
           \/ pc[c] = "wakeup" /\ woken' = woken /\ l = "enter" /\ UNCHANGED <<zone, boot_cpu>>
  BY DEF New, CpuStart, AllStarted, Goto, PC, IInv, Places
<1>4. Shape'
  BY <1>1, <1>2, <1>3 DEF IInv, Shape
<1>5. pc[c] \notin Entered /\ l \notin Entered
  BY <1>3 DEF Entered, Ranged, Inited
<1>6. Counted'
  <2>1. /\ pc[c] \notin Ranged /\ l \notin Ranged
        /\ pc[c] \notin Inited /\ l \notin Inited
    BY <1>5 DEF Entered, Ranged
  <2>2. /\ entered' = entered + (IF pc[c] \notin Entered /\ l \in Entered THEN 1 ELSE 0)
        /\ parange_ok' = parange_ok + (IF pc[c] \notin Ranged /\ l \in Ranged THEN 1 ELSE 0)
        /\ inited' = inited + (IF pc[c] \notin Inited /\ l \in Inited THEN 1 ELSE 0)
    BY <1>2, <1>5, <2>1 DEF IInv, Shape
  <2> QED
    BY <1>3, <1>5, <2>1, <2>2, Recount DEF IInv
<1>7. early = 0
  <2>1. ~(parange_ok >= NCPU)
    BY <1>5, Barriers DEF IInv, Entered
  <2>2. early = 1 => pc[Primary] \in {"percpu"} \cup Inited
    BY DEF IInv, Places
  <2> QED
    BY <2>1, <2>2, BootAssumption DEF IInv, Shape, Places
<1>8. Places'
  BY <1>1, <1>2, <1>3, <1>7, BootAssumption DEF IInv, Shape, Places, Merged, Ranged, Inited, Ready
<1>9. Smallest'
  BY <1>1, <1>3 DEF IInv, Shape, Smallest, Merged, Ranged, Inited
<1>10. AssertionsHold'
  BY <1>3 DEF IInv, Shape, AssertionsHold
<1> QED
  BY <1>2, <1>4, <1>6, <1>7, <1>8, <1>9, <1>10 DEF IInv, RootZoneKept, ParangeFitsAll

(* The steps that add to a counter, and the merge of PARange before one.    *)
LEMMA CountStep ==
  ASSUME IInv, NEW c \in CPU, Enter(c) \/ Parange(c) \/ ParangeAdd(c) \/ PerCpuInit(c)
  PROVE  IInv'
<1>1. UNCHANGED <<woken, early, late, zone, boot_cpu, table_parange>>
  BY DEF Enter, Parange, ParangeAdd, PerCpuInit, counters
<1>2. PICK l \in PC :
        /\ pc' = [pc EXCEPT ![c] = l]
        /\ \/ /\ pc[c] = "enter" /\ l = "wait_entered" /\ entered' = entered + 1
              /\ UNCHANGED <<parange_ok, inited, min_parange>>
           \/ /\ pc[c] = "parange" /\ l = "parange_add" /\ UNCHANGED <<entered, parange_ok, inited>>
              /\ min_parange' = IF PaRange[c] < min_parange THEN PaRange[c] ELSE min_parange
           \/ /\ pc[c] = "parange_add" /\ l = "wait_parange" /\ parange_ok' = parange_ok + 1
              /\ UNCHANGED <<entered, inited, min_parange>>
           \/ /\ pc[c] = "percpu" /\ l = "wait_inited" /\ inited' = inited + 1
              /\ UNCHANGED <<entered, parange_ok, min_parange>>
  BY DEF Enter, Parange, ParangeAdd, PerCpuInit, counters, Goto, PC
<1>3. PaRange[c] \in 0 .. 7
  BY BootAssumption
<1>4. Shape'
  BY <1>1, <1>2, <1>3 DEF IInv, Shape
<1>5. Counted'
  <2>1. /\ pc[c] \in Entered => l \in Entered
        /\ pc[c] \in Ranged => l \in Ranged
        /\ pc[c] \in Inited => l \in Inited
        /\ entered' = entered + (IF pc[c] \notin Entered /\ l \in Entered THEN 1 ELSE 0)
        /\ parange_ok' = parange_ok + (IF pc[c] \notin Ranged /\ l \in Ranged THEN 1 ELSE 0)
        /\ inited' = inited + (IF pc[c] \notin Inited /\ l \in Inited THEN 1 ELSE 0)
    BY <1>2 DEF IInv, Shape, Entered, Ranged, Inited
  <2> QED
    BY <1>2, <2>1, Recount DEF IInv
<1>6. NCPU \in Nat
  BY Barriers DEF IInv
<1>7. Places'
  BY <1>1, <1>2, <1>6, BootAssumption DEF IInv, Shape, Places, Merged, Ranged, Inited, Ready
<1>8. Smallest'
  <2>1. \A d \in CPU : PaRange[d] \in 0 .. 6
    BY BootAssumption
  <2>2. CASE pc[c] = "parange"
    <3>1. /\ min_parange' = IF PaRange[c] < min_parange THEN PaRange[c] ELSE min_parange
          /\ min_parange \in 0 .. 7
      BY <1>2, <2>2 DEF IInv, Shape
    <3>2. min_parange' <= min_parange /\ min_parange' <= PaRange[c] /\ min_parange' \in 0 .. 7
      BY <2>1, <3>1
    <3>3. \A d \in CPU : d # c => pc'[d] = pc[d]
      BY <1>2 DEF IInv, Shape
    <3>4. \A d \in CPU : pc'[d] \in Merged => min_parange' <= PaRange[d]
      BY <2>1, <3>1, <3>2, <3>3 DEF IInv, Smallest
    <3>5. min_parange' = 7 \/ \E d \in CPU : min_parange' = PaRange[d]
      BY <3>1 DEF IInv, Smallest
    <3> QED
      BY <3>4, <3>5 DEF Smallest
  <2>3. CASE pc[c] # "parange"
    <3>1. min_parange' = min_parange /\ (l \in Merged => pc[c] \in Merged)
      BY <1>2, <2>3 DEF Merged, Ranged, Inited
    <3>2. \A d \in CPU : pc'[d] \in Merged => pc[d] \in Merged
      BY <1>2, <3>1 DEF IInv, Shape
    <3> QED
      BY <3>1, <3>2 DEF IInv, Smallest
  <2> QED
    BY <2>2, <2>3
<1>9. AssertionsHold'
  BY <1>2 DEF IInv, Shape, AssertionsHold
<1> QED
  BY <1>1, <1>4, <1>5, <1>7, <1>8, <1>9 DEF IInv, RootZoneKept, ParangeFitsAll

(* primary_init_early: every CPU has merged its PARange, so the assertion   *)
(* of get_parange_bits holds and the tables fit all of them, or the smallest*)
(* PARange is not in PARANGE_TABLE and the primary CPU panics.              *)
LEMMA EarlyStep == ASSUME IInv, InitEarly PROVE IInv'
<1>1. pc[Primary] = "early" /\ Primary \in CPU
  BY BootAssumption DEF InitEarly
<1>2. parange_ok = NCPU /\ \A d \in CPU : pc[d] \in Ranged
  <2>1. parange_ok >= NCPU
    BY <1>1 DEF IInv, Places
  <2> QED
    BY <2>1, Barriers DEF IInv, Shape
<1>3. PICK l \in {"percpu", "index"} :
        /\ pc' = [pc EXCEPT ![Primary] = l]
        /\ UNCHANGED <<woken, entered, parange_ok, inited, late, min_parange>>
        /\ \/ /\ l = "percpu" /\ table_parange' = min_parange /\ early' = 1
              /\ zone' = [c \in CPU |-> IF c \in RootCpus THEN "root" ELSE zone[c]]
              /\ boot_cpu' = [boot_cpu EXCEPT ![BootCpu] = TRUE]
           \/ l = "index" /\ UNCHANGED <<table_parange, zone, boot_cpu, early>>
  <2>1. UNCHANGED <<woken, entered, parange_ok, inited, late, min_parange>>
    BY DEF InitEarly
  <2>2. CASE min_parange \in PARANGE_TABLE
    <3>1. /\ pc' = [pc EXCEPT ![Primary] = "percpu"]
          /\ table_parange' = min_parange /\ early' = 1
          /\ zone' = [c \in CPU |-> IF c \in RootCpus THEN "root" ELSE zone[c]]
          /\ boot_cpu' = [boot_cpu EXCEPT ![BootCpu] = TRUE]
      BY <1>2, <2>2 DEF InitEarly, Goto
    <3> QED
      BY <2>1, <3>1
  <2>3. CASE min_parange \notin PARANGE_TABLE
    <3>1. /\ pc' = [pc EXCEPT ![Primary] = "index"]
          /\ UNCHANGED <<table_parange, zone, boot_cpu, early>>
      BY <1>2, <2>3 DEF InitEarly, Goto
    <3> QED
      BY <2>1, <3>1
  <2> QED
    BY <2>2, <2>3
<1>4. Shape'
  <2>1. /\ pc' \in [CPU -> PC] /\ woken' \subseteq CPU
        /\ entered' \in Nat /\ parange_ok' \in Nat /\ inited' \in Nat /\ late' \in 0 .. 1
        /\ min_parange' \in 0 .. 7 /\ table_parange' \in 0 .. 7
    BY <1>1, <1>3 DEF IInv, Shape, PC
  <2>2. early' \in 0 .. 1 /\ zone' \in [CPU -> {"stale", "none", "root"}] /\ boot_cpu' \in [CPU -> BOOLEAN]
    <3>1. CASE l = "percpu"
      <4>1. /\ early' = 1
            /\ zone' = [c \in CPU |-> IF c \in RootCpus THEN "root" ELSE zone[c]]
            /\ boot_cpu' = [boot_cpu EXCEPT ![BootCpu] = TRUE]
        BY <1>3, <3>1
      <4>2. zone' \in [CPU -> {"stale", "none", "root"}] /\ boot_cpu' \in [CPU -> BOOLEAN]
        BY <4>1 DEF IInv, Shape
      <4> QED
        BY <4>1, <4>2
    <3>2. CASE l = "index"
      BY <1>3, <3>2 DEF IInv, Shape
    <3> QED
      BY <3>1, <3>2
  <2> QED
    BY <2>1, <2>2 DEF Shape
<1>5. Counted'
  <2>1. /\ pc[Primary] \in Entered /\ l \in Entered
        /\ pc[Primary] \in Ranged /\ l \in Ranged
        /\ pc[Primary] \notin Inited /\ l \notin Inited /\ l \in PC
    BY <1>1 DEF Entered, Ranged, Inited, PC
  <2>2. /\ entered' = entered + (IF pc[Primary] \notin Entered /\ l \in Entered THEN 1 ELSE 0)
        /\ parange_ok' = parange_ok + (IF pc[Primary] \notin Ranged /\ l \in Ranged THEN 1 ELSE 0)
        /\ inited' = inited + (IF pc[Primary] \notin Inited /\ l \in Inited THEN 1 ELSE 0)
    BY <1>3, <2>1 DEF IInv, Shape
  <2> QED
    BY <1>1, <1>3, <2>1, <2>2, Recount DEF IInv
<1>6. Places'
  BY <1>1, <1>3 DEF IInv, Shape, Places, Merged, Ranged, Inited, Ready
<1>7. Smallest'
  BY <1>1, <1>3 DEF IInv, Shape, Smallest, Merged, Ranged, Inited
<1>8. ParangeFitsAll'
  <2>1. \A c \in CPU : PaRange[c] \in 0 .. 6 /\ min_parange <= PaRange[c]
    BY <1>2, BootAssumption DEF IInv, Smallest, Merged
  <2>2. min_parange \in 0 .. 7 /\ min_parange # 7
    BY <1>1, <2>1 DEF IInv, Shape
  <2> QED
    BY <1>3, <2>1, <2>2 DEF IInv, Smallest, ParangeFitsAll
<1>9. RootZoneKept'
  BY <1>3, BootAssumption DEF IInv, Shape, RootZoneKept
<1>10. AssertionsHold'
  BY <1>1, <1>3 DEF IInv, Shape, AssertionsHold
<1> QED
  BY <1>4, <1>5, <1>6, <1>7, <1>8, <1>9, <1>10 DEF IInv

(* primary_init_late                                                        *)
LEMMA LateStep == ASSUME IInv, InitLate PROVE IInv'
<1>1. pc[Primary] = "late" /\ Primary \in CPU
  BY BootAssumption DEF InitLate
<1>2. /\ late' = 1 /\ pc' = [pc EXCEPT ![Primary] = "run_vm"]
      /\ UNCHANGED <<woken, entered, parange_ok, inited, early, min_parange, zone, boot_cpu, table_parange>>
  BY DEF InitLate, Goto
<1>3. Shape'
  BY <1>1, <1>2 DEF IInv, Shape, PC
<1>4. Counted'
  <2>1. /\ pc[Primary] \in Entered /\ "run_vm" \in Entered
        /\ pc[Primary] \in Ranged /\ "run_vm" \in Ranged
        /\ pc[Primary] \in Inited /\ "run_vm" \in Inited /\ "run_vm" \in PC
    BY <1>1 DEF Entered, Ranged, Inited, PC
  <2>2. /\ entered' = entered + (IF pc[Primary] \notin Entered /\ "run_vm" \in Entered THEN 1 ELSE 0)
        /\ parange_ok' = parange_ok + (IF pc[Primary] \notin Ranged /\ "run_vm" \in Ranged THEN 1 ELSE 0)
        /\ inited' = inited + (IF pc[Primary] \notin Inited /\ "run_vm" \in Inited THEN 1 ELSE 0)
    BY <1>2, <2>1 DEF IInv, Shape
  <2> QED
    BY <1>1, <1>2, <2>1, <2>2, Recount DEF IInv
<1>5. Places'
  BY <1>1, <1>2 DEF IInv, Shape, Places, Merged, Ranged, Inited, Ready
<1>6. Smallest'
  BY <1>1, <1>2 DEF IInv, Shape, Smallest, Merged, Ranged, Inited
<1>7. AssertionsHold'
  BY <1>1, <1>2 DEF IInv, Shape, AssertionsHold
<1> QED
  BY <1>2, <1>3, <1>4, <1>5, <1>6, <1>7 DEF IInv, RootZoneKept, ParangeFitsAll

(* Every step of rust_main keeps IInv.                                      *)
LEMMA IInvStep == IInv /\ [Next]_vars => IInv'
<1> SUFFICES ASSUME IInv, [Next]_vars
             PROVE  IInv'
  OBVIOUS
<1>1. CASE PrimaryStep
  BY <1>1, BootAssumption, StartStep, EarlyStep, LateStep DEF PrimaryStep
<1>2. ASSUME NEW c \in CPU, Step(c)
      PROVE  IInv'
  BY <1>2, StartStep, MoveStep, CountStep DEF Step
<1>3. CASE UNCHANGED vars
  <2>1. UNCHANGED <<pc, woken, entered, parange_ok, inited, early, late, min_parange, zone,
                    boot_cpu, table_parange>>
    BY <1>3 DEF vars, counters
  <2> QED
    BY <2>1 DEF IInv, Shape, Counted, At, Places, Smallest, RootZoneKept, ParangeFitsAll, AssertionsHold
<1> QED
  BY <1>1, <1>2, <1>3 DEF Next

(* The firmware has entered hvisor on one CPU, and nothing is counted.      *)
LEMMA IInvInit == Init => IInv
<1> SUFFICES ASSUME Init
             PROVE  IInv
  OBVIOUS
<1>1. \A c \in CPU : pc[c] \in {"new", "off"}
  BY DEF Init
<1>2. Shape
  BY BootAssumption DEF Init, Shape, PC
<1>3. Counted
  <2>1. At(Entered) = {} /\ At(Ranged) = {} /\ At(Inited) = {}
    BY <1>1 DEF At, Entered, Ranged, Inited
  <2> QED
    BY <2>1, FS_EmptySet DEF Init, Counted
<1>4. Places
  BY BootAssumption DEF Init, Places, Merged, Ranged, Inited, Ready
<1>5. Smallest
  BY <1>1 DEF Init, Smallest, Merged, Ranged, Inited
<1>6. AssertionsHold
  BY <1>1 DEF AssertionsHold
<1> QED
  BY <1>2, <1>3, <1>4, <1>5, <1>6 DEF Init, IInv, RootZoneKept, ParangeFitsAll

(* The counters of main.rs stay within the number of CPUs, and every CPU is *)
(* at one of the places of rust_main.                                       *)
THEOREM BootTypes == Spec => []TypeOK
<1>1. IInv => TypeOK
  BY Barriers DEF IInv, Shape, TypeOK
<1> QED
  BY <1>1, IInvInit, IInvStep, PTL DEF Spec

(* However many CPUs there are and however they interleave: what            *)
(* zone_create writes into the PerCpu of other CPUs survives, since no CPU  *)
(* runs PerCpu::new once the barrier on ENTERED_CPUS is open; the root      *)
(* zone's tables are made for the smallest PARange; the assertions of       *)
(* rust_main and of get_parange_bits hold; and the root guest runs only     *)
(* when every CPU has initialised its interrupt controller, the barrier on  *)
(* INITED_CPUS being before the one on INIT_LATE_OK.                        *)
THEOREM RootReady == Spec => []RootZoneReady
<1>1. IInv => GuestAfterInit
  <2> SUFFICES ASSUME IInv, NEW c \in CPU, NEW d \in CPU, pc[c] = "guest"
               PROVE  pc[d] \in Inited /\ late = 1
    BY DEF GuestAfterInit, Inited
  <2>1. inited >= NCPU /\ late = 1
    BY DEF IInv, Places, Ready
  <2> QED
    BY <2>1, Barriers DEF IInv
<1>2. IInv => RootZoneReady
  BY <1>1 DEF IInv, RootZoneReady
<1> QED
  BY <1>2, IInvInit, IInvStep, PTL DEF Spec
-----------------------------------------------------------------------------
(* The least element of a set of frames or of indices.                      *)

(* Min picks the least element of a nonempty set of naturals.               *)
LEMMA LeastNat ==
  ASSUME NEW S, S \subseteq Nat, S # {}
  PROVE  /\ Min(S) \in S
         /\ \A y \in S : Min(S) <= y
<1> DEFINE R == OpToRel(<, Nat)
<1>1. IsWellFoundedOn(R, Nat) /\ R = {ss \in Nat \X Nat : ss[1] < ss[2]}
  BY NatLessThanWellFounded DEF OpToRel
<1> HIDE DEF R
<1>2. PICK t \in S : \A y \in S : ~(<<y, t>> \in R)
  BY <1>1, WFMin, Zenon
<1>3. ASSUME NEW y \in S
      PROVE  t <= y
  <2>1. <<y, t>> \in Nat \X Nat /\ <<y, t>>[1] = y /\ <<y, t>>[2] = t
    OBVIOUS
  <2>2. ~(y < t)
    BY <1>1, <1>2, <2>1, Zenon
  <2> QED
    BY <2>2
<1> QED
  BY <1>3 DEF Min

(* The least element is unchanged by larger ones.                           *)
LEMMA LeastKept ==
  ASSUME NEW S, S \subseteq Nat, S # {}, NEW n \in Nat, \A x \in S : x <= n
  PROVE  Min(S \cup {n}) = Min(S)
<1>1. Min(S) \in S /\ \A y \in S : Min(S) <= y
  BY LeastNat
<1>2. S \cup {n} \subseteq Nat /\ S \cup {n} # {}
  OBVIOUS
<1>3. Min(S \cup {n}) \in S \cup {n} /\ \A y \in S \cup {n} : Min(S \cup {n}) <= y
  BY <1>2, LeastNat
<1>4. Min(S) \in Nat /\ Min(S \cup {n}) \in Nat
  BY <1>1, <1>2, <1>3
<1>5. Min(S) <= Min(S \cup {n}) /\ Min(S \cup {n}) <= Min(S)
  BY <1>1, <1>3
<1> QED
  BY <1>4, <1>5
-----------------------------------------------------------------------------
(***************************************************************************)
(* FrameAlloc                                                               *)
(***************************************************************************)
(* Frames are runs <<start, count>>.                                        *)
Runs == Nat \X (Nat \ {0})

(* The places a Frame can be in: owned, or inside the constructor that a    *)
(* CPU runs.                                                                *)
Slot == {<<0, "held">>} \cup (Cpu \X {"tries", "current"})

Holding == [k \in Slot |-> IF k[2] = "held" THEN held
                           ELSE IF k[2] = "tries" THEN Tries(k[1]) ELSE Current(k[1])]

(* The accounts balance: h says which Frames each place holds, fr which     *)
(* frames of the pool are free.                                             *)
Balanced(h, fr) ==
  /\ \A k \in Slot : \A r \in h[k] : r \in Runs /\ Frames(r[1], r[2]) \subseteq Pool \ fr
  /\ \A k, l \in Slot : \A r \in h[k], q \in h[l] :
       k # l \/ r # q => Frames(r[1], r[2]) \cap Frames(q[1], q[2]) = {}
  /\ \A f \in Pool : f \in fr \/ \E k \in Slot : \E r \in h[k] : f \in Frames(r[1], r[2])

(* What a CPU can be doing: nothing, or a step of a constructor.            *)
Calls == [op : {"idle"}]
         \cup [op : {"first", "second", "probe", "four"}, tries : SUBSET Runs]
         \cup [op : {"filler"}, n : Nat \ {0}, tries : SUBSET Runs]
         \cup [op : {"misaligned", "found"}, s : Nat, tries : SUBSET Runs]
         \cup [op : {"ok"}, s : Nat, n : Nat \ {0}, tries : SUBSET Runs]

(* The inductive invariant.                                                 *)
FInv == /\ free \subseteq Pool /\ call \in [Cpu -> Calls] /\ held \subseteq Runs
        /\ Balanced(Holding, free)

(* A run of free frames that a place takes.                                 *)
LEMMA TakeKeeps ==
  ASSUME NEW h \in [Slot -> SUBSET Runs], NEW fr \in SUBSET Pool, Balanced(h, fr),
         NEW k \in Slot, NEW r \in Runs, Frames(r[1], r[2]) \subseteq fr
  PROVE  Balanced([h EXCEPT ![k] = @ \cup {r}], fr \ Frames(r[1], r[2]))
<1> DEFINE g == [h EXCEPT ![k] = @ \cup {r}]
           G == Frames(r[1], r[2])
<1> HIDE DEF Slot, Runs
<1>1. \A l \in Slot : g[l] = IF l = k THEN h[k] \cup {r} ELSE h[l]
  OBVIOUS
<1> HIDE DEF g
<1> USE DEF Balanced
<1>2. \A l \in Slot : \A q \in h[l] : Frames(q[1], q[2]) \cap G = {}
  OBVIOUS
<1>3. \A l \in Slot : \A q \in g[l] : q \in Runs /\ Frames(q[1], q[2]) \subseteq Pool \ (fr \ G)
  BY <1>1
<1>4. \A l, m \in Slot : \A p \in g[l], q \in g[m] :
        l # m \/ p # q => Frames(p[1], p[2]) \cap Frames(q[1], q[2]) = {}
  BY <1>1, <1>2
<1>5. \A f \in Pool : f \in fr \ G \/ \E l \in Slot : \E q \in g[l] : f \in Frames(q[1], q[2])
  BY <1>1
<1> QED
  BY <1>3, <1>4, <1>5 DEF g

(* Frames that a place gives back.                                          *)
LEMMA GiveKeeps ==
  ASSUME NEW h \in [Slot -> SUBSET Runs], NEW fr \in SUBSET Pool, Balanced(h, fr),
         NEW k \in Slot, NEW D \in SUBSET h[k]
  PROVE  Balanced([h EXCEPT ![k] = @ \ D], fr \cup UNION {Frames(r[1], r[2]) : r \in D})
<1> DEFINE g == [h EXCEPT ![k] = @ \ D]
           G == UNION {Frames(r[1], r[2]) : r \in D}
<1> HIDE DEF Slot, Runs
<1>1. \A l \in Slot : g[l] = IF l = k THEN h[k] \ D ELSE h[l]
  OBVIOUS
<1>2. \A f : f \in G <=> \E r \in D : f \in Frames(r[1], r[2])
  OBVIOUS
<1> HIDE DEF g, G
<1> USE DEF Balanced
<1>3. \A l \in Slot : \A q \in g[l] : q \in Runs /\ Frames(q[1], q[2]) \subseteq Pool \ (fr \cup G)
  BY <1>1, <1>2
<1>4. \A l, m \in Slot : \A p \in g[l], q \in g[m] :
        l # m \/ p # q => Frames(p[1], p[2]) \cap Frames(q[1], q[2]) = {}
  BY <1>1
<1>5. \A f \in Pool : f \in fr \cup G \/ \E l \in Slot : \E q \in g[l] : f \in Frames(q[1], q[2])
  BY <1>1, <1>2
<1> QED
  BY <1>3, <1>4, <1>5 DEF g, G

(* A Frame that goes from one place to another.                             *)
LEMMA MoveKeeps ==
  ASSUME NEW h \in [Slot -> SUBSET Runs], NEW fr \in SUBSET Pool, Balanced(h, fr),
         NEW k \in Slot, NEW l \in Slot, k # l, NEW r \in h[k]
  PROVE  Balanced([h EXCEPT ![k] = @ \ {r}, ![l] = @ \cup {r}], fr)
<1> DEFINE g == [h EXCEPT ![k] = @ \ {r}, ![l] = @ \cup {r}]
<1> HIDE DEF Slot, Runs
<1>1. \A m \in Slot : g[m] = IF m = k THEN h[k] \ {r} ELSE IF m = l THEN h[l] \cup {r} ELSE h[m]
  OBVIOUS
<1> HIDE DEF g
<1> USE DEF Balanced
<1>2. \A m \in Slot : \A q \in g[m] : q \in Runs /\ Frames(q[1], q[2]) \subseteq Pool \ fr
  BY <1>1
<1>3. \A n, m \in Slot : \A p \in g[n], q \in g[m] :
        n # m \/ p # q => Frames(p[1], p[2]) \cap Frames(q[1], q[2]) = {}
  BY <1>1
<1>4. \A f \in Pool : f \in fr \/ \E m \in Slot : \E q \in g[m] : f \in Frames(q[1], q[2])
  BY <1>1
<1> QED
  BY <1>2, <1>3, <1>4 DEF g

(* A place holds runs.                                                      *)
LEMMA HoldingType == FInv => Holding \in [Slot -> SUBSET Runs]
<1> SUFFICES ASSUME FInv, NEW k \in Slot
             PROVE  Holding[k] \in SUBSET Runs
  BY DEF Holding
<1>1. k = <<0, "held">> \/ \E c \in Cpu : k = <<c, "tries">> \/ k = <<c, "current">>
  BY DEF Slot
<1>2. CASE k = <<0, "held">>
  BY <1>2 DEF Holding, FInv
<1>3. ASSUME NEW c \in Cpu, k = <<c, "tries">> \/ k = <<c, "current">>
      PROVE  Holding[k] \in SUBSET Runs
  <2>1. call[c] \in Calls
    BY DEF FInv
  <2>2. Tries(c) \in SUBSET Runs
    BY <2>1 DEF Tries, Calls, NoCall
  <2>3. Current(c) \in SUBSET Runs
    BY <2>1, FrameAssumption DEF Current, Calls, Runs
  <2> QED
    BY <1>3, <2>2, <2>3 DEF Holding
<1> QED
  BY <1>1, <1>2, <1>3

(* What a step of CPU c can do with the Frames: take one, give back a set   *)
(* of them, or return the one its constructor has found.                    *)
Takes(x, y) == \E r \in Runs : /\ Frames(r[1], r[2]) \subseteq free
                              /\ free' = free \ Frames(r[1], r[2])
                              /\ y = x \cup {r}
Gives(x, y) == \E D \in SUBSET x : /\ free' = free \cup UNION {Frames(r[1], r[2]) : r \in D}
                                   /\ y = x \ D

(* The effect on the Frames of any step of CPU c.                           *)
Moves(c) ==
  /\ call' \in [Cpu -> Calls]
  /\ \A d \in Cpu : d # c => Tries(d)' = Tries(d) /\ Current(d)' = Current(d)
  /\ \/ UNCHANGED <<free, held, Tries(c), Current(c)>>
     \/ (Takes(held, held') \/ Gives(held, held')) /\ UNCHANGED <<Tries(c), Current(c)>>
     \/ (Takes(Tries(c), Tries(c)') \/ Gives(Tries(c), Tries(c)')) /\ UNCHANGED <<held, Current(c)>>
     \/ (Takes(Current(c), Current(c)') \/ Gives(Current(c), Current(c)')) /\ UNCHANGED <<held, Tries(c)>>
     \/ /\ Gives(Tries(c), {}) /\ Tries(c)' = {} /\ Current(c)' = {}
        /\ \E r \in Runs : Current(c) = {r} /\ held' = held \cup {r}

(* Each of these moves keeps the accounts balanced.                         *)
LEMMA MovesKeep ==
  ASSUME FInv, NEW c \in Cpu, Moves(c)
  PROVE  FInv'
<1> DEFINE H == <<0, "held">>
           T == <<c, "tries">>
           U == <<c, "current">>
<1>1. /\ H \in Slot /\ T \in Slot /\ U \in Slot /\ H # T /\ H # U /\ T # U
      /\ \A k \in Slot : k = H \/ k = T \/ k = U
           \/ \E d \in Cpu : d # c /\ (k = <<d, "tries">> \/ k = <<d, "current">>)
  BY DEF Slot
<1>2. /\ \A k \in Slot : k # H /\ k # T /\ k # U => Holding'[k] = Holding[k]
      /\ Holding[H] = held /\ Holding'[H] = held'
      /\ Holding[T] = Tries(c) /\ Holding'[T] = Tries(c)'
      /\ Holding[U] = Current(c) /\ Holding'[U] = Current(c)'
  BY <1>1 DEF Moves, Holding
<1>3. /\ Holding \in [Slot -> SUBSET Runs] /\ free \in SUBSET Pool /\ Balanced(Holding, free)
  BY HoldingType DEF FInv
<1>4. Holding' = [k \in Slot |-> Holding'[k]]
  BY DEF Holding
<1> HIDE DEF H, T, U
<1>5. ASSUME NEW k \in Slot, Takes(Holding[k], Holding'[k]),
             \A l \in Slot : l # k => Holding'[l] = Holding[l]
      PROVE  Balanced(Holding', free') /\ free' \subseteq Pool /\ Holding'[k] \subseteq Runs
  <2>1. PICK r \in Runs : /\ Frames(r[1], r[2]) \subseteq free
                         /\ free' = free \ Frames(r[1], r[2])
                         /\ Holding'[k] = Holding[k] \cup {r}
    BY <1>5 DEF Takes
  <2>2. Holding' = [Holding EXCEPT ![k] = @ \cup {r}]
    BY <1>3, <1>4, <1>5, <2>1
  <2> QED
    BY <1>3, <2>1, <2>2, TakeKeeps
<1>6. ASSUME NEW k \in Slot, Gives(Holding[k], Holding'[k]),
             \A l \in Slot : l # k => Holding'[l] = Holding[l]
      PROVE  Balanced(Holding', free') /\ free' \subseteq Pool /\ Holding'[k] \subseteq Runs
  <2>1. PICK D \in SUBSET Holding[k] : /\ free' = free \cup UNION {Frames(r[1], r[2]) : r \in D}
                                       /\ Holding'[k] = Holding[k] \ D
    BY <1>6 DEF Gives
  <2>2. Holding' = [Holding EXCEPT ![k] = @ \ D]
    BY <1>3, <1>4, <1>6, <2>1
  <2>3. \A r \in D : Frames(r[1], r[2]) \subseteq Pool
    BY <1>3 DEF Balanced
  <2> QED
    BY <1>3, <2>1, <2>2, <2>3, GiveKeeps
<1>7. CASE UNCHANGED <<free, held, Tries(c), Current(c)>>
  <2>1. Holding' = Holding
    BY <1>1, <1>2, <1>3, <1>4, <1>7
  <2> QED
    BY <1>3, <1>7, <2>1 DEF FInv, Moves
<1>8. CASE (Takes(held, held') \/ Gives(held, held')) /\ UNCHANGED <<Tries(c), Current(c)>>
  <2>1. \A l \in Slot : l # H => Holding'[l] = Holding[l]
    BY <1>2, <1>8
  <2>2. Takes(Holding[H], Holding'[H]) \/ Gives(Holding[H], Holding'[H])
    BY <1>2, <1>8
  <2> QED
    BY <1>1, <1>2, <1>5, <1>6, <2>1, <2>2 DEF FInv, Moves
<1>9. CASE (Takes(Tries(c), Tries(c)') \/ Gives(Tries(c), Tries(c)')) /\ UNCHANGED <<held, Current(c)>>
  <2>1. \A l \in Slot : l # T => Holding'[l] = Holding[l]
    BY <1>2, <1>9
  <2>2. Takes(Holding[T], Holding'[T]) \/ Gives(Holding[T], Holding'[T])
    BY <1>2, <1>9
  <2> QED
    BY <1>1, <1>2, <1>5, <1>6, <1>9, <2>1, <2>2 DEF FInv, Moves
<1>10. CASE (Takes(Current(c), Current(c)') \/ Gives(Current(c), Current(c)'))
            /\ UNCHANGED <<held, Tries(c)>>
  <2>1. \A l \in Slot : l # U => Holding'[l] = Holding[l]
    BY <1>2, <1>10
  <2>2. Takes(Holding[U], Holding'[U]) \/ Gives(Holding[U], Holding'[U])
    BY <1>2, <1>10
  <2> QED
    BY <1>1, <1>2, <1>5, <1>6, <1>10, <2>1, <2>2 DEF FInv, Moves
<1>11. CASE /\ Gives(Tries(c), {}) /\ Tries(c)' = {} /\ Current(c)' = {}
            /\ \E r \in Runs : Current(c) = {r} /\ held' = held \cup {r}
  <2>1. PICK D \in SUBSET Tries(c) : /\ free' = free \cup UNION {Frames(r[1], r[2]) : r \in D}
                                     /\ {} = Tries(c) \ D
    BY <1>11 DEF Gives
  <2>2. PICK r \in Runs : Current(c) = {r} /\ held' = held \cup {r}
    BY <1>11
  <2> DEFINE g == [Holding EXCEPT ![T] = @ \ D]
  <2>3. D \in SUBSET Holding[T] /\ \A q \in D : Frames(q[1], q[2]) \subseteq Pool
    BY <1>1, <1>2, <1>3, <2>1 DEF Balanced
  <2>4. Balanced(g, free') /\ free' \subseteq Pool
    BY <1>1, <1>3, <2>1, <2>3, GiveKeeps
  <2>5. g \in [Slot -> SUBSET Runs] /\ g[U] = {r} /\ g[H] = held /\ g[T] = {}
    BY <1>1, <1>2, <1>3, <2>1, <2>2
  <2>6. \A k \in Slot : k # H /\ k # T /\ k # U => g[k] = Holding[k]
    BY <1>3
  <2> HIDE DEF g
  <2>7. Balanced([g EXCEPT ![U] = @ \ {r}, ![H] = @ \cup {r}], free')
    BY <1>1, <2>4, <2>5, MoveKeeps
  <2>8. Holding' = [g EXCEPT ![U] = @ \ {r}, ![H] = @ \cup {r}]
    BY <1>1, <1>2, <1>4, <1>11, <2>2, <2>5, <2>6
  <2> QED
    BY <2>2, <2>4, <2>7, <2>8 DEF FInv, Moves
<1> QED
  BY <1>7, <1>8, <1>9, <1>10, <1>11 DEF Moves

(* What the allocator answers with is a run of free frames.                 *)
LEMMA AllocIsFree ==
  ASSUME FInv, NEW n \in Nat \ {0}, NEW s \in alloc_contiguous(n)
  PROVE  s \in Nat /\ <<s, n>> \in Runs /\ Frames(s, n) \subseteq free
<1> DEFINE S == {x \in free : Frames(x, n) \subseteq free}
<1>1. S # {} /\ s = Min(S)
  BY DEF alloc_contiguous
<1>2. S \subseteq Nat
  <2>1. Pool \subseteq Nat
    BY FrameAssumption DEF Pool
  <2> QED
    BY <2>1 DEF FInv
<1> HIDE DEF S
<1>3. s \in S
  BY <1>1, <1>2, LeastNat
<1> QED
  BY <1>2, <1>3 DEF S, Runs

(* A CPU that moves on to j only changes its own Frames.                    *)
LEMMA GotoOwn ==
  ASSUME FInv, NEW c \in Cpu, NEW j \in Calls, goto(c, j)
  PROVE  /\ call' \in [Cpu -> Calls] /\ call'[c] = j
         /\ \A d \in Cpu : d # c => Tries(d)' = Tries(d) /\ Current(d)' = Current(d)
<1>1. call' = [call EXCEPT ![c] = j] /\ call \in [Cpu -> Calls]
  BY DEF goto, FInv
<1>2. \A d \in Cpu : d # c => call'[d] = call[d]
  BY <1>1
<1> QED
  BY <1>1, <1>2 DEF Tries, Current

(* A run of free frames is taken.                                           *)
LEMMA TakesRun ==
  ASSUME NEW n \in Nat \ {0}, NEW s \in Nat, Frames(s, n) \subseteq free, take(s, n),
         NEW x, NEW y, y = x \cup {<<s, n>>}
  PROVE  Takes(x, y)
<1>1. <<s, n>> \in Runs /\ <<s, n>>[1] = s /\ <<s, n>>[2] = n
  BY DEF Runs
<1> QED
  BY <1>1 DEF Takes, take

(* The calls of a single allocation.                                        *)
LEMMA SingleSteps ==
  ASSUME FInv, NEW c \in Cpu, NewFrame(c) \/ \E f \in held : DropFrame(c, f)
  PROVE  Moves(c)
<1>1. UNCHANGED call /\ call \in [Cpu -> Calls]
  BY DEF NewFrame, DropFrame, FInv
<1>2. \A d \in Cpu : Tries(d)' = Tries(d) /\ Current(d)' = Current(d)
  BY <1>1 DEF Tries, Current
<1>3. CASE NewFrame(c)
  <2>1. PICK s \in alloc_contiguous(1) : take(s, 1) /\ held' = held \cup {<<s, 1>>}
    BY <1>3 DEF NewFrame
  <2>2. s \in Nat /\ Frames(s, 1) \subseteq free
    <3>1. 1 \in Nat \ {0}
      OBVIOUS
    <3> QED
      BY <3>1, AllocIsFree
  <2>3. Takes(held, held')
    BY <2>1, <2>2, TakesRun
  <2> QED
    BY <1>1, <1>2, <2>3 DEF Moves
<1>4. ASSUME NEW f \in held, DropFrame(c, f) PROVE Moves(c)
  <2>1. Gives(held, held')
    BY <1>4 DEF Gives, DropFrame, dealloc
  <2> QED
    BY <1>1, <1>2, <2>1 DEF Moves
<1> QED
  BY <1>3, <1>4

(* The constructors begin.                                                  *)
LEMMA BeginSteps ==
  ASSUME FInv, NEW c \in Cpu, WithBase(c) \/ New16(c)
  PROVE  Moves(c)
<1>1. PICK x \in {"first", "probe"} : goto(c, [op |-> x, tries |-> {}])
  BY DEF WithBase, New16
<1>2. [op |-> x, tries |-> {}] \in Calls
  BY DEF Calls
<1>3. /\ call' \in [Cpu -> Calls] /\ call'[c] = [op |-> x, tries |-> {}]
      /\ \A d \in Cpu : d # c => Tries(d)' = Tries(d) /\ Current(d)' = Current(d)
  BY <1>1, <1>2, GotoOwn
<1>4. call[c] = NoCall /\ UNCHANGED <<free, held>>
  BY DEF WithBase, New16
<1>5. Tries(c) = {} /\ Current(c) = {} /\ Tries(c)' = {} /\ Current(c)' = {}
  BY <1>3, <1>4 DEF Tries, Current, NoCall
<1> QED
  BY <1>3, <1>4, <1>5 DEF Moves

(* An allocation inside a constructor fails, and all it holds is dropped.   *)
LEMMA FailStep ==
  ASSUME FInv, NEW c \in Cpu, call[c].op \in {"first", "probe", "four"},
         dealloc(call[c].tries), goto(c, NoCall), UNCHANGED held
  PROVE  Moves(c)
<1>1. NoCall \in Calls
  BY DEF Calls, NoCall
<1>2. /\ call' \in [Cpu -> Calls] /\ call'[c] = NoCall
      /\ \A d \in Cpu : d # c => Tries(d)' = Tries(d) /\ Current(d)' = Current(d)
  BY <1>1, GotoOwn
<1>3. /\ Tries(c) = call[c].tries /\ Current(c) = {}
      /\ Tries(c)' = {} /\ Current(c)' = {}
  BY <1>2 DEF Tries, Current, NoCall
<1>4. Gives(Tries(c), Tries(c)')
  BY <1>3 DEF Gives, dealloc
<1> QED
  BY <1>2, <1>3, <1>4 DEF Moves

(* An allocation inside a constructor succeeds, and the run becomes the one *)
(* it looks at.                                                             *)
LEMMA FindStep ==
  ASSUME FInv, NEW c \in Cpu, call[c].op \in {"first", "second", "probe", "four"},
         NEW n \in Nat \ {0}, NEW s \in alloc_contiguous(n), take(s, n), UNCHANGED held,
         \/ goto(c, [op |-> "ok", s |-> s, n |-> n, tries |-> call[c].tries])
         \/ n = Count /\ goto(c, [op |-> "misaligned", s |-> s, tries |-> call[c].tries])
         \/ n = 1 /\ goto(c, [op |-> "found", s |-> s, tries |-> call[c].tries])
  PROVE  Moves(c)
<1>1. call[c] \in Calls /\ call[c].tries \in SUBSET Runs
  BY DEF FInv, Calls
<1>2. s \in Nat /\ <<s, n>> \in Runs /\ Frames(s, n) \subseteq free
  BY AllocIsFree
<1>3. PICK j \in Calls : /\ goto(c, j) /\ j.tries = call[c].tries /\ j # NoCall
                         /\ \/ j.op = "ok" /\ j.s = s /\ j.n = n
                            \/ j.op = "misaligned" /\ j.s = s /\ n = Count
                            \/ j.op = "found" /\ j.s = s /\ n = 1
  <2>1. /\ [op |-> "ok", s |-> s, n |-> n, tries |-> call[c].tries] \in Calls
        /\ [op |-> "misaligned", s |-> s, tries |-> call[c].tries] \in Calls
        /\ [op |-> "found", s |-> s, tries |-> call[c].tries] \in Calls
    BY <1>1, <1>2 DEF Calls
  <2> QED
    BY <2>1 DEF NoCall
<1>4. /\ call' \in [Cpu -> Calls] /\ call'[c] = j
      /\ \A d \in Cpu : d # c => Tries(d)' = Tries(d) /\ Current(d)' = Current(d)
  BY <1>3, GotoOwn
<1>5. Tries(c) = call[c].tries /\ Current(c) = {}
  BY DEF Tries, Current, NoCall
<1>6. Tries(c)' = Tries(c) /\ Current(c)' = {<<s, n>>}
  BY <1>3, <1>4, <1>5 DEF Tries, Current
<1>7. Takes(Current(c), Current(c)')
  BY <1>2, <1>5, <1>6, TakesRun
<1> QED
  BY <1>4, <1>6, <1>7 DEF Moves

(* The run looked at is dropped, and the constructor goes on.               *)
LEMMA DropStep ==
  ASSUME FInv, NEW c \in Cpu, Misaligned(c) \/ Found(c)
  PROVE  Moves(c)
<1>1. call[c] \in Calls /\ call[c].op \in {"misaligned", "found"}
  BY DEF FInv, Misaligned, Found
<1>2. call[c].s \in Nat /\ call[c].tries \in SUBSET Runs
  BY <1>1 DEF Calls
<1>3. Align - (call[c].s % Align) \in Nat \ {0}
  BY <1>2, FrameAssumption
<1>4. /\ [op |-> "filler", n |-> Align - (call[c].s % Align), tries |-> call[c].tries] \in Calls
      /\ [op |-> "four", tries |-> call[c].tries] \in Calls
  BY <1>2, <1>3 DEF Calls
<1>5. PICK j \in Calls : goto(c, j) /\ j.tries = call[c].tries /\ j.op \in {"filler", "four"}
  BY <1>4 DEF Misaligned, Found
<1>6. /\ call' \in [Cpu -> Calls] /\ call'[c] = j
      /\ \A d \in Cpu : d # c => Tries(d)' = Tries(d) /\ Current(d)' = Current(d)
  BY <1>5, GotoOwn
<1>7. Tries(c)' = Tries(c) /\ Current(c)' = {}
  BY <1>1, <1>5, <1>6 DEF Tries, Current, NoCall
<1>8. dealloc(Current(c)) /\ UNCHANGED held
  BY <1>1 DEF Misaligned, Found, Current
<1>9. Gives(Current(c), Current(c)')
  BY <1>7, <1>8 DEF Gives, dealloc
<1> QED
  BY <1>6, <1>7, <1>8, <1>9 DEF Moves

(* A run is put aside.                                                      *)
LEMMA AsideStep ==
  ASSUME FInv, NEW c \in Cpu, call[c].op \in {"probe", "filler"},
         NEW n \in Nat \ {0}, NEW s \in alloc_contiguous(n), take(s, n), UNCHANGED held,
         NEW x \in {"probe", "second"}, goto(c, [op |-> x, tries |-> call[c].tries \cup {<<s, n>>}])
  PROVE  Moves(c)
<1>1. call[c] \in Calls /\ call[c].tries \in SUBSET Runs
  BY DEF FInv, Calls
<1>2. s \in Nat /\ <<s, n>> \in Runs /\ Frames(s, n) \subseteq free
  BY AllocIsFree
<1> DEFINE j == [op |-> x, tries |-> call[c].tries \cup {<<s, n>>}]
<1>3. j \in Calls
  BY <1>1, <1>2 DEF Calls
<1>4. /\ call' \in [Cpu -> Calls] /\ call'[c] = j
      /\ \A d \in Cpu : d # c => Tries(d)' = Tries(d) /\ Current(d)' = Current(d)
  BY <1>3, GotoOwn
<1>5. /\ Tries(c) = call[c].tries /\ Current(c) = {} 
      /\ Tries(c)' = Tries(c) \cup {<<s, n>>} /\ Current(c)' = {}
  BY <1>4 DEF Tries, Current, NoCall
<1>6. Takes(Tries(c), Tries(c)')
  BY <1>2, <1>5, TakesRun
<1> QED
  BY <1>4, <1>5, <1>6 DEF Moves

(* The constructor goes on with what it had.                                *)
LEMMA AgainStep ==
  ASSUME FInv, NEW c \in Cpu, call[c].op \in {"filler", "second"}, UNCHANGED <<free, held>>,
         NEW x \in {"first", "second"}, goto(c, [op |-> x, tries |-> call[c].tries])
  PROVE  Moves(c)
<1>1. call[c] \in Calls /\ call[c].tries \in SUBSET Runs
  BY DEF FInv, Calls
<1> DEFINE j == [op |-> x, tries |-> call[c].tries]
<1>2. j \in Calls
  BY <1>1 DEF Calls
<1>3. /\ call' \in [Cpu -> Calls] /\ call'[c] = j
      /\ \A d \in Cpu : d # c => Tries(d)' = Tries(d) /\ Current(d)' = Current(d)
  BY <1>2, GotoOwn
<1>4. /\ Tries(c)' = Tries(c) /\ Current(c) = {} /\ Current(c)' = {}
  BY <1>3 DEF Tries, Current, NoCall
<1> QED
  BY <1>3, <1>4 DEF Moves

(* The run found becomes a Frame, and the runs put aside are dropped.       *)
LEMMA FrameReturns ==
  ASSUME FInv, NEW c \in Cpu, ReturnFrame(c)
  PROVE  Moves(c)
<1>1. call[c] \in Calls /\ call[c].op = "ok"
  BY DEF FInv, ReturnFrame
<1>2. /\ call[c].s \in Nat /\ call[c].n \in Nat \ {0} /\ call[c] # NoCall
      /\ Tries(c) = call[c].tries /\ Current(c) = {<<call[c].s, call[c].n>>}
  BY <1>1 DEF Calls, Tries, Current, NoCall
<1>3. NoCall \in Calls
  BY DEF Calls, NoCall
<1>4. /\ call' \in [Cpu -> Calls] /\ call'[c] = NoCall
      /\ \A d \in Cpu : d # c => Tries(d)' = Tries(d) /\ Current(d)' = Current(d)
  BY <1>3, GotoOwn DEF ReturnFrame
<1>5. Tries(c)' = {} /\ Current(c)' = {}
  BY <1>4 DEF Tries, Current, NoCall
<1>6. Gives(Tries(c), {})
  BY <1>2 DEF Gives, dealloc, ReturnFrame
<1>7. \E r \in Runs : Current(c) = {r} /\ held' = held \cup {r}
  BY <1>2 DEF Runs, ReturnFrame
<1> QED
  BY <1>4, <1>5, <1>6, <1>7 DEF Moves

(* Every step of every constructor is one of the moves.                     *)
LEMMA FInvStep == FInv /\ [FrameNext]_fvars => FInv'
<1> SUFFICES ASSUME FInv, [FrameNext]_fvars PROVE FInv'
  OBVIOUS
<1>1. CASE UNCHANGED fvars
  <2>1. Holding' = Holding /\ UNCHANGED <<free, held, call>>
    BY <1>1 DEF fvars, Holding, Tries, Current
  <2> QED
    BY <2>1 DEF FInv
<1>2. ASSUME NEW c \in Cpu, First(c) PROVE Moves(c)
  <2>1. call[c].op = "first" /\ UNCHANGED held /\ Count \in Nat \ {0}
    BY <1>2, FrameAssumption DEF First
  <2>2. CASE dealloc(call[c].tries) /\ goto(c, NoCall)
    BY <2>1, <2>2, FailStep
  <2>3. CASE ~(dealloc(call[c].tries) /\ goto(c, NoCall))
    <3>1. PICK s \in alloc_contiguous(Count) :
            /\ take(s, Count)
            /\ \/ goto(c, [op |-> "ok", s |-> s, n |-> Count, tries |-> call[c].tries])
               \/ goto(c, [op |-> "misaligned", s |-> s, tries |-> call[c].tries])
      BY <1>2, <2>3 DEF First
    <3> QED
      BY <2>1, <3>1, FindStep
  <2> QED
    BY <2>2, <2>3
<1>3. ASSUME NEW c \in Cpu, Filler(c) PROVE Moves(c)
  <2> DEFINE n == call[c].n
             t == {<<s, n>> : s \in alloc_contiguous(n)}
  <2>1. /\ call[c].op = "filler" /\ UNCHANGED held /\ n \in Nat \ {0}
        /\ free' = free \ UNION {Frames(f[1], f[2]) : f \in t}
        /\ goto(c, [op |-> "second", tries |-> call[c].tries \cup t])
    BY <1>3 DEF Filler, FInv, Calls
  <2> HIDE DEF n
  <2>2. CASE alloc_contiguous(n) = {}
    <3>1. t = {}
      BY <2>2
    <3>2. free' = free /\ goto(c, [op |-> "second", tries |-> call[c].tries])
      BY <2>1, <3>1
    <3> QED
      BY <2>1, <3>2, AgainStep
  <2>3. CASE alloc_contiguous(n) # {}
    <3>1. PICK s \in alloc_contiguous(n) : alloc_contiguous(n) = {s}
      BY <2>3 DEF alloc_contiguous
    <3>2. t = {<<s, n>>}
      BY <3>1
    <3>3. UNION {Frames(f[1], f[2]) : f \in t} = Frames(s, n)
      <4>1. \A x : x \in UNION {Frames(f[1], f[2]) : f \in t} <=> \E f \in t : x \in Frames(f[1], f[2])
        OBVIOUS
      <4>2. \A f : f \in t <=> f = <<s, n>>
        BY <3>2
      <4> DEFINE r == <<s, n>>
      <4>3. r[1] = s /\ r[2] = n /\ \A f : f \in t <=> f = r
        BY <4>2
      <4> HIDE DEF t, r
      <4>4. \A x : x \in UNION {Frames(f[1], f[2]) : f \in t} <=> x \in Frames(s, n)
        BY <4>1, <4>3
      <4> QED
        BY <4>4
    <3>4. take(s, n) /\ goto(c, [op |-> "second", tries |-> call[c].tries \cup {<<s, n>>}])
      BY <2>1, <3>2, <3>3 DEF take
    <3> QED
      BY <2>1, <3>4, AsideStep
  <2> QED
    BY <2>2, <2>3
<1>4. ASSUME NEW c \in Cpu, Second(c) PROVE Moves(c)
  <2>1. call[c].op = "second" /\ UNCHANGED held /\ Count \in Nat \ {0}
    BY <1>4, FrameAssumption DEF Second
  <2>2. CASE goto(c, [op |-> "first", tries |-> call[c].tries]) /\ UNCHANGED free
    BY <2>1, <2>2, AgainStep
  <2>3. CASE ~(goto(c, [op |-> "first", tries |-> call[c].tries]) /\ UNCHANGED free)
    <3>1. PICK s \in alloc_contiguous(Count) :
            take(s, Count) /\ goto(c, [op |-> "ok", s |-> s, n |-> Count, tries |-> call[c].tries])
      BY <1>4, <2>3 DEF Second
    <3> QED
      BY <2>1, <3>1, FindStep
  <2> QED
    BY <2>2, <2>3
<1>5. ASSUME NEW c \in Cpu, Probe(c) PROVE Moves(c)
  <2>1. call[c].op = "probe" /\ UNCHANGED held /\ 1 \in Nat \ {0}
    BY <1>5 DEF Probe
  <2>2. CASE dealloc(call[c].tries) /\ goto(c, NoCall)
    BY <2>1, <2>2, FailStep
  <2>3. CASE ~(dealloc(call[c].tries) /\ goto(c, NoCall))
    <3>1. PICK s \in alloc_contiguous(1) :
            /\ take(s, 1)
            /\ \/ goto(c, [op |-> "found", s |-> s, tries |-> call[c].tries])
               \/ goto(c, [op |-> "probe", tries |-> call[c].tries \cup {<<s, 1>>}])
      BY <1>5, <2>3 DEF Probe
    <3> QED
      BY <2>1, <3>1, FindStep, AsideStep
  <2> QED
    BY <2>2, <2>3
<1>6. ASSUME NEW c \in Cpu, Four(c) PROVE Moves(c)
  <2>1. call[c].op = "four" /\ UNCHANGED held /\ 4 \in Nat \ {0}
    BY <1>6 DEF Four
  <2>2. CASE dealloc(call[c].tries) /\ goto(c, NoCall)
    BY <2>1, <2>2, FailStep
  <2>3. CASE ~(dealloc(call[c].tries) /\ goto(c, NoCall))
    <3>1. PICK s \in alloc_contiguous(4) :
            take(s, 4) /\ goto(c, [op |-> "ok", s |-> s, n |-> 4, tries |-> call[c].tries])
      BY <1>6, <2>3 DEF Four
    <3> QED
      BY <2>1, <3>1, FindStep
  <2> QED
    BY <2>2, <2>3
<1> QED
  BY <1>1, <1>2, <1>3, <1>4, <1>5, <1>6, MovesKeep, SingleSteps, BeginSteps, DropStep, FrameReturns
     DEF FrameNext

(* The pool is free and nobody holds anything.                              *)
LEMMA FInvInit == FrameInit => FInv
<1> SUFFICES ASSUME FrameInit PROVE FInv
  OBVIOUS
<1>1. free = Pool /\ held = {} /\ call = [c \in Cpu |-> NoCall] /\ NoCall \in Calls
  BY DEF FrameInit, Calls, NoCall
<1>2. \A c \in Cpu : Tries(c) = {} /\ Current(c) = {}
  BY <1>1 DEF Tries, Current, NoCall
<1>3. \A k \in Slot : Holding[k] = {}
  BY <1>1, <1>2 DEF Slot, Holding
<1> QED
  BY <1>1, <1>3 DEF FInv, Balanced

(* For any number of CPUs, any pool and any size and alignment asked for,   *)
(* however the loops of new_16 and new_contiguous_with_base interleave and  *)
(* fail: every frame is free or part of exactly one Frame.  The locked calls*)
(* of the allocator only take free frames, and what a constructor put aside *)
(* is dropped on every path out of it.                                      *)
THEOREM FramesAreAccounted == FrameSpec => []FramesAccounted
<1>1. FInv => FramesAccounted
  <2> SUFFICES ASSUME FInv, NEW f \in Pool
               PROVE  Cardinality({r \in AllFrames : f \in Frames(r[1], r[2])}) = IF f \in free THEN 0 ELSE 1
    BY DEF FramesAccounted
  <2> DEFINE S == {r \in AllFrames : f \in Frames(r[1], r[2])}
  <2>1. \A r : r \in AllFrames <=> \E k \in Slot : r \in Holding[k]
    <3>1. \A r : r \in AllFrames <=> r \in held \/ \E c \in Cpu : r \in Tries(c) \/ r \in Current(c)
      BY DEF AllFrames
    <3>2. \A c \in Cpu : /\ <<c, "tries">> \in Slot /\ Holding[<<c, "tries">>] = Tries(c)
                         /\ <<c, "current">> \in Slot /\ Holding[<<c, "current">>] = Current(c)
      BY DEF Slot, Holding
    <3>3. <<0, "held">> \in Slot /\ Holding[<<0, "held">>] = held
      BY DEF Slot, Holding
    <3>4. \A k \in Slot : k = <<0, "held">> \/ \E c \in Cpu : k = <<c, "tries">> \/ k = <<c, "current">>
      BY DEF Slot
    <3> QED
      BY <3>1, <3>2, <3>3, <3>4
  <2>2. Balanced(Holding, free)
    BY DEF FInv
  <2>3. CASE f \in free
    <3>1. S = {}
      BY <2>1, <2>2, <2>3 DEF Balanced
    <3> QED
      BY <2>3, <3>1, FS_EmptySet
  <2>4. CASE f \notin free
    <3>1. PICK k \in Slot : \E r \in Holding[k] : f \in Frames(r[1], r[2])
      BY <2>2, <2>4 DEF Balanced
    <3>2. PICK r \in Holding[k] : f \in Frames(r[1], r[2])
      BY <3>1
    <3>3. \A q \in S : q = r
      BY <2>1, <2>2, <3>2 DEF Balanced
    <3>4. S = {r}
      BY <2>1, <3>2, <3>3
    <3> QED
      BY <2>4, <3>4, FS_Singleton
  <2> QED
    BY <2>3, <2>4
<1> QED
  BY <1>1, FInvInit, FInvStep, PTL DEF FrameSpec
-----------------------------------------------------------------------------
(***************************************************************************)
(* Pci                                                                      *)
(***************************************************************************)
(* Entries of phantom_devs.                                                 *)
Commands == SUBSET {"never", "intx_off", "master"}
Phantom  == [bdf : Others, command : Commands]

(* A zone writes the command register of another device only when it has a  *)
(* phantom entry, and the first entry is the one that holds what it wrote.  *)
PciInv ==
  /\ phantom \in Seq(Phantom) /\ configured \subseteq Devices
  /\ command \in [Devices \cup Others -> Commands] /\ written \in [Others -> Commands]
  /\ \A d \in Others : /\ command[d] \ Upper = PowerOn \ Upper
                       /\ d \notin reached => command[d] = PowerOn
                       /\ written[d] # Never => pdev(d) # {} /\ ReadCommand(d) = written[d]

(* No phantom entry, and no command written.                                *)
LEMMA PciInvInit == PciInit => PciInv
<1> SUFFICES ASSUME PciInit PROVE PciInv
  OBVIOUS
<1>1. PowerOn \in Commands /\ Never \in Commands
  BY DEF PowerOn, Never, Commands
<1>2. phantom = <<>> /\ phantom \in Seq(Phantom)
  BY DEF PciInit
<1> QED
  BY <1>1, <1>2 DEF PciInit, PciInv

(* A new phantom entry comes after those there are, whatever its command.   *)
LEMMA PushStep ==
  ASSUME PciInv, NEW e \in Others, NEW c \in Commands, push(e, c)
  PROVE  PciInv'
<1> DEFINE p == [bdf |-> e, command |-> c \ {"intx_off"}]
<1>1. p \in Phantom /\ phantom \in Seq(Phantom)
  BY DEF PciInv, Phantom, Commands
<1>2. phantom' = Append(phantom, p) /\ UNCHANGED <<configured, command, reached, written>>
  BY DEF push, barvars
<1> HIDE DEF p
<1>3. /\ phantom' \in Seq(Phantom) /\ DOMAIN phantom = 1 .. Len(phantom) /\ Len(phantom) \in Nat
      /\ DOMAIN phantom' = 1 .. Len(phantom) + 1 /\ phantom'[Len(phantom) + 1] = p
      /\ \A i \in DOMAIN phantom : phantom'[i] = phantom[i]
  BY <1>1, <1>2
<1>4. ASSUME NEW d \in Others, written[d] # Never
      PROVE  pdev(d)' # {} /\ ReadCommand(d)' = written[d]
  <2>1. pdev(d) # {} /\ ReadCommand(d) = written[d] /\ pdev(d) \subseteq 1 .. Len(phantom)
    BY <1>3, <1>4 DEF PciInv, pdev
  <2>2. pdev(d)' = pdev(d) \/ pdev(d)' = pdev(d) \cup {Len(phantom) + 1}
    BY <1>3 DEF pdev
  <2>3. \A x \in pdev(d) : x <= Len(phantom) + 1
    BY <1>3, <2>1
  <2>4. Min(pdev(d)') = Min(pdev(d))
    BY <1>3, <2>1, <2>2, <2>3, LeastKept
  <2>5. Min(pdev(d)) \in DOMAIN phantom
    BY <1>3, <2>1, LeastNat
  <2> QED
    BY <1>3, <2>1, <2>2, <2>4, <2>5 DEF ReadCommand
<1> QED
  BY <1>2, <1>3, <1>4 DEF PciInv

(* The first phantom entry of the device takes what is written; those of    *)
(* other devices are left alone.  The history has that value, or none.      *)
LEMMA SetCmdStep ==
  ASSUME PciInv, NEW e \in Others, NEW c \in Commands, set_cmd(e, c),
         written' = [written EXCEPT ![e] = c] \/ written' = [written EXCEPT ![e] = Never]
  PROVE  PciInv'
<1> DEFINE m == Min(pdev(e))
<1>1. /\ pdev(e) # {} /\ phantom' = [phantom EXCEPT ![m].command = c]
      /\ UNCHANGED <<configured, command, reached>>
  BY DEF set_cmd, barvars
<1>3. phantom \in Seq(Phantom) /\ DOMAIN phantom = 1 .. Len(phantom) /\ Len(phantom) \in Nat
  BY DEF PciInv
<1>4. m \in pdev(e) /\ m \in DOMAIN phantom /\ phantom[m].bdf = e
  <2>1. pdev(e) \subseteq DOMAIN phantom /\ pdev(e) \subseteq Nat
    BY <1>3 DEF pdev
  <2> QED
    BY <1>1, <2>1, LeastNat DEF pdev
<1> HIDE DEF m
<1>5. /\ \A i \in DOMAIN phantom : phantom[i] \in Phantom
      /\ phantom' = [phantom EXCEPT ![m] = [phantom[m] EXCEPT !.command = c]]
  BY <1>1, <1>3
<1>6. [phantom[m] EXCEPT !.command = c] \in Phantom
  BY <1>4, <1>5 DEF Phantom
<1>7. phantom' \in Seq(Phantom) /\ DOMAIN phantom' = DOMAIN phantom
  BY <1>3, <1>4, <1>5, <1>6
<1>8. /\ \A i \in DOMAIN phantom : phantom'[i].bdf = phantom[i].bdf
      /\ \A i \in DOMAIN phantom : i # m => phantom'[i] = phantom[i]
      /\ phantom'[m].command = c
  BY <1>3, <1>4, <1>5 DEF Phantom
<1>9. \A d \in Others : pdev(d)' = pdev(d)
  BY <1>7, <1>8 DEF pdev
<1>2. /\ written' \in [Others -> Commands]
      /\ \A d \in Others : d # e => written'[d] = written[d]
      /\ written'[e] \in {c, Never}
  BY DEF PciInv, Never, Commands
<1>10. ASSUME NEW d \in Others, written'[d] # Never
       PROVE  pdev(d)' # {} /\ ReadCommand(d)' = written'[d]
  <2>1. CASE d = e
    BY <1>1, <1>2, <1>8, <1>9, <1>10, <2>1 DEF ReadCommand, m
  <2>2. CASE d # e
    <3>1. written'[d] = written[d] /\ pdev(d) # {} /\ ReadCommand(d) = written[d]
      BY <1>2, <1>10, <2>2 DEF PciInv
    <3>2. Min(pdev(d)) \in pdev(d)
      <4>1. pdev(d) \subseteq Nat
        BY <1>3 DEF pdev
      <4> QED
        BY <3>1, <4>1, LeastNat
    <3>3. Min(pdev(d)) \in DOMAIN phantom /\ Min(pdev(d)) # m
      BY <1>4, <2>2, <3>2 DEF pdev
    <3> QED
      BY <1>8, <1>9, <3>1, <3>3 DEF ReadCommand
  <2> QED
    BY <2>1, <2>2
<1> QED
  BY <1>1, <1>2, <1>7, <1>10 DEF PciInv

(* The byte store at offset 5 changes the upper byte in hardware, and the   *)
(* history knows of it.                                                     *)
LEMMA UpperStep ==
  ASSUME PciInv, NEW e \in Others, NEW c \in Commands, WriteUpper(e, c)
  PROVE  PciInv'
<1>1. /\ command' = [command EXCEPT ![e] = (command[e] \ Upper) \cup (c \cap Upper)]
      /\ reached' = reached \cup {e} /\ written' = [written EXCEPT ![e] = Never]
      /\ UNCHANGED <<configured, phantom>>
  BY DEF WriteUpper, barvars
<1>2. (command[e] \ Upper) \cup (c \cap Upper) \in Commands /\ Never \in Commands
  BY DEF PciInv, Commands, Never
<1>3. command' \in [Devices \cup Others -> Commands] /\ written' \in [Others -> Commands]
  BY <1>1, <1>2 DEF PciInv
<1>4. /\ command'[e] = (command[e] \ Upper) \cup (c \cap Upper) /\ written'[e] = Never
      /\ \A d \in Others : d # e => command'[d] = command[d] /\ written'[d] = written[d]
  BY <1>1 DEF PciInv
<1>5. \A d \in Others : pdev(d)' = pdev(d) /\ ReadCommand(d)' = ReadCommand(d)
  BY <1>1 DEF pdev, ReadCommand
<1> QED
  BY <1>1, <1>3, <1>4, <1>5 DEF PciInv

(* Only the steps above touch phantom_devs or the command register of a     *)
(* device that is not the zone's.                                           *)
LEMMA PciInvStep == PciInv /\ [PciNext]_pcivars => PciInv'
<1> SUFFICES ASSUME PciInv, [PciNext]_pcivars PROVE PciInv'
  OBVIOUS
<1>1. ASSUME SetUp PROVE PciInv'
  <2>1. configured' \in {configured, Devices} /\ UNCHANGED <<command, phantom, reached, written>>
    BY <1>1, Zenon DEF SetUp, pci_init, pci_bars_register
  <2> QED
    BY <2>1 DEF PciInv, pdev, ReadCommand
<1>2. ASSUME NEW d \in Devices, NEW c \in Bits, AccessAssigned(d, c) PROVE PciInv'
  <2>1. \A e \in Others : command'[e] = command[e]
    BY <1>2, PciAssumption DEF AccessAssigned, PciInv
  <2>2. command' \in [Devices \cup Others -> Commands]
    BY <1>2 DEF AccessAssigned, PciInv, Bits, Commands
  <2>3. UNCHANGED <<configured, phantom, reached, written>>
    BY <1>2 DEF AccessAssigned, barvars
  <2>4. \A e \in Others : pdev(e)' = pdev(e) /\ ReadCommand(e)' = ReadCommand(e)
    BY <2>3 DEF pdev, ReadCommand
  <2>5. \A e \in Others : /\ command'[e] \ Upper = PowerOn \ Upper
                          /\ e \notin reached' => command'[e] = PowerOn
                          /\ written'[e] # Never => pdev(e)' # {} /\ ReadCommand(e)' = written'[e]
    BY <2>1, <2>3, <2>4, Zenon DEF PciInv
  <2> QED
    BY <2>2, <2>3, <2>5, Zenon DEF PciInv
<1>3. ASSUME UNCHANGED <<configured, command, phantom, reached, written>> PROVE PciInv'
  BY <1>3 DEF PciInv, pdev, ReadCommand
<1>4. CASE UNCHANGED pcivars \/ AtBars \/ \E d \in Others, v \in {0, 1} : AccessOther(d, v)
  BY <1>3, <1>4, Zenon DEF pcivars, barvars, AtBars, AccessBar, AccessOther
<1>5. ASSUME NEW d \in Others, NEW c \in Bits,
             \/ HeaderWindow(d, c) \/ WriteCommand(d, c)
             \/ WriteLower(d, c) \/ WriteUpper(d, c) \/ WriteWindow(d, c)
      PROVE  PciInv'
  <2>1. c \in Commands /\ c \ Upper \in Commands
    BY DEF Bits, Commands
  <2> QED
    BY <1>5, <2>1, PushStep, SetCmdStep, UpperStep DEF HeaderWindow, WriteCommand, WriteLower, WriteWindow
<1>6. ASSUME NEW d \in Others, Header(d) PROVE PciInv'
  <2>1. command[d] \in Commands
    BY DEF PciInv
  <2> QED
    BY <1>6, <2>1, PushStep DEF Header
<1>7. CASE AtOther
  BY <1>2, <1>4, <1>5, <1>6, <1>7 DEF AtOther
<1> QED
  BY <1>1, <1>4, <1>7 DEF PciNext

(* For any devices, and however often the zone probes the bus: what it      *)
(* makes the command register of a device that is not its own by one store  *)
(* is what it reads back, since a lookup takes the first phantom entry and  *)
(* new entries come after it; in hardware nothing but the upper byte of the *)
(* register changes, and that by a byte store alone.                        *)
THEOREM CommandsAreVirtual == PciSpec => []CommandIsVirtual
<1>1. PciInv => CommandIsVirtual
  BY DEF PciInv, CommandIsVirtual
<1> QED
  BY <1>1, PciInvInit, PciInvStep, PTL DEF PciSpec

(* Division with remainder.                                                 *)
LEMMA DivMod ==
  ASSUME NEW a \in Nat, NEW b \in Nat \ {0}
  PROVE  /\ a \div b \in Nat /\ a % b \in 0 .. b - 1
         /\ a = b * (a \div b) + (a % b)
OBVIOUS

(* The quotient and the remainder are the only ones.                        *)
LEMMA DivModIs ==
  ASSUME NEW b \in Nat \ {0}, NEW q \in Nat, NEW r \in 0 .. b - 1
  PROVE  (b * q + r) \div b = q /\ (b * q + r) % b = r
OBVIOUS

(* A bit and the bits above it: 2^W is an even multiple of 2^k.             *)
LEMMA EvenMultiple ==
  ASSUME NEW k \in 0 .. W - 1
  PROVE  \E q \in Nat \ {0} : 2 ^ W = 2 ^ k * (2 * q)
<1>1. W \in Nat /\ k \in Nat /\ W - k - 1 \in Nat /\ k + ((W - k - 1) + 1) = W
  BY PciAssumption
<1>2. 2 ^ W = 2 ^ k * 2 ^ ((W - k - 1) + 1)
  <2>1. (W - k - 1) + 1 \in Nat
    BY <1>1
  <2>2. 2 ^ (k + ((W - k - 1) + 1)) = 2 ^ k * 2 ^ ((W - k - 1) + 1)
    BY <1>1, <2>1, PowerSum
  <2> QED
    BY <1>1, <2>2
<1>3. 2 ^ ((W - k - 1) + 1) = 2 * 2 ^ (W - k - 1)
  BY <1>1, PowerDouble
<1>4. 2 ^ (W - k - 1) \in Nat \ {0}
  BY <1>1, PowerPositive
<1> QED
  BY <1>2, <1>3, <1>4

(* In a number within 2^k of 2^W bit k is set.                              *)
LEMMA HighBit ==
  ASSUME NEW k \in 0 .. W - 1, NEW v \in Nat, v < 2 ^ W, v >= 2 ^ W - 2 ^ k
  PROVE  (v \div 2 ^ k) % 2 = 1
<1> DEFINE p == 2 ^ k
<1>1. p \in Nat \ {0}
  BY PowerPositive
<1>2. PICK q \in Nat \ {0} : 2 ^ W = p * (2 * q)
  BY EvenMultiple
<1> HIDE DEF p
<1>3. p * (2 * q) = p * (2 * q - 1) + p /\ p * (2 * q - 1) \in Nat
  BY <1>1
<1> DEFINE r == v - p * (2 * q - 1)
<1>4. r \in 0 .. p - 1 /\ v = p * (2 * q - 1) + r /\ 2 * q - 1 \in Nat
  BY <1>1, <1>2, <1>3 DEF p
<1> HIDE DEF r
<1>5. v \div p = 2 * q - 1
  BY <1>1, <1>4, DivModIs
<1>6. (2 * q - 1) % 2 = 1
  OBVIOUS
<1> QED
  BY <1>5, <1>6 DEF p

(* In what a BAR of size 2^(k+1) answers bit k is not set.                  *)
LEMMA ZeroBit ==
  ASSUME NEW k \in 0 .. W - 2, NEW t \in 0 .. 2 ^ k - 1, NEW v, v = 2 ^ W - 2 ^ (k + 1) + t
  PROVE  (v \div 2 ^ k) % 2 = 0
<1> DEFINE p == 2 ^ k
<1>1. p \in Nat \ {0} /\ 2 ^ (k + 1) = 2 * p
  BY PowerPositive, PowerDouble
<1>2. PICK q \in Nat \ {0} : 2 ^ W = p * (2 * q)
  <2>1. k \in 0 .. W - 1
    BY PciAssumption
  <2> QED
    BY <2>1, EvenMultiple
<1>3. t \in 0 .. p - 1
  OBVIOUS
<1> HIDE DEF p
<1>4. v = p * (2 * q - 2) + t /\ 2 * q - 2 \in Nat
  <2>1. p * (2 * q) = p * (2 * q - 2) + 2 * p
    BY <1>1
  <2> QED
    BY <1>1, <1>2, <2>1
<1>5. v \div p = 2 * q - 2
  BY <1>1, <1>3, <1>4, DivModIs
<1>6. (2 * q - 2) % 2 = 0
  OBVIOUS
<1> QED
  BY <1>5, <1>6 DEF p

(* The bits that stayed zero, and the size that bar_init has from them.     *)
Zeros(v)   == {k \in 0 .. W - 1 : (v \div 2 ^ k) % 2 = 0}
probed(v)  == IF Zeros(v) = {} THEN 1 ELSE IF Max(Zeros(v)) = W - 1 THEN 0 ELSE 2 ^ (Max(Zeros(v)) + 1)

(* Max is the largest element.                                              *)
LEMMA Largest ==
  ASSUME NEW S \in SUBSET Int, NEW m \in S, \A x \in S : x <= m
  PROVE  Max(S) = m
<1>1. \A x \in S : m >= x
  OBVIOUS
<1>2. \A n \in S : (\A x \in S : n >= x) => n = m
  <2>1. \A a, b \in Int : a >= b /\ b >= a => a = b
    OBVIOUS
  <2> QED
    BY <1>1, <2>1
<1> QED
  BY <1>1, <1>2 DEF Max

(* Of a BAR of size 2^s with fewer type bits than s - 1 the probe finds the *)
(* size.                                                                    *)
LEMMA ProbedSize ==
  ASSUME NEW s \in 1 .. W - 1, NEW t \in 0 .. 2 ^ (s - 1) - 1
  PROVE  probed(2 ^ W - 2 ^ s + t) = 2 ^ s
<1> DEFINE v == 2 ^ W - 2 ^ s + t
<1>1. W \in Nat \ {0} /\ s \in Nat /\ s - 1 \in Nat /\ (s - 1) + 1 = s
  BY PciAssumption
<1>2. /\ 2 ^ W \in Nat /\ 2 ^ s \in Nat /\ 2 ^ s <= 2 ^ W /\ 2 ^ s = 2 * 2 ^ (s - 1)
      /\ 2 ^ (s - 1) \in Nat
  <2>1. s <= W
    BY <1>1
  <2>2. 2 ^ ((s - 1) + 1) = 2 * 2 ^ (s - 1)
    BY <1>1, PowerDouble
  <2> QED
    BY <1>1, <2>1, <2>2, PowerGrows, PowerPositive
<1>3. v \in Nat /\ v < 2 ^ W /\ v >= 2 ^ W - 2 ^ s
  <2> DEFINE a == 2 ^ W  b == 2 ^ s  c == 2 ^ (s - 1)
  <2>1. a \in Nat /\ b \in Nat /\ b <= a /\ b = 2 * c /\ c \in Nat /\ t \in 0 .. c - 1 /\ v = a - b + t
    BY <1>2
  <2> HIDE DEF a, b, c, v
  <2>2. v \in Nat /\ v < a /\ v >= a - b
    BY <2>1
  <2> QED
    BY <2>2 DEF a, b
<1>4. s - 1 \in Zeros(v)
  <2>1. s - 1 \in 0 .. W - 2 /\ s - 1 \in 0 .. W - 1
    BY <1>1
  <2>2. v = 2 ^ W - 2 ^ ((s - 1) + 1) + t
    BY <1>1
  <2>3. (v \div 2 ^ (s - 1)) % 2 = 0
    BY <2>1, <2>2, ZeroBit
  <2> QED
    BY <2>1, <2>3 DEF Zeros
<1>5. ASSUME NEW k \in Zeros(v), ~(k <= s - 1) PROVE FALSE
  <2>1. k \in 0 .. W - 1 /\ (v \div 2 ^ k) % 2 = 0 /\ k \in Nat
    BY DEF Zeros
  <2>2. s <= k
    BY <1>1, <1>5, <2>1
  <2>3. 2 ^ k \in Nat /\ 2 ^ s <= 2 ^ k
    BY <1>1, <2>1, <2>2, PowerGrows
  <2>4. v >= 2 ^ W - 2 ^ k
    BY <1>2, <1>3, <2>3
  <2>5. (v \div 2 ^ k) % 2 = 1
    BY <1>3, <2>1, <2>4, HighBit
  <2> QED
    BY <2>1, <2>5
<1>6. Zeros(v) \in SUBSET Int
  BY DEF Zeros
<1> HIDE DEF v
<1>7. Max(Zeros(v)) = s - 1
  BY <1>4, <1>5, <1>6, Largest
<1>8. s - 1 # W - 1
  BY <1>1
<1> QED
  BY <1>1, <1>4, <1>7, <1>8 DEF probed, v

(* The upper half of a 64-bit BAR answers ones only.                        *)
LEMMA ProbedOnes == probed(2 ^ W - 1) = 1
<1>1. W \in Nat \ {0} /\ 2 ^ W \in Nat \ {0}
  BY PciAssumption, PowerPositive
<1>2. ASSUME NEW k \in Zeros(2 ^ W - 1) PROVE FALSE
  <2>1. k \in 0 .. W - 1 /\ ((2 ^ W - 1) \div 2 ^ k) % 2 = 0
    BY DEF Zeros
  <2>2. 2 ^ k \in Nat \ {0}
    BY <2>1, PowerPositive
  <2>3. 2 ^ W - 1 \in Nat /\ 2 ^ W - 1 < 2 ^ W /\ 2 ^ W - 1 >= 2 ^ W - 2 ^ k
    BY <1>1, <2>2
  <2>4. ((2 ^ W - 1) \div 2 ^ k) % 2 = 1
    BY <2>1, <2>3, HighBit
  <2> QED
    BY <2>1, <2>4
<1>3. Zeros(2 ^ W - 1) = {}
  BY <1>2
<1> QED
  BY <1>3 DEF probed

(* A register without a BAR answers zeros only.                             *)
LEMMA ProbedNone == probed(0) = 0
<1>1. W \in Nat \ {0}
  BY PciAssumption
<1>2. \A k \in 0 .. W - 1 : (0 \div 2 ^ k) % 2 = 0
  <2> SUFFICES ASSUME NEW k \in 0 .. W - 1 PROVE (0 \div 2 ^ k) % 2 = 0
    OBVIOUS
  <2>1. 2 ^ k \in Nat \ {0}
    BY PowerPositive
  <2>2. \A p \in Nat \ {0} : (0 \div p) % 2 = 0
    OBVIOUS
  <2> QED
    BY <2>1, <2>2
<1>3. Zeros(0) = 0 .. W - 1
  BY <1>2 DEF Zeros
<1>4. W - 1 \in Zeros(0) /\ Zeros(0) \in SUBSET Int /\ \A x \in Zeros(0) : x <= W - 1
  BY <1>1, <1>3
<1>5. Max(Zeros(0)) = W - 1
  BY <1>4, Largest
<1> QED
  BY <1>4, <1>5 DEF probed

(* bar_init by its parts.                                                   *)
LEMMA BarInit ==
  ASSUME NEW o, NEW v
  PROVE  /\ bar_init(o, v).val = o /\ bar_init(o, v).size = probed(v)
         /\ bar_init(o, v).bar_type = IF o % 2 = 1 THEN "IO"
                                      ELSE CASE (o \div 2) % 4 = 0 -> "Mem32"
                                             [] (o \div 2) % 4 = 2 -> "Mem64"
                                             [] OTHER -> "Unknown"
<1>1. probed(v) = LET zeros == {k \in 0 .. W - 1 : (v \div 2 ^ k) % 2 = 0} IN
                    IF zeros = {} THEN 1 ELSE IF Max(zeros) = W - 1 THEN 0 ELSE 2 ^ (Max(zeros) + 1)
  BY Zenon DEF probed, Zeros
<1> QED
  BY <1>1, Zenon DEF bar_init

up(n) == IF n < PAGE THEN PAGE ELSE n   \* at least a page

(* A page is a multiple of what the type bits of a BAR can count to.        *)
LEMMA PageIs ==
  /\ PAGE \in Nat \ {0} /\ PAGE >= 16
  /\ \E m \in Nat \ {0} : PAGE = 16 * m
<1>1. PICK p \in 4 .. PAGE : PAGE = 2 ^ p
  BY PciAssumption
<1>2. 4 \in Nat /\ p \in Nat /\ 4 <= p
  BY <1>1, PciAssumption
<1>3. PICK m \in Nat \ {0} : 2 ^ p = 2 ^ 4 * m
  BY <1>2, PowerGrows
<1>4. PAGE = 16 * m
  BY <1>1, <1>3, SmallPowers
<1> QED
  BY <1>4

(* The address of a BAR has no bits where its type bits are.                *)
LEMMA AddressIs ==
  ASSUME NEW a \in Nat, NEW s \in Nat, NEW l \in Nat, l <= s, a % (2 ^ s) = 0
  PROVE  \E q \in Nat : a = 2 ^ l * q
<1>1. PICK n \in Nat \ {0} : 2 ^ s = 2 ^ l * n
  BY PowerGrows
<1>2. 2 ^ s \in Nat \ {0} /\ 2 ^ l \in Nat
  BY PowerPositive
<1> DEFINE k == a \div 2 ^ s  x == 2 ^ l  y == 2 ^ s
<1>3. k \in Nat /\ a = y * k
  <2>1. a % y = 0 /\ y \in Nat \ {0} /\ k = a \div y
    BY <1>2
  <2> HIDE DEF y, k
  <2>2. a \div y \in Nat /\ a = y * (a \div y) + (a % y)
    BY <2>1, DivMod
  <2> QED
    BY <2>1, <2>2
<1>4. a = x * (n * k) /\ n * k \in Nat
  <2>1. x \in Nat /\ k \in Nat /\ a = y * k /\ y = x * n
    BY <1>1, <1>2, <1>3
  <2> HIDE DEF x, y, k
  <2> QED
    BY <2>1
<1> QED
  BY <1>4

(* What the probe finds, r, of a memory BAR and of an I/O BAR of size 2^s   *)
(* at address a.                                                            *)
MemoryFound(r, a, s, t) ==
  /\ r.val = a + t /\ r.size \in Nat \ {0} /\ up(r.size) = up(2 ^ s)
  /\ r.bar_type = IF t = 0 THEN "Mem32" ELSE "Mem64"
  /\ a % 16 = 0 /\ (a + t) - ((a + t) % 16) = a
IoFound(r, a, s) ==
  /\ r.val = a + 1 /\ r.size = 2 ^ s /\ r.size \in Nat \ {0} /\ r.bar_type = "IO"
  /\ (a + 1) - ((a + 1) % 16) = a - (a % 16)

(* What the probe finds of a memory BAR: its kind, its size (of a 64-bit    *)
(* BAR of 16 bytes, whose type bits look like address bits, 4) and address. *)
LEMMA MemoryProbed ==
  ASSUME NEW s \in 4 .. W - 1, NEW a \in Nat, a % (2 ^ s) = 0, NEW t \in {0, 12},
         NEW r, r = bar_init(a + t, 2 ^ W - 2 ^ s + t)
  PROVE  MemoryFound(r, a, s, t)
<1> DEFINE v == 2 ^ W - 2 ^ s + t
<1>0. W \in Nat \ {0} /\ s \in Nat /\ 4 \in Nat /\ 4 <= s
  BY PciAssumption
<1>1. PICK q \in Nat : a = 16 * q
  <2>1. PICK q \in Nat : a = 2 ^ 4 * q
    BY <1>0, AddressIs
  <2> QED
    BY <2>1, SmallPowers
<1>2. /\ a % 16 = 0 /\ (a + t) % 16 = t /\ (a + t) % 2 = 0
      /\ (t = 0 => ((a + t) \div 2) % 4 = 0) /\ (t = 12 => ((a + t) \div 2) % 4 = 2)
  BY <1>1
<1>3. r.val = a + t /\ r.size = probed(v) /\ r.bar_type = IF t = 0 THEN "Mem32" ELSE "Mem64"
  <2>0. r = bar_init(a + t, v)
    OBVIOUS
  <2> HIDE DEF v
  <2>1. /\ r.val = a + t /\ r.size = probed(v)
        /\ r.bar_type = IF (a + t) % 2 = 1 THEN "IO"
                        ELSE CASE ((a + t) \div 2) % 4 = 0 -> "Mem32"
                               [] ((a + t) \div 2) % 4 = 2 -> "Mem64"
                               [] OTHER -> "Unknown"
    BY <2>0, BarInit
  <2>2. CASE t = 0
    <3>1. (a + t) % 2 # 1 /\ ((a + t) \div 2) % 4 = 0 /\ ((a + t) \div 2) % 4 # 2
      BY <1>2, <2>2
    <3> QED
      BY <2>1, <2>2, <3>1
  <2>3. CASE t = 12
    <3>1. (a + t) % 2 # 1 /\ ((a + t) \div 2) % 4 = 2 /\ ((a + t) \div 2) % 4 # 0
      BY <1>2, <2>3
    <3> QED
      BY <2>1, <2>3, <3>1
  <2> QED
    BY <2>2, <2>3
<1>4. probed(v) \in Nat \ {0} /\ up(probed(v)) = up(2 ^ s)
  <2>1. 2 ^ s \in Nat \ {0}
    BY <1>0, PowerPositive
  <2>2. CASE t \in 0 .. 2 ^ (s - 1) - 1
    <3>1. s \in 1 .. W - 1
      BY <1>0
    <3>2. probed(v) = 2 ^ s
      BY <2>2, <3>1, ProbedSize
    <3> QED
      BY <2>1, <3>2
  <2>3. CASE t \notin 0 .. 2 ^ (s - 1) - 1
    <3>1. s = 4
      <4> SUFFICES ASSUME s # 4 PROVE FALSE
        OBVIOUS
      <4>1. 4 <= s - 1 /\ s - 1 \in Nat /\ 4 \in Nat
        BY <1>0
      <4>2. 2 ^ 4 <= 2 ^ (s - 1) /\ 2 ^ (s - 1) \in Nat
        BY <4>1, PowerGrows
      <4> QED
        BY <2>3, <4>2, SmallPowers
    <3>2. t = 12
      <4>1. 2 ^ (s - 1) \in Nat \ {0}
        BY <1>0, PowerPositive
      <4> QED
        BY <2>3, <4>1
    <3>3. 2 ^ 4 = 16 /\ 2 ^ 2 = 4 /\ 2 ^ 1 = 2
      BY SmallPowers
    <3>4. 2 ^ W \in Nat
      BY <1>0, PowerPositive
    <3>5. v = 2 ^ W - 2 ^ 2 + 0
      BY <3>1, <3>2, <3>3, <3>4
    <3>6. 2 \in 1 .. W - 1 /\ 0 \in 0 .. 2 ^ (2 - 1) - 1
      BY <1>0, <3>3
    <3>7. probed(v) = 2 ^ 2
      BY <3>5, <3>6, ProbedSize
    <3>8. up(4) = up(16)
      BY PageIs DEF up
    <3> QED
      BY <3>1, <3>3, <3>7, <3>8
  <2> QED
    BY <2>2, <2>3
<1> QED
  BY <1>2, <1>3, <1>4 DEF MemoryFound

(* What the probe finds of an I/O BAR.                                      *)
LEMMA IoProbed ==
  ASSUME NEW s \in 2 .. W - 1, NEW a \in Nat, a % (2 ^ s) = 0,
         NEW r, r = bar_init(a + 1, 2 ^ W - 2 ^ s + 1)
  PROVE  IoFound(r, a, s)
<1>0. W \in Nat \ {0} /\ s \in Nat /\ 2 \in Nat /\ 2 <= s /\ s \in 1 .. W - 1 /\ s - 1 \in Nat
  BY PciAssumption
<1>1. PICK q \in Nat : a = 4 * q
  <2>1. PICK q \in Nat : a = 2 ^ 2 * q
    BY <1>0, AddressIs
  <2> QED
    BY <2>1, SmallPowers
<1>2. (a + 1) % 2 = 1 /\ (a + 1) - ((a + 1) % 16) = a - (a % 16)
  BY <1>1
<1>3. 1 \in 0 .. 2 ^ (s - 1) - 1
  <2>1. 1 \in Nat /\ 1 <= s - 1
    BY <1>0
  <2>2. 2 ^ 1 <= 2 ^ (s - 1) /\ 2 ^ (s - 1) \in Nat
    BY <1>0, <2>1, PowerGrows
  <2> QED
    BY <2>2, SmallPowers
<1>4. probed(2 ^ W - 2 ^ s + 1) = 2 ^ s
  BY <1>0, <1>3, ProbedSize
<1>5. 2 ^ s \in Nat \ {0}
  BY <1>0, PowerPositive
<1> QED
  BY <1>2, <1>4, <1>5, BarInit DEF IoFound
(* The registers of WellFormed BARs as bars_init finds them: those that a   *)
(* BAR begins with ...                                                      *)
LEMMA OwnProbed ==
  ASSUME NEW bs \in Seq(BAR), WellFormed(bs), NEW i \in Own(bs), NEW r, r = bars_init(bs)[i]
  PROVE  /\ r.size \in Nat \ {0} /\ up(r.size) = up(bs[i].size)
         /\ r.val \in Nat /\ r.bar_type = typeOf(bs[i].kind)
         /\ r.val - (r.val % 16) = bs[i].addr - (bs[i].addr % 16)
         /\ bs[i].kind # "io" => bs[i].addr % 16 = 0
<1> DEFINE b == bs[i]
<1>1. i \in DOMAIN bs /\ b \in BAR /\ b.kind \in {"mem32", "io", "mem64lo"}
  BY DEF Own
<1>2. b.addr \in Nat /\ b.size \in Nat
  BY <1>1 DEF BAR
<1>3. /\ \E s \in IF b.kind = "io" THEN 2 .. W - 1 ELSE 4 .. W - 1 : b.size = 2 ^ s
      /\ b.addr % b.size = 0
  BY <1>1 DEF WellFormed
<1>4. r = bar_init(origin_val(b), ones(b))
  BY <1>1 DEF bars_init
<1> HIDE DEF b
<1>5. ASSUME b.kind = "io"
      PROVE  /\ r.size \in Nat \ {0} /\ up(r.size) = up(b.size)
             /\ r.val \in Nat /\ r.bar_type = typeOf(b.kind)
             /\ r.val - (r.val % 16) = b.addr - (b.addr % 16)
             /\ b.kind # "io" => b.addr % 16 = 0
  <2>1. PICK s \in 2 .. W - 1 : b.size = 2 ^ s
    BY <1>3, <1>5
  <2>2. origin_val(b) = b.addr + 1 /\ ones(b) = 2 ^ W - 2 ^ s + 1
    BY <1>5, <2>1 DEF origin_val, ones, typeBits
  <2>3. r = bar_init(b.addr + 1, 2 ^ W - 2 ^ s + 1) /\ b.addr % (2 ^ s) = 0
    BY <1>3, <1>4, <2>1, <2>2
  <2>4. /\ r.val = b.addr + 1 /\ r.size = 2 ^ s /\ r.size \in Nat \ {0} /\ r.bar_type = "IO"
        /\ (b.addr + 1) - ((b.addr + 1) % 16) = b.addr - (b.addr % 16)
    <3>1. IoFound(r, b.addr, s)
      BY <1>2, <2>3, IoProbed, Zenon
    <3> QED
      BY <3>1, Zenon DEF IoFound
  <2>5. typeOf(b.kind) = "IO"
    BY <1>5 DEF typeOf
  <2>6. b.addr + 1 \in Nat
    BY <1>2
  <2>7. r.val - (r.val % 16) = b.addr - (b.addr % 16)
    BY <2>4, Zenon
  <2> QED
    BY <1>5, <2>1, <2>4, <2>5, <2>6, <2>7, Zenon
<1>6. ASSUME b.kind # "io"
      PROVE  /\ r.size \in Nat \ {0} /\ up(r.size) = up(b.size)
             /\ r.val \in Nat /\ r.bar_type = typeOf(b.kind)
             /\ r.val - (r.val % 16) = b.addr - (b.addr % 16)
             /\ b.kind # "io" => b.addr % 16 = 0
  <2>1. PICK s \in 4 .. W - 1 : b.size = 2 ^ s
    BY <1>3, <1>6
  <2>2. PICK t \in {0, 12} : t = IF b.kind = "mem64lo" THEN 12 ELSE 0
    OBVIOUS
  <2>3. origin_val(b) = b.addr + t /\ ones(b) = 2 ^ W - 2 ^ s + t
    <3>1. b.kind = "mem32" \/ b.kind = "mem64lo"
      BY <1>1, <1>6 DEF b
    <3> QED
      BY <2>1, <2>2, <3>1 DEF origin_val, ones, typeBits
  <2>4. r = bar_init(b.addr + t, 2 ^ W - 2 ^ s + t) /\ b.addr % (2 ^ s) = 0
    BY <1>3, <1>4, <2>1, <2>3
  <2>5. /\ r.val = b.addr + t /\ r.size \in Nat \ {0} /\ up(r.size) = up(2 ^ s)
        /\ r.bar_type = IF t = 0 THEN "Mem32" ELSE "Mem64"
        /\ b.addr % 16 = 0 /\ (b.addr + t) - ((b.addr + t) % 16) = b.addr
    <3>1. MemoryFound(r, b.addr, s, t)
      BY <1>2, <2>4, MemoryProbed, Zenon
    <3> QED
      BY <3>1, Zenon DEF MemoryFound
  <2>6. typeOf(b.kind) = IF t = 0 THEN "Mem32" ELSE "Mem64"
    BY <1>6, <2>2 DEF typeOf
  <2>7. b.addr + t \in Nat /\ b.addr - (b.addr % 16) = b.addr
    <3>1. b.addr % 16 = 0
      BY <2>5
    <3> QED
      BY <1>2, <3>1
  <2>8. r.val \in Nat /\ r.val - (r.val % 16) = b.addr - (b.addr % 16)
    <3> DEFINE x == b.addr + t  y == b.addr
    <3>1. r.val = x /\ x \in Nat /\ x - (x % 16) = y /\ y - (y % 16) = y
      BY <2>5, <2>7
    <3> HIDE DEF x, y
    <3>2. r.val \in Nat /\ r.val - (r.val % 16) = y - (y % 16)
      BY <3>1
    <3> QED
      BY <3>2 DEF y
  <2>9. up(r.size) = up(b.size) /\ r.bar_type = typeOf(b.kind)
    BY <2>1, <2>5, <2>6
  <2> QED
    BY <2>5, <2>8, <2>9
<1> QED
  BY <1>5, <1>6 DEF b

(* ... and the other registers.                                             *)
LEMMA OtherProbed ==
  ASSUME NEW bs \in Seq(BAR), NEW i \in DOMAIN bs, NEW r, r = bars_init(bs)[i]
  PROVE  /\ bs[i].kind = "none" => r.size = 0
         /\ bs[i].kind = "mem64hi" => r.val = bs[i].addr /\ r.size = 1
<1>1. r = bar_init(origin_val(bs[i]), ones(bs[i]))
  BY DEF bars_init
<1>2. bs[i] \in BAR
  OBVIOUS
<1>a. bs[i].addr \in Nat
  BY <1>2 DEF BAR
<1>3. CASE bs[i].kind = "none"
  <2>1. ones(bs[i]) = 0
    BY <1>3 DEF ones
  <2> QED
    BY <1>1, <1>3, <2>1, BarInit, ProbedNone
<1>4. CASE bs[i].kind = "mem64hi"
  <2>1. ones(bs[i]) = 2 ^ W - 1 /\ origin_val(bs[i]) = bs[i].addr
    BY <1>a, <1>4 DEF ones, origin_val, typeBits
  <2> QED
    BY <1>1, <1>4, <2>1, BarInit, ProbedOnes
<1> QED
  BY <1>3, <1>4

(* bars_init finds a 64-bit BAR's upper half where there is one: upper is   *)
(* the only function that satisfies its equation.                           *)
LEMMA UpperIs ==
  ASSUME NEW bs \in Seq(BAR), WellFormed(bs), NEW i \in DOMAIN bs
  PROVE  upper(bars_init(bs))[i] <=> bs[i].kind = "mem64hi"
<1> DEFINE r == bars_init(bs)
           Hi(F, k) == k > 1 /\ r[k - 1].size # 0 /\ r[k - 1].bar_type = "Mem64" /\ ~F[k - 1]
           G == [k \in DOMAIN bs |-> bs[k].kind = "mem64hi"]
           F == upper(r)
<1>1. /\ DOMAIN r = DOMAIN bs /\ DOMAIN bs = 1 .. Len(bs) /\ Len(bs) \in Nat
      /\ \A k \in DOMAIN bs : k > 1 => k - 1 \in DOMAIN bs
  BY DEF bars_init
<1>2. \A k \in DOMAIN bs : bs[k].kind = "mem64hi" <=> Hi(G, k)
  <2> SUFFICES ASSUME NEW k \in DOMAIN bs PROVE bs[k].kind = "mem64hi" <=> Hi(G, k)
    OBVIOUS
  <2>1. ASSUME bs[k].kind = "mem64hi" PROVE Hi(G, k)
    <3>1. k - 1 \in DOMAIN bs /\ bs[k - 1].kind = "mem64lo"
      BY <2>1 DEF WellFormed
    <3>2. k - 1 \in Own(bs)
      BY <3>1 DEF Own
    <3>3. r[k - 1].size # 0 /\ r[k - 1].bar_type = typeOf("mem64lo")
      BY <3>1, <3>2, OwnProbed
    <3>4. typeOf("mem64lo") = "Mem64"
      BY DEF typeOf
    <3>5. k > 1
      BY <1>1, <3>1
    <3>6. ~G[k - 1]
      BY <3>1
    <3> QED
      BY <3>3, <3>4, <3>5, <3>6
  <2>2. ASSUME Hi(G, k) PROVE bs[k].kind = "mem64hi"
    <3>1. k - 1 \in DOMAIN bs /\ bs[k - 1].kind # "mem64hi"
      BY <1>1, <2>2
    <3>2. bs[k - 1].kind # "none"
      BY <2>2, <3>1, OtherProbed
    <3>3. bs[k - 1] \in BAR
      BY <3>1
    <3>4. k - 1 \in Own(bs)
      BY <3>1, <3>2, <3>3 DEF Own, BAR
    <3>5. typeOf(bs[k - 1].kind) = "Mem64"
      BY <2>2, <3>4, OwnProbed
    <3>6. bs[k - 1].kind = "mem64lo"
      BY <3>5 DEF typeOf
    <3>7. k \in Nat /\ (k - 1) + 1 = k
      BY <1>1
    <3> QED
      BY <3>1, <3>6, <3>7 DEF WellFormed
  <2> QED
    BY <2>1, <2>2
<1>3. F = CHOOSE u : u = [k \in DOMAIN r |-> Hi(u, k)]
  BY Zenon DEF upper
<1>4. G = [k \in DOMAIN r |-> Hi(G, k)]
  <2> HIDE DEF F, r
  <2>1. \A k \in DOMAIN bs : (bs[k].kind = "mem64hi") = Hi(G, k)
    BY <1>2
  <2> QED
    BY <1>1, <2>1, Zenon
<1>5. F = [k \in DOMAIN r |-> Hi(F, k)]
  <2> DEFINE U(u) == u = [k \in DOMAIN r |-> Hi(u, k)]
  <2>1. F = CHOOSE u : U(u)
    BY <1>3
  <2>2. U(G)
    BY <1>4
  <2> HIDE DEF F, G, U
  <2>3. U(F)
    BY <2>1, <2>2, Zenon
  <2> QED
    BY <2>3 DEF U
<1>6. \A k \in DOMAIN bs : F[k] <=> Hi(F, k)
  BY <1>1, <1>5, Zenon
<1> HIDE DEF F, r
<1>7. ASSUME NEW k \in DOMAIN bs, ~(F[k] <=> bs[k].kind = "mem64hi") PROVE FALSE
  <2> DEFINE S == {n \in DOMAIN bs : ~(F[n] <=> bs[n].kind = "mem64hi")}
  <2>1. S \in SUBSET Nat /\ S # {}
    BY <1>1, <1>7
  <2>2. Min(S) \in S /\ \A n \in S : Min(S) <= n
    BY <2>1, LeastNat
  <2>3. PICK m \in S : \A n \in S : m <= n
    BY <2>2
  <2>4. m \in DOMAIN bs /\ m \in Nat /\ ~(F[m] <=> bs[m].kind = "mem64hi")
    BY <1>1
  <2>5. CASE m > 1
    <3>1. m - 1 \in DOMAIN bs /\ m - 1 \notin S
      BY <1>1, <2>3, <2>4, <2>5
    <3>2. F[m - 1] <=> G[m - 1]
      BY <3>1
    <3>3. Hi(F, m) <=> Hi(G, m)
      BY <3>2
    <3> QED
      BY <1>2, <1>6, <2>4, <3>3
  <2>6. CASE ~(m > 1)
    <3>1. ~Hi(F, m) /\ ~Hi(G, m)
      BY <2>6
    <3> QED
      BY <1>2, <1>6, <2>4, <3>1
  <2> QED
    BY <2>5, <2>6
<1> QED
  BY <1>7 DEF F, r

(* The region of a BAR, as get_bars_regions has it from the registers.      *)
RegionOf(bs, i) ==
  [start    |-> IF bs[i].kind = "mem64lo" THEN bs[i + 1].addr * 2 ^ W + bs[i].addr
                                          ELSE bs[i].addr - (bs[i].addr % 16),
   size     |-> up(bs[i].size),
   bar_type |-> typeOf(bs[i].kind)]

\* The region before it is made at least a page.
probedRegion(r, i) == IF r[i].bar_type = "Mem64" THEN get_64b_region(r[i + 1], get_32b_region(r[i]))
                                                 ELSE get_32b_region(r[i])

(* At least a page.                                                         *)
LEMMA Paged ==
  ASSUME NEW x, NEW y, NEW z, NEW p, p = [start |-> x, size |-> y, bar_type |-> z]
  PROVE  [p EXCEPT !.size = IF @ < PAGE THEN PAGE ELSE @]
           = [start |-> x, size |-> up(y), bar_type |-> z]
BY DEF up

(* What get_regions has of a BAR is its region.                             *)
LEMMA RegionIs ==
  ASSUME NEW bs \in Seq(BAR), WellFormed(bs), NEW i \in Own(bs)
  PROVE  LET p == probedRegion(bars_init(bs), i) IN
           [p EXCEPT !.size = IF @ < PAGE THEN PAGE ELSE @] = RegionOf(bs, i)
<1> DEFINE r == bars_init(bs)  b == bs[i]
<1>1. i \in DOMAIN bs /\ b \in BAR /\ b.kind \in {"mem32", "io", "mem64lo"}
  BY DEF Own
<1>2. b.addr \in Nat
  BY <1>1 DEF BAR
<1>3. /\ r[i].size \in Nat \ {0} /\ up(r[i].size) = up(b.size)
      /\ r[i].val \in Nat /\ r[i].bar_type = typeOf(b.kind)
      /\ r[i].val - (r[i].val % 16) = b.addr - (b.addr % 16)
      /\ b.kind # "io" => b.addr % 16 = 0
  BY OwnProbed
<1>4. CASE b.kind = "mem64lo"
  <2>1. i + 1 \in DOMAIN bs /\ bs[i + 1].kind = "mem64hi"
    BY <1>1, <1>4 DEF WellFormed
  <2>2. r[i + 1].val = bs[i + 1].addr /\ r[i + 1].size = 1
    BY <2>1, OtherProbed
  <2>3. bs[i + 1] \in BAR
    BY <2>1
  <2>4. bs[i + 1].addr \in Nat
    BY <2>3 DEF BAR
  <2>5. typeOf(b.kind) = "Mem64"
    BY <1>4 DEF typeOf
  <2> HIDE DEF r, b
  <2>6. r[i].val - (r[i].val % 16) = b.addr
    <3>1. b.addr % 16 = 0
      BY <1>3, <1>4
    <3> QED
      BY <1>2, <1>3, <3>1
  <2>7. probedRegion(r, i) = [start |-> bs[i + 1].addr * 2 ^ W + b.addr, size |-> r[i].size,
                              bar_type |-> "Mem64"]
    <3>1. 1 * r[i].size = r[i].size
      BY <1>3
    <3> QED
      BY <1>3, <2>2, <2>5, <2>6, <3>1 DEF probedRegion, get_64b_region, get_32b_region
  <2>10. RegionOf(bs, i) = [start |-> bs[i + 1].addr * 2 ^ W + b.addr, size |-> up(r[i].size),
                            bar_type |-> "Mem64"]
    BY <1>3, <1>4, <2>5 DEF RegionOf, b
  <2> QED
    BY <2>7, <2>10, Paged DEF r
<1>5. CASE b.kind # "mem64lo"
  <2>1. typeOf(b.kind) # "Mem64"
    BY <1>1, <1>5 DEF typeOf
  <2> HIDE DEF r, b
  <2>2. probedRegion(r, i) = [start |-> b.addr - (b.addr % 16), size |-> r[i].size,
                              bar_type |-> typeOf(b.kind)]
    BY <1>3, <2>1, Zenon DEF probedRegion, get_32b_region
  <2>4. RegionOf(bs, i) = [start |-> b.addr - (b.addr % 16), size |-> up(r[i].size),
                           bar_type |-> typeOf(b.kind)]
    BY <1>3, <1>5, Zenon DEF RegionOf, b
  <2> QED
    BY <2>2, <2>4, Paged DEF r
<1> QED
  BY <1>4, <1>5

(* A device has one region for each BAR, whether it is an endpoint or a     *)
(* bridge: upper halves and registers without a BAR are passed over.        *)
LEMMA RegionsAre ==
  ASSUME found \in Layouts, NEW d \in Devices
  PROVE  get_bars_regions(found[d]) = {RegionOf(found[d], i) : i \in Own(found[d])}
<1> DEFINE bs == found[d]  r == bars_init(bs)
           paged(p) == [p EXCEPT !.size = IF @ < PAGE THEN PAGE ELSE @]
<1>1. bs \in Seq(BAR) /\ WellFormed(bs)
  BY PciAssumption
<1>2. DOMAIN bs = 1 .. Len(bs) /\ Len(bs) \in Nat /\ DOMAIN r = DOMAIN bs
  BY <1>1 DEF bars_init
<1>3. {i \in DOMAIN r : ~upper(r)[i] /\ r[i].size # 0} = Own(bs)
  <2>1. ASSUME NEW i \in DOMAIN bs PROVE (~upper(r)[i] /\ r[i].size # 0) <=> i \in Own(bs)
    <3>1. bs[i].kind \in {"none", "mem32", "io", "mem64lo", "mem64hi"}
      <4>1. bs[i] \in BAR
        BY <1>1, <2>1
      <4> QED
        BY <4>1 DEF BAR
    <3>2. upper(r)[i] <=> bs[i].kind = "mem64hi"
      BY <1>1, UpperIs
    <3>3. bs[i].kind = "none" => r[i].size = 0
      BY <1>1, OtherProbed
    <3>4. i \in Own(bs) => r[i].size # 0
      BY <1>1, OwnProbed
    <3> HIDE DEF r, bs
    <3> QED
      BY <3>1, <3>2, <3>3, <3>4 DEF Own
  <2> QED
    BY <1>2, <2>1 DEF Own
<1>4. get_regions(r) = {probedRegion(r, i) : i \in Own(bs)}
  <2> HIDE DEF r, bs
  <2> QED
    BY <1>3, Zenon DEF get_regions, probedRegion
<1>5. Len(r) = 2 => bridge_get_regions(r) = get_regions(r)
  <2>1. Len(r) = 2 => SubSeq(r, 1, 2) = r
    <3> SUFFICES ASSUME Len(r) = 2 PROVE SubSeq(r, 1, 2) = r
      OBVIOUS
    <3>1. r = [i \in 1 .. Len(bs) |-> r[i]]
      BY <1>2 DEF bars_init
    <3>2. Len(bs) = 2
      BY <1>2 DEF bars_init
    <3> QED
      BY <3>1, <3>2
  <2> QED
    BY <2>1 DEF bridge_get_regions
<1>6. get_bars_regions(found[d]) = {paged(p) : p \in get_regions(r)}
  <2>1. get_bars_regions(found[d]) = {paged(p) : p \in IF Len(r) = 2 THEN bridge_get_regions(r) ELSE get_regions(r)}
    BY Zenon DEF get_bars_regions
  <2> QED
    BY <1>5, <2>1, Zenon
<1>7. \A i \in Own(bs) : paged(probedRegion(r, i)) = RegionOf(bs, i)
  BY <1>1, RegionIs
<1> HIDE DEF r, bs, paged
<1> QED
  BY <1>4, <1>6, <1>7 DEF bs

(* The pages a range is in, rounded as pci_bars_register rounds it, and     *)
(* ranges that this does not move into another BAR's pages.                 *)
Rounded(x) == <<x[1] - (x[1] % PAGE), up(x[2])>>
OnGrid(x) ==
  /\ x[1] \in Nat /\ x[2] \in Nat \ {0}
  /\ x[2] >= PAGE => x[1] % PAGE = 0 /\ x[2] % PAGE = 0
  /\ x[2] < PAGE => (x[1] % PAGE) + x[2] <= PAGE

(* A multiple of PAGE.                                                      *)
LEMMA PageMultiple ==
  ASSUME NEW n \in Nat, n % PAGE = 0
  PROVE  \E q \in Nat : n = PAGE * q
<1>1. n \div PAGE \in Nat /\ n = PAGE * (n \div PAGE) + (n % PAGE)
  BY PageIs, DivMod
<1> DEFINE q == n \div PAGE
<1>2. q \in Nat /\ n = PAGE * q + 0
  BY <1>1
<1> HIDE DEF q
<1>3. n = PAGE * q
  BY <1>2, PageIs
<1> QED
  BY <1>2, <1>3

(* Whole pages leave no remainder.                                          *)
LEMMA MultipleIs ==
  ASSUME NEW q \in Nat
  PROVE  PAGE * q \in Nat /\ (PAGE * q) % PAGE = 0
<1>1. 0 \in 0 .. PAGE - 1 /\ PAGE * q \in Nat /\ PAGE * q + 0 = PAGE * q
  BY PageIs
<1>2. (PAGE * q + 0) % PAGE = 0
  BY <1>1, PageIs, DivModIs
<1> QED
  BY <1>1, <1>2

(* Masking the type bits first does not change the page.                    *)
LEMMA SamePage ==
  ASSUME NEW o \in Nat, NEW c \in Nat, NEW e \in Nat, c % PAGE = 0, e % PAGE = 0, o >= e
  PROVE  (c + (o - (o % 16)) - e) - ((c + (o - (o % 16)) - e) % PAGE)
           = (c + o - e) - ((c + o - e) % PAGE)
<1> DEFINE y == c + o - e  a == c + (o - (o % 16)) - e
<1>1. y \in Nat
  OBVIOUS
<1>2. PICK m \in Nat \ {0} : PAGE = 16 * m
  BY PageIs
<1>3. PICK i \in Nat : c = PAGE * i
  BY PageMultiple
<1>4. PICK j \in Nat : e = PAGE * j
  BY PageMultiple
<1>5. PICK u \in Nat, w \in 0 .. PAGE - 1 : y = PAGE * u + w
  <2> HIDE DEF y
  <2> QED
    BY <1>1, PageIs, DivMod
<1>6. PICK g \in Nat, f \in 0 .. 15 : w = 16 * g + f
  <2>1. w \in Nat /\ 16 \in Nat \ {0}
    BY PageIs
  <2>2. w \div 16 \in Nat /\ w % 16 \in 0 .. 15 /\ w = 16 * (w \div 16) + (w % 16)
    BY <2>1
  <2> QED
    BY <2>2
<1>7. o = 16 * (m * u + g - m * i + m * j) + f
  <2>1. o = y - c + e /\ y \in Nat
    BY <1>1
  <2> HIDE DEF y
  <2>2. c = 16 * (m * i) /\ e = 16 * (m * j) /\ PAGE * u = 16 * (m * u)
    BY <1>2, <1>3, <1>4
  <2>3. m * i \in Nat /\ m * j \in Nat /\ m * u \in Nat
    BY <1>2
  <2> QED
    BY <1>5, <1>6, <2>1, <2>2, <2>3
<1> DEFINE n == m * u + g - m * i + m * j
<1>8. n \in Nat /\ o = 16 * n + f
  <2>1. n \in Int
    BY <1>2
  <2>2. o = 16 * n + f
    BY <1>7
  <2> HIDE DEF n
  <2> QED
    BY <2>1, <2>2
<1> HIDE DEF n
<1>9. o % 16 = f
  BY <1>8
<1>10. a = PAGE * u + 16 * g /\ 16 * g \in 0 .. PAGE - 1
  <2>1. a = y - f
    BY <1>9
  <2>2. PAGE * u \in Nat
    BY PageIs
  <2> HIDE DEF a, y
  <2> QED
    BY <1>5, <1>6, <2>1, <2>2, PageIs
<1> HIDE DEF a, y
<1>11. a % PAGE = 16 * g /\ y % PAGE = w
  BY <1>5, <1>10, PageIs, DivModIs
<1>12. PAGE * u \in Nat
  BY PageIs
<1>13. a - (a % PAGE) = y - (y % PAGE)
  BY <1>5, <1>10, <1>11, <1>12, PageIs
<1> QED
  BY <1>13 DEF a, y

(* A multiple of a power of two, in windows that begin with a page: its     *)
(* range is whole pages or within one.                                      *)
LEMMA GridIs ==
  ASSUME NEW s \in Nat, NEW q \in Nat, NEW c \in Nat, NEW e \in Nat, c % PAGE = 0, e % PAGE = 0,
         2 ^ s * q >= e
  PROVE  OnGrid(<<c + 2 ^ s * q - e, 2 ^ s>>)
<1> DEFINE z == 2 ^ s  y == c + z * q - e
<1>0. z \in Nat \ {0}
  BY PowerPositive
<1>1. z * q \in Nat /\ z * q >= e
  BY <1>0
<1>2. PICK i \in Nat : c = PAGE * i
  BY PageMultiple
<1>3. PICK j \in Nat : e = PAGE * j
  BY PageMultiple
<1>4. (\E m \in Nat \ {0} : z = PAGE * m) \/ (\E m \in Nat \ {0} : PAGE = z * m)
  <2>1. PICK p \in 4 .. PAGE : PAGE = 2 ^ p
    BY PciAssumption
  <2>2. p \in Nat
    OBVIOUS
  <2>3. CASE p <= s
    <3>1. \E m \in Nat \ {0} : 2 ^ s = 2 ^ p * m
      BY <2>2, <2>3, PowerGrows
    <3> QED
      BY <2>1, <3>1
  <2>4. CASE s <= p
    <3>1. \E m \in Nat \ {0} : 2 ^ p = 2 ^ s * m
      BY <2>2, <2>4, PowerGrows
    <3> QED
      BY <2>1, <3>1
  <2> QED
    BY <2>2, <2>3, <2>4
<1> HIDE DEF z
<1>5. y \in Nat
  BY <1>1
<1>6. ASSUME NEW m \in Nat \ {0}, z = PAGE * m
      PROVE  y % PAGE = 0 /\ z % PAGE = 0 /\ z >= PAGE
  <2>1. z * q = PAGE * (m * q) /\ m * q \in Nat
    BY <1>6, PageIs
  <2> DEFINE n == i + m * q - j
  <2>2. y = PAGE * n /\ n \in Int
    <3>1. PAGE * (i + m * q - j) = PAGE * i + PAGE * (m * q) - PAGE * j
      BY <2>1, PageIs
    <3> QED
      BY <1>2, <1>3, <2>1, <3>1
  <2> HIDE DEF n, y
  <2>3. n \in Nat
    <3>1. \A P \in Nat \ {0}, k \in Int : P * k >= 0 => k >= 0
      OBVIOUS
    <3> QED
      BY <1>5, <2>2, <3>1, PageIs
  <2>4. y % PAGE = 0 /\ z % PAGE = 0
    BY <1>6, <2>2, <2>3, MultipleIs
  <2>5. \A P, k \in Nat \ {0} : P * k >= P
    OBVIOUS
  <2> QED
    BY <1>6, <2>4, <2>5, PageIs
<1>7. ASSUME NEW m \in Nat \ {0}, PAGE = z * m
      PROVE  (y % PAGE) + z <= PAGE
  <2>1. PICK u \in Nat, w \in 0 .. PAGE - 1 : y = PAGE * u + w /\ w = y % PAGE
    <3> HIDE DEF y
    <3> QED
      BY <1>5, PageIs, DivMod
  <2> DEFINE n == m * i + q - m * j - m * u
  <2>2. w = z * n /\ n \in Int
    <3>1. PAGE * i = z * (m * i) /\ PAGE * j = z * (m * j) /\ PAGE * u = z * (m * u)
      BY <1>0, <1>7
    <3>2. m * i \in Nat /\ m * j \in Nat /\ m * u \in Nat
      OBVIOUS
    <3>3. z * (m * i + q - m * j - m * u) = z * (m * i) + z * q - z * (m * j) - z * (m * u)
      BY <1>0, <3>2
    <3>4. z * (m * i) \in Nat /\ z * (m * j) \in Nat /\ z * (m * u) \in Nat
      BY <1>0, <3>2
    <3> QED
      BY <1>1, <1>2, <1>3, <2>1, <3>1, <3>2, <3>3, <3>4
  <2> HIDE DEF n
  <2>3. n + 1 <= m
    <3>1. z * n < z * m
      BY <1>7, <2>1, <2>2, PageIs
    <3>2. \A a \in Nat \ {0}, b, d \in Int : a * b < a * d => b < d
      OBVIOUS
    <3> QED
      BY <1>0, <2>2, <3>1, <3>2
  <2>4. z * (n + 1) <= z * m
    <3>1. \A a \in Nat, b, d \in Int : b <= d => a * b <= a * d
      OBVIOUS
    <3> QED
      BY <1>0, <2>2, <2>3, <3>1
  <2>5. z * (n + 1) = w + z
    BY <1>0, <2>2
  <2> QED
    BY <1>7, <2>1, <2>4, <2>5
<1> HIDE DEF y
<1>8. OnGrid(<<y, z>>)
  <2>1. CASE \E m \in Nat \ {0} : z = PAGE * m
    <3>1. y % PAGE = 0 /\ z % PAGE = 0 /\ z >= PAGE
      BY <1>6, <2>1
    <3> QED
      BY <1>0, <1>5, <3>1, PageIs DEF OnGrid
  <2>2. CASE \E m \in Nat \ {0} : PAGE = z * m
    <3>1. (y % PAGE) + z <= PAGE
      BY <1>7, <2>2
    <3>2. z >= PAGE => y % PAGE = 0 /\ z = PAGE
      <4>1. y % PAGE \in 0 .. PAGE - 1
        BY <1>5, PageIs, DivMod
      <4> QED
        BY <1>0, <3>1, <4>1, PageIs
    <3>3. PAGE % PAGE = 0
      BY PageIs
    <3> QED
      BY <1>0, <1>5, <3>1, <3>2, <3>3 DEF OnGrid
  <2> QED
    BY <1>4, <2>1, <2>2
<1> QED
  BY <1>8 DEF y, z

(* Where a BAR's region is registered, and that its range is on the grid.   *)
LEMMA RegionPlaced ==
  ASSUME NEW bs \in Seq(BAR), WellFormed(bs), NEW i \in Own(bs)
  PROVE  OnGrid(range(bs, i)) /\ placed(RegionOf(bs, i)) = Rounded(range(bs, i))
<1> DEFINE b == bs[i]  t == typeOf(b.kind)  o == onBus(bs, i)
           c == CpuBase[t]  e == PciBase[t]  r == RegionOf(bs, i)
<1>1. i \in DOMAIN bs /\ b \in BAR /\ b.kind \in {"mem32", "io", "mem64lo"}
  BY DEF Own
<1>2. b.addr \in Nat
  BY <1>1 DEF BAR
<1>3. c \in Nat /\ c % PAGE = 0 /\ e \in Nat /\ e % PAGE = 0
  <2>1. t \in {"IO", "Mem32", "Mem64"}
    BY <1>1 DEF typeOf
  <2> HIDE DEF t
  <2> QED
    BY <2>1, PciAssumption
<1>4. /\ \E s \in IF b.kind = "io" THEN 2 .. W - 1 ELSE 4 .. W - 1 : b.size = 2 ^ s
      /\ b.addr % b.size = 0 /\ o >= e
  BY <1>1 DEF WellFormed
<1>5. PICK s \in 2 .. W - 1 : b.size = 2 ^ s /\ b.addr % (2 ^ s) = 0
  <2>1. PICK s \in IF b.kind = "io" THEN 2 .. W - 1 ELSE 4 .. W - 1 : b.size = 2 ^ s
    BY <1>4
  <2>2. s \in 2 .. W - 1
    BY PciAssumption
  <2>3. b.addr % (2 ^ s) = 0
    BY <1>4, <2>1, Zenon
  <2> QED
    BY <2>1, <2>2, <2>3
<1>6. s \in Nat /\ s <= W /\ W \in Nat
  BY PciAssumption
<1>7. PICK j \in Nat : b.addr = 2 ^ s * j
  <2> DEFINE a == b.addr
  <2>1. a \in Nat /\ a % (2 ^ s) = 0 /\ s <= s
    BY <1>2, <1>5, <1>6
  <2> HIDE DEF a
  <2>2. \E j \in Nat : a = 2 ^ s * j
    BY <1>6, <2>1, AddressIs
  <2> QED
    BY <2>2 DEF a
<1>8. 2 ^ s \in Nat \ {0}
  BY <1>6, PowerPositive
<1>9. o \in Nat /\ (\E q \in Nat : o = 2 ^ s * q) /\ r.start = o - (o % 16)
  <2>1. CASE b.kind = "mem64lo"
    <3> DEFINE h == bs[i + 1].addr
    <3>1. h \in Nat
      <4>1. i + 1 \in DOMAIN bs
        BY <1>1, <2>1 DEF WellFormed
      <4>2. bs[i + 1] \in BAR
        BY <4>1
      <4> QED
        BY <4>2 DEF BAR
    <3>2. o = b.addr + h * 2 ^ W /\ r.start = h * 2 ^ W + b.addr
      BY <2>1 DEF onBus, RegionOf
    <3>3. PICK m \in Nat \ {0} : 2 ^ W = 2 ^ s * m
      BY <1>6, PowerGrows
    <3>4. PICK n \in Nat \ {0} : 2 ^ W = 16 * n
      <4>1. 4 <= W /\ 4 \in Nat
        BY <1>4, <2>1, PciAssumption
      <4>2. \E n \in Nat \ {0} : 2 ^ W = 2 ^ 4 * n
        BY <1>6, <4>1, PowerGrows
      <4> QED
        BY <4>2, SmallPowers
    <3> DEFINE z == 2 ^ s  y == 2 ^ W  a == b.addr
    <3>5. a % 16 = 0
      BY <2>1, OwnProbed
    <3>6. /\ z \in Nat \ {0} /\ a \in Nat /\ a = z * j /\ y = z * m /\ y = 16 * n
          /\ o = a + h * y /\ r.start = h * y + a
      BY <1>2, <1>7, <1>8, <3>2, <3>3, <3>4
    <3> HIDE DEF z, y, a, h, o, r
    <3>7. o = z * (j + h * m) /\ j + h * m \in Nat
      BY <3>1, <3>6
    <3>8. o \in Nat /\ r.start = o
      <4>1. h * y \in Nat
        BY <3>1, <3>6
      <4>2. \A k \in Nat : a + k \in Nat /\ k + a = a + k
        BY <3>6
      <4>3. o = a + h * y /\ r.start = h * y + a
        BY <3>6
      <4> QED
        BY <4>1, <4>2, <4>3, Zenon
    <3>9. o % 16 = 0
      <4>1. a \div 16 \in Nat /\ a = 16 * (a \div 16)
        BY <3>5, <3>6
      <4>2. h * y = 16 * (h * n) /\ h * n \in Nat
        BY <3>1, <3>6
      <4>3. o = 16 * ((a \div 16) + h * n) /\ (a \div 16) + h * n \in Nat
        <5> DEFINE k == a \div 16  l == h * n
        <5>1. k \in Nat /\ l \in Nat /\ a = 16 * k /\ h * y = 16 * l /\ o = a + h * y
          BY <3>6, <4>1, <4>2
        <5> HIDE DEF k, l
        <5>2. o = 16 * (k + l) /\ k + l \in Nat
          BY <5>1
        <5> QED
          BY <5>2 DEF k, l
      <4>4. \A k \in Nat : (16 * k) % 16 = 0
        OBVIOUS
      <4> QED
        BY <4>3, <4>4
    <3>10. r.start = o - (o % 16)
      BY <3>8, <3>9
    <3> QED
      BY <3>7, <3>8, <3>10 DEF z
  <2>2. CASE b.kind # "mem64lo"
    BY <1>2, <1>7, <2>2 DEF onBus, RegionOf
  <2> QED
    BY <2>1, <2>2
<1>10. range(bs, i) = <<c + o - e, 2 ^ s>>
  BY <1>5 DEF range
<1>11. r.size = up(2 ^ s) /\ r.bar_type = t
  BY <1>5 DEF RegionOf
<1> HIDE DEF c, e, o, r, t
<1>12. OnGrid(<<c + o - e, 2 ^ s>>)
  <2>1. PICK q \in Nat : o = 2 ^ s * q
    BY <1>9
  <2> QED
    BY <1>3, <1>4, <1>6, <2>1, GridIs
<1>13. placed(r) = Rounded(<<c + o - e, 2 ^ s>>)
  <2> DEFINE a == c + r.start - e  y == c + o - e
  <2>1. a - (a % PAGE) = y - (y % PAGE)
    <3>1. o >= e /\ r.start = o - (o % 16)
      BY <1>4, <1>9
    <3> DEFINE a2 == c + (o - (o % 16)) - e
    <3>2. a2 - (a2 % PAGE) = y - (y % PAGE)
      <4>1. o \in Nat /\ c \in Nat /\ e \in Nat /\ c % PAGE = 0 /\ e % PAGE = 0 /\ o >= e
        BY <1>3, <1>9, <3>1
      <4>2. (c + (o - (o % 16)) - e) - ((c + (o - (o % 16)) - e) % PAGE)
              = (c + o - e) - ((c + o - e) % PAGE)
        BY <4>1, SamePage, Zenon
      <4> QED
        BY <4>2
    <3>3. a2 = a
      BY <3>1, Zenon
    <3> HIDE DEF a2, a, y
    <3> QED
      BY <3>2, <3>3
  <2>2. placed(r) = <<a - (a % PAGE), up(2 ^ s)>>
    BY <1>11 DEF placed, c, e
  <2>3. Rounded(<<y, 2 ^ s>>) = <<y - (y % PAGE), up(2 ^ s)>>
    BY DEF Rounded
  <2> QED
    BY <2>1, <2>2, <2>3
<1> QED
  BY <1>10, <1>12, <1>13 DEF r

(* Rounded, a range on the grid is n pages from page k, its own pages.      *)
LEMMA PagesOf ==
  ASSUME NEW x, OnGrid(x)
  PROVE  \E k \in Nat, n \in Nat \ {0} :
           /\ Rounded(x) = <<PAGE * k, PAGE * n>>
           /\ x[1] >= PAGE * k /\ x[1] < PAGE * (k + 1) /\ x[1] + x[2] <= PAGE * (k + n)
           /\ x[2] >= PAGE => x[1] = PAGE * k /\ x[2] = PAGE * n
           /\ x[2] < PAGE => n = 1
<1> DEFINE a == x[1]  z == x[2]
<1>1. /\ a \in Nat /\ z \in Nat \ {0}
      /\ z >= PAGE => a % PAGE = 0 /\ z % PAGE = 0
      /\ z < PAGE => (a % PAGE) + z <= PAGE
  BY DEF OnGrid
<1>2. Rounded(x) = <<a - (a % PAGE), up(z)>>
  BY DEF Rounded
<1> HIDE DEF a, z
<1>3. PICK k \in Nat, w \in 0 .. PAGE - 1 : a = PAGE * k + w /\ w = a % PAGE
  BY <1>1, PageIs, DivMod
<1>4. PAGE \in Nat \ {0} /\ PAGE * k \in Nat /\ PAGE * (k + 1) = PAGE * k + PAGE
  BY PageIs
<1>5. CASE z >= PAGE
  <2>1. PICK n \in Nat : z = PAGE * n
    BY <1>1, <1>5, PageMultiple
  <2>2. n # 0 /\ PAGE * (k + n) = PAGE * k + PAGE * n
    BY <1>1, <1>4, <2>1
  <2>3. a = PAGE * k /\ Rounded(x) = <<PAGE * k, PAGE * n>>
    BY <1>1, <1>2, <1>3, <1>4, <1>5, <2>1 DEF up
  <2>4. n \in Nat \ {0} /\ a + z <= PAGE * (k + n) /\ a < PAGE * (k + 1)
    BY <1>1, <1>4, <2>1, <2>2, <2>3
  <2> QED
    BY <1>1, <1>4, <1>5, <2>1, <2>3, <2>4 DEF a, z
<1>6. CASE z < PAGE
  <2>1. PAGE * 1 = PAGE /\ 1 \in Nat \ {0}
    BY <1>4
  <2>2. Rounded(x) = <<PAGE * k, PAGE * 1>>
    BY <1>1, <1>2, <1>3, <1>4, <1>6, <2>1 DEF up
  <2>3. a >= PAGE * k /\ a < PAGE * (k + 1) /\ a + z <= PAGE * (k + 1)
    BY <1>1, <1>3, <1>4, <1>6
  <2> QED
    BY <1>1, <1>4, <1>6, <2>1, <2>2, <2>3 DEF a, z
<1> QED
  BY <1>1, <1>4, <1>5, <1>6
(* A range within one page is in that page.                                 *)
LEMMA OnePage ==
  ASSUME NEW k \in Nat, NEW a \in Nat, NEW n \in Nat \ {0}, a >= PAGE * k, a + n <= PAGE * (k + 1)
  PROVE  pagesOf(a, n) = {k}
<1>1. /\ PAGE \in Nat \ {0} /\ PAGE * k \in Nat /\ PAGE * (k + 1) = PAGE * k + PAGE
      /\ \A p \in Nat : p * PAGE = PAGE * p /\ (p + 1) * PAGE = PAGE * p + PAGE /\ PAGE * p \in Nat
  BY PageIs
<1>2. ASSUME NEW p \in Nat, PAGE * p < a + n, PAGE * p + PAGE > a PROVE p = k
  <2>1. \A x, y \in Nat : PAGE * x < PAGE * y => x < y
    BY <1>1
  <2>2. PAGE * p < PAGE * (k + 1) /\ PAGE * k < PAGE * (p + 1)
    BY <1>1, <1>2
  <2>3. p < k + 1 /\ k < p + 1
    BY <2>1, <2>2
  <2> QED
    BY <2>3
<1>3. PAGE * k < a + n /\ PAGE * k + PAGE > a
  BY <1>1
<1>4. k \in 0 .. (a + n) \div PAGE
  <2>1. PICK q \in Nat, r \in 0 .. PAGE - 1 : a + n = PAGE * q + r /\ q = (a + n) \div PAGE
    BY <1>1, DivMod
  <2>2. PAGE * k < PAGE * (q + 1)
    BY <1>1, <1>3, <2>1
  <2>3. \A x, y \in Nat : PAGE * x < PAGE * y => x < y
    BY <1>1
  <2>4. k < q + 1
    BY <2>2, <2>3
  <2> QED
    BY <2>1, <2>4
<1>5. \A p \in 0 .. (a + n) \div PAGE : p \in Nat
  OBVIOUS
<1>6. \A p : p \in pagesOf(a, n) <=>
               p \in 0 .. (a + n) \div PAGE /\ PAGE * p < a + n /\ PAGE * p + PAGE > a
  BY <1>1, <1>5 DEF pagesOf
<1> QED
  BY <1>2, <1>3, <1>4, <1>5, <1>6

(* Rounding a range keeps its pages.                                        *)
LEMMA PagesKept ==
  ASSUME NEW x, OnGrid(x)
  PROVE  pagesOf(Rounded(x)[1], Rounded(x)[2]) = pagesOf(x[1], x[2])
<1> DEFINE a == x[1]  z == x[2]  a2 == Rounded(x)[1]  z2 == Rounded(x)[2]
<1>1. PICK k \in Nat, n \in Nat \ {0} :
        /\ Rounded(x) = <<PAGE * k, PAGE * n>>
        /\ x[1] >= PAGE * k /\ x[1] < PAGE * (k + 1) /\ x[1] + x[2] <= PAGE * (k + n)
        /\ x[2] >= PAGE => x[1] = PAGE * k /\ x[2] = PAGE * n
        /\ x[2] < PAGE => n = 1
  BY PagesOf
<1>2. a \in Nat /\ z \in Nat \ {0}
  BY DEF OnGrid
<1>3. a2 = PAGE * k /\ z2 = PAGE * n
  BY <1>1
<1>4. CASE z >= PAGE
  BY <1>1, <1>3, <1>4
<1>5. CASE z < PAGE
  <2>1. n = 1 /\ a >= PAGE * k /\ a + z <= PAGE * (k + 1)
    BY <1>1, <1>5
  <2>2. a2 \in Nat /\ z2 \in Nat \ {0} /\ a2 >= PAGE * k /\ a2 + z2 <= PAGE * (k + 1)
    BY <1>3, <2>1, PageIs
  <2> HIDE DEF a, z, a2, z2
  <2>3. pagesOf(a, z) = {k}
    BY <1>2, <2>1, OnePage
  <2>4. pagesOf(a2, z2) = {k}
    BY <2>2, OnePage
  <2> QED
    BY <2>3, <2>4 DEF a, z, a2, z2
<1> QED
  BY <1>2, <1>4, <1>5, PageIs

(* A BAR below another is below it when rounded, or shares its page.        *)
LEMMA BelowRounded ==
  ASSUME NEW x, NEW y, OnGrid(x), OnGrid(y), x[1] + x[2] <= y[1]
  PROVE  Rounded(x) = Rounded(y) \/ Rounded(x)[1] + Rounded(x)[2] <= Rounded(y)[1]
<1>1. PICK k \in Nat, n \in Nat \ {0} :
        /\ Rounded(x) = <<PAGE * k, PAGE * n>>
        /\ x[1] >= PAGE * k /\ x[1] < PAGE * (k + 1) /\ x[1] + x[2] <= PAGE * (k + n)
        /\ x[2] >= PAGE => x[1] = PAGE * k /\ x[2] = PAGE * n
        /\ x[2] < PAGE => n = 1
  BY PagesOf
<1>2. PICK u \in Nat, v \in Nat \ {0} :
        /\ Rounded(y) = <<PAGE * u, PAGE * v>>
        /\ y[1] >= PAGE * u /\ y[1] < PAGE * (u + 1) /\ y[1] + y[2] <= PAGE * (u + v)
        /\ y[2] >= PAGE => y[1] = PAGE * u /\ y[2] = PAGE * v
        /\ y[2] < PAGE => v = 1
  BY PagesOf
<1> DEFINE a == x[1]  z == x[2]  b == y[1]  w == y[2]
<1>3. a \in Nat /\ z \in Nat \ {0} /\ b \in Nat /\ w \in Nat \ {0} /\ a + z <= b
  BY DEF OnGrid
<1>4. /\ PAGE \in Nat \ {0}
      /\ \A p, q \in Nat : /\ PAGE * p \in Nat /\ PAGE * (p + q) = PAGE * p + PAGE * q
                           /\ PAGE * p < PAGE * q => p < q
                           /\ p <= q => PAGE * p <= PAGE * q
  BY PageIs
<1>5. CASE k + n <= u
  <2>1. PAGE * k + PAGE * n <= PAGE * u
    BY <1>4, <1>5
  <2> QED
    BY <1>1, <1>2, <2>1
<1>6. CASE ~(k + n <= u)
  <2>1. z < PAGE /\ n = 1
    <3> SUFFICES ASSUME ~(z < PAGE) PROVE FALSE
      BY <1>1
    <3>1. a = PAGE * k /\ z = PAGE * n /\ b < PAGE * (u + 1)
      BY <1>1, <1>2, <1>3, PageIs
    <3>2. PAGE * k + PAGE * n = PAGE * (k + n)
      BY <1>4
    <3>3. PAGE * (k + n) < PAGE * (u + 1)
      <4>1. a + z <= b /\ PAGE * (u + 1) \in Nat
        BY <1>3, <1>4
      <4> HIDE DEF a, z, b, w
      <4> QED
        BY <1>3, <3>1, <3>2, <4>1
    <3>4. k + n < u + 1
      BY <1>4, <3>3
    <3> QED
      BY <1>6, <3>4
  <2>2. k = u
    <3>1. PAGE * k < PAGE * (u + 1)
      <4>1. a >= PAGE * k /\ b < PAGE * (u + 1) /\ PAGE * k \in Nat /\ PAGE * (u + 1) \in Nat
        BY <1>1, <1>2, <1>4
      <4> HIDE DEF a, z, b, w
      <4> QED
        BY <1>3, <4>1
    <3>2. k < u + 1
      BY <1>4, <3>1
    <3> QED
      BY <1>6, <2>1, <3>2
  <2>3. w < PAGE
    <3> SUFFICES ASSUME ~(w < PAGE) PROVE FALSE
      OBVIOUS
    <3>1. b = PAGE * u /\ a >= PAGE * k /\ PAGE * k \in Nat
      BY <1>1, <1>2, <1>3, <1>4, PageIs
    <3> HIDE DEF a, z, b, w
    <3> QED
      BY <1>3, <2>2, <3>1
  <2>4. v = 1
    BY <1>2, <2>3
  <2> QED
    BY <1>1, <1>2, <2>1, <2>2, <2>4
<1> QED
  BY <1>5, <1>6

(* Two BARs that are apart are apart when rounded, or share a page.         *)
LEMMA StillApart ==
  ASSUME NEW x, NEW y, OnGrid(x), OnGrid(y), ~overlaps(x, y)
  PROVE  Rounded(x) = Rounded(y) \/ ~overlaps(Rounded(x), Rounded(y))
<1>1. x[1] + x[2] <= y[1] \/ x[1] >= y[1] + y[2]
  BY DEF overlaps
<1>2. CASE x[1] + x[2] <= y[1]
  BY <1>2, BelowRounded DEF overlaps
<1>3. CASE x[1] >= y[1] + y[2]
  <2>1. y[1] + y[2] <= x[1]
    BY <1>3 DEF OnGrid
  <2>2. Rounded(y) = Rounded(x) \/ Rounded(y)[1] + Rounded(y)[2] <= Rounded(x)[1]
    BY <2>1, BelowRounded
  <2>3. PICK k \in Nat, n \in Nat \ {0} : Rounded(x) = <<PAGE * k, PAGE * n>>
    BY PagesOf
  <2>4. PICK u \in Nat, v \in Nat \ {0} : Rounded(y) = <<PAGE * u, PAGE * v>>
    BY PagesOf
  <2>5. Rounded(x)[1] \in Nat /\ Rounded(y)[1] \in Nat /\ Rounded(y)[2] \in Nat
    BY <2>3, <2>4, PageIs
  <2> QED
    BY <2>2, <2>5 DEF overlaps
<1> QED
  BY <1>1, <1>2, <1>3

\* The regions of the zone's devices.
Regs == UNION {get_bars_regions(found[d]) : d \in configured}

(* The regions that pci_bars_register has gone through are the zone's, or   *)
(* have failed in the page table: an insertion that fails for an overlap    *)
(* does so because the pages are mapped.                                    *)
BarInv == /\ found \in Layouts /\ configured \subseteq Devices
          /\ configured = {} => bars = found
          /\ todo \subseteq Regs
          /\ gpm \cup unfit = {placed(r) : r \in Regs \ todo}
          /\ stray \subseteq UNION {pagesOf(r[1], r[2]) : r \in unfit}

(* The places of the regions are those of the BARs.                         *)
LEMMA RegsAre ==
  ASSUME found \in Layouts, configured \subseteq Devices
  PROVE  /\ \A r \in Regs : \E d \in configured : \E x \in Ranges(found[d]) : placed(r) = Rounded(x)
         /\ \A d \in configured : \A x \in Ranges(found[d]) : OnGrid(x) /\ \E r \in Regs : placed(r) = Rounded(x)
<1>1. \A d \in configured :
        /\ get_bars_regions(found[d]) = {RegionOf(found[d], i) : i \in Own(found[d])}
        /\ found[d] \in Seq(BAR) /\ WellFormed(found[d])
  BY RegionsAre, PciAssumption
<1>2. \A d \in configured : \A i \in Own(found[d]) :
        OnGrid(range(found[d], i)) /\ placed(RegionOf(found[d], i)) = Rounded(range(found[d], i))
  BY <1>1, RegionPlaced
<1>3. ASSUME NEW r \in Regs PROVE \E d \in configured : \E x \in Ranges(found[d]) : placed(r) = Rounded(x)
  <2>1. PICK d \in configured : r \in get_bars_regions(found[d])
    BY DEF Regs
  <2>2. PICK i \in Own(found[d]) : r = RegionOf(found[d], i)
    BY <1>1, <2>1
  <2>3. range(found[d], i) \in Ranges(found[d])
    BY DEF Ranges
  <2> QED
    BY <1>2, <2>2, <2>3
<1>4. ASSUME NEW d \in configured, NEW x \in Ranges(found[d])
      PROVE  OnGrid(x) /\ \E r \in Regs : placed(r) = Rounded(x)
  <2>1. PICK i \in Own(found[d]) : x = range(found[d], i)
    BY DEF Ranges
  <2>2. RegionOf(found[d], i) \in Regs
    BY <1>1 DEF Regs
  <2> QED
    BY <1>2, <2>1, <2>2
<1> QED
  BY <1>3, <1>4

(* Two regions whose places overlap have the same place.                    *)
LEMMA OverlapIsSame ==
  ASSUME found \in Layouts, configured \subseteq Devices, NEW q \in Regs, NEW r \in Regs,
         overlaps(placed(r), placed(q))
  PROVE  placed(r) = placed(q)
<1>1. PICK d \in configured : \E x \in Ranges(found[d]) : placed(r) = Rounded(x)
  BY RegsAre
<1>2. PICK x \in Ranges(found[d]) : placed(r) = Rounded(x)
  BY <1>1
<1>3. PICK e \in configured : \E y \in Ranges(found[e]) : placed(q) = Rounded(y)
  BY RegsAre
<1>4. PICK y \in Ranges(found[e]) : placed(q) = Rounded(y)
  BY <1>3
<1>5. OnGrid(x) /\ OnGrid(y)
  BY RegsAre
<1>6. x = y \/ ~overlaps(x, y)
  <2>1. d \in Devices /\ e \in Devices
    OBVIOUS
  <2> QED
    BY <2>1, PciAssumption
<1> QED
  BY <1>2, <1>4, <1>5, <1>6, StillApart

(* Nothing is registered before pci_init.                                   *)
LEMMA BarInvInit == PciInit => BarInv
<1> SUFFICES ASSUME PciInit PROVE BarInv
  OBVIOUS
<1>1. /\ found \in Layouts /\ bars = found
      /\ gpm = {} /\ stray = {} /\ unfit = {} /\ configured = {} /\ todo = {}
  BY DEF PciInit
<1>2. Regs = {}
  BY <1>1 DEF Regs
<1> QED
  BY <1>1, <1>2 DEF BarInv

(* A region is inserted, fails in the page table, or overlaps: then it has  *)
(* the place of one that is mapped.                                         *)
LEMMA RegisterStep ==
  ASSUME BarInv, NEW r \in todo, pci_bars_register(r)
  PROVE  BarInv'
<1>1. /\ todo' = todo \ {r} /\ insert(placed(r))
      /\ bars' = bars /\ found' = found /\ configured' = configured
  BY Zenon DEF pci_bars_register
<1>2. /\ found \in Layouts /\ configured \subseteq Devices /\ todo \subseteq Regs
      /\ configured = {} => bars = found
      /\ gpm \cup unfit = {placed(q) : q \in Regs \ todo}
      /\ stray \subseteq UNION {pagesOf(q[1], q[2]) : q \in unfit}
  BY DEF BarInv
<1>3. Regs' = Regs
  BY <1>1 DEF Regs
<1> PICK p : p = placed(r)
  OBVIOUS
<1>4. /\ gpm' \cup unfit' = gpm \cup unfit \cup {p}
      /\ stray' \subseteq UNION {pagesOf(q[1], q[2]) : q \in unfit'}
  <2>1. CASE (\E x \in gpm : overlaps(p, x)) /\ UNCHANGED <<gpm, stray, unfit>>
    <3>1. PICK q \in Regs : placed(q) \in gpm /\ overlaps(p, placed(q))
      BY <1>2, <2>1
    <3>2. placed(r) = placed(q)
      BY <1>2, <3>1, OverlapIsSame
    <3> QED
      BY <1>2, <2>1, <3>1, <3>2
  <2>2. CASE gpm' = gpm \cup {p} /\ UNCHANGED <<stray, unfit>>
    BY <1>2, <2>2
  <2>3. CASE \E n \in pagesOf(p[1], p[2]) :
               /\ stray' = stray \cup {x \in pagesOf(p[1], p[2]) : x < n}
               /\ unfit' = unfit \cup {p} /\ gpm' = gpm
    BY <1>2, <2>3
  <2>4. insert(p)
    BY <1>1
  <2> QED
    BY <2>1, <2>2, <2>3, <2>4, Zenon DEF insert
<1>5. Regs \ todo' = (Regs \ todo) \cup {r}
  BY <1>1, <1>2
<1>6. gpm' \cup unfit' = {placed(q) : q \in Regs \ todo'}
  BY <1>2, <1>4, <1>5
<1>7. BarInv' <=> /\ found' \in Layouts /\ configured' \subseteq Devices /\ todo' \subseteq Regs'
                  /\ configured' = {} => bars' = found'
                  /\ gpm' \cup unfit' = {placed(q) : q \in Regs' \ todo'}
                  /\ stray' \subseteq UNION {pagesOf(q[1], q[2]) : q \in unfit'}
  BY DEF BarInv, placed, pagesOf
<1> QED
  BY <1>1, <1>2, <1>3, <1>4, <1>6, <1>7

(* Accesses of the guest change the BARs themselves, and only once they     *)
(* have been registered.                                                    *)
LEMMA BarInvStep == BarInv /\ [PciNext]_pcivars => BarInv'
<1> SUFFICES ASSUME BarInv, [PciNext]_pcivars PROVE BarInv'
  OBVIOUS
<1>0. BarInv' <=> /\ found' \in Layouts /\ configured' \subseteq Devices /\ todo' \subseteq Regs'
                  /\ configured' = {} => bars' = found'
                  /\ gpm' \cup unfit' = {placed(r) : r \in Regs' \ todo'}
                  /\ stray' \subseteq UNION {pagesOf(r[1], r[2]) : r \in unfit'}
  BY DEF BarInv, placed, pagesOf
<1>1. ASSUME pci_init PROVE BarInv'
  <2>1. /\ configured = {} /\ configured' = Devices /\ found' = found /\ bars' = bars
        /\ gpm' = gpm /\ stray' = stray /\ unfit' = unfit
        /\ todo' = UNION {get_bars_regions(bars[d]) : d \in Devices}
    BY <1>1 DEF pci_init
  <2>2. Regs' = todo'
    BY <2>1 DEF Regs, BarInv
  <2>3. Regs = {}
    BY <2>1 DEF Regs
  <2>4. gpm = {} /\ unfit = {} /\ stray = {} /\ bars = found /\ found \in Layouts
    BY <2>1, <2>3 DEF BarInv
  <2>5. {placed(r) : r \in Regs' \ todo'} = {}
    BY <2>2
  <2> QED
    BY <1>0, <2>1, <2>2, <2>4, <2>5
<1>2. ASSUME UNCHANGED <<found, gpm, stray, unfit, configured, todo>>, configured = {} => bars' = bars
      PROVE  BarInv'
  <2>1. Regs' = Regs
    BY <1>2 DEF Regs
  <2> QED
    BY <1>0, <1>2, <2>1 DEF BarInv
<1>3. ASSUME NEW d \in Devices, NEW i, NEW v, AccessBar(d, i, v) PROVE BarInv'
  <2>1. configured # {} /\ UNCHANGED <<found, gpm, stray, unfit, configured, todo>>
    BY <1>3 DEF AccessBar, Created
  <2> QED
    BY <1>2, <2>1
<1>4. CASE AtOther \/ UNCHANGED pcivars
  <2>1. UNCHANGED barvars
    BY <1>4, Zenon DEF AtOther, AccessAssigned, HeaderWindow, Header, push, WriteCommand, WriteLower,
                       WriteUpper, WriteWindow, set_cmd, AccessOther, pcivars
  <2> QED
    BY <1>2, <2>1 DEF barvars
<1>5. CASE AtBars
  BY <1>3, <1>5 DEF AtBars
<1>6. CASE SetUp
  BY <1>1, <1>6, RegisterStep DEF SetUp
<1> QED
  BY <1>4, <1>5, <1>6 DEF PciNext

(* For BARs of any sizes and a page of any size: when pci_bars_register is  *)
(* through, the zone has every page of its devices' BARs, as it found them, *)
(* but for insertions the page table refused, and no other page.            *)
THEOREM BarsAreMapped == PciSpec => []BarsMapped
<1>1. BarInv => BarsMapped
  <2> DEFINE missed == UNION {pagesOf(r[1], r[2]) : r \in unfit}
             ofBars == UNION {UNION {pagesOf(x[1], x[2]) : x \in Ranges(found[d])} : d \in configured}
  <2> SUFFICES ASSUME BarInv, todo = {}
               PROVE  Mapped \subseteq ofBars /\ ofBars \subseteq Mapped \cup missed
    BY DEF BarsMapped
  <2>1. /\ found \in Layouts /\ configured \subseteq Devices
        /\ gpm \cup unfit = {placed(r) : r \in Regs} /\ stray \subseteq missed
    BY DEF BarInv
  <2>0. \A p \in Mapped : \E x \in gpm \cup unfit : p \in pagesOf(x[1], x[2])
    BY <2>1 DEF Mapped
  <2>2. ASSUME NEW p \in Mapped
        PROVE  \E d \in configured : \E x \in Ranges(found[d]) : p \in pagesOf(x[1], x[2])
    <3>1. PICK r \in Regs : p \in pagesOf(placed(r)[1], placed(r)[2])
      BY <2>0, <2>1, <2>2
    <3>2. PICK d \in configured : \E x \in Ranges(found[d]) : placed(r) = Rounded(x)
      BY <2>1, RegsAre
    <3>3. PICK x \in Ranges(found[d]) : placed(r) = Rounded(x)
      BY <3>2
    <3>4. OnGrid(x)
      BY <2>1, RegsAre
    <3> QED
      BY <3>1, <3>3, <3>4, PagesKept
  <2>3. ASSUME NEW d \in configured, NEW x \in Ranges(found[d]), NEW p \in pagesOf(x[1], x[2])
        PROVE  p \in Mapped \cup missed
    <3>1. PICK r \in Regs : placed(r) = Rounded(x)
      BY <2>1, RegsAre
    <3>2. p \in pagesOf(placed(r)[1], placed(r)[2])
      BY <2>1, <3>1, RegsAre, PagesKept
    <3>3. placed(r) \in gpm \/ placed(r) \in unfit
      BY <2>1
    <3> QED
      BY <3>2, <3>3 DEF Mapped
  <2> QED
    BY <2>2, <2>3
<1> QED
  BY <1>1, BarInvInit, BarInvStep, PTL DEF PciSpec
-----------------------------------------------------------------------------
(***************************************************************************)
(* Smmu                                                                     *)
(***************************************************************************)
(* The indices of a queue, of any size the driver accepts.                  *)
Index == 0 .. 2 ^ (shift + 1) - 1
succ(i) == (i + 1) % 2 ^ (shift + 1)

(* The wrapping index of inc_prod is the successor modulo twice the queue's *)
(* size, and index and wrap bit together determine a register's value.      *)
LEMMA IndexArithmetic ==
  ASSUME shift \in 0 .. 8, NEW p \in Index, NEW c \in Index
  PROVE  /\ succ(p) \in Index /\ succ(p) # p /\ q_idx(p) \in 0 .. 2 ^ shift - 1
         /\ (q_wrap(p) * 2 ^ shift + q_idx(p) + 1) % (2 ^ (shift + 1)) = succ(p)
         /\ q_idx(p) = q_idx(c) /\ q_wrap(p) = q_wrap(c) => p = c
<1>1. CASE shift = 0
  BY <1>1 DEF Index, succ, q_wrap, q_idx
<1>2. CASE shift = 1
  BY <1>2 DEF Index, succ, q_wrap, q_idx
<1>3. CASE shift = 2
  BY <1>3 DEF Index, succ, q_wrap, q_idx
<1>4. CASE shift = 3
  BY <1>4 DEF Index, succ, q_wrap, q_idx
<1>5. CASE shift = 4
  BY <1>5 DEF Index, succ, q_wrap, q_idx
<1>6. CASE shift = 5
  BY <1>6 DEF Index, succ, q_wrap, q_idx
<1>7. CASE shift = 6
  BY <1>7 DEF Index, succ, q_wrap, q_idx
<1>8. CASE shift = 7
  BY <1>8 DEF Index, succ, q_wrap, q_idx
<1>9. CASE shift = 8
  BY <1>9 DEF Index, succ, q_wrap, q_idx
<1> QED
  BY <1>1, <1>2, <1>3, <1>4, <1>5, <1>6, <1>7, <1>8, <1>9

(* The registers start in range.                                            *)
LEMMA ZeroIsIndex == shift \in 0 .. 8 => 0 \in Index
<1> SUFFICES ASSUME shift \in 0 .. 8
             PROVE  0 \in Index
  OBVIOUS
<1>1. CASE shift = 0
  BY <1>1 DEF Index
<1>2. CASE shift = 1
  BY <1>2 DEF Index
<1>3. CASE shift = 2
  BY <1>3 DEF Index
<1>4. CASE shift = 3
  BY <1>4 DEF Index
<1>5. CASE shift = 4
  BY <1>5 DEF Index
<1>6. CASE shift = 5
  BY <1>6 DEF Index
<1>7. CASE shift = 6
  BY <1>7 DEF Index
<1>8. CASE shift = 7
  BY <1>8 DEF Index
<1>9. CASE shift = 8
  BY <1>9 DEF Index
<1> QED
  BY <1>1, <1>2, <1>3, <1>4, <1>5, <1>6, <1>7, <1>8, <1>9

(* What iommu_add_device is doing, for a zone the stream was given to.      *)
JobShape ==
  \/ job = Idle
  \/ /\ job.sid \in Sid /\ job.zone \in owners[job.sid]
     /\ \/ /\ job.at \in {"insert", "drain"} /\ job.cmd \in {Cfgi(job.sid), Sync}
           /\ job = [at |-> job.at, cmd |-> job.cmd, sid |-> job.sid, zone |-> job.zone]
        \/ /\ job.at = "write" /\ job.left \subseteq {"cfg", "vmid", "ttb"}
           /\ job = [at |-> "write", left |-> job.left, sid |-> job.sid, zone |-> job.zone]

(* At most one command is in the queue, and the driver knows when it is     *)
(* consumed.                                                                *)
QueueInv ==
  /\ shift \in 0 .. 8 /\ prod \in Index /\ cons \in Index /\ CONS \in Index
  /\ PROD = prod /\ ring = [i \in 0 .. 2 ^ shift - 1 |-> ring[i]]
  /\ job.at # "drain" => cons = prod /\ CONS = prod
  /\ cons = prod => CONS = prod
  /\ CONS # prod => /\ job.at = "drain" /\ succ(CONS) = prod
                    /\ ring[q_idx(CONS)] = job.cmd

(* The entry of a stream in the table and in the SMMU's cache, given the    *)
(* zones it was given to.                                                   *)
EntryInv(s) ==
  /\ owners[s] = {} => ste[s] = was[s] /\ cache[s] \in {NoEntry, was[s]}
  /\ \A z : owners[s] = {z} =>
       /\ ste[s].cfg \in {Bypass, S2_TRANS}
       /\ \A f \in {"vmid", "ttb"} : ste[s][f] \in {was[s][f], Added(s, z, f)}
       /\ cache[s] = NoEntry \/ \A f \in {"vmid", "ttb"} : cache[s][f] \in {was[s][f], Added(s, z, f)}
       /\ ~Writing(s) => ste[s].cfg = S2_TRANS /\ \A f \in {"vmid", "ttb"} : ste[s][f] = Added(s, z, f)
       /\ Writing(s) /\ job.at = "write" =>
            /\ "cfg" \notin job.left => ste[s].cfg = S2_TRANS
            /\ \A f \in {"vmid", "ttb"} : f \notin job.left => ste[s][f] = Added(s, z, f)

StreamInv(s) ==
  /\ ste[s] = [cfg |-> ste[s].cfg, vmid |-> ste[s].vmid, ttb |-> ste[s].ttb]
  /\ was[s] = [cfg |-> Bypass, vmid |-> was[s].vmid, ttb |-> was[s].ttb]
  /\ allocated => EntryInv(s)

(* The inductive invariant.                                                 *)
SmmuInv ==
  /\ JobShape /\ QueueInv
  /\ ste = [s \in Sid |-> ste[s]] /\ cache = [s \in Sid |-> cache[s]]
  /\ owners = [s \in Sid |-> owners[s]]
  /\ \A s \in Sid : StreamInv(s)

(* Smmuv3::new leaves an empty queue and bypass entries.                    *)
LEMMA SmmuInvInit == SmmuInit => SmmuInv
<1> SUFFICES ASSUME SmmuInit PROVE SmmuInv
  OBVIOUS
<1>1. PICK r \in Shifts : init_cmdq(r)
  BY DEF SmmuInit
<1>2. shift \in 0 .. 8 /\ prod = 0 /\ cons = 0 /\ PROD = 0 /\ CONS = 0
  BY <1>1, SmmuAssumption DEF init_cmdq, CMDQ_MAX_SZ_SHIFT
<1>3. 0 \in Index
  BY <1>2, ZeroIsIndex
<1>4. job = Idle /\ job.at = "idle"
  BY DEF SmmuInit, Idle
<1>5. QueueInv
  BY <1>1, <1>2, <1>3, <1>4 DEF QueueInv, init_cmdq
<1>6. \A s \in Sid : StreamInv(s)
  BY DEF SmmuInit, init_linear_strtab, StreamInv, EntryInv
<1> QED
  BY <1>4, <1>5, <1>6 DEF SmmuInit, SmmuInv, JobShape, init_linear_strtab

(* A step that leaves the queue's indices and memory alone, and its command.*)
LEMMA QueueKept ==
  ASSUME QueueInv, UNCHANGED <<queueVars, CONS>>,
         CONS # prod => job'.at = "drain" /\ job'.cmd = job.cmd,
         job.at = "drain" /\ job'.at # "drain" => cons = prod
  PROVE  QueueInv'
BY DEF QueueInv, queueVars, Index, succ, q_idx

(* A stream is given to a zone: its entry is not touched yet.               *)
LEMMA AddDeviceStep ==
  ASSUME SmmuInv, NEW z \in SmmuZone, NEW s \in Sid, iommu_add_device(z, s)
  PROVE  SmmuInv'
<1>1. /\ job = Idle /\ owners' = [owners EXCEPT ![s] = @ \cup {z}]
      /\ job' = [at |-> "insert", cmd |-> Cfgi(s), sid |-> s, zone |-> z]
      /\ UNCHANGED <<queueVars, CONS, enabled, ste, cache, tableVars>>
  BY DEF iommu_add_device
<1>2. job.at = "idle" /\ job'.at = "insert" /\ job'.sid = s /\ job'.cmd = Cfgi(s) /\ job'.zone = z
  BY <1>1 DEF Idle
<1>3. /\ owners' = [x \in Sid |-> owners'[x]] /\ owners'[s] = owners[s] \cup {z}
      /\ \A x \in Sid : x # s => owners'[x] = owners[x]
  BY <1>1 DEF SmmuInv
<1>4. JobShape'
  BY <1>1, <1>2, <1>3 DEF JobShape
<1>5. QueueInv'
  BY <1>1, <1>2, QueueKept DEF SmmuInv, QueueInv
<1>6. ASSUME NEW x \in Sid PROVE StreamInv(x)'
  <2>1. StreamInv(x) /\ ~Writing(x)
    BY <1>2 DEF SmmuInv, Writing
  <2>2. CASE x # s
    BY <1>1, <1>2, <1>3, <2>1, <2>2 DEF StreamInv, EntryInv, Writing, Added, tableVars
  <2>3. CASE x = s
    <3>1. ste'[s] = ste[s] /\ cache'[s] = cache[s] /\ Writing(s)' /\ job'.at # "write"
      BY <1>1, <1>2 DEF Writing
    <3>2. ASSUME NEW y, owners'[s] = {y}
          PROVE  owners[s] = {} \/ owners[s] = {y}
      BY <1>3, <3>2
    <3>3. was[s].cfg = Bypass /\ UNCHANGED <<allocated, was>>
      BY <1>1, <2>1, <2>3 DEF StreamInv, tableVars
    <3>4. \A y, f : Added(s, y, f)' = Added(s, y, f)
      BY <3>3 DEF Added
    <3>5. EntryInv(s)' \/ ~allocated
      <4> SUFFICES ASSUME allocated PROVE EntryInv(s)'
        OBVIOUS
      <4>1. EntryInv(s)
        BY <2>1, <2>3 DEF StreamInv
      <4> QED
        BY <1>3, <2>1, <2>3, <3>1, <3>2, <3>3, <3>4, <4>1 DEF EntryInv
    <3> QED
      BY <2>1, <2>3, <3>1, <3>3, <3>5 DEF StreamInv
  <2> QED
    BY <2>2, <2>3
<1> QED
  BY <1>1, <1>3, <1>4, <1>5, <1>6 DEF SmmuInv

(* The streams do not depend on what iommu_add_device does before it writes *)
(* the entry.                                                               *)
LEMMA StreamsUntouched ==
  ASSUME SmmuInv, UNCHANGED <<ste, cache, owners, tableVars>>,
         \A s \in Sid : Writing(s)' <=> Writing(s),
         \A f \in {"cfg", "vmid", "ttb"} :
           job'.at = "write" /\ f \notin job'.left => job.at = "write" /\ f \notin job.left
  PROVE  \A s \in Sid : StreamInv(s)'
<1>1. \A s, z, f : Added(s, z, f)' = Added(s, z, f)
  BY DEF Added, tableVars
<1>2. ASSUME NEW s \in Sid PROVE StreamInv(s)'
  <2>1. StreamInv(s) /\ UNCHANGED <<allocated, was>>
    BY DEF SmmuInv, tableVars
  <2>2. ASSUME EntryInv(s) PROVE EntryInv(s)'
    BY <1>1, <2>1, <2>2 DEF EntryInv
  <2> QED
    BY <2>1, <2>2 DEF StreamInv
<1> QED
  BY <1>2

(* The steps of cmd_insert.                                                 *)
LEMMA InsertSteps ==
  ASSUME SmmuInv, Poll \/ Insert \/ Drained
  PROVE  SmmuInv'
<1>1. /\ QueueInv /\ shift \in 0 .. 8 /\ prod \in Index /\ cons \in Index /\ CONS \in Index
      /\ JobShape /\ UNCHANGED <<ste, cache, owners, tableVars>>
  BY DEF SmmuInv, QueueInv, Poll, Insert, Drained
<1>2. CASE Poll
  <2>1. cons' = CONS /\ UNCHANGED <<shift, prod, PROD, CONS, ring, job>>
    BY <1>2 DEF Poll
  <2>2. QueueInv'
    BY <1>1, <2>1 DEF QueueInv, Index, succ, q_idx
  <2>3. \A s \in Sid : StreamInv(s)'
    BY <1>1, <2>1, StreamsUntouched DEF Writing
  <2> QED
    BY <1>1, <2>1, <2>2, <2>3 DEF SmmuInv, JobShape
<1>3. CASE Insert
  <2>1. /\ job.at = "insert" /\ job' = [job EXCEPT !.at = "drain"]
        /\ ring' = [ring EXCEPT ![q_idx(prod)] = job.cmd]
        /\ prod' = inc_prod /\ PROD' = inc_prod /\ UNCHANGED <<shift, cons, CONS>>
    BY <1>3 DEF Insert
  <2>2. /\ job' = [at |-> "drain", cmd |-> job.cmd, sid |-> job.sid, zone |-> job.zone]
        /\ job.sid \in Sid /\ job.zone \in owners[job.sid] /\ job.cmd \in {Cfgi(job.sid), Sync}
    BY <1>1, <2>1 DEF JobShape, Idle
  <2>3. JobShape'
    BY <1>1, <2>2 DEF JobShape
  <2>4. cons = prod /\ CONS = prod /\ prod' = succ(prod) /\ prod' \in Index /\ prod' # prod
    BY <1>1, <2>1, IndexArithmetic DEF QueueInv, inc_prod
  <2>5. ring' = [i \in 0 .. 2 ^ shift - 1 |-> ring'[i]] /\ ring'[q_idx(CONS)] = job.cmd
    BY <1>1, <2>1, <2>4, IndexArithmetic DEF QueueInv
  <2>6. QueueInv'
    BY <1>1, <2>1, <2>2, <2>4, <2>5 DEF QueueInv, Index, succ, q_idx
  <2>7. \A s \in Sid : StreamInv(s)'
    BY <1>1, <2>1, <2>2, StreamsUntouched DEF Writing
  <2> QED
    BY <1>1, <2>3, <2>6, <2>7 DEF SmmuInv
<1>4. CASE Drained
  <2>1. /\ job.at = "drain" /\ q_empty /\ UNCHANGED <<queueVars, CONS>>
        /\ job' = IF job.cmd = Sync
                  THEN [at |-> "write", left |-> {"cfg", "vmid", "ttb"}, sid |-> job.sid, zone |-> job.zone]
                  ELSE [job EXCEPT !.at = "insert", !.cmd = Sync]
    BY <1>4 DEF Drained
  <2>2. prod = cons /\ CONS = prod
    BY <1>1, <2>1, IndexArithmetic DEF q_empty, QueueInv
  <2>3. /\ job = [at |-> "drain", cmd |-> job.cmd, sid |-> job.sid, zone |-> job.zone]
        /\ job.sid \in Sid /\ job.zone \in owners[job.sid]
    BY <1>1, <2>1 DEF JobShape, Idle
  <2>4. \/ job' = [at |-> "write", left |-> {"cfg", "vmid", "ttb"}, sid |-> job.sid, zone |-> job.zone]
        \/ job' = [at |-> "insert", cmd |-> Sync, sid |-> job.sid, zone |-> job.zone]
    BY <2>1, <2>3
  <2>5. JobShape'
    BY <1>1, <2>3, <2>4 DEF JobShape
  <2>6. QueueInv'
    BY <1>1, <2>1, <2>2, QueueKept
  <2>7. \A s \in Sid : StreamInv(s)'
    BY <1>1, <2>1, <2>4, StreamsUntouched DEF Writing
  <2> QED
    BY <1>1, <2>5, <2>6, <2>7 DEF SmmuInv
<1> QED
  BY <1>2, <1>3, <1>4

(* A double word of the entry is written.                                   *)
LEMMA WriteStep ==
  ASSUME SmmuInv, NEW f \in {"cfg", "vmid", "ttb"}, write_ste(f)
  PROVE  SmmuInv'
<1>1. PICK s, z : s = job.sid /\ z = job.zone
  OBVIOUS
<1>2. /\ job.at = "write" /\ f \in job.left /\ job' = [job EXCEPT !.left = @ \ {f}]
      /\ ste' = [ste EXCEPT ![s][f] = @ \cup Entry(z)[f]]
      /\ UNCHANGED <<queueVars, CONS, enabled, cache, owners, allocated, was>>
  BY <1>1 DEF write_ste, tableVars
<1>3. /\ job = [at |-> "write", left |-> job.left, sid |-> s, zone |-> z]
      /\ s \in Sid /\ z \in owners[s] /\ job.left \subseteq {"cfg", "vmid", "ttb"}
  BY <1>1, <1>2 DEF SmmuInv, JobShape, Idle
<1>4. job' = [at |-> "write", left |-> job.left \ {f}, sid |-> s, zone |-> z]
  BY <1>2, <1>3
<1>5. JobShape'
  BY <1>2, <1>3, <1>4 DEF JobShape
<1>6. QueueInv'
  BY <1>2, <1>4, QueueKept DEF SmmuInv, QueueInv
<1>7. /\ ste' = [x \in Sid |-> ste'[x]] /\ \A x \in Sid : x # s => ste'[x] = ste[x]
  BY <1>2 DEF SmmuInv
<1>8. \A x, y, g : Added(x, y, g)' = Added(x, y, g)
  BY <1>2 DEF Added
<1>9. ASSUME NEW x \in Sid, x # s PROVE StreamInv(x)'
  <2>1. ~Writing(x) /\ ~Writing(x)' /\ ste'[x] = ste[x] /\ StreamInv(x)
    BY <1>1, <1>4, <1>7, <1>9 DEF Writing, SmmuInv
  <2> QED
    BY <1>2, <1>8, <2>1 DEF StreamInv, EntryInv
<1>10. StreamInv(s)'
  <2> DEFINE e == ste[s]
  <2>1. /\ e = [cfg |-> e.cfg, vmid |-> e.vmid, ttb |-> e.ttb] /\ Writing(s) /\ Writing(s)'
        /\ was[s] = [cfg |-> Bypass, vmid |-> was[s].vmid, ttb |-> was[s].ttb]
        /\ allocated => EntryInv(s)
    BY <1>1, <1>2, <1>3, <1>4 DEF SmmuInv, StreamInv, Writing
  <2>2. ste'[s][f] = e[f] \cup Entry(z)[f] /\ \A g \in {"cfg", "vmid", "ttb"} \ {f} : ste'[s][g] = e[g]
    BY <1>2, <1>3, <2>1 DEF SmmuInv
  <2>3. ste'[s] = [cfg |-> ste'[s].cfg, vmid |-> ste'[s].vmid, ttb |-> ste'[s].ttb]
    BY <1>2, <1>3, <2>1 DEF SmmuInv
  <2>4. owners[s] # {} /\ \A y : owners[s] = {y} => y = z
    BY <1>3
  <2>5. Entry(z).cfg = S2_TRANS /\ Bypass \cup S2_TRANS = S2_TRANS
    BY DEF Entry, Bypass, S2_TRANS
  <2>6. \A g \in {"vmid", "ttb"} :
          was[s][g] \cup Entry(z)[g] = Added(s, z, g) /\ Added(s, z, g) \cup Entry(z)[g] = Added(s, z, g)
    BY DEF Added
  <2>7. job'.left = job.left \ {f}
    BY <1>4
  <2>8. ASSUME allocated, owners[s] = {z}
        PROVE  /\ ste'[s].cfg \in {Bypass, S2_TRANS}
               /\ \A g \in {"vmid", "ttb"} : ste'[s][g] \in {was[s][g], Added(s, z, g)}
               /\ "cfg" \notin job'.left => ste'[s].cfg = S2_TRANS
               /\ \A g \in {"vmid", "ttb"} : g \notin job'.left => ste'[s][g] = Added(s, z, g)
    <3>1. /\ e.cfg \in {Bypass, S2_TRANS}
          /\ \A g \in {"vmid", "ttb"} : e[g] \in {was[s][g], Added(s, z, g)}
          /\ "cfg" \notin job.left => e.cfg = S2_TRANS
          /\ \A g \in {"vmid", "ttb"} : g \notin job.left => e[g] = Added(s, z, g)
      BY <1>2, <2>1, <2>8 DEF EntryInv
    <3> HIDE DEF e
    <3>2. ste'[s].cfg \in {Bypass, S2_TRANS} /\ ("cfg" \notin job'.left => ste'[s].cfg = S2_TRANS)
      BY <2>2, <2>5, <2>7, <3>1
    <3>3. ASSUME NEW g \in {"vmid", "ttb"}
          PROVE  /\ ste'[s][g] \in {was[s][g], Added(s, z, g)}
                 /\ g \notin job'.left => ste'[s][g] = Added(s, z, g)
      BY <2>2, <2>6, <2>7, <3>1, <3>3
    <3> QED
      BY <3>2, <3>3
  <2>9. allocated => EntryInv(s)'
    BY <1>2, <1>8, <2>1, <2>4, <2>8 DEF EntryInv
  <2> QED
    BY <1>2, <2>1, <2>3, <2>9 DEF StreamInv
<1> QED
  BY <1>2, <1>5, <1>6, <1>7, <1>9, <1>10 DEF SmmuInv

(* iommu_add_device returns when all three are written.                     *)
LEMMA AddDeviceReturnsStep == ASSUME SmmuInv, Return PROVE SmmuInv'
<1>1. /\ job.at = "write" /\ job.left = {} /\ job' = Idle
      /\ UNCHANGED <<queueVars, CONS, enabled, ste, cache, owners, allocated, was>>
  BY DEF Return, tableVars
<1>2. job'.at = "idle"
  BY <1>1 DEF Idle
<1>3. QueueInv'
  BY <1>1, <1>2, QueueKept DEF SmmuInv, QueueInv
<1>4. ASSUME NEW s \in Sid PROVE StreamInv(s)'
  <2>1. StreamInv(s) /\ ~Writing(s)'
    BY <1>2 DEF SmmuInv, Writing
  <2>2. \A z, f : Added(s, z, f)' = Added(s, z, f)
    BY <1>1 DEF Added
  <2>3. ASSUME NEW z, owners[s] = {z}, allocated, job.sid = s
        PROVE  ste[s].cfg = S2_TRANS /\ \A f \in {"vmid", "ttb"} : ste[s][f] = Added(s, z, f)
    BY <1>1, <2>1, <2>3 DEF StreamInv, EntryInv, Writing
  <2>4. ASSUME NEW z, owners[s] = {z}, allocated
        PROVE  ste[s].cfg = S2_TRANS /\ \A f \in {"vmid", "ttb"} : ste[s][f] = Added(s, z, f)
    BY <2>1, <2>3, <2>4 DEF StreamInv, EntryInv, Writing
  <2>5. allocated => EntryInv(s)'
    BY <1>1, <2>1, <2>2, <2>4 DEF StreamInv, EntryInv
  <2> QED
    BY <1>1, <2>1, <2>5 DEF StreamInv
<1> QED
  BY <1>1, <1>3, <1>4 DEF SmmuInv, JobShape

(* The SMMU's own steps.                                                    *)
LEMMA HardwareSteps ==
  ASSUME SmmuInv, Ack \/ Consume \/ \E s \in Sid : Fetch(s)
  PROVE  SmmuInv'
<1>1. UNCHANGED <<queueVars, ste, job, owners, allocated, was>>
  BY DEF Ack, Consume, Fetch, tableVars
<1>2. JobShape'
  BY <1>1 DEF SmmuInv, JobShape
<1>3. QueueInv'
  <2>1. CASE UNCHANGED CONS
    BY <1>1, <2>1, QueueKept DEF SmmuInv, QueueInv
  <2>2. CASE Consume
    <3>1. CONS # prod /\ CONS' = succ(CONS) /\ CONS' = prod /\ job.at = "drain"
      BY <2>2 DEF Consume, SmmuInv, QueueInv, succ
    <3> QED
      BY <1>1, <3>1 DEF SmmuInv, QueueInv, queueVars, Index, succ, q_idx
  <2> QED
    BY <2>1, <2>2 DEF Ack, Fetch
<1>4. /\ cache' = [s \in Sid |-> cache'[s]]
      /\ \A s \in Sid : cache'[s] \in {NoEntry, cache[s], ste[s]}
  <2>1. CASE UNCHANGED cache
    BY <2>1 DEF SmmuInv
  <2>2. CASE Consume
    <3>1. PICK c : /\ c = job.cmd
                   /\ cache' = IF c.op = "CFGI_STE" THEN [cache EXCEPT ![c.sid] = NoEntry] ELSE cache
      BY <2>2 DEF Consume, SmmuInv, QueueInv
    <3> QED
      BY <3>1 DEF SmmuInv
  <2>3. ASSUME NEW s \in Sid, Fetch(s)
        PROVE  /\ cache' = [x \in Sid |-> cache'[x]]
               /\ \A x \in Sid : cache'[x] \in {NoEntry, cache[x], ste[x]}
    BY <2>3 DEF Fetch, SmmuInv
  <2> QED
    BY <2>1, <2>2, <2>3 DEF Ack
<1>5. ASSUME NEW s \in Sid PROVE StreamInv(s)'
  <2>1. StreamInv(s) /\ cache'[s] \in {NoEntry, cache[s], ste[s]} /\ (Writing(s)' <=> Writing(s))
    BY <1>1, <1>4 DEF SmmuInv, Writing
  <2>2. \A z, f : Added(s, z, f)' = Added(s, z, f)
    BY <1>1 DEF Added
  <2>3. allocated => EntryInv(s)'
    BY <1>1, <2>1, <2>2 DEF StreamInv, EntryInv
  <2> QED
    BY <1>1, <2>1, <2>3 DEF StreamInv
<1> QED
  BY <1>1, <1>2, <1>3, <1>4, <1>5 DEF SmmuInv

(* Without frames of its own the table says nothing.                        *)
LEMMA OverwriteStep == ASSUME SmmuInv, NEW s \in Sid, Overwrite(s) PROVE SmmuInv'
<1>1. ~allocated /\ UNCHANGED <<queueVars, CONS, job, owners, cache, allocated, was>>
  BY DEF Overwrite, tableVars
<1>2. ste' = [x \in Sid |-> ste'[x]] /\ \A x \in Sid : x # s => ste'[x] = ste[x]
  BY DEF Overwrite, SmmuInv
<1>3. ste'[s] = [cfg |-> {}, vmid |-> ste[s].vmid, ttb |-> ste[s].ttb]
  <2>1. ste[s] = [cfg |-> ste[s].cfg, vmid |-> ste[s].vmid, ttb |-> ste[s].ttb]
    BY DEF SmmuInv, StreamInv
  <2>2. ste'[s] = [ste[s] EXCEPT !.cfg = {}]
    BY DEF Overwrite, SmmuInv
  <2> QED
    BY <2>1, <2>2
<1>4. JobShape' /\ QueueInv'
  BY <1>1, QueueKept DEF SmmuInv, QueueInv, JobShape
<1>5. \A x \in Sid : StreamInv(x)'
  BY <1>1, <1>2, <1>3 DEF SmmuInv, StreamInv
<1> QED
  BY <1>1, <1>2, <1>4, <1>5 DEF SmmuInv

(* Every step of the driver and of the SMMU keeps SmmuInv.                  *)
LEMMA SmmuInvStep == SmmuInv /\ [SmmuNext]_smvars => SmmuInv'
<1> SUFFICES ASSUME SmmuInv, [SmmuNext]_smvars PROVE SmmuInv'
  OBVIOUS
<1>1. CASE UNCHANGED smvars
  <2>1. UNCHANGED <<queueVars, CONS, ste, cache, owners, job, tableVars>>
    BY <1>1 DEF smvars, queueVars, tableVars
  <2>2. QueueInv'
    BY <2>1, QueueKept DEF SmmuInv, QueueInv
  <2>3. \A s \in Sid : StreamInv(s)'
    BY <2>1, StreamsUntouched DEF Writing
  <2> QED
    BY <2>1, <2>2, <2>3 DEF SmmuInv, JobShape
<1> QED
  BY <1>1, AddDeviceStep, InsertSteps, WriteStep, AddDeviceReturnsStep, HardwareSteps,
     OverwriteStep DEF SmmuNext, Driver, Hardware

(* For every size of the command queue, any streams and any page tables: the*)
(* SMMU consumes only commands written for it and all of them before an     *)
(* entry is changed, and the entry of a stream that always went to one zone *)
(* has that zone's bits and those the frames of the table held, in the table*)
(* and, piece by piece, in the SMMU's cache.                                *)
THEOREM StreamsAreKept == SmmuSpec => []StreamsKept
<1>1. SmmuInv => StreamsKept
  <2> SUFFICES ASSUME SmmuInv PROVE StreamsKept
    OBVIOUS
  <2>1. SteOfOwner
    BY DEF SteOfOwner, SmmuInv, StreamInv, EntryInv
  <2>2. SyncedBeforeWrite
    BY DEF SyncedBeforeWrite, SmmuInv, QueueInv
  <2> QED
    BY <2>1, <2>2 DEF StreamsKept
<1> QED
  BY <1>1, SmmuInvInit, SmmuInvStep, PTL DEF SmmuSpec
-----------------------------------------------------------------------------
(***************************************************************************)
(* Ivc                                                                      *)
(***************************************************************************)
(* The fields a zone has, by how far it has come.                           *)
ZoneShape(z) ==
  \/ izone[z] = Gone
  \/ /\ izone[z].st \in {"init", "checked", "refused"} /\ izone[z].next \in Nat \ {0}
     /\ izone[z] = [st |-> izone[z].st, cfg |-> izone[z].cfg, next |-> izone[z].next,
                    gpm |-> izone[z].gpm, mmio |-> izone[z].mmio]
  \/ /\ izone[z].st = "runs" /\ izone[z].ok \in BOOLEAN
     /\ izone[z] = [st |-> "runs", ok |-> izone[z].ok, cfg |-> izone[z].cfg,
                    gpm |-> izone[z].gpm, mmio |-> izone[z].mmio]

(* Zone z takes part in the region of id as r says: it maps the memory that *)
(* the record has, and the record names it at its peer number.              *)
TakesPart(z, id, r) == /\ r.id = id /\ id \in DOMAIN records
                       /\ izone[z].gpm[id] = sections(r, records[id].mem)
                       /\ r.peer \in DOMAIN records[id].peers
                       /\ records[id].peers[r.peer].zone = z

(* What a zone has mapped is the regions it takes part in, its control      *)
(* tables are at addresses of its configuration, and when no region was     *)
(* refused it takes part in all of them and IVC_INFOS has its configuration.*)
ZoneParts(z) ==
  /\ izone[z].cfg \in Configs[z]
  /\ \A a \in izone[z].mmio : \E i \in DOMAIN izone[z].cfg : izone[z].cfg[i].ct = a
  /\ \A i \in DOMAIN izone[z].cfg :
       izone[z].st = "init" /\ i < izone[z].next => izone[z].cfg[i].id \in DOMAIN izone[z].gpm
  /\ \A i \in DOMAIN izone[z].cfg :
       izone[z].st = "checked" \/ (izone[z].st = "runs" /\ izone[z].ok)
         => izone[z].cfg[i].id \in DOMAIN izone[z].gpm
  /\ \A id \in DOMAIN izone[z].gpm : \E i \in DOMAIN izone[z].cfg : TakesPart(z, id, izone[z].cfg[i])
  /\ izone[z].st = "checked" \/ (izone[z].st = "runs" /\ izone[z].ok)
       => z \in DOMAIN infos /\ infos[z] = izone[z].cfg

(* Every entry of IVC_RECORDS is of the zone whose peer number it has.      *)
RecordsOwn ==
  \A id \in DOMAIN records : \A p \in DOMAIN records[id].peers :
    \E y \in ZoneId : \E q \in Regions(y) : q.id = id /\ q.peer = p /\ records[id].peers[p].zone = y

(* The inductive invariant.                                                 *)
IvcInv ==
  /\ izone = [z \in ZoneId |-> izone[z]]
  /\ \A z \in ZoneId : ZoneShape(z)
  /\ \A z \in ZoneId : izone[z] # Gone => ZoneParts(z)
  /\ RecordsOwn
  /\ \A z \in panicked : z \in ZoneId /\ izone[z].st = "runs" /\ ~izone[z].ok

(* Both tables are empty and no zone exists.                                *)
LEMMA IvcInvInit == IvcInit => IvcInv
<1> SUFFICES ASSUME IvcInit PROVE IvcInv
  OBVIOUS
<1>1. \A z \in ZoneId : izone[z] = Gone
  BY DEF IvcInit
<1>2. DOMAIN records = {}
  BY DEF IvcInit
<1> QED
  BY <1>1, <1>2 DEF IvcInit, IvcInv, ZoneShape, RecordsOwn

(* A region of a configuration is a region of the zone.                     *)
LEMMA RegionOfZone ==
  ASSUME NEW z \in ZoneId, NEW c \in Configs[z], NEW i \in DOMAIN c
  PROVE  c[i] \in Regions(z) /\ c[i] \in IvcConfig /\ c \in Seq(IvcConfig)
<1>1. c \in Seq(IvcConfig)
  BY IvcAssumption
<1> QED
  BY <1>1 DEF Regions

(* What a zone takes part in depends on its mapping and on the records.     *)
LEMMA PartsFrame ==
  ASSUME NEW z, izone'[z].gpm = izone[z].gpm, UNCHANGED records
  PROVE  \A id, r : TakesPart(z, id, r)' <=> TakesPart(z, id, r)
BY DEF TakesPart

(* A zone that a step leaves alone is as it was.                            *)
LEMMA ZoneFrame ==
  ASSUME NEW z, izone'[z] = izone[z], UNCHANGED records,
         z \in DOMAIN infos => z \in DOMAIN infos' /\ infos'[z] = infos[z],
         ZoneShape(z), izone[z] # Gone => ZoneParts(z)
  PROVE  ZoneShape(z)' /\ (izone'[z] # Gone => ZoneParts(z)')
<1>1. ZoneShape(z)'
  BY DEF ZoneShape
<1>2. \A id, r : TakesPart(z, id, r)' <=> TakesPart(z, id, r)
  BY PartsFrame
<1>3. ASSUME izone[z] # Gone PROVE ZoneParts(z)'
  BY <1>2, <1>3 DEF ZoneParts
<1> QED
  BY <1>1, <1>3

(* So is a zone whose creation only comes to its next stage.                *)
LEMMA PartsKept ==
  ASSUME NEW z, ZoneParts(z), UNCHANGED records,
         izone'[z].cfg = izone[z].cfg, izone'[z].gpm = izone[z].gpm, izone'[z].mmio = izone[z].mmio,
         izone'[z].st = "checked" \/ (izone'[z].st = "runs" /\ izone'[z].ok)
           => /\ z \in DOMAIN infos' /\ infos'[z] = izone[z].cfg
              /\ \A i \in DOMAIN izone[z].cfg : izone[z].cfg[i].id \in DOMAIN izone[z].gpm,
         izone'[z].st # "init"
  PROVE  ZoneParts(z)'
<1>1. \A id, r : TakesPart(z, id, r)' <=> TakesPart(z, id, r)
  BY PartsFrame
<1> QED
  BY <1>1 DEF ZoneParts

(* The steps that touch neither table.                                      *)
LEMMA ZoneSteps ==
  ASSUME IvcInv, NEW z \in ZoneId, 
         (\E c \in Configs[z] : Start(z, c)) \/ IvcRefused(z) \/ Run(z) \/ StartFails(z) \/ Shutdown(z)
  PROVE  IvcInv'
<1>1. panicked = {} /\ UNCHANGED <<records, infos, panicked>>
  BY DEF Start, IvcRefused, Run, StartFails, Shutdown, Up
<1>0. izone = [x \in ZoneId |-> izone[x]]
  BY DEF IvcInv
<1>2. /\ izone' = [x \in ZoneId |-> izone'[x]]
      /\ \A x \in ZoneId : x # z => izone'[x] = izone[x]
  <2>1. \E v : izone' = [izone EXCEPT ![z] = v]
    BY DEF Start, IvcRefused, Run, StartFails, Shutdown
  <2> QED
    BY <1>0, <2>1
<1>3. ASSUME NEW x \in ZoneId, x # z
      PROVE  ZoneShape(x)' /\ (izone'[x] # Gone => ZoneParts(x)')
  <2>1. izone'[x] = izone[x] /\ ZoneShape(x) /\ (izone[x] # Gone => ZoneParts(x))
    BY <1>2, <1>3 DEF IvcInv
  <2> QED
    BY <1>1, <2>1, ZoneFrame
<1>4. ZoneShape(z)' /\ (izone'[z] # Gone => ZoneParts(z)')
  <2>1. ZoneShape(z) /\ (izone[z] # Gone => ZoneParts(z))
    BY DEF IvcInv
  <2>2. CASE izone'[z] = Gone
    BY <2>2 DEF ZoneShape
  <2>3. ASSUME NEW c \in Configs[z], Start(z, c)
        PROVE  ZoneShape(z)' /\ ZoneParts(z)'
    <3>1. izone'[z] = [st |-> "init", cfg |-> c, next |-> 1, gpm |-> << >>, mmio |-> {}]
      BY <1>0, <2>3 DEF Start
    <3>2. DOMAIN izone'[z].gpm = {} /\ \A i \in DOMAIN c : ~(i < 1)
      <4>1. c \in Seq(IvcConfig)
        BY IvcAssumption
      <4> QED
        BY <3>1, <4>1
    <3>3. ZoneShape(z)'
      BY <3>1 DEF ZoneShape
    <3>4. ZoneParts(z)'
      BY <3>1, <3>2 DEF ZoneParts
    <3> QED
      BY <3>3, <3>4
  <2>4. CASE IvcRefused(z)
    <3>1. /\ izone[z].st = "init" /\ izone[z] # Gone
          /\ izone' = [izone EXCEPT ![z].st = "refused"]
      BY <2>4 DEF IvcRefused, Gone
    <3>2. izone'[z] = [st |-> "refused", cfg |-> izone[z].cfg, next |-> izone[z].next,
                       gpm |-> izone[z].gpm, mmio |-> izone[z].mmio]
      BY <1>0, <2>1, <3>1 DEF ZoneShape
    <3>3. ZoneShape(z)'
      BY <2>1, <3>1, <3>2 DEF ZoneShape
    <3>4. ZoneParts(z)'
      BY <1>1, <2>1, <3>1, <3>2, PartsKept
    <3> QED
      BY <3>3, <3>4
  <2>5. CASE Run(z)
    <3>1. izone[z].st \in {"checked", "refused"} /\ izone[z] # Gone
      BY <2>5 DEF Run, Gone
    <3>2. izone'[z] = [st |-> "runs", ok |-> (izone[z].st = "checked"), cfg |-> izone[z].cfg,
                       gpm |-> izone[z].gpm, mmio |-> izone[z].mmio]
      BY <1>0, <2>5 DEF Run
    <3>3. ZoneShape(z)'
      BY <3>2 DEF ZoneShape
    <3>4. ZoneParts(z)'
      <4>1. /\ izone'[z].cfg = izone[z].cfg /\ izone'[z].gpm = izone[z].gpm
            /\ izone'[z].mmio = izone[z].mmio /\ izone'[z].st = "runs"
        BY <3>2
      <4>2. izone'[z].ok => izone[z].st = "checked"
        <5>1. PICK b \in BOOLEAN : b = (izone[z].st = "checked")
          OBVIOUS
        <5>2. izone'[z] = [st |-> "runs", ok |-> b, cfg |-> izone[z].cfg,
                           gpm |-> izone[z].gpm, mmio |-> izone[z].mmio]
          BY <3>2, <5>1, Zenon
        <5>3. izone'[z].ok = b
          BY <5>2
        <5> QED
          BY <5>1, <5>3, Zenon
      <4> QED
        <5>1. izone'[z].ok =>
                /\ z \in DOMAIN infos' /\ infos'[z] = izone[z].cfg
                /\ \A i \in DOMAIN izone[z].cfg : izone[z].cfg[i].id \in DOMAIN izone[z].gpm
          BY <1>1, <2>1, <3>1, <4>2 DEF ZoneParts
        <5> QED
          BY <1>1, <2>1, <3>1, <4>1, <5>1, PartsKept
    <3> QED
      BY <3>3, <3>4
  <2>6. CASE StartFails(z) \/ Shutdown(z)
    <3>1. izone'[z] = Gone
      BY <1>0, <2>6 DEF StartFails, Shutdown
    <3> QED
      BY <2>2, <3>1
  <2> QED
    BY <2>3, <2>4, <2>5, <2>6
<1> QED
  BY <1>1, <1>2, <1>3, <1>4 DEF IvcInv, RecordsOwn

(* IVC_INFOS gets the configuration of a zone all of whose regions were     *)
(* inserted.                                                                *)
LEMMA InitedStep == ASSUME IvcInv, NEW z \in ZoneId, IvcInited(z) PROVE IvcInv'
<1>1. /\ panicked = {} /\ UNCHANGED <<records, panicked>> /\ infos' = put(infos, z, izone[z].cfg)
      /\ izone[z].st = "init" /\ izone[z] # Gone /\ izone' = [izone EXCEPT ![z].st = "checked"]
      /\ izone[z].next > Len(izone[z].cfg)
  BY DEF IvcInited, Up, Gone
<1>0. izone = [x \in ZoneId |-> izone[x]]
  BY DEF IvcInv
<1>2. /\ izone' = [x \in ZoneId |-> izone'[x]]
      /\ \A x \in ZoneId : x # z => izone'[x] = izone[x]
  BY <1>0, <1>1
<1>3. /\ z \in DOMAIN infos' /\ infos'[z] = izone[z].cfg
      /\ \A x \in DOMAIN infos : x # z => x \in DOMAIN infos' /\ infos'[x] = infos[x]
  BY <1>1 DEF put
<1>4. ASSUME NEW x \in ZoneId, x # z
      PROVE  ZoneShape(x)' /\ (izone'[x] # Gone => ZoneParts(x)')
  <2>1. izone'[x] = izone[x] /\ ZoneShape(x) /\ (izone[x] # Gone => ZoneParts(x))
    BY <1>2, <1>4 DEF IvcInv
  <2> QED
    BY <1>1, <1>3, <1>4, <2>1, ZoneFrame
<1>5. ZoneShape(z)' /\ ZoneParts(z)'
  <2>1. ZoneShape(z) /\ ZoneParts(z)
    BY <1>1 DEF IvcInv
  <2>2. izone'[z] = [st |-> "checked", cfg |-> izone[z].cfg, next |-> izone[z].next,
                     gpm |-> izone[z].gpm, mmio |-> izone[z].mmio]
    BY <1>0, <1>1, <2>1 DEF ZoneShape
  <2>3. izone[z].next \in Nat \ {0}
    BY <1>1, <2>1 DEF ZoneShape
  <2>4. ZoneShape(z)'
    BY <2>2, <2>3 DEF ZoneShape
  <2>5. \A i \in DOMAIN izone[z].cfg : izone[z].cfg[i].id \in DOMAIN izone[z].gpm
    <3>1. izone[z].cfg \in Seq(IvcConfig)
      BY <2>1, IvcAssumption DEF ZoneParts
    <3> QED
      BY <1>1, <2>1, <2>3, <3>1 DEF ZoneParts
  <2>6. ZoneParts(z)'
    BY <1>1, <1>3, <2>1, <2>2, <2>5, PartsKept
  <2> QED
    BY <2>4, <2>6
<1> QED
  BY <1>1, <1>2, <1>4, <1>5 DEF IvcInv, RecordsOwn

(* A region is inserted: those who took part in it still do.                *)
LEMMA RegionStep == ASSUME IvcInv, NEW z \in ZoneId, ivc_init(z) PROVE IvcInv'
<1>1. PICK c, r : c = izone[z].cfg /\ r = c[izone[z].next]
  OBVIOUS
<1>2. PICK old, m : /\ old = IF r.id \in DOMAIN records THEN records[r.id].peers ELSE << >>
                    /\ m = IF r.id \in DOMAIN records THEN records[r.id].mem ELSE shm
  OBVIOUS
<1>0. izone = [x \in ZoneId |-> izone[x]]
  BY DEF IvcInv
<1>3. /\ panicked = {} /\ UNCHANGED <<infos, panicked>>
      /\ izone[z].st = "init" /\ izone[z] # Gone /\ izone[z].next <= Len(c)
  BY <1>1 DEF ivc_init, Up, Gone
<1>4. records' = put(records, r.id, [max |-> r.max, sec |-> r.sec, mem |-> m,
                                     peers |-> put(old, r.peer, [zone |-> z, irq |-> r.irq])])
  <2>1. insert_ivc_record(z, r)
    BY <1>1, Zenon DEF ivc_init
  <2> QED
    BY <1>2, <2>1, Zenon DEF insert_ivc_record
<1>5. PICK g : g = put(izone[z].gpm, r.id, sections(r, records'[r.id].mem))
  OBVIOUS
<1>6. izone' = [izone EXCEPT ![z].next = @ + 1, ![z].gpm = g, ![z].mmio = @ \cup {r.ct}]
  BY <1>1, <1>5, Zenon DEF ivc_init
<1>7. ZoneShape(z) /\ ZoneParts(z) /\ izone[z].next \in Nat \ {0}
  BY <1>3 DEF IvcInv, ZoneShape
<1>8. r \in Regions(z) /\ (\E i \in DOMAIN c : r = c[i]) /\ DOMAIN c \subseteq Nat
  <2>1. c \in Seq(IvcConfig) /\ c \in Configs[z]
    BY <1>1, <1>7, IvcAssumption DEF ZoneParts
  <2>2. izone[z].next \in DOMAIN c
    BY <1>3, <1>7, <2>1
  <2> QED
    BY <1>1, <2>1, <2>2, RegionOfZone
<1>9. izone'[z] = [st |-> "init", cfg |-> c, next |-> izone[z].next + 1,
                   gpm |-> g, mmio |-> izone[z].mmio \cup {r.ct}]
  BY <1>0, <1>1, <1>3, <1>6, <1>7 DEF ZoneShape
<1>10. /\ izone' = [x \in ZoneId |-> izone'[x]]
       /\ \A x \in ZoneId : x # z => izone'[x] = izone[x]
  BY <1>0, <1>6
<1>11. /\ DOMAIN records' = DOMAIN records \cup {r.id}
       /\ \A id \in DOMAIN records : id # r.id => records'[id] = records[id]
       /\ records'[r.id].mem = m
       /\ records'[r.id].peers = put(old, r.peer, [zone |-> z, irq |-> r.irq])
  BY <1>4 DEF put
<1>12. /\ DOMAIN records'[r.id].peers = DOMAIN old \cup {r.peer}
       /\ records'[r.id].peers[r.peer].zone = z
       /\ \A p \in DOMAIN old : p # r.peer => records'[r.id].peers[p] = old[p]
  BY <1>11 DEF put
<1>13. /\ DOMAIN g = DOMAIN izone[z].gpm \cup {r.id} /\ g[r.id] = sections(r, m)
       /\ \A id \in DOMAIN izone[z].gpm : id # r.id => g[id] = izone[z].gpm[id]
  BY <1>5, <1>11 DEF put
<1>14. DOMAIN old = IF r.id \in DOMAIN records THEN DOMAIN records[r.id].peers ELSE {}
  BY <1>2
<1>15. ASSUME NEW y \in ZoneId, NEW id, NEW q \in Regions(y), TakesPart(y, id, q),
              izone'[y].gpm[id] = izone[y].gpm[id]
       PROVE  TakesPart(y, id, q)'
  <2>1. CASE id # r.id
    BY <1>11, <1>15, <2>1 DEF TakesPart
  <2>2. CASE id = r.id
    <3>1. m = records[id].mem /\ old = records[id].peers /\ q.id = r.id
      BY <1>2, <1>15, <2>2 DEF TakesPart
    <3>2. q.peer = r.peer <=> y = z
      BY <1>8, <3>1, IvcAssumption
    <3> QED
      BY <1>11, <1>12, <1>15, <2>2, <3>1, <3>2 DEF TakesPart
  <2> QED
    BY <2>1, <2>2
<1>16. ASSUME NEW y \in ZoneId, y # z
       PROVE  ZoneShape(y)' /\ (izone'[y] # Gone => ZoneParts(y)')
  <2>1. izone'[y] = izone[y] /\ ZoneShape(y) /\ (izone[y] # Gone => ZoneParts(y))
    BY <1>10, <1>16 DEF IvcInv
  <2>2. PICK d : d = izone[y].cfg
    OBVIOUS
  <2>3. ASSUME izone[y] # Gone, NEW id \in DOMAIN izone[y].gpm
        PROVE  \E i \in DOMAIN d : TakesPart(y, id, d[i])'
    <3>1. PICK i \in DOMAIN d : TakesPart(y, id, d[i])
      BY <2>1, <2>2, <2>3 DEF ZoneParts
    <3>2. d[i] \in Regions(y)
      BY <2>1, <2>2, <2>3, RegionOfZone DEF ZoneParts
    <3>3. TakesPart(y, id, d[i])'
      BY <1>15, <2>1, <3>1, <3>2
    <3> QED
      BY <3>3
  <2>4. ZoneShape(y)'
    BY <2>1 DEF ZoneShape
  <2> QED
    BY <1>3, <2>1, <2>2, <2>3, <2>4, SMTT(30) DEF ZoneParts
<1>17. ZoneShape(z)' /\ ZoneParts(z)'
  <2>1. ASSUME NEW id \in DOMAIN g
        PROVE  \E i \in DOMAIN c : TakesPart(z, id, c[i])'
    <3>1. CASE id = r.id
      <4>1. TakesPart(z, id, r)'
        BY <1>9, <1>11, <1>12, <1>13, <3>1 DEF TakesPart
      <4> QED
        BY <1>8, <4>1
    <3>2. CASE id # r.id
      <4>1. PICK i \in DOMAIN c : TakesPart(z, id, c[i])
        BY <1>1, <1>7, <1>13, <2>1, <3>2, SMTT(30) DEF ZoneParts
      <4>2. c[i] \in Regions(z) /\ izone'[z].gpm[id] = izone[z].gpm[id]
        BY <1>1, <1>7, <1>9, <1>13, <2>1, <3>2, RegionOfZone DEF ZoneParts
      <4>3. TakesPart(z, id, c[i])'
        BY <1>15, <4>1, <4>2
      <4> QED
        BY <4>3
    <3> QED
      BY <3>1, <3>2
  <2>2. ZoneShape(z)'
    BY <1>7, <1>9 DEF ZoneShape
  <2>3. \A a \in izone[z].mmio \cup {r.ct} : \E i \in DOMAIN c : c[i].ct = a
    BY <1>1, <1>7, <1>8 DEF ZoneParts
  <2>4. \A i \in DOMAIN c : i < izone[z].next + 1 => c[i].id \in DOMAIN g
    <3>1. ASSUME NEW i \in DOMAIN c, i < izone[z].next + 1 PROVE c[i].id \in DOMAIN g
      <4>1. i = izone[z].next \/ i < izone[z].next
        BY <1>7, <1>8, <3>1
      <4> QED
        BY <1>1, <1>3, <1>7, <1>13, <3>1, <4>1 DEF ZoneParts
    <3> QED
      BY <3>1
  <2>5. ZoneParts(z)'
    BY <1>1, <1>7, <1>9, <2>1, <2>3, <2>4 DEF ZoneParts
  <2> QED
    BY <2>2, <2>5
<1>18. RecordsOwn'
  <2> SUFFICES ASSUME NEW id \in DOMAIN records', NEW p \in DOMAIN records'[id].peers
               PROVE  \E y \in ZoneId : \E q \in Regions(y) :
                        q.id = id /\ q.peer = p /\ records'[id].peers[p].zone = y
    BY DEF RecordsOwn
  <2>1. CASE id = r.id /\ p = r.peer
    BY <1>8, <1>12, <2>1
  <2>2. CASE id # r.id
    BY <1>11, <2>2 DEF IvcInv, RecordsOwn
  <2>3. CASE id = r.id /\ p # r.peer
    <3>1. id \in DOMAIN records /\ old = records[id].peers /\ p \in DOMAIN old
      BY <1>2, <1>12, <1>14, <2>3
    <3> QED
      BY <1>12, <2>3, <3>1 DEF IvcInv, RecordsOwn
  <2> QED
    BY <2>1, <2>2, <2>3
<1> QED
  BY <1>3, <1>9, <1>10, <1>16, <1>17, <1>18 DEF IvcInv

(* The handler finds the zone's own entry, and no other one of the zone.    *)
LEMMA OwnPeer ==
  ASSUME IvcInv, NEW z \in ZoneId, izone[z] # Gone, NEW id \in DOMAIN izone[z].gpm
  PROVE  \E i \in DOMAIN izone[z].cfg :
           /\ TakesPart(z, id, izone[z].cfg[i])
           /\ izone[z].cfg[i] \in Regions(z) /\ izone[z].cfg[i] \in IvcConfig
           /\ own_peer(z, id) = {izone[z].cfg[i].peer}
<1>1. ZoneParts(z)
  BY DEF IvcInv
<1>2. PICK i \in DOMAIN izone[z].cfg : TakesPart(z, id, izone[z].cfg[i])
  BY <1>1 DEF ZoneParts
<1> DEFINE r == izone[z].cfg[i]
<1>3. r \in Regions(z) /\ r \in IvcConfig
  BY <1>1, RegionOfZone DEF ZoneParts
<1> HIDE DEF r
<1>4. r.id = id /\ id \in DOMAIN records /\ r.peer \in DOMAIN records[id].peers
      /\ records[id].peers[r.peer].zone = z
  BY <1>2 DEF TakesPart, r
<1>5. ASSUME NEW p \in DOMAIN records[id].peers, records[id].peers[p].zone = z
      PROVE  p = r.peer
  <2>1. PICK y \in ZoneId : \E q \in Regions(y) : q.id = id /\ q.peer = p /\ records[id].peers[p].zone = y
    BY <1>4 DEF IvcInv, RecordsOwn
  <2> QED
    BY <1>3, <1>4, <1>5, <2>1, IvcAssumption
<1>6. own_peer(z, id) = {r.peer}
  BY <1>4, <1>5 DEF own_peer
<1> QED
  BY <1>2, <1>3, <1>6 DEF r

(* A zone whose regions were all inserted finds its own at every one of its *)
(* addresses.                                                               *)
LEMMA OwnRegion ==
  ASSUME IvcInv, NEW z \in ZoneId, izone[z].st = "runs", izone[z].ok, NEW a \in izone[z].mmio
  PROVE  /\ Finds(z, a)
         /\ \E i \in DOMAIN izone[z].cfg :
              LET r == izone[z].cfg[i] IN
                /\ r.ct = a /\ r.id = ivc_id(z, a)
                /\ lowest(own_peer(z, r.id)) = r.peer /\ izone[z].gpm[r.id].rw = {r.peer}
<1>1. izone[z] # Gone
  BY DEF Gone
<1>2. ZoneParts(z)
  BY <1>1 DEF IvcInv
<1> DEFINE c == izone[z].cfg
<1>3. c \in Configs[z] /\ c \in Seq(IvcConfig) /\ DOMAIN c \subseteq Nat
  BY <1>2, IvcAssumption DEF ZoneParts
<1>4. /\ z \in DOMAIN infos /\ infos[z] = c /\ (\E i \in DOMAIN c : c[i].ct = a)
      /\ \A i \in DOMAIN c : c[i].id \in DOMAIN izone[z].gpm
  BY <1>2 DEF ZoneParts
<1> HIDE DEF c
<1>5. lookup(z, a) = {i \in DOMAIN c : c[i].ct = a} /\ lookup(z, a) # {} /\ lookup(z, a) \subseteq Nat
  BY <1>3, <1>4 DEF lookup
<1>6. PICK i \in lookup(z, a) : ivc_id(z, a) = c[i].id
  <2>1. PICK l : l = CHOOSE i \in lookup(z, a) : \A j \in lookup(z, a) : i <= j
    OBVIOUS
  <2>2. \E i \in lookup(z, a) : \A j \in lookup(z, a) : i <= j
    BY <1>5, LeastNat
  <2>3. l \in lookup(z, a)
    BY <2>1, <2>2, Zenon
  <2>4. ivc_id(z, a) = c[l].id
    BY <1>4, <2>1 DEF ivc_id
  <2> QED
    BY <2>3, <2>4
<1>7. i \in DOMAIN c /\ c[i].ct = a /\ c[i].id \in DOMAIN izone[z].gpm
  BY <1>4, <1>5
<1>8. PICK k \in DOMAIN c : /\ TakesPart(z, c[i].id, c[k]) /\ c[k] \in Regions(z)
                            /\ own_peer(z, c[i].id) = {c[k].peer}
  BY <1>1, <1>7, OwnPeer DEF c
<1>9. c[i] \in Regions(z) /\ c[i] \in IvcConfig
  BY <1>3, <1>7, RegionOfZone
<1>10. c[k].id = c[i].id /\ c[k].peer = c[i].peer
  BY <1>8, <1>9, IvcAssumption DEF TakesPart
<1> DEFINE n == c[i].peer
<1>11. n \in Nat /\ c[k] \in IvcConfig /\ c[k].max \in Nat /\ n < c[k].max
  BY <1>3, <1>8, <1>9, <1>10, IvcAssumption, RegionOfZone DEF IvcConfig
<1>12. izone[z].gpm[c[i].id].rw = {n}
  BY <1>8, <1>10, <1>11 DEF TakesPart, sections
<1>13. own_peer(z, c[i].id) = {n}
  BY <1>8, <1>10
<1> HIDE DEF n
<1>14. lowest({n}) = n
  BY <1>11 DEF lowest
<1>15. c[i].id \in DOMAIN records
  BY <1>8 DEF TakesPart
<1>16. Finds(z, a)
  BY <1>5, <1>6, <1>13, <1>15 DEF Finds
<1> QED
  BY <1>6, <1>7, <1>12, <1>13, <1>14, <1>16 DEF c, n

(* Every step of the zones and of the handlers keeps IvcInv.                *)
LEMMA IvcInvStep == IvcInv /\ [IvcNext]_ivars => IvcInv'
<1> SUFFICES ASSUME IvcInv, [IvcNext]_ivars PROVE IvcInv'
  OBVIOUS
<1>1. ASSUME UNCHANGED <<records, infos, izone>>,
             \A x \in panicked' : x \in ZoneId /\ izone[x].st = "runs" /\ ~izone[x].ok
      PROVE  IvcInv'
  <2>1. ASSUME NEW x \in ZoneId
        PROVE  ZoneShape(x)' /\ (izone'[x] # Gone => ZoneParts(x)')
    BY <1>1, ZoneFrame DEF IvcInv
  <2> QED
    BY <1>1, <2>1 DEF IvcInv, RecordsOwn
<1>2. ASSUME NEW z \in ZoneId, NEW a \in tables_of(z), ReadPanics(z, a)
      PROVE  IvcInv'
  <2>1. /\ UNCHANGED <<records, infos, izone>> /\ panicked' = {z} /\ ~Finds(z, a)
        /\ izone[z].st = "runs" /\ a \in izone[z].mmio
    BY <1>2 DEF ReadPanics, tables_of
  <2>2. ~izone[z].ok
    BY <2>1, OwnRegion
  <2> QED
    BY <1>1, <2>1, <2>2
<1>3. ASSUME NEW z \in ZoneId, NEW a \in tables_of(z), NEW p \in 0 .. 2, IpiInvoke(z, a, p)
      PROVE  IvcInv'
  BY <1>1, <1>3 DEF IpiInvoke, IvcInv
<1>4. ASSUME NEW t \in 0 .. 1, NEW s \in 0 .. 1, HyperAmp(t, s)
      PROVE  IvcInv'
  BY <1>1, <1>4 DEF HyperAmp, IvcInv
<1>5. CASE UNCHANGED ivars
  BY <1>1, <1>5 DEF ivars, IvcInv
<1> QED
  BY <1>2, <1>3, <1>4, <1>5, ZoneSteps, InitedStep, RegionStep DEF IvcNext

(* For any zones and regions, whichever zones were started, refused, dropped*)
(* and started again: the zones in a region map the memory of its record,   *)
(* which insert_ivc_record never replaces, and write different sections.    *)
THEOREM RegionsAreShared == IvcSpec => []RegionShared
<1>1. IvcInv => RegionShared
  <2> SUFFICES ASSUME IvcInv, NEW z \in ZoneId, NEW y \in ZoneId, Exists(z), Exists(y),
                      NEW id \in DOMAIN izone[z].gpm \cap DOMAIN izone[y].gpm
               PROVE  /\ izone[z].gpm[id].mem = izone[y].gpm[id].mem
                      /\ z # y => izone[z].gpm[id].rw \cap izone[y].gpm[id].rw = {}
    BY DEF RegionShared
  <2>1. izone[z] # Gone /\ izone[y] # Gone
    BY DEF Exists
  <2>2. PICK i \in DOMAIN izone[z].cfg : /\ TakesPart(z, id, izone[z].cfg[i])
                                         /\ izone[z].cfg[i] \in Regions(z)
    BY <2>1, OwnPeer
  <2>3. PICK j \in DOMAIN izone[y].cfg : /\ TakesPart(y, id, izone[y].cfg[j])
                                         /\ izone[y].cfg[j] \in Regions(y)
    BY <2>1, OwnPeer
  <2>4. z # y => izone[z].cfg[i].peer # izone[y].cfg[j].peer
    BY <2>2, <2>3, IvcAssumption DEF TakesPart
  <2> QED
    BY <2>2, <2>3, <2>4 DEF TakesPart, sections
<1> QED
  BY <1>1, IvcInvInit, IvcInvStep, PTL DEF IvcSpec

(* mmio_ivc_handler finds the region a zone has at the address, and the     *)
(* peer number of the zone that asks, whenever ivc_init got through with the*)
(* zone's regions, and panics only if it did not: what earlier zones and    *)
(* earlier configurations of this one left behind does not reach it.        *)
THEOREM HandlersAnswer == IvcSpec => []HandlerAnswers
<1>1. IvcInv => HandlerAnswers
  <2> SUFFICES ASSUME IvcInv
               PROVE  HandlerAnswers
    OBVIOUS
  <2>1. \A z \in panicked : ~izone[z].ok
    BY DEF IvcInv
  <2>2. ASSUME NEW z \in ZoneId, izone[z].st = "runs", izone[z].ok, NEW a \in izone[z].mmio
        PROVE  /\ Finds(z, a)
               /\ \E i \in DOMAIN izone[z].cfg :
                    LET r == izone[z].cfg[i] IN
                      /\ r.ct = a /\ r.id = ivc_id(z, a)
                      /\ lowest(own_peer(z, r.id)) = r.peer /\ izone[z].gpm[r.id].rw = {r.peer}
    BY <2>2, OwnRegion
  <2> QED
    BY <2>1, <2>2 DEF HandlerAnswers
<1> QED
  BY <1>1, IvcInvInit, IvcInvStep, PTL DEF IvcSpec
=============================================================================

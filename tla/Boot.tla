-------------------------------- MODULE Boot --------------------------------
(***************************************************************************)
(* Bringing up the CPUs (rust_main of src/src/main.rs, setup_parange of     *)
(* src/src/arch/aarch64/mm.rs).  The firmware enters hvisor on one CPU; it  *)
(* starts the others, and all of them then pass four barriers made of       *)
(* counters that only grow.  Between the barriers each CPU initialises its  *)
(* own PerCpu, and the primary CPU alone creates the root zone, which       *)
(* writes into the PerCpu of others.                                        *)
(***************************************************************************)
EXTENDS Naturals, FiniteSets

CONSTANTS CPU,        \* the CPUs of the board
          Primary,    \* the CPU the firmware enters hvisor on
          RootCpus,   \* the CPUs of root_zone_config
          BootCpu,    \* the first of them
          PaRange     \* ID_AA64MMFR0_EL1.PARange of each CPU

ASSUME BootAssumption == /\ IsFiniteSet(CPU)
                         /\ Primary \in CPU
                         /\ RootCpus \subseteq CPU /\ BootCpu \in RootCpus
                         /\ PaRange \in [CPU -> 0 .. 6]

NCPU == Cardinality(CPU)

VARIABLES pc,
          woken,         \* the CPUs that cpu_start was called for
          entered,       \* ENTERED_CPUS
          parange_ok,    \* PARANGE_OK_CPUS
          inited,        \* INITED_CPUS
          early, late,   \* INIT_EARLY_OK, INIT_LATE_OK
          min_parange,   \* MIN_PARANGE
          zone,          \* PerCpu.zone: "stale" is memory never written
          boot_cpu,      \* PerCpu.boot_cpu
          table_parange  \* the PARange the root zone's stage-2 tables are made for

counters == <<entered, parange_ok, inited, early, late>>
vars == <<pc, woken, counters, min_parange, zone, boot_cpu, table_parange>>

Init == /\ pc = [c \in CPU |-> IF c = Primary THEN "new" ELSE "off"]
        /\ woken = {Primary}
        /\ entered = 0 /\ parange_ok = 0 /\ inited = 0
        /\ early = 0 /\ late = 0
        /\ min_parange = 7
        /\ zone = [c \in CPU |-> "stale"]
        /\ boot_cpu = [c \in CPU |-> FALSE]
        /\ table_parange = 7

Goto(c, l) == pc' = [pc EXCEPT ![c] = l]

\* The indices of PARANGE_TABLE.
PARANGE_TABLE == 0 .. 5

(* PerCpu::new: the CPU's area is overwritten.                              *)
New(c) ==
  /\ pc[c] = "new"
  /\ zone' = [zone EXCEPT ![c] = "none"]
  /\ boot_cpu' = [boot_cpu EXCEPT ![c] = FALSE]
  /\ Goto(c, IF c = Primary THEN "wakeup" ELSE "enter")
  /\ UNCHANGED <<woken, counters, min_parange, table_parange>>

(* wakeup_secondary_cpus, one cpu_start at a time.                          *)
CpuStart(c) ==
  /\ pc[Primary] = "wakeup" /\ c \notin woken
  /\ woken' = woken \cup {c}
  /\ Goto(c, "new")
  /\ UNCHANGED <<counters, min_parange, zone, boot_cpu, table_parange>>

AllStarted ==
  /\ pc[Primary] = "wakeup" /\ woken = CPU
  /\ Goto(Primary, "enter")
  /\ UNCHANGED <<woken, counters, min_parange, zone, boot_cpu, table_parange>>

Enter(c) ==
  /\ pc[c] = "enter"
  /\ entered' = entered + 1
  /\ Goto(c, "wait_entered")
  /\ UNCHANGED <<woken, parange_ok, inited, early, late, min_parange, zone, boot_cpu, table_parange>>

(* wait_for(entered_cpus < ncpu), then assert_eq!(entered_cpus, ncpu).      *)
WaitEntered(c) ==
  /\ pc[c] = "wait_entered" /\ entered >= NCPU
  /\ Goto(c, IF entered = NCPU THEN "parange" ELSE "assert")
  /\ UNCHANGED <<woken, counters, min_parange, zone, boot_cpu, table_parange>>

\* Defect: the last CPU's value is kept instead of the smallest.
Parange_Last(c) ==
  /\ pc[c] = "parange"
  /\ min_parange' = PaRange[c]
  /\ Goto(c, "parange_add")
  /\ UNCHANGED <<woken, counters, zone, boot_cpu, table_parange>>

(* setup_parange: the minimum under its lock, then the counter.             *)
Parange(c) ==
  /\ pc[c] = "parange"
  /\ min_parange' = IF PaRange[c] < min_parange THEN PaRange[c] ELSE min_parange
  /\ Goto(c, "parange_add")
  /\ UNCHANGED <<woken, counters, zone, boot_cpu, table_parange>>

ParangeAdd(c) ==
  /\ pc[c] = "parange_add"
  /\ parange_ok' = parange_ok + 1
  /\ Goto(c, "wait_parange")
  /\ UNCHANGED <<woken, entered, inited, early, late, min_parange, zone, boot_cpu, table_parange>>

WaitParange(c) ==
  /\ pc[c] = "wait_parange" /\ parange_ok >= NCPU
  /\ Goto(c, IF c = Primary THEN "early" ELSE "wait_early")
  /\ UNCHANGED <<woken, counters, min_parange, zone, boot_cpu, table_parange>>

(* primary_init_early: zone_create for the root zone, whose stage-2 tables  *)
(* have the depth get_parange_bits gives: it asserts that all CPUs have     *)
(* contributed, and finds the bits in PARANGE_TABLE, which ends before the  *)
(* PARange 6 of a machine with 52 bits.  Then the secondary CPUs go on.     *)
InitEarly ==
  /\ pc[Primary] = "early"
  /\ IF parange_ok = NCPU /\ min_parange \in PARANGE_TABLE
       THEN /\ table_parange' = min_parange
            /\ zone' = [c \in CPU |-> IF c \in RootCpus THEN "root" ELSE zone[c]]
            /\ boot_cpu' = [boot_cpu EXCEPT ![BootCpu] = TRUE]
            /\ early' = 1
            /\ Goto(Primary, "percpu")
       ELSE /\ Goto(Primary, IF parange_ok = NCPU THEN "index" ELSE "assert")
            /\ UNCHANGED <<table_parange, zone, boot_cpu, early>>
  /\ UNCHANGED <<woken, entered, parange_ok, inited, late, min_parange>>

WaitEarly(c) ==
  /\ pc[c] = "wait_early" /\ early >= 1
  /\ Goto(c, "percpu")
  /\ UNCHANGED <<woken, counters, min_parange, zone, boot_cpu, table_parange>>

(* per_cpu_init, irqchip::percpu_init, and the count of the CPUs done.      *)
PerCpuInit(c) ==
  /\ pc[c] = "percpu"
  /\ inited' = inited + 1
  /\ Goto(c, "wait_inited")
  /\ UNCHANGED <<woken, entered, parange_ok, early, late, min_parange, zone, boot_cpu, table_parange>>

\* Defect: the last barrier waits for one CPU more than there are.
WaitInited_OneMore(c) ==
  /\ pc[c] = "wait_inited" /\ inited > NCPU
  /\ Goto(c, IF c = Primary THEN "late" ELSE "wait_late")
  /\ UNCHANGED <<woken, counters, min_parange, zone, boot_cpu, table_parange>>

WaitInited(c) ==
  /\ pc[c] = "wait_inited" /\ inited >= NCPU
  /\ Goto(c, IF c = Primary THEN "late" ELSE "wait_late")
  /\ UNCHANGED <<woken, counters, min_parange, zone, boot_cpu, table_parange>>

InitLate ==
  /\ pc[Primary] = "late"
  /\ late' = 1
  /\ Goto(Primary, "run_vm")
  /\ UNCHANGED <<woken, entered, parange_ok, inited, early, min_parange, zone, boot_cpu, table_parange>>

WaitLate(c) ==
  /\ pc[c] = "wait_late" /\ late >= 1
  /\ Goto(c, "run_vm")
  /\ UNCHANGED <<woken, counters, min_parange, zone, boot_cpu, table_parange>>

(* run_vm: the boot CPU of the root zone runs its guest, the others idle.   *)
RunVm(c) ==
  /\ pc[c] = "run_vm"
  /\ Goto(c, IF boot_cpu[c] THEN "guest" ELSE "idle")
  /\ UNCHANGED <<woken, counters, min_parange, zone, boot_cpu, table_parange>>

Step(c) == \/ New(c) \/ Enter(c) \/ WaitEntered(c)
           \/ Parange(c) \/ ParangeAdd(c) \/ WaitParange(c)
           \/ WaitEarly(c) \/ PerCpuInit(c) \/ WaitInited(c) \/ WaitLate(c) \/ RunVm(c)

PrimaryStep == AllStarted \/ InitEarly \/ InitLate \/ \E c \in CPU : CpuStart(c)

Next == PrimaryStep \/ \E c \in CPU : Step(c)

Spec == Init /\ [][Next]_vars

(* Every CPU runs: nothing at boot waits for anything but the counters.     *)
Fairness == WF_vars(PrimaryStep) /\ \A c \in CPU : WF_vars(Step(c))
FairSpec == Spec /\ Fairness
-----------------------------------------------------------------------------
PC == {"off", "new", "wakeup", "enter", "wait_entered", "parange", "parange_add", "wait_parange",
       "early", "wait_early", "percpu", "wait_inited", "late", "wait_late", "run_vm",
       "guest", "idle", "assert", "index"}

TypeOK == /\ pc \in [CPU -> PC]
          /\ woken \subseteq CPU
          /\ entered \in 0 .. NCPU /\ parange_ok \in 0 .. NCPU /\ inited \in 0 .. NCPU
          /\ early \in 0 .. 1 /\ late \in 0 .. 1
          /\ min_parange \in 0 .. 7 /\ table_parange \in 0 .. 7
          /\ zone \in [CPU -> {"stale", "none", "root"}]
          /\ boot_cpu \in [CPU -> BOOLEAN]

(* What zone_create writes into the PerCpu of a CPU of the root zone is not *)
(* overwritten by that CPU's own PerCpu::new.                               *)
RootZoneKept ==
  early = 1 => /\ \A c \in RootCpus : zone[c] = "root"
               /\ boot_cpu[BootCpu]

(* The root zone's stage-2 tables fit every CPU: the PARange they are made  *)
(* for is the smallest one.                                                 *)
ParangeFitsAll ==
  early = 1 => /\ \A c \in CPU : table_parange <= PaRange[c]
               /\ \E c \in CPU : table_parange = PaRange[c]

(* assert_eq!(PerCpu::entered_cpus(), ncpu) of rust_main and the assertion  *)
(* of get_parange_bits hold.                                                *)
AssertionsHold == \A c \in CPU : pc[c] # "assert"

(* The root guest runs only when every CPU can take its events: all have    *)
(* initialised their interrupt controller.                                  *)
GuestAfterInit ==
  \A c, d \in CPU : pc[c] = "guest" =>
    pc[d] \in {"wait_inited", "late", "wait_late", "run_vm", "guest", "idle"} /\ late = 1

(* What the barriers of rust_main are for: with the CPUs going through      *)
(* start-up in any order, the root zone made by one of them is kept by all, *)
(* fits all, and its guest runs only on a machine that is set up; no        *)
(* assertion on the counters fails.                                         *)
RootZoneReady == RootZoneKept /\ ParangeFitsAll /\ AssertionsHold /\ GuestAfterInit

(* Every CPU gets through the barriers, and the root zone's guest runs, if  *)
(* PARANGE_TABLE knows the PARange of one of them.                          *)
BootCompletes ==
  (\E c \in CPU : PaRange[c] \in PARANGE_TABLE) =>
    <>(pc[BootCpu] = "guest" /\ \A c \in CPU \ {BootCpu} : pc[c] = "idle")
=============================================================================

------------------------------ MODULE MCHarts -------------------------------
(***************************************************************************)
(* One model-checking instance for what runs on the harts of riscv64 and    *)
(* the CPUs of loongarch64: events with a level-triggered IPI (EventsLevel),*)
(* the virtual PLIC (Vplic), the shared APLIC (Aplic), SBI calls and timer  *)
(* of a zone's harts (RiscvHart), and the exits of a loongarch64 guest      *)
(* (LoongVcpu).  They share no state: part says which of them is explored,  *)
(* the others stay in their initial states.                                 *)
(***************************************************************************)
EXTENDS EventsLevel, Aplic, Vplic, RiscvHart, LoongVcpu, TLC

VARIABLE part

\* One event of each way check_events ends: without returning, true, and false
\* for want of an arm.  HvClearInjectIrq sends CLEAR_INJECT_IRQ on both
\* architectures, and riscv64 has no arm for it.
MCSent == "riscv64"     :> {IPI_EVENT_SHUTDOWN, IPI_EVENT_SEND_IPI, IPI_EVENT_CLEAR_INJECT_IRQ} @@
          "loongarch64" :> {IPI_EVENT_SHUTDOWN, IPI_EVENT_CLEAR_INJECT_IRQ}

Symmetry == Permutations(CPU)

\* Interrupt 2 kept on hart 0, or on both harts.
MCAffinities == {0 :> {1, 2} @@ 1 :> {1}, 0 :> {1, 2} @@ 1 :> {2}}
\* CPU 3 is a zone of its own.
MCFirstCpu == [c \in ACpu |-> IF c = 3 THEN 3 ELSE 0]

Parts == {"events", "vplic", "aplic", "hart", "loongarch"}

MCInit == /\ part \in Parts
          /\ Init /\ VplicInit /\ AplicInit /\ HartInit /\ VcpuInit
          /\ part # "events" => arch = "riscv64"
          /\ part # "vplic" => affinity = CHOOSE a \in Affinities : TRUE
          /\ id = 0     \* zone 0, whose guest id must not be 0

MCNext == \/ /\ part = "events" /\ Next
             /\ UNCHANGED <<part, vplicVars, avars, hartVars, lvars>>
          \/ /\ part = "vplic" /\ VplicNext
             /\ UNCHANGED <<part, vars, avars, hartVars, lvars>>
          \/ /\ part = "aplic" /\ AplicNext
             /\ UNCHANGED <<part, vars, vplicVars, hartVars, lvars>>
          \/ /\ part = "hart" /\ HartNext
             /\ UNCHANGED <<part, vars, vplicVars, avars, lvars>>
          \/ /\ part = "loongarch" /\ VcpuNext
             /\ UNCHANGED <<part, vars, vplicVars, avars, hartVars>>

MCSpec == MCInit /\ [][MCNext]_<<part, vars, vplicVars, avars, hartVars, lvars>>
=============================================================================

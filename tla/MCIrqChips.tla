----------------------------- MODULE MCIrqChips -----------------------------
(***************************************************************************)
(* One model-checking instance for the interrupt controllers of aarch64:    *)
(* the list registers of a GICv3 (VirtualIrq) and of a GICv2 (Gicv2), the   *)
(* emulated distributors (Vgic3, Vgic2) and the ITS's command queue (Its).  *)
(* They share no state: part says which of them is explored, the others     *)
(* stay in their initial states.                                            *)
(***************************************************************************)
EXTENDS VirtualIrq, Vgic3, Gicv2, Vgic2, Its, TLC

VARIABLE part

\* A zone per CPU and, in one register, an interrupt of each.
MCZoneOf  == 0 :> 0 @@ 1 :> 1
MCWordOf  == 32 :> 1 @@ 33 :> 1
MCIrqZone == 32 :> 0 @@ 33 :> 1
\* The fields of a register of the GICv2 belong to the zones in turn.
MCOwner   == [i \in Field |-> i % 2]

Parts == {"gicv3", "its", "vgic3", "gicv2", "vgic2"}

MCInit == /\ part \in Parts
          /\ Init /\ ItsInit /\ DistInit /\ Gicv2Init /\ Dist2Init

\* A step of one part leaves the others alone.
Gicv3(act) == /\ part = "gicv3" /\ act
              /\ UNCHANGED <<part, itsvars, gvars, g2vars, d2vars>>
ItsDo(act) == /\ part = "its" /\ act
              /\ UNCHANGED <<part, vars, gvars, g2vars, d2vars>>

MCNext == \/ Gicv3(Next)
          \/ ItsDo(ItsNext)
          \/ /\ part = "vgic3" /\ DistNext
             /\ UNCHANGED <<part, vars, itsvars, g2vars, d2vars>>
          \/ /\ part = "gicv2" /\ Gicv2Next
             /\ UNCHANGED <<part, vars, itsvars, gvars, d2vars>>
          \/ /\ part = "vgic2" /\ Dist2Next
             /\ UNCHANGED <<part, vars, itsvars, gvars, g2vars>>

all == <<part, vars, itsvars, gvars, g2vars, d2vars>>

\* The fairness of VirtualIrq and of Its.
MCFairSpec == /\ MCInit /\ [][MCNext]_all
              /\ SF_all(Gicv3(Maintenance)) /\ WF_all(Gicv3(handle_maintenace_interrupt))
              /\ WF_all(ItsDo(Wait \/ Finish)) /\ WF_all(ItsDo(Execute))
=============================================================================

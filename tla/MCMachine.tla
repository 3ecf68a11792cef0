----------------------------- MODULE MCMachine ------------------------------
(***************************************************************************)
(* One model-checking instance for what hvisor sets up around its guests:   *)
(* the boot of the CPUs (Boot), frames and page tables (FrameAlloc,         *)
(* PageTable), PCI devices and the SMMU (Pci, Smmu), and inter-zone         *)
(* communication (Ivc).  They share no state: part says which of them is    *)
(* explored, the others stay in their initial states.                       *)
(***************************************************************************)
EXTENDS Boot, FrameAlloc, PageTable, Pci, Smmu, Ivc, TLC

VARIABLE part
-----------------------------------------------------------------------------
\* Four CPUs with different PARange.
MCPaRange == 0 :> 2 @@ 1 :> 5 @@ 2 :> 1 @@ 3 :> 2

\* Regions of 1 to 5 pages, aligned to blocks and not, overlapping and not,
\* and page tables of every architecture, stage and depth.
Rgn(s, n, p, f) == [start |-> s, size |-> n, paddr |-> p, flags |-> f]
RWX       == {"READ", "WRITE", "EXECUTE"}
MCRegion  == {Rgn(0, 4, 8, RWX), Rgn(0, 5, 0, RWX), Rgn(2, 3, 4, RWX), Rgn(4, 4, 4, {"READ", "WRITE"}),
              Rgn(4, 2, 7, RWX \cup {"IO"}), Rgn(6, 1, 2, {"READ"}),
              Rgn(3, 2, 3, RWX \cup {"NO_HUGEPAGES"}), Rgn(7, 1, 12, RWX)}
MCFormats == {<<"aarch64", 2, 3>>, <<"aarch64", 2, 4>>, <<"aarch64", 1, 3>>,
              <<"riscv64", 1, 3>>, <<"riscv64", 2, 3>>, <<"loongarch64", 2, 4>>}

\* Two assigned devices whose BARs are small, share a page, cross one, or are
\* 64 bits wide.
Bar(k, s, a) == [kind |-> k, size |-> s, addr |-> a]
NoBar     == Bar("none", 0, 0)
MCDevices == {"d1", "d2"}
MCCpuBase == [IO |-> 1024, Mem32 |-> 2048, Mem64 |-> 4096]
MCPciBase == [IO |-> 0, Mem32 |-> 32, Mem64 |-> 256]
MCLayouts ==
  {("d1" :> x) @@ ("d2" :> y) :
     x \in {<<Bar("mem32", 16, 64), Bar("mem32", 16, 80), NoBar>>,
            <<NoBar, Bar("mem64lo", 32, 96), Bar("mem64hi", 0, 1)>>,
            <<Bar("mem64lo", 16, 64), Bar("mem64hi", 0, 1), Bar("mem32", 64, 128)>>,
            <<Bar("io", 16, 16), Bar("mem32", 128, 128)>>,
            <<Bar("mem64lo", 128, 0), Bar("mem64hi", 0, 1)>>},
     y \in {<<Bar("mem32", 16, 32), Bar("io", 16, 48), NoBar>>,
            <<Bar("io", 16, 0), Bar("mem64lo", 64, 0), Bar("mem64hi", 0, 2)>>,
            <<NoBar, Bar("mem32", 32, 32)>>}}

\* The bits of the roots of two zones' tables, with one in common.
MCRoot == 0 :> {4} @@ 1 :> {4, 5}
\* Frames that are clear, and frames with a bit of zone 1 and one of nobody.
MCStale == {[vmid |-> {}, ttb |-> {}], [vmid |-> {0}, ttb |-> {3}]}

\* Zones with a region in common, alone and after another one, at an address
\* that another configuration uses for the other region, and a region whose
\* sections are not whole pages.
Conf(i, p, m, q, a) == [id |-> i, peer |-> p, max |-> m, sec |-> 8192, irq |-> q, ct |-> a]
MCConfigs == 0 :> {<<Conf(1, 0, 2, 60, 10)>>} @@
             1 :> {<<Conf(1, 1, 2, 61, 10)>>, <<Conf(2, 0, 2, 62, 10), Conf(1, 1, 2, 61, 11)>>} @@
             2 :> {<<Conf(2, 1, 2, 63, 10), Conf(1, 2, 3, 64, 11)>>,
                   <<[Conf(2, 1, 2, 63, 10) EXCEPT !.sec = 2048]>>, <<Conf(2, 1, 2, 63, 11)>>}
-----------------------------------------------------------------------------
\* Pci is explored in two halves that share no variable once the zone has been
\* created: the BARs, of all layouts, and the command registers, with one.
Parts == {"boot", "frames", "table", "bars", "pci", "smmu", "ivc"}

MCInit == /\ part \in Parts
          /\ Init /\ FrameInit /\ TableInit /\ PciInit /\ SmmuInit /\ IvcInit
          /\ part # "table" => fmt = (CHOOSE f \in MCFormats : TRUE) /\ ptjob = NoJob
          /\ part # "bars" => found = CHOOSE b \in MCLayouts : TRUE
          /\ part # "smmu" => /\ shift = CHOOSE n \in Shifts : TRUE
                             /\ allocated /\ ste[0].vmid = {}
          \* Stream 1 finds clear frames, and so does a table at address 0.
          /\ ste[1].vmid = {}
          /\ ~allocated => shift = 0 /\ ste[0].vmid = {}

\* A step of one part leaves the others alone.
BootDo(act) == /\ part = "boot" /\ act
               /\ UNCHANGED <<part, fvars, ptvars, pcivars, smvars, ivars>>
SmmuDo(act) == /\ part = "smmu" /\ act
               /\ UNCHANGED <<part, vars, fvars, ptvars, pcivars, ivars>>

MCNext == \/ BootDo(Next)
          \/ SmmuDo(SmmuNext)
          \/ /\ part = "frames" /\ FrameNext
             /\ UNCHANGED <<part, vars, ptvars, pcivars, smvars, ivars>>
          \/ /\ part = "table" /\ TableNext
             /\ UNCHANGED <<part, vars, fvars, pcivars, smvars, ivars>>
          \/ /\ \/ part = "bars" /\ (SetUp \/ AtBars)
                \/ part = "pci" /\ (SetUp \/ AtOther)
             /\ UNCHANGED <<part, vars, fvars, ptvars, smvars, ivars>>
          \/ /\ part = "ivc" /\ IvcNext
             /\ UNCHANGED <<part, vars, fvars, ptvars, pcivars, smvars>>

all == <<part, vars, fvars, ptvars, pcivars, smvars, ivars>>

\* The fairness of Boot and of Smmu.
MCFairSpec == /\ MCInit /\ [][MCNext]_all
              /\ WF_all(BootDo(PrimaryStep)) /\ \A c \in CPU : WF_all(BootDo(Step(c)))
              /\ WF_all(SmmuDo(Driver)) /\ WF_all(SmmuDo(Hardware))
-----------------------------------------------------------------------------
(* BootCompletes: every CPU gets through the barriers of rust_main.         *)
EveryCpuBoots == part = "boot" => BootCompletes
=============================================================================

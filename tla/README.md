# A TLA+ model of hvisor

hvisor is a type-1 hypervisor in Rust. It gives CPUs, memory and devices
statically to *zones*: the root zone (zone 0, a Linux that manages the others and
runs the virtio back end) and guest zones it starts and stops by hypercalls.
There is no scheduler: a CPU belongs to at most one zone, and the CPUs work
together only through shared memory, spin locks and inter-processor interrupts.
This directory models its own logic: the parts where CPUs, guests and interrupts
interleave, the emulated interrupt controllers that zones share, and what it sets up
around a guest (memory, PCI, SMMU, shared regions). Paths below are relative to the repository (`src/...` is its source
directory).

## The system

| Component | State | Operations | Talks to |
|---|---|---|---|
| Events (`event.rs`, `arch/*/ipi.rs`) | one queue of event ids per CPU, the pending IPI of the CPU | `send_event`, `check_events`, `clear_events` | every other part: it is how one CPU makes another act |
| Zones (`zone.rs`, `percpu.rs`, `hypercall/mod.rs`, `arch/aarch64/{cpu,trap}.rs`) | `ZONE_LIST`, per CPU `zone`, `power_on`, `cpu_on_entry`, `ctrl_lock`, stage-2 tables; per zone a lock and its CPU set | `hv_zone_start`, `hv_zone_shutdown`, PSCI `CPU_ON` and `SYSTEM_OFF`, `run`, `idle`, `zone_error` | events, virtio (`VIRTIO_IRQS`), MMIO |
| Virtual interrupts (`device/irqchip/gicv3/mod.rs`) | list registers, `PENDING_VIRQS`, the maintenance interrupt's enable bit | `inject_irq`, `gicv3_handle_irq_el1`, `handle_maintenace_interrupt` | the guest, the physical GIC |
| Virtio trampoline (`device/virtio_trampoline.rs`, `hv_virtio_inject_irq`) | request and result ring, `cfg_flags`, `cfg_values`, `need_wakeup`, `VIRTIO_IRQS` | `mmio_virtio_handler`, `handle_virtio_irq`, the hypercall | the back end in the root zone, events, virtual interrupts |
| Boot (`main.rs`, `arch/aarch64/mm.rs`) | counters `ENTERED_CPUS`, `INITED_CPUS`, `INIT_*_OK`, `PARANGE_OK_CPUS`, `MIN_PARANGE` | `rust_main` | PerCpu, the root zone |
| Frames, page tables, memory sets (`memory/`, `arch/*/{paging,s1pt,s2pt}.rs`) | the bitmap of frames; a tree of frames with entries of the architecture; the regions of a set | `new_*`, `drop`; `insert`, `map`, `unmap`, `query`, `clear` | zone creation, MMIO, PCI |
| GICv3 distributor, redistributors, ITS (`gicv3/{vgic,gits,gicr,gicd}.rs`) | the hardware's registers, shared; the zones' and the real command queue | MMIO handlers, `set_cwriter`, `arch_irqchip_reset` | guests, zone lifecycle |
| GICv2 (`gicv2/`) | list registers, `PENDING_VIRQS`, the distributor | `gicv2_handle_irq`, `inject_irq`, the maintenance interrupt, MMIO handlers | the guest, the physical GIC |
| PLIC and virtual PLIC (`plic/`) | pending, active, enable, priority and threshold, virtual and physical; the hart's line | claim, complete, register accesses, `inject_irq` | events (`UPDATE_HART_LINE`), guests |
| APLIC, ACLINT, LS7A2000 (`aia/`, `aclint/`, `ls7a2000/`) | one physical APLIC; a software interrupt bit; HWIS and the injection status | register filter; set and clear; inject and clear | guests, events |
| riscv64 harts (`arch/riscv64/{trap,sbi,cpu}.rs`) | power, timer, `hvip`, `sie` | SBI calls, timer and software interrupts, emulated accesses | events, vPLIC |
| loongarch64 CPUs (`arch/loongarch64/{trap,cpu,zone}.rs`) | the saved context, guest id, timer | trap entry and return, emulated instructions, hypercalls, `run`, `idle` | events, LS7A2000 |
| IVC, HyperAMP (`ivc.rs`, `hyperamp.rs`) | `IVC_RECORDS`, `IVC_INFOS`, the control page | registration, the page's handler, the doorbell | zone creation, virtual interrupts |
| PCI (`pci/`) | BARs, command registers, phantom devices | `bars_init`, `mmio_pci_handler` | guests, memory sets |
| SMMUv3 (`arch/aarch64/iommu.rs`) | command queue, stream table | `sync_issue`, `write_ste`, `iommu_add_device` | the hardware, zone creation |

What is hard in it: everything at EL2 runs with interrupts masked and spins on
locks, so a CPU that waits cannot be told anything; IPIs merge while events
queue; a hypercall of one CPU changes the `PerCpu` of others; a zone is stopped
while its CPUs trap; the virtio rings are shared with a process that takes no
lock; list registers run out; zones share the registers of one interrupt controller; an
interrupt is claimed by one operation and completed by another; memory
management units and the SMMU read tables that are being written; an
insertion fails half-way. `PROJECT.json` lists the hazards at their lines.

What makes each part correct: an event that matters is not left behind; a CPU
has one owner, and runs only on tables that exist; a start and a shutdown come to
an end; an interrupt is not lost or doubled; a register field has the value its own zone
gave it; every device access gets its own answer; a guest finds its registers as it left
them; a page translates to the page it was granted; no CPU enters a guest before the
machine is set up.

## Modules

| Module | Models | EXTENDS |
|---|---|---|
| `EventQueue` | event ids, `add_event`, `fetch_event` | |
| `Events` | delivery on aarch64 with GICv3 | `EventQueue` |
| `EventsLevel` | delivery on riscv64 and loongarch64 | `EventQueue` |
| `ZoneLifecycle` | zones, composed with the event layer of `Events` | `EventQueue` |
| `VirtualIrq` | one CPU's list registers and pending queue, GICv3 | |
| `Vgic3` | distributor and redistributors shared by zones, GICv3 | |
| `Its` | the command queues of the ITS | |
| `Gicv2`, `Vgic2` | the same two for GICv2 | |
| `ZoneHarts` | the harts of a riscv64 zone | |
| `Vplic` | a zone's virtual PLIC with the physical one | `ZoneHarts` |
| `Aplic` | the shared APLIC's register filter | |
| `RiscvHart` | a zone's harts: SBI, timer, IPIs, emulated loads | `ZoneHarts` |
| `LoongVcpu` | the exits of a loongarch64 guest, LS7A2000's injection | |
| `VirtioBridge` | the trampoline, composed with a reduced event layer | `EventQueue` |
| `Boot` | the barriers of `rust_main` | |
| `FrameAlloc` | the frame allocator | |
| `Pte` | page table entries of the three architectures | |
| `PageTable` | a memory set over a multi-level table | `Pte` |
| `AddressSpace` | what a memory set promises: a flat map | |
| `Pci`, `Smmu`, `Ivc` | the components of these names | |
| `MCEvents`, `MCEventsLevel`, `MCZoneLifecycle`, `MCVirtualIrq`, `MCVirtioBridge` | instances for TLC | the module they are named after |
| `MCHarts` | an instance of five components | `EventsLevel`, `Aplic`, `Vplic`, `RiscvHart`, `LoongVcpu` |
| `MCIrqChips` | an instance of five components | `VirtualIrq`, `Vgic3`, `Gicv2`, `Vgic2`, `Its` |
| `MCMachine` | an instance of six components | `Boot`, `FrameAlloc`, `PageTable`, `Pci`, `Smmu`, `Ivc` |
| `Powers` | lemmas about powers of two | `FiniteSetTheorems`, `TLAPS` |
| `EventsProof`, `ZoneLifecycleProof`, `VirtioBridgeProof`, `PageTableProof` | theorems | the module they are named after, `TLAPS` |
| `IrqChipsProof` | theorems | `VirtualIrq`, `Vgic3`, `Gicv2`, `Vgic2`, `Its`, `TLAPS` |
| `HartsProof` | theorems | `EventsLevel`, `Aplic`, `Vplic`, `RiscvHart`, `LoongVcpu`, `Powers` |
| `MachineProof` | theorems | `Boot`, `FrameAlloc`, `Pci`, `Smmu`, `Ivc`, `Powers` |

`MCHarts`, `MCIrqChips` and `MCMachine` each explore several components that share no state:
`part` selects one in the initial state and the others keep their initial
values. The next-state relations are the components' own. Components that one module extends
together have specifications of their own names: `AplicSpec`, `VplicSpec`, `HartSpec`, `VcpuSpec`, `DistSpec`, `Gicv2Spec`,
`Dist2Spec`, `ItsSpec`, `FrameSpec`, `TableSpec`, `PciSpec`, `SmmuSpec`, `IvcSpec`; elsewhere it is `Spec`.

An operator named `X_Something` under a comment `Defect:` is a changed form of
the operator `X` that follows it: putting it in the place of `X` must make a
property fail, which shows that the property depends on that piece of code.

### Events

`send_event` is two steps of the sender, `SendAdd` (the push, under the queue's
mutex) and `SendSgi` (the write of `ICC_SGI1R_EL1`). The SGI at a CPU is one
pending bit, so SGIs merge. The receiver takes the interrupt (`TakeIrq`),
acknowledges and deactivates it (`Acknowledge`), and calls `check_events` once,
which pops one event; the loop of `gicv3_handle_irq_el1` goes round until
nothing is pending (`IrqDone`). WAKEUP and SHUTDOWN do not return to the loop.
A guest may send SGI 7 itself (`GuestSgi`). `surplus` is a history variable.

### EventsLevel

The IPI is a bit that the handler clears, after it has emptied the queue. The
architecture is chosen in the initial state: on loongarch64 `send_event`
first empties the target's queue (`SendDrain`). Two history variables say how an event can be left
behind: `raced` (an IPI came while the CPU was about to clear the bit) and `cut` (an event for which
`check_events` has no arm ended the loop). A guest of loongarch64 can send IPIs through the same registers (its `iocsrwr` is
carried out by `emulate_iocsr`, and the configuration of ls3a5000 maps them): `ForeignIpi`, to the CPUs in `Reached`. The handler
looks for events only when the status is `SGI_IPI_ID` and nothing else, so such a bit makes it ignore hvisor's (`ignored`).

### ZoneLifecycle

One process per CPU; a step is the code between two points where another CPU
can see or disturb it. `pc` names the place, with a prefix for the handler:
`zs_` `hv_zone_start`, `sd_` `hv_zone_shutdown`, `so_` SYSTEM_OFF, `mm_` a device
access, `ze` `zone_error`, `run`/`idle` the functions of `ArchCpu`. Zone objects are
numbered in the order of creation, so a zone started again under its old id is
another object; `strong_count` counts the references as the Arc does: the list, the
CPUs, and the local clones handlers keep (`Cloning`). A panic stops the CPU with
the locks it holds.

`MAX_WAIT_TIMES` in the wait loop is ten million polls. It is modelled as running out on
a CPU that is `Stuck` (it panicked, or waits for a lock the waiting CPU holds), which
is when it really does; a CPU that is merely slow is waited for.

`Env` says what guests and the root zone do. Two of its members restrict them:
`patient` (a zone is stopped only once its boot CPU is on) and `orderly` (only when
all its CPUs are at rest in their guest, and a zone being stopped does not
trap). CPU_ON is issued for CPUs of the guest's own zone only; the code does not
check that yet (`Todo` at `src/arch/aarch64/trap.rs:341`). The history `gaveUp` has the CPUs a SYSTEM_OFF took from their zone, which
it does without removing the zone from `ZONE_LIST`; `refused` has the zones whose start ended with EBUSY. `find_zone` and
`remove_zone` read-lock the zones up to the match (`Read`). One CPU of the root zone makes
hypercalls in the runs.

### VirtualIrq

`inject_irq(i, q)` does nothing if a valid register holds `i`, else uses the lowest free
register, else queues `i` and switches the maintenance interrupt on.
`handle_maintenace_interrupt` is one action per turn of its loop; the case in
which it queues an interrupt that `inject_irq` has already queued appears as `<<i, i>>`.
The guest and the devices are external. `owed` is a history variable.

### VirtioBridge

A request carries the number of the access, so an answer can be told from an earlier
one. The back end is external: it takes requests, answers, announces
`need_wakeup`, looks again and sleeps. `Relaxed` names the two reorderings that
the missing fences allow the machine: `seen_rear` is the index as the back end sees it,
`LoadValue` a load performed early. The Bridge part of `mmio_virtio_handler` holds
`VIRTIO_BRIDGE`; the wait for an answer does not.

### Boot

One action per statement of `rust_main` that another CPU can observe. `InitEarly` is
`primary_init_early`, with `zone_create` for the root zone in it. When the smallest PARange is 6, the index of
`PARANGE_TABLE` panics (place `index`).

### Vgic3, Its

Zones share the registers of the distributor. `restrict_bitmask_access` either pokes the masked
bits in (`SetEnable`, `ClearEnable`), or reads, changes and writes back under
`GICD_LOCK` (`Modify`, `WriteBack`, so that other CPUs run in between). `arch_irqchip_reset` is
what `hv_zone_shutdown` calls. `SystemOff` removes a zone without it; `off` has the zones that went this way. In `Its`, `insert_cmd` is a guest's store to CWRITER: it takes `CMDQ`, copies the new
commands to the real queue (`Copy`) and tells the hardware (`tell`); then the CPU waits for it
(`Wait`, `Execute`, `Finish`). Commands are numbered in the history `asked`, and `done` is
what the hardware executed.

### Gicv2, Vgic2

`Gicv2` is `VirtualIrq` for the older controller; its comparisons by bits 10 to 19 of a list register are kept. The maintenance interrupt
is interrupt 25. hvisor never enables it and its handler writes neither EOIR nor DIR, so it is on (`on25`) if the firmware or the guest
has enabled it, and after it was taken once it stays active (`act25`) until the guest clears that (`Guest25`).
`Vgic2` models accesses of one, two and four bytes with the code's masks and shifts.

### Vplic, Aplic, RiscvHart

`Vplic` has both PLICs: `ExternalInterrupt` claims at the physical one, the guest's claim and
completion go to the virtual one, and completing a hardware interrupt completes it
below. `update_hart_line` acts at once on the own hart and by an event on another. `Aplic` has
one action per register the handler knows; `ReadMode`/`WriteTarget` are the two halves of a
store to a target. `RiscvHart` has the timer with its interrupt masked while it is shown to
the guest, HSM, IPIs, and the extension of emulated loads with bytes of two bits.

### LoongVcpu

Entry saves the guest's registers in `ctx`, handlers work on `ctx`, return loads them. `want` is what
the guest must find according to the instruction set, and `wrong` the target of a load that the code does not carry out:
`ld.b` and `ld.bu` given to `emulate_instruction`, and a load of 8 bytes. Of each kind of register there is
one; opcodes appear by what they do to the registers. A CPU gets a zone and loses it (`TakeZone`, `LeaveZone`), and an IPI that finds it parked
and brings no WAKEUP returns into a guest (`TrapParked`, `InterruptDone`), as the code does.

### FrameAlloc, PageTable, Pte, AddressSpace

`FrameAlloc` takes the bitmap's lock for each operation; frames are held by values that are dropped
in any order. `PageTable` maps one page, or creates one intermediate table, per step; a table has two
entries instead of 512, so that four levels and all block sizes fit 16 pages. A walk is three steps (`go`) from one
`Place`, a table and its level, to the next, and stops early at an unused entry or a huge page, as the code's does. `Pte` has the
descriptors' attribute bits and their way back into `MemFlags`. `ImplementsAddressSpace`
is the refinement: the translation the MMU would find by walking the table, at any moment,
is a behaviour of `AddressSpace`, whose regions are opened, filled, granted and withdrawn. Of some pages nothing is promised (`Unpromised`).
On riscv64 the root of stage 2 is four frames, of which `Frame::new_16` clears one, found by its number: the MMU
walks what the other three held (`UpperPages`); and when the frames of a fragmented pool are not the one that was cleared, the whole table
starts with unknown contents (`rootJobs`, the job `Lost`), and the model follows that set no further.

### Pci, Smmu, Ivc

`Pci` sizes BARs of a zone's devices from what registers answer after ones were written (`pci_init`), maps the regions this
gives one after the other, in any order (`pci_bars_register`), and serves configuration accesses once the zone is `Created`. I/O, 32-bit
and 64-bit BARs have windows of their own, in which the CPU and the bus may number addresses differently. An insertion whose error `.ok()` drops
fails because of an overlap, or in the page table, at any page of the range (`unfit`, and `stray` the pages before). The zone writes any register of its
devices, BARs included (`AccessBar`): the mapping stays with where they were (`found`). Of another device offset 4 is virtual. A byte store at offset 5 is not, and
reaches the device (`WriteUpper`). What is left of the windows of the BARs has the same handler (`virtual_pci_mmio_init`), so accesses to memory there
are taken for configuration accesses (`HeaderWindow`, `WriteWindow`).

`Smmu` has the queue's indices with their wrap bit, and an SMMU that
fetches, caches and executes at any moment. `init_bypass_ste` writes two of an entry's double words; what the frames held in the others (`Stale`) stays
(`was`). A table whose allocation failed is at address 0, in memory that others write (`allocated`, `Overwrite`).

`Ivc` interleaves creations of zones, which register
regions one at a time, with accesses to the control tables and doorbells; HyperAMP's doorbell is in it. A control table is known by its address (`ct`), which another configuration of the
zone may give another region; the handler looks it up in `IVC_INFOS` (`lookup`, `ivc_id`), which outlives the zone.

## Runs

| Run | Checks | Result |
|---|---|---|
| `events` | `ShutdownNeverStranded`, `NoSpuriousIpi`, `ShutdownServed` | hold |
| `harts` | `StrandedOnlyByRace`, `ClaimsKept`, `SoftIrqSignalled`, `RootSourcesKept`, `TimerExact`, `LoadExtends`, `GuestStateKept` | hold |
| `events_level_lost` | `ShutdownNeverStranded` | violated |
| `zone_orderly` | `GuestInLiveZone`, `NoPanic`, `StartCompletes`, `ShutdownCompletes` | hold |
| `zone_rough` | `ShutdownNeverStranded`, `OneOwner`, `NoCpuLeak` | hold |
| `zone_stop` | `AllCpusDown` | violated |
| `irq_chips` | `HeldOnce`, `CommandsForwarded`, `FieldsAreOwn`, `TakenIsListed`, `PriorityIsOwn`, `WaitingIsInjected`, `CmdqReleased` | hold |
| `virtual_irq_lost` | `InjectedIsPending` | violated |
| `bridge` | `RequestHeld` | hold |
| `bridge_in_order` | `OwnAnswer`, `AccessReturns`, `VirtioIrqInjected` | hold |
| `bridge_four` | `RoomForEveryDevice` | violated |
| `machine` | `RootZoneReady`, `FramesAccounted`, `TranslatesRegions`, `ClearNeverPanics`, `BarsMapped`, `CommandIsVirtual`, `StreamsKept`, `RegionShared`, `HandlerAnswers`, `EveryCpuBoots`, `ImplementsAddressSpace`, `AddDeviceReturns` | hold |

An invariant that names several others is their conjunction, and each of them is stated and commented in the component's module:
`ClaimsKept` (`ClaimedOnce`, `ClaimIsOwed`), `TimerExact` (`TimerNotLost`, `TimerNotEarly`), `RootSourcesKept` (`ModesKept`,
`ForeignTargetsDirect`), `GuestStateKept` (`GuestRegisters`, `OnlyTargetWrong`, `OwnGuestId`, `IdleMeansClear`), `HeldOnce` (`OneRegister`,
`ActiveIsHeld`, `WaitingIsServed`), `FieldsAreOwn` (`OwnValues`, `ReservedStayEnabled`, `EnabledHasZone`), `TakenIsListed`
(`HwNotLost`, `OnlySgiOneDropped`, `WaitingWakes`), `StreamsKept` (`SteOfOwner`, `SyncedBeforeWrite`), `RootZoneReady`
(`RootZoneKept`, `ParangeFitsAll`, `AssertionsHold`, `GuestAfterInit`).

What the passing runs show, in a sentence each:

* `events`: On a GICv3, where SGIs merge and each fetches one event: a SHUTDOWN is never left in a queue without an SGI and is served, and an interrupt the guest did not ask for has one of three known causes.
* `harts`: What runs on the harts of riscv64 and the CPUs of loongarch64: events with a level-triggered IPI, the virtual PLIC, the shared APLIC, SBI timer and HSM calls with MMIO emulation, and the exits of a loongarch64 guest. Interrupts are claimed once and completed, timers neither lost nor early, and the registers of a guest that run() has started survive every exit but the loads that have no effect.
* `zone_orderly`: A zone started, its CPUs switched on, stopped and started again by an orderly root zone: no guest runs on removed tables or from a stale entry, no panic, and every start and shutdown comes to its end.
* `zone_rough`: Zones with overlapping configurations stopped at any moment, with faults, device accesses, CPU_ON and SYSTEM_OFF in between: shutdowns are delivered, zones share no CPU but one that a SYSTEM_OFF has taken from its zone, and a CPU stays assigned to a zone that is gone only after a start refused with EBUSY or a SYSTEM_OFF that removed the wrong zone.
* `irq_chips`: The interrupt controllers of aarch64: list registers and waiting queue of a GICv3 and of a GICv2, the emulated distributors shared by zones, the ITS command queue. Interrupts that wait on a GICv3 are injected, on a GICv2 they are kept; ITS commands are executed once and in order; a zone changes only its own fields.
* `bridge`: The request ring under wrap-around, full ring and relaxed memory: no request of a waiting CPU is lost or overwritten.
* `bridge_in_order`: With memory accesses in program order every access gets its own answer and returns, and every listed interrupt is injected.
* `machine`: What hvisor sets up around its guests: the barriers of rust_main on four CPUs, the frame allocator, multi-level page tables (they implement the flat map of AddressSpace), PCI BARs and command registers, the SMMU command queue and stream table, IVC regions.

**Bounds.** `events`: two CPUs, each sender and receiver, and queues of two
events, so that an event can be stranded behind another and a third SGI can merge; four
event ids, one for each way `check_events` ends. `zone_orderly`: a zone of two CPUs started three times in a row, so that the second
and third start meet what the first left. `zone_rough`: configurations that overlap with each
other and with the root zone, two zone objects, queues of two events (three objects are beyond TLC with all of
`Env`; they pass with CPU_ON and SYSTEM_OFF alone and queues of one event, and the theorems about this run hold for any number).
`bridge`: a ring of two slots, which wraps at every request and is full with one, two CPUs with
two accesses, two interrupts.

`harts`: two harts with an interrupt of the hardware and one of hvisor's, which is kept on one hart or on the other
as well; two sources of the APLIC, one of each zone; loads of every width and signedness, on loongarch64 those of 8 bytes among them; an event queue of two events, one event for each way `check_events` ends, and guests that send IPIs to
both CPUs (to none in `events_level_lost`, whose SHUTDOWN is lost without them).
`irq_chips`: two list registers and four interrupts, so that registers run out; two zones with an interrupt each in one register; an
ITS queue of three entries, which wraps with three commands per zone, and two zones; three list registers of which GICv2 uses
two. `machine`: four CPUs with different PARange; six frames with runs of two, aligned to two;
eight regions, aligned to blocks and not, overlapping and not, with five frames for the tables, so that
insertions fail for both reasons; fifteen layouts of BARs that are small, share a page, cross one or are 64 bits wide, which the guest moves afterwards; clear frames and frames with a bit set for the stream table; SMMU queues of one, two and four entries; three starts of zones that share regions in different orders, with configurations that give the address of one region's control table
to another region. The accesses to BARs and those to command registers are explored apart (`MCMachine`): they share no variable once the zone is created.

**Deadlock** is checked in `events`. The others say `CHECK_DEADLOCK FALSE`: their inputs are bounded (zones
created, accesses made), a panic stops a CPU, and a boot ends.

**Fairness.** Code at EL2 runs on (weak fairness of its steps), and a spin lock
that is free again and again is got (strong fairness of the handlers). A pending interrupt is
taken although the guest keeps trapping for other reasons in between, since each
return to the guest gives it another chance: strong fairness of `TakeIrq`. Nothing
is assumed of guests. The back end is assumed to keep running. `WaitingIsInjected`
assumes in addition that the guest brings the list registers down to one in use again
and again; without that new interrupts can take every free register. The ITS and the SMMU execute the commands they
find (weak fairness of `Execute`, `Hardware`) while they are on, and the CPU that waits for them polls
(`Wait`, `Finish`, `Driver`). Every CPU runs at boot (`Step`, `PrimaryStep`).

## What the violated properties show

* `events_level_lost`: the handlers of riscv64 and loongarch64 clear the IPI after they saw the
  queue empty, so an IPI in between is cleared and its event, a SHUTDOWN for
  example, stays. `StrandedOnlyByRace` shows that only this, an event without an arm
  in front of it, or on loongarch64 a guest's IPI beside hvisor's strands one.
* `zone_stop`: `hv_zone_shutdown` waits for CPUs while it holds `zone.write()` and
  `VIRTIO_IRQS`. A CPU at EL2 that needs one of them never switches off; the wait runs
  out and the zone is removed under it.
* `virtual_irq_lost`: an interrupt injected while the guest handles the previous one
  (its list register is active) is dropped.
* `bridge_four`: the assertion `len + 1 < MAX_DEVS` admits three interrupts, the comment
  says four devices.

The models show more of this kind when other bounds are chosen; they are
recorded here because they limit what the passing runs say:

* `ZoneLifecycle` with `Env = {}`: a shutdown right after a start reads `power_on` before the
  booting CPU has set it (`AllCpusDown` fails), hence `orderly`.
* with `system_off`: a zone that has switched itself off can be started again while
  its CPU is still on its way to `idle`; EBUSY comes after the CPUs were assigned, and they
  stay assigned. And the zone it then removes by its id can be the one started anew, upon which `remove_zone` panics. `NoCpuLeak` names
  these two; `zone_rough` reaches both.
* with `system_off`, further: the CPUs are free for another zone while the one that switched itself off is still listed,
  so both list the CPU; `OneOwner` leaves these CPUs out by `gaveUp`.
* without `orderly`: a handler on another CPU holds a clone of the zone's Arc when `remove_zone` asserts that its own is the
  last (`NoPanic` fails).
* with two root CPUs: both can start the same zone (the part `ZonesApart` of `OneOwner` fails; `RootUntouched` holds).
* with `orderly` and zones `{1, 2}` and `{2}`: CPU 2 was never on, so the shutdown of the first
  zone does not wait for it; the WAKEUP of the second zone can merge with the
  SHUTDOWN's SGI and stay queued (`StartCompletes` fails).
* `hv_shm_signal` sends to CPU 2 whatever the zone, on purpose.
* `VirtioBridge` with `Relaxed = {"store_load"}`: the back end can sleep on a request
  (`AccessReturns` fails); with `{"load_load"}`: a configuration read can return the previous answer
  (`OwnAnswer` fails); with `MaxShm = 1`: a virtio event can be stranded behind a
  shared-memory signal (`VirtioIrqInjected` fails).
* on loongarch64 `send_event` discards what is in the target's queue.

The same goes for the components the runs `harts`, `irq_chips` and `machine` explore. Their
properties are stated so that they say what does hold; what does not is:

* `Vplic`: stores to the enable bits and priorities of hardware interrupts do not recompute the hart's
  line; `set_enable_num` never clears a bit; an interrupt moved to another hart while active is forgotten; a
  zone stopped with a claimed interrupt leaves it claimed.
* `Aplic`: delegation, the enable bits, the MSI address and targets for direct delivery are not tested for CPU 3;
  registers without a case panic; `arch_irqchip_reset` is `todo!()`.
* `RiscvHart`: a parked hart keeps other interrupts than the software interrupt enabled; HSM start has no start-pending state; a
  store passes the untruncated register; a timer survives the zone.
* `LoongVcpu`: `idle` never clears `power_on` and leaves interrupts off; `ArchCpu.init` is never reset, so a second start
  keeps the pc; the timer is restored by writing 0 to TVAL; `set_hwis` overwrites other lines; a load of 8 bytes shifts by
  64; `ld.b`, `st.b` and `ld.bu` do nothing, so a load's target keeps its old value (`wrong`); an IPI without WAKEUP returns from a parked CPU into a guest
  that nobody started, with guest id 0 while the CPU has no zone (`OwnGuestId`).
* `Vgic3`: an access to the redistributor of a CPU without a zone panics; accesses of parts of a word are masked as words;
  the list registers and `PENDING_VIRQS` are not cleared between zones (`VirtualIrq`); SYSTEM_OFF leaves the zone's interrupts enabled, and
  `EnabledHasZone` excepts the zones that went by it until they are created again.
* `Its`: a store of 0 to CWRITER is ignored, a wrapped index makes the unsigned difference huge (`hung`),
  `creadr_list` outlives the zone, and the root zone's CBASER goes to the hardware, after which the real queue is not read.
  `CommandsForwarded` covers the zones to which none of this has happened.
* `Gicv2`, `Vgic2`: what waits for a list register may wait for ever, since hvisor neither enables nor ends the maintenance interrupt
  (`TakenIsListed` says that it is kept and the underflow interrupt asked for); the last list register is not used; the maintenance handler queues what does not fit twice; SGI 1 is dropped
  while another SGI is listed; the last register of every bank is `todo!()`; `arch_irqchip_reset` panics.
* `Boot`: with a PARange of 6 on every CPU the index of `PARANGE_TABLE` panics; `EveryCpuBoots` asks for one CPU with less.
* `PageTable`: an insertion that fails half-way leaves pages mapped that no region records; tables are freed only with the set;
  on loongarch64 the walk does not test presence; on riscv64 the three upper frames of a root, and the first when it is not the frame
  that `new_16` cleared, hold what they held before, so nothing is said of the pages they translate (`Unpromised`). `TranslatesRegions` and `ClearNeverPanics`, too,
  are about a root whose first frame was cleared.
* `Pci`: a 64-bit BAR at 4G or above whose low half is zero is taken for immutable; every read of a header adds a
  phantom entry; of another zone's device everything but offset 4, 8 and 0x34 passes through, the upper byte of the command included, and a store of the lower byte
  clears the virtual upper one; what is mapped does not follow a BAR the guest moves; a BAR whose insertion fails for want of a frame
  stays unmapped without an error; an access to memory in a window of BARs is taken for a configuration access, changes a phantom's command or adds a
  phantom.
* `Smmu`: `write_ste` only sets bits, so a stream moved to another zone gets the union of both, and a bit that the frames of the
  table held in double words 2 and 3 stays: the VMID or the table's root may then be another's. The
  entry is invalidated before it is written and not after, so a copy fetched in between stays. When the table's allocation fails, the driver goes on with a table at
  address 0. `SteOfOwner` is about streams given to one zone and an allocated table, and says which bits they have, the frames' included.
* `Ivc`: nothing checks that peer numbers of a region differ, so `IvcAssumption` says that the configurations number them well; a zone
  restarted under another peer number would keep its old entry; a zone whose `ivc_init` was refused runs with
  the `IVC_INFOS` of an earlier start, if there is one, and its handler may answer for another region than the one at the address
  (`HandlerAnswers` speaks of the others); records and peers are never removed; a configuration that fails at its second region leaves the first one;
  HyperAMP raises interrupt 74 for every zone.

## Proofs

A theorem holds for every value of the constants that satisfies the assumptions named in the component's module. They give the
constants their kinds: finite sets, numbers for CPUs, positive sizes, interrupts that are SGIs or not, a ring of at least two
slots, CPUs and interrupts that differ from "nobody" and "none", a byte of at least one bit. Four say more:

* `BootAssumption`: the boot CPU is one of the root zone's.
* `PciAssumption`: a device given to the zone is not another zone's. BARs are what PCI makes them: the size a power of two below 2^W, the address
  a multiple of it and inside its window, a 64-bit one in two registers. Firmware has placed those of a machine apart. Windows
  begin at a page, which is a power of two of at least 16 bytes (the lowest four bits of a BAR are its type).
* `IvcAssumption`: a zone is the same peer of a region in all its configurations, no other zone is, and the peer's number is below
  the region's `max_peers`.
* `PageTableAssumption`: page tables are those hvisor has; a region lies within what the table reaches. Its flags give an entry that
  looks neither unused nor, on riscv64, like a pointer to a table: on riscv64 one of READ, WRITE and EXECUTE (every caller gives READ), on
  loongarch64 not READ, EXECUTE, USER and IO without WRITE, which no caller asks for.

| Theorem | States | Inductive invariant |
|---|---|---|
| `EventsProof` `TypeCorrect`, `ShutdownFirst`, `ShutdownDelivery` | `TypeOK`, `ShutdownAtHead`, `ShutdownNeverStranded` | `IInv` |
| `EventsProof` `SpuriousOnlyBySurplus` | `NoSpuriousIpi` | `SInv` |
| `ZoneLifecycleProof` `ShutdownAwaited` | `ShutdownNeverStranded` | `QInv` |
| `ZoneLifecycleProof` `RootNeverTouched` | `RootUntouched` | `RInv` |
| `ZoneLifecycleProof` `ZonesKeptApart` | `OneOwner` | `AInv` |
| `ZoneLifecycleProof` `GuestsInLiveZones` | `GuestInLiveZone` | `OInv` |
| `ZoneLifecycleProof` `CpusNeverLeaked` | `NoCpuLeak` | `LInv` |
| `VirtioBridgeProof` `RequestsHeld`, `AnswersAreOwn` | `RequestHeld`, `OwnAnswer` | `BridgeInv`; `AnswerInv` |
| `IrqChipsProof` `VirtualIrqSafe` | `HeldOnce` | `VirqInv` |
| `IrqChipsProof` `FieldsKept` | `FieldsAreOwn` | `DistInv` |
| `IrqChipsProof` `TakenAreListed`, `PriorityKept` | `TakenIsListed`, `PriorityIsOwn` | `Gicv2Inv`; `PriorityIsOwn` |
| `IrqChipsProof` `CommandsAreForwarded` | `CommandsForwarded` | `ItsInv` |
| `HartsProof` `StrandedByRaceOnly` | `StrandedOnlyByRace` | `LevelInv` |
| `HartsProof` `SourcesKept` | `RootSourcesKept` | `AplicInv` |
| `HartsProof` `ClaimsAreKept`, `SoftIrqsAreSignalled` | `ClaimsKept`, `SoftIrqSignalled` | `VplicInv` |
| `HartsProof` `TimersAreExact` | `TimerExact` | `TimerInv` |
| `HartsProof` `LoadsExtend` | `LoadExtends` | the property, of each load |
| `HartsProof` `GuestStateIsKept` | `GuestStateKept` | `VcpuInv` |
| `MachineProof` `BootTypes`, `RootReady` | `TypeOK`, `RootZoneReady` | `IInv` |
| `MachineProof` `FramesAreAccounted` | `FramesAccounted` | `FInv` |
| `MachineProof` `CommandsAreVirtual` | `CommandIsVirtual` | `PciInv` |
| `MachineProof` `BarsAreMapped` | `BarsMapped` | `BarInv` |
| `MachineProof` `StreamsAreKept` | `StreamsKept` | `SmmuInv` |
| `MachineProof` `RegionsAreShared`, `HandlersAnswer` | `RegionShared`, `HandlerAnswers` | `IvcInv` |
| `PageTableProof` `TableInvariant`, `Translation`, `NoPanic` | `TableInv`, `TranslatesRegions`, `ClearNeverPanics` | `TableInv` |
| `PageTableProof` `Refinement`, `FlatSpec` | `ImplementsAddressSpace`, `TableSpec => Flat!ASpec` | `TableInv` |

The argument of each, and why the property alone is not inductive:

* Events. `check_events` uses an SGI up and pops the head, so an SGI could be spent on another event while a SHUTDOWN waits behind
  it. With `ShutdownAtHead` the popped event *is* the SHUTDOWN if there is one; `AddEventHead` and `FetchEventHead` say what
  the two queue operations leave. For spurious interrupts the SGIs under way to a CPU (the pending bit, one being handled, and the
  senders that have pushed and not yet signalled) are counted against its queue: unless the CPU has had a surplus SGI, there are
  never more of them than events (`Matched`), so a handler finds an event.
* Zones. Every step is of one of the kinds of `StepKinds`, which names what it writes; an invariant is shown
  for the kinds that can disturb it. `QInv` is the argument of `Events` with the handlers that send SHUTDOWN. `RInv` adds
  which object each handler works on and which CPUs it can still signal, none of them the root zone's. `AInv` adds that
  the CPUs of a zone in use are assigned to it, or not yet (`Belongs`), which makes `zone_create`'s test for free CPUs the guarantee that sets
  stay disjoint. `OInv` describes how far each CPU of a zone is (`Resting`, `OnOwnTables`, `EntrySet`, `Progress`), and that nothing a
  shutdown has cleared is set again.
  `LInv` adds to `AInv` that a CPU is in the set of the zone it is assigned to (`HasIt`), and that no CPU names a zone whose shutdown has cleared them, which
  is still the only one listed under its id (`Cleared`). So what `remove_zone` takes off the list has no CPU left (`RemovedIsFree`), or it is the wrong one and its
  assertion fails; the other steps keep who lists the zone of a CPU (`KeptStep`).
  Hypotheses: `ZonesKeptApart` and `CpusNeverLeaked` have one root CPU and any `Env`; `GuestsInLiveZones` also has `orderly` and no `system_off`. `RInv` has neither.
* Virtio. `BridgeInv` says that the back end sees no more than the ring's window in use (`SeenBehindRear`), that each request there is current and there once,
  and that a CPU not yet answered has one (`WaitersListed`). `AnswerInv` adds that an answer is there when the flag says so. `DistIs` and `NextSlotIs` are the ring's arithmetic for any size. `AnswersAreOwn` assumes that
  `load_load` is not in `Relaxed`; with it the property fails.
* GICv3. The three parts of `HeldOnce` are inductive together; `InjectIrq` says what a call of `inject_irq` keeps, for whatever queue it is
  called with, `Rotate` that popping an interrupt and putting it back twice keeps every interrupt of the queue. In the
  distributor, a read-modify-write leaves the fields of other zones alone only if what it read is still there when it
  writes: `Locked` says that the CPU between read and write has `GICD_LOCK` and that its copy is the register's contents.
* GICv2. `Gicv2Inv` says of an SGI owed to the guest that it is queued or *pending* in a list register: the register of one the guest is
  handling is going to be freed.
  `MaskIsOwn` says that masks and shifts of an access of one, two or four bytes select the zone's own fields.
* ITS. Nobody in `CMDQ` means that the indices of the driver and the hardware agree (`AtRest`), and what is between them otherwise is of the
  zone that holds it (`CopiedOwn`). A zone's queue that has not come round holds what its driver gave (`Straight`), and for a zone that the
  hardware reads, what it has executed and what is left in the shared queue make up what was given (`Carried`); `CopyPlaces` says
  that the commands of one copy end up one behind the other, wherever the shared queue wraps. Queues that have come round (`lapped`) are outside the property, as above.
* Harts. In `LevelInv` an IPI that the CPU is about to clear announces nothing (`Announced`), unless it was sent then or ignored for a guest's. `AplicInv` is the property with the shape of the registers:
  reading the delivery mode under a lock of its own adds no other way to change a target. `VplicInv` adds that what a hart may claim or has
  claimed of the hardware's interrupts is enabled for it at the physical PLIC (`Completable`) and that a hart enables
  only what the guest keeps on it (`KeptToAffinity`); `NextPending` says what the search for the best interrupt finds. `VcpuInv` says for each exception
  handler that the context holds what the guest must find but for `wrong`, and for a CPU not yet started that its context has the CSRs `run` will leave it (`ContextHeld`);
  `LoadValue` has the widths for which the two shifts are right.
  `LoadsExtend`: the two shifts of an emulated load leave its bytes below the sign, for bytes of any number of bits. TLAPS knows no law of
  exponents, but 2^n is the number of subsets of n numbers, from which `Powers` has those it needs.
* Boot. `Counted` says that each counter is the number of CPUs past the place that adds to it; since a subset of the CPUs
  with as many members is all of them (`FullCount`), an open barrier says where *every* CPU is (`Barriers`). `Places`
  has which barrier is open for a CPU at which place, `Smallest` what `MIN_PARANGE` is so far.
* Frames. A frame is at one of the places of `Slot`: a run in use, or one that a constructor has found, built or puts aside.
  `Balanced` says that a frame is free or at one place; each step is one of three `Moves` (take, give back, return).
* Page tables. In `TableInv` the tables form a tree whose nodes are labelled with their level and the page they are for (`Tree`), so the walk
  for a page visits the tables labelled for it, and a write to one entry changes what is found for that entry's pages and for no
  other. With this map and unmap are about intervals of pages: the leaves of a region lie within it, regions are apart, and what map has yet to
  write, or unmap to clear, begins with a whole page of some level. `ClearNeverPanics` follows from the last: the page that `clear`
  comes to is the one `map` wrote, with its size. A table that was lost (`Lost`) has no region and is only dropped.
* Page tables implement the flat map. `InsertRegion` is `Open`, a leaf `Fill`, the end of an insertion `Grant` and a failed one `Fail`;
  each entry that unmap clears is a `Withdraw` of its pages, and `Free` is `Discard`. A new intermediate table is a stutter, because the entry it replaces
  was unused and its own entries are; so are `Drop` and `UnmapNext`, which choose what to unmap.
* PCI BARs. The size of a BAR is above the highest bit that stays zero (`HighBit`, `ZeroBit`); for a 64-bit BAR of 16 bytes
  the type bits hide it, and the code takes it for 4 bytes, which rounding up to a page repairs. `upper` is defined recursively and determined by least
  counterexample. BARs aligned to their size are whole pages or lie within one (`OnGrid`), so two regions that
  `pci_bars_register` has rounded to pages overlap only if they are equal, and an insertion refused for an overlap has nothing to add. `BarInv` says that what has been
  registered is mapped or was refused by the page table, and that nothing else is mapped.
* PCI commands. Each read of a header adds a phantom entry and a write changes the first one, so `PciInv` says that the *first* entry of a device
  holds what the zone wrote (`LeastKept`), as long as nothing else wrote to a part of it.
* SMMU. At most one command is in the queue (`QueueInv`), since the driver waits for each; `IndexArithmetic` has the indices with their wrap bit
  for each of the shifts `init` accepts. `StreamInv` says what the table and the cache hold while an entry is made, each field what the frames held or that with the zone's bits added (`Added`).
* IVC. `IvcInv` says which regions of a zone are recorded, at every stage of a creation that may still fail (`ZoneParts`), and that a
  zone takes part in a record under its own peer number (`RecordsOwn`); for a zone that `ivc_init` got through, that `IVC_INFOS` is its own configuration.

Model-checked only:

* Liveness under fairness, which is out of the prover's reach as ENABLED is: `ShutdownServed`, `StartCompletes`, `ShutdownCompletes`,
  `WaitingIsInjected`, `CmdqReleased`, `AccessReturns`, `VirtioIrqInjected`, `EveryCpuBoots`, `AddDeviceReturns`.

* `NoPanic`: with an orderly root zone it covers the unwraps of a zone that is not there, and not the assertion that other clones make fail.

The other safety properties of the passing runs, and the refinement, are theorems.

## Not modelled

Left out for good: UART drivers and logging (output only), configuration tables and
error types, entry assembly and register accessors, the vendored device tree
parser. Within the modelled parts:

* `zone_create` is not composed: `ZoneLifecycle` has its failure before any assignment, and `PageTable`, `Ivc`, `Pci` and
  `Smmu` have what it sets up.
* GICv3: the redistributor's LPI registers, `GITS_BASER`. APLIC: pending registers; the IMSIC, which guests use directly.
* LS7A2000: `chip.rs`, which only prints. loongarch64: decoding of opcodes beyond their kind, mailboxes of the IPI controller.
* riscv64: SBI calls passed to the firmware (remote fences, console).
* Memory: `MemorySet::delete` and the fixed mapper, which no zone reaches; the heap, a library's.
* PCI: the root zone's own accesses, the search in the device tree. SMMU: the hard-coded tables of `init_limited_pt`. HyperAMP: the
  queue in shared memory, which only guests touch.
* Hypercalls that only read (`hv_zone_list`, `hv_ivc_info`), and `hv_virtio_init`, made once.

## Plan

1. Done: all modules above, and a theorem for every safety property of the passing runs but `NoPanic` and for the refinement.
2. Composition: `VirtualIrq` with `ZoneLifecycle`, for list registers that survive a zone; `zone_create` with `PageTable` and `Ivc`.

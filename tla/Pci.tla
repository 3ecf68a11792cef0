-------------------------------- MODULE Pci ---------------------------------
(***************************************************************************)
(* PCI for a zone other than root (src/src/pci): pci_init sizes the BARs of *)
(* the assigned devices and maps them; mmio_pci_handler serves the zone's   *)
(* accesses to configuration space, with phantom devices in the place of    *)
(* devices that are not assigned.                                           *)
(*                                                                          *)
(* A BAR register is W bits wide; the four low bits are its type, as in the *)
(* source.  Two BARs make a 64-bit one.  Functions of the same layout stand *)
(* for endpoints (six BARs) and bridges (two), which differ only in number. *)
(***************************************************************************)
EXTENDS Integers, Sequences, FiniteSetsExt

CONSTANTS W,         \* bits of a BAR
          PAGE,      \* bytes of a page
          Layouts,   \* BARs of the devices: device -> sequence of [kind, size, addr]
          Devices,   \* assigned devices
          Others,    \* devices of the machine not assigned to the zone
          CpuBase, PciBase,  \* the windows of the BARs as the CPU and as the bus sees them: by type
          BarValues, \* what the guest writes to the BARs of its devices
          MaxPhantom \* bound: phantom entries the zone makes

\* A BAR register of the hardware.  A mem64hi holds the upper bits of the address.
BAR == [kind : {"none", "mem32", "io", "mem64lo", "mem64hi"}, size : Nat, addr : 0 .. 2 ^ W - 1]

\* The type that a BAR's low bits say it has.
typeOf(k) == CASE k = "io" -> "IO" [] k = "mem64lo" -> "Mem64" [] OTHER -> "Mem32"

\* Two ranges <<start, size>>.
overlaps(r, m) == ~(r[1] + r[2] <= m[1] \/ r[1] >= m[1] + m[2])

\* The range of each BAR on the bus, and where the CPU finds it, from the hardware's side.
Own(bs)        == {i \in DOMAIN bs : bs[i].kind \in {"mem32", "io", "mem64lo"}}
onBus(bs, i)   == IF bs[i].kind = "mem64lo" THEN bs[i].addr + bs[i + 1].addr * 2 ^ W ELSE bs[i].addr
range(bs, i)   == <<CpuBase[typeOf(bs[i].kind)] + onBus(bs, i) - PciBase[typeOf(bs[i].kind)], bs[i].size>>
Ranges(bs)     == {range(bs, i) : i \in Own(bs)}

(* BARs as PCI has them: the size a power of two, of which the address is a *)
(* multiple, within the window of the type; a 64-bit one takes two          *)
(* registers.  Firmware has placed the BARs of the machine apart.           *)
WellFormed(bs) ==
  \A i \in DOMAIN bs :
    LET b == bs[i]  t == typeOf(b.kind) IN
      /\ i \in Own(bs) => /\ \E s \in IF b.kind = "io" THEN 2 .. W - 1 ELSE 4 .. W - 1 : b.size = 2 ^ s
                         /\ b.addr % b.size = 0 /\ onBus(bs, i) >= PciBase[t]
      /\ b.kind = "mem64lo" => i + 1 \in DOMAIN bs /\ bs[i + 1].kind = "mem64hi"
      /\ b.kind = "mem64hi" => i - 1 \in DOMAIN bs /\ bs[i - 1].kind = "mem64lo"

ASSUME PciAssumption ==
  /\ Devices \cap Others = {} /\ BarValues \subseteq 0 .. 2 ^ W - 1
  /\ W \in Nat \ {0} /\ PAGE \in Nat /\ \E p \in 4 .. PAGE : PAGE = 2 ^ p
  /\ \A t \in {"IO", "Mem32", "Mem64"} : /\ CpuBase[t] \in Nat /\ CpuBase[t] % PAGE = 0
                                        /\ PciBase[t] \in Nat /\ PciBase[t] % PAGE = 0
  /\ Layouts \subseteq [Devices -> Seq(BAR)]
  /\ \A l \in Layouts, d, e \in Devices :
       /\ WellFormed(l[d])
       /\ \A x \in Ranges(l[d]), y \in Ranges(l[e]) : x = y \/ ~overlaps(x, y)

VARIABLES bars,     \* assigned device -> its BARs
          found,    \* history: the BARs as they were before the zone ran
          gpm,      \* host ranges mapped into the zone: <<start, size>>
          stray,    \* pages mapped by insertions that then failed
          configured, \* alloc_devs: the devices that pci_init was given
          todo,     \* bar_regions that pci_bars_register has not come to
          command,  \* the command registers in hardware: device -> set of bits
          phantom,  \* phantom_devs: sequence of [bdf, command]
          regs,     \* the BARs in hardware of the other devices
          unfit,    \* history: ranges whose insertion failed in the page table
          reached,  \* history: devices with a byte store to the upper half of the command
          written   \* history: what the zone last made the command of another device by
                    \* one store, if it has not written to a part of it since

barvars == <<bars, found, gpm, stray, unfit, configured, todo>>
pcivars == <<barvars, command, phantom, regs, reached, written>>

Never   == {"never"}
PowerOn == {"intx_off", "master"}   \* the command registers at start
Upper   == {"intx_off"}             \* bits of the upper byte
-----------------------------------------------------------------------------
(* What the hardware answers.                                               *)
typeBits(k) == CASE k = "io" -> 1 [] k = "mem64lo" -> 12 [] OTHER -> 0
origin_val(b) == IF b.kind = "none" THEN 0 ELSE b.addr + typeBits(b.kind)
\* The register after 0xffffffff was written to it.
ones(b) == CASE b.kind = "none" -> 0
             [] b.kind = "mem64hi" -> 2 ^ W - 1
             [] OTHER -> 2 ^ W - b.size + typeBits(b.kind)
-----------------------------------------------------------------------------
\* Defect: one bit too few.
bar_init_Small(orig, val) ==
  LET zeros == {k \in 0 .. W - 1 : (val \div 2 ^ k) % 2 = 0} IN
    [val |-> orig,
     size |-> IF zeros = {} THEN 1 ELSE IF Max(zeros) = W - 1 THEN 0 ELSE 2 ^ Max(zeros),
     bar_type |-> IF orig % 2 = 1 THEN "IO"
                  ELSE CASE (orig \div 2) % 4 = 0 -> "Mem32"
                         [] (orig \div 2) % 4 = 2 -> "Mem64"
                         [] OTHER -> "Unknown"]

(* PciBar::init: the size is above the highest bit that stayed zero.        *)
bar_init(orig, val) ==
  LET zeros == {k \in 0 .. W - 1 : (val \div 2 ^ k) % 2 = 0} IN
    [val |-> orig,
     size |-> IF zeros = {} THEN 1 ELSE IF Max(zeros) = W - 1 THEN 0 ELSE 2 ^ (Max(zeros) + 1),
     bar_type |-> IF orig % 2 = 1 THEN "IO"
                  ELSE CASE (orig \div 2) % 4 = 0 -> "Mem32"
                         [] (orig \div 2) % 4 = 2 -> "Mem64"
                         [] OTHER -> "Unknown"]

get_32b_region(b) == [start |-> b.val - (b.val % 16), size |-> b.size, bar_type |-> b.bar_type]
get_64b_region(hi, lo) ==
  [start |-> hi.val * 2 ^ W + lo.start, size |-> hi.size * lo.size, bar_type |-> "Mem64"]

\* Whether a BAR is the second half of a 64-bit one.
upper(bs) == LET u[i \in DOMAIN bs] ==
                   i > 1 /\ bs[i - 1].size # 0 /\ bs[i - 1].bar_type = "Mem64" /\ ~u[i - 1]
             IN  u

(* EndpointConfig::get_regions: mutable BARs, a 64-bit one takes two.       *)
get_regions(bs) ==
  LET own == {i \in DOMAIN bs : ~upper(bs)[i] /\ bs[i].size # 0}
  IN {IF bs[i].bar_type = "Mem64" THEN get_64b_region(bs[i + 1], get_32b_region(bs[i]))
                                  ELSE get_32b_region(bs[i]) : i \in own}

\* BridgeConfig::get_regions is the same text over two BARs.
bridge_get_regions(bs) == get_regions(SubSeq(bs, 1, 2))

\* ep_bars_init and bridge_bars_init: write ones, read, restore.
bars_init(bs) == [i \in DOMAIN bs |-> bar_init(origin_val(bs[i]), ones(bs[i]))]

\* get_bars_regions, of a device with BARs b: at least a page.
get_bars_regions(b) ==
  LET bs == bars_init(b) IN
    {[r EXCEPT !.size = IF @ < PAGE THEN PAGE ELSE @] :
       r \in IF Len(bs) = 2 THEN bridge_get_regions(bs) ELSE get_regions(bs)}

\* pci_bars_register: the place of a region in the CPU's window for its type.
placed(r) == LET a == CpuBase[r.bar_type] + r.start - PciBase[r.bar_type]
             IN  <<a - (a % PAGE), r.size>>

pagesOf(a, n) == {p \in 0 .. (a + n) \div PAGE : p * PAGE < a + n /\ (p + 1) * PAGE > a}

(* gpm.insert, whose error is ignored: a range that overlaps is left out;   *)
(* so is one that fails in the page table at page n, for want of a frame or *)
(* because that page is mapped, but for the pages before.                   *)
insert(r) ==
  LET pages == pagesOf(r[1], r[2])
      free  == ~ \E x \in gpm : overlaps(r, x)
  IN \/ ~free /\ UNCHANGED <<gpm, stray, unfit>>
     \/ /\ free /\ pages \cap stray = {}
        /\ gpm' = gpm \cup {r} /\ UNCHANGED <<stray, unfit>>
     \/ \E n \in pages :
          LET before == {p \in pages : p < n} IN
            /\ free /\ before \cap stray = {}
            /\ stray' = stray \cup before /\ unfit' = unfit \cup {r}
            /\ UNCHANGED gpm

PciInit == /\ found \in Layouts /\ bars = found
           /\ gpm = {} /\ stray = {} /\ unfit = {} /\ configured = {} /\ todo = {}
           /\ phantom = <<>> /\ reached = {}
           /\ command = [d \in Devices \cup Others |-> PowerOn]
           /\ regs = [d \in Others |-> 0] /\ written = [d \in Others |-> Never]

(* pci_init: virtual_pci_device_init has the regions of all BARs ...        *)
pci_init ==
  /\ configured = {} /\ configured' = Devices
  /\ todo' = UNION {get_bars_regions(bars[d]) : d \in Devices}
  /\ UNCHANGED <<bars, found, gpm, stray, unfit, command, phantom, regs, reached, written>>

(* ... and pci_bars_register goes through them.                             *)
pci_bars_register(r) ==
  /\ r \in todo /\ todo' = todo \ {r}
  /\ insert(placed(r))
  /\ UNCHANGED <<bars, found, configured, command, phantom, regs, reached, written>>

\* The zone has been created and its guest may run.
Created == configured # {} /\ todo = {}
-----------------------------------------------------------------------------
pdev(d) == {i \in DOMAIN phantom : phantom[i].bdf = d}

(* mmio_pci_handler: an assigned device's registers are the hardware's, the *)
(* command register ...                                                     *)
AccessAssigned(d, c) ==
  /\ Created /\ d \in configured
  /\ command' = [command EXCEPT ![d] = c]
  /\ UNCHANGED <<barvars, phantom, regs, reached, written>>

(* ... and the BARs, which keep the bits above their size.  What the zone   *)
(* has mapped does not follow.                                              *)
AccessBar(d, i, v) ==
  LET b == bars[d][i] IN
    /\ Created /\ d \in configured /\ b.kind # "none"
    /\ bars' = [bars EXCEPT ![d][i].addr = IF b.kind = "mem64hi" THEN v ELSE v - (v % b.size)]
    /\ UNCHANGED <<found, gpm, stray, unfit, configured, todo, command, phantom, regs, reached, written>>

(* Register 0 of another device: a phantom appears, each time it is read.   *)
push(d, c) == /\ Created /\ Len(phantom) < MaxPhantom
              /\ phantom' = Append(phantom, [bdf |-> d, command |-> c \ {"intx_off"}])
              /\ UNCHANGED <<barvars, command, regs, reached, written>>

Header(d) == push(d, command[d])

(* The windows of the BARs, where nothing is mapped, have the same handler: *)
(* what is offset 0 of a device in configuration space is there some memory *)
(* of a device, from which the phantom's command is taken.                  *)
HeaderWindow(d, c) == push(d, c)

\* Defect: the newest entry is written.
set_cmd_Last(d, c) ==
  /\ Created /\ pdev(d) # {}
  /\ phantom' = [phantom EXCEPT ![Max(pdev(d))].command = c]
  /\ UNCHANGED <<barvars, command, regs, reached>>

\* Offset 4 of a device that is not assigned: its first phantom entry is written.
set_cmd(d, c) ==
  /\ Created /\ pdev(d) # {}
  /\ phantom' = [phantom EXCEPT ![Min(pdev(d))].command = c]
  /\ UNCHANGED <<barvars, command, regs, reached>>

(* The command register of another device, a half-word.                     *)
WriteCommand(d, c) == /\ set_cmd(d, c)
                      /\ written' = [written EXCEPT ![d] = c]

(* Its lower byte alone: the value has no more bits, and clears the upper.  *)
WriteLower(d, c) == /\ set_cmd(d, c \ Upper)
                    /\ written' = [written EXCEPT ![d] = Never]

(* Its upper byte, at offset 5: like any other register.                    *)
WriteUpper(d, c) ==
  /\ Created
  /\ command' = [command EXCEPT ![d] = (@ \ Upper) \cup (c \cap Upper)]
  /\ reached' = reached \cup {d}
  /\ written' = [written EXCEPT ![d] = Never]
  /\ UNCHANGED <<barvars, phantom, regs>>

(* Offset 4 of the device's place in a window of BARs: meant for the memory *)
(* of some device, it is taken for the command register.                    *)
WriteWindow(d, c) == /\ set_cmd(d, c)
                     /\ written' = [written EXCEPT ![d] = Never]

ReadCommand(d) == phantom[Min(pdev(d))].command

(* Class code and capability pointer have fixed answers; an access to any   *)
(* other register, a BAR say, is made to the device.                        *)
AccessOther(d, v) ==
  /\ Created
  /\ regs' = [regs EXCEPT ![d] = v]
  /\ UNCHANGED <<barvars, command, phantom, reached, written>>

Bits == {{}, {"master"}, {"intx_off"}}

\* The hypervisor's steps; the guest's, at the BARs and elsewhere.
SetUp   == pci_init \/ \E r \in todo : pci_bars_register(r)
AtBars  == \E d \in Devices, v \in BarValues : \E i \in DOMAIN bars[d] : AccessBar(d, i, v)
AtOther == \/ \E d \in Devices, c \in Bits : AccessAssigned(d, c)
           \/ \E d \in Others, c \in Bits : \/ HeaderWindow(d, c) \/ WriteCommand(d, c)
                                            \/ WriteLower(d, c) \/ WriteUpper(d, c) \/ WriteWindow(d, c)
           \/ \E d \in Others : \/ Header(d)
                                \/ \E v \in {0, 1} : AccessOther(d, v)

PciNext == SetUp \/ AtBars \/ AtOther

PciSpec == PciInit /\ [][PciNext]_pcivars
-----------------------------------------------------------------------------
Mapped == stray \cup UNION {pagesOf(r[1], r[2]) : r \in gpm}

(* Once pci_bars_register is through, the pages mapped are those of the     *)
(* BARs of the assigned devices, as they were before the zone ran, and no   *)
(* page is missing but where the page table refused an insertion: types and *)
(* sizes found by probing, the rounding to pages and the overlaps whose     *)
(* error is dropped (two small BARs in one page) add up, in whatever order  *)
(* the regions come.                                                        *)
BarsMapped ==
  LET ofBars == UNION {UNION {pagesOf(x[1], x[2]) : x \in Ranges(found[d])} : d \in configured}
      missed == UNION {pagesOf(r[1], r[2]) : r \in unfit}
  IN todo = {} => Mapped \subseteq ofBars /\ ofBars \subseteq Mapped \cup missed

(* What a zone makes the command register of a device it does not own, by   *)
(* one store, is what it reads back until it writes a part of it, or to the *)
(* same place in a window of BARs, however often it probes the bus, which   *)
(* makes a new phantom entry each time.  It never reaches the lower byte of *)
(* the device's own register, and the upper one only by a byte store.       *)
CommandIsVirtual ==
  \A d \in Others : /\ command[d] \ Upper = PowerOn \ Upper
                    /\ d \notin reached => command[d] = PowerOn
                    /\ written[d] # Never => ReadCommand(d) = written[d]
=============================================================================

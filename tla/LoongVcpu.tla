----------------------------- MODULE LoongVcpu ------------------------------
(***************************************************************************)
(* A CPU of loongarch64 (src/src/arch/loongarch64/{trap,cpu,zone}.rs) and   *)
(* the injection of interrupts into its guest                               *)
(* (src/src/device/irqchip/ls7a2000/mod.rs).                                *)
(*                                                                          *)
(* A guest leaves by an exception; _hyp_trap_vector saves its registers in  *)
(* ctx, trap_handler works on ctx, _hyp_trap_return loads them back.  The   *)
(* handler runs with interrupts off.  Registers of one kind stand for all   *)
(* of that kind; a byte has one bit, so a register has eight.               *)
(***************************************************************************)
EXTENDS Integers

CONSTANTS Size,   \* sizes of the loads guests make, among 1, 2, 4 and 8 bytes
          Raw     \* values devices return

ASSUME VcpuAssumption == Size \subseteq {1, 2, 4, 8} /\ Raw \subseteq Nat

Gpr   == {"a0", "rd", "sp"}         \* a0, the target of the instruction, r3
Gcsr  == {"csr", "tid"}             \* csr: those _hyp_trap_return writes back
Saved == Gpr \cup Gcsr
Word  == 2^8

VARIABLES id,      \* this CPU
          place,   \* "parked", "guest", "halted", or the exception handled
          ie,      \* a parked CPU takes interrupts
          init,    \* ArchCpu.init: run() has started the CPU
          zone,    \* PerCpu.zone: "none", "own", or "gone" when it was removed
          live,    \* registers of the CPU
          pcl,     \* and the guest's pc
          ctx,     \* ArchCpu.ctx
          sepc,    \* and its pc
          gtimer,  \* GCSR_TCFG, whether GCSR_TVAL ran out, GCSR_ESTAT's timer bit
          tctx,    \* the same in ctx
          hwis,    \* GINTC.HWIS: interrupts injected
          hwip,    \* GINTC.HWIP: the device interrupts go to the guest
          status,  \* GLOBAL_IRQ_INJECT_STATUS
          gid,     \* GSTAT.GID
          want,    \* history: the registers and pc the guest must find
          wrong    \* history: registers that an emulated load left without its value

lvars == <<id, place, ie, init, zone, live, pcl, ctx, sepc, gtimer, tctx, hwis, hwip, status, gid, want, wrong>>

Zeros == [r \in Saved |-> 0]
After(p) == (p + 1) % 2     \* the guest's program is a loop of two instructions
Entry == 1                  \* cpu_on_entry

\* The CSRs a guest will start with are those of the reset, read once.
dump_reset_gcsrs(l) == [r \in Saved |-> IF r \in Gcsr THEN l[r] ELSE Zeros[r]]

(* A secondary CPU after rust_main: idle(), called with interrupts on.      *)
VcpuInit == /\ id \in {0, 1}
            /\ place = "parked" /\ ie = TRUE /\ init = FALSE /\ zone = "none"
            /\ live = Zeros /\ pcl = 0 /\ ctx = dump_reset_gcsrs(live) /\ sepc = 0
            /\ gtimer = [cfg |-> "off", out |-> FALSE, ti |-> FALSE] /\ tctx = gtimer
            /\ hwis = {} /\ hwip = FALSE /\ status = "Idle" /\ gid = 0
            /\ want = [reg |-> Zeros, pc |-> Entry] /\ wrong = {}
-----------------------------------------------------------------------------
\* The number of the CPU's zone plus one.  GID 0 is the hypervisor's, and a CPU's
\* that has no zone.
vm_id == IF zone = "own" THEN id + 1 ELSE 0

\* The guest's CSRs, all of which are saved; TID is not written back and stays
\* as the guest left it.
save_gcsrs       == [r \in Gcsr |-> live[r]]
restore_gcsrs(c) == [r \in Gcsr |-> IF r = "tid" THEN live[r] ELSE c[r]]

\* The registers of ctx: CSRs from g, the general registers from l.
ZoneContext(g, l) == [r \in Saved |-> IF r \in Gcsr THEN g[r] ELSE l[r]]

\* Defect: the slot of r3 is not filled from DESAVE.
_hyp_trap_vector_NoSp == ctx' = ZoneContext(save_gcsrs, [live EXCEPT !["sp"] = ctx["sp"]])
(* The registers, r3 by way of DESAVE, and the guest's CSRs.                *)
_hyp_trap_vector == ctx' = ZoneContext(save_gcsrs, live)

(* The CSRs first, then the general registers of what ctx holds, c.         *)
_hyp_trap_return(c, p) == /\ live' = ZoneContext(restore_gcsrs(c), c)
                          /\ pcl' = p
                          /\ place' = "guest"

(* _vcpu_return sets up guest mode.                                         *)
_vcpu_return(c, p) == /\ gid' = vm_id /\ hwip' = TRUE
                      /\ _hyp_trap_return(c, p)

(* The end of trap_handler: GCSR_ESTAT and GCSR_TCFG as saved, and for a    *)
(* timer that is on, unless it is periodic and has run out, a write of 0 to *)
(* TVAL, which raises its interrupt, and of TICLR, which clears it, if it   *)
(* was pending.                                                             *)
RestoreTimer ==
  gtimer' = IF tctx.cfg = "off" \/ (tctx.cfg = "periodic" /\ tctx.out) THEN tctx
           ELSE [cfg |-> tctx.cfg, out |-> TRUE, ti |-> ~tctx.ti]

\* handle_exception is done with ctx and pc as c and p.
Resume(c, p) == /\ ctx' = c /\ sepc' = p
                /\ RestoreTimer /\ _vcpu_return(c, p)
                /\ UNCHANGED <<id, ie, init, zone, tctx>>

\* A guest that run() has started must find w, but for the registers in lost.
Guest(w, lost) == IF init' THEN want' = w /\ wrong' = lost ELSE UNCHANGED <<want, wrong>>
-----------------------------------------------------------------------------
(* The guest computes, and sets its timer.                                  *)
GuestStep(v) == /\ place = "guest"
                /\ live' = [r \in Saved |-> v]
                /\ pcl' = After(pcl)
                /\ UNCHANGED <<id, place, ie, init, zone>>
                /\ Guest([reg |-> live', pc |-> pcl'], {})
                /\ UNCHANGED <<ctx, sepc, gtimer, tctx, hwis, hwip, status, gid>>

GuestTimer(t) == /\ place = "guest"
                 /\ gtimer' = t
                 /\ UNCHANGED <<id, place, ie, init, zone, live, pcl, ctx, sepc, tctx, hwis, hwip, status, gid, want, wrong>>

(* An exception: the vector saves the guest, and the code that runs then    *)
(* uses the general registers for itself.                                   *)
Trap(e) == /\ place = "guest"
           /\ _hyp_trap_vector /\ sepc' = pcl /\ tctx' = gtimer
           /\ live' = [r \in Saved |-> IF r \in Gpr THEN Word - 1 ELSE live[r]]
           /\ place' = e
           /\ UNCHANGED <<id, ie, init, zone, pcl, gtimer, hwis, hwip, status, gid, want, wrong>>

(* An IPI finds the CPU parked; what it saves is the hypervisor's.          *)
TrapParked == /\ place = "parked" /\ ie
              /\ _hyp_trap_vector /\ sepc' = pcl /\ tctx' = gtimer
              /\ place' = "int"
              /\ UNCHANGED <<id, ie, init, zone, live, pcl, gtimer, hwis, hwip, status, gid, want, wrong>>

(* zone_create gives the CPU to a zone; hv_zone_shutdown takes it away, once*)
(* its wait is over or has run out.  No second zone gets the CPU: it is     *)
(* parked for good, or was never stopped.                                   *)
TakeZone  == /\ zone = "none" /\ zone' = "own"
             /\ UNCHANGED <<id, place, ie, init, live, pcl, ctx, sepc, gtimer, tctx, hwis, hwip, status, gid, want, wrong>>
LeaveZone == /\ zone = "own" /\ zone' = "gone"
             /\ UNCHANGED <<id, place, ie, init, live, pcl, ctx, sepc, gtimer, tctx, hwis, hwip, status, gid, want, wrong>>

(* handle_interrupt: an event of `while check_events() {}` ...              *)
\* run(): x[] is zeroed, the pc set only the first time, which is all there is: see Shutdown.
Wakeup == /\ place = "int" /\ ~init /\ zone # "none"
          /\ init' = TRUE
          /\ LET c == [r \in Saved |-> IF r \in Gpr THEN 0 ELSE ctx[r]]
                 p == IF init THEN sepc ELSE Entry
             IN /\ ctx' = c /\ sepc' = p /\ _vcpu_return(c, p)
                /\ Guest([reg |-> [r \in Saved |-> IF r \in Gpr THEN 0 ELSE live[r]], pc |-> Entry], {})
          /\ UNCHANGED <<id, ie, zone, gtimer, tctx, hwis, status>>

\* idle(): interrupts stay off, as they are in the handler.
Shutdown == /\ place = "int"
            /\ place' = "parked" /\ ie' = FALSE
            /\ UNCHANGED <<id, init, zone, live, pcl, ctx, sepc, gtimer, tctx, hwis, hwip, status, gid, want, wrong>>

Hwi == 2 .. 3     \* of the lines 2 to 9

\* handle_virtio_irq: one interrupt; only a line HWI0 to HWI7 is modelled.
ls7a_inject_irq(i) == /\ place = "int"
                 /\ hwis' = {i} /\ status' = "Injecting"
                 /\ UNCHANGED <<id, place, ie, init, zone, live, pcl, ctx, sepc, gtimer, tctx, hwip, gid, want, wrong>>

clear_hwi_injected_irq ==
  /\ place = "int"
  /\ hwis' = {} /\ status' = "Idle"
  /\ UNCHANGED <<id, place, ie, init, zone, live, pcl, ctx, sepc, gtimer, tctx, hwip, gid, want, wrong>>

(* ... and its end, or an interrupt that is not an IPI.  It returns to what *)
(* the vector saved, also on a CPU that was parked.                         *)
InterruptDone == /\ place = "int"
                 /\ Resume(ctx, sepc)
                 /\ UNCHANGED <<hwis, status, want, wrong>>

(* What the instructions of the opcode table do to the registers c, v being *)
(* what the CPU's own cpucfg or iocsrrd reads.                              *)
emulate_cpucfg(c, v)  == [c EXCEPT !["rd"] = v]
emulate_csrx(c)       == [c EXCEPT !["rd"] = 0]
emulate_iocsrrd(c, v) == [c EXCEPT !["rd"] = v]
emulate_iocsrwr(c)    == c
emulate_cacop(c)      == c
emulate_idle(c)       == c
emulate_st_b(c)       == c
\* A byte load works out the address and stops there.
emulate_ld_b(c)       == c
emulate_ld_bu(c)      == c

Bytes == {0, 1, Word - 1}     \* a byte, zero- and sign-extended

\* The handler leaves c where the instruction's effect is w.
Emulate(c, w, lost) == Resume(c, After(sepc)) /\ Guest([reg |-> w, pc |-> After(want.pc)], lost)

(* emulate_instruction: the pc goes on.  An opcode not in the table panics. *)
(* The effect is the instruction set's: cpucfg, iocsrrd and the byte loads  *)
(* set rd, and a CSR that the guest does not have reads as 0.               *)
emulate_instruction(v) ==
  /\ place = "gspr"
  /\ LET rd(x) == [want.reg EXCEPT !["rd"] = x] IN
     \/ \E c \in {emulate_cpucfg(ctx, v), emulate_iocsrrd(ctx, v)} : Emulate(c, rd(v), wrong \ {"rd"})
     \/ Emulate(emulate_csrx(ctx), rd(0), wrong \ {"rd"})
     \/ \E c \in {emulate_cacop(ctx), emulate_idle(ctx), emulate_iocsrwr(ctx), emulate_st_b(ctx)} :
          Emulate(c, want.reg, wrong)
     \/ \E c \in {emulate_ld_b(ctx), emulate_ld_bu(ctx)}, b \in Bytes :
          Emulate(c, rd(b), wrong \cup {"rd"})
  /\ UNCHANGED <<hwis, status>>

UnexpectedOpcode == /\ place = "gspr" /\ place' = "halted"
                    /\ UNCHANGED <<id, ie, init, zone, live, pcl, ctx, sepc, gtimer, tctx, hwis, hwip, status, gid, want, wrong>>

(* handle_hvc                                                               *)
handle_hvc(res) ==
  /\ place = "hvc"
  /\ Resume([ctx EXCEPT !["a0"] = res], After(sepc))
  /\ Guest([reg |-> [want.reg EXCEPT !["a0"] = res], pc |-> After(want.pc)], wrong \ {"a0"})
  /\ UNCHANGED <<hwis, status>>

\* `1 << n` of a register; the shift distance is taken modulo the width.
Shl(n) == 2^(n % 8)

signed_ext(v, s) == IF (v \div 2^(s - 1)) % 2 = 1 THEN (v % Word) + (Word - Shl(s)) ELSE v

\* What the decoding of a load makes of it: its size and whether it ends in U.
\* Anything else but a store panics, as UnexpectedOpcode does.
Decoded == Size \X BOOLEAN

extended(v, s, is_u) == LET trimmed == v % Shl(s)
                        IN IF is_u THEN trimmed ELSE signed_ext(trimmed, s)

(* A load or store that the stage-2 tables do not map: a load's value is    *)
(* trimmed and extended.  One of 8 bytes shifts a register by its width.    *)
handle_mmio_load(v, s, is_u) ==
  /\ place = "mmio"
  /\ Resume([ctx EXCEPT !["rd"] = extended(v, s, is_u)], After(sepc))
  /\ LET low == v % 2^s
         neg == ~is_u /\ low >= 2^(s - 1)
     IN Guest([reg |-> [want.reg EXCEPT !["rd"] = IF neg THEN Word - 2^s + low ELSE low],
               pc  |-> After(want.pc)],
              IF s = 8 THEN wrong \cup {"rd"} ELSE wrong \ {"rd"})
  /\ UNCHANGED <<hwis, status>>

handle_mmio_store == /\ place = "mmio"
                     /\ Resume(ctx, After(sepc))
                     /\ Guest([want EXCEPT !.pc = After(@)], wrong)
                     /\ UNCHANGED <<hwis, status>>

\* An access no region handles panics, and in a debug build a load of 8 bytes.
PageFault == /\ place = "mmio" /\ place' = "halted"
             /\ UNCHANGED <<id, ie, init, zone, live, pcl, ctx, sepc, gtimer, tctx, hwis, hwip, status, gid, want, wrong>>

VcpuNext ==
  \/ \E v \in {0, 1} : GuestStep(v)
  \/ \E t \in {"off", "one-shot", "periodic"} : GuestTimer([cfg |-> t, out |-> FALSE, ti |-> FALSE])
  \/ \E e \in {"int", "gspr", "hvc", "mmio"} : Trap(e)
  \/ TrapParked \/ TakeZone \/ LeaveZone \/ Wakeup \/ Shutdown
  \/ \E i \in Hwi : ls7a_inject_irq(i)
  \/ clear_hwi_injected_irq \/ InterruptDone
  \/ \E v \in {0, 5} : emulate_instruction(v) \/ handle_hvc(v)
  \/ UnexpectedOpcode \/ handle_mmio_store \/ PageFault
  \/ \E v \in Raw, d \in Decoded : handle_mmio_load(v, d[1], d[2])

VcpuSpec == VcpuInit /\ [][VcpuNext]_lvars
-----------------------------------------------------------------------------
(* "need to trim and extend it to 64-bit reg according to is_u and size":   *)
(* whatever exits a guest that run() started makes, it goes on at the next  *)
(* instruction with every register as the instruction set has it.  One is   *)
(* wrong only after a load it asked for had no effect: a byte load given to *)
(* emulate_instruction or one of 8 bytes, until the register is set again.  *)
GuestRegisters ==
  place = "guest" /\ init => pcl = want.pc /\ \A r \in Saved \ wrong : live[r] = want.reg[r]

(* Only the target of a load is ever lost.                                  *)
OnlyTargetWrong == wrong \subseteq {"rd"}

(* A CPU is in guest mode under the hypervisor's guest id, or without having*)
(* been started, only in two ways: an IPI without a WAKEUP found it parked, *)
(* or its zone was removed while it ran.                                    *)
OwnGuestId == place = "guest" /\ gid = 0 => ~init \/ zone = "gone"

(* A CPU reported Idle asserts no injected line to its guest.               *)
IdleMeansClear == status = "Idle" => hwis = {}

(* Exits, emulated instructions, injections and stray IPIs, in any order,   *)
(* leave a guest that run() has started with its registers but for those    *)
(* named, its pc and a guest id of its own, and no injected line up once    *)
(* the CPU is reported Idle.                                                *)
GuestStateKept == GuestRegisters /\ OnlyTargetWrong /\ OwnGuestId /\ IdleMeansClear
=============================================================================

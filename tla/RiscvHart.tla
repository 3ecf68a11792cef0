----------------------------- MODULE RiscvHart ------------------------------
(***************************************************************************)
(* The harts of a zone on riscv64: traps (src/src/arch/riscv64/trap.rs),    *)
(* SBI calls (sbi.rs), run and idle (cpu.rs).                               *)
(*                                                                          *)
(* A hart is in its guest, or parked in the wfi loop; a trap is handled     *)
(* with interrupts masked.  The timer is the machine's: a guest without     *)
(* Sstc sets it through hvisor, hvisor takes the interrupt, shows it to     *)
(* the guest as hvip.VSTIP and masks it until the guest sets the timer      *)
(* again.                                                                   *)
(*                                                                          *)
(* A byte is BYTE bits wide, so that a register of eight bytes stays within *)
(* the model checker's integers; what a load does with the value of a       *)
(* device does not depend on the width of a byte.                           *)
(***************************************************************************)
EXTENDS EventQueue, Integers, ZoneHarts

CONSTANTS BYTE,       \* bits of a byte
          HartEvents  \* bound: guests send no event to a hart with this many queued

ASSUME ByteAssumption == BYTE \in Nat \ {0}

VARIABLES power_on, parked,
          sie,          \* interrupts enabled in CSR_SIE
          timer,        \* "off", "armed", or "due": STIP is set
          vstip, vssip, \* hvip
          hart_events,  \* the event queue
          ssip,         \* sip.SSIP
          hart_pc,      \* "guest", "check" or "clear" in handle_software_interrupt
          loaded        \* the device load of the last step: instruction, device value, register

hartVars == <<power_on, parked, sie, timer, vstip, vssip, hart_events, ssip, hart_pc, loaded>>
tvars == <<sie, timer, vstip, vssip>>

Loads == 0 .. 6                   \* funct3: LB LH LW LD LBU LHU LWU
\* ins_ldst_decode: access size in bytes, sign extension.
size(f)     == 2 ^ (f % 4)
\* Defect: the wrong bit of funct3.
sign_ext_Low(f) == f % 2 = 0
sign_ext(f) == f < 4

XLEN == 8 * BYTE
shl(v, n) == (v * 2 ^ n) % 2 ^ XLEN
\* An arithmetic shift to the right, of a register as an i64.
sar(v, n) == IF v >= 2 ^ (XLEN - 1) THEN (v \div 2 ^ n) + 2 ^ XLEN - 2 ^ (XLEN - n)
                                    ELSE v \div 2 ^ n

\* The result of a load: x[rd] for the value v of the device.
load(f, v) == LET n == XLEN - BYTE * size(f) IN
                IF sign_ext(f) THEN sar(shl(v, n), n) ELSE v

NoLoad == <<0, 0, 0>>

HartInit == /\ power_on = [h \in Hart |-> FALSE]
            /\ parked = [h \in Hart |-> TRUE]
            /\ sie = [h \in Hart |-> {"soft"}]
            /\ timer = [h \in Hart |-> "off"]
            /\ vstip = [h \in Hart |-> FALSE] /\ vssip = [h \in Hart |-> FALSE]
            /\ hart_events = [h \in Hart |-> <<>>]
            /\ ssip = [h \in Hart |-> FALSE]
            /\ hart_pc = [h \in Hart |-> "guest"]
            /\ loaded = NoLoad

InGuest(h) == hart_pc[h] = "guest" /\ ~parked[h]

\* send_event: push, then sbi send_ipi; between the two nothing can go wrong
\* that module EventsLevel does not show.
send_event(T, e) ==
  /\ \A t \in T : Len(hart_events[t]) < HartEvents
  /\ hart_events' = [t \in Hart |-> IF t \in T THEN add_event(hart_events[t], e) ELSE hart_events[t]]
  /\ ssip' = [t \in Hart |-> ssip[t] \/ t \in T]
-----------------------------------------------------------------------------
(* sbi_hsm_start_handler.  A hart already on, or the caller, is refused.    *)
HartStart(h, t) ==
  /\ InGuest(h) /\ t # h /\ ~power_on[t]
  /\ send_event({t}, IPI_EVENT_WAKEUP)
  /\ loaded' = NoLoad /\ UNCHANGED <<power_on, parked, tvars, hart_pc>>

(* The SBI call, for a hart mask.                                           *)
sbi_ipi_handler(h, T) ==
  /\ InGuest(h) /\ T # {}
  /\ send_event(T, IPI_EVENT_SEND_IPI)
  /\ loaded' = NoLoad /\ UNCHANGED <<power_on, parked, tvars, hart_pc>>

\* Defect: the timer interrupt stays masked.
SetTimer_Masked(h) ==
  /\ InGuest(h)
  /\ timer' = [timer EXCEPT ![h] = "armed"]
  /\ vstip' = [vstip EXCEPT ![h] = FALSE]
  /\ loaded' = NoLoad /\ UNCHANGED <<power_on, parked, sie, vssip, hart_events, ssip, hart_pc>>

(* sbi_time_handler without Sstc: set_timer, clear_vstip, set_stimer.       *)
SetTimer(h) ==
  /\ InGuest(h)
  /\ timer' = [timer EXCEPT ![h] = "armed"]
  /\ vstip' = [vstip EXCEPT ![h] = FALSE]
  /\ sie' = [sie EXCEPT ![h] = @ \cup {"timer"}]
  /\ loaded' = NoLoad /\ UNCHANGED <<power_on, parked, vssip, hart_events, ssip, hart_pc>>

Expire(h) ==
  /\ timer[h] = "armed"
  /\ timer' = [timer EXCEPT ![h] = "due"]
  /\ loaded' = NoLoad /\ UNCHANGED <<power_on, parked, sie, vstip, vssip, hart_events, ssip, hart_pc>>

(* handle_timer_interrupt.  A parked hart takes it as well.                 *)
TimerInterrupt(h) ==
  /\ hart_pc[h] = "guest" /\ timer[h] = "due" /\ "timer" \in sie[h]
  /\ vstip' = [vstip EXCEPT ![h] = TRUE]
  /\ sie' = [sie EXCEPT ![h] = @ \ {"timer"}]
  /\ loaded' = NoLoad /\ UNCHANGED <<power_on, parked, timer, vssip, hart_events, ssip, hart_pc>>

\* The guest takes its software interrupt and clears it (hvip.VSSIP is its own).
GuestIpi(h) ==
  /\ InGuest(h) /\ vssip[h]
  /\ vssip' = [vssip EXCEPT ![h] = FALSE]
  /\ loaded' = NoLoad /\ UNCHANGED <<power_on, parked, sie, timer, vstip, hart_events, ssip, hart_pc>>

\* Bound: loads are made while nothing else is under way, with which they share no state.
Quiet == \A h \in Hart : hart_events[h] = <<>> /\ ~ssip[h] /\ ~vssip[h] /\ timer[h] = "off"

(* guest_page_fault_handler for a load the device answers with v.           *)
GuestPageFault(h, f, v) ==
  /\ InGuest(h) /\ Quiet
  /\ loaded' = <<f, v, load(f, v)>>
  /\ UNCHANGED <<power_on, parked, tvars, hart_events, ssip, hart_pc>>

(* hv_zone_start wakes hart 0; hv_zone_shutdown stops a hart that is on.    *)
ZoneStart ==
  /\ \A h \in Hart : ~power_on[h] /\ hart_events[h] = <<>> /\ hart_pc[h] = "guest"
  /\ send_event({0}, IPI_EVENT_WAKEUP)
  /\ loaded' = NoLoad /\ UNCHANGED <<power_on, parked, tvars, hart_pc>>

ZoneShutdown(h) ==
  /\ power_on[h]
  /\ send_event({h}, IPI_EVENT_SHUTDOWN)
  /\ loaded' = NoLoad /\ UNCHANGED <<power_on, parked, tvars, hart_pc>>
-----------------------------------------------------------------------------
SoftwareInterrupt(h) ==
  /\ hart_pc[h] = "guest" /\ ssip[h]
  /\ hart_pc' = [hart_pc EXCEPT ![h] = "check"]
  /\ loaded' = NoLoad /\ UNCHANGED <<power_on, parked, tvars, hart_events, ssip>>

\* ArchCpu::run with init_interrupt and reset_regs.
run(h) ==
  /\ power_on' = [power_on EXCEPT ![h] = TRUE]
  /\ parked' = [parked EXCEPT ![h] = FALSE]
  /\ sie' = [sie EXCEPT ![h] = @ \cup {"ext", "timer", "soft"}]
  /\ vstip' = [vstip EXCEPT ![h] = FALSE]
  /\ vssip' = [vssip EXCEPT ![h] = FALSE]
  /\ hart_pc' = [hart_pc EXCEPT ![h] = "guest"]

\* ArchCpu::idle with reset_regs and reset_interrupt, whose set_csr of SIE
\* leaves the other interrupts enabled.
idle(h) ==
  /\ power_on' = [power_on EXCEPT ![h] = FALSE]
  /\ parked' = [parked EXCEPT ![h] = TRUE]
  /\ sie' = [sie EXCEPT ![h] = @ \cup {"soft"}]
  /\ vstip' = [vstip EXCEPT ![h] = FALSE]
  /\ vssip' = [vssip EXCEPT ![h] = FALSE]
  /\ hart_pc' = [hart_pc EXCEPT ![h] = "guest"]

(* handle_software_interrupt: one turn of `while check_events() {}`.        *)
CheckEvents(h) ==
  /\ hart_pc[h] = "check"
  /\ hart_events' = [hart_events EXCEPT ![h] = fetch_event(@)]
  /\ LET e == IF hart_events[h] = <<>> THEN {} ELSE {Head(hart_events[h])} IN
       \/ e = {IPI_EVENT_WAKEUP} /\ run(h)
       \/ e = {IPI_EVENT_SHUTDOWN} /\ idle(h)
       \/ /\ e = {IPI_EVENT_SEND_IPI}
          /\ vssip' = [vssip EXCEPT ![h] = TRUE]
          /\ UNCHANGED <<power_on, parked, sie, vstip, hart_pc>>
       \/ /\ e = {}
          /\ hart_pc' = [hart_pc EXCEPT ![h] = "clear"]
          /\ UNCHANGED <<power_on, parked, sie, vstip, vssip>>
  /\ loaded' = NoLoad /\ UNCHANGED <<timer, ssip>>

(* clear_ssoft                                                              *)
ClearSsip(h) ==
  /\ hart_pc[h] = "clear"
  /\ ssip' = [ssip EXCEPT ![h] = FALSE]
  /\ hart_pc' = [hart_pc EXCEPT ![h] = "guest"]
  /\ loaded' = NoLoad /\ UNCHANGED <<power_on, parked, tvars, hart_events>>

\* The values a device answers: the ends of the range and around the sign bit.
Edge(f) == LET k == BYTE * size(f) IN {0, 1, 2 ^ (k - 1) - 1, 2 ^ (k - 1), 2 ^ k - 1}

HartNext == \/ ZoneStart
            \/ \E h \in Hart :
                 \/ \E t \in Hart : HartStart(h, t)
                 \/ \E T \in SUBSET Hart : sbi_ipi_handler(h, T)
                 \/ SetTimer(h) \/ Expire(h) \/ TimerInterrupt(h) \/ GuestIpi(h)
                 \/ ZoneShutdown(h)
                 \/ SoftwareInterrupt(h) \/ CheckEvents(h) \/ ClearSsip(h)
            \/ \E h \in Hart, f \in Loads : \E v \in Edge(f) : GuestPageFault(h, f, v)

HartSpec == HartInit /\ [][HartNext]_hartVars
-----------------------------------------------------------------------------
(* Across traps, wake-ups, shutdowns and restarts in any order, a timer     *)
(* that is due reaches the guest: it is shown in hvip, or hvisor has the    *)
(* timer interrupt enabled and takes it next.                               *)
TimerNotLost ==
  \A h \in Hart : InGuest(h) /\ timer[h] = "due" => vstip[h] \/ "timer" \in sie[h]

(* A timer interrupt is shown only when the timer last set is due.          *)
TimerNotEarly == \A h \in Hart : vstip[h] => timer[h] = "due"

(* The timer a guest sets with sbi_time_handler interrupts it when it is    *)
(* due, neither lost to the hart being stopped and woken in between nor     *)
(* shown early by a timer that was set before.                              *)
TimerExact == TimerNotLost /\ TimerNotEarly

\* The number a register or a memory cell of k bits stands for.
Signed(v, k) == IF v >= 2 ^ (k - 1) THEN v - 2 ^ k ELSE v

(* A load through an emulated device gives the register the value the       *)
(* architecture says: LB, LH, LW and LD keep the number's sign, LBU, LHU    *)
(* and LWU its value, for every width at both ends of its range.            *)
LoadExtends ==
  LET f == loaded[1]  k == BYTE * 2 ^ (f % 4)  IN
    IF f < 4 THEN Signed(loaded[3], XLEN) = Signed(loaded[2], k)
             ELSE loaded[3] = loaded[2]
=============================================================================

-------------------------------- MODULE Its ---------------------------------
(***************************************************************************)
(* The emulation of the GICv3 interrupt translation service                 *)
(* (src/src/device/irqchip/gicv3/gits.rs and vgicv3_its_handler): every     *)
(* zone has a command queue of its own, whose commands the hypervisor       *)
(* copies, under the lock CMDQ, to a queue it gave to the hardware; the     *)
(* root zone gives it its own later.  GITS_BASER, which says where the      *)
(* tables are, is left out.                                                 *)
(*                                                                          *)
(* Queues have N entries and pointers count commands (the source counts     *)
(* bytes: 0x20 each, 0x10000 in all).  A command is the LPI it maps.        *)
(***************************************************************************)
EXTENDS Integers, Sequences, SequencesExt

CONSTANTS Zones,   \* zones with an ITS queue
          N,       \* entries of a queue
          Lpi,     \* what commands say
          MaxCmds  \* bound: commands per zone and boot

ASSUME ItsAssumption == N \in Nat \ {0} /\ Zones \subseteq Nat /\ MaxCmds \in Nat

VARIABLES vm,        \* zone -> its queue's memory
          gw,        \* zone -> the guest driver's write index
          cbaser,    \* zones that have written GITS_CBASER
          cwriter,   \* cwriter_list
          creadr,    \* creadr_list
          real, readr, writer,    \* the hypervisor's queue, cmdq.readr and cmdq.writer
          CREADR, CWRITER,        \* the hardware's registers
          hw,        \* the queue in the hardware's CBASER: a zone's, or -1 for real
          ctrl,      \* GITS_CTRL: the hardware is on
          job,       \* the CPU that holds CMDQ: zone and written value
          hung,      \* the copying loop does not end
          lpi,       \* LPIs enabled in the property table
          asked, done,  \* history: per zone, commands given and executed
          lapped,    \* history: zones whose index came back to zero
          came       \* history: zones whose commands were copied

itsvars == <<vm, gw, cbaser, cwriter, creadr, real, readr, writer, CREADR, CWRITER, hw, ctrl,
             job, hung, lpi, asked, done, lapped, came>>

Index == 0 .. N - 1
NoJob == [zone |-> -1]
\* Commands carry their zone, as device ids do.
NoCmd == [zone |-> -1]
Root  == 0

\* Cmdq::new and init_real_cbaser, which ors a mask into GITS_CTRL "to turn
\* off" the hardware and so leaves it on if the firmware did.
ItsInit == /\ vm = [z \in Zones |-> [i \in Index |-> NoCmd]]
           /\ gw = [z \in Zones |-> 0] /\ cbaser = {}
           /\ cwriter = [z \in Zones |-> 0] /\ creadr = [z \in Zones |-> 0]
           /\ real = [i \in Index |-> NoCmd] /\ readr = 0 /\ writer = 0
           /\ CREADR = 0 /\ CWRITER = 0 /\ hw = -1 /\ ctrl \in BOOLEAN
           /\ job = NoJob /\ hung = FALSE /\ lpi = {}
           /\ asked = [z \in Zones |-> << >>] /\ done = [z \in Zones |-> << >>]
           /\ lapped = {} /\ came = {}

\* Defect: the pointer is compared with one entry too many.
ring_ptr_update_Late(v) == IF v > N THEN v - N ELSE v

ring_ptr_update(v) == IF v >= N THEN v - N ELSE v
-----------------------------------------------------------------------------
(* The driver of a zone sets up its queue.  The root zone's, which is the   *)
(* first, also becomes the hardware's (a hardware that is on may ignore     *)
(* that), and the hardware begins at zero.                                  *)
set_cbaser(z) ==
  /\ job = NoJob /\ z \notin cbaser
  /\ z = Root => cbaser = {}
  /\ cbaser' = cbaser \cup {z}
  /\ \/ z = Root /\ hw' = Root /\ CREADR' = 0
     \/ (z = Root => ctrl) /\ UNCHANGED <<hw, CREADR>>
  /\ UNCHANGED <<vm, gw, cwriter, creadr, real, readr, writer, CWRITER, ctrl, job, hung, lpi,
                 asked, done, lapped, came>>

(* GITS_CTRL is the hardware's, for every zone.                             *)
WriteCtrl(z, on) ==
  /\ job.zone # z /\ ctrl # on /\ ctrl' = on
  /\ UNCHANGED <<vm, gw, cbaser, cwriter, creadr, real, readr, writer, CREADR, CWRITER, hw, job,
                 hung, lpi, asked, done, lapped, came>>

(* The guest's driver puts a command into its queue when there is room.     *)
GuestQueues(z, l) ==
  /\ Len(asked[z]) < MaxCmds
  /\ job.zone # z /\ z \in cbaser
  /\ (gw[z] + 1) % N # creadr[z]
  /\ vm' = [vm EXCEPT ![z][gw[z]] = [zone |-> z, lpi |-> l]]
  /\ gw' = [gw EXCEPT ![z] = (@ + 1) % N]
  /\ asked' = [asked EXCEPT ![z] = Append(@, l)]
  /\ lapped' = IF gw'[z] = 0 THEN lapped \cup {z} ELSE lapped
  /\ UNCHANGED <<cbaser, cwriter, creadr, real, readr, writer, CREADR, CWRITER, hw, ctrl, job,
                 hung, lpi, done, came>>

(* A write of zero to GITS_CWRITER.                                         *)
WriteZero(z) ==
  /\ job = NoJob /\ gw[z] = 0 /\ cwriter[z] # 0
  /\ cwriter' = [cwriter EXCEPT ![z] = 0]
  /\ UNCHANGED <<vm, gw, cbaser, creadr, real, readr, writer, CREADR, CWRITER, hw, ctrl, job,
                 hung, lpi, asked, done, lapped, came>>

\* The LPIs that commands map are enabled.
analyze_cmd(cmds) == lpi' = lpi \cup {cmds[k].lpi : k \in {j \in DOMAIN cmds : cmds[j] # NoCmd}}

\* Commands copied into the hypervisor's queue.
Copy(cmds) == real' = [i \in Index |->
                LET K == {k \in DOMAIN cmds : ring_ptr_update(readr + k) = i} IN
                  IF K = {} THEN real[i] ELSE cmds[CHOOSE k \in K : TRUE]]

\* Defect: the hardware's GITS_CWRITER is not written.
tell_Not(w) == UNCHANGED CWRITER
tell(w) == CWRITER' = w

(* Another write: set_cwriter and insert_cmd up to the hardware's CWRITER.  *)
(* When the value is below creadr the unsigned difference wraps around and  *)
(* the loop does not end.                                                   *)
insert_cmd(z) ==
  /\ job = NoJob /\ ~hung /\ gw[z] # 0 /\ gw[z] # cwriter[z]
  /\ LET n    == gw[z] - creadr[z]
         cmds == [k \in 0 .. n - 1 |-> vm[z][(creadr[z] + k) % N]]
     IN \/ n < 0 /\ hung' = TRUE /\ UNCHANGED <<real, writer, CWRITER, lpi>>
        \/ /\ n >= 0
           /\ Copy(cmds) /\ analyze_cmd(cmds)
           /\ writer' = ring_ptr_update(writer + n)
           /\ tell(writer')
           /\ UNCHANGED hung
  /\ job' = [zone |-> z, value |-> gw[z]]
  /\ came' = came \cup {z}
  /\ UNCHANGED <<vm, gw, cbaser, cwriter, creadr, readr, CREADR, hw, ctrl, asked, done, lapped>>

(* The loop over the hardware's CREADR, one reading: not there yet ...      *)
Wait == /\ job # NoJob /\ ~hung /\ readr # CREADR /\ CREADR # writer
        /\ readr' = CREADR
        /\ UNCHANGED <<vm, gw, cbaser, cwriter, creadr, real, writer, CREADR, CWRITER, hw, ctrl, job,
                       hung, lpi, asked, done, lapped, came>>

(* ... or all is read: update_creadr, cwriter_list, unlock.                 *)
Finish == /\ job # NoJob /\ ~hung /\ CREADR = writer
          /\ readr' = CREADR
          /\ creadr' = [creadr EXCEPT ![job.zone] = job.value]
          /\ cwriter' = [cwriter EXCEPT ![job.zone] = job.value]
          /\ job' = NoJob
          /\ UNCHANGED <<vm, gw, cbaser, real, writer, CREADR, CWRITER, hw, ctrl, hung, lpi, asked,
                         done, lapped, came>>

(* The hardware executes a command of the queue it was given.               *)
Execute == /\ ctrl /\ CREADR # CWRITER
           /\ CREADR' = (CREADR + 1) % N
           /\ LET c == (IF hw = Root THEN vm[Root] ELSE real)[CREADR] IN
                done' = IF c = NoCmd THEN done ELSE [done EXCEPT ![c.zone] = Append(@, c.lpi)]
           /\ UNCHANGED <<vm, gw, cbaser, cwriter, creadr, real, readr, writer, CWRITER, hw, ctrl, job,
                          hung, lpi, asked, lapped, came>>

(* A zone but the root is started again: its driver begins at zero, the     *)
(* hypervisor's lists are as they were.                                     *)
Restart(z) ==
  /\ z # Root /\ job = NoJob /\ gw[z] = cwriter[z] /\ gw[z] # 0
  /\ gw' = [gw EXCEPT ![z] = 0]
  /\ cwriter' = [cwriter EXCEPT ![z] = 0]     \* the driver's first write, of zero
  /\ asked' = [asked EXCEPT ![z] = << >>]
  /\ done' = [done EXCEPT ![z] = << >>]
  /\ lapped' = lapped \cup {z}
  /\ UNCHANGED <<vm, cbaser, creadr, real, readr, writer, CREADR, CWRITER, hw, ctrl, job, hung, lpi, came>>

ItsNext == \/ \E z \in Zones : \/ \E l \in Lpi : GuestQueues(z, l)
                               \/ set_cbaser(z) \/ \E on \in BOOLEAN : WriteCtrl(z, on)
                               \/ WriteZero(z) \/ insert_cmd(z) \/ Restart(z)
           \/ Wait \/ Finish \/ Execute

ItsSpec == ItsInit /\ [][ItsNext]_itsvars
ItsFairSpec == ItsSpec /\ WF_itsvars(Wait \/ Finish) /\ WF_itsvars(Execute)
-----------------------------------------------------------------------------
\* The hardware reads the commands of zone z: it has the hypervisor's queue, or
\* it has the root zone's and no other zone's commands moved the pointers.
Reads(z) == hw = -1 \/ (z = Root /\ came \subseteq {Root})

(* The commands of a zone that the hardware reads, and whose queue has not  *)
(* come round, are executed in order and once, whatever the other zones do  *)
(* and however often the shared queue wraps; when a write of GITS_CWRITER   *)
(* returns all of them have been, with their LPIs enabled.                  *)
CommandsForwarded ==
  \A z \in {y \in Zones \ lapped : Reads(y)} :
    /\ IsPrefix(done[z], asked[z])
    /\ job.zone # z /\ gw[z] = cwriter[z] => done[z] = asked[z] /\ creadr[z] = cwriter[z]
    /\ \A k \in DOMAIN done[z] : done[z][k] \in lpi

(* The copying ends, and with it the time CMDQ is held, unless a zone's     *)
(* index came back to zero or a guest turns the hardware off.               *)
CmdqReleased == job # NoJob ~> (job = NoJob \/ lapped # {} \/ ~ctrl)
=============================================================================

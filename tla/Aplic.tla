------------------------------- MODULE Aplic --------------------------------
(***************************************************************************)
(* The APLIC that the zones share (src/src/device/irqchip/aia/aplic.rs):    *)
(* vaplic_emul_handler lets a guest's stores through to the one physical    *)
(* controller.  CPU 3 is the guest zone's and owns the sources 6 and 7;     *)
(* stores of it that would change the others are dropped, for most of the   *)
(* registers.  Each store is made under host_aplic().write(); a target is   *)
(* written after the delivery mode was read under a lock of its own.  A     *)
(* store to setipnum_le makes a source pending and changes nothing here.    *)
(***************************************************************************)
EXTENDS Integers

CONSTANTS ACpu,     \* the CPUs, 3 among them
          Source,   \* interrupt sources
          FirstCpu  \* first CPU of a CPU's zone

GuestCpu == 3
Theirs   == {6, 7} \cap Source
Foreign  == Source \ Theirs

VARIABLES domain,   \* domaincfg: delivery by MSI
          srccfg,   \* sourcecfg
          target,   \* target registers
          msiaddr,  \* MSI address
          enabled,  \* sources enabled
          seen,     \* delivery mode as a CPU that writes a target has read it
          stopped,  \* CPUs that panicked
          rootMode, rootTarget  \* history: what the other CPUs last set for the root's sources

avars == <<domain, srccfg, target, msiaddr, enabled, seen, stopped, rootMode, rootTarget>>

Mode   == {"Inactive", "LevelHigh", "Delegated"}  \* two of the six modes, and delegation
NoMsi  == [fmt |-> "none", hart |-> 0, guest |-> 0]

AplicInit ==
        /\ domain = FALSE
        /\ srccfg = [s \in Source |-> "Inactive"] /\ target = [s \in Source |-> NoMsi]
        /\ msiaddr = 0 /\ enabled = {} /\ seen = [c \in ACpu |-> "none"] /\ stopped = {}
        /\ rootMode = [s \in Foreign |-> "Inactive"] /\ rootTarget = [s \in Foreign |-> NoMsi]

Idle(c) == c \notin stopped /\ seen[c] = "none"

\* Defect: the test of the CPU is left out.
OwnSource_All(c, s) == TRUE
\* `id != 3 || id == 3 && (irq == 6 || irq == 7)`
OwnSource(c, s) == c # GuestCpu \/ s \in Theirs

(* domaincfg: CPU 3's stores are dropped.  The endianness is written as 0.  *)
set_domaincfg(d) == domain' = d

WriteDomain(c, d) ==
  /\ Idle(c)
  /\ IF c # GuestCpu THEN set_domaincfg(d) ELSE UNCHANGED domain
  /\ UNCHANGED <<srccfg, target, msiaddr, enabled, seen, stopped, rootMode, rootTarget>>

(* sourcecfg: a store of a mode is tested, one that delegates the source to *)
(* a child domain is not.                                                   *)
set_sourcecfg(s, m) == srccfg' = [srccfg EXCEPT ![s] = m]
set_sourcecfg_delegate(s) == srccfg' = [srccfg EXCEPT ![s] = "Delegated"]

WriteSource(c, s, m) ==
  /\ Idle(c)
  /\ IF m = "Delegated" THEN set_sourcecfg_delegate(s)
     ELSE IF OwnSource(c, s) THEN set_sourcecfg(s, m) ELSE UNCHANGED srccfg
  /\ rootMode' = IF c # GuestCpu /\ s \in Foreign THEN [rootMode EXCEPT ![s] = m] ELSE rootMode
  /\ UNCHANGED <<domain, target, msiaddr, enabled, seen, stopped, rootTarget>>

(* The MSI address is anybody's.                                            *)
set_msiaddr(a) == msiaddr' = a

WriteMsiaddr(c, a) ==
  /\ Idle(c) /\ set_msiaddr(a)
  /\ UNCHANGED <<domain, srccfg, target, enabled, seen, stopped, rootMode, rootTarget>>

(* setienum and clrienum are, too; clrie, a word at a time, is not.         *)
setienum(s) == enabled' = enabled \cup {s}
clrienum(s) == enabled' = enabled \ {s}
setie(S)    == enabled' = enabled \ S

WriteEnable(c, s) ==
  /\ Idle(c)
  /\ \/ setienum(s)
     \/ clrienum(s)
     \/ IF c # GuestCpu THEN setie({s}) ELSE UNCHANGED enabled
  /\ UNCHANGED <<domain, srccfg, target, msiaddr, seen, stopped, rootMode, rootTarget>>

(* A store to a target register: the delivery mode is read ...              *)
get_msimode == IF domain THEN "msi" ELSE "direct"

ReadMode(c) ==
  /\ Idle(c)
  /\ seen' = [seen EXCEPT ![c] = get_msimode]
  /\ UNCHANGED <<domain, srccfg, target, msiaddr, enabled, stopped, rootMode, rootTarget>>

(* ... and the target written in its format, with the hart counted from the *)
(* zone's first CPU, and interrupt file guest + 1; guests write 0 there.    *)
(* Without MSIs the source is not tested.                                   *)
set_target_msi(h)    == [fmt |-> "msi", hart |-> h, guest |-> 1]
set_target_direct(h) == [fmt |-> "direct", hart |-> h, guest |-> 0]

WriteTarget(c, s, h) ==
  LET hart == h + FirstCpu[c]
      t    == IF seen[c] = "msi" THEN set_target_msi(hart) ELSE set_target_direct(hart)
  IN /\ c \notin stopped /\ seen[c] # "none"
     /\ target' = IF seen[c] = "msi" => OwnSource(c, s) THEN [target EXCEPT ![s] = t] ELSE target
     /\ rootTarget' = IF c # GuestCpu /\ s \in Foreign THEN [rootTarget EXCEPT ![s] = t] ELSE rootTarget
     /\ seen' = [seen EXCEPT ![c] = "none"]
     /\ UNCHANGED <<domain, srccfg, msiaddr, enabled, stopped, rootMode>>

(* setip, setipnum, clripnum, setie, setipnum_be, genmsi, and any access    *)
(* but a store of a word to the registers above.                            *)
Unexpected(c) == /\ Idle(c) /\ stopped' = stopped \cup {c}
                 /\ UNCHANGED <<domain, srccfg, target, msiaddr, enabled, seen, rootMode, rootTarget>>

AplicNext == \E c \in ACpu :
  \/ \E d \in BOOLEAN : WriteDomain(c, d)
  \/ \E s \in Source : \/ \E m \in Mode : WriteSource(c, s, m)
                       \/ WriteEnable(c, s)
                       \/ WriteTarget(c, s, 0)
  \/ \E a \in {0, 1} : WriteMsiaddr(c, a)
  \/ ReadMode(c)
  \/ Unexpected(c)

AplicSpec == AplicInit /\ [][AplicNext]_avars
-----------------------------------------------------------------------------
(* The trigger mode of a source that is not the guest zone's is the one the *)
(* other CPUs last gave it, whatever CPU 3 stores, unless a store delegated *)
(* the source.                                                              *)
ModesKept == \A s \in Foreign : srccfg[s] \in {rootMode[s], "Delegated"}

(* The target of such a source can differ from what they gave it in one way *)
(* only: CPU 3 found the domain without MSIs, perhaps just before it was    *)
(* switched, and wrote a target for direct delivery.                        *)
ForeignTargetsDirect ==
  \A s \in Foreign : target[s] # rootTarget[s] => target[s].fmt = "direct"

(* Of the stores CPU 3 makes to the shared APLIC, in any order with those   *)
(* of the other CPUs, a source that is not its zone's is safe: it can be    *)
(* delegated and directed, and nothing else of its mode and target can be   *)
(* changed.                                                                 *)
RootSourcesKept == ModesKept /\ ForeignTargetsDirect
=============================================================================

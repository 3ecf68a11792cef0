------------------------- MODULE VirtioBridgeProof --------------------------
(***************************************************************************)
(* Proofs about VirtioBridge, for any guest CPUs, any size of the ring and  *)
(* any number of accesses: the request ring holds the request of a waiting  *)
(* CPU under every memory ordering, and the CPU reads its own answer if the *)
(* machine does not reorder the two loads.                                  *)
(***************************************************************************)
EXTENDS VirtioBridge, FiniteSetTheorems, TLAPS

(* How far slot s is behind the first request, at slot f.                   *)
Dist(s, f) == IF s >= f THEN s - f ELSE s + MAX_REQ - f

(* The distance is what Window computes with a remainder.                   *)
LEMMA DistIs ==
  ASSUME NEW s \in Slot, NEW f \in Slot
  PROVE  (s + MAX_REQ - f) % MAX_REQ = Dist(s, f)
BY BridgeAssumption DEF Dist, Slot

(* The slot after s.                                                        *)
LEMMA NextSlotIs ==
  ASSUME NEW s \in Slot
  PROVE  next_slot(s) \in Slot /\ next_slot(s) = IF s = MAX_REQ - 1 THEN 0 ELSE s + 1
BY BridgeAssumption DEF next_slot, Slot

-----------------------------------------------------------------------------
(* CPU c has pushed a configuration access and has not seen the answer.     *)
Waiting(c) == op[c] = "cfg" /\ gpc[c] \in {"wake", "unlock", "spin", "spin_flag"}

BridgeShape ==
  /\ req_front \in Slot /\ req_rear \in Slot /\ seen_rear \in Slot
  /\ DOMAIN req_list = Slot
  /\ cfg_flags \in [CPU -> Nat] /\ cfg_values \in [CPU -> Nat] /\ old_cfg_flag \in [CPU -> Nat]
  /\ count \in [CPU -> Nat] /\ value \in [CPU -> Nat]
  /\ op \in [CPU -> {"cfg", "notify"}]
  /\ gpc \in [CPU -> {"guest", "push", "wake", "unlock", "spin", "spin_flag", "done", "virq"}]
  /\ \A c \in CPU : gpc[c] \in {"spin", "spin_flag"} => op[c] = "cfg"

(* What the backend sees of the ring ends no later than the ring does.      *)
SeenBehindRear == Dist(seen_rear, req_front) <= Dist(req_rear, req_front)

(* A configuration access in the ring is the current one of its CPU, which  *)
(* waits for it and has not been answered; no CPU has two.                  *)
EntriesCurrent ==
  \A s \in Window :
    /\ \E c \in CPU, o \in {"cfg", "notify"}, n \in Nat : req_list[s] = <<c, o, n>>
    /\ \A c \in CPU, n \in Nat : req_list[s] = <<c, "cfg", n>> =>
         Waiting(c) /\ cfg_flags[c] = old_cfg_flag[c] /\ n = count[c]

EntriesOnce ==
  \A s, t \in Window : \A c \in CPU, m, n \in Nat :
    req_list[s] = <<c, "cfg", m>> /\ req_list[t] = <<c, "cfg", n>> => s = t

(* A CPU that waits and has not been answered has its request in the ring.  *)
WaitersListed ==
  \A c \in CPU : Waiting(c) /\ cfg_flags[c] = old_cfg_flag[c] =>
    \E s \in Window : req_list[s] = <<c, "cfg", count[c]>>

BridgeInv == /\ BridgeShape /\ SeenBehindRear
             /\ EntriesCurrent /\ EntriesOnce /\ WaitersListed

(* A step that leaves the ring, the answers and the set of waiting CPUs as  *)
(* they are.                                                                *)
LEMMA BridgeFrame ==
  ASSUME BridgeInv, BridgeShape',
         UNCHANGED <<req_front, req_rear, req_list, cfg_flags>>,
         seen_rear' \in {seen_rear, req_rear},
         \A c \in CPU : /\ Waiting(c)' <=> Waiting(c)
                        /\ Waiting(c) => old_cfg_flag'[c] = old_cfg_flag[c] /\ count'[c] = count[c]
  PROVE  BridgeInv'
<1>1. Window' = Window
  BY DEF Window
<1>2. SeenBehindRear'
  <2>1. CASE seen_rear' = seen_rear
    BY <2>1 DEF BridgeInv, SeenBehindRear
  <2>2. CASE seen_rear' = req_rear
    BY <2>2, BridgeAssumption DEF SeenBehindRear, BridgeInv, BridgeShape, Dist, Slot
  <2> QED
    BY <2>1, <2>2
<1>3. EntriesCurrent'
  BY <1>1 DEF BridgeInv, EntriesCurrent
<1>4. EntriesOnce'
  BY <1>1 DEF BridgeInv, EntriesOnce
<1>5. WaitersListed'
  BY <1>1 DEF BridgeInv, WaitersListed
<1> QED
  BY <1>2, <1>3, <1>4, <1>5 DEF BridgeInv

(* push_req with room in the ring: the slot it fills is none of those in    *)
(* use, and is the only one in use afterwards that was not before.          *)
LEMMA PushWindow ==
  ASSUME req_front \in Slot, req_rear \in Slot, ~is_req_list_full,
         req_front' = req_front, req_rear' = next_slot(req_rear)
  PROVE  /\ Window' = Window \cup {req_rear} /\ req_rear \notin Window
         /\ Dist(req_rear', req_front') = Dist(req_rear, req_front) + 1
<1>1. /\ req_rear' \in Slot
      /\ req_rear' = IF req_rear = MAX_REQ - 1 THEN 0 ELSE req_rear + 1
  BY NextSlotIs
<1>2. req_rear' # req_front
  BY DEF is_req_list_full
<1>3. Dist(req_rear', req_front') = Dist(req_rear, req_front) + 1
  BY <1>1, <1>2, BridgeAssumption DEF Dist, Slot
<1>4. Window = {s \in Slot : Dist(s, req_front) < Dist(req_rear, req_front)}
  BY DistIs DEF Window
<1>5. Window' = {s \in Slot : Dist(s, req_front') < Dist(req_rear', req_front')}
  BY <1>1, DistIs DEF Window
<1>6. ASSUME NEW s \in Slot
      PROVE  Dist(s, req_front) < Dist(req_rear, req_front) + 1
               <=> Dist(s, req_front) < Dist(req_rear, req_front) \/ s = req_rear
  BY BridgeAssumption DEF Dist, Slot
<1>7. Window' = Window \cup {req_rear}
  BY <1>3, <1>4, <1>5, <1>6
<1>8. req_rear \notin Window
  BY <1>4, BridgeAssumption DEF Dist, Slot
<1> QED
  BY <1>3, <1>7, <1>8

(* The backend takes the first request: its slot is the one that is no      *)
(* longer in use, and what the backend sees still ends where the ring does  *)
(* or before.                                                               *)
LEMMA TakeWindow ==
  ASSUME req_front \in Slot, req_rear \in Slot, seen_rear \in Slot, SeenBehindRear,
         req_front # seen_rear, req_front' = next_slot(req_front),
         UNCHANGED <<req_rear, seen_rear>>
  PROVE  Window' = Window \ {req_front} /\ req_front \in Window /\ SeenBehindRear'
<1>1. /\ req_front' \in Slot
      /\ req_front' = IF req_front = MAX_REQ - 1 THEN 0 ELSE req_front + 1
  BY NextSlotIs
<1>2. Dist(seen_rear, req_front) \in Nat /\ Dist(seen_rear, req_front) >= 1
      /\ Dist(req_rear, req_front) \in Nat /\ Dist(req_rear, req_front) >= 1
  BY BridgeAssumption DEF Dist, Slot, SeenBehindRear
<1>3. ASSUME NEW s \in Slot, s # req_front
      PROVE  Dist(s, req_front') = Dist(s, req_front) - 1
  BY <1>1, <1>3, BridgeAssumption DEF Dist, Slot
<1>4. req_rear # req_front
  BY <1>2, BridgeAssumption DEF Dist, Slot
<1>5. SeenBehindRear'
  BY <1>2, <1>3, <1>4 DEF SeenBehindRear
<1>6. Window = {s \in Slot : Dist(s, req_front) < Dist(req_rear, req_front)}
  BY DistIs DEF Window
<1>7. Window' = {s \in Slot : Dist(s, req_front') < Dist(req_rear, req_front')}
  BY <1>1, DistIs DEF Window
<1>8. req_front \in Window
  BY <1>2, <1>6, BridgeAssumption DEF Dist, Slot
<1>9. req_front \notin Window'
  BY <1>1, <1>7, BridgeAssumption DEF Dist, Slot
<1>10. ASSUME NEW s \in Slot, s # req_front
       PROVE  s \in Window' <=> s \in Window
  <2>1. Dist(s, req_front) \in Int
    BY BridgeAssumption DEF Dist, Slot
  <2> QED
    BY <1>2, <1>3, <1>4, <1>6, <1>7, <1>10, <2>1
<1> QED
  BY <1>5, <1>6, <1>7, <1>8, <1>9, <1>10
-----------------------------------------------------------------------------
(* mmio_virtio_handler pushes a request.                                    *)
LEMMA PushStep ==
  ASSUME BridgeInv, NEW c \in CPU, PushReq(c)
  PROVE  BridgeInv'
<1>1. /\ gpc[c] = "push" /\ gpc' = [gpc EXCEPT ![c] = "wake"]
      /\ ~is_req_list_full
      /\ old_cfg_flag' = [old_cfg_flag EXCEPT ![c] = cfg_flags[c]]
      /\ req_list' = [req_list EXCEPT ![req_rear] = <<c, op[c], count[c]>>]
      /\ req_rear' = next_slot(req_rear)
      /\ seen_rear' = IF "store_load" \in Relaxed THEN seen_rear ELSE req_rear'
      /\ UNCHANGED <<req_front, cfg_flags, cfg_values, op, value, count>>
  BY DEF PushReq, Goto, cfg
<1>2. BridgeShape
  BY DEF BridgeInv
<1>3. req_rear' \in Slot
  BY <1>1, <1>2, NextSlotIs DEF BridgeShape
<1>4. BridgeShape'
  BY <1>1, <1>2, <1>3 DEF BridgeShape
<1>5. /\ Window' = Window \cup {req_rear} /\ req_rear \notin Window
      /\ Dist(req_rear', req_front') = Dist(req_rear, req_front) + 1
  BY <1>1, <1>2, PushWindow DEF BridgeShape
<1>6. SeenBehindRear'
  <2>1. CASE seen_rear' = seen_rear
    BY <1>1, <1>2, <1>5, <2>1, BridgeAssumption
    DEF BridgeInv, BridgeShape, SeenBehindRear, Dist, Slot
  <2>2. CASE seen_rear' = req_rear'
    <3>1. Dist(req_rear', req_front') \in Int
      BY <1>4, BridgeAssumption DEF BridgeShape, Dist, Slot
    <3> QED
      BY <2>2, <3>1 DEF SeenBehindRear
  <2> QED
    BY <1>1, <2>1, <2>2
<1>7. \A s \in Window : s \in Slot /\ req_list'[s] = req_list[s]
  BY <1>1, <1>2, <1>5 DEF BridgeShape, Window
<1>8. req_list'[req_rear] = <<c, op[c], count[c]>>
  BY <1>1, <1>2 DEF BridgeShape
<1>9. ~Waiting(c)
  BY <1>1 DEF Waiting
<1>10. \A d \in CPU : d # c => (Waiting(d)' <=> Waiting(d)) /\ old_cfg_flag'[d] = old_cfg_flag[d]
  BY <1>1, <1>2 DEF Waiting, BridgeShape
<1>11. (Waiting(c)' <=> op[c] = "cfg") /\ old_cfg_flag'[c] = cfg_flags'[c]
  BY <1>1, <1>2 DEF Waiting, BridgeShape
<1>12. \A s \in Window, n \in Nat : req_list[s] # <<c, "cfg", n>>
  BY <1>9 DEF BridgeInv, EntriesCurrent
<1>13. EntriesCurrent'
  <2> SUFFICES ASSUME NEW s \in Window'
               PROVE  /\ \E d \in CPU, o \in {"cfg", "notify"}, n \in Nat :
                           req_list'[s] = <<d, o, n>>
                      /\ \A d \in CPU, n \in Nat : req_list'[s] = <<d, "cfg", n>> =>
                           Waiting(d)' /\ cfg_flags'[d] = old_cfg_flag'[d] /\ n = count'[d]
    BY DEF EntriesCurrent
  <2>1. CASE s = req_rear
    BY <1>1, <1>2, <1>8, <1>11, <2>1 DEF BridgeShape
  <2>2. CASE s \in Window
    BY <1>1, <1>7, <1>10, <1>12, <2>2 DEF BridgeInv, EntriesCurrent
  <2> QED
    BY <1>5, <2>1, <2>2
<1>14. EntriesOnce'
  <2> SUFFICES ASSUME NEW s \in Window', NEW t \in Window',
                      NEW d \in CPU, NEW m \in Nat, NEW n \in Nat,
                      req_list'[s] = <<d, "cfg", m>>, req_list'[t] = <<d, "cfg", n>>
               PROVE  s = t
    BY DEF EntriesOnce
  <2>1. CASE s \in Window /\ t \in Window
    BY <1>7, <2>1 DEF BridgeInv, EntriesOnce
  <2>2. CASE s = req_rear /\ t \in Window
    BY <1>7, <1>8, <1>12, <2>2
  <2>3. CASE t = req_rear /\ s \in Window
    BY <1>7, <1>8, <1>12, <2>3
  <2> QED
    BY <1>5, <2>1, <2>2, <2>3
<1>15. WaitersListed'
  <2> SUFFICES ASSUME NEW d \in CPU, Waiting(d)', cfg_flags'[d] = old_cfg_flag'[d]
               PROVE  \E s \in Window' : req_list'[s] = <<d, "cfg", count'[d]>>
    BY DEF WaitersListed
  <2>1. CASE d = c
    BY <1>1, <1>5, <1>8, <1>11, <2>1
  <2>2. CASE d # c
    <3>1. PICK s \in Window : req_list[s] = <<d, "cfg", count[d]>>
      BY <1>1, <1>10, <2>2 DEF BridgeInv, WaitersListed
    <3> QED
      BY <1>1, <1>5, <1>7, <3>1
  <2> QED
    BY <2>1, <2>2
<1> QED
  BY <1>4, <1>6, <1>13, <1>14, <1>15 DEF BridgeInv

(* The backend takes a request, and answers it if it is a configuration     *)
(* access.                                                                  *)
LEMMA TakeStep ==
  ASSUME BridgeInv, BackendTake
  PROVE  BridgeInv'
<1>1. /\ req_front # seen_rear /\ req_front' = next_slot(req_front)
      /\ UNCHANGED <<req_rear, req_list, seen_rear, gpc, op, old_cfg_flag, value, count>>
  BY DEF BackendTake, guest
<1>2. BridgeShape
  BY DEF BridgeInv
<1>3. Window' = Window \ {req_front} /\ req_front \in Window /\ SeenBehindRear'
  BY <1>1, <1>2, TakeWindow DEF BridgeInv, BridgeShape
<1>4. PICK c \in CPU, o \in {"cfg", "notify"}, n \in Nat : req_list[req_front] = <<c, o, n>>
  BY <1>3 DEF BridgeInv, EntriesCurrent
<1>5. \A d \in CPU : Waiting(d)' <=> Waiting(d)
  BY <1>1 DEF Waiting
<1>6. req_front' \in Slot
  BY <1>1, <1>2, NextSlotIs DEF BridgeShape
<1>7. CASE o = "cfg"
  <2>1. /\ cfg_values' = [cfg_values EXCEPT ![c] = n]
        /\ cfg_flags' = [cfg_flags EXCEPT ![c] = @ + 1]
    BY <1>4, <1>7 DEF BackendTake
  <2>2. BridgeShape'
    BY <1>1, <1>2, <1>6, <2>1 DEF BridgeShape
  <2>3. cfg_flags[c] = old_cfg_flag[c] /\ cfg_flags'[c] # old_cfg_flag'[c]
    BY <1>1, <1>2, <1>3, <1>4, <1>7, <2>1 DEF BridgeInv, EntriesCurrent, BridgeShape
  <2>4. \A s \in Window', m \in Nat : req_list[s] # <<c, "cfg", m>>
    BY <1>3, <1>4, <1>7 DEF BridgeInv, EntriesOnce
  <2>5. \A d \in CPU : d # c => cfg_flags'[d] = cfg_flags[d]
    BY <1>2, <2>1 DEF BridgeShape
  <2>6. EntriesCurrent'
    BY <1>1, <1>3, <1>5, <2>4, <2>5 DEF BridgeInv, EntriesCurrent
  <2>7. EntriesOnce'
    BY <1>1, <1>3 DEF BridgeInv, EntriesOnce
  <2>8. WaitersListed'
    <3> SUFFICES ASSUME NEW d \in CPU, Waiting(d)', cfg_flags'[d] = old_cfg_flag'[d]
                 PROVE  \E s \in Window' : req_list'[s] = <<d, "cfg", count'[d]>>
      BY DEF WaitersListed
    <3>1. d # c
      BY <2>3
    <3>2. PICK s \in Window : req_list[s] = <<d, "cfg", count[d]>>
      BY <1>1, <1>5, <2>5, <3>1 DEF BridgeInv, WaitersListed
    <3>3. s # req_front
      BY <1>4, <3>1, <3>2
    <3> QED
      BY <1>1, <1>3, <3>2, <3>3
  <2> QED
    BY <1>3, <2>2, <2>6, <2>7, <2>8 DEF BridgeInv
<1>8. CASE o = "notify"
  <2>1. UNCHANGED <<cfg_flags, cfg_values>>
    BY <1>4, <1>8 DEF BackendTake
  <2>2. BridgeShape'
    BY <1>1, <1>2, <1>6, <2>1 DEF BridgeShape
  <2>3. EntriesCurrent'
    BY <1>1, <1>3, <1>5, <2>1 DEF BridgeInv, EntriesCurrent
  <2>4. EntriesOnce'
    BY <1>1, <1>3 DEF BridgeInv, EntriesOnce
  <2>5. WaitersListed'
    <3> SUFFICES ASSUME NEW d \in CPU, Waiting(d)', cfg_flags'[d] = old_cfg_flag'[d]
                 PROVE  \E s \in Window' : req_list'[s] = <<d, "cfg", count'[d]>>
      BY DEF WaitersListed
    <3>1. PICK s \in Window : req_list[s] = <<d, "cfg", count[d]>>
      BY <1>1, <1>5, <2>1 DEF BridgeInv, WaitersListed
    <3>2. s # req_front
      BY <1>4, <1>8, <3>1
    <3> QED
      BY <1>1, <1>3, <3>1, <3>2
  <2> QED
    BY <1>3, <2>2, <2>3, <2>4, <2>5 DEF BridgeInv
<1> QED
  BY <1>4, <1>7, <1>8

(* The steps that touch neither the requests nor the answers: what they may *)
(* change of the handler's own state.                                       *)
LEMMA OtherStep ==
  ASSUME BridgeInv, [Next]_vars,
         ~BackendTake, \A c \in CPU : ~PushReq(c)
  PROVE  BridgeInv'
<1>0. BridgeShape /\ EntriesOnce
  BY DEF BridgeInv
<1> USE DEF BridgeShape
<1>1. ASSUME NEW c \in CPU, NEW o \in Access, AccessDevice(c, o)
      PROVE  BridgeInv'
  <2>1. o \in {"cfg", "notify"}
    BY BridgeAssumption
  <2>2. BridgeShape'
    BY <1>0, <1>1, <2>1 DEF AccessDevice, Goto, ring, cfg
  <2> QED
    BY <1>0, <1>1, <2>2, BridgeFrame DEF AccessDevice, Goto, ring, cfg, Waiting
<1>2. ASSUME NEW c \in CPU, NeedWakeup(c)
      PROVE  BridgeInv'
  <2>1. BridgeShape'
    BY <1>0, <1>2 DEF NeedWakeup, Goto, ring, cfg
  <2> QED
    BY <1>0, <1>2, <2>1, BridgeFrame DEF NeedWakeup, Goto, ring, cfg, Waiting
<1>3. ASSUME NEW c \in CPU, Unlock(c)
      PROVE  BridgeInv'
  <2>1. BridgeShape'
    BY <1>0, <1>3 DEF Unlock, Goto, cfg
  <2> QED
    BY <1>0, <1>3, <2>1, BridgeFrame DEF Unlock, Goto, cfg, Waiting
<1>4. ASSUME NEW c \in CPU, LoadValue(c)
      PROVE  BridgeInv'
  <2>1. BridgeShape'
    BY <1>0, <1>4 DEF LoadValue, Goto, ring, cfg
  <2> QED
    BY <1>0, <1>4, <2>1, BridgeFrame DEF LoadValue, Goto, ring, cfg, Waiting
<1>5. ASSUME NEW c \in CPU, Answered(c)
      PROVE  BridgeInv'
  <2>0. /\ gpc' = [gpc EXCEPT ![c] = "done"] /\ cfg_flags[c] # old_cfg_flag[c]
        /\ UNCHANGED <<req_front, req_rear, req_list, seen_rear, cfg_flags, cfg_values, op,
                       old_cfg_flag, count>>
    BY <1>5 DEF Answered, Goto, ring, cfg
  <2>1. BridgeShape'
    BY <1>0, <1>5, <2>0 DEF Answered
  <2>2. Window' = Window
    BY <2>0 DEF Window
  <2>3. ~Waiting(c)' /\ \A d \in CPU : d # c => (Waiting(d)' <=> Waiting(d))
    BY <1>0, <2>0 DEF Waiting
  <2>4. SeenBehindRear'
    BY <2>0 DEF BridgeInv, SeenBehindRear
  <2>5. EntriesCurrent'
    BY <2>0, <2>2, <2>3 DEF BridgeInv, EntriesCurrent
  <2>6. EntriesOnce'
    BY <1>0, <2>0, <2>2, SMTT(30) DEF EntriesOnce
  <2>7. WaitersListed'
    BY <2>0, <2>2, <2>3 DEF BridgeInv, WaitersListed
  <2> QED
    BY <2>1, <2>4, <2>5, <2>6, <2>7 DEF BridgeInv
<1>6. ASSUME NEW c \in CPU, Return(c)
      PROVE  BridgeInv'
  <2>1. BridgeShape'
    BY <1>0, <1>6 DEF Return, Goto, ring, cfg
  <2> QED
    BY <1>0, <1>6, <2>1, BridgeFrame DEF Return, Goto, ring, cfg, Waiting
<1>7. ASSUME NEW c \in CPU, TakeIrq(c) \/ handle_virtio_irq(c)
      PROVE  BridgeInv'
  <2>1. BridgeShape'
    BY <1>0, <1>7 DEF TakeIrq, handle_virtio_irq, Goto, ring, cfg
  <2> QED
    BY <1>0, <1>7, <2>1, BridgeFrame DEF TakeIrq, handle_virtio_irq, Goto, ring, cfg, Waiting
<1>8. CASE StoreSeen
  <2>1. BridgeShape'
    BY <1>0, <1>8 DEF StoreSeen, cfg, guest
  <2> QED
    BY <1>0, <1>8, <2>1, BridgeFrame DEF StoreSeen, cfg, guest, Waiting
<1>9. CASE UNCHANGED <<ring, cfg_flags, cfg_values, guest>>
  <2>1. BridgeShape'
    BY <1>0, <1>9 DEF ring, guest
  <2> QED
    BY <1>9, <2>1, BridgeFrame DEF ring, guest, Waiting
<1>10. ASSUME NEW c \in CPU, GuestServes(c) \/ ShmSignal(c)
       PROVE  BridgeInv'
  BY <1>9, <1>10 DEF GuestServes, ShmSignal, cfg
<1>11. CASE BackendIdle \/ BackendSleep \/ BackendWake \/ BackendHypercall
  BY <1>9, <1>11 DEF BackendIdle, BackendSleep, BackendWake, BackendHypercall, cfg
<1>12. CASE InjectLock \/ InjectSkip \/ InjectIrq \/ InjectSgi \/ InjectDone \/ ShmSgi
  BY <1>9, <1>12 DEF InjectLock, InjectSkip, InjectIrq, InjectSgi, InjectDone, ShmSgi, cfg
<1>13. CASE UNCHANGED vars
  BY <1>9, <1>13 DEF vars, cfg
<1> QED
  BY <1>1, <1>2, <1>3, <1>4, <1>5, <1>6, <1>7, <1>8, <1>10, <1>11, <1>12, <1>13
  DEF Next, Handler, Backend

(* A bridge just initialised.                                               *)
LEMMA BridgeStart == Init => BridgeInv
<1> SUFFICES ASSUME Init
             PROVE  BridgeInv
  OBVIOUS
<1>1. BridgeShape
  BY BridgeAssumption DEF Init, BridgeShape, Slot
<1>2. Window = {}
  BY BridgeAssumption, DistIs DEF Init, Window, Slot, Dist
<1>3. SeenBehindRear
  BY BridgeAssumption DEF Init, SeenBehindRear, Dist
<1>4. EntriesCurrent /\ EntriesOnce
  BY <1>2 DEF EntriesCurrent, EntriesOnce
<1>5. WaitersListed
  BY DEF Init, WaitersListed, Waiting
<1> QED
  BY <1>1, <1>3, <1>4, <1>5 DEF BridgeInv

(* Every step of guests, backend and hypercalls keeps BridgeInv.            *)
LEMMA BridgeStep == BridgeInv /\ [Next]_vars => BridgeInv'
BY PushStep, TakeStep, OtherStep

(* push_req and the backend keep the request of a waiting CPU in the ring,  *)
(* exactly once, for every size of the ring, at every wrap-around, and      *)
(* however late the backend sees the new req_rear.                          *)
THEOREM RequestsHeld == Spec => []RequestHeld
<1>1. BridgeInv => RequestHeld
  <2> SUFFICES ASSUME BridgeInv, NEW c \in CPU, gpc[c] \in {"spin", "spin_flag"},
                      cfg_flags[c] = old_cfg_flag[c]
               PROVE  Cardinality({s \in Window : req_list[s] = <<c, "cfg", count[c]>>}) = 1
    BY DEF RequestHeld
  <2>1. BridgeShape
    BY DEF BridgeInv
  <2>2. Waiting(c) /\ count[c] \in Nat
    BY <2>1 DEF BridgeShape, Waiting
  <2>3. PICK s \in Window : req_list[s] = <<c, "cfg", count[c]>>
    BY <2>2 DEF BridgeInv, WaitersListed
  <2>4. {t \in Window : req_list[t] = <<c, "cfg", count[c]>>} = {s}
    BY <2>2, <2>3 DEF BridgeInv, EntriesOnce
  <2> QED
    BY <2>4, FS_Singleton
<1> QED
  BY <1>1, BridgeStart, BridgeStep, PTL DEF Spec
-----------------------------------------------------------------------------
(* Once a waiting CPU has been answered, what it is about to read is the    *)
(* answer to this request: the backend answers no other one of its.         *)
AnswerReady(c) == /\ gpc[c] # "spin_flag"
                  /\ Waiting(c) /\ cfg_flags[c] # old_cfg_flag[c] => cfg_values[c] = count[c]
                  /\ gpc[c] = "done" => value[c] = count[c]

AnswerInv == BridgeInv /\ \A c \in CPU : AnswerReady(c)

(* With the two loads in order every step keeps AnswerInv.                  *)
LEMMA AnswerStep ==
  ASSUME "load_load" \notin Relaxed, AnswerInv, [Next]_vars
  PROVE  AnswerInv'
<1>0. BridgeInv /\ BridgeInv' /\ BridgeShape
  BY BridgeStep DEF AnswerInv, BridgeInv
<1> SUFFICES ASSUME NEW k \in CPU
             PROVE  AnswerReady(k)'
  BY <1>0 DEF AnswerInv
<1>m. AnswerReady(k)
  BY DEF AnswerInv
<1> USE DEF BridgeShape
<1>1. ASSUME NEW c \in CPU, NEW o \in Access, AccessDevice(c, o)
      PROVE  AnswerReady(k)'
  BY <1>0, <1>1, <1>m DEF AccessDevice, Goto, cfg, AnswerReady, Waiting
<1>2. ASSUME NEW c \in CPU, PushReq(c)
      PROVE  AnswerReady(k)'
  BY <1>0, <1>2, <1>m DEF PushReq, Goto, cfg, AnswerReady, Waiting
<1>3. ASSUME NEW c \in CPU, NeedWakeup(c) \/ Return(c)
      PROVE  AnswerReady(k)'
  BY <1>0, <1>3, <1>m DEF NeedWakeup, Return, Goto, cfg, AnswerReady, Waiting
<1>4. ASSUME NEW c \in CPU, Unlock(c)
      PROVE  AnswerReady(k)'
  BY <1>0, <1>4, <1>m DEF Unlock, Goto, cfg, AnswerReady, Waiting
<1>5. ASSUME NEW c \in CPU, LoadValue(c)
      PROVE  AnswerReady(k)'
  BY <1>5 DEF LoadValue
<1>6. ASSUME NEW c \in CPU, Answered(c)
      PROVE  AnswerReady(k)'
  <2>0. /\ gpc[c] \in {"spin", "spin_flag"} /\ cfg_flags[c] # old_cfg_flag[c]
        /\ gpc' = [gpc EXCEPT ![c] = "done"]
        /\ value' = [value EXCEPT ![c] = IF gpc[c] = "spin" THEN cfg_values[c] ELSE @]
        /\ UNCHANGED <<cfg_flags, cfg_values, op, old_cfg_flag, count>>
    BY <1>6 DEF Answered, Goto, cfg
  <2>1. CASE k = c
    <3>1. gpc[k] = "spin" /\ Waiting(k)
      BY <1>0, <1>m, <2>0, <2>1 DEF AnswerReady, Waiting
    <3> QED
      BY <1>0, <1>m, <2>0, <2>1, <3>1 DEF AnswerReady, Waiting
  <2>2. CASE k # c
    BY <1>0, <1>m, <2>0, <2>2 DEF AnswerReady, Waiting
  <2> QED
    BY <2>1, <2>2
<1>7. ASSUME NEW c \in CPU, TakeIrq(c) \/ handle_virtio_irq(c)
      PROVE  AnswerReady(k)'
  BY <1>0, <1>7, <1>m DEF TakeIrq, handle_virtio_irq, Goto, cfg, AnswerReady, Waiting
<1>8. CASE BackendTake
  <2>1. /\ req_front # seen_rear
        /\ UNCHANGED <<req_rear, req_list, seen_rear, gpc, op, old_cfg_flag, value, count>>
        /\ req_front' = next_slot(req_front)
    BY <1>8 DEF BackendTake, guest
  <2>2. req_front \in Window
    BY <1>0, <2>1, TakeWindow DEF BridgeInv
  <2>3. PICK c \in CPU, o \in {"cfg", "notify"}, n \in Nat : req_list[req_front] = <<c, o, n>>
    BY <1>0, <2>2 DEF BridgeInv, EntriesCurrent
  <2>4. CASE o = "cfg"
    <3>1. /\ cfg_values' = [cfg_values EXCEPT ![c] = n]
          /\ cfg_flags' = [cfg_flags EXCEPT ![c] = @ + 1]
      BY <1>8, <2>3, <2>4 DEF BackendTake
    <3>2. n = count[c]
      BY <1>0, <2>2, <2>3, <2>4 DEF BridgeInv, EntriesCurrent
    <3> QED
      BY <1>0, <1>m, <2>1, <3>1, <3>2 DEF AnswerReady, Waiting
  <2>5. CASE o = "notify"
    <3>1. UNCHANGED <<cfg_flags, cfg_values>>
      BY <1>8, <2>3, <2>5 DEF BackendTake
    <3> QED
      BY <1>m, <2>1, <3>1 DEF AnswerReady, Waiting
  <2> QED
    BY <2>3, <2>4, <2>5
<1>9. CASE UNCHANGED <<cfg_flags, cfg_values, guest>>
  BY <1>9, <1>m DEF guest, AnswerReady, Waiting
<1>10. ASSUME NEW c \in CPU, GuestServes(c) \/ ShmSignal(c)
       PROVE  AnswerReady(k)'
  BY <1>9, <1>10 DEF GuestServes, ShmSignal, cfg
<1>11. CASE BackendIdle \/ BackendSleep \/ BackendWake \/ BackendHypercall \/ StoreSeen
  BY <1>9, <1>11 DEF BackendIdle, BackendSleep, BackendWake, BackendHypercall, StoreSeen, cfg
<1>12. CASE InjectLock \/ InjectSkip \/ InjectIrq \/ InjectSgi \/ InjectDone \/ ShmSgi
  BY <1>9, <1>12 DEF InjectLock, InjectSkip, InjectIrq, InjectSgi, InjectDone, ShmSgi, cfg
<1>13. CASE UNCHANGED vars
  BY <1>9, <1>13 DEF vars, cfg
<1> QED
  BY <1>1, <1>2, <1>3, <1>4, <1>5, <1>6, <1>7, <1>8, <1>10, <1>11, <1>12, <1>13
  DEF Next, Handler, Backend

(* On a machine that does not read cfg_values before the cfg_flags that end *)
(* the wait, mmio_virtio_handler returns the answer to its own request,     *)
(* never one left over from an earlier access.                              *)
THEOREM AnswersAreOwn ==
  ASSUME "load_load" \notin Relaxed
  PROVE  Spec => []OwnAnswer
<1>1. Init => AnswerInv
  BY BridgeStart DEF Init, AnswerInv, AnswerReady, Waiting
<1>2. AnswerInv => OwnAnswer
  BY DEF AnswerInv, AnswerReady, OwnAnswer
<1>3. AnswerInv /\ [Next]_vars => AnswerInv'
  BY AnswerStep
<1> QED
  BY <1>1, <1>2, <1>3, PTL DEF Spec
=============================================================================

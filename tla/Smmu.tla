-------------------------------- MODULE Smmu --------------------------------
(***************************************************************************)
(* The SMMUv3 driver (src/src/arch/aarch64/iommu.rs): the command queue     *)
(* with its wrapping indices, and the stream table, whose entries the SMMU  *)
(* may fetch and cache at any moment while they are being written.          *)
(*                                                                          *)
(* Register values are numbers; a field into which the code only ORs (the   *)
(* stream configuration, the VMID, the root of the page table) is its set   *)
(* of bits.  SMMUV3 is a mutex, so one iommu_add_device runs at a time.     *)
(***************************************************************************)
EXTENDS Integers

CONSTANTS Shifts,   \* queue sizes the SMMU may report, as log2
          Sid,      \* stream ids
          SmmuZone,
          Root,     \* zone -> bits of the root address of its page table
          Stale,    \* what a new frame may hold where an entry has these two fields
          MaxCalls  \* bound: calls of iommu_add_device

ASSUME SmmuAssumption == /\ Shifts \subseteq Nat
                         /\ \A old \in Stale : old = [vmid |-> old.vmid, ttb |-> old.ttb]

VARIABLES shift,        \* cmdq.max_n_shift
          prod, cons,   \* cmdq.prod and cmdq.cons
          PROD, CONS,   \* the SMMU's registers
          ring,         \* the queue's memory
          enabled,      \* CR0ACK
          allocated,    \* the stream table has frames of its own
          ste,          \* the stream table
          was,          \* history: as init_linear_strtab left it
          cache,        \* the SMMU's copies: sid -> an entry or NoEntry
          job,          \* what iommu_add_device is doing
          calls, owners \* history: calls made, zones each stream was given to

smvars == <<shift, prod, cons, PROD, CONS, ring, enabled, allocated, ste, was, cache, job, calls, owners>>
queueVars == <<shift, prod, cons, PROD, ring>>
tableVars == <<allocated, was>>

NoEntry == [cfg |-> "none"]
NoCmd   == [op |-> "none"]
Idle    == [at |-> "idle"]
Sync    == [op |-> "CMD_SYNC"]
Cfgi(s) == [op |-> "CFGI_STE", sid |-> s]

Bypass   == {2}      \* STRTAB_STE_0_CFG_BYPASS, as bits
S2_TRANS == {1, 2}   \* STRTAB_STE_0_CFG_S2_TRANS
bitsOf(n) == {k \in 0 .. n : (n \div 2 ^ k) % 2 = 1}

\* What write_ste adds to an entry for zone z.
Entry(z) == [cfg |-> S2_TRANS, vmid |-> bitsOf(z), ttb |-> Root[z]]
-----------------------------------------------------------------------------
(* CmdQueue                                                                 *)
q_idx(r)  == r % (2 ^ shift)
q_wrap(r) == (r \div 2 ^ shift) % 2

\* Defect: the wrap bit is not compared.
q_empty_NoWrap == q_idx(prod) = q_idx(cons)

q_empty == q_idx(prod) = q_idx(cons) /\ q_wrap(prod) = q_wrap(cons)
q_full  == q_idx(prod) = q_idx(cons) /\ q_wrap(prod) # q_wrap(cons)

inc_prod == (q_wrap(prod) * 2 ^ shift + q_idx(prod) + 1) % (2 ^ (shift + 1))
-----------------------------------------------------------------------------
\* The queue is as large as the SMMU reports, up to a page.
CMDQ_MAX_SZ_SHIFT == 8
init_cmdq(reported) ==
  /\ shift = IF reported > CMDQ_MAX_SZ_SHIFT THEN CMDQ_MAX_SZ_SHIFT ELSE reported
  /\ prod = 0 /\ cons = 0 /\ PROD = 0 /\ CONS = 0
  /\ ring = [i \in 0 .. 2 ^ shift - 1 |-> NoCmd]

(* The stream table, of bypass entries: init_bypass_ste writes the first two*)
(* double words, and the frames still hold what they held in the others.    *)
(* Without frames the base stays 0, and the SMMU is given that table.       *)
init_linear_strtab ==
  /\ allocated \in BOOLEAN
  /\ \E held \in [Sid -> Stale] :
       ste = [s \in Sid |-> [cfg |-> Bypass, vmid |-> held[s].vmid, ttb |-> held[s].ttb]]
  /\ was = ste

(* Smmuv3::new; device_reset writes CR0 and goes on when the                *)
(* acknowledgement does not come in time.                                   *)
SmmuInit == /\ \E r \in Shifts : init_cmdq(r)
            /\ init_linear_strtab
            /\ enabled = FALSE
            /\ cache = [s \in Sid |-> NoEntry]
            /\ job = Idle /\ calls = 0 /\ owners = [s \in Sid |-> {}]

(* iommu_add_device: the lock, then sync_ste: CFGI_STE and CMD_SYNC.        *)
iommu_add_device(z, s) ==
  /\ job = Idle /\ calls < MaxCalls
  /\ calls' = calls + 1
  /\ owners' = [owners EXCEPT ![s] = @ \cup {z}]
  /\ job' = [at |-> "insert", cmd |-> Cfgi(s), sid |-> s, zone |-> z]
  /\ UNCHANGED <<queueVars, CONS, enabled, ste, cache, tableVars>>

\* What the loops of cmd_insert wait for.
Polling == [insert |-> q_full, drain |-> ~q_empty]

(* cmd_insert: while the queue is full, and after the command is written as *)
(* long as it is not empty, the consumer index is read again.               *)
Poll == /\ job.at \in DOMAIN Polling /\ Polling[job.at]
        /\ cons' = CONS
        /\ UNCHANGED <<shift, prod, PROD, CONS, ring, enabled, ste, cache, job, calls, owners, tableVars>>

\* Defect: the index is not published.
Insert_NotTold == /\ job.at = "insert" /\ ~q_full
                  /\ ring' = [ring EXCEPT ![q_idx(prod)] = job.cmd]
                  /\ prod' = inc_prod
                  /\ job' = [job EXCEPT !.at = "drain"]
                  /\ UNCHANGED <<shift, cons, PROD, CONS, enabled, ste, cache, calls, owners, tableVars>>

(* Between the loops the command is written and its index published.        *)
Insert == /\ job.at = "insert" /\ ~q_full
          /\ ring' = [ring EXCEPT ![q_idx(prod)] = job.cmd]
          /\ prod' = inc_prod
          /\ PROD' = inc_prod
          /\ job' = [job EXCEPT !.at = "drain"]
          /\ UNCHANGED <<shift, cons, CONS, enabled, ste, cache, calls, owners, tableVars>>

(* CMD_SYNC follows CFGI_STE; then the entry is written.                    *)
Drained == /\ job.at = "drain" /\ q_empty
           /\ job' = IF job.cmd = Sync
                     THEN [at |-> "write", left |-> {"cfg", "vmid", "ttb"},
                           sid |-> job.sid, zone |-> job.zone]
                     ELSE [job EXCEPT !.at = "insert", !.cmd = Sync]
           /\ UNCHANGED <<queueVars, CONS, enabled, ste, cache, calls, owners, tableVars>>

(* LinearStreamTable::write_ste ORs into three double words of the entry.   *)
(* They are plain stores, whose order nothing fixes.                        *)
write_ste(f) ==
  /\ job.at = "write" /\ f \in job.left
  /\ ste' = [ste EXCEPT ![job.sid][f] = @ \cup Entry(job.zone)[f]]
  /\ job' = [job EXCEPT !.left = @ \ {f}]
  /\ UNCHANGED <<queueVars, CONS, enabled, cache, calls, owners, tableVars>>

Return == /\ job.at = "write" /\ job.left = {}
          /\ job' = Idle
          /\ UNCHANGED <<queueVars, CONS, enabled, ste, cache, calls, owners, tableVars>>

(* A table at address 0 is somebody else's memory, who writes there.        *)
Overwrite(s) ==
  /\ ~allocated
  /\ ste' = [ste EXCEPT ![s].cfg = {}]
  /\ UNCHANGED <<queueVars, CONS, enabled, cache, job, calls, owners, tableVars>>
-----------------------------------------------------------------------------
(* The SMMU: it takes CR0, consumes commands and serves the devices.        *)
Ack == /\ ~enabled /\ enabled' = TRUE
       /\ UNCHANGED <<queueVars, CONS, ste, cache, job, calls, owners, tableVars>>

Consume == /\ enabled /\ CONS # PROD
           /\ LET c == ring[q_idx(CONS)] IN
                cache' = IF c.op = "CFGI_STE" THEN [cache EXCEPT ![c.sid] = NoEntry] ELSE cache
           /\ CONS' = (CONS + 1) % (2 ^ (shift + 1))
           /\ UNCHANGED <<queueVars, enabled, ste, job, calls, owners, tableVars>>

\* A device's access makes the SMMU fetch its entry.
Fetch(s) == /\ enabled /\ cache[s] = NoEntry
            /\ cache' = [cache EXCEPT ![s] = ste[s]]
            /\ UNCHANGED <<queueVars, CONS, enabled, ste, job, calls, owners, tableVars>>

Driver == \/ Poll \/ Insert \/ Drained \/ Return
          \/ \E f \in {"cfg", "vmid", "ttb"} : write_ste(f)
Hardware == Ack \/ Consume

SmmuNext == \/ \E z \in SmmuZone, s \in Sid : iommu_add_device(z, s)
            \/ Driver \/ Hardware \/ \E s \in Sid : Fetch(s) \/ Overwrite(s)

SmmuSpec == SmmuInit /\ [][SmmuNext]_smvars
SmmuFairSpec == SmmuSpec /\ WF_smvars(Driver) /\ WF_smvars(Hardware)
-----------------------------------------------------------------------------
Writing(s) == job.at # "idle" /\ job.sid = s

\* Field f of the entry of stream s, ORed for zone z.
Added(s, z, f) == was[s][f] \cup Entry(z)[f]

(* The entry of a device that always went to the same zone has, once        *)
(* iommu_add_device has returned, the bits of that zone and the bits the    *)
(* table's frames held before, none else: with clear frames it is the       *)
(* zone's, although the fields are ORed over a bypass entry.  What the SMMU *)
(* caches for it, at any point of the writing, has in each double word all  *)
(* of the zone's bits or what the frames held.  No invalidation follows the *)
(* writing: a copy fetched before or in the middle of it stays, and nothing *)
(* is said of when the SMMU takes the new entry.                            *)
SteOfOwner ==
  allocated =>
    \A s \in Sid : \A z \in owners[s] :
      owners[s] = {z} =>
        /\ ~Writing(s) => \A f \in {"vmid", "ttb"} : ste[s][f] = Added(s, z, f)
        /\ ~Writing(s) => ste[s].cfg = S2_TRANS
        /\ cache[s] # NoEntry => \A f \in {"vmid", "ttb"} : cache[s][f] \in {was[s][f], Added(s, z, f)}

(* The SMMU only ever consumes a command that was written for it, and when  *)
(* the entry of a stream is about to be changed the commands of sync_ste    *)
(* have all been consumed: the indices do not lose a lap.                   *)
SyncedBeforeWrite ==
  /\ CONS # PROD => ring[q_idx(CONS)] = job.cmd /\ job.at = "drain"
  /\ job.at = "write" => CONS = PROD

(* However large the queue is and whenever the SMMU consumes, the stream    *)
(* table entry of a device gets the VMID and the root of the zone it was    *)
(* added to, over what an allocated table held, and it is written only when *)
(* the invalidations before it are done.                                    *)
StreamsKept == SteOfOwner /\ SyncedBeforeWrite

(* Every iommu_add_device returns, whatever size the queue has, provided    *)
(* the SMMU is enabled in the end and goes on consuming.                    *)
AddDeviceReturns == job # Idle ~> job = Idle
=============================================================================

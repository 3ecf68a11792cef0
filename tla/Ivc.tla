-------------------------------- MODULE Ivc ---------------------------------
(***************************************************************************)
(* Inter-VM communication (src/src/ivc.rs), the part of zone_create that    *)
(* sets it up (src/src/zone.rs) and the HyperAMP doorbell                   *)
(* (src/src/hyperamp.rs).  Zones are created by hypercalls of the root      *)
(* zone's CPUs, which interleave; the two tables of IVC outlive the zones.  *)
(*                                                                          *)
(* A configuration is a sequence of regions; sec stands for rw_sec_size and *)
(* out_sec_size, in bytes, and ct is the address the zone's guest has the   *)
(* control table at, which another configuration may give another region.   *)
(***************************************************************************)
EXTENDS Integers, Sequences, FiniteSets

CONSTANTS ZoneId, IvcId,
          Configs,   \* zone -> the configurations it may be started with
          MaxStarts  \* bound: zones started

\* HvIvcConfig, and the ones zone z may be started with.
IvcConfig  == [id : IvcId, peer : Nat, max : Nat, sec : Nat, irq : Nat, ct : Nat]
PAGE_SIZE  == 4096
Regions(z) == UNION {{c[i] : i \in DOMAIN c} : c \in Configs[z]}

\* A zone is the same peer of a region in all its configurations, and no other
\* zone is that peer.
ASSUME IvcAssumption ==
  /\ \A z \in ZoneId : Configs[z] \subseteq Seq(IvcConfig)
  /\ \A z \in ZoneId : \A r \in Regions(z) : r.peer < r.max
  /\ \A z, y \in ZoneId : \A r \in Regions(z), q \in Regions(y) :
       r.id = q.id => (r.peer = q.peer <=> z = y)

VARIABLES records,  \* IVC_RECORDS
          infos,    \* IVC_INFOS: zone -> sequence of regions
          izone,    \* zone -> what exists of it
          shm,      \* ranges of shared memory taken so far
          starts,
          pendirq,  \* interrupts made pending by doorbells
          panicked  \* the zone whose access made the hypervisor panic, if any

ivars == <<records, infos, izone, shm, starts, pendirq, panicked>>

Gone == [st |-> "gone"]

IvcInit == /\ records = << >> /\ infos = << >>
           /\ izone = [z \in ZoneId |-> Gone]
           /\ shm = 0 /\ starts = 0 /\ pendirq = {} /\ panicked = {}

\* No CPU has panicked, which stops the hypervisor.
Up == panicked = {}

\* BTreeMap::insert.
put(f, k, v) == [x \in DOMAIN f \cup {k} |-> IF x = k THEN v ELSE f[x]]
-----------------------------------------------------------------------------
(* hv_zone_start up to ivc_init: find_zone fails, Zone::new, pt_init and    *)
(* mmio_init succeed.                                                       *)
Start(z, c) ==
  /\ Up /\ izone[z] = Gone /\ starts < MaxStarts
  /\ starts' = starts + 1
  /\ izone' = [izone EXCEPT ![z] = [st |-> "init", cfg |-> c, next |-> 1, gpm |-> << >>, mmio |-> {}]]
  /\ UNCHANGED <<records, infos, shm, pendirq, panicked>>

\* insert_ivc_record fails.
Refused(r) == IF r.id \in DOMAIN records
              THEN \/ records[r.id].max # r.max \/ records[r.id].sec # r.sec
                   \/ Cardinality(DOMAIN records[r.id].peers) = records[r.id].max
              ELSE r.sec % PAGE_SIZE # 0

\* Defect: a new peer gets memory of its own.
insert_ivc_record_NewMem(z, r) ==
  records' = put(records, r.id,
    [max |-> r.max, sec |-> r.sec, mem |-> shm,
     peers |-> put(IF r.id \in DOMAIN records THEN records[r.id].peers ELSE << >>,
                   r.peer, [zone |-> z, irq |-> r.irq])])

(* insert_ivc_record, when it succeeds: the first peer brings the memory.   *)
insert_ivc_record(z, r) ==
  records' = put(records, r.id,
    [max |-> r.max, sec |-> r.sec,
     mem |-> IF r.id \in DOMAIN records THEN records[r.id].mem ELSE shm,
     peers |-> put(IF r.id \in DOMAIN records THEN records[r.id].peers ELSE << >>,
                   r.peer, [zone |-> z, irq |-> r.irq])])

\* Defect: the peers are counted from one.
sections_Next(r, m) == [mem |-> m, rw |-> {r.peer + 1} \cap (0 .. r.max - 1)]

\* What ivc_init maps of the memory m: the out sections of all peers, its own writable.
sections(r, m) == [mem |-> m, rw |-> {r.peer} \cap (0 .. r.max - 1)]

(* One turn of the loop of ivc_init.                                        *)
ivc_init(z) ==
  /\ Up /\ izone[z].st = "init" /\ izone[z].next <= Len(izone[z].cfg)
  /\ LET r == izone[z].cfg[izone[z].next] IN
       /\ ~Refused(r)
       /\ insert_ivc_record(z, r)
       /\ shm' = IF r.id \in DOMAIN records THEN shm ELSE shm + 1
       /\ izone' = [izone EXCEPT ![z].next = @ + 1,
                                 ![z].gpm = put(@, r.id, sections(r, records'[r.id].mem)),
                                 ![z].mmio = @ \cup {r.ct}]
  /\ UNCHANGED <<infos, starts, pendirq, panicked>>

\* Defect: an entry that is there stays.
IvcInited_Kept(z) ==
  /\ Up /\ izone[z].st = "init" /\ izone[z].next > Len(izone[z].cfg)
  /\ infos' = IF z \in DOMAIN infos THEN infos ELSE put(infos, z, izone[z].cfg)
  /\ izone' = [izone EXCEPT ![z].st = "checked"]
  /\ UNCHANGED <<records, shm, starts, pendirq, panicked>>

(* The loop ends: IVC_INFOS gets the zone's entry.                          *)
IvcInited(z) ==
  /\ Up /\ izone[z].st = "init" /\ izone[z].next > Len(izone[z].cfg)
  /\ infos' = put(infos, z, izone[z].cfg)
  /\ izone' = [izone EXCEPT ![z].st = "checked"]
  /\ UNCHANGED <<records, shm, starts, pendirq, panicked>>

(* A region is refused: ivc_init returns and zone_create goes on.           *)
IvcRefused(z) ==
  /\ Up /\ izone[z].st = "init" /\ izone[z].next <= Len(izone[z].cfg)
  /\ Refused(izone[z].cfg[izone[z].next])
  /\ izone' = [izone EXCEPT ![z].st = "refused"]
  /\ UNCHANGED <<records, infos, shm, starts, pendirq, panicked>>

(* The rest of hv_zone_start: the zone runs ...                             *)
Run(z) == /\ Up /\ izone[z].st \in {"checked", "refused"}
          /\ izone' = [izone EXCEPT ![z] = [st |-> "runs", ok |-> (izone[z].st = "checked"),
                                            cfg |-> izone[z].cfg,
                                            gpm |-> izone[z].gpm, mmio |-> izone[z].mmio]]
          /\ UNCHANGED <<records, infos, shm, starts, pendirq, panicked>>

(* ... or a CPU is taken: EBUSY, and the Zone is dropped.                   *)
StartFails(z) == /\ Up /\ izone[z].st \in {"checked", "refused"}
                 /\ izone' = [izone EXCEPT ![z] = Gone]
                 /\ UNCHANGED <<records, infos, shm, starts, pendirq, panicked>>

(* hv_zone_shutdown                                                         *)
Shutdown(z) == /\ Up /\ izone[z].st = "runs"
               /\ izone' = [izone EXCEPT ![z] = Gone]
               /\ UNCHANGED <<records, infos, shm, starts, pendirq, panicked>>
-----------------------------------------------------------------------------
\* The control tables a running zone's guest can get at.
tables_of(z) == IF izone[z].st = "runs" THEN izone[z].mmio ELSE {}

\* The handler is given the address of the control table, and looks it up in
\* what IVC_INFOS has for the zone, which may be older than the zone.
lookup(z, a) == IF z \in DOMAIN infos THEN {i \in DOMAIN infos[z] : infos[z][i].ct = a} ELSE {}
ivc_id(z, a) == LET i == CHOOSE i \in lookup(z, a) : \A j \in lookup(z, a) : i <= j
                IN  infos[z][i].id

\* The zone's entries in the record, and the first of them.
own_peer(z, id) == {p \in DOMAIN records[id].peers : records[id].peers[p].zone = z}
lowest(S)        == CHOOSE p \in S : \A q \in S : p <= q

\* A read of CT_PEER_ID finds what it unwraps.
Finds(z, a) == /\ lookup(z, a) # {} /\ ivc_id(z, a) \in DOMAIN records
               /\ own_peer(z, ivc_id(z, a)) # {}

(* mmio_ivc_handler, a read: an unwrap fails and the hypervisor stops.      *)
ReadPanics(z, a) ==
  /\ Up /\ a \in tables_of(z)
  /\ ~Finds(z, a)
  /\ panicked' = {z}
  /\ UNCHANGED <<records, infos, izone, shm, starts, pendirq>>

(* mmio_ivc_handler, a write of CT_IPI_INVOKE to peer p.                    *)
IpiInvoke(z, a, p) ==
  /\ Up /\ a \in tables_of(z)
  /\ lookup(z, a) # {} /\ ivc_id(z, a) \in DOMAIN records
  /\ p \in DOMAIN records[ivc_id(z, a)].peers
  /\ pendirq' = pendirq \cup {records[ivc_id(z, a)].peers[p].irq}
  /\ UNCHANGED <<records, infos, izone, shm, starts, panicked>>

\* get_irq_by_service
get_irq_by_service(target) == 74

(* mmio_hyperamp_handler: the root zone writes target and service; a zero   *)
(* is the write that only warms the mapping up.                             *)
HyperAmp(target, service) ==
  /\ Up /\ <<target, service>> # <<0, 0>>
  /\ pendirq' = pendirq \cup {get_irq_by_service(target)}
  /\ UNCHANGED <<records, infos, izone, shm, starts, panicked>>

IvcNext == \/ \E z \in ZoneId : \/ \E c \in Configs[z] : Start(z, c)
                                \/ ivc_init(z) \/ IvcInited(z) \/ IvcRefused(z)
                                \/ Run(z) \/ StartFails(z) \/ Shutdown(z)
                                \/ \E a \in tables_of(z) : \/ ReadPanics(z, a)
                                                       \/ \E p \in 0 .. 2 : IpiInvoke(z, a, p)
           \/ \E t \in 0 .. 1, s \in 0 .. 1 : HyperAmp(t, s)

IvcSpec == IvcInit /\ [][IvcNext]_ivars
-----------------------------------------------------------------------------
Exists(z) == izone[z] # Gone

(* The zones that take part in a region all map the same memory, and no two *)
(* may write the same out section, whichever zones were started, refused,   *)
(* dropped half-way and started again before.                               *)
RegionShared ==
  \A z, y \in {x \in ZoneId : Exists(x)} :
    \A id \in DOMAIN izone[z].gpm \cap DOMAIN izone[y].gpm :
      /\ izone[z].gpm[id].mem = izone[y].gpm[id].mem
      /\ z # y => izone[z].gpm[id].rw \cap izone[y].gpm[id].rw = {}

(* When ivc_init got through with all regions of a running zone, a read at  *)
(* the address of one of its control tables finds the region the zone has   *)
(* there and the peer whose section it may write: entries that earlier      *)
(* configurations left for the same address, zones that ran before and      *)
(* creations that failed never mislead the handler.  It panics only for a   *)
(* zone ivc_init gave up on.  Of such a zone nothing more is said: its      *)
(* handler has the entry of an earlier configuration, if there is any, and  *)
(* may answer for the region that one had at the address.                   *)
HandlerAnswers ==
  /\ \A z \in panicked : ~izone[z].ok
  /\ \A z \in ZoneId : izone[z].st = "runs" /\ izone[z].ok =>
       \A a \in izone[z].mmio :
         /\ Finds(z, a)
         /\ \E i \in DOMAIN izone[z].cfg :
              LET r == izone[z].cfg[i] IN
                /\ r.ct = a /\ r.id = ivc_id(z, a)
                /\ lowest(own_peer(z, r.id)) = r.peer /\ izone[z].gpm[r.id].rw = {r.peer}
=============================================================================

----------------------------- MODULE PageTable ------------------------------
(***************************************************************************)
(* A MemorySet (src/src/memory/mm.rs) over a page table of each             *)
(* architecture (src/src/arch, paging.rs): insert and map, drop, clear and  *)
(* unmap, query.                                                            *)
(*                                                                          *)
(* Addresses are page numbers.  A table has ENTRY_COUNT entries, and an     *)
(* entry of level l spans ENTRY_COUNT^(l-1) pages: with 512 these are the   *)
(* source's 4K, 2M and 1G.  The set is used by one CPU at a time (the       *)
(* zone's lock and the clonee lock), but the guest's MMU walks the tables   *)
(* at any moment, so one page, or one intermediate table, is one step.      *)
(***************************************************************************)
EXTENDS Integers, Pte

CONSTANTS ENTRY_COUNT, \* entries of a table
          Formats,     \* <<architecture, stage, levels>>
          NFrames,     \* frames the allocator has for the tables, the root included
          Region       \* regions callers insert: [start, size, paddr, flags]

\* The page tables hvisor has: HvPageTable, Level3PageTable, Level4PageTable (whose
\* stage 1 nothing uses).
PageTables == {<<"aarch64", s, l>> : s \in {1, 2}, l \in {3, 4}}
                \cup {<<"riscv64", s, 3>> : s \in {1, 2}} \cup {<<"loongarch64", 2, 4>>}

\* The sizes of a page and of what the entries of higher levels span.
PageSize(l) == LET E == ENTRY_COUNT IN <<1, E, E * E, E * E * E, E * E * E * E>>[l]

(* Regions lie within what the table reaches, and their entries look like   *)
(* neither an empty entry nor, on riscv64, a table.                         *)
ASSUME PageTableAssumption ==
  /\ ENTRY_COUNT \in Nat \ {0} /\ NFrames \in Nat \ {0}
  /\ Formats \subseteq PageTables
  /\ \A r \in Region : r.start \in Nat /\ r.size \in Nat /\ r.paddr \in Nat
  /\ \A r \in Region, f \in Formats :
       /\ r.start + r.size <= PageSize(f[3] + 1)
       /\ f[1] = "riscv64" => r.flags \cap {"READ", "WRITE", "EXECUTE"} # {}
       /\ f[1] = "loongarch64" /\ {"READ", "EXECUTE", "USER", "IO"} \subseteq r.flags
            => "WRITE" \in r.flags

VARIABLES fmt,      \* the format of this page table
          mem,      \* the frames: frame -> index -> entry
          used,     \* frames given to the page table: 0 .. used - 1, 0 the root
          regions,  \* the regions of the set
          ptjob,    \* the map or unmap in progress
          failed    \* regions whose insertion failed half-way

ptvars == <<fmt, mem, used, regions, ptjob, failed>>

Tables == 0 .. NFrames - 1
Index  == 0 .. ENTRY_COUNT - 1
Levels == fmt[3]
NPages == PageSize(5)                     \* what four levels reach
Base   == 2 * NPages                      \* the frames' addresses lie above the zone's memory
NoJob  == [op |-> "none"]
Lost   == [op |-> "lost"]

\* p4_index .. p1_index
index(l, v) == (v \div PageSize(l)) % ENTRY_COUNT
\* PageSize::is_aligned, page_offset, align_down
page_offset(l, a) == a % PageSize(l)
is_aligned(l, a) == page_offset(l, a) = 0
align_down(l, a) == a - page_offset(l, a)
\* Mapper::Offset: map_fn(v), from new_with_offset_mapper.
map_fn(r, v) == v - (r.start - r.paddr)

(* The root: new_zero elsewhere, and on riscv64 new_16, which gives back the*)
(* frame it has cleared and takes the first four free ones in a row.  If    *)
(* these do not begin with that frame the table is lost: neither cleared nor*)
(* aligned, and what map, clear and the MMU do with it is not followed.     *)
rootJobs == IF fmt[1] = "riscv64" THEN {NoJob, Lost} ELSE {NoJob}

TableInit == /\ fmt \in Formats
             /\ mem = [f \in Tables |-> [i \in Index |-> Empty]]
             /\ used = 1
             /\ regions = {} /\ ptjob \in rootJobs /\ failed = {}
-----------------------------------------------------------------------------
(* next_table_mut: "ok" when the entry leads to the table at its address.   *)
next_table_mut(e) == IF ~is_present(e, fmt) THEN "NotMapped"
                     ELSE IF is_huge(e, fmt) THEN "MappedToHugePage" ELSE "ok"

\* loongarch64 tests neither; an unused entry leads to the memory at address 0.
next_table_mut_loongarch64(e) == IF e.addr >= Base THEN "ok" ELSE "wild"

next_table(e) == IF fmt[1] = "loongarch64" THEN next_table_mut_loongarch64(e)
                                           ELSE next_table_mut(e)

(* A place is where a walk has come to: a table f of level l, with an       *)
(* error if it cannot go on.  The walks are those of a memory m: hvisor's   *)
(* and the MMU's are the same.                                              *)
Place == [res : {"ok", "NotMapped", "MappedToHugePage", "wild"}, f : Tables, l : 1 .. 4]
top   == [res |-> "ok", f |-> 0, l |-> Levels]
entry(m, p, v) == m[p.f][index(p.l, v)]
setEntry(p, v, pte) == mem' = [mem EXCEPT ![p.f][index(p.l, v)] = pte]

\* Into the table of the entry for v.
down(m, p, v) == LET e == entry(m, p, v) IN
  IF next_table(e) = "ok" THEN [res |-> "ok", f |-> e.addr - Base, l |-> p.l - 1]
                          ELSE [p EXCEPT !.res = next_table(e)]

\* A walk ends at level tl, and earlier at an unused entry or at a huge page,
\* below the top of four levels.
ends(m, p, v, tl, at) == LET e == entry(m, p, v) IN
  \/ p.res # "ok" \/ p.l = tl
  \/ at = "unused" /\ is_unused(e)
  \/ at = "huge" /\ p.l \in {2, 3} /\ is_huge(e, fmt)

\* Three steps lead through four levels.
go(m, v, tl, at) == [p \in Place |-> IF ends(m, p, v, tl, at) THEN p ELSE down(m, p, v)]
walk(m, v, tl, at) == LET step == go(m, v, tl, at) IN step[step[step[top]]]

get_entry_mut(m, v) == walk(m, v, 1, "huge")
get_entry_mut_riscv64(m, v) == walk(m, v, 1, "huge")
\* loongarch64 asks as well, though no entry of its is huge.
get_entry_mut_loongarch64(m, v) == walk(m, v, 1, "huge")
get_entry(m, v) == CASE fmt[1] = "aarch64" -> get_entry_mut(m, v)
                     [] fmt[1] = "riscv64" -> get_entry_mut_riscv64(m, v)
                     [] fmt[1] = "loongarch64" -> get_entry_mut_loongarch64(m, v)

\* get_entry_mut_or_create, up to the first entry without a table: creating
\* that table is a step of its own.
get_entry_mut_or_create(v, tl) == walk(mem, v, tl, "unused")
\* riscv64: a huge page loses the flag that forbids it.
get_entry_mut_or_create_riscv64(v, tl, flags) ==
  [w |-> get_entry_mut_or_create(v, tl), flags |-> IF tl > 1 THEN flags \ {"NO_HUGEPAGES"} ELSE flags]

query(v) ==
  LET w == get_entry(mem, v)  e == entry(mem, w, v) IN
    IF w.res # "ok" THEN [res |-> w.res]
    ELSE IF is_unused(e) THEN [res |-> "NotMapped"]
    ELSE [res |-> "ok", paddr |-> e.addr + page_offset(w.l, v),
          flags |-> flags_of(e, fmt), size |-> PageSize(w.l)]
-----------------------------------------------------------------------------
is_overlap_with(r, s) == ~(r.start + r.size <= s.start \/ r.start >= s.start + s.size)

(* test_free_area: the nearest region below and the nearest at or above.    *)
test_free_area(r) ==
  LET before == {s \in regions : s.start < r.start}
      after  == regions \ before
  IN /\ \A s \in before : (\A t \in before : t.start <= s.start) => ~is_overlap_with(s, r)
     /\ \A s \in after : (\A t \in after : t.start >= s.start) => ~is_overlap_with(s, r)

(* MemorySet::insert: a region of size zero, or one that overlaps, changes  *)
(* nothing.                                                                 *)
InsertRegion(r) ==
  /\ ptjob = NoJob
  /\ r.size > 0 /\ test_free_area(r)
  /\ ptjob' = [op |-> "map", r |-> r, vaddr |-> r.start, size |-> r.size]
  /\ UNCHANGED <<fmt, mem, used, regions, failed>>

\* Defect: the alignment of the host address is not looked at.
page_size_Vaddr(r, v, n) ==
  LET fits(l) == /\ is_aligned(l, v) /\ n >= PageSize(l)
                 /\ "NO_HUGEPAGES" \notin r.flags
  IN IF fits(3) THEN 3 ELSE IF fits(2) THEN 2 ELSE 1

\* Defect: what is left of the region is not looked at.
page_size_Whole(r, v, n) ==
  LET fits(l) == /\ is_aligned(l, v) /\ is_aligned(l, map_fn(r, v))
                 /\ "NO_HUGEPAGES" \notin r.flags
  IN IF fits(3) THEN 3 ELSE IF fits(2) THEN 2 ELSE 1

(* The page size for the next page of a map.                                *)
page_size(r, v, n) ==
  LET fits(l) == /\ is_aligned(l, v) /\ is_aligned(l, map_fn(r, v)) /\ n >= PageSize(l)
                 /\ "NO_HUGEPAGES" \notin r.flags
  IN IF fits(3) THEN 3 ELSE IF fits(2) THEN 2 ELSE 1

\* loongarch64: "now let's support STLB only"
page_size_loongarch64(r, v, n) == 1

\* next_table_mut_or_create at the entry w has come to: alloc_intrm_table.
next_table_mut_or_create(w) ==
  /\ used < NFrames
  /\ setEntry(w, ptjob.vaddr, set_table(fmt, Base + used))
  /\ used' = used + 1
  /\ UNCHANGED <<ptjob, regions, failed>>

\* One step of map for a page of level l, w being what the walk has come to.
mapStep(l, w, flags) ==
  LET v == ptjob.vaddr
      e == entry(mem, w, v)
  IN \/ w.res = "ok" /\ w.l # l /\ next_table_mut_or_create(w)
     \/ /\ w.res = "ok" /\ w.l = l /\ is_unused(e)
        /\ setEntry(w, v, set_flags(set_addr(Empty, align_down(l, map_fn(ptjob.r, v))), fmt, flags, l > 1))
        /\ ptjob' = [ptjob EXCEPT !.vaddr = v + PageSize(l), !.size = @ - PageSize(l)]
        /\ UNCHANGED <<used, regions, failed>>
     \/ \* NoMemory, MappedToHugePage, AlreadyMapped: insert returns before the
        \* region is recorded
        /\ \/ w.res = "ok" /\ w.l # l /\ used = NFrames
           \/ w.res # "ok"
           \/ w.res = "ok" /\ w.l = l /\ ~is_unused(e)
        /\ failed' = failed \cup {ptjob.r}
        /\ ptjob' = NoJob
        /\ UNCHANGED <<mem, used, regions>>

map_page(l) == mapStep(l, get_entry_mut_or_create(ptjob.vaddr, l), ptjob.r.flags)
map_page_riscv64(l) == LET g == get_entry_mut_or_create_riscv64(ptjob.vaddr, l, ptjob.r.flags)
                       IN mapStep(l, g.w, g.flags)
map_page_loongarch64(l) == mapStep(l, get_entry_mut_or_create(ptjob.vaddr, l), ptjob.r.flags)

Mapping(a) == ptjob.op = "map" /\ ptjob.size > 0 /\ fmt[1] = a /\ UNCHANGED fmt
map_aarch64 == /\ Mapping("aarch64")
               /\ map_page(page_size(ptjob.r, ptjob.vaddr, ptjob.size))
map_riscv64 == /\ Mapping("riscv64")
               /\ map_page_riscv64(page_size(ptjob.r, ptjob.vaddr, ptjob.size))
map_loongarch64 == /\ Mapping("loongarch64")
                   /\ map_page_loongarch64(page_size_loongarch64(ptjob.r, ptjob.vaddr, ptjob.size))

\* map returned Ok: the region is recorded.
Inserted ==
  /\ ptjob.op = "map" /\ ptjob.size = 0
  /\ regions' = regions \cup {ptjob.r}
  /\ ptjob' = NoJob
  /\ UNCHANGED <<fmt, mem, used, failed>>
-----------------------------------------------------------------------------
\* Regions in the order of their keys.
first(R) == CHOOSE r \in R : \A s \in R : r.start <= s.start

unmapJob(todo) == IF todo = {} THEN [op |-> "free"]
                  ELSE LET r == first(todo) IN
                    [op |-> "unmap", todo |-> todo \ {r}, vaddr |-> r.start, size |-> r.size]

(* Drop for MemorySet: clear unmaps every region ...                        *)
Drop == /\ ptjob = NoJob
        /\ ptjob' = unmapJob(regions)
        /\ UNCHANGED <<fmt, mem, used, regions, failed>>

\* Defect: the walk is not ended by a huge page.
unmap_page_Small(v) ==
  LET w == walk(mem, v, 1, "level") IN [w |-> w, ok |-> w.res = "ok" /\ ~is_unused(entry(mem, w, v))]

\* unmap_page: the entry to clear, if it is in use.
unmap_page(v) ==
  LET w == get_entry(mem, v) IN [w |-> w, ok |-> w.res = "ok" /\ ~is_unused(entry(mem, w, v))]

\* Panics: unwrap of an error, `assert!(page_size.is_aligned(vaddr))` (which a
\* `loop {}` precedes), `assert!(page_size as usize <= size)`.
unmap_panics == LET u == unmap_page(ptjob.vaddr) IN
                  \/ ~u.ok
                  \/ ~is_aligned(u.w.l, ptjob.vaddr)
                  \/ PageSize(u.w.l) > ptjob.size

\* One turn of unmap, for the architecture a.
unmapStep(a) ==
  /\ ptjob.op = "unmap" /\ ptjob.size > 0 /\ fmt[1] = a /\ ~unmap_panics
  /\ LET w == unmap_page(ptjob.vaddr).w IN
       /\ setEntry(w, ptjob.vaddr, Empty)
       /\ ptjob' = [ptjob EXCEPT !.vaddr = @ + PageSize(w.l), !.size = @ - PageSize(w.l)]
  /\ UNCHANGED <<fmt, used, regions, failed>>

unmap_aarch64     == unmapStep("aarch64")
unmap_riscv64     == unmapStep("riscv64")
unmap_loongarch64 == unmapStep("loongarch64")

UnmapNext == /\ ptjob.op = "unmap" /\ ptjob.size = 0
             /\ ptjob' = unmapJob(ptjob.todo)
             /\ UNCHANGED <<fmt, mem, used, regions, failed>>

(* ... then the frames are freed.  Another zone's set is made: new.         *)
Free == /\ ptjob.op \in {"free", "lost"}
        /\ mem' = [f \in Tables |-> [i \in Index |-> Empty]]
        /\ used' = 1
        /\ regions' = {} /\ ptjob' \in rootJobs /\ failed' = {}
        /\ UNCHANGED fmt

TableNext == \/ \E r \in Region : InsertRegion(r)
             \/ map_aarch64 \/ map_riscv64 \/ map_loongarch64 \/ Inserted
             \/ Drop \/ unmap_aarch64 \/ unmap_riscv64 \/ unmap_loongarch64 \/ UnmapNext \/ Free

TableSpec == TableInit /\ [][TableNext]_ptvars
-----------------------------------------------------------------------------
\* The host page the MMU finds for guest page v, or -1.
Translate(v) == LET w == get_entry(mem, v)  e == entry(mem, w, v) IN
  IF w.res # "ok" \/ is_unused(e) THEN -1 ELSE e.addr + page_offset(w.l, v)

Reach == PageSize(Levels + 1)

(* Every page of every region of the set translates to its own host page,   *)
(* with the permissions asked for, whatever sizes of pages map was free to  *)
(* choose and whatever was inserted before, in any order, or failed to be.  *)
TranslatesRegions ==
  ptjob.op \in {"none", "map"} =>
    \A r \in regions : \A v \in r.start .. r.start + r.size - 1 :
      LET q == query(v) IN
        /\ q.res = "ok"
        /\ q.paddr = map_fn(r, v)
        /\ q.flags \cap Carried(fmt) = r.flags \cap Carried(fmt)

(* Dropping a set never panics: each page found at the start of what is     *)
(* left of a region is aligned and no larger than what is left, also after  *)
(* insertions that failed half-way.                                         *)
ClearNeverPanics == ptjob.op = "unmap" /\ ptjob.size > 0 => ~unmap_panics

(* What the MMU may find besides: stage 2 on riscv64 has a root of four     *)
(* frames, for guest addresses four times as wide as the driver's, and      *)
(* nothing clears the other three.                                          *)
UpperPages == IF fmt[1] = "riscv64" /\ fmt[2] = 2 THEN Reach .. 4 * Reach - 1 ELSE {}
Unpromised == {v \in 0 .. NPages - 1 : ptjob = Lost \/ v \in UpperPages}

(* The table implements the flat map of AddressSpace: the MMU, walking it   *)
(* at any moment, sees a region's pages appear one by one, each at its own  *)
(* host page, and nothing else change.  On riscv64 this is said of the pages*)
(* of the root's first frame alone, and of no page of a table that is lost. *)
Flat == INSTANCE AddressSpace WITH
          space   <- [v \in 0 .. NPages - 1 |-> IF v \in Unpromised THEN -2
                                               ELSE IF v < Reach THEN Translate(v) ELSE -1],
          unknown <- Unpromised,
          granted <- regions,
          opened  <- IF ptjob.op = "map" THEN {ptjob.r} ELSE {}
\* As Flat!ASpec, with the steps that leave the table alone told apart first.
ImplementsAddressSpace ==
  Flat!AInit /\ [][UNCHANGED ptvars \/ [Flat!ANext]_(Flat!avars)]_ptvars
=============================================================================

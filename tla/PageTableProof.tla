--------------------------- MODULE PageTableProof ---------------------------
(***************************************************************************)
(* Proofs about PageTable, for every page table hvisor has, any number of   *)
(* entries and of frames, and any regions that satisfy PageTableAssumption. *)
(*                                                                          *)
(* The tables form a tree, and each is labelled with its level and with the *)
(* number of the page it is for.  The way of a page v is that of the tables *)
(* labelled for it, and a walk for v goes along this way to its end, at an  *)
(* empty entry or at a leaf.  A write of one entry at the end of a way, of  *)
(* a new table, of a leaf, or of Empty in place of a leaf, thus changes     *)
(* what is found for the pages of this one entry, and for no other page.    *)
(* With this map and unmap are about intervals of pages alone: the leaves   *)
(* of a region lie within it, regions are apart, and what map has yet to    *)
(* write, or unmap to clear, begins with a whole page.                      *)
(***************************************************************************)
EXTENDS PageTable, WellFoundedInduction, TLAPS

Span == 0 .. Reach - 1                  \* the pages the table reaches
pg(l, v) == v \div PageSize(l)          \* the number of v's page of level l

(* The entry for region r and the page of level l that starts at v.         *)
PteOf(r, l, v) == set_flags([addr |-> map_fn(r, v), attr |-> {}], fmt, r.flags, l > 1)

(* An entry that a walk does not lead past: on riscv64 and aarch64 a huge   *)
(* one above the last level, on loongarch64 none there.                     *)
IsLeaf(e, l) == e # Empty /\ l < 4 /\ (l > 1 => is_present(e, fmt) /\ is_huge(e, fmt))

(* The tables are a tree.  Table f is labelled with its level and with the  *)
(* number of the page it is for, a page of the next level.                  *)
Below(m, lab, f, i, g) == /\ m[f][i] = set_table(fmt, Base + g)
                          /\ lab[f].l = lab[g].l + 1 /\ lab[f].n = lab[g].n \div ENTRY_COUNT
                          /\ i = lab[g].n % ENTRY_COUNT
Tree(m, u, lab) ==
  /\ lab \in [Tables -> [l : 1 .. Levels, n : Nat]]
  /\ lab[0] = [l |-> Levels, n |-> 0]
  /\ \A f \in Tables, i \in Index :
       \/ m[f][i] = Empty
       \/ f < u /\ IsLeaf(m[f][i], lab[f].l)
       \/ f < u /\ \E g \in 1 .. u - 1 : Below(m, lab, f, i, g)
  /\ \A g \in 1 .. u - 1 : \E f \in 0 .. u - 1, i \in Index : Below(m, lab, f, i, g)

(* Place p is on the way to page v.                                         *)
OnWay(u, lab, p, v) ==
  p \in Place /\ p.f < u /\ lab[p.f] = [l |-> p.l, n |-> pg(p.l + 1, v)]

(* The walk for v goes no further: at an empty entry, or at a leaf.         *)
Final(m, p, v) == LET e == entry(m, p, v) IN e = Empty \/ (p.res = "ok" /\ IsLeaf(e, p.l))

(* Table f is one that the way of v leads through, and p is it.             *)
For(u, lab, f, v) == f \in 0 .. u - 1 /\ lab[f].n = pg(lab[f].l + 1, v)
At(u, lab, p, f, v) == OnWay(u, lab, p, v) /\ p.res = "ok" /\ p.f = f /\ p.l = lab[f].l

(* Memory m with one entry written, and m2 as m but for that entry.          *)
Written(m, f, i, e) == [m EXCEPT ![f][i] = e]
OnlyAt(m, m2, f0, i0) == \A f \in Tables, i \in Index : f # f0 \/ i # i0 => m2[f][i] = m[f][i]

(* The labels when table g is made for the page of p that holds v, and that *)
(* the tables in use keep theirs.                                           *)
Labelled(lab, g, p, v) == [lab EXCEPT ![g] = [l |-> p.l - 1, n |-> pg(p.l, v)]]
SameLabels(u, lab, lab2) == \A f \in 0 .. u - 1 : lab2[f] = lab[f]

(* What one step of a walk, from p to q, does.                              *)
Stepped(m, u, lab, v, tl, at, p, q) ==
  /\ OnWay(u, lab, q, v) /\ tl <= q.l
  /\ \/ q = p /\ ends(m, p, v, tl, at)
     \/ q.f = p.f /\ q.l = p.l /\ p.res = "ok" /\ q.res # "ok" /\ entry(m, p, v) = Empty
     \/ q.f = p.f /\ q.l = p.l /\ p.res = "ok" /\ q.res # "ok" /\ IsLeaf(entry(m, p, v), p.l)
     \/ /\ q.l = p.l - 1 /\ q.res = "ok" /\ p.res = "ok" /\ p.l > 1
        /\ \E g \in 1 .. u - 1 : q.f = g /\ Below(m, lab, p.f, index(p.l, v), g)

(* The frames of the page table.                                            *)
IsMem(m) == m = [f \in Tables |-> [i \in Index |-> m[f][i]]]

(* Page v of region r is mapped, by an entry whose page lies within lo to   *)
(* hi - 1; all of these are.                                                *)
PageMapped(m, r, lo, hi, v) ==
  LET w == get_entry(m, v)  s == align_down(w.l, v) IN
    /\ w.res = "ok" /\ w.l < 4
    /\ entry(m, w, v) = PteOf(r, w.l, s)
    /\ lo <= s /\ s + PageSize(w.l) <= hi

MappedAs(m, r, lo, hi) ==
  \A v \in lo .. hi - 1 : PageMapped(m, r, lo, hi, v)

(* The host page at v, in memory m.                                         *)
Host(m, v) == LET w == get_entry(m, v)  e == entry(m, w, v) IN
  IF w.res # "ok" \/ is_unused(e) THEN -1 ELSE e.addr + page_offset(w.l, v)

(* The entry for v is the same in two memories, or is empty in both.        *)
SameEntry(m, m2, v) ==
  LET w == get_entry(m, v)  w2 == get_entry(m2, v) IN
    \/ w2.l = w.l /\ entry(m2, w2, v) = entry(m, w, v)
    \/ entry(m2, w2, v) = Empty /\ entry(m, w, v) = Empty

(* Page v is mapped in m2 as it was in m.                                   *)
Kept(m, m2, v) ==
  /\ Host(m2, v) = Host(m, v)
  /\ \A r \in Region : \A lo, hi : PageMapped(m, r, lo, hi, v) => PageMapped(m2, r, lo, hi, v)

(* Memory m2 is a tree in which e is found for all of the page of p that    *)
(* holds v, and what was found in m elsewhere.                              *)
OnlyPageIs(m, m2, u, lab, p, v, e) ==
  /\ IsMem(m2) /\ Tree(m2, u, lab)
  /\ \A x \in Span : pg(p.l, x) # pg(p.l, v) => Kept(m, m2, x)
  /\ \A x \in Span : pg(p.l, x) = pg(p.l, v) =>
       LET w == get_entry(m2, x) IN
       w.l = p.l /\ entry(m2, w, x) = e /\ (e # Empty => w.res = "ok")

(* Regions that share no page.                                              *)
End(r) == r.start + r.size
Apart(r, s) == End(r) <= s.start \/ End(s) <= r.start

-----------------------------------------------------------------------------
(* The invariant: what the set and its table are,                           *)
TableShape ==
  /\ fmt \in Formats
  /\ IsMem(mem)
  /\ used \in 1 .. NFrames
  /\ regions \subseteq Region
  /\ \A r \in regions : r.size > 0 /\ \A s \in regions \ {r} : Apart(r, s)

(* how far map has come: the pages below vaddr are mapped, by leaves within *)
(* the region,                                                              *)
MapJob ==
  ptjob.op = "map" =>
    /\ ptjob = [op |-> "map", r |-> ptjob.r, vaddr |-> ptjob.vaddr, size |-> ptjob.size]
    /\ ptjob.r \in Region /\ ptjob.r.size > 0
    /\ \A s \in regions : Apart(ptjob.r, s)
    /\ ptjob.vaddr \in Nat /\ ptjob.size \in Nat
    /\ ptjob.r.start <= ptjob.vaddr /\ ptjob.vaddr + ptjob.size = End(ptjob.r)
    /\ MappedAs(mem, ptjob.r, ptjob.r.start, ptjob.vaddr)

(* how far clear has come: the pages from vaddr on are still mapped, and    *)
(* so are the regions to come,                                              *)
UnmapJob ==
  ptjob.op = "unmap" =>
    /\ ptjob = [op |-> "unmap", todo |-> ptjob.todo, vaddr |-> ptjob.vaddr, size |-> ptjob.size]
    /\ ptjob.todo \subseteq regions
    /\ \A s \in ptjob.todo : MappedAs(mem, s, s.start, End(s))
    /\ ptjob.vaddr \in Nat /\ ptjob.size \in Nat
    /\ \E r \in regions \ ptjob.todo :
         /\ r.start <= ptjob.vaddr /\ ptjob.vaddr + ptjob.size = End(r)
         /\ MappedAs(mem, r, ptjob.vaddr, End(r))

(* what the set promises, of every region,                                  *)
Held == ptjob.op \in {"none", "map"} => \A r \in regions : MappedAs(mem, r, r.start, End(r))

JobIs == /\ ptjob.op \in {"none", "map", "unmap", "free", "lost"}
         /\ (ptjob.op = "none" => ptjob = NoJob) /\ (ptjob.op = "lost" => ptjob = Lost)

(* and that the tables form a tree.                                         *)
TableInv == /\ TableShape /\ JobIs /\ MapJob /\ UnmapJob /\ Held
            /\ \E lab : Tree(mem, used, lab)

(* What a step of map or unmap does to the memory, and to the job: a new    *)
(* table, a leaf of level l, the failure of the insertion, a page cleared.  *)
Page(l) == ptjob.vaddr .. ptjob.vaddr + PageSize(l) - 1

TableStep ==
  /\ ptjob.op = "map" /\ UNCHANGED <<fmt, ptjob, regions>>
  /\ used' \in 1 .. NFrames /\ IsMem(mem') /\ \E lab : Tree(mem', used', lab)
  /\ \A x \in Span : Kept(mem, mem', x)

LeafStep(l) ==
  /\ ptjob.op = "map" /\ PageSize(l) <= ptjob.size /\ UNCHANGED <<fmt, used, regions>>
  /\ ptjob' = [ptjob EXCEPT !.vaddr = ptjob.vaddr + PageSize(l), !.size = ptjob.size - PageSize(l)]
  /\ IsMem(mem') /\ \E lab : Tree(mem', used, lab)
  /\ \A x \in Span : x \in Page(l) =>
       /\ Host(mem, x) = -1 /\ Host(mem', x) = map_fn(ptjob.r, x)
       /\ \A lo, hi : lo <= ptjob.vaddr /\ ptjob.vaddr + PageSize(l) <= hi
            => PageMapped(mem', ptjob.r, lo, hi, x)
  /\ \A x \in Span : x \notin Page(l) => Kept(mem, mem', x)

FailStep == ptjob.op = "map" /\ ptjob' = NoJob /\ UNCHANGED <<fmt, mem, used, regions>>

ClearStep(l) ==
  /\ ptjob.op = "unmap" /\ PageSize(l) <= ptjob.size /\ UNCHANGED <<fmt, used, regions>>
  /\ l = get_entry(mem, ptjob.vaddr).l
  /\ ptjob' = [ptjob EXCEPT !.vaddr = ptjob.vaddr + PageSize(l), !.size = ptjob.size - PageSize(l)]
  /\ IsMem(mem') /\ \E lab : Tree(mem', used, lab)
  /\ \A x \in Span : x \in Page(l) => Host(mem', x) = -1
  /\ \A x \in Span : x \notin Page(l) => Kept(mem, mem', x)

(* The abstract address space of AddressSpace.                              *)
Space  == [v \in 0 .. NPages - 1 |-> IF v \in Unpromised THEN -2
                                     ELSE IF v < Reach THEN Translate(v) ELSE -1]
\* What it has of a page that the driver's table does not reach.
Beyond(v) == IF v \in UpperPages THEN -2 ELSE -1
Opened == IF ptjob.op = "map" THEN {ptjob.r} ELSE {}

-----------------------------------------------------------------------------
(* Pages                                                                    *)

(* Division with remainder, as is_aligned, page_offset and pN_index use it. *)
LEMMA DivMod ==
  ASSUME NEW a \in Nat, NEW b \in Nat \ {0}
  PROVE  /\ a \div b \in Nat /\ a % b \in 0 .. b - 1
         /\ a = b * (a \div b) + (a % b)
OBVIOUS

(* The quotient and the remainder are the only ones.                        *)
LEMMA DivModIs ==
  ASSUME NEW b \in Nat \ {0}, NEW q \in Nat, NEW r \in 0 .. b - 1
  PROVE  (b * q + r) \div b = q /\ (b * q + r) % b = r
OBVIOUS

(* A page of the next level is ENTRY_COUNT pages.                           *)
LEMMA PageSizes ==
  ASSUME NEW l \in 1 .. 4
  PROVE  /\ PageSize(l) \in Nat \ {0} /\ PageSize(l + 1) \in Nat \ {0}
         /\ PageSize(l + 1) = PageSize(l) * ENTRY_COUNT
         /\ PageSize(1) = 1
<1> DEFINE E == ENTRY_COUNT
<1>1. E \in Nat \ {0}
  BY PageTableAssumption
<1>2. /\ PageSize(1) = 1 /\ PageSize(2) = E /\ PageSize(3) = E * E
      /\ PageSize(4) = E * E * E /\ PageSize(5) = E * E * E * E
  BY DEF PageSize
<1>3. E * E \in Nat \ {0} /\ E * E * E \in Nat \ {0} /\ E * E * E * E \in Nat \ {0}
  <2>1. \A a, b \in Nat \ {0} : a * b \in Nat \ {0}
    OBVIOUS
  <2> QED
    BY <1>1, <2>1
<1>4. l = 1 \/ l = 2 \/ l = 3 \/ l = 4
  OBVIOUS
<1> QED
  BY <1>1, <1>2, <1>3, <1>4

(* The number of a page's page at the next level, and its entry there.      *)
LEMMA PageNumbers ==
  ASSUME NEW l \in 1 .. 4, NEW v \in Nat
  PROVE  /\ pg(l, v) \in Nat /\ index(l, v) \in Index
         /\ index(l, v) = pg(l, v) % ENTRY_COUNT
         /\ pg(l + 1, v) = pg(l, v) \div ENTRY_COUNT
<1> DEFINE E == ENTRY_COUNT  s == PageSize(l)  p == v \div s  r == v % s
           q == p \div E  i == p % E
<1>1. E \in Nat \ {0} /\ s \in Nat \ {0}
  BY PageSizes, PageTableAssumption
<1>2. p \in Nat /\ r \in 0 .. s - 1 /\ v = s * p + r
  BY <1>1, DivMod
<1>3. q \in Nat /\ i \in 0 .. E - 1 /\ p = E * q + i
  <2> HIDE DEF p
  <2> QED
    BY <1>1, <1>2, DivMod
<1>4. v = (s * E) * q + (s * i + r) /\ s * i + r \in 0 .. s * E - 1
  <2> HIDE DEF p, q, i, r, s, E
  <2>1. s * p = s * (E * q) + s * i
    BY <1>1, <1>2, <1>3
  <2>2. s * (E * q) = (s * E) * q
    BY <1>1, <1>2, <1>3
  <2>3. s * i + s <= s * E /\ s * i \in Nat /\ s * E \in Nat
    <3>1. i + 1 <= E /\ i \in Nat
      BY <1>1, <1>3
    <3>2. s * (i + 1) <= s * E
      BY <1>1, <3>1
    <3> QED
      BY <1>1, <3>1, <3>2
  <2> QED
    BY <1>1, <1>2, <1>3, <2>1, <2>2, <2>3
<1>5. v \div (s * E) = q
  <2>1. s * E \in Nat \ {0}
    BY <1>1
  <2> HIDE DEF p, q, i, r, s, E
  <2> QED
    BY <1>3, <1>4, <2>1, DivModIs
<1>6. PageSize(l + 1) = s * E
  BY PageSizes
<1> QED
  BY <1>2, <1>3, <1>5, <1>6 DEF pg, index, Index

(* A page is its entry and its page of the next level.                      *)
LEMMA PageIs ==
  ASSUME NEW a \in Nat, NEW b \in Nat, a % ENTRY_COUNT = b % ENTRY_COUNT,
         a \div ENTRY_COUNT = b \div ENTRY_COUNT
  PROVE  a = b
BY DivMod, PageTableAssumption

(* The start of the page of v, and the pages that are in the same one.      *)
LEMMA Aligned ==
  ASSUME NEW l \in 1 .. 4, NEW v \in Nat
  PROVE  /\ align_down(l, v) \in Nat /\ is_aligned(l, align_down(l, v))
         /\ align_down(l, v) <= v /\ v < align_down(l, v) + PageSize(l)
         /\ page_offset(l, v) = v - align_down(l, v)
<1> DEFINE s == PageSize(l)  p == v \div s  r == v % s
<1>1. s \in Nat \ {0}
  BY PageSizes
<1>2. p \in Nat /\ r \in 0 .. s - 1 /\ v = s * p + r
  BY <1>1, DivMod
<1>3. s * p \in Nat /\ v - r = s * p
  <2> HIDE DEF p, r, s
  <2> QED
    BY <1>1, <1>2
<1>4. (s * p) % s = 0
  <2> HIDE DEF p, r, s
  <2>1. 0 \in 0 .. s - 1 /\ s * p + 0 = s * p
    BY <1>1, <1>3
  <2>2. (s * p + 0) % s = 0
    BY <1>1, <1>2, <2>1, DivModIs
  <2> QED
    BY <2>1, <2>2
<1>5. align_down(l, v) = v - r /\ page_offset(l, v) = r
  BY DEF align_down, page_offset
<1>6. is_aligned(l, v - r)
  BY <1>3, <1>4 DEF is_aligned, page_offset
<1>7. v - r \in Nat /\ v - r <= v /\ v < (v - r) + s /\ r = v - (v - r)
  <2> HIDE DEF p, r, s
  <2> QED
    BY <1>1, <1>2, <1>3
<1> QED
  BY <1>5, <1>6, <1>7

(* The pages of the page that starts at a: those that align_down takes to   *)
(* a.                                                                       *)
LEMMA SamePage ==
  ASSUME NEW l \in 1 .. 4, NEW a \in Nat, is_aligned(l, a), NEW v \in Nat
  PROVE  /\ pg(l, v) = pg(l, a) <=> v \in a .. a + PageSize(l) - 1
         /\ pg(l, v) = pg(l, a) <=> align_down(l, v) = a
<1> DEFINE s == PageSize(l)  p == v \div s  r == v % s  q == a \div s
<1>1. s \in Nat \ {0}
  BY PageSizes
<1>2. p \in Nat /\ r \in 0 .. s - 1 /\ v = s * p + r
  BY <1>1, DivMod
<1>3. q \in Nat /\ a = s * q
  <2>1. a % s = 0
    BY DEF is_aligned, page_offset
  <2>2. q \in Nat /\ a = s * q + (a % s)
    <3> HIDE DEF s
    <3> QED
      BY <1>1, DivMod
  <2>3. s * q \in Nat
    <3> HIDE DEF s, q
    <3> QED
      BY <1>1, <2>2
  <2> QED
    BY <2>1, <2>2, <2>3
<1>4. p = q => r = v - a
  BY <1>1, <1>2, <1>3
<1>5. p < q => s * p + s <= s * q
  <2> HIDE DEF p, q, s
  <2>1. p < q => p + 1 <= q
    BY <1>2, <1>3
  <2>2. p < q => s * (p + 1) <= s * q
    BY <1>1, <1>2, <1>3, <2>1
  <2> QED
    BY <1>1, <1>2, <1>3, <2>2
<1>6. q < p => s * q + s <= s * p
  <2> HIDE DEF p, q, s
  <2>1. q < p => q + 1 <= p
    BY <1>2, <1>3
  <2>2. q < p => s * (q + 1) <= s * p
    BY <1>1, <1>2, <1>3, <2>1
  <2> QED
    BY <1>1, <1>2, <1>3, <2>2
<1>7. p = q <=> v \in a .. a + s - 1
  <2> HIDE DEF p, q, s, r
  <2>0. s * p \in Nat /\ s * q \in Nat
    BY <1>1, <1>2, <1>3
  <2> QED
    BY <1>1, <1>2, <1>3, <1>4, <1>5, <1>6, <2>0
<1>8. p = q <=> v - r = a
  <2> HIDE DEF p, q, s, r
  <2>0. s * p \in Nat /\ s * q \in Nat
    BY <1>1, <1>2, <1>3
  <2> QED
    BY <1>1, <1>2, <1>3, <1>4, <1>5, <1>6, <2>0
<1> QED
  BY <1>7, <1>8 DEF pg, align_down, page_offset

(* All pages that a table reaches are in one page of the level above it.    *)
LEMMA RootPage == ASSUME NEW l \in 1 .. 5, NEW v \in 0 .. PageSize(l) - 1 PROVE pg(l, v) = 0
<1>1. PageSize(l) \in Nat \ {0}
  BY PageSizes
<1>2. (PageSize(l) * 0 + v) \div PageSize(l) = 0
  BY <1>1, DivModIs
<1> QED
  BY <1>1, <1>2 DEF pg

-----------------------------------------------------------------------------
(* Entries                                                                  *)

(* The page tables hvisor has: their levels, architectures and stages.      *)
LEMMA FormatIs ==
  ASSUME fmt \in Formats
  PROVE  /\ Levels \in {3, 4}
         /\ \/ fmt[1] = "aarch64" /\ fmt[2] \in {1, 2}
            \/ fmt[1] = "riscv64" /\ fmt[2] \in {1, 2}
            \/ fmt[1] = "loongarch64" /\ fmt[2] = 2
<1>1. fmt \in PageTables
  BY PageTableAssumption
<1>2. \/ \E s \in {1, 2}, l \in {3, 4} : fmt = <<"aarch64", s, l>>
      \/ \E s \in {1, 2} : fmt = <<"riscv64", s, 3>>
      \/ fmt = <<"loongarch64", 2, 4>>
  BY <1>1 DEF PageTables
<1> QED
  BY <1>2 DEF Levels

(* No table is at address 0, where the walk of loongarch64 takes an unused  *)
(* entry to lead.                                                           *)
LEMMA BaseIs == Base \in Nat /\ Base > 0
BY PageSizes DEF Base, NPages

(* An entry that points to a table is told apart from all others.           *)
LEMMA TableEntry ==
  ASSUME fmt \in Formats, NEW g \in Tables
  PROVE  LET e == set_table(fmt, Base + g) IN
         /\ e.addr - Base = g /\ e # Empty
         /\ next_table(e) = "ok" /\ ~is_huge(e, fmt)
         /\ \A l \in 2 .. 4 : ~IsLeaf(e, l)
         /\ \A h \in Tables : e = set_table(fmt, Base + h) => g = h
<1> DEFINE e == set_table(fmt, Base + g)
<1>0. Base \in Nat /\ g \in Nat
  BY BaseIs DEF Tables
<1>1. e.addr = Base + g
  BY DEF set_table
<1>2. e.addr # 0 /\ e # Empty
  BY <1>0, <1>1, BaseIs DEF Empty
<1>3. ~is_huge(e, fmt)
  BY FormatIs DEF set_table, is_huge, is_huge_aarch64, is_huge_riscv64, set_table_aarch64, set_table_riscv64
<1>4. next_table(e) = "ok"
  <2>1. CASE fmt[1] = "loongarch64"
    BY <1>0, <1>1, <2>1 DEF next_table, next_table_mut_loongarch64
  <2>2. CASE fmt[1] # "loongarch64"
    <3>1. "VALID" \in e.attr
      BY <2>2, FormatIs DEF set_table, set_table_aarch64, set_table_riscv64
    <3> QED
      BY <1>3, <2>2, <3>1 DEF next_table, next_table_mut, is_present
  <2> QED
    BY <2>1, <2>2
<1>5. \A h \in Tables : e = set_table(fmt, Base + h) => g = h
  <2> SUFFICES ASSUME NEW h \in Tables, e = set_table(fmt, Base + h) PROVE g = h
    OBVIOUS
  <2>1. e.addr = Base + h
    BY DEF set_table
  <2> QED
    BY <1>0, <1>1, <2>1 DEF Tables
<1> QED
  BY <1>0, <1>1, <1>2, <1>3, <1>4, <1>5 DEF IsLeaf

(* A walk does not lead through an empty entry, nor through a leaf.         *)
LEMMA EndEntry ==
  ASSUME fmt \in Formats
  PROVE  /\ next_table(Empty) \in {"NotMapped", "wild"}
         /\ \A e : \A l \in 2 .. 4 : IsLeaf(e, l) => next_table(e) = "MappedToHugePage" /\ is_huge(e, fmt)
<1>1. next_table(Empty) \in {"NotMapped", "wild"}
  BY BaseIs DEF next_table, next_table_mut, next_table_mut_loongarch64, is_present, Empty
<1>2. \A e : \A l \in 2 .. 4 : IsLeaf(e, l) => next_table(e) = "MappedToHugePage" /\ is_huge(e, fmt)
  <2> SUFFICES ASSUME NEW e, NEW l \in 2 .. 4, IsLeaf(e, l)
               PROVE  next_table(e) = "MappedToHugePage" /\ is_huge(e, fmt)
    OBVIOUS
  <2>1. is_present(e, fmt) /\ is_huge(e, fmt)
    BY DEF IsLeaf
  <2>2. fmt[1] # "loongarch64"
    BY <2>1 DEF is_huge
  <2> QED
    BY <2>1, <2>2 DEF next_table, next_table_mut
<1> QED
  BY <1>1, <1>2

(* What map writes for a page: a leaf, at the page's own address, with the  *)
(* permissions of the region.                                               *)
LEMMA PteIs ==
  ASSUME fmt \in Formats, NEW r \in Region, NEW l \in 1 .. 3, NEW v
  PROVE  LET e == PteOf(r, l, v) IN
         /\ e # Empty /\ e.addr = map_fn(r, v)
         /\ (fmt[1] = "loongarch64" => l = 1) => IsLeaf(e, l)
         /\ flags_of(e, fmt) \cap Carried(fmt) = r.flags \cap Carried(fmt)
<1> DEFINE e == PteOf(r, l, v)  a == map_fn(r, v)  F == r.flags
<1>1. CASE fmt[1] = "aarch64" /\ fmt[2] = 2
  <2>1. e = [addr |-> a, attr |-> attr_aarch64_s2(F) \cup (IF l > 1 THEN {} ELSE {"NON_BLOCK"})]
    BY <1>1 DEF PteOf, set_flags, set_flags_aarch64_s2
  <2>2. "VALID" \in e.attr /\ (l > 1 => "NON_BLOCK" \notin e.attr)
    BY <2>1 DEF attr_aarch64_s2, from_mem_type, when
  <2>3. /\ "S2AP_R" \in e.attr <=> "READ" \in F
        /\ "S2AP_W" \in e.attr <=> "WRITE" \in F
        /\ "Device" \in e.attr <=> "IO" \in F
    BY <2>1 DEF attr_aarch64_s2, from_mem_type, when
  <2>4. flags_of(e, fmt) \cap Carried(fmt) = F \cap Carried(fmt)
    BY <1>1, <2>2, <2>3 DEF flags_of, flags_aarch64_s2, Carried, when
  <2> QED
    BY <1>1, <2>1, <2>2, <2>4 DEF IsLeaf, Empty, is_present, is_huge, is_huge_aarch64
<1>2. CASE fmt[1] = "aarch64" /\ fmt[2] = 1
  <2>1. e = [addr |-> a, attr |-> attr_aarch64_s1(F) \cup (IF l > 1 THEN {} ELSE {"NON_BLOCK"})]
    BY <1>2 DEF PteOf, set_flags, set_flags_aarch64_s1
  <2>2. "VALID" \in e.attr /\ (l > 1 => "NON_BLOCK" \notin e.attr)
    BY <2>1 DEF attr_aarch64_s1, from_mem_type, when, unless
  <2>3. /\ "AP_EL0" \in e.attr <=> "READ" \in F
        /\ "AP_RO" \notin e.attr <=> "WRITE" \in F
        /\ "Device" \in e.attr <=> "IO" \in F
    BY <2>1 DEF attr_aarch64_s1, from_mem_type, when, unless
  <2>4. flags_of(e, fmt) \cap Carried(fmt) = F \cap Carried(fmt)
    BY <1>2, <2>2, <2>3 DEF flags_of, flags_aarch64_s1, Carried, when, unless
  <2> QED
    BY <1>2, <2>1, <2>2, <2>4 DEF IsLeaf, Empty, is_present, is_huge, is_huge_aarch64
<1>3. CASE fmt[1] = "riscv64"
  <2> DEFINE S == {m[2] : m \in {n \in rwxu : n[1] \in F}}
  <2>0. e.addr = a /\ (e.attr = {"VALID", "USER"} \cup S \/ e.attr = {"VALID"} \cup S)
    BY <1>3, FormatIs DEF PteOf, set_flags, set_flags_riscv64_s2, set_flags_riscv64_s1,
                          attr_riscv64_s2, attr_riscv64_s1
  <2>a. /\ "READABLE" \in S <=> "READ" \in F
        /\ "WRITABLE" \in S <=> "WRITE" \in F
        /\ "EXECUTABLE" \in S <=> "EXECUTE" \in F
    <3>1. \A x : x \in S <=> \E n \in rwxu : n[1] \in F /\ x = n[2]
      OBVIOUS
    <3> HIDE DEF S
    <3> QED
      BY <3>1 DEF rwxu
  <2>1. /\ e.addr = a /\ "VALID" \in e.attr
        /\ "READABLE" \in e.attr <=> "READ" \in F
        /\ "WRITABLE" \in e.attr <=> "WRITE" \in F
        /\ "EXECUTABLE" \in e.attr <=> "EXECUTE" \in F
    <3> HIDE DEF S
    <3> QED
      BY <2>0, <2>a
  <2>2. F \cap {"READ", "WRITE", "EXECUTE"} # {}
    BY <1>3, PageTableAssumption
  <2>3. is_huge(e, fmt)
    BY <1>3, <2>1, <2>2 DEF is_huge, is_huge_riscv64
  <2>4. flags_of(e, fmt) \cap Carried(fmt) = F \cap Carried(fmt)
    <3>1. flags_of(e, fmt) = {m[1] : m \in {n \in rwxu : n[2] \in e.attr}}
      BY <1>3, <2>1 DEF flags_of, flags_riscv64
    <3>2. \A x : x \in flags_of(e, fmt) <=> \E n \in rwxu : n[2] \in e.attr /\ x = n[1]
      BY <3>1
    <3>3. /\ "READ" \in flags_of(e, fmt) <=> "READABLE" \in e.attr
          /\ "WRITE" \in flags_of(e, fmt) <=> "WRITABLE" \in e.attr
          /\ "EXECUTE" \in flags_of(e, fmt) <=> "EXECUTABLE" \in e.attr
      <4> HIDE DEF e
      <4> QED
        BY <3>2 DEF rwxu
    <3> QED
      BY <1>3, <2>1, <3>3 DEF Carried
  <2> QED
    BY <1>3, <2>1, <2>3, <2>4 DEF IsLeaf, Empty, is_present
<1>4. CASE fmt[1] = "loongarch64"
  <2>1. fmt[2] = 2
    BY <1>4, FormatIs
  <2>2. e = [addr |-> a, attr |-> attr_loongarch64_s2(F)]
    BY <1>4, <2>1 DEF PteOf, set_flags, set_flags_loongarch64_s2
  <2>3. /\ "W" \in e.attr <=> "WRITE" \in F
        /\ "NR" \notin e.attr <=> "READ" \in F
        /\ "NX" \notin e.attr <=> "EXECUTE" \in F
        /\ "V" \notin e.attr <=> "USER" \in F
        /\ "MAT_CC" \notin e.attr <=> "IO" \in F
    BY <2>2 DEF attr_loongarch64_s2, when, unless
  <2>4. {"READ", "EXECUTE", "USER", "IO"} \subseteq F => "WRITE" \in F
    BY <1>4, PageTableAssumption
  <2>5. e.attr # {}
    BY <2>3, <2>4
  <2>6. flags_of(e, fmt) \cap Carried(fmt) = F \cap Carried(fmt)
    BY <1>4, <2>3 DEF flags_of, flags_loongarch64, Carried, when, unless
  <2> QED
    BY <1>4, <2>1, <2>2, <2>5, <2>6 DEF IsLeaf, Empty
<1> QED
  BY <1>1, <1>2, <1>3, <1>4, FormatIs

-----------------------------------------------------------------------------
(* Walks                                                                    *)

(* The entry of a table on the way of v leads to the next one, if to any.   *)
LEMMA OnTheWay ==
  ASSUME fmt \in Formats, NEW m, NEW u \in 1 .. NFrames, NEW lab, Tree(m, u, lab),
         NEW v \in Nat, NEW p, OnWay(u, lab, p, v)
  PROVE  LET i == index(p.l, v) IN
         /\ p.l \in 1 .. Levels /\ i \in Index /\ p.f \in 0 .. u - 1
         /\ \/ m[p.f][i] = Empty
            \/ IsLeaf(m[p.f][i], p.l)
            \/ \E g \in 1 .. u - 1 : /\ Below(m, lab, p.f, i, g)
                                     /\ p.l > 1 /\ lab[g] = [l |-> p.l - 1, n |-> pg(p.l, v)]
<1> DEFINE i == index(p.l, v)
<1>1. p.f \in Tables /\ p.l \in 1 .. 4 /\ lab[p.f] = [l |-> p.l, n |-> pg(p.l + 1, v)] /\ p.f < u
  BY DEF OnWay, Place
<1>2. lab[p.f] \in [l : 1 .. Levels, n : Nat]
  BY <1>1 DEF Tree
<1>3. p.l \in 1 .. Levels
  BY <1>1, <1>2
<1>4. /\ i \in Index /\ i = pg(p.l, v) % ENTRY_COUNT /\ pg(p.l, v) \in Nat
      /\ pg(p.l + 1, v) = pg(p.l, v) \div ENTRY_COUNT
  BY <1>1, PageNumbers
<1>5. \/ m[p.f][i] = Empty
      \/ IsLeaf(m[p.f][i], lab[p.f].l)
      \/ \E g \in 1 .. u - 1 : Below(m, lab, p.f, i, g)
  BY <1>1, <1>4 DEF Tree
<1>6. ASSUME NEW g \in 1 .. u - 1, Below(m, lab, p.f, i, g)
      PROVE  p.l > 1 /\ lab[g] = [l |-> p.l - 1, n |-> pg(p.l, v)]
  <2>1. g \in Tables
    BY PageTableAssumption DEF Tables
  <2>2. lab[g] \in [l : 1 .. Levels, n : Nat]
    BY <2>1 DEF Tree
  <2>3. p.l = lab[g].l + 1 /\ pg(p.l + 1, v) = lab[g].n \div ENTRY_COUNT /\ i = lab[g].n % ENTRY_COUNT
    BY <1>1, <1>6 DEF Below
  <2>4. lab[g].n = pg(p.l, v)
    BY <1>4, <2>2, <2>3, PageIs
  <2>5. Levels \in Nat
    BY FormatIs
  <2> QED
    BY <1>3, <2>2, <2>3, <2>4, <2>5
<1>7. p.f \in 0 .. u - 1
  BY <1>1 DEF Tables
<1> QED
  BY <1>1, <1>3, <1>4, <1>5, <1>6, <1>7

(* One step of a walk stays on the way of v.                                *)
LEMMA StepOnWay ==
  ASSUME fmt \in Formats, NEW m, NEW u \in 1 .. NFrames, NEW lab, Tree(m, u, lab),
         NEW v \in Nat, NEW p, OnWay(u, lab, p, v), NEW tl \in 1 .. 4, tl <= p.l, NEW at,
         NEW q, q = go(m, v, tl, at)[p]
  PROVE  Stepped(m, u, lab, v, tl, at, p, q)
<1> DEFINE e == entry(m, p, v)
<1>1. p \in Place /\ p = [res |-> p.res, f |-> p.f, l |-> p.l]
  BY DEF OnWay, Place
<1>2. q = IF ends(m, p, v, tl, at) THEN p ELSE down(m, p, v)
  BY <1>1 DEF go
<1>3. CASE ends(m, p, v, tl, at)
  BY <1>2, <1>3 DEF Stepped
<1>4. CASE ~ends(m, p, v, tl, at)
  <2>1. p.res = "ok" /\ p.l # tl
    BY <1>4 DEF ends
  <2>2. p.l \in 2 .. 4
    BY <1>1, <2>1 DEF Place
  <2>3. q = down(m, p, v)
    BY <1>2, <1>4
  <2>4. CASE next_table(e) \in {"NotMapped", "wild", "MappedToHugePage"}
             /\ (e = Empty \/ IsLeaf(e, p.l))
    <3>1. q = [p EXCEPT !.res = next_table(e)]
      BY <2>3, <2>4 DEF down
    <3>2. q = [res |-> next_table(e), f |-> p.f, l |-> p.l]
      BY <1>1, <3>1
    <3>3. q \in Place
      BY <1>1, <2>4, <3>2 DEF Place
    <3> QED
      BY <2>1, <2>4, <3>2, <3>3 DEF OnWay, Stepped
  <2>5. CASE \E g \in 1 .. u - 1 : /\ Below(m, lab, p.f, index(p.l, v), g)
                                   /\ p.l > 1 /\ lab[g] = [l |-> p.l - 1, n |-> pg(p.l, v)]
    <3>1. PICK g \in 1 .. u - 1 : /\ Below(m, lab, p.f, index(p.l, v), g)
                                  /\ p.l > 1 /\ lab[g] = [l |-> p.l - 1, n |-> pg(p.l, v)]
      BY <2>5
    <3>2. g \in Tables /\ e = set_table(fmt, Base + g)
      BY <3>1, PageTableAssumption DEF Tables, Below, entry
    <3>3. q = [res |-> "ok", f |-> g, l |-> p.l - 1]
      BY <2>3, <3>2, TableEntry DEF down
    <3>4. q \in Place /\ q.l + 1 = p.l
      BY <2>2, <3>2, <3>3 DEF Place
    <3>5. OnWay(u, lab, q, v)
      BY <3>1, <3>3, <3>4 DEF OnWay
    <3>6. tl <= q.l
      BY <2>1, <2>2, <3>3
    <3> QED
      BY <2>1, <3>1, <3>3, <3>5, <3>6 DEF Stepped
  <2>6. e = m[p.f][index(p.l, v)]
    BY DEF entry
  <2> QED
    BY <2>2, <2>4, <2>5, <2>6, OnTheWay, EndEntry
<1> QED
  BY <1>3, <1>4

(* A walk begins at the root, which is on the way of every page.            *)
LEMMA TopOnWay ==
  ASSUME fmt \in Formats, NEW m, NEW u \in 1 .. NFrames, NEW lab, Tree(m, u, lab), NEW v \in Span
  PROVE  v \in Nat /\ OnWay(u, lab, top, v) /\ top.res = "ok" /\ top.l = Levels /\ top.f = 0
<1>1. Levels \in {3, 4}
  BY FormatIs
<1>2. v \in Nat /\ pg(Levels + 1, v) = 0
  BY <1>1, RootPage, PageSizes DEF Span, Reach
<1>3. top \in Place /\ 0 < u
  BY <1>1, PageTableAssumption DEF top, Place, Tables
<1> QED
  BY <1>2, <1>3 DEF OnWay, Tree, top

(* A place where the walk for an entry of a page ends stays what it is;     *)
(* from another one the walk goes down.                                     *)
LEMMA FindStep ==
  ASSUME fmt \in Formats, NEW m, NEW u \in 1 .. NFrames, NEW lab, Tree(m, u, lab),
         NEW v \in Nat, NEW p, OnWay(u, lab, p, v), NEW q, q = go(m, v, 1, "huge")[p]
  PROVE  /\ OnWay(u, lab, q, v)
         /\ Final(m, p, v) => Final(m, q, v) /\ q.f = p.f /\ q.l = p.l
         /\ p.res = "ok" /\ ~Final(m, p, v) =>
              /\ q.res = "ok" /\ q.l = p.l - 1 /\ p.l > 1
              /\ \E g \in 1 .. u - 1 : q.f = g /\ Below(m, lab, p.f, index(p.l, v), g)
<1> DEFINE e == entry(m, p, v)
<1>1. 1 <= p.l /\ p.l \in 1 .. 4 /\ p \in Place
  BY DEF OnWay, Place
<1>2. /\ OnWay(u, lab, q, v)
      /\ \/ q = p /\ ends(m, p, v, 1, "huge")
         \/ q.f = p.f /\ q.l = p.l /\ p.res = "ok" /\ q.res # "ok" /\ e = Empty
         \/ q.f = p.f /\ q.l = p.l /\ p.res = "ok" /\ q.res # "ok" /\ IsLeaf(e, p.l)
         \/ /\ q.l = p.l - 1 /\ q.res = "ok" /\ p.res = "ok" /\ p.l > 1
            /\ \E g \in 1 .. u - 1 : q.f = g /\ Below(m, lab, p.f, index(p.l, v), g)
  <2>1. Stepped(m, u, lab, v, 1, "huge", p, q)
    <3>1. 1 \in 1 .. 4 /\ 1 <= p.l
      BY <1>1
    <3> QED
      BY <3>1, StepOnWay, Zenon
  <2> QED
    BY <2>1 DEF Stepped
<1>3. p.res = "ok" /\ IsLeaf(e, p.l) => q = p
  <2>1. IsLeaf(e, p.l) => p.l = 1 \/ (p.l \in {2, 3} /\ is_huge(e, fmt))
    BY <1>1 DEF IsLeaf
  <2>2. p.res = "ok" /\ IsLeaf(e, p.l) => ends(m, p, v, 1, "huge")
    BY <2>1 DEF ends
  <2> QED
    BY <1>1, <2>2 DEF go
<1>4. ASSUME NEW g \in 1 .. u - 1, Below(m, lab, p.f, index(p.l, v), g)
      PROVE  e # Empty /\ ~is_huge(e, fmt) /\ lab[g].l \in 1 .. 4 /\ p.l = lab[g].l + 1
             /\ ~IsLeaf(e, p.l)
  <2>1. g \in Tables /\ e = set_table(fmt, Base + g)
    BY <1>4, PageTableAssumption DEF Tables, Below, entry
  <2>a. lab[g] \in [l : 1 .. Levels, n : Nat]
    BY <2>1 DEF Tree
  <2>b. lab[p.f].l = p.l /\ lab[p.f].l = lab[g].l + 1
    BY <1>4 DEF Below, OnWay
  <2>2. lab[g].l \in 1 .. 4 /\ p.l = lab[g].l + 1
    BY <2>a, <2>b, FormatIs
  <2> QED
    BY <1>1, <2>1, <2>2, TableEntry
<1>5. CASE Final(m, p, v)
  <2>1. e = Empty => q.f = p.f /\ q.l = p.l
    BY <1>2, <1>4
  <2>2. entry(m, q, v) = e
    BY <1>3, <1>5, <2>1 DEF entry, Final
  <2>3. Final(m, q, v)
    BY <1>3, <1>5, <2>2 DEF Final
  <2> QED
    BY <1>2, <1>3, <1>5, <2>1, <2>3 DEF Final
<1>6. CASE p.res = "ok" /\ ~Final(m, p, v)
  <2>1. e # Empty /\ ~IsLeaf(e, p.l)
    BY <1>6 DEF Final
  <2>2. PICK g \in 1 .. u - 1 : Below(m, lab, p.f, index(p.l, v), g)
    BY <2>1, OnTheWay DEF entry
  <2>3. ~is_huge(e, fmt) /\ p.l # 1
    BY <2>2, <1>4
  <2>4. ~ends(m, p, v, 1, "huge")
    BY <1>6, <2>3 DEF ends
  <2> QED
    BY <1>2, <1>6, <2>1, <2>4
<1> QED
  BY <1>2, <1>5, <1>6

(* get_entry finds the entry for v at the end of its way.                   *)
LEMMA GetEntry ==
  ASSUME fmt \in Formats, NEW m, NEW u \in 1 .. NFrames, NEW lab, Tree(m, u, lab), NEW v \in Span
  PROVE  LET w == get_entry(m, v) IN OnWay(u, lab, w, v) /\ Final(m, w, v)
<1> DEFINE step == go(m, v, 1, "huge")
           p1 == step[top]  p2 == step[p1]  p3 == step[p2]
<1>1. get_entry(m, v) = p3
  BY FormatIs DEF get_entry, get_entry_mut, get_entry_mut_riscv64, get_entry_mut_loongarch64, walk
<1>2. v \in Nat /\ OnWay(u, lab, top, v) /\ top.res = "ok" /\ top.l = Levels /\ Levels \in {3, 4}
  BY TopOnWay, FormatIs
<1>3. OnWay(u, lab, p1, v) /\ (Final(m, p1, v) \/ (p1.res = "ok" /\ p1.l = Levels - 1))
  <2> HIDE DEF step
  <2> QED
    BY <1>2, FindStep DEF step
<1>4. OnWay(u, lab, p2, v) /\ (Final(m, p2, v) \/ (p2.res = "ok" /\ p2.l = Levels - 2))
  <2> HIDE DEF p1
  <2>1. Final(m, p1, v) => Final(m, p2, v)
    BY <1>2, <1>3, FindStep
  <2> QED
    BY <1>2, <1>3, <2>1, FindStep
<1>5. OnWay(u, lab, p3, v) /\ (Final(m, p3, v) \/ (p3.res = "ok" /\ p3.l = Levels - 3))
  <2> HIDE DEF p2
  <2>1. Final(m, p2, v) => Final(m, p3, v)
    BY <1>2, <1>4, FindStep
  <2> QED
    BY <1>2, <1>4, <2>1, FindStep
<1>6. Final(m, p3, v)
  <2> HIDE DEF p3
  <2> SUFFICES ASSUME p3.res = "ok", p3.l = Levels - 3, ~Final(m, p3, v) PROVE FALSE
    BY <1>5
  <2>1. go(m, v, 1, "huge")[p3].l = p3.l - 1 /\ p3.l > 1
    BY <1>2, <1>5, FindStep
  <2> QED
    BY <1>2, <2>1
<1> QED
  BY <1>1, <1>5, <1>6

(* The way of v leads through the table labelled for it, if that is in use. *)
LEMMA ParentTable ==
  ASSUME fmt \in Formats, NEW m, NEW u \in 1 .. NFrames, NEW lab, Tree(m, u, lab), NEW v \in Nat,
         NEW g, For(u, lab, g, v)
  PROVE  /\ lab[g].l \in 1 .. Levels
         /\ lab[g].l = Levels => g = 0
         /\ lab[g].l < Levels => \E f :
              /\ For(u, lab, f, v) /\ lab[f].l = lab[g].l + 1
              /\ Below(m, lab, f, index(lab[g].l + 1, v), g)
<1>0. /\ Levels \in {3, 4} /\ \A h \in 0 .. u - 1 : h \in Tables
      /\ g \in 0 .. u - 1 /\ lab[g].n = pg(lab[g].l + 1, v)
  BY FormatIs, PageTableAssumption DEF Tables, For
<1>1. \A h \in 0 .. u - 1 : lab[h] \in [l : 1 .. Levels, n : Nat]
  BY <1>0 DEF Tree
<1>2. CASE g = 0
  <2>1. lab[g].l = Levels
    BY <1>2 DEF Tree
  <2> QED
    BY <1>0, <1>2, <2>1
<1>3. CASE g # 0
  <2>1. PICK f \in 0 .. u - 1, i \in Index : Below(m, lab, f, i, g)
    BY <1>0, <1>3 DEF Tree
  <2>2. lab[f].l = lab[g].l + 1 /\ lab[f].n = lab[g].n \div ENTRY_COUNT /\ i = lab[g].n % ENTRY_COUNT
    BY <2>1 DEF Below
  <2>3. lab[g].l + 1 \in 1 .. 4 /\ lab[g].l < Levels
    <3>1. lab[f].l \in 1 .. Levels /\ lab[g].l \in 1 .. Levels
      BY <1>0, <1>1
    <3> QED
      BY <1>0, <2>2, <3>1
  <2>4. i = index(lab[g].l + 1, v) /\ lab[f].n = pg(lab[g].l + 2, v)
    <3> DEFINE k == lab[g].l + 1
    <3>1. k \in 1 .. 4 /\ k + 1 = lab[g].l + 2
      BY <1>0, <1>1, <2>3
    <3> HIDE DEF k
    <3>2. index(k, v) = pg(k, v) % ENTRY_COUNT /\ pg(k + 1, v) = pg(k, v) \div ENTRY_COUNT
      BY <3>1, PageNumbers
    <3> QED
      BY <1>0, <2>2, <3>1, <3>2 DEF k
  <2>5. For(u, lab, f, v)
    <3>1. lab[g].l + 2 = lab[f].l + 1
      BY <1>0, <1>1, <2>2
    <3> QED
      BY <2>4, <3>1 DEF For
  <2> QED
    BY <1>0, <1>1, <2>1, <2>2, <2>3, <2>4, <2>5
<1> QED
  BY <1>2, <1>3

(* If the walk for v has come to the table above g on the way of v, one     *)
(* step of it comes to g.                                                   *)
LEMMA NextOnWay ==
  ASSUME fmt \in Formats, NEW m, NEW u \in 1 .. NFrames, NEW lab, Tree(m, u, lab), NEW v \in Nat,
         NEW p, NEW g, For(u, lab, g, v), lab[g].l < Levels,
         \A f : For(u, lab, f, v) /\ lab[f].l = lab[g].l + 1 => At(u, lab, p, f, v)
  PROVE  At(u, lab, go(m, v, 1, "huge")[p], g, v)
<1> DEFINE q == go(m, v, 1, "huge")[p]
<1>1. PICK f : /\ For(u, lab, f, v) /\ lab[f].l = lab[g].l + 1
               /\ Below(m, lab, f, index(lab[g].l + 1, v), g)
  BY ParentTable
<1>2. /\ OnWay(u, lab, p, v) /\ p.res = "ok" /\ p.f = f /\ p.l = lab[g].l + 1
      /\ lab[g].l \in 1 .. Levels /\ Levels \in {3, 4}
  BY <1>1, ParentTable, FormatIs DEF At
<1>3. g \in Tables /\ entry(m, p, v) = set_table(fmt, Base + g)
  BY <1>1, <1>2, PageTableAssumption DEF Below, entry, For, Tables
<1>4. p.l \in 2 .. 4
  BY <1>2
<1>5. ~Final(m, p, v)
  BY <1>3, <1>4, TableEntry DEF Final
<1>6. OnWay(u, lab, q, v) /\ q.res = "ok" /\ q.l = p.l - 1
  BY <1>2, <1>5, FindStep
<1>7. q.f = g
  <2>1. \E h \in 1 .. u - 1 : q.f = h /\ Below(m, lab, p.f, index(p.l, v), h)
    BY <1>2, <1>5, FindStep
  <2>2. PICK h \in 1 .. u - 1 : q.f = h /\ Below(m, lab, p.f, index(p.l, v), h)
    BY <2>1
  <2>3. h \in Tables /\ entry(m, p, v) = set_table(fmt, Base + h)
    BY <2>2, PageTableAssumption DEF Below, entry, Tables
  <2> QED
    BY <1>3, <2>2, <2>3, TableEntry
<1> QED
  BY <1>2, <1>6, <1>7 DEF At

(* A table on the way of v whose entry for v is empty or a leaf is where    *)
(* the walk for v ends.                                                     *)
LEMMA WayIs ==
  ASSUME fmt \in Formats, NEW m, NEW u \in 1 .. NFrames, NEW lab, Tree(m, u, lab), NEW v \in Span,
         NEW g, For(u, lab, g, v),
         LET e == m[g][index(lab[g].l, v)] IN e = Empty \/ IsLeaf(e, lab[g].l)
  PROVE  LET w == get_entry(m, v) IN w.f = g /\ w.l = lab[g].l
<1> DEFINE step == go(m, v, 1, "huge")
           p1 == step[top]  p2 == step[p1]  p3 == step[p2]
<1>1. get_entry(m, v) = p3
  BY FormatIs DEF get_entry, get_entry_mut, get_entry_mut_riscv64, get_entry_mut_loongarch64, walk
<1>2. v \in Nat /\ OnWay(u, lab, top, v) /\ top.res = "ok" /\ top.l = Levels /\ top.f = 0 /\ Levels \in {3, 4}
  BY TopOnWay, FormatIs
<1>3. \A f : For(u, lab, f, v) => lab[f].l \in 1 .. Levels /\ (lab[f].l = Levels => f = 0)
  BY <1>2, ParentTable
<1>4. \A f : For(u, lab, f, v) /\ lab[f].l = Levels => At(u, lab, top, f, v)
  BY <1>2, <1>3 DEF At
<1>5. \A f : For(u, lab, f, v) /\ lab[f].l = Levels - 1 => At(u, lab, p1, f, v)
  <2> SUFFICES ASSUME NEW f, For(u, lab, f, v), lab[f].l = Levels - 1 PROVE At(u, lab, p1, f, v)
    OBVIOUS
  <2>1. lab[f].l + 1 = Levels /\ lab[f].l < Levels
    BY <1>2
  <2> QED
    BY <1>2, <1>4, <2>1, NextOnWay
<1>6. \A f : For(u, lab, f, v) /\ lab[f].l = Levels - 2 => At(u, lab, p2, f, v)
  <2> HIDE DEF p1
  <2> SUFFICES ASSUME NEW f, For(u, lab, f, v), lab[f].l = Levels - 2 PROVE At(u, lab, p2, f, v)
    OBVIOUS
  <2>1. lab[f].l + 1 = Levels - 1 /\ lab[f].l < Levels
    BY <1>2
  <2> QED
    BY <1>2, <1>5, <2>1, NextOnWay
<1>7. \A f : For(u, lab, f, v) /\ lab[f].l = Levels - 3 => At(u, lab, p3, f, v)
  <2> HIDE DEF p2
  <2> SUFFICES ASSUME NEW f, For(u, lab, f, v), lab[f].l = Levels - 3 PROVE At(u, lab, p3, f, v)
    OBVIOUS
  <2>1. lab[f].l + 1 = Levels - 2 /\ lab[f].l < Levels
    BY <1>2
  <2> QED
    BY <1>2, <1>6, <2>1, NextOnWay
<1>8. \A p : At(u, lab, p, g, v) => Final(m, p, v)
  BY DEF At, Final, entry
<1>9. \A p : OnWay(u, lab, p, v) /\ Final(m, p, v) =>
         LET q == step[p] IN OnWay(u, lab, q, v) /\ Final(m, q, v) /\ q.f = p.f /\ q.l = p.l
  BY <1>2, FindStep
<1>10. OnWay(u, lab, p1, v) /\ OnWay(u, lab, p2, v)
  <2>1. OnWay(u, lab, p1, v)
    BY <1>2, FindStep
  <2> HIDE DEF p1
  <2>2. OnWay(u, lab, p2, v)
    BY <1>2, <2>1, FindStep
  <2> QED
    BY <2>1, <2>2
<1>11. lab[g].l \in {Levels, Levels - 1, Levels - 2, Levels - 3}
  BY <1>2, <1>3
<1> HIDE DEF step
<1> QED
  <2>1. CASE lab[g].l = Levels
    BY <1>1, <1>4, <1>8, <1>9, <2>1 DEF At
  <2>2. CASE lab[g].l = Levels - 1
    BY <1>1, <1>5, <1>8, <1>9, <2>2 DEF At
  <2>3. CASE lab[g].l = Levels - 2
    BY <1>1, <1>6, <1>8, <1>9, <2>3 DEF At
  <2>4. CASE lab[g].l = Levels - 3
    BY <1>1, <1>7, <2>4 DEF At
  <2> QED
    BY <1>11, <2>1, <2>2, <2>3, <2>4

-----------------------------------------------------------------------------
(* What writing an entry does to the walks                                  *)

(* Writing one entry leaves the others as they are.                         *)
LEMMA SetEntry ==
  ASSUME NEW m, IsMem(m), NEW f0 \in Tables, NEW i0 \in Index, NEW e,
         NEW m2, m2 = Written(m, f0, i0, e)
  PROVE  /\ IsMem(m2) /\ m2[f0][i0] = e
         /\ OnlyAt(m, m2, f0, i0)
<1>1. /\ DOMAIN m = Tables /\ \A f \in Tables : DOMAIN m[f] = Index
      /\ m = [f \in DOMAIN m |-> m[f]] /\ \A f \in Tables : m[f] = [i \in Index |-> m[f][i]]
  BY DEF IsMem
<1>2. m2 = [f \in Tables |-> IF f = f0 THEN [m[f] EXCEPT ![i0] = e] ELSE m[f]]
  BY <1>1 DEF Written
<1>3. \A f \in Tables : m2[f] = [i \in Index |-> IF f = f0 /\ i = i0 THEN e ELSE m[f][i]]
  <2> SUFFICES ASSUME NEW f \in Tables
               PROVE  m2[f] = [i \in Index |-> IF f = f0 /\ i = i0 THEN e ELSE m[f][i]]
    OBVIOUS
  <2>1. CASE f = f0
    <3>1. m2[f] = [m[f] EXCEPT ![i0] = e]
      BY <1>2, <2>1
    <3>2. [m[f] EXCEPT ![i0] = e] = [i \in Index |-> IF i = i0 THEN e ELSE m[f][i]]
      BY <1>1
    <3> QED
      BY <2>1, <3>1, <3>2
  <2>2. CASE f # f0
    <3>1. m2[f] = m[f]
      BY <1>2, <2>2
    <3>2. m[f] = [i \in Index |-> m[f][i]]
      BY <1>1
    <3> QED
      BY <2>2, <3>1, <3>2
  <2> QED
    BY <2>1, <2>2
<1>a. \A f \in Tables, i \in Index : m2[f][i] = IF f = f0 /\ i = i0 THEN e ELSE m[f][i]
  <2> SUFFICES ASSUME NEW f \in Tables, NEW i \in Index
               PROVE  m2[f][i] = IF f = f0 /\ i = i0 THEN e ELSE m[f][i]
    OBVIOUS
  <2>1. m2[f] = [j \in Index |-> IF f = f0 /\ j = i0 THEN e ELSE m[f][j]]
    BY <1>3
  <2> QED
    BY <2>1
<1>4. IsMem(m2)
  <2>1. \A f \in Tables : m2[f] = [i \in Index |-> m2[f][i]]
    <3> SUFFICES ASSUME NEW f \in Tables PROVE m2[f] = [i \in Index |-> m2[f][i]]
      OBVIOUS
    <3>1. m2[f] = [i \in Index |-> IF f = f0 /\ i = i0 THEN e ELSE m[f][i]]
      BY <1>3
    <3> QED
      BY <3>1
  <2>2. m2 = [f \in Tables |-> m2[f]]
    BY <1>2
  <2> QED
    BY <2>1, <2>2 DEF IsMem
<1> QED
  BY <1>a, <1>4 DEF OnlyAt

(* A leaf written, or an entry cleared, where no table hangs.               *)
LEMMA EntryInTree ==
  ASSUME fmt \in Formats, NEW m, IsMem(m), NEW u \in 1 .. NFrames, NEW lab, Tree(m, u, lab),
         NEW v0 \in Nat, NEW p, OnWay(u, lab, p, v0),
         LET o == entry(m, p, v0) IN o = Empty \/ IsLeaf(o, p.l),
         NEW e, e = Empty \/ IsLeaf(e, p.l),
         NEW m2, m2 = Written(m, p.f, index(p.l, v0), e)
  PROVE  Tree(m2, u, lab)
<1> DEFINE i0 == index(p.l, v0)
<1>1. p.f \in Tables /\ p.f < u /\ p.l \in 1 .. 4 /\ lab[p.f].l = p.l
  BY DEF OnWay, Place
<1>2. i0 \in Index
  BY <1>1, PageNumbers
<1>3. m2[p.f][i0] = e /\ OnlyAt(m, m2, p.f, i0)
  <2> DEFINE f0 == p.f
  <2>1. f0 \in Tables /\ i0 \in Index /\ m2 = Written(m, f0, i0, e)
    BY <1>1, <1>2
  <2> HIDE DEF f0, i0
  <2>2. m2[f0][i0] = e /\ OnlyAt(m, m2, f0, i0)
    BY <2>1, SetEntry
  <2> QED
    BY <2>2 DEF f0
<1>4. \A f \in Tables, i \in Index, g \in 1 .. u - 1 :
         Below(m, lab, f, i, g) => Below(m2, lab, f, i, g)
  <2> SUFFICES ASSUME NEW f \in Tables, NEW i \in Index, NEW g \in 1 .. u - 1, Below(m, lab, f, i, g)
               PROVE  Below(m2, lab, f, i, g)
    OBVIOUS
  <2>1. g \in Tables /\ lab[f].l = lab[g].l + 1 /\ m[f][i] = set_table(fmt, Base + g)
    BY PageTableAssumption DEF Tables, Below
  <2>2. lab[g].l \in Nat \ {0}
    BY <2>1, FormatIs DEF Tree
  <2>3. f # p.f \/ i # i0
    <3> SUFFICES ASSUME f = p.f, i = i0 PROVE FALSE
      OBVIOUS
    <3>1. p.l \in 2 .. 4 /\ entry(m, p, v0) = set_table(fmt, Base + g)
      BY <1>1, <2>1, <2>2 DEF entry
    <3> QED
      BY <2>1, <3>1, TableEntry
  <2> QED
    BY <1>3, <2>3 DEF Below, OnlyAt
<1>5. \A f \in Tables, i \in Index :
        \/ m2[f][i] = Empty
        \/ f < u /\ IsLeaf(m2[f][i], lab[f].l)
        \/ f < u /\ \E g \in 1 .. u - 1 : Below(m2, lab, f, i, g)
  <2> SUFFICES ASSUME NEW f \in Tables, NEW i \in Index
               PROVE  \/ m2[f][i] = Empty
                      \/ f < u /\ IsLeaf(m2[f][i], lab[f].l)
                      \/ f < u /\ \E g \in 1 .. u - 1 : Below(m2, lab, f, i, g)
    OBVIOUS
  <2>1. CASE f = p.f /\ i = i0
    BY <1>1, <1>3, <2>1
  <2>2. CASE f # p.f \/ i # i0
    <3>1. m2[f][i] = m[f][i]
      BY <1>3, <2>2 DEF OnlyAt
    <3>2. \/ m[f][i] = Empty
          \/ f < u /\ IsLeaf(m[f][i], lab[f].l)
          \/ f < u /\ \E g \in 1 .. u - 1 : Below(m, lab, f, i, g)
      BY DEF Tree
    <3> QED
      BY <1>4, <3>1, <3>2
  <2> QED
    BY <2>1, <2>2
<1>6. \A g \in 1 .. u - 1 : \E f \in 0 .. u - 1, i \in Index : Below(m2, lab, f, i, g)
  <2>1. \A f \in 0 .. u - 1 : f \in Tables
    BY PageTableAssumption DEF Tables
  <2> QED
    BY <1>4, <2>1 DEF Tree
<1> QED
  BY <1>5, <1>6 DEF Tree

(* A table made for an empty entry.                                         *)
LEMMA TableInTree ==
  ASSUME fmt \in Formats, NEW m, IsMem(m), NEW u \in 1 .. NFrames - 1, NEW lab, Tree(m, u, lab),
         NEW v0 \in Nat, NEW p, OnWay(u, lab, p, v0), p.l > 1, entry(m, p, v0) = Empty,
         NEW m2, m2 = Written(m, p.f, index(p.l, v0), set_table(fmt, Base + u)),
         NEW lab2, lab2 = Labelled(lab, u, p, v0)
  PROVE  /\ Tree(m2, u + 1, lab2)
         /\ lab2[u] = [l |-> p.l - 1, n |-> pg(p.l, v0)]
         /\ SameLabels(u, lab, lab2)
         /\ \A i \in Index : m2[u][i] = Empty
<1> DEFINE i0 == index(p.l, v0)  k == p.l - 1
<1>1. /\ p.f \in Tables /\ p.f \in 0 .. u - 1 /\ p.l \in 2 .. 4 /\ k \in 1 .. 3
      /\ lab[p.f] = [l |-> p.l, n |-> pg(p.l + 1, v0)]
      /\ u \in Tables /\ u \in Nat /\ \A f \in 0 .. u : f \in Tables
  BY PageTableAssumption DEF OnWay, Place, Tables
<1>2. /\ i0 \in Index /\ i0 = pg(p.l, v0) % ENTRY_COUNT /\ pg(p.l, v0) \in Nat
      /\ pg(p.l + 1, v0) = pg(p.l, v0) \div ENTRY_COUNT
  BY <1>1, PageNumbers
<1>3. /\ m2[p.f][i0] = set_table(fmt, Base + u)
      /\ OnlyAt(m, m2, p.f, i0)
  <2> DEFINE f0 == p.f  e == set_table(fmt, Base + u)
  <2>1. f0 \in Tables /\ i0 \in Index /\ m2 = Written(m, f0, i0, e)
    BY <1>1, <1>2
  <2> HIDE DEF f0, i0, e
  <2>2. m2[f0][i0] = e /\ OnlyAt(m, m2, f0, i0)
    BY <2>1, SetEntry
  <2> QED
    BY <2>2 DEF f0, e
<1>4. lab \in [Tables -> [l : 1 .. Levels, n : Nat]] /\ Levels \in {3, 4} /\ lab[p.f] \in [l : 1 .. Levels, n : Nat]
  BY <1>1, FormatIs DEF Tree
<1>5. p.l <= Levels /\ k \in 1 .. Levels
  BY <1>1, <1>4
<1>6. /\ lab2 \in [Tables -> [l : 1 .. Levels, n : Nat]]
      /\ lab2[u] = [l |-> k, n |-> pg(p.l, v0)]
      /\ \A f \in Tables : f # u => lab2[f] = lab[f]
  BY <1>1, <1>2, <1>4, <1>5 DEF Labelled
<1>7. \A i \in Index : m2[u][i] = Empty
  <2>1. \A i \in Index : m[u][i] = Empty
    BY <1>1 DEF Tree
  <2> QED
    BY <1>1, <1>3, <2>1 DEF OnlyAt
<1>8. Below(m2, lab2, p.f, i0, u)
  <2>1. p.f # u /\ lab2[p.f] = [l |-> p.l, n |-> pg(p.l + 1, v0)]
    BY <1>1, <1>6
  <2> QED
    BY <1>1, <1>2, <1>3, <1>6, <2>1 DEF Below
<1>9. \A f \in 0 .. u - 1, i \in Index, g \in 1 .. u - 1 :
         Below(m, lab, f, i, g) => Below(m2, lab2, f, i, g)
  <2> SUFFICES ASSUME NEW f \in 0 .. u - 1, NEW i \in Index, NEW g \in 1 .. u - 1, Below(m, lab, f, i, g)
               PROVE  Below(m2, lab2, f, i, g)
    OBVIOUS
  <2>1. g \in Tables /\ f \in Tables /\ g # u /\ f # u /\ m[f][i] = set_table(fmt, Base + g)
    BY <1>1 DEF Below
  <2>2. f # p.f \/ i # i0
    BY <2>1, TableEntry DEF entry
  <2> QED
    BY <1>3, <1>6, <2>1, <2>2 DEF Below, OnlyAt
<1>10. \A f \in Tables, i \in Index :
        \/ m2[f][i] = Empty
        \/ f < u + 1 /\ IsLeaf(m2[f][i], lab2[f].l)
        \/ f < u + 1 /\ \E g \in 1 .. (u + 1) - 1 : Below(m2, lab2, f, i, g)
  <2> SUFFICES ASSUME NEW f \in Tables, NEW i \in Index, m2[f][i] # Empty
               PROVE  \/ f < u + 1 /\ IsLeaf(m2[f][i], lab2[f].l)
                      \/ f < u + 1 /\ \E g \in 1 .. (u + 1) - 1 : Below(m2, lab2, f, i, g)
    OBVIOUS
  <2>0. \A g \in 1 .. u - 1 : g \in 1 .. (u + 1) - 1
    BY <1>1
  <2>1. CASE f = p.f /\ i = i0
    <3>1. u \in 1 .. (u + 1) - 1 /\ f < u + 1
      BY <1>1, <2>1
    <3> QED
      BY <1>8, <2>1, <3>1
  <2>2. CASE f # p.f \/ i # i0
    <3>1. m2[f][i] = m[f][i]
      BY <1>3, <2>2 DEF OnlyAt
    <3>2. f < u /\ (IsLeaf(m[f][i], lab[f].l) \/ \E g \in 1 .. u - 1 : Below(m, lab, f, i, g))
      BY <3>1 DEF Tree
    <3>3. f \in 0 .. u - 1 /\ f # u /\ f < u + 1
      BY <1>1, <3>2 DEF Tables
    <3>4. lab2[f] = lab[f]
      BY <1>6, <3>3
    <3> QED
      BY <1>9, <2>0, <3>1, <3>2, <3>3, <3>4
  <2> QED
    BY <2>1, <2>2
<1>11. \A g \in 1 .. (u + 1) - 1 : \E f \in 0 .. (u + 1) - 1, i \in Index : Below(m2, lab2, f, i, g)
  <2> SUFFICES ASSUME NEW g \in 1 .. (u + 1) - 1
               PROVE  \E f \in 0 .. (u + 1) - 1, i \in Index : Below(m2, lab2, f, i, g)
    OBVIOUS
  <2>0. \A f \in 0 .. u - 1 : f \in 0 .. (u + 1) - 1
    BY <1>1
  <2>1. CASE g = u
    BY <1>1, <1>2, <1>8, <2>0, <2>1
  <2>2. CASE g # u
    <3>1. g \in 1 .. u - 1
      BY <1>1, <2>2
    <3>2. PICK f \in 0 .. u - 1, i \in Index : Below(m, lab, f, i, g)
      BY <3>1 DEF Tree
    <3> QED
      BY <1>9, <2>0, <3>1, <3>2
  <2> QED
    BY <2>1, <2>2
<1>12. lab2[0] = [l |-> Levels, n |-> 0]
  BY <1>1, <1>6 DEF Tree
<1>13. Tree(m2, u + 1, lab2)
  BY <1>6, <1>10, <1>11, <1>12 DEF Tree
<1>14. SameLabels(u, lab, lab2)
  BY <1>1, <1>6 DEF SameLabels
<1> QED
  BY <1>6, <1>7, <1>13, <1>14


(* Of the pages that an end of a way is for, that entry is the one.         *)
LEMMA Within ==
  ASSUME fmt \in Formats, NEW m, NEW u \in 1 .. NFrames, NEW lab, Tree(m, u, lab),
         NEW v0 \in Nat, NEW p, OnWay(u, lab, p, v0),
         LET o == entry(m, p, v0) IN o = Empty \/ IsLeaf(o, p.l),
         NEW v \in Span, pg(p.l, v) = pg(p.l, v0)
  PROVE  LET w == get_entry(m, v) IN
         /\ w.f = p.f /\ w.l = p.l /\ entry(m, w, v) = entry(m, p, v0)
         /\ entry(m, p, v0) # Empty => w.res = "ok"
<1> DEFINE w == get_entry(m, v)
<1>1. p.f \in 0 .. u - 1 /\ p.l \in 1 .. 4 /\ lab[p.f] = [l |-> p.l, n |-> pg(p.l + 1, v0)] /\ v \in Nat
  <2>1. v \in Nat
    BY TopOnWay
  <2> QED
    BY <2>1 DEF OnWay, Place, Tables
<1>2. index(p.l, v) = index(p.l, v0) /\ pg(p.l + 1, v) = pg(p.l + 1, v0)
  BY <1>1, PageNumbers
<1>3. For(u, lab, p.f, v) /\ lab[p.f].l = p.l
  BY <1>1, <1>2 DEF For
<1>4. entry(m, p, v0) = m[p.f][index(lab[p.f].l, v)]
  BY <1>2, <1>3 DEF entry
<1>5. w.f = p.f /\ w.l = p.l
  BY <1>3, <1>4, WayIs
<1>6. Final(m, w, v)
  BY GetEntry
<1> HIDE DEF w
<1>7. entry(m, w, v) = entry(m, p, v0)
  BY <1>2, <1>5 DEF entry
<1> QED
  BY <1>5, <1>6, <1>7 DEF Final, w

(* Two ends of ways that are both for some page are one.                    *)
LEMMA OneEnd ==
  ASSUME fmt \in Formats, NEW m, NEW u \in 1 .. NFrames, NEW lab, Tree(m, u, lab),
         NEW v1 \in Span, NEW v2 \in Span, NEW v \in Span,
         pg(get_entry(m, v1).l, v) = pg(get_entry(m, v1).l, v1),
         pg(get_entry(m, v2).l, v) = pg(get_entry(m, v2).l, v2)
  PROVE  get_entry(m, v1).l = get_entry(m, v2).l
<1>1. v1 \in Nat /\ v2 \in Nat
  BY TopOnWay
<1>2. \A x \in Span : LET w == get_entry(m, x) IN
        OnWay(u, lab, w, x) /\ (entry(m, w, x) = Empty \/ IsLeaf(entry(m, w, x), w.l))
  BY GetEntry DEF Final
<1>3. get_entry(m, v).l = get_entry(m, v1).l
  BY <1>1, <1>2, Within
<1>4. get_entry(m, v).l = get_entry(m, v2).l
  BY <1>1, <1>2, Within
<1> QED
  BY <1>3, <1>4

(* Writing an entry changes nothing for the pages it is not for.            *)
LEMMA Elsewhere ==
  ASSUME fmt \in Formats, NEW m, NEW u \in 1 .. NFrames, NEW lab, Tree(m, u, lab),
         NEW m2, NEW u2 \in 1 .. NFrames, u <= u2, NEW lab2, Tree(m2, u2, lab2),
         SameLabels(u, lab, lab2),
         NEW v0 \in Nat, NEW p, OnWay(u, lab, p, v0),
         OnlyAt(m, m2, p.f, index(p.l, v0)),
         NEW v \in Span, pg(p.l, v) # pg(p.l, v0)
  PROVE  SameEntry(m, m2, v)
<1> DEFINE w == get_entry(m, v)  w2 == get_entry(m2, v)
<1>1. v \in Nat /\ OnWay(u, lab, w, v) /\ Final(m, w, v)
  BY TopOnWay, GetEntry
<1> HIDE DEF w
<1>2. /\ w.f \in Tables /\ w.f \in 0 .. u - 1 /\ w.l \in 1 .. 4
      /\ lab[w.f] = [l |-> w.l, n |-> pg(w.l + 1, v)]
      /\ p.f \in 0 .. u - 1 /\ p.l \in 1 .. 4 /\ lab[p.f] = [l |-> p.l, n |-> pg(p.l + 1, v0)]
  BY <1>1 DEF OnWay, Place, Tables
<1>3. index(w.l, v) \in Index
  BY <1>1, <1>2, PageNumbers
<1>4. w.f # p.f \/ index(w.l, v) # index(p.l, v0)
  <2> SUFFICES ASSUME w.f = p.f, index(w.l, v) = index(p.l, v0) PROVE FALSE
    OBVIOUS
  <2>1. w.l = p.l /\ pg(p.l + 1, v) = pg(p.l + 1, v0)
    BY <1>2
  <2>2. pg(p.l, v) % ENTRY_COUNT = pg(p.l, v0) % ENTRY_COUNT
    BY <1>1, <1>2, <2>1, PageNumbers
  <2>3. pg(p.l, v) \div ENTRY_COUNT = pg(p.l, v0) \div ENTRY_COUNT
    <3>1. p.l \in 1 .. 4 /\ v \in Nat
      BY <1>1, <1>2
    <3>2. pg(p.l + 1, v) = pg(p.l, v) \div ENTRY_COUNT
      BY <3>1, PageNumbers
    <3>3. pg(p.l + 1, v0) = pg(p.l, v0) \div ENTRY_COUNT
      BY <3>1, PageNumbers
    <3> QED
      BY <2>1, <3>2, <3>3
  <2>4. pg(p.l, v) \in Nat /\ pg(p.l, v0) \in Nat
    BY <1>1, <1>2, PageNumbers
  <2> QED
    BY <2>2, <2>3, <2>4, PageIs
<1>5. m2[w.f][index(w.l, v)] = m[w.f][index(w.l, v)]
  BY <1>2, <1>3, <1>4 DEF OnlyAt
<1>6. For(u2, lab2, w.f, v) /\ lab2[w.f].l = w.l
  BY <1>2 DEF For, SameLabels
<1>7. LET e == m2[w.f][index(lab2[w.f].l, v)] IN e = Empty \/ IsLeaf(e, lab2[w.f].l)
  BY <1>1, <1>5, <1>6 DEF Final, entry
<1>8. w2.f = w.f /\ w2.l = w.l
  BY <1>6, <1>7, WayIs
<1>9. entry(m2, w2, v) = entry(m, w, v)
  <2> HIDE DEF w2
  <2> QED
    BY <1>5, <1>8 DEF entry
<1> QED
  BY <1>8, <1>9 DEF SameEntry, w

(* What has the same entry is mapped as it was.                             *)
LEMMA SameMapped ==
  ASSUME fmt \in Formats, NEW m, NEW u \in 1 .. NFrames, NEW lab, Tree(m, u, lab),
         NEW m2, NEW u2 \in 1 .. NFrames, NEW lab2, Tree(m2, u2, lab2),
         NEW v \in Span, SameEntry(m, m2, v)
  PROVE  Kept(m, m2, v)
<1> DEFINE w == get_entry(m, v)  w2 == get_entry(m2, v)  e == entry(m, w, v)
<1>1. OnWay(u, lab, w, v) /\ Final(m, w, v) /\ OnWay(u2, lab2, w2, v) /\ Final(m2, w2, v)
  BY GetEntry
<1>2. CASE entry(m2, w2, v) = Empty /\ e = Empty
  <2>1. Host(m2, v) = -1 /\ Host(m, v) = -1
    BY <1>2 DEF Host, is_unused
  <2>2. \A r \in Region : \A lo, hi : ~PageMapped(m, r, lo, hi, v)
    <3> SUFFICES ASSUME NEW r \in Region, NEW lo, NEW hi, PageMapped(m, r, lo, hi, v) PROVE FALSE
      OBVIOUS
    <3>1. w.l \in 1 .. 3
      BY <1>1 DEF PageMapped, OnWay, Place
    <3>2. e = PteOf(r, w.l, align_down(w.l, v))
      BY DEF PageMapped
    <3> HIDE DEF w, w2, e
    <3> QED
      BY <1>2, <3>1, <3>2, PteIs
  <2> QED
    BY <2>1, <2>2 DEF Kept
<1>3. CASE w2.l = w.l /\ entry(m2, w2, v) = e /\ e # Empty
  <2>1. w.res = "ok" /\ w2.res = "ok"
    BY <1>1, <1>3 DEF Final
  <2> QED
    BY <1>3, <2>1 DEF Host, PageMapped, Kept
<1> QED
  BY <1>2, <1>3 DEF SameEntry

(* A new table changes nothing for any page.                                *)
LEMMA TableMade ==
  ASSUME fmt \in Formats, NEW m, IsMem(m), NEW u \in 1 .. NFrames - 1, NEW lab, Tree(m, u, lab),
         NEW v0 \in Nat, NEW p, OnWay(u, lab, p, v0), p.l > 1, entry(m, p, v0) = Empty,
         NEW m2, m2 = Written(m, p.f, index(p.l, v0), set_table(fmt, Base + u))
  PROVE  /\ IsMem(m2)
         /\ \E lab2 : Tree(m2, u + 1, lab2)
         /\ \A v \in Span : Kept(m, m2, v)
<1> DEFINE lab2 == Labelled(lab, u, p, v0)
           i0 == index(p.l, v0)  e == set_table(fmt, Base + u)
<1>1. /\ Tree(m2, u + 1, lab2)
      /\ lab2[u] = [l |-> p.l - 1, n |-> pg(p.l, v0)]
      /\ SameLabels(u, lab, lab2)
      /\ \A i \in Index : m2[u][i] = Empty
  BY TableInTree
<1> HIDE DEF lab2
<1>2. p.f \in Tables /\ p.l \in 2 .. 4 /\ u \in 1 .. NFrames /\ u + 1 \in 1 .. NFrames /\ u <= u + 1
  BY PageTableAssumption DEF OnWay, Place
<1>3. i0 \in Index
  BY <1>2, PageNumbers
<1>4. /\ IsMem(m2)
      /\ OnlyAt(m, m2, p.f, i0)
  <2> HIDE DEF i0, e
  <2>1. m2 = Written(m, p.f, i0, e)
    BY DEF i0, e
  <2> DEFINE f0 == p.f
  <2>2. f0 \in Tables /\ m2 = Written(m, f0, i0, e)
    BY <1>2, <2>1
  <2> HIDE DEF f0
  <2>3. IsMem(m2) /\ OnlyAt(m, m2, f0, i0)
    BY <1>3, <2>2, SetEntry
  <2> QED
    BY <2>3 DEF f0
<1>5. ASSUME NEW v \in Span PROVE SameEntry(m, m2, v)
  <2>1. CASE pg(p.l, v) = pg(p.l, v0)
    <3> DEFINE w == get_entry(m, v)  w2 == get_entry(m2, v)  k == p.l - 1
    <3>1. entry(m, w, v) = Empty
      BY <1>2, <2>1, Within
    <3>2. k \in 1 .. 4 /\ k + 1 = p.l /\ v \in Nat
      BY <1>2, TopOnWay
    <3>3. u \in 0 .. (u + 1) - 1 /\ lab2[u].l = k /\ lab2[u].n = pg(k + 1, v)
      BY <1>1, <2>1, <3>2
    <3>4. For(u + 1, lab2, u, v)
      BY <3>3 DEF For
    <3>5. m2[u][index(lab2[u].l, v)] = Empty
      BY <1>1, <3>2, <3>3, PageNumbers
    <3>6. w2.f = u /\ w2.l = k
      BY <1>1, <1>2, <3>3, <3>4, <3>5, WayIs
    <3>7. entry(m2, w2, v) = Empty
      <4> HIDE DEF w2
      <4> QED
        BY <3>3, <3>5, <3>6 DEF entry
    <3> QED
      BY <3>1, <3>7 DEF SameEntry
  <2>2. CASE pg(p.l, v) # pg(p.l, v0)
    BY <1>1, <1>2, <1>4, <2>2, Elsewhere
  <2> QED
    BY <2>1, <2>2
<1>6. \A v \in Span : Kept(m, m2, v)
  BY <1>1, <1>2, <1>5, SameMapped
<1> QED
  BY <1>1, <1>4, <1>6

(* A leaf written or an entry cleared changes only its own page.            *)
LEMMA PageWritten ==
  ASSUME fmt \in Formats, NEW m, IsMem(m), NEW u \in 1 .. NFrames, NEW lab, Tree(m, u, lab),
         NEW v0 \in Nat, NEW p, OnWay(u, lab, p, v0),
         LET o == entry(m, p, v0) IN o = Empty \/ IsLeaf(o, p.l),
         NEW e, e = Empty \/ IsLeaf(e, p.l),
         NEW m2, m2 = Written(m, p.f, index(p.l, v0), e)
  PROVE  OnlyPageIs(m, m2, u, lab, p, v0, e)
<1> DEFINE i0 == index(p.l, v0)
<1>1. Tree(m2, u, lab)
  BY EntryInTree
<1>2. p.f \in Tables /\ p.l \in 1 .. 4 /\ u <= u
  BY DEF OnWay, Place
<1>3. i0 \in Index
  BY <1>2, PageNumbers
<1>4. /\ IsMem(m2) /\ m2[p.f][i0] = e
      /\ OnlyAt(m, m2, p.f, i0)
  <2> HIDE DEF i0
  <2>1. m2 = Written(m, p.f, i0, e)
    BY DEF i0
  <2> DEFINE f0 == p.f
  <2>2. f0 \in Tables /\ m2 = Written(m, f0, i0, e)
    BY <1>2, <2>1
  <2> HIDE DEF f0
  <2>3. /\ IsMem(m2) /\ m2[f0][i0] = e
        /\ OnlyAt(m, m2, f0, i0)
    BY <1>3, <2>2, SetEntry
  <2> QED
    BY <2>3 DEF f0
<1>5. ASSUME NEW v \in Span, pg(p.l, v) # pg(p.l, v0) PROVE Kept(m, m2, v)
  <2>1. SameEntry(m, m2, v)
    BY <1>1, <1>2, <1>4, <1>5, Elsewhere DEF SameLabels
  <2> QED
    BY <1>1, <2>1, SameMapped
<1>6. entry(m2, p, v0) = e
  BY <1>4 DEF entry
<1>7. ASSUME NEW v \in Span, pg(p.l, v) = pg(p.l, v0)
      PROVE  LET w == get_entry(m2, v) IN
             w.l = p.l /\ entry(m2, w, v) = e /\ (e # Empty => w.res = "ok")
  BY <1>1, <1>6, <1>7, Within
<1> QED
  BY <1>1, <1>4, <1>5, <1>7 DEF OnlyPageIs

(* A mapped page is found at its own host page with its flags.              *)
LEMMA MappedHost ==
  ASSUME fmt \in Formats, NEW m, NEW u \in 1 .. NFrames, NEW lab, Tree(m, u, lab),
         NEW v \in Span, NEW r \in Region, NEW lo, NEW hi, PageMapped(m, r, lo, hi, v)
  PROVE  LET w == get_entry(m, v)  e == entry(m, w, v) IN
         /\ w.res = "ok" /\ w.l \in 1 .. 3 /\ e # Empty /\ OnWay(u, lab, w, v) /\ IsLeaf(e, w.l)
         /\ e.addr + page_offset(w.l, v) = map_fn(r, v) /\ Host(m, v) = map_fn(r, v)
         /\ flags_of(e, fmt) \cap Carried(fmt) = r.flags \cap Carried(fmt)
<1> DEFINE w == get_entry(m, v)  e == entry(m, w, v)  s == align_down(w.l, v)
<1>1. v \in Nat /\ OnWay(u, lab, w, v) /\ Final(m, w, v)
  BY TopOnWay, GetEntry
<1>2. w.res = "ok" /\ w.l \in 1 .. 3 /\ e = PteOf(r, w.l, s)
  BY <1>1 DEF PageMapped, OnWay, Place
<1>3. e # Empty /\ e.addr = map_fn(r, s) /\ flags_of(e, fmt) \cap Carried(fmt) = r.flags \cap Carried(fmt)
  <2> HIDE DEF w
  <2> QED
    BY <1>2, PteIs
<1>4. s \in Nat /\ page_offset(w.l, v) = v - s
  <2>1. w.l \in 1 .. 4
    BY <1>2
  <2> HIDE DEF w
  <2> QED
    BY <1>1, <2>1, Aligned
<1>5. e.addr + page_offset(w.l, v) = map_fn(r, v)
  <2>1. r.start \in Nat /\ r.paddr \in Nat
    BY PageTableAssumption
  <2> HIDE DEF w, e, s
  <2> QED
    BY <1>1, <1>3, <1>4, <2>1 DEF map_fn
<1>6. Host(m, v) = map_fn(r, v)
  BY <1>2, <1>3, <1>5 DEF Host, is_unused
<1>7. IsLeaf(e, w.l)
  BY <1>1, <1>3 DEF Final
<1> QED
  BY <1>1, <1>2, <1>3, <1>5, <1>6, <1>7

(* One step of the walk of get_entry_mut_or_create goes down a level, or is *)
(* the last.                                                                *)
LEMMA CreateStep ==
  ASSUME fmt \in Formats, NEW m, NEW u \in 1 .. NFrames, NEW lab, Tree(m, u, lab),
         NEW v \in Nat, NEW p, OnWay(u, lab, p, v), NEW tl \in 1 .. 4, tl <= p.l,
         NEW q, q = go(m, v, tl, "unused")[p]
  PROVE  /\ OnWay(u, lab, q, v) /\ tl <= q.l
         /\ ends(m, p, v, tl, "unused") => q = p
         /\ ends(m, q, v, tl, "unused") \/ q.l = p.l - 1
<1>1. /\ OnWay(u, lab, q, v) /\ tl <= q.l
      /\ \/ q = p /\ ends(m, p, v, tl, "unused")
         \/ q.res # "ok"
         \/ q.l = p.l - 1
  <2>1. Stepped(m, u, lab, v, tl, "unused", p, q)
    BY StepOnWay
  <2> QED
    BY <2>1 DEF Stepped
<1>2. ends(m, p, v, tl, "unused") => q = p
  BY DEF OnWay, go
<1>3. q.res # "ok" => ends(m, q, v, tl, "unused")
  BY DEF ends
<1> QED
  BY <1>1, <1>2, <1>3

(* The walk of get_entry_mut_or_create ends at the level asked for, or at   *)
(* an empty entry above it, or fails.                                       *)
LEMMA CreateWalk ==
  ASSUME fmt \in Formats, NEW m, NEW u \in 1 .. NFrames, NEW lab, Tree(m, u, lab),
         NEW v \in Span, NEW tl \in 1 .. 3
  PROVE  LET w == walk(m, v, tl, "unused") IN
         /\ OnWay(u, lab, w, v) /\ tl <= w.l
         /\ w.res = "ok" /\ w.l # tl => entry(m, w, v) = Empty
<1> DEFINE step == go(m, v, tl, "unused")
           p1 == step[top]  p2 == step[p1]  p3 == step[p2]
           Ends(p) == ends(m, p, v, tl, "unused")
<1>1. walk(m, v, tl, "unused") = p3
  BY DEF walk
<1>2. v \in Nat /\ OnWay(u, lab, top, v) /\ top.l = Levels /\ Levels \in {3, 4} /\ tl \in 1 .. 4 /\ tl <= top.l
  BY TopOnWay, FormatIs
<1>3. OnWay(u, lab, p1, v) /\ tl <= p1.l /\ (Ends(p1) \/ p1.l = Levels - 1)
  <2> HIDE DEF step
  <2>1. OnWay(u, lab, p1, v) /\ tl <= p1.l /\ (Ends(p1) \/ p1.l = top.l - 1)
    BY <1>2, CreateStep DEF step
  <2> QED
    BY <1>2, <2>1
<1>4. OnWay(u, lab, p2, v) /\ tl <= p2.l /\ (Ends(p2) \/ p2.l = Levels - 2)
  <2> HIDE DEF p1
  <2>1. OnWay(u, lab, p2, v) /\ tl <= p2.l /\ (Ends(p1) => p2 = p1) /\ (Ends(p2) \/ p2.l = p1.l - 1)
    BY <1>2, <1>3, CreateStep
  <2> QED
    BY <1>2, <1>3, <2>1
<1>5. OnWay(u, lab, p3, v) /\ tl <= p3.l /\ (Ends(p3) \/ p3.l = Levels - 3)
  <2> HIDE DEF p2
  <2>1. OnWay(u, lab, p3, v) /\ tl <= p3.l /\ (Ends(p2) => p3 = p2) /\ (Ends(p3) \/ p3.l = p2.l - 1)
    BY <1>2, <1>4, CreateStep
  <2> QED
    BY <1>2, <1>4, <2>1
<1>6. Ends(p3)
  <2> HIDE DEF p3
  <2>1. p3.l = Levels - 3 => p3.l = tl
    BY <1>2, <1>5
  <2> QED
    BY <1>5, <2>1 DEF ends
<1>7. p3.res = "ok" /\ p3.l # tl => entry(m, p3, v) = Empty
  <2> HIDE DEF p3
  <2> QED
    BY <1>6 DEF ends, is_unused
<1> QED
  BY <1>1, <1>5, <1>7

(* A page mapped where nothing was.                                         *)
LEMMA LeafWritten ==
  ASSUME fmt \in Formats, NEW m, IsMem(m), NEW u \in 1 .. NFrames, NEW lab, Tree(m, u, lab),
         NEW v \in Span, NEW p, OnWay(u, lab, p, v), entry(m, p, v) = Empty,
         NEW l \in 1 .. 3, p.l = l, is_aligned(l, v), fmt[1] = "loongarch64" => l = 1,
         NEW r \in Region,
         NEW m2, m2 = Written(m, p.f, index(l, v), PteOf(r, l, v))
  PROVE  /\ IsMem(m2) /\ Tree(m2, u, lab)
         /\ \A x \in Span : x \in v .. v + PageSize(l) - 1 =>
              /\ Host(m, x) = -1 /\ Host(m2, x) = map_fn(r, x)
              /\ \A lo, hi : lo <= v /\ v + PageSize(l) <= hi => PageMapped(m2, r, lo, hi, x)
         /\ \A x \in Span : x \notin v .. v + PageSize(l) - 1 => Kept(m, m2, x)
<1> DEFINE e == PteOf(r, l, v)
<1>1. v \in Nat /\ l \in 1 .. 4 /\ \A x \in Span : x \in Nat
  BY TopOnWay
<1>2. IsLeaf(e, p.l) /\ e # Empty
  BY PteIs
<1> HIDE DEF e
<1>3. m2 = Written(m, p.f, index(p.l, v), e)
  BY DEF e
<1>4. /\ IsMem(m2) /\ Tree(m2, u, lab)
      /\ \A x \in Span : pg(l, x) # pg(l, v) => Kept(m, m2, x)
      /\ \A x \in Span : pg(l, x) = pg(l, v) =>
           LET w == get_entry(m2, x) IN w.l = l /\ entry(m2, w, x) = e /\ w.res = "ok"
  <2>1. OnlyPageIs(m, m2, u, lab, p, v, e)
    BY <1>1, <1>2, <1>3, PageWritten
  <2> QED
    BY <1>2, <2>1 DEF OnlyPageIs
<1>5. \A x \in Span : /\ pg(l, x) = pg(l, v) <=> x \in v .. v + PageSize(l) - 1
                      /\ pg(l, x) = pg(l, v) => align_down(l, x) = v
  BY <1>1, SamePage
<1>6. ASSUME NEW x \in Span, pg(l, x) = pg(l, v)
      PROVE  /\ Host(m, x) = -1 /\ Host(m2, x) = map_fn(r, x)
             /\ \A lo, hi : lo <= v /\ v + PageSize(l) <= hi => PageMapped(m2, r, lo, hi, x)
  <2>1. entry(m, get_entry(m, x), x) = Empty
    BY <1>1, <1>6, Within
  <2>2. Host(m, x) = -1
    BY <2>1 DEF Host, is_unused
  <2>3. align_down(l, x) = v /\ l < 4
    BY <1>5, <1>6
  <2>4. \A lo, hi : lo <= v /\ v + PageSize(l) <= hi => PageMapped(m2, r, lo, hi, x)
    BY <1>4, <1>6, <2>3 DEF PageMapped, e
  <2>5. v <= v /\ v + PageSize(l) <= v + PageSize(l)
    BY <1>1, PageSizes
  <2>6. PageMapped(m2, r, v, v + PageSize(l), x)
    BY <2>4, <2>5
  <2>7. Host(m2, x) = map_fn(r, x)
    BY <1>4, <2>6, MappedHost
  <2> QED
    BY <2>2, <2>4, <2>7
<1> QED
  BY <1>4, <1>5, <1>6

(* The page at whose start v lies cleared.                                  *)
LEMMA PageCleared ==
  ASSUME fmt \in Formats, NEW m, IsMem(m), NEW u \in 1 .. NFrames, NEW lab, Tree(m, u, lab),
         NEW v \in Span, NEW p, p = get_entry(m, v), is_aligned(p.l, v),
         NEW m2, m2 = Written(m, p.f, index(p.l, v), Empty)
  PROVE  /\ IsMem(m2) /\ Tree(m2, u, lab)
         /\ \A x \in Span : x \in v .. v + PageSize(p.l) - 1 => Host(m2, x) = -1
         /\ \A x \in Span : x \notin v .. v + PageSize(p.l) - 1 => Kept(m, m2, x)
<1>1. v \in Nat /\ OnWay(u, lab, p, v) /\ Final(m, p, v) /\ \A x \in Span : x \in Nat
  BY TopOnWay, GetEntry
<1>2. p.l \in 1 .. 4 /\ (entry(m, p, v) = Empty \/ IsLeaf(entry(m, p, v), p.l))
  BY <1>1 DEF OnWay, Place, Final
<1> DEFINE e == Empty  l == p.l
<1>3. e = Empty \/ IsLeaf(e, p.l)
  OBVIOUS
<1>4. m2 = Written(m, p.f, index(p.l, v), e)
  OBVIOUS
<1> HIDE DEF e, l
<1>5. /\ IsMem(m2) /\ Tree(m2, u, lab)
      /\ \A x \in Span : pg(p.l, x) # pg(p.l, v) => Kept(m, m2, x)
      /\ \A x \in Span : pg(p.l, x) = pg(p.l, v) => entry(m2, get_entry(m2, x), x) = e
  <2>1. OnlyPageIs(m, m2, u, lab, p, v, e)
    BY <1>1, <1>2, <1>3, <1>4, PageWritten
  <2> QED
    BY <2>1 DEF OnlyPageIs
<1>6. \A x \in Span : pg(p.l, x) = pg(p.l, v) <=> x \in v .. v + PageSize(p.l) - 1
  <2>1. l \in 1 .. 4 /\ is_aligned(l, v)
    BY <1>2 DEF l
  <2>2. \A x \in Span : pg(l, x) = pg(l, v) <=> x \in v .. v + PageSize(l) - 1
    BY <1>1, <2>1, SamePage
  <2> QED
    BY <2>2 DEF l
<1>7. \A x \in Span : pg(p.l, x) = pg(p.l, v) => Host(m2, x) = -1
  BY <1>5 DEF Host, is_unused, e
<1> QED
  BY <1>5, <1>6, <1>7

-----------------------------------------------------------------------------
(* Steps: the format stays what it is                                       *)

(* What is found in a memory does not change while the format stays.        *)
LEMMA SameFormat ==
  ASSUME fmt' = fmt, NEW m, NEW v
  PROVE  get_entry(m, v)' = get_entry(m, v)
<1>1. \A e : next_table(e)' = next_table(e)
  BY DEF next_table, next_table_mut, next_table_mut_loongarch64
<1>2. \A p, tl, at : ends(m, p, v, tl, at)' <=> ends(m, p, v, tl, at)
  BY DEF ends
<1>3. \A p : down(m, p, v)' = down(m, p, v)
  BY <1>1 DEF down
<1>4. top' = top
  BY DEF top, Levels
<1>5. go(m, v, 1, "huge")' = go(m, v, 1, "huge")
  BY <1>2, <1>3 DEF go
<1>6. walk(m, v, 1, "huge")' = walk(m, v, 1, "huge")
  BY <1>4, <1>5 DEF walk
<1> QED
  BY <1>6 DEF get_entry, get_entry_mut, get_entry_mut_riscv64, get_entry_mut_loongarch64

(* What is said of a memory does not change while the format stays.         *)
LEMMA SameMappedAs ==
  ASSUME fmt' = fmt, NEW m, NEW r, NEW lo, NEW hi
  PROVE  MappedAs(m, r, lo, hi)' <=> MappedAs(m, r, lo, hi)
<1>1. \A v : get_entry(m, v)' = get_entry(m, v)
  BY SameFormat
<1>2. \A l, v : PteOf(r, l, v)' = PteOf(r, l, v)
  BY DEF PteOf
<1>3. \A v : PageMapped(m, r, lo, hi, v)' <=> PageMapped(m, r, lo, hi, v)
  BY <1>1, <1>2 DEF PageMapped
<1> QED
  BY <1>3 DEF MappedAs

(* Nor does what makes the tables a tree.                                   *)
LEMMA SameTree ==
  ASSUME fmt' = fmt, NEW m, NEW u, NEW lab
  PROVE  Tree(m, u, lab)' <=> Tree(m, u, lab)
<1>1. \A f, i, g : Below(m, lab, f, i, g)' <=> Below(m, lab, f, i, g)
  BY DEF Below
<1>2. \A e, l : IsLeaf(e, l)' <=> IsLeaf(e, l)
  BY DEF IsLeaf
<1>3. Levels' = Levels
  BY DEF Levels
<1> QED
  BY <1>1, <1>2, <1>3 DEF Tree

(* Nor does the host page the MMU finds.                                    *)
LEMMA SameHost ==
  ASSUME fmt' = fmt, NEW m, NEW v
  PROVE  Host(m, v)' = Host(m, v)
BY SameFormat DEF Host

-----------------------------------------------------------------------------
(* Regions                                                                  *)

(* A non-empty set of numbers has a smallest one.                           *)
LEMMA SmallestOf ==
  ASSUME NEW T \in SUBSET Nat, T # {}
  PROVE  \E t \in T : \A y \in T : t <= y
<1> DEFINE R == OpToRel(<, Nat)
<1>1. R = {ss \in Nat \X Nat : ss[1] < ss[2]}
  BY Zenon DEF OpToRel
<1>2. IsWellFoundedOn(R, Nat)
  BY NatLessThanWellFounded, Zenon
<1> HIDE DEF R
<1>3. PICK t \in T : \A y \in T : ~(<<y, t>> \in R)
  BY <1>2, WFMin, Zenon
<1>4. ASSUME NEW y \in T PROVE t <= y
  <2>1. <<y, t>> \in Nat \X Nat /\ <<y, t>>[1] = y /\ <<y, t>>[2] = t
    OBVIOUS
  <2>2. ~(y < t)
    BY <1>1, <1>3, <2>1, Zenon
  <2> QED
    BY <2>2
<1> QED
  BY <1>4

(* A set of regions has a first one; below a bound, it has a last one.      *)
LEMMA FirstRegion ==
  ASSUME NEW R \in SUBSET Region, R # {}
  PROVE  first(R) \in R /\ \A s \in R : first(R).start <= s.start
<1> DEFINE T == {s.start : s \in R}
<1>1. T \in SUBSET Nat /\ T # {}
  BY PageTableAssumption
<1>2. PICK t \in T : \A y \in T : t <= y
  BY <1>1, SmallestOf
<1>3. \E r \in R : \A s \in R : r.start <= s.start
  BY <1>2
<1> QED
  BY <1>3 DEF first

(* A non-empty set of regions that start below a bound has a last one, as   *)
(* test_free_area looks up.                                                 *)
LEMMA LastRegion ==
  ASSUME NEW R \in SUBSET Region, R # {}, NEW b \in Nat, \A s \in R : s.start < b
  PROVE  \E r \in R : \A s \in R : s.start <= r.start
<1> DEFINE T == {b - s.start : s \in R}
<1>1. \A s \in R : s.start \in Nat /\ b - s.start \in Nat
  BY PageTableAssumption
<1>2. T \in SUBSET Nat /\ T # {}
  BY <1>1
<1>3. PICK t \in T : \A y \in T : t <= y
  BY <1>2, SmallestOf
<1>4. PICK r \in R : t = b - r.start
  BY <1>3
<1>5. \A s \in R : b - r.start <= b - s.start
  BY <1>3, <1>4
<1>6. \A s \in R : s.start <= r.start
  BY <1>1, <1>5
<1> QED
  BY <1>6

(* The pages of a region are within what the table reaches.                 *)
LEMMA RegionIs ==
  ASSUME fmt \in Formats, NEW r \in Region
  PROVE  /\ r.start \in Nat /\ r.size \in Nat /\ r.paddr \in Nat /\ End(r) \in Nat
         /\ End(r) = r.start + r.size
         /\ \A v \in r.start .. End(r) - 1 : v \in Span
<1>1. r.start \in Nat /\ r.size \in Nat /\ r.paddr \in Nat
  BY PageTableAssumption
<1>2. r.start + r.size <= Reach
  BY PageTableAssumption DEF Reach, Levels
<1>3. Reach \in Nat
  BY FormatIs, PageSizes DEF Reach
<1> QED
  BY <1>1, <1>2, <1>3 DEF End, Span

(* test_free_area looks at two regions of a set of regions that are apart;  *)
(* a region for which it holds is apart from all of them.                   *)
LEMMA FreeArea ==
  ASSUME NEW r \in Region, r.size > 0, regions \subseteq Region,
         \A a \in regions : a.size > 0 /\ \A b \in regions \ {a} : Apart(a, b),
         test_free_area(r)
  PROVE  \A s \in regions : Apart(r, s)
<1> DEFINE before == {s \in regions : s.start < r.start}  after == regions \ before
<1>1. \A s \in Region : s.start \in Nat /\ s.size \in Nat
  BY PageTableAssumption
<1>2. /\ \A s \in before : (\A t \in before : t.start <= s.start) => ~is_overlap_with(s, r)
      /\ \A s \in after : (\A t \in after : t.start >= s.start) => ~is_overlap_with(s, r)
  BY DEF test_free_area
<1>3. ASSUME NEW s \in before PROVE Apart(r, s)
  <2>1. before \in SUBSET Region /\ before # {} /\ r.start \in Nat /\ \A t \in before : t.start < r.start
    BY <1>1, <1>3
  <2> HIDE DEF before, after
  <2>2. PICK m \in before : \A t \in before : t.start <= m.start
    BY <2>1, LastRegion
  <2>3. ~is_overlap_with(m, r)
    BY <1>2, <2>2
  <2>4. End(m) <= r.start
    BY <1>1, <2>1, <2>2, <2>3 DEF is_overlap_with, End
  <2>5. s = m \/ End(s) <= m.start
    <3> SUFFICES ASSUME s # m PROVE End(s) <= m.start
      OBVIOUS
    <3>1. s \in regions /\ m \in regions
      BY <1>3, <2>2 DEF before
    <3>2. Apart(m, s) /\ m.size > 0
      BY <3>1
    <3> QED
      BY <1>1, <1>3, <2>1, <2>2, <3>2 DEF Apart, End
  <2> QED
    BY <1>1, <1>3, <2>1, <2>2, <2>4, <2>5 DEF Apart, End
<1>4. ASSUME NEW s \in after PROVE Apart(r, s)
  <2>1. after \in SUBSET Region /\ after # {} /\ \A t \in after : t.start >= r.start
    <3>1. \A t \in after : t \in Region /\ ~(t.start < r.start)
      OBVIOUS
    <3> HIDE DEF after, before
    <3> QED
      BY <1>1, <1>4, <3>1
  <2> HIDE DEF before, after
  <2>2. first(after) \in after /\ \A t \in after : first(after).start <= t.start
    BY <2>1, FirstRegion
  <2> DEFINE m == first(after)
  <2>3. m \in Region /\ \A t \in after : t.start >= m.start
    BY <1>1, <2>1, <2>2
  <2> HIDE DEF m
  <2>4. ~is_overlap_with(m, r) /\ m \in after
    BY <1>2, <2>2, <2>3 DEF m
  <2>5. End(r) <= m.start
    <3>1. m.size > 0 /\ m.start >= r.start
      BY <2>1, <2>4 DEF after
    <3> QED
      BY <1>1, <2>3, <2>4, <3>1 DEF is_overlap_with, End
  <2> QED
    BY <1>1, <1>4, <2>1, <2>3, <2>5 DEF Apart, End
<1> QED
  BY <1>3, <1>4

-----------------------------------------------------------------------------
(* The invariant                                                            *)

(* Nothing is in an empty memory.                                           *)
LEMMA EmptyMemory ==
  ASSUME fmt \in Formats, NEW m, m = [f \in Tables |-> [i \in Index |-> Empty]]
  PROVE  /\ IsMem(m) /\ \E lab : Tree(m, 1, lab)
         /\ \A v \in Span : Host(m, v) = -1
<1> DEFINE lab == [f \in Tables |-> IF f = 0 THEN [l |-> Levels, n |-> 0] ELSE [l |-> 1, n |-> 0]]
<1>1. Levels \in {3, 4} /\ 0 \in Tables /\ 1 \in 1 .. NFrames
  BY FormatIs, PageTableAssumption DEF Tables
<1>2. \A f \in Tables, i \in Index : m[f][i] = Empty
  OBVIOUS
<1>3. IsMem(m)
  BY DEF IsMem
<1>4. lab \in [Tables -> [l : 1 .. Levels, n : Nat]] /\ lab[0] = [l |-> Levels, n |-> 0]
  BY <1>1
<1>5. Tree(m, 1, lab)
  <2> HIDE DEF lab
  <2> QED
    BY <1>2, <1>4 DEF Tree
<1> HIDE DEF lab
<1>6. ASSUME NEW v \in Span PROVE Host(m, v) = -1
  <2> DEFINE w == get_entry(m, v)
  <2>1. OnWay(1, lab, w, v) /\ v \in Nat
    BY <1>1, <1>5, GetEntry, TopOnWay
  <2>2. w.f \in Tables /\ w.l \in 1 .. 4
    BY <2>1 DEF OnWay, Place
  <2>3. entry(m, w, v) = Empty
    BY <1>2, <2>1, <2>2, PageNumbers DEF entry
  <2> QED
    BY <2>3 DEF Host, is_unused
<1> QED
  BY <1>3, <1>5, <1>6

(* The page table that MemorySet::new makes, its root and no region,        *)
(* satisfies the invariant.                                                 *)
THEOREM InitInv == TableInit => TableInv
<1> SUFFICES ASSUME TableInit PROVE TableInv
  OBVIOUS
<1>1. fmt \in Formats /\ mem = [f \in Tables |-> [i \in Index |-> Empty]] /\ used = 1
      /\ regions = {} /\ (ptjob = NoJob \/ ptjob = Lost)
  BY DEF TableInit, rootJobs
<1>2. IsMem(mem) /\ \E lab : Tree(mem, used, lab)
  BY <1>1, EmptyMemory
<1>3. used \in 1 .. NFrames /\ NoJob.op = "none" /\ Lost.op = "lost"
  BY <1>1, PageTableAssumption DEF NoJob, Lost
<1> QED
  BY <1>1, <1>2, <1>3 DEF TableInv, TableShape, JobIs, MapJob, UnmapJob, Held

(* What stays when the memory does.                                         *)
LEMMA SameMemory ==
  ASSUME UNCHANGED <<fmt, mem, used>>
  PROVE  /\ \A r, lo, hi : MappedAs(mem, r, lo, hi)' <=> MappedAs(mem, r, lo, hi)
         /\ (\E lab : Tree(mem, used, lab)) => (\E lab : Tree(mem, used, lab))'
<1>1. \A m, r, lo, hi : MappedAs(m, r, lo, hi)' <=> MappedAs(m, r, lo, hi)
  BY SameMappedAs
<1>2. \A m, u, lab : Tree(m, u, lab)' <=> Tree(m, u, lab)
  BY SameTree
<1>3. \A lab : Tree(mem, used, lab)' <=> Tree(mem, used, lab)
  BY <1>2
<1>4. \A r, lo, hi : MappedAs(mem, r, lo, hi)' <=> MappedAs(mem, r, lo, hi)
  BY <1>1
<1> QED
  BY <1>3, <1>4

(* MemorySet::insert begins to map a region that is apart from all regions  *)
(* of the set.                                                              *)
LEMMA InsertInv ==
  ASSUME TableInv, NEW r \in Region, InsertRegion(r)
  PROVE  TableInv'
<1>1. /\ ptjob = NoJob /\ r.size > 0 /\ test_free_area(r)
      /\ ptjob' = [op |-> "map", r |-> r, vaddr |-> r.start, size |-> r.size]
      /\ UNCHANGED <<fmt, mem, used, regions>>
  BY DEF InsertRegion
<1>2. TableShape /\ Held /\ fmt \in Formats /\ ptjob.op = "none"
  BY <1>1 DEF TableInv, TableShape, NoJob
<1>3. TableShape'
  BY <1>1, <1>2 DEF TableShape
<1>4. ptjob'.op = "map" /\ ptjob'.r = r /\ ptjob'.vaddr = r.start /\ ptjob'.size = r.size
  BY <1>1
<1>5. JobIs' /\ UnmapJob'
  BY <1>4 DEF JobIs, UnmapJob
<1>6. MapJob'
  <2>1. \A s \in regions : Apart(r, s)
    BY <1>1, <1>2, FreeArea DEF TableShape
  <2>2. r.start \in Nat /\ r.size \in Nat /\ r.start + r.size = End(r)
    BY <1>2, RegionIs
  <2>3. MappedAs(mem, r, r.start, r.start)
    BY <2>2 DEF MappedAs
  <2>4. MappedAs(mem, r, r.start, r.start)'
    BY <1>1, <2>3, SameMemory
  <2> QED
    BY <1>1, <1>4, <2>1, <2>2, <2>4 DEF MapJob
<1>7. Held'
  BY <1>1, <1>2, SameMemory DEF Held
<1> QED
  BY <1>1, <1>3, <1>5, <1>6, <1>7, SameMemory DEF TableInv

(* MemorySet::insert records a region all of whose pages are mapped.        *)
LEMMA InsertedInv ==
  ASSUME TableInv, Inserted
  PROVE  TableInv'
<1>1. /\ ptjob.op = "map" /\ ptjob.size = 0
      /\ regions' = regions \cup {ptjob.r} /\ ptjob' = NoJob
      /\ UNCHANGED <<fmt, mem, used>>
  BY DEF Inserted
<1> DEFINE r == ptjob.r
<1>2. TableShape /\ Held /\ MapJob /\ fmt \in Formats
  BY DEF TableInv, TableShape
<1>3. /\ r \in Region /\ r.size > 0 /\ \A s \in regions : Apart(r, s)
      /\ ptjob.vaddr \in Nat /\ ptjob.vaddr + ptjob.size = End(r)
      /\ MappedAs(mem, r, r.start, ptjob.vaddr)
  BY <1>1, <1>2 DEF MapJob
<1> HIDE DEF r
<1>4. ptjob.vaddr = End(r)
  BY <1>1, <1>3
<1>5. TableShape'
  <2>1. \A s \in regions : Apart(s, r)
    BY <1>3 DEF Apart
  <2> QED
    BY <1>1, <1>2, <1>3, <2>1 DEF TableShape, r
<1>6. ptjob'.op = "none"
  BY <1>1 DEF NoJob
<1>7. JobIs' /\ UnmapJob' /\ MapJob'
  BY <1>1, <1>6 DEF JobIs, UnmapJob, MapJob, NoJob
<1>8. Held'
  <2>1. \A s \in regions' : MappedAs(mem, s, s.start, End(s))
    BY <1>1, <1>2, <1>3, <1>4 DEF Held, r
  <2> QED
    BY <1>1, <2>1, SameMemory DEF Held
<1> QED
  BY <1>1, <1>5, <1>7, <1>8, SameMemory DEF TableInv

(* An insertion that fails half-way leaves its pages mapped, but no region  *)
(* of the set loses one.                                                    *)
LEMMA FailInv ==
  ASSUME TableInv, ptjob.op = "map", ptjob' = NoJob, UNCHANGED <<fmt, mem, used, regions>>
  PROVE  TableInv'
<1>1. TableShape'
  BY DEF TableInv, TableShape
<1>2. ptjob'.op = "none"
  BY DEF NoJob
<1>3. JobIs' /\ UnmapJob' /\ MapJob'
  BY <1>2 DEF JobIs, UnmapJob, MapJob, NoJob
<1>4. Held'
  BY SameMemory DEF Held, TableInv
<1> QED
  BY <1>1, <1>3, <1>4, SameMemory DEF TableInv

(* MemorySet::clear takes the first region that is left, or is done.        *)
LEMMA UnmapJobIs ==
  ASSUME NEW todo \in SUBSET Region
  PROVE  \/ todo = {} /\ unmapJob(todo) = [op |-> "free"]
         \/ \E r \in todo :
              unmapJob(todo) = [op |-> "unmap", todo |-> todo \ {r}, vaddr |-> r.start, size |-> r.size]
BY FirstRegion DEF unmapJob

(* The next region to unmap, if one is left.                                *)
LEMMA UnmapJobInv ==
  ASSUME TableInv, NEW todo \in SUBSET regions, \A s \in todo : MappedAs(mem, s, s.start, End(s)),
         ptjob' = unmapJob(todo), UNCHANGED <<fmt, mem, used, regions>>
  PROVE  TableInv'
<1>1. TableShape' /\ fmt \in Formats /\ todo \in SUBSET Region
  BY DEF TableInv, TableShape
<1>2. CASE ptjob' = [op |-> "free"]
  <2>1. ptjob'.op = "free"
    BY <1>2
  <2> QED
    BY <1>1, <2>1, SameMemory DEF TableInv, JobIs, MapJob, UnmapJob, Held
<1>3. ASSUME NEW r \in todo,
             ptjob' = [op |-> "unmap", todo |-> todo \ {r}, vaddr |-> r.start, size |-> r.size]
      PROVE  TableInv'
  <2>1. ptjob'.op = "unmap" /\ ptjob'.todo = todo \ {r} /\ ptjob'.vaddr = r.start /\ ptjob'.size = r.size
    BY <1>3
  <2>2. JobIs' /\ MapJob' /\ Held'
    BY <2>1 DEF JobIs, MapJob, Held
  <2>3. r.start \in Nat /\ r.size \in Nat /\ r.start <= r.start /\ r.start + r.size = End(r)
    BY <1>1, RegionIs
  <2>4. UnmapJob'
    <3>1. \A s \in todo : MappedAs(mem, s, s.start, End(s))'
      BY SameMemory
    <3>2. r \in regions' \ ptjob'.todo
      BY <2>1
    <3> QED
      BY <1>3, <2>1, <2>3, <3>1, <3>2 DEF UnmapJob
  <2> QED
    BY <1>1, <2>2, <2>4, SameMemory DEF TableInv
<1> QED
  BY <1>1, <1>2, <1>3, UnmapJobIs

(* MemorySet::drop begins to clear a set whose regions are all mapped.      *)
LEMMA DropInv ==
  ASSUME TableInv, Drop
  PROVE  TableInv'
<1>1. ptjob.op = "none"
  BY DEF Drop, NoJob
<1> QED
  BY <1>1, UnmapJobInv DEF Drop, TableInv, Held

(* MemorySet::clear goes on to the next region.                             *)
LEMMA UnmapNextInv ==
  ASSUME TableInv, UnmapNext
  PROVE  TableInv'
<1>1. ptjob.todo \in SUBSET regions /\ \A s \in ptjob.todo : MappedAs(mem, s, s.start, End(s))
  BY DEF UnmapNext, TableInv, UnmapJob
<1> QED
  BY <1>1, UnmapJobInv DEF UnmapNext

(* The frames freed, the next set begins with an empty memory.              *)
LEMMA FreeInv ==
  ASSUME TableInv, Free
  PROVE  TableInv'
<1>1. /\ mem' = [f \in Tables |-> [i \in Index |-> Empty]] /\ used' = 1
      /\ regions' = {} /\ (ptjob' = NoJob \/ ptjob' = Lost) /\ fmt' = fmt /\ fmt \in Formats
  BY DEF Free, TableInv, TableShape, rootJobs
<1>2. IsMem(mem') /\ \E lab : Tree(mem', used', lab)
  BY <1>1, EmptyMemory
<1>3. (\E lab : Tree(mem, used, lab))'
  BY <1>1, <1>2, SameTree
<1>4. used' \in 1 .. NFrames /\ NoJob.op = "none" /\ Lost.op = "lost"
  BY <1>1, PageTableAssumption DEF NoJob, Lost
<1> QED
  BY <1>1, <1>2, <1>3, <1>4 DEF TableInv, TableShape, JobIs, MapJob, UnmapJob, Held

-----------------------------------------------------------------------------
(* Steps of map                                                             *)

(* The size of the next page fits what is left and both addresses.          *)
LEMMA PageFits ==
  ASSUME NEW r \in Region, NEW v \in Nat, r.start <= v, NEW n \in Nat \ {0},
         NEW l, l = page_size(r, v, n) \/ l = page_size_loongarch64(r, v, n)
  PROVE  /\ l \in 1 .. 3 /\ PageSize(l) <= n /\ is_aligned(l, v)
         /\ align_down(l, map_fn(r, v)) = map_fn(r, v)
         /\ l > 1 => "NO_HUGEPAGES" \notin r.flags
<1> DEFINE a == map_fn(r, v)
<1>1. a \in Nat
  BY PageTableAssumption DEF map_fn
<1>2. /\ l \in 1 .. 3
      /\ l > 1 => /\ is_aligned(l, v) /\ is_aligned(l, a) /\ n >= PageSize(l)
                  /\ "NO_HUGEPAGES" \notin r.flags
  BY DEF page_size, page_size_loongarch64
<1> HIDE DEF a
<1>3. l = 1 => is_aligned(l, v) /\ is_aligned(l, a) /\ n >= PageSize(l)
  BY <1>1, PageSizes DEF is_aligned, page_offset
<1>4. l = 1 \/ l > 1
  BY <1>2
<1>5. is_aligned(l, v) /\ is_aligned(l, a) /\ n >= PageSize(l) /\ PageSize(l) \in Nat
  BY <1>2, <1>3, <1>4, PageSizes
<1>6. align_down(l, a) = a
  BY <1>1, <1>5 DEF align_down, is_aligned
<1> QED
  BY <1>2, <1>5, <1>6 DEF a

(* The next step of map, whatever the architecture.                         *)
LEMMA MapIs ==
  ASSUME TableInv, map_aarch64 \/ map_riscv64 \/ map_loongarch64
  PROVE  \E l \in 1 .. 3 :
           /\ mapStep(l, walk(mem, ptjob.vaddr, l, "unused"), ptjob.r.flags)
           /\ ptjob.op = "map" /\ fmt' = fmt
           /\ PageSize(l) <= ptjob.size /\ is_aligned(l, ptjob.vaddr)
           /\ align_down(l, map_fn(ptjob.r, ptjob.vaddr)) = map_fn(ptjob.r, ptjob.vaddr)
           /\ fmt[1] = "loongarch64" => l = 1
<1> DEFINE r == ptjob.r  v == ptjob.vaddr  n == ptjob.size  F == ptjob.r.flags
           S == page_size(r, v, n)  T == page_size_loongarch64(r, v, n)
<1>1. ptjob.op = "map" /\ n > 0 /\ fmt' = fmt
  BY DEF map_aarch64, map_riscv64, map_loongarch64, Mapping
<1>2. r \in Region /\ v \in Nat /\ r.start <= v /\ n \in Nat \ {0}
  BY <1>1 DEF TableInv, MapJob
<1>3. \A l : l = S \/ l = T =>
        /\ l \in 1 .. 3 /\ PageSize(l) <= n /\ is_aligned(l, v)
        /\ align_down(l, map_fn(r, v)) = map_fn(r, v)
        /\ l > 1 => "NO_HUGEPAGES" \notin F
  <2> HIDE DEF r, v, n, F
  <2> QED
    BY <1>2, PageFits DEF r, F
<1>4. CASE map_aarch64
  <2>1. fmt[1] = "aarch64" /\ mapStep(S, walk(mem, v, S, "unused"), F)
    BY <1>4 DEF map_aarch64, Mapping, map_page, get_entry_mut_or_create
  <2> HIDE DEF S, T
  <2> QED
    BY <1>1, <1>3, <2>1
<1>5. CASE map_riscv64
  <2>1. /\ fmt[1] = "riscv64"
        /\ mapStep(S, walk(mem, v, S, "unused"), IF S > 1 THEN F \ {"NO_HUGEPAGES"} ELSE F)
    BY <1>5 DEF map_riscv64, Mapping, map_page_riscv64, get_entry_mut_or_create_riscv64, get_entry_mut_or_create
  <2>2. S > 1 => F \ {"NO_HUGEPAGES"} = F
    <3> HIDE DEF S, T, F
    <3> QED
      BY <1>3
  <2>3. mapStep(S, walk(mem, v, S, "unused"), F)
    BY <2>1, <2>2
  <2> HIDE DEF S, T
  <2> QED
    BY <1>1, <1>3, <2>1, <2>3
<1>6. CASE map_loongarch64
  <2>1. mapStep(T, walk(mem, v, T, "unused"), F) /\ T = 1
    BY <1>6 DEF map_loongarch64, Mapping, map_page_loongarch64, page_size_loongarch64, get_entry_mut_or_create
  <2> HIDE DEF S, T
  <2> QED
    BY <1>1, <1>3, <2>1
<1> QED
  BY <1>4, <1>5, <1>6

(* A step of map makes a table, writes a leaf for the next page, or fails.  *)
LEMMA MapDoes ==
  ASSUME TableInv, map_aarch64 \/ map_riscv64 \/ map_loongarch64
  PROVE  TableStep \/ (\E l \in 1 .. 3 : LeafStep(l)) \/ FailStep
<1> DEFINE r == ptjob.r  v == ptjob.vaddr
<1>1. PICK l \in 1 .. 3 :
           /\ mapStep(l, walk(mem, v, l, "unused"), r.flags)
           /\ ptjob.op = "map" /\ fmt' = fmt
           /\ PageSize(l) <= ptjob.size /\ is_aligned(l, v)
           /\ align_down(l, map_fn(r, v)) = map_fn(r, v)
           /\ fmt[1] = "loongarch64" => l = 1
  BY MapIs
<1> DEFINE w == walk(mem, v, l, "unused")  e == entry(mem, w, v)
<1>2. /\ fmt \in Formats /\ IsMem(mem) /\ used \in 1 .. NFrames /\ r \in Region
      /\ v \in Nat /\ ptjob.size \in Nat /\ r.start <= v /\ v + ptjob.size = End(r)
  BY <1>1 DEF TableInv, TableShape, MapJob
<1>3. PICK lab : Tree(mem, used, lab)
  BY DEF TableInv
<1>4. v \in Span
  <2>1. PageSize(l) > 0 /\ PageSize(l) \in Nat
    BY PageSizes
  <2>2. v \in r.start .. End(r) - 1
    BY <1>1, <1>2, <2>1, RegionIs
  <2> QED
    BY <1>2, <2>2, RegionIs
<1>5. OnWay(used, lab, w, v) /\ l <= w.l /\ (w.res = "ok" /\ w.l # l => e = Empty)
  BY <1>2, <1>3, <1>4, CreateWalk
<1>6. mapStep(l, w, r.flags)
  BY <1>1
<1> HIDE DEF w, r, v
<1>7. CASE w.res = "ok" /\ w.l # l /\ next_table_mut_or_create(w)
  <2>1. /\ used < NFrames /\ used' = used + 1 /\ UNCHANGED <<ptjob, regions>>
        /\ mem' = Written(mem, w.f, index(w.l, v), set_table(fmt, Base + used))
    BY <1>7 DEF next_table_mut_or_create, setEntry, Written, v
  <2>2. used \in 1 .. NFrames - 1 /\ w.l > 1 /\ used' \in 1 .. NFrames
    BY <1>2, <1>5, <1>7, <2>1, PageTableAssumption DEF OnWay, Place
  <2>3. IsMem(mem') /\ (\E lab2 : Tree(mem', used + 1, lab2)) /\ \A x \in Span : Kept(mem, mem', x)
    BY <1>2, <1>3, <1>5, <1>7, <2>1, <2>2, TableMade
  <2> QED
    BY <1>1, <2>1, <2>2, <2>3 DEF TableStep
<1>8. CASE /\ w.res = "ok" /\ w.l = l /\ is_unused(e)
           /\ setEntry(w, v, set_flags(set_addr(Empty, align_down(l, map_fn(r, v))), fmt, r.flags, l > 1))
           /\ ptjob' = [ptjob EXCEPT !.vaddr = v + PageSize(l), !.size = @ - PageSize(l)]
           /\ UNCHANGED <<used, regions, failed>>
  <2>1. set_flags(set_addr(Empty, align_down(l, map_fn(r, v))), fmt, r.flags, l > 1) = PteOf(r, l, v)
    BY <1>1 DEF PteOf, set_addr, Empty, r, v
  <2>2. mem' = Written(mem, w.f, index(l, v), PteOf(r, l, v))
    BY <1>8, <2>1 DEF setEntry, Written
  <2>3. e = Empty /\ w.l = l /\ is_aligned(l, v) /\ (fmt[1] = "loongarch64" => l = 1)
    BY <1>1, <1>8 DEF is_unused, v
  <2>4. /\ IsMem(mem') /\ Tree(mem', used, lab)
        /\ \A x \in Span : x \in v .. v + PageSize(l) - 1 =>
             /\ Host(mem, x) = -1 /\ Host(mem', x) = map_fn(r, x)
             /\ \A lo, hi : lo <= v /\ v + PageSize(l) <= hi => PageMapped(mem', r, lo, hi, x)
        /\ \A x \in Span : x \notin v .. v + PageSize(l) - 1 => Kept(mem, mem', x)
    BY <1>2, <1>3, <1>4, <1>5, <2>2, <2>3, LeafWritten
  <2>5. LeafStep(l)
    BY <1>1, <1>8, <2>4 DEF LeafStep, Page, r, v
  <2> QED
    BY <2>5
<1>9. CASE ptjob' = NoJob /\ UNCHANGED <<mem, used, regions>>
  BY <1>1, <1>9 DEF FailStep
<1> QED
  BY <1>6, <1>7, <1>8, <1>9 DEF mapStep, r, v

(* A page that is mapped within some bounds is mapped within wider ones.    *)
LEMMA Wider ==
  ASSUME fmt \in Formats, NEW m, NEW u \in 1 .. NFrames, NEW lab, Tree(m, u, lab), NEW v \in Span, NEW r,
         NEW lo \in Nat, NEW hi \in Nat, PageMapped(m, r, lo, hi, v),
         NEW lo2 \in Nat, NEW hi2 \in Nat, lo2 <= lo, hi <= hi2
  PROVE  PageMapped(m, r, lo2, hi2, v)
<1> DEFINE w == get_entry(m, v)  s == align_down(w.l, v)
<1>1. OnWay(u, lab, w, v) /\ v \in Nat
  BY TopOnWay, GetEntry
<1>2. w.l \in 1 .. 4
  BY <1>1 DEF OnWay, Place
<1>3. s \in Nat /\ PageSize(w.l) \in Nat
  <2> HIDE DEF w
  <2> QED
    BY <1>1, <1>2, Aligned, PageSizes
<1>4. /\ w.res = "ok" /\ w.l < 4 /\ entry(m, w, v) = PteOf(r, w.l, s)
      /\ lo <= s /\ s + PageSize(w.l) <= hi
  BY DEF PageMapped
<1>5. lo2 <= s /\ s + PageSize(w.l) <= hi2
  <2> HIDE DEF w, s
  <2> QED
    BY <1>3, <1>4
<1> QED
  BY <1>4, <1>5 DEF PageMapped

(* What steps of map do to the invariant.                                   *)
LEMMA TableStepInv ==
  ASSUME TableInv, TableStep
  PROVE  TableInv'
<1>1. /\ UNCHANGED <<fmt, ptjob, regions>> /\ used' \in 1 .. NFrames
      /\ IsMem(mem') /\ \E lab : Tree(mem', used', lab)
      /\ \A x \in Span : Kept(mem, mem', x)
  BY DEF TableStep
<1>2. TableShape /\ fmt \in Formats
  BY DEF TableInv, TableShape
<1>3. TableShape' /\ JobIs'
  BY <1>1, <1>2 DEF TableShape, TableInv, JobIs
<1>4. (\E lab : Tree(mem, used, lab))'
  BY <1>1, SameTree
<1>5. ASSUME NEW r \in Region, NEW lo, NEW hi, MappedAs(mem, r, lo, hi),
             \A x \in lo .. hi - 1 : x \in Span
      PROVE  MappedAs(mem, r, lo, hi)'
  <2>1. MappedAs(mem', r, lo, hi)
    BY <1>1, <1>5 DEF MappedAs, Kept
  <2> QED
    BY <1>1, <2>1, SameMappedAs
<1>6. Held'
  BY <1>1, <1>2, <1>5, RegionIs DEF TableInv, TableShape, Held
<1>7. MapJob'
  <2>1. ptjob.op = "map" /\ MapJob
    BY DEF TableInv, TableStep
  <2>p. PICK r, v : r = ptjob.r /\ v = ptjob.vaddr
    OBVIOUS
  <2>2. r \in Region /\ v \in Nat /\ ptjob.size \in Nat /\ v + ptjob.size = End(r) /\ MappedAs(mem, r, r.start, v)
    BY <2>1, <2>p DEF MapJob
  <2>3. \A x \in r.start .. v - 1 : x \in Span
    <3>1. \A x \in r.start .. v - 1 : x \in r.start .. End(r) - 1
      BY <1>2, <2>2, RegionIs
    <3> QED
      BY <1>2, <2>2, <3>1, RegionIs
  <2>4. MappedAs(mem, r, r.start, v)'
    BY <1>5, <2>2, <2>3
  <2> QED
    BY <1>1, <2>1, <2>p, <2>4 DEF MapJob
<1>8. UnmapJob'
  BY <1>1 DEF UnmapJob, TableStep
<1> QED
  BY <1>3, <1>4, <1>6, <1>7, <1>8 DEF TableInv

(* The page of a leaf step is the region's, and in no other region.         *)
LEMMA LeafPage ==
  ASSUME TableInv, NEW l \in 1 .. 3, LeafStep(l)
  PROVE  /\ ptjob.r \in Region
         /\ \A x \in Page(l) : x \in ptjob.r.start .. End(ptjob.r) - 1 /\ x \in Span
         /\ \A s \in regions, x \in Page(l) : x \notin s.start .. End(s) - 1
<1> DEFINE r == ptjob.r  v == ptjob.vaddr
<1>1. ptjob.op = "map" /\ PageSize(l) <= ptjob.size
  BY DEF LeafStep
<1>2. /\ fmt \in Formats /\ regions \subseteq Region /\ r \in Region /\ v \in Nat /\ ptjob.size \in Nat
      /\ r.start <= v /\ v + ptjob.size = End(r)
      /\ \A s \in regions : Apart(r, s)
  BY <1>1 DEF TableInv, TableShape, MapJob
<1>3. \A s \in Region : s.start \in Nat /\ End(s) \in Nat
  BY <1>2, RegionIs
<1>4. PageSize(l) \in Nat
  BY PageSizes
<1> HIDE DEF r, v
<1>5. \A x \in v .. v + PageSize(l) - 1 : x \in r.start .. End(r) - 1
  BY <1>1, <1>2, <1>3, <1>4
<1>6. \A s \in regions : \A x \in r.start .. End(r) - 1 : x \notin s.start .. End(s) - 1
  BY <1>2, <1>3 DEF Apart
<1> QED
  BY <1>2, <1>5, <1>6, RegionIs DEF Page, r, v

(* A leaf written maps the next page of the region, and no page of a region *)
(* of the set is touched.                                                   *)
LEMMA LeafStepInv ==
  ASSUME TableInv, NEW l \in 1 .. 3, LeafStep(l)
  PROVE  TableInv'
<1>p. PICK r, v, n : r = ptjob.r /\ v = ptjob.vaddr /\ n = ptjob.size
  OBVIOUS
<1> DEFINE v2 == v + PageSize(l)
<1>1. /\ ptjob.op = "map" /\ PageSize(l) <= n /\ UNCHANGED <<fmt, used, regions>>
      /\ ptjob' = [ptjob EXCEPT !.vaddr = v2, !.size = n - PageSize(l)]
      /\ IsMem(mem') /\ \E lab : Tree(mem', used, lab)
      /\ \A x \in Span : x \notin Page(l) => Kept(mem, mem', x)
  BY <1>p DEF LeafStep
<1>a. \A x \in Span : x \in Page(l) =>
        \A lo, hi : lo <= v /\ v2 <= hi => PageMapped(mem', r, lo, hi, x)
  BY <1>p, Zenon DEF LeafStep
<1>2. TableShape /\ fmt \in Formats /\ regions \subseteq Region /\ used \in 1 .. NFrames
  BY DEF TableInv, TableShape
<1>3. /\ ptjob = [op |-> "map", r |-> r, vaddr |-> v, size |-> n]
      /\ r \in Region /\ r.size > 0 /\ \A s \in regions : Apart(r, s)
      /\ v \in Nat /\ n \in Nat /\ r.start <= v /\ v + n = End(r)
      /\ MappedAs(mem, r, r.start, v)
  BY <1>1, <1>p DEF TableInv, MapJob
<1>4. ptjob' = [op |-> "map", r |-> r, vaddr |-> v2, size |-> n - PageSize(l)]
  BY <1>1, <1>3
<1>5. PageSize(l) \in Nat /\ v2 \in Nat /\ v <= v2 /\ n - PageSize(l) \in Nat
      /\ v2 + (n - PageSize(l)) = End(r) /\ r.start \in Nat /\ r.start <= v2 /\ End(r) \in Nat
  BY <1>1, <1>2, <1>3, PageSizes, RegionIs
<1>6. TableShape' /\ JobIs'
  <2>1. ptjob'.op = "map"
    BY <1>4
  <2> QED
    BY <1>1, <1>2, <2>1 DEF TableShape, JobIs
<1>7. (\E lab : Tree(mem, used, lab))'
  BY <1>1, SameTree
<1>8. MapJob'
  <2>1. ASSUME NEW x \in r.start .. v2 - 1 PROVE PageMapped(mem', r, r.start, v2, x)
    <3>1. x \in Span
      BY <1>2, <1>3, <1>5, RegionIs
    <3>2. CASE x \in Page(l)
      <4>1. r.start <= v /\ v2 <= v2
        BY <1>3, <1>5
      <4> HIDE DEF v2
      <4> QED
        BY <1>a, <3>1, <3>2, <4>1
    <3>3. CASE x \notin Page(l)
      <4>1. x \in r.start .. v - 1
        BY <1>3, <1>5, <1>p, <3>3 DEF Page
      <4>2. PageMapped(mem, r, r.start, v, x)
        BY <1>3, <4>1 DEF MappedAs
      <4>3. PageMapped(mem, r, r.start, v2, x)
        BY <1>2, <1>3, <1>5, <3>1, <4>2, Wider DEF TableInv
      <4> QED
        BY <1>1, <1>3, <3>1, <3>3, <4>3 DEF Kept
    <3> QED
      BY <3>2, <3>3
  <2>2. MappedAs(mem', r, r.start, v2)
    BY <2>1 DEF MappedAs
  <2>3. MappedAs(mem, r, r.start, v2)'
    BY <1>1, <2>2, SameMappedAs
  <2>4. ptjob'.r = r /\ ptjob'.vaddr = v2 /\ ptjob'.size = n - PageSize(l)
    BY <1>4
  <2> HIDE DEF v2
  <2> QED
    BY <1>1, <1>3, <1>4, <1>5, <2>3, <2>4 DEF MapJob
<1>9. Held'
  <2>1. ASSUME NEW s \in regions PROVE MappedAs(mem, s, s.start, End(s))'
    <3>1. s \in Region /\ \A x \in s.start .. End(s) - 1 : x \in Span /\ x \notin Page(l)
      BY <1>2, LeafPage, RegionIs
    <3>2. MappedAs(mem, s, s.start, End(s))
      BY <1>1 DEF TableInv, Held
    <3>3. MappedAs(mem', s, s.start, End(s))
      BY <1>1, <3>1, <3>2 DEF MappedAs, Kept
    <3> QED
      BY <1>1, <3>3, SameMappedAs
  <2> QED
    BY <1>1, <2>1 DEF Held
<1>10. UnmapJob'
  <2>1. ptjob'.op = "map"
    BY <1>4
  <2> QED
    BY <2>1 DEF UnmapJob
<1> QED
  BY <1>6, <1>7, <1>8, <1>9, <1>10 DEF TableInv

-----------------------------------------------------------------------------
(* Steps of unmap                                                           *)

(* What is left of a region begins with a whole page.                       *)
LEMMA UnmapFinds ==
  ASSUME TableInv, ptjob.op = "unmap", ptjob.size > 0
  PROVE  LET v == ptjob.vaddr  w == get_entry(mem, v) IN
         /\ v \in Span /\ w.l \in 1 .. 3 /\ PageSize(w.l) <= ptjob.size /\ is_aligned(w.l, v)
         /\ ~unmap_panics /\ unmap_page(v).w = w
<1> DEFINE v == ptjob.vaddr  n == ptjob.size  w == get_entry(mem, v)  e == entry(mem, w, v)
           s == align_down(w.l, v)
<1>1. fmt \in Formats /\ used \in 1 .. NFrames /\ regions \subseteq Region /\ UnmapJob
  BY DEF TableInv, TableShape
<1>2. PICK lab : Tree(mem, used, lab)
  BY DEF TableInv
<1>3. PICK r \in regions : r.start <= v /\ v + n = End(r) /\ MappedAs(mem, r, v, End(r))
  BY <1>1 DEF UnmapJob
<1>4. v \in Nat /\ n \in Nat
  BY <1>1 DEF UnmapJob
<1>5. r \in Region /\ v \in v .. End(r) - 1 /\ v \in r.start .. End(r) - 1
  <2> HIDE DEF v
  <2>1. r \in Region /\ r.start \in Nat /\ End(r) \in Nat
    BY <1>1, RegionIs
  <2> QED
    BY <1>3, <1>4, <2>1
<1>6. v \in Span /\ PageMapped(mem, r, v, End(r), v)
  BY <1>1, <1>3, <1>5, RegionIs DEF MappedAs
<1>7. w.res = "ok" /\ w.l \in 1 .. 3 /\ e # Empty
  <2> HIDE DEF v
  <2> QED
    BY <1>1, <1>2, <1>5, <1>6, MappedHost
<1>8. v <= s /\ s + PageSize(w.l) <= End(r)
  BY <1>6 DEF PageMapped
<1> HIDE DEF v, w
<1>9. s \in Nat /\ s <= v /\ is_aligned(w.l, s) /\ PageSize(w.l) \in Nat
  <2> DEFINE l == w.l
  <2>1. l \in 1 .. 4
    BY <1>7
  <2> HIDE DEF l
  <2>2. align_down(l, v) \in Nat /\ is_aligned(l, align_down(l, v)) /\ align_down(l, v) <= v /\ PageSize(l) \in Nat
    BY <1>4, <2>1, Aligned, PageSizes
  <2> QED
    BY <2>2 DEF l
<1>10. s = v /\ PageSize(w.l) <= n
  <2> HIDE DEF s
  <2>1. s = v
    BY <1>4, <1>8, <1>9
  <2>2. v + PageSize(w.l) <= v + n
    BY <1>3, <1>8, <2>1
  <2> QED
    BY <1>4, <1>9, <2>1, <2>2
<1>11. unmap_page(v) = [w |-> w, ok |-> TRUE]
  BY <1>7 DEF unmap_page, is_unused, w
<1>12. ~unmap_panics
  <2>1. unmap_page(ptjob.vaddr) = [w |-> w, ok |-> TRUE] /\ is_aligned(w.l, ptjob.vaddr)
        /\ PageSize(w.l) <= ptjob.size /\ ptjob.size \in Nat /\ PageSize(w.l) \in Nat
    BY <1>4, <1>9, <1>10, <1>11 DEF v
  <2> QED
    BY <2>1 DEF unmap_panics
<1>13. unmap_page(v).w = w
  BY <1>11
<1> QED
  BY <1>6, <1>7, <1>9, <1>10, <1>12, <1>13 DEF v, w

(* A step of unmap finds a page to clear, and clears that one.              *)
LEMMA UnmapDoes ==
  ASSUME TableInv, unmap_aarch64 \/ unmap_riscv64 \/ unmap_loongarch64
  PROVE  \E l \in 1 .. 3 : ClearStep(l)
<1>p. PICK v, w : v = ptjob.vaddr /\ w = get_entry(mem, v)
  OBVIOUS
<1>1. /\ ptjob.op = "unmap" /\ ptjob.size > 0 /\ UNCHANGED <<fmt, used, regions>>
      /\ setEntry(unmap_page(ptjob.vaddr).w, ptjob.vaddr, Empty)
      /\ ptjob' = [ptjob EXCEPT !.vaddr = @ + PageSize(unmap_page(ptjob.vaddr).w.l),
                                !.size = @ - PageSize(unmap_page(ptjob.vaddr).w.l)]
  BY DEF unmap_aarch64, unmap_riscv64, unmap_loongarch64, unmapStep
<1>2. /\ fmt \in Formats /\ IsMem(mem) /\ used \in 1 .. NFrames
      /\ ptjob = [op |-> "unmap", todo |-> ptjob.todo, vaddr |-> ptjob.vaddr, size |-> ptjob.size]
  BY <1>1 DEF TableInv, TableShape, UnmapJob
<1>3. PICK lab : Tree(mem, used, lab)
  BY DEF TableInv
<1>4. v \in Span /\ w.l \in 1 .. 3 /\ PageSize(w.l) <= ptjob.size /\ is_aligned(w.l, v)
      /\ unmap_page(ptjob.vaddr).w = w
  BY <1>1, <1>p, UnmapFinds
<1>5. mem' = Written(mem, w.f, index(w.l, v), Empty)
  BY <1>1, <1>4, <1>p DEF setEntry, Written
<1>6. /\ IsMem(mem') /\ Tree(mem', used, lab)
      /\ \A x \in Span : x \in v .. v + PageSize(w.l) - 1 => Host(mem', x) = -1
      /\ \A x \in Span : x \notin v .. v + PageSize(w.l) - 1 => Kept(mem, mem', x)
  BY <1>2, <1>3, <1>4, <1>5, <1>p, PageCleared
<1>7. ptjob' = [ptjob EXCEPT !.vaddr = ptjob.vaddr + PageSize(w.l), !.size = ptjob.size - PageSize(w.l)]
  BY <1>1, <1>4
<1>8. ClearStep(w.l)
  BY <1>1, <1>4, <1>6, <1>7, <1>p DEF ClearStep, Page
<1> QED
  BY <1>4, <1>8

(* The pages found from v on follow the page that begins with v.            *)
LEMMA NextPage ==
  ASSUME fmt \in Formats, NEW m, NEW u \in 1 .. NFrames, NEW lab, Tree(m, u, lab),
         NEW v \in Span, NEW l, l = get_entry(m, v).l, is_aligned(l, v),
         NEW x \in Span, v + PageSize(l) <= x,
         NEW k, k = get_entry(m, x).l, v <= align_down(k, x)
  PROVE  v + PageSize(l) <= align_down(k, x)
<1>p. PICK s : s = align_down(k, x)
  OBVIOUS
<1>1. /\ v \in Nat /\ x \in Nat /\ OnWay(u, lab, get_entry(m, v), v) /\ OnWay(u, lab, get_entry(m, x), x)
  BY TopOnWay, GetEntry
<1>2. l \in 1 .. 4 /\ k \in 1 .. 4
  BY <1>1 DEF OnWay, Place
<1>3. s \in Nat /\ is_aligned(k, s) /\ s <= x /\ x < s + PageSize(k) /\ PageSize(k) \in Nat /\ PageSize(l) \in Nat
  BY <1>1, <1>2, <1>p, Aligned, PageSizes
<1> SUFFICES ASSUME s < v + PageSize(l) PROVE FALSE
  BY <1>1, <1>3, <1>p
<1>4. s \in Span /\ s \in v .. v + PageSize(l) - 1 /\ x \in s .. s + PageSize(k) - 1
  <2>1. Reach \in Nat
    BY FormatIs, PageSizes DEF Reach
  <2> QED
    BY <1>1, <1>3, <1>p, <2>1 DEF Span
<1>5. pg(l, s) = pg(l, v)
  BY <1>1, <1>2, <1>3, <1>4, SamePage
<1>6. pg(k, s) = pg(k, x)
  BY <1>1, <1>2, <1>3, <1>4, SamePage
<1>7. l = k
  BY <1>4, <1>5, <1>6, OneEnd
<1>8. pg(l, x) = pg(l, v)
  BY <1>5, <1>6, <1>7
<1>9. x \in v .. v + PageSize(l) - 1
  BY <1>1, <1>2, <1>8, SamePage
<1> QED
  BY <1>1, <1>3, <1>9

(* A page cleared is none of a region that clear has yet to unmap, nor of   *)
(* what is left of this one.                                                *)
LEMMA ClearStepInv ==
  ASSUME TableInv, NEW l \in 1 .. 3, ClearStep(l)
  PROVE  TableInv'
<1>p. PICK v, n, todo : v = ptjob.vaddr /\ n = ptjob.size /\ todo = ptjob.todo
  OBVIOUS
<1> DEFINE v2 == v + PageSize(l)  n2 == n - PageSize(l)
<1>1. /\ ptjob.op = "unmap" /\ PageSize(l) <= n /\ UNCHANGED <<fmt, used, regions>>
      /\ l = get_entry(mem, v).l
      /\ ptjob' = [ptjob EXCEPT !.vaddr = v2, !.size = n2]
      /\ IsMem(mem') /\ \E lab : Tree(mem', used, lab)
      /\ \A x \in Span : x \notin Page(l) => Kept(mem, mem', x)
  BY <1>p DEF ClearStep
<1>2. TableShape /\ fmt \in Formats /\ regions \subseteq Region /\ used \in 1 .. NFrames
      /\ \A a \in regions : \A b \in regions \ {a} : Apart(a, b)
  BY DEF TableInv, TableShape
<1>3. /\ ptjob = [op |-> "unmap", todo |-> todo, vaddr |-> v, size |-> n]
      /\ todo \subseteq regions
      /\ \A s \in todo : MappedAs(mem, s, s.start, End(s))
      /\ v \in Nat /\ n \in Nat
  BY <1>1, <1>p DEF TableInv, UnmapJob
<1>4. PICK r \in regions \ todo : r.start <= v /\ v + n = End(r) /\ MappedAs(mem, r, v, End(r))
  BY <1>1, <1>p DEF TableInv, UnmapJob
<1>5. PICK lab : Tree(mem, used, lab)
  BY DEF TableInv
<1>6. /\ PageSize(l) \in Nat \ {0} /\ v2 \in Nat /\ n2 \in Nat /\ v2 + n2 = End(r) /\ r \in Region
      /\ r.start \in Nat /\ End(r) \in Nat /\ r.start <= v2 /\ v <= v2
  BY <1>1, <1>2, <1>3, <1>4, PageSizes, RegionIs
<1>7. v \in Span /\ is_aligned(l, v)
  <2>1. ptjob.size > 0
    BY <1>1, <1>3, <1>6, <1>p
  <2> QED
    BY <1>1, <1>p, <2>1, UnmapFinds
<1>8. Page(l) = v .. v2 - 1
  BY <1>3, <1>6, <1>p DEF Page
<1>9. ptjob' = [op |-> "unmap", todo |-> todo, vaddr |-> v2, size |-> n2]
  BY <1>1, <1>3
<1>10. TableShape' /\ JobIs' /\ MapJob' /\ Held'
  <2>1. ptjob'.op = "unmap"
    BY <1>9
  <2> QED
    BY <1>1, <1>2, <2>1 DEF TableShape, JobIs, MapJob, Held
<1>11. (\E lb : Tree(mem, used, lb))'
  BY <1>1, SameTree
<1> HIDE DEF v2, n2
<1>12. ASSUME NEW s \in todo PROVE MappedAs(mem, s, s.start, End(s))'
  <2>0. s \in regions \ {r} /\ r \in regions
    BY <1>3, <1>4
  <2>a. s \in Region /\ Apart(r, s)
    BY <1>2, <2>0
  <2>1. s.start \in Nat /\ End(s) \in Nat /\ \A x \in s.start .. End(s) - 1 : x \in Span
    BY <1>2, <2>a, RegionIs
  <2>2. \A x \in s.start .. End(s) - 1 : x \notin Page(l)
    BY <1>3, <1>4, <1>6, <1>8, <2>1, <2>a DEF Apart
  <2>3. MappedAs(mem', s, s.start, End(s))
    BY <1>1, <1>3, <2>1, <2>2, <2>a DEF MappedAs, Kept
  <2> QED
    BY <1>1, <2>3, SameMappedAs
<1>13. ASSUME NEW x \in v2 .. End(r) - 1 PROVE PageMapped(mem', r, v2, End(r), x)
  <2>1. x \in Span /\ x \in v .. End(r) - 1 /\ x \notin Page(l) /\ v2 <= x
    <3>1. x \in r.start .. End(r) - 1 /\ x \in v .. End(r) - 1 /\ v2 <= x /\ x \notin v .. v2 - 1
      BY <1>3, <1>6
    <3> QED
      BY <1>2, <1>6, <1>8, <3>1, RegionIs
  <2>2. PageMapped(mem, r, v, End(r), x)
    BY <1>4, <2>1 DEF MappedAs
  <2>p. PICK k : k = get_entry(mem, x).l
    OBVIOUS
  <2>3. v <= align_down(k, x)
    BY <2>2, <2>p DEF PageMapped
  <2>4. v2 <= align_down(k, x)
    BY <1>1, <1>2, <1>5, <1>7, <2>1, <2>3, <2>p, NextPage DEF v2
  <2>5. PageMapped(mem, r, v2, End(r), x)
    BY <2>2, <2>4, <2>p DEF PageMapped
  <2> QED
    BY <1>1, <1>6, <2>1, <2>5 DEF Kept
<1>14. MappedAs(mem, r, v2, End(r))'
  <2>1. MappedAs(mem', r, v2, End(r))
    BY <1>13 DEF MappedAs
  <2> QED
    BY <1>1, <2>1, SameMappedAs
<1>15. UnmapJob'
  <2>1. ptjob'.todo = todo /\ ptjob'.vaddr = v2 /\ ptjob'.size = n2
    BY <1>9
  <2> QED
    BY <1>1, <1>3, <1>4, <1>6, <1>9, <1>12, <1>14, <2>1 DEF UnmapJob
<1> QED
  BY <1>10, <1>11, <1>15 DEF TableInv

-----------------------------------------------------------------------------
(* The theorems                                                             *)

(* A step that leaves the page table alone.                                 *)
LEMMA StutterInv ==
  ASSUME TableInv, UNCHANGED ptvars
  PROVE  TableInv'
<1>1. UNCHANGED <<fmt, mem, used, regions, ptjob>>
  BY DEF ptvars
<1>2. \A r, lo, hi : MappedAs(mem, r, lo, hi)' <=> MappedAs(mem, r, lo, hi)
  BY <1>1, SameMemory
<1>3. TableShape' /\ JobIs' /\ Held' /\ (\E lab : Tree(mem, used, lab))'
  BY <1>1, <1>2, SameMemory DEF TableInv, TableShape, JobIs, Held
<1>4. MapJob'
  <2>1. PICK r, v : r = ptjob.r /\ v = ptjob.vaddr
    OBVIOUS
  <2>2. ptjob.op = "map" => MappedAs(mem, r, r.start, v)'
    BY <1>2, <2>1 DEF TableInv, MapJob
  <2> QED
    BY <1>1, <2>1, <2>2 DEF TableInv, MapJob
<1>5. UnmapJob'
  <2> SUFFICES ASSUME ptjob.op = "unmap" PROVE UnmapJob'
    BY <1>1 DEF UnmapJob
  <2>1. PICK v : v = ptjob.vaddr
    OBVIOUS
  <2>2. PICK r \in regions \ ptjob.todo :
          r.start <= v /\ v + ptjob.size = End(r) /\ MappedAs(mem, r, v, End(r))
    BY <2>1 DEF TableInv, UnmapJob
  <2>3. MappedAs(mem, r, v, End(r))'
    BY <1>2, <2>2
  <2>4. \A s \in ptjob.todo : MappedAs(mem, s, s.start, End(s))'
    BY <1>2 DEF TableInv, UnmapJob
  <2> QED
    BY <1>1, <2>1, <2>2, <2>3, <2>4 DEF TableInv, UnmapJob
<1> QED
  BY <1>3, <1>4, <1>5 DEF TableInv

(* Every step of insert, map, drop, clear and unmap, on each architecture,  *)
(* keeps the invariant.                                                     *)
THEOREM NextInv == TableInv /\ [TableNext]_ptvars => TableInv'
<1> SUFFICES ASSUME TableInv, [TableNext]_ptvars PROVE TableInv'
  OBVIOUS
<1>1. ASSUME NEW r \in Region, InsertRegion(r) PROVE TableInv'
  BY <1>1, InsertInv
<1>2. CASE map_aarch64 \/ map_riscv64 \/ map_loongarch64
  <2>1. TableStep \/ (\E l \in 1 .. 3 : LeafStep(l)) \/ FailStep
    BY <1>2, MapDoes
  <2> QED
    BY <2>1, TableStepInv, LeafStepInv, FailInv DEF FailStep
<1>3. CASE unmap_aarch64 \/ unmap_riscv64 \/ unmap_loongarch64
  BY <1>3, UnmapDoes, ClearStepInv
<1>4. CASE Inserted \/ Drop \/ UnmapNext \/ Free
  BY <1>4, InsertedInv, DropInv, UnmapNextInv, FreeInv
<1>5. CASE UNCHANGED ptvars
  BY <1>5, StutterInv
<1> QED
  BY <1>1, <1>2, <1>3, <1>4, <1>5 DEF TableNext

(* The tables form a tree in which each table is reached through one entry; *)
(* the pages of every region of the set are mapped to their own host pages  *)
(* by leaves within the region; map and unmap know exactly how far they     *)
(* have come.                                                               *)
THEOREM TableInvariant == TableSpec => []TableInv
BY InitInv, NextInv, PTL DEF TableSpec

(* A mapped page is found by query at its own host page, with the           *)
(* permissions of its region.                                               *)
LEMMA InvTranslates == TableInv => TranslatesRegions
<1> SUFFICES ASSUME TableInv, ptjob.op \in {"none", "map"}, NEW r \in regions,
                    NEW v \in r.start .. r.start + r.size - 1
             PROVE  LET q == query(v) IN
                    /\ q.res = "ok"
                    /\ q.paddr = map_fn(r, v)
                    /\ q.flags \cap Carried(fmt) = r.flags \cap Carried(fmt)
  BY DEF TranslatesRegions
<1>1. fmt \in Formats /\ used \in 1 .. NFrames /\ r \in Region
  BY DEF TableInv, TableShape
<1>2. PICK lab : Tree(mem, used, lab)
  BY DEF TableInv
<1>3. v \in r.start .. End(r) - 1 /\ v \in Span
  BY <1>1, RegionIs
<1>4. PageMapped(mem, r, r.start, End(r), v)
  BY <1>3 DEF TableInv, Held, MappedAs
<1>5. LET w == get_entry(mem, v)  e == entry(mem, w, v) IN
        /\ w.res = "ok" /\ e # Empty /\ e.addr + page_offset(w.l, v) = map_fn(r, v)
        /\ flags_of(e, fmt) \cap Carried(fmt) = r.flags \cap Carried(fmt)
  BY <1>1, <1>2, <1>3, <1>4, MappedHost
<1> QED
  BY <1>5 DEF query, is_unused

(* TranslatesRegions, for every page table of hvisor, any number of entries *)
(* and of frames, and any regions: whatever page sizes map chooses,         *)
(* whatever was inserted before, in any order, or failed to be, every page  *)
(* of every region translates to its own host page with the permissions     *)
(* asked for.                                                               *)
THEOREM Translation == TableSpec => []TranslatesRegions
BY TableInvariant, InvTranslates, PTL

(* ClearNeverPanics: the unwrap and both assertions of unmap hold for every *)
(* page that clear comes to, also after insertions that failed half-way.    *)
THEOREM NoPanic == TableSpec => []ClearNeverPanics
<1>1. TableInv => ClearNeverPanics
  BY UnmapFinds DEF ClearNeverPanics
<1> QED
  BY <1>1, TableInvariant, PTL

-----------------------------------------------------------------------------
(* The flat map                                                             *)

(* The pages this table reaches are among those four levels reach.          *)
LEMMA SpanIs ==
  ASSUME fmt \in Formats
  PROVE  /\ Reach \in Nat /\ NPages \in Nat /\ Reach <= NPages
         /\ \A v \in Span : v \in 0 .. NPages - 1 /\ v < Reach
         /\ \A v \in 0 .. NPages - 1 : v < Reach => v \in Span
<1>1. PageSize(4) \in Nat \ {0} /\ PageSize(5) \in Nat \ {0} /\ PageSize(5) = PageSize(4) * ENTRY_COUNT
  <2>1. 4 \in 1 .. 4 /\ 4 + 1 = 5
    OBVIOUS
  <2> QED
    BY <2>1, PageSizes
<1>2. PageSize(4) <= PageSize(5)
  BY <1>1, PageTableAssumption
<1>3. Reach = PageSize(4) \/ Reach = PageSize(5)
  <2>1. Levels + 1 = 4 \/ Levels + 1 = 5
    BY FormatIs
  <2> QED
    BY <2>1 DEF Reach
<1>4. NPages = PageSize(5)
  BY DEF NPages
<1>5. Reach \in Nat /\ NPages \in Nat /\ Reach <= NPages
  BY <1>1, <1>2, <1>3, <1>4
<1> QED
  BY <1>5 DEF Span

(* The pages of which nothing is promised lie beyond those the table        *)
(* reaches, if it is not lost.                                              *)
LEMMA UnpromisedIs ==
  ASSUME fmt \in Formats
  PROVE  /\ ptjob # Lost => Unpromised = {v \in 0 .. NPages - 1 : v \in UpperPages}
         /\ fmt' = fmt /\ ptjob' # Lost => Unpromised' = {v \in 0 .. NPages - 1 : v \in UpperPages}
         /\ ptjob = Lost => Unpromised = 0 .. NPages - 1
         /\ ptjob' = Lost => Unpromised' = 0 .. NPages - 1
         /\ \A v \in Span : v \notin UpperPages
<1>1. fmt' = fmt => UpperPages' = UpperPages
  BY DEF UpperPages, Reach, Levels
<1>2. \A v \in Span : v \notin UpperPages
  BY SpanIs DEF UpperPages
<1>3. NPages' = NPages
  BY DEF NPages
<1> QED
  BY <1>1, <1>2, <1>3 DEF Unpromised

(* The address space of AddressSpace is what the MMU finds, in every state  *)
(* of one page table, where it is not unknown.                              *)
LEMMA SpaceIs ==
  ASSUME fmt \in Formats
  PROVE  /\ ptjob.op # "lost" =>
              Space = [v \in 0 .. NPages - 1 |-> IF v \in Span THEN Host(mem, v) ELSE Beyond(v)]
         /\ fmt' = fmt /\ ptjob'.op # "lost" =>
              Space' = [v \in 0 .. NPages - 1 |-> IF v \in Span THEN Host(mem', v) ELSE Beyond(v)]
<1>0. Lost.op = "lost"
  BY DEF Lost
<1>1. \A v \in 0 .. NPages - 1 : v < Reach <=> v \in Span
  BY SpanIs
<1>2. \A v : Translate(v) = Host(mem, v)
  BY DEF Translate, Host
<1>3. ASSUME ptjob.op # "lost"
      PROVE  Space = [v \in 0 .. NPages - 1 |-> IF v \in Span THEN Host(mem, v) ELSE Beyond(v)]
  <2>1. \A v \in 0 .. NPages - 1 :
          (IF v \in Unpromised THEN -2 ELSE IF v < Reach THEN Translate(v) ELSE -1)
            = (IF v \in Span THEN Host(mem, v) ELSE Beyond(v))
    BY <1>0, <1>1, <1>2, <1>3, UnpromisedIs DEF Beyond
  <2> QED
    BY <2>1 DEF Space
<1>4. ASSUME fmt' = fmt, ptjob'.op # "lost"
      PROVE  Space' = [v \in 0 .. NPages - 1 |-> IF v \in Span THEN Host(mem', v) ELSE Beyond(v)]
  <2>1. Reach' = Reach
    BY <1>4 DEF Reach, Levels
  <2>2. \A v : Translate(v)' = Host(mem, v)'
    BY DEF Translate, Host
  <2>3. \A v : Host(mem, v)' = Host(mem', v)
    BY <1>4, SameHost
  <2>4. NPages' = NPages
    BY DEF NPages
  <2>5. \A v \in 0 .. NPages - 1 :
          (IF v \in Unpromised' THEN -2 ELSE IF v < Reach THEN Translate(v)' ELSE -1)
            = (IF v \in Span THEN Host(mem', v) ELSE Beyond(v))
    BY <1>0, <1>1, <1>4, <2>2, <2>3, UnpromisedIs DEF Beyond
  <2> QED
    BY <2>1, <2>4, <2>5 DEF Space
<1> QED
  BY <1>3, <1>4

(* A new page table is an empty flat map, as far as anything is promised.   *)
THEOREM FlatInit == TableInit => Flat!AInit
<1> SUFFICES ASSUME TableInit PROVE Flat!AInit
  OBVIOUS
<1>1. /\ fmt \in Formats /\ regions = {} /\ (ptjob = NoJob \/ ptjob = Lost)
      /\ NoJob.op = "none" /\ Lost.op = "lost"
  BY DEF TableInit, NoJob, Lost, rootJobs
<1>2. \A v \in Span : Host(mem, v) = -1
  BY <1>1, EmptyMemory DEF TableInit
<1>3. Space = [v \in 0 .. NPages - 1 |-> IF v \in Unpromised THEN -2 ELSE -1]
  BY <1>1, <1>2, SpanIs DEF Space, Translate, Host
<1> QED
  BY <1>1, <1>3 DEF Flat!AInit, Flat!Unmapped, Flat!Unknown, Space

(* A step that changes the host page of no page changes nothing there.      *)
LEMMA SameSpace ==
  ASSUME fmt \in Formats, fmt' = fmt, ptjob.op # "lost", ptjob'.op # "lost",
         \A x \in Span : Host(mem', x) = Host(mem, x)
  PROVE  Space' = Space /\ Unpromised' = Unpromised
<1>1. ptjob # Lost /\ ptjob' # Lost
  BY DEF Lost
<1> QED
  BY <1>1, SpaceIs, UnpromisedIs

(* The region being inserted is that of the job.                            *)
LEMMA SameOpened ==
  ASSUME UNCHANGED ptjob
  PROVE  Opened' = Opened
BY DEF Opened

(* The pages of a region are the same in AddressSpace.                      *)
LEMMA FlatPages ==
  ASSUME fmt \in Formats, NEW r \in Region
  PROVE  Flat!pages(r) = r.start .. End(r) - 1
BY RegionIs DEF Flat!pages

(* MemorySet::insert opens a region of the flat map.                        *)
LEMMA FlatInsert ==
  ASSUME TableInv, NEW r \in Region, InsertRegion(r)
  PROVE  Flat!Open(r)
<1>1. /\ ptjob = NoJob /\ r.size > 0 /\ test_free_area(r)
      /\ ptjob' = [op |-> "map", r |-> r, vaddr |-> r.start, size |-> r.size]
      /\ UNCHANGED <<fmt, mem, used, regions>>
  BY DEF InsertRegion
<1>2. TableShape /\ fmt \in Formats /\ regions \subseteq Region
  BY DEF TableInv, TableShape
<1>3. Opened = {} /\ Opened' = {r} /\ ptjob.op # "lost" /\ ptjob'.op # "lost"
  BY <1>1 DEF Opened, NoJob
<1>4. Space' = Space /\ Unpromised' = Unpromised
  BY <1>1, <1>2, <1>3, SameSpace
<1>5. \A g \in regions : Flat!pages(g) \cap Flat!pages(r) = {}
  <2>1. \A s \in regions : Apart(r, s)
    BY <1>1, <1>2, FreeArea DEF TableShape
  <2>2. \A s \in Region : s.start \in Nat /\ End(s) \in Nat /\ End(s) = s.start + s.size
    BY <1>2, RegionIs
  <2> QED
    BY <1>2, <2>1, <2>2, FlatPages DEF Apart
<1> QED
  BY <1>1, <1>3, <1>4, <1>5 DEF Flat!Open, Space, Opened

(* A new intermediate table is invisible in the flat map: the MMU finds     *)
(* what it found before.                                                    *)
LEMMA FlatTable ==
  ASSUME TableInv, TableStep
  PROVE  UNCHANGED <<Space, Unpromised, regions, Opened>>
<1>1. fmt \in Formats
  BY DEF TableInv, TableShape
<1>2. Space' = Space /\ Unpromised' = Unpromised
  BY <1>1, SameSpace DEF TableStep, Kept
<1> QED
  BY <1>2, SameOpened DEF TableStep

(* A leaf, whatever its size, fills in pages of the opened region that were *)
(* unmapped, each with its own host page.                                   *)
LEMMA FlatLeaf ==
  ASSUME TableInv, NEW l \in 1 .. 3, LeafStep(l)
  PROVE  \E r \in Opened : \E S \in SUBSET Flat!pages(r) : Flat!Fill(r, S)
<1>p. PICK r, S : r = ptjob.r /\ S = Page(l)
  OBVIOUS
<1>1. /\ ptjob.op = "map" /\ UNCHANGED <<fmt, used, regions>>
      /\ \A x \in Span : x \in S => Host(mem, x) = -1 /\ Host(mem', x) = map_fn(r, x)
      /\ \A x \in Span : x \notin S => Host(mem', x) = Host(mem, x)
  BY <1>p DEF LeafStep, Kept
<1>2. /\ fmt \in Formats /\ r \in Region
      /\ \A x \in S : x \in r.start .. End(r) - 1 /\ x \in Span
  BY <1>p, LeafPage DEF TableInv, TableShape
<1>3. r.start \in Nat /\ r.paddr \in Nat /\ End(r) = r.start + r.size
  BY <1>2, RegionIs
<1>4. Opened = {r} /\ Opened' = {r} /\ ptjob'.op = "map"
  <2>1. ptjob = [op |-> "map", r |-> ptjob.r, vaddr |-> ptjob.vaddr, size |-> ptjob.size]
    BY <1>1 DEF TableInv, MapJob
  <2>2. ptjob'.op = "map" /\ ptjob'.r = r
    BY <1>p, <2>1 DEF LeafStep
  <2> QED
    BY <1>1, <1>p, <2>2 DEF Opened
<1>5. S \subseteq Flat!pages(r)
  BY <1>2, <1>3, FlatPages
<1>6. \A x \in S : x \in 0 .. NPages - 1
  BY <1>2, SpanIs
<1>7. \A x \in S : Space[x] = -1
  BY <1>1, <1>2, <1>6, SpaceIs
<1>8. Space' = [x \in DOMAIN Space |-> IF x \in S THEN Flat!target(r, x) ELSE Space[x]]
  <2>1. \A x \in S : map_fn(r, x) = Flat!target(r, x)
    <3>1. \A x \in S : x \in Int
      BY <1>2 DEF Span
    <3> QED
      BY <1>3, <3>1 DEF map_fn, Flat!target
  <2>2. Space = [x \in 0 .. NPages - 1 |-> IF x \in Span THEN Host(mem, x) ELSE Beyond(x)]
    BY <1>1, <1>2, SpaceIs
  <2>3. Space' = [x \in 0 .. NPages - 1 |-> IF x \in Span THEN Host(mem', x) ELSE Beyond(x)]
    BY <1>1, <1>2, <1>4, SpaceIs
  <2>4. \A x \in 0 .. NPages - 1 :
          (IF x \in Span THEN Host(mem', x) ELSE Beyond(x))
            = (IF x \in S THEN Flat!target(r, x) ELSE Space[x])
    BY <1>1, <1>2, <2>1, <2>2
  <2>5. DOMAIN Space = 0 .. NPages - 1
    BY <2>2
  <2> QED
    BY <2>3, <2>4, <2>5
<1>9. Flat!Fill(r, S)
  <2>0. ptjob # Lost /\ ptjob' # Lost
    BY <1>1, <1>4 DEF Lost
  <2>1. Unpromised' = Unpromised
    BY <1>1, <1>2, <2>0, UnpromisedIs
  <2> QED
    BY <1>1, <1>4, <1>5, <1>7, <1>8, <2>1 DEF Flat!Fill, Flat!Unmapped, Space, Opened
<1>10. S \in SUBSET Flat!pages(r) /\ r \in Opened
  BY <1>4, <1>5
<1> QED
  BY <1>9, <1>10, Zenon

(* An insertion that fails closes the region and leaves its pages as they   *)
(* are.                                                                     *)
LEMMA FlatFail ==
  ASSUME TableInv, FailStep
  PROVE  Flat!Fail
<1>1. /\ fmt \in Formats /\ UNCHANGED <<fmt, mem, regions>> /\ Opened' = {}
      /\ ptjob.op # "lost" /\ ptjob'.op # "lost"
  BY DEF TableInv, TableShape, FailStep, Opened, NoJob
<1>2. Space' = Space /\ Unpromised' = Unpromised
  BY <1>1, SameSpace
<1> QED
  BY <1>1, <1>2 DEF Flat!Fail, Space, Opened

(* A region is granted when all its pages have been filled in.              *)
LEMMA FlatInserted ==
  ASSUME TableInv, Inserted
  PROVE  \E r \in Opened : Flat!Grant(r)
<1>p. PICK r : r = ptjob.r
  OBVIOUS
<1>1. /\ ptjob.op = "map" /\ ptjob.size = 0 /\ regions' = regions \cup {r} /\ ptjob' = NoJob
      /\ UNCHANGED <<fmt, mem, used>>
  BY <1>p DEF Inserted
<1>2. fmt \in Formats /\ used \in 1 .. NFrames
  BY DEF TableInv, TableShape
<1>3. Opened = {r} /\ Opened' = {} /\ ptjob.op # "lost" /\ ptjob'.op # "lost"
  BY <1>1, <1>p DEF Opened, NoJob
<1>4. Space' = Space /\ Unpromised' = Unpromised
  BY <1>1, <1>2, <1>3, SameSpace
<1>5. r \in Region /\ MappedAs(mem, r, r.start, End(r))
  <2>1. /\ r \in Region /\ ptjob.vaddr \in Nat /\ ptjob.vaddr + ptjob.size = End(r)
        /\ MappedAs(mem, r, r.start, ptjob.vaddr)
    BY <1>1, <1>p DEF TableInv, MapJob
  <2>2. ptjob.vaddr = End(r)
    BY <1>1, <2>1
  <2> QED
    BY <2>1, <2>2
<1>6. r.start \in Nat /\ r.paddr \in Nat /\ End(r) = r.start + r.size
      /\ \A x \in r.start .. End(r) - 1 : x \in Span
  BY <1>2, <1>5, RegionIs
<1>7. PICK lab : Tree(mem, used, lab)
  BY DEF TableInv
<1>8. ASSUME NEW x \in Flat!pages(r) PROVE Space[x] = Flat!target(r, x)
  <2>1. x \in r.start .. End(r) - 1 /\ x \in Int
    <3>1. Flat!pages(r) = r.start .. End(r) - 1
      BY <1>2, <1>5, FlatPages
    <3>2. x \in r.start .. End(r) - 1
      BY <3>1
    <3> QED
      BY <1>6, <3>2
  <2>2. x \in Span /\ PageMapped(mem, r, r.start, End(r), x)
    BY <1>5, <1>6, <2>1 DEF MappedAs
  <2>3. Host(mem, x) = map_fn(r, x)
    BY <1>2, <1>5, <1>7, <2>2, MappedHost
  <2>4. map_fn(r, x) = Flat!target(r, x)
    BY <1>6, <2>1 DEF map_fn, Flat!target
  <2>5. x \in 0 .. NPages - 1
    BY <1>2, <2>2, SpanIs
  <2> QED
    BY <1>2, <1>3, <2>2, <2>3, <2>4, <2>5, SpaceIs
<1>9. Flat!Grant(r)
  BY <1>1, <1>3, <1>4, <1>8 DEF Flat!Grant, Space, Opened
<1> QED
  BY <1>3, <1>9

(* Choosing the next region to unmap is invisible in the flat map.          *)
LEMMA FlatUnmapJob ==
  ASSUME TableInv, Drop \/ UnmapNext
  PROVE  UNCHANGED <<Space, Unpromised, regions, Opened>>
<1>1. fmt \in Formats /\ UNCHANGED <<fmt, mem, regions>> /\ ptjob.op # "map"
  BY DEF TableInv, TableShape, Drop, UnmapNext, NoJob
<1>2. ptjob'.op # "map" /\ ptjob'.op # "lost" /\ ptjob.op # "lost"
  BY DEF Drop, UnmapNext, unmapJob, NoJob
<1>3. Space' = Space /\ Unpromised' = Unpromised
  BY <1>1, <1>2, SameSpace
<1> QED
  BY <1>1, <1>2, <1>3 DEF Opened

(* Unmapping one page, whatever its size, withdraws pages of granted        *)
(* regions and no others.                                                   *)
LEMMA FlatClear ==
  ASSUME TableInv, NEW l \in 1 .. 3, ClearStep(l)
  PROVE  \E S \in SUBSET Flat!Granted : Flat!Withdraw(S)
<1>p. PICK v, n, S : v = ptjob.vaddr /\ n = ptjob.size /\ S = Page(l)
  OBVIOUS
<1>1. /\ ptjob.op = "unmap" /\ PageSize(l) <= n /\ UNCHANGED <<fmt, used, regions>>
      /\ \A x \in Span : x \in S => Host(mem', x) = -1
      /\ \A x \in Span : x \notin S => Host(mem', x) = Host(mem, x)
  BY <1>p DEF ClearStep, Kept
<1>2. fmt \in Formats /\ regions \subseteq Region /\ v \in Nat /\ n \in Nat
  BY <1>1, <1>p DEF TableInv, TableShape, UnmapJob
<1>3. PICK r \in regions : r.start <= v /\ v + n = End(r)
  BY <1>1, <1>p DEF TableInv, UnmapJob
<1>4. /\ r \in Region /\ r.start \in Nat /\ End(r) \in Nat /\ End(r) = r.start + r.size
      /\ PageSize(l) \in Nat /\ S = v .. v + PageSize(l) - 1
  <2>1. r \in Region /\ PageSize(l) \in Nat
    BY <1>2, PageSizes
  <2>2. r.start \in Nat /\ End(r) \in Nat /\ End(r) = r.start + r.size
    BY <1>2, <2>1, RegionIs
  <2>3. S = v .. v + PageSize(l) - 1
    BY <1>p DEF Page
  <2> QED
    BY <2>1, <2>2, <2>3
<1>5. \A x \in S : x \in r.start .. End(r) - 1
  BY <1>1, <1>2, <1>3, <1>4
<1>6. S \subseteq Flat!Granted
  <2>1. \A x \in S : x \in Flat!pages(r)
    BY <1>2, <1>4, <1>5, FlatPages
  <2> QED
    BY <1>3, <2>1 DEF Flat!Granted
<1>7. Opened = {} /\ Opened' = {} /\ ptjob'.op = "unmap"
  <2>1. ptjob'.op = "unmap"
    <3>1. ptjob = [op |-> "unmap", todo |-> ptjob.todo, vaddr |-> ptjob.vaddr, size |-> ptjob.size]
      BY <1>1 DEF TableInv, UnmapJob
    <3> QED
      BY <3>1 DEF ClearStep
  <2> QED
    BY <1>1, <2>1 DEF Opened
<1>8. Space' = [x \in DOMAIN Space |-> IF x \in S THEN -1 ELSE Space[x]]
  <2>1. \A x \in S : x \in Span
    BY <1>2, <1>4, <1>5, RegionIs
  <2>2. Space = [x \in 0 .. NPages - 1 |-> IF x \in Span THEN Host(mem, x) ELSE Beyond(x)]
    BY <1>1, <1>2, SpaceIs
  <2>3. Space' = [x \in 0 .. NPages - 1 |-> IF x \in Span THEN Host(mem', x) ELSE Beyond(x)]
    BY <1>1, <1>2, <1>7, SpaceIs
  <2>4. \A x \in 0 .. NPages - 1 :
          (IF x \in Span THEN Host(mem', x) ELSE Beyond(x)) = (IF x \in S THEN -1 ELSE Space[x])
    BY <1>1, <2>1, <2>2
  <2>5. DOMAIN Space = 0 .. NPages - 1
    BY <2>2
  <2> QED
    BY <2>3, <2>4, <2>5
<1>9. Flat!Withdraw(S)
  <2>0. ptjob # Lost /\ ptjob' # Lost
    BY <1>1, <1>7 DEF Lost
  <2>1. Unpromised' = Unpromised
    BY <1>1, <1>2, <2>0, UnpromisedIs
  <2> QED
    BY <1>1, <1>6, <1>7, <1>8, <2>1 DEF Flat!Withdraw, Flat!Unmapped, Space, Opened
<1>10. S \in SUBSET Flat!Granted
  BY <1>6
<1> QED
  BY <1>9, <1>10, Zenon

(* Freeing the frames discards the set: nothing is mapped afterwards.       *)
LEMMA FlatFree ==
  ASSUME TableInv, Free
  PROVE  Flat!Discard
<1>1. /\ mem' = [f \in Tables |-> [i \in Index |-> Empty]]
      /\ regions' = {} /\ (ptjob' = NoJob \/ ptjob' = Lost) /\ fmt' = fmt /\ fmt \in Formats
      /\ NoJob.op = "none" /\ Lost.op = "lost"
  BY DEF Free, TableInv, TableShape, NoJob, Lost, rootJobs
<1>2. \A x \in Span : Host(mem', x) = -1
  BY <1>1, EmptyMemory
<1>3. NPages' = NPages /\ Opened' = {}
  BY <1>1 DEF NPages, Opened
<1>4. Space' = [x \in 0 .. NPages - 1 |-> IF x \in Unpromised' THEN -2 ELSE -1]
  <2>1. CASE ptjob' = Lost
    BY <1>3, <2>1, <1>1, UnpromisedIs DEF Space
  <2>2. CASE ptjob' # Lost /\ ptjob'.op # "lost"
    <3>1. Space' = [x \in 0 .. NPages - 1 |-> IF x \in Span THEN Host(mem', x) ELSE Beyond(x)]
      BY <1>1, <2>2, SpaceIs
    <3>2. Unpromised' = {x \in 0 .. NPages - 1 : x \in UpperPages} /\ \A x \in Span : x \notin UpperPages
      BY <1>1, <2>2, UnpromisedIs
    <3> QED
      BY <1>2, <3>1, <3>2 DEF Beyond
  <2> QED
    BY <1>1, <2>1, <2>2
<1> QED
  BY <1>1, <1>3, <1>4 DEF Flat!Discard, Flat!AInit, Flat!Unmapped, Flat!Unknown, Space, Opened

(* Every step of the page table is a step of the flat map, or none.         *)
THEOREM FlatNext == TableInv /\ [TableNext]_ptvars => UNCHANGED ptvars \/ [Flat!ANext]_(Flat!avars)
<1> SUFFICES ASSUME TableInv, TableNext PROVE [Flat!ANext]_(Flat!avars)
  OBVIOUS
<1>1. ASSUME UNCHANGED <<Space, Unpromised, regions, Opened>> PROVE UNCHANGED Flat!avars
  BY <1>1 DEF Flat!avars, Space, Opened
<1>2. ASSUME NEW r \in Region, InsertRegion(r) PROVE Flat!ANext
  BY <1>2, FlatInsert DEF Flat!ANext
<1>3. CASE map_aarch64 \/ map_riscv64 \/ map_loongarch64
  <2>1. CASE TableStep
    BY <1>1, <2>1, FlatTable
  <2>2. ASSUME NEW l \in 1 .. 3, LeafStep(l) PROVE Flat!ANext
    BY <2>2, FlatLeaf DEF Flat!ANext, Opened
  <2>3. CASE FailStep
    BY <2>3, FlatFail DEF Flat!ANext
  <2> QED
    BY <1>3, <2>1, <2>2, <2>3, MapDoes
<1>4. CASE unmap_aarch64 \/ unmap_riscv64 \/ unmap_loongarch64
  <2>1. PICK l \in 1 .. 3 : ClearStep(l)
    BY <1>4, UnmapDoes
  <2> QED
    BY <2>1, FlatClear DEF Flat!ANext
<1>5. CASE Inserted
  BY <1>5, FlatInserted DEF Flat!ANext, Opened
<1>6. CASE Drop \/ UnmapNext
  BY <1>1, <1>6, FlatUnmapJob
<1>7. CASE Free
  BY <1>7, FlatFree DEF Flat!ANext
<1> QED
  BY <1>2, <1>3, <1>4, <1>5, <1>6, <1>7 DEF TableNext

(* ImplementsAddressSpace: to the MMU, which may walk the tables between    *)
(* any two writes of map and unmap, the page table is a flat map whose      *)
(* regions appear page by page, each page at its own host page, and in      *)
(* which nothing else changes.                                              *)
THEOREM Refinement == TableSpec => ImplementsAddressSpace
BY FlatInit, FlatNext, TableInvariant, PTL DEF TableSpec, ImplementsAddressSpace

(* The same as an implication between the two specifications.               *)
THEOREM FlatSpec == TableSpec => Flat!ASpec
<1>1. TableInv /\ UNCHANGED ptvars => UNCHANGED Flat!avars
  <2> SUFFICES ASSUME TableInv, UNCHANGED ptvars PROVE UNCHANGED Flat!avars
    OBVIOUS
  <2>1. fmt \in Formats /\ UNCHANGED <<fmt, mem, regions, ptjob>>
    BY DEF TableInv, TableShape, ptvars
  <2>2. /\ ptjob.op # "lost" => Space' = Space /\ Unpromised' = Unpromised
        /\ Opened' = Opened
    BY <2>1, SameSpace, SameOpened
  <2>3. ASSUME ptjob.op = "lost"
        PROVE  Space' = Space /\ Unpromised' = Unpromised
    <3>1. ptjob = Lost /\ ptjob' = Lost
      BY <2>1, <2>3 DEF TableInv, JobIs
    <3>2. Unpromised = 0 .. NPages - 1 /\ Unpromised' = 0 .. NPages - 1
      BY <2>1, <3>1, UnpromisedIs
    <3>3. Space = [v \in 0 .. NPages - 1 |-> -2]
      BY <3>2 DEF Space
    <3>4. Space' = [v \in 0 .. NPages - 1 |-> -2]
      BY <3>2 DEF Space, NPages
    <3> QED
      BY <3>2, <3>3, <3>4
  <2> QED
    BY <2>1, <2>2, <2>3 DEF Flat!avars, Space, Opened
<1>2. TableInv /\ [TableNext]_ptvars => [Flat!ANext]_(Flat!avars)
  BY <1>1, FlatNext
<1> QED
  BY <1>2, FlatInit, TableInvariant, PTL DEF TableSpec, Flat!ASpec
=============================================================================

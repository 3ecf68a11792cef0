---------------------------- MODULE AddressSpace ----------------------------
(***************************************************************************)
(* What a MemorySet promises of the memory of a zone: a flat map from guest *)
(* pages to host pages, granted region by region.                           *)
(*                                                                          *)
(* A region opened for insertion touches only pages of its own that nothing *)
(* was mapped at, and gives each its own host page; an insertion that fails *)
(* may leave some of them.  A region is granted only when all its pages     *)
(* are mapped.  Nothing is taken away before the set is dropped.  Of some   *)
(* pages a set may promise nothing: the MMU can find anything there, and    *)
(* something else the next moment.                                          *)
(***************************************************************************)
EXTENDS Integers

CONSTANTS NPages,   \* guest pages
          Region    \* the regions that may be inserted

VARIABLES space,    \* guest page -> host page, Unmapped or Unknown
          unknown,  \* pages of which nothing is promised
          granted,  \* regions inserted
          opened    \* the region being inserted, as a set

avars == <<space, unknown, granted, opened>>

Unmapped == -1
Unknown  == -2
pages(r) == r.start .. r.start + r.size - 1
target(r, v) == r.paddr + (v - r.start)

AInit == /\ space = [v \in 0 .. NPages - 1 |-> IF v \in unknown THEN Unknown ELSE Unmapped]
         /\ granted = {} /\ opened = {}

Open(r) == /\ opened = {}
           /\ \A g \in granted : pages(g) \cap pages(r) = {}
           /\ opened' = {r}
           /\ UNCHANGED <<space, unknown, granted>>

Fill(r, S) == /\ opened = {r} /\ S \subseteq pages(r)
              /\ \A v \in S : space[v] = Unmapped
              /\ space' = [v \in DOMAIN space |-> IF v \in S THEN target(r, v) ELSE space[v]]
              /\ UNCHANGED <<unknown, granted, opened>>

Grant(r) == /\ opened = {r}
            /\ \A v \in pages(r) : space[v] = target(r, v)
            /\ granted' = granted \cup {r} /\ opened' = {}
            /\ UNCHANGED <<space, unknown>>

Fail == opened' = {} /\ UNCHANGED <<space, unknown, granted>>

Granted == UNION {pages(g) : g \in granted}

\* Dropping the set unmaps what was granted, page by page, then frees the tables.
Withdraw(S) == /\ opened = {}
               /\ S \subseteq Granted
               /\ space' = [v \in DOMAIN space |-> IF v \in S THEN Unmapped ELSE space[v]]
               /\ UNCHANGED <<unknown, granted, opened>>

Discard == AInit'

ANext == \/ \E r \in Region : Open(r)
         \/ \E r \in opened : Grant(r) \/ \E S \in SUBSET pages(r) : Fill(r, S)
         \/ Fail \/ Discard
         \/ \E S \in SUBSET Granted : Withdraw(S)

ASpec == AInit /\ [][ANext]_avars
=============================================================================

-------------------------------- MODULE Pte ---------------------------------
(***************************************************************************)
(* The page table entries of the three architectures: how the permissions   *)
(* of a memory region (MemFlags) become the attribute bits of a descriptor  *)
(* and back (src/src/arch, s1pt.rs and s2pt.rs).                           *)
(*                                                                          *)
(* An entry is its address field and the set of its attribute bits; a       *)
(* format is the architecture and the stage.  Attribute names are the       *)
(* source's; two formats never share a table.                               *)
(***************************************************************************)
LOCAL INSTANCE Naturals

Empty == [addr |-> 0, attr |-> {}]

\* The bits of `to` when flag f is among flags.
when(f, flags, to) == IF f \in flags THEN to ELSE {}
unless(f, flags, to) == IF f \in flags THEN {} ELSE to
-----------------------------------------------------------------------------
(* aarch64 *)
from_mem_type(flags) ==
  IF "IO" \in flags THEN {"Device"} ELSE {"Normal", "INNER", "SHAREABLE"}

attr_aarch64_s2(flags) ==
  from_mem_type(flags) \cup {"VALID", "AF"}
    \cup when("READ", flags, {"S2AP_R"}) \cup when("WRITE", flags, {"S2AP_W"})

flags_aarch64_s2(attr) ==
  (IF {"VALID", "S2AP_R"} \subseteq attr THEN {"READ"} ELSE {})
    \cup when("S2AP_W", attr, {"WRITE"}) \cup when("Device", attr, {"IO"})

attr_aarch64_s1(flags) ==
  from_mem_type(flags) \cup {"VALID", "AF"}
    \cup when("READ", flags, {"AP_EL0"}) \cup unless("WRITE", flags, {"AP_RO"})

flags_aarch64_s1(attr) ==
  (IF {"VALID", "AP_EL0"} \subseteq attr THEN {"READ"} ELSE {})
    \cup unless("AP_RO", attr, {"WRITE"}) \cup when("Device", attr, {"IO"})
-----------------------------------------------------------------------------
(* riscv64 *)
rwxu == {<<"READ", "READABLE">>, <<"WRITE", "WRITABLE">>,
         <<"EXECUTE", "EXECUTABLE">>, <<"USER", "USER">>}

attr_riscv64_s2(flags) ==
  {"VALID", "USER"} \cup {m[2] : m \in {n \in rwxu : n[1] \in flags}}

attr_riscv64_s1(flags) ==
  {"VALID"} \cup {m[2] : m \in {n \in rwxu : n[1] \in flags}}

flags_riscv64(attr) ==
  IF "VALID" \notin attr THEN {} ELSE {m[1] : m \in {n \in rwxu : n[2] \in attr}}
-----------------------------------------------------------------------------
(* loongarch64: the absent permissions are bits; USER is the hint that       *)
(* leaves the entry invalid, so that accesses trap.                          *)
attr_loongarch64_s2(flags) ==
  when("WRITE", flags, {"W"}) \cup unless("READ", flags, {"NR"})
    \cup unless("EXECUTE", flags, {"NX"}) \cup unless("USER", flags, {"V", "D"})
    \cup unless("IO", flags, {"MAT_CC"})

attr_loongarch64_s1(flags) ==
  when("WRITE", flags, {"W"}) \cup unless("READ", flags, {"NR"})
    \cup unless("EXECUTE", flags, {"NX"})

flags_loongarch64(attr) ==
  when("W", attr, {"WRITE"}) \cup unless("NR", attr, {"READ"})
    \cup unless("NX", attr, {"EXECUTE"})
-----------------------------------------------------------------------------
(* GenericPTE, by format fmt = <<architecture, stage>>.                     *)
set_flags_aarch64_s2(pte, flags, huge) ==
  [pte EXCEPT !.attr = attr_aarch64_s2(flags) \cup (IF huge THEN {} ELSE {"NON_BLOCK"})]
set_flags_aarch64_s1(pte, flags, huge) ==
  [pte EXCEPT !.attr = attr_aarch64_s1(flags) \cup (IF huge THEN {} ELSE {"NON_BLOCK"})]

set_flags_riscv64_s2(pte, flags) == [pte EXCEPT !.attr = attr_riscv64_s2(flags)]
set_flags_riscv64_s1(pte, flags) == [pte EXCEPT !.attr = attr_riscv64_s1(flags)]

set_flags_loongarch64_s2(pte, flags) == [pte EXCEPT !.attr = attr_loongarch64_s2(flags)]

\* Stage 1 assigns the whole word: the address is gone.
set_flags_loongarch64_s1(pte, flags) == [addr |-> 0, attr |-> attr_loongarch64_s1(flags)]

set_flags(pte, fmt, flags, huge) ==
  CASE fmt[1] = "aarch64" /\ fmt[2] = 2 -> set_flags_aarch64_s2(pte, flags, huge)
    [] fmt[1] = "aarch64" /\ fmt[2] = 1 -> set_flags_aarch64_s1(pte, flags, huge)
    [] fmt[1] = "riscv64" /\ fmt[2] = 2 -> set_flags_riscv64_s2(pte, flags)
    [] fmt[1] = "riscv64" /\ fmt[2] = 1 -> set_flags_riscv64_s1(pte, flags)
    [] fmt[1] = "loongarch64" /\ fmt[2] = 2 -> set_flags_loongarch64_s2(pte, flags)
    [] fmt[1] = "loongarch64" /\ fmt[2] = 1 -> set_flags_loongarch64_s1(pte, flags)

set_addr(pte, paddr) == [pte EXCEPT !.addr = paddr]

\* The attributes of a table entry.
set_table_aarch64        == from_mem_type({}) \cup {"VALID", "NON_BLOCK"}
set_table_riscv64        == {"VALID"}
set_table_loongarch64_s2 == {"V"}
set_table_loongarch64_s1 == {"V", "W", "MAT_CC"}

\* A table entry of an empty slot.
set_table(fmt, paddr) ==
  [addr |-> paddr,
   attr |-> CASE fmt[1] = "aarch64" -> set_table_aarch64
              [] fmt[1] = "riscv64" -> set_table_riscv64
              [] fmt[1] = "loongarch64" /\ fmt[2] = 2 -> set_table_loongarch64_s2
              [] fmt[1] = "loongarch64" /\ fmt[2] = 1 -> set_table_loongarch64_s1]

flags_of(pte, fmt) ==
  CASE fmt[1] = "aarch64" /\ fmt[2] = 2 -> flags_aarch64_s2(pte.attr)
    [] fmt[1] = "aarch64" /\ fmt[2] = 1 -> flags_aarch64_s1(pte.attr)
    [] fmt[1] = "riscv64" -> flags_riscv64(pte.attr)
    [] fmt[1] = "loongarch64" -> flags_loongarch64(pte.attr)

is_unused(pte) == pte = Empty

\* loongarch64 tests bit P, which nothing sets.
is_present(pte, fmt) == (IF fmt[1] = "loongarch64" THEN "P" ELSE "VALID") \in pte.attr

is_huge_aarch64(pte) == "NON_BLOCK" \notin pte.attr
is_huge_riscv64(pte) == pte.attr \cap {"READABLE", "WRITABLE", "EXECUTABLE"} # {}
is_huge(pte, fmt) == CASE fmt[1] = "aarch64" -> is_huge_aarch64(pte)
                       [] fmt[1] = "riscv64" -> is_huge_riscv64(pte)
                       [] fmt[1] = "loongarch64" -> FALSE

\* The permissions each format has bits for.
Carried(fmt) == IF fmt[1] = "aarch64" THEN {"READ", "WRITE", "IO"}
                                      ELSE {"READ", "WRITE", "EXECUTE"}
=============================================================================

----------------------------- MODULE ZoneHarts ------------------------------
(***************************************************************************)
(* The harts of a zone on riscv64; hart 0 boots it.                         *)
(***************************************************************************)
EXTENDS Naturals

CONSTANT NHart

Hart == 0 .. NHart - 1

ASSUME HartAssumption == NHart \in Nat \ {0}
=============================================================================

---------------------------- MODULE MCVirtualIrq ----------------------------
(* Model-checking instances of VirtualIrq: the .cfg files give the sets.    *)
EXTENDS VirtualIrq
=============================================================================

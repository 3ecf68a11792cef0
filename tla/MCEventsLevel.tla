--------------------------- MODULE MCEventsLevel ----------------------------
(* Model-checking instances of EventsLevel.                                 *)
EXTENDS EventsLevel, TLC

\* WAKEUP, SHUTDOWN and one of the events that return, on each architecture;
\* HvClearInjectIrq sends CLEAR_INJECT_IRQ on both, and riscv64 has no arm for it.
MCSent == "riscv64"     :> {IPI_EVENT_WAKEUP, IPI_EVENT_SHUTDOWN, IPI_EVENT_SEND_IPI,
                            IPI_EVENT_CLEAR_INJECT_IRQ} @@
          "loongarch64" :> {IPI_EVENT_WAKEUP, IPI_EVENT_SHUTDOWN, IPI_EVENT_CLEAR_INJECT_IRQ}

Symmetry == Permutations(CPU)
=============================================================================

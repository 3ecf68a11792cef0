------------------------------ MODULE MCEvents ------------------------------
(* Model-checking instances of Events.                                      *)
EXTENDS Events

\* One event per arm of check_events on aarch64, and CLEAR_INJECT_IRQ, which
\* HvClearInjectIrq sends on every architecture and aarch64 has no arm for.
SentAarch64 == {IPI_EVENT_WAKEUP, IPI_EVENT_SHUTDOWN, IPI_EVENT_SHM_SIGNAL,
                IPI_EVENT_CLEAR_INJECT_IRQ}
=============================================================================

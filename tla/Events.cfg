SPECIFICATION FairSpec
CONSTANTS
  CPU = {c1, c2}
  Sent <- SentAarch64
  GuestSends = TRUE
  MaxEvents = 2
INVARIANTS ShutdownNeverStranded NoSpuriousIpi
PROPERTY ShutdownServed

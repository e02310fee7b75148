CONSTANTS
  Sessions <- AllSessions
  Output = {64}
SPECIFICATION FairSpec
INVARIANTS KeysAccounted StatusHonest KeysFaithful
PROPERTIES KeysReadWhileDiskIdle EveryRequestWakes

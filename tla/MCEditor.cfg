SPECIFICATION FairSpec
CONSTANTS
  Notes = {n, m}
  First = n
  None = None
  MaxTexts = 3
  MaxSyncs = 1
  MaxFaults = 1
  MaxClicks = 1
INVARIANTS
  
  PollsOnce
PROPERTIES
  NoBlindOverwrite
  
  ChangesAreTaken
\* A dialog waits for its user; a stuck one leaves nothing to do but to poll.
CHECK_DEADLOCK FALSE

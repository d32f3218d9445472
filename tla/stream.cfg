SPECIFICATION FairSpec
CONSTANTS
  Status <- MCStatus
  TrialsCount = 3
INVARIANTS TypeOK DecisiveStatusSettles FulfilledOnce NoOrphanCall OneLiveCall
PROPERTIES ResultIsSound Settles
CHECK_DEADLOCK FALSE

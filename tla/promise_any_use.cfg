SPECIFICATION Spec
CONSTANTS
  MaxPromises = 2
  MaxLinks = 3
  MaxMisfulfilled = 1
INVARIANTS TypeOK LostOnlyByReuse TwiceOnlyByMisfulfil BlockedOnlyByMisuse
CHECK_DEADLOCK FALSE

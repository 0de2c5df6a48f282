CONSTANTS
  Instances = {i1, i2}
  JobKey = midnight
  OtherJobKey = morning
  MaxFaults = 2
  NoAction = NoAction
  MaxMails = 2
SPECIFICATION RemindersSpec
INVARIANTS RowHasARemover RemindedOnce MarkedWasMailed
PROPERTIES DueIsDealtWith

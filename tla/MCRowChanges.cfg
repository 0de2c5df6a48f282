CONSTANTS
  u1 = u1
  Requests = {r1, r2}
  Users = {u1}
  Columns = {"id", "part", "word"}
  Values = {1, 2, 3}
  Keys = {"id", "part"}
  Generated = {"part"}
  hash <- ThreeHashed
  Masked = Masked
  InitialTables <- TwoRows
  Wants <- SevenWants
  SettingsChoices <- FourSettings
  NoSettings = NoSettings
  NoRow = NoRow
  NoRecord = NoRecord
  MaxEvents = 2
SPECIFICATION Spec
INVARIANTS ChangedIsLogged ChangesWerePermitted RecordTellsTheChange AnswersAreTrue
PROPERTY KeepsAudit
CHECK_DEADLOCK FALSE
SYMMETRY Slots

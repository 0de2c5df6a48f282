CONSTANTS
  id = id
  name = name
  boss = boss
  deputy = deputy
  people = people
  Dialects = {"postgres", "mysql", "mysql_ssh", "mssql", "oracle"}
  Calls = {r1, r2}
  Sessions = {s1, s2}
  Columns <- FourColumns
  Key = id
  ForeignKeys <- BossAndDeputy
  Referenced <- TwoPeople
  Values = {1, 2, 3, 4, 5, 12}
  Null = Null
  Like <- TextLike
  Wants <- AllWants
  SettingsChoices <- FourSettings
  InitialTables <- SmallTables
  DefaultPerPage = 3
  LibraryPerPage = 2
  AutocompleteLimit = 2
  Star = Star
  Undefined = Undefined
  NaN = NaN
  MaxEvents = 1
SPECIFICATION QueriesSpec
INVARIANTS  AnsweredKeyIsAdded ListingIsAsAsked PagesAreRight
CHECK_DEADLOCK FALSE
SYMMETRY Slots

CONSTANTS
  t1 = t1
  t2 = t2
  id = id
  label = label
  size = size
  Requests = {r1, r2}
  Tables <- TwoTables
  FieldsOf <- TheirFields
  KeyOf <- TheirKeys
  Names <- SomeNames
  Bodies <- FourBodies
  WidgetLists <- Wishes
  SettingsIds = {s1, s2}
  ChildIds = {c1, c2, c3}
  None = None
  Undefined = Undefined
  MaxRequests = 2
SPECIFICATION Spec
INVARIANT KeysAreNotExcluded
CHECK_DEADLOCK FALSE
SYMMETRY AnyIds

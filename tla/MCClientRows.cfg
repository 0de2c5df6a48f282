CONSTANTS
  Conns = {c1, c2}
  Tables = {t1, t2}
  FirstTable = t1
  Keys = {k1, k2}
  None = None
  MaxAsked = 2
SPECIFICATION Spec
PROPERTIES  SavesTheRowShown 

CONSTANTS
  a = a  b = b
  k1 = k1
  mapping = mapping  other = other
  t1 = t1  t2 = t2  t3 = t3
  Pods = {a, b}
  Keys = {k1}
  Values = {mapping, other}
  Tasks = {t1, t2, t3}
  Home <- TaskHome
  Commands <- TaskCommands
  MaxOutages = 1
  MaxMishaps = 1
  NoEntry = NoEntry
  None = None
SPECIFICATION FairSpec
INVARIANTS
  TypeOK
  CopiesAgree
PROPERTIES
  OperationsEnd
  Reconnects

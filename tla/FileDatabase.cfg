\* Two threads change the tables; the process dies twice.
SPECIFICATION Spec
CONSTANTS
  Thread = {t1, t2}
  Address = {a1, a2}
  Savable = {a1}
  NoAddress = noAddress
  Absent = absent
  Broken = broken
  Null = null
  Nobody = nobody
  Leaked = leaked
  MaxCalls = 4
  MaxCrashes = 2
INVARIANTS TypeOK ReturnedIsSaved BrokenByInterruption
PROPERTIES NeverRepaired

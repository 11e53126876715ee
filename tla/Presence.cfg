CONSTANTS
  s1 = s1
  s2 = s2
  s3 = s3
  alice = alice
  bob = bob
  Sessions = {s1, s2, s3}
  Names = {alice, bob}
  MaxVersion = 3
  None = None
SPECIFICATION Spec
INVARIANTS OneSessionPerName NameCreatedOnce CreatedIsOnDisk NoDeadSessionRegistered EveryStateWritten
SYMMETRY Sym
CHECK_DEADLOCK FALSE

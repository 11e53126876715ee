CONSTANTS
  s1 = s1
  s2 = s2
  s3 = s3
  alice = alice
  Sessions = {s1, s2, s3}
  Names = {alice}
  MaxVersion = 2
  None = None
SPECIFICATION Spec
INVARIANT PlayersRegistered
SYMMETRY Sym
CHECK_DEADLOCK FALSE

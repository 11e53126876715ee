SPECIFICATION Spec
CONSTANTS
  s1 = s1
  s2 = s2
  s3 = s3
  a = a
  b = b
  Sessions = {s1, s2, s3}
  Players = {a, b}
  Rooms = {r1, r2}
  Groups = {g}
  Start = r1
  Owner <- MCOwner
  MaxCommands = 3
  None = None
INVARIANTS EventReaches OnlookersKnow
CHECK_DEADLOCK FALSE

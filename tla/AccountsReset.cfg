SPECIFICATION Spec
CONSTANTS
  AdminName = "admin"
  NoPassword = NoPassword
  Worker = {w1}
  Username = {"admin"}
  Password = {p1, p2}
  Session = {s1}
  MaxId = 1
  Operation = {"login", "reset"}
  Faults = {}
INVARIANTS ResetEndsLogins

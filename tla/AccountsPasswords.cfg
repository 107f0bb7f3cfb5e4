SPECIFICATION Spec
CONSTANTS
  AdminName = "admin"
  NoPassword = NoPassword
  Worker = {w1, w2}
  Username = {"admin"}
  Password = {p1, p2, p3}
  Session = {s1, s2}
  MaxId = 1
  Operation = {"login", "logout", "change_password", "reset"}
  Faults = {}
SYMMETRY Interchangeable
INVARIANTS PasswordIsTold

SPECIFICATION Spec
CONSTANTS
  AdminName = "admin"
  NoPassword = NoPassword
  Worker = {w1, w2}
  Username = {"admin", "u"}
  Password = {p1, p2}
  Session = {s1}
  MaxId = 2
  Operation = {"login", "logout", "create_user", "update_user", "delete_user", "create_token", "revoke_token"}
  Faults = {"db", "crash"}
SYMMETRY Interchangeable
INVARIANTS TypeOK OneAdmin OnlyAdminsAct
PROPERTIES AdminStays

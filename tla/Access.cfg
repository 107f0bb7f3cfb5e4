SPECIFICATION Spec
CONSTANTS
  Rank <- MCRank
  Worker = {w1, w2}
  Installs = w1
  Account = {admin, a, b}
  Admin = admin
  Token = {t}
  Project = {p, q}
  Version = {"1"}
  Filename = {f}
  Digest = {d1}
  MaxId = 2
  Operation <- MCOperation
  MaxLog = 1
SYMMETRY Interchangeable
INVARIANTS TypeOK GrantsStayWithTheirUser LogNamesTheCaller
PROPERTIES AccessIsTheCallers

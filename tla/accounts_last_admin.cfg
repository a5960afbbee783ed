SPECIFICATION Spec
CONSTANTS
  Users = {u1, u2, u3}
  Idents = {root, i1}
  Phones = {p1}
  Requests = {r1, r2}
  AdminUser = root
  Blank = Blank
  MaxAccounts = 2
  None = None
SYMMETRY Interchangeable
PROPERTY NeverDemotesTheLast

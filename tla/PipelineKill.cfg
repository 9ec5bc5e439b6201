CONSTANTS
  e1 = e1
  e2 = e2
  e3 = e3
  r1 = r1
  Email = {e1, e2, e3}
  NoEmail = NoEmail
  Ref = {r1}
  NoRef = NoRef
  Card = {c1, c2, c3}
  NoCard = NoCard
  Trusted = {e1, e2, e3}
  Noticed = {e1, e2, e3}
  Placed = {e1}
  Findable = {e3}
  Type <- MCType
  RefOf <- MCRefOf
  Date <- MCDate
  PageMax = 3
  MayFail <- AnyCall
  Budget <- KillBudget
  MaxKinds = 7
SPECIFICATION Spec
INVARIANTS OneCardPerClaim
SYMMETRY MCSymmetry

SPECIFICATION HoldSpec
CONSTANTS
  h1 = h1
  e1 = e1
  e2 = e2
  case1 = case1
  case2 = case1
  Case = {case1}
  Hold = {h1, h2}
  CaseOf <- MCCaseOf
  Evidence = {e1, e2, e3}
  Home <- MCHome
  Run = {r1, r2}
  MaxRuns = 3
INVARIANTS HoldsEnforced

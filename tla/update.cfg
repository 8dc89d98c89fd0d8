SPECIFICATION Spec
CONSTANTS
  l1 = l1
  l2 = l2
  e1 = e1
  e2 = e2
  e3 = e3
  e4 = e4
  Launches = {l1, l2}
  Nobody = Nobody
  Ordered <- MCOrdered
  Others <- MCOthers
  Count = 3
  Defects = {"path", "gpu"}
  Faults = {"kill", "write", "print", "nonfinite", "unchanged", "error"}
  MaxFaults = 2
SYMMETRY MCSymmetry
INVARIANTS
  ReportIsTrue
  OneLaunchPerDirectory

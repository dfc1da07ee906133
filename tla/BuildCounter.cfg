\* Three concurrent workflow runs, one of them started twice; two tries each.
SPECIFICATION Spec
CONSTANTS
  r1 = r1
  r2 = r2
  r3 = r3
  a1 = a1
  a2 = a2
  b1 = b1
  c1 = c1
  None = None
  Runs = {r1, r2, r3}
  Jobs = {a1, a2, b1, c1}
  RunOf <- RunOfJob
  MaxRetries = 2
  CommitMayFail = FALSE
INVARIANTS TypeOK NumberNamesRun RetriesJustified
PROPERTIES BranchOnlyGrows
SYMMETRY RunSymmetry

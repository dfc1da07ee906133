\* Two workflow runs; git may fail to write a commit.
SPECIFICATION Spec
CONSTANTS
  r1 = r1
  r2 = r2
  r3 = r3
  a1 = a1
  a2 = a2
  b1 = b1
  c1 = c1
  None = None
  Runs = {r1, r2}
  Jobs = {a1, b1}
  RunOf <- TwoRuns
  MaxRetries = 2
  CommitMayFail = TRUE
INVARIANTS NumberNamesRun

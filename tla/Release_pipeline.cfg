\* Two pushes of one commit, one of which is run again, one of another, and one failing job.
CONSTANTS
  run1 = run1  run2 = run2  run3 = run3
  Runs = {run1, run2, run3}
  CommitOf <- TwoPushes
  None = None
  RunAgain = {run1}
  MaxAttempts = 2
  MaxFaults = 1
SPECIFICATION Spec
INVARIANTS OneCommit ExactUnlessRebuilt

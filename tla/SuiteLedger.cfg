\* Two experiments, sessions of either or both, on two machines; a crash may
\* cut a line that is appended or the copy of the destination.
CONSTANTS
  Experiment = {e1, e2}
  Algorithm = {alg}
  Build = {m1, m2}
  Outcome <- SomeFail
  Faults = {"torn append", "torn copy"}
  MaxCrashes = 2
SPECIFICATION Spec
INVARIANT OneRecordPerRun
 

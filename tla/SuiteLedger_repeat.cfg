\* Crashes between any two steps or in the middle of a line; runs fail.
CONSTANTS
  Experiment = {e1, e2}
  Algorithm = {alg}
  Build = {m1}
  Outcome <- SomeFail
  Faults = {"torn append"}
  MaxCrashes = 3
SPECIFICATION RepeatSpec
PROPERTY PublishedUnlessIrreconcilable

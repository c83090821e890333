\* Two callers on one plan and one scratchpad.
SPECIFICATION SessionSpec
CONSTANTS
  Callers = {c1, c2}
  TaskNames = {"t"}
  FixBuildError = "Fix build error"
  Keys = {k, l}
  Values = {"v"}
  Updates <- MCUpdates
  FirstPlan <- MCFirstPlan
  MaxTasks = 2
INVARIANTS SessionTypeOK FixTasksDescribeFailures
PROPERTIES ImplementsAtomicFiles
SYMMETRY CallersAlike

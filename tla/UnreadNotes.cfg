\* The instance of Sessions.cfg.
SPECIFICATION SessionSpec
CONSTANTS
  Callers = {c1, c2}
  TaskNames = {"t"}
  FixBuildError = "Fix build error"
  Keys = {k, l}
  Values = {"v"}
  Updates <- MCUpdates
  FirstPlan <- MCFirstPlan
  MaxTasks = 2
INVARIANT NotesAreUpserted
SYMMETRY CallersAlike

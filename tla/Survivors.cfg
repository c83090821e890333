\* A shell and two jobs.
SPECIFICATION CommandSpec
CONSTANTS
  Shell = shell
  Jobs = {job1, job2}
INVARIANT NothingIsLeftRunning
\* A command that has returned, and whose processes have ended, is over.
CHECK_DEADLOCK FALSE

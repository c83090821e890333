\* A shell and two jobs of its own.
SPECIFICATION FairCommandSpec
CONSTANTS
  Shell = shell
  Jobs = {job1, job2}
INVARIANTS CommandTypeOK EscalationLeavesNobody InterruptedIsNoSuccess
PROPERTIES RunReturns ImplementsStoppableCommand
\* A command that has returned, and whose processes have ended, is over.
CHECK_DEADLOCK FALSE

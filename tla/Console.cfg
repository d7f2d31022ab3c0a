SPECIFICATION Spec
INVARIANTS IntrDiscipline SleepersAwaited
PROPERTIES TtySpec
VIEW MCView
CONSTANTS
  CPUs = {"c1", "c2"}
  Procs = {"p1", "p2"}
  Home <- MCHome
  Calls <- MCCalls
  Typed = {"x", "nl", "cr", "eof", "erase", "kill"}
  SIZE = 2
  TXSIZE = 1
  UINT = 4
  None = "none"
  Preempted = {"p1"}

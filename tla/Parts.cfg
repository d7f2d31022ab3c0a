SPECIFICATION PartsSpec
INVARIANTS LockDiscipline StacksExclusive ChildUsed CandidateIsBest
INVARIANTS  CopyExact BlocksExact TransactionFits HeapExact ParseExact RunExact DatetimeExact ImageExact GrepExact
PROPERTIES AddressSpaceSpec ByteFileSpec
VIEW MCView
CONSTANTS NPROC=2 NCPU=2 DefaultPriority=10 Priorities={5} Policies={1,2} MaxTicks=1

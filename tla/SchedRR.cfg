SPECIFICATION RRSpec
INVARIANTS BoundedBypass
PROPERTIES NoStarvation
CONSTANTS NPROC=3 NCPU=2 DefaultPriority=10 Priorities={} Policies={} MaxTicks=0

SPECIFICATION HistorySpec
INVARIANTS TimesExact MetricsConsistent
CONSTANTS NPROC=2 NCPU=2 UINT=4 Policies={1} Starts={0,3} MaxTicks=1 MaxForks=2

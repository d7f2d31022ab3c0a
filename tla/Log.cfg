SPECIFICATION Spec
INVARIANTS ReservationSuffices QuiescentIsClean
PROPERTIES AtomicDiskSpec
CONSTANTS Block={b1,b2,b3} Value={v0,v1} Torn=torn Absent=absent Proc={p1,p2,p3} MAXOPBLOCKS=2 LOGSIZE=4 nlog=4 OpBlocks=1

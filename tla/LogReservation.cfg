SPECIFICATION Spec
INVARIANTS ReservationSuffices
CONSTANTS Block={b1,b2,b3,b4,b5} Value={v0} Torn=torn Absent=absent Proc={p1,p2,p3} MAXOPBLOCKS=2 LOGSIZE=6 nlog=6 OpBlocks=2

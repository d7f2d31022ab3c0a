SPECIFICATION Spec
INVARIANTS WaitSound ParentsAlive
CONSTANTS NPROC=3 Calls={"fork","wait","sleep","kill","getppid","getptable"} KillPids={2,3} MaxPid=4

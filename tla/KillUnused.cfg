SPECIFICATION Spec
PROPERTIES BornNotKilled
CONSTANTS NPROC=3 Calls={"fork","kill"} KillPids={0} MaxPid=4
